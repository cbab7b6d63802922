-------------------------- MODULE KDSoapClient_proofs --------------------------
(***************************************************************************)
(* Safety of the client, for any number of calls, any responses and any    *)
(* number of handles.                                                      *)
(*                                                                         *)
(* The argument is a hand-over: a synchronous call is in the queue, or in  *)
(* a working task, or released, and in the first two cases the application *)
(* thread is blocked in it with no permit to go on (HandOver).  A reply    *)
(* has one life - not posted, unfinished, finished, deleted - in which its *)
(* fate is decided once (OneFate), and nobody reads it before that.        *)
(***************************************************************************)
EXTENDS KDSoapClientInterface, TLAPS

Working == {"process", "exec", "store", "release"}
InCall == main.op \in {"start", "acquire"}
Unposted(c) == reply[c].state = "none"

(* The two threads: which of them has the call, and what it may rely on.   *)
HandOver ==
    /\ InCall => /\ main.call \in Calls
                 /\ main.call \in taskData
                 /\ kind[main.call] = "sync"
                 /\ jar = "main"
    /\ m_queue # <<>> => /\ InCall
                         /\ m_queue = <<main.call>>
                         /\ Unposted(main.call)
                         /\ m_semaphore[main.call] = 0
                         /\ thread.pc \notin Working
    /\ thread.pc \in Working => /\ InCall
                                /\ main.call = thread.task
                                /\ m_semaphore[thread.task] = 0
    /\ At("quit") => thread.task \in Calls /\ ~ Unposted(thread.task)
    /\ At("process") => Unposted(thread.task)
    /\ thread.pc \in {"store", "release"} => reply[thread.task].state = "finished"
    /\ At("release") => m_response[thread.task] = fate[thread.task]
    /\ jar # "thread"

(* One call: its reply, the permit of its caller, and what readers saw.    *)
OneFate(c) ==
    /\ kind[c] = "none" => Unposted(c) /\ m_semaphore[c] = 0
    /\ Unposted(c) \/ Unfinished(c) =>
        /\ fate[c] = "unknown"
        /\ pending[c].message = "unparsed"
        /\ pending[c].notified = 0
        /\ returned[c] = "nothing"
        /\ m_semaphore[c] = 0
    /\ reply[c].state = "finished" =>
        /\ fate[c] = Outcome(reply[c])
        /\ reply[c].error = "canceled" => reply[c].timedOut
    /\ m_semaphore[c] > 0 => m_response[c] = fate[c]
    /\ pending[c].message \in {"unparsed", fate[c]}
    /\ returned[c] \in {"nothing", fate[c]}
    /\ pending[c].notified <= (IF fate[c] = "unknown" THEN 0 ELSE 1)

(* One call: its owners and what they share.                              *)
Ownership(c) ==
    /\ Unfinished(c) => pending[c].buffer = "open"
    /\ Owned(pending[c]) => /\ pending[c].buffer = "open"
                            /\ main.op # "destroyed" => reply[c].state # "deleted"
    /\ kind[c] = "noreply" => ~ Owned(pending[c])

Inv ==
    /\ TypeOK
    /\ HandOver
    /\ \A c \in Calls : OneFate(c) /\ Ownership(c)

---------------------------------------------------------------------------
USE DEF callVars, workVars, At, Goes, InCall, Working, Unposted, Unfinished, Owned

(* What parseReply() makes of a reply is one of the outcomes.              *)
LEMMA OutcomeType ==
    ASSUME NEW r \in Reply
    PROVE  Outcome(r) \in Outcomes
BY DEF Reply, Outcome, Outcomes

(* The records that post() and ~Private() assign have their types.         *)
LEMMA RecordTypes ==
    /\ NoReply \in Reply /\ postedReply \in Reply /\ DeletedReply \in Reply
    /\ NoPending \in Pending /\ openBuffer \in Pending
    /\ [openBuffer EXCEPT !.watcher = "connected"] \in Pending
    /\ [openBuffer EXCEPT !.handles = 1] \in Pending
<1>1. NoReply \in Reply
  BY DEF NoReply, Reply
<1>2. postedReply \in Reply /\ DeletedReply \in Reply
  BY <1>1 DEF postedReply, DeletedReply, Reply
<1>3. NoPending \in Pending
  BY DEF NoPending, Pending, Outcomes
<1>4. openBuffer \in Pending
  BY <1>3 DEF openBuffer, Pending
<1>5. [openBuffer EXCEPT !.watcher = "connected"] \in Pending
  BY <1>4 DEF Pending
<1>6. [openBuffer EXCEPT !.handles = 1] \in Pending
  BY <1>4 DEF Pending
<1> QED
  BY <1>1, <1>2, <1>3, <1>4, <1>5, <1>6

(* An owner that leaves changes its own call only, and destroys the reply  *)
(* exactly if nobody is left.                                              *)
LEMMA LeaveFacts ==
    ASSUME CallTypeOK, NEW c \in Calls, NEW p \in Pending, leave(c, p)
    PROVE  /\ CallTypeOK'
           /\ fate' = fate
           /\ \A k \in Calls \ {c} : reply'[k] = reply[k] /\ pending'[k] = pending[k]
           /\ Owned(p) => reply'[c] = reply[c] /\ pending'[c] = p
           /\ ~ Owned(p) => /\ reply'[c].state = "deleted"
                            /\ pending'[c] = [p EXCEPT !.buffer = "freed", !.message = "unparsed"]
<1>1. [p EXCEPT !.buffer = "freed", !.message = "unparsed"] \in Pending
  BY DEF Pending
<1>2. CASE Owned(p)
  BY <1>2 DEF leave, CallTypeOK
<1>3. CASE ~ Owned(p)
  <2>1. DeletedReply.state = "deleted"
    BY DEF DeletedReply, NoReply
  <2>2. /\ reply' = [reply EXCEPT ![c] = DeletedReply]
        /\ pending' = [pending EXCEPT ![c] = [p EXCEPT !.buffer = "freed", !.message = "unparsed"]]
        /\ fate' = fate
    BY <1>3 DEF leave, destroyPrivate
  <2>3. CallTypeOK'
    BY <1>1, <2>2, RecordTypes DEF CallTypeOK
  <2> QED
    BY <1>3, <2>1, <2>2, <2>3 DEF CallTypeOK
<1> QED
  BY <1>2, <1>3

(* Initially no call has been made.                                        *)
LEMMA InitInv == Init => Inv
<1> SUFFICES ASSUME Init PROVE Inv
  OBVIOUS
<1>1. TypeOK
  <2>1. CallTypeOK
    BY RecordTypes DEF Init, CallInit, CallTypeOK
  <2>2. ThreadTypeOK
    <3>1. m_queue \in Seq(Calls) /\ m_semaphore \in [Calls -> Nat] /\ m_response \in [Calls -> Outcomes \cup {"unset"}]
      BY DEF Init, ThreadInit
    <3>2. thread = [pc |-> "off", task |-> None] /\ m_stopThread = FALSE /\ taskData = {} /\ jar = "none"
      BY DEF Init, ThreadInit
    <3> QED
      BY <3>1, <3>2 DEF ThreadTypeOK
  <2> QED
    BY <2>1, <2>2 DEF Init, TypeOK
<1>2. HandOver
  BY DEF Init, CallInit, ThreadInit, HandOver, NoReply
<1>3. ASSUME NEW k \in Calls PROVE OneFate(k) /\ Ownership(k)
  BY DEF Init, CallInit, ThreadInit, OneFate, Ownership, NoReply, NoPending
<1> QED
  BY <1>1, <1>2, <1>3 DEF Inv

---------------------------------------------------------------------------
(* The thread falls asleep.                                                *)
LEMMA WaitStep ==
    ASSUME Inv, wait, UNCHANGED <<kind, main, returned, config>>
    PROVE  Inv'
<1>1. TypeOK'
  BY DEF Inv, HandOver, TypeOK, CallTypeOK, ThreadTypeOK, wait
<1>2. HandOver'
  BY DEF Inv, HandOver, OneFate, TypeOK, CallTypeOK, ThreadTypeOK, wait
<1>3. ASSUME NEW k \in Calls PROVE OneFate(k)'
  BY DEF Inv, HandOver, OneFate, TypeOK, CallTypeOK, ThreadTypeOK, wait
<1>4. ASSUME NEW k \in Calls PROVE Ownership(k)'
  BY DEF Inv, HandOver, OneFate, Ownership, TypeOK, CallTypeOK, ThreadTypeOK, wait
<1> QED
  BY <1>1, <1>2, <1>3, <1>4 DEF Inv

(* The thread leaves its loop.                                             *)
LEMMA BreakStep ==
    ASSUME Inv, break, UNCHANGED <<kind, main, returned, config>>
    PROVE  Inv'
<1>1. TypeOK'
  BY DEF Inv, HandOver, TypeOK, CallTypeOK, ThreadTypeOK, break
<1>2. HandOver'
  BY DEF Inv, HandOver, OneFate, TypeOK, CallTypeOK, ThreadTypeOK, break
<1>3. ASSUME NEW k \in Calls PROVE OneFate(k)'
  BY DEF Inv, HandOver, OneFate, TypeOK, CallTypeOK, ThreadTypeOK, break
<1>4. ASSUME NEW k \in Calls PROVE Ownership(k)'
  BY DEF Inv, HandOver, OneFate, Ownership, TypeOK, CallTypeOK, ThreadTypeOK, break
<1> QED
  BY <1>1, <1>2, <1>3, <1>4 DEF Inv

(* The thread takes the call the application is blocked in.                *)
LEMMA DequeueStep ==
    ASSUME Inv, dequeue, UNCHANGED <<kind, main, returned, config>>
    PROVE  Inv'
<1>0. /\ InCall
      /\ thread' = [pc |-> "process", task |-> main.call]
      /\ m_queue' = <<>>
      /\ Unposted(main.call)
      /\ m_semaphore[main.call] = 0
      /\ main.call \in Calls
  <2>1. InCall /\ m_queue = <<main.call>> /\ Unposted(main.call) /\ m_semaphore[main.call] = 0 /\ main.call \in Calls
    BY DEF Inv, HandOver, dequeue
  <2>3. Head(m_queue) = main.call /\ Tail(m_queue) = <<>>
    BY <2>1
  <2> QED
    BY <2>1, <2>3 DEF dequeue
<1>1. TypeOK'
  BY <1>0 DEF Inv, HandOver, TypeOK, CallTypeOK, ThreadTypeOK, dequeue
<1>2. HandOver'
  BY <1>0 DEF Inv, HandOver, OneFate, TypeOK, CallTypeOK, ThreadTypeOK, dequeue
<1>3. ASSUME NEW k \in Calls PROVE OneFate(k)'
  BY <1>0 DEF Inv, HandOver, OneFate, TypeOK, CallTypeOK, ThreadTypeOK, dequeue
<1>4. ASSUME NEW k \in Calls PROVE Ownership(k)'
  BY <1>0 DEF Inv, HandOver, OneFate, Ownership, TypeOK, CallTypeOK, ThreadTypeOK, dequeue
<1> QED
  BY <1>1, <1>2, <1>3, <1>4 DEF Inv

(* The thread posts the request.                                           *)
LEMMA ProcessStep ==
    ASSUME Inv, process, UNCHANGED <<kind, main, returned, config>>
    PROVE  Inv'
<1>1. TypeOK'
  BY RecordTypes DEF Inv, HandOver, TypeOK, CallTypeOK, ThreadTypeOK, process, postedReply, openBuffer, NoReply, NoPending
<1>2. HandOver'
  BY DEF Inv, HandOver, OneFate, TypeOK, CallTypeOK, ThreadTypeOK, process, postedReply, openBuffer, NoReply, NoPending
<1>3. ASSUME NEW k \in Calls PROVE OneFate(k)'
  BY DEF Inv, HandOver, OneFate, TypeOK, CallTypeOK, ThreadTypeOK, process, postedReply, openBuffer, NoReply, NoPending
<1>4. ASSUME NEW k \in Calls PROVE Ownership(k)'
  BY DEF Inv, HandOver, OneFate, Ownership, TypeOK, CallTypeOK, ThreadTypeOK, process, postedReply, openBuffer, NoReply, NoPending
<1> QED
  BY <1>1, <1>2, <1>3, <1>4 DEF Inv

(* The response is stored.                                                 *)
LEMMA StoreStep ==
    ASSUME Inv, store, UNCHANGED <<kind, main, returned, config>>
    PROVE  Inv'
<1>0. /\ thread.task \in Calls
      /\ Outcome(reply[thread.task]) = fate[thread.task]
      /\ fate[thread.task] \in Outcomes
      /\ pending' \in [Calls -> Pending]
      /\ pending' = [pending EXCEPT ![thread.task] = [pending[thread.task] EXCEPT !.message = fate[thread.task]]]
  <2>1. thread.task \in Calls /\ reply[thread.task].state = "finished"
    BY DEF Inv, HandOver, TypeOK, ThreadTypeOK, store
  <2>2. Outcome(reply[thread.task]) = fate[thread.task] /\ fate[thread.task] \in Outcomes
    BY <2>1, OutcomeType DEF Inv, OneFate, TypeOK, CallTypeOK
  <2>3. [pending[thread.task] EXCEPT !.message = fate[thread.task]] \in Pending
    BY SMTT(30), <2>1, <2>2 DEF Inv, TypeOK, CallTypeOK, Pending
  <2>4. pending' = [pending EXCEPT ![thread.task] = [pending[thread.task] EXCEPT !.message = fate[thread.task]]]
    BY <2>1, <2>2 DEF store
  <2> QED
    BY <2>1, <2>2, <2>3, <2>4 DEF Inv, TypeOK, CallTypeOK
<1>1. TypeOK'
  BY <1>0 DEF Inv, HandOver, TypeOK, CallTypeOK, ThreadTypeOK, store
<1>2. HandOver'
  BY <1>0 DEF Inv, HandOver, OneFate, TypeOK, CallTypeOK, ThreadTypeOK, store
<1>3. ASSUME NEW k \in Calls PROVE OneFate(k)'
  BY <1>0 DEF Inv, HandOver, OneFate, TypeOK, CallTypeOK, ThreadTypeOK, store
<1>4. ASSUME NEW k \in Calls PROVE Ownership(k)'
  BY <1>0 DEF Inv, HandOver, OneFate, Ownership, TypeOK, CallTypeOK, ThreadTypeOK, store
<1> QED
  BY <1>1, <1>2, <1>3, <1>4 DEF Inv

(* The caller is released.                                                 *)
LEMMA ReleaseStep ==
    ASSUME Inv, release, UNCHANGED <<kind, main, returned, config>>
    PROVE  Inv'
<1>0. /\ thread.task \in Calls
      /\ m_semaphore' \in [Calls -> Nat]
  <2>1. thread.task \in Calls /\ m_semaphore[thread.task] \in Nat
    BY DEF Inv, HandOver, TypeOK, ThreadTypeOK, release
  <2> QED
    BY <2>1 DEF Inv, TypeOK, ThreadTypeOK, release
<1>1. TypeOK'
  BY <1>0 DEF Inv, HandOver, TypeOK, CallTypeOK, ThreadTypeOK, release
<1>2. HandOver'
  BY <1>0 DEF Inv, HandOver, OneFate, TypeOK, CallTypeOK, ThreadTypeOK, release
<1>3. ASSUME NEW k \in Calls PROVE OneFate(k)'
  BY <1>0 DEF Inv, HandOver, OneFate, TypeOK, CallTypeOK, ThreadTypeOK, release
<1>4. ASSUME NEW k \in Calls PROVE Ownership(k)'
  BY <1>0 DEF Inv, HandOver, OneFate, Ownership, TypeOK, CallTypeOK, ThreadTypeOK, release
<1> QED
  BY <1>1, <1>2, <1>3, <1>4 DEF Inv

(* The task is destroyed, and its watcher with it.                         *)
LEMMA TaskDoneStep ==
    ASSUME Inv, taskDone, UNCHANGED <<kind, main, returned, config>>
    PROVE  Inv'
<1> DEFINE p == [pending[thread.task] EXCEPT !.watcher = "none"]
<1>a. thread.task \in Calls /\ leave(thread.task, p) /\ CallTypeOK
  BY DEF Inv, HandOver, TypeOK, taskDone, dropWatcher
<1>b. p \in Pending
  BY <1>a DEF CallTypeOK, Pending
<1>c. /\ CallTypeOK'
      /\ fate' = fate
      /\ \A k \in Calls \ {thread.task} : reply'[k] = reply[k] /\ pending'[k] = pending[k]
      /\ Owned(p) => reply'[thread.task] = reply[thread.task] /\ pending'[thread.task] = p
      /\ ~ Owned(p) => /\ reply'[thread.task].state = "deleted"
                       /\ pending'[thread.task] = [p EXCEPT !.buffer = "freed", !.message = "unparsed"]
  BY <1>a, <1>b, LeaveFacts
<1>d. /\ p.buffer = pending[thread.task].buffer
      /\ p.message = pending[thread.task].message
      /\ p.notified = pending[thread.task].notified
      /\ Owned(p) => Owned(pending[thread.task])
  BY <1>a DEF CallTypeOK, Pending
<1>e. ~ Owned(p) => /\ ~ Owned(pending'[thread.task])
                    /\ pending'[thread.task].message = "unparsed"
                    /\ pending'[thread.task].notified = p.notified
  BY <1>b, <1>c DEF Pending
<1> HIDE DEF p
<1>0. /\ thread.task \in Calls
      /\ CallTypeOK'
      /\ fate' = fate
      /\ \A k \in Calls \ {thread.task} : reply'[k] = reply[k] /\ pending'[k] = pending[k]
      /\ \/ /\ reply'[thread.task] = reply[thread.task]
            /\ pending'[thread.task].buffer = pending[thread.task].buffer
            /\ pending'[thread.task].message = pending[thread.task].message
            /\ pending'[thread.task].notified = pending[thread.task].notified
            /\ Owned(pending[thread.task])
         \/ /\ reply'[thread.task].state = "deleted"
            /\ ~ Owned(pending'[thread.task])
            /\ pending'[thread.task].message = "unparsed"
            /\ pending'[thread.task].notified = pending[thread.task].notified
  BY <1>a, <1>c, <1>d, <1>e
<1>1. TypeOK'
  BY <1>0 DEF Inv, HandOver, TypeOK, CallTypeOK, ThreadTypeOK, taskDone
<1>2. HandOver'
  <2>1. At("quit") /\ At("check")' /\ UNCHANGED <<main, kind, jar, m_queue, m_semaphore, taskData>>
    BY DEF taskDone
  <2>2. m_queue # <<>> => main.call \in Calls \ {thread.task}
    BY <2>1 DEF Inv, HandOver
  <2>3. m_queue # <<>> => reply'[main.call] = reply[main.call]
    BY <1>0, <2>2
  <2> QED
    BY <2>1, <2>3 DEF Inv, HandOver
<1>3. ASSUME NEW k \in Calls PROVE OneFate(k)'
  <2>1. CASE k # thread.task
    <3>1. reply'[k] = reply[k] /\ pending'[k] = pending[k] /\ fate'[k] = fate[k]
      BY <1>0, <2>1
    <3>2. m_semaphore' = m_semaphore /\ m_response' = m_response /\ kind' = kind /\ returned' = returned /\ main' = main
      BY DEF taskDone
    <3>3. OneFate(k)
      BY DEF Inv
    <3> QED
      BY <3>1, <3>2, <3>3 DEF OneFate
  <2>2. CASE k = thread.task
    BY <1>0, <2>2 DEF Inv, HandOver, OneFate, Ownership, TypeOK, CallTypeOK, ThreadTypeOK, taskDone
  <2> QED
    BY <2>1, <2>2
<1>4. ASSUME NEW k \in Calls PROVE Ownership(k)'
  <2>1. CASE k # thread.task
    <3>1. reply'[k] = reply[k] /\ pending'[k] = pending[k] /\ fate'[k] = fate[k]
      BY <1>0, <2>1
    <3>2. m_semaphore' = m_semaphore /\ m_response' = m_response /\ kind' = kind /\ returned' = returned /\ main' = main
      BY DEF taskDone
    <3>3. Ownership(k)
      BY DEF Inv
    <3> QED
      BY <3>1, <3>2, <3>3 DEF Ownership
  <2>2. CASE k = thread.task
    BY <1>0, <2>2 DEF Inv, HandOver, OneFate, Ownership, TypeOK, CallTypeOK, ThreadTypeOK, taskDone
  <2> QED
    BY <2>1, <2>2
<1> QED
  BY <1>1, <1>2, <1>3, <1>4 DEF Inv

(* call() enqueues.                                                        *)
LEMMA CallStep ==
    ASSUME Inv, NEW c \in Calls, call(c)
    PROVE  Inv'
<1>a. m_queue = <<>> /\ thread.pc \notin Working
  BY DEF Inv, HandOver, call, Calling, Idle
<1>0. m_queue' = <<c>> /\ m_queue' \in Seq(Calls) /\ thread.pc \notin Working
  BY <1>a DEF call, enqueue
<1>1. TypeOK'
  <2>1. thread' \in [pc: {"off", "check", "asleep", "process", "exec", "store", "release", "quit", "ended"},
                      task: Calls \cup {None}]
    BY DEF Inv, TypeOK, ThreadTypeOK, call, enqueue, Wakes
  <2>2. ThreadTypeOK'
    BY <1>0, <2>1 DEF Inv, TypeOK, ThreadTypeOK, call, enqueue
  <2>3. CallTypeOK'
    BY DEF Inv, TypeOK, CallTypeOK, call
  <2>. QED
    BY <2>2, <2>3 DEF Inv, TypeOK, call, Calling
<1>2. HandOver'
  BY <1>0 DEF Inv, HandOver, OneFate, TypeOK, CallTypeOK, ThreadTypeOK, call, Calling, Idle, enqueue, Wakes
<1>3. ASSUME NEW k \in Calls PROVE OneFate(k)'
  BY <1>0 DEF Inv, HandOver, OneFate, TypeOK, CallTypeOK, ThreadTypeOK, call, Calling, Idle, enqueue, Wakes
<1>4. ASSUME NEW k \in Calls PROVE Ownership(k)'
  BY <1>0 DEF Inv, HandOver, OneFate, Ownership, TypeOK, CallTypeOK, ThreadTypeOK, call, Calling, Idle, enqueue, Wakes
<1> QED
  BY <1>1, <1>2, <1>3, <1>4 DEF Inv

(* call() starts the thread.                                               *)
LEMMA StartStep ==
    ASSUME Inv, startThread
    PROVE  Inv'
<1>1. TypeOK'
  BY DEF Inv, HandOver, TypeOK, CallTypeOK, ThreadTypeOK, startThread
<1>2. HandOver'
  BY DEF Inv, HandOver, OneFate, TypeOK, CallTypeOK, ThreadTypeOK, startThread
<1>3. ASSUME NEW k \in Calls PROVE OneFate(k)'
  BY DEF Inv, HandOver, OneFate, TypeOK, CallTypeOK, ThreadTypeOK, startThread
<1>4. ASSUME NEW k \in Calls PROVE Ownership(k)'
  BY DEF Inv, HandOver, OneFate, Ownership, TypeOK, CallTypeOK, ThreadTypeOK, startThread
<1> QED
  BY <1>1, <1>2, <1>3, <1>4 DEF Inv

(* call() returns.                                                         *)
LEMMA ReturnStep ==
    ASSUME Inv, return
    PROVE  Inv'
<1>1. TypeOK'
  BY DEF Inv, HandOver, TypeOK, CallTypeOK, ThreadTypeOK, return
<1>2. HandOver'
  BY DEF Inv, HandOver, OneFate, TypeOK, CallTypeOK, ThreadTypeOK, return
<1>3. ASSUME NEW k \in Calls PROVE OneFate(k)'
  BY DEF Inv, HandOver, OneFate, TypeOK, CallTypeOK, ThreadTypeOK, return
<1>4. ASSUME NEW k \in Calls PROVE Ownership(k)'
  BY DEF Inv, HandOver, OneFate, Ownership, TypeOK, CallTypeOK, ThreadTypeOK, return
<1> QED
  BY <1>1, <1>2, <1>3, <1>4 DEF Inv

(* asyncCall() posts.                                                      *)
LEMMA AsyncStep ==
    ASSUME Inv, NEW c \in Calls, asyncCall(c)
    PROVE  Inv'
<1>1. TypeOK'
  BY RecordTypes DEF Inv, HandOver, TypeOK, CallTypeOK, ThreadTypeOK, asyncCall, Calling, Idle, postedReply, openBuffer, NoReply, NoPending
<1>2. HandOver'
  BY DEF Inv, HandOver, OneFate, TypeOK, CallTypeOK, ThreadTypeOK, asyncCall, Calling, Idle, postedReply, openBuffer, NoReply, NoPending
<1>3. ASSUME NEW k \in Calls PROVE OneFate(k)'
  BY DEF Inv, HandOver, OneFate, TypeOK, CallTypeOK, ThreadTypeOK, asyncCall, Calling, Idle, postedReply, openBuffer, NoReply, NoPending
<1>4. ASSUME NEW k \in Calls PROVE Ownership(k)'
  BY DEF Inv, HandOver, OneFate, Ownership, TypeOK, CallTypeOK, ThreadTypeOK, asyncCall, Calling, Idle, postedReply, openBuffer, NoReply, NoPending
<1> QED
  BY <1>1, <1>2, <1>3, <1>4 DEF Inv

(* callNoReply() posts.                                                    *)
LEMMA NoReplyStep ==
    ASSUME Inv, NEW c \in Calls, callNoReply(c)
    PROVE  Inv'
<1>1. TypeOK'
  BY RecordTypes DEF Inv, HandOver, TypeOK, CallTypeOK, ThreadTypeOK, callNoReply, Calling, Idle, postedReply, openBuffer, NoReply, NoPending
<1>2. HandOver'
  BY DEF Inv, HandOver, OneFate, TypeOK, CallTypeOK, ThreadTypeOK, callNoReply, Calling, Idle, postedReply, openBuffer, NoReply, NoPending
<1>3. ASSUME NEW k \in Calls PROVE OneFate(k)'
  BY DEF Inv, HandOver, OneFate, TypeOK, CallTypeOK, ThreadTypeOK, callNoReply, Calling, Idle, postedReply, openBuffer, NoReply, NoPending
<1>4. ASSUME NEW k \in Calls PROVE Ownership(k)'
  BY DEF Inv, HandOver, OneFate, Ownership, TypeOK, CallTypeOK, ThreadTypeOK, callNoReply, Calling, Idle, postedReply, openBuffer, NoReply, NoPending
<1> QED
  BY <1>1, <1>2, <1>3, <1>4 DEF Inv

---------------------------------------------------------------------------
(* An unfinished reply ends as r: its fate is decided now, and nobody has  *)
(* read it yet.                                                            *)
LEMMA EndStep ==
    ASSUME Inv, NEW c \in Calls, NEW r \in Reply, Unfinished(c), replyFinished(c, r),
           r.error = "canceled" => r.timedOut
    PROVE  Inv'
<1> DEFINE ended == [r EXCEPT !.state = "finished"]
           heard == [pending[c] EXCEPT !.notified = 1]
           freed == [pending[c] EXCEPT !.buffer = "freed"]
<1>1. /\ ended \in Reply /\ ended.state = "finished" /\ Outcome(ended) = Outcome(r)
      /\ ended.error = "canceled" => ended.timedOut
  BY DEF Reply, Outcome
<1>2. Outcome(r) \in Outcomes /\ Outcome(r) # "unknown"
  BY OutcomeType DEF Outcomes
<1>3. pending[c] \in Pending /\ pending[c].notified = 0 /\ pending[c].message = "unparsed"
  BY DEF Inv, OneFate, TypeOK, CallTypeOK
<1>4. /\ heard \in Pending /\ freed \in Pending
      /\ heard.notified = 1 /\ heard.message = "unparsed" /\ freed.message = "unparsed" /\ freed.notified = 0
      /\ heard.buffer = pending[c].buffer
      /\ Owned(heard) = Owned(pending[c]) /\ Owned(freed) = Owned(pending[c])
  BY <1>3 DEF Pending
<1>5. /\ fate' = [fate EXCEPT ![c] = Outcome(r)]
      /\ kind[c] = "noreply" => /\ reply' = [reply EXCEPT ![c] = DeletedReply]
                                /\ pending' = [pending EXCEPT ![c] = freed]
      /\ kind[c] # "noreply" => /\ reply' = [reply EXCEPT ![c] = ended]
                                /\ pending' = [pending EXCEPT ![c] = heard] \/ pending' = pending
      /\ UNCHANGED <<m_queue, m_stopThread, m_response, m_semaphore, taskData, jar, kind, main, returned, config>>
  BY <1>3 DEF replyFinished, finish, finishUnwatched
<1>6. /\ kind[c] = "sync" => At("exec") /\ thread.task = c /\ thread' = [thread EXCEPT !.pc = "store"]
      /\ kind[c] # "sync" => thread' = thread
  BY DEF replyFinished, Served
<1>7. DeletedReply.state = "deleted" /\ DeletedReply \in Reply
  BY RecordTypes DEF DeletedReply, NoReply
<1> HIDE DEF ended, heard, freed
<1>8. /\ CallTypeOK'
      /\ fate'[c] = Outcome(r)
      /\ \A k \in Calls : k # c => reply'[k] = reply[k] /\ pending'[k] = pending[k] /\ fate'[k] = fate[k]
      /\ kind[c] = "noreply" => reply'[c] = DeletedReply /\ pending'[c] = freed
      /\ kind[c] # "noreply" => reply'[c] = ended /\ pending'[c] \in {heard, pending[c]}
  BY <1>1, <1>2, <1>4, <1>5, <1>7 DEF Inv, TypeOK, CallTypeOK
<1>9. TypeOK'
  <2>1. thread' \in [pc: {"off", "check", "asleep", "process", "exec", "store", "release", "quit", "ended"},
                      task: Calls \cup {None}]
    BY <1>6 DEF Inv, TypeOK, ThreadTypeOK
  <2>2. ThreadTypeOK'
    BY <1>5, <2>1 DEF Inv, TypeOK, ThreadTypeOK
  <2>. QED
    BY <1>5, <1>8, <2>2 DEF Inv, TypeOK
<1>10. HandOver'
  <2>1. m_queue # <<>> => main.call # c
    BY DEF Inv, HandOver
  <2>2. m_queue # <<>> => reply'[main.call] = reply[main.call]
    BY <1>8, <2>1 DEF Inv, HandOver
  <2>3. CASE kind[c] = "sync"
    BY <1>1, <1>5, <1>6, <1>8, <2>2, <2>3 DEF Inv, HandOver, TypeOK, ThreadTypeOK
  <2>4. CASE kind[c] # "sync"
    <3>1. thread.pc \in Working => main.call # c
      BY <2>4 DEF Inv, HandOver
    <3>2. At("quit") => ~ Unposted(thread.task)'
      <4>1. ~ Unposted(c)'
        BY <1>1, <1>7, <1>8
      <4>2. ASSUME At("quit") PROVE thread.task \in Calls /\ ~ Unposted(thread.task) /\ thread' = thread
        BY <1>6, <2>4, <4>2 DEF Inv, HandOver
      <4> QED
        BY <1>8, <4>1, <4>2
    <3>3. thread.pc \in Working => reply'[thread.task] = reply[thread.task] /\ fate'[thread.task] = fate[thread.task]
      BY <1>8, <3>1 DEF Inv, HandOver
    <3> QED
      BY <1>5, <1>6, <2>2, <2>4, <3>2, <3>3 DEF Inv, HandOver
  <2> QED
    BY <2>3, <2>4
<1>11. ASSUME NEW k \in Calls PROVE OneFate(k)'
  <2>1. CASE k # c
    BY <1>5, <1>8, <2>1 DEF Inv, OneFate
  <2>2. CASE k = c
    <3>1. m_semaphore[c] = 0 /\ returned[c] = "nothing" /\ kind[c] # "none" /\ m_semaphore' = m_semaphore /\ returned' = returned /\ kind' = kind
      BY <1>5 DEF Inv, OneFate
    <3>2. pending'[c].message = "unparsed" /\ pending'[c].notified \in {0, 1} /\ fate'[c] # "unknown"
      BY <1>2, <1>3, <1>4, <1>8
    <3>3. reply'[c].state = "deleted" \/ reply'[c] = ended
      BY <1>7, <1>8
    <3> QED
      BY <1>1, <1>8, <2>2, <3>1, <3>2, <3>3 DEF OneFate
  <2> QED
    BY <2>1, <2>2
<1>12. ASSUME NEW k \in Calls PROVE Ownership(k)'
  <2>1. CASE k # c
    BY <1>5, <1>8, <2>1 DEF Inv, Ownership
  <2>2. CASE k = c
    BY <1>1, <1>4, <1>5, <1>7, <1>8, <2>2 DEF Inv, Ownership
  <2> QED
    BY <2>1, <2>2
<1> QED
  BY <1>9, <1>10, <1>11, <1>12 DEF Inv

(* Whatever the server or the timer does ends a reply in a type that       *)
(* parseReply() understands.                                               *)
LEMMA EndsTyped ==
    ASSUME TypeOK, NEW c \in Calls
    PROVE  /\ \A r \in Answers(c) : Unfinished(c) /\ r \in Reply /\ r.error # "canceled"
           /\ \A r \in Refusals(c, config.hasAuth) : Unfinished(c) /\ r \in Reply /\ r.error # "canceled"
           /\ Expired(c) \in Reply /\ Expired(c).timedOut
<1>1. reply[c] \in Reply
  BY DEF TypeOK, CallTypeOK
<1>2. \A a \in Responses : a.error \in {"none", "failed"} /\ a.data \in {"empty", "message", "fault"}
  BY CallAssumption DEF AllResponses
<1>3. \A a \in Responses :
        /\ [reply[c] EXCEPT !.error = a.error, !.data = a.data] \in Reply
        /\ [reply[c] EXCEPT !.error = a.error, !.data = a.data].error # "canceled"
        /\ [reply[c] EXCEPT !.error = "refused", !.data = a.data] \in Reply
        /\ [reply[c] EXCEPT !.error = "refused", !.data = a.data].error # "canceled"
  BY <1>1, <1>2 DEF Reply
<1>4. Expired(c) \in Reply /\ Expired(c).timedOut
  BY <1>1 DEF Expired, Reply
<1> QED
  BY <1>3, <1>4 DEF Answers, Refusals

---------------------------------------------------------------------------
(* A step that only changes the reply of one posted call c, without        *)
(* finishing or deleting it, or marks a finished one.                      *)
LEMMA MarkStep ==
    ASSUME Inv, NEW c \in Calls, NEW r \in Reply,
           reply' = [reply EXCEPT ![c] = r],
           UNCHANGED <<pending, fate, workVars, kind, main, returned, config>>,
           \/ Unfinished(c) /\ r.state \in {"running", "challenged"}
           \/ /\ reply[c].state = "finished" /\ r.state = "finished"
              /\ Outcome(r) = Outcome(reply[c])
              /\ r.timedOut
    PROVE  Inv'
<1>1. reply' \in [Calls -> Reply] /\ reply'[c] = r /\ \A k \in Calls \ {c} : reply'[k] = reply[k]
  BY DEF Inv, TypeOK, CallTypeOK
<1>2. TypeOK'
  BY <1>1 DEF Inv, TypeOK, CallTypeOK, ThreadTypeOK
<1>3. ~ Unposted(c) /\ \A k \in Calls : Unposted(k)' <=> Unposted(k)
  BY <1>1
<1>4. \A k \in Calls : reply[k].state = "finished" <=> reply'[k].state = "finished"
  BY <1>1
<1>5. \A k \in Calls : Unfinished(k) <=> Unfinished(k)'
  BY <1>1
<1>6. \A k \in Calls : reply[k].state = "deleted" <=> reply'[k].state = "deleted"
  BY <1>1
<1>7. HandOver'
  BY <1>3, <1>4 DEF Inv, HandOver
<1>8. ASSUME NEW k \in Calls PROVE OneFate(k)'
  BY <1>1, <1>3, <1>4, <1>5 DEF Inv, OneFate
<1>9. ASSUME NEW k \in Calls PROVE Ownership(k)'
  BY <1>5, <1>6 DEF Inv, Ownership
<1> QED
  BY <1>2, <1>7, <1>8, <1>9 DEF Inv

(* A step that only changes what an application holds of one asynchronous  *)
(* call: more owners, or the message of a finished reply.                  *)
LEMMA HoldStep ==
    ASSUME Inv, NEW c \in Calls, NEW p \in Pending,
           pending' = [pending EXCEPT ![c] = p],
           UNCHANGED <<reply, fate, workVars, kind, main, returned, config>>,
           kind[c] = "async",
           Owned(p) => Owned(pending[c]),
           p.buffer = pending[c].buffer,
           p.notified = pending[c].notified,
           \/ p.message = pending[c].message
           \/ reply[c].state = "finished" /\ p.message = fate[c]
    PROVE  Inv'
<1>1. pending' \in [Calls -> Pending] /\ pending'[c] = p /\ \A k \in Calls \ {c} : pending'[k] = pending[k]
  BY DEF Inv, TypeOK, CallTypeOK
<1>2. TypeOK'
  BY <1>1 DEF Inv, TypeOK, CallTypeOK, ThreadTypeOK
<1>3. HandOver'
  BY DEF Inv, HandOver
<1>4. ASSUME NEW k \in Calls PROVE OneFate(k)'
  BY <1>1 DEF Inv, OneFate
<1>5. ASSUME NEW k \in Calls PROVE Ownership(k)'
  BY <1>1 DEF Inv, Ownership
<1> QED
  BY <1>2, <1>3, <1>4, <1>5 DEF Inv

(* What the network does to a reply.                                       *)
LEMMA NetworkStep ==
    ASSUME Inv, NEW c \in Calls, network(c)
    PROVE  Inv'
<1>1. TypeOK /\ reply[c] \in Reply
  BY DEF Inv, TypeOK, CallTypeOK
<1>2. CASE answered(c)
  BY <1>1, <1>2, EndStep, EndsTyped DEF answered
<1>3. CASE refused(c)
  BY <1>1, <1>3, EndStep, EndsTyped DEF refused
<1>4. CASE challenged(c)
  <2>1. [reply[c] EXCEPT !.state = "challenged"] \in Reply
    BY <1>1 DEF Reply
  <2>2. [reply[c] EXCEPT !.state = "challenged"].state = "challenged"
    BY <1>1 DEF Reply
  <2>3. reply' = [reply EXCEPT ![c] = [reply[c] EXCEPT !.state = "challenged"]] /\ Unfinished(c)
    BY <1>4 DEF challenged, challenge
  <2>4. UNCHANGED <<pending, fate, workVars, kind, main, returned, config>>
    BY <1>4 DEF challenged, challenge
  <2> QED
    BY <2>1, <2>2, <2>3, <2>4, MarkStep
<1>5. CASE authenticate(c)
  <2> DEFINE r == [reply[c] EXCEPT !.state = "running", !.authAdded = TRUE]
  <2>1. r \in Reply /\ r.state = "running"
    BY <1>1 DEF Reply
  <2>2. reply' = [reply EXCEPT ![c] = r] /\ Unfinished(c)
    BY <1>1, <1>5 DEF authenticate, addAuth, Inv, TypeOK, CallTypeOK
  <2>3. UNCHANGED <<pending, fate, workVars, kind, main, returned, config>>
    BY <1>5 DEF authenticate, addAuth
  <2> HIDE DEF r
  <2> QED
    BY <2>1, <2>2, <2>3, MarkStep
<1> QED
  BY <1>2, <1>3, <1>4, <1>5 DEF network

(* The timer ends an unfinished reply, or marks a finished one, whose      *)
(* outcome does not depend on the mark.                                    *)
LEMMA TimeoutStep ==
    ASSUME Inv, NEW c \in Calls, replyTimeout(c)
    PROVE  Inv'
<1>1. TypeOK /\ reply[c] \in Reply
  BY DEF Inv, TypeOK, CallTypeOK
<1>2. CASE Unfinished(c) /\ replyFinished(c, Expired(c))
  BY <1>1, <1>2, EndStep, EndsTyped
<1>3. CASE expireFinished(c) /\ UNCHANGED <<workVars, kind, main, returned, config>>
  <2> DEFINE r == [reply[c] EXCEPT !.timedOut = TRUE]
  <2>1. r \in Reply /\ r.state = reply[c].state /\ r.error = reply[c].error /\ r.data = reply[c].data /\ r.timedOut = TRUE
    BY <1>1 DEF Reply
  <2>2. reply[c].state = "finished" /\ ~ reply[c].timedOut /\ reply[c].error # "canceled"
    BY <1>3 DEF expireFinished, Inv, OneFate
  <2>3. Outcome(r) = Outcome(reply[c])
    BY <2>1, <2>2 DEF Outcome
  <2>4. reply' = [reply EXCEPT ![c] = r] /\ UNCHANGED <<pending, fate, workVars, kind, main, returned, config>>
    BY <1>3 DEF expireFinished
  <2> HIDE DEF r
  <2> QED
    BY <2>1, <2>2, <2>3, <2>4, MarkStep
<1> QED
  BY <1>2, <1>3 DEF replyTimeout

(* The application copies, watches or reads.                               *)
LEMMA UseStep ==
    ASSUME Inv, NEW c \in Calls, useHandle(c)
    PROVE  Inv'
<1>1. pending[c] \in Pending /\ reply[c] \in Reply
  BY DEF Inv, TypeOK, CallTypeOK
<1>2. kind[c] = "async" /\ UNCHANGED <<workVars, kind, main, returned, config>>
  BY DEF useHandle
<1>3. CASE copy(c)
  <2> DEFINE p == [pending[c] EXCEPT !.handles = @ + 1]
  <2>1. p \in Pending /\ p.buffer = pending[c].buffer /\ p.notified = pending[c].notified /\ p.message = pending[c].message
    BY <1>1 DEF Pending
  <2>2. Owned(pending[c])
    BY <1>1, <1>3, CallAssumption DEF copy, Pending
  <2>3. pending' = [pending EXCEPT ![c] = p] /\ UNCHANGED <<reply, fate>>
    BY <1>3 DEF copy
  <2> HIDE DEF p
  <2> QED
    BY <1>2, <2>1, <2>2, <2>3, HoldStep
<1>4. CASE watch(c)
  <2> DEFINE p == [pending[c] EXCEPT !.watcher = IF Unfinished(c) THEN "connected" ELSE "late"]
  <2>1. p \in Pending /\ p.buffer = pending[c].buffer /\ p.notified = pending[c].notified /\ p.message = pending[c].message
    BY <1>1 DEF Pending
  <2>2. Owned(pending[c])
    BY <1>4 DEF watch
  <2>3. pending' = [pending EXCEPT ![c] = p] /\ UNCHANGED <<reply, fate>>
    BY <1>4 DEF watch
  <2> HIDE DEF p
  <2> QED
    BY <1>2, <2>1, <2>2, <2>3, HoldStep
<1>5. CASE Owned(pending[c]) /\ parseReply(c)
  <2> DEFINE p == [pending[c] EXCEPT !.message = Outcome(reply[c])]
  <2>1. p \in Pending /\ p.buffer = pending[c].buffer /\ p.notified = pending[c].notified /\ p.message = Outcome(reply[c])
    BY <1>1, OutcomeType DEF Pending
  <2>2. reply[c].state = "finished" /\ Outcome(reply[c]) = fate[c]
    BY <1>5 DEF parseReply, Inv, OneFate
  <2>3. pending' = [pending EXCEPT ![c] = p] /\ UNCHANGED <<reply, fate>>
    BY <1>5 DEF parseReply
  <2> HIDE DEF p
  <2> QED
    BY <1>2, <1>5, <2>1, <2>2, <2>3, HoldStep
<1> QED
  BY <1>3, <1>4, <1>5 DEF useHandle

(* The application drops a handle or a watcher.                            *)
LEMMA ReleaseHandleStep ==
    ASSUME Inv, NEW c \in Calls, releaseHandle(c)
    PROVE  Inv'
<1>1. pending[c] \in Pending /\ CallTypeOK
  BY DEF Inv, TypeOK, CallTypeOK
<1>2. PICK p \in Pending :
        /\ leave(c, p)
        /\ p.buffer = pending[c].buffer /\ p.notified = pending[c].notified /\ p.message = pending[c].message
        /\ Owned(pending[c])
  <2>1. CASE dropHandle(c)
    <3>1. [pending[c] EXCEPT !.handles = @ - 1] \in Pending
      BY <1>1, <2>1 DEF dropHandle, Pending
    <3> QED
      BY <1>1, <2>1, <3>1 DEF dropHandle, Pending
  <2>2. CASE dropWatcher(c)
    <3>1. [pending[c] EXCEPT !.watcher = "none"] \in Pending
      BY <1>1 DEF Pending
    <3> QED
      BY <1>1, <2>2, <3>1 DEF dropWatcher, Pending
  <2> QED
    BY <2>1, <2>2 DEF releaseHandle
<1>3. /\ kind[c] = "async" /\ ~ InCall
      /\ UNCHANGED <<workVars, kind, main, returned, config>>
  BY DEF releaseHandle
<1>4. /\ CallTypeOK' /\ fate' = fate
      /\ \A k \in Calls \ {c} : reply'[k] = reply[k] /\ pending'[k] = pending[k]
      /\ Owned(p) => reply'[c] = reply[c] /\ pending'[c] = p
      /\ ~ Owned(p) => /\ reply'[c].state = "deleted"
                       /\ pending'[c] = [p EXCEPT !.buffer = "freed", !.message = "unparsed"]
  BY <1>1, <1>2, LeaveFacts
<1>5. ~ Owned(p) => /\ ~ Owned(pending'[c])
                    /\ pending'[c].message = "unparsed"
                    /\ pending'[c].notified = p.notified
  BY <1>2, <1>4 DEF Pending
<1>6. TypeOK'
  BY <1>3, <1>4 DEF Inv, TypeOK, ThreadTypeOK
<1>7. HandOver'
  <2>1. thread.pc \notin Working /\ m_queue = <<>>
    BY <1>3 DEF Inv, HandOver
  <2>2. At("quit") => ~ Unposted(thread.task)'
    <3>1. At("quit") => thread.task \in Calls /\ ~ Unposted(thread.task) /\ thread' = thread
      BY <1>3 DEF Inv, HandOver
    <3>2. ~ Unposted(c) => ~ Unposted(c)'
      BY <1>4
    <3> QED
      BY <1>4, <3>1, <3>2
  <2> QED
    BY <1>3, <2>1, <2>2 DEF Inv, HandOver
<1>8. ASSUME NEW k \in Calls PROVE OneFate(k)'
  <2>1. CASE k # c
    BY <1>3, <1>4, <2>1 DEF Inv, OneFate
  <2>2. CASE k = c
    BY <1>2, <1>3, <1>4, <1>5, <2>2 DEF Inv, OneFate
  <2> QED
    BY <2>1, <2>2
<1>9. ASSUME NEW k \in Calls PROVE Ownership(k)'
  <2>1. CASE k # c
    BY <1>3, <1>4, <2>1 DEF Inv, Ownership
  <2>2. CASE k = c
    BY <1>2, <1>3, <1>4, <1>5, <2>2 DEF Inv, Ownership
  <2> QED
    BY <2>1, <2>2
<1> QED
  BY <1>6, <1>7, <1>8, <1>9 DEF Inv

(* The destructor stops the thread, ...                                    *)
LEMMA DestroyStep ==
    ASSUME Inv, destroy
    PROVE  Inv'
<1>1. TypeOK'
  BY DEF Inv, TypeOK, CallTypeOK, ThreadTypeOK, destroy, stop, Wakes
<1>2. HandOver'
  BY DEF Inv, HandOver, TypeOK, ThreadTypeOK, destroy, stop, Wakes, Idle
<1>3. ASSUME NEW k \in Calls PROVE OneFate(k)'
  BY DEF Inv, OneFate, destroy, stop
<1>4. ASSUME NEW k \in Calls PROVE Ownership(k)'
  BY DEF Inv, Ownership, destroy, stop, Idle
<1> QED
  BY <1>1, <1>2, <1>3, <1>4 DEF Inv

(* ... and deletes the replies of the application's access manager.        *)
LEMMA DeleteStep ==
    ASSUME Inv, deletePrivate
    PROVE  Inv'
<1>1. /\ main'.op = "destroyed" /\ main.op = "joining" /\ thread.pc \in {"off", "ended"}
      /\ main' \in [op : {"idle", "start", "acquire", "joining", "destroyed"}, call : Calls \cup {None}]
      /\ UNCHANGED <<pending, fate, workVars, kind, returned, config>>
  BY DEF Inv, TypeOK, deletePrivate
<1>2. /\ reply' \in [Calls -> Reply]
      /\ \A k \in Calls : \/ reply'[k] = reply[k]
                          \/ kind[k] # "none" /\ reply'[k].state = "deleted"
  <2>1. DeletedReply \in Reply /\ DeletedReply.state = "deleted"
    BY RecordTypes DEF DeletedReply, NoReply
  <2> QED
    BY <2>1 DEF deletePrivate, Inv, TypeOK, CallTypeOK
<1>3. TypeOK'
  BY <1>1, <1>2 DEF Inv, TypeOK, CallTypeOK, ThreadTypeOK
<1>4. HandOver'
  BY <1>1 DEF Inv, HandOver
<1>5. ASSUME NEW k \in Calls PROVE OneFate(k)'
  BY <1>1, <1>2 DEF Inv, OneFate
<1>6. ASSUME NEW k \in Calls PROVE Ownership(k)'
  BY <1>1, <1>2 DEF Inv, Ownership
<1> QED
  BY <1>3, <1>4, <1>5, <1>6 DEF Inv

---------------------------------------------------------------------------
(* Inv is preserved by every step.                                         *)
LEMMA NextInv ==
    ASSUME Inv, [Next]_vars
    PROVE  Inv'
<1>1. CASE threadStep
  BY <1>1, WaitStep, BreakStep, DequeueStep, ProcessStep, StoreStep, ReleaseStep, TaskDoneStep DEF threadStep
<1>2. CASE \E c \in Calls : call(c) \/ asyncCall(c) \/ callNoReply(c)
  BY <1>2, CallStep, AsyncStep, NoReplyStep
<1>3. CASE \E c \in Calls : network(c) \/ replyTimeout(c)
  BY <1>3, NetworkStep, TimeoutStep
<1>4. CASE \E c \in Calls : useHandle(c) \/ releaseHandle(c)
  BY <1>4, UseStep, ReleaseHandleStep
<1>5. CASE UNCHANGED vars
  BY SMTT(30), <1>5 DEF vars, Inv, TypeOK, CallTypeOK, ThreadTypeOK, HandOver, OneFate, Ownership
<1> QED
  BY <1>1, <1>2, <1>3, <1>4, <1>5, StartStep, ReturnStep, DestroyStep, DeleteStep DEF Next, Terminated

(* The inductive invariant of the client holds in every reachable state.   *)
THEOREM InvHolds == Spec => []Inv
<1>1. Init => Inv
  BY InitInv
<1>2. Inv /\ [Next]_vars => Inv'
  BY NextInv
<1> QED
  BY <1>1, <1>2, PTL DEF Spec

(* Every variable of the client keeps its type.                            *)
THEOREM ClientTypes == Spec => []TypeOK
<1>1. Inv => TypeOK
  BY DEF Inv, TypeOK
<1> QED
  BY <1>1, InvHolds, PTL

(* call() returns, and a handle reports, what the reply ended as, whatever *)
(* the timer does afterwards.                                              *)
THEOREM AnswersAreReplies == Spec => []AnswerIsReplys
<1>1. Inv => AnswerIsReplys
  BY DEF Inv, AnswerIsReplys, OneFate
<1> QED
  BY <1>1, InvHolds, PTL

(* The client thread never uses the data of a task whose call() returned.  *)
THEOREM TasksAlive == Spec => []TaskAlive
<1>1. Inv => TaskAlive
  BY DEF Inv, TaskAlive, HandOver
<1> QED
  BY <1>1, InvHolds, PTL

(* The client thread works on a request only while its caller is blocked.  *)
THEOREM InterfaceNotShared == Spec => []BlockedWhileWorking
<1>1. Inv => BlockedWhileWorking
  BY DEF Inv, BlockedWhileWorking, HandOver
<1> QED
  BY <1>1, InvHolds, PTL

(* A watcher is notified at most once, and never of a cancelled call.      *)
THEOREM NoNoiseAfterCancel == Spec => []QuietCancel
<1>1. Inv => QuietCancel
  BY DEF Inv, QuietCancel, OneFate
<1> QED
  BY <1>1, InvHolds, PTL

(* A running reply has its buffer; owners of a call share a living reply.  *)
THEOREM BuffersOutliveReplies == Spec => []SharedWhileOwned
<1>1. Inv => SharedWhileOwned
  BY DEF Inv, SharedWhileOwned, Ownership
<1> QED
  BY <1>1, InvHolds, PTL

(* The cookie jar the threads share is made by the application's thread.   *)
THEOREM JarInMain == Spec => []JarOfMain
<1>1. Inv => JarOfMain
  BY DEF Inv, JarOfMain, HandOver
<1> QED
  BY <1>1, InvHolds, PTL

=============================================================================
