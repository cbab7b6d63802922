------------------------- MODULE KDSoapClientInterface -------------------------
(***************************************************************************)
(* A KDSoapClientInterface with its three ways to call a service, used by  *)
(* one application thread: call() blocks that thread while the client      *)
(* thread works, asyncCall() and callNoReply() return to its event loop    *)
(* (src/src/KDSoapClient/KDSoapClientInterface.cpp).                       *)
(*                                                                         *)
(* The replies of the application's access manager make progress only in   *)
(* its event loop, those of the client thread only in the exec() there.    *)
(* The application may use a handle in any way, except to ask for the      *)
(* message of a call whose interface is gone.                              *)
(***************************************************************************)
EXTENDS KDSoapClientThread

VARIABLES
    kind,       \* kind[c]: how the application makes call c
    main,       \* what the application thread is in, and for which call
    returned,   \* returned[c]: what call() returned for c
    config      \* whether m_timeout >= 0, and hasAuth()

vars == <<callVars, workVars, kind, main, returned, config>>

TypeOK ==
    /\ CallTypeOK
    /\ ThreadTypeOK
    /\ kind \in [Calls -> {"none", "sync", "async", "noreply"}]
    /\ main \in [op: {"idle", "start", "acquire", "joining", "destroyed"}, call: Calls \cup {None}]
    /\ returned \in [Calls -> Outcomes \cup {"unset", "nothing"}]
    /\ config \in [timeout: BOOLEAN, hasAuth: BOOLEAN]

Init ==
    /\ CallInit
    /\ ThreadInit
    /\ kind = [c \in Calls |-> "none"]
    /\ main = [op |-> "idle", call |-> None]
    /\ returned = [c \in Calls |-> "nothing"]
    /\ config \in [timeout: BOOLEAN, hasAuth: BOOLEAN]

Idle == main.op = "idle"
Calling(c) == kind[c] = "none" /\ Idle

---------------------------------------------------------------------------
(* Mutant: leaves the cookie jar to whoever uses it first.                *)
callWithoutJar(c) ==
    /\ Calling(c)
    /\ kind' = [kind EXCEPT ![c] = "sync"]
    /\ main' = [op |-> "start", call |-> c]
    /\ taskData' = taskData \cup {c}
    /\ enqueue(c)
    /\ UNCHANGED <<callVars, jar, m_response, m_semaphore, returned, config>>

(* call(): makes the cookie jar, queues the task, starts the thread, and   *)
(* blocks in waitForCompletion().                                          *)
call(c) ==
    /\ Calling(c)
    /\ kind' = [kind EXCEPT ![c] = "sync"]
    /\ main' = [op |-> "start", call |-> c]
    /\ jar' = IF jar = "none" THEN "main" ELSE jar
    /\ taskData' = taskData \cup {c}
    /\ enqueue(c)
    /\ UNCHANGED <<callVars, m_response, m_semaphore, returned, config>>

startThread ==
    /\ main.op = "start"
    /\ main' = [main EXCEPT !.op = "acquire"]
    /\ thread' = IF At("off") THEN [thread EXCEPT !.pc = "check"] ELSE thread
    /\ UNCHANGED <<callVars, m_queue, m_stopThread, m_response, m_semaphore, taskData, jar, kind, returned, config>>

return ==
    /\ main.op = "acquire"
    /\ m_semaphore[main.call] > 0
    /\ m_semaphore' = [m_semaphore EXCEPT ![main.call] = @ - 1]
    /\ returned' = [returned EXCEPT ![main.call] = m_response[main.call]]
    /\ taskData' = taskData \ {main.call}
    /\ main' = [op |-> "idle", call |-> None]
    /\ UNCHANGED <<callVars, m_queue, m_stopThread, thread, m_response, jar, kind, config>>

asyncCall(c) ==
    /\ Calling(c)
    /\ kind' = [kind EXCEPT ![c] = "async"]
    /\ reply' = [reply EXCEPT ![c] = postedReply]
    /\ pending' = [pending EXCEPT ![c] = [openBuffer EXCEPT !.handles = 1]]
    /\ UNCHANGED <<fate, workVars, main, returned, config>>

(* The caller keeps nothing: the reply and its buffer belong to finished().*)
callNoReply(c) ==
    /\ Calling(c)
    /\ kind' = [kind EXCEPT ![c] = "noreply"]
    /\ reply' = [reply EXCEPT ![c] = postedReply]
    /\ pending' = [pending EXCEPT ![c] = openBuffer]
    /\ UNCHANGED <<fate, workVars, main, returned, config>>

---------------------------------------------------------------------------
(* The event loop that serves a reply runs.                               *)
Served(c) == IF kind[c] = "sync" THEN At("exec") /\ thread.task = c ELSE Idle

(* finished(): a slot of the client thread takes over, the application's   *)
(* watcher is notified, or nobody waits.                                   *)
replyFinished(c, r) ==
    /\ Served(c)
    /\ IF kind[c] = "noreply" THEN finishUnwatched(c, r) ELSE finish(c, r)
    /\ IF kind[c] = "sync" THEN Goes("store") ELSE UNCHANGED thread
    /\ UNCHANGED <<m_queue, m_stopThread, m_response, m_semaphore, taskData, jar, kind, main, returned, config>>

answered(c) == \E r \in Answers(c) : replyFinished(c, r)
refused(c) == \E r \in Refusals(c, config.hasAuth) : replyFinished(c, r)
challenged(c) == Served(c) /\ challenge(c) /\ UNCHANGED <<workVars, kind, main, returned, config>>
authenticate(c) == Served(c) /\ addAuth(c, config.hasAuth) /\ UNCHANGED <<workVars, kind, main, returned, config>>

(* Mutant: marks the reply and does not abort it.                         *)
replyTimeoutMarks(c) ==
    /\ config.timeout
    /\ Served(c)
    /\ reply[c].state \in {"running", "challenged", "finished"}
    /\ reply' = [reply EXCEPT ![c].timedOut = TRUE]
    /\ UNCHANGED <<pending, fate, workVars, kind, main, returned, config>>

replyTimeout(c) ==
    /\ config.timeout
    /\ \/ Unfinished(c) /\ replyFinished(c, Expired(c))
       \/ Served(c) /\ expireFinished(c) /\ UNCHANGED <<workVars, kind, main, returned, config>>

network(c) == answered(c) \/ refused(c) \/ challenged(c) \/ authenticate(c)

---------------------------------------------------------------------------
(* What the application does with its handles and watchers.               *)
useHandle(c) ==
    /\ kind[c] = "async"
    /\ Idle
    /\ \/ copy(c)
       \/ watch(c)
       \/ Owned(pending[c]) /\ parseReply(c)
    /\ UNCHANGED <<workVars, kind, main, returned, config>>

releaseHandle(c) ==
    /\ kind[c] = "async"
    /\ main.op \in {"idle", "destroyed"}
    /\ dropHandle(c) \/ dropWatcher(c)
    /\ UNCHANGED <<workVars, kind, main, returned, config>>

(* ~KDSoapClientInterface(): stop(), wait(), delete d with the access      *)
(* manager and the replies it owns.                                        *)
destroy ==
    /\ Idle
    /\ main' = [main EXCEPT !.op = "joining"]
    /\ stop
    /\ UNCHANGED <<callVars, m_response, m_semaphore, taskData, jar, kind, returned, config>>

deletePrivate ==
    /\ main.op = "joining"
    /\ thread.pc \in {"off", "ended"}
    /\ main' = [main EXCEPT !.op = "destroyed"]
    /\ reply' = [c \in Calls |-> IF kind[c] \in {"async", "noreply"} THEN DeletedReply ELSE reply[c]]
    /\ UNCHANGED <<pending, fate, workVars, kind, returned, config>>

(* The application is done with the interface and all its handles.        *)
Terminated ==
    /\ main.op = "destroyed"
    /\ \A c \in Calls : ~ Owned(pending[c])
    /\ UNCHANGED vars

threadStep == (wait \/ break \/ dequeue \/ process \/ store \/ release \/ taskDone) /\ UNCHANGED <<kind, main, returned, config>>

Next ==
    \/ \E c \in Calls : call(c) \/ asyncCall(c) \/ callNoReply(c)
    \/ startThread
    \/ return
    \/ \E c \in Calls : network(c) \/ replyTimeout(c)
    \/ \E c \in Calls : useHandle(c) \/ releaseHandle(c)
    \/ destroy
    \/ deletePrivate
    \/ threadStep
    \/ Terminated

Spec == Init /\ [][Next]_vars

(* The client thread and the blocked application thread are scheduled and  *)
(* timers expire; servers need to react only where there is no timeout.    *)
(* The application may stop calling, and need not destroy anything.        *)
Fairness ==
    /\ WF_vars(threadStep)
    /\ WF_vars(startThread)
    /\ WF_vars(return)
    /\ WF_vars(deletePrivate)
    /\ \A c \in Calls : WF_vars(~ config.timeout /\ network(c)) /\ WF_vars(replyTimeout(c))

FairSpec == Spec /\ Fairness

---------------------------------------------------------------------------
(* Every reader of a reply gets what the reply ended as: call() returns    *)
(* it, and a handle reports it however late the message is asked for, even *)
(* when the timer has marked the reply after it finished.                  *)
AnswerIsReplys ==
    \A c \in Calls :
        /\ returned[c] \in {"nothing", fate[c]}
        /\ pending[c].message \in {"unparsed", fate[c]}

(* The client thread uses a task's data and the semaphore in it only while *)
(* the call() that owns them has not returned.                             *)
TaskAlive == thread.pc \in {"process", "exec", "store", "release"} => thread.task \in taskData

(* The interface and the cookie jar are not locked: the client thread      *)
(* works on a request only while the application thread is blocked in the  *)
(* call() for it, so the two access managers never share the jar at once.  *)
BlockedWhileWorking ==
    thread.pc \in {"process", "exec"} => main.op \in {"start", "acquire"} /\ main.call = thread.task

(* The cookie jar belongs to the application's thread.                     *)
JarOfMain == jar # "thread"

(* A watcher hears of a reply at most once, and never of one that was      *)
(* cancelled by dropping its last owner.                                   *)
QuietCancel == \A c \in Calls : pending[c].notified <= (IF fate[c] = "unknown" THEN 0 ELSE 1)

(* A running reply reads its request from a buffer that still exists, and  *)
(* what the owners of an asynchronous call share lives while one of them   *)
(* and the interface do.                                                   *)
SharedWhileOwned ==
    \A c \in Calls :
        /\ Unfinished(c) => pending[c].buffer = "open"
        /\ Owned(pending[c]) => /\ pending[c].buffer = "open"
                                /\ main.op # "destroyed" => reply[c].state # "deleted"

(* Every call() returns, ...                                               *)
CallReturns == \A c \in Calls : kind[c] = "sync" ~> returned[c] # "nothing"

(* ... the destructor comes to its end, ...                                *)
DestructorReturns == main.op = "joining" ~> main.op = "destroyed"

(* ... and a watcher that connected in time is notified, unless it or the  *)
(* interface goes first.                                                   *)
WatchedIsNotified ==
    \A c \in Calls :
        pending[c].watcher = "connected" ~>
            \/ pending[c].notified = 1
            \/ pending[c].watcher = "none"
            \/ main.op = "destroyed"
=============================================================================
