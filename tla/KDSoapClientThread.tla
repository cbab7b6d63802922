-------------------------- MODULE KDSoapClientThread --------------------------
(***************************************************************************)
(* The thread that runs the synchronous calls of an interface: the queue   *)
(* of KDSoapThreadTaskData, the wait condition, and the KDSoapThreadTask   *)
(* on the thread's stack (src/src/KDSoapClient/KDSoapClientThread.cpp).    *)
(*                                                                         *)
(* What happens under m_mutex is one step; m_response and m_semaphore are  *)
(* used without it, so storing a response and releasing the caller are two.*)
(***************************************************************************)
EXTENDS KDSoapPendingCall, Sequences

CONSTANT None       \* no call

VARIABLES
    m_queue,        \* calls enqueued, oldest first
    m_stopThread,
    thread,         \* where the thread is, and the call of its task
    m_response,     \* m_response[c]: of the task data of c
    m_semaphore,    \* m_semaphore[c]: permits
    taskData,       \* the calls whose KDSoapThreadTaskData exists
    jar             \* the thread that created the shared cookie jar

workVars == <<m_queue, m_stopThread, thread, m_response, m_semaphore, taskData, jar>>

ThreadTypeOK ==
    /\ m_queue \in Seq(Calls)
    /\ m_stopThread \in BOOLEAN
    /\ thread \in [pc: {"off", "check", "asleep", "process", "exec", "store", "release", "quit", "ended"},
                   task: Calls \cup {None}]
    /\ m_response \in [Calls -> Outcomes \cup {"unset"}]
    /\ m_semaphore \in [Calls -> Nat]
    /\ taskData \subseteq Calls
    /\ jar \in {"none", "main", "thread"}

ThreadInit ==
    /\ m_queue = <<>>
    /\ m_stopThread = FALSE
    /\ thread = [pc |-> "off", task |-> None]
    /\ m_response = [c \in Calls |-> "unset"]
    /\ m_semaphore = [c \in Calls |-> 0]
    /\ taskData = {}
    /\ jar = "none"

At(pc) == thread.pc = pc
Goes(pc) == thread' = [thread EXCEPT !.pc = pc]
Wakes == thread' = IF At("asleep") THEN [thread EXCEPT !.pc = "check"] ELSE thread

(* wakeOne() and wakeAll(): there is one thread to wake.                  *)
enqueue(c) ==
    /\ m_queue' = Append(m_queue, c)
    /\ Wakes
    /\ UNCHANGED m_stopThread

(* Mutant: the thread is not woken.                                       *)
stopSilently ==
    /\ m_stopThread' = TRUE
    /\ UNCHANGED <<thread, m_queue>>

stop ==
    /\ m_stopThread' = TRUE
    /\ Wakes
    /\ UNCHANGED m_queue

---------------------------------------------------------------------------
wait ==
    /\ At("check")
    /\ ~ m_stopThread
    /\ m_queue = <<>>
    /\ Goes("asleep")
    /\ UNCHANGED <<callVars, m_queue, m_stopThread, m_response, m_semaphore, taskData, jar>>

break ==
    /\ At("check")
    /\ m_stopThread
    /\ Goes("ended")
    /\ UNCHANGED <<callVars, m_queue, m_stopThread, m_response, m_semaphore, taskData, jar>>

dequeue ==
    /\ At("check")
    /\ ~ m_stopThread
    /\ m_queue # <<>>
    /\ thread' = [pc |-> "process", task |-> Head(m_queue)]
    /\ m_queue' = Tail(m_queue)
    /\ UNCHANGED <<callVars, m_stopThread, m_response, m_semaphore, taskData, jar>>

(* Mutant: the caller may go as soon as its request is sent.              *)
processAndRelease ==
    /\ At("process")
    /\ jar' = IF jar = "none" THEN "thread" ELSE jar
    /\ reply' = [reply EXCEPT ![thread.task] = postedReply]
    /\ pending' = [pending EXCEPT ![thread.task] = [openBuffer EXCEPT !.watcher = "connected"]]
    /\ m_semaphore' = [m_semaphore EXCEPT ![thread.task] = 1]
    /\ Goes("exec")
    /\ UNCHANGED <<fate, m_queue, m_stopThread, m_response, taskData>>

(* process() uses the interface and its access manager, and leaves the     *)
(* watcher as the only owner of the call.                                  *)
process ==
    /\ At("process")
    /\ jar' = IF jar = "none" THEN "thread" ELSE jar
    /\ reply' = [reply EXCEPT ![thread.task] = postedReply]
    /\ pending' = [pending EXCEPT ![thread.task] = [openBuffer EXCEPT !.watcher = "connected"]]
    /\ Goes("exec")
    /\ UNCHANGED <<fate, m_queue, m_stopThread, m_response, m_semaphore, taskData>>

(* Mutant: stores and releases in the other order.                        *)
releaseFirst ==
    /\ At("store")
    /\ m_semaphore' = [m_semaphore EXCEPT ![thread.task] = @ + 1]
    /\ Goes("release")
    /\ UNCHANGED <<callVars, m_queue, m_stopThread, m_response, taskData, jar>>

(* slotFinished(): returnMessage(), then release(), then taskDone().      *)
store ==
    /\ At("store")
    /\ m_response' = [m_response EXCEPT ![thread.task] = Outcome(reply[thread.task])]
    /\ pending' = [pending EXCEPT ![thread.task].message = Outcome(reply[thread.task])]
    /\ Goes("release")
    /\ UNCHANGED <<reply, fate, m_queue, m_stopThread, m_semaphore, taskData, jar>>

release ==
    /\ At("release")
    /\ m_semaphore' = [m_semaphore EXCEPT ![thread.task] = @ + 1]
    /\ Goes("quit")
    /\ UNCHANGED <<callVars, m_queue, m_stopThread, m_response, taskData, jar>>

(* exec() returns; the task goes out of scope with its child watcher, the  *)
(* last owner of the call.                                                 *)
taskDone ==
    /\ At("quit")
    /\ dropWatcher(thread.task)
    /\ thread' = [pc |-> "check", task |-> None]
    /\ UNCHANGED <<m_queue, m_stopThread, m_response, m_semaphore, taskData, jar>>
=============================================================================
