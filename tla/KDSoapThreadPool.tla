--------------------------- MODULE KDSoapThreadPool ---------------------------
(***************************************************************************)
(* KDSoapThreadPool (src/src/KDSoapServer/KDSoapThreadPool.cpp) on top of  *)
(* its threads.  Every operation runs in the thread of the servers, called *)
(* "main" here, while the worker threads go on: the two loops that read a  *)
(* count from every thread are taken one thread at a time, each read       *)
(* protected by that thread's mutex and by nothing else.  "main" is the    *)
(* activation record of the operation main is in.                          *)
(***************************************************************************)
EXTENDS KDSoapServerThread

CONSTANTS ThreadLimits   \* the values passed to setMaxThreadCount()

ASSUME PoolAssumption == ThreadLimits \subseteq Int /\ ThreadLimits # {}

VARIABLES
    m_maxThreadCount,
    main   \* op: what main is doing, next: loop index, num: numSockets or
           \* minSocketCount, best: bestThread or 0, conn / srv: parameters

poolVars == <<m_maxThreadCount, main>>

Idle == [op |-> "idle", next |-> 0, num |-> 0, best |-> 0, conn |-> None, srv |-> None]

Activation ==
    [op : {"idle", "count", "choose", "wait", "quit", "ended"}, next : Nat, num : Int,
     best : Nat, conn : Conns \cup {None}, srv : Servers \cup {None}]

PoolTypeOK ==
    /\ m_maxThreadCount \in ThreadLimits
    /\ main \in Activation

setMaxThreadCount(n) ==
    /\ main.op = "idle"
    /\ m_maxThreadCount' = n
    /\ UNCHANGED <<main, threadVars>>

(* numConnectedSockets(server), one thread of m_threads per step.         *)
countThread ==
    /\ main.op = "count"
    /\ main.next \in Threads
    /\ main' = [main EXCEPT !.num = main.num + socketCountForServer(main.next, ServerOf[main.conn]),
                            !.next = main.next + 1]
    /\ UNCHANGED <<m_maxThreadCount, threadVars>>

(* Mutant: the loop goes on after an idling thread was found and used.    *)
takeIdlingNoBreak ==
    /\ main.op = "choose"
    /\ main.next \in Threads
    /\ socketCount(main.next) = 0
    /\ giveTo(main.next, main.conn)
    /\ main' = [main EXCEPT !.next = @ + 1]
    /\ UNCHANGED m_maxThreadCount

(* chooseNextThread: an idling thread is taken at once ...                *)
takeIdling ==
    /\ main.op = "choose"
    /\ main.next \in Threads
    /\ socketCount(main.next) = 0
    /\ giveTo(main.next, main.conn)
    /\ main' = Idle
    /\ UNCHANGED m_maxThreadCount

(* ... otherwise the least loaded one seen so far is remembered ...       *)
lookAtBusy ==
    /\ main.op = "choose"
    /\ main.next \in Threads
    /\ LET sc == socketCount(main.next)
           better == main.best = 0 \/ sc < main.num IN
        /\ sc # 0
        /\ main' = [main EXCEPT !.num = IF better THEN sc ELSE main.num,
                                !.best = IF better THEN main.next ELSE main.best,
                                !.next = main.next + 1]
    /\ UNCHANGED <<m_maxThreadCount, threadVars>>

(* Mutant: one thread too many.                                            *)
atLimitOffByOne == main.best # 0 /\ Len(queue) = m_maxThreadCount + 1

(* ... and used when the pool is at its limit ...                         *)
atLimit == main.best # 0 /\ Len(queue) = m_maxThreadCount

takeLeastLoaded ==
    /\ main.op = "choose"
    /\ main.next \notin Threads
    /\ atLimit
    /\ giveTo(main.best, main.conn)
    /\ main' = Idle
    /\ UNCHANGED m_maxThreadCount

(* ... or else a thread is created.                                       *)
createThread ==
    /\ main.op = "choose"
    /\ main.next \notin Threads
    /\ ~ atLimit
    /\ startThreadWith(main.conn)
    /\ main' = Idle
    /\ UNCHANGED m_maxThreadCount

handleIncomingConnectionInPool(c) ==
    main' = [Idle EXCEPT !.op = "choose", !.next = 1, !.conn = c]

(* Mutants: main does not wait for the threads, or not for all of them.   *)
disconnectSocketsNoWait(s) ==
    /\ postToAll(Disconnect(s))
    /\ readyThreads' = 0
    /\ main' = Idle
    /\ UNCHANGED <<m_maxThreadCount, incoming, sockets, busy, running, delayed, peerClosed>>

acquireOneLess ==
    /\ main.op = "wait"
    /\ readyThreads >= Len(queue) - 1
    /\ main' = Idle
    /\ UNCHANGED <<m_maxThreadCount, threadVars>>

(* disconnectSockets(server): post to every thread, then block.           *)
disconnectSockets(s) ==
    /\ postToAll(Disconnect(s))
    /\ readyThreads' = 0
    /\ main' = [Idle EXCEPT !.op = "wait", !.srv = s]
    /\ UNCHANGED <<m_maxThreadCount, incoming, sockets, busy, running, delayed, peerClosed>>

acquireReadyThreads ==
    /\ main.op = "wait"
    /\ readyThreads >= Len(queue)
    /\ main' = Idle
    /\ UNCHANGED <<m_maxThreadCount, threadVars>>

(* ~KDSoapThreadPool: quitThread() on all, then wait() for all.           *)
destroyPool ==
    /\ main.op = "idle"
    /\ postToAll(Quit)
    /\ main' = [Idle EXCEPT !.op = "quit"]
    /\ UNCHANGED <<m_maxThreadCount, incoming, sockets, busy, running, readyThreads, delayed, peerClosed>>

waitForThreads ==
    /\ main.op = "quit"
    /\ \A t \in Threads : ~ running[t]
    /\ main' = [Idle EXCEPT !.op = "ended"]
    /\ UNCHANGED <<m_maxThreadCount, threadVars>>

poolStep ==
    \/ countThread
    \/ takeIdling \/ lookAtBusy \/ takeLeastLoaded \/ createThread
    \/ acquireReadyThreads
    \/ waitForThreads
=============================================================================
