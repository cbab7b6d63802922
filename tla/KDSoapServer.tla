----------------------------- MODULE KDSoapServer -----------------------------
(***************************************************************************)
(* The KDSoapServer objects of a process (src/src/KDSoapServer/            *)
(* KDSoapServer.cpp): accepting and rejecting connections, suspend() and   *)
(* resume().  The servers in Pooled share one KDSoapThreadPool; each of    *)
(* the others keeps its sockets in the main thread.  The kernel's accept   *)
(* queue and the clients are the environment.                              *)
(***************************************************************************)
EXTENDS KDSoapThreadPool

CONSTANTS
    Pooled,         \* the servers given to setThreadPool()
    MaxConnections  \* maxConnections() of each server, -1 for unlimited

ASSUME ServerAssumption ==
    /\ Pooled \subseteq Servers
    /\ MaxConnections \in [Servers -> Int]

VARIABLES
    fresh,        \* connections not attempted yet
    backlog,      \* established by the kernel, not yet accepted by QTcpServer
    rejected,     \* descriptors dropped because of maxConnections()
    mainSockets,  \* the sockets of m_mainThreadSocketList, of all servers
    listening,    \* QTcpServer::isListening()
    portSaved,    \* m_portBeforeSuspend # 0
    suspended     \* history: suspend() was called, resume() not since

serverVars == <<fresh, backlog, rejected, mainSockets, listening, portSaved, suspended>>
vars == <<threadVars, poolVars, serverVars>>

Init ==
    /\ queue = <<>> /\ incoming = <<>> /\ sockets = <<>> /\ busy = <<>> /\ running = <<>>
    /\ readyThreads = 0
    /\ delayed = {}
    /\ peerClosed = {}
    /\ m_maxThreadCount \in ThreadLimits
    /\ main = Idle
    /\ fresh = Conns
    /\ backlog = {}
    /\ rejected = {}
    /\ mainSockets = {}
    /\ listening = [s \in Servers |-> TRUE]
    /\ portSaved = [s \in Servers |-> FALSE]
    /\ suspended = [s \in Servers |-> FALSE]

---------------------------------------------------------------------------
(* The connections the servers hold: being looked at by main, and in the   *)
(* pool, posted or with a socket.                                          *)
Accepting == {main.conn} \ {None}
InPool == UNION {Held(t) : t \in Threads}
Posted == UNION {Queued(t) : t \in Threads}
Opened == mainSockets \cup UNION {sockets[t] : t \in Threads}

(* The environment: the kernel answers for a listening port; a client may *)
(* go away at any time; when the server is done with it, nobody notices.    *)
connect(c) ==
    /\ c \in fresh
    /\ listening[ServerOf[c]]
    /\ fresh' = fresh \ {c}
    /\ backlog' = backlog \cup {c}
    /\ UNCHANGED <<threadVars, poolVars, rejected, mainSockets, listening, portSaved, suspended>>

closeByClient(c) ==
    /\ c \in (backlog \cup Accepting \cup InPool \cup mainSockets) \ peerClosed
    /\ peerClosed' = peerClosed \cup {c}
    /\ UNCHANGED <<queue, incoming, sockets, busy, running, readyThreads, delayed, poolVars, serverVars>>

---------------------------------------------------------------------------
overLimit(s, numSockets) == MaxConnections[s] > -1 /\ numSockets >= MaxConnections[s]

(* incomingConnection() for a server with a pool: first count its sockets. *)
incomingConnectionPooled(c) ==
    /\ main.op = "idle"
    /\ c \in backlog
    /\ ServerOf[c] \in Pooled
    /\ backlog' = backlog \ {c}
    /\ main' = [Idle EXCEPT !.op = "count", !.next = 1, !.conn = c]
    /\ UNCHANGED <<threadVars, m_maxThreadCount, fresh, rejected, mainSockets, listening, portSaved, suspended>>

counted == main.op = "count" /\ main.next \notin Threads

(* Rejecting emits connectionRejected() and logs; the descriptor is        *)
(* neither wrapped in a socket nor closed.                                 *)
rejectPooled ==
    /\ counted
    /\ overLimit(ServerOf[main.conn], main.num)
    /\ rejected' = rejected \cup {main.conn}
    /\ main' = Idle
    /\ UNCHANGED <<threadVars, m_maxThreadCount, fresh, backlog, mainSockets, listening, portSaved, suspended>>

acceptPooled ==
    /\ counted
    /\ ~ overLimit(ServerOf[main.conn], main.num)
    /\ handleIncomingConnectionInPool(main.conn)
    /\ UNCHANGED <<threadVars, m_maxThreadCount, serverVars>>

(* incomingConnection() without a pool: nothing else runs meanwhile.       *)
incomingConnectionMain(c) ==
    LET s == ServerOf[c]
        reject == overLimit(s, Cardinality(OfServer(mainSockets, s))) IN
    /\ main.op = "idle"
    /\ c \in backlog
    /\ s \notin Pooled
    /\ backlog' = backlog \ {c}
    /\ rejected' = IF reject THEN rejected \cup {c} ELSE rejected
    /\ mainSockets' = IF reject THEN mainSockets ELSE mainSockets \cup {c}
    /\ UNCHANGED <<threadVars, poolVars, fresh, listening, portSaved, suspended>>

---------------------------------------------------------------------------
(* Sockets of the main thread.  A call runs from start to end in one step, *)
(* so only a delayed response leaves a trace.                              *)
mainSocketDisconnected(c) ==
    /\ main.op = "idle"
    /\ c \in mainSockets \cap peerClosed
    /\ mainSockets' = mainSockets \ {c}
    /\ delayed' = delayed \ {c}
    /\ UNCHANGED <<queue, incoming, sockets, busy, running, readyThreads, peerClosed, poolVars,
                   fresh, backlog, rejected, listening, portSaved, suspended>>

mainCallDelayed(c) ==
    /\ main.op = "idle"
    /\ c \in mainSockets \ delayed
    /\ delayed' = delayed \cup {c}
    /\ UNCHANGED <<queue, incoming, sockets, busy, running, readyThreads, peerClosed, poolVars, serverVars>>

mainSendDelayedReply(c) ==
    /\ main.op = "idle"
    /\ c \in mainSockets \cap delayed
    /\ delayed' = delayed \ {c}
    /\ UNCHANGED <<queue, incoming, sockets, busy, running, readyThreads, peerClosed, poolVars, serverVars>>

---------------------------------------------------------------------------
(* Mutant: connections the kernel has established are accepted later.     *)
stopListeningKeepsBacklog(s) ==
    /\ main.op = "idle"
    /\ portSaved' = [portSaved EXCEPT ![s] = listening[s]]
    /\ listening' = [listening EXCEPT ![s] = FALSE]
    /\ suspended' = [suspended EXCEPT ![s] = TRUE]
    /\ UNCHANGED backlog

(* suspend(): remember the port (0 when not listening), close() the        *)
(* listening socket, with which the kernel's accept queue goes away.       *)
stopListening(s) ==
    /\ main.op = "idle"
    /\ portSaved' = [portSaved EXCEPT ![s] = listening[s]]
    /\ listening' = [listening EXCEPT ![s] = FALSE]
    /\ backlog' = backlog \ OfServer(backlog, s)
    /\ suspended' = [suspended EXCEPT ![s] = TRUE]

suspendPooled(s) ==
    /\ s \in Pooled
    /\ stopListening(s)
    /\ disconnectSockets(s)
    /\ UNCHANGED <<fresh, rejected, mainSockets>>

suspendMain(s) ==
    /\ s \notin Pooled
    /\ stopListening(s)
    /\ mainSockets' = mainSockets \ OfServer(mainSockets, s)
    /\ delayed' = delayed \ OfServer(mainSockets, s)
    /\ UNCHANGED <<queue, incoming, sockets, busy, running, readyThreads, peerClosed, poolVars, fresh, rejected>>

(* resume(): with no port saved only a warning; otherwise listen(), which  *)
(* may fail, and the port is forgotten either way.                         *)
resume(s) ==
    /\ main.op = "idle"
    /\ listening' \in IF portSaved[s] /\ ~ listening[s]
                      THEN {listening, [listening EXCEPT ![s] = TRUE]}
                      ELSE {listening}
    /\ portSaved' = [portSaved EXCEPT ![s] = FALSE]
    /\ suspended' = [suspended EXCEPT ![s] = FALSE]
    /\ UNCHANGED <<threadVars, poolVars, fresh, backlog, rejected, mainSockets>>

---------------------------------------------------------------------------
worker(t) == threadStep(t) /\ UNCHANGED <<poolVars, serverVars>>

mainStep ==
    \/ poolStep /\ UNCHANGED serverVars
    \/ rejectPooled
    \/ acceptPooled

application ==
    \/ \E n \in ThreadLimits : setMaxThreadCount(n) /\ UNCHANGED serverVars
    \/ \E s \in Servers : suspendPooled(s) \/ suspendMain(s) \/ resume(s)
    \/ destroyPool /\ UNCHANGED serverVars

mainLoop(c) ==
    \/ incomingConnectionPooled(c)
    \/ incomingConnectionMain(c)
    \/ mainSocketDisconnected(c)
    \/ mainCallDelayed(c)
    \/ mainSendDelayedReply(c)

(* The process is over: nothing moves in the servers any more.             *)
ended == main.op = "ended" /\ UNCHANGED vars

Next ==
    \/ \E c \in Conns : connect(c) \/ closeByClient(c) \/ mainLoop(c)
    \/ \E t \in Threads : worker(t)
    \/ mainStep
    \/ application
    \/ ended

Spec == Init /\ [][Next]_vars

---------------------------------------------------------------------------
(* Fairness.  A worker's event loop delivers posted events before it goes  *)
(* back to its sockets, and looks at every socket that is ready, so that a *)
(* burst of requests starves neither: strong fairness.  A service method   *)
(* returns.  The main thread finishes what it is in.  Nothing obliges the  *)
(* clients or the application.                                             *)
closeASocket(t) == \E c \in Conns : socketDisconnected(t, c)
Worker(A(_), t) == t \in Threads /\ A(t) /\ UNCHANGED <<poolVars, serverVars>>

Fairness ==
    /\ \A t \in 1..Cardinality(Conns) :
        /\ SF_vars(Worker(handleEvent, t))
        /\ SF_vars(Worker(closeASocket, t))
        /\ WF_vars(Worker(endCall, t))
    /\ WF_vars(mainStep)

FairSpec == Spec /\ Fairness

---------------------------------------------------------------------------
(* Properties.                                                             *)

TypeOK ==
    /\ ThreadTypeOK
    /\ PoolTypeOK
    /\ fresh \subseteq Conns /\ backlog \subseteq Conns
    /\ rejected \subseteq Conns /\ mainSockets \subseteq Conns
    /\ listening \in [Servers -> BOOLEAN]
    /\ portSaved \in [Servers -> BOOLEAN]
    /\ suspended \in [Servers -> BOOLEAN]

Load(t) == Cardinality(sockets[t]) + Cardinality(Queued(t))

(* A connection is in one place at most: no descriptor is given to two     *)
(* sockets or posted twice between incomingConnection() and the thread     *)
(* that creates the socket; a worker only serves pooled servers.  That     *)
(* none gets lost on this way says DropsOnlySuspended.                     *)
SingleOwner ==
    /\ \A t \in Threads :
        /\ Queued(t) \cap sockets[t] = {}
        /\ \A c \in Conns : Cardinality(Positions(t, c)) <= 1
        /\ \A u \in Threads \ {t} : Held(t) \cap Held(u) = {}
    /\ LET places == <<fresh, backlog, rejected, mainSockets, Accepting, InPool>> IN
       \A i, j \in DOMAIN places : i # j => places[i] \cap places[j] = {}
    /\ \A c \in InPool : ServerOf[c] \in Pooled
    /\ \A c \in mainSockets : ServerOf[c] \notin Pooled

(* The pool never has more threads than the limit given to                 *)
(* setMaxThreadCount(), if that is called with one positive limit and      *)
(* never with another: chooseNextThread() compares by ==, so that a limit  *)
(* of 0, or one lowered to less than the threads there are, is none        *)
(* (KDSoapThreadPool.cpp:86 against KDSoapThreadPool.h:40-45).             *)
Allowed == IF m_maxThreadCount >= 1 THEN m_maxThreadCount ELSE 1
ThreadBound == Len(queue) <= Allowed

(* As long as nobody left, connections are spread over the threads evenly, *)
(* whatever the workers have processed so far of what was posted to them.  *)
NobodyLeft == Conns = fresh \cup backlog \cup rejected \cup mainSockets \cup Accepting \cup InPool
BalancedLoad ==
    NobodyLeft => \A t, u \in Threads : Load(t) <= Load(u) + 1

(* A socket is never taken away under a running call: suspend() and the    *)
(* pool's destructor wait for the calls in progress.                       *)
CallKeepsSocket == \A t \in Threads : busy[t] # None => busy[t] \in sockets[t]

(* Once suspend() has returned, the server has no socket, no connection on *)
(* its way to a thread and no call running, "otherwise they could still    *)
(* make calls" (KDSoapServer.cpp:277).                                     *)
Serving(s) ==
    OfServer(backlog \cup mainSockets \cup Accepting \cup InPool \cup delayed, s)
SuspendReturned(s) == suspended[s] /\ ~ (main.op = "wait" /\ main.srv = s)
SuspendQuiescent == \A s \in Servers : SuspendReturned(s) => Serving(s) = {} /\ ~ listening[s]

(* main holds a connection exactly while it counts sockets or chooses a    *)
(* thread, and waits only for a pooled server.                             *)
MainInv ==
    /\ main.op \in {"count", "choose"} => main.conn \in Conns /\ ServerOf[main.conn] \in Pooled
    /\ main.op \notin {"count", "choose"} => main.conn = None
    /\ main.op = "wait" => main.srv \in Pooled

PooledInv ==
    /\ \A t \in Threads : \A c \in Held(t) : ServerOf[c] \in Pooled
    /\ \A c \in mainSockets : ServerOf[c] \notin Pooled

(* SuspendQuiescent is not inductive: it needs to know what is on its way. *)
(* The disconnect event posted by suspend() is the last one in a thread's  *)
(* queue, and exists only while main waits; a thread that has handled it   *)
(* holds nothing of the server, and has released exactly one permit.       *)
Waiting == {t \in Threads : \E i \in 1..Len(queue[t]) : queue[t][i].type = "disconnect"}

DisconnectLast ==
    \A t \in Threads : \A i \in 1..Len(queue[t]) :
        queue[t][i].type = "disconnect" =>
            main.op = "wait" /\ queue[t][i].arg = main.srv /\ i = Len(queue[t])

PermitsCounted ==
    main.op = "wait" =>
        /\ readyThreads = Cardinality(Threads \ Waiting)
        /\ \A t \in Threads \ Waiting : OfServer(Held(t), main.srv) = {}

DelayedOwned == delayed \subseteq mainSockets \cup UNION {sockets[t] : t \in Threads}

SuspendedEmpty ==
    \A s \in Servers : suspended[s] =>
        /\ ~ listening[s]
        /\ OfServer(backlog \cup mainSockets \cup Accepting, s) = {}
        /\ SuspendReturned(s) => \A t \in Threads : OfServer(Held(t), s) = {}

SuspendInv ==
    PooledInv /\ CallKeepsSocket /\ DisconnectLast /\ PermitsCounted /\ DelayedOwned /\ SuspendedEmpty

(* A connection is given up by the server's side only while its server is  *)
(* suspended or the pool is destroyed.  None is lost on its way from the   *)
(* kernel to its socket, and no disconnect posted by suspend() reaches     *)
(* sockets accepted after resume(), or another server's sockets.           *)
Known == backlog \cup rejected \cup mainSockets \cup Accepting \cup InPool
DropsOnlySuspended ==
    [][\A c \in Known \ Known' :
        c \in peerClosed \/ suspended'[ServerOf[c]] \/ main.op = "quit"]_vars

(* numConnectedSockets() stays within maxConnections() (KDSoapServer.h:    *)
(* 172-174 and 202).                                                       *)
numConnectedSockets(s) ==
    Cardinality(OfServer(Opened, s))
ConnectionLimit ==
    \A s \in Servers : MaxConnections[s] > -1 => numConnectedSockets(s) <= MaxConnections[s]

(* suspend() gets its permits and returns, whatever the workers are doing. *)
SuspendReturns == main.op = "wait" ~> main.op # "wait"

(* A connection posted to a thread gets its socket, or the like.           *)
PostedIsHandled == \A c \in Conns : c \in Posted ~> c \notin Posted

(* A socket closed by its client is not counted forever.                   *)
ClosedIsForgotten == \A c \in Conns : (c \in InPool \cap peerClosed) ~> (c \notin InPool)

(* The pool's destructor ends, with every connection released.             *)
PoolIsDestroyed == main.op = "quit" ~> (main.op = "ended" /\ InPool = {})

---------------------------------------------------------------------------
(* The refinement mapping to KDSoapService: a connection is what its place *)
(* says; closed when it is in no place any more.                           *)
statusMap ==
    [c \in Conns |->
        CASE c \in fresh \cup backlog \cup Accepting -> "none"
          [] c \in Posted -> "accepted"
          [] c \in Opened -> "open"
          [] c \in rejected -> "rejected"
          [] OTHER -> "closed"]

phaseMap ==
    [s \in Servers |->
        IF main.op = "wait" /\ main.srv = s THEN "suspending"
        ELSE IF listening[s] THEN "listening" ELSE "suspended"]

Service == INSTANCE KDSoapService WITH status <- statusMap, phase <- phaseMap

(* The servers and their pool implement KDSoapService.                     *)
ImplementsService == Service!Spec
=============================================================================
