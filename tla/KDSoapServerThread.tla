-------------------------- MODULE KDSoapServerThread --------------------------
(***************************************************************************)
(* The worker threads of a KDSoapThreadPool: KDSoapServerThread, its       *)
(* KDSoapServerThreadImpl and the KDSoapSocketList of each server in it    *)
(* (src/src/KDSoapServer/KDSoapServerThread.cpp, KDSoapSocketList.cpp).    *)
(*                                                                         *)
(* A thread is a Qt event loop.  The thread that owns the servers talks to *)
(* it with QMetaObject::invokeMethod, i.e. by appending to the thread's    *)
(* FIFO queue of posted events; the thread takes one event, or one socket  *)
(* notification, at a time and runs it to the end.  A connection stands    *)
(* for its descriptor and later for its KDSoapServerSocket; what a request *)
(* contains is left out: a call starts, and returns with or without a      *)
(* reply.  m_socketLists[server] is the set of connections of that server. *)
(***************************************************************************)
EXTENDS Integers, Sequences, FiniteSets

CONSTANTS
    Servers,    \* the KDSoapServer objects, all living in the main thread
    Conns,      \* TCP connections, each opened at most once
    ServerOf,   \* the server whose port a connection is opened to
    None        \* no connection, no server

ASSUME ThreadAssumption ==
    /\ IsFiniteSet(Conns)
    /\ ServerOf \in [Conns -> Servers]
    /\ None \notin Conns \cup Servers

VARIABLES
    queue,        \* queue[t]: the events posted to thread t, oldest first
    incoming,     \* incoming[t]: m_incomingConnectionCount of thread t
    sockets,      \* sockets[t]: the sockets in the socket lists of thread t
    busy,         \* busy[t]: the connection whose call t is running, or None
    running,      \* running[t]: t has not left exec()
    readyThreads, \* permits of the semaphore of disconnectSockets()
    delayed,      \* connections with m_delayedResponse set
    peerClosed    \* connections the client has closed

threadVars == <<queue, incoming, sockets, busy, running, readyThreads, delayed, peerClosed>>

Incoming(c) == [type |-> "incoming", arg |-> c]
Disconnect(s) == [type |-> "disconnect", arg |-> s]
Quit == [type |-> "quit", arg |-> None]

Event == {Incoming(c) : c \in Conns} \cup {Disconnect(s) : s \in Servers} \cup {Quit}

Threads == DOMAIN queue

ThreadTypeOK ==
    /\ queue \in Seq(Seq(Event))
    /\ incoming \in Seq(Int) /\ Len(incoming) = Len(queue)
    /\ sockets \in Seq(SUBSET Conns) /\ Len(sockets) = Len(queue)
    /\ busy \in Seq(Conns \cup {None}) /\ Len(busy) = Len(queue)
    /\ running \in Seq(BOOLEAN) /\ Len(running) = Len(queue)
    /\ readyThreads \in Nat
    /\ delayed \subseteq Conns
    /\ peerClosed \subseteq Conns

OfServer(S, s) == {c \in S : ServerOf[c] = s}

(* The connections posted to a thread, and all it is responsible for.     *)
Positions(t, c) == {i \in DOMAIN queue[t] : queue[t][i] = Incoming(c)}
Queued(t) == {c \in Conns : Positions(t, c) # {}}
Held(t) == Queued(t) \cup sockets[t]

(* Mutant: connections on their way to the thread are not counted.        *)
socketCountOfListsOnly(t) == IF running[t] THEN Cardinality(sockets[t]) ELSE 0

socketCount(t) == IF running[t] THEN Cardinality(sockets[t]) + incoming[t] ELSE 0

socketCountForServer(t, s) == IF running[t] THEN Cardinality(OfServer(sockets[t], s)) ELSE 0

---------------------------------------------------------------------------
(* Mutant: the main thread calls the slot directly, even during a call.    *)
AtEventDuringCall(t, type) ==
    /\ running[t]
    /\ queue[t] # <<>>
    /\ Head(queue[t]).type = type

(* Between two events: running, not inside a call, and an event at hand.  *)
AtEvent(t, type) ==
    /\ running[t]
    /\ busy[t] = None
    /\ queue[t] # <<>>
    /\ Head(queue[t]).type = type

(* Holds m_socketListMutex throughout, so socketCount() sees all of it.   *)
handleIncomingConnection(t) ==
    /\ AtEvent(t, "incoming")
    /\ queue' = [queue EXCEPT ![t] = Tail(@)]
    /\ sockets' = [sockets EXCEPT ![t] = @ \cup {Head(queue[t]).arg}]
    /\ incoming' = [incoming EXCEPT ![t] = @ - 1]
    /\ UNCHANGED <<busy, running, readyThreads, delayed, peerClosed>>

(* Mutant: returns before the release when the thread has no such socket. *)
disconnectNothingNoRelease(t) ==
    /\ AtEvent(t, "disconnect")
    /\ LET gone == OfServer(sockets[t], Head(queue[t]).arg) IN
        /\ sockets' = [sockets EXCEPT ![t] = @ \ gone]
        /\ delayed' = delayed \ gone
        /\ readyThreads' = IF gone = {} THEN readyThreads ELSE readyThreads + 1
    /\ queue' = [queue EXCEPT ![t] = Tail(@)]
    /\ UNCHANGED <<incoming, busy, running, peerClosed>>

(* KDSoapSocketList::clear() for one server, then semaphore->release().   *)
disconnectSocketsForServer(t) ==
    /\ AtEvent(t, "disconnect")
    /\ LET gone == OfServer(sockets[t], Head(queue[t]).arg) IN
        /\ sockets' = [sockets EXCEPT ![t] = @ \ gone]
        /\ delayed' = delayed \ gone
    /\ readyThreads' = readyThreads + 1
    /\ queue' = [queue EXCEPT ![t] = Tail(@)]
    /\ UNCHANGED <<incoming, busy, running, peerClosed>>

(* Mutants: QThread::quit() called directly overtakes the posted events;   *)
(* the socket lists outlive the thread.                                    *)
quitOvertakes(t) ==
    /\ running[t]
    /\ busy[t] = None
    /\ \E i \in DOMAIN queue[t] : queue[t][i] = Quit
    /\ running' = [running EXCEPT ![t] = FALSE]
    /\ sockets' = [sockets EXCEPT ![t] = {}]
    /\ delayed' = delayed \ sockets[t]
    /\ UNCHANGED <<queue, incoming, busy, readyThreads, peerClosed>>

quitKeepsLists(t) ==
    /\ AtEvent(t, "quit")
    /\ queue' = [queue EXCEPT ![t] = Tail(@)]
    /\ running' = [running EXCEPT ![t] = FALSE]
    /\ UNCHANGED <<sockets, delayed, incoming, busy, readyThreads, peerClosed>>

(* quit(): exec() returns, ~KDSoapServerThreadImpl deletes the lists.     *)
quit(t) ==
    /\ AtEvent(t, "quit")
    /\ queue' = [queue EXCEPT ![t] = Tail(@)]
    /\ running' = [running EXCEPT ![t] = FALSE]
    /\ sockets' = [sockets EXCEPT ![t] = {}]
    /\ delayed' = delayed \ sockets[t]
    /\ UNCHANGED <<incoming, busy, readyThreads, peerClosed>>

(* Mutant: a socket disabled for a delayed response misses disconnected(). *)
socketDisconnectedIfEnabled(t, c) ==
    /\ running[t]
    /\ busy[t] = None
    /\ c \in (sockets[t] \cap peerClosed) \ delayed
    /\ sockets' = [sockets EXCEPT ![t] = @ \ {c}]
    /\ UNCHANGED <<queue, incoming, busy, running, readyThreads, delayed, peerClosed>>

(* The lambda on disconnected(): the list forgets the socket.  It does not *)
(* take m_socketListMutex, so a count made by the main thread meanwhile    *)
(* sees the set before or after; taking the step at once covers both.      *)
socketDisconnected(t, c) ==
    /\ running[t]
    /\ busy[t] = None
    /\ c \in sockets[t] \cap peerClosed
    /\ sockets' = [sockets EXCEPT ![t] = @ \ {c}]
    /\ delayed' = delayed \ {c}
    /\ UNCHANGED <<queue, incoming, busy, running, readyThreads, peerClosed>>

(* slotReadyRead() runs a complete request: the thread is in the call.  A  *)
(* socket that waits for a delayed response is disabled.                   *)
startCall(t, c) ==
    /\ running[t]
    /\ busy[t] = None
    /\ c \in sockets[t] \ delayed
    /\ busy' = [busy EXCEPT ![t] = c]
    /\ UNCHANGED <<queue, incoming, sockets, running, readyThreads, delayed, peerClosed>>

(* The call returns; the reply is sent, or the method asked to delay it.  *)
endCall(t) ==
    /\ running[t]
    /\ busy[t] # None
    /\ busy' = [busy EXCEPT ![t] = None]
    /\ delayed' \in {delayed, delayed \cup {busy[t]}}
    /\ UNCHANGED <<queue, incoming, sockets, running, readyThreads, peerClosed>>

(* sendDelayedReply() in the socket's thread.                              *)
sendDelayedReply(t, c) ==
    /\ running[t]
    /\ busy[t] = None
    /\ c \in sockets[t] \cap delayed
    /\ delayed' = delayed \ {c}
    /\ UNCHANGED <<queue, incoming, sockets, busy, running, readyThreads, peerClosed>>

handleEvent(t) ==
    \/ handleIncomingConnection(t)
    \/ disconnectSocketsForServer(t)
    \/ quit(t)

threadStep(t) ==
    \/ handleEvent(t)
    \/ endCall(t)
    \/ \E c \in Conns :
        \/ socketDisconnected(t, c)
        \/ startCall(t, c)
        \/ sendDelayedReply(t, c)

---------------------------------------------------------------------------
(* What the main thread does to the threads.                              *)

(* Mutant: main does not wait until the thread has set d.                  *)
startThreadNotWaited(c) ==
    /\ queue' = Append(queue, <<Incoming(c)>>)
    /\ sockets' = Append(sockets, {})
    /\ busy' = Append(busy, None)
    /\ running' = Append(running, TRUE)
    /\ UNCHANGED <<incoming, readyThreads, delayed, peerClosed>>

(* KDSoapServerThread::handleIncomingConnection on an existing thread.    *)
giveTo(t, c) ==
    /\ incoming' = [incoming EXCEPT ![t] = @ + 1]
    /\ queue' = [queue EXCEPT ![t] = Append(@, Incoming(c))]
    /\ UNCHANGED <<sockets, busy, running, readyThreads, delayed, peerClosed>>

(* startThread() waits until run() has set d; then as giveTo.             *)
startThreadWith(c) ==
    /\ incoming' = Append(incoming, 1)
    /\ queue' = Append(queue, <<Incoming(c)>>)
    /\ sockets' = Append(sockets, {})
    /\ busy' = Append(busy, None)
    /\ running' = Append(running, TRUE)
    /\ UNCHANGED <<readyThreads, delayed, peerClosed>>

(* invokeMethod on every thread of the pool.                              *)
postToAll(e) == queue' = [t \in Threads |-> Append(queue[t], e)]
=============================================================================
