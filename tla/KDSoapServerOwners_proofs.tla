----------------------- MODULE KDSoapServerOwners_proofs -----------------------
(***************************************************************************)
(* Who holds a connection: proofs that it is always in one place, that it  *)
(* is given up only for a reason, and that the pool gives it to the thread *)
(* with the fewest.                                                        *)
(***************************************************************************)
EXTENDS KDSoapServer_proofs

(* The inductive invariant.  A connection is posted once, and not to a     *)
(* thread that has its socket already; the places of the main thread, and  *)
(* the threads, do not share connections.                                  *)
PostedOnce ==
    \A t \in Threads : \A c \in Conns : \A i, j \in DOMAIN queue[t] :
        queue[t][i] = Incoming(c) /\ queue[t][j] = Incoming(c) => i = j

NewToThread == \A t \in Threads : Queued(t) \cap sockets[t] = {}

Outside == fresh \cup backlog \cup rejected \cup mainSockets \cup Accepting

OutsideApart ==
    /\ fresh \cap (backlog \cup rejected \cup mainSockets \cup Accepting) = {}
    /\ backlog \cap (rejected \cup mainSockets \cup Accepting) = {}
    /\ rejected \cap (mainSockets \cup Accepting) = {}
    /\ mainSockets \cap Accepting = {}

ThreadsApart ==
    /\ \A t \in Threads : Held(t) \cap Outside = {}
    /\ \A t, u \in Threads : t # u => Held(t) \cap Held(u) = {}

(* The thread remembered by chooseNextThread() is one of the pool.         *)
BestIsThread == main.op = "choose" => main.best = 0 \/ main.best \in Threads

OwnerInv == PostedOnce /\ NewToThread /\ OutsideApart /\ ThreadsApart /\ BestIsThread

---------------------------------------------------------------------------
(* What is posted, after each thing that is done to a queue.               *)

(* Taking an event from a queue takes its connection from the posted ones. *)
LEMMA TakePosted ==
    ASSUME ThreadTypeOK, PostedOnce, NEW t \in Threads, queue[t] # <<>>,
           queue' = [queue EXCEPT ![t] = Tail(@)]
    PROVE  /\ Threads' = Threads /\ PostedOnce'
           /\ \A u \in Threads \ {t} : Queued(u)' = Queued(u)
           /\ Queued(t)' = {c \in Queued(t) : Head(queue[t]) # Incoming(c)}
<1>1. queue \in Seq(Seq(Event)) /\ Threads = 1..Len(queue) /\ queue[t] \in Seq(Event)
  BY ThreadsAre DEF ThreadTypeOK
<1>2. Threads' = Threads
  BY <1>1 DEF Threads
<1>3. queue'[t] = Tail(queue[t]) /\ \A u \in Threads \ {t} : queue'[u] = queue[u]
  BY <1>1
<1>4. /\ \A i \in DOMAIN queue'[t] : i + 1 \in DOMAIN queue[t] /\ queue'[t][i] = queue[t][i + 1]
      /\ \A i \in DOMAIN queue[t] : i = 1 \/ (i - 1 \in DOMAIN queue'[t] /\ queue'[t][i - 1] = queue[t][i])
      /\ Head(queue[t]) = queue[t][1] /\ 1 \in DOMAIN queue[t]
      /\ DOMAIN queue[t] \subseteq Int /\ DOMAIN queue'[t] \subseteq Int
  BY <1>1, <1>3, TailKeeps
<1>5. PostedOnce'
  <2>. SUFFICES ASSUME NEW u \in Threads, NEW c \in Conns, NEW i \in DOMAIN queue'[u], NEW j \in DOMAIN queue'[u],
                       queue'[u][i] = Incoming(c), queue'[u][j] = Incoming(c)
                PROVE  i = j
    BY <1>2 DEF PostedOnce, Incoming
  <2>1. CASE u # t
    BY <1>3, <2>1 DEF PostedOnce
  <2>2. CASE u = t
    <3>1. i + 1 = j + 1
      BY <1>4, <2>2 DEF PostedOnce
    <3>. QED
      BY <1>4, <2>2, <3>1
  <2>. QED
    BY <2>1, <2>2
<1>6. ASSUME NEW u \in Threads \ {t} PROVE Queued(u)' = Queued(u)
  BY <1>3 DEF Queued, Positions
<1>7. ASSUME NEW c \in Conns
      PROVE  c \in Queued(t)' <=> c \in Queued(t) /\ Head(queue[t]) # Incoming(c)
  <2>1. c \in Queued(t)' <=> \E i \in DOMAIN queue'[t] : queue'[t][i] = Incoming(c)
    BY DEF Queued, Positions, Incoming
  <2>2. c \in Queued(t) <=> \E i \in DOMAIN queue[t] : queue[t][i] = Incoming(c)
    BY DEF Queued, Positions
  <2>3. ASSUME c \in Queued(t)' PROVE c \in Queued(t) /\ Head(queue[t]) # Incoming(c)
    <3>1. PICK i \in DOMAIN queue'[t] : queue'[t][i] = Incoming(c)
      BY <2>1, <2>3
    <3>2. i + 1 \in DOMAIN queue[t] /\ queue[t][i + 1] = Incoming(c) /\ i + 1 # 1
      BY <1>1, <1>3, <1>4, <3>1
    <3>3. queue[t][1] # Incoming(c)
      BY <1>4, <3>2 DEF PostedOnce
    <3>. QED
      BY <1>4, <2>2, <3>2, <3>3
  <2>4. ASSUME c \in Queued(t), Head(queue[t]) # Incoming(c) PROVE c \in Queued(t)'
    <3>1. PICK i \in DOMAIN queue[t] : queue[t][i] = Incoming(c)
      BY <2>2, <2>4
    <3>2. i # 1
      BY <1>4, <2>4, <3>1
    <3>. QED
      <4>1. i - 1 \in DOMAIN queue'[t] /\ queue'[t][i - 1] = queue[t][i]
        BY <1>4, <3>1, <3>2
      <4>. QED
        BY <2>1, <3>1, <4>1
  <2>. QED
    BY <2>3, <2>4
<1>8. Queued(t)' \subseteq Conns /\ Queued(t) \subseteq Conns
  BY DEF Queued
<1>. QED
  BY <1>2, <1>5, <1>6, <1>7, <1>8

(* Where a connection is in a queue that got one more event.               *)
LEMMA AppendPosted ==
    ASSUME NEW q \in Seq(Event), NEW e \in Event, NEW c \in Conns
    PROVE  /\ \A i \in DOMAIN Append(q, e) :
                 Append(q, e)[i] = Incoming(c) <=> \/ i \in DOMAIN q /\ q[i] = Incoming(c)
                                                   \/ i = Len(q) + 1 /\ e = Incoming(c)
           /\ DOMAIN q \subseteq DOMAIN Append(q, e) /\ Len(q) + 1 \in DOMAIN Append(q, e)
           /\ Len(q) + 1 \notin DOMAIN q
BY AppendKeeps

(* Posting a connection that is not in the queue keeps it posted once.     *)
LEMMA GivePosted ==
    ASSUME ThreadTypeOK, PostedOnce, NEW c \in Conns, NEW t \in Threads, c \notin Queued(t),
           queue' = [queue EXCEPT ![t] = Append(@, Incoming(c))]
    PROVE  /\ Threads' = Threads /\ PostedOnce'
           /\ \A u \in Threads \ {t} : Queued(u)' = Queued(u)
           /\ Queued(t)' = Queued(t) \cup {c}
<1>1. /\ queue \in Seq(Seq(Event)) /\ Threads = 1..Len(queue) /\ queue[t] \in Seq(Event)
      /\ Incoming(c) \in Event /\ \A d \in Conns : Incoming(d) = Incoming(c) => d = c
  BY ThreadsAre, IncomingInEvent DEF ThreadTypeOK, Incoming
<1>2. Threads' = Threads
  BY <1>1 DEF Threads
<1>3. queue'[t] = Append(queue[t], Incoming(c)) /\ \A u \in Threads \ {t} : queue'[u] = queue[u]
  BY <1>1
<1>4. \A i \in DOMAIN queue[t] : queue[t][i] # Incoming(c)
  BY QueuedIs
<1>5. PostedOnce'
  <2>. SUFFICES ASSUME NEW u \in Threads, NEW d \in Conns, NEW i \in DOMAIN queue'[u], NEW j \in DOMAIN queue'[u],
                       queue'[u][i] = Incoming(d), queue'[u][j] = Incoming(d)
                PROVE  i = j
    BY <1>2 DEF PostedOnce, Incoming
  <2>1. CASE u # t
    BY <1>3, <2>1 DEF PostedOnce
  <2>2. CASE u = t
    <3>1. /\ (i \in DOMAIN queue[t] /\ queue[t][i] = Incoming(d)) \/ (i = Len(queue[t]) + 1 /\ d = c)
          /\ (j \in DOMAIN queue[t] /\ queue[t][j] = Incoming(d)) \/ (j = Len(queue[t]) + 1 /\ d = c)
      BY <1>1, <1>3, <2>2, AppendPosted
    <3>. QED
      BY <1>4, <3>1 DEF PostedOnce
  <2>. QED
    BY <2>1, <2>2
<1>6. ASSUME NEW u \in Threads \ {t} PROVE Queued(u)' = Queued(u)
  BY <1>3 DEF Queued, Positions
<1>7. ASSUME NEW d \in Conns PROVE d \in Queued(t)' <=> d \in Queued(t) \/ d = c
  <2>1. d \in Queued(t)' <=> \E i \in DOMAIN queue'[t] : queue'[t][i] = Incoming(d)
    BY DEF Queued, Positions, Incoming
  <2>2. d \in Queued(t) <=> \E i \in DOMAIN queue[t] : queue[t][i] = Incoming(d)
    BY DEF Queued, Positions
  <2>3. PICK q, e : q = queue[t] /\ e = Incoming(c)
    OBVIOUS
  <2>4. q \in Seq(Event) /\ e \in Event /\ queue'[t] = Append(q, e)
    BY <1>1, <1>3, <2>3
  <2>5. /\ \A i \in DOMAIN Append(q, e) :
              Append(q, e)[i] = Incoming(d) <=> \/ i \in DOMAIN q /\ q[i] = Incoming(d)
                                                \/ i = Len(q) + 1 /\ e = Incoming(d)
        /\ DOMAIN q \subseteq DOMAIN Append(q, e) /\ Len(q) + 1 \in DOMAIN Append(q, e)
    BY <2>4, AppendPosted
  <2>6. e = Incoming(d) <=> d = c
    BY <1>1, <2>3
  <2>. QED
    BY <2>1, <2>2, <2>3, <2>4, <2>5, <2>6
<1>8. Queued(t)' \subseteq Conns /\ Queued(t) \subseteq Conns
  BY DEF Queued
<1>. QED
  BY <1>2, <1>5, <1>6, <1>7, <1>8

(* Posting disconnect or quit posts no connection.                         *)
LEMMA PostAllPosted ==
    ASSUME ThreadTypeOK, PostedOnce, NEW e \in Event, e.type # "incoming", postToAll(e)
    PROVE  /\ Threads' = Threads /\ PostedOnce'
           /\ \A u \in Threads : Queued(u)' = Queued(u)
<1>1. Threads' = Threads
  BY ThreadsAre DEF postToAll, Threads
<1>2. \A c \in Conns : Incoming(c) # e
  BY DEF Incoming
<1>3. ASSUME NEW u \in Threads
      PROVE  \A c \in Conns :
                 /\ \A i \in DOMAIN queue'[u] :
                        queue'[u][i] = Incoming(c) <=> i \in DOMAIN queue[u] /\ queue[u][i] = Incoming(c)
                 /\ DOMAIN queue[u] \subseteq DOMAIN queue'[u]
  <2>1. queue[u] \in Seq(Event) /\ queue'[u] = Append(queue[u], e)
    BY ThreadsAre DEF postToAll
  <2>. QED
    BY <1>2, <2>1, AppendPosted
<1>4. PostedOnce'
  <2>. SUFFICES ASSUME NEW u \in Threads, NEW d \in Conns, NEW i \in DOMAIN queue'[u], NEW j \in DOMAIN queue'[u],
                       queue'[u][i] = Incoming(d), queue'[u][j] = Incoming(d)
                PROVE  i = j
    BY <1>1 DEF PostedOnce, Incoming
  <2>. QED
    BY <1>3 DEF PostedOnce
<1>5. ASSUME NEW u \in Threads PROVE Queued(u)' = Queued(u)
  <2>1. \A c \in Conns : c \in Queued(u)' <=> c \in Queued(u)
    BY <1>3 DEF Queued, Positions, Incoming
  <2>. QED
    BY <2>1 DEF Queued
<1>. QED
  BY <1>1, <1>4, <1>5

(* A new thread has one connection posted and no socket.                   *)
LEMMA StartPosted ==
    ASSUME ThreadTypeOK, PostedOnce, NEW c \in Conns, startThreadWith(c)
    PROVE  /\ PostedOnce'
           /\ \E n : /\ n \notin Threads /\ Threads' = Threads \cup {n}
                    /\ Queued(n)' = {c} /\ sockets'[n] = {}
           /\ \A u \in Threads : Queued(u)' = Queued(u) /\ sockets'[u] = sockets[u]
<1>1. PICK n : n = Len(queue) + 1
  OBVIOUS
<1>2. Threads' = Threads \cup {n} /\ n \notin Threads
  BY <1>1, StartHeld, ThreadsAre DEF ThreadTypeOK
<1>3. \A u \in Threads : queue'[u] = queue[u] /\ sockets'[u] = sockets[u]
  BY ThreadsAre DEF ThreadTypeOK, startThreadWith
<1>4. queue'[n] = <<Incoming(c)>> /\ sockets'[n] = {}
  BY <1>1, ThreadsAre DEF ThreadTypeOK, startThreadWith
<1>5. DOMAIN queue'[n] = {1} /\ queue'[n][1] = Incoming(c)
  BY <1>4
<1>6. \A d \in Conns : Incoming(d) = Incoming(c) => d = c
  BY DEF Incoming
<1>7. PostedOnce'
  <2>. SUFFICES ASSUME NEW u \in Threads', NEW d \in Conns, NEW i \in DOMAIN queue'[u], NEW j \in DOMAIN queue'[u],
                       queue'[u][i] = Incoming(d), queue'[u][j] = Incoming(d)
                PROVE  i = j
    BY DEF PostedOnce, Incoming
  <2>. QED
    BY <1>2, <1>3, <1>5 DEF PostedOnce
<1>8. \A u \in Threads : Queued(u)' = Queued(u)
  BY <1>3 DEF Queued, Positions
<1>9. Queued(n)' = {c}
  <2>1. \A d \in Conns : d \in Queued(n)' <=> d = c
    BY <1>5, <1>6 DEF Queued, Positions, Incoming
  <2>2. Queued(n)' \subseteq Conns
    BY DEF Queued
  <2>. QED
    BY <2>1, <2>2
<1>. QED
  BY <1>2, <1>3, <1>4, <1>7, <1>8, <1>9

(* What is posted depends on the queues alone.                             *)
LEMMA SamePosted ==
    ASSUME queue' = queue
    PROVE  Threads' = Threads /\ (PostedOnce => PostedOnce') /\ \A u : Queued(u)' = Queued(u)
BY DEF Threads, PostedOnce, Queued, Positions

---------------------------------------------------------------------------
(* The two ways in which a worker changes what it holds: a connection      *)
(* posted to it becomes a socket, or it loses sockets, to the client's     *)
(* leaving, to suspend(), or to the pool's destructor.                     *)
TakesUp(t) ==
    /\ AtEvent(t, "incoming")
    /\ \E c \in Queued(t) : Queued(t)' = Queued(t) \ {c} /\ sockets'[t] = sockets[t] \cup {c}

Drops(t) ==
    /\ Queued(t)' = Queued(t)
    /\ sockets'[t] \subseteq sockets[t]
    /\ \/ sockets[t] \ sockets'[t] \subseteq peerClosed
       \/ AtEvent(t, "disconnect") /\ sockets[t] \ sockets'[t] = OfServer(sockets[t], Head(queue[t]).arg)
       \/ AtEvent(t, "quit")

(* A worker's step takes up a posted connection or drops some.             *)
LEMMA WorkerMoves ==
    ASSUME ThreadTypeOK, PostedOnce, NEW t \in Threads, threadStep(t)
    PROVE  /\ Threads' = Threads /\ PostedOnce'
           /\ \A u \in Threads \ {t} : Queued(u)' = Queued(u) /\ sockets'[u] = sockets[u]
           /\ TakesUp(t) \/ Drops(t)
<1>. USE ThreadsAre
<1>0. ASSUME NEW S, sockets' = [sockets EXCEPT ![t] = S]
      PROVE  sockets'[t] = S /\ \A u \in Threads \ {t} : sockets'[u] = sockets[u]
  BY <1>0 DEF ThreadTypeOK
<1>1. CASE handleIncomingConnection(t)
  <2>. DEFINE c == Head(queue[t]).arg
  <2>1. AtEvent(t, "incoming") /\ queue[t] # <<>> /\ queue' = [queue EXCEPT ![t] = Tail(@)]
    BY <1>1 DEF handleIncomingConnection, AtEvent
  <2>2. c \in Conns /\ Head(queue[t]) = Incoming(c)
    BY <2>1, TakeTyped, IncomingEvent DEF ThreadTypeOK, AtEvent
  <2>3. \A d \in Conns : Incoming(d) = Incoming(c) => d = c
    BY DEF Incoming
  <2>4. /\ Threads' = Threads /\ PostedOnce' /\ \A u \in Threads \ {t} : Queued(u)' = Queued(u)
        /\ Queued(t)' = {d \in Queued(t) : Head(queue[t]) # Incoming(d)}
    BY <2>1, TakePosted
  <2>5. c \in Queued(t)
    BY <2>1, <2>2, TakeHeld
  <2>6. Queued(t)' = Queued(t) \ {c}
    BY <2>2, <2>3, <2>4 DEF Queued
  <2>7. sockets'[t] = sockets[t] \cup {c} /\ \A u \in Threads \ {t} : sockets'[u] = sockets[u]
    BY <1>0, <1>1 DEF handleIncomingConnection, ThreadTypeOK
  <2>. QED
    BY <2>1, <2>4, <2>5, <2>6, <2>7 DEF TakesUp
<1>2. CASE disconnectSocketsForServer(t) \/ quit(t)
  <2>1. /\ queue[t] # <<>> /\ queue' = [queue EXCEPT ![t] = Tail(@)]
        /\ Head(queue[t]).type # "incoming"
    BY <1>2 DEF disconnectSocketsForServer, quit, AtEvent
  <2>2. \A d \in Conns : Head(queue[t]) # Incoming(d)
    BY <2>1 DEF Incoming
  <2>3. /\ Threads' = Threads /\ PostedOnce' /\ \A u \in Threads \ {t} : Queued(u)' = Queued(u)
        /\ Queued(t)' = {d \in Queued(t) : Head(queue[t]) # Incoming(d)}
    BY <2>1, TakePosted
  <2>4. Queued(t)' = Queued(t)
    BY <2>2, <2>3 DEF Queued
  <2>5. CASE disconnectSocketsForServer(t)
    <3>1. /\ AtEvent(t, "disconnect")
          /\ sockets'[t] = sockets[t] \ OfServer(sockets[t], Head(queue[t]).arg)
          /\ \A u \in Threads \ {t} : sockets'[u] = sockets[u]
      BY <1>0, <2>5 DEF disconnectSocketsForServer, ThreadTypeOK
    <3>2. sockets[t] \ sockets'[t] = OfServer(sockets[t], Head(queue[t]).arg)
      BY <3>1 DEF OfServer
    <3>. QED
      BY <2>3, <2>4, <3>1, <3>2 DEF Drops
  <2>6. CASE quit(t)
    <3>1. AtEvent(t, "quit") /\ sockets'[t] = {} /\ \A u \in Threads \ {t} : sockets'[u] = sockets[u]
      BY <1>0, <2>6 DEF quit
    <3>. QED
      BY <2>3, <2>4, <3>1 DEF Drops
  <2>. QED
    BY <1>2, <2>5, <2>6
<1>3. ASSUME NEW c \in Conns, socketDisconnected(t, c)
      PROVE  /\ Threads' = Threads /\ PostedOnce'
             /\ \A u \in Threads \ {t} : Queued(u)' = Queued(u) /\ sockets'[u] = sockets[u]
             /\ Drops(t)
  <2>1. Threads' = Threads /\ PostedOnce' /\ \A u : Queued(u)' = Queued(u)
    BY <1>3, SamePosted DEF socketDisconnected
  <2>2. c \in peerClosed /\ sockets'[t] = sockets[t] \ {c} /\ \A u \in Threads \ {t} : sockets'[u] = sockets[u]
    BY <1>0, <1>3 DEF socketDisconnected, ThreadTypeOK
  <2>. QED
    BY <2>1, <2>2 DEF Drops
<1>4. CASE queue' = queue /\ sockets' = sockets
  BY <1>4, SamePosted DEF Drops
<1>. QED
  BY <1>1, <1>2, <1>3, <1>4 DEF threadStep, handleEvent, endCall, startCall, sendDelayedReply

---------------------------------------------------------------------------
(* What main gives to a thread, new or not.                                *)
GivesTo(t, c) ==
    /\ Threads' = Threads \cup {t}
    /\ \A u \in Threads \ {t} : Queued(u)' = Queued(u)
    /\ \A u \in Threads : sockets'[u] = sockets[u]
    /\ IF t \in Threads THEN Queued(t)' = Queued(t) \cup {c} ELSE Queued(t)' = {c} /\ sockets'[t] = {}

(* Choosing a thread hands main's connection to it.                        *)
LEMMA GiveMoves ==
    ASSUME TypeOK, MainInv, OwnerInv, takeIdling \/ takeLeastLoaded \/ createThread
    PROVE  /\ main.conn \in Conns /\ Accepting = {main.conn} /\ main' = Idle /\ Accepting' = {}
           /\ PostedOnce'
           /\ \E t : GivesTo(t, main.conn)
<1>. USE DEF TypeOK, OwnerInv
<1>1. main.conn \in Conns /\ main' = Idle
  BY DEF takeIdling, takeLeastLoaded, createThread, MainInv
<1>2. Accepting = {main.conn} /\ Accepting' = {}
  BY <1>1, IdleTyped, ThreadAssumption DEF Accepting
<1>3. ASSUME NEW t \in Threads, giveTo(t, main.conn)
      PROVE  PostedOnce' /\ GivesTo(t, main.conn)
  <2>1. main.conn \notin Queued(t)
    BY <1>2 DEF ThreadsApart, Held, Outside
  <2>. QED
    BY <1>1, <1>3, <2>1, GivePosted DEF giveTo, GivesTo
<1>4. CASE takeIdling
  BY <1>1, <1>2, <1>3, <1>4 DEF takeIdling
<1>5. CASE takeLeastLoaded
  <2>1. main.best \in Threads
    BY <1>5 DEF takeLeastLoaded, atLimit, BestIsThread
  <2>. QED
    BY <1>1, <1>2, <1>3, <1>5, <2>1 DEF takeLeastLoaded
<1>6. CASE createThread
  <2>1. /\ PostedOnce'
        /\ \E n : /\ n \notin Threads /\ Threads' = Threads \cup {n}
                  /\ Queued(n)' = {main.conn} /\ sockets'[n] = {}
        /\ \A u \in Threads : Queued(u)' = Queued(u) /\ sockets'[u] = sockets[u]
    BY <1>1, <1>6, StartPosted DEF createThread
  <2>. QED
    BY <1>1, <1>2, <2>1 DEF GivesTo
<1>. QED
  BY <1>4, <1>5, <1>6

(* Outside the pool a connection only moves on.                            *)
LEMMA OutsideStep ==
    ASSUME TypeOK, MainInv, OutsideApart, Next
    PROVE  OutsideApart' /\ Outside' \subseteq Outside
<1>. USE DEF OutsideApart, Outside, Accepting
<1>1. CASE UNCHANGED <<serverVars, main>>
  BY <1>1 DEF serverVars
<1>2. CASE UNCHANGED serverVars /\ main'.conn = None
  BY <1>2 DEF serverVars
<1>3. CASE UNCHANGED serverVars /\ main'.conn = main.conn
  BY <1>3 DEF serverVars
<1>4. CASE mainStep
  <2>1. CASE rejectPooled
    <3>1. main.conn \in Conns /\ main.conn # None
      BY <2>1, ThreadAssumption DEF rejectPooled, counted, MainInv
    <3>2. main'.conn = None
      BY <2>1, IdleTyped DEF rejectPooled
    <3>. QED
      BY <2>1, <3>1, <3>2 DEF rejectPooled
  <2>2. CASE acceptPooled
    BY <1>3, <2>2, MainFields DEF acceptPooled, counted, handleIncomingConnectionInPool, MainInv
  <2>3. CASE (countThread \/ lookAtBusy) /\ UNCHANGED serverVars
    BY <1>3, <2>3, LoopFields DEF TypeOK
  <2>. QED
    BY <1>2, <1>4, <2>1, <2>2, <2>3, IdleTyped, MainFields
    DEF mainStep, poolStep, takeIdling, takeLeastLoaded, createThread, acquireReadyThreads, waitForThreads
<1>5. ASSUME NEW t \in Threads, worker(t) PROVE UNCHANGED <<serverVars, main>>
  BY <1>5 DEF worker, poolVars
<1>6. CASE application
  <2>1. ASSUME NEW s \in Servers, suspendPooled(s) PROVE OutsideApart' /\ Outside' \subseteq Outside
    BY <2>1, MainFields DEF suspendPooled, stopListening, disconnectSockets
  <2>2. ASSUME NEW s \in Servers, suspendMain(s) \/ resume(s) PROVE OutsideApart' /\ Outside' \subseteq Outside
    BY <2>2 DEF suspendMain, stopListening, resume, poolVars
  <2>3. ASSUME NEW n \in ThreadLimits, setMaxThreadCount(n), UNCHANGED serverVars PROVE UNCHANGED <<serverVars, main>>
    BY <2>3 DEF setMaxThreadCount
  <2>4. CASE destroyPool /\ UNCHANGED serverVars
    BY <1>2, <2>4, MainFields DEF destroyPool
  <2>. QED
    BY <1>1, <1>6, <2>1, <2>2, <2>3, <2>4 DEF application
<1>7. ASSUME NEW c \in Conns, connect(c) \/ closeByClient(c) \/ mainLoop(c)
      PROVE  OutsideApart' /\ Outside' \subseteq Outside
  <2>1. CASE connect(c)
    BY <2>1 DEF connect, poolVars
  <2>2. CASE incomingConnectionPooled(c)
    <3>1. main.conn = None
      BY <2>2 DEF incomingConnectionPooled, MainInv
    <3>2. main'.conn = c
      BY <2>2, MainFields DEF incomingConnectionPooled
    <3>. QED
      BY <2>2, <3>1, <3>2 DEF incomingConnectionPooled
  <2>3. CASE incomingConnectionMain(c)
    BY <2>3 DEF incomingConnectionMain, poolVars
  <2>4. CASE mainSocketDisconnected(c)
    BY <2>4 DEF mainSocketDisconnected, poolVars
  <2>5. CASE closeByClient(c) \/ mainCallDelayed(c) \/ mainSendDelayedReply(c)
    BY <1>1, <2>5 DEF closeByClient, mainCallDelayed, mainSendDelayedReply, poolVars
  <2>. QED
    BY <1>7, <2>1, <2>2, <2>3, <2>4, <2>5 DEF mainLoop
<1>8. CASE ended
  BY <1>1, <1>8 DEF ended, vars, poolVars
<1>. QED
  BY <1>1, <1>4, <1>5, <1>6, <1>7, <1>8 DEF Next

(* The steps between which nothing in the pool moves.                      *)
LEMMA NextPosts ==
    ASSUME TypeOK, MainInv, Next
    PROVE  \/ \E t \in Threads : threadStep(t) /\ UNCHANGED <<main, serverVars>>
           \/ (takeIdling \/ takeLeastLoaded \/ createThread) /\ UNCHANGED serverVars
           \/ /\ sockets' = sockets /\ main'.op \in {"wait", "quit"} /\ main.op = "idle"
              /\ \E e \in Event :
                    e.type # "incoming" /\ (e.type = "quit" => main'.op = "quit") /\ postToAll(e)
           \/ UNCHANGED <<queue, sockets>>
<1>1. ASSUME NEW s \in Servers, suspendPooled(s)
      PROVE  /\ sockets' = sockets /\ main'.op = "wait" /\ main.op = "idle"
             /\ \E e \in Event :
                    e.type # "incoming" /\ (e.type = "quit" => main'.op = "quit") /\ postToAll(e)
  BY <1>1, MainFields, DisconnectInEvent, EventKinds
  DEF suspendPooled, stopListening, disconnectSockets, Disconnect
<1>2. CASE destroyPool
  BY <1>2, MainFields, QuitInEvent DEF destroyPool, Quit
<1>. QED
  BY <1>1, <1>2, NextKinds DEF worker, poolVars, acquireReadyThreads, threadVars, Aside

(* Every step keeps main's chosen thread an existing one.                  *)
LEMMA BestStep ==
    ASSUME TypeOK, MainInv, OwnerInv, Next PROVE BestIsThread'
<1>. USE DEF BestIsThread, OwnerInv
<1>0. Flow
  BY NextFlow
<1>1. CASE createThread
  BY <1>1, IdleTyped DEF createThread
<1>2. CASE main' = main \/ main'.op # "choose"
  BY <1>0, <1>2 DEF Flow
<1>3. CASE lookAtBusy
  <2>1. main'.best \in {main.best, main.next} /\ main.next \in Threads /\ main.op = "choose"
    BY <1>3 DEF lookAtBusy, TypeOK, PoolTypeOK, Activation
  <2>. QED
    BY <1>0, <2>1 DEF Flow
<1>4. CASE acceptPooled
  <2>1. main.conn \in Conns
    BY <1>4 DEF acceptPooled, counted, MainInv
  <2>2. main'.best = 0
    BY <1>4, <2>1 DEF acceptPooled, handleIncomingConnectionInPool, Idle
  <2>. QED
    BY <2>2
<1>. QED
  BY <1>1, <1>2, <1>3, <1>4, BoundKinds

(* Every step keeps OwnerInv.                                              *)
LEMMA OwnerStep ==
    ASSUME TypeOK, MainInv, OwnerInv, Next PROVE OwnerInv'
<1>. USE DEF TypeOK
<1>1. OutsideApart' /\ Outside' \subseteq Outside /\ BestIsThread'
  BY OutsideStep, BestStep DEF OwnerInv
<1>2. ASSUME NEW t \in Threads, threadStep(t) PROVE PostedOnce' /\ NewToThread' /\ ThreadsApart'
  <2>1. /\ Threads' = Threads /\ PostedOnce'
        /\ \A u \in Threads \ {t} : Queued(u)' = Queued(u) /\ sockets'[u] = sockets[u]
        /\ TakesUp(t) \/ Drops(t)
    BY <1>2, WorkerMoves DEF OwnerInv
  <2>2. Queued(t)' \cap sockets'[t] = {} /\ Held(t)' \subseteq Held(t)
    BY <2>1 DEF TakesUp, Drops, Held, OwnerInv, NewToThread
  <2>3. NewToThread'
    BY <2>1, <2>2 DEF OwnerInv, NewToThread
  <2>4. \A u \in Threads : Held(u)' \subseteq Held(u)
    BY <2>1, <2>2 DEF Held
  <2>5. ThreadsApart'
    BY <1>1, <2>1, <2>4 DEF OwnerInv, ThreadsApart
  <2>. QED
    BY <2>1, <2>3, <2>5
<1>3. CASE (takeIdling \/ takeLeastLoaded \/ createThread) /\ UNCHANGED serverVars
  <2>. DEFINE c == main.conn
  <2>1. c \in Conns /\ Accepting = {c} /\ Accepting' = {} /\ PostedOnce'
    BY <1>3, GiveMoves
  <2>2. PICK t : GivesTo(t, c)
    BY <1>3, GiveMoves
  <2>3. \A u \in Threads : c \notin Held(u)
    BY <2>1 DEF OwnerInv, ThreadsApart, Outside
  <2>4. c \notin Outside'
    BY <1>3, <2>1 DEF OwnerInv, OutsideApart, Outside, serverVars
  <2>. HIDE DEF c
  <2>5. NewToThread'
    BY <2>2, <2>3 DEF OwnerInv, NewToThread, GivesTo, Held
  <2>6. /\ \A u \in Threads \ {t} : Held(u)' = Held(u)
        /\ Held(t)' = IF t \in Threads THEN Held(t) \cup {c} ELSE {c}
    BY <2>2 DEF GivesTo, Held
  <2>7. ThreadsApart'
    <3>1. Threads' = Threads \cup {t}
      BY <2>2 DEF GivesTo
    <3>2. ASSUME NEW u \in Threads' PROVE Held(u)' \cap Outside' = {}
      BY <1>1, <2>4, <2>6, <3>1 DEF OwnerInv, ThreadsApart
    <3>3. ASSUME NEW u \in Threads', NEW v \in Threads', u # v PROVE Held(u)' \cap Held(v)' = {}
      <4>1. ASSUME NEW w \in Threads \ {t} PROVE Held(t)' \cap Held(w)' = {}
        BY <2>3, <2>6, <4>1 DEF OwnerInv, ThreadsApart
      <4>2. CASE u # t /\ v # t
        BY <2>6, <3>1, <3>3, <4>2 DEF OwnerInv, ThreadsApart
      <4>. QED
        BY <3>1, <3>3, <4>1, <4>2
    <3>. QED
      BY <3>2, <3>3 DEF ThreadsApart
  <2>8. BestIsThread'
    BY <1>1
  <2>. QED
    BY <1>1, <2>1, <2>5, <2>7, <2>8 DEF OwnerInv
<1>4. CASE UNCHANGED <<queue, sockets>>
  <2>1. Threads' = Threads /\ PostedOnce' /\ \A u : Queued(u)' = Queued(u)
    BY <1>4, SamePosted DEF OwnerInv
  <2>. QED
    BY <1>1, <1>4, <2>1 DEF OwnerInv, NewToThread, ThreadsApart, Held
<1>5. ASSUME NEW e \in Event, e.type # "incoming", postToAll(e), sockets' = sockets
      PROVE  PostedOnce' /\ NewToThread' /\ ThreadsApart'
  <2>1. Threads' = Threads /\ PostedOnce' /\ \A u \in Threads : Queued(u)' = Queued(u)
    BY <1>5, PostAllPosted DEF OwnerInv
  <2>. QED
    BY <1>1, <1>5, <2>1 DEF OwnerInv, NewToThread, ThreadsApart, Held
<1>. QED
  BY <1>1, <1>2, <1>3, <1>4, <1>5, NextPosts DEF OwnerInv

(* OwnerInv holds when the program starts.                                 *)
LEMMA InitOwner == Init => OwnerInv
<1>. SUFFICES ASSUME Init PROVE OwnerInv
  OBVIOUS
<1>1. Threads = {} /\ Accepting = {} /\ main.op = "idle"
  BY IdleTyped DEF Init, Threads, Accepting
<1>. QED
  BY <1>1 DEF Init, OwnerInv, PostedOnce, NewToThread, OutsideApart, ThreadsApart, BestIsThread

(* OwnerInv holds in every reachable state.                                *)
LEMMA OwnerInductive == Spec => []OwnerInv
<1>1. TypeOK /\ MainInv /\ OwnerInv /\ [Next]_vars => OwnerInv'
  <2>1. ASSUME OwnerInv, UNCHANGED vars PROVE OwnerInv'
    <3>1. UNCHANGED <<queue, sockets, main, fresh, backlog, rejected, mainSockets>>
      BY <2>1 DEF vars, threadVars, poolVars, serverVars
    <3>2. Threads' = Threads /\ (PostedOnce => PostedOnce') /\ \A u : Queued(u)' = Queued(u)
      BY <3>1, SamePosted
    <3>3. Accepting' = Accepting /\ Outside' = Outside
      BY <3>1 DEF Accepting, Outside
    <3>. QED
      BY <2>1, <3>1, <3>2, <3>3 DEF OwnerInv, NewToThread, OutsideApart, ThreadsApart, BestIsThread, Held
  <2>. QED
    BY <2>1, OwnerStep
<1>. QED
  BY <1>1, InitOwner, TypeInductive, PTL DEF Spec

(* A descriptor is never given to two sockets or posted twice, for any     *)
(* number of threads and any interleaving of main with their work          *)
(* (KDSoapThreadPool.cpp, KDSoapServerThread.cpp).                         *)
THEOREM OwnersAreSingle == Spec => []SingleOwner
<1>1. TypeOK /\ OwnerInv /\ SuspendInv => SingleOwner
  <2>. SUFFICES ASSUME TypeOK, OwnerInv, SuspendInv PROVE SingleOwner
    OBVIOUS
  <2>. USE DEF OwnerInv
  <2>1. ASSUME NEW t \in Threads, NEW c \in Conns PROVE Cardinality(Positions(t, c)) <= 1
    <3>1. CASE Positions(t, c) = {}
      <4>1. Cardinality(Positions(t, c)) = 0
        BY <3>1, FS_EmptySet
      <4>. QED
        BY <4>1
    <3>2. CASE Positions(t, c) # {}
      <4>1. PICK i \in Positions(t, c) : TRUE
        BY <3>2
      <4>2. Positions(t, c) = {i}
        BY <4>1 DEF Positions, PostedOnce
      <4>3. Cardinality(Positions(t, c)) = 1
        BY <4>2, FS_Singleton
      <4>. QED
        BY <4>3
    <3>. QED
      BY <3>1, <3>2
  <2>2. \A t \in Threads : Queued(t) \cap sockets[t] = {} /\ \A u \in Threads \ {t} : Held(t) \cap Held(u) = {}
    BY DEF NewToThread, ThreadsApart
  <2>3. InPool \cap Outside = {}
    BY DEF InPool, ThreadsApart
  <2>4. LET places == <<fresh, backlog, rejected, mainSockets, Accepting, InPool>> IN
        \A i, j \in DOMAIN places : i # j => places[i] \cap places[j] = {}
    <3>. DEFINE places == <<fresh, backlog, rejected, mainSockets, Accepting, InPool>>
    <3>1. DOMAIN places = {1, 2, 3, 4, 5, 6}
      OBVIOUS
    <3>2. /\ places[1] = fresh /\ places[2] = backlog /\ places[3] = rejected
          /\ places[4] = mainSockets /\ places[5] = Accepting /\ places[6] = InPool
      OBVIOUS
    <3>. HIDE DEF places
    <3>3. \A i, j \in {1, 2, 3, 4, 5, 6} : i # j => places[i] \cap places[j] = {}
      BY <2>3, <3>2 DEF OutsideApart, Outside
    <3>. QED
      BY <3>1, <3>3 DEF places
  <2>5. (\A c \in InPool : ServerOf[c] \in Pooled) /\ \A c \in mainSockets : ServerOf[c] \notin Pooled
    BY DEF SuspendInv, PooledInv, InPool
  <2>. QED
    BY <2>1, <2>2, <2>4, <2>5 DEF SingleOwner
<1>. QED
  BY <1>1, TypeInductive, OwnerInductive, SuspendInductive, PTL

---------------------------------------------------------------------------
(* Why a worker drops sockets: a disconnect event exists only while main   *)
(* waits for a server it has marked suspended, a quit event only once the  *)
(* pool is being destroyed, and then until no thread runs any more.        *)
DropInv ==
    /\ main.op = "wait" => suspended[main.srv]
    /\ \A t \in Threads : \A i \in DOMAIN queue[t] :
           queue[t][i].type = "quit" => main.op \in {"quit", "ended"}
    /\ main.op = "ended" => \A t \in Threads : ~ running[t]

(* What becomes of the operation main is in, when it matters here.         *)
LEMMA MainGoesOn ==
    ASSUME TypeOK, MainInv, Next
    PROVE  /\ main.op = "ended" => main' = main
           /\ main.op = "quit" => main'.op \in {"quit", "ended"}
           /\ main'.op = "wait" =>
                 \/ main' = main /\ suspended' = suspended
                 \/ main'.srv \in Servers /\ suspendPooled(main'.srv)
           /\ main'.op = "ended" =>
                 \/ main.op = "ended"
                 \/ UNCHANGED threadVars /\ \A t \in Threads : ~ running[t]
<1>1. ASSUME NEW c \in Conns, connect(c) \/ closeByClient(c) \/ mainLoop(c)
      PROVE  \/ main' = main /\ suspended' = suspended
             \/ main.op = "idle" /\ main'.op = "count"
  <2>1. CASE incomingConnectionPooled(c)
    BY <2>1, MainFields DEF incomingConnectionPooled
  <2>. QED
    BY <1>1, <2>1 DEF connect, closeByClient, mainLoop, incomingConnectionMain, mainSocketDisconnected,
       mainCallDelayed, mainSendDelayedReply, poolVars, serverVars
<1>2. ASSUME NEW t \in Threads, worker(t) PROVE main' = main /\ suspended' = suspended
  BY <1>2 DEF worker, poolVars, serverVars
<1>3. CASE mainStep
  <2>1. CASE waitForThreads /\ UNCHANGED serverVars
    BY <2>1, MainFields DEF waitForThreads
  <2>2. CASE countThread \/ lookAtBusy
    BY <2>2, LoopFields DEF TypeOK, countThread, lookAtBusy
  <2>3. CASE acceptPooled
    BY <2>3, MainFields DEF acceptPooled, counted, handleIncomingConnectionInPool, MainInv
  <2>. QED
    BY <1>3, <2>1, <2>2, <2>3, IdleTyped
    DEF mainStep, poolStep, takeIdling, takeLeastLoaded, createThread, acquireReadyThreads, rejectPooled, counted
<1>4. ASSUME NEW s \in Servers, suspendPooled(s)
      PROVE  main.op = "idle" /\ main'.op = "wait" /\ main'.srv = s
  BY <1>4, MainFields DEF suspendPooled, stopListening, disconnectSockets
<1>5. ASSUME NEW s \in Servers, suspendMain(s) \/ resume(s) PROVE main' = main /\ main.op = "idle"
  BY <1>5 DEF suspendMain, stopListening, resume, poolVars
<1>6. CASE destroyPool
  BY <1>6, MainFields DEF destroyPool
<1>7. ASSUME NEW n \in ThreadLimits, setMaxThreadCount(n) PROVE main' = main /\ main.op = "idle"
  BY <1>7 DEF setMaxThreadCount
<1>8. CASE ended
  BY <1>8 DEF ended, vars, poolVars, serverVars
<1>9. CASE application
  BY <1>4, <1>5, <1>6, <1>7, <1>9 DEF application
<1>. QED
  BY <1>1, <1>2, <1>3, <1>8, <1>9 DEF Next

(* Every step keeps DropInv.                                               *)
LEMMA DropStep ==
    ASSUME TypeOK, MainInv, DropInv, Next PROVE DropInv'
<1>. USE DEF TypeOK, DropInv
<1>1. main'.op = "wait" => suspended'[main'.srv]
  <2>1. ASSUME NEW s \in Servers, suspendPooled(s) PROVE suspended'[s]
    BY <2>1 DEF suspendPooled, stopListening
  <2>. QED
    BY <2>1, MainGoesOn
<1>2. \A t \in Threads' : \A i \in DOMAIN queue'[t] :
          queue'[t][i].type = "quit" => main'.op \in {"quit", "ended"}
  <2>0. main.op \in {"quit", "ended"} => main'.op \in {"quit", "ended"}
    BY MainGoesOn
  <2>. SUFFICES ASSUME main.op \notin {"quit", "ended"}, main'.op # "quit",
                       NEW t \in Threads', NEW i \in DOMAIN queue'[t]
                PROVE  queue'[t][i].type # "quit"
    BY <2>0
  <2>1. \A u \in Threads : queue[u] \in Seq(Event) /\ \A j \in DOMAIN queue[u] : queue[u][j].type # "quit"
    BY ThreadsAre
  <2>2. CASE UNCHANGED queue
    BY <2>1, <2>2 DEF Threads
  <2>3. ASSUME NEW u \in Threads, queue[u] # <<>>, queue' = [queue EXCEPT ![u] = Tail(@)]
        PROVE  queue'[t][i].type # "quit"
    <3>1. Threads' = Threads /\ (t # u => queue'[t] = queue[t]) /\ queue'[u] = Tail(queue[u])
      BY <2>1, <2>3 DEF Threads, ThreadTypeOK
    <3>2. CASE t = u
      <4>1. queue[t] \in Seq(Event) /\ queue[t] # <<>> /\ queue'[t] = Tail(queue[t])
        BY <2>1, <2>3, <3>1, <3>2
      <4>2. i \in 1..Len(Tail(queue[t]))
        BY <4>1
      <4>3. i + 1 \in DOMAIN queue[t] /\ queue'[t][i] = queue[t][i + 1]
        BY <4>1, <4>2, TailKeeps
      <4>. QED
        BY <2>1, <3>1, <4>3
    <3>. QED
      BY <2>1, <3>1, <3>2
  <2>4. ASSUME NEW e \in Event, e.type # "quit", NEW u \in Threads, queue' = [queue EXCEPT ![u] = Append(@, e)]
        PROVE  queue'[t][i].type # "quit"
    <3>1. Threads' = Threads /\ queue'[t] \in {queue[t], Append(queue[t], e)}
      BY <2>1, <2>4 DEF Threads, ThreadTypeOK
    <3>. QED
      BY <2>1, <2>4, <3>1, AppendKeeps
  <2>5. ASSUME NEW e \in Event, e.type # "quit", postToAll(e) PROVE queue'[t][i].type # "quit"
    <3>1. Threads' = Threads /\ queue'[t] = Append(queue[t], e)
      BY <2>5 DEF Threads, postToAll
    <3>. QED
      BY <2>1, <2>5, <3>1, AppendKeeps
  <2>6. CASE createThread
    <3>1. main.conn \in Conns
      BY <2>6 DEF createThread, MainInv
    <3>2. queue' = Append(queue, <<Incoming(main.conn)>>) /\ queue \in Seq(Seq(Event))
      BY <2>6 DEF createThread, startThreadWith, ThreadTypeOK
    <3>3. \/ t \in Threads /\ queue'[t] = queue[t]
          \/ queue'[t] = <<Incoming(main.conn)>>
      BY <3>2, ThreadsAre DEF ThreadTypeOK, Threads
    <3>. QED
      BY <2>1, <3>1, <3>3, EventKinds, ThreadAssumption DEF Incoming
  <2>7. ASSUME NEW u \in Threads, threadStep(u) PROVE queue'[t][i].type # "quit"
    BY <2>2, <2>3, <2>7 DEF threadStep, handleEvent, handleIncomingConnection, disconnectSocketsForServer, quit,
       AtEvent, endCall, startCall, socketDisconnected, sendDelayedReply
  <2>8. CASE takeIdling \/ takeLeastLoaded
    <3>1. main.conn \in Conns /\ \E u \in Nat : giveTo(u, main.conn)
      BY <2>8 DEF takeIdling, takeLeastLoaded, MainInv, PoolTypeOK, Activation
    <3>2. PICK u \in Nat : queue' = [queue EXCEPT ![u] = Append(@, Incoming(main.conn))]
      BY <3>1 DEF giveTo
    <3>3. CASE u \notin Threads
      BY <2>2, <3>2, <3>3 DEF ThreadTypeOK, Threads
    <3>. QED
      BY <2>4, <3>1, <3>2, <3>3, IncomingInEvent DEF Incoming
  <2>. QED
    BY <2>2, <2>5, <2>6, <2>7, <2>8, NextPosts
<1>3. main'.op = "ended" => \A t \in Threads' : ~ running'[t]
  <2>1. CASE main.op = "ended"
    <3>1. \A t \in Threads : ~ running[t]
      BY <2>1
    <3>2. ASSUME NEW t \in Threads, worker(t) PROVE FALSE
      BY <3>1, <3>2 DEF worker, threadStep, handleEvent, handleIncomingConnection, disconnectSocketsForServer,
         quit, AtEvent, endCall, startCall, socketDisconnected, sendDelayedReply
    <3>3. Threads' = Threads /\ running' = running
      BY <2>1, <3>2, SamePosted DEF Next, mainStep, poolStep, countThread, takeIdling, lookAtBusy, takeLeastLoaded,
         createThread, acquireReadyThreads, waitForThreads, rejectPooled, acceptPooled, counted, application,
         setMaxThreadCount, suspendPooled, suspendMain, stopListening, resume, destroyPool, mainLoop, connect,
         closeByClient, incomingConnectionPooled, incomingConnectionMain, mainSocketDisconnected, mainCallDelayed,
         mainSendDelayedReply, ended, vars, threadVars
    <3>. QED
      BY <3>1, <3>3
  <2>2. CASE main.op # "ended"
    BY <2>2, MainGoesOn, SamePosted DEF threadVars
  <2>. QED
    BY <2>1, <2>2
<1>. QED
  BY <1>1, <1>2, <1>3

(* DropInv holds in every reachable state.                                 *)
LEMMA DropInductive == Spec => []DropInv
<1>1. Init => DropInv
  <2>. SUFFICES ASSUME Init PROVE DropInv
    OBVIOUS
  <2>1. Threads = {} /\ main.op = "idle"
    BY IdleTyped DEF Init, Threads
  <2>. QED
    BY <2>1 DEF DropInv
<1>2. TypeOK /\ MainInv /\ DropInv /\ [Next]_vars => DropInv'
  <2>1. ASSUME DropInv, UNCHANGED vars PROVE DropInv'
    BY <2>1 DEF vars, threadVars, poolVars, serverVars, DropInv, Threads
  <2>. QED
    BY <2>1, DropStep
<1>. QED
  BY <1>1, <1>2, TypeInductive, PTL DEF Spec

(* One step of a worker: what it no longer holds it had a reason to drop.  *)
LEMMA WorkerDrops ==
    ASSUME TypeOK, PostedOnce, DisconnectLast, DropInv, NEW t \in Threads, threadStep(t),
           NEW c \in Held(t) \ Held(t)'
    PROVE  c \in peerClosed \/ suspended[ServerOf[c]] \/ main.op = "quit"
<1>1. TakesUp(t) \/ Drops(t)
  BY WorkerMoves DEF TypeOK
<1>2. Drops(t) /\ c \in sockets[t] \ sockets'[t]
  BY <1>1 DEF TakesUp, Drops, Held
<1>3. /\ queue[t] \in Seq(Event)
      /\ \A type : AtEvent(t, type) => 1 \in 1..Len(queue[t]) /\ queue[t][1] = Head(queue[t])
                                      /\ queue[t][1].type = type /\ running[t]
  BY ThreadsAre, TailKeeps DEF TypeOK, AtEvent
<1>4. CASE AtEvent(t, "disconnect") /\ sockets[t] \ sockets'[t] = OfServer(sockets[t], Head(queue[t]).arg)
  <2>1. main.op = "wait" /\ ServerOf[c] = main.srv
    BY <1>2, <1>3, <1>4 DEF DisconnectLast, OfServer
  <2>. QED
    BY <2>1 DEF DropInv
<1>5. CASE AtEvent(t, "quit")
  BY <1>3, <1>5 DEF DropInv
<1>. QED
  BY <1>2, <1>4, <1>5 DEF Drops

(* What main finds in the accept queue, looks at or has rejected is in some *)
(* place after a step, unless its server is suspended by it.               *)
LEMMA OutsideDrops ==
    ASSUME TypeOK, MainInv, OwnerInv, Next, NEW c \in backlog \cup rejected \cup Accepting
    PROVE  c \in Known' \/ suspended'[ServerOf[c]]
<1>1. rejected \subseteq rejected'
  BY DEF Next, mainLoop, worker, mainStep, application, connect, closeByClient, incomingConnectionPooled,
     incomingConnectionMain, mainSocketDisconnected, mainCallDelayed, mainSendDelayedReply, rejectPooled, acceptPooled,
     suspendPooled, suspendMain, resume, ended, serverVars, vars
<1>2. CASE c \in rejected
  BY <1>1, <1>2 DEF Known
<1>3. CASE c \in backlog
  <2>0. c \in Conns /\ c # None
    BY <1>3, ThreadAssumption DEF TypeOK
  <2>1. CASE backlog \subseteq backlog'
    BY <1>3, <2>1 DEF Known
  <2>2. ASSUME NEW d \in Conns, incomingConnectionPooled(d), c \notin backlog' PROVE c \in Known'
    <3>1. d = c
      BY <1>3, <2>2 DEF incomingConnectionPooled
    <3>2. main'.conn = c
      BY <2>0, <2>2, <3>1, MainFields DEF incomingConnectionPooled
    <3>. QED
      BY <2>0, <3>2 DEF Known, Accepting
  <2>3. ASSUME NEW d \in Conns, incomingConnectionMain(d), c \notin backlog' PROVE c \in Known'
    <3>1. d = c
      BY <1>3, <2>3 DEF incomingConnectionMain
    <3>2. c \in rejected' \/ c \in mainSockets'
      BY <2>3, <3>1 DEF incomingConnectionMain
    <3>. QED
      BY <3>2 DEF Known
  <2>4. ASSUME NEW s \in Servers, stopListening(s), c \notin backlog' PROVE suspended'[ServerOf[c]]
    BY <1>3, <2>4 DEF stopListening, OfServer, TypeOK
  <2>. QED
    BY <1>3, <2>1, <2>2, <2>3, <2>4
    DEF Known, Next, mainLoop, worker, mainStep, application, connect, closeByClient, mainSocketDisconnected,
        mainCallDelayed, mainSendDelayedReply, rejectPooled, acceptPooled, suspendPooled, suspendMain, resume, ended,
        serverVars, vars
<1>4. CASE c \in Accepting
  <2>1. c = main.conn /\ c # None /\ main.op \in {"count", "choose"}
    BY <1>4 DEF Accepting, MainInv
  <2>2. main.op # "idle" /\ main.op # "wait" /\ main.op # "quit" /\ main.op # "ended"
    BY <2>1
  <2>3. CASE main'.conn = main.conn
    BY <2>1, <2>3 DEF Known, Accepting
  <2>4. CASE takeIdling \/ takeLeastLoaded \/ createThread
    <3>1. PICK t : GivesTo(t, main.conn)
      BY <2>4, GiveMoves
    <3>2. t \in Threads' /\ c \in Queued(t)'
      BY <2>1, <3>1 DEF GivesTo
    <3>. QED
      BY <3>2 DEF Known, InPool, Held
  <2>5. CASE rejectPooled
    BY <2>1, <2>5 DEF rejectPooled, Known
  <2>6. CASE acceptPooled
    <3>1. main.conn \in Conns
      BY <2>1 DEF MainInv
    <3>. QED
      BY <2>3, <2>6, <3>1, MainFields DEF acceptPooled, handleIncomingConnectionInPool
  <2>7. CASE countThread \/ lookAtBusy
    BY <2>3, <2>7, LoopFields DEF TypeOK
  <2>8. ASSUME NEW t \in Threads, worker(t) PROVE main' = main
    BY <2>8 DEF worker, poolVars
  <2>9. ASSUME NEW d \in Conns, connect(d) \/ closeByClient(d) PROVE main' = main
    BY <2>9 DEF connect, closeByClient, poolVars
  <2>10. ~ application /\ \A d \in Conns : ~ mainLoop(d)
    BY <2>2 DEF application, setMaxThreadCount, suspendPooled, suspendMain, stopListening, resume, destroyPool, mainLoop,
       incomingConnectionPooled, incomingConnectionMain, mainSocketDisconnected, mainCallDelayed, mainSendDelayedReply
  <2>11. ~ acquireReadyThreads /\ ~ waitForThreads /\ ~ ended
    BY <2>2 DEF acquireReadyThreads, waitForThreads, ended
  <2>. QED
    BY <2>3, <2>4, <2>5, <2>6, <2>7, <2>8, <2>9, <2>10, <2>11 DEF Next, mainStep, poolStep
<1>. QED
  BY <1>2, <1>3, <1>4

(* A connection with a socket, or posted to a thread, is dropped for a     *)
(* reason only.                                                            *)
LEMMA PoolDrops ==
    ASSUME TypeOK, MainInv, OwnerInv, DisconnectLast, DropInv, Next,
           NEW c \in (InPool \cup mainSockets) \ (InPool \cup mainSockets)'
    PROVE  c \in peerClosed \/ suspended'[ServerOf[c]] \/ main.op = "quit"
<1>1. ASSUME NEW t \in Threads, worker(t) PROVE c \in peerClosed \/ suspended'[ServerOf[c]] \/ main.op = "quit"
  <2>1. threadStep(t) /\ mainSockets' = mainSockets /\ suspended' = suspended
    BY <1>1 DEF worker, serverVars
  <2>2. /\ Threads' = Threads
        /\ \A u \in Threads \ {t} : Queued(u)' = Queued(u) /\ sockets'[u] = sockets[u]
    BY <2>1, WorkerMoves DEF OwnerInv, TypeOK
  <2>3. c \in Held(t) \ Held(t)'
    BY <2>1, <2>2 DEF InPool, Held
  <2>. QED
    BY <2>1, <2>3, WorkerDrops DEF OwnerInv
<1>2. CASE \A u \in Threads : u \in Threads' /\ Held(u) \subseteq Held(u)'
  <2>1. c \in mainSockets \ mainSockets'
    BY <1>2 DEF InPool
  <2>2. ASSUME NEW s \in Servers, suspendMain(s) PROVE suspended'[ServerOf[c]]
    BY <2>1, <2>2 DEF suspendMain, stopListening, OfServer, TypeOK
  <2>3. ASSUME NEW d \in Conns, mainLoop(d) PROVE c \in peerClosed
    BY <2>1, <2>3 DEF mainLoop, incomingConnectionPooled, incomingConnectionMain, mainSocketDisconnected,
       mainCallDelayed, mainSendDelayedReply, serverVars
  <2>. QED
    BY <2>1, <2>2, <2>3 DEF Next, worker, mainStep, rejectPooled, acceptPooled, application, suspendPooled,
       resume, connect, closeByClient, ended, vars, serverVars
<1>3. ASSUME NEW e \in Event, e.type # "incoming", postToAll(e), sockets' = sockets
      PROVE  \A u \in Threads : u \in Threads' /\ Held(u) \subseteq Held(u)'
  BY <1>3, PostAllPosted DEF OwnerInv, Held, TypeOK
<1>4. ASSUME NEW t, GivesTo(t, main.conn) PROVE \A u \in Threads : u \in Threads' /\ Held(u) \subseteq Held(u)'
  BY <1>4 DEF GivesTo, Held
<1>5. CASE takeIdling \/ takeLeastLoaded \/ createThread
  BY <1>2, <1>4, <1>5, GiveMoves
<1>6. CASE UNCHANGED <<queue, sockets>>
  BY <1>2, <1>6, SameHeld
<1>7. CASE \E s \in Servers : suspendPooled(s)
  BY <1>2, <1>3, <1>7, DisconnectInEvent DEF suspendPooled, disconnectSockets, Disconnect
<1>8. CASE destroyPool
  BY <1>2, <1>3, <1>8, QuitInEvent DEF destroyPool, Quit
<1>. QED
  <2>1. CASE acquireReadyThreads \/ Aside
    BY <1>6, <2>1 DEF acquireReadyThreads, threadVars, Aside
  <2>. QED
    BY <1>1, <1>5, <1>7, <1>8, <2>1, NextKinds

(* However the disconnect events of suspend() are delayed in the queues of *)
(* the threads, they reach no socket of another server and none that was   *)
(* accepted after resume(), and no connection gets lost on its way to its  *)
(* thread: it is given up for a reason only (KDSoapServer.cpp,             *)
(* KDSoapThreadPool.cpp, KDSoapServerThread.cpp).                          *)
THEOREM DropsHaveReasons == Spec => DropsOnlySuspended
<1>1. ASSUME TypeOK, MainInv, OwnerInv, DisconnectLast, DropInv, Next, NEW c \in Known \ Known'
      PROVE  c \in peerClosed \/ suspended'[ServerOf[c]] \/ main.op = "quit"
  <2>1. CASE c \in InPool \cup mainSockets
    <3>1. c \notin (InPool \cup mainSockets)'
      BY <1>1 DEF Known
    <3>. QED
      BY <1>1, <2>1, <3>1, PoolDrops
  <2>2. CASE c \in backlog \cup rejected \cup Accepting
    BY <1>1, <2>2, OutsideDrops
  <2>. QED
    BY <1>1, <2>1, <2>2 DEF Known
<1>2. TypeOK /\ MainInv /\ OwnerInv /\ SuspendInv /\ DropInv /\ [Next]_vars =>
          [\A c \in Known \ Known' : c \in peerClosed \/ suspended'[ServerOf[c]] \/ main.op = "quit"]_vars
  BY <1>1 DEF SuspendInv
<1>. QED
  BY <1>2, TypeInductive, OwnerInductive, SuspendInductive, DropInductive, PTL DEF Spec, DropsOnlySuspended

(***************************************************************************)
(* How connections are spread over the threads: chooseNextThread() looks   *)
(* at the threads one after the other while they go on, and yet finds one  *)
(* that is least loaded when it is done.                                   *)
(***************************************************************************)
(* m_incomingConnectionCount is the number of connections on their way.    *)
IncomingCounted == \A t \in Threads : incoming[t] = Cardinality(Queued(t))

AllRunning == main.op \notin {"quit", "ended"} => \A t \in Threads : running[t]

(* What the threads have to do, as long as nobody left.  All threads have  *)
(* something, and one connection only until there are as many as allowed.  *)
Even ==
    /\ \A t \in Threads : Load(t) >= 1
    /\ Len(queue) # m_maxThreadCount => \A t \in Threads : Load(t) = 1
    /\ \A t, u \in Threads : Load(t) <= Load(u) + 1

(* What main remembers of the threads it has passed stays true while they  *)
(* go on.                                                                  *)
BestIsLeast ==
    main.op = "choose" =>
        /\ main.next >= 1
        /\ main.best = 0 => main.next = 1
        /\ main.best # 0 => /\ main.num = Load(main.best)
                            /\ \A u \in Threads : u < main.next => main.num <= Load(u)

BalanceInv == IncomingCounted /\ AllRunning /\ (NobodyLeft => Even /\ BestIsLeast)

---------------------------------------------------------------------------
(* Loads are natural numbers.                                              *)

(* A thread holds finitely many connections.                               *)
LEMMA LoadTyped ==
    ASSUME ThreadTypeOK, NEW t \in Threads
    PROVE  /\ IsFiniteSet(sockets[t]) /\ IsFiniteSet(Queued(t))
           /\ Cardinality(sockets[t]) \in Nat /\ Cardinality(Queued(t)) \in Nat
           /\ Load(t) \in Nat
<1>1. sockets[t] \subseteq Conns /\ Queued(t) \subseteq Conns
  BY ThreadsAre DEF Queued
<1>2. IsFiniteSet(sockets[t]) /\ IsFiniteSet(Queued(t))
  BY <1>1, FS_Subset, ThreadAssumption
<1>3. Cardinality(sockets[t]) \in Nat /\ Cardinality(Queued(t)) \in Nat
  BY <1>2, FS_CardinalityType
<1>. QED
  BY <1>2, <1>3 DEF Load

(* Cardinality of a set with one more element.                             *)
LEMMA GrowsByOne ==
    ASSUME NEW S, IsFiniteSet(S), NEW c, c \notin S
    PROVE  Cardinality(S \cup {c}) = Cardinality(S) + 1
BY FS_AddElement

(* Cardinality of a set with one fewer.                                    *)
LEMMA ShrinksByOne ==
    ASSUME NEW S, IsFiniteSet(S), NEW c \in S
    PROVE  Cardinality(S \ {c}) = Cardinality(S) - 1
BY FS_RemoveElement

---------------------------------------------------------------------------
(* The count of the connections on their way.                              *)

(* A worker keeps its counter equal to what it has posted.                 *)
LEMMA WorkerCounts ==
    ASSUME ThreadTypeOK, PostedOnce, IncomingCounted, NEW t \in Threads, threadStep(t)
    PROVE  IncomingCounted'
<1>. USE ThreadsAre
<1>1. CASE queue' = queue /\ incoming' = incoming
  <2>1. Threads' = Threads /\ \A u : Queued(u)' = Queued(u)
    BY <1>1, SamePosted
  <2>. QED
    BY <1>1, <2>1 DEF IncomingCounted
<1>2. CASE handleIncomingConnection(t)
  <2>1. /\ queue[t] # <<>> /\ queue' = [queue EXCEPT ![t] = Tail(@)] /\ AtEvent(t, "incoming")
        /\ incoming'[t] = incoming[t] - 1 /\ \A u \in Threads \ {t} : incoming'[u] = incoming[u]
    BY <1>2 DEF handleIncomingConnection, AtEvent, ThreadTypeOK
  <2>2. PICK c \in Conns : Head(queue[t]) = Incoming(c)
    BY <2>1, TakeTyped, IncomingEvent DEF ThreadTypeOK, AtEvent
  <2>3. \A d \in Conns : Incoming(d) = Incoming(c) => d = c
    BY DEF Incoming
  <2>4. /\ Threads' = Threads /\ \A u \in Threads \ {t} : Queued(u)' = Queued(u)
        /\ Queued(t)' = {d \in Queued(t) : Head(queue[t]) # Incoming(d)}
    BY <2>1, TakePosted
  <2>5. c \in Queued(t) /\ Queued(t)' = Queued(t) \ {c}
    BY <2>1, <2>2, <2>3, <2>4, TakeHeld DEF Queued
  <2>6. Cardinality(Queued(t)') = Cardinality(Queued(t)) - 1
    BY <2>5, LoadTyped, ShrinksByOne
  <2>. QED
    BY <2>1, <2>4, <2>6 DEF IncomingCounted
<1>3. CASE disconnectSocketsForServer(t) \/ quit(t)
  <2>1. /\ queue[t] # <<>> /\ queue' = [queue EXCEPT ![t] = Tail(@)] /\ incoming' = incoming
        /\ \A d \in Conns : Head(queue[t]) # Incoming(d)
    BY <1>3 DEF disconnectSocketsForServer, quit, AtEvent, Incoming
  <2>2. Threads' = Threads /\ \A u \in Threads : Queued(u)' = Queued(u)
    <3>1. /\ Threads' = Threads /\ \A u \in Threads \ {t} : Queued(u)' = Queued(u)
          /\ Queued(t)' = {d \in Queued(t) : Head(queue[t]) # Incoming(d)}
      BY <2>1, TakePosted
    <3>2. Queued(t)' = Queued(t)
      BY <2>1, <3>1 DEF Queued
    <3>. QED
      BY <3>1, <3>2
  <2>. QED
    BY <2>1, <2>2 DEF IncomingCounted
<1>. QED
  BY <1>1, <1>2, <1>3 DEF threadStep, handleEvent, endCall, startCall, socketDisconnected, sendDelayedReply

(* The last element of a sequence is the one appended.                     *)
LEMMA Appended ==
    ASSUME NEW S, NEW f \in Seq(S), NEW v \in S
    PROVE  Append(f, v)[Len(f) + 1] = v /\ \A i \in 1..Len(f) : Append(f, v)[i] = f[i]
OBVIOUS

(* Giving a connection to a thread of the pool, or to a new one.           *)
Gives(t) ==
    /\ GivesTo(t, main.conn)
    /\ \A u \in Threads \ {t} : incoming'[u] = incoming[u] /\ running'[u] = running[u]
    /\ IF t \in Threads THEN incoming'[t] = incoming[t] + 1 /\ running'[t] = running[t] /\ Len(queue') = Len(queue)
                        ELSE incoming'[t] = 1 /\ running'[t] /\ Len(queue') = Len(queue) + 1

(* Which thread each of the three outcomes of the choice gives to.         *)
LEMMA GivesWhere ==
    ASSUME TypeOK, MainInv, OwnerInv, takeIdling \/ takeLeastLoaded \/ createThread
    PROVE  /\ main.op = "choose" /\ main.conn \in Conns /\ main'.op = "idle"
           /\ UNCHANGED m_maxThreadCount
           /\ \E t : /\ Gives(t)
                     /\ \/ takeIdling /\ t = main.next
                        \/ takeLeastLoaded /\ t = main.best
                        \/ createThread /\ t \notin Threads
<1>. USE DEF TypeOK, OwnerInv
<1>1. main.conn \in Conns /\ main.op = "choose" /\ main'.op = "idle" /\ UNCHANGED m_maxThreadCount
  BY IdleTyped DEF takeIdling, takeLeastLoaded, createThread, MainInv
<1>2. ASSUME NEW t \in Threads, giveTo(t, main.conn) PROVE Gives(t)
  <2>1. main.conn \notin Queued(t)
    BY <1>1, ThreadAssumption DEF ThreadsApart, Held, Outside, Accepting
  <2>2. GivesTo(t, main.conn)
    BY <1>1, <1>2, <2>1, GivePosted DEF giveTo, GivesTo
  <2>3. /\ incoming'[t] = incoming[t] + 1 /\ running' = running /\ Len(queue') = Len(queue)
        /\ \A u \in Threads \ {t} : incoming'[u] = incoming[u]
    BY <1>2, ThreadsAre DEF giveTo, ThreadTypeOK
  <2>. QED
    BY <2>2, <2>3 DEF Gives
<1>3. CASE takeIdling
  BY <1>1, <1>2, <1>3 DEF takeIdling
<1>4. CASE takeLeastLoaded
  <2>1. main.best \in Threads
    BY <1>4 DEF takeLeastLoaded, atLimit, BestIsThread
  <2>. QED
    BY <1>1, <1>2, <1>4, <2>1 DEF takeLeastLoaded
<1>5. CASE createThread
  <2>1. startThreadWith(main.conn)
    BY <1>5 DEF createThread
  <2>2. /\ PostedOnce'
        /\ \E n : /\ n \notin Threads /\ Threads' = Threads \cup {n}
                  /\ Queued(n)' = {main.conn} /\ sockets'[n] = {}
        /\ \A u \in Threads : Queued(u)' = Queued(u) /\ sockets'[u] = sockets[u]
    BY <1>1, <2>1, StartPosted
  <2>3. PICK n : n = Len(queue) + 1
    OBVIOUS
  <2>4. Threads' = Threads \cup {n} /\ n \notin Threads
    BY <1>1, <2>1, <2>3, StartHeld, ThreadsAre DEF ThreadTypeOK
  <2>5. GivesTo(n, main.conn)
    BY <2>2, <2>4 DEF GivesTo
  <2>6. /\ incoming'[n] = 1 /\ running'[n] /\ Len(queue') = Len(queue) + 1
        /\ \A u \in Threads : incoming'[u] = incoming[u] /\ running'[u] = running[u]
    <3>1. /\ incoming' = Append(incoming, 1) /\ incoming \in Seq(Int) /\ Len(incoming) = Len(queue)
          /\ running' = Append(running, TRUE) /\ running \in Seq(BOOLEAN) /\ Len(running) = Len(queue)
          /\ queue' = Append(queue, <<Incoming(main.conn)>>) /\ queue \in Seq(Seq(Event))
      BY <2>1 DEF startThreadWith, ThreadTypeOK
    <3>2. incoming'[n] = 1 /\ \A u \in Threads : incoming'[u] = incoming[u]
      BY <2>3, <3>1, ThreadsAre
    <3>3. running'[n] = TRUE /\ \A u \in Threads : running'[u] = running[u]
      <4>1. PICK yes \in BOOLEAN : yes = TRUE
        OBVIOUS
      <4>2. running' = Append(running, yes)
        BY <3>1, <4>1, Zenon
      <4>3. /\ Append(running, yes)[Len(running) + 1] = yes
            /\ \A i \in 1..Len(running) : Append(running, yes)[i] = running[i]
        BY <3>1, Appended
      <4>4. running'[n] = yes /\ \A u \in Threads : running'[u] = running[u]
        BY <2>3, <3>1, <4>2, <4>3, ThreadsAre
      <4>. QED
        BY <4>1, <4>4, Zenon
    <3>4. Len(queue') = Len(queue) + 1
      BY <3>1
    <3>. QED
      BY <3>2, <3>3, <3>4
  <2>7. Gives(n)
    BY <2>4, <2>5, <2>6 DEF Gives
  <2>. QED
    BY <1>1, <1>5, <2>4, <2>7
<1>. QED
  BY <1>3, <1>4, <1>5

(* What the other steps leave alone.                                       *)
LEMMA LoadKinds ==
    ASSUME TypeOK, MainInv, OwnerInv, Next
    PROVE  \/ \E t \in Threads : worker(t)
           \/ takeIdling \/ takeLeastLoaded \/ createThread
           \/ /\ Threads' = Threads /\ UNCHANGED <<incoming, running, sockets>>
              /\ \A u \in Threads : Queued(u)' = Queued(u)
<1>1. CASE UNCHANGED <<queue, incoming, running, sockets>>
  BY <1>1, SamePosted
<1>2. ASSUME NEW e \in Event, e.type # "incoming", postToAll(e)
      PROVE  Threads' = Threads /\ \A u \in Threads : Queued(u)' = Queued(u)
  BY <1>2, PostAllPosted DEF OwnerInv, TypeOK
<1>3. ASSUME NEW s \in Servers, suspendPooled(s)
      PROVE  /\ Threads' = Threads /\ UNCHANGED <<incoming, running, sockets>>
             /\ \A u \in Threads : Queued(u)' = Queued(u)
  BY <1>2, <1>3, DisconnectInEvent DEF suspendPooled, disconnectSockets, Disconnect
<1>4. CASE destroyPool
  BY <1>2, <1>4, QuitInEvent DEF destroyPool, Quit
<1>5. CASE application
  BY <1>1, <1>3, <1>4, <1>5 DEF application, setMaxThreadCount, suspendMain, resume, threadVars
<1>6. ASSUME NEW c \in Conns, connect(c) \/ closeByClient(c) \/ mainLoop(c)
      PROVE  UNCHANGED <<queue, incoming, running, sockets>>
  BY <1>6 DEF connect, closeByClient, mainLoop, incomingConnectionPooled, incomingConnectionMain,
     mainSocketDisconnected, mainCallDelayed, mainSendDelayedReply, threadVars
<1>7. CASE mainStep
  BY <1>1, <1>7 DEF mainStep, poolStep, countThread, lookAtBusy, acquireReadyThreads, waitForThreads, rejectPooled,
     acceptPooled, threadVars
<1>8. CASE ended
  BY <1>1, <1>8 DEF ended, vars, threadVars
<1>. QED
  BY <1>1, <1>5, <1>6, <1>7, <1>8 DEF Next

(* Every step keeps IncomingCounted.                                       *)
LEMMA CountedStep ==
    ASSUME TypeOK, MainInv, OwnerInv, IncomingCounted, Next PROVE IncomingCounted'
<1>. USE DEF IncomingCounted
<1>1. ASSUME NEW t \in Threads, worker(t) PROVE IncomingCounted'
  BY <1>1, WorkerCounts DEF worker, TypeOK, OwnerInv
<1>2. CASE takeIdling \/ takeLeastLoaded \/ createThread
  <2>1. main.op = "choose" /\ main.conn \in Conns
    BY <1>2, GivesWhere
  <2>2. PICK c \in Conns : c = main.conn
    BY <2>1
  <2>3. \A t \in Threads : c \notin Queued(t)
    BY <2>2, ThreadAssumption DEF OwnerInv, ThreadsApart, Held, Outside, Accepting
  <2>4. PICK t : Gives(t)
    BY <1>2, GivesWhere
  <2>5. CASE t \in Threads
    <3>1. Threads' = Threads /\ Queued(t)' = Queued(t) \cup {c} /\ incoming'[t] = incoming[t] + 1
      BY <2>2, <2>4, <2>5 DEF Gives, GivesTo
    <3>2. Cardinality(Queued(t)') = Cardinality(Queued(t)) + 1
      BY <2>3, <2>5, <3>1, LoadTyped, GrowsByOne DEF TypeOK
    <3>. QED
      BY <2>4, <3>1, <3>2 DEF Gives, GivesTo
  <2>6. CASE t \notin Threads
    <3>1. Threads' = Threads \cup {t} /\ Queued(t)' = {c} /\ incoming'[t] = 1
      BY <2>2, <2>4, <2>6 DEF Gives, GivesTo
    <3>2. Cardinality(Queued(t)') = 1
      BY <3>1, FS_Singleton
    <3>. QED
      BY <2>4, <3>1, <3>2 DEF Gives, GivesTo
  <2>. QED
    BY <2>5, <2>6
<1>. QED
  BY <1>1, <1>2, LoadKinds

(* Every step keeps the threads running while main is not destroying them. *)
LEMMA RunningStep ==
    ASSUME TypeOK, MainInv, OwnerInv, DropInv, AllRunning, Next PROVE AllRunning'
<1>. SUFFICES ASSUME main'.op \notin {"quit", "ended"} PROVE \A t \in Threads' : running'[t]
  BY DEF AllRunning
<1>1. main.op \notin {"quit", "ended"} /\ \A t \in Threads : running[t]
  BY MainGoesOn DEF AllRunning
<1>2. ASSUME NEW t \in Threads, worker(t) PROVE Threads' = Threads /\ running' = running
  <2>1. CASE quit(t)
    <3>1. queue[t] \in Seq(Event) /\ queue[t] # <<>> /\ Head(queue[t]).type = "quit"
      BY <2>1, ThreadsAre DEF quit, AtEvent, TypeOK
    <3>2. 1 \in DOMAIN queue[t] /\ queue[t][1].type = "quit"
      BY <3>1, TailKeeps
    <3>. QED
      BY <1>1, <3>2 DEF DropInv
  <2>2. CASE ~ quit(t)
    <3>1. Threads' = Threads
      BY <1>2, WorkerMoves DEF worker, TypeOK, OwnerInv
    <3>. QED
      BY <1>2, <2>2, <3>1 DEF worker, threadStep, handleEvent, handleIncomingConnection,
         disconnectSocketsForServer, endCall, startCall, socketDisconnected, sendDelayedReply
  <2>. QED
    BY <2>1, <2>2
<1>3. CASE takeIdling \/ takeLeastLoaded \/ createThread
  <2>1. PICK t : Gives(t)
    BY <1>3, GivesWhere
  <2>. QED
    BY <1>1, <2>1 DEF Gives, GivesTo
<1>. QED
  BY <1>1, <1>2, <1>3, LoadKinds

---------------------------------------------------------------------------
(* As long as nobody left.                                                 *)

(* Who has not left after a step had not left before.                      *)
LEMMA NobodyLeftBefore ==
    ASSUME TypeOK, MainInv, OwnerInv, Next, NobodyLeft' PROVE NobodyLeft
<1>1. Outside' \subseteq Outside
  BY OutsideStep DEF OwnerInv
<1>2. InPool' \subseteq InPool \cup Accepting
  BY NextFlow DEF Flow, InPool
<1>3. Conns \subseteq Outside' \cup InPool'
  BY DEF NobodyLeft, Outside
<1>4. Outside \cup InPool \subseteq Conns
  <2>1. Accepting \subseteq Conns
    BY DEF Accepting, TypeOK, PoolTypeOK, Activation
  <2>2. InPool \subseteq Conns
    BY ThreadsAre DEF InPool, Held, Queued, TypeOK
  <2>. QED
    BY <2>1, <2>2 DEF Outside, TypeOK
<1>. QED
  BY <1>1, <1>2, <1>3, <1>4 DEF NobodyLeft, Outside

(* Work in progress does not change what a thread has to do.               *)
LEMMA SameLoads ==
    ASSUME TypeOK, MainInv, OwnerInv, Next, NobodyLeft', NEW t \in Threads, worker(t)
    PROVE  Threads' = Threads /\ \A u \in Threads : Load(u)' = Load(u)
<1>1. /\ Threads' = Threads
      /\ \A u \in Threads \ {t} : Queued(u)' = Queued(u) /\ sockets'[u] = sockets[u]
      /\ TakesUp(t) \/ Drops(t)
  BY WorkerMoves DEF worker, TypeOK, OwnerInv
<1>2. CASE TakesUp(t)
  <2>1. PICK c \in Queued(t) : Queued(t)' = Queued(t) \ {c} /\ sockets'[t] = sockets[t] \cup {c}
    BY <1>2 DEF TakesUp
  <2>2. c \notin sockets[t]
    BY DEF OwnerInv, NewToThread
  <2>3. Cardinality(Queued(t)') = Cardinality(Queued(t)) - 1
    BY <2>1, LoadTyped, ShrinksByOne DEF TypeOK
  <2>4. Cardinality(sockets'[t]) = Cardinality(sockets[t]) + 1
    BY <2>1, <2>2, LoadTyped, GrowsByOne DEF TypeOK
  <2>5. Cardinality(Queued(t)) \in Nat /\ Cardinality(sockets[t]) \in Nat
    BY LoadTyped DEF TypeOK
  <2>6. Load(t)' = Load(t)
    BY <2>3, <2>4, <2>5 DEF Load
  <2>. QED
    BY <1>1, <2>6 DEF Load
<1>3. CASE Drops(t)
  <2>1. ASSUME NEW c \in sockets[t] \ sockets'[t] PROVE FALSE
    <3>1. c \in Conns /\ c \in Held(t)
      BY ThreadsAre DEF Held, TypeOK
    <3>2. c \notin Outside'
      BY <3>1, OutsideStep DEF OwnerInv, ThreadsApart
    <3>3. PICK u \in Threads : c \in Held(u)'
      BY <1>1, <3>1, <3>2 DEF NobodyLeft, Outside, InPool
    <3>4. c \notin Held(t)'
      BY <1>3 DEF Drops, Held, OwnerInv, NewToThread
    <3>5. u # t /\ c \in Held(u)
      BY <1>1, <3>3, <3>4 DEF Held
    <3>. QED
      BY <3>1, <3>5 DEF OwnerInv, ThreadsApart
  <2>2. sockets'[t] = sockets[t]
    BY <1>3, <2>1 DEF Drops
  <2>. QED
    BY <1>1, <1>3, <2>2 DEF Drops, Load
<1>. QED
  BY <1>1, <1>2, <1>3

(* One connection more for the thread that was chosen.                     *)
LEMMA GivesLoad ==
    ASSUME TypeOK, MainInv, OwnerInv, NEW t, Gives(t), main.op = "choose"
    PROVE  /\ Threads' = Threads \cup {t}
           /\ \A u \in Threads \ {t} : Load(u)' = Load(u)
           /\ Load(t)' = IF t \in Threads THEN Load(t) + 1 ELSE 1
<1>1. PICK c \in Conns : c = main.conn
  BY DEF MainInv
<1>2. \A u \in Threads : c \notin Queued(u)
  BY <1>1, ThreadAssumption DEF OwnerInv, ThreadsApart, Held, Outside, Accepting
<1>3. Threads' = Threads \cup {t} /\ \A u \in Threads \ {t} : Load(u)' = Load(u)
  BY DEF Gives, GivesTo, Load
<1>4. CASE t \in Threads
  <2>1. Queued(t)' = Queued(t) \cup {c} /\ sockets'[t] = sockets[t]
    BY <1>1, <1>4 DEF Gives, GivesTo
  <2>2. Cardinality(Queued(t)') = Cardinality(Queued(t)) + 1
    BY <1>2, <1>4, <2>1, LoadTyped, GrowsByOne DEF TypeOK
  <2>3. Cardinality(Queued(t)) \in Nat /\ Cardinality(sockets[t]) \in Nat
    BY <1>4, LoadTyped DEF TypeOK
  <2>. QED
    BY <1>3, <1>4, <2>1, <2>2, <2>3 DEF Load
<1>5. CASE t \notin Threads
  <2>1. Queued(t)' = {c} /\ sockets'[t] = {}
    BY <1>1, <1>5 DEF Gives, GivesTo
  <2>2. Cardinality(Queued(t)') = 1 /\ Cardinality(sockets'[t]) = 0
    BY <2>1, FS_Singleton, FS_EmptySet
  <2>. QED
    BY <1>3, <1>5, <2>2 DEF Load
<1>. QED
  BY <1>4, <1>5

(* While nobody leaves, every step keeps the loads even.                   *)
LEMMA EvenStep ==
    ASSUME NEW n \in Int, ThreadLimits = {n}, TypeOK, TypeOK', MainInv, OwnerInv, BalanceInv, Next, NobodyLeft'
    PROVE  Even'
<1>1. Even /\ BestIsLeast /\ IncomingCounted /\ AllRunning
  BY NobodyLeftBefore DEF BalanceInv
<1>2. m_maxThreadCount' = n /\ m_maxThreadCount = n
  BY DEF TypeOK, PoolTypeOK
<1>3. Threads = 1..Len(queue) /\ Len(queue) \in Nat /\ \A u \in Threads : Load(u) \in Nat
  BY ThreadsAre, LoadTyped DEF TypeOK, ThreadTypeOK
<1>4. CASE Threads' = Threads /\ \A u \in Threads : Load(u)' = Load(u)
  <2>1. Len(queue') = Len(queue)
    <3>1. Threads' = 1..Len(queue') /\ Len(queue') \in Nat
      BY DEF TypeOK, ThreadTypeOK, Threads
    <3>. QED
      BY <1>3, <1>4, <3>1
  <2>. QED
    BY <1>1, <1>2, <1>4, <2>1 DEF Even
<1>5. CASE takeIdling \/ takeLeastLoaded \/ createThread
  <2>1. main.op = "choose" /\ \A t \in Threads : running[t]
    BY <1>1, <1>5, GivesWhere DEF AllRunning
  <2>2. PICK t : /\ Gives(t)
                 /\ \/ takeIdling /\ t = main.next
                    \/ takeLeastLoaded /\ t = main.best
                    \/ createThread /\ t \notin Threads
    BY <1>5, GivesWhere
  <2>3. /\ Threads' = Threads \cup {t}
        /\ \A u \in Threads \ {t} : Load(u)' = Load(u)
        /\ Load(t)' = IF t \in Threads THEN Load(t) + 1 ELSE 1
    BY <2>1, <2>2, GivesLoad
  <2>4. CASE takeIdling
    <3>1. main.next \in Threads /\ socketCount(main.next) = 0
      BY <2>4 DEF takeIdling
    <3>2. Load(main.next) = 0
      BY <1>1, <2>1, <3>1 DEF socketCount, Load, IncomingCounted
    <3>. QED
      BY <1>1, <3>1, <3>2 DEF Even
  <2>5. main.next \notin Threads => \A u \in Threads : u < main.next
    BY <1>1, <1>3, <2>1 DEF BestIsLeast, TypeOK, PoolTypeOK, Activation
  <2>6. CASE takeLeastLoaded /\ t = main.best
    <3>1. main.next \notin Threads /\ main.best # 0 /\ Len(queue) = n /\ t \in Threads /\ Len(queue') = Len(queue)
      BY <1>2, <2>1, <2>2, <2>6 DEF takeLeastLoaded, atLimit, OwnerInv, BestIsThread, Gives
    <3>2. \A u \in Threads : Load(t) <= Load(u)
      BY <1>1, <2>1, <2>5, <2>6, <3>1 DEF BestIsLeast
    <3>3. Threads' = Threads /\ \A u \in Threads : Load(u)' = IF u = t THEN Load(u) + 1 ELSE Load(u)
      BY <2>3, <3>1
    <3>4. Len(queue') = m_maxThreadCount'
      BY <1>2, <3>1
    <3>5. \A u \in Threads' : Load(u)' >= 1
      BY <1>1, <1>3, <3>3 DEF Even
    <3>6. \A u, v \in Threads' : Load(u)' <= Load(v)' + 1
      <4>. SUFFICES ASSUME NEW u \in Threads, NEW v \in Threads PROVE Load(u)' <= Load(v)' + 1
        BY <3>3
      <4>1. Load(u) \in Nat /\ Load(v) \in Nat /\ Load(u) <= Load(v) + 1 /\ Load(t) <= Load(v)
        BY <1>1, <1>3, <3>2 DEF Even
      <4>. QED
        BY <3>3, <4>1
    <3>. QED
      BY <3>4, <3>5, <3>6 DEF Even
  <2>7. CASE createThread /\ t \notin Threads
    <3>1. main.next \notin Threads /\ ~ atLimit
      BY <2>7 DEF createThread
    <3>2. \A u \in Threads : Load(u) = 1
      <4>1. CASE Len(queue) # n
        BY <1>1, <1>2, <4>1 DEF Even
      <4>2. CASE main.best = 0
        BY <1>1, <1>3, <2>1, <3>1, <4>2 DEF BestIsLeast
      <4>. QED
        BY <1>2, <3>1, <4>1, <4>2 DEF atLimit
    <3>3. \A u \in Threads' : Load(u)' = 1
      BY <2>3, <2>7, <3>2
    <3>. QED
      BY <3>3 DEF Even
  <2>. QED
    BY <2>2, <2>4, <2>6, <2>7
<1>6. ASSUME NEW t \in Threads, worker(t) PROVE Even'
  BY <1>4, <1>6, SameLoads
<1>. QED
  <2>1. CASE Threads' = Threads /\ sockets' = sockets /\ \A u \in Threads : Queued(u)' = Queued(u)
    <3>1. \A u \in Threads : Load(u)' = Load(u)
      BY <2>1 DEF Load
    <3>. QED
      BY <1>4, <2>1, <3>1
  <2>. QED
    BY <1>5, <1>6, <2>1, LoadKinds

(* While nobody leaves, the thread chosen so far stays the least loaded.   *)
LEMMA BestStaysLeast ==
    ASSUME TypeOK, MainInv, OwnerInv, BalanceInv, Next, NobodyLeft' PROVE BestIsLeast'
<1>1. Even /\ BestIsLeast /\ IncomingCounted /\ AllRunning
  BY NobodyLeftBefore DEF BalanceInv
<1>2. CASE main' = main /\ Threads' = Threads /\ \A u \in Threads : Load(u)' = Load(u)
  BY <1>1, <1>2 DEF BestIsLeast, OwnerInv, BestIsThread
<1>3. CASE main'.op # "choose"
  BY <1>3 DEF BestIsLeast
<1>4. CASE lookAtBusy
  <2>. DEFINE sc == socketCount(main.next)
              better == main.best = 0 \/ sc < main.num
  <2>1. /\ main.op = "choose" /\ main.next \in Threads /\ main \in Activation
        /\ main' = [main EXCEPT !.num = IF better THEN sc ELSE main.num,
                                !.best = IF better THEN main.next ELSE main.best,
                                !.next = main.next + 1]
        /\ UNCHANGED <<queue, sockets>>
    BY <1>4 DEF lookAtBusy, threadVars, TypeOK, PoolTypeOK
  <2>2. sc = Load(main.next) /\ Load(main.next) \in Nat
    BY <1>1, <2>1, LoadTyped DEF socketCount, Load, IncomingCounted, AllRunning, TypeOK
  <2>3. Threads' = Threads /\ \A u \in Threads : Load(u)' = Load(u) /\ Load(u) \in Nat
    BY <2>1, SamePosted, LoadTyped DEF Load, TypeOK
  <2>4. /\ main.next \in Nat /\ main.num \in Int /\ main.best \in Nat /\ Threads \subseteq Nat \ {0}
    BY <2>1, ThreadsAre DEF Activation, TypeOK
  <2>. HIDE DEF sc
  <2>5. /\ main'.num = IF better THEN sc ELSE main.num
        /\ main'.best = IF better THEN main.next ELSE main.best
        /\ main'.next = main.next + 1
    BY <2>1 DEF Activation
  <2>6. \A u \in Threads : u < main.next + 1 => u < main.next \/ u = main.next
    BY <2>4
  <2>7. CASE better
    <3>1. ASSUME NEW u \in Threads, u < main.next PROVE sc <= Load(u)
      <4>1. main.best # 0
        BY <1>1, <2>1, <2>4, <3>1 DEF BestIsLeast
      <4>2. main.num <= Load(u) /\ sc < main.num
        BY <1>1, <2>1, <2>7, <3>1, <4>1 DEF BestIsLeast
      <4>. QED
        BY <2>2, <2>3, <2>4, <4>2
    <3>. HIDE DEF better
    <3>2. main'.num = sc /\ main'.best = main.next /\ main'.next = main.next + 1
      BY <2>5, <2>7
    <3>3. main'.num = Load(main.best)' /\ \A u \in Threads : u < main'.next => main'.num <= Load(u)'
      BY <2>1, <2>2, <2>3, <2>6, <3>1, <3>2
    <3>. QED
      BY <2>1, <2>3, <2>4, <3>2, <3>3 DEF BestIsLeast
  <2>8. CASE ~ better
    <3>1. main'.num = main.num /\ main'.best = main.best /\ main'.next = main.next + 1 /\ main.best # 0
      BY <2>5, <2>8
    <3>2. main.best \in Threads
      BY <2>1, <3>1 DEF OwnerInv, BestIsThread
    <3>3. main.num = Load(main.best) /\ \A u \in Threads : u < main.next + 1 => main.num <= Load(u)
      BY <1>1, <2>1, <2>2, <2>3, <2>4, <2>6, <2>8, <3>1 DEF BestIsLeast
    <3>. QED
      BY <2>1, <2>3, <2>4, <3>1, <3>2, <3>3 DEF BestIsLeast
  <2>. QED
    BY <2>7, <2>8
<1>5. CASE acceptPooled
  <2>1. main.conn \in Conns
    BY <1>5 DEF acceptPooled, counted, MainInv
  <2>2. main'.next = 1 /\ main'.best = 0
    BY <1>5, <2>1 DEF acceptPooled, handleIncomingConnectionInPool, Idle
  <2>. QED
    BY <2>2 DEF BestIsLeast
<1>6. CASE main' = main
  <2>1. ASSUME NEW t \in Threads, worker(t) PROVE BestIsLeast'
    BY <1>2, <1>6, <2>1, SameLoads
  <2>2. CASE takeIdling \/ takeLeastLoaded \/ createThread
    BY <1>3, <2>2, GivesWhere
  <2>3. CASE Threads' = Threads /\ sockets' = sockets /\ \A u \in Threads : Queued(u)' = Queued(u)
    BY <1>2, <1>6, <2>3 DEF Load
  <2>. QED
    BY <2>1, <2>2, <2>3, LoadKinds
<1>. QED
  BY <1>3, <1>4, <1>5, <1>6, BoundKinds, GivesWhere

(* BalanceInv holds in every reachable state.                              *)
LEMMA BalanceInductive ==
    ASSUME NEW n \in Int, ThreadLimits = {n} PROVE Spec => []BalanceInv
<1>1. Init => BalanceInv
  <2>. SUFFICES ASSUME Init PROVE BalanceInv
    OBVIOUS
  <2>1. Threads = {} /\ main.op = "idle"
    BY IdleTyped DEF Init, Threads
  <2>. QED
    BY <2>1 DEF BalanceInv, IncomingCounted, AllRunning, Even, BestIsLeast
<1>2. TypeOK /\ TypeOK' /\ MainInv /\ OwnerInv /\ DropInv /\ BalanceInv /\ [Next]_vars => BalanceInv'
  <2>1. ASSUME BalanceInv, UNCHANGED vars PROVE BalanceInv'
    <3>1. UNCHANGED <<queue, sockets, incoming, running, main, m_maxThreadCount, fresh, backlog, rejected, mainSockets>>
      BY <2>1 DEF vars, threadVars, poolVars, serverVars
    <3>2. Threads' = Threads /\ (\A u : Queued(u)' = Queued(u)) /\ \A u : Load(u)' = Load(u)
      BY <3>1, SamePosted DEF Load
    <3>3. NobodyLeft' => NobodyLeft
      BY <3>1, <3>2, SameHeld DEF NobodyLeft, Accepting, InPool
    <3>. QED
      BY <2>1, <3>1, <3>2, <3>3 DEF BalanceInv, IncomingCounted, AllRunning, Even, BestIsLeast
  <2>2. ASSUME TypeOK, TypeOK', MainInv, OwnerInv, DropInv, BalanceInv, Next PROVE BalanceInv'
    BY <2>2, CountedStep, RunningStep, EvenStep, BestStaysLeast DEF BalanceInv
  <2>. QED
    BY <2>1, <2>2
<1>. QED
  BY <1>1, <1>2, TypeInductive, OwnerInductive, DropInductive, PTL DEF Spec

(* With one limit, whatever it is, the connections stay evenly spread as   *)
(* long as nobody leaves: chooseNextThread() reads the counts at different *)
(* times and without a lock of its own, and still picks a thread with the  *)
(* least to do, because m_incomingConnectionCount covers what it posted.   *)
THEOREM LoadsBalanced ==
    ASSUME NEW n \in Int, ThreadLimits = {n} PROVE Spec => []BalancedLoad
<1>1. BalanceInv => BalancedLoad
  BY DEF BalanceInv, Even, BalancedLoad
<1>. QED
  BY <1>1, BalanceInductive, PTL
=============================================================================
