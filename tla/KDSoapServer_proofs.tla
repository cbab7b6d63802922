-------------------------- MODULE KDSoapServer_proofs --------------------------
(***************************************************************************)
(* Theorems about KDSoapServer, for any numbers of servers, connections    *)
(* and threads.                                                            *)
(***************************************************************************)
EXTENDS KDSoapServer, FiniteSetTheorems, TLAPS

(* Posting to a thread, or taking from its queue, keeps the queues typed.  *)
LEMMA PostTyped ==
    ASSUME queue \in Seq(Seq(Event)), NEW t \in Threads, NEW e \in Event
    PROVE  [queue EXCEPT ![t] = Append(@, e)] \in Seq(Seq(Event))
<1>1. queue[t] \in Seq(Event)
  BY DEF Threads
<1>2. Append(queue[t], e) \in Seq(Event)
  BY <1>1
<1>. QED
  BY <1>2 DEF Threads

(* Taking the first event of a thread keeps the queues typed.              *)
LEMMA TakeTyped ==
    ASSUME queue \in Seq(Seq(Event)), NEW t \in Threads, queue[t] # <<>>
    PROVE  /\ [queue EXCEPT ![t] = Tail(@)] \in Seq(Seq(Event))
           /\ Head(queue[t]) \in Event
<1>1. queue[t] \in Seq(Event)
  BY DEF Threads
<1>2. Tail(queue[t]) \in Seq(Event) /\ Head(queue[t]) \in Event
  BY <1>1
<1>. QED
  BY <1>2 DEF Threads

(* So does posting an event to every thread.                               *)
LEMMA PostAllTyped ==
    ASSUME queue \in Seq(Seq(Event)), NEW e \in Event
    PROVE  /\ [t \in Threads |-> Append(queue[t], e)] \in Seq(Seq(Event))
           /\ Len([t \in Threads |-> Append(queue[t], e)]) = Len(queue)
<1>1. \A t \in Threads : Append(queue[t], e) \in Seq(Event)
  <2>. TAKE t \in Threads
  <2>1. queue[t] \in Seq(Event)
    BY DEF Threads
  <2>. QED BY <2>1
<1>2. Threads = 1..Len(queue) /\ Len(queue) \in Nat
  BY DEF Threads
<1>. QED
  BY <1>1, <1>2

(* Every connection has a server.                                          *)
LEMMA ServerTyped == ASSUME NEW c \in Conns PROVE ServerOf[c] \in Servers
BY ThreadAssumption

(* The three kinds of events are events.                                   *)
LEMMA IncomingInEvent ==
    ASSUME NEW c \in Conns PROVE Incoming(c) \in Event
BY DEF Event

(* See IncomingInEvent.                                                    *)
LEMMA DisconnectInEvent ==
    ASSUME NEW s \in Servers PROVE Disconnect(s) \in Event
BY DEF Event

(* See IncomingInEvent.                                                    *)
LEMMA QuitInEvent == Quit \in Event
BY DEF Event

(* An event of type incoming is about a connection.                        *)
LEMMA IncomingEvent ==
    ASSUME NEW e \in Event, e.type = "incoming" PROVE e.arg \in Conns /\ e = Incoming(e.arg)
BY DEF Event, Incoming, Disconnect, Quit

(* An event of type disconnect is about a server.                          *)
LEMMA DisconnectEvent ==
    ASSUME NEW e \in Event, e.type = "disconnect" PROVE e.arg \in Servers /\ e = Disconnect(e.arg)
BY DEF Event, Incoming, Disconnect, Quit

---------------------------------------------------------------------------
(* TypeOK is inductive by itself: one step per action.                     *)

(* Replacing one element keeps type and length of a sequence.              *)
LEMMA ReplaceTyped ==
    ASSUME NEW S, NEW f \in Seq(S), NEW t \in 1..Len(f), NEW v \in S
    PROVE  [f EXCEPT ![t] = v] \in Seq(S) /\ Len([f EXCEPT ![t] = v]) = Len(f)
OBVIOUS

(* ThreadTypeOK, thread by thread.                                         *)
LEMMA ThreadsAre ==
    ASSUME ThreadTypeOK
    PROVE  /\ Threads = 1..Len(queue)
           /\ \A t \in Threads :
                /\ queue[t] \in Seq(Event) /\ incoming[t] \in Int
                /\ sockets[t] \subseteq Conns /\ busy[t] \in Conns \cup {None}
                /\ running[t] \in BOOLEAN
BY DEF Threads, ThreadTypeOK

(* The records main is set to.                                             *)
LEMMA IdleTyped ==
    /\ Idle \in Activation
    /\ Idle.op = "idle" /\ Idle.conn = None
BY DEF Idle, Activation

(* What main starts or ends with is an activation.                         *)
LEMMA StartTyping ==
    /\ \A c \in Conns :
           /\ [Idle EXCEPT !.op = "count", !.next = 1, !.conn = c] \in Activation
           /\ [Idle EXCEPT !.op = "choose", !.next = 1, !.conn = c] \in Activation
    /\ \A s \in Servers : [Idle EXCEPT !.op = "wait", !.srv = s] \in Activation
    /\ [Idle EXCEPT !.op = "quit"] \in Activation
    /\ [Idle EXCEPT !.op = "ended"] \in Activation
<1>. USE DEF Activation
<1>1. \A c \in Conns, o \in {"count", "choose"} :
        [Idle EXCEPT !.op = o, !.next = 1, !.conn = c] \in Activation
  BY IdleTyped
<1>2. \A s \in Servers : [Idle EXCEPT !.op = "wait", !.srv = s] \in Activation
  BY IdleTyped
<1>3. \A o \in {"quit", "ended"} : [Idle EXCEPT !.op = o] \in Activation
  BY IdleTyped
<1>. QED
  BY <1>1, <1>2, <1>3

(* TypeOK holds when the program starts.                                   *)
LEMMA InitTyped == Init => TypeOK
BY PoolAssumption, IdleTyped DEF Init, TypeOK, ThreadTypeOK, PoolTypeOK

(* A step of a worker thread keeps the threads' types.                     *)
LEMMA ThreadStepTyped ==
    ASSUME ThreadTypeOK, NEW t \in Threads, threadStep(t) PROVE ThreadTypeOK'
<1>. USE ThreadsAre DEF ThreadTypeOK
<1>1. CASE handleIncomingConnection(t)
  <2>. USE <1>1 DEF handleIncomingConnection, AtEvent
  <2>1. Head(queue[t]).arg \in Conns /\ queue' \in Seq(Seq(Event)) /\ Len(queue') = Len(queue)
    BY TakeTyped, IncomingEvent
  <2>2. sockets' \in Seq(SUBSET Conns) /\ Len(sockets') = Len(queue)
    BY <2>1
  <2>3. incoming' \in Seq(Int) /\ Len(incoming') = Len(queue)
    OBVIOUS
  <2>. QED
    BY <2>1, <2>2, <2>3
<1>2. CASE disconnectSocketsForServer(t)
  <2>. USE <1>2 DEF disconnectSocketsForServer, AtEvent
  <2>1. queue' \in Seq(Seq(Event)) /\ Len(queue') = Len(queue)
    BY TakeTyped
  <2>2. sockets' \in Seq(SUBSET Conns) /\ Len(sockets') = Len(queue)
    OBVIOUS
  <2>. QED
    BY <2>1, <2>2
<1>3. CASE quit(t)
  <2>. USE <1>3 DEF quit, AtEvent
  <2>1. queue' \in Seq(Seq(Event)) /\ Len(queue') = Len(queue)
    BY TakeTyped
  <2>2. sockets' \in Seq(SUBSET Conns) /\ Len(sockets') = Len(queue)
    OBVIOUS
  <2>. QED
    BY <2>1, <2>2
<1>4. CASE endCall(t)
  BY <1>4 DEF endCall
<1>5. ASSUME NEW c \in Conns, socketDisconnected(t, c) PROVE ThreadTypeOK'
  BY <1>5 DEF socketDisconnected
<1>6. ASSUME NEW c \in Conns, startCall(t, c) PROVE ThreadTypeOK'
  BY <1>6 DEF startCall
<1>7. ASSUME NEW c \in Conns, sendDelayedReply(t, c) PROVE ThreadTypeOK'
  BY <1>7 DEF sendDelayedReply
<1>. QED
  BY <1>1, <1>2, <1>3, <1>4, <1>5, <1>6, <1>7 DEF threadStep, handleEvent

(* Posting a connection to a thread keeps them.                            *)
LEMMA GiveTyped ==
    ASSUME ThreadTypeOK, NEW c \in Conns, NEW t \in Nat, giveTo(t, c)
    PROVE  ThreadTypeOK' /\ Len(queue') = Len(queue)
<1>. USE ThreadsAre DEF ThreadTypeOK, giveTo
<1>1. CASE t \in Threads
  <2>1. queue' \in Seq(Seq(Event)) /\ Len(queue') = Len(queue)
    BY <1>1, PostTyped, IncomingInEvent
  <2>2. incoming' \in Seq(Int) /\ Len(incoming') = Len(queue)
    BY <1>1
  <2>. QED
    BY <2>1, <2>2
<1>2. CASE t \notin Threads
  <2>1. queue' = queue /\ incoming' = incoming
    BY <1>2
  <2>. QED
    BY <2>1
<1>. QED
  BY <1>1, <1>2

(* Starting a thread keeps them and adds one.                              *)
LEMMA StartTyped ==
    ASSUME ThreadTypeOK, NEW c \in Conns, startThreadWith(c)
    PROVE  ThreadTypeOK' /\ Len(queue') = Len(queue) + 1
<1>1. <<Incoming(c)>> \in Seq(Event)
  BY IncomingInEvent
<1>2. queue' \in Seq(Seq(Event)) /\ Len(queue') = Len(queue) + 1
  BY <1>1 DEF ThreadTypeOK, startThreadWith
<1>. QED
  BY <1>2 DEF ThreadTypeOK, startThreadWith

(* Posting to every thread keeps the queues' type.                         *)
LEMMA PostToAllTyped ==
    ASSUME ThreadTypeOK, NEW e \in Event, postToAll(e)
    PROVE  queue' \in Seq(Seq(Event)) /\ Len(queue') = Len(queue)
BY PostAllTyped DEF ThreadTypeOK, postToAll

(* The two counts of a thread are integers.                                *)
LEMMA CountsTyped ==
    ASSUME ThreadTypeOK, NEW t \in Threads
    PROVE  /\ socketCount(t) \in Int
           /\ \A s \in Servers : socketCountForServer(t, s) \in Int
<1>1. sockets[t] \subseteq Conns /\ incoming[t] \in Int
  BY ThreadsAre
<1>2. IsFiniteSet(sockets[t]) /\ \A s \in Servers : IsFiniteSet(OfServer(sockets[t], s))
  BY <1>1, FS_Subset, ThreadAssumption DEF OfServer
<1>3. Cardinality(sockets[t]) \in Nat /\ \A s \in Servers : Cardinality(OfServer(sockets[t], s)) \in Nat
  BY <1>2, FS_CardinalityType
<1>. QED
  BY <1>1, <1>3 DEF socketCount, socketCountForServer

(* The next iteration of a loop over the threads is an activation.         *)
LEMMA LoopTyping ==
    ASSUME NEW m \in Activation, NEW n \in Nat, NEW k \in Int, NEW b \in Nat
    PROVE  /\ [m EXCEPT !.num = k, !.next = n] \in Activation
           /\ [m EXCEPT !.num = k, !.best = b, !.next = n] \in Activation
BY DEF Activation

(* A step of the pool keeps its types and the threads'.                    *)
LEMMA PoolStepTyped ==
    ASSUME ThreadTypeOK, PoolTypeOK, MainInv, poolStep PROVE ThreadTypeOK' /\ PoolTypeOK'
<1>. USE DEF PoolTypeOK
<1>0. main.num \in Int /\ main.next \in Nat /\ main.best \in Nat
  BY DEF Activation
<1>1. CASE countThread
  <2>1. ServerOf[main.conn] \in Servers
    BY <1>1, ServerTyped DEF countThread, MainInv
  <2>2. socketCountForServer(main.next, ServerOf[main.conn]) \in Int
    BY <1>1, <2>1, CountsTyped DEF countThread
  <2>3. ThreadTypeOK'
    BY <1>1 DEF countThread, threadVars, ThreadTypeOK
  <2>4. PoolTypeOK'
    <3>1. /\ main.num + socketCountForServer(main.next, ServerOf[main.conn]) \in Int
          /\ main.next + 1 \in Nat
      BY <1>0, <2>2
    <3>2. main' \in Activation
      BY <1>1, <3>1, LoopTyping, Zenon DEF countThread
    <3>. QED BY <1>1, <3>2 DEF countThread
  <2>. QED
    BY <2>3, <2>4
<1>2. CASE takeIdling
  BY <1>0, <1>2, IdleTyped, GiveTyped DEF takeIdling, MainInv
<1>3. CASE lookAtBusy
  <2>1. socketCount(main.next) \in Int
    BY <1>3, CountsTyped DEF lookAtBusy
  <2>2. ThreadTypeOK'
    BY <1>3 DEF lookAtBusy, threadVars, ThreadTypeOK
  <2>3. PoolTypeOK'
    <3>. DEFINE sc == socketCount(main.next)
                better == main.best = 0 \/ sc < main.num
                num == IF better THEN sc ELSE main.num
                best == IF better THEN main.next ELSE main.best
    <3>1. num \in Int /\ best \in Nat /\ main.next + 1 \in Nat
      BY <1>0, <2>1
    <3>2. main' = [main EXCEPT !.num = num, !.best = best, !.next = main.next + 1]
      BY <1>3, Zenon DEF lookAtBusy
    <3>. HIDE DEF num, best
    <3>3. main' \in Activation
      BY <3>1, <3>2, LoopTyping, Zenon
    <3>. QED BY <1>3, <3>3 DEF lookAtBusy
  <2>. QED
    BY <2>2, <2>3
<1>4. CASE takeLeastLoaded
  BY <1>0, <1>4, IdleTyped, GiveTyped DEF takeLeastLoaded, MainInv
<1>5. CASE createThread
  BY IdleTyped, <1>5, StartTyped DEF createThread, MainInv
<1>6. CASE acquireReadyThreads
  BY <1>6, IdleTyped DEF acquireReadyThreads, threadVars, ThreadTypeOK
<1>7. CASE waitForThreads
  BY StartTyping, <1>7 DEF waitForThreads, threadVars, ThreadTypeOK
<1>. QED
  BY <1>1, <1>2, <1>3, <1>4, <1>5, <1>6, <1>7 DEF poolStep

(* Every step keeps TypeOK.                                                *)
LEMMA NextTyped ==
    ASSUME TypeOK, MainInv, Next PROVE TypeOK'
<1>. USE DEF TypeOK
<1>1. ASSUME NEW t \in Threads, worker(t) PROVE TypeOK'
  BY <1>1, ThreadStepTyped DEF worker, poolVars, serverVars, PoolTypeOK
<1>2. CASE poolStep /\ UNCHANGED serverVars
  BY <1>2, PoolStepTyped DEF serverVars
<1>3. CASE rejectPooled
  BY IdleTyped, <1>3 DEF rejectPooled, counted, MainInv, threadVars, ThreadTypeOK, PoolTypeOK
<1>4. CASE acceptPooled
  BY StartTyping, <1>4 DEF acceptPooled, counted, handleIncomingConnectionInPool, MainInv, threadVars, serverVars,
     ThreadTypeOK, PoolTypeOK
<1>5. ASSUME NEW n \in ThreadLimits, setMaxThreadCount(n), UNCHANGED serverVars PROVE TypeOK'
  BY <1>5 DEF setMaxThreadCount, threadVars, serverVars, ThreadTypeOK, PoolTypeOK
<1>6. ASSUME NEW s \in Servers, suspendPooled(s) PROVE TypeOK'
  <2>. USE <1>6 DEF suspendPooled, disconnectSockets
  <2>1. queue' \in Seq(Seq(Event)) /\ Len(queue') = Len(queue)
    BY PostToAllTyped, DisconnectInEvent
  <2>2. ThreadTypeOK'
    BY <2>1 DEF ThreadTypeOK
  <2>3. PoolTypeOK'
    BY StartTyping DEF PoolTypeOK
  <2>. QED
    BY <2>2, <2>3 DEF stopListening
<1>7. ASSUME NEW s \in Servers, suspendMain(s) PROVE TypeOK'
  <2>1. ThreadTypeOK'
    BY <1>7 DEF suspendMain, ThreadTypeOK
  <2>. QED
    BY <1>7, <2>1 DEF suspendMain, stopListening, poolVars, PoolTypeOK
<1>8. ASSUME NEW s \in Servers, resume(s) PROVE TypeOK'
  BY <1>8 DEF resume, threadVars, poolVars, ThreadTypeOK, PoolTypeOK
<1>9. CASE destroyPool /\ UNCHANGED serverVars
  <2>. USE <1>9 DEF destroyPool
  <2>1. queue' \in Seq(Seq(Event)) /\ Len(queue') = Len(queue)
    BY PostToAllTyped, QuitInEvent
  <2>2. ThreadTypeOK'
    BY <2>1 DEF ThreadTypeOK
  <2>3. PoolTypeOK'
    BY StartTyping DEF PoolTypeOK
  <2>. QED
    BY <2>2, <2>3 DEF serverVars
<1>10. ASSUME NEW c \in Conns, connect(c) \/ closeByClient(c) PROVE TypeOK'
  BY <1>10 DEF connect, closeByClient, threadVars, poolVars, serverVars, ThreadTypeOK, PoolTypeOK
<1>11. ASSUME NEW c \in Conns, mainLoop(c) PROVE TypeOK'
  <2>1. CASE incomingConnectionPooled(c)
    BY StartTyping, <2>1 DEF incomingConnectionPooled, threadVars, ThreadTypeOK, PoolTypeOK
  <2>2. CASE incomingConnectionMain(c)
    BY <2>2 DEF incomingConnectionMain, threadVars, poolVars, ThreadTypeOK, PoolTypeOK
  <2>3. CASE mainSocketDisconnected(c) \/ mainCallDelayed(c) \/ mainSendDelayedReply(c)
    BY <2>3 DEF mainSocketDisconnected, mainCallDelayed, mainSendDelayedReply, poolVars, serverVars,
       ThreadTypeOK, PoolTypeOK
  <2>. QED
    BY <1>11, <2>1, <2>2, <2>3 DEF mainLoop
<1>12. CASE ended
  BY <1>12 DEF ended, vars, threadVars, poolVars, serverVars, ThreadTypeOK, PoolTypeOK
<1>. QED
  BY <1>1, <1>2, <1>3, <1>4, <1>5, <1>6, <1>7, <1>8, <1>9, <1>10, <1>11, <1>12
  DEF Next, mainStep, application

(* So does a stuttering step.                                              *)
LEMMA UnchangedTyped == ASSUME TypeOK, UNCHANGED vars PROVE TypeOK'
BY DEF vars, threadVars, poolVars, serverVars, TypeOK, ThreadTypeOK, PoolTypeOK

---------------------------------------------------------------------------
(* MainInv and the type invariant together are inductive.                  *)

(* Operation, connection and server of what main starts.                   *)
LEMMA MainFields ==
    /\ \A c \in Conns :
           /\ [Idle EXCEPT !.op = "count", !.next = 1, !.conn = c].op = "count"
           /\ [Idle EXCEPT !.op = "count", !.next = 1, !.conn = c].conn = c
           /\ [Idle EXCEPT !.op = "choose", !.next = 1, !.conn = c].op = "choose"
           /\ [Idle EXCEPT !.op = "choose", !.next = 1, !.conn = c].conn = c
    /\ \A s \in Servers :
           /\ [Idle EXCEPT !.op = "wait", !.srv = s].op = "wait"
           /\ [Idle EXCEPT !.op = "wait", !.srv = s].srv = s
           /\ [Idle EXCEPT !.op = "wait", !.srv = s].conn = None
    /\ [Idle EXCEPT !.op = "quit"].op = "quit" /\ [Idle EXCEPT !.op = "quit"].conn = None
    /\ [Idle EXCEPT !.op = "ended"].op = "ended" /\ [Idle EXCEPT !.op = "ended"].conn = None
BY DEF Idle

(* The loops over the threads keep operation and connection.               *)
LEMMA LoopFields ==
    ASSUME PoolTypeOK, countThread \/ lookAtBusy
    PROVE  main'.op = main.op /\ main'.conn = main.conn
BY DEF PoolTypeOK, Activation, countThread, lookAtBusy

(* Every step keeps MainInv: main holds a connection while it looks for a  *)
(* thread.                                                                 *)
LEMMA NextMain ==
    ASSUME TypeOK, MainInv, Next PROVE MainInv'
<1>. USE DEF MainInv
<1>1. CASE UNCHANGED main
  BY <1>1
<1>2. CASE countThread \/ lookAtBusy
  BY <1>2, LoopFields DEF TypeOK, countThread, lookAtBusy
<1>3. CASE main' = Idle
  BY <1>3, IdleTyped
<1>4. CASE acceptPooled
  BY <1>4, MainFields DEF acceptPooled, counted, handleIncomingConnectionInPool
<1>5. CASE waitForThreads \/ destroyPool
  BY <1>5, MainFields DEF waitForThreads, destroyPool
<1>6. ASSUME NEW s \in Servers, suspendPooled(s) PROVE MainInv'
  BY <1>6, MainFields DEF suspendPooled, disconnectSockets
<1>7. ASSUME NEW c \in Conns, incomingConnectionPooled(c) PROVE MainInv'
  BY <1>7, MainFields DEF incomingConnectionPooled
<1>8. ASSUME NEW c \in Conns, mainLoop(c) PROVE incomingConnectionPooled(c) \/ UNCHANGED main
  BY <1>8 DEF mainLoop, incomingConnectionMain, mainSocketDisconnected, mainCallDelayed,
     mainSendDelayedReply, poolVars
<1>9. ASSUME NEW s \in Servers, suspendMain(s) \/ resume(s) PROVE UNCHANGED main
  BY <1>9 DEF suspendMain, resume, poolVars
<1>10. ASSUME NEW c \in Conns, connect(c) \/ closeByClient(c) PROVE UNCHANGED main
  BY <1>10 DEF connect, closeByClient, poolVars
<1>11. ASSUME NEW t \in Threads, worker(t) PROVE UNCHANGED main
  BY <1>11 DEF worker, poolVars
<1>12. ASSUME NEW n \in ThreadLimits, setMaxThreadCount(n) PROVE UNCHANGED main
  BY <1>12 DEF setMaxThreadCount
<1>13. CASE ended
  BY <1>1, <1>13 DEF ended, vars, poolVars
<1>14. CASE takeIdling \/ takeLeastLoaded \/ createThread \/ acquireReadyThreads \/ rejectPooled
  BY <1>3, <1>14 DEF takeIdling, takeLeastLoaded, createThread, acquireReadyThreads, rejectPooled
<1>15. CASE mainStep
  BY <1>2, <1>4, <1>5, <1>14, <1>15 DEF mainStep, poolStep
<1>16. CASE application
  BY <1>1, <1>5, <1>6, <1>9, <1>12, <1>16 DEF application
<1>. QED
  BY <1>1, <1>7, <1>8, <1>10, <1>11, <1>13, <1>15, <1>16 DEF Next

(* Types and MainInv hold in every reachable state.                        *)
LEMMA TypeInductive == Spec => [](TypeOK /\ MainInv)
<1>1. Init => TypeOK /\ MainInv
  BY InitTyped, IdleTyped DEF Init, MainInv
<1>2. TypeOK /\ MainInv /\ [Next]_vars => (TypeOK /\ MainInv)'
  BY NextTyped, NextMain, UnchangedTyped DEF vars, poolVars, MainInv
<1>. QED
  BY <1>1, <1>2, PTL DEF Spec

(* Every variable keeps its type, whatever the threads and clients do.     *)
THEOREM TypeCorrect == Spec => []TypeOK
BY TypeInductive, PTL

---------------------------------------------------------------------------
(* What the steps do to the connections a thread holds.                    *)

(* Taking the first event moves the others up by one.                      *)
LEMMA TailKeeps ==
    ASSUME NEW q \in Seq(Event), q # <<>>
    PROVE  /\ Len(Tail(q)) = Len(q) - 1
           /\ \A i \in 1..Len(Tail(q)) : i + 1 \in 1..Len(q) /\ Tail(q)[i] = q[i + 1]
           /\ Head(q) = q[1] /\ 1 \in 1..Len(q)
OBVIOUS

(* Posting an event leaves those before it in place.                       *)
LEMMA AppendKeeps ==
    ASSUME NEW q \in Seq(Event), NEW e \in Event
    PROVE  /\ Len(Append(q, e)) = Len(q) + 1
           /\ \A i \in 1..Len(q) : Append(q, e)[i] = q[i]
           /\ Append(q, e)[Len(q) + 1] = e
OBVIOUS

(* The kinds of events differ, and each has its argument.                  *)
LEMMA EventKinds ==
    ASSUME NEW c \in Conns, NEW s \in Servers
    PROVE  /\ Incoming(c).type = "incoming" /\ Incoming(c).arg = c
           /\ Disconnect(s).type = "disconnect" /\ Disconnect(s).arg = s
           /\ Quit.type = "quit"
BY DEF Incoming, Disconnect, Quit

(* A connection is queued if its event is somewhere in the queue.          *)
LEMMA QueuedIs ==
    ASSUME NEW t
    PROVE  Queued(t) = {c \in Conns : \E i \in DOMAIN queue[t] : queue[t][i] = Incoming(c)}
BY DEF Queued, Positions

(* Taking the first event off a queue.                                     *)
LEMMA TakeHeld ==
    ASSUME ThreadTypeOK, NEW t \in Threads, queue[t] # <<>>,
           queue' = [queue EXCEPT ![t] = Tail(@)]
    PROVE  /\ Threads' = Threads
           /\ \A u \in Threads : Queued(u)' \subseteq Queued(u)
           /\ \A c \in Conns : Head(queue[t]) = Incoming(c) => c \in Queued(t)
<1>1. queue \in Seq(Seq(Event)) /\ Threads = 1..Len(queue) /\ queue[t] \in Seq(Event)
  BY ThreadsAre DEF ThreadTypeOK
<1>2. Threads' = Threads
  BY <1>1 DEF Threads
<1>3. ASSUME NEW u \in Threads PROVE Queued(u)' \subseteq Queued(u)
  <2>1. CASE u # t
    BY <1>1, <2>1 DEF Queued, Positions
  <2>2. CASE u = t
    <3>1. queue'[t] = Tail(queue[t])
      BY <1>1
    <3>2. \A i \in DOMAIN Tail(queue[t]) : i + 1 \in DOMAIN queue[t] /\ Tail(queue[t])[i] = queue[t][i + 1]
      BY <1>1, TailKeeps
    <3>. QED
      BY <2>2, <3>1, <3>2 DEF Queued, Positions
  <2>. QED
    BY <2>1, <2>2
<1>4. ASSUME NEW c \in Conns, Head(queue[t]) = Incoming(c) PROVE c \in Queued(t)
  <2>1. 1 \in DOMAIN queue[t] /\ queue[t][1] = Incoming(c)
    BY <1>1, <1>4, TailKeeps
  <2>. QED
    BY <2>1, QueuedIs
<1>. QED
  BY <1>2, <1>3, <1>4

(* A worker never holds more after one of its steps.                       *)
LEMMA ThreadStepHeld ==
    ASSUME ThreadTypeOK, NEW t \in Threads, threadStep(t)
    PROVE  /\ Threads' = Threads
           /\ \A u \in Threads : Held(u)' \subseteq Held(u)
<1>. USE ThreadsAre
<1>1. CASE handleIncomingConnection(t)
  <2>. USE <1>1 DEF handleIncomingConnection, AtEvent
  <2>1. Head(queue[t]).arg \in Conns /\ Head(queue[t]) = Incoming(Head(queue[t]).arg)
    BY TakeTyped, IncomingEvent DEF ThreadTypeOK
  <2>2. /\ Threads' = Threads /\ Head(queue[t]).arg \in Queued(t)
        /\ \A u \in Threads : Queued(u)' \subseteq Queued(u)
    BY <2>1, TakeHeld
  <2>3. DOMAIN sockets = Threads /\ sockets' = [sockets EXCEPT ![t] = sockets[t] \cup {Head(queue[t]).arg}]
    BY DEF ThreadTypeOK
  <2>4. \A u \in Threads : sockets'[u] = IF u = t THEN sockets[u] \cup {Head(queue[t]).arg} ELSE sockets[u]
    BY ONLY <2>3
  <2>. QED
    BY <2>2, <2>4 DEF Held
<1>2. CASE disconnectSocketsForServer(t)
  <2>. USE <1>2 DEF disconnectSocketsForServer, AtEvent
  <2>1. Threads' = Threads /\ \A u \in Threads : Queued(u)' \subseteq Queued(u)
    BY TakeHeld
  <2>2. \A u \in Threads : sockets'[u] \subseteq sockets[u]
    BY DEF ThreadTypeOK
  <2>. QED
    BY <2>1, <2>2 DEF Held
<1>3. CASE quit(t)
  <2>. USE <1>3 DEF quit, AtEvent
  <2>1. Threads' = Threads /\ \A u \in Threads : Queued(u)' \subseteq Queued(u)
    BY TakeHeld
  <2>2. \A u \in Threads : sockets'[u] \subseteq sockets[u]
    BY DEF ThreadTypeOK
  <2>. QED
    BY <2>1, <2>2 DEF Held
<1>4. ASSUME NEW c \in Conns, socketDisconnected(t, c)
      PROVE  Threads' = Threads /\ \A u \in Threads : Held(u)' \subseteq Held(u)
  BY <1>4 DEF socketDisconnected, Held, Queued, Positions, Threads, ThreadTypeOK
<1>5. CASE queue' = queue /\ sockets' = sockets
  BY <1>5 DEF Held, Queued, Positions, Threads
<1>. QED
  BY <1>1, <1>2, <1>3, <1>4, <1>5
  DEF threadStep, handleEvent, endCall, startCall, sendDelayedReply

(* Main adds the connection it is accepting, to one thread.                *)
LEMMA GiveHeld ==
    ASSUME ThreadTypeOK, NEW c \in Conns, NEW t \in Nat, giveTo(t, c)
    PROVE  /\ Threads' = Threads
           /\ \A u \in Threads : Held(u)' \subseteq Held(u) \cup {c}
<1>. USE ThreadsAre DEF ThreadTypeOK, giveTo
<1>1. Threads' = Threads
  BY DEF Threads
<1>2. ASSUME NEW u \in Threads PROVE Held(u)' \subseteq Held(u) \cup {c}
  <2>1. CASE queue'[u] = queue[u]
    BY <2>1 DEF Held, Queued, Positions
  <2>2. CASE queue'[u] = Append(queue[u], Incoming(c))
    <3>1. queue[u] \in Seq(Event) /\ Incoming(c) \in Event
      BY IncomingInEvent
    <3>2. \A d \in Conns : Incoming(d) = Incoming(c) => d = c
      BY DEF Incoming
    <3>3. \A d \in Conns, i \in DOMAIN queue'[u] :
            queue'[u][i] = Incoming(d) => d = c \/ (i \in DOMAIN queue[u] /\ queue[u][i] = Incoming(d))
      BY <2>2, <3>1, <3>2, AppendKeeps
    <3>. QED
      BY <3>3 DEF Held, Queued, Positions
  <2>. QED
    BY <2>1, <2>2
<1>. QED
  BY <1>1, <1>2

(* A new thread holds the connection it was started for, the others what   *)
(* they held.                                                              *)
LEMMA StartHeld ==
    ASSUME ThreadTypeOK, NEW c \in Conns, startThreadWith(c)
    PROVE  /\ Threads' = Threads \cup {Len(queue) + 1}
           /\ \A u \in Threads : Held(u)' = Held(u)
           /\ \A u \in Threads' \ Threads : Held(u)' \subseteq {c}
<1>. USE ThreadsAre DEF ThreadTypeOK, startThreadWith
<1>1. Threads' = Threads \cup {Len(queue) + 1}
  <2>1. queue' \in Seq(Seq(Event)) /\ Len(queue') = Len(queue) + 1
    BY StartTyped
  <2>2. Threads = 1..Len(queue) /\ Threads' = 1..(Len(queue) + 1) /\ Len(queue) \in Nat
    BY <2>1 DEF Threads
  <2>. QED BY ONLY <2>2
<1>2. \A u \in Threads : queue'[u] = queue[u] /\ sockets'[u] = sockets[u]
  OBVIOUS
<1>3. queue'[Len(queue) + 1] = <<Incoming(c)>> /\ sockets'[Len(queue) + 1] = {}
  OBVIOUS
<1>4. \A d \in Conns : Incoming(d) = Incoming(c) => d = c
  BY DEF Incoming
<1>5. \A u \in Threads : Held(u)' = Held(u)
  BY SMTT(30), <1>2 DEF Held, Queued, Positions
<1>6. \A i \in DOMAIN queue'[Len(queue) + 1] : queue'[Len(queue) + 1][i] = Incoming(c)
  BY <1>3
<1>7. ASSUME NEW u \in Threads' \ Threads PROVE Held(u)' \subseteq {c}
  <2>1. u = Len(queue) + 1
    BY <1>1
  <2>. QED
    BY <1>3, <1>4, <1>6, <2>1 DEF Held, Queued, Positions
<1>. QED
  BY <1>1, <1>5, <1>7

(* Posting disconnect or quit gives no thread a connection.                *)
LEMMA PostToAllHeld ==
    ASSUME ThreadTypeOK, NEW e \in Event, e.type # "incoming", postToAll(e), sockets' = sockets
    PROVE  /\ Threads' = Threads
           /\ \A u \in Threads : Held(u)' \subseteq Held(u)
<1>1. Threads' = Threads
  BY ThreadsAre DEF postToAll, Threads
<1>2. ASSUME NEW u \in Threads PROVE Queued(u)' \subseteq Queued(u)
  <2>1. queue[u] \in Seq(Event) /\ queue'[u] = Append(queue[u], e)
    BY ThreadsAre DEF postToAll
  <2>2. \A d \in Conns : Incoming(d) # e
    BY DEF Incoming
  <2>3. \A d \in Conns, i \in DOMAIN queue'[u] :
          queue'[u][i] = Incoming(d) => i \in DOMAIN queue[u] /\ queue[u][i] = Incoming(d)
    BY <2>1, <2>2, AppendKeeps
  <2>. QED
    BY <2>3 DEF Queued, Positions
<1>. QED
  BY <1>1, <1>2 DEF Held

(* Where connections come from: a thread's from main, main's from the      *)
(* kernel, the kernel's from clients of a listening server.                *)
Flow ==
    /\ Threads \subseteq Threads'
    /\ \A u \in Threads' : \A c \in Held(u)' : (u \in Threads /\ c \in Held(u)) \/ c \in Accepting
    /\ \A c \in mainSockets' \ mainSockets : c \in backlog /\ ServerOf[c] \notin Pooled
    /\ \A c \in Accepting' \ Accepting : c \in backlog
    /\ \A c \in backlog' \ backlog : listening[ServerOf[c]]

(* What a thread holds depends on its queue and sockets alone.             *)
LEMMA SameHeld ==
    ASSUME queue' = queue, sockets' = sockets
    PROVE  Threads' = Threads /\ \A u : Held(u)' = Held(u)
BY DEF Threads, Held, Queued, Positions

(* What any step does to the connections that threads hold.                *)
LEMMA NextFlow ==
    ASSUME TypeOK, MainInv, Next PROVE Flow
<1>. USE DEF TypeOK, Accepting
<1>1. ASSUME NEW t \in Threads, worker(t) PROVE Flow
  BY <1>1, ThreadStepHeld DEF Flow, worker, poolVars, serverVars
<1>2. CASE mainStep
  <2>. USE <1>2 DEF serverVars
  <2>1. main.next \in Nat /\ main.best \in Nat
    BY DEF PoolTypeOK, Activation
  <2>2. CASE takeIdling \/ takeLeastLoaded
    <3>1. main.conn \in Conns /\ \E t \in Nat : giveTo(t, main.conn)
      BY <2>1, <2>2 DEF takeIdling, takeLeastLoaded, MainInv
    <3>2. Threads' = Threads /\ \A u \in Threads : Held(u)' \subseteq Held(u) \cup {main.conn}
      BY <3>1, GiveHeld
    <3>3. main' = Idle /\ UNCHANGED serverVars
      BY <2>2 DEF mainStep, poolStep, takeIdling, takeLeastLoaded, rejectPooled, acceptPooled, counted
    <3>. QED
      BY <3>1, <3>2, <3>3, IdleTyped, ThreadAssumption DEF Flow
  <2>3. CASE createThread
    <3>1. main.conn \in Conns
      BY <2>3 DEF createThread, MainInv
    <3>2. /\ Threads \subseteq Threads'
          /\ \A u \in Threads : Held(u)' = Held(u)
          /\ \A u \in Threads' \ Threads : Held(u)' \subseteq {main.conn}
      BY <2>3, <3>1, StartHeld DEF createThread
    <3>3. main' = Idle /\ UNCHANGED serverVars
      BY <2>3 DEF mainStep, poolStep, createThread, rejectPooled, acceptPooled, counted
    <3>. QED
      BY <3>1, <3>2, <3>3, IdleTyped, ThreadAssumption DEF Flow
  <2>4. CASE UNCHANGED <<threadVars, backlog, mainSockets>> /\ main'.conn \in {main.conn, None}
    BY <2>4, SameHeld DEF threadVars, Flow
  <2>5. CASE (countThread \/ lookAtBusy) /\ UNCHANGED serverVars
    BY <2>4, <2>5, LoopFields DEF countThread, lookAtBusy
  <2>6. CASE (acquireReadyThreads \/ waitForThreads) /\ UNCHANGED serverVars
    BY <2>4, <2>6, IdleTyped, MainFields DEF acquireReadyThreads, waitForThreads
  <2>7. CASE rejectPooled
    BY <2>4, <2>7, IdleTyped DEF rejectPooled
  <2>8. CASE acceptPooled
    BY <2>4, <2>8, MainFields DEF acceptPooled, counted, handleIncomingConnectionInPool, MainInv
  <2>. QED
    BY <2>2, <2>3, <2>5, <2>6, <2>7, <2>8 DEF mainStep, poolStep
<1>3. ASSUME NEW n \in ThreadLimits, setMaxThreadCount(n), UNCHANGED serverVars PROVE Flow
  BY <1>3, SameHeld DEF setMaxThreadCount, threadVars, serverVars, Flow
<1>4. ASSUME NEW s \in Servers, suspendPooled(s) PROVE Flow
  <2>1. Threads' = Threads /\ \A u \in Threads : Held(u)' \subseteq Held(u)
    BY <1>4, PostToAllHeld, DisconnectInEvent, EventKinds DEF suspendPooled, disconnectSockets, Disconnect
  <2>2. main'.conn = None
    BY <1>4, MainFields DEF suspendPooled, disconnectSockets
  <2>. QED
    BY <1>4, <2>1, <2>2 DEF Flow, suspendPooled, stopListening
<1>5. ASSUME NEW s \in Servers, suspendMain(s) \/ resume(s) PROVE Flow
  BY <1>5, SameHeld DEF suspendMain, stopListening, resume, threadVars, poolVars, Flow
<1>6. CASE destroyPool /\ UNCHANGED serverVars
  <2>1. Threads' = Threads /\ \A u \in Threads : Held(u)' \subseteq Held(u)
    BY <1>6, PostToAllHeld, QuitInEvent DEF destroyPool, Quit
  <2>. QED
    BY <1>6, <2>1, MainFields DEF Flow, destroyPool, serverVars
<1>7. ASSUME NEW c \in Conns, connect(c) \/ closeByClient(c) PROVE Flow
  BY <1>7, SameHeld DEF connect, closeByClient, threadVars, poolVars, serverVars, Flow
<1>8. ASSUME NEW c \in Conns, mainLoop(c) PROVE Flow
  <2>1. CASE incomingConnectionPooled(c)
    BY <2>1, SameHeld, MainFields DEF incomingConnectionPooled, threadVars, Flow
  <2>2. CASE incomingConnectionMain(c)
    BY <2>2, SameHeld DEF incomingConnectionMain, threadVars, poolVars, Flow
  <2>3. CASE mainSocketDisconnected(c) \/ mainCallDelayed(c) \/ mainSendDelayedReply(c)
    BY <2>3, SameHeld DEF mainSocketDisconnected, mainCallDelayed, mainSendDelayedReply, poolVars, serverVars, Flow
  <2>. QED
    BY <1>8, <2>1, <2>2, <2>3 DEF mainLoop
<1>9. CASE ended
  BY <1>9, SameHeld DEF ended, vars, threadVars, poolVars, serverVars, Flow
<1>. QED
  BY <1>1, <1>2, <1>3, <1>4, <1>5, <1>6, <1>7, <1>8, <1>9 DEF Next, application

(* Every step keeps main's own sockets out of a server with a pool.        *)
LEMMA PooledStep == ASSUME PooledInv, MainInv, TypeOK, Next PROVE PooledInv'
<1>1. Flow
  BY NextFlow
<1>2. \A c \in Accepting : ServerOf[c] \in Pooled
  BY DEF MainInv, Accepting
<1>. QED
  BY <1>1, <1>2 DEF Flow, PooledInv

---------------------------------------------------------------------------
(* Calls and delayed responses belong to sockets.                          *)

(* Steps of the pool's loops leave the sockets of the threads alone.       *)
LEMMA MainKeepsSockets ==
    ASSUME TypeOK, MainInv, mainStep
    PROVE  /\ delayed' = delayed /\ mainSockets' = mainSockets
           /\ Threads \subseteq Threads'
           /\ \A t \in Threads : sockets'[t] = sockets[t] /\ busy'[t] = busy[t]
           /\ \A t \in Threads' \ Threads : busy'[t] = None
<1>. USE DEF mainStep, poolStep, serverVars
<1>1. CASE createThread
  <2>1. main.conn \in Conns
    BY <1>1 DEF createThread, MainInv
  <2>2. Threads' = Threads \cup {Len(queue) + 1}
    BY <1>1, <2>1, StartHeld DEF createThread, TypeOK
  <2>3. \A t \in Threads : sockets'[t] = sockets[t] /\ busy'[t] = busy[t]
    BY <1>1, ThreadsAre DEF createThread, startThreadWith, TypeOK, ThreadTypeOK
  <2>4. busy'[Len(queue) + 1] = None
    BY <1>1 DEF createThread, startThreadWith, TypeOK, ThreadTypeOK
  <2>. QED
    BY <1>1, <2>2, <2>3, <2>4 DEF createThread, startThreadWith, rejectPooled, acceptPooled, counted
<1>2. CASE takeIdling \/ takeLeastLoaded
  <2>1. \E t \in Nat : giveTo(t, main.conn)
    BY <1>2 DEF takeIdling, takeLeastLoaded, TypeOK, PoolTypeOK, Activation
  <2>2. main.conn \in Conns
    BY <1>2 DEF takeIdling, takeLeastLoaded, MainInv
  <2>3. Threads' = Threads
    BY <2>1, <2>2, GiveHeld DEF TypeOK
  <2>. QED
    BY <1>2, <2>1, <2>3 DEF giveTo, takeIdling, takeLeastLoaded, rejectPooled, acceptPooled, counted
<1>3. CASE UNCHANGED <<threadVars, mainSockets>>
  BY <1>3 DEF threadVars, Threads
<1>. QED
  BY <1>1, <1>2, <1>3
  DEF countThread, lookAtBusy, acquireReadyThreads, waitForThreads, rejectPooled, acceptPooled

(* Outside the workers and mainStep, busy and sockets do not change.       *)
LEMMA ElsewhereSame ==
    ASSUME TypeOK, application \/ ended \/ \E c \in Conns : connect(c) \/ closeByClient(c) \/ mainLoop(c)
    PROVE  Threads' = Threads /\ sockets' = sockets /\ busy' = busy
<1>1. ASSUME NEW e \in Event, postToAll(e) PROVE Threads' = Threads
  BY <1>1, ThreadsAre DEF TypeOK, postToAll, Threads
<1>2. CASE application
  BY <1>1, <1>2, DisconnectInEvent, QuitInEvent
  DEF application, setMaxThreadCount, suspendPooled, disconnectSockets, suspendMain, resume, destroyPool,
      threadVars, Threads
<1>3. ASSUME NEW c \in Conns, connect(c) \/ closeByClient(c) \/ mainLoop(c)
      PROVE  Threads' = Threads /\ sockets' = sockets /\ busy' = busy
  BY <1>3 DEF connect, closeByClient, mainLoop, incomingConnectionPooled, incomingConnectionMain,
     mainSocketDisconnected, mainCallDelayed, mainSendDelayedReply, threadVars, Threads
<1>4. CASE ended
  BY <1>4 DEF ended, vars, threadVars, Threads
<1>. QED
  BY <1>2, <1>3, <1>4

(* No step takes the socket of a running call.                             *)
LEMMA CallStep == ASSUME TypeOK, MainInv, CallKeepsSocket, Next PROVE CallKeepsSocket'
<1>. USE DEF CallKeepsSocket
<1>1. ASSUME NEW t \in Threads, worker(t) PROVE CallKeepsSocket'
  <2>. USE <1>1, ThreadsAre DEF TypeOK, ThreadTypeOK, worker
  <2>1. Threads' = Threads
    BY ThreadStepHeld
  <2>2. CASE handleEvent(t)
    <3>1. busy' = busy /\ busy[t] = None
      BY <2>2 DEF handleEvent, handleIncomingConnection, disconnectSocketsForServer, quit, AtEvent
    <3>2. \A u \in Threads \ {t} : sockets'[u] = sockets[u]
      BY <2>2 DEF handleEvent, handleIncomingConnection, disconnectSocketsForServer, quit
    <3>. QED
      BY <2>1, <3>1, <3>2
  <2>3. CASE endCall(t)
    BY <2>1, <2>3 DEF endCall
  <2>4. ASSUME NEW c \in Conns, socketDisconnected(t, c) PROVE CallKeepsSocket'
    BY <2>1, <2>4 DEF socketDisconnected
  <2>5. ASSUME NEW c \in Conns, startCall(t, c) PROVE CallKeepsSocket'
    BY <2>1, <2>5 DEF startCall
  <2>6. ASSUME NEW c \in Conns, sendDelayedReply(t, c) PROVE CallKeepsSocket'
    BY <2>1, <2>6 DEF sendDelayedReply
  <2>. QED
    BY <2>2, <2>3, <2>4, <2>5, <2>6 DEF threadStep
<1>2. CASE mainStep
  BY <1>2, MainKeepsSockets
<1>3. CASE Threads' = Threads /\ sockets' = sockets /\ busy' = busy
  BY <1>3
<1>. QED
  BY <1>1, <1>2, <1>3, ElsewhereSame DEF Next

(* Every step keeps delayed responses with living sockets.                 *)
LEMMA DelayedStep ==
    ASSUME TypeOK, MainInv, CallKeepsSocket, DelayedOwned, Next PROVE DelayedOwned'
<1>. USE DEF DelayedOwned
<1>1. ASSUME NEW t \in Threads, worker(t) PROVE DelayedOwned'
  <2>. USE <1>1, ThreadsAre DEF TypeOK, ThreadTypeOK, worker, serverVars
  <2>1. Threads' = Threads
    BY ThreadStepHeld
  <2>2. CASE handleIncomingConnection(t)
    <3>1. \A u \in Threads : sockets[u] \subseteq sockets'[u]
      BY <2>2 DEF handleIncomingConnection
    <3>. QED
      BY <2>1, <2>2, <3>1 DEF handleIncomingConnection
  <2>3. ASSUME NEW gone, sockets' = [sockets EXCEPT ![t] = @ \ gone], delayed' = delayed \ gone
        PROVE  DelayedOwned'
    <3>1. \A u \in Threads : sockets[u] \ gone \subseteq sockets'[u]
      BY <2>3
    <3>. QED
      BY <2>1, <2>3, <3>1
  <2>4. CASE disconnectSocketsForServer(t)
    BY <2>3, <2>4 DEF disconnectSocketsForServer
  <2>5. CASE quit(t)
    <3>1. \A u \in Threads : sockets[u] \ sockets[t] \subseteq sockets'[u]
      BY <2>5 DEF quit
    <3>. QED
      BY <2>1, <2>5, <3>1 DEF quit
  <2>6. CASE endCall(t)
    BY <2>1, <2>6 DEF endCall, CallKeepsSocket
  <2>7. ASSUME NEW c \in Conns, socketDisconnected(t, c) PROVE DelayedOwned'
    BY <2>3, <2>7 DEF socketDisconnected
  <2>8. ASSUME NEW c \in Conns, startCall(t, c) \/ sendDelayedReply(t, c) PROVE DelayedOwned'
    BY <2>1, <2>8 DEF startCall, sendDelayedReply
  <2>. QED
    BY <2>2, <2>4, <2>5, <2>6, <2>7, <2>8 DEF threadStep, handleEvent
<1>2. CASE mainStep
  BY <1>2, MainKeepsSockets
<1>3. CASE Threads' = Threads /\ sockets' = sockets /\ (delayed' \ delayed) \subseteq mainSockets'
           /\ (mainSockets \ mainSockets') \cap delayed' = {}
  BY <1>3
<1>4. CASE application
  <2>1. Threads' = Threads /\ sockets' = sockets
    BY <1>4, ElsewhereSame
  <2>2. ASSUME NEW s \in Servers, suspendMain(s) PROVE DelayedOwned'
    BY <1>3, <2>1, <2>2, ElsewhereSame, <1>4 DEF suspendMain
  <2>3. ASSUME NEW s \in Servers, suspendPooled(s) \/ resume(s) PROVE DelayedOwned'
    BY <1>3, <2>1, <2>3, ElsewhereSame, <1>4 DEF suspendPooled, disconnectSockets, resume, threadVars
  <2>4. CASE destroyPool /\ UNCHANGED serverVars
    BY <2>1, <2>4 DEF destroyPool, serverVars
  <2>5. ASSUME NEW n \in ThreadLimits, setMaxThreadCount(n), UNCHANGED serverVars PROVE DelayedOwned'
    BY <2>1, <2>5 DEF setMaxThreadCount, threadVars, serverVars
  <2>. QED
    BY <1>4, <2>2, <2>3, <2>4, <2>5 DEF application
<1>5. ASSUME NEW c \in Conns, connect(c) \/ closeByClient(c) \/ mainLoop(c) PROVE DelayedOwned'
  <2>1. Threads' = Threads /\ sockets' = sockets
    BY <1>5, ElsewhereSame
  <2>. QED
    BY <1>5, <2>1 DEF connect, closeByClient, mainLoop, incomingConnectionPooled, incomingConnectionMain,
       mainSocketDisconnected, mainCallDelayed, mainSendDelayedReply, threadVars, serverVars
<1>6. CASE ended
  BY <1>6 DEF ended, vars, threadVars, serverVars, Threads
<1>. QED
  BY <1>1, <1>2, <1>4, <1>5, <1>6 DEF Next

---------------------------------------------------------------------------
(* The disconnect events of suspend(), and the permits for them.           *)

(* The steps that post nothing, take nothing and do not end a wait.        *)
Aside ==
    /\ UNCHANGED <<queue, sockets, readyThreads>>
    /\ main.op = "wait" => UNCHANGED main
    /\ main'.op = "wait" => main.op = "wait"

(* The steps, sorted by what they do to the disconnect events.             *)
LEMMA NextKinds ==
    ASSUME TypeOK, MainInv, Next
    PROVE  \/ \E t \in Threads : worker(t)
           \/ (takeIdling \/ takeLeastLoaded \/ createThread) /\ UNCHANGED serverVars
           \/ acquireReadyThreads /\ UNCHANGED serverVars
           \/ \E s \in Servers : suspendPooled(s)
           \/ destroyPool /\ UNCHANGED serverVars
           \/ Aside
<1>. USE DEF Aside, threadVars
<1>1. ASSUME NEW c \in Conns, connect(c) \/ closeByClient(c) PROVE Aside
  BY <1>1 DEF connect, closeByClient, poolVars
<1>2. ASSUME NEW c \in Conns, mainLoop(c) PROVE Aside
  <2>1. CASE incomingConnectionPooled(c)
    BY <2>1, MainFields DEF incomingConnectionPooled
  <2>2. CASE ~ incomingConnectionPooled(c)
    BY <1>2, <2>2 DEF mainLoop, incomingConnectionMain, mainSocketDisconnected, mainCallDelayed,
       mainSendDelayedReply, poolVars
  <2>. QED
    BY <2>1, <2>2
<1>3. CASE countThread \/ lookAtBusy
  BY <1>3, LoopFields DEF TypeOK, countThread, lookAtBusy
<1>4. CASE waitForThreads
  BY <1>4, MainFields DEF waitForThreads
<1>5. CASE rejectPooled
  BY <1>5, IdleTyped DEF rejectPooled, counted
<1>6. CASE acceptPooled
  BY <1>6, MainFields DEF acceptPooled, counted, handleIncomingConnectionInPool, MainInv
<1>7. ASSUME NEW s \in Servers, suspendMain(s) \/ resume(s) PROVE Aside
  BY <1>7 DEF suspendMain, stopListening, resume, poolVars
<1>8. ASSUME NEW n \in ThreadLimits, setMaxThreadCount(n) PROVE Aside
  BY <1>8 DEF setMaxThreadCount
<1>9. CASE ended
  BY <1>9 DEF ended, vars, poolVars
<1>. QED
  BY <1>1, <1>2, <1>3, <1>4, <1>5, <1>6, <1>7, <1>8, <1>9 DEF Next, mainStep, poolStep, application

(* acquire(m_threads.count()) gets through only when no event is left.     *)
LEMMA AllReleased ==
    ASSUME TypeOK, PermitsCounted, main.op = "wait", readyThreads >= Len(queue)
    PROVE  Waiting = {}
<1>1. Threads = 1..Len(queue) /\ Len(queue) \in Nat /\ Waiting \subseteq Threads
  BY ThreadsAre DEF TypeOK, ThreadTypeOK, Waiting
<1>2. IsFiniteSet(Threads) /\ Cardinality(Threads) = Len(queue)
  <2>1. IsFiniteSet(1..Len(queue)) /\ Cardinality(1..Len(queue)) = IF 1 > Len(queue) THEN 0 ELSE Len(queue) - 1 + 1
    BY SMTT(30), <1>1, FS_Interval
  <2>. QED
    BY <1>1, <2>1
<1>3. Threads \ Waiting \subseteq Threads
  OBVIOUS
<1>4. Cardinality(Threads \ Waiting) >= Cardinality(Threads)
  BY <1>2 DEF PermitsCounted
<1>5. Threads \ Waiting = Threads
  <2>1. /\ IsFiniteSet(Threads \ Waiting)
        /\ Cardinality(Threads \ Waiting) <= Cardinality(Threads)
        /\ Cardinality(Threads \ Waiting) = Cardinality(Threads) => Threads \ Waiting = Threads
    BY <1>2, <1>3, FS_Subset
  <2>2. Cardinality(Threads \ Waiting) \in Nat /\ Cardinality(Threads) \in Nat
    BY <1>2, <2>1, FS_CardinalityType
  <2>. QED
    BY <1>4, <2>1, <2>2
<1>. QED
  BY <1>1, <1>5

(* Every step keeps a disconnect event the last of its queue.              *)
LEMMA DisconnectLastStep ==
    ASSUME TypeOK, MainInv, DisconnectLast, PermitsCounted, Next PROVE DisconnectLast'
<1>. USE ThreadsAre DEF DisconnectLast, TypeOK
<1>1. ASSUME NEW t \in Threads, worker(t) PROVE DisconnectLast'
  <2>. USE <1>1 DEF worker, poolVars
  <2>1. Threads' = Threads
    BY ThreadStepHeld
  <2>2. CASE queue' = queue
    BY <2>1, <2>2
  <2>3. CASE queue[t] # <<>> /\ queue' = [queue EXCEPT ![t] = Tail(@)]
    <3>1. ASSUME NEW i \in 1..Len(queue'[t]), queue'[t][i].type = "disconnect"
          PROVE  main.op = "wait" /\ queue'[t][i].arg = main.srv /\ i = Len(queue'[t])
      <4>1. queue'[t] = Tail(queue[t]) /\ queue[t] \in Seq(Event)
        BY <2>3
      <4>2. /\ i + 1 \in 1..Len(queue[t]) /\ queue'[t][i] = queue[t][i + 1]
            /\ Len(queue'[t]) = Len(queue[t]) - 1 /\ Len(queue[t]) \in Nat
        BY <2>3, <3>1, <4>1, TailKeeps
      <4>3. main.op = "wait" /\ queue[t][i + 1].arg = main.srv /\ i + 1 = Len(queue[t])
        BY <3>1, <4>2
      <4>. QED
        BY <2>1, <4>1, <4>2, <4>3
    <3>2. \A u \in Threads \ {t} : queue'[u] = queue[u]
      BY <2>3
    <3>. QED
      BY <2>1, <3>1, <3>2
  <2>. QED
    BY <2>2, <2>3 DEF threadStep, handleEvent, handleIncomingConnection, disconnectSocketsForServer, quit, AtEvent,
       endCall, startCall, socketDisconnected, sendDelayedReply
<1>2. ASSUME main.op # "wait", NEW e \in Event, e.type # "disconnect", NEW t \in Nat,
             queue' = [queue EXCEPT ![t] = Append(@, e)]
      PROVE  DisconnectLast'
  <2>1. Threads' = Threads
    BY <1>2 DEF Threads
  <2>2. ASSUME NEW u \in Threads, NEW i \in 1..Len(queue'[u]) PROVE queue'[u][i].type # "disconnect"
    <3>1. queue[u] \in Seq(Event) /\ queue'[u] \in {queue[u], Append(queue[u], e)}
      BY <1>2
    <3>. QED
      BY <1>2, <3>1, AppendKeeps
  <2>. QED
    BY <2>1, <2>2
<1>3. ASSUME main.op # "wait", NEW e \in Event, postToAll(e),
             e.type = "disconnect" => main'.op = "wait" /\ main'.srv = e.arg
      PROVE  DisconnectLast'
  <2>1. Threads' = Threads
    BY <1>3 DEF postToAll, Threads
  <2>2. ASSUME NEW u \in Threads, NEW i \in 1..Len(queue'[u]), queue'[u][i].type = "disconnect"
        PROVE  i = Len(queue'[u]) /\ queue'[u][i] = e
    <3>1. queue[u] \in Seq(Event) /\ queue'[u] = Append(queue[u], e)
      BY <1>3 DEF postToAll
    <3>. QED
      BY <1>3, <2>2, <3>1, AppendKeeps
  <2>. QED
    BY <1>3, <2>1, <2>2
<1>4. CASE Aside
  BY <1>4 DEF Aside, Threads
<1>5. CASE takeIdling \/ takeLeastLoaded
  <2>1. main.op # "wait" /\ \E t \in Nat : giveTo(t, main.conn)
    BY <1>5 DEF takeIdling, takeLeastLoaded, PoolTypeOK, Activation
  <2>2. Incoming(main.conn) \in Event /\ Incoming(main.conn).type # "disconnect"
    BY <1>5, IncomingInEvent DEF takeIdling, takeLeastLoaded, MainInv, Incoming
  <2>. QED
    BY <1>2, <2>1, <2>2 DEF giveTo
<1>6. CASE createThread
  <2>1. main.conn \in Conns /\ main.op # "wait"
    BY <1>6 DEF createThread, MainInv
  <2>2. Threads' = Threads \cup {Len(queue) + 1}
    BY <1>6, <2>1, StartHeld DEF createThread
  <2>3. \A u \in Threads : queue'[u] = queue[u]
    BY SMTT(30), <1>6 DEF createThread, startThreadWith, ThreadTypeOK
  <2>4. queue'[Len(queue) + 1] = <<Incoming(main.conn)>>
    BY <1>6 DEF createThread, startThreadWith, ThreadTypeOK
  <2>5. \A i \in 1..Len(queue'[Len(queue) + 1]) : queue'[Len(queue) + 1][i].type # "disconnect"
    BY <2>4 DEF Incoming
  <2>. QED
    BY <2>1, <2>2, <2>3, <2>5
<1>7. ASSUME NEW s \in Servers, suspendPooled(s) PROVE DisconnectLast'
  <2>1. main'.op = "wait" /\ main'.srv = s /\ main.op # "wait" /\ postToAll(Disconnect(s))
    BY <1>7, MainFields DEF suspendPooled, stopListening, disconnectSockets
  <2>. QED
    BY <1>3, <2>1, DisconnectInEvent DEF Disconnect
<1>8. CASE destroyPool
  BY <1>3, <1>8, QuitInEvent DEF destroyPool, Quit
<1>9. CASE acquireReadyThreads
  BY <1>9, AllReleased DEF acquireReadyThreads, threadVars, Threads, Waiting
<1>. QED
  BY <1>1, <1>4, <1>5, <1>6, <1>7, <1>8, <1>9, NextKinds

(* Only the thread whose queue changes may start or stop waiting.          *)
LEMMA WaitingOf ==
    ASSUME Threads' = Threads, NEW t \in Threads, \A u \in Threads \ {t} : queue'[u] = queue[u]
    PROVE  /\ Waiting' \ {t} = Waiting \ {t}
           /\ t \in Waiting' <=> \E i \in 1..Len(queue'[t]) : queue'[t][i].type = "disconnect"
           /\ t \in Waiting <=> \E i \in 1..Len(queue[t]) : queue[t][i].type = "disconnect"
BY DEF Waiting

(* Every step keeps permits and threads without the event equal in number. *)
LEMMA PermitsStep ==
    ASSUME TypeOK, MainInv, DisconnectLast, PermitsCounted, Next PROVE PermitsCounted'
<1>. USE ThreadsAre DEF TypeOK
<1>0. IsFiniteSet(Threads)
  <2>1. Threads = 1..Len(queue) /\ Len(queue) \in Nat
    BY DEF ThreadTypeOK
  <2>2. IsFiniteSet(1..Len(queue))
    BY SMTT(30), <2>1, FS_Interval
  <2>. QED
    BY <2>1, <2>2
<1>1. ASSUME NEW t \in Threads, worker(t), main.op = "wait" PROVE PermitsCounted'
  <2>. USE <1>1 DEF PermitsCounted, OfServer
  <2>1. /\ Threads' = Threads /\ main' = main
        /\ \A u \in Threads : Held(u)' \subseteq Held(u)
    BY ThreadStepHeld DEF worker, poolVars
  <2>2. CASE Waiting' = Waiting /\ readyThreads' = readyThreads
    BY <2>1, <2>2
  <2>3. CASE disconnectSocketsForServer(t)
    <3>. USE <2>3 DEF disconnectSocketsForServer, AtEvent
    <3>1. /\ queue[t] \in Seq(Event) /\ 1 \in 1..Len(queue[t]) /\ queue[t][1] = Head(queue[t])
          /\ queue[t][1].type = "disconnect"
      BY TailKeeps
    <3>2. Len(queue[t]) = 1 /\ Head(queue[t]).arg = main.srv /\ t \in Waiting
      BY <3>1 DEF DisconnectLast, Waiting
    <3>3. Len(queue'[t]) = 0 /\ \A u \in Threads \ {t} : queue'[u] = queue[u]
      <4>1. queue'[t] = Tail(queue[t]) /\ \A u \in Threads \ {t} : queue'[u] = queue[u]
        BY DEF ThreadTypeOK
      <4>. QED
        BY <3>1, <3>2, <4>1, TailKeeps
    <3>4. Threads' \ Waiting' = (Threads \ Waiting) \cup {t}
      <4>1. t \notin Waiting'
        BY <2>1, <3>3, WaitingOf
      <4>2. Waiting' \ {t} = Waiting \ {t}
        BY <2>1, <3>3, WaitingOf
      <4>. QED
        BY <2>1, <4>1, <4>2
    <3>5. IsFiniteSet(Threads \ Waiting) /\ t \notin Threads \ Waiting
      BY <1>0, <3>2, FS_Subset
    <3>6. readyThreads' = Cardinality(Threads' \ Waiting')
      <4>1. Cardinality((Threads \ Waiting) \cup {t}) = Cardinality(Threads \ Waiting) + 1
        BY <3>5, FS_AddElement
      <4>2. readyThreads' = readyThreads + 1
        OBVIOUS
      <4>. QED
        BY <3>4, <4>1, <4>2
    <3>7. Held(t)' = sockets'[t]
      BY <3>3 DEF Held, Queued, Positions
    <3>8. {c \in Held(t)' : ServerOf[c] = main.srv} = {}
      BY <3>2, <3>7 DEF ThreadTypeOK
    <3>. QED
      BY <2>1, <3>4, <3>6, <3>8
  <2>4. CASE ~ disconnectSocketsForServer(t)
    <3>1. readyThreads' = readyThreads
      BY <2>4 DEF worker, threadStep, handleEvent, handleIncomingConnection, quit, endCall, startCall,
         socketDisconnected, sendDelayedReply
    <3>2. \/ queue' = queue
          \/ queue[t] # <<>> /\ Head(queue[t]).type # "disconnect" /\ queue' = [queue EXCEPT ![t] = Tail(@)]
      BY <2>4 DEF worker, threadStep, handleEvent, handleIncomingConnection, quit, AtEvent, endCall, startCall,
         socketDisconnected, sendDelayedReply
    <3>3. ASSUME queue[t] # <<>>, Head(queue[t]).type # "disconnect", queue' = [queue EXCEPT ![t] = Tail(@)]
          PROVE  Waiting' = Waiting
      <4>1. queue[t] \in Seq(Event) /\ queue'[t] = Tail(queue[t]) /\ \A u \in Threads \ {t} : queue'[u] = queue[u]
        BY <3>3 DEF ThreadTypeOK
      <4>2. /\ \A i \in 1..Len(queue'[t]) : i + 1 \in 1..Len(queue[t]) /\ queue'[t][i] = queue[t][i + 1]
            /\ Len(queue'[t]) = Len(queue[t]) - 1 /\ Len(queue[t]) \in Nat
            /\ queue[t][1].type # "disconnect"
        BY <3>3, <4>1, TailKeeps
      <4>3. \A j \in 1..Len(queue[t]) : j = 1 \/ (j - 1 \in 1..Len(queue'[t]) /\ queue'[t][j - 1] = queue[t][j])
        BY <4>2
      <4>4. t \in Waiting' <=> t \in Waiting
        <5>1. t \in Waiting' <=> \E i \in 1..Len(queue'[t]) : queue'[t][i].type = "disconnect"
          BY <2>1, <4>1, WaitingOf
        <5>2. t \in Waiting <=> \E i \in 1..Len(queue[t]) : queue[t][i].type = "disconnect"
          BY <2>1, <4>1, WaitingOf
        <5>3. ASSUME t \in Waiting' PROVE t \in Waiting
          BY ONLY <4>2, <5>1, <5>2, <5>3
        <5>4. ASSUME t \in Waiting PROVE t \in Waiting'
          <6>1. PICK j \in 1..Len(queue[t]) : queue[t][j].type = "disconnect"
            BY <5>2, <5>4
          <6>2. j - 1 \in 1..Len(queue'[t]) /\ queue'[t][j - 1] = queue[t][j]
            BY <4>2, <4>3, <6>1
          <6>. QED
            BY ONLY <5>1, <6>1, <6>2
        <5>. QED
          BY <5>3, <5>4
      <4>5. Waiting' \ {t} = Waiting \ {t}
        BY <2>1, <4>1, WaitingOf
      <4>. QED
        <5>1. \A u : u \in Waiting' <=> u \in Waiting
          BY ONLY <4>4, <4>5, Zenon
        <5>2. \A S, T : (\A u : u \in S <=> u \in T) => S = T
          BY Zenon
        <5>. QED
          BY ONLY <5>1, <5>2, Zenon
    <3>4. queue' = queue => Waiting' = Waiting
      BY DEF Waiting, Threads
    <3>. QED
      BY <2>2, <3>1, <3>2, <3>3, <3>4
  <2>. QED
    BY <2>3, <2>4
<1>2. ASSUME NEW t \in Threads, worker(t), main.op # "wait" PROVE PermitsCounted'
  BY <1>2 DEF PermitsCounted, worker, poolVars
<1>3. ASSUME NEW s \in Servers, suspendPooled(s) PROVE PermitsCounted'
  <2>1. postToAll(Disconnect(s)) /\ readyThreads' = 0
    BY <1>3 DEF suspendPooled, disconnectSockets
  <2>2. Threads' = Threads
    BY <2>1 DEF postToAll, Threads
  <2>3. ASSUME NEW u \in Threads PROVE u \in Waiting'
    <3>1. queue[u] \in Seq(Event) /\ queue'[u] = Append(queue[u], Disconnect(s))
      BY <2>1 DEF postToAll
    <3>2. Len(queue[u]) + 1 \in 1..Len(queue'[u]) /\ queue'[u][Len(queue[u]) + 1].type = "disconnect"
      BY <3>1, AppendKeeps, DisconnectInEvent DEF Disconnect
    <3>. QED
      BY <2>2, <3>2 DEF Waiting
  <2>4. Threads' \ Waiting' = {}
    BY <2>2, <2>3
  <2>. QED
    BY <2>1, <2>4, FS_EmptySet DEF PermitsCounted
<1>4. CASE Aside
  BY <1>4, SameHeld DEF Aside, PermitsCounted, Waiting, Threads
<1>5. CASE main'.op # "wait"
  BY <1>5 DEF PermitsCounted
<1>6. CASE takeIdling \/ takeLeastLoaded \/ createThread \/ acquireReadyThreads \/ destroyPool
  BY <1>5, <1>6, IdleTyped, MainFields
  DEF takeIdling, takeLeastLoaded, createThread, acquireReadyThreads, destroyPool
<1>. QED
  BY <1>1, <1>2, <1>3, <1>4, <1>6, NextKinds

---------------------------------------------------------------------------
(* What a suspended server still has.                                      *)

(* Only suspend() and resume() touch what is suspended.                    *)
LEMMA ListeningChanges ==
    ASSUME TypeOK, Next
    PROVE  \/ UNCHANGED <<listening, suspended>>
           \/ \E s \in Servers : suspendPooled(s) \/ suspendMain(s) \/ resume(s)
<1>1. ASSUME NEW c \in Conns, connect(c) \/ closeByClient(c) \/ mainLoop(c)
      PROVE  UNCHANGED <<listening, suspended>>
  BY <1>1 DEF connect, closeByClient, mainLoop, incomingConnectionPooled, incomingConnectionMain,
     mainSocketDisconnected, mainCallDelayed, mainSendDelayedReply, serverVars
<1>2. ASSUME NEW t \in Threads, worker(t) PROVE UNCHANGED <<listening, suspended>>
  BY <1>2 DEF worker, serverVars
<1>3. CASE mainStep
  BY <1>3 DEF mainStep, rejectPooled, acceptPooled, serverVars
<1>4. CASE application
  BY <1>4 DEF application, serverVars
<1>5. CASE ended
  BY <1>5 DEF ended, vars, serverVars
<1>. QED
  BY <1>1, <1>2, <1>3, <1>4, <1>5 DEF Next

(* A server that is suspended after a step was so before or is now.        *)
LEMMA SuspendChanges ==
    ASSUME TypeOK, Next, NEW s \in Servers, suspended'[s]
    PROVE  /\ suspended[s] \/ suspendPooled(s) \/ suspendMain(s)
           /\ listening'[s] => listening[s]
<1>. USE DEF TypeOK
<1>1. CASE UNCHANGED <<listening, suspended>>
  BY <1>1
<1>2. ASSUME NEW r \in Servers, suspendPooled(r) \/ suspendMain(r)
      PROVE  /\ suspended[s] \/ suspendPooled(s) \/ suspendMain(s)
             /\ listening'[s] => listening[s]
  <2>1. /\ suspended' = [suspended EXCEPT ![r] = TRUE]
        /\ listening' = [listening EXCEPT ![r] = FALSE]
    BY <1>2 DEF suspendPooled, suspendMain, stopListening
  <2>. QED
    BY <1>2, <2>1
<1>3. ASSUME NEW r \in Servers, resume(r)
      PROVE  suspended[s] /\ (listening'[s] => listening[s])
  <2>1. /\ suspended' = [suspended EXCEPT ![r] = FALSE]
        /\ listening' \in {listening, [listening EXCEPT ![r] = TRUE]}
    BY <1>3 DEF resume
  <2>. QED
    BY <2>1
<1>. QED
  BY <1>1, <1>2, <1>3, ListeningChanges

(* main ends a wait by acquiring the permits, and in no other way.         *)
LEMMA WaitEnds ==
    ASSUME TypeOK, MainInv, PermitsCounted, Next, main.op = "wait", main' # main
    PROVE  \A t \in Threads' : OfServer(Held(t)', main.srv) = {}
<1>1. acquireReadyThreads
  BY NextKinds DEF worker, poolVars, takeIdling, takeLeastLoaded, createThread, suspendPooled, stopListening,
     destroyPool, Aside
<1>2. Threads' = Threads /\ \A t \in Threads : Held(t)' = Held(t)
  BY <1>1, SameHeld DEF acquireReadyThreads, threadVars
<1>3. Waiting = {}
  BY <1>1, AllReleased DEF acquireReadyThreads
<1>. QED
  BY <1>2, <1>3 DEF PermitsCounted

(* Every step keeps a suspended server empty.                              *)
LEMMA SuspendedEmptyStep ==
    ASSUME TypeOK, MainInv, PooledInv, PermitsCounted, SuspendedEmpty, Next PROVE SuspendedEmpty'
<1>. SUFFICES ASSUME NEW s \in Servers, suspended'[s]
              PROVE  /\ ~ listening'[s]
                     /\ OfServer(backlog' \cup mainSockets' \cup Accepting', s) = {}
                     /\ SuspendReturned(s)' => \A t \in Threads' : OfServer(Held(t)', s) = {}
  BY DEF SuspendedEmpty, OfServer
<1>0. Flow
  BY NextFlow
<1>1. CASE suspended[s]
  <2>1. ~ listening[s] /\ OfServer(backlog \cup mainSockets \cup Accepting, s) = {}
    BY <1>1 DEF SuspendedEmpty
  <2>2. ~ listening'[s]
    BY <2>1, SuspendChanges
  <2>3. OfServer(backlog' \cup mainSockets' \cup Accepting', s) = {}
    BY <1>0, <2>1 DEF Flow, OfServer
  <2>4. CASE SuspendReturned(s)
    <3>1. \A t \in Threads : OfServer(Held(t), s) = {}
      BY <1>1, <2>4 DEF SuspendedEmpty
    <3>2. \A t \in Threads' : OfServer(Held(t)', s) = {}
      BY <1>0, <2>1, <3>1 DEF Flow, OfServer
    <3>. QED
      BY <2>2, <2>3, <3>2
  <2>5. CASE ~ SuspendReturned(s) /\ SuspendReturned(s)'
    <3>1. main.op = "wait" /\ main.srv = s /\ main' # main
      BY <1>1, <2>5 DEF SuspendReturned
    <3>. QED
      BY <2>2, <2>3, <3>1, WaitEnds
  <2>. QED
    BY <2>2, <2>3, <2>4, <2>5
<1>2. CASE suspendPooled(s)
  <2>1. /\ ~ listening'[s]
        /\ backlog' = backlog \ OfServer(backlog, s)
    BY <1>2 DEF suspendPooled, stopListening, TypeOK
  <2>2. mainSockets' = mainSockets /\ s \in Pooled
    BY <1>2 DEF suspendPooled
  <2>3. main'.op = "wait" /\ main'.srv = s /\ Accepting' = {}
    BY <1>2, MainFields DEF suspendPooled, disconnectSockets, Accepting
  <2>4. ~ SuspendReturned(s)'
    BY <2>3 DEF SuspendReturned
  <2>. QED
    BY <2>1, <2>2, <2>3, <2>4 DEF OfServer, PooledInv
<1>3. CASE suspendMain(s)
  <2>1. /\ ~ listening'[s]
        /\ backlog' = backlog \ OfServer(backlog, s)
        /\ mainSockets' = mainSockets \ OfServer(mainSockets, s)
        /\ s \notin Pooled
    BY <1>3 DEF suspendMain, stopListening, TypeOK
  <2>2. main.op = "idle" /\ main' = main
    BY <1>3 DEF suspendMain, stopListening, poolVars
  <2>3. Accepting' = {}
    BY <2>2 DEF Accepting, MainInv
  <2>4. Threads' = Threads /\ \A t \in Threads : Held(t)' = Held(t)
    BY <1>3, SameHeld DEF suspendMain
  <2>5. \A t \in Threads : OfServer(Held(t), s) = {}
    BY <2>1 DEF PooledInv, OfServer
  <2>. QED
    BY <2>1, <2>3, <2>4, <2>5 DEF OfServer
<1>. QED
  BY <1>1, <1>2, <1>3, SuspendChanges

(* SuspendInv holds when the program starts.                               *)
LEMMA InitSuspend == Init => SuspendInv
<1>. SUFFICES ASSUME Init PROVE SuspendInv
  OBVIOUS
<1>1. Threads = {} /\ Accepting = {} /\ main.op = "idle"
  BY IdleTyped, MainFields DEF Init, Threads, Accepting
<1>. QED
  BY <1>1 DEF Init, SuspendInv, PooledInv, CallKeepsSocket, DisconnectLast, PermitsCounted, DelayedOwned,
     SuspendedEmpty, OfServer

(* SuspendInv holds in every reachable state.                              *)
LEMMA SuspendInductive == Spec => []SuspendInv
<1>1. Init => SuspendInv
  BY InitSuspend
<1>2. TypeOK /\ MainInv /\ SuspendInv /\ [Next]_vars => SuspendInv'
  <2>1. ASSUME TypeOK, MainInv, SuspendInv, Next PROVE SuspendInv'
    BY <2>1, PooledStep, CallStep, DisconnectLastStep, PermitsStep, DelayedStep, SuspendedEmptyStep DEF SuspendInv
  <2>2. ASSUME SuspendInv, UNCHANGED vars PROVE SuspendInv'
    <3>1. UNCHANGED <<threadVars, poolVars, serverVars>>
      BY <2>2 DEF vars
    <3>2. Threads' = Threads /\ \A t \in Threads : Held(t)' = Held(t)
      BY <3>1, SameHeld DEF threadVars
    <3>. QED
      BY <2>2, <3>1, <3>2 DEF SuspendInv, PooledInv, CallKeepsSocket, DisconnectLast, PermitsCounted, DelayedOwned,
         SuspendedEmpty, SuspendReturned, Accepting, Waiting, OfServer, threadVars, poolVars, serverVars
  <2>. QED
    BY <2>1, <2>2
<1>. QED
  BY <1>1, <1>2, TypeInductive, PTL DEF Spec

(* A call never loses the socket it answers on, however suspend(), the     *)
(* pool's destructor and the client's leaving interleave with it.          *)
THEOREM CallsKeepSockets == Spec => []CallKeepsSocket
<1>1. SuspendInv => CallKeepsSocket
  BY DEF SuspendInv
<1>. QED
  BY <1>1, SuspendInductive, PTL

(* suspend() returns only when nothing of the server is left in any        *)
(* thread, whatever their number, and it stays so until resume().          *)
THEOREM SuspendComplete == Spec => []SuspendQuiescent
<1>1. TypeOK /\ SuspendInv => SuspendQuiescent
  <2>. SUFFICES ASSUME TypeOK, SuspendInv, NEW s \in Servers, SuspendReturned(s)
                PROVE  Serving(s) = {} /\ ~ listening[s]
    BY DEF SuspendQuiescent
  <2>1. /\ ~ listening[s]
        /\ OfServer(backlog \cup mainSockets \cup Accepting, s) = {}
        /\ \A t \in Threads : OfServer(Held(t), s) = {}
    BY DEF SuspendInv, SuspendedEmpty, SuspendReturned
  <2>2. OfServer(InPool, s) = {}
    BY <2>1 DEF InPool, OfServer
  <2>3. OfServer(delayed, s) = {}
    BY <2>1 DEF SuspendInv, DelayedOwned, Held, OfServer
  <2>. QED
    BY <2>1, <2>2, <2>3 DEF Serving, OfServer
<1>. QED
  BY <1>1, TypeInductive, SuspendInductive, PTL

---------------------------------------------------------------------------
(* The number of threads.  The scan of chooseNextThread() has a best       *)
(* thread as soon as it has passed one, so a thread is created only while  *)
(* there are fewer than the limit; the test for equality suffices as long  *)
(* as the limit is at least one and never lowered.                         *)

ScanInv ==
    main.op = "choose" =>
        /\ main.next >= 1
        /\ main.best = 0 => main.next = 1

BoundInv == ScanInv /\ Len(queue) <= m_maxThreadCount

(* chooseNextThread() starts with the first thread.                        *)
LEMMA ChooseFields ==
    \A c \in Conns : [Idle EXCEPT !.op = "choose", !.next = 1, !.conn = c].next = 1
BY DEF Idle

(* Only createThread adds a thread, and only the scan keeps a scan going.  *)
LEMMA BoundKinds ==
    ASSUME TypeOK, MainInv, Next
    PROVE  \/ createThread
           \/ Len(queue') = Len(queue) /\ (main' = main \/ main'.op # "choose")
           \/ Len(queue') = Len(queue) /\ (lookAtBusy \/ acceptPooled)
<1>. USE DEF TypeOK, threadVars
<1>1. ASSUME NEW t, queue' = [queue EXCEPT ![t] = queue'[t]] PROVE Len(queue') = Len(queue)
  BY <1>1 DEF ThreadTypeOK
<1>2. ASSUME NEW e \in Event, postToAll(e) PROVE Len(queue') = Len(queue)
  BY <1>2, ThreadsAre DEF postToAll, ThreadTypeOK
<1>3. ASSUME NEW t \in Threads, worker(t) PROVE Len(queue') = Len(queue) /\ main' = main
  <2>1. queue' = queue \/ queue' = [queue EXCEPT ![t] = Tail(@)]
    BY <1>3 DEF worker, threadStep, handleEvent, handleIncomingConnection, disconnectSocketsForServer, quit,
       endCall, startCall, socketDisconnected, sendDelayedReply
  <2>2. Len(queue') = Len(queue)
    BY <2>1 DEF ThreadTypeOK
  <2>. QED
    BY <1>3, <2>2 DEF worker, poolVars
<1>4. CASE takeIdling \/ takeLeastLoaded
  <2>1. main'.op # "choose"
    BY <1>4, IdleTyped DEF takeIdling, takeLeastLoaded
  <2>2. \E t \in Nat : giveTo(t, main.conn)
    BY <1>4 DEF takeIdling, takeLeastLoaded, PoolTypeOK, Activation
  <2>3. Len(queue') = Len(queue)
    BY <2>2 DEF giveTo, ThreadTypeOK
  <2>. QED
    BY <2>1, <2>3
<1>5. CASE acquireReadyThreads \/ waitForThreads \/ rejectPooled \/ countThread
  BY <1>5, IdleTyped, MainFields, LoopFields
  DEF acquireReadyThreads, waitForThreads, rejectPooled, countThread
<1>6. CASE lookAtBusy \/ acceptPooled
  BY <1>6 DEF lookAtBusy, acceptPooled
<1>7. ASSUME NEW s \in Servers, suspendPooled(s)
      PROVE  Len(queue') = Len(queue) /\ main'.op # "choose"
  BY <1>2, <1>7, DisconnectInEvent, MainFields DEF suspendPooled, disconnectSockets
<1>8. CASE destroyPool
  BY <1>2, <1>8, QuitInEvent, MainFields DEF destroyPool
<1>9. ASSUME NEW c \in Conns, connect(c) \/ closeByClient(c) \/ mainLoop(c)
      PROVE  Len(queue') = Len(queue) /\ (main' = main \/ main'.op # "choose")
  BY <1>9, MainFields DEF connect, closeByClient, mainLoop, incomingConnectionPooled, incomingConnectionMain,
     mainSocketDisconnected, mainCallDelayed, mainSendDelayedReply, poolVars
<1>10. ASSUME NEW s \in Servers, suspendMain(s) \/ resume(s) PROVE queue' = queue /\ main' = main
  BY <1>10 DEF suspendMain, resume, poolVars
<1>11. ASSUME NEW n \in ThreadLimits, setMaxThreadCount(n) PROVE queue' = queue /\ main' = main
  BY <1>11 DEF setMaxThreadCount
<1>12. CASE ended
  BY <1>12 DEF ended, vars, poolVars
<1>. QED
  BY <1>3, <1>4, <1>5, <1>6, <1>7, <1>8, <1>9, <1>10, <1>11, <1>12 DEF Next, mainStep, poolStep, application

(* With one positive limit every step keeps the pool within it.            *)
LEMMA BoundStep ==
    ASSUME NEW n \in Nat \ {0}, ThreadLimits = {n}, TypeOK, TypeOK', MainInv, BoundInv, Next PROVE BoundInv'
<1>. USE DEF BoundInv, ScanInv
<1>0. m_maxThreadCount = n /\ m_maxThreadCount' = n
  BY DEF TypeOK, PoolTypeOK
<1>1. CASE createThread
  <2>1. main.op = "choose" /\ main.next \notin Threads /\ ~ atLimit
    BY <1>1 DEF createThread
  <2>2. Threads = 1..Len(queue) /\ Len(queue) \in Nat /\ main.next \in Nat
    BY ThreadsAre DEF TypeOK, ThreadTypeOK, PoolTypeOK, Activation
  <2>3. Len(queue) < n
    BY <1>0, <2>1, <2>2 DEF atLimit
  <2>4. Len(queue') = Len(queue) + 1
    BY <1>1 DEF createThread, startThreadWith, TypeOK, ThreadTypeOK
  <2>5. main'.op # "choose"
    BY <1>1, IdleTyped DEF createThread
  <2>. QED
    BY <1>0, <2>2, <2>3, <2>4, <2>5
<1>2. CASE Len(queue') = Len(queue) /\ (main' = main \/ main'.op # "choose")
  BY <1>0, <1>2
<1>3. CASE Len(queue') = Len(queue) /\ lookAtBusy
  <2>1. main \in Activation /\ main.next \in Nat /\ main.next >= 1
    BY <1>3 DEF TypeOK, PoolTypeOK, Activation, lookAtBusy
  <2>2. main'.next = main.next + 1 /\ (main'.best = main.next \/ (main'.best = main.best /\ main.best # 0))
    BY <1>3, <2>1 DEF Activation, lookAtBusy
  <2>. QED
    BY <1>0, <1>3, <2>1, <2>2
<1>4. CASE Len(queue') = Len(queue) /\ acceptPooled
  <2>1. main.conn \in Conns
    BY <1>4 DEF acceptPooled, counted, MainInv
  <2>2. main'.next = 1
    BY <1>4, <2>1, ChooseFields DEF acceptPooled, handleIncomingConnectionInPool
  <2>. QED
    BY <1>0, <1>4, <2>2
<1>. QED
  BY <1>1, <1>2, <1>3, <1>4, BoundKinds

(* A pool whose limit is set once, to at least one, never exceeds it, for  *)
(* any number of servers and connections.                                  *)
THEOREM ThreadsBounded ==
    ASSUME NEW n \in Nat \ {0}, ThreadLimits = {n} PROVE Spec => []ThreadBound
<1>1. Init => BoundInv
  BY IdleTyped DEF Init, BoundInv, ScanInv
<1>2. TypeOK /\ TypeOK' /\ MainInv /\ BoundInv /\ [Next]_vars => BoundInv'
  <2>1. ASSUME TypeOK, TypeOK', MainInv, BoundInv, Next PROVE BoundInv'
    BY <2>1, BoundStep
  <2>2. ASSUME BoundInv, UNCHANGED vars PROVE BoundInv'
    BY <2>2 DEF vars, threadVars, poolVars, BoundInv, ScanInv
  <2>. QED
    BY <2>1, <2>2
<1>3. TypeOK /\ BoundInv => ThreadBound
  BY DEF TypeOK, PoolTypeOK, BoundInv, ThreadBound, Allowed
<1>. QED
  BY <1>1, <1>2, <1>3, TypeInductive, PTL DEF Spec
=============================================================================
