---------------------- MODULE KDSoapServerService_proofs ----------------------
(***************************************************************************)
(* The servers and their pool implement KDSoapService: the proof that      *)
(* every step of KDSoapServer is, through the refinement mapping, a step   *)
(* of KDSoapService or leaves its variables alone.                         *)
(***************************************************************************)
EXTENDS KDSoapServerOwners_proofs

(* Clients the kernel has let in are those of a listening server, also     *)
(* after a resume() whose listen() failed.                                 *)
ComingListens == \A c \in backlog \cup Accepting : listening[ServerOf[c]]

(* Every step keeps arriving connections with listening servers.           *)
LEMMA ComingStep ==
    ASSUME TypeOK, MainInv, ComingListens, Next PROVE ComingListens'
<1>. USE DEF ComingListens
<1>0. Flow
  BY NextFlow
<1>1. CASE \A s \in Servers : listening[s] => listening'[s]
  <2>1. TypeOK'
    BY NextTyped
  <2>2. \A c \in backlog' \cup Accepting' : ServerOf[c] \in Servers
    BY <2>1, ServerTyped DEF TypeOK, Accepting, PoolTypeOK, Activation
  <2>3. \A c \in backlog' \cup Accepting' : listening[ServerOf[c]]
    BY <1>0 DEF Flow
  <2>. QED
    BY <1>1, <2>2, <2>3
<1>2. ASSUME NEW s \in Servers, suspendPooled(s) \/ suspendMain(s) PROVE ComingListens'
  <2>1. /\ backlog' = backlog \ OfServer(backlog, s)
        /\ listening' = [listening EXCEPT ![s] = FALSE]
    BY <1>2 DEF suspendPooled, suspendMain, stopListening
  <2>2. Accepting' = {}
    <3>1. main'.conn = None
      <4>1. CASE suspendPooled(s)
        BY <4>1, MainFields DEF suspendPooled, disconnectSockets
      <4>2. CASE suspendMain(s)
        BY <4>2 DEF suspendMain, stopListening, poolVars, MainInv
      <4>. QED
        BY <1>2, <4>1, <4>2
    <3>. QED
      BY <3>1 DEF Accepting
  <2>3. \A c \in backlog' : ServerOf[c] # s /\ ServerOf[c] \in Servers /\ c \in backlog
    BY <2>1, ServerTyped DEF OfServer, TypeOK
  <2>. QED
    BY <2>1, <2>2, <2>3 DEF TypeOK
<1>3. ASSUME NEW r \in Servers, resume(r) PROVE \A s \in Servers : listening[s] => listening'[s]
  BY <1>3 DEF resume, TypeOK
<1>. QED
  BY <1>1, <1>2, <1>3, ListeningChanges

(* What arrives or is looked at has a listening server.                    *)
LEMMA ComingInductive == Spec => []ComingListens
<1>1. Init => ComingListens
  BY IdleTyped DEF Init, ComingListens, Accepting
<1>2. TypeOK /\ MainInv /\ ComingListens /\ [Next]_vars => ComingListens'
  BY ComingStep DEF vars, poolVars, serverVars, ComingListens, Accepting
<1>. QED
  BY <1>1, <1>2, TypeInductive, PTL DEF Spec

---------------------------------------------------------------------------
(* What a place means for the client.                                      *)

Apart ==
    /\ (fresh \cup backlog \cup Accepting) \cap (Posted \cup Opened \cup rejected) = {}
    /\ Posted \cap (Opened \cup rejected) = {}
    /\ Opened \cap rejected = {}

(* OwnerInv keeps the five statuses of a connection apart.                 *)
LEMMA OwnersApart == ASSUME OwnerInv PROVE Apart
<1>. USE DEF OwnerInv
<1>1. \A t \in Threads : Queued(t) \cap Outside = {} /\ sockets[t] \cap Outside = {}
  BY DEF ThreadsApart, Held
<1>2. Posted \cap Outside = {} /\ (UNION {sockets[t] : t \in Threads}) \cap Outside = {}
  BY <1>1 DEF Posted
<1>3. \A t, u \in Threads : Queued(t) \cap sockets[u] = {}
  BY DEF ThreadsApart, NewToThread, Held
<1>4. Posted \cap UNION {sockets[t] : t \in Threads} = {}
  BY <1>3 DEF Posted
<1>. QED
  BY <1>2, <1>4 DEF Apart, Opened, Outside, OutsideApart

Status(c) ==
    IF c \in fresh \cup backlog \cup Accepting THEN "none"
    ELSE IF c \in Posted THEN "accepted"
    ELSE IF c \in Opened THEN "open"
    ELSE IF c \in rejected THEN "rejected"
    ELSE "closed"

(* With that, the refinement mapping is read off by Status.                *)
LEMMA StatusIs == Apart => statusMap = [c \in Conns |-> Status(c)]
BY DEF Apart, Status, statusMap

(* The same after a step.                                                  *)
LEMMA StatusIsNext == Apart' => statusMap' = [c \in Conns |-> Status(c)']
BY DEF Apart, Status, statusMap

(* If no status changes, neither does the mapping.                         *)
LEMMA Unmoved ==
    ASSUME Apart, Apart', \A c \in Conns : Status(c)' = Status(c) PROVE statusMap' = statusMap
BY StatusIs, StatusIsNext

(* One connection that moves changes the mapping for itself alone.         *)
LEMMA MovedOne ==
    ASSUME Apart, Apart', NEW c \in Conns, NEW st, Status(c)' = st,
           \A d \in Conns \ {c} : Status(d)' = Status(d)
    PROVE  statusMap' = [statusMap EXCEPT ![c] = st]
BY StatusIs, StatusIsNext

(* Connections that go away become closed in the mapping.                  *)
LEMMA ClosedSome ==
    ASSUME Apart, Apart', NEW C,
           \A c \in Conns : Status(c)' = IF c \in C THEN "closed" ELSE Status(c)
    PROVE  statusMap' = [c \in Conns |-> IF c \in C THEN "closed" ELSE statusMap[c]]
BY StatusIs, StatusIsNext

(* A step that moves connections between no places.                        *)
SamePlaces ==
    /\ (fresh \cup backlog \cup Accepting)' = fresh \cup backlog \cup Accepting
    /\ UNCHANGED <<Posted, Opened, rejected>>

(* Nothing moves if all places stay the same.                              *)
LEMMA SameStatus == ASSUME Apart, Apart', SamePlaces PROVE statusMap' = statusMap
BY Unmoved DEF SamePlaces, Status

(* The phase of a server changes only by listening or main's waiting.      *)
LEMMA SamePhase ==
    ASSUME UNCHANGED listening,
           \/ main' = main
           \/ main.op # "wait" /\ main'.op # "wait"
    PROVE  phaseMap' = phaseMap
BY DEF phaseMap

(* The phase that the mapping gives a server.                              *)
LEMMA PhaseIs ==
    ASSUME NEW s \in Servers
    PROVE  phaseMap[s] = IF main.op = "wait" /\ main.srv = s THEN "suspending"
                         ELSE IF listening[s] THEN "listening" ELSE "suspended"
BY DEF phaseMap

---------------------------------------------------------------------------
(* The steps, action by action.                                            *)
Implemented == Service!Next \/ UNCHANGED <<statusMap, phaseMap>>

(* A step that opens one accepted connection is the service's Open.        *)
LEMMA Opens ==
    ASSUME NEW c \in Conns, statusMap[c] = "accepted", statusMap' = [statusMap EXCEPT ![c] = "open"],
           phaseMap' = phaseMap
    PROVE  Implemented
BY DEF Implemented, Service!Next, Service!Open

(* A step that closes open connections is the service's Close.             *)
LEMMA Closes ==
    ASSUME NEW C \in SUBSET Conns, \A c \in C : statusMap[c] = "open",
           statusMap' = [c \in Conns |-> IF c \in C THEN "closed" ELSE statusMap[c]],
           phaseMap' = phaseMap
    PROVE  Implemented
BY DEF Implemented, Service!Next, Service!Close

(* A step that moves a fresh connection is the service's Accept.           *)
LEMMA Accepts ==
    ASSUME NEW c \in Conns, statusMap[c] = "none", phaseMap[ServerOf[c]] = "listening",
           NEW st \in {"accepted", "open", "rejected"}, statusMap' = [statusMap EXCEPT ![c] = st],
           phaseMap' = phaseMap
    PROVE  Implemented
BY DEF Implemented, Service!Next, Service!Accept

(* A worker's step is Open, Close or a stutter.                            *)
LEMMA WorkerImplements ==
    ASSUME TypeOK, OwnerInv, Apart', NEW t \in Threads, worker(t) PROVE Implemented
<1>1. /\ Threads' = Threads
      /\ \A u \in Threads \ {t} : Queued(u)' = Queued(u) /\ sockets'[u] = sockets[u]
      /\ TakesUp(t) \/ Drops(t)
  BY WorkerMoves DEF worker, TypeOK, OwnerInv
<1>2. /\ (fresh \cup backlog \cup Accepting)' = fresh \cup backlog \cup Accepting
      /\ rejected' = rejected /\ mainSockets' = mainSockets
      /\ phaseMap' = phaseMap
  BY SamePhase DEF worker, poolVars, serverVars, Accepting
<1>3. Apart
  BY OwnersApart
<1>4. CASE TakesUp(t)
  <2>1. PICK c \in Queued(t) : Queued(t)' = Queued(t) \ {c} /\ sockets'[t] = sockets[t] \cup {c}
    BY <1>4 DEF TakesUp
  <2>2. c \in Posted /\ c \in Opened'
    BY <1>1, <2>1 DEF Posted, Opened
  <2>3. c \in Conns /\ Status(c) = "accepted" /\ Status(c)' = "open"
    BY <1>3, <2>2 DEF Apart, Status, Queued
  <2>4. ASSUME NEW d \in Conns \ {c} PROVE (d \in Posted' <=> d \in Posted) /\ (d \in Opened' <=> d \in Opened)
    BY <1>1, <1>2, <2>1 DEF Posted, Opened
  <2>5. \A d \in Conns \ {c} : Status(d)' = Status(d)
    BY <1>2, <2>4 DEF Status
  <2>. QED
    BY <1>2, <1>3, <2>3, <2>5, StatusIs, MovedOne, Opens
<1>5. CASE Drops(t)
  <2>. DEFINE C == sockets[t] \ sockets'[t]
  <2>1. Posted' = Posted
    BY <1>1, <1>5 DEF Posted, Drops
  <2>2. Opened' = Opened \ C /\ C \subseteq Opened
    <3>1. \A u \in Threads \ {t} : sockets[u] \cap sockets[t] = {}
      BY DEF OwnerInv, ThreadsApart, Held
    <3>2. mainSockets \cap sockets[t] = {}
      BY DEF OwnerInv, ThreadsApart, Held, Outside
    <3>. QED
      BY <1>1, <1>2, <1>5, <3>1, <3>2 DEF Opened, Drops
  <2>3. C \in SUBSET Conns
    BY ThreadsAre DEF TypeOK
  <2>. HIDE DEF C
  <2>4. \A c \in Conns : Status(c)' = IF c \in C THEN "closed" ELSE Status(c)
    BY <1>2, <1>3, <2>1, <2>2 DEF Apart, Status
  <2>5. \A c \in C : statusMap[c] = "open"
    BY <1>3, <2>2, <2>3, StatusIs DEF Apart, Status
  <2>6. statusMap' = [c \in Conns |-> IF c \in C THEN "closed" ELSE statusMap[c]]
    BY <1>3, <2>4, ClosedSome
  <2>. QED
    BY <1>2, <2>3, <2>5, <2>6, Closes
<1>. QED
  BY <1>1, <1>4, <1>5

(* Handing a connection to a thread is Accept.                             *)
LEMMA GiveImplements ==
    ASSUME TypeOK, MainInv, OwnerInv, Apart', ComingListens,
           takeIdling \/ takeLeastLoaded \/ createThread, UNCHANGED serverVars
    PROVE  Implemented
<1>0. PICK c \in Conns : c = main.conn
  BY GiveMoves
<1>1. Accepting = {c} /\ Accepting' = {}
  BY <1>0, GiveMoves
<1>2. main.op = "choose" /\ main'.op = "idle"
  BY IdleTyped DEF takeIdling, takeLeastLoaded, createThread
<1>3. PICK t : GivesTo(t, c)
  BY <1>0, GiveMoves
<1>4. phaseMap' = phaseMap
  BY <1>2, SamePhase DEF serverVars
<1>5. phaseMap[ServerOf[c]] = "listening"
  BY <1>0, <1>1, <1>2, ServerTyped, PhaseIs DEF ComingListens
<1>6. Apart
  BY OwnersApart
<1>7. Posted' = Posted \cup {c}
  BY <1>3 DEF Posted, GivesTo
<1>8. Opened' = Opened
  BY <1>3 DEF Opened, GivesTo, serverVars
<1>9. UNCHANGED <<fresh, backlog, rejected>>
  BY DEF serverVars
<1>10. Status(c) = "none" /\ Status(c)' = "accepted"
  BY <1>1, <1>7 DEF Apart, Status
<1>11. \A d \in Conns \ {c} : Status(d)' = Status(d)
  BY <1>1, <1>7, <1>8, <1>9 DEF Status
<1>12. statusMap' = [statusMap EXCEPT ![c] = "accepted"]
  BY <1>1, <1>6, <1>10, <1>11, MovedOne
<1>13. statusMap[c] = "none"
  BY <1>1, <1>6, <1>10, StatusIs
<1>. QED
  BY <1>1, <1>4, <1>5, <1>12, <1>13, Accepts

(* Rejecting one at the limit is Accept with the status rejected.          *)
LEMMA RejectImplements ==
    ASSUME TypeOK, MainInv, OwnerInv, Apart', ComingListens, rejectPooled PROVE Implemented
<1>0. PICK c \in Conns : c = main.conn
  BY DEF rejectPooled, counted, MainInv
<1>1. Accepting = {c} /\ Accepting' = {}
  BY <1>0, IdleTyped, ThreadAssumption DEF rejectPooled, Accepting
<1>2. main.op = "count" /\ main'.op = "idle"
  BY IdleTyped DEF rejectPooled, counted
<1>3. phaseMap' = phaseMap
  BY <1>2, SamePhase DEF rejectPooled
<1>4. phaseMap[ServerOf[c]] = "listening"
  BY <1>0, <1>1, <1>2, ServerTyped, PhaseIs DEF ComingListens
<1>5. Apart
  BY OwnersApart
<1>6. rejected' = rejected \cup {c} /\ UNCHANGED <<fresh, backlog, mainSockets, queue, sockets>>
  BY <1>0 DEF rejectPooled, threadVars
<1>7. Posted' = Posted /\ Opened' = Opened
  BY <1>6, SamePosted DEF Posted, Opened
<1>8. Status(c) = "none" /\ Status(c)' = "rejected"
  BY <1>1, <1>6 DEF Apart, Status
<1>9. \A d \in Conns \ {c} : Status(d)' = Status(d)
  BY <1>1, <1>6, <1>7 DEF Status
<1>10. statusMap' = [statusMap EXCEPT ![c] = "rejected"]
  BY <1>1, <1>5, <1>8, <1>9, MovedOne
<1>11. statusMap[c] = "none"
  BY <1>1, <1>5, <1>8, StatusIs
<1>. QED
  BY <1>1, <1>3, <1>4, <1>10, <1>11, Accepts

(* Without a pool a connection is accepted and open at once.               *)
LEMMA AcceptMainImplements ==
    ASSUME TypeOK, OwnerInv, Apart', ComingListens, NEW c \in Conns, incomingConnectionMain(c) PROVE Implemented
<1>1. main.op = "idle" /\ c \in backlog /\ phaseMap' = phaseMap
  BY SamePhase DEF incomingConnectionMain, poolVars
<1>2. phaseMap[ServerOf[c]] = "listening"
  BY <1>1, ServerTyped, PhaseIs DEF ComingListens
<1>3. Apart
  BY OwnersApart
<1>4. PICK st \in {"open", "rejected"} :
          /\ backlog' = backlog \ {c} /\ UNCHANGED <<fresh, main, queue, sockets>>
          /\ rejected' = IF st = "rejected" THEN rejected \cup {c} ELSE rejected
          /\ mainSockets' = IF st = "open" THEN mainSockets \cup {c} ELSE mainSockets
  <2>1. /\ backlog' = backlog \ {c} /\ UNCHANGED <<fresh, main, queue, sockets>>
        /\ \/ rejected' = rejected \cup {c} /\ mainSockets' = mainSockets
           \/ rejected' = rejected /\ mainSockets' = mainSockets \cup {c}
    BY DEF incomingConnectionMain, poolVars, threadVars
  <2>. QED
    BY <2>1
<1>5. Posted' = Posted /\ Opened' = Opened \cup (mainSockets' \ mainSockets)
  BY <1>4, SamePosted DEF Posted, Opened
<1>6. Accepting' = Accepting
  BY <1>4 DEF Accepting
<1>7. Status(c) = "none" /\ Status(c)' = st
  <2>1. CASE st = "open"
    BY <1>1, <1>4, <2>1 DEF Apart, Status, Opened
  <2>2. CASE st = "rejected"
    BY <1>1, <1>4, <2>2 DEF Apart, Status
  <2>. QED
    BY <2>1, <2>2
<1>8. ASSUME NEW d \in Conns \ {c} PROVE Status(d)' = Status(d)
  <2>1. (d \in Opened' <=> d \in Opened) /\ (d \in rejected' <=> d \in rejected) /\ (d \in backlog' <=> d \in backlog)
    BY <1>4, <1>5
  <2>. QED
    BY <1>4, <1>5, <1>6, <2>1 DEF Status
<1>9. statusMap' = [statusMap EXCEPT ![c] = st]
  BY <1>3, <1>7, <1>8, MovedOne
<1>10. statusMap[c] = "none"
  BY <1>3, <1>7, StatusIs
<1>. QED
  BY <1>1, <1>2, <1>9, <1>10, Accepts

(* A client that leaves a socket of main's closes it.                      *)
LEMMA ForgetImplements ==
    ASSUME TypeOK, OwnerInv, Apart', NEW c \in Conns, mainSocketDisconnected(c) PROVE Implemented
<1>1. /\ c \in mainSockets /\ mainSockets' = mainSockets \ {c}
      /\ UNCHANGED <<main, queue, sockets, fresh, backlog, rejected, listening>>
  BY DEF mainSocketDisconnected, poolVars
<1>2. phaseMap' = phaseMap /\ Apart
  BY <1>1, SamePhase, OwnersApart
<1>3. Posted' = Posted
  BY <1>1, SamePosted DEF Posted
<1>4. Opened' = Opened \ {c} /\ c \in Opened
  <2>1. \A t \in Threads : c \notin sockets[t]
    BY <1>1 DEF OwnerInv, ThreadsApart, Held, Outside
  <2>. QED
    BY <1>1, <2>1, SamePosted DEF Opened
<1>. DEFINE C == {c}
<1>5. \A d \in Conns : Status(d)' = IF d \in C THEN "closed" ELSE Status(d)
  BY <1>1, <1>2, <1>3, <1>4 DEF Apart, Status, Accepting
<1>6. C \in SUBSET Conns /\ \A d \in C : statusMap[d] = "open"
  BY <1>2, <1>4, StatusIs DEF Apart, Status
<1>. HIDE DEF C
<1>7. statusMap' = [d \in Conns |-> IF d \in C THEN "closed" ELSE statusMap[d]]
  BY <1>2, <1>5, ClosedSome
<1>. QED
  BY <1>2, <1>6, <1>7, Closes

(* Nobody that is suspended is waited for but the one main waits for.      *)
LEMMA SuspendStatus ==
    ASSUME TypeOK, OwnerInv, Apart', NEW s \in Servers, stopListening(s),
           Threads' = Threads, \A t \in Threads : Queued(t)' = Queued(t) /\ sockets'[t] = sockets[t],
           UNCHANGED <<fresh, rejected>>, Accepting' = Accepting,
           NEW gone, gone \subseteq Opened, mainSockets' = mainSockets \ gone,
           Opened' = Opened \ gone
    PROVE  /\ Apart
           /\ statusMap' = [c \in Conns |-> IF c \in OfServer(backlog, s) \cup gone THEN "closed" ELSE statusMap[c]]
           /\ \A c \in OfServer(backlog, s) : statusMap[c] = "none"
<1>1. Apart
  BY OwnersApart
<1>2. backlog' = backlog \ OfServer(backlog, s) /\ OfServer(backlog, s) \subseteq backlog
  BY DEF stopListening, OfServer
<1>3. Posted' = Posted
  BY DEF Posted
<1>4. OfServer(backlog, s) \cap (fresh \cup Accepting) = {}
  BY <1>2 DEF OwnerInv, OutsideApart
<1>. DEFINE C == OfServer(backlog, s) \cup gone
<1>5. \A c \in Conns : Status(c)' = IF c \in C THEN "closed" ELSE Status(c)
  BY <1>1, <1>2, <1>3, <1>4 DEF Apart, Status
<1>. HIDE DEF C
<1>6. statusMap' = [c \in Conns |-> IF c \in C THEN "closed" ELSE statusMap[c]]
  BY <1>1, <1>5, ClosedSome
<1>7. \A c \in OfServer(backlog, s) : statusMap[c] = "none"
  <2>1. \A c \in OfServer(backlog, s) : c \in Conns /\ c \in fresh \cup backlog \cup Accepting
    BY <1>2 DEF TypeOK
  <2>. QED
    BY <1>1, <2>1, StatusIs DEF Status
<1>. QED
  BY <1>1, <1>6, <1>7 DEF C

(* suspend() with a pool starts the service's Suspend.                     *)
LEMMA SuspendPooledImplements ==
    ASSUME TypeOK, MainInv, OwnerInv, Apart', NEW s \in Servers, suspendPooled(s) PROVE Implemented
<1>1. /\ stopListening(s) /\ main.op = "idle" /\ main.conn = None
      /\ UNCHANGED <<fresh, rejected, mainSockets, sockets>>
      /\ main'.op = "wait" /\ main'.srv = s /\ main'.conn = None
  BY MainFields DEF suspendPooled, stopListening, disconnectSockets, MainInv
<1>2. Threads' = Threads /\ \A t \in Threads : Queued(t)' = Queued(t)
  BY PostAllPosted, DisconnectInEvent DEF suspendPooled, disconnectSockets, Disconnect, TypeOK, OwnerInv
<1>. DEFINE gone == {}
<1>3. Accepting' = Accepting /\ Opened' = Opened \ gone /\ mainSockets' = mainSockets \ gone /\ gone \subseteq Opened
  BY <1>1, <1>2 DEF Accepting, Opened
<1>. HIDE DEF gone
<1>4. /\ statusMap' = [c \in Conns |-> IF c \in OfServer(backlog, s) \cup gone THEN "closed" ELSE statusMap[c]]
      /\ \A c \in OfServer(backlog, s) : statusMap[c] = "none"
  BY <1>1, <1>2, <1>3, SuspendStatus
<1>5. phaseMap' = [phaseMap EXCEPT ![s] = "suspending"]
  <2>1. listening' = [listening EXCEPT ![s] = FALSE]
    BY <1>1 DEF stopListening
  <2>. QED
    BY <1>1, <2>1 DEF phaseMap, TypeOK
<1>. DEFINE refused == OfServer(backlog, s)
<1>6. refused \in SUBSET {c \in Conns : ServerOf[c] = s /\ statusMap[c] = "none"}
  BY <1>4 DEF OfServer, TypeOK
<1>7. statusMap' = [c \in Conns |-> IF c \in refused THEN "closed" ELSE statusMap[c]]
  BY <1>4 DEF gone
<1>. HIDE DEF refused
<1>8. Service!Suspend(s)
  BY <1>5, <1>6, <1>7 DEF Service!Suspend
<1>. QED
  BY <1>8 DEF Implemented, Service!Next

(* suspend() without a pool is the service's Suspend, which closes at once.*)
LEMMA SuspendMainImplements ==
    ASSUME TypeOK, MainInv, OwnerInv, PooledInv, Apart', NEW s \in Servers, suspendMain(s) PROVE Implemented
<1>. DEFINE gone == OfServer(mainSockets, s)
            refused == OfServer(backlog, s)
<1>1. /\ stopListening(s) /\ main.op = "idle" /\ s \notin Pooled
      /\ UNCHANGED <<fresh, rejected, queue, sockets, main>>
      /\ mainSockets' = mainSockets \ gone
  BY DEF suspendMain, stopListening, poolVars
<1>2. Threads' = Threads /\ \A t \in Threads : Queued(t)' = Queued(t)
  BY <1>1, SamePosted
<1>3. gone \subseteq Opened /\ Opened' = Opened \ gone /\ Accepting' = Accepting
  <2>1. \A t \in Threads : sockets[t] \cap mainSockets = {}
    BY DEF OwnerInv, ThreadsApart, Held, Outside
  <2>2. gone \subseteq mainSockets
    BY DEF OfServer
  <2>. HIDE DEF gone
  <2>. QED
    BY <1>1, <1>2, <2>1, <2>2 DEF Opened, Accepting
<1>. HIDE DEF gone
<1>4. /\ Apart
      /\ statusMap' = [c \in Conns |-> IF c \in refused \cup gone THEN "closed" ELSE statusMap[c]]
      /\ \A c \in refused : statusMap[c] = "none"
  BY <1>1, <1>2, <1>3, SuspendStatus
<1>5. Service!Alive(s) = gone
  <2>1. \A c \in Conns : statusMap[c] \in {"accepted", "open"} <=> c \in Posted \cup Opened
    BY <1>4, StatusIs DEF Apart, Status
  <2>2. \A c \in Posted \cup UNION {sockets[t] : t \in Threads} : ServerOf[c] \in Pooled
    BY DEF PooledInv, Held, Posted
  <2>3. \A c \in Conns : ServerOf[c] = s /\ c \in Posted \cup Opened <=> c \in gone
    BY <1>1, <2>2 DEF Opened, gone, OfServer
  <2>4. gone \subseteq Conns
    BY DEF gone, OfServer, TypeOK
  <2>. QED
    BY <2>1, <2>3, <2>4 DEF Service!Alive
<1>6. phaseMap' = [phaseMap EXCEPT ![s] = "suspended"]
  <2>1. listening' = [listening EXCEPT ![s] = FALSE]
    BY <1>1 DEF stopListening
  <2>. QED
    BY <1>1, <2>1 DEF phaseMap, TypeOK
<1>7. refused \in SUBSET {c \in Conns : ServerOf[c] = s /\ statusMap[c] = "none"}
  BY <1>4 DEF OfServer, TypeOK
<1>. HIDE DEF refused
<1>8. Service!Suspend(s)
  BY <1>4, <1>5, <1>6, <1>7 DEF Service!Suspend
<1>. QED
  BY <1>8 DEF Implemented, Service!Next

(* resume() is the service's Resume.                                       *)
LEMMA ResumeImplements ==
    ASSUME TypeOK, OwnerInv, Apart', NEW s \in Servers, resume(s) PROVE Implemented
<1>1. /\ main.op = "idle"
      /\ UNCHANGED <<main, queue, sockets, fresh, backlog, rejected, mainSockets>>
      /\ \/ listening' = listening
         \/ ~ listening[s] /\ listening' = [listening EXCEPT ![s] = TRUE]
  BY DEF resume, threadVars, poolVars
<1>2. statusMap' = statusMap
  BY <1>1, OwnersApart, SamePosted, SameStatus DEF SamePlaces, Posted, Opened, Accepting
<1>3. CASE listening' = listening
  BY <1>1, <1>2, <1>3, SamePhase DEF Implemented
<1>4. CASE ~ listening[s] /\ listening' = [listening EXCEPT ![s] = TRUE]
  <2>1. phaseMap[s] = "suspended" /\ phaseMap' = [phaseMap EXCEPT ![s] = "listening"]
    BY <1>1, <1>4 DEF phaseMap, TypeOK
  <2>. QED
    BY <1>2, <2>1 DEF Implemented, Service!Next, Service!Resume
<1>. QED
  BY <1>1, <1>3, <1>4

(* suspend() returns: nothing of its server is alive any more.             *)
LEMMA AcquireImplements ==
    ASSUME TypeOK, MainInv, OwnerInv, SuspendInv, DropInv, Apart', acquireReadyThreads, UNCHANGED serverVars
    PROVE  Implemented
<1>1. /\ main.op = "wait" /\ readyThreads >= Len(queue) /\ main'.op = "idle" /\ main'.conn = None
      /\ main.conn = None /\ main.srv \in Pooled
      /\ UNCHANGED <<queue, sockets, fresh, backlog, rejected, mainSockets, listening>>
  BY IdleTyped DEF acquireReadyThreads, threadVars, serverVars, MainInv
<1>2. PICK s \in Servers : s = main.srv
  BY <1>1, ServerAssumption
<1>3. statusMap' = statusMap
  BY <1>1, OwnersApart, SamePosted, SameStatus DEF SamePlaces, Posted, Opened, Accepting
<1>4. ~ listening[s]
  BY <1>1, <1>2 DEF DropInv, SuspendInv, SuspendedEmpty
<1>5. phaseMap[s] = "suspending" /\ phaseMap' = [phaseMap EXCEPT ![s] = "suspended"]
  BY <1>1, <1>2, <1>4 DEF phaseMap
<1>6. Service!Alive(s) = {}
  <2>1. \A t \in Threads : OfServer(Held(t), s) = {}
    BY <1>1, <1>2, AllReleased DEF SuspendInv, PermitsCounted
  <2>2. \A c \in Posted \cup Opened : ServerOf[c] # s
    BY <1>1, <1>2, <2>1 DEF Posted, Opened, Held, OfServer, SuspendInv, PooledInv
  <2>3. \A c \in Conns : statusMap[c] \in {"accepted", "open"} => c \in Posted \cup Opened
    BY OwnersApart, StatusIs DEF Status
  <2>. QED
    BY <2>2, <2>3 DEF Service!Alive
<1>. QED
  BY <1>3, <1>5, <1>6 DEF Implemented, Service!Next, Service!Suspended

(* The remaining steps are internal: no client notices them.               *)
LEMMA InternalImplements ==
    ASSUME OwnerInv, Apart',
           UNCHANGED <<queue, sockets, rejected, mainSockets, listening>>,
           (fresh \cup backlog \cup Accepting)' = fresh \cup backlog \cup Accepting,
           main' = main \/ (main.op # "wait" /\ main'.op # "wait")
    PROVE  Implemented
BY OwnersApart, SamePosted, SameStatus, SamePhase DEF SamePlaces, Posted, Opened, Implemented

(* Every step is a step of the service or a stutter.                       *)
LEMMA StepImplements ==
    ASSUME TypeOK, MainInv, OwnerInv, SuspendInv, DropInv, ComingListens, Apart', Next PROVE Implemented
<1>1. ASSUME NEW c \in Conns, connect(c) \/ closeByClient(c) \/ mainLoop(c) PROVE Implemented
  <2>1. CASE connect(c)
    BY <2>1, InternalImplements DEF connect, threadVars, poolVars, Accepting
  <2>2. CASE closeByClient(c) \/ mainCallDelayed(c) \/ mainSendDelayedReply(c)
    BY <2>2, InternalImplements
    DEF closeByClient, mainCallDelayed, mainSendDelayedReply, poolVars, serverVars, Accepting
  <2>3. CASE incomingConnectionPooled(c)
    <3>1. /\ main.op = "idle" /\ main.conn = None /\ main'.op = "count" /\ main'.conn = c
          /\ c \in backlog /\ backlog' = backlog \ {c}
          /\ UNCHANGED <<queue, sockets, fresh, rejected, mainSockets, listening>>
      BY <2>3, MainFields DEF incomingConnectionPooled, MainInv, threadVars
    <3>2. (fresh \cup backlog \cup Accepting)' = fresh \cup backlog \cup Accepting
      BY <3>1, ThreadAssumption DEF Accepting
    <3>. QED
      BY <3>1, <3>2, InternalImplements
  <2>. QED
    BY <1>1, <2>1, <2>2, <2>3, AcceptMainImplements, ForgetImplements DEF mainLoop
<1>2. ASSUME NEW t \in Threads, worker(t) PROVE Implemented
  BY <1>2, WorkerImplements
<1>3. CASE mainStep
  <2>1. CASE (countThread \/ lookAtBusy) /\ UNCHANGED serverVars
    <3>1. main.op # "wait" /\ main'.op # "wait" /\ main'.conn = main.conn
      BY <2>1, LoopFields DEF countThread, lookAtBusy, TypeOK
    <3>2. UNCHANGED <<queue, sockets, fresh, backlog, rejected, mainSockets, listening, Accepting>>
      BY <2>1, <3>1 DEF countThread, lookAtBusy, threadVars, serverVars, Accepting
    <3>. QED
      BY <3>1, <3>2, InternalImplements
  <2>2. CASE waitForThreads /\ UNCHANGED serverVars
    <3>1. main.op = "quit" /\ main'.op = "ended" /\ main.conn = None /\ main'.conn = None
      BY <2>2, MainFields DEF waitForThreads, MainInv
    <3>2. UNCHANGED <<queue, sockets, fresh, backlog, rejected, mainSockets, listening, Accepting>>
      BY <2>2, <3>1 DEF waitForThreads, threadVars, serverVars, Accepting
    <3>. QED
      BY <3>1, <3>2, InternalImplements
  <2>3. CASE acceptPooled
    <3>1. main.op = "count" /\ main'.op = "choose" /\ main'.conn = main.conn
      BY <2>3, MainFields DEF acceptPooled, counted, handleIncomingConnectionInPool, MainInv
    <3>2. UNCHANGED <<queue, sockets, fresh, backlog, rejected, mainSockets, listening, Accepting>>
      BY <2>3, <3>1 DEF acceptPooled, threadVars, serverVars, Accepting
    <3>. QED
      BY <3>1, <3>2, InternalImplements
  <2>. QED
    BY <1>3, <2>1, <2>2, <2>3, GiveImplements, RejectImplements, AcquireImplements DEF mainStep, poolStep
<1>4. CASE application
  <2>1. ASSUME NEW n \in ThreadLimits, setMaxThreadCount(n), UNCHANGED serverVars PROVE Implemented
    BY <2>1, InternalImplements DEF setMaxThreadCount, threadVars, serverVars, Accepting
  <2>2. CASE destroyPool /\ UNCHANGED serverVars
    <3>1. main.op = "idle" /\ main'.op = "quit" /\ main.conn = None /\ main'.conn = None
      BY <2>2, MainFields DEF destroyPool, MainInv
    <3>2. Threads' = Threads /\ \A t \in Threads : Queued(t)' = Queued(t)
      BY <2>2, PostAllPosted, QuitInEvent DEF destroyPool, Quit, TypeOK, OwnerInv
    <3>3. SamePlaces
      BY <2>2, <3>1, <3>2 DEF SamePlaces, destroyPool, serverVars, Posted, Opened, Accepting
    <3>4. phaseMap' = phaseMap
      BY <2>2, <3>1, SamePhase DEF serverVars
    <3>. QED
      BY <3>3, <3>4, OwnersApart, SameStatus DEF Implemented
  <2>. QED
    BY <1>4, <2>1, <2>2, SuspendPooledImplements, SuspendMainImplements, ResumeImplements
    DEF application, SuspendInv
<1>5. CASE ended
  BY <1>5, InternalImplements DEF ended, vars, threadVars, poolVars, serverVars, Accepting
<1>. QED
  BY <1>1, <1>2, <1>3, <1>4, <1>5 DEF Next

(* The program starts as the service does.                                 *)
LEMMA InitImplements == Init => Service!Init
<1>. SUFFICES ASSUME Init PROVE Service!Init
  OBVIOUS
<1>1. Threads = {} /\ main.op = "idle" /\ fresh = Conns /\ listening = [s \in Servers |-> TRUE]
  BY IdleTyped DEF Init, Threads
<1>2. Apart
  BY InitOwner, OwnersApart
<1>3. statusMap = [c \in Conns |-> "none"]
  BY <1>1, <1>2, StatusIs DEF Status
<1>4. phaseMap = [s \in Servers |-> "listening"]
  BY <1>1 DEF phaseMap
<1>. QED
  BY <1>3, <1>4 DEF Service!Init

(* The servers, their threads and the queues between them do what          *)
(* KDSoapService promises to clients, for any number of each: a connection *)
(* is accepted only while its server listens, and closed for good; when    *)
(* suspend() returns none of its server's is left.                         *)
THEOREM ServiceImplemented == Spec => ImplementsService
<1>1. TypeOK /\ MainInv /\ OwnerInv /\ OwnerInv' /\ SuspendInv /\ DropInv /\ ComingListens /\ [Next]_vars =>
          [Service!Next]_<<statusMap, phaseMap>>
  <2>1. ASSUME OwnerInv, OwnerInv', UNCHANGED vars PROVE UNCHANGED <<statusMap, phaseMap>>
    <3>1. UNCHANGED <<queue, sockets, main, fresh, backlog, rejected, mainSockets, listening>>
      BY <2>1 DEF vars, threadVars, poolVars, serverVars
    <3>2. UNCHANGED <<Accepting, Posted, Opened>>
      BY <3>1, SamePosted DEF Accepting, Posted, Opened
    <3>. QED
      BY <3>1, <3>2 DEF statusMap, phaseMap
  <2>2. ASSUME TypeOK, MainInv, OwnerInv, OwnerInv', SuspendInv, DropInv, ComingListens, Next PROVE Implemented
    <3>1. OwnerInv' => Apart'
      BY OwnersApart, PTL
    <3>. QED
      BY <2>2, <3>1, StepImplements
  <2>. QED
    BY <2>1, <2>2 DEF Implemented
<1>. QED
  BY <1>1, InitImplements, TypeInductive, OwnerInductive, SuspendInductive, DropInductive, ComingInductive, PTL
  DEF Spec, ImplementsService, Service!Spec, Service!serviceVars
==================================================
