---------------------------- MODULE KDSoapService ----------------------------
(***************************************************************************)
(* What the servers of a process promise to their clients, without threads *)
(* or queues: a connection is accepted only while its server listens,      *)
(* becomes open, and is closed for good; a suspended server has none.      *)
(* KDSoapServer implements it.                                             *)
(***************************************************************************)
CONSTANTS Servers, Conns, ServerOf

VARIABLES
    status,  \* of each connection
    phase    \* of each server

serviceVars == <<status, phase>>

Alive(s) == {c \in Conns : ServerOf[c] = s /\ status[c] \in {"accepted", "open"}}

Init ==
    /\ status = [c \in Conns |-> "none"]
    /\ phase = [s \in Servers |-> "listening"]

Accept(c) ==
    /\ status[c] = "none"
    /\ phase[ServerOf[c]] = "listening"
    /\ \E st \in {"accepted", "open", "rejected"} : status' = [status EXCEPT ![c] = st]
    /\ UNCHANGED phase

Open(c) ==
    /\ status[c] = "accepted"
    /\ status' = [status EXCEPT ![c] = "open"]
    /\ UNCHANGED phase

(* The client left, the server is suspended or the process ends.           *)
Close(C) ==
    /\ \A c \in C : status[c] = "open"
    /\ status' = [c \in Conns |-> IF c \in C THEN "closed" ELSE status[c]]
    /\ UNCHANGED phase

(* Clients the kernel had let in but the server had not accepted are       *)
(* turned away.  Without worker threads all is closed at once, otherwise   *)
(* closing takes a while.                                                  *)
Suspend(s) ==
    \E refused \in SUBSET {c \in Conns : ServerOf[c] = s /\ status[c] = "none"} :
        \E atOnce \in BOOLEAN :
            LET gone == IF atOnce THEN refused \cup Alive(s) ELSE refused IN
            /\ status' = [c \in Conns |-> IF c \in gone THEN "closed" ELSE status[c]]
            /\ phase' = [phase EXCEPT ![s] = IF atOnce THEN "suspended" ELSE "suspending"]

Suspended(s) ==
    /\ phase[s] = "suspending"
    /\ Alive(s) = {}
    /\ phase' = [phase EXCEPT ![s] = "suspended"]
    /\ UNCHANGED status

Resume(s) ==
    /\ phase[s] = "suspended"
    /\ phase' = [phase EXCEPT ![s] = "listening"]
    /\ UNCHANGED status

Next ==
    \/ \E c \in Conns : Accept(c) \/ Open(c)
    \/ \E C \in SUBSET Conns : Close(C)
    \/ \E s \in Servers : Suspend(s) \/ Suspended(s) \/ Resume(s)

Spec == Init /\ [][Next]_serviceVars
=============================================================================
