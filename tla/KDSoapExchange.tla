---------------------------- MODULE KDSoapExchange ----------------------------
(***************************************************************************)
(* What a connection promises to a client that waits for its replies:      *)
(* requests are handled one after the other and each gets one reply,       *)
(* eventually.  Only numbers of requests matter.                           *)
(***************************************************************************)
EXTENDS Naturals

VARIABLES asked, handled, answered

vars == <<asked, handled, answered>>

Init == asked = 0 /\ handled = 0 /\ answered = 0

Ask ==
    /\ asked = answered
    /\ asked' = asked + 1
    /\ UNCHANGED <<handled, answered>>

(* A request is handled, and answered at once or later.                    *)
Handle ==
    /\ handled < asked
    /\ handled' = handled + 1
    /\ answered' \in {answered, answered + 1}
    /\ UNCHANGED asked

AnswerLater ==
    /\ answered < handled
    /\ answered' = answered + 1
    /\ UNCHANGED <<asked, handled>>

Next == Ask \/ Handle \/ AnswerLater

Safety == Init /\ [][Next]_vars

Spec == Safety /\ WF_vars(Handle) /\ WF_vars(AnswerLater)
=============================================================================
