---------------------------- MODULE MCKDSoapClient ----------------------------
(* Small instances of KDSoapClientInterface for TLC.                       *)
EXTENDS KDSoapClientInterface, TLC

CONSTANTS c1, c2

TwoCalls == {c1, c2}
OneAnswer == {[error |-> "none", data |-> "message"]}
SymmetricCalls == Permutations(Calls)
=============================================================================
