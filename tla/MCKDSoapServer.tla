---------------------------- MODULE MCKDSoapServer ----------------------------
(* Small instances of KDSoapServer for TLC.                                *)
EXTENDS KDSoapServer, TLC

CONSTANTS s1, s2, c1, c2, c3, c4

(* One service with a thread pool.                                         *)
OneServer == {s1}
TwoConns == {c1, c2}
FourConns == {c1, c2, c3, c4}
AllToFirst == [c \in Conns |-> s1]
ThreeConns == {c1, c2, c3}
AtMostOne == [s \in Servers |-> 1]

(* Two services; c3 and c4, or all but c1, go to the second one.           *)
TwoServers == {s1, s2}
FirstAlone == [c \in Conns |-> IF c = c1 THEN s1 ELSE s2]
LastToSecond == [c \in Conns |-> IF c \in {c1, c2} THEN s1 ELSE s2]
SecondAtMostOne == [s \in Servers |-> IF s = s2 THEN 1 ELSE -1]
Unlimited == [s \in Servers |-> -1]

(* Connections to the same server are interchangeable.                     *)
SymmetricConns == {p \in Permutations(Conns) : \A c \in Conns : ServerOf[p[c]] = ServerOf[c]}
=============================================================================
