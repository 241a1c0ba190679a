------------------------------ MODULE MCRelay ------------------------------
(* Instances of Relay for TLC.                                             *)
EXTENDS RelayProps, TLC

CONSTANTS c1, c2, c3, r1, r2, A, B, ip

(* An agent that redials, and one other device, behind one address.        *)
OneID    == [c \in Conns |-> A]
TwoIDs   == [c \in Conns |-> IF c = c3 THEN B ELSE A]
OneIP    == [c \in Conns |-> ip]

(* c1 and c2 have the same id and address, r1 and r2 are alike.            *)
BothSymmetries == Permutations({c1, c2}) \cup Permutations(Calls)
=============================================================================
