------------------------------ MODULE MCAgent ------------------------------
(* Instances of AgentConnection for TLC.                                   *)
EXTENDS AgentProps, TLC

CONSTANTS m1, m2, s1, s2, s3, s4

SocketSymmetry == Permutations(Sockets)
=============================================================================
