------------------------------ MODULE MCShell ------------------------------
(* Instances of ShellExec for TLC.                                         *)
EXTENDS ShellProps

CONSTANTS x, y

(* x writes packets that fit, packets over the cap, and ones whose length  *)
(* reads as a negative number.  y writes nothing and never ends by itself. *)
OneWrites == [c \in Cmds |-> IF c = x THEN {1, 3, 6} ELSE {}]
AllSilent == [c \in Cmds |-> {}]
=============================================================================
