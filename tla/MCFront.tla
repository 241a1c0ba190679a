------------------------------ MODULE MCFront ------------------------------
(* Values for the model checking of the relay's HTTP front.                *)
EXTENDS FrontProps, TLC

(* none, one above the maximum, one that overflows  *)
AllTimeouts == {0, 4, 6}

(* main_test.go:497-500 says that a timeoutMs over the maximum is capped.   *)
(* 4 is; 6 becomes negative before the comparison (main.go:184-186).        *)
ASSUME OverflowIsNotCapped ==
    /\ DefaultMs < 4 /\ TimeoutFor(4) = MaxTimeout
    /\ MaxMs < 6 /\ TimeoutFor(6) < 0

Alike == Permutations(Exchanges) \cup Permutations(Addresses)
=============================================================================
