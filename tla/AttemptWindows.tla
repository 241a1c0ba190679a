--------------------------- MODULE AttemptWindows ---------------------------
(***************************************************************************)
(* What the limiter of consent attempts promises, without its map: an      *)
(* address opens a window with its first attempt, which is always let      *)
(* through; Quota attempts get through in a window, which lasts Window     *)
(* seconds from its first attempt whatever is tried in between.            *)
(***************************************************************************)
EXTENDS Integers

CONSTANTS
    Addresses,
    Quota,   \* attempts that get through in a window
    Window,  \* how long a window stays open
    Shut     \* no window

VARIABLES
    now,     \* the clock
    window,  \* of an address: since when it is open, attempts let through
    barred   \* the last attempt of the address was refused

wvars == <<now, window, barred>>

Init ==
    /\ now \in Nat
    /\ window = [a \in Addresses |-> Shut]
    /\ barred = [a \in Addresses |-> FALSE]

First(a) ==
    /\ window[a] = Shut
    /\ window' = [window EXCEPT ![a] = [since |-> now, admitted |-> 1]]
    /\ barred' = [barred EXCEPT ![a] = FALSE]
    /\ UNCHANGED now

Further(a) ==
    /\ window[a] # Shut
    /\ window[a].admitted < Quota
    /\ window' = [window EXCEPT ![a].admitted = @ + 1]
    /\ barred' = [barred EXCEPT ![a] = FALSE]
    /\ UNCHANGED now

Refused(a) ==
    /\ window[a] # Shut
    /\ window[a].admitted = Quota
    /\ barred' = [barred EXCEPT ![a] = TRUE]
    /\ UNCHANGED <<now, window>>

(* A window is open for the Window seconds after the one it was opened in. *)
Tick ==
    /\ now' = now + 1
    /\ window' = [a \in Addresses |->
                    IF window[a] # Shut /\ window[a].since + Window < now'
                      THEN Shut ELSE window[a]]
    /\ UNCHANGED barred

(* A restart forgets all windows.                                          *)
Restart ==
    /\ window' = [a \in Addresses |-> Shut]
    /\ barred' = [a \in Addresses |-> FALSE]
    /\ UNCHANGED now

Next ==
    \/ \E a \in Addresses : First(a) \/ Further(a) \/ Refused(a)
    \/ Tick
    \/ Restart

Spec == Init /\ [][Next]_wvars
=============================================================================
