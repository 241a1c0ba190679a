---------------------------- MODULE AtomicCache ----------------------------
(***************************************************************************)
(* What the release cache keeps to: one durable release, replaced in one   *)
(* step by a greater one and shown again after a restart, without files,   *)
(* backups or failures.  Where the cache does not keep a release it should *)
(* keep, this module says so: Mistrust, and Commit with nothing shown.     *)
(***************************************************************************)
EXTENDS Integers

CONSTANTS Pointers,           \* the releases: [tag, apk, pre]
          Eligible,           \* <<release, option>>: it may be shown
          Greater,            \* <<release, what is shown>>: it may replace it
          None

VARIABLES
    durable,   \* the release on disk
    showing,   \* the release requests are given
    option,    \* whether prereleases may be shown
    doubt,     \* a failure has made the release on disk look unusable
    failures   \* those that happened so far

avars == <<durable, showing, option, doubt, failures>>

AInit ==
    /\ durable \in Pointers \cup {None}
    /\ showing = None
    /\ option \in BOOLEAN
    /\ doubt = FALSE
    /\ failures = 0

(* A process starts, or stops.                                             *)
Configure ==
    /\ showing = None
    /\ option' \in BOOLEAN
    /\ UNCHANGED <<durable, showing, doubt>>

Forget ==
    /\ showing' = None
    /\ doubt' = FALSE
    /\ UNCHANGED <<durable, option>>

Show ==
    /\ durable # None
    /\ <<durable, option>> \in Eligible
    /\ showing' = [tag |-> durable.tag, path |-> durable.apk]
    /\ UNCHANGED <<durable, option, doubt>>

(* A release is replaced by a greater one, as long as one is shown: with   *)
(* none shown the cache compares with nothing.                             *)
Commit(p) ==
    /\ showing # None => <<p, showing>> \in Greater
    /\ <<p, option>> \in Eligible
    /\ durable' = p
    /\ UNCHANGED <<showing, option, doubt>>

(* Only a failure casts doubt on a release, for a while.                   *)
Mistrust ==
    /\ durable # None
    /\ doubt' = TRUE
    /\ failures' = failures + 1
    /\ UNCHANGED <<durable, showing, option>>

Trust ==
    /\ doubt' = FALSE
    /\ UNCHANGED <<durable, showing, option>>

(* A release is given up for another one while it is in doubt, or if it    *)
(* may not be shown and nothing is.                                        *)
FallBack(p) ==
    /\ durable # None
    /\ doubt \/ (showing = None /\ <<durable, option>> \notin Eligible)
    /\ durable' = p
    /\ doubt' = FALSE
    /\ UNCHANGED <<showing, option>>

ANext ==
    /\ failures' \in {failures, failures + 1}
    /\ \/ Configure \/ Forget \/ Show \/ Mistrust \/ Trust
       \/ \E p \in Pointers : Commit(p) \/ FallBack(p)

Spec == AInit /\ [][ANext]_avars

-----------------------------------------------------------------------------
(* Whatever requests are given, a restart with the same option would show  *)
(* it again or something newer.                                            *)
Covered ==
    showing # None => /\ durable # None
                      /\ <<durable, option>> \in Eligible
                      /\ durable.tag >= showing.tag

=============================================================================
