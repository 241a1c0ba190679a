----------------------------- MODULE RateLimiter -----------------------------
(***************************************************************************)
(* The limiter of requests per remote address: rateLimiter.limited of the  *)
(* public server's downloads (publicserver/main.go).  The consent page's   *)
(* rateLimited (oauth.go) is the same code with other numbers; OAuth       *)
(* instantiates this module for it.                                        *)
(*                                                                         *)
(* Bug_X operators are mistakes for the mutation runs, used nowhere else.  *)
(***************************************************************************)
EXTENDS Integers, FiniteSets

CONSTANTS
    Addresses,   \* the keys of the map
    Limit,       \* perHour, or 10
    Window,      \* 3600, or 300
    Threshold,   \* cleanupThreshold, or 1000
    CleanEvery,  \* 60, or 30
    Absent       \* an address without an entry

VARIABLES
    hits,        \* the map
    lastCleanup  \* when old entries were last looked for

Entries == [count : Nat \ {0}, resetAt : Int]

LimiterInit ==
    /\ hits = [a \in Addresses |-> Absent]
    /\ lastCleanup = 0

(* !ok || e.resetAt < now                                                  *)
NoWindow(a, t) == hits[a] = Absent \/ hits[a].resetAt < t

Limited(a, t) == ~NoWindow(a, t) /\ hits[a].count + 1 > Limit

Opened(a, t) == [hits EXCEPT ![a] = [count |-> 1, resetAt |-> t + Window]]

CleanupDue(table, t) ==
    /\ Cardinality({b \in Addresses : table[b] # Absent}) > Threshold
    /\ t - lastCleanup > CleanEvery

Bug_SweepsAtReset(table, t) ==
    [b \in Addresses |-> IF table[b] # Absent /\ table[b].resetAt <= t
                           THEN Absent ELSE table[b]]
Swept(table, t) ==
    [b \in Addresses |-> IF table[b] # Absent /\ table[b].resetAt < t
                           THEN Absent ELSE table[b]]

(* One call of limited at time t.                                          *)
Hit(a, t) ==
    IF NoWindow(a, t)
      THEN IF CleanupDue(Opened(a, t), t)
             THEN hits' = Swept(Opened(a, t), t) /\ lastCleanup' = t
             ELSE hits' = Opened(a, t) /\ UNCHANGED lastCleanup
      ELSE hits' = [hits EXCEPT ![a].count = @ + 1] /\ UNCHANGED lastCleanup
=============================================================================
