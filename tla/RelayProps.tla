----------------------------- MODULE RelayProps -----------------------------
(***************************************************************************)
(* Fairness of the relay's goroutines and the properties of Relay.         *)
(***************************************************************************)
EXTENDS Relay

(* Fairness.  The Go scheduler runs every goroutine that can step; agents  *)
(* need not dial, callers need not call, and a peer owes nothing.  A       *)
(* silent peer is found stale at some tick, since lastSeen stays behind:   *)
(* the select may serve a tick first, so that fairness is strong; so is    *)
(* that of taking writeMu, for a Go mutex does not starve who waits.       *)

RelayFairness ==
    /\ \A c \in Conns :
         /\ WF_vars(HandlerStep(c)) /\ WF_vars(PingStep(c))
         /\ \A e \in Causes : WF_vars(DisconnectStep(c, e))
    /\ \A c \in Ticking : SF_vars(PingStale(c))
    /\ \A r \in Calls : WF_vars(CallStep(r)) /\ SF_vars(LockWrite(r))

(* The timer of a waiting call fires.                                      *)
Timers == \A r \in Calls : WF_vars(GiveUp(r, "timeout"))

(* A write to a peer that is up, now and then at least, completes: its     *)
(* kernel accepts the bytes.                                               *)
LiveWrites ==
    /\ \A c \in Ticking : SF_vars(net[c] = "up" /\ PingWritten(c))
    /\ \A r \in Calls :
         SF_vars(dev[r] \in Conns /\ net[dev[r]] = "up" /\ Written(r))

(* The stronger assumption that no write blocks for ever, whatever the     *)
(* peer does.  The relay sets no write deadline that would ensure it.      *)
AllWrites ==
    /\ \A c \in Ticking : WF_vars(PingWritten(c))
    /\ \A r \in Calls : WF_vars(Written(r))

FairSpec == Spec /\ RelayFairness /\ Timers /\ LiveWrites
TimerlessSpec == Spec /\ RelayFairness /\ LiveWrites

-----------------------------------------------------------------------------
(* Properties.                                                             *)

(* Every variable keeps its type.                                          *)
TypeOK ==
    /\ devices \in [IDs -> Conns \cup {None}]
    /\ active \in [IPs -> Nat]
    /\ sock \in [Conns -> {"unopened", "open", "closed"}]
    /\ net \in [Conns -> NetStates]
    /\ sent \in [Conns -> SUBSET Calls]
    /\ ran \in [Conns -> SUBSET Calls]
    /\ arrived \in [Conns -> SUBSET Calls]
    /\ attached \in [Conns -> BOOLEAN]
    /\ pending \in [Conns -> SUBSET Calls]
    /\ disc \in [Conns -> [Causes -> Stages]]
    /\ snap \in [Conns -> [Causes -> SUBSET Calls]]
    /\ oldConn \in [Conns -> BOOLEAN]
    /\ handler \in [Conns -> HandlerPCs]
    /\ old \in [Conns -> Conns \cup {None}]
    /\ frame \in [Conns -> Calls \cup {None}]
    /\ found \in [Conns -> Conns \cup {None}]
    /\ ping \in [Conns -> PingPCs]
    /\ call \in [Calls -> CallPCs]
    /\ dev \in [Calls -> Conns \cup {None}]
    /\ ch \in [Calls -> Answers \cup {"empty"}]
    /\ out \in [Calls -> Outcomes \cup {"none"}]

(* A device that is registered can be sent commands, and one that can be   *)
(* sent commands is registered unless its replacement or its end is under  *)
(* way: tearing an old connection down never unregisters its successor,    *)
(* and no device stays listed after its connection is gone.                *)
OwnsID(c) == devices[IDOf[c]] = c
Joined(c) == sock[c] # "unopened"

RegisteredIsAttached ==
    \A c \in Conns :
        /\ OwnsID(c) => attached[c]
        /\ attached[c] => \/ OwnsID(c)
                          \/ disc[c]["replaced"] \in {"peek", "unregister", "detach"}
                          \/ disc[c]["disconnected"] = "detach"

(* A call that still has to wait for an answer is known to its device, or  *)
(* has an answer in its channel, or is about to be notified: no teardown   *)
(* leaves a caller waiting for its timer.                                  *)
InFlight(r) == call[r] \in {"admitted", "writing", "waiting"}

Reachable(r) ==
    \/ attached[dev[r]] /\ r \in pending[dev[r]]
    \/ ch[r] # "empty"
    \/ \E e \in Causes : r \in snap[dev[r]][e]

NoStrandedCaller == \A r \in Calls : InFlight(r) => Reachable(r)

(* What a device's map holds: calls of this device that have not returned, *)
(* never more than the cap, and nothing once the device is detached.       *)
PendingIsOwn ==
    \A c \in Conns :
        /\ Cardinality(pending[c]) <= MaxPending
        /\ ~attached[c] => pending[c] = {}
        /\ \A r \in pending[c] : dev[r] = c /\ (InFlight(r) \/ call[r] = "leaving")

(* The slots counted for an address are those its handlers hold, so no     *)
(* path out of HandleAgent leaks a slot or gives one back twice.           *)
Holds(c) == handler[c] \notin {"idle", "done"}

Holders(a) == {c \in Conns : IPOf[c] = a /\ Holds(c)}

SlotsExact ==
    \A a \in IPs : active[a] = Cardinality(Holders(a)) /\ active[a] <= MaxConnsPerIP

(* Only a command that was run is answered with a result; a caller told    *)
(* that its device was replaced, or is gone, was on such a connection.     *)
AnswersAreTrue ==
    \A r \in Calls :
        /\ out[r] = "result" => r \in ran[dev[r]]
        /\ out[r] = "replaced" => disc[dev[r]]["replaced"] # "idle"
        /\ out[r] = "disconnected" => ~attached[dev[r]]

(* A handler that has given its slot back left nothing behind: its socket  *)
(* is closed, its device is unregistered and detached, every waiter of the *)
(* closing teardown was told.                                              *)
CleanExit ==
    \A c \in Conns :
        handler[c] = "done" => /\ sock[c] # "open"
                               /\ ~OwnsID(c) /\ ~attached[c]
                               /\ snap[c]["disconnected"] = {}

(* A result the agent sent reaches the channel of a caller that still      *)
(* waits for it, unless the connection it came in on is being given up:    *)
(* resolveResult looks the device up by id, and what it finds may be a     *)
(* newer connection's Device or none at all.                               *)
GivenUp(c) == \E e \in Causes : disc[c][e] # "idle"

NoResultLost ==
    [][\A c \in Conns, r \in Calls :
         /\ frame[c] = r /\ frame'[c] = None
         /\ InFlight(r) /\ ch[r] = "empty"
         => ch'[r] = "result" \/ GivenUp(c)]_vars

(* A device is torn down once per cause, in order and to the end: a second *)
(* closeConn, or a second newer connection, starts nothing over.           *)
Successor ==
    [replaced     |-> [idle |-> "peek", peek |-> "unregister",
                       unregister |-> "detach", detach |-> "notify",
                       notify |-> "finished", finished |-> "finished"],
     disconnected |-> [idle |-> "unregister", peek |-> "peek",
                       unregister |-> "detach", detach |-> "notify",
                       notify |-> "finished", finished |-> "finished"]]

TeardownsRunOnce ==
    [][\A c \in Conns, e \in Causes :
         disc'[c][e] \in {disc[c][e], Successor[e][disc[c][e]]}]_vars

(* Once nothing is left to be done for a detached device its socket is     *)
(* closed, so no write and no reader stays blocked on it: if the newer     *)
(* handler's unlocked read of old.conn saw nil, closeConn closes it.       *)
Underway(c, e) == disc[c][e] \notin {"idle", "finished"}

DetachedIsClosed ==
    \A c \in Conns :
        Joined(c) /\ ~attached[c]
            => sock[c] = "closed" \/ \E e \in Causes : Underway(c, e)

(* Nobody waits in vain: a teardown under way is being run, by the one     *)
(* handler that replaced the device or by a goroutine of the connection    *)
(* itself, and whoever waits for a teardown waits for one that was begun.  *)
Replacers(c) == {d \in Conns : handler[d] = "replacing" /\ old[d] = c}

TeardownsAreRun ==
    \A c \in Conns :
        /\ Underway(c, "replaced") => \E d \in Conns : Replacers(c) = {d}
        /\ Underway(c, "disconnected") => handler[c] = "closing" \/ ping[c] = "stopped"
        /\ Replacers(c) # {} => disc[c]["replaced"] # "idle"
        /\ handler[c] = "closing" => disc[c]["disconnected"] # "idle"

(* Both halves of what the sync.Once and the unlocked read of old.conn     *)
(* could break: no teardown is left half done, and none that is done       *)
(* leaves its socket open.                                                 *)
TeardownsComplete == TeardownsAreRun /\ DetachedIsClosed

(* A replaced connection is wound up, and its address gets the slot back.  *)
ReplacedIsReleased ==
    \A c \in Conns : disc[c]["replaced"] # "idle" ~> handler[c] = "done"

(* A caller whose device is torn down returns without its timer, even if   *)
(* it was stuck in a write: the teardown tells it, or breaks the write.    *)
TornDownCallReturns ==
    \A r \in Calls :
        InFlight(r) /\ ~attached[dev[r]] ~> call[r] = "returned"

(* Exec returns: "blocks until the result arrives, the timeout elapses     *)
(* (plus a grace period for the round trip), or ctx is cancelled"          *)
(* (registry.go:203-205).                                                  *)
ExecReturns ==
    \A r \in Calls : call[r] # "idle" ~> call[r] = "returned"

(* So it does where no write blocks for ever: every other wait of a call   *)
(* is cut short by its timer or by what the relay itself does.             *)
BoundedExec == Timers /\ AllWrites => ExecReturns

(* "missing ~2.5 ping cycles means the socket is half-open, so terminate   *)
(* it and let the agent redial" (ws.go:205-206).                           *)
StaleIsDropped ==
    \A c \in Ticking :
        handler[c] = "reading" /\ net[c] = "stalled"
            ~> net[c] # "stalled" \/ handler[c] = "done"

(* And so it is where no write blocks for ever: nothing but a blocked ping *)
(* keeps the goroutine that would notice from its next tick.               *)
BoundedStale == AllWrites => StaleIsDropped

-----------------------------------------------------------------------------
(* The inductive invariant: how far a device's teardowns have come decides *)
(* whether it is registered, attached and closed, and where its callers    *)
(* are to be found.                                                        *)

Past == {"notify", "finished"}

TornDown(c) ==
    /\ ~Joined(c) => /\ ~attached[c] /\ ~OwnsID(c)
                     /\ \A e \in Causes : disc[c][e] = "idle"
    /\ handler[c] \in {"idle", "upgrading"} => ~Joined(c)
    /\ handler[c] \notin {"idle", "upgrading", "done"} => Joined(c)
    /\ ping[c] # "off" => Joined(c)
    /\ Joined(c) => (attached[c] <=> \A e \in Causes : disc[c][e] \notin Past)
    /\ OwnsID(c) => /\ disc[c]["replaced"] = "idle"
                    /\ disc[c]["disconnected"] \in {"idle", "unregister"}
    /\ Joined(c) /\ ~OwnsID(c) =>
          \/ disc[c]["replaced"] # "idle"
          \/ disc[c]["disconnected"] \in {"detach"} \cup Past
    /\ disc[c]["disconnected"] # "peek"
    /\ disc[c]["disconnected"] = "finished" => sock[c] = "closed"
    /\ handler[c] = "done" => ~Joined(c) \/ disc[c]["disconnected"] = "finished"
    /\ \A e \in Causes : snap[c][e] # {} => disc[c][e] = "notify"

KeyedByID == \A i \in IDs : devices[i] # None => IDOf[devices[i]] = i

TeardownInv == KeyedByID /\ \A c \in Conns : TornDown(c)

(* Where a call's id can be found, given how far the call has come.        *)
Placed(r) ==
    /\ dev[r] = None => call[r] \in {"idle", "returned"}
    /\ call[r] = "idle" => dev[r] = None
    /\ dev[r] # None => Joined(dev[r])
    /\ call[r] \in {"idle", "resolved"} \/ InFlight(r) => out[r] = "none"

Holding(c) ==
    /\ ~attached[c] => pending[c] = {}
    /\ \A r \in pending[c] : dev[r] = c /\ (InFlight(r) \/ call[r] = "leaving")
    /\ \A e \in Causes : \A r \in snap[c][e] : dev[r] = c
    /\ \A r \in sent[c] : /\ dev[r] = c
                          /\ call[r] \in {"waiting", "leaving", "returned"}
                          /\ out[r] \notin {"too_many", "send_failed"}

WhereaboutsInv ==
    /\ \A r \in Calls : Placed(r)
    /\ \A c \in Conns : Holding(c)

(* Every answer on its way has its reason.                                 *)
Delivering(c) ==
    /\ ran[c] \subseteq sent[c] /\ arrived[c] \subseteq ran[c]
    /\ frame[c] # None => frame[c] \in ran[c]
    /\ handler[c] \in {"getting", "looking", "sending"} => frame[c] # None
    /\ handler[c] = "looking" => found[c] # None
    /\ handler[c] = "replacing" => old[c] # None

Justified(r) ==
    /\ dev[r] = None => ch[r] = "empty" /\ out[r] \notin Answers
    /\ ch[r] = "result" \/ out[r] = "result" => r \in ran[dev[r]]
    /\ \A e \in Causes : ch[r] = e => disc[dev[r]][e] \in Past
    /\ out[r] = "replaced" => disc[dev[r]]["replaced"] \in Past
    /\ out[r] = "disconnected" => ~attached[dev[r]]

AnswerInv ==
    /\ \A c \in Conns : Delivering(c)
    /\ \A r \in Calls : Justified(r)

CapInv == \A c \in Conns : Cardinality(pending[c]) <= MaxPending

(* Who has begun which teardown, and what the two racing ones, of a newer  *)
(* connection and of the device's own, leave to each other.                *)
Closing(c) ==
    /\ found[c] \notin {None, c} => GivenUp(c)
    /\ disc[c]["replaced"] \in {"unregister", "detach", "notify"} /\ ~oldConn[c]
          => disc[c]["disconnected"] \in Past
    /\ disc[c]["replaced"] = "finished"
          => sock[c] = "closed" \/ disc[c]["disconnected"] = "notify"
    /\ handler[c] = "closing" => disc[c]["disconnected"] # "idle"
    /\ disc[c]["disconnected"] # "idle"
          => handler[c] \in {"closing", "done"} \/ ping[c] = "stopped"
    /\ handler[c] \in {"idle", "upgrading", "replacing"} => ping[c] = "off"

Replacing(c) ==
    /\ old[c] # None => disc[old[c]]["replaced"] # "idle"
    /\ \A d \in Conns : old[c] # None /\ old[c] = old[d] => c = d
    /\ Underway(c, "replaced") => Replacers(c) # {}

DutyInv == \A c \in Conns : Closing(c) /\ Replacing(c)

IInv == /\ TypeOK /\ TeardownInv /\ WhereaboutsInv /\ NoStrandedCaller
        /\ AnswerInv /\ CapInv /\ SlotsExact /\ DutyInv

-----------------------------------------------------------------------------
(* What the relay promises its callers (CommandService), implemented.      *)
Ended == [c \in Conns |-> {e \in Causes : disc[c][e] # "idle"}]

Service == INSTANCE CommandService WITH
    owner   <- devices,
    ended   <- Ended,
    session <- dev,
    answer  <- out

RefinesService == Service!Spec

(* What follows for callers from the service alone.                        *)
CommandsRunOnce == Service!RunOnce
HandOversAreFinal == Service!FinalHandOver
=============================================================================
