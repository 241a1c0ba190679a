-------------------------- MODULE AgentConnection --------------------------
(***************************************************************************)
(* How the Android agent keeps its relay WebSocket (ConnectionManager.kt,  *)
(* EpochGate.kt and the life cycle of AgentService.kt).                    *)
(*                                                                         *)
(* Threads: the main looper runs the heartbeat, the scheduled reconnects   *)
(* and the service's own calls one after another; OkHttp calls a socket's  *)
(* listener on a thread of that socket; Android announces networks on a    *)
(* third.  They share the volatile fields and the global AgentState.conn.  *)
(*                                                                         *)
(* An epoch matters only by being the current one, so gen[m] is the socket *)
(* whose listener has it.  Delays, the backoff and the commands that a     *)
(* socket carries are left out.  Bug_X operators are mistakes for the      *)
(* mutation runs, used nowhere else.                                       *)
(***************************************************************************)
EXTENDS Integers, FiniteSets

CONSTANTS
    Managers,    \* the ConnectionManagers that AgentService creates in turn
    Sockets,     \* bound: the sockets that exist at a time
    Configured,  \* values of "relay URL and token are set" at a connect
    Preempted,   \* bound: FALSE switches threads only between whole
                 \* callbacks and runnables
    MaxMishaps,  \* bound: failures, network changes and reconfigurations
    None

ASSUME AgentAssumption ==
    /\ IsFiniteSet(Sockets)
    /\ Configured \subseteq BOOLEAN /\ Configured # {}
    /\ Preempted \in BOOLEAN
    /\ MaxMishaps \in Nat
    /\ None \notin Sockets \cup Managers

VARIABLES
    life,      \* of a manager: new, running, stopped
    ws,        \* ConnectionManager.ws
    gen,       \* the socket whose listener has the current epoch
    retries,   \* reconnect runnables in the main looper's queue
    switch,    \* switchReconnect is in that queue
    watch,     \* the network callback is about to post it
    conn,      \* AgentState.conn
    main,      \* what the main looper is in the middle of: [pc, mgr]
    made,      \* the socket newWebSocket has just returned
    wire,      \* a socket: free, dialling, open, ended
    owner,     \* the manager that opened it
    shut,      \* sockets on which close() was called
    due,       \* the events whose callback has not yet returned
    cb,        \* program counter of the socket's listener
    mishaps

mgrVars  == <<life, ws, gen>>
queue    == <<retries, switch, watch>>
mainVars == <<main, made>>
sockVars == <<wire, owner, shut, due>>
vars     == <<mgrVars, queue, conn, mainVars, sockVars, cb, mishaps>>

Lives   == {"new", "running", "stopped"}
Conns   == {"IDLE", "CONNECTING", "CONNECTED", "DISCONNECTED"}
MainPCs == {"idle", "beating", "cancelling", "clearing", "connecting",
            "claiming", "dialling", "assigning"}
CbPCs   == {"none", "gating", "acting", "scheduling", "posting"}

Init ==
    /\ life = [m \in Managers |-> "new"]
    /\ ws = [m \in Managers |-> None] /\ gen = [m \in Managers |-> None]
    /\ retries = [m \in Managers |-> 0]
    /\ switch = [m \in Managers |-> FALSE] /\ watch = [m \in Managers |-> FALSE]
    /\ conn = "IDLE"
    /\ main = [pc |-> "idle", mgr |-> None] /\ made = None
    /\ wire = [s \in Sockets |-> "free"] /\ owner = [s \in Sockets |-> None]
    /\ shut = {} /\ due = [s \in Sockets |-> {}]
    /\ cb = [s \in Sockets |-> "none"]
    /\ mishaps = 0

Mishap == mishaps < MaxMishaps /\ mishaps' = mishaps + 1

CallbacksIdle == \A s \in Sockets : cb[s] = "none"

(* The looper takes its next runnable.                                     *)
LooperFree == main.pc = "idle" /\ (Preempted \/ CallbacksIdle)

At(pc, m) == main = [pc |-> pc, mgr |-> m]
Goto(pc, m) == main' = [pc |-> pc, mgr |-> m]
Idle == [pc |-> "idle", mgr |-> None]

-----------------------------------------------------------------------------
(* AgentService.                                                           *)

(* onCreate: a new manager is started, and connects at once.               *)
Create(m) ==
    /\ LooperFree
    /\ life[m] = "new"
    /\ \A n \in Managers : life[n] # "running"
    /\ life' = [life EXCEPT ![m] = "running"]
    /\ Goto("connecting", m)
    /\ UNCHANGED <<ws, gen, queue, conn, made, sockVars, cb, mishaps>>

(* onDestroy: the queue is emptied and the current socket asked to close.  *)
Closing(m) == {ws[m]} \ {None}

Destroy(m) ==
    /\ LooperFree
    /\ life[m] = "running"
    /\ life' = [life EXCEPT ![m] = "stopped"]
    /\ conn' = "IDLE"
    /\ retries' = [retries EXCEPT ![m] = 0]
    /\ switch' = [switch EXCEPT ![m] = FALSE]
    /\ shut' = shut \cup Closing(m)
    /\ UNCHANGED <<ws, gen, watch, mainVars, wire, owner, due, cb, mishaps>>

-----------------------------------------------------------------------------
(* Runnables of the main looper.                                           *)

(* The heartbeat reads the state twice.                                    *)
Heartbeat(m) ==
    /\ LooperFree
    /\ life[m] = "running"
    /\ conn # "CONNECTED"
    /\ Goto("beating", m)
    /\ UNCHANGED <<mgrVars, queue, conn, made, sockVars, cb, mishaps>>

Bug_BeatsIfIdle == conn = "IDLE"
Bug_BeatsAnyway == TRUE
Beats == conn # "CONNECTING"

Beat(m) ==
    /\ At("beating", m)
    /\ main' = IF Beats THEN [pc |-> "connecting", mgr |-> m] ELSE Idle
    /\ UNCHANGED <<mgrVars, queue, conn, made, sockVars, cb, mishaps>>

RetryNeeded == conn # "CONNECTED"

Retry(m) ==
    /\ LooperFree
    /\ retries[m] > 0
    /\ retries' = [retries EXCEPT ![m] = @ - 1]
    /\ main' = IF RetryNeeded THEN [pc |-> "connecting", mgr |-> m] ELSE Idle
    /\ UNCHANGED <<mgrVars, switch, watch, conn, made, sockVars, cb, mishaps>>

(* forceReconnect: a new epoch, then the old socket is cancelled.          *)
MayForce(m) == life[m] # "stopped"

ForceReconnect(m) ==
    IF MayForce(m)
      THEN gen' = [gen EXCEPT ![m] = None] /\ Goto("cancelling", m)
      ELSE UNCHANGED <<gen, main>>

SwitchNetwork(m) ==
    /\ LooperFree
    /\ switch[m]
    /\ switch' = [switch EXCEPT ![m] = FALSE]
    /\ ForceReconnect(m)
    /\ UNCHANGED <<life, ws, retries, watch, conn, made, sockVars, cb, mishaps>>

(* onStartCommand with "reconnect".                                        *)
Reconfigure(m) ==
    /\ LooperFree
    /\ life[m] = "running"
    /\ Mishap
    /\ ForceReconnect(m)
    /\ UNCHANGED <<life, ws, queue, conn, made, sockVars, cb>>

Live(s) == s # None /\ wire[s] \in {"dialling", "open"}

Ended(s) ==
    /\ wire' = [wire EXCEPT ![s] = "ended"]
    /\ due' = [due EXCEPT ![s] = @ \cup {"end"}]

Cancel(m) ==
    /\ At("cancelling", m)
    /\ IF Live(ws[m]) THEN Ended(ws[m]) ELSE UNCHANGED <<wire, due>>
    /\ Goto("clearing", m)
    /\ UNCHANGED <<mgrVars, queue, conn, made, owner, shut, cb, mishaps>>

Bug_ClearOnly(m) ==
    /\ At("clearing", m)
    /\ ws' = [ws EXCEPT ![m] = None]
    /\ main' = Idle
    /\ UNCHANGED <<life, gen, queue, conn, made, sockVars, cb, mishaps>>

Clear(m) ==
    /\ At("clearing", m)
    /\ ws' = [ws EXCEPT ![m] = None]
    /\ Goto("connecting", m)
    /\ UNCHANGED <<life, gen, queue, conn, made, sockVars, cb, mishaps>>

(* connectRelay: returns when stopped or not configured, else shows that   *)
(* it is connecting, claims an epoch, creates the socket, stores it.       *)
Bug_ConnectsWhenStopped(m) == TRUE
MayConnect(m) == life[m] # "stopped"

Unconfigured == "IDLE"

Connect(m) ==
    /\ At("connecting", m)
    /\ \/ ~MayConnect(m) /\ main' = Idle /\ UNCHANGED conn
       \/ MayConnect(m) /\ FALSE \in Configured /\ main' = Idle
          /\ conn' = Unconfigured
       \/ /\ MayConnect(m) /\ TRUE \in Configured
          /\ Goto("claiming", m) /\ conn' = "CONNECTING"
    /\ UNCHANGED <<mgrVars, queue, made, sockVars, cb, mishaps>>

Claim(m) ==
    /\ At("claiming", m)
    /\ gen' = [gen EXCEPT ![m] = None]
    /\ Goto("dialling", m)
    /\ UNCHANGED <<life, ws, queue, conn, made, sockVars, cb, mishaps>>

(* A socket that has ended makes room when its listener has nothing left   *)
(* to say, or is stale for good: each of its callbacks would return.       *)
Available(s) ==
    \/ wire[s] = "free"
    \/ /\ wire[s] = "ended" /\ cb[s] = "none"
       /\ due[s] = {} \/ gen[owner[s]] # s
       /\ \A m \in Managers : ws[m] # s

Dial(m, s) ==
    /\ At("dialling", m)
    /\ Available(s)
    /\ wire' = [wire EXCEPT ![s] = "dialling"]
    /\ owner' = [owner EXCEPT ![s] = m]
    /\ shut' = shut \ {s}
    /\ due' = [due EXCEPT ![s] = {}]
    /\ gen' = [gen EXCEPT ![m] = s]
    /\ made' = s
    /\ Goto("assigning", m)
    /\ UNCHANGED <<life, ws, queue, conn, cb, mishaps>>

Assign(m) ==
    /\ At("assigning", m)
    /\ ws' = [ws EXCEPT ![m] = made]
    /\ made' = None
    /\ main' = Idle
    /\ UNCHANGED <<life, gen, queue, conn, sockVars, cb, mishaps>>

-----------------------------------------------------------------------------
(* The network callback: another network while connected, or any while     *)
(* not, has switchReconnect posted.                                        *)
NetworkChanges(m) ==
    /\ life[m] = "running"
    /\ ~watch[m]
    /\ Mishap
    /\ watch' = [watch EXCEPT ![m] = TRUE]
    /\ UNCHANGED <<mgrVars, retries, switch, conn, mainVars, sockVars, cb>>

PostSwitch(m) ==
    /\ watch[m]
    /\ watch' = [watch EXCEPT ![m] = FALSE]
    /\ switch' = [switch EXCEPT ![m] = TRUE]
    /\ UNCHANGED <<mgrVars, retries, conn, mainVars, sockVars, cb, mishaps>>

-----------------------------------------------------------------------------
(* A socket's listener.                                                    *)

Event(s) == IF "open" \in due[s] THEN "open" ELSE "end"

Done(s) ==
    /\ due' = [due EXCEPT ![s] = @ \ {Event(s)}]
    /\ cb' = [cb EXCEPT ![s] = "none"]

Step(s, pc) == cb' = [cb EXCEPT ![s] = pc] /\ UNCHANGED due

(* stale(): is this the socket in ws, ...                                  *)
IsWs(s) == ws[owner[s]] = s

Begin(s) ==
    /\ cb[s] = "none"
    /\ due[s] # {}
    /\ Preempted \/ (main.pc = "idle" /\ CallbacksIdle)
    /\ IF IsWs(s) THEN Step(s, "gating") ELSE Done(s)
    /\ UNCHANGED <<mgrVars, queue, conn, mainVars, wire, owner, shut, mishaps>>

(* ... and does its listener have the current epoch?                       *)
IsCurrent(s) == gen[owner[s]] = s

Gate(s) ==
    /\ cb[s] = "gating"
    /\ IF IsCurrent(s) THEN Step(s, "acting") ELSE Done(s)
    /\ UNCHANGED <<mgrVars, queue, conn, mainVars, wire, owner, shut, mishaps>>

OnOpen(s) ==
    /\ cb[s] = "acting"
    /\ Event(s) = "open"
    /\ conn' = "CONNECTED"
    /\ Done(s)
    /\ UNCHANGED <<mgrVars, queue, mainVars, wire, owner, shut, mishaps>>

(* onFailure and onClosed: the state, then scheduleReconnect.              *)
OnEnd(s) ==
    /\ cb[s] = "acting"
    /\ Event(s) = "end"
    /\ conn' = "DISCONNECTED"
    /\ Step(s, "scheduling")
    /\ UNCHANGED <<mgrVars, queue, mainVars, wire, owner, shut, mishaps>>

Schedule(s) ==
    /\ cb[s] = "scheduling"
    /\ IF life[owner[s]] = "stopped" THEN Done(s) ELSE Step(s, "posting")
    /\ UNCHANGED <<mgrVars, queue, conn, mainVars, wire, owner, shut, mishaps>>

Bug_PostedTwice(m) == [retries EXCEPT ![m] = @ + 2]
Posted(m) == [retries EXCEPT ![m] = @ + 1]

Post(s) ==
    /\ cb[s] = "posting"
    /\ retries' = Posted(owner[s])
    /\ Done(s)
    /\ UNCHANGED <<mgrVars, switch, watch, conn, mainVars, wire, owner, shut,
                   mishaps>>

-----------------------------------------------------------------------------
(* The sockets: OkHttp, the network and the relay.                         *)

Opens(s) ==
    /\ wire[s] = "dialling"
    /\ wire' = [wire EXCEPT ![s] = "open"]
    /\ due' = [due EXCEPT ![s] = @ \cup {"open"}]
    /\ UNCHANGED <<mgrVars, queue, conn, mainVars, owner, shut, cb, mishaps>>

Fails(s) ==
    /\ Live(s)
    /\ Mishap
    /\ Ended(s)
    /\ UNCHANGED <<mgrVars, queue, conn, mainVars, owner, shut, cb>>

(* The closing handshake, or OkHttp's timeout for it.                      *)
Closes(s) ==
    /\ s \in shut
    /\ wire[s] = "open"
    /\ Ended(s)
    /\ UNCHANGED <<mgrVars, queue, conn, mainVars, owner, shut, cb, mishaps>>

(* The relay keeps one connection of a device: of two it closes one.  That *)
(* it is the one a running manager uses counts as a mishap.                *)
Superseded(s) ==
    /\ wire[s] = "open"
    /\ gen[owner[s]] # s \/ life[owner[s]] = "stopped"

Replaced(s) ==
    /\ wire[s] = "open"
    /\ \E t \in Sockets \ {s} : wire[t] = "open"
    /\ Superseded(s) \/ mishaps < MaxMishaps
    /\ mishaps' = IF Superseded(s) THEN mishaps ELSE mishaps + 1
    /\ Ended(s)
    /\ UNCHANGED <<mgrVars, queue, conn, mainVars, owner, shut, cb>>

-----------------------------------------------------------------------------
ConnectStep(m) ==
    \/ Beat(m) \/ Cancel(m) \/ Clear(m) \/ Connect(m) \/ Claim(m) \/ Assign(m)
    \/ \E s \in Sockets : Dial(m, s)

LooperStep(m) == Heartbeat(m) \/ Retry(m) \/ SwitchNetwork(m)

ListenerStep(s) ==
    \/ Begin(s) \/ Gate(s) \/ OnOpen(s) \/ OnEnd(s) \/ Schedule(s) \/ Post(s)

NetworkStep(s) == Opens(s) \/ Fails(s) \/ Closes(s) \/ Replaced(s)

Next ==
    \/ \E m \in Managers :
         \/ Create(m) \/ Destroy(m) \/ Reconfigure(m) \/ NetworkChanges(m)
         \/ PostSwitch(m) \/ LooperStep(m) \/ ConnectStep(m)
    \/ \E s \in Sockets : ListenerStep(s) \/ NetworkStep(s)

Spec == Init /\ [][Next]_vars

=============================================================================
