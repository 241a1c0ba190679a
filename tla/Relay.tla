------------------------------- MODULE Relay -------------------------------
(***************************************************************************)
(* The relay's device registry and agent sockets                           *)
(* (server/internal/relay/registry.go and ws.go).                          *)
(*                                                                         *)
(* A connection is one WebSocket from an Android agent together with the   *)
(* Device struct, the handler goroutine (registerAgentPing's body, which   *)
(* is also the reader) and the ping goroutine made for it.  A call is one  *)
(* Registry.Exec and the random reqId it draws.  Goroutines interleave at  *)
(* every critical section, channel operation and socket operation.         *)
(*                                                                         *)
(* Time is abstract: a timer may fire whenever its goroutine waits on it.  *)
(* Operators named Bug_X are mistakes a change to the code could make; no  *)
(* definition uses them, and the mutation runs put them in the place of    *)
(* the definition that follows.                                            *)
(***************************************************************************)
EXTENDS Integers, FiniteSets

CONSTANTS
    Conns,          \* the connections agents will open, each at most once
    Calls,          \* the Exec calls, each issued at most once
    IDs,            \* device ids
    IPs,            \* remote addresses
    IDOf,           \* the deviceId query parameter of each connection
    IPOf,           \* the remote address of each connection
    MaxPending,     \* maxPendingPerDevice
    MaxConnsPerIP,  \* maxConnsPerIP
    NetStates,      \* bound: what peers do, a subset of AllNetStates
    Ticking,        \* bound: the connections that live until a ping tick;
                    \* only their peers fail
    None

AllNetStates == {"up", "stalled", "reset"}

ASSUME ConstAssumption ==
    /\ IsFiniteSet(Conns) /\ IsFiniteSet(Calls)
    /\ IDOf \in [Conns -> IDs]
    /\ IPOf \in [Conns -> IPs]
    /\ MaxPending \in Nat \ {0}
    /\ MaxConnsPerIP \in Nat \ {0}
    /\ "up" \in NetStates /\ NetStates \subseteq AllNetStates
    /\ Ticking \subseteq Conns
    /\ None \notin Conns \cup Calls \cup IDs

VARIABLES
    devices,   \* Registry.devices: the connection registered for an id
    active,    \* AgentConnLimiter.active: slots taken per address
    sock,      \* the server side of the socket: unopened, open, closed
    net,       \* what the peer does: up, stalled (half-open), reset
    sent,      \* exec frames written to the agent
    ran,       \* the commands the agent ran and answered
    arrived,   \* result frames received and not yet read
    attached,  \* Device.conn is not nil
    pending,   \* Device.pending: the calls with a channel in the map
    disc,      \* progress of Registry.disconnect on a device, per cause
    snap,      \* the channels that disconnect has still to notify
    oldConn,   \* the replacing handler read a non-nil old.conn
    handler,   \* program counter of the handler goroutine
    old,       \* the Device that reg.add returned to the handler
    frame,     \* the reqId of the result frame the handler is delivering
    found,     \* the Device resolveResult found for it
    ping,      \* program counter of the ping goroutine
    call,      \* program counter of the Exec call
    dev,       \* the Device the call resolved
    ch,        \* the call's 1-buffered result channel
    out        \* what the call returned

netVars  == <<sock, net, sent, ran, arrived>>
discVars == <<disc, snap, oldConn>>
readVars == <<old, frame, found>>
callVars == <<call, dev, ch, out>>
vars == <<devices, active, netVars, attached, pending, discVars, handler,
          readVars, ping, callVars>>

(***************************************************************************)
(* The two errors Registry.disconnect is called with: by the handler of a  *)
(* newer connection, and by closeConn of the connection itself.            *)
(***************************************************************************)
Causes == {"replaced", "disconnected"}

Stages == {"idle", "peek", "unregister", "detach", "notify", "finished"}
Answers == {"result"} \cup Causes
Outcomes == Answers \cup {"no_device", "ambiguous", "not_found", "too_many",
                          "send_failed", "timeout", "cancelled"}
HandlerPCs == {"idle", "upgrading", "replacing", "reading",
               "getting", "looking", "sending", "closing", "done"}
PingPCs == {"off", "waiting", "locking", "writing", "stopped"}
CallPCs == {"idle", "resolved", "admitted", "writing", "waiting", "leaving",
            "returned"}

Init ==
    /\ devices  = [i \in IDs |-> None]
    /\ active   = [a \in IPs |-> 0]
    /\ sock     = [c \in Conns |-> "unopened"]
    /\ net      = [c \in Conns |-> "up"]
    /\ sent     = [c \in Conns |-> {}]
    /\ ran      = [c \in Conns |-> {}]
    /\ arrived  = [c \in Conns |-> {}]
    /\ attached = [c \in Conns |-> FALSE]
    /\ pending  = [c \in Conns |-> {}]
    /\ disc     = [c \in Conns |-> [e \in Causes |-> "idle"]]
    /\ snap     = [c \in Conns |-> [e \in Causes |-> {}]]
    /\ oldConn  = [c \in Conns |-> FALSE]
    /\ handler  = [c \in Conns |-> "idle"]
    /\ old      = [c \in Conns |-> None]
    /\ frame    = [c \in Conns |-> None]
    /\ found    = [c \in Conns |-> None]
    /\ ping     = [c \in Conns |-> "off"]
    /\ call     = [r \in Calls |-> "idle"]
    /\ dev      = [r \in Calls |-> None]
    /\ ch       = [r \in Calls |-> "empty"]
    /\ out      = [r \in Calls |-> "none"]

-----------------------------------------------------------------------------
(* HandleAgent: token check, per-address slot, upgrade, registration.      *)

(* 401 for a wrong token, 429 when the address has no slot left.           *)
Refuse(c) ==
    /\ handler[c] = "idle"
    /\ \E tokenOK \in BOOLEAN : tokenOK => active[IPOf[c]] >= MaxConnsPerIP
    /\ handler' = [handler EXCEPT ![c] = "done"]
    /\ UNCHANGED <<devices, active, netVars, attached, pending, discVars,
                   readVars, ping, callVars>>

Acquire(c) ==
    /\ handler[c] = "idle"
    /\ active[IPOf[c]] < MaxConnsPerIP
    /\ active' = [active EXCEPT ![IPOf[c]] = @ + 1]
    /\ handler' = [handler EXCEPT ![c] = "upgrading"]
    /\ UNCHANGED <<devices, netVars, attached, pending, discVars, readVars,
                   ping, callVars>>

Bug_NotReleased(a) == a
ReleaseSlot(a) == IF a <= 1 THEN 0 ELSE a - 1

UpgradeFails(c) ==
    /\ handler[c] = "upgrading"
    /\ active' = [active EXCEPT ![IPOf[c]] = ReleaseSlot(@)]
    /\ handler' = [handler EXCEPT ![c] = "done"]
    /\ UNCHANGED <<devices, netVars, attached, pending, discVars, readVars,
                   ping, callVars>>

(* Registry.add puts the new Device in, whatever was there.                *)
Added(c) == [devices EXCEPT ![IDOf[c]] = c]

(* Upgraded, the connection's Device is added to the registry.             *)
Install(c) ==
    /\ handler[c] = "upgrading"
    /\ sock' = [sock EXCEPT ![c] = "open"]
    /\ devices' = Added(c)
    /\ attached' = [attached EXCEPT ![c] = TRUE]
    /\ old' = [old EXCEPT ![c] = devices[IDOf[c]]]
    /\ UNCHANGED <<active, net, sent, ran, arrived, pending, snap, oldConn,
                   frame, found, callVars>>

Register(c) ==
    /\ devices[IDOf[c]] = None
    /\ Install(c)
    /\ handler' = [handler EXCEPT ![c] = "reading"]
    /\ ping' = [ping EXCEPT ![c] = "waiting"]
    /\ UNCHANGED disc

(* The Device it replaces is disconnected before the handler serves.       *)
Replace(c) ==
    /\ devices[IDOf[c]] # None
    /\ Install(c)
    /\ handler' = [handler EXCEPT ![c] = "replacing"]
    /\ disc' = [disc EXCEPT ![devices[IDOf[c]]]["replaced"] = "peek"]
    /\ UNCHANGED ping

(* oldConn := old.conn reads the field without its mutex: once the device  *)
(* is detached, either value may be seen.                                  *)
Bug_SeenTooLate(c) == {FALSE}
Seen(c) == IF attached[c] THEN {TRUE} ELSE BOOLEAN

Peek(c) ==
    /\ disc[c]["replaced"] = "peek"
    /\ \E seen \in Seen(c) : oldConn' = [oldConn EXCEPT ![c] = seen]
    /\ disc' = [disc EXCEPT ![c]["replaced"] = "unregister"]
    /\ UNCHANGED <<devices, active, netVars, attached, pending, snap, handler,
                   readVars, ping, callVars>>

Serve(c) ==
    /\ handler[c] = "replacing"
    /\ disc[old[c]]["replaced"] = "finished"
    /\ handler' = [handler EXCEPT ![c] = "reading"]
    /\ ping' = [ping EXCEPT ![c] = "waiting"]
    /\ UNCHANGED <<devices, active, netVars, attached, pending, discVars,
                   readVars, callVars>>

-----------------------------------------------------------------------------
(* Registry.disconnect(d, cause), then closing the socket.                 *)

(* Only the registered connection gives up the id.                         *)
Bug_AlwaysUnregisters(c) == TRUE
StillCurrent(c) == devices[IDOf[c]] = c

Unregister(c, e) ==
    /\ disc[c][e] = "unregister"
    /\ devices' = IF StillCurrent(c) THEN [devices EXCEPT ![IDOf[c]] = None]
                                     ELSE devices
    /\ disc' = [disc EXCEPT ![c][e] = "detach"]
    /\ UNCHANGED <<active, netVars, attached, pending, snap, oldConn, handler,
                   readVars, ping, callVars>>

Bug_ResetFirst(c) == {}
Waiters(c) == pending[c]

Bug_ConnKept(c) == attached
Detached(c) == [attached EXCEPT ![c] = FALSE]

Detach(c, e) ==
    /\ disc[c][e] = "detach"
    /\ snap' = [snap EXCEPT ![c][e] = Waiters(c)]
    /\ pending' = [pending EXCEPT ![c] = {}]
    /\ attached' = Detached(c)
    /\ disc' = [disc EXCEPT ![c][e] = "notify"]
    /\ UNCHANGED <<devices, active, netVars, oldConn, handler, readVars, ping,
                   callVars>>

(* A non-blocking send: a full buffer keeps what it holds.                 *)
Offer(r, v) == ch' = [ch EXCEPT ![r] = IF @ = "empty" THEN v ELSE @]

Notify(c, e, r) ==
    /\ disc[c][e] = "notify"
    /\ r \in snap[c][e]
    /\ Offer(r, e)
    /\ snap' = [snap EXCEPT ![c][e] = @ \ {r}]
    /\ UNCHANGED <<devices, active, netVars, attached, pending, disc, oldConn,
                   handler, readVars, ping, call, dev, out>>

(* All told, conn.Close() follows; a nil oldConn is left alone.            *)
CloseSocket(c, e) ==
    /\ disc[c][e] = "notify"
    /\ snap[c][e] = {}
    /\ sock' = IF e = "replaced" /\ ~oldConn[c]
                 THEN sock ELSE [sock EXCEPT ![c] = "closed"]
    /\ disc' = [disc EXCEPT ![c][e] = "finished"]
    /\ UNCHANGED <<devices, active, net, sent, ran, arrived, attached, pending,
                   snap, oldConn, handler, readVars, ping, callVars>>

(* closeConn: the Once lets the first caller close(done) and disconnect.   *)
CloseOnce(c) ==
    disc' = IF disc[c]["disconnected"] = "idle"
              THEN [disc EXCEPT ![c]["disconnected"] = "unregister"] ELSE disc

-----------------------------------------------------------------------------
(* The reader: ReadMessage, then resolveResult.                            *)

(* A frame already buffered can be read even after the socket is closed.   *)
ReadFrame(c, r) ==
    /\ handler[c] = "reading"
    /\ r \in arrived[c]
    /\ arrived' = [arrived EXCEPT ![c] = @ \ {r}]
    /\ frame' = [frame EXCEPT ![c] = r]
    /\ handler' = [handler EXCEPT ![c] = "getting"]
    /\ UNCHANGED <<devices, active, sock, net, sent, ran, attached, pending,
                   discVars, old, found, ping, callVars>>

(* resolveResult returns; its variables go with it.                        *)
ReadOn(c) ==
    /\ frame' = [frame EXCEPT ![c] = None]
    /\ handler' = [handler EXCEPT ![c] = "reading"]

(* The device is looked up by id, so it may be a newer connection's.       *)
GetDevice(c) ==
    /\ handler[c] = "getting"
    /\ devices[IDOf[c]] # None
    /\ found' = [found EXCEPT ![c] = devices[IDOf[c]]]
    /\ handler' = [handler EXCEPT ![c] = "looking"]
    /\ UNCHANGED <<devices, active, netVars, attached, pending, discVars, old,
                   frame, ping, callVars>>

DeviceGone(c) ==
    /\ handler[c] = "getting"
    /\ devices[IDOf[c]] = None
    /\ ReadOn(c)
    /\ UNCHANGED <<devices, active, netVars, attached, pending, discVars, old,
                   found, ping, callVars>>

FindChannel(c) ==
    /\ handler[c] = "looking"
    /\ frame[c] \in pending[found[c]]
    /\ found' = [found EXCEPT ![c] = None]
    /\ handler' = [handler EXCEPT ![c] = "sending"]
    /\ UNCHANGED <<devices, active, netVars, attached, pending, discVars, old,
                   frame, ping, callVars>>

NoChannel(c) ==
    /\ handler[c] = "looking"
    /\ frame[c] \notin pending[found[c]]
    /\ found' = [found EXCEPT ![c] = None]
    /\ ReadOn(c)
    /\ UNCHANGED <<devices, active, netVars, attached, pending, discVars, old,
                   ping, callVars>>

SendResult(c) ==
    /\ handler[c] = "sending"
    /\ Offer(frame[c], "result")
    /\ ReadOn(c)
    /\ UNCHANGED <<devices, active, netVars, attached, pending, discVars, old,
                   found, ping, call, dev, out>>

Broken(c) == sock[c] = "closed" \/ net[c] = "reset"

(* The read fails on a broken socket, or on a frame over maxReadLimit.     *)
ReadFails(c) ==
    /\ handler[c] = "reading"
    /\ Broken(c) \/ arrived[c] # {}
    /\ CloseOnce(c)
    /\ handler' = [handler EXCEPT ![c] = "closing"]
    /\ UNCHANGED <<devices, active, netVars, attached, pending, snap, oldConn,
                   readVars, ping, callVars>>

(* closeConn returns when the Once has run, whoever runs it.               *)
Bug_OnceNotAwaited(c) == disc[c]["disconnected"] # "idle"
OnceDone(c) == disc[c]["disconnected"] = "finished"

(* The deferred limiter.release.                                           *)
Release(c) ==
    /\ handler[c] = "closing"
    /\ OnceDone(c)
    /\ active' = [active EXCEPT ![IPOf[c]] = ReleaseSlot(@)]
    /\ handler' = [handler EXCEPT ![c] = "done"]
    /\ UNCHANGED <<devices, netVars, attached, pending, discVars, readVars,
                   ping, callVars>>

-----------------------------------------------------------------------------
(* The ping goroutine.  writeMu is held by whoever is writing.             *)

Bug_KeptOnError(c) ==
    \/ ping[c] \in {"writing", "stopped"}
    \/ \E r \in Calls : dev[r] = c /\ call[r] = "writing"
WriteLocked(c) ==
    \/ ping[c] = "writing"
    \/ \E r \in Calls : dev[r] = c /\ call[r] = "writing"

(* No frame has been read for more than 2.5 ping periods.  A peer that is  *)
(* up answers the pings, which refreshes lastSeen.                         *)
Bug_NoStaleCheck(c) == sock[c] = "closed"
Silent(c) == net[c] # "up" \/ sock[c] = "closed"

PingStale(c) ==
    /\ c \in Ticking
    /\ ping[c] = "waiting"
    /\ Silent(c)
    /\ CloseOnce(c)
    /\ ping' = [ping EXCEPT ![c] = "stopped"]
    /\ UNCHANGED <<devices, active, netVars, attached, pending, snap, oldConn,
                   handler, readVars, callVars>>

PingTick(c) ==
    /\ c \in Ticking
    /\ ping[c] = "waiting"
    /\ ping' = [ping EXCEPT ![c] = "locking"]
    /\ UNCHANGED <<devices, active, netVars, attached, pending, discVars,
                   handler, readVars, callVars>>

PingLock(c) ==
    /\ ping[c] = "locking"
    /\ ~WriteLocked(c)
    /\ ping' = [ping EXCEPT ![c] = "writing"]
    /\ UNCHANGED <<devices, active, netVars, attached, pending, discVars,
                   handler, readVars, callVars>>

PingWritten(c) ==
    /\ ping[c] = "writing"
    /\ ~Broken(c)
    /\ ping' = [ping EXCEPT ![c] = "waiting"]
    /\ UNCHANGED <<devices, active, netVars, attached, pending, discVars,
                   handler, readVars, callVars>>

PingFails(c) ==
    /\ ping[c] = "writing"
    /\ Broken(c)
    /\ CloseOnce(c)
    /\ ping' = [ping EXCEPT ![c] = "stopped"]
    /\ UNCHANGED <<devices, active, netVars, attached, pending, snap, oldConn,
                   handler, readVars, callVars>>

PingStops(c) ==
    /\ ping[c] = "waiting"
    /\ disc[c]["disconnected"] # "idle"
    /\ ping' = [ping EXCEPT ![c] = "stopped"]
    /\ UNCHANGED <<devices, active, netVars, attached, pending, discVars,
                   handler, readVars, callVars>>

-----------------------------------------------------------------------------
(* Registry.Exec.                                                          *)

Registered == {i \in IDs : devices[i] # None}

(* The ids an argument can mean: the named one, or (None) every one.       *)
Matching(target) ==
    IF target = None THEN Registered ELSE Registered \cap {target}

ResolveError(target) ==
    IF target # None THEN "not_found"
    ELSE IF Registered = {} THEN "no_device" ELSE "ambiguous"

Resolve(r, target) ==
    /\ call[r] = "idle"
    /\ \E i \in IDs : /\ Matching(target) = {i}
                      /\ dev' = [dev EXCEPT ![r] = devices[i]]
    /\ call' = [call EXCEPT ![r] = "resolved"]
    /\ UNCHANGED <<devices, active, netVars, attached, pending, discVars,
                   handler, readVars, ping, ch, out>>

ResolveFails(r, target) ==
    /\ call[r] = "idle"
    /\ \A i \in IDs : Matching(target) # {i}
    /\ out' = [out EXCEPT ![r] = ResolveError(target)]
    /\ call' = [call EXCEPT ![r] = "returned"]
    /\ UNCHANGED <<devices, active, netVars, attached, pending, discVars,
                   handler, readVars, ping, dev, ch>>

Bug_ConnUnchecked(c) == TRUE
Accepting(c) == attached[c]

Bug_CapOffByOne(c) == Cardinality(pending[c]) <= MaxPending
HasRoom(c) == Cardinality(pending[c]) < MaxPending

Admit(r) ==
    /\ call[r] = "resolved"
    /\ Accepting(dev[r])
    /\ HasRoom(dev[r])
    /\ pending' = [pending EXCEPT ![dev[r]] = @ \cup {r}]
    /\ call' = [call EXCEPT ![r] = "admitted"]
    /\ UNCHANGED <<devices, active, netVars, attached, discVars, handler,
                   readVars, ping, dev, ch, out>>

(* The device was detached since resolve, or its map is full.              *)
Reject(r) ==
    /\ call[r] = "resolved"
    /\ \/ /\ ~Accepting(dev[r])
          /\ out' = [out EXCEPT ![r] = "disconnected"]
       \/ /\ Accepting(dev[r])
          /\ ~HasRoom(dev[r])
          /\ out' = [out EXCEPT ![r] = "too_many"]
    /\ call' = [call EXCEPT ![r] = "returned"]
    /\ UNCHANGED <<devices, active, netVars, attached, pending, discVars,
                   handler, readVars, ping, dev, ch>>

LockWrite(r) ==
    /\ call[r] = "admitted"
    /\ ~WriteLocked(dev[r])
    /\ call' = [call EXCEPT ![r] = "writing"]
    /\ UNCHANGED <<devices, active, netVars, attached, pending, discVars,
                   handler, readVars, ping, dev, ch, out>>

(* WriteJSON has handed the frame to the kernel; it reaches the agent.     *)
Written(r) ==
    /\ call[r] = "writing"
    /\ ~Broken(dev[r])
    /\ sent' = [sent EXCEPT ![dev[r]] = @ \cup {r}]
    /\ call' = [call EXCEPT ![r] = "waiting"]
    /\ UNCHANGED <<devices, active, sock, net, ran, arrived, attached,
                   pending, discVars, handler, readVars, ping, dev, ch, out>>

Leave(r, outcome) ==
    /\ out' = [out EXCEPT ![r] = outcome]
    /\ call' = [call EXCEPT ![r] = "leaving"]

WriteFails(r) ==
    /\ call[r] = "writing"
    /\ Broken(dev[r])
    /\ Leave(r, "send_failed")
    /\ UNCHANGED <<devices, active, netVars, attached, pending, discVars,
                   handler, readVars, ping, dev, ch>>

(* The three arms of the select.                                           *)
Bug_Retried(r) ==
    /\ call[r] = "waiting"
    /\ ch[r] # "empty"
    /\ IF ch[r] = "replaced" /\ devices[IDOf[dev[r]]] # None
         THEN /\ dev' = [dev EXCEPT ![r] = devices[IDOf[dev[r]]]]
              /\ call' = [call EXCEPT ![r] = "resolved"]
              /\ UNCHANGED out
         ELSE Leave(r, ch[r]) /\ UNCHANGED dev
    /\ ch' = [ch EXCEPT ![r] = "empty"]
    /\ UNCHANGED <<devices, active, netVars, attached, pending, discVars,
                   handler, readVars, ping>>
Receive(r) ==
    /\ call[r] = "waiting"
    /\ ch[r] # "empty"
    /\ Leave(r, ch[r])
    /\ ch' = [ch EXCEPT ![r] = "empty"]
    /\ UNCHANGED <<devices, active, netVars, attached, pending, discVars,
                   handler, readVars, ping, dev>>

GiveUp(r, outcome) ==
    /\ call[r] = "waiting"
    /\ outcome \in {"timeout", "cancelled"}
    /\ Leave(r, outcome)
    /\ UNCHANGED <<devices, active, netVars, attached, pending, discVars,
                   handler, readVars, ping, dev, ch>>

(* The deferred delete(d.pending, reqID).                                  *)
Return(r) ==
    /\ call[r] = "leaving"
    /\ pending' = [pending EXCEPT ![dev[r]] = @ \ {r}]
    /\ call' = [call EXCEPT ![r] = "returned"]
    /\ UNCHANGED <<devices, active, netVars, attached, discVars, handler,
                   readVars, ping, dev, ch, out>>

-----------------------------------------------------------------------------
(* The network and the agent, as ws.go meets them.                         *)

(* The peer goes silent without closing, comes back, or closes.            *)
NetChange(c, v) ==
    /\ c \in Ticking
    /\ sock[c] = "open"
    /\ net[c] # "reset"
    /\ v # net[c]
    /\ net' = [net EXCEPT ![c] = v]
    /\ UNCHANGED <<devices, active, sock, sent, ran, arrived, attached,
                   pending, discVars, handler, readVars, ping, callVars>>

(* The agent runs the command and answers on the socket it came in on.     *)
AgentReply(c, r) ==
    /\ r \in sent[c] \ ran[c]
    /\ sock[c] = "open"
    /\ net[c] = "up"
    /\ ran' = [ran EXCEPT ![c] = @ \cup {r}]
    /\ arrived' = [arrived EXCEPT ![c] = @ \cup {r}]
    /\ UNCHANGED <<devices, active, sock, net, sent, attached, pending,
                   discVars, handler, readVars, ping, callVars>>

-----------------------------------------------------------------------------
(* The goroutines' steps.  Dialling, calling and the completion of a write *)
(* are kept apart: the relay's scheduler does not make them happen.        *)

Dial(c) == Refuse(c) \/ Acquire(c)

HandlerStep(c) ==
    \/ UpgradeFails(c) \/ Register(c) \/ Replace(c) \/ Serve(c)
    \/ \E r \in Calls : ReadFrame(c, r)
    \/ GetDevice(c) \/ DeviceGone(c) \/ FindChannel(c) \/ NoChannel(c)
    \/ SendResult(c)
    \/ ReadFails(c) \/ Release(c)

DisconnectStep(c, e) ==
    \/ e = "replaced" /\ Peek(c)
    \/ Unregister(c, e) \/ Detach(c, e) \/ CloseSocket(c, e)
    \/ \E r \in Calls : Notify(c, e, r)

PingStep(c) ==
    \/ PingStale(c) \/ PingTick(c) \/ PingLock(c) \/ PingFails(c)
    \/ PingStops(c)

CallStep(r) ==
    \/ Admit(r) \/ Reject(r) \/ LockWrite(r) \/ WriteFails(r)
    \/ Receive(r) \/ Return(r)

EnvStep(c) ==
    \/ \E v \in NetStates : NetChange(c, v)
    \/ \E r \in Calls : AgentReply(c, r)

Next ==
    \/ \E c \in Conns :
         \/ Dial(c) \/ HandlerStep(c) \/ PingStep(c) \/ PingWritten(c)
         \/ EnvStep(c)
         \/ \E e \in Causes : DisconnectStep(c, e)
    \/ \E r \in Calls :
         \/ \E target \in IDs \cup {None} :
              Resolve(r, target) \/ ResolveFails(r, target)
         \/ CallStep(r) \/ Written(r)
         \/ \E outcome \in {"timeout", "cancelled"} : GiveUp(r, outcome)

Spec == Init /\ [][Next]_vars

=============================================================================
