----------------------------- MODULE RelayProofs -----------------------------
(***************************************************************************)
(* Proofs about Relay, for every choice of its constants.                  *)
(***************************************************************************)
EXTENDS RelayProps, FiniteSetTheorems, TLAPS

(* Every variable keeps its type: in particular no slot count is negative  *)
(* and no goroutine follows a device that does not exist.                  *)
LEMMA TypeInit == Init => TypeOK
BY ConstAssumption DEF Init, TypeOK, HandlerPCs, PingPCs, CallPCs, Stages,
   Answers, Outcomes, Causes, ConstAssumption

(* No step of a goroutine takes a variable out of its type.                *)
LEMMA TypeStep == TypeOK /\ [Next]_vars => TypeOK'
<1> SUFFICES ASSUME TypeOK, [Next]_vars PROVE TypeOK'
  OBVIOUS
<1> USE ConstAssumption DEF TypeOK, ConstAssumption
<1>1. ASSUME NEW c \in Conns, Dial(c) PROVE TypeOK'
  <2>1. CASE Refuse(c)
    BY <2>1 DEF Refuse, HandlerPCs, netVars, discVars, readVars, callVars
  <2>2. CASE Acquire(c)
    <3>1. IPOf[c] \in IPs /\ active[IPOf[c]] + 1 \in Nat
      OBVIOUS
    <3> QED BY <2>2, <3>1 DEF Acquire, HandlerPCs, netVars, discVars, readVars, callVars
  <2> QED BY <1>1, <2>1, <2>2 DEF Dial
<1>2. ASSUME NEW c \in Conns, HandlerStep(c) PROVE TypeOK'
  <2>1. CASE UpgradeFails(c)
    BY <2>1 DEF UpgradeFails, ReleaseSlot, HandlerPCs, netVars, discVars, readVars, callVars
  <2>2. CASE Register(c)
    BY <2>2 DEF Register, Install, Added, HandlerPCs, PingPCs, callVars
  <2>a. CASE Replace(c)
    <3>1. devices[IDOf[c]] \in Conns
      BY <2>a DEF Replace
    <3> QED BY <2>a, <3>1 DEF Replace, Install, Added, HandlerPCs, Causes, Stages, callVars
  <2>3. CASE Serve(c)
    BY <2>3 DEF Serve, HandlerPCs, PingPCs, netVars, discVars, readVars, callVars
  <2>4. ASSUME NEW r \in Calls, ReadFrame(c, r) PROVE TypeOK'
    BY <2>4 DEF ReadFrame, HandlerPCs, discVars, callVars
  <2>5. CASE GetDevice(c)
    BY <2>5 DEF GetDevice, HandlerPCs, netVars, discVars, callVars
  <2>b. CASE DeviceGone(c)
    BY <2>b DEF DeviceGone, ReadOn, HandlerPCs, netVars, discVars, callVars
  <2>6. CASE FindChannel(c)
    BY <2>6 DEF FindChannel, HandlerPCs, netVars, discVars, callVars
  <2>c. CASE NoChannel(c)
    BY <2>c DEF NoChannel, ReadOn, HandlerPCs, netVars, discVars, callVars
  <2>7. CASE SendResult(c)
    BY <2>7 DEF SendResult, ReadOn, Offer, HandlerPCs, Answers, netVars, discVars
  <2>8. CASE ReadFails(c)
    BY <2>8 DEF ReadFails, CloseOnce, HandlerPCs, Causes, Stages, netVars, readVars, callVars
  <2>9. CASE Release(c)
    BY <2>9 DEF Release, ReleaseSlot, HandlerPCs, netVars, discVars, readVars, callVars
  <2> QED BY <1>2, <2>1, <2>2, <2>3, <2>4, <2>5, <2>6, <2>7, <2>8, <2>9,
         <2>a, <2>b, <2>c DEF HandlerStep
<1>3. ASSUME NEW c \in Conns, PingStep(c) \/ PingWritten(c) PROVE TypeOK'
  <2>1. CASE PingStale(c)
    BY <2>1 DEF PingStale, CloseOnce, PingPCs, Causes, Stages, netVars, readVars, callVars
  <2>3. CASE PingFails(c)
    BY <2>3 DEF PingFails, CloseOnce, PingPCs, Causes, Stages, netVars, readVars, callVars
  <2>2. CASE PingTick(c) \/ PingLock(c) \/ PingStops(c) \/ PingWritten(c)
    <3>1. ping' \in [Conns -> PingPCs]
      <4>1. ASSUME NEW v \in PingPCs, ping' = [ping EXCEPT ![c] = v]
            PROVE  ping' \in [Conns -> PingPCs]
        BY <4>1
      <4> QED BY <2>2, <4>1 DEF PingTick, PingLock, PingStops, PingWritten, PingPCs
    <3>2. UNCHANGED <<devices, active, netVars, attached, pending, discVars, handler,
                      readVars, callVars>>
      BY <2>2 DEF PingTick, PingLock, PingStops, PingWritten
    <3> QED BY <3>1, <3>2 DEF netVars, discVars, readVars, callVars
  <2> QED BY <1>3, <2>1, <2>2, <2>3 DEF PingStep
<1>4. ASSUME NEW c \in Conns, EnvStep(c) PROVE TypeOK'
  <2>1. ASSUME NEW v \in NetStates, NetChange(c, v) PROVE TypeOK'
    BY <2>1 DEF NetChange, discVars, readVars, callVars
  <2>2. ASSUME NEW r \in Calls, AgentReply(c, r) PROVE TypeOK'
    BY <2>2 DEF AgentReply, discVars, readVars, callVars
  <2> QED BY <1>4, <2>1, <2>2 DEF EnvStep
<1>5. ASSUME NEW c \in Conns, NEW e \in Causes, DisconnectStep(c, e) PROVE TypeOK'
  <2>1. CASE Peek(c)
    <3>1. oldConn' \in [Conns -> BOOLEAN]
      <4>1. PICK seen \in BOOLEAN : oldConn' = [oldConn EXCEPT ![c] = seen]
        BY <2>1 DEF Peek, Seen
      <4> QED BY <4>1
    <3>2. disc' \in [Conns -> [Causes -> Stages]]
      BY <2>1 DEF Peek, Causes, Stages
    <3> QED BY <2>1, <3>1, <3>2 DEF Peek, netVars, readVars, callVars
  <2>2. CASE Unregister(c, e)
    BY <2>2 DEF Unregister, StillCurrent, Stages, netVars, readVars, callVars
  <2>3. CASE Detach(c, e)
    BY <2>3 DEF Detach, Waiters, Detached, Stages, netVars, readVars, callVars
  <2>4. ASSUME NEW r \in Calls, Notify(c, e, r) PROVE TypeOK'
    BY <2>4 DEF Notify, Offer, Answers, Causes, netVars, readVars
  <2>5. CASE CloseSocket(c, e)
    BY <2>5 DEF CloseSocket, Stages, readVars, callVars
  <2> QED BY <1>5, <2>1, <2>2, <2>3, <2>4, <2>5 DEF DisconnectStep
<1>6. ASSUME NEW r \in Calls, NEW t \in IDs \cup {None},
             Resolve(r, t) \/ ResolveFails(r, t)
      PROVE TypeOK'
  <2>1. CASE Resolve(r, t)
    <3>1. ASSUME NEW i \in IDs, Matching(t) = {i} PROVE devices[i] \in Conns
      <4>1. Matching(t) \subseteq Registered
        BY Zenon DEF Matching
      <4>2. i \in Registered
        BY <3>1, <4>1, Zenon
      <4> QED BY <4>2 DEF Registered
    <3> QED BY <2>1, <3>1 DEF Resolve, CallPCs, netVars, discVars, readVars
  <2>2. CASE ResolveFails(r, t)
    <3>1. ResolveError(t) \in Outcomes
      BY DEF ResolveError, Outcomes
    <3> QED BY <2>2, <3>1 DEF ResolveFails, CallPCs, netVars, discVars, readVars
  <2> QED BY <1>6, <2>1, <2>2
<1>7. ASSUME NEW r \in Calls, CallStep(r) \/ Written(r) PROVE TypeOK'
  <2>1. CASE Admit(r)
    BY <2>1 DEF Admit, CallPCs, netVars, discVars, readVars
  <2>2. CASE Reject(r)
    BY <2>2 DEF Reject, CallPCs, Outcomes, Answers, Causes, netVars, discVars, readVars
  <2>3. CASE LockWrite(r)
    BY <2>3 DEF LockWrite, CallPCs, netVars, discVars, readVars
  <2>4. CASE WriteFails(r)
    BY <2>4 DEF WriteFails, Leave, CallPCs, Outcomes, netVars, discVars, readVars
  <2>5. CASE Receive(r)
    BY <2>5 DEF Receive, Leave, CallPCs, Outcomes, netVars, discVars, readVars
  <2>6. CASE Return(r)
    BY <2>6 DEF Return, CallPCs, netVars, discVars, readVars
  <2>7. CASE Written(r)
    BY <2>7 DEF Written, CallPCs, discVars, readVars
  <2> QED BY <1>7, <2>1, <2>2, <2>3, <2>4, <2>5, <2>6, <2>7 DEF CallStep
<1>8. ASSUME NEW r \in Calls, NEW o \in {"timeout", "cancelled"}, GiveUp(r, o)
      PROVE TypeOK'
  BY <1>8 DEF GiveUp, Leave, CallPCs, Outcomes, netVars, discVars, readVars
<1>9. CASE UNCHANGED vars
  BY <1>9 DEF vars, netVars, discVars, readVars, callVars
<1> HIDE DEF TypeOK
<1> QED BY <1>1, <1>2, <1>3, <1>4, <1>5, <1>6, <1>7, <1>8, <1>9 DEF Next

(* Every reachable state of the relay is of its type.                      *)
THEOREM TypeCorrect == Spec => []TypeOK
<1>1. TypeOK /\ [Next]_vars => TypeOK'
  BY TypeStep
<1> QED BY TypeInit, <1>1, PTL DEF Spec

-----------------------------------------------------------------------------
(* The teardown invariant.  Steps that touch neither the registry nor a    *)
(* teardown cannot disturb it.                                             *)

TeardownVars == <<sock, attached, devices, disc, handler, snap, ping>>

(* Before any agent dials, no device is registered or attached.            *)
LEMMA TeardownInit == Init => TeardownInv
BY ConstAssumption DEF Init, TeardownInv, KeyedByID, TornDown, Joined, OwnsID, Causes, Past,
   ConstAssumption

(* closeConn only moves a connection's own teardown from idle on.          *)
LEMMA CloseOnceTornDown ==
    ASSUME NEW c \in Conns, NEW d \in Conns, TypeOK, TornDown(d), Joined(c),
           CloseOnce(c), UNCHANGED <<sock, attached, devices, snap>>,
           handler'[d] = handler[d] \/ (d = c /\ handler'[d] = "closing"),
           ping'[d] = ping[d] \/ d = c
    PROVE  TornDown(d)'
<1> USE DEF TypeOK, TornDown, Joined, OwnsID, Causes, Past, Stages, CloseOnce
<1>1. CASE d # c
  <2>1. disc'[d] = disc[d]
    BY <1>1
  <2> QED BY <1>1, <2>1
<1>2. CASE d = c /\ disc[c]["disconnected"] # "idle"
  <2>1. disc' = disc
    BY <1>2
  <2> QED BY <1>2, <2>1
<1>3. CASE d = c /\ disc[c]["disconnected"] = "idle"
  <2>1. /\ disc'[c]["disconnected"] = "unregister"
        /\ disc'[c]["replaced"] = disc[c]["replaced"]
    BY <1>3
  <2> QED BY <1>3, <2>1
<1> QED BY <1>1, <1>2, <1>3

(* A device is only ever registered under its own id.                      *)
LEMMA KeyedStep == TypeOK /\ KeyedByID /\ [Next]_vars => KeyedByID'
<1> SUFFICES ASSUME TypeOK, KeyedByID, [Next]_vars PROVE KeyedByID'
  OBVIOUS
<1>1. CASE devices' = devices
  BY <1>1 DEF KeyedByID
<1>2. ASSUME NEW c \in Conns, devices' = [devices EXCEPT ![IDOf[c]] = c]
      PROVE KeyedByID'
  BY <1>2, ConstAssumption DEF ConstAssumption, TypeOK, KeyedByID
<1>3. ASSUME NEW c \in Conns, devices' = [devices EXCEPT ![IDOf[c]] = None]
      PROVE KeyedByID'
  BY <1>3, ConstAssumption DEF ConstAssumption, TypeOK, KeyedByID
<1>4. ASSUME NEW c \in Conns, HandlerStep(c) PROVE KeyedByID'
  BY <1>4, <1>1, <1>2 DEF HandlerStep, UpgradeFails, Register, Replace, Install, Added, Serve,
     ReadFrame, GetDevice, DeviceGone, FindChannel, NoChannel, SendResult, ReadFails,
     Release
<1>5. ASSUME NEW c \in Conns, NEW e \in Causes, DisconnectStep(c, e) PROVE KeyedByID'
  BY <1>5, <1>1, <1>3 DEF DisconnectStep, Peek, Unregister, Detach, Notify, CloseSocket
<1>6. ASSUME NEW c \in Conns,
             Dial(c) \/ PingStep(c) \/ PingWritten(c) \/ EnvStep(c)
      PROVE KeyedByID'
  BY <1>6, <1>1 DEF Dial, Refuse, Acquire, PingStep, PingStale, PingTick, PingLock,
     PingFails, PingStops, PingWritten, EnvStep, NetChange, AgentReply
<1>7. ASSUME NEW r \in Calls, NEW t \in IDs \cup {None},
             Resolve(r, t) \/ ResolveFails(r, t)
      PROVE KeyedByID'
  BY <1>7, <1>1 DEF Resolve, ResolveFails
<1>8. ASSUME NEW r \in Calls, CallStep(r) \/ Written(r) PROVE KeyedByID'
  BY <1>8, <1>1 DEF CallStep, Admit, Reject, LockWrite, WriteFails, Receive, Return, Written
<1>9. ASSUME NEW r \in Calls, NEW o \in {"timeout", "cancelled"}, GiveUp(r, o)
      PROVE KeyedByID'
  BY <1>9, <1>1 DEF GiveUp
<1>10. CASE UNCHANGED vars
  BY <1>10, <1>1 DEF vars
<1> QED BY <1>4, <1>5, <1>6, <1>7, <1>8, <1>9, <1>10 DEF Next

(* Registration, attachment and the socket follow the teardowns, step by   *)
(* step: an id is given up before the device is detached, and the device   *)
(* is detached before the waiters are told and the socket is closed.       *)
LEMMA TeardownStep == TypeOK /\ TeardownInv /\ [Next]_vars => TeardownInv'
<1> SUFFICES ASSUME TypeOK, TeardownInv, [Next]_vars, NEW d \in Conns
             PROVE  TornDown(d)'
  BY KeyedStep DEF TeardownInv
<1>0. TornDown(d)
  BY DEF TeardownInv
<1>u. ASSUME UNCHANGED TeardownVars PROVE TornDown(d)'
  BY <1>0, <1>u DEF TeardownVars, TornDown, Joined, OwnsID
<1>h. ASSUME UNCHANGED <<sock, attached, devices, disc, snap>>,
             NEW c \in Conns, NEW v \in HandlerPCs,
             \/ v = "upgrading" /\ handler[c] = "idle"
             \/ v \notin {"idle", "upgrading", "done"} /\ Joined(c),
             handler' = [handler EXCEPT ![c] = v],
             ping'[d] = "off" \/ ping'[d] = ping[d] \/ (d = c /\ Joined(c))
      PROVE TornDown(d)'
  BY <1>0, <1>h DEF TypeOK, TornDown, Joined, OwnsID
<1>p. ASSUME UNCHANGED <<sock, attached, devices, disc, handler, snap>>,
             NEW c \in Conns, Joined(c), NEW v \in PingPCs,
             ping' = [ping EXCEPT ![c] = v]
      PROVE TornDown(d)'
  BY <1>0, <1>p DEF TypeOK, TornDown, Joined, OwnsID
<1>1. ASSUME NEW c \in Conns, Dial(c) PROVE TornDown(d)'
  <2>1. CASE Refuse(c)
    BY <1>0, <2>1 DEF TypeOK, TornDown, Joined, OwnsID, Refuse, netVars, discVars
  <2>2. CASE Acquire(c)
    BY <2>2, <1>h DEF Acquire, HandlerPCs, netVars, discVars
  <2> QED BY <1>1, <2>1, <2>2 DEF Dial
<1>2. ASSUME NEW c \in Conns, HandlerStep(c) PROVE TornDown(d)'
  <2>0. TornDown(c)
    BY DEF TeardownInv
  <2>j. handler[c] \notin {"idle", "upgrading", "done"} => Joined(c)
    BY <2>0 DEF TornDown
  <2>1. CASE UpgradeFails(c)
    BY <1>0, <2>1 DEF TypeOK, TornDown, Joined, OwnsID, UpgradeFails, netVars, discVars
  <2>2. CASE Register(c)
    <3>1. CASE d # c
      <4>1. OwnsID(d)' <=> OwnsID(d)
        BY <2>2, <3>1, ConstAssumption DEF ConstAssumption, TypeOK, OwnsID, Register,
           Install, Added
      <4>2. /\ UNCHANGED <<disc, snap, sock[d], attached[d], handler[d], ping[d]>>
        BY <2>2, <3>1 DEF TypeOK, Register, Install, Added
      <4> QED BY <1>0, <4>1, <4>2 DEF TornDown, Joined
    <3>2. CASE d = c
      BY <2>0, <2>2, <3>2, ConstAssumption DEF ConstAssumption, TypeOK, TornDown,
         Joined, OwnsID, Register, Install, Added, Causes, Past
    <3> QED BY <3>1, <3>2
  <2>3. CASE Replace(c)
    <3> DEFINE o == devices[IDOf[c]]
    <3>1. o \in Conns /\ o # c /\ IDOf[c] \in IDs
      BY <2>0, <2>3, ConstAssumption DEF ConstAssumption, TypeOK, TornDown,
         Joined, OwnsID, Replace, Install, Added
    <3>2. TornDown(o)
      BY <3>1 DEF TeardownInv
    <3> HIDE DEF o
    <3>i. IDOf[o] = IDOf[c]
      BY <2>3, <3>1 DEF o, Replace, TeardownInv, KeyedByID
    <3>3. CASE d # o /\ d # c
      <4>1. UNCHANGED <<disc[d], snap, sock[d], attached[d], handler[d], ping[d]>>
        BY <2>3, <3>1, <3>3 DEF Replace, Install, Added, TypeOK, o
      <4>2. OwnsID(d)' <=> OwnsID(d)
        BY <2>3, <3>1, <3>3, ConstAssumption DEF ConstAssumption, OwnsID, Replace,
           Install, Added, TypeOK, o
      <4> QED BY <1>0, <4>1, <4>2 DEF TornDown, Joined
    <3>4. CASE d = c
      <4>1. disc'[c] = disc[c]
        BY <2>3, <3>1 DEF Replace, TypeOK, o
      <4> QED BY <2>0, <2>3, <3>4, <4>1, ConstAssumption DEF ConstAssumption,
           TypeOK, TornDown, Joined, OwnsID, Replace, Install, Added, Causes, Past
    <3>5. CASE d = o
      <4>1. disc'[d] = [disc[d] EXCEPT !["replaced"] = "peek"]
        BY <2>3, <3>1, <3>5 DEF Replace, TypeOK, o
      <4>2. OwnsID(d) /\ ~OwnsID(d)'
        BY <2>3, <3>1, <3>5, <3>i, ConstAssumption DEF ConstAssumption, OwnsID, Replace,
           Install, Added, TypeOK, o
      <4>3. UNCHANGED <<snap, sock[d], attached[d], handler[d], ping[d]>>
        BY <2>3, <3>1, <3>5 DEF Replace, Install, Added, TypeOK
      <4> QED BY <1>0, <4>1, <4>2, <4>3 DEF TypeOK, TornDown, Joined, Causes, Past, Stages
    <3> QED BY <3>3, <3>4, <3>5
  <2>4. CASE Serve(c)
    BY <2>4, <2>j, <1>h DEF Serve, HandlerPCs, netVars, discVars, TypeOK
  <2>5. ASSUME NEW r \in Calls, ReadFrame(c, r) PROVE TornDown(d)'
    BY <2>5, <2>j, <1>h DEF ReadFrame, HandlerPCs, discVars
  <2>6. CASE GetDevice(c) \/ FindChannel(c)
    BY <2>6, <2>j, <1>h DEF GetDevice, FindChannel, HandlerPCs, netVars, discVars
  <2>7. CASE DeviceGone(c) \/ NoChannel(c) \/ SendResult(c)
    BY <2>7, <2>j, <1>h DEF DeviceGone, NoChannel, SendResult, ReadOn, HandlerPCs,
       netVars, discVars
  <2>8. CASE ReadFails(c)
    <3>1. handler'[d] = handler[d] \/ (d = c /\ handler'[d] = "closing")
      BY <2>8 DEF ReadFails, TypeOK
    <3> QED BY <2>8, <1>0, <2>j, <3>1, CloseOnceTornDown DEF ReadFails, netVars
  <2>9. CASE Release(c)
    BY <1>0, <2>0, <2>j, <2>9 DEF TypeOK, TornDown, Joined, OwnsID, Release, OnceDone,
       netVars, discVars
  <2> QED BY <1>2, <2>1, <2>2, <2>3, <2>4, <2>5, <2>6, <2>7, <2>8, <2>9 DEF HandlerStep
<1>3. ASSUME NEW c \in Conns, PingStep(c) \/ PingWritten(c) PROVE TornDown(d)'
  <2>0. TornDown(c)
    BY DEF TeardownInv
  <2>j. ping[c] # "off" => Joined(c)
    BY <2>0 DEF TornDown
  <2>1. CASE PingStale(c) \/ PingFails(c)
    <3>1. ping'[d] = ping[d] \/ d = c
      BY <2>1 DEF PingStale, PingFails, TypeOK
    <3> QED BY <2>1, <1>0, <2>j, <3>1, CloseOnceTornDown DEF PingStale, PingFails, netVars
  <2>2. CASE PingTick(c) \/ PingLock(c) \/ PingStops(c) \/ PingWritten(c)
    BY <2>2, <2>j, <1>p DEF PingTick, PingLock, PingStops, PingWritten, PingPCs,
       netVars, discVars
  <2> QED BY <1>3, <2>1, <2>2 DEF PingStep
<1>4. ASSUME NEW c \in Conns, EnvStep(c) PROVE TornDown(d)'
  BY <1>4, <1>u DEF EnvStep, NetChange, AgentReply, discVars, TeardownVars
<1>5. ASSUME NEW c \in Conns, NEW e \in Causes, DisconnectStep(c, e) PROVE TornDown(d)'
  <2>1. CASE Peek(c)
    BY <1>0, <2>1 DEF Peek, TypeOK, TornDown, Joined, OwnsID, Causes, Past, Stages, netVars
  <2>2. CASE Unregister(c, e)
    <3>1. UNCHANGED <<sock, attached, handler, snap, ping>>
      BY <2>2 DEF Unregister, netVars
    <3>2. CASE d # c
      <4>1. OwnsID(d)' <=> OwnsID(d)
        BY <2>2, <3>2, ConstAssumption DEF ConstAssumption, Unregister, StillCurrent,
           OwnsID, TypeOK
      <4>2. disc'[d] = disc[d]
        BY <2>2, <3>2 DEF Unregister, TypeOK
      <4> QED BY <1>0, <3>1, <4>1, <4>2 DEF TornDown, Joined
    <3>3. CASE d = c
      <4>1. ~OwnsID(c)'
        BY <2>2, ConstAssumption DEF ConstAssumption, Unregister, StillCurrent,
           OwnsID, TypeOK
      <4>2. disc'[c] = [disc[c] EXCEPT ![e] = "detach"] /\ disc[c][e] = "unregister"
        BY <2>2 DEF Unregister, TypeOK
      <4> QED BY <1>0, <3>1, <3>3, <4>1, <4>2 DEF TypeOK, TornDown, Joined, Causes, Past,
           Stages
    <3> QED BY <3>2, <3>3
  <2>3. CASE Detach(c, e)
    BY <1>0, <2>3 DEF Detach, Waiters, Detached, TypeOK, TornDown, Joined, OwnsID,
       Causes, Past, Stages, netVars
  <2>4. ASSUME NEW r \in Calls, Notify(c, e, r) PROVE TornDown(d)'
    BY <1>0, <2>4 DEF Notify, TypeOK, TornDown, Joined, OwnsID, Causes, netVars
  <2>5. CASE CloseSocket(c, e)
    BY <1>0, <2>5 DEF CloseSocket, TypeOK, TornDown, Joined, OwnsID, Causes, Past, Stages
  <2> QED BY <1>5, <2>1, <2>2, <2>3, <2>4, <2>5 DEF DisconnectStep
<1>6. ASSUME NEW r \in Calls, NEW t \in IDs \cup {None},
             Resolve(r, t) \/ ResolveFails(r, t)
      PROVE TornDown(d)'
  BY <1>6, <1>u DEF Resolve, ResolveFails, netVars, discVars, TeardownVars
<1>7. ASSUME NEW r \in Calls, CallStep(r) \/ Written(r) PROVE TornDown(d)'
  BY <1>7, <1>u DEF CallStep, Admit, Reject, LockWrite, WriteFails, Receive, Return,
     Written, netVars, discVars, TeardownVars
<1>8. ASSUME NEW r \in Calls, NEW o \in {"timeout", "cancelled"}, GiveUp(r, o)
      PROVE TornDown(d)'
  BY <1>8, <1>u DEF GiveUp, netVars, discVars, TeardownVars
<1>9. CASE UNCHANGED vars
  BY <1>9, <1>u DEF vars, netVars, discVars, TeardownVars
<1> QED BY <1>1, <1>2, <1>3, <1>4, <1>5, <1>6, <1>7, <1>8, <1>9 DEF Next

-----------------------------------------------------------------------------
(* Where calls are, and that none is stranded.                             *)

WhereVars == <<sock, attached, pending, snap, sent, dev, call, ch, out>>

(* No call has been issued yet, so none is stranded.                       *)
LEMMA WhereInit == Init => WhereaboutsInv /\ NoStrandedCaller
BY ConstAssumption DEF Init, WhereaboutsInv, Placed, Holding, NoStrandedCaller,
   InFlight, Joined, Causes, ConstAssumption

(* A step of one call leaves the other calls where they are.               *)
LEMMA WhereStep ==
    TypeOK /\ TeardownInv /\ WhereaboutsInv /\ NoStrandedCaller /\ [Next]_vars
      => WhereaboutsInv' /\ NoStrandedCaller'
<1> SUFFICES ASSUME TypeOK, TeardownInv, WhereaboutsInv, NoStrandedCaller, [Next]_vars,
                    NEW q, NEW d
             PROVE  /\ q \in Calls => Placed(q)' /\ (InFlight(q)' => Reachable(q)')
                    /\ d \in Conns => Holding(d)'
  BY DEF WhereaboutsInv, NoStrandedCaller
<1> DEFINE Goal == /\ q \in Calls => Placed(q)' /\ (InFlight(q)' => Reachable(q)')
                   /\ d \in Conns => Holding(d)'
<1>0. /\ q \in Calls => Placed(q) /\ (InFlight(q) => Reachable(q))
      /\ d \in Conns => Holding(d)
  BY DEF WhereaboutsInv, NoStrandedCaller
<1>u. ASSUME UNCHANGED WhereVars PROVE Goal
  BY <1>0, <1>u DEF WhereVars, Placed, Holding, InFlight, Reachable, Joined
<1>1. ASSUME NEW c \in Conns, HandlerStep(c) PROVE Goal
  <2>1. CASE Register(c) \/ Replace(c)
    <3>1. Install(c) /\ TornDown(c)
      BY <2>1 DEF Register, Replace, TeardownInv
    <3>2. /\ UNCHANGED <<pending, snap, sent, callVars>>
          /\ sock' = [sock EXCEPT ![c] = "open"]
          /\ attached' = [attached EXCEPT ![c] = TRUE]
      BY <3>1 DEF Install, Added
    <3>3. q \in Calls => Placed(q)'
      BY <1>0, <3>2 DEF TypeOK, Placed, InFlight, Joined, callVars
    <3>4. d \in Conns => Holding(d)'
      BY <1>0, <3>2 DEF TypeOK, Holding, InFlight, callVars
    <3>5. q \in Calls /\ InFlight(q)' => Reachable(q)'
      BY <1>0, <3>2 DEF TypeOK, InFlight, Reachable, Causes, callVars
    <3> QED BY <3>3, <3>4, <3>5
  <2>2. CASE SendResult(c)
    <3>1. /\ UNCHANGED <<sock, attached, pending, snap, sent, dev, call, out>>
          /\ Offer(frame[c], "result")
      BY <2>2 DEF SendResult, netVars, discVars
    <3>2. q \in Calls /\ ch[q] # "empty" => ch'[q] # "empty"
      BY <3>1 DEF Offer, TypeOK
    <3> QED BY <1>0, <3>1, <3>2 DEF Placed, Holding, InFlight, Reachable, Joined
  <2>3. CASE \/ UpgradeFails(c) \/ Serve(c) \/ GetDevice(c) \/ DeviceGone(c)
             \/ FindChannel(c) \/ NoChannel(c) \/ ReadFails(c) \/ Release(c)
             \/ \E r \in Calls : ReadFrame(c, r)
    BY <2>3, <1>u DEF UpgradeFails, Serve, GetDevice, DeviceGone, FindChannel,
       NoChannel, ReadFails, Release, ReadFrame, WhereVars, netVars, discVars, callVars
  <2> QED BY <1>1, <2>1, <2>2, <2>3 DEF HandlerStep
<1>2. ASSUME NEW c \in Conns,
             Dial(c) \/ PingStep(c) \/ PingWritten(c) \/ EnvStep(c)
      PROVE Goal
  BY <1>2, <1>u DEF Dial, Refuse, Acquire, PingStep, PingStale, PingTick, PingLock,
     PingFails, PingStops, PingWritten, EnvStep, NetChange, AgentReply, WhereVars,
     netVars, discVars, callVars
<1>3. ASSUME NEW c \in Conns, NEW e \in Causes, DisconnectStep(c, e) PROVE Goal
  <2>1. CASE Peek(c) \/ Unregister(c, e)
    BY <2>1, <1>u DEF Peek, Unregister, WhereVars, netVars, callVars
  <2>2. CASE Detach(c, e)
    <3>1. /\ UNCHANGED <<sock, sent, dev, call, ch, out>>
          /\ snap' = [snap EXCEPT ![c][e] = pending[c]]
          /\ pending' = [pending EXCEPT ![c] = {}]
          /\ attached' = [attached EXCEPT ![c] = FALSE]
      BY <2>2 DEF Detach, Waiters, Detached, netVars, callVars
    <3>2. Holding(c) /\ snap[c][e] = {}
      <4>1. TornDown(c) /\ disc[c][e] = "detach"
        BY <2>2 DEF TeardownInv, Detach
      <4> QED BY <4>1 DEF WhereaboutsInv, TornDown
    <3>3. q \in Calls => Placed(q)'
      BY <1>0, <3>1 DEF Placed, InFlight, Joined
    <3>4. d \in Conns => Holding(d)'
      BY <1>0, <3>1, <3>2 DEF TypeOK, Holding, InFlight, Causes
    <3>5. q \in Calls /\ InFlight(q)' => Reachable(q)'
      BY <1>0, <3>1, <3>2 DEF TypeOK, InFlight, Reachable, Placed, Causes
    <3> QED BY <3>3, <3>4, <3>5
  <2>3. ASSUME NEW r \in Calls, Notify(c, e, r) PROVE Goal
    <3>1. /\ UNCHANGED <<sock, attached, pending, sent, dev, call, out>>
          /\ snap' = [snap EXCEPT ![c][e] = @ \ {r}]
          /\ ch' = [ch EXCEPT ![r] = IF @ = "empty" THEN e ELSE @]
      BY <2>3 DEF Notify, Offer, netVars
    <3>2. ch'[r] # "empty" /\ (q \in Calls \ {r} => ch'[q] = ch[q])
      BY <3>1 DEF TypeOK, Causes
    <3>3. q \in Calls => Placed(q)'
      BY <1>0, <3>1 DEF Placed, InFlight, Joined
    <3>4. d \in Conns => Holding(d)'
      BY <1>0, <3>1 DEF TypeOK, Holding, InFlight, Causes
    <3>5. q \in Calls /\ InFlight(q)' => Reachable(q)'
      BY <1>0, <3>1, <3>2 DEF TypeOK, InFlight, Reachable, Causes
    <3> QED BY <3>3, <3>4, <3>5
  <2>4. CASE CloseSocket(c, e)
    <3>1. /\ UNCHANGED <<attached, pending, snap, sent, dev, call, ch, out>>
          /\ \A b \in Conns : Joined(b) => Joined(b)'
      BY <2>4 DEF CloseSocket, Joined, TypeOK, callVars
    <3> QED BY <1>0, <3>1 DEF TypeOK, Placed, Holding, InFlight, Reachable
  <2> QED BY <1>3, <2>1, <2>2, <2>3, <2>4 DEF DisconnectStep
<1>4. ASSUME NEW r \in Calls, NEW t \in IDs \cup {None}, Resolve(r, t)
      PROVE Goal
  <2>1. PICK i \in IDs : Matching(t) = {i} /\ dev' = [dev EXCEPT ![r] = devices[i]]
    BY <1>4 DEF Resolve
  <2>2. devices[i] \in Conns /\ Joined(devices[i])
    <3>1. Matching(t) \subseteq Registered
      BY DEF Matching
    <3>2. i \in Registered
      BY <2>1, <3>1
    <3>3. devices[i] \in Conns /\ IDOf[devices[i]] = i
      BY <3>2 DEF Registered, TypeOK, TeardownInv, KeyedByID
    <3>4. TornDown(devices[i]) /\ OwnsID(devices[i])
      BY <3>3 DEF TeardownInv, OwnsID
    <3> QED BY <3>3, <3>4 DEF TornDown
  <2>3. /\ UNCHANGED <<sock, attached, pending, snap, sent, ch, out>>
        /\ call[r] = "idle" /\ call' = [call EXCEPT ![r] = "resolved"]
    BY <1>4 DEF Resolve, netVars, discVars
  <2>4. Placed(r) /\ dev[r] = None
    BY <2>3 DEF WhereaboutsInv, Placed
  <2>5. q \in Calls => Placed(q)' /\ (InFlight(q)' => Reachable(q)')
    <3>1. CASE q = r
      BY <2>1, <2>2, <2>3, <2>4, <3>1, ConstAssumption DEF ConstAssumption, TypeOK,
         Placed, InFlight, Joined
    <3>2. CASE q \in Calls \ {r}
      BY <1>0, <2>1, <2>3, <3>2 DEF TypeOK, Placed, InFlight, Reachable, Joined
    <3> QED BY <3>1, <3>2
  <2>6. d \in Conns => Holding(d)'
    BY <1>0, <2>1, <2>3, <2>4, ConstAssumption DEF ConstAssumption, TypeOK, Holding, InFlight
  <2> QED BY <2>5, <2>6
<1>5. ASSUME NEW r \in Calls, NEW t \in IDs \cup {None}, ResolveFails(r, t)
      PROVE Goal
  <2>1. /\ UNCHANGED <<sock, attached, pending, snap, sent, ch, dev>>
        /\ call[r] = "idle" /\ call' = [call EXCEPT ![r] = "returned"]
        /\ out' = [out EXCEPT ![r] = ResolveError(t)]
    BY <1>5 DEF ResolveFails, netVars, discVars
  <2>2. Placed(r) /\ dev[r] = None
    BY <2>1 DEF WhereaboutsInv, Placed
  <2>3. q \in Calls => Placed(q)' /\ (InFlight(q)' => Reachable(q)')
    BY <1>0, <2>1, <2>2 DEF TypeOK, Placed, InFlight, Reachable, Joined
  <2>4. d \in Conns => Holding(d)'
    BY <1>0, <2>1, <2>2, ConstAssumption DEF ConstAssumption, TypeOK, Holding, InFlight
  <2> QED BY <2>3, <2>4
<1>6. ASSUME NEW r \in Calls, CallStep(r) \/ Written(r) PROVE Goal
  <2>0. Placed(r) /\ (InFlight(r) => Reachable(r))
    BY DEF WhereaboutsInv, NoStrandedCaller
  <2>1. CASE Admit(r)
    <3>1. /\ UNCHANGED <<sock, attached, snap, sent, dev, ch, out>>
          /\ call[r] = "resolved" /\ call' = [call EXCEPT ![r] = "admitted"]
          /\ attached[dev[r]] /\ pending' = [pending EXCEPT ![dev[r]] = @ \cup {r}]
          /\ dev[r] \in Conns
      BY <2>0, <2>1 DEF Admit, Accepting, Placed, TypeOK, netVars, discVars
    <3>3. q \in Calls => Placed(q)'
      BY <1>0, <2>0, <3>1 DEF TypeOK, Placed, InFlight, Joined
    <3>4. d \in Conns => Holding(d)'
      BY <1>0, <2>0, <3>1 DEF TypeOK, Placed, Holding, InFlight
    <3>5. q \in Calls /\ InFlight(q)' => Reachable(q)'
      BY <1>0, <3>1 DEF TypeOK, InFlight, Reachable
    <3> QED BY <3>3, <3>4, <3>5
  <2>2. CASE Reject(r)
    <3>1. /\ UNCHANGED <<sock, attached, pending, snap, sent, dev, ch>>
          /\ call[r] = "resolved" /\ call' = [call EXCEPT ![r] = "returned"]
          /\ \A p \in Calls \ {r} : out'[p] = out[p]
      BY <2>2 DEF Reject, TypeOK, netVars, discVars
    <3>3. q \in Calls => Placed(q)'
      BY <1>0, <2>0, <3>1 DEF TypeOK, Placed, InFlight, Joined
    <3>4. d \in Conns => Holding(d)'
      BY <1>0, <2>0, <3>1 DEF TypeOK, Placed, Holding, InFlight
    <3>5. q \in Calls /\ InFlight(q)' => Reachable(q)'
      BY <1>0, <3>1 DEF TypeOK, InFlight, Reachable
    <3> QED BY <3>3, <3>4, <3>5
  <2>3. CASE LockWrite(r)
    <3>1. /\ UNCHANGED <<sock, attached, pending, snap, sent, dev, ch, out>>
          /\ call[r] = "admitted" /\ call' = [call EXCEPT ![r] = "writing"]
      BY <2>3 DEF LockWrite, netVars, discVars
    <3>3. q \in Calls => Placed(q)'
      BY <1>0, <2>0, <3>1 DEF TypeOK, Placed, InFlight, Joined
    <3>4. d \in Conns => Holding(d)'
      BY <1>0, <2>0, <3>1 DEF TypeOK, Placed, Holding, InFlight
    <3>5. q \in Calls /\ InFlight(q)' => Reachable(q)'
      BY <1>0, <2>0, <3>1 DEF TypeOK, InFlight, Reachable
    <3> QED BY <3>3, <3>4, <3>5
  <2>4. CASE Written(r)
    <3>1. /\ UNCHANGED <<sock, attached, pending, snap, dev, ch, out>>
          /\ call[r] = "writing" /\ call' = [call EXCEPT ![r] = "waiting"]
          /\ sent' = [sent EXCEPT ![dev[r]] = @ \cup {r}]
          /\ out[r] = "none"
      BY <2>0, <2>4 DEF Written, Placed, InFlight, discVars
    <3>3. q \in Calls => Placed(q)'
      BY <1>0, <2>0, <3>1 DEF TypeOK, Placed, InFlight, Joined
    <3>4. d \in Conns => Holding(d)'
      BY <1>0, <2>0, <3>1 DEF TypeOK, Placed, Holding, InFlight
    <3>5. q \in Calls /\ InFlight(q)' => Reachable(q)'
      BY <1>0, <2>0, <3>1 DEF TypeOK, InFlight, Reachable
    <3> QED BY <3>3, <3>4, <3>5
  <2>5. CASE WriteFails(r) \/ Receive(r)
    <3>1. /\ UNCHANGED <<sock, attached, pending, snap, sent, dev>>
          /\ InFlight(r) /\ call' = [call EXCEPT ![r] = "leaving"]
          /\ \A p \in Calls \ {r} : out'[p] = out[p] /\ ch'[p] = ch[p]
          /\ d \in Conns /\ r \in sent[d] => out'[r] \in Answers
      <4>1. CASE WriteFails(r)
        <5>1. d \in Conns => r \notin sent[d]
          BY <1>0, <4>1 DEF WriteFails, Holding
        <5> QED BY <4>1, <5>1 DEF WriteFails, Leave, InFlight, TypeOK, netVars, discVars
      <4>2. CASE Receive(r)
        <5>1. out'[r] \in Answers
          BY <4>2 DEF Receive, Leave, TypeOK
        <5> QED BY <4>2, <5>1 DEF Receive, Leave, InFlight, TypeOK, netVars, discVars
      <4> QED BY <2>5, <4>1, <4>2
    <3>3. q \in Calls => Placed(q)'
      BY <1>0, <2>0, <3>1 DEF TypeOK, Placed, InFlight, Joined
    <3>4. d \in Conns => Holding(d)'
      BY <1>0, <2>0, <3>1 DEF TypeOK, Placed, Holding, InFlight, Answers, Causes
    <3>5. q \in Calls /\ InFlight(q)' => Reachable(q)'
      BY <1>0, <2>0, <3>1 DEF TypeOK, InFlight, Reachable
    <3> QED BY <3>3, <3>4, <3>5
  <2>6. CASE Return(r)
    <3>1. /\ UNCHANGED <<sock, attached, snap, sent, dev, ch, out>>
          /\ call[r] = "leaving" /\ call' = [call EXCEPT ![r] = "returned"]
          /\ pending' = [pending EXCEPT ![dev[r]] = @ \ {r}]
          /\ dev[r] \in Conns
      BY <2>0, <2>6 DEF Return, Placed, TypeOK, netVars, discVars
    <3>3. q \in Calls => Placed(q)'
      BY <1>0, <2>0, <3>1 DEF TypeOK, Placed, InFlight, Joined
    <3>4. d \in Conns => Holding(d)'
      BY <1>0, <2>0, <3>1 DEF TypeOK, Placed, Holding, InFlight
    <3>5. q \in Calls /\ InFlight(q)' => Reachable(q)'
      BY <1>0, <2>0, <3>1 DEF TypeOK, InFlight, Reachable
    <3> QED BY <3>3, <3>4, <3>5
  <2> QED BY <1>6, <2>1, <2>2, <2>3, <2>4, <2>5, <2>6 DEF CallStep
<1>7. ASSUME NEW r \in Calls, NEW o \in {"timeout", "cancelled"}, GiveUp(r, o)
      PROVE Goal
  <2>0. Placed(r) /\ (InFlight(r) => Reachable(r))
    BY DEF WhereaboutsInv, NoStrandedCaller
  <2>1. /\ UNCHANGED <<sock, attached, pending, snap, sent, dev, ch>>
        /\ call[r] = "waiting" /\ call' = [call EXCEPT ![r] = "leaving"]
        /\ out' = [out EXCEPT ![r] = o]
    BY <1>7 DEF GiveUp, Leave, netVars, discVars
  <2>2. q \in Calls => Placed(q)' /\ (InFlight(q)' => Reachable(q)')
    BY <1>0, <2>0, <2>1 DEF TypeOK, Placed, InFlight, Reachable, Joined
  <2>3. d \in Conns => Holding(d)'
    BY <1>0, <2>0, <2>1 DEF TypeOK, Holding, InFlight
  <2> QED BY <2>2, <2>3
<1>8. CASE UNCHANGED vars
  BY <1>8, <1>u DEF vars, WhereVars, netVars, discVars, callVars
<1> QED BY <1>1, <1>2, <1>3, <1>4, <1>5, <1>6, <1>7, <1>8 DEF Next

-----------------------------------------------------------------------------
(* Answers.  What a teardown has done stays done, and so stays the reason  *)
(* of every answer given for it.                                           *)

(* Before any call there is no answer to justify.                          *)
LEMMA AnswerInit == Init => AnswerInv
BY ConstAssumption DEF Init, AnswerInv, Delivering, Justified, Answers, Causes,
   ConstAssumption

(* Every answer put in a channel or returned has its reason.               *)
LEMMA AnswerStep ==
    TypeOK /\ TeardownInv /\ WhereaboutsInv /\ AnswerInv /\ [Next]_vars => AnswerInv'
<1> SUFFICES ASSUME TypeOK, TeardownInv, WhereaboutsInv, AnswerInv, [Next]_vars,
                    NEW q, NEW d
             PROVE  /\ q \in Calls => Justified(q)'
                    /\ d \in Conns => Delivering(d)'
  BY DEF AnswerInv
<1> DEFINE Goal == /\ q \in Calls => Justified(q)'
                   /\ d \in Conns => Delivering(d)'
           PastStays ==
             /\ \A c \in Conns, e \in Causes : disc[c][e] \in Past => disc'[c][e] \in Past
             /\ \A c \in Conns : Joined(c) /\ ~attached[c] => ~attached'[c]
<1>0. /\ q \in Calls => Justified(q) /\ Placed(q)
      /\ d \in Conns => Delivering(d) /\ Holding(d)
  BY DEF AnswerInv, WhereaboutsInv
<1>k. ASSUME UNCHANGED <<disc, attached>> PROVE PastStays
  BY <1>k
<1>j. ASSUME UNCHANGED <<dev, ch, out>>, \A c \in Conns : ran[c] \subseteq ran'[c], PastStays
      PROVE q \in Calls => Justified(q)'
  BY <1>0, <1>j, ConstAssumption DEF ConstAssumption, TypeOK, Justified, Placed, Answers, Causes
<1>d. ASSUME UNCHANGED <<ran, sent, arrived, frame, found, old, handler>>
      PROVE d \in Conns => Delivering(d)'
  BY <1>0, <1>d DEF Delivering
<1> HIDE DEF PastStays
<1>1. ASSUME NEW c \in Conns, Dial(c) PROVE Goal
  <2>1. /\ UNCHANGED <<ran, sent, arrived, frame, found, old, disc, attached, callVars>>
        /\ \E v \in {"done", "upgrading"} : handler' = [handler EXCEPT ![c] = v]
    BY <1>1 DEF Dial, Refuse, Acquire, netVars, discVars, readVars
  <2>2. d \in Conns => Delivering(d)'
    BY <1>0, <2>1 DEF Delivering, TypeOK
  <2> QED BY <2>1, <2>2, <1>j, <1>k DEF callVars
<1>2. ASSUME NEW c \in Conns, HandlerStep(c) PROVE Goal
  <2>0. Delivering(c) /\ Holding(c)
    BY DEF AnswerInv, WhereaboutsInv
  <2>1. CASE Register(c) \/ Replace(c)
    <3>1. Install(c) /\ TornDown(c)
      BY <2>1 DEF Register, Replace, TeardownInv
    <3>2. ~Joined(c)
      BY <3>1 DEF Install, Added, TornDown
    <3>3. PastStays
      <4>1. \A b \in Conns : Joined(b) /\ ~attached[b] => ~attached'[b]
        BY <3>1, <3>2 DEF Install, Added, TypeOK
      <4>2. CASE Register(c)
        BY <4>1, <4>2 DEF Register, PastStays
      <4>3. CASE Replace(c)
        <5>1. devices[IDOf[c]] \in Conns /\ OwnsID(devices[IDOf[c]])
          BY <4>3, ConstAssumption DEF ConstAssumption, Replace, TypeOK, TeardownInv,
             KeyedByID, OwnsID
        <5>2. disc[devices[IDOf[c]]]["replaced"] \notin Past
          BY <5>1 DEF TeardownInv, TornDown, Past
        <5>3. \A b \in Conns, e \in Causes :
                disc'[b][e] = disc[b][e] \/ (b = devices[IDOf[c]] /\ e = "replaced")
          BY <4>3, <5>1 DEF Replace, TypeOK
        <5> QED BY <4>1, <5>2, <5>3 DEF PastStays
      <4> QED BY <2>1, <4>2, <4>3
    <3>4. d \in Conns => Delivering(d)'
      <4>1. /\ UNCHANGED <<ran, sent, arrived, frame, found>>
            /\ old' = [old EXCEPT ![c] = devices[IDOf[c]]]
            /\ \/ handler' = [handler EXCEPT ![c] = "reading"]
               \/ devices[IDOf[c]] # None /\ handler' = [handler EXCEPT ![c] = "replacing"]
        BY <2>1 DEF Register, Replace, Install, Added
      <4>2. CASE d = c
        BY <1>0, <4>1, <4>2 DEF Delivering, TypeOK
      <4>3. CASE d # c
        BY <1>0, <4>1, <4>3 DEF Delivering, TypeOK
      <4> QED BY <4>2, <4>3
    <3> QED BY <3>1, <3>3, <3>4, <1>j DEF Install, Added, callVars
  <2>2. CASE SendResult(c)
    <3>1. /\ UNCHANGED <<ran, sent, arrived, found, old, disc, attached, dev, out>>
          /\ frame[c] \in Calls /\ frame[c] \in ran[c] /\ dev[frame[c]] = c
          /\ frame' = [frame EXCEPT ![c] = None]
          /\ handler' = [handler EXCEPT ![c] = "reading"]
          /\ ch' = [ch EXCEPT ![frame[c]] = IF @ = "empty" THEN "result" ELSE @]
      BY <2>0, <2>2 DEF SendResult, ReadOn, Offer, Delivering, Holding, TypeOK, netVars,
         discVars
    <3>2. d \in Conns => Delivering(d)'
      BY <1>0, <3>1 DEF Delivering, TypeOK
    <3>3. q \in Calls => Justified(q)'
      BY <1>0, <3>1, ConstAssumption DEF ConstAssumption, Justified, TypeOK, Causes, Answers
    <3> QED BY <3>2, <3>3
  <2>3. CASE ReadFails(c)
    <3>1. /\ UNCHANGED <<ran, sent, arrived, frame, found, old, attached, callVars>>
          /\ handler' = [handler EXCEPT ![c] = "closing"]
          /\ CloseOnce(c)
      BY <2>3 DEF ReadFails, netVars, readVars
    <3>2. PastStays
      BY <3>1 DEF CloseOnce, PastStays, Past, TypeOK, Causes, Stages
    <3>3. d \in Conns => Delivering(d)'
      BY <1>0, <3>1 DEF Delivering, TypeOK
    <3> QED BY <3>1, <3>2, <3>3, <1>j DEF callVars
  <2>4. ASSUME NEW r \in Calls, ReadFrame(c, r) PROVE Goal
    <3>1. /\ UNCHANGED <<ran, sent, found, old, disc, attached, callVars>>
          /\ r \in arrived[c]
          /\ arrived' = [arrived EXCEPT ![c] = @ \ {r}]
          /\ frame' = [frame EXCEPT ![c] = r]
          /\ handler' = [handler EXCEPT ![c] = "getting"]
      BY <2>4 DEF ReadFrame, discVars
    <3>2. d \in Conns => Delivering(d)'
      BY <1>0, <2>0, <3>1, ConstAssumption DEF ConstAssumption, Delivering, TypeOK
    <3> QED BY <3>1, <3>2, <1>j, <1>k DEF callVars
  <2>5. CASE GetDevice(c)
    <3>1. /\ UNCHANGED <<ran, sent, arrived, frame, old, disc, attached, callVars>>
          /\ handler[c] = "getting" /\ devices[IDOf[c]] # None
          /\ found' = [found EXCEPT ![c] = devices[IDOf[c]]]
          /\ handler' = [handler EXCEPT ![c] = "looking"]
      BY <2>5 DEF GetDevice, netVars, discVars
    <3>2. d \in Conns => Delivering(d)'
      BY <1>0, <2>0, <3>1 DEF Delivering, TypeOK
    <3> QED BY <3>1, <3>2, <1>j, <1>k DEF callVars
  <2>6. CASE FindChannel(c)
    <3>1. /\ UNCHANGED <<ran, sent, arrived, frame, old, disc, attached, callVars>>
          /\ handler[c] = "looking"
          /\ found' = [found EXCEPT ![c] = None]
          /\ handler' = [handler EXCEPT ![c] = "sending"]
      BY <2>6 DEF FindChannel, netVars, discVars
    <3>2. d \in Conns => Delivering(d)'
      BY <1>0, <2>0, <3>1 DEF Delivering, TypeOK
    <3> QED BY <3>1, <3>2, <1>j, <1>k DEF callVars
  <2>7. CASE DeviceGone(c) \/ NoChannel(c)
    <3>1. /\ UNCHANGED <<ran, sent, arrived, old, disc, attached, callVars>>
          /\ frame' = [frame EXCEPT ![c] = None]
          /\ handler' = [handler EXCEPT ![c] = "reading"]
          /\ \A b \in Conns \ {c} : found'[b] = found[b]
      BY <2>7 DEF DeviceGone, NoChannel, ReadOn, netVars, discVars, TypeOK
    <3>2. d \in Conns => Delivering(d)'
      BY <1>0, <2>0, <3>1 DEF Delivering, TypeOK
    <3> QED BY <3>1, <3>2, <1>j, <1>k DEF callVars
  <2>8. CASE UpgradeFails(c) \/ Serve(c) \/ Release(c)
    <3>1. /\ UNCHANGED <<ran, sent, arrived, frame, found, old, disc, attached, callVars>>
          /\ \E v \in {"done", "reading"} : handler' = [handler EXCEPT ![c] = v]
      BY <2>8 DEF UpgradeFails, Serve, Release, netVars, discVars, readVars
    <3>2. d \in Conns => Delivering(d)'
      BY <1>0, <3>1 DEF Delivering, TypeOK
    <3> QED BY <3>1, <3>2, <1>j, <1>k DEF callVars
  <2> QED BY <1>2, <2>1, <2>2, <2>3, <2>4, <2>5, <2>6, <2>7, <2>8 DEF HandlerStep
<1>3. ASSUME NEW c \in Conns, PingStep(c) \/ PingWritten(c) PROVE Goal
  <2>1. CASE PingStale(c) \/ PingFails(c)
    <3>1. /\ UNCHANGED <<ran, sent, arrived, frame, found, old, handler, attached, callVars>>
          /\ CloseOnce(c)
      BY <2>1 DEF PingStale, PingFails, netVars, readVars
    <3>2. PastStays
      BY <3>1 DEF CloseOnce, PastStays, Past, TypeOK, Causes, Stages
    <3> QED BY <3>1, <3>2, <1>d, <1>j DEF callVars
  <2>2. CASE PingTick(c) \/ PingLock(c) \/ PingStops(c) \/ PingWritten(c)
    BY <2>2, <1>d, <1>j, <1>k DEF PingTick, PingLock, PingStops, PingWritten, netVars,
       discVars, readVars, callVars
  <2> QED BY <1>3, <2>1, <2>2 DEF PingStep
<1>4. ASSUME NEW c \in Conns, EnvStep(c) PROVE Goal
  <2>1. ASSUME NEW v \in NetStates, NetChange(c, v) PROVE Goal
    BY <2>1, <1>d, <1>j, <1>k DEF NetChange, discVars, readVars, callVars
  <2>2. ASSUME NEW r \in Calls, AgentReply(c, r) PROVE Goal
    <3>1. /\ UNCHANGED <<sent, frame, found, old, handler, disc, attached, callVars>>
          /\ r \in sent[c]
          /\ ran' = [ran EXCEPT ![c] = @ \cup {r}]
          /\ arrived' = [arrived EXCEPT ![c] = @ \cup {r}]
      BY <2>2 DEF AgentReply, discVars, readVars
    <3>2. \A b \in Conns : ran[b] \subseteq ran'[b]
      BY <3>1 DEF TypeOK
    <3>3. d \in Conns => Delivering(d)'
      BY <1>0, <3>1, <3>2 DEF Delivering, TypeOK
    <3> QED BY <3>1, <3>2, <3>3, <1>j, <1>k DEF callVars
  <2> QED BY <1>4, <2>1, <2>2 DEF EnvStep
<1>5. ASSUME NEW c \in Conns, NEW e \in Causes, DisconnectStep(c, e) PROVE Goal
  <2>0. TornDown(c) /\ Holding(c)
    BY DEF TeardownInv, WhereaboutsInv
  <2>1. CASE Peek(c) \/ Unregister(c, e) \/ Detach(c, e) \/ CloseSocket(c, e)
    <3>1. /\ UNCHANGED <<ran, sent, arrived, frame, found, old, handler, callVars>>
          /\ \A b \in Conns : ~attached[b] => ~attached'[b]
      BY <2>1 DEF Peek, Unregister, Detach, Detached, CloseSocket, TypeOK, netVars, readVars
    <3>2. PastStays
      <4>1. CASE Peek(c)
        BY <3>1, <4>1 DEF Peek, PastStays, Past, TypeOK, Causes
      <4>2. CASE Unregister(c, e)
        BY <3>1, <4>2 DEF Unregister, PastStays, Past, TypeOK, Causes
      <4>3. CASE Detach(c, e)
        BY <3>1, <4>3 DEF Detach, PastStays, Past, TypeOK, Causes
      <4>4. CASE CloseSocket(c, e)
        BY <3>1, <4>4 DEF CloseSocket, PastStays, Past, TypeOK, Causes
      <4> QED BY <2>1, <4>1, <4>2, <4>3, <4>4
    <3> QED BY <3>1, <3>2, <1>d, <1>j DEF callVars
  <2>2. ASSUME NEW r \in Calls, Notify(c, e, r) PROVE Goal
    <3>1. /\ UNCHANGED <<ran, sent, arrived, frame, found, old, handler, disc, attached,
                         dev, out>>
          /\ dev[r] = c /\ disc[c][e] \in Past
          /\ ch' = [ch EXCEPT ![r] = IF @ = "empty" THEN e ELSE @]
      BY <2>0, <2>2 DEF Notify, Offer, Holding, Past, netVars, readVars
    <3>2. q \in Calls => Justified(q)'
      BY <1>0, <3>1, ConstAssumption DEF ConstAssumption, Justified, TypeOK, Causes, Answers
    <3> QED BY <3>1, <3>2, <1>d
  <2> QED BY <1>5, <2>1, <2>2 DEF DisconnectStep
<1>6. ASSUME NEW r \in Calls, NEW t \in IDs \cup {None},
             Resolve(r, t) \/ ResolveFails(r, t)
      PROVE Goal
  <2>0. Placed(r) /\ Justified(r)
    BY DEF WhereaboutsInv, AnswerInv
  <2>1. /\ UNCHANGED <<ran, sent, arrived, frame, found, old, handler, disc, attached, ch>>
        /\ call[r] = "idle" /\ \A p \in Calls \ {r} : dev'[p] = dev[p] /\ out'[p] = out[p]
        /\ out'[r] = "none" \/ out'[r] \in {"not_found", "no_device", "ambiguous"}
    <3>1. ResolveError(t) \in {"not_found", "no_device", "ambiguous"}
      BY DEF ResolveError
    <3>2. call[r] = "idle" => out[r] = "none"
      BY <2>0 DEF Placed
    <3> QED BY <1>6, <3>1, <3>2 DEF Resolve, ResolveFails, netVars, discVars, readVars, TypeOK
  <2>2. ch[r] = "empty"
    BY <2>0, <2>1 DEF Placed, Justified
  <2>3. q \in Calls => Justified(q)'
    BY <1>0, <2>1, <2>2 DEF Justified, Answers, Causes
  <2> QED BY <2>1, <2>3, <1>d
<1>7. ASSUME NEW r \in Calls, CallStep(r) \/ Written(r) PROVE Goal
  <2>0. Placed(r) /\ Justified(r)
    BY DEF WhereaboutsInv, AnswerInv
  <2>1. CASE Admit(r) \/ LockWrite(r) \/ Return(r)
    BY <2>1, <1>d, <1>j, <1>k DEF Admit, LockWrite, Return, netVars, discVars, readVars
  <2>2. CASE Reject(r) \/ WriteFails(r)
    <3>1. /\ UNCHANGED <<ran, sent, arrived, frame, found, old, handler, disc, attached,
                         dev, ch>>
          /\ \A p \in Calls \ {r} : out'[p] = out[p]
          /\ \/ out'[r] \in {"too_many", "send_failed"}
             \/ out'[r] = "disconnected" /\ ~attached[dev[r]]
          /\ dev[r] # None
      BY <2>0, <2>2 DEF Reject, Accepting, WriteFails, Leave, Placed, netVars, discVars,
         readVars, TypeOK
    <3>2. q \in Calls => Justified(q)'
      BY <1>0, <3>1 DEF Justified, Answers, Causes
    <3> QED BY <3>1, <3>2, <1>d
  <2>3. CASE Receive(r)
    <3>1. /\ UNCHANGED <<ran, sent, arrived, frame, found, old, handler, disc, attached, dev>>
          /\ ch[r] # "empty" /\ call[r] = "waiting"
          /\ ch' = [ch EXCEPT ![r] = "empty"]
          /\ out' = [out EXCEPT ![r] = ch[r]]
      BY <2>3 DEF Receive, Leave, netVars, discVars, readVars
    <3>2. dev[r] \in Conns /\ Joined(dev[r])
      BY <2>0, <3>1 DEF Placed, TypeOK
    <3>3. TornDown(dev[r])
      BY <3>2 DEF TeardownInv
    <3>4. ch[r] = "disconnected" => ~attached[dev[r]]
      BY <2>0, <3>2, <3>3 DEF Justified, TornDown, Causes
    <3>5. q \in Calls => Justified(q)'
      <4>1. CASE q = r
        BY <2>0, <3>1, <3>2, <3>4, <4>1, ConstAssumption DEF ConstAssumption, Justified,
           Answers, Causes, TypeOK
      <4>2. CASE q # r
        BY <1>0, <3>1, <4>2 DEF Justified, TypeOK
      <4> QED BY <4>1, <4>2
    <3> QED BY <3>1, <3>5, <1>d
  <2>4. CASE Written(r)
    <3>1. /\ UNCHANGED <<ran, arrived, frame, found, old, handler, disc, attached, dev, ch, out>>
          /\ sent' = [sent EXCEPT ![dev[r]] = @ \cup {r}]
      BY <2>4 DEF Written, discVars, readVars
    <3>2. d \in Conns => Delivering(d)'
      BY <1>0, <3>1 DEF Delivering, TypeOK
    <3> QED BY <3>1, <3>2, <1>j, <1>k
  <2> QED BY <1>7, <2>1, <2>2, <2>3, <2>4 DEF CallStep
<1>8. ASSUME NEW r \in Calls, NEW o \in {"timeout", "cancelled"}, GiveUp(r, o)
      PROVE Goal
  <2>0. Placed(r)
    BY DEF WhereaboutsInv
  <2>1. /\ UNCHANGED <<ran, sent, arrived, frame, found, old, handler, disc, attached, dev, ch>>
        /\ out' = [out EXCEPT ![r] = o] /\ dev[r] # None
    BY <1>8, <2>0 DEF GiveUp, Leave, Placed, netVars, discVars, readVars
  <2>2. q \in Calls => Justified(q)'
    BY <1>0, <2>1 DEF Justified, TypeOK, Answers, Causes
  <2> QED BY <2>1, <2>2, <1>d
<1>9. CASE UNCHANGED vars
  BY <1>9, <1>d, <1>j, <1>k DEF vars, netVars, discVars, readVars, callVars
<1> QED BY <1>1, <1>2, <1>3, <1>4, <1>5, <1>6, <1>7, <1>8, <1>9 DEF Next

-----------------------------------------------------------------------------
(* The two counts: commands in a device's map, slots of an address.        *)

(* Every device starts with no command in its map.                         *)
LEMMA CapInit == Init => CapInv
BY ConstAssumption, FS_EmptySet DEF Init, CapInv, ConstAssumption

(* Admit is the only step that adds to a map, and it checks the cap in     *)
(* the same critical section.                                              *)
LEMMA CapStep == TypeOK /\ CapInv /\ [Next]_vars => CapInv'
<1> SUFFICES ASSUME TypeOK, CapInv, [Next]_vars, NEW d \in Conns
             PROVE  Cardinality(pending'[d]) <= MaxPending
  BY DEF CapInv
<1>0. /\ Cardinality(pending[d]) <= MaxPending
      /\ IsFiniteSet(pending[d]) /\ Cardinality(pending[d]) \in Nat
      /\ MaxPending \in Nat
  BY FS_Subset, FS_CardinalityType, ConstAssumption DEF ConstAssumption, TypeOK, CapInv
<1>u. ASSUME pending' = pending PROVE Cardinality(pending'[d]) <= MaxPending
  BY <1>0, <1>u
<1>1. ASSUME NEW r \in Calls, Admit(r) PROVE Cardinality(pending'[d]) <= MaxPending
  <2>1. CASE d = dev[r]
    <3>1. pending'[d] = pending[d] \cup {r} /\ Cardinality(pending[d]) < MaxPending
      BY <1>1, <2>1 DEF Admit, HasRoom, TypeOK
    <3>2. Cardinality(pending[d] \cup {r}) \in {Cardinality(pending[d]), Cardinality(pending[d]) + 1}
      BY ONLY <1>0, FS_AddElement
    <3>3. Cardinality(pending'[d]) \in {Cardinality(pending[d]), Cardinality(pending[d]) + 1}
      BY ONLY <3>1, <3>2
    <3> QED BY ONLY <1>0, <3>1, <3>3
  <2>2. CASE d # dev[r]
    BY <1>0, <1>1, <2>2 DEF Admit, TypeOK
  <2> QED BY <2>1, <2>2
<1>2. ASSUME NEW r \in Calls, Return(r) PROVE Cardinality(pending'[d]) <= MaxPending
  <2>1. CASE d = dev[r]
    <3>1. pending'[d] = pending[d] \ {r}
      BY <1>2, <2>1 DEF Return, TypeOK
    <3> QED BY <1>0, <3>1, FS_RemoveElement
  <2>2. CASE d # dev[r]
    BY <1>0, <1>2, <2>2 DEF Return, TypeOK
  <2> QED BY <2>1, <2>2
<1>3. ASSUME NEW c \in Conns, NEW e \in Causes, Detach(c, e)
      PROVE Cardinality(pending'[d]) <= MaxPending
  <2>1. pending'[d] \in {{}, pending[d]}
    BY <1>3 DEF Detach, TypeOK
  <2> QED BY <1>0, <2>1, FS_EmptySet
<1>4. ASSUME NEW c \in Conns, HandlerStep(c) PROVE pending' = pending
  BY <1>4 DEF HandlerStep, UpgradeFails, Register, Replace, Install, Added, Serve, ReadFrame,
     GetDevice, DeviceGone, FindChannel, NoChannel, SendResult, ReadFails, Release
<1>5. ASSUME NEW c \in Conns,
             Dial(c) \/ PingStep(c) \/ PingWritten(c) \/ EnvStep(c)
      PROVE pending' = pending
  BY <1>5 DEF Dial, Refuse, Acquire, PingStep, PingStale, PingTick, PingLock, PingFails,
     PingStops, PingWritten, EnvStep, NetChange, AgentReply
<1>6. ASSUME NEW c \in Conns, NEW e \in Causes, DisconnectStep(c, e)
      PROVE Cardinality(pending'[d]) <= MaxPending
  BY <1>6, <1>3, <1>u DEF DisconnectStep, Peek, Unregister, Notify, CloseSocket
<1>7. ASSUME NEW r \in Calls, NEW t \in IDs \cup {None},
             Resolve(r, t) \/ ResolveFails(r, t)
      PROVE pending' = pending
  BY <1>7 DEF Resolve, ResolveFails
<1>8. ASSUME NEW r \in Calls, CallStep(r) \/ Written(r)
      PROVE Cardinality(pending'[d]) <= MaxPending
  BY <1>8, <1>1, <1>2, <1>u DEF CallStep, Reject, LockWrite, WriteFails, Receive, Written
<1>9. ASSUME NEW r \in Calls, NEW o \in {"timeout", "cancelled"}, GiveUp(r, o)
      PROVE pending' = pending
  BY <1>9 DEF GiveUp
<1>10. CASE UNCHANGED vars
  BY <1>10, <1>u DEF vars
<1> QED BY <1>u, <1>4, <1>5, <1>6, <1>7, <1>8, <1>9, <1>10 DEF Next

(* No slot is counted before a handler holds one.                          *)
LEMMA SlotsInit == Init => SlotsExact
<1> SUFFICES ASSUME Init, NEW a \in IPs
             PROVE  active[a] = Cardinality(Holders(a)) /\ active[a] <= MaxConnsPerIP
  BY DEF SlotsExact
<1>1. Holders(a) = {}
  BY DEF Init, Holders, Holds
<1> QED BY <1>1, FS_EmptySet, ConstAssumption DEF Init, ConstAssumption

(* A slot is counted when its handler takes it and uncounted when the      *)
(* handler is done, for the address the handler was counted under.         *)
LEMMA SlotsStep == TypeOK /\ SlotsExact /\ [Next]_vars => SlotsExact'
<1> SUFFICES ASSUME TypeOK, SlotsExact, [Next]_vars, NEW a \in IPs
             PROVE  /\ active'[a] = Cardinality(Holders(a)')
                    /\ active'[a] <= MaxConnsPerIP
  BY DEF SlotsExact
<1> DEFINE Goal == active'[a] = Cardinality(Holders(a)') /\ active'[a] <= MaxConnsPerIP
<1>0. /\ active[a] = Cardinality(Holders(a)) /\ active[a] <= MaxConnsPerIP
      /\ IsFiniteSet(Holders(a)) /\ active[a] \in Nat /\ MaxConnsPerIP \in Nat
  <2>1. Holders(a) \subseteq Conns
    BY DEF Holders
  <2> QED BY <2>1, FS_Subset, ConstAssumption DEF ConstAssumption, TypeOK, SlotsExact
<1>u. ASSUME active' = active, \A c \in Conns : Holds(c)' <=> Holds(c) PROVE Goal
  <2>1. Holders(a)' = Holders(a)
    BY <1>u DEF Holders
  <2> QED BY <1>0, <1>u, <2>1
<1>v. ASSUME UNCHANGED <<active, handler>> PROVE Goal
  BY <1>v, <1>u DEF Holds
<1>w. ASSUME NEW c \in Conns, active' = active, Holds(c), NEW v \in HandlerPCs,
             v \notin {"idle", "done"}, handler' = [handler EXCEPT ![c] = v]
      PROVE Goal
  BY <1>w, <1>u DEF Holds, TypeOK
<1>r. ASSUME NEW c \in Conns, Holds(c), handler' = [handler EXCEPT ![c] = "done"],
             active' = [active EXCEPT ![IPOf[c]] = ReleaseSlot(@)]
      PROVE Goal
  <2>1. CASE IPOf[c] = a
    <3>1. Holders(a)' = Holders(a) \ {c} /\ c \in Holders(a)
      BY <1>r, <2>1 DEF Holders, Holds, TypeOK
    <3>2. active'[a] = ReleaseSlot(active[a])
      BY <1>r, <2>1 DEF TypeOK
    <3>3. Cardinality(Holders(a)') = Cardinality(Holders(a)) - 1
      BY <1>0, <3>1, FS_RemoveElement
    <3>4. Cardinality(Holders(a)') \in Nat
      BY <1>0, <3>1, FS_RemoveElement, FS_CardinalityType
    <3> QED BY <1>0, <3>2, <3>3, <3>4 DEF ReleaseSlot
  <2>2. CASE IPOf[c] # a
    <3>1. Holders(a)' = Holders(a) /\ active'[a] = active[a]
      BY <1>r, <2>2 DEF Holders, Holds, TypeOK
    <3> QED BY <1>0, <3>1
  <2> QED BY <2>1, <2>2
<1>1. ASSUME NEW c \in Conns, Dial(c) PROVE Goal
  <2>1. CASE Refuse(c)
    BY <2>1, <1>u DEF Refuse, Holds, TypeOK
  <2>2. CASE Acquire(c)
    <3>1. CASE IPOf[c] = a
      <4>1. Holders(a)' = Holders(a) \cup {c} /\ c \notin Holders(a)
        BY <2>2, <3>1 DEF Acquire, Holders, Holds, TypeOK
      <4>2. active'[a] = active[a] + 1 /\ active[a] < MaxConnsPerIP
        BY <2>2, <3>1 DEF Acquire, TypeOK
      <4>3. Cardinality(Holders(a) \cup {c}) = Cardinality(Holders(a)) + 1
        BY ONLY <1>0, <4>1, FS_AddElement
      <4>4. Cardinality(Holders(a)') = Cardinality(Holders(a)) + 1
        BY ONLY <4>1, <4>3
      <4> QED BY ONLY <1>0, <4>2, <4>4
    <3>2. CASE IPOf[c] # a
      <4>1. Holders(a)' = Holders(a) /\ active'[a] = active[a]
        BY <2>2, <3>2 DEF Acquire, Holders, Holds, TypeOK
      <4> QED BY <1>0, <4>1
    <3> QED BY <3>1, <3>2
  <2> QED BY <1>1, <2>1, <2>2 DEF Dial
<1>2. ASSUME NEW c \in Conns, HandlerStep(c) PROVE Goal
  <2>1. CASE UpgradeFails(c) \/ Release(c)
    BY <2>1, <1>r DEF UpgradeFails, Release, Holds
  <2>2. CASE Register(c) \/ Replace(c) \/ Serve(c)
    BY <2>2, <1>w DEF Register, Replace, Install, Added, Serve, Holds, HandlerPCs
  <2>3. CASE GetDevice(c) \/ DeviceGone(c) \/ FindChannel(c) \/ NoChannel(c)
             \/ SendResult(c) \/ ReadFails(c) \/ \E r \in Calls : ReadFrame(c, r)
    BY <2>3, <1>w DEF GetDevice, DeviceGone, FindChannel, NoChannel, SendResult, ReadOn,
       ReadFails, ReadFrame, Holds, HandlerPCs
  <2> QED BY <1>2, <2>1, <2>2, <2>3 DEF HandlerStep
<1>3. ASSUME NEW c \in Conns, PingStep(c) \/ PingWritten(c) \/ EnvStep(c) PROVE Goal
  BY <1>3, <1>v DEF PingStep, PingStale, PingTick, PingLock, PingFails, PingStops,
     PingWritten, EnvStep, NetChange, AgentReply
<1>4. ASSUME NEW c \in Conns, NEW e \in Causes, DisconnectStep(c, e) PROVE Goal
  BY <1>4, <1>v DEF DisconnectStep, Peek, Unregister, Detach, Notify, CloseSocket
<1>5. ASSUME NEW r \in Calls, NEW t \in IDs \cup {None},
             Resolve(r, t) \/ ResolveFails(r, t)
      PROVE Goal
  BY <1>5, <1>v DEF Resolve, ResolveFails
<1>6. ASSUME NEW r \in Calls, CallStep(r) \/ Written(r) PROVE Goal
  BY <1>6, <1>v DEF CallStep, Admit, Reject, LockWrite, WriteFails, Receive, Return, Written
<1>7. ASSUME NEW r \in Calls, NEW o \in {"timeout", "cancelled"}, GiveUp(r, o)
      PROVE Goal
  BY <1>7, <1>v DEF GiveUp
<1>8. CASE UNCHANGED vars
  BY <1>8, <1>v DEF vars
<1> QED BY <1>1, <1>2, <1>3, <1>4, <1>5, <1>6, <1>7, <1>8 DEF Next

-----------------------------------------------------------------------------
(* Who has begun which teardown.                                           *)

(* Every step leaves a teardown where it is or takes it one stage on: the  *)
(* Once and the registry's lock let nobody begin it twice.                 *)
LEMMA StageStep ==
    ASSUME TypeOK, TeardownInv, [Next]_vars, NEW d \in Conns, NEW b \in Causes
    PROVE  disc'[d][b] \in {disc[d][b], Successor[b][disc[d][b]]}
<1> DEFINE Goal == disc'[d][b] \in {disc[d][b], Successor[b][disc[d][b]]}
<1>0. TornDown(d)
  BY DEF TeardownInv
<1>u. ASSUME disc' = disc PROVE Goal
  BY <1>u
<1>m. ASSUME NEW c \in Conns, NEW e \in Causes,
             disc' = [disc EXCEPT ![c][e] = Successor[e][disc[c][e]]]
      PROVE  Goal
  <2>1. CASE c = d /\ e = b
    <3>1. disc'[d][b] = Successor[b][disc[d][b]]
      BY <1>m, <2>1 DEF TypeOK
    <3> QED BY <3>1
  <2>2. CASE ~(c = d /\ e = b)
    <3>1. disc'[d][b] = disc[d][b]
      BY <1>m, <2>2 DEF TypeOK
    <3> QED BY <3>1
  <2> QED BY <2>1, <2>2
<1>o. ASSUME NEW c \in Conns, CloseOnce(c) PROVE Goal
  <2>1. CASE disc[c]["disconnected"] = "idle"
    <3>1. disc' = [disc EXCEPT ![c]["disconnected"] = Successor["disconnected"]["idle"]]
      BY <1>o, <2>1 DEF CloseOnce, Successor
    <3> QED BY <1>m, <2>1, <3>1 DEF Causes
  <2> QED BY <1>o, <1>u, <2>1 DEF CloseOnce
<1>1. ASSUME NEW c \in Conns, HandlerStep(c) PROVE Goal
  <2>1. CASE Replace(c)
    <3> DEFINE x == devices[IDOf[c]]
    <3>1. x \in Conns /\ OwnsID(x)
      BY <2>1, ConstAssumption DEF Replace, TypeOK, ConstAssumption, TeardownInv, KeyedByID,
         OwnsID
    <3>2. disc[x]["replaced"] = "idle"
      BY <3>1 DEF TeardownInv, TornDown
    <3>3. disc' = [disc EXCEPT ![x]["replaced"] = Successor["replaced"]["idle"]]
      BY <2>1 DEF Replace, Successor
    <3> HIDE DEF x
    <3> QED BY <1>m, <3>1, <3>2, <3>3 DEF Causes
  <2>2. CASE ReadFails(c)
    BY <1>o, <2>2 DEF ReadFails
  <2>3. CASE ~Replace(c) /\ ~ReadFails(c)
    BY <1>1, <1>u, <2>3 DEF HandlerStep, UpgradeFails, Register, Serve, ReadFrame,
       GetDevice, DeviceGone, FindChannel, NoChannel, SendResult, Release, discVars
  <2> QED BY <2>1, <2>2, <2>3
<1>2. ASSUME NEW c \in Conns, PingStep(c) \/ PingWritten(c) PROVE Goal
  BY <1>2, <1>u, <1>o DEF PingStep, PingStale, PingTick, PingLock, PingFails, PingStops,
     PingWritten, discVars
<1>3. ASSUME NEW c \in Conns, Dial(c) \/ EnvStep(c) PROVE Goal
  BY <1>3, <1>u DEF Dial, Refuse, Acquire, EnvStep, NetChange, AgentReply, discVars
<1>4. ASSUME NEW c \in Conns, NEW e \in Causes, DisconnectStep(c, e) PROVE Goal
  <2>1. CASE Peek(c)
    <3>1. Successor["replaced"]["peek"] = "unregister" /\ "replaced" \in Causes
      BY DEF Successor, Causes
    <3>2. disc' = [disc EXCEPT ![c]["replaced"] = Successor["replaced"][disc[c]["replaced"]]]
      BY <2>1, <3>1 DEF Peek
    <3> QED BY <1>m, <3>1, <3>2
  <2>2. CASE Unregister(c, e) \/ Detach(c, e) \/ CloseSocket(c, e)
    <3>1. disc' = [disc EXCEPT ![c][e] = Successor[e][disc[c][e]]]
      BY <2>2 DEF Unregister, Detach, CloseSocket, Successor, Causes
    <3> QED BY <1>m, <3>1
  <2>3. ASSUME NEW r \in Calls, Notify(c, e, r) PROVE Goal
    BY <2>3, <1>u DEF Notify
  <2> QED BY <1>4, <2>1, <2>2, <2>3 DEF DisconnectStep
<1>5. ASSUME NEW r \in Calls, NEW t \in IDs \cup {None},
             Resolve(r, t) \/ ResolveFails(r, t)
      PROVE Goal
  BY <1>5, <1>u DEF Resolve, ResolveFails, discVars
<1>6. ASSUME NEW r \in Calls, CallStep(r) \/ Written(r) PROVE Goal
  BY <1>6, <1>u DEF CallStep, Admit, Reject, LockWrite, WriteFails, Receive, Return, Written,
     discVars
<1>7. ASSUME NEW r \in Calls, NEW o \in {"timeout", "cancelled"}, GiveUp(r, o) PROVE Goal
  BY <1>7, <1>u DEF GiveUp, discVars
<1>8. CASE UNCHANGED vars
  BY <1>8, <1>u DEF vars, discVars
<1> QED BY <1>1, <1>2, <1>3, <1>4, <1>5, <1>6, <1>7, <1>8 DEF Next

(* What has been begun stays begun, what is past stays past.               *)
LEMMA StagesGrow ==
    ASSUME TypeOK, TeardownInv, [Next]_vars, NEW d \in Conns
    PROVE  /\ \A b \in Causes : disc[d][b] # "idle" => disc'[d][b] # "idle"
           /\ disc[d]["disconnected"] \in Past => disc'[d]["disconnected"] \in Past
           /\ GivenUp(d) => GivenUp(d)'
<1>1. \A b \in Causes : disc'[d][b] \in {disc[d][b], Successor[b][disc[d][b]]}
  BY StageStep
<1>2. \A b \in Causes : disc[d][b] \in Stages /\ disc'[d][b] \in Stages
  BY TypeStep DEF TypeOK
<1> QED BY <1>1, <1>2 DEF Successor, Causes, Stages, Past, GivenUp

(* Nothing is begun before an agent dials.                                 *)
LEMMA DutyInit == Init => DutyInv
BY DEF Init, DutyInv, Closing, Replacing, Underway, Causes, Past

ClosingVars == <<disc, oldConn, sock, found, handler, ping>>

(* A device's own teardown and that of a newer connection, which may each  *)
(* overtake the other, leave no socket open and no waiter behind.          *)
LEMMA ClosingStep ==
    ASSUME IInv, [Next]_vars, NEW d \in Conns
    PROVE  Closing(d)'
<1>0. TypeOK /\ TeardownInv /\ TornDown(d) /\ Closing(d) /\ Delivering(d)
  BY DEF IInv, TeardownInv, DutyInv, AnswerInv
<1>g. /\ \A b \in Causes : disc[d][b] # "idle" => disc'[d][b] # "idle"
      /\ disc[d]["disconnected"] \in Past => disc'[d]["disconnected"] \in Past
      /\ GivenUp(d) => GivenUp(d)'
  BY <1>0, StagesGrow
<1>f. /\ disc \in [Conns -> [Causes -> Stages]]
      /\ handler \in [Conns -> HandlerPCs] /\ ping \in [Conns -> PingPCs]
      /\ found \in [Conns -> Conns \cup {None}]
      /\ devices \in [IDs -> Conns \cup {None}]
  BY <1>0 DEF TypeOK
<1>u. ASSUME UNCHANGED ClosingVars PROVE Closing(d)'
  BY <1>0, <1>u DEF ClosingVars, Closing, GivenUp
(* Steps of another connection's goroutines leave this device alone.       *)
<1>x. ASSUME UNCHANGED <<disc[d], oldConn[d], sock[d], found[d], handler[d], ping[d]>>
      PROVE Closing(d)'
  BY <1>0, <1>x DEF Closing, GivenUp
<1>h. ASSUME UNCHANGED <<disc[d], oldConn[d], sock[d]>>,
             found'[d] \in {found[d], None} \/ GivenUp(d) \/ found'[d] = d,
             handler'[d] = "closing" => handler[d] = "closing",
             handler[d] \in {"closing", "done"} => handler'[d] \in {"closing", "done"},
             ping[d] = "stopped" => ping'[d] = "stopped",
             handler'[d] \in {"idle", "upgrading", "replacing"} => ping'[d] = "off"
      PROVE Closing(d)'
  BY <1>0, <1>h DEF Closing, GivenUp
<1>j. Joined(d) /\ ~OwnsID(d) => GivenUp(d)
  BY <1>0 DEF TornDown, GivenUp, Causes, Past
<1>o. ASSUME NEW c \in Conns, CloseOnce(c), UNCHANGED <<oldConn, sock, found>>,
             \/ /\ handler' = [handler EXCEPT ![c] = "closing"] /\ ping' = ping
                /\ handler[c] = "reading"
             \/ /\ handler' = handler /\ ping' = [ping EXCEPT ![c] = "stopped"]
                /\ ping[c] # "off"
      PROVE Closing(d)'
  <2>1. CASE c # d
    <3>1. disc'[d] = disc[d] /\ handler'[d] = handler[d] /\ ping'[d] = ping[d]
      BY <1>0, <1>o, <2>1 DEF CloseOnce, TypeOK
    <3> QED BY <1>o, <1>x, <3>1
  <2>2. CASE c = d
    <3>1. /\ disc'[d]["replaced"] = disc[d]["replaced"]
          /\ disc'[d]["disconnected"] # "idle"
          /\ disc[d]["disconnected"] = "notify" => disc'[d]["disconnected"] = "notify"
      BY <1>0, <1>o, <2>2 DEF CloseOnce, TypeOK, Causes
    <3>2. \/ /\ handler'[d] = "closing" /\ ping'[d] = ping[d] /\ handler[d] = "reading"
          \/ /\ handler'[d] = handler[d] /\ ping'[d] = "stopped" /\ ping[d] # "off"
      BY <1>f, <1>o, <2>2
    <3>3. found'[d] = found[d] /\ oldConn' = oldConn /\ sock' = sock
      BY <1>o
    <3>4. disc'[d]["disconnected"] \in Past <=> disc[d]["disconnected"] \in Past
      BY <1>0, <1>g, <1>o, <2>2 DEF CloseOnce, TypeOK, Causes, Past
    <3> QED BY <1>0, <1>g, <3>1, <3>2, <3>3, <3>4 DEF Closing
  <2> QED BY <2>1, <2>2
<1>1. ASSUME NEW c \in Conns, Dial(c) \/ UpgradeFails(c) PROVE Closing(d)'
  <2>1. UNCHANGED <<disc, oldConn, sock, found, ping>>
    BY <1>1 DEF Dial, Refuse, Acquire, UpgradeFails, netVars, discVars, readVars
  <2>2. \/ handler'[d] = handler[d]
        \/ handler[d] \in {"idle", "upgrading"} /\ handler'[d] \in {"upgrading", "done"}
    BY <1>0, <1>1 DEF Dial, Refuse, Acquire, UpgradeFails, TypeOK
  <2> QED BY <1>0, <1>h, <2>1, <2>2 DEF Closing
<1>2. ASSUME NEW c \in Conns, HandlerStep(c) PROVE Closing(d)'
  <2>1. CASE Register(c) \/ Replace(c)
    <3>0. Install(c) /\ handler[c] = "upgrading" /\ ~Joined(c) /\ TornDown(c)
      BY <1>0, <2>1 DEF Register, Replace, Install, TeardownInv, TornDown
    <3>1. CASE c = d
      <4>1. disc[d]["replaced"] = "idle" /\ disc[d]["disconnected"] = "idle"
        BY <1>0, <3>0, <3>1 DEF TornDown, Causes
      <4>2. disc'[d] = disc[d]
        <5>1. CASE Replace(c)
          <6>1. devices[IDOf[c]] # c
            BY <3>0 DEF TornDown, OwnsID
          <6> QED BY <1>0, <3>1, <5>1, <6>1 DEF Replace, TypeOK
        <5> QED BY <2>1, <5>1 DEF Register
      <4>3. /\ found'[d] = found[d]
            /\ \/ handler'[d] = "reading"
               \/ handler'[d] = "replacing" /\ ping'[d] = ping[d]
        BY <1>0, <2>1, <3>1 DEF Register, Replace, Install, TypeOK
      <4> QED BY <1>0, <3>0, <3>1, <4>1, <4>2, <4>3 DEF Closing, GivenUp
    <3>2. CASE c # d
      <4>1. UNCHANGED <<oldConn[d], sock[d], found[d], handler[d], ping[d]>>
        BY <1>0, <2>1, <3>2 DEF Register, Replace, Install, TypeOK
      <4>2. /\ disc'[d]["disconnected"] = disc[d]["disconnected"]
            /\ disc'[d]["replaced"] \in {disc[d]["replaced"], "peek"}
        <5>1. CASE Register(c)
          BY <5>1 DEF Register
        <5>2. CASE Replace(c)
          <6>1. disc' = [disc EXCEPT ![devices[IDOf[c]]]["replaced"] = "peek"]
            BY <5>2 DEF Replace
          <6> QED BY <1>f, <6>1 DEF Causes
        <5> QED BY <2>1, <5>1, <5>2
      <4>3. found[d] \notin {None, d} => GivenUp(d)'
        BY <1>0, <1>g DEF Closing
      <4>4. disc[d]["disconnected"] \in Past => disc'[d]["disconnected"] \in Past
        BY <4>2
      <4> QED BY <1>0, <4>1, <4>2, <4>3, <4>4 DEF Closing
    <3> QED BY <3>1, <3>2
  <2>2. CASE Serve(c)
    <3>1. UNCHANGED <<disc, oldConn, sock, found>>
      BY <2>2 DEF Serve, netVars, discVars, readVars
    <3>2. c = d => ping[d] = "off" /\ handler[d] = "replacing" /\ handler'[d] = "reading"
      BY <1>0, <2>2 DEF Serve, Closing, TypeOK
    <3>3. c # d => handler'[d] = handler[d] /\ ping'[d] = ping[d]
      BY <1>0, <2>2 DEF Serve, TypeOK
    <3>4. CASE c = d
      BY <1>h, <3>1, <3>2, <3>4
    <3>5. CASE c # d
      BY <1>x, <3>1, <3>3, <3>5
    <3> QED BY <3>4, <3>5
  <2>3. CASE GetDevice(c)
    <3>1. UNCHANGED <<disc, oldConn, sock, ping>>
      BY <2>3 DEF GetDevice, netVars, discVars
    <3>2. CASE c # d
      <4>1. handler'[d] = handler[d] /\ found'[d] = found[d]
        BY <1>0, <2>3, <3>2 DEF GetDevice, TypeOK
      <4> QED BY <1>x, <3>1, <4>1
    <3>3. CASE c = d
      <4>1. /\ handler[d] = "getting" /\ handler'[d] = "looking"
            /\ found'[d] = devices[IDOf[d]]
        BY <1>0, <2>3, <3>3 DEF GetDevice, TypeOK
      <4>2. GivenUp(d) \/ found'[d] = d
        BY <1>0, <1>j, <4>1 DEF TornDown, OwnsID
      <4> QED BY <1>h, <3>1, <4>1, <4>2
    <3> QED BY <3>2, <3>3
  <2>4. CASE \/ DeviceGone(c) \/ FindChannel(c) \/ NoChannel(c) \/ SendResult(c)
             \/ \E r \in Calls : ReadFrame(c, r)
    <3>1. UNCHANGED <<disc, oldConn, sock, ping>>
      BY <2>4 DEF DeviceGone, FindChannel, NoChannel, SendResult, ReadFrame, netVars,
         discVars
    <3>2. found'[d] \in {found[d], None}
      BY <1>0, <2>4 DEF DeviceGone, FindChannel, NoChannel, SendResult, ReadFrame, TypeOK
    <3>3. \/ handler'[d] = handler[d]
          \/ /\ handler[d] \in {"reading", "getting", "looking", "sending"}
             /\ handler'[d] \in {"reading", "getting", "sending"}
      BY <1>0, <2>4 DEF DeviceGone, FindChannel, NoChannel, SendResult, ReadFrame, ReadOn,
         TypeOK
    <3>4. handler[d] \in {"idle", "upgrading", "replacing"} => ping[d] = "off"
      BY <1>0 DEF Closing
    <3> QED BY <1>h, <3>1, <3>2, <3>3, <3>4
  <2>5. CASE ReadFails(c)
    BY <1>o, <2>5 DEF ReadFails, netVars, readVars
  <2>6. CASE Release(c)
    <3>1. UNCHANGED <<disc, oldConn, sock, found, ping>>
      BY <2>6 DEF Release, netVars, discVars, readVars
    <3>2. handler'[d] = handler[d] \/ (handler[d] = "closing" /\ handler'[d] = "done")
      BY <1>f, <2>6 DEF Release
    <3>3. handler[d] \in {"idle", "upgrading", "replacing"} => ping[d] = "off"
      BY <1>0 DEF Closing
    <3> QED BY <1>h, <3>1, <3>2, <3>3
  <2> QED BY <1>1, <1>2, <2>1, <2>2, <2>3, <2>4, <2>5, <2>6 DEF HandlerStep
<1>3. ASSUME NEW c \in Conns, PingStep(c) \/ PingWritten(c) PROVE Closing(d)'
  <2>1. CASE PingStale(c) \/ PingFails(c)
    BY <1>o, <2>1 DEF PingStale, PingFails, netVars, readVars
  <2>2. CASE PingTick(c) \/ PingLock(c) \/ PingStops(c) \/ PingWritten(c)
    <3>1. UNCHANGED <<disc, oldConn, sock, found, handler>>
      BY <2>2 DEF PingTick, PingLock, PingStops, PingWritten, netVars, discVars, readVars
    <3>2. ping'[d] = ping[d] \/ ping[d] \notin {"off", "stopped"}
      BY <1>0, <2>2 DEF PingTick, PingLock, PingStops, PingWritten, TypeOK
    <3> QED BY <1>0, <1>h, <3>1, <3>2 DEF Closing
  <2> QED BY <1>3, <2>1, <2>2 DEF PingStep
<1>4. ASSUME NEW c \in Conns, NEW e \in Causes, DisconnectStep(c, e) PROVE Closing(d)'
  <2>0. UNCHANGED <<found, handler, ping>> /\ TornDown(c)
    BY <1>0, <1>4 DEF DisconnectStep, Peek, Unregister, Detach, CloseSocket, Notify,
       TeardownInv, readVars
  <2>1. CASE c # d
    <3>1. UNCHANGED <<disc[d], oldConn[d], sock[d]>>
      BY <1>0, <1>4, <2>1 DEF DisconnectStep, Peek, Unregister, Detach, CloseSocket, Notify,
         TypeOK, netVars
    <3> QED BY <1>x, <2>0, <3>1
  <2>2. CASE c = d /\ Peek(c)
    <3>1. /\ sock' = sock /\ oldConn'[d] \in Seen(d)
          /\ disc[d]["replaced"] = "peek" /\ disc'[d]["replaced"] = "unregister"
          /\ disc'[d]["disconnected"] = disc[d]["disconnected"]
      BY <1>0, <2>2 DEF Peek, TypeOK, Causes, netVars
    <3>2. ~oldConn'[d] => disc[d]["disconnected"] \in Past
      BY <1>0, <3>1 DEF Seen, TornDown, Causes, Past
    <3> QED BY <1>0, <1>g, <2>0, <3>1, <3>2 DEF Closing
  <2>3. CASE c = d /\ (Unregister(c, e) \/ Detach(c, e))
    <3>1. UNCHANGED <<sock, oldConn>>
      BY <2>3 DEF Unregister, Detach, netVars
    <3>2. /\ disc[d][e] \in {"unregister", "detach"} /\ disc'[d][e] \in {"detach", "notify"}
          /\ \A b \in Causes : b # e => disc'[d][b] = disc[d][b]
      BY <1>0, <2>3 DEF Unregister, Detach, TypeOK
    <3>3. CASE e = "replaced"
      BY <1>0, <1>g, <2>0, <3>1, <3>2, <3>3 DEF Closing, Causes
    <3>4. CASE e = "disconnected"
      BY <1>0, <1>g, <2>0, <3>1, <3>2, <3>4 DEF Closing, Causes
    <3> QED BY <3>3, <3>4 DEF Causes
  <2>4. CASE c = d /\ CloseSocket(c, e)
    <3>1. /\ disc[d][e] = "notify" /\ disc'[d][e] = "finished" /\ oldConn' = oldConn
          /\ \A b \in Causes : b # e => disc'[d][b] = disc[d][b]
          /\ sock'[d] = "closed" \/ (sock' = sock /\ e = "replaced" /\ ~oldConn[d])
      BY <1>0, <2>4 DEF CloseSocket, TypeOK
    <3>2. CASE sock'[d] = "closed"
      <4>1. disc[d]["disconnected"] # "idle" <=> disc'[d]["disconnected"] # "idle"
        BY <1>g, <3>1 DEF Causes
      <4>2. disc'[d]["replaced"] \in {"unregister", "detach", "notify"}
              => disc[d]["replaced"] \in {"unregister", "detach", "notify"}
        BY <3>1 DEF Causes
      <4> QED BY <1>0, <1>g, <2>0, <3>1, <3>2, <4>1, <4>2 DEF Closing
    <3>3. CASE sock' = sock /\ e = "replaced" /\ ~oldConn[d]
      <4>1. /\ disc'[d]["disconnected"] = disc[d]["disconnected"]
            /\ disc[d]["disconnected"] \in Past /\ disc'[d]["replaced"] = "finished"
        BY <1>0, <3>1, <3>3 DEF Closing, Causes
      <4>2. sock'[d] = "closed" \/ disc'[d]["disconnected"] = "notify"
        BY <1>0, <3>3, <4>1 DEF TornDown, Past
      <4> QED BY <1>0, <1>g, <2>0, <3>1, <4>1, <4>2 DEF Closing
    <3> QED BY <3>1, <3>2, <3>3
  <2>5. ASSUME NEW r \in Calls, Notify(c, e, r) PROVE Closing(d)'
    BY <1>u, <2>5 DEF Notify, ClosingVars, netVars, readVars
  <2> QED BY <1>4, <2>1, <2>2, <2>3, <2>4, <2>5 DEF DisconnectStep
<1>5. ASSUME NEW c \in Conns, EnvStep(c) PROVE Closing(d)'
  BY <1>5, <1>u DEF EnvStep, NetChange, AgentReply, ClosingVars, discVars, readVars
<1>6. ASSUME NEW r \in Calls, NEW t \in IDs \cup {None},
             Resolve(r, t) \/ ResolveFails(r, t)
      PROVE Closing(d)'
  BY <1>6, <1>u DEF Resolve, ResolveFails, ClosingVars, netVars, discVars, readVars
<1>7. ASSUME NEW r \in Calls, CallStep(r) \/ Written(r) PROVE Closing(d)'
  BY <1>7, <1>u DEF CallStep, Admit, Reject, LockWrite, WriteFails, Receive, Return, Written,
     ClosingVars, netVars, discVars, readVars
<1>8. ASSUME NEW r \in Calls, NEW o \in {"timeout", "cancelled"}, GiveUp(r, o)
      PROVE Closing(d)'
  BY <1>8, <1>u DEF GiveUp, ClosingVars, netVars, discVars, readVars
<1>9. CASE UNCHANGED vars
  BY <1>9, <1>u DEF vars, ClosingVars, netVars, discVars, readVars
<1> QED BY <1>1, <1>2, <1>3, <1>4, <1>5, <1>6, <1>7, <1>8, <1>9 DEF Next

(* One handler replaces a device, and it is there until it has torn it     *)
(* down.                                                                   *)
LEMMA ReplacingStep ==
    ASSUME IInv, [Next]_vars, NEW d \in Conns
    PROVE  Replacing(d)'
<1>0. TypeOK /\ TeardownInv /\ \A c \in Conns : TornDown(c) /\ Replacing(c)
  BY DEF IInv, TeardownInv, DutyInv
<1>f. /\ disc \in [Conns -> [Causes -> Stages]]
      /\ old \in [Conns -> Conns \cup {None}] /\ handler \in [Conns -> HandlerPCs]
  BY <1>0 DEF TypeOK
<1>g. \A c \in Conns : disc[c]["replaced"] # "idle" => disc'[c]["replaced"] # "idle"
  BY <1>0, StagesGrow DEF Causes
<1>o. old' = old => /\ old'[d] # None => disc'[old'[d]]["replaced"] # "idle"
                    /\ \A c \in Conns : old'[d] # None /\ old'[d] = old'[c] => d = c
  BY <1>0, <1>g DEF Replacing, TypeOK
<1>u. ASSUME old' = old, Underway(d, "replaced")' => Underway(d, "replaced"),
             \A c \in Conns : handler[c] = "replacing" => handler'[c] = "replacing"
      PROVE Replacing(d)'
  <2>1. Replacers(d) \subseteq Replacers(d)'
    BY <1>u DEF Replacers
  <2> QED BY <1>0, <1>o, <1>u, <2>1 DEF Replacing
<1>1. ASSUME NEW c \in Conns, HandlerStep(c) PROVE Replacing(d)'
  <2>1. CASE Register(c)
    <3>1. /\ old' = [old EXCEPT ![c] = None] /\ disc' = disc
          /\ handler[c] = "upgrading" /\ handler' = [handler EXCEPT ![c] = "reading"]
      BY <2>1 DEF Register, Install
    <3>2. Replacers(d) \subseteq Replacers(d)'
      BY <1>f, <3>1 DEF Replacers
    <3>3. \A b \in Conns : old'[b] # None => b # c /\ old'[b] = old[b]
      BY <1>0, <3>1 DEF TypeOK
    <3> QED BY <1>0, <3>1, <3>2, <3>3 DEF Replacing, Underway
  <2>2. CASE Replace(c)
    <3> DEFINE x == devices[IDOf[c]]
    <3>1. x \in Conns /\ x # None /\ OwnsID(x)
      BY <1>0, <2>2, ConstAssumption DEF Replace, TypeOK, ConstAssumption, TeardownInv,
         KeyedByID, OwnsID
    <3>2. disc[x]["replaced"] = "idle"
      BY <1>0, <3>1 DEF TornDown
    <3>3. /\ old' = [old EXCEPT ![c] = x] /\ handler[c] = "upgrading"
          /\ handler' = [handler EXCEPT ![c] = "replacing"]
          /\ disc' = [disc EXCEPT ![x]["replaced"] = "peek"]
      BY <2>2 DEF Replace, Install
    <3> HIDE DEF x
    <3>4. \A b \in Conns : old[b] # x
      BY <1>0, <3>1, <3>2 DEF Replacing
    <3>5. \A b \in Conns : old'[b] = IF b = c THEN x ELSE old[b]
      BY <1>f, <3>3
    <3>6. disc'[x]["replaced"] = "peek"
      BY <1>f, <3>1, <3>3 DEF Causes
    <3>7. old'[d] # None => disc'[old'[d]]["replaced"] # "idle"
      BY <1>0, <1>f, <1>g, <3>5, <3>6 DEF Replacing
    <3>8. \A b \in Conns : old'[d] # None /\ old'[d] = old'[b] => d = b
      BY <1>0, <3>4, <3>5 DEF Replacing
    <3>9. Underway(d, "replaced")' => Replacers(d)' # {}
      <4>1. CASE d = x
        <5>1. c \in Replacers(d)'
          BY <1>f, <3>3, <3>5, <4>1 DEF Replacers
        <5> QED BY <5>1
      <4>2. CASE d # x
        <5>1. Underway(d, "replaced")' => Underway(d, "replaced")
          BY <1>f, <3>3, <4>2 DEF Underway
        <5>2. Replacers(d) \subseteq Replacers(d)'
          BY <1>f, <3>3, <3>5 DEF Replacers
        <5> QED BY <1>0, <5>1, <5>2 DEF Replacing
      <4> QED BY <4>1, <4>2
    <3> QED BY <3>7, <3>8, <3>9 DEF Replacing
  <2>3. CASE Serve(c)
    <3>1. /\ old' = old /\ disc' = disc /\ disc[old[c]]["replaced"] = "finished"
          /\ handler' = [handler EXCEPT ![c] = "reading"]
      BY <2>3 DEF Serve, discVars, readVars
    <3>2. Underway(d, "replaced") => Replacers(d) \subseteq Replacers(d)'
      BY <1>f, <3>1 DEF Replacers, Underway
    <3>3. Underway(d, "replaced")' <=> Underway(d, "replaced")
      BY <3>1 DEF Underway
    <3> QED BY <1>0, <1>o, <3>1, <3>2, <3>3 DEF Replacing
  <2>4. CASE ReadFails(c)
    <3>1. /\ old' = old /\ disc'[d]["replaced"] = disc[d]["replaced"]
          /\ handler[c] = "reading" /\ handler' = [handler EXCEPT ![c] = "closing"]
      BY <1>0, <2>4 DEF ReadFails, CloseOnce, TypeOK, Causes, readVars
    <3> QED BY <1>0, <1>u, <3>1 DEF Underway, TypeOK
  <2>5. CASE \/ UpgradeFails(c) \/ GetDevice(c) \/ DeviceGone(c) \/ FindChannel(c)
             \/ NoChannel(c) \/ SendResult(c) \/ Release(c)
             \/ \E r \in Calls : ReadFrame(c, r)
    <3>1. old' = old /\ disc' = disc
      BY <2>5 DEF UpgradeFails, GetDevice, DeviceGone, FindChannel, NoChannel, SendResult,
         Release, ReadFrame, discVars, readVars
    <3>2. /\ handler[c] # "replacing"
          /\ \A b \in Conns : b # c => handler'[b] = handler[b]
      BY <1>0, <2>5 DEF UpgradeFails, GetDevice, DeviceGone, FindChannel, NoChannel,
         SendResult, Release, ReadFrame, ReadOn, TypeOK
    <3> QED BY <1>u, <3>1, <3>2 DEF Underway
  <2> QED BY <1>1, <2>1, <2>2, <2>3, <2>4, <2>5 DEF HandlerStep
<1>2. ASSUME NEW c \in Conns, Dial(c) PROVE Replacing(d)'
  <2>1. /\ old' = old /\ disc' = disc /\ handler[c] = "idle"
        /\ \A b \in Conns : b # c => handler'[b] = handler[b]
    BY <1>0, <1>2 DEF Dial, Refuse, Acquire, TypeOK, discVars, readVars
  <2> QED BY <1>u, <2>1 DEF Underway
<1>3. ASSUME NEW c \in Conns, PingStep(c) \/ PingWritten(c) PROVE Replacing(d)'
  <2>1. /\ old' = old /\ handler' = handler
        /\ disc'[d]["replaced"] = disc[d]["replaced"]
    BY <1>0, <1>3 DEF PingStep, PingStale, PingTick, PingLock, PingFails, PingStops,
       PingWritten, CloseOnce, TypeOK, Causes, discVars, readVars
  <2> QED BY <1>u, <2>1 DEF Underway
<1>4. ASSUME NEW c \in Conns, NEW e \in Causes, DisconnectStep(c, e) PROVE Replacing(d)'
  <2>1. old' = old /\ handler' = handler
    BY <1>4 DEF DisconnectStep, Peek, Unregister, Detach, CloseSocket, Notify, readVars
  <2>2. disc'[d]["replaced"] = disc[d]["replaced"] \/ Underway(d, "replaced")
    BY <1>0, <1>4 DEF DisconnectStep, Peek, Unregister, Detach, CloseSocket, Notify,
       Underway, TypeOK, Causes
  <2> QED BY <1>u, <2>1, <2>2 DEF Underway
<1>5. ASSUME NEW c \in Conns, EnvStep(c) PROVE Replacing(d)'
  BY <1>5, <1>u DEF EnvStep, NetChange, AgentReply, discVars, readVars, Underway
<1>6. ASSUME NEW r \in Calls, NEW t \in IDs \cup {None},
             Resolve(r, t) \/ ResolveFails(r, t)
      PROVE Replacing(d)'
  BY <1>6, <1>u DEF Resolve, ResolveFails, discVars, readVars, Underway
<1>7. ASSUME NEW r \in Calls, CallStep(r) \/ Written(r) PROVE Replacing(d)'
  BY <1>7, <1>u DEF CallStep, Admit, Reject, LockWrite, WriteFails, Receive, Return, Written,
     discVars, readVars, Underway
<1>8. ASSUME NEW r \in Calls, NEW o \in {"timeout", "cancelled"}, GiveUp(r, o)
      PROVE Replacing(d)'
  BY <1>8, <1>u DEF GiveUp, discVars, readVars, Underway
<1>9. CASE UNCHANGED vars
  BY <1>9, <1>u DEF vars, discVars, readVars, Underway
<1> QED BY <1>1, <1>2, <1>3, <1>4, <1>5, <1>6, <1>7, <1>8, <1>9 DEF Next

LEMMA DutyStep == IInv /\ [Next]_vars => DutyInv'
<1> SUFFICES ASSUME IInv, [Next]_vars, NEW c \in Conns
             PROVE  Closing(c)' /\ Replacing(c)'
  BY DEF DutyInv
<1> QED BY ClosingStep, ReplacingStep

-----------------------------------------------------------------------------
(* The theorems.                                                           *)

(* The conjunction of all the parts is an invariant of the relay.          *)
THEOREM Invariance == Spec => []IInv
<1>1. Init => IInv
  BY TypeInit, TeardownInit, WhereInit, AnswerInit, CapInit, SlotsInit, DutyInit
     DEF IInv
<1>2. IInv /\ [Next]_vars => IInv'
  BY TypeStep, TeardownStep, KeyedStep, WhereStep, AnswerStep, CapStep, SlotsStep, DutyStep DEF IInv
<1> QED BY <1>1, <1>2, PTL DEF Spec

(* A registered device is attached, and an attached one is registered      *)
(* unless its teardown is under way.                                       *)
THEOREM Registration == Spec => []RegisteredIsAttached
<1>1. IInv => RegisteredIsAttached
  BY DEF IInv, TypeOK, TeardownInv, TornDown, RegisteredIsAttached, Causes, Stages, Past
<1> QED BY <1>1, Invariance, PTL

(* No teardown leaves a caller without an answer on its way.               *)
THEOREM NobodyStranded == Spec => []NoStrandedCaller
<1>1. IInv => NoStrandedCaller
  BY DEF IInv
<1> QED BY <1>1, Invariance, PTL

(* A device's map holds its own unreturned calls, up to the cap.           *)
THEOREM PendingCorrect == Spec => []PendingIsOwn
<1>1. IInv => PendingIsOwn
  BY DEF IInv, CapInv, WhereaboutsInv, Holding, PendingIsOwn
<1> QED BY <1>1, Invariance, PTL

(* The slots counted for an address are those its handlers hold.           *)
THEOREM SlotsCorrect == Spec => []SlotsExact
<1>1. IInv => SlotsExact
  BY DEF IInv
<1> QED BY <1>1, Invariance, PTL

(* A result was produced by the device; a loss reported did happen.        *)
THEOREM AnswersCorrect == Spec => []AnswersAreTrue
<1>1. ASSUME IInv, NEW r \in Calls
      PROVE /\ out[r] = "result" => r \in ran[dev[r]]
            /\ out[r] = "replaced" => disc[dev[r]]["replaced"] # "idle"
            /\ out[r] = "disconnected" => ~attached[dev[r]]
  BY <1>1 DEF IInv, AnswerInv, Justified, Past
<1>2. IInv => AnswersAreTrue
  BY <1>1 DEF AnswersAreTrue
<1> QED BY <1>2, Invariance, PTL

(* A handler that is done left nothing registered, attached or open.       *)
THEOREM ExitIsClean == Spec => []CleanExit
<1>1. ASSUME IInv, NEW c \in Conns, handler[c] = "done"
      PROVE /\ sock[c] # "open"
            /\ ~OwnsID(c) /\ ~attached[c]
            /\ snap[c]["disconnected"] = {}
  BY <1>1 DEF IInv, TypeOK, TeardownInv, TornDown, Joined, Causes, Past
<1>2. IInv => CleanExit
  BY <1>1 DEF CleanExit
<1> QED BY <1>2, Invariance, PTL

(* Every teardown is begun once and goes through its stages in order.      *)
THEOREM EachTeardownOnce == Spec => TeardownsRunOnce
<1>1. IInv /\ [Next]_vars
        => [\A c \in Conns, e \in Causes :
              disc'[c][e] \in {disc[c][e], Successor[e][disc[c][e]]}]_vars
  BY StageStep DEF IInv
<1> QED BY <1>1, Invariance, PTL DEF Spec, TeardownsRunOnce

(* A device whose teardowns are over has its socket closed, whichever of   *)
(* the two came first and whatever the other saw of old.conn.              *)
THEOREM DetachedAreClosed == Spec => []DetachedIsClosed
<1>1. ASSUME IInv, NEW c \in Conns, Joined(c), ~attached[c],
             \A e \in Causes : ~Underway(c, e)
      PROVE  sock[c] = "closed"
  <2>1. TornDown(c) /\ Closing(c)
    BY <1>1 DEF IInv, TeardownInv, DutyInv
  <2>2. disc[c]["replaced"] = "finished" \/ disc[c]["disconnected"] = "finished"
    BY <1>1, <2>1 DEF TornDown, Underway, Causes, Past
  <2> QED BY <1>1, <2>1, <2>2 DEF TornDown, Closing, Underway, Causes
<1>2. IInv => DetachedIsClosed
  BY <1>1 DEF DetachedIsClosed
<1> QED BY <1>2, Invariance, PTL

(* Every teardown under way has its goroutine, and every goroutine that    *)
(* waits for one waits for one that was begun.                             *)
THEOREM NobodyWaitsInVain == Spec => []TeardownsAreRun
<1>1. ASSUME IInv, NEW c \in Conns
      PROVE  /\ Underway(c, "replaced") => \E d \in Conns : Replacers(c) = {d}
             /\ Underway(c, "disconnected") => handler[c] = "closing" \/ ping[c] = "stopped"
             /\ Replacers(c) # {} => disc[c]["replaced"] # "idle"
             /\ handler[c] = "closing" => disc[c]["disconnected"] # "idle"
  <2>1. TypeOK /\ TornDown(c) /\ Closing(c) /\ \A d \in Conns : Replacing(d)
    BY <1>1 DEF IInv, TeardownInv, DutyInv
  <2>2. c # None
    BY ConstAssumption DEF ConstAssumption
  <2>3. \A d, b \in Replacers(c) : d = b
    BY <2>1, <2>2 DEF Replacers, Replacing
  <2>4. Underway(c, "replaced") => \E d \in Conns : Replacers(c) = {d}
    <3>1. SUFFICES ASSUME Underway(c, "replaced") PROVE \E d \in Conns : Replacers(c) = {d}
      OBVIOUS
    <3>2. PICK d \in Conns : d \in Replacers(c)
      BY <2>1, <3>1 DEF Replacing, Replacers
    <3>3. Replacers(c) = {d}
      BY <2>3, <3>2
    <3> QED BY <3>3
  <2>5. Underway(c, "disconnected") => handler[c] = "closing" \/ ping[c] = "stopped"
    BY <2>1 DEF Closing, TornDown, Underway, Causes
  <2>6. Replacers(c) # {} => disc[c]["replaced"] # "idle"
    BY <2>1, <2>2 DEF Replacers, Replacing
  <2> QED BY <2>1, <2>4, <2>5, <2>6 DEF Closing
<1>2. IInv => TeardownsAreRun
  BY <1>1 DEF TeardownsAreRun
<1> QED BY <1>2, Invariance, PTL

(* Teardowns are complete: none is left half done by a goroutine that went *)
(* away, and none that is done leaves the socket of its device open.       *)
THEOREM TeardownsAreCompleted == Spec => []TeardownsComplete
BY DetachedAreClosed, NobodyWaitsInVain, PTL DEF TeardownsComplete

(* A result that came in is put in the channel of the caller who waits, or *)
(* its connection was already being given up.                              *)
THEOREM ResultsArrive == Spec => NoResultLost
<1> DEFINE Goal == \A c \in Conns, r \in Calls :
                     /\ frame[c] = r /\ frame'[c] = None
                     /\ InFlight(r) /\ ch[r] = "empty"
                     => ch'[r] = "result" \/ GivenUp(c)
<1>1. ASSUME IInv, [Next]_vars, NEW d \in Conns, NEW r \in Calls,
             frame[d] = r, frame'[d] = None, InFlight(r), ch[r] = "empty"
      PROVE  ch'[r] = "result" \/ GivenUp(d)
  <2>0. /\ TypeOK /\ TeardownInv /\ TornDown(d) /\ Closing(d) /\ Delivering(d)
        /\ Holding(d) /\ r # None
    BY <1>1, ConstAssumption DEF IInv, TeardownInv, DutyInv, AnswerInv, WhereaboutsInv,
       ConstAssumption
  <2>1. dev[r] = d
    BY <1>1, <2>0 DEF Delivering, Holding
  <2>2. \/ attached[d] /\ r \in pending[d]
        \/ \E e \in Causes : r \in snap[d][e]
    BY <1>1, <2>1 DEF IInv, NoStrandedCaller, Reachable
  <2>3. (\E e \in Causes : r \in snap[d][e]) => GivenUp(d)
    BY <2>0 DEF TornDown, GivenUp
  <2>4. CASE DeviceGone(d)
    <3>1. Joined(d) /\ ~OwnsID(d)
      BY <2>0, <2>4, ConstAssumption DEF DeviceGone, TornDown, OwnsID, ConstAssumption
    <3> QED BY <2>0, <3>1 DEF TornDown, GivenUp, Causes, Past
  <2>5. CASE NoChannel(d)
    <3>1. found[d] # None /\ r \notin pending[found[d]]
      BY <1>1, <2>0, <2>5 DEF NoChannel, Delivering
    <3>2. CASE found[d] = d
      BY <2>2, <2>3, <3>1, <3>2
    <3>3. CASE found[d] # d
      BY <2>0, <3>1, <3>3 DEF Closing
    <3> QED BY <3>2, <3>3
  <2>6. CASE SendResult(d)
    BY <1>1, <2>0, <2>6 DEF SendResult, Offer, TypeOK
  <2>7. CASE ~(DeviceGone(d) \/ NoChannel(d) \/ SendResult(d))
    <3> SUFFICES frame'[d] = frame[d] \/ frame'[d] \in Calls
      BY <1>1, <2>0, ConstAssumption DEF ConstAssumption
    <3>f. frame \in [Conns -> Calls \cup {None}]
      BY <2>0 DEF TypeOK
    <3>u. frame' = frame => frame'[d] = frame[d]
      OBVIOUS
    <3>1. ASSUME NEW c \in Conns, HandlerStep(c)
          PROVE  frame'[d] = frame[d] \/ frame'[d] \in Calls
      <4>1. CASE DeviceGone(c) \/ NoChannel(c) \/ SendResult(c)
        <5>1. c # d /\ frame' = [frame EXCEPT ![c] = None]
          BY <2>7, <4>1 DEF DeviceGone, NoChannel, SendResult, ReadOn
        <5> QED BY <3>f, <5>1
      <4>2. ASSUME NEW q \in Calls, ReadFrame(c, q)
            PROVE  frame'[d] = frame[d] \/ frame'[d] \in Calls
        <5>1. frame' = [frame EXCEPT ![c] = q]
          BY <4>2 DEF ReadFrame
        <5> QED BY <3>f, <5>1
      <4>3. CASE \/ UpgradeFails(c) \/ Register(c) \/ Replace(c) \/ Serve(c)
                 \/ GetDevice(c) \/ FindChannel(c) \/ ReadFails(c) \/ Release(c)
        BY <3>u, <4>3 DEF UpgradeFails, Register, Replace, Install, Added, Serve, GetDevice,
           FindChannel, ReadFails, Release, readVars
      <4> QED BY <3>1, <4>1, <4>2, <4>3 DEF HandlerStep
    <3>2. ASSUME NEW c \in Conns,
                 Dial(c) \/ PingStep(c) \/ PingWritten(c) \/ EnvStep(c)
          PROVE  frame' = frame
      BY <3>2 DEF Dial, Refuse, Acquire, PingStep, PingStale, PingTick, PingLock,
         PingFails, PingStops, PingWritten, EnvStep, NetChange, AgentReply, readVars
    <3>3. ASSUME NEW c \in Conns, NEW e \in Causes, DisconnectStep(c, e)
          PROVE  frame' = frame
      BY <3>3 DEF DisconnectStep, Peek, Unregister, Detach, Notify, CloseSocket, readVars
    <3>4. ASSUME NEW q \in Calls, NEW t \in IDs \cup {None},
                 Resolve(q, t) \/ ResolveFails(q, t)
          PROVE  frame' = frame
      BY <3>4 DEF Resolve, ResolveFails, readVars
    <3>5. ASSUME NEW q \in Calls, CallStep(q) \/ Written(q) PROVE frame' = frame
      BY <3>5 DEF CallStep, Admit, Reject, LockWrite, WriteFails, Receive, Return, Written,
         readVars
    <3>6. ASSUME NEW q \in Calls, NEW o \in {"timeout", "cancelled"}, GiveUp(q, o)
          PROVE  frame' = frame
      BY <3>6 DEF GiveUp, readVars
    <3>7. UNCHANGED vars => frame' = frame
      BY DEF vars, readVars
    <3> QED BY <1>1, <3>u, <3>1, <3>2, <3>3, <3>4, <3>5, <3>6, <3>7 DEF Next
  <2> QED BY <2>4, <2>5, <2>6, <2>7
<1>2. IInv /\ [Next]_vars => [Goal]_vars
  BY <1>1
<1> QED BY <1>2, Invariance, PTL DEF Spec, NoResultLost

-----------------------------------------------------------------------------
(* The relay implements CommandService: every step is a step of the        *)
(* service or leaves what the service shows unchanged.                     *)

ShownVars == <<devices, disc, dev, ran, out>>

(* A teardown that moves on from or past idle is an end on record.         *)
LEMMA EndedStep ==
    ASSUME NEW c \in Conns, NEW e \in Causes, NEW v \in Stages \ {"idle"}, TypeOK,
           disc' = [disc EXCEPT ![c][e] = v]
    PROVE  Ended' = [Ended EXCEPT ![c] = @ \cup {e}]
<1>1. \A b \in Conns, x \in Causes :
        disc'[b][x] = IF b = c /\ x = e THEN v ELSE disc[b][x]
  BY DEF TypeOK
<1>2. ASSUME NEW b \in Conns
      PROVE  Ended'[b] = IF b = c THEN Ended[b] \cup {e} ELSE Ended[b]
  BY <1>1 DEF Ended
<1> QED BY <1>2 DEF Ended

(* Every step of the relay is a step of the service, or invisible to it.   *)
LEMMA ServiceStep == IInv /\ [Next]_vars => [Service!SNext]_(Service!svars)
<1> SUFFICES ASSUME IInv, [Next]_vars
             PROVE  Service!SNext \/ UNCHANGED Service!svars
  OBVIOUS
<1> USE ConstAssumption DEF ConstAssumption
<1> DEFINE Goal == Service!SNext \/ UNCHANGED Service!svars
<1>0. TypeOK
  BY DEF IInv
<1>u. ASSUME UNCHANGED <<devices, Ended, dev, ran, out>> PROVE Goal
  BY <1>u DEF Service!svars
<1>v. ASSUME UNCHANGED ShownVars PROVE Goal
  BY <1>v, <1>u DEF ShownVars, Ended
<1>c. ASSUME NEW c \in Conns, CloseOnce(c), UNCHANGED <<devices, dev, ran, out>> PROVE Goal
  <2>1. CASE disc' = disc
    BY <2>1, <1>c, <1>v DEF ShownVars
  <2>2. CASE disc' = [disc EXCEPT ![c]["disconnected"] = "unregister"]
    <3>1. Ended' = [Ended EXCEPT ![c] = @ \cup {"disconnected"}]
      BY <1>0, <2>2, EndedStep DEF Causes, Stages
    <3>2. Service!End(c)
      BY <1>c, <3>1 DEF Service!End
    <3> QED BY <3>2 DEF Service!SNext
  <2> QED BY <1>c, <2>1, <2>2 DEF CloseOnce
<1>1. ASSUME NEW c \in Conns, HandlerStep(c) PROVE Goal
  <2>1. CASE Register(c) \/ Replace(c)
    <3>1. Install(c) /\ TornDown(c)
      BY <2>1 DEF Register, Replace, IInv, TeardownInv
    <3>2. Ended[c] = {} /\ devices[IDOf[c]] # c
      BY <3>1 DEF Install, Added, TornDown, Ended, OwnsID
    <3>3. CASE Register(c)
      <4>1. Ended' = Ended /\ devices[IDOf[c]] = None
        BY <3>3 DEF Register, Ended
      <4>2. Service!Join(c)
        BY <3>1, <3>2, <4>1 DEF Service!Join, Install, Added, callVars
      <4> QED BY <4>2 DEF Service!SNext
    <3>4. CASE Replace(c)
      <4>1. devices[IDOf[c]] \in Conns /\ devices[IDOf[c]] # None
        BY <1>0, <3>4 DEF Replace, TypeOK
      <4>2. Ended' = [Ended EXCEPT ![devices[IDOf[c]]] = @ \cup {"replaced"}]
        <5>1. disc' = [disc EXCEPT ![devices[IDOf[c]]]["replaced"] = "peek"]
          BY <3>4 DEF Replace
        <5>2. "peek" \in Stages \ {"idle"} /\ "replaced" \in Causes
          BY DEF Stages, Causes
        <5> QED BY ONLY <1>0, <4>1, <5>1, <5>2, EndedStep
      <4>3. Service!Join(c)
        BY <3>1, <3>2, <4>1, <4>2 DEF Service!Join, Install, Added, callVars
      <4> QED BY <4>3 DEF Service!SNext
    <3> QED BY <2>1, <3>3, <3>4
  <2>2. CASE ReadFails(c)
    BY <2>2, <1>c DEF ReadFails, netVars, callVars
  <2>3. CASE \/ UpgradeFails(c) \/ Serve(c) \/ GetDevice(c) \/ DeviceGone(c)
             \/ FindChannel(c) \/ NoChannel(c) \/ SendResult(c) \/ Release(c)
             \/ \E r \in Calls : ReadFrame(c, r)
    BY <2>3, <1>v DEF UpgradeFails, Serve, GetDevice, DeviceGone, FindChannel, NoChannel,
       SendResult, Release, ReadFrame, ShownVars, netVars, discVars, callVars
  <2> QED BY <1>1, <2>1, <2>2, <2>3 DEF HandlerStep
<1>2. ASSUME NEW c \in Conns, PingStep(c) \/ PingWritten(c) PROVE Goal
  <2>1. CASE PingStale(c) \/ PingFails(c)
    BY <2>1, <1>c DEF PingStale, PingFails, netVars, callVars
  <2>2. CASE PingTick(c) \/ PingLock(c) \/ PingStops(c) \/ PingWritten(c)
    BY <2>2, <1>v DEF PingTick, PingLock, PingStops, PingWritten, ShownVars, netVars,
       discVars, callVars
  <2> QED BY <1>2, <2>1, <2>2 DEF PingStep
<1>3. ASSUME NEW c \in Conns, Dial(c) PROVE Goal
  BY <1>3, <1>v DEF Dial, Refuse, Acquire, ShownVars, netVars, discVars, callVars
<1>4. ASSUME NEW c \in Conns, EnvStep(c) PROVE Goal
  <2>1. ASSUME NEW v \in NetStates, NetChange(c, v) PROVE Goal
    BY <2>1, <1>v DEF NetChange, ShownVars, discVars, callVars
  <2>2. ASSUME NEW r \in Calls, AgentReply(c, r) PROVE Goal
    <3>1. Holding(c)
      BY DEF IInv, WhereaboutsInv
    <3>2. r \in sent[c] /\ r \notin ran[c]
      BY <2>2 DEF AgentReply
    <3>3. Ended' = Ended
      BY <2>2 DEF AgentReply, Ended, discVars
    <3>4. Service!Run(c, r)
      BY <2>2, <3>1, <3>2, <3>3 DEF Service!Unsent, Service!Run, AgentReply, Holding, callVars
    <3> QED BY <3>4 DEF Service!SNext
  <2> QED BY <1>4, <2>1, <2>2 DEF EnvStep
<1>5. ASSUME NEW c \in Conns, NEW e \in Causes, DisconnectStep(c, e) PROVE Goal
  <2>e. ASSUME NEW b \in Causes, NEW v \in Stages, v # "idle", disc[c][b] # "idle",
               disc' = [disc EXCEPT ![c][b] = v]
        PROVE Ended' = Ended
    BY <1>0, <2>e DEF Ended, TypeOK, Causes
  <2>1. CASE Peek(c)
    <3>1. Ended' = Ended
      BY <2>1, <2>e DEF Peek, Causes, Stages
    <3> QED BY <2>1, <3>1, <1>u DEF Peek, netVars, callVars
  <2>2. CASE Unregister(c, e)
    <3>1. Ended' = Ended /\ e \in Ended[c]
      BY <2>2, <2>e DEF Unregister, Stages, Ended
    <3>2. CASE StillCurrent(c)
      <4>1. Service!GiveUpID(c)
        BY <2>2, <3>1, <3>2 DEF Service!GiveUpID, Unregister, StillCurrent, netVars, callVars
      <4> QED BY <4>1 DEF Service!SNext
    <3>3. CASE ~StillCurrent(c)
      BY <2>2, <3>1, <3>3, <1>u DEF Unregister, netVars, callVars
    <3> QED BY <3>2, <3>3
  <2>3. CASE Detach(c, e)
    <3>1. Ended' = Ended
      BY <2>3, <2>e DEF Detach, Stages
    <3> QED BY <2>3, <3>1, <1>u DEF Detach, netVars, callVars
  <2>4. CASE CloseSocket(c, e)
    <3>1. Ended' = Ended
      BY <2>4, <2>e DEF CloseSocket, Stages
    <3> QED BY <2>4, <3>1, <1>u DEF CloseSocket, callVars
  <2>5. ASSUME NEW r \in Calls, Notify(c, e, r) PROVE Goal
    BY <2>5, <1>v DEF Notify, ShownVars, netVars
  <2> QED BY <1>5, <2>1, <2>2, <2>3, <2>4, <2>5 DEF DisconnectStep
<1>6. ASSUME NEW r \in Calls, NEW t \in IDs \cup {None}, Resolve(r, t) PROVE Goal
  <2>1. PICK i \in IDs : Matching(t) = {i} /\ dev' = [dev EXCEPT ![r] = devices[i]]
    BY <1>6 DEF Resolve
  <2>2. devices[i] # None
    <3>1. Matching(t) \subseteq Registered
      BY DEF Matching
    <3> QED BY <2>1, <3>1 DEF Registered
  <2>3. dev[r] = None /\ out[r] = "none"
    BY <1>6 DEF Resolve, IInv, WhereaboutsInv, Placed
  <2>4. Ended' = Ended
    BY <1>6 DEF Resolve, Ended, discVars
  <2>5. Service!Address(r, i)
    BY <1>6, <2>1, <2>2, <2>3, <2>4 DEF Service!Address, Resolve, netVars
  <2> QED BY <2>5 DEF Service!SNext
<1>7. ASSUME NEW r \in Calls, NEW t \in IDs \cup {None}, ResolveFails(r, t) PROVE Goal
  <2>1. dev[r] = None /\ out[r] = "none"
    BY <1>7 DEF ResolveFails, IInv, WhereaboutsInv, Placed
  <2>2. Ended' = Ended
    BY <1>7 DEF ResolveFails, Ended, discVars
  <2>3. Registered = Service!Owned
    BY DEF Registered, Service!Owned
  <2>4. CASE t # None
    <3>1. t \in IDs /\ Registered # IDs
      <4>1. t \in IDs /\ Registered \cap {t} # {t}
        BY <1>7, <2>4 DEF ResolveFails, Matching
      <4> QED BY <4>1
    <3>2. ResolveError(t) = "not_found"
      BY <2>4 DEF ResolveError
    <3>3. Service!RefuseCall(r, "not_found")
      BY <1>7, <2>1, <2>2, <2>3, <3>1, <3>2 DEF Service!RefuseCall, ResolveFails, netVars
    <3> QED BY <3>3 DEF Service!SNext, Service!Refusals
  <2>5. CASE t = None /\ Registered = {}
    <3>1. Service!RefuseCall(r, "no_device")
      BY <1>7, <2>1, <2>2, <2>3, <2>5 DEF Service!RefuseCall, ResolveFails, ResolveError,
         netVars
    <3> QED BY <3>1 DEF Service!SNext, Service!Refusals
  <2>6. CASE t = None /\ Registered # {}
    <3>1. \A i \in IDs : Registered # {i}
      BY <1>7, <2>6 DEF ResolveFails, Matching
    <3>2. Service!RefuseCall(r, "ambiguous")
      BY <1>7, <2>1, <2>2, <2>3, <2>6, <3>1 DEF Service!RefuseCall, ResolveFails,
         ResolveError, netVars
    <3> QED BY <3>2 DEF Service!SNext, Service!Refusals
  <2> QED BY <2>4, <2>5, <2>6
<1>8. ASSUME NEW r \in Calls, CallStep(r) \/ Written(r) PROVE Goal
  <2>1. CASE Admit(r) \/ LockWrite(r) \/ Return(r) \/ Written(r)
    BY <2>1, <1>v DEF Admit, LockWrite, Return, Written, ShownVars, netVars, discVars
  <2>2. ASSUME NEW v \in {"result", "replaced", "disconnected", "too_many", "send_failed"}
        PROVE Service!Answer(r, v) => Goal
    BY DEF Service!SNext, Service!Reasons, Service!Unsent
  <2>3. CASE Reject(r) \/ WriteFails(r) \/ Receive(r)
    <3>1. dev[r] \in Conns /\ Joined(dev[r]) /\ out[r] = "none"
      <4>1. Placed(r)
        BY DEF IInv, WhereaboutsInv
      <4> QED BY <1>0, <2>3, <4>1 DEF Reject, WriteFails, Receive, Placed, InFlight, TypeOK
    <3>2. TornDown(dev[r]) /\ Holding(dev[r]) /\ Delivering(dev[r]) /\ Justified(r)
      BY <3>1 DEF IInv, TeardownInv, WhereaboutsInv, AnswerInv
    <3>3. Ended' = Ended /\ UNCHANGED <<devices, dev, ran>>
      BY <2>3 DEF Reject, WriteFails, Receive, Ended, netVars, discVars
    <3>4. CASE Reject(r)
      <4>1. r \notin ran[dev[r]]
        BY <3>2, <3>4 DEF Reject, Holding, Delivering
      <4>2. ~attached[dev[r]] => Ended[dev[r]] # {}
        BY <3>1, <3>2 DEF TornDown, Ended, Past, Causes
      <4>3. \/ out' = [out EXCEPT ![r] = "disconnected"] /\ ~attached[dev[r]]
            \/ out' = [out EXCEPT ![r] = "too_many"]
        BY <3>4 DEF Reject, Accepting
      <4>4. Service!Answer(r, "disconnected") \/ Service!Answer(r, "too_many")
        BY <3>1, <3>3, <4>1, <4>2, <4>3 DEF Service!Unsent, Service!Answer
      <4> QED BY <4>4, <2>2
    <3>5. CASE WriteFails(r)
      <4>1. r \notin ran[dev[r]]
        BY <3>2, <3>5 DEF WriteFails, Holding, Delivering
      <4>2. Service!Answer(r, "send_failed")
        BY <3>1, <3>3, <3>5, <4>1 DEF Service!Unsent, Service!Answer, WriteFails, Leave
      <4> QED BY <4>2, <2>2
    <3>6. CASE Receive(r)
      <4>1. ch[r] \in Answers /\ out' = [out EXCEPT ![r] = ch[r]]
        BY <1>0, <3>6 DEF Receive, Leave, TypeOK
      <4>2. CASE ch[r] = "result"
        <5>1. Service!Answer(r, "result")
          BY <3>1, <3>2, <3>3, <4>1, <4>2 DEF Service!Unsent, Service!Answer, Justified
        <5> QED BY <5>1, <2>2
      <4>3. ch[r] \in Causes => ch[r] \in Ended[dev[r]]
        BY <3>1, <3>2 DEF Justified, Past, Ended
      <4>4. CASE ch[r] = "replaced"
        <5>1. Service!Answer(r, "replaced")
          BY <3>1, <3>3, <4>1, <4>3, <4>4 DEF Service!Unsent, Service!Answer, Causes
        <5> QED BY <5>1, <2>2
      <4>5. CASE ch[r] = "disconnected"
        <5>1. Service!Answer(r, "disconnected")
          BY <3>1, <3>3, <4>1, <4>3, <4>5 DEF Service!Unsent, Service!Answer, Causes
        <5> QED BY <5>1, <2>2
      <4> QED BY <4>1, <4>2, <4>4, <4>5 DEF Answers, Causes
    <3> QED BY <2>3, <3>4, <3>5, <3>6
  <2> QED BY <1>8, <2>1, <2>3 DEF CallStep
<1>9. ASSUME NEW r \in Calls, NEW o \in {"timeout", "cancelled"}, GiveUp(r, o)
      PROVE Goal
  <2>1. dev[r] \in Conns /\ out[r] = "none"
    BY <1>0, <1>9 DEF GiveUp, IInv, WhereaboutsInv, Placed, InFlight, TypeOK
  <2>2. Ended' = Ended
    BY <1>9 DEF GiveUp, Ended, discVars
  <2>3. Service!Answer(r, o)
    BY <1>9, <2>1, <2>2 DEF Service!Unsent, Service!Answer, GiveUp, Leave, netVars
  <2> QED BY <2>3 DEF Service!SNext, Service!Reasons
<1>10. CASE UNCHANGED vars
  BY <1>10, <1>v DEF vars, ShownVars, netVars, discVars, callVars
<1> QED BY <1>1, <1>2, <1>3, <1>4, <1>5, <1>6, <1>7, <1>8, <1>9, <1>10 DEF Next

(* Callers see of the relay what CommandService allows: a command goes to  *)
(* the connection that owns the device id, and its answer is true.         *)
THEOREM Refinement == Spec => RefinesService
<1>1. Init => Service!SInit
  BY ConstAssumption DEF Init, Service!SInit, Ended, Causes
<1>2. IInv /\ [Next]_vars => [Service!SNext]_(Service!svars)
  BY ServiceStep
<1> QED BY <1>1, <1>2, Invariance, PTL DEF Spec, RefinesService, Service!Spec

-----------------------------------------------------------------------------
(* What callers and agents have of the service, whoever implements it.     *)

(* The service's own invariant, and with it the relay's.                   *)
LEMMA ServiceInit == Service!SInit => Service!SInv
BY ConstAssumption DEF ConstAssumption, Service!SInit, Service!SInv, Service!RunOnce,
   Service!FinalHandOver, Service!Refusals, Service!Unsent, Service!Reasons

LEMMA ServiceInvStep ==
    Service!SInv /\ [Service!SNext]_(Service!svars) => Service!SInv'
<1> SUFFICES ASSUME Service!SInv, [Service!SNext]_(Service!svars) PROVE Service!SInv'
  OBVIOUS
<1> USE ConstAssumption DEF ConstAssumption
<1>1. ASSUME NEW c \in Conns, Service!Join(c) PROVE Service!SInv'
  BY <1>1 DEF Service!SInv, Service!RunOnce, Service!FinalHandOver, Service!Join
<1>2. ASSUME NEW c \in Conns, Service!End(c) PROVE Service!SInv'
  BY <1>2 DEF Service!SInv, Service!RunOnce, Service!FinalHandOver, Service!End
<1>3. ASSUME NEW c \in Conns, Service!GiveUpID(c) PROVE Service!SInv'
  BY <1>3 DEF Service!SInv, Service!RunOnce, Service!FinalHandOver, Service!GiveUpID
<1>4. ASSUME NEW c \in Conns, NEW r \in Calls, Service!Run(c, r) PROVE Service!SInv'
  BY <1>4 DEF Service!SInv, Service!RunOnce, Service!FinalHandOver, Service!Run,
     Service!Refusals, Service!Unsent, Service!Reasons
<1>5. ASSUME NEW r \in Calls, NEW i \in IDs, Service!Address(r, i) PROVE Service!SInv'
  BY <1>5 DEF Service!SInv, Service!RunOnce, Service!FinalHandOver, Service!Address,
     Service!Refusals
<1>6. ASSUME NEW r \in Calls, NEW v \in Service!Refusals, Service!RefuseCall(r, v)
      PROVE Service!SInv'
  BY <1>6 DEF Service!SInv, Service!RunOnce, Service!FinalHandOver, Service!RefuseCall,
     Service!Refusals
<1>7. ASSUME NEW r \in Calls, NEW v \in Service!Reasons \cup Service!Unsent,
             Service!Answer(r, v)
      PROVE Service!SInv'
  BY <1>7 DEF Service!SInv, Service!RunOnce, Service!FinalHandOver, Service!Answer,
     Service!Refusals, Service!Unsent, Service!Reasons
<1>8. CASE UNCHANGED Service!svars
  BY <1>8 DEF Service!SInv, Service!RunOnce, Service!FinalHandOver, Service!svars
<1> QED BY <1>1, <1>2, <1>3, <1>4, <1>5, <1>6, <1>7, <1>8 DEF Service!SNext

(* A command runs at most once over all of an agent's connections, and     *)
(* never for a caller told that it was not sent.                           *)
THEOREM RunsOnce == Spec => []CommandsRunOnce
<1>1. Service!SInv => CommandsRunOnce
  BY DEF Service!SInv, CommandsRunOnce
<1> QED BY <1>1, ServiceInit, ServiceInvStep, Refinement, PTL
        DEF RefinesService, Service!Spec

(* A connection that was replaced never gets its device id back.           *)
THEOREM HandOverIsFinal == Spec => []HandOversAreFinal
<1>1. Service!SInv => HandOversAreFinal
  BY DEF Service!SInv, HandOversAreFinal
<1> QED BY <1>1, ServiceInit, ServiceInvStep, Refinement, PTL
        DEF RefinesService, Service!Spec

=============================================================================
