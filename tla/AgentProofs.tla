---------------------------- MODULE AgentProofs ----------------------------
(***************************************************************************)
(* What is proved of AgentConnection for every set of managers and         *)
(* sockets, every number of mishaps and both granularities of the threads. *)
(***************************************************************************)
EXTENDS AgentProps, FiniteSetTheorems, TLAPS

(* Past connectRelay's check of stopped, the looper keeps the manager from *)
(* being stopped until the socket exists: stop() runs on the looper too.   *)
PastTheCheck == {"claiming", "dialling"}

DialsForLive == main.pc \in PastTheCheck => life[main.mgr] # "stopped"

IInv == TypeOK /\ DialsForLive

(* The initial state satisfies the invariant.                              *)
LEMMA InitInv == Init => IInv
  <1> SUFFICES ASSUME Init PROVE IInv  OBVIOUS
  <1>1. 0 \in 0..MaxMishaps  BY AgentAssumption
  <1>2. TypeOK
    BY <1>1 DEF Init, TypeOK, Lives, Conns, MainPCs, CbPCs
  <1>3. DialsForLive
    BY DEF Init, DialsForLive, PastTheCheck
  <1> QED  BY <1>2, <1>3 DEF IInv

-----------------------------------------------------------------------------
(* A counted mishap stays within its bound.                                *)
LEMMA MishapType ==
  ASSUME TypeOK, Mishap
  PROVE  mishaps' \in 0..MaxMishaps
  BY AgentAssumption DEF TypeOK, Mishap

(* What forceReconnect does before it cancels.                             *)
LEMMA ForceTypes ==
  ASSUME TypeOK, NEW m \in Managers, ForceReconnect(m)
  PROVE  /\ gen' \in [Managers -> Sockets \cup {None}]
         /\ main' \in [pc : MainPCs, mgr : Managers \cup {None}]
         /\ main'.pc \in PastTheCheck => main' = main
  <1>1. CASE MayForce(m)
    BY <1>1 DEF ForceReconnect, Goto, TypeOK, MainPCs, PastTheCheck
  <1>2. CASE ~MayForce(m)
    BY <1>2 DEF ForceReconnect, TypeOK
  <1> QED  BY <1>1, <1>2

(* Types: the service and the runnables of the looper.                     *)
LEMMA LooperTypes ==
  ASSUME TypeOK, NEW m \in Managers,
         \/ Create(m) \/ Destroy(m) \/ Reconfigure(m)
         \/ NetworkChanges(m) \/ PostSwitch(m) \/ LooperStep(m)
  PROVE  TypeOK'
  <1> USE DEF TypeOK, Lives, Conns, MainPCs, CbPCs, mgrVars, queue, mainVars,
              sockVars, Goto, Idle
  <1>1. CASE Create(m)   BY <1>1 DEF Create
  <1>2. CASE Destroy(m)  BY <1>2 DEF Destroy, Closing
  <1>3. CASE Reconfigure(m)
    BY <1>3, MishapType, ForceTypes DEF Reconfigure
  <1>4. CASE NetworkChanges(m)
    BY <1>4, MishapType DEF NetworkChanges
  <1>5. CASE PostSwitch(m)  BY <1>5 DEF PostSwitch
  <1>6. CASE Heartbeat(m)   BY <1>6 DEF Heartbeat
  <1>7. CASE Retry(m)
    <2>1. retries' \in [Managers -> Nat]  BY <1>7 DEF Retry
    <2>2. main' \in [pc : MainPCs, mgr : Managers \cup {None}]
      BY <1>7 DEF Retry
    <2> QED  BY <1>7, <2>1, <2>2 DEF Retry
  <1>8. CASE SwitchNetwork(m)  BY <1>8, ForceTypes DEF SwitchNetwork
  <1> QED
    BY <1>1, <1>2, <1>3, <1>4, <1>5, <1>6, <1>7, <1>8 DEF LooperStep

(* Types: the steps of connectRelay and forceReconnect.                    *)
LEMMA ConnectTypes ==
  ASSUME TypeOK, NEW m \in Managers, ConnectStep(m)
  PROVE  TypeOK'
  <1> USE DEF TypeOK, Lives, Conns, MainPCs, CbPCs, mgrVars, queue, mainVars,
              sockVars, Goto, Idle
  <1>1. CASE Beat(m)    BY <1>1 DEF Beat
  <1>2. CASE Cancel(m)  BY <1>2 DEF Cancel, Ended
  <1>3. CASE Clear(m)   BY <1>3 DEF Clear
  <1>4. CASE Connect(m)
    <2>1. conn' \in Conns  BY <1>4 DEF Connect, Unconfigured
    <2>2. main' = Idle \/ Goto("claiming", m)  BY <1>4, Zenon DEF Connect
    <2>3. main' \in [pc : MainPCs, mgr : Managers \cup {None}]
      BY <2>2
    <2> QED  BY <1>4, <2>1, <2>3 DEF Connect
  <1>5. CASE Claim(m)   BY <1>5 DEF Claim
  <1>6. CASE Assign(m)  BY <1>6 DEF Assign
  <1>7. CASE \E s \in Sockets : Dial(m, s)
    <2>1. PICK s \in Sockets : Dial(m, s)  BY <1>7
    <2> QED  BY <2>1 DEF Dial
  <1> QED
    BY <1>1, <1>2, <1>3, <1>4, <1>5, <1>6, <1>7 DEF ConnectStep

(* Types: a socket and its listener.                                       *)
LEMMA SocketTypes ==
  ASSUME TypeOK, NEW s \in Sockets, ListenerStep(s) \/ NetworkStep(s)
  PROVE  TypeOK'
  <1> USE DEF TypeOK, Lives, Conns, MainPCs, CbPCs, mgrVars, queue, mainVars,
              sockVars, Done, Step, Ended
  <1>1. CASE Begin(s)     BY <1>1 DEF Begin
  <1>2. CASE Gate(s)      BY <1>2 DEF Gate
  <1>3. CASE OnOpen(s)    BY <1>3 DEF OnOpen
  <1>4. CASE OnEnd(s)     BY <1>4 DEF OnEnd
  <1>5. CASE Schedule(s)  BY <1>5 DEF Schedule
  <1>6. CASE Post(s)
    <2>1. \A n \in Managers : retries[n] + 1 \in Nat  BY DEF TypeOK
    <2>2. retries' \in [Managers -> Nat]
      BY <1>6, <2>1 DEF Post, Posted
    <2> QED  BY <1>6, <2>2 DEF Post
  <1>7. CASE Opens(s)     BY <1>7 DEF Opens
  <1>8. CASE Fails(s)     BY <1>8, MishapType DEF Fails
  <1>9. CASE Closes(s)    BY <1>9 DEF Closes
  <1>10. CASE Replaced(s)
    <2>1. mishaps' \in 0..MaxMishaps
      BY <1>10, AgentAssumption DEF Replaced
    <2> QED  BY <1>10, <2>1 DEF Replaced
  <1> QED
    BY <1>1, <1>2, <1>3, <1>4, <1>5, <1>6, <1>7, <1>8, <1>9, <1>10
    DEF ListenerStep, NetworkStep

-----------------------------------------------------------------------------
(* Only onDestroy stops a manager, and only between runnables.             *)
LEMMA LiveLooper ==
  ASSUME TypeOK, DialsForLive, NEW m \in Managers,
         \/ Create(m) \/ Destroy(m) \/ Reconfigure(m)
         \/ NetworkChanges(m) \/ PostSwitch(m) \/ LooperStep(m)
  PROVE  DialsForLive'
  <1> USE DEF TypeOK, DialsForLive, PastTheCheck, mgrVars, mainVars, Goto,
              Idle, LooperFree
  <1>1. CASE Create(m)   BY <1>1 DEF Create
  <1>2. CASE Destroy(m)  BY <1>2 DEF Destroy
  <1>3. CASE Reconfigure(m)     BY <1>3, ForceTypes DEF Reconfigure
  <1>4. CASE NetworkChanges(m)  BY <1>4 DEF NetworkChanges
  <1>5. CASE PostSwitch(m)      BY <1>5 DEF PostSwitch
  <1>6. CASE LooperStep(m)
    <2>1. CASE Heartbeat(m)  BY <2>1 DEF Heartbeat
    <2>2. CASE Retry(m)
      <3>1. main'.pc \notin PastTheCheck  BY <2>2 DEF Retry
      <3> QED  BY <3>1
    <2>3. CASE SwitchNetwork(m)  BY <2>3, ForceTypes DEF SwitchNetwork
    <2> QED  BY <1>6, <2>1, <2>2, <2>3 DEF LooperStep
  <1> QED  BY <1>1, <1>2, <1>3, <1>4, <1>5, <1>6

(* connectRelay passes its check only for a manager that is not stopped.   *)
LEMMA LiveConnect ==
  ASSUME TypeOK, DialsForLive, NEW m \in Managers, ConnectStep(m)
  PROVE  DialsForLive'
  <1> USE DEF TypeOK, DialsForLive, PastTheCheck, mgrVars, mainVars, Goto,
              Idle, At
  <1>1. CASE Beat(m)    BY <1>1 DEF Beat
  <1>2. CASE Cancel(m)  BY <1>2 DEF Cancel
  <1>3. CASE Clear(m)   BY <1>3 DEF Clear
  <1>4. CASE Connect(m)
    <2>1. CASE main' = Idle  BY <2>1
    <2>2. CASE MayConnect(m) /\ Goto("claiming", m) /\ life' = life
      BY <2>2 DEF MayConnect
    <2> QED  BY <1>4, <2>1, <2>2 DEF Connect
  <1>5. CASE Claim(m)   BY <1>5 DEF Claim
  <1>6. CASE Assign(m)  BY <1>6 DEF Assign
  <1>7. CASE \E s \in Sockets : Dial(m, s)
    <2>1. PICK s \in Sockets : Dial(m, s)  BY <1>7
    <2> QED  BY <2>1 DEF Dial
  <1> QED
    BY <1>1, <1>2, <1>3, <1>4, <1>5, <1>6, <1>7 DEF ConnectStep

(* Sockets and listeners touch neither the looper nor a manager's life.    *)
LEMMA LiveSocket ==
  ASSUME DialsForLive, NEW s \in Sockets, ListenerStep(s) \/ NetworkStep(s)
  PROVE  DialsForLive'
  BY DEF DialsForLive, ListenerStep, NetworkStep, Begin, Gate, OnOpen, OnEnd,
         Schedule, Post, Opens, Fails, Closes, Replaced, mgrVars, mainVars

-----------------------------------------------------------------------------
(* Every step preserves the invariant.                                     *)
LEMMA StepInv == IInv /\ [Next]_vars => IInv'
  <1> SUFFICES ASSUME IInv, [Next]_vars PROVE IInv'  OBVIOUS
  <1> USE DEF IInv
  <1>1. CASE UNCHANGED vars
    BY <1>1 DEF vars, mgrVars, queue, mainVars, sockVars, TypeOK, DialsForLive
  <1>2. ASSUME NEW m \in Managers,
               \/ Create(m) \/ Destroy(m) \/ Reconfigure(m)
               \/ NetworkChanges(m) \/ PostSwitch(m) \/ LooperStep(m)
        PROVE IInv'
    BY <1>2, LooperTypes, LiveLooper
  <1>3. ASSUME NEW m \in Managers, ConnectStep(m)
        PROVE IInv'
    BY <1>3, ConnectTypes, LiveConnect
  <1>4. ASSUME NEW s \in Sockets, ListenerStep(s) \/ NetworkStep(s)
        PROVE IInv'
    BY <1>4, SocketTypes, LiveSocket
  <1> QED  BY <1>1, <1>2, <1>3, <1>4 DEF Next

THEOREM Invariant == Spec => []IInv
  BY InitInv, StepInv, PTL DEF Spec

(* Every variable keeps its type.                                          *)
THEOREM TypeCorrect == Spec => []TypeOK
  <1>1. IInv => TypeOK  BY DEF IInv
  <1> QED  BY <1>1, Invariant, PTL

-----------------------------------------------------------------------------
(* Only Dial makes a socket dial, and the looper vouches for its manager.  *)
LEMMA DialerIsLive ==
  ASSUME IInv, [Next]_vars, NEW s \in Sockets,
         wire[s] # "dialling", wire'[s] = "dialling"
  PROVE  life[owner'[s]] # "stopped"
  <1> USE DEF IInv, TypeOK, mgrVars, queue, mainVars, sockVars
  <1>1. PICK m \in Managers, t \in Sockets : Dial(m, t)
    <2>1. CASE UNCHANGED vars  BY <2>1 DEF vars
    <2>2. ASSUME NEW m \in Managers,
                 \/ Create(m) \/ Destroy(m) \/ Reconfigure(m)
                 \/ NetworkChanges(m) \/ PostSwitch(m) \/ LooperStep(m)
          PROVE FALSE
      BY <2>2 DEF Create, Destroy, Reconfigure, NetworkChanges, PostSwitch,
                  LooperStep, Heartbeat, Retry, SwitchNetwork
    <2>3. ASSUME NEW m \in Managers,
                 Beat(m) \/ Cancel(m) \/ Clear(m) \/ Connect(m) \/ Claim(m)
                 \/ Assign(m)
          PROVE FALSE
      BY <2>3 DEF Beat, Cancel, Ended, Clear, Connect, Claim, Assign
    <2>4. ASSUME NEW t \in Sockets, ListenerStep(t) \/ NetworkStep(t)
          PROVE FALSE
      BY <2>4 DEF ListenerStep, NetworkStep, Begin, Gate, OnOpen, OnEnd,
                  Schedule, Post, Opens, Fails, Closes, Replaced, Ended, Live
    <2> QED  BY <2>1, <2>2, <2>3, <2>4 DEF Next, ConnectStep
  <1>2. owner'[s] = m
    BY <1>1 DEF Dial
  <1>3. life[m] # "stopped"
    BY <1>1 DEF Dial, At, DialsForLive, PastTheCheck
  <1> QED  BY <1>2, <1>3

(* A stopped manager opens no socket (ConnectionManager.connectRelay).     *)
THEOREM StoppedNeverDials == Spec => StoppedOpensNothing
  <1>1. IInv /\ [Next]_vars =>
          [\A s \in Sockets :
             wire[s] # "dialling" /\ wire'[s] = "dialling" =>
               life[owner'[s]] # "stopped"]_vars
    BY DialerIsLive
  <1> QED  BY <1>1, Invariant, PTL DEF Spec, StoppedOpensNothing

-----------------------------------------------------------------------------
(* Reconnects are paid for.  A loss is a socket whose listener will post a *)
(* reconnect: it is on its way, or its socket has ended while it has the   *)
(* current epoch of a manager that runs.                                   *)
Loss(s) ==
    \/ cb[s] = "posting"
    \/ /\ life[owner[s]] # "stopped"
       /\ \/ cb[s] = "scheduling"
          \/ cb[s] = "acting" /\ Event(s) = "end"
          \/ "end" \in due[s] /\ IsCurrent(s)

Losses(m) == {s \in Sockets : owner[s] = m /\ Loss(s)}

PaidFor == \A m \in Managers : retries[m] + Cardinality(Losses(m)) <= mishaps

(* A listener that reacts to the end of its socket has no other event left. *)
EventInv ==
    \A s \in Sockets :
        /\ wire[s] \in {"free", "dialling"} => due[s] = {} /\ cb[s] = "none"
        /\ "end" \in due[s] => wire[s] = "ended"
        /\ cb[s] \in {"gating", "acting"} => due[s] # {}
        /\ cb[s] \in {"scheduling", "posting"} => due[s] = {"end"}

(* What ends a socket without a mishap ends none that has the current      *)
(* epoch of a running manager: forceReconnect has made it stale before,    *)
(* and only stop() closes sockets.                                         *)
Opened(s, m) == s \in Sockets /\ owner[s] = m /\ wire[s] # "free"

OwnerInv ==
    /\ \A m \in Managers : ws[m] # None => Opened(ws[m], m)
    /\ main.pc = "assigning" => Opened(made, main.mgr)
    /\ main.pc = "cancelling" => gen[main.mgr] = None
    /\ \A s \in shut : owner[s] \in Managers /\ life[owner[s]] = "stopped"

LossInv == IInv /\ EventInv /\ OwnerInv /\ PaidFor

-----------------------------------------------------------------------------
(* How each step changes the losses of a manager.  Most leave sockets and  *)
(* listeners alone, or take the epoch from one.                            *)
LEMMA QuietLoss ==
  ASSUME NEW m \in Managers, TypeOK, UNCHANGED <<owner, due, cb>>,
         gen'[m] \in {gen[m], None},
         life[m] = "stopped" => life'[m] = "stopped"
  PROVE  Losses(m)' \subseteq Losses(m)
  BY AgentAssumption DEF Losses, Loss, IsCurrent, Event

(* The end of a socket is at most one loss, and none if it is stale or its *)
(* manager stopped.                                                        *)
LEMMA EndedLoss ==
  ASSUME NEW m \in Managers, NEW s \in Sockets, TypeOK, EventInv,
         wire[s] \in {"dialling", "open"}, Ended(s),
         UNCHANGED <<owner, gen, life, cb>>
  PROVE  /\ Losses(m)' \subseteq Losses(m) \cup {s}
         /\ gen[owner[s]] # s \/ life[owner[s]] = "stopped" =>
              Losses(m)' \subseteq Losses(m)
  <1>1. \A t \in Sockets \ {s} : due'[t] = due[t]
    BY DEF Ended, TypeOK
  <1>2. due'[s] = due[s] \cup {"end"} /\ "end" \notin due[s]
    BY DEF Ended, TypeOK, EventInv
  <1>3. cb[s] \in {"none", "gating", "acting"}
    BY <1>2 DEF TypeOK, EventInv, CbPCs
  <1>4. cb[s] = "acting" => Event(s)' = "open"
    BY <1>2 DEF TypeOK, EventInv, Event
  <1>5. ASSUME NEW t \in Losses(m)', t # s
        PROVE  t \in Losses(m)
    BY <1>1, <1>5 DEF Losses, Loss, IsCurrent, Event
  <1>6. ASSUME gen[owner[s]] # s \/ life[owner[s]] = "stopped"
        PROVE  s \notin Losses(m)'
    BY <1>3, <1>4, <1>6 DEF Losses, Loss, IsCurrent
  <1> QED  BY <1>5, <1>6

(* A socket that is dialled or has opened is no loss.                      *)
LEMMA DialLoss ==
  ASSUME NEW m \in Managers, NEW n \in Managers, NEW s \in Sockets,
         TypeOK, EventInv, Dial(n, s)
  PROVE  Losses(m)' \subseteq Losses(m)
  <1>1. cb[s] = "none" /\ due'[s] = {} /\ cb' = cb /\ life' = life
    BY DEF Dial, Available, EventInv, TypeOK
  <1>2. s \notin Losses(m)'
    BY <1>1 DEF Losses, Loss
  <1>3. ASSUME NEW t \in Losses(m)', t # s
        PROVE  t \in Losses(m)
    <2>1. owner'[t] = owner[t] /\ due'[t] = due[t]
      BY <1>3 DEF Dial, TypeOK, Losses
    <2>2. gen'[m] = t => gen[m] = t
      BY <1>3 DEF Dial, TypeOK
    <2> QED  BY <1>1, <1>3, <2>1, <2>2 DEF Losses, Loss, IsCurrent, Event
  <1> QED  BY <1>2, <1>3

LEMMA OpensLoss ==
  ASSUME NEW m \in Managers, NEW s \in Sockets, TypeOK, EventInv, Opens(s)
  PROVE  Losses(m)' \subseteq Losses(m)
  <1>1. cb[s] = "none" /\ "end" \notin due'[s] /\ UNCHANGED <<owner, gen, life, cb>>
    BY DEF Opens, EventInv, TypeOK, mgrVars
  <1>2. s \notin Losses(m)'
    BY <1>1 DEF Losses, Loss
  <1>3. \A t \in Sockets \ {s} : due'[t] = due[t]
    BY DEF Opens, TypeOK
  <1> QED  BY <1>1, <1>2, <1>3 DEF Losses, Loss, IsCurrent, Event

(* A listener posts for the loss that it is.                               *)
LEMMA ListenerLoss ==
  ASSUME NEW m \in Managers, NEW s \in Sockets, TypeOK, EventInv,
         ListenerStep(s)
  PROVE  /\ Losses(m)' \subseteq Losses(m)
         /\ Post(s) /\ owner[s] = m => s \in Losses(m) /\ s \notin Losses(m)'
  <1>1. UNCHANGED <<owner, gen, life>>
    BY DEF ListenerStep, Begin, Gate, OnOpen, OnEnd, Schedule, Post, mgrVars
  <1>2. \A t \in Sockets \ {s} : due'[t] = due[t] /\ cb'[t] = cb[t]
    BY DEF ListenerStep, Begin, Gate, OnOpen, OnEnd, Schedule, Post, Done,
           Step, TypeOK
  <1>3. ASSUME NEW t \in Losses(m)', t # s
        PROVE  t \in Losses(m)
    BY <1>1, <1>2, <1>3 DEF Losses, Loss, IsCurrent, Event
  <1>4. s \in Losses(m)' => s \in Losses(m)
    <2> USE <1>1 DEF Losses, Loss, IsCurrent, Done, Step, TypeOK, EventInv,
                     Event
    <2>1. CASE Begin(s)     BY <2>1 DEF Begin
    <2>2. CASE Gate(s)      BY <2>2 DEF Gate
    <2>3. CASE OnOpen(s)    BY <2>3 DEF OnOpen
    <2>4. CASE OnEnd(s)     BY <2>4 DEF OnEnd
    <2>5. CASE Schedule(s)  BY <2>5 DEF Schedule
    <2>6. CASE Post(s)      BY <2>6 DEF Post
    <2> QED
      BY <2>1, <2>2, <2>3, <2>4, <2>5, <2>6 DEF ListenerStep
  <1>5. ASSUME Post(s), owner[s] = m
        PROVE  s \in Losses(m) /\ s \notin Losses(m)'
    <2>1. cb[s] = "posting" /\ cb'[s] = "none" /\ due[s] = {"end"}
      BY <1>5 DEF Post, Done, TypeOK, EventInv
    <2>2. due'[s] = {}
      BY <1>5, <2>1 DEF Post, Done, Event, TypeOK
    <2> QED  BY <1>5, <2>1, <2>2 DEF Losses, Loss
  <1> QED  BY <1>3, <1>4, <1>5

-----------------------------------------------------------------------------
(* Losses are finite in number, and counted monotonically.                 *)
LEMMA LossesFinite ==
  ASSUME NEW m \in Managers
  PROVE  IsFiniteSet(Losses(m)) /\ IsFiniteSet(Losses(m)')
  BY AgentAssumption, FS_Subset DEF Losses

(* No new loss, no new reconnect.                                          *)
LEMMA NothingToPay ==
  ASSUME NEW m \in Managers, TypeOK, TypeOK', PaidFor,
         Losses(m)' \subseteq Losses(m),
         retries'[m] <= retries[m], mishaps' >= mishaps
  PROVE  retries'[m] + Cardinality(Losses(m)') <= mishaps'
  <1>1. /\ Cardinality(Losses(m)') <= Cardinality(Losses(m))
        /\ Cardinality(Losses(m)') \in Nat /\ Cardinality(Losses(m)) \in Nat
    BY LossesFinite, FS_Subset, FS_CardinalityType
  <1>2. retries[m] \in Nat /\ retries'[m] \in Nat /\ mishaps \in Int /\ mishaps' \in Int
    BY AgentAssumption DEF TypeOK
  <1>3. retries[m] + Cardinality(Losses(m)) <= mishaps
    BY DEF PaidFor
  <1> QED  BY <1>1, <1>2, <1>3

(* One loss and one mishap.                                                *)
LEMMA LossPaid ==
  ASSUME NEW m \in Managers, NEW s \in Sockets, TypeOK, TypeOK', PaidFor,
         Losses(m)' \subseteq Losses(m) \cup {s},
         retries' = retries, mishaps' = mishaps + 1
  PROVE  retries'[m] + Cardinality(Losses(m)') <= mishaps'
  <1>1. /\ IsFiniteSet(Losses(m) \cup {s})
        /\ Cardinality(Losses(m) \cup {s}) \in Nat
        /\ Cardinality(Losses(m)) \in Nat
        /\ Cardinality(Losses(m) \cup {s}) <= Cardinality(Losses(m)) + 1
    <2>1. IsFiniteSet(Losses(m)) /\ Cardinality(Losses(m)) \in Nat
      BY LossesFinite, FS_CardinalityType
    <2>2. /\ IsFiniteSet(Losses(m) \cup {s})
          /\ \/ Cardinality(Losses(m) \cup {s}) = Cardinality(Losses(m))
             \/ Cardinality(Losses(m) \cup {s}) = Cardinality(Losses(m)) + 1
      BY <2>1, FS_AddElement
    <2> QED  BY <2>1, <2>2
  <1>2. /\ Cardinality(Losses(m)') <= Cardinality(Losses(m) \cup {s})
        /\ Cardinality(Losses(m)') \in Nat
    BY <1>1, LossesFinite, FS_Subset, FS_CardinalityType
  <1>3. retries[m] \in Nat /\ mishaps \in Int
    BY AgentAssumption DEF TypeOK
  <1>4. retries[m] + Cardinality(Losses(m)) <= mishaps
    BY DEF PaidFor
  <1> QED  BY <1>1, <1>2, <1>3, <1>4

(* A loss becomes a reconnect.                                             *)
LEMMA LossPosted ==
  ASSUME NEW m \in Managers, NEW s \in Losses(m), TypeOK, TypeOK', PaidFor,
         Losses(m)' \subseteq Losses(m), s \notin Losses(m)',
         retries'[m] = retries[m] + 1, mishaps' = mishaps
  PROVE  retries'[m] + Cardinality(Losses(m)') <= mishaps'
  <1>1. /\ IsFiniteSet(Losses(m) \ {s})
        /\ Cardinality(Losses(m) \ {s}) = Cardinality(Losses(m)) - 1
        /\ Cardinality(Losses(m)) \in Nat
        /\ Cardinality(Losses(m) \ {s}) \in Nat
    BY LossesFinite, FS_RemoveElement, FS_CardinalityType
  <1>2. /\ Cardinality(Losses(m)') <= Cardinality(Losses(m) \ {s})
        /\ Cardinality(Losses(m)') \in Nat
    <2>1. Losses(m)' \subseteq Losses(m) \ {s}  OBVIOUS
    <2> QED  BY <1>1, <2>1, LossesFinite, FS_Subset, FS_CardinalityType
  <1>3. retries[m] \in Nat /\ mishaps \in Int
    BY AgentAssumption DEF TypeOK
  <1>4. retries[m] + Cardinality(Losses(m)) <= mishaps
    BY DEF PaidFor
  <1> QED  BY <1>1, <1>2, <1>3, <1>4

-----------------------------------------------------------------------------
(* The supporting invariants, step by step.                                *)
LEMMA EventStep ==
  ASSUME TypeOK, EventInv, [Next]_vars
  PROVE  EventInv'
  <1> USE DEF EventInv, TypeOK, mgrVars, queue, mainVars, sockVars
  <1>1. CASE UNCHANGED vars  BY <1>1 DEF vars
  <1>2. ASSUME NEW m \in Managers,
               \/ Create(m) \/ Destroy(m) \/ Reconfigure(m)
               \/ NetworkChanges(m) \/ PostSwitch(m) \/ LooperStep(m)
               \/ Beat(m) \/ Clear(m) \/ Connect(m) \/ Claim(m) \/ Assign(m)
        PROVE EventInv'
    BY <1>2 DEF Create, Destroy, Reconfigure, NetworkChanges, PostSwitch,
                LooperStep, Heartbeat, Retry, SwitchNetwork, Beat, Clear,
                Connect, Claim, Assign
  <1>3. ASSUME NEW m \in Managers, Cancel(m)  PROVE EventInv'
    BY <1>3 DEF Cancel, Live, Ended
  <1>4. ASSUME NEW m \in Managers, NEW s \in Sockets, Dial(m, s)
        PROVE EventInv'
    BY <1>4 DEF Dial, Available
  <1>5. ASSUME NEW s \in Sockets, ListenerStep(s)  PROVE EventInv'
    <2> USE DEF Done, Step, Event, CbPCs
    <2>1. CASE Begin(s)     BY <2>1 DEF Begin
    <2>2. CASE Gate(s)      BY <2>2 DEF Gate
    <2>3. CASE OnOpen(s)    BY <2>3 DEF OnOpen
    <2>4. CASE OnEnd(s)     BY <2>4 DEF OnEnd
    <2>5. CASE Schedule(s)  BY <2>5 DEF Schedule
    <2>6. CASE Post(s)      BY <2>6 DEF Post
    <2> QED
      BY <1>5, <2>1, <2>2, <2>3, <2>4, <2>5, <2>6 DEF ListenerStep
  <1>6. ASSUME NEW s \in Sockets, NetworkStep(s)  PROVE EventInv'
    BY <1>6 DEF NetworkStep, Opens, Fails, Closes, Replaced, Ended, Live
  <1> QED
    BY <1>1, <1>2, <1>3, <1>4, <1>5, <1>6 DEF Next, ConnectStep

LEMMA OwnerLooper ==
  ASSUME TypeOK, OwnerInv, NEW m \in Managers,
         \/ Create(m) \/ Destroy(m) \/ Reconfigure(m)
         \/ NetworkChanges(m) \/ PostSwitch(m) \/ LooperStep(m)
  PROVE  OwnerInv'
  <1> USE DEF OwnerInv, Opened, TypeOK, mgrVars, queue, mainVars, sockVars,
              Goto, Idle, LooperFree, ForceReconnect
  <1>1. CASE Create(m)   BY <1>1 DEF Create
  <1>2. CASE Destroy(m)  BY <1>2 DEF Destroy, Closing
  <1>3. CASE Reconfigure(m)     BY <1>3 DEF Reconfigure
  <1>4. CASE NetworkChanges(m)  BY <1>4 DEF NetworkChanges
  <1>5. CASE PostSwitch(m)      BY <1>5 DEF PostSwitch
  <1>6. CASE Heartbeat(m)       BY <1>6 DEF Heartbeat
  <1>7. CASE Retry(m)
    <2>1. main'.pc \in {"connecting", "idle"}  BY <1>7 DEF Retry
    <2> QED  BY <1>7, <2>1 DEF Retry
  <1>8. CASE SwitchNetwork(m)   BY <1>8 DEF SwitchNetwork
  <1> QED
    BY <1>1, <1>2, <1>3, <1>4, <1>5, <1>6, <1>7, <1>8 DEF LooperStep

LEMMA OwnerConnect ==
  ASSUME TypeOK, OwnerInv, NEW m \in Managers, ConnectStep(m)
  PROVE  OwnerInv'
  <1> USE DEF OwnerInv, Opened, TypeOK, mgrVars, queue, mainVars, sockVars,
              Goto, Idle, At
  <1>1. CASE Beat(m)    BY <1>1 DEF Beat
  <1>2. CASE Cancel(m)  BY <1>2 DEF Cancel, Ended
  <1>3. CASE Clear(m)   BY <1>3 DEF Clear
  <1>4. CASE Connect(m)
    <2>1. main' = Idle \/ Goto("claiming", m)  BY <1>4, Zenon DEF Connect
    <2>2. main'.pc \in {"idle", "claiming"}  BY <2>1
    <2> QED  BY <1>4, <2>2 DEF Connect
  <1>5. CASE Claim(m)   BY <1>5 DEF Claim
  <1>6. CASE Assign(m)  BY <1>6 DEF Assign
  <1>7. CASE \E s \in Sockets : Dial(m, s)
    <2>1. PICK s \in Sockets : Dial(m, s)  BY <1>7
    <2>2. \A n \in Managers : ws[n] # s
      BY <2>1, AgentAssumption DEF Dial, Available
    <2>3. \A n \in Managers : ws'[n] # None => Opened(ws[n], n)'
      BY <2>1, <2>2 DEF Dial
    <2>4. main'.pc = "assigning" /\ main'.mgr = m /\ Opened(made, m)'
      BY <2>1 DEF Dial
    <2>5. \A t \in shut' : owner'[t] \in Managers /\ life'[owner'[t]] = "stopped"
      BY <2>1 DEF Dial
    <2> QED  BY <2>3, <2>4, <2>5
  <1> QED
    BY <1>1, <1>2, <1>3, <1>4, <1>5, <1>6, <1>7 DEF ConnectStep

LEMMA OwnerSocket ==
  ASSUME TypeOK, OwnerInv, NEW s \in Sockets, ListenerStep(s) \/ NetworkStep(s)
  PROVE  OwnerInv'
  <1>1. UNCHANGED <<life, ws, gen, main, made, owner, shut>>
    BY DEF ListenerStep, NetworkStep, Begin, Gate, OnOpen, OnEnd, Schedule,
           Post, Opens, Fails, Closes, Replaced, mgrVars, mainVars
  <1>2. \A t \in Sockets : wire[t] # "free" => wire'[t] # "free"
    BY DEF ListenerStep, NetworkStep, Begin, Gate, OnOpen, OnEnd, Schedule,
           Post, Opens, Fails, Closes, Replaced, Ended, TypeOK
  <1> QED  BY <1>1, <1>2 DEF OwnerInv, Opened

LEMMA OwnerStep ==
  ASSUME TypeOK, OwnerInv, [Next]_vars
  PROVE  OwnerInv'
  <1>1. CASE UNCHANGED vars
    BY <1>1 DEF vars, mgrVars, mainVars, sockVars, OwnerInv, Opened
  <1>2. CASE Next
    BY <1>2, OwnerLooper, OwnerConnect, OwnerSocket DEF Next
  <1> QED  BY <1>1, <1>2

(* Every reconnect and every loss is paid for by a mishap.                 *)
LEMMA PaidStep ==
  ASSUME TypeOK, TypeOK', EventInv, OwnerInv, PaidFor, [Next]_vars
  PROVE  PaidFor'
  <1> SUFFICES ASSUME NEW m \in Managers
               PROVE  retries'[m] + Cardinality(Losses(m)') <= mishaps'
    BY DEF PaidFor
  <1> USE DEF mgrVars, queue, mainVars, sockVars
  <1>1. CASE UNCHANGED vars
    <2>1. Losses(m)' \subseteq Losses(m)  BY <1>1, QuietLoss DEF vars
    <2> QED  BY <1>1, <2>1, NothingToPay DEF vars, TypeOK
  <1>2. ASSUME NEW n \in Managers,
               \/ Create(n) \/ Destroy(n) \/ Reconfigure(n)
               \/ NetworkChanges(n) \/ PostSwitch(n) \/ LooperStep(n)
               \/ Beat(n) \/ Clear(n) \/ Connect(n) \/ Claim(n) \/ Assign(n)
        PROVE  retries'[m] + Cardinality(Losses(m)') <= mishaps'
    <2>1. UNCHANGED <<owner, due, cb>>
      BY <1>2 DEF Create, Destroy, Reconfigure, NetworkChanges, PostSwitch,
                  LooperStep, Heartbeat, Retry, SwitchNetwork, Beat, Clear,
                  Connect, Claim, Assign
    <2>2. gen'[m] \in {gen[m], None}
      BY <1>2 DEF Create, Destroy, Reconfigure, NetworkChanges, PostSwitch,
                  LooperStep, Heartbeat, Retry, SwitchNetwork, Beat, Clear,
                  Connect, Claim, Assign, ForceReconnect, TypeOK
    <2>3. life[m] = "stopped" => life'[m] = "stopped"
      BY <1>2 DEF Create, Destroy, Reconfigure, NetworkChanges, PostSwitch,
                  LooperStep, Heartbeat, Retry, SwitchNetwork, Beat, Clear,
                  Connect, Claim, Assign, TypeOK
    <2>4. retries'[m] <= retries[m] /\ mishaps' >= mishaps
      <3>1. CASE Create(n) \/ Destroy(n) \/ PostSwitch(n) \/ Heartbeat(n)
                 \/ SwitchNetwork(n) \/ Beat(n) \/ Clear(n) \/ Connect(n)
                 \/ Claim(n) \/ Assign(n)
        <4>1. retries'[m] = retries[m] \/ retries'[m] = 0
          BY <3>1 DEF Create, Destroy, PostSwitch, Heartbeat, SwitchNetwork,
                      Beat, Clear, Connect, Claim, Assign, TypeOK
        <4>2. mishaps' = mishaps
          BY <3>1 DEF Create, Destroy, PostSwitch, Heartbeat, SwitchNetwork,
                      Beat, Clear, Connect, Claim, Assign
        <4> QED  BY <4>1, <4>2, AgentAssumption DEF TypeOK
      <3>2. CASE Retry(n)
        <4>1. retries'[m] = retries[m] \/ retries'[m] = retries[m] - 1
          BY <3>2 DEF Retry, TypeOK
        <4> QED  BY <3>2, <4>1, AgentAssumption DEF Retry, TypeOK
      <3>3. CASE Reconfigure(n) \/ NetworkChanges(n)
        <4>1. retries' = retries /\ mishaps' = mishaps + 1
          BY <3>3 DEF Reconfigure, NetworkChanges, Mishap
        <4> QED  BY <4>1, AgentAssumption DEF TypeOK
      <3> QED  BY <1>2, <3>1, <3>2, <3>3 DEF LooperStep
    <2>5. Losses(m)' \subseteq Losses(m)  BY <2>1, <2>2, <2>3, QuietLoss
    <2> QED  BY <2>4, <2>5, NothingToPay
  <1>3. ASSUME NEW n \in Managers, Cancel(n)
        PROVE  retries'[m] + Cardinality(Losses(m)') <= mishaps'
    <2>1. UNCHANGED <<owner, gen, life, cb, retries, mishaps>>
      BY <1>3 DEF Cancel
    <2>2. CASE ~Live(ws[n])
      <3>1. due' = due  BY <1>3, <2>2 DEF Cancel
      <3>2. Losses(m)' \subseteq Losses(m)  BY <2>1, <3>1, QuietLoss
      <3> QED  BY <2>1, <3>2, NothingToPay DEF TypeOK
    <2>3. CASE Live(ws[n])
      <3>1. /\ ws[n] \in Sockets /\ Ended(ws[n])
            /\ wire[ws[n]] \in {"dialling", "open"}
        BY <1>3, <2>3 DEF Cancel, Live, TypeOK
      <3>2. gen[owner[ws[n]]] # ws[n]
        BY <1>3, <3>1, AgentAssumption DEF Cancel, At, OwnerInv, Opened
      <3>3. Losses(m)' \subseteq Losses(m)
        BY <2>1, <3>1, <3>2, EndedLoss
      <3> QED  BY <2>1, <3>3, NothingToPay DEF TypeOK
    <2> QED  BY <2>2, <2>3
  <1>4. ASSUME NEW n \in Managers, NEW s \in Sockets, Dial(n, s)
        PROVE  retries'[m] + Cardinality(Losses(m)') <= mishaps'
    <2>1. Losses(m)' \subseteq Losses(m)  BY <1>4, DialLoss
    <2> QED  BY <1>4, <2>1, NothingToPay DEF Dial, TypeOK
  <1>5. ASSUME NEW s \in Sockets, ListenerStep(s)
        PROVE  retries'[m] + Cardinality(Losses(m)') <= mishaps'
    <2>1. Losses(m)' \subseteq Losses(m)  BY <1>5, ListenerLoss
    <2>2. mishaps' = mishaps
      BY <1>5 DEF ListenerStep, Begin, Gate, OnOpen, OnEnd, Schedule, Post
    <2>3. CASE Post(s) /\ owner[s] = m
      <3>1. s \in Losses(m) /\ s \notin Losses(m)'
        BY <1>5, <2>3, ListenerLoss
      <3>2. retries'[m] = retries[m] + 1
        BY <2>3 DEF Post, Posted, TypeOK
      <3> QED  BY <2>1, <2>2, <3>1, <3>2, LossPosted
    <2>4. CASE ~(Post(s) /\ owner[s] = m)
      <3>1. retries'[m] = retries[m]
        BY <1>5, <2>4 DEF ListenerStep, Begin, Gate, OnOpen, OnEnd, Schedule,
                          Post, Posted, TypeOK
      <3> QED  BY <2>1, <2>2, <3>1, NothingToPay DEF TypeOK
    <2> QED  BY <2>3, <2>4
  <1>6. ASSUME NEW s \in Sockets, NetworkStep(s)
        PROVE  retries'[m] + Cardinality(Losses(m)') <= mishaps'
    <2>1. UNCHANGED <<owner, gen, life, cb, retries>>
      BY <1>6 DEF NetworkStep, Opens, Fails, Closes, Replaced
    <2>2. CASE Opens(s)
      <3>1. Losses(m)' \subseteq Losses(m)  BY <2>2, OpensLoss
      <3> QED  BY <2>1, <2>2, <3>1, NothingToPay DEF Opens, TypeOK
    <2>3. CASE Fails(s)
      <3>1. Losses(m)' \subseteq Losses(m) \cup {s}
        BY <2>1, <2>3, EndedLoss DEF Fails, Live
      <3> QED  BY <2>1, <2>3, <3>1, LossPaid DEF Fails, Mishap
    <2>4. CASE Closes(s)
      <3>1. life[owner[s]] = "stopped"  BY <2>4 DEF Closes, OwnerInv
      <3>2. Losses(m)' \subseteq Losses(m)
        BY <2>1, <2>4, <3>1, EndedLoss DEF Closes
      <3> QED  BY <2>1, <2>4, <3>2, NothingToPay DEF Closes, TypeOK
    <2>5. CASE Replaced(s) /\ Superseded(s)
      <3>1. Losses(m)' \subseteq Losses(m)
        BY <2>1, <2>5, EndedLoss DEF Replaced, Superseded
      <3> QED  BY <2>1, <2>5, <3>1, NothingToPay DEF Replaced, TypeOK
    <2>6. CASE Replaced(s) /\ ~Superseded(s)
      <3>1. Losses(m)' \subseteq Losses(m) \cup {s}
        BY <2>1, <2>6, EndedLoss DEF Replaced
      <3> QED  BY <2>1, <2>6, <3>1, LossPaid DEF Replaced
    <2> QED  BY <1>6, <2>2, <2>3, <2>4, <2>5, <2>6 DEF NetworkStep
  <1> QED
    BY <1>1, <1>2, <1>3, <1>4, <1>5, <1>6 DEF Next, ConnectStep

LEMMA LossInit == Init => LossInv
  <1> SUFFICES ASSUME Init PROVE LossInv  OBVIOUS
  <1>1. IInv  BY InitInv
  <1>2. EventInv /\ OwnerInv
    BY DEF Init, EventInv, OwnerInv, Opened
  <1>3. ASSUME NEW m \in Managers
        PROVE  retries[m] + Cardinality(Losses(m)) <= mishaps
    <2>1. Losses(m) = {}
      BY <1>3, AgentAssumption DEF Init, Losses
    <2>2. Cardinality(Losses(m)) = 0  BY <2>1, FS_EmptySet
    <2> QED  BY <2>2 DEF Init
  <1> QED  BY <1>1, <1>2, <1>3 DEF LossInv, PaidFor

LEMMA LossStep == LossInv /\ [Next]_vars => LossInv'
  <1> SUFFICES ASSUME LossInv, [Next]_vars PROVE LossInv'  OBVIOUS
  <1>1. IInv'  BY StepInv DEF LossInv
  <1>2. EventInv'  BY EventStep DEF LossInv, IInv
  <1>3. OwnerInv'  BY OwnerStep DEF LossInv, IInv
  <1>4. PaidFor'  BY <1>1, PaidStep DEF LossInv, IInv
  <1> QED  BY <1>1, <1>2, <1>3, <1>4 DEF LossInv

(* Every reconnect waiting or to come, and every loss that will cause one, *)
(* has a mishap of its own.                                                *)
THEOREM LossInvariant == Spec => []LossInv
  BY LossInit, LossStep, PTL DEF Spec

(* Reconnects do not multiply, whatever retries, heartbeats, network       *)
(* switches and late callbacks overlap (scheduleReconnect).                *)
THEOREM ReconnectsPaid == Spec => []RetriesPaidFor
  <1>1. ASSUME LossInv  PROVE RetriesPaidFor
    <2>1. \A m \in Managers : Cardinality(Losses(m)) \in Nat
      BY LossesFinite, FS_CardinalityType
    <2>2. \A m \in Managers : retries[m] \in Nat /\ mishaps \in Int
      BY <1>1, AgentAssumption DEF LossInv, IInv, TypeOK
    <2> QED  BY <1>1, <2>1, <2>2 DEF LossInv, PaidFor, RetriesPaidFor
  <1>2. LossInv => RetriesPaidFor  BY <1>1
  <1> QED  BY <1>2, LossInvariant, PTL

-----------------------------------------------------------------------------
(* The state shown is true, as long as callbacks and runnables do not      *)
(* overlap.  One manager runs at a time, and one that never ran has        *)
(* nothing;                                                                *)
ServiceInv ==
    /\ \A m, n \in Managers : life[m] = "running" /\ life[n] = "running" => m = n
    /\ \A m \in Managers : life[m] = "new" =>
         /\ ws[m] = None /\ retries[m] = 0 /\ ~switch[m] /\ ~watch[m]
         /\ main.mgr # m

(* a listener is alone, and speaks for the current socket of its manager;  *)
OneThread ==
    \A s \in Sockets : cb[s] # "none" =>
        /\ main.pc = "idle"
        /\ ws[owner[s]] = s
        /\ \A t \in Sockets \ {s} : cb[t] = "none"
        /\ cb[s] \in {"scheduling", "posting"} => conn = "DISCONNECTED"

(* sockets in use have an owner, and those that ended still have to say so *)
(* if they have not even said that they opened;                            *)
UsedInv ==
    \A s \in Sockets :
        /\ wire[s] # "free" => owner[s] \in Managers
        /\ "open" \in due[s] /\ wire[s] = "ended" => "end" \in due[s]

(* only while the looper redials is ws not the socket of the epoch, and    *)
(* then CONNECTING is shown;                                               *)
Redialling == {"cancelling", "clearing", "dialling", "assigning"}

EpochInv ==
    /\ \A m \in Managers :
         \/ main.mgr = m /\ main.pc \in Redialling
         \/ ws[m] = None
         \/ gen[m] = ws[m]
    /\ main.pc = "assigning" =>
         gen[main.mgr] = made /\ (wire[made] = "dialling" \/ due[made] # {})
    /\ main.pc \in {"claiming", "dialling", "assigning"} => conn = "CONNECTING"

(* else the state is that of ws.                                           *)
Shown(s) ==
    /\ conn = "CONNECTED" => s # None /\ (wire[s] = "open" \/ "end" \in due[s])
    /\ conn = "CONNECTING" => s # None /\ (wire[s] = "dialling" \/ due[s] # {})
    /\ conn = "DISCONNECTED" => ~Live(s)
    /\ conn = "IDLE" => FALSE \in Configured

NoneStopped == \A n \in Managers : life[n] # "stopped"

ShownInv ==
    NoneStopped /\ main.pc \in {"idle", "beating"} =>
        \A m \in Managers : life[m] = "running" => Shown(ws[m])

StatusInv ==
    /\ IInv /\ EventInv /\ OwnerInv
    /\ ServiceInv /\ OneThread /\ UsedInv /\ EpochInv /\ ShownInv

-----------------------------------------------------------------------------
(* connectRelay and forceReconnect run on the looper.                      *)
LEMMA BusyLooper ==
  ASSUME NEW m \in Managers, ConnectStep(m)
  PROVE  /\ main.pc # "idle" /\ main.mgr = m
         /\ UNCHANGED <<life, retries, switch, watch, cb, mishaps>>
  <1> USE DEF At, mgrVars, queue
  <1>1. CASE Beat(m)    BY <1>1 DEF Beat
  <1>2. CASE Cancel(m)  BY <1>2 DEF Cancel
  <1>3. CASE Clear(m)   BY <1>3 DEF Clear
  <1>4. CASE Connect(m)
    <2>1. main = [pc |-> "connecting", mgr |-> m]  BY <1>4 DEF Connect
    <2>2. UNCHANGED <<life, retries, switch, watch, cb, mishaps>>
      BY <1>4 DEF Connect
    <2> QED  BY <2>1, <2>2
  <1>5. CASE Claim(m)   BY <1>5 DEF Claim
  <1>6. CASE Assign(m)  BY <1>6 DEF Assign
  <1>7. CASE \E s \in Sockets : Dial(m, s)
    BY <1>7 DEF Dial
  <1> QED
    BY <1>1, <1>2, <1>3, <1>4, <1>5, <1>6, <1>7 DEF ConnectStep

LEMMA ServiceStep ==
  ASSUME TypeOK, OwnerInv, OneThread, ServiceInv, UsedInv, EventInv, [Next]_vars
  PROVE  ServiceInv'
  <1> USE DEF ServiceInv, TypeOK, mgrVars, queue, mainVars, sockVars, Goto,
              Idle, At, LooperFree
  <1>1. CASE UNCHANGED vars  BY <1>1 DEF vars
  <1>2. ASSUME NEW m \in Managers, Create(m)  PROVE ServiceInv'
    BY <1>2 DEF Create, Lives
  <1>3. ASSUME NEW m \in Managers, Destroy(m)  PROVE ServiceInv'
    BY <1>3 DEF Destroy, Lives
  <1>4. ASSUME NEW m \in Managers,
               \/ Reconfigure(m) \/ NetworkChanges(m) \/ PostSwitch(m)
               \/ Heartbeat(m) \/ SwitchNetwork(m)
        PROVE ServiceInv'
    BY <1>4 DEF Reconfigure, NetworkChanges, PostSwitch, Heartbeat,
                SwitchNetwork, ForceReconnect
  <1>5. ASSUME NEW m \in Managers, Retry(m)  PROVE ServiceInv'
    <2>1. life[m] # "new" /\ main'.mgr \in {m, None}
      BY <1>5 DEF Retry
    <2>2. \A n \in Managers : n # m => retries'[n] = retries[n]
      BY <1>5 DEF Retry
    <2>3. UNCHANGED <<life, ws, switch, watch>>
      BY <1>5 DEF Retry
    <2> QED  BY <2>1, <2>2, <2>3, AgentAssumption
  <1>6. ASSUME NEW m \in Managers, ConnectStep(m)  PROVE ServiceInv'
    <2>1. UNCHANGED <<life, retries, switch, watch>> /\ main.mgr = m
      BY <1>6, BusyLooper
    <2>2. life[m] # "new"
      BY <2>1
    <2>3. main'.mgr \in {m, None}
      <3>1. CASE Connect(m)
        <4>1. main' = Idle \/ Goto("claiming", m)  BY <3>1, Zenon DEF Connect
        <4> QED  BY <4>1
      <3> QED  BY <1>6, <2>1, <3>1
               DEF ConnectStep, Beat, Cancel, Clear, Claim, Assign, Dial
    <2>4. \A n \in Managers : n # m => ws'[n] = ws[n]
      BY <1>6 DEF ConnectStep, Beat, Cancel, Clear, Connect, Claim, Assign, Dial
    <2> QED  BY <2>1, <2>2, <2>3, <2>4, AgentAssumption
  <1>7. ASSUME NEW s \in Sockets, ListenerStep(s)  PROVE ServiceInv'
    <2>1. UNCHANGED <<life, ws, switch, watch, main>>
      BY <1>7 DEF ListenerStep, Begin, Gate, OnOpen, OnEnd, Schedule, Post
    <2>2. CASE Post(s)
      <3>1. ws[owner[s]] = s /\ wire[s] = "ended"
        BY <2>2 DEF Post, OneThread, EventInv
      <3>2. owner[s] \in Managers  BY <3>1 DEF UsedInv
      <3>3. life[owner[s]] # "new"
        BY <3>1, <3>2, AgentAssumption
      <3>4. \A n \in Managers : n # owner[s] => retries'[n] = retries[n]
        BY <2>2 DEF Post, Posted
      <3> QED  BY <2>1, <3>3, <3>4
    <2>3. CASE ~Post(s)
      <3>1. retries' = retries
        BY <1>7, <2>3 DEF ListenerStep, Begin, Gate, OnOpen, OnEnd, Schedule
      <3> QED  BY <2>1, <3>1
    <2> QED  BY <2>2, <2>3
  <1>8. ASSUME NEW s \in Sockets, NetworkStep(s)  PROVE ServiceInv'
    BY <1>8 DEF NetworkStep, Opens, Fails, Closes, Replaced
  <1> QED
    BY <1>1, <1>2, <1>3, <1>4, <1>5, <1>6, <1>7, <1>8 DEF Next, LooperStep

LEMMA ThreadStep ==
  ASSUME ~Preempted, TypeOK, EventInv, OneThread, [Next]_vars
  PROVE  OneThread'
  <1> USE DEF OneThread, TypeOK, mgrVars, queue, mainVars, sockVars,
              LooperFree, CallbacksIdle
  <1>1. CASE UNCHANGED vars  BY <1>1 DEF vars
  <1>2. ASSUME NEW m \in Managers,
               \/ Create(m) \/ Destroy(m) \/ Reconfigure(m) \/ LooperStep(m)
               \/ ConnectStep(m)
        PROVE OneThread'
    <2>1. \A s \in Sockets : cb[s] = "none"
      <3>1. CASE ConnectStep(m)
        BY <3>1, BusyLooper
      <3>2. CASE Create(m) \/ Destroy(m) \/ Reconfigure(m) \/ LooperStep(m)
        BY <3>2 DEF Create, Destroy, Reconfigure, LooperStep, Heartbeat, Retry,
                    SwitchNetwork
      <3> QED  BY <1>2, <3>1, <3>2
    <2>2. cb' = cb
      BY <1>2 DEF Create, Destroy, Reconfigure, LooperStep, Heartbeat, Retry,
                  SwitchNetwork, ConnectStep, Beat, Cancel, Clear, Connect,
                  Claim, Assign, Dial
    <2> QED  BY <2>1, <2>2
  <1>3. ASSUME NEW m \in Managers, NetworkChanges(m) \/ PostSwitch(m)
        PROVE OneThread'
    BY <1>3 DEF NetworkChanges, PostSwitch
  <1>4. ASSUME NEW s \in Sockets, ListenerStep(s)  PROVE OneThread'
    <2> USE DEF Done, Step, CbPCs
    <2>1. CASE Begin(s)     BY <2>1 DEF Begin, IsWs
    <2>2. CASE Gate(s)      BY <2>2 DEF Gate
    <2>3. CASE OnOpen(s)    BY <2>3 DEF OnOpen
    <2>4. CASE OnEnd(s)     BY <2>4 DEF OnEnd
    <2>5. CASE Schedule(s)  BY <2>5 DEF Schedule
    <2>6. CASE Post(s)      BY <2>6 DEF Post
    <2> QED
      BY <1>4, <2>1, <2>2, <2>3, <2>4, <2>5, <2>6 DEF ListenerStep
  <1>5. ASSUME NEW s \in Sockets, NetworkStep(s)  PROVE OneThread'
    BY <1>5 DEF NetworkStep, Opens, Fails, Closes, Replaced
  <1> QED  BY <1>1, <1>2, <1>3, <1>4, <1>5 DEF Next

LEMMA UsedStep ==
  ASSUME TypeOK, EventInv, UsedInv, [Next]_vars
  PROVE  UsedInv'
  <1> USE DEF UsedInv, TypeOK, mgrVars, queue, mainVars, sockVars
  <1>1. CASE UNCHANGED vars  BY <1>1 DEF vars
  <1>2. ASSUME NEW m \in Managers,
               \/ Create(m) \/ Destroy(m) \/ Reconfigure(m)
               \/ NetworkChanges(m) \/ PostSwitch(m) \/ LooperStep(m)
               \/ Beat(m) \/ Clear(m) \/ Connect(m) \/ Claim(m) \/ Assign(m)
        PROVE UsedInv'
    BY <1>2 DEF Create, Destroy, Reconfigure, NetworkChanges, PostSwitch,
                LooperStep, Heartbeat, Retry, SwitchNetwork, Beat, Clear,
                Connect, Claim, Assign
  <1>3. ASSUME NEW m \in Managers, Cancel(m)  PROVE UsedInv'
    BY <1>3 DEF Cancel, Live, Ended
  <1>4. ASSUME NEW m \in Managers, NEW s \in Sockets, Dial(m, s)
        PROVE UsedInv'
    BY <1>4 DEF Dial
  <1>5. ASSUME NEW s \in Sockets, ListenerStep(s)  PROVE UsedInv'
    <2>1. UNCHANGED <<wire, owner>>
      BY <1>5 DEF ListenerStep, Begin, Gate, OnOpen, OnEnd, Schedule, Post
    <2>2. \A t \in Sockets : due'[t] = due[t] \/ due'[t] = due[t] \ {Event(t)}
      BY <1>5 DEF ListenerStep, Begin, Gate, OnOpen, OnEnd, Schedule, Post,
                  Done, Step
    <2>3. \A t \in Sockets : "open" \in due'[t] => due'[t] = due[t]
      BY <2>2 DEF Event
    <2> QED  BY <2>1, <2>3
  <1>6. ASSUME NEW s \in Sockets, NetworkStep(s)  PROVE UsedInv'
    BY <1>6 DEF NetworkStep, Opens, Fails, Closes, Replaced, Ended, Live
  <1> QED
    BY <1>1, <1>2, <1>3, <1>4, <1>5, <1>6 DEF Next, ConnectStep

LEMMA EpochStep ==
  ASSUME ~Preempted, TypeOK, EventInv, OwnerInv, OneThread, EpochInv, [Next]_vars
  PROVE  EpochInv'
  <1> USE DEF EpochInv, TypeOK, mgrVars, queue, mainVars, sockVars, Goto,
              Idle, At, LooperFree, Redialling
  <1>1. CASE UNCHANGED vars  BY <1>1 DEF vars
  <1>2. ASSUME NEW m \in Managers,
               \/ Create(m) \/ Destroy(m) \/ NetworkChanges(m) \/ PostSwitch(m)
               \/ Heartbeat(m)
        PROVE EpochInv'
    BY <1>2 DEF Create, Destroy, NetworkChanges, PostSwitch, Heartbeat
  <1>3. ASSUME NEW m \in Managers, Reconfigure(m) \/ SwitchNetwork(m)
        PROVE EpochInv'
    BY <1>3 DEF Reconfigure, SwitchNetwork, ForceReconnect
  <1>4. ASSUME NEW m \in Managers, Retry(m)  PROVE EpochInv'
    <2>1. main.pc = "idle" /\ main'.pc \in {"idle", "connecting"}
      BY <1>4 DEF Retry
    <2>2. UNCHANGED <<ws, gen>>  BY <1>4 DEF Retry
    <2> QED  BY <2>1, <2>2
  <1>5. ASSUME NEW m \in Managers, Beat(m) \/ Claim(m)  PROVE EpochInv'
    BY <1>5 DEF Beat, Claim
  <1>6. ASSUME NEW m \in Managers, Cancel(m) \/ Clear(m)  PROVE EpochInv'
    BY <1>6 DEF Cancel, Clear
  <1>7. ASSUME NEW m \in Managers, Connect(m)  PROVE EpochInv'
    <2>1. UNCHANGED <<ws, gen>> /\ main.pc = "connecting"
      BY <1>7 DEF Connect
    <2>2. \/ main' = Idle
          \/ Goto("claiming", m) /\ conn' = "CONNECTING"
      BY <1>7, Zenon DEF Connect
    <2> QED  BY <2>1, <2>2
  <1>8. ASSUME NEW m \in Managers, NEW s \in Sockets, Dial(m, s)
        PROVE EpochInv'
    <2>1. /\ main.pc = "dialling" /\ main.mgr = m
          /\ main'.pc = "assigning" /\ main'.mgr = m /\ made' = s
          /\ UNCHANGED <<ws, conn>>
      BY <1>8 DEF Dial
    <2>2. gen'[m] = s /\ wire'[s] = "dialling"
      BY <1>8 DEF Dial
    <2>3. \A n \in Managers : n # m => gen'[n] = gen[n]
      BY <1>8 DEF Dial
    <2> QED  BY <2>1, <2>2, <2>3
  <1>9. ASSUME NEW m \in Managers, Assign(m)  PROVE EpochInv'
    BY <1>9 DEF Assign
  <1>10. ASSUME NEW s \in Sockets, ListenerStep(s)  PROVE EpochInv'
    <2>1. UNCHANGED <<ws, gen, main>>
      BY <1>10 DEF ListenerStep, Begin, Gate, OnOpen, OnEnd, Schedule, Post
    <2>2. main.pc = "idle"
      BY <1>10 DEF ListenerStep, Begin, Gate, OnOpen, OnEnd, Schedule, Post,
                   OneThread
    <2> QED  BY <2>1, <2>2
  <1>11. ASSUME NEW s \in Sockets, NetworkStep(s)  PROVE EpochInv'
    <2>1. UNCHANGED <<ws, gen, main, made, conn>>
      BY <1>11 DEF NetworkStep, Opens, Fails, Closes, Replaced
    <2>2. \A t \in Sockets :
            wire[t] = "dialling" \/ due[t] # {} => wire'[t] = "dialling" \/ due'[t] # {}
      <3>1. \A t \in Sockets \ {s} : wire'[t] = wire[t] /\ due'[t] = due[t]
        BY <1>11 DEF NetworkStep, Opens, Fails, Closes, Replaced, Ended
      <3>2. \/ due' = [due EXCEPT ![s] = @ \cup {"open"}]
            \/ due' = [due EXCEPT ![s] = @ \cup {"end"}]
        BY <1>11 DEF NetworkStep, Opens, Fails, Closes, Replaced, Ended
      <3>3. "open" \in due'[s] \/ "end" \in due'[s]
        BY <3>2
      <3> QED  BY <3>1, <3>3
    <2>3. main.pc = "assigning" => made \in Sockets
      BY DEF OwnerInv, Opened
    <2> QED  BY <2>1, <2>2, <2>3
  <1> QED
    BY <1>1, <1>2, <1>3, <1>4, <1>5, <1>6, <1>7, <1>8, <1>9, <1>10, <1>11
    DEF Next, LooperStep, ConnectStep

-----------------------------------------------------------------------------
(* Sockets that open and end keep the state shown true: what they changed  *)
(* is still to be said.                                                    *)
LEMMA WireShown ==
  ASSUME TypeOK, EventInv, NEW s \in Sockets,
         \/ Opens(s)
         \/ wire[s] \in {"dialling", "open"} /\ Ended(s) /\ conn' = conn,
         NEW t \in Sockets \cup {None}, Shown(t)
  PROVE  Shown(t)'
  <1> USE DEF TypeOK, EventInv, Shown, Live
  <1>1. conn' = conn  BY DEF Opens
  <1>2. CASE t = None  BY <1>1, <1>2
  <1>3. CASE t \in Sockets /\ t # s
    <2>1. wire'[t] = wire[t] /\ due'[t] = due[t]
      BY <1>3 DEF Opens, Ended
    <2> QED  BY <1>1, <1>3, <2>1
  <1>4. CASE t = s /\ Opens(s)
    <2>1. wire[s] = "dialling" /\ wire'[s] = "open" /\ due'[s] = due[s] \cup {"open"}
      BY <1>4 DEF Opens
    <2> QED  BY <1>1, <1>4, <2>1
  <1>5. CASE t = s /\ Ended(s)
    <2>1. wire'[s] = "ended" /\ due'[s] = due[s] \cup {"end"}
      BY <1>5 DEF Ended
    <2> QED  BY <1>1, <1>5, <2>1
  <1> QED  BY <1>2, <1>3, <1>4, <1>5

LEMMA NetworkShown ==
  ASSUME TypeOK, EventInv, ShownInv, NEW s \in Sockets, NetworkStep(s)
  PROVE  ShownInv'
  <1>1. /\ UNCHANGED <<life, ws, main, conn>>
        /\ \/ Opens(s)
           \/ wire[s] \in {"dialling", "open"} /\ Ended(s) /\ conn' = conn
    BY DEF NetworkStep, Opens, Fails, Closes, Replaced, Live, mgrVars, mainVars
  <1> SUFFICES ASSUME NoneStopped', main'.pc \in {"idle", "beating"},
                      NEW m \in Managers, life'[m] = "running"
               PROVE  Shown(ws[m])'
    BY DEF ShownInv
  <1>2. Shown(ws[m])  BY <1>1 DEF ShownInv, NoneStopped
  <1>3. ws[m] \in Sockets \cup {None}  BY DEF TypeOK
  <1> DEFINE t == ws[m]
  <1>4. Shown(t)'
    <2>1. ASSUME NEW u \in Sockets \cup {None}, Shown(u)  PROVE Shown(u)'
      BY <1>1, <2>1, WireShown
    <2>2. ws'[m] = ws[m]  BY <1>1
    <2> QED  BY <1>2, <1>3, <2>1, <2>2 DEF Shown, Live
  <1> QED  BY <1>4

(* What a listener says of the current socket is true of it.               *)
LEMMA ListenerShown ==
  ASSUME TypeOK, EventInv, OwnerInv, ServiceInv, OneThread, UsedInv, EpochInv,
         ShownInv, NEW s \in Sockets, ListenerStep(s)
  PROVE  ShownInv'
  <1> USE DEF TypeOK
  <1>1. UNCHANGED <<life, ws, gen, main, wire, owner>>
    BY DEF ListenerStep, Begin, Gate, OnOpen, OnEnd, Schedule, Post, mgrVars,
           mainVars
  <1> SUFFICES ASSUME NoneStopped, main.pc \in {"idle", "beating"},
                      NEW m \in Managers, life[m] = "running"
               PROVE  Shown(ws[m])'
    BY <1>1 DEF ShownInv, NoneStopped
  <1>2. Shown(ws[m])  BY DEF ShownInv
  <1>3. \A t \in Sockets \ {s} : due'[t] = due[t]
    BY DEF ListenerStep, Begin, Gate, OnOpen, OnEnd, Schedule, Post, Done, Step
  <1>4. cb[s] # "none" => ws[m] = s /\ gen[owner[s]] = s
    <2> SUFFICES ASSUME cb[s] # "none"
                 PROVE  ws[m] = s /\ gen[owner[s]] = s
      OBVIOUS
    <2>1. ws[owner[s]] = s /\ wire[s] # "free" /\ main.pc = "idle"
      BY DEF OneThread, EventInv
    <2>2. owner[s] \in Managers  BY <2>1 DEF UsedInv
    <2>3. life[owner[s]] = "running"
      BY <2>1, <2>2, AgentAssumption DEF ServiceInv, NoneStopped, Lives
    <2>4. owner[s] = m  BY <2>2, <2>3 DEF ServiceInv
    <2> QED  BY <2>1, <2>4, AgentAssumption DEF EpochInv, Redialling
  <1>5. CASE Begin(s)
    <2>1. conn' = conn  BY <1>5 DEF Begin
    <2>2. ws[m] = s => due' = due
      <3>1. ASSUME ws[m] = s  PROVE owner[s] = m
        BY <3>1, AgentAssumption DEF OwnerInv, Opened
      <3> QED  BY <1>5, <3>1 DEF Begin, IsWs, Step
    <2> QED  BY <1>1, <1>2, <1>3, <2>1, <2>2 DEF Shown, Live
  <1>6. CASE Gate(s)
    <2>1. due' = due /\ conn' = conn
      BY <1>4, <1>6 DEF Gate, IsCurrent, Step
    <2> QED  BY <1>1, <1>2, <2>1 DEF Shown, Live
  <1>7. CASE OnOpen(s)
    <2>1. conn' = "CONNECTED" /\ "open" \in due[s] /\ due'[s] = due[s] \ {"open"}
      BY <1>7 DEF OnOpen, Event, Done
    <2>2. wire[s] = "open" \/ "end" \in due'[s]
      BY <2>1 DEF EventInv, UsedInv
    <2>3. ws[m] = s  BY <1>4, <1>7 DEF OnOpen
    <2> QED  BY <1>1, <2>1, <2>2, <2>3, AgentAssumption DEF Shown
  <1>8. CASE OnEnd(s)
    <2>1. conn' = "DISCONNECTED" /\ due[s] # {} /\ "open" \notin due[s]
      BY <1>8 DEF OnEnd, Event, EventInv
    <2>2. wire[s] = "ended"  BY <2>1 DEF EventInv
    <2>3. ws[m] = s  BY <1>4, <1>8 DEF OnEnd
    <2> QED  BY <1>1, <2>1, <2>2, <2>3 DEF Shown, Live
  <1>9. CASE Schedule(s) \/ Post(s)
    <2>1. conn = "DISCONNECTED" /\ conn' = conn
      BY <1>9 DEF Schedule, Post, OneThread
    <2> QED  BY <1>1, <1>2, <2>1 DEF Shown, Live
  <1> QED  BY <1>5, <1>6, <1>7, <1>8, <1>9 DEF ListenerStep

(* The looper leaves a redial with a socket that has yet to say something. *)
LEMMA LooperShown ==
  ASSUME TypeOK, OwnerInv, ServiceInv, EpochInv, ShownInv, NEW m \in Managers,
         \/ Create(m) \/ Destroy(m) \/ Reconfigure(m)
         \/ NetworkChanges(m) \/ PostSwitch(m) \/ LooperStep(m)
         \/ ConnectStep(m)
  PROVE  ShownInv'
  <1> USE DEF TypeOK, ShownInv, NoneStopped, Shown, Live, mgrVars, queue,
              mainVars, sockVars, Goto, Idle, At, LooperFree
  <1>1. CASE Create(m)   BY <1>1 DEF Create
  <1>2. CASE Destroy(m)  BY <1>2 DEF Destroy
  <1>3. CASE Reconfigure(m) \/ SwitchNetwork(m)
    BY <1>3 DEF Reconfigure, SwitchNetwork, ForceReconnect, MayForce
  <1>4. CASE NetworkChanges(m) \/ PostSwitch(m) \/ Heartbeat(m)
    BY <1>4 DEF NetworkChanges, PostSwitch, Heartbeat
  <1>5. CASE Retry(m)
    <2>1. UNCHANGED <<life, ws, conn, wire, due>> /\ main.pc = "idle"
      BY <1>5 DEF Retry
    <2> QED  BY <2>1
  <1>6. CASE Beat(m)
    <2>1. UNCHANGED <<life, ws, conn, wire, due>> /\ main.pc = "beating"
      BY <1>6 DEF Beat
    <2> QED  BY <2>1
  <1>7. CASE Cancel(m) \/ Clear(m) \/ Claim(m)
    BY <1>7 DEF Cancel, Clear, Claim
  <1>8. CASE Connect(m)
    <2>1. UNCHANGED <<life, ws, wire, due>>  BY <1>8 DEF Connect
    <2>2. \/ life[m] = "stopped"
          \/ FALSE \in Configured /\ conn' = "IDLE"
          \/ Goto("claiming", m)
      BY <1>8, Zenon DEF Connect, MayConnect, Unconfigured
    <2>3. CASE life[m] = "stopped"
      BY <2>1, <2>3
    <2>4. CASE FALSE \in Configured /\ conn' = "IDLE"
      BY <2>4
    <2>5. CASE Goto("claiming", m)
      <3>1. main'.pc = "claiming"  BY <2>5
      <3> QED  BY <3>1
    <2> QED  BY <2>2, <2>3, <2>4, <2>5
  <1>9. CASE \E s \in Sockets : Dial(m, s)
    BY <1>9 DEF Dial
  <1>10. CASE Assign(m)
    <2>1. /\ main.pc = "assigning" /\ main.mgr = m
          /\ UNCHANGED <<life, conn, wire, due>> /\ ws'[m] = made
      BY <1>10 DEF Assign
    <2>2. /\ conn = "CONNECTING" /\ made \in Sockets
          /\ wire[made] = "dialling" \/ due[made] # {}
      BY <2>1 DEF EpochInv, OwnerInv, Opened
    <2>3. ASSUME NoneStopped', NEW n \in Managers, life'[n] = "running"
          PROVE  n = m
      <3>1. life[m] = "running"
        BY <2>1, <2>3 DEF ServiceInv, Lives
      <3> QED  BY <2>1, <2>3, <3>1 DEF ServiceInv
    <2> QED  BY <2>1, <2>2, <2>3, AgentAssumption
  <1> QED
    BY <1>1, <1>2, <1>3, <1>4, <1>5, <1>6, <1>7, <1>8, <1>9, <1>10
    DEF LooperStep, ConnectStep

LEMMA StatusStep ==
  ASSUME ~Preempted
  PROVE  StatusInv /\ [Next]_vars => StatusInv'
  <1> SUFFICES ASSUME StatusInv, [Next]_vars PROVE StatusInv'  OBVIOUS
  <1> USE DEF StatusInv, IInv
  <1>1. IInv'  BY StepInv
  <1>2. EventInv'  BY EventStep
  <1>3. OwnerInv'  BY OwnerStep
  <1>4. ServiceInv' /\ UsedInv'  BY ServiceStep, UsedStep
  <1>5. OneThread' /\ EpochInv'  BY ThreadStep, EpochStep
  <1>6. ShownInv'
    <2>1. CASE UNCHANGED vars
      BY <2>1 DEF vars, mgrVars, mainVars, sockVars, ShownInv, NoneStopped,
                  Shown, Live
    <2>2. CASE Next
      BY <2>2, LooperShown, ListenerShown, NetworkShown DEF Next
    <2> QED  BY <2>1, <2>2
  <1> QED  BY <1>1, <1>2, <1>3, <1>4, <1>5, <1>6

LEMMA StatusInit == Init => StatusInv
  <1> SUFFICES ASSUME Init PROVE StatusInv  OBVIOUS
  <1>1. IInv  BY InitInv
  <1>2. EventInv /\ OwnerInv
    BY DEF Init, EventInv, OwnerInv, Opened
  <1>3. ServiceInv /\ OneThread /\ UsedInv /\ EpochInv /\ ShownInv
    BY AgentAssumption
    DEF Init, ServiceInv, OneThread, UsedInv, EpochInv, ShownInv
  <1> QED  BY <1>1, <1>2, <1>3 DEF StatusInv

(* Where callbacks and runnables do not overlap, the state shown is that   *)
(* of the current socket, for any number of managers, sockets and mishaps. *)
THEOREM StatusShownIsTrue ==
  ASSUME ~Preempted
  PROVE  Spec => []StatusIsTrue
  <1>1. ASSUME StatusInv  PROVE StatusIsTrue
    <2> SUFFICES ASSUME NEW m \in Managers, Settled, life[m] = "running",
                        \A n \in Managers : life[n] # "stopped"
                 PROVE  CASE conn = "CONNECTED"    -> ws[m] # None /\ IsCurrent(ws[m]) /\ (wire[ws[m]] = "open" \/ "end" \in due[ws[m]])
                          [] conn = "CONNECTING"   -> ws[m] # None /\ IsCurrent(ws[m]) /\ (wire[ws[m]] = "dialling" \/ due[ws[m]] # {})
                          [] conn = "DISCONNECTED" -> ~Live(ws[m])
                          [] OTHER                 -> FALSE \in Configured
      BY DEF StatusIsTrue
    <2>1. Shown(ws[m])
      BY <1>1 DEF StatusInv, ShownInv, NoneStopped, Settled
    <2>2. conn \in Conns  BY <1>1 DEF StatusInv, IInv, TypeOK
    <2>3. ws[m] # None => IsCurrent(ws[m])
      BY <1>1 DEF StatusInv, OwnerInv, Opened, EpochInv, Redialling, Settled,
                  IsCurrent
    <2> QED  BY <2>1, <2>2, <2>3 DEF Shown, Conns
  <1>2. StatusInv => StatusIsTrue  BY <1>1
  <1>3. StatusInv /\ [Next]_vars => StatusInv'  BY StatusStep
  <1> QED  BY <1>2, <1>3, StatusInit, PTL DEF Spec

-----------------------------------------------------------------------------
(* Sockets that nothing closes are paid for.  A socket that is left open   *)
(* is a debt as a loss is: the loss became a reconnect, and the reconnect  *)
(* connected while that socket was in ws.  It is counted as soon as the    *)
(* looper is bound to put another one there, or may do so because IDLE is  *)
(* shown while it is open.                                                 *)
Replacing == {"connecting", "claiming", "dialling", "assigning"}

Stray(s) ==
    /\ Live(s) /\ s # made
    /\ ws[owner[s]] # s \/ conn = "IDLE" \/ main.pc \in Replacing

Strays(m) == {s \in Sockets : owner[s] = m /\ Stray(s)}

Debts(m) == Losses(m) \cup Strays(m)

(* The heartbeat does not beat while connected; what forceReconnect takes  *)
(* from ws has ended.                                                      *)
LooperInv ==
    /\ main.pc = "beating" => conn # "CONNECTED"
    /\ main.pc = "clearing" => main.mgr \in Managers /\ ~Live(ws[main.mgr])
    /\ made # None => main.pc = "assigning"

DebtsPaid ==
    NoneStopped =>
        \A m \in Managers : retries[m] + Cardinality(Debts(m)) <= mishaps

StrayInv == StatusInv /\ LooperInv /\ DebtsPaid

(* Counting sockets.                                                       *)
LEMMA Counted ==
  ASSUME NEW A \in SUBSET Sockets, NEW B \in SUBSET Sockets
  PROVE  /\ Cardinality(A) \in Nat /\ Cardinality(B) \in Nat
         /\ B \subseteq A => Cardinality(B) <= Cardinality(A)
         /\ \A s : B \subseteq A \cup {s} => Cardinality(B) <= Cardinality(A) + 1
         /\ \A s \in A : B \subseteq A \ {s} => Cardinality(B) + 1 <= Cardinality(A)
  <1>1. IsFiniteSet(A) /\ IsFiniteSet(B)
    BY AgentAssumption, FS_Subset
  <1>2. Cardinality(A) \in Nat /\ Cardinality(B) \in Nat
    BY <1>1, FS_CardinalityType
  <1>3. B \subseteq A => Cardinality(B) <= Cardinality(A)
    BY <1>1, FS_Subset
  <1>4. ASSUME NEW s, B \subseteq A \cup {s}
        PROVE  Cardinality(B) <= Cardinality(A) + 1
    <2>1. /\ IsFiniteSet(A \cup {s})
          /\ \/ Cardinality(A \cup {s}) = Cardinality(A)
             \/ Cardinality(A \cup {s}) = Cardinality(A) + 1
      BY <1>1, FS_AddElement
    <2>2. Cardinality(B) <= Cardinality(A \cup {s})
      BY <1>4, <2>1, FS_Subset
    <2> QED  BY <1>2, <2>1, <2>2
  <1>5. ASSUME NEW s \in A, B \subseteq A \ {s}
        PROVE  Cardinality(B) + 1 <= Cardinality(A)
    <2>1. /\ IsFiniteSet(A \ {s})
          /\ Cardinality(A \ {s}) = Cardinality(A) - 1
      BY <1>1, FS_RemoveElement
    <2>2. Cardinality(B) <= Cardinality(A \ {s})
      BY <1>5, <2>1, FS_Subset
    <2> QED  BY <1>2, <2>1, <2>2
  <1> QED  BY <1>2, <1>3, <1>4, <1>5

(* Until a service stops, the looper works for the manager that runs, and  *)
(* no other has a socket.                                                  *)
LEMMA OnlyOneRuns ==
  ASSUME TypeOK, ServiceInv, NoneStopped, NEW n \in Managers,
         life[n] # "new", NEW m \in Managers
  PROVE  /\ life[n] = "running"
         /\ m # n => ws[m] = None
  BY DEF TypeOK, Lives, ServiceInv, NoneStopped

(* Losses are not disturbed by the looper, but for those that end.         *)
LEMMA LooperLosses ==
  ASSUME TypeOK, EventInv, OwnerInv, NEW m \in Managers, NEW n \in Managers,
         \/ Create(n) \/ Reconfigure(n) \/ NetworkChanges(n) \/ PostSwitch(n)
         \/ LooperStep(n) \/ ConnectStep(n)
  PROVE  Losses(m)' \subseteq Losses(m)
  <1> USE DEF mgrVars, queue, mainVars, sockVars
  <1>1. CASE Cancel(n)
    <2>1. UNCHANGED <<owner, gen, life, cb>>  BY <1>1 DEF Cancel
    <2>2. CASE ~Live(ws[n])
      <3>1. due' = due  BY <1>1, <2>2 DEF Cancel
      <3> QED  BY <2>1, <3>1, QuietLoss
    <2>3. CASE Live(ws[n])
      <3>1. /\ ws[n] \in Sockets /\ Ended(ws[n])
            /\ wire[ws[n]] \in {"dialling", "open"}
        BY <1>1, <2>3 DEF Cancel, Live, TypeOK
      <3>2. gen[owner[ws[n]]] # ws[n]
        BY <1>1, <3>1, AgentAssumption DEF Cancel, At, OwnerInv, Opened
      <3> QED  BY <2>1, <3>1, <3>2, EndedLoss
    <2> QED  BY <2>2, <2>3
  <1>2. CASE \E s \in Sockets : Dial(n, s)
    BY <1>2, DialLoss
  <1>3. CASE \/ Create(n) \/ Reconfigure(n) \/ NetworkChanges(n)
             \/ PostSwitch(n) \/ LooperStep(n)
             \/ Beat(n) \/ Clear(n) \/ Connect(n) \/ Claim(n) \/ Assign(n)
    <2>1. UNCHANGED <<owner, due, cb>>
      BY <1>3 DEF Create, Reconfigure, NetworkChanges, PostSwitch, LooperStep,
                  Heartbeat, Retry, SwitchNetwork, Beat, Clear, Connect,
                  Claim, Assign
    <2>2. gen'[m] \in {gen[m], None}
      BY <1>3 DEF Create, Reconfigure, NetworkChanges, PostSwitch, LooperStep,
                  Heartbeat, Retry, SwitchNetwork, Beat, Clear, Connect,
                  Claim, Assign, ForceReconnect, TypeOK
    <2>3. life[m] = "stopped" => life'[m] = "stopped"
      BY <1>3 DEF Create, Reconfigure, NetworkChanges, PostSwitch, LooperStep,
                  Heartbeat, Retry, SwitchNetwork, Beat, Clear, Connect,
                  Claim, Assign, TypeOK
    <2> QED  BY <2>1, <2>2, <2>3, QuietLoss
  <1> QED  BY <1>1, <1>2, <1>3 DEF ConnectStep

(* Of the service and the runnables, only a reconnect that comes while a   *)
(* socket is in ws makes a stray.                                          *)
LEMMA ServiceStrays ==
  ASSUME StatusInv, NoneStopped, NEW m \in Managers, NEW n \in Managers,
         \/ Create(n) \/ Reconfigure(n) \/ NetworkChanges(n) \/ PostSwitch(n)
         \/ Heartbeat(n) \/ SwitchNetwork(n)
  PROVE  Strays(m)' \subseteq Strays(m)
  <1> USE DEF Strays, Stray, Live, Replacing, StatusInv, IInv, TypeOK, mgrVars,
              queue, mainVars, sockVars, Goto, LooperFree
  <1>1. CASE Create(n)
    <2>1. ws[m] = None  BY <1>1 DEF Create, ServiceInv, NoneStopped, Lives
    <2> QED  BY <1>1, <2>1, AgentAssumption DEF Create
  <1>2. CASE Reconfigure(n) \/ SwitchNetwork(n)
    <2>1. UNCHANGED <<ws, conn, made, wire, owner>>
      BY <1>2 DEF Reconfigure, SwitchNetwork
    <2>2. main'.pc \in {"idle", "cancelling"}
      BY <1>2 DEF Reconfigure, SwitchNetwork, ForceReconnect
    <2> QED  BY <2>1, <2>2
  <1>3. CASE NetworkChanges(n) \/ PostSwitch(n) \/ Heartbeat(n)
    <2>1. UNCHANGED <<ws, conn, made, wire, owner>>
      BY <1>3 DEF NetworkChanges, PostSwitch, Heartbeat
    <2>2. main' = main \/ main'.pc = "beating"
      BY <1>3 DEF NetworkChanges, PostSwitch, Heartbeat
    <2> QED  BY <2>1, <2>2
  <1> QED  BY <1>1, <1>2, <1>3

LEMMA RetryStrays ==
  ASSUME StatusInv, NoneStopped, NEW m \in Managers, NEW n \in Managers,
         Retry(n)
  PROVE  /\ Strays(m)' \subseteq Strays(m) \cup {ws[n]}
         /\ m # n => Strays(m)' \subseteq Strays(m)
  <1> USE DEF StatusInv, IInv
  <1>1. UNCHANGED <<ws, conn, made, wire, owner>>
    BY DEF Retry, mgrVars, sockVars
  <1>2. life[n] # "new"
    BY DEF Retry, ServiceInv
  <1>3. m # n => ws[m] = None
    BY <1>2, OnlyOneRuns
  <1>4. Live(ws[m])' => Live(ws[m])
    BY <1>1 DEF Live
  <1> QED
    BY <1>1, <1>3, AgentAssumption DEF Strays, Stray, Live

(* connectRelay and forceReconnect make none that was not counted.         *)
LEMMA ConnectStrays ==
  ASSUME StatusInv, LooperInv, NoneStopped, NEW m \in Managers,
         NEW n \in Managers, ConnectStep(n)
  PROVE  Strays(m)' \subseteq Strays(m)
  <1> USE DEF Strays, Stray, Live, Replacing, StatusInv, IInv, TypeOK, mgrVars,
              queue, mainVars, sockVars, Goto, At, Idle
  <1>1. main.mgr = n /\ life[n] # "new"
    BY BusyLooper DEF ServiceInv
  <1>2. /\ life[n] = "running"
        /\ m # n => ws[m] = None
    BY <1>1, OnlyOneRuns
  <1>3. CASE Beat(n)
    <2>1. UNCHANGED <<ws, conn, made, wire, owner>> /\ main.pc = "beating"
      BY <1>3 DEF Beat
    <2>2. main'.pc = "idle" \/ conn # "CONNECTING"
      BY <1>3 DEF Beat, Beats
    <2>3. main'.pc = "idle" \/ conn = "IDLE" \/ ~Live(ws[n])
      BY <1>2, <2>1, <2>2 DEF LooperInv, ShownInv, Shown, Conns
    <2> QED  BY <1>2, <2>1, <2>3, AgentAssumption
  <1>4. CASE Cancel(n)
    <2>1. UNCHANGED <<ws, conn, made, owner>> /\ main'.pc = "clearing"
      BY <1>4 DEF Cancel
    <2>2. \A s \in Sockets : Live(s)' => Live(s)
      BY <1>4 DEF Cancel, Ended
    <2> QED  BY <2>1, <2>2
  <1>5. CASE Clear(n)
    <2>1. UNCHANGED <<conn, made, wire, owner>>
      BY <1>5 DEF Clear
    <2>2. ~Live(ws[n])  BY <1>1, <1>5 DEF Clear, LooperInv
    <2> QED  BY <1>2, <2>1, <2>2, AgentAssumption
  <1>6. CASE Connect(n)
    <2>1. UNCHANGED <<ws, made, wire, owner>> /\ main.pc = "connecting"
      BY <1>6 DEF Connect
    <2> QED  BY <2>1
  <1>7. CASE Claim(n)
    <2>1. UNCHANGED <<ws, conn, made, wire, owner>> /\ main.pc = "claiming"
      BY <1>7 DEF Claim
    <2> QED  BY <2>1
  <1>8. CASE \E s \in Sockets : Dial(n, s)
    <2>1. PICK s \in Sockets : Dial(n, s)  BY <1>8
    <2>2. made = None /\ main.pc = "dialling"
      BY <2>1 DEF Dial, LooperInv
    <2>3. \A t \in Sockets \ {s} : wire'[t] = wire[t] /\ owner'[t] = owner[t]
      BY <2>1 DEF Dial
    <2>4. made' = s  BY <2>1 DEF Dial
    <2> QED  BY <2>2, <2>3, <2>4, AgentAssumption
  <1>9. CASE Assign(n)
    <2>1. /\ UNCHANGED <<conn, wire, owner>> /\ main.pc = "assigning"
          /\ main'.pc = "idle" /\ ws'[n] = made
      BY <1>9 DEF Assign
    <2>2. conn = "CONNECTING" /\ owner[made] = n
      BY <1>1, <2>1 DEF EpochInv, OwnerInv, Opened
    <2>3. made \notin Strays(m)'
      BY <2>1, <2>2
    <2> QED  BY <2>1, <2>3
  <1> QED
    BY <1>3, <1>4, <1>5, <1>6, <1>7, <1>8, <1>9 DEF ConnectStep

(* Nor do listeners and the network.                                       *)
LEMMA SocketStrays ==
  ASSUME TypeOK, NEW m \in Managers, NEW s \in Sockets,
         ListenerStep(s) \/ NetworkStep(s)
  PROVE  Strays(m)' \subseteq Strays(m)
  <1>1. UNCHANGED <<ws, main, made, owner>>
    BY DEF ListenerStep, NetworkStep, Begin, Gate, OnOpen, OnEnd, Schedule,
           Post, Opens, Fails, Closes, Replaced, mgrVars, mainVars
  <1>2. conn' = "IDLE" => conn = "IDLE"
    BY DEF ListenerStep, NetworkStep, Begin, Gate, OnOpen, OnEnd, Schedule,
           Post, Opens, Fails, Closes, Replaced
  <1>3. \A t \in Sockets : Live(t)' => Live(t)
    BY DEF ListenerStep, NetworkStep, Begin, Gate, OnOpen, OnEnd, Schedule,
           Post, Opens, Fails, Closes, Replaced, Ended, Live, TypeOK
  <1> QED  BY <1>1, <1>2, <1>3 DEF Strays, Stray

(* What a step leaves to be paid for, in numbers.                          *)
LEMMA Settling ==
  ASSUME NEW m \in Managers, TypeOK, TypeOK',
         retries[m] + Cardinality(Debts(m)) <= mishaps,
         \/ /\ Debts(m)' \subseteq Debts(m)
            /\ retries'[m] <= retries[m] /\ mishaps' >= mishaps
         \/ \E s : /\ Debts(m)' \subseteq Debts(m) \cup {s}
                   /\ \/ retries'[m] = retries[m] /\ mishaps' = mishaps + 1
                      \/ retries'[m] = retries[m] - 1 /\ mishaps' = mishaps
         \/ \E s \in Debts(m) :
              /\ Debts(m)' \subseteq Debts(m) \ {s}
              /\ retries'[m] = retries[m] + 1 /\ mishaps' = mishaps
  PROVE  retries'[m] + Cardinality(Debts(m)') <= mishaps'
  <1> DEFINE A == Debts(m)
             B == Debts(m)'
  <1>1. A \in SUBSET Sockets /\ B \in SUBSET Sockets
    BY DEF Debts, Losses, Strays
  <1>2. /\ Cardinality(A) \in Nat /\ Cardinality(B) \in Nat
        /\ B \subseteq A => Cardinality(B) <= Cardinality(A)
        /\ \A s : B \subseteq A \cup {s} => Cardinality(B) <= Cardinality(A) + 1
        /\ \A s \in A : B \subseteq A \ {s} => Cardinality(B) + 1 <= Cardinality(A)
    BY <1>1, Counted
  <1>3. retries[m] \in Nat /\ retries'[m] \in Nat /\ mishaps \in Int /\ mishaps' \in Int
    BY AgentAssumption DEF TypeOK
  <1> HIDE DEF A, B
  <1>4. retries[m] + Cardinality(A) <= mishaps  BY DEF A
  <1>5. CASE B \subseteq A /\ retries'[m] <= retries[m] /\ mishaps' >= mishaps
    <2>1. retries'[m] + Cardinality(B) <= mishaps'
      BY <1>2, <1>3, <1>4, <1>5
    <2> QED  BY <2>1 DEF B
  <1>6. ASSUME NEW s, B \subseteq A \cup {s},
               \/ retries'[m] = retries[m] /\ mishaps' = mishaps + 1
               \/ retries'[m] = retries[m] - 1 /\ mishaps' = mishaps
        PROVE  retries'[m] + Cardinality(Debts(m)') <= mishaps'
    <2>1. Cardinality(B) <= Cardinality(A) + 1  BY <1>2, <1>6
    <2>2. retries'[m] + Cardinality(B) <= mishaps'
      BY <1>2, <1>3, <1>4, <1>6, <2>1
    <2> QED  BY <2>2 DEF B
  <1>7. ASSUME NEW s \in A, B \subseteq A \ {s},
               retries'[m] = retries[m] + 1, mishaps' = mishaps
        PROVE  retries'[m] + Cardinality(Debts(m)') <= mishaps'
    <2>1. Cardinality(B) + 1 <= Cardinality(A)  BY <1>2, <1>7
    <2>2. retries'[m] + Cardinality(B) <= mishaps'
      BY <1>2, <1>3, <1>4, <1>7, <2>1
    <2> QED  BY <2>2 DEF B
  <1> QED  BY <1>5, <1>6, <1>7 DEF A, B

LEMMA LooperInvStep ==
  ASSUME StatusInv, ~Preempted, LooperInv, [Next]_vars
  PROVE  LooperInv'
  <1> USE DEF LooperInv, StatusInv, IInv, TypeOK, Live, mgrVars, queue,
              mainVars, sockVars, Goto, Idle, At
  <1>1. CASE UNCHANGED vars  BY <1>1 DEF vars
  <1>2. ASSUME NEW m \in Managers,
               \/ Create(m) \/ Destroy(m) \/ NetworkChanges(m) \/ PostSwitch(m)
               \/ Heartbeat(m) \/ Reconfigure(m) \/ SwitchNetwork(m)
        PROVE  LooperInv'
    BY <1>2 DEF Create, Destroy, NetworkChanges, PostSwitch, Heartbeat,
                Reconfigure, SwitchNetwork, ForceReconnect, LooperFree
  <1>3. ASSUME NEW m \in Managers, Retry(m)  PROVE LooperInv'
    <2>1. main.pc = "idle" /\ main'.pc \in {"idle", "connecting"} /\ made' = made
      BY <1>3 DEF Retry, LooperFree
    <2> QED  BY <2>1
  <1>4. ASSUME NEW m \in Managers, Cancel(m)  PROVE LooperInv'
    <2>1. /\ main.pc = "cancelling" /\ main'.pc = "clearing" /\ main'.mgr = m
          /\ UNCHANGED <<ws, made>>
      BY <1>4 DEF Cancel
    <2>2. ~Live(ws[m])'
      BY <1>4, <2>1 DEF Cancel, Ended
    <2> QED  BY <2>1, <2>2
  <1>5. ASSUME NEW m \in Managers,
               Beat(m) \/ Clear(m) \/ Claim(m) \/ Assign(m)
        PROVE  LooperInv'
    BY <1>5 DEF Beat, Clear, Claim, Assign
  <1>6. ASSUME NEW m \in Managers, Connect(m)  PROVE LooperInv'
    <2>1. main' = Idle \/ Goto("claiming", m)  BY <1>6, Zenon DEF Connect
    <2>2. main.pc = "connecting" /\ made' = made  BY <1>6 DEF Connect
    <2> QED  BY <2>1, <2>2
  <1>7. ASSUME NEW m \in Managers, NEW s \in Sockets, Dial(m, s)
        PROVE  LooperInv'
    BY <1>7 DEF Dial
  <1>8. ASSUME NEW s \in Sockets, ListenerStep(s)  PROVE LooperInv'
    <2>1. UNCHANGED <<ws, wire, main, made>>
      BY <1>8 DEF ListenerStep, Begin, Gate, OnOpen, OnEnd, Schedule, Post
    <2>2. main.pc = "idle"
      BY <1>8 DEF ListenerStep, Begin, Gate, OnOpen, OnEnd, Schedule, Post,
                  OneThread
    <2> QED  BY <2>1, <2>2
  <1>9. ASSUME NEW s \in Sockets, NetworkStep(s)  PROVE LooperInv'
    <2>1. UNCHANGED <<ws, conn, main, made>>
      BY <1>9 DEF NetworkStep, Opens, Fails, Closes, Replaced
    <2>2. \A t \in Sockets \cup {None} : Live(t)' => Live(t)
      BY <1>9 DEF NetworkStep, Opens, Fails, Closes, Replaced, Ended
    <2> QED  BY <2>1, <2>2
  <1> QED
    BY <1>1, <1>2, <1>3, <1>4, <1>5, <1>6, <1>7, <1>8, <1>9
    DEF Next, LooperStep, ConnectStep

(* Every step pays for the strays it makes: a reconnect with itself, and   *)
(* itself with the loss that posted it.                                    *)
LEMMA DebtStep ==
  ASSUME StatusInv, TypeOK', LooperInv, DebtsPaid, [Next]_vars
  PROVE  DebtsPaid'
  <1> SUFFICES ASSUME NoneStopped', NEW m \in Managers
               PROVE  retries'[m] + Cardinality(Debts(m)') <= mishaps'
    BY DEF DebtsPaid
  <1> USE DEF StatusInv, IInv
  <1>1. NoneStopped
    <2> USE DEF mgrVars
    <2>1. CASE UNCHANGED vars  BY <2>1 DEF vars, NoneStopped
    <2>2. ASSUME NEW n \in Managers,
                 \/ Reconfigure(n) \/ NetworkChanges(n) \/ PostSwitch(n)
                 \/ LooperStep(n)
          PROVE  NoneStopped
      BY <2>2 DEF Reconfigure, NetworkChanges, PostSwitch, LooperStep,
                  Heartbeat, Retry, SwitchNetwork, NoneStopped
    <2>3. ASSUME NEW n \in Managers, Create(n) \/ Destroy(n)
          PROVE  NoneStopped
      BY <2>3 DEF Create, Destroy, NoneStopped, TypeOK
    <2>4. ASSUME NEW n \in Managers, ConnectStep(n)  PROVE NoneStopped
      BY <2>4, BusyLooper DEF NoneStopped
    <2>5. ASSUME NEW s \in Sockets, ListenerStep(s)  PROVE NoneStopped
      BY <2>5 DEF ListenerStep, Begin, Gate, OnOpen, OnEnd, Schedule, Post,
                  NoneStopped
    <2>6. ASSUME NEW s \in Sockets, NetworkStep(s)  PROVE NoneStopped
      BY <2>6 DEF NetworkStep, Opens, Fails, Closes, Replaced, NoneStopped
    <2> QED  BY <2>1, <2>2, <2>3, <2>4, <2>5, <2>6 DEF Next
  <1>2. retries[m] + Cardinality(Debts(m)) <= mishaps
    BY <1>1 DEF DebtsPaid
  <1>3. mishaps \in Int /\ retries \in [Managers -> Nat]
    BY AgentAssumption DEF TypeOK
  <1>4. CASE UNCHANGED vars
    <2>1. Debts(m)' = Debts(m)
      BY <1>4 DEF vars, mgrVars, mainVars, sockVars, Debts, Losses, Loss,
                  IsCurrent, Event, Strays, Stray, Live
    <2> QED  BY <1>2, <1>4, <2>1 DEF vars, queue
  <1>5. ASSUME NEW n \in Managers, Destroy(n)
        PROVE  retries'[m] + Cardinality(Debts(m)') <= mishaps'
    BY <1>5 DEF Destroy, NoneStopped, TypeOK
  <1>6. ASSUME NEW n \in Managers,
               \/ Create(n) \/ Reconfigure(n) \/ NetworkChanges(n)
               \/ PostSwitch(n) \/ Heartbeat(n) \/ SwitchNetwork(n)
               \/ ConnectStep(n)
        PROVE  retries'[m] + Cardinality(Debts(m)') <= mishaps'
    <2>1. Strays(m)' \subseteq Strays(m)
      BY <1>1, <1>6, ServiceStrays, ConnectStrays
    <2>2. Losses(m)' \subseteq Losses(m)
      BY <1>6, LooperLosses DEF LooperStep
    <2>3. Debts(m)' \subseteq Debts(m)  BY <2>1, <2>2 DEF Debts
    <2>4. retries' = retries
      <3>1. CASE ConnectStep(n)  BY <3>1, BusyLooper
      <3> QED  BY <1>6, <3>1 DEF Create, Reconfigure, NetworkChanges,
                                 PostSwitch, Heartbeat, SwitchNetwork, queue
    <2>5. mishaps' = mishaps \/ mishaps' = mishaps + 1
      <3>1. CASE ConnectStep(n)  BY <3>1, BusyLooper
      <3> QED  BY <1>6, <3>1 DEF Create, Reconfigure, NetworkChanges,
                                 PostSwitch, Heartbeat, SwitchNetwork, Mishap
    <2>6. retries'[m] <= retries[m] /\ mishaps' >= mishaps
      BY <1>3, <2>4, <2>5
    <2> QED  BY <1>2, <2>3, <2>6, Settling
  <1>7. ASSUME NEW n \in Managers, Retry(n)
        PROVE  retries'[m] + Cardinality(Debts(m)') <= mishaps'
    <2>1. Losses(m)' \subseteq Losses(m)
      BY <1>7, LooperLosses DEF LooperStep
    <2>2. mishaps' = mishaps  BY <1>7 DEF Retry
    <2>3. CASE m = n
      <3>1. Debts(m)' \subseteq Debts(m) \cup {ws[n]}
        BY <1>1, <1>7, <2>1, RetryStrays DEF Debts
      <3>2. retries'[m] = retries[m] - 1
        BY <1>3, <1>7, <2>3 DEF Retry
      <3> QED  BY <1>2, <2>2, <3>1, <3>2, Settling
    <2>4. CASE m # n
      <3>1. Debts(m)' \subseteq Debts(m)
        BY <1>1, <1>7, <2>1, <2>4, RetryStrays DEF Debts
      <3>2. retries'[m] = retries[m]
        BY <1>3, <1>7, <2>4 DEF Retry
      <3>3. retries'[m] <= retries[m] /\ mishaps' >= mishaps
        BY <1>3, <2>2, <3>2
      <3> QED  BY <1>2, <3>1, <3>3, Settling
    <2> QED  BY <2>3, <2>4
  <1>8. ASSUME NEW s \in Sockets, ListenerStep(s)
        PROVE  retries'[m] + Cardinality(Debts(m)') <= mishaps'
    <2>1. Strays(m)' \subseteq Strays(m)  BY <1>8, SocketStrays
    <2>2. Losses(m)' \subseteq Losses(m)  BY <1>8, ListenerLoss
    <2>3. mishaps' = mishaps
      BY <1>8 DEF ListenerStep, Begin, Gate, OnOpen, OnEnd, Schedule, Post
    <2>4. Debts(m)' \subseteq Debts(m)  BY <2>1, <2>2 DEF Debts
    <2>5. CASE Post(s) /\ owner[s] = m
      <3>1. s \in Losses(m) /\ s \notin Losses(m)'
        BY <1>8, <2>5, ListenerLoss
      <3>2. s \notin Strays(m)
        BY <2>5 DEF Post, EventInv, Strays, Stray, Live
      <3>3. s \in Debts(m) /\ Debts(m)' \subseteq Debts(m) \ {s}
        BY <2>1, <2>4, <3>1, <3>2 DEF Debts
      <3>4. retries'[m] = retries[m] + 1
        BY <1>3, <2>5 DEF Post, Posted
      <3> QED  BY <1>2, <2>3, <3>3, <3>4, Settling
    <2>6. CASE ~(Post(s) /\ owner[s] = m)
      <3>1. retries'[m] = retries[m]
        BY <1>3, <1>8, <2>6 DEF ListenerStep, Begin, Gate, OnOpen, OnEnd,
                                Schedule, Post, Posted, queue
      <3>2. retries'[m] <= retries[m] /\ mishaps' >= mishaps
        BY <1>3, <2>3, <3>1
      <3> QED  BY <1>2, <2>4, <3>2, Settling
    <2> QED  BY <2>5, <2>6
  <1>9. ASSUME NEW s \in Sockets, NetworkStep(s)
        PROVE  retries'[m] + Cardinality(Debts(m)') <= mishaps'
    <2>1. /\ UNCHANGED <<owner, gen, life, cb, retries, shut>>
          /\ Strays(m)' \subseteq Strays(m)
      BY <1>9, SocketStrays
      DEF NetworkStep, Opens, Fails, Closes, Replaced, mgrVars, queue
    <2>2. CASE Opens(s)
      <3>1. Debts(m)' \subseteq Debts(m)  BY <2>1, <2>2, OpensLoss DEF Debts
      <3>2. retries'[m] <= retries[m] /\ mishaps' >= mishaps
        BY <1>3, <2>1, <2>2 DEF Opens
      <3> QED  BY <1>2, <3>1, <3>2, Settling
    <2>3. CASE Fails(s) \/ (Replaced(s) /\ ~Superseded(s))
      <3>1. Ended(s) /\ wire[s] \in {"dialling", "open"} /\ mishaps' = mishaps + 1
        BY <2>3 DEF Fails, Live, Mishap, Replaced
      <3>2. Debts(m)' \subseteq Debts(m) \cup {s}
        BY <2>1, <3>1, EndedLoss DEF Debts
      <3> QED  BY <1>2, <2>1, <3>1, <3>2, Settling
    <2>4. CASE Closes(s)
      BY <1>1, <2>4 DEF Closes, OwnerInv, NoneStopped
    <2>5. CASE Replaced(s) /\ Superseded(s)
      <3>1. Ended(s) /\ wire[s] = "open" /\ mishaps' = mishaps
        BY <2>5 DEF Replaced
      <3>2. Debts(m)' \subseteq Debts(m)
        BY <2>1, <2>5, <3>1, EndedLoss DEF Superseded, Debts
      <3>3. retries'[m] <= retries[m] /\ mishaps' >= mishaps
        BY <1>3, <2>1, <3>1
      <3> QED  BY <1>2, <3>2, <3>3, Settling
    <2> QED  BY <1>9, <2>2, <2>3, <2>4, <2>5 DEF NetworkStep
  <1> QED
    BY <1>4, <1>5, <1>6, <1>7, <1>8, <1>9 DEF Next, LooperStep

LEMMA StrayInit == Init => StrayInv
  <1> SUFFICES ASSUME Init PROVE StrayInv  OBVIOUS
  <1>1. StatusInv  BY StatusInit
  <1>2. LooperInv  BY DEF Init, LooperInv
  <1>3. ASSUME NEW m \in Managers
        PROVE  retries[m] + Cardinality(Debts(m)) <= mishaps
    <2>1. Debts(m) = {}
      BY <1>3, AgentAssumption DEF Init, Debts, Losses, Strays
    <2>2. Cardinality(Debts(m)) = 0  BY <2>1, FS_EmptySet
    <2> QED  BY <2>2 DEF Init
  <1> QED  BY <1>1, <1>2, <1>3 DEF StrayInv, DebtsPaid

LEMMA StrayStep ==
  ASSUME ~Preempted
  PROVE  StrayInv /\ [Next]_vars => StrayInv'
  <1> SUFFICES ASSUME StrayInv, [Next]_vars PROVE StrayInv'  OBVIOUS
  <1>1. StatusInv'  BY StatusStep DEF StrayInv
  <1>2. LooperInv'  BY LooperInvStep DEF StrayInv
  <1>3. DebtsPaid'  BY <1>1, DebtStep DEF StrayInv, StatusInv, IInv
  <1> QED  BY <1>1, <1>2, <1>3 DEF StrayInv

(* Where callbacks and runnables do not overlap, the agent leaves no more  *)
(* sockets open than it lost connections: two live sockets on the wire, as *)
(* EpochGate.kt has it, take a loss and the reconnect it posted.           *)
THEOREM StraysArePaidFor ==
  ASSUME ~Preempted
  PROVE  Spec => []StraysPaidFor
  <1>1. ASSUME StrayInv  PROVE StraysPaidFor
    <2> SUFFICES ASSUME NoneStopped, NEW m \in Managers
                 PROVE  retries[m] + Cardinality(LeftOpen(m)) <= mishaps
      BY DEF StraysPaidFor, NoneStopped
    <2> DEFINE A == Debts(m)
               B == LeftOpen(m)
    <2>1. A \in SUBSET Sockets /\ B \in SUBSET Sockets /\ B \subseteq A
      BY DEF LeftOpen, Debts, Losses, Strays, Stray
    <2>2. /\ Cardinality(A) \in Nat /\ Cardinality(B) \in Nat
          /\ Cardinality(B) <= Cardinality(A)
      BY <2>1, Counted
    <2>3. retries[m] + Cardinality(A) <= mishaps
      BY <1>1 DEF StrayInv, DebtsPaid
    <2>4. retries[m] \in Nat /\ mishaps \in Int
      BY <1>1, AgentAssumption DEF StrayInv, StatusInv, IInv, TypeOK
    <2> HIDE DEF A
    <2> QED  BY <2>2, <2>3, <2>4
  <1>2. StrayInv => StraysPaidFor  BY <1>1
  <1>3. StrayInv /\ [Next]_vars => StrayInv'  BY StrayStep
  <1> QED  BY <1>2, <1>3, StrayInit, PTL DEF Spec

=============================================================================
