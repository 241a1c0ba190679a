----------------------------- MODULE AgentProps -----------------------------
(***************************************************************************)
(* Fairness of the agent's threads and the properties of AgentConnection.  *)
(***************************************************************************)
EXTENDS AgentConnection

(* Fairness.  Looper, OkHttp and Android run what they have; the heartbeat *)
(* and each reconnect are due in the end.  A dial ends, a closed socket is *)
(* gone after its handshake, and of two sockets the relay drops the one    *)
(* that is no longer used.                                                 *)
Settles(s) == Opens(s) \/ Closes(s) \/ (Superseded(s) /\ Replaced(s))

FairSpec ==
    /\ Spec
    /\ WF_vars(\E m \in Managers : ConnectStep(m))
    /\ SF_vars(\E m \in Managers : Heartbeat(m))
    /\ SF_vars(\E m \in Managers : Retry(m))
    /\ SF_vars(\E m \in Managers : SwitchNetwork(m))
    /\ WF_vars(\E m \in Managers : PostSwitch(m))
    /\ SF_vars(\E s \in Sockets : ListenerStep(s))
    /\ \A s \in Sockets : WF_vars(Settles(s))

(* Every variable keeps its type.                                          *)
TypeOK ==
    /\ life \in [Managers -> Lives]
    /\ ws \in [Managers -> Sockets \cup {None}]
    /\ gen \in [Managers -> Sockets \cup {None}]
    /\ retries \in [Managers -> Nat]
    /\ switch \in [Managers -> BOOLEAN]
    /\ watch \in [Managers -> BOOLEAN]
    /\ conn \in Conns
    /\ main \in [pc : MainPCs, mgr : Managers \cup {None}]
    /\ made \in Sockets \cup {None}
    /\ wire \in [Sockets -> {"free", "dialling", "open", "ended"}]
    /\ owner \in [Sockets -> Managers \cup {None}]
    /\ shut \in SUBSET Sockets
    /\ due \in [Sockets -> SUBSET {"open", "end"}]
    /\ cb \in [Sockets -> CbPCs]
    /\ mishaps \in 0..MaxMishaps

(* Reconnects do not multiply: each one waiting stands for a failure, so   *)
(* that the backoff of ConnectionManager.scheduleReconnect limits dials.   *)
RetriesPaidFor == \A m \in Managers : retries[m] <= mishaps

(* A stopped manager opens no socket, though a reconnect may be posted     *)
(* after the queue was emptied, and the network callback fire once more.   *)
StoppedOpensNothing ==
    [][\A s \in Sockets :
         wire[s] # "dialling" /\ wire'[s] = "dialling" =>
             life[owner'[s]] # "stopped"]_vars

(* Whenever the threads are between two callbacks and runnables, the state *)
(* shown is that of the current socket, or its next callback will change   *)
(* it and not be taken for stale: no socket of the past has changed it.  (Until a service stops: its  *)
(* sockets write to the state of the next one.)                            *)
Settled == main.pc = "idle" /\ CallbacksIdle

StatusIsTrue ==
    \A m \in Managers :
        LET s == ws[m] IN
        Settled /\ life[m] = "running" /\ (\A n \in Managers : life[n] # "stopped") =>
            CASE conn = "CONNECTED"    -> s # None /\ IsCurrent(s) /\ (wire[s] = "open" \/ "end" \in due[s])
              [] conn = "CONNECTING"   -> s # None /\ IsCurrent(s) /\ (wire[s] = "dialling" \/ due[s] # {})
              [] conn = "DISCONNECTED" -> ~Live(s)
              [] OTHER                 -> FALSE \in Configured

(* A reconnect or a heartbeat may connect while a socket is still open or  *)
(* being opened: nothing in the agent closes that one any more.  It takes  *)
(* a lost connection for each, so that no more sockets are left open than  *)
(* the mishaps there were, less the reconnects still waiting.  (Callbacks  *)
(* and runnables that do not overlap; connectRelay, scheduleReconnect.)    *)
LeftOpen(m) == {s \in Sockets : owner[s] = m /\ Live(s) /\ s \notin {ws[m], made}}

StraysPaidFor ==
    (\A n \in Managers : life[n] # "stopped") =>
        \A m \in Managers : retries[m] + Cardinality(LeftOpen(m)) <= mishaps

(* Once failures, network changes and the user have done their worst, a    *)
(* running agent is connected for good.                                    *)
Connected(m) == conn = "CONNECTED" /\ Live(ws[m]) /\ IsCurrent(ws[m])

Reconnects ==
    \A m \in Managers : <>[](life[m] = "running" => Connected(m))

=============================================================================
