--------------------------- MODULE CommandService ---------------------------
(***************************************************************************)
(* What the relay promises a caller of Registry.Exec, without goroutines,  *)
(* channels, locks or sockets.                                             *)
(*                                                                         *)
(* A session is one connection of an agent; the newest session of a device *)
(* id owns it.  A call is addressed to the owner of an id, never to an     *)
(* older session, and moves to no other.  It is answered at most once:     *)
(* with a result only after that session ran the command, with "replaced"  *)
(* or "disconnected" only if the session was given up.                     *)
(***************************************************************************)
CONSTANTS Conns, Calls, IDs, IDOf, None

VARIABLES
    owner,    \* the session that owns an id
    ended,    \* why a session is being given up
    session,  \* the session a call was addressed to
    ran,      \* the commands a session ran
    answer    \* what a call was answered

svars == <<owner, ended, session, ran, answer>>

Refusals == {"not_found", "no_device", "ambiguous"}
Unsent == {"too_many", "send_failed"}
Reasons == {"result", "replaced", "disconnected", "timeout", "cancelled"}

SInit ==
    /\ owner = [i \in IDs |-> None]
    /\ ended = [c \in Conns |-> {}]
    /\ session = [r \in Calls |-> None]
    /\ ran = [c \in Conns |-> {}]
    /\ answer = [r \in Calls |-> "none"]

Owned == {i \in IDs : owner[i] # None}

(* A new session takes the id over.                                        *)
Join(c) ==
    LET o == owner[IDOf[c]] IN
    /\ ended[c] = {}
    /\ o # c
    /\ owner' = [owner EXCEPT ![IDOf[c]] = c]
    /\ ended' = IF o = None THEN ended
                ELSE [ended EXCEPT ![o] = @ \cup {"replaced"}]
    /\ UNCHANGED <<session, ran, answer>>

End(c) ==
    /\ ended' = [ended EXCEPT ![c] = @ \cup {"disconnected"}]
    /\ UNCHANGED <<owner, session, ran, answer>>

(* An id is given up by the session that owns it, once it has ended.       *)
GiveUpID(c) ==
    /\ owner[IDOf[c]] = c
    /\ ended[c] # {}
    /\ owner' = [owner EXCEPT ![IDOf[c]] = None]
    /\ UNCHANGED <<ended, session, ran, answer>>

(* A call names an id, or none when a single one is owned.                 *)
Address(r, i) ==
    /\ session[r] = None /\ answer[r] = "none"
    /\ owner[i] # None
    /\ session' = [session EXCEPT ![r] = owner[i]]
    /\ UNCHANGED <<owner, ended, ran, answer>>

RefuseCall(r, v) ==
    /\ session[r] = None /\ answer[r] = "none"
    /\ \/ v = "not_found" /\ Owned # IDs
       \/ v = "no_device" /\ Owned = {}
       \/ v = "ambiguous" /\ Owned # {} /\ \A i \in IDs : Owned # {i}
    /\ answer' = [answer EXCEPT ![r] = v]
    /\ UNCHANGED <<owner, ended, session, ran>>

(* A command runs at most once, and not for a call refused before it.      *)
Run(c, r) ==
    /\ session[r] = c
    /\ r \notin ran[c]
    /\ answer[r] \notin Unsent
    /\ ran' = [ran EXCEPT ![c] = @ \cup {r}]
    /\ UNCHANGED <<owner, ended, session, answer>>

Answer(r, v) ==
    /\ session[r] \in Conns
    /\ answer[r] = "none"
    /\ \/ v = "result" /\ r \in ran[session[r]]
       \/ v = "replaced" /\ "replaced" \in ended[session[r]]
       \/ v = "disconnected" /\ ended[session[r]] # {}
       \/ v \in Unsent /\ r \notin ran[session[r]]
       \/ v \in {"timeout", "cancelled"}
    /\ answer' = [answer EXCEPT ![r] = v]
    /\ UNCHANGED <<owner, ended, session, ran>>

SNext ==
    \/ \E c \in Conns : Join(c) \/ End(c) \/ GiveUpID(c)
    \/ \E c \in Conns, r \in Calls : Run(c, r)
    \/ \E r \in Calls, i \in IDs : Address(r, i)
    \/ \E r \in Calls :
         \E v \in Refusals : RefuseCall(r, v)
    \/ \E r \in Calls : \E v \in Reasons \cup Unsent : Answer(r, v)

Spec == SInit /\ [][SNext]_svars

-----------------------------------------------------------------------------
(* What a caller and an agent can rely on.                                 *)

(* A command runs at most once over all connections an agent ever opens,   *)
(* and only for a caller that was, or may still be, given its result or a  *)
(* reason why none came: never for one that was told it was not sent.      *)
RunOnce ==
    \A r \in Calls :
        /\ \A c, d \in Conns : r \in ran[c] \cap ran[d] => c = d
        /\ \A c \in Conns : r \in ran[c] =>
             answer[r] \in {"none"} \cup Reasons

(* A session that was replaced never owns its id again, whatever the       *)
(* sessions after it do.                                                   *)
FinalHandOver ==
    \A c \in Conns : "replaced" \in ended[c] => owner[IDOf[c]] # c

(* Why: a command runs only where its call was addressed, and only the     *)
(* newest session of an id owns it.                                        *)
SInv ==
    /\ owner \in [IDs -> Conns \cup {None}]
    /\ ended \in [Conns -> SUBSET {"replaced", "disconnected"}]
    /\ session \in [Calls -> Conns \cup {None}]
    /\ ran \in [Conns -> SUBSET Calls]
    /\ answer \in [Calls -> {"none"} \cup Refusals \cup Unsent \cup Reasons]
    /\ \A i \in IDs : owner[i] # None => IDOf[owner[i]] = i
    /\ \A r \in Calls : session[r] # None => answer[r] \notin Refusals
    /\ \A c \in Conns : \A r \in ran[c] : session[r] = c
    /\ RunOnce
    /\ FinalHandOver

=============================================================================
