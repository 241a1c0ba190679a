----------------------------- MODULE FrontProps -----------------------------
(***************************************************************************)
(* What the relay's HTTP front promises.                                   *)
(***************************************************************************)
EXTENDS RelayFront

(* The type invariant, with what the tables of a process cannot hold:      *)
(* codes of another process's key.                                         *)
TypeOK ==
    /\ now \in Nat
    /\ secret \in 1 .. MaxSecret
    /\ signed \subseteq Payloads
    /\ usedCodes \subseteq {p \in signed : p.t = "code" /\ p.by = secret}
    /\ burnt \subseteq {p \in signed : p.t = "code" /\ p.by = secret}
    /\ usedCodesCleanup \in Nat
    /\ attempts \in [Addresses -> Consent!Entries \cup {None}]
    /\ attemptsCleanup \in Nat
    /\ barred \in [Addresses -> BOOLEAN]
    /\ exchange \in [Exchanges -> {"idle", "verified", "granted"}]
    /\ code \in [Exchanges -> Payloads \cup {None}]
    /\ \A x \in Exchanges : exchange[x] = "verified" =>
         code[x] \in signed /\ code[x].t = "code" /\ code[x].by = secret
    /\ post \in [Posts -> {"idle", "running", "refused", "answered"}]
    /\ shown \in [Posts -> {None} \cup {AIToken(s) : s \in 1 .. MaxSecret} \cup Payloads]
    /\ timeout \in [Posts -> Int]

(* A code buys tokens once in the life of a process.  Two requests with    *)
(* the same code, and the sweep of used codes by a third, may come in any  *)
(* order; the one gap is a request whose code expires between verify and   *)
(* the mutex, after which a sweep may have forgotten it.                   *)
(* (handleAuthCodeGrant, oauth.go:387-427)                                 *)
SingleUse ==
    [][\A x \in Exchanges :
         exchange[x] = "verified" /\ exchange'[x] = "granted" =>
           code[x] \notin burnt \/ code[x].exp < now]_vars

(* Every token that is ever signed goes back, through any number of        *)
(* refreshes, to a code of the same key for the same client, and the code  *)
(* to a registration.  (issueTokens, oauth.go:438; handleAuthorizePost)    *)
RestsOn(p, q) ==
    /\ q.by = p.by
    /\ \/ p.t = "at" /\ q.t = "rt"
       \/ p.t = "rt" /\ q.t = "code" /\ q.for = p.for
       \/ p.t = "code" /\ q.t = "client" /\ q.for = p.for
Grounded ==
    \A p \in signed :
      p.t # "client" => p.exp # 0 /\ \E q \in signed : RestsOn(p, q)

(* Whoever runs a command has the AI_TOKEN of the process, or a token that *)
(* expires and has a consent given with it behind: a code signed with the  *)
(* process's key for a client it registered.  Rotating the AI_TOKEN and    *)
(* restarting ends the rest.  (requireBearer, main.go:280; oauth.go)       *)
ConsentBehindEveryCall ==
    \A h \in Posts :
      post[h] = "running" /\ shown[h] # AIToken(secret) =>
        /\ shown[h].exp # 0
        /\ \E p, q \in signed :
             /\ p.t = "code" /\ q.t = "client"
             /\ p.for = q.for
             /\ p.by = secret /\ q.by = secret

(* The table of attempts, entries that outlive their window and sweeps     *)
(* included, is what one window for each address would be.                 *)
(* (rateLimited, oauth.go:168-190)                                         *)
Quota == IF Limit > 1 THEN Limit ELSE 1
WindowOf(a) ==
    IF Consent!NoWindow(a, now) THEN None
    ELSE [since    |-> attempts[a].resetAt - Window,
          admitted |-> IF attempts[a].count < Quota THEN attempts[a].count
                                                    ELSE Quota]

Windows == INSTANCE AttemptWindows WITH
    window <- [a \in Addresses |-> WindowOf(a)], Shut <- None

RefinesWindows == Windows!Spec

(* Tokens that run commands were let in; a code that was looked up is      *)
(* remembered until it has expired.                                        *)
TokensShown ==
    \A h \in Posts : post[h] = "running" =>
      shown[h] = AIToken(secret)
        \/ shown[h] \in {p \in signed : p.t = "at" /\ p.by = secret}
CodesRemembered == \A p \in burnt : p \in usedCodes \/ p.exp < now

(* The inductive invariant.                                                *)
IInv ==
    /\ TypeOK
    /\ now > 0
    /\ Grounded
    /\ TokensShown
    /\ CodesRemembered
=============================================================================
