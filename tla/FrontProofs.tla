----------------------------- MODULE FrontProofs -----------------------------
(***************************************************************************)
(* Proofs about the relay's HTTP front, for every number of clients,       *)
(* addresses and keys, and every limit, lifetime and timeout.              *)
(***************************************************************************)
EXTENDS FrontProps, TLAPS

USE OAuthAssumption, FrontAssumption

(* The timeout handed to Exec, for any timeoutMs whatever.                 *)
LEMMA TimeoutForType == \A ms \in Int : TimeoutFor(ms) \in Int
BY DEF TimeoutFor, Duration, MaxTimeout, DefaultTimeout

(* An attempt leaves the tables well typed.                                *)
LEMMA HitType ==
    ASSUME NEW a \in Addresses, IInv, Consent!Hit(a, now)
    PROVE  /\ attempts' \in [Addresses -> Consent!Entries \cup {None}]
           /\ attemptsCleanup' \in Nat
<1> USE DEF Consent!NoWindow, Consent!Opened, Consent!Swept, Consent!Entries,
            IInv, TypeOK
<1>1. CASE Consent!NoWindow(a, now)
  <2>1. Consent!Opened(a, now) \in [Addresses -> Consent!Entries \cup {None}]
    OBVIOUS
  <2>2. Consent!Swept(Consent!Opened(a, now), now)
          \in [Addresses -> Consent!Entries \cup {None}]
    BY <2>1
  <2> QED
    BY <1>1, <2>1, <2>2 DEF Consent!Hit
<1>2. CASE ~Consent!NoWindow(a, now)
  BY <1>2 DEF Consent!Hit
<1> QED
  BY <1>1, <1>2

-----------------------------------------------------------------------------
(* What was signed has the type of a payload.                              *)
LEMMA SignType ==
    ASSUME TypeOK, NEW t \in Types, NEW for \in Clients \cup {None},
           NEW cc \in Verifiers \cup {None}, NEW exp \in Nat
    PROVE  Sign(t, for, cc, exp) \in Payloads
BY DEF Sign, Payloads, TypeOK

(* Signing a payload that has its grounds keeps the rest grounded.         *)
LEMMA GroundsGrow ==
    ASSUME TypeOK, Grounded, signed \subseteq signed', signed' \subseteq Payloads,
           \A p \in signed' \ signed :
             p.t # "client" => p.exp # 0 /\ \E q \in signed' : RestsOn(p, q)
    PROVE  Grounded'
BY DEF Grounded, RestsOn

(* Nothing else that a step of the OAuth endpoints does concerns /mcp.     *)
LEMMA TokensShownKept ==
    ASSUME TokensShown, signed \subseteq signed', secret' = secret,
           UNCHANGED frontVars
    PROVE  TokensShown'
BY DEF TokensShown, frontVars, AIToken

LEMMA InitInv == FrontInit => IInv
<1> SUFFICES ASSUME FrontInit PROVE IInv
  OBVIOUS
<1>1. TypeOK
  BY DEF FrontInit, OAuthInit, TypeOK, Consent!LimiterInit
<1>2. Grounded /\ TokensShown /\ CodesRemembered /\ now > 0
  BY DEF FrontInit, OAuthInit, Grounded, TokensShown, CodesRemembered
<1> QED
  BY <1>1, <1>2 DEF IInv

-----------------------------------------------------------------------------
LEMMA RegisterInv ==
    ASSUME IInv, NEW c \in Clients, Register(c), UNCHANGED frontVars
    PROVE  IInv'
<1> USE DEF Register
<1>0. TypeOK /\ Grounded /\ TokensShown /\ CodesRemembered /\ now > 0
  BY DEF IInv
<1> DEFINE p == Sign("client", c, None, 0)
<1>1. p \in Payloads /\ p.t = "client"
  BY <1>0, SignType DEF Types, Sign
<1>2. TypeOK'
  BY <1>0, <1>1 DEF TypeOK, codeVars, limitVars, frontVars
<1>3. Grounded'
  BY <1>0, <1>1, <1>2, GroundsGrow DEF TypeOK
<1>4. TokensShown'
  BY <1>0, TokensShownKept
<1>5. CodesRemembered' /\ now' > 0
  BY <1>0 DEF CodesRemembered, codeVars, frontVars
<1> QED
  BY <1>2, <1>3, <1>4, <1>5 DEF IInv

LEMMA AuthorizePostInv ==
    ASSUME IInv, NEW a \in Addresses, AuthorizePost(a), UNCHANGED frontVars
    PROVE  IInv'
<1>0. TypeOK /\ Grounded /\ TokensShown /\ CodesRemembered /\ now > 0
  BY DEF IInv
<1>1. Consent!Hit(a, now) /\ barred' \in [Addresses -> BOOLEAN]
  BY <1>0 DEF AuthorizePost, TypeOK, Consent!Limited, Consent!NoWindow
<1>2. UNCHANGED <<now, secret, codeVars, exchange, code>>
  BY DEF AuthorizePost
<1>3. signed \subseteq signed' /\ signed' \subseteq Payloads /\ Grounded'
  <2>1. CASE UNCHANGED signed
    BY <2>1, <1>0 DEF TypeOK, Grounded
  <2>2. CASE signed' # signed
    <3>1. PICK p \in Presented("client"), v \in Verifiers :
            signed' = signed \cup {Sign("code", p.for, v, now + CodeTTL)}
      BY <2>2 DEF AuthorizePost, AuthRequests
    <3> DEFINE q == Sign("code", p.for, v, now + CodeTTL)
    <3>2. p \in signed /\ p \in Payloads /\ p.t = "client" /\ p.by = secret
      BY <1>0, <3>1 DEF Presented, Valid, TypeOK
    <3>3. q \in Payloads /\ q.t = "code" /\ q.for = p.for /\ q.by = secret /\ q.exp # 0
      BY <1>0, <3>2, SignType DEF Types, Sign, Payloads, TypeOK
    <3>4. p \in signed' /\ RestsOn(q, p)
      BY <3>1, <3>2, <3>3 DEF RestsOn
    <3>5. \A r \in signed' \ signed : r = q
      BY <3>1
    <3>6. signed \subseteq signed' /\ signed' \subseteq Payloads
      BY <1>0, <3>1, <3>3 DEF TypeOK
    <3> HIDE DEF q
    <3> QED
      BY <1>0, <3>3, <3>4, <3>5, <3>6, GroundsGrow
  <2> QED
    BY <2>1, <2>2
<1>4. TypeOK'
  BY <1>0, <1>1, <1>2, <1>3, HitType DEF TypeOK, codeVars, frontVars
<1>5. TokensShown'
  BY <1>0, <1>2, <1>3, TokensShownKept
<1>6. CodesRemembered' /\ now' > 0
  BY <1>0, <1>2 DEF CodesRemembered, codeVars, frontVars
<1> QED
  BY <1>3, <1>4, <1>5, <1>6 DEF IInv

LEMMA VerifyCodeInv ==
    ASSUME IInv, NEW x \in Exchanges, VerifyCode(x), UNCHANGED frontVars
    PROVE  IInv'
<1>0. TypeOK /\ Grounded /\ TokensShown /\ CodesRemembered /\ now > 0
  BY DEF IInv
<1>1. UNCHANGED <<now, secret, signed, codeVars, limitVars, frontVars>>
  BY DEF VerifyCode
<1>2. TypeOK'
  BY <1>0, <1>1 DEF TypeOK, VerifyCode, Presented, Valid, codeVars, limitVars, frontVars
<1>3. Grounded' /\ TokensShown' /\ CodesRemembered' /\ now' > 0
  BY <1>0, <1>1, TokensShownKept
     DEF Grounded, CodesRemembered, codeVars, frontVars
<1> QED
  BY <1>2, <1>3 DEF IInv

LEMMA CodeUsedInv ==
    ASSUME IInv, NEW x \in Exchanges, CodeUsed(x), UNCHANGED frontVars
    PROVE  IInv'
<1>0. TypeOK /\ Grounded /\ TokensShown /\ CodesRemembered /\ now > 0
  BY DEF IInv
<1>1. UNCHANGED <<now, secret, signed, codeVars, limitVars, frontVars>>
  BY DEF CodeUsed
<1>2. TypeOK'
  BY <1>0, <1>1 DEF TypeOK, CodeUsed, codeVars, limitVars, frontVars
<1>3. Grounded' /\ TokensShown' /\ CodesRemembered' /\ now' > 0
  BY <1>0, <1>1, TokensShownKept
     DEF Grounded, CodesRemembered, codeVars, frontVars
<1> QED
  BY <1>2, <1>3 DEF IInv

(* A pair of tokens issued for a client that consented.                    *)
LEMMA IssueInv ==
    ASSUME TypeOK, Grounded, now > 0, NEW p \in signed, p.by = secret,
           p.t = "code" \/ p.t = "rt", IssueTokens(p.for), now' = now
    PROVE  signed \subseteq signed' /\ signed' \subseteq Payloads /\ Grounded'
<1> DEFINE at == Sign("at", None, None, now + AccessTTL)
           rt == Sign("rt", p.for, None, now + RefreshTTL)
<1>1. p \in Payloads /\ signed' = signed \cup {at, rt}
  BY DEF TypeOK, IssueTokens
<1>2. at \in Payloads /\ at.t = "at" /\ at.exp # 0 /\ at.by = secret
  BY SignType DEF Types, Sign, TypeOK
<1>3. rt \in Payloads /\ rt.t = "rt" /\ rt.exp # 0 /\ rt.by = secret /\ rt.for = p.for
  BY <1>1, SignType DEF Types, Sign, TypeOK, Payloads
<1> HIDE DEF at, rt
<1>4. PICK q \in signed : q.t = "code" /\ q.by = secret /\ q.for = p.for
  BY DEF Grounded, RestsOn
<1>5. RestsOn(rt, q) /\ RestsOn(at, rt)
  BY <1>2, <1>3, <1>4 DEF RestsOn
<1>6. signed \subseteq signed' /\ signed' \subseteq Payloads
  BY <1>1, <1>2, <1>3 DEF TypeOK
<1>7. Grounded'
  BY <1>1, <1>2, <1>3, <1>4, <1>5, <1>6, GroundsGrow
<1> QED
  BY <1>6, <1>7

LEMMA RedeemInv ==
    ASSUME IInv, NEW x \in Exchanges, NEW v \in Verifiers, Redeem(x, v),
           UNCHANGED frontVars
    PROVE  IInv'
<1>0. TypeOK /\ Grounded /\ TokensShown /\ CodesRemembered /\ now > 0
  BY DEF IInv
<1>1. UNCHANGED <<now, secret, limitVars, frontVars>>
  BY DEF Redeem
<1>2. code[x] \in signed /\ code[x].t = "code" /\ code[x].by = secret
  BY <1>0 DEF TypeOK, Redeem
<1>3. signed \subseteq signed' /\ signed' \subseteq Payloads /\ Grounded'
  <2>1. CASE UNCHANGED signed
    BY <2>1, <1>0 DEF TypeOK, Grounded
  <2>2. CASE IssueTokens(code[x].for)
    BY <2>2, <1>0, <1>1, <1>2, IssueInv
  <2> QED
    BY <2>1, <2>2 DEF Redeem
<1>4. usedCodes' \subseteq usedCodes \cup {code[x]} /\ usedCodesCleanup' \in Nat
  BY <1>0 DEF Redeem, SweptCodes, TypeOK
<1>5. exchange' \in [Exchanges -> {"idle", "verified", "granted"}]
  BY <1>0 DEF Redeem, TypeOK
<1>6. /\ code' = [code EXCEPT ![x] = None]
      /\ \A y \in Exchanges : exchange'[y] = "verified" => y # x /\ exchange[y] = "verified"
  BY <1>0 DEF Redeem, TypeOK
<1>7. burnt' = burnt \cup {code[x]}
  BY DEF Redeem
<1>8. TypeOK'
  BY <1>0, <1>1, <1>2, <1>3, <1>4, <1>5, <1>6, <1>7 DEF TypeOK, limitVars, frontVars
<1>9. CodesRemembered'
  <2> SUFFICES ASSUME NEW p \in burnt \cup {code[x]}, p \notin usedCodes'
               PROVE  p.exp < now
    BY <1>1, <1>7 DEF CodesRemembered
  <2>1. CASE p \in usedCodes \cup {code[x]}
    BY <2>1 DEF Redeem, SweptCodes
  <2>2. CASE p \notin usedCodes \cup {code[x]}
    BY <2>2, <1>0 DEF CodesRemembered
  <2> QED
    BY <2>1, <2>2
<1>10. TokensShown' /\ now' > 0
  BY <1>0, <1>1, <1>3, TokensShownKept DEF frontVars
<1> QED
  BY <1>3, <1>8, <1>9, <1>10 DEF IInv

LEMMA RefreshInv ==
    ASSUME IInv, NEW x \in Exchanges, Refresh(x), UNCHANGED frontVars
    PROVE  IInv'
<1>0. TypeOK /\ Grounded /\ TokensShown /\ CodesRemembered /\ now > 0
  BY DEF IInv
<1>1. UNCHANGED <<now, secret, codeVars, limitVars, code, frontVars>>
  BY DEF Refresh
<1>2. PICK p \in signed : p.t = "rt" /\ p.by = secret /\ IssueTokens(p.for)
  BY DEF Refresh, RefreshTokens, Presented, Valid
<1>3. signed \subseteq signed' /\ signed' \subseteq Payloads /\ Grounded'
  BY <1>0, <1>1, <1>2, IssueInv
<1>4. TypeOK'
  BY <1>0, <1>1, <1>3 DEF TypeOK, Refresh, codeVars, limitVars, frontVars
<1>5. TokensShown' /\ CodesRemembered' /\ now' > 0
  BY <1>0, <1>1, <1>3, TokensShownKept
     DEF CodesRemembered, codeVars, frontVars
<1> QED
  BY <1>3, <1>4, <1>5 DEF IInv

LEMMA TickInv ==
    ASSUME IInv, Tick, UNCHANGED frontVars
    PROVE  IInv'
<1>0. TypeOK /\ Grounded /\ TokensShown /\ CodesRemembered /\ now > 0
  BY DEF IInv
<1>1. now' = now + 1 /\ UNCHANGED <<secret, signed, codeVars, limitVars, exchange, code, frontVars>>
  BY DEF Tick
<1>2. TypeOK'
  BY <1>0, <1>1 DEF TypeOK, codeVars, limitVars, frontVars
<1>3. CodesRemembered'
  BY <1>0, <1>1 DEF CodesRemembered, codeVars, TypeOK, Payloads
<1>4. Grounded' /\ TokensShown' /\ now' > 0
  BY <1>0, <1>1, TokensShownKept DEF Grounded, frontVars, TypeOK
<1> QED
  BY <1>2, <1>3, <1>4 DEF IInv

(* No request is running after a restart, and no code is used.             *)
LEMMA RestartInv ==
    ASSUME IInv, Restart
    PROVE  IInv'
<1>0. TypeOK /\ Grounded /\ now > 0
  BY DEF IInv
<1>1. /\ UNCHANGED <<now, signed>> /\ secret' \in 1 .. MaxSecret
      /\ \A x \in Exchanges : exchange'[x] # "verified"
      /\ \A h \in Posts : post'[h] # "running"
  BY <1>0 DEF Restart, OAuthRestart, TypeOK
<1>2. TypeOK'
  BY <1>0, <1>1 DEF TypeOK, Restart, OAuthRestart
<1>3. Grounded' /\ TokensShown' /\ CodesRemembered' /\ now' > 0
  BY <1>0, <1>1
     DEF Grounded, TokensShown, CodesRemembered, Restart, OAuthRestart
<1> QED
  BY <1>2, <1>3 DEF IInv

(* POST /mcp                                                               *)
LEMMA PostInv ==
    ASSUME IInv, NEW h \in Posts,
           \/ Rejected(h) \/ BadRequest(h) \/ Answered(h) \/ ExecReturns(h)
           \/ \E ms \in TimeoutsMs : RunShell(h, ms)
    PROVE  IInv'
<1>0. TypeOK /\ Grounded /\ TokensShown /\ CodesRemembered /\ now > 0
  BY DEF IInv
<1>1. UNCHANGED oauthVars
  BY DEF Rejected, BadRequest, Answered, ExecReturns, RunShell
<1>2. /\ post' \in [Posts -> {"idle", "running", "refused", "answered"}]
      /\ timeout' \in [Posts -> Int]
      /\ shown' \in [Posts -> {None} \cup {AIToken(s) : s \in 1 .. MaxSecret} \cup Payloads]
  <2>1. CASE Rejected(h) \/ BadRequest(h) \/ Answered(h) \/ ExecReturns(h)
    BY <1>0, <2>1 DEF Rejected, BadRequest, Answered, ExecReturns, TypeOK
  <2>2. ASSUME NEW ms \in TimeoutsMs, RunShell(h, ms)
        PROVE  /\ post' \in [Posts -> {"idle", "running", "refused", "answered"}]
               /\ timeout' \in [Posts -> Int]
               /\ shown' \in [Posts -> {None} \cup {AIToken(s) : s \in 1 .. MaxSecret}
                                            \cup Payloads]
    <3>1. PICK c \in LetIn : shown' = [shown EXCEPT ![h] = c]
      BY <2>2 DEF RunShell
    <3>2. c \in {None} \cup {AIToken(s) : s \in 1 .. MaxSecret} \cup Payloads
      BY <1>0, <3>1 DEF LetIn, Credentials, TypeOK
    <3> QED
      BY <1>0, <2>2, <3>1, <3>2, TimeoutForType DEF RunShell, TypeOK
  <2> QED
    BY <2>1, <2>2
<1>3. TypeOK'
  BY <1>0, <1>1, <1>2 DEF TypeOK, oauthVars, codeVars, limitVars, AIToken
<1>4. TokensShown'
  <2>1. CASE Rejected(h) \/ BadRequest(h) \/ Answered(h) \/ ExecReturns(h)
    <3>1. \A g \in Posts : post'[g] = "running" => post[g] = "running" /\ shown'[g] = shown[g]
      BY <1>0, <2>1 DEF Rejected, BadRequest, Answered, ExecReturns, TypeOK
    <3> QED
      BY <1>0, <1>1, <3>1 DEF TokensShown, oauthVars, AIToken
  <2>2. ASSUME NEW ms \in TimeoutsMs, RunShell(h, ms)
        PROVE  TokensShown'
    <3>1. PICK c \in LetIn : shown' = [shown EXCEPT ![h] = c]
      BY <2>2 DEF RunShell
    <3>2. c = AIToken(secret) \/ c \in {p \in signed : p.t = "at" /\ p.by = secret}
      BY <3>1 DEF LetIn, VerifyAccessToken, Presented, Valid
    <3>3. \A g \in Posts : post'[g] = "running" =>
            g = h \/ post[g] = "running"
      BY <1>0, <2>2 DEF RunShell, TypeOK
    <3>4. \A g \in Posts : shown'[g] = IF g = h THEN c ELSE shown[g]
      BY <1>0, <3>1 DEF TypeOK
    <3> QED
      BY <1>0, <1>1, <3>2, <3>3, <3>4 DEF TokensShown, oauthVars, AIToken
  <2> QED
    BY <2>1, <2>2
<1>5. Grounded' /\ CodesRemembered' /\ now' > 0
  BY <1>0, <1>1 DEF Grounded, CodesRemembered, oauthVars, codeVars
<1> QED
  BY <1>2, <1>3, <1>4, <1>5 DEF IInv

LEMMA StepInv == IInv /\ [FrontNext]_vars => IInv'
<1> SUFFICES ASSUME IInv, [FrontNext]_vars PROVE IInv'
  OBVIOUS
<1>1. CASE OAuthNext /\ UNCHANGED frontVars
  <2>1. SeenAs \subseteq Addresses
    BY DEF SeenAs, ClientIP
  <2> QED
    BY <1>1, <2>1, RegisterInv, AuthorizePostInv, VerifyCodeInv, CodeUsedInv,
       RedeemInv, RefreshInv DEF OAuthNext
<1>2. CASE Tick /\ UNCHANGED frontVars
  BY <1>2, TickInv
<1>3. CASE \E h \in Posts : \/ Rejected(h) \/ BadRequest(h) \/ Answered(h) \/ ExecReturns(h)
                            \/ \E ms \in TimeoutsMs : RunShell(h, ms)
  BY <1>3, PostInv
<1>4. CASE Restart
  BY <1>4, RestartInv
<1>5. CASE UNCHANGED vars
  BY <1>5 DEF vars, oauthVars, codeVars, limitVars, frontVars, IInv, TypeOK,
     Grounded, TokensShown, CodesRemembered, AIToken
<1> QED
  BY <1>1, <1>2, <1>3, <1>4, <1>5 DEF FrontNext

(* The inductive invariant holds throughout.                               *)
THEOREM FrontInvariant == Spec => []IInv
BY InitInv, StepInv, PTL DEF Spec

-----------------------------------------------------------------------------
(* The tables are well typed, and hold no code of another key's.           *)
THEOREM FrontTypes == Spec => []TypeOK
<1>1. IInv => TypeOK
  BY DEF IInv
<1> QED
  BY <1>1, FrontInvariant, PTL

(* Every token ever signed rests on a consent of the same key and client.  *)
THEOREM EveryTokenGrounded == Spec => []Grounded
<1>1. IInv => Grounded
  BY DEF IInv
<1> QED
  BY <1>1, FrontInvariant, PTL

(* Whoever runs a command has the AI_TOKEN, or a consent given with it.    *)
THEOREM ConsentHolds == Spec => []ConsentBehindEveryCall
<1>1. IInv => ConsentBehindEveryCall
  <2> SUFFICES ASSUME IInv, NEW h \in Posts, post[h] = "running",
                      shown[h] # AIToken(secret)
               PROVE  /\ shown[h].exp # 0
                      /\ \E p, q \in signed :
                           /\ p.t = "code" /\ q.t = "client" /\ p.for = q.for
                           /\ p.by = secret /\ q.by = secret
    BY DEF ConsentBehindEveryCall
  <2>1. shown[h] \in signed /\ shown[h].t = "at" /\ shown[h].by = secret
    BY DEF IInv, TokensShown
  <2>2. PICK r \in signed : r.t = "rt" /\ r.by = secret
    BY <2>1 DEF IInv, Grounded, RestsOn
  <2>3. PICK p \in signed : p.t = "code" /\ p.by = secret
    BY <2>2 DEF IInv, Grounded, RestsOn
  <2>4. PICK q \in signed : q.t = "client" /\ q.by = secret /\ q.for = p.for
    BY <2>3 DEF IInv, Grounded, RestsOn
  <2>5. shown[h].exp # 0
    BY <2>1 DEF IInv, Grounded
  <2> QED
    BY <2>3, <2>4, <2>5
<1> QED
  BY <1>1, FrontInvariant, PTL

(* A code buys tokens once in the life of a process, or after it expired.  *)
THEOREM CodesAreSingleUse == Spec => SingleUse
<1>1. IInv /\ [FrontNext]_vars =>
        [\A x \in Exchanges :
           exchange[x] = "verified" /\ exchange'[x] = "granted" =>
             code[x] \notin burnt \/ code[x].exp < now]_vars
  <2> SUFFICES ASSUME IInv, FrontNext, NEW x \in Exchanges,
                      exchange[x] = "verified", exchange'[x] = "granted"
               PROVE  code[x] \notin burnt \/ code[x].exp < now
    OBVIOUS
  <2>1. PICK y \in Exchanges, v \in Verifiers : Redeem(y, v) /\ exchange' # exchange
    <3>1. CASE OAuthNext
      BY <3>1 DEF OAuthNext, Register, AuthorizePost, VerifyCode, CodeUsed,
         Refresh, IInv, TypeOK
    <3>2. ~(Tick /\ UNCHANGED frontVars)
      BY DEF Tick
    <3>3. ~\E h \in Posts : \/ Rejected(h) \/ BadRequest(h) \/ Answered(h) \/ ExecReturns(h)
                            \/ \E ms \in TimeoutsMs : RunShell(h, ms)
      BY DEF Rejected, BadRequest, Answered, ExecReturns, RunShell, oauthVars
    <3>4. ~Restart
      BY DEF Restart, OAuthRestart, IInv, TypeOK
    <3> QED
      BY <3>1, <3>2, <3>3, <3>4 DEF FrontNext
  <2>2. x = y
    BY <2>1 DEF Redeem, IInv, TypeOK
  <2>3. code[x] \notin usedCodes
    BY <2>1, <2>2 DEF Redeem
  <2> QED
    BY <2>3 DEF IInv, CodesRemembered
<1> QED
  BY <1>1, FrontInvariant, PTL DEF Spec, SingleUse

-----------------------------------------------------------------------------
(* The table of attempts against one window for each address.              *)
WindowTable == [a \in Addresses |-> WindowOf(a)]

LEMMA QuotaType == Quota \in Nat \ {0} /\ Limit <= Quota /\ (Quota = Limit \/ Quota = 1)
BY DEF Quota

(* What one entry of the table stands for.                                 *)
LEMMA OpenWindow ==
    ASSUME IInv, NEW a \in Addresses
    PROVE  /\ Consent!NoWindow(a, now) => WindowOf(a) = None
           /\ ~Consent!NoWindow(a, now) =>
                /\ attempts[a] \in Consent!Entries
                /\ WindowOf(a) = [since |-> attempts[a].resetAt - Window,
                                  admitted |-> IF attempts[a].count < Quota
                                                 THEN attempts[a].count ELSE Quota]
                /\ WindowOf(a) # None
<1>1. ~Consent!NoWindow(a, now) => attempts[a] \in Consent!Entries
  BY DEF IInv, TypeOK, Consent!NoWindow
<1>2. ASSUME attempts[a] \in Consent!Entries
      PROVE  [since |-> attempts[a].resetAt - Window,
              admitted |-> IF attempts[a].count < Quota THEN attempts[a].count ELSE Quota]
               \in [since : Int, admitted : Nat]
  BY <1>2, QuotaType DEF Consent!Entries
<1> QED
  BY <1>1, <1>2 DEF WindowOf

LEMMA InitWindows == FrontInit => Windows!Init
BY DEF FrontInit, OAuthInit, Consent!LimiterInit, Windows!Init, WindowOf, Consent!NoWindow

(* An attempt that opens a window: a sweep takes no window that is open.   *)
LEMMA FirstAttempt ==
    ASSUME IInv, NEW a \in Addresses, AuthorizePost(a), Consent!NoWindow(a, now)
    PROVE  Windows!First(a)
<1>1. now' = now /\ barred' = [barred EXCEPT ![a] = FALSE] /\ Consent!Hit(a, now)
  BY DEF AuthorizePost, Consent!Limited
<1>2. /\ attempts'[a] = [count |-> 1, resetAt |-> now + Window]
      /\ \A b \in Addresses \ {a} :
           attempts'[b] = attempts[b]
             \/ (attempts'[b] = None /\ Consent!NoWindow(b, now))
  <2>0. PICK opened : opened = Consent!Opened(a, now)
    OBVIOUS
  <2>1. attempts' = opened \/ attempts' = Consent!Swept(opened, now)
    BY <1>1, <2>0 DEF Consent!Hit
  <2>2. /\ opened[a] = [count |-> 1, resetAt |-> now + Window]
        /\ \A b \in Addresses \ {a} : opened[b] = attempts[b]
    BY <2>0 DEF Consent!Opened, IInv, TypeOK
  <2>3. opened[a].resetAt = now + Window /\ ~(opened[a].resetAt < now)
    BY <2>2 DEF IInv, TypeOK
  <2>4. CASE attempts' = opened
    BY <2>2, <2>4
  <2>5. CASE attempts' = Consent!Swept(opened, now)
    <3>1. \A b \in Addresses :
            attempts'[b] = IF opened[b] # None /\ opened[b].resetAt < now
                             THEN None ELSE opened[b]
      BY <2>5 DEF Consent!Swept
    <3>2. attempts'[a] = opened[a]
      BY <2>3, <3>1
    <3>3. ASSUME NEW b \in Addresses \ {a}
          PROVE  attempts'[b] = attempts[b]
                   \/ (attempts'[b] = None /\ Consent!NoWindow(b, now))
      BY <2>2, <3>1 DEF Consent!NoWindow
    <3> QED
      BY <2>2, <3>2, <3>3
  <2> QED
    BY <2>1, <2>4, <2>5
<1>3. WindowOf(a)' = [since |-> now, admitted |-> 1]
  BY <1>1, <1>2, QuotaType DEF WindowOf, Consent!NoWindow, IInv, TypeOK
<1>4. \A b \in Addresses \ {a} : WindowOf(b)' = WindowOf(b)
  BY <1>1, <1>2 DEF WindowOf, Consent!NoWindow
<1>5. WindowTable' = [WindowTable EXCEPT ![a] = [since |-> now, admitted |-> 1]]
  BY <1>3, <1>4 DEF WindowTable
<1>6. WindowTable[a] = None
  BY OpenWindow DEF WindowTable
<1> QED
  BY <1>1, <1>5, <1>6 DEF Windows!First, WindowTable

(* An attempt in an open window.                                           *)
LEMMA FurtherAttempt ==
    ASSUME IInv, NEW a \in Addresses, AuthorizePost(a), ~Consent!NoWindow(a, now)
    PROVE  Windows!Further(a) \/ Windows!Refused(a)
<1> DEFINE n == attempts[a].count
           limited == n + 1 > Limit
<1>0. Consent!Limited(a, now) <=> limited
  BY DEF Consent!Limited
<1>1. now' = now /\ attempts' = [attempts EXCEPT ![a].count = @ + 1]
  BY DEF AuthorizePost, Consent!Hit
<1>bar. barred' = [barred EXCEPT ![a] = Consent!Limited(a, now)]
  BY DEF AuthorizePost
<1>bool. Consent!Limited(a, now) \in BOOLEAN
  BY DEF Consent!Limited
<1>2. attempts[a] \in Consent!Entries /\ n \in Nat \ {0} /\ attempts \in [Addresses -> Consent!Entries \cup {None}]
  BY OpenWindow DEF Consent!Entries, IInv, TypeOK
<1>3. attempts'[a] = [count |-> n + 1, resetAt |-> attempts[a].resetAt]
      /\ \A b \in Addresses \ {a} : attempts'[b] = attempts[b]
  BY <1>1, <1>2 DEF Consent!Entries
<1>4. ~Consent!NoWindow(a, now)'
  BY <1>1, <1>2, <1>3 DEF Consent!NoWindow, Consent!Entries
<1>5. WindowOf(a)' = [since |-> attempts[a].resetAt - Window,
                      admitted |-> IF n + 1 < Quota THEN n + 1 ELSE Quota]
  BY <1>3, <1>4 DEF WindowOf
<1>6. \A b \in Addresses \ {a} : WindowOf(b)' = WindowOf(b)
  BY <1>1, <1>3 DEF WindowOf, Consent!NoWindow
<1>7. WindowOf(a) # None /\ WindowOf(a) = [since |-> attempts[a].resetAt - Window,
                                           admitted |-> IF n < Quota THEN n ELSE Quota]
  BY OpenWindow
<1>8. CASE limited
  <2>1. ~(n < Quota)
    BY <1>2, <1>8, QuotaType
  <2>2. WindowOf(a)' = WindowOf(a)
    BY <1>2, <1>5, <1>7, <2>1, QuotaType
  <2>3. WindowTable' = WindowTable
    BY <1>6, <2>2 DEF WindowTable
  <2>4. barred' = [barred EXCEPT ![a] = TRUE]
    BY <1>0, <1>bar, <1>bool, <1>8
  <2>5. WindowTable[a] # None /\ WindowTable[a].admitted = Quota
    BY <1>7, <2>1 DEF WindowTable
  <2> QED
    BY <1>1, <2>3, <2>4, <2>5 DEF Windows!Refused, WindowTable
<1>9. CASE ~limited
  <2>1. n < Quota /\ n + 1 <= Quota
    BY <1>2, <1>9, QuotaType
  <2>2. WindowOf(a)' = [WindowOf(a) EXCEPT !.admitted = @ + 1]
    BY <1>2, <1>5, <1>7, <2>1, QuotaType
  <2>3. WindowTable' = [WindowTable EXCEPT ![a] = [WindowTable[a] EXCEPT !.admitted = @ + 1]]
    BY <1>6, <2>2 DEF WindowTable
  <2>4. WindowTable' = [WindowTable EXCEPT ![a].admitted = @ + 1]
    BY <2>3 DEF WindowTable
  <2>5. WindowTable[a] # None /\ WindowTable[a].admitted < Quota
    BY <1>7, <2>1 DEF WindowTable
  <2>6. barred' = [barred EXCEPT ![a] = FALSE]
    BY <1>0, <1>bar, <1>bool, <1>9
  <2> QED
    BY <1>1, <2>4, <2>5, <2>6 DEF Windows!Further, WindowTable
<1> QED
  BY <1>8, <1>9

(* Windows end by the clock, and entries that outlived them are nothing.   *)
LEMMA TickWindows ==
    ASSUME IInv, Tick
    PROVE  Windows!Tick
<1>1. now' = now + 1 /\ UNCHANGED <<attempts, barred>>
  BY DEF Tick, limitVars
<1>2. ASSUME NEW a \in Addresses
      PROVE  WindowOf(a)' = IF WindowOf(a) # None /\ WindowOf(a).since + Window < now'
                              THEN None ELSE WindowOf(a)
  <2>1. CASE Consent!NoWindow(a, now)
    <3>1. Consent!NoWindow(a, now)'
      BY <1>1, <2>1 DEF Consent!NoWindow, Consent!Entries, IInv, TypeOK
    <3> QED
      BY <2>1, <3>1 DEF WindowOf
  <2>2. CASE ~Consent!NoWindow(a, now)
    <3>1. attempts[a].resetAt \in Int /\ attempts[a] # None
          /\ WindowOf(a).since = attempts[a].resetAt - Window /\ WindowOf(a) # None
      BY <2>2, OpenWindow DEF Consent!Entries, Consent!NoWindow
    <3>2. WindowOf(a).since + Window = attempts[a].resetAt
      BY <3>1
    <3>3. CASE attempts[a].resetAt < now'
      BY <1>1, <3>1, <3>2, <3>3 DEF WindowOf, Consent!NoWindow
    <3>4. CASE ~(attempts[a].resetAt < now')
      <4>1. ~Consent!NoWindow(a, now)'
        BY <1>1, <3>1, <3>4 DEF Consent!NoWindow
      <4> QED
        BY <1>1, <2>2, <3>1, <3>2, <3>4, <4>1 DEF WindowOf
    <3> QED
      BY <3>3, <3>4
  <2> QED
    BY <2>1, <2>2
<1>3. WindowTable' = [a \in Addresses |->
                        IF WindowTable[a] # None /\ WindowTable[a].since + Window < now'
                          THEN None ELSE WindowTable[a]]
  BY <1>2 DEF WindowTable
<1> QED
  BY <1>1, <1>3 DEF Windows!Tick, WindowTable

LEMMA RestartWindows ==
    ASSUME IInv, Restart
    PROVE  Windows!Restart
BY DEF Restart, OAuthRestart, Windows!Restart, WindowOf, Consent!NoWindow

(* Everything else leaves the windows alone.                               *)
LEMMA OthersWindows ==
    ASSUME UNCHANGED <<now, attempts, barred>>
    PROVE  UNCHANGED Windows!wvars
BY DEF Windows!wvars, WindowOf, Consent!NoWindow

LEMMA StepWindows == IInv /\ [FrontNext]_vars => [Windows!Next]_(Windows!wvars)
<1> SUFFICES ASSUME IInv, [FrontNext]_vars PROVE [Windows!Next]_(Windows!wvars)
  OBVIOUS
<1>1. ASSUME NEW a \in SeenAs, AuthorizePost(a)
      PROVE  Windows!Next
  <2>1. a \in Addresses
    BY DEF SeenAs, ClientIP
  <2> QED
    BY <1>1, <2>1, FirstAttempt, FurtherAttempt DEF Windows!Next
<1>2. CASE Tick
  BY <1>2, TickWindows DEF Windows!Next
<1>3. CASE Restart
  BY <1>3, RestartWindows DEF Windows!Next
<1>4. ASSUME NEW x \in Exchanges,
             VerifyCode(x) \/ CodeUsed(x) \/ Refresh(x) \/ \E v \in Verifiers : Redeem(x, v)
      PROVE  UNCHANGED Windows!wvars
  BY <1>4, OthersWindows DEF VerifyCode, CodeUsed, Refresh, Redeem, limitVars
<1>5. ASSUME NEW c \in Clients, Register(c)
      PROVE  UNCHANGED Windows!wvars
  BY <1>5, OthersWindows DEF Register, limitVars
<1>6. ASSUME NEW h \in Posts, \/ Rejected(h) \/ BadRequest(h) \/ Answered(h) \/ ExecReturns(h)
                            \/ \E ms \in TimeoutsMs : RunShell(h, ms)
      PROVE  UNCHANGED Windows!wvars
  BY <1>6, OthersWindows DEF Rejected, BadRequest, Answered, ExecReturns, RunShell, oauthVars, limitVars
<1>7. CASE UNCHANGED vars
  BY <1>7, OthersWindows DEF vars, oauthVars, limitVars
<1> QED
  BY <1>1, <1>2, <1>3, <1>4, <1>5, <1>6, <1>7 DEF FrontNext, OAuthNext

(* The limiter of consent attempts, its stale entries and its sweeps are   *)
(* one window for each address, for every limit and length of a window.    *)
THEOREM LimiterImplementsWindows == Spec => RefinesWindows
BY InitWindows, StepWindows, FrontInvariant, PTL DEF Spec, RefinesWindows, Windows!Spec

=============================================================================
