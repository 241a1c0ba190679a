-------------------------------- MODULE OAuth --------------------------------
(***************************************************************************)
(* The OAuth provider of the relay (server/internal/oauth/oauth.go).       *)
(*                                                                         *)
(* Everything it issues is a signed payload that the client keeps, so the  *)
(* state of the process is the codes used and the consent attempts, both   *)
(* lost at a restart.  signed is what clients may present: HMAC is taken   *)
(* to be unforgeable and SHA-256 injective.  A payload carries the secret  *)
(* it was signed with; rotating AI_TOKEN is a restart with the next one.   *)
(*                                                                         *)
(* Time is in seconds, as in the code, and passes between any two steps.   *)
(* A token request reads the clock twice, in verify and under the mutex;   *)
(* the other handlers take effect at one time.  Bug_X operators are        *)
(* mistakes for the mutation runs, used nowhere else.                      *)
(***************************************************************************)
EXTENDS Integers, FiniteSets

CONSTANTS
    Clients,         \* the redirect_uris that clients register
    Verifiers,       \* PKCE verifiers; a challenge is the verifier it is of
    Addresses,       \* remote addresses of the consent page
    TrustedProxies,  \* addresses that may set X-Forwarded-For
    Exchanges,       \* clients of the token endpoint, one request at a time
    Limit, Window,   \* 10 attempts, 300 s
    Threshold, CleanEvery,  \* 1000 entries, 30 s
    CodeTTL, AccessTTL, RefreshTTL,
    MaxNow,          \* bound: the clock
    MaxSecret,       \* bound: AI_TOKENs
    MaxCodes,        \* bound: codes signed
    MaxCount,        \* bound: attempts counted in a window
    None

ASSUME OAuthAssumption ==
    /\ IsFiniteSet(Addresses)
    /\ TrustedProxies \subseteq Addresses
    /\ Limit \in Int
    /\ Window \in Nat /\ Threshold \in Nat /\ CleanEvery \in Nat
    /\ CodeTTL \in Nat /\ AccessTTL \in Nat /\ RefreshTTL \in Nat
    /\ MaxNow \in Nat /\ MaxSecret \in Nat \ {0}
    /\ MaxCodes \in Nat /\ MaxCount \in Nat
    /\ None \notin Clients \cup Verifiers \cup Addresses
    /\ None \notin [count : Nat \ {0}, resetAt : Int]
    /\ None \notin [since : Int, admitted : Nat]

VARIABLES
    now,              \* time.Now().Unix()
    secret,           \* which AI_TOKEN the process runs with
    signed,           \* the payloads signed so far
    usedCodes,        \* Provider.usedCodes
    usedCodesCleanup,
    attempts,         \* Provider.attempts
    attemptsCleanup,
    barred,           \* the last attempt of an address was refused
    exchange,         \* of a client: "idle", "verified" its code or "granted" tokens
    code,             \* the code it has verified and not yet used up
    burnt             \* history: the codes looked up since the process started

limitVars == <<attempts, attemptsCleanup, barred>>
codeVars  == <<usedCodes, usedCodesCleanup, burnt>>
oauthVars == <<now, secret, signed, codeVars, limitVars, exchange, code>>

Consent == INSTANCE RateLimiter WITH
    hits <- attempts, lastCleanup <- attemptsCleanup, Absent <- None

(* A payload: its type, what it is bound to (redirect_uris or the client), *)
(* the challenge of a code, the expiry (0: none), and the signing secret.  *)
Types == {"client", "code", "at", "rt"}
Payloads == [t : Types, for : Clients \cup {None}, cc : Verifiers \cup {None},
             exp : Nat, by : 1 .. MaxSecret]

Sign(t, for, cc, exp) ==
    [t |-> t, for |-> for, cc |-> cc, exp |-> exp, by |-> secret]

OAuthInit ==
    /\ now = CleanEvery + 1
    /\ secret = 1
    /\ signed = {}
    /\ usedCodes = {} /\ usedCodesCleanup = 0
    /\ Consent!LimiterInit
    /\ barred = [a \in Addresses |-> FALSE]
    /\ exchange = [x \in Exchanges |-> "idle"]
    /\ code = [x \in Exchanges |-> None]
    /\ burnt = {}

(* verify: signed by this process's key, not expired.                      *)
Valid(p) == p.by = secret /\ (p.exp = 0 \/ ~(p.exp < now))

Presented(t) == {p \in signed : p.t = t /\ Valid(p)}

-----------------------------------------------------------------------------
(* POST /oauth/register                                                    *)
Register(c) ==
    /\ signed' = signed \cup {Sign("client", c, None, 0)}
    /\ UNCHANGED <<now, secret, codeVars, limitVars, exchange, code>>

(* The client's address, from X-Forwarded-For if a trusted proxy says so.  *)
ClientIP(remote, fwd) ==
    IF remote \in TrustedProxies /\ fwd # None THEN fwd ELSE remote

SeenAs == {ClientIP(remote, fwd) : remote \in Addresses, fwd \in Addresses \cup {None}}

(* parseAuthRequest: a registered client, one of its redirect_uris and a   *)
(* PKCE challenge.                                                         *)
AuthRequests == Presented("client") \X Verifiers

(* POST /oauth/authorize.  An attempt counts before it is looked at: what  *)
(* follows may be an invalid request or a wrong key, which sign nothing.   *)
AuthorizePost(a) ==
    LET limited == Consent!Limited(a, now)
    IN  /\ ~Consent!NoWindow(a, now) => attempts[a].count < MaxCount
        /\ Consent!Hit(a, now)
        /\ barred' = [barred EXCEPT ![a] = limited]
        /\ \/ UNCHANGED signed
           \/ /\ ~limited
              /\ Cardinality({p \in signed : p.t = "code"}) < MaxCodes
              /\ \E req \in AuthRequests :
                   signed' = signed \cup
                     {Sign("code", req[1].for, req[2], now + CodeTTL)}
        /\ UNCHANGED <<now, secret, codeVars, exchange, code>>

-----------------------------------------------------------------------------
(* POST /oauth/token                                                       *)

(* issueTokens                                                             *)
IssueTokens(for) ==
    signed' = signed \cup {Sign("at", None, None, now + AccessTTL),
                           Sign("rt", for, None, now + RefreshTTL)}

(* grant_type=authorization_code, up to the mutex.                         *)
VerifyCode(x) ==
    /\ exchange[x] # "verified"
    /\ \E p \in Presented("code") : code' = [code EXCEPT ![x] = p]
    /\ exchange' = [exchange EXCEPT ![x] = "verified"]
    /\ UNCHANGED <<now, secret, signed, codeVars, limitVars>>

Bug_SweptAtExpiry(codes) ==
    IF Cardinality(codes) > Threshold /\ now - usedCodesCleanup > CleanEvery
      THEN {p \in codes : ~(p.exp <= now)} ELSE codes
SweptCodes(codes) ==
    IF Cardinality(codes) > Threshold /\ now - usedCodesCleanup > CleanEvery
      THEN {p \in codes : ~(p.exp < now)} ELSE codes

CodeUsed(x) ==
    /\ exchange[x] = "verified"
    /\ code[x] \in usedCodes
    /\ exchange' = [exchange EXCEPT ![x] = "idle"]
    /\ code' = [code EXCEPT ![x] = None]
    /\ UNCHANGED <<now, secret, signed, codeVars, limitVars>>

(* The code is used up before redirect_uri and verifier are compared.      *)
Redeem(x, v) ==
    LET codes == usedCodes \cup {code[x]}
    IN  /\ exchange[x] = "verified"
        /\ code[x] \notin usedCodes
        /\ usedCodes' = SweptCodes(codes)
        /\ usedCodesCleanup' =
             IF Cardinality(codes) > Threshold /\ now - usedCodesCleanup > CleanEvery
               THEN now ELSE usedCodesCleanup
        /\ burnt' = burnt \cup {code[x]}
        /\ \/ /\ v = code[x].cc
              /\ IssueTokens(code[x].for)
              /\ exchange' = [exchange EXCEPT ![x] = "granted"]
           \/ /\ exchange' = [exchange EXCEPT ![x] = "idle"]
              /\ UNCHANGED signed
        /\ code' = [code EXCEPT ![x] = None]
        /\ UNCHANGED <<now, secret, limitVars>>

(* grant_type=refresh_token; the refresh token stays usable.               *)
Bug_AnyToken == {p \in signed : Valid(p)}
RefreshTokens == Presented("rt")

Refresh(x) ==
    /\ exchange[x] # "verified"
    /\ \E for \in {p.for : p \in RefreshTokens} : IssueTokens(for)
    /\ exchange' = [exchange EXCEPT ![x] = "granted"]
    /\ UNCHANGED <<now, secret, codeVars, limitVars, code>>

-----------------------------------------------------------------------------
(* The process ends, by a signal or otherwise, and is started again, maybe *)
(* with another AI_TOKEN; requests that were running get no answer.        *)
OAuthRestart ==
    /\ secret' \in {secret, secret + 1} \cap 1 .. MaxSecret
    /\ usedCodes' = {} /\ usedCodesCleanup' = 0
    /\ attempts' = [a \in Addresses |-> None] /\ attemptsCleanup' = 0
    /\ barred' = [a \in Addresses |-> FALSE]
    /\ exchange' = [x \in Exchanges |->
                      IF exchange[x] = "verified" THEN "idle" ELSE exchange[x]]
    /\ code' = [x \in Exchanges |-> None]
    /\ burnt' = {}
    /\ UNCHANGED <<now, signed>>

Tick ==
    /\ now < MaxNow
    /\ now' = now + 1
    /\ UNCHANGED <<secret, signed, codeVars, limitVars, exchange, code>>

OAuthNext ==
    \/ \E c \in Clients : Register(c)
    \/ \E a \in SeenAs : AuthorizePost(a)
    \/ \E x \in Exchanges :
         \/ VerifyCode(x) \/ CodeUsed(x) \/ Refresh(x)
         \/ \E v \in Verifiers : Redeem(x, v)
=============================================================================
