----------------------------- MODULE RelayFront -----------------------------
(***************************************************************************)
(* The relay process as its HTTP clients see it (server/cmd/relay/main.go, *)
(* server/internal/mcp/mcp.go): the OAuth endpoints and POST /mcp, whose   *)
(* run_shell calls Registry.Exec.  What Exec does is module Relay's; here  *)
(* it is an outcome that comes at some time.                               *)
(*                                                                         *)
(* The metadata, health and consent-form pages change no state and decide  *)
(* nothing.  Bug_X operators are mistakes for the mutation runs.           *)
(***************************************************************************)
EXTENDS OAuth

CONSTANTS
    Posts,          \* clients of /mcp, one request at a time
    TimeoutsMs,     \* the timeoutMs values requested; 0 stands for none
    DefaultMs, MaxMs,  \* DEFAULT_TIMEOUT_MS, MAX_TIMEOUT_MS
    NsPerMs,        \* time.Millisecond
    HalfRange       \* 2^63: a time.Duration is in -HalfRange .. HalfRange - 1

VARIABLES
    post,      \* of a client: whether its request is in Exec, or its answer
    shown,     \* the credential of one that is running
    timeout    \* what that one passed to Exec

frontVars == <<post, shown, timeout>>
vars == <<oauthVars, frontVars>>

(* time.Duration(ms) * time.Millisecond                                    *)
Duration(ms) == ((ms * NsPerMs + HalfRange) % (2 * HalfRange)) - HalfRange

DefaultTimeout == Duration(DefaultMs)
MaxTimeout == Duration(MaxMs)

(* What loadConfigFromEnv lets through.                                    *)
ConfigLoads == DefaultMs > 0 /\ MaxMs > 0 /\ ~(DefaultTimeout > MaxTimeout)

ASSUME FrontAssumption ==
    /\ TimeoutsMs \subseteq Int
    /\ DefaultMs \in Int /\ MaxMs \in Int /\ NsPerMs \in Int
    /\ HalfRange \in Nat \ {0}
    /\ ConfigLoads

(* A bearer credential: none, an AI_TOKEN or anything that was signed.     *)
AIToken(s) == [t |-> "AI_TOKEN", for |-> None, cc |-> None, exp |-> 0, by |-> s]
Credentials == {None} \cup {AIToken(s) : s \in 1 .. MaxSecret} \cup signed

Bug_AnyType(c) == c \in signed /\ Valid(c)
VerifyAccessToken(c) == c \in Presented("at")

(* Those that requireBearer lets in.                                       *)
LetIn == {c \in Credentials : c = AIToken(secret) \/ VerifyAccessToken(c)}

(* The timeout of runShellHandler.  A Duration that wraps is not capped.   *)
TimeoutFor(ms) ==
    IF ms > 0 THEN IF Duration(ms) > MaxTimeout THEN MaxTimeout ELSE Duration(ms)
              ELSE DefaultTimeout

-----------------------------------------------------------------------------
FrontInit ==
    /\ OAuthInit
    /\ post = [h \in Posts |-> "idle"]
    /\ shown = [h \in Posts |-> None]
    /\ timeout = [h \in Posts |-> 0]

(* requireBearer                                                           *)
Rejected(h) ==
    /\ post[h] # "running"
    /\ Credentials \ LetIn # {}
    /\ post' = [post EXCEPT ![h] = "refused"]
    /\ UNCHANGED <<oauthVars, shown, timeout>>

(* mcpHandler refuses a wrong verb, a body over 1 MiB and broken JSON.      *)
BadRequest(h) ==
    /\ post[h] # "running"
    /\ LetIn # {}
    /\ post' = [post EXCEPT ![h] = "refused"]
    /\ UNCHANGED <<oauthVars, shown, timeout>>

(* Server.Handle and handleToolsCall answer at once what is not a proper   *)
(* run_shell: a notification, initialize, a list, an unknown method or     *)
(* tool, parameters or arguments that are rejected.                        *)
Answered(h) ==
    /\ post[h] # "running"
    /\ LetIn # {}
    /\ post' = [post EXCEPT ![h] = "answered"]
    /\ UNCHANGED <<oauthVars, shown, timeout>>

RunShell(h, ms) ==
    /\ post[h] # "running"
    /\ \E c \in LetIn : shown' = [shown EXCEPT ![h] = c]
    /\ post' = [post EXCEPT ![h] = "running"]
    /\ timeout' = [timeout EXCEPT ![h] = TimeoutFor(ms)]
    /\ UNCHANGED oauthVars

(* Exec returns an error, or a result with an exit code.                   *)
ExecReturns(h) ==
    /\ post[h] = "running"
    /\ post' = [post EXCEPT ![h] = "answered"]
    /\ shown' = [shown EXCEPT ![h] = None]
    /\ timeout' = [timeout EXCEPT ![h] = 0]
    /\ UNCHANGED oauthVars

(* ListenAndServe returns when Shutdown is called, and main with it:       *)
(* requests that are running get no answer, on a signal as on a crash.     *)
Restart ==
    /\ OAuthRestart
    /\ post' = [h \in Posts |-> IF post[h] = "running" THEN "idle" ELSE post[h]]
    /\ shown' = [h \in Posts |-> None]
    /\ timeout' = [h \in Posts |-> 0]

FrontNext ==
    \/ OAuthNext /\ UNCHANGED frontVars
    \/ Tick /\ UNCHANGED frontVars
    \/ \E h \in Posts :
         \/ Rejected(h) \/ BadRequest(h) \/ Answered(h) \/ ExecReturns(h)
         \/ \E ms \in TimeoutsMs : RunShell(h, ms)
    \/ Restart

Spec == FrontInit /\ [][FrontNext]_vars
=============================================================================
