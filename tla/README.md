# rish-mcp in TLA+

rish-mcp lets an MCP client run shell commands on Android devices. This
directory holds TLA+ models of the parts of it whose correctness depends on
interleavings, failures and restarts, the TLC configurations that check them on
small instances, and TLAPS proofs of the invariants for every instance.
`PROJECT.json` lists components, runs, mutants, hazards, findings and theorems,
and maps every definition to the lines it models.

## The system

    MCP client --HTTP--> relay (Go) --WebSocket--> agent (Kotlin) --adb--> shell
    browser/agent --HTTP--> public server (Go) <--poll-- GitHub releases

| part | source | state | operations |
|---|---|---|---|
| device registry | `server/internal/relay/registry.go` | `devices`; per device `conn`, `pending`, `writeMu` | `add`, `get`, `resolve`, `disconnect`, `Exec`, `resolveResult`, `List` |
| agent sockets | `server/internal/relay/ws.go` | slots per address; per connection a reader and a ping goroutine, `done`, a `sync.Once`, `lastSeen` | `HandleAgent`, `acquire`, `release`, `registerAgentPing`, `sendPing`, `closeConn` |
| MCP surface | `server/internal/mcp/mcp.go` | none | `initialize`, `tools/list`, `tools/call` |
| relay process | `server/cmd/relay/main.go` | configuration; the HTTP server | bearer check, `run_shell`, `list_devices`, shutdown |
| OAuth provider | `server/internal/oauth/oauth.go` | `usedCodes`, `attempts`; everything else is in signed payloads | register, authorize, token, verify |
| release source | `server/internal/release/source.go` | `current`; on disk `release.json`, its backup, APK files, temporary files | `Start`, `refresh`, `downloadAndPublish`, swap, recovery, cleanup, `Get` |
| APK parser | `server/internal/release/apkinfo.go` | a cache by path, size and mtime | `ReadApkInfo` |
| public server | `server/cmd/publicserver/main.go` | download counts per address | version, APK download, shutdown |
| setup tool | `server/cmd/setup/main.go` | files and subprocesses | interactive installation and update |
| agent connection | `app/.../ConnectionManager.kt`, `EpochGate.kt` | the socket, its epoch, backoff, scheduled runnables | connect, reconnect, heartbeat, network callback, `exec` frames |
| agent service | `app/.../AgentService.kt` and receivers | the `ConnectionManager` in use, the global `AgentState` | create, reconfigure, destroy |
| adb shell | `app/.../AdbShellClient.kt`, `ShellV2Protocol.kt` | the adb stream, a killer coroutine | `exec`, `readResult` |
| CLI, web site, `before/` | `cli/`, `web/`, `before/` | none that matters here | client, static pages, the retired implementation |

How they interact. Everything in the relay is shared memory: HTTP handlers call
`Exec` on goroutines of their own, each agent connection has a handler goroutine
that also reads and a ping goroutine, and they meet in `Registry.mu`,
`Device.mu`, `Device.writeMu`, a result channel per call and the limiter's map.
Agent and relay exchange frames over one WebSocket; the agent runs each `exec`
frame as a coroutine. OAuth endpoints and `/mcp` meet in the provider's mutexes
and in what it has signed. The public server's polling goroutine and its requests share the `current` pointer; polling
goroutine and restarted process share the cache directory.

What is hard in it:

- *Replacement and teardown.* An agent that redials replaces its own older
  connection while commands run on it. The new handler and the old handler
  each disconnect the old device, in any order, across three locks.
- *Four ways for a call to end.* A result, a teardown (possibly two), the timer
  and the caller's context reach the same call at once.
- *Blocking writes.* Exec and pings share `writeMu`; nothing sets a write
  deadline.
- *A pointer that must survive.* Publishing a release is a dozen file system
  operations, each of which can fail or be the last one before a restart; a
  cleanup at start and an undo after a failure delete files.
- *Threads of the agent.* OkHttp callbacks, the main looper and coroutines share
  a few volatiles that say which socket is the current one.
- *Clocks.* Codes, tokens and rate limit windows expire at second boundaries,
  a request reads the clock more than once, and tables are swept on the side.
- *A timeout that needs a thread.* What closes the stream of an overdue command
  is a coroutine on the dispatcher whose threads the commands block.
- *Framing across caps.* shell-v2 lengths are 32-bit, packets and output are
  capped, and what exceeds a cap still has to be read.

What makes each part correct:

- registry and sockets: a connection that ends never takes its successor's
  registration along; a teardown runs once and somebody runs it; no caller is left
  waiting; a command runs once; an answer is the command's own and is not lost;
  slots are neither leaked nor returned twice; callers return and dead sockets
  go.
- release source: what is pointed at exists; what is served is what its tag
  says; a last-good release survives every failure and stop; a cached release is
  replaced only by one of greater tag and versionCode; in the end the highest
  release is served.
- OAuth and bearer check: a code buys tokens once in the life of a process;
  whoever runs a command holds the AI_TOKEN or a token that goes back to a
  consent given with it; attempts are limited by one window per address.
- `run_shell`: a requested timeout over the maximum is capped.
- agent connection: a dead one is replaced in the end; losses cost one reconnect
  each, and leave at most one socket open; a stopped manager dials no more.
- adb shell: framing survives packets of any announced length; a result with an exit code is
  complete or says that it is not; a frame gets one reply; every command ends by
  its timeout and leaves nothing behind.

## Modules

| module | role |
|---|---|
| `Relay` | registry and agent sockets as goroutines that interleave at every critical section, channel operation and socket operation |
| `RelayProps` | fairness, properties, the inductive invariant and the refinement mapping |
| `CommandService` | what callers are promised, without goroutines, channels or sockets |
| `MCRelay` | instances of `Relay` |
| `RelayProofs` | proofs about `Relay` |
| `ReleaseCache` | the release source, one file system operation per action, with failures, stops and requests |
| `ReleaseProps` | properties, the inductive invariant and the refinement mapping |
| `AtomicCache` | what the release cache keeps to: one durable pointer, replaced atomically, and doubted only by a failed read |
| `MCRelease` | instances of `ReleaseCache` |
| `ReleaseProofs` | proofs about `ReleaseCache` |
| `AgentConnection` | the agent's relay connection: looper, listeners, network callback, and the service that creates and stops it |
| `AgentProps` | fairness and properties |
| `MCAgent` | instances of `AgentConnection` |
| `AgentProofs` | proofs about `AgentConnection` |
| `RateLimiter` | the limiter of requests per address, as both servers have it |
| `AttemptWindows` | what that limiter promises: one window per address |
| `OAuth` | the OAuth provider: registration, consent, both grants, used codes, attempts |
| `RelayFront` | the relay process as its HTTP clients see it: `OAuth`, the bearer check, `/mcp` and restarts |
| `FrontProps` | properties, the inductive invariant and the refinement mapping |
| `MCFront` | an instance of `RelayFront` |
| `FrontProofs` | proofs about `RelayFront` |
| `ShellExec` | how the agent runs commands: coroutines, killers, threads, shell-v2 packets |
| `ShellProps` | fairness, properties and the inductive invariant |
| `MCShell` | instances of `ShellExec` |
| `ShellProofs` | proofs about `ShellExec` |

### Relay

A *connection* (`Conns`) stands for one WebSocket with the `Device` struct, the
handler goroutine and the ping goroutine created for it; since a `Device` is
never reused, connections are one-shot. A *call* (`Calls`) is one `Exec` with
the random request id it draws.

- `devices` is `Registry.devices`; `attached[c]` says that `Device.conn` is not
  nil; `pending[c]` is the domain of the device's map; `ch[r]` is the call's
  one-slot channel; `active` is the limiter's map.
- `handler`, `ping` and `call` are program counters. `disc[c][cause]` is how far
  `Registry.disconnect` has come for a device: it can run twice at once, in the
  handler of the replacing connection (`replaced`) and under the `sync.Once` of
  the connection's own `closeConn` (`disconnected`). Its stages are the code's
  critical sections: `Unregister` (under `r.mu`), `Detach` (under `d.mu`),
  one `Notify` per waiter, `CloseSocket`.
- `Peek` is the read of `old.conn` without its mutex: after the device is
  detached it may return either value.
- `LockWrite`/`Written`/`WriteFails` are `writeMu` and `WriteJSON`. `WriteLocked`
  is derived from who is writing.
- `net[c]` is the peer: up, stalled (reads and sends nothing), reset.
- Time is abstract. A timer or a cancelled context may fire whenever the
  goroutine selects on it, and a silent peer may be found stale at any tick.

The refinement mapping takes `devices`, `dev`, `ran` and `out` as they are and
counts a session as ended from the moment a disconnect of it has begun.

### ReleaseCache

The state is the disk (`meta` = release.json, `bak` = its backup, `files`, `tmps`),
the memory of the process (`current`, `job`, `created`), the program
counter of the polling goroutine, and the surroundings: the releases GitHub
lists (`feed`), the option RELEASE_INCLUDE_PRERELEASE, and the paths that
requests have taken and not yet served (`held`).

- An APK is its content. Its immutable name is its SHA-256, so `files` is a set
  of APKs; `VersionOf` and `CodeOf` are what the parser reads from it. `Legacy`
  is `agent.apk`, left by servers that predate immutable names.
- Each action is one file system operation with its error paths; `Fails(kind)`
  charges the failure to `mishaps`. `Stop` ends the process between any two
  operations: memory is lost, the disk is kept. Losing power, which may lose
  renames, is excluded by docs/RELEASES.md as well.
- `recoverInterruptedCacheSwap` is one piece of control (`SkipRecovery`, `Judge`,
  `Finalize`, `Drop`, `Restore`) with two callers: `Start`, and a swap that
  meets a backup. `Recovered` says to which one it returns.
- A tag is the number of its version; drafts, foreign tags and releases without
  an APK never reach the model, as `refresh` skips them.

`AtomicCache` sees the pointer that a restart would find (`Durable`), the
release being served, the prerelease option, how many mishaps there were, and
whether a complete pair is about to be dropped (`Misread`). While a release is
served only a greater one of greater versionCode is committed; a release is given
up for another if it may not be shown and nothing is, or while it is in doubt,
which takes a failure each time. While none is served it lets any release be
committed, as the code does: see `release_older`.

### AgentConnection

Three kinds of threads share the fields of a `ConnectionManager` and the global
`AgentState.conn`: the main looper (heartbeat, retries, network switch, the
service's calls), one OkHttp thread per socket for its listener, and Android's
network callback. Each access of a shared field is an action.

- `main` is what the looper is in the middle of: `connecting`, `claiming`,
  `dialling` and `assigning` are lines 135, 163 and the two halves of 164 of
  `connectRelay`; `cancelling` and `clearing` lines 102 and 103 of
  `forceReconnect`; `beating` is between the heartbeat's two reads of the state.
- An epoch is only ever compared with the current one, so `gen[m]` is the socket
  whose listener has the current epoch, or `None` while it has no socket yet.
- `cb[s]` is the listener: `gating` between the two halves of `stale()`,
  `acting` between the check and its consequences, `scheduling` and `posting`
  in `scheduleReconnect`. `due[s]` are the events (opened; failed or closed)
  whose callback has not returned.
- `retries`, `switch` are the runnables in the looper's queue, `watch` says that
  the network callback has passed its checks and is about to post.
- `wire`, `shut` are the socket as OkHttp, the network and the relay treat it;
  a socket is used again once its listener can have no further effect.
- A second manager in `Managers` is the one that `AgentService` creates when it is
  started again in the same process: `AgentState` is shared by both.
- `Preempted = FALSE` is a bound: threads then switch only between whole callbacks
  and runnables. It separates what is wrong at any granularity from what takes
  an overlap of microseconds.

The adb connection (`ensureShellConnected`), delays and the backoff's values are
left out; exec frames are `ShellExec`'s.

### RelayFront, OAuth and RateLimiter

The provider keeps hardly anything: clients, codes and tokens are payloads that
it signs and hands out. `signed` is the set of them, what any client may present.
HMAC is taken to be unforgeable and SHA-256 injective, so a challenge is its
verifier; a payload carries the secret it was signed with (`by`), and
`OAuthRestart` may start the process with the next AI_TOKEN.

- `usedCodes` and `attempts` are the two maps, with the times of their last
  sweeps; all are lost at a restart. `burnt` is a history variable: the codes
  looked up since the process started, swept or not.
- `AuthorizePost` counts the attempt first, as the handler does; what follows
  signs a code, or nothing.
- `handleAuthCodeGrant` reads the clock twice: `VerifyCode` is `verify`, then
  `CodeUsed` or `Redeem` is the section under the mutex with its sweep. Any
  number of seconds may pass in between. The other handlers read it once.
- `RateLimiter` is `rateLimiter.limited` of the public server. `rateLimited` of the
  consent page is the same code with three other numbers, and `OAuth` takes it as
  the instance `Consent`.
- `LetIn` is what `requireBearer` lets in; `Rejected`, `BadRequest`, `Answered` and
  `RunShell` are the ways a request to `/mcp` can go, down to
  `handleToolsCall` and `runShellHandler`. `Registry.Exec` is an outcome that comes
  at some time (`ExecReturns`); what it does is `Relay`'s.
- `Duration` is `time.Duration(ms) * time.Millisecond`, which wraps around.
- `Restart` is the end of the process, by a signal or a crash. `ListenAndServe`
  returns as soon as `Shutdown` is called, and `main` with it, so requests that
  are running get no answer either way.

`AttemptWindows` knows for each address since when its window is open and how
many attempts it let through. The mapping forgets what the table keeps too long
(an entry whose window is over) and what it counts too far (attempts that were
refused).

### ShellExec

A *command* (`Cmds`) is one `exec` frame with the coroutine launched for it, its
killer and its adb stream.

- `task` and `killer` are the program counters. Both coroutines run on
  `Dispatchers.IO`, which has `Threads` threads: opening, reading and closing a
  stream keep one, `delay` does not. `ThreadFree` guards what needs a thread anew.
- `withContext` waits for its children, so `Reply` waits for a killer that is
  closing the stream.
- A packet is its kind and its length. `left` is how many of its bytes are still
  on the wire: `ReadPayload` takes at most `MAX_PACKET_BYTES` of them and `Dispatch`
  drains the rest. A header read while `left` is not zero would be payload taken
  for a header.
- `ToInt` is the signed 32-bit integer that the four bytes of a length become.
  `garbled` remembers that a length of 2^31 or more came, of which the code
  reads nothing and drains nothing, though ShellV2Protocol.kt:19-24 and :56-59
  promise both whatever the length is (`shell_garbled`).
- Output is counted: `wrote` is what the headers announced, `got` what
  `CappedBuffer` keeps, `cut` and `over` the two ways to be truncated.
- `Stop` is `ConnectionManager.stop`: the scope is cancelled, sleeping killers end
  and commands without a thread too, blocked reads do not.

## Runs

Each run takes between seconds and four minutes with two workers.

| run | question |
|---|---|
| `relay_fleet` | two calls, three connections, two ids, two slots, room for one pending command: the safety properties, results that are not lost, teardowns that somebody runs to the end, the inductive invariant, the refinement of `CommandService` and that a command runs once |
| `relay_liveness` | a redial while the first peer is pinged, stalls and comes back: without timers, replaced connections are wound up and torn down callers return; if every write ends, `Exec` returns and stalled connections go |
| `relay_stuck` | `Exec` returns without that assumption: it does not (finding) |
| `release_cache` | every kind of failure, reads included, stops, withdrawals, mislabelled releases and old versionCodes, prereleases toggled, requests, up to four mishaps: the safety properties, a release that must be rejected changes nothing, the refinement of `AtomicCache`, and the highest release served in the end |
| `release_older` | is a cached release replaced only by one of greater tag and versionCode? Not after a start that could not restore it (finding) |
| `agent_stop` | every overlap, the service destroyed at any time: no socket is opened afterwards, reconnects do not multiply |
| `agent_reconnects` | no overlap, a service restarted in the same process: connected for good after the last mishap; before a restart, the state shown is that of the current socket, and no more sockets are left open than connections were lost |
| `agent_stuck` | with overlap, a failed dial goes unnoticed (finding) |
| `relay_front` | two clients with one code, refreshes, a command, a restart with a rotated AI_TOKEN, the clock past every expiry: single use, consent behind every call, the refinement of `AttemptWindows` |
| `shell_exec` | a silent command beside one with packets of all sizes, with a thread to spare: framing lost to nothing but a length of 2^31 or more, honest results, no read without a killer, clean ends, and every command ends |
| `shell_garbled` | is the framing kept whatever the length is? Not from 2^31 on (finding) |
| `shell_starved` | no thread to spare: the silent commands never end (finding) |

Every property of a passing run has a mutant in `PROJECT.json`: a plausible
mistake in one mapped definition (the `Bug_` operators next to them) that makes
the run fail.

**Bounds.** Connections and calls are one-shot, so a run is finite in them and
ends when they are used up: relay runs therefore switch the deadlock check off,
while release runs keep it on (the server polls for ever). Agent runs switch it
off too: a connected agent has nothing left to do, nor has a stopped one.

Two connections with one id are what replacement needs; a third with another id
makes addresses ambiguous and exhausts two slots. `NetStates` and `Ticking`
limit what peers do and which connections live until a ping: `relay_fleet` has
neither stalls nor pings, `relay_liveness` has both on the first of its two
connections, the one that is replaced. Resets, which end a read at once where a
stall blocks it, are left to `relay_stuck` and to the proofs, which hold for every
`NetStates`. The two connections of one id and the two
calls of `relay_fleet` are symmetric.

In `release_cache` `MaxMishaps` is 4 and counts failures, stops and withdrawals
together: the longest stories here need three (a removal that fails, a stop, and
the recovery that is to cope with them). `Offers` has three versions, one of them a
prerelease, an APK with an old versionCode and one that is mislabelled, and an
older server may have left `agent.apk`. `release_older` needs two mishaps, a stop
and a rename, and three stable releases whose versionCodes do not follow their
tags (`CodeAstray`), as those of a mistaken build would; with it in place of
`Code`, nothing needs to be withdrawn for a lower one to come last.

In the agent runs three sockets are a current one, one being superseded and one
that the old listener still speaks for; `agent_reconnects` has a fourth, since a
stopped manager keeps its own, and one mishap besides the restart.
`MaxMishaps` there counts failures, network changes and reconfigurations;
heartbeats, retries and the relay's closing of superseded sockets are not
bounded.

In `relay_front` limits and lifetimes are one or two seconds and the clock runs
for two from its start (`MaxNow`), so that windows, codes and tokens expire in
every order and every table is swept. Two AI_TOKENs (`MaxSecret`) are one
rotation, two codes (`MaxCodes`) one that is swept while another is redeemed, two
exchanges a race for one. `MaxCount` stops counting after the first refusal.
`NsPerMs` and `HalfRange` are a scale on which a requested timeout of 4 exceeds
the maximum and one of 6 overflows; TLC evaluates the assumption
`OverflowIsNotCapped`, that the first is capped and the second is not.

In the shell runs the caps are one byte and integers have three bits: lengths of
1, 3 and 6 are a packet that fits, one over the cap and one that is read as
negative; `shell_garbled` needs one command and one such packet. Two packets before the exit packet fill the output cap and run over
it. Three threads for two commands leave one for a killer; two leave none. On a
device there are 64 threads, and as many commands stand for them. Shell runs
switch the deadlock check off: commands are one-shot.

The proofs lift these bounds for the properties they establish.

**Fairness.** The Go scheduler runs every goroutine that can step: weak fairness
for each. Taking `writeMu` is strongly fair, since Go's mutex does not starve a
waiter, and so is finding a stale peer, because a `select` that keeps choosing
is not unfair for ever. Writes to a peer that is up complete (`LiveWrites`).
`AllWrites`, that a write to any peer ends, is *not* something the code ensures,
and `relay_stuck` shows what follows. Timers are fair only in the
specifications that say so (`Timers`). Agents need not dial, callers need not
call, peers owe nothing. The release server is weakly fair as a whole, its start
included: docker-compose.yml has `restart: unless-stopped`, and the ticker polls
for ever. Nothing says that GitHub announces anything or that a request ends.
In the agent looper, listeners and network callback run what they have; the
heartbeat and each posted retry are due in the end (strong fairness, as the
looper is busy now and then); a dial ends one way or the other (OkHttp's
timeouts), a closed socket is gone after its handshake or the timeout for it,
and of two sockets of one agent the relay drops the superseded one (`Replace` in
`Relay`). That the relay drops the current one instead is a mishap.

In `ShellExec` the dispatcher serves its queue in order, so what waits for a
thread gets one if threads become free again and again (strong fairness); a
coroutine with a thread goes on, `delay` ends, adbd answers `openStream`, and a
read on a closed stream returns or throws. Nothing makes a command write or end.
`RelayFront` has safety properties only and states no fairness.

## Proofs

`RelayProofs`, `ReleaseProofs`, `AgentProofs`, `FrontProofs` and `ShellProofs` are
checked to the last leaf. None rests on anything but the assumptions named in the
modules that declare the constants.

**Relay.** The properties are not inductive: whether a device is registered,
attached and closed depends on how far its two teardowns have come. `IInv` adds
this: `TeardownInv` (a device is attached exactly while neither of its
disconnects has passed `Detach`; an id belongs to a connection whose replacement
has not begun), `WhereaboutsInv` (where the id of a call can be found at each of
its program counters), `AnswerInv` (every answer on its way has its reason) and
`CapInv`, and `DutyInv`, who has begun which teardown: a handler that waits in
`closeConn` waits for one that was begun, and each replaced device has one
connection that replaced it. Each conjunct has its lemmas, one per group of
actions; the cap and the slots need facts on the cardinality of finite sets. From
`IInv` follow `TypeCorrect`, `Registration`, `NobodyStranded`, `PendingCorrect`,
`SlotsCorrect`, `AnswersCorrect`, `ExitIsClean` and `Refinement`, that every step
is one of `CommandService` or a stutter.

Of the teardowns, `EachTeardownOnce` has each go through its stages once and in
order, although two handlers run them for the same device; `NobodyWaitsInVain`
gives every one under way its goroutine; `DetachedAreClosed` has the socket
closed when they are over, though the unlocked read of `old.conn` may have seen
nil: then it is the device's own `closeConn` that has passed `Detach` and is to
close it. The last two together are `TeardownsAreCompleted`. `ResultsArrive` has a result reach its caller unless the connection it
came in on is being given up: by `WhereaboutsInv` the device that `resolveResult`
looks up by id is then the one the call was sent to.

`RunsOnce` and `HandOverIsFinal` are proved of `CommandService`, whose state is small
enough for an invariant of a few lines (`SInv`: a command runs only where its
call was addressed, a session that was replaced owns nothing), and carried over
to `Relay` by `Refinement`.

**Release cache.** `RInv` says at each point of the polling goroutine what is
known: there is a job exactly while `downloadAndPublish` runs (`WorkInv`), it
has been validated and its APK is in place from some point on (`JobInv`), a file
this job created is referred to by nobody else until the pointer is swapped
(`CreatedInv`, why an undo is safe even though a recovery may run in the middle
of the swap), and `SwapInv` and `StartInv` tie pointer and backup to the
stage. From it follow `TypeCorrect`, `Resolving`, `RequestsServed`,
`ServedIsTrue`, `AlwaysRecoverable` and `Climbing`, and `MisbuiltIsHarmless`: a job
whose APK is not what its tag says, or is older than the one served, never
gets to a point where anything but temporary files is written, and the failure
it ends in undoes nothing. `AtomicPointer` proves the refinement whatever fails:
while a release is served and a backup is left, the pair on disk is usable
(`PairInv`), so that a recovery inside a swap falls back only if a read failed, and
a failed read is what puts the pointer in doubt. `RestartShowsNoOlder` is an
invariant of `AtomicCache` (`Covered`) carried over by that refinement, for runs in
which no read fails (`TrustInv`: only a pair that is not usable is dropped): what
requests are given, a restart would show again or have something newer.

`ReplacementsClimb`, the promise of docs/RELEASES.md:31-33 for a cached release
that is complete, true to its tag and in the channel asked for (`Usable`), does not
hold (`release_older`). `StopsLoseNothing` says when it does: as long as no read, removal
or rename fails, and then whatever else fails or is withdrawn, however often the
process stops, and with prereleases toggled. Its invariant `KeptInv` is that a start
leaves no backup behind and that, except in the middle of a publication, what is
served is what is on disk. None of the three conditions can be left out: TLC
finds a counterexample with each of the faults alone.

**Agent connection.** A retry may be posted after `stop()` emptied the queue, so
that no socket is opened rests on one check in `connectRelay` and on `stop()`
running on the looper that has passed it. `DialsForLive` says that between this
check and the dial the manager is not stopped; with the types it is inductive,
and from it `StoppedNeverDials` follows for any number of managers and sockets,
with threads that overlap or not.

`RetriesPaidFor` needs an invariant that counts (`LossInv`): a socket whose
listener has yet to post its reconnect has been ended by a mishap, one of its
own, because nothing else ends a current socket of a running manager; so
`ReconnectsPaid` bounds reconnects waiting and to come by the mishaps so far.
`StatusShownIsTrue` is for `Preempted = FALSE`: one callback or runnable at a time,
`ws` is the socket of the current epoch except while the looper replaces it
(`EpochInv`), and what each event shows agrees with it (`ShownInv`). From the same
invariant the callback that is still to come is not taken for stale.

`StraysPaidFor` counts further (`StrayInv`): a socket that nothing in the agent
closes any more is a debt like a loss that has yet to post its reconnect. The
loss became the reconnect, and the reconnect connected while another socket was
in `ws`; a heartbeat alone never does, since it finds `DISCONNECTED`, where that
socket has ended, or `IDLE`, shown by a reconnect that found the agent
unconfigured, where the socket is counted before it is replaced. With threads
that overlap this is false: the heartbeat reads the state twice.

**HTTP front.** `ConsentBehindEveryCall` is not inductive: a token says nothing of
its origin, and an access token does not even name its client. `Grounded` does: every
token rests on a refresh token, every refresh token on a code of the same client
and key, every code on a registration, and `TokensShown` says that what is in
use was signed. `SingleUse` follows from `CodesRemembered`: a code that was
looked up is in `usedCodes` or has expired, since a sweep forgets exactly what
`verify` refuses. `LimiterImplementsWindows` is proved for
every limit, window and threshold, limits of zero and below included, where the
first attempt still gets through.

**Command execution.** `Framed` says how many bytes of a packet are unread at each
point of `readResult`, `Accounted` that every byte announced is kept, in the
packet being read or owned up to by a flag, `Tidy` ties stream and killer to the
coroutine. They give `FramingHolds` (of `OnlyHugeLengthsUnframe`), `ResultsAreHonest`, `EndsAreClean` and
`AnsweredOnce` for any number of commands and threads and any caps.
`ReadsHaveKillers` is what a timeout rests on: while the service runs, a command
that reads has a killer that has yet to close its stream. That the killer gets
a thread is another matter (`shell_starved`).

Every safety property of the passing runs is a theorem. Some results are
theorems only, and no configuration lists them: the type invariants (`relay_fleet`
checks one as part of `IInv`); `HandOverIsFinal` and `RestartShowsNoOlder`, which
the refinements that the runs check imply; `EachTeardownOnce` and `AnsweredOnce`,
which take a proof of a few steps. `StopsLoseNothing` is about the property
that `release_older` finds violated once renames fail. Only model-checked: the
liveness properties (`ReplacedIsReleased`, `TornDownCallReturns`, `BoundedExec`,
`BoundedStale`, `Converges`, `Reconnects`, `EveryExecEnds`; TLAPS has no support for
fairness here). What is proved towards them is that nobody waits for something
that was never begun: `NobodyStranded`, `NobodyWaitsInVain`, `DetachedAreClosed`,
`ReadsHaveKillers`, and `StatusShownIsTrue`.

## Findings

- `relay_stuck`: `Exec` can block in `WriteJSON`, or behind another writer, past
  its timeout and its context (registry.go:203-205 says otherwise). The ping
  goroutine, which is to detect the half-open socket (ws.go:205-206), then waits
  for `writeMu` as well: `StaleIsDropped` also fails without `AllWrites`.
- `release_older`: a replacement must have a greater tag and a greater versionCode
  (docs/RELEASES.md:31-33), but the code compares with the release in memory
  (source.go:331, 453). After a start that could not restore the cached pair
  (source.go:609-612) or read it there is none; the next poll's swap
  restores the backup itself (source.go:542-553) and replaces it at once, by a
  release of a lower versionCode in this run, and by one of a lower tag if the
  cached one is no longer listed. A failed read does the same more directly:
  source.go:597 takes every error for an incomplete pair and drops a valid newer
  one for its backup, against source.go:583-584 (`AtomicCache!Mistrust`; no run of
  its own).
- `agent_stuck`: a dial that fails before `ws` is assigned leaves the agent
  CONNECTING until the network changes (docs/DESIGN.md:92).
- `shell_starved`: the killer of a command needs a thread of the dispatcher that
  blocked reads use up (AdbShellClient.kt:102, against :88-91). With as many
  silent commands as threads no timeout is enforced and no other command starts.
- `shell_garbled`: a length of 2^31 or more becomes a negative Int
  (ShellV2Protocol.kt:75-93): its payload is neither read nor drained, nothing is
  marked as truncated, and the next header is read from the payload. The comments
  at ShellV2Protocol.kt:19-24 and :56-59 promise draining and the flag "regardless
  of the wire length", and ShellV2ProtocolTest.kt:87-90 "even when the payload is
  astronomically large". `HonestResult` excepts such a stream for the same reason.
- No run, since it is one expression: main_test.go:497-500 says that a timeoutMs
  over the maximum is silently capped. One that overflows the multiplication at
  main.go:184 may come out negative, so that `Exec` gives up at once, or as any
  duration below the maximum. `OverflowIsNotCapped` in `MCFront` evaluates it.

Behaviours that the models have and that no document rules out: requests that
run when the relay is stopped lose their answers at once (main.go:55); a restart
forgets the codes that were used (oauth.go:396); the service's stop ends sleeping
killers but not the commands they guard (ConnectionManager.kt:89).

A retry may dial while the socket the heartbeat opened is still connecting, and
two sockets of one agent are live for a while (ConnectionManager.kt:170), which
the epoch is not there to prevent: ConnectionManager.kt:56-61 is about a stale
callback that schedules a second reconnect. It takes a lost connection for each
(`StraysPaidFor`), the relay drops one of the two, and `Reconnects` holds all the same.

Two more behaviours of the agent that the model has and the properties allow for:
forceReconnect can overtake a callback that has passed `stale()`, whose check and
consequences are two steps (EpochGate.kt:6-9 promises that dying sockets are
ignored); and `stop()` leaves the epoch of its socket current, so that the socket
of a stopped manager still writes to the global state that its successor
shows. `StatusIsTrue` therefore speaks of settled threads and of the time before a
service stops.

## Plan

Done: the relay core, the release cache, the agent's connection, the HTTP front
with OAuth and the limiters, the execution of commands on the agent. Left, in
the order of importance:

1. `System`: `Relay` composed with `AgentConnection` and `ShellExec`, the environment
   of each replaced by the others. Properties: a command the relay sent runs at
   most once on the device (`CommandsRunOnce` is the relay's half, `OneReply` the
   agent's), and a connected agent is reachable in the end.
2. `ensureShellConnected`, and the relay's choice between two live sockets of
   one agent.

## Not modelled

Parsing and formatting (JSON, the APK manifest, HTML, HTTP headers), the setup
tool, the CLI, the web site, the Android views, and `before/` keep no state that
several actors share, or drive external programs step by step. The APK parser is a function of the file,
whose result `ReleaseCache` takes as a constant of the APK. `Registry.remove`
is called by tests only. `List` only reads. The LocalAPK override bypasses the
cache. Paging of the GitHub list is taken as one fetch that succeeds or fails.
Pairing with adbd and its key files are sequential calls into a library. Of the
relay process the settings other than the timeouts, and the health and metadata
pages, decide nothing that a property is about.
