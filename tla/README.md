# minisshd in TLA+

A formal model of minisshd, a single-user SSH server in Go: what its concurrent
parts do, what its pure functions compute, which properties they have, and where
code and documents differ. TLC checks small instances, TLAPS proves the main
safety properties for every instance.

## The system

| Part | Source | State | Operations |
|---|---|---|---|
| Rate limiter | `internal/ratelimit` | a map from IP to an entry (fail count, time of last failure), a RWMutex for the map, a mutex per entry | `Acquire`, its `release`, `Snapshot`, lazy expiry |
| Authentication callbacks | `internal/server/auth.go` | locals only | Acquire, sleep, check, release, Snapshot, log |
| Port forwarding | `internal/server/forward.go` | slot counter per connection, channel, socket, two copy goroutines | open, dial, accept, copy, close |
| Server | `internal/server/server.go` | listener, contexts, two wait groups, drain timer | accept, handshake, dispatch, shutdown |
| Session | `internal/session` | PTY, child and its process group, output copies, request stream | pty-req, window-change, shell/exec/sftp, hangup, kill, drain, exit |
| Authorized keys | `internal/auth/pubkey.go` | the current key set, the file | `Load`, `Reload` on SIGHUP |
| Startup | `cmd/minisshd/main.go` | how far `run` has got, what it has printed | the checks in order, exit codes, signals |
| Host key | `internal/hostkey` | key file, `.pub`, modes | `LoadOrGenerate` |
| Configuration, credentials, logging, parsers | `internal/auth/{resolve,credentials,generate}.go`, `internal/logging`, `internal/session/helpers.go` | none, or one mutex | pure functions |

How they interact: `main` runs the startup sequence and calls `Serve`. `Serve`
starts one `handleConn` per connection. During the handshake the SSH library
calls the authentication callbacks, which meet in the rate limiter and look at
the keys in force. After it, `handleConn` starts one goroutine per session or
forwarded channel. A signal
cancels a context from which those of all connections and sessions derive.

What is hard here: two levels of locks in the limiter; a map entry that is
removed while others wait on it; a `select` with several ready cases; timers of
equal length in different goroutines; descendants that outlive a child; wait
groups that grow while they are waited for; files written in several system
calls with crashes in between; signals that coalesce or arrive too early.
`PROJECT.json` lists these hazards with their lines.

## The modules

| Module | Models | Actors |
|---|---|---|
| `RateLimiter` | limiter and callbacks, one action per critical section | one callback per connection, time |
| `AttemptGate` | what the limiter promises: one attempt per IP at a time, every failure counted | |
| `Forward` | `handleDirectTCPIP` and `forwardCounter` | handlers, two copies each, client, destination |
| `Session` | `Service.Handle` and everything it calls | runner, request loop, copier, waiter, processes, client |
| `SessionPhases`, `Handle` | the contract of `Handle` (`sessionHandler` in config.go): what the server sees of a session, and that as a specification of its own | |
| `Server` | `Serve` and `handleConn`, composed with sessions (by their contract) and forwards (dial, then copy) | accept loop, watcher, waiter, connections, channels, time |
| `Keyset`, `Startup` | `KeysetSource`; `run` with the SIGHUP goroutine (`Startup` extends `Keyset`) | `run`, the reload goroutine, operator |
| `Login` | the authentication of a connection beside the reloading of keys (extends `Startup`): credentials, the callbacks, and the cache of the SSH library, which is external | a client, and the actors of `Startup` |
| `HostKey` | `LoadOrGenerate`, one action per system call | processes that crash and restart, operator |
| `Backoff` | `computeDelay` and `nextDelay` in 64-bit arithmetic (four 16-bit limbs, because TLC's integers have 32 bits) | |
| `Wire` | the payload parsers and encoders on bytes, signal names, `sendExit` | |
| `Child` | what a session hands to its child: environment and argument vector | |
| `Settings` | the resolvers of flags, environment and defaults | |
| `Logging` | the events, both encodings of a line, and the password scrub | |
| `MCRateLimiter`, `MCHostKey` | constants for TLC | |
| `Payloads` | the client's side of the wire: how the payloads are written, and how an exit request is read | |
| `PureFunctions` | a call of any pure function, its inputs, and reference definitions for what it returns | |
| `MCFunctions` | the sets of inputs for TLC | |
| `*Proofs` | theorems about the module they extend; `OperatorProofs` is about `Wire`, `Payloads` and `Child`, `FunctionProofs` about `PureFunctions`, `StartupProofs` about `Startup`, `Keyset` and `Login` | |

How they fit together: `Session` implements `Handle` (property `KeepsContract`,
with the mapping `HandleState`), and `Server` takes exactly the steps of
`SessionPhases` for its sessions. So what `Server` shows about wait groups and
children rests on what `Session` was shown to do. A reload in `Login` is the
step of `Startup` and `Keyset`.

Definitions have the names of the code where there is one. A `pc` value is the
place a goroutine has reached: a step of the model ends where the code takes or
gives up a lock, blocks, or makes a system call whose effect others see.
Definitions marked `Mutant` are plausible mistakes in the definition below
them; they show that the properties can fail.

## The runs

| Run | Instance | What it shows |
|---|---|---|
| `limiter_safety` | 4 connections of one host, one failure and any number of accepted probes each | mutex discipline, the backoff is served, nobody removes another's entry, two attempts of one IP overlap only after a success |
| `limiter_failing` | 4 connections of one host, one failing attempt each | the limiter implements `AttemptGate`; counts are kept until expiry; the logged count includes the own failure; callbacks return |
| `functions` | every input of the sets in `MCFunctions`; counts to 200, `--auth` values of 4 lexemes, logged values and passwords of 2 symbols | the announced delay is the imposed one and follows the table except where the product wraps to zero; parsers accept exactly whole payloads and give back their fields; environment and arguments of a child; settings; an event is one line that reads back as its fields and does not hold the password |
| `forward` | 2 channels, cap 1, 2 units of data each way | slots, cap, sockets, delivery; slots come back, and a dial that hangs gives its slot up |
| `session` | one channel, 2 units of output, one descendant, either process may change its user | exits, output order, escalation, PTY descriptors, the contract of `Handle`; sessions end |
| `server` | 2 connections, a channel of any kind on either, both timers 2 | wait groups, clean return, a lost connection hangs up its own children only; Serve returns; what a lost connection leaves behind ends |
| `startup` | 2 keys, 2 edits of the file, one client | keys in force, exits after the banner, who gets in, rotation |
| `hostkey` | 1 process, 3 keys, crashes and deletions | file, `.pub` and served key agree; no regeneration |
| `limiter_lock_order` | 2 connections of two hosts | **violated**: callbacks deadlock |
| `backoff_wrap` | counts 0 to 200 | **violated**: delay 0 from 56 to 63 failures |
| `session_pipe_drain` | one channel | **violated**: no cap on the drain without a PTY |
| `server_exit_before_kill` | 1 connection | **violated**: Serve returns before SIGKILL |

Run one with `tlc -config <run>.cfg <module>`; `PROJECT.json` names the module.

### Bounds

- Limiter: three connections are the least of which one removes an entry, one
  waits on it and one gets a new entry; the fourth adds a second waiter. The third
  failure would give a delay of 4, so with `MaxDelay` 2 the clamp is at work.
  `IdleExpiry` 2 lets an entry go stale between attempts. Entries are reused once
  nothing refers to them; three can be live at once. `limiter_safety` was also
  checked with four (2,165,637 states, 4 minutes). Entries, and connections with the
  same address, are symmetric.
- `Prompt = TRUE` (`limiter_safety`, `limiter_failing`): no second passes while
  a goroutine could run. Expiry takes 10 minutes in the code and a step takes
  microseconds. It matters: without it TLC finds that `ExclusiveUntilSuccess`
  fails, because Acquire does not look again at the age of an entry it loads
  after an expiry, and that an entry may expire between a release and the
  Snapshot after it. The theorems state it as a hypothesis where they need it.
- Forward: one slot and two channels make the cap bite; two units of data let a
  copy be between two of them when its peer ends.
- Session: one descendant, in the group or (`Escapes`) outside it, is enough to
  keep a pipe or PTY open. With `Elevates` a process may exec a setuid program,
  after which the server may not signal it. A timer may expire at any moment.
- Server: equal timers, as in the code (5 s each); only their order matters.
  The same configuration was also checked with two connections and two channels
  (timers 1: 809,800 states, 4 minutes with liveness), one connection and two
  channels, and three connections and one channel (305,169 states).
- Startup: one client that connects once; offering both keys as right or wrong
  user makes the library's cache change hands. Two edits remove a key and bring
  it back.
- Functions: the calls are independent, so each is one step. Payloads are every
  whole payload over a few strings and numbers, with and without a byte after
  it, cut at every length, or with one byte replaced. Requests of a session are
  sequences in which names repeat. Log lines run over every event and over the
  symbols that the two encodings treat differently; `LineFaithful` was also
  checked for one event with values and passwords of 3 symbols.
- Deadlock is not checked where the system stops by design (the server has
  returned, the session is done, the call has returned, the client is in), nor in `limiter_safety`
  and `limiter_lock_order`, where the limiter's own deadlock is the known
  result of `limiter_lock_order`.

### Fairness

Weak fairness of goroutines that can run, and of timers: the Go scheduler
runs every runnable goroutine. A mutex is handed on; attempts are bounded, so
nobody is overtaken for ever; `CallbackReturns`, the one property that needs this,
is checked where no attempt succeeds. In `Session` a process that SIGKILL has
reached dies, which one that has changed its user need not, and a client reads its
output and answers the closing of its channel; a malformed SFTP packet may end the
SFTP server, and need not. `Server` assumes the same of its sessions, and that a
dial ends, by its timeout if not before. It leaves out the descendant of
`session_pipe_drain` that keeps a session for ever. The accept
loop has to end only once the listener is closed. In `Login` only the reload
goroutine is fair; no client has to do anything. No
process has to end by itself, no client has to leave and no destination has to
answer. In `Forward` no dial has to succeed or to be refused: it ends because time
passes and its context has a deadline (`DeadlinePasses`, `DialAborted`); peers read
what they are sent.

## Findings

The four violated runs, with the quotations, are in `PROJECT.json`:

1. `release(true)` holds an entry mutex and wants the map mutex; `Snapshot`
   holds the map mutex and wants every entry mutex. A success beside a failure
   can stop all authentication.
2. `(1 << exp) * time.Second` is 0 modulo 2^64 for 56 to 63 failures.
3. Without a PTY `cmd.Wait` waits for the output copies without a bound.
4. `Serve`'s drain timer starts before the sessions' grace timers and is as
   long, so the process can end before SIGKILL is sent.

### Other claims the models refute

These are defined in the modules but have no run of their own. To see a
counterexample, put the property into the configuration named here.

| Property | Configuration | Claim | What the code does |
|---|---|---|---|
| `MutualExclusionPerIP` | `limiter_safety` | ratelimit.go:73-75, a critical section per IP | after a success a waiter on the removed entry overlaps with a newcomer |
| `LoggedAttemptIsOwn` | `limiter_failing` | SPEC.md:510, `fail_count` after this failure | Snapshot runs after the release and may see later failures |
| `SlotFreedWhenClientCloses` | `forward` | SPEC.md:276, until either side closes; SPEC.md:308 | the copy from the destination stays in Read |
| `ReasonTruthful` | `session` | SPEC.md:513, `shutdown` or `channel-close` | after a disconnect both cases of the select are ready |
| `GroupGoneOrKilled` | `session` | service.go:557, an error of `kill(-pgid, 0)` means that the entire group has gone | EPERM, after a process has changed its user, is taken for ESRCH, and no SIGKILL is sent |
| `ConnCloseAfterSessions` | `server` | server.go:193-195, returns when every session has joined | nothing in `handleConn` waits for them |
| `ReturnsOnlyOnSignal` | `server` | server.go:100, until ctx is cancelled | any error of Accept ends the loop, with exit code 0 |
| `BannerMeansServing` | `startup` | SPEC.md:76, the banner only when the server is guaranteed to start | the keys file is loaded after the banner and may be unreadable |
| `SighupHarmless` | `startup` | SPEC.md:198, otherwise a no-op | without publickey SIGHUP has its default action |
| `NeverRegenerated` | `hostkey`, with two processes and `MayDelete = FALSE` | SPEC.md:261, never regenerated automatically | two first starts both find no file and both write one |

The pure functions differ from the documents in these places. The properties of
the runs leave the first five out; each has a property of its own, to be checked in
`functions`:

| Property | Claim | What the code does |
|---|---|---|
| `TermIffPty` | SPEC.md:383, TERM if and only if a PTY was allocated | an empty TERM in the pty-req leaves the child without one |
| `GivenDecides` | SPEC.md:62 and resolve.go:100-102, `--authorized-keys` if set, else the variable | set to the empty string counts as not set, for both |
| `GivenDecides` | SPEC.md:66, `--user` if set, else the variable | set to the empty string counts as not set, for both |
| `GivenDecides` | SPEC.md:67, any value but `logfmt` and `json` is rejected | an empty `MINISSHD_LOG_FORMAT` counts as not set |
| `OneEventPerLine` | SPEC.md:417, one event per line | a newline in a logfmt value is written as it is, inside the quotes |
| | SPEC.md:458-475, when a scrubbed JSON line stays well-formed | the scrub also replaces digits of bare numbers |
| | SPEC.md:458, the password never appears | the scrub knows the raw and the JSON-escaped form; a quoted logfmt value escapes quotes and backslashes only, which is a third form if the password also has symbols that JSON escapes |

## The proofs

Every theorem holds for all values of the constants that meet the `ASSUME` of
its module. The argument is the same throughout: an inductive invariant `Inv`
with `Init => Inv` and `Inv /\ [Next]_vars => Inv'`, one proof step per action.

- `RateLimiterProofs`: `TypeOK`, `LockDiscipline`, `BackoffServed`,
  `OnlyOwnEntryRemoved` without further hypotheses. `BackoffServed` is not
  inductive: `BackoffPending` says that for a sleeper the time since the last
  failure and the time it has left add up to the delay, and `LockDiscipline`
  that nobody else changes the count meanwhile.
  The properties of the map need more, because Acquire does not examine the
  entry it reloads after an expiry. `Timely` says that this entry is not stale
  as well. In timely behaviours (`[]Timely` is a hypothesis) `Orderly` is
  inductive; its part `Abandoned` says that until a success an entry that is
  out of the map is stale, that nobody is inside with it, and that whoever still
  waits for it has yet to examine it. From it follow `ExclusiveUntilSuccess`
  and, while no check succeeds, `FailuresKept`, the refinement of `AttemptGate`
  and `LoggedAttemptIncludesOwn`, for any number of clients, connections,
  attempts and expiries. `PromptIsTimely` discharges the hypothesis for one
  client with any number of connections: if nobody can run while a second
  passes, every Acquire past its expiry waits for somebody inside with the same
  entry. For several clients `Prompt` alone does not give `Timely` in the model:
  an Acquire about to create an entry may wait for a Snapshot that waits for
  another client's entry, for as long as that entry changes hands without the
  Snapshot getting it. Go's mutex hands over to a waiter after 1 ms, and expiry
  takes 10 minutes, but no step of the model says so.
- `ForwardProofs`: the counter is the number of slot holders (`SlotsAccounted`,
  by cardinality), hence both caps; nothing leaks; `Answered`, for the
  delivery of answers, ties what is lost to a client that has gone.
- `SessionProofs`: one small invariant per property. The master is cleared
  before it is closed (`MasterInv`); a reported exit comes after Wait and
  without a signal (`ChildInv`); the drain ends with nothing left to send
  (`OutputInv`); grace ends with SIGKILL or with nobody left in the group whom the
  server may signal (`GroupInv`). From
  these `KeepsContractHolds` shows, action by action, that every step of a
  session maps to a step of `Handle` or to a stutter.
- `ServerProofs`: `Counted` says that each wait group counts its goroutines
  (sessions and forwards in one), `Phases` that the order of accept loop, waiter
  and drain is kept, `Isolation` that a session belongs to a connection that got
  through its handshake and whose end takes the session's client away. From it
  follows `HangupIsolated`.
- `StartupProofs`: `Ordered` says what each step of `run` implies of the steps
  before it. For `LoginJustified`, what the cache accepts was in force when the
  callback ran, so it is in `seen`, which collects the keys in force since the
  connection began.
- `OperatorProofs`: payloads of any length and the whole range of uint32, which
  TLC's integers do not reach. What a reader accepts lies inside the payload and
  what was written is read back; and each of the six parsers reads its fields
  exactly when the payload begins with their encoding (`AllExact`). There is one
  lemma per reader and direction; the parsers are chains of these. In the code
  the length is compared as a uint32; payloads are shorter than 2^32 bytes, as
  every SSH packet is, so the conversion loses nothing.
  The child's environment, from any sequence of requests and any host
  environment (`EnvBuilt`). `Received` and `picked` are loops, modelled as
  recursive functions on 0 .. n; `LoopExists` shows that such a function exists
  and `UpTo`, from the well-foundedness of the natural numbers, goes along it.
  The invariants are `PtyInv` (the PTY is that of the first request that got
  one), `EnvInv` (a variable has the last value asked for) and `HostInv` (the
  value of the last line that has its name before the first `=`).
- `FunctionProofs`: `Answered` says that what a call has returned is its
  function of the arguments. From it and `AllExact` follows `WireExact`, for
  payloads cut at any place or with any byte changed; from the limbs of the
  shifted second, `DelayAnnounced` for every count of failures (`DelayExact`,
  and `DelayWraps` for the eight counts where the product is zero); from
  `EnvBuilt`, `ChildPrepared`; and the part of `SettingsResolved` about the
  looked-up settings and the forward cap (`SettingsLookedUp`), for any words and
  numbers.
- `HostKeyProofs`: for one process (`Alone`); `Placed` says what the files hold
  at each system call. With two processes `NeverRegenerated` is false.

Only model-checked: every liveness property (TLAPS does not handle fairness
here); `LineFaithful` and the list of methods in `SettingsResolved`. These are
about several loops over symbols or tokens, each on the result of the one before
(split, trim, quote, scrub, read back). Every loop takes an induction of its own,
as for the child, because the provers do not instantiate a theorem about all
loops with the body of one.

## Abstractions

- Limiter: time is kept as ages and remaining delays. A waiting writer does not
  hold up new readers as Go's RWMutex does, so the model has more
  interleavings. Delays are unbounded integers here and exact in `Backoff`.
  Whether credentials are right is an arbitrary outcome. After a success the
  connection is in, or, when a key was only probed, goes on; a signature for it,
  which the library checks without a callback, is not a step of its own here.
- Forward: here payload parsing is an arbitrary accept or reject (`Wire` has the
  parser); no byte counts.
- Session: output is counted in units; the child's standard input is left out,
  and its environment and arguments are those of `Child`. Descriptors that only
  the garbage collector closes stay open in the model. Reuse of process ids is not
  modelled.
- Server: a session's descriptors and output are below the contract, and a
  forward is its dial and its copies; `Session` and `Forward` have the rest.
- Login: digests are the outcome of a comparison. The waiting in the limiter is
  a callback that runs at any later time.
- Wire: bytes are numbers; TLC's payloads keep length prefixes below 2^31. A
  signal's name is one byte, its number.
- Settings and Logging: texts are sequences of symbols, one for each class of
  characters the code tells apart: in `Logging` what both formats escape, what
  JSON escapes by its code, what logfmt quotes, and a byte that is not UTF-8, for
  which JSON has the replacement character. `[REDACTED]` is one symbol, so passwords that
  share characters with it are left out; so is the timestamp's text. A line is
  written in one step, as under the mutex.
- Keys file: read in one step; a file is its set of keys, absent or broken.
- Host key: a file that is being written and is deleted meanwhile is followed
  for one process only; the mode of `.pub` is left out.

## Not modelled

- The random draw of `GeneratePassword`: that it may fail is a step of
  `Startup`; a property of its output would be about probabilities.
- Timing of the constant-time comparisons: a model of steps has no durations of
  computations.
- The copy from the channel to the child's standard input, and what pkg/sftp
  does with files: neither changes state that the session looks at.
- `FakeClock`, the logger's test seams and the end-to-end tests.
- Two servers on one machine, except for two first starts of `HostKey`.
