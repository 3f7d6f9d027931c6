# A specification of ruzor and ruzord

ruzor is a Rust implementation of the Pyzor protocol: `ruzord` keeps, for each
digest of a mail, how often it was reported as spam and how often it was
whitelisted; `ruzor` reports, whitelists and asks, over UDP. This directory holds
TLA+ modules of the server, its processes, its engines, the client and the files both
read, the TLC configurations that check them, and proofs checked by TLAPS.
Sources are named relative to the repository, lines as `file:line`.

## The system

| part | state it keeps | operations | with whom |
|---|---|---|---|
| receive loop (`src/server.rs` 273-389) | the socket, two flags `shutdown` and `reload` | receive, reload, dispatch to a worker or answer inline, leave | reads the flags the monitor sets; takes permits; writes the auth lock |
| request handler (`server.rs` 467-731) | nothing of its own | `ping pong check info report whitelist` after signature, version and ACL | reads the auth lock for its whole life, locks the database mutex, asks proxy sources, fills the forwarder's channel |
| thread limiter (`server.rs` 224-271) | `active`, a condition variable | `acquire`, `drop` of a permit | blocks the receive loop |
| auth state (`server.rs` 129-138, `config.rs` 19-147) | accounts and ACL behind an `RwLock` | load from two files, swap | files edited by the operator, SIGUSR1 |
| engines (`engines.rs`, `gdbm_engine.rs`, `redis_engine.rs`, `mysql_*.rs`) | a `Record` for each digest | `get set report whitelist`, cleanup, expiry | a file, Redis or MySQL, which other processes use too |
| proxy sources (`server.rs` 639-711) | none | on a check that misses, ask upstream, cache a positive answer | upstream servers through the client |
| forwarder (`forwarder.rs`, `client.rs` 162-248) | a bounded channel, a map of batches for each remote server and operation | queue, batch, send, drain and force at the stop | remote servers, never answered |
| ruzord process (`bin/ruzord.rs` 397-431) | two flags set by handlers, a monitor thread | SIGTERM, SIGUSR1, the shutdown sequence | all of the above |
| pre-fork mode (`bin/ruzord.rs` 461-568) | the pids of the workers | fork, pass signals on, reap, wait | several inline servers on one socket |
| process mode (`bin/ruzord/process_mode.rs`) | pids, an auth snapshot | one child for a request, a bounded number of slots | MySQL |
| start-up (`bin/ruzord.rs` 171-345, 605-1023, `config.rs`) | settings and who set them, the pid file | options, configuration file, checks, paths, daemon | the home directory |
| ruzor command (`bin/ruzor.rs`, `client.rs` 1-160) | the local whitelist file | a signed request and an answer for each digest and server, the exit code | servers over UDP, other runs on the host |
| messages and signatures (`message.rs`, `account.rs`) | none | parse, write, sign, verify | both ends of the wire |
| mails (`digest.rs`) | none | parts, lines, predigest, mbox | the command's input |

What is hard: workers, loop, monitor, forwarder and main thread share two locks,
four flags and a channel, and meet at a shutdown; a check leaves and re-enters the
database section; engines fail, half fail and panic under a lock, and other
processes use the same tables; signals come twice, early and between a test and its
effect; fork copies flags; datagrams are lost, late and repeated; two runs of the
client write one file. The hazards are listed one by one, with their lines, in
`PROJECT.json`.

What makes each part correct:

- **database section**: every acknowledged update is counted once for each digest
  and stays counted; an answer shows one moment of the record; a panic stops all
  writing.
- **engines**: the commands of several sessions add up to atomic increments; what is
  half written was left by a failure; cleanup takes what is old and nothing else; what
  was answered ok outlives the process.
- **authorization**: one auth state both accepts the signature and grants the
  operation; a reload is neither lost nor starved; the last line about a user decides.
- **limiter**: the count is the number of threads; no permit leaks.
- **forwarder**: what the channel accepts goes to each server once for each line that
  names it, in order, in full batches until the stop, and all of it by the end of `stop`.
- **process**: signals are not lost; the joins end; what was answered 200 was forwarded.
- **pre-fork**: no worker outlives the parent, reloads reach all workers.
- **process mode**: never more children than slots, none unfinished at the end.
- **start-up**: the command line wins over the file, whatever the order of its keys;
  the pid file is there while the server is; a path that was resolved means the same
  after `chdir`.
- **client**: exit code 0 tells the truth; a signed request counts if it is verified
  within its window only; an edit of the local whitelist is kept unless another one overlapped it.
- **conversions**: a record, a time, a signed request are read as they were written; a
  mail has the predigest of its text in whatever form it comes.

## Modules

| module | models |
|---|---|
| `Records` | `Record`, its increments and their saturation, the record built from an upstream answer |
| `Server` | the receive loop, the limiter, the auth lock, the handler, the mutex, the engine with its faults, the proxy, the channel's entrance |
| `ServerProperties` | what the server promises: type, safety, action and liveness properties |
| `Ledger` | abstract: requests act on records by atomic increments, look-ups and fills |
| `ServerLedger` | the refinement mapping from `Server` to `Ledger` |
| `Engines` | Redis (both formats) and MySQL as commands of several sessions |
| `Tally` | abstract: two counters for each digest, atomic increments, entries that are forgotten |
| `FileEngines` | gdbm and `FileDatabase`: open, clean up, update, end or be killed |
| `Forwarder` | `forward_loop`, `forward_one`, `BatchClient`, `stop` |
| `ForwarderChannel` | `Forwarder` between threads that queue at any moment |
| `Ruzord` | `Server` and `Forwarder` sharing the channel, signal handlers, monitor, the end of `run` |
| `Prefork` | the parent and the workers of the pre-fork mode |
| `ProcessMode` | the parent and the children of the process mode |
| `Startup` | options, configuration file, checks, paths, daemon and pid file of both programs |
| `Clients` | runs of `ruzor` on one host, the network, servers that count |
| `Configuration` | what the lines of each file mean, data source names, paths |
| `CivilTimes` | days and seconds as civil, UTC and local times, and back |
| `Texts`, `Codecs` | a record in the text of each engine |
| `Replies` | the protocol of Redis and the statements of MySQL that carry it |
| `Wire` | headers, the text of a packet, signatures and their window, legacy line ends |
| `Conversions` | a state machine that stores and reads records, reads files, and takes a request from the client to the server and its answer back, on a wire that damages lines |
| `MailLines` | the mails of an mbox, the parts of a body, quoted-printable, the lines and words that count and which of them are digested |
| `Mails` | the headers of a mail, parts within parts, HTML, the predigest of a mail |
| `Sifting` | `Vec::retain`, the members of a sequence that pass a test, in their order |
| `SequenceFacts` | lemmas about sequences and `Sift`, and induction over the natural numbers in a form the provers take |
| `RuzordProofs` | theorems about `Server`, that it implements `Ledger`, and about `Ruzord`, that it implements `Server` |
| `ProcessProofs` | theorems about `Prefork` and `ProcessMode` |
| `ClientsProofs`, `EnginesProofs`, `ForwarderProofs` | theorems about `Clients`, `Engines` and `FileEngines`, `ForwarderChannel` |
| `ConversionsProofs` | theorems about `Startup`, `Configuration`, `CivilTimes`, `Codecs`, `Replies`, `Wire` and `Conversions` |
| `MailProofs` | theorems about `MailLines` |
| `MC...` | values of the constants for TLC |

`Ruzord` extends `Server` and takes `Forwarder` by `INSTANCE`, with the variables
`fqueue` and `fopen` in common: what `Server` leaves to an environment
(`SetShutdown`, `SetReload`, `ForwarderTakes`, `ForwarderEnds`, `Exit`) is done there
by the monitor, the forwarder thread and the main thread.

### Server and the code

A member of `Reqs` is a datagram together with the worker (or the turn of the inline
loop) that serves it. `pc[r]` follows it:

| `pc` | where | code |
|---|---|---|
| `new` | not received | |
| `accepted` | received, the loop waits for a permit | `server.rs` 327 |
| `spawned` | the thread exists, the auth lock not taken | 328-333 |
| `authenticate`, `authorize` | checks under `auth.read()` | 506-535 |
| `lock`, `read`, `write` | waiting for the mutex; at `get`; at `set` | 725, `engines.rs` 46-61 |
| `proxy`, `cachelock`, `cachewrite` | asking the source `at[r]`; second lock; `set` | 567-575 |
| `forward` | queueing the digest `at[r]` | 606-610, 623-627 |
| `reply` | the response is decided, not sent | 348-356, 377-385 |
| `done` | sent, or its send failed; guard and permit dropped | |

The loop's own place is `mpc`: `top` (the `while`), `passwd`, `access`, `swap` (a
reload), `recv`, `acquire`, `inline`, `exited` (returned) and `gone` (the process has
ended). Steps are as fine as the code's shared accesses: a flag, a lock, a file, one
engine call, one `try_send`.

Faults are a constant set: `socket` (`recv_from` or `try_clone` fails), `send`,
`error` (the engine returns an error, having done nothing), `ambiguous` (an error after
the write took effect) and `panic` (inside the engine, with the mutex held).
Histories, which no action reads: `wanted`, `judged`, and in the other modules
`asked`, `early`, `accepted`, `trail`, `acked`, `cached`, `before`, `torn`, `counted`,
`credited`, `intended`, `spoiled`.

Abstractions: a packet is what the handler looks at (operation, user, the key its
signature verifies against, the kind of version, the digests). `SignatureOk` stands
for `verify_signature`; its clock and its bytes are in `Wire` and `Clients`. An
upstream answer is its headers, of which the times may be absent (`ProxyTime`). A
file's content is a function of its version; `Configuration` has the function. Lengths
of time are left out: a time-out is a step that may be taken whenever the wait could go
on. The engine is gdbm's: its `get` and `set` are single steps and `report` is the
trait's loop. `RwLock` and `Mutex` are guards: who waits is not ordered. A failed `lock`
of the limiter's own mutex does not occur, since nothing panics under it.

### Engines and FileEngines

In `Engines` a session is one operation of `DigestDatabase` on a connection. `pc[s]` is
the next command, named as the code sends it: `HINCRBY`, `HSETNX`, `HSET`, `EXPIRE`
(`redis`, four commands for a digest), `GET`, `SET` (`redis_v0`), `UPSERT`, `SELECT`
(`mysql`, one statement each). `Issue` is one command: it takes effect and is answered,
takes effect while its answer is lost, or is refused. `table` is what the database
holds, `deadline` the expiry of each key. A counter that is at the end of its range
refuses the increment, as `HINCRBY` and MySQL do. `Shared` names the engines whose
sessions may overlap because they belong to several processes; without it one mutex
admits one operation at a time (`server.rs:725`). `Reorganize` is the cleanup of a
server that starts on the same table. A `set` of mysql replaces the times of the row with
those of an upstream answer that was asked for earlier: a report counted meanwhile is then
dated too early, or not at all, and a cleanup may take the row within the age of that
report. `cached` remembers such a replacement, and `NoFreshRowLost` speaks of the reports
after it.

`Tally` is what is left when commands, times and rows are forgotten. For `redis_v0` the
mapping counts a record that a session holds between `GET` and `SET` as not forgotten:
a key that expires there comes back.

In `FileEngines` the file may hold records, entries that do not decode (`Junk`) and
bytes that are not UTF-8 (`Foreign`). gdbm stores entry by entry, and its cleanup looks
at the keys one by one; `FileDatabase` has everything in `memory` and writes all of it,
and a write that breaks off leaves any part of it (`torn`). `Leave` is the end of the
process, or its death in the middle. `counted[d]` is how often a report and how often a
whitelisting of `d` was answered ok; `AcknowledgedSurvives` compares it with the counters
that a run which starts now would read.

### Forwarder, Ruzord, Prefork, ProcessMode

`Forwarder` takes one entry at a time (`current`), goes through the remote servers
(`next`), and appends to `batches[address][whitelist]`; a batch that is full leaves
through `Attempt`, which records in `trail` whether it was sent. After `Stop` the loop
leaves only when a wait finds the channel empty, drains by `try_recv`, forces what is
left in the order of a hash map, and drops the receiver with what came late. In
`Ruzord`, `run` follows the main thread after `serve_with_control`: set the flag, join
the monitor, stop and join the forwarder, exit.

In `Prefork`, `Fork` copies the parent's two flags into the child. A worker is reduced
to what signals do to it: clear the two flags, load the files, serve, reload, end. That
a serving worker which has seen SIGTERM does end is `ProcessEnds` of `Ruzord`.
`CloneError` is the early return at `bin/ruzord.rs:469`, which leaves the workers forked
so far behind: `ppc` is then `abandoned`, and `NoOrphans` speaks of every other end.

In `ProcessMode`, `spc` follows the parent through one turn of its loop (`term`,
`reload`, `passwd`, `access`, `reap`, `recv`, `slot`, `fork`), or into `wait`, where
it waits for its children, and `ended`; `cpc[r]` follows a datagram and then the child
forked for it. `slots` is its vector `pids`, `TERM` and `RELOAD` are its two flags, and
`loaded` is its `auth`; `snapshot[r]` is `loaded` at the fork. What the handler
answers is a choice; the engine behind it is not part of the module. `MCProcesses` puts
`Prefork` and `ProcessMode` beside one another (no name is in both): its `mode` is chosen
in the initial state, as the options choose it in `run`. `MCEngines` does the same for
`Engines` and `FileEngines`, which share only `Records`.

`Interrupts`, a constant of `Ruzord` and `Prefork` (`RecvInterrupts` in `ProcessMode`),
says whether a signal may end a waiting `recv_from` with an error. On Linux it may:
`recv_from` on a socket with a read time-out fails with `EINTR` after a handler has run,
whatever `SA_RESTART` says. Which thread runs the handler is up to the system, so it
need not.

### Clients

A member of `Clients` is one run of `ruzor`: a list of commands, a user and a clock that
may differ from the servers'. Each call of a command to a server for a digest is `Send`
from a port of its own and then `Receive` of any one datagram for that port, or
`TimedOut`. `sent` and `answers` are the network: nothing leaves them, so an answer may
come late or twice, and a request is delivered up to `Copies` times, at once, late or
never. Ports and thread identifiers may be used again, as the system and the clock hand
them out (`message.rs:179`). A server is two steps: `Verify`, the signature, its window and
the default access file; and, whenever the mutex of its database is had (`server.rs:725`),
`Serve`, one increment or look-up and one answer. `served` holds the deliveries between
the two, at most `Waiting` of them. A local whitelist is read in `Begin` and written
in two steps, `Truncate` and `Fill`, as `fs::write` does it.

### Startup and the conversions

`Startup` follows `parse_args` argument by argument, then the keys of the section in any
order (a `HashMap`), the checks, the paths, `daemonize` and the end of the server. A
value is what the program can take it for: a number, a flag, a list, a path.
`PathSettings` are the settings that `expand_config_paths` resolves against the home
directory, `RawPaths` those it leaves as they are: the home of the forwarder's client and
the daemon's output file.

`Configuration`, `CivilTimes`, `Texts`, `Codecs`, `Replies`, `Wire`, `MailLines` and `Mails` are
operators; what the code does to a mail line by line is in `MailLines`, and `Mails` follows
the parts within parts, by a `RECURSIVE` operator that the provers do not take. A text is a
sequence of lines or words, a word a name or a number, and every operator does to it what
the code does to the characters: `Lower` merges spellings, a line with a missing part is passed
over, Rust's division rounds towards zero, `mktime` may take either time of an hour that
the clocks repeat, a difference of times wraps or panics at the end of its width.
`Conversions` is a state machine that picks a topic and an input, converts it once, and
has an invariant for each topic: a record that an engine stores and reads again, a day and
its date, access files, servers and accounts files, and a request that a client signs, the
wire damages and the server judges. A reply of Redis is a stream of lines and payloads, of
which `ReadResp` reads the value at its first place, a hash comes back in any of its
`Orders`, and a MySQL row is what the bound statement sets. `Damaged` is the wire: an old
client doubles newlines or ends its lines otherwise, a line is lost or repeated, noise
without a colon or two empty lines come before it. A request that lost its user is taken
for an anonymous one. `MCConversions` adds mails, which only TLC runs, and `startup`, which
runs `Startup`.

## What is checked

| run | bounds | properties |
|---|---|---|
| `ServerThreads` | 3 requests, 2 permits, 2 digests, `MaxCount` 2, errors, ambiguous ones, panics | `TypeOK PermitsCounted MutexHeldInSection ForwardedOnceWritten PoisonIsFinal RefinesLedger` |
| `ServerProgress` | 2 requests, 1 permit, 1 source, panics, a socket that fails, each file edited, reloads at will; fair | `ReloadNotLost ServedUnderOneAuth ReceivedIsAnswered ReloadTakesEffect ShutdownEnds` |
| `ForwarderQueue` | 4 entries, channel of 2, batches of 2, 3 lines that name 2 servers; fair | `DeliveredInBatches StopFlushes StopReturns` |
| `RuzordInline` | 2 requests one by one, of every operation, version and kind of user and signature, a report that names a digest twice, 2 sources, a remote server named twice, batches of 3, every fault but panic | `ForwardedAsAnswered AcknowledgedKept GracefulShutdown` |
| `RuzordSignals` | 1 report, channel of 1, a partial batch, files edited, any signals; fair | `AnsweredIsForwarded ProcessEnds Sigusr1TakesEffect` |
| `Processes` | pre-fork: 2 workers, forks and workers that fail; process mode: 2 datagrams, 1 slot; any signals, which may interrupt; fair | `NoOrphans ReloadReachesWorkers SettledTermEnds SlotsBounded ChildrenFinish LaterChildrenReloaded SigtermEndsParent` |
| `Engines` | 2 sessions, 2 digests, 3 engines, `MaxCount` 2, cleanup ages 0, 1 and 2, horizon 4, commands refused or their answers lost; 2 updates on a file of any content, ages 0 and 1 | `RefinesTally HalfWrittenOnlyByFailure NoFreshRowLost CleanupExact AcknowledgedSurvives` |
| `Clients` | 2 runs, 2 servers and one of them, 2 ports, 2 digests, a window of 0, horizon 2, one request delivered twice and the others once, one delivery at a time waiting for a database, an answer any number of times | `ExitZeroTells CountedInWindow LocalEditsKept` |
| `Conversions` | 43 000 inputs, 17 command lines with 8 files | `ConversionsExact FilesDecide RequestSurvivesWire MailsAlike ServesAsConfigured` |
| `ProxyOverwrite` | 2 requests, 1 source | `AcknowledgedKept` is violated |
| `RelativePaths` | as `Conversions` | `ConfigPathsInHome` is violated |
| `SignalInterrupts` | 1 report, nothing else fails | `OnlySigtermEnds` is violated |

Why the bounds are enough to be interesting: three requests are two that conflict and
one that comes between or after, and one more than the permits; two digests are the
least for which a report can be half applied, and one digest named twice the least for
which the loop can conflict with itself; `MaxCount` 2 lets a counter saturate within a
run; two sources let the first answer, miss or fail before the second; a channel of two
with four entries is full, drained and refilled; batches of two are empty, partial and
full, with a partial one left at the stop; one edit of each file gives four auth states,
the two torn ones included; two workers are one that has and one that has not cleared
its flags; two datagrams for one slot are one that waits for the other's child. Two
sessions are one between whose commands the other runs; a horizon of four lets a key or
a row with an age of one be written, renewed, and expire or be cleaned up, the cleanup
being one second later than the expiry, and one of two be taken too early or not. (A
horizon of three with an age of two never lets the cleanup of mysql take anything.)
In `Clients` the window of 0 with a clock that is 1 ahead gives a request that is early,
timely and late, one that is verified at the end of its window and counted after it, and a
clock that is 1 behind, whose requests must never count; two servers let the first confirm and the second not; an answer to the
first of two calls can reach the second through its port. The inputs of `Conversions`
are every combination of a few lines of each shape, times around the changes of the clocks
of one year in one zone (the theorem is about every zone, and about none),
days around each end of a calendar cycle, and every form of a mail with 1 to 12 lines,
which passes the 4 lines of a whole digest and the end of the second piece. Requests and
ports are interchangeable: runs without liveness properties use that symmetry.

Fairness: weak fairness of each thread or process, which is that the operating system
schedules it. A step that waits for a lock or a permit is helped only as far as it
stays possible; a worker takes the mutex at most as often as it has digests plus one, so
no worker is passed over for ever. Nothing is assumed of signals, datagrams, upstream
answers or edits. In `Prefork` the steps of a worker's monitor and of its loop are fair
one by one, being two threads. In `ProcessMode` a child's step is fair because each call
to the engine, an upstream server or a forwarding target returns or times out.

### Where code and documents part

- `ProxyOverwrite`. The configuration page says proxying "only affects local
  `check` misses" (`documentation/configuration.html:166`). A check reads a miss, asks
  upstream without the mutex, and writes the upstream record under a second lock
  (`server.rs:571`) without looking again: a report counted and answered 200 in between is
  gone. Inline, or without sources, it cannot happen: `RuzordInline` holds
  `AcknowledgedKept`, `ServerThreads` refines `Ledger` without a fill.
- `RelativePaths`. The README says "Paths in config files are resolved relative to
  `--homedir` unless absolute" (`README.md:226`), the configuration page that "Relative
  paths from configuration files resolve inside the homedir"
  (`documentation/configuration.html:122`). `forwardclienthomedir` is not resolved: a
  relative one is opened in the directory ruzord was started in (`bin/ruzord.rs:382`), and
  by a daemon in `/` (`:183`). `OnlyRawPathsMove`, a part of `ServesAsConfigured`, says that
  this path and the output file are the only ones a daemon takes elsewhere.
- `SignalInterrupts`. `SIGUSR1` reloads the files, the README says (`README.md:217`). A
  signal that arrives in `recv_from` makes it fail with `EINTR`, which is neither
  `WouldBlock` nor `TimedOut`: the loop returns the error (`server.rs:316`) and the process
  ends. The shutdown sequence still runs and forwards what was answered
  (`RuzordSignals`, with `Interrupts`). The CI skips the test of the reload on Linux
  (`.github/workflows/ci.yml:29`).

The models also show, without a run of their own:

- The README announces graceful shutdown on SIGTERM (`README.md:27`, `:217`); worker
  threads are never joined (`server.rs:328`), and the process leaves while they serve.
  `GracefulShutdown` is checked and proved without threads only.
- A SIGTERM that reaches the parent while it forks is passed on to workers that may not
  have cleared the flags they inherited (`bin/ruzord.rs:477`); it is forgotten, and the
  parent, which waits for that worker (`:562`), ignores all later ones. Passed on after
  the clearing it ends everything: `SettledTermEnds`, which says nothing of the other.
- An update whose engine fails late is answered 500 although some of its digests, or all,
  are counted (`engines.rs:50`, `gdbm_engine.rs:74`); it stays counted, which
  `Ledger` allows, and is not forwarded, which `ForwardedAsAnswered` says.
- A servers file that names a server twice makes the forwarder send it every digest twice
  (`config.rs:213`): `Lines` of `ForwarderChannel`.
- Workers that keep the channel of the forwarder filled for ever keep it from stopping
  (`forwarder.rs:87`); the instances bound what is queued (`MaxEntries`).
- `redis_v0` may be used by pre-forked workers (`supports_prefork`), whose sessions share
  no mutex: two of them lose an increment. `Shared` therefore leaves it out of
  `RefinesTally`. With a cleanup age of 0 its `SETEX` is refused and nothing is stored.
- In `redis`, a record cached by `set` has fields `0` for the times it lacks, which keep
  a later `HSETNX` from setting them: such a digest never gets its `r_entered`.
- A user whose name in the passwd file has an upper-case letter is reached by `all` in
  the access file, and by no line that names it.
- An empty `cleanupage`, or one that is not a number, in the configuration file turns the
  cleanup off; every other number that does not parse leaves its default.
- One byte that is not UTF-8 empties a `FileDatabase`, and keeps a gdbm file with a
  cleanup age from being opened.
- `fs::write` empties the local whitelist before it fills it: a check that runs in
  between sees no entry.
- Standard input is read by the first command of a run that wants it; the others see it
  empty (for mails: one empty mail).
- With a home directory that is not absolute, a daemon resolves its files against `/`.
- A pid file stays behind if the server fails between `daemonize` and serving.
- The difference of two times at the ends of their range overflows: a panic, or, without
  overflow checks, a time that counts as timely.
- A part of a mail that has no headers and so begins with an empty line takes its first
  paragraph for headers: `Mails!Parse`; those lines are not digested.
- Lines before the first `From ` line of an mbox become part of its first mail.

## What is proved

For every value of the constants that satisfies the named assumptions of the module and
`RecordsAssumption`; for cardinalities also that `Reqs` is finite. The assumptions say what
the constants are (the operations of a job, a digest list that is not empty, bounds that are
numbers), never what the system does.

| theorem | states | argument |
|---|---|---|
| `TypeCorrect` | `[](TypeOK /\ Indexed)` | Inductive together: `Current(r)` is a digest only if `done[r]` is below the number of digests, which is what `Indexed` says at each place of the loop. The increments stay in `Record` by lemmas about `Bump` and `ProxyRecord`. |
| `MutexSafe` | `[]MutexHeldInSection` | The holder is exactly the worker in a locked place: taken only when free, released on each way out. |
| `PoisonSafe` | `PoisonIsFinal` | Once poisoned nobody is in the section (`PoisonedFree`), and only there is anything written. |
| `InlineGraceful` | without threads, `[]GracefulShutdown` | `InlineAlone`: a request that is not idle exists only while the loop is at `inline`, and it is the only one. |
| `ReloadSafe` | `[]ReloadNotLost` | Versions only grow and are ordered `auth`, `pending`, `files` (`VersionsOrdered`); the flag is taken down before the first file is read. |
| `AuthSafe` | `[]ServedUnderOneAuth` | While a worker is past its authentication it is a reader, so the state it was judged by is still `auth` when it is authorized (`Judged`). |
| `PermitSafe` | `[]PermitsCounted` | `active` is the cardinality of the threads between `spawned` and `reply`; at most one request is `accepted`, and only while the loop is at `acquire`. |
| `ForwardSafe` | `[]ForwardedOnceWritten` | `Sound`: who is at `forward` has written all its digests, and what a worker holds between `get` and `set` is still the record. `Behind`: no entry of the channel is ahead of its worker; an append is therefore the newest, and a removal keeps the order. |
| `LedgerSafe` | without sources, or without threads, `RefinesLedger` | `Sound`, and `StillMissing`: a worker that asks upstream still has a miss, because inline nobody else writes (`InlineAlone`). Each step of a worker is then one step of `Ledger` or a stutter (`RequestAccounted`, `DatabaseAccounted`, `OthersAccounted`). With both sources and threads it is false: `ProxyOverwrite`. |
| `CountsKept` | under the same condition, if upstream counts are not negative, `[]AcknowledgedKept` | By the steps of `Ledger`. `Covered`: a counter is not negative and at least the number of its writes, or saturated; a fill replaces a counter that is 0, so it covers no write. A negative counter from upstream would be bumped up to 0 by a report that counts, hence the hypothesis `UpstreamCounts`, which the code does not enforce (`server.rs:680`). |
| `TallySafe` | if one mutex covers the sessions of `redis_v0`, `RefinesTally` | Every command is one of four kinds (`WorksCarries`): nothing done, done and failed, done and on with the digest, done with it. `TallyInv` relates `taken` to the place in the program and says that a held record is the row or that of a key that expired. `CarriesTally` then maps each kind to a step of `Tally` or a stutter. |
| `HalfSafe` | `[]HalfWrittenOnlyByFailure` | `HalfInv` names the witness: for each side of a row that lacks its time, a session of that operation at `HSETNX` or `HSET`, or failed; for a key without expiry also one at `EXPIRE`. Rows of the other engines, and records that are held, are never half written. |
| `FreshSafe` | `NoFreshRowLost` | `Safe(d, t)`: whatever may remove the row of `d` is not before `t` plus the age. Every step keeps it for the past (`SafeKept`), and the last command of a digest establishes it for the stamp of its session (`EffectSafe`). That no command of a session empties a row needs `Dates`: a counter below zero has a time. |
| `DeliverySafe` | `[]DeliveredInBatches`, for any servers file, one that repeats a line included | `Accounted`: of each kind, what was attempted for a server, then its batch, then the entry at hand, then the channel is what was accepted, in this order and each entry as often as lines name the server. That each step moves one piece along needs lemmas on how `Sift` and the concatenation of messages act on an append. |
| `FlushSafe` | `[]StopFlushes` | `EarlyHandled`: from the moment a wait found the channel empty, what was accepted before the stop is a prefix of what is sent or batched; at the end no batch is left. |
| `OrphanFree` | `[]NoOrphans` | `WorkersKnown` and `WorkersForked`: the list holds every worker that runs and none that was never forked, so a fork adds a new pid; reaping is a `Sift` that keeps both, and the last wait empties the list. |
| `SlotsSafe` | `[]SlotsBounded` | The same of the children, and `WithinLimit`: the list is shorter than the limit at a fork. A list without repetition bounds the cardinality of what it holds. |
| `ChildrenSafe` | `[]ChildrenFinish` | `Pending`: who answered with 200 has forwarded or is about to; with the list empty no child runs. |
| `ServerInside` | if signals interrupt `recv_from` only where its errors are modelled (`socket`), `RSpec => Spec` | `Together` says where the main thread, the monitor and the forwarder may be at the same time. With it each step of the process is one of the server, or of its environment as `Server` has it, or a stutter (`ServerMoves`): the forwarder ends only after the loop has returned and its channel was drained. |
| `AnsweredSafe` | if the channel has room (`Roomy`), `[]AnsweredIsForwarded` | `NothingDropped`: while the receiver exists, an entry a worker has queued is in the channel, at hand, or in a batch or message of each server. Entries differ in request and number, so a channel of `Cardinality(Reqs)` times the longest list is never full (`NeverFull`). `EarlyHanded`: from the moment the draining forwarder finds the channel empty, what was answered early is in the batches or sent, and at the end no batch is left. |
| `ForwardedSafe` | without threads and if the channel has room, `[]ForwardedAsAnswered` | `Kept` and `Earned`: what is in the channel, at hand, batched or sent is of an update whose digests are all written and which is not answered with an error; inline nobody else answers (`InlineAlone`), so it holds in every step, the forwarder's own included (`ForwarderTakesOver`). That each update answered 200 is sent follows as in `AnsweredSafe`, for the loop has returned before the forwarder is stopped (`AnsweredEarly`). |
| `ProcessSafe` | under the condition of `ServerInside`, `MutexHeldInSection`, `ReloadNotLost`, `ServedUnderOneAuth` and `ForwardedOnceWritten` of every behavior of the process | `ServerInside`, and the theorems about `Server`. |
| `CleanupSafe` | `CleanupExact` | `SweepInv`: while gdbm is cleaning, a key still in `keys` has the row it had `before`, and one already looked at has that row unless it was too old; both are measured from `opened`. `FileDatabase` decides in one step. |
| `SurvivalSafe` | if no counter of the first file is negative (`FirstUnsigned`), `[]AcknowledgedSurvives` | `AckInv`: what a run would read covers `counted`, and so does `memory` of an open `FileDatabase` until a write breaks off. `BumpedDefined` and `AfterCovers`, inductions over the digests of an update, give the rows after each of them: a digest named `n` times has a counter greater by `n`, or at its maximum. |
| `LocalEditsSafe` | `[]LocalEditsKept` | `Tracked`: while nothing is spoiled one command at most has the file in hand, and what it loaded, or has emptied the file to write, is the list all edits so far add up to. |
| `WindowSafe` | `[]CountedInWindow` | `Numbered`: requests carry distinct numbers up to their count, what waits or is credited refers to one already sent, and a request bears the clock of its sender. `Timely`: what waits for a database with code 200, or is counted, was verified when its window was open (`VerifiedInTime`), and an open window stays begun (`Open`): the time of the count, later by any wait, is not before it. |
| `VerdictSafe` | `[]ExitZeroTells` | `Honest`: while a run may still exit with 0, each update it sent is counted, or is the call under way, or shares its thread identifier. `Answered`: an answer of 200 has the thread of a request that is counted. `Candid`: an answer that calls a mail spam was given by counters that only grow, so they still say so. |
| `ConfiguredSafe` | `[]ServesAsConfigured` | `FileInv`: while keys are applied, in whatever order, a setting has the value it was asked for or that of one of its keys, and has one of the file's as soon as none of its keys is pending. `PidInv` ties the pid file to the place in the program, `PathsInv` says that with an absolute home directory no path that is resolved and set is relative, and the working directory changes only in a daemon; so the two raw paths alone can move. |
| `FilesSafe` | `[]FilesDecide` | `Converted`: an output is what the code makes of the input. `LastLineDecides` says which line counts, `LastOf` that it is the greatest of those that are about user and operation; `PlacesCounted` that the line at place `i` is served as the one that `i` counts, as `ServersInOrder` keeps the order; `LastAccountCounts` for the accounts. |
| `ExactSafe` | in any zone, `[]ConversionsExact` | `Converted`, and for each engine that what is read back is the record (`Copied`): `RecordsSurvive` for the texts, `HashSurvives` for the hash of Redis in any order of its fields (`RedisCopied`), `StatementSetsRow` for either clause of the statement (`MySqlCopied`). Days by `DatesAreDays` and `DaysFollow`. |
| `WireSafe` | `[]RequestSurvivesWire` | `DamagedRead`: a packet is split at the line that is hit (`SplitAt`), and each damage changes what is read by that header, or cuts it there. So what arrives is the signed message, perhaps with its signature twice, or it has no signature, or other headers of another number before it (`RequestArrives`). The first is judged by `SignedAccepted`, for `VerifySignature` sees no difference (`SaidTwice`); the last cannot verify, by `SignatureBinds` (`OthersRefused`). `AnswerRead` is about the way back. |
| `LastKeyCounts` | the account of a user in any passwd file | Induction over the lines: the table after `n` lines gives a user the key of the last of them that names it. |
| `LastLineDecides` | the operations of a user by any access file | Induction over the lines: one line decides what it is about and nothing else (`OneLine`), so the last one counts. |
| `DatesAreDays` | `CivilFromDays` and `DaysFromCivil` are inverse | Days are written as era, year of the era and day of the year (`IsDay`); `YearOf` and `YearStart`, `MonthOf` and `MonthStart` undo one another (`DayHasYear`, `YearHasDay`, `DayHasMonth`, `MonthHasDay`), and a day has one such form (`OneCivil`). |
| `DaysFollow` | `CivilFromDays(n + 1) = Tomorrow(CivilFromDays(n))` | `DayAfter`: the date after a date is the next day, by `NextYear` and `NextMonth`; then `DatesAreDays`. |
| `TimesAreDates` | `FromUtc(Utc(t)) = t`, with a date and a clock's ranges | `DatesAreDays` and the division of the seconds of a day. |
| `ReadingsSurvive` | a time written and read back in any zone | The offset in force at a time is one of the zone's (`OffsetIsOne`), so the time is among those `mktime` may take, and all of those have its reading. |
| `RecordsSurvive` | a record written by any engine and decoded again | Field by field: a time is read as itself or one of its reading (`TimeKept`, `ColumnKept`, by `ReadingsSurvive`), a counter as itself, and the records read are those with such fields (`FieldsKept`). |
| `HashSurvives` | the reply to `HGETALL` of any hash | `CommandStreams`: the stream is a line for the array and a line and a payload for each text. `ReadsDefined`: the recursive function that reads from every place exists, for a place of a payload or its line does not depend on another, and the first only on those; then one bulk string more at each step (`ArrayRead`). `PairsDecoded`: a name stands at one odd place, its value after it. |
| `StatementSetsRow` | the row that `SetRecord` leaves | `StatementShape`: the statement is the digest and twelve threes of clause, column and question mark. A mark is preceded by as many marks as there are threes before it (`PlacesBefore`), so it takes the value of its column (`BoundInOrder`); clause and column together name one three (`UpsertedValue`). |
| `VerifiedIsTimely` | what `VerifySignature` accepts | The difference of a clock after 1970 and any timestamp is wrapped at most once (`WrappedOnce`); unwrapped it is below the allowed one. A difference of half the range or nearly the whole range passes only without overflow checks. That `2^Width` is twice `2^(Width - 1)` is a hypothesis: the provers do not know powers. |
| `ServersInOrder` | the servers of any servers file | `SiftPlaces`: what `Sift` keeps stands at increasing places of the sequence, and at all those that are to be kept. |
| `LastAccountCounts` | the account for a server in any accounts file | As `LastKeyCounts`. |
| `HeaderLinesDecide` | what a packet says | `Readable`: the state of the reading after each line is a sequence of headers that a line without a colon leaves alone, so lines that are no headers may be sifted out (`NoiseRead`); the first empty line ends the text that is read (`LinesDecide`). |
| `PacketSurvives` | a message printed, cleaned and parsed | `Printed`: a line and a break for each. `CleanLaws`: the cleaning drops exactly the second of a pair of newlines, and no line is a newline; then `LinesDecide`, and one line is read as one header. |
| `SignedAccepted` | the verdict on a request that was signed | `SignedHeaders`: `SetHeader` adds `User`, `Time` and `Sig` at the end or replaces the first, so removing `Sig` gives what was signed; then `PacketSurvives`, and the wrapped difference of the times as in `VerifiedIsTimely`. |
| `SignatureBinds` | what a valid signature is about | Two messages with the same text are the same, for each is what `Parse` reads of it (`PacketSurvives`); the text that is signed has no line end too many, so trimming loses nothing. |
| `AnswerSurvives` | the answer and the errors | `Shaped`: the four headers of an answer one after the other; `SetHeader` replaces the first and the second of them. |
| `MailsApart` | the mails of an mbox | Induction over the mails (`FoldPieces`): after each of them the mails so far are those gathered (`GatheredTo`), for the lines of one are collected (`Collected`) and a `From ` line ends them (`OneMailMore`). |
| `PartsApart` | the parts of a multipart body | The same over the parts; before the first marker no line counts, after the closing one the state does not change (`FoldStays`). |
| `NoiseIgnored` | the lines that count of any payloads | What counts of payloads in a row, and of lines in a row, is what counts of each (`CountsConcat`, `CountsJoined`), so one line, or one boundary, is looked at by itself (`LinesAround`). |
| `SoftBreaksJoined` | `DecodeTransfer` of any text | A soft break is taken away by the line after it (`BreakJoined`): both texts are in the same state from there on (`FoldConcat`). |
| `PredigestPlaces` | `Selected` of any lines | The places by integer division (`PlacesAre`), each piece the lines between two of them (`PieceIs`). |

Induction. The provers cannot instantiate the library's induction theorems, whose
parameter is an operator. `SequenceFacts` states induction on sets instead: a set of
numbers that holds 0 and with `n` also `n + 1` is `Nat` (`Induction`, from the least number
outside it), a set of sequences that holds the empty one and all appends of its own is
`Seq(S)` (`Growth`), and recursive functions by their equation (`Recursion`, `Stepwise` up
to a bound). A function that goes through a sequence and stays in a set of values ends with
`FoldOf` its steps (`FoldIs`), of which one law is needed: an append is one more step
(`FoldAppend`). What `Sift`, `HeadersOf`, `CleanLegacyPacket` and the loaders of the files
compute is defined by such functions, rather than by `SelectSeq` or `FoldLeft`, and is
proved from that.

Two hypotheses restrict the program, and both are needed. The channel of the program
takes 10000 entries (`bin/ruzord.rs:610`) and the worker drops what a full one does not
take: with less room than `Roomy` asks for, `AnsweredIsForwarded` is false. A negative
counter, which the server may have cached from upstream (`server.rs:680`), is brought to 0
by a report, which then does not count: hence `UpstreamCounts` and `FirstUnsigned`.

Only model-checked: all liveness properties, for TLAPS has no fairness (the temporal
properties of `Processes` are of this kind), and `MailsAlike`, which is about the mails of
its run: parts within parts are read by an operator that is `RECURSIVE`. Of its steps, the
mails of an mbox, the parts of one body, quoted-printable, the noise and the places are
theorems about any mail; what joins them, the headers and HTML stay with TLC. Two things the proofs
about conversions take from outside: `ZoneAssumption`, that a zone is a list of changes of
offset, and `RepliesAssumption`, that Redis gives every field of a hash once.

## Not modelled, and the plan

Not modelled, and not meant to be: logging, the representations for Python, the texts of
help and errors; the bits of SHA-1, base64, escapes and character sets, which are
conversions of bytes; `genkey`, a prompt and a hash; the C interfaces of gdbm and of
sockets. Left out of a modelled part: the pool of MySQL connections, the arguments of the
`mysql` program and the escaping of quotes; `AUTH` and `SELECT` of a new Redis connection,
which are part of the first command; `load_forwarding_config` (`bin/ruzord.rs:576`), which
reads the client's section by the functions of `Configuration`; the reduced copy of the
receive loop in `serve_socket_until_shutdown`. Several servers that proxy and forward to
each other, each with the state of `Server`, are beyond TLC here: an upstream server is the
set of answers it may give.

Proofs worth having next: the headers of a mail and HTML line by line, as `MailLines` has
the rest, and a form of `DigestPayloads` without recursion, for one theorem about whole mails.
