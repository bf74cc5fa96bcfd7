# shell-proxy in TLA+

`sp` runs a command on a remote Linux host through a resident local daemon. The
specifications in this directory model the parts of the program where several
tasks, processes and machines meet, and its intricate decisions; TLC checks them
on small instances and TLAPS proves the central invariants for every value of the
constants. Paths below are
relative to the repository.

```
sp CLI / MCP --IPC socket--> daemon --SSH channel--> sp-serve --pipes--> bash (wrapper)
 client.rs                   daemon.rs, remote.rs    serve.rs            wrapper.sh
```

## 1. Inventory

| part | state it keeps | operations | meets | hard about it | correct if |
|---|---|---|---|---|---|
| client (`src/client.rs`) | stdin open, last interrupt, pending read or write | read stdin, poll frame, take signal, write frame, force exit | daemon, over the socket | one select loop: a write stops everything, an arm cancels the others' reads | everything the command wrote is shown once and in order, the run ends |
| command execution (`handle_exec`, `src/daemon.rs`) | session lock and waiters, cwd per session, lanes, watchdog | refuse, queue, begin, open, forward, end, settle, reply | client, engine, other commands of the session | lock over many awaits, timeout against late answer, client that stalls or leaves, daemon crash | one command per session, no lost waiter, cwd and state from the same command |
| engine (`ExecChannel`, `src/remote.rs`) | stdin lane, signal lanes, shutdown flag, channel tasks | forward stdin and signals, decode output, tear down | SSH channel, `handle_exec` | writes parked on the window, cancelled futures | back-pressure without loss, an interrupt gets through, the channel is closed |
| host pool (`get_or_connect`) | connections by host, first-contact locks | look up, connect and deploy, evict | all executions | concurrent first contact, stale instance | at most one live connection per host is used, only the failed one is evicted |
| start and idle exit (`connect_or_spawn`, `run`, `ActiveGuard`, `src/transport.rs`) | socket file, listener, number of connections | connect, unlink, spawn, bind, accept, idle out | clients and daemons of one user | several clients and daemons race on one path | one daemon, no connection lost |
| deployment (`deploy`, `cleanup_stale`) | files in the remote directory | compare, upload, rename, clean, probe | daemons sharing an account | remote steps interleave | the binary that runs is whole and of the right version |
| sp-serve (`crates/sp-serve/src/serve.rs`) | child, pumps, channels, deadlines | route, pump, signal, time out, drain, collect, report | daemon, process group | eight tasks and a process group it does not control | no survivors of a timeout, Exit last, always ends |
| session state (`read_pipe`, `save_state`, `load_state`, `wrapper.sh`) | pipe, buffer, temporary file, state file | dump, read, save, load | the next execution | kills at every step, size cap, reused pids | the file is whole, loadable, and of one execution |
| frame codec (`crates/sp-proto`) | partial frame | encode, decode | every hop | frames split anywhere | same frames for every split |
| bash spawn (`child.rs`, `wrapper.sh`) | file descriptors | relocate, spawn | serve | sources may be targets; flags of files and of descriptors | the command sees its pipes and nothing else, an end of file can come |
| SSH (`src/ssh.rs`), ssh config (`src/ssh_config.rs`) | settings, attempts, deadline, ProxyCommand child | resolve, connect, decide on the key, authenticate | host pool, `ssh -G`, server, agent | order of files, lines and attempts; silent peers | no revoked, changed or (when strict) unknown key accepted; the attempts keep their order and budget; always returns |
| CLI, MCP, config, logging | none across calls | parse, format | client | - | - |

Each hazard, with its line and the properties that would catch it, is in
`PROJECT.json`; so is the list of components with what is left out of each.

## 2. Modules

| module | models | checked by |
|---|---|---|
| `Turns` | what a session promises: its commands take turns (abstract) | through `Session` |
| `Session` | commands of one host through `handle_exec` and their sp-serve processes; lock, cwd, state file | `MCSession*.cfg` (constants in `MCSession.tla`) |
| `ServeExec` | one sp-serve process: its tasks, channels, timers, and the process group | `ServeExec*.cfg` |
| `StateReport` | shell state over a series of executions | `MCStateReport.cfg` |
| `Spawn` | the descriptors of a new bash, as an algorithm | `MCStateReport.tla` (an assumption) |
| `Pipes` | what a run promises: a command as if at the user's own terminal (abstract) | through `Relay` |
| `Relay` | the streams and signals of one run, end to end | `Relay*.cfg` |
| `Engine` | one exec channel: stream decoder, control loop, tasks and both ways to tear them down | `MCEngine*.cfg` |
| `HostPool` | connections of several daemons to one host, and what they deploy there | `MCHostPool.cfg` |
| `Startup` | clients and daemons on one socket path | `Startup*.cfg` |
| `KnownHosts` | what a known_hosts file says of a key, as operators | through `SshConnect` |
| `SshConnect` | one attempt to connect and authenticate | `MCSshConnect.cfg` |
| `SessionProofs`, `ServeProofs`, `StateReportProofs`, `RelayProofs`, `EngineProofs`, `HostPoolProofs`, `StartupProofs`, `SshProofs` | theorems about these | tlapm |

The modules cut the system along its coarse interfaces and overlap there on
purpose: what `Session` takes as single steps of sp-serve (`CommandEnds`,
`SaveState`, `SendExit`) is opened up by `ServeExec` (the loop, the drain, the
report) and by `StateReport` (the bytes of the dump and the file); what it takes
as a client that reads, stalls, leaves or breaks is opened up by `Relay`, where
these are consequences of queues that fill and of a select loop that is stuck.
`Engine` opens up the end of an execution, one step in `Session` and `Relay`.
`Session` begins where a connection and a binary are at hand: the way there is
`Startup` (the socket), `SshConnect` (the one step `Connect` of `HostPool`) and
`HostPool` (the connection cache and the deploy).

### Session and Turns

`task[c]` is where `handle_exec` stands for command c: `idle`, `queued` (in
`sess.lock.lock()`, or holding the lock without having been polled), `opening` and
`running` (the engine), `unwinding` (joining the bridge), `replying`, `done`; `lost`
if the daemon died. A queued command that owns the lock is `holder`; the others stand
in `queue` in the order of tokio's fair mutex. `WarnAndRequeue` is the first timeout
on the lock: the dropped future loses its place. `Settle` and `Reply` are separate
because the reply is awaited between them and the lock guard is dropped only at the
end of the function. `SaveFails` is a state file that cannot be written: the old one
stays, and the new cwd is reported all the same. A cwd or a state is represented by
the command that produced it. `serve[c]` is the remote process, which goes on by
itself when the daemon gives up; `SaveState` does not look at the channel since the
router is aborted before the drain. `LoseConnection` and `DaemonCrash` are bounded
faults, `Erratic` and `Mortal` bound which commands have bad clients and bad servers.
A timer may fire at any time while armed.

`Turns` has no locks, queues, processes or faults, except that a restart forgets
everything. A turn is `acting` while the engine is alive and `over` until the
lock is given back. The refinement mapping is `Abstract` in `Session`:
`Begin` is `Take`, the end of the engine is `Act`, `Settle` of a success is
`Leave`, `Reply` is `GiveBack`, `DaemonCrash` is `Restart`; everything else
stutters, among it all that the remote processes do. That the shell state, the
other half of a session, is no such register is what the runs about abandoned
executions are for.

### ServeExec

`main` walks `loop`, `drain`, `reports`, `flush`, `done` or `failed`, as
`execute` does. Frames are kinds without payload, both output pumps are one, and
the process group is the leader and one member that may be immune to TERM. The
main loop's select is one action per arm. `LoopClosed` and `LoopDead` are the two
error exits, which send no Exit frame. The no-progress timer of the drain may
fire only when no frame can be written; other timers at any time.

### StateReport and Spawn

A dump is its length together with the run it comes from. The wrapper writes it
in arbitrary pieces, the reader takes arbitrary chunks, the file is written byte
by byte, and any process may be killed between two steps. The next execution may
have the process id of an earlier one, so it may meet its temporary file.

`Spawn` follows a descriptor table through the calls of `child::spawn`: the pipes
and memfds, the fork with what the library adds to it, the relocation in
`pre_exec`, the exec, the rcfile and the wrapper. `LayoutRight` and `CommandSees`
are evaluated for every set of numbers that serve has already taken between 3 and
12. With descriptors allocated lowest first by one thread, a source is never
another source's target, so that parking the sources above all targets is a
precaution; `RelocationRight` therefore also starts from every placement of the
sources on the targets, which the relocation itself must survive.

### Relay and Pipes

`loop` is the client's select: `ReadStdin`, `StdinEnds`, `TakeSignal`,
`PollFrame`, `PollEnd` are its arms; `WriteUp` and `WriteBroken` end a write,
during which no arm is polled. A frame for the client travels in `Parts` parts
and a cancelled read drops those it has taken (`got`, and `place` remembers it). A
part that is then out of place is taken for a header (`Misread`), as
`read_frame_as` does: it is refused, or passes for one (kinds 0x81 to 0x84, at most
16 MiB) and makes a frame of output, an exit, or a read that goes on into what
follows (`adrift`). The daemon is the frame reader (`RouteFrame`, `ClientEnds`,
`ClientResets`), the loop (`ForwardSignal`, `AbandonExec`), bridge and writer
(`EngineOutput`, `EngineExit`, `WriteDown`, `CloseSocket`); the engine is
`SendSignal`, `ForwardInBand`, `ForwardStdin`. The SSH channel with sp-serve is a
queue in each direction. The watchdog and lost connections are in `Session` only.

`Pipes` has a user and a command and nothing between them: what is typed is read in
order and once, the end of stdin behind it, the output is seen in order and once, the
exit code behind it, an interrupt arrives only if the user asked for one. The user may
break off at any time; only one who is torn off in a write may lose the item in hand.
One who types or presses a key while output or the exit is on its way may go `astray`,
and of what is seen from then on nothing is promised (`SeeWrongly`); what is typed is
still promised. The refinement mapping is `Direct` in `Relay`: the variables of the
two ends, `User` for the state of the client, and astray once a half-read frame was
dropped. `ReadStdin` is `Type`, `StdinEnds` is `CloseStdin`, `PollFrame` is `See`,
`Report`, `SeeWrongly` or a stutter, `PollEnd` is `BreakOff`, `CommandReads` is `Read`
or `ReadEnd`, `SendSignal` and `ServeTakesSignal` may be `Interrupt`; all of the
daemon and the engine stutters. `Pipes` promises nothing about progress: that is left
to the two leads-to properties. `StdinConserved` says of the queues what `Pipes`,
which has none, cannot.

### Engine

The channel carries units: the kind of a frame, the length of its payload, the
payload. How large a unit and a payload may be and which payloads parse as a report
are constants. `ReadChunk` receives any message of up to `MaxChunk` units, so that TLC
takes every stream in every cut; `Push` is the incremental decoder and `ReadAll`
its reference, the reader of whole frames that the local socket uses. `wait`
walks `loop`, `deliver` (the output awaited by the client's side), `finishing`,
`joining`, `returned`, or `dropped` at any await: there `reaper` is the task that
`Drop` spawns for what `finish` has not taken over. `link` is the connection's
event loop, which may wedge or die. `closeAge` and `joinAge` are ticks of the
timeouts, and `Tick` is possible only when no task can run.

### HostPool

A connection is named after the request whose first contact made it; `pool` is
the daemon's map, `contact` the first-contact lock with its queue, `stage` where
a request is between `get_or_connect` and the eviction. Each remote command of a
deploy is one step on the directory that all daemons of the account share: `bin`
and `torn` are the versions at their paths, `temp` the upload files, `doomed` what
a cleanup has listed and not yet removed. An attempt that is given up may leave
its `mv` or `rm` on the way (`late`), to run at any later time. `age` counts ticks
of a first contact and then of the file it left.

### Startup

`sock` is what the path names: a socket outlives its daemon, and a new file hides
an older one. The bind of the standard library is the two steps `Bind` and
`Listen`; a client that connects in between is refused, as by a dead daemon's
socket, and may remove the file (`stolen`). The accept loop is `top` (arm the idle
deadline when `active` is 0), `select`, `wait`; `link` follows a connection from the
backlog through its guard to the notification that `ActiveGuard::drop` leaves in
`permit`.

### KnownHosts and SshConnect

`Resolve` reads the lines of `ssh -G`; a failing one gives a direct strict connection
to the alias. `CheckFile` handles one known_hosts file: `ScanKnownHosts` takes its
lines in turn as `scan_known_hosts` does (`ScanLine` is one round of its loop), and
`HashedFallback` is the library's check behind it. `MatchPattern` is the iterative
wildcard matcher with its backtracking: a point of its run is the two positions and
the last star with what it has absorbed. `Glob`, `Vouches`, `Contradicts`, `Revokes`
and `Blocks` are the reference definitions; `Glob` works backwards through the pattern
on sets of positions. `AgentTry` and `FileTry` are one authentication attempt each,
`hashes` what the downgrade of an RSA key has left. One deadline (`Deadline`) covers
handshake and authentication; a failure drops the ProxyCommand child.

## 3. What the runs show

| run | bounds | shows |
|---|---|---|
| `session` | 3 commands in 1 session: one timed, one with its own directory and a mortal server, one with an erratic client; 1 loss, 1 crash | lock discipline, no lost or doubled waiter, overlap and foreign state only after an abandoned execution, start directory current, cwd and state agree |
| `session_live` | 2 commands, both with every fault | a session implements `Turns`; a session of timed commands always moves |
| `serve` | all kinds of frames, member immune or not, orphan that talks; every queue 1 | no survivors, Exit last |
| `serve_live` | stdin data only, immune member, silent orphan, with and without timeout | timeout ends the command, its end ends serve, interrupts arrive |
| `report` | cap 3, chunk 2, pipe 3, dumps to 6, 2 runs, 1 pid; all sets of taken descriptors in 3..12, 5040 placements of sources | file whole, loadable, own; no SIGPIPE; collection ends; bash gets the documented descriptors and the command its pipes only |
| `relay` | 2 stdin frames, 2 output frames of 2 parts, 1 forwarded signal; 2 frames back from serve, all other queues 1 | a run implements `Pipes`; stdin conserved, end of stdin last; an interrupt passes unless the frame reader is parked for ever; the end of the command reaches the client unless the two wait in writes to each other |
| `host_pool` | 3 requests, 2 daemons of 2 versions, timeout 1 tick, age of orphans 2, 1 loss | no half-written binary runs, none goes missing but by another version's cleanup; uploads in progress stay; a live connection is neither replaced nor evicted; whoever waits for a first contact is answered |
| `startup` | 2 clients, socket file of an earlier daemon or none, 1 kill, idle exit on | a daemon is reachable unless a client removed its file; no idle exit in use, none missed |
| `ssh` | up to 2 files of up to 2 of 12 lines; 10 outputs of `ssh -G`; up to 4 agent identities, 2 key files, 3 attempts | the decision on the key is the one of the reference; attempts in order and in the budget; nothing given up before its turn, unless the budget is spent or the method withdrawn; always returns, leaving no child |
| `engine` | 5 units in messages of up to 3, or 2 units with a stdin item and a signal; close 1, join and reap 2 ticks | output as a whole reader sees it, nothing invented or lost; the close is tried; the tasks end |

The bounds reach the cases that matter: three commands are the fewest in which a
waiter can overtake another; queues of one are full after one frame, so every
back-pressure path is taken. That is not enough for the queue back from serve in
`Relay`: the Exit frame must be able to stand behind output that nobody takes, hence
two frames. The other queues of `Relay` are only longer in the code, and what is
proved holds for all capacities, but the two leads-to properties are checked only for these
and, beside the run, with any one of the queues but the lanes for signals longer by
one: both hold. One forwarded signal is the interrupt whose way is followed, or a `SIGTERM`
beside the stdin; a second interrupt that forces the exit is not bounded. A dump of
twice the cap crosses it at every offset of a chunk; two runs with one pid force the
leftover of the first onto the second; two parts are enough to cut a frame. Two
requests of one daemon are a first contact and one that waits for it or finds its
connection lost; the third, of another version, deploys and cleans up beside them; a
timeout is reached and an orphan gets old within the ticks given. Two clients are the
one that removes a socket file and the one that has just had it bound. In `ssh`, each
pair of lines and each pair of files occurs in both orders, three attempts end in the
middle of an RSA key's downgrade or before the second file, and the assumption
`MatcherAgrees` compares the matcher with `Glob` for all strings up to four characters
over a, b and both wildcards (a theorem of `SshProofs` has it for all); four
identities are more than the budget, so that the files may be left no turn. An output
takes two units or more and a report three: five hold one of each, or two outputs, cut
at every place, and garbage behind what is shorter (`DecodedLikeWholeReader` has
streams of any length).

Two runs refute a statement of the code or its documents (findings in
`PROJECT.json`):

| run | refuted | by |
|---|---|---|
| `relay_cancel` | streams are forwarded faithfully | a select arm cancels a half-read frame: the client fails, or shows what was not written, or reports an exit that was none |
| `engine_spin` | a cancelled engine future leaks no task | the forwarder spins on the closed signal lane, and the teardown that has taken it over is dropped |

`engine_spin` needs a stdin that is still open when the command ends (a pipe whose
writer goes on; a terminal is not forwarded, `src/main.rs:257`), so that the
biased select of the forwarder always finds its closed lane ready. It rests on
the behaviour of the locked tokio (1.53.3): `recv` on a closed, empty lane returns
at once.

These configurations are kept beside the runs. Each refutes the statement it
names, which a text of the repository promises or the code could be thought to:

| configuration | refuted | by |
|---|---|---|
| `MCSessionStray` | `StateFileUnderLock`: executions of a session are serialised on its lock | a given-up execution whose drain ends later saves its state under the next command |
| `MCSessionWedge` | `WatchdogFreesLock` | the bridge is joined first and waits for a client that does not read |
| `ServeExecDeaf` | `CloseEndsLoop`: a closed transport kills the group | the router is parked or gone and does not see the end |
| `RelayFull` | `EndReachesClient`: a run returns once the command has ended | the client is in a write nobody reads, the daemon in one the client does not read |
| `RelayReset` | `VanishedClientLetsFinish`: when the client exits early, "the remote process is not killed: the command runs to completion" (`README.en.md:98`) | unread output turns the end of the stream into an error, which abandons the execution (`src/daemon.rs:412`) |
| `RelayParked` | `SignalPassesReader`: "a signal is never stuck behind queued stdin data on this hop" (`src/daemon.rs:367`) | the frame reader that is parked on a full stdin lane takes no signal from the socket either |
| `MCSshAgent` | `FilesGetTheirTurn`: "a large keyring must not exhaust the server's auth budget before the identity files get their turn" (`src/ssh.rs:686`) | the agent's identities come first and spend the budget they share with the files |
| `StartupTwins` | `OneDaemonPerSocket` | a client that was refused by a dead socket removes the file a new daemon has bound meanwhile |

`RelayReset`, `RelayParked` and `MCSshAgent` are disagreements of the code with a text
of the repository, as the two findings are. For `RelayFull`, a client with more stdin
left than the socket takes and a command that ended without reading it, with output
left over, is enough. In `SshConnect`, `RevokedNeverAccepted` is refuted likewise:
with a certificate and without strict checking, a line that cannot be parsed ends the
scan in front of a revocation. `AcceptedKeyIsKnown` excepts just that.

That nothing else hangs is the positive side of two of these: `InterruptPassesStdin`
allows only a frame reader that is parked for ever (`ReaderParked`) to keep an
interrupt, and `EndReachesClientOrWrite` only a client in a write and a daemon in
another (`WaitForEachOther`: the socket towards the daemon full and its frame reader
parked or gone, output left and the socket towards the client full) to keep the end of
the command. Both are about a command without a timeout. The watchdog is in `Session`;
it gives such a command up, but then joins a bridge that still waits for the client
(`MCSessionWedge`).

Deadlock is not checked: the systems stop when all commands are done, and a
`Relay` run may stand still when the user neither types nor signals.

### Fairness

Weak fairness for tasks: the tokio runtime polls every task that is ready and
fires every timer. In `Session` it is one condition for each command's task, since
its steps exclude each other or are alternatives of one select. Strong fairness
in `ServeExec` where a task waits for room that comes and goes (signal task,
writer, last write): tokio's channels are fair queues, and the peer comes back to
read (`PeerFairness`). The main loop's select is unbiased, which justifies one
weak condition per group of arms. Clients that stall resume or leave, except in
`SpecDeafClient`.

`HostPool` is fair to what the daemon does by itself (`Own`: lock, lookup,
insertion, its timer); `SshConnect` to the steps between two answers of the server,
to the timeout of `ssh -G` and to the deadline; `Startup` to the processes of
clients and daemons; `Engine` to its tasks and its timers. Nothing is assumed of
the command, of the user, of the remote host, of the server or its agent, or of the
network: a remote command of a deploy may hang for ever, an event loop may wedge,
the client may stop taking output.

## 4. What is proved

The theorems hold for any sets of commands, sessions, daemons, requests and
clients, any amount of data, any capacities, caps, timeouts, budgets, files, names
and patterns, under the named assumptions of the modules (types of the constants,
`NoCmd` not a command, capacities positive, names and patterns are sequences of
characters, a hashed entry is of one name without wildcards) and two relations of the
code's constants: `DeployTimeout < UploadGc` (60 s and 10 min) and
`CloseTime < ReapTime`, `CloseTime < JoinTime` (2 s, 5 s and 10 s).

* `SessionProofs!TypeCorrect`: the type invariant, one step per action.
* `MutualExclusion`, `StartDirNeverStale`. `OneCommandPerSession` alone is not
  inductive: it needs that whoever is in the critical part is the holder, which
  is the invariant `LockOwned`; it is inductive together with the types and gives
  mutual exclusion at once. That the start directory is current is inductive
  relative to it, for only the owner of the lock writes the bucket.
* `NoOverlapUnlessAbandoned`, `StateIsIsolated`. The invariant `Lifecycle` ties
  the remote process to the task: no process before the engine has opened its
  channel, no outcome before the engine is over, an Exit frame in the inbox means
  that the process is gone. A process at work is therefore awaited or given up
  (`BusyIsRunning`), and two awaited ones would both own the lock. An abandoned
  execution stays one (`AbandonedStable`), so only `SaveState` can disturb
  `StateIsolated`, and by the overlap property only that of an abandoned one.
* `NoWaiterIsLost`, `FairOrder`. `NoLostWaiter` becomes inductive once a lock is
  owned and queued for by commands of its own session only (`WaitersInv`): each step
  on a lock is the arrival, the departure or the return of one command, and a
  command stands in a queue once. A step that lets one command past another, whose
  place is behind it, is then a timeout of the one that was overtaken.
* `HalvesAgree`. That file and bucket come from the same command cannot hold between
  the save and the settlement. The invariant is therefore about sessions in which
  nothing has gone out of step (`OutOfStep`, which never ends: `OutOfStepStays`):
  there, the file is that of the one execution that is still `Unsettled`, and with
  none it agrees with the bucket (`InStep`). At most one is unsettled, by
  `LockOwned`; neither report exists before its command has ended
  (`ReportsFollow`).
* `SessionImplementsTurns`: `Spec => TakesTurns`. By `LockOwned` the
  turn of a session is well defined (`WorkersHaveTurn`); each action of `Session`
  is then shown to be its action of `Turns` or a stutter.
* `ServeProofs!TypeCorrect`, with lemmas on bounded queues; `NoGroupSurvives`
  from `Escalation` (a timed-out command has its KILL armed as long as anyone may
  be alive, and the made-up KILL follows it); `ExitFrameIsLast` from
  `EndingInOrder` (the stages after the loop each keep what the earlier ones
  established).
* `StateReportProofs`: `ReportTypes`, `FileAlwaysWhole`, `SavedAlwaysLoadable` and
  `NeverSigpipe` from one invariant, for any cap, chunk, pipe and dump. The file is
  whole because a result is the whole dump unless its wrapper was killed
  (`ResultInv`), which needs that what was written and is no longer in the pipe is in
  the buffer (`ReaderInv`) and that the terminator is written last (`DumpInv`); and
  because only a result that fits is written, under a name that the leftover of an
  earlier process id is replaced at (`SaveInv`). The wrapper meets a closed pipe only
  if serve is dead, since the reader outlives it otherwise (`ReaderInv`).
* `RelayProofs!RelayTypes`: no queue outgrows its capacity. The queue to the writer
  has one place more than the engine's, kept for the Exit frame (`RoomForExit`).
* `NothingLostNorDoubled`, `EofIsLast`. What the client has read is, in this order,
  received, in the wire, in the lane, in the socket or in the frame being written
  (`Chain`, the form of `StdinConserved` that steps keep: each moves one item across
  one boundary, `JoinCarries` and `LeaveCarries`). It needs that nothing is sent to an
  execution that is over (`Ended`). An end of stdin has only left a client that met its
  own (`EofSource`) and has no data behind it (`EofOrder`), hence when the command
  sees it the data before it has arrived (`EofCounted`).
* `ShownIsPrefix`. The frames the command has written are numbered; as long as no
  half-read frame was dropped, the invariant `Streams` names the boundaries between
  those that are behind the daemon, with it, and written to the socket, and says of the
  piece at the head of the socket that it is the next the client needs (`NextIs`). A
  dropped one cannot be made good (`NoWayBack`), and from then on the theorem promises
  nothing: the client may show what was never written, as `relay_cancel` shows.
* `RelayImplementsPipes`: `Spec => ActsAsLocal`, step by step from the invariants
  above. What it needs beyond them is that an interrupt in any of the six queues was
  sent (`IntSource`), and that the wire carries on where the command stands even after
  the execution has been given up, with nothing but signals behind an end of stdin
  (`EofCounted`). `ShowsNext` says of a read of the client what `See` and `Report` ask
  for while no half-read frame was dropped; that one was dropped only with output or
  the exit on its way is `HalfReadIsReal`.
* `HostPoolProofs`: `TypeCorrect` comes with the owner of a first-contact lock.
  `CachedBinaryAlwaysRuns`, `UploadsInFlightKept` and `LiveConnectionsKept` follow
  from one invariant, `SafeInv`: a contact is made only while its daemon has no live
  connection (`ContactsNeeded`); every rename, a late one too, moves a whole file
  (`RenamesWhole`); a binary that is missing was listed by another version's cleanup
  (`BinariesListed`); a contact in progress is younger than its timeout (`Young`),
  hence what a cleanup lists belongs to no contact in progress, and never will
  (`OrphansOnly`). This is where `DeployTimeout < UploadGc` is needed.
* `StartupProofs`: `TypeCorrect`, `DaemonReachable` and `IdleExitSafe` need that the
  counter is the number of guards (`GuardsCounted`, with lemmas about the cardinality
  of the set of open connections), that a connection's daemon listens
  (`LinksLive`) and that a client in search has none (`Seekers`).
* `EngineProofs`: `CloseAlwaysTried` from `TeardownInv`. While somebody waits for
  the forwarder, time has passed only if it closes the channel, has ended, or spins
  (`Progress`), and its own clock is not behind: it gives up before it is given up.
  `NoTaskAfterReturn`: `finish` returns with all three tasks over.
* `DecodedLikeWholeReader`, `FramesReadBack`. The decoder and the reader of whole
  frames are recursive functions; that they exist is proved first
  (`RecursionExists`), since otherwise nothing follows from their equations. What the
  decoder takes from a stream, whatever follows, is what the reader finds there, and it
  keeps what holds no whole frame (`DrainsAsRead`, by descent from frame to frame;
  `FirstStays`: more bytes do not change a whole frame). The invariant `DecodeInv` says
  that messages and hand are the next pieces of the stream (`InOrder`) and that the
  stream decoded so far is read as some frames and then as the buffer, of which frames
  the first have been sent and the next are waiting (`Decoded`). The frames that one
  refused message had completed are dropped with it, hence a prefix, not an equality.
* `SshProofs`: `TypeCorrect`; `AttemptsKeepOrder` from `OrderInv` (the hashes left
  for a key continue the downgrade of its last attempt); `NothingGivenUpEarly` from
  `GiveInv` (the agent's identities first, then every usable file up to `at`, have had
  their turn, or are having it).
* `MatcherIsGlob`, `KeyDecidedRightly`. The matcher jumps back, so its run is not a
  recursion on anything that shrinks step by step; that a function solves its equation
  is got from the least fixed point of its steps (`RunExists`). A point is right if the
  run from it answers what the pattern says of the rest, or of what the last star may
  still absorb; each move keeps that, because a later star absorbs all that an earlier
  one could (`Slide`), and with the order on (absorbed, consumed) a least wrong point
  is impossible (`AlwaysRight`). The scan of a file then says what the reference
  definitions say of its lines so far (`Says`, kept by `SaysLine`), the fallback of its
  hashed lines (`FallbackSays`), and `KeyInv` carries this from file to file to the
  verdict.

Only model-checked: `Spawn`'s assumption, which evaluates an algorithm on every
placement of a few descriptors, and all liveness, which is out of the prover's reach.
Every invariant and every safety property of the passing runs is a theorem. Where a
proof needs induction over data it is made with a least counterexample (`Least`, from
the library's theorem that every set has a minimal element), because the theorems
about induction itself take an operator that the provers cannot instantiate.

## 5. Not modelled, and why

Payloads, names, exit codes and log texts (no property is about them); pings
during an execution (no client sends them); the branches for an unrepresentable
clock; Windows pipes. Pid reuse for process groups. SSH, russh
and tokio are taken at their interfaces: a fair mutex, bounded channels, a window,
a callback for the key, an answer to each attempt. The agent and key files are
taken at theirs. Token expansion, quoting and the list of identity files of
`ssh -G`, the letter case of host names, and the parsing of CLI, configuration and
MCP requests are conversions without state; so are the caps of captured output.

What the models show and no property forbids, since the code chooses it or no
statement contradicts it:

* a save that fails, or finds its dump over the cap, leaves the old shell state to a
  session whose directory has moved on (`SaveFails`), as the comment at `serve.rs:713`
  accepts; `DirAndStateAgree` excepts it;
* the cleanup of one version removes the binary another version uses; the cached
  connection of the latter fails until it reconnects;
* a connection in the backlog of a daemon that idles out is lost, and its client
  fails although it had connected;
* a failing `ssh -G`, or one that prints no host name, becomes a direct connection
  to the alias, without the user's ProxyCommand;
* a dump that crosses the cap in the read that holds its terminator does reach the
  guard of `save_state` that `serve.rs:717` calls unreachable.

## 6. Plan

1. A proof that relocation is right for descriptors that lie anywhere (`Spawn`).
2. A ping that is answered inside an execution, and what it blocks.
3. The caps of the MCP server: `append_capped` and `clip` against their promise.
