------------------------------ MODULE Session ------------------------------
(***************************************************************************)
(* One command's way through the daemon (handle_exec of src/daemon.rs) and *)
(* through its remote sp-serve process (inner and execute of serve.rs), for *)
(* a set of commands that share sessions of one host.                      *)
(*                                                                         *)
(* A session has a lock and a working directory in the daemon and a state  *)
(* file on the remote host.  Both values are represented by the command    *)
(* that produced them (NoCmd: the initial value), which is all that the    *)
(* properties distinguish.  The daemon serialises the executions with the  *)
(* lock; the file is read and written by sp-serve, which the daemon can    *)
(* only reach through the exec channel.  An execution the daemon gives up  *)
(* (watchdog, broken client stream, lost connection, crash) is a stray:    *)
(* its sp-serve process may still be at work while the next command runs.  *)
(*                                                                         *)
(* Time is abstracted: a timer may fire at any moment while it is armed.   *)
(***************************************************************************)
EXTENDS Naturals, Sequences, SequencesExt

CONSTANTS Cmd,        \* the commands submitted, each once
          Sess,       \* the sessions
          NoCmd,      \* no command
          sessionOf,  \* the session of each command
          Timed,      \* commands sent with a timeout: they arm the watchdog
          OwnDir,     \* commands sent with --cwd
          Erratic,    \* bound: commands whose client may stall or leave
          Mortal,     \* bound: commands whose sp-serve may fail by itself
          MaxLosses,  \* bound: connection losses, daemon crashes included
          MaxCrashes  \* bound: daemon crashes

ASSUME SessionAssumption ==
  /\ NoCmd \notin Cmd
  /\ sessionOf \in [Cmd -> Sess]
  /\ Timed \subseteq Cmd
  /\ OwnDir \subseteq Cmd
  /\ Erratic \subseteq Cmd
  /\ Mortal \subseteq Cmd
  /\ MaxLosses \in Nat
  /\ MaxCrashes \in Nat

MaybeCmd == Cmd \cup {NoCmd}

TaskStage == {"idle", "queued", "opening", "running", "unwinding",
              "replying", "done", "lost"}
ServeStage == {"none", "started", "running", "draining", "saved", "gone"}

VARIABLES
  task,      \* stage of the daemon's handle_exec task of each command
  client,    \* what the client does with its end of the IPC connection
  holder,    \* owner of each session lock
  queue,     \* waiters of each session lock, in the mutex's own order
  warned,    \* commands that re-queued after SESSION_QUEUE_WARN
  bucket,    \* cwd of each session bucket, in daemon memory
  startDir,  \* the cwd sent with each execution
  link,      \* connection instance each command runs over
  losses,    \* connection instances lost so far; instance i is dead iff i < losses
  crashes,   \* daemon crashes so far
  outcome,   \* how the daemon's execution ended
  serve,     \* stage of the sp-serve process of each command
  restored,  \* the shell state each wrapper started from
  dumped,    \* commands whose complete state dump is in the state file or to be saved
  reportDir, \* commands whose cwd report arrived
  inbox,     \* commands whose Exit frame reached the daemon's engine
  file       \* state file of each session on the remote host

daemonVars == <<task, holder, queue, warned, bucket, startDir, link, outcome>>
remoteVars == <<serve, restored, dumped, reportDir, inbox, file>>
faultVars == <<losses, crashes>>
vars == <<daemonVars, client, remoteVars, faultVars>>

Init ==
  /\ task = [c \in Cmd |-> "idle"]
  /\ client = [c \in Cmd |-> "reading"]
  /\ holder = [s \in Sess |-> NoCmd]
  /\ queue = [s \in Sess |-> << >>]
  /\ warned = {}
  /\ bucket = [s \in Sess |-> NoCmd]
  /\ startDir = [c \in Cmd |-> NoCmd]
  /\ link = [c \in Cmd |-> 0]
  /\ losses = 0
  /\ crashes = 0
  /\ outcome = [c \in Cmd |-> "none"]
  /\ serve = [c \in Cmd |-> "none"]
  /\ restored = [c \in Cmd |-> NoCmd]
  /\ dumped = {}
  /\ reportDir = {}
  /\ inbox = {}
  /\ file = [s \in Sess |-> NoCmd]

LinkDead(c) == link[c] < losses

\* The stages in which the task owns the session lock guard and has used it.
Critical == {"opening", "running", "unwinding", "replying"}

\* The engine exists while the channel is being opened and while it is awaited.
EngineAlive(c) == task[c] \in {"opening", "running"}

\* The remote side of the exec channel is closed, or will be once sshd notices.
ChannelClosed(c) == ~EngineAlive(c) \/ LinkDead(c)

(***************************************************************************)
(* The daemon's task                                                       *)
(***************************************************************************)
\* An invalid session name or a failed connect ends the request with an Exit frame.
Refuse(c) ==
  /\ task[c] = "idle"
  /\ task' = [task EXCEPT ![c] = "done"]
  /\ outcome' = [outcome EXCEPT ![c] = "err"]
  /\ UNCHANGED <<client, holder, queue, warned, bucket, startDir, link,
                 remoteVars, faultVars>>

\* A request arrives and get_or_connect returns a live connection; the first
\* poll of lock() takes the free lock or joins its waiters.
Enqueue(c) ==
  LET s == sessionOf[c] IN
  /\ task[c] = "idle"
  /\ task' = [task EXCEPT ![c] = "queued"]
  /\ link' = [link EXCEPT ![c] = losses]
  /\ IF holder[s] = NoCmd
       THEN holder' = [holder EXCEPT ![s] = c] /\ UNCHANGED queue
       ELSE queue' = [queue EXCEPT ![s] = Append(@, c)] /\ UNCHANGED holder
  /\ UNCHANGED <<client, warned, bucket, startDir, outcome, remoteVars,
                 faultVars>>

\* Faulty variant: the timed-out future keeps its place while a second one queues.
RequeueTwice(c) ==
  LET s == sessionOf[c] IN
  /\ task[c] = "queued" /\ c \notin warned /\ c # holder[s]
  /\ queue' = [queue EXCEPT ![s] = Append(@, c)]
  /\ warned' = warned \cup {c}
  /\ UNCHANGED <<task, client, holder, bucket, startDir, link, outcome,
                 remoteVars, faultVars>>

\* SESSION_QUEUE_WARN elapsed: the timed-out lock future is dropped, which gives
\* up its place, and a fresh one queues at the end.
WarnAndRequeue(c) ==
  LET s == sessionOf[c] IN
  /\ task[c] = "queued"
  /\ c \notin warned
  /\ \E i \in DOMAIN queue[s] :
       /\ queue[s][i] = c
       /\ queue' = [queue EXCEPT ![s] = Append(RemoveAt(@, i), c)]
  /\ warned' = warned \cup {c}
  /\ UNCHANGED <<task, client, holder, bucket, startDir, link, outcome,
                 remoteVars, faultVars>>

\* Faulty variant: a waiter that was reported as stuck goes on without the guard.
BeginUnguarded(c) ==
  LET s == sessionOf[c] IN
  /\ task[c] = "queued"
  /\ holder[s] = c \/ c \in warned
  /\ task' = [task EXCEPT ![c] = "opening"]
  /\ startDir' = [startDir EXCEPT ![c] = IF c \in OwnDir THEN c ELSE bucket[s]]
  /\ UNCHANGED <<client, holder, queue, warned, bucket, link, outcome,
                 remoteVars, faultVars>>

\* With the lock held, the start directory is read from the bucket.
Begin(c) ==
  LET s == sessionOf[c] IN
  /\ task[c] = "queued"
  /\ holder[s] = c
  /\ task' = [task EXCEPT ![c] = "opening"]
  /\ startDir' = [startDir EXCEPT ![c] = IF c \in OwnDir THEN c ELSE bucket[s]]
  /\ UNCHANGED <<client, holder, queue, warned, bucket, link, outcome,
                 remoteVars, faultVars>>

\* ExecChannel::open completed: sshd runs sp-serve, which has its Exec frame.
Open(c) ==
  /\ task[c] = "opening"
  /\ ~LinkDead(c)
  /\ task' = [task EXCEPT ![c] = "running"]
  /\ serve' = [serve EXCEPT ![c] = "started"]
  /\ UNCHANGED <<client, holder, queue, warned, bucket, startDir, link,
                 outcome, restored, dumped, reportDir, inbox, file, faultVars>>

\* Faulty variant: the lock goes to the last waiter.
LastWaiter(s) == IF queue[s] = << >> THEN NoCmd ELSE Last(queue[s])

\* Dropping the guard hands the lock to the first waiter.
NextHolder(s) == IF queue[s] = << >> THEN NoCmd ELSE Head(queue[s])

NextQueue(s) == IF queue[s] = << >> THEN queue[s] ELSE Tail(queue[s])

\* Faulty variant: an end that leaves an outcome nothing below handles.
EndEngineOther(c, how) ==
  /\ task' = [task EXCEPT ![c] = "unwinding"]
  /\ outcome' = [outcome EXCEPT ![c] = "cancelled"]
  /\ startDir' = [startDir EXCEPT ![c] = NoCmd]
  /\ link' = [link EXCEPT ![c] = 0]
  /\ UNCHANGED <<client, holder, queue, warned, bucket, remoteVars, faultVars>>

\* Faulty variant: the lock guard is dropped together with the engine.
EndEngineUnlocks(c, how) ==
  LET s == sessionOf[c] IN
  /\ task' = [task EXCEPT ![c] = "unwinding"]
  /\ outcome' = [outcome EXCEPT ![c] = how]
  /\ startDir' = [startDir EXCEPT ![c] = NoCmd]
  /\ link' = [link EXCEPT ![c] = 0]
  /\ holder' = [holder EXCEPT ![s] = NextHolder(s)]
  /\ queue' = [queue EXCEPT ![s] = NextQueue(s)]
  /\ UNCHANGED <<client, warned, bucket, remoteVars, faultVars>>

\* The execution ends with `how`; leaving the scope drops the engine.
EndEngine(c, how) ==
  /\ task' = [task EXCEPT ![c] = "unwinding"]
  /\ outcome' = [outcome EXCEPT ![c] = how]
  /\ startDir' = [startDir EXCEPT ![c] = NoCmd]
  /\ link' = [link EXCEPT ![c] = 0]
  /\ UNCHANGED <<client, holder, queue, warned, bucket, remoteVars, faultVars>>

\* Opening fails: connection lost, refused, or EXEC_SETUP_TIMEOUT.
OpenFails(c) ==
  /\ task[c] = "opening"
  /\ EndEngine(c, "err")

\* The engine decoded the Exit frame.  A client that does not read blocks it:
\* the output in front of the frame has nowhere to go.
EngineReports(c) ==
  /\ task[c] = "running"
  /\ c \in inbox
  /\ client[c] # "stalled"
  /\ EndEngine(c, "ok")

\* The channel ended without an Exit frame.
EngineFails(c) ==
  /\ task[c] = "running"
  /\ c \notin inbox
  /\ LinkDead(c) \/ serve[c] = "gone"
  /\ client[c] # "stalled"
  /\ EndEngine(c, "err")

\* Faulty variant: the watchdog is disarmed once the command itself has ended.
WatchdogUntilExit(c) ==
  /\ EngineAlive(c)
  /\ c \in Timed
  /\ serve[c] # "draining"
  /\ EndEngine(c, "err")

\* No report within the timeout plus WATCHDOG_GRACE.
Watchdog(c) ==
  /\ EngineAlive(c)
  /\ c \in Timed
  /\ EndEngine(c, "err")

\* The client stream broke inside a frame or violated the protocol.
Fatal(c) ==
  /\ EngineAlive(c)
  /\ client[c] = "broken"
  /\ EndEngine(c, "err")

\* Faulty variant: the cwd of a command whose client has left is forgotten.
SettleForClient(c) ==
  LET s == sessionOf[c] IN
  /\ task[c] = "unwinding"
  /\ client[c] # "stalled"
  /\ task' = [task EXCEPT ![c] = "replying"]
  /\ bucket' = IF outcome[c] = "ok" /\ c \in reportDir /\ client[c] = "reading"
                 THEN [bucket EXCEPT ![s] = c] ELSE bucket
  /\ UNCHANGED <<client, holder, queue, warned, startDir, link, outcome,
                 remoteVars, faultVars>>

\* The bridge is joined, which takes a client that accepts (or refuses) the
\* output queued for it; then only a successful outcome stores its cwd.
Settle(c) ==
  LET s == sessionOf[c] IN
  /\ task[c] = "unwinding"
  /\ client[c] # "stalled"
  /\ task' = [task EXCEPT ![c] = "replying"]
  /\ bucket' = IF outcome[c] = "ok" /\ c \in reportDir
                 THEN [bucket EXCEPT ![s] = c] ELSE bucket
  /\ UNCHANGED <<client, holder, queue, warned, startDir, link, outcome,
                 remoteVars, faultVars>>

\* The Exit frame is queued for the client and the lock guard dropped.
Reply(c) ==
  LET s == sessionOf[c] IN
  /\ task[c] = "replying"
  /\ client[c] # "stalled"
  /\ task' = [task EXCEPT ![c] = "done"]
  /\ holder' = [holder EXCEPT ![s] = NextHolder(s)]
  /\ queue' = [queue EXCEPT ![s] = NextQueue(s)]
  /\ client' = [client EXCEPT ![c] = "gone"]
  /\ warned' = warned \ {c}
  /\ UNCHANGED <<bucket, startDir, link, outcome, remoteVars, faultVars>>

(***************************************************************************)
(* The client                                                              *)
(***************************************************************************)
\* The client stops reading (a pager, a stopped job) with the output path full.
ClientStalls(c) ==
  /\ c \in Erratic
  /\ client[c] = "reading"
  /\ task[c] = "running"
  /\ client' = [client EXCEPT ![c] = "stalled"]
  /\ UNCHANGED <<daemonVars, remoteVars, faultVars>>

ClientResumes(c) ==
  /\ client[c] = "stalled"
  /\ client' = [client EXCEPT ![c] = "reading"]
  /\ UNCHANGED <<daemonVars, remoteVars, faultVars>>

\* The client disconnects, cleanly or in the middle of a frame.
ClientLeaves(c) ==
  /\ c \in Erratic
  /\ client[c] \in {"reading", "stalled"}
  /\ task[c] \in {"queued", "opening", "running", "unwinding"}
  /\ \E how \in {"gone", "broken"} : client' = [client EXCEPT ![c] = how]
  /\ UNCHANGED <<daemonVars, remoteVars, faultVars>>

(***************************************************************************)
(* The remote sp-serve process                                             *)
(***************************************************************************)
ServeGoes(c, stage) == serve' = [serve EXCEPT ![c] = stage]

\* The process ends; what it remembered goes with it.
ServeEnds(c) ==
  /\ serve' = [serve EXCEPT ![c] = "gone"]
  /\ restored' = [restored EXCEPT ![c] = NoCmd]

\* load_state reads the state file and bash is spawned on it.
LoadAndSpawn(c) ==
  /\ serve[c] = "started"
  /\ ServeGoes(c, "running")
  /\ restored' = [restored EXCEPT ![c] = file[sessionOf[c]]]
  /\ UNCHANGED <<daemonVars, client, dumped, reportDir, inbox, file, faultVars>>

\* No $HOME or no bash: reported like any exit, nothing is saved.
SpawnFails(c) ==
  /\ c \in Mortal
  /\ serve[c] = "started"
  /\ ServeGoes(c, "saved")
  /\ UNCHANGED <<daemonVars, client, restored, dumped, reportDir, inbox, file,
                 faultVars>>

\* The wrapper exits and the main loop breaks.  Each of its two reports may be
\* missing: bash was killed or replaced by exec, or a report was over its cap.
CommandEnds(c) ==
  /\ serve[c] = "running"
  /\ ServeGoes(c, "draining")
  /\ dumped' \in {dumped, dumped \cup {c}}
  /\ reportDir' \in {reportDir, reportDir \cup {c}}
  /\ UNCHANGED <<daemonVars, client, restored, inbox, file, faultVars>>

\* The main loop reads the end of its stdin, kills the group and bails out.
SeesClose(c) ==
  /\ serve[c] = "running"
  /\ ChannelClosed(c)
  /\ ServeEnds(c)
  /\ UNCHANGED <<daemonVars, client, dumped, reportDir, inbox, file, faultVars>>

\* After the drain a complete dump replaces the state file.  The router is gone
\* by then, so a closed channel does not stop this step.
SaveState(c) ==
  LET s == sessionOf[c] IN
  /\ serve[c] = "draining"
  /\ ServeGoes(c, "saved")
  /\ file' = IF c \in dumped THEN [file EXCEPT ![s] = c] ELSE file
  /\ UNCHANGED <<daemonVars, client, restored, dumped, reportDir, inbox,
                 faultVars>>

\* The directory or the file cannot be written: the previous state stays, and the Exit
\* frame takes the new cwd to the daemon all the same.
SaveFails(c) ==
  /\ c \in Mortal
  /\ serve[c] = "draining" /\ c \in dumped
  /\ ServeGoes(c, "saved")
  /\ dumped' = dumped \ {c}
  /\ UNCHANGED <<daemonVars, client, restored, reportDir, inbox, file, faultVars>>

\* Faulty variant: the Exit frame may go out before the state is saved.
SendExitEarly(c) ==
  /\ serve[c] \in {"draining", "saved"}
  /\ IF serve[c] = "saved" THEN ServeEnds(c) ELSE UNCHANGED <<serve, restored>>
  /\ inbox' = IF ChannelClosed(c) THEN inbox ELSE inbox \cup {c}
  /\ UNCHANGED <<daemonVars, client, dumped, reportDir, file, faultVars>>

\* The Exit frame goes out; it arrives if the channel still stands.
SendExit(c) ==
  /\ serve[c] = "saved"
  /\ ServeEnds(c)
  /\ inbox' = IF ChannelClosed(c) THEN inbox ELSE inbox \cup {c}
  /\ UNCHANGED <<daemonVars, client, dumped, reportDir, file, faultVars>>

\* sp-serve itself is killed, or fails before it can report.
ServeDies(c) ==
  /\ c \in Mortal
  /\ serve[c] \in {"started", "running", "draining", "saved"}
  /\ ServeEnds(c)
  /\ dumped' = dumped \ {c}
  /\ reportDir' = reportDir \ {c}
  /\ UNCHANGED <<daemonVars, client, inbox, file, faultVars>>

(***************************************************************************)
(* Faults                                                                  *)
(***************************************************************************)
\* The connection dies; the next command connects afresh (get_or_connect).
LoseConnection ==
  /\ losses < MaxLosses
  /\ losses' = losses + 1
  /\ UNCHANGED <<daemonVars, client, remoteVars, crashes>>

\* The daemon process dies with everything it keeps in memory; the next client
\* spawns a new one.
DaemonCrash ==
  /\ crashes < MaxCrashes
  /\ losses < MaxLosses
  /\ crashes' = crashes + 1
  /\ losses' = losses + 1
  /\ task' = [c \in Cmd |-> IF task[c] \in {"idle", "done"} THEN task[c] ELSE "lost"]
  /\ holder' = [s \in Sess |-> NoCmd]
  /\ queue' = [s \in Sess |-> << >>]
  /\ bucket' = [s \in Sess |-> NoCmd]
  /\ startDir' = [c \in Cmd |-> NoCmd]
  /\ link' = [c \in Cmd |-> 0]
  /\ warned' = {}
  /\ UNCHANGED <<client, outcome, remoteVars>>

TaskStep(c) ==
  \/ Begin(c) \/ Open(c) \/ OpenFails(c)
  \/ EngineReports(c) \/ EngineFails(c) \/ Watchdog(c) \/ Fatal(c)
  \/ Settle(c) \/ Reply(c)

ClientStep(c) == ClientStalls(c) \/ ClientResumes(c) \/ ClientLeaves(c)

ServeStep(c) ==
  \/ LoadAndSpawn(c) \/ SpawnFails(c) \/ CommandEnds(c) \/ SeesClose(c)
  \/ SaveState(c) \/ SaveFails(c) \/ SendExit(c) \/ ServeDies(c)

Next ==
  \/ \E c \in Cmd : Enqueue(c) \/ Refuse(c) \/ WarnAndRequeue(c)
  \/ \E c \in Cmd : TaskStep(c) \/ ClientStep(c) \/ ServeStep(c)
  \/ LoseConnection
  \/ DaemonCrash

\* The runtime polls every ready task and every timer fires.  A stalled client
\* eventually reads again or leaves.  Nothing is assumed of the remote host: a
\* command may run forever and a process may hang.
TaskFairness == \A c \in Cmd : WF_vars(TaskStep(c))
ClientFairness == \A c \in Cmd : WF_vars(ClientResumes(c))

Spec == Init /\ [][Next]_vars /\ TaskFairness /\ ClientFairness

\* The same with a client that may stop reading for good.
SpecDeafClient == Init /\ [][Next]_vars /\ TaskFairness

(***************************************************************************)
(* Properties                                                              *)
(***************************************************************************)
TypeOK ==
  /\ task \in [Cmd -> TaskStage]
  /\ client \in [Cmd -> {"reading", "stalled", "gone", "broken"}]
  /\ holder \in [Sess -> MaybeCmd]
  /\ queue \in [Sess -> Seq(Cmd)]
  /\ warned \subseteq Cmd
  /\ bucket \in [Sess -> MaybeCmd]
  /\ startDir \in [Cmd -> MaybeCmd]
  /\ link \in [Cmd -> Nat]
  /\ losses \in Nat
  /\ crashes \in Nat
  /\ outcome \in [Cmd -> {"none", "ok", "err"}]
  /\ serve \in [Cmd -> ServeStage]
  /\ restored \in [Cmd -> MaybeCmd]
  /\ dumped \subseteq Cmd
  /\ reportDir \subseteq Cmd
  /\ inbox \subseteq Cmd
  /\ file \in [Sess -> MaybeCmd]

\* The daemon runs one command of a session at a time: whoever is between taking
\* the lock and replying is its owner ("commands within a session serialize on
\* the session lock", daemon.rs).
OneCommandPerSession ==
  \A c, d \in Cmd :
    task[c] \in Critical /\ task[d] \in Critical /\ sessionOf[c] = sessionOf[d]
      => c = d

\* No lost wake-up: every queued command owns the lock or stands once in the
\* queue of its session, the owner of a lock is a live task that will release
\* it, and nobody waits for a lock that nobody holds.
NoLostWaiter ==
  /\ \A c \in Cmd : task[c] = "queued" =>
       \/ holder[sessionOf[c]] = c
       \/ \E i \in DOMAIN queue[sessionOf[c]] : queue[sessionOf[c]][i] = c
  /\ \A s \in Sess :
       /\ IsInjective(queue[s])
       /\ \A i \in DOMAIN queue[s] :
            task[queue[s][i]] = "queued" /\ queue[s][i] # holder[s]
       /\ queue[s] # << >> => holder[s] # NoCmd
       /\ holder[s] # NoCmd => task[holder[s]] \in Critical \cup {"queued"}

\* An execution the daemon gave up after sp-serve had started.
Abandoned(c) ==
  /\ serve[c] # "none"
  /\ task[c] = "lost" \/ outcome[c] = "err"

ServeBusy(c) == serve[c] \in {"started", "running", "draining"}

\* Two sp-serve processes of one session work at the same time only if the
\* daemon gave one of them up: a reported execution has saved its state before
\* the next command of the session starts.
OverlapNeedsAbandoned ==
  \A c, d \in Cmd :
    c # d /\ sessionOf[c] = sessionOf[d] /\ ServeBusy(c) /\ ServeBusy(d)
      => Abandoned(c) \/ Abandoned(d)

\* The shell state a command was started from stays the state of its session
\* until that command saves its own, unless an abandoned execution wrote the file.
StateIsolated ==
  \A c \in Cmd :
    serve[c] \in {"running", "draining"} /\ ~Abandoned(c)
      => \/ restored[c] = file[sessionOf[c]]
         \/ \E d \in Cmd : file[sessionOf[c]] = d /\ Abandoned(d)

\* The directory sent with an execution is still the session's directory when
\* the execution ends: no update slips between the read and the use.
StartDirIsCurrent ==
  \A c \in Cmd \ OwnDir :
    EngineAlive(c) => startDir[c] = bucket[sessionOf[c]]

\* A command whose effects on the session are all reported, or that had none.
Complete(c) ==
  \/ task[c] = "idle"
  \/ task[c] = "done" /\ serve[c] = "none"
  \/ task[c] = "done" /\ outcome[c] = "ok" /\ (c \in dumped <=> c \in reportDir)

\* The two halves of a session, the daemon's cwd and the remote state file, come
\* from the same command whenever all commands so far ended in order: reported, and
\* with a state that was saved if there was a directory to report.
DirAndStateAgree ==
  \A s \in Sess :
    crashes = 0 /\ (\A c \in Cmd : sessionOf[c] = s => Complete(c))
      => bucket[s] = file[s]

\* The command of a session that has its turn, or NoCmd.
Turn(s) ==
  IF \E c \in Cmd : sessionOf[c] = s /\ task[c] \in Critical
    THEN CHOOSE c \in Cmd : sessionOf[c] = s /\ task[c] \in Critical
    ELSE NoCmd

TurnPhase(s) ==
  IF Turn(s) = NoCmd THEN "none" ELSE IF EngineAlive(Turn(s)) THEN "acting" ELSE "over"

Abstract == INSTANCE Turns WITH
  turn <- [s \in Sess |-> Turn(s)],
  phase <- [s \in Sess |-> TurnPhase(s)],
  seen <- [s \in Sess |-> IF TurnPhase(s) = "acting" THEN startDir[Turn(s)] ELSE NoCmd],
  dir <- bucket

\* A session implements what it promises: its commands take turns, each with the
\* directory the last successful one left, whatever fails at either end.
TakesTurns == Abstract!Spec

\* d waits, and c is ahead of it.
Ahead(c, d) ==
  LET s == sessionOf[d]
      q == queue[s]
  IN /\ task[c] = "queued" /\ task[d] = "queued" /\ c # d
     /\ \/ holder[s] = c
        \/ \E i, j \in DOMAIN q : i < j /\ q[i] = c /\ q[j] = d

\* Waiters are served in order of arrival, except that a waiter reported in the
\* log as stuck loses its place, once.
OvertakenOnlyWhenWarned ==
  [][\A c, d \in Cmd :
       Ahead(c, d) /\ task'[c] = "queued" /\ task'[d] = "queued"
         => Ahead(c, d)' \/ c \in warned' \ warned]_vars

\* A session whose commands all carry a timeout never wedges, whatever the
\* remote host does and whatever runs forever in other sessions.
TimedSessionMoves ==
  \A c \in Cmd :
    (\A d \in Cmd : sessionOf[d] = sessionOf[c] => d \in Timed)
      => (task[c] = "queued") ~> (task[c] \in {"done", "lost"})

\* Serialised on the session lock, an execution changes the session's state only
\* while it holds the lock.  Refuted: an abandoned execution saves later.
StateFileUnderLock ==
  [][\A s \in Sess : file'[s] # file[s] => holder[s] = file'[s]]_vars

\* The watchdog frees the session lock.  Refuted: the bridge is joined first,
\* and it waits for a client that does not read.
WatchdogFreesLock ==
  \A c \in Cmd :
    (task[c] = "running" /\ c \in Timed) ~> (holder[sessionOf[c]] # c)
=============================================================================
