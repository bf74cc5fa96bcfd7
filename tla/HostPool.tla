----------------------------- MODULE HostPool ------------------------------
(***************************************************************************)
(* The connections daemons keep to one remote host, and the sp-serve       *)
(* binaries they deploy there: get_or_connect, connect_host and the         *)
(* eviction at the end of handle_exec (src/daemon.rs), deploy, upload,     *)
(* remote_matches and cleanup_stale (src/remote.rs).                       *)
(*                                                                         *)
(* The map of connections and the first-contact locks are keyed by host,   *)
(* so that one host stands for all.  Several daemons (other machines, or   *)
(* another version on this one) share the remote directory.  A connection  *)
(* is named after the request that established it.  A deployed file is     *)
(* named after the version of its daemon; the bytes of a version are       *)
(* either all there or not.                                                *)
(*                                                                         *)
(* Each remote command is one step.  A command that was sent before its    *)
(* deploy was given up may still run on the remote host, later or never.   *)
(* Time passes for each first contact on its own, and only its bounds      *)
(* matter: CONNECT_DEPLOY_TIMEOUT and UPLOAD_GC_MINUTES.                    *)
(***************************************************************************)
EXTENDS Naturals, Sequences, FiniteSets

CONSTANTS Daemons,        \* the daemons with requests for the host
          Requests,       \* the requests, each made once
          None,           \* no connection, no request
          daemonOf,       \* the daemon of each request
          versionOf,      \* the version of each daemon
          DeployTimeout,  \* CONNECT_DEPLOY_TIMEOUT, in ticks
          UploadGc,       \* UPLOAD_GC_MINUTES, in ticks
          MaxLosses       \* bound: connections lost by themselves

ASSUME HostPoolAssumption ==
  /\ None \notin Requests
  /\ daemonOf \in [Requests -> Daemons]
  /\ DeployTimeout \in Nat \ {0}
  /\ UploadGc \in Nat
  /\ DeployTimeout < UploadGc
  /\ MaxLosses \in Nat

Versions == {versionOf[d] : d \in Daemons}
Ver(r) == versionOf[daemonOf[r]]

\* Stages of a first contact, from the connect to the insertion into the map.
Attempting == {"connect", "probe", "create", "upload", "rename", "verify",
               "list", "remove", "check", "insert"}
Stages == {"idle", "waiting", "using", "evict", "done", "failed"} \cup Attempting

VARIABLES
  stage,    \* where get_or_connect or handle_exec is, for each request
  conn,     \* the connection each request goes on with
  pool,     \* the cached connection of each daemon
  contact,  \* the first-contact mutex of each daemon: its owner, then its waiters
  up,       \* connections that are not closed
  losses,   \* connections lost so far
  age,      \* ticks since the first contact began, while it or its upload file is left
  bin,      \* versions whose binary is at its path
  torn,     \* versions whose binary is at its path with bytes missing
  temp,     \* the upload file of each request: absent, partial or whole
  doomed,   \* what the cleanup of each request listed: versions and temps
  late      \* the remote command a given-up deploy has left behind

vars == <<stage, conn, pool, contact, up, losses, age, bin, torn, temp, doomed,
          late>>

daemonVars == <<stage, conn, pool, contact, age>>
remoteVars == <<bin, torn, temp, late>>

Nothing == [bins |-> {}, temps |-> {}]

Init ==
  /\ stage = [r \in Requests |-> "idle"]
  /\ conn = [r \in Requests |-> None]
  /\ pool = [d \in Daemons |-> None]
  /\ contact = [d \in Daemons |-> << >>]
  /\ up = {}
  /\ losses = 0
  /\ age = [r \in Requests |-> 0]
  /\ bin = {}
  /\ torn = {}
  /\ temp = [r \in Requests |-> "absent"]
  /\ doomed = [r \in Requests |-> Nothing]
  /\ late = [r \in Requests |-> "none"]

\* The live cached connection of a daemon, or None.
Live(d) == IF pool[d] \in up THEN pool[d] ELSE None

Goes(r, to) == stage' = [stage EXCEPT ![r] = to]

(***************************************************************************)
(* get_or_connect                                                          *)
(***************************************************************************)
\* A live cached connection is taken without the first-contact lock.
TakeCached(r) ==
  /\ stage[r] = "idle"
  /\ Live(daemonOf[r]) # None
  /\ Goes(r, "using")
  /\ conn' = [conn EXCEPT ![r] = Live(daemonOf[r])]
  /\ UNCHANGED <<pool, contact, up, losses, age, remoteVars, doomed>>

\* A cache miss queues for the first contact with the host.
Queue(r) ==
  LET d == daemonOf[r] IN
  /\ stage[r] = "idle"
  /\ Live(d) = None
  /\ Goes(r, "waiting")
  /\ contact' = [contact EXCEPT ![d] = Append(@, r)]
  /\ UNCHANGED <<conn, pool, up, losses, age, remoteVars, doomed>>

\* r owns the first-contact lock of its daemon.
OwnsContact(r) ==
  /\ contact[daemonOf[r]] # << >>
  /\ Head(contact[daemonOf[r]]) = r

\* The guard of the first-contact lock is dropped.
Unlock(r) == contact' = [contact EXCEPT ![daemonOf[r]] = Tail(@)]

\* Under the lock: the previous holder may have connected in the meantime.
Recheck(r) ==
  /\ stage[r] = "waiting"
  /\ OwnsContact(r)
  /\ Live(daemonOf[r]) # None
  /\ Goes(r, "using")
  /\ conn' = [conn EXCEPT ![r] = Live(daemonOf[r])]
  /\ Unlock(r)
  /\ UNCHANGED <<pool, up, losses, age, remoteVars, doomed>>

StartContact(r) ==
  /\ stage[r] = "waiting"
  /\ OwnsContact(r)
  /\ Live(daemonOf[r]) = None
  /\ Goes(r, "connect")
  /\ UNCHANGED <<conn, pool, contact, up, losses, age, remoteVars, doomed>>

\* ssh::connect succeeds.
Connect(r) ==
  /\ stage[r] = "connect"
  /\ Goes(r, "probe")
  /\ up' = up \cup {r}
  /\ UNCHANGED <<conn, pool, contact, losses, age, remoteVars, doomed>>

\* A remote `mv` or `rm` nobody waits for any longer may still be run.
LeaveBehind(r) ==
  late' = [late EXCEPT ![r] = IF stage[r] \in {"rename", "remove"} THEN stage[r] ELSE @]

\* The attempt fails or is given up: its connection is dropped with it.
Abort(r) ==
  /\ Goes(r, "failed")
  /\ Unlock(r)
  /\ up' = up \ {r}
  /\ LeaveBehind(r)
  /\ age' = [age EXCEPT ![r] = IF temp[r] = "absent" THEN 0 ELSE @]
  /\ UNCHANGED <<conn, pool, losses, bin, torn, temp, doomed>>

\* A refused connect, a lost connection, a remote command that fails.
AttemptFails(r) ==
  /\ stage[r] \in Attempting \ {"list", "remove", "insert"}
  /\ Abort(r)

\* Faulty variant: the timeout covers the connect and not the deploy.
TimeoutConnect(r) ==
  /\ stage[r] = "connect"
  /\ age[r] = DeployTimeout
  /\ Abort(r)

\* CONNECT_DEPLOY_TIMEOUT elapsed.
Timeout(r) ==
  /\ stage[r] \in Attempting \ {"insert"}
  /\ age[r] = DeployTimeout
  /\ Abort(r)

\* The map is locked again: a live entry wins over the new connection.
Insert(r) ==
  LET d == daemonOf[r] IN
  /\ stage[r] = "insert"
  /\ Goes(r, "using")
  /\ IF Live(d) # None
       THEN /\ conn' = [conn EXCEPT ![r] = Live(d)]
            /\ up' = up \ {r}
            /\ UNCHANGED pool
       ELSE /\ conn' = [conn EXCEPT ![r] = r]
            /\ pool' = [pool EXCEPT ![d] = r]
            /\ UNCHANGED up
  /\ Unlock(r)
  /\ age' = [age EXCEPT ![r] = 0]
  /\ UNCHANGED <<losses, remoteVars, doomed>>

(***************************************************************************)
(* deploy                                                                  *)
(***************************************************************************)
\* A remote command of the deploy takes a connection that still stands.
Deploying(r, at) == stage[r] = at /\ r \in up

\* uname, then remote_matches: a file with the expected checksum is kept.
Probe(r) ==
  /\ Deploying(r, "probe")
  /\ Goes(r, IF Ver(r) \in bin \ torn THEN "list" ELSE "create")
  /\ UNCHANGED <<conn, pool, contact, up, losses, age, remoteVars, doomed>>

\* mkdir, and the remote `cat` creates the upload file under a fresh name.
CreateTemp(r) ==
  /\ Deploying(r, "create")
  /\ Goes(r, "upload")
  /\ temp' = [temp EXCEPT ![r] = "partial"]
  /\ UNCHANGED <<conn, pool, contact, up, losses, age, bin, torn, late, doomed>>

\* All bytes are there and chmod has run.  A file removed meanwhile stays gone.
Upload(r) ==
  /\ Deploying(r, "upload")
  /\ Goes(r, "rename")
  /\ temp' = [temp EXCEPT ![r] = IF @ = "partial" THEN "whole" ELSE @]
  /\ UNCHANGED <<conn, pool, contact, up, losses, age, bin, torn, late, doomed>>

\* What `mv` does to the directory.
MoveTemp(r) ==
  /\ temp' = [temp EXCEPT ![r] = "absent"]
  /\ bin' = bin \cup {Ver(r)}
  /\ torn' = IF temp[r] = "whole" THEN torn \ {Ver(r)} ELSE torn \cup {Ver(r)}

Rename(r) ==
  /\ Deploying(r, "rename")
  /\ temp[r] # "absent"
  /\ Goes(r, "verify")
  /\ MoveTemp(r)
  /\ UNCHANGED <<conn, pool, contact, up, losses, age, late, doomed>>

\* The checksum once more; a mismatch is a failure of the attempt.
Verify(r) ==
  /\ Deploying(r, "verify")
  /\ Ver(r) \in bin \ torn
  /\ Goes(r, "list")
  /\ UNCHANGED <<conn, pool, contact, up, losses, age, remoteVars, doomed>>

\* Upload files past the age at which cleanup_stale takes them for orphans.
OldTemps == {q \in Requests : temp[q] # "absent" /\ age[q] >= UploadGc}

\* Faulty variant: every upload file is taken for an orphan.
ListAll(r) ==
  /\ Deploying(r, "list")
  /\ Goes(r, "remove")
  /\ doomed' = [doomed EXCEPT ![r] =
       [bins |-> bin \ {Ver(r)},
        temps |-> {q \in Requests : temp[q] # "absent"}]]
  /\ UNCHANGED <<conn, pool, contact, up, losses, age, remoteVars>>

\* Faulty variant: the binary just verified is not kept.
ListOwn(r) ==
  /\ Deploying(r, "list")
  /\ Goes(r, "remove")
  /\ doomed' = [doomed EXCEPT ![r] = [bins |-> bin, temps |-> OldTemps]]
  /\ UNCHANGED <<conn, pool, contact, up, losses, age, remoteVars>>

\* ls and find: binaries of other versions, upload files past their age.
List(r) ==
  /\ Deploying(r, "list")
  /\ Goes(r, "remove")
  /\ doomed' = [doomed EXCEPT ![r] = [bins |-> bin \ {Ver(r)}, temps |-> OldTemps]]
  /\ UNCHANGED <<conn, pool, contact, up, losses, age, remoteVars>>

\* What `rm -f` does to the directory.
RemoveDoomed(r) ==
  /\ bin' = bin \ doomed[r].bins
  /\ torn' = torn \ doomed[r].bins
  /\ temp' = [q \in Requests |-> IF q \in doomed[r].temps THEN "absent" ELSE temp[q]]

Remove(r) ==
  /\ Deploying(r, "remove")
  /\ Goes(r, "check")
  /\ RemoveDoomed(r)
  /\ UNCHANGED <<conn, pool, contact, up, losses, age, late, doomed>>

\* A cleanup that fails is only logged.
CleanupFails(r) ==
  /\ stage[r] \in {"list", "remove"}
  /\ Goes(r, "check")
  /\ LeaveBehind(r)
  /\ UNCHANGED <<conn, pool, contact, up, losses, age, bin, torn, temp, doomed>>

\* check_serve_version runs the binary.
CheckVersion(r) ==
  /\ Deploying(r, "check")
  /\ Ver(r) \in bin \ torn
  /\ Goes(r, "insert")
  /\ UNCHANGED <<conn, pool, contact, up, losses, age, remoteVars, doomed>>

\* The remote command of a deploy that was given up runs after all.
LateCommand(r) ==
  /\ \/ late[r] = "rename" /\ temp[r] # "absent" /\ MoveTemp(r)
     \/ late[r] = "remove" /\ RemoveDoomed(r)
  /\ late' = [late EXCEPT ![r] = "none"]
  /\ UNCHANGED <<daemonVars, up, losses, doomed>>

\* A first contact in progress is never older than its timeout.
InProgress(r) == stage[r] \in Attempting

Tick(r) ==
  /\ age[r] < IF InProgress(r) THEN DeployTimeout ELSE UploadGc
  /\ InProgress(r) \/ temp[r] # "absent"
  /\ age' = [age EXCEPT ![r] = @ + 1]
  /\ UNCHANGED <<stage, conn, pool, contact, up, losses, remoteVars, doomed>>

(***************************************************************************)
(* handle_exec, after get_or_connect                                       *)
(***************************************************************************)
\* The execution ran: the connection stood and the binary was there.
ExecSucceeds(r) ==
  /\ stage[r] = "using"
  /\ conn[r] \in up
  /\ Ver(r) \in bin
  /\ Goes(r, "done")
  /\ conn' = [conn EXCEPT ![r] = None]
  /\ UNCHANGED <<pool, contact, up, losses, age, remoteVars, doomed>>

\* Any failure: the connection, the binary, the command's own transport.
ExecFails(r) ==
  /\ stage[r] = "using"
  /\ Goes(r, "evict")
  /\ UNCHANGED <<conn, pool, contact, up, losses, age, remoteVars, doomed>>

\* Faulty variant: the entry of the host is removed, whichever connection it is.
EvictAny(r) ==
  LET d == daemonOf[r] IN
  /\ stage[r] = "evict"
  /\ Goes(r, "done")
  /\ pool' = IF conn[r] \notin up THEN [pool EXCEPT ![d] = None] ELSE pool
  /\ conn' = [conn EXCEPT ![r] = None]
  /\ UNCHANGED <<contact, up, losses, age, remoteVars, doomed>>

\* A failed execution whose connection is closed removes it from the map, unless
\* the entry is another connection by now.
Evict(r) ==
  LET d == daemonOf[r] IN
  /\ stage[r] = "evict"
  /\ Goes(r, "done")
  /\ pool' = IF conn[r] \notin up /\ pool[d] = conn[r]
               THEN [pool EXCEPT ![d] = None] ELSE pool
  /\ conn' = [conn EXCEPT ![r] = None]
  /\ UNCHANGED <<contact, up, losses, age, remoteVars, doomed>>

\* A connection dies; its daemon learns of it when it next uses it.
LoseConnection(c) ==
  /\ c \in up
  /\ losses < MaxLosses
  /\ losses' = losses + 1
  /\ up' = up \ {c}
  /\ UNCHANGED <<daemonVars, remoteVars, doomed>>

Deploy(r) ==
  \/ Probe(r) \/ CreateTemp(r) \/ Upload(r) \/ Rename(r) \/ Verify(r)
  \/ List(r) \/ Remove(r) \/ CleanupFails(r) \/ CheckVersion(r)

Contact(r) ==
  \/ Recheck(r) \/ StartContact(r) \/ Connect(r) \/ Insert(r)
  \/ AttemptFails(r) \/ Timeout(r)

Exec(r) == ExecSucceeds(r) \/ ExecFails(r) \/ Evict(r)

Next ==
  \E r \in Requests :
    \/ TakeCached(r) \/ Queue(r) \/ Contact(r) \/ Deploy(r) \/ Exec(r)
    \/ LateCommand(r) \/ Tick(r) \/ LoseConnection(r)

\* What the daemon itself does for a request, its timer included.  Nothing is
\* assumed of the remote host: a connect or a command of a deploy may take for ever.
Own(r) == Recheck(r) \/ StartContact(r) \/ Insert(r) \/ Timeout(r) \/ Tick(r)

Fairness == \A r \in Requests : WF_vars(Own(r))

Spec == Init /\ [][Next]_vars /\ Fairness

(***************************************************************************)
(* Properties                                                              *)
(***************************************************************************)
TypeOK ==
  /\ stage \in [Requests -> Stages]
  /\ conn \in [Requests -> Requests \cup {None}]
  /\ pool \in [Daemons -> Requests \cup {None}]
  /\ contact \in [Daemons -> Seq(Requests)]
  /\ up \subseteq Requests
  /\ losses \in 0..MaxLosses
  /\ age \in [Requests -> 0..UploadGc]
  /\ bin \subseteq Versions
  /\ torn \subseteq bin
  /\ temp \in [Requests -> {"absent", "partial", "whole"}]
  /\ doomed \in [Requests -> [bins : SUBSET Versions, temps : SUBSET Requests]]
  /\ late \in [Requests -> {"none", "rename", "remove"}]

\* No binary is ever incomplete at its path ("no half-written serve binary",
\* remote.rs), and a daemon that has a live cached connection finds the binary of
\* its version at the cached path, whatever deploys, timeouts and late commands
\* run next to it, unless the cleanup of another version has listed it.
CachedBinaryRuns ==
  /\ torn = {}
  /\ \A d \in Daemons :
       Live(d) # None
         => \/ versionOf[d] \in bin
            \/ \E r \in Requests : Ver(r) # versionOf[d] /\ versionOf[d] \in doomed[r].bins

\* The upload file of a first contact in progress is only taken away by its own
\* rename: the stale cleanup of nobody interferes with it ("keeps a concurrent
\* deploy's fresh temp out of the delete set", remote.rs).
UploadInFlightKept ==
  [][\A r \in Requests :
       InProgress(r) /\ temp[r] # "absent" /\ temp'[r] = "absent"
         => stage[r] = "rename" /\ stage'[r] = "verify"]_vars

\* A live connection stays cached: neither a second first contact nor the failure
\* of a request on an older connection puts it out of the map.
LiveConnectionKept ==
  [][\A d \in Daemons :
       Live(d) # None /\ Live(d) \in up' => pool'[d] = pool[d]]_vars

\* A request that waits for a first contact is answered, however the contacts
\* ahead of it hang: each of them ends within its timeout.
ContactEnds ==
  \A r \in Requests :
    (stage[r] = "waiting") ~> (stage[r] \in {"using", "evict", "done", "failed"})
=============================================================================
