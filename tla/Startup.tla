------------------------------ MODULE Startup ------------------------------
(***************************************************************************)
(* How clients find or start the daemon, and how it exits when idle:       *)
(* connect_or_spawn and spawn_daemon (src/client.rs), bind, accept and     *)
(* connect on unix (src/transport.rs), run and ActiveGuard                 *)
(* (src/daemon.rs).                                                        *)
(*                                                                         *)
(* Clients and daemons share one thing, the socket path.  It names the     *)
(* socket of the daemon that bound it last, also when that daemon is gone. *)
(* A daemon is named after the client that spawned it; each client makes   *)
(* one connection.  The bind of the standard library is two system calls,  *)
(* and a socket that is bound and does not listen yet refuses connections. *)
(***************************************************************************)
EXTENDS Naturals, FiniteSets

CONSTANTS Clients,    \* clients, each running one command
          Old,        \* a daemon of an earlier time, gone
          None,       \* no daemon, no socket file
          IdleExits,  \* whether SP_IDLE_SECS is set
          MaxKills    \* bound: daemons killed

ASSUME StartupAssumption ==
  /\ IsFiniteSet(Clients)
  /\ Old \notin Clients
  /\ None \notin Clients \cup {Old}
  /\ IdleExits \in BOOLEAN
  /\ MaxKills \in Nat

Daemons == Clients \cup {Old}

Seeking == {"first", "second", "unlink", "spawn", "poll"}
Loop == {"top", "select", "wait"}

VARIABLES
  sock,     \* the daemon whose socket the path names
  cstage,   \* where connect_or_spawn is, for each client, and what comes of it
  peer,     \* the daemon each client is connected to
  link,     \* the connection at the daemon: its guard, once accepted
  dstage,   \* where run is, for each daemon
  armed,    \* the idle deadline of the current turn of the accept loop
  active,   \* the counter of connections, for each daemon
  permit,   \* a stored notification of idle_now
  kills,    \* daemons killed so far
  stolen    \* daemons whose socket file a client has removed while they ran

vars == <<sock, cstage, peer, link, dstage, armed, active, permit, kills, stolen>>

daemonVars == <<dstage, armed, active, permit>>

Init ==
  /\ sock \in {None, Old}
  /\ cstage = [c \in Clients |-> "first"]
  /\ peer = [c \in Clients |-> None]
  /\ link = [c \in Clients |-> "none"]
  /\ dstage = [d \in Daemons |-> IF d = Old THEN "exited" ELSE "none"]
  /\ armed = [d \in Daemons |-> FALSE]
  /\ active = [d \in Daemons |-> 0]
  /\ permit = [d \in Daemons |-> FALSE]
  /\ kills = 0
  /\ stolen = {}

\* A daemon that listens: a connect succeeds, accepted or not.
Listens(d) == dstage[d] \in Loop

\* A process of the daemon exists.
Runs(d) == dstage[d] \in {"starting", "bound"} \cup Loop

(***************************************************************************)
(* The client: connect_or_spawn                                            *)
(***************************************************************************)
Goes(c, to) == cstage' = [cstage EXCEPT ![c] = to]

\* IpcStream::connect: the listener's backlog takes the connection.
ConnectSucceeds(c) ==
  /\ sock # None /\ Listens(sock)
  /\ Goes(c, "connected")
  /\ peer' = [peer EXCEPT ![c] = sock]
  /\ link' = [link EXCEPT ![c] = "backlog"]

\* The file is there and nobody listens.
Refused == sock # None /\ ~Listens(sock)

First(c) ==
  /\ cstage[c] = "first"
  /\ \/ ConnectSucceeds(c)
     \/ /\ sock = None \/ Refused
        /\ Goes(c, "second")
        /\ UNCHANGED <<peer, link>>
  /\ UNCHANGED <<sock, daemonVars, kills, stolen>>

\* Only a refused connection leads to the removal of the socket file.
Second(c) ==
  /\ cstage[c] = "second"
  /\ \/ ConnectSucceeds(c)
     \/ Refused /\ Goes(c, "unlink") /\ UNCHANGED <<peer, link>>
     \/ sock = None /\ Goes(c, "spawn") /\ UNCHANGED <<peer, link>>
  /\ UNCHANGED <<sock, daemonVars, kills, stolen>>

\* remove_file removes whatever is at the path by now.
Unlink(c) ==
  /\ cstage[c] = "unlink"
  /\ Goes(c, "spawn")
  /\ sock' = None
  /\ stolen' = IF sock # None /\ Runs(sock) THEN stolen \cup {sock} ELSE stolen
  /\ UNCHANGED <<peer, link, daemonVars, kills>>

SpawnDaemon(c) ==
  /\ cstage[c] = "spawn"
  /\ \/ /\ Goes(c, "poll")
        /\ dstage' = [dstage EXCEPT ![c] = "starting"]
     \/ Goes(c, "failed") /\ UNCHANGED dstage
  /\ UNCHANGED <<sock, peer, link, armed, active, permit, kills, stolen>>

\* Every 100 ms for 10 s, whoever answers.
Poll(c) ==
  /\ cstage[c] = "poll"
  /\ \/ ConnectSucceeds(c)
     \/ (sock = None \/ Refused) /\ Goes(c, "failed") /\ UNCHANGED <<peer, link>>
  /\ UNCHANGED <<sock, daemonVars, kills, stolen>>

(***************************************************************************)
(* The daemon: run                                                         *)
(***************************************************************************)
\* Faulty variant: a file that is in the way is removed before the bind.
BindAnyway(d) ==
  /\ dstage[d] = "starting"
  /\ sock' = d
  /\ dstage' = [dstage EXCEPT ![d] = "bound"]
  /\ UNCHANGED <<cstage, peer, link, armed, active, permit, kills, stolen>>

\* bind fails if anything is at the path, and then the daemon exits.
Bind(d) ==
  /\ dstage[d] = "starting"
  /\ IF sock = None
       THEN sock' = d /\ dstage' = [dstage EXCEPT ![d] = "bound"]
       ELSE dstage' = [dstage EXCEPT ![d] = "exited"] /\ UNCHANGED sock
  /\ UNCHANGED <<cstage, peer, link, armed, active, permit, kills, stolen>>

Listen(d) ==
  /\ dstage[d] = "bound"
  /\ dstage' = [dstage EXCEPT ![d] = "top"]
  /\ UNCHANGED <<sock, cstage, peer, link, armed, active, permit, kills, stolen>>

\* The top of the loop: a deadline is armed only without connections.
Arm(d) ==
  /\ dstage[d] = "top"
  /\ armed' = [armed EXCEPT ![d] = IdleExits /\ active[d] = 0]
  /\ dstage' = [dstage EXCEPT ![d] = "select"]
  /\ UNCHANGED <<sock, cstage, peer, link, active, permit, kills, stolen>>

\* select! polls its arms: from here on the loop is registered with idle_now.
Wait(d) ==
  /\ dstage[d] = "select"
  /\ dstage' = [dstage EXCEPT ![d] = "wait"]
  /\ UNCHANGED <<sock, cstage, peer, link, armed, active, permit, kills, stolen>>

\* Faulty variant: the loop goes on with the deadline of its last turn.
AcceptStays(d) ==
  /\ dstage[d] = "wait"
  /\ \E c \in Clients :
       /\ peer[c] = d /\ link[c] = "backlog"
       /\ link' = [link EXCEPT ![c] = "open"]
  /\ active' = [active EXCEPT ![d] = @ + 1]
  /\ UNCHANGED <<sock, cstage, peer, dstage, armed, permit, kills, stolen>>

\* Faulty variant: the drop of a guard has no increment to its decrement.
AcceptUncounted(d) ==
  /\ dstage[d] = "wait"
  /\ \E c \in Clients :
       /\ peer[c] = d /\ link[c] = "backlog"
       /\ link' = [link EXCEPT ![c] = "open"]
  /\ dstage' = [dstage EXCEPT ![d] = "top"]
  /\ UNCHANGED <<sock, cstage, peer, armed, active, permit, kills, stolen>>

\* accept, ActiveGuard::acquire, and the connection has a task of its own.
Accept(d) ==
  /\ dstage[d] = "wait"
  /\ \E c \in Clients :
       /\ peer[c] = d /\ link[c] = "backlog"
       /\ link' = [link EXCEPT ![c] = "open"]
  /\ active' = [active EXCEPT ![d] = @ + 1]
  /\ dstage' = [dstage EXCEPT ![d] = "top"]
  /\ UNCHANGED <<sock, cstage, peer, armed, permit, kills, stolen>>

\* The notification is consumed, and the loop looks at the counter again.
Notified(d) ==
  /\ dstage[d] = "wait"
  /\ ~armed[d]
  /\ permit[d]
  /\ permit' = [permit EXCEPT ![d] = FALSE]
  /\ dstage' = [dstage EXCEPT ![d] = "top"]
  /\ UNCHANGED <<sock, cstage, peer, link, armed, active, kills, stolen>>

\* The process ends: the socket file stays, the commands of its connections break.
Ends(d) ==
  /\ dstage' = [dstage EXCEPT ![d] = "exited"]
  /\ cstage' = [c \in Clients |->
       IF peer[c] = d /\ link[c] \in {"backlog", "open"} THEN "broken" ELSE cstage[c]]
  /\ link' = [c \in Clients |-> IF peer[c] = d THEN "gone" ELSE link[c]]
  /\ UNCHANGED <<sock, peer, armed, active, permit, stolen>>

\* The idle deadline has passed.  A connection in the backlog is not seen.
IdleExit(d) ==
  /\ dstage[d] = "wait"
  /\ armed[d]
  /\ Ends(d)
  /\ UNCHANGED kills

Kill(d) ==
  /\ Runs(d)
  /\ kills < MaxKills
  /\ kills' = kills + 1
  /\ Ends(d)

(***************************************************************************)
(* A connection of the daemon: handle_conn under its guard                 *)
(***************************************************************************)
\* handle_conn returns and the guard is dropped: first the counter ...
GuardDrops(c) ==
  LET d == peer[c] IN
  /\ link[c] = "open"
  /\ active' = [active EXCEPT ![d] = @ - 1]
  /\ link' = [link EXCEPT ![c] = IF active[d] = 1 THEN "notify" ELSE "closed"]
  /\ UNCHANGED <<sock, cstage, peer, dstage, armed, permit, kills, stolen>>

\* Faulty variant: notify_waiters wakes the loop only while it waits.
NotifyWaiting(c) ==
  LET d == peer[c] IN
  /\ link[c] = "notify"
  /\ permit' = [permit EXCEPT ![d] = dstage[d] = "wait" /\ ~armed[d]]
  /\ link' = [link EXCEPT ![c] = "closed"]
  /\ UNCHANGED <<sock, cstage, peer, dstage, armed, active, kills, stolen>>

\* ... then, for the last one, notify_one, whose permit is kept.
Notify(c) ==
  LET d == peer[c] IN
  /\ link[c] = "notify"
  /\ permit' = [permit EXCEPT ![d] = TRUE]
  /\ link' = [link EXCEPT ![c] = "closed"]
  /\ UNCHANGED <<sock, cstage, peer, dstage, armed, active, kills, stolen>>

Client(c) == First(c) \/ Second(c) \/ Unlink(c) \/ SpawnDaemon(c) \/ Poll(c)

Daemon(d) ==
  \/ Bind(d) \/ Listen(d) \/ Arm(d) \/ Wait(d)
  \/ Accept(d) \/ Notified(d) \/ IdleExit(d)

Connection(c) == GuardDrops(c) \/ Notify(c)

Next ==
  \/ \E c \in Clients : Client(c) \/ Connection(c)
  \/ \E d \in Daemons : Daemon(d) \/ Kill(d)

\* A process that can run does; the end of a command is up to the command.
Fairness ==
  /\ \A c \in Clients : WF_vars(Client(c)) /\ WF_vars(Notify(c))
  /\ \A d \in Daemons : WF_vars(Daemon(d))

Spec == Init /\ [][Next]_vars /\ Fairness

(***************************************************************************)
(* Properties                                                              *)
(***************************************************************************)
TypeOK ==
  /\ sock \in Daemons \cup {None}
  /\ cstage \in [Clients -> Seeking \cup {"connected", "broken", "failed"}]
  /\ peer \in [Clients -> Daemons \cup {None}]
  /\ link \in [Clients -> {"none", "backlog", "open", "notify", "closed", "gone"}]
  /\ dstage \in [Daemons -> {"none", "starting", "bound", "exited"} \cup Loop]
  /\ armed \in [Daemons -> BOOLEAN]
  /\ active \in [Daemons -> 0..Cardinality(Clients)]
  /\ permit \in [Daemons -> BOOLEAN]
  /\ kills \in 0..MaxKills
  /\ stolen \subseteq Daemons

\* A daemon that runs owns the path, and with it every new connection, unless a
\* client has removed its socket file: nothing else makes a second daemon.
ReachableUnlessStolen ==
  \A d \in Daemons :
    dstage[d] \in {"bound"} \cup Loop => sock = d \/ d \in stolen

\* The idle timer never ends a daemon that is executing a command: when the
\* deadline stands, no guard is held, however accepts and drops interleave.
IdleExitUnused ==
  \A d \in Daemons :
    dstage[d] \in {"select", "wait"} /\ armed[d]
      => ~ \E c \in Clients : peer[c] = d /\ link[c] = "open"

\* A daemon without connections exits in the end, unless new ones come: the drop
\* of the last guard is never missed by the accept loop.
IdleDaemonExits ==
  \A d \in Daemons :
    LET Busy == \E c \in Clients : peer[c] = d /\ link[c] \in {"backlog", "open"}
    IN  IdleExits /\ Listens(d) /\ ~Busy ~> dstage[d] = "exited" \/ Busy

\* "Binds the IPC endpoint exclusively" (daemon.rs), "Fails if another daemon owns
\* it" (transport.rs): two daemons never listen at once for one path.
OneDaemonPerSocket ==
  \A d, e \in Daemons : Listens(d) /\ Listens(e) => d = e
=============================================================================
