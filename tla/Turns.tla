------------------------------- MODULE Turns -------------------------------
(***************************************************************************)
(* What a session promises its commands, without locks, queues, channels   *)
(* or faults: they take turns.  A command that has its turn is given the   *)
(* directory the last successful turn left, acts, and leaves a directory   *)
(* or the old one.  Only a restart of the daemon, which forgets all        *)
(* directories, takes a turn away.                                         *)
(***************************************************************************)
CONSTANTS Cmd, Sess, NoCmd, sessionOf, OwnDir

VARIABLES
  turn,   \* whose turn it is in each session
  phase,  \* of the turn: none, acting, or over and yet to be given back
  seen,   \* the directory the acting command was given
  dir     \* the directory of each session, as the command that left it

vars == <<turn, phase, seen, dir>>

Init ==
  /\ turn = [s \in Sess |-> NoCmd]
  /\ phase = [s \in Sess |-> "none"]
  /\ seen = [s \in Sess |-> NoCmd]
  /\ dir = [s \in Sess |-> NoCmd]

\* The next command has its turn only after the last one gave it back.
Take(s, c) ==
  /\ sessionOf[c] = s
  /\ phase[s] = "none"
  /\ turn' = [turn EXCEPT ![s] = c]
  /\ phase' = [phase EXCEPT ![s] = "acting"]
  /\ seen' = [seen EXCEPT ![s] = IF c \in OwnDir THEN c ELSE dir[s]]
  /\ UNCHANGED dir

\* The command has acted, for better or worse.
Act(s) ==
  /\ phase[s] = "acting"
  /\ phase' = [phase EXCEPT ![s] = "over"]
  /\ seen' = [seen EXCEPT ![s] = NoCmd]
  /\ UNCHANGED <<turn, dir>>

\* The directory it leaves is its own.
Leave(s) ==
  /\ phase[s] = "over"
  /\ dir' = [dir EXCEPT ![s] = turn[s]]
  /\ UNCHANGED <<turn, phase, seen>>

GiveBack(s) ==
  /\ phase[s] = "over"
  /\ turn' = [turn EXCEPT ![s] = NoCmd]
  /\ phase' = [phase EXCEPT ![s] = "none"]
  /\ UNCHANGED <<seen, dir>>

Restart ==
  /\ turn' = [s \in Sess |-> NoCmd]
  /\ phase' = [s \in Sess |-> "none"]
  /\ seen' = [s \in Sess |-> NoCmd]
  /\ dir' = [s \in Sess |-> NoCmd]

Next ==
  \/ \E s \in Sess : Act(s) \/ Leave(s) \/ GiveBack(s) \/ \E c \in Cmd : Take(s, c)
  \/ Restart

Spec == Init /\ [][Next]_vars
=============================================================================
