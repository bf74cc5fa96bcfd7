--------------------------- MODULE SessionProofs ---------------------------
(***************************************************************************)
(* Theorems about Session, for every set of commands and sessions, every   *)
(* assignment of timeouts and any number of faults.                        *)
(***************************************************************************)
EXTENDS Session, TLAPS

(***************************************************************************)
(* Type correctness                                                        *)
(***************************************************************************)
\* What the lock's queue goes through: a waiter joins, leads, leaves.
LEMMA QueueTypes ==
  ASSUME NEW q \in Seq(Cmd)
  PROVE  /\ \A c \in Cmd : Append(q, c) \in Seq(Cmd)
         /\ q # << >> => Head(q) \in Cmd /\ Tail(q) \in Seq(Cmd)
         /\ \A i \in DOMAIN q : RemoveAt(q, i) \in Seq(Cmd)
<1>1. \A c \in Cmd : Append(q, c) \in Seq(Cmd)
  OBVIOUS
<1>2. q # << >> => Head(q) \in Cmd /\ Tail(q) \in Seq(Cmd)
  OBVIOUS
<1>3. ASSUME NEW i \in DOMAIN q PROVE RemoveAt(q, i) \in Seq(Cmd)
  <2>1. i \in 1 .. Len(q)
    OBVIOUS
  <2>2. SubSeq(q, 1, i-1) \in Seq(Cmd)
    BY <2>1
  <2>3. SubSeq(q, i+1, Len(q)) \in Seq(Cmd)
    BY <2>1
  <2>4. QED
    BY <2>2, <2>3 DEF RemoveAt
<1>4. QED
  BY <1>1, <1>2, <1>3

\* Every variable keeps the shape its comment in Session gives it.
THEOREM TypeCorrect == Spec => []TypeOK
<1>1. Init => TypeOK
  BY SessionAssumption DEF Init, TypeOK, MaybeCmd, TaskStage, ServeStage
<1>2. TypeOK /\ [Next]_vars => TypeOK'
  <2> SUFFICES ASSUME TypeOK, [Next]_vars PROVE TypeOK'
    OBVIOUS
  <2> USE SessionAssumption DEF MaybeCmd, TaskStage, ServeStage
  <2>1. ASSUME NEW c \in Cmd, Enqueue(c) PROVE TypeOK'
    <3>1. sessionOf[c] \in Sess /\ queue[sessionOf[c]] \in Seq(Cmd)
      BY DEF TypeOK
    <3>2. holder' \in [Sess -> MaybeCmd]
      BY <2>1, <3>1 DEF TypeOK, Enqueue
    <3>3. Append(queue[sessionOf[c]], c) \in Seq(Cmd)
      BY <3>1, QueueTypes
    <3> DEFINE longer == Append(queue[sessionOf[c]], c)
    <3>4. \/ queue' = queue
          \/ queue' = [queue EXCEPT ![sessionOf[c]] = longer]
      BY <2>1 DEF Enqueue
    <3>5. queue' \in [Sess -> Seq(Cmd)]
      <4> HIDE DEF longer
      <4>1. longer \in Seq(Cmd)
        BY <3>3 DEF longer
      <4>2. QED
        BY <3>1, <3>4, <4>1 DEF TypeOK
    <3>6. QED
      BY <2>1, <3>2, <3>5 DEF TypeOK, Enqueue, remoteVars, faultVars
  <2>2. ASSUME NEW c \in Cmd, Refuse(c) PROVE TypeOK'
    BY <2>2, SMT DEF TypeOK, Refuse, daemonVars, remoteVars, faultVars
  <2>3. ASSUME NEW c \in Cmd, WarnAndRequeue(c) PROVE TypeOK'
    <3>1. sessionOf[c] \in Sess /\ queue[sessionOf[c]] \in Seq(Cmd)
      BY DEF TypeOK
    <3>2. PICK i \in DOMAIN queue[sessionOf[c]] :
            queue' = [queue EXCEPT ![sessionOf[c]] =
                        Append(RemoveAt(queue[sessionOf[c]], i), c)]
      BY <2>3 DEF WarnAndRequeue
    <3>3. RemoveAt(queue[sessionOf[c]], i) \in Seq(Cmd)
      BY <3>1, QueueTypes
    <3>4. Append(RemoveAt(queue[sessionOf[c]], i), c) \in Seq(Cmd)
      BY <3>3, QueueTypes
    <3>5. queue' \in [Sess -> Seq(Cmd)]
      BY <3>1, <3>2, <3>4 DEF TypeOK
    <3>6. QED
      BY <2>3, <3>5 DEF WarnAndRequeue, TypeOK, daemonVars, remoteVars, faultVars
  <2>4. ASSUME NEW c \in Cmd, Begin(c) PROVE TypeOK'
    BY <2>4, SMT DEF TypeOK, Begin, daemonVars, remoteVars, faultVars
  <2>5. ASSUME NEW c \in Cmd, Open(c) PROVE TypeOK'
    BY <2>5, SMT DEF TypeOK, Open, daemonVars, remoteVars, faultVars
  <2>6. ASSUME NEW c \in Cmd, OpenFails(c) PROVE TypeOK'
    BY <2>6, SMT DEF TypeOK, OpenFails, EndEngine, daemonVars, remoteVars, faultVars
  <2>7. ASSUME NEW c \in Cmd, EngineReports(c) PROVE TypeOK'
    BY <2>7, SMT DEF TypeOK, EngineReports, EndEngine, daemonVars, remoteVars, faultVars
  <2>8. ASSUME NEW c \in Cmd, EngineFails(c) PROVE TypeOK'
    BY <2>8, SMT DEF TypeOK, EngineFails, EndEngine, daemonVars, remoteVars, faultVars
  <2>9. ASSUME NEW c \in Cmd, Watchdog(c) PROVE TypeOK'
    BY <2>9, SMT DEF TypeOK, Watchdog, EndEngine, daemonVars, remoteVars, faultVars
  <2>10. ASSUME NEW c \in Cmd, Fatal(c) PROVE TypeOK'
    BY <2>10, SMT DEF TypeOK, Fatal, EndEngine, daemonVars, remoteVars, faultVars
  <2>11. ASSUME NEW c \in Cmd, Settle(c) PROVE TypeOK'
    BY <2>11, SMT DEF TypeOK, Settle, daemonVars, remoteVars, faultVars
  <2>12. ASSUME NEW c \in Cmd, Reply(c) PROVE TypeOK'
    <3>1. sessionOf[c] \in Sess /\ queue[sessionOf[c]] \in Seq(Cmd)
      BY DEF TypeOK
    <3>2. holder' \in [Sess -> MaybeCmd] /\ queue' \in [Sess -> Seq(Cmd)]
      BY <2>12, <3>1, QueueTypes DEF TypeOK, Reply, NextHolder, NextQueue
    <3>3. QED
      BY <2>12, <3>2 DEF TypeOK, Reply, NextHolder, NextQueue, remoteVars, faultVars
  <2>13. ASSUME NEW c \in Cmd, ClientStalls(c) PROVE TypeOK'
    BY <2>13, SMT DEF TypeOK, ClientStalls, daemonVars, remoteVars, faultVars
  <2>14. ASSUME NEW c \in Cmd, ClientResumes(c) PROVE TypeOK'
    BY <2>14, SMT DEF TypeOK, ClientResumes, daemonVars, remoteVars, faultVars
  <2>15. ASSUME NEW c \in Cmd, ClientLeaves(c) PROVE TypeOK'
    BY <2>15, SMT DEF TypeOK, ClientLeaves, daemonVars, remoteVars, faultVars
  <2>16. ASSUME NEW c \in Cmd, LoadAndSpawn(c) PROVE TypeOK'
    BY <2>16, SMT DEF TypeOK, LoadAndSpawn, ServeGoes, daemonVars, remoteVars, faultVars
  <2>17. ASSUME NEW c \in Cmd, SpawnFails(c) PROVE TypeOK'
    BY <2>17, SMT DEF TypeOK, SpawnFails, ServeGoes, daemonVars, remoteVars, faultVars
  <2>18. ASSUME NEW c \in Cmd, CommandEnds(c) PROVE TypeOK'
    BY <2>18, SMT DEF TypeOK, CommandEnds, ServeGoes, daemonVars, remoteVars, faultVars
  <2>19. ASSUME NEW c \in Cmd, SeesClose(c) PROVE TypeOK'
    BY <2>19, SMT DEF TypeOK, SeesClose, ServeEnds, daemonVars, remoteVars, faultVars
  <2>20. ASSUME NEW c \in Cmd, SaveState(c) PROVE TypeOK'
    BY <2>20, SMT DEF TypeOK, SaveState, ServeGoes, daemonVars, remoteVars, faultVars
  <2>21. ASSUME NEW c \in Cmd, SendExit(c) PROVE TypeOK'
    BY <2>21, SMT DEF TypeOK, SendExit, ServeEnds, daemonVars, remoteVars, faultVars
  <2>22. ASSUME NEW c \in Cmd, ServeDies(c) PROVE TypeOK'
    BY <2>22, SMT DEF TypeOK, ServeDies, ServeEnds, daemonVars, remoteVars, faultVars
  <2>23. CASE LoseConnection
    BY <2>23 DEF TypeOK, LoseConnection, daemonVars, remoteVars
  <2>24. CASE DaemonCrash
    BY <2>24 DEF TypeOK, DaemonCrash, remoteVars
  <2>25. CASE UNCHANGED vars
    BY <2>25 DEF TypeOK, vars, daemonVars, remoteVars, faultVars
  <2>27. ASSUME NEW c \in Cmd, SaveFails(c) PROVE TypeOK'
    BY <2>27, SMT DEF TypeOK, SaveFails, ServeGoes, daemonVars, remoteVars, faultVars
  <2>26. QED
    BY <2>1, <2>2, <2>3, <2>4, <2>5, <2>6, <2>7, <2>8, <2>9, <2>10, <2>11, <2>12, <2>13, <2>14, <2>15, <2>16, <2>17, <2>18, <2>19, <2>20, <2>21, <2>22, <2>23, <2>24, <2>25, <2>27 DEF Next, TaskStep, ClientStep, ServeStep
<1>3. QED
  BY <1>1, <1>2, PTL DEF Spec

(***************************************************************************)
(* Mutual exclusion in the daemon                                          *)
(***************************************************************************)
\* Whoever works in a session owns its lock.
LockOwned == \A c \in Cmd : task[c] \in Critical => holder[sessionOf[c]] = c

\* Every step of the daemon leaves the locks with their owners.
LEMMA LockOwnedStep ==
  TypeOK /\ LockOwned /\ [Next]_vars => LockOwned'
  <1> SUFFICES ASSUME TypeOK, LockOwned, [Next]_vars PROVE LockOwned'
    OBVIOUS
  <1> USE SessionAssumption
  <1>1. ASSUME NEW c \in Cmd, Enqueue(c) PROVE LockOwned'
    BY <1>1 DEF LockOwned, Critical, TypeOK, Enqueue, daemonVars, remoteVars, faultVars
  <1>2. ASSUME NEW c \in Cmd, Refuse(c) PROVE LockOwned'
    BY <1>2 DEF LockOwned, Critical, TypeOK, Refuse, daemonVars, remoteVars, faultVars
  <1>3. ASSUME NEW c \in Cmd, WarnAndRequeue(c) PROVE LockOwned'
    BY <1>3 DEF LockOwned, Critical, TypeOK, WarnAndRequeue, daemonVars, remoteVars, faultVars
  <1>4. ASSUME NEW c \in Cmd, Begin(c) PROVE LockOwned'
    BY <1>4 DEF LockOwned, Critical, TypeOK, Begin, daemonVars, remoteVars, faultVars
  <1>5. ASSUME NEW c \in Cmd, Open(c) PROVE LockOwned'
    BY <1>5 DEF LockOwned, Critical, TypeOK, Open, daemonVars, remoteVars, faultVars
  <1>6. ASSUME NEW c \in Cmd, OpenFails(c) PROVE LockOwned'
    BY <1>6 DEF LockOwned, Critical, TypeOK, OpenFails, EndEngine, daemonVars, remoteVars, faultVars
  <1>7. ASSUME NEW c \in Cmd, EngineReports(c) PROVE LockOwned'
    BY <1>7 DEF LockOwned, Critical, TypeOK, EngineReports, EndEngine, daemonVars, remoteVars, faultVars
  <1>8. ASSUME NEW c \in Cmd, EngineFails(c) PROVE LockOwned'
    BY <1>8 DEF LockOwned, Critical, TypeOK, EngineFails, EndEngine, daemonVars, remoteVars, faultVars
  <1>9. ASSUME NEW c \in Cmd, Watchdog(c) PROVE LockOwned'
    BY <1>9 DEF LockOwned, Critical, TypeOK, Watchdog, EndEngine, EngineAlive, daemonVars, remoteVars, faultVars
  <1>10. ASSUME NEW c \in Cmd, Fatal(c) PROVE LockOwned'
    BY <1>10 DEF LockOwned, Critical, TypeOK, Fatal, EndEngine, EngineAlive, daemonVars, remoteVars, faultVars
  <1>11. ASSUME NEW c \in Cmd, Settle(c) PROVE LockOwned'
    BY <1>11 DEF LockOwned, Critical, TypeOK, Settle, daemonVars, remoteVars, faultVars
  <1>12. ASSUME NEW c \in Cmd, Reply(c) PROVE LockOwned'
    <2> SUFFICES ASSUME NEW d \in Cmd, task'[d] \in Critical
                 PROVE  holder'[sessionOf[d]] = d
      BY DEF LockOwned
    <2>1. task[c] = "replying" /\ task[c] \in Critical /\ d # c /\ task[d] \in Critical
      BY <1>12 DEF Reply, Critical, TypeOK
    <2>2. holder[sessionOf[c]] = c /\ holder[sessionOf[d]] = d
      BY <2>1 DEF LockOwned
    <2>3. sessionOf[d] # sessionOf[c]
      BY <2>1, <2>2
    <2>4. QED
      BY <1>12, <2>2, <2>3 DEF Reply, TypeOK
  <1>13. ASSUME NEW c \in Cmd, ClientStalls(c) PROVE LockOwned'
    BY <1>13 DEF LockOwned, Critical, TypeOK, ClientStalls, daemonVars, remoteVars, faultVars
  <1>14. ASSUME NEW c \in Cmd, ClientResumes(c) PROVE LockOwned'
    BY <1>14 DEF LockOwned, Critical, TypeOK, ClientResumes, daemonVars, remoteVars, faultVars
  <1>15. ASSUME NEW c \in Cmd, ClientLeaves(c) PROVE LockOwned'
    BY <1>15 DEF LockOwned, Critical, TypeOK, ClientLeaves, daemonVars, remoteVars, faultVars
  <1>16. ASSUME NEW c \in Cmd, LoadAndSpawn(c) PROVE LockOwned'
    BY <1>16 DEF LockOwned, Critical, TypeOK, LoadAndSpawn, ServeGoes, daemonVars, remoteVars, faultVars
  <1>17. ASSUME NEW c \in Cmd, SpawnFails(c) PROVE LockOwned'
    BY <1>17 DEF LockOwned, Critical, TypeOK, SpawnFails, ServeGoes, daemonVars, remoteVars, faultVars
  <1>18. ASSUME NEW c \in Cmd, CommandEnds(c) PROVE LockOwned'
    BY <1>18 DEF LockOwned, Critical, TypeOK, CommandEnds, ServeGoes, daemonVars, remoteVars, faultVars
  <1>19. ASSUME NEW c \in Cmd, SeesClose(c) PROVE LockOwned'
    BY <1>19 DEF LockOwned, Critical, TypeOK, SeesClose, ServeEnds, daemonVars, remoteVars, faultVars
  <1>20. ASSUME NEW c \in Cmd, SaveState(c) PROVE LockOwned'
    BY <1>20 DEF LockOwned, Critical, TypeOK, SaveState, ServeGoes, daemonVars, remoteVars, faultVars
  <1>21. ASSUME NEW c \in Cmd, SendExit(c) PROVE LockOwned'
    BY <1>21 DEF LockOwned, Critical, TypeOK, SendExit, ServeEnds, ChannelClosed, EngineAlive, daemonVars, remoteVars, faultVars
  <1>22. ASSUME NEW c \in Cmd, ServeDies(c) PROVE LockOwned'
    BY <1>22 DEF LockOwned, Critical, TypeOK, ServeDies, ServeEnds, daemonVars, remoteVars, faultVars
  <1>23. CASE LoseConnection
    BY <1>23 DEF LockOwned, Critical, TypeOK, LoseConnection, daemonVars, remoteVars, faultVars
  <1>24. CASE DaemonCrash
    BY <1>24 DEF LockOwned, Critical, TypeOK, DaemonCrash, daemonVars, remoteVars, faultVars
  <1>25. CASE UNCHANGED vars
    BY <1>25 DEF LockOwned, Critical, TypeOK, vars, daemonVars, remoteVars, faultVars
  <1>27. ASSUME NEW c \in Cmd, SaveFails(c) PROVE LockOwned'
    BY <1>27 DEF LockOwned, Critical, TypeOK, SaveFails, ServeGoes, daemonVars, remoteVars, faultVars
  <1>26. QED
    BY <1>1, <1>2, <1>3, <1>4, <1>5, <1>6, <1>7, <1>8, <1>9, <1>10, <1>11, <1>12, <1>13, <1>14, <1>15, <1>16, <1>17, <1>18, <1>19, <1>20, <1>21, <1>22, <1>23, <1>24, <1>25, <1>27 DEF Next, TaskStep, ClientStep, ServeStep

\* Whoever works in a session owns its lock: the invariant behind every theorem below.
THEOREM LockAlwaysOwned == Spec => []LockOwned
<1>1. Init => LockOwned
  BY DEF Init, LockOwned, Critical
<1>2. QED
  BY <1>1, LockOwnedStep, TypeCorrect, PTL DEF Spec

\* The commands of a session run one at a time in the daemon.
THEOREM MutualExclusion == Spec => []OneCommandPerSession
<1>1. LockOwned => OneCommandPerSession
  BY DEF LockOwned, OneCommandPerSession
<1>2. QED
  BY <1>1, LockAlwaysOwned, PTL

\* The directory sent with an execution stays the session's directory while the
\* execution lasts: only the owner of the lock updates it, at its end.
THEOREM StartDirNeverStale == Spec => []StartDirIsCurrent
<1>1. Init => StartDirIsCurrent
  BY DEF Init, StartDirIsCurrent, EngineAlive
<1>2. TypeOK /\ LockOwned /\ StartDirIsCurrent /\ [Next]_vars => StartDirIsCurrent'
  <2> SUFFICES ASSUME TypeOK, LockOwned, StartDirIsCurrent, [Next]_vars
               PROVE  StartDirIsCurrent'
    OBVIOUS
  <2> USE SessionAssumption
  <2>1. ASSUME NEW c \in Cmd, Enqueue(c) PROVE StartDirIsCurrent'
    BY <2>1 DEF StartDirIsCurrent, EngineAlive, TypeOK, Enqueue, daemonVars, remoteVars, faultVars
  <2>2. ASSUME NEW c \in Cmd, Refuse(c) PROVE StartDirIsCurrent'
    BY <2>2 DEF StartDirIsCurrent, EngineAlive, TypeOK, Refuse, daemonVars, remoteVars, faultVars
  <2>3. ASSUME NEW c \in Cmd, WarnAndRequeue(c) PROVE StartDirIsCurrent'
    BY <2>3 DEF StartDirIsCurrent, EngineAlive, TypeOK, WarnAndRequeue, daemonVars, remoteVars, faultVars
  <2>4. ASSUME NEW c \in Cmd, Begin(c) PROVE StartDirIsCurrent'
    BY <2>4 DEF StartDirIsCurrent, EngineAlive, TypeOK, Begin, daemonVars, remoteVars, faultVars
  <2>5. ASSUME NEW c \in Cmd, Open(c) PROVE StartDirIsCurrent'
    BY <2>5 DEF StartDirIsCurrent, EngineAlive, TypeOK, Open, daemonVars, remoteVars, faultVars
  <2>6. ASSUME NEW c \in Cmd, OpenFails(c) PROVE StartDirIsCurrent'
    BY <2>6 DEF StartDirIsCurrent, EngineAlive, TypeOK, OpenFails, EndEngine, daemonVars, remoteVars, faultVars
  <2>7. ASSUME NEW c \in Cmd, EngineReports(c) PROVE StartDirIsCurrent'
    BY <2>7 DEF StartDirIsCurrent, EngineAlive, TypeOK, EngineReports, EndEngine, daemonVars, remoteVars, faultVars
  <2>8. ASSUME NEW c \in Cmd, EngineFails(c) PROVE StartDirIsCurrent'
    BY <2>8 DEF StartDirIsCurrent, EngineAlive, TypeOK, EngineFails, EndEngine, daemonVars, remoteVars, faultVars
  <2>9. ASSUME NEW c \in Cmd, Watchdog(c) PROVE StartDirIsCurrent'
    BY <2>9 DEF StartDirIsCurrent, EngineAlive, TypeOK, Watchdog, EndEngine, EngineAlive, daemonVars, remoteVars, faultVars
  <2>10. ASSUME NEW c \in Cmd, Fatal(c) PROVE StartDirIsCurrent'
    BY <2>10 DEF StartDirIsCurrent, EngineAlive, TypeOK, Fatal, EndEngine, EngineAlive, daemonVars, remoteVars, faultVars
  <2>11. ASSUME NEW c \in Cmd, Settle(c) PROVE StartDirIsCurrent'
    <3> SUFFICES ASSUME NEW d \in Cmd \ OwnDir, EngineAlive(d)'
                 PROVE  startDir'[d] = bucket'[sessionOf[d]]
      BY DEF StartDirIsCurrent
    <3>1. task[c] \in Critical /\ d # c /\ EngineAlive(d) /\ task[d] \in Critical
      BY <2>11 DEF Settle, EngineAlive, Critical, TypeOK
    <3>2. sessionOf[d] # sessionOf[c]
      BY <3>1 DEF LockOwned
    <3>3. startDir[d] = bucket[sessionOf[d]]
      BY <3>1 DEF StartDirIsCurrent
    <3>4. QED
      BY <2>11, <3>2, <3>3 DEF Settle, TypeOK
  <2>12. ASSUME NEW c \in Cmd, Reply(c) PROVE StartDirIsCurrent'
    BY <2>12 DEF StartDirIsCurrent, EngineAlive, TypeOK, Reply, daemonVars, remoteVars, faultVars
  <2>13. ASSUME NEW c \in Cmd, ClientStalls(c) PROVE StartDirIsCurrent'
    BY <2>13 DEF StartDirIsCurrent, EngineAlive, TypeOK, ClientStalls, daemonVars, remoteVars, faultVars
  <2>14. ASSUME NEW c \in Cmd, ClientResumes(c) PROVE StartDirIsCurrent'
    BY <2>14 DEF StartDirIsCurrent, EngineAlive, TypeOK, ClientResumes, daemonVars, remoteVars, faultVars
  <2>15. ASSUME NEW c \in Cmd, ClientLeaves(c) PROVE StartDirIsCurrent'
    BY <2>15 DEF StartDirIsCurrent, EngineAlive, TypeOK, ClientLeaves, daemonVars, remoteVars, faultVars
  <2>16. ASSUME NEW c \in Cmd, LoadAndSpawn(c) PROVE StartDirIsCurrent'
    BY <2>16 DEF StartDirIsCurrent, EngineAlive, TypeOK, LoadAndSpawn, ServeGoes, daemonVars, remoteVars, faultVars
  <2>17. ASSUME NEW c \in Cmd, SpawnFails(c) PROVE StartDirIsCurrent'
    BY <2>17 DEF StartDirIsCurrent, EngineAlive, TypeOK, SpawnFails, ServeGoes, daemonVars, remoteVars, faultVars
  <2>18. ASSUME NEW c \in Cmd, CommandEnds(c) PROVE StartDirIsCurrent'
    BY <2>18 DEF StartDirIsCurrent, EngineAlive, TypeOK, CommandEnds, ServeGoes, daemonVars, remoteVars, faultVars
  <2>19. ASSUME NEW c \in Cmd, SeesClose(c) PROVE StartDirIsCurrent'
    BY <2>19 DEF StartDirIsCurrent, EngineAlive, TypeOK, SeesClose, ServeEnds, daemonVars, remoteVars, faultVars
  <2>20. ASSUME NEW c \in Cmd, SaveState(c) PROVE StartDirIsCurrent'
    BY <2>20 DEF StartDirIsCurrent, EngineAlive, TypeOK, SaveState, ServeGoes, daemonVars, remoteVars, faultVars
  <2>21. ASSUME NEW c \in Cmd, SendExit(c) PROVE StartDirIsCurrent'
    BY <2>21 DEF StartDirIsCurrent, EngineAlive, TypeOK, SendExit, ServeEnds, ChannelClosed, EngineAlive, daemonVars, remoteVars, faultVars
  <2>22. ASSUME NEW c \in Cmd, ServeDies(c) PROVE StartDirIsCurrent'
    BY <2>22 DEF StartDirIsCurrent, EngineAlive, TypeOK, ServeDies, ServeEnds, daemonVars, remoteVars, faultVars
  <2>23. CASE LoseConnection
    BY <2>23 DEF StartDirIsCurrent, EngineAlive, TypeOK, LoseConnection, daemonVars, remoteVars, faultVars
  <2>24. CASE DaemonCrash
    BY <2>24 DEF StartDirIsCurrent, EngineAlive, TypeOK, DaemonCrash, daemonVars, remoteVars, faultVars
  <2>25. CASE UNCHANGED vars
    BY <2>25 DEF StartDirIsCurrent, EngineAlive, TypeOK, vars, daemonVars, remoteVars, faultVars
  <2>27. ASSUME NEW c \in Cmd, SaveFails(c) PROVE StartDirIsCurrent'
    BY <2>27 DEF StartDirIsCurrent, EngineAlive, TypeOK, SaveFails, ServeGoes, daemonVars, remoteVars, faultVars
  <2>26. QED
    BY <2>1, <2>2, <2>3, <2>4, <2>5, <2>6, <2>7, <2>8, <2>9, <2>10, <2>11, <2>12, <2>13, <2>14, <2>15, <2>16, <2>17, <2>18, <2>19, <2>20, <2>21, <2>22, <2>23, <2>24, <2>25, <2>27 DEF Next, TaskStep, ClientStep, ServeStep
<1>3. QED
  BY <1>1, <1>2, LockAlwaysOwned, TypeCorrect, PTL DEF Spec

(***************************************************************************)
(* The remote processes of one session                                     *)
(***************************************************************************)
\* How the stages of the daemon's task and of sp-serve go together.
Lifecycle ==
  \A c \in Cmd :
    /\ task[c] \in {"idle", "queued", "opening"}
         => serve[c] = "none" /\ outcome[c] = "none"
    /\ task[c] = "running" => serve[c] # "none" /\ outcome[c] = "none"
    /\ task[c] \in {"unwinding", "replying", "done"} => outcome[c] \in {"ok", "err"}
    /\ outcome[c] = "ok" => c \in inbox
    /\ c \in inbox => serve[c] = "gone"

\* Every step of a command, its process and its faults respects the lifecycle.
LEMMA LifecycleStep ==
  TypeOK /\ Lifecycle /\ [Next]_vars => Lifecycle'
  <1> SUFFICES ASSUME TypeOK, Lifecycle, [Next]_vars PROVE Lifecycle'
    OBVIOUS
  <1> USE SessionAssumption
  <1>1. ASSUME NEW c \in Cmd, Enqueue(c) PROVE Lifecycle'
    BY <1>1 DEF Lifecycle, TypeOK, Enqueue, daemonVars, remoteVars, faultVars
  <1>2. ASSUME NEW c \in Cmd, Refuse(c) PROVE Lifecycle'
    BY <1>2 DEF Lifecycle, TypeOK, Refuse, daemonVars, remoteVars, faultVars
  <1>3. ASSUME NEW c \in Cmd, WarnAndRequeue(c) PROVE Lifecycle'
    BY <1>3 DEF Lifecycle, TypeOK, WarnAndRequeue, daemonVars, remoteVars, faultVars
  <1>4. ASSUME NEW c \in Cmd, Begin(c) PROVE Lifecycle'
    BY <1>4 DEF Lifecycle, TypeOK, Begin, daemonVars, remoteVars, faultVars
  <1>5. ASSUME NEW c \in Cmd, Open(c) PROVE Lifecycle'
    BY <1>5 DEF Lifecycle, TypeOK, Open, daemonVars, remoteVars, faultVars
  <1>6. ASSUME NEW c \in Cmd, OpenFails(c) PROVE Lifecycle'
    BY <1>6 DEF Lifecycle, TypeOK, OpenFails, EndEngine, daemonVars, remoteVars, faultVars
  <1>7. ASSUME NEW c \in Cmd, EngineReports(c) PROVE Lifecycle'
    BY <1>7 DEF Lifecycle, TypeOK, EngineReports, EndEngine, daemonVars, remoteVars, faultVars
  <1>8. ASSUME NEW c \in Cmd, EngineFails(c) PROVE Lifecycle'
    BY <1>8 DEF Lifecycle, TypeOK, EngineFails, EndEngine, daemonVars, remoteVars, faultVars
  <1>9. ASSUME NEW c \in Cmd, Watchdog(c) PROVE Lifecycle'
    BY <1>9 DEF Lifecycle, TypeOK, Watchdog, EndEngine, EngineAlive, daemonVars, remoteVars, faultVars
  <1>10. ASSUME NEW c \in Cmd, Fatal(c) PROVE Lifecycle'
    BY <1>10 DEF Lifecycle, TypeOK, Fatal, EndEngine, EngineAlive, daemonVars, remoteVars, faultVars
  <1>11. ASSUME NEW c \in Cmd, Settle(c) PROVE Lifecycle'
    BY <1>11 DEF Lifecycle, TypeOK, Settle, daemonVars, remoteVars, faultVars
  <1>12. ASSUME NEW c \in Cmd, Reply(c) PROVE Lifecycle'
    BY <1>12 DEF Lifecycle, TypeOK, Reply, daemonVars, remoteVars, faultVars
  <1>13. ASSUME NEW c \in Cmd, ClientStalls(c) PROVE Lifecycle'
    BY <1>13 DEF Lifecycle, TypeOK, ClientStalls, daemonVars, remoteVars, faultVars
  <1>14. ASSUME NEW c \in Cmd, ClientResumes(c) PROVE Lifecycle'
    BY <1>14 DEF Lifecycle, TypeOK, ClientResumes, daemonVars, remoteVars, faultVars
  <1>15. ASSUME NEW c \in Cmd, ClientLeaves(c) PROVE Lifecycle'
    BY <1>15 DEF Lifecycle, TypeOK, ClientLeaves, daemonVars, remoteVars, faultVars
  <1>16. ASSUME NEW c \in Cmd, LoadAndSpawn(c) PROVE Lifecycle'
    BY <1>16 DEF Lifecycle, TypeOK, LoadAndSpawn, ServeGoes, daemonVars, remoteVars, faultVars
  <1>17. ASSUME NEW c \in Cmd, SpawnFails(c) PROVE Lifecycle'
    BY <1>17 DEF Lifecycle, TypeOK, SpawnFails, ServeGoes, daemonVars, remoteVars, faultVars
  <1>18. ASSUME NEW c \in Cmd, CommandEnds(c) PROVE Lifecycle'
    BY <1>18 DEF Lifecycle, TypeOK, CommandEnds, ServeGoes, daemonVars, remoteVars, faultVars
  <1>19. ASSUME NEW c \in Cmd, SeesClose(c) PROVE Lifecycle'
    BY <1>19 DEF Lifecycle, TypeOK, SeesClose, ServeEnds, daemonVars, remoteVars, faultVars
  <1>20. ASSUME NEW c \in Cmd, SaveState(c) PROVE Lifecycle'
    BY <1>20 DEF Lifecycle, TypeOK, SaveState, ServeGoes, daemonVars, remoteVars, faultVars
  <1>21. ASSUME NEW c \in Cmd, SendExit(c) PROVE Lifecycle'
    BY <1>21 DEF Lifecycle, TypeOK, SendExit, ServeEnds, ChannelClosed, EngineAlive, daemonVars, remoteVars, faultVars
  <1>22. ASSUME NEW c \in Cmd, ServeDies(c) PROVE Lifecycle'
    BY <1>22 DEF Lifecycle, TypeOK, ServeDies, ServeEnds, daemonVars, remoteVars, faultVars
  <1>23. CASE LoseConnection
    BY <1>23 DEF Lifecycle, TypeOK, LoseConnection, daemonVars, remoteVars, faultVars
  <1>24. CASE DaemonCrash
    BY <1>24 DEF Lifecycle, TypeOK, DaemonCrash, daemonVars, remoteVars, faultVars
  <1>25. CASE UNCHANGED vars
    BY <1>25 DEF Lifecycle, TypeOK, vars, daemonVars, remoteVars, faultVars
  <1>27. ASSUME NEW c \in Cmd, SaveFails(c) PROVE Lifecycle'
    BY <1>27 DEF Lifecycle, TypeOK, SaveFails, ServeGoes, daemonVars, remoteVars, faultVars
  <1>26. QED
    BY <1>1, <1>2, <1>3, <1>4, <1>5, <1>6, <1>7, <1>8, <1>9, <1>10, <1>11, <1>12, <1>13, <1>14, <1>15, <1>16, <1>17, <1>18, <1>19, <1>20, <1>21, <1>22, <1>23, <1>24, <1>25, <1>27 DEF Next, TaskStep, ClientStep, ServeStep

\* A successful outcome was reported by a process that is gone since.
THEOREM LifecycleHolds == Spec => []Lifecycle
<1>1. Init => Lifecycle
  BY DEF Init, Lifecycle
<1>2. QED
  BY <1>1, LifecycleStep, TypeCorrect, PTL DEF Spec

\* A process at work whose command was not given up is the one the daemon awaits.
LEMMA BusyIsRunning ==
  ASSUME TypeOK, Lifecycle, NEW c \in Cmd, ServeBusy(c), ~Abandoned(c)
  PROVE  task[c] = "running"
  BY DEF TypeOK, TaskStage, Lifecycle, ServeBusy, Abandoned

\* Two processes at work and both awaited would both own the lock.
LEMMA OverlapFollows ==
  TypeOK /\ LockOwned /\ Lifecycle => OverlapNeedsAbandoned
  BY BusyIsRunning DEF LockOwned, Critical, OverlapNeedsAbandoned

\* Remote executions of a session overlap only if one of them was given up: the
\* state is saved before the report, and the report precedes the next command.
THEOREM NoOverlapUnlessAbandoned == Spec => []OverlapNeedsAbandoned
  BY OverlapFollows, TypeCorrect, LockAlwaysOwned, LifecycleHolds, PTL

(***************************************************************************)
(* The state a command starts from                                         *)
(***************************************************************************)
\* An execution given up stays given up.
LEMMA AbandonedStable ==
  ASSUME TypeOK, Lifecycle, [Next]_vars, NEW x \in Cmd, Abandoned(x)
  PROVE  Abandoned(x)'
  <1> USE SessionAssumption
  <1>1. ASSUME NEW c \in Cmd, Enqueue(c) PROVE Abandoned(x)'
    BY <1>1 DEF Abandoned, Lifecycle, TypeOK, Enqueue, daemonVars, remoteVars, faultVars
  <1>2. ASSUME NEW c \in Cmd, Refuse(c) PROVE Abandoned(x)'
    BY <1>2 DEF Abandoned, Lifecycle, TypeOK, Refuse, daemonVars, remoteVars, faultVars
  <1>3. ASSUME NEW c \in Cmd, WarnAndRequeue(c) PROVE Abandoned(x)'
    BY <1>3 DEF Abandoned, Lifecycle, TypeOK, WarnAndRequeue, daemonVars, remoteVars, faultVars
  <1>4. ASSUME NEW c \in Cmd, Begin(c) PROVE Abandoned(x)'
    BY <1>4 DEF Abandoned, Lifecycle, TypeOK, Begin, daemonVars, remoteVars, faultVars
  <1>5. ASSUME NEW c \in Cmd, Open(c) PROVE Abandoned(x)'
    BY <1>5 DEF Abandoned, Lifecycle, TypeOK, Open, daemonVars, remoteVars, faultVars
  <1>6. ASSUME NEW c \in Cmd, OpenFails(c) PROVE Abandoned(x)'
    BY <1>6 DEF Abandoned, Lifecycle, TypeOK, OpenFails, EndEngine, daemonVars, remoteVars, faultVars
  <1>7. ASSUME NEW c \in Cmd, EngineReports(c) PROVE Abandoned(x)'
    BY <1>7 DEF Abandoned, Lifecycle, TypeOK, EngineReports, EndEngine, daemonVars, remoteVars, faultVars
  <1>8. ASSUME NEW c \in Cmd, EngineFails(c) PROVE Abandoned(x)'
    BY <1>8 DEF Abandoned, Lifecycle, TypeOK, EngineFails, EndEngine, daemonVars, remoteVars, faultVars
  <1>9. ASSUME NEW c \in Cmd, Watchdog(c) PROVE Abandoned(x)'
    BY <1>9 DEF Abandoned, Lifecycle, TypeOK, Watchdog, EndEngine, EngineAlive, daemonVars, remoteVars, faultVars
  <1>10. ASSUME NEW c \in Cmd, Fatal(c) PROVE Abandoned(x)'
    BY <1>10 DEF Abandoned, Lifecycle, TypeOK, Fatal, EndEngine, EngineAlive, daemonVars, remoteVars, faultVars
  <1>11. ASSUME NEW c \in Cmd, Settle(c) PROVE Abandoned(x)'
    BY <1>11 DEF Abandoned, Lifecycle, TypeOK, Settle, daemonVars, remoteVars, faultVars
  <1>12. ASSUME NEW c \in Cmd, Reply(c) PROVE Abandoned(x)'
    BY <1>12 DEF Abandoned, Lifecycle, TypeOK, Reply, daemonVars, remoteVars, faultVars
  <1>13. ASSUME NEW c \in Cmd, ClientStalls(c) PROVE Abandoned(x)'
    BY <1>13 DEF Abandoned, Lifecycle, TypeOK, ClientStalls, daemonVars, remoteVars, faultVars
  <1>14. ASSUME NEW c \in Cmd, ClientResumes(c) PROVE Abandoned(x)'
    BY <1>14 DEF Abandoned, Lifecycle, TypeOK, ClientResumes, daemonVars, remoteVars, faultVars
  <1>15. ASSUME NEW c \in Cmd, ClientLeaves(c) PROVE Abandoned(x)'
    BY <1>15 DEF Abandoned, Lifecycle, TypeOK, ClientLeaves, daemonVars, remoteVars, faultVars
  <1>16. ASSUME NEW c \in Cmd, LoadAndSpawn(c) PROVE Abandoned(x)'
    BY <1>16 DEF Abandoned, Lifecycle, TypeOK, LoadAndSpawn, ServeGoes, daemonVars, remoteVars, faultVars
  <1>17. ASSUME NEW c \in Cmd, SpawnFails(c) PROVE Abandoned(x)'
    BY <1>17 DEF Abandoned, Lifecycle, TypeOK, SpawnFails, ServeGoes, daemonVars, remoteVars, faultVars
  <1>18. ASSUME NEW c \in Cmd, CommandEnds(c) PROVE Abandoned(x)'
    BY <1>18 DEF Abandoned, Lifecycle, TypeOK, CommandEnds, ServeGoes, daemonVars, remoteVars, faultVars
  <1>19. ASSUME NEW c \in Cmd, SeesClose(c) PROVE Abandoned(x)'
    BY <1>19 DEF Abandoned, Lifecycle, TypeOK, SeesClose, ServeEnds, daemonVars, remoteVars, faultVars
  <1>20. ASSUME NEW c \in Cmd, SaveState(c) PROVE Abandoned(x)'
    BY <1>20 DEF Abandoned, Lifecycle, TypeOK, SaveState, ServeGoes, daemonVars, remoteVars, faultVars
  <1>21. ASSUME NEW c \in Cmd, SendExit(c) PROVE Abandoned(x)'
    BY <1>21 DEF Abandoned, Lifecycle, TypeOK, SendExit, ServeEnds, ChannelClosed, EngineAlive, daemonVars, remoteVars, faultVars
  <1>22. ASSUME NEW c \in Cmd, ServeDies(c) PROVE Abandoned(x)'
    BY <1>22 DEF Abandoned, Lifecycle, TypeOK, ServeDies, ServeEnds, daemonVars, remoteVars, faultVars
  <1>23. CASE LoseConnection
    BY <1>23 DEF Abandoned, Lifecycle, TypeOK, LoseConnection, daemonVars, remoteVars, faultVars
  <1>24. CASE DaemonCrash
    BY <1>24 DEF Abandoned, Lifecycle, TypeOK, DaemonCrash, daemonVars, remoteVars, faultVars
  <1>25. CASE UNCHANGED vars
    BY <1>25 DEF Abandoned, Lifecycle, TypeOK, vars, daemonVars, remoteVars, faultVars
  <1>27. ASSUME NEW c \in Cmd, SaveFails(c) PROVE Abandoned(x)'
    BY <1>27 DEF Abandoned, Lifecycle, TypeOK, SaveFails, ServeGoes, daemonVars, remoteVars, faultVars
  <1>26. QED
    BY <1>1, <1>2, <1>3, <1>4, <1>5, <1>6, <1>7, <1>8, <1>9, <1>10, <1>11, <1>12, <1>13, <1>14, <1>15, <1>16, <1>17, <1>18, <1>19, <1>20, <1>21, <1>22, <1>23, <1>24, <1>25, <1>27 DEF Next, TaskStep, ClientStep, ServeStep

\* What isolates the command x, kept by every step that leaves the file alone.
IsolatedFor(x) ==
  serve[x] \in {"running", "draining"} /\ ~Abandoned(x)
    => \/ restored[x] = file[sessionOf[x]]
       \/ \E d \in Cmd : file[sessionOf[x]] = d /\ Abandoned(d)

\* A step keeps the state of one running command apart from all the others.
LEMMA QuietStep ==
  ASSUME TypeOK, Lifecycle, [Next]_vars, NEW x \in Cmd, IsolatedFor(x),
         file' = file, restored'[x] = restored[x],
         serve'[x] \in {"running", "draining"} => serve[x] \in {"running", "draining"}
  PROVE  IsolatedFor(x)'
<1> SUFFICES ASSUME serve'[x] \in {"running", "draining"}, ~Abandoned(x)'
             PROVE  \/ restored'[x] = file'[sessionOf[x]]
                    \/ \E d \in Cmd : file'[sessionOf[x]] = d /\ Abandoned(d)'
  BY DEF IsolatedFor
<1>1. serve[x] \in {"running", "draining"} /\ ~Abandoned(x)
  BY AbandonedStable
<1>2. CASE restored[x] = file[sessionOf[x]]
  BY <1>2
<1>3. CASE \E d \in Cmd : file[sessionOf[x]] = d /\ Abandoned(d)
  <2>1. PICK d \in Cmd : file[sessionOf[x]] = d /\ Abandoned(d)
    BY <1>3
  <2>2. Abandoned(d)'
    BY <2>1, AbandonedStable
  <2>3. QED
    BY <2>1, <2>2
<1>4. QED
  BY <1>1, <1>2, <1>3 DEF IsolatedFor

\* The shell state a command started from stays its session's state until it
\* saves its own, unless an abandoned execution wrote the file.
THEOREM StateIsIsolated == Spec => []StateIsolated
<1>1. Init => StateIsolated
  BY DEF Init, StateIsolated
<1>2. TypeOK /\ LockOwned /\ Lifecycle /\ StateIsolated /\ [Next]_vars
        => StateIsolated'
  <2> SUFFICES ASSUME TypeOK, LockOwned, Lifecycle, StateIsolated, [Next]_vars,
                      NEW x \in Cmd
               PROVE  IsolatedFor(x)'
    BY DEF StateIsolated, IsolatedFor
  <2>a. IsolatedFor(x)
    BY DEF StateIsolated, IsolatedFor
  <2> USE SessionAssumption
  <2>1. ASSUME NEW c \in Cmd, Enqueue(c) PROVE IsolatedFor(x)'
    BY <2>1, <2>a, QuietStep DEF TypeOK, Enqueue, daemonVars, remoteVars, faultVars
  <2>2. ASSUME NEW c \in Cmd, Refuse(c) PROVE IsolatedFor(x)'
    BY <2>2, <2>a, QuietStep DEF TypeOK, Refuse, daemonVars, remoteVars, faultVars
  <2>3. ASSUME NEW c \in Cmd, WarnAndRequeue(c) PROVE IsolatedFor(x)'
    BY <2>3, <2>a, QuietStep DEF TypeOK, WarnAndRequeue, daemonVars, remoteVars, faultVars
  <2>4. ASSUME NEW c \in Cmd, Begin(c) PROVE IsolatedFor(x)'
    BY <2>4, <2>a, QuietStep DEF TypeOK, Begin, daemonVars, remoteVars, faultVars
  <2>5. ASSUME NEW c \in Cmd, Open(c) PROVE IsolatedFor(x)'
    BY <2>5, <2>a, QuietStep DEF TypeOK, Open, daemonVars, remoteVars, faultVars
  <2>6. ASSUME NEW c \in Cmd, OpenFails(c) PROVE IsolatedFor(x)'
    BY <2>6, <2>a, QuietStep DEF TypeOK, OpenFails, EndEngine, daemonVars, remoteVars, faultVars
  <2>7. ASSUME NEW c \in Cmd, EngineReports(c) PROVE IsolatedFor(x)'
    BY <2>7, <2>a, QuietStep DEF TypeOK, EngineReports, EndEngine, daemonVars, remoteVars, faultVars
  <2>8. ASSUME NEW c \in Cmd, EngineFails(c) PROVE IsolatedFor(x)'
    BY <2>8, <2>a, QuietStep DEF TypeOK, EngineFails, EndEngine, daemonVars, remoteVars, faultVars
  <2>9. ASSUME NEW c \in Cmd, Watchdog(c) PROVE IsolatedFor(x)'
    BY <2>9, <2>a, QuietStep DEF TypeOK, Watchdog, EndEngine, EngineAlive, daemonVars, remoteVars, faultVars
  <2>10. ASSUME NEW c \in Cmd, Fatal(c) PROVE IsolatedFor(x)'
    BY <2>10, <2>a, QuietStep DEF TypeOK, Fatal, EndEngine, EngineAlive, daemonVars, remoteVars, faultVars
  <2>11. ASSUME NEW c \in Cmd, Settle(c) PROVE IsolatedFor(x)'
    BY <2>11, <2>a, QuietStep DEF TypeOK, Settle, daemonVars, remoteVars, faultVars
  <2>12. ASSUME NEW c \in Cmd, Reply(c) PROVE IsolatedFor(x)'
    BY <2>12, <2>a, QuietStep DEF TypeOK, Reply, daemonVars, remoteVars, faultVars
  <2>13. ASSUME NEW c \in Cmd, ClientStalls(c) PROVE IsolatedFor(x)'
    BY <2>13, <2>a, QuietStep DEF TypeOK, ClientStalls, daemonVars, remoteVars, faultVars
  <2>14. ASSUME NEW c \in Cmd, ClientResumes(c) PROVE IsolatedFor(x)'
    BY <2>14, <2>a, QuietStep DEF TypeOK, ClientResumes, daemonVars, remoteVars, faultVars
  <2>15. ASSUME NEW c \in Cmd, ClientLeaves(c) PROVE IsolatedFor(x)'
    BY <2>15, <2>a, QuietStep DEF TypeOK, ClientLeaves, daemonVars, remoteVars, faultVars
  <2>16. ASSUME NEW c \in Cmd, LoadAndSpawn(c) PROVE IsolatedFor(x)'
    <3>1. CASE c = x
      BY <2>16, <3>1 DEF LoadAndSpawn, IsolatedFor, TypeOK
    <3>2. CASE c # x
      BY <2>16, <3>2, <2>a, QuietStep DEF LoadAndSpawn, ServeGoes, TypeOK
    <3>3. QED
      BY <3>1, <3>2
  <2>17. ASSUME NEW c \in Cmd, SpawnFails(c) PROVE IsolatedFor(x)'
    BY <2>17, <2>a, QuietStep DEF TypeOK, SpawnFails, ServeGoes, daemonVars, remoteVars, faultVars
  <2>18. ASSUME NEW c \in Cmd, CommandEnds(c) PROVE IsolatedFor(x)'
    BY <2>18, <2>a, QuietStep DEF TypeOK, CommandEnds, ServeGoes, daemonVars, remoteVars, faultVars
  <2>19. ASSUME NEW c \in Cmd, SeesClose(c) PROVE IsolatedFor(x)'
    <3>1. CASE c = x
      BY <2>19, <3>1 DEF SeesClose, ServeEnds, IsolatedFor, TypeOK
    <3>2. CASE c # x
      BY <2>19, <3>2, <2>a, QuietStep DEF SeesClose, ServeEnds, TypeOK
    <3>3. QED
      BY <3>1, <3>2
  <2>20. ASSUME NEW c \in Cmd, SaveState(c) PROVE IsolatedFor(x)'
    <3>1. CASE sessionOf[c] # sessionOf[x] \/ c \notin dumped
      <4>1. file'[sessionOf[x]] = file[sessionOf[x]]
        BY <2>20, <3>1 DEF SaveState, TypeOK
      <4>2. restored' = restored
            /\ (serve'[x] \in {"running", "draining"} => serve'[x] = serve[x])
        BY <2>20 DEF SaveState, ServeGoes, TypeOK
      <4>3. \A d \in Cmd : Abandoned(d) => Abandoned(d)'
        BY AbandonedStable
      <4>4. QED
        BY <4>1, <4>2, <4>3, <2>a DEF IsolatedFor
    <3>2. CASE sessionOf[c] = sessionOf[x] /\ c \in dumped
      <4>1. file'[sessionOf[x]] = c
        BY <2>20, <3>2 DEF SaveState, TypeOK
      <4>2. CASE Abandoned(c)
        BY <4>1, <4>2, AbandonedStable DEF IsolatedFor
      <4>3. CASE ~Abandoned(c) /\ c # x
        <5>1. ServeBusy(c)
          BY <2>20 DEF SaveState, ServeBusy
        <5>2. SUFFICES ASSUME serve'[x] \in {"running", "draining"}, ~Abandoned(x)'
                       PROVE  FALSE
          BY DEF IsolatedFor
        <5>3. ServeBusy(x) /\ ~Abandoned(x)
          BY <2>20, <4>3, <5>2, AbandonedStable DEF SaveState, ServeGoes, ServeBusy, TypeOK
        <5>4. QED
          BY <3>2, <4>3, <5>1, <5>3, OverlapFollows DEF OverlapNeedsAbandoned
      <4>4. CASE c = x
        BY <2>20, <4>4 DEF SaveState, ServeGoes, IsolatedFor, TypeOK
      <4>5. QED
        BY <4>2, <4>3, <4>4
    <3>3. QED
      BY <3>1, <3>2
  <2>21. ASSUME NEW c \in Cmd, SendExit(c) PROVE IsolatedFor(x)'
    <3>1. CASE c = x
      BY <2>21, <3>1 DEF SendExit, ServeEnds, IsolatedFor, TypeOK
    <3>2. CASE c # x
      BY <2>21, <3>2, <2>a, QuietStep DEF SendExit, ServeEnds, TypeOK
    <3>3. QED
      BY <3>1, <3>2
  <2>22. ASSUME NEW c \in Cmd, ServeDies(c) PROVE IsolatedFor(x)'
    <3>1. CASE c = x
      BY <2>22, <3>1 DEF ServeDies, ServeEnds, IsolatedFor, TypeOK
    <3>2. CASE c # x
      BY <2>22, <3>2, <2>a, QuietStep DEF ServeDies, ServeEnds, TypeOK
    <3>3. QED
      BY <3>1, <3>2
  <2>23. CASE LoseConnection
    BY <2>23, <2>a, QuietStep DEF TypeOK, LoseConnection, daemonVars, remoteVars, faultVars
  <2>24. CASE DaemonCrash
    BY <2>24, <2>a, QuietStep DEF TypeOK, DaemonCrash, daemonVars, remoteVars, faultVars
  <2>25. CASE UNCHANGED vars
    BY <2>25, <2>a, QuietStep DEF TypeOK, vars, daemonVars, remoteVars, faultVars
  <2>27. ASSUME NEW c \in Cmd, SaveFails(c) PROVE IsolatedFor(x)'
    BY <2>27, <2>a, QuietStep DEF TypeOK, SaveFails, ServeGoes, daemonVars, remoteVars, faultVars
  <2>26. QED
    BY <2>1, <2>2, <2>3, <2>4, <2>5, <2>6, <2>7, <2>8, <2>9, <2>10, <2>11, <2>12, <2>13, <2>14, <2>15, <2>16, <2>17, <2>18, <2>19, <2>20, <2>21, <2>22, <2>23, <2>24, <2>25, <2>27 DEF Next, TaskStep, ClientStep, ServeStep
<1>3. QED
  BY <1>1, <1>2, LockAlwaysOwned, LifecycleHolds, TypeCorrect, PTL DEF Spec

(***************************************************************************)
(* The waiters of the session lock                                         *)
(***************************************************************************)
\* The elements of two queues put together.
LEMMA Joined ==
  ASSUME NEW p \in Seq(Cmd), NEW q \in Seq(Cmd), NEW k \in 1 .. Len(p) + Len(q)
  PROVE  (p \o q)[k] = IF k <= Len(p) THEN p[k] ELSE q[k - Len(p)]
  OBVIOUS

\* What a waiter's leaving does to the positions of the others.
LEMMA AfterRemoval ==
  ASSUME NEW q \in Seq(Cmd), NEW i \in DOMAIN q
  PROVE  /\ Len(RemoveAt(q, i)) = Len(q) - 1
         /\ \A k \in 1 .. Len(q) - 1 :
              RemoveAt(q, i)[k] = IF k < i THEN q[k] ELSE q[k+1]
<1>1. i \in 1 .. Len(q) /\ Len(q) \in Nat
  OBVIOUS
<1> DEFINE front == SubSeq(q, 1, i-1)
           back == SubSeq(q, i+1, Len(q))
<1>2. /\ front \in Seq(Cmd) /\ Len(front) = i - 1
      /\ \A k \in 1 .. i-1 : front[k] = q[k]
  BY <1>1
<1>3. /\ back \in Seq(Cmd) /\ Len(back) = Len(q) - i
      /\ \A k \in 1 .. Len(q) - i : back[k] = q[i + k]
  BY <1>1
<1>4. RemoveAt(q, i) = front \o back
  BY DEF RemoveAt
<1> HIDE DEF front, back
<1>5. Len(front \o back) = Len(q) - 1
  BY <1>1, <1>2, <1>3
<1>6. ASSUME NEW k \in 1 .. Len(q) - 1
      PROVE  (front \o back)[k] = IF k < i THEN q[k] ELSE q[k+1]
  <2>1. k \in 1 .. Len(front) + Len(back)
    BY <1>1, <1>2, <1>3
  <2>2. (front \o back)[k] = IF k <= Len(front) THEN front[k] ELSE back[k - Len(front)]
    BY <2>1, <1>2, <1>3, Joined
  <2>3. CASE k < i
    BY <2>2, <2>3, <1>1, <1>2
  <2>4. CASE ~(k < i)
    <3>1. k - (i-1) \in 1 .. Len(q) - i /\ i + (k - (i-1)) = k + 1 /\ ~(k <= Len(front))
      BY <2>4, <1>1, <1>2
    <3>2. QED
      BY <3>1, <2>2, <2>4, <1>1, <1>2, <1>3
  <2>5. QED
    BY <2>3, <2>4
<1>7. QED
  BY <1>4, <1>5, <1>6

\* The queue after a waiter that was reported as stuck has moved to its end.
LEMMA AfterRequeue ==
  ASSUME NEW q \in Seq(Cmd), NEW i \in DOMAIN q, NEW c \in Cmd
  PROVE  LET r == Append(RemoveAt(q, i), c)
         IN  /\ Len(r) = Len(q)
             /\ r[Len(q)] = c
             /\ \A k \in 1 .. Len(q) - 1 : r[k] = IF k < i THEN q[k] ELSE q[k+1]
<1> DEFINE p == RemoveAt(q, i)
<1>1. /\ p \in Seq(Cmd) /\ Len(p) = Len(q) - 1 /\ Len(q) \in Nat
      /\ \A k \in 1 .. Len(q) - 1 : p[k] = IF k < i THEN q[k] ELSE q[k+1]
  BY QueueTypes, AfterRemoval
<1> HIDE DEF p
<1>2. /\ Len(Append(p, c)) = Len(p) + 1
      /\ Append(p, c)[Len(p) + 1] = c
      /\ \A k \in 1 .. Len(p) : Append(p, c)[k] = p[k]
  BY <1>1
<1>3. QED
  BY <1>1, <1>2 DEF p

\* Where the waiter now at k stood before, and where the one at j stands now,
\* when the waiter at i of n has moved to the end.
WasAt(i, n, k) == IF k = n THEN i ELSE IF k < i THEN k ELSE k + 1
NowAt(i, n, j) == IF j = i THEN n ELSE IF j < i THEN j ELSE j - 1

\* The two are inverse, and no place is taken twice.
LEMMA Positions ==
  ASSUME NEW n \in Nat, NEW i \in 1 .. n
  PROVE  /\ \A k \in 1 .. n : WasAt(i, n, k) \in 1 .. n
         /\ \A j \in 1 .. n : NowAt(i, n, j) \in 1 .. n /\ WasAt(i, n, NowAt(i, n, j)) = j
         /\ \A k, l \in 1 .. n : WasAt(i, n, k) = WasAt(i, n, l) => k = l
<1>1. \A k \in 1 .. n : WasAt(i, n, k) \in 1 .. n
  BY DEF WasAt
<1>2. \A j \in 1 .. n : NowAt(i, n, j) \in 1 .. n /\ WasAt(i, n, NowAt(i, n, j)) = j
  BY DEF WasAt, NowAt
<1>3. ASSUME NEW k \in 1 .. n, NEW l \in 1 .. n, WasAt(i, n, k) = WasAt(i, n, l)
      PROVE  k = l
  <2>1. CASE k = n
    BY <1>3, <2>1 DEF WasAt
  <2>2. CASE k < i /\ k # n
    BY <1>3, <2>2 DEF WasAt
  <2>3. CASE ~(k < i) /\ k # n
    BY <1>3, <2>3 DEF WasAt
  <2>4. QED
    BY <2>1, <2>2, <2>3
<1>4. QED
  BY <1>1, <1>2, <1>3

\* The same waiters stand in the queue, each once, the others in their order.
Requeued(q, i) == Append(RemoveAt(q, i), q[i])

Moved(q, i) ==
  /\ DOMAIN Requeued(q, i) = DOMAIN q
  /\ \A k \in DOMAIN q : /\ WasAt(i, Len(q), k) \in DOMAIN q
                         /\ Requeued(q, i)[k] = q[WasAt(i, Len(q), k)]
  /\ \A j \in DOMAIN q : /\ NowAt(i, Len(q), j) \in DOMAIN q
                         /\ Requeued(q, i)[NowAt(i, Len(q), j)] = q[j]
  /\ \A k, l \in DOMAIN q : WasAt(i, Len(q), k) = WasAt(i, Len(q), l) => k = l

\* So it is in the queue that WarnAndRequeue leaves.
LEMMA RequeueMoves ==
  ASSUME NEW q \in Seq(Cmd), NEW i \in DOMAIN q
  PROVE  Moved(q, i)
<1> DEFINE r == Requeued(q, i)
           n == Len(q)
<1>1. /\ i \in 1 .. n /\ n \in Nat /\ DOMAIN q = 1 .. n /\ q[i] \in Cmd
  OBVIOUS
<1>2. r \in Seq(Cmd)
  BY <1>1, QueueTypes DEF Requeued
<1>3. /\ Len(r) = n /\ r[n] = q[i]
      /\ \A k \in 1 .. n - 1 : r[k] = IF k < i THEN q[k] ELSE q[k+1]
  BY <1>1, AfterRequeue DEF Requeued
<1> HIDE DEF r, n
<1>4. DOMAIN r = 1 .. n
  BY <1>2, <1>3
<1>5. \A k \in 1 .. n : WasAt(i, n, k) \in 1 .. n /\ r[k] = q[WasAt(i, n, k)]
  <2> TAKE k \in 1 .. n
  <2>1. WasAt(i, n, k) \in 1 .. n
    BY <1>1, Positions
  <2>2. CASE k = n
    BY <1>3, <2>1, <2>2 DEF WasAt
  <2>3. CASE k # n
    <3>1. k \in 1 .. n - 1
      BY <1>1, <2>3
    <3>2. QED
      BY <1>3, <2>1, <2>3, <3>1 DEF WasAt
  <2>4. QED
    BY <2>2, <2>3
<1>6. \A j \in 1 .. n : NowAt(i, n, j) \in 1 .. n /\ r[NowAt(i, n, j)] = q[j]
  <2> TAKE j \in 1 .. n
  <2>1. NowAt(i, n, j) \in 1 .. n /\ WasAt(i, n, NowAt(i, n, j)) = j
    BY <1>1, Positions
  <2>2. r[NowAt(i, n, j)] = q[WasAt(i, n, NowAt(i, n, j))]
    BY <1>5, <2>1
  <2>3. QED
    BY <2>1, <2>2
<1>7. \A k, l \in 1 .. n : WasAt(i, n, k) = WasAt(i, n, l) => k = l
  BY <1>1, Positions
<1>8. QED
  BY <1>1, <1>4, <1>5, <1>6, <1>7 DEF r, n, Moved

\* A step that leaves the locks and their queues alone: a task begins with the
\* lock in its hand, goes on with it, or ends before it queued.
LockQuiet ==
  /\ queue' = queue /\ holder' = holder
  /\ \A d \in Cmd :
       \/ task'[d] = task[d]
       \/ task[d] = "queued" /\ holder[sessionOf[d]] = d /\ task'[d] \in Critical
       \/ task[d] \in Critical /\ task'[d] \in Critical
       \/ task[d] = "idle" /\ task'[d] = "done"

\* The steps that do touch them: a waiter joins, moves to the end or is let in, and
\* a crash, which empties everything.
LEMMA LockSteps ==
  TypeOK /\ [Next]_vars =>
    \/ LockQuiet
    \/ \E c \in Cmd : Enqueue(c) \/ WarnAndRequeue(c) \/ Reply(c)
    \/ DaemonCrash
  <1> DEFINE Effect == \/ LockQuiet
                       \/ \E c \in Cmd : Enqueue(c) \/ WarnAndRequeue(c) \/ Reply(c)
                       \/ DaemonCrash
  <1> SUFFICES ASSUME TypeOK, [Next]_vars PROVE Effect
    OBVIOUS
  <1> USE SessionAssumption
  <1>1. ASSUME NEW c \in Cmd, Enqueue(c) PROVE Effect
    BY <1>1
  <1>2. ASSUME NEW c \in Cmd, Refuse(c) PROVE Effect
    BY <1>2 DEF LockQuiet, Critical, TypeOK, Refuse, daemonVars, remoteVars, faultVars
  <1>3. ASSUME NEW c \in Cmd, WarnAndRequeue(c) PROVE Effect
    BY <1>3
  <1>4. ASSUME NEW c \in Cmd, Begin(c) PROVE Effect
    BY <1>4 DEF LockQuiet, Critical, TypeOK, Begin, daemonVars, remoteVars, faultVars
  <1>5. ASSUME NEW c \in Cmd, Open(c) PROVE Effect
    BY <1>5 DEF LockQuiet, Critical, TypeOK, Open, daemonVars, remoteVars, faultVars
  <1>6. ASSUME NEW c \in Cmd, OpenFails(c) PROVE Effect
    BY <1>6 DEF LockQuiet, Critical, TypeOK, OpenFails, EndEngine, daemonVars, remoteVars, faultVars
  <1>7. ASSUME NEW c \in Cmd, EngineReports(c) PROVE Effect
    BY <1>7 DEF LockQuiet, Critical, TypeOK, EngineReports, EndEngine, daemonVars, remoteVars, faultVars
  <1>8. ASSUME NEW c \in Cmd, EngineFails(c) PROVE Effect
    BY <1>8 DEF LockQuiet, Critical, TypeOK, EngineFails, EndEngine, daemonVars, remoteVars, faultVars
  <1>9. ASSUME NEW c \in Cmd, Watchdog(c) PROVE Effect
    BY <1>9 DEF LockQuiet, Critical, TypeOK, Watchdog, EndEngine, EngineAlive, daemonVars, remoteVars, faultVars
  <1>10. ASSUME NEW c \in Cmd, Fatal(c) PROVE Effect
    BY <1>10 DEF LockQuiet, Critical, TypeOK, Fatal, EndEngine, EngineAlive, daemonVars, remoteVars, faultVars
  <1>11. ASSUME NEW c \in Cmd, Settle(c) PROVE Effect
    BY <1>11 DEF LockQuiet, Critical, TypeOK, Settle, daemonVars, remoteVars, faultVars
  <1>12. ASSUME NEW c \in Cmd, Reply(c) PROVE Effect
    BY <1>12
  <1>13. ASSUME NEW c \in Cmd, ClientStalls(c) PROVE Effect
    BY <1>13 DEF LockQuiet, Critical, TypeOK, ClientStalls, daemonVars, remoteVars, faultVars
  <1>14. ASSUME NEW c \in Cmd, ClientResumes(c) PROVE Effect
    BY <1>14 DEF LockQuiet, Critical, TypeOK, ClientResumes, daemonVars, remoteVars, faultVars
  <1>15. ASSUME NEW c \in Cmd, ClientLeaves(c) PROVE Effect
    BY <1>15 DEF LockQuiet, Critical, TypeOK, ClientLeaves, daemonVars, remoteVars, faultVars
  <1>16. ASSUME NEW c \in Cmd, LoadAndSpawn(c) PROVE Effect
    BY <1>16 DEF LockQuiet, Critical, TypeOK, LoadAndSpawn, ServeGoes, daemonVars, remoteVars, faultVars
  <1>17. ASSUME NEW c \in Cmd, SpawnFails(c) PROVE Effect
    BY <1>17 DEF LockQuiet, Critical, TypeOK, SpawnFails, ServeGoes, daemonVars, remoteVars, faultVars
  <1>18. ASSUME NEW c \in Cmd, CommandEnds(c) PROVE Effect
    BY <1>18 DEF LockQuiet, Critical, TypeOK, CommandEnds, ServeGoes, daemonVars, remoteVars, faultVars
  <1>19. ASSUME NEW c \in Cmd, SeesClose(c) PROVE Effect
    BY <1>19 DEF LockQuiet, Critical, TypeOK, SeesClose, ServeEnds, daemonVars, remoteVars, faultVars
  <1>20. ASSUME NEW c \in Cmd, SaveState(c) PROVE Effect
    BY <1>20 DEF LockQuiet, Critical, TypeOK, SaveState, ServeGoes, daemonVars, remoteVars, faultVars
  <1>21. ASSUME NEW c \in Cmd, SendExit(c) PROVE Effect
    BY <1>21 DEF LockQuiet, Critical, TypeOK, SendExit, ServeEnds, ChannelClosed, EngineAlive, daemonVars, remoteVars, faultVars
  <1>22. ASSUME NEW c \in Cmd, ServeDies(c) PROVE Effect
    BY <1>22 DEF LockQuiet, Critical, TypeOK, ServeDies, ServeEnds, daemonVars, remoteVars, faultVars
  <1>23. CASE LoseConnection
    BY <1>23 DEF LockQuiet, Critical, TypeOK, LoseConnection, daemonVars, remoteVars, faultVars
  <1>24. CASE DaemonCrash
    BY <1>24
  <1>25. CASE UNCHANGED vars
    BY <1>25 DEF LockQuiet, Critical, TypeOK, vars, daemonVars, remoteVars, faultVars
  <1>27. ASSUME NEW c \in Cmd, SaveFails(c) PROVE Effect
    BY <1>27 DEF LockQuiet, Critical, TypeOK, SaveFails, ServeGoes, daemonVars, remoteVars, faultVars
  <1>26. QED
    BY <1>1, <1>2, <1>3, <1>4, <1>5, <1>6, <1>7, <1>8, <1>9, <1>10, <1>11, <1>12, <1>13, <1>14, <1>15, <1>16, <1>17, <1>18, <1>19, <1>20, <1>21, <1>22, <1>23, <1>24, <1>25, <1>27 DEF Next, TaskStep, ClientStep, ServeStep

\* The inductive form of NoLostWaiter: a lock is owned and queued for by
\* commands of its own session only.
WaitersInv ==
  /\ NoLostWaiter
  /\ \A s \in Sess : \A i \in DOMAIN queue[s] : sessionOf[queue[s][i]] = s
  /\ \A s \in Sess : holder[s] # NoCmd => sessionOf[holder[s]] = s

\* What it says of one command and of one session.
Placed(c) ==
  task[c] = "queued" =>
    \/ holder[sessionOf[c]] = c
    \/ \E i \in DOMAIN queue[sessionOf[c]] : queue[sessionOf[c]][i] = c

InLine(s) ==
  /\ \A i, j \in DOMAIN queue[s] : queue[s][i] = queue[s][j] => i = j
  /\ \A i \in DOMAIN queue[s] :
       /\ task[queue[s][i]] = "queued"
       /\ queue[s][i] # holder[s]
       /\ sessionOf[queue[s][i]] = s

Led(s) ==
  /\ queue[s] # << >> => holder[s] # NoCmd
  /\ holder[s] # NoCmd =>
       task[holder[s]] \in Critical \cup {"queued"} /\ sessionOf[holder[s]] = s

\* The parts together are the whole,
LEMMA WaitersParts ==
  WaitersInv <=> /\ \A c \in Cmd : Placed(c)
                 /\ \A s \in Sess : InLine(s) /\ Led(s)
  BY DEF WaitersInv, NoLostWaiter, Placed, InLine, Led, IsInjective

\* after a step as well.
LEMMA WaitersPartsNext ==
  WaitersInv' <=> /\ \A c \in Cmd : Placed(c)'
                  /\ \A s \in Sess : InLine(s)' /\ Led(s)'
  BY DEF WaitersInv, NoLostWaiter, Placed, InLine, Led, IsInjective

\* A session whose lock and queue a step leaves alone, and whose waiters wait on.
LEMMA QuietSession ==
  ASSUME TypeOK, WaitersInv, NEW s \in Sess,
         queue'[s] = queue[s], holder'[s] = holder[s],
         \A d \in Cmd : sessionOf[d] = s =>
           \/ task'[d] = task[d]
           \/ task[d] \in Critical \cup {"queued"} /\ holder[s] = d /\ task'[d] \in Critical
           \/ task[d] = "idle"
  PROVE  InLine(s)' /\ Led(s)'
<1> USE SessionAssumption
<1>1. InLine(s) /\ Led(s) /\ queue[s] \in Seq(Cmd) /\ holder[s] \in MaybeCmd
  BY WaitersParts DEF TypeOK
<1>2. \A i \in DOMAIN queue[s] : queue[s][i] \in Cmd
  BY <1>1
<1>3. InLine(s)'
  BY <1>1, <1>2 DEF InLine, Critical
<1>4. Led(s)'
  BY <1>1 DEF Led, Critical, MaybeCmd
<1>5. QED
  BY <1>3, <1>4

\* No step loses a waiter, admits a stranger or leaves a line without its owner.
LEMMA WaitersStep ==
  TypeOK /\ LockOwned /\ WaitersInv /\ [Next]_vars => WaitersInv'
<1> SUFFICES ASSUME TypeOK, LockOwned, WaitersInv, [Next]_vars
             PROVE  /\ \A c \in Cmd : Placed(c)'
                    /\ \A s \in Sess : InLine(s)' /\ Led(s)'
  BY WaitersPartsNext
<1> USE SessionAssumption
<1>a. /\ \A d \in Cmd : Placed(d) /\ sessionOf[d] \in Sess
      /\ \A s \in Sess : InLine(s) /\ Led(s)
  BY WaitersParts
<1>b. \A s \in Sess : queue[s] \in Seq(Cmd) /\ holder[s] \in MaybeCmd
  BY DEF TypeOK
<1>1. CASE LockQuiet
  <2>1. ASSUME NEW d \in Cmd PROVE Placed(d)'
    BY <1>1, <1>a DEF Placed, LockQuiet, Critical
  <2>2. ASSUME NEW s \in Sess PROVE InLine(s)' /\ Led(s)'
    <3>1. \A d \in Cmd : sessionOf[d] = s =>
           \/ task'[d] = task[d]
           \/ task[d] \in Critical \cup {"queued"} /\ holder[s] = d /\ task'[d] \in Critical
           \/ task[d] = "idle"
      BY <1>1 DEF LockQuiet, LockOwned
    <3>2. QED
      BY <1>1, <3>1, QuietSession DEF LockQuiet
  <2>3. QED
    BY <2>1, <2>2
<1>2. ASSUME NEW c \in Cmd, Enqueue(c)
      PROVE  /\ \A d \in Cmd : Placed(d)'
             /\ \A s \in Sess : InLine(s)' /\ Led(s)'
  <2> DEFINE s == sessionOf[c]
             longer == Append(queue[s], c)
  <2>1. /\ s \in Sess /\ task[c] = "idle"
        /\ task' = [task EXCEPT ![c] = "queued"]
    BY <1>2 DEF Enqueue
  <2>2. /\ Len(longer) = Len(queue[s]) + 1 /\ longer[Len(queue[s]) + 1] = c
        /\ \A k \in 1 .. Len(queue[s]) : longer[k] = queue[s][k]
        /\ longer \in Seq(Cmd) /\ Len(queue[s]) \in Nat
        /\ \A k \in 1 .. Len(queue[s]) : queue[s][k] \in Cmd
        /\ DOMAIN queue[s] = 1 .. Len(queue[s])
        /\ DOMAIN longer = 1 .. Len(queue[s]) + 1
    BY <2>1, <1>b
  <2>3. /\ \A x \in Sess : x # s => queue'[x] = queue[x] /\ holder'[x] = holder[x]
        /\ \/ holder[s] = NoCmd /\ holder'[s] = c /\ queue'[s] = queue[s]
           \/ holder[s] # NoCmd /\ holder'[s] = holder[s] /\ queue'[s] = longer
    BY <1>2, <2>1 DEF Enqueue, TypeOK
  <2> HIDE DEF longer
  <2>4. ASSUME NEW d \in Cmd PROVE Placed(d)'
    <3>1. CASE d = c
      BY <2>1, <2>2, <2>3, <3>1 DEF Placed
    <3>2. CASE d # c
      <4>1. Placed(d) /\ task'[d] = task[d] /\ sessionOf[d] \in Sess
        BY <1>a, <2>1, <3>2 DEF TypeOK
      <4>2. CASE sessionOf[d] # s
        BY <4>1, <4>2, <2>3 DEF Placed
      <4>3. CASE sessionOf[d] = s /\ holder[s] # NoCmd
        BY <4>1, <4>3, <2>2, <2>3 DEF Placed
      <4>4. CASE sessionOf[d] = s /\ holder[s] = NoCmd
        BY <4>1, <4>4, <2>2, <2>3 DEF Placed
      <4>5. QED
        BY <4>2, <4>3, <4>4
    <3>3. QED
      BY <3>1, <3>2
  <2>5. ASSUME NEW x \in Sess, x # s PROVE InLine(x)' /\ Led(x)'
    BY <2>1, <2>3, <2>5, QuietSession DEF TypeOK
  <2>6. InLine(s) /\ Led(s) /\ holder[s] \in MaybeCmd
    BY <1>a, <1>b, <2>1
  <2>7. InLine(s)'
    <3>1. CASE holder[s] = NoCmd
      <4>1. queue[s] = << >>
        BY <3>1, <2>6 DEF Led
      <4>2. DOMAIN queue'[s] = {}
        BY <4>1, <3>1, <2>1, <2>3
      <4>3. QED
        BY <4>2 DEF InLine
    <3>2. CASE holder[s] # NoCmd
      <4>1. \A k \in 1 .. Len(queue[s]) : queue[s][k] # c
        BY <2>1, <2>2, <2>6 DEF InLine
      <4>2. holder[s] # c
        BY <3>2, <2>1, <2>6 DEF Led, Critical
      <4>3. queue'[s] = longer /\ holder'[s] = holder[s]
        BY <2>3, <3>2
      <4>4. ASSUME NEW i \in 1 .. Len(queue[s]) + 1, NEW j \in 1 .. Len(queue[s]) + 1,
                   longer[i] = longer[j]
            PROVE  i = j
        <5>1. CASE i \in 1 .. Len(queue[s]) /\ j \in 1 .. Len(queue[s])
          BY <4>4, <5>1, <2>2, <2>6 DEF InLine
        <5>2. CASE i = Len(queue[s]) + 1 \/ j = Len(queue[s]) + 1
          BY <4>1, <4>4, <5>2, <2>2
        <5>3. QED
          BY <5>1, <5>2, <2>2
      <4>5. ASSUME NEW i \in 1 .. Len(queue[s]) + 1
            PROVE  task'[longer[i]] = "queued" /\ longer[i] # holder[s] /\ sessionOf[longer[i]] = s
        <5>1. CASE i \in 1 .. Len(queue[s])
          <6>1. longer[i] = queue[s][i] /\ longer[i] \in Cmd /\ longer[i] # c
            BY <5>1, <2>2, <4>1
          <6>2. task[longer[i]] = "queued" /\ longer[i] # holder[s] /\ sessionOf[longer[i]] = s
            BY <5>1, <6>1, <2>2, <2>6 DEF InLine
          <6>3. QED
            BY <6>1, <6>2, <2>1 DEF TypeOK
        <5>2. CASE i = Len(queue[s]) + 1
          BY <5>2, <2>1, <2>2, <4>2 DEF TypeOK
        <5>3. QED
          BY <5>1, <5>2, <2>2
      <4>6. QED
        BY <4>3, <4>4, <4>5, <2>2 DEF InLine
    <3>3. QED
      BY <3>1, <3>2
  <2>8. Led(s)'
    <3>1. CASE holder[s] = NoCmd
      BY <3>1, <2>1, <2>3 DEF Led, TypeOK
    <3>2. CASE holder[s] # NoCmd
      BY <3>2, <2>1, <2>3, <2>6 DEF Led, TypeOK, Critical
    <3>3. QED
      BY <3>1, <3>2
  <2>9. QED
    BY <2>4, <2>5, <2>7, <2>8
<1>3. ASSUME NEW c \in Cmd, WarnAndRequeue(c)
      PROVE  /\ \A d \in Cmd : Placed(d)'
             /\ \A s \in Sess : InLine(s)' /\ Led(s)'
  <2> DEFINE s == sessionOf[c]
             q == queue[s]
  <2>1. /\ s \in Sess /\ q \in Seq(Cmd) /\ task[c] = "queued"
        /\ task' = task /\ holder' = holder
    BY <1>3, <1>b DEF WarnAndRequeue
  <2>2. PICK i \in DOMAIN q :
          q[i] = c /\ queue' = [queue EXCEPT ![s] = Requeued(q, i)]
    BY <1>3 DEF WarnAndRequeue, Requeued
  <2>3. Moved(q, i)
    BY <2>1, RequeueMoves
  <2> DEFINE r == Requeued(q, i)
             n == Len(q)
  <2>4. queue'[s] = r /\ \A x \in Sess : x # s => queue'[x] = queue[x]
    BY <2>1, <2>2 DEF TypeOK
  <2>5. ASSUME NEW d \in Cmd PROVE Placed(d)'
    <3>1. CASE sessionOf[d] # s
      BY <1>a, <2>1, <2>4, <3>1 DEF Placed
    <3>2. CASE sessionOf[d] = s
      <4>1. SUFFICES ASSUME task[d] = "queued", holder[s] # d
                     PROVE  \E k \in DOMAIN r : r[k] = d
        BY <2>1, <2>4, <3>2 DEF Placed
      <4>2. PICK j \in DOMAIN q : q[j] = d
        BY <1>a, <3>2, <4>1 DEF Placed
      <4>3. NowAt(i, n, j) \in DOMAIN r /\ r[NowAt(i, n, j)] = d
        BY <2>3, <4>2 DEF Moved
      <4>4. QED
        BY <4>3
    <3>3. QED
      BY <3>1, <3>2
  <2>6. ASSUME NEW x \in Sess, x # s PROVE InLine(x)' /\ Led(x)'
    BY <2>1, <2>4, <2>6, QuietSession
  <2>7. InLine(s) /\ Led(s)
    BY <1>a, <2>1
  <2>8. InLine(s)'
    <3>1. \A k \in DOMAIN r : /\ WasAt(i, n, k) \in DOMAIN q
                               /\ r[k] = q[WasAt(i, n, k)]
      BY <2>3 DEF Moved
    <3>2. \A k, l \in DOMAIN r : WasAt(i, n, k) = WasAt(i, n, l) => k = l
      BY <2>3 DEF Moved
    <3>3. queue'[s] = r
      BY <2>4
    <3> HIDE DEF r, n
    <3>4. \A k, l \in DOMAIN r : r[k] = r[l] => k = l
      BY <2>7, <3>1, <3>2 DEF InLine
    <3>5. \A k \in DOMAIN r : task[r[k]] = "queued" /\ r[k] # holder[s] /\ sessionOf[r[k]] = s
      BY <2>7, <3>1 DEF InLine
    <3>6. QED
      BY <2>1, <3>3, <3>4, <3>5 DEF InLine
  <2>9. Led(s)'
    <3>1. q # << >>
      BY <2>1, <2>2
    <3>2. QED
      BY <3>1, <2>1, <2>7 DEF Led
  <2>10. QED
    BY <2>5, <2>6, <2>8, <2>9
<1>4. ASSUME NEW c \in Cmd, Reply(c)
      PROVE  /\ \A d \in Cmd : Placed(d)'
             /\ \A s \in Sess : InLine(s)' /\ Led(s)'
  <2> DEFINE s == sessionOf[c]
             q == queue[s]
  <2>1. /\ s \in Sess /\ q \in Seq(Cmd) /\ task[c] = "replying" /\ holder[s] = c
        /\ task' = [task EXCEPT ![c] = "done"]
    BY <1>4, <1>b DEF Reply, LockOwned, Critical
  <2>2. /\ \A x \in Sess : x # s => queue'[x] = queue[x] /\ holder'[x] = holder[x]
        /\ \/ q = << >> /\ holder'[s] = NoCmd /\ queue'[s] = << >>
           \/ q # << >> /\ holder'[s] = Head(q) /\ queue'[s] = Tail(q)
    BY <1>4, <2>1 DEF Reply, NextHolder, NextQueue, TypeOK
  <2>3. ASSUME q # << >>
        PROVE  /\ Head(q) = q[1] /\ Head(q) \in Cmd /\ 1 \in DOMAIN q
               /\ DOMAIN Tail(q) = 1 .. Len(q) - 1 /\ DOMAIN q = 1 .. Len(q)
               /\ Len(q) \in Nat
               /\ \A k \in 1 .. Len(q) - 1 : Tail(q)[k] = q[k+1]
               /\ \A k \in 1 .. Len(q) : q[k] \in Cmd
    BY <2>1, <2>3
  <2>4. InLine(s) /\ Led(s)
    BY <1>a, <2>1
  <2>5. ASSUME NEW d \in Cmd PROVE Placed(d)'
    <3>1. CASE task'[d] # "queued"
      BY <3>1 DEF Placed
    <3>2. CASE task'[d] = "queued" /\ sessionOf[d] # s
      <4>1. /\ Placed(d) /\ sessionOf[d] \in Sess /\ task[d] = "queued"
            /\ queue'[sessionOf[d]] = queue[sessionOf[d]]
            /\ holder'[sessionOf[d]] = holder[sessionOf[d]]
        BY <1>a, <2>1, <2>2, <3>2 DEF TypeOK
      <4>2. QED
        BY <4>1 DEF Placed
    <3>3. CASE task'[d] = "queued" /\ sessionOf[d] = s
      <4>1. task[d] = "queued" /\ d # c
        BY <2>1, <3>3 DEF TypeOK
      <4>2. PICK i \in DOMAIN q : q[i] = d
        BY <1>a, <2>1, <3>3, <4>1 DEF Placed
      <4>3. q # << >>
        BY <4>2, <2>1
      <4>4. CASE i = 1
        BY <4>2, <4>3, <4>4, <2>2, <2>3, <3>3 DEF Placed
      <4>5. CASE i # 1
        <5>1. i - 1 \in 1 .. Len(q) - 1 /\ Tail(q)[i - 1] = d
          BY <4>2, <4>3, <4>5, <2>3
        <5>2. QED
          BY <5>1, <4>3, <2>2, <2>3, <3>3 DEF Placed
      <4>6. QED
        BY <4>4, <4>5
    <3>4. QED
      BY <3>1, <3>2, <3>3
  <2>6. ASSUME NEW x \in Sess, x # s PROVE InLine(x)' /\ Led(x)'
    <3>1. \A d \in Cmd : sessionOf[d] = x => task'[d] = task[d]
      BY <2>1, <2>6 DEF TypeOK
    <3>2. QED
      BY <3>1, <2>2, <2>6, QuietSession
  <2>7. CASE q = << >>
    <3>1. DOMAIN queue'[s] = {} /\ queue'[s] = << >> /\ holder'[s] = NoCmd
      BY <2>2, <2>7
    <3>2. QED
      BY <3>1, <2>5, <2>6 DEF InLine, Led
  <2>8. CASE q # << >>
    <3>1. /\ \A k \in 1 .. Len(q) - 1 : Tail(q)[k] = q[k+1] /\ k + 1 \in DOMAIN q
          /\ \A k \in DOMAIN q : q[k] # c
      BY <2>1, <2>3, <2>4, <2>8 DEF InLine
    <3>2. \A k \in DOMAIN q : task'[q[k]] = "queued" /\ sessionOf[q[k]] = s
      BY <3>1, <2>1, <2>3, <2>4, <2>8 DEF InLine, TypeOK
    <3>3. \A k, l \in DOMAIN q : q[k] = q[l] => k = l
      BY <2>4 DEF InLine
    <3>4. InLine(s)'
      <4>a. queue'[s] = Tail(q)
        BY <2>2, <2>8
      <4>b. \A k \in 1 .. Len(q) - 1 : k + 1 # 1
        BY <2>3, <2>8
      <4>1. \A k \in 1 .. Len(q) - 1 : queue'[s][k] = q[k+1] /\ k + 1 # 1
        BY <3>1, <4>a, <4>b
      <4>2. holder'[s] = q[1] /\ 1 \in DOMAIN q /\ DOMAIN queue'[s] = 1 .. Len(q) - 1
        BY <2>2, <2>3, <2>8
      <4>3. \A k, l \in 1 .. Len(q) - 1 : queue'[s][k] = queue'[s][l] => k = l
        <5> TAKE k, l \in 1 .. Len(q) - 1
        <5>1. queue'[s][k] = queue'[s][l] => k + 1 = l + 1
          BY <3>1, <3>3, <4>1
        <5>2. QED
          BY <5>1
      <4>4. \A k \in 1 .. Len(q) - 1 : queue'[s][k] # holder'[s]
        BY <3>1, <3>3, <4>1, <4>2
      <4>5. QED
        BY <3>1, <3>2, <4>1, <4>2, <4>3, <4>4 DEF InLine
    <3>5. Led(s)'
      BY <3>2, <2>2, <2>3, <2>8 DEF Led
    <3>6. QED
      BY <2>5, <2>6, <3>4, <3>5
  <2>9. QED
    BY <2>7, <2>8
<1>5. CASE DaemonCrash
  <2>1. /\ \A x \in Sess : queue'[x] = << >> /\ DOMAIN queue'[x] = {} /\ holder'[x] = NoCmd
        /\ \A d \in Cmd : task'[d] # "queued"
    BY <1>5 DEF DaemonCrash
  <2>2. QED
    BY <2>1 DEF Placed, InLine, Led
<1>6. QED
  BY <1>1, <1>2, <1>3, <1>4, <1>5, LockSteps

\* At the start nobody waits.
LEMMA WaitersInit == Init => WaitersInv
  BY SessionAssumption
     DEF Init, WaitersInv, NoLostWaiter, IsInjective

\* No lost wake-up: whoever waits for a session lock owns it or stands in the
\* line that its owner, a live task, will release it to (daemon.rs, handle_exec).
THEOREM NoWaiterIsLost == Spec => []NoLostWaiter
<1>1. Init => WaitersInv
  BY WaitersInit
<1>2. WaitersInv => NoLostWaiter
  BY DEF WaitersInv
<1>3. QED
  BY <1>1, <1>2, WaitersStep, TypeCorrect, LockAlwaysOwned, PTL DEF Spec

\* Moving one waiter to the end keeps the order of everybody else, before it too.
LEMMA OrderKept ==
  ASSUME NEW n \in Nat, NEW i \in 1 .. n, NEW k \in 1 .. n, NEW l \in 1 .. n,
         k < l, k # i
  PROVE  NowAt(i, n, k) < NowAt(i, n, l)
  BY DEF NowAt

\* Waiters are served in order of arrival, but one reported as stuck loses its
\* place, once (tokio's fair mutex and the re-queueing of daemon.rs, handle_exec).
THEOREM FairOrder == Spec => OvertakenOnlyWhenWarned
<1> DEFINE Order(c, d) ==
      Ahead(c, d) /\ task'[c] = "queued" /\ task'[d] = "queued"
        => Ahead(c, d)' \/ c \in warned' \ warned
<1>1. TypeOK /\ LockOwned /\ WaitersInv /\ [Next]_vars => \A c, d \in Cmd : Order(c, d)
  <2> SUFFICES ASSUME TypeOK, LockOwned, WaitersInv, [Next]_vars,
                      NEW c \in Cmd, NEW d \in Cmd,
                      Ahead(c, d), task'[c] = "queued", task'[d] = "queued"
               PROVE  Ahead(c, d)' \/ c \in warned' \ warned
    OBVIOUS
  <2> USE SessionAssumption
  <2> DEFINE s == sessionOf[d]
             q == queue[s]
  <2>a. /\ s \in Sess /\ q \in Seq(Cmd) /\ holder[s] \in MaybeCmd
        /\ DOMAIN q = 1 .. Len(q) /\ Len(q) \in Nat
        /\ task[c] = "queued" /\ task[d] = "queued" /\ c # d
        /\ InLine(s) /\ Led(s)
    BY WaitersParts DEF TypeOK, Ahead
  <2>b. holder[s] = c \/ \E i, j \in DOMAIN q : i < j /\ q[i] = c /\ q[j] = d
    BY DEF Ahead
  <2>c. SUFFICES ASSUME c \notin warned' \ warned
                 PROVE  \/ holder'[s] = c
                        \/ \E i, j \in DOMAIN queue'[s] :
                             i < j /\ queue'[s][i] = c /\ queue'[s][j] = d
    BY <2>a DEF Ahead
  <2>1. CASE queue'[s] = queue[s] /\ holder'[s] = holder[s]
    BY <2>1, <2>b
  <2>2. ASSUME NEW e \in Cmd, Enqueue(e), sessionOf[e] = s
        PROVE  \/ holder'[s] = c
               \/ \E i, j \in DOMAIN queue'[s] :
                    i < j /\ queue'[s][i] = c /\ queue'[s][j] = d
    <3>1. CASE holder[s] = NoCmd
      <4>1. q = << >>
        BY <2>a, <3>1 DEF Led
      <4>2. QED
        BY <4>1, <3>1, <2>a, <2>b
    <3>2. CASE holder[s] # NoCmd
      <4> DEFINE longer == Append(q, e)
      <4>1. holder'[s] = holder[s] /\ queue'[s] = longer
        BY <2>2, <2>a, <3>2 DEF Enqueue, TypeOK
      <4>2. \A k \in DOMAIN q : k \in DOMAIN longer /\ longer[k] = q[k]
        BY <2>a
      <4> HIDE DEF longer
      <4>3. QED
        BY <4>1, <4>2, <2>b
    <3>3. QED
      BY <3>1, <3>2
  <2>3. ASSUME NEW e \in Cmd, WarnAndRequeue(e), sessionOf[e] = s
        PROVE  \/ holder'[s] = c
               \/ \E i, j \in DOMAIN queue'[s] :
                    i < j /\ queue'[s][i] = c /\ queue'[s][j] = d
    <3>1. PICK at \in DOMAIN q :
            q[at] = e /\ queue' = [queue EXCEPT ![s] = Requeued(q, at)]
      BY <2>3 DEF WarnAndRequeue, Requeued
    <3>2. e # c /\ holder' = holder
      BY <2>3, <2>c DEF WarnAndRequeue
    <3>3. queue'[s] = Requeued(q, at) /\ Moved(q, at)
      BY <3>1, <2>a, RequeueMoves DEF TypeOK
    <3>4. CASE holder[s] = c
      BY <3>2, <3>4
    <3>5. ASSUME NEW i \in DOMAIN q, NEW j \in DOMAIN q, i < j, q[i] = c, q[j] = d
          PROVE  \E k, l \in DOMAIN queue'[s] :
                   k < l /\ queue'[s][k] = c /\ queue'[s][l] = d
      <4> DEFINE k == NowAt(at, Len(q), i)
                 l == NowAt(at, Len(q), j)
      <4>1. /\ k \in DOMAIN queue'[s] /\ queue'[s][k] = c
            /\ l \in DOMAIN queue'[s] /\ queue'[s][l] = d
        BY <3>3, <3>5 DEF Moved
      <4>2. i # at
        BY <3>1, <3>2, <3>5
      <4>3. k < l
        BY <4>2, <3>5, <2>a, OrderKept
      <4> HIDE DEF k, l
      <4>4. QED
        BY <4>1, <4>3
    <3>6. QED
      BY <3>4, <3>5, <2>b
  <2>4. ASSUME NEW e \in Cmd, Reply(e), sessionOf[e] = s
        PROVE  \/ holder'[s] = c
               \/ \E i, j \in DOMAIN queue'[s] :
                    i < j /\ queue'[s][i] = c /\ queue'[s][j] = d
    <3>1. holder[s] = e /\ e # c
      BY <2>4, <2>a DEF Reply, LockOwned, Critical
    <3>2. PICK i \in DOMAIN q, j \in DOMAIN q : i < j /\ q[i] = c /\ q[j] = d
      BY <3>1, <2>b
    <3>3. q # << >>
      BY <3>2, <2>a
    <3>4. holder'[s] = q[1] /\ queue'[s] = Tail(q)
      BY <3>3, <2>4, <2>a DEF Reply, NextHolder, NextQueue, TypeOK
    <3>5. CASE i = 1
      BY <3>2, <3>4, <3>5
    <3>6. CASE i # 1
      <4>1. /\ i - 1 \in DOMAIN Tail(q) /\ j - 1 \in DOMAIN Tail(q) /\ i - 1 < j - 1
            /\ Tail(q)[i - 1] = c /\ Tail(q)[j - 1] = d
        BY <3>2, <3>3, <3>6, <2>a
      <4>2. QED
        BY <4>1, <3>4
    <3>7. QED
      BY <3>5, <3>6
  <2>5. ASSUME NEW e \in Cmd, Enqueue(e) \/ WarnAndRequeue(e) \/ Reply(e),
               sessionOf[e] # s
        PROVE  queue'[s] = queue[s] /\ holder'[s] = holder[s]
    BY <2>5, <2>a DEF Enqueue, WarnAndRequeue, Reply, TypeOK
  <2>6. ~DaemonCrash
    BY <2>c DEF DaemonCrash
  <2>7. CASE LockQuiet
    BY <2>7, <2>1 DEF LockQuiet
  <2>8. QED
    BY <2>1, <2>2, <2>3, <2>4, <2>5, <2>6, <2>7, LockSteps
<1>2. Init => WaitersInv
  BY WaitersInit
<1>3. QED
  BY <1>1, <1>2, WaitersStep, TypeCorrect, LockAlwaysOwned, PTL
     DEF Spec, OvertakenOnlyWhenWarned

(***************************************************************************)
(* The two halves of a session                                             *)
(***************************************************************************)
\* Neither report is there before the command has ended, and only a crash of the
\* daemon loses a task.
ReportsFollow ==
  /\ \A c \in Cmd : serve[c] \in {"none", "started", "running"}
       => c \notin dumped /\ c \notin reportDir
  /\ crashes = 0 => \A c \in Cmd : task[c] # "lost"

\* Both are kept, and crashes are never forgotten.
LEMMA ReportsFollowStep ==
  TypeOK /\ Lifecycle /\ ReportsFollow /\ [Next]_vars
    => ReportsFollow' /\ (crashes' = 0 => crashes = 0)
  <1> DEFINE Follow == ReportsFollow' /\ (crashes' = 0 => crashes = 0)
  <1> SUFFICES ASSUME TypeOK, Lifecycle, ReportsFollow, [Next]_vars PROVE Follow
    OBVIOUS
  <1> USE SessionAssumption
  <1>1. ASSUME NEW c \in Cmd, Enqueue(c) PROVE Follow
    BY <1>1 DEF ReportsFollow, TypeOK, Enqueue, daemonVars, remoteVars, faultVars
  <1>2. ASSUME NEW c \in Cmd, Refuse(c) PROVE Follow
    BY <1>2 DEF ReportsFollow, TypeOK, Refuse, daemonVars, remoteVars, faultVars
  <1>3. ASSUME NEW c \in Cmd, WarnAndRequeue(c) PROVE Follow
    BY <1>3 DEF ReportsFollow, TypeOK, WarnAndRequeue, daemonVars, remoteVars, faultVars
  <1>4. ASSUME NEW c \in Cmd, Begin(c) PROVE Follow
    BY <1>4 DEF ReportsFollow, TypeOK, Begin, daemonVars, remoteVars, faultVars
  <1>5. ASSUME NEW c \in Cmd, Open(c) PROVE Follow
    BY <1>5 DEF ReportsFollow, Lifecycle, TypeOK, Open, daemonVars, remoteVars, faultVars
  <1>6. ASSUME NEW c \in Cmd, OpenFails(c) PROVE Follow
    BY <1>6 DEF ReportsFollow, TypeOK, OpenFails, EndEngine, daemonVars, remoteVars, faultVars
  <1>7. ASSUME NEW c \in Cmd, EngineReports(c) PROVE Follow
    BY <1>7 DEF ReportsFollow, TypeOK, EngineReports, EndEngine, daemonVars, remoteVars, faultVars
  <1>8. ASSUME NEW c \in Cmd, EngineFails(c) PROVE Follow
    BY <1>8 DEF ReportsFollow, TypeOK, EngineFails, EndEngine, daemonVars, remoteVars, faultVars
  <1>9. ASSUME NEW c \in Cmd, Watchdog(c) PROVE Follow
    BY <1>9 DEF ReportsFollow, TypeOK, Watchdog, EndEngine, EngineAlive, daemonVars, remoteVars, faultVars
  <1>10. ASSUME NEW c \in Cmd, Fatal(c) PROVE Follow
    BY <1>10 DEF ReportsFollow, TypeOK, Fatal, EndEngine, EngineAlive, daemonVars, remoteVars, faultVars
  <1>11. ASSUME NEW c \in Cmd, Settle(c) PROVE Follow
    BY <1>11 DEF ReportsFollow, TypeOK, Settle, daemonVars, remoteVars, faultVars
  <1>12. ASSUME NEW c \in Cmd, Reply(c) PROVE Follow
    BY <1>12 DEF ReportsFollow, TypeOK, Reply, daemonVars, remoteVars, faultVars
  <1>13. ASSUME NEW c \in Cmd, ClientStalls(c) PROVE Follow
    BY <1>13 DEF ReportsFollow, TypeOK, ClientStalls, daemonVars, remoteVars, faultVars
  <1>14. ASSUME NEW c \in Cmd, ClientResumes(c) PROVE Follow
    BY <1>14 DEF ReportsFollow, TypeOK, ClientResumes, daemonVars, remoteVars, faultVars
  <1>15. ASSUME NEW c \in Cmd, ClientLeaves(c) PROVE Follow
    BY <1>15 DEF ReportsFollow, TypeOK, ClientLeaves, daemonVars, remoteVars, faultVars
  <1>16. ASSUME NEW c \in Cmd, LoadAndSpawn(c) PROVE Follow
    BY <1>16 DEF ReportsFollow, TypeOK, LoadAndSpawn, ServeGoes, daemonVars, remoteVars, faultVars
  <1>17. ASSUME NEW c \in Cmd, SpawnFails(c) PROVE Follow
    BY <1>17 DEF ReportsFollow, TypeOK, SpawnFails, ServeGoes, daemonVars, remoteVars, faultVars
  <1>18. ASSUME NEW c \in Cmd, CommandEnds(c) PROVE Follow
    BY <1>18 DEF ReportsFollow, TypeOK, CommandEnds, ServeGoes, daemonVars, remoteVars, faultVars
  <1>19. ASSUME NEW c \in Cmd, SeesClose(c) PROVE Follow
    BY <1>19 DEF ReportsFollow, TypeOK, SeesClose, ServeEnds, daemonVars, remoteVars, faultVars
  <1>20. ASSUME NEW c \in Cmd, SaveState(c) PROVE Follow
    BY <1>20 DEF ReportsFollow, TypeOK, SaveState, ServeGoes, daemonVars, remoteVars, faultVars
  <1>21. ASSUME NEW c \in Cmd, SendExit(c) PROVE Follow
    BY <1>21 DEF ReportsFollow, TypeOK, SendExit, ServeEnds, ChannelClosed, EngineAlive, daemonVars, remoteVars, faultVars
  <1>22. ASSUME NEW c \in Cmd, ServeDies(c) PROVE Follow
    BY <1>22 DEF ReportsFollow, TypeOK, ServeDies, ServeEnds, daemonVars, remoteVars, faultVars
  <1>23. CASE LoseConnection
    BY <1>23 DEF ReportsFollow, TypeOK, LoseConnection, daemonVars, remoteVars, faultVars
  <1>24. CASE DaemonCrash
    BY <1>24 DEF ReportsFollow, TypeOK, DaemonCrash, daemonVars, remoteVars, faultVars
  <1>25. CASE UNCHANGED vars
    BY <1>25 DEF ReportsFollow, TypeOK, vars, daemonVars, remoteVars, faultVars
  <1>27. ASSUME NEW c \in Cmd, SaveFails(c) PROVE Follow
    BY <1>27 DEF ReportsFollow, TypeOK, SaveFails, ServeGoes, daemonVars, remoteVars, faultVars
  <1>26. QED
    BY <1>1, <1>2, <1>3, <1>4, <1>5, <1>6, <1>7, <1>8, <1>9, <1>10, <1>11, <1>12, <1>13, <1>14, <1>15, <1>16, <1>17, <1>18, <1>19, <1>20, <1>21, <1>22, <1>23, <1>24, <1>25, <1>27 DEF Next, TaskStep, ClientStep, ServeStep

\* An execution that will never tell the daemon what it did, or that kept only
\* one of its two reports.
OutOfStep(c) ==
  \/ serve[c] # "none" /\ outcome[c] = "err"
  \/ serve[c] = "gone" /\ c \notin inbox
  \/ serve[c] = "draining" /\ c \notin dumped /\ c \in reportDir
  \/ serve[c] \in {"saved", "gone"} /\ ~(c \in dumped <=> c \in reportDir)

\* The state file has the command's state, the bucket not yet its directory.
Unsettled(c) ==
  /\ serve[c] \in {"saved", "gone"}
  /\ task[c] \in {"running", "unwinding"}
  /\ c \in dumped

\* The inductive form of DirAndStateAgree for one session: as long as nothing has
\* put it out of step, the bucket is at most one settlement behind the file.
InStep(s) ==
  (\A c \in Cmd : sessionOf[c] = s => ~OutOfStep(c)) =>
    /\ \A c \in Cmd : sessionOf[c] = s /\ Unsettled(c) => file[s] = c
    /\ (\A c \in Cmd : sessionOf[c] = s => ~Unsettled(c)) => file[s] = bucket[s]

\* What is out of step stays so.
LEMMA OutOfStepStays ==
  ASSUME TypeOK, Lifecycle, ReportsFollow, [Next]_vars, NEW x \in Cmd, OutOfStep(x)
  PROVE  OutOfStep(x)'
  <1> USE SessionAssumption
  <1>1. ASSUME NEW c \in Cmd, Enqueue(c) PROVE OutOfStep(x)'
    BY <1>1 DEF OutOfStep, Lifecycle, ReportsFollow, TypeOK, Enqueue, daemonVars, remoteVars, faultVars
  <1>2. ASSUME NEW c \in Cmd, Refuse(c) PROVE OutOfStep(x)'
    BY <1>2 DEF OutOfStep, Lifecycle, ReportsFollow, TypeOK, Refuse, daemonVars, remoteVars, faultVars
  <1>3. ASSUME NEW c \in Cmd, WarnAndRequeue(c) PROVE OutOfStep(x)'
    BY <1>3 DEF OutOfStep, Lifecycle, ReportsFollow, TypeOK, WarnAndRequeue, daemonVars, remoteVars, faultVars
  <1>4. ASSUME NEW c \in Cmd, Begin(c) PROVE OutOfStep(x)'
    BY <1>4 DEF OutOfStep, Lifecycle, ReportsFollow, TypeOK, Begin, daemonVars, remoteVars, faultVars
  <1>5. ASSUME NEW c \in Cmd, Open(c) PROVE OutOfStep(x)'
    BY <1>5 DEF OutOfStep, Lifecycle, ReportsFollow, TypeOK, Open, daemonVars, remoteVars, faultVars
  <1>6. ASSUME NEW c \in Cmd, OpenFails(c) PROVE OutOfStep(x)'
    BY <1>6 DEF OutOfStep, Lifecycle, ReportsFollow, TypeOK, OpenFails, EndEngine, daemonVars, remoteVars, faultVars
  <1>7. ASSUME NEW c \in Cmd, EngineReports(c) PROVE OutOfStep(x)'
    BY <1>7 DEF OutOfStep, Lifecycle, ReportsFollow, TypeOK, EngineReports, EndEngine, daemonVars, remoteVars, faultVars
  <1>8. ASSUME NEW c \in Cmd, EngineFails(c) PROVE OutOfStep(x)'
    BY <1>8 DEF OutOfStep, Lifecycle, ReportsFollow, TypeOK, EngineFails, EndEngine, daemonVars, remoteVars, faultVars
  <1>9. ASSUME NEW c \in Cmd, Watchdog(c) PROVE OutOfStep(x)'
    BY <1>9 DEF OutOfStep, Lifecycle, ReportsFollow, TypeOK, Watchdog, EndEngine, EngineAlive, daemonVars, remoteVars, faultVars
  <1>10. ASSUME NEW c \in Cmd, Fatal(c) PROVE OutOfStep(x)'
    BY <1>10 DEF OutOfStep, Lifecycle, ReportsFollow, TypeOK, Fatal, EndEngine, EngineAlive, daemonVars, remoteVars, faultVars
  <1>11. ASSUME NEW c \in Cmd, Settle(c) PROVE OutOfStep(x)'
    BY <1>11 DEF OutOfStep, Lifecycle, ReportsFollow, TypeOK, Settle, daemonVars, remoteVars, faultVars
  <1>12. ASSUME NEW c \in Cmd, Reply(c) PROVE OutOfStep(x)'
    BY <1>12 DEF OutOfStep, Lifecycle, ReportsFollow, TypeOK, Reply, daemonVars, remoteVars, faultVars
  <1>13. ASSUME NEW c \in Cmd, ClientStalls(c) PROVE OutOfStep(x)'
    BY <1>13 DEF OutOfStep, Lifecycle, ReportsFollow, TypeOK, ClientStalls, daemonVars, remoteVars, faultVars
  <1>14. ASSUME NEW c \in Cmd, ClientResumes(c) PROVE OutOfStep(x)'
    BY <1>14 DEF OutOfStep, Lifecycle, ReportsFollow, TypeOK, ClientResumes, daemonVars, remoteVars, faultVars
  <1>15. ASSUME NEW c \in Cmd, ClientLeaves(c) PROVE OutOfStep(x)'
    BY <1>15 DEF OutOfStep, Lifecycle, ReportsFollow, TypeOK, ClientLeaves, daemonVars, remoteVars, faultVars
  <1>16. ASSUME NEW c \in Cmd, LoadAndSpawn(c) PROVE OutOfStep(x)'
    BY <1>16 DEF OutOfStep, Lifecycle, ReportsFollow, TypeOK, LoadAndSpawn, ServeGoes, daemonVars, remoteVars, faultVars
  <1>17. ASSUME NEW c \in Cmd, SpawnFails(c) PROVE OutOfStep(x)'
    BY <1>17 DEF OutOfStep, Lifecycle, ReportsFollow, TypeOK, SpawnFails, ServeGoes, daemonVars, remoteVars, faultVars
  <1>18. ASSUME NEW c \in Cmd, CommandEnds(c) PROVE OutOfStep(x)'
    BY <1>18 DEF OutOfStep, Lifecycle, ReportsFollow, TypeOK, CommandEnds, ServeGoes, daemonVars, remoteVars, faultVars
  <1>19. ASSUME NEW c \in Cmd, SeesClose(c) PROVE OutOfStep(x)'
    BY <1>19 DEF OutOfStep, Lifecycle, ReportsFollow, TypeOK, SeesClose, ServeEnds, daemonVars, remoteVars, faultVars
  <1>20. ASSUME NEW c \in Cmd, SaveState(c) PROVE OutOfStep(x)'
    BY <1>20 DEF OutOfStep, Lifecycle, ReportsFollow, TypeOK, SaveState, ServeGoes, daemonVars, remoteVars, faultVars
  <1>21. ASSUME NEW c \in Cmd, SendExit(c) PROVE OutOfStep(x)'
    BY <1>21 DEF OutOfStep, Lifecycle, ReportsFollow, TypeOK, SendExit, ServeEnds, ChannelClosed, EngineAlive, daemonVars, remoteVars, faultVars
  <1>22. ASSUME NEW c \in Cmd, ServeDies(c) PROVE OutOfStep(x)'
    BY <1>22 DEF OutOfStep, Lifecycle, ReportsFollow, TypeOK, ServeDies, ServeEnds, daemonVars, remoteVars, faultVars
  <1>23. CASE LoseConnection
    BY <1>23 DEF OutOfStep, Lifecycle, ReportsFollow, TypeOK, LoseConnection, daemonVars, remoteVars, faultVars
  <1>24. CASE DaemonCrash
    BY <1>24 DEF OutOfStep, Lifecycle, ReportsFollow, TypeOK, DaemonCrash, daemonVars, remoteVars, faultVars
  <1>25. CASE UNCHANGED vars
    BY <1>25 DEF OutOfStep, Lifecycle, ReportsFollow, TypeOK, vars, daemonVars, remoteVars, faultVars
  <1>27. ASSUME NEW c \in Cmd, SaveFails(c) PROVE OutOfStep(x)'
    BY <1>27 DEF OutOfStep, Lifecycle, ReportsFollow, TypeOK, SaveFails, ServeGoes, daemonVars, remoteVars, faultVars
  <1>26. QED
    BY <1>1, <1>2, <1>3, <1>4, <1>5, <1>6, <1>7, <1>8, <1>9, <1>10, <1>11, <1>12, <1>13, <1>14, <1>15, <1>16, <1>17, <1>18, <1>19, <1>20, <1>21, <1>22, <1>23, <1>24, <1>25, <1>27 DEF Next, TaskStep, ClientStep, ServeStep

\* A step that touches neither half of a session, and settles nothing.
LEMMA QuietHalves ==
  ASSUME TypeOK, Lifecycle, ReportsFollow, [Next]_vars, NEW s \in Sess, InStep(s),
         file'[s] = file[s], bucket'[s] = bucket[s],
         \A c \in Cmd : sessionOf[c] = s /\ ~OutOfStep(c)' => (Unsettled(c)' <=> Unsettled(c))
  PROVE  InStep(s)'
<1> SUFFICES ASSUME \A c \in Cmd : sessionOf[c] = s => ~OutOfStep(c)'
             PROVE  /\ \A c \in Cmd : sessionOf[c] = s /\ Unsettled(c)' => file'[s] = c
                    /\ (\A c \in Cmd : sessionOf[c] = s => ~Unsettled(c)')
                         => file'[s] = bucket'[s]
  BY DEF InStep
<1>1. \A c \in Cmd : sessionOf[c] = s => ~OutOfStep(c)
  BY OutOfStepStays
<1>2. QED
  BY <1>1 DEF InStep

\* Every step but the save and the settlement is of that kind.
LEMMA InStepStep ==
  ASSUME TypeOK, LockOwned, Lifecycle, ReportsFollow, [Next]_vars, crashes' = 0,
         NEW s \in Sess, InStep(s)
  PROVE  InStep(s)'
  <1> USE SessionAssumption
  <1> DEFINE Quiet ==
        /\ file'[s] = file[s] /\ bucket'[s] = bucket[s]
        /\ \A c \in Cmd : sessionOf[c] = s /\ ~OutOfStep(c)'
                            => (Unsettled(c)' <=> Unsettled(c))
  <1>a. Quiet => InStep(s)'
    BY QuietHalves
  <1>b. \A x \in Cmd : OutOfStep(x) => OutOfStep(x)'
    BY OutOfStepStays
  <1>1. ASSUME NEW c \in Cmd, Enqueue(c) PROVE InStep(s)'
    <2>1. Quiet
      BY <1>1 DEF Unsettled, OutOfStep, Lifecycle, ReportsFollow, TypeOK, Enqueue, daemonVars, remoteVars, faultVars
    <2>2. QED
      BY <2>1, <1>a
  <1>2. ASSUME NEW c \in Cmd, Refuse(c) PROVE InStep(s)'
    <2>1. Quiet
      BY <1>2 DEF Unsettled, OutOfStep, Lifecycle, ReportsFollow, TypeOK, Refuse, daemonVars, remoteVars, faultVars
    <2>2. QED
      BY <2>1, <1>a
  <1>3. ASSUME NEW c \in Cmd, WarnAndRequeue(c) PROVE InStep(s)'
    <2>1. Quiet
      BY <1>3 DEF Unsettled, OutOfStep, Lifecycle, ReportsFollow, TypeOK, WarnAndRequeue, daemonVars, remoteVars, faultVars
    <2>2. QED
      BY <2>1, <1>a
  <1>4. ASSUME NEW c \in Cmd, Begin(c) PROVE InStep(s)'
    <2>1. Quiet
      BY <1>4 DEF Unsettled, OutOfStep, Lifecycle, ReportsFollow, TypeOK, Begin, daemonVars, remoteVars, faultVars
    <2>2. QED
      BY <2>1, <1>a
  <1>5. ASSUME NEW c \in Cmd, Open(c) PROVE InStep(s)'
    <2>1. Quiet
      BY <1>5 DEF Unsettled, OutOfStep, Lifecycle, ReportsFollow, TypeOK, Open, daemonVars, remoteVars, faultVars
    <2>2. QED
      BY <2>1, <1>a
  <1>6. ASSUME NEW c \in Cmd, OpenFails(c) PROVE InStep(s)'
    <2>1. Quiet
      BY <1>6 DEF Unsettled, OutOfStep, Lifecycle, ReportsFollow, TypeOK, OpenFails, EndEngine, daemonVars, remoteVars, faultVars
    <2>2. QED
      BY <2>1, <1>a
  <1>7. ASSUME NEW c \in Cmd, EngineReports(c) PROVE InStep(s)'
    <2>1. Quiet
      BY <1>7 DEF Unsettled, OutOfStep, Lifecycle, ReportsFollow, TypeOK, EngineReports, EndEngine, daemonVars, remoteVars, faultVars
    <2>2. QED
      BY <2>1, <1>a
  <1>8. ASSUME NEW c \in Cmd, EngineFails(c) PROVE InStep(s)'
    <2>1. Quiet
      BY <1>8 DEF Unsettled, OutOfStep, Lifecycle, ReportsFollow, TypeOK, EngineFails, EndEngine, daemonVars, remoteVars, faultVars
    <2>2. QED
      BY <2>1, <1>a
  <1>9. ASSUME NEW c \in Cmd, Watchdog(c) PROVE InStep(s)'
    <2>1. Quiet
      BY <1>9 DEF Unsettled, OutOfStep, Lifecycle, ReportsFollow, TypeOK, Watchdog, EndEngine, EngineAlive, daemonVars, remoteVars, faultVars
    <2>2. QED
      BY <2>1, <1>a
  <1>10. ASSUME NEW c \in Cmd, Fatal(c) PROVE InStep(s)'
    <2>1. Quiet
      BY <1>10 DEF Unsettled, OutOfStep, Lifecycle, ReportsFollow, TypeOK, Fatal, EndEngine, EngineAlive, daemonVars, remoteVars, faultVars
    <2>2. QED
      BY <2>1, <1>a
  <1>11. ASSUME NEW c \in Cmd, Settle(c) PROVE InStep(s)'
    <2>1. CASE sessionOf[c] # s
      <3>1. Quiet
        BY <1>11, <2>1 DEF Settle, Unsettled, OutOfStep, TypeOK, remoteVars, faultVars
      <3>2. QED
        BY <3>1, <1>a
    <2>2. CASE sessionOf[c] = s /\ OutOfStep(c)
      BY <2>2, <1>b DEF InStep
    <2>3. CASE sessionOf[c] = s /\ ~OutOfStep(c)
      <3>1. /\ task[c] = "unwinding" /\ outcome[c] \in {"ok", "err"}
            /\ task' = [task EXCEPT ![c] = "replying"]
            /\ serve' = serve /\ dumped' = dumped /\ file' = file
            /\ bucket' = IF outcome[c] = "ok" /\ c \in reportDir
                           THEN [bucket EXCEPT ![s] = c] ELSE bucket
        BY <1>11, <2>3 DEF Settle, Lifecycle, remoteVars
      <3>2. \A d \in Cmd : sessionOf[d] = s => ~Unsettled(d)'
        BY <3>1, <2>3 DEF Unsettled, LockOwned, Critical, TypeOK
      <3>3. \A d \in Cmd : sessionOf[d] = s /\ d # c => ~Unsettled(d)
        BY <3>1, <2>3 DEF Unsettled, LockOwned, Critical, TypeOK
      <3>4. CASE Unsettled(c)
        <4>1. outcome[c] = "ok" /\ c \in reportDir
          BY <3>1, <3>4, <2>3 DEF OutOfStep, Unsettled, Lifecycle
        <4>2. bucket'[s] = c
          BY <3>1, <4>1 DEF TypeOK
        <4>3. QED
          BY <3>1, <3>2, <3>4, <4>2, <2>3, <1>b DEF InStep
      <3>5. CASE ~Unsettled(c)
        <4>1. ~(outcome[c] = "ok" /\ c \in reportDir)
          BY <3>1, <3>5, <2>3 DEF OutOfStep, Unsettled, Lifecycle
        <4>2. bucket' = bucket
          BY <3>1, <4>1
        <4>3. QED
          BY <3>1, <3>2, <3>3, <3>5, <4>2, <2>3, <1>b DEF InStep
      <3>6. QED
        BY <3>4, <3>5
    <2>4. QED
      BY <2>1, <2>2, <2>3
  <1>12. ASSUME NEW c \in Cmd, Reply(c) PROVE InStep(s)'
    <2>1. Quiet
      BY <1>12 DEF Unsettled, OutOfStep, Lifecycle, ReportsFollow, TypeOK, Reply, daemonVars, remoteVars, faultVars
    <2>2. QED
      BY <2>1, <1>a
  <1>13. ASSUME NEW c \in Cmd, ClientStalls(c) PROVE InStep(s)'
    <2>1. Quiet
      BY <1>13 DEF Unsettled, OutOfStep, Lifecycle, ReportsFollow, TypeOK, ClientStalls, daemonVars, remoteVars, faultVars
    <2>2. QED
      BY <2>1, <1>a
  <1>14. ASSUME NEW c \in Cmd, ClientResumes(c) PROVE InStep(s)'
    <2>1. Quiet
      BY <1>14 DEF Unsettled, OutOfStep, Lifecycle, ReportsFollow, TypeOK, ClientResumes, daemonVars, remoteVars, faultVars
    <2>2. QED
      BY <2>1, <1>a
  <1>15. ASSUME NEW c \in Cmd, ClientLeaves(c) PROVE InStep(s)'
    <2>1. Quiet
      BY <1>15 DEF Unsettled, OutOfStep, Lifecycle, ReportsFollow, TypeOK, ClientLeaves, daemonVars, remoteVars, faultVars
    <2>2. QED
      BY <2>1, <1>a
  <1>16. ASSUME NEW c \in Cmd, LoadAndSpawn(c) PROVE InStep(s)'
    <2>1. Quiet
      BY <1>16 DEF Unsettled, OutOfStep, Lifecycle, ReportsFollow, TypeOK, LoadAndSpawn, ServeGoes, daemonVars, remoteVars, faultVars
    <2>2. QED
      BY <2>1, <1>a
  <1>17. ASSUME NEW c \in Cmd, SpawnFails(c) PROVE InStep(s)'
    <2>1. Quiet
      BY <1>17 DEF Unsettled, OutOfStep, Lifecycle, ReportsFollow, TypeOK, SpawnFails, ServeGoes, daemonVars, remoteVars, faultVars
    <2>2. QED
      BY <2>1, <1>a
  <1>18. ASSUME NEW c \in Cmd, CommandEnds(c) PROVE InStep(s)'
    <2>1. Quiet
      BY <1>18 DEF Unsettled, OutOfStep, Lifecycle, ReportsFollow, TypeOK, CommandEnds, ServeGoes, daemonVars, remoteVars, faultVars
    <2>2. QED
      BY <2>1, <1>a
  <1>19. ASSUME NEW c \in Cmd, SeesClose(c) PROVE InStep(s)'
    <2>1. Quiet
      BY <1>19 DEF Unsettled, OutOfStep, Lifecycle, ReportsFollow, TypeOK, SeesClose, ServeEnds, daemonVars, remoteVars, faultVars
    <2>2. QED
      BY <2>1, <1>a
  <1>20. ASSUME NEW c \in Cmd, SaveState(c) PROVE InStep(s)'
    <2>1. CASE sessionOf[c] # s \/ c \notin dumped
      <3>1. Quiet
        BY <1>20, <2>1 DEF SaveState, ServeGoes, Unsettled, OutOfStep, TypeOK, daemonVars
      <3>2. QED
        BY <3>1, <1>a
    <2>2. CASE sessionOf[c] = s /\ OutOfStep(c)
      BY <2>2, <1>b DEF InStep
    <2>3. CASE sessionOf[c] = s /\ c \in dumped /\ ~OutOfStep(c)
      <3>1. /\ serve[c] = "draining" /\ file'[s] = c /\ task' = task
            /\ serve' = [serve EXCEPT ![c] = "saved"] /\ dumped' = dumped
        BY <1>20, <2>3 DEF SaveState, ServeGoes, TypeOK, daemonVars
      <3>2. crashes = 0
        BY <1>20 DEF SaveState, faultVars
      <3>3. task[c] = "running"
        BY <3>1, <3>2, <2>3, BusyIsRunning DEF ServeBusy, Abandoned, OutOfStep, ReportsFollow
      <3>4. Unsettled(c)'
        BY <3>1, <3>3, <2>3 DEF Unsettled, TypeOK
      <3>5. \A d \in Cmd : sessionOf[d] = s /\ Unsettled(d)' => d = c
        BY <3>1, <3>3, <2>3 DEF Unsettled, LockOwned, Critical
      <3>6. QED
        BY <3>1, <3>4, <3>5, <2>3 DEF InStep
    <2>4. QED
      BY <2>1, <2>2, <2>3
  <1>21. ASSUME NEW c \in Cmd, SendExit(c) PROVE InStep(s)'
    <2>1. Quiet
      BY <1>21 DEF Unsettled, OutOfStep, Lifecycle, ReportsFollow, TypeOK, SendExit, ServeEnds, ChannelClosed, EngineAlive, daemonVars, remoteVars, faultVars
    <2>2. QED
      BY <2>1, <1>a
  <1>22. ASSUME NEW c \in Cmd, ServeDies(c) PROVE InStep(s)'
    <2>1. Quiet
      BY <1>22 DEF Unsettled, OutOfStep, Lifecycle, ReportsFollow, TypeOK, ServeDies, ServeEnds, daemonVars, remoteVars, faultVars
    <2>2. QED
      BY <2>1, <1>a
  <1>23. CASE LoseConnection
    <2>1. Quiet
      BY <1>23 DEF Unsettled, OutOfStep, Lifecycle, ReportsFollow, TypeOK, LoseConnection, daemonVars, remoteVars, faultVars
    <2>2. QED
      BY <2>1, <1>a
  <1>24. CASE DaemonCrash
    BY <1>24 DEF DaemonCrash, TypeOK
  <1>25. CASE UNCHANGED vars
    <2>1. Quiet
      BY <1>25 DEF Unsettled, OutOfStep, Lifecycle, ReportsFollow, TypeOK, vars, daemonVars, remoteVars, faultVars
    <2>2. QED
      BY <2>1, <1>a
  <1>27. ASSUME NEW c \in Cmd, SaveFails(c) PROVE InStep(s)'
    <2>1. Quiet
      BY <1>27 DEF Unsettled, OutOfStep, Lifecycle, ReportsFollow, TypeOK, SaveFails, ServeGoes, daemonVars, remoteVars, faultVars
    <2>2. QED
      BY <2>1, <1>a
  <1>26. QED
    BY <1>1, <1>2, <1>3, <1>4, <1>5, <1>6, <1>7, <1>8, <1>9, <1>10, <1>11, <1>12, <1>13, <1>14, <1>15, <1>16, <1>17, <1>18, <1>19, <1>20, <1>21, <1>22, <1>23, <1>24, <1>25, <1>27 DEF Next, TaskStep, ClientStep, ServeStep

\* The daemon's directory and the remote state of a session come from the same
\* command whenever all its commands ended in order: the file is saved before
\* the report, the bucket set after it, and no other command is let in between.
THEOREM HalvesAgree == Spec => []DirAndStateAgree
<1> DEFINE AllInStep == crashes = 0 => \A s \in Sess : InStep(s)
<1>1. Init => ReportsFollow /\ AllInStep
  BY DEF Init, ReportsFollow, InStep, Unsettled
<1>2. TypeOK /\ LockOwned /\ Lifecycle /\ ReportsFollow /\ AllInStep /\ [Next]_vars
        => AllInStep'
  <2> SUFFICES ASSUME TypeOK, LockOwned, Lifecycle, ReportsFollow, AllInStep, [Next]_vars,
                      crashes' = 0, NEW s \in Sess
               PROVE  InStep(s)'
    OBVIOUS
  <2>1. crashes = 0
    BY ReportsFollowStep
  <2>2. QED
    BY <2>1, InStepStep
<1>3. TypeOK /\ Lifecycle /\ AllInStep => DirAndStateAgree
  <2> SUFFICES ASSUME TypeOK, Lifecycle, AllInStep, crashes = 0, NEW s \in Sess,
                      \A c \in Cmd : sessionOf[c] = s => Complete(c)
               PROVE  bucket[s] = file[s]
    BY DEF DirAndStateAgree
  <2>1. ASSUME NEW c \in Cmd, sessionOf[c] = s
        PROVE  ~OutOfStep(c) /\ ~Unsettled(c)
    BY <2>1 DEF Complete, OutOfStep, Unsettled, Lifecycle
  <2>2. QED
    BY <2>1 DEF InStep
<1>4. QED
  BY <1>1, <1>2, <1>3, ReportsFollowStep, TypeCorrect, LockAlwaysOwned, LifecycleHolds,
     PTL DEF Spec

(***************************************************************************)
(* The sessions of Turns                                                   *)
(***************************************************************************)
Seen(s) == IF TurnPhase(s) = "acting" THEN startDir[Turn(s)] ELSE NoCmd

\* A command at work has the turn of its session.
WorkersHaveTurn ==
  \A c \in Cmd : task[c] \in Critical =>
    /\ Turn(sessionOf[c]) = c
    /\ TurnPhase(sessionOf[c]) = IF EngineAlive(c) THEN "acting" ELSE "over"
    /\ Seen(sessionOf[c]) = IF EngineAlive(c) THEN startDir[c] ELSE NoCmd

\* The owner of the lock is the only candidate for the turn,
LEMMA TurnTaken == LockOwned => WorkersHaveTurn
<1> SUFFICES ASSUME LockOwned, NEW c \in Cmd, task[c] \in Critical
             PROVE  /\ Turn(sessionOf[c]) = c
                    /\ TurnPhase(sessionOf[c]) = IF EngineAlive(c) THEN "acting" ELSE "over"
                    /\ Seen(sessionOf[c]) = IF EngineAlive(c) THEN startDir[c] ELSE NoCmd
  BY DEF WorkersHaveTurn
<1> DEFINE s == sessionOf[c]
<1>1. \A d \in Cmd : sessionOf[d] = s /\ task[d] \in Critical => d = c
  BY DEF LockOwned
<1>2. Turn(s) = c
  BY <1>1 DEF Turn
<1>3. c # NoCmd
  BY SessionAssumption
<1>4. QED
  BY <1>2, <1>3 DEF TurnPhase, Seen

\* after a step as well.
LEMMA TurnTakenNext == LockOwned' => WorkersHaveTurn'
BY TurnTaken, PTL

\* Without one the session is free.
LEMMA TurnFree ==
  ASSUME NEW s \in Sess, \A c \in Cmd : sessionOf[c] = s => task[c] \notin Critical
  PROVE  Turn(s) = NoCmd /\ TurnPhase(s) = "none" /\ Seen(s) = NoCmd
<1>1. Turn(s) = NoCmd
  BY DEF Turn
<1>2. QED
  BY <1>1 DEF TurnPhase, Seen

\* A session none of whose commands starts, stops or changes its directory.
LEMMA TurnKept ==
  ASSUME LockOwned, LockOwned', NEW s \in Sess,
         \A c \in Cmd : sessionOf[c] = s =>
           /\ task'[c] \in Critical <=> task[c] \in Critical
           /\ EngineAlive(c)' <=> EngineAlive(c)
           /\ startDir'[c] = startDir[c]
  PROVE  Turn(s)' = Turn(s) /\ TurnPhase(s)' = TurnPhase(s) /\ Seen(s)' = Seen(s)
<1>1. CASE \E c \in Cmd : sessionOf[c] = s /\ task[c] \in Critical
  <2>1. PICK c \in Cmd : sessionOf[c] = s /\ task[c] \in Critical
    BY <1>1
  <2>2. task'[c] \in Critical
    BY <2>1
  <2>3. /\ Turn(s) = c
        /\ TurnPhase(s) = IF EngineAlive(c) THEN "acting" ELSE "over"
        /\ Seen(s) = IF EngineAlive(c) THEN startDir[c] ELSE NoCmd
    BY <2>1, TurnTaken DEF WorkersHaveTurn
  <2>4. /\ Turn(s)' = c
        /\ TurnPhase(s)' = IF EngineAlive(c)' THEN "acting" ELSE "over"
        /\ Seen(s)' = IF EngineAlive(c)' THEN startDir'[c] ELSE NoCmd
    BY <2>1, <2>2, TurnTakenNext DEF WorkersHaveTurn
  <2>5. QED
    BY <2>1, <2>3, <2>4
<1>2. CASE \A c \in Cmd : sessionOf[c] = s => task[c] \notin Critical
  <2>1. Turn(s) = NoCmd /\ TurnPhase(s) = "none" /\ Seen(s) = NoCmd
    BY <1>2, TurnFree
  <2>2. Turn(s)' = NoCmd /\ TurnPhase(s)' = "none" /\ Seen(s)' = NoCmd
    BY <1>2 DEF Turn, TurnPhase, Seen
  <2>3. QED
    BY <2>1, <2>2
<1>3. QED
  BY <1>1, <1>2

(***************************************************************************)
(* The steps                                                               *)
(***************************************************************************)
\* The commands of other sessions keep their turns.
Others(c) == \A d \in Cmd \ {c} : task'[d] = task[d] /\ startDir'[d] = startDir[d]

\* A step of one session's commands leaves the turns of the others.
LEMMA OtherTurnsKept ==
  ASSUME LockOwned, LockOwned', NEW c \in Cmd, Others(c),
         NEW s \in Sess, s # sessionOf[c]
  PROVE  Turn(s)' = Turn(s) /\ TurnPhase(s)' = TurnPhase(s) /\ Seen(s)' = Seen(s)
BY TurnKept DEF Others, EngineAlive

\* A step that changes no turn at all stutters for Turns.
LEMMA QuietForTurns ==
  ASSUME LockOwned, LockOwned', bucket' = bucket,
         \A c \in Cmd :
           /\ task'[c] \in Critical <=> task[c] \in Critical
           /\ EngineAlive(c)' <=> EngineAlive(c)
           /\ startDir'[c] = startDir[c]
  PROVE  UNCHANGED Abstract!vars
<1>1. \A s \in Sess :
        Turn(s)' = Turn(s) /\ TurnPhase(s)' = TurnPhase(s) /\ Seen(s)' = Seen(s)
  BY TurnKept
<1>2. QED
  BY <1>1 DEF Abstract!vars, Seen

\* Begin takes the turn with the session's directory.
LEMMA BeginTakes ==
  ASSUME TypeOK, LockOwned, LockOwned', NEW c \in Cmd, Begin(c)
  PROVE  Abstract!Take(sessionOf[c], c)
<1> DEFINE s == sessionOf[c]
<1>1. s \in Sess /\ Others(c) /\ bucket' = bucket
  BY SessionAssumption DEF Begin, TypeOK, Others
<1>2. /\ task'[c] \in Critical /\ EngineAlive(c)'
      /\ startDir'[c] = IF c \in OwnDir THEN c ELSE bucket[s]
  BY DEF Begin, TypeOK, Critical, EngineAlive
<1>3. Turn(s) = NoCmd /\ TurnPhase(s) = "none" /\ Seen(s) = NoCmd
  BY <1>1, TurnFree DEF Begin, LockOwned, Critical
<1>4. Turn(s)' = c /\ TurnPhase(s)' = "acting" /\ Seen(s)' = startDir'[c]
  BY <1>2, TurnTakenNext DEF WorkersHaveTurn
<1>5. \A t \in Sess \ {s} :
        Turn(t)' = Turn(t) /\ TurnPhase(t)' = TurnPhase(t) /\ Seen(t)' = Seen(t)
  BY <1>1, OtherTurnsKept
<1>6. QED
  BY <1>1, <1>2, <1>3, <1>4, <1>5 DEF Abstract!Take, Seen

\* An engine that ends, ends the acting phase.
LEMMA EndActs ==
  ASSUME TypeOK, LockOwned, LockOwned', NEW c \in Cmd, NEW how,
         EngineAlive(c), EndEngine(c, how)
  PROVE  Abstract!Act(sessionOf[c])
<1> DEFINE s == sessionOf[c]
<1>1. s \in Sess /\ Others(c) /\ bucket' = bucket
  BY SessionAssumption DEF EndEngine, TypeOK, Others
<1>2. /\ task[c] \in Critical /\ task'[c] \in Critical
      /\ ~EngineAlive(c)'
  BY DEF EndEngine, TypeOK, Critical, EngineAlive
<1>3. Turn(s) = c /\ TurnPhase(s) = "acting"
  BY <1>2, TurnTaken DEF WorkersHaveTurn
<1>4. Turn(s)' = c /\ TurnPhase(s)' = "over" /\ Seen(s)' = NoCmd
  BY <1>2, TurnTakenNext DEF WorkersHaveTurn
<1>5. \A t \in Sess \ {s} :
        Turn(t)' = Turn(t) /\ TurnPhase(t)' = TurnPhase(t) /\ Seen(t)' = Seen(t)
  BY <1>1, OtherTurnsKept
<1>6. QED
  BY <1>1, <1>3, <1>4, <1>5 DEF Abstract!Act, Seen

\* Settle leaves the new directory, or the old one.
LEMMA SettleLeaves ==
  ASSUME TypeOK, LockOwned, LockOwned', NEW c \in Cmd, Settle(c)
  PROVE  Abstract!Leave(sessionOf[c]) \/ UNCHANGED Abstract!vars
<1> DEFINE s == sessionOf[c]
<1>1. /\ s \in Sess
      /\ bucket' = [bucket EXCEPT ![s] = c] \/ bucket' = bucket
  BY SessionAssumption DEF Settle, TypeOK
<1>2. \A d \in Cmd :
        /\ task'[d] \in Critical <=> task[d] \in Critical
        /\ EngineAlive(d)' <=> EngineAlive(d)
        /\ startDir'[d] = startDir[d]
  BY DEF Settle, TypeOK, Critical, EngineAlive
<1>3. \A t \in Sess :
        Turn(t)' = Turn(t) /\ TurnPhase(t)' = TurnPhase(t) /\ Seen(t)' = Seen(t)
  BY <1>2, TurnKept
<1>4. Turn(s) = c /\ TurnPhase(s) = "over"
  BY TurnTaken DEF WorkersHaveTurn, Settle, Critical, EngineAlive
<1>5. QED
  BY <1>1, <1>3, <1>4 DEF Abstract!Leave, Abstract!vars, Seen

\* Reply gives the turn back.
LEMMA ReplyGivesBack ==
  ASSUME TypeOK, LockOwned, LockOwned', NEW c \in Cmd, Reply(c)
  PROVE  Abstract!GiveBack(sessionOf[c])
<1> DEFINE s == sessionOf[c]
<1>1. s \in Sess /\ Others(c) /\ bucket' = bucket
  BY SessionAssumption DEF Reply, TypeOK, Others
<1>2. /\ task[c] \in Critical /\ ~EngineAlive(c) /\ task'[c] \notin Critical
  BY DEF Reply, TypeOK, Critical, EngineAlive
<1>3. Turn(s) = c /\ TurnPhase(s) = "over" /\ Seen(s) = NoCmd
  BY <1>2, TurnTaken DEF WorkersHaveTurn
<1>4. \A d \in Cmd : sessionOf[d] = s => task'[d] \notin Critical
  BY <1>1, <1>2 DEF LockOwned, Others
<1>5. Turn(s)' = NoCmd /\ TurnPhase(s)' = "none" /\ Seen(s)' = NoCmd
  BY <1>4 DEF Turn, TurnPhase, Seen
<1>6. \A t \in Sess \ {s} :
        Turn(t)' = Turn(t) /\ TurnPhase(t)' = TurnPhase(t) /\ Seen(t)' = Seen(t)
  BY <1>1, OtherTurnsKept
<1>7. QED
  BY <1>1, <1>3, <1>5, <1>6 DEF Abstract!GiveBack, Seen

\* A crash of the daemon forgets every turn and every directory.
LEMMA CrashRestarts ==
  ASSUME TypeOK, DaemonCrash
  PROVE  Abstract!Restart
<1>1. \A c \in Cmd : task'[c] \notin Critical
  BY DEF DaemonCrash, Critical, TypeOK
<1>2. \A s \in Sess : Turn(s)' = NoCmd /\ TurnPhase(s)' = "none" /\ Seen(s)' = NoCmd
  BY <1>1 DEF Turn, TurnPhase, Seen
<1>3. QED
  BY <1>2 DEF Abstract!Restart, DaemonCrash, Seen

\* Each step of Session is a step of Turns or a stutter.
LEMMA StepImplements ==
  ASSUME TypeOK, LockOwned, LockOwned', [Next]_vars
  PROVE  [Abstract!Next]_(Abstract!vars)
<1> USE SessionAssumption DEF TypeOK
<1>1. ASSUME NEW c \in Cmd, Begin(c) PROVE Abstract!Next
  BY <1>1, BeginTakes DEF Abstract!Next
<1>2. ASSUME NEW c \in Cmd,
             OpenFails(c) \/ EngineReports(c) \/ EngineFails(c) \/ Watchdog(c) \/ Fatal(c)
      PROVE  Abstract!Next
  <2>1. EngineAlive(c)
    BY <1>2 DEF OpenFails, EngineReports, EngineFails, Watchdog, Fatal, EngineAlive
  <2>2. EndEngine(c, "ok") \/ EndEngine(c, "err")
    BY <1>2 DEF OpenFails, EngineReports, EngineFails, Watchdog, Fatal
  <2>3. Abstract!Act(sessionOf[c])
    BY <2>1, <2>2, EndActs
  <2>4. QED
    BY <2>3 DEF Abstract!Next
<1>3. ASSUME NEW c \in Cmd, Settle(c) PROVE [Abstract!Next]_(Abstract!vars)
  BY <1>3, SettleLeaves DEF Abstract!Next
<1>4. ASSUME NEW c \in Cmd, Reply(c) PROVE Abstract!Next
  BY <1>4, ReplyGivesBack DEF Abstract!Next
<1>5. CASE DaemonCrash
  BY <1>5, CrashRestarts DEF Abstract!Next
<1>6. ASSUME NEW c \in Cmd,
             Enqueue(c) \/ Refuse(c) \/ WarnAndRequeue(c) \/ Open(c)
      PROVE  UNCHANGED Abstract!vars
  <2>1. /\ bucket' = bucket /\ startDir' = startDir
        /\ \A d \in Cmd :
             /\ task'[d] \in Critical <=> task[d] \in Critical
             /\ EngineAlive(d)' <=> EngineAlive(d)
    BY <1>6 DEF Enqueue, Refuse, WarnAndRequeue, Open, Critical, EngineAlive
  <2>2. QED
    BY <2>1, QuietForTurns
<1>7. ASSUME \/ \E c \in Cmd : ClientStep(c) \/ ServeStep(c)
             \/ LoseConnection
             \/ UNCHANGED vars
      PROVE  UNCHANGED Abstract!vars
  <2>1. UNCHANGED daemonVars
    BY <1>7 DEF ClientStep, ServeStep, ClientStalls, ClientResumes, ClientLeaves,
       LoadAndSpawn, SpawnFails, CommandEnds, SeesClose, SaveState, SaveFails, SendExit, ServeDies,
       LoseConnection, vars
  <2>2. bucket' = bucket /\ startDir' = startDir /\ task' = task
    BY <2>1 DEF daemonVars
  <2>3. QED
    BY <2>2, QuietForTurns DEF EngineAlive
<1>8. QED
  BY <1>1, <1>2, <1>3, <1>4, <1>5, <1>6, <1>7 DEF Next, TaskStep

\* The commands of a session take turns, each with the directory the last successful
\* one left: Session implements Turns, whatever fails.
THEOREM SessionImplementsTurns == Spec => TakesTurns
<1>1. Init => Abstract!Init
  <2> SUFFICES ASSUME Init PROVE Abstract!Init
    OBVIOUS
  <2>1. \A s \in Sess : Turn(s) = NoCmd /\ TurnPhase(s) = "none" /\ Seen(s) = NoCmd
    BY TurnFree DEF Init, Critical
  <2>2. QED
    BY <2>1 DEF Init, Abstract!Init, Seen
<1>2. TypeOK /\ LockOwned /\ LockOwned' /\ [Next]_vars => [Abstract!Next]_(Abstract!vars)
  BY StepImplements
<1>3. QED
  BY <1>1, <1>2, TypeCorrect, LockAlwaysOwned, PTL DEF Spec, TakesTurns, Abstract!Spec
=============================================================================
