---------------------------- MODULE ServeProofs ----------------------------
(***************************************************************************)
(* Theorems about ServeExec, for every capacity, every choice of frames and *)
(* any behaviour of the command.                                           *)
(***************************************************************************)
EXTENDS ServeExec, TLAPS

(***************************************************************************)
(* Type correctness                                                        *)
(***************************************************************************)
\* The capacities are positive numbers.
LEMMA Capacities ==
  /\ InCap \in Nat /\ CtrlCap \in Nat /\ StdinCap \in Nat
  /\ PipeCap \in Nat /\ OutCap \in Nat
  /\ 0 < InCap /\ 0 < CtrlCap /\ 0 < StdinCap
BY ServeAssumption

\* A bounded queue stays bounded when a free place is taken and when its head is.
LEMMA BoundedQueue ==
  ASSUME NEW S, NEW q \in Seq(S), NEW N \in Nat, Len(q) <= N
  PROVE  /\ \A e \in S : Len(q) < N =>
              Append(q, e) \in Seq(S) /\ Len(Append(q, e)) <= N
         /\ q # << >> =>
              Head(q) \in S /\ Tail(q) \in Seq(S) /\ Len(Tail(q)) <= N
         /\ << >> \in Seq(S) /\ Len(<< >>) <= N
OBVIOUS

\* Every step keeps every variable in its type and every queue in its capacity.
LEMMA TypeStep ==
  TypeOK /\ [Next]_vars => TypeOK'
<1> SUFFICES ASSUME TypeOK, [Next]_vars PROVE TypeOK'
  OBVIOUS
<1>1. CASE Fork
  BY <1>1 DEF TypeOK, Fork, world, input, output, timers, ending
<1>2. CASE MemberEnds
  BY <1>2 DEF TypeOK, MemberEnds, world, input, output, timers, ending
<1>3. CASE Writes
  BY <1>3, Capacities DEF TypeOK, Writes, LeaderAlive, group, world, input,
       timers, ending
<1>4. CASE ChildTakesStdin
  BY <1>4 DEF TypeOK, ChildTakesStdin, world, input, output, timers, ending
<1>5. CASE CommandDone
  BY <1>5 DEF TypeOK, CommandDone, world, input, output, timers, ending
<1>6. CASE LeaderExits
  BY <1>6 DEF TypeOK, LeaderExits, world, input, output, timers, ending
<1>7. CASE Interrupt
  BY <1>7 DEF TypeOK, Interrupt, input, output, timers, ending
<1>8. CASE CloseChannel
  BY <1>8 DEF TypeOK, CloseChannel, group, input, output, timers, ending
<1>9. CASE PeerStalls
  BY <1>9 DEF TypeOK, PeerStalls, group, input, output, timers, ending
<1>10. CASE PeerResumes
  BY <1>10 DEF TypeOK, PeerResumes, group, input, output, timers, ending
<1>11. ASSUME NEW f \in Frames, DaemonSends(f) PROVE TypeOK'
  <2>1. inq' \in Seq(Frames) /\ Len(inq') <= InCap
    BY <1>11, Capacities, BoundedQueue DEF TypeOK, DaemonSends
  <2>2. QED
    BY <1>11, <2>1 DEF TypeOK, DaemonSends, group, input, output, timers,
         ending
<1>12. CASE RouteStdin
  <2>1. inq' \in Seq(Frames) /\ Len(inq') <= InCap
    BY <1>12, Capacities, BoundedQueue DEF TypeOK, RouteStdin
  <2>2. stdinq' \in Seq({"data", "eof"}) /\ Len(stdinq') <= StdinCap
    BY <1>12, Capacities, BoundedQueue DEF TypeOK, RouteStdin
  <2>3. QED
    BY <1>12, <2>1, <2>2 DEF TypeOK, RouteStdin, RouteKeeps, group, output,
         timers, ending
<1>13. CASE RouteSignal
  <2>1. inq' \in Seq(Frames) /\ Len(inq') <= InCap
    BY <1>13, Capacities, BoundedQueue DEF TypeOK, RouteSignal
  <2>2. ctrl' \in Seq({"int", "term", "kill", "closed"}) /\ Len(ctrl') <=
       CtrlCap
    BY <1>13, Capacities, BoundedQueue DEF TypeOK, RouteSignal
  <2>3. QED
    BY <1>13, <2>1, <2>2 DEF TypeOK, RouteSignal, RouteKeeps, group, output,
         timers, ending
<1>14. CASE RouteEnds
  <2>1. inq' \in Seq(Frames) /\ Len(inq') <= InCap
    BY <1>14, Capacities, BoundedQueue DEF TypeOK, RouteEnds
  <2>2. ctrl' \in Seq({"int", "term", "kill", "closed"}) /\ Len(ctrl') <=
       CtrlCap
    BY <1>14, Capacities, BoundedQueue DEF TypeOK, RouteEnds
  <2>3. QED
    BY <1>14, <2>1, <2>2 DEF TypeOK, RouteEnds, RouteKeeps, group, output,
         timers, ending
<1>15. CASE SignalTask
  <2>1. ctrl' \in Seq({"int", "term", "kill", "closed"}) /\ Len(ctrl') <=
       CtrlCap
    BY <1>15, Capacities, BoundedQueue DEF TypeOK, SignalTask
  <2>2. {immune, reported, oob, intSeen, termArmed, killArmed, timedOut,
       saved,
         exitSent}' \subseteq BOOLEAN
    BY <1>15 DEF TypeOK, SignalTask, group, timers, ending
  <2>3. QED
    BY <1>15, <2>1, <2>2 DEF TypeOK, SignalTask, group, output, timers, ending
<1>16. CASE PumpStdin
  <2>1. stdinq' = Tail(stdinq) \/ stdinq' = << >>
    BY <1>16 DEF PumpStdin
  <2>2. stdinq # << >>
    BY <1>16 DEF PumpStdin
  <2>3. stdinq \in Seq({"data", "eof"}) /\ Len(stdinq) <= StdinCap
    BY DEF TypeOK
  <2>4. stdinq' \in Seq({"data", "eof"}) /\ Len(stdinq') <= StdinCap
    BY <2>1, <2>2, <2>3, Capacities, BoundedQueue
  <2>5. QED
    BY <1>16, <2>4 DEF TypeOK, PumpStdin, LeaderAlive, PipesHeld, world,
         output, timers, ending
<1>17. CASE PumpOutput
  BY <1>17, Capacities DEF TypeOK, PumpOutput, group, world, input, timers,
       ending
<1>18. CASE PumpEnds
  BY <1>18 DEF TypeOK, PumpEnds, LeaderAlive, PipesHeld, group, world, input,
       timers, ending
<1>19. CASE Write
  BY <1>19, Capacities DEF TypeOK, Write, group, world, input, timers, ending
<1>20. CASE WriterBreaks
  BY <1>20, Capacities DEF TypeOK, WriterBreaks, group, world, input, timers,
       ending
<1>21. CASE LoopSignal
  <2>1. ctrl' \in Seq({"int", "term", "kill", "closed"}) /\ Len(ctrl') <=
       CtrlCap
    BY <1>21, Capacities, BoundedQueue DEF TypeOK, LoopSignal
  <2>2. QED
    BY <1>21, <2>1 DEF TypeOK, LoopSignal, SoftSignal, KillGroup, LeaderAlive,
         world, output, timers, ending
<1>22. CASE LoopClosed
  <2>1. inq' \in Seq(Frames) /\ Len(inq') <= InCap
    BY <1>22, Capacities, BoundedQueue DEF TypeOK, LoopClosed, InputRetired
  <2>2. stdinq' \in Seq({"data", "eof"}) /\ Len(stdinq') <= StdinCap
    BY <1>22, Capacities, BoundedQueue DEF TypeOK, LoopClosed, InputRetired
  <2>3. ctrl' \in Seq({"int", "term", "kill", "closed"}) /\ Len(ctrl') <=
       CtrlCap
    BY <1>22, Capacities, BoundedQueue DEF TypeOK, LoopClosed, InputRetired
  <2>4. QED
    BY <1>22, <2>1, <2>2, <2>3 DEF TypeOK, LoopClosed, KillGroup,
         InputRetired, LeaderAlive, output, timers, ending
<1>23. CASE LoopTerm
  BY <1>23 DEF TypeOK, LoopTerm, SoftSignal, world, input, output, ending
<1>24. CASE LoopKill
  BY <1>24 DEF TypeOK, LoopKill, KillGroup, LeaderAlive, world, input, output,
       ending
<1>25. CASE LoopDead
  <2>1. inq' \in Seq(Frames) /\ Len(inq') <= InCap
    BY <1>25, Capacities, BoundedQueue DEF TypeOK, LoopDead, InputRetired
  <2>2. stdinq' \in Seq({"data", "eof"}) /\ Len(stdinq') <= StdinCap
    BY <1>25, Capacities, BoundedQueue DEF TypeOK, LoopDead, InputRetired
  <2>3. ctrl' \in Seq({"int", "term", "kill", "closed"}) /\ Len(ctrl') <=
       CtrlCap
    BY <1>25, Capacities, BoundedQueue DEF TypeOK, LoopDead, InputRetired
  <2>4. QED
    BY <1>25, <2>1, <2>2, <2>3 DEF TypeOK, LoopDead, KillGroup, InputRetired,
         LeaderAlive, output, timers, ending
<1>26. CASE LoopExit
  <2>1. inq' \in Seq(Frames) /\ Len(inq') <= InCap
    BY <1>26, Capacities, BoundedQueue DEF TypeOK, LoopExit, InputRetired
  <2>2. stdinq' \in Seq({"data", "eof"}) /\ Len(stdinq') <= StdinCap
    BY <1>26, Capacities, BoundedQueue DEF TypeOK, LoopExit, InputRetired
  <2>3. ctrl' \in Seq({"int", "term", "kill", "closed"}) /\ Len(ctrl') <=
       CtrlCap
    BY <1>26, Capacities, BoundedQueue DEF TypeOK, LoopExit, InputRetired
  <2>4. QED
    BY <1>26, <2>1, <2>2, <2>3 DEF TypeOK, LoopExit, InputRetired, output,
         timers, ending
<1>27. CASE DrainDone
  BY <1>27 DEF TypeOK, DrainDone, group, world, input, output, timers, ending
<1>28. CASE DrainGivesUp
  BY <1>28 DEF TypeOK, DrainGivesUp, NoProgress, group, world, input, timers,
       ending
<1>29. CASE CollectAndSave
  <2>1. saved' \in BOOLEAN
    <3>1. reported \in BOOLEAN
      BY DEF TypeOK
    <3> QED BY <1>29, <3>1 DEF CollectAndSave
  <2> QED BY <1>29, <2>1 DEF TypeOK, CollectAndSave, group, world, input, output,
               timers
<1>30. CASE SendExit
  BY <1>30 DEF TypeOK, SendExit, group, world, input, output, timers
<1>31. CASE ExitUndeliverable
  BY <1>31 DEF TypeOK, ExitUndeliverable, group, world, input, output, timers,
       ending
<1>32. CASE UNCHANGED vars
  BY <1>32 DEF TypeOK, vars, group, world, input, output, timers, ending
<1>33. QED
  BY <1>1, <1>2, <1>3, <1>4, <1>5, <1>6, <1>7, <1>8, <1>9, <1>10, <1>11,
       <1>12, <1>13, <1>14, <1>15, <1>16, <1>17, <1>18, <1>19, <1>20, <1>21,
       <1>22, <1>23, <1>24, <1>25, <1>26, <1>27, <1>28, <1>29, <1>30, <1>31,
       <1>32
       DEF Next, GroupStep, OutsideStep, InputStep, OutputStep, MainStep, Ending

\* No queue or pipe of serve ever holds more than its capacity.
THEOREM TypeCorrect == Spec => []TypeOK
<1>1. Init => TypeOK
  <2> SUFFICES ASSUME Init PROVE TypeOK
    OBVIOUS
  <2>1. {immune, reported, oob, intSeen, termArmed, killArmed, timedOut, saved,
         exitSent} \subseteq BOOLEAN
    BY ServeAssumption DEF Init
  <2>2. /\ inq \in Seq(Frames) /\ Len(inq) <= InCap
        /\ stdinq \in Seq({"data", "eof"}) /\ Len(stdinq) <= StdinCap
        /\ ctrl \in Seq({"int", "term", "kill", "closed"}) /\ Len(ctrl) <= CtrlCap
        /\ pipe \in 0 .. PipeCap /\ outq \in 0 .. OutCap
    BY Capacities DEF Init
  <2>3. QED
    BY <2>1, <2>2 DEF Init, TypeOK
<1>2. QED
  BY <1>1, TypeStep, PTL DEF Spec

(***************************************************************************)
(* No survivors                                                            *)
(***************************************************************************)
GroupDead == ~LeaderAlive /\ member # "alive"

\* The timeout's escalation: while the loop runs, a timed-out group is dead or
\* its KILL is still armed; the loop is only left over a dead leader; and it is
\* left for good with a dead group if it timed out or could not report.
Escalation ==
  /\ main = "loop" /\ timedOut => killArmed \/ GroupDead
  /\ main # "loop" => ~LeaderAlive
  /\ main # "loop" /\ timedOut => GroupDead
  /\ main \notin {"loop", "failed"} => leader = "reaped"
  /\ main = "failed" => leader = "reaped" \/ GroupDead
  /\ leader = "reaped" => main # "loop"

\* Every step of serve and of the group keeps the escalation in order.
LEMMA EscalationStep ==
  Escalation /\ [Next]_vars => Escalation'
<1> SUFFICES ASSUME Escalation, [Next]_vars PROVE Escalation'
  OBVIOUS
<1>1. CASE Fork
  BY <1>1 DEF Escalation, GroupDead, LeaderAlive, Fork, world, input, output,
       timers, ending
<1>2. CASE MemberEnds
  BY <1>2 DEF Escalation, GroupDead, LeaderAlive, MemberEnds, world, input,
       output, timers, ending
<1>3. CASE Writes
  BY <1>3 DEF Escalation, GroupDead, LeaderAlive, Writes, group, world, input,
       timers, ending
<1>4. CASE ChildTakesStdin
  BY <1>4 DEF Escalation, GroupDead, LeaderAlive, ChildTakesStdin, world,
       input, output, timers, ending
<1>5. CASE CommandDone
  BY <1>5 DEF Escalation, GroupDead, LeaderAlive, CommandDone, world, input,
       output, timers, ending
<1>6. CASE LeaderExits
  BY <1>6 DEF Escalation, GroupDead, LeaderAlive, LeaderExits, world, input,
       output, timers, ending
<1>7. CASE Interrupt
  BY <1>7 DEF Escalation, GroupDead, LeaderAlive, Interrupt, input, output,
       timers, ending
<1>8. CASE CloseChannel
  BY <1>8 DEF Escalation, GroupDead, LeaderAlive, CloseChannel, group, input,
       output, timers, ending
<1>9. CASE PeerStalls
  BY <1>9 DEF Escalation, GroupDead, LeaderAlive, PeerStalls, group, input,
       output, timers, ending
<1>10. CASE PeerResumes
  BY <1>10 DEF Escalation, GroupDead, LeaderAlive, PeerResumes, group, input,
       output, timers, ending
<1>11. ASSUME NEW f \in Frames, DaemonSends(f) PROVE Escalation'
  BY <1>11 DEF Escalation, GroupDead, LeaderAlive, DaemonSends, group, input,
       output, timers, ending
<1>12. CASE RouteStdin
  BY <1>12 DEF Escalation, GroupDead, LeaderAlive, RouteStdin, RouteKeeps,
       group, output, timers, ending
<1>13. CASE RouteSignal
  BY <1>13 DEF Escalation, GroupDead, LeaderAlive, RouteSignal, RouteKeeps,
       group, output, timers, ending
<1>14. CASE RouteEnds
  BY <1>14 DEF Escalation, GroupDead, LeaderAlive, RouteEnds, RouteKeeps,
       group, output, timers, ending
<1>15. CASE SignalTask
  BY <1>15 DEF Escalation, GroupDead, LeaderAlive, SignalTask, group, output,
       timers, ending
<1>16. CASE PumpStdin
  BY <1>16 DEF Escalation, GroupDead, LeaderAlive, PumpStdin, PipesHeld,
       world, output, timers, ending
<1>17. CASE PumpOutput
  BY <1>17 DEF Escalation, GroupDead, LeaderAlive, PumpOutput, group, world,
       input, timers, ending
<1>18. CASE PumpEnds
  BY <1>18 DEF Escalation, GroupDead, LeaderAlive, PumpEnds, PipesHeld, group,
       world, input, timers, ending
<1>19. CASE Write
  BY <1>19 DEF Escalation, GroupDead, LeaderAlive, Write, group, world, input,
       timers, ending
<1>20. CASE WriterBreaks
  BY <1>20 DEF Escalation, GroupDead, LeaderAlive, WriterBreaks, group, world,
       input, timers, ending
<1>21. CASE LoopSignal
  BY <1>21 DEF Escalation, GroupDead, LeaderAlive, LoopSignal, SoftSignal,
       KillGroup, world, output, timers, ending
<1>22. CASE LoopClosed
  BY <1>22 DEF Escalation, GroupDead, LeaderAlive, LoopClosed, KillGroup,
       InputRetired, output, timers, ending
<1>23. CASE LoopTerm
  BY <1>23 DEF Escalation, GroupDead, LeaderAlive, LoopTerm, SoftSignal,
       world, input, output, ending
<1>24. CASE LoopKill
  BY <1>24 DEF Escalation, GroupDead, LeaderAlive, LoopKill, KillGroup, world,
       input, output, ending
<1>25. CASE LoopDead
  BY <1>25 DEF Escalation, GroupDead, LeaderAlive, LoopDead, KillGroup,
       InputRetired, output, timers, ending
<1>26. CASE LoopExit
  BY <1>26 DEF Escalation, GroupDead, LeaderAlive, LoopExit, InputRetired,
       output, timers, ending
<1>27. CASE DrainDone
  BY <1>27 DEF Escalation, GroupDead, LeaderAlive, DrainDone, group, world,
       input, output, timers, ending
<1>28. CASE DrainGivesUp
  BY <1>28 DEF Escalation, GroupDead, LeaderAlive, DrainGivesUp, NoProgress,
       group, world, input, timers, ending
<1>29. CASE CollectAndSave
  BY <1>29 DEF Escalation, GroupDead, LeaderAlive, CollectAndSave, group,
       world, input, output, timers
<1>30. CASE SendExit
  BY <1>30 DEF Escalation, GroupDead, LeaderAlive, SendExit, group, world,
       input, output, timers
<1>31. CASE ExitUndeliverable
  BY <1>31 DEF Escalation, GroupDead, LeaderAlive, ExitUndeliverable, group,
       world, input, output, timers, ending
<1>32. CASE UNCHANGED vars
  BY <1>32 DEF Escalation, GroupDead, LeaderAlive, vars, group, world, input,
       output, timers, ending
<1>33. QED
  BY <1>1, <1>2, <1>3, <1>4, <1>5, <1>6, <1>7, <1>8, <1>9, <1>10, <1>11,
       <1>12, <1>13, <1>14, <1>15, <1>16, <1>17, <1>18, <1>19, <1>20, <1>21,
       <1>22, <1>23, <1>24, <1>25, <1>26, <1>27, <1>28, <1>29, <1>30, <1>31,
       <1>32
       DEF Next, GroupStep, OutsideStep, InputStep, OutputStep, MainStep, Ending

\* A timed-out command, or one whose serve failed in its loop, leaves no process
\* of its group behind.
THEOREM NoGroupSurvives == Spec => []NoSurvivors
<1>1. Init => Escalation
  BY DEF Init, Escalation, GroupDead, LeaderAlive
<1>2. Escalation => NoSurvivors
  BY DEF Escalation, GroupDead, NoSurvivors
<1>3. QED
  BY <1>1, <1>2, EscalationStep, PTL DEF Spec

(***************************************************************************)
(* The order of the ending                                                 *)
(***************************************************************************)
\* The phases after the loop: the output pumps are over once the drain is, they
\* are done only with the pipes empty or the writer broken, and the state is
\* only replaced by a complete dump, between the end of the leader and the Exit frame.
EndingInOrder ==
  /\ main \in {"drain", "reports", "flush", "done"} => leader = "reaped"
  /\ main \in {"reports", "flush", "done"} => pumps # "up"
  /\ pumps = "done" => pipe = 0 \/ writer = "broken"
  /\ main \in {"flush", "done"} => (saved => reported)
  /\ main = "done" => outq = 0 /\ writer # "broken"
  /\ exitSent => main = "done"

\* Every step of serve and of the group keeps the ending in order.
LEMMA EndingStep ==
  EndingInOrder /\ [Next]_vars => EndingInOrder'
<1> SUFFICES ASSUME EndingInOrder, [Next]_vars PROVE EndingInOrder'
  OBVIOUS
<1>1. CASE Fork
  BY <1>1 DEF EndingInOrder, LeaderAlive, Up, Fork, world, input, output,
       timers, ending
<1>2. CASE MemberEnds
  BY <1>2 DEF EndingInOrder, LeaderAlive, Up, MemberEnds, world, input,
       output, timers, ending
<1>3. CASE Writes
  BY <1>3 DEF EndingInOrder, LeaderAlive, Up, Writes, group, world, input,
       timers, ending
<1>4. CASE ChildTakesStdin
  BY <1>4 DEF EndingInOrder, LeaderAlive, Up, ChildTakesStdin, world, input,
       output, timers, ending
<1>5. CASE CommandDone
  BY <1>5 DEF EndingInOrder, LeaderAlive, Up, CommandDone, world, input,
       output, timers, ending
<1>6. CASE LeaderExits
  BY <1>6 DEF EndingInOrder, LeaderAlive, Up, LeaderExits, world, input,
       output, timers, ending
<1>7. CASE Interrupt
  BY <1>7 DEF EndingInOrder, LeaderAlive, Up, Interrupt, input, output,
       timers, ending
<1>8. CASE CloseChannel
  BY <1>8 DEF EndingInOrder, LeaderAlive, Up, CloseChannel, group, input,
       output, timers, ending
<1>9. CASE PeerStalls
  BY <1>9 DEF EndingInOrder, LeaderAlive, Up, PeerStalls, group, input,
       output, timers, ending
<1>10. CASE PeerResumes
  BY <1>10 DEF EndingInOrder, LeaderAlive, Up, PeerResumes, group, input,
       output, timers, ending
<1>11. ASSUME NEW f \in Frames, DaemonSends(f) PROVE EndingInOrder'
  BY <1>11 DEF EndingInOrder, LeaderAlive, Up, DaemonSends, group, input,
       output, timers, ending
<1>12. CASE RouteStdin
  BY <1>12 DEF EndingInOrder, LeaderAlive, Up, RouteStdin, RouteKeeps, group,
       output, timers, ending
<1>13. CASE RouteSignal
  BY <1>13 DEF EndingInOrder, LeaderAlive, Up, RouteSignal, RouteKeeps, group,
       output, timers, ending
<1>14. CASE RouteEnds
  BY <1>14 DEF EndingInOrder, LeaderAlive, Up, RouteEnds, RouteKeeps, group,
       output, timers, ending
<1>15. CASE SignalTask
  BY <1>15 DEF EndingInOrder, LeaderAlive, Up, SignalTask, group, output,
       timers, ending
<1>16. CASE PumpStdin
  BY <1>16 DEF EndingInOrder, LeaderAlive, Up, PumpStdin, PipesHeld, world,
       output, timers, ending
<1>17. CASE PumpOutput
  BY <1>17 DEF EndingInOrder, LeaderAlive, Up, PumpOutput, group, world,
       input, timers, ending
<1>18. CASE PumpEnds
  BY <1>18 DEF EndingInOrder, LeaderAlive, Up, PumpEnds, PipesHeld, group,
       world, input, timers, ending
<1>19. CASE Write
  BY <1>19 DEF EndingInOrder, LeaderAlive, Up, Write, group, world, input,
       timers, ending
<1>20. CASE WriterBreaks
  BY <1>20 DEF EndingInOrder, LeaderAlive, Up, WriterBreaks, group, world,
       input, timers, ending
<1>21. CASE LoopSignal
  BY <1>21 DEF EndingInOrder, LeaderAlive, Up, LoopSignal, SoftSignal,
       KillGroup, world, output, timers, ending
<1>22. CASE LoopClosed
  BY <1>22 DEF EndingInOrder, LeaderAlive, Up, LoopClosed, KillGroup,
       InputRetired, output, timers, ending
<1>23. CASE LoopTerm
  BY <1>23 DEF EndingInOrder, LeaderAlive, Up, LoopTerm, SoftSignal, world,
       input, output, ending
<1>24. CASE LoopKill
  BY <1>24 DEF EndingInOrder, LeaderAlive, Up, LoopKill, KillGroup, world,
       input, output, ending
<1>25. CASE LoopDead
  BY <1>25 DEF EndingInOrder, LeaderAlive, Up, LoopDead, KillGroup,
       InputRetired, output, timers, ending
<1>26. CASE LoopExit
  BY <1>26 DEF EndingInOrder, LeaderAlive, Up, LoopExit, InputRetired, output,
       timers, ending
<1>27. CASE DrainDone
  BY <1>27 DEF EndingInOrder, LeaderAlive, Up, DrainDone, group, world, input,
       output, timers, ending
<1>28. CASE DrainGivesUp
  BY <1>28 DEF EndingInOrder, LeaderAlive, Up, DrainGivesUp, NoProgress,
       group, world, input, timers, ending
<1>29. CASE CollectAndSave
  BY <1>29 DEF EndingInOrder, LeaderAlive, Up, CollectAndSave, group, world,
       input, output, timers
<1>30. CASE SendExit
  BY <1>30 DEF EndingInOrder, LeaderAlive, Up, SendExit, group, world, input,
       output, timers
<1>31. CASE ExitUndeliverable
  BY <1>31 DEF EndingInOrder, LeaderAlive, Up, ExitUndeliverable, group,
       world, input, output, timers, ending
<1>32. CASE UNCHANGED vars
  BY <1>32 DEF EndingInOrder, LeaderAlive, Up, vars, group, world, input,
       output, timers, ending
<1>33. QED
  BY <1>1, <1>2, <1>3, <1>4, <1>5, <1>6, <1>7, <1>8, <1>9, <1>10, <1>11,
       <1>12, <1>13, <1>14, <1>15, <1>16, <1>17, <1>18, <1>19, <1>20, <1>21,
       <1>22, <1>23, <1>24, <1>25, <1>26, <1>27, <1>28, <1>29, <1>30, <1>31,
       <1>32
       DEF Next, GroupStep, OutsideStep, InputStep, OutputStep, MainStep, Ending

\* The Exit frame is the last thing serve says: the output went before it, and
\* no state file was replaced by less than a complete dump.
THEOREM ExitFrameIsLast == Spec => []ExitComesLast
<1>1. Init => EndingInOrder
  BY DEF Init, EndingInOrder
<1>2. EndingInOrder => ExitComesLast
  BY DEF EndingInOrder, ExitComesLast
<1>3. QED
  BY <1>1, <1>2, EndingStep, PTL DEF Spec
=============================================================================
