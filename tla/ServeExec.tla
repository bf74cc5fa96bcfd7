----------------------------- MODULE ServeExec -----------------------------
(***************************************************************************)
(* One sp-serve process from the spawn of bash to its end (execute of      *)
(* serve.rs): the main select loop, the tasks around it and the process    *)
(* group they serve.                                                       *)
(*                                                                         *)
(* The group is the leader (the bash running the wrapper) and one member   *)
(* that stands for everything else the command started; the member holds   *)
(* the leader's pipes open and may ignore TERM.  Frames carry no payload   *)
(* but their kind, pipes and channels are counters, both output pumps are  *)
(* one.  A timer may fire whenever it is armed, except the 2 s no-progress *)
(* timer of the drain, which fires only when nothing can progress.         *)
(***************************************************************************)
EXTENDS Naturals, Sequences

CONSTANTS Timeouts,    \* whether the request carries a timeout
          Frames,      \* bound: the kinds of frames the daemon sends
          Immunity,    \* bound: whether the member ignores TERM, INT and HUP
          OrphanTalks, \* the member may write output after the leader's end
          InCap,       \* bound: frames waiting on the transport
          CtrlCap,     \* capacity of the control channel (16)
          StdinCap,    \* capacity of the stdin channel (256)
          PipeCap,     \* capacity of the output pipes (64 KiB)
          OutCap       \* capacity of the frame channel to the writer (256)

ASSUME ServeAssumption ==
  /\ Timeouts \subseteq BOOLEAN
  /\ Frames \subseteq {"data", "eof", "term", "kill", "bad"}
  /\ Immunity \subseteq BOOLEAN
  /\ OrphanTalks \in BOOLEAN
  /\ {InCap, CtrlCap, StdinCap, PipeCap, OutCap} \subseteq Nat \ {0}

VARIABLES
  main,      \* where execute stands
  leader,    \* the bash process
  member,    \* the rest of its process group
  immune,    \* the member ignores TERM, INT and HUP
  reported,  \* the wrapper wrote its state dump to the end
  childIn,   \* the child's end of its stdin pipe
  inq,       \* frames of the daemon, not yet read from the transport
  channel,   \* the exec channel as sshd keeps it
  peer,      \* whether the other end takes output
  oob,       \* an interrupt caught by the signal handlers, not yet routed
  intSeen,   \* the latest interrupt reached the group
  route,     \* the transport reader task
  stdinq,    \* channel to the stdin pump
  stdinPump, \* the stdin pump task
  ctrl,      \* control channel to the main loop
  pipe,      \* output frames in the child's pipes
  pumps,     \* the output pump tasks
  outq,      \* frames in the channel to the writer
  writer,    \* the writer task
  termArmed, killArmed, timedOut,
  saved,     \* the state file was replaced
  exitSent   \* the Exit frame is on the wire

group == <<leader, member, immune, reported, childIn, intSeen>>
world == <<inq, channel, peer, oob>>
input == <<route, stdinq, stdinPump, ctrl>>
output == <<pipe, pumps, outq, writer>>
timers == <<termArmed, killArmed, timedOut>>
ending == <<saved, exitSent>>
vars == <<main, group, world, input, output, timers, ending>>

Init ==
  /\ main = "loop"
  /\ leader = "command" /\ member = "none"
  /\ immune \in Immunity
  /\ reported = FALSE
  /\ childIn = "empty"
  /\ inq = << >> /\ channel = "open" /\ peer = "consuming" /\ oob = FALSE
  /\ intSeen = FALSE
  /\ route = "reading" /\ stdinq = << >> /\ stdinPump = "up" /\ ctrl = << >>
  /\ pipe = 0 /\ pumps = "up" /\ outq = 0 /\ writer = "up"
  /\ termArmed \in Timeouts /\ killArmed = FALSE /\ timedOut = FALSE
  /\ saved = FALSE /\ exitSent = FALSE

Up == main \notin {"done", "failed"}

LeaderAlive == leader \in {"command", "epilogue"}

\* Somebody holds the write ends of the output and report pipes.
PipesHeld == LeaderAlive \/ member = "alive"

(***************************************************************************)
(* The process group (external: bash, its children, the kernel)            *)
(***************************************************************************)
Fork ==
  /\ leader = "command" /\ member = "none"
  /\ member' = "alive"
  /\ UNCHANGED <<main, leader, immune, reported, childIn, intSeen, world,
                 input, output, timers, ending>>

MemberEnds ==
  /\ member = "alive"
  /\ member' = "dead"
  /\ UNCHANGED <<main, leader, immune, reported, childIn, intSeen, world,
                 input, output, timers, ending>>

Writes ==
  /\ leader = "command" \/ (member = "alive" /\ (LeaderAlive \/ OrphanTalks))
  /\ pumps = "up" /\ pipe < PipeCap
  /\ pipe' = pipe + 1
  /\ UNCHANGED <<main, group, world, input, pumps, outq, writer, timers, ending>>

\* The child reads its stdin, or gives it up for good (exec </dev/null).
ChildTakesStdin ==
  /\ leader = "command"
  /\ \/ childIn = "full" /\ childIn' = "empty"
     \/ childIn \in {"full", "empty"} /\ childIn' = "closed"
  /\ UNCHANGED <<main, leader, member, immune, reported, intSeen, world,
                 input, output, timers, ending>>

CommandDone ==
  /\ leader = "command"
  /\ leader' = "epilogue"
  /\ UNCHANGED <<main, member, immune, reported, childIn, intSeen, world,
                 input, output, timers, ending>>

\* The epilogue reports and exits; a wrapper replaced by exec reports nothing.
LeaderExits ==
  /\ leader = "epilogue"
  /\ leader' = "exited"
  /\ reported' \in BOOLEAN
  /\ UNCHANGED <<main, member, immune, childIn, intSeen, world, input, output,
                 timers, ending>>

(***************************************************************************)
(* The daemon and sshd                                                     *)
(***************************************************************************)
DaemonSends(f) ==
  /\ main = "loop" /\ channel = "open" /\ Len(inq) < InCap
  /\ inq' = Append(inq, f)
  /\ UNCHANGED <<main, group, channel, peer, oob, input, output, timers, ending>>

\* An SSH channel request: sshd signals this process whatever the stdin window.
Interrupt ==
  /\ main = "loop" /\ channel = "open"
  /\ oob' = TRUE
  /\ intSeen' = FALSE
  /\ UNCHANGED <<main, leader, member, immune, reported, childIn, inq, channel,
                 peer, input, output, timers, ending>>

CloseChannel ==
  /\ channel = "open"
  /\ channel' = "closed"
  /\ UNCHANGED <<main, group, inq, peer, oob, input, output, timers, ending>>

PeerStalls ==
  /\ peer = "consuming"
  /\ peer' = "stalled"
  /\ UNCHANGED <<main, group, inq, channel, oob, input, output, timers, ending>>

PeerResumes ==
  /\ peer = "stalled"
  /\ peer' = "consuming"
  /\ UNCHANGED <<main, group, inq, channel, oob, input, output, timers, ending>>

(***************************************************************************)
(* The transport reader, the signal task and the stdin pump                *)
(***************************************************************************)
RouteKeeps == UNCHANGED <<main, group, channel, peer, oob, stdinPump, output,
                          timers, ending>>

\* Data and Eof are awaited into the stdin channel; when the pump is gone the
\* router stops, and with it every later in-band signal and the closing.
RouteStdin ==
  /\ main = "loop" /\ route = "reading" /\ inq # << >>
  /\ Head(inq) \in {"data", "eof"}
  /\ inq' = Tail(inq)
  /\ IF stdinPump = "up"
       THEN /\ Len(stdinq) < StdinCap
            /\ stdinq' = Append(stdinq, Head(inq))
            /\ UNCHANGED route
       ELSE route' = "done" /\ UNCHANGED stdinq
  /\ UNCHANGED ctrl
  /\ RouteKeeps

RouteSignal ==
  /\ main = "loop" /\ route = "reading" /\ inq # << >>
  /\ Head(inq) \in {"term", "kill"}
  /\ Len(ctrl) < CtrlCap
  /\ inq' = Tail(inq)
  /\ ctrl' = Append(ctrl, Head(inq))
  /\ UNCHANGED <<route, stdinq>>
  /\ RouteKeeps

\* A malformed frame, or the end of the stream, is the router's last message.
RouteEnds ==
  /\ main = "loop" /\ route = "reading"
  /\ \/ inq # << >> /\ Head(inq) = "bad" /\ inq' = Tail(inq)
     \/ inq = << >> /\ channel = "closed" /\ UNCHANGED inq
  /\ Len(ctrl) < CtrlCap
  /\ ctrl' = Append(ctrl, "closed")
  /\ route' = "done"
  /\ UNCHANGED stdinq
  /\ RouteKeeps

\* Faulty variant: interrupts take their turn behind the frames on stdin.
SignalBehindStdin ==
  /\ main = "loop" /\ oob
  /\ inq = << >> /\ stdinq = << >>
  /\ Len(ctrl) < CtrlCap
  /\ oob' = FALSE
  /\ ctrl' = Append(ctrl, "int")
  /\ UNCHANGED <<main, group, inq, channel, peer, route, stdinq, stdinPump,
                 output, timers, ending>>

SignalTask ==
  /\ main = "loop" /\ oob
  /\ Len(ctrl) < CtrlCap
  /\ oob' = FALSE
  /\ ctrl' = Append(ctrl, "int")
  /\ UNCHANGED <<main, group, inq, channel, peer, route, stdinq, stdinPump,
                 output, timers, ending>>

\* The pump waits for room in the child's pipe; a broken pipe or Eof ends it.
\* (The pipe breaks when the child gave up its stdin or nobody of it is left.)
PumpStdin ==
  /\ main = "loop" /\ stdinPump = "up" /\ stdinq # << >>
  /\ \/ /\ Head(stdinq) = "data" /\ childIn = "empty" /\ PipesHeld
        /\ childIn' = "full"
        /\ stdinq' = Tail(stdinq)
        /\ UNCHANGED stdinPump
     \/ /\ Head(stdinq) = "eof" \/ childIn = "closed" \/ ~PipesHeld
        /\ stdinPump' = "ended"
        /\ stdinq' = << >>
        /\ UNCHANGED childIn
  /\ UNCHANGED <<main, leader, member, immune, reported, intSeen, world, route,
                 ctrl, output, timers, ending>>

(***************************************************************************)
(* The output pumps and the writer                                         *)
(***************************************************************************)
\* Faulty variant: the pump does not wait for room in the channel.
PumpUnbounded ==
  /\ Up /\ pumps = "up" /\ writer = "up"
  /\ pipe > 0
  /\ pipe' = pipe - 1
  /\ outq' = outq + 1
  /\ UNCHANGED <<main, group, world, input, pumps, writer, timers, ending>>

PumpOutput ==
  /\ Up /\ pumps = "up" /\ writer = "up"
  /\ pipe > 0 /\ outq < OutCap
  /\ pipe' = pipe - 1
  /\ outq' = outq + 1
  /\ UNCHANGED <<main, group, world, input, pumps, writer, timers, ending>>

\* End of file on the pipes, or a writer that is gone.
PumpEnds ==
  /\ Up /\ pumps = "up"
  /\ (pipe = 0 /\ ~PipesHeld) \/ (pipe > 0 /\ writer = "broken")
  /\ pumps' = "done"
  /\ UNCHANGED <<main, group, world, input, pipe, outq, writer, timers, ending>>

Write ==
  /\ Up /\ writer = "up" /\ outq > 0
  /\ channel = "open" /\ peer = "consuming"
  /\ outq' = outq - 1
  /\ UNCHANGED <<main, group, world, input, pipe, pumps, writer, timers, ending>>

WriterBreaks ==
  /\ Up /\ writer = "up" /\ outq > 0
  /\ channel = "closed"
  /\ writer' = "broken"
  /\ outq' = 0
  /\ UNCHANGED <<main, group, world, input, pipe, pumps, timers, ending>>

(***************************************************************************)
(* The main loop                                                           *)
(***************************************************************************)
\* A soft signal: traps run, the member dies of it unless it is immune.
SoftSignal ==
  /\ member' = IF member = "alive" /\ ~immune THEN "dead" ELSE member
  /\ UNCHANGED <<leader, immune, reported, childIn>>

\* SIGKILL to the group; a leader killed in its epilogue may have got its report out.
KillGroup ==
  /\ leader' = IF LeaderAlive THEN "exited" ELSE leader
  /\ member' = IF member = "alive" THEN "dead" ELSE member
  /\ reported' \in IF leader = "epilogue" THEN BOOLEAN ELSE {reported}
  /\ UNCHANGED <<immune, childIn, intSeen>>

\* The loop is left: whatever is still queued on the input side is never read.
InputRetired ==
  /\ inq' = << >> /\ stdinq' = << >> /\ ctrl' = << >>
  /\ oob' = FALSE
  /\ route' = "done" /\ stdinPump' = "ended"
  /\ UNCHANGED <<channel, peer>>

\* The loop takes a signal from the control channel and passes it to the group.
LoopSignal ==
  /\ main = "loop" /\ ctrl # << >> /\ Head(ctrl) # "closed"
  /\ ctrl' = Tail(ctrl)
  /\ IF Head(ctrl) = "kill"
       THEN KillGroup
       ELSE SoftSignal /\ intSeen' = (intSeen \/ Head(ctrl) = "int")
  /\ UNCHANGED <<main, world, route, stdinq, stdinPump, output, timers, ending>>

\* The transport ended or is malformed: kill the group, report nothing.
LoopClosed ==
  /\ main = "loop" /\ ctrl # << >> /\ Head(ctrl) = "closed"
  /\ KillGroup
  /\ main' = "failed"
  /\ InputRetired
  /\ UNCHANGED <<output, timers, ending>>

\* Faulty variant: the escalation is not armed.
TermOnly ==
  /\ main = "loop" /\ termArmed
  /\ SoftSignal /\ UNCHANGED intSeen
  /\ timedOut' = TRUE
  /\ termArmed' = FALSE
  /\ UNCHANGED <<main, killArmed, world, input, output, ending>>

\* The timeout: TERM first, with the escalation armed.
LoopTerm ==
  /\ main = "loop" /\ termArmed
  /\ SoftSignal /\ UNCHANGED intSeen
  /\ timedOut' = TRUE
  /\ termArmed' = FALSE
  /\ killArmed' = TRUE
  /\ UNCHANGED <<main, world, input, output, ending>>

\* The grace elapsed: KILL.
LoopKill ==
  /\ main = "loop" /\ killArmed
  /\ KillGroup
  /\ killArmed' = FALSE
  /\ UNCHANGED <<main, world, input, output, termArmed, timedOut, ending>>

\* The writer is gone: nothing can be reported any more.
LoopDead ==
  /\ main = "loop" /\ writer = "broken"
  /\ KillGroup
  /\ main' = "failed"
  /\ InputRetired
  /\ UNCHANGED <<output, timers, ending>>

\* Faulty variant: a leader that dies within the grace ends the escalation.
ExitForgetsKill ==
  /\ main = "loop" /\ leader = "exited"
  /\ leader' = "reaped"
  /\ main' = "drain"
  /\ InputRetired
  /\ UNCHANGED <<member, immune, reported, childIn, intSeen, output, timers,
                 ending>>

\* The leader is reaped, an armed escalation made up for, the router aborted.
LoopExit ==
  /\ main = "loop" /\ leader = "exited"
  /\ leader' = "reaped"
  /\ member' = IF killArmed /\ member = "alive" THEN "dead" ELSE member
  /\ main' = "drain"
  /\ InputRetired
  /\ UNCHANGED <<immune, reported, childIn, intSeen, output, timers, ending>>

(***************************************************************************)
(* After the loop                                                          *)
(***************************************************************************)
DrainDone ==
  /\ main = "drain" /\ pumps = "done"
  /\ main' = "reports"
  /\ UNCHANGED <<group, world, input, output, timers, ending>>

\* No frame can be written now: nothing to write, or nobody takes it.
NoProgress ==
  \/ outq = 0 /\ pipe = 0
  \/ peer = "stalled" \/ channel = "closed"

\* Faulty variant: the drain waits for the end of the pipes, whoever holds them.
DrainForEof ==
  /\ main = "drain" /\ pumps = "up"
  /\ writer = "broken"
  /\ pumps' = "aborted"
  /\ main' = "reports"
  /\ UNCHANGED <<group, world, input, pipe, outq, writer, timers, ending>>

\* Nothing written for DRAIN_GRACE, or the writer gone: the pumps are aborted
\* and what is left in the pipes is dropped.
DrainGivesUp ==
  /\ main = "drain" /\ pumps = "up"
  /\ NoProgress \/ writer = "broken"
  /\ pumps' = "aborted"
  /\ main' = "reports"
  /\ UNCHANGED <<group, world, input, pipe, outq, writer, timers, ending>>

\* Both reports are collected (or time out).  A complete dump replaces the state file,
\* unless it is over the cap or the write or the rename fails; serve goes on then, too.
CollectAndSave ==
  /\ main = "reports"
  /\ saved' = reported \/ saved' = FALSE
  /\ main' = "flush"
  /\ UNCHANGED <<group, world, input, output, timers, exitSent>>

\* Faulty variant: the Exit frame does not wait for the writer.
SendExitAtOnce ==
  /\ main = "flush" /\ writer = "up"
  /\ channel = "open" /\ peer = "consuming"
  /\ exitSent' = TRUE
  /\ main' = "done"
  /\ UNCHANGED <<group, world, input, output, timers, saved>>

\* The writer is joined with its queue flushed; the Exit frame follows.
SendExit ==
  /\ main = "flush" /\ writer = "up" /\ outq = 0
  /\ channel = "open" /\ peer = "consuming"
  /\ exitSent' = TRUE
  /\ main' = "done"
  /\ UNCHANGED <<group, world, input, output, timers, saved>>

ExitUndeliverable ==
  /\ main = "flush"
  /\ writer = "broken" \/ (outq = 0 /\ channel = "closed")
  /\ main' = "failed"
  /\ UNCHANGED <<group, world, input, output, timers, ending>>

GroupStep == Fork \/ MemberEnds \/ Writes \/ ChildTakesStdin \/ CommandDone
               \/ LeaderExits

OutsideStep == Interrupt \/ CloseChannel \/ PeerStalls \/ PeerResumes

InputStep == RouteStdin \/ RouteSignal \/ RouteEnds \/ SignalTask \/ PumpStdin

OutputStep == PumpOutput \/ PumpEnds \/ Write \/ WriterBreaks

\* What follows the loop.
Ending == DrainDone \/ DrainGivesUp \/ CollectAndSave \/ ExitUndeliverable

MainStep == LoopSignal \/ LoopClosed \/ LoopTerm \/ LoopKill \/ LoopDead \/ LoopExit
              \/ Ending \/ SendExit

Next ==
  \/ GroupStep \/ OutsideStep
  \/ \E f \in Frames : DaemonSends(f)
  \/ InputStep \/ OutputStep \/ MainStep

\* Every task that can run is polled, timers fire, and the unbiased select of the
\* main loop starves neither a signal, nor a timer, nor an end.  A blocked write
\* completes if the peer keeps coming back to read.  Nothing is assumed of the
\* command or of the daemon.
TaskFairness ==
  /\ WF_vars(RouteStdin \/ RouteSignal \/ RouteEnds)
  /\ SF_vars(SignalTask) /\ WF_vars(PumpStdin)
  /\ WF_vars(PumpOutput \/ PumpEnds)
  /\ SF_vars(Write) /\ WF_vars(WriterBreaks)
  /\ WF_vars(LoopSignal)
  /\ WF_vars(LoopTerm \/ LoopKill)
  /\ WF_vars(LoopClosed \/ LoopDead \/ LoopExit)
  /\ WF_vars(Ending)
  /\ SF_vars(SendExit)

PeerFairness == WF_vars(PeerResumes)

Spec == Init /\ [][Next]_vars /\ TaskFairness /\ PeerFairness

(***************************************************************************)
(* Properties                                                              *)
(***************************************************************************)
TypeOK ==
  /\ main \in {"loop", "drain", "reports", "flush", "done", "failed"}
  /\ leader \in {"command", "epilogue", "exited", "reaped"}
  /\ member \in {"none", "alive", "dead"}
  /\ childIn \in {"empty", "full", "closed"}
  /\ inq \in Seq(Frames) /\ Len(inq) <= InCap
  /\ channel \in {"open", "closed"} /\ peer \in {"consuming", "stalled"}
  /\ route \in {"reading", "done"} /\ stdinPump \in {"up", "ended"}
  /\ stdinq \in Seq({"data", "eof"}) /\ Len(stdinq) <= StdinCap
  /\ ctrl \in Seq({"int", "term", "kill", "closed"}) /\ Len(ctrl) <= CtrlCap
  /\ pipe \in 0 .. PipeCap /\ outq \in 0 .. OutCap
  /\ pumps \in {"up", "done", "aborted"} /\ writer \in {"up", "broken"}
  /\ {immune, reported, oob, intSeen, termArmed, killArmed, timedOut, saved,
      exitSent} \subseteq BOOLEAN

\* A timed-out command leaves no process of its group behind, TERM-immune ones
\* included, and neither does one whose transport or writer failed in the loop.
NoSurvivors ==
  (timedOut /\ main \in {"drain", "reports", "flush", "done"})
    \/ (main = "failed" /\ leader # "reaped")
      => ~LeaderAlive /\ member # "alive"

\* When the Exit frame goes out, all output is out before it, unless the drain
\* gave up on a stalled chain; and only a complete state dump has been saved.
ExitComesLast ==
  exitSent => /\ outq = 0
              /\ pumps = "done" => pipe = 0
              /\ pumps # "up"
              /\ saved => reported

\* A timeout always ends the command: TERM may be ignored, the KILL is not.
TimeoutEndsLoop == termArmed ~> (main # "loop")

\* Once the leader has exited, serve ends: orphans that hold the pipes open in
\* silence, stalled peers and closed channels delay it, nothing blocks it.
ExitIsReported == (leader = "exited") ~> ~Up

\* An out-of-band interrupt reaches the group however full the stdin path is.
InterruptArrives == (oob /\ main = "loop") ~> (intSeen \/ main # "loop")

\* A closed channel ends the command.  Refuted: a router parked on unread stdin,
\* or stopped because the child closed its stdin, never sees the end.
CloseEndsLoop == (channel = "closed") ~> (main # "loop")
=============================================================================
