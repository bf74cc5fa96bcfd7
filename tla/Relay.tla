------------------------------- MODULE Relay -------------------------------
(***************************************************************************)
(* The two byte streams and the signals of one run, end to end: the select *)
(* loop of the client (run of client.rs), the tasks of the daemon around   *)
(* one connection (handle_conn and handle_exec of daemon.rs), the lanes of *)
(* the engine (ExecChannel of remote.rs) and, as one queue in each         *)
(* direction, the SSH channel with sp-serve behind it.                     *)
(*                                                                         *)
(* Frames are numbered in the order in which their data was produced.  A   *)
(* frame for the client is a sequence of parts, which are the units the    *)
(* socket delivers: a read may find only the first ones of them.           *)
(***************************************************************************)
EXTENDS Naturals, Sequences

CONSTANTS Items,     \* bound: frames of data on the client's stdin
          Parts,     \* parts of a frame for the client
          MaxPress,  \* bound: signals the client forwards
          UpCap,     \* IPC socket towards the daemon, in frames
          CtrlCap,   \* control channel of handle_exec (16)
          LaneCap,   \* stdin lane of the engine (64)
          SigCap,    \* signal lane of the engine (8), and its in-band lane (8)
          WireCap,   \* the frame in the forwarder's hand, SSH window, buffers of serve
          BackCap,   \* buffers of serve and the SSH window back
          OutCap,    \* event channel and output channel (256 each)
          DownCap    \* IPC socket towards the client, in parts

ASSUME RelayAssumption ==
  /\ {Items, MaxPress} \subseteq Nat
  /\ {Parts, UpCap, CtrlCap, LaneCap, SigCap, WireCap, BackCap, OutCap, DownCap}
       \subseteq Nat \ {0}

\* What is not data is numbered behind the data.
SigInt == Items + 1
SigTerm == Items + 2
Eof == Items + 3
Exit == Items + 1   \* in the other direction
Signal == {SigInt, SigTerm}
Fatal == 0          \* on the control channel: the frame reader gives up
Junk == Items + 2   \* on the client's terminal: anything else than the frames in order

VARIABLES
  client,   \* the client's loop: in its select, in a write, or how it ended
  taken,    \* stdin frames the client has read
  stdinOpen,
  pending,  \* the frame the client is writing, if any
  pressed,  \* signals forwarded so far
  lastInt,  \* an interrupt has been forwarded: a second one may force the exit
  got,      \* parts of the current frame in the client's pending read
  place,    \* kept; lost: a half-read frame was dropped at some time; adrift: besides,
            \* the pending read has taken other bytes for a header
  shown,    \* frames of output the client has written out, in order, or Junk
  up,       \* frames in the socket towards the daemon
  down,     \* parts in the socket towards the client
  closed,   \* the daemon has closed the socket
  reader,   \* the frame reader task
  ctrl,     \* its control channel
  lane,     \* the engine's stdin lane
  sigs,     \* the engine's signal lane
  inband,   \* the lane of signals that go in band
  fwdOpen,  \* the forwarder still takes stdin
  exec,     \* handle_exec
  out,      \* frames for the client in the daemon
  sent,     \* parts of Head(out) already in the socket
  wire,     \* frames on their way to the command
  back,     \* frames on their way from serve
  command,  \* the remote command
  received, \* data frames the command has read
  eofSeen,  \* the command has seen the end of its stdin
  emitted,  \* frames of output the command has written
  interrupted \* an interrupt has reached the command's group

loop == <<client, taken, stdinOpen, pending, pressed, lastInt, got, place, shown>>
socket == <<up, down, closed>>
daemon == <<reader, ctrl, exec, out, sent>>
engine == <<lane, sigs, inband, fwdOpen>>
remote == <<wire, back, command, received, eofSeen, emitted, interrupted>>
vars == <<loop, socket, daemon, engine, remote>>

Init ==
  /\ client = "select" /\ taken = 0 /\ stdinOpen = TRUE /\ pending = << >>
  /\ pressed = 0 /\ lastInt = FALSE /\ got = << >> /\ place = "kept" /\ shown = 0
  /\ up = << >> /\ down = << >> /\ closed = FALSE
  /\ reader = "reading" /\ ctrl = << >>
  /\ lane = << >> /\ sigs = << >> /\ inband = << >> /\ fwdOpen = TRUE
  /\ exec = "running" /\ out = << >> /\ sent = 0
  /\ wire = << >> /\ back = << >> /\ command = "running"
  /\ received = << >> /\ eofSeen = FALSE /\ emitted = 0 /\ interrupted = FALSE

ClientGone == client \in {"reported", "failed", "forced", "killed", "torn"}

(***************************************************************************)
(* The client: one select loop.  The arm that is taken cancels the reads   *)
(* of the others; what a cancelled read has consumed is lost.              *)
(***************************************************************************)
WriteFrame(f) ==
  /\ client' = "write"
  /\ pending' = <<f>>
  /\ got' = << >>
  /\ place' = IF place = "kept" /\ got = << >> THEN "kept" ELSE "lost"

ReadStdin ==
  /\ client = "select" /\ stdinOpen /\ taken < Items
  /\ taken' = taken + 1
  /\ WriteFrame(taken + 1)
  /\ UNCHANGED <<stdinOpen, pressed, lastInt, shown, socket, daemon, engine, remote>>

StdinEnds ==
  /\ client = "select" /\ stdinOpen /\ taken = Items
  /\ stdinOpen' = FALSE
  /\ WriteFrame(Eof)
  /\ UNCHANGED <<taken, pressed, lastInt, shown, socket, daemon, engine, remote>>

\* A second interrupt within FORCE_EXIT_WINDOW leaves the loop.
TakeSignal(s) ==
  /\ client = "select"
  /\ \/ /\ pressed < MaxPress
        /\ pressed' = pressed + 1
        /\ lastInt' = (lastInt \/ s = SigInt)
        /\ WriteFrame(s)
     \/ /\ s = SigInt /\ lastInt
        /\ client' = "forced"
        /\ got' = << >>
        /\ UNCHANGED <<pending, place, pressed, lastInt>>
  /\ UNCHANGED <<taken, stdinOpen, shown, socket, daemon, engine, remote>>

\* The part is the next one of a frame that was read from its beginning.
InPlace(p) == place # "adrift" /\ p.part = Len(got) + 1

\* The last part completes the frame.
TakePart(p) ==
  /\ IF p.part < Parts
       THEN got' = Append(got, p) /\ UNCHANGED <<client, shown>>
       ELSE /\ got' = << >>
            /\ IF p.frame = Exit
                 THEN client' = "reported" /\ UNCHANGED shown
                 ELSE /\ shown' = IF p.frame = shown + 1 THEN p.frame ELSE Junk
                      /\ UNCHANGED client
  /\ UNCHANGED place

\* Bytes of a payload are taken for headers and what follows for payloads.  A header
\* may be refused, ask for more than this part, or make a frame of output, an answer to
\* a ping, or an exit.
Misread ==
  /\ shown' \in {shown, Junk}
  /\ \/ client' \in {"failed", "reported"} /\ UNCHANGED place
     \/ place' \in {"lost", "adrift"} /\ UNCHANGED client
  /\ UNCHANGED got

\* The pending read takes the part that has arrived.
PollFrame ==
  /\ client = "select" /\ down # << >>
  /\ down' = Tail(down)
  /\ IF InPlace(Head(down)) THEN TakePart(Head(down)) ELSE Misread
  /\ UNCHANGED <<taken, stdinOpen, pending, pressed, lastInt, up, closed, daemon,
                 engine, remote>>

\* The daemon closed the connection before an Exit frame was read.
PollEnd ==
  /\ client = "select" /\ down = << >> /\ closed
  /\ client' = "failed" /\ got' = << >>
  /\ UNCHANGED <<taken, stdinOpen, pending, pressed, lastInt, place, shown, socket,
                 daemon, engine, remote>>

\* Inside a write nothing else is polled.
WriteUp ==
  /\ client = "write" /\ ~closed
  /\ Len(up) < UpCap
  /\ up' = up \o pending
  /\ client' = "select" /\ pending' = << >>
  /\ UNCHANGED <<taken, stdinOpen, pressed, lastInt, got, place, shown, down, closed,
                 daemon, engine, remote>>

\* A write to the closed socket ends the run, whatever is left to read.
WriteBroken ==
  /\ client = "write" /\ closed
  /\ client' = "failed" /\ pending' = << >>
  /\ UNCHANGED <<taken, stdinOpen, pressed, lastInt, got, place, shown, socket, daemon,
                 engine, remote>>

\* The client is killed, perhaps in the middle of a frame.
ClientDies ==
  /\ ~ClientGone
  /\ client' = IF client = "write" THEN "torn" ELSE "killed"
  /\ pending' = << >> /\ got' = << >>
  /\ UNCHANGED <<taken, stdinOpen, pressed, lastInt, place, shown, socket, daemon,
                 engine, remote>>

(***************************************************************************)
(* The daemon's frame reader and the loop of handle_exec                   *)
(***************************************************************************)
\* Faulty variant: a frame for a full stdin lane is dropped.
RouteOrDrop ==
  /\ reader = "reading" /\ up # << >>
  /\ LET f == Head(up) IN
       IF f \in Signal
         THEN Len(ctrl) < CtrlCap /\ ctrl' = Append(ctrl, f) /\ UNCHANGED lane
         ELSE /\ lane' = IF Len(lane) < LaneCap THEN Append(lane, f) ELSE lane
              /\ UNCHANGED ctrl
  /\ up' = Tail(up)
  /\ UNCHANGED <<loop, down, closed, reader, exec, out, sent, sigs, inband, fwdOpen,
                 remote>>

\* Faulty variant: the end of stdin overtakes the data that is queued.
RouteEofFirst ==
  /\ reader = "reading" /\ up # << >>
  /\ LET f == Head(up) IN
       IF f \in Signal
         THEN Len(ctrl) < CtrlCap /\ ctrl' = Append(ctrl, f) /\ UNCHANGED lane
         ELSE /\ f # Eof => Len(lane) < LaneCap
              /\ lane' = IF f = Eof THEN <<Eof>> \o lane ELSE Append(lane, f)
              /\ UNCHANGED ctrl
  /\ up' = Tail(up)
  /\ UNCHANGED <<loop, down, closed, reader, exec, out, sent, sigs, inband, fwdOpen,
                 remote>>

\* Stdin is awaited into the lane, in order; with the lane full the reader is
\* parked, and everything behind waits in the socket.
RouteFrame ==
  /\ reader = "reading" /\ up # << >>
  /\ LET f == Head(up) IN
       IF f \in Signal
         THEN Len(ctrl) < CtrlCap /\ ctrl' = Append(ctrl, f) /\ UNCHANGED lane
         ELSE Len(lane) < LaneCap /\ lane' = Append(lane, f) /\ UNCHANGED ctrl
  /\ up' = Tail(up)
  /\ UNCHANGED <<loop, down, closed, reader, exec, out, sent, sigs, inband, fwdOpen,
                 remote>>

\* The client vanished: the remote side gets the end of stdin, not a kill.
ClientEnds ==
  /\ reader = "reading" /\ up = << >> /\ ClientGone
  /\ Len(lane) < LaneCap
  /\ lane' = Append(lane, Eof)
  /\ reader' = "done"
  /\ UNCHANGED <<loop, socket, ctrl, exec, out, sent, sigs, inband, fwdOpen, remote>>

\* The read fails: the client left a torn frame, or it closed the socket with
\* output unread, upon which the kernel resets the connection.
ClientResets ==
  /\ reader = "reading" /\ up = << >> /\ ClientGone
  /\ client = "torn" \/ down # << >>
  /\ Len(ctrl) < CtrlCap
  /\ ctrl' = Append(ctrl, Fatal)
  /\ reader' = "done"
  /\ UNCHANGED <<loop, socket, lane, exec, out, sent, sigs, inband, fwdOpen, remote>>

\* The lanes of the engine and the frame reader go with the execution.
DropEngine ==
  /\ reader' = "done" /\ ctrl' = << >>
  /\ lane' = << >> /\ sigs' = << >> /\ inband' = << >> /\ fwdOpen' = FALSE

\* The execution is abandoned, with its command.
AbandonExec ==
  /\ exec = "running" /\ ctrl # << >> /\ Head(ctrl) = Fatal
  /\ exec' = "abandoned"
  /\ DropEngine
  /\ UNCHANGED <<loop, socket, out, sent, remote>>

\* A full lane drops the signal.
ForwardSignal ==
  /\ exec = "running" /\ ctrl # << >> /\ Head(ctrl) # Fatal
  /\ ctrl' = Tail(ctrl)
  /\ sigs' = IF Len(sigs) < SigCap THEN Append(sigs, Head(ctrl)) ELSE sigs
  /\ UNCHANGED <<loop, socket, reader, exec, out, sent, lane, inband, fwdOpen, remote>>

(***************************************************************************)
(* The engine: signal sender, forwarder, control loop                      *)
(***************************************************************************)
\* Faulty variant: one task for all signals, which waits for the window.
SendInBand ==
  /\ exec = "running" /\ sigs # << >> /\ Len(wire) < WireCap
  /\ sigs' = Tail(sigs)
  /\ wire' = Append(wire, Head(sigs))
  /\ UNCHANGED <<loop, socket, daemon, lane, inband, fwdOpen, back, command,
                 received, eofSeen, emitted, interrupted>>

\* Int goes out of band, past the window; every signal also in band, if its lane
\* has room.
SendSignal ==
  /\ exec = "running" /\ sigs # << >>
  /\ sigs' = Tail(sigs)
  /\ inband' = IF Len(inband) < SigCap THEN Append(inband, Head(sigs)) ELSE inband
  /\ interrupted' = (interrupted \/ (Head(sigs) = SigInt /\ command = "running"))
  /\ UNCHANGED <<loop, socket, daemon, lane, fwdOpen, wire, back, command, received,
                 eofSeen, emitted>>

ForwardInBand ==
  /\ exec = "running" /\ inband # << >> /\ Len(wire) < WireCap
  /\ inband' = Tail(inband)
  /\ wire' = Append(wire, Head(inband))
  /\ UNCHANGED <<loop, socket, daemon, lane, sigs, fwdOpen, back, command, received,
                 eofSeen, emitted, interrupted>>

\* Signals come first; after the end of stdin only they are taken.
ForwardStdin ==
  /\ exec = "running" /\ fwdOpen /\ inband = << >>
  /\ lane # << >> /\ Len(wire) < WireCap
  /\ lane' = Tail(lane)
  /\ wire' = Append(wire, Head(lane))
  /\ fwdOpen' = (Head(lane) # Eof)
  /\ UNCHANGED <<loop, socket, daemon, sigs, inband, back, command, received, eofSeen,
                 emitted, interrupted>>

\* Output is awaited towards the client; it is dropped once the client is gone.
EngineOutput ==
  /\ exec = "running" /\ back # << >> /\ Head(back) # Exit
  /\ IF ClientGone
       THEN UNCHANGED out
       ELSE Len(out) < OutCap /\ out' = Append(out, Head(back))
  /\ back' = Tail(back)
  /\ UNCHANGED <<loop, socket, reader, ctrl, exec, sent, engine, wire, command,
                 received, eofSeen, emitted, interrupted>>

\* Faulty variant: the Exit frame goes ahead of the output.
ExitFirst ==
  /\ exec = "running" /\ back # << >> /\ Head(back) = Exit
  /\ exec' = "ended"
  /\ DropEngine
  /\ back' = << >>
  /\ out' = <<Exit>> \o out /\ sent' = 0
  /\ UNCHANGED <<loop, socket, wire, command, received, eofSeen, emitted,
                 interrupted>>

\* Faulty variant: the forwarder is joined without a bound.
ExitAfterStdin ==
  /\ exec = "running" /\ back # << >> /\ Head(back) = Exit
  /\ lane = << >>
  /\ exec' = "ended"
  /\ DropEngine
  /\ back' = << >>
  /\ out' = Append(out, Exit)
  /\ UNCHANGED <<loop, socket, sent, wire, command, received, eofSeen, emitted,
                 interrupted>>

\* The report ends the execution: the engine and the frame reader go, the bridge
\* is joined, and the Exit frame is queued behind all output.
EngineExit ==
  /\ exec = "running" /\ back # << >> /\ Head(back) = Exit
  /\ exec' = "ended"
  /\ DropEngine
  /\ back' = << >>
  /\ out' = Append(out, Exit)
  /\ UNCHANGED <<loop, socket, sent, wire, command, received, eofSeen, emitted,
                 interrupted>>

\* The connection's writer task: a frame is written part by part.
WriteDown ==
  /\ out # << >> /\ ~ClientGone
  /\ Len(down) < DownCap
  /\ down' = Append(down, [frame |-> Head(out), part |-> sent + 1])
  /\ IF sent + 1 = Parts
       THEN sent' = 0 /\ out' = Tail(out)
       ELSE sent' = sent + 1 /\ UNCHANGED out
  /\ UNCHANGED <<loop, up, closed, reader, ctrl, exec, engine, remote>>

\* A write to a client that is gone ends the task.
DropOutput ==
  /\ out # << >> /\ ClientGone
  /\ out' = << >> /\ sent' = 0
  /\ UNCHANGED <<loop, socket, reader, ctrl, exec, engine, remote>>

\* Both halves of the socket are dropped when the writer has flushed its queue.
CloseSocket ==
  /\ exec # "running" /\ out = << >> /\ ~closed
  /\ closed' = TRUE
  /\ UNCHANGED <<loop, up, down, daemon, engine, remote>>

\* The daemon process is killed; the frames that are in the socket stay there.
DaemonDies ==
  /\ exec # "dead" /\ ~closed
  /\ exec' = "dead" /\ closed' = TRUE
  /\ DropEngine
  /\ out' = << >> /\ sent' = 0
  /\ UNCHANGED <<loop, up, down, remote>>

(***************************************************************************)
(* The remote command, with its sp-serve                                   *)
(***************************************************************************)
CommandReads ==
  /\ command = "running" /\ wire # << >> /\ Head(wire) \notin Signal
  /\ wire' = Tail(wire)
  /\ IF Head(wire) = Eof
       THEN eofSeen' = TRUE /\ UNCHANGED received
       ELSE /\ received' = Append(received, Head(wire))
            /\ UNCHANGED eofSeen
  /\ UNCHANGED <<loop, socket, daemon, engine, back, command, emitted, interrupted>>

ServeTakesSignal ==
  /\ command = "running" /\ wire # << >> /\ Head(wire) \in Signal
  /\ wire' = Tail(wire)
  /\ interrupted' = (interrupted \/ Head(wire) = SigInt)
  /\ UNCHANGED <<loop, socket, daemon, engine, back, command, received, eofSeen,
                 emitted>>

\* The command writes when it likes, up to a bound.
CommandWrites ==
  /\ command = "running" /\ emitted < Items
  /\ Len(back) < BackCap
  /\ emitted' = emitted + 1
  /\ back' = Append(back, emitted + 1)
  /\ UNCHANGED <<loop, socket, daemon, engine, wire, command, received, eofSeen,
                 interrupted>>

\* It ends when it likes, or is killed.  serve's Exit frame follows all output.
CommandExits ==
  /\ command = "running"
  /\ Len(back) < BackCap
  /\ command' = "exited"
  /\ back' = Append(back, Exit)
  /\ wire' = << >>
  /\ UNCHANGED <<loop, socket, daemon, engine, received, eofSeen, emitted,
                 interrupted>>

ClientStep == ReadStdin \/ StdinEnds \/ PollFrame \/ PollEnd \/ WriteUp \/ WriteBroken
                \/ ClientDies
                \/ \E s \in Signal : TakeSignal(s)

DaemonStep == RouteFrame \/ ClientEnds \/ ClientResets \/ AbandonExec \/ ForwardSignal
                \/ EngineOutput \/ EngineExit \/ WriteDown \/ DropOutput \/ CloseSocket
                \/ DaemonDies

EngineStep == SendSignal \/ ForwardInBand \/ ForwardStdin

CommandStep == CommandReads \/ ServeTakesSignal \/ CommandWrites \/ CommandExits

Next == ClientStep \/ DaemonStep \/ EngineStep \/ CommandStep

\* Every task that can run is polled.  Nothing is assumed of the user, who may
\* never end stdin nor send a signal, nor of the command.
Fairness ==
  /\ WF_vars(PollFrame \/ PollEnd) /\ WF_vars(WriteUp \/ WriteBroken)
  /\ WF_vars(RouteFrame \/ ClientEnds \/ ClientResets)
  /\ WF_vars(AbandonExec \/ ForwardSignal)
  /\ WF_vars(SendSignal) /\ WF_vars(ForwardInBand \/ ForwardStdin)
  /\ WF_vars(EngineOutput \/ EngineExit)
  /\ WF_vars(WriteDown \/ DropOutput) /\ WF_vars(CloseSocket)
  /\ WF_vars(ServeTakesSignal)

Spec == Init /\ [][Next]_vars /\ Fairness

(***************************************************************************)
(* Properties                                                              *)
(***************************************************************************)
IsQueue(q, S, cap) == q \in Seq(S) /\ Len(q) <= cap

TypeOK ==
  /\ client \in {"select", "write", "reported", "failed", "forced", "killed", "torn"}
  /\ taken \in 0 .. Items /\ pressed \in 0 .. MaxPress
  /\ IsQueue(pending, 1 .. Items \cup Signal \cup {Eof}, 1)
  /\ (client = "write") = (pending # << >>)
  /\ IsQueue(got, [frame : 1 .. Items \cup {Exit}, part : 1 .. Parts], Parts - 1)
  /\ place \in {"kept", "lost", "adrift"}
  /\ shown \in 0 .. Items \cup {Junk}
  /\ IsQueue(up, 1 .. Items \cup Signal \cup {Eof}, UpCap)
  /\ IsQueue(down, [frame : 1 .. Items \cup {Exit}, part : 1 .. Parts], DownCap)
  /\ reader \in {"reading", "done"}
  /\ exec \in {"running", "ended", "abandoned", "dead"}
  /\ IsQueue(ctrl, Signal \cup {Fatal}, CtrlCap)
  /\ IsQueue(lane, 1 .. Items \cup {Eof}, LaneCap)
  /\ IsQueue(sigs, Signal, SigCap) /\ IsQueue(inband, Signal, SigCap)
  /\ IsQueue(out, 1 .. Items \cup {Exit}, OutCap + 1) /\ sent \in 0 .. Parts - 1
  /\ IsQueue(wire, 1 .. Items \cup Signal \cup {Eof}, WireCap)
  /\ IsQueue(back, 1 .. Items \cup {Exit}, BackCap)
  /\ command \in {"running", "exited"}
  /\ received \in Seq(1 .. Items) /\ emitted \in 0 .. Items
  /\ {stdinOpen, lastInt, closed, fwdOpen, eofSeen, interrupted} \subseteq BOOLEAN

IsData(f) == f \in 1 .. Items

\* The data frames of a queue are those after m up to n, each once and in order.
Carries(q, m, n) ==
  /\ m <= n
  /\ \A i \in DOMAIN q : IsData(q[i]) => q[i] \in m + 1 .. n
  /\ \A k \in m + 1 .. n : \E i \in DOMAIN q : q[i] = k
  /\ \A i, j \in DOMAIN q : IsData(q[i]) /\ IsData(q[j]) /\ i < j => q[i] < q[j]

\* Back-pressure instead of loss: while the execution runs, what the client has
\* read from its stdin is exactly what the command has received and what is on its
\* way to it, in order (a client killed in a write takes that one frame with it).
StdinConserved ==
  command = "running" /\ exec = "running" =>
    /\ \A i \in DOMAIN received : received[i] = i
    /\ \E w, l, u, p \in 0 .. taken :
         /\ Carries(wire, Len(received), w) /\ Carries(lane, w, l)
         /\ Carries(up, l, u) /\ Carries(pending, u, p)
         /\ p + 1 >= taken /\ (client # "torn" => p = taken)

\* The command sees the end of its stdin only behind all the data that was sent,
\* and only if the client has met the end of its own or is gone.
EofComesLast ==
  eofSeen => /\ ~stdinOpen \/ ClientGone
             /\ Len(received) + 1 >= taken
             /\ client # "torn" => Len(received) = taken

\* As long as no half-read frame has been dropped, what the client shows is a beginning
\* of what the command wrote, and a run that reports the command's exit has shown
\* everything.
OutputIsPrefix ==
  place = "kept" => /\ shown <= emitted
                    /\ client = "reported" => shown = emitted

\* How the user of Pipes is, if this is the client.
User ==
  CASE client \in {"select", "write"} -> "there"
    [] client \in {"reported", "torn"} -> client
    [] OTHER -> "gone"

Direct == INSTANCE Pipes WITH
  typed <- taken, closed <- ~stdinOpen, pressed <- lastInt, eof <- eofSeen,
  written <- emitted, exited <- (command = "exited"), user <- User,
  astray <- (place # "kept")

\* A run behaves as one of a local command, whatever queue is full and whoever dies on
\* the way.  Nothing is lost, doubled, reordered or made up of what the user types.  The
\* same holds of what the user sees, up to the first key or stdin that the client meets
\* with output or the exit on its way.
ActsAsLocal == Direct!Spec

\* The frame reader waits for room that only the command's reading can make.
ReaderParked ==
  /\ reader = "reading" /\ up # << >> /\ Head(up) \notin Signal
  /\ Len(lane) = LaneCap /\ Len(wire) = WireCap

\* The client has taken an interrupt and the daemon has not.
InterruptSent ==
  /\ pressed <= SigCap
  /\ \E f \in {pending, up} : \E i \in DOMAIN f : f[i] = SigInt

InterruptTaken ==
  interrupted \/ command = "exited" \/ exec # "running" \/ client = "torn"

\* An interrupt reaches the command's group, however full the way of the stdin data is
\* behind the daemon, if the lanes hold all signals; only a frame reader that is parked
\* for ever keeps it.
InterruptPassesStdin == InterruptSent ~> (InterruptTaken \/ []ReaderParked)

\* The client waits for the daemon to read and the daemon for the client to.
WaitForEachOther ==
  /\ client = "write" /\ Len(up) = UpCap /\ (ReaderParked \/ reader = "done")
  /\ out # << >> /\ Len(down) = DownCap

\* The end of the command reaches the client, or the two are stuck in writes to each
\* other: there is no other way to hang.
EndReachesClientOrWrite == (command = "exited") ~> (ClientGone \/ WaitForEachOther)

\* A signal is never stuck behind queued stdin data on the daemon's hop.  Refuted: the
\* frame reader in front of a full lane takes no signal from the socket either.
SignalPassesReader == InterruptSent ~> InterruptTaken

\* The end of the command reaches the client.  Refuted: with the socket towards
\* the daemon full the client waits in a write, nobody reads what is left of the
\* output, and the daemon never gets to close the connection.
EndReachesClient == (command = "exited") ~> ClientGone

\* Output is forwarded faithfully: a healthy stream does not fail the client, what it
\* shows is what the command wrote, and it reports the command's own exit.  Refuted: an
\* arm that is ready while a frame has been read in part cancels the read.
ClientKeepsItsPlace ==
  /\ client = "failed" => closed
  /\ shown # Junk
  /\ client = "reported" => command = "exited" /\ shown = emitted

\* The command of a client that has vanished, though not in the middle of a frame,
\* is left to finish.  Refuted: a client that leaves output unread resets the
\* connection, which counts as an error.
VanishedClientLetsFinish == client # "torn" => exec # "abandoned"
=============================================================================
