-------------------------------- MODULE Engine --------------------------------
(***************************************************************************)
(* One exec channel of the daemon (ExecChannel of remote.rs) from open to  *)
(* the end of its tasks: the reader, the loop of wait() with the frame     *)
(* decoder of sp-proto, the signal sender, the forwarder, the latched      *)
(* shutdown flag, and the two ways to tear down, finish and Drop.          *)
(*                                                                         *)
(* The channel carries units: a frame is its kind, the length of its       *)
(* payload (five bytes of header in the code), and the payload.  The lanes *)
(* are reduced to how much they still hold; Relay has their contents.      *)
(***************************************************************************)
EXTENDS Naturals, Sequences

CONSTANTS
  MaxUnit,    \* a unit is a kind, a length or a piece of a payload
  MaxPayload, \* the decoder's limit for the length of a payload (16 MiB)
  Reports,    \* the payloads that parse as a report
  Bounds,     \* bounds of a behaviour: units the remote side sends, stdin items, signals
  MaxChunk,   \* bound: units in one message of the channel
  MsgCap,     \* capacity of the reader's event lane (64)
  CloseTime,  \* FORWARDER_CLOSE, TASK_REAP and FORWARDER_JOIN, in ticks
  ReapTime,
  JoinTime

ASSUME EngineAssumption ==
  /\ MaxUnit \in Nat \ {0} /\ MaxPayload \in Nat
  /\ Bounds \subseteq [units : Nat, stdin : Nat, signals : Nat]
  /\ {MaxChunk, MsgCap, CloseTime, ReapTime, JoinTime} \subseteq Nat \ {0}
  /\ CloseTime < ReapTime /\ CloseTime < JoinTime

VARIABLES
  bounds,    \* one of Bounds
  stream,    \* all units the reader has received
  peer,      \* the remote side: open, or ended
  link,      \* the connection's event loop: up, wedged or dead
  reader,    \* the reader task
  hand,      \* the message it hands on
  msgs,      \* its event lane
  buf,       \* EventDecoder: an incomplete frame
  fed,       \* units the decoder has been given
  todo,      \* frames of the last push that are still to be handled
  delivered, \* payloads of output sent on to the client
  wait,      \* the control loop, and the teardown behind it
  outcome,
  sender,    \* the out-of-band signal sender
  signals,   \* signals it may still get
  inband,    \* signals in the in-band lane
  fwd,       \* the forwarder
  item,      \* what it is writing
  stdin,     \* data items it may still get
  open,      \* it has not passed on the end of stdin
  shutdown,  \* the latched flag
  closeSent, \* the channel close has been requested
  closeAge,  \* ticks since the forwarder began to close
  joinAge,   \* ticks since finish or the reaper began to join
  reaper     \* the task that Drop spawns

channel == <<bounds, stream, peer, link>>
input == <<reader, hand, msgs>>
decoder == <<buf, fed, todo, delivered>>
control == <<wait, outcome>>
output == <<sender, signals, inband, fwd, item, stdin, open>>
teardown == <<shutdown, closeSent, closeAge, joinAge, reaper>>
vars == <<channel, input, decoder, control, output, teardown>>

(***************************************************************************)
(* The frame codec of sp-proto                                             *)
(***************************************************************************)
Unit == 0 .. MaxUnit
Out == 0          \* kinds; no other unit is one
Exit == 1

\* decode_event: the payload of a report must parse.
Parses(kind, payload) == kind = Exit => payload \in Reports

\* The frames that are within the decoder's limit, and how they are written.
Frame == {f \in [kind : {Out, Exit}, payload : Seq(Unit)] :
            /\ Len(f.payload) \in Unit /\ Len(f.payload) <= MaxPayload
            /\ Parses(f.kind, f.payload)}

Encode(f) == <<f.kind, Len(f.payload)>> \o f.payload

\* Faulty variant: an incomplete header is not kept.
PushForgets(b, chunk) ==
  LET drain[q \in Seq(Unit)] ==
        IF Len(q) < 2 THEN [bad |-> FALSE, frames |-> << >>, rest |-> << >>]
        ELSE IF q[2] > MaxPayload THEN [bad |-> TRUE, frames |-> << >>, rest |-> q]
        ELSE IF Len(q) < 2 + q[2] THEN [bad |-> FALSE, frames |-> << >>, rest |-> q]
        ELSE LET payload == SubSeq(q, 3, 2 + q[2])
                 next == drain[SubSeq(q, 3 + q[2], Len(q))]
             IN IF q[1] \notin {Out, Exit} \/ ~Parses(q[1], payload)
                  THEN [bad |-> TRUE, frames |-> << >>, rest |-> q]
                  ELSE [next EXCEPT
                          !.frames = <<[kind |-> q[1], payload |-> payload]>> \o @]
  IN drain[b \o chunk]

\* EventDecoder::push: every frame that has become complete.  The length is checked
\* with the header, the kind only with the whole frame; an error drops the frames
\* that the same push has decoded.
Push(b, chunk) ==
  LET drain[q \in Seq(Unit)] ==
        IF Len(q) < 2 THEN [bad |-> FALSE, frames |-> << >>, rest |-> q]
        ELSE IF q[2] > MaxPayload THEN [bad |-> TRUE, frames |-> << >>, rest |-> q]
        ELSE IF Len(q) < 2 + q[2] THEN [bad |-> FALSE, frames |-> << >>, rest |-> q]
        ELSE LET payload == SubSeq(q, 3, 2 + q[2])
                 next == drain[SubSeq(q, 3 + q[2], Len(q))]
             IN IF q[1] \notin {Out, Exit} \/ ~Parses(q[1], payload)
                  THEN [bad |-> TRUE, frames |-> << >>, rest |-> q]
                  ELSE [next EXCEPT
                          !.frames = <<[kind |-> q[1], payload |-> payload]>> \o @]
  IN drain[b \o chunk]

\* read_event_frame until the end of the bytes: the reader of the other hop, which
\* sees the kind with the header and calls the end within a frame an error.
ReadAll(bytes) ==
  LET read[q \in Seq(Unit)] ==
        IF q = << >> THEN [end |-> "clean", frames |-> << >>]
        ELSE IF Len(q) < 2 THEN [end |-> "partial", frames |-> << >>]
        ELSE IF q[1] \notin {Out, Exit} \/ q[2] > MaxPayload
          THEN [end |-> "bad", frames |-> << >>]
        ELSE IF Len(q) < 2 + q[2] THEN [end |-> "partial", frames |-> << >>]
        ELSE LET payload == SubSeq(q, 3, 2 + q[2])
             IN IF ~Parses(q[1], payload) THEN [end |-> "bad", frames |-> << >>]
                  ELSE [read[SubSeq(q, 3 + q[2], Len(q))] EXCEPT
                          !.frames = <<[kind |-> q[1], payload |-> payload]>> \o @]
  IN read[bytes]

Init ==
  /\ bounds \in Bounds
  /\ stream = << >> /\ peer = "open" /\ link = "up"
  /\ reader = "reading" /\ hand = << >> /\ msgs = << >>
  /\ buf = << >> /\ fed = 0 /\ todo = << >> /\ delivered = << >>
  /\ wait = "loop" /\ outcome = "none"
  /\ sender = "waiting" /\ signals = bounds.signals /\ inband = 0
  /\ fwd = "select" /\ item = "none" /\ stdin = bounds.stdin /\ open = TRUE
  /\ shutdown = FALSE /\ closeSent = FALSE /\ closeAge = 0 /\ joinAge = 0
  /\ reaper = "none"

Closed == << >>   \* the message for the end of the channel; data is never empty

(***************************************************************************)
(* The remote side and the connection                                      *)
(***************************************************************************)
RemoteEnds ==
  /\ peer = "open"
  /\ peer' = "ended"
  /\ UNCHANGED <<bounds, stream, link, input, decoder, control, output, teardown>>

LinkFails ==
  /\ link = "up"
  /\ link' \in {"wedged", "dead"}
  /\ UNCHANGED <<bounds, stream, peer, input, decoder, control, output, teardown>>

(***************************************************************************)
(* The reader task                                                         *)
(***************************************************************************)
\* A message is handed on at once if the lane has room.
Receive(m) ==
  IF Len(msgs) < MsgCap
    THEN /\ msgs' = Append(msgs, m)
         /\ reader' = IF m = Closed THEN "ending" ELSE "reading"
         /\ UNCHANGED hand
    ELSE /\ hand' = m
         /\ reader' = "handing"
         /\ UNCHANGED msgs

\* The channel delivers what serve, or a login shell, has written in messages that
\* have nothing to do with frames.
ReadChunk ==
  /\ reader = "reading" /\ link = "up" /\ peer = "open"
  /\ wait \in {"loop", "deliver"}
  /\ \E n \in 1 .. MaxChunk : \E units \in [1 .. n -> Unit] :
       /\ Len(stream) + n <= bounds.units
       /\ stream' = stream \o units
       /\ Receive(units)
  /\ UNCHANGED <<bounds, peer, link, decoder, control, output, teardown>>

ReadEnd ==
  /\ reader = "reading" /\ link = "up" /\ peer = "ended"
  /\ Receive(Closed)
  /\ UNCHANGED <<channel, decoder, control, output, teardown>>

\* The lane is awaited, and not against the flag.
HandOn ==
  /\ reader = "handing" /\ Len(msgs) < MsgCap
  /\ wait \notin {"returned", "dropped"}
  /\ msgs' = Append(msgs, hand)
  /\ hand' = << >>
  /\ reader' = IF hand = Closed THEN "ending" ELSE "reading"
  /\ UNCHANGED <<channel, decoder, control, output, teardown>>

\* The end of the channel or of the connection, the flag, or a lane whose receiver
\* is gone end the task, which fires the flag for a forwarder parked in a write.
ReaderEnds ==
  /\ \/ reader = "reading" /\ (link = "dead" \/ shutdown)
     \/ reader = "ending"
     \/ reader = "handing" /\ wait \in {"returned", "dropped"}
  /\ reader' = "done" /\ hand' = << >>
  /\ shutdown' = TRUE
  /\ UNCHANGED <<channel, msgs, decoder, control, output, closeSent, closeAge,
                 joinAge, reaper>>

(***************************************************************************)
(* The control loop of wait()                                              *)
(***************************************************************************)
\* All ways out of the loop lead through finish, which fires the flag.
Leave(result) ==
  /\ outcome' = result
  /\ wait' = "finishing"
  /\ shutdown' = TRUE

TakeData ==
  /\ wait = "loop" /\ msgs # << >> /\ Head(msgs) # Closed
  /\ msgs' = Tail(msgs)
  /\ fed' = fed + Len(Head(msgs))
  /\ LET push == Push(buf, Head(msgs))
     IN IF push.bad
          THEN /\ Leave("corrupt")
               /\ UNCHANGED <<buf, todo>>
          ELSE /\ buf' = push.rest /\ todo' = push.frames
               /\ wait' = IF push.frames = << >> THEN "loop" ELSE "deliver"
               /\ UNCHANGED <<outcome, shutdown>>
  /\ UNCHANGED <<channel, reader, hand, delivered, output, closeSent, closeAge,
                 joinAge, reaper>>

\* Output waits for the client; a report ends the loop.
Deliver ==
  /\ wait = "deliver"
  /\ todo' = Tail(todo)
  /\ IF Head(todo).kind = Exit
       THEN /\ Leave("exit")
            /\ UNCHANGED delivered
       ELSE /\ delivered' = Append(delivered, Head(todo).payload)
            /\ wait' = IF Len(todo) = 1 THEN "loop" ELSE "deliver"
            /\ UNCHANGED <<outcome, shutdown>>
  /\ UNCHANGED <<channel, input, buf, fed, output, closeSent, closeAge, joinAge, reaper>>

\* The channel is over, or the reader has gone, without a report.
TakeEnd ==
  /\ wait = "loop"
  /\ \/ msgs # << >> /\ Head(msgs) = Closed
     \/ msgs = << >> /\ reader = "done"
  /\ Leave("no report")
  /\ UNCHANGED <<channel, input, decoder, output, closeSent, closeAge, joinAge, reaper>>

(***************************************************************************)
(* The signal sender and the forwarder                                     *)
(***************************************************************************)
\* Only interrupts go out of band, which needs no window but a working event loop.
TakeSignal ==
  /\ sender = "waiting" /\ signals > 0
  /\ signals' = signals - 1
  /\ \/ sender' = "signalling" /\ UNCHANGED inband
     \/ inband' = inband + 1 /\ UNCHANGED sender
  /\ UNCHANGED <<channel, input, decoder, control, fwd, item, stdin, open, teardown>>

SignalSent ==
  /\ sender = "signalling" /\ link # "wedged"
  /\ sender' = "waiting"
  /\ inband' = inband + 1
  /\ UNCHANGED <<channel, input, decoder, control, signals, fwd, item, stdin, open,
                 teardown>>

SenderEnds ==
  /\ sender \in {"waiting", "signalling"} /\ shutdown
  /\ sender' = "done"
  /\ UNCHANGED <<channel, input, decoder, control, signals, inband, fwd, item, stdin,
                 open, teardown>>

\* While stdin is open the select is biased: signals first, then stdin, the flag last.
ForwardItem ==
  /\ fwd = "select"
  /\ \/ /\ inband > 0
        /\ inband' = inband - 1 /\ item' = "signal" /\ fwd' = "writing"
        /\ UNCHANGED <<stdin, open>>
     \/ /\ inband = 0 /\ sender # "done" /\ open
        /\ \/ stdin > 0 /\ stdin' = stdin - 1 /\ item' = "data" /\ fwd' = "writing"
              /\ UNCHANGED open
           \/ item' = "eof" /\ fwd' = "writing" /\ UNCHANGED <<stdin, open>>
           \/ open' = FALSE /\ UNCHANGED <<stdin, item, fwd>>   \* the lane is closed
        /\ UNCHANGED inband
  /\ UNCHANGED <<channel, input, decoder, control, sender, signals, teardown>>

\* A write that the window has room for; without room it stays parked, also on a
\* channel that is closed.
WriteDone ==
  /\ fwd = "writing" /\ link = "up"
  /\ fwd' = "select" /\ item' = "none"
  /\ open' = (open /\ item # "eof")
  /\ UNCHANGED <<channel, input, decoder, control, sender, signals, inband, stdin,
                 teardown>>

BeginClose ==
  /\ fwd' = "closing" /\ item' = "none"
  /\ closeAge' = 0

\* The transport is dead.  Only for the end of stdin is the failure passed over.
WriteFails ==
  /\ fwd = "writing" /\ link = "dead"
  /\ \/ item # "eof" /\ BeginClose /\ UNCHANGED open
     \/ item = "eof" /\ fwd' = "select" /\ item' = "none" /\ open' = FALSE
        /\ UNCHANGED closeAge
  /\ UNCHANGED <<channel, input, decoder, control, sender, signals, inband, stdin,
                 shutdown, closeSent, joinAge, reaper>>

\* Faulty variant: a write is not cancelled.
SeesFlagIdle ==
  \/ fwd = "select" /\ inband = 0 /\ open /\ sender # "done" /\ shutdown
  \/ fwd = "select" /\ ~open /\ (shutdown \/ (inband = 0 /\ sender = "done"))

\* With the in-band lane closed the first arm of the select is always ready: while
\* stdin is open it is taken again and again, and the flag is never looked at; once
\* stdin has ended the select is not biased, and the closed lane itself ends the loop.
SeesFlag ==
  \/ fwd = "writing" /\ shutdown
  \/ fwd = "select" /\ inband = 0 /\ open /\ sender # "done" /\ shutdown
  \/ fwd = "select" /\ ~open /\ (shutdown \/ (inband = 0 /\ sender = "done"))

ForwarderLeaves ==
  /\ SeesFlag
  /\ BeginClose
  /\ UNCHANGED <<channel, input, decoder, control, sender, signals, inband, stdin, open,
                 shutdown, closeSent, joinAge, reaper>>

CloseDone ==
  /\ fwd = "closing" /\ link # "wedged"
  /\ fwd' = "done"
  /\ closeSent' = (link = "up")
  /\ UNCHANGED <<channel, input, decoder, control, sender, signals, inband, item, stdin,
                 open, shutdown, closeAge, joinAge, reaper>>

CloseTimeout ==
  /\ fwd = "closing" /\ closeAge = CloseTime
  /\ fwd' = "done"
  /\ UNCHANGED <<channel, input, decoder, control, sender, signals, inband, item, stdin,
                 open, teardown>>

(***************************************************************************)
(* EngineTasks: finish and Drop                                            *)
(***************************************************************************)
\* What nobody will look at any more.
Forget ==
  /\ stream' = << >> /\ hand' = << >> /\ msgs' = << >>
  /\ buf' = << >> /\ fed' = 0 /\ todo' = << >> /\ delivered' = << >>

\* The side tasks are aborted and joined.
AbortSides ==
  /\ wait = "finishing"
  /\ wait' = "joining"
  /\ reader' = "done" /\ sender' = "done"
  /\ joinAge' = 0
  /\ Forget
  /\ UNCHANGED <<bounds, peer, link, outcome, signals, inband, fwd, item, stdin, open, shutdown,
                 closeSent, closeAge, reaper>>

Joined ==
  /\ wait = "joining" /\ fwd = "done"
  /\ wait' = "returned"
  /\ UNCHANGED <<channel, input, decoder, outcome, output, teardown>>

JoinTimeout ==
  /\ wait = "joining" /\ fwd # "done" /\ joinAge = JoinTime
  /\ wait' = "returned"
  /\ fwd' = "aborted" /\ item' = "none"
  /\ UNCHANGED <<channel, input, decoder, outcome, sender, signals, inband, stdin, open,
                 teardown>>

AllDone == reader = "done" /\ sender = "done" /\ fwd \in {"done", "aborted"}

\* The future of wait() is dropped at any of its awaits.  A forwarder that finish had
\* taken is left alone; a task that finish had not aborted yet only has the flag.
DropEngine ==
  /\ wait \in {"loop", "deliver", "finishing", "joining"}
  /\ wait' = "dropped"
  /\ shutdown' = TRUE
  /\ reaper' = IF wait = "joining" \/ AllDone THEN "none" ELSE "joining"
  /\ joinAge' = 0
  /\ stream' = << >> /\ msgs' = << >>
  /\ buf' = << >> /\ fed' = 0 /\ todo' = << >> /\ delivered' = << >>
  /\ UNCHANGED <<bounds, peer, link, reader, hand, outcome, output, closeSent, closeAge>>

Reaped ==
  /\ reaper = "joining" /\ AllDone
  /\ reaper' = "done"
  /\ UNCHANGED <<channel, input, decoder, control, output, shutdown, closeSent, closeAge,
                 joinAge>>

\* Faulty variant: the forwarder is joined but not aborted.
ReapSides ==
  /\ reaper = "joining" /\ ~AllDone /\ joinAge = ReapTime
  /\ reaper' = "done"
  /\ reader' = "done" /\ hand' = << >> /\ sender' = "done"
  /\ UNCHANGED <<channel, msgs, decoder, control, signals, inband, fwd, item, stdin,
                 open, shutdown, closeSent, closeAge, joinAge>>

ReapTimeout ==
  /\ reaper = "joining" /\ ~AllDone /\ joinAge = ReapTime
  /\ reaper' = "done"
  /\ reader' = "done" /\ hand' = << >> /\ sender' = "done"
  /\ fwd' = IF fwd = "done" THEN fwd ELSE "aborted"
  /\ item' = "none"
  /\ UNCHANGED <<channel, msgs, decoder, control, signals, inband, stdin, open,
                 shutdown, closeSent, closeAge, joinAge>>

\* Time passes only when no task can run; seconds are long for them.
Idle ==
  /\ ~SeesFlag
  /\ ~(fwd = "closing" /\ (link # "wedged" \/ closeAge = CloseTime))
  /\ ~(fwd = "writing" /\ link = "dead")
  /\ ~(fwd = "select" /\ inband > 0)
  /\ ~(sender \in {"waiting", "signalling"} /\ shutdown)
  /\ ~(reader = "reading" /\ shutdown) /\ wait # "finishing"
  /\ ~(reader = "handing" /\ wait = "dropped") /\ reader # "ending"

Tick ==
  /\ Idle
  /\ \/ fwd = "closing" /\ closeAge < CloseTime
     \/ wait = "joining" /\ joinAge < JoinTime
     \/ reaper = "joining" /\ joinAge < ReapTime
  /\ closeAge' = IF fwd = "closing" THEN closeAge + 1 ELSE closeAge
  /\ joinAge' = IF \/ wait = "joining" /\ joinAge < JoinTime
                   \/ reaper = "joining" /\ joinAge < ReapTime
                  THEN joinAge + 1 ELSE joinAge
  /\ UNCHANGED <<channel, input, decoder, control, output, shutdown, closeSent, reaper>>

Remote == RemoteEnds \/ LinkFails
Reading == ReadChunk \/ ReadEnd \/ HandOn \/ ReaderEnds
Loop == TakeData \/ Deliver \/ TakeEnd
Sending == TakeSignal \/ SignalSent \/ SenderEnds
Forwarding == ForwardItem \/ WriteDone \/ WriteFails \/ ForwarderLeaves
                \/ CloseDone \/ CloseTimeout
Ending == AbortSides \/ Joined \/ JoinTimeout \/ DropEngine \/ Reaped \/ ReapTimeout

Next == Remote \/ Reading \/ Loop \/ Sending \/ Forwarding \/ Ending \/ Tick

\* Tasks that can run do, and time passes.  Nothing is assumed of the remote side, of
\* the client that takes the output, of the window, or of the watchdog that drops.
Fairness ==
  /\ WF_vars(ReaderEnds) /\ WF_vars(SenderEnds)
  /\ WF_vars(ForwardItem \/ ForwarderLeaves) /\ WF_vars(WriteFails)
  /\ WF_vars(CloseDone \/ CloseTimeout)
  /\ WF_vars(AbortSides \/ Joined \/ JoinTimeout) /\ WF_vars(Reaped \/ ReapTimeout)
  /\ WF_vars(Tick)

Spec == Init /\ [][Next]_vars /\ Fairness

(***************************************************************************)
(* Properties                                                              *)
(***************************************************************************)
\* However the channel cuts the stream into messages, the client gets the first of the
\* frames that a reader of the whole stream finds, all of them output; it gets all up to
\* the report or the end, if the execution ends in one; and an execution is called
\* corrupt only for units that such a reader refuses, too.
DecodesAsRead ==
  wait \in {"loop", "deliver", "finishing"} =>
    LET all == ReadAll(SubSeq(stream, 1, fed))
        n == Len(delivered)
    IN /\ n <= Len(all.frames)
       /\ \A i \in 1 .. n : all.frames[i] = [kind |-> Out, payload |-> delivered[i]]
       /\ outcome \in {"none", "no report"} /\ todo = << >> => n = Len(all.frames)
       /\ outcome = "exit" => n < Len(all.frames) /\ all.frames[n + 1].kind = Exit
       /\ outcome = "corrupt" => all.end # "clean"

\* A forwarder that has passed on the end of stdin is never aborted: it always gets to
\* ask for the close of the channel, unless the event loop itself does not answer.
CloseAfterEof == fwd = "aborted" => open

\* With the in-band lane closed and stdin still open the forwarder goes round in its
\* select without waiting.
Spins == fwd = "select" /\ inband = 0 /\ open /\ sender = "done"

\* Once wait() has left its loop, or was dropped, all three tasks come to an end;
\* only a spinning forwarder whose finish is itself dropped may be left behind.
TasksEnd ==
  wait \in {"finishing", "dropped"}
    ~> (AllDone \/ (Spins /\ wait = "dropped" /\ reaper = "none"))

\* No task outlives the channel.  Refuted: finish takes the forwarder to join it, the
\* forwarder spins, and a client that breaks its stream drops finish.
NoTaskLeaks == wait \in {"finishing", "dropped"} ~> AllDone
=============================================================================
