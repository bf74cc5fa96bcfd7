---------------------------- MODULE RelayProofs ----------------------------
(***************************************************************************)
(* Theorems about Relay, for any amount of data, any number of parts of a  *)
(* frame and any capacity of the queues on the way.                        *)
(***************************************************************************)
EXTENDS Relay, SequenceTheorems, TLAPS

\* What is assumed of the constants, one by one.
LEMMA ConstantFacts ==
  /\ Items \in Nat /\ MaxPress \in Nat
  /\ Parts \in Nat /\ UpCap \in Nat /\ CtrlCap \in Nat /\ LaneCap \in Nat /\ SigCap \in Nat
  /\ WireCap \in Nat /\ BackCap \in Nat /\ OutCap \in Nat /\ DownCap \in Nat
  /\ Parts > 0 /\ UpCap > 0 /\ CtrlCap > 0 /\ LaneCap > 0 /\ SigCap > 0
  /\ WireCap > 0 /\ BackCap > 0 /\ OutCap > 0 /\ DownCap > 0
  BY RelayAssumption

(***************************************************************************)
(* Type correctness: no queue grows beyond its capacity                    *)
(***************************************************************************)
\* What may travel towards the command, and towards the client.
Upward == 1 .. Items \cup Signal \cup {Eof}
Downward == 1 .. Items \cup {Exit}
Pieces == [frame : Downward, part : 1 .. Parts]

\* What a queue goes through.
LEMMA QueueOps ==
  ASSUME NEW S, NEW cap \in Nat, NEW q, IsQueue(q, S, cap)
  PROVE  /\ IsQueue(<< >>, S, cap)
         /\ q # << >> => Head(q) \in S /\ IsQueue(Tail(q), S, cap)
         /\ \A x \in S : Len(q) < cap => IsQueue(Append(q, x), S, cap)
<1>1. q \in Seq(S) /\ Len(q) <= cap /\ Len(q) \in Nat
  BY DEF IsQueue
<1>2. IsQueue(<< >>, S, cap)
  BY DEF IsQueue
<1>3. ASSUME q # << >> PROVE Head(q) \in S /\ IsQueue(Tail(q), S, cap)
  <2>1. Head(q) \in S /\ Tail(q) \in Seq(S) /\ Len(Tail(q)) = Len(q) - 1
    BY <1>1, <1>3
  <2>2. QED
    BY <1>1, <2>1 DEF IsQueue
<1>4. ASSUME NEW x \in S, Len(q) < cap PROVE IsQueue(Append(q, x), S, cap)
  <2>1. Append(q, x) \in Seq(S) /\ Len(Append(q, x)) = Len(q) + 1
    BY <1>1
  <2>2. QED
    BY <1>1, <1>4, <2>1 DEF IsQueue
<1>5. QED
  BY <1>2, <1>3, <1>4

\* The types, queue by queue.
LoopTypes ==
  /\ client \in {"select", "write", "reported", "failed", "forced", "killed", "torn"}
  /\ taken \in 0 .. Items /\ pressed \in 0 .. MaxPress
  /\ (client = "write") = (pending # << >>)
  /\ place \in {"kept", "lost", "adrift"} /\ shown \in 0 .. Items \cup {Junk}
  /\ sent \in 0 .. Parts - 1 /\ emitted \in 0 .. Items
  /\ reader \in {"reading", "done"} /\ exec \in {"running", "ended", "abandoned", "dead"}
  /\ command \in {"running", "exited"}
  /\ {stdinOpen, lastInt, closed, fwdOpen, eofSeen, interrupted} \subseteq BOOLEAN

UpTypes ==
  /\ IsQueue(pending, Upward, 1) /\ IsQueue(up, Upward, UpCap)
  /\ IsQueue(ctrl, Signal \cup {Fatal}, CtrlCap)
  /\ IsQueue(lane, 1 .. Items \cup {Eof}, LaneCap)
  /\ IsQueue(sigs, Signal, SigCap) /\ IsQueue(inband, Signal, SigCap)
  /\ IsQueue(wire, Upward, WireCap)
  /\ received \in Seq(1 .. Items)

DownTypes ==
  /\ IsQueue(got, Pieces, Parts - 1) /\ IsQueue(down, Pieces, DownCap)
  /\ IsQueue(out, Downward, OutCap + 1) /\ IsQueue(back, Downward, BackCap)

\* While the execution runs there is room for the Exit frame.
RoomForExit == exec = "running" => Len(out) <= OutCap

\* The type invariant is the conjunction of the three, in this state and in the next.
LEMMA TypeParts == TypeOK <=> LoopTypes /\ UpTypes /\ DownTypes
  BY DEF TypeOK, LoopTypes, UpTypes, DownTypes, Upward, Downward, Pieces

\* The same of the next state.
LEMMA TypePartsNext == TypeOK' <=> LoopTypes' /\ UpTypes' /\ DownTypes'
  BY DEF TypeOK, LoopTypes, UpTypes, DownTypes, Upward, Downward, Pieces

\* The client writes one frame at a time.
LEMMA OnePending ==
  /\ \A f \in Upward : IsQueue(<<f>>, Upward, 1)
  /\ LoopTypes /\ UpTypes /\ client = "write" =>
       /\ Head(pending) \in Upward /\ pending = <<Head(pending)>>
       /\ up \o pending = Append(up, Head(pending))
<1>1. ASSUME NEW f \in Upward PROVE IsQueue(<<f>>, Upward, 1)
  BY DEF IsQueue
<1>2. ASSUME LoopTypes, UpTypes, client = "write"
      PROVE  /\ Head(pending) \in Upward /\ pending = <<Head(pending)>>
             /\ up \o pending = Append(up, Head(pending))
  <2>1. pending \in Seq(Upward) /\ Len(pending) <= 1 /\ pending # << >> /\ up \in Seq(Upward)
    BY <1>2 DEF LoopTypes, UpTypes, IsQueue
  <2>2. Head(pending) \in Upward /\ pending = <<Head(pending)>>
    <3>1. Len(pending) \in Nat /\ Len(pending) # 0
      BY <2>1, EmptySeq
    <3>2. Len(pending) = 1 /\ Head(pending) = pending[1] /\ pending[1] \in Upward
      <4>1. Len(pending) = 1
        <5>1. \A n \in Nat : n # 0 /\ n <= 1 => n = 1
          OBVIOUS
        <5>2. Len(pending) \in Nat /\ Len(pending) # 0 /\ Len(pending) <= 1
          BY <2>1, <3>1, Zenon
        <5>3. QED
          BY <5>1, <5>2, Zenon
      <4>2. pending[1] \in Upward
        BY <2>1, <4>1, ElementOfSeq
      <4>3. Head(pending) = pending[1]
        BY <2>1
      <4>4. QED
        BY <4>1, <4>2, <4>3
    <3> DEFINE x == pending[1]
    <3>3. pending = <<x>>
      <4>1. <<x>> \in Seq(Upward) /\ Len(<<x>>) = 1 /\ <<x>>[1] = x
        BY <3>2
      <4>2. \A i \in 1 .. Len(pending) : pending[i] = <<x>>[i]
        BY <3>2, <4>1
      <4> HIDE DEF x
      <4>3. QED
        BY <2>1, <3>2, <4>1, <4>2, SeqEqual
    <3>4. QED
      BY <3>2, <3>3
  <2> DEFINE f == Head(pending)
  <2>3. up \o <<f>> = Append(up, f)
    <3> HIDE DEF f
    <3>1. QED
      BY <2>1, <2>2, AppendIsConcat DEF f
  <2>4. QED
    BY <2>2, <2>3
<1>3. QED
  BY <1>1, <1>2

\* Every step keeps the types, and the room for the Exit frame.
LEMMA TypesKept == TypeOK /\ RoomForExit /\ [Next]_vars => TypeOK' /\ RoomForExit'
  <1> DEFINE Typed == LoopTypes' /\ UpTypes' /\ DownTypes' /\ RoomForExit'
  <1> SUFFICES ASSUME LoopTypes, UpTypes, DownTypes, RoomForExit, [Next]_vars
               PROVE  Typed
    BY TypeParts, TypePartsNext
  <1> USE ConstantFacts
  <1>1. CASE ReadStdin
    <2>1. LoopTypes'
      BY <1>1 DEF LoopTypes, ReadStdin, WriteFrame, loop, socket, daemon, engine, remote
    <2>2. UpTypes'
      <3>1. taken + 1 \in Upward
        BY <1>1 DEF ReadStdin, LoopTypes, Upward
      <3>2. IsQueue(pending', Upward, 1)
        BY <1>1, <3>1, OnePending DEF ReadStdin, WriteFrame
      <3>3. QED
        BY <1>1, <3>2 DEF UpTypes, ReadStdin, socket, daemon, engine, remote
    <2>3. DownTypes' /\ RoomForExit'
      BY <1>1, QueueOps
         DEF DownTypes, LoopTypes, RoomForExit, ReadStdin, WriteFrame, loop, socket,
             daemon, engine, remote
    <2>4. QED
      BY <2>1, <2>2, <2>3
  <1>2. CASE StdinEnds
    <2>1. LoopTypes'
      BY <1>2 DEF LoopTypes, StdinEnds, WriteFrame, loop, socket, daemon, engine, remote
    <2>2. UpTypes'
      <3>1. IsQueue(pending', Upward, 1)
        BY <1>2, OnePending DEF StdinEnds, WriteFrame, Upward
      <3>2. QED
        BY <1>2, <3>1 DEF UpTypes, StdinEnds, socket, daemon, engine, remote
    <2>3. DownTypes' /\ RoomForExit'
      BY <1>2, QueueOps
         DEF DownTypes, LoopTypes, RoomForExit, StdinEnds, WriteFrame, loop, socket,
             daemon, engine, remote
    <2>4. QED
      BY <2>1, <2>2, <2>3
  <1>3. ASSUME NEW x \in Signal, TakeSignal(x) PROVE Typed
    <2>1. LoopTypes'
      <3>1. pressed' \in 0 .. MaxPress
        BY <1>3 DEF LoopTypes, TakeSignal
      <3>2. (client' = "write") = (pending' # << >>)
        <4>1. CASE client' = "write" /\ pending' = <<x>>
          BY <4>1
        <4>2. CASE client' = "forced" /\ pending' = pending /\ client = "select"
          BY <4>2 DEF LoopTypes
        <4>3. QED
          BY <1>3, <4>1, <4>2 DEF TakeSignal, WriteFrame
      <3>3. client' \in {"write", "forced"} /\ place' \in {"kept", "lost", "adrift"}
        BY <1>3 DEF TakeSignal, WriteFrame, LoopTypes
      <3>6. lastInt' \in BOOLEAN
        BY <1>3, Zenon DEF TakeSignal, LoopTypes
      <3>4. UNCHANGED <<taken, stdinOpen, shown, sent, emitted, reader, exec, command, closed,
                        fwdOpen, eofSeen, interrupted>>
        BY <1>3 DEF TakeSignal, socket, daemon, engine, remote
      <3>5. QED
        BY <3>1, <3>2, <3>3, <3>4, <3>6, Zenon DEF LoopTypes
    <2>2. UpTypes'
      <3>1. IsQueue(pending', Upward, 1)
        BY <1>3, OnePending DEF TakeSignal, WriteFrame, Upward, UpTypes
      <3>2. QED
        BY <1>3, <3>1 DEF UpTypes, TakeSignal, socket, daemon, engine, remote
    <2>3. DownTypes' /\ RoomForExit'
      BY <1>3, QueueOps
         DEF DownTypes, LoopTypes, RoomForExit, TakeSignal, WriteFrame, loop, socket,
             daemon, engine, remote
    <2>4. QED
      BY <2>1, <2>2, <2>3
  <1>4. CASE PollFrame
    <2>1. LoopTypes'
      <3>1. Head(down) \in Pieces
        BY <1>4, QueueOps DEF PollFrame, DownTypes
      <3>2. Head(down).part \in 1 .. Parts /\ Head(down).frame \in Downward
        BY <3>1 DEF Pieces
      <3>3. shown' \in 0 .. Items \cup {Junk} /\ place' \in {"kept", "lost", "adrift"}
        BY <1>4, <3>2 DEF PollFrame, TakePart, Misread, LoopTypes, Downward
      <3>4. /\ client' \in {"select", "failed", "reported"} /\ client = "select"
            /\ UNCHANGED <<taken, stdinOpen, pending, pressed, lastInt, up, closed, daemon,
                           engine, remote>>
        BY <1>4 DEF PollFrame, TakePart, Misread
      <3>5. QED
        BY <3>3, <3>4 DEF LoopTypes, daemon, engine, remote
    <2>2. UpTypes'
      BY <1>4 DEF UpTypes, PollFrame, daemon, engine, remote
    <2>3. DownTypes' /\ RoomForExit'
      <3>1. Head(down) \in Pieces /\ IsQueue(down', Pieces, DownCap)
        BY <1>4, QueueOps DEF PollFrame, DownTypes
      <3>2. Head(down).part \in 1 .. Parts
        BY <3>1 DEF Pieces
      <3>3. IsQueue(<< >>, Pieces, Parts - 1)
        BY DEF IsQueue
      <3>4. got \in Seq(Pieces) /\ Len(got) \in Nat
        BY DEF DownTypes, IsQueue
      <3>5. Head(down).part = Len(got) + 1 /\ Head(down).part < Parts
              => IsQueue(Append(got, Head(down)), Pieces, Parts - 1)
        <4> DEFINE p == Head(down)
        <4>1. ASSUME p.part = Len(got) + 1, p.part < Parts
              PROVE  IsQueue(Append(got, p), Pieces, Parts - 1)
          <5>1. p \in Pieces /\ Len(got) + 1 <= Parts - 1
            BY <3>1, <3>2, <3>4, <4>1
          <5> HIDE DEF p
          <5>2. Append(got, p) \in Seq(Pieces) /\ Len(Append(got, p)) = Len(got) + 1
            BY <5>1, <3>4
          <5>3. QED
            BY <5>1, <5>2 DEF IsQueue
        <4>2. QED
          BY <4>1
      <3>6. IsQueue(got', Pieces, Parts - 1)
        BY <1>4, <3>3, <3>5 DEF PollFrame, InPlace, TakePart, Misread, DownTypes
      <3>7. QED
        BY <1>4, <3>1, <3>6 DEF PollFrame, DownTypes, RoomForExit, daemon, engine, remote
    <2>4. QED
      BY <2>1, <2>2, <2>3
  <1>5. CASE PollEnd
    <2>1. LoopTypes'
      BY <1>5 DEF LoopTypes, PollEnd, loop, socket, daemon, engine, remote
    <2>2. UpTypes'
      BY <1>5, QueueOps
         DEF UpTypes, LoopTypes, Upward, PollEnd, loop, socket, daemon, engine, remote
    <2>3. DownTypes' /\ RoomForExit'
      BY <1>5, QueueOps
         DEF DownTypes, LoopTypes, RoomForExit, PollEnd, loop, socket, daemon, engine,
             remote
    <2>4. QED
      BY <2>1, <2>2, <2>3
  <1>6. CASE WriteUp
    <2>1. LoopTypes'
      BY <1>6 DEF LoopTypes, WriteUp, loop, socket, daemon, engine, remote
    <2>2. UpTypes'
      <3>1. IsQueue(up', Upward, UpCap)
        BY <1>6, OnePending, QueueOps DEF WriteUp, UpTypes
      <3>2. IsQueue(pending', Upward, 1)
        BY <1>6, QueueOps DEF WriteUp, UpTypes
      <3>3. QED
        BY <1>6, <3>1, <3>2 DEF UpTypes, WriteUp, daemon, engine, remote
    <2>3. DownTypes' /\ RoomForExit'
      BY <1>6, QueueOps
         DEF DownTypes, LoopTypes, RoomForExit, WriteUp, loop, socket, daemon, engine,
             remote
    <2>4. QED
      BY <2>1, <2>2, <2>3
  <1>7. CASE WriteBroken
    <2>1. LoopTypes'
      BY <1>7 DEF LoopTypes, WriteBroken, loop, socket, daemon, engine, remote
    <2>2. UpTypes'
      BY <1>7, QueueOps
         DEF UpTypes, LoopTypes, Upward, WriteBroken, loop, socket, daemon, engine, remote
    <2>3. DownTypes' /\ RoomForExit'
      BY <1>7, QueueOps
         DEF DownTypes, LoopTypes, RoomForExit, WriteBroken, loop, socket, daemon, engine,
             remote
    <2>4. QED
      BY <2>1, <2>2, <2>3
  <1>8. CASE ClientDies
    <2>1. LoopTypes'
      BY <1>8 DEF LoopTypes, ClientDies, ClientGone, loop, socket, daemon, engine, remote
    <2>2. UpTypes'
      BY <1>8, QueueOps
         DEF UpTypes, LoopTypes, Upward, ClientDies, ClientGone, loop, socket, daemon,
             engine, remote
    <2>3. DownTypes' /\ RoomForExit'
      BY <1>8, QueueOps
         DEF DownTypes, LoopTypes, RoomForExit, ClientDies, ClientGone, loop, socket,
             daemon, engine, remote
    <2>4. QED
      BY <2>1, <2>2, <2>3
  <1>9. CASE RouteFrame
    <2>1. LoopTypes'
      BY <1>9 DEF LoopTypes, RouteFrame, loop, socket, daemon, engine, remote
    <2>2. UpTypes'
      <3>1. Head(up) \in Upward /\ IsQueue(up', Upward, UpCap)
        BY <1>9, QueueOps DEF RouteFrame, UpTypes
      <3>2. Head(up) \in Signal => IsQueue(ctrl', Signal \cup {Fatal}, CtrlCap) /\ lane' = lane
        BY <1>9, QueueOps DEF RouteFrame, UpTypes
      <3>3. Head(up) \notin Signal => IsQueue(lane', 1 .. Items \cup {Eof}, LaneCap) /\ ctrl' = ctrl
        <4>1. Head(up) \notin Signal => Head(up) \in 1 .. Items \cup {Eof}
          BY <3>1 DEF Upward
        <4> DEFINE f == Head(up)
        <4>2. f \notin Signal => Len(lane) < LaneCap /\ lane' = Append(lane, f) /\ ctrl' = ctrl
          BY <1>9 DEF RouteFrame
        <4>3. IsQueue(lane, 1 .. Items \cup {Eof}, LaneCap)
          BY DEF UpTypes
        <4> HIDE DEF f
        <4>4. \A x \in 1 .. Items \cup {Eof} : Len(lane) < LaneCap
                => IsQueue(Append(lane, x), 1 .. Items \cup {Eof}, LaneCap)
          BY <4>3, QueueOps
        <4>5. f \notin Signal => f \in 1 .. Items \cup {Eof}
          BY <4>1 DEF f
        <4>6. f \notin Signal => IsQueue(lane', 1 .. Items \cup {Eof}, LaneCap) /\ ctrl' = ctrl
          BY <4>2, <4>4, <4>5
        <4>7. QED
          BY <4>6 DEF f
      <3>4. QED
        BY <1>9, <3>1, <3>2, <3>3 DEF UpTypes, RouteFrame, loop, engine, remote
    <2>3. DownTypes' /\ RoomForExit'
      BY <1>9, QueueOps
         DEF DownTypes, LoopTypes, RoomForExit, RouteFrame, loop, socket, daemon, engine,
             remote
    <2>4. QED
      BY <2>1, <2>2, <2>3
  <1>10. CASE ClientEnds
    <2>1. LoopTypes'
      BY <1>10 DEF LoopTypes, ClientEnds, ClientGone, loop, socket, daemon, engine, remote
    <2>2. UpTypes'
      BY <1>10, QueueOps
         DEF UpTypes, LoopTypes, Upward, ClientEnds, ClientGone, loop, socket, daemon,
             engine, remote
    <2>3. DownTypes' /\ RoomForExit'
      BY <1>10, QueueOps
         DEF DownTypes, LoopTypes, RoomForExit, ClientEnds, ClientGone, loop, socket,
             daemon, engine, remote
    <2>4. QED
      BY <2>1, <2>2, <2>3
  <1>11. CASE ClientResets
    <2>1. LoopTypes'
      BY <1>11
         DEF LoopTypes, ClientResets, ClientGone, loop, socket, daemon, engine, remote
    <2>2. UpTypes'
      BY <1>11, QueueOps
         DEF UpTypes, LoopTypes, Upward, ClientResets, ClientGone, loop, socket, daemon,
             engine, remote
    <2>3. DownTypes' /\ RoomForExit'
      BY <1>11, QueueOps
         DEF DownTypes, LoopTypes, RoomForExit, ClientResets, ClientGone, loop, socket,
             daemon, engine, remote
    <2>4. QED
      BY <2>1, <2>2, <2>3
  <1>12. CASE AbandonExec
    <2>1. LoopTypes'
      BY <1>12
         DEF LoopTypes, AbandonExec, DropEngine, loop, socket, daemon, engine, remote
    <2>2. UpTypes'
      BY <1>12, QueueOps
         DEF UpTypes, LoopTypes, Upward, AbandonExec, DropEngine, loop, socket, daemon,
             engine, remote
    <2>3. DownTypes' /\ RoomForExit'
      BY <1>12, QueueOps
         DEF DownTypes, LoopTypes, RoomForExit, AbandonExec, DropEngine, loop, socket,
             daemon, engine, remote
    <2>4. QED
      BY <2>1, <2>2, <2>3
  <1>13. CASE ForwardSignal
    <2>1. LoopTypes'
      BY <1>13 DEF LoopTypes, ForwardSignal, loop, socket, daemon, engine, remote
    <2>2. UpTypes'
      <3>1. IsQueue(ctrl', Signal \cup {Fatal}, CtrlCap) /\ Head(ctrl) \in Signal
        <4>1. ctrl # << >> /\ ctrl' = Tail(ctrl) /\ Head(ctrl) # Fatal
          BY <1>13 DEF ForwardSignal
        <4>2. IsQueue(ctrl, Signal \cup {Fatal}, CtrlCap)
          BY DEF UpTypes
        <4>3. Head(ctrl) \in Signal \cup {Fatal} /\ IsQueue(Tail(ctrl), Signal \cup {Fatal}, CtrlCap)
          BY <4>1, <4>2, QueueOps
        <4>4. QED
          BY <4>1, <4>3
      <3>2. IsQueue(sigs', Signal, SigCap)
        BY <1>13, <3>1, QueueOps DEF ForwardSignal, UpTypes
      <3>3. QED
        BY <1>13, <3>1, <3>2 DEF UpTypes, ForwardSignal, loop, socket, remote
    <2>3. DownTypes' /\ RoomForExit'
      BY <1>13, QueueOps
         DEF DownTypes, LoopTypes, RoomForExit, ForwardSignal, loop, socket, daemon,
             engine, remote
    <2>4. QED
      BY <2>1, <2>2, <2>3
  <1>14. CASE EngineOutput
    <2>1. LoopTypes'
      BY <1>14
         DEF LoopTypes, EngineOutput, ClientGone, loop, socket, daemon, engine, remote
    <2>2. UpTypes'
      BY <1>14, QueueOps
         DEF UpTypes, LoopTypes, Upward, EngineOutput, ClientGone, loop, socket, daemon,
             engine, remote
    <2>3. DownTypes' /\ RoomForExit'
      <3>1. Head(back) \in Downward /\ IsQueue(back', Downward, BackCap)
        BY <1>14, QueueOps DEF EngineOutput, DownTypes
      <3>2. out' = out \/ (Len(out) < OutCap /\ out' = Append(out, Head(back)))
        BY <1>14 DEF EngineOutput
      <3>3. out \in Seq(Downward) /\ Len(out) \in Nat
        BY DEF DownTypes, IsQueue
      <3>4. IsQueue(out', Downward, OutCap + 1) /\ RoomForExit'
        <4>1. CASE out' = out
          BY <1>14, <4>1 DEF EngineOutput, DownTypes, RoomForExit
        <4>2. CASE Len(out) < OutCap /\ out' = Append(out, Head(back))
          <5>1. out' \in Seq(Downward) /\ Len(out') = Len(out) + 1
            BY <3>1, <3>3, <4>2
          <5>2. QED
            BY <3>3, <4>2, <5>1 DEF IsQueue, RoomForExit
        <4>3. QED
          BY <3>2, <4>1, <4>2
      <3>5. QED
        BY <1>14, <3>1, <3>4 DEF DownTypes, EngineOutput, loop, socket
    <2>4. QED
      BY <2>1, <2>2, <2>3
  <1>15. CASE EngineExit
    <2>1. LoopTypes'
      BY <1>15 DEF LoopTypes, EngineExit, DropEngine, loop, socket, daemon, engine, remote
    <2>2. UpTypes'
      BY <1>15, QueueOps
         DEF UpTypes, LoopTypes, Upward, EngineExit, DropEngine, loop, socket, daemon,
             engine, remote
    <2>3. DownTypes' /\ RoomForExit'
      <3>1. IsQueue(back', Downward, BackCap)
        BY <1>15, QueueOps DEF EngineExit, DownTypes
      <3>2. out \in Seq(Downward) /\ Len(out) \in Nat /\ Len(out) <= OutCap /\ Exit \in Downward
        BY <1>15 DEF EngineExit, DownTypes, IsQueue, RoomForExit, Downward
      <3>3. Append(out, Exit) \in Seq(Downward) /\ Len(Append(out, Exit)) = Len(out) + 1
        BY <3>2
      <3>4. IsQueue(out', Downward, OutCap + 1)
        BY <1>15, <3>2, <3>3 DEF EngineExit, IsQueue
      <3>5. QED
        BY <1>15, <3>1, <3>4 DEF DownTypes, EngineExit, RoomForExit, loop, socket
    <2>4. QED
      BY <2>1, <2>2, <2>3
  <1>16. CASE WriteDown
    <2>1. LoopTypes'
      BY <1>16 DEF LoopTypes, WriteDown, ClientGone, loop, socket, daemon, engine, remote
    <2>2. UpTypes'
      BY <1>16, QueueOps
         DEF UpTypes, LoopTypes, Upward, WriteDown, ClientGone, loop, socket, daemon,
             engine, remote
    <2>3. DownTypes' /\ RoomForExit'
      <3>1. Head(out) \in Downward /\ out \in Seq(Downward) /\ out # << >>
        BY <1>16, QueueOps DEF WriteDown, DownTypes, IsQueue
      <3> DEFINE piece == [frame |-> Head(out), part |-> sent + 1]
      <3>2. sent + 1 \in 1 .. Parts
        BY DEF LoopTypes
      <3>3. piece \in Pieces
        BY <3>1, <3>2 DEF Pieces
      <3>4. down' = Append(down, piece) /\ Len(down) < DownCap
        BY <1>16 DEF WriteDown
      <3> HIDE DEF piece
      <3>5. IsQueue(down', Pieces, DownCap)
        BY <3>3, <3>4, QueueOps DEF DownTypes
      <3>6. out' = out \/ out' = Tail(out)
        BY <1>16 DEF WriteDown
      <3>7. IsQueue(out', Downward, OutCap + 1)
        <4>1. OutCap + 1 \in Nat /\ IsQueue(out, Downward, OutCap + 1)
          BY DEF DownTypes
        <4>2. QED
          BY <3>1, <3>6, <4>1, QueueOps
      <3>8. RoomForExit'
        <4>1. Len(Tail(out)) = Len(out) - 1 /\ Len(out) \in Nat
          BY <3>1
        <4>2. exec' = exec
          BY <1>16 DEF WriteDown
        <4>3. QED
          BY <3>6, <4>1, <4>2 DEF RoomForExit
      <3>9. QED
        BY <1>16, <3>5, <3>7, <3>8 DEF DownTypes, WriteDown, loop, remote
    <2>4. QED
      BY <2>1, <2>2, <2>3
  <1>17. CASE DropOutput
    <2>1. LoopTypes'
      BY <1>17 DEF LoopTypes, DropOutput, ClientGone, loop, socket, daemon, engine, remote
    <2>2. UpTypes'
      BY <1>17, QueueOps
         DEF UpTypes, LoopTypes, Upward, DropOutput, ClientGone, loop, socket, daemon,
             engine, remote
    <2>3. DownTypes' /\ RoomForExit'
      BY <1>17, QueueOps
         DEF DownTypes, LoopTypes, RoomForExit, DropOutput, ClientGone, loop, socket,
             daemon, engine, remote
    <2>4. QED
      BY <2>1, <2>2, <2>3
  <1>18. CASE CloseSocket
    <2>1. LoopTypes'
      BY <1>18 DEF LoopTypes, CloseSocket, loop, socket, daemon, engine, remote
    <2>2. UpTypes'
      BY <1>18, QueueOps
         DEF UpTypes, LoopTypes, Upward, CloseSocket, loop, socket, daemon, engine, remote
    <2>3. DownTypes' /\ RoomForExit'
      BY <1>18, QueueOps
         DEF DownTypes, LoopTypes, RoomForExit, CloseSocket, loop, socket, daemon, engine,
             remote
    <2>4. QED
      BY <2>1, <2>2, <2>3
  <1>19. CASE DaemonDies
    <2>1. LoopTypes'
      <3>1. sent' \in 0 .. Parts - 1
        BY <1>19 DEF DaemonDies
      <3>2. QED
        BY <1>19, <3>1 DEF LoopTypes, DaemonDies, DropEngine, loop, remote
    <2>2. UpTypes'
      BY <1>19, QueueOps
         DEF UpTypes, LoopTypes, Upward, DaemonDies, DropEngine, loop, socket, daemon,
             engine, remote
    <2>3. DownTypes' /\ RoomForExit'
      BY <1>19, QueueOps
         DEF DownTypes, LoopTypes, RoomForExit, DaemonDies, DropEngine, loop, socket,
             daemon, engine, remote
    <2>4. QED
      BY <2>1, <2>2, <2>3
  <1>20. CASE SendSignal
    <2>1. LoopTypes'
      BY <1>20 DEF LoopTypes, SendSignal, loop, socket, daemon, engine, remote
    <2>2. UpTypes'
      BY <1>20, QueueOps
         DEF UpTypes, LoopTypes, Upward, SendSignal, loop, socket, daemon, engine, remote
    <2>3. DownTypes' /\ RoomForExit'
      BY <1>20, QueueOps
         DEF DownTypes, LoopTypes, RoomForExit, SendSignal, loop, socket, daemon, engine,
             remote
    <2>4. QED
      BY <2>1, <2>2, <2>3
  <1>21. CASE ForwardInBand
    <2>1. LoopTypes'
      BY <1>21 DEF LoopTypes, ForwardInBand, loop, socket, daemon, engine, remote
    <2>2. UpTypes'
      BY <1>21, QueueOps
         DEF UpTypes, LoopTypes, Upward, ForwardInBand, loop, socket, daemon, engine,
             remote
    <2>3. DownTypes' /\ RoomForExit'
      BY <1>21, QueueOps
         DEF DownTypes, LoopTypes, RoomForExit, ForwardInBand, loop, socket, daemon,
             engine, remote
    <2>4. QED
      BY <2>1, <2>2, <2>3
  <1>22. CASE ForwardStdin
    <2>1. LoopTypes'
      BY <1>22 DEF LoopTypes, ForwardStdin, loop, socket, daemon, engine, remote
    <2>2. UpTypes'
      BY <1>22, QueueOps
         DEF UpTypes, LoopTypes, Upward, ForwardStdin, loop, socket, daemon, engine,
             remote
    <2>3. DownTypes' /\ RoomForExit'
      BY <1>22, QueueOps
         DEF DownTypes, LoopTypes, RoomForExit, ForwardStdin, loop, socket, daemon,
             engine, remote
    <2>4. QED
      BY <2>1, <2>2, <2>3
  <1>23. CASE CommandReads
    <2>1. LoopTypes'
      BY <1>23 DEF LoopTypes, CommandReads, loop, socket, daemon, engine, remote
    <2>2. UpTypes'
      <3>1. Head(wire) \in Upward /\ IsQueue(wire', Upward, WireCap)
        BY <1>23, QueueOps DEF CommandReads, UpTypes
      <3>2. \/ received' = received
            \/ Head(wire) \in 1 .. Items /\ received' = Append(received, Head(wire))
        BY <1>23, <3>1 DEF CommandReads, Upward
      <3>3. received' \in Seq(1 .. Items)
        <4> DEFINE f == Head(wire)
        <4>1. received \in Seq(1 .. Items)
          BY DEF UpTypes
        <4>2. received' = received \/ (f \in 1 .. Items /\ received' = Append(received, f))
          BY <3>2
        <4> HIDE DEF f
        <4>3. f \in 1 .. Items => Append(received, f) \in Seq(1 .. Items)
          BY <4>1, AppendProperties
        <4>4. QED
          BY <4>1, <4>2, <4>3
      <3>4. QED
        BY <1>23, <3>1, <3>3 DEF UpTypes, CommandReads, loop, socket, daemon, engine
    <2>3. DownTypes' /\ RoomForExit'
      BY <1>23, QueueOps
         DEF DownTypes, LoopTypes, RoomForExit, CommandReads, loop, socket, daemon,
             engine, remote
    <2>4. QED
      BY <2>1, <2>2, <2>3
  <1>24. CASE ServeTakesSignal
    <2>1. LoopTypes'
      BY <1>24 DEF LoopTypes, ServeTakesSignal, loop, socket, daemon, engine, remote
    <2>2. UpTypes'
      BY <1>24, QueueOps
         DEF UpTypes, LoopTypes, Upward, ServeTakesSignal, loop, socket, daemon, engine,
             remote
    <2>3. DownTypes' /\ RoomForExit'
      BY <1>24, QueueOps
         DEF DownTypes, LoopTypes, RoomForExit, ServeTakesSignal, loop, socket, daemon,
             engine, remote
    <2>4. QED
      BY <2>1, <2>2, <2>3
  <1>25. CASE CommandWrites
    <2>1. LoopTypes'
      BY <1>25 DEF LoopTypes, CommandWrites, loop, socket, daemon, engine, remote
    <2>2. UpTypes'
      BY <1>25, QueueOps
         DEF UpTypes, LoopTypes, Upward, CommandWrites, loop, socket, daemon, engine,
             remote
    <2>3. DownTypes' /\ RoomForExit'
      <3>1. emitted + 1 \in Downward
        <4>1. emitted \in 0 .. Items /\ emitted < Items
          BY <1>25 DEF CommandWrites, LoopTypes
        <4>2. emitted + 1 \in 1 .. Items
          BY <4>1
        <4>3. QED
          BY <4>2 DEF Downward
      <3>2. IsQueue(back', Downward, BackCap)
        BY <1>25, <3>1, QueueOps DEF CommandWrites, DownTypes
      <3>3. QED
        BY <1>25, <3>2 DEF DownTypes, RoomForExit, CommandWrites, loop, socket, daemon
    <2>4. QED
      BY <2>1, <2>2, <2>3
  <1>26. CASE CommandExits
    <2>1. LoopTypes'
      BY <1>26 DEF LoopTypes, CommandExits, loop, socket, daemon, engine, remote
    <2>2. UpTypes'
      BY <1>26, QueueOps
         DEF UpTypes, LoopTypes, Upward, CommandExits, loop, socket, daemon, engine,
             remote
    <2>3. DownTypes' /\ RoomForExit'
      <3>1. Exit \in Downward
        BY DEF Downward
      <3>2. IsQueue(back', Downward, BackCap)
        BY <1>26, <3>1, QueueOps DEF CommandExits, DownTypes
      <3>3. QED
        BY <1>26, <3>2 DEF DownTypes, RoomForExit, CommandExits, loop, socket, daemon
    <2>4. QED
      BY <2>1, <2>2, <2>3
  <1>27. CASE UNCHANGED vars
    <2>1. LoopTypes'
      BY <1>27 DEF LoopTypes, vars, loop, socket, daemon, engine, remote
    <2>2. UpTypes'
      BY <1>27, QueueOps
         DEF UpTypes, LoopTypes, Upward, vars, loop, socket, daemon, engine, remote
    <2>3. DownTypes' /\ RoomForExit'
      BY <1>27, QueueOps
         DEF DownTypes, LoopTypes, RoomForExit, vars, loop, socket, daemon, engine, remote
    <2>4. QED
      BY <2>1, <2>2, <2>3
  <1>28. QED
    BY <1>1, <1>2, <1>3, <1>4, <1>5, <1>6, <1>7, <1>8, <1>9, <1>10, <1>11, <1>12,
       <1>13, <1>14, <1>15, <1>16, <1>17, <1>18, <1>19, <1>20, <1>21, <1>22, <1>23, <1>24,
       <1>25, <1>26, <1>27
    DEF Next, ClientStep, DaemonStep, EngineStep, CommandStep

\* All queues are empty at the start.
LEMMA TypesInit == Init => TypeOK /\ RoomForExit
<1> SUFFICES ASSUME Init PROVE TypeOK /\ RoomForExit
  OBVIOUS
<1>1. \A S : \A cap \in Nat : IsQueue(<< >>, S, cap)
  BY DEF IsQueue
<1>2. UpTypes /\ DownTypes /\ RoomForExit
  BY <1>1, ConstantFacts DEF Init, UpTypes, DownTypes, RoomForExit
<1>3. LoopTypes
  <2>1. (client = "write") = (pending # << >>)
    <3>1. client # "write" /\ pending = << >>
      BY DEF Init
    <3>2. QED
      BY <3>1
  <2>2. sent \in 0 .. Parts - 1
    BY ConstantFacts DEF Init
  <2>3. {stdinOpen, lastInt, closed, fwdOpen, eofSeen, interrupted} \subseteq BOOLEAN
    BY DEF Init
  <2>4. /\ taken \in 0 .. Items /\ pressed \in 0 .. MaxPress
        /\ shown \in 0 .. Items \cup {Junk} /\ place \in {"kept", "lost", "adrift"}
        /\ emitted \in 0 .. Items
    BY ConstantFacts DEF Init
  <2>5. /\ client = "select" /\ reader = "reading" /\ exec = "running" /\ command = "running"
    BY DEF Init
  <2>6. QED
    BY <2>1, <2>2, <2>3, <2>4, <2>5, Zenon DEF LoopTypes
<1>4. QED
  BY <1>2, <1>3, TypeParts

\* Types and room for the Exit frame hold in every reachable state.
LEMMA TypesInvariant == Spec => [](TypeOK /\ RoomForExit)
  BY TypesInit, TypesKept, PTL DEF Spec

\* Every variable keeps its type, and every queue its bound: no step of the client,
\* the daemon, the engine or serve puts a frame where there is no room for it.
THEOREM RelayTypes == Spec => []TypeOK
  BY TypesInvariant, PTL

(***************************************************************************)
(* Data and the end of stdin in a queue                                    *)
(***************************************************************************)
NoData(q) == \A i \in DOMAIN q : ~IsData(q[i])
HasEof(q) == \E i \in DOMAIN q : q[i] = Eof
EofAtEnd(q) == \A i, j \in DOMAIN q : q[i] = Eof /\ IsData(q[j]) => j < i

\* What a queue holds after a frame has joined it, and after one has left.
Joined(q, r, x) ==
  /\ DOMAIN q = 1 .. Len(q) /\ DOMAIN r = 1 .. Len(q) + 1 /\ Len(q) \in Nat
  /\ \A i \in 1 .. Len(q) : r[i] = q[i]
  /\ r[Len(q) + 1] = x /\ Len(r) = Len(q) + 1

Left(q, r) ==
  /\ DOMAIN q = 1 .. Len(q) /\ DOMAIN r = 1 .. Len(q) - 1 /\ Len(q) \in Nat /\ Len(q) > 0
  /\ \A i \in 1 .. Len(q) - 1 : r[i] = q[i + 1]
  /\ Head(q) = q[1] /\ Len(r) = Len(q) - 1

\* Append and Tail, said of any queue.
LEMMA Ends ==
  ASSUME NEW S, NEW q \in Seq(S)
  PROVE  /\ \A x \in S : Joined(q, Append(q, x), x)
         /\ q # << >> => Left(q, Tail(q)) /\ Head(q) \in S
<1>1. ASSUME NEW x \in S PROVE Joined(q, Append(q, x), x)
  BY AppendProperties DEF Joined
<1>2. ASSUME q # << >> PROVE Left(q, Tail(q)) /\ Head(q) \in S
  <2>1. Len(q) \in Nat /\ Len(q) > 0
    BY <1>2, EmptySeq
  <2>2. QED
    BY <1>2, <2>1, HeadTailProperties DEF Left
<1>3. QED
  BY <1>1, <1>2

\* An empty queue holds no data and no end of stdin.
LEMMA NothingInEmpty ==
  /\ NoData(<< >>) /\ ~HasEof(<< >>) /\ EofAtEnd(<< >>)
  /\ \A n \in Nat : Carries(<< >>, n, n)
  BY DEF NoData, HasEof, EofAtEnd, Carries

\* What the last frame of a queue adds to it.
LEMMA JoinEof ==
  ASSUME NEW q, NEW r, NEW x, Joined(q, r, x)
  PROVE  /\ NoData(r) <=> NoData(q) /\ ~IsData(x)
         /\ HasEof(r) <=> HasEof(q) \/ x = Eof
         /\ EofAtEnd(q) /\ (HasEof(q) => ~IsData(x)) => EofAtEnd(r)
<1> USE ConstantFacts
<1>1. NoData(r) <=> NoData(q) /\ ~IsData(x)
  BY DEF NoData, Joined
<1>2. HasEof(r) <=> HasEof(q) \/ x = Eof
  BY DEF HasEof, Joined
<1>3. ASSUME EofAtEnd(q), HasEof(q) => ~IsData(x), NEW i \in DOMAIN r, NEW j \in DOMAIN r,
             r[i] = Eof, IsData(r[j])
      PROVE  j < i
  <2>1. CASE i = Len(q) + 1
    BY <1>3, <2>1 DEF Joined, IsData, Eof
  <2>2. CASE i # Len(q) + 1
    BY <1>3, <2>2 DEF Joined, EofAtEnd, HasEof
  <2>3. QED
    BY <2>1, <2>2
<1>4. QED
  BY <1>1, <1>2, <1>3 DEF EofAtEnd

\* What is left of a queue without its first frame.
LEMMA LeaveEof ==
  ASSUME NEW q, NEW r, Left(q, r)
  PROVE  /\ NoData(q) <=> NoData(r) /\ ~IsData(Head(q))
         /\ HasEof(q) <=> HasEof(r) \/ Head(q) = Eof
         /\ EofAtEnd(q) => EofAtEnd(r)
         /\ EofAtEnd(q) /\ Head(q) = Eof => NoData(q)
<1>1. \A i \in DOMAIN q : i = 1 \/ (i - 1 \in DOMAIN r /\ q[i] = r[i - 1])
  BY DEF Left
<1>2. \A i \in DOMAIN r : i + 1 \in DOMAIN q /\ r[i] = q[i + 1]
  BY DEF Left
<1>3. 1 \in DOMAIN q /\ Head(q) = q[1]
  BY DEF Left
<1>4. NoData(q) <=> NoData(r) /\ ~IsData(Head(q))
  BY <1>1, <1>2, <1>3 DEF NoData
<1>5. HasEof(q) <=> HasEof(r) \/ Head(q) = Eof
  BY <1>1, <1>2, <1>3 DEF HasEof
<1>6. EofAtEnd(q) => EofAtEnd(r)
  BY <1>2 DEF EofAtEnd, Left
<1>7. EofAtEnd(q) /\ Head(q) = Eof => NoData(q)
  BY <1>3 DEF EofAtEnd, NoData, Left
<1>8. QED
  BY <1>4, <1>5, <1>6, <1>7

\* Data joins a queue in order, and anything else does not count.
LEMMA JoinCarries ==
  ASSUME NEW q, NEW r, NEW x, Joined(q, r, x), NEW m \in Nat, NEW n \in Nat, Carries(q, m, n)
  PROVE  /\ x = n + 1 /\ n < Items => Carries(r, m, n + 1)
         /\ ~IsData(x) => Carries(r, m, n)
<1> USE ConstantFacts
<1>1. /\ m <= n
      /\ \A i \in 1 .. Len(q) : IsData(q[i]) => q[i] \in m + 1 .. n
      /\ \A k \in m + 1 .. n : \E i \in 1 .. Len(q) : q[i] = k
      /\ \A i, j \in 1 .. Len(q) : IsData(q[i]) /\ IsData(q[j]) /\ i < j => q[i] < q[j]
  BY DEF Carries, Joined
<1>2. /\ DOMAIN r = 1 .. Len(q) + 1 /\ Len(q) \in Nat
      /\ \A i \in 1 .. Len(q) : r[i] = q[i]
      /\ r[Len(q) + 1] = x
  BY DEF Joined
<1>3. ASSUME x = n + 1, n < Items PROVE Carries(r, m, n + 1)
  <2>1. \A i \in DOMAIN r : IsData(r[i]) => r[i] \in m + 1 .. n + 1
    BY <1>1, <1>2, <1>3
  <2>2. \A k \in m + 1 .. n + 1 : \E i \in DOMAIN r : r[i] = k
    <3> SUFFICES ASSUME NEW k \in m + 1 .. n + 1 PROVE \E i \in DOMAIN r : r[i] = k
      OBVIOUS
    <3>1. CASE k = n + 1
      BY <1>2, <1>3, <3>1
    <3>2. CASE k # n + 1
      <4>1. k \in m + 1 .. n
        BY <3>2
      <4>2. PICK i \in 1 .. Len(q) : q[i] = k
        BY <1>1, <4>1
      <4>3. QED
        BY <1>2, <4>2
    <3>3. QED
      BY <3>1, <3>2
  <2>3. \A i, j \in DOMAIN r : IsData(r[i]) /\ IsData(r[j]) /\ i < j => r[i] < r[j]
    <3> SUFFICES ASSUME NEW i \in DOMAIN r, NEW j \in DOMAIN r, IsData(r[i]), IsData(r[j]), i < j
                 PROVE  r[i] < r[j]
      OBVIOUS
    <3>1. i \in 1 .. Len(q) /\ r[i] = q[i]
      BY <1>2
    <3>2. CASE j = Len(q) + 1
      BY <1>1, <1>2, <1>3, <3>1, <3>2
    <3>3. CASE j # Len(q) + 1
      BY <1>1, <1>2, <3>1, <3>3
    <3>4. QED
      BY <3>2, <3>3
  <2>4. QED
    BY <1>1, <2>1, <2>2, <2>3 DEF Carries
<1>4. ASSUME ~IsData(x) PROVE Carries(r, m, n)
  <2>1. \A i \in DOMAIN r : IsData(r[i]) => i \in 1 .. Len(q) /\ r[i] = q[i]
    BY <1>2, <1>4
  <2>2. \A i \in DOMAIN r : IsData(r[i]) => r[i] \in m + 1 .. n
    BY <1>1, <2>1
  <2>3. \A k \in m + 1 .. n : \E i \in DOMAIN r : r[i] = k
    BY <1>1, <1>2
  <2>4. \A i, j \in DOMAIN r : IsData(r[i]) /\ IsData(r[j]) /\ i < j => r[i] < r[j]
    BY <1>1, <2>1
  <2>5. QED
    BY <1>1, <2>2, <2>3, <2>4 DEF Carries
<1>5. QED
  BY <1>3, <1>4

\* The data leaves it in the same order.
LEMMA LeaveCarries ==
  ASSUME NEW q, NEW r, Left(q, r), NEW m \in Nat, NEW n \in Nat, n <= Items, Carries(q, m, n)
  PROVE  /\ IsData(Head(q)) => Head(q) = m + 1 /\ m + 1 <= n /\ Carries(r, m + 1, n)
         /\ ~IsData(Head(q)) => Carries(r, m, n)
<1> USE ConstantFacts
<1>1. /\ m <= n
      /\ \A i \in DOMAIN q : IsData(q[i]) => q[i] \in m + 1 .. n
      /\ \A k \in m + 1 .. n : \E i \in DOMAIN q : q[i] = k
      /\ \A i, j \in DOMAIN q : IsData(q[i]) /\ IsData(q[j]) /\ i < j => q[i] < q[j]
  BY DEF Carries
<1>2. \A i \in DOMAIN q : i \in Nat /\ (i = 1 \/ (i > 1 /\ i - 1 \in DOMAIN r /\ q[i] = r[i - 1]))
  BY DEF Left
<1>3. \A i \in DOMAIN r : i \in Nat \ {0} /\ i + 1 \in DOMAIN q /\ r[i] = q[i + 1]
  BY DEF Left
<1>4. 1 \in DOMAIN q /\ Head(q) = q[1]
  BY DEF Left
<1>5. \A k \in m + 1 .. n : IsData(k)
  BY DEF IsData
<1>6. \A i, j \in DOMAIN r : IsData(r[i]) /\ IsData(r[j]) /\ i < j => r[i] < r[j]
  BY <1>1, <1>3
<1>7. ASSUME IsData(Head(q)) PROVE Head(q) = m + 1 /\ m + 1 <= n /\ Carries(r, m + 1, n)
  <2>1. q[1] \in m + 1 .. n
    BY <1>1, <1>4, <1>7
  <2>2. q[1] = m + 1
    <3>1. PICK i \in DOMAIN q : q[i] = m + 1
      BY <1>1, <2>1
    <3>2. CASE i = 1
      BY <3>1, <3>2
    <3>3. CASE i > 1
      BY <1>1, <1>2, <1>4, <1>5, <1>7, <2>1, <3>1, <3>3
    <3>4. QED
      BY <1>2, <3>1, <3>2, <3>3
  <2>3. \A i \in DOMAIN r : IsData(r[i]) => r[i] \in m + 2 .. n
    BY <1>1, <1>3, <1>4, <1>7, <2>2
  <2>4. \A k \in m + 2 .. n : \E i \in DOMAIN r : r[i] = k
    <3> SUFFICES ASSUME NEW k \in m + 2 .. n PROVE \E i \in DOMAIN r : r[i] = k
      OBVIOUS
    <3>1. PICK i \in DOMAIN q : q[i] = k
      BY <1>1
    <3>2. QED
      BY <1>2, <2>2, <3>1
  <2>5. m + 1 <= n /\ m + 1 + 1 = m + 2
    BY <2>1
  <2>6. QED
    BY <1>4, <1>6, <2>2, <2>3, <2>4, <2>5 DEF Carries
<1>8. ASSUME ~IsData(Head(q)) PROVE Carries(r, m, n)
  <2>1. \A i \in DOMAIN r : IsData(r[i]) => r[i] \in m + 1 .. n
    BY <1>1, <1>3
  <2>2. \A k \in m + 1 .. n : \E i \in DOMAIN r : r[i] = k
    <3> SUFFICES ASSUME NEW k \in m + 1 .. n PROVE \E i \in DOMAIN r : r[i] = k
      OBVIOUS
    <3>1. PICK i \in DOMAIN q : q[i] = k
      BY <1>1
    <3>2. QED
      BY <1>2, <1>4, <1>5, <1>8, <3>1
  <2>3. QED
    BY <1>1, <1>6, <2>1, <2>2 DEF Carries
<1>9. QED
  BY <1>7, <1>8

\* No data, nothing carried.
LEMMA CarriesNothing ==
  ASSUME NEW q, NoData(q), NEW m \in Nat, NEW n \in Nat, n <= Items, Carries(q, m, n)
  PROVE  m = n
<1>1. CASE m < n
  <2>1. m + 1 \in m + 1 .. n /\ IsData(m + 1)
    BY <1>1, ConstantFacts DEF IsData
  <2>2. QED
    BY <2>1 DEF Carries, NoData
<1>2. QED
  BY <1>1 DEF Carries

\* What the queues towards the command go through.
Movable(q) ==
  /\ \A x \in Upward : Joined(q, Append(q, x), x)
  /\ q # << >> => Left(q, Tail(q)) /\ Head(q) \in Upward

\* The queues towards the command can be moved so, and a write holds one frame.
LEMMA Movables ==
  ASSUME LoopTypes, UpTypes
  PROVE  /\ Movable(up) /\ Movable(lane) /\ Movable(wire)
         /\ client # "write" => pending = << >>
         /\ client = "write" => /\ Left(pending, << >>) /\ Head(pending) \in Upward
                                /\ Joined(up, up \o pending, Head(pending))
<1>1. up \in Seq(Upward) /\ wire \in Seq(Upward) /\ pending \in Seq(Upward)
  BY DEF UpTypes, IsQueue
<1>2. lane \in Seq(Upward)
  <2>1. 1 .. Items \cup {Eof} \subseteq Upward
    BY DEF Upward
  <2>2. lane \in Seq(1 .. Items \cup {Eof})
    BY DEF UpTypes, IsQueue
  <2>3. QED
    BY <2>1, <2>2, SeqMonotonic
<1>3. \A q \in Seq(Upward) : Movable(q)
  BY Ends DEF Movable
<1>4. (client = "write") = (pending # << >>)
  BY DEF LoopTypes
<1>5. client = "write" => Left(pending, << >>) /\ Head(pending) \in Upward
                          /\ Joined(up, up \o pending, Head(pending))
  <2> SUFFICES ASSUME client = "write" PROVE Left(pending, << >>) /\ Head(pending) \in Upward
                          /\ Joined(up, up \o pending, Head(pending))
    OBVIOUS
  <2>1. Head(pending) \in Upward /\ pending = <<Head(pending)>>
        /\ up \o pending = Append(up, Head(pending))
    BY OnePending
  <2> DEFINE f == Head(pending)
  <2>2. Left(<<f>>, << >>)
    <3> HIDE DEF f
    <3>1. QED
      BY DEF Left
  <2>3. Joined(up, Append(up, f), f)
    BY <1>1, <1>3, <2>1 DEF Movable
  <2>4. QED
    BY <2>1, <2>2, <2>3
<1>6. QED
  BY <1>1, <1>2, <1>3, <1>4, <1>5

\* A frame towards the command is data, a signal or the end of stdin, and only one of them.
LEMMA Kinds ==
  /\ \A x \in Signal : x \in Upward /\ ~IsData(x) /\ x # Eof
  /\ Eof \in Upward /\ ~IsData(Eof) /\ Eof \notin Signal
  /\ \A x \in Upward : x \notin Signal /\ x # Eof => IsData(x)
  /\ \A x : IsData(x) => x \in Upward /\ x # Eof /\ x \notin Signal /\ x \in Nat
  /\ \A x \in Upward : Joined(<< >>, <<x>>, x)
<1>1. \A x \in Upward : Joined(<< >>, <<x>>, x)
  BY DEF Joined
<1>2. QED
  BY <1>1, ConstantFacts DEF Upward, Signal, SigInt, SigTerm, Eof, IsData

(***************************************************************************)
(* Stdin is conserved                                                      *)
(***************************************************************************)
\* With the end of the execution its lane, its forwarder and the frame reader are
\* gone, and only then is the socket closed.
Ended ==
  /\ closed => exec # "running"
  /\ exec # "running" => lane = << >> /\ ~fwdOpen /\ reader = "done"

\* Nothing is started again when the execution has ended.
LEMMA EndedKept == Ended /\ [Next]_vars => Ended'
  <1> SUFFICES ASSUME Ended, [Next]_vars PROVE Ended'
    OBVIOUS
  <1>1. CASE ReadStdin
    BY <1>1 DEF Ended, ReadStdin, WriteFrame, loop, socket, daemon, engine, remote
  <1>2. CASE StdinEnds
    BY <1>2 DEF Ended, StdinEnds, WriteFrame, loop, socket, daemon, engine, remote
  <1>3. ASSUME NEW x \in Signal, TakeSignal(x) PROVE Ended'
    BY <1>3 DEF Ended, TakeSignal, WriteFrame, loop, socket, daemon, engine, remote
  <1>4. CASE PollFrame
    BY <1>4 DEF Ended, PollFrame, loop, socket, daemon, engine, remote
  <1>5. CASE PollEnd
    BY <1>5 DEF Ended, PollEnd, loop, socket, daemon, engine, remote
  <1>6. CASE WriteUp
    BY <1>6 DEF Ended, WriteUp, loop, socket, daemon, engine, remote
  <1>7. CASE WriteBroken
    BY <1>7 DEF Ended, WriteBroken, loop, socket, daemon, engine, remote
  <1>8. CASE ClientDies
    BY <1>8 DEF Ended, ClientDies, ClientGone, loop, socket, daemon, engine, remote
  <1>9. CASE RouteFrame
    BY <1>9 DEF Ended, RouteFrame, loop, socket, daemon, engine, remote
  <1>10. CASE ClientEnds
    BY <1>10 DEF Ended, ClientEnds, ClientGone, loop, socket, daemon, engine, remote
  <1>11. CASE ClientResets
    BY <1>11 DEF Ended, ClientResets, ClientGone, loop, socket, daemon, engine, remote
  <1>12. CASE AbandonExec
    BY <1>12 DEF Ended, AbandonExec, DropEngine, loop, socket, daemon, engine, remote
  <1>13. CASE ForwardSignal
    BY <1>13 DEF Ended, ForwardSignal, loop, socket, daemon, engine, remote
  <1>14. CASE EngineOutput
    BY <1>14 DEF Ended, EngineOutput, ClientGone, loop, socket, daemon, engine, remote
  <1>15. CASE EngineExit
    BY <1>15 DEF Ended, EngineExit, DropEngine, loop, socket, daemon, engine, remote
  <1>16. CASE WriteDown
    BY <1>16 DEF Ended, WriteDown, ClientGone, loop, socket, daemon, engine, remote
  <1>17. CASE DropOutput
    BY <1>17 DEF Ended, DropOutput, ClientGone, loop, socket, daemon, engine, remote
  <1>18. CASE CloseSocket
    BY <1>18 DEF Ended, CloseSocket, loop, socket, daemon, engine, remote
  <1>19. CASE DaemonDies
    BY <1>19 DEF Ended, DaemonDies, DropEngine, loop, socket, daemon, engine, remote
  <1>20. CASE SendSignal
    BY <1>20 DEF Ended, SendSignal, loop, socket, daemon, engine, remote
  <1>21. CASE ForwardInBand
    BY <1>21 DEF Ended, ForwardInBand, loop, socket, daemon, engine, remote
  <1>22. CASE ForwardStdin
    BY <1>22 DEF Ended, ForwardStdin, loop, socket, daemon, engine, remote
  <1>23. CASE CommandReads
    BY <1>23 DEF Ended, CommandReads, loop, socket, daemon, engine, remote
  <1>24. CASE ServeTakesSignal
    BY <1>24 DEF Ended, ServeTakesSignal, loop, socket, daemon, engine, remote
  <1>25. CASE CommandWrites
    BY <1>25 DEF Ended, CommandWrites, loop, socket, daemon, engine, remote
  <1>26. CASE CommandExits
    BY <1>26 DEF Ended, CommandExits, loop, socket, daemon, engine, remote
  <1>27. CASE UNCHANGED vars
    BY <1>27 DEF Ended, vars, loop, socket, daemon, engine, remote
  <1>28. QED
    BY <1>1, <1>2, <1>3, <1>4, <1>5, <1>6, <1>7, <1>8, <1>9, <1>10, <1>11, <1>12,
       <1>13, <1>14, <1>15, <1>16, <1>17, <1>18, <1>19, <1>20, <1>21, <1>22, <1>23, <1>24,
       <1>25, <1>26, <1>27
    DEF Next, ClientStep, DaemonStep, EngineStep, CommandStep

\* The data on its way: w frames have been forwarded, l have entered the lane, u the
\* socket, and p are known to the client.
Chain(w, l, u, p) ==
  /\ Carries(wire, Len(received), w) /\ Carries(lane, w, l)
  /\ Carries(up, l, u) /\ Carries(pending, u, p)
  /\ p + 1 >= taken /\ (client # "torn" => p = taken)

Whole ==
  /\ \A i \in DOMAIN received : received[i] = i
  /\ \E w, l, u, p \in 0 .. taken : Chain(w, l, u, p)

\* The conserved data, by name, in this state and in the next.
LEMMA WholeParts ==
  /\ StdinConserved <=> (command = "running" /\ exec = "running" => Whole)
  /\ StdinConserved' <=> (command' = "running" /\ exec' = "running" => Whole')
  BY DEF StdinConserved, Whole, Chain

\* An execution that has ended, and a command that has exited, stay so.
LEMMA Stays == [Next]_vars /\ command' = "running" /\ exec' = "running"
                 => command = "running" /\ exec = "running"
  <1> SUFFICES ASSUME [Next]_vars, command' = "running", exec' = "running"
               PROVE  command = "running" /\ exec = "running"
    OBVIOUS
  <1>1. CASE ReadStdin
    BY <1>1 DEF ReadStdin, WriteFrame, loop, socket, daemon, engine, remote
  <1>2. CASE StdinEnds
    BY <1>2 DEF StdinEnds, WriteFrame, loop, socket, daemon, engine, remote
  <1>3. ASSUME NEW x \in Signal, TakeSignal(x) PROVE command = "running" /\ exec = "running"
    BY <1>3 DEF TakeSignal, WriteFrame, loop, socket, daemon, engine, remote
  <1>4. CASE PollFrame
    BY <1>4 DEF PollFrame, loop, socket, daemon, engine, remote
  <1>5. CASE PollEnd
    BY <1>5 DEF PollEnd, loop, socket, daemon, engine, remote
  <1>6. CASE WriteUp
    BY <1>6 DEF WriteUp, loop, socket, daemon, engine, remote
  <1>7. CASE WriteBroken
    BY <1>7 DEF WriteBroken, loop, socket, daemon, engine, remote
  <1>8. CASE ClientDies
    BY <1>8 DEF ClientDies, ClientGone, loop, socket, daemon, engine, remote
  <1>9. CASE RouteFrame
    BY <1>9 DEF RouteFrame, loop, socket, daemon, engine, remote
  <1>10. CASE ClientEnds
    BY <1>10 DEF ClientEnds, ClientGone, loop, socket, daemon, engine, remote
  <1>11. CASE ClientResets
    BY <1>11 DEF ClientResets, ClientGone, loop, socket, daemon, engine, remote
  <1>12. CASE AbandonExec
    BY <1>12 DEF AbandonExec, DropEngine, loop, socket, daemon, engine, remote
  <1>13. CASE ForwardSignal
    BY <1>13 DEF ForwardSignal, loop, socket, daemon, engine, remote
  <1>14. CASE EngineOutput
    BY <1>14 DEF EngineOutput, ClientGone, loop, socket, daemon, engine, remote
  <1>15. CASE EngineExit
    BY <1>15 DEF EngineExit, DropEngine, loop, socket, daemon, engine, remote
  <1>16. CASE WriteDown
    BY <1>16 DEF WriteDown, ClientGone, loop, socket, daemon, engine, remote
  <1>17. CASE DropOutput
    BY <1>17 DEF DropOutput, ClientGone, loop, socket, daemon, engine, remote
  <1>18. CASE CloseSocket
    BY <1>18 DEF CloseSocket, loop, socket, daemon, engine, remote
  <1>19. CASE DaemonDies
    BY <1>19 DEF DaemonDies, DropEngine, loop, socket, daemon, engine, remote
  <1>20. CASE SendSignal
    BY <1>20 DEF SendSignal, loop, socket, daemon, engine, remote
  <1>21. CASE ForwardInBand
    BY <1>21 DEF ForwardInBand, loop, socket, daemon, engine, remote
  <1>22. CASE ForwardStdin
    BY <1>22 DEF ForwardStdin, loop, socket, daemon, engine, remote
  <1>23. CASE CommandReads
    BY <1>23 DEF CommandReads, loop, socket, daemon, engine, remote
  <1>24. CASE ServeTakesSignal
    BY <1>24 DEF ServeTakesSignal, loop, socket, daemon, engine, remote
  <1>25. CASE CommandWrites
    BY <1>25 DEF CommandWrites, loop, socket, daemon, engine, remote
  <1>26. CASE CommandExits
    BY <1>26 DEF CommandExits, loop, socket, daemon, engine, remote
  <1>27. CASE UNCHANGED vars
    BY <1>27 DEF vars, loop, socket, daemon, engine, remote
  <1>28. QED
    BY <1>1, <1>2, <1>3, <1>4, <1>5, <1>6, <1>7, <1>8, <1>9, <1>10, <1>11, <1>12,
       <1>13, <1>14, <1>15, <1>16, <1>17, <1>18, <1>19, <1>20, <1>21, <1>22, <1>23, <1>24,
       <1>25, <1>26, <1>27
    DEF Next, ClientStep, DaemonStep, EngineStep, CommandStep

\* No step loses a frame of stdin, takes it twice or overtakes another.
LEMMA ConservedKept ==
  ASSUME LoopTypes, UpTypes, Ended, StdinConserved, [Next]_vars
  PROVE  StdinConserved'
<1> SUFFICES ASSUME command' = "running", exec' = "running" PROVE Whole'
  BY WholeParts
<1>1. command = "running" /\ exec = "running"
  BY Stays
<1>2. PICK w \in 0 .. taken, l \in 0 .. taken, u \in 0 .. taken, p \in 0 .. taken :
        Chain(w, l, u, p)
  BY <1>1, WholeParts DEF Whole
<1>3. /\ taken \in Nat /\ taken <= Items /\ Items \in Nat /\ Len(received) \in Nat
      /\ w \in Nat /\ l \in Nat /\ u \in Nat /\ p \in Nat
      /\ w <= Items /\ l <= Items /\ u <= Items /\ p <= Items
      /\ received \in Seq(1 .. Items)
  <2>1. received \in Seq(1 .. Items) /\ taken \in 0 .. Items
    BY DEF UpTypes, LoopTypes
  <2>2. QED
    BY <2>1, ConstantFacts
<1>4. \A i \in DOMAIN received : received[i] = i
  BY <1>1, WholeParts DEF Whole
<1>5. QED
  <2>1. CASE ReadStdin
    <3>1. /\ client = "select" /\ taken < Items /\ taken' = taken + 1 /\ pending' = <<taken + 1>>
          /\ UNCHANGED <<up, lane, wire, received>>
      BY <2>1 DEF ReadStdin, WriteFrame, socket, engine, remote
    <3>2. pending = << >> /\ p = taken
      BY <1>2, <3>1, Movables DEF Chain
    <3>3. IsData(taken + 1)
      BY <1>3, <3>1, ConstantFacts DEF IsData
    <3>4. Joined(pending, pending', taken + 1)
      BY <3>1, <3>2, <3>3, Kinds
    <3>5. Carries(pending', u, taken + 1)
      BY <1>2, <1>3, <3>1, <3>2, <3>4, JoinCarries DEF Chain
    <3>6. PICK t \in Nat : t = taken + 1
      BY <1>3
    <3>7. Chain(w, l, u, t)'
      BY <1>2, <3>1, <3>5, <3>6 DEF Chain
    <3>8. /\ w \in 0 .. taken' /\ l \in 0 .. taken' /\ u \in 0 .. taken' /\ t \in 0 .. taken'
      BY <1>2, <1>3, <3>1, <3>6
    <3>9. QED
      BY <1>4, <3>1, <3>7, <3>8 DEF Whole
  <2>2. CASE StdinEnds
    <3>1. /\ client = "select" /\ client' # "torn" /\ taken' = taken
          /\ UNCHANGED <<up, lane, wire, received>>
          /\ pending' = <<Eof>> \/ pending' = pending
      BY <2>2 DEF StdinEnds, WriteFrame, socket, engine, remote
    <3>2. pending = << >> /\ p = taken /\ ~IsData(Eof) /\ Eof \in Upward
      BY <1>2, <2>2, <3>1, Movables, Kinds DEF Chain
    <3>3. Joined(<< >>, <<Eof>>, Eof)
      BY <3>2, Kinds
    <3>4. Carries(pending', u, p)
      BY <1>2, <1>3, <3>1, <3>2, <3>3, JoinCarries DEF Chain
    <3>5. Chain(w, l, u, p)'
      BY <1>2, <3>1, <3>2, <3>4 DEF Chain
    <3>6. QED
      BY <1>2, <1>4, <3>1, <3>5 DEF Whole
  <2>3. ASSUME NEW x \in Signal, TakeSignal(x) PROVE Whole'
    <3>1. /\ client = "select" /\ client' # "torn" /\ taken' = taken
          /\ UNCHANGED <<up, lane, wire, received>>
          /\ pending' = <<x>> \/ pending' = pending
      BY <2>3 DEF TakeSignal, WriteFrame, socket, engine, remote
    <3>2. pending = << >> /\ p = taken /\ ~IsData(x) /\ x \in Upward
      BY <1>2, <2>3, <3>1, Movables, Kinds DEF Chain
    <3>3. Joined(<< >>, <<x>>, x)
      BY <3>2, Kinds
    <3>4. Carries(pending', u, p)
      BY <1>2, <1>3, <3>1, <3>2, <3>3, JoinCarries DEF Chain
    <3>5. Chain(w, l, u, p)'
      BY <1>2, <3>1, <3>2, <3>4 DEF Chain
    <3>6. QED
      BY <1>2, <1>4, <3>1, <3>5 DEF Whole
  <2>4. CASE PollFrame
    <3>1. /\ UNCHANGED <<taken, pending, up, lane, wire, received>>
          /\ client = "torn" => client' = "torn"
      BY <2>4 DEF PollFrame, loop, socket, daemon, engine, remote
    <3>2. Chain(w, l, u, p)' /\ taken' = taken
      BY <1>2, <3>1 DEF Chain
    <3>3. QED
      BY <1>2, <1>4, <3>1, <3>2 DEF Whole
  <2>5. CASE PollEnd
    <3>1. /\ UNCHANGED <<taken, pending, up, lane, wire, received>>
          /\ client = "torn" => client' = "torn"
      BY <2>5 DEF PollEnd, loop, socket, daemon, engine, remote
    <3>2. Chain(w, l, u, p)' /\ taken' = taken
      BY <1>2, <3>1 DEF Chain
    <3>3. QED
      BY <1>2, <1>4, <3>1, <3>2 DEF Whole
  <2>6. CASE WriteUp
    <3>1. /\ client = "write" /\ client' = "select" /\ taken' = taken
          /\ up' = up \o pending /\ pending' = << >> /\ UNCHANGED <<lane, wire, received>>
      BY <2>6 DEF WriteUp, engine, remote
    <3> DEFINE f == Head(pending)
    <3>2. Left(pending, << >>) /\ f \in Upward /\ Joined(up, up', f)
      BY <3>1, Movables
    <3> HIDE DEF f
    <3>3. p = taken /\ Carries(<< >>, p, p)
      BY <1>2, <1>3, <3>1, NothingInEmpty DEF Chain
    <3>4. Carries(up', l, p)
      <4>1. CASE IsData(f)
        <5>1. f = u + 1 /\ u + 1 <= p /\ Carries(<< >>, u + 1, p)
          BY <1>2, <1>3, <3>2, <4>1, LeaveCarries DEF Chain, f
        <5>2. p = u + 1
          BY <1>3, <5>1, CarriesNothing, NothingInEmpty
        <5>3. Carries(up', l, u + 1)
          BY <1>2, <1>3, <3>2, <5>1, <5>2, JoinCarries DEF Chain
        <5>4. QED
          BY <5>2, <5>3
      <4>2. CASE ~IsData(f)
        <5>1. Carries(<< >>, u, p)
          BY <1>2, <1>3, <3>2, <4>2, LeaveCarries DEF Chain, f
        <5>2. p = u
          BY <1>3, <5>1, CarriesNothing, NothingInEmpty
        <5>3. Carries(up', l, u)
          BY <1>2, <1>3, <3>2, <4>2, JoinCarries DEF Chain
        <5>4. QED
          BY <5>2, <5>3
      <4>3. QED
        BY <4>1, <4>2
    <3>5. Chain(w, l, p, p)'
      BY <1>2, <3>1, <3>3, <3>4 DEF Chain
    <3>6. QED
      BY <1>2, <1>4, <3>1, <3>5 DEF Whole
  <2>7. CASE WriteBroken
    BY <2>7, <1>1 DEF WriteBroken, Ended
  <2>8. CASE ClientDies
    <3>1. /\ taken' = taken /\ pending' = << >> /\ UNCHANGED <<up, lane, wire, received>>
          /\ client' = "torn" <=> client = "write"
      BY <2>8 DEF ClientDies, socket, engine, remote
    <3>2. CASE client = "write"
      <4>1. Carries(<< >>, u, u)
        BY <1>3, NothingInEmpty
      <4>2. u + 1 >= p /\ p = taken
        <5>1. Left(pending, << >>) /\ Carries(pending, u, p) /\ p = taken
          BY <1>2, <3>2, Movables DEF Chain
        <5>2. /\ IsData(Head(pending)) => u + 1 <= p /\ Carries(<< >>, u + 1, p)
              /\ ~IsData(Head(pending)) => Carries(<< >>, u, p)
          BY <1>3, <5>1, LeaveCarries
        <5>3. IsData(Head(pending)) => u + 1 = p
          BY <1>3, <5>2, CarriesNothing, NothingInEmpty
        <5>4. ~IsData(Head(pending)) => u = p
          BY <1>3, <5>2, CarriesNothing, NothingInEmpty
        <5>5. QED
          BY <1>3, <5>1, <5>3, <5>4
      <4>3. Chain(w, l, u, u)'
        BY <1>2, <3>1, <3>2, <4>1, <4>2 DEF Chain
      <4>4. QED
        BY <1>2, <1>4, <3>1, <4>3 DEF Whole
    <3>3. CASE client # "write"
      <4>1. client # "torn"
        BY <2>8 DEF ClientDies, ClientGone
      <4>2. Chain(w, l, u, p)'
        BY <1>2, <3>1, <3>3, <4>1, Movables DEF Chain
      <4>3. QED
        BY <1>2, <1>4, <3>1, <4>2 DEF Whole
    <3>4. QED
      BY <3>2, <3>3
  <2>9. CASE RouteFrame
    <3> DEFINE f == Head(up)
    <3>1. /\ up # << >> /\ up' = Tail(up) /\ UNCHANGED <<client, taken, pending, wire, received>>
          /\ f \in Signal => lane' = lane
          /\ f \notin Signal => lane' = Append(lane, f)
      BY <2>9 DEF RouteFrame, loop, remote
    <3>2. Left(up, up') /\ f \in Upward
      BY <3>1, Movables DEF Movable
    <3>3. f \notin Signal => Joined(lane, lane', f)
      BY <3>1, <3>2, Movables DEF Movable
    <3>4. CASE IsData(f)
      <4>1. f = l + 1 /\ l + 1 <= u /\ Carries(up', l + 1, u)
        BY <1>2, <1>3, <3>2, <3>4, LeaveCarries DEF Chain
      <4>2. Joined(lane, lane', f)
        BY <3>3, <3>4, Kinds
      <4>3. Carries(lane', w, l + 1)
        <5> HIDE DEF f
        <5>1. QED
          BY <1>2, <1>3, <4>1, <4>2, JoinCarries DEF Chain
      <4>4. Chain(w, l + 1, u, p)'
        BY <1>2, <3>1, <4>1, <4>3 DEF Chain
      <4>5. l + 1 \in 0 .. taken
        BY <1>2, <1>3, <4>1
      <4>6. QED
        BY <1>2, <1>4, <3>1, <4>4, <4>5 DEF Whole
    <3>5. CASE ~IsData(f)
      <4>1. Carries(up', l, u)
        BY <1>2, <1>3, <3>2, <3>5, LeaveCarries DEF Chain
      <4>2. Carries(lane', w, l)
        <5>1. CASE f \in Signal
          BY <1>2, <3>1, <5>1 DEF Chain
        <5>2. CASE f \notin Signal
          <6> HIDE DEF f
          <6>1. QED
            BY <1>2, <1>3, <3>3, <3>5, <5>2, JoinCarries DEF Chain
        <5>3. QED
          BY <5>1, <5>2
      <4>3. Chain(w, l, u, p)'
        BY <1>2, <3>1, <4>1, <4>2 DEF Chain
      <4>4. QED
        BY <1>2, <1>4, <3>1, <4>3 DEF Whole
    <3>6. QED
      BY <3>4, <3>5
  <2>10. CASE ClientEnds
    <3>1. /\ lane' = Append(lane, Eof) /\ UNCHANGED <<client, taken, pending, up, wire, received>>
      BY <2>10 DEF ClientEnds, loop, socket, remote
    <3>2. Joined(lane, lane', Eof)
      BY <3>1, Movables, Kinds DEF Movable
    <3>3. Carries(lane', w, l)
      BY <1>2, <1>3, <3>2, Kinds, JoinCarries DEF Chain
    <3>4. Chain(w, l, u, p)'
      BY <1>2, <3>1, <3>3 DEF Chain
    <3>5. QED
      BY <1>2, <1>4, <3>1, <3>4 DEF Whole
  <2>11. CASE ClientResets
    <3>1. /\ UNCHANGED <<taken, pending, up, lane, wire, received>>
          /\ client = "torn" => client' = "torn"
      BY <2>11 DEF ClientResets, ClientGone, loop, socket, daemon, engine, remote
    <3>2. Chain(w, l, u, p)' /\ taken' = taken
      BY <1>2, <3>1 DEF Chain
    <3>3. QED
      BY <1>2, <1>4, <3>1, <3>2 DEF Whole
  <2>12. CASE AbandonExec
    BY <2>12 DEF AbandonExec
  <2>13. CASE ForwardSignal
    <3>1. /\ UNCHANGED <<taken, pending, up, lane, wire, received>>
          /\ client = "torn" => client' = "torn"
      BY <2>13 DEF ForwardSignal, loop, socket, daemon, engine, remote
    <3>2. Chain(w, l, u, p)' /\ taken' = taken
      BY <1>2, <3>1 DEF Chain
    <3>3. QED
      BY <1>2, <1>4, <3>1, <3>2 DEF Whole
  <2>14. CASE EngineOutput
    <3>1. /\ UNCHANGED <<taken, pending, up, lane, wire, received>>
          /\ client = "torn" => client' = "torn"
      BY <2>14 DEF EngineOutput, ClientGone, loop, socket, daemon, engine, remote
    <3>2. Chain(w, l, u, p)' /\ taken' = taken
      BY <1>2, <3>1 DEF Chain
    <3>3. QED
      BY <1>2, <1>4, <3>1, <3>2 DEF Whole
  <2>15. CASE EngineExit
    BY <2>15 DEF EngineExit
  <2>16. CASE WriteDown
    <3>1. /\ UNCHANGED <<taken, pending, up, lane, wire, received>>
          /\ client = "torn" => client' = "torn"
      BY <2>16 DEF WriteDown, ClientGone, loop, socket, daemon, engine, remote
    <3>2. Chain(w, l, u, p)' /\ taken' = taken
      BY <1>2, <3>1 DEF Chain
    <3>3. QED
      BY <1>2, <1>4, <3>1, <3>2 DEF Whole
  <2>17. CASE DropOutput
    <3>1. /\ UNCHANGED <<taken, pending, up, lane, wire, received>>
          /\ client = "torn" => client' = "torn"
      BY <2>17 DEF DropOutput, ClientGone, loop, socket, daemon, engine, remote
    <3>2. Chain(w, l, u, p)' /\ taken' = taken
      BY <1>2, <3>1 DEF Chain
    <3>3. QED
      BY <1>2, <1>4, <3>1, <3>2 DEF Whole
  <2>18. CASE CloseSocket
    <3>1. /\ UNCHANGED <<taken, pending, up, lane, wire, received>>
          /\ client = "torn" => client' = "torn"
      BY <2>18 DEF CloseSocket, loop, socket, daemon, engine, remote
    <3>2. Chain(w, l, u, p)' /\ taken' = taken
      BY <1>2, <3>1 DEF Chain
    <3>3. QED
      BY <1>2, <1>4, <3>1, <3>2 DEF Whole
  <2>19. CASE DaemonDies
    BY <2>19 DEF DaemonDies
  <2>20. CASE SendSignal
    <3>1. /\ UNCHANGED <<taken, pending, up, lane, wire, received>>
          /\ client = "torn" => client' = "torn"
      BY <2>20 DEF SendSignal, loop, socket, daemon, engine, remote
    <3>2. Chain(w, l, u, p)' /\ taken' = taken
      BY <1>2, <3>1 DEF Chain
    <3>3. QED
      BY <1>2, <1>4, <3>1, <3>2 DEF Whole
  <2>21. CASE ForwardInBand
    <3> DEFINE f == Head(inband)
    <3>1. /\ inband # << >> /\ wire' = Append(wire, f)
          /\ UNCHANGED <<client, taken, pending, up, lane, received>>
      BY <2>21 DEF ForwardInBand, loop, socket
    <3>2. f \in Signal
      BY <3>1, QueueOps, ConstantFacts DEF UpTypes
    <3>3. Joined(wire, wire', f) /\ ~IsData(f)
      BY <3>1, <3>2, Movables, Kinds DEF Movable
    <3>4. Carries(wire', Len(received), w)
      <4> HIDE DEF f
      <4>1. QED
        BY <1>2, <1>3, <3>3, JoinCarries DEF Chain
    <3>5. Chain(w, l, u, p)'
      BY <1>2, <3>1, <3>4 DEF Chain
    <3>6. QED
      BY <1>2, <1>4, <3>1, <3>5 DEF Whole
  <2>22. CASE ForwardStdin
    <3> DEFINE f == Head(lane)
    <3>1. /\ lane # << >> /\ lane' = Tail(lane) /\ wire' = Append(wire, f)
          /\ UNCHANGED <<client, taken, pending, up, received>>
      BY <2>22 DEF ForwardStdin, loop, socket
    <3>2. Left(lane, lane') /\ f \in Upward
      BY <3>1, Movables DEF Movable
    <3>3. Joined(wire, wire', f)
      BY <3>1, <3>2, Movables DEF Movable
    <3>4. CASE IsData(f)
      <4>1. f = w + 1 /\ w + 1 <= l /\ Carries(lane', w + 1, l)
        BY <1>2, <1>3, <3>2, <3>4, LeaveCarries DEF Chain
      <4>2. Carries(wire', Len(received), w + 1)
        <5> HIDE DEF f
        <5>1. QED
          BY <1>2, <1>3, <4>1, <3>3, JoinCarries DEF Chain
      <4>3. Chain(w + 1, l, u, p)'
        BY <1>2, <3>1, <4>1, <4>2 DEF Chain
      <4>4. w + 1 \in 0 .. taken
        BY <1>2, <1>3, <4>1
      <4>5. QED
        BY <1>2, <1>4, <3>1, <4>3, <4>4 DEF Whole
    <3>5. CASE ~IsData(f)
      <4>1. Carries(lane', w, l)
        BY <1>2, <1>3, <3>2, <3>5, LeaveCarries DEF Chain
      <4>2. Carries(wire', Len(received), w)
        <5> HIDE DEF f
        <5>1. QED
          BY <1>2, <1>3, <3>3, <3>5, JoinCarries DEF Chain
      <4>3. Chain(w, l, u, p)'
        BY <1>2, <3>1, <4>1, <4>2 DEF Chain
      <4>4. QED
        BY <1>2, <1>4, <3>1, <4>3 DEF Whole
    <3>6. QED
      BY <3>4, <3>5
  <2>23. CASE CommandReads
    <3> DEFINE f == Head(wire)
    <3>1. /\ wire # << >> /\ wire' = Tail(wire) /\ f \notin Signal
          /\ f = Eof => received' = received
          /\ f # Eof => received' = Append(received, f)
          /\ UNCHANGED <<client, taken, pending, up, lane>>
      BY <2>23 DEF CommandReads, loop, socket, engine
    <3>2. Left(wire, wire') /\ f \in Upward
      BY <3>1, Movables DEF Movable
    <3>3. CASE IsData(f)
      <4>1. f = Len(received) + 1 /\ Carries(wire', Len(received) + 1, w)
        BY <1>2, <1>3, <3>2, <3>3, LeaveCarries DEF Chain
      <4>2. received' = Append(received, f) /\ f \in 1 .. Items
        BY <3>1, <3>3, Kinds DEF IsData
      <4>3. Joined(received, received', f)
        <5> HIDE DEF f
        <5>1. QED
          BY <4>2, Ends DEF UpTypes
      <4>4. Len(received') = Len(received) + 1
        <5> HIDE DEF f
        <5>1. QED
          BY <4>2, AppendProperties DEF UpTypes
      <4>5. \A i \in DOMAIN received' : received'[i] = i
        <5> HIDE DEF f
        <5>1. QED
          BY <1>4, <4>1, <4>3 DEF Joined
      <4>6. Chain(w, l, u, p)'
        BY <1>2, <3>1, <4>1, <4>4 DEF Chain
      <4>7. QED
        BY <1>2, <3>1, <4>5, <4>6 DEF Whole
    <3>4. CASE ~IsData(f)
      <4>1. f = Eof /\ received' = received
        BY <3>1, <3>2, <3>4, Kinds
      <4>2. Carries(wire', Len(received), w)
        BY <1>2, <1>3, <3>2, <3>4, LeaveCarries DEF Chain
      <4>3. Chain(w, l, u, p)'
        BY <1>2, <3>1, <4>1, <4>2 DEF Chain
      <4>4. QED
        BY <1>2, <1>4, <3>1, <4>1, <4>3 DEF Whole
    <3>5. QED
      BY <3>3, <3>4
  <2>24. CASE ServeTakesSignal
    <3> DEFINE f == Head(wire)
    <3>1. /\ wire # << >> /\ wire' = Tail(wire) /\ f \in Signal
          /\ UNCHANGED <<client, taken, pending, up, lane, received>>
      BY <2>24 DEF ServeTakesSignal, loop, socket, engine
    <3>2. Left(wire, wire') /\ ~IsData(f)
      BY <3>1, Movables, Kinds DEF Movable
    <3>3. Carries(wire', Len(received), w)
      BY <1>2, <1>3, <3>2, LeaveCarries DEF Chain
    <3>4. Chain(w, l, u, p)'
      BY <1>2, <3>1, <3>3 DEF Chain
    <3>5. QED
      BY <1>2, <1>4, <3>1, <3>4 DEF Whole
  <2>25. CASE CommandWrites
    <3>1. /\ UNCHANGED <<taken, pending, up, lane, wire, received>>
          /\ client = "torn" => client' = "torn"
      BY <2>25 DEF CommandWrites, loop, socket, daemon, engine, remote
    <3>2. Chain(w, l, u, p)' /\ taken' = taken
      BY <1>2, <3>1 DEF Chain
    <3>3. QED
      BY <1>2, <1>4, <3>1, <3>2 DEF Whole
  <2>26. CASE CommandExits
    BY <2>26 DEF CommandExits
  <2>27. CASE UNCHANGED vars
    <3>1. /\ UNCHANGED <<taken, pending, up, lane, wire, received>>
          /\ client = "torn" => client' = "torn"
      BY <2>27 DEF vars, loop, socket, daemon, engine, remote
    <3>2. Chain(w, l, u, p)' /\ taken' = taken
      BY <1>2, <3>1 DEF Chain
    <3>3. QED
      BY <1>2, <1>4, <3>1, <3>2 DEF Whole
  <2>28. QED
    BY <2>1, <2>2, <2>3, <2>4, <2>5, <2>6, <2>7, <2>8, <2>9, <2>10, <2>11, <2>12,
       <2>13, <2>14, <2>15, <2>16, <2>17, <2>18, <2>19, <2>20, <2>21, <2>22, <2>23, <2>24,
       <2>25, <2>26, <2>27
    DEF Next, ClientStep, DaemonStep, EngineStep, CommandStep

(***************************************************************************)
(* The end of stdin comes last                                             *)
(***************************************************************************)
\* An end of stdin is on its way only if the client has met its own or is gone.
EofSource ==
  eofSeen \/ HasEof(wire) \/ HasEof(lane) \/ HasEof(up) \/ HasEof(pending)
    => ~stdinOpen \/ ClientGone

\* Wherever it is, no data is behind it; in the hand of the forwarder it closes it.
EofOrder ==
  /\ EofAtEnd(wire) /\ EofAtEnd(lane) /\ EofAtEnd(up)
  /\ HasEof(up) => NoData(pending)
  /\ HasEof(lane) => NoData(up) /\ NoData(pending)
  /\ eofSeen \/ HasEof(wire) => ~fwdOpen /\ NoData(lane) /\ NoData(up) /\ NoData(pending)

\* No step lets data in behind an end of stdin.
LEMMA EofKept ==
  ASSUME LoopTypes, UpTypes, Ended, EofSource, EofOrder, [Next]_vars
  PROVE  EofSource' /\ EofOrder'
  <1>1. CASE ReadStdin
    <2>1. /\ client = "select" /\ client' = "write" /\ taken < Items /\ stdinOpen
          /\ pending' = <<taken + 1>> /\ taken \in 0 .. Items
          /\ UNCHANGED <<up, lane, fwdOpen, wire, eofSeen>>
      BY <1>1 DEF ReadStdin, WriteFrame, socket, engine, remote, LoopTypes
    <2>2. IsData(taken + 1)
      BY <2>1, ConstantFacts DEF IsData
    <2>3. Joined(<< >>, pending', taken + 1) /\ taken + 1 # Eof
      BY <2>1, <2>2, Kinds
    <2>4. ~HasEof(pending')
      BY <2>3, JoinEof, NothingInEmpty
    <2>5. ~ClientGone
      BY <2>1 DEF ClientGone
    <2>6. ~eofSeen /\ ~HasEof(wire) /\ ~HasEof(lane) /\ ~HasEof(up)
      BY <2>1, <2>5 DEF EofSource
    <2>7. QED
      BY <2>1, <2>4, <2>6, Zenon DEF EofSource, EofOrder
  <1>2. CASE StdinEnds
    <2>1. /\ stdinOpen' = FALSE /\ pending' = <<Eof>>
          /\ UNCHANGED <<up, lane, fwdOpen, wire, eofSeen>>
      BY <1>2 DEF StdinEnds, WriteFrame, socket, engine, remote
    <2>2. NoData(pending')
      BY <2>1, Kinds, JoinEof, NothingInEmpty
    <2>3. QED
      BY <2>1, <2>2, Zenon DEF EofSource, EofOrder
  <1>3. ASSUME NEW x \in Signal, TakeSignal(x) PROVE EofSource' /\ EofOrder'
    <2>1. /\ client = "select"
          /\ pending' = <<x>> \/ pending' = pending
          /\ UNCHANGED <<stdinOpen, up, lane, fwdOpen, wire, eofSeen>>
      BY <1>3 DEF TakeSignal, WriteFrame, socket, engine, remote
    <2>2. NoData(pending') /\ (HasEof(pending') => HasEof(pending))
      <3>1. pending = << >>
        BY <2>1, Movables
      <3>2. Joined(<< >>, <<x>>, x) /\ ~IsData(x) /\ x # Eof
        BY <1>3, Kinds
      <3>3. NoData(<<x>>) /\ ~HasEof(<<x>>)
        BY <3>2, JoinEof, NothingInEmpty
      <3>4. QED
        BY <2>1, <3>1, <3>3, NothingInEmpty
    <2>3. ~ClientGone
      BY <2>1 DEF ClientGone
    <2>4. QED
      BY <2>1, <2>2, <2>3, Zenon DEF EofSource, EofOrder
  <1>4. CASE PollFrame
    <2>1. /\ UNCHANGED <<stdinOpen, pending, up, lane, fwdOpen, wire, eofSeen>>
          /\ client = "select"
      BY <1>4 DEF PollFrame, socket, engine, remote
    <2>2. ~ClientGone
      BY <2>1 DEF ClientGone
    <2>3. QED
      BY <2>1, <2>2, Zenon DEF EofSource, EofOrder
  <1>5. CASE PollEnd
    <2>1. /\ UNCHANGED <<stdinOpen, pending, up, lane, fwdOpen, wire, eofSeen>>
          /\ client = "select"
      BY <1>5 DEF PollEnd, socket, engine, remote
    <2>2. ~ClientGone
      BY <2>1 DEF ClientGone
    <2>3. QED
      BY <2>1, <2>2, Zenon DEF EofSource, EofOrder
  <1>6. CASE WriteUp
    <2> DEFINE f == Head(pending)
    <2>1. /\ client = "write" /\ up' = up \o pending /\ pending' = << >>
          /\ UNCHANGED <<stdinOpen, lane, fwdOpen, wire, eofSeen>>
      BY <1>6 DEF WriteUp, engine, remote
    <2>2. Left(pending, << >>) /\ Joined(up, up', f)
      BY <2>1, Movables
    <2>3. /\ NoData(pending) <=> ~IsData(f)
          /\ HasEof(pending) <=> f = Eof
      BY <2>2, LeaveEof, NothingInEmpty
    <2> HIDE DEF f
    <2>4. /\ NoData(up') <=> NoData(up) /\ ~IsData(f)
          /\ HasEof(up') <=> HasEof(up) \/ f = Eof
          /\ EofAtEnd(up) /\ (HasEof(up) => ~IsData(f)) => EofAtEnd(up')
      BY <2>2, JoinEof
    <2>5. NoData(pending') /\ ~HasEof(pending')
      BY <2>1, NothingInEmpty
    <2>6. ~ClientGone
      BY <2>1 DEF ClientGone
    <2>7. QED
      BY <2>1, <2>3, <2>4, <2>5, <2>6, Zenon DEF EofSource, EofOrder
  <1>7. CASE WriteBroken
    <2>1. /\ pending' = << >> /\ UNCHANGED <<stdinOpen, up, lane, fwdOpen, wire, eofSeen>>
          /\ client' \in {"failed", "torn", "killed"}
      BY <1>7 DEF WriteBroken, socket, engine, remote
    <2>2. NoData(pending') /\ ClientGone'
      BY <2>1, NothingInEmpty DEF ClientGone
    <2>3. QED
      BY <2>1, <2>2, Zenon DEF EofSource, EofOrder
  <1>8. CASE ClientDies
    <2>1. /\ pending' = << >> /\ UNCHANGED <<stdinOpen, up, lane, fwdOpen, wire, eofSeen>>
          /\ client' \in {"failed", "torn", "killed"}
      BY <1>8 DEF ClientDies, ClientGone, socket, engine, remote
    <2>2. NoData(pending') /\ ClientGone'
      BY <2>1, NothingInEmpty DEF ClientGone
    <2>3. QED
      BY <2>1, <2>2, Zenon DEF EofSource, EofOrder
  <1>9. CASE RouteFrame
    <2> DEFINE f == Head(up)
    <2>1. /\ up # << >> /\ up' = Tail(up)
          /\ UNCHANGED <<client, stdinOpen, pending, fwdOpen, wire, eofSeen>>
          /\ f \in Signal => lane' = lane
          /\ f \notin Signal => lane' = Append(lane, f)
      BY <1>9 DEF RouteFrame, loop, remote
    <2>2. Left(up, up') /\ f \in Upward
      BY <2>1, Movables DEF Movable
    <2>3. /\ NoData(up) <=> NoData(up') /\ ~IsData(f)
          /\ HasEof(up) <=> HasEof(up') \/ f = Eof
          /\ EofAtEnd(up) => EofAtEnd(up')
          /\ EofAtEnd(up) /\ f = Eof => NoData(up)
      BY <2>2, LeaveEof
    <2>4. f \notin Signal => Joined(lane, lane', f)
      BY <2>1, <2>2, Movables DEF Movable
    <2> HIDE DEF f
    <2>5. f \notin Signal =>
            /\ NoData(lane') <=> NoData(lane) /\ ~IsData(f)
            /\ HasEof(lane') <=> HasEof(lane) \/ f = Eof
            /\ EofAtEnd(lane) /\ (HasEof(lane) => ~IsData(f)) => EofAtEnd(lane')
      BY <2>4, JoinEof
    <2>6. ClientGone' <=> ClientGone
      BY <2>1 DEF ClientGone
    <2>7. CASE f \in Signal
      BY <2>1, <2>3, <2>6, <2>7, Zenon DEF EofSource, EofOrder
    <2>8. CASE f \notin Signal
      BY <2>1, <2>3, <2>5, <2>6, <2>8, Zenon DEF EofSource, EofOrder
    <2>9. QED
      BY <2>7, <2>8
  <1>10. CASE ClientEnds
    <2>1. /\ up = << >> /\ ClientGone /\ lane' = Append(lane, Eof)
          /\ UNCHANGED <<client, stdinOpen, pending, up, fwdOpen, wire, eofSeen>>
      BY <1>10 DEF ClientEnds, loop, socket, remote
    <2>2. /\ NoData(lane') <=> NoData(lane)
          /\ EofAtEnd(lane) => EofAtEnd(lane')
      BY <2>1, Movables, Kinds, JoinEof DEF Movable
    <2>3. client # "write"
      BY <2>1 DEF ClientGone
    <2>4. NoData(up) /\ NoData(pending)
      BY <2>1, <2>3, Movables, NothingInEmpty
    <2>5. ClientGone'
      BY <2>1 DEF ClientGone
    <2>6. QED
      BY <2>1, <2>2, <2>4, <2>5, Zenon DEF EofSource, EofOrder
  <1>11. CASE ClientResets
    <2>1. UNCHANGED <<client, stdinOpen, pending, up, lane, fwdOpen, wire, eofSeen>>
      BY <1>11 DEF ClientResets, ClientGone, loop, socket, daemon, engine, remote
    <2>2. ClientGone' <=> ClientGone
      BY <2>1 DEF ClientGone
    <2>3. QED
      BY <2>1, <2>2, Zenon DEF EofSource, EofOrder
  <1>12. CASE AbandonExec
    <2>1. /\ lane' = << >> /\ fwdOpen' = FALSE
          /\ UNCHANGED <<client, stdinOpen, pending, up, wire, eofSeen>>
      BY <1>12 DEF AbandonExec, DropEngine, loop, socket, remote
    <2>2. NoData(lane') /\ ~HasEof(lane') /\ EofAtEnd(lane')
      BY <2>1, NothingInEmpty
    <2>3. ClientGone' <=> ClientGone
      BY <2>1 DEF ClientGone
    <2>4. QED
      BY <2>1, <2>2, <2>3, Zenon DEF EofSource, EofOrder
  <1>13. CASE ForwardSignal
    <2>1. UNCHANGED <<client, stdinOpen, pending, up, lane, fwdOpen, wire, eofSeen>>
      BY <1>13 DEF ForwardSignal, loop, socket, daemon, engine, remote
    <2>2. ClientGone' <=> ClientGone
      BY <2>1 DEF ClientGone
    <2>3. QED
      BY <2>1, <2>2, Zenon DEF EofSource, EofOrder
  <1>14. CASE EngineOutput
    <2>1. UNCHANGED <<client, stdinOpen, pending, up, lane, fwdOpen, wire, eofSeen>>
      BY <1>14 DEF EngineOutput, ClientGone, loop, socket, daemon, engine, remote
    <2>2. ClientGone' <=> ClientGone
      BY <2>1 DEF ClientGone
    <2>3. QED
      BY <2>1, <2>2, Zenon DEF EofSource, EofOrder
  <1>15. CASE EngineExit
    <2>1. /\ lane' = << >> /\ fwdOpen' = FALSE
          /\ UNCHANGED <<client, stdinOpen, pending, up, wire, eofSeen>>
      BY <1>15 DEF EngineExit, DropEngine, loop, socket, remote
    <2>2. NoData(lane') /\ ~HasEof(lane') /\ EofAtEnd(lane')
      BY <2>1, NothingInEmpty
    <2>3. ClientGone' <=> ClientGone
      BY <2>1 DEF ClientGone
    <2>4. QED
      BY <2>1, <2>2, <2>3, Zenon DEF EofSource, EofOrder
  <1>16. CASE WriteDown
    <2>1. UNCHANGED <<client, stdinOpen, pending, up, lane, fwdOpen, wire, eofSeen>>
      BY <1>16 DEF WriteDown, ClientGone, loop, socket, daemon, engine, remote
    <2>2. ClientGone' <=> ClientGone
      BY <2>1 DEF ClientGone
    <2>3. QED
      BY <2>1, <2>2, Zenon DEF EofSource, EofOrder
  <1>17. CASE DropOutput
    <2>1. UNCHANGED <<client, stdinOpen, pending, up, lane, fwdOpen, wire, eofSeen>>
      BY <1>17 DEF DropOutput, ClientGone, loop, socket, daemon, engine, remote
    <2>2. ClientGone' <=> ClientGone
      BY <2>1 DEF ClientGone
    <2>3. QED
      BY <2>1, <2>2, Zenon DEF EofSource, EofOrder
  <1>18. CASE CloseSocket
    <2>1. UNCHANGED <<client, stdinOpen, pending, up, lane, fwdOpen, wire, eofSeen>>
      BY <1>18 DEF CloseSocket, loop, socket, daemon, engine, remote
    <2>2. ClientGone' <=> ClientGone
      BY <2>1 DEF ClientGone
    <2>3. QED
      BY <2>1, <2>2, Zenon DEF EofSource, EofOrder
  <1>19. CASE DaemonDies
    <2>1. /\ lane' = << >> /\ fwdOpen' = FALSE
          /\ UNCHANGED <<client, stdinOpen, pending, up, wire, eofSeen>>
      BY <1>19 DEF DaemonDies, DropEngine, loop, socket, remote
    <2>2. NoData(lane') /\ ~HasEof(lane') /\ EofAtEnd(lane')
      BY <2>1, NothingInEmpty
    <2>3. ClientGone' <=> ClientGone
      BY <2>1 DEF ClientGone
    <2>4. QED
      BY <2>1, <2>2, <2>3, Zenon DEF EofSource, EofOrder
  <1>20. CASE SendSignal
    <2>1. UNCHANGED <<client, stdinOpen, pending, up, lane, fwdOpen, wire, eofSeen>>
      BY <1>20 DEF SendSignal, loop, socket, daemon, engine, remote
    <2>2. ClientGone' <=> ClientGone
      BY <2>1 DEF ClientGone
    <2>3. QED
      BY <2>1, <2>2, Zenon DEF EofSource, EofOrder
  <1>21. CASE ForwardInBand
    <2> DEFINE f == Head(inband)
    <2>1. /\ inband # << >> /\ wire' = Append(wire, f)
          /\ UNCHANGED <<client, stdinOpen, pending, up, lane, fwdOpen, eofSeen>>
      BY <1>21 DEF ForwardInBand, loop, socket
    <2>2. f \in Signal
      BY <2>1, QueueOps, ConstantFacts DEF UpTypes
    <2>3. Joined(wire, wire', f) /\ ~IsData(f) /\ f # Eof
      BY <2>1, <2>2, Movables, Kinds DEF Movable
    <2> HIDE DEF f
    <2>4. (HasEof(wire') <=> HasEof(wire)) /\ (EofAtEnd(wire) => EofAtEnd(wire'))
      BY <2>3, JoinEof
    <2>5. ClientGone' <=> ClientGone
      BY <2>1 DEF ClientGone
    <2>6. QED
      BY <2>1, <2>4, <2>5, Zenon DEF EofSource, EofOrder
  <1>22. CASE ForwardStdin
    <2> DEFINE f == Head(lane)
    <2>1. /\ lane # << >> /\ lane' = Tail(lane) /\ wire' = Append(wire, f)
          /\ fwdOpen /\ (fwdOpen' <=> f # Eof)
          /\ UNCHANGED <<client, stdinOpen, pending, up, eofSeen>>
      BY <1>22 DEF ForwardStdin, loop, socket
    <2>2. Left(lane, lane') /\ f \in Upward
      BY <2>1, Movables DEF Movable
    <2>3. /\ NoData(lane) <=> NoData(lane') /\ ~IsData(f)
          /\ HasEof(lane) <=> HasEof(lane') \/ f = Eof
          /\ EofAtEnd(lane) => EofAtEnd(lane')
          /\ EofAtEnd(lane) /\ f = Eof => NoData(lane)
      BY <2>2, LeaveEof
    <2>4. Joined(wire, wire', f)
      BY <2>1, <2>2, Movables DEF Movable
    <2> HIDE DEF f
    <2>5. /\ HasEof(wire') <=> HasEof(wire) \/ f = Eof
          /\ EofAtEnd(wire) /\ (HasEof(wire) => ~IsData(f)) => EofAtEnd(wire')
      BY <2>4, JoinEof
    <2>6. ClientGone' <=> ClientGone
      BY <2>1 DEF ClientGone
    <2>7. ~eofSeen /\ ~HasEof(wire)
      BY <2>1 DEF EofOrder
    <2>8. QED
      BY <2>1, <2>3, <2>5, <2>6, <2>7, Zenon DEF EofSource, EofOrder
  <1>23. CASE CommandReads
    <2> DEFINE f == Head(wire)
    <2>1. /\ wire # << >> /\ wire' = Tail(wire)
          /\ UNCHANGED <<client, stdinOpen, pending, up, lane, fwdOpen>>
          /\ eofSeen' => eofSeen \/ f = Eof
      BY <1>23 DEF CommandReads, loop, socket, engine
    <2>2. Left(wire, wire')
      BY <2>1, Movables DEF Movable
    <2>3. /\ HasEof(wire) <=> HasEof(wire') \/ f = Eof
          /\ EofAtEnd(wire) => EofAtEnd(wire')
      BY <2>2, LeaveEof
    <2> HIDE DEF f
    <2>4. ClientGone' <=> ClientGone
      BY <2>1 DEF ClientGone
    <2>5. QED
      BY <2>1, <2>3, <2>4, Zenon DEF EofSource, EofOrder
  <1>24. CASE ServeTakesSignal
    <2>1. /\ wire # << >> /\ wire' = Tail(wire)
          /\ UNCHANGED <<client, stdinOpen, pending, up, lane, fwdOpen, eofSeen>>
      BY <1>24 DEF ServeTakesSignal, loop, socket, engine
    <2>2. Left(wire, wire')
      BY <2>1, Movables DEF Movable
    <2>3. (HasEof(wire') => HasEof(wire)) /\ (EofAtEnd(wire) => EofAtEnd(wire'))
      BY <2>2, LeaveEof
    <2>4. ClientGone' <=> ClientGone
      BY <2>1 DEF ClientGone
    <2>5. QED
      BY <2>1, <2>3, <2>4, Zenon DEF EofSource, EofOrder
  <1>25. CASE CommandWrites
    <2>1. UNCHANGED <<client, stdinOpen, pending, up, lane, fwdOpen, wire, eofSeen>>
      BY <1>25 DEF CommandWrites, loop, socket, daemon, engine, remote
    <2>2. ClientGone' <=> ClientGone
      BY <2>1 DEF ClientGone
    <2>3. QED
      BY <2>1, <2>2, Zenon DEF EofSource, EofOrder
  <1>26. CASE CommandExits
    <2>1. wire' = << >> /\ UNCHANGED <<client, stdinOpen, pending, up, lane, fwdOpen, eofSeen>>
      BY <1>26 DEF CommandExits, loop, socket, engine
    <2>2. ~HasEof(wire') /\ EofAtEnd(wire')
      BY <2>1, NothingInEmpty
    <2>3. ClientGone' <=> ClientGone
      BY <2>1 DEF ClientGone
    <2>4. QED
      BY <2>1, <2>2, <2>3, Zenon DEF EofSource, EofOrder
  <1>27. CASE UNCHANGED vars
    <2>1. UNCHANGED <<client, stdinOpen, pending, up, lane, fwdOpen, wire, eofSeen>>
      BY <1>27 DEF vars, loop, socket, daemon, engine, remote
    <2>2. ClientGone' <=> ClientGone
      BY <2>1 DEF ClientGone
    <2>3. QED
      BY <2>1, <2>2, Zenon DEF EofSource, EofOrder
  <1>28. QED
    BY <1>1, <1>2, <1>3, <1>4, <1>5, <1>6, <1>7, <1>8, <1>9, <1>10, <1>11, <1>12,
       <1>13, <1>14, <1>15, <1>16, <1>17, <1>18, <1>19, <1>20, <1>21, <1>22, <1>23, <1>24,
       <1>25, <1>26, <1>27
    DEF Next, ClientStep, DaemonStep, EngineStep, CommandStep

\* The rest of the data that is in the wire.  With the end of stdin in it that is all
\* there will be, except for the frame with which a client may have been torn off.
InWire(w) ==
  /\ Carries(wire, Len(received), w)
  /\ HasEof(wire) => w + 1 >= taken /\ (client # "torn" => w = taken)

\* The same when the command has seen the end: nothing is left.
EofCounted ==
  /\ command = "running" => \E w \in 0 .. taken : InWire(w)
  /\ eofSeen => /\ NoData(wire)
                /\ Len(received) + 1 >= taken /\ (client # "torn" => Len(received) = taken)

\* When the forwarder takes the end of stdin all data has gone before it, into the wire.
LEMMA CountedKept ==
  ASSUME LoopTypes, UpTypes, Ended, StdinConserved, EofSource, EofOrder, EofCounted, [Next]_vars
  PROVE  EofCounted'
<1>1. /\ taken \in Nat /\ taken <= Items /\ Items \in Nat /\ Len(received) \in Nat
      /\ received \in Seq(1 .. Items)
  <2>1. received \in Seq(1 .. Items) /\ taken \in 0 .. Items
    BY DEF UpTypes, LoopTypes
  <2>2. QED
    BY <2>1, ConstantFacts
<1>2. QED
  <2>1. CASE ReadStdin
    <3>1. /\ client = "select" /\ stdinOpen /\ taken' = taken + 1
          /\ UNCHANGED <<wire, received, eofSeen, command>>
      BY <2>1 DEF ReadStdin, remote
    <3>2. ~eofSeen /\ ~HasEof(wire)
      BY <3>1 DEF EofSource, ClientGone
    <3>3. \A w \in 0 .. taken : w \in 0 .. taken' /\ (InWire(w) => InWire(w)')
      BY <1>1, <3>1, <3>2 DEF InWire
    <3>4. QED
      BY <3>1, <3>2, <3>3, Zenon DEF EofCounted
  <2>2. CASE StdinEnds
    <3>1. /\ UNCHANGED <<taken, wire, received, eofSeen, command>>
          /\ client = "torn" => client' = "torn"
      BY <2>2 DEF StdinEnds, WriteFrame, loop, socket, daemon, engine, remote
    <3>2. QED
      BY <3>1, Zenon DEF EofCounted, InWire
  <2>3. ASSUME NEW x \in Signal, TakeSignal(x) PROVE EofCounted'
    <3>1. /\ UNCHANGED <<taken, wire, received, eofSeen, command>>
          /\ client = "torn" => client' = "torn"
      BY <2>3 DEF TakeSignal, WriteFrame, loop, socket, daemon, engine, remote
    <3>2. QED
      BY <3>1, Zenon DEF EofCounted, InWire
  <2>4. CASE PollFrame
    <3>1. /\ UNCHANGED <<taken, wire, received, eofSeen, command>>
          /\ client = "torn" => client' = "torn"
      BY <2>4 DEF PollFrame, loop, socket, daemon, engine, remote
    <3>2. QED
      BY <3>1, Zenon DEF EofCounted, InWire
  <2>5. CASE PollEnd
    <3>1. /\ UNCHANGED <<taken, wire, received, eofSeen, command>>
          /\ client = "torn" => client' = "torn"
      BY <2>5 DEF PollEnd, loop, socket, daemon, engine, remote
    <3>2. QED
      BY <3>1, Zenon DEF EofCounted, InWire
  <2>6. CASE WriteUp
    <3>1. /\ UNCHANGED <<taken, wire, received, eofSeen, command>>
          /\ client = "torn" => client' = "torn"
      BY <2>6 DEF WriteUp, loop, socket, daemon, engine, remote
    <3>2. QED
      BY <3>1, Zenon DEF EofCounted, InWire
  <2>7. CASE WriteBroken
    <3>1. /\ UNCHANGED <<taken, wire, received, eofSeen, command>>
          /\ client = "torn" => client' = "torn"
      BY <2>7 DEF WriteBroken, loop, socket, daemon, engine, remote
    <3>2. QED
      BY <3>1, Zenon DEF EofCounted, InWire
  <2>8. CASE ClientDies
    <3>1. /\ UNCHANGED <<taken, wire, received, eofSeen, command>>
          /\ client # "torn"
      BY <2>8 DEF ClientDies, ClientGone, socket, daemon, engine, remote
    <3>2. \A w : InWire(w) => InWire(w)'
      BY <3>1 DEF InWire
    <3>3. QED
      BY <3>1, <3>2, Zenon DEF EofCounted
  <2>9. CASE RouteFrame
    <3>1. /\ UNCHANGED <<taken, wire, received, eofSeen, command>>
          /\ client = "torn" => client' = "torn"
      BY <2>9 DEF RouteFrame, loop, socket, daemon, engine, remote
    <3>2. QED
      BY <3>1, Zenon DEF EofCounted, InWire
  <2>10. CASE ClientEnds
    <3>1. /\ UNCHANGED <<taken, wire, received, eofSeen, command>>
          /\ client = "torn" => client' = "torn"
      BY <2>10 DEF ClientEnds, ClientGone, loop, socket, daemon, engine, remote
    <3>2. QED
      BY <3>1, Zenon DEF EofCounted, InWire
  <2>11. CASE ClientResets
    <3>1. /\ UNCHANGED <<taken, wire, received, eofSeen, command>>
          /\ client = "torn" => client' = "torn"
      BY <2>11 DEF ClientResets, ClientGone, loop, socket, daemon, engine, remote
    <3>2. QED
      BY <3>1, Zenon DEF EofCounted, InWire
  <2>12. CASE AbandonExec
    <3>1. /\ UNCHANGED <<taken, wire, received, eofSeen, command>>
          /\ client = "torn" => client' = "torn"
      BY <2>12 DEF AbandonExec, DropEngine, loop, socket, daemon, engine, remote
    <3>2. QED
      BY <3>1, Zenon DEF EofCounted, InWire
  <2>13. CASE ForwardSignal
    <3>1. /\ UNCHANGED <<taken, wire, received, eofSeen, command>>
          /\ client = "torn" => client' = "torn"
      BY <2>13 DEF ForwardSignal, loop, socket, daemon, engine, remote
    <3>2. QED
      BY <3>1, Zenon DEF EofCounted, InWire
  <2>14. CASE EngineOutput
    <3>1. /\ UNCHANGED <<taken, wire, received, eofSeen, command>>
          /\ client = "torn" => client' = "torn"
      BY <2>14 DEF EngineOutput, ClientGone, loop, socket, daemon, engine, remote
    <3>2. QED
      BY <3>1, Zenon DEF EofCounted, InWire
  <2>15. CASE EngineExit
    <3>1. /\ UNCHANGED <<taken, wire, received, eofSeen, command>>
          /\ client = "torn" => client' = "torn"
      BY <2>15 DEF EngineExit, DropEngine, loop, socket, daemon, engine, remote
    <3>2. QED
      BY <3>1, Zenon DEF EofCounted, InWire
  <2>16. CASE WriteDown
    <3>1. /\ UNCHANGED <<taken, wire, received, eofSeen, command>>
          /\ client = "torn" => client' = "torn"
      BY <2>16 DEF WriteDown, ClientGone, loop, socket, daemon, engine, remote
    <3>2. QED
      BY <3>1, Zenon DEF EofCounted, InWire
  <2>17. CASE DropOutput
    <3>1. /\ UNCHANGED <<taken, wire, received, eofSeen, command>>
          /\ client = "torn" => client' = "torn"
      BY <2>17 DEF DropOutput, ClientGone, loop, socket, daemon, engine, remote
    <3>2. QED
      BY <3>1, Zenon DEF EofCounted, InWire
  <2>18. CASE CloseSocket
    <3>1. /\ UNCHANGED <<taken, wire, received, eofSeen, command>>
          /\ client = "torn" => client' = "torn"
      BY <2>18 DEF CloseSocket, loop, socket, daemon, engine, remote
    <3>2. QED
      BY <3>1, Zenon DEF EofCounted, InWire
  <2>19. CASE DaemonDies
    <3>1. /\ UNCHANGED <<taken, wire, received, eofSeen, command>>
          /\ client = "torn" => client' = "torn"
      BY <2>19 DEF DaemonDies, DropEngine, loop, socket, daemon, engine, remote
    <3>2. QED
      BY <3>1, Zenon DEF EofCounted, InWire
  <2>20. CASE SendSignal
    <3>1. /\ UNCHANGED <<taken, wire, received, eofSeen, command>>
          /\ client = "torn" => client' = "torn"
      BY <2>20 DEF SendSignal, loop, socket, daemon, engine, remote
    <3>2. QED
      BY <3>1, Zenon DEF EofCounted, InWire
  <2>21. CASE ForwardInBand
    <3> DEFINE f == Head(inband)
    <3>1. /\ inband # << >> /\ wire' = Append(wire, f)
          /\ UNCHANGED <<client, taken, received, eofSeen, command>>
      BY <2>21 DEF ForwardInBand, loop, socket
    <3>2. f \in Signal
      BY <3>1, QueueOps, ConstantFacts DEF UpTypes
    <3>3. Joined(wire, wire', f) /\ ~IsData(f) /\ f # Eof
      BY <3>1, <3>2, Movables, Kinds DEF Movable
    <3> HIDE DEF f
    <3>4. /\ HasEof(wire') <=> HasEof(wire)
          /\ NoData(wire') <=> NoData(wire)
      BY <3>3, JoinEof
    <3>5. \A w \in 0 .. taken : InWire(w) => InWire(w)'
      <4> SUFFICES ASSUME NEW w \in 0 .. taken, InWire(w) PROVE InWire(w)'
        OBVIOUS
      <4>1. Carries(wire', Len(received), w)
        BY <1>1, <3>3, JoinCarries DEF InWire
      <4>2. QED
        BY <3>1, <3>4, <4>1 DEF InWire
    <3>6. QED
      BY <3>1, <3>4, <3>5, Zenon DEF EofCounted
  <2>22. CASE ForwardStdin
    <3> DEFINE f == Head(lane)
    <3>1. /\ exec = "running" /\ lane # << >> /\ lane' = Tail(lane) /\ wire' = Append(wire, f)
          /\ fwdOpen /\ UNCHANGED <<client, taken, received, eofSeen, command>>
      BY <2>22 DEF ForwardStdin, loop, socket
    <3>2. Left(lane, lane') /\ f \in Upward
      BY <3>1, Movables DEF Movable
    <3>3. /\ EofAtEnd(lane) /\ f = Eof => NoData(lane)
          /\ HasEof(lane) <=> HasEof(lane') \/ f = Eof
      BY <3>2, LeaveEof
    <3>4. Joined(wire, wire', f)
      BY <3>1, <3>2, Movables DEF Movable
    <3> HIDE DEF f
    <3>5. HasEof(wire') <=> HasEof(wire) \/ f = Eof
      BY <3>4, JoinEof
    <3>6. ~eofSeen /\ ~HasEof(wire)
      BY <3>1 DEF EofOrder
    <3>7. ASSUME command = "running" PROVE \E w \in 0 .. taken : InWire(w)'
      <4>1. PICK w \in 0 .. taken, l \in 0 .. taken, u \in 0 .. taken, p \in 0 .. taken :
              Chain(w, l, u, p)
        BY <3>1, <3>7, WholeParts DEF Whole
      <4>2. /\ w \in Nat /\ l \in Nat /\ u \in Nat /\ p \in Nat
            /\ l <= Items /\ u <= Items /\ p <= Items
        BY <1>1, <4>1
      <4>3. CASE f = Eof
        <5>1. NoData(lane) /\ NoData(up) /\ NoData(pending)
          BY <3>3, <4>3 DEF EofOrder
        <5>2. w = l
          BY <4>1, <4>2, <5>1, CarriesNothing DEF Chain
        <5>3. l = u
          BY <4>1, <4>2, <5>1, CarriesNothing DEF Chain
        <5>4. u = p
          BY <4>1, <4>2, <5>1, CarriesNothing DEF Chain
        <5>5. Carries(wire, Len(received), p) /\ p + 1 >= taken /\ (client # "torn" => p = taken)
          BY <4>1, <5>2, <5>3, <5>4 DEF Chain
        <5>6. Carries(wire', Len(received), p)
          BY <1>1, <3>4, <4>2, <4>3, <5>5, Kinds, JoinCarries
        <5>7. InWire(p)'
          BY <3>1, <5>5, <5>6 DEF InWire
        <5>8. QED
          BY <4>1, <5>7
      <4>4. CASE f # Eof
        <5>1. ~HasEof(wire')
          BY <3>5, <3>6, <4>4
        <5>2. \E v \in 0 .. taken : Carries(wire', Len(received), v)
          <6>1. CASE IsData(f)
            <7>1. f = w + 1 /\ w + 1 <= l
              BY <3>2, <4>1, <4>2, <6>1, LeaveCarries DEF f, Chain
            <7>2. Carries(wire', Len(received), w + 1)
              BY <1>1, <3>4, <4>1, <4>2, <7>1, JoinCarries DEF Chain
            <7>3. w + 1 \in 0 .. taken
              BY <1>1, <4>1, <4>2, <7>1
            <7>4. QED
              BY <7>2, <7>3
          <6>2. CASE ~IsData(f)
            <7>1. Carries(wire', Len(received), w)
              BY <1>1, <3>4, <4>1, <4>2, <6>2, JoinCarries DEF Chain
            <7>2. QED
              BY <4>1, <7>1
          <6>3. QED
            BY <6>1, <6>2
        <5>3. QED
          BY <3>1, <5>1, <5>2 DEF InWire
      <4>5. QED
        BY <4>3, <4>4
    <3>8. QED
      BY <3>1, <3>6, <3>7, Zenon DEF EofCounted
  <2>23. CASE CommandReads
    <3> DEFINE f == Head(wire)
    <3>1. /\ command = "running" /\ wire # << >> /\ wire' = Tail(wire) /\ f \notin Signal
          /\ UNCHANGED <<client, taken, command>>
          /\ f = Eof => eofSeen' = TRUE /\ received' = received
          /\ f # Eof => eofSeen' = eofSeen /\ received' = Append(received, f)
      BY <2>23 DEF CommandReads, loop, socket, engine
    <3>2. Left(wire, wire') /\ f \in Upward
      BY <3>1, Movables DEF Movable
    <3>3. /\ HasEof(wire) <=> HasEof(wire') \/ f = Eof
          /\ EofAtEnd(wire) /\ f = Eof => NoData(wire)
      BY <3>2, LeaveEof
    <3>4. PICK w \in 0 .. taken : InWire(w)
      BY <3>1 DEF EofCounted
    <3>5. /\ IsData(f) => Len(received) + 1 <= w /\ Carries(wire', Len(received) + 1, w)
          /\ ~IsData(f) => Carries(wire', Len(received), w)
      BY <1>1, <3>2, <3>4, LeaveCarries DEF InWire
    <3> HIDE DEF f
    <3>6. IsData(f) <=> f # Eof
      BY <3>1, <3>2, Kinds
    <3>7. IsData(f) => Len(received') = Len(received) + 1
      BY <1>1, <3>1, <3>6, AppendProperties DEF IsData
    <3>8. InWire(w)'
      <4>1. Carries(wire', Len(received'), w)
        BY <3>1, <3>5, <3>6, <3>7
      <4>2. QED
        BY <3>1, <3>3, <3>4, <4>1 DEF InWire
    <3>9. ASSUME eofSeen'
          PROVE  /\ NoData(wire')
                 /\ Len(received') + 1 >= taken /\ (client # "torn" => Len(received') = taken)
      <4>1. CASE f = Eof
        <5>1. NoData(wire) /\ NoData(wire')
          BY <3>2, <3>3, <4>1, LeaveEof DEF EofOrder
        <5>2. Len(received) = w
          BY <1>1, <3>4, <5>1, CarriesNothing DEF InWire
        <5>3. QED
          BY <3>1, <3>3, <3>4, <4>1, <5>1, <5>2 DEF InWire
      <4>2. CASE f # Eof
        <5>1. eofSeen /\ IsData(f)
          BY <3>1, <3>6, <3>9, <4>2
        <5>2. ~NoData(wire)
          BY <3>2, <5>1, LeaveEof DEF f
        <5>3. QED
          BY <5>1, <5>2 DEF EofCounted
      <4>3. QED
        BY <4>1, <4>2
    <3>10. QED
      BY <3>1, <3>8, <3>9, Zenon DEF EofCounted
  <2>24. CASE ServeTakesSignal
    <3> DEFINE f == Head(wire)
    <3>1. /\ wire # << >> /\ wire' = Tail(wire) /\ f \in Signal
          /\ UNCHANGED <<client, taken, received, eofSeen, command>>
      BY <2>24 DEF ServeTakesSignal, loop, socket, engine
    <3>2. Left(wire, wire') /\ ~IsData(f)
      BY <3>1, Movables, Kinds DEF Movable
    <3>3. /\ HasEof(wire') => HasEof(wire)
          /\ NoData(wire) => NoData(wire')
      BY <3>2, LeaveEof
    <3>4. \A w \in 0 .. taken : InWire(w) => InWire(w)'
      <4> SUFFICES ASSUME NEW w \in 0 .. taken, InWire(w) PROVE InWire(w)'
        OBVIOUS
      <4>1. Carries(wire', Len(received), w)
        BY <1>1, <3>2, LeaveCarries DEF InWire
      <4>2. QED
        BY <3>1, <3>3, <4>1 DEF InWire
    <3>5. QED
      BY <3>1, <3>3, <3>4, Zenon DEF EofCounted
  <2>25. CASE CommandWrites
    <3>1. /\ UNCHANGED <<taken, wire, received, eofSeen, command>>
          /\ client = "torn" => client' = "torn"
      BY <2>25 DEF CommandWrites, loop, socket, daemon, engine, remote
    <3>2. QED
      BY <3>1, Zenon DEF EofCounted, InWire
  <2>26. CASE CommandExits
    <3>1. /\ command' = "exited" /\ wire' = << >>
          /\ UNCHANGED <<client, taken, received, eofSeen>>
      BY <2>26 DEF CommandExits, loop, socket, engine
    <3>2. command' # "running" /\ NoData(wire')
      BY <3>1, NothingInEmpty
    <3>3. QED
      BY <3>1, <3>2, Zenon DEF EofCounted
  <2>27. CASE UNCHANGED vars
    <3>1. /\ UNCHANGED <<taken, wire, received, eofSeen, command>>
          /\ client = "torn" => client' = "torn"
      BY <2>27 DEF vars, loop, socket, daemon, engine, remote
    <3>2. QED
      BY <3>1, Zenon DEF EofCounted, InWire
  <2>28. QED
    BY <2>1, <2>2, <2>3, <2>4, <2>5, <2>6, <2>7, <2>8, <2>9, <2>10, <2>11, <2>12,
       <2>13, <2>14, <2>15, <2>16, <2>17, <2>18, <2>19, <2>20, <2>21, <2>22, <2>23, <2>24,
       <2>25, <2>26, <2>27
    DEF Next, ClientStep, DaemonStep, EngineStep, CommandStep

(***************************************************************************)
(* The invariant of the data towards the command                           *)
(***************************************************************************)
StdinInv == Ended /\ StdinConserved /\ EofSource /\ EofOrder /\ EofCounted

\* At the start there is no data and no end of it.
LEMMA StdinInit == Init => StdinInv
<1> SUFFICES ASSUME Init PROVE StdinInv
  OBVIOUS
<1>1. /\ client = "select" /\ taken = 0 /\ stdinOpen = TRUE /\ pending = << >>
      /\ up = << >> /\ closed = FALSE /\ lane = << >> /\ exec = "running" /\ wire = << >>
      /\ received = << >> /\ eofSeen = FALSE
  BY DEF Init
<1>2. Ended
  BY <1>1 DEF Ended
<1>3. Chain(0, 0, 0, 0) /\ 0 \in 0 .. taken
  BY <1>1, NothingInEmpty DEF Chain
<1>4. \A i \in DOMAIN received : received[i] = i
  BY <1>1
<1>5. StdinConserved
  BY <1>3, <1>4, WholeParts DEF Whole
<1>6. EofSource /\ EofOrder
  BY <1>1, NothingInEmpty DEF EofSource, EofOrder
<1>7. EofCounted
  BY <1>1, <1>3, NothingInEmpty DEF EofCounted, InWire
<1>8. QED
  BY <1>2, <1>5, <1>6, <1>7 DEF StdinInv

\* The parts of the invariant, put together.
LEMMA StdinKept == TypeOK /\ StdinInv /\ [Next]_vars => StdinInv'
  BY TypeParts, EndedKept, ConservedKept, EofKept, CountedKept DEF StdinInv

\* The invariant holds in every reachable state.
LEMMA StdinInvariant == Spec => []StdinInv
<1>1. TypeOK /\ RoomForExit /\ StdinInv /\ [Next]_vars => StdinInv'
  BY StdinKept
<1>2. QED
  BY <1>1, StdinInit, TypesInvariant, PTL DEF Spec

\* While the execution runs, the frames the client has read from its stdin are what
\* the command has received and what lies in the queues on the way, each once and in
\* order, whatever the capacities are and wherever a writer is parked.
THEOREM NothingLostNorDoubled == Spec => []StdinConserved
<1>1. StdinInv => StdinConserved
  BY DEF StdinInv
<1>2. QED
  BY <1>1, StdinInvariant, PTL

\* The command sees the end of its stdin behind all of the data, and never before the
\* client has met the end of its own, unless the client is gone.
THEOREM EofIsLast == Spec => []EofComesLast
<1>1. StdinInv => EofComesLast
  BY DEF StdinInv, EofSource, EofCounted, EofComesLast
<1>2. QED
  BY <1>1, StdinInvariant, PTL

(***************************************************************************)
(* The output in order                                                     *)
(***************************************************************************)
\* The number of a frame for the client when e frames have been written, and whether
\* the command, in state c, has given rise to it.  The Exit frame follows them all.
Num(f, e) == IF f = Exit THEN e + 1 ELSE f
Real(f, e, c) == IF f = Exit THEN c = "exited" ELSE f \in 1 .. e
Total(e, c) == IF c = "exited" THEN e + 1 ELSE e

\* A queue of the frames m + 1 to n.
Numbered(q, m, n, e, c) ==
  /\ Len(q) = n - m
  /\ \A i \in 1 .. Len(q) : Real(q[i], e, c) /\ Num(q[i], e) = m + i

\* One piece follows the other; a queue of pieces is ordered.
Follows(x, y, e) ==
  \/ x.part < Parts /\ y.part = x.part + 1 /\ Num(y.frame, e) = Num(x.frame, e)
  \/ x.part = Parts /\ y.part = 1 /\ Num(y.frame, e) = Num(x.frame, e) + 1

Ordered(q, e, c) ==
  /\ \A i \in 1 .. Len(q) : Real(q[i].frame, e, c)
  /\ \A i \in 1 .. Len(q) - 1 : Follows(q[i], q[i + 1], e)

\* The next frame joins a queue of numbered frames.
LEMMA JoinNumbered ==
  ASSUME NEW q, NEW r, NEW x, Joined(q, r, x), NEW m \in Nat, NEW n \in Nat, NEW e, NEW c,
         Numbered(q, m, n, e, c), Real(x, e, c), Num(x, e) = n + 1
  PROVE  Numbered(r, m, n + 1, e, c)
  BY DEF Numbered, Joined

\* The first frame of the queue is the one after m.
LEMMA LeaveNumbered ==
  ASSUME NEW q, NEW r, Left(q, r), NEW m \in Nat, NEW n \in Nat, NEW e, NEW c,
         Numbered(q, m, n, e, c)
  PROVE  /\ Real(Head(q), e, c) /\ Num(Head(q), e) = m + 1 /\ m + 1 <= n
         /\ Numbered(r, m + 1, n, e, c)
<1>1. Real(Head(q), e, c) /\ Num(Head(q), e) = m + 1 /\ m + 1 <= n
  BY DEF Numbered, Left
<1>2. ASSUME NEW i \in 1 .. Len(r)
      PROVE  Real(r[i], e, c) /\ Num(r[i], e) = m + 1 + i
  <2>1. i + 1 \in 1 .. Len(q) /\ r[i] = q[i + 1] /\ m + (i + 1) = m + 1 + i
    BY DEF Left
  <2>2. QED
    BY <2>1 DEF Numbered
<1>3. Len(r) = n - (m + 1)
  BY DEF Left, Numbered
<1>4. QED
  BY <1>1, <1>2, <1>3 DEF Numbered

\* A piece joins the socket behind the one it follows.
LEMMA JoinOrdered ==
  ASSUME NEW q, NEW r, NEW x, Joined(q, r, x), NEW e, NEW c, Ordered(q, e, c),
         Real(x.frame, e, c), Len(q) > 0 => Follows(q[Len(q)], x, e)
  PROVE  Ordered(r, e, c)
<1>1. \A i \in 1 .. Len(r) : Real(r[i].frame, e, c)
  BY DEF Ordered, Joined
<1>2. ASSUME NEW i \in 1 .. Len(r) - 1 PROVE Follows(r[i], r[i + 1], e)
  <2>1. CASE i = Len(q)
    BY <2>1 DEF Joined
  <2>2. CASE i # Len(q)
    <3>1. i \in 1 .. Len(q) - 1 /\ r[i] = q[i] /\ r[i + 1] = q[i + 1]
      BY <2>2 DEF Joined
    <3>2. QED
      BY <3>1 DEF Ordered
  <2>3. QED
    BY <2>1, <2>2
<1>3. QED
  BY <1>1, <1>2 DEF Ordered

\* The client takes the first piece, and the next one follows it.
LEMMA LeaveOrdered ==
  ASSUME NEW q, NEW r, Left(q, r), NEW e, NEW c, Ordered(q, e, c)
  PROVE  /\ Ordered(r, e, c) /\ Real(q[1].frame, e, c)
         /\ Len(r) > 0 => Follows(q[1], r[1], e) /\ r[Len(r)] = q[Len(q)]
<1>1. \A i \in 1 .. Len(r) : i + 1 \in 1 .. Len(q) /\ r[i] = q[i + 1]
  BY DEF Left
<1>2. \A i \in 1 .. Len(r) : Real(r[i].frame, e, c)
  BY <1>1 DEF Ordered
<1>3. ASSUME NEW i \in 1 .. Len(r) - 1 PROVE Follows(r[i], r[i + 1], e)
  <2>1. i + 1 \in 1 .. Len(q) - 1 /\ r[i] = q[i + 1] /\ r[i + 1] = q[(i + 1) + 1]
    BY DEF Left
  <2>2. QED
    BY <2>1 DEF Ordered
<1>4. Real(q[1].frame, e, c)
  BY DEF Ordered, Left
<1>5. ASSUME Len(r) > 0 PROVE Follows(q[1], r[1], e) /\ r[Len(r)] = q[Len(q)]
  <2>1. 1 \in 1 .. Len(q) - 1 /\ r[1] = q[1 + 1] /\ r[Len(r)] = q[Len(q)]
    BY <1>5 DEF Left
  <2>2. QED
    BY <2>1 DEF Ordered
<1>6. QED
  BY <1>2, <1>3, <1>4, <1>5 DEF Ordered

\* What the command does keeps the number of the frames there are.
Grows(e, c, e1, c1) == (e1 = e /\ c1 = c) \/ (c = "running" /\ e1 \in {e, e + 1})

\* A frame keeps its number when the command writes another or exits.
LEMMA NumbersKeep ==
  ASSUME NEW e \in Nat, NEW c, NEW e1 \in Nat, NEW c1, Grows(e, c, e1, c1)
  PROVE  /\ \A f : Real(f, e, c) => Real(f, e1, c1) /\ Num(f, e1) = Num(f, e)
         /\ \A q, m, n : Numbered(q, m, n, e, c) => Numbered(q, m, n, e1, c1)
         /\ \A q : Ordered(q, e, c) => Ordered(q, e1, c1)
<1>1. ASSUME NEW f, Real(f, e, c) PROVE Real(f, e1, c1) /\ Num(f, e1) = Num(f, e)
  BY <1>1 DEF Grows, Real, Num
<1>2. ASSUME NEW q, NEW m, NEW n, Numbered(q, m, n, e, c) PROVE Numbered(q, m, n, e1, c1)
  BY <1>1, <1>2 DEF Numbered
<1>3. ASSUME NEW q, Ordered(q, e, c) PROVE Ordered(q, e1, c1)
  <2>1. \A i \in 1 .. Len(q) : Real(q[i].frame, e, c)
    BY <1>3 DEF Ordered
  <2>2. \A i \in 1 .. Len(q) : Real(q[i].frame, e1, c1) /\ Num(q[i].frame, e1) = Num(q[i].frame, e)
    BY <1>1, <2>1
  <2>3. ASSUME NEW i \in 1 .. Len(q) - 1 PROVE Follows(q[i], q[i + 1], e1)
    <3>1. i \in 1 .. Len(q) /\ i + 1 \in 1 .. Len(q)
      OBVIOUS
    <3>2. Follows(q[i], q[i + 1], e)
      BY <1>3 DEF Ordered
    <3>3. Num(q[i].frame, e1) = Num(q[i].frame, e) /\ Num(q[i + 1].frame, e1) = Num(q[i + 1].frame, e)
      BY <2>2, <3>1
    <3>4. QED
      BY <3>2, <3>3 DEF Follows
  <2>4. QED
    BY <2>2, <2>3 DEF Ordered
<1>4. QED
  BY <1>1, <1>2, <1>3

\* What the queues towards the client go through.
LEMMA DownMovables ==
  ASSUME LoopTypes, DownTypes
  PROVE  /\ \A x \in Downward : Joined(out, Append(out, x), x) /\ Joined(back, Append(back, x), x)
         /\ \A x \in Pieces : Joined(down, Append(down, x), x)
         /\ out # << >> => Left(out, Tail(out)) /\ Head(out) \in Downward
         /\ back # << >> => Left(back, Tail(back)) /\ Head(back) \in Downward
         /\ down # << >> => Left(down, Tail(down)) /\ Head(down) \in Pieces
         /\ Len(got) \in Nat /\ Len(got) <= Parts - 1 /\ Len(down) \in Nat /\ Len(out) \in Nat
         /\ \A i \in 1 .. Len(down) : down[i].part \in 1 .. Parts
<1>1. out \in Seq(Downward) /\ back \in Seq(Downward) /\ down \in Seq(Pieces)
      /\ got \in Seq(Pieces) /\ Len(got) <= Parts - 1
  BY DEF DownTypes, IsQueue
<1>2. \A i \in 1 .. Len(down) : down[i] \in Pieces
  BY <1>1, ElementOfSeq
<1>3. \A x \in Pieces : x.part \in 1 .. Parts
  BY DEF Pieces
<1>4. /\ \A x \in Downward : Joined(out, Append(out, x), x)
      /\ out # << >> => Left(out, Tail(out)) /\ Head(out) \in Downward
  BY <1>1, Ends
<1>5. /\ \A x \in Downward : Joined(back, Append(back, x), x)
      /\ back # << >> => Left(back, Tail(back)) /\ Head(back) \in Downward
  BY <1>1, Ends
<1>6. /\ \A x \in Pieces : Joined(down, Append(down, x), x)
      /\ down # << >> => Left(down, Tail(down)) /\ Head(down) \in Pieces
  BY <1>1, Ends
<1>7. Len(got) \in Nat /\ Len(down) \in Nat /\ Len(out) \in Nat
  BY <1>1
<1>8. QED
  BY <1>1, <1>2, <1>3, <1>4, <1>5, <1>6, <1>7

\* The daemon holds the frames a + 1 to b, and what lies behind it the rest.
Backlog(a, b) ==
  /\ a <= b /\ b <= Total(emitted, command)
  /\ exec = "running" => Numbered(back, b, Total(emitted, command), emitted, command)
  /\ exec # "dead" => Numbered(out, a, b, emitted, command)

\* The last piece x in the socket, with s parts of the frame a + 1 written.
Written(x, a, s, e) ==
  \/ s > 0 /\ x.part = s /\ Num(x.frame, e) = a + 1
  \/ s = 0 /\ x.part = Parts /\ Num(x.frame, e) = a

InSocket(a) ==
  /\ Ordered(down, emitted, command)
  /\ exec # "dead" => /\ sent > 0 => Len(out) > 0
                      /\ Len(down) > 0 => Written(down[Len(down)], a, sent, emitted)

\* The next piece is the one the client is after.  A frame that it has read a part of has
\* not been shown.
NextIs(a) ==
  /\ Len(down) > 0 => down[1].part = Len(got) + 1 /\ Num(down[1].frame, emitted) = shown + 1
  /\ Len(down) = 0 /\ exec # "dead" => sent = Len(got) /\ a = shown
  /\ Len(got) > 0 => shown < Total(emitted, command)

Stream(a, b) == Backlog(a, b) /\ InSocket(a) /\ NextIs(a)

Streams == \E a, b \in 0 .. Items + 1 : Stream(a, b)

\* With the daemon goes what it holds.
DeadHasNothing == exec = "dead" => out = << >>

ReportsExit == place = "kept" /\ client = "reported" => command = "exited"

OutputInv ==
  /\ DeadHasNothing
  /\ OutputIsPrefix /\ ReportsExit
  /\ ~ClientGone /\ place = "kept" => Streams

\* A daemon that has been killed sends nothing more.
LEMMA DeadKept == DeadHasNothing /\ [Next]_vars => DeadHasNothing'
  <1> SUFFICES ASSUME DeadHasNothing, [Next]_vars PROVE DeadHasNothing'
    OBVIOUS
  <1>1. CASE ReadStdin
    BY <1>1
       DEF DeadHasNothing, ReadStdin, WriteFrame, loop, socket, daemon, engine, remote
  <1>2. CASE StdinEnds
    BY <1>2
       DEF DeadHasNothing, StdinEnds, WriteFrame, loop, socket, daemon, engine, remote
  <1>3. ASSUME NEW x \in Signal, TakeSignal(x) PROVE DeadHasNothing'
    BY <1>3
       DEF DeadHasNothing, TakeSignal, WriteFrame, loop, socket, daemon, engine, remote
  <1>4. CASE PollFrame
    BY <1>4 DEF DeadHasNothing, PollFrame, loop, socket, daemon, engine, remote
  <1>5. CASE PollEnd
    BY <1>5 DEF DeadHasNothing, PollEnd, loop, socket, daemon, engine, remote
  <1>6. CASE WriteUp
    BY <1>6 DEF DeadHasNothing, WriteUp, loop, socket, daemon, engine, remote
  <1>7. CASE WriteBroken
    BY <1>7 DEF DeadHasNothing, WriteBroken, loop, socket, daemon, engine, remote
  <1>8. CASE ClientDies
    BY <1>8
       DEF DeadHasNothing, ClientDies, ClientGone, loop, socket, daemon, engine, remote
  <1>9. CASE RouteFrame
    BY <1>9 DEF DeadHasNothing, RouteFrame, loop, socket, daemon, engine, remote
  <1>10. CASE ClientEnds
    BY <1>10
       DEF DeadHasNothing, ClientEnds, ClientGone, loop, socket, daemon, engine, remote
  <1>11. CASE ClientResets
    BY <1>11
       DEF DeadHasNothing, ClientResets, ClientGone, loop, socket, daemon, engine, remote
  <1>12. CASE AbandonExec
    BY <1>12
       DEF DeadHasNothing, AbandonExec, DropEngine, loop, socket, daemon, engine, remote
  <1>13. CASE ForwardSignal
    BY <1>13 DEF DeadHasNothing, ForwardSignal, loop, socket, daemon, engine, remote
  <1>14. CASE EngineOutput
    BY <1>14
       DEF DeadHasNothing, EngineOutput, ClientGone, loop, socket, daemon, engine, remote
  <1>15. CASE EngineExit
    BY <1>15
       DEF DeadHasNothing, EngineExit, DropEngine, loop, socket, daemon, engine, remote
  <1>16. CASE WriteDown
    BY <1>16
       DEF DeadHasNothing, WriteDown, ClientGone, loop, socket, daemon, engine, remote
  <1>17. CASE DropOutput
    BY <1>17
       DEF DeadHasNothing, DropOutput, ClientGone, loop, socket, daemon, engine, remote
  <1>18. CASE CloseSocket
    BY <1>18 DEF DeadHasNothing, CloseSocket, loop, socket, daemon, engine, remote
  <1>19. CASE DaemonDies
    BY <1>19
       DEF DeadHasNothing, DaemonDies, DropEngine, loop, socket, daemon, engine, remote
  <1>20. CASE SendSignal
    BY <1>20 DEF DeadHasNothing, SendSignal, loop, socket, daemon, engine, remote
  <1>21. CASE ForwardInBand
    BY <1>21 DEF DeadHasNothing, ForwardInBand, loop, socket, daemon, engine, remote
  <1>22. CASE ForwardStdin
    BY <1>22 DEF DeadHasNothing, ForwardStdin, loop, socket, daemon, engine, remote
  <1>23. CASE CommandReads
    BY <1>23 DEF DeadHasNothing, CommandReads, loop, socket, daemon, engine, remote
  <1>24. CASE ServeTakesSignal
    BY <1>24 DEF DeadHasNothing, ServeTakesSignal, loop, socket, daemon, engine, remote
  <1>25. CASE CommandWrites
    BY <1>25 DEF DeadHasNothing, CommandWrites, loop, socket, daemon, engine, remote
  <1>26. CASE CommandExits
    BY <1>26 DEF DeadHasNothing, CommandExits, loop, socket, daemon, engine, remote
  <1>27. CASE UNCHANGED vars
    BY <1>27 DEF DeadHasNothing, vars, loop, socket, daemon, engine, remote
  <1>28. QED
    BY <1>1, <1>2, <1>3, <1>4, <1>5, <1>6, <1>7, <1>8, <1>9, <1>10, <1>11, <1>12,
       <1>13, <1>14, <1>15, <1>16, <1>17, <1>18, <1>19, <1>20, <1>21, <1>22, <1>23, <1>24,
       <1>25, <1>26, <1>27
    DEF Next, ClientStep, DaemonStep, EngineStep, CommandStep

\* A client that has gone stays so, and what it has lost of a frame it does not get back.
LEMMA NoWayBack ==
  ASSUME [Next]_vars
  PROVE  (ClientGone => ClientGone') /\ (place' = "kept" => place = "kept")
<1> DEFINE Goal == (ClientGone => ClientGone') /\ (place' = "kept" => place = "kept")
<1> SUFFICES Goal
  OBVIOUS
<1>1. CASE ReadStdin
  BY <1>1 DEF ClientGone, ReadStdin, WriteFrame
<1>2. CASE StdinEnds
  BY <1>2 DEF ClientGone, StdinEnds, WriteFrame
<1>3. ASSUME NEW x \in Signal, TakeSignal(x) PROVE Goal
  BY <1>3 DEF ClientGone, TakeSignal, WriteFrame
<1>4. CASE PollFrame
  BY <1>4 DEF ClientGone, PollFrame, TakePart, Misread
<1>5. CASE PollEnd
  BY <1>5 DEF ClientGone, PollEnd
<1>6. CASE WriteUp
  BY <1>6 DEF ClientGone, WriteUp
<1>7. CASE WriteBroken
  BY <1>7 DEF ClientGone, WriteBroken
<1>8. CASE ClientDies
  BY <1>8 DEF ClientGone, ClientDies
<1>9. CASE RouteFrame
  BY <1>9 DEF ClientGone, RouteFrame, loop
<1>10. CASE ClientEnds
  BY <1>10 DEF ClientGone, ClientEnds, loop
<1>11. CASE ClientResets
  BY <1>11 DEF ClientGone, ClientResets, loop
<1>12. CASE AbandonExec
  BY <1>12 DEF ClientGone, AbandonExec, loop
<1>13. CASE ForwardSignal
  BY <1>13 DEF ClientGone, ForwardSignal, loop
<1>14. CASE EngineOutput
  BY <1>14 DEF ClientGone, EngineOutput, loop
<1>15. CASE EngineExit
  BY <1>15 DEF ClientGone, EngineExit, loop
<1>16. CASE WriteDown
  BY <1>16 DEF ClientGone, WriteDown, loop
<1>17. CASE DropOutput
  BY <1>17 DEF ClientGone, DropOutput, loop
<1>18. CASE CloseSocket
  BY <1>18 DEF ClientGone, CloseSocket, loop
<1>19. CASE DaemonDies
  BY <1>19 DEF ClientGone, DaemonDies, loop
<1>20. CASE SendSignal
  BY <1>20 DEF ClientGone, SendSignal, loop
<1>21. CASE ForwardInBand
  BY <1>21 DEF ClientGone, ForwardInBand, loop
<1>22. CASE ForwardStdin
  BY <1>22 DEF ClientGone, ForwardStdin, loop
<1>23. CASE CommandReads
  BY <1>23 DEF ClientGone, CommandReads, loop
<1>24. CASE ServeTakesSignal
  BY <1>24 DEF ClientGone, ServeTakesSignal, loop
<1>25. CASE CommandWrites
  BY <1>25 DEF ClientGone, CommandWrites, loop
<1>26. CASE CommandExits
  BY <1>26 DEF ClientGone, CommandExits, loop
<1>27. CASE UNCHANGED vars
  BY <1>27 DEF ClientGone, vars, loop
<1>28. QED
  BY <1>1, <1>2, <1>3, <1>4, <1>5, <1>6, <1>7, <1>8, <1>9, <1>10, <1>11, <1>12,
     <1>13, <1>14, <1>15, <1>16, <1>17, <1>18, <1>19, <1>20, <1>21, <1>22, <1>23, <1>24,
     <1>25, <1>26, <1>27
  DEF Next, ClientStep, DaemonStep, EngineStep, CommandStep

\* As long as nothing is lost, the piece that arrives is the next one of the output.
LEMMA ArrivesNext ==
  ASSUME LoopTypes, DownTypes, down # << >>, NEW a, NEW b, Stream(a, b)
  PROVE  /\ Head(down).part = Len(got) + 1 /\ Num(Head(down).frame, emitted) = shown + 1
         /\ Real(Head(down).frame, emitted, command)
<1>1. Left(down, Tail(down)) /\ Head(down) = down[1] /\ Len(down) > 0
  BY DownMovables DEF Left
<1>2. Real(down[1].frame, emitted, command)
  BY <1>1, LeaveOrdered DEF Stream, InSocket
<1>3. QED
  BY <1>1, <1>2 DEF Stream, NextIs

\* There is something left to show of a frame that has been read in part.
LEMMA HalfReadIsReal ==
  ASSUME OutputInv, LoopTypes, DownTypes, client = "select", place = "kept", got # << >>
  PROVE  shown < emitted \/ command = "exited"
<1>1. PICK a \in 0 .. Items + 1, b \in 0 .. Items + 1 : Stream(a, b)
  BY DEF OutputInv, ClientGone, Streams
<1>2. Len(got) > 0
  BY DEF DownTypes, IsQueue
<1>3. shown < Total(emitted, command)
  BY <1>1, <1>2 DEF Stream, NextIs
<1>4. QED
  BY <1>3 DEF Total

\* What a read of the client can do then: nothing to see, one more frame, or the report.
LEMMA ShowsNext ==
  ASSUME LoopTypes, DownTypes, OutputInv, PollFrame, place = "kept"
  PROVE  /\ client = "select" /\ UNCHANGED <<emitted, command, place>>
         /\ \/ client' = "select" /\ shown' = shown
            \/ client' = "select" /\ shown < emitted /\ shown' = shown + 1
            \/ client' = "reported" /\ command = "exited" /\ shown = emitted /\ shown' = shown
<1> DEFINE p == Head(down)
<1>1. client = "select" /\ down # << >> /\ UNCHANGED <<emitted, command>>
  BY DEF PollFrame, remote
<1>2. shown \in Nat /\ emitted \in Nat
  BY ConstantFacts DEF LoopTypes, Junk
<1>3. PICK a \in 0 .. Items + 1, b \in 0 .. Items + 1 : Stream(a, b)
  BY <1>1 DEF OutputInv, ClientGone, Streams
<1>4. /\ p.part = Len(got) + 1 /\ Num(p.frame, emitted) = shown + 1
      /\ Real(p.frame, emitted, command)
  BY <1>1, <1>3, ArrivesNext
<1>5. /\ UNCHANGED place
      /\ p.part < Parts => client' = client /\ shown' = shown
      /\ ~(p.part < Parts) /\ p.frame = Exit => client' = "reported" /\ shown' = shown
      /\ ~(p.part < Parts) /\ p.frame # Exit /\ p.frame = shown + 1
           => client' = client /\ shown' = p.frame
  BY <1>4 DEF PollFrame, InPlace, TakePart
<1>6. CASE ~(p.part < Parts) /\ p.frame = Exit
  <2>1. shown = emitted /\ command = "exited"
    BY <1>2, <1>4, <1>6 DEF Num, Real
  <2>2. QED
    BY <1>1, <1>5, <1>6, <2>1
<1>7. CASE ~(p.part < Parts) /\ p.frame # Exit
  <2>1. p.frame = shown + 1 /\ shown < emitted
    BY <1>2, <1>4, <1>7 DEF Num, Real
  <2>2. QED
    BY <1>1, <1>5, <1>7, <2>1
<1>8. QED
  BY <1>1, <1>5, <1>6, <1>7

\* What the client shows grows by the next frame, and it reports when there is none.
LEMMA ShownKept ==
  ASSUME LoopTypes, DownTypes, OutputInv, [Next]_vars
  PROVE  OutputIsPrefix' /\ ReportsExit'
<1>1. /\ shown \in Nat /\ emitted \in Nat /\ OutputIsPrefix /\ ReportsExit
      /\ place' = "kept" => place = "kept"
  BY ConstantFacts, NoWayBack DEF LoopTypes, OutputInv, Junk
<1>2. QED
  <2>1. CASE ReadStdin
    <3>1. /\ UNCHANGED <<shown, emitted, command>>
          /\ client' = "reported" => client = "reported"
      BY <2>1 DEF ReadStdin, WriteFrame, loop, socket, daemon, engine, remote
    <3>2. QED
      BY <1>1, <3>1 DEF OutputIsPrefix, ReportsExit
  <2>2. CASE StdinEnds
    <3>1. /\ UNCHANGED <<shown, emitted, command>>
          /\ client' = "reported" => client = "reported"
      BY <2>2 DEF StdinEnds, WriteFrame, loop, socket, daemon, engine, remote
    <3>2. QED
      BY <1>1, <3>1 DEF OutputIsPrefix, ReportsExit
  <2>3. ASSUME NEW x \in Signal, TakeSignal(x)
        PROVE  OutputIsPrefix' /\ ReportsExit'
    <3>1. /\ UNCHANGED <<shown, emitted, command>>
          /\ client' = "reported" => client = "reported"
      BY <2>3 DEF TakeSignal, WriteFrame, loop, socket, daemon, engine, remote
    <3>2. QED
      BY <1>1, <3>1 DEF OutputIsPrefix, ReportsExit
  <2>4. CASE PollFrame
    BY <1>1, <2>4, ShowsNext DEF OutputIsPrefix, ReportsExit
  <2>5. CASE PollEnd
    <3>1. UNCHANGED <<shown, emitted, command>> /\ client' # "reported"
      BY <2>5 DEF PollEnd, socket, daemon, engine, remote
    <3>2. QED
      BY <1>1, <3>1 DEF OutputIsPrefix, ReportsExit
  <2>6. CASE WriteUp
    <3>1. UNCHANGED <<shown, emitted, command>> /\ client' # "reported"
      BY <2>6 DEF WriteUp, socket, daemon, engine, remote
    <3>2. QED
      BY <1>1, <3>1 DEF OutputIsPrefix, ReportsExit
  <2>7. CASE WriteBroken
    <3>1. UNCHANGED <<shown, emitted, command>> /\ client' # "reported"
      BY <2>7 DEF WriteBroken, socket, daemon, engine, remote
    <3>2. QED
      BY <1>1, <3>1 DEF OutputIsPrefix, ReportsExit
  <2>8. CASE ClientDies
    <3>1. UNCHANGED <<shown, emitted, command>> /\ client' # "reported"
      BY <2>8 DEF ClientDies, ClientGone, socket, daemon, engine, remote
    <3>2. QED
      BY <1>1, <3>1 DEF OutputIsPrefix, ReportsExit
  <2>9. CASE RouteFrame
    <3>1. /\ UNCHANGED <<shown, emitted, command>>
          /\ client' = "reported" => client = "reported"
      BY <2>9 DEF RouteFrame, loop, socket, daemon, engine, remote
    <3>2. QED
      BY <1>1, <3>1 DEF OutputIsPrefix, ReportsExit
  <2>10. CASE ClientEnds
    <3>1. /\ UNCHANGED <<shown, emitted, command>>
          /\ client' = "reported" => client = "reported"
      BY <2>10 DEF ClientEnds, ClientGone, loop, socket, daemon, engine, remote
    <3>2. QED
      BY <1>1, <3>1 DEF OutputIsPrefix, ReportsExit
  <2>11. CASE ClientResets
    <3>1. /\ UNCHANGED <<shown, emitted, command>>
          /\ client' = "reported" => client = "reported"
      BY <2>11 DEF ClientResets, ClientGone, loop, socket, daemon, engine, remote
    <3>2. QED
      BY <1>1, <3>1 DEF OutputIsPrefix, ReportsExit
  <2>12. CASE AbandonExec
    <3>1. /\ UNCHANGED <<shown, emitted, command>>
          /\ client' = "reported" => client = "reported"
      BY <2>12 DEF AbandonExec, DropEngine, loop, socket, daemon, engine, remote
    <3>2. QED
      BY <1>1, <3>1 DEF OutputIsPrefix, ReportsExit
  <2>13. CASE ForwardSignal
    <3>1. /\ UNCHANGED <<shown, emitted, command>>
          /\ client' = "reported" => client = "reported"
      BY <2>13 DEF ForwardSignal, loop, socket, daemon, engine, remote
    <3>2. QED
      BY <1>1, <3>1 DEF OutputIsPrefix, ReportsExit
  <2>14. CASE EngineOutput
    <3>1. /\ UNCHANGED <<shown, emitted, command>>
          /\ client' = "reported" => client = "reported"
      BY <2>14 DEF EngineOutput, ClientGone, loop, socket, daemon, engine, remote
    <3>2. QED
      BY <1>1, <3>1 DEF OutputIsPrefix, ReportsExit
  <2>15. CASE EngineExit
    <3>1. /\ UNCHANGED <<shown, emitted, command>>
          /\ client' = "reported" => client = "reported"
      BY <2>15 DEF EngineExit, DropEngine, loop, socket, daemon, engine, remote
    <3>2. QED
      BY <1>1, <3>1 DEF OutputIsPrefix, ReportsExit
  <2>16. CASE WriteDown
    <3>1. /\ UNCHANGED <<shown, emitted, command>>
          /\ client' = "reported" => client = "reported"
      BY <2>16 DEF WriteDown, ClientGone, loop, socket, daemon, engine, remote
    <3>2. QED
      BY <1>1, <3>1 DEF OutputIsPrefix, ReportsExit
  <2>17. CASE DropOutput
    <3>1. /\ UNCHANGED <<shown, emitted, command>>
          /\ client' = "reported" => client = "reported"
      BY <2>17 DEF DropOutput, ClientGone, loop, socket, daemon, engine, remote
    <3>2. QED
      BY <1>1, <3>1 DEF OutputIsPrefix, ReportsExit
  <2>18. CASE CloseSocket
    <3>1. /\ UNCHANGED <<shown, emitted, command>>
          /\ client' = "reported" => client = "reported"
      BY <2>18 DEF CloseSocket, loop, socket, daemon, engine, remote
    <3>2. QED
      BY <1>1, <3>1 DEF OutputIsPrefix, ReportsExit
  <2>19. CASE DaemonDies
    <3>1. /\ UNCHANGED <<shown, emitted, command>>
          /\ client' = "reported" => client = "reported"
      BY <2>19 DEF DaemonDies, DropEngine, loop, socket, daemon, engine, remote
    <3>2. QED
      BY <1>1, <3>1 DEF OutputIsPrefix, ReportsExit
  <2>20. CASE SendSignal
    <3>1. /\ UNCHANGED <<shown, emitted, command>>
          /\ client' = "reported" => client = "reported"
      BY <2>20 DEF SendSignal, loop, socket, daemon, engine, remote
    <3>2. QED
      BY <1>1, <3>1 DEF OutputIsPrefix, ReportsExit
  <2>21. CASE ForwardInBand
    <3>1. /\ UNCHANGED <<shown, emitted, command>>
          /\ client' = "reported" => client = "reported"
      BY <2>21 DEF ForwardInBand, loop, socket, daemon, engine, remote
    <3>2. QED
      BY <1>1, <3>1 DEF OutputIsPrefix, ReportsExit
  <2>22. CASE ForwardStdin
    <3>1. /\ UNCHANGED <<shown, emitted, command>>
          /\ client' = "reported" => client = "reported"
      BY <2>22 DEF ForwardStdin, loop, socket, daemon, engine, remote
    <3>2. QED
      BY <1>1, <3>1 DEF OutputIsPrefix, ReportsExit
  <2>23. CASE CommandReads
    <3>1. /\ UNCHANGED <<shown, emitted, command>>
          /\ client' = "reported" => client = "reported"
      BY <2>23 DEF CommandReads, loop, socket, daemon, engine, remote
    <3>2. QED
      BY <1>1, <3>1 DEF OutputIsPrefix, ReportsExit
  <2>24. CASE ServeTakesSignal
    <3>1. /\ UNCHANGED <<shown, emitted, command>>
          /\ client' = "reported" => client = "reported"
      BY <2>24 DEF ServeTakesSignal, loop, socket, daemon, engine, remote
    <3>2. QED
      BY <1>1, <3>1 DEF OutputIsPrefix, ReportsExit
  <2>25. CASE CommandWrites
    <3>1. /\ command = "running" /\ emitted' = emitted + 1 /\ UNCHANGED <<shown, client>>
      BY <2>25 DEF CommandWrites, loop
    <3>2. QED
      BY <1>1, <3>1 DEF OutputIsPrefix, ReportsExit
  <2>26. CASE CommandExits
    <3>1. /\ command' = "exited" /\ UNCHANGED <<shown, client, emitted>>
      BY <2>26 DEF CommandExits, loop
    <3>2. QED
      BY <1>1, <3>1 DEF OutputIsPrefix, ReportsExit
  <2>27. CASE UNCHANGED vars
    <3>1. /\ UNCHANGED <<shown, emitted, command>>
          /\ client' = "reported" => client = "reported"
      BY <2>27 DEF vars, loop, socket, daemon, engine, remote
    <3>2. QED
      BY <1>1, <3>1 DEF OutputIsPrefix, ReportsExit
  <2>28. QED
    BY <2>1, <2>2, <2>3, <2>4, <2>5, <2>6, <2>7, <2>8, <2>9, <2>10, <2>11, <2>12,
       <2>13, <2>14, <2>15, <2>16, <2>17, <2>18, <2>19, <2>20, <2>21, <2>22, <2>23, <2>24,
       <2>25, <2>26, <2>27
    DEF Next, ClientStep, DaemonStep, EngineStep, CommandStep

\* As long as the client runs, what it has shown, what is on its way and what the command
\* writes stay one stream.
LEMMA StreamsKept ==
  ASSUME LoopTypes, DownTypes, DeadHasNothing, OutputInv, [Next]_vars, ~ClientGone',
         place' = "kept"
  PROVE  Streams'
<1> DEFINE total == Total(emitted, command)
<1>1. ~ClientGone /\ place = "kept"
  BY NoWayBack
<1>2. PICK a \in 0 .. Items + 1, b \in 0 .. Items + 1 : Stream(a, b)
  BY <1>1 DEF OutputInv, Streams
<1>3. /\ Items \in Nat /\ Parts \in Nat /\ Parts > 0 /\ emitted \in Nat /\ shown \in Nat
      /\ a \in Nat /\ b \in Nat /\ a <= b /\ b <= total /\ emitted <= Items
      /\ total \in Nat /\ total <= Items + 1
      /\ sent \in 0 .. Parts - 1
      /\ Len(got) \in Nat /\ Len(got) <= Parts - 1 /\ Len(down) \in Nat /\ Len(out) \in Nat
      /\ \A i \in 1 .. Len(down) : down[i].part \in 1 .. Parts
  <2>1. Items \in Nat /\ Parts \in Nat /\ Parts > 0
    BY ConstantFacts
  <2>2. emitted \in 0 .. Items /\ shown \in Nat /\ sent \in 0 .. Parts - 1
    BY <2>1 DEF LoopTypes, Junk
  <2>3. total \in Nat /\ total <= Items + 1
    BY <2>1, <2>2 DEF Total
  <2>4. a <= b /\ b <= total
    BY <1>2 DEF Stream, Backlog
  <2>5. QED
    BY <1>2, <2>1, <2>2, <2>3, <2>4, DownMovables
<1>4. Backlog(a, b) /\ InSocket(a) /\ NextIs(a)
  BY <1>2 DEF Stream
<1>5. Exit = Items + 1 /\ Exit \in Downward
  BY DEF Exit, Downward
<1>6. ASSUME UNCHANGED <<got, shown, down, exec, out, sent, back, emitted, command>>
      PROVE  Streams'
  <2>1. Stream(a, b)'
    BY <1>2, <1>6 DEF Stream, Backlog, InSocket, NextIs
  <2>2. QED
    BY <1>2, <2>1 DEF Streams
<1>7. QED
  <2>1. CASE ReadStdin
    <3>1. UNCHANGED <<got, shown, down, exec, out, sent, back, emitted, command>>
      BY <2>1 DEF ReadStdin, WriteFrame, socket, daemon, remote, ClientGone
    <3>2. QED
      BY <1>6, <3>1
  <2>2. CASE StdinEnds
    <3>1. UNCHANGED <<got, shown, down, exec, out, sent, back, emitted, command>>
      BY <2>2 DEF StdinEnds, WriteFrame, socket, daemon, remote, ClientGone
    <3>2. QED
      BY <1>6, <3>1
  <2>3. ASSUME NEW x \in Signal, TakeSignal(x) PROVE Streams'
    <3>1. UNCHANGED <<got, shown, down, exec, out, sent, back, emitted, command>>
      BY <2>3 DEF TakeSignal, WriteFrame, socket, daemon, remote, ClientGone
    <3>2. QED
      BY <1>6, <3>1
  <2>4. CASE PollFrame
    <3> DEFINE p == Head(down)
    <3>1. down # << >> /\ down' = Tail(down) /\ UNCHANGED <<exec, out, sent, back, emitted, command>>
      BY <2>4 DEF PollFrame, daemon, remote
    <3>2. Left(down, down') /\ p \in Pieces /\ p = down[1] /\ Len(down) > 0 /\ Len(down') = Len(down) - 1
      BY <3>1, DownMovables DEF Left
    <3>3. /\ p.part = Len(got) + 1 /\ Num(p.frame, emitted) = shown + 1
          /\ Real(p.frame, emitted, command)
      BY <1>2, <3>1, ArrivesNext
    <3>4. /\ p.part < Parts => got' = Append(got, p) /\ shown' = shown
          /\ ~(p.part < Parts) =>
               /\ got' = << >> /\ p.frame # Exit
               /\ p.frame = shown + 1 => shown' = p.frame
      BY <1>1, <2>4, <3>3 DEF PollFrame, InPlace, TakePart, ClientGone
    <3>5. /\ Ordered(down', emitted, command)
          /\ Len(down') > 0 => Follows(p, down'[1], emitted) /\ down'[Len(down')] = down[Len(down)]
      BY <1>4, <3>2, LeaveOrdered DEF InSocket
    <3>6. Backlog(a, b)' /\ InSocket(a)'
      BY <1>3, <1>4, <3>1, <3>2, <3>5 DEF Backlog, InSocket
    <3>7. Len(down') = 0 /\ exec # "dead" => Written(p, a, sent, emitted)
      <4>1. Len(down') = 0 => Len(down) = 1 /\ p = down[Len(down)]
        <5> HIDE DEF p
        <5>1. Len(down) \in Nat /\ Len(down') = Len(down) - 1 /\ p = down[1]
          BY <1>3, <3>2, Zenon
        <5>2. Len(down') = 0 => Len(down) = 1
          BY <5>1
        <5>3. QED
          BY <5>1, <5>2, Zenon
      <4>2. exec # "dead" => Written(down[Len(down)], a, sent, emitted)
        BY <1>4, <3>2 DEF InSocket
      <4> HIDE DEF p
      <4>3. QED
        BY <4>1, <4>2
    <3>8. CASE p.part < Parts
      <4>1. Len(got') = Len(got) + 1 /\ shown' = shown
        <5>1. got \in Seq(Pieces) /\ got' = Append(got, p) /\ shown' = shown
          BY <3>4, <3>8 DEF DownTypes, IsQueue
        <5> HIDE DEF p
        <5>2. QED
          BY <3>2, <5>1, AppendProperties
      <4>2. Len(down') > 0 => down'[1].part = Len(got') + 1 /\ Num(down'[1].frame, emitted) = shown + 1
        <5>1. ASSUME Len(down') > 0
              PROVE  down'[1].part = p.part + 1 /\ Num(down'[1].frame, emitted) = Num(p.frame, emitted)
          <6> HIDE DEF p
          <6>1. p.part # Parts
            BY <1>3, <3>8
          <6>2. Follows(p, down'[1], emitted)
            BY <3>5, <5>1
          <6>3. QED
            BY <6>1, <6>2, Zenon DEF Follows
        <5>2. QED
          BY <3>3, <4>1, <5>1
      <4>3. Len(down') = 0 /\ exec # "dead" => sent = Len(got') /\ a = shown
        <5> HIDE DEF p
        <5>1. QED
          BY <1>3, <3>3, <3>7, <3>8, <4>1 DEF Written
      <4>6. shown < total
        <5> HIDE DEF p
        <5>1. QED
          BY <1>3, <3>3 DEF Num, Real, Total
      <4>4. NextIs(a)'
        BY <3>1, <4>1, <4>2, <4>3, <4>6 DEF NextIs
      <4>5. QED
        BY <1>2, <3>6, <4>4 DEF Stream, Streams
    <3>9. CASE ~(p.part < Parts)
      <4>1. p.part = Parts
        BY <1>3, <3>2, <3>9
      <4>2. Len(got') = 0 /\ p.frame # Exit /\ (p.frame = shown + 1 => shown' = p.frame)
        BY <3>4, <3>9
      <4>3. shown' = shown + 1
        BY <3>3, <4>2 DEF Num
      <4>4. Len(down') > 0 => down'[1].part = Len(got') + 1 /\ Num(down'[1].frame, emitted) = shown' + 1
        <5>1. ASSUME Len(down') > 0
              PROVE  down'[1].part = 1 /\ Num(down'[1].frame, emitted) = Num(p.frame, emitted) + 1
          BY <3>5, <3>9, <5>1 DEF Follows
        <5>2. QED
          BY <1>3, <3>3, <4>2, <4>3, <5>1
      <4>5. Len(down') = 0 /\ exec # "dead" => sent = Len(got') /\ a = shown'
        <5> HIDE DEF p
        <5>1. QED
          BY <1>3, <3>3, <3>7, <4>1, <4>2, <4>3 DEF Written
      <4>6. NextIs(a)'
        BY <3>1, <4>2, <4>4, <4>5 DEF NextIs
      <4>7. QED
        BY <1>2, <3>6, <4>6 DEF Stream, Streams
    <3>10. QED
      BY <3>8, <3>9
  <2>5. CASE PollEnd
    BY <2>5 DEF PollEnd, ClientGone
  <2>6. CASE WriteUp
    <3>1. UNCHANGED <<got, shown, down, exec, out, sent, back, emitted, command>>
      BY <2>6 DEF WriteUp, loop, socket, daemon, engine, remote
    <3>2. QED
      BY <1>6, <3>1
  <2>7. CASE WriteBroken
    BY <2>7 DEF WriteBroken, ClientGone
  <2>8. CASE ClientDies
    BY <2>8 DEF ClientDies, ClientGone
  <2>9. CASE RouteFrame
    <3>1. UNCHANGED <<got, shown, down, exec, out, sent, back, emitted, command>>
      BY <2>9 DEF RouteFrame, loop, socket, daemon, engine, remote
    <3>2. QED
      BY <1>6, <3>1
  <2>10. CASE ClientEnds
    <3>1. UNCHANGED <<got, shown, down, exec, out, sent, back, emitted, command>>
      BY <2>10 DEF ClientEnds, ClientGone, loop, socket, daemon, engine, remote
    <3>2. QED
      BY <1>6, <3>1
  <2>11. CASE ClientResets
    <3>1. UNCHANGED <<got, shown, down, exec, out, sent, back, emitted, command>>
      BY <2>11 DEF ClientResets, ClientGone, loop, socket, daemon, engine, remote
    <3>2. QED
      BY <1>6, <3>1
  <2>12. CASE AbandonExec
    <3>1. /\ exec = "running" /\ exec' = "abandoned"
          /\ UNCHANGED <<got, shown, down, out, sent, back, emitted, command>>
      BY <2>12 DEF AbandonExec, loop, socket, remote
    <3>2. Stream(a, b)'
      BY <1>2, <3>1 DEF Stream, Backlog, InSocket, NextIs
    <3>3. QED
      BY <1>2, <3>2 DEF Streams
  <2>13. CASE ForwardSignal
    <3>1. UNCHANGED <<got, shown, down, exec, out, sent, back, emitted, command>>
      BY <2>13 DEF ForwardSignal, loop, socket, daemon, engine, remote
    <3>2. QED
      BY <1>6, <3>1
  <2>14. CASE EngineOutput
    <3> DEFINE f == Head(back)
    <3>1. /\ exec = "running" /\ back # << >> /\ back' = Tail(back)
          /\ out' = Append(out, f)
          /\ UNCHANGED <<got, shown, down, exec, sent, emitted, command>>
      BY <1>1, <2>14 DEF EngineOutput, loop, socket
    <3>2. Left(back, back') /\ f \in Downward
      BY <3>1, DownMovables
    <3>3. Joined(out, out', f)
      BY <3>1, <3>2, DownMovables
    <3>4. Numbered(back, b, total, emitted, command) /\ Numbered(out, a, b, emitted, command)
      BY <1>4, <3>1 DEF Backlog
    <3>5. /\ Real(f, emitted, command) /\ Num(f, emitted) = b + 1 /\ b + 1 <= total
          /\ Numbered(back', b + 1, total, emitted, command)
      BY <1>3, <3>2, <3>4, LeaveNumbered
    <3>6. Numbered(out', a, b + 1, emitted, command)
      <4> HIDE DEF f
      <4>1. QED
        BY <1>3, <3>3, <3>4, <3>5, JoinNumbered
    <3>7. Backlog(a, b + 1)'
      BY <1>3, <3>1, <3>5, <3>6 DEF Backlog
    <3>8. InSocket(a)'
      BY <1>3, <1>4, <3>1, <3>3 DEF InSocket, Joined
    <3>9. NextIs(a)'
      BY <1>4, <3>1 DEF NextIs
    <3>10. b + 1 \in 0 .. Items + 1
      BY <1>3, <3>5
    <3>11. QED
      BY <1>2, <3>7, <3>8, <3>9, <3>10 DEF Stream, Streams
  <2>15. CASE EngineExit
    <3>1. /\ exec = "running" /\ exec' = "ended" /\ back # << >> /\ Head(back) = Exit
          /\ out' = Append(out, Exit)
          /\ UNCHANGED <<got, shown, down, sent, emitted, command>>
      BY <2>15 DEF EngineExit, loop, socket
    <3>2. Left(back, Tail(back)) /\ Joined(out, out', Exit)
      BY <1>5, <3>1, DownMovables
    <3>3. Numbered(back, b, total, emitted, command) /\ Numbered(out, a, b, emitted, command)
      BY <1>4, <3>1 DEF Backlog
    <3>4. Real(Exit, emitted, command) /\ Num(Exit, emitted) = b + 1 /\ b + 1 <= total
      BY <1>3, <3>1, <3>2, <3>3, LeaveNumbered
    <3>5. Numbered(out', a, b + 1, emitted, command)
      BY <1>3, <3>2, <3>3, <3>4, JoinNumbered
    <3>6. Backlog(a, b + 1)'
      BY <1>3, <3>1, <3>4, <3>5 DEF Backlog
    <3>7. InSocket(a)'
      BY <1>3, <1>4, <3>1, <3>2 DEF InSocket, Joined
    <3>8. NextIs(a)'
      BY <1>4, <3>1 DEF NextIs
    <3>9. b + 1 \in 0 .. Items + 1
      BY <1>3, <3>4
    <3>10. QED
      BY <1>2, <3>6, <3>7, <3>8, <3>9 DEF Stream, Streams
  <2>16. CASE WriteDown
    <3> DEFINE piece == [frame |-> Head(out), part |-> sent + 1]
    <3>1. /\ out # << >> /\ down' = Append(down, piece)
          /\ sent + 1 = Parts => sent' = 0 /\ out' = Tail(out)
          /\ sent + 1 # Parts => sent' = sent + 1 /\ out' = out
          /\ UNCHANGED <<got, shown, exec, back, emitted, command>>
      BY <2>16 DEF WriteDown, loop, remote
    <3>2. Left(out, Tail(out)) /\ Head(out) \in Downward
      BY <3>1, DownMovables
    <3>3. piece \in Pieces /\ piece.frame = Head(out) /\ piece.part = sent + 1
      BY <1>3, <3>2 DEF Pieces
    <3> HIDE DEF piece
    <3>4. Joined(down, down', piece)
      BY <3>1, <3>3, DownMovables
    <3>5. exec # "dead" /\ Numbered(out, a, b, emitted, command)
      BY <1>4, <3>1 DEF DeadHasNothing, Backlog
    <3>6. /\ Real(piece.frame, emitted, command) /\ Num(piece.frame, emitted) = a + 1 /\ a + 1 <= b
          /\ Numbered(Tail(out), a + 1, b, emitted, command)
      BY <1>3, <3>2, <3>3, <3>5, LeaveNumbered
    <3>7. Len(down) > 0 => Follows(down[Len(down)], piece, emitted)
      <4>1. ASSUME Len(down) > 0 PROVE Follows(down[Len(down)], piece, emitted)
        <5>1. Written(down[Len(down)], a, sent, emitted)
          BY <1>4, <3>5, <4>1 DEF InSocket
        <5>2. QED
          BY <1>3, <3>3, <3>6, <5>1 DEF Written, Follows
      <4>2. QED
        BY <4>1
    <3>8. Ordered(down', emitted, command)
      BY <1>4, <3>4, <3>6, <3>7, JoinOrdered DEF InSocket
    <3>9. Len(down') = Len(down) + 1 /\ down'[Len(down')] = piece
          /\ (Len(down) > 0 => down'[1] = down[1]) /\ (Len(down) = 0 => down'[1] = piece)
      <4>1. /\ Len(down') = Len(down) + 1 /\ down'[Len(down) + 1] = piece
            /\ \A i \in 1 .. Len(down) : down'[i] = down[i]
        BY <3>4 DEF Joined
      <4>2. Len(down) > 0 => down'[1] = down[1]
        BY <1>3, <4>1
      <4>3. Len(down) = 0 => down'[1] = piece
        <5>1. Len(down) = 0 => Len(down) + 1 = 1
          OBVIOUS
        <5>2. QED
          BY <4>1, <5>1
      <4>4. QED
        BY <4>1, <4>2, <4>3
    <3>10. NextIs(a)'
      <4>1. CASE Len(down) > 0
        BY <1>3, <1>4, <3>1, <3>9, <4>1 DEF NextIs
      <4>2. CASE Len(down) = 0
        <5>1. sent = Len(got) /\ a = shown
          BY <1>4, <3>5, <4>2 DEF NextIs
        <5>2. QED
          BY <1>3, <1>4, <3>1, <3>3, <3>6, <3>9, <4>2, <5>1 DEF NextIs
      <4>3. QED
        BY <1>3, <4>1, <4>2
    <3>11. CASE sent + 1 = Parts
      <4>1. Backlog(a + 1, b)'
        BY <1>3, <1>4, <3>1, <3>6, <3>11 DEF Backlog
      <4>2. Written(piece, a + 1, 0, emitted)
        BY <3>3, <3>6, <3>11 DEF Written
      <4>3. InSocket(a + 1)'
        BY <3>1, <3>8, <3>9, <3>11, <4>2 DEF InSocket
      <4>4. NextIs(a + 1)'
        BY <1>3, <3>9, <3>10 DEF NextIs
      <4>5. a + 1 \in 0 .. Items + 1
        BY <1>3, <3>6
      <4>6. QED
        BY <1>2, <4>1, <4>3, <4>4, <4>5 DEF Stream, Streams
    <3>12. CASE sent + 1 # Parts
      <4>1. Backlog(a, b)'
        BY <1>4, <3>1, <3>12 DEF Backlog
      <4>2. Written(piece, a, sent + 1, emitted) /\ Len(out) > 0
        BY <1>3, <3>2, <3>3, <3>6 DEF Written, Left
      <4>3. InSocket(a)'
        BY <3>1, <3>8, <3>9, <3>12, <4>2 DEF InSocket
      <4>4. QED
        BY <1>2, <3>10, <4>1, <4>3 DEF Stream, Streams
    <3>13. QED
      BY <3>11, <3>12
  <2>17. CASE DropOutput
    BY <2>17, <1>1 DEF DropOutput
  <2>18. CASE CloseSocket
    <3>1. UNCHANGED <<got, shown, down, exec, out, sent, back, emitted, command>>
      BY <2>18 DEF CloseSocket, loop, socket, daemon, engine, remote
    <3>2. QED
      BY <1>6, <3>1
  <2>19. CASE DaemonDies
    <3>1. exec' = "dead" /\ UNCHANGED <<got, shown, down, back, emitted, command>>
      BY <2>19 DEF DaemonDies, loop, remote
    <3>2. Stream(a, b)'
      BY <1>2, <3>1 DEF Stream, Backlog, InSocket, NextIs
    <3>3. QED
      BY <1>2, <3>2 DEF Streams
  <2>20. CASE SendSignal
    <3>1. UNCHANGED <<got, shown, down, exec, out, sent, back, emitted, command>>
      BY <2>20 DEF SendSignal, loop, socket, daemon, engine, remote
    <3>2. QED
      BY <1>6, <3>1
  <2>21. CASE ForwardInBand
    <3>1. UNCHANGED <<got, shown, down, exec, out, sent, back, emitted, command>>
      BY <2>21 DEF ForwardInBand, loop, socket, daemon, engine, remote
    <3>2. QED
      BY <1>6, <3>1
  <2>22. CASE ForwardStdin
    <3>1. UNCHANGED <<got, shown, down, exec, out, sent, back, emitted, command>>
      BY <2>22 DEF ForwardStdin, loop, socket, daemon, engine, remote
    <3>2. QED
      BY <1>6, <3>1
  <2>23. CASE CommandReads
    <3>1. UNCHANGED <<got, shown, down, exec, out, sent, back, emitted, command>>
      BY <2>23 DEF CommandReads, loop, socket, daemon, engine, remote
    <3>2. QED
      BY <1>6, <3>1
  <2>24. CASE ServeTakesSignal
    <3>1. UNCHANGED <<got, shown, down, exec, out, sent, back, emitted, command>>
      BY <2>24 DEF ServeTakesSignal, loop, socket, daemon, engine, remote
    <3>2. QED
      BY <1>6, <3>1
  <2>25. CASE CommandWrites
    <3>1. /\ command = "running" /\ command' = command /\ emitted' = emitted + 1 /\ emitted < Items
          /\ back' = Append(back, emitted + 1)
          /\ UNCHANGED <<got, shown, down, exec, out, sent>>
      BY <2>25 DEF CommandWrites, loop, socket, daemon
    <3>2. Grows(emitted, command, emitted', command') /\ emitted' \in Nat
      BY <1>3, <3>1 DEF Grows
    <3>3. /\ \A g : Real(g, emitted, command) => Real(g, emitted', command') /\ Num(g, emitted') = Num(g, emitted)
          /\ \A q, m, n : Numbered(q, m, n, emitted, command) => Numbered(q, m, n, emitted', command')
          /\ \A q : Ordered(q, emitted, command) => Ordered(q, emitted', command')
      BY <1>3, <3>2, NumbersKeep
    <3>4. Total(emitted', command') = total + 1 /\ total = emitted
      BY <1>3, <3>1 DEF Total
    <3>5. /\ Joined(back, back', emitted + 1)
          /\ Real(emitted + 1, emitted', command') /\ Num(emitted + 1, emitted') = total + 1
      <4>1. emitted + 1 \in Downward /\ emitted + 1 # Exit
        BY <1>3, <1>5, <3>1 DEF Downward
      <4>2. QED
        BY <1>3, <3>1, <3>4, <4>1, DownMovables DEF Real, Num
    <3>6. exec = "running" => Numbered(back', b, total + 1, emitted', command')
      BY <1>3, <1>4, <3>3, <3>5, JoinNumbered DEF Backlog
    <3>7. Backlog(a, b)'
      BY <1>3, <1>4, <3>1, <3>3, <3>4, <3>6 DEF Backlog
    <3>8. \A i \in 1 .. Len(down) : Num(down[i].frame, emitted') = Num(down[i].frame, emitted)
      BY <1>4, <3>3 DEF InSocket, Ordered
    <3>9. InSocket(a)'
      <4>1. Len(down) > 0 => Len(down) \in 1 .. Len(down)
        BY <1>3
      <4>2. QED
        BY <1>4, <3>1, <3>3, <3>8, <4>1 DEF InSocket, Written
    <3>10. NextIs(a)'
      <4>1. Len(down) > 0 => 1 \in 1 .. Len(down)
        BY <1>3
      <4>2. QED
        BY <1>3, <1>4, <3>1, <3>4, <3>8, <4>1 DEF NextIs
    <3>11. QED
      BY <1>2, <3>7, <3>9, <3>10 DEF Stream, Streams
  <2>26. CASE CommandExits
    <3>1. /\ command = "running" /\ command' = "exited" /\ emitted' = emitted
          /\ back' = Append(back, Exit)
          /\ UNCHANGED <<got, shown, down, exec, out, sent>>
      BY <2>26 DEF CommandExits, loop, socket, daemon, engine
    <3>2. Grows(emitted, command, emitted', command') /\ emitted' \in Nat
      BY <1>3, <3>1 DEF Grows
    <3>3. /\ \A g : Real(g, emitted, command) => Real(g, emitted', command') /\ Num(g, emitted') = Num(g, emitted)
          /\ \A q, m, n : Numbered(q, m, n, emitted, command) => Numbered(q, m, n, emitted', command')
          /\ \A q : Ordered(q, emitted, command) => Ordered(q, emitted', command')
      BY <1>3, <3>2, NumbersKeep
    <3>4. Total(emitted', command') = total + 1 /\ total = emitted
      BY <1>3, <3>1 DEF Total
    <3>5. /\ Joined(back, back', Exit)
          /\ Real(Exit, emitted', command') /\ Num(Exit, emitted') = total + 1
      BY <1>5, <3>1, <3>4, DownMovables DEF Real, Num
    <3>6. exec = "running" => Numbered(back', b, total + 1, emitted', command')
      BY <1>3, <1>4, <3>3, <3>5, JoinNumbered DEF Backlog
    <3>7. Backlog(a, b)'
      BY <1>3, <1>4, <3>1, <3>3, <3>4, <3>6 DEF Backlog
    <3>8. \A i \in 1 .. Len(down) : Num(down[i].frame, emitted') = Num(down[i].frame, emitted)
      BY <1>4, <3>3 DEF InSocket, Ordered
    <3>9. InSocket(a)'
      <4>1. Len(down) > 0 => Len(down) \in 1 .. Len(down)
        BY <1>3
      <4>2. QED
        BY <1>4, <3>1, <3>3, <3>8, <4>1 DEF InSocket, Written
    <3>10. NextIs(a)'
      <4>1. Len(down) > 0 => 1 \in 1 .. Len(down)
        BY <1>3
      <4>2. QED
        BY <1>3, <1>4, <3>1, <3>4, <3>8, <4>1 DEF NextIs
    <3>11. QED
      BY <1>2, <3>7, <3>9, <3>10 DEF Stream, Streams
  <2>27. CASE UNCHANGED vars
    <3>1. UNCHANGED <<got, shown, down, exec, out, sent, back, emitted, command>>
      BY <2>27 DEF vars, loop, socket, daemon, engine, remote
    <3>2. QED
      BY <1>6, <3>1
  <2>28. QED
    BY <2>1, <2>2, <2>3, <2>4, <2>5, <2>6, <2>7, <2>8, <2>9, <2>10, <2>11, <2>12,
       <2>13, <2>14, <2>15, <2>16, <2>17, <2>18, <2>19, <2>20, <2>21, <2>22, <2>23, <2>24,
       <2>25, <2>26, <2>27
    DEF Next, ClientStep, DaemonStep, EngineStep, CommandStep

\* The stream is empty at the start.
LEMMA OutputInit == Init => OutputInv
<1> SUFFICES ASSUME Init PROVE OutputInv
  OBVIOUS
<1>1. /\ client = "select" /\ got = << >> /\ shown = 0 /\ down = << >> /\ exec = "running"
      /\ out = << >> /\ sent = 0 /\ back = << >> /\ command = "running" /\ emitted = 0
  BY DEF Init
<1>2. Total(emitted, command) = 0
  BY <1>1 DEF Total
<1>3. Numbered(<< >>, 0, 0, 0, "running") /\ Ordered(<< >>, 0, "running")
  BY DEF Numbered, Ordered
<1>4. Backlog(0, 0) /\ InSocket(0) /\ NextIs(0)
  BY <1>1, <1>2, <1>3 DEF Backlog, InSocket, NextIs
<1>5. 0 \in 0 .. Items + 1
  BY ConstantFacts
<1>6. Streams
  BY <1>4, <1>5 DEF Stream, Streams
<1>7. QED
  BY <1>1, <1>6 DEF OutputInv, DeadHasNothing, OutputIsPrefix, ReportsExit

\* The parts of the invariant, put together.
LEMMA OutputKept == TypeOK /\ OutputInv /\ [Next]_vars => OutputInv'
  BY TypeParts, DeadKept, ShownKept, StreamsKept DEF OutputInv

\* The invariant holds in every reachable state.
LEMMA OutputInvariant == Spec => []OutputInv
<1>1. TypeOK /\ RoomForExit /\ OutputInv /\ [Next]_vars => OutputInv'
  BY OutputKept
<1>2. QED
  BY <1>1, OutputInit, TypesInvariant, PTL DEF Spec

\* As long as no key or stdin has made the client drop a frame that it had read in part,
\* what it shows is a beginning of what the command wrote, and a client that reports the
\* exit has shown all of it.
THEOREM ShownIsPrefix == Spec => []OutputIsPrefix
<1>1. OutputInv => OutputIsPrefix
  BY DEF OutputInv
<1>2. QED
  BY <1>1, OutputInvariant, PTL

(***************************************************************************)
(* Interrupts come from the user                                           *)
(***************************************************************************)
HasInt(q) == \E i \in DOMAIN q : q[i] = SigInt

\* An interrupt on its way was sent.
IntSource ==
  HasInt(pending) \/ HasInt(up) \/ HasInt(ctrl) \/ HasInt(sigs) \/ HasInt(inband) \/ HasInt(wire)
    => lastInt

\* Queues without an interrupt.
LEMMA NoInt == ~HasInt(<< >>) /\ \A x : HasInt(<<x>>) => x = SigInt
  BY DEF HasInt

\* What joins a queue, as far as interrupts go.
LEMMA JoinInt ==
  ASSUME NEW q, NEW r, NEW x, Joined(q, r, x), HasInt(r)
  PROVE  HasInt(q) \/ x = SigInt
  BY DEF HasInt, Joined

\* What leaves it.
LEMMA LeaveInt ==
  ASSUME NEW q, NEW r, Left(q, r)
  PROVE  (HasInt(r) => HasInt(q)) /\ (Head(q) = SigInt => HasInt(q))
<1>1. ASSUME HasInt(r) PROVE HasInt(q)
  <2>1. PICK i \in DOMAIN r : r[i] = SigInt
    BY <1>1 DEF HasInt
  <2>2. i + 1 \in DOMAIN q /\ r[i] = q[i + 1]
    BY DEF Left
  <2>3. QED
    BY <2>1, <2>2 DEF HasInt
<1>2. ASSUME Head(q) = SigInt PROVE HasInt(q)
  <2>1. 1 \in DOMAIN q /\ Head(q) = q[1]
    BY DEF Left
  <2>2. QED
    BY <1>2, <2>1 DEF HasInt
<1>3. QED
  BY <1>1, <1>2

\* The queues of signals move as the others do.
LEMMA SignalMovables ==
  ASSUME UpTypes
  PROVE  /\ \A x \in Signal : Joined(ctrl, Append(ctrl, x), x) /\ Joined(sigs, Append(sigs, x), x)
                             /\ Joined(inband, Append(inband, x), x)
         /\ Joined(ctrl, Append(ctrl, Fatal), Fatal)
         /\ ctrl # << >> => Left(ctrl, Tail(ctrl)) /\ Head(ctrl) \in Signal \cup {Fatal}
         /\ sigs # << >> => Left(sigs, Tail(sigs)) /\ Head(sigs) \in Signal
         /\ inband # << >> => Left(inband, Tail(inband)) /\ Head(inband) \in Signal
<1>1. ctrl \in Seq(Signal \cup {Fatal}) /\ sigs \in Seq(Signal) /\ inband \in Seq(Signal)
  BY DEF UpTypes, IsQueue
<1>2. /\ \A x \in Signal \cup {Fatal} : Joined(ctrl, Append(ctrl, x), x)
      /\ ctrl # << >> => Left(ctrl, Tail(ctrl)) /\ Head(ctrl) \in Signal \cup {Fatal}
  BY <1>1, Ends
<1>3. /\ \A x \in Signal : Joined(sigs, Append(sigs, x), x)
      /\ sigs # << >> => Left(sigs, Tail(sigs)) /\ Head(sigs) \in Signal
  BY <1>1, Ends
<1>4. /\ \A x \in Signal : Joined(inband, Append(inband, x), x)
      /\ inband # << >> => Left(inband, Tail(inband)) /\ Head(inband) \in Signal
  BY <1>1, Ends
<1>5. QED
  BY <1>2, <1>3, <1>4

\* No step makes an interrupt up.
LEMMA IntKept ==
  ASSUME LoopTypes, UpTypes, IntSource, [Next]_vars
  PROVE  IntSource'
<1>1. SigInt # Eof /\ SigInt # SigTerm /\ SigInt # Fatal /\ ~IsData(SigInt)
  BY ConstantFacts DEF SigInt, SigTerm, Eof, Fatal, IsData
<1>2. QED
  <2>1. CASE ReadStdin
    <3>1. /\ pending' = <<taken + 1>> /\ taken + 1 \in 1 .. Items
          /\ UNCHANGED <<up, ctrl, sigs, inband, wire, lastInt>>
      BY <2>1, ConstantFacts DEF ReadStdin, WriteFrame, socket, daemon, engine, remote, LoopTypes
    <3>2. ~HasInt(pending')
      BY <1>1, <3>1, NoInt DEF IsData
    <3>3. QED
      BY <3>1, <3>2, Zenon DEF IntSource
  <2>2. CASE StdinEnds
    <3>1. pending' = <<Eof>> /\ UNCHANGED <<up, ctrl, sigs, inband, wire, lastInt>>
      BY <2>2 DEF StdinEnds, WriteFrame, socket, daemon, engine, remote
    <3>2. ~HasInt(pending')
      BY <1>1, <3>1, NoInt
    <3>3. QED
      BY <3>1, <3>2, Zenon DEF IntSource
  <2>3. ASSUME NEW x \in Signal, TakeSignal(x) PROVE IntSource'
    <3>1. /\ pending' = <<x>> \/ pending' = pending
          /\ UNCHANGED <<up, ctrl, sigs, inband, wire>>
      BY <2>3 DEF TakeSignal, WriteFrame, socket, daemon, engine, remote
    <3>4. lastInt \/ x = SigInt => lastInt'
      <4>1. CASE lastInt' = (lastInt \/ x = SigInt)
        BY <4>1
      <4>2. CASE lastInt /\ lastInt' = lastInt
        BY <4>2
      <4>3. QED
        BY <2>3, <4>1, <4>2 DEF TakeSignal
    <3>2. HasInt(pending') => HasInt(pending) \/ x = SigInt
      BY <3>1, NoInt
    <3>3. QED
      BY <3>1, <3>2, <3>4, Zenon DEF IntSource
  <2>4. CASE PollFrame
    <3>1. UNCHANGED <<pending, up, ctrl, sigs, inband, wire, lastInt>>
      BY <2>4 DEF PollFrame, loop, socket, daemon, engine, remote
    <3>2. QED
      BY <3>1, Zenon DEF IntSource
  <2>5. CASE PollEnd
    <3>1. UNCHANGED <<pending, up, ctrl, sigs, inband, wire, lastInt>>
      BY <2>5 DEF PollEnd, loop, socket, daemon, engine, remote
    <3>2. QED
      BY <3>1, Zenon DEF IntSource
  <2>6. CASE WriteUp
    <3> DEFINE f == Head(pending)
    <3>1. /\ client = "write" /\ up' = up \o pending /\ pending' = << >>
          /\ UNCHANGED <<ctrl, sigs, inband, wire, lastInt>>
      BY <2>6 DEF WriteUp, daemon, engine, remote
    <3>2. Left(pending, << >>) /\ Joined(up, up', f)
      BY <3>1, Movables
    <3>3. HasInt(up') => HasInt(up) \/ HasInt(pending)
      BY <3>2, JoinInt, LeaveInt
    <3>4. QED
      BY <3>1, <3>3, NoInt, Zenon DEF IntSource
  <2>7. CASE WriteBroken
    <3>1. /\ pending' = << >>
          /\ UNCHANGED <<up, ctrl, sigs, inband, wire, lastInt>>
      BY <2>7 DEF WriteBroken, loop, socket, daemon, engine, remote
    <3>2. QED
      BY <3>1, NoInt, Zenon DEF IntSource
  <2>8. CASE ClientDies
    <3>1. /\ pending' = << >>
          /\ UNCHANGED <<up, ctrl, sigs, inband, wire, lastInt>>
      BY <2>8 DEF ClientDies, ClientGone, loop, socket, daemon, engine, remote
    <3>2. QED
      BY <3>1, NoInt, Zenon DEF IntSource
  <2>9. CASE RouteFrame
    <3> DEFINE f == Head(up)
    <3>1. /\ up # << >> /\ up' = Tail(up)
          /\ (f \in Signal /\ ctrl' = Append(ctrl, f)) \/ ctrl' = ctrl
          /\ UNCHANGED <<pending, sigs, inband, wire, lastInt>>
      BY <2>9 DEF RouteFrame, loop, remote
    <3>2. Left(up, up')
      BY <3>1, Movables DEF Movable
    <3>3. f \in Signal => Joined(ctrl, Append(ctrl, f), f)
      BY SignalMovables
    <3>4. HasInt(ctrl') => HasInt(ctrl) \/ HasInt(up)
      BY <3>1, <3>2, <3>3, JoinInt, LeaveInt
    <3>5. HasInt(up') => HasInt(up)
      BY <3>2, LeaveInt
    <3>6. QED
      BY <3>1, <3>4, <3>5, Zenon DEF IntSource
  <2>10. CASE ClientEnds
    <3>1. UNCHANGED <<pending, up, ctrl, sigs, inband, wire, lastInt>>
      BY <2>10 DEF ClientEnds, ClientGone, loop, socket, daemon, engine, remote
    <3>2. QED
      BY <3>1, Zenon DEF IntSource
  <2>11. CASE ClientResets
    <3>1. /\ ctrl' = Append(ctrl, Fatal)
          /\ UNCHANGED <<pending, up, sigs, inband, wire, lastInt>>
      BY <2>11 DEF ClientResets, loop, socket, remote
    <3>2. HasInt(ctrl') => HasInt(ctrl)
      BY <1>1, <3>1, SignalMovables, JoinInt
    <3>3. QED
      BY <3>1, <3>2, Zenon DEF IntSource
  <2>12. CASE AbandonExec
    <3>1. /\ ctrl' = << >> /\ sigs' = << >> /\ inband' = << >>
          /\ UNCHANGED <<pending, up, wire, lastInt>>
      BY <2>12 DEF AbandonExec, DropEngine, loop, socket, daemon, engine, remote
    <3>2. QED
      BY <3>1, NoInt, Zenon DEF IntSource
  <2>13. CASE ForwardSignal
    <3> DEFINE f == Head(ctrl)
    <3>1. /\ ctrl # << >> /\ f # Fatal /\ ctrl' = Tail(ctrl)
          /\ sigs' = Append(sigs, f) \/ sigs' = sigs
          /\ UNCHANGED <<pending, up, inband, wire, lastInt>>
      BY <2>13 DEF ForwardSignal, loop, socket, remote
    <3>2. Left(ctrl, ctrl') /\ Joined(sigs, Append(sigs, f), f)
      BY <3>1, SignalMovables
    <3>3. HasInt(sigs') => HasInt(sigs) \/ HasInt(ctrl)
      BY <3>1, <3>2, JoinInt, LeaveInt
    <3>4. HasInt(ctrl') => HasInt(ctrl)
      BY <3>2, LeaveInt
    <3>5. QED
      BY <3>1, <3>3, <3>4, Zenon DEF IntSource
  <2>14. CASE EngineOutput
    <3>1. UNCHANGED <<pending, up, ctrl, sigs, inband, wire, lastInt>>
      BY <2>14 DEF EngineOutput, ClientGone, loop, socket, daemon, engine, remote
    <3>2. QED
      BY <3>1, Zenon DEF IntSource
  <2>15. CASE EngineExit
    <3>1. /\ ctrl' = << >> /\ sigs' = << >> /\ inband' = << >>
          /\ UNCHANGED <<pending, up, wire, lastInt>>
      BY <2>15 DEF EngineExit, DropEngine, loop, socket, daemon, engine, remote
    <3>2. QED
      BY <3>1, NoInt, Zenon DEF IntSource
  <2>16. CASE WriteDown
    <3>1. UNCHANGED <<pending, up, ctrl, sigs, inband, wire, lastInt>>
      BY <2>16 DEF WriteDown, ClientGone, loop, socket, daemon, engine, remote
    <3>2. QED
      BY <3>1, Zenon DEF IntSource
  <2>17. CASE DropOutput
    <3>1. UNCHANGED <<pending, up, ctrl, sigs, inband, wire, lastInt>>
      BY <2>17 DEF DropOutput, ClientGone, loop, socket, daemon, engine, remote
    <3>2. QED
      BY <3>1, Zenon DEF IntSource
  <2>18. CASE CloseSocket
    <3>1. UNCHANGED <<pending, up, ctrl, sigs, inband, wire, lastInt>>
      BY <2>18 DEF CloseSocket, loop, socket, daemon, engine, remote
    <3>2. QED
      BY <3>1, Zenon DEF IntSource
  <2>19. CASE DaemonDies
    <3>1. /\ ctrl' = << >> /\ sigs' = << >> /\ inband' = << >>
          /\ UNCHANGED <<pending, up, wire, lastInt>>
      BY <2>19 DEF DaemonDies, DropEngine, loop, socket, daemon, engine, remote
    <3>2. QED
      BY <3>1, NoInt, Zenon DEF IntSource
  <2>20. CASE SendSignal
    <3> DEFINE f == Head(sigs)
    <3>1. /\ sigs # << >> /\ sigs' = Tail(sigs)
          /\ inband' = Append(inband, f) \/ inband' = inband
          /\ UNCHANGED <<pending, up, ctrl, wire, lastInt>>
      BY <2>20 DEF SendSignal, loop, socket, daemon
    <3>2. Left(sigs, sigs') /\ Joined(inband, Append(inband, f), f)
      BY <3>1, SignalMovables
    <3>3. HasInt(inband') => HasInt(inband) \/ HasInt(sigs)
      BY <3>1, <3>2, JoinInt, LeaveInt
    <3>4. HasInt(sigs') => HasInt(sigs)
      BY <3>2, LeaveInt
    <3>5. QED
      BY <3>1, <3>3, <3>4, Zenon DEF IntSource
  <2>21. CASE ForwardInBand
    <3> DEFINE f == Head(inband)
    <3>1. /\ inband # << >> /\ inband' = Tail(inband) /\ wire' = Append(wire, f)
          /\ UNCHANGED <<pending, up, ctrl, sigs, lastInt>>
      BY <2>21 DEF ForwardInBand, loop, socket, daemon
    <3>2. Left(inband, inband') /\ f \in Upward
      BY <3>1, SignalMovables, Kinds
    <3>3. Joined(wire, wire', f)
      BY <3>1, <3>2, Movables DEF Movable
    <3>4. HasInt(wire') => HasInt(wire) \/ HasInt(inband)
      BY <3>2, <3>3, JoinInt, LeaveInt
    <3>5. HasInt(inband') => HasInt(inband)
      BY <3>2, LeaveInt
    <3>6. QED
      BY <3>1, <3>4, <3>5, Zenon DEF IntSource
  <2>22. CASE ForwardStdin
    <3> DEFINE f == Head(lane)
    <3>1. /\ lane # << >> /\ wire' = Append(wire, f)
          /\ UNCHANGED <<pending, up, ctrl, sigs, inband, lastInt>>
      BY <2>22 DEF ForwardStdin, loop, socket, daemon
    <3>2. f \in 1 .. Items \cup {Eof} /\ f \in Upward
      BY <3>1, QueueOps, ConstantFacts DEF UpTypes, Upward
    <3>3. Joined(wire, wire', f) /\ f # SigInt
      BY <1>1, <3>1, <3>2, Movables DEF Movable, IsData
    <3>4. HasInt(wire') => HasInt(wire)
      BY <3>3, JoinInt
    <3>5. QED
      BY <3>1, <3>4, Zenon DEF IntSource
  <2>23. CASE CommandReads
    <3>1. /\ wire # << >> /\ wire' = Tail(wire)
          /\ UNCHANGED <<pending, up, ctrl, sigs, inband, lastInt>>
      BY <2>23 DEF CommandReads, loop, socket, daemon, engine
    <3>2. HasInt(wire') => HasInt(wire)
      BY <3>1, Movables, LeaveInt DEF Movable
    <3>3. QED
      BY <3>1, <3>2, Zenon DEF IntSource
  <2>24. CASE ServeTakesSignal
    <3>1. /\ wire # << >> /\ wire' = Tail(wire)
          /\ UNCHANGED <<pending, up, ctrl, sigs, inband, lastInt>>
      BY <2>24 DEF ServeTakesSignal, loop, socket, daemon, engine
    <3>2. HasInt(wire') => HasInt(wire)
      BY <3>1, Movables, LeaveInt DEF Movable
    <3>3. QED
      BY <3>1, <3>2, Zenon DEF IntSource
  <2>25. CASE CommandWrites
    <3>1. UNCHANGED <<pending, up, ctrl, sigs, inband, wire, lastInt>>
      BY <2>25 DEF CommandWrites, loop, socket, daemon, engine, remote
    <3>2. QED
      BY <3>1, Zenon DEF IntSource
  <2>26. CASE CommandExits
    <3>1. /\ wire' = << >>
          /\ UNCHANGED <<pending, up, ctrl, sigs, inband, lastInt>>
      BY <2>26 DEF CommandExits, loop, socket, daemon, engine, remote
    <3>2. QED
      BY <3>1, NoInt, Zenon DEF IntSource
  <2>27. CASE UNCHANGED vars
    <3>1. UNCHANGED <<pending, up, ctrl, sigs, inband, wire, lastInt>>
      BY <2>27 DEF vars, loop, socket, daemon, engine, remote
    <3>2. QED
      BY <3>1, Zenon DEF IntSource
  <2>28. QED
    BY <2>1, <2>2, <2>3, <2>4, <2>5, <2>6, <2>7, <2>8, <2>9, <2>10, <2>11, <2>12,
       <2>13, <2>14, <2>15, <2>16, <2>17, <2>18, <2>19, <2>20, <2>21, <2>22, <2>23,
       <2>24, <2>25, <2>26, <2>27
    DEF Next, ClientStep, DaemonStep, EngineStep, CommandStep

\* Interrupts on their way were sent, in every reachable state.
LEMMA IntInvariant == Spec => []IntSource
<1>1. Init => IntSource
  BY NoInt DEF Init, IntSource
<1>2. TypeOK /\ RoomForExit /\ IntSource /\ [Next]_vars => IntSource'
  BY IntKept, TypeParts
<1>3. QED
  BY <1>1, <1>2, TypesInvariant, PTL DEF Spec

(***************************************************************************)
(* Relay implements Pipes                                                  *)
(***************************************************************************)
\* The user, client by client.
LEMMA UserIs ==
  /\ client \in {"select", "write"} => User = "there"
  /\ client = "reported" => User = "reported"
  /\ client = "torn" => User = "torn"
  /\ client \in {"failed", "forced", "killed"} => User = "gone"
  BY DEF User

\* The same of the next state.
LEMMA UserNext ==
  /\ client' \in {"select", "write"} => User' = "there"
  /\ client' = "reported" => User' = "reported"
  /\ client' = "torn" => User' = "torn"
  /\ client' \in {"failed", "forced", "killed"} => User' = "gone"
  BY DEF User

\* A step of the relay in which neither end takes part stutters for Pipes.
LEMMA QuietForPipes ==
  ASSUME UNCHANGED <<taken, stdinOpen, lastInt, received, eofSeen, interrupted, emitted,
                     command, shown, place>>,
         User' = User
  PROVE  UNCHANGED Direct!vars
  BY DEF Direct!vars, Direct!input, Direct!command, Direct!screen

\* Each step of Relay is a step of Pipes or a stutter.
LEMMA StepIsDirect ==
  ASSUME LoopTypes, UpTypes, DownTypes, StdinInv, OutputInv, IntSource, [Next]_vars
  PROVE  [Direct!Next]_(Direct!vars)
<1>1. /\ taken \in Nat /\ taken <= Items /\ Items \in Nat /\ Len(received) \in Nat
      /\ received \in Seq(1 .. Items) /\ emitted \in Nat /\ shown \in Nat
      /\ {stdinOpen, lastInt, eofSeen, interrupted} \subseteq BOOLEAN
      /\ command \in {"running", "exited"}
      /\ client \in {"select", "write", "reported", "failed", "forced", "killed", "torn"}
  <2>1. /\ received \in Seq(1 .. Items) /\ taken \in 0 .. Items
        /\ emitted \in 0 .. Items /\ shown \in Nat
    BY ConstantFacts DEF UpTypes, LoopTypes, Junk
  <2>2. QED
    BY <2>1, ConstantFacts DEF LoopTypes
<1> DEFINE Drops == place' = IF place = "kept" /\ got = << >> THEN "kept" ELSE "lost"
<1>2. ASSUME client = "select", Drops \/ UNCHANGED place,
             UNCHANGED <<shown, emitted, command>>
      PROVE  Direct!Distracts
  BY <1>2, HalfReadIsReal DEF Direct!Distracts
<1>3. QED
  <2>1. CASE ReadStdin
    <3>1. /\ client = "select" /\ client' = "write" /\ stdinOpen /\ taken' = taken + 1
          /\ UNCHANGED <<stdinOpen, lastInt, received, eofSeen, interrupted, emitted,
                         command, shown>>
      BY <2>1 DEF ReadStdin, WriteFrame, remote
    <3>2. Direct!Distracts
      BY <1>2, <2>1, <3>1 DEF ReadStdin, WriteFrame
    <3>3. Direct!Type
      BY <1>1, <3>1, <3>2, UserIs, UserNext DEF Direct!Type, Direct!command
    <3>4. QED
      BY <3>3 DEF Direct!Next
  <2>2. CASE StdinEnds
    <3>1. /\ client = "select" /\ client' = "write" /\ stdinOpen' = FALSE
          /\ UNCHANGED <<taken, lastInt, received, eofSeen, interrupted, emitted,
                         command, shown>>
      BY <2>2 DEF StdinEnds, WriteFrame, remote
    <3>2. Direct!Distracts
      BY <1>2, <2>2, <3>1 DEF StdinEnds, WriteFrame
    <3>3. Direct!CloseStdin
      BY <1>1, <3>1, <3>2, UserIs, UserNext DEF Direct!CloseStdin, Direct!command
    <3>4. QED
      BY <3>3 DEF Direct!Next
  <2>3. ASSUME NEW x \in Signal, TakeSignal(x) PROVE [Direct!Next]_(Direct!vars)
    <3>1. /\ client = "select" /\ client' \in {"write", "forced"}
          /\ UNCHANGED <<taken, stdinOpen, received, eofSeen, interrupted, emitted,
                         command, shown>>
      BY <2>3 DEF TakeSignal, WriteFrame, remote
    <3>2. Direct!Distracts
      BY <1>2, <2>3, <3>1 DEF TakeSignal, WriteFrame
    <3>3. lastInt' \in {lastInt, TRUE}
      BY <1>1, <2>3, Zenon DEF TakeSignal
    <3>4. Direct!Press
      BY <1>1, <3>1, <3>2, <3>3, UserIs, UserNext DEF Direct!Press, Direct!command
    <3>5. QED
      BY <3>4 DEF Direct!Next
  <2>4. CASE PollFrame
    <3>1. /\ client = "select"
          /\ UNCHANGED <<taken, stdinOpen, lastInt, received, eofSeen, interrupted,
                         emitted, command>>
      BY <2>4 DEF PollFrame, remote
    <3>2. CASE place = "kept"
      <4>1. UNCHANGED place
        BY <2>4, <3>2, ShowsNext
      <4>2. CASE client' = "select" /\ shown' = shown
        BY <3>1, <4>1, <4>2, UserIs, UserNext, QuietForPipes
      <4>3. CASE client' = "select" /\ shown < emitted /\ shown' = shown + 1
        <5>1. Direct!See
          BY <3>1, <4>1, <4>3, UserIs, UserNext DEF Direct!See, Direct!input, Direct!command
        <5>2. QED
          BY <5>1 DEF Direct!Next
      <4>4. CASE client' = "reported" /\ command = "exited" /\ shown = emitted /\ shown' = shown
        <5>1. Direct!Report
          BY <3>1, <4>1, <4>4, UserIs, UserNext DEF Direct!Report, Direct!input, Direct!command
        <5>2. QED
          BY <5>1 DEF Direct!Next
      <4>5. QED
        BY <2>4, <3>2, <4>2, <4>3, <4>4, ShowsNext
    <3>3. CASE place # "kept"
      <4>1. place' # "kept"
        BY <3>3, NoWayBack
      <4>2. down # << >> => Head(down) \in Pieces
        BY DownMovables
      <4>3. client' \in {"select", "reported", "failed"} /\ shown' \in Nat
        BY <1>1, <2>4, <4>2, ConstantFacts
           DEF PollFrame, TakePart, Misread, Pieces, Downward, Junk, Exit
      <4>4. Direct!SeeWrongly
        BY <3>1, <3>3, <4>1, <4>3, UserIs, UserNext
           DEF Direct!SeeWrongly, Direct!input, Direct!command
      <4>5. QED
        BY <4>4 DEF Direct!Next
    <3>4. QED
      BY <3>2, <3>3
  <2>5. CASE PollEnd
    <3>1. /\ client \in {"select"} /\ client' \in {"failed"}
          /\ UNCHANGED <<taken, stdinOpen, lastInt, received, eofSeen, interrupted,
                         emitted, command, shown, place>>
      BY <1>1, <2>5 DEF PollEnd, remote
    <3>2. Direct!BreakOff
      BY <3>1, UserIs, UserNext DEF Direct!BreakOff, Direct!input, Direct!command
    <3>3. QED
      BY <3>2 DEF Direct!Next
  <2>6. CASE WriteUp
    <3>1. /\ client = "write" /\ client' = "select"
          /\ UNCHANGED <<taken, stdinOpen, lastInt, received, eofSeen, interrupted,
                         emitted, command, shown, place>>
      BY <2>6 DEF WriteUp, remote
    <3>2. QED
      BY <3>1, UserIs, UserNext, QuietForPipes
  <2>7. CASE WriteBroken
    <3>1. /\ client \in {"write"} /\ client' \in {"failed"}
          /\ UNCHANGED <<taken, stdinOpen, lastInt, received, eofSeen, interrupted,
                         emitted, command, shown, place>>
      BY <1>1, <2>7 DEF WriteBroken, remote
    <3>2. Direct!BreakOff
      BY <3>1, UserIs, UserNext DEF Direct!BreakOff, Direct!input, Direct!command
    <3>3. QED
      BY <3>2 DEF Direct!Next
  <2>8. CASE ClientDies
    <3>1. /\ client \in {"select", "write"} /\ client' \in {"killed", "torn"}
          /\ UNCHANGED <<taken, stdinOpen, lastInt, received, eofSeen, interrupted,
                         emitted, command, shown, place>>
      BY <1>1, <2>8 DEF ClientDies, ClientGone, remote
    <3>2. Direct!BreakOff
      BY <3>1, UserIs, UserNext DEF Direct!BreakOff, Direct!input, Direct!command
    <3>3. QED
      BY <3>2 DEF Direct!Next
  <2>9. CASE RouteFrame
    <3>1. UNCHANGED <<client, taken, stdinOpen, lastInt, received, eofSeen, interrupted,
                      emitted, command, shown, place>>
      BY <2>9 DEF RouteFrame, loop, remote
    <3>2. User' = User
      BY <3>1 DEF User
    <3>3. QED
      BY <3>1, <3>2, QuietForPipes
  <2>10. CASE ClientEnds
    <3>1. UNCHANGED <<client, taken, stdinOpen, lastInt, received, eofSeen, interrupted,
                      emitted, command, shown, place>>
      BY <2>10 DEF ClientEnds, ClientGone, loop, remote
    <3>2. User' = User
      BY <3>1 DEF User
    <3>3. QED
      BY <3>1, <3>2, QuietForPipes
  <2>11. CASE ClientResets
    <3>1. UNCHANGED <<client, taken, stdinOpen, lastInt, received, eofSeen, interrupted,
                      emitted, command, shown, place>>
      BY <2>11 DEF ClientResets, ClientGone, loop, remote
    <3>2. User' = User
      BY <3>1 DEF User
    <3>3. QED
      BY <3>1, <3>2, QuietForPipes
  <2>12. CASE AbandonExec
    <3>1. UNCHANGED <<client, taken, stdinOpen, lastInt, received, eofSeen, interrupted,
                      emitted, command, shown, place>>
      BY <2>12 DEF AbandonExec, DropEngine, loop, remote
    <3>2. User' = User
      BY <3>1 DEF User
    <3>3. QED
      BY <3>1, <3>2, QuietForPipes
  <2>13. CASE ForwardSignal
    <3>1. UNCHANGED <<client, taken, stdinOpen, lastInt, received, eofSeen, interrupted,
                      emitted, command, shown, place>>
      BY <2>13 DEF ForwardSignal, loop, remote
    <3>2. User' = User
      BY <3>1 DEF User
    <3>3. QED
      BY <3>1, <3>2, QuietForPipes
  <2>14. CASE EngineOutput
    <3>1. UNCHANGED <<client, taken, stdinOpen, lastInt, received, eofSeen, interrupted,
                      emitted, command, shown, place>>
      BY <2>14 DEF EngineOutput, ClientGone, loop, remote
    <3>2. User' = User
      BY <3>1 DEF User
    <3>3. QED
      BY <3>1, <3>2, QuietForPipes
  <2>15. CASE EngineExit
    <3>1. UNCHANGED <<client, taken, stdinOpen, lastInt, received, eofSeen, interrupted,
                      emitted, command, shown, place>>
      BY <2>15 DEF EngineExit, DropEngine, loop, remote
    <3>2. User' = User
      BY <3>1 DEF User
    <3>3. QED
      BY <3>1, <3>2, QuietForPipes
  <2>16. CASE WriteDown
    <3>1. UNCHANGED <<client, taken, stdinOpen, lastInt, received, eofSeen, interrupted,
                      emitted, command, shown, place>>
      BY <2>16 DEF WriteDown, ClientGone, loop, remote
    <3>2. User' = User
      BY <3>1 DEF User
    <3>3. QED
      BY <3>1, <3>2, QuietForPipes
  <2>17. CASE DropOutput
    <3>1. UNCHANGED <<client, taken, stdinOpen, lastInt, received, eofSeen, interrupted,
                      emitted, command, shown, place>>
      BY <2>17 DEF DropOutput, ClientGone, loop, remote
    <3>2. User' = User
      BY <3>1 DEF User
    <3>3. QED
      BY <3>1, <3>2, QuietForPipes
  <2>18. CASE CloseSocket
    <3>1. UNCHANGED <<client, taken, stdinOpen, lastInt, received, eofSeen, interrupted,
                      emitted, command, shown, place>>
      BY <2>18 DEF CloseSocket, loop, remote
    <3>2. User' = User
      BY <3>1 DEF User
    <3>3. QED
      BY <3>1, <3>2, QuietForPipes
  <2>19. CASE DaemonDies
    <3>1. UNCHANGED <<client, taken, stdinOpen, lastInt, received, eofSeen, interrupted,
                      emitted, command, shown, place>>
      BY <2>19 DEF DaemonDies, DropEngine, loop, remote
    <3>2. User' = User
      BY <3>1 DEF User
    <3>3. QED
      BY <3>1, <3>2, QuietForPipes
  <2>20. CASE SendSignal
    <3>1. /\ sigs # << >>
          /\ interrupted' = interrupted \/ (Head(sigs) = SigInt /\ command = "running" /\ interrupted' = TRUE)
          /\ UNCHANGED <<client, taken, stdinOpen, lastInt, received, eofSeen, emitted,
                         command, shown, place>>
      BY <1>1, <2>20 DEF SendSignal, loop
    <3>2. User' = User
      BY <3>1 DEF User
    <3>3. CASE interrupted' = interrupted
      BY <3>1, <3>2, <3>3, QuietForPipes
    <3>4. CASE Head(sigs) = SigInt /\ command = "running" /\ interrupted' = TRUE
      <4>1. Left(sigs, Tail(sigs))
        BY <3>1, SignalMovables
      <4>2. lastInt
        BY <3>4, <4>1, LeaveInt DEF IntSource
      <4>3. Direct!Interrupt
        BY <3>1, <3>2, <3>4, <4>2 DEF Direct!Interrupt, Direct!input, Direct!screen
      <4>4. QED
        BY <4>3 DEF Direct!Next
    <3>5. QED
      BY <3>1, <3>3, <3>4
  <2>21. CASE ForwardInBand
    <3>1. UNCHANGED <<client, taken, stdinOpen, lastInt, received, eofSeen, interrupted,
                      emitted, command, shown, place>>
      BY <2>21 DEF ForwardInBand, loop, remote
    <3>2. User' = User
      BY <3>1 DEF User
    <3>3. QED
      BY <3>1, <3>2, QuietForPipes
  <2>22. CASE ForwardStdin
    <3>1. UNCHANGED <<client, taken, stdinOpen, lastInt, received, eofSeen, interrupted,
                      emitted, command, shown, place>>
      BY <2>22 DEF ForwardStdin, loop, remote
    <3>2. User' = User
      BY <3>1 DEF User
    <3>3. QED
      BY <3>1, <3>2, QuietForPipes
  <2>23. CASE CommandReads
    <3> DEFINE f == Head(wire)
    <3>1. /\ command = "running" /\ wire # << >> /\ f \notin Signal
          /\ f = Eof => eofSeen' = TRUE /\ received' = received
          /\ f # Eof => eofSeen' = eofSeen /\ received' = Append(received, f)
          /\ UNCHANGED <<client, taken, stdinOpen, lastInt, interrupted, emitted,
                         command, shown, place>>
      BY <2>23 DEF CommandReads, loop
    <3>2. User' = User
      BY <3>1 DEF User
    <3>3. Left(wire, Tail(wire)) /\ f \in Upward
      BY <3>1, Movables DEF Movable
    <3>4. PICK w \in 0 .. taken : InWire(w)
      BY <3>1 DEF StdinInv, EofCounted
    <3>5. /\ IsData(f) => f = Len(received) + 1 /\ Len(received) + 1 <= w
          /\ ~IsData(f) => Carries(Tail(wire), Len(received), w)
      BY <1>1, <3>3, <3>4, LeaveCarries DEF InWire
    <3>6. /\ EofAtEnd(wire) /\ f = Eof => NoData(wire)
          /\ f = Eof => HasEof(wire)
          /\ IsData(f) => ~NoData(wire)
      BY <3>3, LeaveEof
    <3> HIDE DEF f
    <3>7. CASE f = Eof
      <4>1. Len(received) = w
        BY <1>1, <3>4, <3>6, <3>7, CarriesNothing DEF InWire, StdinInv, EofOrder
      <4>2. w + 1 >= taken /\ (client # "torn" => w = taken)
        BY <3>4, <3>6, <3>7 DEF InWire
      <4>3. Len(received) = taken \/ (User = "torn" /\ Len(received) + 1 = taken)
        BY <1>1, <3>4, <4>1, <4>2, UserIs
      <4>4. ~stdinOpen \/ ClientGone
        BY <3>6, <3>7 DEF StdinInv, EofSource
      <4>5. ~stdinOpen \/ User # "there"
        BY <1>1, <4>4, UserIs DEF ClientGone
      <4>6. Direct!ReadEnd
        BY <3>1, <3>2, <3>7, <4>3, <4>5 DEF Direct!ReadEnd, Direct!input, Direct!screen
      <4>7. QED
        BY <4>6 DEF Direct!Next
    <3>8. CASE f # Eof
      <4>1. IsData(f)
        BY <3>1, <3>3, <3>8, Kinds
      <4>2. ~eofSeen
        BY <3>6, <4>1 DEF StdinInv, EofCounted
      <4>3. f = Len(received) + 1 /\ Len(received) < taken
        BY <1>1, <3>4, <3>5, <4>1
      <4>4. Direct!Read
        BY <3>1, <3>2, <3>8, <4>2, <4>3 DEF Direct!Read, Direct!input, Direct!screen
      <4>5. QED
        BY <4>4 DEF Direct!Next
    <3>9. QED
      BY <3>7, <3>8
  <2>24. CASE ServeTakesSignal
    <3>1. /\ wire # << >>
          /\ interrupted' = interrupted \/ (Head(wire) = SigInt /\ command = "running" /\ interrupted' = TRUE)
          /\ UNCHANGED <<client, taken, stdinOpen, lastInt, received, eofSeen, emitted,
                         command, shown, place>>
      BY <1>1, <2>24 DEF ServeTakesSignal, loop
    <3>2. User' = User
      BY <3>1 DEF User
    <3>3. CASE interrupted' = interrupted
      BY <3>1, <3>2, <3>3, QuietForPipes
    <3>4. CASE Head(wire) = SigInt /\ command = "running" /\ interrupted' = TRUE
      <4>1. Left(wire, Tail(wire))
        BY <3>1, Movables DEF Movable
      <4>2. lastInt
        BY <3>4, <4>1, LeaveInt DEF IntSource
      <4>3. Direct!Interrupt
        BY <3>1, <3>2, <3>4, <4>2 DEF Direct!Interrupt, Direct!input, Direct!screen
      <4>4. QED
        BY <4>3 DEF Direct!Next
    <3>5. QED
      BY <3>1, <3>3, <3>4
  <2>25. CASE CommandWrites
    <3>1. /\ command = "running" /\ emitted' = emitted + 1
          /\ UNCHANGED <<client, taken, stdinOpen, lastInt, received, eofSeen,
                         interrupted, command, shown, place>>
      BY <2>25 DEF CommandWrites, loop
    <3>2. User' = User
      BY <3>1 DEF User
    <3>3. Direct!Write
      BY <3>1, <3>2 DEF Direct!Write, Direct!input, Direct!screen
    <3>4. QED
      BY <3>3 DEF Direct!Next
  <2>26. CASE CommandExits
    <3>1. /\ command = "running" /\ command' = "exited"
          /\ UNCHANGED <<client, taken, stdinOpen, lastInt, received, eofSeen,
                         interrupted, emitted, shown, place>>
      BY <2>26 DEF CommandExits, loop
    <3>2. User' = User
      BY <3>1 DEF User
    <3>3. Direct!End
      BY <3>1, <3>2 DEF Direct!End, Direct!input, Direct!screen
    <3>4. QED
      BY <3>3 DEF Direct!Next
  <2>27. CASE UNCHANGED vars
    <3>1. UNCHANGED <<client, taken, stdinOpen, lastInt, received, eofSeen, interrupted,
                      emitted, command, shown, place>>
      BY <2>27 DEF vars, loop, socket, daemon, engine, remote
    <3>2. User' = User
      BY <3>1 DEF User
    <3>3. QED
      BY <3>1, <3>2, QuietForPipes
  <2>28. QED
    BY <2>1, <2>2, <2>3, <2>4, <2>5, <2>6, <2>7, <2>8, <2>9, <2>10, <2>11, <2>12,
       <2>13, <2>14, <2>15, <2>16, <2>17, <2>18, <2>19, <2>20, <2>21, <2>22, <2>23,
       <2>24, <2>25, <2>26, <2>27
    DEF Next, ClientStep, DaemonStep, EngineStep, CommandStep

\* A run is one of a local command, or a broken-off part of it: whatever the capacities
\* of the queues are and whoever dies, each item of stdin passes once and in order, the end
\* of stdin comes last, and no interrupt is made up.  So it is with the output and the exit
\* code, until the user types or presses a key with some of them on their way.
THEOREM RelayImplementsPipes == Spec => ActsAsLocal
<1>1. Init => Direct!Init
  BY DEF Init, Direct!Init, User
<1>2. TypeOK /\ RoomForExit /\ StdinInv /\ OutputInv /\ IntSource /\ [Next]_vars
        => [Direct!Next]_(Direct!vars)
  BY StepIsDirect, TypeParts
<1>3. QED
  BY <1>1, <1>2, TypesInvariant, StdinInvariant, OutputInvariant, IntInvariant, PTL
     DEF Spec, ActsAsLocal, Direct!Spec
=============================================================================
