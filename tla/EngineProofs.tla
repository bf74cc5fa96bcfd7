---------------------------- MODULE EngineProofs ----------------------------
(***************************************************************************)
(* Theorems about Engine, for any streams and units, lane capacities and   *)
(* timeouts in the order the assumption states.                            *)
(***************************************************************************)
EXTENDS Engine, WellFoundedInduction, TLAPS

(***************************************************************************)
(* The forwarder is not aborted before it had its chance to close          *)
(***************************************************************************)
Joining == wait = "joining" \/ reaper = "joining"

\* The forwarder's states and the clocks; a close is given up in time.
Clocks ==
  /\ fwd \in {"select", "writing", "closing", "done", "aborted"}
  /\ inband \in Nat
  /\ closeAge \in Nat /\ joinAge \in Nat
  /\ fwd = "closing" => closeAge <= CloseTime

\* Whoever tears down has fired the flag.
Latched == wait \in {"finishing", "joining"} \/ reaper = "joining" => shutdown

\* While somebody waits for the forwarder, time passes only when it is closing the
\* channel, for at least as long as it is waited for, or has ended, or spins.
Progress ==
  Joining =>
    /\ joinAge > 0 => fwd \in {"closing", "done", "aborted"} \/ Spins
    /\ fwd = "closing" => joinAge <= closeAge

\* What the teardown keeps, with the property itself.
TeardownInv == Clocks /\ Latched /\ Progress /\ CloseAfterEof

\* Every step keeps it.
LEMMA TeardownInvKept ==
  ASSUME TeardownInv, [Next]_vars
  PROVE  TeardownInv'
<1> USE EngineAssumption DEF TeardownInv, Clocks, Latched, Progress, CloseAfterEof, Joining, Spins
<1> USE DEF channel, input, decoder, control, output, teardown
<1>1. CASE Remote
  BY <1>1 DEF Remote, RemoteEnds, LinkFails
<1>2. CASE Reading
  BY <1>2 DEF Reading, ReadChunk, ReadEnd, HandOn, ReaderEnds, Receive
<1>3. CASE Loop
  <2>1. CASE TakeData
    BY <2>1 DEF TakeData, Leave
  <2>2. CASE Deliver
    BY <2>2 DEF Deliver, Leave
  <2>3. CASE TakeEnd
    BY <2>3 DEF TakeEnd, Leave
  <2>4. QED
    BY <1>3, <2>1, <2>2, <2>3 DEF Loop
<1>4. CASE Sending
  <2>1. CASE TakeSignal
    BY <2>1 DEF TakeSignal
  <2>2. CASE SignalSent
    BY <2>2 DEF SignalSent
  <2>3. CASE SenderEnds
    BY <2>3 DEF SenderEnds
  <2>4. QED
    BY <1>4, <2>1, <2>2, <2>3 DEF Sending
<1>5. CASE Forwarding
  <2>1. CASE ForwardItem
    BY <2>1 DEF ForwardItem
  <2>2. CASE WriteDone
    BY <2>2 DEF WriteDone
  <2>3. CASE WriteFails
    BY <2>3 DEF WriteFails, BeginClose
  <2>4. CASE ForwarderLeaves
    BY <2>4 DEF ForwarderLeaves, BeginClose, SeesFlag
  <2>5. CASE CloseDone
    BY <2>5 DEF CloseDone
  <2>6. CASE CloseTimeout
    BY <2>6 DEF CloseTimeout
  <2>7. QED
    BY <1>5, <2>1, <2>2, <2>3, <2>4, <2>5, <2>6 DEF Forwarding
<1>6. CASE Ending
  <2>1. CASE AbortSides
    BY <2>1 DEF AbortSides, Forget
  <2>2. CASE Joined
    BY <2>2 DEF Joined
  <2>3. CASE JoinTimeout
    BY <2>3 DEF JoinTimeout
  <2>4. CASE DropEngine
    BY <2>4 DEF DropEngine
  <2>5. CASE Reaped
    BY <2>5 DEF Reaped
  <2>6. CASE ReapTimeout
    BY <2>6 DEF ReapTimeout
  <2>7. QED
    BY <1>6, <2>1, <2>2, <2>3, <2>4, <2>5, <2>6 DEF Ending
<1>7. CASE Tick
  <2>1. Clocks' /\ Latched' /\ CloseAfterEof'
    BY <1>7 DEF Tick, Idle
  <2>2. CASE fwd = "closing"
    BY <1>7, <2>2 DEF Tick, Idle
  <2>3. CASE fwd \in {"done", "aborted"}
    BY <1>7, <2>3 DEF Tick, Idle
  <2>4. CASE fwd \in {"select", "writing"}
    <3>1. Joining => Spins
      BY <1>7, <2>4 DEF Tick, Idle, SeesFlag
    <3>2. QED
      BY <1>7, <2>4, <3>1 DEF Tick
  <2>5. QED
    BY <2>1, <2>2, <2>3, <2>4
<1>8. CASE UNCHANGED vars
  BY <1>8 DEF vars
<1>9. QED
  BY <1>1, <1>2, <1>3, <1>4, <1>5, <1>6, <1>7, <1>8 DEF Next

\* A forwarder that has passed on the end of stdin is never aborted: with nothing
\* left to read it sees the flag at once, and its close is given up before it is.
THEOREM CloseAlwaysTried == Spec => []CloseAfterEof
<1>1. Init => TeardownInv
  BY DEF Init, TeardownInv, Clocks, Latched, Progress, Joining, CloseAfterEof
<1>2. TeardownInv /\ [Next]_vars => TeardownInv'
  BY TeardownInvKept
<1>3. TeardownInv => CloseAfterEof
  BY DEF TeardownInv
<1>4. QED
  BY <1>1, <1>2, <1>3, PTL DEF Spec

(***************************************************************************)
(* wait() leaves no task behind                                            *)
(***************************************************************************)
SidesDone == reader = "done" /\ sender = "done"

\* finish returns only when all three tasks are over, however they were waiting.
FinishJoinsAll == wait = "returned" => AllDone

JoinInv ==
  /\ wait \in {"joining", "returned"} => SidesDone
  /\ FinishJoinsAll

LEMMA JoinInvKept ==
  ASSUME JoinInv, [Next]_vars
  PROVE  JoinInv'
<1> USE DEF JoinInv, SidesDone, FinishJoinsAll, AllDone
<1> USE DEF channel, input, decoder, control, output, teardown
<1>1. CASE Remote
  BY <1>1 DEF Remote, RemoteEnds, LinkFails
<1>2. CASE Reading
  BY <1>2 DEF Reading, ReadChunk, ReadEnd, HandOn, ReaderEnds, Receive
<1>3. CASE Loop
  BY <1>3 DEF Loop, TakeData, Deliver, TakeEnd, Leave
<1>4. CASE Sending
  BY <1>4 DEF Sending, TakeSignal, SignalSent, SenderEnds
<1>5. CASE Forwarding
  BY <1>5 DEF Forwarding, ForwardItem, WriteDone, WriteFails, ForwarderLeaves, SeesFlag,
     BeginClose, CloseDone, CloseTimeout
<1>6. CASE Ending
  BY <1>6 DEF Ending, AbortSides, Forget, Joined, JoinTimeout, DropEngine, Reaped, ReapTimeout
<1>7. CASE Tick
  BY <1>7 DEF Tick
<1>8. CASE UNCHANGED vars
  BY <1>8 DEF vars
<1>9. QED
  BY <1>1, <1>2, <1>3, <1>4, <1>5, <1>6, <1>7, <1>8 DEF Next

\* A wait() that returns has joined or aborted the reader, the signal sender and the
\* forwarder: an execution that is not cancelled leaves no task behind.
THEOREM NoTaskAfterReturn == Spec => []FinishJoinsAll
<1>1. Init => JoinInv
  BY DEF Init, JoinInv, FinishJoinsAll
<1>2. JoinInv /\ [Next]_vars => JoinInv'
  BY JoinInvKept
<1>3. JoinInv => FinishJoinsAll
  BY DEF JoinInv
<1>4. QED
  BY <1>1, <1>2, <1>3, PTL DEF Spec

(***************************************************************************)
(* What the decoder delivers is what a reader of the whole stream finds    *)
(***************************************************************************)
\* A set of naturals has a least element.
LEMMA Least ==
  ASSUME NEW T \in SUBSET Nat, T # {}
  PROVE  \E n \in T : \A m \in T : n <= m
<1> DEFINE R == {ss \in Nat \X Nat : ss[1] < ss[2]}
<1>1. IsWellFoundedOn(R, Nat)
  BY NatLessThanWellFounded DEF OpToRel
<1>2. \E n \in T : \A y \in T : <<y, n>> \notin R
  <2> HIDE DEF R
  <2>1. QED
    BY <1>1, WFMin
<1>3. PICK n \in T : \A y \in T : <<y, n>> \notin R
  BY <1>2
<1>4. \A m \in T : ~(m < n)
  BY <1>3
<1>5. QED
  BY <1>4


\* A function into records that recurs on something smaller.
Recursion(f, S, stop, base, step, head) ==
  f = [q \in S |-> IF q \in stop THEN base[q]
                   ELSE [f[step[q]] EXCEPT !.frames = <<head[q]>> \o @]]

\* There is such a function.
LEMMA RecursionExists ==
  ASSUME NEW S, NEW size \in [S -> Nat], NEW stop, NEW base, NEW head,
         NEW step \in [S -> S], \A q \in S \ stop : size[step[q]] < size[q]
  PROVE  \E f : Recursion(f, S, stop, base, step, head)
<1> DEFINE Below(n) == {q \in S : size[q] < n}
           Value(f, q) == IF q \in stop THEN base[q]
                          ELSE [f[step[q]] EXCEPT !.frames = <<head[q]>> \o @]
           Upto(f, n) == \A q \in Below(n) : f[q] = Value(f, q)
<1>1. ASSUME NEW n \in Nat, NEW f, NEW g, Upto(f, n), Upto(g, n)
      PROVE  \A q \in Below(n) : f[q] = g[q]
  <2> DEFINE T == {size[q] : q \in {r \in Below(n) : f[r] # g[r]}}
  <2>1. SUFFICES ASSUME T # {} PROVE FALSE
    OBVIOUS
  <2>2. PICK k \in T : \A m \in T : k <= m
    <3>1. T \in SUBSET Nat
      OBVIOUS
    <3> HIDE DEF T
    <3>2. QED
      BY <2>1, <3>1, Least
  <2>3. PICK q \in Below(n) : f[q] # g[q] /\ size[q] = k
    OBVIOUS
  <2>4. f[q] = Value(f, q) /\ g[q] = Value(g, q)
    BY <1>1, <2>3
  <2>5. q \notin stop
    BY <2>3, <2>4
  <2>6. step[q] \in Below(n) /\ size[step[q]] < k /\ size[step[q]] \in Nat /\ k \in Nat
    BY <2>3, <2>5
  <2>7. f[step[q]] = g[step[q]]
    <3>1. f[step[q]] # g[step[q]] => size[step[q]] \in T
      BY <2>6
    <3> HIDE DEF T
    <3>2. QED
      BY <2>2, <2>6, <3>1
  <2>8. QED
    BY <2>3, <2>4, <2>7
<1>2. ASSUME NEW n \in Nat PROVE \E f : Upto(f, n)
  <2> DEFINE T == {m \in Nat : ~\E f : Upto(f, m)}
  <2>1. SUFFICES ASSUME T # {} PROVE FALSE
    BY <2>1
  <2>2. PICK k \in T : \A m \in T : k <= m
    <3>1. T \in SUBSET Nat
      OBVIOUS
    <3> HIDE DEF T
    <3>2. QED
      BY <2>1, <3>1, Least
  <2>3. k # 0
    <3>1. Below(0) = {}
      OBVIOUS
    <3>2. \A f : Upto(f, 0)
      BY <3>1
    <3>3. QED
      BY <3>2
  <2>4. k - 1 \in Nat /\ k - 1 \notin T
    <3>1. k \in Nat
      OBVIOUS
    <3> HIDE DEF T
    <3>2. k - 1 \in Nat /\ ~(k <= k - 1)
      BY ONLY <2>3, <3>1
    <3>3. QED
      BY <2>2, <3>2
  <2>5. PICK f : Upto(f, k - 1)
    BY <2>4
  <2> DEFINE g == [q \in S |-> IF size[q] < k - 1 THEN f[q] ELSE Value(f, q)]
  <2>6. \A q \in Below(k) : g[q] = Value(f, q)
    BY <2>5
  <2>7. \A q \in Below(k) \ stop : g[step[q]] = f[step[q]]
    <3> SUFFICES ASSUME NEW q \in Below(k) \ stop PROVE g[step[q]] = f[step[q]]
      OBVIOUS
    <3>1. step[q] \in S /\ size[step[q]] < k - 1
      BY <2>4
    <3>2. QED
      BY <3>1
  <2> HIDE DEF g
  <2>8. Upto(g, k)
    BY <2>6, <2>7
  <2>9. QED
    BY <2>8
<1> DEFINE Some(n) == CHOOSE f : Upto(f, n)
           F == [q \in S |-> Some(size[q] + 1)[q]]
<1>3. \A n \in Nat : Upto(Some(n), n)
  BY <1>2
<1>4. ASSUME NEW q \in S PROVE F[q] = Value(F, q)
  <2> DEFINE n == size[q] + 1
             f == Some(n)
  <2>1. n \in Nat /\ q \in Below(n)
    OBVIOUS
  <2>2. Upto(f, n)
    BY <1>3, <2>1
  <2>3. F[q] = Value(f, q)
    BY <2>1, <2>2
  <2>4. CASE q \in stop
    BY <2>3, <2>4
  <2>5. CASE q \notin stop
    <3> DEFINE r == step[q]
               m == size[r] + 1
    <3>1. r \in S /\ m \in Nat /\ m <= n /\ r \in Below(m) /\ Below(m) \subseteq Below(n)
      BY <2>5
    <3>2. Upto(f, m) /\ Upto(Some(m), m)
      BY <1>3, <2>2, <3>1
    <3>3. f[r] = Some(m)[r]
      <4> HIDE DEF f, Some, Upto, Below, m, r
      <4>1. QED
        BY <1>1, <3>1, <3>2
    <3>4. F[r] = f[r]
      BY <3>1, <3>3
    <3> HIDE DEF F, f
    <3>5. QED
      BY <2>3, <2>5, <3>4
  <2>6. QED
    BY <2>4, <2>5
<1>5. F = [q \in S |-> F[q]]
  OBVIOUS
<1> HIDE DEF F
<1>6. F = [q \in S |-> Value(F, q)]
  BY <1>4, <1>5
<1>7. QED
  BY <1>6 DEF Recursion

\* A stream, and its first frame if it is whole: payload, what is behind it, frame.
Bytes == Seq(Unit)
Payload(q) == SubSeq(q, 3, 2 + q[2])
Rest(q) == SubSeq(q, 3 + q[2], Len(q))
First(q) == [kind |-> q[1], payload |-> Payload(q)]

\* It starts with a whole frame, or with one that the decoder refuses.
Complete(q) ==
  /\ Len(q) >= 2 /\ q[2] <= MaxPayload /\ Len(q) >= 2 + q[2]
  /\ q[1] \in {Out, Exit} /\ Parses(q[1], Payload(q))
Refused(q) ==
  /\ Len(q) >= 2
  /\ \/ q[2] > MaxPayload
     \/ Len(q) >= 2 + q[2] /\ (q[1] \notin {Out, Exit} \/ ~Parses(q[1], Payload(q)))

\* The right-hand side of the equation of Push, and its solutions.
Drained(f, q) ==
  IF Len(q) < 2 THEN [bad |-> FALSE, frames |-> << >>, rest |-> q]
  ELSE IF q[2] > MaxPayload THEN [bad |-> TRUE, frames |-> << >>, rest |-> q]
  ELSE IF Len(q) < 2 + q[2] THEN [bad |-> FALSE, frames |-> << >>, rest |-> q]
  ELSE IF q[1] \notin {Out, Exit} \/ ~Parses(q[1], Payload(q))
         THEN [bad |-> TRUE, frames |-> << >>, rest |-> q]
         ELSE [f[Rest(q)] EXCEPT !.frames = <<First(q)>> \o @]
IsDrain(f) == f = [q \in Bytes |-> Drained(f, q)]

\* The same for ReadAll.
ReadOn(f, q) ==
  IF q = << >> THEN [end |-> "clean", frames |-> << >>]
  ELSE IF Len(q) < 2 THEN [end |-> "partial", frames |-> << >>]
  ELSE IF q[1] \notin {Out, Exit} \/ q[2] > MaxPayload
    THEN [end |-> "bad", frames |-> << >>]
  ELSE IF Len(q) < 2 + q[2] THEN [end |-> "partial", frames |-> << >>]
  ELSE IF ~Parses(q[1], Payload(q)) THEN [end |-> "bad", frames |-> << >>]
  ELSE [f[Rest(q)] EXCEPT !.frames = <<First(q)>> \o @]
IsRead(f) == f = [q \in Bytes |-> ReadOn(f, q)]

\* Push and ReadAll are the solutions that are chosen.
LEMMA PushIs ==
  ASSUME NEW b, NEW chunk
  PROVE  Push(b, chunk) = (CHOOSE f : IsDrain(f))[b \o chunk]
BY DEF Push, IsDrain, Drained, Bytes, Payload, Rest, First

LEMMA ReadAllIs ==
  ASSUME NEW bytes
  PROVE  ReadAll(bytes) = (CHOOSE f : IsRead(f))[bytes]
BY DEF ReadAll, IsRead, ReadOn, Bytes, Payload, Rest, First

\* The parts of a stream.
LEMMA UnitTypes ==
  ASSUME NEW q \in Bytes
  PROVE  /\ Len(q) \in Nat
         /\ Len(q) >= 2 => /\ q[1] \in Nat /\ q[2] \in Nat
                           /\ Rest(q) \in Bytes /\ Len(Rest(q)) < Len(q)
         /\ Len(q) >= 2 /\ Len(q) >= 2 + q[2] => Payload(q) \in Bytes
<1>1. Len(q) \in Nat /\ \A i \in 1 .. Len(q) : q[i] \in Nat /\ q[i] \in Unit
  BY EngineAssumption DEF Bytes, Unit
<1>2. ASSUME Len(q) >= 2
      PROVE  /\ q[1] \in Nat /\ q[2] \in Nat
             /\ SubSeq(q, 3 + q[2], Len(q)) \in Seq(Unit)
             /\ Len(SubSeq(q, 3 + q[2], Len(q))) < Len(q)
  <2>1. q[1] \in Nat /\ q[2] \in Nat
    BY <1>1, <1>2
  <2>2. \A a \in Nat : a >= 1 => /\ SubSeq(q, a, Len(q)) \in Seq(Unit)
                                 /\ Len(SubSeq(q, a, Len(q)))
                                      = IF a <= Len(q) THEN Len(q) - a + 1 ELSE 0
    BY <1>1 DEF Bytes
  <2>3. 3 + q[2] \in Nat /\ 3 + q[2] >= 1 /\ 3 + q[2] > 1
    BY <2>1
  <2>4. \A a \in Nat : a >= 3 => (IF a <= Len(q) THEN Len(q) - a + 1 ELSE 0) < Len(q)
    BY <1>1, <1>2
  <2>5. 3 + q[2] >= 3
    BY <2>1
  <2>6. QED
    BY <2>1, <2>2, <2>3, <2>4, <2>5
<1>3. ASSUME Len(q) >= 2, Len(q) >= 2 + q[2] PROVE SubSeq(q, 3, 2 + q[2]) \in Seq(Unit)
  <2>1. 2 + q[2] \in Nat
    BY <1>2, <1>3
  <2>2. \A i \in 3 .. 2 + q[2] : q[i] \in Unit
    BY <1>1, <1>3, <2>1 DEF Unit
  <2>3. QED
    BY <2>1, <2>2
<1>4. QED
  BY <1>1, <1>2, <1>3 DEF Rest, Payload, Bytes

\* What one round of the decoder does.
LEMMA DrainedCases ==
  ASSUME NEW q \in Bytes, NEW f
  PROVE  /\ Complete(q) => Drained(f, q) = [f[Rest(q)] EXCEPT !.frames = <<First(q)>> \o @]
         /\ ~Complete(q) /\ Refused(q) =>
              Drained(f, q) = [bad |-> TRUE, frames |-> << >>, rest |-> q]
         /\ ~Complete(q) /\ ~Refused(q) =>
              Drained(f, q) = [bad |-> FALSE, frames |-> << >>, rest |-> q]
         /\ Complete(q) => ~Refused(q)
<1> DEFINE short == Len(q) < 2
           long == q[2] > MaxPayload
           part == Len(q) < 2 + q[2]
           odd == q[1] \notin {Out, Exit} \/ ~Parses(q[1], Payload(q))
<1>1. /\ (Len(q) >= 2) <=> ~short
      /\ ~short => ((q[2] <= MaxPayload) <=> ~long) /\ ((Len(q) >= 2 + q[2]) <=> ~part)
  BY UnitTypes, EngineAssumption
<1>2. Complete(q) <=> ~short /\ ~long /\ ~part /\ ~odd
  BY <1>1 DEF Complete
<1>3. Refused(q) <=> ~short /\ (long \/ (~part /\ odd))
  BY <1>1 DEF Refused
<1>4. Drained(f, q) =
        IF short THEN [bad |-> FALSE, frames |-> << >>, rest |-> q]
        ELSE IF long THEN [bad |-> TRUE, frames |-> << >>, rest |-> q]
        ELSE IF part THEN [bad |-> FALSE, frames |-> << >>, rest |-> q]
        ELSE IF odd THEN [bad |-> TRUE, frames |-> << >>, rest |-> q]
             ELSE [f[Rest(q)] EXCEPT !.frames = <<First(q)>> \o @]
  BY DEF Drained
<1> HIDE DEF short, long, part, odd
<1>5. QED
  BY <1>2, <1>3, <1>4

\* How the reader calls the end of what holds no whole frame.
EndOf(q) ==
  IF q = << >> THEN "clean"
  ELSE IF Len(q) < 2 THEN "partial"
  ELSE IF q[1] \notin {Out, Exit} \/ q[2] > MaxPayload THEN "bad"
  ELSE IF Len(q) < 2 + q[2] THEN "partial" ELSE "bad"

\* What one round of the reader does.
LEMMA ReadCases ==
  ASSUME NEW q \in Bytes, NEW f
  PROVE  /\ Complete(q) => ReadOn(f, q) = [f[Rest(q)] EXCEPT !.frames = <<First(q)>> \o @]
         /\ ~Complete(q) => ReadOn(f, q) = [end |-> EndOf(q), frames |-> << >>]
<1>1. /\ Len(q) \in Nat /\ (Len(q) >= 2 => q[2] \in Nat) /\ MaxPayload \in Nat
      /\ q = << >> => Len(q) = 0
  BY UnitTypes, EngineAssumption
<1>2. CASE Len(q) < 2
  BY <1>1, <1>2 DEF ReadOn, Complete, EndOf
<1>3. CASE Len(q) >= 2 /\ (q[1] \notin {Out, Exit} \/ q[2] > MaxPayload)
  BY <1>1, <1>3 DEF ReadOn, Complete, EndOf
<1>4. CASE Len(q) >= 2 /\ ~(q[1] \notin {Out, Exit} \/ q[2] > MaxPayload) /\ Len(q) < 2 + q[2]
  BY <1>1, <1>4 DEF ReadOn, Complete, EndOf
<1>5. CASE /\ Len(q) >= 2 /\ ~(q[1] \notin {Out, Exit} \/ q[2] > MaxPayload)
           /\ ~(Len(q) < 2 + q[2]) /\ ~Parses(q[1], Payload(q))
  BY <1>1, <1>5 DEF ReadOn, Complete, EndOf
<1>6. CASE /\ Len(q) >= 2 /\ ~(q[1] \notin {Out, Exit} \/ q[2] > MaxPayload)
           /\ ~(Len(q) < 2 + q[2]) /\ Parses(q[1], Payload(q))
  BY <1>1, <1>6 DEF ReadOn, Complete
<1>7. QED
  BY <1>1, <1>2, <1>3, <1>4, <1>5, <1>6

\* The recursion goes behind a whole frame, to a shorter stream.
Partial == {q \in Bytes : ~Complete(q)}
Size == [q \in Bytes |-> Len(q)]
Behind == [q \in Bytes |-> IF Complete(q) THEN Rest(q) ELSE q]
Front == [q \in Bytes |-> First(q)]

\* It does become shorter.
LEMMA SmallerBehind ==
  /\ Size \in [Bytes -> Nat] /\ Behind \in [Bytes -> Bytes]
  /\ \A q \in Bytes \ Partial : Size[Behind[q]] < Size[q] /\ Complete(q)
<1>1. ASSUME NEW q \in Bytes
      PROVE  Len(q) \in Nat /\ (Complete(q) => Rest(q) \in Bytes /\ Len(Rest(q)) < Len(q))
  <2>1. Complete(q) => Len(q) >= 2
    BY DEF Complete
  <2>2. QED
    BY <2>1, UnitTypes
<1>2. Size \in [Bytes -> Nat] /\ Behind \in [Bytes -> Bytes]
  BY <1>1 DEF Size, Behind
<1>3. ASSUME NEW q \in Bytes \ Partial PROVE Size[Behind[q]] < Size[q] /\ Complete(q)
  <2>1. q \in Bytes /\ Complete(q)
    BY DEF Partial
  <2>2. QED
    BY <1>1, <2>1 DEF Size, Behind
<1>4. QED
  BY <1>2, <1>3

\* So the equation of Push has a solution, and Push is one.
LEMMA DrainChosen ==
  \E f : IsDrain(f) /\ \A b, chunk : Push(b, chunk) = f[b \o chunk]
<1> DEFINE base == [q \in Bytes |-> [bad |-> IF Refused(q) THEN TRUE ELSE FALSE,
                                      frames |-> << >>, rest |-> q]]
<1>1. PICK f : Recursion(f, Bytes, Partial, base, Behind, Front)
  <2> HIDE DEF base
  <2>1. QED
    BY SmallerBehind, RecursionExists
<1>2. \A q \in Bytes : (IF q \in Partial THEN base[q]
                        ELSE [f[Behind[q]] EXCEPT !.frames = <<Front[q]>> \o @]) = Drained(f, q)
  <2> SUFFICES ASSUME NEW q \in Bytes
               PROVE  (IF q \in Partial THEN base[q]
                        ELSE [f[Behind[q]] EXCEPT !.frames = <<Front[q]>> \o @]) = Drained(f, q)
    OBVIOUS
  <2>1. CASE Complete(q)
    BY <2>1, DrainedCases DEF Partial, Behind, Front
  <2>2. CASE ~Complete(q) /\ Refused(q)
    BY <2>2, DrainedCases DEF Partial
  <2>4. CASE ~Complete(q) /\ ~Refused(q)
    BY <2>4, DrainedCases DEF Partial
  <2>3. QED
    BY <2>1, <2>2, <2>4
<1> HIDE DEF base
<1>3. IsDrain(f)
  BY <1>1, <1>2 DEF Recursion, IsDrain
<1>4. QED
  BY <1>3, PushIs

\* So has that of ReadAll.
LEMMA ReadChosen ==
  \E f : IsRead(f) /\ \A bytes : ReadAll(bytes) = f[bytes]
<1> DEFINE base == [q \in Bytes |-> [end |-> EndOf(q), frames |-> << >>]]
<1>1. PICK f : Recursion(f, Bytes, Partial, base, Behind, Front)
  <2> HIDE DEF base
  <2>1. QED
    BY SmallerBehind, RecursionExists
<1>2. \A q \in Bytes : (IF q \in Partial THEN base[q]
                        ELSE [f[Behind[q]] EXCEPT !.frames = <<Front[q]>> \o @]) = ReadOn(f, q)
  <2> SUFFICES ASSUME NEW q \in Bytes
               PROVE  (IF q \in Partial THEN base[q]
                        ELSE [f[Behind[q]] EXCEPT !.frames = <<Front[q]>> \o @]) = ReadOn(f, q)
    OBVIOUS
  <2>1. CASE Complete(q)
    BY <2>1, ReadCases DEF Partial, Behind, Front
  <2>2. CASE ~Complete(q)
    BY <2>2, ReadCases DEF Partial
  <2>3. QED
    BY <2>1, <2>2
<1> HIDE DEF base
<1>3. IsRead(f)
  BY <1>1, <1>2 DEF Recursion, IsRead
<1>4. QED
  BY <1>3, ReadAllIs

\* Induction over streams: no set of streams goes from whole frame to whole frame for ever.
LEMMA Descent ==
  ASSUME NEW Q \in SUBSET Bytes, \A x \in Q : Complete(x) /\ Rest(x) \in Q
  PROVE  Q = {}
<1> DEFINE T == {Len(x) : x \in Q}
<1>1. \A x \in Q : Len(x) \in Nat /\ Len(Rest(x)) < Len(x) /\ Len(Rest(x)) \in T
  <2> SUFFICES ASSUME NEW x \in Q
               PROVE  Len(x) \in Nat /\ Len(Rest(x)) < Len(x) /\ Len(Rest(x)) \in T
    OBVIOUS
  <2>1. Len(x) >= 2 /\ x \in Bytes
    BY DEF Complete
  <2>2. QED
    BY <2>1, UnitTypes
<1>2. SUFFICES ASSUME T # {} PROVE FALSE
  OBVIOUS
<1>3. PICK n \in T : \A m \in T : n <= m
  <2>1. T \in SUBSET Nat
    BY <1>1
  <2> HIDE DEF T
  <2>2. QED
    BY <1>2, <2>1, Least
<1>4. PICK x \in Q : n = Len(x)
  BY <1>3
<1>5. n \in Nat /\ Len(Rest(x)) < n /\ Len(Rest(x)) \in T /\ Len(Rest(x)) \in Nat
  BY <1>1, <1>4
<1> HIDE DEF T
<1>6. n <= Len(Rest(x))
  BY <1>3, <1>5
<1>7. QED
  BY <1>5, <1>6

\* Types of frames and of the two results.
FrameType == [kind : {Out, Exit}, payload : Bytes]
DrainedType == [bad : BOOLEAN, frames : Seq(FrameType), rest : Bytes]
ReadType == [end : {"clean", "partial", "bad"}, frames : Seq(FrameType)]

\* A whole frame in front is a frame.
LEMMA FirstType ==
  ASSUME NEW q \in Bytes, Complete(q)
  PROVE  /\ First(q) \in FrameType /\ Rest(q) \in Bytes
         /\ \A s \in Seq(FrameType) : <<First(q)>> \o s \in Seq(FrameType)
<1>1. Payload(q) \in Bytes /\ q[1] \in {Out, Exit} /\ Rest(q) \in Bytes
  BY UnitTypes DEF Complete
<1>2. First(q) \in FrameType
  BY <1>1 DEF First, FrameType
<1>3. \A Z : \A x \in Z, s \in Seq(Z) : <<x>> \o s \in Seq(Z)
  OBVIOUS
<1>4. QED
  BY <1>1, <1>2, <1>3

\* One round of a solution.
LEMMA DrainStep ==
  ASSUME NEW f, IsDrain(f), NEW q \in Bytes
  PROVE  /\ Complete(q) => f[q] = [f[Rest(q)] EXCEPT !.frames = <<First(q)>> \o @]
         /\ ~Complete(q) /\ Refused(q) =>
              f[q] = [bad |-> TRUE, frames |-> << >>, rest |-> q]
         /\ ~Complete(q) /\ ~Refused(q) =>
              f[q] = [bad |-> FALSE, frames |-> << >>, rest |-> q]
<1>1. f[q] = Drained(f, q)
  BY DEF IsDrain
<1>2. QED
  BY <1>1, DrainedCases

LEMMA ReadStep ==
  ASSUME NEW f, IsRead(f), NEW q \in Bytes
  PROVE  /\ Complete(q) => f[q] = [f[Rest(q)] EXCEPT !.frames = <<First(q)>> \o @]
         /\ ~Complete(q) => f[q] = [end |-> EndOf(q), frames |-> << >>]
<1>1. f[q] = ReadOn(f, q)
  BY DEF IsRead
<1>2. QED
  BY <1>1, ReadCases

\* The results are well typed.
LEMMA DrainTypes ==
  ASSUME NEW f, IsDrain(f), NEW q \in Bytes
  PROVE  f[q] \in DrainedType
<1> DEFINE Q == {x \in Bytes : f[x] \notin DrainedType}
<1>1. ASSUME NEW x \in Q PROVE Complete(x) /\ Rest(x) \in Q
  <2>1. x \in Bytes /\ << >> \in Seq(FrameType)
    OBVIOUS
  <2>2. Complete(x)
    <3>1. /\ [bad |-> TRUE, frames |-> << >>, rest |-> x] \in DrainedType
          /\ [bad |-> FALSE, frames |-> << >>, rest |-> x] \in DrainedType
      BY <2>1 DEF DrainedType
    <3>2. f[x] \notin DrainedType
      OBVIOUS
    <3> HIDE DEF Q
    <3>3. QED
      BY <2>1, <3>1, <3>2, DrainStep
  <2>3. Rest(x) \in Bytes /\ \A s \in Seq(FrameType) : <<First(x)>> \o s \in Seq(FrameType)
    BY <2>1, <2>2, FirstType
  <2>4. f[x] = [f[Rest(x)] EXCEPT !.frames = <<First(x)>> \o @]
    BY <2>1, <2>2, DrainStep
  <2>5. f[Rest(x)] \in DrainedType => f[x] \in DrainedType
    BY <2>3, <2>4 DEF DrainedType
  <2>6. QED
    BY <2>2, <2>3, <2>5
<1> HIDE DEF Q
<1>2. Q = {}
  <2>1. Q \in SUBSET Bytes
    BY DEF Q
  <2>2. QED
    BY <1>1, <2>1, Descent
<1>3. QED
  BY <1>2 DEF Q

LEMMA ReadTypes ==
  ASSUME NEW f, IsRead(f), NEW q \in Bytes
  PROVE  f[q] \in ReadType
<1> DEFINE Q == {x \in Bytes : f[x] \notin ReadType}
<1>1. ASSUME NEW x \in Q PROVE Complete(x) /\ Rest(x) \in Q
  <2>1. x \in Bytes /\ << >> \in Seq(FrameType)
    OBVIOUS
  <2>2. Complete(x)
    <3>1. EndOf(x) \in {"clean", "partial", "bad"}
      BY DEF EndOf
    <3>2. [end |-> EndOf(x), frames |-> << >>] \in ReadType
      BY <2>1, <3>1 DEF ReadType
    <3>3. f[x] \notin ReadType
      OBVIOUS
    <3> HIDE DEF Q
    <3>4. QED
      BY <2>1, <3>2, <3>3, ReadStep
  <2>3. Rest(x) \in Bytes /\ \A s \in Seq(FrameType) : <<First(x)>> \o s \in Seq(FrameType)
    BY <2>1, <2>2, FirstType
  <2>4. f[x] = [f[Rest(x)] EXCEPT !.frames = <<First(x)>> \o @]
    BY <2>1, <2>2, ReadStep
  <2>5. f[Rest(x)] \in ReadType => f[x] \in ReadType
    BY <2>3, <2>4 DEF ReadType
  <2>6. QED
    BY <2>2, <2>3, <2>5
<1> HIDE DEF Q
<1>2. Q = {}
  <2>1. Q \in SUBSET Bytes
    BY DEF Q
  <2>2. QED
    BY <1>1, <2>1, Descent
<1>3. QED
  BY <1>2 DEF Q

\* More bytes behind a whole frame do not change it.
LEMMA FirstStays ==
  ASSUME NEW q \in Bytes, NEW c \in Bytes, Complete(q)
  PROVE  /\ q \o c \in Bytes /\ Complete(q \o c)
         /\ First(q \o c) = First(q) /\ Rest(q \o c) = Rest(q) \o c
<1>1. /\ Len(q) \in Nat /\ Len(c) \in Nat /\ Len(q) >= 2 /\ q[2] \in Nat
      /\ Len(q) >= 2 + q[2]
  BY UnitTypes DEF Complete
<1>2. /\ q \o c \in Bytes /\ Len(q \o c) = Len(q) + Len(c)
      /\ \A i \in 1 .. Len(q) : (q \o c)[i] = q[i]
      /\ \A i \in 1 .. Len(c) : (q \o c)[Len(q) + i] = c[i]
  BY DEF Bytes
<1>3. (q \o c)[1] = q[1] /\ (q \o c)[2] = q[2]
  BY <1>1, <1>2
<1>4. \A Z : \A s \in Seq(Z), t \in Seq(Z), n \in Nat :
        /\ n <= Len(s) => SubSeq(s \o t, 3, n) = SubSeq(s, 3, n)
        /\ n >= 1 /\ n <= Len(s) + 1 =>
             SubSeq(s \o t, n, Len(s \o t)) = SubSeq(s, n, Len(s)) \o t
  OBVIOUS
<1>5. Payload(q \o c) = Payload(q)
  <2>1. 2 + q[2] \in Nat
    BY <1>1
  <2>2. SubSeq(q \o c, 3, 2 + q[2]) = SubSeq(q, 3, 2 + q[2])
    BY <1>1, <1>4, <2>1 DEF Bytes
  <2>3. QED
    BY <1>3, <2>2 DEF Payload
<1>6. Rest(q \o c) = Rest(q) \o c
  <2>1. 3 + q[2] \in Nat /\ 3 + q[2] >= 1 /\ 3 + q[2] <= Len(q) + 1
    BY <1>1
  <2>2. SubSeq(q \o c, 3 + q[2], Len(q \o c)) = SubSeq(q, 3 + q[2], Len(q)) \o c
    BY <1>4, <2>1 DEF Bytes
  <2>3. QED
    BY <1>3, <2>2 DEF Rest
<1>7. Complete(q \o c)
  <2>1. Len(q \o c) >= 2 /\ Len(q \o c) >= 2 + q[2]
    BY <1>1, <1>2
  <2>2. QED
    BY <1>3, <1>5, <2>1 DEF Complete
<1>8. QED
  BY <1>2, <1>3, <1>5, <1>6, <1>7 DEF First

\* What is read of q is some frames and what is read of b, however both go on.
Splits(f, q, frames, b) ==
  \A c \in Bytes :
    /\ f[q \o c].frames = frames \o f[b \o c].frames
    /\ f[q \o c].end = f[b \o c].end

\* Of a prefix q the drain takes what the reader reads, and leaves it no whole frame.
Agrees(d, r, q) ==
  /\ ~d[q].bad => ~Complete(d[q].rest) /\ Splits(r, q, d[q].frames, d[q].rest)
  /\ d[q].bad => r[q].end # "clean"

\* By descent: cutting the stream anywhere changes nothing for the reader.
LEMMA DrainsAsRead ==
  ASSUME NEW d, IsDrain(d), NEW r, IsRead(r), NEW q \in Bytes
  PROVE  Agrees(d, r, q)
<1> DEFINE Q == {x \in Bytes : ~Agrees(d, r, x)}
<1>1. ASSUME NEW x \in Bytes, ~Complete(x), Refused(x) PROVE Agrees(d, r, x)
  <2>1. d[x].bad = TRUE
    <3>1. d[x] = [bad |-> TRUE, frames |-> << >>, rest |-> x]
      BY <1>1, DrainStep
    <3>2. QED
      BY <3>1
  <2>2. Len(x) \in Nat /\ Len(x) >= 2 /\ x[2] \in Nat
    <3>1. Len(x) >= 2
      BY <1>1 DEF Refused
    <3>2. QED
      BY <3>1, UnitTypes
  <2>3. EndOf(x) = "bad"
    <3>1. x # << >> /\ ~(Len(x) < 2)
      BY <2>2
    <3>2. x[2] > MaxPayload \/ x[1] \notin {Out, Exit} \/ ~(Len(x) < 2 + x[2])
      BY <1>1, <2>2 DEF Refused
    <3>3. QED
      BY <3>1, <3>2 DEF EndOf
  <2>4. r[x].end = "bad"
    <3>1. r[x] = [end |-> EndOf(x), frames |-> << >>]
      BY <1>1, ReadStep
    <3>2. QED
      BY <2>3, <3>1
  <2>5. QED
    BY <2>1, <2>4 DEF Agrees
<1>2. ASSUME NEW x \in Bytes, ~Complete(x), ~Refused(x) PROVE Agrees(d, r, x)
  <2>1. d[x].bad = FALSE /\ d[x].frames = << >> /\ d[x].rest = x
    <3>1. d[x] = [bad |-> FALSE, frames |-> << >>, rest |-> x]
      BY <1>2, DrainStep
    <3>2. QED
      BY <3>1
  <2>2. \A c \in Bytes : x \o c \in Bytes
    BY DEF Bytes
  <2>3. \A c \in Bytes : r[x \o c].frames \in Seq(FrameType)
    BY <2>2, ReadTypes DEF ReadType
  <2>4. \A s \in Seq(FrameType) : << >> \o s = s
    OBVIOUS
  <2>5. QED
    BY <1>2, <2>1, <2>3, <2>4 DEF Agrees, Splits
<1>3. ASSUME NEW x \in Bytes, Complete(x), Agrees(d, r, Rest(x)) PROVE Agrees(d, r, x)
  <2> DEFINE y == Rest(x)
             h == First(x)
  <2>1. y \in Bytes /\ h \in FrameType
    BY <1>3, FirstType
  <2>2. d[x] = [d[y] EXCEPT !.frames = <<h>> \o @] /\ d[y] \in DrainedType
    BY <1>3, <2>1, DrainStep, DrainTypes
  <2>3. r[x] = [r[y] EXCEPT !.frames = <<h>> \o @] /\ r[y] \in ReadType
    BY <1>3, <2>1, ReadStep, ReadTypes
  <2>4. ASSUME NEW c \in Bytes
        PROVE  /\ r[x \o c] = [r[y \o c] EXCEPT !.frames = <<h>> \o @]
               /\ r[y \o c] \in ReadType
    <3>1. x \o c \in Bytes /\ Complete(x \o c) /\ First(x \o c) = h /\ Rest(x \o c) = y \o c
      BY <1>3, FirstStays
    <3>2. y \o c \in Bytes
      BY <2>1 DEF Bytes
    <3>3. r[x \o c] = [r[Rest(x \o c)] EXCEPT !.frames = <<First(x \o c)>> \o @]
      BY <3>1, ReadStep
    <3>4. r[y \o c] \in ReadType
      BY <3>2, ReadTypes
    <3> HIDE DEF y, h
    <3>5. QED
      BY ONLY <3>1, <3>3, <3>4, Zenon
  <2> HIDE DEF y, h
  <2>5. d[x].bad = d[y].bad /\ d[x].rest = d[y].rest /\ d[x].frames = <<h>> \o d[y].frames
    BY <2>2 DEF DrainedType
  <2>6. r[x].end = r[y].end
    BY <2>3 DEF ReadType
  <2>7. ASSUME NEW c \in Bytes
        PROVE  /\ r[x \o c].frames = <<h>> \o r[y \o c].frames
               /\ r[x \o c].end = r[y \o c].end
    BY <2>4 DEF ReadType
  <2>8. ASSUME ~d[y].bad PROVE Splits(r, x, d[x].frames, d[x].rest)
    <3> SUFFICES ASSUME NEW c \in Bytes
                 PROVE  /\ r[x \o c].frames = d[x].frames \o r[d[x].rest \o c].frames
                        /\ r[x \o c].end = r[d[x].rest \o c].end
      BY DEF Splits
    <3>1. /\ r[y \o c].frames = d[y].frames \o r[d[y].rest \o c].frames
          /\ r[y \o c].end = r[d[y].rest \o c].end
      BY <1>3, <2>8 DEF Agrees, Splits, y
    <3>2. d[y].rest \o c \in Bytes
      BY <2>2 DEF DrainedType, Bytes
    <3>3. d[y].frames \in Seq(FrameType) /\ r[d[y].rest \o c].frames \in Seq(FrameType)
      BY <2>2, <3>2, ReadTypes DEF DrainedType, ReadType
    <3>4. \A Z : \A a \in Z, s \in Seq(Z), t \in Seq(Z) : <<a>> \o (s \o t) = (<<a>> \o s) \o t
      OBVIOUS
    <3>5. \A s \in Seq(FrameType), t \in Seq(FrameType) : <<h>> \o (s \o t) = (<<h>> \o s) \o t
      BY <2>1, <3>4
    <3>6. <<h>> \o (d[y].frames \o r[d[y].rest \o c].frames)
            = (<<h>> \o d[y].frames) \o r[d[y].rest \o c].frames
      BY ONLY <3>3, <3>5, Zenon
    <3>7. QED
      BY <2>5, <2>7, <3>1, <3>6
  <2>9. QED
    BY <1>3, <2>5, <2>6, <2>8 DEF Agrees, y
<1>4. \A x \in Q : Complete(x) /\ Rest(x) \in Q
  <2> SUFFICES ASSUME NEW x \in Q PROVE Complete(x) /\ Rest(x) \in Q
    OBVIOUS
  <2>1. x \in Bytes /\ ~Agrees(d, r, x)
    OBVIOUS
  <2>2. Complete(x)
    BY <1>1, <1>2, <2>1
  <2>3. Rest(x) \in Bytes
    BY <2>1, <2>2, FirstType
  <2>4. QED
    BY <1>3, <2>1, <2>2, <2>3
<1> HIDE DEF Q
<1>5. Q = {}
  <2>1. Q \in SUBSET Bytes
    BY DEF Q
  <2>2. QED
    BY <1>4, <2>1, Descent
<1>6. QED
  BY <1>5 DEF Q

\* The same of the operators.
Same(q, frames, b) ==
  \A c \in Bytes :
    /\ ReadAll(q \o c).frames = frames \o ReadAll(b \o c).frames
    /\ ReadAll(q \o c).end = ReadAll(b \o c).end

LEMMA PushReads ==
  ASSUME NEW b \in Bytes, NEW chunk \in Bytes
  PROVE  LET push == Push(b, chunk)
         IN /\ push \in DrainedType
            /\ ~push.bad => /\ ~Complete(push.rest)
                            /\ Same(b \o chunk, push.frames, push.rest)
            /\ push.bad => ReadAll(b \o chunk).end # "clean"
<1>1. PICK d : IsDrain(d) /\ \A x, y : Push(x, y) = d[x \o y]
  BY DrainChosen
<1>2. PICK r : IsRead(r) /\ \A x : ReadAll(x) = r[x]
  BY ReadChosen
<1>3. b \o chunk \in Bytes
  BY DEF Bytes
<1>4. d[b \o chunk] \in DrainedType /\ Agrees(d, r, b \o chunk)
  BY <1>1, <1>2, <1>3, DrainTypes, DrainsAsRead
<1>5. Push(b, chunk) = d[b \o chunk]
  BY <1>1
<1>6. QED
  BY <1>2, <1>4, <1>5 DEF Agrees, Splits, Same

\* What the reader finds is well typed, and nothing where no frame is whole.
LEMMA ReadAllTypes ==
  ASSUME NEW q \in Bytes
  PROVE  /\ ReadAll(q) \in ReadType
         /\ ~Complete(q) => ReadAll(q).frames = << >>
<1>1. PICK r : IsRead(r) /\ \A x : ReadAll(x) = r[x]
  BY ReadChosen
<1>2. r[q] \in ReadType
  BY <1>1, ReadTypes
<1>3. ~Complete(q) => r[q] = [end |-> EndOf(q), frames |-> << >>]
  BY <1>1, ReadStep
<1>4. ReadAll(q) = r[q]
  BY <1>1
<1>5. QED
  BY <1>2, <1>3, <1>4

\* A frame that is written is read back, whatever follows it.
THEOREM FramesReadBack ==
  ASSUME NEW f \in Frame, NEW c \in Bytes
  PROVE  /\ ReadAll(Encode(f) \o c).frames = <<f>> \o ReadAll(c).frames
         /\ ReadAll(Encode(f) \o c).end = ReadAll(c).end
<1> DEFINE p == f.payload
           n == Len(p)
           q == Encode(f)
<1>1. /\ f = [kind |-> f.kind, payload |-> p] /\ f.kind \in {Out, Exit} /\ p \in Seq(Unit)
      /\ n \in Unit /\ n <= MaxPayload /\ n \in Nat /\ Parses(f.kind, p)
  BY DEF Frame
<1>2. f.kind \in Unit /\ << >> \in Bytes
  BY <1>1, EngineAssumption DEF Out, Exit, Unit, Bytes
<1>3. /\ q \in Bytes /\ Len(q) = 2 + n /\ q[1] = f.kind /\ q[2] = n
      /\ SubSeq(q, 3, 2 + n) = p /\ SubSeq(q, 3 + n, 2 + n) = << >>
  <2>1. \A Z : \A a \in Z, b \in Z, s \in Seq(Z) :
          LET w == <<a, b>> \o s
          IN /\ w \in Seq(Z) /\ Len(w) = 2 + Len(s) /\ w[1] = a /\ w[2] = b
             /\ SubSeq(w, 3, 2 + Len(s)) = s /\ SubSeq(w, 3 + Len(s), 2 + Len(s)) = << >>
    OBVIOUS
  <2>2. q = <<f.kind, n>> \o p
    BY DEF Encode
  <2> HIDE DEF q, n, p
  <2>3. QED
    BY <1>1, <1>2, <2>1, <2>2 DEF Bytes, n
<1> HIDE DEF q
<1>4. Payload(q) = p /\ Rest(q) = << >>
  BY <1>3 DEF Payload, Rest
<1> HIDE DEF p
<1>5. Complete(q) /\ First(q) = f
  <2>1. First(q) = f
    BY <1>1, <1>3, <1>4 DEF First
  <2>2. Len(q) >= 2 /\ Len(q) >= 2 + q[2]
    BY <1>1, <1>3
  <2>3. QED
    BY <1>1, <1>3, <1>4, <2>1, <2>2 DEF Complete
<1>6. /\ q \o c \in Bytes /\ Complete(q \o c) /\ First(q \o c) = f /\ Rest(q \o c) = c
  <2>1. << >> \o c = c
    BY DEF Bytes
  <2>2. QED
    BY <1>3, <1>4, <1>5, <2>1, FirstStays
<1>7. PICK r : IsRead(r) /\ \A x : ReadAll(x) = r[x]
  BY ReadChosen
<1>8. r[q \o c] = [r[c] EXCEPT !.frames = <<f>> \o @] /\ r[c] \in ReadType
  <2>1. r[q \o c] = [r[Rest(q \o c)] EXCEPT !.frames = <<First(q \o c)>> \o @]
    BY <1>6, <1>7, ReadStep
  <2>2. r[c] \in ReadType
    BY <1>7, ReadTypes
  <2>3. QED
    BY ONLY <1>6, <2>1, <2>2, Zenon
<1>9. r[q \o c].frames = <<f>> \o r[c].frames /\ r[q \o c].end = r[c].end
  BY <1>8 DEF ReadType
<1>10. QED
  BY <1>7, <1>9 DEF q

(***************************************************************************)
(* What is on its way is the rest of the stream, in order                  *)
(***************************************************************************)
\* The messages of a lane are the consecutive pieces of s behind its first units.
CutAt(p, from, lane, s) ==
  /\ p \in [1 .. Len(lane) + 1 -> Nat]
  /\ p[1] = from /\ p[Len(lane) + 1] = Len(s)
  /\ \A i, j \in 1 .. Len(lane) + 1 : i <= j => p[i] <= p[j]
  /\ \A i \in 1 .. Len(lane) : lane[i] = SubSeq(s, p[i] + 1, p[i + 1])
InOrder(from, lane, s) == \E p : CutAt(p, from, lane, s)

\* What the stream grows by is its next piece.
LEMMA AddPiece ==
  ASSUME NEW from, NEW lane \in Seq(Bytes), NEW s \in Bytes, NEW u \in Bytes,
         InOrder(from, lane, s)
  PROVE  InOrder(from, Append(lane, u), s \o u)
<1>1. PICK p : CutAt(p, from, lane, s)
  BY DEF InOrder
<1> DEFINE n == Len(lane)
           k == Len(s)
           m == Len(s \o u)
           L == Append(lane, u)
           p2 == [i \in 1 .. n + 2 |-> IF i = n + 2 THEN m ELSE p[i]]
<1>2. /\ n \in Nat /\ k \in Nat /\ m \in Nat /\ m = k + Len(u) /\ k <= m
      /\ Len(L) = n + 1 /\ \A i \in 1 .. n : L[i] = lane[i]
      /\ L[n + 1] = u /\ Len(L) + 1 = n + 2
  BY DEF Bytes
<1>3. /\ \A i \in 1 .. n + 1 : p[i] \in Nat /\ p[i] <= k
      /\ p[1] = from /\ p[n + 1] = k
  <2>1. \A i \in 1 .. n + 1 : i <= n + 1 /\ n + 1 \in 1 .. n + 1
    BY <1>2
  <2>2. QED
    BY <1>1, <2>1 DEF CutAt
<1>4. \A a, b \in Nat : b <= k => SubSeq(s \o u, a + 1, b) = SubSeq(s, a + 1, b)
  <2>1. \A Z : \A x \in Seq(Z), y \in Seq(Z), a \in Nat, b \in Nat :
          b <= Len(x) => SubSeq(x \o y, a + 1, b) = SubSeq(x, a + 1, b)
    OBVIOUS
  <2>2. QED
    BY <2>1 DEF Bytes
<1>5. SubSeq(s \o u, k + 1, m) = u
  <2>1. \A Z : \A x \in Seq(Z), y \in Seq(Z) :
          SubSeq(x \o y, Len(x) + 1, Len(x \o y)) = y
    OBVIOUS
  <2>2. QED
    BY <2>1 DEF Bytes
<1>6. /\ p2 \in [1 .. Len(L) + 1 -> Nat] /\ p2[1] = from /\ p2[Len(L) + 1] = m
      /\ \A i \in 1 .. n + 1 : p2[i] = p[i]
      /\ p2[n + 2] = m
  BY <1>2, <1>3
<1> HIDE DEF p2, L
<1>7. ASSUME NEW i \in 1 .. n + 2, NEW j \in 1 .. n + 2, i <= j PROVE p2[i] <= p2[j]
  <2>1. CASE j = n + 2
    BY <1>2, <1>3, <1>6, <2>1
  <2>2. CASE j # n + 2
    <3>1. i \in 1 .. n + 1 /\ j \in 1 .. n + 1
      BY <1>2, <1>7, <2>2
    <3>2. p[i] <= p[j]
      BY <1>1, <1>7, <3>1 DEF CutAt
    <3>3. QED
      BY <1>6, <3>1, <3>2
  <2>3. QED
    BY <2>1, <2>2
<1>8. ASSUME NEW i \in 1 .. n + 1 PROVE L[i] = SubSeq(s \o u, p2[i] + 1, p2[i + 1])
  <2>1. CASE i = n + 1
    <3>1. i + 1 = n + 2 /\ p2[i] = k /\ p2[i + 1] = m
      BY <1>2, <1>3, <1>6, <2>1
    <3>2. QED
      BY <1>2, <1>5, <2>1, <3>1
  <2>2. CASE i # n + 1
    <3>1. i \in 1 .. n /\ i + 1 \in 1 .. n + 1
      BY <1>2, <2>2
    <3>2. L[i] = SubSeq(s, p[i] + 1, p[i + 1])
      BY <1>1, <1>2, <3>1 DEF CutAt
    <3>3. QED
      BY <1>3, <1>4, <1>6, <3>1, <3>2
  <2>3. QED
    BY <2>1, <2>2
<1>9. CutAt(p2, from, L, s \o u)
  BY <1>2, <1>6, <1>7, <1>8 DEF CutAt
<1>10. QED
  BY <1>9 DEF InOrder, L

\* Nothing is no piece.
LEMMA DropNothing ==
  ASSUME NEW from, NEW lane \in Seq(Bytes), NEW s \in Bytes,
         InOrder(from, Append(lane, << >>), s)
  PROVE  InOrder(from, lane, s)
<1> DEFINE n == Len(lane)
           L == Append(lane, << >>)
<1>1. PICK p : CutAt(p, from, L, s)
  BY DEF InOrder
<1> DEFINE p2 == [i \in 1 .. n + 1 |-> p[i]]
<1>2. /\ n \in Nat /\ Len(L) = n + 1 /\ \A i \in 1 .. n : L[i] = lane[i]
      /\ L[n + 1] = << >> /\ Len(L) + 1 = n + 2 /\ Len(s) \in Nat
  BY DEF Bytes
<1> HIDE DEF L
<1>3. /\ \A i \in 1 .. n + 2 : p[i] \in Nat
      /\ p[1] = from /\ p[n + 2] = Len(s)
      /\ \A i, j \in 1 .. n + 2 : i <= j => p[i] <= p[j]
      /\ \A i \in 1 .. n + 1 : L[i] = SubSeq(s, p[i] + 1, p[i + 1])
  BY <1>1, <1>2 DEF CutAt
<1>4. p[n + 1] = Len(s)
  <2>1. n + 1 \in 1 .. n + 1 /\ n + 1 \in 1 .. n + 2 /\ n + 2 \in 1 .. n + 2 /\ (n + 1) + 1 = n + 2
    BY <1>2
  <2>2. SubSeq(s, p[n + 1] + 1, Len(s)) = << >> /\ p[n + 1] \in Nat /\ p[n + 1] <= Len(s)
    <3>1. L[n + 1] = SubSeq(s, p[n + 1] + 1, p[(n + 1) + 1])
      BY <1>3, <2>1
    <3>2. n + 1 <= n + 2
      BY <1>2
    <3>3. p[n + 1] <= p[n + 2] /\ p[n + 1] \in Nat
      BY <1>3, <2>1, <3>2
    <3>4. QED
      BY <1>2, <1>3, <2>1, <3>1, <3>3
  <2>3. \A Z : \A x \in Seq(Z), a \in Nat :
          a <= Len(x) /\ SubSeq(x, a + 1, Len(x)) = << >> => a = Len(x)
    <3> SUFFICES ASSUME NEW Z, NEW x \in Seq(Z), NEW a \in Nat,
                        a <= Len(x), SubSeq(x, a + 1, Len(x)) = << >>
                 PROVE  a = Len(x)
      OBVIOUS
    <3>1. Len(SubSeq(x, a + 1, Len(x))) = Len(x) - a
      OBVIOUS
    <3>2. Len(<< >>) = 0
      OBVIOUS
    <3>3. Len(x) - a = 0
      BY <3>1, <3>2, Zenon
    <3>4. Len(x) \in Nat
      OBVIOUS
    <3>5. QED
      BY <3>3, <3>4
  <2>4. QED
    BY <2>2, <2>3 DEF Bytes
<1>5. \A i \in 1 .. n + 1 : i \in 1 .. n + 2 /\ p2[i] = p[i]
  BY <1>2
<1>6. \A i \in 1 .. n : i + 1 \in 1 .. n + 1 /\ i \in 1 .. n + 1
  BY <1>2
<1>7. p2 \in [1 .. n + 1 -> Nat] /\ p2[1] = from /\ p2[n + 1] = Len(s)
  BY <1>2, <1>3, <1>4, <1>5
<1> HIDE DEF p2
<1>8. \A i, j \in 1 .. n + 1 : i <= j => p2[i] <= p2[j]
  BY <1>3, <1>5
<1>9. \A i \in 1 .. n : lane[i] = SubSeq(s, p2[i] + 1, p2[i + 1])
  BY <1>2, <1>3, <1>5, <1>6
<1>10. CutAt(p2, from, lane, s)
  BY <1>7, <1>8, <1>9 DEF CutAt
<1>11. QED
  BY <1>10 DEF InOrder

\* The first message is what comes next in s.
LEMMA TakePiece ==
  ASSUME NEW from \in Nat, NEW lane \in Seq(Bytes), lane # << >>, NEW s \in Bytes,
         InOrder(from, lane, s)
  PROVE  LET next == from + Len(Head(lane))
         IN /\ next \in Nat /\ next <= Len(s)
            /\ SubSeq(s, 1, next) = SubSeq(s, 1, from) \o Head(lane)
            /\ InOrder(next, Tail(lane), s)
<1> DEFINE n == Len(lane)
           h == Head(lane)
           T == Tail(lane)
<1>1. PICK p : CutAt(p, from, lane, s)
  BY DEF InOrder
<1> DEFINE p2 == [i \in 1 .. n |-> p[i + 1]]
<1>2. /\ n \in Nat /\ n >= 1 /\ h = lane[1] /\ Len(T) = n - 1
      /\ \A i \in 1 .. n - 1 : T[i] = lane[i + 1]
      /\ Len(s) \in Nat
  BY DEF Bytes
<1> HIDE DEF h, T
<1>3. /\ \A i \in 1 .. n + 1 : p[i] \in Nat
      /\ p[1] = from /\ p[n + 1] = Len(s)
      /\ \A i, j \in 1 .. n + 1 : i <= j => p[i] <= p[j]
      /\ \A i \in 1 .. n : lane[i] = SubSeq(s, p[i] + 1, p[i + 1])
  BY <1>1 DEF CutAt
<1>4. /\ p[2] \in Nat /\ from <= p[2] /\ p[2] <= Len(s)
      /\ h = SubSeq(s, from + 1, p[2])
  <2>1. 1 \in 1 .. n + 1 /\ 2 \in 1 .. n + 1 /\ n + 1 \in 1 .. n + 1 /\ 2 <= n + 1
        /\ 1 \in 1 .. n /\ 1 + 1 = 2
    BY <1>2
  <2>2. p[2] \in Nat /\ p[1] <= p[2] /\ p[2] <= p[n + 1]
    <3> DEFINE D == 1 .. n + 1
    <3>1. 1 \in D /\ 2 \in D /\ n + 1 \in D /\ 1 <= 2 /\ 2 <= n + 1
      BY <2>1
    <3>2. (\A i \in D : p[i] \in Nat) /\ (\A i, j \in D : i <= j => p[i] <= p[j])
      BY <1>3
    <3> HIDE DEF D
    <3>3. QED
      BY ONLY <3>1, <3>2, Zenon
  <2>3. lane[1] = SubSeq(s, p[1] + 1, p[1 + 1])
    BY <1>3, <2>1
  <2>4. QED
    BY <1>2, <1>3, <2>1, <2>2, <2>3
<1>5. /\ Len(h) = p[2] - from
      /\ SubSeq(s, 1, p[2]) = SubSeq(s, 1, from) \o h
  <2>1. \A Z : \A x \in Seq(Z), a \in Nat, b \in Nat :
          a <= b /\ b <= Len(x) =>
            /\ Len(SubSeq(x, a + 1, b)) = b - a
            /\ SubSeq(x, 1, b) = SubSeq(x, 1, a) \o SubSeq(x, a + 1, b)
    OBVIOUS
  <2>2. QED
    BY <1>4, <2>1 DEF Bytes
<1>6. from + Len(h) = p[2]
  BY <1>4, <1>5
<1>7. \A i \in 1 .. n : i + 1 \in 1 .. n + 1 /\ p2[i] = p[i + 1]
  BY <1>2
<1>8. \A i \in 1 .. n - 1 : i + 1 \in 1 .. n /\ i \in 1 .. n
  BY <1>2
<1>9. p2 \in [1 .. n -> Nat] /\ p2[1] = p[2] /\ p2[n] = Len(s)
  BY <1>2, <1>3, <1>7
<1> HIDE DEF p2
<1>10. ASSUME NEW i \in 1 .. n, NEW j \in 1 .. n, i <= j PROVE p2[i] <= p2[j]
  <2>1. i + 1 \in 1 .. n + 1 /\ j + 1 \in 1 .. n + 1 /\ i + 1 <= j + 1
    BY <1>2, <1>10
  <2>2. p[i + 1] <= p[j + 1]
    BY <1>3, <2>1
  <2>3. QED
    BY <1>7, <2>2
<1>11. \A i \in 1 .. n - 1 : T[i] = SubSeq(s, p2[i] + 1, p2[i + 1])
  BY <1>2, <1>3, <1>7, <1>8
<1>12. Len(T) + 1 = n
  BY <1>2
<1>13. CutAt(p2, p[2], T, s)
  BY <1>2, <1>9, <1>10, <1>11, <1>12 DEF CutAt
<1>14. InOrder(p[2], T, s)
  BY <1>13 DEF InOrder
<1>15. QED
  BY <1>4, <1>5, <1>6, <1>14 DEF h, T

\* Concatenation is associative.
LEMMA Assoc ==
  ASSUME NEW Z, NEW x \in Seq(Z), NEW y \in Seq(Z), NEW z \in Seq(Z)
  PROVE  x \o (y \o z) = (x \o y) \o z
OBVIOUS

\* What has been sent on are the first frames; what is still to be handled comes next.
Begins(del, frames) ==
  /\ Len(del) <= Len(frames)
  /\ \A i \in 1 .. Len(del) : frames[i] = [kind |-> Out, payload |-> del[i]]
Follows(del, t, frames) ==
  /\ Len(frames) = Len(del) + Len(t)
  /\ \A i \in 1 .. Len(t) : frames[Len(del) + i] = t[i]

\* The decoder, given q, has b left over.
Decoded(q, b, t, del, out) ==
  /\ q \in Bytes /\ b \in Bytes /\ t \in Seq(FrameType) /\ del \in Seq(Bytes)
  /\ out = "corrupt" => ReadAll(q).end # "clean" /\ Begins(del, ReadAll(q).frames)
  /\ out # "corrupt" =>
       \E frames \in Seq(FrameType) :
         /\ ~Complete(b) /\ Same(q, frames, b) /\ Begins(del, frames)
         /\ out \in {"none", "no report"} => Follows(del, t, frames)
         /\ out = "exit" => Len(del) < Len(frames) /\ frames[Len(del) + 1].kind = Exit

\* The reader finds just the frames, since what is left over holds none.
LEMMA DecodedFrames ==
  ASSUME NEW q, NEW b \in Bytes, q \in Bytes, NEW frames \in Seq(FrameType),
         ~Complete(b), Same(q, frames, b)
  PROVE  ReadAll(q).frames = frames
<1>1. << >> \in Bytes /\ q \o << >> = q /\ b \o << >> = b
  BY DEF Bytes
<1>2. ReadAll(q).frames = frames \o ReadAll(b).frames
  BY <1>1 DEF Same
<1>3. ReadAll(b).frames = << >>
  BY ReadAllTypes
<1>4. frames \o << >> = frames
  OBVIOUS
<1>5. QED
  BY <1>2, <1>3, <1>4

\* The next message is decoded, or refused, as a reader of the whole would.
LEMMA DecodedNext ==
  ASSUME NEW q, NEW b, NEW del, NEW m \in Bytes, Decoded(q, b, << >>, del, "none")
  PROVE  LET push == Push(b, m)
         IN /\ push.bad \in BOOLEAN
            /\ push.bad => Decoded(q \o m, b, << >>, del, "corrupt")
            /\ ~push.bad => /\ push.frames \in Seq(FrameType)
                            /\ Decoded(q \o m, push.rest, push.frames, del, "none")
<1> DEFINE push == Push(b, m)
<1>1. q \in Bytes /\ b \in Bytes /\ del \in Seq(Bytes)
  BY DEF Decoded
<1>2. PICK frames \in Seq(FrameType) :
        Same(q, frames, b) /\ Begins(del, frames) /\ Follows(del, << >>, frames)
  BY DEF Decoded
<1>3. /\ push \in DrainedType
      /\ ~push.bad => ~Complete(push.rest) /\ Same(b \o m, push.frames, push.rest)
      /\ push.bad => ReadAll(b \o m).end # "clean"
  BY <1>1, PushReads
<1>4. /\ push.bad \in BOOLEAN /\ push.frames \in Seq(FrameType) /\ push.rest \in Bytes
  BY <1>3 DEF DrainedType
<1>5. q \o m \in Bytes /\ b \o m \in Bytes
  BY <1>1 DEF Bytes
<1>6. Len(frames) = Len(del) /\ Len(del) \in Nat
  BY <1>1, <1>2 DEF Follows
<1> HIDE DEF push
<1>7. \A c \in Bytes :
        /\ m \o c \in Bytes
        /\ ReadAll((q \o m) \o c).frames = frames \o ReadAll((b \o m) \o c).frames
        /\ ReadAll((q \o m) \o c).end = ReadAll((b \o m) \o c).end
  <2> SUFFICES ASSUME NEW c \in Bytes
               PROVE  /\ m \o c \in Bytes
                      /\ ReadAll((q \o m) \o c).frames = frames \o ReadAll((b \o m) \o c).frames
                      /\ ReadAll((q \o m) \o c).end = ReadAll((b \o m) \o c).end
    OBVIOUS
  <2>1. m \o c \in Bytes
    BY DEF Bytes
  <2>2. /\ ReadAll(q \o (m \o c)).frames = frames \o ReadAll(b \o (m \o c)).frames
        /\ ReadAll(q \o (m \o c)).end = ReadAll(b \o (m \o c)).end
    BY <1>2, <2>1 DEF Same
  <2>3. q \in Seq(Unit) /\ b \in Seq(Unit) /\ m \in Seq(Unit) /\ c \in Seq(Unit)
    BY <1>1 DEF Bytes
  <2>4. q \o (m \o c) = (q \o m) \o c /\ b \o (m \o c) = (b \o m) \o c
    <3>1. \A x, y, z \in Seq(Unit) : x \o (y \o z) = (x \o y) \o z
      BY Assoc
    <3>2. QED
      BY <2>3, <3>1
  <2>5. QED
    BY <2>1, <2>2, <2>4
<1>8. ASSUME push.bad PROVE Decoded(q \o m, b, << >>, del, "corrupt")
  <2>1. << >> \in Bytes /\ (q \o m) \o << >> = q \o m /\ (b \o m) \o << >> = b \o m
    BY <1>5 DEF Bytes
  <2>2. /\ ReadAll(q \o m).frames = frames \o ReadAll(b \o m).frames
        /\ ReadAll(q \o m).end = ReadAll(b \o m).end
    BY <1>7, <2>1
  <2>3. ReadAll(b \o m).frames \in Seq(FrameType)
    BY <1>5, ReadAllTypes DEF ReadType
  <2>4. Begins(del, ReadAll(q \o m).frames)
    <3>1. \A Z : \A x, y \in Seq(Z) :
            Len(x) <= Len(x \o y) /\ \A i \in 1 .. Len(x) : (x \o y)[i] = x[i]
      OBVIOUS
    <3>2. Len(frames) <= Len(ReadAll(q \o m).frames)
          /\ \A i \in 1 .. Len(frames) : ReadAll(q \o m).frames[i] = frames[i]
      BY <2>2, <2>3, <3>1
    <3>3. QED
      BY <1>2, <1>6, <3>2 DEF Begins
  <2>5. QED
    BY <1>1, <1>3, <1>5, <1>8, <2>2, <2>4 DEF Decoded
<1>9. ASSUME ~push.bad PROVE Decoded(q \o m, push.rest, push.frames, del, "none")
  <2> DEFINE all == frames \o push.frames
  <2>1. /\ all \in Seq(FrameType) /\ Len(all) = Len(del) + Len(push.frames)
        /\ Len(push.frames) \in Nat
        /\ \A i \in 1 .. Len(del) : all[i] = frames[i]
        /\ \A i \in 1 .. Len(push.frames) : all[Len(del) + i] = push.frames[i]
    <3>1. \A Z : \A x, y \in Seq(Z) :
            /\ x \o y \in Seq(Z) /\ Len(x \o y) = Len(x) + Len(y) /\ Len(y) \in Nat
            /\ \A i \in 1 .. Len(x) : (x \o y)[i] = x[i]
            /\ \A i \in 1 .. Len(y) : (x \o y)[Len(x) + i] = y[i]
      OBVIOUS
    <3>2. /\ all \in Seq(FrameType) /\ Len(all) = Len(frames) + Len(push.frames)
          /\ Len(push.frames) \in Nat
          /\ \A i \in 1 .. Len(frames) : all[i] = frames[i]
          /\ \A i \in 1 .. Len(push.frames) : all[Len(frames) + i] = push.frames[i]
      <4>1. frames \in Seq(FrameType) /\ push.frames \in Seq(FrameType)
        BY <1>4
      <4>2. QED
        BY ONLY <4>1, <3>1 DEF all
    <3>3. QED
      BY <1>6, <3>2
  <2>2. Same(q \o m, all, push.rest)
    <3> SUFFICES ASSUME NEW c \in Bytes
                 PROVE  /\ ReadAll((q \o m) \o c).frames = all \o ReadAll(push.rest \o c).frames
                        /\ ReadAll((q \o m) \o c).end = ReadAll(push.rest \o c).end
      BY DEF Same
    <3>1. /\ ReadAll((b \o m) \o c).frames = push.frames \o ReadAll(push.rest \o c).frames
          /\ ReadAll((b \o m) \o c).end = ReadAll(push.rest \o c).end
      BY <1>3, <1>9 DEF Same
    <3>2. ReadAll(push.rest \o c).frames \in Seq(FrameType)
      <4>1. push.rest \o c \in Bytes
        BY <1>4 DEF Bytes
      <4>2. QED
        BY <4>1, ReadAllTypes DEF ReadType
    <3>3. frames \o (push.frames \o ReadAll(push.rest \o c).frames)
            = all \o ReadAll(push.rest \o c).frames
      <4>1. \A x, y, z \in Seq(FrameType) : x \o (y \o z) = (x \o y) \o z
        BY Assoc
      <4>2. QED
        BY <1>4, <3>2, <4>1
    <3>4. QED
      BY <1>7, <3>1, <3>3
  <2>3. Begins(del, all) /\ Follows(del, push.frames, all)
    BY <1>2, <1>6, <2>1 DEF Begins, Follows
  <2> HIDE DEF all
  <2>4. QED
    BY <1>1, <1>3, <1>4, <1>5, <1>9, <2>1, <2>2, <2>3 DEF Decoded
<1>10. QED
  BY <1>4, <1>8, <1>9 DEF push

\* One of the decoded frames is handled.
LEMMA DecodedHandled ==
  ASSUME NEW q, NEW b, NEW t, t # << >>, NEW del, Decoded(q, b, t, del, "none")
  PROVE  /\ Head(t).kind = Exit => Decoded(q, b, Tail(t), del, "exit")
         /\ Head(t).kind # Exit => Decoded(q, b, Tail(t), Append(del, Head(t).payload), "none")
<1>1. q \in Bytes /\ b \in Bytes /\ t \in Seq(FrameType) /\ del \in Seq(Bytes)
  BY DEF Decoded
<1>2. PICK frames \in Seq(FrameType) :
        ~Complete(b) /\ Same(q, frames, b) /\ Begins(del, frames) /\ Follows(del, t, frames)
  BY DEF Decoded
<1> DEFINE n == Len(del)
           u == Tail(t)
           h == Head(t)
<1>3. /\ n \in Nat /\ Len(t) \in Nat /\ Len(t) >= 1 /\ h = t[1] /\ h \in FrameType
      /\ u \in Seq(FrameType) /\ Len(u) = Len(t) - 1 /\ \A i \in 1 .. Len(u) : u[i] = t[i + 1]
  BY <1>1
<1> HIDE DEF u, h
<1>4. Len(frames) = n + Len(t) /\ frames[n + 1] = h /\ n < Len(frames)
  <2>1. 1 \in 1 .. Len(t)
    BY <1>3
  <2>2. QED
    BY <1>2, <1>3, <2>1 DEF Follows
<1>5. h.kind = Exit => Decoded(q, b, u, del, "exit")
  BY <1>1, <1>2, <1>3, <1>4 DEF Decoded
<1>6. ASSUME h.kind # Exit PROVE Decoded(q, b, u, Append(del, h.payload), "none")
  <2> DEFINE del2 == Append(del, h.payload)
  <2>1. h = [kind |-> Out, payload |-> h.payload] /\ h.payload \in Bytes
    BY <1>3, <1>6 DEF FrameType
  <2>2. /\ del2 \in Seq(Bytes) /\ Len(del2) = n + 1 /\ del2[n + 1] = h.payload
        /\ \A i \in 1 .. n : del2[i] = del[i]
    BY <1>1, <2>1
  <2> HIDE DEF del2
  <2>3. Begins(del2, frames)
    <3>1. Len(del2) <= Len(frames)
      BY <1>3, <1>4, <2>2
    <3>2. ASSUME NEW i \in 1 .. Len(del2)
          PROVE  frames[i] = [kind |-> Out, payload |-> del2[i]]
      <4>1. CASE i = n + 1
        BY <1>4, <2>1, <2>2, <4>1
      <4>2. CASE i # n + 1
        <5>1. i \in 1 .. n
          BY <1>3, <2>2, <4>2
        <5>2. QED
          BY <1>2, <2>2, <5>1 DEF Begins
      <4>3. QED
        BY <4>1, <4>2
    <3>3. QED
      BY <3>1, <3>2 DEF Begins
  <2>4. Follows(del2, u, frames)
    <3>1. Len(frames) = Len(del2) + Len(u)
      BY <1>3, <1>4, <2>2
    <3>2. ASSUME NEW i \in 1 .. Len(u) PROVE frames[Len(del2) + i] = u[i]
      <4>1. i + 1 \in 1 .. Len(t) /\ Len(del2) + i = n + (i + 1)
        BY <1>3, <2>2
      <4>2. frames[n + (i + 1)] = t[i + 1]
        BY <1>2, <4>1 DEF Follows
      <4>3. QED
        BY <1>3, <4>1, <4>2
    <3>3. QED
      BY <3>1, <3>2 DEF Follows
  <2>5. Decoded(q, b, u, del2, "none")
    BY <1>1, <1>2, <1>3, <2>2, <2>3, <2>4 DEF Decoded
  <2>6. QED
    BY <2>5 DEF del2
<1>7. QED
  BY <1>5, <1>6 DEF u, h

\* What the messages on the way and the decoder hold is the stream, in order.
DecodeInv ==
  /\ reaper # "none" => wait = "dropped"
  /\ wait \in {"loop", "deliver", "finishing"} =>
       /\ stream \in Bytes /\ msgs \in Seq(Bytes) /\ hand \in Bytes
       /\ fed \in Nat /\ fed <= Len(stream)
       /\ reader # "handing" => hand = << >>
       /\ InOrder(fed, Append(msgs, hand), stream)
       /\ Decoded(SubSeq(stream, 1, fed), buf, todo, delivered, outcome)
       /\ wait = "loop" => outcome = "none" /\ todo = << >>
       /\ wait = "deliver" => outcome = "none" /\ todo # << >>

\* A message that is handed on, or kept in the hand, is the next piece of the stream.
LEMMA ReceiveKeeps ==
  ASSUME NEW m \in Bytes, Receive(m), DecodeInv,
         wait \in {"loop", "deliver", "finishing"}, reader = "reading"
  PROVE  /\ msgs' \in Seq(Bytes) /\ hand' \in Bytes
         /\ reader' # "handing" => hand' = << >>
         /\ InOrder(fed, Append(msgs', hand'), stream \o m)
<1>1. /\ stream \in Bytes /\ msgs \in Seq(Bytes) /\ hand = << >> /\ << >> \in Bytes
      /\ InOrder(fed, Append(msgs, << >>), stream)
  BY DEF DecodeInv, Bytes
<1>2. InOrder(fed, msgs, stream)
  BY <1>1, DropNothing
<1>3. InOrder(fed, Append(msgs, m), stream \o m) /\ Append(msgs, m) \in Seq(Bytes)
  BY <1>1, <1>2, AddPiece
<1>4. stream \o m \in Bytes /\ (stream \o m) \o << >> = stream \o m
  BY <1>1 DEF Bytes
<1>5. InOrder(fed, Append(Append(msgs, m), << >>), stream \o m)
  BY <1>1, <1>3, <1>4, AddPiece
<1>6. CASE Len(msgs) < MsgCap
  BY <1>1, <1>3, <1>5, <1>6 DEF Receive
<1>7. CASE ~(Len(msgs) < MsgCap)
  BY <1>1, <1>3, <1>7 DEF Receive
<1>8. QED
  BY <1>6, <1>7

\* Every step keeps the invariant.
LEMMA DecodeKept == DecodeInv /\ [Next]_vars => DecodeInv'
<1> SUFFICES ASSUME DecodeInv, [Next]_vars PROVE DecodeInv'
  OBVIOUS
<1> USE DEF channel, input, decoder, control, output, teardown
<1>1. CASE /\ UNCHANGED <<stream, reader, hand, msgs, buf, fed, todo, delivered, wait, outcome>>
           /\ reaper' = reaper
  BY <1>1 DEF DecodeInv
<1>2. CASE Remote \/ Sending \/ Forwarding \/ Tick \/ UNCHANGED vars
  BY <1>1, <1>2 DEF Remote, RemoteEnds, LinkFails, Sending, TakeSignal, SignalSent, SenderEnds,
     Forwarding, ForwardItem, WriteDone, WriteFails, BeginClose, ForwarderLeaves, CloseDone,
     CloseTimeout, Tick, vars
<1>3. CASE Ending
  <2>1. CASE AbortSides
    BY <2>1 DEF AbortSides, DecodeInv
  <2>2. CASE Joined \/ JoinTimeout
    BY <2>2 DEF Joined, JoinTimeout, DecodeInv
  <2>3. CASE DropEngine
    BY <2>3 DEF DropEngine, DecodeInv
  <2>4. CASE Reaped \/ ReapTimeout
    BY <2>4 DEF Reaped, ReapTimeout, DecodeInv
  <2>5. QED
    BY <1>3, <2>1, <2>2, <2>3, <2>4 DEF Ending
<1>4. CASE ReadChunk
  <2>1. PICK n \in 1 .. MaxChunk : \E units \in [1 .. n -> Unit] :
          stream' = stream \o units /\ Receive(units)
    BY <1>4 DEF ReadChunk
  <2>2. PICK m \in [1 .. n -> Unit] : stream' = stream \o m /\ Receive(m)
    BY <2>1
  <2>3. m \in Bytes
    <3>1. n \in Nat
      BY EngineAssumption
    <3>2. QED
      BY <3>1 DEF Bytes
  <2>4. /\ reader = "reading" /\ wait \in {"loop", "deliver"} /\ reaper' = reaper
        /\ UNCHANGED <<buf, fed, todo, delivered, wait, outcome>>
    BY <1>4 DEF ReadChunk
  <2>5. /\ stream \in Bytes /\ fed \in Nat /\ fed <= Len(stream)
        /\ Decoded(SubSeq(stream, 1, fed), buf, todo, delivered, outcome)
    BY <2>4 DEF DecodeInv
  <2>6. stream' \in Bytes /\ fed <= Len(stream') /\ SubSeq(stream', 1, fed) = SubSeq(stream, 1, fed)
    <3>1. \A Z : \A x, y \in Seq(Z), a \in Nat :
            a <= Len(x) => /\ x \o y \in Seq(Z) /\ a <= Len(x \o y)
                           /\ SubSeq(x \o y, 1, a) = SubSeq(x, 1, a)
      OBVIOUS
    <3>2. QED
      BY <2>2, <2>3, <2>5, <3>1 DEF Bytes
  <2>7. /\ msgs' \in Seq(Bytes) /\ hand' \in Bytes
        /\ reader' # "handing" => hand' = << >>
        /\ InOrder(fed, Append(msgs', hand'), stream')
    BY <2>2, <2>3, <2>4, ReceiveKeeps
  <2>8. QED
    BY <2>4, <2>5, <2>6, <2>7 DEF DecodeInv
<1>5. CASE ReadEnd
  <2>1. /\ reader = "reading" /\ reaper' = reaper /\ Receive(Closed)
        /\ UNCHANGED <<stream, buf, fed, todo, delivered, wait, outcome>>
    BY <1>5 DEF ReadEnd
  <2>2. CASE wait \in {"loop", "deliver", "finishing"}
    <3>1. << >> \in Bytes /\ stream \o << >> = stream
      BY <2>2 DEF DecodeInv, Bytes
    <3>2. /\ msgs' \in Seq(Bytes) /\ hand' \in Bytes
          /\ reader' # "handing" => hand' = << >>
          /\ InOrder(fed, Append(msgs', hand'), stream)
      BY <2>1, <2>2, <3>1, ReceiveKeeps DEF Closed
    <3>3. QED
      BY <2>1, <2>2, <3>2 DEF DecodeInv
  <2>3. CASE wait \notin {"loop", "deliver", "finishing"}
    BY <2>1, <2>3 DEF DecodeInv
  <2>4. QED
    BY <2>2, <2>3
<1>6. CASE HandOn
  <2>1. /\ msgs' = Append(msgs, hand) /\ hand' = << >> /\ reaper' = reaper
        /\ reader' # "handing"
        /\ UNCHANGED <<stream, buf, fed, todo, delivered, wait, outcome>>
    BY <1>6 DEF HandOn
  <2>2. CASE wait \in {"loop", "deliver", "finishing"}
    <3>1. /\ stream \in Bytes /\ << >> \in Bytes /\ stream \o << >> = stream
          /\ msgs' \in Seq(Bytes) /\ InOrder(fed, msgs', stream)
      BY <2>1, <2>2 DEF DecodeInv, Bytes
    <3>2. InOrder(fed, Append(msgs', << >>), stream)
      BY <3>1, AddPiece
    <3>3. QED
      BY <2>1, <2>2, <3>1, <3>2 DEF DecodeInv
  <2>3. CASE wait \notin {"loop", "deliver", "finishing"}
    BY <2>1, <2>3 DEF DecodeInv
  <2>4. QED
    BY <2>2, <2>3
<1>7. CASE ReaderEnds
  <2>1. /\ hand' = << >> /\ reaper' = reaper
        /\ reader # "handing" \/ wait \notin {"loop", "deliver", "finishing"}
        /\ UNCHANGED <<stream, msgs, buf, fed, todo, delivered, wait, outcome>>
    BY <1>7 DEF ReaderEnds
  <2>2. QED
    BY <2>1 DEF DecodeInv
<1>8. CASE TakeData
  <2> DEFINE m == Head(msgs)
             q == SubSeq(stream, 1, fed)
             push == Push(buf, m)
             next == fed + Len(m)
  <2>1. /\ wait = "loop" /\ msgs # << >> /\ msgs' = Tail(msgs) /\ fed' = next
        /\ reaper' = reaper /\ UNCHANGED <<stream, reader, hand, delivered>>
        /\ push.bad => /\ outcome' = "corrupt" /\ wait' = "finishing"
                       /\ UNCHANGED <<buf, todo>>
        /\ ~push.bad => /\ buf' = push.rest /\ todo' = push.frames /\ outcome' = outcome
                        /\ wait' = IF push.frames = << >> THEN "loop" ELSE "deliver"
    BY <1>8 DEF TakeData, Leave
  <2>2. /\ stream \in Bytes /\ msgs \in Seq(Bytes) /\ hand \in Bytes /\ fed \in Nat
        /\ reader # "handing" => hand = << >>
        /\ InOrder(fed, Append(msgs, hand), stream)
        /\ Decoded(q, buf, << >>, delivered, "none")
        /\ outcome = "none" /\ todo = << >>
    BY <2>1 DEF DecodeInv
  <2>3. /\ m \in Bytes /\ Tail(msgs) \in Seq(Bytes)
        /\ Append(msgs, hand) \in Seq(Bytes) /\ Append(msgs, hand) # << >>
        /\ Head(Append(msgs, hand)) = m /\ Tail(Append(msgs, hand)) = Append(Tail(msgs), hand)
    <3>1. \A Z : \A x \in Seq(Z), h \in Z :
            x # << >> =>
              /\ Head(x) \in Z /\ Tail(x) \in Seq(Z)
              /\ Append(x, h) \in Seq(Z) /\ Append(x, h) # << >>
              /\ Head(Append(x, h)) = Head(x) /\ Tail(Append(x, h)) = Append(Tail(x), h)
      OBVIOUS
    <3>2. QED
      BY <2>1, <2>2, <3>1
  <2>4. /\ next \in Nat /\ next <= Len(stream)
        /\ SubSeq(stream, 1, next) = q \o m
        /\ InOrder(next, Append(Tail(msgs), hand), stream)
    <3> HIDE DEF m, next, q
    <3>1. /\ fed + Len(Head(Append(msgs, hand))) = next
      BY <2>3 DEF next
    <3>2. QED
      BY <2>2, <2>3, <3>1, TakePiece DEF q
  <2>5. /\ push.bad \in BOOLEAN
        /\ push.bad => Decoded(q \o m, buf, << >>, delivered, "corrupt")
        /\ ~push.bad => Decoded(q \o m, push.rest, push.frames, delivered, "none")
    <3> HIDE DEF m, q
    <3>1. QED
      BY <2>2, <2>3, DecodedNext
  <2> HIDE DEF m, q, push, next
  <2>6. CASE push.bad
    BY <2>1, <2>2, <2>3, <2>4, <2>5, <2>6 DEF DecodeInv
  <2>7. CASE ~push.bad
    BY <2>1, <2>2, <2>3, <2>4, <2>5, <2>7 DEF DecodeInv
  <2>8. QED
    BY <2>6, <2>7
<1>9. CASE Deliver
  <2> DEFINE q == SubSeq(stream, 1, fed)
  <2>1. /\ wait = "deliver" /\ todo' = Tail(todo) /\ reaper' = reaper
        /\ UNCHANGED <<stream, reader, hand, msgs, buf, fed>>
        /\ Head(todo).kind = Exit =>
             outcome' = "exit" /\ wait' = "finishing" /\ delivered' = delivered
        /\ Head(todo).kind # Exit =>
             /\ delivered' = Append(delivered, Head(todo).payload) /\ outcome' = outcome
             /\ wait' = IF Len(todo) = 1 THEN "loop" ELSE "deliver"
    BY <1>9 DEF Deliver, Leave
  <2>2. /\ stream \in Bytes /\ msgs \in Seq(Bytes) /\ hand \in Bytes
        /\ fed \in Nat /\ fed <= Len(stream)
        /\ reader # "handing" => hand = << >>
        /\ InOrder(fed, Append(msgs, hand), stream)
        /\ Decoded(q, buf, todo, delivered, "none")
        /\ outcome = "none" /\ todo # << >>
    BY <2>1 DEF DecodeInv
  <2>3. (Len(todo) = 1) <=> (Tail(todo) = << >>)
    <3>1. \A Z : \A x \in Seq(Z) : x # << >> => ((Len(x) = 1) <=> (Tail(x) = << >>))
      <4> SUFFICES ASSUME NEW Z, NEW x \in Seq(Z), x # << >>
                   PROVE  (Len(x) = 1) <=> (Tail(x) = << >>)
        OBVIOUS
      <4>1. Len(Tail(x)) = Len(x) - 1 /\ Tail(x) \in Seq(Z) /\ Len(x) \in Nat
        OBVIOUS
      <4>2. (Tail(x) = << >>) <=> (Len(Tail(x)) = 0)
        <5>1. \A y \in Seq(Z) : (y = << >>) <=> (Len(y) = 0)
          OBVIOUS
        <5>2. QED
          BY <4>1, <5>1
      <4>3. QED
        BY <4>1, <4>2
    <3>2. todo \in Seq(FrameType)
      BY <2>2 DEF Decoded
    <3>3. QED
      BY <2>2, <3>1, <3>2
  <2>4. /\ Head(todo).kind = Exit => Decoded(q, buf, Tail(todo), delivered, "exit")
        /\ Head(todo).kind # Exit =>
             Decoded(q, buf, Tail(todo), Append(delivered, Head(todo).payload), "none")
    <3> HIDE DEF q
    <3>1. QED
      BY <2>2, DecodedHandled
  <2>5. CASE Head(todo).kind = Exit
    BY <2>1, <2>2, <2>4, <2>5 DEF DecodeInv
  <2>6. CASE Head(todo).kind # Exit
    BY <2>1, <2>2, <2>3, <2>4, <2>6 DEF DecodeInv
  <2>7. QED
    BY <2>5, <2>6
<1>10. CASE TakeEnd
  <2>1. /\ wait = "loop" /\ outcome' = "no report" /\ wait' = "finishing" /\ reaper' = reaper
        /\ UNCHANGED <<stream, reader, hand, msgs, buf, fed, todo, delivered>>
    BY <1>10 DEF TakeEnd, Leave
  <2>2. Decoded(SubSeq(stream, 1, fed), buf, todo, delivered, "none") /\ outcome = "none"
    BY <2>1 DEF DecodeInv
  <2>3. Decoded(SubSeq(stream, 1, fed), buf, todo, delivered, "no report")
    BY <2>2 DEF Decoded
  <2>4. QED
    BY <2>1, <2>2, <2>3 DEF DecodeInv
<1>11. QED
  BY <1>2, <1>3, <1>4, <1>5, <1>6, <1>7, <1>8, <1>9, <1>10 DEF Next, Reading, Loop

\* It holds at the start.
LEMMA DecodeStarts == Init => DecodeInv
<1> SUFFICES ASSUME Init PROVE DecodeInv
  OBVIOUS
<1>1. /\ stream = << >> /\ hand = << >> /\ msgs = << >> /\ buf = << >> /\ fed = 0
      /\ todo = << >> /\ delivered = << >> /\ wait = "loop" /\ outcome = "none"
      /\ reaper = "none"
  BY DEF Init
<1>2. /\ << >> \in Bytes /\ << >> \in Seq(Bytes) /\ << >> \in Seq(FrameType)
      /\ SubSeq(<< >>, 1, 0) = << >> /\ Len(<< >>) = 0 /\ ~(0 >= 2)
      /\ Append(<< >>, << >>) = << << >> >>
  BY DEF Bytes
<1>3. InOrder(0, Append(<< >>, << >>), << >>)
  <2>1. CutAt([i \in 1 .. 1 |-> 0], 0, << >>, << >>)
    BY <1>2 DEF CutAt
  <2>2. InOrder(0, << >>, << >>)
    BY <2>1 DEF InOrder
  <2>3. << >> \o << >> = << >>
    OBVIOUS
  <2>4. QED
    BY <1>2, <2>2, <2>3, AddPiece
<1>4. Decoded(<< >>, << >>, << >>, << >>, "none")
  <2>1. ~Complete(<< >>)
    BY <1>2 DEF Complete
  <2>2. Begins(<< >>, << >>) /\ Follows(<< >>, << >>, << >>)
    BY <1>2 DEF Begins, Follows
  <2>3. Same(<< >>, << >>, << >>)
    <3> SUFFICES ASSUME NEW c \in Bytes
                 PROVE  /\ ReadAll(<< >> \o c).frames = << >> \o ReadAll(<< >> \o c).frames
                        /\ ReadAll(<< >> \o c).end = ReadAll(<< >> \o c).end
      BY DEF Same
    <3>1. << >> \o c = c /\ ReadAll(c).frames \in Seq(FrameType)
      BY ReadAllTypes DEF Bytes, ReadType
    <3>2. QED
      BY <3>1
  <2>4. QED
    BY <1>2, <2>1, <2>2, <2>3 DEF Decoded
<1>5. Decoded(SubSeq(stream, 1, fed), buf, todo, delivered, outcome)
  BY <1>1, <1>2, <1>4
<1>6. InOrder(fed, Append(msgs, hand), stream)
  BY <1>1, <1>3
<1>7. QED
  BY <1>1, <1>2, <1>5, <1>6 DEF DecodeInv

\* It implies the property.
LEMMA DecodedAsRead == DecodeInv => DecodesAsRead
<1> SUFFICES ASSUME DecodeInv, wait \in {"loop", "deliver", "finishing"}
             PROVE  LET all == ReadAll(SubSeq(stream, 1, fed))
                        n == Len(delivered)
                    IN /\ n <= Len(all.frames)
                       /\ \A i \in 1 .. n : all.frames[i] = [kind |-> Out, payload |-> delivered[i]]
                       /\ outcome \in {"none", "no report"} /\ todo = << >> => n = Len(all.frames)
                       /\ outcome = "exit" => n < Len(all.frames) /\ all.frames[n + 1].kind = Exit
                       /\ outcome = "corrupt" => all.end # "clean"
  BY DEF DecodesAsRead
<1> DEFINE q == SubSeq(stream, 1, fed)
           all == ReadAll(q)
           n == Len(delivered)
<1>1. Decoded(q, buf, todo, delivered, outcome)
  BY DEF DecodeInv
<1> HIDE DEF q
<1>2. CASE outcome = "corrupt"
  BY <1>1, <1>2 DEF Decoded, Begins, q
<1>3. CASE outcome # "corrupt"
  <2>1. PICK frames \in Seq(FrameType) :
          /\ ~Complete(buf) /\ Same(q, frames, buf) /\ Begins(delivered, frames)
          /\ outcome \in {"none", "no report"} => Follows(delivered, todo, frames)
          /\ outcome = "exit" => n < Len(frames) /\ frames[n + 1].kind = Exit
    BY <1>1, <1>3 DEF Decoded
  <2>2. q \in Bytes /\ buf \in Bytes /\ delivered \in Seq(Bytes)
    BY <1>1 DEF Decoded
  <2>3. all.frames = frames
    BY <2>1, <2>2, DecodedFrames
  <2>4. n \in Nat /\ Len(<< >>) = 0
    BY <2>2
  <2>5. Follows(delivered, todo, frames) /\ todo = << >> => n = Len(frames)
    BY <2>4 DEF Follows
  <2>6. /\ n <= Len(frames)
        /\ \A i \in 1 .. n : frames[i] = [kind |-> Out, payload |-> delivered[i]]
    BY <2>1 DEF Begins
  <2>7. ReadAll(SubSeq(stream, 1, fed)).frames = frames
    BY <2>3 DEF q
  <2>8. QED
    BY <1>3, <2>1, <2>5, <2>6, <2>7
<1>4. QED
  BY <1>2, <1>3 DEF q

\* However the channel cuts the stream into messages, and wherever the loop stands, the
\* client has been sent the first of the frames that a reader of the whole stream finds,
\* all of them at the end, and only a stream which that reader refuses is called corrupt.
THEOREM DecodedLikeWholeReader == Spec => []DecodesAsRead
BY DecodeStarts, DecodeKept, DecodedAsRead, PTL DEF Spec
=============================================================================
