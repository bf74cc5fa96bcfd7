------------------------- MODULE StateReportProofs -------------------------
(***************************************************************************)
(* Theorems about StateReport, for every cap, every pipe, every length of  *)
(* a dump and any number of executions and reused process ids.             *)
(***************************************************************************)
EXTENDS StateReport, TLAPS

\* The library's minimum and maximum, of the two numbers the steps compare.
LEMMA MinOfTwo ==
  ASSUME NEW a \in Int, NEW b \in Int
  PROVE  Min({a, b}) = IF a <= b THEN a ELSE b
<1>1. \E x \in {a, b} : \A y \in {a, b} : x <= y
  OBVIOUS
<1>2. Min({a, b}) \in {a, b} /\ \A y \in {a, b} : Min({a, b}) <= y
  BY <1>1 DEF Min
<1>3. QED
  BY <1>2

\* The same of the larger one.
LEMMA MaxOfTwo ==
  ASSUME NEW a \in Int, NEW b \in Int
  PROVE  Max({a, b}) = IF a >= b THEN a ELSE b
<1>1. \E x \in {a, b} : \A y \in {a, b} : x >= y
  OBVIOUS
<1>2. Max({a, b}) \in {a, b} /\ \A y \in {a, b} : Max({a, b}) >= y
  BY <1>1 DEF Max
<1>3. QED
  BY <1>2

\* A dump or file is told from none by its execution, too.
LEMMA ContentsFacts ==
  /\ Nothing \in Contents /\ Nothing.run = 0 /\ Nothing.bytes = 0
  /\ \A x \in Contents : /\ x.run \in 0 .. MaxRuns /\ x.bytes \in Nat
                         /\ x # Nothing => x.run \in 1 .. MaxRuns
  /\ \A r \in 1 .. MaxRuns, n \in Nat : [run |-> r, bytes |-> n] \in Contents
  BY ReportAssumption DEF Nothing, Contents

\* What is assumed of the constants, one by one.
LEMMA ConstantFacts ==
  /\ Cap \in Nat /\ Chunk \in Nat /\ PipeCap \in Nat /\ MaxDump \in Nat /\ MaxRuns \in Nat
  /\ Cap > 0 /\ Chunk > 0 /\ PipeCap > 0 /\ MaxDump > 0 /\ MaxRuns > 0
  BY ReportAssumption

\* What one read or write may move.
LEMMA Moves ==
  ASSUME NEW a \in Int, NEW b \in Int, NEW n \in 1 .. Min({a, b})
  PROVE  n \in Nat /\ n >= 1 /\ n <= a /\ n <= b
<1>1. Min({a, b}) \in Int /\ Min({a, b}) <= a /\ Min({a, b}) <= b
  BY MinOfTwo
<1>2. QED
  BY <1>1

(***************************************************************************)
(* The inductive invariant                                                 *)
(***************************************************************************)
\* The reader has what was written and is not in the pipe any more, and it only
\* ends before the wrapper does if serve dies.
ReaderInv ==
  /\ reader = "reading" => result = Nothing
  /\ reader = "reading" /\ ~overflow =>
       buf + pipe = written /\ nul # "read" /\ buf <= Cap
  /\ reader = "done" => wrapper \notin {"command", "dumping"}
  /\ reader = "dead" <=> stage = "dead"
  /\ wrapper = "sigpipe" => stage = "dead"

\* The terminator is the last thing a wrapper that completes its dump writes.
DumpInv ==
  /\ nul = "unwritten" <=> wrapper # "exited"
  /\ nul # "unwritten" => written = size[run]
  /\ wrapper \in {"killed", "sigpipe"} => run \in torn
  /\ wrapper = "command" => written = 0

\* What is returned of a dump is the whole of it, or its wrapper was killed.
ResultInv ==
  result # Nothing =>
    /\ result.run = run /\ wrapper \notin {"command", "dumping"}
    /\ run \notin torn => result.bytes = size[run]

\* Only a result that fits is written, and only under its execution's name.
SaveInv ==
  /\ stage \in {"save", "write"} => result # Nothing
  /\ stage = "write" => tmp[pid].run = run /\ result.bytes <= Cap
  /\ file.run <= run
  /\ file.run = run => stage \in {"report", "dead"}
  /\ file.bytes <= Cap

Inv == TypeOK /\ ReaderInv /\ DumpInv /\ ResultInv /\ SaveInv /\ FileIsWhole

\* What the invariant says besides the types.
Sound == ReaderInv /\ DumpInv /\ ResultInv /\ SaveInv /\ FileIsWhole

\* No step leaves the types.
LEMMA TypesKept == Inv /\ [Next]_vars => TypeOK'
  <1> SUFFICES ASSUME Inv, [Next]_vars PROVE TypeOK'
    OBVIOUS
  <1> USE ConstantFacts, ContentsFacts
  <1>1. CASE LoadState
    BY <1>1 DEF TypeOK, Inv, LoadState, dumping, reading, saving
  <1>2. CASE LeavesJob
    BY <1>2 DEF TypeOK, Inv, LeavesJob, dumping, reading, saving
  <1>3. CASE JobEnds
    BY <1>3 DEF TypeOK, Inv, JobEnds, dumping, reading, saving
  <1>4. CASE StartDump
    BY <1>4 DEF TypeOK, Inv, StartDump, dumping, reading, saving
  <1>5. CASE WriteDump
    <2>1. PICK n \in 1 .. Min({PipeCap - pipe, size[run] - written}) :
            pipe' = pipe + n /\ written' = written + n
      BY <1>5 DEF WriteDump
    <2>2. /\ pipe \in Nat /\ written \in Nat /\ size[run] \in 0 .. MaxDump
          /\ pipe + buf <= written /\ buf \in Nat
      BY DEF Inv, TypeOK
    <2>3. n \in Nat /\ n <= PipeCap - pipe /\ n <= size[run] - written
      BY <2>2, Moves
    <2>4. /\ pipe' \in 0 .. PipeCap /\ written' \in 0 .. MaxDump
          /\ pipe' + buf <= written'
      BY <2>1, <2>2, <2>3
    <2>5. QED
      BY <1>5, <2>4 DEF Inv, TypeOK, WriteDump, reading, saving
  <1>6. CASE WriteNul
    BY <1>6 DEF TypeOK, Inv, WriteNul, dumping, reading, saving
  <1>7. CASE BrokenPipe
    BY <1>7 DEF TypeOK, Inv, BrokenPipe, dumping, reading, saving
  <1>8. CASE WrapperKilled
    BY <1>8 DEF TypeOK, Inv, WrapperKilled, dumping, reading, saving
  <1>9. CASE ReadToNul
    <2>1. /\ pipe \in Nat /\ buf \in Nat /\ buf <= Cap /\ written \in 0 .. MaxDump
          /\ pipe + buf <= written
      BY <1>9 DEF Inv, TypeOK, ReaderInv, ReadToNul
    <2>2. pipe + 1 <= Chunk
      BY <1>9, <2>1 DEF ReadToNul, Readable, ReachesNul
    <2>3. buf' \in 0 .. Cap + Chunk /\ pipe' = 0 /\ pipe' + buf' <= written /\ nul' = "read"
      BY <1>9, <2>1, <2>2 DEF ReadToNul
    <2>4. result' \in Contents /\ reader' = "done"
      BY <1>9, <2>1 DEF ReadToNul, Returns, Inv, TypeOK
    <2>5. QED
      BY <1>9, <2>3, <2>4 DEF Inv, TypeOK, ReadToNul, saving
  <1>10. CASE ReadMore
    <2>1. PICK n \in 1 .. Min({Chunk, pipe}) :
            pipe' = pipe - n /\ buf' = buf + n /\ overflow' = (buf + n > Cap)
      BY <1>10 DEF ReadMore
    <2>2. /\ pipe \in 0 .. PipeCap /\ buf \in Nat /\ buf <= Cap /\ written \in Nat
          /\ pipe + buf <= written
      BY <1>10 DEF Inv, TypeOK, ReaderInv, ReadMore
    <2>3. n \in Nat /\ n <= Chunk /\ n <= pipe
      BY <2>2, Moves
    <2>4. /\ pipe' \in 0 .. PipeCap /\ buf' \in 0 .. Cap + Chunk
          /\ pipe' + buf' <= written /\ overflow' \in BOOLEAN
      BY <2>1, <2>2, <2>3
    <2>5. QED
      BY <1>10, <2>4 DEF Inv, TypeOK, ReadMore, saving
  <1>11. CASE DrainMore
    <2>1. PICK n \in 1 .. Min({Chunk, Readable}) : pipe' = Max({pipe - n, 0})
      BY <1>11 DEF DrainMore
    <2>2. pipe \in 0 .. PipeCap /\ buf \in Nat /\ written \in Nat /\ pipe + buf <= written
      BY DEF Inv, TypeOK
    <2>3. Readable \in Int
      BY <2>2 DEF Readable
    <2>4. n \in Nat
      BY <2>3, Moves
    <2>5. pipe' = IF pipe - n >= 0 THEN pipe - n ELSE 0
      BY <2>1, <2>2, <2>4, MaxOfTwo
    <2>6. pipe' \in 0 .. PipeCap /\ pipe' + buf <= written
      BY <2>2, <2>4, <2>5
    <2>7. nul' \in {"unwritten", "piped", "read"}
      BY <1>11 DEF DrainMore, Inv, TypeOK
    <2>8. QED
      BY <1>11, <2>6, <2>7 DEF Inv, TypeOK, DrainMore, reading, saving
  <1>12. CASE ReadEof
    <2>1. result' \in Contents /\ reader' = "done"
      BY <1>12 DEF ReadEof, Returns, Inv, TypeOK
    <2>2. QED
      BY <1>12, <2>1 DEF Inv, TypeOK, ReadEof, dumping, saving
  <1>13. CASE Collected
    BY <1>13 DEF TypeOK, Inv, Collected, dumping, reading, saving
  <1>14. CASE CreateTemp
    <2>1. [run |-> run, bytes |-> 0] \in Contents
      BY DEF Inv, TypeOK
    <2>2. tmp' \in [Pids -> Contents] /\ stage' \in {"report", "write"}
      <3> DEFINE fresh == [run |-> run, bytes |-> 0]
      <3>1. fresh \in Contents
        BY <2>1
      <3>2. /\ stage' \in {"report", "write"}
            /\ \/ tmp' = tmp
               \/ tmp' = [tmp EXCEPT ![pid] = Nothing]
               \/ tmp' = [tmp EXCEPT ![pid] = fresh]
        BY <1>14 DEF CreateTemp
      <3> HIDE DEF fresh
      <3>3. QED
        BY <3>1, <3>2 DEF Inv, TypeOK
    <2>3. QED
      BY <1>14, <2>2 DEF Inv, TypeOK, CreateTemp, dumping, reading
  <1>15. CASE WriteTemp
    <2>1. tmp[pid] \in Contents /\ pid \in Pids
      BY DEF Inv, TypeOK
    <2>2. tmp[pid].run = run /\ tmp[pid] # Nothing
      BY <1>15, <2>1 DEF Inv, SaveInv, WriteTemp, TypeOK
    <2> DEFINE longer == [tmp[pid] EXCEPT !.bytes = @ + 1]
    <2>3. longer \in Contents
      BY <2>1, <2>2 DEF Contents
    <2>4. tmp' = [tmp EXCEPT ![pid] = longer]
      BY <1>15 DEF WriteTemp
    <2> HIDE DEF longer
    <2>5. tmp' \in [Pids -> Contents]
      BY <2>3, <2>4 DEF Inv, TypeOK
    <2>6. QED
      BY <1>15, <2>5 DEF Inv, TypeOK, WriteTemp, dumping, reading
  <1>16. CASE Rename
    BY <1>16 DEF TypeOK, Inv, Rename, dumping, reading, saving
  <1>17. CASE SaveFails
    BY <1>17 DEF TypeOK, Inv, SaveFails, dumping, reading, saving
  <1>18. CASE ServeKilled
    BY <1>18 DEF TypeOK, Inv, ServeKilled, dumping, reading, saving
  <1>19. CASE NextRun
    <2>1. run' \in 1 .. MaxRuns /\ pid' \in Pids
      BY <1>19 DEF NextRun, Inv, TypeOK
    <2>2. /\ written' \in 0 .. MaxDump /\ pipe' \in 0 .. PipeCap /\ pipe' + buf' <= written'
          /\ buf' \in 0 .. Cap + Chunk
      BY <1>19 DEF NextRun
    <2>3. QED
      BY <1>19, <2>1, <2>2 DEF NextRun, Inv, TypeOK, saving
  <1>20. CASE UNCHANGED vars
    BY <1>20 DEF TypeOK, Inv, vars, dumping, reading, saving
  <1>21. QED
    BY <1>1, <1>2, <1>3, <1>4, <1>5, <1>6, <1>7, <1>8, <1>9, <1>10, <1>11, <1>12, <1>13, <1>14, <1>15, <1>16, <1>17, <1>18, <1>19, <1>20 DEF Next, WrapperStep, ServeStep

\* No step breaks the rest of the invariant.
LEMMA SoundKept == Inv /\ [Next]_vars => Sound'
  <1> SUFFICES ASSUME Inv, [Next]_vars PROVE Sound'
    OBVIOUS
  <1>a. TypeOK'
    BY TypesKept
  <1> USE ConstantFacts, ContentsFacts
  <1>1. CASE LoadState
    BY <1>1 DEF Sound, Inv, TypeOK, ReaderInv, DumpInv, ResultInv, SaveInv, FileIsWhole, LoadState, dumping, reading, saving
  <1>2. CASE LeavesJob
    BY <1>2 DEF Sound, Inv, TypeOK, ReaderInv, DumpInv, ResultInv, SaveInv, FileIsWhole, LeavesJob, dumping, reading, saving
  <1>3. CASE JobEnds
    BY <1>3 DEF Sound, Inv, TypeOK, ReaderInv, DumpInv, ResultInv, SaveInv, FileIsWhole, JobEnds, dumping, reading, saving
  <1>4. CASE StartDump
    BY <1>4 DEF Sound, Inv, TypeOK, ReaderInv, DumpInv, ResultInv, SaveInv, FileIsWhole, StartDump, dumping, reading, saving
  <1>5. CASE WriteDump
    BY <1>5 DEF Sound, Inv, TypeOK, ReaderInv, DumpInv, ResultInv, SaveInv, FileIsWhole, WriteDump, dumping, reading, saving
  <1>6. CASE WriteNul
    BY <1>6 DEF Sound, Inv, TypeOK, ReaderInv, DumpInv, ResultInv, SaveInv, FileIsWhole, WriteNul, dumping, reading, saving
  <1>7. CASE BrokenPipe
    BY <1>7 DEF Sound, Inv, TypeOK, ReaderInv, DumpInv, ResultInv, SaveInv, FileIsWhole, BrokenPipe, dumping, reading, saving
  <1>8. CASE WrapperKilled
    BY <1>8 DEF Sound, Inv, TypeOK, ReaderInv, DumpInv, ResultInv, SaveInv, FileIsWhole, WrapperKilled, dumping, reading, saving
  <1>9. CASE ReadToNul
    <2>1. /\ result' = Nothing \/ result' = [run |-> run, bytes |-> buf + pipe]
          /\ reader' = "done" /\ nul = "piped" /\ nul' = "read"
          /\ UNCHANGED <<run, pid, stage, wrapper, size, written, torn, overflow, saving>>
      BY <1>9 DEF ReadToNul, Returns, ReachesNul
    <2>2. wrapper = "exited" /\ written = size[run] /\ buf + pipe = written
      BY <1>9, <2>1 DEF ReadToNul, Inv, DumpInv, ReaderInv
    <2>3. result' # Nothing => result'.run = run /\ result'.bytes = size[run]
      BY <2>1, <2>2
    <2>4. stage = "collect" /\ reader = "reading"
      BY <1>9 DEF ReadToNul
    <2>5. ReaderInv'
      BY <2>1, <2>2, <2>4 DEF Inv, ReaderInv
    <2>6. DumpInv' /\ ResultInv'
      BY <2>1, <2>2, <2>3 DEF Inv, DumpInv, ResultInv
    <2>7. SaveInv' /\ FileIsWhole'
      BY <2>1, <2>4 DEF Inv, SaveInv, FileIsWhole, saving
    <2>8. QED
      BY <2>5, <2>6, <2>7 DEF Sound
  <1>10. CASE ReadMore
    <2>1. PICK n \in 1 .. Min({Chunk, pipe}) :
            pipe' = pipe - n /\ buf' = buf + n /\ overflow' = (buf + n > Cap)
      BY <1>10 DEF ReadMore
    <2>2. pipe \in Nat /\ buf \in Nat /\ written \in Nat
      BY DEF Inv, TypeOK
    <2>3. n \in Nat
      BY <2>2, Moves
    <2>4. /\ stage = "collect" /\ reader = "reading" /\ ~overflow
          /\ UNCHANGED <<run, pid, stage, wrapper, size, written, nul, torn, reader, result, saving>>
      BY <1>10 DEF ReadMore
    <2>a. buf + pipe = written /\ nul # "read"
      BY <2>4 DEF Inv, ReaderInv
    <2>b. ~overflow' => ~(buf + n > Cap)
      BY <2>1, Zenon
    <2>5. buf' + pipe' = written /\ nul # "read" /\ (~overflow' => buf' <= Cap)
      BY <2>1, <2>2, <2>3, <2>a, <2>b, ConstantFacts
    <2>6. ReaderInv'
      BY <2>4, <2>5 DEF Inv, ReaderInv
    <2>7. DumpInv' /\ ResultInv' /\ SaveInv' /\ FileIsWhole'
      BY <2>4 DEF Inv, DumpInv, ResultInv, SaveInv, FileIsWhole, saving
    <2>8. QED
      BY <2>6, <2>7 DEF Sound
  <1>11. CASE DrainMore
    <2>1. /\ stage = "collect" /\ reader = "reading" /\ overflow
          /\ UNCHANGED <<run, pid, stage, wrapper, size, written, torn, reader, overflow, result, saving>>
      BY <1>11 DEF DrainMore, reading
    <2>a. PICK n \in 1 .. Min({Chunk, Readable}) : nul' = IF ReachesNul(n) THEN "read" ELSE nul
      BY <1>11 DEF DrainMore
    <2>2. nul' = nul \/ (nul = "piped" /\ nul' = "read")
      BY <2>a DEF ReachesNul
    <2>3. ReaderInv'
      BY <2>1 DEF Inv, ReaderInv
    <2>4. DumpInv'
      BY <2>1, <2>2 DEF Inv, DumpInv
    <2>5. ResultInv' /\ SaveInv' /\ FileIsWhole'
      BY <2>1 DEF Inv, ResultInv, SaveInv, FileIsWhole, saving
    <2>6. QED
      BY <2>3, <2>4, <2>5 DEF Sound
  <1>12. CASE ReadEof
    <2>1. /\ stage = "collect" /\ reader = "reading" /\ reader' = "done"
          /\ wrapper \notin {"command", "dumping"}
          /\ UNCHANGED <<run, pid, stage, wrapper, size, written, nul, pipe, torn, buf, overflow, saving>>
      BY <1>12 DEF ReadEof, Returns, WriteEndHeld, dumping
    <2>2. result' # Nothing => ~overflow /\ result' = [run |-> run, bytes |-> buf]
      BY <1>12, <2>1 DEF ReadEof, Returns, Inv, ReaderInv
    <2>3. ASSUME result' # Nothing, run \notin torn PROVE buf = size[run]
      <3>1. wrapper = "exited"
        BY <2>1, <2>3 DEF Inv, DumpInv, TypeOK
      <3>2. nul # "unwritten" /\ written = size[run]
        BY <3>1 DEF Inv, DumpInv
      <3>3. pipe \in Nat /\ buf \in Nat /\ pipe = 0
        BY <1>12 DEF ReadEof, Readable, Inv, TypeOK
      <3>4. buf + pipe = written
        BY <2>1, <2>2, <2>3 DEF Inv, ReaderInv
      <3>5. QED
        BY <3>2, <3>3, <3>4
    <2>4. ReaderInv'
      BY <2>1 DEF Inv, ReaderInv
    <2>5. ResultInv'
      BY <2>1, <2>2, <2>3 DEF ResultInv
    <2>6. DumpInv' /\ SaveInv' /\ FileIsWhole'
      BY <2>1 DEF Inv, DumpInv, SaveInv, FileIsWhole, saving
    <2>7. QED
      BY <2>4, <2>5, <2>6 DEF Sound
  <1>13. CASE Collected
    BY <1>13 DEF Sound, Inv, TypeOK, ReaderInv, DumpInv, ResultInv, SaveInv, FileIsWhole, Collected, dumping, reading, saving
  <1>14. CASE CreateTemp
    BY <1>14 DEF Sound, Inv, TypeOK, ReaderInv, DumpInv, ResultInv, SaveInv, FileIsWhole, CreateTemp, dumping, reading, saving
  <1>15. CASE WriteTemp
    BY <1>15 DEF Sound, Inv, TypeOK, ReaderInv, DumpInv, ResultInv, SaveInv, FileIsWhole, WriteTemp, dumping, reading, saving
  <1>16. CASE Rename
    BY <1>16 DEF Sound, Inv, TypeOK, ReaderInv, DumpInv, ResultInv, SaveInv, FileIsWhole, Rename, dumping, reading, saving
  <1>17. CASE SaveFails
    BY <1>17 DEF Sound, Inv, TypeOK, ReaderInv, DumpInv, ResultInv, SaveInv, FileIsWhole, SaveFails, dumping, reading, saving
  <1>18. CASE ServeKilled
    BY <1>18 DEF Sound, Inv, TypeOK, ReaderInv, DumpInv, ResultInv, SaveInv, FileIsWhole, ServeKilled, dumping, reading, saving
  <1>19. CASE NextRun
    BY <1>19 DEF Sound, Inv, TypeOK, ReaderInv, DumpInv, ResultInv, SaveInv, FileIsWhole, NextRun, dumping, reading, saving
  <1>20. CASE UNCHANGED vars
    BY <1>20 DEF Sound, Inv, TypeOK, ReaderInv, DumpInv, ResultInv, SaveInv, FileIsWhole, vars, dumping, reading, saving
  <1>21. QED
    BY <1>1, <1>2, <1>3, <1>4, <1>5, <1>6, <1>7, <1>8, <1>9, <1>10, <1>11, <1>12, <1>13, <1>14, <1>15, <1>16, <1>17, <1>18, <1>19, <1>20 DEF Next, WrapperStep, ServeStep

\* The invariant holds in every state.
LEMMA InvHolds == Spec => []Inv
<1>1. Init => Inv
  <2> SUFFICES ASSUME Init PROVE Inv
    OBVIOUS
  <2>1. TypeOK
    <3>1. run \in 1 .. MaxRuns /\ written \in 0 .. MaxDump /\ buf \in 0 .. Cap + Chunk
          /\ pipe \in 0 .. PipeCap /\ pipe + buf <= written
      BY ConstantFacts DEF Init
    <3>2. size \in [1 .. MaxRuns -> 0 .. MaxDump] /\ tmp \in [Pids -> Contents]
      BY ConstantFacts, ContentsFacts DEF Init
    <3>3. {restored, result, file} \subseteq Contents /\ torn \subseteq 1 .. MaxRuns
      BY ContentsFacts DEF Init
    <3>4. QED
      BY <3>1, <3>2, <3>3 DEF Init, TypeOK
  <2>2. ReaderInv /\ DumpInv /\ ResultInv
    BY ConstantFacts DEF Init, ReaderInv, DumpInv, ResultInv
  <2>3. SaveInv /\ FileIsWhole
    BY ConstantFacts, ContentsFacts DEF Init, SaveInv, FileIsWhole
  <2>4. QED
    BY <2>1, <2>2, <2>3 DEF Inv
<1>2. Inv /\ [Next]_vars => Inv'
  BY TypesKept, SoundKept DEF Inv, Sound
<1>3. QED
  BY <1>1, <1>2, PTL DEF Spec

(***************************************************************************)
(* The theorems                                                            *)
(***************************************************************************)
\* Every variable keeps its type; what is in the pipe and what was collected is
\* never more than what was written.
THEOREM ReportTypes == Spec => []TypeOK
<1>1. Inv => TypeOK
  BY DEF Inv
<1>2. QED
  BY <1>1, InvHolds, PTL

\* Whatever is killed when, the state file is one execution's whole dump, unless
\* that execution's bash was killed while it dumped (read_pipe, save_state).
THEOREM FileAlwaysWhole == Spec => []FileIsWhole
<1>1. Inv => FileIsWhole
  BY DEF Inv
<1>2. QED
  BY <1>1, InvHolds, PTL

\* No file is written that the next load_state would take for oversized.
THEOREM SavedAlwaysLoadable == Spec => []SavedIsLoadable
<1>1. Inv => SavedIsLoadable
  BY DEF Inv, SaveInv, SavedIsLoadable
<1>2. QED
  BY <1>1, InvHolds, PTL

\* The wrapper's dump meets a closed pipe only after serve itself has died.
THEOREM NeverSigpipe == Spec => []NoSigpipe
<1>1. Inv => NoSigpipe
  BY DEF Inv, ReaderInv, NoSigpipe
<1>2. QED
  BY <1>1, InvHolds, PTL
=============================================================================
