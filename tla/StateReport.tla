---------------------------- MODULE StateReport ----------------------------
(***************************************************************************)
(* The way of a session's shell state through a series of executions: the  *)
(* wrapper's epilogue dumps it into a pipe (wrapper.sh), serve collects    *)
(* the pipe up to its NUL terminator (read_pipe), replaces the state file  *)
(* (save_state), and the next execution loads it (load_state).             *)
(*                                                                         *)
(* A dump is its length: the bytes carry no content, but the run they come *)
(* from.  Every process may be killed between any two steps.               *)
(***************************************************************************)
EXTENDS Naturals, FiniteSetsExt

CONSTANTS Cap,      \* STATE_CAP
          Chunk,    \* the buffer of one read (4096)
          PipeCap,  \* capacity of the pipe
          Pids,     \* process ids of the serve processes; they are reused
          MaxDump,  \* bound: the longest dump
          MaxRuns   \* bound: executions

ASSUME ReportAssumption ==
  /\ {Cap, Chunk, PipeCap, MaxDump, MaxRuns} \subseteq Nat \ {0}
  /\ IsFiniteSet(Pids) /\ Pids # {}

Nothing == [run |-> 0, bytes |-> 0]  \* no dump, no file

Contents == [run : 1 .. MaxRuns, bytes : Nat] \cup {Nothing}

VARIABLES
  run,       \* the current execution
  pid,       \* the process id of its serve
  stage,     \* what serve is at
  restored,  \* the state its wrapper started from
  wrapper,   \* the bash of the execution
  orphan,    \* a surviving job holds the pipe's write end
  size,      \* length of each execution's dump
  written,   \* bytes of the dump the wrapper has written so far
  pipe,      \* bytes of the dump in the pipe
  nul,       \* the terminator: not yet written, in the pipe behind the bytes, read
  reader,    \* the read_pipe task
  buf,       \* bytes it has collected
  overflow,  \* it has met more than Cap bytes
  result,    \* what it returned
  tmp,       \* temporary files left in the state directory, by pid
  file,      \* the state file
  torn       \* executions whose wrapper was killed before its dump was complete

dumping == <<wrapper, orphan, size, written, nul, pipe, torn>>
reading == <<reader, buf, overflow, result>>
saving == <<tmp, file>>
vars == <<run, pid, stage, restored, dumping, reading, saving>>

Init ==
  /\ run = 1
  /\ pid \in Pids
  /\ stage = "load" /\ restored = Nothing
  /\ wrapper = "command" /\ orphan = FALSE
  /\ size = [r \in 1 .. MaxRuns |-> 0]
  /\ written = 0 /\ pipe = 0 /\ nul = "unwritten"
  /\ reader = "reading" /\ buf = 0 /\ overflow = FALSE /\ result = Nothing
  /\ tmp = [p \in Pids |-> Nothing]
  /\ file = Nothing
  /\ torn = {}

WriteEndHeld == wrapper \in {"command", "dumping"} \/ orphan

\* load_state: an oversized file counts as no state.
LoadState ==
  /\ stage = "load"
  /\ restored' = IF file.bytes > Cap THEN Nothing ELSE file
  /\ stage' = "collect"
  /\ UNCHANGED <<run, pid, dumping, reading, saving>>

(***************************************************************************)
(* The wrapper                                                             *)
(***************************************************************************)
LeavesJob ==
  /\ stage = "collect" /\ wrapper = "command" /\ ~orphan
  /\ orphan' = TRUE
  /\ UNCHANGED <<run, pid, stage, restored, wrapper, size, written, nul, pipe,
                 torn, reading, saving>>

JobEnds ==
  /\ orphan
  /\ orphan' = FALSE
  /\ UNCHANGED <<run, pid, stage, restored, wrapper, size, written, nul, pipe,
                 torn, reading, saving>>

\* The epilogue starts with a state of some length to dump.
StartDump ==
  /\ stage = "collect" /\ wrapper = "command"
  /\ wrapper' = "dumping"
  /\ \E n \in 1 .. MaxDump : size' = [size EXCEPT ![run] = n]
  /\ UNCHANGED <<run, pid, stage, restored, orphan, written, nul, pipe, torn,
                 reading, saving>>

\* One write of the subshell: as many bytes as fit.
WriteDump ==
  /\ wrapper = "dumping" /\ written < size[run] /\ reader = "reading"
  /\ \E n \in 1 .. Min({PipeCap - pipe, size[run] - written}) :
       /\ pipe' = pipe + n
       /\ written' = written + n
  /\ UNCHANGED <<run, pid, stage, restored, wrapper, orphan, size, nul, torn,
                 reading, saving>>

WriteNul ==
  /\ wrapper = "dumping" /\ written = size[run] /\ nul = "unwritten"
  /\ pipe < PipeCap
  /\ nul' = "piped"
  /\ wrapper' = "exited"
  /\ UNCHANGED <<run, pid, stage, restored, orphan, size, written, pipe, torn,
                 reading, saving>>

\* A write finds the read end closed and the wrapper dies of SIGPIPE.
BrokenPipe ==
  /\ wrapper = "dumping" /\ reader # "reading"
  /\ wrapper' = "sigpipe"
  /\ torn' = torn \cup {run}
  /\ UNCHANGED <<run, pid, stage, restored, orphan, size, written, nul, pipe,
                 reading, saving>>

\* SIGKILL (the timeout's escalation, a forwarded Kill), at any point; or the
\* wrapper was replaced by exec and its program ends without any report.
WrapperKilled ==
  /\ stage = "collect" /\ wrapper \in {"command", "dumping"}
  /\ wrapper' = "killed"
  /\ torn' = torn \cup {run}
  /\ UNCHANGED <<run, pid, stage, restored, orphan, size, written, nul, pipe,
                 reading, saving>>

(***************************************************************************)
(* read_pipe                                                               *)
(***************************************************************************)
\* The n bytes of one read reach the terminator.
ReachesNul(n) == nul = "piped" /\ n = pipe + 1

Readable == pipe + (IF nul = "piped" THEN 1 ELSE 0)

\* What the task returns for the bytes collected; a dump that is not valid UTF-8
\* counts for nothing.
Returns(n) ==
  /\ reader' = "done"
  /\ \/ result' = Nothing
     \/ n > 0 /\ result' = [run |-> run, bytes |-> n]

\* A read that ends at the terminator completes the report.
ReadToNul ==
  /\ stage = "collect" /\ reader = "reading" /\ ~overflow
  /\ Readable \in 1 .. Chunk /\ ReachesNul(Readable)
  /\ buf' = buf + pipe
  /\ pipe' = 0 /\ nul' = "read"
  /\ Returns(buf + pipe)
  /\ UNCHANGED <<run, pid, stage, restored, wrapper, orphan, size, written, torn,
                 overflow, saving>>

\* Faulty variant: the reader stops at the cap.
ReadStops ==
  /\ stage = "collect" /\ reader = "reading" /\ ~overflow
  /\ \E n \in 1 .. Min({Chunk, pipe}) :
       /\ pipe' = pipe - n
       /\ buf' = buf + n
       /\ overflow' = (buf + n > Cap)
       /\ reader' = IF buf + n > Cap THEN "done" ELSE reader
  /\ UNCHANGED <<run, pid, stage, restored, wrapper, orphan, size, written, nul,
                 torn, result, saving>>

\* A read without it is checked against the cap.
ReadMore ==
  /\ stage = "collect" /\ reader = "reading" /\ ~overflow
  /\ \E n \in 1 .. Min({Chunk, pipe}) :
       /\ pipe' = pipe - n
       /\ buf' = buf + n
       /\ overflow' = (buf + n > Cap)
  /\ UNCHANGED <<run, pid, stage, restored, wrapper, orphan, size, written, nul,
                 torn, reader, result, saving>>

\* After an overflow everything is read and dropped, the terminator included.
DrainMore ==
  /\ stage = "collect" /\ reader = "reading" /\ overflow
  /\ \E n \in 1 .. Min({Chunk, Readable}) :
       /\ pipe' = Max({pipe - n, 0})
       /\ nul' = IF ReachesNul(n) THEN "read" ELSE nul
  /\ UNCHANGED <<run, pid, stage, restored, wrapper, orphan, size, written, torn,
                 reading, saving>>

\* End of file yields what has arrived, unless it was too much.
ReadEof ==
  /\ stage = "collect" /\ reader = "reading"
  /\ Readable = 0 /\ ~WriteEndHeld
  /\ IF overflow THEN reader' = "done" /\ UNCHANGED result ELSE Returns(buf)
  /\ UNCHANGED <<run, pid, stage, restored, dumping, buf, overflow, saving>>

\* Faulty variant: the wait for the task is not bounded.
CollectedAtEof ==
  /\ stage = "collect" /\ wrapper \notin {"command", "dumping"}
  /\ reader = "done"
  /\ stage' = IF result = Nothing THEN "report" ELSE "save"
  /\ UNCHANGED <<run, pid, restored, dumping, reading, saving>>

\* serve joins the task once the leader has exited, for DRAIN_GRACE at most: the
\* wait runs out when a surviving job keeps the pipe open without a terminator.
Collected ==
  /\ stage = "collect" /\ wrapper \notin {"command", "dumping"}
  /\ reader = "done" \/ (Readable = 0 /\ orphan)
  /\ stage' = IF result = Nothing THEN "report" ELSE "save"
  /\ UNCHANGED <<run, pid, restored, dumping, reading, saving>>

(***************************************************************************)
(* save_state                                                              *)
(***************************************************************************)
\* Faulty variant: no guard on the length of the dump.
CreateUnguarded ==
  /\ stage = "save"
  /\ IF tmp[pid] # Nothing
       THEN stage' = "report" /\ tmp' = [tmp EXCEPT ![pid] = Nothing]
       ELSE /\ stage' = "write"
            /\ tmp' = [tmp EXCEPT ![pid] = [run |-> run, bytes |-> 0]]
  /\ UNCHANGED <<run, pid, restored, dumping, reading, file>>

\* The guard on the length, and create_new of the temporary file, which fails on
\* a leftover of an earlier process with this pid and then removes it.
CreateTemp ==
  /\ stage = "save"
  /\ IF result.bytes > Cap
       THEN stage' = "report" /\ UNCHANGED tmp
       ELSE IF tmp[pid] # Nothing
         THEN stage' = "report" /\ tmp' = [tmp EXCEPT ![pid] = Nothing]
         ELSE /\ stage' = "write"
              /\ tmp' = [tmp EXCEPT ![pid] = [run |-> run, bytes |-> 0]]
  /\ UNCHANGED <<run, pid, restored, dumping, reading, file>>

\* write_all, one byte at a time.
WriteTemp ==
  /\ stage = "write" /\ tmp[pid].bytes < result.bytes
  /\ tmp' = [tmp EXCEPT ![pid].bytes = @ + 1]
  /\ UNCHANGED <<run, pid, stage, restored, dumping, reading, file>>

\* A failed write (disk full) removes the temporary file.
SaveFails ==
  /\ stage = "write"
  /\ stage' = "report"
  /\ tmp' = [tmp EXCEPT ![pid] = Nothing]
  /\ UNCHANGED <<run, pid, restored, dumping, reading, file>>

\* Faulty variant: the rename does not wait for the whole write.
RenameEarly ==
  /\ stage = "write" /\ tmp[pid].bytes > 0
  /\ file' = tmp[pid]
  /\ tmp' = [tmp EXCEPT ![pid] = Nothing]
  /\ stage' = "report"
  /\ UNCHANGED <<run, pid, restored, dumping, reading>>

\* The finished file replaces the state file in one step.
Rename ==
  /\ stage = "write" /\ tmp[pid].bytes = result.bytes
  /\ file' = tmp[pid]
  /\ tmp' = [tmp EXCEPT ![pid] = Nothing]
  /\ stage' = "report"
  /\ UNCHANGED <<run, pid, restored, dumping, reading>>

\* serve is killed, wherever it is.  A wrapper that outlives it has no way to the
\* state file any more.
ServeKilled ==
  /\ stage \in {"load", "collect", "save", "write", "report"}
  /\ stage' = "dead"
  /\ reader' = "dead"
  /\ UNCHANGED <<run, pid, restored, dumping, buf, overflow, result, saving>>

\* The Exit frame is sent, or the process died; the session's next execution
\* starts, with a bash, pipes and a serve of its own.
NextRun ==
  /\ stage \in {"report", "dead"} /\ run < MaxRuns
  /\ run' = run + 1
  /\ pid' \in Pids
  /\ stage' = "load" /\ restored' = Nothing
  /\ wrapper' = "command" /\ orphan' = FALSE
  /\ written' = 0 /\ pipe' = 0 /\ nul' = "unwritten"
  /\ reader' = "reading" /\ buf' = 0 /\ overflow' = FALSE /\ result' = Nothing
  /\ UNCHANGED <<size, torn, saving>>

WrapperStep == LeavesJob \/ JobEnds \/ StartDump \/ WriteDump \/ WriteNul
                 \/ BrokenPipe \/ WrapperKilled

ServeStep == LoadState \/ ReadToNul \/ ReadMore \/ DrainMore \/ ReadEof
               \/ Collected \/ CreateTemp \/ WriteTemp \/ Rename

Next == WrapperStep \/ ServeStep \/ SaveFails \/ ServeKilled \/ NextRun

\* serve's tasks are scheduled; nothing is assumed of the wrapper and its jobs.
Spec == Init /\ [][Next]_vars /\ WF_vars(ServeStep)

(***************************************************************************)
(* Properties                                                              *)
(***************************************************************************)
TypeOK ==
  /\ run \in 1 .. MaxRuns /\ pid \in Pids
  /\ stage \in {"load", "collect", "save", "write", "report", "dead"}
  /\ wrapper \in {"command", "dumping", "exited", "killed", "sigpipe"}
  /\ orphan \in BOOLEAN /\ overflow \in BOOLEAN
  /\ size \in [1 .. MaxRuns -> 0 .. MaxDump]
  /\ written \in 0 .. MaxDump
  /\ pipe \in 0 .. PipeCap /\ pipe + buf <= written
  /\ nul \in {"unwritten", "piped", "read"}
  /\ reader \in {"reading", "done", "dead"}
  /\ buf \in 0 .. Cap + Chunk
  /\ {restored, result, file} \subseteq Contents
  /\ tmp \in [Pids -> Contents]
  /\ torn \subseteq 1 .. MaxRuns

\* The state file is never half-written: whatever dies in the middle of a save,
\* the file is the whole dump of one execution, except when that execution's
\* bash was itself killed before its dump was complete.
FileIsWhole ==
  file # Nothing /\ file.run \notin torn => file.bytes = size[file.run]

\* A saved state is a state the next command restores: no file the code writes
\* is refused on load for its size.
SavedIsLoadable == file.bytes <= Cap

\* A command's exit code is its own: the reader never hangs up on a wrapper that
\* is still dumping, however long the dump.
NoSigpipe == wrapper = "sigpipe" => stage \notin {"collect", "save", "write", "report"}

\* Once the leader has exited, the report phase ends, whatever job survives.
CollectEnds ==
  (stage = "collect" /\ wrapper \in {"exited", "killed"})
    ~> (stage \in {"report", "dead"})
=============================================================================
