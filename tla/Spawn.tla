-------------------------------- MODULE Spawn --------------------------------
(***************************************************************************)
(* The descriptors of the bash that runs one command: what serve opens for *)
(* it, how pre_exec moves them to their fixed numbers (spawn of child.rs), *)
(* and which of them the wrapper leaves open for the command.              *)
(*                                                                         *)
(* A process is [fds, nonblocking]: its open descriptors, each naming an   *)
(* open file and whether exec closes it, and the open files that do not    *)
(* block.  New descriptors take the lowest free number.  No call fails.    *)
(***************************************************************************)
EXTENDS Naturals, Sequences, SequencesExt, FiniteSets, TLC

Pipes == <<"stdin", "stdout", "stderr", "cwd", "state">>

\* What the child keeps of each pipe, and what serve keeps.
ChildEnds == {<<"stdin", "r">>} \cup {<<p, "w">> : p \in {"stdout", "stderr", "cwd", "state"}}
ServeEnds == {<<"stdin", "w">>} \cup {<<p, "r">> : p \in {"stdout", "stderr", "cwd", "state"}}
Memfds == <<<<"memfd", "rc">>, <<"memfd", "cmd">>, <<"memfd", "restore">>>>

ScratchFloor == 12

(***************************************************************************)
(* System calls                                                            *)
(***************************************************************************)
Lowest(fds, floor) ==
  CHOOSE n \in floor .. floor + Cardinality(DOMAIN fds) :
    n \notin DOMAIN fds /\ floor .. n - 1 \subseteq DOMAIN fds

Open(fds, file) == Lowest(fds, 0) :> [file |-> file, cloexec |-> TRUE] @@ fds

\* Neither kind of copy is closed by exec; a descriptor copied onto itself stays as it is.
Dup2(fds, from, to) ==
  IF from = to THEN fds ELSE to :> [file |-> fds[from].file, cloexec |-> FALSE] @@ fds

DupAbove(fds, from, floor) ==
  Lowest(fds, floor) :> [file |-> fds[from].file, cloexec |-> FALSE] @@ fds

Close(fds, S) == [fd \in DOMAIN fds \ S |-> fds[fd]]

FdOf(fds, file) == CHOOSE fd \in DOMAIN fds : fds[fd].file = file

(***************************************************************************)
(* serve, before the fork                                                  *)
(***************************************************************************)
\* Three standard streams, and whatever the runtime holds open.
Serve(busy) ==
  [fd \in busy |-> [file |-> <<"serve", "runtime">>, cloexec |-> TRUE]]
    @@ [fd \in 0 .. 2 |-> [file |-> <<"serve", "stdio">>, cloexec |-> FALSE]]

\* The read end of a pipe comes first; then the three memfds.
Prepared(busy) ==
  FoldLeft(Open, Serve(busy),
    FlattenSeq([i \in DOMAIN Pipes |-> <<<<Pipes[i], "r">>, <<Pipes[i], "w">>>>]) \o Memfds)

\* The library adds /dev/null three times and the pipe that reports a failing exec,
\* and gives the child the former as its standard streams.
Forked(busy) ==
  LET fds == FoldLeft(Open, Prepared(busy),
               <<<<"null", "0">>, <<"null", "1">>, <<"null", "2">>, <<"exec", "report">>>>)
  IN FoldLeft(LAMBDA t, n : Dup2(t, FdOf(t, <<"null", ToString(n)>>), n), fds, <<0, 1, 2>>)

(***************************************************************************)
(* The child: pre_exec                                                     *)
(***************************************************************************)
Sources == <<<<"stderr", "w">>>> \o Memfds \o <<<<"cwd", "w">>, <<"state", "w">>>>
Targets == <<3, 7, 8, 9, 10, 11>>

\* Standard input and output first; then every source is parked above all targets
\* before the first target is written.
Relocate(fds, at) ==
  LET stdio == Dup2(Dup2(fds, at[<<"stdin", "r">>], 0), at[<<"stdout", "w">>], 1)
      parked == FoldLeft(LAMBDA p, src :
                           [fds |-> DupAbove(p.fds, at[src], ScratchFloor),
                            slots |-> Append(p.slots, Lowest(p.fds, ScratchFloor))],
                         [fds |-> stdio, slots |-> << >>], Sources)
      placed == FoldLeft(LAMBDA t, i : Dup2(t, parked.slots[i], Targets[i]),
                         parked.fds, [i \in 1 .. Len(Targets) |-> i])
  IN Close(placed, ToSet(parked.slots))

\* Blocking mode belongs to the open file, the close-on-exec flag to the descriptor.
PreExec(busy) ==
  LET fds == Relocate(Forked(busy), [f \in ToSet(Sources) \cup ChildEnds |->
                                       FdOf(Prepared(busy), f)])
  IN [fds |-> [fd \in DOMAIN fds |->
                 IF fd \in ToSet(Targets) THEN [fds[fd] EXCEPT !.cloexec = FALSE]
                   ELSE fds[fd]],
      nonblocking |-> (ChildEnds \cup ServeEnds) \ {fds[fd].file : fd \in {0, 1, 3, 10, 11}}]

\* What bash starts with.
AtExec(child) ==
  [fd \in {n \in DOMAIN child.fds : ~child.fds[n].cloexec} |-> child.fds[fd].file]

\* The rcfile restores standard error and closes its own file.
AfterRcfile(bash) ==
  [fd \in DOMAIN bash \ {7} |-> IF fd = 2 THEN bash[3] ELSE bash[fd]]

\* The wrapper closes the restored state and the command text before the command runs.
AtCommand(bash) ==
  LET sourced == AfterRcfile(bash) IN [fd \in DOMAIN sourced \ {8, 9} |-> sourced[fd]]

\* serve drops the child's ends.
Kept(busy) ==
  LET fds == Prepared(busy)
  IN {fds[fd].file : fd \in {n \in DOMAIN fds : fds[n].file \notin ChildEnds \cup ToSet(Memfds)}}

(***************************************************************************)
(* Reference definitions                                                   *)
(***************************************************************************)
\* The table of the module's documentation; nothing else is inherited.
Layout ==
  0 :> <<"stdin", "r">> @@ 1 :> <<"stdout", "w">> @@ 2 :> <<"null", "2">>
    @@ 3 :> <<"stderr", "w">> @@ 7 :> <<"memfd", "rc">> @@ 8 :> <<"memfd", "cmd">>
    @@ 9 :> <<"memfd", "restore">> @@ 10 :> <<"cwd", "w">> @@ 11 :> <<"state", "w">>

\* Also sources that lie on each other's targets, which these allocations do not
\* produce but the code provides for, all arrive, and no scratch copy stays behind.
\* Here the source of target n lies at p[n].
RelocationRight(p) ==
  LET at == [f \in ToSet(Sources) \cup ChildEnds |->
               CASE f = <<"stdin", "r">> -> 12
                 [] f = <<"stdout", "w">> -> 13
                 [] OTHER -> p[Targets[CHOOSE i \in DOMAIN Sources : Sources[i] = f]]]
      fds == [fd \in Range(at) |->
                [file |-> CHOOSE f \in DOMAIN at : at[f] = fd, cloexec |-> TRUE]]
      child == Relocate(fds, at)
  IN /\ DOMAIN child = {0, 1} \cup Range(at) \cup ToSet(Targets)
     /\ child[0].file = <<"stdin", "r">> /\ child[1].file = <<"stdout", "w">>
     /\ \A i \in DOMAIN Targets : child[Targets[i]].file = Sources[i]

\* Wherever the sources lie, bash gets the documented descriptors and no other; its
\* ends of the pipes block and those of serve do not; a failing exec can still be
\* reported; serve keeps no end of the child's, so that an end of file can come.
LayoutRight(busy) ==
  LET child == PreExec(busy)
  IN /\ AtExec(child) = Layout
     /\ child.nonblocking = ServeEnds
     /\ \E fd \in DOMAIN child.fds : child.fds[fd].file = <<"exec", "report">>
     /\ Kept(busy) \cap ChildEnds = {}

\* The command itself can read neither its own text nor the state restored to it: it
\* has the child's ends of the five pipes and nothing else.
CommandSees(busy) == Range(AtCommand(AtExec(PreExec(busy)))) = ChildEnds
=============================================================================
