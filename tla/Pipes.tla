------------------------------- MODULE Pipes -------------------------------
(***************************************************************************)
(* What a run promises its user: the command behaves as if it ran at the   *)
(* user's own terminal, at the end of two pipes.  There are no processes,  *)
(* sockets, lanes, windows or capacities.  The user may break off, or be   *)
(* broken off, at any time, and loses track of the output by typing or     *)
(* pressing a key while some of it, or the exit, is on its way.            *)
(***************************************************************************)
EXTENDS Naturals, Sequences

VARIABLES
  typed,        \* items of stdin
  closed,       \* the user has closed stdin
  pressed,      \* the user has asked for an interrupt
  received,     \* items the command has read
  eof,          \* the command has read the end of its stdin
  interrupted,  \* an interrupt has reached the command
  written,      \* items of output
  exited,       \* the command has ended
  shown,        \* items of output the user has seen
  user,         \* there, reported (has the exit code), gone, or torn off in a write
  astray        \* the user has lost track of the output

input == <<typed, closed, pressed>>
command == <<received, eof, interrupted, written, exited>>
screen == <<shown, user, astray>>
vars == <<input, command, screen>>

Init ==
  /\ typed = 0 /\ closed = FALSE /\ pressed = FALSE
  /\ received = << >> /\ eof = FALSE /\ interrupted = FALSE
  /\ written = 0 /\ exited = FALSE
  /\ shown = 0 /\ user = "there" /\ astray = FALSE

(***************************************************************************)
(* The user                                                                *)
(***************************************************************************)
\* Nothing is lost track of when there is nothing to come.
Distracts ==
  /\ astray' \in BOOLEAN
  /\ astray => astray'
  /\ astray' => astray \/ shown < written \/ exited

Type ==
  /\ user = "there" /\ ~closed
  /\ typed' = typed + 1
  /\ Distracts
  /\ UNCHANGED <<closed, pressed, command, shown, user>>

CloseStdin ==
  /\ user = "there"
  /\ closed' = TRUE
  /\ Distracts
  /\ UNCHANGED <<typed, pressed, command, shown, user>>

\* The user asks for an interrupt or sends another signal.  The second interrupt may end
\* the run here and now.
Press ==
  /\ user = "there"
  /\ pressed' \in {pressed, TRUE}
  /\ user' \in {"there", "gone"}
  /\ Distracts
  /\ UNCHANGED <<typed, closed, command, shown>>

\* The user sees the items in the order in which they were written, each once.
See ==
  /\ user = "there" /\ shown < written
  /\ shown' = shown + 1
  /\ UNCHANGED <<input, command, user, astray>>

\* The exit code is reported when all output has been seen.
Report ==
  /\ user = "there" /\ exited /\ shown = written
  /\ user' = "reported"
  /\ UNCHANGED <<input, command, shown, astray>>

\* Of the output astray users see there is nothing to say, and they may mistake some of
\* it for the exit.
SeeWrongly ==
  /\ user = "there" /\ astray
  /\ shown' \in Nat
  /\ user' \in {"there", "reported", "gone"}
  /\ UNCHANGED <<input, command, astray>>

BreakOff ==
  /\ user = "there"
  /\ user' \in {"gone", "torn"}
  /\ UNCHANGED <<input, command, shown, astray>>

(***************************************************************************)
(* The command                                                             *)
(***************************************************************************)
\* It reads the items in the order in which they were typed, each once, and
\* none after the end.
Read ==
  /\ ~exited /\ ~eof /\ Len(received) < typed
  /\ received' = Append(received, Len(received) + 1)
  /\ UNCHANGED <<input, screen, eof, interrupted, written, exited>>

\* The end is behind all items, but for the one a user was torn off in.
ReadEnd ==
  /\ ~exited
  /\ closed \/ user # "there"
  /\ Len(received) = typed \/ (user = "torn" /\ Len(received) + 1 = typed)
  /\ eof' = TRUE
  /\ UNCHANGED <<input, screen, received, interrupted, written, exited>>

\* It is interrupted only when the user asked for it.
Interrupt ==
  /\ ~exited /\ pressed
  /\ interrupted' = TRUE
  /\ UNCHANGED <<input, screen, received, eof, written, exited>>

Write ==
  /\ ~exited
  /\ written' = written + 1
  /\ UNCHANGED <<input, screen, received, eof, interrupted, exited>>

End ==
  /\ ~exited
  /\ exited' = TRUE
  /\ UNCHANGED <<input, screen, received, eof, interrupted, written>>

Next ==
  \/ Type \/ CloseStdin \/ Press \/ See \/ Report \/ SeeWrongly \/ BreakOff
  \/ Read \/ ReadEnd \/ Interrupt \/ Write \/ End

Spec == Init /\ [][Next]_vars
=============================================================================
