------------------------------- MODULE MCEngine -------------------------------
(***************************************************************************)
(* Units 0 to 2, of which <<1>> is a report.  Long streams with little     *)
(* else going on (five units hold an output, <<0, 0>>, and a report behind *)
(* it, <<1, 1, 1>>), and short ones under signals and stdin.               *)
(***************************************************************************)
EXTENDS Engine

MCReports == {<<1>>}

MCBounds == {[units |-> 5, stdin |-> 0, signals |-> 0],
             [units |-> 2, stdin |-> 1, signals |-> 1]}
=============================================================================
