----------------------------- MODULE MCSession -----------------------------
(***************************************************************************)
(* Instance of Session for TLC.  Sessions share nothing but the daemon and *)
(* the connection, so all commands of the instance compete for one session. *)
(***************************************************************************)
EXTENDS Session

\* Every command belongs to the one session of the instance.
MCSessionOf == [c \in Cmd |-> CHOOSE s \in Sess : TRUE]
=============================================================================
