---------------------------- MODULE MCHostPool -----------------------------
(***************************************************************************)
(* Instance of HostPool for TLC: a daemon with two requests, and a daemon   *)
(* of another version with one request for the same host.                  *)
(***************************************************************************)
EXTENDS HostPool, TLC

CONSTANTS r1, r2, r3, d1, d2

\* The daemon of each request.
MCDaemonOf == (r1 :> d1) @@ (r2 :> d1) @@ (r3 :> d2)

\* Two versions of the daemon.
MCVersionOf == (d1 :> "v1") @@ (d2 :> "v2")
=============================================================================
