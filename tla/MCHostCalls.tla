----------------------------- MODULE MCHostCalls -----------------------------
(* An instance of HostCalls for TLC: three ranks, two of them behind the   *)
(* same ip, and commands of three words.                                   *)
EXTENDS HostCalls, TLC

MCAddr == 0 :> [ip |-> 5, port |-> 9] @@ 1 :> [ip |-> 6, port |-> 7] @@ 2 :> [ip |-> 6, port |-> 8]
=============================================================================
