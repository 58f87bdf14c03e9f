---------------------------- MODULE MCTraceroute ----------------------------
(***************************************************************************)
(* Traceroute with one router on the way, two hops, two local ports, up to *)
(* three runs, and a `u16` of 2: the smallest that a --count can exceed.   *)
(***************************************************************************)
EXTENDS Traceroute

MCCounts == {1, 2, 3}

=============================================================================
