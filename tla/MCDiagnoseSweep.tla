--------------------------- MODULE MCDiagnoseSweep ---------------------------
(***************************************************************************)
(* DiagnoseSweep on a fleet of three hosts, and two addresses, 1 IPv4 and  *)
(* 2 IPv6.                                                                 *)
(***************************************************************************)
EXTENDS DiagnoseSweep

MCV6 == {2}

(* Host 1 has both addresses or does not resolve, host 2 has one, host 3   *)
(* none: up to three probes compete for two permits, as do three hosts.    *)
FleetLookup == <<{{}, {1, 2}}, {{1}}, {{}}>>

Flags(family, plain, strict, format) ==
  [args |-> "ok", family |-> family, plain |-> plain, strict |-> strict,
   format |-> format]

FleetOptions ==
  {Flags("any", FALSE, TRUE, "human"), Flags("any", TRUE, FALSE, "csv"),
   Flags("v6", TRUE, TRUE, "json"), Flags("v4", TRUE, TRUE, "json")}
  \cup {[Flags("any", FALSE, FALSE, "human") EXCEPT !.args = a] :
          a \in {"conflict", "bad"}}

=============================================================================
