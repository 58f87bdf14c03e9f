---------------------------- MODULE MCProbeSweep ----------------------------
(***************************************************************************)
(* ProbeSweep on small fleets.  Address 1 is IPv4 and 2 is IPv6: an IPv6   *)
(* address sorts after every IPv4 one, as SocketAddr orders them.          *)
(***************************************************************************)
EXTENDS ProbeSweep

MCV6 == {2}

(* A target may fail to resolve, have one address, or both with the IPv6   *)
(* one first, as resolvers do return them.                                 *)
MCLookup == <<{<<>>, <<1>>, <<2, 1>>}, {<<>>, <<2>>, <<2, 1>>}>>

Flags(family, body, writable, expect, strict) ==
  [args |-> "ok", family |-> family, outputBody |-> body,
   writable |-> writable, expect |-> expect, strict |-> strict]

(* Both exit-code checks, off, each alone and together; --output-body,     *)
(* with a path that can be written and one that cannot; the family scopes; *)
(* and the argument errors.                                                *)
MCOptions ==
  {Flags("any", FALSE, TRUE, e, s) : e \in BOOLEAN, s \in BOOLEAN}
  \cup {Flags(f, TRUE, w, TRUE, TRUE) : f \in {"any", "v4", "v6"}, w \in BOOLEAN}
  \cup {[Flags("any", TRUE, TRUE, FALSE, FALSE) EXCEPT !.args = a] :
          a \in {"conflict", "bad"}}

=============================================================================
