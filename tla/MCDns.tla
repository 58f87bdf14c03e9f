------------------------------- MODULE MCDns --------------------------------
(* Two targets: two lookups side by side; one round of two racing          *)
(* resolvers for each of two types; two rounds of them, one named twice    *)
(* and the system's missing; a reverse lookup next to a forward one; and   *)
(* two types with no resolver but endpoints of both sorts.                 *)
EXTENDS Dns

Line(target, types, servers, broken, doh, dot, count) ==
  [target |-> target, types |-> types, servers |-> servers, broken |-> broken,
   doh |-> doh, dot |-> dot, count |-> count]

MCLabel == <<1, 4>>

MCOptions ==
  {Line(<<"name", "name">>, <<"A">>, <<>>, {}, <<20>>, <<>>, 1),
   Line(<<"name", "literal">>, <<"A", "AAAA">>, <<2>>, {}, <<>>, <<>>, 1),
   Line(<<"name", "literal">>, <<"A">>, <<2, 1, 2>>, {9}, <<>>, <<>>, 2),
   Line(<<"literal", "name">>, <<"PTR">>, <<>>, {}, <<>>, <<>>, 2),
   Line(<<"literal", "name">>, <<"A", "AAAA">>, <<>>, {9}, <<20>>, <<30>>, 1)}

=============================================================================
