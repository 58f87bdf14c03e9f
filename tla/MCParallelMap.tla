--------------------------- MODULE MCParallelMap ---------------------------
(***************************************************************************)
(* ParallelMap with every request over a small set of items: the empty     *)
(* one, each item alone, and the items in every order.                     *)
(***************************************************************************)
EXTENDS ParallelMap

MCRequest ==
  {items \in UNION {[1..k -> Item] : k \in 0..Cardinality(Item)} :
     IsInjective(items)}

=============================================================================
