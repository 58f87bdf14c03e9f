--------------------------- MODULE MCLayeredProbe ---------------------------
(* Every command and protocol; the flags that only pass through are typed  *)
(* next to at most one other.                                              *)
EXTENDS LayeredProbe

Flags ==
  {"protocol", "plain", "insecure", "version", "body", "output", "cap", "doh",
   "resolver", "request", "sni"}

MCFlagSets ==
  {f \in SUBSET Flags :
     f \cap {"request", "sni"} # {} => Cardinality(f \ {"protocol", "resolver"}) <= 2}

(* For the claim the code contradicts: no flag is typed.                   *)
NoFlags == {{}}

=============================================================================
