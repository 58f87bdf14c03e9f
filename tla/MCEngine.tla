------------------------------- MODULE MCEngine -------------------------------
(***************************************************************************)
(* One address in every condition; two addresses, of one family and of     *)
(* both, the one in every condition and the other fine, or failing at one  *)
(* of the layers.                                                          *)
(***************************************************************************)
EXTENDS Engine

MCAddress == {1, 2, 3}
MCIPv4 == {1, 2}

Partner == {"fine", "no-route", "silent", "reset", "no-TLS", "expired", "erring"}

MCHosts ==
  [{1} -> Condition]
  \cup {h \in [{1, 2} -> Condition] : h[2] \in Partner}
  \cup {h \in [{1, 3} -> Condition] : h[1] \in Partner \/ h[3] \in {"fine", "silent"}}

MCResolver == {"system", "custom"}
MCResolutions ==
  {<<>>}
  \cup {[r \in {"system"} |-> "every-address"]}
  \cup {answer \in [MCResolver -> AnswerShape] : answer["system"] = "every-address"}
=============================================================================
