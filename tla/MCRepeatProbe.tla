--------------------------- MODULE MCRepeatProbe ---------------------------
(***************************************************************************)
(* RepeatProbe with three attempts, two of every kind of thing counted,    *)
(* and two times: enough for ties, for a flapping status, and for          *)
(* percentiles of different ranks.                                         *)
(***************************************************************************)
EXTENDS RepeatProbe

(* Timeout and ConnectionRefused are the first two kinds declared.         *)
MCKind == {0, 1}
MCStatus == {200, 503}

(* No flag; each alone; both, with the strictest rate and a lax one.       *)
MCExpectations ==
  {[status |-> s, rate |-> r] :
     s \in {None, {200}, {200, 503}}, r \in {None, <<1, 1>>, <<2, 3>>}}

=============================================================================
