------------------------------ MODULE Sorting ------------------------------
(***************************************************************************)
(* The sorts and filters with which the commands take the completion order *)
(* out of their results: Vec::sort, sort_by_key, filter and filter_map of  *)
(* Rust's standard library, by what they return.  The community modules    *)
(* have the same operators, but rest them on SelectSeq and SortSeq, which  *)
(* the proof system knows by name only.                                    *)
(***************************************************************************)
EXTENDS Integers, Sequences, FiniteSets, Functions

IsAscending(s) == \A i, j \in DOMAIN s : i < j => s[i] < s[j]

(* The numbers of S in ascending order.                                    *)
Ascending(S) == CHOOSE s \in [1..Cardinality(S) -> S] : IsAscending(s)

(* The elements of S in the order of Before, a set of pairs.               *)
Ordered(S, Before) ==
  CHOOSE s \in [1..Cardinality(S) -> S] :
    \A i, j \in DOMAIN s : i < j => <<s[i], s[j]>> \in Before

(* The elements of s that are in T, in the order of s.                     *)
Those(s, T) ==
  LET at == Ascending({i \in DOMAIN s : s[i] \in T})
  IN [k \in DOMAIN at |-> s[at[k]]]

Rearranged(s) ==
  {[i \in DOMAIN s |-> s[p[i]]] : p \in Bijection(DOMAIN s, DOMAIN s)}

(* s in the order of the keys of its elements.                             *)
SortedBy(key, s) ==
  CHOOSE r \in Rearranged(s) :
    \A i, j \in DOMAIN s : i < j => key[r[i]] <= key[r[j]]

(* s in the order of Before, a set of pairs: what it does not order stays  *)
(* in the order it was in, for sort_by_key is a stable sort.               *)
StablySorted(s, Before) ==
  LET p == CHOOSE p \in Bijection(DOMAIN s, DOMAIN s) :
             \A i, j \in DOMAIN s : i < j =>
               \/ <<s[p[i]], s[p[j]]>> \in Before
               \/ <<s[p[j]], s[p[i]]>> \notin Before /\ p[i] < p[j]
  IN [i \in DOMAIN s |-> s[p[i]]]

(* A sequence of numbers, sorted.                                          *)
InOrder(s) == SortedBy([x \in Range(s) |-> x], s)

=============================================================================
