------------------------------ MODULE DnsProofs ------------------------------
(***************************************************************************)
(* Proofs about the DNS lookups, in two parts.                             *)
(*                                                                         *)
(* Dns, with the progress display it draws: whatever order the answers     *)
(* come in and whichever query or target panics, the rows of a target are  *)
(* those of its answers, in their order, and count them right.             *)
(*                                                                         *)
(* DnsWire: whatever bytes an endpoint sends, the parser indexes none      *)
(* outside of the message, gives up on every name in bounded time, and     *)
(* reads of a name what it means; and of an honest response, its records.  *)
(***************************************************************************)
EXTENDS Dns, DnsWire, SortingProofs, SequenceTheorems

-----------------------------------------------------------------------------
(***************************************************************************)
(* Dns.                                                                    *)
(***************************************************************************)

(* What the queries are answered with.                                     *)
Answered ==
  {o \in [resolver : Nat, type : RecordType, error : Kind \cup {None},
          records : BOOLEAN, ttl : Ttl \cup {None}] : o.error # None => o.ttl = None}

Entry == [round : Nat \ {0}, of : Answered]

(* An answer, of a resolver or an endpoint, is of the label and type       *)
(* asked.                                                                  *)
LEMMA QueriedFacts ==
  ASSUME NEW r \in Nat, NEW ty \in RecordType, NEW o \in Queried(r, ty) \cup QueriedEncrypted(r, ty)
  PROVE  o \in Answered /\ o.resolver = r /\ o.type = ty
<1> USE KindAssumption, NoneAssumption
<1>1. CASE \E n \in Ttl : o = Observation(r, ty, None, TRUE, n)
  BY <1>1 DEF Observation, Answered
<1>2. CASE o = Observation(r, ty, None, FALSE, None)
  BY <1>2 DEF Observation, Answered
<1>3. CASE \E k \in Kind : o = Observation(r, ty, k, FALSE, None)
  BY <1>3 DEF Observation, Answered
<1> QED BY <1>1, <1>2, <1>3 DEF Queried, QueriedEncrypted

LEMMA AnsweredFacts ==
  ASSUME NEW o \in Answered
  PROVE  /\ o.resolver \in Nat /\ o.type \in RecordType
         /\ o.error \in Kind \cup {None} /\ o.ttl \in Ttl \cup {None}
         /\ o.error # None => o.ttl = None
BY DEF Answered

LEMMA FirstNumbers ==
  ASSUME NEW m \in Nat
  PROVE  IsFiniteSet(1..m) /\ Cardinality(1..m) = m
BY FS_Interval

(* A bucket and the entries of the log it is of: each is of another round. *)
EntriesAt(b, at, P) == {[round |-> at[i], of |-> b[i]] : i \in P}

Backed(b, E, n) ==
  \E at \in [DOMAIN b -> 1..n] : IsInjective(at) /\ E = EntriesAt(b, at, DOMAIN b)

(* There are as many entries as places they are of.                        *)
LEMMA EntriesCount ==
  ASSUME NEW b \in Seq(Answered), NEW n \in Nat, NEW at \in [DOMAIN b -> 1..n],
         IsInjective(at), NEW P \in SUBSET (DOMAIN b)
  PROVE  /\ IsFiniteSet(P) /\ Cardinality(P) \in Nat
         /\ IsFiniteSet(EntriesAt(b, at, P))
         /\ Cardinality(EntriesAt(b, at, P)) = Cardinality(P)
<1> DEFINE f == [i \in P |-> [round |-> at[i], of |-> b[i]]]
           E == EntriesAt(b, at, P)
<1>1. Len(b) \in Nat /\ DOMAIN b = 1..Len(b)
  OBVIOUS
<1>2. IsFiniteSet(DOMAIN b)
  BY <1>1, FS_Interval
<1>3. IsFiniteSet(P)
  BY <1>2, FS_Subset
<1>4. f \in [P -> E]
  BY DEF EntriesAt
<1>5. \A i, j \in P : f[i] = f[j] => i = j
  <2>1. SUFFICES ASSUME NEW i \in P, NEW j \in P, f[i] = f[j] PROVE i = j
    OBVIOUS
  <2>2. f[i].round = at[i] /\ f[j].round = at[j]
    OBVIOUS
  <2>3. at[i] = at[j]
    BY <2>1, <2>2
  <2> QED BY <2>3 DEF IsInjective
<1>6. \A e \in E : \E i \in P : f[i] = e
  BY DEF EntriesAt
<1> HIDE DEF f, E
<1>7. f \in Bijection(P, E)
  BY <1>4, <1>5, <1>6 DEF Bijection, Injection, Surjection, IsInjective
<1>8. ExistsBijection(P, E)
  BY <1>7 DEF ExistsBijection
<1>9. IsFiniteSet(E) /\ Cardinality(E) = Cardinality(P)
  BY <1>3, <1>8, FS_Bijection
<1>10. Cardinality(P) \in Nat
  BY <1>3, FS_CardinalityType
<1>11. E = EntriesAt(b, at, P)
  BY DEF E
<1> QED BY <1>3, <1>9, <1>10, <1>11

(* What a bucket tallies is what its entries are counted by.               *)
LEMMA BackedFacts ==
  ASSUME NEW b \in Seq(Answered), NEW E, NEW n \in Nat, Backed(b, E, n)
  PROVE  /\ IsFiniteSet(E) /\ Cardinality(E) = Len(b) /\ Len(b) <= n
         /\ \A e \in E : \E i \in DOMAIN b : e.of = b[i] /\ e.round \in 1..n
         /\ \A i \in DOMAIN b : \E e \in E : e.of = b[i] /\ e.round \in 1..n
         /\ \A x : /\ Tally(b, x) \in Nat
                   /\ Tally(b, x) <= n
                   /\ IsFiniteSet({e \in E : e.of.error = x})
                   /\ Cardinality({e \in E : e.of.error = x}) = Tally(b, x)
<1>1. PICK at \in [DOMAIN b -> 1..n] : IsInjective(at) /\ E = EntriesAt(b, at, DOMAIN b)
  BY DEF Backed
<1>2. Len(b) \in Nat /\ DOMAIN b = 1..Len(b)
  OBVIOUS
<1>3. IsFiniteSet(DOMAIN b) /\ Cardinality(DOMAIN b) = Len(b)
  <2>1. IsFiniteSet(1..Len(b)) /\ Cardinality(1..Len(b)) = Len(b)
    BY <1>2, FirstNumbers
  <2> QED BY <1>2, <2>1
<1>4. IsFiniteSet(E) /\ Cardinality(E) = Len(b)
  BY <1>1, <1>3, EntriesCount
<1>5. Len(b) <= n
  <2>1. at \in Injection(DOMAIN b, 1..n)
    <3>1. \A i, j \in DOMAIN at : at[i] = at[j] => i = j
      BY <1>1 DEF IsInjective
    <3> QED BY <3>1 DEF Injection, IsInjective
  <2>2. IsFiniteSet(1..n) /\ Cardinality(1..n) = n
    BY FirstNumbers
  <2> QED BY <1>3, <2>1, <2>2, FS_Injection
<1>6. /\ \A e \in E : \E i \in DOMAIN b : e.of = b[i] /\ e.round \in 1..n
      /\ \A i \in DOMAIN b : \E e \in E : e.of = b[i] /\ e.round \in 1..n
  <2>1. ASSUME NEW i \in DOMAIN b, NEW e, e = [round |-> at[i], of |-> b[i]]
        PROVE  e.of = b[i] /\ e.round \in 1..n
    BY <2>1
  <2>2. \A e \in E : \E i \in DOMAIN b : e = [round |-> at[i], of |-> b[i]]
    BY <1>1 DEF EntriesAt
  <2>3. \A i \in DOMAIN b : [round |-> at[i], of |-> b[i]] \in E
    BY <1>1 DEF EntriesAt
  <2> QED BY <2>1, <2>2, <2>3
<1>7. ASSUME NEW x
      PROVE  /\ Tally(b, x) \in Nat
             /\ Tally(b, x) <= n
             /\ IsFiniteSet({e \in E : e.of.error = x})
             /\ Cardinality({e \in E : e.of.error = x}) = Tally(b, x)
  <2> DEFINE P == {i \in DOMAIN b : b[i].error = x}
             F == {e \in E : e.of.error = x}
  <2>1. F = EntriesAt(b, at, P)
    <3>1. ASSUME NEW i \in DOMAIN b PROVE [round |-> at[i], of |-> b[i]].of.error = b[i].error
      OBVIOUS
    <3>2. ASSUME NEW e \in F PROVE e \in EntriesAt(b, at, P)
      <4>1. PICK i \in DOMAIN b : e = [round |-> at[i], of |-> b[i]]
        BY <1>1 DEF EntriesAt
      <4>2. i \in P
        BY <4>1
      <4> QED BY <4>1, <4>2 DEF EntriesAt
    <3>3. ASSUME NEW e \in EntriesAt(b, at, P) PROVE e \in F
      <4>1. PICK i \in P : e = [round |-> at[i], of |-> b[i]]
        BY DEF EntriesAt
      <4>2. e.of = b[i] /\ e \in E
        BY <4>1, <1>1 DEF EntriesAt
      <4> QED BY <4>1, <4>2
    <3> QED BY <3>2, <3>3
  <2>2. P \in SUBSET (DOMAIN b)
    OBVIOUS
  <2>3. Tally(b, x) = Cardinality(P)
    BY DEF Tally
  <2> HIDE DEF P, F
  <2>4. IsFiniteSet(F) /\ Cardinality(F) = Cardinality(P) /\ Cardinality(P) \in Nat
    BY <1>1, <2>1, <2>2, EntriesCount
  <2>5. Cardinality(P) <= Len(b)
    BY <1>3, <2>2, FS_Subset
  <2>6. Tally(b, x) \in Nat /\ Tally(b, x) <= n
    BY <1>2, <1>5, <2>3, <2>4, <2>5
  <2>7. IsFiniteSet(F) /\ Cardinality(F) = Tally(b, x)
    BY <2>3, <2>4
  <2> QED BY <2>6, <2>7 DEF F
<1> QED BY <1>4, <1>5, <1>6, <1>7

(* failure_counts lists the kinds that occur, each with its number.        *)
LEMMA FailureCountsFacts ==
  ASSUME NEW b \in Seq(Answered), \A x : Tally(b, x) \in Nat
  PROVE  Range(FailureCounts(b)) = {<<k, Tally(b, k)>> : k \in {k \in Kind : Tally(b, k) > 0}}
<1> DEFINE failed == {k \in Kind : Tally(b, k) > 0}
           counts == {<<k, Tally(b, k)>> : k \in failed}
           order == {p \in counts \X counts : MoreFrequent(p[1], p[2])}
<1>1. IsFiniteSet(counts)
  <2>1. IsFiniteSet(failed)
    BY KindAssumption, FS_Subset
  <2> DEFINE f == [k \in failed |-> <<k, Tally(b, k)>>]
  <2>2. f \in Surjection(failed, counts)
    BY DEF Surjection
  <2> QED BY <2>1, <2>2, FS_Surjection
<1>2. counts \subseteq Nat \X Nat
  BY KindAssumption
<1>3. IsStrictOrder(counts, order)
  <2>1. \A x, y \in counts : <<x, y>> \in order <=> MoreFrequent(x, y)
    OBVIOUS
  <2>2. \A x \in counts : ~MoreFrequent(x, x)
    BY <1>2 DEF MoreFrequent
  <2>3. \A x, y, z \in counts : MoreFrequent(x, y) /\ MoreFrequent(y, z) => MoreFrequent(x, z)
    BY <1>2 DEF MoreFrequent
  <2>4. \A x, y \in counts : x # y => MoreFrequent(x, y) \/ MoreFrequent(y, x)
    <3>1. SUFFICES ASSUME NEW x \in counts, NEW y \in counts,
                          ~MoreFrequent(x, y), ~MoreFrequent(y, x)
                   PROVE  x = y
      OBVIOUS
    <3>2. x[1] \in Nat /\ x[2] \in Nat /\ y[1] \in Nat /\ y[2] \in Nat
      BY <1>2
    <3>3. x[1] = y[1] /\ x[2] = y[2]
      BY <3>1, <3>2 DEF MoreFrequent
    <3> QED BY <1>2, <3>3
  <2> HIDE DEF counts, order
  <2> QED BY <2>1, <2>2, <2>3, <2>4 DEF IsStrictOrder
<1>4. FailureCounts(b) = Ordered(counts, order)
  BY DEF FailureCounts
<1> HIDE DEF order
<1> QED BY <1>1, <1>3, <1>4, OrderedFacts

(* The times to live a bucket has are those of its answers.                *)
LEMMA AggregateExact ==
  ASSUME NEW b \in Seq(Answered), b # <<>>, NEW E, NEW n \in Nat, Backed(b, E, n),
         opts.count \in Nat, n <= opts.count, NEW ty
  PROVE  /\ Aggregate(b, ty).resolver = b[1].resolver
         /\ Aggregate(b, ty).type = ty
         /\ Aggregate(b, ty).failures \in Nat
         /\ Exact(Aggregate(b, ty), E)
<1> DEFINE row == Aggregate(b, ty)
           good == {e \in E : e.of.error = None}
           ttls == {e.of.ttl : e \in good} \ {None}
<1>1. /\ row.resolver = b[1].resolver /\ row.type = ty
      /\ row.successes = Tally(b, None)
      /\ row.failures = IF Tally(b, None) <= opts.count THEN opts.count - Tally(b, None) ELSE 0
      /\ row.counts = FailureCounts(b) /\ row.ttl = MinTtl(b)
  BY DEF Aggregate, Aggregated
<1>2. \A x : /\ Tally(b, x) \in Nat /\ Tally(b, x) <= n
             /\ Cardinality({e \in E : e.of.error = x}) = Tally(b, x)
  BY BackedFacts
<1>3. /\ \A e \in E : \E i \in DOMAIN b : e.of = b[i]
      /\ \A i \in DOMAIN b : \E e \in E : e.of = b[i]
  BY BackedFacts
<1>4. row.successes = Cardinality(good)
  BY <1>1, <1>2
<1>5. Tally(b, None) \in Nat /\ Tally(b, None) <= opts.count
  <2>1. Tally(b, None) \in Nat /\ Tally(b, None) <= n
    BY <1>2
  <2> QED BY <2>1
<1>6. row.failures \in Nat /\ row.successes + row.failures = opts.count
  BY <1>1, <1>5
<1>7. \A k \in Kind : Tally(b, k) > 0 <=> <<k, Tally(b, k)>> \in Range(row.counts)
  BY <1>1, <1>2, FailureCountsFacts
<1>8. row.ttl = IF ttls = {} THEN None ELSE Min(ttls)
  <2> DEFINE all == {o.ttl : o \in Range(b)} \ {None}
  <2>1. ASSUME NEW x \in all PROVE x \in ttls
    <3>1. PICK i \in DOMAIN b : b[i].ttl = x
      BY DEF Range
    <3>2. b[i] \in Answered /\ x # None
      BY <3>1
    <3>3. b[i].error = None
      BY <3>1, <3>2, AnsweredFacts
    <3>4. PICK e \in E : e.of = b[i]
      BY <1>3
    <3> QED BY <3>1, <3>2, <3>3, <3>4
  <2>2. ASSUME NEW x \in ttls PROVE x \in all
    <3>1. PICK e \in E : e.of.ttl = x
      OBVIOUS
    <3>2. PICK i \in DOMAIN b : e.of = b[i]
      BY <1>3
    <3>3. b[i] \in Range(b)
      BY DEF Range
    <3> QED BY <3>1, <3>2, <3>3
  <2>3. all = ttls
    BY <2>1, <2>2
  <2>4. MinTtl(b) = IF all = {} THEN None ELSE Min(all)
    BY DEF MinTtl
  <2> HIDE DEF all, ttls
  <2> QED BY <1>1, <2>3, <2>4
<1>9. \A k \in Kind :
        LET m == Cardinality({e \in E : e.of.error = k})
        IN m > 0 <=> <<k, m>> \in Range(row.counts)
  BY <1>2, <1>7
<1> HIDE DEF row
<1>10. Exact(row, E)
  BY <1>4, <1>6, <1>8, <1>9 DEF Exact
<1> QED BY <1>1, <1>6, <1>10 DEF row
-----------------------------------------------------------------------------

(* A bucket begins empty, and grows by an answer of another round.         *)
LEMMA BackedEmpty == ASSUME NEW n \in Nat PROVE Backed(<<>>, {}, n)
<1> DEFINE at == [i \in DOMAIN <<>> |-> 1]
<1>1. at \in [DOMAIN <<>> -> 1..n] /\ IsInjective(at)
  BY DEF IsInjective
<1>2. EntriesAt(<<>>, at, DOMAIN <<>>) = {}
  BY DEF EntriesAt
<1> QED BY <1>1, <1>2 DEF Backed

LEMMA BackedAppend ==
  ASSUME NEW b \in Seq(Answered), NEW E, NEW n \in Nat, Backed(b, E, n),
         NEW r \in 1..n, NEW o \in Answered, \A e \in E : e.round # r
  PROVE  Backed(Append(b, o), E \cup {[round |-> r, of |-> o]}, n)
<1> DEFINE c == Append(b, o)
           m == Len(b) + 1
           new == [round |-> r, of |-> o]
<1>1. PICK at \in [DOMAIN b -> 1..n] : IsInjective(at) /\ E = EntriesAt(b, at, DOMAIN b)
  BY DEF Backed
<1>2. /\ Len(b) \in Nat /\ DOMAIN b = 1..Len(b)
      /\ c \in Seq(Answered) /\ DOMAIN c = 1..m /\ c[m] = o
      /\ \A i \in DOMAIN b : c[i] = b[i] /\ i # m
  OBVIOUS
<1> DEFINE to == [i \in DOMAIN c |-> IF i = m THEN r ELSE at[i]]
<1>3. m \in DOMAIN c /\ DOMAIN c = DOMAIN b \cup {m} /\ m \notin DOMAIN b
  BY <1>2
<1> HIDE DEF c, m
<1>4. to \in [DOMAIN c -> 1..n] /\ to[m] = r /\ \A i \in DOMAIN b : to[i] = at[i]
  BY <1>3
<1>5. \A i \in DOMAIN b : at[i] # r
  <2>1. SUFFICES ASSUME NEW i \in DOMAIN b PROVE at[i] # r
    OBVIOUS
  <2>2. [round |-> at[i], of |-> b[i]] \in E
    BY <1>1 DEF EntriesAt
  <2>3. [round |-> at[i], of |-> b[i]].round # r
    BY <2>2
  <2> QED BY <2>3
<1> HIDE DEF to
<1>6. IsInjective(to)
  <2>1. \A i, j \in DOMAIN b : at[i] = at[j] => i = j
    BY <1>1 DEF IsInjective
  <2>2. \A i, j \in DOMAIN c : to[i] = to[j] => i = j
    BY <1>3, <1>4, <1>5, <2>1
  <2>3. DOMAIN to = DOMAIN c
    BY <1>4
  <2> QED BY <2>2, <2>3 DEF IsInjective
<1>7. EntriesAt(c, to, DOMAIN c) = E \cup {new}
  <2>1. /\ \A i \in DOMAIN b : [round |-> to[i], of |-> c[i]] = [round |-> at[i], of |-> b[i]]
        /\ [round |-> to[m], of |-> c[m]] = new
    BY <1>2, <1>4 DEF m
  <2> HIDE DEF new
  <2>2. ASSUME NEW e \in EntriesAt(c, to, DOMAIN c) PROVE e \in E \cup {new}
    <3>1. PICK i \in DOMAIN c : e = [round |-> to[i], of |-> c[i]]
      BY DEF EntriesAt
    <3>2. CASE i = m
      BY <2>1, <3>1, <3>2
    <3>3. CASE i \in DOMAIN b
      BY <1>1, <2>1, <3>1, <3>3 DEF EntriesAt
    <3> QED BY <1>3, <3>2, <3>3
  <2>3. ASSUME NEW e \in E \cup {new} PROVE e \in EntriesAt(c, to, DOMAIN c)
    <3>1. CASE e = new
      BY <1>3, <2>1, <3>1 DEF EntriesAt
    <3>2. CASE e \in E
      <4>1. PICK i \in DOMAIN b : e = [round |-> at[i], of |-> b[i]]
        BY <1>1, <3>2 DEF EntriesAt
      <4> QED BY <1>3, <2>1, <4>1 DEF EntriesAt
    <3> QED BY <3>1, <3>2
  <2> QED BY <2>2, <2>3
<1> QED BY <1>4, <1>6, <1>7 DEF Backed, c

(* The buckets of a repeated lookup and the entries of the log that are in *)
(* them: one for each resolver heard of.                                   *)
Of(E, r) == {e \in E : e.of.resolver = r}

Bucketing(B, E, n) ==
  /\ B \in Seq(Seq(Answered))
  /\ \A i \in DOMAIN B : B[i] # <<>> /\ Backed(B[i], Of(E, B[i][1].resolver), n)
  /\ \A i, j \in DOMAIN B : B[i][1].resolver = B[j][1].resolver => i = j
  /\ \A e \in E : \E i \in DOMAIN B : B[i][1].resolver = e.of.resolver

LEMMA AppendToSome ==
  ASSUME NEW X, NEW s \in Seq(X), s # <<>>, NEW x \in X
  PROVE  /\ Append(s, x) \in Seq(X)
         /\ Append(s, x) # <<>>
         /\ Append(s, x)[1] = s[1]
<1>1. Len(s) \in Nat /\ Len(s) # 0
  OBVIOUS
<1>2. Len(Append(s, x)) = Len(s) + 1
  OBVIOUS
<1>3. Append(s, x) # <<>>
  BY <1>1, <1>2
<1> QED BY <1>1, <1>3

(* An answer is put in the bucket of its resolver, or opens one.           *)
LEMMA BucketedKeeps ==
  ASSUME NEW B, NEW E, NEW n \in Nat, Bucketing(B, E, n), NEW r \in 1..n,
         NEW o \in Answered, \A e \in E : e.of.resolver = o.resolver => e.round # r
  PROVE  Bucketing(Bucketed(B, o), E \cup {[round |-> r, of |-> o]}, n)
<1> DEFINE new == [round |-> r, of |-> o]
           F == E \cup {new}
           C == Bucketed(B, o)
<1>1. /\ B \in Seq(Seq(Answered)) /\ Len(B) \in Nat /\ DOMAIN B = 1..Len(B)
      /\ \A i \in DOMAIN B : B[i] \in Seq(Answered) /\ B[i] # <<>>
  BY DEF Bucketing
<1>2. new.round = r /\ new.of = o
  OBVIOUS
<1> HIDE DEF new
<1>3. \A x : /\ x # o.resolver => Of(F, x) = Of(E, x)
             /\ x = o.resolver => Of(F, x) = Of(E, x) \cup {new}
  BY <1>2 DEF Of
<1>4. \A e \in Of(E, o.resolver) : e.round # r
  BY DEF Of
<1>5. CASE \E i \in DOMAIN B : B[i][1].resolver = o.resolver
  <2>1. C = [i \in DOMAIN B |-> IF B[i][1].resolver = o.resolver THEN Append(B[i], o) ELSE B[i]]
    BY <1>5 DEF Bucketed
  <2>2. ASSUME NEW i \in DOMAIN B
        PROVE  /\ C[i] \in Seq(Answered) /\ C[i] # <<>> /\ C[i][1] = B[i][1]
               /\ Backed(C[i], Of(F, C[i][1].resolver), n)
    <3>1. CASE B[i][1].resolver = o.resolver
      <4>1. C[i] = Append(B[i], o)
        BY <2>1, <3>1
      <4>2. C[i] \in Seq(Answered) /\ C[i] # <<>> /\ C[i][1] = B[i][1]
        BY <1>1, <4>1, AppendToSome
      <4>3. Backed(B[i], Of(E, o.resolver), n)
        BY <3>1 DEF Bucketing
      <4>4. Backed(Append(B[i], o), Of(E, o.resolver) \cup {new}, n)
        BY <1>1, <1>4, <4>3, BackedAppend DEF new
      <4> QED BY <1>3, <3>1, <4>1, <4>2, <4>4
    <3>2. CASE B[i][1].resolver # o.resolver
      <4>1. C[i] = B[i]
        BY <2>1, <3>2
      <4>2. Backed(B[i], Of(E, B[i][1].resolver), n)
        BY DEF Bucketing
      <4> QED BY <1>1, <1>3, <3>2, <4>1, <4>2
    <3> QED BY <3>1, <3>2
  <2>3. DOMAIN C = DOMAIN B /\ C \in Seq(Seq(Answered))
    BY <1>1, <2>1, <2>2
  <2> HIDE DEF C
  <2>4. \A i, j \in DOMAIN C : C[i][1].resolver = C[j][1].resolver => i = j
    BY <2>2, <2>3 DEF Bucketing
  <2>5. ASSUME NEW e \in F PROVE \E i \in DOMAIN C : C[i][1].resolver = e.of.resolver
    <3>1. \E i \in DOMAIN B : B[i][1].resolver = e.of.resolver
      BY <1>2, <1>5 DEF Bucketing
    <3> QED BY <2>2, <2>3, <3>1
  <2>6. Bucketing(C, F, n)
    BY <2>2, <2>3, <2>4, <2>5 DEF Bucketing
  <2> QED BY <2>6 DEF C, new
<1>6. CASE ~\E i \in DOMAIN B : B[i][1].resolver = o.resolver
  <2>1. C = Append(B, <<o>>)
    BY <1>6 DEF Bucketed
  <2> DEFINE m == Len(B) + 1
  <2>2. /\ C \in Seq(Seq(Answered)) /\ DOMAIN C = 1..m
        /\ C[m] = <<o>> /\ \A i \in DOMAIN B : C[i] = B[i] /\ i \in 1..m
    BY <1>1, <2>1
  <2>3. DOMAIN C = DOMAIN B \cup {m} /\ m \in DOMAIN C
    BY <1>1, <2>2
  <2> HIDE DEF C, m
  <2>4. C[m] # <<>> /\ C[m][1] = o
    BY <2>2
  <2>5. Of(E, o.resolver) = {}
    BY <1>6 DEF Bucketing, Of
  <2>6. Backed(C[m], Of(F, o.resolver), n)
    <3>1. Backed(Append(<<>>, o), {} \cup {new}, n)
      <4>1. <<>> \in Seq(Answered) /\ Backed(<<>>, {}, n)
        BY BackedEmpty
      <4> QED BY <4>1, BackedAppend DEF new
    <3>2. Append(<<>>, o) = <<o>>
      OBVIOUS
    <3>3. Of(F, o.resolver) = {} \cup {new}
      BY <1>3, <2>5
    <3> QED BY <2>2, <3>1, <3>2, <3>3
  <2>7. ASSUME NEW i \in DOMAIN C
        PROVE  C[i] # <<>> /\ Backed(C[i], Of(F, C[i][1].resolver), n)
    <3>1. CASE i = m
      BY <2>4, <2>6, <3>1
    <3>2. CASE i \in DOMAIN B
      <4>1. C[i] = B[i] /\ B[i][1].resolver # o.resolver
        BY <1>6, <2>2, <3>2
      <4>2. B[i] # <<>> /\ Backed(B[i], Of(E, B[i][1].resolver), n)
        BY <3>2 DEF Bucketing
      <4> QED BY <1>3, <4>1, <4>2
    <3> QED BY <2>3, <3>1, <3>2
  <2>8. \A i, j \in DOMAIN C : C[i][1].resolver = C[j][1].resolver => i = j
    <3>1. \A i \in DOMAIN B : C[i][1].resolver = B[i][1].resolver /\ B[i][1].resolver # o.resolver
      BY <1>6, <2>2
    <3>2. \A i, j \in DOMAIN B : B[i][1].resolver = B[j][1].resolver => i = j
      BY DEF Bucketing
    <3>3. C[m][1].resolver = o.resolver
      BY <2>4
    <3> QED BY <2>3, <3>1, <3>2, <3>3
  <2>9. ASSUME NEW e \in F PROVE \E i \in DOMAIN C : C[i][1].resolver = e.of.resolver
    <3>1. CASE e = new
      BY <1>2, <2>3, <2>4, <3>1
    <3>2. CASE e \in E
      <4>1. PICK i \in DOMAIN B : B[i][1].resolver = e.of.resolver
        BY <3>2 DEF Bucketing
      <4> QED BY <2>2, <2>3, <4>1
    <3> QED BY <3>1, <3>2
  <2>10. Bucketing(C, F, n)
    BY <2>2, <2>7, <2>8, <2>9 DEF Bucketing
  <2> QED BY <2>10 DEF C, new
<1> QED BY <1>5, <1>6

(* The recursive function inside Filled exists.                            *)
Fills(f, B, s, m) ==
  f = [k \in 0..m |-> IF k = 0 THEN B ELSE Bucketed(f[k - 1], s[k])]

LEMMA FilledExists ==
  ASSUME NEW B, NEW s, NEW m \in Nat
  PROVE  \E f : Fills(f, B, s, m)
<1> DEFINE Upto(n) ==
             \E f : f = [k \in 0..n |-> IF k = 0 THEN B ELSE Bucketed(f[k - 1], s[k])]
<1>1. Upto(0)
  <2> DEFINE f == [k \in {0} |-> B]
  <2>1. 0..0 = {0} /\ f[0] = B
    OBVIOUS
  <2>2. f = [k \in 0..0 |-> IF k = 0 THEN B ELSE Bucketed(f[k - 1], s[k])]
    BY <2>1
  <2> QED BY <2>2
<1>2. ASSUME NEW n \in Nat, Upto(n) PROVE Upto(n + 1)
  <2>1. PICK f : f = [k \in 0..n |-> IF k = 0 THEN B ELSE Bucketed(f[k - 1], s[k])]
    BY <1>2
  <2> DEFINE last == Bucketed(f[n], s[n + 1])
             g == [k \in 0..(n + 1) |-> IF k = n + 1 THEN last ELSE f[k]]
  <2>2. ASSUME NEW k \in 0..(n + 1)
        PROVE  g[k] = IF k = 0 THEN B ELSE Bucketed(g[k - 1], s[k])
    <3>1. CASE k = n + 1
      <4>1. k # 0 /\ k - 1 \in 0..(n + 1) /\ k - 1 # n + 1 /\ k - 1 = n
        BY <3>1
      <4>2. g[k - 1] = f[n] /\ g[k] = last
        BY <3>1, <4>1
      <4> QED BY <3>1, <4>1, <4>2
    <3>2. CASE k # n + 1
      <4>1. k \in 0..n /\ (k # 0 => k - 1 \in 0..n /\ k - 1 # n + 1)
        BY <3>2
      <4>2. g[k] = f[k] /\ (k # 0 => g[k - 1] = f[k - 1])
        BY <4>1
      <4>3. f[k] = IF k = 0 THEN B ELSE Bucketed(f[k - 1], s[k])
        BY <2>1, <4>1
      <4> QED BY <4>2, <4>3
    <3> QED BY <3>1, <3>2
  <2>3. g = [k \in 0..(n + 1) |-> g[k]]
    OBVIOUS
  <2> HIDE DEF g
  <2>4. g = [k \in 0..(n + 1) |-> IF k = 0 THEN B ELSE Bucketed(g[k - 1], s[k])]
    BY <2>2, <2>3
  <2> QED BY <2>4
<1> HIDE DEF Upto
<1> DEFINE H == {n \in Nat : Upto(n)}
<1>3. 0 \in H /\ \A n \in Nat : n \in H => n + 1 \in H
  BY <1>1, <1>2
<1> HIDE DEF H
<1>4. \A n \in Nat : n \in H
  BY ONLY <1>3, SetInduction
<1>5. Upto(m)
  BY <1>4 DEF H
<1> QED BY ONLY <1>5 DEF Upto, Fills

(* A round is put in the buckets: every answer of it is another            *)
(* resolver's, and none is of an earlier round.                            *)
LEMMA FilledKeeps ==
  ASSUME NEW B, NEW E, NEW n \in Nat, Bucketing(B, E, n), NEW r \in 1..n,
         NEW s \in Seq(Answered), \A e \in E : e.round # r,
         \A i, j \in DOMAIN s : s[i].resolver = s[j].resolver => i = j
  PROVE  Bucketing(Filled(B, s), E \cup {[round |-> r, of |-> s[i]] : i \in DOMAIN s}, n)
<1> DEFINE f == CHOOSE g : g = [k \in 0..Len(s) |->
                                  IF k = 0 THEN B ELSE Bucketed(g[k - 1], s[k])]
           F(k) == E \cup {[round |-> r, of |-> s[i]] : i \in 1..k}
           H == {k \in Nat : k <= Len(s) => Bucketing(f[k], F(k), n)}
<1>1. Len(s) \in Nat /\ DOMAIN s = 1..Len(s) /\ \A i \in DOMAIN s : s[i] \in Answered
  OBVIOUS
<1>2. f = [k \in 0..Len(s) |-> IF k = 0 THEN B ELSE Bucketed(f[k - 1], s[k])]
  <2>1. Len(s) \in Nat
    BY <1>1
  <2>2. \E g : Fills(g, B, s, Len(s))
    BY <2>1, FilledExists
  <2>3. \E g : g = [k \in 0..Len(s) |-> IF k = 0 THEN B ELSE Bucketed(g[k - 1], s[k])]
    BY <2>2 DEF Fills
  <2> QED BY ONLY <2>3
<1>3. Filled(B, s) = f[Len(s)]
  BY DEF Filled
<1> HIDE DEF f
<1>4. f[0] = B /\ \A k \in 1..Len(s) : f[k] = Bucketed(f[k - 1], s[k])
  <2>1. 0 \in 0..Len(s) /\ \A k \in 1..Len(s) : k \in 0..Len(s) /\ k # 0
    BY <1>1
  <2> QED BY <1>2, <2>1
<1>5. 0 \in H
  <2>1. {[round |-> r, of |-> s[i]] : i \in 1..0} = {}
    OBVIOUS
  <2>2. F(0) = E
    BY <2>1
  <2> QED BY <1>4, <2>2
<1>6. ASSUME NEW k \in Nat, k \in H PROVE k + 1 \in H
  <2>1. SUFFICES ASSUME k + 1 <= Len(s) PROVE Bucketing(f[k + 1], F(k + 1), n)
    OBVIOUS
  <2>2. Bucketing(f[k], F(k), n)
    BY <1>1, <1>6, <2>1
  <2>3. k + 1 \in DOMAIN s /\ s[k + 1] \in Answered
    BY <1>1, <2>1
  <2>4. f[k + 1] = Bucketed(f[k], s[k + 1])
    BY <1>1, <1>4, <2>1
  <2>5. ASSUME NEW e \in F(k), e.of.resolver = s[k + 1].resolver PROVE e.round # r
    <3>1. CASE e \in E
      BY <3>1
    <3>2. CASE \E i \in 1..k : e = [round |-> r, of |-> s[i]]
      <4>1. PICK i \in 1..k : e = [round |-> r, of |-> s[i]]
        BY <3>2
      <4>2. e.of = s[i] /\ i \in DOMAIN s /\ i # k + 1
        BY <1>1, <2>1, <4>1
      <4> QED BY <2>3, <2>5, <4>2
    <3> QED BY <3>1, <3>2
  <2>6. F(k + 1) = F(k) \cup {[round |-> r, of |-> s[k + 1]]}
    <3>1. 1..(k + 1) = 1..k \cup {k + 1}
      OBVIOUS
    <3> QED BY <3>1
  <2> HIDE DEF F
  <2>7. Bucketing(Bucketed(f[k], s[k + 1]), F(k) \cup {[round |-> r, of |-> s[k + 1]]}, n)
    BY <2>2, <2>3, <2>5, BucketedKeeps
  <2> QED BY <2>4, <2>6, <2>7
<1> HIDE DEF H
<1>7. \A k \in Nat : k \in H
  BY ONLY <1>5, <1>6, SetInduction
<1> HIDE DEF F
<1>8. Bucketing(f[Len(s)], F(Len(s)), n)
  BY <1>1, <1>7 DEF H
<1>9. F(Len(s)) = E \cup {[round |-> r, of |-> s[i]] : i \in DOMAIN s}
  BY <1>1 DEF F
<1> QED BY <1>3, <1>8, <1>9

-----------------------------------------------------------------------------
(* Rows of different resolvers, in order of label.                         *)
LEMMA ByResolverFacts ==
  ASSUME NEW X, NEW s \in Seq(X), \A i \in DOMAIN s : s[i].resolver \in Nat,
         \A i, j \in DOMAIN s : s[i].resolver = s[j].resolver => i = j
  PROVE  /\ ByResolver(s) \in Seq(X)
         /\ Range(ByResolver(s)) = Range(s)
         /\ \A i, j \in DOMAIN ByResolver(s) :
              ByResolver(s)[i].resolver = ByResolver(s)[j].resolver => i = j
         /\ [i \in DOMAIN ByResolver(s) |-> ByResolver(s)[i].resolver] =
            Ascending({s[i].resolver : i \in DOMAIN s})
<1> DEFINE key == [o \in Range(s) |-> o.resolver]
           r == SortedBy(key, s)
           labels == [i \in DOMAIN r |-> r[i].resolver]
           L == {s[i].resolver : i \in DOMAIN s}
<1>1. Len(s) \in Nat /\ DOMAIN s = 1..Len(s)
  OBVIOUS
<1>2. ByResolver(s) = r
  BY DEF ByResolver
<1>3. key \in [Range(s) -> Int]
  BY DEF Range
<1>4. IsInjective(s) /\ IsInjective(key)
  <2>1. IsInjective(s)
    BY DEF IsInjective
  <2>2. \A a, b \in Range(s) : a.resolver = b.resolver => a = b
    BY DEF Range
  <2> QED BY <2>1, <2>2 DEF IsInjective
<1>5. /\ r \in Seq(X) /\ Range(r) = Range(s)
      /\ \A i, j \in DOMAIN r : i < j => key[r[i]] < key[r[j]]
  BY <1>3, <1>4, SortedByFacts
<1> HIDE DEF r
<1>6. \A i \in DOMAIN r : r[i] \in Range(s) /\ r[i].resolver \in Nat
  <2>1. \A i \in DOMAIN r : r[i] \in Range(s)
    BY <1>5 DEF Range
  <2>2. \A o \in Range(s) : o.resolver \in Nat
    BY DEF Range
  <2> QED BY <2>1, <2>2
<1>7. Len(r) \in Nat /\ DOMAIN r = 1..Len(r)
  BY <1>5
<1>8. \A i, j \in DOMAIN r : i < j => r[i].resolver < r[j].resolver
  BY <1>5, <1>6
<1>9. \A i, j \in DOMAIN r : r[i].resolver = r[j].resolver => i = j
  BY <1>6, <1>7, <1>8
<1>10. labels \in Seq(Int) /\ IsAscending(labels)
  <2>1. labels \in [1..Len(r) -> Int]
    BY <1>6, <1>7
  <2>2. labels \in Seq(Int)
    BY <1>7, <2>1
  <2> QED BY <1>8, <2>2 DEF IsAscending
<1>11. Range(labels) = L
  <2>1. Range(labels) = {r[i].resolver : i \in DOMAIN r}
    BY DEF Range
  <2>2. L = {o.resolver : o \in Range(s)}
    BY DEF Range
  <2>3. {r[i].resolver : i \in DOMAIN r} = {o.resolver : o \in Range(r)}
    BY DEF Range
  <2> QED BY <1>5, <2>1, <2>2, <2>3
<1>12. IsFiniteSet(L) /\ L \subseteq Int
  <2> DEFINE f == [i \in DOMAIN s |-> s[i].resolver]
  <2>1. f \in Surjection(DOMAIN s, L)
    BY DEF Surjection
  <2>2. IsFiniteSet(DOMAIN s)
    BY <1>1, FirstNumbers
  <2>3. IsFiniteSet(L)
    BY <2>1, <2>2, FS_Surjection
  <2> QED BY <2>3
<1> HIDE DEF labels, L
<1>13. labels = Ascending(L)
  BY <1>10, <1>11, <1>12, AscendingIsIt
<1>14. [i \in DOMAIN r |-> r[i].resolver] = Ascending({s[i].resolver : i \in DOMAIN s})
  BY <1>13 DEF labels, L
<1> QED BY <1>2, <1>5, <1>9, <1>14

(* The recursive function inside FlattenSeq exists.                        *)
LEMMA FlattenExists ==
  ASSUME NEW X, NEW ss \in Seq(Seq(X))
  PROVE  \E f : f = [i \in 1..Len(ss) |-> IF i = 1 THEN ss[i] ELSE f[i - 1] \o ss[i]]
<1> DEFINE Flat(m) ==
             \E f : f = [i \in 1..m |-> IF i = 1 THEN ss[i] ELSE f[i - 1] \o ss[i]]
<1>1. Flat(0)
  <2> DEFINE f == <<>>
  <2>1. f = [i \in 1..0 |-> IF i = 1 THEN ss[i] ELSE f[i - 1] \o ss[i]]
    OBVIOUS
  <2> QED BY <2>1
<1>2. ASSUME NEW m \in Nat, Flat(m) PROVE Flat(m + 1)
  <2>1. PICK f : f = [i \in 1..m |-> IF i = 1 THEN ss[i] ELSE f[i - 1] \o ss[i]]
    BY <1>2
  <2> DEFINE last == IF m + 1 = 1 THEN ss[m + 1] ELSE f[m] \o ss[m + 1]
             g == [i \in 1..(m + 1) |-> IF i = m + 1 THEN last ELSE f[i]]
  <2>2. ASSUME NEW i \in 1..(m + 1)
        PROVE  g[i] = IF i = 1 THEN ss[i] ELSE g[i - 1] \o ss[i]
    <3>1. CASE i = m + 1
      <4>1. i # 1 => i - 1 \in 1..(m + 1) /\ i - 1 # m + 1 /\ i - 1 = m
        BY <3>1
      <4>2. i # 1 => g[i - 1] = f[m]
        BY <4>1
      <4>3. g[i] = last
        BY <3>1
      <4> QED BY <3>1, <4>2, <4>3
    <3>2. CASE i # m + 1
      <4>1. i \in 1..m /\ (i # 1 => i - 1 \in 1..m /\ i - 1 # m + 1)
        BY <3>2
      <4>2. g[i] = f[i] /\ (i # 1 => g[i - 1] = f[i - 1])
        BY <4>1
      <4>3. f[i] = IF i = 1 THEN ss[i] ELSE f[i - 1] \o ss[i]
        BY <2>1, <4>1
      <4> QED BY <4>2, <4>3
    <3> QED BY <3>1, <3>2
  <2>3. g = [i \in 1..(m + 1) |-> g[i]]
    OBVIOUS
  <2> HIDE DEF g
  <2>4. g = [i \in 1..(m + 1) |-> IF i = 1 THEN ss[i] ELSE g[i - 1] \o ss[i]]
    BY <2>2, <2>3
  <2> QED BY <2>4
<1> HIDE DEF Flat
<1> DEFINE H == {m \in Nat : Flat(m)}
<1>3. 0 \in H /\ \A m \in Nat : m \in H => m + 1 \in H
  BY <1>1, <1>2
<1> HIDE DEF H
<1>4. \A m \in Nat : m \in H
  BY ONLY <1>3, SetInduction
<1>5. Len(ss) \in Nat
  OBVIOUS
<1>6. Flat(Len(ss))
  BY <1>4, <1>5 DEF H
<1> QED BY <1>6 DEF Flat

(* What is flattened last comes last.                                      *)
LEMMA FlattenAppend ==
  ASSUME NEW X, NEW ss \in Seq(Seq(X)), NEW s \in Seq(X)
  PROVE  /\ FlattenSeq(ss) \in Seq(X)
         /\ FlattenSeq(Append(ss, s)) = FlattenSeq(ss) \o s
<1> DEFINE n == Len(ss)
           all == Append(ss, s)
<1>1. /\ n \in Nat /\ DOMAIN ss = 1..n /\ \A i \in 1..n : ss[i] \in Seq(X)
      /\ all \in Seq(Seq(X)) /\ Len(all) = n + 1 /\ all[n + 1] = s
      /\ \A i \in 1..n : all[i] = ss[i]
  <2>1. Len(ss) \in Nat /\ DOMAIN ss = 1..Len(ss)
    OBVIOUS
  <2>2. \A i \in 1..Len(ss) : ss[i] \in Seq(X)
    BY <2>1
  <2>3. /\ Append(ss, s) \in Seq(Seq(X)) /\ Len(Append(ss, s)) = Len(ss) + 1
        /\ Append(ss, s)[Len(ss) + 1] = s
    OBVIOUS
  <2>4. \A i \in 1..Len(ss) : Append(ss, s)[i] = ss[i]
    OBVIOUS
  <2> QED BY <2>1, <2>2, <2>3, <2>4
<1> DEFINE f == CHOOSE g : g = [i \in 1..Len(ss) |-> IF i = 1 THEN ss[i] ELSE g[i - 1] \o ss[i]]
           h == CHOOSE g : g = [i \in 1..Len(all) |-> IF i = 1 THEN all[i] ELSE g[i - 1] \o all[i]]
<1>2. f = [i \in 1..Len(ss) |-> IF i = 1 THEN ss[i] ELSE f[i - 1] \o ss[i]]
  BY FlattenExists
<1>3. h = [i \in 1..Len(all) |-> IF i = 1 THEN all[i] ELSE h[i - 1] \o all[i]]
  BY <1>1, FlattenExists
<1>4. FlattenSeq(all) = h[n + 1]
  <2>1. Len(all) = n + 1 /\ n + 1 # 0
    BY <1>1
  <2>2. all # <<>>
    BY <2>1
  <2> HIDE DEF n
  <2> QED BY <2>1, <2>2 DEF FlattenSeq
<1>5. n # 0 => FlattenSeq(ss) = f[n]
  BY DEF FlattenSeq
<1>6. n = 0 => FlattenSeq(ss) = <<>>
  BY DEF FlattenSeq
<1> HIDE DEF all, f, h, n
<1>7. /\ \A i \in 1..n : f[i] = IF i = 1 THEN ss[i] ELSE f[i - 1] \o ss[i]
      /\ \A i \in 1..(n + 1) : h[i] = IF i = 1 THEN all[i] ELSE h[i - 1] \o all[i]
  BY <1>1, <1>2, <1>3 DEF n
<1> DEFINE H == {k \in Nat : k \in 1..n => f[k] = h[k] /\ f[k] \in Seq(X)}
<1>8. 0 \in H
  OBVIOUS
<1>9. ASSUME NEW k \in Nat, k \in H PROVE k + 1 \in H
  <2>1. SUFFICES ASSUME k + 1 \in 1..n
                 PROVE  f[k + 1] = h[k + 1] /\ f[k + 1] \in Seq(X)
    OBVIOUS
  <2>2. k + 1 \in 1..(n + 1) /\ (k + 1) - 1 = k
    BY <1>1, <2>1
  <2>3. all[k + 1] = ss[k + 1] /\ ss[k + 1] \in Seq(X)
    BY <1>1, <2>1
  <2>4. CASE k = 0
    <3>1. k + 1 = 1
      BY <2>4
    <3> QED BY <1>7, <2>1, <2>2, <2>3, <3>1
  <2>5. CASE k # 0
    <3>1. k \in 1..n /\ k + 1 # 1
      BY <1>1, <2>1, <2>5
    <3>2. f[k] = h[k] /\ f[k] \in Seq(X)
      BY <1>9, <3>1
    <3>3. f[k + 1] = f[k] \o ss[k + 1] /\ h[k + 1] = h[k] \o all[k + 1]
      BY <1>7, <2>1, <2>2, <3>1
    <3> QED BY <2>3, <3>2, <3>3
  <2> QED BY <2>4, <2>5
<1> HIDE DEF H
<1>10. \A k \in Nat : k \in H
  BY ONLY <1>8, <1>9, SetInduction
<1>11. CASE n = 0
  <2>1. n + 1 = 1 /\ n + 1 \in 1..(n + 1)
    BY <1>11
  <2>2. h[n + 1] = s
    BY <1>1, <1>7, <2>1
  <2>3. s = <<>> \o s /\ <<>> \in Seq(X)
    OBVIOUS
  <2> QED BY <1>4, <1>6, <1>11, <2>2, <2>3 DEF all
<1>12. CASE n # 0
  <2>1. n \in 1..n /\ n + 1 \in 1..(n + 1) /\ n + 1 # 1 /\ (n + 1) - 1 = n
    BY <1>1, <1>12
  <2>2. f[n] = h[n] /\ f[n] \in Seq(X)
    BY <1>10, <2>1 DEF H
  <2>3. h[n + 1] = h[n] \o s
    BY <1>1, <1>7, <2>1
  <2> QED BY <1>4, <1>5, <1>12, <2>2, <2>3 DEF all
<1> QED BY <1>11, <1>12

(* Keys of rows, and labels with their type.                               *)
Key == RecordType \X Nat

(* Two sequences in one, and the keys of their rows.                       *)
LEMMA ConcatFacts ==
  ASSUME NEW X, NEW a \in Seq(X), NEW b \in Seq(X)
  PROVE  /\ Len(a) \in Nat /\ Len(b) \in Nat
         /\ a \o b \in Seq(X) /\ Len(a \o b) = Len(a) + Len(b)
         /\ \A i \in 1..(Len(a) + Len(b)) :
              (a \o b)[i] = IF i <= Len(a) THEN a[i] ELSE b[i - Len(a)]
OBVIOUS

LEMMA KeyedFacts ==
  ASSUME NEW ty \in RecordType, NEW s \in Seq(Nat)
  PROVE  /\ Keyed(ty, s) \in Seq(Key) /\ Len(Keyed(ty, s)) = Len(s)
         /\ \A i \in 1..Len(s) : Keyed(ty, s)[i] = <<ty, s[i]>>
<1>1. Len(s) \in Nat /\ DOMAIN s = 1..Len(s) /\ \A i \in 1..Len(s) : s[i] \in Nat
  OBVIOUS
<1>2. Keyed(ty, s) = [i \in 1..Len(s) |-> <<ty, s[i]>>]
  BY <1>1 DEF Keyed
<1>3. Keyed(ty, s) \in [1..Len(s) -> Key]
  BY <1>1, <1>2 DEF Key
<1>4. Keyed(ty, s) \in Seq(Key)
  BY <1>1, <1>3
<1>5. Len(Keyed(ty, s)) = Len(s)
  BY <1>1, <1>3, <1>4
<1> QED BY <1>2, <1>4, <1>5

LEMMA KeyedConcat ==
  ASSUME NEW ty \in RecordType, NEW a \in Seq(Nat), NEW b \in Seq(Nat)
  PROVE  Keyed(ty, a \o b) = Keyed(ty, a) \o Keyed(ty, b)
<1> DEFINE c == a \o b
           ka == Keyed(ty, a)
           kb == Keyed(ty, b)
           kc == Keyed(ty, c)
<1>1. /\ Len(a) \in Nat /\ Len(b) \in Nat /\ c \in Seq(Nat)
      /\ Len(c) = Len(a) + Len(b)
      /\ \A i \in 1..(Len(a) + Len(b)) :
           c[i] = IF i <= Len(a) THEN a[i] ELSE b[i - Len(a)]
  OBVIOUS
<1>2. /\ ka \in Seq(Key) /\ Len(ka) = Len(a)
      /\ \A i \in 1..Len(a) : ka[i] = <<ty, a[i]>>
  BY KeyedFacts
<1>3. /\ kb \in Seq(Key) /\ Len(kb) = Len(b)
      /\ \A i \in 1..Len(b) : kb[i] = <<ty, b[i]>>
  BY KeyedFacts
<1> HIDE DEF c
<1>4. /\ kc \in Seq(Key) /\ Len(kc) = Len(c)
      /\ \A i \in 1..Len(c) : kc[i] = <<ty, c[i]>>
  BY <1>1, KeyedFacts
<1> HIDE DEF ka, kb, kc
<1>5. /\ ka \o kb \in Seq(Key) /\ Len(ka \o kb) = Len(a) + Len(b)
      /\ \A i \in 1..(Len(a) + Len(b)) :
           (ka \o kb)[i] = IF i <= Len(a) THEN ka[i] ELSE kb[i - Len(a)]
  <2>1. Len(ka) \in Nat /\ Len(kb) \in Nat
    BY <1>1, <1>2, <1>3
  <2>2. /\ ka \o kb \in Seq(Key) /\ Len(ka \o kb) = Len(ka) + Len(kb)
        /\ \A i \in 1..(Len(ka) + Len(kb)) :
             (ka \o kb)[i] = IF i <= Len(ka) THEN ka[i] ELSE kb[i - Len(ka)]
    <3>1. ka \in Seq(Key) /\ kb \in Seq(Key)
      BY <1>2, <1>3
    <3> QED BY ONLY <3>1, ConcatFacts
  <2> QED BY <1>2, <1>3, <2>2
<1>6. \A i \in 1..(Len(a) + Len(b)) : kc[i] = (ka \o kb)[i]
  <2>1. TAKE i \in 1..(Len(a) + Len(b))
  <2>2. CASE i <= Len(a)
    <3>1. i \in 1..Len(a)
      BY <1>1, <2>2
    <3> QED BY <1>1, <1>2, <1>4, <1>5, <2>2, <3>1
  <2>3. CASE ~(i <= Len(a))
    <3>1. i - Len(a) \in 1..Len(b)
      BY <1>1, <2>3
    <3> QED BY <1>1, <1>3, <1>4, <1>5, <2>3, <3>1
  <2> QED BY <2>2, <2>3
<1>7. kc = ka \o kb
  BY <1>1, <1>4, <1>5, <1>6, SeqEqual
<1> QED BY <1>7 DEF ka, kb, kc, c

LEMMA RowKeysFacts ==
  ASSUME NEW X, \A x \in X : <<x.type, x.resolver>> \in Key, NEW s \in Seq(X)
  PROVE  /\ Len(s) \in Nat
         /\ RowKeys(s) \in Seq(Key)
         /\ Len(RowKeys(s)) = Len(s)
         /\ \A i \in 1..Len(s) : RowKeys(s)[i] = <<s[i].type, s[i].resolver>>
<1>1. Len(s) \in Nat /\ DOMAIN s = 1..Len(s) /\ \A i \in 1..Len(s) : s[i] \in X
  OBVIOUS
<1>2. RowKeys(s) = [i \in 1..Len(s) |-> <<s[i].type, s[i].resolver>>]
  BY <1>1 DEF RowKeys
<1>3. RowKeys(s) \in [1..Len(s) -> Key]
  BY <1>1, <1>2
<1>4. RowKeys(s) \in Seq(Key)
  BY <1>1, <1>3
<1>5. Len(RowKeys(s)) = Len(s)
  BY <1>1, <1>3, <1>4
<1> QED BY <1>1, <1>2, <1>4, <1>5

LEMMA RowKeysConcat ==
  ASSUME NEW X, \A x \in X : <<x.type, x.resolver>> \in Key,
         NEW a \in Seq(X), NEW b \in Seq(X)
  PROVE  RowKeys(a \o b) = RowKeys(a) \o RowKeys(b)
<1> DEFINE c == a \o b
           ka == RowKeys(a)
           kb == RowKeys(b)
           kc == RowKeys(c)
<1>1. /\ Len(a) \in Nat /\ Len(b) \in Nat /\ c \in Seq(X)
      /\ Len(c) = Len(a) + Len(b)
      /\ \A i \in 1..(Len(a) + Len(b)) :
           c[i] = IF i <= Len(a) THEN a[i] ELSE b[i - Len(a)]
  OBVIOUS
<1>2. /\ ka \in Seq(Key) /\ Len(ka) = Len(a)
      /\ \A i \in 1..Len(a) : ka[i] = <<a[i].type, a[i].resolver>>
  BY RowKeysFacts
<1>3. /\ kb \in Seq(Key) /\ Len(kb) = Len(b)
      /\ \A i \in 1..Len(b) : kb[i] = <<b[i].type, b[i].resolver>>
  BY RowKeysFacts
<1> HIDE DEF c
<1>4. /\ kc \in Seq(Key) /\ Len(kc) = Len(c)
      /\ \A i \in 1..Len(c) : kc[i] = <<c[i].type, c[i].resolver>>
  BY <1>1, RowKeysFacts
<1> HIDE DEF ka, kb, kc
<1>5. /\ ka \o kb \in Seq(Key) /\ Len(ka \o kb) = Len(a) + Len(b)
      /\ \A i \in 1..(Len(a) + Len(b)) :
           (ka \o kb)[i] = IF i <= Len(a) THEN ka[i] ELSE kb[i - Len(a)]
  <2>1. Len(ka) \in Nat /\ Len(kb) \in Nat
    BY <1>1, <1>2, <1>3
  <2>2. /\ ka \o kb \in Seq(Key) /\ Len(ka \o kb) = Len(ka) + Len(kb)
        /\ \A i \in 1..(Len(ka) + Len(kb)) :
             (ka \o kb)[i] = IF i <= Len(ka) THEN ka[i] ELSE kb[i - Len(ka)]
    <3>1. ka \in Seq(Key) /\ kb \in Seq(Key)
      BY <1>2, <1>3
    <3> QED BY ONLY <3>1, ConcatFacts
  <2> QED BY <1>2, <1>3, <2>2
<1>6. \A i \in 1..(Len(a) + Len(b)) : kc[i] = (ka \o kb)[i]
  <2>1. TAKE i \in 1..(Len(a) + Len(b))
  <2>2. CASE i <= Len(a)
    <3>1. i \in 1..Len(a)
      BY <1>1, <2>2
    <3> QED BY <1>1, <1>2, <1>4, <1>5, <2>2, <3>1
  <2>3. CASE ~(i <= Len(a))
    <3>1. i - Len(a) \in 1..Len(b)
      BY <1>1, <2>3
    <3> QED BY <1>1, <1>3, <1>4, <1>5, <2>3, <3>1
  <2> QED BY <2>2, <2>3
<1>7. kc = ka \o kb
  BY <1>1, <1>4, <1>5, <1>6, SeqEqual
<1> QED BY <1>7 DEF ka, kb, kc, c

-----------------------------------------------------------------------------
(* A row is an answer, or as many of a resolver in one.                    *)
Aggregates ==
  {Aggregated(b, ty, n) : b \in Seq(Answered) \ {<<>>}, ty \in RecordType, n \in Nat}

Row == Answered \cup Aggregates

LEMMA RowFacts ==
  ASSUME NEW row \in Row
  PROVE  <<row.type, row.resolver>> \in Key
<1>1. CASE row \in Answered
  BY <1>1, AnsweredFacts DEF Key
<1>2. CASE row \in Aggregates
  <2>1. PICK b \in Seq(Answered) \ {<<>>}, ty \in RecordType, n \in Nat :
          row = Aggregated(b, ty, n)
    BY <1>2 DEF Aggregates
  <2>2. row.resolver = b[1].resolver /\ row.type = ty
    BY <2>1 DEF Aggregated
  <2>3. b[1] \in Answered
    BY <2>1
  <2> QED BY <2>2, <2>3, AnsweredFacts DEF Key
<1> QED BY <1>1, <1>2 DEF Row

LEMMA AggregateIsRow ==
  ASSUME NEW b \in Seq(Answered), b # <<>>, NEW ty \in RecordType, opts.count \in Nat
  PROVE  Aggregate(b, ty) \in Row
BY DEF Aggregate, Row, Aggregates

(* What the command line is known to be.                                   *)
LEMMA OptionsFacts ==
  ASSUME opts \in Options
  PROVE  /\ opts.types \in Seq(RecordType)
         /\ Len(opts.types) \in Nat \ {0} /\ DOMAIN opts.types = 1..Len(opts.types)
         /\ \A m \in 1..Len(opts.types) : opts.types[m] \in RecordType
         /\ \A m, k \in 1..Len(opts.types) : opts.types[m] = opts.types[k] => m = k
         /\ opts.count \in Nat \ {0}
         /\ \A t \in Task : /\ Rounds(t) \in Nat \ {0} /\ Rounds(t) <= opts.count
                            /\ Repeats(t) => Rounds(t) = opts.count /\ opts.count > 1
                            /\ ~Repeats(t) => Rounds(t) = 1
<1>1. /\ opts.types \in Seq(RecordType) /\ opts.types # <<>> /\ IsInjective(opts.types)
      /\ opts.count \in Nat \ {0}
  BY OptionsAssumption
<1>2. Len(opts.types) \in Nat /\ DOMAIN opts.types = 1..Len(opts.types)
  BY <1>1
<1>3. Len(opts.types) # 0
  BY <1>1
<1>4. \A m, k \in 1..Len(opts.types) : opts.types[m] = opts.types[k] => m = k
  BY <1>1, <1>2 DEF IsInjective
<1>5. \A t \in Task : /\ Rounds(t) \in Nat \ {0} /\ Rounds(t) <= opts.count
                      /\ Repeats(t) => Rounds(t) = opts.count /\ opts.count > 1
                      /\ ~Repeats(t) => Rounds(t) = 1
  BY <1>1 DEF Rounds, Repeats
<1> QED BY <1>1, <1>2, <1>3, <1>4, <1>5

(* What the labels are known to be: no endpoint has that of a resolver.    *)
LEMMA LabelsFacts ==
  ASSUME opts \in Options
  PROVE  /\ Resolvers \in SUBSET Nat /\ IsFiniteSet(Resolvers)
         /\ Endpoints \in Seq(Nat) /\ Len(Endpoints) \in Nat
         /\ DOMAIN Endpoints = 1..Len(Endpoints)
         /\ \A m \in 1..Len(Endpoints) : Endpoints[m] \in Nat /\ Endpoints[m] \notin Resolvers
         /\ \A m, k \in 1..Len(Endpoints) : Endpoints[m] = Endpoints[k] => m = k
<1>1. /\ System \in Nat /\ opts.servers \in Seq(Nat)
      /\ opts.doh \in Seq(Nat) /\ opts.dot \in Seq(Nat) /\ IsInjective(Endpoints)
      /\ Range(Endpoints) \cap (Range(opts.servers) \cup {System}) = {}
  BY OptionsAssumption DEF Endpoints
<1>2. /\ Endpoints \in Seq(Nat) /\ Len(Endpoints) \in Nat
      /\ DOMAIN Endpoints = 1..Len(Endpoints)
  <2>1. Endpoints \in Seq(Nat)
    BY <1>1, ConcatFacts DEF Endpoints
  <2> QED BY <2>1
<1>3. \A m \in 1..Len(Endpoints) : Endpoints[m] \in Nat /\ Endpoints[m] \in Range(Endpoints)
  BY <1>2 DEF Range
<1>4. \A m, k \in 1..Len(Endpoints) : Endpoints[m] = Endpoints[k] => m = k
  BY <1>1, <1>2 DEF IsInjective
<1>5. /\ Len(opts.servers) \in Nat /\ DOMAIN opts.servers = 1..Len(opts.servers)
      /\ \A m \in 1..Len(opts.servers) : opts.servers[m] \in Nat
  BY <1>1
<1>6. Range(opts.servers) \in SUBSET Nat
  BY <1>5 DEF Range
<1>7. IsFiniteSet(Range(opts.servers))
  <2> DEFINE s == opts.servers
             T == Range(s)
  <2>1. s \in Seq(Nat) /\ Len(s) \in Nat /\ DOMAIN s = 1..Len(s)
    BY <1>1
  <2> HIDE DEF s
  <2>2. \A m \in 1..Len(s) : s[m] \in T
    BY <2>1 DEF Range
  <2>3. s \in [1..Len(s) -> T]
    BY <2>1, <2>2
  <2>4. \A x \in T : \E m \in 1..Len(s) : s[m] = x
    BY <2>1 DEF Range
  <2>5. s \in Surjection(1..Len(s), T)
    BY <2>3, <2>4 DEF Surjection
  <2>6. IsFiniteSet(1..Len(s))
    BY <2>1, FirstNumbers
  <2> HIDE DEF T
  <2>7. IsFiniteSet(T)
    BY ONLY <2>5, <2>6, FS_Surjection
  <2> QED BY <2>7 DEF s, T
<1>8. IsFiniteSet(Range(opts.servers) \cup {System})
  BY <1>7, FS_AddElement
<1>9. Resolvers \subseteq Range(opts.servers) \cup {System}
  BY DEF Resolvers
<1>10. IsFiniteSet(Resolvers)
  BY <1>8, <1>9, FS_Subset
<1> QED BY <1>1, <1>2, <1>3, <1>4, <1>6, <1>9, <1>10

-----------------------------------------------------------------------------
(* What is known of a target whose task is at j when its log is L.         *)
Job ==
  [pc : {"waiting", "spawn", "joining", "encrypted", "computed", "returned", "panicked"},
   type : Nat, round : Nat, out : SUBSET Nat, got : Seq(Answered),
   buckets : Seq(Seq(Answered)), endpoint : Nat, rows : Seq(Row)]

(* The record type it is at, and the answers there are of a type.          *)
TypeOf(j) == opts.types[j.type]

AnswersIn(L, ty, r) == {e \in L : e.of.type = ty /\ e.of.resolver = r}

HeardOf(L, ty) == Ascending({r \in Resolvers : AnswersIn(L, ty, r) # {}})

OfType(j, L) == {e \in L : e.of.type = TypeOf(j)}

(* The client is through with the type of record it is at.                 *)
Asked(j) == j.pc \in {"encrypted", "computed", "returned"}

(* The labels whose rows of the current type are there, and all those      *)
(* whose row is there with the type it is of.                              *)
Closed(j) ==
  IF Asked(j) THEN Resolvers \cup {Endpoints[m] : m \in 1..(j.endpoint - 1)} ELSE {}

Past(j, ty, r) ==
  \/ \E m \in 1..(j.type - 1) : ty = opts.types[m]
  \/ ty = TypeOf(j) /\ r \in Closed(j)

(* The rows of the types before, and those of the current one so far.      *)
Blocks(L, m) ==
  [k \in 1..m |-> Keyed(opts.types[k], HeardOf(L, opts.types[k]) \o Endpoints)]

Settled(j, L) ==
  IF Asked(j) THEN HeardOf(L, TypeOf(j)) \o SubSeq(Endpoints, 1, j.endpoint - 1)
  ELSE <<>>

(* A row says what the answers it stands for say.                          *)
Accounted(t, L, row) ==
  LET told == AnswersIn(L, row.type, row.resolver)
  IN IF Repeats(t)
     THEN /\ Exact(row, told) /\ row.failures \in Nat
          /\ IsFiniteSet(told) /\ Cardinality(told) <= opts.count
     ELSE \A e \in told : e.of = row

(* The rows are those of the types before and of the current one so far,   *)
(* each says what its answers say, and no answer that should have one is   *)
(* without.                                                                *)
Listed(t, j, L) ==
  /\ j.type \in 1..Len(opts.types)
  /\ j.round \in 1..Rounds(t)
  /\ j.endpoint \in 1..(Len(Endpoints) + 1)
  /\ RowKeys(j.rows) =
     FlattenSeq(Blocks(L, j.type - 1)) \o Keyed(TypeOf(j), Settled(j, L))
  /\ \A i \in DOMAIN j.rows :
       /\ Past(j, j.rows[i].type, j.rows[i].resolver)
       /\ Accounted(t, L, j.rows[i])
  /\ \A e \in L :
       /\ Past(j, e.of.type, e.of.resolver) \/ e.of.type = TypeOf(j)
       /\ Past(j, e.of.type, e.of.resolver) =>
            \E i \in DOMAIN j.rows :
              j.rows[i].type = e.of.type /\ j.rows[i].resolver = e.of.resolver

(* While the resolvers are asked: what came in the rounds before is in the *)
(* buckets, and what came in this one is from those no longer out.         *)
Gathering(t, j, L) ==
  /\ j.endpoint = 1
  /\ \A e \in OfType(j, L) : e.of.resolver \in Resolvers
  /\ Bucketing(j.buckets, {e \in OfType(j, L) : e.round < j.round}, Rounds(t))
  /\ j.pc # "joining" => \A e \in OfType(j, L) : e.round < j.round
  /\ j.pc = "joining" =>
       /\ j.out \subseteq Resolvers
       /\ \A i \in DOMAIN j.got : j.got[i].resolver \in Resolvers \ j.out
                                  /\ j.got[i].type = TypeOf(j)
       /\ \A i, k \in DOMAIN j.got : j.got[i].resolver = j.got[k].resolver => i = k
       /\ {e \in OfType(j, L) : ~(e.round < j.round)} =
          {[round |-> j.round, of |-> j.got[i]] : i \in DOMAIN j.got}

(* While the endpoints are: the one it is at is heard of in its bucket.    *)
Encrypting(t, j, L) ==
  /\ j.buckets = <<>>
  /\ \A e \in OfType(j, L) :
       \/ e.of.resolver \in Resolvers
       \/ \E m \in 1..Len(Endpoints) : m <= j.endpoint /\ e.of.resolver = Endpoints[m]
  /\ j.endpoint <= Len(Endpoints) =>
       /\ Len(j.got) < Rounds(t)
       /\ \A i \in DOMAIN j.got : j.got[i].resolver = Endpoints[j.endpoint]
       /\ AnswersIn(L, TypeOf(j), Endpoints[j.endpoint]) =
          {[round |-> i, of |-> j.got[i]] : i \in DOMAIN j.got}
  /\ j.endpoint > Len(Endpoints) => j.got = <<>>
  /\ j.pc # "encrypted" => j.type = Len(opts.types) /\ j.endpoint > Len(Endpoints)

(* All of it, of a target that asks and did not panic.                     *)
TargetOK(t, j, L) ==
  /\ Asks(t) /\ j.pc # "panicked" =>
       /\ Listed(t, j, L)
       /\ ~Asked(j) => Gathering(t, j, L)
       /\ Asked(j) => Encrypting(t, j, L)
  /\ ~Asks(t) => j.pc \in {"waiting", "computed", "returned", "panicked"}

(* The resolvers heard of, and the keys of the rows they stand for.        *)
LEMMA HeardFacts ==
  ASSUME opts \in Options, NEW L, NEW ty
  PROVE  /\ HeardOf(L, ty) \in Seq(Nat)
         /\ Range(HeardOf(L, ty)) = {r \in Resolvers : AnswersIn(L, ty, r) # {}}
<1> DEFINE S == {r \in Resolvers : AnswersIn(L, ty, r) # {}}
<1>1. S \in SUBSET Nat /\ S \subseteq Resolvers
  BY LabelsFacts
<1>2. IsFiniteSet(S)
  BY <1>1, LabelsFacts, FS_Subset
<1>3. HeardOf(L, ty) = Ascending(S)
  BY DEF HeardOf
<1> HIDE DEF S
<1>4. S \in SUBSET Int
  BY <1>1
<1>5. Ascending(S) \in Seq(S) /\ Range(Ascending(S)) = S
  BY <1>2, <1>4, AscendingFacts
<1>6. Ascending(S) \in Seq(Nat)
  BY <1>1, <1>5, WiderSeq
<1> QED BY <1>3, <1>5, <1>6 DEF S

(* Another type adds its block to those before.                            *)
LEMMA BlocksFacts ==
  ASSUME opts \in Options, NEW L, NEW m \in Nat, m <= Len(opts.types)
  PROVE  /\ FlattenSeq(Blocks(L, m)) \in Seq(Key)
         /\ m < Len(opts.types) =>
              FlattenSeq(Blocks(L, m + 1)) =
              FlattenSeq(Blocks(L, m))
                \o Keyed(opts.types[m + 1], HeardOf(L, opts.types[m + 1]) \o Endpoints)
<1> DEFINE block(k) == Keyed(opts.types[k], HeardOf(L, opts.types[k]) \o Endpoints)
<1>1. \A k \in 1..Len(opts.types) : block(k) \in Seq(Key)
  <2>1. TAKE k \in 1..Len(opts.types)
  <2>2. opts.types[k] \in RecordType
    BY OptionsFacts
  <2>3. HeardOf(L, opts.types[k]) \o Endpoints \in Seq(Nat)
    BY HeardFacts, LabelsFacts, ConcatFacts
  <2> QED BY <2>2, <2>3, KeyedFacts
<1>2. Len(opts.types) \in Nat
  BY OptionsFacts
<1>3. \A k \in Nat : Blocks(L, k) = [i \in 1..k |-> block(i)]
  BY DEF Blocks
<1> HIDE DEF block
<1>4. \A k \in Nat : k <= Len(opts.types) => Blocks(L, k) \in Seq(Seq(Key)) /\ Len(Blocks(L, k)) = k
  <2>1. SUFFICES ASSUME NEW k \in Nat, k <= Len(opts.types)
                 PROVE  Blocks(L, k) \in Seq(Seq(Key)) /\ Len(Blocks(L, k)) = k
    OBVIOUS
  <2>2. \A i \in 1..k : i \in 1..Len(opts.types)
    BY <1>2, <2>1
  <2>3. Blocks(L, k) \in [1..k -> Seq(Key)]
    BY <1>1, <1>3, <2>2
  <2> QED BY <2>3
<1>5. Blocks(L, m) \in Seq(Seq(Key)) /\ Len(Blocks(L, m)) = m
  BY <1>4
<1>6. FlattenSeq(Blocks(L, m)) \in Seq(Key)
  <2>1. <<>> \in Seq(Key)
    OBVIOUS
  <2> QED BY <1>5, <2>1, FlattenAppend
<1>7. ASSUME m < Len(opts.types)
      PROVE  FlattenSeq(Blocks(L, m + 1)) = FlattenSeq(Blocks(L, m)) \o block(m + 1)
  <2>1. m + 1 \in Nat /\ m + 1 <= Len(opts.types) /\ m + 1 \in 1..Len(opts.types)
    BY <1>2, <1>7
  <2>2. block(m + 1) \in Seq(Key)
    BY <1>1, <2>1
  <2>3. Blocks(L, m + 1) \in Seq(Seq(Key)) /\ Len(Blocks(L, m + 1)) = m + 1
    BY <1>4, <2>1
  <2>4. /\ Append(Blocks(L, m), block(m + 1)) \in Seq(Seq(Key))
        /\ Len(Append(Blocks(L, m), block(m + 1))) = m + 1
        /\ \A i \in 1..m : Append(Blocks(L, m), block(m + 1))[i] = Blocks(L, m)[i]
        /\ Append(Blocks(L, m), block(m + 1))[m + 1] = block(m + 1)
    BY <1>5, <2>2
  <2>5. \A i \in 1..(m + 1) :
          Blocks(L, m + 1)[i] = Append(Blocks(L, m), block(m + 1))[i]
    <3>1. TAKE i \in 1..(m + 1)
    <3>2. Blocks(L, m + 1)[i] = block(i)
      BY <1>3, <2>1
    <3>3. CASE i = m + 1
      BY <2>4, <3>2, <3>3
    <3>4. CASE i # m + 1
      <4>1. i \in 1..m
        BY <3>4
      <4>2. Blocks(L, m)[i] = block(i)
        BY <1>3, <4>1
      <4> QED BY <2>4, <3>2, <4>1, <4>2
    <3> QED BY <3>3, <3>4
  <2>6. Blocks(L, m + 1) = Append(Blocks(L, m), block(m + 1))
    BY <2>3, <2>4, <2>5, SeqEqual
  <2> QED BY <1>5, <2>2, <2>6, FlattenAppend
<1> QED BY <1>6, <1>7 DEF block

LEMMA SettledFacts ==
  ASSUME opts \in Options, NEW t \in Task, NEW j \in Job, NEW L, Listed(t, j, L)
  PROVE  /\ TypeOf(j) \in RecordType
         /\ Settled(j, L) \in Seq(Nat)
         /\ j.type - 1 \in Nat /\ j.type - 1 <= Len(opts.types)
         /\ j.endpoint - 1 \in 0..Len(Endpoints)
<1>1. j.type \in 1..Len(opts.types) /\ j.endpoint \in 1..(Len(Endpoints) + 1)
  BY DEF Listed
<1>2. TypeOf(j) \in RecordType /\ j.type - 1 \in Nat /\ j.type - 1 <= Len(opts.types)
  BY <1>1, OptionsFacts DEF TypeOf
<1>3. j.endpoint - 1 \in 0..Len(Endpoints)
  BY <1>1, LabelsFacts
<1>4. SubSeq(Endpoints, 1, j.endpoint - 1) \in Seq(Nat)
  <2>1. \A i \in 1..(j.endpoint - 1) : i \in 1..Len(Endpoints)
    BY <1>3, LabelsFacts
  <2> QED BY <1>3, <2>1, LabelsFacts, SubSeqProperties
<1>5. HeardOf(L, TypeOf(j)) \o SubSeq(Endpoints, 1, j.endpoint - 1) \in Seq(Nat)
  BY <1>4, HeardFacts, ConcatFacts
<1>6. <<>> \in Seq(Nat)
  OBVIOUS
<1> QED BY <1>2, <1>3, <1>5, <1>6 DEF Settled

(* Only the type, the endpoint and the rows count.                         *)
LEMMA ListedSame ==
  ASSUME NEW t \in Task, NEW j \in Job, NEW k \in Job, NEW L, Listed(t, j, L),
         k.type = j.type, k.endpoint = j.endpoint, k.rows = j.rows,
         Asked(k) <=> Asked(j), k.round \in 1..Rounds(t)
  PROVE  Listed(t, k, L)
<1>1. /\ TypeOf(k) = TypeOf(j) /\ Closed(k) = Closed(j)
      /\ Settled(k, L) = Settled(j, L)
  BY DEF TypeOf, Closed, Settled
<1>2. \A ty, r : Past(k, ty, r) <=> Past(j, ty, r)
  BY <1>1 DEF Past
<1> QED BY <1>1, <1>2 DEF Listed

(* An answer whose row is still to come.                                   *)
LEMMA ListedHears ==
  ASSUME opts \in Options, NEW t \in Task, NEW j \in Job, NEW L \in SUBSET Entry,
         Listed(t, j, L), NEW e \in Entry,
         e.of.type = TypeOf(j), e.of.resolver \notin Closed(j)
  PROVE  Listed(t, j, L \cup {e})
<1> DEFINE M == L \cup {e}
<1>1. j.type \in 1..Len(opts.types) /\ Len(opts.types) \in Nat
  BY OptionsFacts DEF Listed
<1>2. ~Past(j, e.of.type, e.of.resolver)
  <2>1. SUFFICES ASSUME NEW m \in 1..(j.type - 1), e.of.type = opts.types[m] PROVE FALSE
    BY DEF Past
  <2>2. m \in 1..Len(opts.types) /\ m # j.type
    BY <1>1
  <2> QED BY <1>1, <2>1, <2>2, OptionsFacts DEF TypeOf
<1>3. \A ty, r : Past(j, ty, r) => AnswersIn(M, ty, r) = AnswersIn(L, ty, r)
  <2>1. SUFFICES ASSUME NEW ty, NEW r, Past(j, ty, r)
                 PROVE  AnswersIn(M, ty, r) = AnswersIn(L, ty, r)
    OBVIOUS
  <2>2. ~(e.of.type = ty /\ e.of.resolver = r)
    BY <1>2, <2>1
  <2> QED BY <2>2 DEF AnswersIn
<1>4. \A ty : (\A r \in Resolvers : Past(j, ty, r)) => HeardOf(M, ty) = HeardOf(L, ty)
  <2>1. SUFFICES ASSUME NEW ty, \A r \in Resolvers : Past(j, ty, r)
                 PROVE  HeardOf(M, ty) = HeardOf(L, ty)
    OBVIOUS
  <2>2. {r \in Resolvers : AnswersIn(M, ty, r) # {}} = {r \in Resolvers : AnswersIn(L, ty, r) # {}}
    BY <1>3, <2>1
  <2> QED BY <2>2 DEF HeardOf
<1>5. \A m \in 1..(j.type - 1) : HeardOf(M, opts.types[m]) = HeardOf(L, opts.types[m])
  <2>1. TAKE m \in 1..(j.type - 1)
  <2>2. \A r \in Resolvers : Past(j, opts.types[m], r)
    BY DEF Past
  <2> QED BY <1>4, <2>2
<1>6. Blocks(M, j.type - 1) = Blocks(L, j.type - 1)
  BY <1>5 DEF Blocks
<1>7. Settled(j, M) = Settled(j, L)
  <2>1. CASE Asked(j)
    <3>1. \A r \in Resolvers : Past(j, TypeOf(j), r)
      BY <2>1 DEF Past, Closed
    <3> QED BY <1>4, <3>1 DEF Settled
  <2>2. CASE ~Asked(j)
    BY <2>2 DEF Settled
  <2> QED BY <2>1, <2>2
<1>8. \A i \in DOMAIN j.rows :
        /\ Past(j, j.rows[i].type, j.rows[i].resolver)
        /\ Accounted(t, M, j.rows[i])
  <2>1. TAKE i \in DOMAIN j.rows
  <2>2. /\ Past(j, j.rows[i].type, j.rows[i].resolver)
        /\ Accounted(t, L, j.rows[i])
    BY DEF Listed
  <2> QED BY <1>3, <2>2 DEF Accounted
<1>9. \A x \in M :
        /\ Past(j, x.of.type, x.of.resolver) \/ x.of.type = TypeOf(j)
        /\ Past(j, x.of.type, x.of.resolver) =>
             \E i \in DOMAIN j.rows :
               j.rows[i].type = x.of.type /\ j.rows[i].resolver = x.of.resolver
  <2>1. TAKE x \in M
  <2>2. CASE x = e
    BY <1>2, <2>2
  <2>3. CASE x \in L
    BY <2>3 DEF Listed
  <2> QED BY <2>2, <2>3
<1> HIDE DEF M
<1>10. Listed(t, j, M)
  BY <1>6, <1>7, <1>8, <1>9 DEF Listed
<1> QED BY <1>10 DEF M

(* The rows of more resolvers or of another endpoint of the current type.  *)
LEMMA ListedGrows ==
  ASSUME opts \in Options, NEW t \in Task, NEW j \in Job, NEW k \in Job,
         NEW L \in SUBSET Entry, Listed(t, j, L),
         k.type = j.type, k.round \in 1..Rounds(t), k.endpoint \in 1..(Len(Endpoints) + 1),
         NEW s \in Seq(Row), k.rows = j.rows \o s,
         NEW labels \in Seq(Nat), RowKeys(s) = Keyed(TypeOf(j), labels),
         Settled(k, L) = Settled(j, L) \o labels,
         Closed(j) \subseteq Closed(k), Range(labels) \subseteq Closed(k),
         \A i \in DOMAIN s : Accounted(t, L, s[i]),
         \A e \in OfType(j, L) :
           e.of.resolver \in Closed(k) \ Closed(j) => e.of.resolver \in Range(labels)
  PROVE  Listed(t, k, L)
<1> DEFINE before == FlattenSeq(Blocks(L, j.type - 1))
           ty == TypeOf(j)
<1>1. /\ TypeOf(j) \in RecordType /\ Settled(j, L) \in Seq(Nat)
      /\ j.type - 1 \in Nat /\ j.type - 1 <= Len(opts.types)
  BY SettledFacts
<1>2. TypeOf(k) = TypeOf(j)
  BY DEF TypeOf
<1>3. \A y, r : Past(j, y, r) => Past(k, y, r)
  BY <1>2 DEF Past
<1>4. /\ Len(s) \in Nat /\ DOMAIN s = 1..Len(s)
      /\ Len(labels) = Len(s) /\ DOMAIN labels = 1..Len(s)
      /\ \A i \in 1..Len(s) : s[i].type = ty /\ s[i].resolver = labels[i]
  <2>1. /\ Len(s) \in Nat /\ Len(RowKeys(s)) = Len(s)
        /\ \A i \in 1..Len(s) : RowKeys(s)[i] = <<s[i].type, s[i].resolver>>
    BY RowFacts, RowKeysFacts
  <2>2. /\ Len(Keyed(ty, labels)) = Len(labels)
        /\ \A i \in 1..Len(labels) : Keyed(ty, labels)[i] = <<ty, labels[i]>>
    BY <1>1, KeyedFacts
  <2> HIDE DEF ty
  <2>3. Len(labels) = Len(s)
    BY <2>1, <2>2 DEF ty
  <2>4. RowKeys(s) = Keyed(ty, labels)
    BY DEF ty
  <2>5. \A i \in 1..Len(s) : <<s[i].type, s[i].resolver>> = <<ty, labels[i]>>
    BY <2>1, <2>2, <2>3, <2>4
  <2>6. DOMAIN s = 1..Len(s) /\ DOMAIN labels = 1..Len(labels)
    OBVIOUS
  <2> QED BY <2>1, <2>3, <2>5, <2>6
<1>5. /\ j.rows \in Seq(Row) /\ Len(j.rows) \in Nat /\ DOMAIN j.rows = 1..Len(j.rows)
      /\ k.rows \in Seq(Row) /\ DOMAIN k.rows = 1..(Len(j.rows) + Len(s))
      /\ \A i \in 1..(Len(j.rows) + Len(s)) :
           k.rows[i] = IF i <= Len(j.rows) THEN j.rows[i] ELSE s[i - Len(j.rows)]
  <2>1. j.rows \in Seq(Row) /\ k.rows \in Seq(Row)
    BY DEF Job
  <2>2. /\ Len(j.rows) \in Nat /\ DOMAIN j.rows = 1..Len(j.rows)
        /\ DOMAIN k.rows = 1..Len(k.rows)
    BY <2>1
  <2>3. /\ Len(j.rows \o s) = Len(j.rows) + Len(s)
        /\ \A i \in 1..(Len(j.rows) + Len(s)) :
             (j.rows \o s)[i] = IF i <= Len(j.rows) THEN j.rows[i] ELSE s[i - Len(j.rows)]
    BY <2>1, ConcatFacts
  <2> QED BY <2>1, <2>2, <2>3
<1>6. RowKeys(k.rows) = before \o Keyed(ty, Settled(k, L))
  <2>1. before \in Seq(Key)
    BY <1>1, BlocksFacts
  <2>2. Keyed(ty, Settled(j, L)) \in Seq(Key) /\ Keyed(ty, labels) \in Seq(Key)
    BY <1>1, KeyedFacts
  <2>3. RowKeys(k.rows) = RowKeys(j.rows) \o RowKeys(s)
    BY <1>5, RowFacts, RowKeysConcat
  <2>4. RowKeys(j.rows) = before \o Keyed(ty, Settled(j, L))
    BY DEF Listed
  <2>5. Keyed(ty, Settled(k, L)) = Keyed(ty, Settled(j, L)) \o Keyed(ty, labels)
    BY <1>1, KeyedConcat
  <2> HIDE DEF before, ty
  <2>6. (before \o Keyed(ty, Settled(j, L))) \o Keyed(ty, labels)
        = before \o (Keyed(ty, Settled(j, L)) \o Keyed(ty, labels))
    BY ONLY <2>1, <2>2, ConcatAssociative, SMTT(30)
  <2>7. RowKeys(s) = Keyed(ty, labels)
    BY DEF ty
  <2> QED BY <2>3, <2>4, <2>5, <2>6, <2>7
<1>7. \A i \in 1..Len(s) : Past(k, s[i].type, s[i].resolver)
  <2>1. TAKE i \in 1..Len(s)
  <2>2. labels[i] \in Closed(k)
    BY <1>4 DEF Range
  <2> QED BY <1>2, <1>4, <2>2 DEF Past
<1>8. \A i \in DOMAIN k.rows :
        Past(k, k.rows[i].type, k.rows[i].resolver) /\ Accounted(t, L, k.rows[i])
  <2>1. TAKE i \in DOMAIN k.rows
  <2>2. CASE i <= Len(j.rows)
    <3>1. i \in DOMAIN j.rows /\ k.rows[i] = j.rows[i]
      BY <1>4, <1>5, <2>2
    <3>2. Past(j, j.rows[i].type, j.rows[i].resolver) /\ Accounted(t, L, j.rows[i])
      BY <3>1 DEF Listed
    <3> QED BY <1>3, <3>1, <3>2
  <2>3. CASE ~(i <= Len(j.rows))
    <3>1. i \in 1..(Len(j.rows) + Len(s))
      BY <1>5, <2>1
    <3>2. i - Len(j.rows) \in 1..Len(s)
      BY <1>4, <1>5, <2>3, <3>1, SMTT(30)
    <3>3. k.rows[i] = s[i - Len(j.rows)]
      BY <1>5, <2>3, <3>1
    <3> QED BY <1>4, <1>7, <3>2, <3>3
  <2> QED BY <2>2, <2>3
<1>9. \A e \in L : Past(k, e.of.type, e.of.resolver) \/ e.of.type = TypeOf(k)
  BY <1>2, <1>3 DEF Listed
<1>10. \A e \in L : Past(k, e.of.type, e.of.resolver) =>
         \E i \in DOMAIN k.rows :
           k.rows[i].type = e.of.type /\ k.rows[i].resolver = e.of.resolver
  <2>1. SUFFICES ASSUME NEW e \in L, Past(k, e.of.type, e.of.resolver)
                 PROVE  \E i \in DOMAIN k.rows :
                          k.rows[i].type = e.of.type /\ k.rows[i].resolver = e.of.resolver
    OBVIOUS
  <2>2. CASE Past(j, e.of.type, e.of.resolver)
    <3>1. PICK i \in DOMAIN j.rows :
            j.rows[i].type = e.of.type /\ j.rows[i].resolver = e.of.resolver
      BY <2>2 DEF Listed
    <3>2. i \in DOMAIN k.rows /\ k.rows[i] = j.rows[i]
      BY <1>4, <1>5
    <3> QED BY <3>1, <3>2
  <2>3. CASE ~Past(j, e.of.type, e.of.resolver)
    <3>1. e.of.type = ty /\ e.of.resolver \in Closed(k) \ Closed(j)
      BY <1>2, <2>1, <2>3 DEF Past
    <3>2. e.of.resolver \in Range(labels)
      BY <3>1 DEF OfType
    <3>3. PICK i \in 1..Len(s) : labels[i] = e.of.resolver
      BY <1>4, <3>2 DEF Range
    <3>4. Len(j.rows) + i \in DOMAIN k.rows /\ k.rows[Len(j.rows) + i] = s[i]
      <4>1. /\ Len(j.rows) + i \in 1..(Len(j.rows) + Len(s))
            /\ ~(Len(j.rows) + i <= Len(j.rows)) /\ (Len(j.rows) + i) - Len(j.rows) = i
        BY <1>4, <1>5, SMTT(30)
      <4> QED BY <1>5, <4>1
    <3> QED BY <1>4, <3>1, <3>3, <3>4
  <2> QED BY <2>2, <2>3
<1> HIDE DEF before, ty
<1>11. k.type \in 1..Len(opts.types)
  BY DEF Listed
<1>12. RowKeys(k.rows) =
       FlattenSeq(Blocks(L, k.type - 1)) \o Keyed(TypeOf(k), Settled(k, L))
  BY <1>2, <1>6 DEF before, ty
<1> QED BY <1>8, <1>9, <1>10, <1>11, <1>12 DEF Listed

(* When no endpoint is left, the type is over.                             *)
LEMMA TypeIsOver ==
  ASSUME opts \in Options, NEW t \in Task, NEW j \in Job, NEW L \in SUBSET Entry,
         Listed(t, j, L), Asked(j), j.endpoint > Len(Endpoints)
  PROVE  RowKeys(j.rows) = FlattenSeq(Blocks(L, j.type))
<1> DEFINE m == j.type - 1
<1>1. m \in Nat /\ m < Len(opts.types) /\ m + 1 = j.type /\ m <= Len(opts.types)
  BY OptionsFacts, SMTT(30) DEF Listed, Job
<1>2. j.endpoint - 1 = Len(Endpoints)
  BY LabelsFacts DEF Listed
<1>3. SubSeq(Endpoints, 1, Len(Endpoints)) = Endpoints
  BY LabelsFacts
<1>4. Settled(j, L) = HeardOf(L, TypeOf(j)) \o Endpoints
  BY <1>2, <1>3 DEF Settled
<1>5. RowKeys(j.rows) = FlattenSeq(Blocks(L, m)) \o Keyed(TypeOf(j), Settled(j, L))
  BY DEF Listed
<1>6. FlattenSeq(Blocks(L, m + 1)) =
      FlattenSeq(Blocks(L, m))
        \o Keyed(opts.types[m + 1], HeardOf(L, opts.types[m + 1]) \o Endpoints)
  BY <1>1, BlocksFacts
<1> HIDE DEF m
<1> QED BY <1>1, <1>4, <1>5, <1>6 DEF TypeOf

(* The next type begins with the rows of those before.                     *)
LEMMA ListedNext ==
  ASSUME opts \in Options, NEW t \in Task, NEW j \in Job, NEW k \in Job,
         NEW L \in SUBSET Entry, Listed(t, j, L), Asked(j),
         j.endpoint > Len(Endpoints), j.type < Len(opts.types),
         k.type = j.type + 1, k.endpoint = 1, k.rows = j.rows, ~Asked(k),
         k.round \in 1..Rounds(t),
         \A e \in OfType(j, L) : e.of.resolver \in Closed(j)
  PROVE  Listed(t, k, L)
<1>1. /\ j.type \in 1..Len(opts.types) /\ Len(opts.types) \in Nat
      /\ k.type \in 1..Len(opts.types) /\ k.type - 1 = j.type
      /\ 1 \in 1..(Len(Endpoints) + 1)
  BY OptionsFacts, LabelsFacts, SMTT(30) DEF Listed
<1>2. /\ Closed(k) = {} /\ Settled(k, L) = <<>>
  BY DEF Closed, Settled
<1>3. \A ty, r : Past(j, ty, r) => Past(k, ty, r)
  <2>1. \A m \in 1..(j.type - 1) : m \in 1..(k.type - 1)
    BY <1>1
  <2>2. j.type \in 1..(k.type - 1)
    BY <1>1
  <2> QED BY <2>1, <2>2 DEF Past, TypeOf
<1>4. \A e \in L : Past(j, e.of.type, e.of.resolver)
  <2>1. TAKE e \in L
  <2>2. CASE e.of.type = TypeOf(j)
    BY <2>2 DEF OfType, Past
  <2>3. CASE e.of.type # TypeOf(j)
    BY <2>3 DEF Listed
  <2> QED BY <2>2, <2>3
<1>5. RowKeys(k.rows) =
      FlattenSeq(Blocks(L, k.type - 1)) \o Keyed(TypeOf(k), Settled(k, L))
  <2>1. RowKeys(k.rows) = FlattenSeq(Blocks(L, j.type))
    BY TypeIsOver
  <2>2. Keyed(TypeOf(k), <<>>) = <<>>
    BY DEF Keyed
  <2>3. j.type \in Nat /\ j.type <= Len(opts.types)
    BY <1>1
  <2>4. FlattenSeq(Blocks(L, j.type)) \in Seq(Key)
    BY <2>3, BlocksFacts
  <2>5. FlattenSeq(Blocks(L, j.type)) \o <<>> = FlattenSeq(Blocks(L, j.type))
    BY <2>4
  <2> QED BY <1>1, <1>2, <2>1, <2>2, <2>5
<1>6. \A i \in DOMAIN k.rows :
        Past(k, k.rows[i].type, k.rows[i].resolver) /\ Accounted(t, L, k.rows[i])
  BY <1>3 DEF Listed
<1>7. \A e \in L :
        /\ Past(k, e.of.type, e.of.resolver)
        /\ \E i \in DOMAIN k.rows :
             k.rows[i].type = e.of.type /\ k.rows[i].resolver = e.of.resolver
  BY <1>3, <1>4 DEF Listed
<1> QED BY <1>1, <1>5, <1>6, <1>7 DEF Listed

(* While the resolvers are asked.                                          *)
LEMMA TargetBegins ==
  ASSUME NEW t \in Task, NEW j \in Job, NEW k \in Job, NEW L,
         TargetOK(t, j, L), Asks(t), j.pc = "waiting", k.pc = "spawn",
         k.type = j.type, k.round = j.round, k.buckets = j.buckets,
         k.endpoint = j.endpoint, k.rows = j.rows
  PROVE  TargetOK(t, k, L)
<1>1. Listed(t, j, L) /\ Gathering(t, j, L) /\ ~Asked(j) /\ ~Asked(k)
  BY DEF TargetOK, Asked
<1>2. Listed(t, k, L)
  <2>1. k.round \in 1..Rounds(t)
    BY <1>1 DEF Listed
  <2> QED BY <1>1, <2>1, ListedSame
<1>3. OfType(k, L) = OfType(j, L)
  BY DEF OfType, TypeOf
<1>4. Gathering(t, k, L)
  BY <1>1, <1>3 DEF Gathering
<1> QED BY <1>1, <1>2, <1>4 DEF TargetOK

(* The round begins.                                                       *)
LEMMA TargetSpawns ==
  ASSUME NEW t \in Task, NEW j \in Job, NEW k \in Job, NEW L,
         TargetOK(t, j, L), j.pc = "spawn", k.pc = "joining",
         k.type = j.type, k.round = j.round, k.buckets = j.buckets,
         k.endpoint = j.endpoint, k.rows = j.rows,
         k.out = Resolvers, k.got = <<>>
  PROVE  TargetOK(t, k, L)
<1>1. Asks(t) /\ Listed(t, j, L) /\ Gathering(t, j, L) /\ ~Asked(j) /\ ~Asked(k)
  BY DEF TargetOK, Asked
<1>2. Listed(t, k, L)
  <2>1. k.round \in 1..Rounds(t)
    BY <1>1 DEF Listed
  <2> QED BY <1>1, <2>1, ListedSame
<1>3. OfType(k, L) = OfType(j, L)
  BY DEF OfType, TypeOf
<1>4. \A e \in OfType(j, L) : e.round < j.round
  BY <1>1 DEF Gathering
<1>5. {e \in OfType(k, L) : ~(e.round < k.round)} = {}
  BY <1>3, <1>4
<1>6. DOMAIN k.got = {}
  OBVIOUS
<1>7. {[round |-> k.round, of |-> k.got[i]] : i \in DOMAIN k.got} = {}
  BY <1>6
<1>8. Bucketing(k.buckets, {e \in OfType(k, L) : e.round < k.round}, Rounds(t))
  BY <1>1, <1>3 DEF Gathering
<1>9. k.endpoint = 1 /\ \A e \in OfType(k, L) : e.of.resolver \in Resolvers
  BY <1>1, <1>3 DEF Gathering
<1>10. Gathering(t, k, L)
  BY <1>5, <1>6, <1>7, <1>8, <1>9 DEF Gathering
<1> QED BY <1>1, <1>2, <1>10 DEF TargetOK

(* A query panicked: nothing came of it.                                   *)
LEMMA TargetLoses ==
  ASSUME NEW t \in Task, NEW j \in Job, NEW k \in Job, NEW L, NEW r,
         TargetOK(t, j, L), j.pc = "joining", k.pc = "joining",
         k.type = j.type, k.round = j.round, k.buckets = j.buckets,
         k.endpoint = j.endpoint, k.rows = j.rows,
         k.out = j.out \ {r}, k.got = j.got
  PROVE  TargetOK(t, k, L)
<1>1. Asks(t) /\ Listed(t, j, L) /\ Gathering(t, j, L) /\ ~Asked(j) /\ ~Asked(k)
  BY DEF TargetOK, Asked
<1>2. Listed(t, k, L)
  <2>1. k.round \in 1..Rounds(t)
    BY <1>1 DEF Listed
  <2> QED BY <1>1, <2>1, ListedSame
<1>3. OfType(k, L) = OfType(j, L) /\ TypeOf(k) = TypeOf(j)
  BY DEF OfType, TypeOf
<1>4. Gathering(t, k, L)
  BY <1>1, <1>3 DEF Gathering
<1> QED BY <1>1, <1>2, <1>4 DEF TargetOK

(* A query came back: the entry of the log is the observation collected.   *)
LEMMA TargetHears ==
  ASSUME opts \in Options, NEW t \in Task, NEW j \in Job, NEW k \in Job,
         NEW L \in SUBSET Entry, NEW o \in Answered,
         TargetOK(t, j, L), j.pc = "joining", k.pc = "joining",
         o.resolver \in j.out, o.type = TypeOf(j),
         k.type = j.type, k.round = j.round, k.buckets = j.buckets,
         k.endpoint = j.endpoint, k.rows = j.rows,
         k.out = j.out \ {o.resolver}, k.got = Append(j.got, o)
  PROVE  TargetOK(t, k, L \cup {[round |-> j.round, of |-> o]})
<1> DEFINE e == [round |-> j.round, of |-> o]
           M == L \cup {e}
<1>1. Asks(t) /\ Listed(t, j, L) /\ Gathering(t, j, L) /\ ~Asked(j) /\ ~Asked(k)
  BY DEF TargetOK, Asked
<1>2. j.round \in Nat \ {0}
  BY <1>1, OptionsFacts DEF Listed
<1>3. e \in Entry /\ e.of = o /\ e.round = j.round
  BY <1>2 DEF Entry
<1> HIDE DEF e
<1>4. Listed(t, j, M)
  BY <1>1, <1>3, ListedHears DEF Closed
<1>5. Listed(t, k, M)
  <2>1. k.round \in 1..Rounds(t)
    BY <1>1 DEF Listed
  <2> QED BY <1>1, <1>4, <2>1, ListedSame
<1>6. TypeOf(k) = TypeOf(j) /\ OfType(k, M) = OfType(j, L) \cup {e}
  BY <1>3 DEF OfType, TypeOf
<1>7. /\ j.got \in Seq(Answered) /\ Len(j.got) \in Nat /\ DOMAIN j.got = 1..Len(j.got)
      /\ DOMAIN k.got = 1..(Len(j.got) + 1) /\ k.got[Len(j.got) + 1] = o
      /\ \A i \in 1..Len(j.got) : k.got[i] = j.got[i]
  BY DEF Job
<1>8. /\ j.out \subseteq Resolvers
      /\ \A i \in 1..Len(j.got) : j.got[i].resolver \in Resolvers \ j.out
                                  /\ j.got[i].type = TypeOf(j)
      /\ \A i, m \in 1..Len(j.got) : j.got[i].resolver = j.got[m].resolver => i = m
      /\ {x \in OfType(j, L) : ~(x.round < j.round)} =
         {[round |-> j.round, of |-> j.got[i]] : i \in 1..Len(j.got)}
  BY <1>1, <1>7 DEF Gathering
<1>9. \A i \in DOMAIN k.got : i \in 1..Len(j.got) \/ i = Len(j.got) + 1
  BY <1>7
<1>10. \A i \in DOMAIN k.got : k.got[i].resolver \in Resolvers \ k.out
                              /\ k.got[i].type = TypeOf(k)
  BY <1>6, <1>7, <1>8, <1>9
<1>11. \A i, m \in DOMAIN k.got : k.got[i].resolver = k.got[m].resolver => i = m
  BY <1>7, <1>8, <1>9
<1>12. {x \in OfType(k, M) : ~(x.round < k.round)} =
       {x \in OfType(j, L) : ~(x.round < j.round)} \cup {e}
  <2>1. ~(e.round < j.round) /\ k.round = j.round
    BY <1>2, <1>3
  <2> QED BY <1>6, <2>1
<1>13. {[round |-> k.round, of |-> k.got[i]] : i \in DOMAIN k.got} =
       {[round |-> j.round, of |-> j.got[i]] : i \in 1..Len(j.got)} \cup {e}
  <2>1. DOMAIN k.got = 1..Len(j.got) \cup {Len(j.got) + 1}
    BY <1>7
  <2> QED BY <1>7, <2>1 DEF e
<1>14. {x \in OfType(k, M) : x.round < k.round} = {x \in OfType(j, L) : x.round < j.round}
  <2>1. ~(e.round < j.round) /\ k.round = j.round
    BY <1>2, <1>3
  <2> QED BY <1>6, <2>1
<1>15. \A x \in OfType(k, M) : x.of.resolver \in Resolvers
  BY <1>1, <1>3, <1>6, <1>8 DEF Gathering
<1>16. Gathering(t, k, M)
  <2>1. k.endpoint = 1 /\ k.out \subseteq Resolvers
    BY <1>1, <1>8 DEF Gathering
  <2>2. Bucketing(k.buckets, {x \in OfType(k, M) : x.round < k.round}, Rounds(t))
    BY <1>1, <1>14 DEF Gathering
  <2> HIDE DEF M
  <2> QED BY <1>8, <1>10, <1>11, <1>12, <1>13, <1>15, <2>1, <2>2 DEF Gathering
<1>17. TargetOK(t, k, M)
  BY <1>1, <1>5, <1>16 DEF TargetOK
<1> QED BY <1>17 DEF M, e

-----------------------------------------------------------------------------
(* The end of a round: what came in it, in order and then in the buckets.  *)
LEMMA SortedRows ==
  ASSUME NEW s \in Seq(Row), NEW ty,
         \A i \in DOMAIN s : s[i].type = ty,
         \A i, j \in DOMAIN s : s[i].resolver = s[j].resolver => i = j
  PROVE  /\ ByResolver(s) \in Seq(Row)
         /\ Range(ByResolver(s)) = Range(s)
         /\ RowKeys(ByResolver(s)) = Keyed(ty, Ascending({s[i].resolver : i \in DOMAIN s}))
<1> DEFINE r == ByResolver(s)
           labels == [i \in DOMAIN r |-> r[i].resolver]
<1>1. \A i \in DOMAIN s : s[i].resolver \in Nat
  <2>1. TAKE i \in DOMAIN s
  <2>2. s[i] \in Row
    BY <2>1
  <2> QED BY <2>2, RowFacts DEF Key
<1>2. /\ r \in Seq(Row) /\ Range(r) = Range(s)
      /\ labels = Ascending({s[i].resolver : i \in DOMAIN s})
  <2>1. /\ ByResolver(s) \in Seq(Row) /\ Range(ByResolver(s)) = Range(s)
        /\ [i \in DOMAIN ByResolver(s) |-> ByResolver(s)[i].resolver] =
           Ascending({s[i].resolver : i \in DOMAIN s})
    <3> HIDE DEF r, labels
    <3>1. \A i, j \in DOMAIN s : s[i].resolver = s[j].resolver => i = j
      OBVIOUS
    <3>2. ByResolver(s) \in Seq(Row)
      BY <1>1, <3>1, ByResolverFacts
    <3>3. Range(ByResolver(s)) = Range(s)
      BY <1>1, <3>1, ByResolverFacts
    <3>4. [i \in DOMAIN ByResolver(s) |-> ByResolver(s)[i].resolver] =
           Ascending({s[i].resolver : i \in DOMAIN s})
      BY ONLY <1>1, <3>1, s \in Seq(Row), ByResolverFacts
    <3> QED BY <3>2, <3>3, <3>4
  <2> QED BY <2>1
<1> HIDE DEF r
<1>3. \A i \in DOMAIN r : r[i].type = ty
  <2>1. TAKE i \in DOMAIN r
  <2>2. r[i] \in Range(s)
    BY <1>2, <2>1 DEF Range
  <2> QED BY <2>2 DEF Range
<1>4. RowKeys(r) = [i \in DOMAIN r |-> <<ty, r[i].resolver>>]
  BY <1>3 DEF RowKeys
<1>5. Keyed(ty, labels) = [i \in DOMAIN r |-> <<ty, r[i].resolver>>]
  BY DEF Keyed
<1>6. RowKeys(r) = Keyed(ty, labels)
  BY <1>4, <1>5
<1> HIDE DEF labels
<1>7. RowKeys(r) = Keyed(ty, Ascending({s[i].resolver : i \in DOMAIN s}))
  BY <1>2, <1>6
<1> QED BY <1>2, <1>7 DEF r

(* The client is through with the type: its rows are added.                *)
LEMMA ClientIsDone ==
  ASSUME opts \in Options, NEW t \in Task, NEW j \in Job, NEW k \in Job,
         NEW L \in SUBSET Entry, TargetOK(t, j, L), j.pc = "joining",
         k.pc = "encrypted", k.type = j.type, k.round = j.round,
         k.endpoint = j.endpoint, k.buckets = <<>>, k.got = <<>>,
         NEW s \in Seq(Row), k.rows = j.rows \o s,
         RowKeys(s) = Keyed(TypeOf(j), HeardOf(L, TypeOf(j))),
         \A i \in DOMAIN s : Accounted(t, L, s[i])
  PROVE  TargetOK(t, k, L)
<1> DEFINE labels == HeardOf(L, TypeOf(j))
<1>1. Asks(t) /\ Listed(t, j, L) /\ Gathering(t, j, L) /\ ~Asked(j) /\ Asked(k)
  BY DEF TargetOK, Asked
<1>2. j.endpoint = 1 /\ \A e \in OfType(j, L) : e.of.resolver \in Resolvers
  BY <1>1 DEF Gathering
<1>3. /\ labels \in Seq(Nat)
      /\ Range(labels) = {r \in Resolvers : AnswersIn(L, TypeOf(j), r) # {}}
  BY HeardFacts
<1>4. Closed(j) = {} /\ Closed(k) = Resolvers
  BY <1>1, <1>2 DEF Closed
<1>5. Settled(j, L) = <<>> /\ Settled(k, L) = labels
  <2>1. SubSeq(Endpoints, 1, 1 - 1) = <<>>
    BY SubSeqEmpty
  <2>2. labels \o <<>> = labels
    BY <1>3
  <2>3. TypeOf(k) = TypeOf(j)
    BY DEF TypeOf
  <2> QED BY <1>1, <1>2, <2>1, <2>2, <2>3 DEF Settled
<1>6. <<>> \o labels = labels
  BY <1>3
<1>7. \A e \in OfType(j, L) : e.of.resolver \in Range(labels)
  <2>1. TAKE e \in OfType(j, L)
  <2>2. e \in AnswersIn(L, TypeOf(j), e.of.resolver)
    BY DEF OfType, AnswersIn
  <2> QED BY <1>2, <1>3, <2>1, <2>2
<1>8. Listed(t, k, L)
  <2>1. k.endpoint \in 1..(Len(Endpoints) + 1) /\ k.round \in 1..Rounds(t)
    BY <1>1 DEF Listed
  <2>2. Settled(k, L) = Settled(j, L) \o labels
    BY <1>5, <1>6
  <2>3. RowKeys(s) = Keyed(TypeOf(j), labels)
    OBVIOUS
  <2>4. Closed(j) \subseteq Closed(k) /\ Range(labels) \subseteq Closed(k)
    BY <1>3, <1>4
  <2> HIDE DEF labels
  <2> QED BY <1>1, <1>3, <1>7, <2>1, <2>2, <2>3, <2>4, ListedGrows
<1>9. OfType(k, L) = OfType(j, L) /\ TypeOf(k) = TypeOf(j)
  BY DEF OfType, TypeOf
<1>10. ASSUME k.endpoint <= Len(Endpoints)
       PROVE  /\ Len(k.got) < Rounds(t)
              /\ \A i \in DOMAIN k.got : k.got[i].resolver = Endpoints[k.endpoint]
              /\ AnswersIn(L, TypeOf(k), Endpoints[k.endpoint]) =
                 {[round |-> i, of |-> k.got[i]] : i \in DOMAIN k.got}
  <2>1. DOMAIN k.got = {} /\ Len(k.got) = 0
    OBVIOUS
  <2>2. Rounds(t) \in Nat \ {0}
    BY OptionsFacts
  <2>3. Endpoints[k.endpoint] \notin Resolvers
    BY <1>2, <1>10, LabelsFacts
  <2>4. AnswersIn(L, TypeOf(k), Endpoints[k.endpoint]) = {}
    BY <1>2, <1>9, <2>3 DEF AnswersIn, OfType
  <2> QED BY <2>1, <2>2, <2>4
<1>11. Encrypting(t, k, L)
  BY <1>2, <1>9, <1>10 DEF Encrypting
<1> QED BY <1>1, <1>8, <1>11 DEF TargetOK

(* The round in order, and what the buckets hold with it.                  *)
LEMMA RoundFacts ==
  ASSUME opts \in Options, NEW t \in Task, NEW j \in Job, NEW L \in SUBSET Entry,
         TargetOK(t, j, L), j.pc = "joining"
  PROVE  LET s == ByResolver(j.got)
         IN  /\ s \in Seq(Answered) /\ Range(s) = Range(j.got)
             /\ Bucketing(Filled(j.buckets, s), OfType(j, L), Rounds(t))
             /\ \A e \in OfType(j, L) : e.round <= j.round
<1> DEFINE s == ByResolver(j.got)
           new == {[round |-> j.round, of |-> s[i]] : i \in DOMAIN s}
           old == {e \in OfType(j, L) : e.round < j.round}
<1>1. Asks(t) /\ Listed(t, j, L) /\ Gathering(t, j, L)
  BY DEF TargetOK, Asked
<1>2. j.round \in 1..Rounds(t) /\ Rounds(t) \in Nat
  BY <1>1, OptionsFacts DEF Listed
<1>3. j.got \in Seq(Answered) /\ \A i \in DOMAIN j.got : j.got[i].resolver \in Nat
  <2>1. j.got \in Seq(Answered)
    BY DEF Job
  <2>2. \A i \in DOMAIN j.got : j.got[i] \in Answered
    BY <2>1
  <2> QED BY <2>1, <2>2, AnsweredFacts
<1>4. \A i, m \in DOMAIN j.got : j.got[i].resolver = j.got[m].resolver => i = m
  BY <1>1 DEF Gathering
<1>5. /\ s \in Seq(Answered) /\ Range(s) = Range(j.got)
      /\ \A i, m \in DOMAIN s : s[i].resolver = s[m].resolver => i = m
  BY <1>3, <1>4, ByResolverFacts
<1> HIDE DEF s
<1>6. {e \in OfType(j, L) : ~(e.round < j.round)} = new
  <2>1. {e \in OfType(j, L) : ~(e.round < j.round)} =
        {[round |-> j.round, of |-> j.got[i]] : i \in DOMAIN j.got}
    BY <1>1 DEF Gathering
  <2>2. \A i \in DOMAIN s : \E m \in DOMAIN j.got : s[i] = j.got[m]
    <3>1. \A i \in DOMAIN s : s[i] \in Range(j.got)
      BY <1>5 DEF Range
    <3> QED BY <3>1 DEF Range
  <2>3. \A m \in DOMAIN j.got : \E i \in DOMAIN s : s[i] = j.got[m]
    <3>1. \A m \in DOMAIN j.got : j.got[m] \in Range(s)
      BY <1>5 DEF Range
    <3> QED BY <3>1 DEF Range
  <2>4. {[round |-> j.round, of |-> j.got[i]] : i \in DOMAIN j.got} = new
    BY <2>2, <2>3
  <2> QED BY <2>1, <2>4
<1>7. OfType(j, L) = old \cup new
  BY <1>6
<1>8. \A e \in OfType(j, L) : e.round <= j.round
  <2>1. TAKE e \in OfType(j, L)
  <2>2. CASE e \in old
    BY <1>2, <2>2 DEF OfType, Entry
  <2>3. CASE e \in new
    BY <1>2, <2>3
  <2> QED BY <1>7, <2>1, <2>2, <2>3
<1>9. Bucketing(j.buckets, old, Rounds(t))
  BY <1>1 DEF Gathering
<1>10. \A e \in old : e.round # j.round
  BY <1>2
<1> HIDE DEF old
<1>11. Bucketing(Filled(j.buckets, s), old \cup new, Rounds(t))
  BY <1>2, <1>5, <1>9, <1>10, FilledKeeps
<1> HIDE DEF new
<1> QED BY <1>5, <1>7, <1>8, <1>11 DEF s

(* A round of several, and not the last.                                   *)
LEMMA AnotherRound ==
  ASSUME opts \in Options, NEW t \in Task, NEW j \in Job, NEW k \in Job,
         NEW L \in SUBSET Entry, TargetOK(t, j, L), j.pc = "joining",
         Repeats(t), j.round < opts.count,
         k.pc = "spawn", k.type = j.type, k.round = j.round + 1,
         k.endpoint = j.endpoint, k.rows = j.rows,
         k.buckets = Filled(j.buckets, ByResolver(j.got))
  PROVE  TargetOK(t, k, L)
<1>1. Asks(t) /\ Listed(t, j, L) /\ Gathering(t, j, L) /\ ~Asked(j) /\ ~Asked(k)
  BY DEF TargetOK, Asked
<1>2. j.round \in 1..Rounds(t) /\ Rounds(t) = opts.count /\ opts.count \in Nat
  BY <1>1, OptionsFacts DEF Listed
<1>3. k.round \in 1..Rounds(t)
  BY <1>2
<1>4. Listed(t, k, L)
  BY <1>1, <1>3, ListedSame
<1>5. /\ Bucketing(k.buckets, OfType(j, L), Rounds(t))
      /\ \A e \in OfType(j, L) : e.round <= j.round
  BY RoundFacts
<1>6. OfType(k, L) = OfType(j, L)
  BY DEF OfType, TypeOf
<1>7. \A e \in OfType(k, L) : e.round < k.round
  <2>1. TAKE e \in OfType(k, L)
  <2>2. e.round \in Nat /\ e.round <= j.round
    BY <1>5, <1>6, <2>1 DEF OfType, Entry
  <2> QED BY <1>2, <2>2
<1>8. {e \in OfType(k, L) : e.round < k.round} = OfType(j, L)
  BY <1>6, <1>7
<1>9. k.endpoint = 1 /\ \A e \in OfType(k, L) : e.of.resolver \in Resolvers
  BY <1>1, <1>6 DEF Gathering
<1>10. Gathering(t, k, L)
  BY <1>5, <1>7, <1>8, <1>9 DEF Gathering
<1> QED BY <1>1, <1>4, <1>10 DEF TargetOK

(* The only round: its answers are the rows.                               *)
LEMMA OnlyRound ==
  ASSUME opts \in Options, NEW t \in Task, NEW j \in Job, NEW k \in Job,
         NEW L \in SUBSET Entry, TargetOK(t, j, L), j.pc = "joining", ~Repeats(t),
         k.pc = "encrypted", k.type = j.type, k.round = j.round,
         k.endpoint = j.endpoint, k.buckets = <<>>, k.got = <<>>,
         k.rows = j.rows \o ByResolver(j.got)
  PROVE  TargetOK(t, k, L)
<1> DEFINE s == ByResolver(j.got)
           ty == TypeOf(j)
<1>1. Listed(t, j, L) /\ Gathering(t, j, L)
  BY DEF TargetOK, Asked
<1>2. j.round = 1
  BY <1>1, OptionsFacts DEF Listed
<1>3. /\ \A i \in DOMAIN j.got : j.got[i].resolver \in Resolvers /\ j.got[i].type = ty
      /\ \A i, m \in DOMAIN j.got : j.got[i].resolver = j.got[m].resolver => i = m
      /\ {e \in OfType(j, L) : ~(e.round < j.round)} =
         {[round |-> j.round, of |-> j.got[i]] : i \in DOMAIN j.got}
  BY <1>1 DEF Gathering
<1>4. \A e \in OfType(j, L) : ~(e.round < j.round)
  BY <1>2 DEF OfType, Entry
<1>5. OfType(j, L) = {[round |-> j.round, of |-> j.got[i]] : i \in DOMAIN j.got}
  BY <1>3, <1>4
<1>6. j.got \in Seq(Row)
  <2>1. j.got \in Seq(Answered) /\ Answered \subseteq Row
    BY DEF Job, Row
  <2> QED BY <2>1, WiderSeq
<1>7. {j.got[i].resolver : i \in DOMAIN j.got} = {r \in Resolvers : AnswersIn(L, ty, r) # {}}
  <2>1. ASSUME NEW i \in DOMAIN j.got
        PROVE  j.got[i].resolver \in {r \in Resolvers : AnswersIn(L, ty, r) # {}}
    <3>1. [round |-> j.round, of |-> j.got[i]] \in OfType(j, L)
      BY <1>5
    <3>2. [round |-> j.round, of |-> j.got[i]] \in AnswersIn(L, ty, j.got[i].resolver)
      BY <3>1 DEF AnswersIn, OfType
    <3> QED BY <1>3, <3>2
  <2>2. ASSUME NEW r \in Resolvers, AnswersIn(L, ty, r) # {}
        PROVE  r \in {j.got[i].resolver : i \in DOMAIN j.got}
    <3>1. PICK e \in OfType(j, L) : e.of.resolver = r
      BY <2>2 DEF AnswersIn, OfType
    <3> QED BY <1>5, <3>1
  <2> QED BY <2>1, <2>2
<1>8. /\ s \in Seq(Row) /\ Range(s) = Range(j.got)
      /\ RowKeys(s) = Keyed(ty, Ascending({j.got[i].resolver : i \in DOMAIN j.got}))
  <2> HIDE DEF ty
  <2> QED BY <1>3, <1>6, SortedRows
<1>9. RowKeys(s) = Keyed(ty, HeardOf(L, ty))
  BY <1>7, <1>8 DEF HeardOf
<1>10. \A i \in DOMAIN j.got : Accounted(t, L, j.got[i])
  <2>1. TAKE i \in DOMAIN j.got
  <2>2. \A e \in AnswersIn(L, j.got[i].type, j.got[i].resolver) : e.of = j.got[i]
    <3>1. TAKE e \in AnswersIn(L, j.got[i].type, j.got[i].resolver)
    <3>2. e \in OfType(j, L) /\ e.of.resolver = j.got[i].resolver
      BY <1>3, <2>1, <3>1 DEF AnswersIn, OfType
    <3>3. PICK m \in DOMAIN j.got : e.of = j.got[m]
      BY <1>5, <3>2
    <3> QED BY <1>3, <2>1, <3>2, <3>3
  <2> QED BY <2>2 DEF Accounted
<1> HIDE DEF s
<1>11. \A i \in DOMAIN s : Accounted(t, L, s[i])
  <2>1. TAKE i \in DOMAIN s
  <2>2. s[i] \in Range(j.got)
    BY <1>8, <2>1 DEF Range
  <2> QED BY <1>10, <2>2 DEF Range
<1>12. k.rows = j.rows \o s
  BY DEF s
<1> QED BY <1>8, <1>9, <1>11, <1>12, ClientIsDone

(* The last round of several: a row for every bucket.                      *)
LEMMA LastRoundRows ==
  ASSUME opts \in Options, NEW t \in Task, NEW j \in Job,
         NEW L \in SUBSET Entry, TargetOK(t, j, L), j.pc = "joining", Repeats(t),
         NEW B, B = Filled(j.buckets, ByResolver(j.got)),
         NEW rows, rows = [i \in DOMAIN B |-> Aggregate(B[i], TypeOf(j))]
  PROVE  /\ ByResolver(rows) \in Seq(Row)
         /\ RowKeys(ByResolver(rows)) = Keyed(TypeOf(j), HeardOf(L, TypeOf(j)))
         /\ \A i \in DOMAIN ByResolver(rows) : Accounted(t, L, ByResolver(rows)[i])
<1> DEFINE s == ByResolver(rows)
           ty == TypeOf(j)
<1>1. Listed(t, j, L) /\ Gathering(t, j, L)
  BY DEF TargetOK, Asked
<1>2. Rounds(t) = opts.count /\ opts.count \in Nat /\ ty \in RecordType
  BY <1>1, OptionsFacts, SettledFacts
<1>3. Bucketing(B, OfType(j, L), opts.count)
  BY <1>2, RoundFacts
<1>4. \A e \in OfType(j, L) : e.of.resolver \in Resolvers
  BY <1>1 DEF Gathering
<1>5. \A r : Of(OfType(j, L), r) = AnswersIn(L, ty, r)
  BY DEF Of, OfType, AnswersIn
<1>6. /\ B \in Seq(Seq(Answered)) /\ Len(B) \in Nat /\ DOMAIN B = 1..Len(B)
      /\ \A i \in DOMAIN B : B[i] \in Seq(Answered)
  <2>1. B \in Seq(Seq(Answered))
    BY <1>3 DEF Bucketing
  <2> QED BY <2>1
<1>7. \A i \in DOMAIN B : /\ B[i] # <<>>
                          /\ Backed(B[i], AnswersIn(L, ty, B[i][1].resolver), opts.count)
  BY <1>3, <1>5 DEF Bucketing
<1> HIDE DEF ty
<1>8. ASSUME NEW i \in DOMAIN B
      PROVE  /\ rows[i] \in Row /\ rows[i].type = ty
             /\ rows[i].resolver = B[i][1].resolver
             /\ rows[i].resolver \in {r \in Resolvers : AnswersIn(L, ty, r) # {}}
             /\ Accounted(t, L, rows[i])
  <2> DEFINE b == B[i]
             E == AnswersIn(L, ty, b[1].resolver)
  <2>1. b \in Seq(Answered) /\ b # <<>> /\ Backed(b, E, opts.count)
    BY <1>6, <1>7
  <2>2. rows[i] = Aggregate(b, ty)
    BY DEF ty
  <2>3. 1 \in DOMAIN b
    BY <2>1
  <2> HIDE DEF b, E
  <2>4. rows[i] \in Row
    BY <1>2, <2>1, <2>2, AggregateIsRow
  <2>5. /\ rows[i].resolver = b[1].resolver /\ rows[i].type = ty
        /\ rows[i].failures \in Nat /\ Exact(rows[i], E)
    <3>1. opts.count <= opts.count
      BY <1>2
    <3> QED BY <1>2, <2>1, <2>2, <3>1, AggregateExact
  <2>6. /\ IsFiniteSet(E) /\ Cardinality(E) <= opts.count
        /\ \A m \in DOMAIN b : \E e \in E : e.of = b[m]
    BY <1>2, <2>1, BackedFacts
  <2>7. PICK e \in E : e.of = b[1]
    BY <2>3, <2>6
  <2>8. e \in OfType(j, L) /\ e.of.resolver = b[1].resolver
    BY <2>7 DEF E, AnswersIn, OfType, ty
  <2>9. rows[i].resolver \in {r \in Resolvers : AnswersIn(L, ty, r) # {}}
    BY <1>4, <2>5, <2>7, <2>8 DEF E
  <2>10. Accounted(t, L, rows[i])
    BY <2>5, <2>6 DEF Accounted, E
  <2> QED BY <2>4, <2>5, <2>9, <2>10 DEF b
<1>9. rows \in Seq(Row) /\ DOMAIN rows = DOMAIN B
  <2>1. rows \in [1..Len(B) -> Row]
    BY <1>6, <1>8
  <2> QED BY <1>6, <2>1
<1>10. \A i, m \in DOMAIN rows : rows[i].resolver = rows[m].resolver => i = m
  BY <1>3, <1>8, <1>9 DEF Bucketing
<1>11. {rows[i].resolver : i \in DOMAIN rows} = {r \in Resolvers : AnswersIn(L, ty, r) # {}}
  <2>1. ASSUME NEW r \in Resolvers, AnswersIn(L, ty, r) # {}
        PROVE  r \in {rows[i].resolver : i \in DOMAIN rows}
    <3>1. PICK e \in OfType(j, L) : e.of.resolver = r
      BY <2>1 DEF AnswersIn, OfType, ty
    <3>2. PICK i \in DOMAIN B : B[i][1].resolver = r
      BY <1>3, <3>1 DEF Bucketing
    <3> QED BY <1>8, <1>9, <3>2
  <2> QED BY <1>8, <1>9, <2>1
<1>12. /\ s \in Seq(Row) /\ Range(s) = Range(rows)
       /\ RowKeys(s) = Keyed(ty, Ascending({rows[i].resolver : i \in DOMAIN rows}))
  <2>1. \A i \in DOMAIN rows : rows[i].type = ty
    BY <1>8, <1>9
  <2> QED BY ONLY <1>9, <1>10, <2>1, SortedRows
<1>13. RowKeys(s) = Keyed(ty, HeardOf(L, ty))
  BY <1>11, <1>12 DEF HeardOf
<1>14. s \in Seq(Row) /\ Range(s) = Range(rows)
  BY <1>12
<1> HIDE DEF s
<1>15. \A i \in DOMAIN s : Accounted(t, L, s[i])
  <2>1. TAKE i \in DOMAIN s
  <2>2. s[i] \in Range(rows)
    BY <1>14, <2>1 DEF Range
  <2>3. PICK m \in DOMAIN B : s[i] = rows[m]
    BY <1>9, <2>2 DEF Range
  <2> QED BY <1>8, <2>3
<1> QED BY <1>13, <1>14, <1>15 DEF ty, s

(* The last of several rounds: each bucket becomes a row.                  *)
LEMMA LastRound ==
  ASSUME opts \in Options, NEW t \in Task, NEW j \in Job, NEW k \in Job,
         NEW L \in SUBSET Entry, TargetOK(t, j, L), j.pc = "joining", Repeats(t),
         NEW B, B = Filled(j.buckets, ByResolver(j.got)),
         NEW rows, rows = [i \in DOMAIN B |-> Aggregate(B[i], TypeOf(j))],
         k.pc = "encrypted", k.type = j.type, k.round = j.round,
         k.endpoint = j.endpoint, k.buckets = <<>>, k.got = <<>>,
         k.rows = j.rows \o ByResolver(rows)
  PROVE  TargetOK(t, k, L)
<1>1. /\ ByResolver(rows) \in Seq(Row)
      /\ RowKeys(ByResolver(rows)) = Keyed(TypeOf(j), HeardOf(L, TypeOf(j)))
      /\ \A i \in DOMAIN ByResolver(rows) : Accounted(t, L, ByResolver(rows)[i])
  BY LastRoundRows
<1> QED BY <1>1, ClientIsDone

(* A bucket whose entries are numbered as it is.                           *)
LEMMA BackedInPlace ==
  ASSUME NEW b \in Seq(Answered), NEW n \in Nat, Len(b) <= n
  PROVE  Backed(b, {[round |-> i, of |-> b[i]] : i \in DOMAIN b}, n)
<1> DEFINE at == [i \in DOMAIN b |-> i]
<1>1. Len(b) \in Nat /\ DOMAIN b = 1..Len(b)
  OBVIOUS
<1>2. at \in [DOMAIN b -> 1..n] /\ IsInjective(at)
  BY <1>1 DEF IsInjective
<1>3. EntriesAt(b, at, DOMAIN b) = {[round |-> i, of |-> b[i]] : i \in DOMAIN b}
  BY DEF EntriesAt
<1> HIDE DEF at
<1> QED BY <1>2, <1>3 DEF Backed

(* An endpoint answers: the log of it and its bucket are one.              *)
Logged(j, L, o) == L \cup {[round |-> Len(j.got) + 1, of |-> o]}

LEMMA EndpointAnswers ==
  ASSUME opts \in Options, NEW t \in Task, NEW j \in Job,
         NEW L \in SUBSET Entry, NEW o \in Answered,
         TargetOK(t, j, L), j.pc = "encrypted", j.endpoint <= Len(Endpoints),
         o.resolver = Endpoints[j.endpoint], o.type = TypeOf(j)
  PROVE  /\ Listed(t, j, Logged(j, L, o)) /\ Logged(j, L, o) \in SUBSET Entry
         /\ Append(j.got, o) \in Seq(Answered) /\ Len(Append(j.got, o)) \in 1..Rounds(t)
         /\ DOMAIN Append(j.got, o) = 1..Len(Append(j.got, o))
         /\ \A i \in DOMAIN Append(j.got, o) : Append(j.got, o)[i].resolver = Endpoints[j.endpoint]
         /\ AnswersIn(Logged(j, L, o), TypeOf(j), Endpoints[j.endpoint]) =
            {[round |-> i, of |-> Append(j.got, o)[i]] : i \in DOMAIN Append(j.got, o)}
         /\ \A e \in OfType(j, Logged(j, L, o)) :
              \/ e.of.resolver \in Resolvers
              \/ \E m \in 1..Len(Endpoints) : m <= j.endpoint /\ e.of.resolver = Endpoints[m]
<1> DEFINE M == Logged(j, L, o)
           b == Append(j.got, o)
           e == [round |-> Len(j.got) + 1, of |-> o]
           here == Endpoints[j.endpoint]
<1>1. Listed(t, j, L) /\ Encrypting(t, j, L) /\ Asked(j)
  BY DEF TargetOK, Asked
<1>2. j.endpoint \in 1..Len(Endpoints) /\ Rounds(t) \in Nat
  BY <1>1, LabelsFacts, OptionsFacts DEF Listed
<1>3. /\ j.got \in Seq(Answered) /\ Len(j.got) \in Nat /\ DOMAIN j.got = 1..Len(j.got)
      /\ b \in Seq(Answered) /\ Len(b) = Len(j.got) + 1 /\ DOMAIN b = 1..(Len(j.got) + 1)
      /\ b[Len(j.got) + 1] = o /\ \A i \in 1..Len(j.got) : b[i] = j.got[i]
  BY DEF Job
<1>4. /\ Len(j.got) < Rounds(t)
      /\ \A i \in DOMAIN j.got : j.got[i].resolver = here
      /\ AnswersIn(L, TypeOf(j), here) = {[round |-> i, of |-> j.got[i]] : i \in DOMAIN j.got}
  BY <1>1 DEF Encrypting
<1>5. e \in Entry /\ e.of = o
  BY <1>3 DEF Entry
<1>6. M = L \cup {e}
  BY DEF Logged
<1> HIDE DEF M, b
<1>7. here \notin Closed(j)
  <2>1. here \notin Resolvers
    BY <1>2, LabelsFacts
  <2>2. \A m \in 1..(j.endpoint - 1) : m \in 1..Len(Endpoints) /\ m # j.endpoint
    BY <1>2, LabelsFacts
  <2>3. \A m \in 1..(j.endpoint - 1) : Endpoints[m] # here
    BY <1>2, <2>2, LabelsFacts
  <2> QED BY <2>1, <2>3 DEF Closed
<1>8. Listed(t, j, M)
  <2> HIDE DEF e
  <2> QED BY <1>1, <1>5, <1>6, <1>7, ListedHears
<1>9. \A i \in DOMAIN b : b[i].resolver = here
  <2>1. \A i \in DOMAIN b : i \in 1..Len(j.got) \/ i = Len(j.got) + 1
    BY <1>3
  <2> QED BY <1>3, <1>4, <2>1
<1>10. AnswersIn(M, TypeOf(j), here) = {[round |-> i, of |-> b[i]] : i \in DOMAIN b}
  <2>1. AnswersIn(M, TypeOf(j), here) = AnswersIn(L, TypeOf(j), here) \cup {e}
    BY <1>5, <1>6 DEF AnswersIn
  <2>2. DOMAIN b = DOMAIN j.got \cup {Len(j.got) + 1}
    BY <1>3
  <2>3. {[round |-> i, of |-> b[i]] : i \in DOMAIN b} =
        {[round |-> i, of |-> j.got[i]] : i \in DOMAIN j.got} \cup {e}
    BY <1>3, <2>2
  <2> QED BY <1>4, <2>1, <2>3
<1>11. \A x \in OfType(j, M) :
         \/ x.of.resolver \in Resolvers
         \/ \E m \in 1..Len(Endpoints) : m <= j.endpoint /\ x.of.resolver = Endpoints[m]
  <2>1. TAKE x \in OfType(j, M)
  <2>2. CASE x = e
    <3>1. j.endpoint <= j.endpoint
      BY <1>2
    <3> QED BY <1>2, <1>5, <2>2, <3>1
  <2>3. CASE x \in L
    BY <1>1, <2>1, <2>3 DEF Encrypting, OfType
  <2> QED BY <1>6, <2>1, <2>2, <2>3 DEF OfType
<1>12. Len(b) \in 1..Rounds(t)
  BY <1>2, <1>3, <1>4
<1> HIDE DEF e
<1>13. M \in SUBSET Entry
  BY <1>5, <1>6
<1>14. DOMAIN b = 1..Len(b)
  BY <1>3
<1> QED BY <1>3, <1>8, <1>9, <1>10, <1>11, <1>12, <1>13, <1>14 DEF M, b

(* It is asked again.                                                      *)
LEMMA EndpointAgain ==
  ASSUME opts \in Options, NEW t \in Task, NEW j \in Job, NEW k \in Job,
         NEW L \in SUBSET Entry, NEW o \in Answered, NEW M,
         TargetOK(t, j, L), j.pc = "encrypted", j.endpoint <= Len(Endpoints),
         o.resolver = Endpoints[j.endpoint], o.type = TypeOf(j),
         M = Logged(j, L, o),
         k.pc = "encrypted", k.got = Append(j.got, o), Len(k.got) < Rounds(t),
         k.type = j.type, k.round = j.round, k.endpoint = j.endpoint,
         k.buckets = j.buckets, k.rows = j.rows
  PROVE  TargetOK(t, k, M)
<1>1. /\ Listed(t, j, M)
      /\ \A i \in DOMAIN k.got : k.got[i].resolver = Endpoints[j.endpoint]
      /\ AnswersIn(M, TypeOf(j), Endpoints[j.endpoint]) =
         {[round |-> i, of |-> k.got[i]] : i \in DOMAIN k.got}
      /\ \A e \in OfType(j, M) :
           \/ e.of.resolver \in Resolvers
           \/ \E m \in 1..Len(Endpoints) : m <= j.endpoint /\ e.of.resolver = Endpoints[m]
  BY EndpointAnswers
<1>2. Asks(t) /\ Encrypting(t, j, L) /\ Asked(j) /\ Asked(k)
  BY DEF TargetOK, Asked
<1>3. OfType(k, M) = OfType(j, M) /\ TypeOf(k) = TypeOf(j)
  BY DEF OfType, TypeOf
<1>4. k.round \in 1..Rounds(t) /\ j.endpoint \in 1..(Len(Endpoints) + 1)
  BY <1>1 DEF Listed
<1>5. Listed(t, k, M)
  BY <1>1, <1>2, <1>4, ListedSame
<1>6. ~(k.endpoint > Len(Endpoints)) /\ k.buckets = <<>>
  BY <1>2, <1>4, LabelsFacts DEF Encrypting
<1>7. Encrypting(t, k, M)
  BY <1>1, <1>3, <1>6 DEF Encrypting
<1> QED BY <1>2, <1>5, <1>7 DEF TargetOK

(* It was asked often enough: its row is added.                            *)
RowOf(t, j, o) ==
  IF Repeats(t) THEN Aggregate(Append(j.got, o), TypeOf(j)) ELSE o

LEMMA EndpointIsDone ==
  ASSUME opts \in Options, NEW t \in Task, NEW j \in Job, NEW k \in Job,
         NEW L \in SUBSET Entry, NEW o \in Answered,
         TargetOK(t, j, L), j.pc = "encrypted", j.endpoint <= Len(Endpoints),
         o.resolver = Endpoints[j.endpoint], o.type = TypeOf(j),
         ~(Len(Append(j.got, o)) < Rounds(t)),
         k.pc = "encrypted", k.got = <<>>,
         k.type = j.type, k.round = j.round, k.endpoint = j.endpoint + 1,
         k.buckets = j.buckets, k.rows = Append(j.rows, RowOf(t, j, o))
  PROVE  TargetOK(t, k, Logged(j, L, o))
<1> DEFINE M == Logged(j, L, o)
           b == Append(j.got, o)
           row == RowOf(t, j, o)
<1> HIDE DEF M, b, row
<1>0. /\ b = Append(j.got, o) /\ ~(Len(b) < Rounds(t)) /\ k.rows = Append(j.rows, row)
      /\ row = IF Repeats(t) THEN Aggregate(b, TypeOf(j)) ELSE o
  BY DEF b, row, RowOf
<1> DEFINE here == Endpoints[j.endpoint]
           ty == TypeOf(j)
           E == {[round |-> i, of |-> b[i]] : i \in DOMAIN b}
<1>1. /\ Listed(t, j, M) /\ M \in SUBSET Entry
      /\ b \in Seq(Answered) /\ Len(b) \in 1..Rounds(t) /\ DOMAIN b = 1..Len(b)
      /\ \A i \in DOMAIN b : b[i].resolver = here
      /\ AnswersIn(M, ty, here) = E
      /\ \A e \in OfType(j, M) :
           \/ e.of.resolver \in Resolvers
           \/ \E m \in 1..Len(Endpoints) : m <= j.endpoint /\ e.of.resolver = Endpoints[m]
  BY EndpointAnswers DEF M, b
<1>2. Asks(t) /\ Encrypting(t, j, L) /\ Asked(j) /\ Asked(k)
  BY DEF TargetOK, Asked
<1>3. /\ j.endpoint \in 1..Len(Endpoints) /\ here \in Nat /\ here \notin Resolvers
      /\ Len(Endpoints) \in Nat
  BY <1>1, LabelsFacts DEF Listed
<1>4. /\ Rounds(t) \in Nat \ {0} /\ ty \in RecordType /\ opts.count \in Nat
      /\ Rounds(t) <= opts.count
      /\ ~Repeats(t) => Rounds(t) = 1
  BY <1>1, OptionsFacts, SettledFacts
<1>5. Len(b) = Rounds(t) /\ 1 \in DOMAIN b
  BY <1>0, <1>1, <1>4
<1> HIDE DEF ty, here, E
<1>6. /\ row \in Row /\ row.type = ty /\ row.resolver = here /\ Accounted(t, M, row)
  <2>1. CASE Repeats(t)
    <3>1. row = Aggregate(b, ty)
      BY <1>0, <2>1 DEF ty
    <3>2. b # <<>> /\ b[1].resolver = here
      BY <1>1, <1>5
    <3>3. Len(b) <= Rounds(t)
      BY <1>1, <1>4
    <3>4. Backed(b, E, Rounds(t))
      BY <1>1, <1>4, <3>3, BackedInPlace DEF E
    <3>5. /\ row.resolver = here /\ row.type = ty
          /\ row.failures \in Nat /\ Exact(row, E)
      <4>1. b \in Seq(Answered) /\ Rounds(t) \in Nat
        BY <1>1, <1>4
      <4> QED BY ONLY <1>4, <3>1, <3>2, <3>4, <4>1, AggregateExact
    <3>6. IsFiniteSet(E) /\ Cardinality(E) = Len(b)
      BY <1>1, <1>4, <3>4, BackedFacts
    <3>7. Cardinality(E) <= opts.count
      BY <1>4, <1>5, <3>6
    <3>8. row \in Row
      BY <1>1, <1>4, <3>1, <3>2, AggregateIsRow
    <3> QED BY <1>1, <2>1, <3>5, <3>6, <3>7, <3>8 DEF Accounted
  <2>2. CASE ~Repeats(t)
    <3>1. row = o /\ o \in Row
      BY <1>0, <2>2 DEF Row
    <3>2. row.type = ty /\ row.resolver = here
      BY <3>1 DEF ty, here
    <3>3. Len(b) = 1 /\ b[1] = o
      <4>1. j.got \in Seq(Answered) /\ Len(b) = Len(j.got) + 1 /\ b[Len(j.got) + 1] = o
        <5>1. j.got \in Seq(Answered)
          BY DEF Job
        <5> QED BY <1>0, <5>1
      <4>2. Len(j.got) \in Nat /\ Len(b) = 1
        BY <1>4, <1>5, <2>2, <4>1
      <4>3. Len(j.got) + 1 = 1
        BY <4>1, <4>2
      <4> QED BY <4>1, <4>2, <4>3
    <3>4. \A e \in E : e.of = row
      <4>1. \A i \in DOMAIN b : i = 1
        BY <1>1, <3>3
      <4> QED BY <3>1, <3>3, <4>1 DEF E
    <3> QED BY <1>1, <2>2, <3>1, <3>2, <3>4 DEF Accounted
  <2> QED BY <2>1, <2>2
<1>7. Listed(t, k, M)
  <2> DEFINE s == <<row>>
             labels == <<here>>
  <2>1. s \in Seq(Row) /\ DOMAIN s = {1} /\ s[1] = row
    BY <1>6
  <2>2. labels \in Seq(Nat) /\ Range(labels) = {here} /\ DOMAIN labels = {1} /\ labels[1] = here
    BY <1>3 DEF Range
  <2>3. k.rows = j.rows \o s
    <3>1. j.rows \in Seq(Row)
      BY DEF Job
    <3>2. row \in Row
      BY <1>6
    <3>3. Append(j.rows, row) = j.rows \o <<row>>
      BY ONLY <3>1, <3>2
    <3>4. k.rows = Append(j.rows, row)
      BY <1>0
    <3> QED BY <3>3, <3>4
  <2>4. k.round \in 1..Rounds(t) /\ k.endpoint \in 1..(Len(Endpoints) + 1)
    <3>1. j.round \in 1..Rounds(t)
      BY <1>1 DEF Listed
    <3> QED BY <1>3, <3>1
  <2>5. RowKeys(s) = Keyed(ty, labels)
    BY <1>6, <2>1, <2>2 DEF RowKeys, Keyed
  <2>6. Settled(k, M) = Settled(j, M) \o labels
    <3> DEFINE n == j.endpoint - 1
               h == HeardOf(M, ty)
               u == SubSeq(Endpoints, 1, n)
               v == SubSeq(Endpoints, 1, n + 1)
    <3>1. n \in Nat /\ n + 1 = j.endpoint /\ k.endpoint - 1 = n + 1 /\ n + 1 <= Len(Endpoints)
      BY <1>3
    <3>2. Endpoints \in Seq(Nat) /\ \A i \in 1..(n + 1) : Endpoints[i] \in Nat
      BY <1>3, <3>1, LabelsFacts
    <3>3. u \in Seq(Nat) /\ Len(u) = n /\ \A i \in 1..n : u[i] = Endpoints[i]
      BY <3>1, <3>2, SubSeqProperties, SMTT(30)
    <3>4. v \in Seq(Nat) /\ Len(v) = n + 1 /\ \A i \in 1..(n + 1) : v[i] = Endpoints[i]
      BY <3>1, <3>2, SubSeqProperties, SMTT(30)
    <3>5. Settled(j, M) = h \o u
      BY <1>2 DEF Settled, ty
    <3>6. Settled(k, M) = h \o v
      BY <1>2, <3>1 DEF Settled, ty, TypeOf
    <3>7. h \in Seq(Nat)
      BY HeardFacts
    <3>8. Endpoints[n + 1] = here
      BY <3>1 DEF here
    <3> HIDE DEF n, h, u, v, labels
    <3>9. v = u \o labels
      <4>1. /\ u \o labels \in Seq(Nat) /\ Len(u \o labels) = n + 1
            /\ \A i \in 1..(n + 1) : (u \o labels)[i] = IF i <= n THEN u[i] ELSE labels[i - n]
        <5>1. Len(labels) = 1 /\ labels \in Seq(Nat) /\ u \in Seq(Nat)
          BY <2>2, <3>3
        <5>2. /\ u \o labels \in Seq(Nat) /\ Len(u \o labels) = Len(u) + Len(labels)
              /\ \A i \in 1..(Len(u) + Len(labels)) :
                   (u \o labels)[i] = IF i <= Len(u) THEN u[i] ELSE labels[i - Len(u)]
          BY ONLY <5>1, ConcatFacts
        <5> QED BY <3>3, <5>1, <5>2
      <4>2. \A i \in 1..(n + 1) : v[i] = (u \o labels)[i]
        <5>1. TAKE i \in 1..(n + 1)
        <5>2. CASE i <= n
          <6>1. i \in 1..n
            BY <3>1, <5>1, <5>2
          <6> QED BY <3>3, <3>4, <4>1, <5>1, <5>2, <6>1
        <5>3. CASE ~(i <= n)
          <6>1. i = n + 1 /\ i - n = 1
            BY <3>1, <5>1, <5>3
          <6> QED BY <2>2, <3>4, <3>8, <4>1, <5>1, <5>3, <6>1
        <5> QED BY <5>2, <5>3
      <4> QED BY <3>4, <4>1, <4>2, SeqEqual
    <3>10. (h \o u) \o labels = h \o (u \o labels)
      <4>1. h \in Seq(Nat) /\ u \in Seq(Nat) /\ labels \in Seq(Nat)
        BY <2>2, <3>3, <3>7
      <4> QED BY ONLY <4>1, ConcatAssociative, SMTT(30)
    <3> QED BY <3>5, <3>6, <3>9, <3>10
  <2>7. Closed(k) = Closed(j) \cup {here}
    <3>1. 1..(k.endpoint - 1) = 1..(j.endpoint - 1) \cup {j.endpoint}
      BY <1>3
    <3> QED BY <1>2, <3>1 DEF Closed, here
  <2>8. \A i \in DOMAIN s : Accounted(t, M, s[i])
    BY <1>6, <2>1
  <2>9. \A e \in OfType(j, M) :
          e.of.resolver \in Closed(k) \ Closed(j) => e.of.resolver \in Range(labels)
    BY <2>2, <2>7
  <2> HIDE DEF s, labels
  <2>10. /\ Closed(j) \subseteq Closed(k) /\ Range(labels) \subseteq Closed(k)
    BY <2>2, <2>7
  <2>11. RowKeys(s) = Keyed(TypeOf(j), labels)
    BY <2>5 DEF ty
  <2> QED BY <1>1, <2>1, <2>2, <2>3, <2>4, <2>6, <2>8, <2>9, <2>10, <2>11, ListedGrows
<1>8. OfType(k, M) = OfType(j, M) /\ TypeOf(k) = ty
  BY DEF OfType, TypeOf, ty
<1>9. \A e \in OfType(k, M) :
        \/ e.of.resolver \in Resolvers
        \/ \E m \in 1..Len(Endpoints) : m <= k.endpoint /\ e.of.resolver = Endpoints[m]
  <2>1. \A m \in 1..Len(Endpoints) : m <= j.endpoint => m <= k.endpoint
    BY <1>3
  <2>2. \A e \in OfType(j, M) :
          \/ e.of.resolver \in Resolvers
          \/ \E m \in 1..Len(Endpoints) : m <= j.endpoint /\ e.of.resolver = Endpoints[m]
    BY <1>1
  <2> QED BY ONLY <1>8, <2>1, <2>2
<1>10. ASSUME k.endpoint <= Len(Endpoints)
       PROVE  /\ Len(k.got) < Rounds(t)
              /\ \A i \in DOMAIN k.got : k.got[i].resolver = Endpoints[k.endpoint]
              /\ AnswersIn(M, TypeOf(k), Endpoints[k.endpoint]) =
                 {[round |-> i, of |-> k.got[i]] : i \in DOMAIN k.got}
  <2>1. DOMAIN k.got = {} /\ Len(k.got) = 0
    OBVIOUS
  <2>2. Endpoints[k.endpoint] \notin Resolvers /\ k.endpoint \in 1..Len(Endpoints)
    BY <1>3, <1>10, LabelsFacts
  <2>3. \A m \in 1..Len(Endpoints) : m <= j.endpoint => Endpoints[m] # Endpoints[k.endpoint]
    BY <1>3, <2>2, LabelsFacts
  <2>4. AnswersIn(M, TypeOf(k), Endpoints[k.endpoint]) = {}
    <3>1. SUFFICES ASSUME NEW e \in AnswersIn(M, TypeOf(k), Endpoints[k.endpoint]) PROVE FALSE
      OBVIOUS
    <3>2. e \in OfType(j, M) /\ e.of.resolver = Endpoints[k.endpoint]
      BY <1>8, <3>1 DEF AnswersIn, OfType
    <3>3. \/ e.of.resolver \in Resolvers
          \/ \E m \in 1..Len(Endpoints) : m <= j.endpoint /\ e.of.resolver = Endpoints[m]
      BY <1>1, <3>2
    <3> QED BY <2>2, <2>3, <3>2, <3>3
  <2> QED BY <1>4, <2>1, <2>4
<1>11. Encrypting(t, k, M)
  <2>1. k.buckets = <<>>
    BY <1>2 DEF Encrypting
  <2> QED BY <1>9, <1>10, <2>1 DEF Encrypting
<1>12. TargetOK(t, k, M)
  BY <1>2, <1>7, <1>11 DEF TargetOK
<1> QED BY <1>12 DEF M

-----------------------------------------------------------------------------
(* No endpoint is left: the next type, or the end.                         *)
LEMMA AnotherType ==
  ASSUME opts \in Options, NEW t \in Task, NEW j \in Job, NEW k \in Job,
         NEW L \in SUBSET Entry, TargetOK(t, j, L), j.pc = "encrypted",
         j.endpoint > Len(Endpoints), j.type # Len(opts.types),
         k.pc = "spawn", k.type = j.type + 1, k.round = 1, k.endpoint = 1,
         k.buckets = j.buckets, k.rows = j.rows
  PROVE  TargetOK(t, k, L)
<1>1. /\ Asks(t) /\ Listed(t, j, L) /\ Encrypting(t, j, L) /\ Asked(j) /\ ~Asked(k)
  BY DEF TargetOK, Asked
<1>2. /\ j.type \in 1..Len(opts.types) /\ Len(opts.types) \in Nat
      /\ j.endpoint = Len(Endpoints) + 1 /\ Len(Endpoints) \in Nat
      /\ Rounds(t) \in Nat \ {0}
  BY <1>1, OptionsFacts, LabelsFacts DEF Listed
<1>3. \A e \in OfType(j, L) : e.of.resolver \in Closed(j)
  <2>1. TAKE e \in OfType(j, L)
  <2>2. CASE e.of.resolver \in Resolvers
    BY <1>1, <2>2 DEF Closed
  <2>3. ASSUME NEW m \in 1..Len(Endpoints), e.of.resolver = Endpoints[m]
        PROVE  e.of.resolver \in Closed(j)
    <3>1. m \in 1..(j.endpoint - 1)
      BY <1>2
    <3> QED BY <1>1, <2>3, <3>1 DEF Closed
  <2> QED BY <1>1, <2>1, <2>2, <2>3 DEF Encrypting
<1>4. Listed(t, k, L)
  <2>1. j.type < Len(opts.types) /\ k.round \in 1..Rounds(t)
    BY <1>2
  <2> QED BY <1>1, <1>3, <2>1, ListedNext
<1>5. OfType(k, L) = {}
  <2>1. SUFFICES ASSUME NEW e \in L, e.of.type = TypeOf(k) PROVE FALSE
    BY DEF OfType
  <2>2. PICK m \in 1..j.type : e.of.type = opts.types[m]
    <3>1. Past(j, e.of.type, e.of.resolver) \/ e.of.type = TypeOf(j)
      BY <1>1 DEF Listed
    <3>2. j.type \in 1..j.type /\ \A m \in 1..(j.type - 1) : m \in 1..j.type
      BY <1>2
    <3> QED BY <3>1, <3>2 DEF Past, TypeOf
  <2>3. /\ m \in 1..Len(opts.types) /\ j.type + 1 \in 1..Len(opts.types)
        /\ m # j.type + 1
    BY <1>2
  <2> QED BY <2>1, <2>2, <2>3, OptionsFacts DEF TypeOf
<1>6. {e \in OfType(k, L) : e.round < k.round} = {}
  BY <1>5
<1>7. Bucketing(<<>>, {}, Rounds(t))
  BY DEF Bucketing
<1>8. k.buckets = <<>>
  BY <1>1 DEF Encrypting
<1>9. Gathering(t, k, L)
  BY <1>5, <1>6, <1>7, <1>8 DEF Gathering
<1> QED BY <1>1, <1>4, <1>9 DEF TargetOK

(* After the last type the target is computed, and then returned.          *)
LEMMA TargetEnds ==
  ASSUME NEW t \in Task, NEW j \in Job, NEW k \in Job, NEW L, TargetOK(t, j, L),
         \/ /\ j.pc = "encrypted" /\ k.pc = "computed"
            /\ j.endpoint > Len(Endpoints) /\ j.type = Len(opts.types)
         \/ j.pc = "computed" /\ k.pc = "returned",
         k.type = j.type, k.round = j.round, k.endpoint = j.endpoint,
         k.buckets = j.buckets, k.rows = j.rows, k.got = j.got
  PROVE  TargetOK(t, k, L)
<1>1. Asked(j) /\ Asked(k) /\ j.pc # "panicked" /\ k.pc # "panicked"
  BY DEF Asked
<1>2. CASE Asks(t)
  <2>1. Listed(t, j, L) /\ Encrypting(t, j, L)
    BY <1>1, <1>2 DEF TargetOK
  <2>2. k.round \in 1..Rounds(t)
    BY <2>1 DEF Listed
  <2>3. Listed(t, k, L)
    BY <1>1, <2>1, <2>2, ListedSame
  <2>4. OfType(k, L) = OfType(j, L) /\ TypeOf(k) = TypeOf(j)
    BY DEF OfType, TypeOf
  <2>5. Encrypting(t, k, L)
    BY <2>1, <2>4 DEF Encrypting
  <2> QED BY <1>1, <1>2, <2>3, <2>5 DEF TargetOK
<1>3. CASE ~Asks(t)
  BY <1>3 DEF TargetOK
<1> QED BY <1>2, <1>3

(* What is known of a target stays, for the command line does.             *)
LEMMA OptionsStay ==
  ASSUME opts' = opts
  PROVE  /\ Resolvers' = Resolvers /\ Endpoints' = Endpoints
         /\ \A t \in Task : /\ Asks(t)' <=> Asks(t)
                            /\ Repeats(t)' <=> Repeats(t)
                            /\ Rounds(t)' = Rounds(t)
<1>1. Resolvers' = Resolvers /\ Endpoints' = Endpoints
  BY DEF Resolvers, Endpoints
<1>2. \A t \in Task : Asks(t)' <=> Asks(t)
  BY DEF Asks, ReverseLookup, Literal
<1>3. \A t \in Task : (Repeats(t)' <=> Repeats(t)) /\ Rounds(t)' = Rounds(t)
  BY <1>2 DEF Repeats, Rounds
<1> QED BY <1>1, <1>2, <1>3

LEMMA ListedStays ==
  ASSUME opts' = opts, NEW t \in Task, NEW j, NEW L
  PROVE  Listed(t, j, L)' <=> Listed(t, j, L)
<1>1. TypeOf(j)' = TypeOf(j) /\ Closed(j)' = Closed(j)
  BY OptionsStay DEF TypeOf, Closed, Asked
<1>2. \A ty : HeardOf(L, ty)' = HeardOf(L, ty)
  BY OptionsStay DEF HeardOf
<1>3. Settled(j, L)' = Settled(j, L)
  BY <1>1, <1>2, OptionsStay DEF Settled, Asked
<1>4. \A m : Blocks(L, m)' = Blocks(L, m)
  BY <1>2, OptionsStay DEF Blocks
<1>5. \A ty, r : Past(j, ty, r)' <=> Past(j, ty, r)
  BY <1>1 DEF Past
<1>6. \A row : Accounted(t, L, row)' <=> Accounted(t, L, row)
  <2>1. TAKE row
  <2>2. \A E : Exact(row, E)' <=> Exact(row, E)
    BY DEF Exact
  <2> QED BY <2>2, OptionsStay DEF Accounted
<1> QED BY <1>1, <1>3, <1>4, <1>5, <1>6, OptionsStay DEF Listed

LEMMA GatheringStays ==
  ASSUME opts' = opts, NEW t \in Task, NEW j, NEW L
  PROVE  Gathering(t, j, L)' <=> Gathering(t, j, L)
<1>1. TypeOf(j)' = TypeOf(j) /\ OfType(j, L)' = OfType(j, L)
  BY DEF TypeOf, OfType
<1> QED BY <1>1, OptionsStay DEF Gathering

LEMMA EncryptingStays ==
  ASSUME opts' = opts, NEW t \in Task, NEW j, NEW L
  PROVE  Encrypting(t, j, L)' <=> Encrypting(t, j, L)
<1>1. TypeOf(j)' = TypeOf(j) /\ OfType(j, L)' = OfType(j, L)
  BY DEF TypeOf, OfType
<1> QED BY <1>1, OptionsStay DEF Encrypting

LEMMA TargetStays ==
  ASSUME opts' = opts, NEW t \in Task, NEW j, NEW L
  PROVE  TargetOK(t, j, L)' <=> TargetOK(t, j, L)
BY OptionsStay, ListedStays, GatheringStays, EncryptingStays DEF TargetOK, Asked

(* The progress display.                                                   *)
LEMMA MaxOfTwo ==
  ASSUME NEW a \in Nat, NEW b \in Nat
  PROVE  /\ Max({a, b}) \in {a, b}
         /\ Max({a, b}) >= a
         /\ Max({a, b}) >= b
<1>1. \E m \in {a, b} : \A y \in {a, b} : m >= y
  OBVIOUS
<1> QED BY <1>1 DEF Max

(* The counter and the lines, while tasks step.                            *)
Stage == {"before", "counted", "widened", "after"}

ProgressOK ==
  /\ shown \in BOOLEAN
  /\ done \in Nat
  /\ maxLine \in Nat
  /\ stepping \in [Task -> Stage]
  /\ visible \in Nat
  /\ final \in Nat
  /\ IsFiniteSet(drawn)
  /\ {d.number : d \in drawn} = 1..done
  /\ Cardinality(drawn) = done
  /\ visible <= maxLine
  /\ \A t \in Task : stepping[t] = "widened" => Label[t] <= maxLine
  /\ final > 0 => final >= maxLine

(* It is so at the start, and whatever the tasks and Finish do.            *)
LEMMA ProgressBegins == ASSUME ProgressInit PROVE ProgressOK
<1>1. shown \in BOOLEAN
  BY DEF ProgressInit
<1>2. {d.number : d \in drawn} = 1..done /\ Cardinality(drawn) = done /\ IsFiniteSet(drawn)
  BY FS_EmptySet DEF ProgressInit
<1> QED BY <1>1, <1>2 DEF ProgressInit, ProgressOK, Stage

LEMMA ProgressSteps ==
  ASSUME ProgressOK, final = 0, NEW t \in Task, Step(t)
  PROVE  ProgressOK' /\ final' = 0
<1> USE LabelAssumption
<1>1. CASE Skip(t)
  BY <1>1 DEF ProgressOK, Skip, At, Stage
<1>2. CASE Count(t)
  <2> DEFINE d == [task |-> t, number |-> done + 1]
  <2>1. drawn' = drawn \cup {d} /\ done' = done + 1 /\ d.number = done + 1
    BY <1>2 DEF Count
  <2>2. d \notin drawn
    <3>1. SUFFICES ASSUME d \in drawn PROVE FALSE
      OBVIOUS
    <3>2. d.number \in 1..done
      BY <3>1 DEF ProgressOK
    <3> QED BY <2>1, <3>2 DEF ProgressOK
  <2> HIDE DEF d
  <2>3. IsFiniteSet(drawn') /\ Cardinality(drawn') = done'
    BY <2>1, <2>2, FS_AddElement DEF ProgressOK
  <2>4. {e.number : e \in drawn'} = {e.number : e \in drawn} \cup {done + 1}
    BY <2>1
  <2>5. {e.number : e \in drawn'} = 1..done'
    <3>1. {e.number : e \in drawn} = 1..done /\ done \in Nat
      BY DEF ProgressOK
    <3>2. \A n \in Nat : 1..(n + 1) = (1..n) \cup {n + 1}
      OBVIOUS
    <3> QED BY <2>1, <2>4, <3>1, <3>2
  <2>6. /\ UNCHANGED <<shown, maxLine, visible, final>>
        /\ stepping' = [stepping EXCEPT ![t] = "counted"]
    BY <1>2 DEF Count, At
  <2> QED BY <2>1, <2>3, <2>5, <2>6 DEF ProgressOK, Stage
<1>3. CASE Widen(t)
  <2>1. maxLine' \in Nat /\ maxLine' >= maxLine /\ maxLine' >= Label[t]
    BY <1>3, MaxOfTwo DEF Widen, LongestLine, ProgressOK
  <2>2. /\ UNCHANGED <<shown, done, drawn, visible, final>>
        /\ stepping' = [stepping EXCEPT ![t] = "widened"]
    BY <1>3 DEF Widen, At
  <2>3. \A u \in Task : stepping'[u] = "widened" => Label[u] <= maxLine'
    BY <2>1, <2>2 DEF ProgressOK
  <2> QED BY <2>1, <2>2, <2>3 DEF ProgressOK, Stage
<1>4. CASE Draw(t)
  <2>1. visible' \in Nat /\ visible' <= maxLine
    BY <1>4, MaxOfTwo DEF Draw, At, ProgressOK
  <2>2. /\ UNCHANGED <<shown, done, drawn, maxLine, final>>
        /\ stepping' = [stepping EXCEPT ![t] = "after"]
    BY <1>4 DEF Draw, At
  <2> QED BY <2>1, <2>2 DEF ProgressOK, Stage
<1> QED BY <1>1, <1>2, <1>3, <1>4 DEF Step

LEMMA ProgressEnds == ASSUME ProgressOK, Finish PROVE ProgressOK'
<1>1. final' \in Nat /\ (final' > 0 => final' >= maxLine)
  BY MaxOfTwo, CompleteAssumption DEF ProgressOK, Finish
<1> QED BY <1>1 DEF ProgressOK, Finish

LEMMA ProgressStays == ASSUME ProgressOK, UNCHANGED progressVars PROVE ProgressOK'
BY DEF ProgressOK, progressVars

LEMMA ProgressTells == ASSUME ProgressOK PROVE ProgressIsHonest
BY DEF ProgressOK, ProgressIsHonest

-----------------------------------------------------------------------------
(* The invariant.                                                          *)
TypesOK ==
  /\ opts \in Options
  /\ job \in [Task -> Job]
  /\ log \in [Task -> SUBSET Entry]
  /\ returned \in Seq(Task)

TargetsOK == \A t \in Task : TargetOK(t, job[t], log[t])

AllOver == \A t \in Task : job[t].pc \in {"returned", "panicked"}

(* A task that is over is in its place or was dropped, and nothing is said *)
(* of the whole before every one is.                                       *)
OutputsOK ==
  /\ IsInjective(returned)
  /\ \A t \in Task : t \in Range(returned) <=> job[t].pc = "returned"
  /\ final > 0 => AllOver
  /\ outputs # None => AllOver /\ outputs = Ascending({t \in Task : job[t].pc # "panicked"})

(* The verdict of --strict was passed on the rows that are there.          *)
ExitOK ==
  exit # None =>
    /\ outputs # None
    /\ exit.strict /\ exit.ok =>
         \A t \in Range(outputs) : \A row \in Range(job[t].rows) : ~RowFailed(t, row)

(* The inductive invariant: of each target, of the whole, and of the       *)
(* display.                                                                *)
DnsInv == TypesOK /\ TargetsOK /\ OutputsOK /\ ExitOK /\ ProgressOK

LEMMA JobFields ==
  ASSUME NEW j \in Job
  PROVE  /\ j.type \in Nat /\ j.round \in Nat /\ j.out \in SUBSET Nat
         /\ j.got \in Seq(Answered) /\ j.buckets \in Seq(Seq(Answered))
         /\ j.endpoint \in Nat /\ j.rows \in Seq(Row)
BY DEF Job

LEMMA IdleIsJob == Idle \in Job
<1>1. <<>> \in Seq(Answered) /\ <<>> \in Seq(Seq(Answered)) /\ <<>> \in Seq(Row)
  OBVIOUS
<1> QED BY <1>1 DEF Idle, Job

(* A task at work moves on.                                                *)
LEMMA TargetMoves ==
  ASSUME DnsInv, NEW t \in Task, NEW k \in Job, NEW M \in SUBSET Entry,
         TargetOK(t, k, M), job[t].pc \notin {"returned", "panicked"},
         k.pc # "returned",
         job' = [job EXCEPT ![t] = k], log' = [log EXCEPT ![t] = M],
         UNCHANGED <<opts, returned, outputs, exit, progressVars>>
  PROVE  DnsInv'
<1>1. /\ job' \in [Task -> Job] /\ job'[t] = k /\ \A u \in Task : u # t => job'[u] = job[u]
      /\ log' \in [Task -> SUBSET Entry] /\ log'[t] = M
      /\ \A u \in Task : u # t => log'[u] = log[u]
  BY DEF DnsInv, TypesOK
<1>2. TypesOK'
  BY <1>1 DEF DnsInv, TypesOK
<1>3. TargetsOK'
  <2>1. SUFFICES ASSUME NEW u \in Task PROVE TargetOK(u, job[u], log[u])'
    BY DEF TargetsOK
  <2>2. TargetOK(u, job'[u], log'[u])
    BY <1>1 DEF DnsInv, TargetsOK
  <2> QED BY <2>2, TargetStays
<1>4. ~AllOver /\ final = 0 /\ outputs = None /\ exit = None
  BY DEF DnsInv, OutputsOK, ExitOK, AllOver, ProgressOK
<1>5. OutputsOK'
  <2>1. final' = 0 /\ outputs' = None /\ returned' = returned
    BY <1>4 DEF progressVars
  <2>2. \A u \in Task : job'[u].pc = "returned" <=> job[u].pc = "returned"
    BY <1>1
  <2> QED BY <2>1, <2>2 DEF DnsInv, OutputsOK
<1>6. ExitOK'
  BY <1>4 DEF ExitOK
<1>7. ProgressOK'
  BY ProgressStays DEF DnsInv
<1> QED BY <1>2, <1>3, <1>5, <1>6, <1>7 DEF DnsInv

(* Each action keeps it.                                                   *)
LEMMA BeginKeeps == ASSUME DnsInv, NEW t \in Task, Begin(t) PROVE DnsInv'
<1> DEFINE j == job[t]
           k == IF Asks(t) THEN [j EXCEPT !.pc = "spawn"]
                ELSE [j EXCEPT !.pc = "computed",
                               !.rows = [i \in DOMAIN opts.types |->
                                           LiteralRow(opts.types[i])]]
<1>1. /\ j \in Job /\ TargetOK(t, j, log[t]) /\ log[t] \in SUBSET Entry
      /\ opts \in Options /\ log = [log EXCEPT ![t] = log[t]]
  BY DEF DnsInv, TypesOK, TargetsOK
<1>2. /\ j.pc = "waiting" /\ job' = [job EXCEPT ![t] = k] /\ log' = log
      /\ UNCHANGED <<opts, returned, outputs, exit, progressVars>>
  BY DEF Begin, Become
<1> HIDE DEF j
<1>3. k \in Job /\ k.pc \in {"spawn", "computed"} /\ TargetOK(t, k, log[t])
  <2>1. CASE Asks(t)
    <3>1. /\ k.pc = "spawn" /\ k.type = j.type /\ k.round = j.round /\ k.out = j.out
          /\ k.got = j.got /\ k.buckets = j.buckets
          /\ k.endpoint = j.endpoint /\ k.rows = j.rows
      BY <1>1, <2>1 DEF Job
    <3>2. k = [pc |-> "spawn", type |-> j.type, round |-> j.round, out |-> j.out,
               got |-> j.got, buckets |-> j.buckets, endpoint |-> j.endpoint, rows |-> j.rows]
      BY <1>1, <2>1 DEF Job
    <3>3. k \in Job
      BY <1>1, <3>2, JobFields DEF Job
    <3> HIDE DEF k
    <3> QED BY <1>1, <1>2, <2>1, <3>1, <3>3, TargetBegins
  <2>2. CASE ~Asks(t)
    <3> DEFINE rows == [i \in DOMAIN opts.types |-> LiteralRow(opts.types[i])]
    <3>1. k = [pc |-> "computed", type |-> j.type, round |-> j.round, out |-> j.out,
               got |-> j.got, buckets |-> j.buckets, endpoint |-> j.endpoint, rows |-> rows]
      BY <1>1, <2>2 DEF Job
    <3>2. rows \in Seq(Row)
      <4>1. System \in Nat
        BY <1>1, OptionsAssumption
      <4>2. \A ty \in RecordType : LiteralRow(ty) \in Answered
        BY <4>1 DEF LiteralRow, Observation, Answered
      <4>3. \A ty \in RecordType : LiteralRow(ty) \in Row
        BY <4>2 DEF Row
      <4>4. rows \in [1..Len(opts.types) -> Row] /\ Len(opts.types) \in Nat
        BY <1>1, <4>3, OptionsFacts
      <4> QED BY <4>4
    <3> HIDE DEF rows
    <3>3. k \in Job /\ k.pc = "computed"
      BY <1>1, <3>1, <3>2, JobFields DEF Job
    <3> QED BY <2>2, <3>3 DEF TargetOK
  <2> QED BY <2>1, <2>2
<1> HIDE DEF k
<1>4. job[t].pc = "waiting"
  BY <1>2 DEF j
<1> QED BY <1>1, <1>2, <1>3, <1>4, TargetMoves

LEMMA SpawnKeeps == ASSUME DnsInv, NEW t \in Task, Spawn(t) PROVE DnsInv'
<1> DEFINE j == job[t]
           k == [j EXCEPT !.pc = "joining", !.out = Resolvers, !.got = <<>>]
<1>1. /\ j \in Job /\ TargetOK(t, j, log[t]) /\ log[t] \in SUBSET Entry
      /\ opts \in Options /\ log = [log EXCEPT ![t] = log[t]]
  BY DEF DnsInv, TypesOK, TargetsOK
<1>2. /\ j.pc = "spawn" /\ job' = [job EXCEPT ![t] = k] /\ log' = log
      /\ UNCHANGED <<opts, returned, outputs, exit, progressVars>>
  BY DEF Spawn, Become
<1> HIDE DEF j
<1>3. /\ k.pc = "joining" /\ k.type = j.type /\ k.round = j.round /\ k.out = Resolvers
      /\ k.got = <<>> /\ k.buckets = j.buckets
      /\ k.endpoint = j.endpoint /\ k.rows = j.rows
  BY <1>1 DEF Job
<1>4. Resolvers \in SUBSET Nat /\ <<>> \in Seq(Answered)
  BY <1>1, LabelsFacts
<1>5. k \in Job
  BY <1>1, <1>4 DEF Job
<1> HIDE DEF k
<1>6. TargetOK(t, k, log[t])
  BY <1>1, <1>2, <1>3, <1>5, TargetSpawns
<1>7. job[t].pc = "spawn" /\ k.pc = "joining"
  BY <1>2, <1>3 DEF j
<1> QED BY <1>1, <1>2, <1>5, <1>6, <1>7, TargetMoves

LEMMA AnswerKeeps ==
  ASSUME DnsInv, NEW t \in Task, NEW o \in AnyAnswer(t), Answer(t, o) PROVE DnsInv'
<1> DEFINE j == job[t]
           k == [j EXCEPT !.out = @ \ {o.resolver}, !.got = Append(@, o)]
           M == log[t] \cup {[round |-> j.round, of |-> o]}
<1>1. /\ j \in Job /\ TargetOK(t, j, log[t]) /\ log[t] \in SUBSET Entry
      /\ opts \in Options
  BY DEF DnsInv, TypesOK, TargetsOK
<1>2. /\ j.pc = "joining" /\ o.resolver \in j.out
      /\ job' = [job EXCEPT ![t] = k] /\ log' = [log EXCEPT ![t] = M]
      /\ UNCHANGED <<opts, returned, outputs, exit, progressVars>>
  BY DEF Answer, Become
<1>3. o \in Answered /\ o.type = Type(t) /\ Type(t) = TypeOf(j)
  <2>1. Asks(t) /\ Listed(t, j, log[t])
    BY <1>1, <1>2 DEF TargetOK
  <2>2. Type(t) = TypeOf(j) /\ TypeOf(j) \in RecordType
    BY <1>1, <2>1, SettledFacts DEF Type, TypeOf
  <2>3. PICK r \in j.out : o \in Queried(r, Type(t))
    BY DEF AnyAnswer
  <2>4. r \in Nat
    BY <1>1, <2>3, JobFields
  <2> QED BY <2>2, <2>3, <2>4, QueriedFacts
<1> HIDE DEF j
<1>4. /\ k.pc = j.pc /\ k.type = j.type /\ k.round = j.round
      /\ k.out = j.out \ {o.resolver} /\ k.got = Append(j.got, o)
      /\ k.buckets = j.buckets /\ k.endpoint = j.endpoint /\ k.rows = j.rows
  BY <1>1 DEF Job
<1>5. Append(j.got, o) \in Seq(Answered) /\ j.out \ {o.resolver} \in SUBSET Nat
  BY <1>1, <1>3, JobFields
<1>6. k \in Job
  BY <1>1, <1>5 DEF Job
<1> HIDE DEF k
<1>7. TargetOK(t, k, M)
  BY <1>1, <1>2, <1>3, <1>4, <1>6, TargetHears
<1>8. M \in SUBSET Entry
  <2>1. Listed(t, j, log[t])
    BY <1>1, <1>2 DEF TargetOK
  <2>2. j.round \in Nat \ {0}
    BY <1>1, <2>1, OptionsFacts DEF Listed
  <2> QED BY <1>1, <1>3, <2>2 DEF Entry
<1>9. job[t].pc = "joining" /\ k.pc = "joining"
  BY <1>2, <1>4 DEF j
<1> HIDE DEF M
<1> QED BY <1>2, <1>6, <1>7, <1>8, <1>9, TargetMoves

LEMMA QueryPanicsKeeps ==
  ASSUME DnsInv, NEW t \in Task, NEW r, QueryPanics(t, r) PROVE DnsInv'
<1> DEFINE j == job[t]
           k == [j EXCEPT !.out = @ \ {r}]
<1>1. /\ j \in Job /\ TargetOK(t, j, log[t]) /\ log[t] \in SUBSET Entry
      /\ log = [log EXCEPT ![t] = log[t]]
  BY DEF DnsInv, TypesOK, TargetsOK
<1>2. /\ j.pc = "joining" /\ job' = [job EXCEPT ![t] = k] /\ log' = log
      /\ UNCHANGED <<opts, returned, outputs, exit, progressVars>>
  BY DEF QueryPanics, Become
<1> HIDE DEF j
<1>3. /\ k.pc = j.pc /\ k.type = j.type /\ k.round = j.round
      /\ k.out = j.out \ {r} /\ k.got = j.got
      /\ k.buckets = j.buckets /\ k.endpoint = j.endpoint /\ k.rows = j.rows
  BY <1>1 DEF Job
<1>4. k \in Job
  <2>1. j.out \ {r} \in SUBSET Nat
    BY <1>1, JobFields
  <2> QED BY <1>1, <2>1 DEF Job
<1> HIDE DEF k
<1>5. TargetOK(t, k, log[t])
  BY <1>1, <1>2, <1>3, <1>4, TargetLoses
<1>6. job[t].pc = "joining" /\ k.pc = "joining"
  BY <1>2, <1>3 DEF j
<1> QED BY <1>1, <1>2, <1>4, <1>5, <1>6, TargetMoves

LEMMA EndRoundKeeps == ASSUME DnsInv, NEW t \in Task, EndRound(t) PROVE DnsInv'
<1> DEFINE j == job[t]
           B == Filled(j.buckets, Round(t))
           rows == [i \in DOMAIN B |-> Aggregate(B[i], Type(t))]
           next == [j EXCEPT !.pc = "encrypted", !.got = <<>>, !.buckets = <<>>]
           k == IF ~Repeats(t) THEN [next EXCEPT !.rows = @ \o Round(t)]
                ELSE IF j.round < opts.count
                THEN [j EXCEPT !.pc = "spawn", !.round = @ + 1, !.got = <<>>,
                               !.buckets = B]
                ELSE [next EXCEPT !.rows = @ \o ByResolver(rows)]
<1>1. /\ j \in Job /\ TargetOK(t, j, log[t]) /\ log[t] \in SUBSET Entry
      /\ opts \in Options /\ log = [log EXCEPT ![t] = log[t]]
  BY DEF DnsInv, TypesOK, TargetsOK
<1>2. /\ j.pc = "joining" /\ job' = [job EXCEPT ![t] = k] /\ log' = log
      /\ UNCHANGED <<opts, returned, outputs, exit, progressVars>>
  BY DEF EndRound, Become
<1>3. Round(t) = ByResolver(j.got) /\ Type(t) = TypeOf(j)
  BY DEF Round, Type, TypeOf
<1>4. Asks(t) /\ Listed(t, j, log[t])
  BY <1>1, <1>2 DEF TargetOK
<1>5. TypeOf(j) \in RecordType /\ Rounds(t) \in Nat
  BY <1>1, <1>4, SettledFacts, OptionsFacts
<1>6. /\ Round(t) \in Seq(Answered)
      /\ Bucketing(B, OfType(j, log[t]), Rounds(t))
  BY <1>1, <1>2, <1>3, RoundFacts
<1>7. B \in Seq(Seq(Answered)) /\ \A i \in DOMAIN B : B[i] # <<>>
  BY <1>6 DEF Bucketing
<1> HIDE DEF j, B
<1>8. /\ j.type \in Nat /\ j.round \in Nat /\ j.out \in SUBSET Nat
      /\ j.endpoint \in Nat /\ j.rows \in Seq(Row)
      /\ <<>> \in Seq(Answered) /\ <<>> \in Seq(Seq(Answered))
  BY <1>1, JobFields
<1>9. k \in Job /\ k.pc # "returned" /\ TargetOK(t, k, log[t])
  <2>1. CASE ~Repeats(t)
    <3>1. k = [pc |-> "encrypted", type |-> j.type, round |-> j.round, out |-> j.out,
               got |-> <<>>, buckets |-> <<>>, endpoint |-> j.endpoint,
               rows |-> j.rows \o Round(t)]
      BY <1>1, <2>1 DEF Job
    <3>2. j.rows \o Round(t) \in Seq(Row)
      <4>1. Answered \subseteq Row
        BY DEF Row
      <4>2. Round(t) \in Seq(Row)
        BY <1>6, <4>1, WiderSeq
      <4> QED BY <1>8, <4>2, ConcatFacts
    <3> HIDE DEF k
    <3>3. k \in Job
      BY <1>8, <3>1, <3>2 DEF Job
    <3>4. k.rows = j.rows \o ByResolver(j.got)
      BY <1>3, <3>1
    <3>5. TargetOK(t, k, log[t])
      BY <1>1, <1>2, <2>1, <3>1, <3>3, <3>4, OnlyRound
    <3> QED BY <3>1, <3>3, <3>5
  <2>2. CASE Repeats(t) /\ j.round < opts.count
    <3>1. k = [pc |-> "spawn", type |-> j.type, round |-> j.round + 1, out |-> j.out,
               got |-> <<>>, buckets |-> B, endpoint |-> j.endpoint, rows |-> j.rows]
      BY <1>1, <2>2 DEF Job
    <3> HIDE DEF k
    <3>2. k \in Job
      BY <1>7, <1>8, <3>1 DEF Job
    <3>3. k.buckets = Filled(j.buckets, ByResolver(j.got))
      BY <1>3, <3>1 DEF B
    <3>4. TargetOK(t, k, log[t])
      BY <1>1, <1>2, <2>2, <3>1, <3>2, <3>3, AnotherRound
    <3> QED BY <3>1, <3>2, <3>4
  <2>3. CASE Repeats(t) /\ ~(j.round < opts.count)
    <3>1. k = [pc |-> "encrypted", type |-> j.type, round |-> j.round, out |-> j.out,
               got |-> <<>>, buckets |-> <<>>, endpoint |-> j.endpoint,
               rows |-> j.rows \o ByResolver(rows)]
      BY <1>1, <2>3 DEF Job
    <3>2. /\ B = Filled(j.buckets, ByResolver(j.got))
          /\ rows = [i \in DOMAIN B |-> Aggregate(B[i], TypeOf(j))]
      BY <1>3 DEF B
    <3> HIDE DEF k, rows
    <3>3. ByResolver(rows) \in Seq(Row)
      BY <1>1, <1>2, <2>3, <3>2, LastRoundRows
    <3>4. j.rows \o ByResolver(rows) \in Seq(Row)
      BY <1>8, <3>3, ConcatFacts
    <3>5. k \in Job
      BY <1>8, <3>1, <3>4 DEF Job
    <3>6. TargetOK(t, k, log[t])
      BY <1>1, <1>2, <2>3, <3>1, <3>2, <3>5, LastRound
    <3> QED BY <3>1, <3>5, <3>6
  <2> QED BY <2>1, <2>2, <2>3
<1> HIDE DEF k
<1>10. job[t].pc = "joining"
  BY <1>2 DEF j
<1> QED BY <1>1, <1>2, <1>9, <1>10, TargetMoves

LEMMA AskEndpointKeeps ==
  ASSUME DnsInv, NEW t \in Task, NEW o \in AnyEndpointAnswer(t), AskEndpoint(t, o)
  PROVE  DnsInv'
<1> DEFINE j == job[t]
           b == Append(j.got, o)
           row == IF Repeats(t) THEN Aggregate(b, Type(t)) ELSE o
           k == IF Len(b) < Rounds(t) THEN [j EXCEPT !.got = b]
                ELSE [j EXCEPT !.got = <<>>, !.endpoint = @ + 1, !.rows = Append(@, row)]
           M == Logged(j, log[t], o)
<1>1. /\ j \in Job /\ TargetOK(t, j, log[t]) /\ log[t] \in SUBSET Entry
      /\ opts \in Options
  BY DEF DnsInv, TypesOK, TargetsOK
<1>2. /\ j.pc = "encrypted" /\ j.endpoint <= Len(Endpoints)
      /\ job' = [job EXCEPT ![t] = k] /\ log' = [log EXCEPT ![t] = M]
      /\ UNCHANGED <<opts, returned, outputs, exit, progressVars>>
  BY DEF AskEndpoint, Become, Logged
<1>3. Type(t) = TypeOf(j)
  BY DEF Type, TypeOf
<1>4. o \in QueriedEncrypted(Endpoints[j.endpoint], TypeOf(j))
  BY <1>3 DEF AskEndpoint
<1> HIDE DEF j
<1>5. Asks(t) /\ Listed(t, j, log[t])
  BY <1>1, <1>2 DEF TargetOK
<1>6. TypeOf(j) \in RecordType /\ j.endpoint \in 1..Len(Endpoints)
  <2> HIDE DEF k, b, row, M
  <2>1. TypeOf(j) \in RecordType
    BY <1>1, <1>5, SettledFacts
  <2>2. j.endpoint \in 1..(Len(Endpoints) + 1)
    BY <1>5 DEF Listed
  <2>3. j.endpoint \in 1..Len(Endpoints)
    BY <1>1, <1>2, <2>2, LabelsFacts
  <2> QED BY <2>1, <2>3
<1>7. o \in Answered /\ o.resolver = Endpoints[j.endpoint] /\ o.type = TypeOf(j)
  <2>1. Endpoints[j.endpoint] \in Nat
    BY <1>1, <1>6, LabelsFacts
  <2> QED BY <1>4, <1>6, <2>1, QueriedFacts
<1>8. b \in Seq(Answered) /\ M \in SUBSET Entry
  <2> HIDE DEF k
  <2>1. /\ Append(j.got, o) \in Seq(Answered)
        /\ Logged(j, log[t], o) \in SUBSET Entry
    BY <1>1, <1>2, <1>7, EndpointAnswers
  <2> QED BY <2>1
<1>9. row = IF Repeats(t) THEN Aggregate(b, TypeOf(j)) ELSE o
  BY <1>3
<1>10. /\ j.type \in Nat /\ j.round \in Nat /\ j.out \in SUBSET Nat
       /\ j.got \in Seq(Answered) /\ j.buckets \in Seq(Seq(Answered))
       /\ j.endpoint \in Nat /\ j.rows \in Seq(Row)
  BY <1>1, JobFields
<1>11. b = Append(j.got, o) /\ row = RowOf(t, j, o)
  BY <1>3 DEF RowOf
<1> HIDE DEF b, row, M
<1>12. k \in Job /\ k.pc # "returned" /\ TargetOK(t, k, M)
  <2>1. CASE Len(b) < Rounds(t)
    <3>1. /\ k.pc = "encrypted" /\ k.type = j.type /\ k.round = j.round
          /\ k.got = b /\ k.buckets = j.buckets
          /\ k.endpoint = j.endpoint /\ k.rows = j.rows
      BY <1>1, <1>2, <2>1 DEF Job
    <3>2. k \in Job
      BY <1>1, <1>8, <2>1 DEF Job
    <3>3. TargetOK(t, k, M)
      <4> HIDE DEF k
      <4>1. k.got = Append(j.got, o) /\ Len(k.got) < Rounds(t)
        BY <1>11, <2>1, <3>1
      <4>2. M = Logged(j, log[t], o)
        BY DEF M
      <4> QED BY <1>1, <1>2, <1>7, <3>1, <3>2, <4>1, <4>2, EndpointAgain
    <3> QED BY <3>1, <3>2, <3>3
  <2>2. CASE ~(Len(b) < Rounds(t))
    <3>1. /\ k.pc = "encrypted" /\ k.type = j.type /\ k.round = j.round
          /\ k.got = <<>> /\ k.buckets = j.buckets
          /\ k.endpoint = j.endpoint + 1 /\ k.rows = Append(j.rows, row)
      BY <1>1, <1>2, <2>2 DEF Job
    <3>2. row \in Row
      <4>1. CASE Repeats(t)
        <5>1. b # <<>>
          BY <1>10, <1>11
        <5>2. opts.count \in Nat
          BY <1>1, OptionsFacts
        <5> QED BY <1>6, <1>8, <1>9, <4>1, <5>1, <5>2, AggregateIsRow
      <4>2. CASE ~Repeats(t)
        BY <1>7, <1>9, <4>2 DEF Row
      <4> QED BY <4>1, <4>2
    <3>3. k = [pc |-> "encrypted", type |-> j.type, round |-> j.round, out |-> j.out,
               got |-> <<>>, buckets |-> j.buckets, endpoint |-> j.endpoint + 1,
               rows |-> Append(j.rows, row)]
      BY <1>1, <1>2, <2>2 DEF Job
    <3> HIDE DEF k
    <3>4. Append(j.rows, row) \in Seq(Row) /\ <<>> \in Seq(Answered) /\ j.endpoint + 1 \in Nat
      BY <1>10, <3>2
    <3>5. k \in Job
      BY <1>10, <3>3, <3>4 DEF Job
    <3>6. TargetOK(t, k, M)
      <4>1. /\ M = Logged(j, log[t], o) /\ ~(Len(Append(j.got, o)) < Rounds(t))
            /\ k.rows = Append(j.rows, RowOf(t, j, o))
        BY <1>11, <2>2, <3>1 DEF M
      <4> QED BY <1>1, <1>2, <1>7, <3>1, <3>5, <4>1, EndpointIsDone
    <3> QED BY <3>1, <3>5, <3>6
  <2> QED BY <2>1, <2>2
<1> HIDE DEF k
<1>13. job[t].pc = "encrypted"
  BY <1>2 DEF j
<1> QED BY <1>2, <1>8, <1>12, <1>13, TargetMoves

LEMMA EndTypeKeeps == ASSUME DnsInv, NEW t \in Task, EndType(t) PROVE DnsInv'
<1> DEFINE j == job[t]
           k == NextType(j)
<1>1. /\ j \in Job /\ TargetOK(t, j, log[t]) /\ log[t] \in SUBSET Entry
      /\ opts \in Options /\ log = [log EXCEPT ![t] = log[t]]
  BY DEF DnsInv, TypesOK, TargetsOK
<1>2. /\ j.pc = "encrypted" /\ j.endpoint > Len(Endpoints)
      /\ job' = [job EXCEPT ![t] = k] /\ log' = log
      /\ UNCHANGED <<opts, returned, outputs, exit, progressVars>>
  BY DEF EndType, Become
<1> HIDE DEF j
<1>3. /\ j.type \in Nat /\ j.round \in Nat /\ j.out \in SUBSET Nat
      /\ j.got \in Seq(Answered) /\ j.buckets \in Seq(Seq(Answered))
      /\ j.endpoint \in Nat /\ j.rows \in Seq(Row)
  BY <1>1, JobFields
<1>4. k \in Job /\ k.pc # "returned" /\ TargetOK(t, k, log[t])
  <2>1. CASE j.type = Len(opts.types)
    <3>1. k = [pc |-> "computed", type |-> j.type, round |-> j.round, out |-> j.out,
               got |-> j.got, buckets |-> j.buckets, endpoint |-> j.endpoint,
               rows |-> j.rows]
      BY <1>1, <2>1 DEF Job, NextType
    <3> HIDE DEF k
    <3>2. k \in Job
      BY <1>3, <3>1 DEF Job
    <3>3. TargetOK(t, k, log[t])
      BY <1>1, <1>2, <2>1, <3>1, <3>2, TargetEnds
    <3> QED BY <3>1, <3>2, <3>3
  <2>2. CASE j.type # Len(opts.types)
    <3>1. k = [pc |-> "spawn", type |-> j.type + 1, round |-> 1, out |-> j.out,
               got |-> j.got, buckets |-> j.buckets, endpoint |-> 1, rows |-> j.rows]
      BY <1>1, <2>2 DEF Job, NextType
    <3> HIDE DEF k
    <3>2. k \in Job
      BY <1>3, <3>1 DEF Job
    <3>3. TargetOK(t, k, log[t])
      BY <1>1, <1>2, <2>2, <3>1, <3>2, AnotherType
    <3> QED BY <3>1, <3>2, <3>3
  <2> QED BY <2>1, <2>2
<1> HIDE DEF k
<1>5. job[t].pc = "encrypted"
  BY <1>2 DEF j
<1> QED BY <1>1, <1>2, <1>4, <1>5, TargetMoves

LEMMA TargetPanicsKeeps == ASSUME DnsInv, NEW t \in Task, TargetPanics(t) PROVE DnsInv'
<1> DEFINE k == [Idle EXCEPT !.pc = "panicked"]
<1>1. log[t] \in SUBSET Entry /\ log = [log EXCEPT ![t] = log[t]]
  BY DEF DnsInv, TypesOK
<1>2. /\ job' = [job EXCEPT ![t] = k] /\ log' = log
      /\ job[t].pc \notin {"returned", "panicked"}
      /\ UNCHANGED <<opts, returned, outputs, exit, progressVars>>
  BY DEF TargetPanics, Running
<1>3. k \in Job /\ k.pc = "panicked"
  BY IdleIsJob DEF Job
<1> HIDE DEF k
<1>4. TargetOK(t, k, log[t])
  BY <1>3 DEF TargetOK
<1> QED BY <1>1, <1>2, <1>3, <1>4, TargetMoves

(* The counter moves while the task is computed, so before the end.        *)
LEMMA StepProgressKeeps == ASSUME DnsInv, NEW t \in Task, StepProgress(t) PROVE DnsInv'
<1>1. ~AllOver /\ final = 0
  BY DEF DnsInv, OutputsOK, AllOver, ProgressOK, StepProgress
<1>2. ProgressOK' /\ final' = 0
  BY <1>1, ProgressSteps DEF DnsInv, StepProgress
<1>3. UNCHANGED <<opts, job, log, returned, outputs, exit>>
  BY DEF StepProgress
<1>4. TypesOK'
  BY <1>3 DEF DnsInv, TypesOK
<1>5. TargetsOK'
  BY <1>3, TargetStays DEF DnsInv, TargetsOK
<1>6. OutputsOK'
  BY <1>1, <1>2, <1>3 DEF DnsInv, OutputsOK, AllOver
<1>7. ExitOK'
  <2>1. exit = None
    BY <1>1 DEF DnsInv, OutputsOK, ExitOK
  <2> QED BY <1>3, <2>1 DEF ExitOK
<1> QED BY <1>2, <1>4, <1>5, <1>6, <1>7 DEF DnsInv

LEMMA ReturnKeeps == ASSUME DnsInv, NEW t \in Task, Return(t) PROVE DnsInv'
<1> DEFINE j == job[t]
           k == [j EXCEPT !.pc = "returned"]
<1>1. /\ j \in Job /\ TargetOK(t, j, log[t]) /\ opts \in Options
      /\ job \in [Task -> Job] /\ returned \in Seq(Task)
  BY DEF DnsInv, TypesOK, TargetsOK
<1>2. /\ j.pc = "computed" /\ job' = [job EXCEPT ![t] = k]
      /\ returned' = Append(returned, t)
      /\ UNCHANGED <<opts, log, outputs, exit, progressVars>>
  BY DEF Return
<1>3. ~AllOver /\ final = 0 /\ outputs = None /\ exit = None
  BY DEF DnsInv, OutputsOK, ExitOK, AllOver, ProgressOK, Return
<1>4. /\ job[t] = j /\ t \notin Range(returned) /\ IsInjective(returned)
      /\ \A u \in Task : u \in Range(returned) <=> job[u].pc = "returned"
  BY <1>2 DEF DnsInv, OutputsOK
<1> HIDE DEF j
<1>5. /\ k.pc = "returned" /\ k.type = j.type /\ k.round = j.round
      /\ k.got = j.got /\ k.buckets = j.buckets
      /\ k.endpoint = j.endpoint /\ k.rows = j.rows
  BY <1>1 DEF Job
<1>6. k \in Job
  BY <1>1 DEF Job
<1> HIDE DEF k
<1>7. TargetOK(t, k, log[t])
  <2>1. /\ k.type = j.type /\ k.round = j.round /\ k.endpoint = j.endpoint
        /\ k.buckets = j.buckets /\ k.rows = j.rows /\ k.got = j.got
        /\ j.pc = "computed" /\ k.pc = "returned"
    BY <1>2, <1>5
  <2> QED BY ONLY <1>1, <1>6, <2>1, TargetEnds
<1>8. /\ job' \in [Task -> Job] /\ job'[t] = k
      /\ \A u \in Task : u # t => job'[u] = job[u]
  BY <1>1, <1>2, <1>6
<1>9. TargetsOK'
  <2>1. SUFFICES ASSUME NEW u \in Task PROVE TargetOK(u, job[u], log[u])'
    BY DEF TargetsOK
  <2>2. TargetOK(u, job'[u], log'[u])
    BY <1>2, <1>7, <1>8 DEF DnsInv, TargetsOK
  <2> QED BY <1>2, <2>2, TargetStays
<1>10. /\ returned' \in Seq(Task) /\ IsInjective(returned')
       /\ Range(returned') = Range(returned) \cup {t}
  BY <1>1, <1>2, <1>4, AppendToInjective
<1>11. TypesOK'
  BY <1>2, <1>8, <1>10 DEF DnsInv, TypesOK
<1>12. OutputsOK'
  <2>1. \A u \in Task : u \in Range(returned') <=> job'[u].pc = "returned"
    BY <1>4, <1>5, <1>8, <1>10
  <2>2. final' = 0 /\ outputs' = None
    BY <1>2, <1>3 DEF progressVars
  <2> QED BY <1>10, <2>1, <2>2 DEF OutputsOK
<1>13. ExitOK'
  BY <1>2, <1>3 DEF ExitOK
<1>14. ProgressOK'
  BY <1>2, ProgressStays DEF DnsInv
<1> QED BY <1>9, <1>11, <1>12, <1>13, <1>14 DEF DnsInv

(* Every task is over: the outputs are the targets that returned, in their *)
(* order.                                                                  *)
LEMMA CollectKeeps == ASSUME DnsInv, Collect PROVE DnsInv'
<1>1. UNCHANGED <<opts, job, log, returned, exit>> /\ outputs = None /\ AllOver
  BY DEF Collect, AllOver
<1>2. TypesOK'
  BY <1>1 DEF DnsInv, TypesOK
<1>3. TargetsOK'
  BY <1>1, TargetStays DEF DnsInv, TargetsOK
<1>4. ProgressOK'
  BY ProgressEnds DEF DnsInv, Collect
<1>5. exit = None
  BY <1>1 DEF DnsInv, ExitOK
<1>6. ExitOK'
  BY <1>1, <1>5 DEF ExitOK
<1>7. outputs' = Ascending({t \in Task : job[t].pc # "panicked"})
  <2> DEFINE S == {t \in Task : job[t].pc # "panicked"}
  <2>1. returned \in Seq(Task) /\ IsInjective(returned) /\ Task \in SUBSET Int
    BY TaskAssumption DEF DnsInv, TypesOK, OutputsOK
  <2>2. Range(returned) \subseteq Task
    BY <2>1 DEF Range
  <2>3. \A t \in Task : t \in Range(returned) <=> job[t].pc = "returned"
    BY DEF DnsInv, OutputsOK
  <2>4. \A t \in Task : job[t].pc = "returned" <=> job[t].pc # "panicked"
    BY <1>1 DEF AllOver
  <2>5. Range(returned) = S
    BY <2>2, <2>3, <2>4
  <2>6. /\ InOrder(returned) \in Seq(Task) /\ IsAscending(InOrder(returned))
        /\ Range(InOrder(returned)) = S
    BY <2>1, <2>5, InOrderFacts
  <2>7. IsFiniteSet(S) /\ S \in SUBSET Int
    BY <2>1, TaskAssumption, FS_Subset
  <2>8. InOrder(returned) \in Seq(Int)
    BY <2>1, <2>6, WiderSeq
  <2> HIDE DEF S
  <2>9. InOrder(returned) = Ascending(S)
    BY <2>6, <2>7, <2>8, AscendingIsIt
  <2> QED BY <2>9 DEF S, Collect, OutputsInOrder
<1>8. OutputsOK'
  BY <1>1, <1>7 DEF DnsInv, OutputsOK, AllOver
<1> QED BY <1>2, <1>3, <1>4, <1>6, <1>8 DEF DnsInv

LEMMA JudgedKeeps == ASSUME DnsInv, Judged PROVE DnsInv'
<1>1. PICK strict, printed \in BOOLEAN : Judge(strict, printed)
  BY DEF Judged
<1>2. UNCHANGED <<opts, job, log, returned, outputs, progressVars>> /\ outputs # None
  BY <1>1 DEF Judge
<1>3. TypesOK'
  BY <1>2 DEF DnsInv, TypesOK
<1>4. TargetsOK'
  BY <1>2, TargetStays DEF DnsInv, TargetsOK
<1>5. OutputsOK'
  BY <1>2 DEF DnsInv, OutputsOK, AllOver, progressVars
<1>6. ProgressOK'
  BY <1>2, ProgressStays DEF DnsInv
<1>7. ExitOK'
  <2> DEFINE clean == \A t \in Range(outputs) :
                        \A row \in Range(job[t].rows) : ~RowFailed(t, row)
             ok == printed /\ (strict => clean)
  <2>1. exit' = [strict |-> strict, ok |-> ok]
    BY <1>1 DEF Judge
  <2> HIDE DEF clean
  <2>2. exit'.strict = strict /\ exit'.ok = ok
    BY <2>1
  <2>3. exit'.strict /\ exit'.ok => clean
    BY <2>2
  <2>4. clean => \A t \in Range(outputs') :
                   \A row \in Range(job'[t].rows) : ~RowFailed(t, row)'
    BY <1>2 DEF clean, RowFailed, Repeats, Asks, ReverseLookup, Literal
  <2> QED BY <1>2, <2>3, <2>4 DEF ExitOK
<1> QED BY <1>3, <1>4, <1>5, <1>6, <1>7 DEF DnsInv

(* It holds at the start.                                                  *)
LEMMA DnsInvBegins == ASSUME Init PROVE DnsInv
<1>1. opts \in Options /\ \A t \in Task : job[t] = Idle /\ log[t] = {}
  BY DEF Init
<1>2. TypesOK
  <2>1. \A t \in Task : {} \in SUBSET Entry /\ Idle \in Job
    BY IdleIsJob
  <2>2. <<>> \in Seq(Task)
    OBVIOUS
  <2> QED BY <2>1, <2>2 DEF Init, TypesOK
<1>3. \A t \in Task : TargetOK(t, Idle, {})
  <2>1. TAKE t \in Task
  <2>2. /\ Idle.pc = "waiting" /\ Idle.type = 1 /\ Idle.round = 1 /\ Idle.endpoint = 1
        /\ Idle.buckets = <<>> /\ Idle.rows = <<>>
    BY DEF Idle
  <2>3. ~Asked(Idle) /\ OfType(Idle, {}) = {}
    BY <2>2 DEF Asked, OfType
  <2>4. /\ 1 \in 1..Len(opts.types) /\ 1 \in 1..Rounds(t) /\ 1 \in 1..(Len(Endpoints) + 1)
        /\ 0 \in Nat /\ 0 <= Len(opts.types)
    BY <1>1, OptionsFacts, LabelsFacts
  <2>5. RowKeys(<<>>) = FlattenSeq(Blocks({}, 0)) \o Keyed(TypeOf(Idle), <<>>)
    <3>1. RowKeys(<<>>) = <<>> /\ Keyed(TypeOf(Idle), <<>>) = <<>>
      BY DEF RowKeys, Keyed
    <3>2. Blocks({}, 0) = <<>>
      BY DEF Blocks
    <3>3. FlattenSeq(<<>>) = <<>>
      BY DEF FlattenSeq
    <3>4. <<>> \o <<>> = <<>>
      OBVIOUS
    <3> QED BY <3>1, <3>2, <3>3, <3>4
  <2>6. Settled(Idle, {}) = <<>>
    BY <2>3 DEF Settled
  <2>7. Listed(t, Idle, {})
    <3>1. Idle.type - 1 = 0
      BY <2>2
    <3> QED BY <2>2, <2>4, <2>5, <2>6, <3>1 DEF Listed
  <2>8. Bucketing(<<>>, {}, Rounds(t))
    BY DEF Bucketing
  <2>9. Gathering(t, Idle, {})
    BY <2>2, <2>3, <2>8 DEF Gathering
  <2>10. Idle.pc = "waiting"
    BY <2>2
  <2> QED BY <2>3, <2>7, <2>9, <2>10 DEF TargetOK
<1>4. TargetsOK
  BY <1>1, <1>3 DEF TargetsOK
<1>5. ProgressOK /\ final = 0
  BY ProgressBegins DEF Init, ProgressInit
<1>6. OutputsOK
  <2>1. IsInjective(returned) /\ Range(returned) = {}
    BY DEF Init, IsInjective, Range
  <2>2. \A t \in Task : job[t].pc # "returned"
    BY <1>1 DEF Idle
  <2>3. outputs = None
    BY DEF Init
  <2> QED BY <1>5, <2>1, <2>2, <2>3 DEF OutputsOK
<1>7. ExitOK
  BY DEF Init, ExitOK
<1> QED BY <1>2, <1>4, <1>5, <1>6, <1>7 DEF DnsInv

LEMMA DnsInvStays == ASSUME DnsInv, UNCHANGED vars PROVE DnsInv'
<1>1. UNCHANGED <<opts, job, log, returned, outputs, exit, progressVars>>
  BY DEF vars
<1>2. TypesOK'
  BY <1>1 DEF DnsInv, TypesOK
<1>3. TargetsOK'
  BY <1>1, TargetStays DEF DnsInv, TargetsOK
<1>4. OutputsOK'
  BY <1>1 DEF DnsInv, OutputsOK, AllOver, progressVars
<1>5. ExitOK'
  <2>1. \A t, row : RowFailed(t, row)' <=> RowFailed(t, row)
    BY <1>1 DEF RowFailed, Repeats, Asks, ReverseLookup, Literal
  <2> QED BY <1>1, <2>1 DEF DnsInv, ExitOK
<1>6. ProgressOK'
  BY <1>1, ProgressStays DEF DnsInv
<1> QED BY <1>2, <1>3, <1>4, <1>5, <1>6 DEF DnsInv

LEMMA DnsInvStep == ASSUME DnsInv, [Next]_vars PROVE DnsInv'
<1>1. ASSUME NEW t \in Task, Work(t) PROVE DnsInv'
  <2>1. CASE Begin(t)
    BY <2>1, BeginKeeps
  <2>2. CASE Spawn(t)
    BY <2>2, SpawnKeeps
  <2>3. ASSUME NEW o \in AnyAnswer(t), Answer(t, o) PROVE DnsInv'
    BY <2>3, AnswerKeeps
  <2>4. ASSUME NEW r \in job[t].out, QueryPanics(t, r) PROVE DnsInv'
    BY <2>4, QueryPanicsKeeps
  <2>5. CASE EndRound(t)
    BY <2>5, EndRoundKeeps
  <2>6. ASSUME NEW o \in AnyEndpointAnswer(t), AskEndpoint(t, o) PROVE DnsInv'
    BY <2>6, AskEndpointKeeps
  <2>7. CASE EndType(t)
    BY <2>7, EndTypeKeeps
  <2>8. CASE StepProgress(t)
    BY <2>8, StepProgressKeeps
  <2>9. CASE Return(t)
    BY <2>9, ReturnKeeps
  <2> QED BY <1>1, <2>1, <2>2, <2>3, <2>4, <2>5, <2>6, <2>7, <2>8, <2>9 DEF Work
<1>2. ASSUME NEW t \in Task, TargetPanics(t) PROVE DnsInv'
  BY <1>2, TargetPanicsKeeps
<1>3. CASE Collect
  BY <1>3, CollectKeeps
<1>4. CASE Judged
  BY <1>4, JudgedKeeps
<1>5. CASE Done
  BY <1>5, DnsInvStays DEF Done
<1>6. CASE UNCHANGED vars
  BY <1>6, DnsInvStays
<1> QED BY <1>1, <1>2, <1>3, <1>4, <1>5, <1>6 DEF Next

(* Whatever order the answers come in, and whatever panics, the job of     *)
(* every target and the log of its answers stay in step.                   *)
THEOREM DnsInvariant == Spec => []DnsInv
<1>1. Init => DnsInv
  BY DnsInvBegins
<1>2. DnsInv /\ [Next]_vars => DnsInv'
  BY DnsInvStep
<1> QED BY <1>1, <1>2, PTL DEF Spec

(* However the steps of the tasks interleave, every line drawn has a       *)
(* number of its own, none is skipped, and the completion line is as long  *)
(* as what is left on the terminal.                                        *)
THEOREM ProgressAlwaysHonest == Spec => []ProgressIsHonest
<1>1. DnsInv => ProgressIsHonest
  BY ProgressTells DEF DnsInv
<1> QED BY <1>1, DnsInvariant, PTL

(* A target that is computed has gone through every type and endpoint.     *)
LEMMA ComputedFacts ==
  ASSUME DnsInv, NEW t \in Task, Computed(t)
  PROVE  /\ opts \in Options /\ job[t] \in Job /\ log[t] \in SUBSET Entry
         /\ Listed(t, job[t], log[t]) /\ Asked(job[t])
         /\ job[t].type = Len(opts.types) /\ job[t].endpoint > Len(Endpoints)
<1>1. TargetOK(t, job[t], log[t]) /\ job[t].pc \in {"computed", "returned"} /\ Asks(t)
  BY DEF DnsInv, TargetsOK, Computed
<1>2. Asked(job[t]) /\ Listed(t, job[t], log[t]) /\ Encrypting(t, job[t], log[t])
  BY <1>1 DEF TargetOK, Asked
<1>3. job[t].type = Len(opts.types) /\ job[t].endpoint > Len(Endpoints)
  BY <1>1, <1>2 DEF Encrypting
<1> QED BY <1>2, <1>3 DEF DnsInv, TypesOK

(* Whichever resolver answers first, in whichever round, and whichever     *)
(* target is through first, what is printed is in the order of the command *)
(* line: resolve sorts each round, and collect_outputs the targets.        *)
THEOREM RowsAlwaysCanonical == Spec => []RowsAreCanonical
<1>1. DnsInv => RowsAreCanonical
  <2>1. SUFFICES ASSUME DnsInv PROVE RowsAreCanonical
    OBVIOUS
  <2>2. ASSUME NEW t \in Task, Computed(t)
        PROVE  RowKeys(job[t].rows) =
               FlattenSeq([k \in DOMAIN opts.types |->
                 Keyed(opts.types[k], ClientRows(t, opts.types[k]) \o Endpoints)])
    <3>1. RowKeys(job[t].rows) = FlattenSeq(Blocks(log[t], Len(opts.types)))
      <4>1. RowKeys(job[t].rows) = FlattenSeq(Blocks(log[t], job[t].type))
        BY <2>1, <2>2, ComputedFacts, TypeIsOver
      <4> QED BY <2>1, <2>2, <4>1, ComputedFacts
    <3>2. DOMAIN opts.types = 1..Len(opts.types)
      BY <2>1, <2>2, ComputedFacts, OptionsFacts
    <3>3. \A ty : ClientRows(t, ty) = HeardOf(log[t], ty)
      BY DEF ClientRows, HeardOf, Answers, AnswersIn
    <3>4. Blocks(log[t], Len(opts.types)) =
          [k \in DOMAIN opts.types |->
             Keyed(opts.types[k], ClientRows(t, opts.types[k]) \o Endpoints)]
      BY <3>2, <3>3 DEF Blocks
    <3> QED BY <3>1, <3>4
  <2>3. outputs # None => outputs = Ascending({t \in Task : job[t].pc # "panicked"})
    BY <2>1 DEF DnsInv, OutputsOK
  <2> QED BY <2>2, <2>3 DEF RowsAreCanonical
<1> QED BY <1>1, DnsInvariant, PTL

(* A row of a repeated lookup counts every answer of its resolver once,    *)
(* and every attempt without one as a failure.                             *)
THEOREM CountsAlwaysExact == Spec => []CountsAreExact
<1>1. DnsInv => CountsAreExact
  <2>1. SUFFICES ASSUME DnsInv, NEW t \in Task, Computed(t), Repeats(t),
                        NEW row \in Range(job[t].rows)
                 PROVE  Exact(row, Answers(t, row.type, row.resolver))
    BY DEF CountsAreExact
  <2>2. PICK i \in DOMAIN job[t].rows : row = job[t].rows[i]
    BY DEF Range
  <2>3. Accounted(t, log[t], row)
    BY <2>1, <2>2, ComputedFacts DEF Listed
  <2>4. Answers(t, row.type, row.resolver) = AnswersIn(log[t], row.type, row.resolver)
    BY DEF Answers, AnswersIn
  <2> QED BY <2>1, <2>3, <2>4 DEF Accounted
<1> QED BY <1>1, DnsInvariant, PTL

(* Nothing that answered is without its row.                               *)
LEMMA EveryAnswerHasRow ==
  ASSUME DnsInv, NEW t \in Task, Computed(t), NEW e \in log[t]
  PROVE  \E i \in DOMAIN job[t].rows :
           job[t].rows[i].type = e.of.type /\ job[t].rows[i].resolver = e.of.resolver
<1> DEFINE j == job[t]
<1>1. /\ opts \in Options /\ j \in Job
      /\ Listed(t, j, log[t]) /\ Asked(j) /\ j.endpoint > Len(Endpoints)
  BY ComputedFacts
<1>2. Encrypting(t, j, log[t])
  BY <1>1 DEF DnsInv, TargetsOK, TargetOK, Computed
<1> HIDE DEF j
<1>3. j.endpoint = Len(Endpoints) + 1 /\ Len(Endpoints) \in Nat
  BY <1>1, LabelsFacts DEF Listed
<1>4. Past(j, e.of.type, e.of.resolver)
  <2>1. CASE e.of.type = TypeOf(j)
    <3>1. e \in OfType(j, log[t])
      BY <2>1 DEF OfType
    <3>2. e.of.resolver \in Closed(j)
      <4>1. CASE e.of.resolver \in Resolvers
        BY <1>1, <4>1 DEF Closed
      <4>2. ASSUME NEW m \in 1..Len(Endpoints), e.of.resolver = Endpoints[m]
            PROVE  e.of.resolver \in Closed(j)
        <5>1. m \in 1..(j.endpoint - 1)
          BY <1>3
        <5> QED BY <1>1, <4>2, <5>1 DEF Closed
      <4> QED BY <1>2, <3>1, <4>1, <4>2 DEF Encrypting
    <3> QED BY <2>1, <3>2 DEF Past
  <2>2. CASE e.of.type # TypeOf(j)
    BY <1>1, <2>2 DEF Listed
  <2> QED BY <2>1, <2>2
<1>5. \E i \in DOMAIN j.rows :
        j.rows[i].type = e.of.type /\ j.rows[i].resolver = e.of.resolver
  BY <1>1, <1>4 DEF Listed
<1> QED BY <1>5 DEF j

(* Every answer was good when no failure was counted.                      *)
LEMMA NoFailure ==
  ASSUME NEW row, NEW E, IsFiniteSet(E), opts.count \in Nat,
         Cardinality(E) <= opts.count, Exact(row, E), row.failures \in Nat,
         ~(row.failures > 0)
  PROVE  Cardinality(E) = opts.count /\ \A e \in E : e.of.error = None
<1> DEFINE good == {e \in E : e.of.error = None}
<1>1. /\ good \subseteq E /\ IsFiniteSet(good)
      /\ Cardinality(good) \in Nat /\ Cardinality(E) \in Nat
      /\ Cardinality(good) <= Cardinality(E)
      /\ Cardinality(good) = Cardinality(E) => good = E
  <2>1. good \subseteq E
    OBVIOUS
  <2> HIDE DEF good
  <2> QED BY <2>1, FS_Subset, FS_CardinalityType
<1>2. row.successes = Cardinality(good) /\ row.successes + row.failures = opts.count
  BY DEF Exact
<1> HIDE DEF good
<1>3. row.failures = 0
  OBVIOUS
<1>4. Cardinality(good) = opts.count
  BY <1>1, <1>2, <1>3
<1>5. Cardinality(good) = Cardinality(E)
  BY <1>1, <1>4
<1> QED BY <1>1, <1>4, <1>5 DEF good

(* With --strict, success means what it says: no answer of any target      *)
(* reported is a failure, and none of a repeated lookup is missing.        *)
THEOREM StrictAlwaysEarned == Spec => []StrictIsEarned
<1>1. DnsInv => StrictIsEarned
  <2>1. SUFFICES ASSUME DnsInv, exit # None, exit.strict, exit.ok,
                        NEW t \in Range(outputs), Asks(t)
                 PROVE  /\ \A e \in log[t] : e.of.error = None
                        /\ Repeats(t) =>
                             \A row \in Range(job[t].rows) :
                               Cardinality(Answers(t, row.type, row.resolver)) = opts.count
    BY DEF StrictIsEarned
  <2>2. /\ AllOver /\ outputs = Ascending({u \in Task : job[u].pc # "panicked"})
        /\ \A row \in Range(job[t].rows) : ~RowFailed(t, row)
    BY <2>1 DEF DnsInv, ExitOK, OutputsOK
  <2>3. t \in Task /\ job[t].pc # "panicked"
    <3> DEFINE S == {u \in Task : job[u].pc # "panicked"}
    <3>1. IsFiniteSet(S) /\ S \in SUBSET Int
      <4>1. S \subseteq Task
        OBVIOUS
      <4> HIDE DEF S
      <4>2. S \in SUBSET Int
        BY <4>1, TaskAssumption
      <4>3. IsFiniteSet(S)
        BY <4>1, TaskAssumption, FS_Subset
      <4> QED BY <4>2, <4>3
    <3> HIDE DEF S
    <3>2. Range(Ascending(S)) = S
      BY <3>1, AscendingFacts
    <3> QED BY <2>1, <2>2, <3>2 DEF S
  <2>4. Computed(t)
    BY <2>1, <2>2, <2>3 DEF AllOver, Computed
  <2>5. /\ opts \in Options /\ job[t] \in Job /\ log[t] \in SUBSET Entry
        /\ Listed(t, job[t], log[t]) /\ Asked(job[t])
        /\ job[t].type = Len(opts.types) /\ job[t].endpoint > Len(Endpoints)
    BY <2>1, <2>3, <2>4, ComputedFacts
  <2>6. opts.count \in Nat
    BY <2>5, OptionsFacts
  <2>7. \A row : Answers(t, row.type, row.resolver) = AnswersIn(log[t], row.type, row.resolver)
    BY DEF Answers, AnswersIn
  <2>8. \A i \in DOMAIN job[t].rows : job[t].rows[i] \in Range(job[t].rows)
    BY DEF Range
  <2>9. ASSUME NEW i \in DOMAIN job[t].rows, Repeats(t)
        PROVE  LET E == AnswersIn(log[t], job[t].rows[i].type, job[t].rows[i].resolver)
               IN  Cardinality(E) = opts.count /\ \A e \in E : e.of.error = None
    <3>1. Accounted(t, log[t], job[t].rows[i])
      BY <2>5 DEF Listed
    <3>2. ~(job[t].rows[i].failures > 0)
      BY <2>2, <2>8, <2>9 DEF RowFailed
    <3> QED BY <2>6, <2>9, <3>1, <3>2, NoFailure DEF Accounted
  <2>10. ASSUME NEW e \in log[t] PROVE e.of.error = None
    <3>1. \E i \in DOMAIN job[t].rows :
            job[t].rows[i].type = e.of.type /\ job[t].rows[i].resolver = e.of.resolver
      BY <2>1, <2>3, <2>4, EveryAnswerHasRow
    <3>2. PICK i \in DOMAIN job[t].rows :
            job[t].rows[i].type = e.of.type /\ job[t].rows[i].resolver = e.of.resolver
      BY <3>1
    <3>3. e \in AnswersIn(log[t], job[t].rows[i].type, job[t].rows[i].resolver)
      BY <3>2 DEF AnswersIn
    <3>4. CASE Repeats(t)
      BY <2>9, <3>2, <3>3, <3>4
    <3>5. CASE ~Repeats(t)
      <4>1. Accounted(t, log[t], job[t].rows[i])
        BY <2>5 DEF Listed
      <4>2. e.of = job[t].rows[i]
        BY <3>3, <3>5, <4>1 DEF Accounted
      <4>3. ~RowFailed(t, job[t].rows[i])
        BY <2>2, <2>8, <3>2
      <4> QED BY <3>5, <4>2, <4>3 DEF RowFailed
    <3> QED BY <3>4, <3>5
  <2>11. ASSUME Repeats(t), NEW row \in Range(job[t].rows)
         PROVE  Cardinality(Answers(t, row.type, row.resolver)) = opts.count
    <3>1. PICK i \in DOMAIN job[t].rows : row = job[t].rows[i]
      BY DEF Range
    <3> QED BY <2>7, <2>9, <2>11, <3>1
  <2> QED BY <2>10, <2>11
<1> QED BY <1>1, DnsInvariant, PTL

-----------------------------------------------------------------------------
(***************************************************************************)
(* DnsWire.                                                                *)
(***************************************************************************)

(* Pointers to be followed times positions.                                *)
Turns(h) == h * (Size + 1)

Asker == {"asked", "owner", "rdata"}

Walk ==
  [start : Nat, follows : Nat, pos : Nat, hops : Nat, end : Nat \cup {Nothing},
   labels : Seq(Message), then : Asker]

(* The turns a walk has taken are paid for: the pointers it followed, by a *)
(* whole message each, the labels by the distance they moved it.           *)
Paid ==
  pc = "name" =>
    /\ walk.hops <= walk.follows
    /\ walk.follows <= MaxHops + 1
    /\ work <= Turns(walk.hops) + walk.pos

WireInv ==
  /\ msg \in Message
  /\ pos \in Nat
  /\ walk \in Walk
  /\ pc = "text" => rec.end \in Nat /\ rec.end <= Size
  /\ pc = "query" => work = 0
  /\ work \in Nat
  /\ work <= Turns(MaxHops + 2)
  /\ inside
  /\ Paid

-----------------------------------------------------------------------------
(* Where there is a byte, it is one.                                       *)
LEMMA ByteType ==
  ASSUME msg \in Message, NEW p \in Nat, p < Size
  PROVE Byte(p) \in Octet
<1>1. msg \in Seq(Octet)
  BY DEF Message
<1>2. p + 1 \in 1..Len(msg)
  BY <1>1 DEF Size
<1>3. msg[p + 1] \in Octet
  BY <1>1, <1>2, ElementOfSeq
<1> QED BY <1>3 DEF Byte

LEMMA SizeType == ASSUME msg \in Message PROVE Size \in Nat
BY DEF Message, Size

(* One more pointer is one more message's worth of turns.                  *)
LEMMA OneMore ==
  ASSUME msg \in Message, NEW h \in Nat
  PROVE /\ Turns(h) \in Nat
        /\ Turns(h + 1) = Turns(h) + Size + 1
BY SizeType DEF Turns

LEMMA MoreTurns ==
  ASSUME msg \in Message, NEW h \in Nat, NEW k \in Nat, h <= k
  PROVE Turns(h) <= Turns(k)
<1> DEFINE n == Size + 1
<1>1. n \in Nat
  BY SizeType
<1>2. k - h \in Nat
  OBVIOUS
<1>3. (k - h) * n \in Nat
  BY <1>1, <1>2
<1>4. k * n = h * n + (k - h) * n
  BY <1>1
<1>5. h * n \in Nat
  BY <1>1
<1> QED BY <1>3, <1>4, <1>5 DEF Turns

(* A turn that reads a byte is within what the whole name may take.        *)
LEMMA TurnIsPaid ==
  ASSUME WireInv, AtName, walk.pos < Size
  PROVE /\ work + 1 <= Turns(walk.hops + 1)
        /\ work + 1 <= Turns(MaxHops + 2)
<1>1. /\ walk.hops \in Nat /\ walk.follows \in Nat /\ walk.pos \in Nat /\ work \in Nat
      /\ walk.hops <= walk.follows /\ walk.follows <= MaxHops + 1
      /\ work <= Turns(walk.hops) + walk.pos
  BY DEF WireInv, Walk, Paid, AtName
<1>2. /\ Turns(walk.hops) \in Nat
      /\ Turns(walk.hops + 1) = Turns(walk.hops) + Size + 1
      /\ Size \in Nat
  BY <1>1, OneMore, SizeType DEF WireInv
<1>3. work + 1 <= Turns(walk.hops + 1)
  BY <1>1, <1>2
<1>4. Turns(walk.hops + 1) <= Turns(MaxHops + 2)
  BY <1>1, MoreTurns, MaxHopsAssumption DEF WireInv
<1>5. Turns(walk.hops + 1) \in Nat /\ Turns(MaxHops + 2) \in Nat
  BY <1>1, OneMore, MaxHopsAssumption DEF WireInv
<1> QED BY <1>1, <1>3, <1>4, <1>5

(* A walk begins with nothing to pay.                                      *)
LEMMA WalkBegins ==
  ASSUME WireInv, NEW p \in Nat, NEW follows \in Nat, follows <= MaxHops + 1,
         NEW then \in Asker, WalkFrom(p, follows, then), UNCHANGED msg
  PROVE walk' \in Walk /\ work' = 0 /\ work' <= Turns(MaxHops + 2)' /\ Paid'
<1>1. walk' = [start |-> p, follows |-> follows, pos |-> p, hops |-> 0, end |-> Nothing,
               labels |-> <<>>, then |-> then]
  BY DEF WalkFrom, NoWalk
<1>2. walk' \in Walk
  <2>1. <<>> \in Seq(Message)
    BY EmptySeq
  <2> QED BY <1>1, <2>1 DEF Walk
<1>3. Size' = Size /\ Size \in Nat
  BY SizeType DEF WireInv, Size
<1>4. Turns(0)' = Turns(0) /\ Turns(MaxHops + 2)' = Turns(MaxHops + 2)
  BY <1>3 DEF Turns
<1>5. Turns(0) \in Nat /\ Turns(MaxHops + 2) \in Nat
  BY OneMore, MaxHopsAssumption DEF WireInv
<1>6. work' = 0
  BY DEF WalkFrom
<1>7. Turns(walk.hops)' = Turns(0)'
  BY <1>1 DEF Turns
<1> QED BY <1>1, <1>2, <1>4, <1>5, <1>6, <1>7, MaxHopsAssumption DEF Paid

LEMMA WireInvInit == WireInit => WireInv
<1> SUFFICES ASSUME WireInit PROVE WireInv
  OBVIOUS
<1>1. msg = <<>> /\ pc = "query" /\ pos = 0 /\ inside /\ work = 0
  BY DEF WireInit
<1>2. walk \in Walk
  <2>1. <<>> \in Seq(Message)
    BY EmptySeq
  <2>2. "asked" \in Asker
    BY DEF Asker
  <2>3. walk = NoWalk
    BY DEF WireInit
  <2> QED BY <2>1, <2>2, <2>3 DEF NoWalk, Walk
<1>3. msg \in Message
  BY <1>1, EmptySeq DEF Message
<1>4. Turns(MaxHops + 2) \in Nat
  BY <1>3, OneMore, MaxHopsAssumption
<1> QED BY <1>1, <1>2, <1>3, <1>4 DEF WireInv, Paid

(* A step that neither walks nor receives: what a walk cost stays as it    *)
(* was, if the walk does.                                                  *)
LEMMA OtherStep ==
  ASSUME WireInv, UNCHANGED <<msg, walk, work, inside>>, pos' \in Nat,
         pc' = "text" => rec'.end \in Nat /\ rec'.end <= Size, pc' \notin {"name", "query"}
  PROVE WireInv'
<1>1. Size' = Size /\ Turns(MaxHops + 2)' = Turns(MaxHops + 2)
  BY DEF Size, Turns
<1> QED BY <1>1 DEF WireInv, Paid

(* The parser asks for a name: to skip it, or to read it.                  *)
LEMMA AskStep ==
  ASSUME WireInv, NEW p \in Nat, NEW then \in Asker,
         SkipName(p, then) \/ ReadName(p, then),
         UNCHANGED msg, pos' \in Nat, inside' = TRUE, pc' = "name"
  PROVE WireInv'
<1>1. walk' \in Walk /\ work' = 0 /\ work' <= Turns(MaxHops + 2)' /\ Paid'
  <2>1. CASE SkipName(p, then)
    BY <2>1, WalkBegins, MaxHopsAssumption DEF SkipName
  <2>2. CASE ReadName(p, then)
    BY <2>2, WalkBegins, MaxHopsAssumption DEF ReadName
  <2> QED BY <2>1, <2>2
<1> QED BY <1>1 DEF WireInv

(* A turn that ends in an error.                                           *)
LEMMA InvalidStep ==
  ASSUME WireInv, AtName, InvalidName,
         work' = work \/ (work' = work + 1 /\ walk.pos < Size)
  PROVE WireInv'
<1>1. Size' = Size /\ Turns(MaxHops + 2)' = Turns(MaxHops + 2)
  BY DEF InvalidName, wire, Size, Turns
<1>2. work' \in Nat /\ work' <= Turns(MaxHops + 2)
  BY TurnIsPaid DEF WireInv
<1> QED BY <1>1, <1>2 DEF InvalidName, Fail, wire, loop, WireInv, Paid

LEMMA LabelStep == ASSUME WireInv, ReadLabel PROVE WireInv'
<1> DEFINE end == walk.pos + 1 + Byte(walk.pos)
<1>1. /\ walk.pos \in Nat /\ walk.hops \in Nat /\ walk.pos < Size /\ AtName
      /\ Byte(walk.pos) \in 1..63 /\ work' = work + 1 /\ work \in Nat
  BY DEF ReadLabel, Reads, WireInv, Walk
<1>2. CASE end > Size
  <2>1. InvalidName
    BY <1>2 DEF ReadLabel
  <2> QED BY <1>1, <2>1, InvalidStep
<1>3. CASE ~(end > Size)
  <2> DEFINE label == SubSeq(msg, walk.pos + 2, end)
  <2>1. Advance([walk EXCEPT !.pos = end, !.labels = Append(@, label)])
    BY <1>3 DEF ReadLabel
  <2>0. end \in Nat /\ walk.pos + 2 \in Nat
    BY <1>1
  <2>2. label \in Message
    <3>1. SUFFICES ASSUME NEW i \in walk.pos + 2 .. end PROVE msg[i] \in Octet
      BY <2>0, SubSeqProperties DEF Message
    <3>2. i \in 1..Len(msg)
      BY <1>1, <1>3, <2>0, SizeType DEF WireInv, Size
    <3>3. msg \in Seq(Octet)
      BY DEF WireInv, Message
    <3> QED BY <3>2, <3>3, ElementOfSeq
  <2>3. Append(walk.labels, label) \in Seq(Message)
    <3>1. walk.labels \in Seq(Message)
      BY DEF WireInv, Walk
    <3> QED BY <2>2, <3>1, AppendProperties
  <2>4. walk' \in Walk /\ walk'.hops = walk.hops /\ walk'.follows = walk.follows /\ walk'.pos = end
    BY <2>0, <2>1, <2>3 DEF Advance, WireInv, Walk
  <2>5. UNCHANGED <<msg, pc, pos, inside>>
    BY <2>1 DEF Advance, wire
  <2>6. /\ Turns(MaxHops + 2)' = Turns(MaxHops + 2)
        /\ Turns(walk.hops)' = Turns(walk.hops)
    BY <2>4, <2>5 DEF Turns, Size
  <2>7. work' <= Turns(MaxHops + 2)
    BY <1>1, TurnIsPaid
  <2>8. Turns(walk.hops) \in Nat
    BY <1>1, OneMore DEF WireInv
  <2>9. work' <= Turns(walk.hops) + end
    BY <1>1, <2>8 DEF WireInv, Paid, AtName
  <2>10. pc = "name"
    BY <1>1 DEF AtName
  <2>11. Paid'
    BY <2>4, <2>6, <2>9, <1>1, <2>10 DEF WireInv, Paid
  <2> QED BY <1>1, <2>4, <2>5, <2>6, <2>7, <2>10, <2>11 DEF WireInv
<1> QED BY <1>2, <1>3

LEMMA PointerStep == ASSUME WireInv, Pointer PROVE WireInv'
<1> DEFINE target == 256 * (Byte(walk.pos) - 192) + Byte(walk.pos + 1)
           fails == \/ walk.pos + 1 >= Size
                    \/ target >= Size
                    \/ walk.hops + 1 > walk.follows
<1>1. /\ walk.pos \in Nat /\ walk.hops \in Nat /\ walk.follows \in Nat
      /\ walk.pos < Size /\ AtName /\ pc = "name"
      /\ Byte(walk.pos) \in 192..255 /\ work' = work + 1 /\ work \in Nat
  BY DEF Pointer, Reads, WireInv, Walk, AtName
<1>2. CASE fails
  <2>1. InvalidName
    BY <1>2 DEF Pointer
  <2> QED BY <1>1, <2>1, InvalidStep
<1>3. CASE ~fails
  <2>1. Advance([walk EXCEPT !.pos = target, !.hops = @ + 1, !.end = EndAfterFirst])
    BY <1>3 DEF Pointer
  <2>2. target \in Nat
    <3>1. walk.pos + 1 \in Nat /\ walk.pos + 1 < Size
      BY <1>1, <1>3, SizeType DEF WireInv
    <3>2. Byte(walk.pos + 1) \in 0..255
      BY <3>1, ByteType DEF WireInv, Octet
    <3>3. \A high \in 192..255, low \in 0..255 : 256 * (high - 192) + low \in Nat
      OBVIOUS
    <3> QED BY <1>1, <3>2, <3>3, ZenonT(30)
  <2>3. EndAfterFirst \in Nat \cup {Nothing}
    BY <1>1 DEF EndAfterFirst, WireInv, Walk
  <2>4. /\ walk' \in Walk /\ walk'.hops = walk.hops + 1
        /\ walk'.follows = walk.follows /\ walk'.pos = target
    <3>1. walk' = [walk EXCEPT !.pos = target, !.hops = @ + 1, !.end = EndAfterFirst]
      BY <2>1 DEF Advance
    <3>2. walk \in Walk
      BY DEF WireInv
    <3>3. walk.hops + 1 \in Nat
      BY <1>1
    <3> HIDE DEF target
    <3> QED BY <2>2, <2>3, <3>1, <3>2, <3>3 DEF Walk
  <2>5. UNCHANGED <<msg, pc, pos, inside>>
    BY <2>1 DEF Advance, wire
  <2>6. /\ Turns(MaxHops + 2)' = Turns(MaxHops + 2)
        /\ Turns(walk.hops)' = Turns(walk.hops + 1)
    BY <2>4, <2>5 DEF Turns, Size
  <2>7. work' <= Turns(walk.hops + 1) /\ work' <= Turns(MaxHops + 2)
    BY <1>1, TurnIsPaid
  <2>8. Turns(walk.hops + 1) \in Nat
    BY <1>1, OneMore DEF WireInv
  <2>9. Paid'
    <3>1. walk.hops + 1 <= walk.follows /\ walk.follows <= MaxHops + 1
      BY <1>1, <1>3 DEF WireInv, Paid
    <3>2. work' <= Turns(walk.hops + 1) + target
      BY <1>1, <2>2, <2>7, <2>8
    <3> QED BY <3>1, <3>2, <2>4, <2>6 DEF Paid
  <2> QED BY <1>1, <2>4, <2>5, <2>6, <2>7, <2>9 DEF WireInv
<1> QED BY <1>2, <1>3

(* A name ends: it was there to be read, and ends at a position.           *)
LEMMA NameEndType == ASSUME WireInv PROVE NameEnd \in Nat
BY DEF NameEnd, WireInv, Walk

LEMMA EndNameStep == ASSUME WireInv, EndName PROVE WireInv'
<1>1. NameEnd \in Nat
  BY NameEndType
<1>2. CASE EndQuestionName
  <2>1. pos' \in Nat
    BY <1>1, <1>2 DEF EndQuestionName
  <2> QED BY <1>2, <2>1, OtherStep DEF EndQuestionName, Goto, wire
<1>3. CASE EndOwnerName
  <2>1. pos' \in Nat
    BY <1>1, <1>3 DEF EndOwnerName
  <2> QED BY <1>3, <2>1, OtherStep DEF EndOwnerName, Goto, wire
<1>4. CASE EndRdataName
  <2>1. pos' \in Nat /\ UNCHANGED <<msg, inside>> /\ inside = TRUE /\ pc = "name"
    BY <1>4 DEF EndRdataName, Reads, AtName, wire, WireInv
  <2>2. CASE Len(rec'.names) < Names(want)
    <3>1. ReadName(NameEnd, "rdata") /\ pc' = pc
      BY <1>4, <2>2 DEF EndRdataName
    <3>2. "rdata" \in Asker
      BY DEF Asker
    <3> QED BY <1>1, <2>1, <3>1, <3>2, AskStep
  <2>3. CASE ~(Len(rec'.names) < Names(want))
    <3>1. UNCHANGED <<walk, work>> /\ pc' \in {"over", "answer"}
      BY <1>4, <2>3 DEF EndRdataName, Fail, Push, Goto
    <3> QED BY <2>1, <3>1, OtherStep
  <2> QED BY <2>2, <2>3
<1> QED BY <1>2, <1>3, <1>4 DEF EndName

(* RDATA of a length its type is decoded from has the bytes it is read by. *)
LEMMA FixedFits ==
  ASSUME NEW rdlen \in Nat, Decodable(rdlen) PROVE Fixed <= rdlen /\ Fixed \in Nat
BY DEF Decodable, Fixed, A, AAAA, MX, CAA, SRV

LEMMA RecordStep == ASSUME WireInv, Record PROVE WireInv'
<1> DEFINE type == U16(pos)
           rdlen == U16(pos + 8)
           start == pos + 10
           decoded == type = want /\ Decodable(rdlen)
<1>1. msg' = msg /\ pos \in Nat /\ inside = TRUE /\ pc = "record" /\ Size \in Nat
  BY SizeType DEF Record, WireInv, wire
<1>2. CASE pos + 10 > Size
  <2>1. pc' = "over" /\ UNCHANGED <<pos, rec, walk, inside, work>>
    BY <1>2 DEF Record, Fail
  <2> QED BY <1>1, <2>1, OtherStep
<1>3. CASE ~(pos + 10 > Size) /\ start + rdlen > Size
  <2>1. pc' = "over" /\ UNCHANGED <<pos, rec, walk, inside, work>>
    BY <1>3 DEF Record, Fail
  <2> QED BY <1>1, <2>1, OtherStep
<1>4. CASE ~(pos + 10 > Size) /\ ~(start + rdlen > Size)
  <2>1. rdlen \in Nat
    <3>1. /\ pos + 8 \in Nat /\ pos + 8 < Size
          /\ pos + 8 + 1 \in Nat /\ pos + 8 + 1 < Size
      BY <1>1, <1>4
    <3>2. Byte(pos + 8) \in 0..255 /\ Byte(pos + 8 + 1) \in 0..255
      BY <3>1, ByteType DEF WireInv, Octet
    <3>3. \A high, low \in 0..255 : 256 * high + low \in Nat
      OBVIOUS
    <3> QED BY <3>2, <3>3 DEF U16
  <2>2. /\ pos' = start + rdlen
        /\ rec' = [type |-> type, start |-> start, end |-> start + rdlen, names |-> <<>>]
        /\ inside' = (inside /\ (decoded => Fixed <= rdlen))
    BY <1>4 DEF Record
  <2>3. pos' \in Nat /\ rec'.end \in Nat /\ rec'.end <= Size /\ start \in Nat
    BY <1>1, <1>4, <2>1, <2>2
  <2>4. inside' = TRUE
    BY <1>1, <2>1, <2>2, FixedFits
  <2>5. CASE decoded /\ Names(want) > 0
    <3>1. pc' = "name" /\ ReadName(start + Fixed, "rdata")
      BY <1>4, <2>5 DEF Record, Goto
    <3>2. start + Fixed \in Nat /\ "rdata" \in Asker
      BY <2>1, <2>3, <2>5, FixedFits DEF Asker
    <3> QED BY <1>1, <2>3, <2>4, <3>1, <3>2, AskStep
  <2>6. CASE ~(decoded /\ Names(want) > 0)
    <3>1. /\ work' = work /\ walk' = [NoWalk EXCEPT !.pos = start]
          /\ pc' \in {"answer", "text", "push"}
      BY <1>4, <2>6 DEF Record, Goto
    <3>2. walk' \in Walk
      <4>1. <<>> \in Seq(Message)
        BY EmptySeq
      <4>2. "asked" \in Asker
        BY DEF Asker
      <4> QED BY <2>3, <3>1, <4>1, <4>2 DEF NoWalk, Walk
    <3>3. Size' = Size /\ Turns(MaxHops + 2)' = Turns(MaxHops + 2)
      BY <1>1 DEF Size, Turns
    <3> QED BY <1>1, <2>3, <2>4, <3>1, <3>2, <3>3 DEF WireInv, Paid
  <2> QED BY <2>5, <2>6
<1> QED BY <1>2, <1>3, <1>4

LEMMA TextStep == ASSUME WireInv, TextString PROVE WireInv'
<1> DEFINE end == walk.pos + 1 + Byte(walk.pos)
<1>1. /\ pc = "text" /\ walk.pos \in Nat /\ walk \in Walk /\ Size \in Nat
      /\ walk.pos < rec.end /\ rec.end \in Nat /\ rec.end <= Size
      /\ UNCHANGED <<msg, pos, rec, inside, work>>
  BY SizeType DEF TextString, WireInv, Walk, wire, loop
<1>2. CASE end > rec.end
  <2>1. pc' = "over" /\ walk' = walk
    BY <1>2 DEF TextString, Fail
  <2> QED BY <1>1, <2>1, OtherStep DEF WireInv
<1>3. CASE ~(end > rec.end)
  <2> DEFINE string == Bytes(walk.pos + 1, end)
  <2>1. walk' = [walk EXCEPT !.pos = end, !.labels = Append(@, string)] /\ pc' = pc
    BY <1>3 DEF TextString
  <2>2. Byte(walk.pos) \in 0..255
    BY <1>1, ByteType, SizeType DEF WireInv, Octet
  <2>3. end \in Nat /\ end <= Size
    BY <1>1, <1>3, <2>2
  <2>4. string \in Message
    <3>1. SUFFICES ASSUME NEW i \in walk.pos + 1 + 1 .. end PROVE msg[i] \in Octet
      BY <1>1, <2>3, SubSeqProperties DEF Message, Bytes
    <3>2. i \in 1..Len(msg)
      BY <1>1, <2>3 DEF Size
    <3>3. msg \in Seq(Octet)
      BY DEF WireInv, Message
    <3> QED BY <3>2, <3>3, ElementOfSeq
  <2>5. Append(walk.labels, string) \in Seq(Message)
    <3>1. walk.labels \in Seq(Message)
      BY <1>1 DEF Walk
    <3> QED BY <2>4, <3>1, AppendProperties
  <2>6. walk' \in Walk
    <3> HIDE DEF end, string
    <3> QED BY <1>1, <2>1, <2>3, <2>5 DEF Walk
  <2>7. Size' = Size /\ Turns(MaxHops + 2)' = Turns(MaxHops + 2)
    BY <1>1 DEF Size, Turns
  <2> QED BY <1>1, <2>1, <2>6, <2>7 DEF WireInv, Paid
<1> QED BY <1>2, <1>3

-----------------------------------------------------------------------------
(* The other steps.                                                        *)
LEMMA ReceiveStep ==
  ASSUME WireInv, NEW m, NEW s, pc = "query", Receive(m, s)
  PROVE WireInv'
<1>1. /\ msg' \in Message /\ pc' = "header" /\ work' = 0
      /\ UNCHANGED <<pos, walk, inside>>
  BY DEF WireInv, Receive, Goto
<1>2. Turns(MaxHops + 2)' \in Nat
  <2>1. Size' \in Nat
    BY <1>1 DEF Message, Size
  <2>2. \A h, n \in Nat : h * (n + 1) \in Nat
    OBVIOUS
  <2>3. MaxHops + 2 \in Nat
    BY MaxHopsAssumption
  <2>4. (MaxHops + 2) * (Size' + 1) \in Nat
    BY <2>1, <2>2, <2>3
  <2> QED BY <2>4 DEF Turns
<1> QED BY <1>1, <1>2 DEF WireInv, Paid

LEMMA SearchStep ==
  ASSUME WireInv, NextQuestion \/ NextAnswer
  PROVE WireInv'
<1>1. UNCHANGED <<msg, pos, rec, inside>> /\ pos \in Nat /\ inside = TRUE
  BY DEF NextQuestion, NextAnswer, WireInv, wire, loop
<1>2. CASE NextQuestion /\ questions > 0
  <2>1. pc' = "name" /\ SkipName(pos, "asked")
    BY <1>2 DEF NextQuestion, Goto
  <2> QED BY <1>1, <2>1, AskStep DEF Asker
<1>3. CASE NextAnswer /\ answers > 0
  <2>1. pc' = "name" /\ SkipName(pos, "owner")
    BY <1>3 DEF NextAnswer, Goto
  <2> QED BY <1>1, <2>1, AskStep DEF Asker
<1>4. CASE \/ NextQuestion /\ ~(questions > 0)
           \/ NextAnswer /\ ~(answers > 0)
  <2>1. UNCHANGED <<walk, work>> /\ pc' \in {"answer", "judge"}
    BY <1>4 DEF NextQuestion, NextAnswer, Goto
  <2> QED BY <1>1, <2>1, OtherStep
<1> QED BY <1>2, <1>3, <1>4

LEMMA WireInvStep == WireInv /\ [WireNext]_wireVars => WireInv'
<1> SUFFICES ASSUME WireInv, [WireNext]_wireVars PROVE WireInv'
  OBVIOUS
<1>0. pos \in Nat
  BY DEF WireInv
<1>1. CASE RefuseHost
  BY <1>0, <1>1, OtherStep DEF RefuseHost, Fail, wire
<1>2. CASE Honest
  BY <1>2, ReceiveStep DEF Honest, Built
<1>3. CASE Arbitrary
  BY <1>3, ReceiveStep DEF Arbitrary, Built
<1>4. CASE Header
  <2>1. pos' \in Nat /\ pc' \in {"over", "question"} /\ UNCHANGED <<msg, walk, inside, work>>
    BY <1>0, <1>4 DEF Header, Fail, Goto, wire
  <2> QED BY <2>1, OtherStep
<1>5. CASE NextQuestion \/ NextAnswer
  BY <1>5, SearchStep
<1>6. CASE NameOverruns \/ BadLabel
  BY <1>6, InvalidStep DEF NameOverruns, BadLabel, Reads
<1>7. CASE ReadLabel
  BY <1>7, LabelStep
<1>8. CASE Pointer
  BY <1>8, PointerStep
<1>9. CASE EndName
  BY <1>9, EndNameStep
<1>10. CASE Record
  BY <1>10, RecordStep
<1>11. CASE TextString
  BY <1>11, TextStep
<1>12. CASE EndText \/ PushFixed \/ Conclude
  <2>1. UNCHANGED <<msg, pos, walk, inside, work>> /\ pc' \in {"over", "answer"}
    BY <1>12 DEF EndText, PushFixed, Conclude, Push, Goto, Fail, wire
  <2> QED BY <1>0, <2>1, OtherStep
<1>13. CASE UNCHANGED wireVars
  BY <1>13 DEF wireVars, asked, wire, loop, WireInv, Paid, Turns, Size
<1> QED
  BY <1>1, <1>2, <1>3, <1>4, <1>5, <1>6, <1>7, <1>8, <1>9, <1>10, <1>11, <1>12, <1>13
  DEF WireNext, Parse, Over

(* Whatever an endpoint sends, no byte is indexed outside the message or   *)
(* the record, and every name is given up on within a bounded number of    *)
(* turns: for every limit on pointers and every length of message.         *)
THEOREM AlwaysInside == WireSpec => []StaysInside
<1>1. WireInit => WireInv
  BY WireInvInit
<1>2. WireInv /\ [WireNext]_wireVars => WireInv'
  BY WireInvStep
<1>3. WireInv => StaysInside
  BY DEF WireInv, StaysInside, Turns
<1> QED BY <1>1, <1>2, <1>3, PTL DEF WireSpec

-----------------------------------------------------------------------------
(* What a name denotes is defined by recursion, which has a solution: with *)
(* each turn the pointers left and the bytes ahead, together, get fewer.   *)
Name == [labels : Seq(Message \cup {Nothing}), end : Nat]

Measure(h, p) == Turns(h) + (IF p < Size THEN Size - p ELSE 0)

Below(n) == {e \in Place : Measure(e[1], e[2]) < n}

LEMMA MeasureType ==
  ASSUME msg \in Message, NEW h \in Nat, NEW p \in Nat
  PROVE  Measure(h, p) \in Nat
BY SizeType, OneMore DEF Measure

(* The three ways in which a name goes on, or does not.                    *)
Next1(p) == p + 1 + Byte(p)
Target(p) == U16(p) - 256 * 192
OnRoot(p) == p < Size /\ Byte(p) = 0
OnLabel(p) == p < Size /\ Byte(p) # 0 /\ Byte(p) < 64 /\ Next1(p) <= Size
OnPointer(h, p) == p + 1 < Size /\ Byte(p) >= 192 /\ h > 0

LEMMA NameByCases ==
  ASSUME msg \in Message, NEW h \in Nat, NEW p \in Nat, NEW f
  PROVE  /\ OnRoot(p) => NameBy(f, h, p) = [labels |-> <<>>, end |-> p + 1]
         /\ OnLabel(p) =>
              NameBy(f, h, p) =
                [labels |-> <<Bytes(p + 1, Next1(p))>> \o f[<<h, Next1(p)>>].labels,
                 end |-> f[<<h, Next1(p)>>].end]
         /\ OnPointer(h, p) =>
              NameBy(f, h, p) = [labels |-> f[<<h - 1, Target(p)>>].labels, end |-> p + 2]
         /\ ~OnRoot(p) /\ ~OnLabel(p) /\ ~OnPointer(h, p) =>
              NameBy(f, h, p) = [labels |-> <<Nothing>>, end |-> p]
<1> DEFINE a == [labels |-> <<>>, end |-> p + 1]
           b == [labels |-> <<Bytes(p + 1, p + 1 + Byte(p))>>
                              \o f[<<h, p + 1 + Byte(p)>>].labels,
                 end |-> f[<<h, p + 1 + Byte(p)>>].end]
           c == [labels |-> f[<<h - 1, U16(p) - 256 * 192>>].labels, end |-> p + 2]
           d == [labels |-> <<Nothing>>, end |-> p]
<1>1. NameBy(f, h, p) =
        IF p < Size /\ Byte(p) = 0 THEN a
        ELSE IF p < Size /\ Byte(p) < 64 /\ p + 1 + Byte(p) <= Size THEN b
        ELSE IF p + 1 < Size /\ Byte(p) >= 192 /\ h > 0 THEN c ELSE d
  BY DEF NameBy
<1>2. OnPointer(h, p) => p < Size /\ Byte(p) \in Octet
  BY SizeType, ByteType DEF OnPointer
<1>3. OnPointer(h, p) => ~(Byte(p) = 0) /\ ~(Byte(p) < 64)
  BY <1>2 DEF OnPointer, Octet
<1> HIDE DEF a, b, c, d
<1>4. /\ OnRoot(p) => NameBy(f, h, p) = a
      /\ OnLabel(p) => NameBy(f, h, p) = b
      /\ OnPointer(h, p) => NameBy(f, h, p) = c
      /\ ~OnRoot(p) /\ ~OnLabel(p) /\ ~OnPointer(h, p)
           => NameBy(f, h, p) = d
  BY <1>1, <1>3 DEF OnRoot, OnLabel, OnPointer, Next1
<1> QED BY <1>4 DEF a, b, c, d, Next1, Target

(* Where it goes on, the measure is less.                                  *)
LEMMA GoesDown ==
  ASSUME msg \in Message, NEW h \in 0..MaxHops + 1, NEW p \in Nat
  PROVE  /\ OnLabel(p) =>
              /\ <<h, Next1(p)>> \in Place
              /\ Measure(h, Next1(p)) < Measure(h, p)
              /\ Bytes(p + 1, Next1(p)) \in Message
         /\ OnPointer(h, p) =>
              /\ <<h - 1, Target(p)>> \in Place
              /\ Measure(h - 1, Target(p)) < Measure(h, p)
<1>0. Size \in Nat /\ h \in Nat /\ Turns(h) \in Nat /\ msg \in Seq(Octet)
  <2>1. h \in Nat
    BY MaxHopsAssumption
  <2>2. Turns(h) \in Nat
    BY <2>1, OneMore
  <2> QED BY <2>1, <2>2, SizeType DEF Message
<1>1. ASSUME OnLabel(p)
      PROVE  /\ <<h, Next1(p)>> \in Place
             /\ Measure(h, Next1(p)) < Measure(h, p)
             /\ Bytes(p + 1, Next1(p)) \in Message
  <2>1. p < Size /\ Next1(p) <= Size /\ Byte(p) \in 0..255 /\ Byte(p) # 0
    BY <1>1, ByteType DEF OnLabel, Octet
  <2>2. Next1(p) \in Nat /\ p < Next1(p)
    BY <2>1 DEF Next1
  <2> DEFINE q == Next1(p)
  <2> HIDE DEF q
  <2>3. q \in Nat /\ p < q /\ q <= Size
    BY <2>1, <2>2 DEF q
  <2>4. Measure(h, q) < Measure(h, p)
    BY <1>0, <2>1, <2>3 DEF Measure
  <2>5. Bytes(p + 1, q) \in Message
    <3>1. SUFFICES ASSUME NEW i \in (p + 1) + 1 .. q PROVE msg[i] \in Octet
      BY <2>3, SubSeqProperties DEF Message, Bytes
    <3>2. i \in 1..Len(msg)
      BY <1>0, <2>3 DEF Size
    <3> QED BY <1>0, <3>2, ElementOfSeq
  <2> QED BY <2>3, <2>4, <2>5 DEF q, Place
<1>2. ASSUME OnPointer(h, p)
      PROVE  /\ <<h - 1, Target(p)>> \in Place
             /\ Measure(h - 1, Target(p)) < Measure(h, p)
  <2>1. p < Size /\ Byte(p) \in 0..255 /\ Byte(p + 1) \in 0..255 /\ Byte(p) >= 192 /\ h > 0
    <3>1. p < Size /\ p + 1 < Size /\ p + 1 \in Nat
      BY <1>0, <1>2 DEF OnPointer
    <3> QED BY <1>2, <3>1, ByteType DEF OnPointer, Octet
  <2>2. Target(p) \in Nat
    <3>1. \A high \in 192..255, low \in 0..255 : (256 * high + low) - 256 * 192 \in Nat
      OBVIOUS
    <3>2. Byte(p) \in 192..255
      BY <2>1
    <3>3. (256 * Byte(p) + Byte(p + 1)) - 256 * 192 \in Nat
      BY <2>1, <3>1, <3>2, ZenonT(30)
    <3> QED BY <3>3, Zenon DEF Target, U16
  <2> DEFINE t == Target(p)
             k == h - 1
  <2>3. k \in Nat /\ k + 1 = h /\ k \in 0..MaxHops + 1
    BY <1>0, <2>1, MaxHopsAssumption
  <2>4. Turns(k) \in Nat /\ Turns(h) = Turns(k) + Size + 1
    BY <2>3, OneMore
  <2> HIDE DEF t, k
  <2>5. t \in Nat
    BY <2>2 DEF t
  <2>6. Measure(k, t) < Measure(h, p)
    BY <1>0, <2>1, <2>4, <2>5 DEF Measure
  <2> QED BY <2>3, <2>5, <2>6 DEF t, k, Place
<1> QED BY <1>1, <1>2

LEMMA NothingNamed ==
  /\ <<>> \in Seq(Message \cup {Nothing})
  /\ <<Nothing>> \in Seq(Message \cup {Nothing})
OBVIOUS

LEMMA NoneBelow == ASSUME msg \in Message PROVE Below(0) = {}
<1>1. ASSUME NEW e \in Place PROVE ~(Measure(e[1], e[2]) < 0)
  <2>1. Measure(e[1], e[2]) \in Nat
    BY MeasureType, MaxHopsAssumption DEF Place
  <2> QED BY <2>1
<1> QED BY <1>1 DEF Below

(* A part of the solution, and that it can be extended.                    *)
Part(f, n) ==
  /\ f \in [Below(n) -> Name]
  /\ \A e \in Below(n) : f[e] = NameBy(f, e[1], e[2])

LEMMA Extended ==
  ASSUME msg \in Message, NEW n \in Nat, NEW f, \A e \in Below(n) : f[e] \in Name,
         NEW e \in Below(n + 1)
  PROVE  /\ NameBy(f, e[1], e[2]) \in Name
         /\ \A g : (\A x \in Below(n) : g[x] = f[x])
                     => NameBy(g, e[1], e[2]) = NameBy(f, e[1], e[2])
<1> DEFINE h == e[1]
           p == e[2]
<1>1. h \in 0..MaxHops + 1 /\ h \in Nat /\ p \in Nat /\ Measure(h, p) < n + 1
  BY MaxHopsAssumption DEF Below, Place
<1>2. Measure(h, p) \in Nat
  BY <1>1, MeasureType
<1> HIDE DEF h, p
<1>3. OnLabel(p) => <<h, Next1(p)>> \in Below(n) /\ Bytes(p + 1, Next1(p)) \in Message
  <2> SUFFICES ASSUME OnLabel(p)
               PROVE  <<h, Next1(p)>> \in Below(n) /\ Bytes(p + 1, Next1(p)) \in Message
    OBVIOUS
  <2>1. /\ <<h, Next1(p)>> \in Place /\ Measure(h, Next1(p)) < Measure(h, p)
        /\ Bytes(p + 1, Next1(p)) \in Message
    BY <1>1, GoesDown
  <2>2. Measure(h, Next1(p)) \in Nat
    BY <1>1, <2>1, MeasureType DEF Place
  <2>3. Measure(h, Next1(p)) < n
    BY <1>1, <1>2, <2>1, <2>2
  <2> QED BY <2>1, <2>3 DEF Below
<1>4. OnPointer(h, p) => <<h - 1, Target(p)>> \in Below(n)
  <2> SUFFICES ASSUME OnPointer(h, p) PROVE <<h - 1, Target(p)>> \in Below(n)
    OBVIOUS
  <2>1. <<h - 1, Target(p)>> \in Place /\ Measure(h - 1, Target(p)) < Measure(h, p)
    BY <1>1, GoesDown
  <2>2. Measure(h - 1, Target(p)) \in Nat
    BY <1>1, <2>1, MeasureType, MaxHopsAssumption DEF Place
  <2>3. Measure(h - 1, Target(p)) < n
    BY <1>1, <1>2, <2>1, <2>2
  <2> QED BY <2>1, <2>3 DEF Below
<1>5. NameBy(f, h, p) \in Name
  <2>1. CASE OnRoot(p)
    <3>1. NameBy(f, h, p) = [labels |-> <<>>, end |-> p + 1]
      BY <1>1, <2>1, NameByCases, ZenonT(30)
    <3>2. p + 1 \in Nat
      BY <1>1
    <3> QED BY <3>1, <3>2, NothingNamed DEF Name
  <2>2. CASE OnLabel(p)
    <3> DEFINE r == f[<<h, Next1(p)>>]
               l == <<Bytes(p + 1, Next1(p))>>
    <3>1. r \in Name
      BY <1>3, <2>2
    <3>2. l \in Seq(Message \cup {Nothing})
      BY <1>3, <2>2
    <3>3. NameBy(f, h, p) = [labels |-> l \o r.labels, end |-> r.end]
      BY <1>1, <2>2, NameByCases, ZenonT(30)
    <3> HIDE DEF r, l
    <3>4. r.labels \in Seq(Message \cup {Nothing}) /\ r.end \in Nat
      BY <3>1 DEF Name
    <3>5. l \o r.labels \in Seq(Message \cup {Nothing})
      BY <3>2, <3>4
    <3> QED BY <3>3, <3>4, <3>5 DEF Name
  <2>3. CASE OnPointer(h, p)
    <3> DEFINE r == f[<<h - 1, Target(p)>>]
    <3>1. r \in Name
      BY <1>4, <2>3
    <3>2. NameBy(f, h, p) = [labels |-> r.labels, end |-> p + 2]
      BY <1>1, <2>3, NameByCases, ZenonT(30)
    <3> HIDE DEF r
    <3> QED BY <1>1, <3>1, <3>2 DEF Name
  <2>4. CASE ~OnRoot(p) /\ ~OnLabel(p) /\ ~OnPointer(h, p)
    <3>1. NameBy(f, h, p) = [labels |-> <<Nothing>>, end |-> p]
      BY <1>1, <2>4, NameByCases
    <3> QED BY <1>1, <3>1, NothingNamed DEF Name
  <2> QED BY <2>1, <2>2, <2>3, <2>4
<1>6. ASSUME NEW g, \A x \in Below(n) : g[x] = f[x]
      PROVE  NameBy(g, h, p) = NameBy(f, h, p)
  <2>1. OnLabel(p) => g[<<h, Next1(p)>>] = f[<<h, Next1(p)>>]
    BY <1>3, <1>6
  <2>2. OnPointer(h, p) => g[<<h - 1, Target(p)>>] = f[<<h - 1, Target(p)>>]
    BY <1>4, <1>6
  <2>3. CASE OnRoot(p)
    <3>1. NameBy(f, h, p) = [labels |-> <<>>, end |-> p + 1]
      BY <1>1, <2>3, NameByCases, ZenonT(30)
    <3>2. NameBy(g, h, p) = [labels |-> <<>>, end |-> p + 1]
      BY <1>1, <2>3, NameByCases, ZenonT(30)
    <3> QED BY <3>1, <3>2
  <2>4. CASE OnLabel(p)
    <3>1. NameBy(f, h, p) =
            [labels |-> <<Bytes(p + 1, Next1(p))>> \o f[<<h, Next1(p)>>].labels,
             end |-> f[<<h, Next1(p)>>].end]
      BY <1>1, <2>4, NameByCases, ZenonT(30)
    <3>2. NameBy(g, h, p) =
            [labels |-> <<Bytes(p + 1, Next1(p))>> \o g[<<h, Next1(p)>>].labels,
             end |-> g[<<h, Next1(p)>>].end]
      BY <1>1, <2>4, NameByCases, ZenonT(30)
    <3> QED BY <2>1, <2>4, <3>1, <3>2
  <2>5. CASE OnPointer(h, p)
    <3>1. NameBy(f, h, p) = [labels |-> f[<<h - 1, Target(p)>>].labels, end |-> p + 2]
      BY <1>1, <2>5, NameByCases, ZenonT(30)
    <3>2. NameBy(g, h, p) = [labels |-> g[<<h - 1, Target(p)>>].labels, end |-> p + 2]
      BY <1>1, <2>5, NameByCases, ZenonT(30)
    <3> QED BY <2>2, <2>5, <3>1, <3>2
  <2>6. CASE ~OnRoot(p) /\ ~OnLabel(p) /\ ~OnPointer(h, p)
    <3>1. NameBy(f, h, p) = [labels |-> <<Nothing>>, end |-> p]
      BY <1>1, <2>6, NameByCases
    <3>2. NameBy(g, h, p) = [labels |-> <<Nothing>>, end |-> p]
      BY <1>1, <2>6, NameByCases, ZenonT(30)
    <3> QED BY <3>1, <3>2
  <2> QED BY <2>3, <2>4, <2>5, <2>6
<1> QED BY <1>5, <1>6 DEF h, p

LEMMA PartsExist ==
  ASSUME msg \in Message
  PROVE  \A n \in Nat : \E f : Part(f, n)
<1> DEFINE H == {n \in Nat : \E f : Part(f, n)}
<1>1. 0 \in H
  <2>1. Part([e \in {} |-> 0], 0)
    BY NoneBelow DEF Part
  <2> QED BY <2>1
<1>2. ASSUME NEW n \in Nat, n \in H PROVE n + 1 \in H
  <2>1. PICK f : Part(f, n)
    BY <1>2
  <2> DEFINE g == [e \in Below(n + 1) |-> NameBy(f, e[1], e[2])]
  <2>2. \A e \in Below(n) : f[e] \in Name
    BY <2>1 DEF Part
  <2>3. \A e \in Below(n + 1) : NameBy(f, e[1], e[2]) \in Name
    BY <2>2, Extended
  <2>4. g \in [Below(n + 1) -> Name]
    BY <2>3
  <2>5. \A e \in Below(n) : e \in Below(n + 1)
    <3>1. ASSUME NEW e \in Place, Measure(e[1], e[2]) < n PROVE Measure(e[1], e[2]) < n + 1
      <4>1. Measure(e[1], e[2]) \in Nat
        BY MeasureType, MaxHopsAssumption DEF Place
      <4> QED BY <3>1, <4>1
    <3> QED BY <3>1 DEF Below
  <2>6. \A e \in Below(n) : g[e] = f[e]
    BY <2>1, <2>5 DEF Part
  <2>7. \A e \in Below(n + 1) : g[e] = NameBy(f, e[1], e[2])
    OBVIOUS
  <2> HIDE DEF g
  <2>8. \A e \in Below(n + 1) : NameBy(g, e[1], e[2]) = NameBy(f, e[1], e[2])
    BY <2>2, <2>6, Extended
  <2>9. Part(g, n + 1)
    BY <2>4, <2>7, <2>8 DEF Part
  <2> QED BY <2>9
<1> HIDE DEF H
<1>3. \A n \in Nat : n \in H
  BY ONLY <1>1, <1>2, SetInduction
<1> QED BY <1>3 DEF H

(* So there is one for all places, and it is what the definition chooses.  *)
LEMMA DenotesFacts ==
  ASSUME msg \in Message
  PROVE  /\ \A e \in Place : Denotes[e] \in Name
         /\ \A e \in Place : Denotes[e] = NameBy(Denotes, e[1], e[2])
<1> DEFINE N == Turns(MaxHops + 2)
<1>1. N \in Nat
  BY OneMore, MaxHopsAssumption
<1>2. ASSUME NEW e \in Place PROVE e \in Below(N)
  <2>1. e[1] \in Nat /\ e[1] <= MaxHops + 1 /\ e[2] \in Nat /\ Size \in Nat
    BY SizeType, MaxHopsAssumption DEF Place
  <2> DEFINE h == e[1]
  <2>2. Turns(h) \in Nat /\ Turns(h + 1) = Turns(h) + Size + 1
    BY <2>1, OneMore
  <2>3. Turns(h + 1) <= N
    BY <2>1, MoreTurns, MaxHopsAssumption
  <2> HIDE DEF h, N
  <2>4. Measure(h, e[2]) < N
    BY <1>1, <2>1, <2>2, <2>3 DEF Measure
  <2> QED BY <2>4 DEF Below, h
<1>3. Below(N) = Place
  BY <1>2 DEF Below
<1>4. PICK f : Part(f, N)
  BY <1>1, PartsExist
<1> HIDE DEF N
<1> DEFINE Solves(g) == g = [e \in Place |-> NameBy(g, e[1], e[2])]
<1>5. Solves(f)
  BY <1>3, <1>4 DEF Part
<1>6. Denotes = CHOOSE g : Solves(g)
  BY DEF Denotes
<1> DEFINE d == Denotes
<1>7. Solves(d)
  BY <1>5, <1>6
<1> HIDE DEF d
<1>8. \A e \in Place : d[e] = NameBy(d, e[1], e[2])
  BY <1>7
<1> DEFINE H == {n \in Nat : \A e \in Below(n) : d[e] \in Name}
<1>9. 0 \in H
  BY NoneBelow
<1>10. ASSUME NEW n \in Nat, n \in H PROVE n + 1 \in H
  <2>1. \A e \in Below(n) : d[e] \in Name
    BY <1>10
  <2>2. ASSUME NEW e \in Below(n + 1) PROVE d[e] \in Name
    <3>1. NameBy(d, e[1], e[2]) \in Name
      BY <2>1, Extended
    <3>2. e \in Place
      BY DEF Below
    <3> QED BY <1>8, <3>1, <3>2
  <2> QED BY <2>2
<1> HIDE DEF H
<1>11. \A n \in Nat : n \in H
  BY ONLY <1>9, <1>10, SetInduction
<1>12. \A e \in Place : d[e] \in Name
  BY <1>1, <1>3, <1>11 DEF H
<1> QED BY <1>8, <1>12 DEF d

-----------------------------------------------------------------------------
(* What a walk has read so far, and the name at which it is, make up the   *)
(* name at which it started.                                               *)
Whole == Denotes[<<walk.follows, walk.start>>]
Rest == Denotes[<<walk.follows - walk.hops, walk.pos>>]

WalkOK ==
  AtName =>
    /\ Whole.labels = walk.labels \o Rest.labels
    /\ Whole.end = IF walk.end = Nothing THEN Rest.end ELSE walk.end

NameInv == WireInv /\ WalkOK /\ (result = Nothing \/ pc = "over")

LEMMA DenotesSame == ASSUME UNCHANGED msg PROVE Denotes' = Denotes
BY DEF Denotes, NameBy, Byte, Size, Bytes, U16, Place

LEMMA DenotesCases ==
  ASSUME msg \in Message, NEW h \in 0..MaxHops + 1, NEW p \in Nat
  PROVE  /\ <<h, p>> \in Place
         /\ Denotes[<<h, p>>].labels \in Seq(Message \cup {Nothing})
         /\ OnRoot(p) => Denotes[<<h, p>>] = [labels |-> <<>>, end |-> p + 1]
         /\ OnLabel(p) =>
              Denotes[<<h, p>>] =
                [labels |-> <<Bytes(p + 1, Next1(p))>> \o Denotes[<<h, Next1(p)>>].labels,
                 end |-> Denotes[<<h, Next1(p)>>].end]
         /\ OnPointer(h, p) =>
              Denotes[<<h, p>>] =
                [labels |-> Denotes[<<h - 1, Target(p)>>].labels, end |-> p + 2]
         /\ ~OnRoot(p) /\ ~OnLabel(p) /\ ~OnPointer(h, p) =>
              Denotes[<<h, p>>] = [labels |-> <<Nothing>>, end |-> p]
<1> DEFINE d == Denotes
           e == <<h, p>>
<1>1. e \in Place /\ e[1] = h /\ e[2] = p /\ h \in Nat
  BY MaxHopsAssumption DEF Place
<1>2. d[e] \in Name /\ d[e] = NameBy(d, e[1], e[2])
  BY <1>1, DenotesFacts
<1> HIDE DEF d
<1>3. d[e] = NameBy(d, h, p) /\ d[e].labels \in Seq(Message \cup {Nothing})
  BY <1>1, <1>2 DEF Name
<1>4. /\ OnRoot(p) => d[e] = [labels |-> <<>>, end |-> p + 1]
      /\ OnLabel(p) =>
           d[e] = [labels |-> <<Bytes(p + 1, Next1(p))>> \o d[<<h, Next1(p)>>].labels,
                   end |-> d[<<h, Next1(p)>>].end]
      /\ OnPointer(h, p) =>
           d[e] = [labels |-> d[<<h - 1, Target(p)>>].labels, end |-> p + 2]
      /\ ~OnRoot(p) /\ ~OnLabel(p) /\ ~OnPointer(h, p) =>
           d[e] = [labels |-> <<Nothing>>, end |-> p]
  <2> DEFINE n == NameBy(d, h, p)
  <2>1. /\ OnRoot(p) => n = [labels |-> <<>>, end |-> p + 1]
        /\ OnLabel(p) =>
             n = [labels |-> <<Bytes(p + 1, Next1(p))>> \o d[<<h, Next1(p)>>].labels,
                  end |-> d[<<h, Next1(p)>>].end]
        /\ OnPointer(h, p) =>
             n = [labels |-> d[<<h - 1, Target(p)>>].labels, end |-> p + 2]
        /\ ~OnRoot(p) /\ ~OnLabel(p) /\ ~OnPointer(h, p) =>
             n = [labels |-> <<Nothing>>, end |-> p]
    BY <1>1, NameByCases, ZenonT(30)
  <2> QED BY <1>3, <2>1
<1> QED BY <1>1, <1>3, <1>4 DEF d

(* What is known of a walk.                                                *)
LEMMA WalkFacts ==
  ASSUME WireInv, AtName
  PROVE  /\ msg \in Message /\ Size \in Nat
         /\ walk \in Walk /\ walk.pos \in Nat /\ walk.labels \in Seq(Message)
         /\ walk.hops \in Nat /\ walk.follows \in Nat /\ walk.start \in Nat
         /\ walk.follows \in 0..MaxHops + 1
         /\ walk.follows - walk.hops \in 0..MaxHops + 1
BY SizeType, MaxHopsAssumption DEF WireInv, Walk, Paid, AtName

(* The parser asks for a name.                                             *)
LEMMA NameBegins ==
  ASSUME msg \in Message, NEW p \in Nat, NEW follows \in 0..MaxHops + 1, NEW then,
         WalkFrom(p, follows, then), UNCHANGED msg
  PROVE  WalkOK'
<1>1. walk' = [start |-> p, follows |-> follows, pos |-> p, hops |-> 0, end |-> Nothing,
               labels |-> <<>>, then |-> then]
  BY DEF WalkFrom, NoWalk
<1>2. /\ walk'.start = p /\ walk'.follows = follows /\ walk'.pos = p
      /\ walk'.follows - walk'.hops = follows /\ walk'.end = Nothing /\ walk'.labels = <<>>
  BY <1>1, MaxHopsAssumption
<1> DEFINE d == Denotes[<<follows, p>>]
<1>3. Denotes' = Denotes
  BY DenotesSame
<1>4. Whole' = d /\ Rest' = d
  BY <1>2, <1>3 DEF Whole, Rest
<1>5. d.labels \in Seq(Message \cup {Nothing})
  BY DenotesCases
<1> HIDE DEF d
<1>6. d.labels = <<>> \o d.labels
  BY <1>5
<1> QED BY <1>2, <1>4, <1>6 DEF WalkOK

LEMMA LabelKeeps == ASSUME WireInv, WalkOK, ReadLabel PROVE WalkOK'
<1> DEFINE p == walk.pos
           h == walk.follows - walk.hops
           q == Next1(p)
           label == Bytes(p + 1, q)
<1>1. /\ AtName /\ p < Size /\ Byte(p) \in 1..63 /\ UNCHANGED msg
  BY DEF ReadLabel, Reads, InvalidName, Advance, wire
<1>2. /\ msg \in Message /\ p \in Nat /\ h \in 0..MaxHops + 1
      /\ walk \in Walk /\ walk.labels \in Seq(Message)
  BY <1>1, WalkFacts
<1>0. q \in Nat /\ Size \in Nat /\ q = walk.pos + 1 + Byte(walk.pos)
  <2>1. q = walk.pos + 1 + Byte(walk.pos)
    BY DEF Next1
  <2>2. Size \in Nat
    BY <1>2, SizeType
  <2>3. \A b \in 1..63 : walk.pos + 1 + b \in Nat
    <3>1. walk.pos \in Nat
      BY <1>2
    <3> QED BY <3>1
  <2>4. walk.pos + 1 + Byte(walk.pos) \in Nat
    BY <1>1, <2>3
  <2> QED BY <2>1, <2>2, <2>4
<1>3. CASE ~(q <= Size)
  <2>1. q > Size
    <3> HIDE DEF q
    <3> QED BY <1>0, <1>3
  <2>2. InvalidName
    BY <2>1 DEF ReadLabel, Next1
  <2> QED BY <2>2 DEF InvalidName, Fail, WalkOK, AtName
<1>4. CASE q <= Size
  <2>1. OnLabel(p)
    BY <1>1, <1>4 DEF OnLabel
  <2>2. ~(q > Size)
    <3> HIDE DEF q
    <3> QED BY <1>0, <1>4
  <2>3. walk' = [walk EXCEPT !.pos = q, !.labels = Append(@, SubSeq(msg, p + 2, q))]
    BY <2>2 DEF ReadLabel, Next1, Advance
  <2>4. label = SubSeq(msg, p + 2, q)
    <3>1. (p + 1) + 1 = p + 2
      BY <1>2
    <3> QED BY <3>1 DEF Bytes
  <2>5. /\ <<h, q>> \in Place /\ label \in Message
        /\ Denotes[<<h, p>>].labels = <<label>> \o Denotes[<<h, q>>].labels
        /\ Denotes[<<h, p>>].end = Denotes[<<h, q>>].end
    <3>1. <<h, q>> \in Place /\ label \in Message
      BY <1>2, <2>1, GoesDown
    <3>2. Denotes[<<h, p>>] =
            [labels |-> <<label>> \o Denotes[<<h, q>>].labels,
             end |-> Denotes[<<h, q>>].end]
      BY <1>2, <2>1, DenotesCases
    <3> DEFINE r == Denotes[<<h, q>>]
               n == Denotes[<<h, p>>]
    <3> HIDE DEF r, n, label
    <3>3. n.labels = <<label>> \o r.labels /\ n.end = r.end
      BY <3>2 DEF r, n
    <3> QED BY <3>1, <3>3 DEF r, n
  <2>6. Denotes[<<h, q>>].labels \in Seq(Message \cup {Nothing})
    BY <2>5, DenotesFacts, <1>2 DEF Name
  <2> HIDE DEF label, q
  <2>7. /\ walk'.pos = q /\ walk'.labels = Append(walk.labels, label)
        /\ walk'.follows = walk.follows /\ walk'.hops = walk.hops
        /\ walk'.start = walk.start /\ walk'.end = walk.end
    BY <1>2, <2>3, <2>4 DEF Walk
  <2>8. Denotes' = Denotes
    BY <1>1, DenotesSame
  <2>9. Whole' = Whole /\ Rest' = Denotes[<<h, q>>] /\ Rest = Denotes[<<h, p>>]
    BY <2>7, <2>8 DEF Whole, Rest
  <2> DEFINE rest == Denotes[<<h, q>>].labels
  <2>10. /\ Whole.labels = walk.labels \o (<<label>> \o rest)
         /\ Whole.end = IF walk.end = Nothing THEN Denotes[<<h, q>>].end ELSE walk.end
    BY <1>1, <2>5, <2>9 DEF WalkOK
  <2>11. walk.labels \o (<<label>> \o rest) = Append(walk.labels, label) \o rest
    <3> HIDE DEF rest
    <3>1. walk.labels \in Seq(Message \cup {Nothing}) /\ rest \in Seq(Message \cup {Nothing})
      BY <1>2, <2>6, WiderSeq DEF rest
    <3>2. label \in Message \cup {Nothing}
      BY <2>5
    <3> DEFINE a == walk.labels
               b == <<label>>
    <3>3. a \in Seq(Message \cup {Nothing}) /\ b \in Seq(Message \cup {Nothing})
      BY <3>1, <3>2
    <3> HIDE DEF a, b
    <3>4. a \o (b \o rest) = (a \o b) \o rest
      BY <3>1, <3>3, ConcatAssociative, SMTT(30)
    <3>5. walk.labels \o <<label>> = Append(walk.labels, label)
      BY <3>1, <3>2
    <3> QED BY <3>4, <3>5 DEF a, b
  <2> QED BY <2>7, <2>9, <2>10, <2>11 DEF WalkOK
<1> QED BY <1>3, <1>4

LEMMA PointerKeeps == ASSUME WireInv, WalkOK, Pointer PROVE WalkOK'
<1> DEFINE p == walk.pos
           h == walk.follows - walk.hops
           t == 256 * (Byte(p) - 192) + Byte(p + 1)
<1>1. /\ AtName /\ p < Size /\ Byte(p) \in 192..255 /\ UNCHANGED msg
  BY DEF Pointer, Reads, InvalidName, Advance, wire
<1>2. /\ msg \in Message /\ p \in Nat /\ h \in 0..MaxHops + 1 /\ Size \in Nat
      /\ walk \in Walk /\ walk.hops \in Nat /\ walk.follows \in Nat
  BY <1>1, WalkFacts
<1>3. CASE InvalidName
  BY <1>3 DEF InvalidName, Fail, WalkOK, AtName
<1>4. CASE ~InvalidName
  <2>1. /\ ~(p + 1 >= Size) /\ ~(t >= Size) /\ ~(walk.hops + 1 > walk.follows)
        /\ walk' = [walk EXCEPT !.pos = t, !.hops = @ + 1, !.end = EndAfterFirst]
    BY <1>4 DEF Pointer, Advance
  <2>2. OnPointer(h, p)
    BY <1>1, <1>2, <2>1 DEF OnPointer
  <2>3. t = Target(p)
    <3>1. Byte(p + 1) \in 0..255
      BY <1>2, <2>1, ByteType DEF Octet
    <3> QED BY <1>1, <3>1, SMTT(30) DEF Target, U16
  <2>4. /\ Denotes[<<h, p>>].labels = Denotes[<<h - 1, t>>].labels
        /\ Denotes[<<h, p>>].end = p + 2
    <3>1. Denotes[<<h, p>>] = [labels |-> Denotes[<<h - 1, Target(p)>>].labels, end |-> p + 2]
      BY <1>2, <2>2, DenotesCases
    <3> HIDE DEF t
    <3> QED BY <2>3, <3>1
  <2> HIDE DEF t
  <2>5. /\ walk'.pos = t /\ walk'.labels = walk.labels
        /\ walk'.follows = walk.follows /\ walk'.hops = walk.hops + 1
        /\ walk'.start = walk.start /\ walk'.end = EndAfterFirst
    BY <1>2, <2>1 DEF Walk
  <2>6. walk'.follows - walk'.hops = h - 1
    BY <1>2, <2>5
  <2>7. Denotes' = Denotes
    BY <1>1, DenotesSame
  <2>8. Whole' = Whole /\ Rest' = Denotes[<<h - 1, t>>] /\ Rest = Denotes[<<h, p>>]
    BY <2>5, <2>6, <2>7 DEF Whole, Rest
  <2>9. /\ Whole.labels = walk.labels \o Rest'.labels
        /\ Whole.end = IF walk.end = Nothing THEN p + 2 ELSE walk.end
    BY <1>1, <2>4, <2>8 DEF WalkOK
  <2>10. walk'.end # Nothing /\ Whole.end = walk'.end
    <3>1. p + 2 \in Nat
      BY <1>2
    <3> QED BY <2>5, <2>9, <3>1, NothingAssumption DEF EndAfterFirst
  <2> QED BY <2>5, <2>8, <2>9, <2>10 DEF WalkOK
<1> QED BY <1>3, <1>4

LEMMA WalkStep == ASSUME WireInv, WalkOK, [WireNext]_wireVars PROVE WalkOK'
<1>0. MaxHops \in 0..MaxHops + 1 /\ MaxHops + 1 \in 0..MaxHops + 1 /\ pos \in Nat
      /\ msg \in Message
  BY MaxHopsAssumption DEF WireInv
<1>1. CASE NextQuestion \/ NextAnswer
  <2>1. UNCHANGED msg
    BY <1>1 DEF NextQuestion, NextAnswer, wire
  <2>2. CASE pc' = "name"
    <3>1. \E then : WalkFrom(pos, MaxHops + 1, then)
      BY <1>1, <2>2 DEF NextQuestion, NextAnswer, SkipName, Goto
    <3> QED BY <1>0, <2>1, <3>1, NameBegins
  <2>3. CASE pc' # "name"
    BY <2>3 DEF WalkOK, AtName
  <2> QED BY <2>2, <2>3
<1>2. CASE Record
  <2>1. UNCHANGED msg
    BY <1>2 DEF Record, wire
  <2>2. CASE pc' = "name"
    <3>1. \E then : WalkFrom(pos + 10 + Fixed, MaxHops, then)
      BY <1>2, <2>2 DEF Record, ReadName, Goto, Fail
    <3>2. Fixed \in Nat
      BY DEF Fixed
    <3>3. pos + 10 + Fixed \in Nat
      BY <1>0, <3>2
    <3> QED BY <1>0, <2>1, <3>1, <3>3, NameBegins
  <2>3. CASE pc' # "name"
    BY <2>3 DEF WalkOK, AtName
  <2> QED BY <2>2, <2>3
<1>3. CASE EndRdataName
  <2>1. UNCHANGED msg /\ NameEnd \in Nat
    BY <1>3, NameEndType DEF EndRdataName, wire
  <2>2. CASE Len(rec'.names) < Names(want)
    <3>1. WalkFrom(NameEnd, MaxHops, "rdata")
      BY <1>3, <2>2 DEF EndRdataName, ReadName
    <3> QED BY <1>0, <2>1, <3>1, NameBegins
  <2>3. CASE ~(Len(rec'.names) < Names(want))
    <3>1. pc' \in {"over", "answer"}
      BY <1>3, <2>3 DEF EndRdataName, Fail, Push, Goto
    <3> QED BY <3>1 DEF WalkOK, AtName
  <2> QED BY <2>2, <2>3
<1>4. CASE ReadLabel
  BY <1>4, LabelKeeps
<1>5. CASE Pointer
  BY <1>5, PointerKeeps
<1>6. CASE UNCHANGED wireVars
  <2>1. UNCHANGED <<msg, pc, walk>>
    BY <1>6 DEF wireVars, wire
  <2>2. Denotes' = Denotes
    BY <2>1, DenotesSame
  <2> QED BY <2>1, <2>2 DEF WalkOK, Whole, Rest, AtName
<1>7. CASE \/ RefuseHost \/ Honest \/ Arbitrary \/ Header \/ NameOverruns \/ BadLabel
           \/ EndQuestionName \/ EndOwnerName \/ EndText \/ PushFixed \/ Conclude
  <2>1. pc' # "name"
    BY <1>7
    DEF RefuseHost, Honest, Arbitrary, Receive, Header, NameOverruns, BadLabel,
        InvalidName, EndQuestionName, EndOwnerName, EndText, PushFixed, Conclude, Push,
        Goto, Fail
  <2> QED BY <2>1 DEF WalkOK, AtName
<1>8. CASE TextString
  <2>1. pc' # "name"
    BY <1>8 DEF TextString, Fail
  <2> QED BY <2>1 DEF WalkOK, AtName
<1> QED
  BY <1>1, <1>2, <1>3, <1>4, <1>5, <1>6, <1>7, <1>8 DEF WireNext, Parse, EndName, Over

LEMMA ResultStep ==
  ASSUME result = Nothing \/ pc = "over", [WireNext]_wireVars
  PROVE  result' = Nothing \/ pc' = "over"
<1>1. CASE result' = result /\ pc # "over"
  BY <1>1
<1>2. CASE pc = "over"
  <2>1. UNCHANGED wireVars
    BY <1>2
    DEF WireNext, Parse, EndName, Over, RefuseHost, Honest, Arbitrary, Built, Header,
        NextQuestion, NextAnswer, NameOverruns, BadLabel, ReadLabel, Pointer, Reads,
        AtName, EndQuestionName, EndOwnerName, EndRdataName, Record, TextString,
        EndText, PushFixed, Conclude
  <2> QED BY <1>2, <2>1 DEF wireVars
<1>3. CASE result' # result
  BY <1>3
  DEF WireNext, Parse, EndName, Over, RefuseHost, Honest, Arbitrary, Receive, Header,
      NextQuestion, NextAnswer, NameOverruns, BadLabel, ReadLabel, Pointer, InvalidName,
      Advance, EndQuestionName, EndOwnerName, EndRdataName, Record, TextString, Push,
      EndText, PushFixed, Conclude, Goto, Fail, wireVars
<1> QED BY <1>1, <1>2, <1>3

LEMMA NameInvStep == NameInv /\ [WireNext]_wireVars => NameInv'
BY WireInvStep, WalkStep, ResultStep DEF NameInv

LEMMA NameInvInit == WireInit => NameInv
<1> SUFFICES ASSUME WireInit PROVE NameInv
  OBVIOUS
<1>1. WireInv
  BY WireInvInit
<1>2. pc = "query" /\ result = Nothing
  BY DEF WireInit
<1> QED BY <1>1, <1>2 DEF NameInv, WalkOK, AtName

(* A walk that fails is at a place where there is no name, so what is left *)
(* of the name at which it started is its absence.                         *)
LEMMA FailsNowhere ==
  ASSUME NameInv, AtName, [WireNext]_wireVars, ~Reads({0}), result' # Nothing
  PROVE  Rest.labels = <<Nothing>>
<1> DEFINE p == walk.pos
           h == walk.follows - walk.hops
           q == Next1(p)
           t == Target(p)
<1>1. WireInv /\ pc = "name" /\ result = Nothing
  BY DEF NameInv, AtName
<1>2. /\ msg \in Message /\ Size \in Nat /\ p \in Nat /\ h \in 0..MaxHops + 1
      /\ walk.hops \in Nat /\ walk.follows \in Nat
  BY <1>1, WalkFacts
<1>3. NameOverruns \/ BadLabel \/ ReadLabel \/ Pointer
  BY <1>1
  DEF WireNext, Parse, EndName, Over, RefuseHost, Honest, Arbitrary, Built, Header,
      NextQuestion, NextAnswer, EndQuestionName, EndOwnerName, EndRdataName, Record,
      TextString, EndText, PushFixed, Conclude, Reads, wireVars
<1>4. SUFFICES Denotes[<<h, p>>].labels = <<Nothing>>
  BY DEF Rest
<1>5. ASSUME ~OnRoot(p), ~OnLabel(p), ~OnPointer(h, p)
      PROVE  Denotes[<<h, p>>].labels = <<Nothing>>
  <2>1. Denotes[<<h, p>>] = [labels |-> <<Nothing>>, end |-> p]
    BY <1>2, <1>5, DenotesCases
  <2> DEFINE d == Denotes[<<h, p>>]
  <2> HIDE DEF d
  <2>2. d.labels = <<Nothing>>
    BY <2>1 DEF d
  <2> QED BY <2>2 DEF d
<1>6. CASE NameOverruns
  <2>1. p >= Size
    BY <1>6 DEF NameOverruns
  <2>2. ~OnRoot(p) /\ ~OnLabel(p) /\ ~OnPointer(h, p)
    BY <1>2, <2>1 DEF OnRoot, OnLabel, OnPointer
  <2> QED BY <1>5, <2>2
<1>7. CASE BadLabel
  <2>1. Byte(p) \in 64..191
    BY <1>7 DEF BadLabel, Reads
  <2>2. ~OnRoot(p) /\ ~OnLabel(p) /\ ~OnPointer(h, p)
    BY <2>1 DEF OnRoot, OnLabel, OnPointer
  <2> QED BY <1>5, <2>2
<1>8. CASE ReadLabel
  <2>1. Byte(p) \in 1..63
    BY <1>8 DEF ReadLabel, Reads
  <2>2. p + 1 + Byte(p) > Size
    BY <1>1, <1>8 DEF ReadLabel, Advance
  <2>3. q = p + 1 + Byte(p)
    BY DEF Next1
  <2> HIDE DEF q
  <2>4. ~(q <= Size)
    BY <1>2, <2>1, <2>2, <2>3
  <2>5. ~OnRoot(p) /\ ~OnLabel(p) /\ ~OnPointer(h, p)
    BY <2>1, <2>4 DEF OnRoot, OnLabel, OnPointer, q
  <2> QED BY <1>5, <2>5
<1>9. CASE Pointer
  <2>1. Byte(p) \in 192..255
    BY <1>9 DEF Pointer, Reads
  <2>2. \/ p + 1 >= Size
        \/ 256 * (Byte(p) - 192) + Byte(p + 1) >= Size
        \/ walk.hops + 1 > walk.follows
    BY <1>1, <1>9 DEF Pointer, Advance
  <2>3. ~OnRoot(p) /\ ~OnLabel(p)
    BY <2>1 DEF OnRoot, OnLabel
  <2>4. CASE p + 1 >= Size \/ walk.hops + 1 > walk.follows
    <3>1. ~OnPointer(h, p)
      BY <1>2, <2>4 DEF OnPointer
    <3> QED BY <1>5, <2>3, <3>1
  <2>5. CASE p + 1 < Size /\ h > 0 /\ 256 * (Byte(p) - 192) + Byte(p + 1) >= Size
    <3>1. OnPointer(h, p)
      BY <2>1, <2>5 DEF OnPointer
    <3>2. <<h - 1, t>> \in Place
      BY <1>2, <3>1, GoesDown
    <3>3. h - 1 \in 0..MaxHops + 1 /\ t \in Nat
      BY <3>2 DEF Place
    <3>4. t >= Size
      <4>1. Byte(p + 1) \in 0..255
        BY <1>2, <2>5, ByteType DEF Octet
      <4>2. t = (256 * Byte(p) + Byte(p + 1)) - 256 * 192
        BY DEF Target, U16
      <4> HIDE DEF t
      <4> QED BY <1>2, <2>1, <2>5, <4>1, <4>2, SMTT(30)
    <3> HIDE DEF t
    <3>5. ~OnRoot(t) /\ ~OnLabel(t) /\ ~OnPointer(h - 1, t)
      BY <1>2, <3>3, <3>4 DEF OnRoot, OnLabel, OnPointer
    <3> DEFINE d == Denotes[<<h, p>>]
               r == Denotes[<<h - 1, t>>]
    <3>6. r = [labels |-> <<Nothing>>, end |-> t]
      BY <1>2, <3>3, <3>5, DenotesCases
    <3>7. d = [labels |-> r.labels, end |-> p + 2]
      BY <1>2, <3>1, DenotesCases DEF t
    <3> HIDE DEF d, r
    <3>8. d.labels = <<Nothing>>
      BY <3>6, <3>7
    <3> QED BY <3>8 DEF d
  <2> QED BY <1>2, <2>2, <2>4, <2>5
<1> QED BY <1>3, <1>6, <1>7, <1>8, <1>9

(* A walk that ends has read its name, and one that fails was not at one.  *)
LEMMA EndsAsDefined ==
  ASSUME NameInv, [WireNext]_wireVars, AtName
  PROVE  IF Reads({0})
         THEN walk.labels = Whole.labels /\ NameEnd = Whole.end
         ELSE result' # Nothing => Nothing \in ToSet(Whole.labels)
<1>1. /\ msg \in Message /\ walk.pos \in Nat /\ walk.labels \in Seq(Message)
      /\ walk.follows - walk.hops \in 0..MaxHops + 1
      /\ Whole.labels = walk.labels \o Rest.labels
      /\ Whole.end = IF walk.end = Nothing THEN Rest.end ELSE walk.end
  BY WalkFacts DEF NameInv, WalkOK
<1>2. CASE Reads({0})
  <2>1. OnRoot(walk.pos)
    BY <1>2 DEF Reads, OnRoot
  <2>2. Rest = [labels |-> <<>>, end |-> walk.pos + 1]
    BY <1>1, <2>1, DenotesCases DEF Rest
  <2>3. Rest.labels = <<>> /\ Rest.end = walk.pos + 1
    <3> DEFINE r == Rest
    <3> HIDE DEF r
    <3>1. r.labels = <<>> /\ r.end = walk.pos + 1
      BY <2>2 DEF r
    <3> QED BY <3>1 DEF r
  <2>4. walk.labels \o <<>> = walk.labels
    BY <1>1
  <2> QED BY <1>1, <1>2, <2>3, <2>4 DEF NameEnd
<1>3. CASE ~Reads({0}) /\ result' # Nothing
  <2> DEFINE s == walk.labels
             n == Len(s)
  <2>1. Whole.labels = s \o <<Nothing>>
    BY <1>1, <1>3, FailsNowhere
  <2>2. s \in Seq(Message)
    BY <1>1
  <2> HIDE DEF s
  <2>4. n \in Nat /\ n + 1 \in DOMAIN (s \o <<Nothing>>) /\ (s \o <<Nothing>>)[n + 1] = Nothing
    BY <2>2
  <2>5. Nothing \in ToSet(s \o <<Nothing>>)
    BY <2>4 DEF ToSet
  <2> QED BY <1>3, <2>1, <2>5
<1> QED BY <1>2, <1>3

(* A walk over a name, to read or to skip it, ends with the labels the     *)
(* name denotes and behind the name; and it fails only where there is no   *)
(* name, or too many pointers to it.  Whatever the bytes of the message.   *)
THEOREM NamesAlwaysAsDefined == WireSpec => NamesAsDefined
<1> DEFINE AsDefined ==
             AtName =>
               LET name == Denotes[<<walk.follows, walk.start>>]
               IN IF Reads({0}) THEN walk.labels = name.labels /\ NameEnd = name.end
                  ELSE result' # Nothing => Nothing \in ToSet(name.labels)
<1>1. NameInv /\ [WireNext]_wireVars => [AsDefined]_wireVars
  BY EndsAsDefined DEF Whole
<1>2. NameInv /\ [WireNext]_wireVars => NameInv'
  BY NameInvStep
<1>3. WireInit => NameInv
  BY NameInvInit
<1> QED BY <1>1, <1>2, <1>3, PTL DEF WireSpec, NamesAsDefined

-----------------------------------------------------------------------------
(* What an honest response holds, and where.                               *)
First(s, k) == SubSeq(s, 1, k)

(* The beginnings of a sequence, one element longer each.                  *)
LEMMA FirstFacts ==
  ASSUME NEW X, NEW s \in Seq(X)
  PROVE  /\ First(s, 0) = <<>>
         /\ First(s, Len(s)) = s
         /\ \A k \in 0..Len(s) : First(s, k) \in Seq(X) /\ Len(First(s, k)) = k
         /\ \A k \in 1..Len(s) : s[k] \in X /\ First(s, k) = Append(First(s, k - 1), s[k])
<1>1. Len(s) \in Nat /\ DOMAIN s = 1..Len(s) /\ \A i \in 1..Len(s) : s[i] \in X
  OBVIOUS
<1>2. ASSUME NEW k \in 0..Len(s)
      PROVE  /\ First(s, k) = [i \in 1..k |-> s[i]]
             /\ First(s, k) \in Seq(X) /\ Len(First(s, k)) = k
  <2>1. \A i \in 1..k : s[i] \in X
    BY <1>1
  <2>2. First(s, k) = [i \in 1..k |-> s[i]]
    BY <1>1 DEF First
  <2>3. [i \in 1..k |-> s[i]] \in Seq(X) /\ Len([i \in 1..k |-> s[i]]) = k
    BY <1>1, <2>1
  <2> QED BY <2>2, <2>3
<1>3. First(s, 0) = <<>>
  <2>1. Len(First(s, 0)) = 0 /\ First(s, 0) \in Seq(X)
    BY <1>1, <1>2
  <2> QED BY <2>1
<1>4. First(s, Len(s)) = s
  <2>1. First(s, Len(s)) = [i \in 1..Len(s) |-> s[i]]
    BY <1>1, <1>2
  <2>2. s = [i \in 1..Len(s) |-> s[i]]
    BY <1>1
  <2> QED BY <2>1, <2>2
<1>5. ASSUME NEW k \in 1..Len(s)
      PROVE  First(s, k) = Append(First(s, k - 1), s[k])
  <2>1. k \in 0..Len(s) /\ k - 1 \in 0..Len(s) /\ k - 1 + 1 = k
    BY <1>1
  <2> DEFINE a == First(s, k)
             b == First(s, k - 1)
             c == Append(b, s[k])
  <2>2. /\ a = [i \in 1..k |-> s[i]] /\ a \in Seq(X) /\ Len(a) = k
        /\ b = [i \in 1..(k - 1) |-> s[i]] /\ b \in Seq(X) /\ Len(b) = k - 1
    BY <1>2, <2>1
  <2> HIDE DEF a, b
  <2>3. c \in Seq(X) /\ Len(c) = k /\ c[k] = s[k] /\ \A i \in 1..(k - 1) : c[i] = b[i]
    BY <1>1, <2>1, <2>2
  <2>4. \A i \in 1..k : a[i] = c[i]
    BY <2>2, <2>3
  <2> HIDE DEF c
  <2>5. a = c
    BY <2>2, <2>3, <2>4
  <2> QED BY <2>5 DEF a, b, c
<1> QED BY <1>1, <1>2, <1>3, <1>4, <1>5

(* Every element of a sequence changed, when one is appended.              *)
LEMMA FrontFacts ==
  ASSUME NEW X, NEW s \in Seq(X), s # <<>>
  PROVE  /\ Len(s) \in Nat \ {0}
         /\ First(s, Len(s) - 1) \in Seq(X)
         /\ Len(First(s, Len(s) - 1)) = Len(s) - 1
         /\ s[Len(s)] \in X
         /\ s = Append(First(s, Len(s) - 1), s[Len(s)])
<1>1. Len(s) \in Nat \ {0}
  OBVIOUS
<1>2. Len(s) - 1 \in 0..Len(s) /\ Len(s) \in 1..Len(s)
  BY <1>1
<1> QED BY <1>1, <1>2, FirstFacts, ZenonT(30)

LEMMA PrefixedType ==
  ASSUME NEW s \in StringBytes
  PROVE  Prefixed(s) \in Seq(Octet) /\ Len(Prefixed(s)) = 1 + Len(s)
<1>1. s \in Seq(Octet) /\ Len(s) \in Octet
  BY DEF StringBytes, Message
<1>2. <<Len(s)>> \in Seq(Octet) /\ Len(<<Len(s)>>) = 1
  BY <1>1
<1> DEFINE a == <<Len(s)>>
<1> HIDE DEF a
<1>3. a \o s \in Seq(Octet) /\ Len(a \o s) = 1 + Len(s)
  BY <1>1, <1>2, ConcatFacts DEF a
<1> QED BY <1>3 DEF Prefixed, a

(* The elements of a sequence, each by what f makes of it.                 *)
Each(f, s) == [i \in DOMAIN s |-> f[s[i]]]

Makes(f, X, Y) == f \in [X -> Y]

LEMMA EachAppend ==
  ASSUME NEW X, NEW Y, NEW f, Makes(f, X, Y), NEW s \in Seq(X), NEW x \in X
  PROVE  /\ Each(f, s) \in Seq(Y) /\ Len(Each(f, s)) = Len(s)
         /\ Each(f, Append(s, x)) = Append(Each(f, s), f[x])
         /\ Each(f, <<>>) = <<>>
<1>0. f \in [X -> Y]
  BY DEF Makes
<1>1. ASSUME NEW t \in Seq(X)
      PROVE  /\ Each(f, t) \in Seq(Y) /\ Len(Each(f, t)) = Len(t) /\ DOMAIN t = 1..Len(t)
             /\ \A i \in 1..Len(t) : Each(f, t)[i] = f[t[i]]
  <2>1. Len(t) \in Nat /\ DOMAIN t = 1..Len(t) /\ \A i \in 1..Len(t) : t[i] \in X
    OBVIOUS
  <2>2. \A i \in 1..Len(t) : f[t[i]] \in Y
    BY <1>0, <2>1
  <2>3. Each(f, t) = [i \in 1..Len(t) |-> f[t[i]]]
    BY <2>1 DEF Each
  <2>4. [i \in 1..Len(t) |-> f[t[i]]] \in Seq(Y) /\ Len([i \in 1..Len(t) |-> f[t[i]]]) = Len(t)
    BY <2>1, <2>2
  <2> QED BY <2>1, <2>3, <2>4
<1> DEFINE S == Append(s, x)
           n == Len(s)
           a == Each(f, S)
           e == Each(f, s)
           b == Append(e, f[x])
<1>2. /\ S \in Seq(X) /\ Len(S) = n + 1 /\ n \in Nat /\ S[n + 1] = x
      /\ \A i \in 1..n : S[i] = s[i]
  OBVIOUS
<1> HIDE DEF S
<1>3. /\ a \in Seq(Y) /\ Len(a) = n + 1 /\ \A i \in 1..(n + 1) : a[i] = f[S[i]]
      /\ e \in Seq(Y) /\ Len(e) = n /\ \A i \in 1..n : e[i] = f[s[i]]
  BY <1>1, <1>2
<1> HIDE DEF a, e, n
<1>4. b \in Seq(Y) /\ Len(b) = n + 1 /\ b[n + 1] = f[x] /\ \A i \in 1..n : b[i] = e[i]
  BY <1>0, <1>3
<1> HIDE DEF b
<1>5. ASSUME NEW i \in 1..(n + 1) PROVE a[i] = b[i]
  <2>1. i = n + 1 \/ i \in 1..n
    BY <1>2
  <2> QED BY <1>2, <1>3, <1>4, <2>1, SMTT(30)
<1>6. a = b
  BY <1>2, <1>3, <1>4, <1>5
<1>7. Each(f, <<>>) = <<>>
  BY DEF Each
<1> QED BY <1>3, <1>6, <1>7 DEF S, a, b, e, n

(* The same, one after the other.                                          *)
Joined(f, s) == FlattenSeq(Each(f, s))

LEMMA JoinedAppend ==
  ASSUME NEW X, NEW Y, NEW f, Makes(f, X, Seq(Y)), NEW s \in Seq(X), NEW x \in X
  PROVE  /\ Joined(f, s) \in Seq(Y)
         /\ Joined(f, Append(s, x)) = Joined(f, s) \o f[x]
         /\ Joined(f, <<>>) = <<>>
<1> DEFINE e == Each(f, s)
           Z == Seq(Y)
<1> HIDE DEF e
<1>1. e \in Seq(Seq(Y)) /\ Each(f, Append(s, x)) = Append(e, f[x]) /\ Each(f, <<>>) = <<>>
  <2>1. Makes(f, X, Z)
    OBVIOUS
  <2> HIDE DEF Z
  <2>2. /\ Each(f, s) \in Seq(Z) /\ Each(f, Append(s, x)) = Append(Each(f, s), f[x])
        /\ Each(f, <<>>) = <<>>
    BY <2>1, EachAppend
  <2> QED BY <2>2 DEF e, Z
<1>2. f[x] \in Seq(Y)
  BY DEF Makes
<1>3. FlattenSeq(e) \in Seq(Y) /\ FlattenSeq(Append(e, f[x])) = FlattenSeq(e) \o f[x]
  BY <1>1, <1>2, FlattenAppend
<1>4. FlattenSeq(<<>>) = <<>>
  BY DEF FlattenSeq
<1> QED BY <1>1, <1>3, <1>4 DEF Joined, e

(* Strings one after the other.                                            *)
PrefixedBytes == [s \in StringBytes |-> Prefixed(s)]

LEMMA StringsJoined ==
  /\ Makes(PrefixedBytes, StringBytes, Seq(Octet))
  /\ \A ss \in Seq(StringBytes) : Strings(ss) = Joined(PrefixedBytes, ss)
<1>1. Makes(PrefixedBytes, StringBytes, Seq(Octet))
  BY PrefixedType DEF PrefixedBytes, Makes
<1>2. ASSUME NEW ss \in Seq(StringBytes) PROVE Strings(ss) = Joined(PrefixedBytes, ss)
  <2>1. \A i \in DOMAIN ss : ss[i] \in StringBytes
    OBVIOUS
  <2>2. \A i \in DOMAIN ss : PrefixedBytes[ss[i]] = Prefixed(ss[i])
    BY <2>1 DEF PrefixedBytes
  <2>3. [i \in DOMAIN ss |-> Prefixed(ss[i])] = Each(PrefixedBytes, ss)
    BY <2>2 DEF Each
  <2> QED BY <2>3 DEF Strings, Joined
<1> QED BY <1>1, <1>2

LEMMA StringsFacts ==
  ASSUME NEW ss \in Seq(StringBytes), NEW s \in StringBytes
  PROVE  /\ Strings(ss) \in Seq(Octet)
         /\ Strings(Append(ss, s)) = Strings(ss) \o Prefixed(s)
         /\ Strings(<<>>) = <<>>
<1>1. Append(ss, s) \in Seq(StringBytes) /\ <<>> \in Seq(StringBytes)
  OBVIOUS
<1>2. PrefixedBytes[s] = Prefixed(s)
  BY DEF PrefixedBytes
<1>3. Makes(PrefixedBytes, StringBytes, Seq(Octet))
  BY StringsJoined
<1> DEFINE f == PrefixedBytes
<1> HIDE DEF f
<1>4. /\ Joined(f, ss) \in Seq(Octet) /\ Joined(f, Append(ss, s)) = Joined(f, ss) \o f[s]
      /\ Joined(f, <<>>) = <<>>
  BY <1>3, JoinedAppend DEF f
<1> QED BY <1>1, <1>2, <1>4, StringsJoined DEF f

LEMMA StringsType ==
  /\ Strings(<<>>) = <<>>
  /\ \A ss \in Seq(StringBytes) : Strings(ss) \in Seq(Octet)
<1>1. <<>> \in StringBytes
  BY DEF StringBytes, Message, Octet
<1>2. <<>> \in Seq(StringBytes)
  OBVIOUS
<1> QED BY <1>1, <1>2, StringsFacts

LEMMA LabelsAreStrings == LabelBytes \subseteq StringBytes /\ Seq(LabelBytes) \subseteq Seq(StringBytes)
<1>1. LabelBytes \subseteq StringBytes
  BY DEF LabelBytes, StringBytes, Octet
<1> QED BY <1>1, WiderSeq

(* What is in a filter's set stays at the end, what is not is dropped.     *)
LEMMA ThoseAppend ==
  ASSUME NEW X, NEW s \in Seq(X), NEW x \in X, NEW T
  PROVE  /\ Those(<<>>, T) = <<>>
         /\ Those(Append(s, x), T) = IF x \in T THEN Append(Those(s, T), x) ELSE Those(s, T)
<1> DEFINE n == Len(s)
           S == Append(s, x)
           I == {i \in DOMAIN s : s[i] \in T}
           J == {i \in DOMAIN S : S[i] \in T}
           at == Ascending(I)
<1>1. Those(<<>>, T) = <<>>
  <2>1. <<>> \in Seq({})
    OBVIOUS
  <2>2. Those(<<>>, T) \in Seq({})
    BY <2>1, ThoseFacts
  <2>3. \A t \in Seq({}) : t = <<>>
    <3> SUFFICES ASSUME NEW t \in Seq({}), Len(t) # 0 PROVE FALSE
      OBVIOUS
    <3>1. Len(t) \in Nat /\ 1 \in 1..Len(t)
      OBVIOUS
    <3>2. t[1] \in {}
      BY <3>1
    <3> QED BY <3>2
  <2> QED BY <2>2, <2>3
<1>2. /\ n \in Nat /\ DOMAIN s = 1..n
      /\ S \in Seq(X) /\ Len(S) = n + 1 /\ DOMAIN S = 1..(n + 1) /\ S[n + 1] = x
      /\ \A i \in 1..n : S[i] = s[i]
  <2>1. Len(s) \in Nat /\ DOMAIN s = 1..Len(s)
    OBVIOUS
  <2>2. Append(s, x) \in Seq(X) /\ Len(Append(s, x)) = Len(s) + 1 /\ Append(s, x)[Len(s) + 1] = x
    OBVIOUS
  <2>3. \A i \in 1..Len(s) : Append(s, x)[i] = s[i]
    OBVIOUS
  <2>4. DOMAIN Append(s, x) = 1..(Len(s) + 1)
    BY <2>1, <2>2
  <2> QED BY <2>1, <2>2, <2>3, <2>4
<1> HIDE DEF S, n
<1>3. IsFiniteSet(I) /\ I \in SUBSET Int /\ I \subseteq 1..n
  <2>1. IsFiniteSet(1..n) /\ I \subseteq 1..n
    BY <1>2, FS_Interval
  <2>2. 1..n \subseteq Int
    OBVIOUS
  <2> QED BY <2>1, <2>2, FS_Subset
<1>4. J = IF x \in T THEN I \cup {n + 1} ELSE I
  <2>1. \A i \in 1..(n + 1) : i = n + 1 \/ i \in 1..n
    BY <1>2
  <2>2. \A i \in 1..n : i \in 1..(n + 1) /\ i # n + 1
    BY <1>2
  <2>3. n + 1 \in 1..(n + 1)
    BY <1>2
  <2> QED BY <1>2, <2>1, <2>2, <2>3
<1>5. /\ Those(s, T) = [k \in DOMAIN at |-> s[at[k]]]
      /\ Those(S, T) = [k \in DOMAIN Ascending(J) |-> S[Ascending(J)[k]]]
  BY DEF Those
<1>6. at \in Seq(I) /\ IsAscending(at) /\ Range(at) = I
  BY <1>3, AscendingFacts
<1>7. /\ Len(at) \in Nat /\ DOMAIN at = 1..Len(at)
      /\ \A k \in 1..Len(at) : at[k] \in I /\ at[k] \in 1..n
  <2>1. I \subseteq 1..n
    BY <1>3
  <2>2. at \in Seq(I)
    BY <1>6
  <2> HIDE DEF at, I
  <2>3. Len(at) \in Nat /\ DOMAIN at = 1..Len(at) /\ \A k \in 1..Len(at) : at[k] \in I
    BY <2>2
  <2> QED BY <2>1, <2>3
<1> HIDE DEF at, J
<1>8. CASE x \notin T
  <2>1. Ascending(J) = at
    BY <1>4, <1>8 DEF at
  <2>2. \A k \in DOMAIN at : S[at[k]] = s[at[k]]
    BY <1>2, <1>7
  <2>3. Those(S, T) = Those(s, T)
    BY <1>5, <2>1, <2>2
  <2> QED BY <1>1, <1>8, <2>3 DEF S
<1>9. CASE x \in T
  <2> DEFINE b == Append(at, n + 1)
             m == Len(at)
  <2>0. at \in Seq(Int) /\ n + 1 \in Int
    BY <1>2, <1>3, <1>6, WiderSeq
  <2>1. /\ b \in Seq(Int) /\ Len(b) = m + 1 /\ DOMAIN b = 1..(m + 1) /\ b[m + 1] = n + 1
        /\ \A k \in 1..m : b[k] = at[k]
    <3>1. Append(at, n + 1) \in Seq(Int) /\ Len(Append(at, n + 1)) = Len(at) + 1
      BY <2>0
    <3>2. Append(at, n + 1)[Len(at) + 1] = n + 1 /\ \A k \in 1..Len(at) : Append(at, n + 1)[k] = at[k]
      BY <2>0
    <3>3. DOMAIN Append(at, n + 1) = 1..(Len(at) + 1)
      BY <3>1
    <3> QED BY <3>1, <3>2, <3>3
  <2> HIDE DEF b
  <2>2. m \in Nat /\ \A k \in 1..(m + 1) : k \in 1..m \/ k = m + 1
    BY <1>7
  <2>3. IsAscending(b)
    <3> SUFFICES ASSUME NEW i \in 1..(m + 1), NEW j \in 1..(m + 1), i < j PROVE b[i] < b[j]
      BY <2>1 DEF IsAscending
    <3>1. i \in 1..m
      BY <2>2
    <3>2. b[i] = at[i] /\ at[i] \in 1..n
      BY <1>7, <2>1, <3>1
    <3>3. CASE j = m + 1
      BY <1>2, <2>1, <3>2, <3>3
    <3>4. CASE j \in 1..m
      <4>1. b[j] = at[j]
        BY <2>1, <3>4
      <4> QED BY <1>6, <1>7, <3>1, <3>2, <3>4, <4>1 DEF IsAscending
    <3> QED BY <2>2, <3>3, <3>4
  <2>4. Range(b) = J
    <3>1. J = I \cup {n + 1}
      BY <1>4, <1>9
    <3>2. ASSUME NEW y \in Range(b) PROVE y \in J
      <4>1. PICK k \in 1..(m + 1) : y = b[k]
        BY <2>1 DEF Range
      <4> QED BY <1>7, <2>1, <2>2, <3>1, <4>1
    <3>3. ASSUME NEW y \in J PROVE y \in Range(b)
      <4>1. CASE y = n + 1
        <5>1. m + 1 \in DOMAIN b
          BY <2>1, <2>2
        <5> QED BY <2>1, <4>1, <5>1 DEF Range
      <4>2. CASE y \in I
        <5>1. PICK k \in DOMAIN at : at[k] = y
          BY <1>6, <4>2 DEF Range
        <5>2. k \in 1..m /\ k \in DOMAIN b
          BY <1>7, <2>1, <2>2, <5>1
        <5> QED BY <2>1, <5>1, <5>2 DEF Range
      <4> QED BY <3>1, <4>1, <4>2
    <3> QED BY <3>2, <3>3
  <2>5. IsFiniteSet(J) /\ J \in SUBSET Int
    <3>1. J = I \cup {n + 1}
      BY <1>4, <1>9
    <3>2. IsFiniteSet(I \cup {n + 1})
      BY <1>3, FS_AddElement
    <3> QED BY <1>3, <2>0, <3>1, <3>2
  <2>6. Ascending(J) = b
    BY <2>1, <2>3, <2>4, <2>5, AscendingIsIt
  <2> DEFINE u == Those(s, T)
             v == Those(S, T)
  <2>7. u \in Seq(X) /\ Len(u) = m /\ \A k \in 1..m : u[k] = s[at[k]]
    <3>1. u \in Seq(X)
      BY ThoseFacts
    <3>2. u = [k \in 1..m |-> s[at[k]]]
      BY <1>5, <1>7
    <3> HIDE DEF u
    <3> QED BY <1>7, <3>1, <3>2
  <2>8. v \in Seq(X) /\ Len(v) = m + 1 /\ \A k \in 1..(m + 1) : v[k] = S[b[k]]
    <3>1. v \in Seq(X)
      BY <1>2, ThoseFacts
    <3>2. v = [k \in 1..(m + 1) |-> S[b[k]]]
      BY <1>5, <2>1, <2>6
    <3> HIDE DEF v
    <3> QED BY <2>2, <3>1, <3>2
  <2> HIDE DEF u, v
  <2> DEFINE w == Append(u, x)
  <2>9. w \in Seq(X) /\ Len(w) = m + 1 /\ w[m + 1] = x /\ \A k \in 1..m : w[k] = u[k]
    BY <2>7
  <2> HIDE DEF w
  <2>10. ASSUME NEW k \in 1..(m + 1) PROVE v[k] = w[k]
    <3>1. CASE k = m + 1
      BY <1>2, <2>1, <2>8, <2>9, <3>1
    <3>2. CASE k \in 1..m
      BY <1>2, <1>7, <2>1, <2>7, <2>8, <2>9, <3>2
    <3> QED BY <2>2, <3>1, <3>2
  <2>11. v = w
    BY <2>2, <2>8, <2>9, <2>10
  <2> QED BY <1>1, <1>9, <2>11 DEF S, u, v, w
<1> QED BY <1>8, <1>9

-----------------------------------------------------------------------------
(* The message holds s from position p on.                                 *)
Holds(p, s) == p + Len(s) <= Size /\ \A i \in 1..Len(s) : msg[p + i] = s[i]

LEMMA HoldsConcat ==
  ASSUME msg \in Message, NEW X, NEW s \in Seq(X), NEW t \in Seq(X), NEW p \in Nat,
         Holds(p, s \o t)
  PROVE  /\ Holds(p, s) /\ Holds(p + Len(s), t)
         /\ Len(s) \in Nat /\ Len(t) \in Nat /\ Len(s \o t) = Len(s) + Len(t)
<1>1. /\ Len(s) \in Nat /\ Len(t) \in Nat /\ Len(s \o t) = Len(s) + Len(t) /\ Size \in Nat
      /\ \A i \in 1..(Len(s) + Len(t)) :
           (s \o t)[i] = IF i <= Len(s) THEN s[i] ELSE t[i - Len(s)]
  BY ConcatFacts, SizeType
<1>2. /\ p + (Len(s) + Len(t)) <= Size
      /\ \A i \in 1..(Len(s) + Len(t)) : msg[p + i] = (s \o t)[i]
  BY <1>1 DEF Holds
<1>3. ASSUME NEW i \in 1..Len(s) PROVE msg[p + i] = s[i]
  <2>1. i \in 1..(Len(s) + Len(t)) /\ i <= Len(s)
    BY <1>1
  <2> QED BY <1>1, <1>2, <2>1
<1>4. ASSUME NEW i \in 1..Len(t) PROVE msg[(p + Len(s)) + i] = t[i]
  <2>1. /\ Len(s) + i \in 1..(Len(s) + Len(t)) /\ ~(Len(s) + i <= Len(s))
        /\ (Len(s) + i) - Len(s) = i /\ p + (Len(s) + i) = (p + Len(s)) + i
    BY <1>1
  <2>2. msg[p + (Len(s) + i)] = t[(Len(s) + i) - Len(s)]
    BY <1>1, <1>2, <2>1
  <2> QED BY <2>1, <2>2
<1>5. p + Len(s) <= Size /\ (p + Len(s)) + Len(t) <= Size
  BY <1>1, <1>2
<1> QED BY <1>1, <1>3, <1>4, <1>5 DEF Holds

(* Its bytes, and two of them as a number.                                 *)
LEMMA HoldsBytes ==
  ASSUME msg \in Message, NEW X, NEW s \in Seq(X), NEW p \in Nat, Holds(p, s)
  PROVE  /\ Bytes(p, p + Len(s)) = s
         /\ p + Len(s) \in Nat /\ p + Len(s) <= Size
         /\ \A i \in 0..(Len(s) - 1) : p + i < Size /\ Byte(p + i) = s[i + 1]
<1>1. /\ Len(s) \in Nat /\ Size \in Nat /\ p + Len(s) <= Size
      /\ \A i \in 1..Len(s) : msg[p + i] = s[i] /\ s[i] \in X
  BY SizeType DEF Holds
<1> DEFINE b == SubSeq(msg, p + 1, p + Len(s))
<1>2. Bytes(p, p + Len(s)) = b
  BY DEF Bytes
<1>3. b = [i \in 1..Len(s) |-> s[i]]
  <2>1. b = [i \in 1..((p + Len(s)) - (p + 1) + 1) |-> msg[(p + 1) + i - 1]]
    BY <1>1
  <2>2. (p + Len(s)) - (p + 1) + 1 = Len(s) /\ \A i \in 1..Len(s) : (p + 1) + i - 1 = p + i
    BY <1>1
  <2>3. b = [i \in 1..Len(s) |-> msg[(p + 1) + i - 1]]
    BY <2>1, <2>2
  <2>4. \A i \in 1..Len(s) : msg[(p + 1) + i - 1] = s[i]
    BY <1>1, <2>2
  <2> HIDE DEF b
  <2> QED BY <2>3, <2>4
<1>4. s = [i \in 1..Len(s) |-> s[i]]
  BY <1>1
<1>5. ASSUME NEW i \in 0..(Len(s) - 1) PROVE p + i < Size /\ Byte(p + i) = s[i + 1]
  <2>1. i + 1 \in 1..Len(s) /\ (p + i) + 1 = p + (i + 1) /\ p + i < Size
    BY <1>1
  <2> QED BY <1>1, <2>1 DEF Byte
<1>6. b = s
  BY <1>3, <1>4
<1>7. p + Len(s) \in Nat
  BY <1>1
<1> HIDE DEF b
<1> QED BY <1>1, <1>2, <1>5, <1>6, <1>7

LEMMA U16BytesType ==
  ASSUME NEW n \in Bits16
  PROVE  /\ U16Bytes(n) \in Seq(Octet) /\ Len(U16Bytes(n)) = 2
         /\ U16Bytes(n)[1] = n \div 256 /\ U16Bytes(n)[2] = n % 256
         /\ 256 * (n \div 256) + (n % 256) = n
<1>1. n \div 256 \in 0..255 /\ n % 256 \in 0..255 /\ 256 * (n \div 256) + (n % 256) = n
  <2>1. n \in Int /\ 0 <= n /\ n <= 65535
    BY SMTT(30) DEF Bits16
  <2>2. n % 256 \in 0..255 /\ n \div 256 \in Int /\ n = 256 * (n \div 256) + (n % 256)
    BY <2>1
  <2> DEFINE q == n \div 256
             r == n % 256
  <2> HIDE DEF q, r
  <2>3. q \in Int /\ r \in 0..255 /\ n = 256 * q + r
    BY <2>2 DEF q, r
  <2>4. q \in 0..255
    BY <2>1, <2>3
  <2> QED BY <2>3, <2>4 DEF q, r
<1> QED BY <1>1 DEF U16Bytes, Octet

LEMMA HoldsU16 ==
  ASSUME msg \in Message, NEW n \in Bits16, NEW p \in Nat, Holds(p, U16Bytes(n))
  PROVE  U16(p) = n
<1>1. 0 \in 0..(2 - 1) /\ 1 \in 0..(2 - 1) /\ p + 0 = p
  OBVIOUS
<1> DEFINE s == U16Bytes(n)
<1>2. s \in Seq(Octet) /\ Len(s) = 2
  BY U16BytesType
<1> HIDE DEF s
<1>3. Byte(p) = s[1] /\ Byte(p + 1) = s[2]
  <2>1. \A i \in 0..(Len(s) - 1) : Byte(p + i) = s[i + 1]
    BY <1>2, HoldsBytes DEF s
  <2> QED BY <1>1, <1>2, <2>1
<1>4. s[1] = n \div 256 /\ s[2] = n % 256 /\ 256 * (n \div 256) + (n % 256) = n
  BY U16BytesType DEF s
<1>5. U16(p) = 256 * Byte(p) + Byte(p + 1)
  BY DEF U16
<1> QED BY <1>3, <1>4, <1>5

LEMMA AppendConcat ==
  ASSUME NEW X, NEW s \in Seq(X), NEW x \in X, NEW t \in Seq(X)
  PROVE  s \o (<<x>> \o t) = Append(s, x) \o t
<1> DEFINE u == <<x>>
<1>1. u \in Seq(X)
  OBVIOUS
<1>3. s \o u = Append(s, x)
  OBVIOUS
<1> HIDE DEF u
<1>2. s \o (u \o t) = (s \o u) \o t
  BY <1>1, ConcatAssociative
<1> QED BY <1>2, <1>3 DEF u

(* The label a name begins with, where the message holds one.              *)
LEMMA LabelDenoted ==
  ASSUME msg \in Message, NEW h \in 0..MaxHops + 1, NEW p \in Nat,
         NEW l \in LabelBytes, Holds(p, Prefixed(l))
  PROVE  LET d == Denotes[<<h, p>>]
             e == Denotes[<<h, p + Len(Prefixed(l))>>]
         IN d.labels = <<l>> \o e.labels /\ d.end = e.end
<1>1. /\ l \in Seq(Octet) /\ Len(l) \in 1..63 /\ <<Len(l)>> \in Seq(Octet)
      /\ Len(<<Len(l)>>) = 1 /\ <<Len(l)>>[1] = Len(l)
  BY SMTT(30) DEF LabelBytes, Message, Octet
<1> DEFINE a == <<Len(l)>>
           q == p + 1 + Len(l)
<1>2. a \in Seq(Octet) /\ Len(a) = 1 /\ a[1] = Len(l)
  BY <1>1
<1> HIDE DEF a
<1>3. Prefixed(l) = a \o l
  BY DEF Prefixed, a
<1>4. /\ Holds(p, a) /\ Holds(p + 1, l) /\ Len(Prefixed(l)) = 1 + Len(l) /\ p + 1 \in Nat
      /\ p + Len(Prefixed(l)) = q
  <2>1. Holds(p, a \o l)
    BY <1>3
  <2>2. Holds(p, a) /\ Holds(p + Len(a), l) /\ Len(a \o l) = Len(a) + Len(l)
    BY <1>1, <1>2, <2>1, HoldsConcat
  <2> QED BY <1>1, <1>2, <1>3, <2>2
<1>5. p + 0 < Size /\ Byte(p + 0) = a[0 + 1]
  <2>1. 0 \in 0..(Len(a) - 1)
    BY <1>2
  <2> QED BY <1>2, <1>4, <2>1, HoldsBytes
<1>6. p < Size /\ Byte(p) = Len(l)
  <2>1. p + 0 = p /\ 0 + 1 = 1
    OBVIOUS
  <2> QED BY <1>2, <1>5, <2>1
<1>7. Bytes(p + 1, (p + 1) + Len(l)) = l /\ (p + 1) + Len(l) <= Size
  BY <1>1, <1>4, HoldsBytes
<1>8. Next1(p) = q /\ q = (p + 1) + Len(l)
  BY <1>6 DEF Next1
<1>9. OnLabel(p)
  <2>1. Len(l) # 0 /\ Len(l) < 64
    <3>1. Len(l) \in 1..63
      BY <1>1
    <3>2. \A n \in 1..63 : n # 0 /\ n < 64
      OBVIOUS
    <3> QED BY <3>1, <3>2, Zenon
  <2>2. Next1(p) <= Size
    <3>1. (p + 1) + Len(l) <= Size
      BY <1>7
    <3> HIDE DEF q
    <3> QED BY <1>8, <3>1
  <2> QED BY <1>6, <2>1, <2>2 DEF OnLabel
<1> DEFINE d == Denotes[<<h, p>>]
           e == Denotes[<<h, q>>]
<1>10. Denotes[<<h, p>>] =
         [labels |-> <<Bytes(p + 1, Next1(p))>> \o Denotes[<<h, Next1(p)>>].labels,
          end |-> Denotes[<<h, Next1(p)>>].end]
  BY <1>9, DenotesCases
<1>11. d = [labels |-> <<l>> \o e.labels, end |-> e.end]
  <2> HIDE DEF q
  <2> QED BY <1>7, <1>8, <1>10
<1> HIDE DEF d, e
<1>12. d.labels = <<l>> \o e.labels /\ d.end = e.end
  BY <1>11
<1> QED BY <1>4, <1>12 DEF d, e

(* The labels a name begins with.                                          *)
LEMMA LabelsDenoted ==
  ASSUME msg \in Message, NEW h \in 0..MaxHops + 1, NEW p \in Nat,
         NEW ls \in Seq(LabelBytes), Holds(p, Strings(ls))
  PROVE  LET d == Denotes[<<h, p>>]
             e == Denotes[<<h, p + Len(Strings(ls))>>]
         IN /\ p + Len(Strings(ls)) \in Nat
            /\ d.labels = ls \o e.labels /\ d.end = e.end
<1> DEFINE D(q) == Denotes[<<h, q>>]
           C(t) == /\ p + Len(Strings(t)) \in Nat
                   /\ D(p).labels = t \o D(p + Len(Strings(t))).labels
                   /\ D(p).end = D(p + Len(Strings(t))).end
           T == Seq(LabelBytes)
           H == {k \in Nat : \A t \in T : Len(t) = k /\ Holds(p, Strings(t)) => C(t)}
<1>0. LabelBytes \subseteq StringBytes
  BY DEF LabelBytes, StringBytes, Octet
<1>1. \A q \in Nat : D(q).labels \in Seq(Message \cup {Nothing})
  BY DenotesCases
<1>2. Strings(<<>>) = <<>>
  BY StringsType
<1>3. 0 \in H
  <2> SUFFICES ASSUME NEW t \in T, Len(t) = 0 PROVE C(t)
    <3> HIDE DEF C
    <3> QED OBVIOUS
  <2>0. t \in Seq(LabelBytes)
    OBVIOUS
  <2>1. t = <<>> /\ p + Len(<<>>) = p
    BY <2>0
  <2>2. D(p).labels = <<>> \o D(p).labels
    <3> HIDE DEF D
    <3> QED BY <1>1
  <2> HIDE DEF D
  <2> QED BY <1>2, <2>1, <2>2
<1>4. ASSUME NEW k \in Nat, k \in H PROVE k + 1 \in H
  <2> SUFFICES ASSUME NEW t \in T, Len(t) = k + 1, Holds(p, Strings(t)) PROVE C(t)
    <3> HIDE DEF C
    <3> QED OBVIOUS
  <2>0. t \in Seq(LabelBytes) /\ Len(t) = k + 1 /\ k + 1 # 0 /\ Len(t) - 1 = k /\ Len(<<>>) = 0
    OBVIOUS
  <2> DEFINE f == First(t, Len(t) - 1)
             l == t[Len(t)]
             q == p + Len(Strings(f))
             r == q + Len(Prefixed(l))
  <2>1. f \in T /\ Len(f) = k /\ l \in LabelBytes /\ t = Append(f, l)
    <3>1. t # <<>>
      BY <2>0
    <3>2. Len(t) - 1 = k
      BY <2>0
    <3> QED BY <2>0, <3>1, <3>2, FrontFacts
  <2> HIDE DEF f, l
  <2>2. /\ f \in Seq(StringBytes) /\ l \in StringBytes
        /\ Strings(f) \in Seq(Octet) /\ Prefixed(l) \in Seq(Octet)
        /\ Strings(t) = Strings(f) \o Prefixed(l)
    <3>1. f \in Seq(StringBytes) /\ l \in StringBytes
      BY <1>0, <2>1, WiderSeq
    <3> QED BY <2>1, <3>1, StringsFacts, PrefixedType
  <2>3. /\ Holds(p, Strings(f)) /\ Holds(q, Prefixed(l))
        /\ Len(Strings(f)) \in Nat /\ Len(Prefixed(l)) \in Nat
        /\ Len(Strings(t)) = Len(Strings(f)) + Len(Prefixed(l))
    <3>1. Holds(p, Strings(f) \o Prefixed(l))
      BY <2>2
    <3> QED BY <2>2, <3>1, HoldsConcat
  <2>4. C(f)
    BY <1>4, <2>1, <2>3
  <2>5. q \in Nat /\ r \in Nat /\ p + Len(Strings(t)) = r
    BY <2>3
  <2>6. D(q).labels = <<l>> \o D(r).labels /\ D(q).end = D(r).end
    <3> HIDE DEF q
    <3> QED BY <2>1, <2>3, <2>5, LabelDenoted
  <2>7. f \o (<<l>> \o D(r).labels) = t \o D(r).labels
    <3>1. LabelBytes \subseteq Message \cup {Nothing}
      BY DEF LabelBytes
    <3>2. f \in Seq(Message \cup {Nothing}) /\ l \in Message \cup {Nothing}
      BY <2>1, <3>1, WiderSeq
    <3>3. D(r).labels \in Seq(Message \cup {Nothing})
      <4> HIDE DEF D, r
      <4> QED BY <1>1, <2>5
    <3> DEFINE M == Message \cup {Nothing}
               z == D(r).labels
    <3> HIDE DEF D, r, M, z
    <3>4. f \in Seq(M) /\ l \in M /\ z \in Seq(M)
      BY <3>2, <3>3 DEF M, z
    <3>5. f \o (<<l>> \o z) = Append(f, l) \o z
      BY <3>4, AppendConcat, SMTT(30)
    <3> QED BY <2>1, <3>5 DEF z
  <2> HIDE DEF D, q, r
  <2>8. D(p).labels = f \o D(q).labels /\ D(p).end = D(q).end
    BY <2>4 DEF q
  <2> QED BY <2>5, <2>6, <2>7, <2>8
<1> HIDE DEF H
<1>5. \A k \in Nat : k \in H
  BY ONLY <1>3, <1>4, SetInduction
<1>6. Len(ls) \in Nat
  OBVIOUS
<1>7. C(ls)
  BY <1>5, <1>6 DEF H
<1> QED BY <1>7

(* The host of the question, and a name that goes on with it.              *)
LEMMA HostDenoted ==
  ASSUME msg \in Message, NEW h \in 0..MaxHops + 1, NEW p \in Nat,
         NEW ls \in Seq(LabelBytes), Holds(p, Encoded(ls))
  PROVE  /\ Denotes[<<h, p>>].labels = ls
         /\ Denotes[<<h, p>>].end = p + Len(Encoded(ls))
         /\ p + Len(Encoded(ls)) \in Nat
<1>1. Strings(ls) \in Seq(Octet)
  BY StringsType, LabelsAreStrings
<1> DEFINE a == Strings(ls)
           zero == <<0>>
           q == p + Len(a)
<1>2. zero \in Seq(Octet) /\ Len(zero) = 1 /\ zero[1] = 0
  BY DEF Octet
<1> HIDE DEF zero
<1>3. Encoded(ls) = a \o zero
  BY DEF Encoded, zero
<1>4. Holds(p, a) /\ Holds(q, zero) /\ Len(a \o zero) = Len(a) + 1 /\ Len(a) \in Nat
  <2> HIDE DEF a
  <2>1. a \in Seq(Octet) /\ Holds(p, a \o zero)
    BY <1>1, <1>3 DEF a
  <2> QED BY <1>2, <2>1, HoldsConcat
<1>5. /\ q \in Nat
      /\ Denotes[<<h, p>>].labels = ls \o Denotes[<<h, q>>].labels
      /\ Denotes[<<h, p>>].end = Denotes[<<h, q>>].end
  BY <1>4, LabelsDenoted
<1> HIDE DEF q
<1>6. q < Size /\ Byte(q) = 0
  <2>1. 0 \in 0..(Len(zero) - 1) /\ q + 0 = q /\ 0 + 1 = 1
    BY <1>2, <1>5
  <2>2. q + 0 < Size /\ Byte(q + 0) = zero[0 + 1]
    BY <1>2, <1>4, <1>5, <2>1, HoldsBytes
  <2> QED BY <1>2, <2>1, <2>2
<1>7. OnRoot(q)
  BY <1>6 DEF OnRoot
<1> DEFINE e == Denotes[<<h, q>>]
<1>8. e = [labels |-> <<>>, end |-> q + 1]
  BY <1>5, <1>7, DenotesCases
<1> HIDE DEF e
<1>9. e.labels = <<>> /\ e.end = q + 1
  BY <1>8
<1>10. ls \o <<>> = ls
  OBVIOUS
<1>11. p + Len(Encoded(ls)) = q + 1
  BY <1>3, <1>4 DEF q
<1> QED BY <1>5, <1>9, <1>10, <1>11 DEF e

LEMMA CompressedDenoted ==
  ASSUME msg \in Message, NEW h \in 1..MaxHops + 1, NEW p \in Nat,
         NEW hs \in Seq(LabelBytes), Holds(12, Encoded(hs)),
         NEW ls \in Seq(LabelBytes), Holds(p, Compressed(ls))
  PROVE  /\ Denotes[<<h, p>>].labels = ls \o hs
         /\ Denotes[<<h, p>>].end = p + Len(Compressed(ls))
         /\ p + Len(Compressed(ls)) \in Nat
<1>0. h \in 0..MaxHops + 1 /\ h - 1 \in 0..MaxHops + 1 /\ h > 0
  BY MaxHopsAssumption
<1>1. Strings(ls) \in Seq(Octet)
  BY StringsType, LabelsAreStrings
<1> DEFINE a == Strings(ls)
           b == <<192, 12>>
           q == p + Len(a)
<1>2. b \in Seq(Octet) /\ Len(b) = 2 /\ b[1] = 192 /\ b[2] = 12
  BY DEF Octet
<1> HIDE DEF b
<1>3. Compressed(ls) = a \o b
  BY DEF Compressed, b
<1>4. Holds(p, a) /\ Holds(q, b) /\ Len(a \o b) = Len(a) + 2 /\ Len(a) \in Nat
  <2> HIDE DEF a
  <2>1. /\ a \in Seq(Octet) /\ b \in Seq(Octet) /\ Holds(p, a \o b)
        /\ p \in Nat /\ msg \in Message
    BY <1>1, <1>2, <1>3 DEF a
  <2>2. Holds(p, a) /\ Holds(p + Len(a), b) /\ Len(a) \in Nat /\ Len(a \o b) = Len(a) + Len(b)
    BY ONLY <2>1, HoldsConcat
  <2> QED BY <1>2, <2>2
<1>5. /\ q \in Nat
      /\ Denotes[<<h, p>>].labels = ls \o Denotes[<<h, q>>].labels
      /\ Denotes[<<h, p>>].end = Denotes[<<h, q>>].end
  BY <1>0, <1>4, LabelsDenoted
<1> HIDE DEF q
<1>6. q + 1 < Size /\ Byte(q) = 192 /\ Byte(q + 1) = 12
  <2>1. 0 \in 0..(Len(b) - 1) /\ q + 0 = q /\ 0 + 1 = 1 /\ 1 \in 0..(Len(b) - 1) /\ 1 + 1 = 2
    BY <1>2, <1>5
  <2>2. \A i \in 0..(Len(b) - 1) : q + i < Size /\ Byte(q + i) = b[i + 1]
    <3>1. b \in Seq(Octet) /\ q \in Nat /\ Holds(q, b) /\ msg \in Message
      BY <1>2, <1>4, <1>5
    <3> QED BY ONLY <3>1, HoldsBytes
  <2> QED BY <1>2, <2>1, <2>2
<1>7. OnPointer(h, q) /\ Target(q) = 12
  BY <1>0, <1>6 DEF OnPointer, Target, U16
<1> DEFINE e == Denotes[<<h, q>>]
           d == Denotes[<<h - 1, 12>>]
<1>8. e = [labels |-> d.labels, end |-> q + 2]
  <2>1. e = [labels |-> Denotes[<<h - 1, Target(q)>>].labels, end |-> q + 2]
    BY <1>0, <1>5, <1>7, DenotesCases
  <2> QED BY <1>7, <2>1
<1>9. d.labels = hs
  <2>1. 12 \in Nat
    OBVIOUS
  <2> QED BY <1>0, <2>1, HostDenoted, SMTT(30)
<1> HIDE DEF e, d
<1>10. e.labels = hs /\ e.end = q + 2
  BY <1>8, <1>9
<1>11. p + Len(Compressed(ls)) = q + 2
  BY <1>3, <1>4 DEF q
<1> QED BY <1>5, <1>10, <1>11 DEF e

(* The place in the message of what f makes of the k-th element, if what   *)
(* it makes of the sequence is at p.                                       *)
Place0(p, f, s, k) == p + Len(Joined(f, First(s, k)))

LEMMA JoinedHeld ==
  ASSUME msg \in Message, NEW X, NEW f, Makes(f, X, Seq(Octet)), NEW s \in Seq(X),
         NEW p \in Nat, Holds(p, Joined(f, s))
  PROVE  /\ Place0(p, f, s, 0) = p
         /\ Place0(p, f, s, Len(s)) = p + Len(Joined(f, s))
         /\ \A k \in 0..Len(s) :
              /\ Joined(f, First(s, k)) \in Seq(Octet)
              /\ Holds(p, Joined(f, First(s, k)))
              /\ Place0(p, f, s, k) \in Nat
         /\ \A k \in 1..Len(s) :
              /\ Place0(p, f, s, k) = Place0(p, f, s, k - 1) + Len(f[s[k]])
              /\ Holds(Place0(p, f, s, k - 1), f[s[k]])
<1> DEFINE n == Len(s)
           j(k) == Joined(f, First(s, k))
<1>1. /\ n \in Nat /\ First(s, 0) = <<>> /\ First(s, n) = s
      /\ \A k \in 0..n : First(s, k) \in Seq(X)
      /\ \A k \in 1..n : s[k] \in X /\ First(s, k) = Append(First(s, k - 1), s[k])
  BY FirstFacts
<1> HIDE DEF n
<1>2. ASSUME NEW k \in 1..n
      PROVE  j(k) = j(k - 1) \o f[s[k]] /\ j(k - 1) \in Seq(Octet) /\ f[s[k]] \in Seq(Octet)
  <2>1. k - 1 \in 0..n
    BY <1>1
  <2>2. First(s, k - 1) \in Seq(X) /\ s[k] \in X /\ First(s, k) = Append(First(s, k - 1), s[k])
    BY <1>1, <2>1
  <2> DEFINE t == First(s, k - 1)
             x == s[k]
  <2> HIDE DEF t, x
  <2>3. t \in Seq(X) /\ x \in X /\ Makes(f, X, Seq(Octet))
    BY <2>2 DEF t, x
  <2>4. Joined(f, Append(t, x)) = Joined(f, t) \o f[x] /\ Joined(f, t) \in Seq(Octet)
    BY <2>3, JoinedAppend
  <2>5. f[x] \in Seq(Octet)
    BY <2>3 DEF Makes
  <2> QED BY <2>2, <2>4, <2>5 DEF t, x
<1>3. j(0) = <<>>
  <2>1. Each(f, <<>>) = <<>>
    BY DEF Each
  <2> QED BY <1>1, <2>1 DEF Joined, FlattenSeq
<1>4. j(n) = Joined(f, s)
  BY <1>1
<1> DEFINE H == {m \in Nat : m <= n => Holds(p, j(n - m))}
<1>5. 0 \in H
  <2>1. n - 0 = n
    BY <1>1
  <2> HIDE DEF j
  <2> QED BY <1>4, <2>1
<1>6. ASSUME NEW m \in Nat, m \in H PROVE m + 1 \in H
  <2> SUFFICES ASSUME m + 1 <= n PROVE Holds(p, j(n - (m + 1)))
    OBVIOUS
  <2> DEFINE k == n - m
  <2>1. k \in 1..n /\ n - (m + 1) = k - 1 /\ m <= n
    BY <1>1
  <2>2. Holds(p, j(k))
    BY <1>6, <2>1
  <2> HIDE DEF j, k
  <2>3. j(k) = j(k - 1) \o f[s[k]] /\ j(k - 1) \in Seq(Octet) /\ f[s[k]] \in Seq(Octet)
    BY <1>2, <2>1
  <2> DEFINE a == j(k - 1)
             b == f[s[k]]
  <2> HIDE DEF a, b
  <2>4. a \in Seq(Octet) /\ b \in Seq(Octet) /\ Holds(p, a \o b) /\ msg \in Message /\ p \in Nat
    BY <2>2, <2>3 DEF a, b
  <2>5. Holds(p, a)
    BY ONLY <2>4, HoldsConcat
  <2> QED BY <2>1, <2>5 DEF a
<1> HIDE DEF H
<1>7. \A m \in Nat : m \in H
  BY ONLY <1>5, <1>6, SetInduction
<1>8. ASSUME NEW k \in 0..n PROVE Holds(p, j(k))
  <2>1. n - k \in Nat /\ n - k <= n /\ n - (n - k) = k
    BY <1>1
  <2>2. n - k \in H
    BY <1>7, <2>1
  <2> HIDE DEF j
  <2> QED BY <2>1, <2>2 DEF H
<1>9. ASSUME NEW k \in 0..n PROVE j(k) \in Seq(Octet)
  <2>1. CASE k = 0
    <3>1. <<>> \in Seq(Octet)
      OBVIOUS
    <3> HIDE DEF j
    <3> QED BY <1>3, <2>1, <3>1
  <2>2. CASE k # 0
    <3>1. k \in 1..n
      BY <1>1, <2>2
    <3> DEFINE a == j(k - 1)
               b == f[s[k]]
    <3>2. j(k) = a \o b /\ a \in Seq(Octet) /\ b \in Seq(Octet)
      BY <1>2, <3>1
    <3> HIDE DEF a, b
    <3>3. a \o b \in Seq(Octet)
      BY <3>2
    <3> HIDE DEF j
    <3> QED BY <3>2, <3>3
  <2> QED BY <2>1, <2>2
<1>10. ASSUME NEW k \in 0..n PROVE Place0(p, f, s, k) = p + Len(j(k)) /\ Place0(p, f, s, k) \in Nat
  <2>1. Place0(p, f, s, k) = p + Len(j(k))
    BY DEF Place0
  <2>2. Len(j(k)) \in Nat
    <3> HIDE DEF j
    <3> QED BY <1>9
  <2> HIDE DEF j
  <2> QED BY <2>1, <2>2
<1>11. ASSUME NEW k \in 1..n
       PROVE  /\ Place0(p, f, s, k) = Place0(p, f, s, k - 1) + Len(f[s[k]])
              /\ Holds(Place0(p, f, s, k - 1), f[s[k]])
  <2>1. k \in 0..n /\ k - 1 \in 0..n
    BY <1>1
  <2> DEFINE a == j(k - 1)
             b == f[s[k]]
  <2>2. j(k) = a \o b /\ a \in Seq(Octet) /\ b \in Seq(Octet)
    BY <1>2
  <2>3. Place0(p, f, s, k) = p + Len(j(k)) /\ Place0(p, f, s, k - 1) = p + Len(a)
    BY <1>10, <2>1
  <2>4. Holds(p, j(k))
    BY <1>8, <2>1
  <2> HIDE DEF j, a, b
  <2>5. a \in Seq(Octet) /\ b \in Seq(Octet) /\ Holds(p, a \o b) /\ msg \in Message /\ p \in Nat
    BY <2>2, <2>4
  <2>6. Holds(p + Len(a), b) /\ Len(a \o b) = Len(a) + Len(b) /\ Len(a) \in Nat /\ Len(b) \in Nat
    BY ONLY <2>5, HoldsConcat
  <2>7. p + Len(a \o b) = (p + Len(a)) + Len(b)
    BY <2>6
  <2> QED BY <2>2, <2>3, <2>6, <2>7 DEF b
<1>12. Place0(p, f, s, 0) = p /\ Place0(p, f, s, n) = p + Len(Joined(f, s))
  <2>1. 0 \in 0..n /\ n \in 0..n /\ Len(<<>>) = 0 /\ p + 0 = p
    BY <1>1
  <2> HIDE DEF j
  <2> QED BY <1>3, <1>4, <1>10, <2>1
<1>13. /\ \A k \in 0..n : Joined(f, First(s, k)) \in Seq(Octet) /\ Holds(p, Joined(f, First(s, k)))
       /\ \A k \in 0..n : Place0(p, f, s, k) \in Nat
  BY <1>8, <1>9, <1>10
<1> HIDE DEF j
<1> QED BY <1>11, <1>12, <1>13 DEF n

(* Two bytes more.                                                         *)
LEMMA PairAppended ==
  ASSUME NEW s \in Seq(Octet), NEW t \in Seq(Octet), Len(t) = 2
  PROVE  s \o t \in Seq(Octet) /\ Len(s \o t) = Len(s) + 2
<1>1. s \o t \in Seq(Octet) /\ Len(s \o t) = Len(s) + Len(t)
  BY ConcatFacts
<1> QED BY <1>1

LEMMA CompressedType ==
  ASSUME NEW ls \in Seq(LabelBytes)
  PROVE  Compressed(ls) \in Seq(Octet) /\ Len(Compressed(ls)) \in Nat /\ Len(Compressed(ls)) >= 2
<1>1. ls \in Seq(StringBytes)
  BY LabelsAreStrings
<1> DEFINE a == Strings(ls)
           b == <<192, 12>>
<1>2. a \in Seq(Octet)
  BY <1>1, StringsType
<1>3. b \in Seq(Octet) /\ Len(b) = 2
  BY DEF Octet
<1> HIDE DEF a, b
<1>4. a \o b \in Seq(Octet) /\ Len(a \o b) = Len(a) + 2
  BY <1>2, <1>3, PairAppended
<1>5. Len(a) \in Nat
  BY <1>2
<1> QED BY <1>4, <1>5 DEF a, b, Compressed

LEMMA PrefixedLonger ==
  ASSUME NEW s \in StringBytes
  PROVE  /\ Prefixed(s) \in Seq(Octet) /\ Len(Prefixed(s)) = 1 + Len(s)
         /\ Len(Prefixed(s)) \in Nat /\ Len(Prefixed(s)) >= 1
<1>1. Len(s) \in Nat
  BY DEF StringBytes, Message
<1> QED BY <1>1, PrefixedType

(* What RDATA is, by the type of a record.                                 *)
Naming == {CNAME, NS, PTR, MX, SRV}

LEMMA FitsFacts ==
  ASSUME NEW r, WellFormed(r), r.fits
  PROVE  Fits(r.type, r.fixed) /\ r.names \in [1..Names(r.type) -> Seq(LabelBytes)]
BY DEF WellFormed

LEMMA RdataText ==
  ASSUME NEW r, WellFormed(r), r.fits, r.type = TXT
  PROVE  r.fixed \in Seq(StringBytes) /\ Rdata(r) = Strings(r.fixed)
<1>1. r.fixed \in Seq(StringBytes)
  BY FitsFacts DEF Fits
<1>2. Rdata(r) = Strings(r.fixed)
  BY DEF Rdata, NS, CNAME, SOA, PTR, MX, TXT, SRV, CAA
<1> QED BY <1>1, <1>2

LEMMA RdataTag ==
  ASSUME NEW r, WellFormed(r), r.fits, r.type = CAA
  PROVE  /\ r.fixed \in Octet \X StringBytes \X Message /\ Names(r.type) = 0
         /\ Rdata(r) = Tagged(r)
<1>1. r.fixed \in Octet \X StringBytes \X Message
  BY FitsFacts DEF Fits
<1>2. Rdata(r) = Tagged(r)
  BY DEF Rdata, NS, CNAME, SOA, PTR, MX, TXT, SRV, CAA
<1>3. Names(r.type) = 0
  BY DEF Names, NS, CNAME, SOA, PTR, MX, TXT, SRV, CAA
<1> QED BY <1>1, <1>2, <1>3

LEMMA RdataAuthority ==
  ASSUME NEW r, WellFormed(r), r.fits, r.type = SOA
  PROVE  /\ r.fixed \in Message /\ Len(r.fixed) = 20 /\ Names(r.type) = 2
         /\ r.names \in [1..2 -> Seq(LabelBytes)]
         /\ Rdata(r) = Authority(r)
<1>1. r.fixed \in Message /\ Len(r.fixed) = 20
  BY FitsFacts DEF Fits, SOA, TXT, CAA
<1>2. Rdata(r) = Authority(r)
  BY DEF Rdata, NS, CNAME, SOA, PTR, MX, TXT, SRV, CAA
<1>3. Names(r.type) = 2
  BY DEF Names, NS, CNAME, SOA, PTR, MX, TXT, SRV, CAA
<1>4. r.names \in [1..2 -> Seq(LabelBytes)]
  BY <1>3, FitsFacts
<1> QED BY <1>1, <1>2, <1>3, <1>4

(* The bytes in front of the name.                                         *)
Before(type) == IF type = MX THEN 2 ELSE IF type = SRV THEN 6 ELSE 0

LEMMA RdataName ==
  ASSUME NEW r, WellFormed(r), r.fits, r.type \in Naming
  PROVE  /\ r.fixed \in Message /\ Len(r.fixed) = Before(r.type) /\ Names(r.type) = 1
         /\ r.names \in [1..1 -> Seq(LabelBytes)]
         /\ Rdata(r) = Named(r)
<1>1. Names(r.type) = 1
  BY DEF Names, Naming, NS, CNAME, SOA, PTR, MX, SRV
<1>2. Fits(r.type, r.fixed)
  BY FitsFacts
<1>3. r.fixed \in Message /\ Len(r.fixed) = Before(r.type)
  <2>1. /\ r.type \notin {TXT, CAA} => r.fixed \in Message
        /\ r.type \in {CNAME, NS, PTR} => Len(r.fixed) = 0
        /\ r.type = MX => Len(r.fixed) = 2
        /\ r.type = SRV => Len(r.fixed) = 6
    BY <1>2 DEF Fits
  <2>2. r.type \notin {TXT, CAA}
    BY DEF Naming, NS, CNAME, PTR, MX, TXT, SRV, CAA
  <2> QED BY <2>1, <2>2 DEF Before, Naming, MX, SRV, NS, CNAME, PTR
<1>4. Rdata(r) = Named(r)
  BY DEF Rdata, Naming, NS, CNAME, SOA, PTR, MX, TXT, SRV, CAA
<1>5. r.names \in [1..1 -> Seq(LabelBytes)]
  BY <1>1, FitsFacts
<1> QED BY <1>1, <1>3, <1>4, <1>5

LEMMA RdataOther ==
  ASSUME NEW r, WellFormed(r), r.fits, r.type \notin Naming \cup {TXT, CAA, SOA}
  PROVE  /\ r.fixed \in Message /\ Names(r.type) = 0
         /\ Rdata(r) = r.fixed
<1>1. Names(r.type) = 0
  BY DEF Names, Naming, NS, CNAME, SOA, PTR, MX, SRV
<1>2. r.fixed \in Message
  BY FitsFacts DEF Fits
<1>3. Rdata(r) = r.fixed
  BY DEF Rdata, Naming
<1> QED BY <1>1, <1>2, <1>3

LEMMA RdataUnfit ==
  ASSUME NEW r, WellFormed(r), ~r.fits
  PROVE  r.fixed \in Message /\ Rdata(r) = r.fixed /\ Wrong(r.type, Len(r.fixed))
BY DEF WellFormed, Rdata

LEMMA RdataType ==
  ASSUME NEW r, WellFormed(r)
  PROVE  /\ Rdata(r) \in Seq(Octet) /\ Len(Rdata(r)) \in Bits16
         /\ r.type \in Bits16 /\ r.ttl \in Bits16
<1>1. Len(Rdata(r)) \in Bits16 /\ r.type \in Bits16 /\ r.ttl \in Bits16 /\ r.fits \in BOOLEAN
  BY DEF WellFormed
<1>2. CASE r.fits /\ r.type = TXT
  BY <1>1, <1>2, RdataText, StringsType
<1>3. CASE r.fits /\ r.type = CAA
  <2> DEFINE a == <<r.fixed[1]>>
             b == Prefixed(r.fixed[2])
             c == r.fixed[3]
  <2>1. r.fixed[1] \in Octet /\ r.fixed[2] \in StringBytes /\ c \in Seq(Octet)
    BY <1>3, RdataTag DEF Message
  <2>2. a \in Seq(Octet) /\ b \in Seq(Octet)
    BY <2>1, PrefixedType
  <2>3. Rdata(r) = a \o b \o c
    BY <1>3, RdataTag DEF Tagged
  <2> HIDE DEF a, b, c
  <2>4. a \o b \o c \in Seq(Octet)
    BY <2>1, <2>2
  <2> QED BY <1>1, <2>3, <2>4
<1>4. CASE r.fits /\ r.type = SOA
  <2> DEFINE a == Compressed(r.names[1])
             b == Compressed(r.names[2])
             c == r.fixed
  <2>1. r.names[1] \in Seq(LabelBytes) /\ r.names[2] \in Seq(LabelBytes) /\ c \in Seq(Octet)
    BY <1>4, RdataAuthority DEF Message
  <2>2. a \in Seq(Octet) /\ b \in Seq(Octet)
    BY <2>1, CompressedType
  <2>3. Rdata(r) = a \o b \o c
    BY <1>4, RdataAuthority DEF Authority
  <2> HIDE DEF a, b, c
  <2>4. a \o b \o c \in Seq(Octet)
    BY <2>1, <2>2
  <2> QED BY <1>1, <2>3, <2>4
<1>5. CASE r.fits /\ r.type \in Naming
  <2> DEFINE a == r.fixed
             b == Compressed(r.names[1])
  <2>1. r.names[1] \in Seq(LabelBytes) /\ a \in Seq(Octet)
    BY <1>5, RdataName DEF Message
  <2>2. b \in Seq(Octet)
    BY <2>1, CompressedType
  <2>3. Rdata(r) = a \o b
    BY <1>5, RdataName DEF Named
  <2> HIDE DEF a, b
  <2>4. a \o b \in Seq(Octet)
    BY <2>1, <2>2
  <2> QED BY <1>1, <2>3, <2>4
<1>6. CASE r.fits /\ r.type \notin Naming \cup {TXT, CAA, SOA}
  BY <1>1, <1>6, RdataOther DEF Message
<1>7. CASE ~r.fits
  BY <1>1, <1>7, RdataUnfit DEF Message
<1> QED BY <1>1, <1>2, <1>3, <1>4, <1>5, <1>6, <1>7

(* A record in the message.                                                *)
ResourceHeld(r, p) ==
  /\ Holds(p, Compressed(<<>>)) /\ p + 12 + Len(Rdata(r)) <= Size
  /\ U16(p + 2) = r.type /\ U16(p + 6) = 0 /\ U16(p + 8) = r.ttl
  /\ U16(p + 10) = Len(Rdata(r)) /\ Holds(p + 12, Rdata(r))

LEMMA ResourceFacts ==
  ASSUME msg \in Message, NEW r, WellFormed(r)
  PROVE  /\ Resource(r) \in Seq(Octet) /\ Len(Resource(r)) = 12 + Len(Rdata(r))
         /\ \A p \in Nat : Holds(p, Resource(r)) => ResourceHeld(r, p)
<1> DEFINE a == <<192, 12>>
           b == U16Bytes(r.type)
           c == U16Bytes(1)
           d == U16Bytes(0)
           e == U16Bytes(r.ttl)
           f == U16Bytes(Len(Rdata(r)))
           g == Rdata(r)
<1>0. /\ g \in Seq(Octet) /\ Len(g) \in Bits16 /\ r.type \in Bits16 /\ r.ttl \in Bits16
  BY RdataType
<1>1. 0 \in Bits16 /\ 1 \in Bits16 /\ Len(g) \in Bits16 /\ r.type \in Bits16 /\ r.ttl \in Bits16
  <2>1. 0 \in Bits16 /\ 1 \in Bits16
    BY DEF Bits16
  <2> HIDE DEF g
  <2> QED BY <1>0, <2>1
<1>2. /\ a \in Seq(Octet) /\ Len(a) = 2 /\ b \in Seq(Octet) /\ Len(b) = 2
      /\ c \in Seq(Octet) /\ Len(c) = 2 /\ d \in Seq(Octet) /\ Len(d) = 2
      /\ e \in Seq(Octet) /\ Len(e) = 2 /\ f \in Seq(Octet) /\ Len(f) = 2 /\ g \in Seq(Octet)
  <2>1. a \in Seq(Octet) /\ Len(a) = 2
    BY DEF Octet
  <2> HIDE DEF a
  <2>2. b \in Seq(Octet) /\ Len(b) = 2
    BY <1>1, U16BytesType, ZenonT(30)
  <2>5. c \in Seq(Octet) /\ Len(c) = 2
    BY <1>1, U16BytesType
  <2>3. d \in Seq(Octet) /\ Len(d) = 2 /\ e \in Seq(Octet) /\ Len(e) = 2
    BY <1>1, U16BytesType, ZenonT(30)
  <2>4. f \in Seq(Octet) /\ Len(f) = 2
    <3> DEFINE n == Len(g)
    <3> HIDE DEF g
    <3>1. n \in Bits16
      BY <1>1
    <3> HIDE DEF n
    <3>2. U16Bytes(n) \in Seq(Octet) /\ Len(U16Bytes(n)) = 2
      BY ONLY <3>1, U16BytesType
    <3> QED BY <3>2 DEF n, g
  <2> QED BY <1>0, <2>1, <2>2, <2>3, <2>4, <2>5
<1>3. Resource(r) = a \o b \o c \o d \o e \o f \o g
  BY DEF Resource
<1> HIDE DEF a, b, c, d, e, f, g
<1>4. a \o b \in Seq(Octet) /\ Len(a \o b) = Len(a) + 2
  BY <1>2, PairAppended
<1> DEFINE t0 == a \o b
<1>5. t0 \in Seq(Octet) /\ Len(t0) = 4
  BY <1>2, <1>4, <1>4
<1> HIDE DEF t0
<1>15. t0 \o c \in Seq(Octet) /\ Len(t0 \o c) = Len(t0) + 2
  BY <1>2, <1>5, PairAppended
<1> DEFINE t1 == t0 \o c
<1>6. t1 \in Seq(Octet) /\ Len(t1) = 6
  BY <1>2, <1>15, <1>5
<1> HIDE DEF t1
<1>16. t1 \o d \in Seq(Octet) /\ Len(t1 \o d) = Len(t1) + 2
  BY <1>2, <1>6, PairAppended
<1> DEFINE t2 == t1 \o d
<1>7. t2 \in Seq(Octet) /\ Len(t2) = 8
  BY <1>2, <1>16, <1>6
<1> HIDE DEF t2
<1>17. t2 \o e \in Seq(Octet) /\ Len(t2 \o e) = Len(t2) + 2
  BY <1>2, <1>7, PairAppended
<1> DEFINE t3 == t2 \o e
<1>8. t3 \in Seq(Octet) /\ Len(t3) = 10
  BY <1>2, <1>17, <1>7
<1> HIDE DEF t3
<1>18. t3 \o f \in Seq(Octet) /\ Len(t3 \o f) = Len(t3) + 2
  BY <1>2, <1>8, PairAppended
<1> DEFINE t4 == t3 \o f
<1>9. t4 \in Seq(Octet) /\ Len(t4) = 12
  BY <1>2, <1>18, <1>8
<1> HIDE DEF t4
<1>19. t4 \o g \in Seq(Octet) /\ Len(t4 \o g) = Len(t4) + Len(g)
  BY <1>2, <1>9, ConcatFacts
<1>21. Resource(r) = t4 \o g
  BY <1>3 DEF t0, t1, t2, t3, t4
<1>22. ASSUME NEW p \in Nat, Holds(p, Resource(r)) PROVE ResourceHeld(r, p)
  <2>1. Holds(p, t4 \o g)
    BY <1>21, <1>22
  <2>2. Holds(p, t4) /\ Holds(p + Len(t4), g)
    BY <1>2, <1>9, <2>1, HoldsConcat
  <2>3. Holds(p, t3) /\ Holds(p + Len(t3), f)
    BY <1>2, <1>8, <2>2, HoldsConcat DEF t4
  <2>4. Holds(p, t2) /\ Holds(p + Len(t2), e)
    BY <1>2, <1>7, <2>3, HoldsConcat DEF t3
  <2>5. Holds(p, t1) /\ Holds(p + Len(t1), d)
    BY <1>2, <1>6, <2>4, HoldsConcat DEF t2
  <2>6. Holds(p, t0) /\ Holds(p + Len(t0), c)
    BY <1>2, <1>5, <2>5, HoldsConcat DEF t1
  <2>7. Holds(p, a) /\ Holds(p + Len(a), b)
    BY <1>2, <2>6, HoldsConcat DEF t0
  <2>8. /\ Holds(p + 2, b) /\ Holds(p + 6, d) /\ Holds(p + 8, e) /\ Holds(p + 10, f)
        /\ Holds(p + 12, g)
    BY <1>2, <1>6, <1>7, <1>8, <1>9, <2>2, <2>3, <2>4, <2>5, <2>7
  <2>9. p + 2 \in Nat /\ p + 6 \in Nat /\ p + 8 \in Nat /\ p + 10 \in Nat /\ p + 12 \in Nat
    OBVIOUS
  <2>10. U16(p + 2) = r.type
    BY <1>0, <2>8, <2>9, HoldsU16 DEF b
  <2>11. U16(p + 6) = 0
    BY <1>1, <2>8, <2>9, HoldsU16 DEF d
  <2>12. U16(p + 8) = r.ttl
    BY <1>0, <2>8, <2>9, HoldsU16 DEF e
  <2>13. U16(p + 10) = Len(g)
    BY <1>0, <2>8, <2>9, HoldsU16 DEF f, g
  <2>14. Holds(p, Compressed(<<>>))
    <3>1. Strings(<<>>) = <<>>
      BY StringsType
    <3>2. <<>> \o a = a
      BY <1>2
    <3>3. Compressed(<<>>) = a
      BY <3>1, <3>2 DEF Compressed, a
    <3> QED BY <2>7, <3>3
  <2>15. (p + 12) + Len(g) <= Size
    BY <2>8 DEF Holds
  <2> QED BY <2>8, <2>10, <2>11, <2>12, <2>13, <2>14, <2>15 DEF ResourceHeld, g
<1>23. Resource(r) \in Seq(Octet) /\ Len(Resource(r)) = 12 + Len(g)
  BY <1>9, <1>19, <1>21
<1> QED BY <1>22, <1>23 DEF g

-----------------------------------------------------------------------------
(* An honest response in full.  Where its records start, and what is       *)
(* where in it.                                                            *)
ResourceOf == [r \in Sent |-> Resource(r)]

All == Len(script.recs)
Base == (12 + Len(Encoded(host))) + 4
RecordAt(k) == Place0(Base, ResourceOf, script.recs, k)

Responded ==
  /\ Buildable(host)
  /\ script.recs \in Seq(Sent) /\ Len(script.recs) \in Bits16
  /\ script.rcode \in 0..15
  /\ msg = Respond(host, want, script.recs, script.rcode)

LEMMA HostType ==
  ASSUME host \in Host, Buildable(host)
  PROVE  host \in Seq(LabelBytes)
<1>1. host \in Seq(Message) /\ \A i \in DOMAIN host : Len(host[i]) \in 1..63
  BY HostAssumption DEF Buildable
<1>2. \A i \in 1..Len(host) : host[i] \in LabelBytes
  BY <1>1 DEF LabelBytes
<1>3. Len(host) \in Nat /\ host = [i \in 1..Len(host) |-> host[i]]
  BY <1>1
<1> QED BY <1>2, <1>3

LEMMA EncodedType ==
  ASSUME NEW ls \in Seq(LabelBytes)
  PROVE  Encoded(ls) \in Seq(Octet) /\ Len(Encoded(ls)) \in Nat
<1>1. ls \in Seq(StringBytes)
  BY LabelsAreStrings
<1> DEFINE a == Strings(ls)
           b == <<0>>
<1>2. a \in Seq(Octet)
  BY <1>1, StringsType
<1>3. b \in Seq(Octet)
  BY DEF Octet
<1> HIDE DEF a, b
<1>4. a \o b \in Seq(Octet) /\ Len(a \o b) \in Nat
  BY <1>2, <1>3
<1> QED BY <1>4 DEF a, b, Encoded

LEMMA ResourcesJoined ==
  ASSUME msg \in Message
  PROVE  /\ Makes(ResourceOf, Sent, Seq(Octet))
         /\ \A recs \in Seq(Sent) :
              Resources(recs) = Joined(ResourceOf, recs) /\ Resources(recs) \in Seq(Octet)
<1>1. Makes(ResourceOf, Sent, Seq(Octet))
  BY SentAssumption, ResourceFacts DEF ResourceOf, Makes
<1>2. ASSUME NEW recs \in Seq(Sent)
      PROVE  Resources(recs) = Joined(ResourceOf, recs) /\ Resources(recs) \in Seq(Octet)
  <2>1. \A i \in DOMAIN recs : recs[i] \in Sent
    OBVIOUS
  <2>2. \A i \in DOMAIN recs : ResourceOf[recs[i]] = Resource(recs[i])
    BY <2>1 DEF ResourceOf
  <2>3. [i \in DOMAIN recs |-> Resource(recs[i])] = Each(ResourceOf, recs)
    BY <2>2 DEF Each
  <2>4. Resources(recs) = Joined(ResourceOf, recs)
    BY <2>3 DEF Resources, Joined
  <2>5. CASE recs = <<>>
    <3>1. Each(ResourceOf, <<>>) = <<>> /\ FlattenSeq(<<>>) = <<>>
      BY DEF Each, FlattenSeq
    <3>2. <<>> \in Seq(Octet)
      OBVIOUS
    <3> QED BY <2>4, <2>5, <3>1, <3>2 DEF Joined
  <2>6. CASE recs # <<>>
    <3>1. recs[1] \in Sent
      BY <2>6
    <3> DEFINE f == ResourceOf
               x == recs[1]
    <3> HIDE DEF f, x
    <3>2. Joined(f, recs) \in Seq(Octet)
      BY <1>1, <3>1, JoinedAppend DEF f, x
    <3> QED BY <2>4, <3>2 DEF f
  <2> QED BY <2>4, <2>5, <2>6
<1> QED BY <1>1, <1>2

Laid ==
  /\ script.recs \in Seq(Sent) /\ All \in Bits16 /\ script.rcode \in 0..15
  /\ host \in Seq(LabelBytes) /\ Holds(12, Encoded(host)) /\ Base \in Nat
  /\ Size >= 12 /\ Byte(3) = script.rcode /\ U16(4) = 1 /\ U16(6) = All
  /\ Holds(Base, Joined(ResourceOf, script.recs))

LEMMA AnsweredLaid ==
  ASSUME msg \in Message, host \in Host, want \in Want, Responded
  PROVE  Laid
<1> DEFINE n == All
           rcode == script.rcode
           a == <<0, 0, 129, rcode>>
           b == U16Bytes(1)
           c == U16Bytes(n)
           d == <<0, 0, 0, 0>>
           e == Encoded(host)
           f == U16Bytes(want)
           q == e \o f \o b
           g == Resources(script.recs)
<1>1. /\ host \in Seq(LabelBytes) /\ script.recs \in Seq(Sent) /\ n \in Bits16
      /\ rcode \in 0..15 /\ want \in Bits16 /\ 1 \in Bits16
  <2>1. 1 \in Bits16
    BY DEF Bits16
  <2>2. n \in Bits16 /\ script.recs \in Seq(Sent) /\ rcode \in 0..15 /\ Buildable(host)
    BY DEF Responded, All
  <2> QED BY <2>1, <2>2, HostType, WantAssumption
<1>2. g = Joined(ResourceOf, script.recs) /\ g \in Seq(Octet)
  BY <1>1, ResourcesJoined
<1>3. e \in Seq(Octet) /\ Len(e) \in Nat
  BY <1>1, EncodedType
<1>4. f \in Seq(Octet) /\ Len(f) = 2
  BY <1>1, U16BytesType
<1>5. b \in Seq(Octet) /\ Len(b) = 2
  BY <1>1, U16BytesType
<1>6. c \in Seq(Octet) /\ Len(c) = 2
  BY <1>1, U16BytesType
<1>7. a \in Seq(Octet) /\ Len(a) = 4 /\ a[4] = rcode
  BY <1>1 DEF Octet
<1>8. d \in Seq(Octet) /\ Len(d) = 4
  BY DEF Octet
<1>9. msg = a \o b \o c \o d \o q \o g
  BY DEF Responded, Respond, Question, All
<1> HIDE DEF n, rcode, a, b, c, d, e, f, g
<1> DEFINE s1 == a \o b
           s2 == s1 \o c
           s3 == s2 \o d
           s4 == s3 \o q
           r1 == e \o f
<1>10. r1 \in Seq(Octet) /\ Len(r1) = Len(e) + 2
  BY <1>3, <1>4, PairAppended
<1> HIDE DEF r1
<1>11. q = r1 \o b
  BY DEF r1
<1>12. q \in Seq(Octet) /\ Len(q) = Len(r1) + 2
  BY <1>5, <1>10, <1>11, PairAppended
<1> HIDE DEF q
<1>13. s1 \in Seq(Octet) /\ Len(s1) = Len(a) + 2
  BY <1>5, <1>7, PairAppended
<1> HIDE DEF s1
<1>14. s2 \in Seq(Octet) /\ Len(s2) = Len(s1) + 2
  BY <1>6, <1>13, PairAppended
<1> HIDE DEF s2
<1>15. s3 \in Seq(Octet) /\ Len(s3) = Len(s2) + Len(d)
  BY <1>8, <1>14, ConcatFacts
<1> HIDE DEF s3
<1>16. s4 \in Seq(Octet) /\ Len(s4) = Len(s3) + Len(q)
  BY <1>12, <1>15, ConcatFacts
<1>17. Len(s1) = 6 /\ Len(s2) = 8 /\ Len(s3) = 12
  BY <1>7, <1>8, <1>13, <1>14, <1>15
<1>18. Len(s4) = (12 + Len(e)) + 4
  BY <1>3, <1>10, <1>12, <1>16, <1>17
<1> HIDE DEF s4
<1>19. msg = s4 \o g
  BY <1>9 DEF s4, s3, s2, s1
<1>20. Holds(0, s4 \o g)
  <2>1. Len(msg) \in Nat /\ 0 + Len(msg) <= Len(msg) /\ \A i \in 1..Len(msg) : msg[0 + i] = msg[i]
    BY SizeType DEF Size
  <2> QED BY <1>19, <2>1 DEF Holds, Size
<1>21. Holds(0, s4) /\ Holds(0 + Len(s4), g)
  BY <1>2, <1>16, <1>20, HoldsConcat
<1>22. Holds(0, s3) /\ Holds(0 + Len(s3), q)
  BY <1>12, <1>15, <1>21, HoldsConcat DEF s4
<1>23. Holds(0, s2) /\ Holds(0 + Len(s2), d)
  BY <1>8, <1>14, <1>22, HoldsConcat DEF s3
<1>24. Holds(0, s1) /\ Holds(0 + Len(s1), c)
  BY <1>6, <1>13, <1>23, HoldsConcat DEF s2
<1>25. Holds(0, a) /\ Holds(0 + Len(a), b)
  BY <1>5, <1>7, <1>24, HoldsConcat DEF s1
<1>26. Holds(4, b) /\ Holds(6, c) /\ Holds(12, q) /\ Holds((12 + Len(e)) + 4, g)
  BY <1>3, <1>7, <1>17, <1>18, <1>21, <1>22, <1>24, <1>25
<1>27. U16(4) = 1
  BY <1>1, <1>26, HoldsU16 DEF b
<1>28. U16(6) = n
  BY <1>1, <1>26, HoldsU16 DEF c
<1>29. Holds(12, r1)
  BY <1>5, <1>10, <1>11, <1>26, HoldsConcat
<1>30. Holds(12, e)
  BY <1>3, <1>4, <1>29, HoldsConcat DEF r1
<1>31. Byte(3) = rcode
  <2>1. 3 \in 0..(4 - 1) /\ 0 + 3 = 3 /\ 3 + 1 = 4 /\ 0 \in Nat
    OBVIOUS
  <2>2. Byte(0 + 3) = a[3 + 1]
    BY <1>7, <1>25, <2>1, HoldsBytes
  <2> QED BY <1>7, <2>1, <2>2
<1>32. Size >= 12
  BY <1>17, <1>22, SizeType DEF Holds
<1> QED
  BY <1>1, <1>2, <1>3, <1>26, <1>27, <1>28, <1>30, <1>31, <1>32
  DEF Laid, Base, n, rcode, e, g, All

LEMMA Bits16Nat == Bits16 \subseteq Nat
BY DEF Bits16

LEMMA IntervalDown ==
  ASSUME NEW M \in Int, NEW S, S = 0..M, NEW n \in S, NEW m \in 0..n
  PROVE  m \in S
OBVIOUS

LEMMA Bits16Below ==
  ASSUME NEW n \in Bits16, NEW m \in 0..n
  PROVE  m \in Bits16
<1> DEFINE M == 65535
<1>1. M \in Int
  BY SMT
<1>2. Bits16 = 0..M
  BY SMTT(30) DEF Bits16
<1> HIDE DEF M
<1> QED BY <1>1, <1>2, IntervalDown

LEMMA Placed ==
  ASSUME msg \in Message, Laid
  PROVE  /\ All \in Nat /\ RecordAt(0) = Base /\ Base \in Nat
         /\ \A k \in 0..All : RecordAt(k) \in Nat
         /\ \A k \in 1..All :
              /\ script.recs[k] \in Sent /\ WellFormed(script.recs[k])
              /\ RecordAt(k) = RecordAt(k - 1) + 12 + Len(Rdata(script.recs[k]))
              /\ ResourceHeld(script.recs[k], RecordAt(k - 1))
<1> DEFINE s == script.recs
           f == ResourceOf
           n == All
<1>1. /\ s \in Seq(Sent) /\ n \in Nat /\ Base \in Nat /\ Holds(Base, Joined(f, s))
      /\ Makes(f, Sent, Seq(Octet)) /\ n = Len(s)
  <2>1. n \in Nat
    BY Bits16Nat DEF Laid
  <2> QED BY <2>1, ResourcesJoined DEF Laid, All
<1>2. \A k \in 1..n : s[k] \in Sent
  BY <1>1
<1>3. \A k \in 1..n : f[s[k]] = Resource(s[k]) /\ WellFormed(s[k])
  BY <1>2, SentAssumption DEF ResourceOf
<1>4. \A k \in 0..n : RecordAt(k) = Place0(Base, f, s, k)
  BY DEF RecordAt
<1> HIDE DEF s, f, n
<1>5. /\ Place0(Base, f, s, 0) = Base
      /\ \A k \in 0..Len(s) : Place0(Base, f, s, k) \in Nat
      /\ \A k \in 1..Len(s) :
           /\ Place0(Base, f, s, k) = Place0(Base, f, s, k - 1) + Len(f[s[k]])
           /\ Holds(Place0(Base, f, s, k - 1), f[s[k]])
  BY <1>1, JoinedHeld
<1>6. RecordAt(0) = Base /\ \A k \in 0..n : RecordAt(k) \in Nat
  BY <1>1, <1>4, <1>5
<1>7. ASSUME NEW k \in 1..n
      PROVE  /\ RecordAt(k) = RecordAt(k - 1) + 12 + Len(Rdata(s[k]))
             /\ ResourceHeld(s[k], RecordAt(k - 1))
  <2>1. k \in 0..n /\ k - 1 \in 0..n /\ k \in 1..Len(s)
    BY <1>1
  <2> DEFINE r == s[k]
             p == RecordAt(k - 1)
  <2>2. f[r] = Resource(r) /\ WellFormed(r)
    BY <1>3
  <2>3. p \in Nat /\ RecordAt(k) = p + Len(f[r]) /\ Holds(p, f[r])
    BY <1>1, <1>4, <1>5, <1>6, <2>1
  <2> HIDE DEF r, p
  <2>4. Len(Resource(r)) = 12 + Len(Rdata(r))
    BY <2>2, ResourceFacts
  <2>5. ResourceHeld(r, p)
    BY <2>2, <2>3, ResourceFacts
  <2>6. Len(Rdata(r)) \in Nat
    BY <2>2, RdataType, Bits16Nat
  <2>7. RecordAt(k) = p + 12 + Len(Rdata(r))
    BY <2>2, <2>3, <2>4, <2>6
  <2> QED BY <2>5, <2>7 DEF r, p
<1> QED BY <1>1, <1>2, <1>3, <1>6, <1>7 DEF s, n

-----------------------------------------------------------------------------
(* What is found when the first k records were looked at, and the values   *)
(* of the first j of them were taken.                                      *)
OfWant == {r \in Sent : r.type = want}
FitOfWant == {r \in Sent : r.type = want /\ r.fits}

Aliased(k) == \E i \in 1..k : script.recs[i].type = CNAME

TtlOf(wanted) == IF wanted = <<>> THEN Nothing ELSE <<0, wanted[1].ttl>>

Values(decoded) == [i \in DOMAIN decoded |-> Value(decoded[i])]

TtlAfter(k) == TtlOf(Those(First(script.recs, k), OfWant))
ValuesAfter(j) == Values(Those(First(script.recs, j), FitOfWant))

Finding(k, j) ==
  [rcode |-> script.rcode, ttl |-> TtlAfter(k), records |-> ValuesAfter(j),
   cname |-> Aliased(k)]

Fresh == found = [rcode |-> 0, ttl |-> Nothing, records |-> <<>>, cname |-> FALSE]

LEMMA NothingFound ==
  ASSUME Laid
  PROVE  TtlAfter(0) = Nothing /\ ValuesAfter(0) = <<>> /\ Aliased(0) = FALSE
<1>1. First(script.recs, 0) = <<>>
  BY FirstFacts DEF Laid
<1>2. \A T : Those(<<>>, T) = <<>>
  <2>1. <<>> \in Seq({1}) /\ 1 \in {1}
    OBVIOUS
  <2> QED BY <2>1, ThoseAppend
<1>3. Values(<<>>) = <<>>
  BY DEF Values
<1>4. ~Aliased(0)
  BY DEF Aliased
<1> QED BY <1>1, <1>2, <1>3, <1>4 DEF TtlAfter, ValuesAfter, TtlOf

LEMMA LaterAppended ==
  ASSUME NEW X, NEW s \in Seq(X), NEW x \in X
  PROVE  Append(s, x) \in Seq(X) /\ Len(Append(s, x)) = Len(s) + 1 /\ Append(s, x)[Len(s) + 1] = x
OBVIOUS
LEMMA EmptyFacts ==
  \A r : <<>> \in Seq({r}) /\ Len(<<>>) = 0
OBVIOUS
LEMMA AloneAppended ==
  ASSUME NEW r
  PROVE  Append(<<>>, r) # <<>> /\ Append(<<>>, r)[1] = r
<1> DEFINE e == <<>>
<1>1. e \in Seq({r}) /\ Len(e) = 0 /\ r \in {r}
  BY EmptyFacts
<1> DEFINE t == Append(e, r)
<1> HIDE DEF e
<1>2. t \in Seq({r}) /\ Len(t) = Len(e) + 1 /\ t[Len(e) + 1] = r
  BY <1>1, LaterAppended
<1> HIDE DEF t
<1>3. Len(t) = 1 /\ t[1] = r
  BY <1>1, <1>2
<1>4. t # <<>>
  BY <1>3, EmptyFacts
<1> QED BY <1>3, <1>4 DEF t, e

LEMMA BehindAppended ==
  ASSUME NEW X, NEW s \in Seq(X), NEW x \in X, s # <<>>
  PROVE  Append(s, x) # <<>> /\ Append(s, x)[1] = s[1] /\ s[1] \in X
<1>1. Len(s) \in Nat /\ Len(s) # 0
  OBVIOUS
<1>2. s[1] \in X
  BY <1>1
<1>3. Append(s, x)[1] = s[1] /\ Len(Append(s, x)) # 0
  BY <1>1
<1>4. Append(s, x) # <<>>
  BY <1>3
<1> QED BY <1>2, <1>3, <1>4

LEMMA OneMoreFound ==
  ASSUME Laid, NEW k \in 1..All
  PROVE  LET r == script.recs[k]
         IN /\ TtlAfter(k) = IF r.type = want /\ TtlAfter(k - 1) = Nothing
                             THEN <<0, r.ttl>> ELSE TtlAfter(k - 1)
            /\ ValuesAfter(k) = IF r.type = want /\ r.fits
                                THEN Append(ValuesAfter(k - 1), Value(r))
                                ELSE ValuesAfter(k - 1)
            /\ Aliased(k) = (Aliased(k - 1) \/ r.type = CNAME)
<1> DEFINE s == script.recs
           t == First(s, k - 1)
           r == s[k]
<1>1. /\ r \in Sent /\ First(s, k) = Append(t, r) /\ t \in Seq(Sent) /\ k \in Nat
      /\ r \in OfWant <=> r.type = want
      /\ r \in FitOfWant <=> r.type = want /\ r.fits
  <2>0. s \in Seq(Sent) /\ k \in 1..Len(s)
    BY DEF Laid, All
  <2> HIDE DEF s
  <2>1. k - 1 \in 0..Len(s) /\ k \in Nat
    BY <2>0
  <2>2. r \in Sent /\ First(s, k) = Append(t, r) /\ t \in Seq(Sent)
    BY <2>0, <2>1, FirstFacts
  <2> HIDE DEF r, t
  <2> QED BY <2>1, <2>2 DEF OfWant, FitOfWant
<1>2. Aliased(k) = (Aliased(k - 1) \/ r.type = CNAME)
  <2>1. \A i : i \in 1..k <=> i \in 1..(k - 1) \/ i = k
    BY <1>1
  <2> HIDE DEF s
  <2>2. (\E i \in 1..k : s[i].type = CNAME) <=> (\E i \in 1..(k - 1) : s[i].type = CNAME) \/ r.type = CNAME
    BY <2>1
  <2> QED BY <2>2 DEF Aliased, s
<1> DEFINE w == Those(t, OfWant)
           d == Those(t, FitOfWant)
<1>3. /\ Those(First(s, k), OfWant) = IF r.type = want THEN Append(w, r) ELSE w
      /\ Those(First(s, k), FitOfWant) = IF r.type = want /\ r.fits THEN Append(d, r) ELSE d
  <2> HIDE DEF s, t, r
  <2>1. \A T : Those(Append(t, r), T) = IF r \in T THEN Append(Those(t, T), r) ELSE Those(t, T)
    BY <1>1, ThoseAppend
  <2> QED BY <1>1, <2>1
<1>4. w \in Seq(Sent) /\ d \in Seq(Sent)
  <2> HIDE DEF s, t, r
  <2> QED BY <1>1, ThoseFacts
<1>5. /\ TtlAfter(k) = TtlOf(Those(First(s, k), OfWant)) /\ TtlAfter(k - 1) = TtlOf(w)
      /\ ValuesAfter(k) = Values(Those(First(s, k), FitOfWant)) /\ ValuesAfter(k - 1) = Values(d)
  BY DEF TtlAfter, ValuesAfter
<1> HIDE DEF w, d
<1>6. TtlOf(Append(w, r)) = IF TtlOf(w) = Nothing THEN <<0, r.ttl>> ELSE TtlOf(w)
  <2>1. CASE w = <<>>
    <3> HIDE DEF s, t, r
    <3>1. Append(w, r) # <<>> /\ Append(w, r)[1] = r
      BY ONLY <2>1, AloneAppended
    <3> QED BY <2>1, <3>1 DEF TtlOf
  <2>2. CASE w # <<>>
    <3>1. Append(w, r) # <<>> /\ Append(w, r)[1] = w[1] /\ w[1] \in Sent
      <4> HIDE DEF s, t, r
      <4>1. w \in Seq(Sent) /\ r \in Sent
        BY <1>1, <1>4
      <4> QED BY ONLY <2>2, <4>1, BehindAppended
    <3>2. <<0, w[1].ttl>> # Nothing
      <4>1. w[1].ttl \in Bits16
        BY <3>1, SentAssumption DEF WellFormed
      <4>2. w[1].ttl \in Nat
        BY <4>1, Bits16Nat
      <4>3. <<0, w[1].ttl>> \in Seq(Nat)
        BY <4>2
      <4> QED BY <4>3, NothingAssumption
    <3> HIDE DEF r
    <3> QED BY <2>2, <3>1, <3>2 DEF TtlOf
  <2> QED BY <2>1, <2>2
<1>7. Values(Append(d, r)) = Append(Values(d), Value(r))
  <2> DEFINE f == [q \in Sent |-> Value(q)]
             V == {Value(q) : q \in Sent}
  <2>1. Makes(f, Sent, V)
    BY DEF Makes
  <2>2. \A u \in Seq(Sent) : Values(u) = Each(f, u)
    <3>1. TAKE u \in Seq(Sent)
    <3>2. \A i \in DOMAIN u : f[u[i]] = Value(u[i])
      OBVIOUS
    <3> HIDE DEF f
    <3> QED BY <3>2 DEF Values, Each
  <2>3. f[r] = Value(r) /\ Append(d, r) \in Seq(Sent)
    BY <1>1, <1>4
  <2> HIDE DEF f, V, r
  <2>4. Each(f, Append(d, r)) = Append(Each(f, d), f[r])
    BY <1>1, <1>4, <2>1, EachAppend
  <2> QED BY <1>4, <2>2, <2>3, <2>4
<1> QED BY <1>2, <1>3, <1>5, <1>6, <1>7 DEF s, r

-----------------------------------------------------------------------------
(* Where the parser may be in an honest response, and with what: in front  *)
(* of the records, behind the first k of them, or within the k-th.         *)
AtHeader == pc = "header" /\ Fresh

Skips(asker, p) ==
  pc = "name" /\ walk.then = asker /\ walk.start = p /\ walk.follows = MaxHops + 1

InQuestions ==
  /\ answers = All /\ found = Finding(0, 0)
  /\ \/ pc = "question" /\ questions = 1 /\ pos = 12
     \/ pc = "question" /\ questions = 0 /\ pos = RecordAt(0)
     \/ Skips("asked", 12) /\ questions = 1

Between(k) ==
  /\ k \in 0..All /\ answers = All - k /\ found = Finding(k, k)
  /\ \/ pc = "answer" /\ pos = RecordAt(k)
     \/ Skips("owner", RecordAt(k)) /\ k < All
     \/ pc = "record" /\ pos = RecordAt(k) + 2 /\ k < All

RdataAt(k) == RecordAt(k - 1) + 12

NameAt(k, i) ==
  IF i = 1 THEN RdataAt(k) + Before(want)
  ELSE RdataAt(k) + Len(Compressed(script.recs[k].names[1]))

ReadsName(k, i) ==
  /\ pc = "name" /\ walk.then = "rdata" /\ walk.follows = MaxHops
  /\ i \in 1..Names(want)
  /\ rec.names = [j \in 1..(i - 1) |-> script.recs[k].names[j] \o host]
  /\ walk.start = NameAt(k, i)

ReadsText(k, j) ==
  /\ pc = "text" /\ want = TXT
  /\ j \in 0..Len(script.recs[k].fixed)
  /\ walk.labels = First(script.recs[k].fixed, j)
  /\ walk.pos = Place0(RdataAt(k), PrefixedBytes, script.recs[k].fixed, j)

ReadsFixed == pc = "push" /\ Names(want) = 0 /\ want # TXT

Within(k) ==
  /\ k \in 1..All /\ answers = All - k /\ found = Finding(k, k - 1)
  /\ script.recs[k].type = want /\ script.recs[k].fits
  /\ pos = RecordAt(k)
  /\ rec = [type |-> want, start |-> RdataAt(k), end |-> RecordAt(k), names |-> rec.names]

Reading(k) ==
  \/ \E i \in Nat : ReadsName(k, i)
  \/ \E j \in Nat : ReadsText(k, j)
  \/ ReadsFixed

Judges == pc = "judge" /\ found = Finding(All, All)

Concluded == pc = "over" /\ found = Finding(All, All) /\ result = Verdict

Follows ==
  \/ AtHeader
  \/ InQuestions
  \/ \E k \in Nat : Between(k)
  \/ \E k \in Nat : Within(k) /\ Reading(k)
  \/ Judges
  \/ Concluded

Told == script # Nothing => Responded /\ Follows

HonestInv ==
  /\ NameInv
  /\ host \in Host /\ want \in Want
  /\ pc = "query" => script = Nothing /\ Fresh
  /\ Told

(* What was asked and answered stays.                                      *)
LEMMA SameScript ==
  ASSUME UNCHANGED <<asked, wire>>
  PROVE  /\ host' = host /\ want' = want /\ msg' = msg /\ script' = script
         /\ Responded' = Responded /\ All' = All
         /\ \A k : RecordAt(k)' = RecordAt(k) /\ RdataAt(k)' = RdataAt(k)
         /\ \A k, i : NameAt(k, i)' = NameAt(k, i)
         /\ \A k, j : Finding(k, j)' = Finding(k, j)
<1>1. host' = host /\ want' = want /\ msg' = msg /\ script' = script
  BY DEF asked, wire
<1>2. Responded' = Responded /\ All' = All
  BY <1>1 DEF Responded, All
<1>3. Base' = Base
  BY <1>1 DEF Base
<1>4. ASSUME NEW k PROVE RecordAt(k)' = RecordAt(k) /\ RdataAt(k)' = RdataAt(k)
  BY <1>1, <1>3 DEF RecordAt, RdataAt
<1>5. ASSUME NEW k, NEW i PROVE NameAt(k, i)' = NameAt(k, i)
  BY <1>1, <1>4 DEF NameAt
<1>6. ASSUME NEW k PROVE TtlAfter(k)' = TtlAfter(k) /\ Aliased(k)' = Aliased(k)
  BY <1>1 DEF TtlAfter, OfWant, Aliased
<1>7. ASSUME NEW j PROVE ValuesAfter(j)' = ValuesAfter(j)
  BY <1>1 DEF ValuesAfter, FitOfWant, Values, Value
<1>8. ASSUME NEW k, NEW j PROVE Finding(k, j)' = Finding(k, j)
  BY <1>1, <1>6, <1>7 DEF Finding
<1> QED BY <1>1, <1>2, <1>4, <1>5, <1>8

(* A walk over a name that is there does not fail.                         *)
LEMMA NeverFails ==
  ASSUME NameInv, [WireNext]_wireVars, AtName, ~Reads({0}), Whole.labels \in Seq(Message)
  PROVE  result' = Nothing
<1>1. \A i \in DOMAIN Whole.labels : Whole.labels[i] # Nothing
  <2>1. Message \subseteq Seq(Nat)
    <3>1. Octet \subseteq Nat
      BY DEF Octet
    <3> QED BY <3>1, WiderSeq DEF Message
  <2> QED BY <2>1, NothingAssumption
<1>2. Nothing \notin ToSet(Whole.labels)
  BY <1>1 DEF ToSet
<1> QED BY <1>2, EndsAsDefined

LEMMA NotAtRoot ==
  ASSUME WireInv, NameOverruns \/ BadLabel \/ ReadLabel \/ Pointer
  PROVE  ~Reads({0}) /\ AtName
<1>1. CASE NameOverruns
  <2>1. AtName /\ walk.pos >= Size
    BY <1>1 DEF NameOverruns
  <2>2. ~(walk.pos < Size)
    BY <2>1, WalkFacts
  <2> QED BY <2>1, <2>2 DEF Reads
<1>2. CASE BadLabel \/ ReadLabel \/ Pointer
  <2>1. AtName /\ Byte(walk.pos) \in 1..255
    BY <1>2 DEF BadLabel, ReadLabel, Pointer, Reads
  <2> QED BY <2>1 DEF Reads
<1> QED BY <1>1, <1>2

(* The turns of a walk leave everything else alone.                        *)
LEMMA WalkGoesOn ==
  ASSUME NameInv, AtName, result' = Nothing,
         NameOverruns \/ BadLabel \/ ReadLabel \/ Pointer
  PROVE  /\ UNCHANGED <<asked, wire, pc, pos, loop, result>>
         /\ walk'.start = walk.start /\ walk'.follows = walk.follows /\ walk'.then = walk.then
<1>0. walk \in Walk /\ pc = "name"
  BY DEF NameInv, WireInv, AtName
<1>1. \A why : Fail(why) => result' = why
  BY DEF Fail
<1>2. "invalid" # Nothing
  BY NothingAssumption DEF Outcome
<1>3. CASE NameOverruns \/ BadLabel
  BY <1>1, <1>2, <1>3 DEF NameOverruns, BadLabel, InvalidName
<1>4. CASE ReadLabel
  <2>1. ~InvalidName
    BY <1>1, <1>2 DEF InvalidName
  <2>2. \E p, ls : Advance([walk EXCEPT !.pos = p, !.labels = ls])
    BY <1>4, <2>1 DEF ReadLabel
  <2> QED BY <1>0, <2>2 DEF Advance, Walk
<1>5. CASE Pointer
  <2>1. ~InvalidName
    BY <1>1, <1>2 DEF InvalidName
  <2>2. \E p, h, e : Advance([walk EXCEPT !.pos = p, !.hops = h, !.end = e])
    BY <1>5, <2>1, ZenonT(30) DEF Pointer
  <2> QED BY <1>0, <2>2 DEF Advance, Walk
<1> QED BY <1>3, <1>4, <1>5

-----------------------------------------------------------------------------
(* The steps at an honest response.                                        *)
LEMMA HeaderFollows ==
  ASSUME msg \in Message, Laid, AtHeader, Header
  PROVE  InQuestions'
<1>1. /\ All \in Nat /\ Size \in Nat /\ Size >= 12 /\ Byte(3) = script.rcode
      /\ script.rcode \in 0..15 /\ U16(4) = 1 /\ U16(6) = All
  BY Placed, SizeType DEF Laid
<1>2. /\ UNCHANGED <<asked, wire>>
      /\ pc' = "question" /\ pos' = 12 /\ questions' = 1 /\ answers' = All
      /\ found' = [found EXCEPT !.rcode = Byte(3) % 16]
  BY <1>1 DEF Header, Goto
<1>3. Byte(3) % 16 = script.rcode
  BY <1>1
<1>4. found' = [rcode |-> script.rcode, ttl |-> Nothing, records |-> <<>>, cname |-> FALSE]
  BY <1>2, <1>3 DEF AtHeader, Fresh
<1>5. found' = Finding(0, 0)
  BY <1>4, NothingFound DEF Finding
<1> QED BY <1>2, <1>5, SameScript DEF InQuestions

(* The question's name ends where the question's type is, an owner's at    *)
(* the record's.                                                           *)
LEMMA QuestionKnown ==
  ASSUME msg \in Message, Laid, Skips("asked", 12)
  PROVE  Whole.labels \in Seq(Message) /\ Whole.end + 4 = RecordAt(0)
<1>1. /\ MaxHops + 1 \in 0..MaxHops + 1 /\ 12 \in Nat
      /\ host \in Seq(LabelBytes) /\ Holds(12, Encoded(host))
  BY MaxHopsAssumption DEF Laid
<1> DEFINE h == MaxHops + 1
           d == Denotes[<<h, 12>>]
<1>2. Whole = d
  BY DEF Whole, Skips
<1> HIDE DEF h
<1>3. d.labels = host /\ d.end = 12 + Len(Encoded(host))
  BY <1>1, HostDenoted DEF h
<1>4. RecordAt(0) = (12 + Len(Encoded(host))) + 4
  BY Placed DEF Base
<1>5. host \in Seq(Message)
  <2>1. LabelBytes \subseteq Message
    BY DEF LabelBytes
  <2> QED BY <1>1, <2>1, WiderSeq
<1> QED BY <1>2, <1>3, <1>4, <1>5

LEMMA OwnerKnown ==
  ASSUME msg \in Message, Laid, NEW k \in 0..All, k < All, Skips("owner", RecordAt(k))
  PROVE  Whole.labels \in Seq(Message) /\ Whole.end = RecordAt(k) + 2
<1> DEFINE p == RecordAt(k)
           h == MaxHops + 1
           d == Denotes[<<h, p>>]
<1>1. h \in 1..MaxHops + 1 /\ host \in Seq(LabelBytes) /\ Holds(12, Encoded(host))
  BY MaxHopsAssumption DEF Laid
<1>2. All \in Nat /\ k + 1 \in 1..All /\ (k + 1) - 1 = k /\ p \in Nat
  BY Placed
<1>3. Holds(p, Compressed(<<>>))
  BY <1>2, Placed DEF ResourceHeld
<1>4. Whole = d
  BY DEF Whole, Skips
<1>5. <<>> \in Seq(LabelBytes)
  OBVIOUS
<1> HIDE DEF h, p
<1>6. d.labels = <<>> \o host /\ d.end = p + Len(Compressed(<<>>))
  BY <1>1, <1>2, <1>3, <1>5, CompressedDenoted
<1>7. Len(Compressed(<<>>)) = 2
  <2> DEFINE a == <<192, 12>>
  <2>1. a \in Seq(Octet) /\ Len(a) = 2
    BY DEF Octet
  <2> HIDE DEF a
  <2>2. <<>> \o a = a
    BY <2>1
  <2> QED BY <2>1, <2>2, StringsType DEF Compressed, a
<1>8. host \in Seq(Message) /\ <<>> \o host = host
  <2>1. LabelBytes \subseteq Message
    BY DEF LabelBytes
  <2> QED BY <1>1, <2>1, WiderSeq
<1> QED BY <1>4, <1>6, <1>7, <1>8 DEF p

LEMMA QuestionFollows ==
  ASSUME NameInv, Laid, InQuestions, [WireNext]_wireVars,
         \/ NextQuestion \/ EndQuestionName \/ EndOwnerName \/ EndRdataName
         \/ NameOverruns \/ BadLabel \/ ReadLabel \/ Pointer
  PROVE  InQuestions' \/ Between(0)'
<1>1. msg \in Message /\ All \in Nat /\ RecordAt(0) = Base
  BY Placed DEF NameInv, WireInv
<1>2. CASE NextQuestion
  <2>1. UNCHANGED <<asked, wire, pos, loop>> /\ pc = "question"
    BY <1>2 DEF NextQuestion
  <2>2. answers' = All /\ found' = Finding(0, 0)' /\ questions' = questions /\ pos' = pos
    BY <2>1, SameScript DEF InQuestions, loop
  <2>3. CASE questions = 1 /\ pos = 12
    <3>1. pc' = "name" /\ WalkFrom(12, MaxHops + 1, "asked")
      BY <1>2, <2>3 DEF NextQuestion, Goto, SkipName
    <3>2. Skips("asked", 12)'
      BY <3>1 DEF WalkFrom, NoWalk, Skips
    <3> QED BY <2>1, <2>2, <2>3, <3>2, SameScript DEF InQuestions
  <2>4. CASE questions = 0 /\ pos = RecordAt(0)
    <3>1. pc' = "answer"
      BY <1>2, <2>4 DEF NextQuestion, Goto
    <3>2. 0 \in 0..All /\ All = All - 0
      BY <1>1
    <3> QED BY <2>1, <2>2, <2>4, <3>1, <3>2, SameScript DEF Between
  <2> QED BY <2>1, <2>3, <2>4 DEF InQuestions, Skips
<1>3. CASE ~NextQuestion
  <2>1. Skips("asked", 12) /\ questions = 1 /\ AtName
    BY <1>3
    DEF InQuestions, EndQuestionName, EndOwnerName, EndRdataName, NameOverruns, BadLabel,
        ReadLabel, Pointer, Reads, AtName
  <2>2. Whole.labels \in Seq(Message) /\ Whole.end + 4 = RecordAt(0)
    BY <1>1, <2>1, QuestionKnown
  <2>3. CASE EndQuestionName
    <3>1. Reads({0})
      BY <2>3 DEF EndQuestionName
    <3>2. NameEnd = Whole.end
      BY <2>1, <3>1, EndsAsDefined
    <3>3. /\ UNCHANGED <<asked, wire, answers, found>> /\ pc' = "question"
          /\ pos' = RecordAt(0) /\ questions' = 0
      BY <2>1, <2>2, <2>3, <3>2 DEF EndQuestionName, Goto
    <3> QED BY <3>3, SameScript DEF InQuestions
  <2>4. ~EndOwnerName /\ ~EndRdataName
    BY <2>1 DEF Skips, EndOwnerName, EndRdataName
  <2>5. CASE NameOverruns \/ BadLabel \/ ReadLabel \/ Pointer
    <3>1. ~Reads({0})
      BY <2>5, NotAtRoot DEF NameInv
    <3>2. result' = Nothing
      BY <2>1, <2>2, <3>1, NeverFails
    <3>3. /\ UNCHANGED <<asked, wire, pc, pos, loop, result>>
          /\ walk'.start = walk.start /\ walk'.follows = walk.follows /\ walk'.then = walk.then
      BY <2>1, <2>5, <3>2, WalkGoesOn
    <3>4. Skips("asked", 12)' /\ questions' = 1 /\ answers' = answers /\ found' = found
      BY <2>1, <3>3 DEF Skips, loop
    <3> QED BY <3>3, <3>4, SameScript DEF InQuestions
  <2> QED BY <1>3, <2>3, <2>4, <2>5
<1> QED BY <1>2, <1>3

LEMMA AnswerFollows ==
  ASSUME NameInv, Laid, NEW k \in Nat, Between(k), [WireNext]_wireVars,
         \/ NextAnswer \/ EndQuestionName \/ EndOwnerName \/ EndRdataName
         \/ NameOverruns \/ BadLabel \/ ReadLabel \/ Pointer
  PROVE  Between(k)' \/ Judges'
<1>1. msg \in Message /\ All \in Nat /\ k \in 0..All /\ answers = All - k
  BY Placed DEF NameInv, WireInv, Between
<1>2. CASE NextAnswer
  <2>1. UNCHANGED <<asked, wire, pos, loop>> /\ pc = "answer"
    BY <1>2 DEF NextAnswer
  <2>2. answers' = All - k /\ found' = Finding(k, k)' /\ found' = Finding(k, k) /\ pos' = RecordAt(k)
    BY <2>1, SameScript DEF Between, Skips, loop
  <2>3. CASE k < All
    <3>1. answers > 0
      BY <1>1, <2>3
    <3>2. pc' = "name" /\ WalkFrom(pos, MaxHops + 1, "owner") /\ pos = RecordAt(k)
      BY <1>2, <3>1 DEF NextAnswer, Goto, SkipName, Between, Skips
    <3>3. pc' = "name" /\ walk'.then = "owner" /\ walk'.start = RecordAt(k) /\ walk'.follows = MaxHops + 1
      BY <3>2 DEF WalkFrom, NoWalk
    <3>4. Skips("owner", RecordAt(k))'
      BY <2>1, <3>3, SameScript DEF Skips
    <3> QED BY <1>1, <2>1, <2>2, <2>3, <3>4, SameScript DEF Between
  <2>4. CASE k = All
    <3>1. ~(answers > 0)
      BY <1>1, <2>4
    <3>2. pc' = "judge"
      BY <1>2, <3>1 DEF NextAnswer, Goto
    <3> QED BY <2>1, <2>2, <2>4, <3>2, SameScript DEF Judges
  <2> QED BY <1>1, <2>3, <2>4
<1>3. CASE ~NextAnswer
  <2>1. Skips("owner", RecordAt(k)) /\ k < All /\ AtName
    BY <1>3
    DEF Between, EndQuestionName, EndOwnerName, EndRdataName, NameOverruns, BadLabel,
        ReadLabel, Pointer, Reads, AtName
  <2>2. Whole.labels \in Seq(Message) /\ Whole.end = RecordAt(k) + 2
    BY <1>1, <2>1, OwnerKnown
  <2>3. CASE EndOwnerName
    <3>1. Reads({0})
      BY <2>3 DEF EndOwnerName
    <3>2. NameEnd = Whole.end
      BY <2>1, <3>1, EndsAsDefined
    <3>3. /\ UNCHANGED <<asked, wire, answers, found>> /\ pc' = "record"
          /\ pos' = RecordAt(k) + 2
      BY <2>1, <2>2, <2>3, <3>2 DEF EndOwnerName, Goto, loop
    <3> QED BY <1>1, <2>1, <3>3, SameScript DEF Between
  <2>4. ~EndQuestionName /\ ~EndRdataName
    BY <2>1 DEF Skips, EndQuestionName, EndRdataName
  <2>5. CASE NameOverruns \/ BadLabel \/ ReadLabel \/ Pointer
    <3>1. ~Reads({0})
      BY <2>5, NotAtRoot DEF NameInv
    <3>2. result' = Nothing
      BY <2>1, <2>2, <3>1, NeverFails
    <3>3. /\ UNCHANGED <<asked, wire, pc, pos, loop, result>>
          /\ walk'.start = walk.start /\ walk'.follows = walk.follows /\ walk'.then = walk.then
      BY <2>1, <2>5, <3>2, WalkGoesOn
    <3>4. Skips("owner", RecordAt(k))' /\ answers' = answers /\ found' = found
      BY <2>1, <3>3, SameScript DEF Skips, loop
    <3> QED BY <1>1, <2>1, <3>3, <3>4, SameScript DEF Between
  <2> QED BY <1>3, <2>3, <2>4, <2>5
<1> QED BY <1>2, <1>3

-----------------------------------------------------------------------------
(* A record is decoded if it is what its type needs.                       *)
LEMMA DecodedIfFit ==
  ASSUME NEW r, WellFormed(r), r.type = want
  PROVE  Decodable(Len(Rdata(r))) <=> r.fits
<1>0. r.fits \in BOOLEAN
  BY DEF WellFormed
<1> DEFINE n == Len(Rdata(r))
<1>1. CASE ~r.fits
  <2>1. Wrong(want, n)
    BY <1>1, RdataUnfit
  <2>2. n \in Nat
    BY RdataType, Bits16Nat
  <2> HIDE DEF n
  <2>3. ~Decodable(n)
    BY <2>1, <2>2 DEF Wrong, Decodable, A, AAAA, MX, CAA, SRV
  <2> QED BY <1>1, <2>3 DEF n
<1>2. CASE r.fits
  <2>1. CASE want = A \/ want = AAAA
    <3>1. Rdata(r) = r.fixed
      BY <1>2, <2>1, RdataOther DEF A, AAAA, Naming, CNAME, NS, PTR, MX, SRV, TXT, CAA, SOA
    <3>2. Fits(want, r.fixed)
      BY <1>2, FitsFacts
    <3>3. want = A => Len(r.fixed) = 4
      BY <3>2 DEF Fits
    <3>4. want = AAAA => Len(r.fixed) = 16
      BY <3>2 DEF Fits
    <3> DEFINE m == Len(r.fixed)
    <3> HIDE DEF m
    <3>5. Decodable(m)
      BY <2>1, <3>3, <3>4 DEF m, Decodable, A, AAAA, MX, CAA, SRV
    <3> QED BY <1>2, <3>1, <3>5 DEF m
  <2>2. CASE want = MX \/ want = SRV
    <3>1. /\ r.fixed \in Seq(Octet) /\ Len(r.fixed) = Before(want)
          /\ r.names \in [1..1 -> Seq(LabelBytes)] /\ Rdata(r) = Named(r)
      BY <1>2, <2>2, RdataName DEF Naming, Message
    <3>2. r.names[1] \in Seq(LabelBytes)
      BY <3>1
    <3> DEFINE a == r.fixed
               b == Compressed(r.names[1])
               m == Len(a \o b)
    <3>3. b \in Seq(Octet) /\ Len(b) >= 2 /\ Len(b) \in Nat
      BY <3>2, CompressedType
    <3> HIDE DEF a, b
    <3>4. m = Len(a) + Len(b)
      BY <3>1, <3>3, ConcatFacts DEF a
    <3> HIDE DEF m
    <3> DEFINE i == Len(a)
               j == Len(b)
    <3>8. (want = MX => i = 2) /\ (want = SRV => i = 6) /\ j >= 2 /\ j \in Nat /\ m = i + j
      BY <3>1, <3>3, <3>4 DEF a, Before, MX, SRV
    <3> HIDE DEF i, j
    <3>5. want = MX => m >= 3
      BY <3>8
    <3>6. want = SRV => m >= 6
      BY <3>8
    <3>7. Decodable(m)
      BY <2>2, <3>5, <3>6 DEF Decodable, A, AAAA, MX, CAA, SRV
    <3> QED BY <1>2, <3>1, <3>7 DEF Named, m, a, b
  <2>3. CASE want = CAA
    <3>1. /\ r.fixed[1] \in Octet /\ r.fixed[2] \in StringBytes /\ r.fixed[3] \in Seq(Octet)
          /\ Rdata(r) = Tagged(r)
      BY <1>2, <2>3, RdataTag DEF Message
    <3> DEFINE a == <<r.fixed[1]>>
               b == Prefixed(r.fixed[2])
               c == r.fixed[3]
               t == a \o b
               m == Len(t \o c)
    <3>2. a \in Seq(Octet) /\ Len(a) = 1
      BY <3>1
    <3>3. b \in Seq(Octet) /\ Len(b) \in Nat /\ Len(b) >= 1
      BY <3>1, PrefixedLonger
    <3>9. c \in Seq(Octet)
      BY <3>1
    <3> HIDE DEF a, b, c
    <3>4. t \in Seq(Octet) /\ Len(t) = Len(a) + Len(b)
      BY <3>2, <3>3, ConcatFacts
    <3> HIDE DEF t
    <3>5. m = Len(t) + Len(c) /\ Len(c) \in Nat
      BY <3>4, <3>9, ConcatFacts
    <3> HIDE DEF m
    <3>6. m >= 2
      BY <3>2, <3>3, <3>4, <3>5
    <3>7. Decodable(m)
      BY <2>3, <3>6 DEF Decodable, A, AAAA, MX, CAA, SRV
    <3> QED BY <1>2, <3>1, <3>7 DEF Tagged, m, a, b, c, t
  <2>4. CASE want \notin {A, AAAA, MX, SRV, CAA}
    <3> HIDE DEF n
    <3>1. Decodable(n)
      BY <2>4 DEF Decodable
    <3> QED BY <1>2, <3>1 DEF n
  <2> QED BY <2>1, <2>2, <2>3, <2>4
<1> QED BY <1>0, <1>1, <1>2

LEMMA Refound ==
  ASSUME NEW f, NEW g, NEW a, NEW t, NEW s, NEW c, NEW u, NEW d,
         f = [rcode |-> a, ttl |-> t, records |-> s, cname |-> c],
         g = [f EXCEPT !.cname = d, !.ttl = u]
  PROVE  g = [rcode |-> a, ttl |-> u, records |-> s, cname |-> d]
OBVIOUS

LEMMA RecordRead ==
  ASSUME msg \in Message, Laid, NEW k \in 1..All, pos = RecordAt(k - 1) + 2,
         Record, pc = "record", found = Finding(k - 1, k - 1)
  PROVE  LET r == script.recs[k]
             decoded == r.type = want /\ r.fits
         IN /\ UNCHANGED <<asked, wire>>
            /\ found' = Finding(k, k - 1)
            /\ pos' = RecordAt(k) /\ answers' = answers - 1
            /\ rec' = [type |-> r.type, start |-> RdataAt(k), end |-> RecordAt(k), names |-> <<>>]
            /\ decoded /\ Names(want) > 0 =>
                 pc' = "name" /\ ReadName(RdataAt(k) + Fixed, "rdata")
            /\ ~(decoded /\ Names(want) > 0) =>
                 walk' = [NoWalk EXCEPT !.pos = RdataAt(k)]
            /\ ~decoded => pc' = "answer"
            /\ decoded /\ Names(want) = 0 => pc' = IF want = TXT THEN "text" ELSE "push"
<1> DEFINE r == script.recs[k]
           p == RecordAt(k - 1)
           n == Len(Rdata(r))
           decoded == r.type = want /\ r.fits
<1>1. /\ All \in Nat /\ k \in Nat /\ p \in Nat /\ WellFormed(r) /\ n \in Nat /\ Size \in Nat
      /\ RecordAt(k) = p + 12 + n /\ RdataAt(k) = p + 12
      /\ (p + 12) + n <= Size
      /\ U16(p + 2) = r.type /\ U16(p + 6) = 0 /\ U16(p + 8) = r.ttl /\ U16(p + 10) = n
  <2>1. All \in Nat /\ k - 1 \in 0..All /\ k \in Nat
    BY Placed
  <2>2. p \in Nat /\ WellFormed(r) /\ RecordAt(k) = p + 12 + n /\ ResourceHeld(r, p)
    BY <2>1, Placed
  <2>3. n \in Nat
    BY <2>2, RdataType, Bits16Nat
  <2>4. /\ (p + 12) + n <= Size
        /\ U16(p + 2) = r.type /\ U16(p + 6) = 0 /\ U16(p + 8) = r.ttl /\ U16(p + 10) = n
    BY <2>2 DEF ResourceHeld
  <2> QED BY <2>1, <2>2, <2>3, <2>4, SizeType DEF RdataAt
<1>2. decoded <=> r.type = want /\ Decodable(n)
  BY <1>1, DecodedIfFit
<1>3. /\ TtlAfter(k) = IF r.type = want /\ TtlAfter(k - 1) = Nothing
                       THEN <<0, r.ttl>> ELSE TtlAfter(k - 1)
      /\ Aliased(k) = (Aliased(k - 1) \/ r.type = CNAME)
  BY OneMoreFound
<1> HIDE DEF r, p, n
<1>4. /\ pos = p + 2 /\ pos + 4 = p + 6 /\ pos + 6 = p + 8 /\ pos + 8 = p + 10
      /\ pos + 10 = p + 12
  BY <1>1 DEF p
<1>5. /\ U16(pos) = r.type /\ U16(pos + 4) = 0 /\ U16(pos + 6) = r.ttl /\ U16(pos + 8) = n
      /\ pos + 10 = RdataAt(k) /\ (pos + 10) + n = RecordAt(k)
      /\ ~(pos + 10 > Size) /\ ~((pos + 10) + n > Size)
  BY <1>1, <1>4
<1>6. /\ UNCHANGED <<asked, wire>>
      /\ found' = [found EXCEPT !.cname = @ \/ r.type = CNAME,
                                !.ttl = RecordTtl(r.type, <<0, r.ttl>>)]
      /\ pos' = RecordAt(k) /\ answers' = answers - 1
      /\ rec' = [type |-> r.type, start |-> RdataAt(k), end |-> RecordAt(k), names |-> <<>>]
      /\ IF (r.type = want /\ Decodable(n)) /\ Names(want) > 0
         THEN Goto("name") /\ ReadName(RdataAt(k) + Fixed, "rdata")
         ELSE /\ walk' = [NoWalk EXCEPT !.pos = RdataAt(k)]
              /\ Goto(IF ~(r.type = want /\ Decodable(n)) THEN "answer"
                      ELSE IF want = TXT THEN "text" ELSE "push")
  BY <1>5 DEF Record
<1>7. found' = Finding(k, k - 1)
  <2> DEFINE c == found.cname \/ r.type = CNAME
             t == RecordTtl(r.type, <<0, r.ttl>>)
             d == Aliased(k - 1)
  <2>1. found = [rcode |-> script.rcode, ttl |-> TtlAfter(k - 1),
                 records |-> ValuesAfter(k - 1), cname |-> d]
    BY DEF Finding
  <2>2. found.ttl = TtlAfter(k - 1) /\ found.cname = Aliased(k - 1)
    BY <2>1
  <2>3. t = TtlAfter(k)
    BY <1>3, <2>2 DEF RecordTtl
  <2>4. c = Aliased(k)
    BY <1>3, <2>2
  <2>5. found' = [found EXCEPT !.cname = c, !.ttl = t]
    BY <1>6
  <2> HIDE DEF c, t, d
  <2>6. found' = [rcode |-> script.rcode, ttl |-> t, records |-> ValuesAfter(k - 1), cname |-> c]
    BY ONLY <2>1, <2>5, Refound
  <2> QED BY <2>3, <2>4, <2>6 DEF Finding
<1>8. /\ decoded /\ Names(want) > 0 =>
           pc' = "name" /\ ReadName(RdataAt(k) + Fixed, "rdata")
      /\ ~(decoded /\ Names(want) > 0) => walk' = [NoWalk EXCEPT !.pos = RdataAt(k)]
      /\ ~decoded => pc' = "answer"
      /\ decoded /\ ~(Names(want) > 0) => pc' = IF want = TXT THEN "text" ELSE "push"
  BY <1>2, <1>6 DEF Goto
<1>9. Names(want) = 0 => ~(Names(want) > 0)
  OBVIOUS
<1> QED BY <1>6, <1>7, <1>8, <1>9 DEF r

LEMMA FixedBefore ==
  /\ Names(want) \in Nat
  /\ Names(want) > 0 => Fixed = Before(want) /\ want # TXT /\ want # CAA /\ 1 \in 1..Names(want)
  /\ Names(want) > 0 /\ want # SOA => want \in Naming /\ Names(want) = 1
  /\ want = SOA => Names(want) = 2
<1>1. CASE want \in Naming
  BY <1>1 DEF Names, Fixed, Before, Naming, A, NS, CNAME, SOA, PTR, MX, TXT, AAAA, SRV, CAA
<1>2. CASE want = SOA
  BY <1>2 DEF Names, Fixed, Before, Naming, A, NS, CNAME, SOA, PTR, MX, TXT, AAAA, SRV, CAA
<1>3. CASE want \notin Naming /\ want # SOA
  <2>1. Names(want) = 0
    BY <1>3 DEF Names, Naming
  <2> QED BY <1>3, <2>1
<1> QED BY <1>1, <1>2, <1>3

LEMMA RecordFollows ==
  ASSUME NameInv, Laid, NEW k \in Nat, Between(k), Record,
         NEW m, m = k + 1
  PROVE  Between(m)' \/ (Within(m)' /\ Reading(m)')
<1> DEFINE r == script.recs[m]
           decoded == r.type = want /\ r.fits
<1>1. msg \in Message /\ All \in Nat
  BY Placed DEF NameInv, WireInv
<1>2. /\ pc = "record" /\ pos = RecordAt(k) + 2 /\ k < All /\ found = Finding(k, k)
      /\ answers = All - k
  BY DEF Between, Skips, Record
<1>3. m \in 1..All /\ m - 1 = k /\ m \in 0..All /\ answers - 1 = All - m
  BY <1>1, <1>2
<1>4. /\ UNCHANGED <<asked, wire>>
      /\ found' = Finding(m, m - 1)
      /\ pos' = RecordAt(m) /\ answers' = All - m
      /\ rec' = [type |-> r.type, start |-> RdataAt(m), end |-> RecordAt(m), names |-> <<>>]
      /\ decoded /\ Names(want) > 0 =>
           pc' = "name" /\ ReadName(RdataAt(m) + Fixed, "rdata")
      /\ ~(decoded /\ Names(want) > 0) => walk' = [NoWalk EXCEPT !.pos = RdataAt(m)]
      /\ ~decoded => pc' = "answer"
      /\ decoded /\ Names(want) = 0 => pc' = IF want = TXT THEN "text" ELSE "push"
  BY <1>1, <1>2, <1>3, RecordRead
<1>5. CASE ~decoded
  <2>1. ValuesAfter(m) = ValuesAfter(m - 1)
    BY <1>3, <1>5, OneMoreFound
  <2>2. found' = Finding(m, m)
    BY <1>4, <2>1 DEF Finding
  <2>3. Between(m)'
    BY <1>3, <1>4, <1>5, <2>2, SameScript DEF Between
  <2> QED BY <2>3
<1>6. CASE decoded
  <2>1. rec'.names = <<>> /\ rec' = [type |-> want, start |-> RdataAt(m), end |-> RecordAt(m), names |-> <<>>]
    BY <1>4, <1>6
  <2>2. Within(m)'
    <3>1. rec' = [type |-> want, start |-> RdataAt(m), end |-> RecordAt(m), names |-> rec'.names]
      BY <2>1
    <3> QED BY <1>3, <1>4, <1>6, <3>1, SameScript DEF Within
  <2>3. CASE Names(want) > 0
    <3>1. pc' = "name" /\ WalkFrom(RdataAt(m) + Before(want), MaxHops, "rdata")
      BY <1>4, <1>6, <2>3, FixedBefore DEF ReadName
    <3>2. /\ walk'.then = "rdata" /\ walk'.follows = MaxHops
          /\ walk'.start = NameAt(m, 1)
      BY <3>1 DEF WalkFrom, NoWalk, NameAt
    <3>3. rec'.names = [j \in 1..(1 - 1) |-> script.recs[m].names[j] \o host]
      BY <2>1
    <3>4. ReadsName(m, 1)'
      BY <1>4, <2>3, <3>1, <3>2, <3>3, SameScript, FixedBefore DEF ReadsName
    <3> QED BY <2>2, <3>4 DEF Reading
  <2>4. CASE Names(want) = 0
    <3>0. ~(Names(want) > 0)
      BY <2>4
    <3>1. CASE want = TXT
      <4>1. pc' = "text" /\ walk' = [NoWalk EXCEPT !.pos = RdataAt(m)]
        BY <1>4, <1>6, <2>4, <3>0, <3>1
      <4>2. walk'.labels = <<>> /\ walk'.pos = RdataAt(m)
        BY <4>1 DEF NoWalk
      <4>3. r.fixed \in Seq(StringBytes)
        BY <1>1, <1>3, <1>6, <3>1, Placed, RdataText
      <4>4. First(r.fixed, 0) = <<>> /\ 0 \in 0..Len(r.fixed)
        BY <4>3, FirstFacts
      <4>5. RdataAt(m) \in Nat
        <5>1. m - 1 \in 0..All
          BY <1>1, <1>3
        <5> QED BY <1>1, <5>1, Placed DEF RdataAt
      <4>6. Place0(RdataAt(m), PrefixedBytes, r.fixed, 0) = RdataAt(m)
        <5>1. Joined(PrefixedBytes, <<>>) = <<>>
          BY DEF Joined, Each, FlattenSeq
        <5>2. Len(<<>>) = 0
          OBVIOUS
        <5> QED BY <4>4, <4>5, <5>1, <5>2 DEF Place0
      <4>7. ReadsText(m, 0)'
        BY <1>4, <3>1, <4>1, <4>2, <4>4, <4>6, SameScript DEF ReadsText
      <4> QED BY <2>2, <4>7 DEF Reading
    <3>2. CASE want # TXT
      <4>1. pc' = "push"
        BY <1>4, <1>6, <2>4, <3>2
      <4>2. ReadsFixed'
        BY <1>4, <2>4, <3>2, <4>1, SameScript DEF ReadsFixed
      <4> QED BY <2>2, <4>2 DEF Reading
    <3> QED BY <3>1, <3>2
  <2> QED BY <2>3, <2>4, FixedBefore
<1> QED BY <1>5, <1>6

-----------------------------------------------------------------------------
(* RDATA of the type asked for, where the record is.                       *)
LEMMA RdataHeld ==
  ASSUME msg \in Message, Laid, NEW k \in 1..All
  PROVE  LET r == script.recs[k]
         IN /\ WellFormed(r) /\ RdataAt(k) \in Nat /\ Holds(RdataAt(k), Rdata(r))
            /\ Rdata(r) \in Seq(Octet) /\ Len(Rdata(r)) \in Nat
            /\ RecordAt(k) = RdataAt(k) + Len(Rdata(r)) /\ RecordAt(k) \in Nat
<1> DEFINE r == script.recs[k]
           p == RecordAt(k - 1)
<1>1. All \in Nat /\ k - 1 \in 0..All /\ k \in 0..All
  BY Placed
<1>2. p \in Nat /\ WellFormed(r) /\ RecordAt(k) = p + 12 + Len(Rdata(r)) /\ ResourceHeld(r, p)
      /\ RecordAt(k) \in Nat
  BY <1>1, Placed
<1> HIDE DEF p, r
<1>3. Holds(p + 12, Rdata(r)) /\ Rdata(r) \in Seq(Octet) /\ Len(Rdata(r)) \in Nat
  BY <1>2, RdataType, Bits16Nat DEF ResourceHeld
<1>4. RdataAt(k) = p + 12
  BY DEF RdataAt, p
<1>5. p + 12 \in Nat /\ p + 12 + Len(Rdata(r)) = (p + 12) + Len(Rdata(r))
  BY <1>2, <1>3
<1> QED BY <1>2, <1>3, <1>4, <1>5 DEF r

NamesHeld(k) ==
  LET r == script.recs[k]
  IN /\ RdataAt(k) \in Nat /\ r.fixed \in Message /\ r.names \in [1..Names(want) -> Seq(LabelBytes)]
     /\ \A i \in 1..Names(want) :
          /\ r.names[i] \in Seq(LabelBytes) /\ NameAt(k, i) \in Nat
          /\ Holds(NameAt(k, i), Compressed(r.names[i]))
     /\ want # SOA => Holds(RdataAt(k), r.fixed) /\ Len(r.fixed) = Fixed
     /\ want = SOA =>
          /\ NameAt(k, 2) = NameAt(k, 1) + Len(Compressed(r.names[1]))
          /\ Holds(NameAt(k, 2) + Len(Compressed(r.names[2])), r.fixed) /\ Len(r.fixed) = 20

LEMMA NamesAreHeld ==
  ASSUME msg \in Message, Laid, NEW k \in 1..All,
         script.recs[k].type = want, script.recs[k].fits, Names(want) > 0
  PROVE  NamesHeld(k)
<1> DEFINE r == script.recs[k]
           p == RdataAt(k)
           c1 == Compressed(r.names[1])
           c2 == Compressed(r.names[2])
<1>1. /\ WellFormed(r) /\ p \in Nat /\ Holds(p, Rdata(r)) /\ r.type = want /\ r.fits
  BY RdataHeld
<1>2. NameAt(k, 1) = p + Before(want) /\ NameAt(k, 2) = p + Len(c1)
  BY DEF NameAt
<1>3. CASE want # SOA
  <2>1. /\ want \in Naming /\ Names(want) = 1 /\ Fixed = Before(want)
    BY <1>3, FixedBefore
  <2> DEFINE a == r.fixed
  <2>2. /\ a \in Message /\ Len(a) = Before(want) /\ r.names \in [1..1 -> Seq(LabelBytes)]
        /\ Rdata(r) = Named(r)
    BY <1>1, <2>1, RdataName
  <2>3. r.names[1] \in Seq(LabelBytes)
    BY <2>2
  <2>4. c1 \in Seq(Octet)
    BY <2>3, CompressedType
  <2>5. Rdata(r) = a \o c1
    BY <2>2 DEF Named
  <2> HIDE DEF a, c1, p
  <2>6. a \in Seq(Octet) /\ Len(a) \in Nat
    BY <2>2 DEF Message
  <2>7. Holds(p, a) /\ Holds(p + Len(a), c1)
    BY <1>1, <2>4, <2>5, <2>6, HoldsConcat
  <2>8. NameAt(k, 1) \in Nat /\ Holds(NameAt(k, 1), c1)
    BY <1>1, <1>2, <2>2, <2>6, <2>7
  <2>9. \A i \in 1..Names(want) : i = 1
    BY <2>1
  <2> QED BY <1>1, <1>3, <2>1, <2>2, <2>3, <2>7, <2>8, <2>9 DEF NamesHeld, a, c1, p
<1>4. CASE want = SOA
  <2>1. Names(want) = 2 /\ Before(want) = 0
    BY <1>4, FixedBefore DEF Before, SOA, MX, SRV
  <2> DEFINE a == r.fixed
             t == c1 \o c2
  <2>2. /\ a \in Message /\ Len(a) = 20 /\ r.names \in [1..2 -> Seq(LabelBytes)]
        /\ Rdata(r) = Authority(r)
    BY <1>1, <1>4, RdataAuthority
  <2>3. r.names[1] \in Seq(LabelBytes) /\ r.names[2] \in Seq(LabelBytes)
    BY <2>2
  <2>4. c1 \in Seq(Octet) /\ c2 \in Seq(Octet) /\ Len(c1) \in Nat /\ Len(c2) \in Nat
    BY <2>3, CompressedType
  <2>5. Rdata(r) = t \o a
    BY <2>2 DEF Authority
  <2> HIDE DEF a, c1, c2, p
  <2>6. a \in Seq(Octet)
    BY <2>2 DEF Message
  <2>7. t \in Seq(Octet) /\ Len(t) = Len(c1) + Len(c2)
    BY <2>4, ConcatFacts
  <2> HIDE DEF t
  <2>13. Holds(p, t \o a)
    BY <1>1, <2>5
  <2>8. Holds(p, t) /\ Holds(p + Len(t), a)
    BY <1>1, <2>6, <2>7, <2>13, HoldsConcat
  <2>9. Holds(p, c1) /\ Holds(p + Len(c1), c2)
    BY <1>1, <2>4, <2>8, HoldsConcat DEF t
  <2>10. NameAt(k, 1) = p /\ p + Len(t) = (p + Len(c1)) + Len(c2) /\ p + Len(c1) \in Nat
    BY <1>1, <1>2, <2>1, <2>4, <2>7
  <2>11. \A i \in 1..Names(want) : i = 1 \/ i = 2
    BY <2>1
  <2>12. /\ NameAt(k, 1) \in Nat /\ Holds(NameAt(k, 1), c1)
         /\ NameAt(k, 2) \in Nat /\ Holds(NameAt(k, 2), c2)
         /\ NameAt(k, 2) = NameAt(k, 1) + Len(c1)
         /\ Holds(NameAt(k, 2) + Len(c2), a)
    BY <1>1, <1>2, <2>8, <2>9, <2>10
  <2> QED BY <1>1, <1>4, <2>1, <2>2, <2>3, <2>11, <2>12 DEF NamesHeld, a, c1, c2, p
<1> QED BY <1>3, <1>4

LEMMA RdataNameKnown ==
  ASSUME msg \in Message, Laid, NEW k, NEW i, NamesHeld(k), ReadsName(k, i)
  PROVE  LET name == script.recs[k].names[i]
         IN /\ Whole.labels = name \o host /\ Whole.labels \in Seq(Message)
            /\ Whole.end = NameAt(k, i) + Len(Compressed(name))
<1> DEFINE p == NameAt(k, i)
           name == script.recs[k].names[i]
           d == Denotes[<<MaxHops, p>>]
<1>1. MaxHops \in 1..MaxHops + 1 /\ host \in Seq(LabelBytes) /\ Holds(12, Encoded(host))
  BY MaxHopsAssumption DEF Laid
<1>2. name \in Seq(LabelBytes) /\ p \in Nat /\ Holds(p, Compressed(name))
  BY DEF NamesHeld, ReadsName
<1>3. Whole = d
  BY DEF Whole, ReadsName
<1> HIDE DEF p, name
<1>4. d.labels = name \o host /\ d.end = p + Len(Compressed(name))
  BY <1>1, <1>2, CompressedDenoted
<1>5. name \o host \in Seq(Message)
  <2>1. LabelBytes \subseteq Message
    BY DEF LabelBytes
  <2>2. name \in Seq(Message) /\ host \in Seq(Message)
    BY <1>1, <1>2, <2>1, WiderSeq
  <2> QED BY <2>2
<1> QED BY <1>3, <1>4, <1>5 DEF p, name

(* The record's value is taken.                                            *)
LEMMA Repushed ==
  ASSUME NEW f, NEW g, NEW a, NEW t, NEW s, NEW c, NEW v,
         f = [rcode |-> a, ttl |-> t, records |-> s, cname |-> c],
         g = [f EXCEPT !.records = Append(@, v)]
  PROVE  g = [rcode |-> a, ttl |-> t, records |-> Append(s, v), cname |-> c]
<1>1. f.records = s
  OBVIOUS
<1>2. g = [f EXCEPT !.records = Append(s, v)]
  BY <1>1
<1> DEFINE w == Append(s, v)
<1> HIDE DEF w
<1> QED BY <1>2 DEF w

LEMMA ValuePushed ==
  ASSUME Laid, NEW k \in 1..All, Within(k), Push(Value(script.recs[k])),
         UNCHANGED <<asked, wire, pos, answers>>
  PROVE  Between(k)'
<1> DEFINE v == Value(script.recs[k])
           s == ValuesAfter(k - 1)
           t == TtlAfter(k)
           c == Aliased(k)
           a == script.rcode
<1>1. /\ found = [rcode |-> a, ttl |-> t, records |-> s, cname |-> c]
      /\ answers = All - k /\ pos = RecordAt(k)
  BY DEF Within, Finding
<1>2. found' = [found EXCEPT !.records = Append(@, v)] /\ pc' = "answer"
  BY DEF Push, Goto
<1>3. ValuesAfter(k) = Append(s, v)
  BY OneMoreFound DEF Within
<1>4. k \in 0..All /\ All \in Nat
  BY Bits16Nat DEF Laid
<1> HIDE DEF v, s, t, c, a
<1>5. found' = [rcode |-> a, ttl |-> t, records |-> Append(s, v), cname |-> c]
  BY ONLY <1>1, <1>2, Repushed
<1>6. found' = Finding(k, k)
  BY <1>3, <1>5 DEF Finding, t, c, a
<1> QED BY <1>1, <1>2, <1>4, <1>6, SameScript DEF Between

LEMMA NamesGrow ==
  ASSUME NEW Y, NEW n \in Nat, NEW i \in 1..n, NEW f, \A j \in 1..n : f[j] \in Y,
         NEW s, s = [j \in 1..(i - 1) |-> f[j]]
  PROVE  Append(s, f[i]) = [j \in 1..i |-> f[j]] /\ Len(Append(s, f[i])) = i
<1>1. s \in Seq(Y) /\ Len(s) = i - 1 /\ f[i] \in Y
  OBVIOUS
<1> DEFINE t == Append(s, f[i])
<1>2. t \in Seq(Y) /\ Len(t) = i
  BY <1>1
<1>3. \A j \in 1..i : t[j] = f[j]
  BY <1>1
<1> HIDE DEF t
<1>4. t = [j \in 1..i |-> t[j]]
  BY <1>2
<1> QED BY <1>2, <1>3, <1>4 DEF t

LEMMA EndRdataFollows ==
  ASSUME NameInv, Laid, NEW k \in 1..All, Within(k), NEW i \in Nat, ReadsName(k, i),
         [WireNext]_wireVars, EndRdataName
  PROVE  (Within(k)' /\ Reading(k)') \/ Between(k)'
<1> DEFINE r == script.recs[k]
           f == [j \in 1..Names(want) |-> r.names[j] \o host]
           ns == [j \in 1..i |-> f[j]]
<1>0. msg \in Message /\ AtName /\ Reads({0})
  BY DEF NameInv, WireInv, EndRdataName, Reads
<1>1. /\ r.type = want /\ r.fits /\ i \in 1..Names(want) /\ Names(want) \in Nat
      /\ Names(want) > 0 /\ want # TXT /\ Names(want) # 0
  BY FixedBefore DEF Within, ReadsName
<1>2. NamesHeld(k)
  BY <1>0, <1>1, NamesAreHeld
<1>3. /\ walk.labels = r.names[i] \o host
      /\ NameEnd = NameAt(k, i) + Len(Compressed(r.names[i]))
  BY <1>0, <1>2, RdataNameKnown, EndsAsDefined
<1>4. rec'.names = ns /\ Len(ns) = i
  <2>1. rec' = [rec EXCEPT !.names = Append(@, walk.labels)]
    BY DEF EndRdataName
  <2>2. rec = [type |-> want, start |-> RdataAt(k), end |-> RecordAt(k), names |-> rec.names]
    BY DEF Within
  <2>3. rec'.names = Append(rec.names, walk.labels)
    <3> DEFINE w == Append(rec.names, walk.labels)
    <3>1. rec' = [rec EXCEPT !.names = w]
      BY <2>1
    <3> HIDE DEF w
    <3>2. rec'.names = w
      BY <2>2, <3>1
    <3> QED BY <3>2 DEF w
  <2>4. f[i] = walk.labels
    BY <1>1, <1>3
  <2>5. rec.names = [j \in 1..(i - 1) |-> f[j]]
    <3>1. rec.names = [j \in 1..(i - 1) |-> r.names[j] \o host]
      BY DEF ReadsName
    <3>2. \A j \in 1..(i - 1) : r.names[j] \o host = f[j]
      <4> DEFINE n == Names(want)
      <4>1. n \in Nat /\ i \in 1..n
        BY <1>1
      <4> HIDE DEF n
      <4>2. \A j \in 1..(i - 1) : j \in 1..n
        BY <4>1
      <4> HIDE DEF r
      <4>3. \A j \in 1..n : f[j] = r.names[j] \o host
        BY DEF n
      <4> QED BY <4>2, <4>3
    <3> HIDE DEF f, r
    <3> QED BY <3>1, <3>2
  <2> DEFINE Y == {f[j] : j \in 1..Names(want)}
             n == Names(want)
  <2>6. \A j \in 1..n : f[j] \in Y
    OBVIOUS
  <2> HIDE DEF f, Y, n
  <2>7. n \in Nat /\ i \in 1..n
    BY <1>1 DEF n
  <2>8. Append(rec.names, f[i]) = [j \in 1..i |-> f[j]] /\ Len(Append(rec.names, f[i])) = i
    BY <2>5, <2>6, <2>7, NamesGrow
  <2> QED BY <2>3, <2>4, <2>8
<1>5. /\ UNCHANGED <<asked, wire, pos, questions, answers>>
      /\ rec' = [type |-> want, start |-> RdataAt(k), end |-> RecordAt(k), names |-> rec'.names]
  <2>1. rec' = [rec EXCEPT !.names = Append(@, walk.labels)] /\ UNCHANGED <<asked, wire, pos, questions, answers>>
    BY DEF EndRdataName
  <2>2. rec = [type |-> want, start |-> RdataAt(k), end |-> RecordAt(k), names |-> rec.names]
    BY DEF Within
  <2> DEFINE w == Append(rec.names, walk.labels)
  <2>3. rec' = [rec EXCEPT !.names = w]
    BY <2>1
  <2> HIDE DEF w
  <2>4. rec' = [type |-> want, start |-> RdataAt(k), end |-> RecordAt(k), names |-> w]
    BY <2>2, <2>3
  <2>5. rec'.names = w
    BY <2>4
  <2>6. rec' = [type |-> want, start |-> RdataAt(k), end |-> RecordAt(k), names |-> rec'.names]
    BY <2>4, <2>5
  <2> QED BY <2>1, <2>6
<1> HIDE DEF ns
<1>6. CASE i < Names(want)
  <2>1. want = SOA /\ i = 1 /\ Names(want) = 2
    BY <1>1, <1>6, FixedBefore
  <2>2. /\ WalkFrom(NameEnd, MaxHops, "rdata") /\ UNCHANGED <<pc, found>>
    BY <1>4, <1>6 DEF EndRdataName, ReadName
  <2>3. NameEnd = NameAt(k, 2)
    BY <1>2, <1>3, <2>1 DEF NamesHeld
  <2>4. /\ walk'.then = "rdata" /\ walk'.follows = MaxHops /\ walk'.start = NameAt(k, 2)
    BY <2>2, <2>3 DEF WalkFrom, NoWalk
  <2>5. rec'.names = [j \in 1..(2 - 1) |-> r.names[j] \o host]
    <3>1. 2 - 1 = 1 /\ 1..1 \subseteq 1..Names(want)
      BY <2>1
    <3>2. ns = [j \in 1..(2 - 1) |-> r.names[j] \o host]
      BY <2>1, <3>1 DEF ns
    <3> QED BY <1>4, <3>2
  <2>6. ReadsName(k, 2)'
    <3>1. pc' = "name" /\ 2 \in 1..Names(want)
      BY <1>0, <2>1, <2>2 DEF AtName
    <3>2. want' = want /\ host' = host /\ script' = script /\ NameAt(k, 2)' = NameAt(k, 2)
      BY <1>5, SameScript
    <3>3. Names(want)' = Names(want)
      BY <3>2
    <3> QED BY <2>4, <2>5, <3>1, <3>2, <3>3 DEF ReadsName
  <2>7. Within(k)'
    BY <1>5, <2>2, SameScript DEF Within
  <2> QED BY <2>6, <2>7 DEF Reading
<1>7. CASE i = Names(want)
  <2> DEFINE x == IF want = SOA THEN Bytes(NameEnd, NameEnd + 20)
                  ELSE Bytes(rec.start, rec.start + Fixed)
  <2>1. x = r.fixed /\ ~(want = SOA /\ NameEnd + 20 > Size)
    <3>1. CASE want = SOA
      <4>1. Names(want) = 2
        BY <3>1, FixedBefore
      <4>2. i = 2 /\ NameEnd = NameAt(k, 2) + Len(Compressed(r.names[2]))
        BY <1>3, <1>7, <4>1
      <4>3. Holds(NameEnd, r.fixed) /\ Len(r.fixed) = 20 /\ r.fixed \in Seq(Octet)
        BY <1>2, <3>1, <4>2 DEF NamesHeld, Message
      <4>4. NameEnd \in Nat
        BY NameEndType DEF NameInv
      <4> DEFINE b == r.fixed
                 q == NameEnd
      <4> HIDE DEF b, q, r
      <4>5. b \in Seq(Octet) /\ q \in Nat /\ Holds(q, b) /\ Len(b) = 20
        BY <4>3, <4>4 DEF b, q
      <4>6. Bytes(q, q + Len(b)) = b /\ q + Len(b) <= Size
        BY <1>0, <4>5, HoldsBytes
      <4>7. Bytes(q, q + 20) = b /\ q + 20 <= Size
        BY <4>5, <4>6
      <4>8. Size \in Nat
        BY <1>0, SizeType
      <4>9. ~(q + 20 > Size)
        BY <4>5, <4>7, <4>8
      <4> QED BY <3>1, <4>7, <4>9 DEF b, q
    <3>2. CASE want # SOA
      <4>1. rec.start = RdataAt(k)
        <5>1. rec = [type |-> want, start |-> RdataAt(k), end |-> RecordAt(k), names |-> rec.names]
          BY DEF Within
        <5> DEFINE z == rec.names
        <5> HIDE DEF z
        <5>2. rec = [type |-> want, start |-> RdataAt(k), end |-> RecordAt(k), names |-> z]
          BY <5>1 DEF z
        <5> QED BY <5>2
      <4> DEFINE b == r.fixed
                 q == RdataAt(k)
      <4>2. Holds(q, b) /\ Len(b) = Fixed /\ b \in Seq(Octet) /\ q \in Nat
        BY <1>2, <3>2 DEF NamesHeld, Message
      <4> HIDE DEF b, q, r
      <4>3. Bytes(q, q + Len(b)) = b
        BY <1>0, <4>2, HoldsBytes
      <4> QED BY <3>2, <4>1, <4>2, <4>3 DEF b, q
    <3> QED BY <3>1, <3>2
  <2>2. Push(<<x, rec'.names>>)
    BY <1>4, <1>7, <2>1 DEF EndRdataName
  <2>3. Value(r) = <<r.fixed, rec'.names>>
    <3>1. DOMAIN r.names = 1..i
      BY <1>2, <1>7 DEF NamesHeld
    <3>2. ns = [j \in 1..i |-> r.names[j] \o host]
      BY <1>7 DEF ns
    <3>3. Value(r) = <<r.fixed, [j \in DOMAIN r.names |-> r.names[j] \o host]>>
      BY <1>1 DEF Value
    <3> QED BY <1>4, <3>1, <3>2, <3>3
  <2>4. Push(Value(script.recs[k]))
    BY <2>1, <2>2, <2>3
  <2> QED BY <1>5, <2>4, ValuePushed
<1> QED BY <1>1, <1>6, <1>7

LEMMA RdataNameFollows ==
  ASSUME NameInv, Laid, NEW k \in 1..All, Within(k), NEW i \in Nat, ReadsName(k, i),
         [WireNext]_wireVars, NameOverruns \/ BadLabel \/ ReadLabel \/ Pointer
  PROVE  Within(k)' /\ Reading(k)'
<1>1. msg \in Message /\ NameInv /\ WireInv
  BY DEF NameInv, WireInv
<1>2. /\ script.recs[k].type = want /\ script.recs[k].fits /\ i \in 1..Names(want)
      /\ Names(want) \in Nat
  BY FixedBefore DEF Within, ReadsName
<1>3. Names(want) > 0
  BY <1>2
<1>4. NamesHeld(k)
  BY <1>1, <1>2, <1>3, NamesAreHeld
<1>5. Whole.labels \in Seq(Message)
  BY <1>1, <1>4, RdataNameKnown
<1>6. ~Reads({0}) /\ AtName
  BY <1>1, NotAtRoot
<1>7. result' = Nothing
  BY <1>1, <1>5, <1>6, NeverFails
<1>8. /\ UNCHANGED <<asked, wire, pc, pos, loop, result>>
      /\ walk'.start = walk.start /\ walk'.follows = walk.follows /\ walk'.then = walk.then
  BY <1>6, <1>7, WalkGoesOn
<1>9. answers' = answers /\ found' = found /\ rec' = rec /\ pos' = pos /\ pc' = pc
  BY <1>8 DEF loop
<1>10. want' = want /\ host' = host /\ script' = script /\ NameAt(k, i)' = NameAt(k, i)
       /\ Names(want)' = Names(want)
  <2>1. want' = want /\ host' = host /\ script' = script /\ NameAt(k, i)' = NameAt(k, i)
    BY <1>8, SameScript
  <2> QED BY <2>1
<1>11. ReadsName(k, i)'
  BY <1>8, <1>9, <1>10 DEF ReadsName
<1>12. Within(k)'
  BY <1>8, <1>9, SameScript DEF Within
<1> QED BY <1>11, <1>12 DEF Reading

-----------------------------------------------------------------------------
(* The strings of a TXT record.                                            *)
LEMMA PlacesAscend ==
  ASSUME NEW n \in Nat, NEW g, \A k \in 0..n : g[k] \in Nat,
         \A k \in 1..n : g[k - 1] <= g[k]
  PROVE  \A k \in 0..n : g[k] <= g[n]
<1> DEFINE H == {m \in Nat : m <= n => g[n - m] <= g[n]}
<1>1. 0 \in H
  <2>1. n - 0 = n /\ g[n] \in Nat
    OBVIOUS
  <2> QED BY <2>1
<1>2. ASSUME NEW m \in Nat, m \in H PROVE m + 1 \in H
  <2> SUFFICES ASSUME m + 1 <= n PROVE g[n - (m + 1)] <= g[n]
    OBVIOUS
  <2>1. /\ n - m \in 1..n /\ n - m \in 0..n /\ (n - m) - 1 = n - (m + 1)
        /\ n - (m + 1) \in 0..n /\ n \in 0..n /\ m <= n
    OBVIOUS
  <2>2. g[n - m] <= g[n]
    BY <1>2, <2>1
  <2>3. g[(n - m) - 1] <= g[n - m]
    BY <2>1
  <2>4. g[n - (m + 1)] \in Nat /\ g[n - m] \in Nat /\ g[n] \in Nat
    BY <2>1
  <2> QED BY <2>1, <2>2, <2>3, <2>4
<1> HIDE DEF H
<1>3. \A m \in Nat : m \in H
  BY ONLY <1>1, <1>2, SetInduction
<1>4. ASSUME NEW k \in 0..n PROVE g[k] <= g[n]
  <2>1. n - k \in Nat /\ n - k <= n /\ n - (n - k) = k
    OBVIOUS
  <2> QED BY <1>3, <2>1 DEF H
<1> QED BY <1>4

LEMMA PrefixedHeld ==
  ASSUME msg \in Message, NEW s \in StringBytes, NEW p \in Nat, Holds(p, Prefixed(s))
  PROVE  Byte(p) = Len(s) /\ Bytes(p + 1, p + 1 + Len(s)) = s
<1> DEFINE a == <<Len(s)>>
<1>1. s \in Seq(Octet) /\ Len(s) \in Nat /\ Len(s) \in Octet
  BY DEF StringBytes, Message
<1>2. a \in Seq(Octet) /\ Len(a) = 1 /\ a[1] = Len(s)
  BY <1>1
<1>3. Holds(p, a \o s)
  BY DEF Prefixed
<1> HIDE DEF a
<1>4. Holds(p, a) /\ Holds(p + Len(a), s)
  BY <1>1, <1>2, <1>3, HoldsConcat
<1>5. Byte(p) = Len(s)
  <2>1. 0 \in 0..(Len(a) - 1) /\ p + 0 = p /\ 0 + 1 = 1
    BY <1>2
  <2>2. Byte(p + 0) = a[0 + 1]
    BY <1>2, <1>4, <2>1, HoldsBytes
  <2> QED BY <1>2, <2>1, <2>2
<1>6. p + Len(a) = p + 1 /\ p + 1 \in Nat
  BY <1>2
<1>7. Holds(p + 1, s)
  BY <1>4, <1>6
<1>8. Bytes(p + 1, p + 1 + Len(s)) = s
  BY <1>1, <1>6, <1>7, HoldsBytes
<1> QED BY <1>5, <1>8

LEMMA TextHeld ==
  ASSUME msg \in Message, Laid, NEW k \in 1..All,
         script.recs[k].type = want, script.recs[k].fits, want = TXT
  PROVE  LET ss == script.recs[k].fixed
             P(j) == Place0(RdataAt(k), PrefixedBytes, ss, j)
         IN /\ ss \in Seq(StringBytes)
            /\ P(Len(ss)) = RecordAt(k) /\ RecordAt(k) \in Nat
            /\ \A j \in 0..Len(ss) : P(j) \in Nat
            /\ \A j \in 0..Len(ss) : P(j) <= RecordAt(k)
            /\ \A j \in 1..Len(ss) :
                 /\ ss[j] \in StringBytes /\ Len(ss[j]) \in Nat
                 /\ P(j) = P(j - 1) + 1 + Len(ss[j])
                 /\ Byte(P(j - 1)) = Len(ss[j])
                 /\ Bytes(P(j - 1) + 1, P(j)) = ss[j]
<1> DEFINE r == script.recs[k]
           ss == r.fixed
           p == RdataAt(k)
           f == PrefixedBytes
           P(j) == Place0(p, f, ss, j)
           n == Len(ss)
<1>1. /\ WellFormed(r) /\ p \in Nat /\ Holds(p, Rdata(r)) /\ RecordAt(k) = p + Len(Rdata(r))
      /\ RecordAt(k) \in Nat
  BY RdataHeld
<1>2. ss \in Seq(StringBytes) /\ Rdata(r) = Strings(ss)
  BY <1>1, RdataText
<1>3. Makes(f, StringBytes, Seq(Octet)) /\ Rdata(r) = Joined(f, ss)
  BY <1>2, StringsJoined
<1>4. RecordAt(k) = p + Len(Joined(f, ss)) /\ Holds(p, Joined(f, ss))
  BY <1>1, <1>3
<1>5. \A j \in 1..n : ss[j] \in StringBytes
  BY <1>2
<1>6. \A j \in 1..n : f[ss[j]] = Prefixed(ss[j])
  BY <1>5 DEF PrefixedBytes
<1> HIDE DEF ss, p, f
<1>7. /\ P(n) = p + Len(Joined(f, ss))
      /\ \A j \in 0..n : P(j) \in Nat
      /\ \A j \in 1..n : P(j) = P(j - 1) + Len(f[ss[j]]) /\ Holds(P(j - 1), f[ss[j]])
  BY <1>1, <1>2, <1>3, <1>4, JoinedHeld
<1>8. n \in Nat /\ \A j \in 1..n : j - 1 \in 0..n
  BY <1>2
<1> HIDE DEF n, P
<1>9. ASSUME NEW j \in 1..n
      PROVE  /\ Len(ss[j]) \in Nat
             /\ P(j) = P(j - 1) + 1 + Len(ss[j])
             /\ Byte(P(j - 1)) = Len(ss[j])
             /\ Bytes(P(j - 1) + 1, P(j)) = ss[j]
  <2> DEFINE s == ss[j]
             q == P(j - 1)
  <2>1. s \in StringBytes
    BY <1>5
  <2>2. q \in Nat
    BY <1>7, <1>8
  <2>3. P(j) = q + Len(Prefixed(s)) /\ Holds(q, Prefixed(s))
    BY <1>6, <1>7
  <2> HIDE DEF s, q
  <2>4. Len(Prefixed(s)) = 1 + Len(s) /\ Len(s) \in Nat
    BY <2>1, PrefixedLonger DEF StringBytes, Message
  <2>5. P(j) = q + 1 + Len(s)
    BY <2>2, <2>3, <2>4
  <2>6. Byte(q) = Len(s) /\ Bytes(q + 1, q + 1 + Len(s)) = s
    BY <2>1, <2>2, <2>3, PrefixedHeld
  <2> QED BY <2>4, <2>5, <2>6 DEF s, q
<1>10. \A j \in 0..n : P(j) <= P(n)
  <2> DEFINE g == [j \in 0..n |-> P(j)]
  <2>1. \A j \in 0..n : g[j] = P(j)
    OBVIOUS
  <2>2. \A j \in 0..n : g[j] \in Nat
    BY <1>7, <2>1
  <2>3. ASSUME NEW j \in 1..n PROVE g[j - 1] <= g[j]
    <3>1. j \in 0..n /\ j - 1 \in 0..n
      BY <1>8
    <3>2. P(j) = P(j - 1) + 1 + Len(ss[j]) /\ Len(ss[j]) \in Nat /\ P(j - 1) \in Nat
      BY <1>7, <1>9, <3>1
    <3>3. P(j - 1) <= P(j)
      BY <3>2
    <3> QED BY <2>1, <3>1, <3>3
  <2> HIDE DEF g
  <2>4. \A j \in 0..n : g[j] <= g[n]
    BY <1>8, <2>2, <2>3, PlacesAscend
  <2>5. n \in 0..n
    BY <1>8
  <2> QED BY <2>1, <2>4, <2>5
<1>11. P(n) = RecordAt(k)
  BY <1>4, <1>7
<1> QED BY <1>1, <1>2, <1>5, <1>7, <1>9, <1>10, <1>11 DEF ss, p, f, P, n

LEMMA TextFollows ==
  ASSUME NameInv, Laid, NEW k \in 1..All, Within(k), NEW j \in Nat, ReadsText(k, j),
         TextString \/ EndText
  PROVE  (Within(k)' /\ Reading(k)') \/ Between(k)'
<1> DEFINE ss == script.recs[k].fixed
           P(i) == Place0(RdataAt(k), PrefixedBytes, ss, i)
           n == Len(ss)
<1>1. msg \in Message /\ script.recs[k].type = want /\ script.recs[k].fits /\ want = TXT
  BY DEF NameInv, WireInv, Within, ReadsText
<1>2. /\ ss \in Seq(StringBytes)
      /\ P(n) = RecordAt(k) /\ RecordAt(k) \in Nat
      /\ \A i \in 0..n : P(i) \in Nat
      /\ \A i \in 0..n : P(i) <= RecordAt(k)
      /\ \A i \in 1..n :
           /\ ss[i] \in StringBytes /\ Len(ss[i]) \in Nat
           /\ P(i) = P(i - 1) + 1 + Len(ss[i])
           /\ Byte(P(i - 1)) = Len(ss[i])
           /\ Bytes(P(i - 1) + 1, P(i)) = ss[i]
  BY <1>1, TextHeld
<1>3. /\ pc = "text" /\ j \in 0..n /\ walk.labels = First(ss, j) /\ walk.pos = P(j)
  BY DEF ReadsText
<1>4. rec.end = RecordAt(k)
  <2> DEFINE z == rec.names
  <2> HIDE DEF z
  <2>1. rec = [type |-> want, start |-> RdataAt(k), end |-> RecordAt(k), names |-> z]
    BY DEF Within, z
  <2> QED BY <2>1
<1>5. UNCHANGED <<asked, wire, pos, answers>>
  BY DEF TextString, EndText, loop
<1>6. n \in Nat
  BY <1>2
<1>7. walk \in Walk
  BY DEF NameInv, WireInv
<1> HIDE DEF ss, n, P
<1>8. CASE j < n
  <2> DEFINE m == j + 1
  <2>1. m \in 1..n /\ m - 1 = j /\ m \in 0..n /\ m \in Nat
    BY <1>3, <1>6, <1>8
  <2> HIDE DEF m
  <2>2. /\ P(m) = P(j) + 1 + Len(ss[m]) /\ Byte(P(j)) = Len(ss[m]) /\ Len(ss[m]) \in Nat
        /\ Bytes(P(j) + 1, P(m)) = ss[m] /\ P(j) \in Nat /\ P(m) <= RecordAt(k) /\ P(m) \in Nat
    BY <1>2, <1>3, <2>1
  <2>3. P(j) < RecordAt(k) /\ ~(P(m) > RecordAt(k)) /\ ~(P(j) >= RecordAt(k))
    BY <1>2, <2>2
  <2>4. ~EndText
    BY <1>3, <1>4, <2>3 DEF EndText
  <2>5. walk.pos + 1 + Byte(walk.pos) = P(m)
    BY <1>3, <2>2
  <2>6. /\ walk' = [walk EXCEPT !.pos = P(m),
                                !.labels = Append(@, Bytes(walk.pos + 1, P(m)))]
        /\ UNCHANGED <<pc, loop>>
    BY <1>4, <2>3, <2>4, <2>5 DEF TextString
  <2>7. walk'.pos = P(m) /\ walk'.labels = Append(walk.labels, ss[m])
    BY <1>3, <1>7, <2>2, <2>6 DEF Walk
  <2>8. First(ss, m) = Append(First(ss, j), ss[m])
    BY <1>2, <2>1, FirstFacts DEF n
  <2>9. /\ want' = want /\ script' = script /\ RdataAt(k)' = RdataAt(k)
    BY <1>5, SameScript
  <2>10. ReadsText(k, m)'
    BY <1>1, <1>3, <2>1, <2>6, <2>7, <2>8, <2>9 DEF ReadsText, ss, n, P
  <2>11. Within(k)'
    BY <1>5, <2>6, SameScript DEF Within, loop
  <2> QED BY <2>1, <2>10, <2>11 DEF Reading
<1>9. CASE j = n
  <2>1. walk.pos = RecordAt(k) /\ walk.labels = ss
    BY <1>2, <1>3, <1>9, FirstFacts DEF n
  <2>2. ~(walk.pos < rec.end)
    BY <1>2, <1>4, <2>1
  <2>3. EndText
    BY <2>2 DEF TextString
  <2>4. Push(FlattenSeq(ss))
    BY <2>1, <2>3 DEF EndText
  <2>5. Value(script.recs[k]) = FlattenSeq(ss)
    BY <1>1 DEF Value, ss
  <2>6. Push(Value(script.recs[k]))
    BY <2>4, <2>5
  <2> QED BY <1>5, <2>6, ValuePushed
<1> QED BY <1>3, <1>6, <1>8, <1>9

-----------------------------------------------------------------------------
(* An address, or flags, tag and value.                                    *)
LEMMA TagHeld ==
  ASSUME msg \in Message, NEW r, WellFormed(r), r.fits, r.type = CAA,
         NEW p \in Nat, NEW e, e = p + Len(Rdata(r)), Holds(p, Rdata(r))
  PROVE  LET tagEnd == p + 2 + Byte(p + 1)
         IN ~(tagEnd > e) /\ <<Byte(p), Bytes(p + 2, tagEnd), Bytes(tagEnd, e)>> = r.fixed
<1> DEFINE a == <<r.fixed[1]>>
           s == r.fixed[2]
           b == Prefixed(s)
           c == r.fixed[3]
           t == a \o b
<1>1. /\ r.fixed[1] \in Octet /\ s \in StringBytes /\ c \in Seq(Octet)
      /\ Rdata(r) = Tagged(r) /\ r.fixed = <<r.fixed[1], s, c>>
  BY RdataTag DEF Message
<1>2. a \in Seq(Octet) /\ Len(a) = 1 /\ a[1] = r.fixed[1]
  BY <1>1
<1>3. b \in Seq(Octet) /\ Len(b) \in Nat /\ Len(b) = 1 + Len(s) /\ Len(s) \in Nat
  BY <1>1, PrefixedLonger DEF StringBytes, Message
<1>4. Rdata(r) = t \o c
  BY <1>1 DEF Tagged
<1> DEFINE x == r.fixed[1]
           v == r.fixed
<1>5. v = <<x, s, c>> /\ a[1] = x
  BY <1>1, <1>2
<1> HIDE DEF a, b, c, s, x, v
<1>6. t \in Seq(Octet) /\ Len(t) = Len(a) + Len(b)
  <2>1. a \in Seq(Octet) /\ b \in Seq(Octet)
    BY <1>2, <1>3
  <2> QED BY ONLY <2>1, ConcatFacts
<1> HIDE DEF t
<1>7. c \in Seq(Octet)
  BY <1>1 DEF c
<1>8. Len(Rdata(r)) = Len(t) + Len(c) /\ Len(c) \in Nat
  BY <1>4, <1>6, <1>7, ConcatFacts
<1>9. Holds(p, t) /\ Holds(p + Len(t), c)
  <2>1. Holds(p, t \o c)
    BY <1>4
  <2> QED BY <1>6, <1>7, <2>1, HoldsConcat
<1>10. Holds(p, a) /\ Holds(p + Len(a), b)
  BY <1>2, <1>3, <1>9, HoldsConcat DEF t
<1> DEFINE n == Len(s)
           i == Len(a)
           j == Len(b)
           l == Len(t)
           m == Len(c)
           d == Len(Rdata(r))
<1>11. i = 1 /\ j = 1 + n /\ n \in Nat /\ l = i + j /\ d = l + m /\ m \in Nat
  BY <1>2, <1>3, <1>6, <1>8
<1>12. p + i = p + 1 /\ p + l = p + 2 + n /\ (p + 1) + 1 = p + 2 /\ (p + 1) + 1 + n = p + 2 + n
       /\ p + 1 \in Nat /\ p + 2 + n \in Nat /\ (p + 2 + n) + m = p + d /\ ~(p + 2 + n > p + d)
  <2> HIDE DEF n, i, j, l, m, d
  <2> QED BY <1>11
<1>13. Holds(p + 1, b) /\ Holds(p + 2 + n, c)
  BY <1>9, <1>10, <1>12
<1>14. Byte(p + 1) = n /\ Bytes((p + 1) + 1, (p + 1) + 1 + n) = s
  <2>1. s \in StringBytes
    BY <1>1 DEF s
  <2> QED BY <1>12, <1>13, <2>1, PrefixedHeld DEF b
<1>15. Bytes(p + 2 + n, (p + 2 + n) + m) = c
  BY <1>7, <1>12, <1>13, HoldsBytes
<1>16. Byte(p) = x
  <2>1. 0 \in 0..(Len(a) - 1) /\ p + 0 = p /\ 0 + 1 = 1
    BY <1>2
  <2>2. Byte(p + 0) = a[0 + 1]
    BY <1>2, <1>10, <2>1, HoldsBytes
  <2> QED BY <1>5, <2>1, <2>2
<1> DEFINE q == p + 2 + n
<1>17. p + 2 + Byte(p + 1) = q
  BY <1>14
<1>18. Bytes(p + 2, q) = s /\ Bytes(q, e) = c /\ ~(q > e)
  BY <1>12, <1>14, <1>15
<1> HIDE DEF q
<1>19. <<Byte(p), Bytes(p + 2, q), Bytes(q, e)>> = v
  BY <1>5, <1>16, <1>18
<1> QED BY <1>17, <1>18, <1>19 DEF v

LEMMA FixedFollows ==
  ASSUME NameInv, Laid, NEW k \in 1..All, Within(k), ReadsFixed, PushFixed
  PROVE  Between(k)'
<1> DEFINE r == script.recs[k]
           p == RdataAt(k)
           e == RecordAt(k)
<1>1. msg \in Message /\ r.type = want /\ r.fits /\ want # TXT /\ Names(want) = 0
  BY DEF NameInv, WireInv, Within, ReadsFixed
<1>2. /\ WellFormed(r) /\ p \in Nat /\ Holds(p, Rdata(r)) /\ e = p + Len(Rdata(r))
      /\ Rdata(r) \in Seq(Octet)
  BY <1>1, RdataHeld
<1>3. rec.start = p /\ rec.end = e
  <2> DEFINE z == rec.names
  <2> HIDE DEF z
  <2>1. rec = [type |-> want, start |-> p, end |-> e, names |-> z]
    BY DEF Within, z
  <2> HIDE DEF p, e
  <2> QED BY <2>1
<1>4. UNCHANGED <<asked, wire, pos, answers>>
  BY DEF PushFixed
<1>5. Value(r) = r.fixed
  BY <1>1 DEF Value
<1>6. Push(r.fixed)
  <2>1. CASE want # CAA
    <3>1. want \notin Naming \cup {TXT, CAA, SOA}
      BY <1>1, <2>1 DEF Names, Naming
    <3>2. Rdata(r) = r.fixed
      BY <1>1, <1>2, <3>1, RdataOther
    <3> HIDE DEF r, p, e
    <3>3. Bytes(p, e) = r.fixed
      BY <1>1, <1>2, <3>2, HoldsBytes
    <3>4. Push(Bytes(rec.start, rec.end))
      BY <2>1 DEF PushFixed
    <3> QED BY <1>3, <3>3, <3>4
  <2>2. CASE want = CAA
    <3> DEFINE tagEnd == p + 2 + Byte(p + 1)
    <3> HIDE DEF r, p, e
    <3>1. ~(tagEnd > e) /\ <<Byte(p), Bytes(p + 2, tagEnd), Bytes(tagEnd, e)>> = r.fixed
      BY <1>1, <1>2, <2>2, TagHeld
    <3>2. IF tagEnd > e THEN Fail("invalid") /\ UNCHANGED found
          ELSE Push(<<Byte(p), Bytes(p + 2, tagEnd), Bytes(tagEnd, e)>>)
      BY <1>3, <2>2 DEF PushFixed
    <3> HIDE DEF tagEnd
    <3> QED BY <3>1, <3>2
  <2> QED BY <2>1, <2>2
<1>7. Push(Value(script.recs[k]))
  BY <1>5, <1>6
<1> QED BY <1>4, <1>7, ValuePushed

-----------------------------------------------------------------------------
(* The verdict, and the steps that are none.                               *)
LEMMA ConcludeFollows ==
  ASSUME Judges, Conclude
  PROVE  Concluded'
<1>1. UNCHANGED <<asked, wire, found>> /\ pc' = "over" /\ result' = Verdict
  BY DEF Conclude, Fail, loop
<1>2. Verdict' = Verdict
  BY <1>1 DEF Verdict
<1> QED BY <1>1, <1>2, SameScript DEF Judges, Concluded

LEMMA RestFollows ==
  ASSUME UNCHANGED wireVars, Follows
  PROVE  Follows'
<1>1. UNCHANGED <<asked, wire, pc, pos, questions, answers, rec, found, walk, result>>
  BY DEF wireVars, loop
<1>2. CASE AtHeader
  BY <1>1, <1>2 DEF AtHeader, Fresh, Follows
<1>3. CASE InQuestions
  BY <1>1, <1>3, SameScript DEF InQuestions, Skips, Follows
<1>4. ASSUME NEW k \in Nat, Between(k) PROVE Between(k)'
  BY <1>1, <1>4, SameScript DEF Between, Skips
<1>5. ASSUME NEW k \in Nat, Within(k), Reading(k) PROVE Within(k)' /\ Reading(k)'
  <2>1. Within(k)'
    BY <1>1, <1>5, SameScript DEF Within
  <2>2. \A i \in Nat : ReadsName(k, i) => ReadsName(k, i)'
    <3>1. want' = want /\ host' = host /\ script' = script /\ \A i : NameAt(k, i)' = NameAt(k, i)
      BY <1>1, SameScript
    <3>2. Names(want)' = Names(want)
      BY <3>1
    <3> QED BY <1>1, <3>1, <3>2 DEF ReadsName
  <2>3. \A j \in Nat : ReadsText(k, j) => ReadsText(k, j)'
    BY <1>1, SameScript DEF ReadsText
  <2>4. ReadsFixed => ReadsFixed'
    BY <1>1, SameScript DEF ReadsFixed
  <2> QED BY <1>5, <2>1, <2>2, <2>3, <2>4 DEF Reading
<1>6. CASE Judges
  BY <1>1, <1>6, SameScript DEF Judges, Follows
<1>7. CASE Concluded
  <2>1. Verdict' = Verdict
    BY <1>1 DEF Verdict
  <2> QED BY <1>1, <1>7, <2>1, SameScript DEF Concluded, Follows
<1> QED BY <1>2, <1>3, <1>4, <1>5, <1>6, <1>7 DEF Follows

-----------------------------------------------------------------------------
(* Who may go on, by where the parser is.                                  *)
Walks == NameOverruns \/ BadLabel \/ ReadLabel \/ Pointer

LEMMA WhoGoesOn ==
  ASSUME WireNext
  PROVE  /\ pc = "header" => Header
         /\ pc = "question" => NextQuestion
         /\ pc = "answer" => NextAnswer
         /\ pc = "name" => Walks \/ EndQuestionName \/ EndOwnerName \/ EndRdataName
         /\ pc = "record" => Record
         /\ pc = "text" => TextString \/ EndText
         /\ pc = "push" => PushFixed
         /\ pc = "judge" => Conclude
         /\ pc = "over" => UNCHANGED wireVars
         /\ pc # "query" /\ pc # "over" => UNCHANGED <<asked, wire>> /\ pc' # "query"
<1>1. /\ RefuseHost \/ Honest \/ Arbitrary => pc = "query"
      /\ Header => pc = "header" /\ (pc' = "question" \/ pc' = "over")
      /\ NextQuestion => pc = "question" /\ (pc' = "name" \/ pc' = "answer")
      /\ NextAnswer => pc = "answer" /\ (pc' = "name" \/ pc' = "judge")
  BY DEF RefuseHost, Honest, Arbitrary, Built, Header, NextQuestion, NextAnswer, Goto, Fail
<1>2. /\ NameOverruns => pc = "name" /\ pc' = "over"
      /\ BadLabel => pc = "name" /\ pc' = "over"
      /\ ReadLabel => pc = "name" /\ (pc' = "name" \/ pc' = "over")
      /\ Pointer => pc = "name" /\ (pc' = "name" \/ pc' = "over")
  <2>1. (InvalidName => pc' = "over") /\ (\A w : Advance(w) => pc' = pc)
    BY DEF InvalidName, Fail, Advance
  <2>2. \A b : Reads(b) => pc = "name"
    BY DEF Reads, AtName
  <2>3. NameOverruns => pc = "name" /\ pc' = "over"
    BY <2>1 DEF NameOverruns, AtName
  <2>4. BadLabel => pc = "name" /\ pc' = "over"
    BY <2>1, <2>2 DEF BadLabel
  <2>5. ReadLabel => pc = "name" /\ (pc' = "name" \/ pc' = "over")
    BY <2>1, <2>2 DEF ReadLabel
  <2>6. Pointer => pc = "name" /\ (pc' = "name" \/ pc' = "over")
    BY <2>1, <2>2 DEF Pointer
  <2> QED BY <2>3, <2>4, <2>5, <2>6
<1>3. /\ EndQuestionName => pc = "name" /\ pc' = "question"
      /\ EndOwnerName => pc = "name" /\ pc' = "record"
      /\ EndRdataName => pc = "name" /\ pc' # "query"
  <2>1. EndQuestionName => pc = "name" /\ pc' = "question"
    BY DEF EndQuestionName, Reads, AtName, Goto
  <2>2. EndOwnerName => pc = "name" /\ pc' = "record"
    BY DEF EndOwnerName, Reads, AtName, Goto
  <2>3. ASSUME EndRdataName PROVE pc = "name" /\ pc' # "query"
    <3>1. pc = "name"
      BY <2>3 DEF EndRdataName, Reads, AtName
    <3>2. \A v : Push(v) => pc' = "answer"
      BY DEF Push, Goto
    <3>3. \A why : Fail(why) => pc' = "over"
      BY DEF Fail
    <3>4. pc' = pc \/ pc' = "over" \/ pc' = "answer"
      BY <2>3, <3>2, <3>3 DEF EndRdataName
    <3> QED BY <3>1, <3>4
  <2> QED BY <2>1, <2>2, <2>3
<1>4. Record => pc = "record" /\ pc' # "query"
  <2> SUFFICES ASSUME Record PROVE pc = "record" /\ pc' # "query"
    OBVIOUS
  <2>1. \A why : Fail(why) => pc' = "over"
    BY DEF Fail
  <2>2. \A where : Goto(where) => pc' = where
    BY DEF Goto
  <2>3. pc = "record" /\ pc' \in {"over", "name", "answer", "text", "push"}
    BY <2>1, <2>2 DEF Record
  <2> QED BY <2>3
<1>5. /\ TextString => pc = "text" /\ (pc' = pc \/ pc' = "over")
      /\ EndText => pc = "text" /\ pc' = "answer"
      /\ PushFixed => pc = "push" /\ (pc' = "over" \/ pc' = "answer")
      /\ Conclude => pc = "judge" /\ pc' = "over"
  <2>1. \A v : Push(v) => pc' = "answer"
    BY DEF Push, Goto
  <2>2. \A why : Fail(why) => pc' = "over"
    BY DEF Fail
  <2> QED BY <2>1, <2>2 DEF TextString, EndText, PushFixed, Conclude
<1>6. Over => pc = "over" /\ UNCHANGED wireVars
  BY DEF Over
<1>7. pc # "query" => Parse \/ Over
  BY <1>1 DEF WireNext
<1>8. Parse => UNCHANGED <<asked, wire>>
  BY DEF Parse, Header, NextQuestion, NextAnswer, NameOverruns, BadLabel, ReadLabel, Pointer,
         InvalidName, Advance, EndName, EndQuestionName, EndOwnerName, EndRdataName,
         Record, TextString, EndText, PushFixed, Conclude
<1>9. Parse => Header \/ NextQuestion \/ NextAnswer \/ Walks \/ EndQuestionName
               \/ EndOwnerName \/ EndRdataName \/ Record \/ TextString \/ EndText
               \/ PushFixed \/ Conclude
  BY DEF Parse, EndName, Walks
<1>10. Walks => pc = "name" /\ (pc' = "name" \/ pc' = "over")
  BY <1>2 DEF Walks
<1> QED BY <1>1, <1>3, <1>4, <1>5, <1>6, <1>7, <1>8, <1>9, <1>10

LEMMA NextFollows ==
  ASSUME NameInv, Laid, Follows, WireNext
  PROVE  Follows'
<1>0. msg \in Message /\ [WireNext]_wireVars /\ All \in Nat
  BY Placed DEF NameInv, WireInv
<1>1. CASE AtHeader
  <2>1. Header
    BY <1>1, WhoGoesOn DEF AtHeader
  <2>2. InQuestions'
    BY <1>0, <1>1, <2>1, HeaderFollows
  <2> QED BY <2>2 DEF Follows
<1>2. CASE InQuestions
  <2>1. \/ NextQuestion \/ EndQuestionName \/ EndOwnerName \/ EndRdataName
        \/ NameOverruns \/ BadLabel \/ ReadLabel \/ Pointer
    BY <1>2, WhoGoesOn DEF InQuestions, Skips, Walks
  <2>2. InQuestions' \/ Between(0)'
    BY <1>0, <1>2, <2>1, QuestionFollows
  <2>3. 0 \in Nat
    OBVIOUS
  <2> QED BY <2>2, <2>3 DEF Follows
<1>3. ASSUME NEW k \in Nat, Between(k) PROVE Follows'
  <2>1. CASE pc = "record"
    <3> DEFINE m == k + 1
    <3>1. m \in Nat /\ m = k + 1
      OBVIOUS
    <3> HIDE DEF m
    <3>2. Record
      BY <2>1, WhoGoesOn
    <3>3. Between(m)' \/ (Within(m)' /\ Reading(m)')
      BY <1>3, <3>1, <3>2, RecordFollows
    <3> QED BY <3>1, <3>3 DEF Follows
  <2>2. CASE pc # "record"
    <3>1. pc = "answer" \/ pc = "name"
      BY <1>3, <2>2 DEF Between, Skips
    <3>2. \/ NextAnswer \/ EndQuestionName \/ EndOwnerName \/ EndRdataName
          \/ NameOverruns \/ BadLabel \/ ReadLabel \/ Pointer
      BY <3>1, WhoGoesOn DEF Walks
    <3>3. Between(k)' \/ Judges'
      BY <1>0, <1>3, <3>2, AnswerFollows
    <3> QED BY <3>3 DEF Follows
  <2> QED BY <2>1, <2>2
<1>4. ASSUME NEW k \in Nat, Within(k), Reading(k) PROVE Follows'
  <2>0. k \in 1..All
    BY <1>4 DEF Within
  <2>1. ASSUME NEW i \in Nat, ReadsName(k, i) PROVE Follows'
    <3>1. pc = "name" /\ walk.then = "rdata"
      BY <2>1 DEF ReadsName
    <3>2. ~EndQuestionName /\ ~EndOwnerName
      BY <3>1 DEF EndQuestionName, EndOwnerName
    <3>3. Walks \/ EndRdataName
      BY <3>1, <3>2, WhoGoesOn
    <3>4. CASE EndRdataName
      <4>1. (Within(k)' /\ Reading(k)') \/ Between(k)'
        BY <1>0, <1>4, <2>0, <2>1, <3>4, EndRdataFollows
      <4> QED BY <4>1 DEF Follows
    <3>5. CASE Walks
      <4>1. Within(k)' /\ Reading(k)'
        BY <1>0, <1>4, <2>0, <2>1, <3>5, RdataNameFollows DEF Walks
      <4> QED BY <4>1 DEF Follows
    <3> QED BY <3>3, <3>4, <3>5
  <2>2. ASSUME NEW j \in Nat, ReadsText(k, j) PROVE Follows'
    <3>1. TextString \/ EndText
      BY <2>2, WhoGoesOn DEF ReadsText
    <3>2. (Within(k)' /\ Reading(k)') \/ Between(k)'
      BY <1>4, <2>0, <2>2, <3>1, TextFollows
    <3> QED BY <3>2 DEF Follows
  <2>3. CASE ReadsFixed
    <3>1. PushFixed
      BY <2>3, WhoGoesOn DEF ReadsFixed
    <3>2. Between(k)'
      BY <1>4, <2>0, <2>3, <3>1, FixedFollows
    <3> QED BY <3>2 DEF Follows
  <2> QED BY <1>4, <2>1, <2>2, <2>3 DEF Reading
<1>5. CASE Judges
  <2>1. Conclude
    BY <1>5, WhoGoesOn DEF Judges
  <2>2. Concluded'
    BY <1>5, <2>1, ConcludeFollows
  <2> QED BY <2>2 DEF Follows
<1>6. CASE Concluded
  <2>1. UNCHANGED wireVars
    BY <1>6, WhoGoesOn DEF Concluded
  <2> QED BY <2>1, RestFollows
<1> QED BY <1>1, <1>2, <1>3, <1>4, <1>5, <1>6 DEF Follows

(* An honest endpoint's answer.                                            *)
LEMMA HonestAnswers ==
  ASSUME host \in Host, want \in Want, Fresh, Honest
  PROVE  Responded' /\ AtHeader' /\ pc' # "query"
<1>1. PICK recs \in BoundedSeq(Sent, MaxAnswers), rcode \in Rcode :
        Receive(Respond(host, want, recs, rcode), [recs |-> recs, rcode |-> rcode])
  BY DEF Honest
<1>2. Buildable(host)
  BY DEF Honest, Built
<1>3. recs \in Seq(Sent) /\ Len(recs) \in Bits16
  <2>1. PICK m \in 0..MaxAnswers : recs \in [1..m -> Sent]
    BY <1>1 DEF BoundedSeq, SeqOf
  <2>2. m \in Bits16
    BY <2>1, MaxAnswersAssumption, Bits16Below
  <2>3. m \in Nat
    BY <2>2, Bits16Nat
  <2>4. recs \in Seq(Sent) /\ Len(recs) = m
    BY <2>1, <2>3
  <2> QED BY <2>2, <2>4
<1>4. rcode \in 0..15
  BY RcodeAssumption
<1> DEFINE w == Respond(host, want, recs, rcode)
           v == [recs |-> recs, rcode |-> rcode]
<1>5. v.recs = recs /\ v.rcode = rcode
  OBVIOUS
<1> HIDE DEF v
<1>6. /\ msg' = w /\ script' = v /\ host' = host /\ want' = want /\ pc' = "header"
      /\ found' = found
  <2> HIDE DEF w
  <2> QED BY <1>1 DEF Receive, Goto, asked, loop, w, v
<1>7. Buildable(host)' /\ Respond(host, want, recs, rcode)' = w
  <2>1. Buildable(host)'
    BY <1>2, <1>6
  <2> QED BY <1>6, <2>1
<1>8. Responded'
  BY <1>3, <1>4, <1>5, <1>6, <1>7 DEF Responded
<1>9. AtHeader'
  BY <1>6 DEF AtHeader, Fresh
<1> QED BY <1>6, <1>8, <1>9

LEMMA HonestInvInit == WireInit => HonestInv
<1> SUFFICES ASSUME WireInit PROVE HonestInv
  OBVIOUS
<1>1. host \in Host /\ want \in Want /\ script = Nothing /\ Fresh
  BY DEF WireInit, Fresh
<1> QED BY <1>1, NameInvInit DEF HonestInv, Told

LEMMA HonestInvStep == HonestInv /\ [WireNext]_wireVars => HonestInv'
<1> SUFFICES ASSUME HonestInv, [WireNext]_wireVars PROVE HonestInv'
  OBVIOUS
<1>1. NameInv /\ NameInv' /\ host \in Host /\ want \in Want /\ msg \in Message
  BY NameInvStep DEF HonestInv, NameInv, WireInv
<1>2. (pc = "query" => script = Nothing /\ Fresh) /\ Told
  BY DEF HonestInv
<1>3. CASE UNCHANGED wireVars
  <2>1. UNCHANGED <<asked, wire, pc, found>> /\ host' = host /\ want' = want /\ script' = script
    BY <1>3 DEF wireVars, loop, asked, wire
  <2>2. Told'
    BY <1>2, <1>3, <2>1, SameScript, RestFollows DEF Told
  <2>3. (pc = "query" => script = Nothing /\ Fresh)'
    BY <1>2, <2>1 DEF Fresh
  <2> QED BY <1>1, <2>1, <2>2, <2>3 DEF HonestInv
<1>4. CASE WireNext /\ pc = "query"
  <2>1. host' = host /\ want' = want
    BY <1>4
    DEF WireNext, Parse, RefuseHost, Honest, Arbitrary, Receive, Header, NextQuestion, NextAnswer,
        NameOverruns, BadLabel, ReadLabel, Pointer, EndName, EndQuestionName, EndOwnerName,
        EndRdataName, Record, TextString, EndText, PushFixed, Conclude, Over, Reads, AtName, asked
  <2>2. RefuseHost \/ Honest \/ Arbitrary
    BY <1>4
    DEF WireNext, Parse, Header, NextQuestion, NextAnswer,
        NameOverruns, BadLabel, ReadLabel, Pointer, EndName, EndQuestionName, EndOwnerName,
        EndRdataName, Record, TextString, EndText, PushFixed, Conclude, Over, Reads, AtName
  <2>3. CASE Honest
    <3>1. Responded' /\ AtHeader' /\ pc' # "query"
      BY <1>1, <1>2, <1>4, <2>3, HonestAnswers
    <3> QED BY <1>1, <2>1, <3>1 DEF HonestInv, Told, Follows
  <2>4. CASE RefuseHost \/ Arbitrary
    <3>1. script' = Nothing /\ pc' # "query"
      BY <1>2, <1>4, <2>4 DEF RefuseHost, Arbitrary, Receive, Fail, Goto, wire
    <3> QED BY <1>1, <2>1, <3>1 DEF HonestInv, Told
  <2> QED BY <2>2, <2>3, <2>4
<1>5. CASE WireNext /\ pc # "query" /\ ~UNCHANGED wireVars
  <2>1. UNCHANGED <<asked, wire>> /\ pc' # "query"
    BY <1>5, WhoGoesOn
  <2>2. host' = host /\ want' = want /\ script' = script /\ Responded' = Responded
    BY <2>1, SameScript
  <2>3. Told'
    <3> SUFFICES ASSUME script # Nothing PROVE Responded' /\ Follows'
      BY <2>2 DEF Told
    <3>1. Responded /\ Follows
      BY <1>2 DEF Told
    <3>2. Laid
      BY <1>1, <3>1, AnsweredLaid
    <3>3. Follows'
      BY <1>1, <1>5, <3>1, <3>2, NextFollows
    <3> QED BY <2>2, <3>1, <3>3
  <2> QED BY <1>1, <2>1, <2>2, <2>3 DEF HonestInv
<1> QED BY <1>3, <1>4, <1>5

LEMMA FoundFields ==
  ASSUME NEW f, NEW a, NEW t, NEW s, NEW c,
         f = [rcode |-> a, ttl |-> t, records |-> s, cname |-> c]
  PROVE  f.rcode = a /\ f.ttl = t /\ f.records = s /\ f.cname = c
OBVIOUS

LEMMA ConcludedAsAsked ==
  ASSUME HonestInv, result # Nothing, script # Nothing
  PROVE  AnswersAsAsked
<1> DEFINE s == script.recs
           w == Those(s, OfWant)
           d == Those(s, FitOfWant)
           al == \E i \in DOMAIN s : s[i].type = CNAME
<1>1. Responded /\ Follows /\ pc = "over"
  BY DEF HonestInv, Told, NameInv
<1>2. Laid
  BY <1>1, AnsweredLaid DEF HonestInv, NameInv, WireInv
<1>3. found = Finding(All, All) /\ result = Verdict
  BY <1>1
  DEF Follows, AtHeader, InQuestions, Between, Reading, ReadsName, ReadsText, ReadsFixed,
      Judges, Concluded, Skips
<1>4. s \in Seq(Sent) /\ First(s, All) = s /\ DOMAIN s = 1..All
  <2>1. s \in Seq(Sent)
    BY <1>2 DEF Laid
  <2> HIDE DEF s
  <2>2. First(s, Len(s)) = s /\ DOMAIN s = 1..Len(s)
    BY <2>1, FirstFacts
  <2> QED BY <2>1, <2>2 DEF s, All
<1>5. TtlAfter(All) = TtlOf(w) /\ ValuesAfter(All) = Values(d)
  BY <1>4 DEF TtlAfter, ValuesAfter
<1>6. Aliased(All) = al
  BY <1>4 DEF Aliased
<1>7. d \in Seq(Sent)
  BY <1>4, ThoseFacts
<1>8. Values(d) = <<>> <=> d = <<>>
  <2> HIDE DEF d
  <2>1. CASE d = <<>>
    BY <2>1 DEF Values
  <2>2. CASE d # <<>>
    <3>1. 1 \in DOMAIN d /\ DOMAIN Values(d) = DOMAIN d
      BY <1>7, <2>2 DEF Values
    <3>2. DOMAIN <<>> = {}
      OBVIOUS
    <3> QED BY <2>2, <3>1, <3>2
  <2> QED BY <2>1, <2>2
<1> DEFINE a == script.rcode
           t == TtlAfter(All)
           v == ValuesAfter(All)
           c == Aliased(All)
<1>9. found.rcode = a /\ found.ttl = t /\ found.records = v /\ found.cname = c
  <2>1. found = [rcode |-> a, ttl |-> t, records |-> v, cname |-> c]
    BY <1>3 DEF Finding
  <2> HIDE DEF a, t, v, c
  <2> QED BY ONLY <2>1, FoundFields
<1>10. result = IF a # 0 THEN "rcode"
                ELSE IF d # <<>> THEN "ok"
                ELSE IF al THEN "alias"
                ELSE "nodata"
  <2>1. found.records = <<>> <=> d = <<>>
    BY <1>5, <1>8, <1>9
  <2>2. found.cname = al /\ found.rcode = a
    BY <1>6, <1>9
  <2> HIDE DEF a, d, al
  <2> QED BY <1>3, <2>1, <2>2 DEF Verdict
<1>11. found.ttl = (IF w = <<>> THEN Nothing ELSE <<0, w[1].ttl>>)
  BY <1>5, <1>9 DEF TtlOf
<1>12. found.records = [i \in DOMAIN d |-> Value(d[i])]
  BY <1>5, <1>9 DEF Values
<1> QED BY <1>10, <1>11, <1>12 DEF AnswersAsAsked, OfWant, FitOfWant

(* The records an honest endpoint sent of the type asked for are what is   *)
(* found, in their order and with the names they mean, however many they   *)
(* are and whatever stands between them; the time to live is one of        *)
(* theirs; and the verdict tells error, alias and absence apart.           *)
THEOREM AnswersAlwaysAsAsked == WireSpec => []AnswersAsAsked
<1>1. WireInit => HonestInv
  BY HonestInvInit
<1>2. HonestInv /\ [WireNext]_wireVars => HonestInv'
  BY HonestInvStep
<1>3. HonestInv => AnswersAsAsked
  BY ConcludedAsAsked DEF AnswersAsAsked
<1> QED BY <1>1, <1>2, <1>3, PTL DEF WireSpec

=============================================================================
