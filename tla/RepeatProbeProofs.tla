-------------------------- MODULE RepeatProbeProofs --------------------------
(***************************************************************************)
(* Proofs about RepeatProbe, for any number of attempts and any kinds,     *)
(* statuses, times and flags.                                              *)
(***************************************************************************)
EXTENDS RepeatProbe, SortingProofs

(* What the closure makes of an event.                                     *)
LEMMA OutcomeOfEvent ==
  ASSUME NEW e \in Event
  PROVE  LET o == Outcome(e)
         IN /\ o.ok \in BOOLEAN
            /\ o.ok <=> Completed(e)
            /\ o.ok => o.latency \in Ms
            /\ ~o.ok => o.latency = None
            /\ o.ttfb \in Ms \cup {None}
            /\ \A k \in Kind : o.kind = k <=> FailedBy(e, k)
            /\ \A s \in Status : o.status = s <=> Answered(e, s)
<1> USE KindAssumption, StatusAssumption, MsAssumption, NoneAssumption
    DEF Outcome, Observation, Completed, FailedBy, Answered
<1>1. CASE e \in Unreachable
  BY <1>1 DEF Unreachable
<1>2. CASE e \in Connected
  BY <1>2 DEF Connected
<1>3. CASE e \in Ended
  BY <1>3 DEF Ended
<1>4. CASE e \in Stalled
  BY <1>4 DEF Stalled
<1>5. CASE e \in Broken
  BY <1>5 DEF Broken
<1> QED BY <1>1, <1>2, <1>3, <1>4, <1>5 DEF Event, HttpEvent, TransportEvent

(* A set of positions of a sequence, to which the next one may be added.   *)
LEMMA OneMore ==
  ASSUME NEW n \in Nat, NEW S \in SUBSET (1..n), NEW b \in BOOLEAN
  PROVE  Cardinality(S \cup (IF b THEN {n + 1} ELSE {}))
           = Cardinality(S) + (IF b THEN 1 ELSE 0)
<1>1. IsFiniteSet(S)
  <2>1. IsFiniteSet(1..n)
    BY FS_Interval
  <2> QED BY <2>1, FS_Subset
<1>2. n + 1 \notin S
  OBVIOUS
<1>3. Cardinality(S) \in Nat
  BY <1>1, FS_CardinalityType
<1>4. CASE b
  BY <1>1, <1>2, <1>4, FS_AddElement
<1>5. CASE ~b
  BY <1>3, <1>5
<1> QED BY <1>4, <1>5

LEMMA NothingSeen == Cardinality({}) = 0
BY FS_EmptySet

IInv == TypeOK /\ CountsAreExact

LEMMA IInvInit == Init => IInv
<1> SUFFICES ASSUME Init PROVE IInv
  OBVIOUS
<1>1. TypeOK
  BY DEF Init, TypeOK
<1>2. DOMAIN seen = {}
  BY DEF Init
<1>3. CountsAreExact
  BY <1>2, NothingSeen DEF Init, CountsAreExact, CompletedAt, FailedAt, AnsweredAt
<1> QED BY <1>1, <1>3 DEF IInv

(* Each aggregate moves exactly when the attempt belongs to it.            *)
LEMMA AttemptCounts ==
  ASSUME IInv, NEW e \in Event, Attempt(e)
  PROVE  IInv'
<1> DEFINE o == Outcome(e)
           n == Len(seen)
<1>1. /\ seen \in Seq(Event) /\ seen' = Append(seen, e) /\ n \in Nat
      /\ DOMAIN seen = 1..n /\ DOMAIN seen' = 1..(n + 1)
      /\ seen'[n + 1] = e
      /\ \A i \in 1..n : seen'[i] = seen[i]
  BY DEF IInv, TypeOK, Attempt
<1>2. /\ statuses' = Increment(statuses, o.status)
      /\ ttfb' = ttfb \o Option(o.ttfb)
      /\ successes' = successes + (IF o.ok THEN 1 ELSE 0)
      /\ latency' = latency \o Option(o.latency)
      /\ failures' = Increment(failures, o.kind)
      /\ UNCHANGED <<http, attempts, expect, result, verdict>>
  BY DEF Attempt
<1>3. /\ o.ok \in BOOLEAN
      /\ o.ok <=> Completed(e)
      /\ o.ok => o.latency \in Ms
      /\ ~o.ok => o.latency = None
      /\ o.ttfb \in Ms \cup {None}
      /\ \A k \in Kind : o.kind = k <=> FailedBy(e, k)
      /\ \A s \in Status : o.status = s <=> Answered(e, s)
  BY OutcomeOfEvent
<1> HIDE DEF o, n
<1>4. TypeOK'
  <2>1. seen' \in Seq(Event)
    BY <1>1
  <2>2. successes' \in Nat
    BY <1>2, <1>3 DEF IInv, TypeOK
  <2>3. failures' \in [Kind -> Nat] /\ statuses' \in [Status -> Nat]
    BY <1>2 DEF IInv, TypeOK, Increment
  <2>4. latency' \in Seq(Ms)
    BY <1>2, <1>3 DEF IInv, TypeOK, Option
  <2>5. ttfb' \in Seq(Ms)
    BY <1>2, <1>3 DEF IInv, TypeOK, Option
  <2> QED BY <1>2, <2>1, <2>2, <2>3, <2>4, <2>5 DEF IInv, TypeOK
<1>5. successes' = Cardinality(CompletedAt')
  <2>1. CompletedAt' = CompletedAt \cup (IF o.ok THEN {n + 1} ELSE {})
    BY <1>1, <1>3 DEF CompletedAt, FailedAt, AnsweredAt
  <2>2. CompletedAt \in SUBSET (1..n)
    BY <1>1 DEF CompletedAt, FailedAt, AnsweredAt
  <2>3. Cardinality(CompletedAt') = Cardinality(CompletedAt) + (IF o.ok THEN 1 ELSE 0)
    BY <1>1, <1>3, <2>1, <2>2, OneMore
  <2> QED BY <1>2, <2>3 DEF IInv, CountsAreExact
<1>6. Len(latency') = successes'
  <2>1. o.ok => Option(o.latency) = <<o.latency>>
    BY <1>3, MsAssumption, NoneAssumption DEF Option
  <2>2. ~o.ok => Option(o.latency) = <<>>
    BY <1>3 DEF Option
  <2>3. latency \in Seq(Ms) /\ Len(latency) = successes /\ successes \in Nat
    BY DEF IInv, TypeOK, CountsAreExact
  <2>4. CASE o.ok
    <3>1. <<o.latency>> \in Seq(Ms) /\ Len(<<o.latency>>) = 1
      BY <1>3, <2>4
    <3>2. Len(latency \o <<o.latency>>) = Len(latency) + 1
      BY <2>3, <3>1
    <3> QED BY <1>2, <2>1, <2>3, <2>4, <3>2
  <2>5. CASE ~o.ok
    BY <1>2, <2>2, <2>3, <2>5
  <2> QED BY <1>3, <2>4, <2>5
<1>7. ASSUME NEW k \in Kind
      PROVE  failures'[k] = Cardinality(FailedAt(k)')
  <2>1. FailedAt(k)'
          = FailedAt(k) \cup (IF o.kind = k THEN {n + 1} ELSE {})
    BY <1>1, <1>3 DEF CompletedAt, FailedAt, AnsweredAt
  <2>2. FailedAt(k) \in SUBSET (1..n)
    BY <1>1 DEF CompletedAt, FailedAt, AnsweredAt
  <2>3. failures'[k] = failures[k] + (IF o.kind = k THEN 1 ELSE 0)
    BY <1>2 DEF Increment, IInv, TypeOK
  <2>4. Cardinality(FailedAt(k)')
          = Cardinality(FailedAt(k)) + (IF o.kind = k THEN 1 ELSE 0)
    <3>1. (o.kind = k) \in BOOLEAN
      OBVIOUS
    <3> QED BY <1>1, <2>1, <2>2, <3>1, OneMore
  <2>5. failures[k] = Cardinality(FailedAt(k))
    BY DEF IInv, CountsAreExact
  <2> QED BY <2>3, <2>4, <2>5
<1>8. ASSUME NEW s \in Status
      PROVE  statuses'[s] = Cardinality(AnsweredAt(s)')
  <2>1. AnsweredAt(s)'
          = AnsweredAt(s) \cup (IF o.status = s THEN {n + 1} ELSE {})
    BY <1>1, <1>3 DEF CompletedAt, FailedAt, AnsweredAt
  <2>2. AnsweredAt(s) \in SUBSET (1..n)
    BY <1>1 DEF CompletedAt, FailedAt, AnsweredAt
  <2>3. statuses'[s] = statuses[s] + (IF o.status = s THEN 1 ELSE 0)
    BY <1>2 DEF Increment, IInv, TypeOK
  <2>4. Cardinality(AnsweredAt(s)')
          = Cardinality(AnsweredAt(s)) + (IF o.status = s THEN 1 ELSE 0)
    <3>1. (o.status = s) \in BOOLEAN
      OBVIOUS
    <3> QED BY <1>1, <2>1, <2>2, <3>1, OneMore
  <2>5. statuses[s] = Cardinality(AnsweredAt(s))
    BY DEF IInv, CountsAreExact
  <2> QED BY <2>3, <2>4, <2>5
<1> QED BY <1>4, <1>5, <1>6, <1>7, <1>8 DEF IInv, CountsAreExact

LEMMA IInvStep == IInv /\ [Next]_vars => IInv'
<1> SUFFICES ASSUME IInv, [Next]_vars PROVE IInv'
  OBVIOUS
<1>1. CASE \E e \in Event : Attempt(e)
  BY <1>1, AttemptCounts
<1>2. CASE Report \/ Judge \/ Done \/ UNCHANGED vars
  <2>1. UNCHANGED <<http, attempts, expect, seen, successes, failures,
                    statuses, latency, ttfb>>
    BY <1>2 DEF Report, Judge, Done, vars
  <2>2. verdict' \in {"pending", "met", "violated"}
    BY <1>2 DEF IInv, TypeOK, Report, Judge, Done, vars
  <2> QED BY <2>1, <2>2 DEF IInv, TypeOK, CountsAreExact, CompletedAt, FailedAt, AnsweredAt
<1> QED BY <1>1, <1>2 DEF Next

LEMMA IInvAlways == Spec => []IInv
BY IInvInit, IInvStep, PTL DEF Spec

(* Type correctness.                                                       *)
THEOREM TypeCorrect == Spec => []TypeOK
BY IInvAlways, PTL DEF IInv

(* The aggregates of a repeated probe are exact after every attempt,       *)
(* however many attempts, failure kinds and statuses there are.            *)
THEOREM CountsAlwaysExact == Spec => []CountsAreExact
BY IInvAlways, PTL DEF IInv

-----------------------------------------------------------------------------
(* The rows of a report: every entry once, the most frequent first.        *)
LEMMA EntriesFinite ==
  ASSUME NEW D \in SUBSET Nat, IsFiniteSet(D), NEW counts \in [D -> Nat]
  PROVE  /\ Entries(counts) \in SUBSET D
         /\ IsFiniteSet(Entries(counts))
         /\ Cardinality(Entries(counts)) \in Nat
<1>1. Entries(counts) \subseteq D
  BY DEF Entries
<1> QED BY <1>1, FS_Subset, FS_CardinalityType

LEMMA FrequencyOrders ==
  ASSUME NEW D \in SUBSET Nat, NEW counts \in [D -> Nat]
  PROVE  /\ \A j, k \in Entries(counts) :
              <<j, k>> \in MoreFrequent(counts) <=>
                counts[j] > counts[k] \/ (counts[j] = counts[k] /\ j < k)
         /\ IsWeakOrder(Entries(counts), MoreFrequent(counts))
         /\ \A j, k \in Entries(counts) :
              j # k => \/ <<j, k>> \in MoreFrequent(counts)
                       \/ <<k, j>> \in MoreFrequent(counts)
<1>1. \A j \in Entries(counts) : j \in Nat /\ counts[j] \in Nat
  BY DEF Entries
<1>2. \A j, k \in Entries(counts) :
        <<j, k>> \in MoreFrequent(counts) <=>
          counts[j] > counts[k] \/ (counts[j] = counts[k] /\ j < k)
  BY DEF MoreFrequent
<1>3. \A x, y \in Entries(counts) :
        <<x, y>> \in MoreFrequent(counts) => <<y, x>> \notin MoreFrequent(counts)
  BY <1>1, <1>2
<1>4. \A x, y, z \in Entries(counts) :
        <<x, z>> \in MoreFrequent(counts) =>
          \/ <<x, y>> \in MoreFrequent(counts)
          \/ <<y, z>> \in MoreFrequent(counts)
  BY <1>1, <1>2
<1>5. \A j, k \in Entries(counts) :
        j # k => \/ <<j, k>> \in MoreFrequent(counts)
                 \/ <<k, j>> \in MoreFrequent(counts)
  BY <1>1, <1>2
<1> QED BY <1>2, <1>3, <1>4, <1>5 DEF IsWeakOrder

LEMMA RowsFacts ==
  ASSUME NEW D \in SUBSET Nat, IsFiniteSet(D), NEW counts \in [D -> Nat],
         NEW rows \in CountReports(counts)
  PROVE  /\ DOMAIN rows = 1..Cardinality(Entries(counts))
         /\ rows = <<>> <=> Entries(counts) = {}
         /\ \A p \in DOMAIN rows : rows[p][1] \in Entries(counts)
         /\ \A k \in Entries(counts) : \E p \in DOMAIN rows : rows[p][1] = k
         /\ \A p, q \in DOMAIN rows : p < q =>
              \/ rows[p][2] > rows[q][2]
              \/ rows[p][2] = rows[q][2] /\ rows[p][1] < rows[q][1]
<1> DEFINE E == Entries(counts)
           n == Cardinality(E)
<1>1. E \in SUBSET D /\ IsFiniteSet(E) /\ n \in Nat
  BY EntriesFinite
<1>2. PICK order \in [1..n -> E] :
        IsInjective(order) /\ rows = Counted(SortedEntries(order, counts), counts)
  BY DEF CountReports
<1> DEFINE ks == StablySorted(order, MoreFrequent(counts))
<1>3. /\ IsFiniteSet(1..n) /\ Cardinality(1..n) = n
  BY <1>1, FS_Interval
<1>4. order \in Injection(1..n, E)
  BY <1>2 DEF Injection
<1>5. Range(order) = E
  <2>1. order \in Surjection(1..n, E)
    BY <1>1, <1>3, <1>4, FS_Injection
  <2> QED BY <1>2, <2>1 DEF Range, Surjection
<1>6. order \in Seq(E)
  BY <1>1, <1>2
<1>7. /\ \A j, k \in E :
           <<j, k>> \in MoreFrequent(counts) <=>
             counts[j] > counts[k] \/ (counts[j] = counts[k] /\ j < k)
      /\ IsWeakOrder(E, MoreFrequent(counts))
      /\ \A j, k \in E : j # k => \/ <<j, k>> \in MoreFrequent(counts)
                                  \/ <<k, j>> \in MoreFrequent(counts)
  BY FrequencyOrders
<1> HIDE DEF E, n
<1>8. /\ ks \in Seq(E) /\ DOMAIN ks = DOMAIN order /\ IsInjective(ks) /\ Range(ks) = E
      /\ \A i, j \in DOMAIN ks : i < j => <<ks[j], ks[i]>> \notin MoreFrequent(counts)
  BY <1>2, <1>5, <1>6, <1>7, StablySortedFacts
<1>9. rows = [p \in DOMAIN ks |-> <<ks[p], counts[ks[p]]>>]
  BY <1>2 DEF Counted, SortedEntries
<1> HIDE DEF ks
<1>10. /\ DOMAIN ks = 1..n /\ DOMAIN rows = 1..n
       /\ \A p \in 1..n : /\ ks[p] \in E /\ rows[p] = <<ks[p], counts[ks[p]]>>
  <2>1. DOMAIN ks = 1..n
    BY <1>2, <1>8
  <2>2. \A p \in DOMAIN ks : ks[p] \in E
    <3>1. \A p \in DOMAIN ks : ks[p] \in Range(ks)
      BY DEF Range
    <3> QED BY <1>8, <3>1
  <2> QED BY <1>9, <2>1, <2>2
<1>11. \A p \in 1..n : rows[p][1] = ks[p] /\ rows[p][2] = counts[ks[p]]
  BY <1>10
<1>12. rows = <<>> <=> E = {}
  <2>1. rows = <<>> <=> DOMAIN rows = {}
    BY <1>9
  <2>2. DOMAIN ks = {} <=> E = {}
    BY <1>8 DEF Range
  <2> QED BY <1>10, <2>1, <2>2
<1>13. \A k \in E : \E p \in DOMAIN rows : rows[p][1] = k
  BY <1>8, <1>10, <1>11 DEF Range
<1>14. ASSUME NEW p \in 1..n, NEW q \in 1..n, p < q
       PROVE  \/ rows[p][2] > rows[q][2]
              \/ rows[p][2] = rows[q][2] /\ rows[p][1] < rows[q][1]
  <2>1. p # q /\ ks[p] \in E /\ ks[q] \in E
    BY <1>1, <1>10, <1>14
  <2>2. ks[p] # ks[q]
    BY <1>8, <1>10, <2>1 DEF IsInjective
  <2>3. <<ks[q], ks[p]>> \notin MoreFrequent(counts)
    BY <1>8, <1>10, <1>14
  <2>4. <<ks[p], ks[q]>> \in MoreFrequent(counts)
    BY <1>7, <2>1, <2>2, <2>3
  <2> QED BY <1>7, <1>11, <2>1, <2>4
<1> QED BY <1>10, <1>11, <1>12, <1>13, <1>14 DEF E, n

-----------------------------------------------------------------------------
(* The rank is the least number of samples that is p percent of them.      *)
LEMMA RankFacts ==
  ASSUME NEW n \in Nat \ {0}, NEW p \in Percentiles
  PROVE  /\ Rank(p, n) \in 1..n
         /\ 100 * Rank(p, n) >= p * n
         /\ \A c \in Nat : 100 * c >= p * n => c >= Rank(p, n)
<1>1. CASE p = 50
  BY <1>1 DEF Rank
<1>2. CASE p = 90
  BY <1>2 DEF Rank
<1>3. CASE p = 95
  BY <1>3 DEF Rank
<1>4. CASE p = 99
  BY <1>4 DEF Rank
<1> QED BY <1>1, <1>2, <1>3, <1>4 DEF Percentiles

Within(s, v) == {i \in DOMAIN s : s[i] <= v}

(* Of the sorted samples, the k-th is not exceeded by k of them at least,  *)
(* and what is less than it, by fewer.                                     *)
LEMMA RankedSample ==
  ASSUME NEW s \in Seq(Nat), NEW k \in 1..Len(s)
  PROVE  LET v == InOrder(s)[k]
         IN  /\ v \in Range(s)
             /\ Cardinality(Within(s, v)) >= k
             /\ \A w \in Range(s) : w < v => Cardinality(Within(s, w)) < k
<1> DEFINE r == InOrder(s)
           n == Len(s)
           v == r[k]
<1>1. n \in Nat /\ DOMAIN s = 1..n /\ Nat \in SUBSET Int
  OBVIOUS
<1>2. r \in Rearranged(s) /\ \A i, j \in DOMAIN s : i < j => r[i] <= r[j]
  <2>1. s \in Seq(Int)
    BY <1>1, WiderSeq
  <2> QED BY <2>1, InOrderSorts
<1> HIDE DEF r
<1>3. PICK p \in Bijection(DOMAIN s, DOMAIN s) : r = [i \in DOMAIN s |-> s[p[i]]]
  BY <1>2 DEF Rearranged
<1>4. /\ \A i \in 1..n : p[i] \in 1..n /\ r[i] = s[p[i]] /\ r[i] \in Nat
      /\ \A i, j \in 1..n : p[i] = p[j] => i = j
      /\ \A j \in 1..n : \E i \in 1..n : p[i] = j
  <2> DEFINE q == [i \in DOMAIN s |-> s[p[i]]]
  <2>1. /\ \A i \in DOMAIN s : p[i] \in DOMAIN s /\ q[i] = s[p[i]]
        /\ \A i, j \in DOMAIN s : p[i] = p[j] => i = j
        /\ \A j \in DOMAIN s : \E i \in DOMAIN s : p[i] = j
    BY DEF Bijection, Injection, Surjection, IsInjective
  <2>2. \A i \in DOMAIN s : s[i] \in Nat
    OBVIOUS
  <2>3. r = q
    BY <1>3
  <2> HIDE DEF q
  <2> QED BY <1>1, <2>1, <2>2, <2>3
<1>5. v \in Range(s) /\ v \in Nat /\ k \in 1..n
  BY <1>1, <1>4 DEF Range
<1>6. \A i \in 1..n : IsFiniteSet(1..i) /\ Cardinality(1..i) = i
  BY <1>1, FS_Interval
<1>7. \A w : IsFiniteSet(Within(s, w)) /\ Cardinality(Within(s, w)) \in Nat
  <2>1. IsFiniteSet(1..n)
    BY <1>1, FS_Interval
  <2>2. \A w : Within(s, w) \subseteq 1..n
    BY <1>1 DEF Within
  <2> QED BY <2>1, <2>2, FS_Subset, FS_CardinalityType
<1>10. \A i, j \in 1..n : i < j => r[i] <= r[j]
  BY <1>1, <1>2
<1> HIDE DEF v, n
<1>11. \A i \in 1..k : i \in 1..n
  BY <1>1, <1>5
<1> DEFINE f == [i \in 1..k |-> p[i]]
<1>8. Cardinality(Within(s, v)) >= k
  <2>1. ASSUME NEW i \in 1..k PROVE p[i] \in Within(s, v)
    <3>1. i \in 1..n /\ (i = k \/ i < k)
      BY <1>1, <1>5
    <3>2. r[i] <= v
      BY <1>4, <1>5, <1>10, <3>1 DEF v
    <3> QED BY <1>1, <1>4, <3>1, <3>2 DEF Within
  <2>2. ASSUME NEW i \in 1..k, NEW j \in 1..k, p[i] = p[j] PROVE i = j
    BY <1>4, <1>11, <2>2
  <2>3. f \in Injection(1..k, Within(s, v))
    BY <2>1, <2>2 DEF Injection, IsInjective
  <2> HIDE DEF f
  <2>4. Cardinality(1..k) <= Cardinality(Within(s, v))
    BY <1>5, <1>6, <1>7, <2>3, FS_Injection
  <2> QED BY <1>5, <1>6, <1>7, <2>4
<1>9. ASSUME NEW w \in Range(s), w < v PROVE Cardinality(Within(s, w)) < k
  <2>0. w \in Nat
    BY DEF Range
  <2>1. ASSUME NEW j \in Within(s, w) PROVE \E i \in 1..(k - 1) : p[i] = j
    <3>1. j \in 1..n /\ s[j] <= w
      BY <1>1 DEF Within
    <3>2. PICK i \in 1..n : p[i] = j
      BY <1>4, <3>1
    <3>3. r[i] <= w /\ r[i] \in Nat
      BY <1>4, <3>1, <3>2
    <3>4. ~(k <= i)
      <4> SUFFICES ASSUME k <= i PROVE FALSE
        OBVIOUS
      <4>1. k = i \/ k < i
        BY <1>1, <1>5
      <4>2. r[k] <= r[i]
        BY <1>4, <1>5, <1>10, <4>1
      <4> QED BY <1>5, <1>9, <2>0, <3>3, <4>2 DEF v
    <3>5. i \in 1..(k - 1)
      BY <1>1, <1>5, <3>4
    <3> QED BY <3>2, <3>5
  <2> DEFINE g == [j \in Within(s, w) |-> CHOOSE i \in 1..(k - 1) : p[i] = j]
  <2>2. ASSUME NEW j \in Within(s, w) PROVE g[j] \in 1..(k - 1) /\ p[g[j]] = j
    BY <2>1
  <2>3. g \in [Within(s, w) -> 1..(k - 1)]
    BY <2>2
  <2> HIDE DEF g
  <2>4. g \in Injection(Within(s, w), 1..(k - 1))
    BY <2>2, <2>3 DEF Injection, IsInjective
  <2>5. IsFiniteSet(1..(k - 1)) /\ Cardinality(1..(k - 1)) = k - 1
    <3>1. k - 1 \in Nat
      BY <1>1, <1>5
    <3> QED BY <3>1, FS_Interval
  <2>6. Cardinality(Within(s, w)) <= k - 1
    BY <1>7, <2>4, <2>5, FS_Injection
  <2> QED BY <1>1, <1>5, <1>7, <2>6
<1> QED BY <1>5, <1>8, <1>9 DEF v, r

-----------------------------------------------------------------------------
(* What the report and the verdict are of: the aggregates as they stand    *)
(* when the loop is over, which no later step touches.                     *)
ResultOK ==
  result # None =>
    /\ Len(seen) = attempts
    /\ result.successes = successes
    /\ result.latency = Summarize(latency)
    /\ result.failureCounts \in CountReports(failures)
    /\ result.statusCounts \in CountReports(statuses)

FlagsOK ==
  /\ http \/ expect.status = None
  /\ http => seen \in Seq(HttpEvent)

VerdictOK ==
  /\ verdict # "pending" => result # None
  /\ verdict = "met" => ~StatusViolated(result) /\ ~RateViolated(result)

ReportInv == IInv /\ ResultOK /\ FlagsOK /\ VerdictOK

LEMMA ReportInvInit == Init => ReportInv
<1> SUFFICES ASSUME Init PROVE ReportInv
  OBVIOUS
<1>1. IInv
  BY IInvInit
<1>2. ResultOK /\ VerdictOK
  BY DEF Init, ResultOK, VerdictOK
<1>3. FlagsOK
  BY DEF Init, FlagsOK
<1> QED BY <1>1, <1>2, <1>3 DEF ReportInv

LEMMA ReportInvStep == ReportInv /\ [Next]_vars => ReportInv'
<1> SUFFICES ASSUME ReportInv, [Next]_vars PROVE ReportInv'
  OBVIOUS
<1>0. IInv'
  BY IInvStep DEF ReportInv
<1> SUFFICES ResultOK' /\ FlagsOK' /\ VerdictOK'
  BY <1>0 DEF ReportInv
<1>1. ASSUME NEW e \in Event, Attempt(e) PROVE ResultOK' /\ FlagsOK' /\ VerdictOK'
  <2>1. /\ result = None /\ result' = None /\ verdict' = verdict
        /\ http' = http /\ expect' = expect /\ seen' = Append(seen, e)
        /\ http => e \in HttpEvent
    BY <1>1 DEF Attempt
  <2>2. verdict = "pending"
    BY <2>1 DEF ReportInv, VerdictOK
  <2>3. FlagsOK'
    BY <2>1 DEF ReportInv, FlagsOK
  <2> QED BY <2>1, <2>2, <2>3 DEF ResultOK, VerdictOK
<1>2. CASE Report
  <2>1. /\ result = None
        /\ UNCHANGED <<http, attempts, expect, seen, successes, failures, statuses,
                       latency, ttfb, verdict>>
        /\ Len(seen) = attempts
    BY <1>2 DEF Report
  <2>2. PICK fs \in CountReports(failures), ss \in CountReports(statuses) :
          result' = [successes |-> successes, failures |-> Total(failures),
                     latency |-> Summarize(latency), ttfb |-> Summarize(ttfb),
                     failureCounts |-> fs, statusCounts |-> ss]
    BY <1>2 DEF Report
  <2>3. /\ result'.successes = successes /\ result'.latency = Summarize(latency)
        /\ result'.failureCounts = fs /\ result'.statusCounts = ss
    BY <2>2
  <2>4. /\ Summarize(latency)' = Summarize(latency)
        /\ CountReports(failures)' = CountReports(failures)
        /\ CountReports(statuses)' = CountReports(statuses)
    BY <2>1
  <2>5. ResultOK'
    BY <2>1, <2>3, <2>4 DEF ResultOK
  <2>6. verdict = "pending"
    BY <2>1 DEF ReportInv, VerdictOK
  <2> QED BY <2>1, <2>5, <2>6 DEF ReportInv, FlagsOK, VerdictOK
<1>3. CASE Judge
  <2>1. /\ result # None
        /\ verdict' = IF StatusViolated(result) \/ RateViolated(result)
                      THEN "violated" ELSE "met"
        /\ UNCHANGED <<http, attempts, expect, seen, successes, failures, statuses,
                       latency, ttfb, result>>
    BY <1>3 DEF Judge
  <2>2. ResultOK' /\ FlagsOK'
    BY <2>1 DEF ReportInv, ResultOK, FlagsOK
  <2>3. /\ StatusViolated(result)' <=> StatusViolated(result)
        /\ RateViolated(result)' <=> RateViolated(result)
    BY <2>1 DEF StatusViolated, RateViolated
  <2>4. VerdictOK'
    BY <2>1, <2>3 DEF VerdictOK
  <2> QED BY <2>2, <2>4
<1>4. CASE Done \/ UNCHANGED vars
  <2>1. UNCHANGED vars
    BY <1>4 DEF Done
  <2> QED BY <2>1 DEF vars, ReportInv, ResultOK, FlagsOK, VerdictOK, StatusViolated,
                      RateViolated
<1> QED BY <1>1, <1>2, <1>3, <1>4 DEF Next

LEMMA ReportInvAlways == Spec => []ReportInv
BY ReportInvInit, ReportInvStep, PTL DEF Spec

(* The rows of a report are in one order, whatever order the hash maps     *)
(* yielded their entries in.                                               *)
THEOREM RowsAlwaysCanonical == Spec => []RowsAreCanonical
<1>1. ReportInv => RowsAreCanonical
  <2> SUFFICES ASSUME ReportInv, result # None,
                      NEW rows \in {result.failureCounts, result.statusCounts},
                      NEW p \in DOMAIN rows, NEW q \in DOMAIN rows, p < q
               PROVE  \/ rows[p][2] > rows[q][2]
                      \/ rows[p][2] = rows[q][2] /\ rows[p][1] < rows[q][1]
    BY DEF RowsAreCanonical
  <2>1. rows \in CountReports(failures) \/ rows \in CountReports(statuses)
    BY DEF ReportInv, ResultOK
  <2>2. failures \in [Kind -> Nat] /\ statuses \in [Status -> Nat]
    BY DEF ReportInv, IInv, TypeOK
  <2>3. CASE rows \in CountReports(failures)
    BY <2>2, <2>3, KindAssumption, RowsFacts
  <2>4. CASE rows \in CountReports(statuses)
    BY <2>2, <2>4, StatusAssumption, RowsFacts
  <2> QED BY <2>1, <2>3, <2>4
<1> QED BY <1>1, ReportInvAlways, PTL

(* A reported percentile is the nearest-rank percentile of the samples,    *)
(* for any number of samples and any ties among them.                      *)
THEOREM PercentilesAlwaysNearestRank == Spec => []PercentilesAreNearestRank
<1>1. ReportInv => PercentilesAreNearestRank
  <2> SUFFICES ASSUME ReportInv, result # None, latency # <<>>, NEW p \in Percentiles
               PROVE  LET within(v) == Cardinality({i \in DOMAIN latency : latency[i] <= v})
                          good == {v \in Range(latency) :
                                     100 * within(v) >= p * Len(latency)}
                      IN /\ result.latency.percentile[p] \in good
                         /\ \A v \in good : result.latency.percentile[p] <= v
    BY DEF PercentilesAreNearestRank
  <2> DEFINE n == Len(latency)
             k == Rank(p, n)
             x == InOrder(latency)[k]
             of(v) == Cardinality(Within(latency, v))
  <2>1. latency \in Seq(Nat) /\ n \in Nat \ {0}
    <3>1. latency \in Seq(Ms)
      BY DEF ReportInv, IInv, TypeOK
    <3>2. latency \in Seq(Nat)
      BY <3>1, MsAssumption, WiderSeq
    <3> QED BY <3>2
  <2>2. k \in 1..n /\ 100 * k >= p * n /\ \A c \in Nat : 100 * c >= p * n => c >= k
    BY <2>1, RankFacts
  <2>3. result.latency.percentile[p] = x
    BY <2>1 DEF ReportInv, ResultOK, Summarize
  <2> HIDE DEF k
  <2>4. x \in Range(latency) /\ of(x) >= k /\ \A w \in Range(latency) : w < x => of(w) < k
    BY <2>1, <2>2, RankedSample
  <2>5. \A v : of(v) \in Nat
    <3>1. IsFiniteSet(1..n)
      BY <2>1, FS_Interval
    <3>2. \A v : Within(latency, v) \subseteq 1..n
      BY <2>1 DEF Within
    <3> QED BY <3>1, <3>2, FS_Subset, FS_CardinalityType
  <2>6. Range(latency) \subseteq Nat
    BY <2>1 DEF Range
  <2>7. p * n \in Nat
    BY <2>1 DEF Percentiles
  <2> HIDE DEF x, n, of
  <2>8. 100 * of(x) >= p * n
    BY <2>1, <2>2, <2>4, <2>5, <2>7
  <2>9. ASSUME NEW v \in Range(latency), 100 * of(v) >= p * n PROVE x <= v
    <3>1. of(v) >= k
      BY <2>2, <2>5, <2>9
    <3>2. ~(v < x)
      BY <2>1, <2>2, <2>4, <2>5, <3>1
    <3> QED BY <2>4, <2>6, <3>2
  <2> QED BY <2>3, <2>4, <2>8, <2>9 DEF of, n, Within
<1> QED BY <1>1, ReportInvAlways, PTL

(* Something was counted in a way that an attempt ended in.                *)
LEMMA CountedStatus ==
  ASSUME ReportInv, NEW i \in ResponseAt
  PROVE  seen[i].status \in Entries(statuses)
<1>1. seen \in Seq(Event) /\ i \in DOMAIN seen /\ seen[i].event \in {"ended", "stalled"}
  BY DEF ReportInv, IInv, TypeOK, ResponseAt
<1>2. seen[i] \in Event
  BY <1>1
<1>3. seen[i].status \in Status
  BY <1>1, <1>2
  DEF Event, HttpEvent, TransportEvent, Unreachable, Connected, Ended, Stalled, Broken
<1> DEFINE s == seen[i].status
<1>4. i \in AnsweredAt(s)
  BY <1>1 DEF AnsweredAt, Answered
<1>5. IsFiniteSet(AnsweredAt(s))
  <2>1. Len(seen) \in Nat /\ DOMAIN seen = 1..Len(seen)
    BY <1>1
  <2>2. IsFiniteSet(1..Len(seen)) /\ AnsweredAt(s) \subseteq 1..Len(seen)
    BY <2>1, FS_Interval DEF AnsweredAt
  <2> QED BY <2>2, FS_Subset
<1>6. Cardinality(AnsweredAt(s)) \in Nat \ {0}
  BY <1>4, <1>5, FS_EmptySet, FS_CardinalityType
<1>7. statuses[s] = Cardinality(AnsweredAt(s)) /\ DOMAIN statuses = Status
  BY <1>3 DEF ReportInv, IInv, TypeOK, CountsAreExact
<1> HIDE DEF s
<1>8. s \in Status /\ statuses[s] > 0
  BY <1>3, <1>6, <1>7 DEF s
<1> QED BY <1>7, <1>8 DEF Entries, s

LEMMA ResponseOfStatus ==
  ASSUME ReportInv, NEW s \in Entries(statuses)
  PROVE  ResponseAt # {}
<1>1. s \in Status /\ statuses[s] > 0 /\ statuses[s] = Cardinality(AnsweredAt(s))
  BY DEF Entries, ReportInv, IInv, TypeOK, CountsAreExact
<1>2. AnsweredAt(s) # {}
  BY <1>1, FS_EmptySet
<1>3. AnsweredAt(s) \subseteq ResponseAt
  BY DEF AnsweredAt, ResponseAt, Answered
<1> QED BY <1>2, <1>3

(* A destination that meets the flags did what they say, with any status   *)
(* set and any rate.                                                       *)
THEOREM ExpectationAlwaysMeansIt == Spec => []ExpectationMeansIt
<1>1. ReportInv => ExpectationMeansIt
  <2> SUFFICES ASSUME ReportInv, verdict = "met" PROVE ExpectationMeansIt
    BY DEF ExpectationMeansIt
  <2>1. /\ result # None /\ ~StatusViolated(result) /\ ~RateViolated(result)
    BY DEF ReportInv, VerdictOK
  <2>2. /\ result.successes = Cardinality(CompletedAt)
        /\ Len(seen) = attempts
        /\ result.statusCounts \in CountReports(statuses)
        /\ statuses \in [Status -> Nat]
    BY <2>1 DEF ReportInv, ResultOK, IInv, CountsAreExact, TypeOK
  <2>3. /\ attempts \in Nat /\ DOMAIN seen = 1..attempts
        /\ IsFiniteSet(DOMAIN seen) /\ Cardinality(DOMAIN seen) = attempts
    <3>1. attempts \in Nat /\ seen \in Seq(Event)
      BY MaxAttemptsAssumption DEF ReportInv, IInv, TypeOK
    <3>2. DOMAIN seen = 1..attempts
      BY <2>2, <3>1
    <3> QED BY <3>1, <3>2, FS_Interval
  <2>4. /\ CompletedAt \subseteq DOMAIN seen
        /\ Cardinality(CompletedAt) \in Nat
        /\ Cardinality(CompletedAt) <= attempts
        /\ Cardinality(CompletedAt) = attempts => CompletedAt = DOMAIN seen
    <3>1. CompletedAt \subseteq DOMAIN seen
      BY DEF CompletedAt
    <3> QED BY <2>3, <3>1, FS_Subset, FS_CardinalityType
  <2>5. ASSUME expect.rate # None
        PROVE  /\ attempts > 0
               /\ Cardinality(CompletedAt) * expect.rate[2] >= expect.rate[1] * attempts
    <3>1. /\ attempts # 0
          /\ ~(Cardinality(CompletedAt) * expect.rate[2] < expect.rate[1] * attempts)
      BY <2>1, <2>2, <2>5 DEF RateViolated
    <3>2. expect \in Expectations
      BY DEF ReportInv, IInv, TypeOK
    <3>3. expect.rate[1] \in Nat /\ expect.rate[2] \in Nat
      BY <2>5, <3>2, ExpectationsAssumption
    <3>4. /\ Cardinality(CompletedAt) * expect.rate[2] \in Nat
          /\ expect.rate[1] * attempts \in Nat
      BY <2>3, <2>4, <3>3
    <3> QED BY <2>3, <3>1, <3>4
  <2>6. ASSUME expect.status # None
        PROVE  /\ ResponseAt # {}
               /\ \A i \in ResponseAt : seen[i].status \in expect.status
    <3> DEFINE rows == result.statusCounts
    <3>1. rows # <<>> /\ \A p \in DOMAIN rows : rows[p][1] \in expect.status
      BY <2>1, <2>6 DEF StatusViolated
    <3> HIDE DEF rows
    <3>2. /\ \A p \in DOMAIN rows : rows[p][1] \in Entries(statuses)
          /\ rows = <<>> <=> Entries(statuses) = {}
      BY <2>2, StatusAssumption, RowsFacts DEF rows
    <3>3. \A k \in Entries(statuses) : \E p \in DOMAIN rows : rows[p][1] = k
      BY <2>2, StatusAssumption, RowsFacts DEF rows
    <3>4. Entries(statuses) # {}
      BY <3>1, <3>2
    <3>5. ResponseAt # {}
      BY <3>4, ResponseOfStatus
    <3>6. ASSUME NEW i \in ResponseAt PROVE seen[i].status \in expect.status
      <4>1. seen[i].status \in Entries(statuses)
        BY CountedStatus
      <4>2. \E p \in DOMAIN rows : rows[p][1] = seen[i].status
        BY <3>3, <4>1, Zenon
      <4> QED BY <3>1, <4>2
    <3> QED BY <3>5, <3>6
  <2>7. ASSUME expect.status # None, expect.rate = <<1, 1>>, NEW i \in DOMAIN seen
        PROVE  Completed(seen[i]) /\ seen[i].status \in expect.status
    <3>1. CompletedAt = DOMAIN seen
      <4>1. expect.rate # None /\ expect.rate[1] = 1 /\ expect.rate[2] = 1
        BY <2>7, NoneAssumption
      <4> QED BY <2>3, <2>4, <2>5, <4>1
    <3>2. Completed(seen[i])
      BY <3>1, <2>7 DEF CompletedAt
    <3>3. seen[i] \in HttpEvent
      BY <2>7 DEF ReportInv, FlagsOK
    <3>4. seen[i].event = "ended"
      BY <3>2, <3>3 DEF Completed, HttpEvent, Unreachable, Ended, Stalled, Broken
    <3>5. i \in ResponseAt
      BY <2>7, <3>4 DEF ResponseAt
    <3> QED BY <2>6, <2>7, <3>2, <3>5
  <2> QED BY <2>5, <2>6, <2>7 DEF ExpectationMeansIt
<1> QED BY <1>1, ReportInvAlways, PTL

=============================================================================
