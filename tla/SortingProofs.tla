---------------------------- MODULE SortingProofs ----------------------------
(***************************************************************************)
(* What the proofs of several modules need of sequences: what the sorts    *)
(* and filters of module Sorting return, and induction in the one form     *)
(* that the provers can instantiate, over a set of numbers.                *)
(***************************************************************************)
EXTENDS Sorting, FiniteSetTheorems, TLAPS

(* A sequence over a set is one over any larger set.                       *)
LEMMA WiderSeq ==
  ASSUME NEW S, NEW T, S \subseteq T, NEW s \in Seq(S)
  PROVE  s \in Seq(T)
<1>1. Len(s) \in Nat /\ s \in [1..Len(s) -> S]
  OBVIOUS
<1>2. s \in [1..Len(s) -> T]
  BY <1>1
<1> QED BY <1>1, <1>2

(* A sequence without repetition is as long as its range is large.         *)
LEMMA InjectiveLength ==
  ASSUME NEW X, IsFiniteSet(X), NEW s \in Seq(X), IsInjective(s)
  PROVE  /\ IsFiniteSet(Range(s))
         /\ Cardinality(Range(s)) = Len(s)
         /\ Len(s) \in 0..Cardinality(X)
<1>1. /\ Len(s) \in Nat /\ DOMAIN s = 1..Len(s)
      /\ s \in [1..Len(s) -> X]
  OBVIOUS
<1>2. Range(s) \subseteq X
  BY <1>1 DEF Range
<1>3. IsFiniteSet(1..Len(s)) /\ Cardinality(1..Len(s)) = Len(s)
  BY <1>1, FS_Interval
<1>4. s \in Injection(1..Len(s), Range(s)) /\ s \in Surjection(1..Len(s), Range(s))
  BY <1>1 DEF Injection, Surjection, IsInjective, Range
<1>5. IsFiniteSet(Range(s)) /\ Cardinality(1..Len(s)) = Cardinality(Range(s))
  BY <1>3, <1>4, FS_Surjection
<1>6. Cardinality(Range(s)) <= Cardinality(X) /\ Cardinality(X) \in Nat
  BY <1>2, FS_Subset, FS_CardinalityType
<1> QED BY <1>1, <1>3, <1>5, <1>6

(* What Tail and Append do to a sequence without repetition.               *)
LEMMA TailOfInjective ==
  ASSUME NEW S, NEW s \in Seq(S), IsInjective(s), s # <<>>
  PROVE  /\ Tail(s) \in Seq(S)
         /\ Head(s) \in S
         /\ IsInjective(Tail(s))
         /\ Head(s) \in Range(s)
         /\ Range(Tail(s)) = Range(s) \ {Head(s)}
<1>1. /\ Len(s) \in Nat \ {0}
      /\ DOMAIN s = 1..Len(s)
      /\ Head(s) = s[1]
      /\ Head(s) \in S
      /\ Tail(s) \in Seq(S)
      /\ DOMAIN Tail(s) = 1..(Len(s) - 1)
      /\ \A k \in 1..(Len(s) - 1) : Tail(s)[k] = s[k + 1]
  OBVIOUS
<1>2. IsInjective(Tail(s))
  BY <1>1 DEF IsInjective
<1>3. Range(Tail(s)) \subseteq Range(s) \ {Head(s)}
  BY <1>1 DEF IsInjective, Range
<1>4. ASSUME NEW x \in Range(s), x # Head(s)
      PROVE  x \in Range(Tail(s))
  <2>1. PICK k \in 1..Len(s) : s[k] = x
    BY <1>1, <1>4 DEF Range
  <2>2. k # 1 /\ k - 1 \in 1..(Len(s) - 1)
    BY <1>1, <1>4, <2>1
  <2>3. Tail(s)[k - 1] = x
    BY <1>1, <2>1, <2>2
  <2> QED BY <1>1, <2>2, <2>3 DEF Range
<1>5. Head(s) \in Range(s)
  BY <1>1 DEF Range
<1> QED BY <1>1, <1>2, <1>3, <1>4, <1>5

LEMMA AppendToInjective ==
  ASSUME NEW S, NEW s \in Seq(S), NEW x \in S, IsInjective(s), x \notin Range(s)
  PROVE  /\ Append(s, x) \in Seq(S)
         /\ IsInjective(Append(s, x))
         /\ Range(Append(s, x)) = Range(s) \cup {x}
<1>1. /\ Len(s) \in Nat
      /\ DOMAIN s = 1..Len(s)
      /\ Append(s, x) \in Seq(S)
      /\ DOMAIN Append(s, x) = 1..(Len(s) + 1)
      /\ \A k \in 1..Len(s) : Append(s, x)[k] = s[k]
      /\ Append(s, x)[Len(s) + 1] = x
  OBVIOUS
<1>2. IsInjective(Append(s, x))
  BY <1>1 DEF IsInjective, Range
<1>3. Range(Append(s, x)) = Range(s) \cup {x}
  BY <1>1 DEF Range
<1> QED BY <1>1, <1>2, <1>3

LEMMA EmptySequence ==
  /\ IsInjective(<<>>)
  /\ Range(<<>>) = {}
BY DEF IsInjective, Range

-----------------------------------------------------------------------------
(* Induction, for a set of numbers: the least number that is missing from  *)
(* it would have a predecessor.                                            *)
LEMMA LeastNumber ==
  ASSUME NEW S \in SUBSET Nat, S # {}
  PROVE  \E m \in S : \A k \in S : m <= k
<1> DEFINE T == {1..m : m \in S}
<1>1. T \subseteq FiniteSubsetsOf(Nat) /\ T # {}
  <2>1. ASSUME NEW m \in Nat PROVE 1..m \in FiniteSubsetsOf(Nat)
    <3>1. IsFiniteSet(1..m) /\ 1..m \in SUBSET Nat
      BY FS_Interval
    <3> QED BY <3>1 DEF FiniteSubsetsOf
  <2> QED BY <2>1
<1>2. \E x \in T : \A y \in T : ~(<<y, x>> \in StrictSubsetOrdering(Nat))
  BY <1>1, WFMin, FS_StrictSubsetOrderingWellFounded
<1>3. PICK m \in S : \A y \in T : ~(<<y, 1..m>> \in StrictSubsetOrdering(Nat))
  BY <1>2
<1>4. ASSUME NEW k \in S, k < m PROVE FALSE
  <2>1. 1..k \in T /\ 1..k \in SUBSET Nat /\ 1..m \in SUBSET Nat
    OBVIOUS
  <2>2. 1..k \subseteq 1..m /\ m \in 1..m /\ m \notin 1..k
    BY <1>4
  <2>3. <<1..k, 1..m>> \in StrictSubsetOrdering(Nat)
    BY <2>1, <2>2, Zenon DEF StrictSubsetOrdering
  <2> QED BY <1>3, <2>1, <2>3
<1> QED BY <1>4

LEMMA SetInduction ==
  ASSUME NEW H, 0 \in H, \A m \in Nat : m \in H => m + 1 \in H
  PROVE  \A m \in Nat : m \in H
<1> SUFFICES ASSUME Nat \ H # {} PROVE FALSE
  OBVIOUS
<1>1. PICK m \in Nat \ H : \A k \in Nat \ H : m <= k
  BY LeastNumber
<1>2. m # 0 /\ m - 1 \in Nat /\ m - 1 \notin Nat \ H
  BY <1>1
<1>3. (m - 1) + 1 \in H
  BY <1>2
<1> QED BY <1>1, <1>3

-----------------------------------------------------------------------------
(* The sorts of module Sorting.  The sets and sequences they are given are *)
(* finite, so no induction is needed: a sorted enumeration is the inverse  *)
(* of the rank of an element in its set.                                   *)
Down(S, R, x) == {y \in S : y = x \/ <<y, x>> \in R}

IsStrictOrder(S, R) ==
  /\ \A x \in S : <<x, x>> \notin R
  /\ \A x, y, z \in S : <<x, y>> \in R /\ <<y, z>> \in R => <<x, z>> \in R
  /\ \A x, y \in S : x # y => <<x, y>> \in R \/ <<y, x>> \in R

(* An element's rank in a finite set: it grows with the element.           *)
LEMMA RankGrows ==
  ASSUME NEW S, IsFiniteSet(S), NEW R, IsStrictOrder(S, R), NEW x \in S, NEW y \in S
  PROVE  /\ Cardinality(Down(S, R, x)) \in 1..Cardinality(S)
         /\ <<x, y>> \in R =>
              Cardinality(Down(S, R, x)) < Cardinality(Down(S, R, y))
<1>1. /\ IsFiniteSet(Down(S, R, x)) /\ Cardinality(Down(S, R, x)) <= Cardinality(S)
      /\ IsFiniteSet(Down(S, R, y))
  <2>1. Down(S, R, x) \subseteq S /\ Down(S, R, y) \subseteq S
    BY DEF Down
  <2> QED BY <2>1, FS_Subset
<1>2. Cardinality(Down(S, R, x)) \in Nat /\ Cardinality(S) \in Nat
  BY <1>1, FS_CardinalityType
<1>3. x \in Down(S, R, x) /\ y \in Down(S, R, y)
  BY DEF Down
<1>4. Cardinality(Down(S, R, x)) # 0
  BY <1>1, <1>3, FS_EmptySet
<1>5. ASSUME <<x, y>> \in R
      PROVE  Cardinality(Down(S, R, x)) < Cardinality(Down(S, R, y))
  <2>1. ASSUME NEW z \in S, z = x \/ <<z, x>> \in R PROVE <<z, y>> \in R
    BY <1>5, <2>1 DEF IsStrictOrder
  <2>2. Down(S, R, x) \subseteq Down(S, R, y)
    BY <2>1 DEF Down
  <2>3. y \notin Down(S, R, x)
    BY <1>5 DEF Down, IsStrictOrder
  <2>4. Down(S, R, x) # Down(S, R, y)
    BY <1>3, <2>3
  <2>5. /\ Cardinality(Down(S, R, x)) <= Cardinality(Down(S, R, y))
        /\ Cardinality(Down(S, R, x)) = Cardinality(Down(S, R, y)) =>
             Down(S, R, x) = Down(S, R, y)
    BY <1>1, <2>2, FS_Subset
  <2>6. Cardinality(Down(S, R, y)) \in Nat
    BY <1>1, FS_CardinalityType
  <2> QED BY <1>2, <2>4, <2>5, <2>6
<1> QED BY <1>1, <1>2, <1>4, <1>5

(* A finite set with a strict order has an enumeration in that order: send *)
(* each element to its rank, which is a bijection, and invert.             *)
LEMMA EnumerationExists ==
  ASSUME NEW S, IsFiniteSet(S), NEW R, IsStrictOrder(S, R)
  PROVE  \E a \in [1..Cardinality(S) -> S] :
           \A i, j \in 1..Cardinality(S) : i < j => <<a[i], a[j]>> \in R
<1> DEFINE n == Cardinality(S)
           rank == [x \in S |-> Cardinality(Down(S, R, x))]
<1>1. n \in Nat /\ IsFiniteSet(1..n) /\ Cardinality(1..n) = n
  BY FS_CardinalityType, FS_Interval
<1>2. ASSUME NEW x \in S, NEW y \in S
      PROVE  rank[x] \in 1..n /\ (<<x, y>> \in R => rank[x] < rank[y])
  BY RankGrows
<1> HIDE DEF rank
<1>3. rank \in [S -> 1..n]
  <2>1. rank = [x \in S |-> rank[x]]
    BY DEF rank
  <2> QED BY <1>2, <2>1
<1>4. ASSUME NEW x \in S, NEW y \in S, x # y PROVE rank[x] # rank[y]
  <2>1. <<x, y>> \in R \/ <<y, x>> \in R
    BY <1>4 DEF IsStrictOrder
  <2>2. rank[x] \in 1..n /\ rank[y] \in 1..n
    BY <1>2
  <2> QED BY <1>1, <1>2, <2>1, <2>2
<1>5. rank \in Injection(S, 1..n)
  BY <1>3, <1>4 DEF Injection, IsInjective
<1>6. rank \in Surjection(S, 1..n)
  BY <1>1, <1>5, FS_Injection
<1> DEFINE a == [i \in 1..n |-> CHOOSE x \in S : rank[x] = i]
<1>7. ASSUME NEW i \in 1..n PROVE a[i] \in S /\ rank[a[i]] = i
  <2>1. \E x \in S : rank[x] = i
    BY <1>6 DEF Surjection
  <2> QED BY <2>1
<1>8. a \in [1..n -> S]
  BY <1>7
<1> HIDE DEF a
<1>9. ASSUME NEW i \in 1..n, NEW j \in 1..n, i < j PROVE <<a[i], a[j]>> \in R
  <2>1. a[i] \in S /\ a[j] \in S /\ rank[a[i]] = i /\ rank[a[j]] = j
    BY <1>7
  <2>2. a[i] # a[j]
    BY <1>9, <2>1
  <2>3. <<a[j], a[i]>> \in R => j < i
    BY <1>2, <2>1
  <2>4. <<a[j], a[i]>> \notin R
    BY <1>1, <1>9, <2>3
  <2> QED BY <2>1, <2>2, <2>4 DEF IsStrictOrder
<1> QED BY <1>8, <1>9

(* A set in an order: every element, once.                                 *)
LEMMA OrderedFacts ==
  ASSUME NEW S, IsFiniteSet(S), NEW R, IsStrictOrder(S, R)
  PROVE  /\ Ordered(S, R) \in [1..Cardinality(S) -> S]
         /\ \A i, j \in 1..Cardinality(S) : i < j => <<Ordered(S, R)[i], Ordered(S, R)[j]>> \in R
         /\ Range(Ordered(S, R)) = S
<1> DEFINE a == Ordered(S, R)
           n == Cardinality(S)
<1>1. n \in Nat
  BY FS_CardinalityType
<1>2. a \in [1..n -> S] /\ \A i, j \in DOMAIN a : i < j => <<a[i], a[j]>> \in R
  <2>1. PICK s \in [1..n -> S] : \A i, j \in 1..n : i < j => <<s[i], s[j]>> \in R
    BY EnumerationExists
  <2>2. \A i, j \in DOMAIN s : i < j => <<s[i], s[j]>> \in R
    BY <2>1
  <2>3. \E r \in [1..n -> S] : \A i, j \in DOMAIN r : i < j => <<r[i], r[j]>> \in R
    BY <2>2
  <2> QED BY <2>3 DEF Ordered
<1> HIDE DEF a
<1>3. \A i, j \in 1..n : i < j => <<a[i], a[j]>> \in R
  BY <1>2
<1>4. a \in Surjection(1..n, S)
  <2>1. \A i, j \in 1..n : a[i] = a[j] => i = j
    <3>1. SUFFICES ASSUME NEW i \in 1..n, NEW j \in 1..n, a[i] = a[j], i < j PROVE FALSE
      BY <1>1
    <3>2. <<a[i], a[j]>> \in R /\ a[i] \in S
      BY <1>2, <1>3, <3>1
    <3> QED BY <3>1, <3>2 DEF IsStrictOrder
  <2>2. a \in Injection(1..n, S)
    BY <1>2, <2>1 DEF Injection, IsInjective
  <2>3. Cardinality(1..n) = n
    BY <1>1, FS_Interval
  <2> QED BY <2>2, <2>3, FS_Injection
<1>5. Range(a) = S
  BY <1>2, <1>4 DEF Surjection, Range
<1> QED BY <1>2, <1>3, <1>5 DEF a

LEMMA AscendingExists ==
  ASSUME NEW S \in SUBSET Int, IsFiniteSet(S)
  PROVE  \E a \in [1..Cardinality(S) -> S] :
           \A i, j \in 1..Cardinality(S) : i < j => a[i] < a[j]
<1> DEFINE R == {e \in S \X S : e[1] < e[2]}
<1>1. \A x, y \in S : <<x, y>> \in R <=> x < y
  OBVIOUS
<1> HIDE DEF R
<1>2. IsStrictOrder(S, R)
  BY <1>1 DEF IsStrictOrder
<1>3. PICK a \in [1..Cardinality(S) -> S] :
        \A i, j \in 1..Cardinality(S) : i < j => <<a[i], a[j]>> \in R
  BY <1>2, EnumerationExists
<1> QED BY <1>1, <1>3

UpTo(S, x) == {y \in S : y <= x}

(* It has no other: the place of a number is its rank.                     *)
LEMMA AscendingPlace ==
  ASSUME NEW S \in SUBSET Int, IsFiniteSet(S),
         NEW m \in Nat, NEW a \in [1..m -> S],
         \A i, j \in 1..m : i < j => a[i] < a[j],
         \A x \in S : \E i \in 1..m : a[i] = x,
         NEW k \in 1..m
  PROVE  k = Cardinality(UpTo(S, a[k]))
<1>0. \A i \in 1..k : i \in 1..m
  OBVIOUS
<1>1. \A i \in 1..k : a[i] \in UpTo(S, a[k])
  <2> SUFFICES ASSUME NEW i \in 1..k PROVE a[i] \in UpTo(S, a[k])
    OBVIOUS
  <2>1. i = k \/ i < k
    OBVIOUS
  <2>2. a[i] \in Int /\ a[k] \in Int /\ a[i] \in S
    BY <1>0
  <2>3. a[i] <= a[k]
    BY <1>0, <2>1, <2>2
  <2> QED BY <2>2, <2>3 DEF UpTo
<1>2. \A x \in UpTo(S, a[k]) : \E i \in 1..k : a[i] = x
  <2> SUFFICES ASSUME NEW x \in S, x <= a[k] PROVE \E i \in 1..k : a[i] = x
    BY DEF UpTo
  <2>1. PICK i \in 1..m : a[i] = x
    OBVIOUS
  <2>2. ~(k < i)
    <3> SUFFICES ASSUME k < i PROVE FALSE
      OBVIOUS
    <3>1. a[k] < a[i] /\ a[k] \in Int /\ a[i] \in Int
      OBVIOUS
    <3> QED BY <2>1, <3>1
  <2> QED BY <2>1, <2>2
<1> DEFINE b == [i \in 1..k |-> a[i]]
<1>3. b \in Surjection(1..k, UpTo(S, a[k]))
  BY <1>1, <1>2 DEF Surjection
<1>4. ASSUME NEW i \in 1..k, NEW j \in 1..k, b[i] = b[j] PROVE i = j
  <2>1. i < j \/ j < i \/ i = j
    OBVIOUS
  <2>2. i \in 1..m /\ j \in 1..m /\ a[i] = a[j]
    BY <1>0, <1>4
  <2>3. a[i] \in Int /\ a[j] \in Int
    BY <2>2
  <2> QED BY <2>1, <2>2, <2>3
<1>5. b \in Injection(1..k, UpTo(S, a[k]))
  BY <1>1, <1>4 DEF Injection, IsInjective
<1>6. Cardinality(1..k) = k /\ IsFiniteSet(1..k)
  BY FS_Interval
<1> HIDE DEF b
<1> QED BY <1>3, <1>5, <1>6, FS_Surjection

LEMMA AscendingUnique ==
  ASSUME NEW S \in SUBSET Int, IsFiniteSet(S),
         NEW m \in Nat, NEW a \in [1..m -> S],
         \A i, j \in 1..m : i < j => a[i] < a[j],
         \A x \in S : \E i \in 1..m : a[i] = x,
         NEW l \in Nat, NEW b \in [1..l -> S],
         \A i, j \in 1..l : i < j => b[i] < b[j],
         \A x \in S : \E i \in 1..l : b[i] = x
  PROVE  a = b
<1>1. ASSUME NEW i \in 1..m PROVE i \in 1..l /\ b[i] = a[i]
  <2>1. PICK k \in 1..l : b[k] = a[i]
    OBVIOUS
  <2>2. i = Cardinality(UpTo(S, a[i]))
    BY AscendingPlace
  <2>3. k = Cardinality(UpTo(S, b[k]))
    BY AscendingPlace
  <2> QED BY <2>1, <2>2, <2>3
<1>2. ASSUME NEW i \in 1..l PROVE i \in 1..m
  <2>1. PICK k \in 1..m : a[k] = b[i]
    OBVIOUS
  <2>2. i = Cardinality(UpTo(S, b[i]))
    BY AscendingPlace
  <2>3. k = Cardinality(UpTo(S, a[k]))
    BY AscendingPlace
  <2> QED BY <2>1, <2>2, <2>3
<1>3. 1..m = 1..l
  BY <1>1, <1>2
<1> QED BY <1>1, <1>3

LEMMA AscendingFacts ==
  ASSUME NEW S \in SUBSET Int, IsFiniteSet(S)
  PROVE  /\ Ascending(S) \in [1..Cardinality(S) -> S]
         /\ Ascending(S) \in Seq(S)
         /\ IsAscending(Ascending(S))
         /\ IsInjective(Ascending(S))
         /\ Range(Ascending(S)) = S
<1> DEFINE a == Ascending(S)
           n == Cardinality(S)
<1>1. a \in [1..n -> S] /\ IsAscending(a)
  BY AscendingExists DEF Ascending, IsAscending
<1>2. n \in Nat /\ IsFiniteSet(1..n) /\ Cardinality(1..n) = n
  BY FS_CardinalityType, FS_Interval
<1> HIDE DEF a
<1>3. IsInjective(a)
  <2> SUFFICES ASSUME NEW i \in 1..n, NEW j \in 1..n, a[i] = a[j] PROVE i = j
    BY <1>1 DEF IsInjective
  <2>1. i < j \/ j < i \/ i = j
    BY <1>2
  <2>2. a[i] \in Int
    BY <1>1
  <2> QED BY <1>1, <2>1, <2>2 DEF IsAscending
<1>4. a \in Surjection(1..n, S)
  BY <1>1, <1>2, <1>3, FS_Injection DEF Injection
<1>5. Range(a) = S
  BY <1>1, <1>4 DEF Range, Surjection
<1>6. a \in Seq(S)
  BY <1>1, <1>2
<1> QED BY <1>1, <1>3, <1>5, <1>6 DEF a

(* Two ascending sequences of the same numbers are one.                    *)
LEMMA AscendingIsOne ==
  ASSUME NEW a \in Seq(Int), NEW b \in Seq(Int),
         IsAscending(a), IsAscending(b), Range(a) = Range(b),
         IsFiniteSet(Range(a))
  PROVE  a = b
<1> DEFINE S == Range(a)
<1>1. /\ Len(a) \in Nat /\ DOMAIN a = 1..Len(a)
      /\ Len(b) \in Nat /\ DOMAIN b = 1..Len(b)
  OBVIOUS
<1>2. S \in SUBSET Int
  BY <1>1 DEF Range
<1>3. a \in [1..Len(a) -> S] /\ (\A x \in S : \E i \in 1..Len(a) : a[i] = x)
  BY <1>1 DEF Range
<1>4. b \in [1..Len(b) -> Range(b)] /\ (\A x \in Range(b) : \E i \in 1..Len(b) : b[i] = x)
  BY <1>1 DEF Range
<1>5. b \in [1..Len(b) -> S] /\ (\A x \in S : \E i \in 1..Len(b) : b[i] = x)
  BY <1>4
<1>6. \A i, j \in 1..Len(a) : i < j => a[i] < a[j]
  BY <1>1 DEF IsAscending
<1>7. \A i, j \in 1..Len(b) : i < j => b[i] < b[j]
  BY <1>1 DEF IsAscending
<1>8. IsFiniteSet(S)
  OBVIOUS
<1> HIDE DEF S
<1> QED BY ONLY <1>1, <1>2, <1>3, <1>5, <1>6, <1>7, <1>8, AscendingUnique

(* So what is ascending and has the elements of a set is its enumeration.  *)
LEMMA AscendingIsIt ==
  ASSUME NEW S \in SUBSET Int, IsFiniteSet(S),
         NEW a \in Seq(Int), IsAscending(a), Range(a) = S
  PROVE  a = Ascending(S)
<1> DEFINE b == Ascending(S)
<1>1. b \in Seq(S) /\ IsAscending(b) /\ Range(b) = S
  BY AscendingFacts
<1>2. b \in Seq(Int)
  BY <1>1, WiderSeq
<1> HIDE DEF b
<1>3. a = b
  BY <1>1, <1>2, AscendingIsOne
<1> QED BY <1>3 DEF b

(* What a filter keeps, and that it keeps the order.                       *)
LEMMA ThoseFacts ==
  ASSUME NEW X, NEW s \in Seq(X), NEW T
  PROVE  /\ Those(s, T) \in Seq(X)
         /\ Range(Those(s, T)) = Range(s) \cap T
         /\ IsInjective(s) => IsInjective(Those(s, T))
         /\ (X \subseteq Int /\ IsAscending(s)) => IsAscending(Those(s, T))
<1> DEFINE I == {i \in DOMAIN s : s[i] \in T}
           at == Ascending(I)
           u == Those(s, T)
<1>1. /\ DOMAIN s = 1..Len(s) /\ Len(s) \in Nat
      /\ \A i \in DOMAIN s : s[i] \in X /\ i \in Int
  OBVIOUS
<1>2. IsFiniteSet(I) /\ I \in SUBSET Int
  <2>1. IsFiniteSet(1..Len(s)) /\ I \subseteq 1..Len(s)
    BY <1>1, FS_Interval
  <2> QED BY <1>1, <2>1, FS_Subset
<1>3. /\ at \in [1..Cardinality(I) -> I] /\ IsAscending(at) /\ IsInjective(at)
      /\ Range(at) = I
  BY <1>2, AscendingFacts
<1>4. u = [k \in DOMAIN at |-> s[at[k]]]
  BY DEF Those
<1>5. Cardinality(I) \in Nat
  BY <1>2, FS_CardinalityType
<1>6. DOMAIN at = 1..Cardinality(I) /\ \A k \in DOMAIN at : at[k] \in I
  BY <1>3
<1> HIDE DEF at, u
<1>7. u \in Seq(X)
  <2>1. \A k \in 1..Cardinality(I) : s[at[k]] \in X
    BY <1>1, <1>6
  <2> HIDE DEF I
  <2>2. u \in [1..Cardinality(I) -> X]
    BY <1>4, <1>6, <2>1
  <2> QED BY <1>5, <2>2
<1>8. Range(u) = Range(s) \cap T
  <2>1. Range(u) \subseteq Range(s) \cap T
    BY <1>4, <1>6 DEF Range
  <2>2. ASSUME NEW x \in Range(s), x \in T PROVE x \in Range(u)
    <3>1. PICK i \in DOMAIN s : s[i] = x
      BY DEF Range
    <3>2. i \in Range(at)
      BY <1>3, <2>2, <3>1
    <3>3. PICK k \in DOMAIN at : at[k] = i
      BY <3>2 DEF Range
    <3> QED BY <1>4, <3>1, <3>3 DEF Range
  <2> QED BY <2>1, <2>2
<1>9. IsInjective(s) => IsInjective(u)
  <2> SUFFICES ASSUME IsInjective(s), NEW k \in DOMAIN at, NEW l \in DOMAIN at,
                      s[at[k]] = s[at[l]]
               PROVE  k = l
    BY <1>4 DEF IsInjective
  <2>1. at[k] = at[l]
    BY <1>6 DEF IsInjective
  <2> QED BY <1>3, <2>1 DEF IsInjective
<1>10. (X \subseteq Int /\ IsAscending(s)) => IsAscending(u)
  BY <1>3, <1>4, <1>6 DEF IsAscending
<1> QED BY <1>7, <1>8, <1>9, <1>10 DEF u

(* A weak order leaves some elements unordered, which is no difference to  *)
(* it: the keys of a sort are such an order.                               *)
IsWeakOrder(S, R) ==
  /\ \A x, y \in S : <<x, y>> \in R => <<y, x>> \notin R
  /\ \A x, y, z \in S : <<x, z>> \in R => <<x, y>> \in R \/ <<y, z>> \in R

(* A sequence can be sorted stably: that is a strict order of its          *)
(* positions.                                                              *)
LEMMA StableOrderExists ==
  ASSUME NEW X, NEW s \in Seq(X), NEW R, IsWeakOrder(Range(s), R)
  PROVE  \E p \in Bijection(DOMAIN s, DOMAIN s) :
           \A i, j \in DOMAIN s : i < j =>
             \/ <<s[p[i]], s[p[j]]>> \in R
             \/ <<s[p[j]], s[p[i]]>> \notin R /\ p[i] < p[j]
<1> DEFINE m == Len(s)
           After(i, j) == \/ <<s[i], s[j]>> \in R
                          \/ <<s[j], s[i]>> \notin R /\ i < j
           P == {e \in (1..m) \X (1..m) : After(e[1], e[2])}
<1>1. m \in Nat /\ DOMAIN s = 1..m /\ \A i \in 1..m : s[i] \in Range(s)
  BY DEF Range
<1>2. IsFiniteSet(1..m) /\ Cardinality(1..m) = m
  BY <1>1, FS_Interval
<1>3. \A i, j \in 1..m : <<i, j>> \in P <=> After(i, j)
  OBVIOUS
<1> HIDE DEF m, P
<1>4. ASSUME NEW i \in 1..m, NEW j \in 1..m, NEW k \in 1..m, After(i, j), After(j, k)
      PROVE  After(i, k)
  <2> DEFINE x == s[i]
             y == s[j]
             z == s[k]
  <2>1. x \in Range(s) /\ y \in Range(s) /\ z \in Range(s)
    BY <1>1
  <2>2. (i < j /\ j < k) => i < k
    BY <1>1
  <2>3. /\ <<x, y>> \in R \/ (<<y, x>> \notin R /\ i < j)
        /\ <<y, z>> \in R \/ (<<z, y>> \notin R /\ j < k)
    BY <1>4
  <2> HIDE DEF x, y, z
  <2>4. /\ <<x, y>> \in R => <<y, x>> \notin R
        /\ <<y, z>> \in R => <<z, y>> \notin R
        /\ <<x, y>> \in R => <<x, z>> \in R \/ <<z, y>> \in R
        /\ <<y, z>> \in R => <<y, x>> \in R \/ <<x, z>> \in R
        /\ <<z, x>> \in R => <<z, y>> \in R \/ <<y, x>> \in R
    BY <2>1 DEF IsWeakOrder
  <2>5. <<x, z>> \in R \/ (<<z, x>> \notin R /\ i < k)
    BY <2>2, <2>3, <2>4
  <2> QED BY <2>5 DEF x, z
<1>5. ASSUME NEW i \in 1..m PROVE ~After(i, i)
  BY <1>1 DEF IsWeakOrder
<1>6. ASSUME NEW i \in 1..m, NEW j \in 1..m, i # j PROVE After(i, j) \/ After(j, i)
  <2>1. i < j \/ j < i
    BY <1>1, <1>6
  <2> QED BY <2>1
<1>7. IsStrictOrder(1..m, P)
  <2> HIDE DEF After
  <2> QED BY <1>3, <1>4, <1>5, <1>6 DEF IsStrictOrder
<1>8. PICK p \in [1..m -> 1..m] : \A i, j \in 1..m : i < j => <<p[i], p[j]>> \in P
  BY <1>2, <1>7, EnumerationExists
<1>9. ASSUME NEW i \in 1..m, NEW j \in 1..m, p[i] = p[j] PROVE i = j
  <2>1. <<p[i], p[j]>> \notin P /\ <<p[j], p[i]>> \notin P
    BY <1>7, <1>9 DEF IsStrictOrder
  <2>2. i < j \/ j < i \/ i = j
    BY <1>1
  <2> QED BY <1>8, <2>1, <2>2
<1>10. p \in Injection(1..m, 1..m)
  BY <1>9 DEF Injection, IsInjective
<1>11. p \in Bijection(1..m, 1..m)
  BY <1>2, <1>10, FS_Injection DEF Bijection
<1>12. ASSUME NEW i \in 1..m, NEW j \in 1..m, i < j PROVE After(p[i], p[j])
  BY <1>3, <1>8, <1>12
<1> QED BY <1>1, <1>11, <1>12

(* What a bijection of positions does.                                     *)
LEMMA PositionFacts ==
  ASSUME NEW X, NEW s \in Seq(X), NEW p \in Bijection(DOMAIN s, DOMAIN s)
  PROVE  LET r == [i \in DOMAIN s |-> s[p[i]]]
         IN  /\ r \in Seq(X)
             /\ DOMAIN r = DOMAIN s
             /\ \A i \in DOMAIN s : p[i] \in DOMAIN s /\ r[i] = s[p[i]]
             /\ \A i, j \in DOMAIN s : p[i] = p[j] => i = j
             /\ \A k \in DOMAIN s : \E i \in DOMAIN s : p[i] = k
             /\ IsInjective(s) => IsInjective(r)
             /\ Range(r) = Range(s)
<1> DEFINE r == [i \in DOMAIN s |-> s[p[i]]]
<1>1. DOMAIN s = 1..Len(s) /\ Len(s) \in Nat /\ \A i \in DOMAIN s : s[i] \in X
  OBVIOUS
<1>2. /\ \A i \in DOMAIN s : p[i] \in DOMAIN s
      /\ \A i, j \in DOMAIN s : p[i] = p[j] => i = j
      /\ \A k \in DOMAIN s : \E i \in DOMAIN s : p[i] = k
  BY DEF Bijection, Injection, Surjection, IsInjective
<1>3. DOMAIN r = DOMAIN s /\ \A i \in DOMAIN s : r[i] = s[p[i]]
  OBVIOUS
<1>4. r \in Seq(X)
  <2>1. \A i \in 1..Len(s) : s[p[i]] \in X
    BY <1>1, <1>2
  <2>2. r \in [1..Len(s) -> X]
    BY <1>1, <2>1
  <2> HIDE DEF r
  <2> QED BY <1>1, <2>2
<1> HIDE DEF r
<1>5. IsInjective(s) => IsInjective(r)
  <2> SUFFICES ASSUME IsInjective(s), NEW i \in DOMAIN s, NEW j \in DOMAIN s,
                      r[i] = r[j]
               PROVE  i = j
    BY <1>3, Zenon DEF IsInjective
  <2>1. p[i] \in DOMAIN s /\ p[j] \in DOMAIN s /\ s[p[i]] = s[p[j]]
    BY <1>2, <1>3
  <2>2. p[i] = p[j]
    BY <2>1 DEF IsInjective
  <2> QED BY <1>2, <2>2
<1>6. Range(r) \subseteq Range(s)
  <2> SUFFICES ASSUME NEW i \in DOMAIN r PROVE r[i] \in Range(s)
    BY Zenon DEF Range
  <2>1. p[i] \in DOMAIN s /\ r[i] = s[p[i]]
    BY <1>2, <1>3
  <2> QED BY <2>1, Zenon DEF Range
<1>7. ASSUME NEW x \in Range(s) PROVE x \in Range(r)
  <2>1. PICK k \in DOMAIN s : s[k] = x
    BY DEF Range
  <2>2. PICK i \in DOMAIN s : p[i] = k
    BY <1>2
  <2> QED BY <1>3, <2>1, <2>2 DEF Range
<1> QED BY <1>2, <1>3, <1>4, <1>5, <1>6, <1>7 DEF r

(* A stable sort by a weak order: a rearrangement in which nothing         *)
(* precedes what comes before it.                                          *)
LEMMA StablySortedFacts ==
  ASSUME NEW X, NEW s \in Seq(X), NEW R, IsWeakOrder(Range(s), R)
  PROVE  LET r == StablySorted(s, R)
         IN  /\ r \in Seq(X)
             /\ DOMAIN r = DOMAIN s
             /\ IsInjective(s) => IsInjective(r)
             /\ Range(r) = Range(s)
             /\ \A i, j \in DOMAIN r : i < j => <<r[j], r[i]>> \notin R
<1> DEFINE p == CHOOSE p \in Bijection(DOMAIN s, DOMAIN s) :
                  \A i, j \in DOMAIN s : i < j =>
                    \/ <<s[p[i]], s[p[j]]>> \in R
                    \/ <<s[p[j]], s[p[i]]>> \notin R /\ p[i] < p[j]
           r == [i \in DOMAIN s |-> s[p[i]]]
<1>1. /\ p \in Bijection(DOMAIN s, DOMAIN s)
      /\ \A i, j \in DOMAIN s : i < j =>
           \/ <<s[p[i]], s[p[j]]>> \in R
           \/ <<s[p[j]], s[p[i]]>> \notin R
  BY StableOrderExists
<1>2. StablySorted(s, R) = r
  BY DEF StablySorted
<1> HIDE DEF p
<1>3. /\ r \in Seq(X) /\ DOMAIN r = DOMAIN s
      /\ \A i \in DOMAIN s : p[i] \in DOMAIN s /\ r[i] = s[p[i]]
      /\ IsInjective(s) => IsInjective(r)
      /\ Range(r) = Range(s)
  BY <1>1, PositionFacts
<1> HIDE DEF r
<1>4. ASSUME NEW i \in DOMAIN r, NEW j \in DOMAIN r, i < j
      PROVE  <<r[j], r[i]>> \notin R
  <2>1. r[i] = s[p[i]] /\ r[j] = s[p[j]] /\ r[i] \in Range(s) /\ r[j] \in Range(s)
    BY <1>3 DEF Range
  <2>2. <<r[i], r[j]>> \in R \/ <<r[j], r[i]>> \notin R
    BY <1>1, <1>3, <1>4, <2>1
  <2> QED BY <2>1, <2>2 DEF IsWeakOrder
<1> QED BY <1>2, <1>3, <1>4

(* A rearrangement has the same elements, no more often.                   *)
LEMMA RearrangedFacts ==
  ASSUME NEW X, NEW s \in Seq(X), NEW r \in Rearranged(s)
  PROVE  /\ r \in Seq(X)
         /\ DOMAIN r = DOMAIN s
         /\ IsInjective(s) => IsInjective(r)
         /\ Range(r) = Range(s)
<1>1. PICK p \in Bijection(DOMAIN s, DOMAIN s) : r = [i \in DOMAIN s |-> s[p[i]]]
  BY DEF Rearranged
<1> QED BY <1>1, PositionFacts

(* A sequence can be put in the order of keys.                             *)
LEMMA SortedByExists ==
  ASSUME NEW X, NEW s \in Seq(X), NEW key \in [Range(s) -> Int]
  PROVE  \E r \in Rearranged(s) :
           \A i, j \in DOMAIN s : i < j => key[r[i]] <= key[r[j]]
<1> DEFINE R == {e \in Range(s) \X Range(s) : key[e[1]] < key[e[2]]}
<1>1. \A x, y \in Range(s) : <<x, y>> \in R <=> key[x] < key[y]
  OBVIOUS
<1> HIDE DEF R
<1>2. \A x \in Range(s) : key[x] \in Int
  OBVIOUS
<1>3. IsWeakOrder(Range(s), R)
  BY <1>1, <1>2 DEF IsWeakOrder
<1>4. PICK p \in Bijection(DOMAIN s, DOMAIN s) :
        \A i, j \in DOMAIN s : i < j =>
          \/ <<s[p[i]], s[p[j]]>> \in R
          \/ <<s[p[j]], s[p[i]]>> \notin R
  BY <1>3, StableOrderExists
<1> DEFINE r == [i \in DOMAIN s |-> s[p[i]]]
<1>5. r \in Rearranged(s)
  BY DEF Rearranged
<1>6. \A i \in DOMAIN s : p[i] \in DOMAIN s /\ r[i] = s[p[i]]
  BY PositionFacts
<1> HIDE DEF r
<1>7. ASSUME NEW i \in DOMAIN s, NEW j \in DOMAIN s, i < j
      PROVE  key[r[i]] <= key[r[j]]
  <2>1. /\ r[i] = s[p[i]] /\ r[j] = s[p[j]]
        /\ r[i] \in Range(s) /\ r[j] \in Range(s)
    BY <1>6 DEF Range
  <2>2. key[r[i]] < key[r[j]] \/ ~(key[r[j]] < key[r[i]])
    BY <1>1, <1>4, <1>7, <2>1
  <2> QED BY <1>2, <2>1, <2>2
<1> QED BY <1>5, <1>7

(* What sorting by distinct keys returns.                                  *)
LEMMA SortedByFacts ==
  ASSUME NEW X, NEW s \in Seq(X), IsInjective(s),
         NEW key \in [Range(s) -> Int], IsInjective(key)
  PROVE  /\ SortedBy(key, s) \in Seq(X)
         /\ IsInjective(SortedBy(key, s))
         /\ Range(SortedBy(key, s)) = Range(s)
         /\ \A i, j \in DOMAIN SortedBy(key, s) :
              i < j => key[SortedBy(key, s)[i]] < key[SortedBy(key, s)[j]]
<1> DEFINE r == SortedBy(key, s)
<1>1. /\ r \in Rearranged(s)
      /\ \A i, j \in DOMAIN s : i < j => key[r[i]] <= key[r[j]]
  BY SortedByExists DEF SortedBy
<1> HIDE DEF r
<1>2. /\ r \in Seq(X) /\ DOMAIN r = DOMAIN s /\ IsInjective(r)
      /\ Range(r) = Range(s)
  BY <1>1, RearrangedFacts
<1>3. ASSUME NEW i \in DOMAIN r, NEW j \in DOMAIN r, i < j
      PROVE  key[r[i]] < key[r[j]]
  <2>1. r[i] \in Range(s) /\ r[j] \in Range(s)
    BY <1>2 DEF Range
  <2>2. i \in Int /\ j \in Int
    BY <1>2
  <2>3. r[i] # r[j]
    BY <1>2, <1>3, <2>2 DEF IsInjective
  <2>4. key[r[i]] # key[r[j]]
    BY <2>1, <2>3 DEF IsInjective
  <2>5. key[r[i]] \in Int /\ key[r[j]] \in Int
    BY <2>1
  <2>6. key[r[i]] <= key[r[j]]
    BY <1>1, <1>2, <1>3
  <2> QED BY <2>4, <2>5, <2>6
<1> QED BY <1>2, <1>3 DEF r

(* A sequence of numbers, sorted, repetitions and all.                     *)
LEMMA InOrderSorts ==
  ASSUME NEW X \in SUBSET Int, NEW s \in Seq(X)
  PROVE  /\ InOrder(s) \in Rearranged(s)
         /\ \A i, j \in DOMAIN s : i < j => InOrder(s)[i] <= InOrder(s)[j]
<1> DEFINE key == [x \in Range(s) |-> x]
           r == SortedBy(key, s)
<1>1. key \in [Range(s) -> Int]
  <2>1. \A i \in DOMAIN s : s[i] \in X
    OBVIOUS
  <2>2. \A x \in Range(s) : x \in Int
    BY <2>1 DEF Range
  <2> QED BY <2>2
<1> HIDE DEF key
<1>2. /\ r \in Rearranged(s)
      /\ \A i, j \in DOMAIN s : i < j => key[r[i]] <= key[r[j]]
  BY <1>1, SortedByExists DEF SortedBy
<1> HIDE DEF r
<1>3. DOMAIN r = DOMAIN s /\ Range(r) = Range(s)
  BY <1>2, RearrangedFacts
<1>4. \A i \in DOMAIN s : key[r[i]] = r[i]
  BY <1>3 DEF Range, key
<1>5. InOrder(s) = r
  BY DEF InOrder, r, key
<1> QED BY <1>2, <1>4, <1>5

(* Without repetitions, it is ascending.                                   *)
LEMMA InOrderFacts ==
  ASSUME NEW X \in SUBSET Int, NEW s \in Seq(X), IsInjective(s)
  PROVE  /\ InOrder(s) \in Seq(X)
         /\ IsAscending(InOrder(s))
         /\ Range(InOrder(s)) = Range(s)
<1> DEFINE key == [x \in Range(s) |-> x]
           r == SortedBy(key, s)
<1>1. key \in [Range(s) -> Int] /\ IsInjective(key)
  <2>1. \A i \in DOMAIN s : s[i] \in X
    OBVIOUS
  <2>2. \A x \in Range(s) : x \in Int
    BY <2>1 DEF Range
  <2> QED BY <2>2 DEF IsInjective
<1> HIDE DEF key
<1>2. /\ r \in Seq(X) /\ Range(r) = Range(s)
      /\ \A i, j \in DOMAIN r : i < j => key[r[i]] < key[r[j]]
  BY <1>1, SortedByFacts
<1> HIDE DEF r
<1>3. \A i \in DOMAIN r : key[r[i]] = r[i]
  BY <1>2 DEF Range, key
<1>4. IsAscending(r)
  BY <1>2, <1>3 DEF IsAscending
<1>5. InOrder(s) = r
  BY DEF InOrder, r, key
<1> QED BY <1>2, <1>4, <1>5

=============================================================================
