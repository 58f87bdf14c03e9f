-------------------------- MODULE ProbeSweepProofs --------------------------
(***************************************************************************)
(* Proofs about ProbeSweep, for any number of targets, addresses and       *)
(* permits, any lookups and command lines and whatever panics: the sweep   *)
(* implements the abstract one of module Sweep, uses its semaphore as      *)
(* ParallelMap says, and keeps the invariants its runs check.              *)
(***************************************************************************)
EXTENDS ProbeSweep, SortingProofs

PP == INSTANCE ParallelMapProofs WITH Caller <- {Main}

Answer == {Pending, LostAnswer}
            \cup {Known(addrs) : addrs \in {s \in Seq(Addr) : IsInjective(s)}}

OwnTypeOK ==
  /\ n \in 0..MaxTargets
  /\ opts \in Options
  /\ answer \in [Target -> Answer]
  /\ verdict \in [Target \X Addr -> VerdictType]
  /\ report \in Seq([target : Target,
                     rows : Seq([addr : Addr, verdict : VerdictType])])
  /\ code \in {"running", "success", "failure", "usage"}
  /\ stage \in Stage
  /\ resolved \in Seq(Target)
  /\ artifact \in Artifact

(* An item has not come to an end yet, its result was or will be           *)
(* collected, or it was or will be reported as dropped.                    *)
Open ==
  {i \in Item : \/ i \notin asked[Main]
                \/ i \in Range(queue[Main])
                \/ task[Main][i] = "running"}
Good == {i \in Item : task[Main][i] = "returned" \/ i \in Range(out[Main])}
Bad == {i \in Item : task[Main][i] = "panicked" \/ i \in dropped[Main]}

(* What the map is asked in each stage, and what run_probe_flow has        *)
(* checked by then.                                                        *)
StageOK ==
  /\ code = "running" <=> stage # "exited"
  /\ stage # "exited" => report = <<>>
  /\ stage \in {"args", "exited"} => ~calling[Main]
  /\ stage = "args" => asked[Main] = {}
  /\ stage = "resolving" => asked[Main] = {LookupItem(t) : t \in 1..n}
  /\ stage = "probing" => asked[Main] = Pairs
  /\ stage \in {"resolving", "probing"} =>
       opts.args = "ok" /\ n > 0 /\ ~(opts.outputBody /\ n > 1)
  /\ stage = "probing" =>
       /\ AllAnswered /\ ~MustRefuse
       /\ IsAscending(resolved)
       /\ Range(resolved) = {t \in 1..n : answer[t].known = "yes"}

(* What is known of a target agrees with where its lookup is.              *)
LookupOK ==
  /\ \A t \in Target \ (1..n) : answer[t] = Pending
  /\ stage = "args" => \A t \in Target : answer[t] = Pending
  /\ stage = "resolving" =>
       \A t \in Target :
         /\ answer[t].known = "pending" <=> LookupItem(t) \in Open
         /\ LookupItem(t) \in Good => answer[t].known = "yes"
         /\ LookupItem(t) \in Bad => answer[t].known = "lost"

(* What was found of a pair agrees with where its probe is.                *)
PairOK ==
  /\ stage \in {"args", "resolving"} => NothingJudged
  /\ stage = "probing" =>
       \A p \in Target \X Addr :
         /\ verdict[p] = "pending" <=> p \in Open
         /\ p \in Good => verdict[p] \in {"ok", "unexpected", "failed"}
         /\ p \in Bad => verdict[p] = "lost"

LossOK ==
  panics = 0 => /\ \A t \in Target : answer[t].known # "lost"
                /\ \A p \in Target \X Addr : verdict[p] # "lost"

ArtifactOK ==
  (stage = "probing" /\ opts.outputBody /\ Pairs # {}) => artifact # Untouched

(* What the run reported and how it ended, once it has.                    *)
ExitOK ==
  stage = "exited" =>
    /\ report # <<>> =>
         /\ report = Report
         /\ \A p \in Pairs : /\ verdict[p] # "pending"
                             /\ verdict[p] = "lost" => p \in dropped[Main]
    /\ code = "success" =>
         /\ n > 0 /\ AllAnswered /\ AllJudged /\ Verdict = "success"
         /\ (opts.outputBody /\ Pairs # {}) => artifact # Untouched

OwnInv ==
  OwnTypeOK /\ StageOK /\ LookupOK /\ PairOK /\ LossOK /\ ArtifactOK /\ ExitOK

IInv == OwnInv /\ PP!IInv

-----------------------------------------------------------------------------
(* What the instance of ParallelMapProofs says with operators of its own   *)
(* copy of a library module, it says with ours: they have one definition.  *)
LEMMA SameSets ==
  ASSUME NEW S
  PROVE  /\ PP!IsFiniteSet(S) = IsFiniteSet(S)
         /\ PP!Cardinality(S) = Cardinality(S)
<1>1. PP!IsFiniteSet(S) = IsFiniteSet(S)
  BY DEF PP!IsFiniteSet, IsFiniteSet
<1>2. PP!Cardinality(S) = Cardinality(S)
  BY DEF PP!Cardinality, Cardinality
<1> QED BY <1>1, <1>2

LEMMA SameSequences ==
  ASSUME NEW s
  PROVE  /\ PP!Range(s) = Range(s)
         /\ PP!IsInjective(s) = IsInjective(s)
BY DEF PP!Range, Range, PP!IsInjective, IsInjective

LEMMA TargetFinite == IsFiniteSet(Target) /\ Target \in SUBSET Int
BY BoundsAssumption, FS_Interval DEF Target

LEMMA AddrFinite == IsFiniteSet(Addr) /\ Addr \in SUBSET Int
BY BoundsAssumption, FS_Interval DEF Addr

LEMMA GridFinite ==
  IsFiniteSet(Target \X Addr) /\ Cardinality(Target \X Addr) \in Nat
BY TargetFinite, AddrFinite, FS_Product, FS_CardinalityType

(* The assumptions of ParallelMap hold of this instance.                   *)
LEMMA MapAssumptions ==
  /\ Permits \in Nat \ {0}
  /\ MaxPanics \in Nat
  /\ \A items \in Request : items \in Seq(Item) /\ PP!IsInjective(items)
<1> SUFFICES ASSUME NEW items \in Request
             PROVE  items \in Seq(Item) /\ IsInjective(items)
  BY PermitsAssumption, SameSequences
<1>1. CASE items \in {[t \in 1..k |-> LookupItem(t)] : k \in 1..MaxTargets}
  <2>1. PICK k \in 1..MaxTargets : items = [t \in 1..k |-> LookupItem(t)]
    BY <1>1
  <2>2. k \in Nat /\ \A t \in 1..k : LookupItem(t) \in Item
    BY BoundsAssumption DEF Item, Target
  <2>3. items \in [1..k -> Item]
    BY <2>1, <2>2
  <2>4. items \in Seq(Item)
    BY <2>2, <2>3
  <2> QED BY <2>1, <2>4 DEF IsInjective, LookupItem
<1>2. CASE \E k \in 0..Cardinality(Target \X Addr) :
             items \in [1..k -> Target \X Addr] /\ IsInjective(items)
  <2>1. PICK k \in Nat : items \in [1..k -> Target \X Addr] /\ IsInjective(items)
    BY <1>2, GridFinite
  <2>2. items \in [1..k -> Item]
    BY <2>1 DEF Item
  <2> QED BY <2>1, <2>2
<1> QED BY <1>1, <1>2 DEF Request

-----------------------------------------------------------------------------
(* Two sequences without a common element, one after the other.            *)
LEMMA Concatenated ==
  ASSUME NEW X, NEW s \in Seq(X), NEW t \in Seq(X),
         IsInjective(s), IsInjective(t), Range(s) \cap Range(t) = {}
  PROVE  /\ s \o t \in Seq(X)
         /\ IsInjective(s \o t)
         /\ Range(s \o t) = Range(s) \cup Range(t)
<1> DEFINE c == s \o t
<1>1. /\ Len(s) \in Nat /\ Len(t) \in Nat /\ c \in Seq(X)
      /\ DOMAIN s = 1..Len(s) /\ DOMAIN t = 1..Len(t)
      /\ DOMAIN c = 1..(Len(s) + Len(t))
      /\ \A k \in 1..Len(s) : c[k] = s[k]
      /\ \A k \in 1..Len(t) : c[Len(s) + k] = t[k]
  OBVIOUS
<1> HIDE DEF c
<1>2. ASSUME NEW k \in DOMAIN c
      PROVE  \/ k \in DOMAIN s /\ c[k] = s[k]
             \/ k - Len(s) \in DOMAIN t /\ c[k] = t[k - Len(s)]
  <2>1. CASE k <= Len(s)
    BY <1>1, <2>1
  <2>2. CASE k > Len(s)
    <3>1. k - Len(s) \in 1..Len(t) /\ Len(s) + (k - Len(s)) = k
      BY <1>1, <2>2
    <3> QED BY <1>1, <3>1
  <2> QED BY <1>1, <2>1, <2>2
<1>3. Range(c) = Range(s) \cup Range(t)
  <2>1. Range(c) \subseteq Range(s) \cup Range(t)
    BY <1>2 DEF Range
  <2>2. Range(s) \subseteq Range(c)
    BY <1>1 DEF Range
  <2>3. Range(t) \subseteq Range(c)
    <3>1. \A k \in DOMAIN t : Len(s) + k \in DOMAIN c /\ c[Len(s) + k] = t[k]
      BY <1>1
    <3> QED BY <3>1 DEF Range
  <2> QED BY <2>1, <2>2, <2>3
<1>4. ASSUME NEW j \in DOMAIN c, NEW k \in DOMAIN c, c[j] = c[k]
      PROVE  j = k
  <2>1. j \in Int /\ k \in Int
    BY <1>1
  <2>2. CASE j \in DOMAIN s /\ c[j] = s[j] /\ k \in DOMAIN s /\ c[k] = s[k]
    BY <1>4, <2>2 DEF IsInjective
  <2>3. CASE /\ j - Len(s) \in DOMAIN t /\ c[j] = t[j - Len(s)]
             /\ k - Len(s) \in DOMAIN t /\ c[k] = t[k - Len(s)]
    <3>1. j - Len(s) = k - Len(s)
      BY <1>4, <2>3 DEF IsInjective
    <3> QED BY <1>1, <2>1, <3>1
  <2>4. CASE /\ j \in DOMAIN s /\ c[j] = s[j]
             /\ k - Len(s) \in DOMAIN t /\ c[k] = t[k - Len(s)]
    <3>1. c[j] \in Range(s) /\ c[k] \in Range(t)
      BY <2>4 DEF Range
    <3> QED BY <1>4, <3>1
  <2>5. CASE /\ k \in DOMAIN s /\ c[k] = s[k]
             /\ j - Len(s) \in DOMAIN t /\ c[j] = t[j - Len(s)]
    <3>1. c[k] \in Range(s) /\ c[j] \in Range(t)
      BY <2>5 DEF Range
    <3> QED BY <1>4, <3>1
  <2> QED BY <1>2, <2>2, <2>3, <2>4, <2>5
<1>5. IsInjective(c)
  BY <1>4 DEF IsInjective
<1> QED BY <1>1, <1>3, <1>5 DEF c

(* The recursive function inside FlattenSeq exists.                        *)
LEMMA FlattenExists ==
  ASSUME NEW X, NEW ss \in Seq(Seq(X))
  PROVE  \E f : f = [i \in 1..Len(ss) |-> IF i = 1 THEN ss[i] ELSE f[i - 1] \o ss[i]]
<1> DEFINE Built(m) ==
             \E f : f = [i \in 1..m |-> IF i = 1 THEN ss[i] ELSE f[i - 1] \o ss[i]]
<1>1. Built(0)
  <2> DEFINE f == <<>>
  <2>1. f = [i \in 1..0 |-> IF i = 1 THEN ss[i] ELSE f[i - 1] \o ss[i]]
    OBVIOUS
  <2> QED BY <2>1
<1>2. ASSUME NEW m \in Nat, Built(m) PROVE Built(m + 1)
  <2>1. PICK f : f = [i \in 1..m |-> IF i = 1 THEN ss[i] ELSE f[i - 1] \o ss[i]]
    BY <1>2
  <2> DEFINE last == IF m + 1 = 1 THEN ss[m + 1] ELSE f[m] \o ss[m + 1]
             g == [i \in 1..(m + 1) |-> IF i = m + 1 THEN last ELSE f[i]]
  <2>2. ASSUME NEW i \in 1..(m + 1)
        PROVE  g[i] = IF i = 1 THEN ss[i] ELSE g[i - 1] \o ss[i]
    <3>1. CASE i = m + 1
      <4>1. i # 1 => i - 1 \in 1..(m + 1) /\ i - 1 # m + 1 /\ i - 1 = m
        BY <3>1
      <4>2. i # 1 => g[i - 1] = f[m]
        BY <4>1
      <4>3. g[i] = last
        BY <3>1
      <4> QED BY <3>1, <4>2, <4>3
    <3>2. CASE i # m + 1
      <4>1. i \in 1..m /\ (i # 1 => i - 1 \in 1..m /\ i - 1 # m + 1)
        BY <3>2
      <4>2. g[i] = f[i] /\ (i # 1 => g[i - 1] = f[i - 1])
        BY <4>1
      <4>3. f[i] = IF i = 1 THEN ss[i] ELSE f[i - 1] \o ss[i]
        BY <2>1, <4>1
      <4> QED BY <4>2, <4>3
    <3> QED BY <3>1, <3>2
  <2>3. g = [i \in 1..(m + 1) |-> g[i]]
    OBVIOUS
  <2> HIDE DEF g
  <2>4. g = [i \in 1..(m + 1) |-> IF i = 1 THEN ss[i] ELSE g[i - 1] \o ss[i]]
    BY <2>2, <2>3
  <2> QED BY <2>4
<1> HIDE DEF Built
<1> DEFINE H == {m \in Nat : Built(m)}
<1>3. 0 \in H /\ \A m \in Nat : m \in H => m + 1 \in H
  BY <1>1, <1>2
<1> HIDE DEF H
<1>4. \A m \in Nat : m \in H
  BY ONLY <1>3, SetInduction
<1>5. Len(ss) \in Nat
  OBVIOUS
<1>6. Built(Len(ss))
  BY <1>4, <1>5 DEF H
<1> QED BY <1>6 DEF Built

(* Sequences without repetition and without common elements, one after     *)
(* the other.                                                              *)
LEMMA FlattenFacts ==
  ASSUME NEW X, NEW ss \in Seq(Seq(X)),
         \A k \in DOMAIN ss : IsInjective(ss[k]),
         \A j, k \in DOMAIN ss : j # k => Range(ss[j]) \cap Range(ss[k]) = {}
  PROVE  /\ FlattenSeq(ss) \in Seq(X)
         /\ IsInjective(FlattenSeq(ss))
         /\ Range(FlattenSeq(ss)) = UNION {Range(ss[k]) : k \in DOMAIN ss}
<1>0. Len(ss) \in Nat /\ DOMAIN ss = 1..Len(ss) /\ \A k \in DOMAIN ss : ss[k] \in Seq(X)
  OBVIOUS
<1>1. CASE Len(ss) = 0
  <2>1. ss = <<>> /\ FlattenSeq(ss) = ss
    BY <1>1 DEF FlattenSeq
  <2>2. /\ <<>> \in Seq(X) /\ IsInjective(<<>>) /\ Range(<<>>) = {}
        /\ DOMAIN ss = {}
    BY <2>1 DEF IsInjective, Range
  <2>3. UNION {Range(ss[k]) : k \in DOMAIN ss} = {}
    BY <2>2
  <2> QED BY <2>1, <2>2, <2>3
<1>2. CASE Len(ss) # 0
  <2> DEFINE f == CHOOSE g : g = [i \in 1..Len(ss) |->
                                     IF i = 1 THEN ss[i] ELSE g[i - 1] \o ss[i]]
  <2>1. f = [i \in 1..Len(ss) |-> IF i = 1 THEN ss[i] ELSE f[i - 1] \o ss[i]]
    BY FlattenExists
  <2>2. FlattenSeq(ss) = f[Len(ss)]
    BY <1>2 DEF FlattenSeq
  <2> HIDE DEF f
  <2>3. /\ f[1] = ss[1]
        /\ \A m \in 1..(Len(ss) - 1) : f[m + 1] = f[m] \o ss[m + 1]
    <3>1. 1 \in 1..Len(ss) /\ \A m \in 1..(Len(ss) - 1) : m + 1 \in 1..Len(ss) /\ m + 1 # 1
      BY <1>0, <1>2
    <3>2. \A m \in 1..(Len(ss) - 1) : (m + 1) - 1 = m
      BY <1>0
    <3> QED BY <2>1, <3>1, <3>2
  <2> DEFINE Flat(m) == /\ f[m] \in Seq(X)
                        /\ IsInjective(f[m])
                        /\ Range(f[m]) = UNION {Range(ss[k]) : k \in 1..m}
             H == {m \in Nat : m \in 1..Len(ss) => Flat(m)}
  <2>4. 0 \in H
    OBVIOUS
  <2>5. ASSUME NEW m \in Nat, m \in H, m + 1 \in 1..Len(ss) PROVE Flat(m + 1)
    <3>1. CASE m = 0
      <4>1. UNION {Range(ss[k]) : k \in 1..(m + 1)} = Range(ss[1])
        BY <3>1
      <4> QED BY <1>0, <2>3, <2>5, <3>1, <4>1
    <3>2. CASE m # 0
      <4>1. m \in 1..(Len(ss) - 1) /\ m \in 1..Len(ss)
        BY <1>0, <2>5, <3>2
      <4>2. Flat(m)
        BY <2>5, <4>1
      <4>3. f[m + 1] = f[m] \o ss[m + 1]
        BY <2>3, <4>1
      <4>4. Range(f[m]) \cap Range(ss[m + 1]) = {}
        <5>1. ASSUME NEW k \in 1..m PROVE Range(ss[k]) \cap Range(ss[m + 1]) = {}
          <6>1. k # m + 1 /\ k \in DOMAIN ss /\ m + 1 \in DOMAIN ss
            BY <1>0, <2>5
          <6> QED BY <6>1
        <5> QED BY <4>2, <5>1
      <4>5. /\ f[m + 1] \in Seq(X) /\ IsInjective(f[m + 1])
            /\ Range(f[m + 1]) = Range(f[m]) \cup Range(ss[m + 1])
        BY <1>0, <2>5, <4>2, <4>3, <4>4, Concatenated
      <4>6. UNION {Range(ss[k]) : k \in 1..(m + 1)} =
              (UNION {Range(ss[k]) : k \in 1..m}) \cup Range(ss[m + 1])
        <5>1. 1..(m + 1) = (1..m) \cup {m + 1}
          OBVIOUS
        <5> QED BY ONLY <5>1
      <4> QED BY <4>2, <4>5, <4>6
    <3> QED BY <3>1, <3>2
  <2> HIDE DEF Flat
  <2>6. \A m \in Nat : m \in H => m + 1 \in H
    BY <2>5
  <2> HIDE DEF H
  <2>7. Len(ss) \in H
    BY <1>0, <2>4, <2>6, SetInduction
  <2>8. Flat(Len(ss))
    BY <1>0, <1>2, <2>7 DEF H
  <2> QED BY <1>0, <2>2, <2>8 DEF Flat
<1> QED BY <1>0, <1>1, <1>2

-----------------------------------------------------------------------------
(* The invariants of the map, in the words of this module.                 *)
LEMMA MapFacts ==
  ASSUME PP!IInv
  PROVE  /\ calling \in [{Main} -> BOOLEAN]
         /\ asked \in [{Main} -> SUBSET Item]
         /\ queue \in [{Main} -> Seq(Item)]
         /\ task \in [{Main} -> [Item -> {"none", "running", "returned", "panicked"}]]
         /\ out \in [{Main} -> Seq(Item)]
         /\ dropped \in [{Main} -> SUBSET Item]
         /\ panics \in 0..MaxPanics
         /\ IsInjective(queue[Main])
         /\ IsInjective(out[Main])
BY SameSequences
DEF PP!IInv, PP!Items, PP!Shape, PP!TaskState, PP!Accounted

LEMMA MapPlaces ==
  ASSUME PP!IInv
  PROVE  /\ \A i \in Item :
              i \in asked[Main] <=> \/ i \in Range(queue[Main])
                                    \/ task[Main][i] # "none"
                                    \/ i \in Range(out[Main])
                                    \/ i \in dropped[Main]
         /\ \A i \in Range(queue[Main]) :
              /\ task[Main][i] = "none"
              /\ i \notin Range(out[Main])
              /\ i \notin dropped[Main]
         /\ \A i \in Range(out[Main]) : task[Main][i] = "none" /\ i \notin dropped[Main]
         /\ \A i \in dropped[Main] : task[Main][i] = "none"
         /\ Range(queue[Main]) \subseteq Item /\ Range(out[Main]) \subseteq Item
         /\ ~calling[Main] =>
              queue[Main] = <<>> /\ \A i \in Item : task[Main][i] = "none"
<1>1. PP!Accounted(Main) /\ PP!Settled(Main)
  BY DEF PP!IInv, PP!Items
<1>2. Range(queue[Main]) \subseteq Item /\ Range(out[Main]) \subseteq Item
  BY MapFacts DEF Range
<1>3. dropped[Main] \subseteq Item
  BY MapFacts
<1> QED BY <1>1, <1>2, <1>3, SameSequences DEF PP!Accounted, PP!Settled, PP!InFlight

(* One task changes state.                                                 *)
LEMMA TaskChange ==
  ASSUME PP!IInv, NEW i \in Item, NEW st \in {"none", "running", "returned", "panicked"},
         task' = [task EXCEPT ![Main][i] = st]
  PROVE  task'[Main][i] = st /\ \A j \in Item \ {i} : task'[Main][j] = task[Main][j]
<1>1. task \in [{Main} -> [Item -> {"none", "running", "returned", "panicked"}]]
  BY MapFacts
<1>2. task' = [task EXCEPT ![Main] = [task[Main] EXCEPT ![i] = st]]
  BY <1>1
<1>3. task'[Main] = [task[Main] EXCEPT ![i] = st]
  BY <1>1, <1>2
<1> QED BY <1>1, <1>3

(* The steps of the map by what they make of its items: a call opens all   *)
(* its items, a return and a panic settle one, and nothing else does.      *)
LEMMA CallOpens ==
  ASSUME PP!IInv, NEW items, PM!Call(Main, items)
  PROVE  /\ asked'[Main] = Range(items)
         /\ Open' = Item /\ Good' = {} /\ Bad' = {}
         /\ calling'[Main] = TRUE /\ UNCHANGED panics
<1>1. /\ asked'[Main] = PM!Range(items) /\ queue'[Main] = items
      /\ out'[Main] = <<>> /\ dropped'[Main] = {} /\ task' = task
      /\ calling'[Main] = TRUE /\ UNCHANGED panics /\ ~calling[Main]
  BY MapFacts DEF PM!Call
<1>2. PM!Range(items) = Range(items)
  BY DEF PM!Range, Range
<1>3. \A i \in Item : task[Main][i] = "none"
  BY <1>1, MapPlaces
<1>4. Range(out'[Main]) = {}
  BY <1>1 DEF Range
<1>5. Open' = Item
  BY <1>1, <1>2 DEF Open
<1>6. Good' = {} /\ Bad' = {}
  BY <1>1, <1>3, <1>4 DEF Good, Bad
<1> QED BY <1>1, <1>2, <1>5, <1>6

LEMMA ReturnSettles ==
  ASSUME PP!IInv, NEW i \in Item, PM!Return(Main, i)
  PROVE  /\ i \in asked[Main] /\ i \in Open /\ calling[Main]
         /\ Open' = Open \ {i} /\ Good' = Good \cup {i} /\ Bad' = Bad
         /\ UNCHANGED <<asked, calling, panics>>
<1>1. /\ task[Main][i] = "running" /\ task' = [task EXCEPT ![Main][i] = "returned"]
      /\ UNCHANGED <<asked, queue, out, dropped, calling, panics>>
  BY DEF PM!Return
<1>2. task'[Main][i] = "returned" /\ \A j \in Item \ {i} : task'[Main][j] = task[Main][j]
  BY <1>1, TaskChange
<1>3. i \in asked[Main] /\ i \notin Range(queue[Main]) /\ calling[Main] /\ i \in Open
  BY <1>1, MapPlaces DEF Open
<1>4. Open' = Open \ {i}
  BY <1>1, <1>2, <1>3 DEF Open
<1>5. Good' = Good \cup {i} /\ Bad' = Bad
  BY <1>1, <1>2 DEF Good, Bad
<1> QED BY <1>1, <1>3, <1>4, <1>5

LEMMA PanicSettles ==
  ASSUME PP!IInv, NEW i \in Item, PM!Panic(Main, i)
  PROVE  /\ i \in asked[Main] /\ i \in Open /\ calling[Main]
         /\ Open' = Open \ {i} /\ Good' = Good /\ Bad' = Bad \cup {i}
         /\ panics' # 0 /\ UNCHANGED <<asked, calling>>
<1>1. /\ task[Main][i] = "running" /\ task' = [task EXCEPT ![Main][i] = "panicked"]
      /\ UNCHANGED <<asked, queue, out, dropped, calling>> /\ panics' = panics + 1
  BY DEF PM!Panic
<1>2. task'[Main][i] = "panicked" /\ \A j \in Item \ {i} : task'[Main][j] = task[Main][j]
  BY <1>1, TaskChange
<1>3. i \in asked[Main] /\ i \notin Range(queue[Main]) /\ calling[Main] /\ i \in Open
  BY <1>1, MapPlaces DEF Open
<1>4. Open' = Open \ {i}
  BY <1>1, <1>2, <1>3 DEF Open
<1>5. Good' = Good /\ Bad' = Bad \cup {i}
  BY <1>1, <1>2 DEF Good, Bad
<1>6. panics' # 0
  BY <1>1, MapFacts
<1> QED BY <1>1, <1>3, <1>4, <1>5, <1>6

LEMMA SpawnSettlesNothing ==
  ASSUME PP!IInv, PM!Spawn(Main)
  PROVE  calling[Main] /\ UNCHANGED <<asked, Open, Good, Bad, calling, panics>>
<1>1. /\ calling[Main] /\ queue[Main] # <<>> /\ queue[Main] \in Seq(Item)
      /\ queue'[Main] = Tail(queue[Main])
      /\ task' = [task EXCEPT ![Main][Head(queue[Main])] = "running"]
      /\ UNCHANGED <<calling, asked, out, dropped, panics>>
  BY MapFacts DEF PM!Spawn
<1>2. PP!IsInjective(queue[Main])
  BY MapFacts, SameSequences
<1>3. /\ Head(queue[Main]) \in Item
      /\ Head(queue[Main]) \in PP!Range(queue[Main])
      /\ PP!Range(Tail(queue[Main])) = PP!Range(queue[Main]) \ {Head(queue[Main])}
  BY <1>1, <1>2, MapAssumptions, PP!TailOfInjective
<1>4. PICK h \in Item :
        /\ h = Head(queue[Main]) /\ h \in Range(queue[Main])
        /\ Range(queue'[Main]) = Range(queue[Main]) \ {h}
  BY <1>1, <1>3, SameSequences
<1>5. task'[Main][h] = "running" /\ \A j \in Item \ {h} : task'[Main][j] = task[Main][j]
  BY <1>1, <1>4, TaskChange
<1>6. h \in asked[Main] /\ task[Main][h] = "none"
  BY <1>4, MapPlaces
<1>7. Open' = Open
  BY <1>1, <1>4, <1>5, <1>6 DEF Open
<1>8. Good' = Good /\ Bad' = Bad
  BY <1>1, <1>5, <1>6 DEF Good, Bad
<1> QED BY <1>1, <1>7, <1>8

LEMMA JoinSettlesNothing ==
  ASSUME PP!IInv, NEW i \in Item, PM!Join(Main, i)
  PROVE  calling[Main] /\ UNCHANGED <<asked, Open, Good, Bad, calling, panics>>
<1>1. /\ calling[Main]
      /\ task' = [task EXCEPT ![Main][i] = "none"]
      /\ \/ /\ task[Main][i] = "returned"
            /\ out'[Main] = Append(out[Main], i) /\ UNCHANGED dropped
         \/ /\ task[Main][i] = "panicked"
            /\ dropped'[Main] = dropped[Main] \cup {i} /\ UNCHANGED out
      /\ UNCHANGED <<calling, asked, queue, panics>>
  BY MapFacts DEF PM!Join
<1>2. task'[Main][i] = "none" /\ \A j \in Item \ {i} : task'[Main][j] = task[Main][j]
  BY <1>1, TaskChange
<1>3. Range(Append(out[Main], i)) = Range(out[Main]) \cup {i}
  <2> DEFINE s == out[Main]
  <2>1. s \in Seq(Item)
    BY MapFacts
  <2> HIDE DEF s
  <2>2. /\ DOMAIN s = 1..Len(s) /\ Len(s) \in Nat
        /\ DOMAIN Append(s, i) = 1..(Len(s) + 1)
        /\ \A k \in 1..Len(s) : Append(s, i)[k] = s[k]
        /\ Append(s, i)[Len(s) + 1] = i
    BY <2>1
  <2>3. Range(Append(s, i)) = Range(s) \cup {i}
    BY <2>2 DEF Range
  <2> QED BY <2>3 DEF s
<1>4. i \in asked[Main] /\ i \notin Range(queue[Main])
  BY <1>1, MapPlaces
<1>5. Open' = Open
  BY <1>1, <1>2, <1>4 DEF Open
<1>6. Good' = Good
  <2>1. CASE task[Main][i] = "returned"
    <3>1. out'[Main] = Append(out[Main], i)
      BY <1>1, <2>1
    <3>2. Range(out'[Main]) = Range(out[Main]) \cup {i}
      BY <3>1, <1>3
    <3> QED BY <1>2, <2>1, <3>2 DEF Good
  <2>2. CASE task[Main][i] = "panicked"
    <3>1. Range(out'[Main]) = Range(out[Main])
      BY <1>1, <2>2
    <3> QED BY <1>2, <2>2, <3>1 DEF Good
  <2> QED BY <1>1, <2>1, <2>2
<1>7. Bad' = Bad
  <2>1. CASE task[Main][i] = "returned"
    BY <1>1, <1>2, <2>1 DEF Bad
  <2>2. CASE task[Main][i] = "panicked"
    BY <1>1, <1>2, <2>2 DEF Bad
  <2> QED BY <1>1, <2>1, <2>2
<1> QED BY <1>1, <1>5, <1>6, <1>7

LEMMA FinishSettlesNothing ==
  ASSUME PP!IInv, PM!Finish(Main)
  PROVE  /\ calling[Main] /\ calling'[Main] = FALSE
         /\ UNCHANGED <<asked, Open, Good, Bad, panics>>
BY MapFacts DEF PM!Finish, Open, Good, Bad

(* What a map that has returned left: every item asked for is settled.     *)
LEMMA Returned ==
  ASSUME PP!IInv, ~calling[Main]
  PROVE  /\ Open = Item \ asked[Main]
         /\ Good = Range(out[Main]) /\ Bad = dropped[Main]
         /\ asked[Main] = Good \cup Bad
<1>1. Range(queue[Main]) = {} /\ \A i \in Item : task[Main][i] = "none"
  BY MapPlaces DEF Range
<1>2. asked[Main] \subseteq Item /\ dropped[Main] \subseteq Item
  BY MapFacts
<1> QED BY <1>1, <1>2, MapPlaces DEF Open, Good, Bad

-----------------------------------------------------------------------------
(* What is known of a target, field by field.                              *)
LEMMA AnswerFacts ==
  ASSUME OwnTypeOK, NEW t \in Target
  PROVE  /\ answer[t].at \in Seq(Addr) /\ IsInjective(answer[t].at)
         /\ answer[t].known \in {"pending", "yes", "lost"}
         /\ answer[t].known # "yes" => answer[t].at = <<>>
         /\ answer[t].known = "pending" <=> answer[t] = Pending
         /\ answer[t].known = "yes" /\ answer[t].at = <<>> <=> answer[t] = Known(<<>>)
         /\ answer[t] \in AnswerType
<1>1. <<>> \in Seq(Addr) /\ IsInjective(<<>>)
  BY DEF IsInjective
<1>2. answer[t] \in Answer
  BY DEF OwnTypeOK
<1>3. CASE answer[t] = Pending \/ answer[t] = LostAnswer
  <2>1. answer[t].at = <<>> /\ answer[t].known \in {"pending", "lost"}
    BY <1>3 DEF Pending, LostAnswer
  <2>2. answer[t].known = "pending" <=> answer[t] = Pending
    BY <1>3 DEF Pending, LostAnswer
  <2>3. answer[t] # Known(<<>>)
    BY <2>1 DEF Known
  <2>4. answer[t] \in AnswerType
    <3> DEFINE e == <<>>
    <3>1. e \in Seq(Addr)
      BY <1>1
    <3>2. /\ Pending = [known |-> "pending", at |-> e]
          /\ LostAnswer = [known |-> "lost", at |-> e]
      BY DEF Pending, LostAnswer
    <3> HIDE DEF e
    <3>3. Pending \in AnswerType /\ LostAnswer \in AnswerType
      BY <3>1, <3>2 DEF AnswerType
    <3> QED BY <1>3, <3>3
  <2> QED BY <1>1, <2>1, <2>2, <2>3, <2>4
<1>4. CASE answer[t] \in {Known(addrs) : addrs \in {s \in Seq(Addr) : IsInjective(s)}}
  <2>1. PICK a \in Seq(Addr) : IsInjective(a) /\ answer[t] = Known(a)
    BY <1>4
  <2>2. answer[t].known = "yes" /\ answer[t].at = a /\ answer[t] # Pending
    BY <2>1 DEF Pending, Known
  <2>3. a = <<>> <=> Known(a) = Known(<<>>)
    BY DEF Known
  <2>4. answer[t] \in AnswerType
    BY <2>1 DEF Known, AnswerType
  <2> QED BY <2>1, <2>2, <2>3, <2>4
<1> QED BY <1>2, <1>3, <1>4 DEF Answer

LEMMA AnswerFields ==
  /\ Pending.known = "pending" /\ Pending.at = <<>>
  /\ LostAnswer.known = "lost" /\ LostAnswer.at = <<>>
  /\ \A a : Known(a).known = "yes" /\ Known(a).at = a
BY DEF Pending, LostAnswer, Known

LEMMA LookupItems ==
  /\ \A t \in Target : LookupItem(t) \in Item /\ LookupItem(t) \notin Target \X Addr
  /\ \A t, u \in Target : LookupItem(t) = LookupItem(u) => t = u
  /\ \A t \in Target : LookupItem(t)[1] = t
  /\ Target \X Addr \subseteq Item
<1>1. 0 \notin Addr
  BY BoundsAssumption DEF Addr
<1> QED BY <1>1 DEF LookupItem, Item

LEMMA TargetsNamed ==
  ASSUME OwnTypeOK
  PROVE  n \in Nat /\ 1..n \subseteq Target
BY BoundsAssumption DEF OwnTypeOK, Target

LEMMA PairsFinite ==
  /\ Pairs \subseteq Target \X Addr /\ IsFiniteSet(Pairs) /\ Cardinality(Pairs) \in Nat
<1>1. Pairs \subseteq Target \X Addr
  BY DEF Pairs
<1> QED BY <1>1, GridFinite, FS_Subset, FS_CardinalityType

LEMMA PairsFacts ==
  ASSUME OwnTypeOK, NEW t \in Target, NEW d \in Addr
  PROVE  <<t, d>> \in Pairs <=> d \in Range(answer[t].at)
BY DEF Pairs

(* Only a target whose lookup returned has addresses.                      *)
LEMMA PairsAnswered ==
  ASSUME OwnTypeOK, LookupOK, NEW p \in Pairs
  PROVE  p[1] \in 1..n /\ answer[p[1]].known = "yes" /\ answer[p[1]].at # <<>>
<1>1. p[1] \in Target /\ p[2] \in Range(answer[p[1]].at)
  BY DEF Pairs
<1>2. answer[p[1]].at # <<>>
  BY <1>1 DEF Range
<1>3. answer[p[1]].known = "yes"
  BY <1>1, <1>2, AnswerFacts
<1>4. p[1] \in 1..n
  BY <1>1, <1>3, AnswerFields DEF LookupOK
<1> QED BY <1>2, <1>3, <1>4

LEMMA AscendingInjective ==
  ASSUME NEW s \in Seq(Int), IsAscending(s)
  PROVE  IsInjective(s)
<1> SUFFICES ASSUME NEW i \in DOMAIN s, NEW j \in DOMAIN s, s[i] = s[j]
             PROVE  i = j
  BY DEF IsInjective
<1>1. DOMAIN s = 1..Len(s) /\ Len(s) \in Nat /\ s[i] \in Int /\ s[j] \in Int
  OBVIOUS
<1>2. (i < j => s[i] < s[j]) /\ (j < i => s[j] < s[i])
  BY DEF IsAscending
<1> QED BY <1>1, <1>2

LEMMA PairsOfFacts ==
  ASSUME OwnTypeOK, NEW t \in Target
  PROVE  /\ PairsOf(t) \in Seq(Target \X Addr) /\ IsInjective(PairsOf(t))
         /\ \A p : p \in Range(PairsOf(t)) <=> p \in Pairs /\ p[1] = t
<1> DEFINE a == answer[t].at
<1>1. /\ a \in Seq(Addr) /\ IsInjective(a)
  BY AnswerFacts
<1>2. /\ PairsOf(t) = [k \in DOMAIN a |-> <<t, a[k]>>]
      /\ \A d \in Addr : <<t, d>> \in Pairs <=> d \in Range(a)
  BY PairsFacts DEF PairsOf
<1> HIDE DEF a
<1>3. DOMAIN a = 1..Len(a) /\ Len(a) \in Nat /\ \A k \in DOMAIN a : a[k] \in Addr
  BY <1>1
<1>4. PairsOf(t) \in [1..Len(a) -> Target \X Addr]
  BY <1>2, <1>3
<1>5. PairsOf(t) \in Seq(Target \X Addr) /\ DOMAIN PairsOf(t) = DOMAIN a
  BY <1>3, <1>4
<1>6. IsInjective(PairsOf(t))
  BY <1>1, <1>2, <1>3 DEF IsInjective
<1>7. ASSUME NEW p \in Range(PairsOf(t)) PROVE p \in Pairs /\ p[1] = t
  <2>1. PICK k \in DOMAIN a : p = <<t, a[k]>>
    BY <1>2, <1>7 DEF Range
  <2> QED BY <2>1, <1>2, <1>3 DEF Range
<1>8. ASSUME NEW p \in Pairs, p[1] = t PROVE p \in Range(PairsOf(t))
  <2>1. PICK d \in Addr : p = <<t, d>>
    BY <1>8, PairsFinite
  <2>2. PICK k \in DOMAIN a : a[k] = d
    BY <2>1, <1>2 DEF Range
  <2> QED BY <2>1, <2>2, <1>2 DEF Range
<1> QED BY <1>5, <1>6, <1>7, <1>8

(* The list of phase 2, of ascending targets that cover those with pairs.  *)
LEMMA ProbeItemsFacts ==
  ASSUME OwnTypeOK, NEW ts \in Seq(Target), IsAscending(ts),
         \A p \in Pairs : p[1] \in Range(ts)
  PROVE  /\ ProbeItems(ts) \in Seq(Target \X Addr) /\ IsInjective(ProbeItems(ts))
         /\ Range(ProbeItems(ts)) = Pairs
         /\ Len(ProbeItems(ts)) = Cardinality(Pairs)
         /\ ProbeItems(ts) \in Request
<1> DEFINE ss == [k \in DOMAIN ts |-> PairsOf(ts[k])]
<1>1. DOMAIN ts = 1..Len(ts) /\ Len(ts) \in Nat /\ \A k \in DOMAIN ts : ts[k] \in Target
  OBVIOUS
<1>2. IsInjective(ts)
  BY WiderSeq, TargetFinite, AscendingInjective
<1>3. /\ DOMAIN ss = 1..Len(ts)
      /\ \A k \in DOMAIN ts : ss[k] = PairsOf(ts[k])
      /\ ProbeItems(ts) = FlattenSeq(ss)
  BY <1>1 DEF ProbeItems
<1>4. \A k \in DOMAIN ts : /\ PairsOf(ts[k]) \in Seq(Target \X Addr)
                           /\ IsInjective(PairsOf(ts[k]))
                           /\ \A p : p \in Range(PairsOf(ts[k])) <=> p \in Pairs /\ p[1] = ts[k]
  BY <1>1, PairsOfFacts
<1>5. ss \in Seq(Seq(Target \X Addr))
  BY <1>1, <1>3, <1>4
<1> HIDE DEF ss
<1>6. \A k \in DOMAIN ss : IsInjective(ss[k])
  BY <1>1, <1>3, <1>4
<1>7. \A j, k \in DOMAIN ss : j # k => Range(ss[j]) \cap Range(ss[k]) = {}
  BY <1>1, <1>2, <1>3, <1>4 DEF IsInjective
<1>8. /\ FlattenSeq(ss) \in Seq(Target \X Addr)
      /\ IsInjective(FlattenSeq(ss))
      /\ Range(FlattenSeq(ss)) = UNION {Range(ss[k]) : k \in DOMAIN ss}
  BY <1>5, <1>6, <1>7, FlattenFacts
<1>9. UNION {Range(ss[k]) : k \in DOMAIN ss} = Pairs
  <2>1. ASSUME NEW p \in Pairs PROVE \E k \in DOMAIN ss : p \in Range(ss[k])
    <3>1. PICK k \in DOMAIN ts : ts[k] = p[1]
      BY <1>1 DEF Range
    <3> QED BY <3>1, <1>1, <1>3, <1>4
  <2>2. ASSUME NEW k \in DOMAIN ss PROVE Range(ss[k]) \subseteq Pairs
    BY <1>1, <1>3, <1>4, <2>2
  <2> QED BY <2>1, <2>2
<1>10. /\ ProbeItems(ts) \in Seq(Target \X Addr) /\ IsInjective(ProbeItems(ts))
       /\ Range(ProbeItems(ts)) = Pairs
  BY <1>3, <1>8, <1>9
<1>11. /\ Len(ProbeItems(ts)) = Cardinality(Pairs)
       /\ Len(ProbeItems(ts)) \in 0..Cardinality(Target \X Addr)
  BY <1>10, InjectiveLength, GridFinite
<1>12. ProbeItems(ts) \in [1..Len(ProbeItems(ts)) -> Target \X Addr]
  BY <1>10
<1>13. ProbeItems(ts) \in Request
  BY <1>10, <1>11, <1>12 DEF Request
<1> QED BY <1>10, <1>11, <1>13

(* Phase 1 returned: every target is known or lost, and the sorted results *)
(* and the list of phase 2 are functions of the answers.                   *)
LEMMA Resolution ==
  ASSUME OwnInv, PP!IInv, stage = "resolving", ~calling[Main]
  PROVE  /\ AllAnswered
         /\ SortedTargets(out[Main]) \in Seq(Target)
         /\ IsAscending(SortedTargets(out[Main]))
         /\ Range(SortedTargets(out[Main])) = {t \in 1..n : answer[t].known = "yes"}
<1> DEFINE o == out[Main]
           firsts == [k \in DOMAIN o |-> o[k][1]]
<1>1. /\ OwnTypeOK /\ LookupOK
      /\ asked[Main] = {LookupItem(t) : t \in 1..n}
  BY DEF OwnInv, StageOK
<1>2. /\ Open = Item \ asked[Main] /\ Good = Range(o)
      /\ asked[Main] = Good \cup Bad
  BY Returned
<1>3. o \in Seq(Item) /\ IsInjective(o)
  BY MapFacts
<1>4. n \in Nat /\ 1..n \subseteq Target
  BY <1>1, TargetsNamed
<1>5. \A t \in 1..n : /\ answer[t].known # "pending"
                      /\ answer[t].known = "yes" <=> LookupItem(t) \in Good
  <2> SUFFICES ASSUME NEW t \in 1..n
               PROVE  /\ answer[t].known # "pending"
                      /\ answer[t].known = "yes" <=> LookupItem(t) \in Good
    OBVIOUS
  <2>1. t \in Target /\ LookupItem(t) \in asked[Main] /\ LookupItem(t) \notin Open
    BY <1>1, <1>2, <1>4
  <2>2. LookupItem(t) \in Good \/ LookupItem(t) \in Bad
    BY <2>1, <1>2
  <2> QED BY <1>1, <2>1, <2>2 DEF LookupOK
<1>6. AllAnswered
  BY <1>5 DEF AllAnswered
<1> HIDE DEF o
<1>7. DOMAIN o = 1..Len(o) /\ Len(o) \in Nat
  BY <1>3
<1>8. \A k \in DOMAIN o : \E t \in 1..n : o[k] = LookupItem(t)
  <2>1. \A k \in DOMAIN o : o[k] \in asked[Main]
    BY <1>2 DEF Range
  <2> QED BY <2>1, <1>1
<1>9. \A k \in DOMAIN o : firsts[k] \in 1..n /\ o[k] = LookupItem(firsts[k])
  BY <1>8, <1>4, LookupItems
<1>10. firsts \in [1..Len(o) -> 1..n] /\ DOMAIN firsts = DOMAIN o
  BY <1>7, <1>9
<1> HIDE DEF firsts
<1>11. firsts \in Seq(Target)
  BY <1>4, <1>7, <1>10
<1>12. IsInjective(firsts)
  BY <1>3, <1>9, <1>10 DEF IsInjective
<1>13. Range(firsts) = {t \in 1..n : answer[t].known = "yes"}
  <2>1. ASSUME NEW t \in Range(firsts) PROVE t \in 1..n /\ answer[t].known = "yes"
    <3>1. PICK k \in DOMAIN o : firsts[k] = t
      BY <1>10, <2>1 DEF Range
    <3>2. t \in 1..n /\ LookupItem(t) \in Range(o)
      BY <3>1, <1>9 DEF Range
    <3> QED BY <3>2, <1>2, <1>5
  <2>2. ASSUME NEW t \in 1..n, answer[t].known = "yes" PROVE t \in Range(firsts)
    <3>1. LookupItem(t) \in Range(o)
      BY <2>2, <1>2, <1>5
    <3>2. PICK k \in DOMAIN o : o[k] = LookupItem(t)
      BY <3>1 DEF Range
    <3>3. firsts[k] = t
      BY <3>2, <1>4, <1>9, LookupItems
    <3> QED BY <3>3, <1>10 DEF Range
  <2> QED BY <2>1, <2>2
<1>14. SortedTargets(out[Main]) = InOrder(firsts)
  BY DEF SortedTargets, firsts, o
<1>15. /\ InOrder(firsts) \in Seq(Target) /\ IsAscending(InOrder(firsts))
       /\ Range(InOrder(firsts)) = Range(firsts)
  BY <1>11, <1>12, TargetFinite, InOrderFacts
<1> QED BY <1>6, <1>13, <1>14, <1>15

LEMMA Preflighted ==
  ASSUME OwnInv, PP!IInv, stage = "resolving", ~calling[Main],
         NEW ts, ts = SortedTargets(out[Main])
  PROVE  /\ ts \in Seq(Target) /\ IsAscending(ts)
         /\ Range(ts) = {t \in 1..n : answer[t].known = "yes"}
         /\ Range(ProbeItems(ts)) = Pairs
         /\ Len(ProbeItems(ts)) = Cardinality(Pairs)
         /\ ProbeItems(ts) \in Request
<1>1. OwnTypeOK /\ LookupOK
  BY DEF OwnInv
<1>2. /\ ts \in Seq(Target) /\ IsAscending(ts)
      /\ Range(ts) = {t \in 1..n : answer[t].known = "yes"}
  BY Resolution
<1>3. \A p \in Pairs : p[1] \in Range(ts)
  BY <1>1, <1>2, PairsAnswered
<1> QED BY <1>1, <1>2, <1>3, ProbeItemsFacts

-----------------------------------------------------------------------------
(* A step that leaves the answers alone leaves what is asked of them.      *)
LEMMA SameAnswers ==
  ASSUME UNCHANGED <<n, opts, answer>>
  PROVE  UNCHANGED <<AllAnswered, MustRefuse, Pairs, Resolved, Unresolved>>
<1>1. UNCHANGED <<AllAnswered, Pairs, Resolved, Unresolved>>
  BY DEF AllAnswered, Pairs, Resolved, Unresolved
<1>2. UNCHANGED MustRefuse
  BY <1>1 DEF MustRefuse
<1> QED BY <1>1, <1>2

(* What InScope leaves of an answer is an answer.                          *)
LEMMA InScopeFacts ==
  ASSUME NEW t \in Target, NEW addrs \in Lookup[t]
  PROVE  Known(InScope(addrs)) \in Answer
<1>1. addrs \in Seq(Addr) /\ IsInjective(addrs)
  BY LookupAssumption DEF Target, Addr
<1>2. InScope(addrs) \in Seq(Addr) /\ IsInjective(InScope(addrs))
  BY <1>1, ThoseFacts DEF InScope
<1> QED BY <1>2 DEF Answer

(* A task belongs to the phase that asked for its item.                    *)
LEMMA LookupRuns ==
  ASSUME IInv, NEW t \in Target, LookupItem(t) \in asked[Main], calling[Main]
  PROVE  stage = "resolving" /\ t \in 1..n
<1>1. stage \in {"resolving", "probing"}
  BY DEF IInv, OwnInv, OwnTypeOK, StageOK, Stage
<1>2. stage # "probing"
  BY LookupItems, PairsFinite DEF IInv, OwnInv, StageOK
<1>3. PICK u \in 1..n : LookupItem(t) = LookupItem(u)
  BY <1>1, <1>2 DEF IInv, OwnInv, StageOK
<1>4. u \in Target
  BY <1>3, TargetsNamed DEF IInv, OwnInv
<1> QED BY <1>1, <1>2, <1>3, <1>4, LookupItems

LEMMA ProbeRuns ==
  ASSUME IInv, NEW p \in Target \X Addr, p \in asked[Main], calling[Main]
  PROVE  stage = "probing" /\ p \in Pairs
<1>1. stage \in {"resolving", "probing"}
  BY DEF IInv, OwnInv, OwnTypeOK, StageOK, Stage
<1>2. stage # "resolving"
  <2>1. \A t \in 1..n : p # LookupItem(t)
    BY TargetsNamed, LookupItems DEF IInv, OwnInv
  <2> QED BY <2>1 DEF IInv, OwnInv, StageOK
<1> QED BY <1>1, <1>2 DEF IInv, OwnInv, StageOK

-----------------------------------------------------------------------------
(* The map, its permits, tasks and queue, is only ever used as it is meant *)
(* to be: each step of the sweep is a step of the map, or leaves it alone. *)
LEMMA FirstRequest ==
  ASSUME n \in 0..MaxTargets, n > 0
  PROVE  [t \in 1..n |-> LookupItem(t)] \in Request
BY BoundsAssumption DEF Request

LEMMA StepMaps ==
  ASSUME IInv, [ProbeNext]_allVars
  PROVE  [PM!Next]_(PM!mapVars)
<1>1. \A i \in Item : \/ PM!Return(Main, i) \/ PM!Panic(Main, i) \/ PM!Join(Main, i)
                      => PM!Next
  BY DEF PM!Next
<1>2. PM!Spawn(Main) \/ PM!Finish(Main) => PM!Next
  BY DEF PM!Next
<1>3. \A items \in Request : PM!Call(Main, items) => PM!Next
  BY DEF PM!Next, PM!Call
<1>4. CASE CheckArgs
  <2>1. CASE UNCHANGED mapVars
    BY <2>1 DEF mapVars, PM!mapVars
  <2>2. CASE n > 0 /\ PM!Call(Main, [t \in 1..n |-> LookupItem(t)])
    BY <2>2, <1>3, FirstRequest DEF IInv, OwnInv, OwnTypeOK
  <2> QED BY <1>4, <2>1, <2>2 DEF CheckArgs
<1>5. CASE Spawn
  BY <1>5, <1>2 DEF Spawn
<1>6. CASE \E t \in Target : ResolveTarget(t) \/ PanicResolve(t)
  BY <1>6, <1>1, LookupItems DEF ResolveTarget, PanicResolve
<1>7. CASE \E p \in Target \X Addr : ProbePair(p) \/ PanicProbe(p)
  BY <1>7, <1>1, LookupItems DEF ProbePair, PanicProbe
<1>8. CASE Join
  BY <1>8, <1>1 DEF Join
<1>9. CASE ReturnCall
  BY <1>9, <1>2 DEF ReturnCall
<1>10. CASE Preflight
  <2>1. CASE UNCHANGED mapVars
    BY <2>1 DEF mapVars, PM!mapVars
  <2>2. CASE PM!Call(Main, ProbeItems(resolved'))
    <3>1. ProbeItems(SortedTargets(out[Main])) \in Request
      BY <1>10, Preflighted DEF Preflight, IInv
    <3>2. resolved' = SortedTargets(out[Main])
      BY <1>10 DEF Preflight
    <3> QED BY <2>2, <3>1, <3>2, <1>3
  <2> QED BY <1>10, <2>1, <2>2 DEF Preflight
<1>11. CASE PrintAndExit
  BY <1>11 DEF PrintAndExit, mapVars, PM!mapVars
<1>12. CASE Exited \/ UNCHANGED allVars
  BY <1>12 DEF Exited, allVars, mapVars, PM!mapVars
<1> QED BY <1>4, <1>5, <1>6, <1>7, <1>8, <1>9, <1>10, <1>11, <1>12 DEF ProbeNext

LEMMA SameMap ==
  /\ PM!Init => PP!Init
  /\ [PM!Next]_(PM!mapVars) => [PP!Next]_(PP!mapVars)
<1>1. PM!Init => PP!Init
  BY DEF PM!Init, PP!Init
<1>2. /\ \A c, items : PM!Call(c, items) => PP!Call(c, items)
      /\ \A c : PM!Spawn(c) => PP!Spawn(c)
      /\ \A c, i : /\ PM!Return(c, i) => PP!Return(c, i)
                   /\ PM!Panic(c, i) => PP!Panic(c, i)
                   /\ PM!Join(c, i) => PP!Join(c, i)
      /\ \A c : PM!Finish(c) => PP!Finish(c)
  BY DEF PM!Call, PP!Call, PM!Spawn, PP!Spawn, PM!Return, PP!Return, PM!Panic,
         PP!Panic, PM!Join, PP!Join, PM!Finish, PP!Finish, PM!Range, PP!Range
<1>3. PM!Next => PP!Next
  BY <1>2 DEF PM!Next, PP!Next
<1> QED BY <1>1, <1>3 DEF PM!mapVars, PP!mapVars

LEMMA MapStep ==
  ASSUME IInv, [ProbeNext]_allVars
  PROVE  PP!IInv'
<1>1. [PP!Next]_(PP!mapVars)
  BY StepMaps, SameMap
<1>2. PP!Items' /\ PP!Permitted'
  BY <1>1, MapAssumptions, PP!ItemsStep, PP!PermittedStep DEF IInv, PP!IInv
<1> QED BY <1>2 DEF PP!IInv

-----------------------------------------------------------------------------
(* Phase 2 returned: its completion order is gone from what is printed.    *)
LEMMA Probed ==
  ASSUME IInv, stage = "probing", ~calling[Main]
  PROVE  /\ AllAnswered /\ AllJudged /\ ~MustRefuse /\ code = "running"
         /\ out[Main] \in Seq(Target \X Addr) /\ IsInjective(out[Main])
         /\ Range(out[Main]) = {p \in Pairs : verdict[p] # "lost"}
         /\ \A p \in Pairs : verdict[p] = "lost" => p \in dropped[Main]
<1>1. /\ OwnTypeOK /\ StageOK /\ PairOK /\ PP!IInv
      /\ asked[Main] = Pairs
      /\ AllAnswered /\ ~MustRefuse /\ code = "running"
  BY DEF IInv, OwnInv, StageOK
<1>2. /\ Open = Item \ asked[Main] /\ Good = Range(out[Main]) /\ Bad = dropped[Main]
      /\ asked[Main] = Good \cup Bad
  BY <1>1, Returned
<1>3. \A p \in Pairs : /\ verdict[p] # "pending"
                       /\ p \in Good => verdict[p] # "lost"
                       /\ p \in Bad => verdict[p] = "lost"
  BY <1>1, <1>2, PairsFinite DEF PairOK
<1>4. /\ \A p \in Pairs : verdict[p] = "lost" => p \in dropped[Main]
      /\ Range(out[Main]) = {p \in Pairs : verdict[p] # "lost"}
      /\ AllJudged
  BY <1>1, <1>2, <1>3 DEF AllJudged
<1>5. out[Main] \in Seq(Item) /\ IsInjective(out[Main])
  BY <1>1, MapFacts
<1>6. out[Main] \in Seq(Target \X Addr)
  <2> DEFINE o == out[Main]
  <2>1. o \in Seq(Item) /\ Range(o) \subseteq Target \X Addr
    BY <1>4, <1>5, PairsFinite
  <2> HIDE DEF o
  <2>2. Len(o) \in Nat /\ o \in [1..Len(o) -> Item] /\ DOMAIN o = 1..Len(o)
    BY <2>1
  <2>3. \A k \in 1..Len(o) : o[k] \in Target \X Addr
    BY <2>1, <2>2 DEF Range
  <2>4. o \in [1..Len(o) -> Target \X Addr]
    BY <2>2, <2>3
  <2>5. o \in Seq(Target \X Addr)
    BY <2>2, <2>4
  <2> QED BY <2>5 DEF o
<1> QED BY <1>1, <1>4, <1>5, <1>6

LEMMA ReportedFinite ==
  ASSUME NEW t
  PROVE  Reported(t) \in SUBSET Int /\ IsFiniteSet(Reported(t)) /\ Reported(t) \subseteq Addr
<1>1. Reported(t) \subseteq Addr
  BY DEF Reported
<1> QED BY <1>1, AddrFinite, FS_Subset

LEMMA ResolvedFinite ==
  ASSUME OwnTypeOK
  PROVE  /\ Resolved \in SUBSET Int /\ IsFiniteSet(Resolved)
         /\ Resolved \subseteq 1..n /\ Resolved \subseteq Target
<1>1. Resolved \subseteq 1..n
  BY DEF Resolved
<1> QED BY <1>1, TargetsNamed, TargetFinite, FS_Subset

LEMMA ReportType ==
  ASSUME OwnTypeOK
  PROVE  Report \in Seq([target : Target,
                         rows : Seq([addr : Addr, verdict : VerdictType])])
<1> DEFINE RowType == [addr : Addr, verdict : VerdictType]
           order == Ascending(Resolved)
<1>1. ASSUME NEW t \in Target
      PROVE  Block(t) \in [target : Target, rows : Seq(RowType)]
  <2> DEFINE addrs == Ascending(Reported(t))
             rows == [k \in DOMAIN addrs |-> Row(t, addrs[k])]
  <2>1. addrs \in Seq(Addr)
    BY ReportedFinite, AscendingFacts, WiderSeq
  <2> HIDE DEF addrs
  <2>2. DOMAIN addrs = 1..Len(addrs) /\ Len(addrs) \in Nat /\ \A k \in DOMAIN addrs : addrs[k] \in Addr
    BY <2>1
  <2>3. \A d \in Addr : Row(t, d) \in RowType
    BY DEF Row, OwnTypeOK
  <2> HIDE DEF RowType
  <2>4. rows \in [1..Len(addrs) -> RowType]
    BY <2>2, <2>3
  <2>5. rows \in Seq(RowType)
    BY <2>2, <2>4
  <2>6. Block(t) = [target |-> t, rows |-> rows]
    BY DEF Block, addrs
  <2> HIDE DEF rows
  <2> QED BY <2>5, <2>6
<1> HIDE DEF RowType
<1>2. order \in Seq(Target)
  BY ResolvedFinite, AscendingFacts, WiderSeq
<1>3. Report = [k \in DOMAIN order |-> Block(order[k])]
  BY DEF Report
<1> HIDE DEF order
<1>4. DOMAIN order = 1..Len(order) /\ Len(order) \in Nat /\ \A k \in DOMAIN order : order[k] \in Target
  BY <1>2
<1> DEFINE BlockType == [target : Target, rows : Seq(RowType)]
<1>5. \A k \in 1..Len(order) : Block(order[k]) \in BlockType
  BY <1>1, <1>4
<1> HIDE DEF BlockType
<1>6. Report \in [1..Len(order) -> BlockType]
  BY <1>3, <1>4, <1>5
<1>7. Report \in Seq(BlockType)
  BY <1>4, <1>6
<1> QED BY <1>7 DEF BlockType, RowType

(* A target's rows, collected as they completed and then sorted, are its   *)
(* reported addresses in order.                                            *)
LEMMA RowsInOrder ==
  ASSUME IInv, stage = "probing", ~calling[Main], NEW t \in Target
  PROVE  RowsOf(t) = Block(t).rows
<1> DEFINE s == PerTarget(t)
           key == [p \in Range(s) |-> p[2]]
           own == SortedBy(key, s)
           addrs == [k \in DOMAIN own |-> own[k][2]]
<1>1. /\ out[Main] \in Seq(Target \X Addr) /\ IsInjective(out[Main])
      /\ Range(out[Main]) = {p \in Pairs : verdict[p] # "lost"}
      /\ \A p \in Pairs : verdict[p] # "pending"
  BY Probed DEF AllJudged
<1>2. /\ s \in Seq(Target \X Addr) /\ IsInjective(s)
      /\ Range(s) = Range(out[Main]) \cap ({t} \X Addr)
  BY <1>1, ThoseFacts DEF PerTarget
<1>3. \A p : p \in Range(s) <=> \E d \in Reported(t) : p = <<t, d>>
  <2>1. \A p \in Range(s) : p[2] \in Reported(t) /\ p = <<t, p[2]>>
    BY <1>1, <1>2 DEF Reported
  <2>2. \A d \in Reported(t) : <<t, d>> \in Range(s)
    BY <1>1, <1>2 DEF Reported
  <2> QED BY <2>1, <2>2
<1>4. RowsOf(t) = [k \in DOMAIN own |-> Row(t, own[k][2])]
  BY DEF RowsOf
<1> HIDE DEF s
<1>5. key \in [Range(s) -> Int] /\ IsInjective(key)
  BY <1>3, ReportedFinite DEF IsInjective
<1>6. /\ own \in Seq(Target \X Addr) /\ Range(own) = Range(s)
      /\ \A i, j \in DOMAIN own : i < j => key[own[i]] < key[own[j]]
  BY <1>2, <1>5, SortedByFacts
<1> HIDE DEF own
<1>7. DOMAIN own = 1..Len(own) /\ Len(own) \in Nat
  BY <1>6
<1>8. \A k \in DOMAIN own : /\ own[k] \in Range(s)
                            /\ own[k][2] \in Reported(t)
                            /\ own[k] = <<t, own[k][2]>>
  <2>1. \A k \in DOMAIN own : own[k] \in Range(s)
    BY <1>6 DEF Range
  <2> QED BY <2>1, <1>3
<1>9. addrs \in [1..Len(own) -> Int]
  BY <1>7, <1>8, ReportedFinite
<1>10. addrs \in Seq(Int) /\ DOMAIN addrs = DOMAIN own
  BY <1>7, <1>9
<1>11. IsAscending(addrs)
  BY <1>6, <1>8 DEF IsAscending
<1>12. Range(addrs) = Reported(t)
  <2>1. ASSUME NEW d \in Reported(t) PROVE d \in Range(addrs)
    <3>1. PICK k \in DOMAIN own : own[k] = <<t, d>>
      BY <2>1, <1>3, <1>6 DEF Range
    <3>2. addrs[k] = d
      BY <3>1
    <3> QED BY <3>2, <1>10 DEF Range
  <2>2. ASSUME NEW d \in Range(addrs) PROVE d \in Reported(t)
    BY <2>2, <1>8 DEF Range
  <2> QED BY <2>1, <2>2
<1>13. addrs = Ascending(Reported(t))
  BY <1>10, <1>11, <1>12, ReportedFinite, AscendingIsIt
<1>14. RowsOf(t) = [k \in DOMAIN addrs |-> Row(t, addrs[k])]
  BY <1>4, <1>10
<1> HIDE DEF addrs
<1> QED BY <1>13, <1>14 DEF Block

LEMMA Regrouped ==
  ASSUME IInv, stage = "probing", ~calling[Main]
  PROVE  Grouped = Report
<1> DEFINE ts == Those(resolved, {t \in Target : HasDestinations(t)})
<1>1. /\ resolved \in Seq(Target) /\ IsAscending(resolved)
      /\ Range(resolved) = {t \in 1..n : answer[t].known = "yes"}
      /\ OwnTypeOK
  BY DEF IInv, OwnInv, OwnTypeOK, StageOK
<1>2. /\ ts \in Seq(Target) /\ IsAscending(ts)
      /\ Range(ts) = Range(resolved) \cap {t \in Target : HasDestinations(t)}
  BY <1>1, TargetFinite, ThoseFacts
<1>3. Range(ts) = Resolved
  BY <1>1, <1>2, TargetsNamed, AnswerFacts DEF Resolved, HasDestinations
<1>4. Grouped = [k \in DOMAIN ts |-> [target |-> ts[k], rows |-> RowsOf(ts[k])]]
  BY DEF Grouped
<1>5. ts \in Seq(Int)
  BY <1>2, TargetFinite, WiderSeq
<1>6. ts = Ascending(Resolved)
  BY <1>1, <1>2, <1>3, <1>5, ResolvedFinite, AscendingIsIt
<1> HIDE DEF ts
<1>7. \A k \in DOMAIN ts : ts[k] \in Target
  BY <1>2
<1>8. \A t \in Target : Block(t) = [target |-> t, rows |-> RowsOf(t)]
  <2> SUFFICES ASSUME NEW t \in Target PROVE Block(t) = [target |-> t, rows |-> RowsOf(t)]
    OBVIOUS
  <2>1. RowsOf(t) = Block(t).rows
    BY RowsInOrder
  <2>2. Block(t) = [target |-> t, rows |-> Block(t).rows]
    BY DEF Block
  <2> QED BY <2>1, <2>2
<1>9. Grouped = [k \in DOMAIN ts |-> Block(ts[k])]
  BY <1>4, <1>7, <1>8
<1> QED BY <1>6, <1>9 DEF Report

(* The verdicts of the report are those of the pairs, lost ones excepted.  *)
LEMMA RowFound ==
  ASSUME OwnTypeOK, LookupOK, NEW p \in Pairs, verdict[p] \notin {"pending", "lost"}
  PROVE  \E k \in DOMAIN Report :
           /\ Report[k].target = p[1]
           /\ \E j \in DOMAIN Report[k].rows :
                Report[k].rows[j] = [addr |-> p[2], verdict |-> verdict[p]]
<1> DEFINE order == Ascending(Resolved)
           addrs == Ascending(Reported(p[1]))
<1>1. p = <<p[1], p[2]>> /\ p[1] \in Target /\ p[2] \in Addr
  BY PairsFinite
<1>2. p[1] \in Resolved
  BY PairsAnswered DEF Resolved
<1>3. p[2] \in Reported(p[1])
  BY <1>1 DEF Reported
<1>4. Range(order) = Resolved /\ Range(addrs) = Reported(p[1])
  BY ResolvedFinite, ReportedFinite, AscendingFacts
<1>5. PICK k \in DOMAIN order : order[k] = p[1]
  BY <1>2, <1>4 DEF Range
<1>6. PICK j \in DOMAIN addrs : addrs[j] = p[2]
  BY <1>3, <1>4 DEF Range
<1>7. /\ DOMAIN Report = DOMAIN order
      /\ Report[k] = Block(p[1])
  BY <1>5 DEF Report
<1>8. /\ Block(p[1]).target = p[1]
      /\ DOMAIN Block(p[1]).rows = DOMAIN addrs
      /\ Block(p[1]).rows[j] = Row(p[1], p[2])
  BY <1>6 DEF Block
<1>9. Row(p[1], p[2]) = [addr |-> p[2], verdict |-> verdict[p]]
  BY <1>1 DEF Row
<1> HIDE DEF order, addrs
<1> QED BY <1>5, <1>6, <1>7, <1>8, <1>9

LEMMA RowSound ==
  ASSUME OwnTypeOK, NEW k \in DOMAIN Report, NEW j \in DOMAIN Report[k].rows
  PROVE  \E p \in Pairs : /\ Report[k].rows[j].verdict = verdict[p]
                          /\ verdict[p] \notin {"pending", "lost"}
<1> DEFINE order == Ascending(Resolved)
<1>1. DOMAIN Report = DOMAIN order /\ Report[k] = Block(order[k])
  BY DEF Report
<1> HIDE DEF order
<1> DEFINE t == order[k]
           addrs == Ascending(Reported(t))
<1>2. /\ Block(t).rows = [i \in DOMAIN addrs |-> Row(t, addrs[i])]
  BY DEF Block
<1>3. Range(addrs) = Reported(t)
  BY ReportedFinite, AscendingFacts
<1> HIDE DEF addrs, t
<1>4. j \in DOMAIN addrs /\ Report[k].rows[j] = Row(t, addrs[j])
  BY <1>1, <1>2 DEF t
<1>5. addrs[j] \in Reported(t)
  BY <1>3, <1>4 DEF Range
<1>6. <<t, addrs[j]>> \in Pairs /\ verdict[<<t, addrs[j]>>] \notin {"pending", "lost"}
  BY <1>5 DEF Reported
<1>7. Report[k].rows[j].verdict = verdict[<<t, addrs[j]>>]
  BY <1>4 DEF Row
<1> QED BY <1>6, <1>7

LEMMA VerdictsFound ==
  ASSUME IInv, stage = "probing", ~calling[Main]
  PROVE  \A v : v \in Verdicts <=>
                  \E p \in Pairs : verdict[p] = v /\ v \notin {"pending", "lost"}
<1>1. Grouped = Report
  BY Regrouped
<1>2. OwnTypeOK /\ LookupOK
  BY DEF IInv, OwnInv
<1>3. \A v : v \in Verdicts <=> \E k \in DOMAIN Report : \E j \in DOMAIN Report[k].rows :
                                  Report[k].rows[j].verdict = v
  BY <1>1 DEF Verdicts
<1>4. ASSUME NEW v, v \in Verdicts
      PROVE  \E p \in Pairs : verdict[p] = v /\ v \notin {"pending", "lost"}
  BY <1>2, <1>3, <1>4, RowSound
<1>5. ASSUME NEW p \in Pairs, verdict[p] \notin {"pending", "lost"}
      PROVE  verdict[p] \in Verdicts
  <2>1. \E k \in DOMAIN Report : \E j \in DOMAIN Report[k].rows :
          Report[k].rows[j] = [addr |-> p[2], verdict |-> verdict[p]]
    BY <1>2, <1>5, RowFound
  <2>2. PICK k \in DOMAIN Report : \E j \in DOMAIN Report[k].rows :
          Report[k].rows[j] = [addr |-> p[2], verdict |-> verdict[p]]
    BY <2>1
  <2>3. PICK j \in DOMAIN Report[k].rows :
          Report[k].rows[j] = [addr |-> p[2], verdict |-> verdict[p]]
    BY <2>2
  <2>4. Report[k].rows[j].verdict = verdict[p]
    BY <2>3
  <2> QED BY <2>4, <1>3
<1> QED BY <1>4, <1>5

LEMMA ExitCodeAgrees ==
  ASSUME IInv, stage = "probing", ~calling[Main]
  PROVE  ExitCode = Verdict /\ Verdict \in {"success", "failure"}
<1>1. /\ OwnTypeOK
      /\ resolved \in Seq(Target)
      /\ Range(resolved) = {t \in 1..n : answer[t].known = "yes"}
  BY DEF IInv, OwnInv, OwnTypeOK, StageOK
<1>2. (\E k \in DOMAIN resolved : ~HasDestinations(resolved[k])) <=> Unresolved
  <2>1. (\E k \in DOMAIN resolved : ~HasDestinations(resolved[k]))
          <=> \E t \in Range(resolved) : answer[t].at = <<>>
    BY DEF Range, HasDestinations
  <2>2. \A t \in 1..n : answer[t].known = "yes" /\ answer[t].at = <<>> <=> answer[t] = Known(<<>>)
    BY <1>1, TargetsNamed, AnswerFacts
  <2> QED BY <1>1, <2>1, <2>2 DEF Unresolved
<1>3. \A p \in Pairs : verdict[p] \in {"ok", "unexpected", "failed", "lost"}
  <2>1. \A p \in Pairs : verdict[p] # "pending"
    BY Probed DEF AllJudged
  <2> QED BY <2>1, <1>1, PairsFinite DEF OwnTypeOK, VerdictType
<1>4. Verdicts \ {"ok"} # {} <=> \E p \in Pairs : verdict[p] \in {"unexpected", "failed"}
  BY <1>3, VerdictsFound
<1>5. "failed" \in Verdicts <=> \E p \in Pairs : verdict[p] = "failed"
  BY VerdictsFound
<1>6. ExitCode = Verdict
  BY <1>2, <1>4, <1>5 DEF ExitCode, Verdict
<1> QED BY <1>6 DEF Verdict

-----------------------------------------------------------------------------
(* OwnInv holds at the start and is kept by each step.                     *)
LEMMA InvInit == ProbeInit => IInv
<1> SUFFICES ASSUME ProbeInit PROVE IInv
  OBVIOUS
<1>1. PM!Init /\ PP!Init
  BY SameMap DEF ProbeInit
<1>2. PP!IInv
  BY <1>1, MapAssumptions, PP!ItemsInit, PP!PermittedInit DEF PP!IInv
<1>3. /\ calling[Main] = FALSE /\ asked[Main] = {} /\ panics = 0
  BY <1>1 DEF PM!Init
<1>4. /\ n \in 0..MaxTargets /\ opts \in Options
      /\ answer = [t \in Target |-> Pending]
      /\ verdict = [p \in Target \X Addr |-> "pending"]
      /\ report = <<>> /\ code = "running" /\ stage = "args"
      /\ resolved = <<>> /\ artifact = Untouched
  BY DEF ProbeInit, Init
<1>5. OwnTypeOK
  BY <1>4 DEF OwnTypeOK, Answer, VerdictType, Stage, Artifact
<1>6. LookupOK /\ LossOK
  BY <1>4, TargetsNamed, <1>5, AnswerFields DEF LookupOK, LossOK
<1>7. StageOK /\ PairOK /\ ArtifactOK /\ ExitOK
  BY <1>3, <1>4 DEF StageOK, PairOK, NothingJudged, ArtifactOK, ExitOK
<1> QED BY <1>2, <1>5, <1>6, <1>7 DEF IInv, OwnInv

(* A step of the map that settles no item.                                 *)
LEMMA QuietStep ==
  ASSUME IInv, calling[Main],
         UNCHANGED <<sweepVars, mainVars, asked, Open, Good, Bad, panics>>
  PROVE  OwnInv'
<1>1. UNCHANGED <<n, opts, answer, verdict, report, code, stage, resolved, artifact>>
  BY DEF sweepVars, mainVars
<1>2. UNCHANGED <<AllAnswered, MustRefuse, Pairs, Resolved, Unresolved>>
  BY <1>1, SameAnswers
<1>3. stage \notin {"args", "exited"}
  BY DEF IInv, OwnInv, StageOK
<1>4. OwnTypeOK'
  BY <1>1 DEF IInv, OwnInv, OwnTypeOK
<1>5. StageOK'
  BY <1>1, <1>2, <1>3 DEF IInv, OwnInv, StageOK
<1>6. LookupOK'
  BY <1>1 DEF IInv, OwnInv, LookupOK
<1>7. PairOK' /\ LossOK'
  BY <1>1 DEF IInv, OwnInv, PairOK, LossOK, NothingJudged
<1>8. ArtifactOK' /\ ExitOK'
  BY <1>1, <1>2, <1>3 DEF IInv, OwnInv, ArtifactOK, ExitOK
<1> QED BY <1>4, <1>5, <1>6, <1>7, <1>8 DEF OwnInv

(* Phase 1 settles a lookup: it returned, or was lost to a panic.          *)
LEMMA LookupStep ==
  ASSUME IInv, NEW t \in Target,
         LookupItem(t) \in asked[Main], LookupItem(t) \in Open, calling[Main],
         NEW a \in Answer, answer' = [answer EXCEPT ![t] = a],
         UNCHANGED <<n, opts, verdict, report, code, stage, resolved, artifact, asked>>,
         Open' = Open \ {LookupItem(t)},
         \/ /\ Good' = Good \cup {LookupItem(t)} /\ Bad' = Bad
            /\ a.known = "yes" /\ UNCHANGED panics
         \/ /\ Good' = Good /\ Bad' = Bad \cup {LookupItem(t)}
            /\ a.known = "lost" /\ panics' # 0
  PROVE  OwnInv' /\ answer[t] = Pending /\ t \in 1..n /\ stage = "resolving"
<1>1. stage = "resolving" /\ t \in 1..n
  BY LookupRuns
<1>2. OwnTypeOK /\ StageOK /\ LookupOK /\ PairOK /\ LossOK
  BY DEF IInv, OwnInv
<1>3. /\ answer'[t] = a /\ \A u \in Target \ {t} : answer'[u] = answer[u]
      /\ answer' \in [Target -> Answer]
  BY <1>2 DEF OwnTypeOK
<1>4. answer[t].known = "pending" /\ answer[t] = Pending
  BY <1>1, <1>2, AnswerFacts DEF LookupOK
<1>5. LookupItem(t) \notin Good /\ LookupItem(t) \notin Bad
  BY <1>1, <1>2, <1>4 DEF LookupOK
<1>6. OwnTypeOK'
  BY <1>2, <1>3 DEF OwnTypeOK
<1>7. StageOK'
  BY <1>1, <1>2 DEF StageOK
<1>8. LookupOK'
  <2>1. \A u \in (Target \ (1..n))' : (answer[u] = Pending)'
    BY <1>1, <1>2, <1>3 DEF LookupOK
  <2>2. ASSUME NEW u \in Target
        PROVE  /\ answer'[u].known = "pending" <=> LookupItem(u) \in Open'
               /\ LookupItem(u) \in Good' => answer'[u].known = "yes"
               /\ LookupItem(u) \in Bad' => answer'[u].known = "lost"
    <3>1. CASE u = t
      BY <1>3, <1>5, <3>1
    <3>2. CASE u # t
      <4>1. LookupItem(u) # LookupItem(t)
        BY <3>2, LookupItems
      <4>2. answer'[u] = answer[u]
        BY <1>3, <3>2
      <4>3. /\ LookupItem(u) \in Open' <=> LookupItem(u) \in Open
            /\ LookupItem(u) \in Good' <=> LookupItem(u) \in Good
            /\ LookupItem(u) \in Bad' <=> LookupItem(u) \in Bad
        BY <4>1
      <4> QED BY <1>1, <1>2, <4>2, <4>3 DEF LookupOK
    <3> QED BY <3>1, <3>2
  <2>3. Target' = Target /\ \A u : LookupItem(u)' = LookupItem(u)
    BY DEF Target, LookupItem
  <2>4. stage' = "resolving"
    BY <1>1
  <2> QED BY <2>1, <2>2, <2>3, <2>4 DEF LookupOK
<1>9. PairOK'
  BY <1>1, <1>2 DEF PairOK, NothingJudged
<1>10. LossOK'
  <2>1. \A p \in Target \X Addr : verdict'[p] = verdict[p]
    OBVIOUS
  <2> QED BY <1>2, <1>3, <2>1 DEF LossOK
<1>11. ArtifactOK' /\ ExitOK'
  BY <1>1 DEF ArtifactOK, ExitOK
<1> QED BY <1>1, <1>4, <1>6, <1>7, <1>8, <1>9, <1>10, <1>11 DEF OwnInv

(* Phase 2 settles a probe likewise.                                       *)
LEMMA ProbeStep ==
  ASSUME IInv, NEW p \in Target \X Addr,
         p \in asked[Main], p \in Open, calling[Main],
         NEW v \in VerdictType, verdict' = [verdict EXCEPT ![p] = v],
         UNCHANGED <<n, opts, answer, report, code, stage, resolved, asked>>,
         artifact' \in Artifact, artifact' = artifact \/ artifact' # Untouched,
         Open' = Open \ {p},
         \/ /\ Good' = Good \cup {p} /\ Bad' = Bad
            /\ v \in {"ok", "unexpected", "failed"} /\ UNCHANGED panics
         \/ /\ Good' = Good /\ Bad' = Bad \cup {p}
            /\ v = "lost" /\ panics' # 0
  PROVE  OwnInv' /\ verdict[p] = "pending" /\ p \in Pairs /\ stage = "probing"
<1>1. stage = "probing" /\ p \in Pairs
  BY ProbeRuns
<1>2. OwnTypeOK /\ StageOK /\ LookupOK /\ PairOK /\ LossOK /\ ArtifactOK
  BY DEF IInv, OwnInv
<1>3. UNCHANGED <<AllAnswered, MustRefuse, Pairs, Resolved, Unresolved>>
  BY SameAnswers
<1>4. /\ verdict'[p] = v /\ \A q \in (Target \X Addr) \ {p} : verdict'[q] = verdict[q]
      /\ verdict' \in [Target \X Addr -> VerdictType]
  BY <1>2 DEF OwnTypeOK
<1>5. verdict[p] = "pending"
  BY <1>1, <1>2 DEF PairOK
<1>6. p \notin Good /\ p \notin Bad
  BY <1>1, <1>2, <1>5 DEF PairOK
<1>7. OwnTypeOK'
  BY <1>2, <1>4 DEF OwnTypeOK
<1>8. StageOK'
  BY <1>1, <1>2, <1>3 DEF StageOK
<1>9. LookupOK'
  BY <1>1, <1>2 DEF LookupOK
<1>10. PairOK'
  <2>1. ASSUME NEW q \in Target \X Addr
        PROVE  /\ verdict'[q] = "pending" <=> q \in Open'
               /\ q \in Good' => verdict'[q] \in {"ok", "unexpected", "failed"}
               /\ q \in Bad' => verdict'[q] = "lost"
    <3>1. CASE q = p
      BY <1>4, <1>6, <3>1
    <3>2. CASE q # p
      <4>1. verdict'[q] = verdict[q]
        BY <1>4, <3>2
      <4>2. /\ q \in Open' <=> q \in Open
            /\ q \in Good' <=> q \in Good
            /\ q \in Bad' <=> q \in Bad
        BY <3>2
      <4> QED BY <1>1, <1>2, <4>1, <4>2 DEF PairOK
    <3> QED BY <3>1, <3>2
  <2>2. (Target \X Addr)' = Target \X Addr
    BY DEF Target, Addr
  <2> QED BY <1>1, <2>1, <2>2 DEF PairOK
<1>11. LossOK'
  BY <1>2, <1>4 DEF LossOK
<1>12. ArtifactOK'
  BY <1>1, <1>2, <1>3 DEF ArtifactOK
<1>13. ExitOK'
  BY <1>1 DEF ExitOK
<1> QED BY <1>1, <1>5, <1>7, <1>8, <1>9, <1>10, <1>11, <1>12, <1>13 DEF OwnInv

-----------------------------------------------------------------------------
(* The steps of run_probe_flow itself.                                     *)
LEMMA CheckArgsStep == IInv /\ CheckArgs => OwnInv'
<1> SUFFICES ASSUME IInv, CheckArgs PROVE OwnInv'
  OBVIOUS
<1>1. /\ OwnTypeOK /\ StageOK /\ LookupOK /\ PairOK /\ LossOK /\ PP!IInv
      /\ stage = "args" /\ code = "running" /\ report = <<>> /\ ~calling[Main]
      /\ NothingJudged /\ \A t \in Target : answer[t] = Pending
      /\ \A t \in Target \ (1..n) : answer[t] = Pending
  BY DEF IInv, OwnInv, CheckArgs, StageOK, LookupOK, PairOK
<1>2. UNCHANGED <<n, opts, answer, verdict, report, resolved, artifact>>
  BY DEF CheckArgs
<1>3. CASE UNCHANGED mapVars /\ stage' = "exited" /\ code' \in {"usage", "failure"}
  <2>1. OwnTypeOK'
    BY <1>1, <1>2, <1>3 DEF OwnTypeOK, Stage
  <2>2. StageOK'
    BY <1>1, <1>2, <1>3 DEF StageOK, mapVars
  <2>3. LookupOK'
    BY <1>1, <1>2, <1>3 DEF LookupOK
  <2>4. PairOK' /\ ArtifactOK' /\ ExitOK'
    BY <1>1, <1>2, <1>3 DEF PairOK, ArtifactOK, ExitOK
  <2>5. LossOK'
    BY <1>1, <1>2, <1>3 DEF LossOK, mapVars
  <2> QED BY <2>1, <2>2, <2>3, <2>4, <2>5 DEF OwnInv
<1>4. CASE /\ opts.args = "ok" /\ n > 0 /\ ~(opts.outputBody /\ n > 1)
           /\ PM!Call(Main, [t \in 1..n |-> LookupItem(t)])
           /\ stage' = "resolving" /\ UNCHANGED code
  <2>1. /\ asked'[Main] = Range([t \in 1..n |-> LookupItem(t)])
        /\ Open' = Item /\ Good' = {} /\ Bad' = {} /\ UNCHANGED panics
    BY <1>1, <1>4, CallOpens
  <2>2. asked'[Main] = {LookupItem(t) : t \in 1..n}
    BY <2>1 DEF Range
  <2>3. OwnTypeOK'
    BY <1>1, <1>2, <1>4 DEF OwnTypeOK, Stage
  <2>4. StageOK'
    BY <1>1, <1>2, <1>4, <2>2 DEF StageOK, LookupItem
  <2>5. LookupOK'
    <3>1. \A t \in Target : answer'[t].known = "pending" /\ LookupItem(t) \in Open'
      BY <1>1, <1>2, <2>1, AnswerFields, LookupItems
    <3> QED BY <1>1, <1>2, <1>4, <2>1, <3>1 DEF LookupOK, LookupItem, Target
  <2>6. PairOK'
    BY <1>1, <1>2, <1>4 DEF PairOK, NothingJudged
  <2>7. LossOK'
    BY <1>1, <1>2, <2>1 DEF LossOK
  <2>8. ArtifactOK' /\ ExitOK'
    BY <1>4 DEF ArtifactOK, ExitOK
  <2> QED BY <2>3, <2>4, <2>5, <2>6, <2>7, <2>8 DEF OwnInv
<1> QED BY <1>3, <1>4 DEF CheckArgs, Exit

LEMMA CheckArgsRefuses == IInv /\ CheckArgs /\ stage' = "exited" => Refuse
BY DEF IInv, OwnInv, StageOK, PairOK, CheckArgs, Exit, Refuse, MustRefuse

LEMMA PreflightStep == IInv /\ Preflight => OwnInv'
<1> SUFFICES ASSUME IInv, Preflight PROVE OwnInv'
  OBVIOUS
<1> DEFINE ts == SortedTargets(out[Main])
           count == Len(ProbeItems(ts))
<1>1. /\ OwnTypeOK /\ StageOK /\ LookupOK /\ PairOK /\ LossOK /\ OwnInv /\ PP!IInv
      /\ stage = "resolving" /\ code = "running" /\ report = <<>> /\ ~calling[Main]
      /\ opts.args = "ok" /\ n > 0 /\ ~(opts.outputBody /\ n > 1)
      /\ NothingJudged
      /\ \A t \in Target \ (1..n) : answer[t] = Pending
  BY DEF IInv, OwnInv, Preflight, StageOK, LookupOK, PairOK
<1>2. UNCHANGED <<n, opts, answer, verdict, report>> /\ resolved' = ts
  BY DEF Preflight
<1>3. UNCHANGED <<AllAnswered, MustRefuse, Pairs, Resolved, Unresolved>>
  BY <1>2, SameAnswers
<1>4. /\ ts \in Seq(Target) /\ IsAscending(ts)
      /\ Range(ts) = {t \in 1..n : answer[t].known = "yes"}
      /\ Range(ProbeItems(ts)) = Pairs
      /\ count = Cardinality(Pairs)
      /\ AllAnswered
  BY <1>1, Preflighted, Resolution
<1>5. CASE UNCHANGED <<artifact, mapVars>> /\ stage' = "exited" /\ code' = "failure"
  <2>1. OwnTypeOK'
    BY <1>1, <1>2, <1>4, <1>5 DEF OwnTypeOK, Stage
  <2>2. StageOK'
    BY <1>1, <1>2, <1>5 DEF StageOK, mapVars
  <2>3. LookupOK'
    BY <1>1, <1>2, <1>5 DEF LookupOK
  <2>4. PairOK' /\ ArtifactOK' /\ ExitOK'
    BY <1>1, <1>2, <1>5 DEF PairOK, ArtifactOK, ExitOK
  <2>5. LossOK'
    BY <1>1, <1>2, <1>5 DEF LossOK, mapVars
  <2> QED BY <2>1, <2>2, <2>3, <2>4, <2>5 DEF OwnInv
<1>6. CASE /\ opts.outputBody => count = 0 \/ (count = 1 /\ opts.writable)
           /\ artifact' = Created(count)
           /\ PM!Call(Main, ProbeItems(ts))
           /\ stage' = "probing"
           /\ UNCHANGED code
  <2>1. /\ asked'[Main] = Pairs
        /\ Open' = Item /\ Good' = {} /\ Bad' = {} /\ UNCHANGED panics
    BY <1>1, <1>4, <1>6, CallOpens
  <2>2. ~MustRefuse
    <3>1. opts.outputBody => Cardinality(Pairs) = 0 \/ (Cardinality(Pairs) = 1 /\ opts.writable)
      BY <1>4, <1>6
    <3>2. Cardinality(Pairs) = 0 <=> Pairs = {}
      BY PairsFinite, FS_EmptySet
    <3> QED BY <1>1, <3>1, <3>2, PairsFinite DEF MustRefuse, OwnTypeOK
  <2>3. artifact' \in Artifact
    BY <1>1, <1>6 DEF Created, OwnTypeOK, Artifact
  <2>4. OwnTypeOK'
    BY <1>1, <1>2, <1>4, <1>6, <2>3 DEF OwnTypeOK, Stage
  <2>5. StageOK'
    BY <1>1, <1>2, <1>3, <1>4, <1>6, <2>1, <2>2 DEF StageOK
  <2>6. LookupOK'
    BY <1>1, <1>2, <1>6 DEF LookupOK
  <2>7. PairOK'
    <3>1. \A p \in Target \X Addr : verdict'[p] = "pending" /\ p \in Open'
      BY <1>1, <1>2, <2>1, LookupItems DEF NothingJudged
    <3> QED BY <1>6, <2>1, <3>1 DEF PairOK, Target, Addr
  <2>8. LossOK'
    BY <1>1, <1>2, <2>1 DEF LossOK
  <2>9. ArtifactOK'
    <3>1. (opts.outputBody /\ Pairs # {}) => count = 1
      BY <1>4, <1>6, PairsFinite, FS_EmptySet
    <3> QED BY <1>2, <1>3, <1>6, <3>1
            DEF ArtifactOK, Created, Emptied, Untouched
  <2>10. ExitOK'
    BY <1>6 DEF ExitOK
  <2> QED BY <2>4, <2>5, <2>6, <2>7, <2>8, <2>9, <2>10 DEF OwnInv
<1> QED BY <1>2, <1>5, <1>6 DEF Preflight, Exit

LEMMA PreflightRefuses == IInv /\ Preflight /\ stage' = "exited" => Refuse
<1> SUFFICES ASSUME IInv, Preflight, stage' = "exited" PROVE Refuse
  OBVIOUS
<1> DEFINE count == Len(ProbeItems(resolved'))
<1>1. /\ OwnInv /\ PP!IInv
      /\ stage = "resolving" /\ code = "running" /\ ~calling[Main]
      /\ opts.args = "ok" /\ NothingJudged
  BY DEF IInv, OwnInv, Preflight, StageOK, PairOK
<1>2. UNCHANGED <<n, opts, answer, verdict, report>>
      /\ resolved' = SortedTargets(out[Main])
  BY DEF Preflight
<1>3. count = Cardinality(Pairs) /\ AllAnswered
  BY <1>1, <1>2, Preflighted, Resolution
<1>4. /\ opts.outputBody /\ (count > 1 \/ (count = 1 /\ ~opts.writable))
      /\ code' = "failure"
  BY DEF Preflight, Exit
<1>5. Pairs = {} => Cardinality(Pairs) = 0
  BY FS_EmptySet
<1>6. MustRefuse
  BY <1>3, <1>4, <1>5 DEF MustRefuse
<1> QED BY <1>1, <1>2, <1>4, <1>6 DEF Refuse

LEMMA PrintConcludes == IInv /\ PrintAndExit => Conclude
<1> SUFFICES ASSUME IInv, PrintAndExit PROVE Conclude
  OBVIOUS
<1>1. stage = "probing" /\ ~calling[Main]
  BY DEF PrintAndExit
<1>2. /\ AllAnswered /\ AllJudged /\ ~MustRefuse /\ code = "running"
      /\ Grouped = Report /\ ExitCode = Verdict
  BY <1>1, Probed, Regrouped, ExitCodeAgrees
<1> QED BY <1>2 DEF PrintAndExit, Exit, Conclude

LEMMA PrintStep == IInv /\ PrintAndExit => OwnInv'
<1> SUFFICES ASSUME IInv, PrintAndExit PROVE OwnInv'
  OBVIOUS
<1>1. /\ OwnTypeOK /\ StageOK /\ LookupOK /\ LossOK /\ ArtifactOK
      /\ stage = "probing" /\ ~calling[Main]
      /\ \A t \in Target \ (1..n) : answer[t] = Pending
      /\ n > 0
  BY DEF IInv, OwnInv, PrintAndExit, StageOK, LookupOK
<1>2. /\ UNCHANGED <<n, opts, answer, verdict, resolved, artifact, calling, dropped, panics>>
      /\ stage' = "exited"
  BY DEF PrintAndExit, Exit, mapVars
<1>3. /\ AllAnswered /\ AllJudged
      /\ \A p \in Pairs : verdict[p] = "lost" => p \in dropped[Main]
      /\ Grouped = Report /\ ExitCode = Verdict /\ Verdict \in {"success", "failure"}
  BY <1>1, Probed, Regrouped, ExitCodeAgrees
<1>4. \/ report' = <<>> /\ code' = "failure"
      \/ report' = Report /\ code' = Verdict
  BY <1>3 DEF PrintAndExit, Exit
<1>5. UNCHANGED <<AllAnswered, MustRefuse, Pairs, Resolved, Unresolved>>
  BY <1>2, SameAnswers
<1>6. UNCHANGED <<AllJudged, Report, Verdict>>
  BY <1>2, <1>5 DEF AllJudged, Report, Block, Reported, Row, Verdict
<1>7. OwnTypeOK'
  <2> DEFINE S == Seq([target : Target, rows : Seq([addr : Addr, verdict : VerdictType])])
  <2>1. report \in S /\ report = <<>>
    BY <1>1 DEF OwnTypeOK, StageOK
  <2>2. Report \in S
    BY <1>1, ReportType
  <2> HIDE DEF S
  <2>3. report' \in S
    BY <1>4, <2>1, <2>2
  <2>4. code' \in {"running", "success", "failure", "usage"}
    BY <1>3, <1>4
  <2>5. S' = S
    BY DEF S, Target, Addr, VerdictType
  <2> QED BY <1>1, <1>2, <2>3, <2>4, <2>5 DEF S, OwnTypeOK, Stage
<1>8. StageOK'
  BY <1>1, <1>2, <1>3, <1>4 DEF StageOK
<1>9. LookupOK'
  BY <1>1, <1>2 DEF LookupOK
<1>10. PairOK' /\ ArtifactOK'
  BY <1>2 DEF PairOK, ArtifactOK
<1>11. LossOK'
  BY <1>1, <1>2 DEF LossOK
<1>12. ExitOK'
  BY <1>1, <1>2, <1>3, <1>4, <1>5, <1>6 DEF ExitOK, ArtifactOK, AllJudged
<1> QED BY <1>7, <1>8, <1>9, <1>10, <1>11, <1>12 DEF OwnInv

-----------------------------------------------------------------------------
(* Each step keeps OwnInv, and is a step of the abstract sweep or          *)
(* invisible to it.                                                        *)
LEMMA ResolveStep ==
  ASSUME IInv, NEW t \in Target, ResolveTarget(t)
  PROVE  OwnInv' /\ Learn(t) /\ t \in 1..n
<1>1. PM!Return(Main, LookupItem(t)) /\ LookupItem(t) \in Item /\ PP!IInv
  BY LookupItems DEF ResolveTarget, IInv
<1>2. /\ LookupItem(t) \in asked[Main] /\ LookupItem(t) \in Open /\ calling[Main]
      /\ Open' = Open \ {LookupItem(t)}
      /\ Good' = Good \cup {LookupItem(t)} /\ Bad' = Bad
      /\ UNCHANGED <<asked, calling, panics>>
  BY <1>1, ReturnSettles
<1>3. UNCHANGED <<n, opts, verdict, report, code, stage, resolved, artifact>>
  BY DEF ResolveTarget, mainVars
<1>4. PICK addrs \in Lookup[t] : answer' = [answer EXCEPT ![t] = Known(InScope(addrs))]
  BY DEF ResolveTarget
<1> DEFINE a == Known(InScope(addrs))
<1>5. a \in Answer /\ a.known = "yes"
  BY InScopeFacts, AnswerFields
<1>6. OwnInv' /\ answer[t] = Pending /\ t \in 1..n /\ stage = "resolving"
  <2> HIDE DEF a
  <2> QED BY <1>2, <1>3, <1>4, <1>5, LookupStep DEF a
<1>7. code = "running" /\ opts.args = "ok"
  BY <1>6 DEF IInv, OwnInv, StageOK
<1>8. Learn(t)
  BY <1>3, <1>4, <1>6, <1>7 DEF Learn
<1> QED BY <1>6, <1>8

LEMMA PanicResolveStep ==
  ASSUME IInv, NEW t \in Target, PanicResolve(t)
  PROVE  OwnInv' /\ Learn(t) /\ t \in 1..n
<1>1. PM!Panic(Main, LookupItem(t)) /\ LookupItem(t) \in Item /\ PP!IInv
  BY LookupItems DEF PanicResolve, IInv
<1>2. /\ LookupItem(t) \in asked[Main] /\ LookupItem(t) \in Open /\ calling[Main]
      /\ Open' = Open \ {LookupItem(t)}
      /\ Good' = Good /\ Bad' = Bad \cup {LookupItem(t)}
      /\ panics' # 0 /\ UNCHANGED <<asked, calling>>
  BY <1>1, PanicSettles
<1>3. /\ UNCHANGED <<n, opts, verdict, report, code, stage, resolved, artifact>>
      /\ answer' = [answer EXCEPT ![t] = LostAnswer]
  BY DEF PanicResolve, mainVars
<1>4. LostAnswer \in Answer /\ LostAnswer.known = "lost"
  BY AnswerFields DEF Answer
<1>5. OwnInv' /\ answer[t] = Pending /\ t \in 1..n /\ stage = "resolving"
  BY <1>2, <1>3, <1>4, LookupStep
<1>6. code = "running" /\ opts.args = "ok"
  BY <1>5 DEF IInv, OwnInv, StageOK
<1>7. Learn(t)
  BY <1>3, <1>5, <1>6 DEF Learn
<1> QED BY <1>5, <1>7

LEMMA ProbePairStep ==
  ASSUME IInv, NEW p \in Target \X Addr, ProbePair(p)
  PROVE  /\ OwnInv' /\ Judge(p) /\ p \in Pairs /\ stage' = "probing"
         /\ artifact' # artifact => Cardinality(Pairs) = 1
<1>1. PM!Return(Main, p) /\ p \in Item /\ PP!IInv
  BY LookupItems DEF ProbePair, IInv
<1>2. /\ p \in asked[Main] /\ p \in Open /\ calling[Main]
      /\ Open' = Open \ {p}
      /\ Good' = Good \cup {p} /\ Bad' = Bad
      /\ UNCHANGED <<asked, calling, panics>>
  BY <1>1, ReturnSettles
<1>3. UNCHANGED <<n, opts, answer, report, code, stage, resolved>>
  BY DEF ProbePair
<1>4. PICK v \in {"ok", "unexpected", "failed"} :
        /\ verdict' = [verdict EXCEPT ![p] = v]
        /\ IF opts.outputBody /\ v # "failed"
           THEN artifact' \in {BodyOf(p), Partial}
           ELSE UNCHANGED artifact
  BY DEF ProbePair
<1>5. artifact' = artifact \/ (opts.outputBody /\ artifact' \in {BodyOf(p), Partial})
  BY <1>4
<1>6. artifact' \in Artifact /\ (artifact' = artifact \/ artifact' # Untouched)
  <2>1. artifact \in Artifact
    BY DEF IInv, OwnInv, OwnTypeOK
  <2>2. BodyOf(p) \in Artifact /\ Partial \in Artifact
    BY DEF Artifact
  <2>3. BodyOf(p) # Untouched /\ Partial # Untouched
    BY DEF BodyOf, Partial, Untouched
  <2> QED BY <1>5, <2>1, <2>2, <2>3
<1>7. v \in VerdictType \ {"pending"}
  BY DEF VerdictType
<1>8. OwnInv' /\ verdict[p] = "pending" /\ p \in Pairs /\ stage = "probing"
  BY <1>2, <1>3, <1>4, <1>6, <1>7, ProbeStep
<1>9. code = "running" /\ AllAnswered /\ ~MustRefuse
  BY <1>8 DEF IInv, OwnInv, StageOK
<1>10. Judge(p)
  BY <1>3, <1>4, <1>7, <1>8, <1>9 DEF Judge
<1>11. artifact' # artifact => Cardinality(Pairs) = 1
  <2>1. Cardinality(Pairs) # 0
    BY <1>8, PairsFinite, FS_EmptySet
  <2> QED BY <1>5, <1>9, <2>1, PairsFinite DEF MustRefuse
<1> QED BY <1>3, <1>8, <1>10, <1>11

LEMMA PanicProbeStep ==
  ASSUME IInv, NEW p \in Target \X Addr, PanicProbe(p)
  PROVE  OwnInv' /\ Judge(p) /\ p \in Pairs
<1>1. PM!Panic(Main, p) /\ p \in Item /\ PP!IInv
  BY LookupItems DEF PanicProbe, IInv
<1>2. /\ p \in asked[Main] /\ p \in Open /\ calling[Main]
      /\ Open' = Open \ {p}
      /\ Good' = Good /\ Bad' = Bad \cup {p}
      /\ panics' # 0 /\ UNCHANGED <<asked, calling>>
  BY <1>1, PanicSettles
<1>3. /\ UNCHANGED <<n, opts, answer, report, code, stage, resolved, artifact>>
      /\ verdict' = [verdict EXCEPT ![p] = "lost"]
  BY DEF PanicProbe, mainVars
<1>4. "lost" \in VerdictType \ {"pending"} /\ artifact' \in Artifact
  BY <1>3 DEF VerdictType, IInv, OwnInv, OwnTypeOK
<1>5. OwnInv' /\ verdict[p] = "pending" /\ p \in Pairs /\ stage = "probing"
  BY <1>2, <1>3, <1>4, ProbeStep
<1>6. code = "running" /\ AllAnswered /\ ~MustRefuse
  BY <1>5 DEF IInv, OwnInv, StageOK
<1>7. Judge(p)
  BY <1>3, <1>4, <1>5, <1>6 DEF Judge
<1> QED BY <1>5, <1>7

LEMMA QuietActions ==
  ASSUME IInv, Spawn \/ Join \/ ReturnCall
  PROVE  OwnInv' /\ UNCHANGED <<sweepVars, mainVars>>
<1>1. PP!IInv
  BY DEF IInv
<1>2. CASE Spawn
  BY <1>1, <1>2, SpawnSettlesNothing, QuietStep DEF Spawn
<1>3. CASE Join
  BY <1>1, <1>3, JoinSettlesNothing, QuietStep DEF Join
<1>4. CASE ReturnCall
  BY <1>1, <1>4, FinishSettlesNothing, QuietStep DEF ReturnCall
<1> QED BY <1>2, <1>3, <1>4

LEMMA InvStutter == IInv /\ UNCHANGED allVars => OwnInv'
<1> SUFFICES ASSUME IInv, UNCHANGED allVars PROVE OwnInv'
  OBVIOUS
<1>1. UNCHANGED <<n, opts, answer, verdict, report, code, stage, resolved, artifact>>
  BY DEF allVars, sweepVars, mainVars
<1>2. UNCHANGED <<free, calling, asked, queue, task, out, dropped, panics>>
  BY DEF allVars, mapVars
<1>3. UNCHANGED <<Open, Good, Bad>>
  BY <1>2 DEF Open, Good, Bad
<1>4. UNCHANGED <<AllAnswered, MustRefuse, Pairs, Resolved, Unresolved>>
  BY <1>1, SameAnswers
<1>5. UNCHANGED <<AllJudged, Report, Verdict, NothingJudged>>
  BY <1>1, <1>4 DEF AllJudged, Report, Block, Reported, Row, Verdict, NothingJudged
<1>6. OwnTypeOK' /\ StageOK'
  BY <1>1, <1>2, <1>4 DEF IInv, OwnInv, OwnTypeOK, StageOK
<1>7. LookupOK' /\ PairOK' /\ LossOK'
  BY <1>1, <1>2, <1>3, <1>5 DEF IInv, OwnInv, LookupOK, PairOK, LossOK
<1>8. ArtifactOK' /\ ExitOK'
  BY <1>1, <1>2, <1>4, <1>5 DEF IInv, OwnInv, ArtifactOK, ExitOK
<1> QED BY <1>6, <1>7, <1>8 DEF OwnInv

LEMMA InvStep == IInv /\ [ProbeNext]_allVars => IInv'
<1> SUFFICES ASSUME IInv, [ProbeNext]_allVars PROVE IInv'
  OBVIOUS
<1>1. PP!IInv'
  BY MapStep
<1>2. OwnInv'
  <2>1. CASE CheckArgs
    BY <2>1, CheckArgsStep
  <2>2. CASE Spawn \/ Join \/ ReturnCall
    BY <2>2, QuietActions
  <2>3. CASE \E t \in Target : ResolveTarget(t)
    BY <2>3, ResolveStep
  <2>4. CASE \E p \in Target \X Addr : ProbePair(p)
    BY <2>4, ProbePairStep
  <2>5. CASE \E t \in Target : PanicResolve(t)
    BY <2>5, PanicResolveStep
  <2>6. CASE \E p \in Target \X Addr : PanicProbe(p)
    BY <2>6, PanicProbeStep
  <2>7. CASE Preflight
    BY <2>7, PreflightStep
  <2>8. CASE PrintAndExit
    BY <2>8, PrintStep
  <2>9. CASE Exited \/ UNCHANGED allVars
    BY <2>9, InvStutter DEF Exited
  <2> QED BY <2>1, <2>2, <2>3, <2>4, <2>5, <2>6, <2>7, <2>8, <2>9 DEF ProbeNext
<1> QED BY <1>1, <1>2 DEF IInv

LEMMA InvAlways == ProbeSpec => []IInv
BY InvInit, InvStep, PTL DEF ProbeSpec

-----------------------------------------------------------------------------
(* Both phases use the one semaphore as parallel_map_with_limit is meant   *)
(* to be used, and so inherit what ParallelMapProofs shows of any use.     *)
THEOREM UsesTheMap == ProbeSpec => UsesParallelMap
<1>1. ProbeInit => PM!Init
  BY DEF ProbeInit
<1>2. IInv /\ [ProbeNext]_allVars => [PM!Next]_(PM!mapVars)
  BY StepMaps
<1> QED BY <1>1, <1>2, InvAlways, PTL DEF ProbeSpec, UsesParallelMap, PM!Spec

(* At most --concurrency lookups and probes ever run at once.              *)
THEOREM SweepBounded == ProbeSpec => []ConcurrencyBound
<1>1. IInv => ConcurrencyBound
  <2> SUFFICES ASSUME IInv PROVE ConcurrencyBound
    OBVIOUS
  <2>1. PM!Holders = PP!Holders
    BY DEF PM!Holders, PP!Holders
  <2>2. /\ PP!IsFiniteSet(PP!Holders) /\ free \in Nat
        /\ free + PP!Cardinality(PP!Holders) = Permits
    BY DEF IInv, PP!IInv, PP!Items, PP!Shape, PP!Permitted, PP!PermitsConserved
  <2>3. PM!Cardinality(PM!Holders) = Cardinality(PP!Holders)
    BY <2>1 DEF PM!Cardinality, Cardinality
  <2>4. /\ Cardinality(PP!Holders) \in Nat
        /\ free + Cardinality(PP!Holders) = Permits
    BY <2>2, SameSets, FS_CardinalityType
  <2> QED BY <2>2, <2>3, <2>4, PermitsAssumption DEF ConcurrencyBound, PM!ConcurrencyBound
<1> QED BY <1>1, InvAlways, PTL

(* Type correctness of the whole sweep, its permits included.              *)
THEOREM TypeCorrect == ProbeSpec => []ProbeTypeOK
<1>1. IInv => ProbeTypeOK
  <2> SUFFICES ASSUME IInv PROVE ProbeTypeOK
    OBVIOUS
  <2>1. OwnTypeOK
    BY DEF IInv, OwnInv
  <2>2. answer \in [Target -> AnswerType]
    <3>1. \A t \in Target : answer[t] \in AnswerType
      BY <2>1, AnswerFacts
    <3> QED BY <2>1, <3>1 DEF OwnTypeOK
  <2>3. /\ free \in Nat /\ free + PP!Cardinality(PP!Holders) = Permits
        /\ PP!IsFiniteSet(PP!Holders)
    BY DEF IInv, PP!IInv, PP!Items, PP!Shape, PP!Permitted, PP!PermitsConserved
  <2>4. free \in 0..Permits
    <3>1. /\ Cardinality(PP!Holders) \in Nat
          /\ free + Cardinality(PP!Holders) = Permits
      BY <2>3, SameSets, FS_CardinalityType
    <3> QED BY <2>3, <3>1, PermitsAssumption
  <2>5. PM!TypeOK
    BY <2>4, MapFacts DEF IInv, PM!TypeOK, PM!TaskState
  <2> QED BY <2>1, <2>2, <2>5 DEF OwnTypeOK, ProbeTypeOK
<1> QED BY <1>1, InvAlways, PTL

(* The sweep implements the abstract one: whatever the permits, the        *)
(* interleaving, the completion order and the panics, what it prints and   *)
(* its exit code are the functions of the answers and verdicts that module *)
(* Sweep says they are.                                                    *)
THEOREM SweepImplemented == ProbeSpec => ImplementsSweep
<1>1. ProbeInit => Init
  BY DEF ProbeInit
<1>2. IInv /\ [ProbeNext]_allVars => [Next]_vars
  <2> SUFFICES ASSUME IInv, [ProbeNext]_allVars PROVE [Next]_vars
    OBVIOUS
  <2>1. CASE CheckArgs
    <3>1. CASE stage' = "exited"
      BY <2>1, <3>1, CheckArgsRefuses DEF Next
    <3>2. CASE stage' # "exited"
      BY <2>1, <3>2 DEF CheckArgs, Exit, vars
    <3> QED BY <3>1, <3>2
  <2>2. CASE Spawn \/ Join \/ ReturnCall
    BY <2>2, QuietActions DEF sweepVars, vars
  <2>3. CASE \E t \in Target : ResolveTarget(t)
    BY <2>3, ResolveStep DEF Next
  <2>4. CASE \E p \in Target \X Addr : ProbePair(p)
    BY <2>4, ProbePairStep DEF Next
  <2>5. CASE \E t \in Target : PanicResolve(t)
    BY <2>5, PanicResolveStep DEF Next
  <2>6. CASE \E p \in Target \X Addr : PanicProbe(p)
    BY <2>6, PanicProbeStep DEF Next
  <2>7. CASE Preflight
    <3>1. CASE stage' = "exited"
      BY <2>7, <3>1, PreflightRefuses DEF Next
    <3>2. CASE stage' # "exited"
      BY <2>7, <3>2 DEF Preflight, Exit, vars
    <3> QED BY <3>1, <3>2
  <2>8. CASE PrintAndExit
    BY <2>8, PrintConcludes DEF Next
  <2>9. CASE Exited \/ UNCHANGED allVars
    BY <2>9 DEF Exited, allVars, sweepVars, vars
  <2> QED BY <2>1, <2>2, <2>3, <2>4, <2>5, <2>6, <2>7, <2>8, <2>9 DEF ProbeNext
<1> QED BY <1>1, <1>2, InvAlways, PTL DEF ProbeSpec, ImplementsSweep, Spec

(* A file captured by an earlier run is only touched by a run that probes  *)
(* exactly one destination.                                                *)
THEOREM CaptureAlwaysKept == ProbeSpec => CaptureKept
<1> DEFINE Kept == artifact' # artifact => Cardinality(Pairs) = 1 /\ stage' # "exited"
<1>1. IInv /\ [ProbeNext]_allVars => [Kept]_allVars
  <2> SUFFICES ASSUME IInv, [ProbeNext]_allVars, artifact' # artifact
               PROVE  Cardinality(Pairs) = 1 /\ stage' # "exited"
    OBVIOUS
  <2>1. CASE \E p \in Target \X Addr : ProbePair(p)
    BY <2>1, ProbePairStep
  <2>2. CASE Preflight
    <3>1. /\ OwnInv /\ PP!IInv /\ stage = "resolving" /\ ~calling[Main]
          /\ resolved' = SortedTargets(out[Main])
      BY <2>2 DEF Preflight, IInv
    <3>2. /\ artifact' = Created(Len(ProbeItems(resolved'))) /\ stage' = "probing"
      BY <2>2 DEF Preflight
    <3>3. Len(ProbeItems(resolved')) = 1
      BY <3>2 DEF Created
    <3>4. Len(ProbeItems(resolved')) = Cardinality(Pairs)
      BY <3>1, Preflighted
    <3> QED BY <3>2, <3>3, <3>4
  <2>3. CASE CheckArgs \/ PrintAndExit
    BY <2>3 DEF CheckArgs, PrintAndExit
  <2>4. CASE Spawn \/ Join \/ ReturnCall
    BY <2>4, QuietActions DEF mainVars
  <2>5. CASE \E t \in Target : ResolveTarget(t) \/ PanicResolve(t)
    BY <2>5 DEF ResolveTarget, PanicResolve, mainVars
  <2>6. CASE \E p \in Target \X Addr : PanicProbe(p)
    BY <2>6 DEF PanicProbe, mainVars
  <2>7. CASE Exited \/ UNCHANGED allVars
    BY <2>7 DEF Exited, allVars, mainVars
  <2> QED BY <2>1, <2>2, <2>3, <2>4, <2>5, <2>6, <2>7 DEF ProbeNext
<1> QED BY <1>1, InvAlways, PTL DEF ProbeSpec, CaptureKept

(* A row that a panic took from the report was named on stderr.            *)
THEOREM HolesAlwaysNamed == ProbeSpec => []HolesAreNamed
<1>1. IInv => HolesAreNamed
  <2> SUFFICES ASSUME IInv, stage = "exited", report # <<>>, NEW p \in Pairs,
                      p \notin dropped[Main]
               PROVE  \E k \in DOMAIN report :
                        /\ report[k].target = p[1]
                        /\ \E j \in DOMAIN report[k].rows :
                             report[k].rows[j].addr = p[2]
    BY DEF HolesAreNamed
  <2>1. /\ OwnTypeOK /\ LookupOK /\ report = Report
        /\ verdict[p] \notin {"pending", "lost"}
    BY DEF IInv, OwnInv, ExitOK
  <2>2. PICK k \in DOMAIN Report :
          /\ Report[k].target = p[1]
          /\ \E j \in DOMAIN Report[k].rows :
               Report[k].rows[j] = [addr |-> p[2], verdict |-> verdict[p]]
    BY <2>1, RowFound
  <2>3. \E j \in DOMAIN Report[k].rows : Report[k].rows[j].addr = p[2]
    BY <2>2
  <2> QED BY <2>1, <2>2, <2>3
<1> QED BY <1>1, InvAlways, PTL

(* Without a panic, exit code 0 means what the user asked for.             *)
THEOREM SuccessAlwaysEarned == ProbeSpec => []SuccessIsEarned
<1>1. IInv => SuccessIsEarned
  <2> SUFFICES ASSUME IInv, code = "success", panics = 0 PROVE SuccessIsEarned
    BY DEF SuccessIsEarned
  <2>1. /\ OwnTypeOK /\ LossOK
        /\ n > 0 /\ AllAnswered /\ AllJudged /\ Verdict = "success"
        /\ (opts.outputBody /\ Pairs # {}) => artifact # Untouched
    BY DEF IInv, OwnInv, StageOK, ExitOK
  <2>2. /\ ~Unresolved
        /\ ~(opts.expect /\ \E p \in Pairs : verdict[p] \in {"unexpected", "failed"})
        /\ ~(opts.strict /\ \E p \in Pairs : verdict[p] = "failed")
    BY <2>1 DEF Verdict
  <2>3. \A t \in 1..n : answer[t].at # <<>>
    <3> SUFFICES ASSUME NEW t \in 1..n PROVE answer[t].at # <<>>
      OBVIOUS
    <3>1. t \in Target
      BY <2>1, TargetsNamed
    <3>2. answer[t].known # "pending" /\ answer[t].known # "lost"
      BY <2>1, <3>1 DEF AllAnswered, LossOK
    <3> QED BY <2>1, <2>2, <3>1, <3>2, AnswerFacts DEF Unresolved
  <2>4. ASSUME NEW p \in Pairs
        PROVE  /\ verdict[p] # "pending"
               /\ opts.strict => verdict[p] # "failed"
               /\ opts.expect => verdict[p] = "ok"
    <3>1. verdict[p] # "pending" /\ verdict[p] # "lost" /\ verdict[p] \in VerdictType
      BY <2>1, PairsFinite DEF AllJudged, LossOK, OwnTypeOK
    <3> QED BY <2>2, <3>1 DEF VerdictType
  <2>5. Pairs # {}
    <3>1. 1 \in 1..n /\ 1 \in Target
      BY <2>1, TargetsNamed
    <3>2. answer[1].at \in Seq(Addr) /\ answer[1].at # <<>>
      BY <2>1, <2>3, <3>1, AnswerFacts
    <3>3. answer[1].at[1] \in Addr /\ answer[1].at[1] \in Range(answer[1].at)
      BY <3>2 DEF Range
    <3> QED BY <2>1, <3>1, <3>3, PairsFacts
  <2> QED BY <2>1, <2>3, <2>4, <2>5 DEF SuccessIsEarned
<1> QED BY <1>1, InvAlways, PTL

=============================================================================
