-------------------------- MODULE ParallelMapProofs --------------------------
(***************************************************************************)
(* Proofs about ParallelMap, for any call sites, items, requests, permits  *)
(* and panics.                                                             *)
(***************************************************************************)
EXTENDS ParallelMap, SortingProofs

(* The type invariant without the upper bound of free, which follows from  *)
(* the conservation of permits and not from the actions alone.             *)
Shape ==
  /\ free \in Nat
  /\ calling \in [Caller -> BOOLEAN]
  /\ asked \in [Caller -> SUBSET Item]
  /\ queue \in [Caller -> Seq(Item)]
  /\ task \in [Caller -> [Item -> TaskState]]
  /\ out \in [Caller -> Seq(Item)]
  /\ dropped \in [Caller -> SUBSET Item]
  /\ panics \in 0..MaxPanics

(* What a returned call needs beside Accounted: nothing of it is left.     *)
Settled(c) == ~calling[c] => queue[c] = <<>> /\ InFlight(c) = {}

(* The first half of the inductive invariant: where the items are.  It     *)
(* says that the head of a queue is not in flight, without which a Spawn   *)
(* would not make one more holder.                                         *)
Items == Shape /\ \A c \in Caller : Accounted(c) /\ Settled(c)

(* One task changes state; the others do not.                              *)
LEMMA TaskChanges ==
  ASSUME task \in [Caller -> [Item -> TaskState]],
         NEW c \in Caller, NEW i \in Item, NEW st \in TaskState,
         task' = [task EXCEPT ![c][i] = st]
  PROVE  /\ task' \in [Caller -> [Item -> TaskState]]
         /\ task'[c][i] = st
         /\ \A d \in Caller, j \in Item :
              d # c \/ j # i => task'[d][j] = task[d][j]
<1>1. task' = [task EXCEPT ![c] = [task[c] EXCEPT ![i] = st]]
  OBVIOUS
<1>2. [task[c] EXCEPT ![i] = st] \in [Item -> TaskState]
  OBVIOUS
<1> QED BY <1>1, <1>2

(* What a step does not touch stays accounted for.                         *)
LEMMA OthersUntouched ==
  ASSUME NEW d \in Caller, Accounted(d), Settled(d),
         calling'[d] = calling[d], asked'[d] = asked[d], queue'[d] = queue[d],
         task'[d] = task[d], out'[d] = out[d], dropped'[d] = dropped[d]
  PROVE  Accounted(d)' /\ Settled(d)'
<1>1. InFlight(d)' = InFlight(d)
  BY DEF InFlight
<1> QED BY <1>1 DEF Accounted, Settled

LEMMA ItemsInit == Init => Items
<1> SUFFICES ASSUME Init PROVE Items
  OBVIOUS
<1>1. Shape
  BY PermitsAssumption, MaxPanicsAssumption DEF Init, Shape, TaskState
<1>2. ASSUME NEW c \in Caller PROVE Accounted(c) /\ Settled(c)
  <2>1. InFlight(c) = {}
    BY DEF Init, InFlight
  <2> QED BY <2>1, EmptySequence DEF Init, Accounted, Settled
<1> QED BY <1>1, <1>2 DEF Items

LEMMA ItemsCall ==
  ASSUME Items, NEW c \in Caller, NEW items \in Request, Call(c, items)
  PROVE  Items'
<1>1. items \in Seq(Item) /\ IsInjective(items) /\ Range(items) \subseteq Item
  BY RequestAssumption DEF Range
<1>2. Shape'
  BY <1>1 DEF Items, Shape, Call
<1>3. ASSUME NEW d \in Caller PROVE Accounted(d)' /\ Settled(d)'
  <2>1. CASE d # c
    BY <2>1, OthersUntouched DEF Items, Shape, Call
  <2>2. CASE d = c
    <3>1. /\ calling'[c] /\ asked'[c] = Range(items) /\ queue'[c] = items
          /\ out'[c] = <<>> /\ dropped'[c] = {}
      BY DEF Items, Shape, Call
    <3>2. InFlight(c)' = {}
      BY DEF Items, Settled, Call, InFlight
    <3> QED BY <1>1, <2>2, <3>1, <3>2, EmptySequence DEF Accounted, Settled
  <2> QED BY <2>1, <2>2
<1> QED BY <1>2, <1>3 DEF Items

LEMMA ItemsSpawn ==
  ASSUME Items, NEW c \in Caller, Spawn(c)
  PROVE  Items'
<1> DEFINE i == Head(queue[c])
<1>1. /\ queue[c] \in Seq(Item) /\ queue[c] # <<>> /\ IsInjective(queue[c])
      /\ calling[c]
  BY DEF Items, Shape, Accounted, Spawn
<1>2. /\ Tail(queue[c]) \in Seq(Item)
      /\ i \in Item
      /\ IsInjective(Tail(queue[c]))
      /\ i \in Range(queue[c])
      /\ Range(Tail(queue[c])) = Range(queue[c]) \ {i}
  BY <1>1, TailOfInjective
<1>3. Shape'
  BY <1>2 DEF Items, Shape, Spawn, TaskState
<1>4. ASSUME NEW d \in Caller PROVE Accounted(d)' /\ Settled(d)'
  <2>1. CASE d # c
    BY <2>1, OthersUntouched DEF Items, Shape, Spawn
  <2>2. CASE d = c
    <3>1. /\ calling'[c] /\ asked'[c] = asked[c] /\ queue'[c] = Tail(queue[c])
          /\ out'[c] = out[c] /\ dropped'[c] = dropped[c]
      BY <1>1 DEF Items, Shape, Spawn
    <3>2. InFlight(c)' = InFlight(c) \cup {i}
      BY <1>2 DEF Items, Shape, Spawn, InFlight
    <3>3. Settled(c)'
      BY <3>1 DEF Settled
    <3>4. Accounted(c)
      BY DEF Items
    <3> HIDE DEF i
    <3>5. Accounted(c)'
      BY <1>2, <3>1, <3>2, <3>4 DEF Accounted
    <3> QED BY <2>2, <3>3, <3>5
  <2> QED BY <2>1, <2>2
<1> QED BY <1>3, <1>4 DEF Items

(* Return and Panic move a task from one state in flight to another.       *)
LEMMA ItemsEnd ==
  ASSUME Items, NEW c \in Caller, NEW i \in Item, Return(c, i) \/ Panic(c, i)
  PROVE  Items'
<1>1. PICK st \in {"returned", "panicked"} : task' = [task EXCEPT ![c][i] = st]
  BY DEF Return, Panic
<1>2. st \in TaskState /\ st # "none"
  BY DEF TaskState
<1>3. task[c][i] # "none"
  BY DEF Return, Panic
<1>4. /\ task' \in [Caller -> [Item -> TaskState]]
      /\ task'[c][i] = st
      /\ \A d \in Caller, j \in Item :
           d # c \/ j # i => task'[d][j] = task[d][j]
  BY <1>1, <1>2, TaskChanges DEF Items, Shape
<1>5. Shape'
  BY <1>4, MaxPanicsAssumption DEF Items, Shape, Return, Panic
<1>6. ASSUME NEW d \in Caller PROVE Accounted(d)' /\ Settled(d)'
  <2>1. InFlight(d)' = InFlight(d)
    BY <1>2, <1>3, <1>4 DEF InFlight
  <2> QED BY <2>1 DEF Items, Accounted, Settled, Return, Panic
<1> QED BY <1>5, <1>6 DEF Items

LEMMA ItemsJoin ==
  ASSUME Items, NEW c \in Caller, NEW i \in Item, Join(c, i)
  PROVE  Items'
<1>1. /\ calling[c] /\ queue[c] = <<>> /\ i \in InFlight(c)
      /\ out[c] \in Seq(Item) /\ IsInjective(out[c]) /\ i \notin Range(out[c])
  BY DEF Items, Shape, Accounted, Join, InFlight
<1>2. /\ Append(out[c], i) \in Seq(Item)
      /\ IsInjective(Append(out[c], i))
      /\ Range(Append(out[c], i)) = Range(out[c]) \cup {i}
  BY <1>1, AppendToInjective
<1>3. Shape'
  <2>1. task' \in [Caller -> [Item -> TaskState]]
    <3>1. "none" \in TaskState
      BY DEF TaskState
    <3> QED BY <3>1, TaskChanges DEF Items, Shape, Join
  <2>2. out' \in [Caller -> Seq(Item)] /\ dropped' \in [Caller -> SUBSET Item]
    <3>1. out \in [Caller -> Seq(Item)] /\ dropped \in [Caller -> SUBSET Item]
      BY DEF Items, Shape
    <3>2. CASE out' = [out EXCEPT ![c] = Append(@, i)] /\ UNCHANGED dropped
      BY <1>2, <3>1, <3>2
    <3>3. CASE dropped' = [dropped EXCEPT ![c] = @ \cup {i}] /\ UNCHANGED out
      BY <3>1, <3>3
    <3> QED BY <3>2, <3>3 DEF Join
  <2> QED BY <2>1, <2>2 DEF Items, Shape, Join
<1>4. ASSUME NEW d \in Caller PROVE Accounted(d)' /\ Settled(d)'
  <2>1. CASE d # c
    BY <2>1, OthersUntouched DEF Items, Shape, Join
  <2>2. CASE d = c
    <3>1. /\ calling'[c] /\ asked'[c] = asked[c] /\ queue'[c] = queue[c]
      BY <1>1 DEF Join
    <3>2. InFlight(c)' = InFlight(c) \ {i}
      BY DEF Items, Shape, Join, InFlight
    <3>3. \/ out'[c] = Append(out[c], i) /\ dropped'[c] = dropped[c]
          \/ out'[c] = out[c] /\ dropped'[c] = dropped[c] \cup {i}
      BY DEF Items, Shape, Join
    <3>4. Settled(c)'
      BY <3>1 DEF Settled
    <3>5. CASE out'[c] = Append(out[c], i) /\ dropped'[c] = dropped[c]
      BY <1>1, <1>2, <2>2, <3>1, <3>2, <3>4, <3>5 DEF Items, Accounted
    <3>6. CASE out'[c] = out[c] /\ dropped'[c] = dropped[c] \cup {i}
      BY <1>1, <2>2, <3>1, <3>2, <3>4, <3>6 DEF Items, Accounted
    <3> QED BY <3>3, <3>5, <3>6
  <2> QED BY <2>1, <2>2
<1> QED BY <1>3, <1>4 DEF Items

LEMMA ItemsFinish ==
  ASSUME Items, NEW c \in Caller, Finish(c)
  PROVE  Items'
<1>1. Shape'
  BY DEF Items, Shape, Finish
<1>2. ASSUME NEW d \in Caller PROVE Accounted(d)' /\ Settled(d)'
  <2>1. InFlight(d)' = InFlight(d)
    BY DEF Finish, InFlight
  <2>2. d = c => InFlight(d) = {} /\ queue[d] = <<>>
    BY DEF Finish, InFlight
  <2>3. d # c => calling'[d] = calling[d]
    BY DEF Items, Shape, Finish
  <2> QED BY <2>1, <2>2, <2>3 DEF Items, Accounted, Settled, Finish
<1> QED BY <1>1, <1>2 DEF Items

LEMMA ItemsStep == Items /\ [Next]_mapVars => Items'
<1> SUFFICES ASSUME Items, [Next]_mapVars PROVE Items'
  OBVIOUS
<1>1. CASE Next
  <2> PICK c \in Caller :
        \/ \E items \in Request : Call(c, items)
        \/ Spawn(c)
        \/ \E i \in Item : Return(c, i) \/ Panic(c, i) \/ Join(c, i)
        \/ Finish(c)
    BY <1>1 DEF Next
  <2> QED BY ItemsCall, ItemsSpawn, ItemsEnd, ItemsJoin, ItemsFinish
<1>2. CASE UNCHANGED mapVars
  BY <1>2 DEF mapVars, Items, Shape, Accounted, Settled, InFlight
<1> QED BY <1>1, <1>2

LEMMA ItemsAlways == Spec => []Items
BY ItemsInit, ItemsStep, PTL DEF Spec

(* No call ever loses an item or maps one twice: EachItemOnce holds of any *)
(* number of call sites, items, permits and panics.                        *)
THEOREM ItemsAccountedFor == Spec => []EachItemOnce
<1>1. Items => EachItemOnce
  BY DEF Items, EachItemOnce
<1> QED BY <1>1, ItemsAlways, PTL

(* A call that returned has delivered or reported each of its items.       *)
THEOREM ReturnsAreComplete == Spec => []ReturnedCallIsComplete
<1>1. Items => ReturnedCallIsComplete
  BY EmptySequence DEF Items, Accounted, Settled, ReturnedCallIsComplete
<1> QED BY <1>1, ItemsAlways, PTL

-----------------------------------------------------------------------------
(* The second half of the inductive invariant: where the permits are.      *)
Permitted == IsFiniteSet(Holders) /\ PermitsConserved

IInv == Items /\ Permitted

LEMMA PermittedInit == Init => Permitted
<1> SUFFICES ASSUME Init PROVE Permitted
  OBVIOUS
<1>1. Holders = {}
  BY DEF Init, Holders
<1> QED BY <1>1, FS_EmptySet, PermitsAssumption
        DEF Init, Permitted, PermitsConserved

(* A task that starts is one more holder: it was not in flight before.     *)
LEMMA PermittedSpawn ==
  ASSUME IInv, NEW c \in Caller, Spawn(c)
  PROVE  Permitted'
<1> DEFINE i == Head(queue[c])
<1>1. /\ queue[c] \in Seq(Item) /\ queue[c] # <<>> /\ IsInjective(queue[c])
      /\ task \in [Caller -> [Item -> TaskState]]
      /\ free \in Nat
      /\ Range(queue[c]) \cap InFlight(c) = {}
  BY DEF IInv, Items, Shape, Accounted, Spawn
<1>2. i \in Item /\ i \in Range(queue[c])
  BY <1>1, TailOfInjective
<1>3. task' = [task EXCEPT ![c][i] = "running"] /\ free' = free - 1
  BY DEF Spawn
<1> HIDE DEF i
<1>4. task[c][i] = "none"
  BY <1>1, <1>2 DEF InFlight
<1>5. /\ task'[c][i] = "running"
      /\ \A d \in Caller, j \in Item :
           d # c \/ j # i => task'[d][j] = task[d][j]
  <2>1. "running" \in TaskState
    BY DEF TaskState
  <2> QED BY <1>1, <1>2, <1>3, <2>1, TaskChanges
<1>6. Holders' = Holders \cup {<<c, i>>} /\ <<c, i>> \notin Holders
  BY <1>2, <1>4, <1>5 DEF Holders
<1>7. /\ IsFiniteSet(Holders')
      /\ Cardinality(Holders') = Cardinality(Holders) + 1
  BY <1>6, FS_AddElement DEF IInv, Permitted
<1>8. Cardinality(Holders) \in Nat
  BY FS_CardinalityType DEF IInv, Permitted
<1> QED BY <1>1, <1>3, <1>7, <1>8, PermitsAssumption
        DEF IInv, Permitted, PermitsConserved

(* A task that ends, in whichever way, is one holder less.                 *)
LEMMA PermittedEnd ==
  ASSUME IInv, NEW c \in Caller, NEW i \in Item, Return(c, i) \/ Panic(c, i)
  PROVE  Permitted'
<1>1. PICK st \in {"returned", "panicked"} : task' = [task EXCEPT ![c][i] = st]
  BY DEF Return, Panic
<1>2. st \in TaskState /\ st # "running"
  BY DEF TaskState
<1>3. task[c][i] = "running" /\ free' = free + 1 /\ free \in Nat
  BY DEF Return, Panic, IInv, Items, Shape
<1>4. /\ task'[c][i] = st
      /\ \A d \in Caller, j \in Item :
           d # c \/ j # i => task'[d][j] = task[d][j]
  BY <1>1, <1>2, TaskChanges DEF IInv, Items, Shape
<1>5. Holders' = Holders \ {<<c, i>>} /\ <<c, i>> \in Holders
  BY <1>2, <1>3, <1>4 DEF Holders
<1>6. /\ IsFiniteSet(Holders')
      /\ Cardinality(Holders') = Cardinality(Holders) - 1
  BY <1>5, FS_RemoveElement DEF IInv, Permitted
<1>7. Cardinality(Holders) \in Nat
  BY FS_CardinalityType DEF IInv, Permitted
<1> QED BY <1>3, <1>6, <1>7, PermitsAssumption
        DEF IInv, Permitted, PermitsConserved

(* Joining a task leaves the holders alone: it had ended before.           *)
LEMMA PermittedJoin ==
  ASSUME IInv, NEW c \in Caller, NEW i \in Item, Join(c, i)
  PROVE  Permitted'
<1>1. /\ task[c][i] # "running" /\ UNCHANGED free
      /\ task' = [task EXCEPT ![c][i] = "none"]
  BY DEF Join
<1>2. "none" \in TaskState
  BY DEF TaskState
<1>3. /\ task'[c][i] = "none"
      /\ \A d \in Caller, j \in Item :
           d # c \/ j # i => task'[d][j] = task[d][j]
  BY <1>1, <1>2, TaskChanges DEF IInv, Items, Shape
<1>4. Holders' = Holders
  BY <1>1, <1>3 DEF Holders
<1> QED BY <1>1, <1>4 DEF IInv, Permitted, PermitsConserved

LEMMA PermittedStep == IInv /\ [Next]_mapVars => Permitted'
<1> SUFFICES ASSUME IInv, [Next]_mapVars PROVE Permitted'
  OBVIOUS
<1>1. CASE UNCHANGED <<free, task>>
  BY <1>1 DEF IInv, Permitted, PermitsConserved, Holders
<1>2. CASE Next
  <2> PICK c \in Caller :
        \/ \E items \in Request : Call(c, items)
        \/ Spawn(c)
        \/ \E i \in Item : Return(c, i) \/ Panic(c, i) \/ Join(c, i)
        \/ Finish(c)
    BY <1>2 DEF Next
  <2>1. CASE \E items \in Request : Call(c, items)
    BY <1>1, <2>1 DEF Call
  <2>2. CASE Spawn(c)
    BY <2>2, PermittedSpawn
  <2>3. CASE \E i \in Item : Return(c, i) \/ Panic(c, i) \/ Join(c, i)
    BY <2>3, PermittedEnd, PermittedJoin
  <2>4. CASE Finish(c)
    BY <1>1, <2>4 DEF Finish
  <2> QED BY <2>1, <2>2, <2>3, <2>4
<1> QED BY <1>1, <1>2 DEF mapVars

LEMMA IInvAlways == Spec => []IInv
<1>1. Init => IInv
  BY ItemsInit, PermittedInit DEF IInv
<1>2. IInv /\ [Next]_mapVars => IInv'
  BY ItemsStep, PermittedStep DEF IInv
<1> QED BY <1>1, <1>2, PTL DEF Spec

(* No permit is ever lost, not even to a panic, nor returned twice.        *)
THEOREM PermitsAlwaysConserved == Spec => []PermitsConserved
<1>1. IInv => PermitsConserved
  BY DEF IInv, Permitted
<1> QED BY <1>1, IInvAlways, PTL

(* --concurrency bounds the tasks in flight of all the call sites together.*)
THEOREM Bounded == Spec => []ConcurrencyBound
<1>1. IInv => ConcurrencyBound
  <2> SUFFICES ASSUME IInv PROVE ConcurrencyBound
    OBVIOUS
  <2>1. Cardinality(Holders) \in Nat
    BY FS_CardinalityType DEF IInv, Permitted
  <2> QED BY <2>1, PermitsAssumption
          DEF IInv, Items, Shape, Permitted, PermitsConserved, ConcurrencyBound
<1> QED BY <1>1, IInvAlways, PTL

(* Type correctness: in particular free never exceeds the permits that     *)
(* there are, which is the conservation of permits again.                  *)
THEOREM TypeCorrect == Spec => []TypeOK
<1>1. IInv => TypeOK
  <2> SUFFICES ASSUME IInv PROVE TypeOK
    OBVIOUS
  <2>1. Cardinality(Holders) \in Nat
    BY FS_CardinalityType DEF IInv, Permitted
  <2>2. free \in 0..Permits
    BY <2>1, PermitsAssumption DEF IInv, Items, Shape, Permitted, PermitsConserved
  <2> QED BY <2>2 DEF IInv, Items, Shape, TypeOK
<1> QED BY <1>1, IInvAlways, PTL

-----------------------------------------------------------------------------
(* The rows a call misses: those of its tasks that panicked, joined or not.*)
Lost(c) == dropped[c] \cup {i \in Item : task[c][i] = "panicked"}

Counted(c) == IsFiniteSet(Lost(c)) /\ Cardinality(Lost(c)) <= panics

LossesCounted == \A c \in Caller : Counted(c)

LEMMA CountedStep == IInv /\ LossesCounted /\ [Next]_mapVars => LossesCounted'
<1> SUFFICES ASSUME IInv, LossesCounted, [Next]_mapVars, NEW d \in Caller
             PROVE  Counted(d)'
  BY DEF LossesCounted
<1>1. IsFiniteSet(Lost(d)) /\ Cardinality(Lost(d)) <= panics /\ panics \in Nat
  BY MaxPanicsAssumption DEF LossesCounted, Counted, IInv, Items, Shape
<1>2. CASE Lost(d)' = Lost(d) /\ UNCHANGED panics
  BY <1>1, <1>2 DEF Counted
<1>3. CASE UNCHANGED mapVars
  BY <1>2, <1>3 DEF mapVars, Lost
<1>4. CASE Next
  <2> PICK c \in Caller :
        \/ \E items \in Request : Call(c, items)
        \/ Spawn(c)
        \/ \E i \in Item : Return(c, i) \/ Panic(c, i) \/ Join(c, i)
        \/ Finish(c)
    BY <1>4 DEF Next
  <2>1. CASE \E items \in Request : Call(c, items)
    <3>1. CASE d = c
      <4>1. Lost(d)' = {}
        BY <2>1, <3>1 DEF Call, Lost, IInv, Items, Shape, Settled, InFlight
      <4> QED BY <1>1, <2>1, <4>1, FS_EmptySet DEF Counted, Call
    <3>2. CASE d # c
      BY <1>2, <2>1, <3>2 DEF Call, Lost, IInv, Items, Shape
    <3> QED BY <3>1, <3>2
  <2>2. ASSUME NEW i \in Item, NEW st \in TaskState,
               task' = [task EXCEPT ![c][i] = st]
        PROVE  /\ task'[c][i] = st
               /\ \A e \in Caller, j \in Item :
                    e # c \/ j # i => task'[e][j] = task[e][j]
    BY <2>2, TaskChanges DEF IInv, Items, Shape
  <2>3. CASE Spawn(c)
    <3> DEFINE i == Head(queue[c])
    <3>1. /\ queue[c] \in Seq(Item) /\ queue[c] # <<>> /\ IsInjective(queue[c])
          /\ Range(queue[c]) \cap InFlight(c) = {}
      BY <2>3 DEF IInv, Items, Shape, Accounted, Spawn
    <3>2. i \in Item /\ i \in Range(queue[c])
      BY <3>1, TailOfInjective
    <3>3. /\ task' = [task EXCEPT ![c][i] = "running"]
          /\ UNCHANGED <<dropped, panics>>
      BY <2>3 DEF Spawn
    <3> HIDE DEF i
    <3>4. task[c][i] # "panicked"
      BY <3>1, <3>2 DEF InFlight
    <3>5. Lost(d)' = Lost(d)
      BY <2>2, <3>2, <3>3, <3>4 DEF Lost, TaskState
    <3> QED BY <1>2, <3>3, <3>5
  <2>4. ASSUME NEW i \in Item, Return(c, i) PROVE Counted(d)'
    BY <1>2, <2>2, <2>4 DEF Return, Lost, TaskState
  <2>5. ASSUME NEW i \in Item, Panic(c, i) PROVE Counted(d)'
    <3>1. /\ task' = [task EXCEPT ![c][i] = "panicked"] /\ UNCHANGED dropped
          /\ panics' = panics + 1
      BY <2>5 DEF Panic
    <3>2. Lost(d)' = Lost(d) \/ Lost(d)' = Lost(d) \cup {i}
      BY <2>2, <3>1 DEF Lost, TaskState
    <3>3. CASE Lost(d)' = Lost(d)
      <4>1. Cardinality(Lost(d)) \in Nat
        BY <1>1, FS_CardinalityType
      <4> QED BY <1>1, <3>1, <3>3, <4>1 DEF Counted
    <3>4. CASE Lost(d)' = Lost(d) \cup {i} /\ i \notin Lost(d)
      <4> DEFINE was == Lost(d)
      <4> HIDE DEF was
      <4>1. IsFiniteSet(was) /\ Cardinality(was) <= panics
        BY <1>1 DEF was
      <4>2. i \notin was /\ Lost(d)' = was \cup {i}
        BY <3>4 DEF was
      <4>3. /\ IsFiniteSet(was \cup {i})
            /\ Cardinality(was \cup {i}) = Cardinality(was) + 1
        BY <4>1, <4>2, FS_AddElement
      <4>4. Cardinality(was) \in Nat
        BY <4>1, FS_CardinalityType
      <4>5. Cardinality(was) + 1 <= panics'
        BY <1>1, <3>1, <4>1, <4>4
      <4> QED BY <4>2, <4>3, <4>5 DEF Counted
    <3> QED BY <3>2, <3>3, <3>4
  <2>6. ASSUME NEW i \in Item, Join(c, i) PROVE Counted(d)'
    <3>1. /\ task' = [task EXCEPT ![c][i] = "none"] /\ UNCHANGED panics
          /\ \/ task[c][i] = "returned" /\ UNCHANGED dropped
             \/ /\ task[c][i] = "panicked"
                /\ dropped' = [dropped EXCEPT ![c] = @ \cup {i}]
      BY <2>6 DEF Join
    <3>2. Lost(d)' = Lost(d)
      BY <2>2, <3>1 DEF Lost, TaskState, IInv, Items, Shape
    <3> QED BY <1>2, <3>1, <3>2
  <2>7. CASE Finish(c)
    BY <1>2, <2>7 DEF Finish, Lost
  <2> QED BY <2>1, <2>3, <2>4, <2>5, <2>6, <2>7
<1> QED BY <1>3, <1>4

(* Every row that a call misses was lost to a panic of its own: there are  *)
(* never more of them than there were panics.                              *)
LEMMA LossesAlwaysCounted == Spec => []LossesCounted
<1>1. Init => LossesCounted
  <2> SUFFICES ASSUME Init, NEW c \in Caller PROVE Counted(c)
    BY DEF LossesCounted
  <2>1. Lost(c) = {}
    BY DEF Init, Lost
  <2> QED BY <2>1, FS_EmptySet DEF Init, Counted
<1>2. IInv /\ LossesCounted /\ [Next]_mapVars => LossesCounted'
  BY CountedStep
<1> QED BY <1>1, <1>2, IInvAlways, PTL DEF Spec

=============================================================================
