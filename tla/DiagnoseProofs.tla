------------------------- MODULE DiagnoseProofs -------------------------
(***************************************************************************)
(* Proofs about the diagnose command, in two parts.                        *)
(*                                                                         *)
(* DiagnoseSweep: for any number of targets, addresses and permits, any    *)
(* command lines and whatever panics.  What holds of every use of          *)
(* ParallelMap is proved once, in ParallelMapProofs: here both maps are    *)
(* shown to be such uses, and its theorems are cited.                      *)
(*                                                                         *)
(* Engine: for any host, the engine blames nothing that is not at fault,   *)
(* and loses no lasting fault.                                             *)
(***************************************************************************)
EXTENDS DiagnoseSweep, Engine, SortingProofs, SequenceTheorems

OP == INSTANCE ParallelMapProofs WITH
  Caller <- {Main}, Item <- Target,
  Request <- {[t \in 1..k |-> t] : k \in 1..MaxTargets},
  free <- oFree, calling <- oCalling, asked <- oAsked, queue <- oQueue,
  task <- oTask, out <- oOut, dropped <- oDropped, panics <- oPanics

IP == INSTANCE ParallelMapProofs WITH
  Caller <- Target, Item <- Addr,
  Request <- {Ascending(S) : S \in SUBSET Addr},
  free <- iFree, calling <- iCalling, asked <- iAsked, queue <- iQueue,
  task <- iTask, out <- iOut, dropped <- iDropped, panics <- iPanics

HostVerdict == {"unresolved", "healthy", "anomaly"}

OwnTypeOK ==
  /\ n \in 0..MaxTargets
  /\ opts \in Options
  /\ stage \in {"args", "sweeping", "exited"}
  /\ pc \in [Target -> {"waiting", "resolve", "diagnose", "done"} \cup PhaseName]
  /\ addrs \in [Target -> SUBSET Addr]
  /\ evidence \in [Target -> [PhaseName -> Seq(Addr)]]
  /\ result \in [Target -> HostVerdict \cup {"pending", "lost"}]
  /\ report \in Seq(Target)
  /\ shape \in {"none", "object", "array"}
  /\ code \in {"running", "success", "failure", "usage"}

(* What each stage of run_diagnose means for the outer map and the output. *)
StageOK ==
  /\ oAsked[Main] \in {{}, 1..n}
  /\ oCalling[Main] => stage = "sweeping"
  /\ stage = "args" => oAsked[Main] = {}
  /\ stage = "sweeping" => oAsked[Main] = 1..n /\ n > 0
  /\ oAsked[Main] = {} => code # "success"
  /\ stage # "exited" <=> code = "running"
  /\ stage # "exited" => report = <<>>

(* The targets still queued are the last ones, in order.                   *)
QueueOK ==
  LET q == oQueue[Main]
  IN /\ Len(q) <= n
     /\ \A k \in DOMAIN q : q[k] = n - Len(q) + k

(* Where diagnose_one is agrees with where its task is.                    *)
Tracked(t) ==
  /\ pc[t] = "waiting" <=> t \notin oAsked[Main] \/ t \in Range(oQueue[Main])
  /\ oTask[Main][t] = "running" <=> pc[t] \notin {"waiting", "done"}
  /\ result[t] = "pending" <=> pc[t] # "done"
  /\ (oTask[Main][t] = "returned" \/ t \in Range(oOut[Main])) => result[t] \in HostVerdict
  /\ (oTask[Main][t] = "panicked" \/ t \in oDropped[Main]) => result[t] = "lost"

TaskOK == \A t \in Target : Tracked(t)

(* A target's inner map is the one of the phase it is in.                  *)
InPhase(t) ==
  /\ iCalling[t] => pc[t] \in PhaseName
  /\ pc[t] \in PhaseName => pc[t] \in Range(Phases) /\ iAsked[t] = addrs[t]

PhaseOK == \A t \in Target : InPhase(t)

(* The evidence of the phases behind a target is as EvidenceIsCanonical    *)
(* has it, long before the engine reads it.                                *)
Place == [ph \in PhaseName |-> CHOOSE k \in DOMAIN Probes : Probes[k] = ph]

Behind(t, ph) == pc[t] = "diagnose" \/ (pc[t] \in PhaseName /\ Place[ph] < Place[pc[t]])

Canonical(t, ph) ==
  /\ IsAscending(evidence[t][ph])
  /\ Range(evidence[t][ph]) \subseteq addrs[t]
  /\ Cardinality(addrs[t] \ Range(evidence[t][ph])) <= iPanics

Gathered(t) ==
  /\ \A ph \in PhaseName \ Kept : evidence[t][ph] = <<>>
  /\ \A ph \in Kept : Behind(t, ph) => Canonical(t, ph)

EvidenceOK == \A t \in Target : Gathered(t)

OwnInv == OwnTypeOK /\ StageOK /\ QueueOK /\ TaskOK /\ PhaseOK /\ EvidenceOK

-----------------------------------------------------------------------------
(* What an instance of ParallelMapProofs says with operators of its own    *)
(* copy of a library module, it says with ours: they have one definition.  *)
LEMMA SameSets ==
  ASSUME NEW S
  PROVE  /\ OP!IsFiniteSet(S) = IsFiniteSet(S)
         /\ OP!Cardinality(S) = Cardinality(S)
         /\ IP!IsFiniteSet(S) = IsFiniteSet(S)
         /\ IP!Cardinality(S) = Cardinality(S)
<1>1. OP!IsFiniteSet(S) = IsFiniteSet(S)
  BY DEF OP!IsFiniteSet, IsFiniteSet
<1>2. OP!Cardinality(S) = Cardinality(S)
  BY DEF OP!Cardinality, Cardinality
<1>3. IP!IsFiniteSet(S) = IsFiniteSet(S)
  BY DEF IP!IsFiniteSet, IsFiniteSet
<1>4. IP!Cardinality(S) = Cardinality(S)
  BY DEF IP!Cardinality, Cardinality
<1> QED BY <1>1, <1>2, <1>3, <1>4

LEMMA SameSequences ==
  ASSUME NEW s
  PROVE  /\ OP!Range(s) = Range(s)
         /\ OP!IsInjective(s) = IsInjective(s)
         /\ IP!Range(s) = Range(s)
         /\ IP!IsInjective(s) = IsInjective(s)
BY DEF OP!Range, IP!Range, Range, OP!IsInjective, IP!IsInjective, IsInjective

(* The assumptions of ParallelMap hold of both instances: this is what     *)
(* makes citing its theorems legitimate.  Those of the outer one:          *)
LEMMA OuterAssumptions ==
  /\ Permits \in Nat \ {0}
  /\ MaxPanics \in Nat
  /\ \A items \in {[t \in 1..k |-> t] : k \in 1..MaxTargets} :
       items \in Seq(Target) /\ OP!IsInjective(items)
<1> SUFFICES ASSUME NEW k \in 1..MaxTargets
             PROVE  /\ [t \in 1..k |-> t] \in Seq(Target)
                    /\ OP!IsInjective([t \in 1..k |-> t])
  BY PermitsAssumption, BoundsAssumption
<1>1. k \in Nat /\ 1..k \subseteq Target
  BY BoundsAssumption DEF Target
<1>2. [t \in 1..k |-> t] \in [1..k -> Target]
  BY <1>1
<1>3. [t \in 1..k |-> t] \in Seq(Target)
  BY <1>1, <1>2
<1> QED BY <1>3 DEF OP!IsInjective

-----------------------------------------------------------------------------
(* The names of the phases, once.                                          *)
LEMMA PhaseNames == PhaseName = {"tcp", "tls", "http1", "http2", "http3", "repeat"}
BY DEF PhaseName, Range, Probes

(* So do those of the inner one.                                           *)
LEMMA AddrFinite == IsFiniteSet(Addr) /\ Addr \in SUBSET Int
BY BoundsAssumption, FS_Interval DEF Addr

LEMMA InnerAssumptions ==
  /\ Permits \in Nat \ {0}
  /\ MaxPanics \in Nat
  /\ \A items \in {Ascending(S) : S \in SUBSET Addr} :
       items \in Seq(Addr) /\ IP!IsInjective(items)
<1> SUFFICES ASSUME NEW S \in SUBSET Addr
             PROVE  Ascending(S) \in Seq(Addr) /\ IP!IsInjective(Ascending(S))
  BY PermitsAssumption, BoundsAssumption
<1>1. S \in SUBSET Int /\ IsFiniteSet(S)
  BY AddrFinite, FS_Subset
<1>2. Ascending(S) \in Seq(S) /\ IsInjective(Ascending(S))
  BY <1>1, AscendingFacts
<1>3. Ascending(S) \in Seq(Addr)
  BY <1>2
<1> QED BY <1>2, <1>3, SameSequences

-----------------------------------------------------------------------------
(* Every step of diagnose is a step of each map, or leaves it alone.       *)
AddrsOK == addrs \in [Target -> SUBSET Addr]

LEMMA PoolInAddr ==
  ASSUME NEW t \in Target, NEW found \in Lookup[t]
  PROVE  {d \in found : InFamily(d)} \in SUBSET Addr
BY LookupAssumption DEF Target, Addr

LEMMA AddrsStep == AddrsOK /\ [Next]_vars => AddrsOK'
<1> SUFFICES ASSUME AddrsOK, [Next]_vars PROVE AddrsOK'
  OBVIOUS
<1>1. CASE \E t \in Target : Resolve(t)
  BY <1>1, PoolInAddr DEF Resolve, AddrsOK
<1>2. CASE UNCHANGED addrs
  BY <1>2 DEF AddrsOK
<1> QED
  BY <1>1, <1>2
  DEF Next, vars, ownVars, CheckArgs, StartTarget, StartProbe, EndProbe,
      PanicProbe, JoinProbe, ReturnPhase, NextPhase, Diagnose, PanicTarget,
      JoinTarget, ReturnSweep, PrintAndExit, Exited

LEMMA BeginCalls ==
  ASSUME NEW t \in Target, NEW ph, NEW kept \in SUBSET Addr, Begin(t, ph, kept)
  PROVE  Inner!Next
BY DEF Begin, Inner!Next, Inner!Call

LEMMA InnerStep == AddrsOK /\ [Next]_vars => [Inner!Next]_innerVars
<1> SUFFICES ASSUME AddrsOK, [Next]_vars PROVE Inner!Next \/ UNCHANGED innerVars
  OBVIOUS
<1>1. CASE UNCHANGED innerVars
  BY <1>1
<1>2. ASSUME NEW t \in Target, Resolve(t) PROVE Inner!Next \/ UNCHANGED innerVars
  BY <1>2, PoolInAddr, BeginCalls DEF Resolve
<1>3. ASSUME NEW t \in Target, NextPhase(t) PROVE Inner!Next \/ UNCHANGED innerVars
  <2>1. addrs[t] \in SUBSET Addr
    BY DEF AddrsOK
  <2> QED BY <1>3, <2>1, BeginCalls DEF NextPhase
<1>4. ASSUME NEW t \in Target, NEW d \in Addr,
             EndProbe(t, d) \/ PanicProbe(t, d) \/ JoinProbe(t, d)
      PROVE  Inner!Next
  BY <1>4 DEF EndProbe, PanicProbe, JoinProbe, Inner!Next
<1>5. ASSUME NEW t \in Target, StartProbe(t) \/ ReturnPhase(t) PROVE Inner!Next
  BY <1>5 DEF StartProbe, ReturnPhase, Inner!Next
<1> QED
  BY <1>1, <1>2, <1>3, <1>4, <1>5
  DEF Next, vars, CheckArgs, StartTarget, Diagnose, PanicTarget,
      JoinTarget, ReturnSweep, PrintAndExit, Exited

(* n is chosen once, within the bound.                                     *)
FewTargets == n \in 0..MaxTargets

LEMMA OuterStep == FewTargets /\ [Next]_vars => [Outer!Next]_outerVars
<1> SUFFICES ASSUME FewTargets, [Next]_vars
             PROVE  Outer!Next \/ UNCHANGED outerVars
  OBVIOUS
<1>1. CASE UNCHANGED outerVars
  BY <1>1
<1>2. CASE CheckArgs
  <2>1. CASE Outer!Call(Main, [t \in 1..n |-> t]) /\ n > 0
    <3>1. n \in 1..MaxTargets
      BY <2>1, BoundsAssumption DEF FewTargets
    <3> QED BY <2>1, <3>1 DEF Outer!Next, Outer!Call
  <2> QED BY <1>1, <1>2, <2>1 DEF CheckArgs
<1>3. CASE StartTarget \/ ReturnSweep
  BY <1>3 DEF StartTarget, ReturnSweep, Outer!Next
<1>4. ASSUME NEW t \in Target,
             Resolve(t) \/ Diagnose(t) \/ PanicTarget(t) \/ JoinTarget(t)
      PROVE  Outer!Next \/ UNCHANGED outerVars
  BY <1>4 DEF Resolve, Diagnose, PanicTarget, JoinTarget, Outer!Next
<1> QED
  BY <1>1, <1>2, <1>3, <1>4
  DEF Next, vars, StartProbe, EndProbe, PanicProbe, JoinProbe, ReturnPhase,
      NextPhase, PrintAndExit, Exited

LEMMA TargetsStep == FewTargets /\ [Next]_vars => FewTargets'
BY DEF FewTargets, Next, vars, ownVars, CheckArgs, StartTarget, Resolve, StartProbe,
       EndProbe, PanicProbe, JoinProbe, ReturnPhase, NextPhase, Diagnose,
       PanicTarget, JoinTarget, ReturnSweep, PrintAndExit, Exited

(* Both levels of maps are well-formed uses of their semaphores: what is   *)
(* true of every use of ParallelMap is true of them.  Of the probes of all *)
(* the targets together in particular, which share one.                    *)
THEOREM InnerMapsAreMaps == Spec => UsesInnerMap
<1>1. Init => AddrsOK /\ Inner!Init
  BY DEF Init, AddrsOK
<1>2. AddrsOK /\ [Next]_vars => AddrsOK'
  BY AddrsStep
<1>3. AddrsOK /\ [Next]_vars => [Inner!Next]_(Inner!mapVars)
  BY InnerStep DEF innerVars, Inner!mapVars
<1> QED BY <1>1, <1>2, <1>3, PTL DEF Spec, UsesInnerMap, Inner!Spec

THEOREM OuterMapIsMap == Spec => Outer!Spec
<1>1. Init => FewTargets /\ Outer!Init
  BY DEF Init, FewTargets
<1>2. FewTargets /\ [Next]_vars => FewTargets'
  BY TargetsStep
<1>3. FewTargets /\ [Next]_vars => [Outer!Next]_(Outer!mapVars)
  BY OuterStep DEF outerVars, Outer!mapVars
<1> QED BY <1>1, <1>2, <1>3, PTL DEF Spec, Outer!Spec

(* So the invariants of ParallelMapProofs hold of both.                    *)
LEMMA InnerInvariants == Spec => [](IP!IInv /\ IP!LossesCounted)
<1>1. Inner!Init => IP!Init
  BY DEF Inner!Init, IP!Init
<1>2. [Inner!Next]_(Inner!mapVars) => [IP!Next]_(IP!mapVars)
  BY SameSequences
  DEF Inner!Next, Inner!mapVars, Inner!Call, Inner!Spawn, Inner!Return,
      Inner!Panic, Inner!Join, Inner!Finish,
      IP!Next, IP!mapVars, IP!Call, IP!Spawn, IP!Return,
      IP!Panic, IP!Join, IP!Finish, Inner!Range, IP!Range
<1>3. Inner!Spec => IP!Spec
  BY <1>1, <1>2, PTL DEF Inner!Spec, IP!Spec
<1>4. IP!Spec => []IP!IInv
  BY InnerAssumptions, IP!IInvAlways
<1>5. IP!Spec => []IP!LossesCounted
  BY InnerAssumptions, IP!LossesAlwaysCounted
<1> QED BY <1>3, <1>4, <1>5, InnerMapsAreMaps, PTL DEF UsesInnerMap

LEMMA OuterInvariants == Spec => []OP!IInv
<1>1. Outer!Init => OP!Init
  BY DEF Outer!Init, OP!Init
<1>2. [Outer!Next]_(Outer!mapVars) => [OP!Next]_(OP!mapVars)
  BY DEF Outer!Next, Outer!mapVars, Outer!Call, Outer!Spawn, Outer!Return,
      Outer!Panic, Outer!Join, Outer!Finish,
      OP!Next, OP!mapVars, OP!Call, OP!Spawn, OP!Return,
      OP!Panic, OP!Join, OP!Finish, Outer!Range, OP!Range
<1>3. Outer!Spec => OP!Spec
  BY <1>1, <1>2, PTL DEF Outer!Spec, OP!Spec
<1>4. OP!Spec => []OP!IInv
  BY OuterAssumptions, OP!IInvAlways
<1> QED BY <1>3, <1>4, OuterMapIsMap, PTL

-----------------------------------------------------------------------------
(* The invariants of the maps, in the words of this module.                *)
LEMMA OuterFacts ==
  ASSUME OP!IInv
  PROVE  /\ oCalling \in [{Main} -> BOOLEAN]
         /\ oAsked \in [{Main} -> SUBSET Target]
         /\ oQueue \in [{Main} -> Seq(Target)]
         /\ oTask \in [{Main} -> [Target -> {"none", "running", "returned", "panicked"}]]
         /\ oOut \in [{Main} -> Seq(Target)]
         /\ oDropped \in [{Main} -> SUBSET Target]
         /\ IsInjective(oQueue[Main])
         /\ IsInjective(oOut[Main])
BY SameSequences
DEF OP!IInv, OP!Items, OP!Shape, OP!TaskState, OP!Accounted

LEMMA OuterPlaces ==
  ASSUME OP!IInv
  PROVE  /\ \A t \in Target :
              t \in oAsked[Main] <=> \/ t \in Range(oQueue[Main])
                                     \/ oTask[Main][t] # "none"
                                     \/ t \in Range(oOut[Main])
                                     \/ t \in oDropped[Main]
         /\ \A t \in Range(oQueue[Main]) :
              /\ oTask[Main][t] = "none"
              /\ t \notin Range(oOut[Main])
              /\ t \notin oDropped[Main]
         /\ ~oCalling[Main] =>
              oQueue[Main] = <<>> /\ \A t \in Target : oTask[Main][t] = "none"
<1>1. OP!Accounted(Main) /\ OP!Settled(Main)
  BY DEF OP!IInv, OP!Items
<1>2. Range(oQueue[Main]) \subseteq Target
  BY OuterFacts DEF Range
<1> QED BY <1>1, <1>2, SameSequences DEF OP!Accounted, OP!Settled, OP!InFlight

LEMMA OuterPermits ==
  ASSUME OP!IInv
  PROVE  LET holders == {ci \in {Main} \X Target : oTask[ci[1]][ci[2]] = "running"}
         IN  /\ IsFiniteSet(holders)
             /\ oFree + Cardinality(holders) = Permits
             /\ oFree \in Nat
BY SameSets
DEF OP!IInv, OP!Items, OP!Shape, OP!Permitted, OP!PermitsConserved, OP!Holders

LEMMA InnerFacts ==
  ASSUME IP!IInv
  PROVE  /\ iCalling \in [Target -> BOOLEAN]
         /\ iAsked \in [Target -> SUBSET Addr]
         /\ iQueue \in [Target -> Seq(Addr)]
         /\ iTask \in [Target -> [Addr -> {"none", "running", "returned", "panicked"}]]
         /\ iOut \in [Target -> Seq(Addr)]
         /\ iDropped \in [Target -> SUBSET Addr]
         /\ iPanics \in Nat
         /\ \A t \in Target : IsInjective(iOut[t])
         /\ \A t \in Target :
              ~iCalling[t] => /\ iQueue[t] = <<>>
                              /\ \A d \in Addr : iTask[t][d] = "none"
                              /\ iAsked[t] = Range(iOut[t]) \cup iDropped[t]
<1>1. /\ iCalling \in [Target -> BOOLEAN]
      /\ iAsked \in [Target -> SUBSET Addr]
      /\ iQueue \in [Target -> Seq(Addr)]
      /\ iTask \in [Target -> [Addr -> {"none", "running", "returned", "panicked"}]]
      /\ iOut \in [Target -> Seq(Addr)]
      /\ iDropped \in [Target -> SUBSET Addr]
      /\ iPanics \in Nat
  BY BoundsAssumption DEF IP!IInv, IP!Items, IP!Shape, IP!TaskState
<1>2. ASSUME NEW t \in Target
      PROVE  /\ IsInjective(iOut[t])
             /\ ~iCalling[t] => /\ iQueue[t] = <<>>
                                /\ \A d \in Addr : iTask[t][d] = "none"
                                /\ iAsked[t] = Range(iOut[t]) \cup iDropped[t]
  <2>1. IP!Accounted(t) /\ IP!Settled(t)
    BY DEF IP!IInv, IP!Items
  <2>2. IsInjective(iOut[t])
    BY <2>1, SameSequences DEF IP!Accounted
  <2>3. ASSUME ~iCalling[t]
        PROVE  iQueue[t] = <<>> /\ \A d \in Addr : iTask[t][d] = "none"
    BY <2>1, <2>3 DEF IP!Settled, IP!InFlight
  <2>4. ASSUME ~iCalling[t] PROVE iAsked[t] = Range(iOut[t]) \cup iDropped[t]
    <3>1. Range(iQueue[t]) = {} /\ IP!InFlight(t) = {}
      BY <2>3, <2>4 DEF Range, IP!InFlight
    <3> QED BY <2>1, <3>1, SameSequences DEF IP!Accounted
  <2> QED BY <2>2, <2>3, <2>4
<1> QED BY <1>1, <1>2

LEMMA InnerLosses ==
  ASSUME IP!IInv, IP!LossesCounted, NEW t \in Target
  PROVE  IsFiniteSet(iDropped[t]) /\ Cardinality(iDropped[t]) <= iPanics
<1> DEFINE lost == iDropped[t] \cup {d \in Addr : iTask[t][d] = "panicked"}
<1>1. IsFiniteSet(lost) /\ Cardinality(lost) <= iPanics
  BY SameSets DEF IP!LossesCounted, IP!Counted, IP!Lost
<1>2. iDropped[t] \subseteq lost
  OBVIOUS
<1>3. /\ IsFiniteSet(iDropped[t])
      /\ Cardinality(iDropped[t]) <= Cardinality(lost)
  BY <1>1, <1>2, FS_Subset
<1>4. Cardinality(iDropped[t]) \in Nat /\ Cardinality(lost) \in Nat
  BY <1>1, <1>3, FS_CardinalityType
<1>5. iPanics \in Nat
  BY InnerFacts
<1> QED BY <1>1, <1>3, <1>4, <1>5

-----------------------------------------------------------------------------
(* What run_diagnose and diagnose_one make of what a map returned.         *)
LEMMA RowsFacts ==
  ASSUME IP!IInv, NEW t \in Target
  PROVE  /\ RowsOf(t) \in Seq(Addr)
         /\ IsAscending(RowsOf(t))
         /\ Range(RowsOf(t)) = Range(iOut[t])
<1>1. iOut[t] \in Seq(Addr) /\ IsInjective(iOut[t])
  BY InnerFacts
<1> QED BY <1>1, AddrFinite, InOrderFacts DEF RowsOf

LEMMA TargetFinite == IsFiniteSet(Target) /\ Target \in SUBSET Int
BY BoundsAssumption, FS_Interval DEF Target

LEMMA IndexedFacts ==
  ASSUME OP!IInv
  PROVE  /\ Indexed \in Seq(Target)
         /\ IsAscending(Indexed)
         /\ Range(Indexed) = Range(oOut[Main])
<1>1. oOut[Main] \in Seq(Target) /\ IsInjective(oOut[Main])
  BY OuterFacts
<1> QED BY <1>1, TargetFinite, InOrderFacts DEF Indexed

LEMMA ReportsFacts ==
  ASSUME OP!IInv
  PROVE  /\ Reports \in Seq(Target)
         /\ IsAscending(Reports)
         /\ Range(Reports) =
              Range(oOut[Main]) \cap {t \in Target : result[t] # "unresolved"}
<1>1. /\ Indexed \in Seq(Target) /\ IsAscending(Indexed)
      /\ Range(Indexed) = Range(oOut[Main])
  BY IndexedFacts
<1>2. Target \subseteq Int
  BY TargetFinite
<1> DEFINE some == {t \in Target : result[t] # "unresolved"}
<1> HIDE DEF some
<1>3. /\ Those(Indexed, some) \in Seq(Target)
      /\ IsAscending(Those(Indexed, some))
      /\ Range(Those(Indexed, some)) = Range(Indexed) \cap some
  BY <1>1, <1>2, ThoseFacts
<1> QED BY <1>1, <1>3 DEF Reports, some

(* The phases of a command line: each is behind the next, and those kept   *)
(* are among them.                                                         *)
LEMMA PhaseOrder ==
  ASSUME opts \in Options, NEW ph \in Range(Phases)
  PROVE  LET k == CHOOSE j \in DOMAIN Phases : Phases[j] = ph
         IN  /\ ph \in PhaseName
             /\ k \in 1..Len(Phases)
             /\ k < Len(Phases) =>
                  /\ Phases[k + 1] \in Range(Phases)
                  /\ \A q \in Kept : Place[q] < Place[Phases[k + 1]] =>
                                       q = ph \/ Place[q] < Place[ph]
             /\ k = Len(Phases) =>
                  \A q \in Kept : q = ph \/ Place[q] < Place[ph]
<1> DEFINE k == CHOOSE j \in DOMAIN Phases : Phases[j] = ph
           Later(j) ==
             /\ ph \in PhaseName
             /\ j \in 1..Len(Phases)
             /\ j < Len(Phases) =>
                  /\ Phases[j + 1] \in Range(Phases)
                  /\ \A q \in Kept : Place[q] < Place[Phases[j + 1]] =>
                                       q = ph \/ Place[q] < Place[ph]
             /\ j = Len(Phases) =>
                  \A q \in Kept : q = ph \/ Place[q] < Place[ph]
<1> SUFFICES Later(k)
  OBVIOUS
<1>1. /\ Place["tcp"] = 1 /\ Place["tls"] = 2 /\ Place["http1"] = 3
      /\ Place["http2"] = 4 /\ Place["http3"] = 5 /\ Place["repeat"] = 6
  BY PhaseNames DEF Place, Probes
<1>2. k \in DOMAIN Phases /\ Phases[k] = ph
  BY DEF Range
<1> HIDE DEF k, Later
<1>3. CASE opts.plain
  <2>1. /\ DOMAIN Phases = 1..5 /\ Len(Phases) = 5
        /\ Phases[1] = "tcp" /\ Phases[2] = "http1" /\ Phases[3] = "http2"
        /\ Phases[4] = "http3" /\ Phases[5] = "repeat"
    BY <1>3 DEF Phases, ProbesPlain
  <2>2. Kept = {"tcp", "http1", "repeat"}
    BY <1>3 DEF Kept
  <2>3. k = 1 \/ k = 2 \/ k = 3 \/ k = 4 \/ k = 5
    BY <1>2, <2>1
  <2>4. ph \in PhaseName
    BY ONLY <1>2, <2>1, <2>3, PhaseNames
  <2>5. CASE k = 1
    BY ONLY <1>1, <1>2, <2>1, <2>2, <2>4, <2>5 DEF Range, Later
  <2>6. CASE k = 2
    BY ONLY <1>1, <1>2, <2>1, <2>2, <2>4, <2>6 DEF Range, Later
  <2>7. CASE k = 3
    BY ONLY <1>1, <1>2, <2>1, <2>2, <2>4, <2>7 DEF Range, Later
  <2>8. CASE k = 4
    BY ONLY <1>1, <1>2, <2>1, <2>2, <2>4, <2>8 DEF Range, Later
  <2>9. CASE k = 5
    BY ONLY <1>1, <1>2, <2>1, <2>2, <2>4, <2>9 DEF Range, Later
  <2> QED BY <2>3, <2>5, <2>6, <2>7, <2>8, <2>9
<1>4. CASE ~opts.plain
  <2>1. /\ DOMAIN Phases = 1..6 /\ Len(Phases) = 6
        /\ Phases[1] = "tcp" /\ Phases[2] = "tls" /\ Phases[3] = "http1"
        /\ Phases[4] = "http2" /\ Phases[5] = "http3" /\ Phases[6] = "repeat"
    BY <1>4 DEF Phases, Probes
  <2>2. Kept = {"tcp", "tls", "http1", "http2", "http3", "repeat"}
    BY <1>4, PhaseNames DEF Kept
  <2>3. k = 1 \/ k = 2 \/ k = 3 \/ k = 4 \/ k = 5 \/ k = 6
    BY <1>2, <2>1
  <2>4. ph \in PhaseName
    BY ONLY <1>2, <2>1, <2>3, PhaseNames
  <2>5. CASE k = 1
    BY ONLY <1>1, <1>2, <2>1, <2>2, <2>4, <2>5 DEF Range, Later
  <2>6. CASE k = 2
    BY ONLY <1>1, <1>2, <2>1, <2>2, <2>4, <2>6 DEF Range, Later
  <2>7. CASE k = 3
    BY ONLY <1>1, <1>2, <2>1, <2>2, <2>4, <2>7 DEF Range, Later
  <2>8. CASE k = 4
    BY ONLY <1>1, <1>2, <2>1, <2>2, <2>4, <2>8 DEF Range, Later
  <2>9. CASE k = 5
    BY ONLY <1>1, <1>2, <2>1, <2>2, <2>4, <2>9 DEF Range, Later
  <2>10. CASE k = 6
    BY ONLY <1>1, <1>2, <2>1, <2>2, <2>4, <2>10 DEF Range, Later
  <2> QED BY <2>3, <2>5, <2>6, <2>7, <2>8, <2>9, <2>10
<1> QED BY <1>3, <1>4

LEMMA FirstPhase ==
  /\ Phases[1] \in Range(Phases) /\ Phases[1] \in PhaseName
  /\ Range(Phases) \subseteq PhaseName
  /\ \A q \in PhaseName : ~(Place[q] < Place[Phases[1]])
<1>1. /\ Place["tcp"] = 1 /\ Place["tls"] = 2 /\ Place["http1"] = 3
      /\ Place["http2"] = 4 /\ Place["http3"] = 5 /\ Place["repeat"] = 6
  BY PhaseNames DEF Place, Probes
<1>2. Phases[1] = "tcp"
  BY DEF Phases, Probes, ProbesPlain
<1>3. Phases[1] \in Range(Phases) /\ Range(Phases) \subseteq PhaseName
  <2>1. CASE opts.plain
    <3>1. Phases = ProbesPlain
      BY <2>1 DEF Phases
    <3>2. \A j \in DOMAIN ProbesPlain : ProbesPlain[j] \in PhaseName
      BY PhaseNames DEF ProbesPlain
    <3>3. 1 \in DOMAIN ProbesPlain
      BY DEF ProbesPlain
    <3> QED BY <3>1, <3>2, <3>3 DEF Range
  <2>2. CASE ~opts.plain
    <3>1. Phases = Probes
      BY <2>2 DEF Phases
    <3>2. \A j \in DOMAIN Probes : Probes[j] \in PhaseName
      BY PhaseNames DEF Probes
    <3>3. 1 \in DOMAIN Probes
      BY DEF Probes
    <3> QED BY <3>1, <3>2, <3>3 DEF Range
  <2> QED BY <2>1, <2>2
<1>4. \A q \in PhaseName : ~(Place[q] < 1)
  BY <1>1, PhaseNames
<1> QED BY <1>1, <1>2, <1>3, <1>4

-----------------------------------------------------------------------------
(* The actions of diagnose, as they are listed below.                      *)
LEMMA Actions ==
  ASSUME [Next]_vars
  PROVE  \/ CheckArgs
         \/ StartTarget
         \/ \E t \in Target : Resolve(t) \/ NextPhase(t) \/ Diagnose(t)
                              \/ PanicTarget(t) \/ JoinTarget(t)
         \/ \E t \in Target :
              \/ StartProbe(t) \/ ReturnPhase(t)
              \/ \E d \in Addr : EndProbe(t, d) \/ PanicProbe(t, d) \/ JoinProbe(t, d)
         \/ ReturnSweep
         \/ PrintAndExit
         \/ UNCHANGED vars
BY DEF Next, Exited

(* What the steps inside the inner maps leave alone.                       *)
LEMMA InnerOnly ==
  ASSUME NEW t \in Target,
         \/ StartProbe(t) \/ ReturnPhase(t)
         \/ \E d \in Addr : EndProbe(t, d) \/ PanicProbe(t, d) \/ JoinProbe(t, d)
  PROVE  /\ UNCHANGED <<ownVars, outerVars, iAsked>>
         /\ \A u \in Target : iCalling \in [Target -> BOOLEAN] /\ iCalling'[u] => iCalling[u]
BY DEF StartProbe, ReturnPhase, EndProbe, PanicProbe, JoinProbe, Inner!Spawn,
       Inner!Finish, Inner!Return, Inner!Panic, Inner!Join

LEMMA OwnTypeStep ==
  ASSUME OwnTypeOK, PhaseOK, OP!IInv, IP!IInv, [Next]_vars
  PROVE  OwnTypeOK'
<1>1. CASE CheckArgs
  BY <1>1 DEF CheckArgs, Exit, OwnTypeOK
<1>2. CASE StartTarget
  <2>1. oQueue[Main] \in Seq(Target) /\ oQueue[Main] # <<>>
    BY <1>2, OuterFacts DEF StartTarget, Outer!Spawn
  <2>2. Head(oQueue[Main]) \in Target
    BY <2>1
  <2> QED BY <1>2, <2>2 DEF StartTarget, OwnTypeOK
<1>3. ASSUME NEW t \in Target, Resolve(t) PROVE OwnTypeOK'
  <2>1. PICK found \in Lookup[t] :
          LET kept == {d \in found : InFamily(d)}
          IN \/ /\ result' = [result EXCEPT ![t] = "unresolved"]
                /\ pc' = [pc EXCEPT ![t] = "done"]
                /\ UNCHANGED addrs
             \/ /\ addrs' = [addrs EXCEPT ![t] = kept]
                /\ pc' = [pc EXCEPT ![t] = Phases[1]]
                /\ UNCHANGED result
    BY <1>3 DEF Resolve, Begin
  <2>2. {d \in found : InFamily(d)} \in SUBSET Addr
    BY PoolInAddr
  <2>3. UNCHANGED <<n, opts, stage, evidence, report, shape, code>>
    BY <1>3 DEF Resolve
  <2>4. addrs' \in [Target -> SUBSET Addr]
    BY <2>1, <2>2 DEF OwnTypeOK
  <2>5. result' \in [Target -> HostVerdict \cup {"pending", "lost"}]
    BY <2>1 DEF OwnTypeOK, HostVerdict
  <2>6. pc' \in [Target -> {"waiting", "resolve", "diagnose", "done"} \cup PhaseName]
    BY <2>1, FirstPhase DEF OwnTypeOK
  <2> QED BY <2>3, <2>4, <2>5, <2>6 DEF OwnTypeOK
<1>4. ASSUME NEW t \in Target, NextPhase(t) PROVE OwnTypeOK'
  <2>1. /\ pc[t] \in PhaseName
        /\ \/ evidence' = [evidence EXCEPT ![t][pc[t]] = RowsOf(t)]
           \/ evidence' = evidence
    BY <1>4 DEF NextPhase
  <2>2. evidence' \in [Target -> [PhaseName -> Seq(Addr)]]
    <3> DEFINE rows == RowsOf(t)
    <3>1. rows \in Seq(Addr)
      BY RowsFacts
    <3>2. evidence \in [Target -> [PhaseName -> Seq(Addr)]]
      BY DEF OwnTypeOK
    <3>3. evidence' = [evidence EXCEPT ![t][pc[t]] = rows] \/ evidence' = evidence
      BY <2>1
    <3> HIDE DEF rows
    <3> DEFINE row == [evidence[t] EXCEPT ![pc[t]] = rows]
    <3>4. row \in [PhaseName -> Seq(Addr)]
      BY <2>1, <3>1, <3>2
    <3>5. evidence' = [evidence EXCEPT ![t] = row] \/ evidence' = evidence
      BY <3>2, <3>3
    <3> HIDE DEF row
    <3> QED BY ONLY <3>2, <3>4, <3>5
  <2>3. pc[t] \in Range(Phases)
    BY <2>1 DEF PhaseOK, InPhase
  <2>4. PICK w \in PhaseName \cup {"diagnose"} : pc' = [pc EXCEPT ![t] = w]
    BY <1>4, <2>3, PhaseOrder, FirstPhase DEF NextPhase, Begin, OwnTypeOK
  <2>5. UNCHANGED <<n, opts, stage, addrs, result, report, shape, code>>
    BY <1>4 DEF NextPhase
  <2> QED BY <2>2, <2>4, <2>5 DEF OwnTypeOK
<1>5. ASSUME NEW t \in Target, Diagnose(t) PROVE OwnTypeOK'
  BY <1>5 DEF Diagnose, OwnTypeOK, HostVerdict
<1>6. ASSUME NEW t \in Target, PanicTarget(t) PROVE OwnTypeOK'
  BY <1>6 DEF PanicTarget, OwnTypeOK
<1>7. CASE PrintAndExit
  BY <1>7, ReportsFacts DEF PrintAndExit, Exit, ExitCode, OwnTypeOK
<1>8. CASE UNCHANGED ownVars
  BY <1>8 DEF ownVars, OwnTypeOK
<1> QED
  BY <1>1, <1>2, <1>3, <1>4, <1>5, <1>6, <1>7, <1>8, Actions, InnerOnly
  DEF vars, JoinTarget, ReturnSweep

LEMMA StageStep ==
  ASSUME OwnTypeOK, StageOK, OP!IInv, [Next]_vars
  PROVE  StageOK'
<1>1. CASE CheckArgs
  <2>0. stage = "args" /\ UNCHANGED <<n, report>>
    BY <1>1 DEF CheckArgs
  <2>1. CASE UNCHANGED outerVars /\ (Exit("usage") \/ Exit("failure"))
    BY <2>0, <2>1 DEF Exit, StageOK, outerVars
  <2>2. CASE /\ Outer!Call(Main, [t \in 1..n |-> t]) /\ n > 0
             /\ stage' = "sweeping" /\ UNCHANGED code
    <3>1. Outer!Range([t \in 1..n |-> t]) = 1..n
      BY DEF Outer!Range
    <3>2. oAsked'[Main] = 1..n
      BY <2>2, <3>1, OuterFacts DEF Outer!Call
    <3> QED BY <2>0, <2>2, <3>2 DEF StageOK
  <2> QED BY <1>1, <2>1, <2>2 DEF CheckArgs
<1>2. CASE PrintAndExit
  <2>1. oAsked[Main] = 1..n /\ n > 0 /\ n \in Int /\ ~oCalling[Main]
    BY <1>2 DEF PrintAndExit, StageOK, OwnTypeOK
  <2>2. oAsked[Main] # {}
    BY <2>1
  <2>3. /\ UNCHANGED <<n, oAsked, oCalling>>
        /\ stage' = "exited" /\ code' \in {"success", "failure"}
    BY <1>2 DEF PrintAndExit, Exit, ExitCode, outerVars
  <2> QED BY <2>1, <2>2, <2>3 DEF StageOK
<1>3. CASE UNCHANGED <<n, stage, report, code, oAsked, oCalling>>
  BY <1>3 DEF StageOK
<1>4. CASE ReturnSweep
  BY <1>4, OuterFacts DEF ReturnSweep, Outer!Finish, StageOK, ownVars
<1>5. CASE StartTarget
  BY <1>3, <1>5 DEF StartTarget, Outer!Spawn
<1>6. ASSUME NEW t \in Target,
             Resolve(t) \/ NextPhase(t) \/ Diagnose(t) \/ PanicTarget(t) \/ JoinTarget(t)
      PROVE  StageOK'
  BY <1>3, <1>6 DEF Resolve, NextPhase, Diagnose, PanicTarget, JoinTarget,
     Outer!Return, Outer!Panic, Outer!Join, outerVars, ownVars
<1>7. CASE UNCHANGED <<ownVars, outerVars>>
  BY <1>3, <1>7 DEF ownVars, outerVars
<1> QED BY <1>1, <1>2, <1>4, <1>5, <1>6, <1>7, Actions, InnerOnly DEF vars

LEMMA QueueStep ==
  ASSUME OwnTypeOK, QueueOK, OP!IInv, [Next]_vars
  PROVE  QueueOK'
<1>1. CASE CheckArgs
  <2>1. CASE UNCHANGED outerVars
    BY <1>1, <2>1 DEF CheckArgs, QueueOK, outerVars
  <2>2. CASE Outer!Call(Main, [t \in 1..n |-> t]) /\ UNCHANGED n
    <3>1. oQueue'[Main] = [t \in 1..n |-> t]
      BY <2>2, OuterFacts DEF Outer!Call
    <3>2. n \in Nat
      BY BoundsAssumption DEF OwnTypeOK
    <3>3. Len(oQueue'[Main]) = n /\ DOMAIN oQueue'[Main] = 1..n
      BY <3>1, <3>2
    <3> QED BY <2>2, <3>1, <3>2, <3>3 DEF QueueOK
  <2> QED BY <1>1, <2>1, <2>2 DEF CheckArgs
<1>2. CASE StartTarget
  <2> DEFINE q == oQueue[Main]
  <2>1. /\ q # <<>> /\ q \in Seq(Target) /\ oQueue'[Main] = Tail(q)
        /\ UNCHANGED n /\ n \in Int
    BY <1>2, OuterFacts DEF StartTarget, Outer!Spawn, OwnTypeOK
  <2>2. /\ Len(q) <= n /\ \A k \in 1..Len(q) : q[k] = n - Len(q) + k
    <3>1. Len(q) <= n /\ \A k \in DOMAIN q : q[k] = n - Len(q) + k
      BY DEF QueueOK
    <3> HIDE DEF q
    <3>2. DOMAIN q = 1..Len(q)
      BY <2>1
    <3> QED BY <3>1, <3>2
  <2> HIDE DEF q
  <2>3. /\ Len(q) \in Nat /\ Len(Tail(q)) = Len(q) - 1
        /\ DOMAIN Tail(q) = 1..(Len(q) - 1)
        /\ \A k \in 1..(Len(q) - 1) : Tail(q)[k] = q[k + 1]
    BY <2>1
  <2>4. \A k \in 1..(Len(q) - 1) : k + 1 \in 1..Len(q) /\ q[k + 1] = n - Len(q) + (k + 1)
    BY <2>2, <2>3
  <2> QED BY <2>1, <2>2, <2>3, <2>4 DEF QueueOK
<1>3. CASE UNCHANGED <<n, oQueue>>
  BY <1>3 DEF QueueOK
<1>4. ASSUME NEW t \in Target,
             Resolve(t) \/ NextPhase(t) \/ Diagnose(t) \/ PanicTarget(t) \/ JoinTarget(t)
      PROVE  QueueOK'
  BY <1>3, <1>4 DEF Resolve, NextPhase, Diagnose, PanicTarget, JoinTarget,
     Outer!Return, Outer!Panic, Outer!Join, outerVars, ownVars
<1>5. CASE ReturnSweep \/ PrintAndExit
  BY <1>3, <1>5 DEF ReturnSweep, PrintAndExit, Outer!Finish, ownVars, outerVars
<1>6. CASE UNCHANGED <<ownVars, outerVars>>
  BY <1>3, <1>6 DEF ownVars, outerVars
<1> QED BY <1>1, <1>2, <1>4, <1>5, <1>6, Actions, InnerOnly DEF vars

(* A phase is none of the other places diagnose_one can be at.             *)
LEMMA PhaseIsWork ==
  \A ph \in PhaseName : ph \notin {"waiting", "resolve", "diagnose", "done"}
BY PhaseNames

(* One outer task changes state.                                           *)
LEMMA OuterTask ==
  ASSUME OP!IInv, NEW t \in Target, NEW st \in {"none", "running", "returned", "panicked"},
         oTask' = [oTask EXCEPT ![Main][t] = st]
  PROVE  oTask'[Main][t] = st /\ \A u \in Target \ {t} : oTask'[Main][u] = oTask[Main][u]
<1>1. oTask \in [{Main} -> [Target -> {"none", "running", "returned", "panicked"}]]
  BY OuterFacts
<1>2. oTask' = [oTask EXCEPT ![Main] = [oTask[Main] EXCEPT ![t] = st]]
  BY <1>1
<1>3. oTask'[Main] = [oTask[Main] EXCEPT ![t] = st]
  BY <1>1, <1>2
<1> QED BY <1>1, <1>3

(* diagnose_one of target t ends, with a verdict or in a panic.            *)
LEMMA TaskEnds ==
  ASSUME OwnTypeOK, TaskOK, OP!IInv, NEW t \in Target,
         pc[t] \notin {"waiting", "done"},
         pc' = [pc EXCEPT ![t] = "done"],
         UNCHANGED <<oAsked, oQueue, oOut, oDropped>>,
         \/ /\ oTask' = [oTask EXCEPT ![Main][t] = "returned"]
            /\ \E v \in HostVerdict : result' = [result EXCEPT ![t] = v]
         \/ /\ oTask' = [oTask EXCEPT ![Main][t] = "panicked"]
            /\ result' = [result EXCEPT ![t] = "lost"]
  PROVE  TaskOK'
<1>1. PICK st \in {"returned", "panicked"}, r \in HostVerdict \cup {"lost"} :
        /\ oTask' = [oTask EXCEPT ![Main][t] = st]
        /\ result' = [result EXCEPT ![t] = r]
        /\ st = "returned" => r \in HostVerdict
        /\ st = "panicked" => r = "lost"
  BY DEF HostVerdict
<1>2. oTask'[Main][t] = st /\ \A u \in Target \ {t} : oTask'[Main][u] = oTask[Main][u]
  BY <1>1, OuterTask
<1>3. /\ pc'[t] = "done" /\ result'[t] = r
      /\ \A u \in Target \ {t} : pc'[u] = pc[u] /\ result'[u] = result[u]
  BY <1>1 DEF OwnTypeOK
<1>4. Tracked(t) /\ oTask[Main][t] = "running"
  BY DEF TaskOK, Tracked
<1>5. t \notin Range(oOut[Main]) /\ t \notin oDropped[Main]
  BY <1>4 DEF Tracked, OwnTypeOK, HostVerdict
<1>6. Tracked(t)'
  BY <1>1, <1>2, <1>3, <1>4, <1>5 DEF Tracked, HostVerdict
<1>7. ASSUME NEW u \in Target \ {t} PROVE Tracked(u)'
  <2>1. Tracked(u)
    BY DEF TaskOK, Tracked
  <2> QED BY <1>2, <1>3, <2>1 DEF Tracked
<1> QED BY <1>6, <1>7 DEF TaskOK, Tracked

(* diagnose_one of target t goes on.                                       *)
LEMMA TaskGoesOn ==
  ASSUME OwnTypeOK, TaskOK, NEW t \in Target,
         pc[t] \notin {"waiting", "done"},
         NEW w, w \notin {"waiting", "done"}, pc' = [pc EXCEPT ![t] = w],
         UNCHANGED <<oAsked, oQueue, oTask, oOut, oDropped, result>>
  PROVE  TaskOK'
<1>1. pc'[t] = w /\ \A u \in Target \ {t} : pc'[u] = pc[u]
  BY DEF OwnTypeOK
<1>2. ASSUME NEW u \in Target PROVE Tracked(u)'
  <2>1. Tracked(u)
    BY DEF TaskOK, Tracked
  <2> QED BY <1>1, <2>1 DEF Tracked
<1> QED BY <1>2 DEF TaskOK, Tracked

LEMMA TaskStep ==
  ASSUME OwnTypeOK, StageOK, TaskOK, PhaseOK, OP!IInv, [Next]_vars
  PROVE  TaskOK'
<1>1. CASE CheckArgs
  <2>1. CASE UNCHANGED outerVars
    BY <1>1, <2>1 DEF CheckArgs, TaskOK, Tracked, outerVars
  <2>2. CASE Outer!Call(Main, [t \in 1..n |-> t])
    <3>1. /\ oAsked'[Main] = 1..n /\ oQueue'[Main] = [t \in 1..n |-> t]
          /\ oOut'[Main] = <<>> /\ oDropped'[Main] = {}
          /\ UNCHANGED <<oTask, pc, result>>
      BY <1>1, <2>2, OuterFacts DEF Outer!Call, CheckArgs, Outer!Range
    <3>2. Range(oQueue'[Main]) = 1..n /\ Range(oOut'[Main]) = {}
      BY <3>1 DEF Range
    <3>3. oAsked[Main] = {}
      BY <1>1 DEF CheckArgs, StageOK
    <3>4. ASSUME NEW t \in Target PROVE Tracked(t)'
      <4>1. Tracked(t)
        BY DEF TaskOK, Tracked
      <4>2. pc[t] = "waiting"
        BY <3>3, <4>1 DEF Tracked
      <4> QED BY <3>1, <3>2, <4>1, <4>2, OuterPlaces, <3>3 DEF Tracked
    <3> QED BY <3>4 DEF TaskOK, Tracked
  <2> QED BY <1>1, <2>1, <2>2 DEF CheckArgs
<1>2. CASE StartTarget
  <2>1. /\ oQueue[Main] \in Seq(Target) /\ oQueue[Main] # <<>>
        /\ IsInjective(oQueue[Main])
        /\ oQueue'[Main] = Tail(oQueue[Main])
        /\ oTask' = [oTask EXCEPT ![Main][Head(oQueue[Main])] = "running"]
        /\ pc' = [pc EXCEPT ![Head(oQueue[Main])] = "resolve"]
        /\ UNCHANGED <<result, oAsked, oOut, oDropped>>
    BY <1>2, OuterFacts DEF StartTarget, Outer!Spawn
  <2>2. PICK h \in Target :
          /\ h = Head(oQueue[Main]) /\ h \in Range(oQueue[Main])
          /\ Range(oQueue'[Main]) = Range(oQueue[Main]) \ {h}
    BY <2>1, TailOfInjective
  <2>3. oTask'[Main][h] = "running" /\ \A u \in Target \ {h} : oTask'[Main][u] = oTask[Main][u]
    BY <2>1, <2>2, OuterTask
  <2>4. pc'[h] = "resolve" /\ \A u \in Target \ {h} : pc'[u] = pc[u]
    BY <2>1, <2>2 DEF OwnTypeOK
  <2>5. h \notin Range(oOut[Main]) /\ h \notin oDropped[Main] /\ h \in oAsked[Main]
    BY <2>2, OuterPlaces
  <2>6. /\ oAsked'[Main] = oAsked[Main] /\ oOut'[Main] = oOut[Main]
        /\ oDropped'[Main] = oDropped[Main] /\ result' = result
    BY <2>1
  <2> DEFINE waiting == Range(oQueue[Main])
             still == Range(oQueue'[Main])
  <2>7. still = waiting \ {h} /\ h \in waiting
    BY <2>2
  <2> HIDE DEF waiting, still
  <2>8. Tracked(h)'
    <3>1. Tracked(h)
      BY <2>2 DEF TaskOK, Tracked
    <3>2. result[h] = "pending"
      BY ONLY <2>7, <3>1 DEF Tracked, waiting
    <3>3. h \notin still
      BY ONLY <2>7
    <3> QED BY ONLY <2>3, <2>4, <2>5, <2>6, <3>2, <3>3 DEF Tracked, still
  <2>9. ASSUME NEW u \in Target \ {h} PROVE Tracked(u)'
    <3>1. Tracked(u)
      BY DEF TaskOK, Tracked
    <3>2. u \in waiting <=> u \in still
      BY ONLY <2>7, u \in Target \ {h}
    <3>3. oTask'[Main][u] = oTask[Main][u] /\ pc'[u] = pc[u]
      BY <2>3, <2>4
    <3> QED BY ONLY <2>6, <3>1, <3>2, <3>3 DEF Tracked, waiting, still
  <2> QED BY <2>8, <2>9 DEF TaskOK, Tracked
<1>3. ASSUME NEW t \in Target, Resolve(t) PROVE TaskOK'
  <2>1. \/ /\ oTask' = [oTask EXCEPT ![Main][t] = "returned"]
           /\ UNCHANGED <<oAsked, oQueue, oOut, oDropped>>
           /\ result' = [result EXCEPT ![t] = "unresolved"]
           /\ pc' = [pc EXCEPT ![t] = "done"]
        \/ /\ UNCHANGED <<oAsked, oQueue, oTask, oOut, oDropped, result>>
           /\ pc' = [pc EXCEPT ![t] = Phases[1]]
    BY <1>3 DEF Resolve, Begin, Outer!Return, outerVars
  <2>2. pc[t] = "resolve"
    BY <1>3 DEF Resolve
  <2>3. Phases[1] \notin {"waiting", "done"}
    BY FirstPhase, PhaseIsWork
  <2>4. "unresolved" \in HostVerdict
    BY DEF HostVerdict
  <2> QED BY <2>1, <2>2, <2>3, <2>4, TaskEnds, TaskGoesOn
<1>4. ASSUME NEW t \in Target, NextPhase(t) PROVE TaskOK'
  <2>1. pc[t] \in PhaseName /\ pc[t] \in Range(Phases) /\ opts \in Options
    BY <1>4 DEF NextPhase, PhaseOK, InPhase, OwnTypeOK
  <2>2. PICK w \in PhaseName \cup {"diagnose"} : pc' = [pc EXCEPT ![t] = w]
    BY <1>4, <2>1, PhaseOrder, FirstPhase DEF NextPhase, Begin
  <2>3. UNCHANGED <<oAsked, oQueue, oTask, oOut, oDropped, result>>
    BY <1>4 DEF NextPhase, outerVars
  <2>4. w \notin {"waiting", "done"} /\ pc[t] \notin {"waiting", "done"}
    BY <2>1, PhaseIsWork
  <2> QED BY <2>2, <2>3, <2>4, TaskGoesOn
<1>5. ASSUME NEW t \in Target, Diagnose(t) PROVE TaskOK'
  <2>1. \A v \in {"healthy", "anomaly"} : v \in HostVerdict
    BY DEF HostVerdict
  <2> QED BY <1>5, <2>1, TaskEnds DEF Diagnose, Outer!Return
<1>6. ASSUME NEW t \in Target, PanicTarget(t) PROVE TaskOK'
  BY <1>6, TaskEnds DEF PanicTarget, Outer!Panic
<1>7. ASSUME NEW t \in Target, JoinTarget(t) PROVE TaskOK'
  <2>1. /\ oTask' = [oTask EXCEPT ![Main][t] = "none"]
        /\ \/ /\ oTask[Main][t] = "returned"
              /\ oOut'[Main] = Append(oOut[Main], t) /\ UNCHANGED oDropped
           \/ /\ oTask[Main][t] = "panicked"
              /\ oDropped'[Main] = oDropped[Main] \cup {t} /\ UNCHANGED oOut
        /\ UNCHANGED <<oAsked, oQueue, pc, result>>
    BY <1>7, OuterFacts DEF JoinTarget, Outer!Join, ownVars
  <2>2. oTask'[Main][t] = "none" /\ \A u \in Target \ {t} : oTask'[Main][u] = oTask[Main][u]
    BY <2>1, OuterTask
  <2>3. Range(Append(oOut[Main], t)) = Range(oOut[Main]) \cup {t}
    <3> DEFINE s == oOut[Main]
    <3>1. s \in Seq(Target)
      BY OuterFacts
    <3> HIDE DEF s
    <3>2. /\ DOMAIN s = 1..Len(s) /\ Len(s) \in Nat
          /\ DOMAIN Append(s, t) = 1..(Len(s) + 1)
          /\ \A k \in 1..Len(s) : Append(s, t)[k] = s[k]
          /\ Append(s, t)[Len(s) + 1] = t
      BY <3>1
    <3>3. Range(Append(s, t)) = Range(s) \cup {t}
      BY <3>2 DEF Range
    <3> QED BY <3>3 DEF s
  <2>4. ASSUME NEW u \in Target PROVE Tracked(u)'
    <3>1. Tracked(u) /\ Tracked(t)
      BY DEF TaskOK, Tracked
    <3> QED BY <2>1, <2>2, <2>3, <3>1 DEF Tracked
  <2> QED BY <2>4 DEF TaskOK, Tracked
<1>8. CASE UNCHANGED <<pc, result, oAsked, oQueue, oTask, oOut, oDropped>>
  BY <1>8 DEF TaskOK, Tracked
<1>9. CASE ReturnSweep \/ PrintAndExit \/ UNCHANGED <<ownVars, outerVars>>
  BY <1>8, <1>9 DEF ReturnSweep, PrintAndExit, Outer!Finish, ownVars, outerVars
<1> QED BY <1>1, <1>2, <1>3, <1>4, <1>5, <1>6, <1>7, <1>9, Actions, InnerOnly DEF vars

(* Target t leaves where it is for a place outside the phases.             *)
LEMMA LeavesPhases ==
  ASSUME OwnTypeOK, PhaseOK, NEW t \in Target, ~iCalling[t],
         NEW w, w \notin PhaseName, pc' = [pc EXCEPT ![t] = w],
         UNCHANGED <<opts, addrs, iCalling, iAsked>>
  PROVE  PhaseOK'
<1>1. pc'[t] = w /\ \A u \in Target \ {t} : pc'[u] = pc[u]
  BY DEF OwnTypeOK
<1>2. ASSUME NEW u \in Target PROVE InPhase(u)'
  <2>1. InPhase(u)
    BY DEF PhaseOK
  <2> QED BY <1>1, <2>1 DEF InPhase, Phases
<1> QED BY <1>2 DEF PhaseOK

(* Target t begins phase ph over the sorted pool.                          *)
LEMMA BeginsPhase ==
  ASSUME OwnTypeOK, PhaseOK, IP!IInv, NEW t \in Target, NEW ph \in Range(Phases),
         NEW kept \in SUBSET Addr, Begin(t, ph, kept),
         addrs' = [addrs EXCEPT ![t] = kept], UNCHANGED opts
  PROVE  PhaseOK'
<1>1. /\ pc'[t] = ph /\ \A u \in Target \ {t} : pc'[u] = pc[u]
      /\ addrs'[t] = kept /\ \A u \in Target \ {t} : addrs'[u] = addrs[u]
  BY DEF OwnTypeOK, Begin
<1>2. Range(Ascending(kept)) = kept
  BY AddrFinite, AscendingFacts, FS_Subset
<1>3. iAsked' = [iAsked EXCEPT ![t] = kept]
  BY <1>2 DEF Begin, Inner!Call, Inner!Range, Range
<1>4. iCalling' = [iCalling EXCEPT ![t] = TRUE]
  BY DEF Begin, Inner!Call
<1>5. /\ iAsked'[t] = kept
      /\ \A u \in Target \ {t} : iAsked'[u] = iAsked[u] /\ iCalling'[u] = iCalling[u]
  BY <1>3, <1>4, InnerFacts
<1>6. Phases' = Phases
  BY DEF Phases
<1>7. InPhase(t)'
  BY <1>1, <1>5, <1>6, FirstPhase DEF InPhase
<1>8. ASSUME NEW u \in Target \ {t} PROVE InPhase(u)'
  <2>1. InPhase(u)
    BY DEF PhaseOK
  <2> QED BY <1>1, <1>5, <1>6, <2>1 DEF InPhase
<1> QED BY <1>7, <1>8 DEF PhaseOK

LEMMA PhaseStep ==
  ASSUME OwnTypeOK, TaskOK, PhaseOK, OP!IInv, IP!IInv, [Next]_vars
  PROVE  PhaseOK'
<1>0. \A t \in Target : pc[t] \notin PhaseName => ~iCalling[t]
  BY DEF PhaseOK, InPhase
<1>1. CASE UNCHANGED <<opts, pc, addrs, iCalling, iAsked>>
  BY <1>1 DEF PhaseOK, InPhase, Phases
<1>2. CASE CheckArgs \/ ReturnSweep \/ PrintAndExit \/ UNCHANGED vars
  BY <1>1, <1>2 DEF CheckArgs, ReturnSweep, PrintAndExit, vars, ownVars, innerVars
<1>3. CASE StartTarget
  <2>1. PICK h \in Target : h = Head(oQueue[Main]) /\ h \in Range(oQueue[Main])
    BY <1>3, OuterFacts, TailOfInjective DEF StartTarget, Outer!Spawn
  <2>2. pc[h] = "waiting"
    BY <2>1 DEF TaskOK, Tracked
  <2>3. pc' = [pc EXCEPT ![h] = "resolve"] /\ UNCHANGED <<opts, addrs, iCalling, iAsked>>
    BY <1>3, <2>1 DEF StartTarget, innerVars
  <2>4. ~iCalling[h] /\ "resolve" \notin PhaseName
    BY <1>0, <2>2, PhaseIsWork
  <2> QED BY <2>3, <2>4, LeavesPhases
<1>4. ASSUME NEW t \in Target, Resolve(t) PROVE PhaseOK'
  <2>1. ~iCalling[t] /\ "done" \notin PhaseName
    BY <1>0, <1>4, PhaseIsWork DEF Resolve
  <2>2. CASE pc' = [pc EXCEPT ![t] = "done"] /\ UNCHANGED <<opts, addrs, innerVars>>
    BY <2>1, <2>2, LeavesPhases DEF innerVars
  <2>3. ASSUME NEW kept \in SUBSET Addr, Begin(t, Phases[1], kept),
               addrs' = [addrs EXCEPT ![t] = kept], UNCHANGED opts
        PROVE  PhaseOK'
    BY <2>3, FirstPhase, BeginsPhase
  <2> QED BY <1>4, <2>2, <2>3, PoolInAddr DEF Resolve
<1>5. ASSUME NEW t \in Target, NextPhase(t) PROVE PhaseOK'
  <2>1. ~iCalling[t] /\ "diagnose" \notin PhaseName
    BY <1>5, PhaseIsWork DEF NextPhase
  <2>2. pc[t] \in Range(Phases) /\ opts \in Options
    BY <1>5 DEF NextPhase, PhaseOK, InPhase, OwnTypeOK
  <2>3. CASE pc' = [pc EXCEPT ![t] = "diagnose"] /\ UNCHANGED <<opts, addrs, innerVars>>
    BY <2>1, <2>3, LeavesPhases DEF innerVars
  <2>4. ASSUME NEW ph \in Range(Phases), Begin(t, ph, addrs[t]), UNCHANGED <<opts, addrs>>
        PROVE  PhaseOK'
    <3>1. addrs[t] \in SUBSET Addr /\ addrs' = [addrs EXCEPT ![t] = addrs[t]]
      BY <2>4 DEF OwnTypeOK
    <3> QED BY <2>4, <3>1, BeginsPhase
  <2> QED BY <1>5, <2>2, <2>3, <2>4, PhaseOrder DEF NextPhase
<1>6. ASSUME NEW t \in Target, Diagnose(t) \/ PanicTarget(t) PROVE PhaseOK'
  <2>1. ~iCalling[t] /\ "done" \notin PhaseName
    BY <1>0, <1>6, PhaseIsWork DEF Diagnose, PanicTarget
  <2> QED BY <1>6, <2>1, LeavesPhases DEF Diagnose, PanicTarget, innerVars
<1>7. ASSUME NEW t \in Target, JoinTarget(t) PROVE PhaseOK'
  BY <1>1, <1>7 DEF JoinTarget, ownVars, innerVars
<1>8. ASSUME UNCHANGED <<ownVars, iAsked>>, \A u \in Target : iCalling'[u] => iCalling[u]
      PROVE  PhaseOK'
  BY <1>8 DEF PhaseOK, InPhase, Phases, ownVars
<1>9. ASSUME NEW t \in Target,
             \/ StartProbe(t) \/ ReturnPhase(t)
             \/ \E d \in Addr : EndProbe(t, d) \/ PanicProbe(t, d) \/ JoinProbe(t, d)
      PROVE  PhaseOK'
  <2>1. UNCHANGED <<ownVars, iAsked>> /\ \A u \in Target : iCalling'[u] => iCalling[u]
    BY <1>9, InnerOnly, InnerFacts
  <2> QED BY ONLY <1>8, <2>1
<1> QED
  <2>1. ASSUME NEW t \in Target,
               Resolve(t) \/ NextPhase(t) \/ Diagnose(t) \/ PanicTarget(t) \/ JoinTarget(t)
        PROVE  PhaseOK'
    BY ONLY <1>4, <1>5, <1>6, <1>7, <2>1, t \in Target
  <2> QED BY <1>2, <1>3, <1>9, <2>1, Actions

(* Panics are only ever counted up.                                        *)
LEMMA PanicsGrow ==
  ASSUME IP!IInv, [Next]_vars
  PROVE  iPanics \in Nat /\ iPanics' \in Nat /\ iPanics <= iPanics'
<1>1. iPanics \in Nat
  BY InnerFacts
<1>2. CASE UNCHANGED iPanics
  BY <1>1, <1>2
<1>3. CASE CheckArgs \/ StartTarget \/ ReturnSweep \/ PrintAndExit \/ UNCHANGED vars
  BY <1>2, <1>3 DEF CheckArgs, StartTarget, ReturnSweep, PrintAndExit, vars, innerVars
<1>4. ASSUME NEW t \in Target,
             Resolve(t) \/ NextPhase(t) \/ Diagnose(t) \/ PanicTarget(t) \/ JoinTarget(t)
      PROVE  UNCHANGED iPanics
  BY <1>4 DEF Resolve, NextPhase, Diagnose, PanicTarget, JoinTarget, Begin,
     Inner!Call, innerVars
<1>5. ASSUME NEW t \in Target,
             \/ StartProbe(t) \/ ReturnPhase(t)
             \/ \E d \in Addr : EndProbe(t, d) \/ PanicProbe(t, d) \/ JoinProbe(t, d)
      PROVE  iPanics' = iPanics \/ iPanics' = iPanics + 1
  BY <1>5 DEF StartProbe, ReturnPhase, EndProbe, PanicProbe, JoinProbe,
     Inner!Spawn, Inner!Finish, Inner!Return, Inner!Panic, Inner!Join
<1> QED BY <1>1, <1>2, <1>3, <1>4, <1>5, Actions

(* What was gathered of a target that a step leaves alone stays good.      *)
LEMMA StaysGathered ==
  ASSUME OwnTypeOK, IP!IInv, [Next]_vars, UNCHANGED opts,
         NEW t \in Target, Gathered(t),
         pc'[t] = pc[t] \/ pc'[t] \in {"resolve", "done", Phases[1]},
         addrs'[t] = addrs[t], evidence'[t] = evidence[t]
  PROVE  Gathered(t)'
<1>1. Kept' = Kept /\ Kept \subseteq PhaseName
  BY PhaseNames DEF Kept
<1>2. ASSUME NEW ph \in Kept, Behind(t, ph)' PROVE Behind(t, ph)
  <2>1. ph \in PhaseName
    BY <1>1
  <2>2. ~(Place[ph] < Place[Phases[1]])
    BY <2>1, FirstPhase
  <2>3. pc'[t] = "diagnose" \/ (pc'[t] \in PhaseName /\ Place[ph] < Place[pc'[t]])
    BY <1>2 DEF Behind
  <2>4. pc'[t] = pc[t]
    <3> DEFINE first == Phases[1]
               w == pc'[t]
    <3>1. w = pc[t] \/ w = "resolve" \/ w = "done" \/ w = first
      OBVIOUS
    <3>2. ~(Place[ph] < Place[first]) /\ first # "diagnose"
      BY <2>2, FirstPhase, PhaseIsWork
    <3>3. w = "diagnose" \/ (w \in PhaseName /\ Place[ph] < Place[w])
      BY <2>3
    <3> HIDE DEF first, w
    <3>4. w # "resolve" /\ w # "done"
      BY ONLY <3>3, PhaseIsWork
    <3>5. w # first
      BY ONLY <3>2, <3>3
    <3>6. w = pc[t]
      BY ONLY <3>1, <3>4, <3>5
    <3> QED BY <3>6 DEF w
  <2> QED BY <2>3, <2>4 DEF Behind
<1>3. ASSUME NEW ph \in Kept, Canonical(t, ph) PROVE Canonical(t, ph)'
  <2> DEFINE missing == addrs[t] \ Range(evidence[t][ph])
  <2>1. missing \subseteq Addr
    BY DEF OwnTypeOK
  <2>2. Cardinality(missing) \in Nat
    BY <2>1, AddrFinite, FS_Subset, FS_CardinalityType
  <2>3. Cardinality(missing) <= iPanics
    BY <1>3 DEF Canonical
  <2> HIDE DEF missing
  <2>4. Cardinality(missing) <= iPanics'
    BY <2>2, <2>3, PanicsGrow
  <2> QED BY <1>3, <2>4 DEF Canonical, missing
<1> QED BY <1>1, <1>2, <1>3 DEF Gathered

(* A phase that returned leaves canonical rows.                            *)
LEMMA PhaseGathers ==
  ASSUME OwnTypeOK, PhaseOK, EvidenceOK, IP!IInv, IP!LossesCounted,
         NEW t \in Target, NextPhase(t)
  PROVE  EvidenceOK'
<1> DEFINE ph == pc[t]
           rows == RowsOf(t)
<1>1. /\ ph \in PhaseName /\ ph \in Range(Phases) /\ ~iCalling[t]
      /\ iAsked[t] = addrs[t] /\ addrs[t] \subseteq Addr /\ opts \in Options
  BY DEF NextPhase, PhaseOK, InPhase, OwnTypeOK
<1>2. UNCHANGED <<opts, addrs, iPanics>>
  BY DEF NextPhase, Begin, Inner!Call, innerVars
<1>3. Kept' = Kept /\ Kept \subseteq PhaseName
  BY <1>2, PhaseNames DEF Kept
<1>4. /\ IsAscending(rows) /\ Range(rows) \subseteq addrs[t]
      /\ Cardinality(addrs[t] \ Range(rows)) <= iPanics
  <2>1. Range(rows) = Range(iOut[t]) /\ IsAscending(rows)
    BY RowsFacts
  <2>2. addrs[t] = Range(rows) \cup iDropped[t]
    BY <1>1, <2>1, InnerFacts
  <2>3. addrs[t] \ Range(rows) \subseteq iDropped[t]
    BY <2>2
  <2>4. IsFiniteSet(iDropped[t]) /\ Cardinality(iDropped[t]) <= iPanics
    BY InnerLosses
  <2>5. Cardinality(addrs[t] \ Range(rows)) <= Cardinality(iDropped[t])
    BY <2>3, <2>4, FS_Subset
  <2>6. Cardinality(addrs[t] \ Range(rows)) \in Nat /\ Cardinality(iDropped[t]) \in Nat
    BY <2>3, <2>4, FS_Subset, FS_CardinalityType
  <2> QED BY <2>1, <2>2, <2>4, <2>5, <2>6, InnerFacts
<1>5. evidence' = IF ph \in Kept THEN [evidence EXCEPT ![t][ph] = rows] ELSE evidence
  BY DEF NextPhase
<1>6. \A q \in Kept : Behind(t, q)' => q = ph \/ Behind(t, q)
  <2> DEFINE k == CHOOSE j \in DOMAIN Phases : Phases[j] = ph
  <2>1. CASE k < Len(Phases)
    <3>1. pc' = [pc EXCEPT ![t] = Phases[k + 1]]
      BY <2>1 DEF NextPhase, Begin
    <3>2. pc'[t] = Phases[k + 1]
      BY <3>1 DEF OwnTypeOK
    <3>3. /\ Phases[k + 1] \in PhaseName
          /\ \A q \in Kept : Place[q] < Place[Phases[k + 1]] => q = ph \/ Place[q] < Place[ph]
      BY <1>1, <2>1, PhaseOrder, FirstPhase
    <3> QED BY <1>1, <3>2, <3>3, PhaseIsWork DEF Behind
  <2>2. CASE ~(k < Len(Phases))
    <3>0. Len(Phases) \in Nat
      BY DEF Phases, Probes, ProbesPlain
    <3>1. /\ k \in 1..Len(Phases)
          /\ k = Len(Phases) => \A q \in Kept : q = ph \/ Place[q] < Place[ph]
      BY <1>1, PhaseOrder
    <3> HIDE DEF k
    <3>2. \A q \in Kept : q = ph \/ Place[q] < Place[ph]
      BY ONLY <2>2, <3>0, <3>1
    <3> QED BY <1>1, <3>2 DEF Behind
  <2> QED BY <2>1, <2>2
<1>7. \A u \in Target \ {t} : pc'[u] = pc[u]
  BY DEF NextPhase, Begin, OwnTypeOK
<1> HIDE DEF ph, rows
<1>8. /\ ph \in Kept => evidence'[t][ph] = rows
      /\ \A q \in PhaseName \ {ph} : evidence'[t][q] = evidence[t][q]
      /\ ph \notin Kept => evidence'[t][ph] = evidence[t][ph]
      /\ \A u \in Target \ {t} : evidence'[u] = evidence[u]
  <2>1. evidence \in [Target -> [PhaseName -> Seq(Addr)]]
    BY DEF OwnTypeOK
  <2> DEFINE row == [evidence[t] EXCEPT ![ph] = rows]
  <2>2. CASE ph \in Kept
    <3>1. evidence' = [evidence EXCEPT ![t] = row]
      BY ONLY <1>5, <2>1, <2>2
    <3>2. evidence'[t] = row /\ \A u \in Target \ {t} : evidence'[u] = evidence[u]
      BY ONLY <2>1, <3>1, t \in Target
    <3>3. row[ph] = rows /\ \A q \in PhaseName \ {ph} : row[q] = evidence[t][q]
      BY ONLY <1>1, <2>1, t \in Target
    <3> QED BY ONLY <2>2, <3>2, <3>3
  <2>3. CASE ph \notin Kept
    BY ONLY <1>5, <2>3
  <2> QED BY <2>2, <2>3
<1>9. Gathered(t)'
  <2>1. Gathered(t)
    BY DEF EvidenceOK
  <2>2. ASSUME NEW q \in PhaseName \ Kept PROVE evidence'[t][q] = <<>>
    BY <1>8, <2>1, <2>2 DEF Gathered
  <2>3. ASSUME NEW q \in Kept, Behind(t, q)' PROVE Canonical(t, q)'
    <3>1. CASE q = ph
      <4>1. evidence'[t][q] = rows
        BY <1>8, <2>3, <3>1
      <4> QED BY <1>2, <1>4, <4>1 DEF Canonical
    <3>2. CASE q # ph
      <4>1. evidence'[t][q] = evidence[t][q] /\ Behind(t, q)
        BY <1>3, <1>6, <1>8, <2>3, <3>2
      <4>2. Canonical(t, q)
        BY <2>1, <4>1 DEF Gathered
      <4> QED BY <1>2, <4>1, <4>2 DEF Canonical
    <3> QED BY <3>1, <3>2
  <2> QED BY <1>3, <2>2, <2>3 DEF Gathered
<1>10. ASSUME NEW u \in Target \ {t} PROVE Gathered(u)'
  <2>1. Gathered(u)
    BY DEF EvidenceOK
  <2>2. evidence'[u] = evidence[u] /\ addrs'[u] = addrs[u] /\ pc'[u] = pc[u]
    BY <1>2, <1>7, <1>8
  <2> QED BY <1>2, <1>3, <2>1, <2>2 DEF Gathered, Behind, Canonical
<1> QED BY <1>9, <1>10 DEF EvidenceOK

LEMMA EvidenceStep ==
  ASSUME OwnTypeOK, TaskOK, PhaseOK, EvidenceOK, OP!IInv, IP!IInv, IP!LossesCounted,
         [Next]_vars
  PROVE  EvidenceOK'
<1>0. \A t \in Target : Gathered(t)
  BY DEF EvidenceOK
<1>1. CASE UNCHANGED <<opts, pc, addrs, evidence>>
  <2>1. \A t \in Target : Gathered(t)'
    BY <1>0, <1>1, StaysGathered
  <2> QED BY <2>1 DEF EvidenceOK
<1>2. CASE CheckArgs \/ ReturnSweep \/ PrintAndExit \/ UNCHANGED vars
  BY <1>1, <1>2 DEF CheckArgs, ReturnSweep, PrintAndExit, vars, ownVars
<1>3. ASSUME NEW t \in Target, NEW w \in {"resolve", "done", Phases[1]},
             pc' = [pc EXCEPT ![t] = w], UNCHANGED <<opts, evidence>>,
             pc[t] = "resolve" \/ UNCHANGED addrs,
             \A u \in Target \ {t} : addrs'[u] = addrs[u]
      PROVE  EvidenceOK'
  <2>1. pc'[t] = w /\ \A u \in Target \ {t} : pc'[u] = pc[u]
    BY <1>3 DEF OwnTypeOK
  <2>2. \A u \in Target \ {t} : Gathered(u)'
    BY <1>0, <1>3, <2>1, StaysGathered
  <2>3. Kept' = Kept /\ Kept \subseteq PhaseName
    BY <1>3, PhaseNames DEF Kept
  <2>4. \A q \in Kept : ~Behind(t, q)'
    BY <1>3, <2>1, <2>3, FirstPhase, PhaseIsWork DEF Behind
  <2>5. Gathered(t)'
    BY <1>0, <1>3, <2>3, <2>4 DEF Gathered
  <2> QED BY <2>2, <2>5 DEF EvidenceOK
<1>4. CASE StartTarget
  <2>1. PICK h \in Target : h = Head(oQueue[Main])
    BY <1>4, OuterFacts, TailOfInjective DEF StartTarget, Outer!Spawn
  <2> QED BY <1>3, <1>4, <2>1 DEF StartTarget
<1>5. ASSUME NEW t \in Target, Resolve(t) PROVE EvidenceOK'
  <2>1. pc[t] = "resolve" /\ UNCHANGED <<opts, evidence>>
    BY <1>5 DEF Resolve
  <2>2. PICK w \in {"done", Phases[1]} :
          /\ pc' = [pc EXCEPT ![t] = w]
          /\ \A u \in Target \ {t} : addrs'[u] = addrs[u]
    BY <1>5 DEF Resolve, Begin, OwnTypeOK
  <2> QED BY <1>3, <2>1, <2>2
<1>6. ASSUME NEW t \in Target, Diagnose(t) \/ PanicTarget(t) PROVE EvidenceOK'
  BY <1>3, <1>6 DEF Diagnose, PanicTarget
<1>7. ASSUME NEW t \in Target, JoinTarget(t) PROVE EvidenceOK'
  BY <1>1, <1>7 DEF JoinTarget, ownVars
<1>8. ASSUME NEW t \in Target,
             \/ StartProbe(t) \/ ReturnPhase(t)
             \/ \E d \in Addr : EndProbe(t, d) \/ PanicProbe(t, d) \/ JoinProbe(t, d)
      PROVE  EvidenceOK'
  <2>1. UNCHANGED ownVars
    BY <1>8, InnerOnly
  <2> QED BY <1>1, <2>1 DEF ownVars
<1> QED
  <2>1. ASSUME NEW t \in Target,
               Resolve(t) \/ NextPhase(t) \/ Diagnose(t) \/ PanicTarget(t) \/ JoinTarget(t)
        PROVE  EvidenceOK'
    BY <1>5, <1>6, <1>7, <2>1, PhaseGathers
  <2> QED BY <1>2, <1>4, <1>8, <2>1, Actions

-----------------------------------------------------------------------------
(* The inductive invariant, at last, with those of the two maps.           *)
IInv == OwnInv /\ OP!IInv /\ IP!IInv /\ IP!LossesCounted

LEMMA OwnInit == Init => OwnInv
<1> SUFFICES ASSUME Init PROVE OwnInv
  OBVIOUS
<1>1. OwnTypeOK
  BY DEF Init, OwnTypeOK, HostVerdict
<1>2. /\ oAsked[Main] = {} /\ oCalling[Main] = FALSE /\ oQueue[Main] = <<>>
      /\ oOut[Main] = <<>> /\ oDropped[Main] = {}
      /\ \A t \in Target : oTask[Main][t] = "none"
      /\ \A t \in Target : iCalling[t] = FALSE
  BY DEF Init, Outer!Init, Inner!Init
<1>3. StageOK
  BY <1>2 DEF Init, StageOK
<1>4. QueueOK
  BY <1>2, BoundsAssumption DEF Init, QueueOK
<1>5. TaskOK
  BY <1>2 DEF Init, TaskOK, Tracked, Range
<1>6. PhaseOK
  BY <1>2, PhaseIsWork DEF Init, PhaseOK, InPhase
<1>7. EvidenceOK
  BY PhaseIsWork, PhaseNames DEF Init, EvidenceOK, Gathered, Behind, Kept
<1> QED BY <1>1, <1>3, <1>4, <1>5, <1>6, <1>7 DEF OwnInv

LEMMA OwnStep == IInv /\ [Next]_vars => OwnInv'
<1> SUFFICES ASSUME IInv, [Next]_vars PROVE OwnInv'
  OBVIOUS
<1> USE DEF IInv, OwnInv
<1>1. OwnTypeOK'
  BY OwnTypeStep
<1>2. StageOK'
  BY StageStep
<1>3. QueueOK'
  BY QueueStep
<1>4. TaskOK'
  BY TaskStep
<1>5. PhaseOK'
  BY PhaseStep
<1>6. EvidenceOK'
  BY EvidenceStep
<1> QED BY <1>1, <1>2, <1>3, <1>4, <1>5, <1>6

LEMMA IInvAlways == Spec => []IInv
<1>1. IInv <=> OwnInv /\ OP!IInv /\ (IP!IInv /\ IP!LossesCounted)
  BY DEF IInv
<1> QED
  BY <1>1, OwnInit, OwnStep, OuterInvariants, InnerInvariants, PTL DEF Spec

(* Every variable holds a value of its type; the semaphores never hold     *)
(* more permits than they were made with.                                  *)
THEOREM TypeCorrect == Spec => []TypeOK
<1>1. IInv => TypeOK
  <2> SUFFICES ASSUME IInv PROVE TypeOK
    OBVIOUS
  <2>1. OwnTypeOK /\ OP!IInv /\ IP!IInv
    BY DEF IInv, OwnInv
  <2>2. Outer!TypeOK
    <3>1. oFree \in 0..Permits
      <4> DEFINE holders == {ci \in {Main} \X Target : oTask[ci[1]][ci[2]] = "running"}
      <4>1. IsFiniteSet(holders) /\ oFree + Cardinality(holders) = Permits /\ oFree \in Nat
        BY <2>1, OuterPermits
      <4>2. Cardinality(holders) \in Nat
        BY <4>1, FS_CardinalityType
      <4> HIDE DEF holders
      <4> QED BY <4>1, <4>2, PermitsAssumption
    <3>2. oPanics \in 0..MaxPanics
      BY <2>1 DEF OP!IInv, OP!Items, OP!Shape
    <3> QED BY <2>1, <3>1, <3>2, OuterFacts DEF Outer!TypeOK, Outer!TaskState
  <2>3. Inner!TypeOK
    <3>1. iFree \in 0..Permits
      <4> DEFINE holders == {ci \in Target \X Addr : iTask[ci[1]][ci[2]] = "running"}
      <4>1. IsFiniteSet(holders) /\ iFree + Cardinality(holders) = Permits /\ iFree \in Nat
        BY <2>1, SameSets
        DEF IP!IInv, IP!Items, IP!Shape, IP!Permitted, IP!PermitsConserved, IP!Holders
      <4>2. Cardinality(holders) \in Nat
        BY <4>1, FS_CardinalityType
      <4> HIDE DEF holders
      <4> QED BY <4>1, <4>2, PermitsAssumption
    <3>2. iPanics \in 0..MaxPanics
      BY <2>1 DEF IP!IInv, IP!Items, IP!Shape
    <3> QED BY <2>1, <3>1, <3>2, InnerFacts DEF Inner!TypeOK, Inner!TaskState
  <2> QED BY <2>1, <2>2, <2>3 DEF TypeOK, OwnTypeOK, HostVerdict
<1> QED BY <1>1, IInvAlways, PTL

(* The engine's evidence never shows an order the scheduler chose, nor a   *)
(* hole nothing accounts for: the rows of every phase kept are those of    *)
(* the pool in address order, less at most one per panic.                  *)
THEOREM EvidenceAlwaysCanonical == Spec => []EvidenceIsCanonical
<1>1. IInv => EvidenceIsCanonical
  <2> SUFFICES ASSUME IInv, NEW t \in Target, pc[t] = "diagnose"
               PROVE  /\ Inner!InFlight(t) = {} /\ iQueue[t] = <<>>
                      /\ \A ph \in Kept : Canonical(t, ph)
                      /\ \A ph \in PhaseName \ Kept : evidence[t][ph] = <<>>
    BY DEF EvidenceIsCanonical, Canonical
  <2>1. PhaseOK /\ EvidenceOK /\ IP!IInv
    BY DEF IInv, OwnInv
  <2>2. ~iCalling[t]
    BY <2>1, PhaseIsWork DEF PhaseOK, InPhase
  <2>3. Inner!InFlight(t) = {} /\ iQueue[t] = <<>>
    BY <2>1, <2>2, InnerFacts DEF Inner!InFlight
  <2> QED BY <2>1, <2>3 DEF EvidenceOK, Gathered, Behind
<1> QED BY <1>1, IInvAlways, PTL

-----------------------------------------------------------------------------
(* A host only ever moves on: it is done for good, and only StartTarget    *)
(* takes one up.                                                           *)
LEMMA HostsMoveOn ==
  ASSUME IInv, [Next]_vars
  PROVE  /\ \A t \in Target : pc[t] = "done" => pc'[t] = "done"
         /\ \/ StartTarget
            \/ \A t \in Target : pc'[t] # "waiting" => pc[t] # "waiting"
<1>0. OwnTypeOK /\ TaskOK /\ PhaseOK /\ OP!IInv
  BY DEF IInv, OwnInv
<1>1. CASE UNCHANGED pc
  BY <1>1
<1>2. CASE StartTarget
  <2>1. PICK h \in Target : h = Head(oQueue[Main]) /\ h \in Range(oQueue[Main])
    BY <1>0, <1>2, OuterFacts, TailOfInjective DEF StartTarget, Outer!Spawn
  <2>2. pc[h] = "waiting" /\ pc' = [pc EXCEPT ![h] = "resolve"]
    BY <1>0, <1>2, <2>1 DEF TaskOK, Tracked, StartTarget
  <2> QED BY <1>0, <1>2, <2>2 DEF OwnTypeOK
<1>3. ASSUME NEW t \in Target, pc[t] \notin {"waiting", "done"}, NEW w,
             pc' = [pc EXCEPT ![t] = w]
      PROVE  /\ \A u \in Target : pc[u] = "done" => pc'[u] = "done"
             /\ \A u \in Target : pc'[u] # "waiting" => pc[u] # "waiting"
  BY <1>0, <1>3 DEF OwnTypeOK
<1>4. ASSUME NEW t \in Target,
             Resolve(t) \/ NextPhase(t) \/ Diagnose(t) \/ PanicTarget(t)
      PROVE  pc[t] \notin {"waiting", "done"} /\ \E w : pc' = [pc EXCEPT ![t] = w]
  BY <1>4, PhaseIsWork
  DEF Resolve, NextPhase, Diagnose, PanicTarget, Begin
<1>5. CASE CheckArgs \/ ReturnSweep \/ PrintAndExit \/ UNCHANGED vars
           \/ \E t \in Target : JoinTarget(t)
  BY <1>1, <1>5 DEF CheckArgs, ReturnSweep, PrintAndExit, JoinTarget, vars, ownVars
<1>6. ASSUME NEW t \in Target,
             \/ StartProbe(t) \/ ReturnPhase(t)
             \/ \E d \in Addr : EndProbe(t, d) \/ PanicProbe(t, d) \/ JoinProbe(t, d)
      PROVE  UNCHANGED pc
  BY <1>6, InnerOnly DEF ownVars
<1>7. ASSUME NEW t \in Target,
             Resolve(t) \/ NextPhase(t) \/ Diagnose(t) \/ PanicTarget(t)
      PROVE  /\ \A u \in Target : pc[u] = "done" => pc'[u] = "done"
             /\ \A u \in Target : pc'[u] # "waiting" => pc[u] # "waiting"
  BY <1>3, <1>4, <1>7
<1> QED BY <1>1, <1>2, <1>5, <1>6, <1>7, Actions

(* When a host is taken up, the earlier hosts that are unfinished hold a   *)
(* permit each, and there is one more.                                     *)
LEMMA EarlierHostsHoldPermits ==
  ASSUME IInv, StartTarget, NEW h \in Target, h = Head(oQueue[Main])
  PROVE  Cardinality({u \in 1..(h - 1) : pc[u] # "done"}) < Permits
<1> DEFINE open == {u \in 1..(h - 1) : pc[u] # "done"}
           holders == {ci \in {Main} \X Target : oTask[ci[1]][ci[2]] = "running"}
           q == oQueue[Main]
<1>0. OwnTypeOK /\ StageOK /\ QueueOK /\ TaskOK /\ OP!IInv
  BY DEF IInv, OwnInv
<1>1. /\ oCalling[Main] /\ oFree > 0
      /\ q \in Seq(Target) /\ q # <<>>
  BY <1>0, OuterFacts DEF StartTarget, Outer!Spawn
<1>2. oAsked[Main] = 1..n /\ n \in Nat /\ 1..n \subseteq Target /\ h \in Nat
  BY <1>0, <1>1, BoundsAssumption DEF StageOK, OwnTypeOK, Target
<1>3. Len(q) \in Nat /\ Len(q) > 0 /\ DOMAIN q = 1..Len(q) /\ h = q[1]
  <2>1. h = Head(q)
    OBVIOUS
  <2> HIDE DEF q
  <2> QED BY ONLY <1>1, <2>1
<1>4. Len(q) <= n /\ \A k \in DOMAIN q : q[k] = n - Len(q) + k
  BY <1>0 DEF QueueOK
<1> HIDE DEF q
<1>5. h = n - Len(q) + 1
  BY <1>3, <1>4
<1>6. \A k \in DOMAIN q : q[k] >= h
  BY <1>2, <1>3, <1>4, <1>5
<1>7. ASSUME NEW u \in open
      PROVE  u \in Target /\ oTask[Main][u] = "running"
  <2>1. u \in 1..n /\ u < h /\ u \in Int
    BY <1>2, <1>3, <1>5
  <2>2. u \notin Range(q)
    BY <1>2, <1>6, <2>1 DEF Range
  <2>3. Tracked(u) /\ u \in Target
    BY <1>0, <1>2, <2>1 DEF TaskOK
  <2>4. pc[u] # "waiting" /\ pc[u] # "done"
    BY <1>2, <1>7, <2>1, <2>2, <2>3 DEF Tracked, q
  <2> QED BY <2>3, <2>4 DEF Tracked
<1>8. IsFiniteSet(holders) /\ oFree + Cardinality(holders) = Permits /\ oFree \in Nat
  BY <1>0, OuterPermits
<1> DEFINE f == [u \in open |-> <<Main, u>>]
<1>9. f \in Injection(open, holders)
  <2>1. \A u \in open : <<Main, u>> \in holders
    BY <1>7
  <2> HIDE DEF open, holders
  <2>2. f \in [open -> holders]
    BY <2>1
  <2>3. \A u, v \in open : f[u] = f[v] => u = v
    OBVIOUS
  <2> QED BY <2>2, <2>3 DEF Injection, IsInjective
<1> HIDE DEF f, open, holders
<1>10. Cardinality(open) <= Cardinality(holders) /\ IsFiniteSet(open)
  BY <1>8, <1>9, FS_Injection
<1>11. Cardinality(open) \in Nat /\ Cardinality(holders) \in Nat
  BY <1>8, <1>10, FS_CardinalityType
<1> QED BY <1>1, <1>8, <1>10, <1>11, PermitsAssumption DEF open

(* Hosts are taken up in order, and --concurrency bounds the hosts at      *)
(* work: whatever panics, a host starts only when fewer than that many     *)
(* earlier ones are unfinished.                                            *)
THEOREM HostsAlwaysInTurn == Spec => []HostsInTurn
<1>1. Init => HostsInTurn
  BY DEF Init, HostsInTurn
<1>2. IInv /\ HostsInTurn /\ [Next]_vars => HostsInTurn'
  <2> SUFFICES ASSUME IInv, HostsInTurn, [Next]_vars,
                      NEW t \in Target, pc'[t] # "waiting"
               PROVE  Cardinality({u \in 1..(t - 1) : pc'[u] # "done"}) < Permits
    BY DEF HostsInTurn
  <2> DEFINE open == {u \in 1..(t - 1) : pc[u] # "done"}
             still == {u \in 1..(t - 1) : pc'[u] # "done"}
  <2>1. Cardinality(open) < Permits
    <3>1. CASE pc[t] # "waiting"
      BY <3>1 DEF HostsInTurn
    <3>2. CASE pc[t] = "waiting"
      <4>1. StartTarget
        BY <3>2, HostsMoveOn
      <4>2. PICK h \in Target : h = Head(oQueue[Main])
        BY <4>1, OuterFacts, TailOfInjective DEF StartTarget, Outer!Spawn, IInv
      <4>3. h = t
        BY <3>2, <4>1, <4>2 DEF StartTarget, IInv, OwnInv, OwnTypeOK
      <4> QED BY <4>1, <4>2, <4>3, EarlierHostsHoldPermits
    <3> QED BY <3>1, <3>2
  <2>2. \A u \in 1..(t - 1) : u \in Target
    BY BoundsAssumption DEF Target
  <2>3. still \subseteq open
    BY <2>2, HostsMoveOn
  <2>4. IsFiniteSet(open)
    <3>1. t - 1 \in Int
      BY DEF Target
    <3>2. IsFiniteSet(1..(t - 1))
      BY <3>1, FS_Interval
    <3> QED BY <3>2, FS_Subset
  <2> HIDE DEF open
  <2>5. Cardinality(still) <= Cardinality(open) /\ IsFiniteSet(still)
    BY <2>3, <2>4, FS_Subset
  <2> HIDE DEF still
  <2>6. Cardinality(still) \in Nat /\ Cardinality(open) \in Nat
    BY <2>4, <2>5, FS_CardinalityType
  <2>7. Cardinality(still) < Permits
    BY <2>1, <2>5, <2>6, PermitsAssumption
  <2> QED BY <2>7 DEF still
<1> QED BY <1>1, <1>2, IInvAlways, PTL DEF Spec

-----------------------------------------------------------------------------
(* When the outer map has returned, every target asked for is either among *)
(* what it returned, with a verdict, or lost.                              *)
LEMMA Outcome ==
  ASSUME IInv, oAsked[Main] = 1..n, ~oCalling[Main]
  PROVE  /\ Range(oOut[Main]) \subseteq 1..n
         /\ \A t \in Range(oOut[Main]) : result[t] \in HostVerdict
         /\ \A t \in (1..n) \ Range(oOut[Main]) : result[t] = "lost"
         /\ 1..n \subseteq Target
<1>0. OwnTypeOK /\ TaskOK /\ OP!IInv
  BY DEF IInv, OwnInv
<1>1. 1..n \subseteq Target
  BY <1>0, BoundsAssumption DEF OwnTypeOK, Target
<1>2. Range(oOut[Main]) \subseteq Target
  BY <1>0, IndexedFacts, OuterFacts DEF Range
<1>3. oQueue[Main] = <<>> /\ \A t \in Target : oTask[Main][t] = "none"
  BY <1>0, OuterPlaces
<1>4. Range(oQueue[Main]) = {}
  BY <1>3 DEF Range
<1>5. Range(oOut[Main]) \subseteq 1..n
  BY <1>0, <1>2, OuterPlaces
<1>6. ASSUME NEW t \in 1..n
      PROVE  t \in Range(oOut[Main]) \/ t \in oDropped[Main]
  BY <1>0, <1>1, <1>3, <1>4, OuterPlaces
<1>7. \A t \in Target : Tracked(t)
  BY <1>0 DEF TaskOK
<1> QED BY <1>1, <1>2, <1>5, <1>6, <1>7 DEF Tracked

(* After the exit nothing the program printed or decided changes.          *)
LEMMA AfterExit ==
  ASSUME IInv, stage = "exited", [Next]_vars
  PROVE  UNCHANGED <<n, opts, stage, code, report, result, oAsked>>
<1>0. OwnTypeOK /\ StageOK /\ TaskOK /\ PhaseOK /\ OP!IInv
  BY DEF IInv, OwnInv
<1>1. ~oCalling[Main]
  BY <1>0 DEF StageOK
<1>2. \A t \in Target : pc[t] \in {"waiting", "done"}
  <2>1. \A t \in Target : oTask[Main][t] = "none"
    BY <1>0, <1>1, OuterPlaces
  <2> QED BY <1>0, <2>1 DEF TaskOK, Tracked
<1>3. CASE UNCHANGED <<ownVars, outerVars>>
  BY <1>3 DEF ownVars, outerVars
<1>4. ~CheckArgs /\ ~StartTarget /\ ~PrintAndExit
  BY <1>1 DEF CheckArgs, StartTarget, Outer!Spawn, PrintAndExit
<1>5. ASSUME NEW t \in Target
      PROVE  ~Resolve(t) /\ ~NextPhase(t) /\ ~Diagnose(t) /\ ~PanicTarget(t)
  BY <1>2, PhaseIsWork DEF Resolve, NextPhase, Diagnose, PanicTarget
<1>6. CASE ReturnSweep \/ \E t \in Target : JoinTarget(t)
  BY <1>6 DEF ReturnSweep, JoinTarget, Outer!Finish, Outer!Join, ownVars
<1> QED BY <1>3, <1>4, <1>5, <1>6, Actions, InnerOnly DEF vars

(* How the run comes to an end.                                            *)
LEMMA Exits ==
  ASSUME IInv, [Next]_vars, stage # "exited"
  PROVE  \/ stage' # "exited"
         \/ code' # "success" /\ oAsked'[Main] = {}
         \/ PrintAndExit
<1>0. OwnTypeOK /\ StageOK /\ OP!IInv
  BY DEF IInv, OwnInv
<1>1. CASE UNCHANGED stage
  BY <1>1
<1>2. CASE CheckArgs
  <2>1. oAsked[Main] = {}
    BY <1>0, <1>2 DEF CheckArgs, StageOK
  <2> QED BY <1>2, <2>1 DEF CheckArgs, Exit, outerVars
<1>3. CASE StartTarget \/ ReturnSweep \/ UNCHANGED vars
  BY <1>1, <1>3 DEF StartTarget, ReturnSweep, vars, ownVars
<1>4. ASSUME NEW t \in Target,
             Resolve(t) \/ NextPhase(t) \/ Diagnose(t) \/ PanicTarget(t) \/ JoinTarget(t)
      PROVE  UNCHANGED stage
  BY <1>4 DEF Resolve, NextPhase, Diagnose, PanicTarget, JoinTarget, ownVars
<1>5. ASSUME NEW t \in Target,
             \/ StartProbe(t) \/ ReturnPhase(t)
             \/ \E d \in Addr : EndProbe(t, d) \/ PanicProbe(t, d) \/ JoinProbe(t, d)
      PROVE  UNCHANGED stage
  BY <1>5, InnerOnly DEF ownVars
<1> QED BY <1>1, <1>2, <1>3, <1>4, <1>5, Actions

(* Success is earned: exit code 0 means that every host whose task was not *)
(* lost was resolved and, under --strict, found healthy.                   *)
THEOREM SuccessAlwaysEarned == Spec => []SuccessIsEarned
<1>1. Init => SuccessIsEarned
  BY DEF Init, SuccessIsEarned
<1>2. IInv /\ SuccessIsEarned /\ [Next]_vars => SuccessIsEarned'
  <2> SUFFICES ASSUME IInv, SuccessIsEarned, [Next]_vars, code' = "success"
               PROVE  /\ n' > 0
                      /\ \A t \in 1..n' :
                           result'[t] \in {"healthy", "lost"}
                             \cup (IF opts'.strict THEN {} ELSE {"anomaly"})
    BY DEF SuccessIsEarned
  <2>1. CASE stage = "exited"
    BY <2>1, AfterExit DEF SuccessIsEarned
  <2>2. CASE stage # "exited"
    <3>0. OwnTypeOK /\ StageOK /\ TaskOK /\ OP!IInv /\ StageOK'
      BY OwnStep DEF IInv, OwnInv
    <3>1. PrintAndExit
      BY <2>2, <3>0, Exits DEF StageOK
    <3>2. /\ ~oCalling[Main] /\ oAsked[Main] = 1..n /\ n > 0
          /\ UNCHANGED <<n, opts, result>>
          /\ ~Unresolved /\ (opts.strict => ~Anomaly)
      BY <3>0, <3>1 DEF PrintAndExit, StageOK, Exit, ExitCode
    <3>3. ASSUME NEW t \in 1..n
          PROVE  result[t] \in {"healthy", "lost"}
                   \cup (IF opts.strict THEN {} ELSE {"anomaly"})
      <4>1. CASE t \notin Range(oOut[Main])
        BY <3>2, <4>1, Outcome
      <4>2. CASE t \in Range(oOut[Main])
        <5>1. result[t] \in HostVerdict /\ t \in Target
          BY <3>2, <4>2, Outcome
        <5>2. result[t] # "unresolved"
          <6>1. t \in Range(Indexed)
            BY <3>0, <4>2, IndexedFacts
          <6>2. PICK k \in DOMAIN Indexed : Indexed[k] = t
            BY <6>1 DEF Range
          <6> QED BY <3>2, <6>2 DEF Unresolved
        <5>3. CASE opts.strict /\ result[t] = "anomaly"
          <6>1. t \in Range(Reports)
            BY <3>0, <4>2, <5>1, <5>2, ReportsFacts
          <6> QED BY <3>2, <5>3, <6>1 DEF Anomaly, Range
        <5> QED BY <5>1, <5>2, <5>3 DEF HostVerdict
      <4> QED BY <4>1, <4>2
    <3> QED BY <3>2, <3>3
  <2> QED BY <2>1, <2>2
<1> QED BY <1>1, <1>2, IInvAlways, PTL DEF Spec

(* The report printed is in target order, whatever order the hosts were    *)
(* finished in, and misses no host that was diagnosed.                     *)
THEOREM ReportAlwaysComplete == Spec => []ReportIsComplete
<1>1. Init => ReportIsComplete
  BY DEF Init, ReportIsComplete
<1>2. IInv /\ ReportIsComplete /\ [Next]_vars => ReportIsComplete'
  <2> SUFFICES ASSUME IInv, ReportIsComplete, [Next]_vars,
                      stage' = "exited", oAsked'[Main] # {},
                      code' = "success" \/ report' # <<>>
               PROVE  report' = Ascending({t \in 1..n' : result'[t] \in {"healthy", "anomaly"}})
    BY DEF ReportIsComplete
  <2>1. CASE stage = "exited"
    BY <2>1, AfterExit DEF ReportIsComplete
  <2>2. CASE stage # "exited"
    <3>0. OwnTypeOK /\ StageOK /\ TaskOK /\ OP!IInv
      BY DEF IInv, OwnInv
    <3>1. PrintAndExit
      BY <2>2, Exits
    <3>2. /\ ~oCalling[Main] /\ oAsked[Main] = 1..n
          /\ UNCHANGED <<n, result>> /\ report' = Reports
      BY <3>0, <3>1 DEF PrintAndExit, StageOK, Exit
    <3> DEFINE told == {t \in 1..n : result[t] \in {"healthy", "anomaly"}}
    <3>3. told \subseteq Target /\ told \in SUBSET Int /\ IsFiniteSet(told)
      <4>1. told \subseteq Target
        BY <3>2, Outcome
      <4> QED BY <4>1, TargetFinite, FS_Subset
    <3>4. Range(Reports) = told
      <4>1. Range(Reports) = Range(oOut[Main]) \cap {t \in Target : result[t] # "unresolved"}
        BY <3>0, ReportsFacts
      <4> QED BY <3>2, <4>1, Outcome DEF HostVerdict
    <3>5. Reports \in Seq(Int) /\ IsAscending(Reports)
      BY <3>0, ReportsFacts, TargetFinite, WiderSeq
    <3> HIDE DEF told
    <3>6. /\ Ascending(told) \in Seq(Int) /\ IsAscending(Ascending(told))
          /\ Range(Ascending(told)) = told
      BY <3>3, AscendingFacts, WiderSeq
    <3>7. Reports = Ascending(told)
      BY <3>3, <3>4, <3>5, <3>6, AscendingIsOne
    <3> QED BY <3>2, <3>7 DEF told
  <2> QED BY <2>1, <2>2
<1> QED BY <1>1, <1>2, IInvAlways, PTL DEF Spec


-----------------------------------------------------------------------------
(* The engine: what the phases collect, each of the layer it looks at.     *)
WorldOK == condition \in Hosts /\ insecure \in BOOLEAN

DnsOK == Lookups = {} \/ \E l \in Lookups : ~l.failed

TcpOK == \A a \in pool : tcp[a] \in Connects(a)

TlsOK ==
  \A a \in pool :
    /\ tls[a].result \in Shakes(a)
    /\ tls[a].certificate = Certificate(a, tls[a].result)

HttpOK(p) ==
  \A a \in pool : <<a, p>> \in DOMAIN http /\ http[<<a, p>>] \in Exchanges(a, p)

RepeatOK ==
  /\ DOMAIN probes = 1..2 * Len(InTurn)
  /\ \A i \in DOMAIN probes :
       /\ probes[i].at \in pool
       /\ probes[i] \in TcpRepeat(probes[i].at) \cup HttpRepeat(probes[i].at)

HttpAllOK == \A p \in Protocol : HttpOK(p)

Collected == WorldOK /\ DnsOK /\ TcpOK /\ TlsOK /\ HttpAllOK /\ RepeatOK

Verdicts == IF Rules = <<>> THEN <<Healthy>> ELSE Rules

EngineIInv ==
  /\ WorldOK
  /\ phase \in {"resolve", "tcp", "tls", "repeat", "diagnose", "done"} \cup Protocol
  /\ phase # "resolve" => DnsOK
  /\ phase \notin {"resolve", "tcp"} => TcpOK
  /\ phase \notin {"resolve", "tcp", "tls"} => TlsOK
  /\ phase \notin {"resolve", "tcp", "tls", "HTTP/1.1"} => HttpOK("HTTP/1.1")
  /\ phase \in {"HTTP/3", "repeat", "diagnose", "done"} => HttpOK("HTTP/2")
  /\ phase \in {"repeat", "diagnose", "done"} => HttpOK("HTTP/3")
  /\ phase \in {"diagnose", "done"} => RepeatOK
  /\ phase # "done" => out = <<>>
  /\ BlameIsWarranted /\ FaultsAreReported /\ NoStackedVerdicts

-----------------------------------------------------------------------------
(* A list of verdicts without repetition on some causes.                   *)
List(s, causes) ==
  /\ s \in Seq(Verdict)
  /\ IsInjective(s)
  /\ \A v \in Range(s) : v.cause \in causes

LEMMA Joined ==
  ASSUME NEW s, NEW t, NEW C, NEW D, List(s, C), List(t, D), C \cap D = {}
  PROVE  /\ List(s \o t, C \cup D)
         /\ Range(s \o t) = Range(s) \cup Range(t)
<1> DEFINE m == Len(s)
           size == Len(t)
           u == s \o t
<1>1. /\ s \in Seq(Verdict) /\ t \in Seq(Verdict) /\ u \in Seq(Verdict)
      /\ m \in Nat /\ size \in Nat /\ Len(u) = m + size
      /\ DOMAIN s = 1..m /\ DOMAIN t = 1..size /\ DOMAIN u = 1..m + size
      /\ \A i \in 1..m + size : u[i] = IF i <= m THEN s[i] ELSE t[i - m]
  BY DEF List
<1> HIDE DEF m, size, u
<1>2. Range(u) = Range(s) \cup Range(t)
  <2>1. ASSUME NEW i \in 1..m PROVE i \in 1..m + size /\ u[i] = s[i]
    BY <1>1
  <2>2. ASSUME NEW i \in 1..size PROVE i + m \in 1..m + size /\ u[i + m] = t[i]
    BY <1>1
  <2>3. ASSUME NEW i \in 1..m + size
        PROVE  \/ i \in 1..m /\ u[i] = s[i]
               \/ i - m \in 1..size /\ u[i] = t[i - m]
    BY <1>1
  <2>4. ASSUME NEW v \in Range(u) PROVE v \in Range(s) \cup Range(t)
    <3>1. PICK i \in 1..m + size : v = u[i]
      BY <1>1 DEF Range
    <3> QED BY <1>1, <2>3, <3>1 DEF Range
  <2>5. ASSUME NEW v \in Range(s) PROVE v \in Range(u)
    <3>1. PICK i \in 1..m : v = s[i]
      BY <1>1 DEF Range
    <3> QED BY <1>1, <2>1, <3>1 DEF Range
  <2>6. ASSUME NEW v \in Range(t) PROVE v \in Range(u)
    <3>1. PICK i \in 1..size : v = t[i]
      BY <1>1 DEF Range
    <3> QED BY <1>1, <2>2, <3>1 DEF Range
  <2> QED BY <2>4, <2>5, <2>6
<1>3. \A i \in 1..m, j \in 1..size : s[i] # t[j]
  <2>1. ASSUME NEW i \in 1..m, NEW j \in 1..size PROVE s[i].cause \in C /\ t[j].cause \in D
    <3>1. s[i] \in Range(s) /\ t[j] \in Range(t)
      BY <1>1 DEF Range
    <3> QED BY <3>1 DEF List
  <2> QED BY <2>1
<1>4. /\ \A i, j \in 1..m : s[i] = s[j] => i = j
      /\ \A i, j \in 1..size : t[i] = t[j] => i = j
  BY <1>1 DEF List, IsInjective
<1>5. ASSUME NEW i \in 1..m + size, NEW j \in 1..m + size, u[i] = u[j] PROVE i = j
  <2>1. CASE i <= m /\ j <= m
    <3>1. i \in 1..m /\ j \in 1..m /\ u[i] = s[i] /\ u[j] = s[j]
      BY <1>1, <2>1
    <3> QED BY <1>4, <1>5, <3>1
  <2>2. CASE i > m /\ j > m
    <3>1. i - m \in 1..size /\ j - m \in 1..size /\ u[i] = t[i - m] /\ u[j] = t[j - m]
      BY <1>1, <2>2
    <3>2. i - m = j - m
      BY <1>4, <1>5, <3>1
    <3> QED BY <1>1, <3>2
  <2>3. CASE i <= m /\ j > m
    <3>1. i \in 1..m /\ j - m \in 1..size /\ u[i] = s[i] /\ u[j] = t[j - m]
      BY <1>1, <2>3
    <3> QED BY <1>3, <1>5, <3>1
  <2>4. CASE i > m /\ j <= m
    <3>1. j \in 1..m /\ i - m \in 1..size /\ u[j] = s[j] /\ u[i] = t[i - m]
      BY <1>1, <2>4
    <3> QED BY <1>3, <1>5, <3>1
  <2> QED BY <1>1, <2>1, <2>2, <2>3, <2>4
<1>6. IsInjective(u)
  BY <1>1, <1>5 DEF IsInjective
<1>7. \A v \in Range(u) : v.cause \in C \cup D
  BY <1>2 DEF List
<1> QED BY <1>1, <1>2, <1>6, <1>7 DEF List, u

(* What a rule raises once.                                                *)
LEMMA RaiseFacts ==
  ASSUME NEW test, NEW category \in Category, NEW cause \in Cause, NEW at \in SUBSET Address
  PROVE  /\ List(Raise(test, category, cause, at), {cause})
         /\ \A v \in Range(Raise(test, category, cause, at)) :
              test /\ v = Diagnosis(category, cause, at)
         /\ test => Diagnosis(category, cause, at) \in Range(Raise(test, category, cause, at))
<1> DEFINE d == Diagnosis(category, cause, at)
           r == Raise(test, category, cause, at)
<1>1. d \in Verdict /\ d.cause = cause
  BY DEF Diagnosis, Verdict
<1>2. r = IF test THEN <<d>> ELSE <<>>
  BY DEF Raise
<1> HIDE DEF d, r
<1>3. CASE test
  <2>1. r = <<d>> /\ r \in Seq(Verdict) /\ DOMAIN r = {1} /\ r[1] = d
    BY <1>1, <1>2, <1>3
  <2>2. Range(r) = {d} /\ IsInjective(r)
    BY <2>1 DEF Range, IsInjective
  <2> QED BY <1>1, <1>3, <2>1, <2>2 DEF List, d, r
<1>4. CASE ~test
  <2>1. r = <<>> /\ r \in Seq(Verdict)
    BY <1>2, <1>4
  <2>2. Range(r) = {} /\ IsInjective(r)
    BY <2>1, EmptySequence
  <2> QED BY <1>4, <2>1, <2>2 DEF List, r
<1> QED BY <1>3, <1>4

(* What a loop over rows raises.                                           *)
LEMMA OnceFacts ==
  ASSUME NEW S \in SUBSET Int, IsFiniteSet(S), NEW verdict \in [S -> Verdict], NEW C,
         \A i \in S : verdict[i].cause \in C
  PROVE  /\ List(OncePerCause(verdict), C)
         /\ Range(OncePerCause(verdict)) = {verdict[i] : i \in S}
<1> DEFINE T == {i \in S : \A j \in S : j < i => verdict[j] # verdict[i]}
           first == [i \in T |-> verdict[i]]
           at == Ascending(T)
           r == [k \in DOMAIN at |-> first[at[k]]]
<1>1. T \in SUBSET Int /\ IsFiniteSet(T) /\ DOMAIN verdict = S
  BY FS_Subset
<1>2. OncePerCause(verdict) = r
  BY <1>1 DEF OncePerCause, Each
<1>3. /\ at \in [1..Cardinality(T) -> T] /\ Cardinality(T) \in Nat
      /\ IsInjective(at) /\ Range(at) = T
  BY <1>1, AscendingFacts, FS_CardinalityType
<1> HIDE DEF at
<1>4. r \in [1..Cardinality(T) -> Verdict] /\ DOMAIN r = DOMAIN at
      /\ \A k \in DOMAIN at : at[k] \in T /\ r[k] = verdict[at[k]]
  BY <1>3
<1> HIDE DEF r
<1>5. r \in Seq(Verdict)
  <2>1. \A k \in Nat : r \in [1..k -> Verdict] => r \in Seq(Verdict)
    OBVIOUS
  <2> QED BY <1>3, <1>4, <2>1
<1>6. \A i, j \in T : verdict[i] = verdict[j] => i = j
  <2> SUFFICES ASSUME NEW i \in T, NEW j \in T, verdict[i] = verdict[j] PROVE i = j
    OBVIOUS
  <2>1. ~(i < j) /\ ~(j < i)
    OBVIOUS
  <2> QED BY <2>1
<1>7. IsInjective(r)
  <2> SUFFICES ASSUME NEW k \in DOMAIN at, NEW l \in DOMAIN at, r[k] = r[l] PROVE k = l
    BY <1>4 DEF IsInjective
  <2> HIDE DEF T
  <2>1. at[k] \in T /\ at[l] \in T /\ verdict[at[k]] = verdict[at[l]]
    BY <1>4
  <2>2. at[k] = at[l]
    BY <1>6, <2>1
  <2> QED BY <1>3, <2>2 DEF IsInjective
<1>8. ASSUME NEW i \in S PROVE \E j \in T : verdict[j] = verdict[i]
  <2> DEFINE E == {j \in S : verdict[j] = verdict[i]}
  <2>1. E \in SUBSET Int /\ IsFiniteSet(E) /\ i \in E
    BY FS_Subset
  <2> DEFINE e == Ascending(E)
  <2>2. /\ e \in [1..Cardinality(E) -> E] /\ Cardinality(E) \in Nat
        /\ IsAscending(e) /\ Range(e) = E
    BY <2>1, AscendingFacts, FS_CardinalityType
  <2> HIDE DEF e, E
  <2>3. \A k \in 1..Cardinality(E) : 1 <= k /\ 1 \in 1..Cardinality(E)
    BY <2>2
  <2>4. \A j \in E : \E k \in 1..Cardinality(E) : j = e[k]
    BY <2>2 DEF Range
  <2>5. 1 \in 1..Cardinality(E) /\ e[1] \in E
    BY <2>1, <2>2, <2>3, <2>4
  <2>6. ASSUME NEW j \in E PROVE e[1] <= j
    <3>1. PICK k \in 1..Cardinality(E) : j = e[k]
      BY <2>4
    <3>2. k = 1 \/ 1 < k
      OBVIOUS
    <3>3. 1 < k => e[1] < e[k]
      BY <2>2, <2>5 DEF IsAscending
    <3>4. e[1] \in Int /\ j \in Int
      BY <2>1, <2>5
    <3> QED BY <3>1, <3>2, <3>3, <3>4
  <2>7. e[1] \in S /\ verdict[e[1]] = verdict[i]
    BY <2>5 DEF E
  <2>8. ASSUME NEW j \in S, j < e[1] PROVE verdict[j] # verdict[e[1]]
    <3>1. j \notin E
      <4>1. j \in Int /\ e[1] \in Int
        BY <2>7, <2>8
      <4>2. ~(e[1] <= j)
        BY <2>8, <4>1
      <4> QED BY <2>6, <4>2
    <3> QED BY <2>7, <3>1 DEF E
  <2> QED BY <2>7, <2>8
<1>9. Range(r) = {verdict[i] : i \in S}
  <2>1. ASSUME NEW v \in Range(r) PROVE v \in {verdict[i] : i \in S}
    <3>1. PICK k \in DOMAIN at : v = r[k]
      BY <1>4 DEF Range
    <3> QED BY <1>4, <3>1
  <2>2. ASSUME NEW i \in S PROVE verdict[i] \in Range(r)
    <3>1. PICK j \in T : verdict[j] = verdict[i]
      BY <1>8
    <3>2. PICK k \in DOMAIN at : at[k] = j
      BY <1>3 DEF Range
    <3>3. r[k] = verdict[i]
      BY <1>4, <3>1, <3>2
    <3> QED BY <1>4, <3>3 DEF Range
  <2> QED BY <2>1, <2>2
<1>10. \A v \in Range(r) : v.cause \in C
  BY <1>9
<1> QED BY <1>2, <1>5, <1>7, <1>9, <1>10 DEF List

-----------------------------------------------------------------------------
(* What can be told of an address from what a layer saw of it.             *)
LEMMA Conditions ==
  ASSUME WorldOK
  PROVE  /\ pool \subseteq Address /\ pool # {} /\ IsFiniteSet(pool) /\ pool \subseteq Int
         /\ \A a \in pool : condition[a] \in Condition
<1>1. /\ pool \in (SUBSET Address) \ {{}} /\ IsFiniteSet(pool)
      /\ \A a \in pool : condition[a] \in Condition
  BY HostsAssumption DEF WorldOK, pool
<1>2. Address \subseteq Int
  BY AddressAssumption
<1> QED BY <1>1, <1>2

LEMMA TcpTells ==
  ASSUME WorldOK, TcpOK, NEW a \in pool
  PROVE  /\ tcp[a] = OK => condition[a] \notin Local \cup OnPath
         /\ tcp[a] # OK => condition[a] \in Local \cup OnPath \cup {"flaky"}
         /\ tcp[a] \in LocalKinds <=> condition[a] \in Local
         /\ tcp[a] = "ConnectionReset" <=> condition[a] = "reset"
         /\ condition[a] \in OnPath => tcp[a] # OK
         /\ condition[a] \notin Local \cup OnPath \cup {"flaky"} => tcp[a] = OK
<1>1. tcp[a] \in Connects(a) /\ condition[a] \in Condition
  BY Conditions DEF TcpOK
<1> DEFINE t == tcp[a]
<1> HIDE DEF t
<1>2. CASE condition[a] = "no-route"
  <2>1. t = "NetworkUnreachable"
    BY <1>1, <1>2 DEF Connects, t
  <2> QED BY <1>2, <2>1 DEF OK, Local, OnPath, LocalKinds, t
<1>3. CASE condition[a] = "denied"
  <2>1. t = "HostUnreachable"
    BY <1>1, <1>3 DEF Connects, t
  <2> QED BY <1>3, <2>1 DEF OK, Local, OnPath, LocalKinds, t
<1>4. CASE condition[a] = "silent"
  <2>1. t = "Timeout"
    BY <1>1, <1>4 DEF Connects, t
  <2> QED BY <1>4, <2>1 DEF OK, Local, OnPath, LocalKinds, t
<1>5. CASE condition[a] = "refused"
  <2>1. t = "ConnectionRefused"
    BY <1>1, <1>5 DEF Connects, t
  <2> QED BY <1>5, <2>1 DEF OK, Local, OnPath, LocalKinds, t
<1>6. CASE condition[a] = "reset"
  <2>1. t = "ConnectionReset"
    BY <1>1, <1>6 DEF Connects, t
  <2> QED BY <1>6, <2>1 DEF OK, Local, OnPath, LocalKinds, t
<1>7. CASE condition[a] = "flaky"
  <2>1. t \in {OK, "Timeout"}
    BY <1>1, <1>7 DEF Connects, t
  <2> QED BY <1>7, <2>1 DEF OK, Local, OnPath, LocalKinds, t
<1>8. CASE condition[a] \notin Local \cup OnPath \cup {"flaky"}
  <2>1. t = OK
    BY <1>1, <1>8 DEF Connects, Local, OnPath, t
  <2> QED BY <1>8, <2>1 DEF OK, Local, OnPath, LocalKinds, t
<1> QED BY <1>2, <1>3, <1>4, <1>5, <1>6, <1>7, <1>8 DEF Local, OnPath

LEMMA TlsTells ==
  ASSUME WorldOK, TcpOK, TlsOK, NEW a \in pool
  PROVE  /\ tls[a].result # OK /\ tcp[a] = OK =>
              condition[a] \in {"no-TLS", "flaky"} \cup Refusing
         /\ condition[a] \in {"no-TLS"} \cup Refusing => tls[a].result # OK
         /\ condition[a] \in OfCertificate \ Refusing => tls[a].certificate = condition[a]
         /\ tls[a].certificate \in OfCertificate =>
              condition[a] = tls[a].certificate /\ condition[a] \notin Refusing
<1>1. /\ tls[a].result \in Shakes(a) /\ condition[a] \in Condition
      /\ tls[a].certificate = Certificate(a, tls[a].result)
  BY Conditions DEF TlsOK
<1>2. tcp[a] = OK => condition[a] \notin Local \cup OnPath
  BY TcpTells
<1>3. insecure \in BOOLEAN
  BY DEF WorldOK
<1> DEFINE r == tls[a].result
           c == tls[a].certificate
<1> HIDE DEF r, c
<1>4. CASE condition[a] \in Local \cup OnPath
  <2>1. r # OK
    BY <1>1, <1>4 DEF Shakes, Connects, OK, Local, OnPath, Invalid, r
  <2>2. c = "none"
    BY <1>1, <2>1 DEF Certificate, r, c
  <2> QED
    BY <1>2, <1>4, <2>1, <2>2
    DEF Local, OnPath, Refusing, Invalid, OfCertificate, r, c
<1>5. CASE condition[a] \in {"no-TLS"} \cup Refusing
  <2>1. r # OK
    BY <1>1, <1>3, <1>5 DEF Shakes, Refusing, OK, Invalid, r
  <2>2. c = "none"
    BY <1>1, <2>1 DEF Certificate, r, c
  <2> QED BY <1>5, <2>1, <2>2 DEF Refusing, Invalid, OfCertificate, r, c
<1>6. CASE condition[a] = "flaky"
  <2>1. c \in {"none", "valid"}
    BY <1>1, <1>6 DEF Certificate, OfCertificate, Invalid, r, c
  <2> QED BY <1>6, <2>1 DEF Refusing, Invalid, OfCertificate, r, c
<1>7. CASE condition[a] \notin Local \cup OnPath \cup {"no-TLS", "flaky"} \cup Refusing
  <2>1. r = OK
    BY <1>1, <1>3, <1>7
    DEF Shakes, Connects, OK, Local, OnPath, Invalid, Refusing, r
  <2>2. c = IF condition[a] \in OfCertificate THEN condition[a] ELSE "valid"
    BY <1>1, <2>1 DEF Certificate, r, c
  <2> QED BY <1>7, <2>1, <2>2 DEF OfCertificate, Invalid, r, c
<1> QED BY <1>4, <1>5, <1>6, <1>7

(* And from a response to a request, or from its failure.                  *)
Handshakes(a, p) == IF p = "HTTP/3" THEN ShakesQuic(a) ELSE Shakes(a)

LEMMA HandshakesTell ==
  ASSUME WorldOK, NEW p \in Protocol, NEW a \in pool, NEW k \in Handshakes(a, p)
  PROVE  LET c == condition[a]
         IN /\ k = OK =>
                 /\ c \notin {"no-TLS"} \cup Refusing
                 /\ p # "HTTP/3" => c \notin Local \cup OnPath
                 /\ p = "HTTP/3" => c # "no-QUIC"
            /\ k # OK =>
                 /\ c \in {"no-QUIC", "no-TLS", "flaky"} \cup OnPath \cup Local \cup Refusing
                 /\ p # "HTTP/3" => c # "no-QUIC"
                 /\ OwnFailure(p, k) => c \in {"flaky"} \cup OnPath \cup Local
<1>1. condition[a] \in Condition /\ insecure \in BOOLEAN
  BY Conditions DEF WorldOK
<1>2. CASE p = "HTTP/3"
  <2>1. k \in ShakesQuic(a)
    BY <1>2 DEF Handshakes
  <2>2. CASE condition[a] = "no-TLS"
    <3>1. k \in {"Quic", "Timeout"}
      BY <2>1, <2>2 DEF ShakesQuic, Local, OnPath
    <3> QED BY <1>2, <2>2, <3>1 DEF OwnFailure, OK
  <2>3. CASE condition[a] \in Refusing
    <3>1. k = "Quic"
      BY <1>1, <2>1, <2>3 DEF ShakesQuic, Refusing, Local, OnPath, Invalid
    <3> QED BY <1>2, <2>3, <3>1 DEF OwnFailure, OK
  <2>4. CASE condition[a] = "no-QUIC"
    <3>1. k \in {"Quic", "Timeout"}
      BY <2>1, <2>4 DEF ShakesQuic, Local, OnPath
    <3> QED BY <1>2, <2>4, <3>1 DEF OwnFailure, OK
  <2>5. CASE condition[a] \in {"flaky"} \cup OnPath \cup Local
    BY <1>2, <2>5 DEF Refusing, OnPath, Local, Invalid
  <2>6. CASE condition[a] \notin {"no-QUIC", "no-TLS", "flaky"} \cup OnPath \cup Local \cup Refusing
    <3>1. k = OK
      BY <1>1, <2>1, <2>6 DEF ShakesQuic, Refusing, Local, OnPath, Invalid
    <3> QED BY <1>2, <2>6, <3>1
  <2> QED BY <2>2, <2>3, <2>4, <2>5, <2>6
<1>3. CASE p # "HTTP/3"
  <2>1. k \in Shakes(a)
    BY <1>3 DEF Handshakes
  <2>2. CASE condition[a] = "no-TLS"
    <3>1. k = "TlsHandshake"
      BY <2>1, <2>2 DEF Shakes, Invalid
    <3> QED BY <1>3, <2>2, <3>1 DEF OwnFailure, OK
  <2>3. CASE condition[a] \in Refusing
    <3>1. k = "Certificate"
      BY <1>1, <2>1, <2>3 DEF Shakes, Refusing, Invalid
    <3> QED BY <1>3, <2>3, <3>1 DEF OwnFailure, OK, Refusing, Invalid
  <2>4. CASE condition[a] \in OnPath \cup Local
    <3>1. k # OK
      BY <1>1, <2>1, <2>4 DEF Shakes, Connects, OK, Invalid, OnPath, Local
    <3> QED BY <1>3, <2>4, <3>1 DEF OnPath, Local
  <2>5. CASE condition[a] = "flaky"
    BY <1>3, <2>5 DEF Refusing, OnPath, Local, Invalid
  <2>6. CASE condition[a] \notin {"no-TLS", "flaky"} \cup OnPath \cup Local \cup Refusing
    <3>1. k = OK
      BY <1>1, <2>1, <2>6 DEF Shakes, Connects, OK, Refusing, Local, OnPath, Invalid
    <3> QED BY <1>3, <2>6, <3>1
  <2> QED BY <2>2, <2>3, <2>4, <2>5, <2>6
<1> QED BY <1>2, <1>3

LEMMA AnswersTell ==
  ASSUME NEW p \in Protocol, NEW a \in pool, NEW e \in Answers(a, p)
  PROVE  /\ condition[a] = "erring" => e = Response(503)
         /\ condition[a] = "redirecting" => e = Response(302)
         /\ condition[a] = "hung" => e = Failed("Timeout")
         /\ condition[a] = "garbled" => e = Failed("Http")
         /\ condition[a] = "stalling" => e = Truncated
         /\ condition[a] = "split" => e \in {Response(200), Response(503)}
         /\ condition[a] = "split" /\ p = "HTTP/2" => e = Response(503)
         /\ condition[a] = "split" /\ p # "HTTP/2" => e = Response(200)
         /\ condition[a] = "flapping" => e \in {Response(200), Response(503)}
         /\ condition[a] = "no-HTTP/2" =>
              e = Response(200) \/ (p = "HTTP/2" /\ e = Failed("TlsHandshake"))
         /\ condition[a] \notin {"no-HTTP/2", "flapping"} \cup OfHttp => e = Response(200)
<1>1. condition[a] = "erring" => e = Response(503)
  BY DEF Answers
<1>2. condition[a] = "redirecting" => e = Response(302)
  BY DEF Answers
<1>3. condition[a] = "hung" => e = Failed("Timeout")
  BY DEF Answers
<1>4. condition[a] = "garbled" => e = Failed("Http")
  BY DEF Answers
<1>5. condition[a] = "stalling" => e = Truncated
  BY DEF Answers
<1>6. condition[a] = "split" /\ p = "HTTP/2" => e = Response(503)
  BY DEF Answers
<1>7. condition[a] = "split" /\ p # "HTTP/2" => e = Response(200)
  BY DEF Answers
<1>8. condition[a] = "flapping" => e \in {Response(200), Response(503)}
  BY DEF Answers
<1>9. condition[a] = "no-HTTP/2" /\ p = "HTTP/2" => e = Failed("TlsHandshake")
  BY DEF Answers
<1>10. condition[a] = "no-HTTP/2" /\ p # "HTTP/2" => e = Response(200)
  BY DEF Answers
<1>11. condition[a] \notin {"no-HTTP/2", "flapping"} \cup OfHttp => e = Response(200)
  BY DEF Answers, OfHttp
<1>12. condition[a] = "split" => e \in {Response(200), Response(503)}
  BY <1>6, <1>7
<1>13. condition[a] = "no-HTTP/2" =>
         e = Response(200) \/ (p = "HTTP/2" /\ e = Failed("TlsHandshake"))
  BY <1>9, <1>10
<1> QED BY <1>1, <1>2, <1>3, <1>4, <1>5, <1>6, <1>7, <1>8, <1>11, <1>12, <1>13

LEMMA ExchangesTell ==
  ASSUME NEW p \in Protocol, NEW a \in pool, NEW e \in Exchanges(a, p)
  PROVE  \/ \E s \in Handshakes(a, p) : s # OK /\ e = Failed(s)
         \/ OK \in Handshakes(a, p) /\ e \in Answers(a, p)
BY DEF Exchanges, Handshakes

LEMMA Fields ==
  /\ \A r \in {Response(200), Response(302), Response(503)} :
       r.failure = OK /\ r.body = "read"
  /\ Response(200).status = 200 /\ Response(302).status = 302 /\ Response(503).status = 503
  /\ Truncated.failure = OK /\ Truncated.status = 200 /\ Truncated.body = "truncated"
  /\ \A k \in {"Timeout", "Http", "TlsHandshake"} :
       Failed(k).failure = k /\ Failed(k).failure # OK /\ Failed(k).status = 0
BY DEF Response, Failed, Truncated, OK

LEMMA ResponseTells ==
  ASSUME WorldOK, NEW p \in Protocol, NEW a \in pool, NEW e \in Exchanges(a, p),
         e.failure = OK
  PROVE  /\ e.status \in {200, 302, 503}
         /\ e.status = 503 => condition[a] \in {"erring", "split", "flapping"}
         /\ e.status = 302 <=> condition[a] = "redirecting"
         /\ condition[a] = "erring" => e.status = 503
         /\ condition[a] = "split" /\ p # "HTTP/2" => e.status = 200
         /\ (e.body = "read") <=> condition[a] # "stalling"
         /\ (e.body = "truncated") <=> condition[a] = "stalling"
         /\ condition[a] \notin {"no-TLS", "hung", "garbled"} \cup Refusing
         /\ p # "HTTP/3" => condition[a] \notin Local \cup OnPath
         /\ p = "HTTP/3" => condition[a] # "no-QUIC"
<1>1. OK \in Handshakes(a, p) /\ e \in Answers(a, p)
  BY ExchangesTell DEF Failed
<1>2. /\ condition[a] \notin {"no-TLS"} \cup Refusing
      /\ p # "HTTP/3" => condition[a] \notin Local \cup OnPath
      /\ p = "HTTP/3" => condition[a] # "no-QUIC"
  BY <1>1, HandshakesTell
<1>3. condition[a] \notin {"hung", "garbled"}
  <2>1. condition[a] = "hung" => e = Failed("Timeout")
    BY <1>1, AnswersTell
  <2>2. condition[a] = "garbled" => e = Failed("Http")
    BY <1>1, AnswersTell
  <2>3. e # Failed("Timeout")
    BY Fields
  <2>4. e # Failed("Http")
    BY Fields
  <2> QED BY <2>1, <2>2, <2>3, <2>4
<1>4. \/ e \in {Response(200), Response(302), Response(503)} /\ condition[a] # "stalling"
      \/ e = Truncated /\ condition[a] = "stalling"
  <2>1. e # Failed("TlsHandshake")
    BY Fields DEF OK
  <2>2. Truncated \notin {Response(200), Response(302), Response(503)}
    BY Fields
  <2> QED BY <1>1, <1>3, <2>1, <2>2, AnswersTell DEF OfHttp
<1>5. e.status \in {200, 302, 503}
  BY <1>4, Fields
<1>6. (e.body = "read") <=> condition[a] # "stalling"
  BY <1>4, Fields
<1>7. (e.body = "truncated") <=> condition[a] = "stalling"
  <2>1. CASE condition[a] # "stalling"
    <3>1. e.body = "read"
      BY <1>4, <2>1, Fields
    <3>2. e.body # "truncated"
      BY <3>1
    <3> QED BY <2>1, <3>2
  <2>2. CASE condition[a] = "stalling"
    <3>1. e.body = "truncated"
      BY <1>4, <2>2, Fields
    <3> QED BY <2>2, <3>1
  <2> QED BY <2>1, <2>2
<1>8. e.status = 503 <=> e = Response(503)
  BY <1>4, Fields
<1>9. e.status = 302 <=> e = Response(302)
  BY <1>4, Fields
<1>10. /\ Response(503) # Response(200) /\ Response(503) # Response(302)
       /\ Response(302) # Response(200) /\ Response(302) # Failed("TlsHandshake")
       /\ Response(503) # Failed("TlsHandshake")
       /\ Truncated \notin {Response(302), Response(503)}
  BY Fields DEF OK
<1>11. e = Response(503) => condition[a] \in {"erring", "split", "flapping"}
  BY <1>1, <1>3, <1>10, AnswersTell DEF OfHttp
<1>12. e = Response(302) <=> condition[a] = "redirecting"
  BY <1>1, <1>3, <1>10, AnswersTell DEF OfHttp
<1>13. condition[a] = "erring" => e = Response(503)
  BY <1>1, AnswersTell
<1>14. condition[a] \notin {"no-TLS", "hung", "garbled"} \cup Refusing
  BY <1>2, <1>3
<1>15. condition[a] = "split" /\ p # "HTTP/2" => e.status = 200
  BY <1>1, AnswersTell, Fields
<1> QED BY <1>2, <1>5, <1>6, <1>7, <1>8, <1>9, <1>11, <1>12, <1>13, <1>14, <1>15

LEMMA FailureTells ==
  ASSUME WorldOK, NEW p \in Protocol, NEW a \in pool, NEW e \in Exchanges(a, p),
         e.failure # OK
  PROVE  /\ e.status = 0
         /\ condition[a] \in {"no-QUIC", "no-HTTP/2", "no-TLS", "hung", "garbled", "flaky"}
                               \cup OnPath \cup Local \cup Refusing
         /\ p # "HTTP/3" => condition[a] # "no-QUIC"
         /\ p # "HTTP/2" => condition[a] # "no-HTTP/2"
         /\ OwnFailure(p, e.failure) =>
              condition[a] \in {"hung", "garbled", "flaky"} \cup OnPath \cup Local
<1>1. CASE \E s \in Handshakes(a, p) : s # OK /\ e = Failed(s)
  <2>1. PICK s \in Handshakes(a, p) : s # OK /\ e = Failed(s)
    BY <1>1
  <2>2. e.failure = s /\ e.status = 0
    BY <2>1 DEF Failed
  <2>3. /\ condition[a] \in {"no-QUIC", "no-TLS", "flaky"} \cup OnPath \cup Local \cup Refusing
        /\ p # "HTTP/3" => condition[a] # "no-QUIC"
        /\ OwnFailure(p, s) => condition[a] \in {"flaky"} \cup OnPath \cup Local
    BY <2>1, HandshakesTell
  <2>4. condition[a] # "no-HTTP/2"
    BY <2>3 DEF OnPath, Local, Refusing, Invalid
  <2> QED BY <2>2, <2>3, <2>4
<1>2. CASE e \in Answers(a, p)
  <2>1. \/ condition[a] = "hung" /\ e = Failed("Timeout")
        \/ condition[a] = "garbled" /\ e = Failed("Http")
        \/ condition[a] = "no-HTTP/2" /\ p = "HTTP/2" /\ e = Failed("TlsHandshake")
    <3>1. /\ e # Response(200) /\ e # Response(302) /\ e # Response(503)
          /\ e # Truncated
      BY Fields
    <3> QED BY <1>2, <3>1, AnswersTell DEF OfHttp
  <2>2. e.status = 0
    BY <2>1, Fields
  <2>3. p = "HTTP/2" => ~OwnFailure(p, "TlsHandshake")
    BY DEF OwnFailure
  <2>4. condition[a] = "no-HTTP/2" => e.failure = "TlsHandshake" /\ p = "HTTP/2"
    BY <2>1, Fields
  <2> QED BY <2>1, <2>2, <2>3, <2>4
<1> QED BY <1>1, <1>2, ExchangesTell

(* What is lasting at an address shows in every exchange with it.          *)
LEMMA LastingTells ==
  ASSUME WorldOK, NEW p \in Protocol, NEW a \in pool, NEW e \in Exchanges(a, p)
  PROVE  /\ condition[a] \in {"hung", "garbled"} =>
              e.failure # OK /\ (p = "HTTP/1.1" => OwnFailure(p, e.failure))
         /\ condition[a] \in {"erring", "redirecting", "split", "stalling", "flapping"} =>
              e.failure = OK
         /\ condition[a] = "split" /\ p = "HTTP/2" => e.failure = OK /\ e.status = 503
<1>1. condition[a] \in OfHttp \cup {"flapping"} => e \in Answers(a, p)
  <2>1. ASSUME NEW s \in Handshakes(a, p), s # OK, condition[a] \in OfHttp \cup {"flapping"}
        PROVE FALSE
    <3>1. condition[a] \in {"no-QUIC", "no-TLS", "flaky"} \cup OnPath \cup Local \cup Refusing
      BY <2>1, HandshakesTell
    <3> QED BY <2>1, <3>1 DEF OfHttp, OnPath, Local, Refusing, Invalid
  <2> QED BY <2>1, ExchangesTell
<1>2. CASE condition[a] \in {"hung", "garbled"}
  <2>1. e \in {Failed("Timeout"), Failed("Http")}
    BY <1>1, <1>2, AnswersTell DEF OfHttp
  <2>2. e.failure \in {"Timeout", "Http"}
    BY <2>1, Fields
  <2> QED BY <1>2, <2>2 DEF OwnFailure, OK
<1>3. CASE condition[a] \in {"erring", "redirecting", "split", "stalling", "flapping"}
  <2>1. \/ e \in {Response(200), Response(302), Response(503)}
        \/ e = Truncated
    BY <1>1, <1>3, AnswersTell DEF OfHttp
  <2>2. e.failure = OK
    BY <2>1, Fields
  <2>3. condition[a] = "split" /\ p = "HTTP/2" => e.status = 503
    BY <1>1, <1>3, AnswersTell, Fields DEF OfHttp
  <2> QED BY <1>3, <2>2, <2>3
<1> QED BY <1>2, <1>3

(* And from a row of the repeats.                                          *)
LEMMA RowsTell ==
  ASSUME WorldOK, NEW a \in pool, NEW row \in TcpRepeat(a) \cup HttpRepeat(a)
  PROVE  /\ row.at = a
         /\ row.ok = "some" => condition[a] = "flaky"
         /\ StatusFlaps(row) => condition[a] = "flapping"
         /\ row.tail = TRUE => condition[a] \in {"slow", "flapping"}
<1> DEFINE all == Exchanges(a, "HTTP/1.1")
           good == {e \in all : e.failure = OK /\ e.body = "read"}
           seen == {e.status : e \in good}
<1>1. /\ row.at = a /\ row.tail \in Tails(a)
      /\ \/ row.ok \in Outcomes(OK \in Connects(a), Connects(a) # {OK}) /\ row.statuses = {}
         \/ row.ok \in Outcomes(good # {}, good # all) /\ row.statuses \subseteq seen
  <2>1. CASE row \in TcpRepeat(a)
    BY <2>1 DEF TcpRepeat, Rows
  <2>2. CASE row \in HttpRepeat(a)
    BY <2>2 DEF HttpRepeat, Rows
  <2> QED BY <2>1, <2>2
<1>2. row.tail = TRUE => condition[a] \in {"slow", "flapping"}
  BY <1>1 DEF Tails
<1>3. \A e \in good : e \in all /\ e.failure = OK /\ e.body = "read"
  OBVIOUS
<1>4. \A e \in all \ good : e.failure # OK \/ e.body # "read"
  OBVIOUS
<1>5. condition[a] \in Condition /\ "HTTP/1.1" \in Protocol
  BY Conditions DEF Protocol
<1> HIDE DEF good
<1>6. ASSUME good # {}, good # all PROVE condition[a] = "flaky"
  <2>1. PICK e \in good : TRUE
    BY <1>6
  <2>2. PICK f \in all : f \notin good
    BY <1>6 DEF good
  <2>3. e.failure = OK /\ e \in all /\ e.body = "read"
    BY <1>3
  <2>4. /\ condition[a] \notin {"no-TLS", "hung", "garbled"} \cup Refusing
        /\ condition[a] \notin Local \cup OnPath
        /\ condition[a] # "stalling"
    BY <1>5, <2>3, ResponseTells
  <2>5. f.failure # OK
    <3>1. f.failure # OK \/ f.body # "read"
      BY <1>4, <2>2
    <3>2. f.failure = OK => f.body = "read"
      BY <1>5, <2>4, ResponseTells
    <3> QED BY <3>1, <3>2
  <2>6. /\ condition[a] \in {"no-QUIC", "no-HTTP/2", "no-TLS", "hung", "garbled", "flaky"}
                               \cup OnPath \cup Local \cup Refusing
        /\ "HTTP/1.1" # "HTTP/3" => condition[a] # "no-QUIC"
        /\ "HTTP/1.1" # "HTTP/2" => condition[a] # "no-HTTP/2"
    BY <1>5, <2>5, FailureTells
  <2>7. condition[a] \in {"no-QUIC", "no-HTTP/2", "flaky"}
    BY <2>4, <2>6
  <2> QED BY <2>6, <2>7
<1>7. row.ok = "some" => condition[a] = "flaky"
  <2>1. "some" \in Outcomes(OK \in Connects(a), Connects(a) # {OK}) =>
          OK \in Connects(a) /\ Connects(a) # {OK}
    BY DEF Outcomes
  <2>3. "some" \in Outcomes(good # {}, good # all) => good # {} /\ good # all
    BY DEF Outcomes
  <2>2. OK \in Connects(a) /\ Connects(a) # {OK} => condition[a] = "flaky"
    BY <1>5 DEF Connects, OK
  <2> QED BY <1>1, <1>6, <2>1, <2>2, <2>3
<1>8. ASSUME NEW s \in seen, NEW t \in seen, Content(s), ~Content(t)
      PROVE  condition[a] = "flapping"
  <2>1. PICK e \in good : s = e.status
    OBVIOUS
  <2>2. PICK f \in good : t = f.status
    OBVIOUS
  <2>3. s = 200
    BY <1>3, <1>5, <1>8, <2>1, ResponseTells DEF Content
  <2>4. t \in {302, 503}
    BY <1>3, <1>5, <1>8, <2>2, ResponseTells DEF Content
  <2>5. condition[a] \notin {"redirecting", "erring"}
    BY <1>3, <1>5, <2>1, <2>3, ResponseTells
  <2>6. condition[a] # "split"
    BY <1>3, <1>5, <2>2, <2>4, ResponseTells
  <2> QED BY <1>3, <1>5, <2>2, <2>4, <2>5, <2>6, ResponseTells
<1> HIDE DEF seen
<1>9. StatusFlaps(row) => condition[a] = "flapping"
  BY <1>1, <1>8 DEF StatusFlaps
<1> QED BY <1>1, <1>2, <1>7, <1>9

-----------------------------------------------------------------------------
(* A list of verdicts on some causes, once each, that are warranted.       *)
Sound(s, causes) ==
  List(s, causes) /\ \A v \in Range(s) : v.category # "Healthy" /\ Warranted(v)

LEMMA SoundJoined ==
  ASSUME NEW s, NEW t, NEW C, NEW D, Sound(s, C), Sound(t, D), C \cap D = {}
  PROVE  Sound(s \o t, C \cup D) /\ Range(s \o t) = Range(s) \cup Range(t)
<1>1. List(s \o t, C \cup D) /\ Range(s \o t) = Range(s) \cup Range(t)
  BY Joined DEF Sound
<1> QED BY <1>1 DEF Sound

LEMMA SoundRaise ==
  ASSUME NEW test, NEW category \in Category \ {"Healthy"}, NEW cause \in Cause,
         NEW at \in SUBSET Address,
         test => Warranted(Diagnosis(category, cause, at))
  PROVE  /\ Sound(Raise(test, category, cause, at), {cause})
         /\ test => Diagnosis(category, cause, at) \in Range(Raise(test, category, cause, at))
<1>1. Diagnosis(category, cause, at).category # "Healthy"
  BY DEF Diagnosis
<1> DEFINE r == Raise(test, category, cause, at)
<1>2. /\ List(r, {cause})
      /\ \A v \in Range(r) : test /\ v = Diagnosis(category, cause, at)
      /\ test => Diagnosis(category, cause, at) \in Range(r)
  BY RaiseFacts
<1> HIDE DEF r
<1>3. \A v \in Range(r) : v.category # "Healthy" /\ Warranted(v)
  BY <1>1, <1>2
<1>4. Sound(r, {cause})
  BY <1>2, <1>3 DEF Sound
<1> QED BY <1>2, <1>4 DEF r

LEMMA SoundOnce ==
  ASSUME NEW S \in SUBSET Int, IsFiniteSet(S), NEW verdict \in [S -> Verdict], NEW C,
         \A i \in S : /\ verdict[i].cause \in C /\ verdict[i].category # "Healthy"
                      /\ Warranted(verdict[i])
  PROVE  /\ Sound(OncePerCause(verdict), C)
         /\ \A i \in S : verdict[i] \in Range(OncePerCause(verdict))
<1> DEFINE r == OncePerCause(verdict)
<1>1. List(r, C) /\ Range(r) = {verdict[i] : i \in S}
  BY OnceFacts
<1> HIDE DEF r
<1>2. \A v \in Range(r) : v.category # "Healthy" /\ Warranted(v)
  BY <1>1
<1>3. Sound(r, C)
  BY <1>1, <1>2 DEF Sound
<1> QED BY <1>1, <1>3 DEF r

LEMMA EmptyIsSound == Sound(<<>>, {}) /\ Range(<<>>) = {}
<1>1. <<>> \in Seq(Verdict) /\ DOMAIN <<>> = {}
  BY EmptySequence
<1>2. Range(<<>>) = {} /\ IsInjective(<<>>)
  BY <1>1 DEF Range, IsInjective
<1> QED BY <1>1, <1>2 DEF Sound, List

(* When a verdict that names addresses is warranted, and one that names    *)
(* none.                                                                   *)
LEMMA Naming ==
  ASSUME NEW category, NEW cause, NEW at, at # {},
         category \notin {"Dns", "PossibleNetworkFiltering", "Quic"},
         category \in {"TotalConnectivityLoss", "PartialConnectivity"} =>
           \E a \in at : condition[a] \notin Local,
         \A a \in at : Explains(condition[a], cause)
  PROVE  Warranted(Diagnosis(category, cause, at))
<1> DEFINE v == Diagnosis(category, cause, at)
<1>1. v.category = category /\ v.cause = cause /\ v.at = at
  BY DEF Diagnosis
<1> HIDE DEF v
<1>2. Suspected(v.cause, v.at) = v.at
  BY <1>1 DEF Suspected
<1>3. Warranted(v)
  BY <1>1, <1>2 DEF Warranted
<1> QED BY <1>3 DEF v

LEMMA NamingNone ==
  ASSUME NEW category, NEW cause, NEW a \in pool, Explains(condition[a], cause),
         category \in {"Certificate", "Http"}
  PROVE  Warranted(Diagnosis(category, cause, {}))
<1> DEFINE v == Diagnosis(category, cause, {})
<1>1. v.category = category /\ v.cause = cause /\ v.at = {}
  BY DEF Diagnosis
<1> HIDE DEF v
<1>2. Suspected(v.cause, pool) # {}
  BY <1>1 DEF Suspected
<1>3. Warranted(v)
  BY <1>1, <1>2 DEF Warranted
<1> QED BY <1>3 DEF v

LEMMA SoundMore ==
  ASSUME NEW s, NEW C, NEW D, Sound(s, C), C \subseteq D
  PROVE  Sound(s, D)
BY DEF Sound, List

Says(s, a, causes) == \E v \in Range(s) : v.cause \in causes /\ (v.at = {} \/ a \in v.at)

(* What each rule says, and that it is warranted.                          *)
LEMMA DnsSays ==
  ASSUME DnsOK
  PROVE  Sound(DnsRules, {"resolvers-disagree"})
<1> DEFINE r == Raise(Disagreement, "Dns", "resolvers-disagree", {})
<1>1. DnsRules = r
  BY DEF DnsRules, DnsOK
<1> DEFINE v == Diagnosis("Dns", "resolvers-disagree", {})
<1>2. v.category = "Dns" /\ v.cause = "resolvers-disagree" /\ v.at = {}
  BY DEF Diagnosis
<1> HIDE DEF v
<1>3. Disagreement => Warranted(v)
  BY <1>2 DEF Warranted
<1>4. "Dns" \in Category \ {"Healthy"} /\ "resolvers-disagree" \in Cause
  BY DEF Category, Cause
<1>5. {} \in SUBSET Address
  OBVIOUS
<1>6. Sound(r, {"resolvers-disagree"})
  BY <1>3, <1>4, <1>5, SoundRaise DEF v
<1> QED BY <1>1, <1>6

LEMMA ConnectivitySays ==
  ASSUME WorldOK, TcpOK
  PROVE  /\ Sound(ConnectivityRules, {"none-reachable", "some-unreachable"})
         /\ \A a \in pool : condition[a] \in OnPath =>
              Says(ConnectivityRules, a, {"none-reachable", "some-unreachable"})
<1>1. \A c \in Local \cup OnPath \cup {"flaky"} :
        Explains(c, "none-reachable") /\ Explains(c, "some-unreachable")
  BY DEF Explains
<1>2. /\ Unreached \subseteq pool
      /\ \A a \in Unreached : condition[a] \in Local \cup OnPath \cup {"flaky"}
      /\ \A a \in Unreached : tcp[a] \in LocalKinds <=> condition[a] \in Local
  BY TcpTells DEF Unreached, Reached
<1>3. Unreached \in SUBSET Address
  BY <1>2, Conditions
<1> DEFINE r(category, cause) == Raise(TRUE, category, cause, Unreached)
           d(category, cause) == Diagnosis(category, cause, Unreached)
<1>4. ASSUME Unreached # {}, ~AllLocal,
             NEW category \in {"TotalConnectivityLoss", "PartialConnectivity"},
             NEW cause \in {"none-reachable", "some-unreachable"}
      PROVE  /\ Sound(r(category, cause), {cause})
             /\ d(category, cause) \in Range(r(category, cause))
  <2>1. \E a \in Unreached : condition[a] \notin Local
    BY <1>2, <1>4 DEF AllLocal
  <2>2. \A a \in Unreached : Explains(condition[a], cause)
    BY <1>1, <1>2
  <2>3. category \notin {"Dns", "PossibleNetworkFiltering", "Quic"}
    OBVIOUS
  <2>4. Warranted(d(category, cause))
    BY <1>4, <2>1, <2>2, <2>3, Naming
  <2>5. category \in Category \ {"Healthy"} /\ cause \in Cause
    BY DEF Category, Cause
  <2> QED BY <1>3, <2>4, <2>5, SoundRaise
<1>5. \A cause : d("TotalConnectivityLoss", cause).cause = cause
  BY DEF Diagnosis
<1>6. CASE Unreached = {} \/ AllLocal
  <2>1. ConnectivityRules = <<>>
    BY <1>6 DEF ConnectivityRules
  <2>2. Sound(ConnectivityRules, {"none-reachable", "some-unreachable"})
    BY <2>1, EmptyIsSound, SoundMore
  <2>3. ASSUME NEW a \in pool, condition[a] \in OnPath PROVE FALSE
    <3>1. tcp[a] # OK /\ tcp[a] \notin LocalKinds
      BY <2>3, TcpTells DEF OnPath, Local
    <3> QED BY <1>6, <3>1 DEF Unreached, Reached, AllLocal
  <2> QED BY <2>2, <2>3
<1>7. CASE Unreached # {} /\ ~AllLocal
  <2>1. \/ ConnectivityRules = r("TotalConnectivityLoss", "none-reachable")
        \/ ConnectivityRules = r("PartialConnectivity", "some-unreachable")
    BY <1>7 DEF ConnectivityRules
  <2>2. PICK category \in {"TotalConnectivityLoss", "PartialConnectivity"},
             cause \in {"none-reachable", "some-unreachable"} :
               ConnectivityRules = r(category, cause)
    BY <2>1
  <2>3. /\ Sound(ConnectivityRules, {cause})
        /\ d(category, cause) \in Range(ConnectivityRules)
    BY <1>4, <1>7, <2>2
  <2>4. d(category, cause).cause = cause /\ d(category, cause).at = Unreached
    BY DEF Diagnosis
  <2> HIDE DEF d
  <2>5. Sound(ConnectivityRules, {"none-reachable", "some-unreachable"})
    BY <2>3, SoundMore
  <2>6. ASSUME NEW a \in pool, condition[a] \in OnPath
        PROVE  Says(ConnectivityRules, a, {"none-reachable", "some-unreachable"})
    <3>1. a \in Unreached
      BY <2>6, TcpTells DEF Unreached, Reached
    <3> QED BY <2>3, <2>4, <3>1 DEF Says
  <2> QED BY <2>5, <2>6
<1> QED BY <1>6, <1>7

LEMMA FamilySays ==
  ASSUME WorldOK, TcpOK
  PROVE  Sound(FamilyRules, {"one-family-fails", "no-route"})
<1> DEFINE v4 == pool \cap IPv4
           v6 == pool \ IPv4
           one == IF v4 \cap Reached # {} THEN v6 ELSE v4
<1>1. /\ \A c \in Local \cup OnPath \cup {"flaky"} : Explains(c, "one-family-fails")
      /\ \A c \in Local : Explains(c, "no-route")
  BY DEF Explains
<1>2. \A a \in pool \ Reached : condition[a] \in Local \cup OnPath \cup {"flaky"}
  BY TcpTells DEF Reached
<1>3. pool \in SUBSET Address /\ one \in SUBSET Address /\ pool # {}
  BY Conditions
<1>4. CASE v4 # {} /\ v6 # {}
  <2> DEFINE fails == (v4 \cap Reached # {}) # (v6 \cap Reached # {})
             r == Raise(fails, "AddressFamily", "one-family-fails", one)
  <2>1. FamilyRules = r
    BY <1>4 DEF FamilyRules
  <2>2. ASSUME fails PROVE Warranted(Diagnosis("AddressFamily", "one-family-fails", one))
    <3>1. one \subseteq pool \ Reached /\ one # {}
      BY <1>4, <2>2
    <3>2. \A a \in one : Explains(condition[a], "one-family-fails")
      BY <1>1, <1>2, <3>1
    <3> QED BY <3>1, <3>2, Naming
  <2>3. Sound(r, {"one-family-fails"})
    <3> HIDE DEF one, fails
    <3>1. "AddressFamily" \in Category \ {"Healthy"} /\ "one-family-fails" \in Cause
      BY DEF Category, Cause
    <3> QED BY <1>3, <2>2, <3>1, SoundRaise
  <2> QED BY <2>1, <2>3, SoundMore
<1>5. CASE ~(v4 # {} /\ v6 # {})
  <2> DEFINE fails == Reached = {} /\ AllLocal
             r == Raise(fails, "AddressFamily", "no-route", pool)
  <2>1. FamilyRules = r
    BY <1>5 DEF FamilyRules
  <2>2. ASSUME fails PROVE Warranted(Diagnosis("AddressFamily", "no-route", pool))
    <3>1. \A a \in pool : tcp[a] \in LocalKinds
      BY <2>2 DEF AllLocal, Unreached
    <3>2. \A a \in pool : Explains(condition[a], "no-route")
      BY <1>1, <3>1, TcpTells
    <3> QED BY <1>3, <3>2, Naming
  <2>3. Sound(r, {"no-route"})
    <3> HIDE DEF fails
    <3>1. "AddressFamily" \in Category \ {"Healthy"} /\ "no-route" \in Cause
      BY DEF Category, Cause
    <3> QED BY <1>3, <2>2, <3>1, SoundRaise
  <2> QED BY <2>1, <2>3, SoundMore
<1> QED BY <1>4, <1>5

LEMMA TlsSays ==
  ASSUME WorldOK, TcpOK, TlsOK
  PROVE  /\ Sound(TlsLayerRules, {"handshake-fails"})
         /\ \A a \in pool : condition[a] \in {"no-TLS"} \cup Refusing =>
              Says(TlsLayerRules, a, {"handshake-fails"})
<1> DEFINE d == Diagnosis("Tls", "handshake-fails", TlsFailing)
<1>1. \A c \in {"no-TLS", "flaky"} \cup Refusing : Explains(c, "handshake-fails")
  BY DEF Explains
<1>2. \A a \in TlsFailing : Explains(condition[a], "handshake-fails")
  BY <1>1, TlsTells DEF TlsFailing, Reached
<1>3. TlsFailing \in SUBSET Address
  BY Conditions DEF TlsFailing, Reached
<1>4. TlsFailing # {} => Warranted(d)
  BY <1>2, Naming
<1>5. /\ Sound(TlsLayerRules, {"handshake-fails"})
      /\ TlsFailing # {} => d \in Range(TlsLayerRules)
  <2>1. "Tls" \in Category \ {"Healthy"} /\ "handshake-fails" \in Cause
    BY DEF Category, Cause
  <2> QED BY <1>3, <1>4, <2>1, SoundRaise DEF TlsLayerRules
<1>6. ASSUME NEW a \in pool, condition[a] \in {"no-TLS"} \cup Refusing
      PROVE  Says(TlsLayerRules, a, {"handshake-fails"})
  <2>1. condition[a] \notin Local \cup OnPath \cup {"flaky"}
    BY <1>6 DEF Local, OnPath, Refusing, Invalid
  <2>2. a \in TlsFailing
    BY <1>6, <2>1, TcpTells, TlsTells DEF TlsFailing, Reached
  <2>3. d.cause = "handshake-fails" /\ d.at = TlsFailing
    BY DEF Diagnosis
  <2> HIDE DEF d
  <2> QED BY <1>5, <2>2, <2>3 DEF Says
<1> QED BY <1>5, <1>6

LEMMA InTurnFacts ==
  ASSUME WorldOK
  PROVE  /\ DOMAIN InTurn \in SUBSET Int /\ IsFiniteSet(DOMAIN InTurn)
         /\ Len(InTurn) \in Nat /\ DOMAIN InTurn = 1..Len(InTurn)
         /\ Len(InTurn) = Cardinality(pool)
         /\ \A i \in DOMAIN InTurn : InTurn[i] \in pool
         /\ \A a \in pool : \E i \in DOMAIN InTurn : InTurn[i] = a
<1> DEFINE size == Cardinality(pool)
<1>1. pool \in SUBSET Int /\ IsFiniteSet(pool) /\ size \in Nat
  BY Conditions, FS_CardinalityType
<1>2. InTurn \in [1..size -> pool] /\ Range(InTurn) = pool
  BY <1>1, AscendingFacts DEF InTurn
<1> HIDE DEF size
<1>3. Len(InTurn) = size /\ DOMAIN InTurn = 1..size
  BY <1>1, <1>2
<1>4. IsFiniteSet(1..size)
  BY <1>1, FS_Interval
<1>5. Len(InTurn) = Cardinality(pool)
  BY <1>3 DEF size
<1> QED BY <1>1, <1>2, <1>3, <1>4, <1>5 DEF Range

LEMMA CertificatesSay ==
  ASSUME WorldOK, TcpOK, TlsOK, NEW faults \in SUBSET OfCertificate
  PROVE  /\ Sound(CertificateRules(faults), faults)
         /\ \A a \in pool : condition[a] \in faults \ Refusing =>
              Says(CertificateRules(faults), a, {condition[a]})
<1> DEFINE of(i) == tls[InTurn[i]].certificate
           rows == {i \in DOMAIN InTurn : of(i) \in faults}
           verdict == [i \in rows |-> Diagnosis("Certificate", of(i), {})]
<1>1. rows \in SUBSET Int /\ IsFiniteSet(rows)
  BY InTurnFacts, FS_Subset
<1>2. ASSUME NEW i \in rows
      PROVE  /\ verdict[i] \in Verdict
             /\ verdict[i].cause \in faults /\ verdict[i].category # "Healthy"
             /\ verdict[i].cause = of(i) /\ verdict[i].at = {}
             /\ Warranted(verdict[i])
  <2>1. InTurn[i] \in pool /\ of(i) \in faults
    BY InTurnFacts
  <2>2. verdict[i] = Diagnosis("Certificate", of(i), {})
    OBVIOUS
  <2>3. condition[InTurn[i]] = of(i) /\ of(i) \in OfCertificate \ Refusing
    BY <2>1, TlsTells
  <2> HIDE DEF of, verdict
  <2>4. Explains(condition[InTurn[i]], of(i))
    BY <2>3 DEF Explains
  <2>5. Warranted(verdict[i])
    BY <2>1, <2>2, <2>4, NamingNone
  <2>6. verdict[i] \in Verdict
    BY <2>2, <2>3 DEF Diagnosis, Verdict, Category, Cause
  <2> QED BY <2>1, <2>2, <2>5, <2>6 DEF Diagnosis
<1>3. verdict \in [rows -> Verdict] /\ CertificateRules(faults) = OncePerCause(verdict)
  BY <1>2 DEF CertificateRules
<1> HIDE DEF verdict
<1>4. /\ Sound(CertificateRules(faults), faults)
      /\ \A i \in rows : verdict[i] \in Range(CertificateRules(faults))
  <2> HIDE DEF rows
  <2> QED BY <1>1, <1>2, <1>3, SoundOnce
<1>5. ASSUME NEW a \in pool, condition[a] \in faults \ Refusing
      PROVE  Says(CertificateRules(faults), a, {condition[a]})
  <2>1. PICK i \in DOMAIN InTurn : InTurn[i] = a
    BY InTurnFacts
  <2>2. of(i) = condition[a] /\ i \in rows
    BY <1>5, <2>1, TlsTells
  <2>3. verdict[i].cause = condition[a] /\ verdict[i].at = {}
    BY <1>2, <2>2
  <2> QED BY <1>4, <2>2, <2>3 DEF Says
<1> QED BY <1>4, <1>5

LEMMA RepeatsSay ==
  ASSUME WorldOK, RepeatOK, NEW rows \in SUBSET DOMAIN probes,
         NEW cause \in {"intermittent", "status-flaps", "latency-unstable"},
         \A i \in rows : Explains(condition[probes[i].at], cause)
  PROVE  Sound(RepeatRules(rows, cause), {cause})
<1> DEFINE verdict == [i \in rows |-> Diagnosis("Intermittent", cause, {probes[i].at})]
<1>1. rows \in SUBSET Int /\ IsFiniteSet(rows)
  <2>1. DOMAIN probes = 1..2 * Len(InTurn) /\ Len(InTurn) \in Nat
    BY InTurnFacts DEF RepeatOK
  <2>2. 2 * Len(InTurn) \in Nat /\ 1 \in Int
    BY <2>1
  <2>3. IsFiniteSet(DOMAIN probes) /\ DOMAIN probes \subseteq Int
    BY <2>1, <2>2, FS_Interval
  <2> QED BY <2>3, FS_Subset
<1>2. ASSUME NEW i \in rows
      PROVE  /\ verdict[i] \in Verdict
             /\ verdict[i].cause = cause /\ verdict[i].category # "Healthy"
             /\ Warranted(verdict[i])
  <2>1. probes[i].at \in Address
    BY Conditions DEF RepeatOK
  <2>2. verdict[i] = Diagnosis("Intermittent", cause, {probes[i].at})
    OBVIOUS
  <2>3. Explains(condition[probes[i].at], cause)
    OBVIOUS
  <2> HIDE DEF verdict
  <2>4. Warranted(verdict[i])
    BY <2>2, <2>3, Naming
  <2> DEFINE at == {probes[i].at}
  <2>5. at \in SUBSET Address
    BY <2>1
  <2> HIDE DEF at
  <2>6. Diagnosis("Intermittent", cause, at) \in Verdict
    BY <2>5 DEF Diagnosis, Verdict, Category, Cause
  <2>7. /\ Diagnosis("Intermittent", cause, at).cause = cause
        /\ Diagnosis("Intermittent", cause, at).category # "Healthy"
    BY DEF Diagnosis
  <2> QED BY <2>2, <2>4, <2>6, <2>7 DEF at
<1>3. verdict \in [rows -> Verdict] /\ RepeatRules(rows, cause) = OncePerCause(verdict)
  BY <1>2 DEF RepeatRules
<1> HIDE DEF verdict
<1>4. \A i \in rows : /\ verdict[i].cause \in {cause} /\ verdict[i].category # "Healthy"
                      /\ Warranted(verdict[i])
  BY <1>2
<1> QED BY <1>1, <1>3, <1>4, SoundOnce

LEMMA IntermittenceSays ==
  ASSUME WorldOK, RepeatOK
  PROVE  /\ Sound(IntermittentRules, {"intermittent"})
         /\ Sound(HttpStatusFlappingRules, {"status-flaps"})
         /\ Sound(LatencyInstabilityRules, {"latency-unstable"})
<1>1. ASSUME NEW i \in DOMAIN probes
      PROVE  LET c == condition[probes[i].at]
             IN /\ probes[i].ok = "some" => c = "flaky"
                /\ StatusFlaps(probes[i]) => c = "flapping"
                /\ probes[i].tail = TRUE => c \in {"slow", "flapping"}
  BY RowsTell DEF RepeatOK
<1> DEFINE some == {i \in DOMAIN probes : probes[i].ok = "some"}
           flaps == {i \in DOMAIN probes : StatusFlaps(probes[i])}
           tails == {i \in DOMAIN probes : probes[i].ok = "all" /\ probes[i].tail}
<1>2. \A i \in some : Explains(condition[probes[i].at], "intermittent")
  BY <1>1 DEF Explains
<1>3. \A i \in flaps : Explains(condition[probes[i].at], "status-flaps")
  BY <1>1 DEF Explains
<1>4. \A i \in tails : Explains(condition[probes[i].at], "latency-unstable")
  BY <1>1 DEF Explains
<1>5. /\ some \in SUBSET DOMAIN probes /\ flaps \in SUBSET DOMAIN probes
      /\ tails \in SUBSET DOMAIN probes
  OBVIOUS
<1>6. /\ IntermittentRules = RepeatRules(some, "intermittent")
      /\ HttpStatusFlappingRules = RepeatRules(flaps, "status-flaps")
      /\ LatencyInstabilityRules = RepeatRules(tails, "latency-unstable")
  BY DEF IntermittentRules, HttpStatusFlappingRules, LatencyInstabilityRules
<1> HIDE DEF some, flaps, tails
<1>7. Sound(RepeatRules(some, "intermittent"), {"intermittent"})
  BY <1>2, <1>5, RepeatsSay
<1>8. Sound(RepeatRules(flaps, "status-flaps"), {"status-flaps"})
  BY <1>3, <1>5, RepeatsSay
<1>9. Sound(RepeatRules(tails, "latency-unstable"), {"latency-unstable"})
  BY <1>4, <1>5, RepeatsSay
<1> QED BY <1>6, <1>7, <1>8, <1>9

LEMMA ErrorsSay ==
  ASSUME WorldOK, TcpOK, HttpAllOK
  PROVE  /\ Sound(HttpLayerRules, {"error"})
         /\ \A a \in pool : condition[a] \in {"erring", "hung", "garbled", "split"} =>
              Says(HttpLayerRules, a, {"error"})
<1>1. ASSUME NEW a \in pool, NEW p \in Protocol PROVE http[<<a, p>>] \in Exchanges(a, p)
  BY DEF HttpAllOK, HttpOK
<1>2. ASSUME NEW p \in Protocol PROVE ~OwnFailure(p, OK)
  BY DEF OwnFailure, OK
<1>3. ASSUME NEW a \in HttpFailing PROVE a \in pool /\ Explains(condition[a], "error")
  <2>1. PICK p \in Protocol : \/ OwnFailure(p, http[<<a, p>>].failure) /\ a \in Reached
                              \/ http[<<a, p>>].status >= 400
    BY DEF HttpFailing
  <2>2. a \in pool
    BY DEF HttpFailing
  <2> DEFINE e == http[<<a, p>>]
  <2>3. e \in Exchanges(a, p)
    BY <1>1, <2>2
  <2> HIDE DEF e
  <2>4. CASE e.failure = OK
    <3>1. e.status \in {200, 302, 503} /\ e.status >= 400
      BY <1>2, <2>1, <2>2, <2>3, <2>4, ResponseTells DEF e
    <3>2. e.status = 503
      BY <3>1
    <3>3. condition[a] \in {"erring", "split", "flapping"}
      BY <2>2, <2>3, <2>4, <3>2, ResponseTells
    <3> QED BY <2>2, <3>3 DEF Explains
  <2>5. CASE e.failure # OK
    <3>1. e.status = 0
      BY <2>2, <2>3, <2>5, FailureTells
    <3>2. ~(e.status >= 400)
      BY <3>1
    <3>3. OwnFailure(p, e.failure) /\ a \in Reached
      BY <2>1, <3>2 DEF e
    <3>4. condition[a] \in {"hung", "garbled", "flaky"} \cup OnPath \cup Local
      BY <2>2, <2>3, <2>5, <3>3, FailureTells
    <3>5. condition[a] \notin OnPath \cup Local
      BY <2>2, <3>3, TcpTells DEF Reached
    <3> QED BY <2>2, <3>4, <3>5 DEF Explains
  <2> QED BY <2>4, <2>5
<1>4. ASSUME NEW a \in pool, condition[a] \in {"erring", "hung", "garbled", "split"}
      PROVE  a \in HttpFailing
  <2>1. a \in Reached
    <3>1. condition[a] \notin Local \cup OnPath \cup {"flaky"}
      BY <1>4 DEF Local, OnPath
    <3> QED BY <3>1, TcpTells DEF Reached
  <2>2. "HTTP/1.1" \in Protocol /\ "HTTP/2" \in Protocol
    BY DEF Protocol
  <2> DEFINE e == http[<<a, "HTTP/1.1">>]
             f == http[<<a, "HTTP/2">>]
  <2>3. e \in Exchanges(a, "HTTP/1.1") /\ f \in Exchanges(a, "HTTP/2")
    BY <1>1, <2>2
  <2> HIDE DEF e, f
  <2>4. CASE condition[a] \in {"hung", "garbled"}
    <3>1. OwnFailure("HTTP/1.1", e.failure)
      BY <2>2, <2>3, <2>4, LastingTells
    <3> QED BY <2>1, <2>2, <3>1 DEF HttpFailing, e
  <2>5. CASE condition[a] = "erring"
    <3>1. e.failure = OK
      BY <2>2, <2>3, <2>5, LastingTells
    <3>2. e.status = 503
      BY <2>2, <2>3, <2>5, <3>1, ResponseTells
    <3>3. e.status >= 400
      BY <3>2
    <3> QED BY <2>2, <3>3 DEF HttpFailing, e
  <2>6. CASE condition[a] = "split"
    <3>1. f.status = 503
      BY <2>2, <2>3, <2>6, LastingTells
    <3>2. f.status >= 400
      BY <3>1
    <3> QED BY <2>2, <3>2 DEF HttpFailing, f
  <2> QED BY <1>4, <2>4, <2>5, <2>6
<1> DEFINE d == Diagnosis("Http", "error", HttpFailing)
<1>5. HttpFailing \in SUBSET Address
  BY <1>3, Conditions
<1>6. HttpFailing # {} => Warranted(d)
  BY <1>3, Naming
<1>7. "Http" \in Category \ {"Healthy"} /\ "error" \in Cause
  BY DEF Category, Cause
<1>8. /\ Sound(HttpLayerRules, {"error"})
      /\ HttpFailing # {} => d \in Range(HttpLayerRules)
  BY <1>5, <1>6, <1>7, SoundRaise DEF HttpLayerRules
<1>9. d.cause = "error" /\ d.at = HttpFailing
  BY DEF Diagnosis
<1> HIDE DEF d
<1> QED BY <1>4, <1>8, <1>9 DEF Says

(* A completed exchange.                                                   *)
LEMMA CompletedFacts ==
  ASSUME WorldOK, HttpAllOK, NEW r \in Completed
  PROVE  /\ r[1] \in pool /\ r[2] \in Protocol /\ r = <<r[1], r[2]>>
         /\ http[r] \in Exchanges(r[1], r[2]) /\ http[r].failure = OK
         /\ http[r].status \in {200, 302, 503}
         /\ ~Content(http[r].status) => http[r].status \in {302, 503}
         /\ Content(http[r].status) => http[r].status = 200
         /\ ~Content(http[r].status) =>
              condition[r[1]] \in {"erring", "redirecting", "split", "flapping"}
<1>1. r \in pool \X Protocol /\ http[r].failure = OK
  BY DEF Completed
<1>2. r[1] \in pool /\ r[2] \in Protocol /\ r = <<r[1], r[2]>>
  BY <1>1
<1>3. http[r] \in Exchanges(r[1], r[2])
  BY <1>2 DEF HttpAllOK, HttpOK
<1> DEFINE e == http[r]
           a == r[1]
           p == r[2]
<1>4. e \in Exchanges(a, p) /\ e.failure = OK /\ a \in pool /\ p \in Protocol
  BY <1>1, <1>2, <1>3
<1> HIDE DEF e, a, p
<1>5. /\ e.status \in {200, 302, 503}
      /\ e.status = 503 => condition[a] \in {"erring", "split", "flapping"}
      /\ e.status = 302 <=> condition[a] = "redirecting"
  BY <1>4, ResponseTells
<1>6. /\ ~Content(e.status) => e.status \in {302, 503}
      /\ Content(e.status) => e.status = 200
  BY <1>5 DEF Content
<1>7. ~Content(e.status) =>
        condition[a] \in {"erring", "redirecting", "split", "flapping"}
  BY <1>5, <1>6
<1> QED BY <1>1, <1>2, <1>3, <1>5, <1>6, <1>7 DEF e, a, p

LEMMA RedirectsSay ==
  ASSUME WorldOK, HttpAllOK
  PROVE  /\ Sound(RedirectRules, {"redirect"})
         /\ \A a \in pool : condition[a] = "redirecting" =>
              Says(RedirectRules, a, {"redirect"})
<1> DEFINE redirected == {a \in pool : \E p \in Protocol :
                       <<a, p>> \in Completed /\
                       http[<<a, p>>].status \in {301, 302, 303, 307, 308}}
           d == Diagnosis("Http", "redirect", redirected)
<1>1. ASSUME NEW a \in redirected PROVE Explains(condition[a], "redirect")
  <2>1. PICK p \in Protocol : /\ <<a, p>> \in Completed
                              /\ http[<<a, p>>].status \in {301, 302, 303, 307, 308}
    OBVIOUS
  <2> DEFINE r == <<a, p>>
  <2>2. r \in Completed /\ r[1] = a /\ http[r].status \in {301, 302, 303, 307, 308}
    BY <2>1
  <2> HIDE DEF r, redirected
  <2>3. http[r].status = 302
    BY <2>2, CompletedFacts
  <2>4. condition[r[1]] = "redirecting"
    BY <2>2, <2>3, CompletedFacts, ResponseTells
  <2> QED BY <2>2, <2>4 DEF Explains
<1>2. ASSUME NEW a \in pool, condition[a] = "redirecting" PROVE a \in redirected
  <2>1. "HTTP/1.1" \in Protocol
    BY DEF Protocol
  <2> DEFINE e == http[<<a, "HTTP/1.1">>]
  <2>2. e \in Exchanges(a, "HTTP/1.1")
    BY <2>1 DEF HttpAllOK, HttpOK
  <2> HIDE DEF e
  <2>3. e.failure = OK
    BY <1>2, <2>1, <2>2, LastingTells
  <2>4. e.status = 302
    BY <1>2, <2>1, <2>2, <2>3, ResponseTells
  <2>5. <<a, "HTTP/1.1">> \in Completed
    BY <2>1, <2>3 DEF Completed, e
  <2>6. e.status \in {301, 302, 303, 307, 308}
    BY <2>4
  <2> QED BY <2>1, <2>5, <2>6 DEF e
<1>3. redirected \in SUBSET Address
  BY Conditions
<1>4. RedirectRules = Raise(redirected # {}, "Http", "redirect", redirected)
  BY DEF RedirectRules
<1>5. d.cause = "redirect" /\ d.at = redirected
  BY DEF Diagnosis
<1> HIDE DEF redirected
<1>6. redirected # {} => Warranted(d)
  BY <1>1, Naming
<1>7. "Http" \in Category \ {"Healthy"} /\ "redirect" \in Cause
  BY DEF Category, Cause
<1>8. /\ Sound(RedirectRules, {"redirect"})
      /\ redirected # {} => d \in Range(RedirectRules)
  BY <1>3, <1>4, <1>6, <1>7, SoundRaise
<1> HIDE DEF d
<1> QED BY <1>2, <1>5, <1>8 DEF Says

LEMMA TruncationSays ==
  ASSUME WorldOK, HttpAllOK
  PROVE  /\ Sound(TruncatedBodyRules, {"truncated"})
         /\ \A a \in pool : condition[a] = "stalling" =>
              Says(TruncatedBodyRules, a, {"truncated"})
<1> DEFINE truncated == {a \in pool : \E p \in Protocol :
                      <<a, p>> \in Completed /\ http[<<a, p>>].body = "truncated"}
           d == Diagnosis("Http", "truncated", truncated)
<1>1. ASSUME NEW a \in truncated PROVE Explains(condition[a], "truncated")
  <2>1. PICK p \in Protocol : <<a, p>> \in Completed /\ http[<<a, p>>].body = "truncated"
    OBVIOUS
  <2> DEFINE r == <<a, p>>
  <2>2. r \in Completed /\ r[1] = a /\ http[r].body = "truncated"
    BY <2>1
  <2> HIDE DEF r, truncated
  <2>3. condition[r[1]] = "stalling"
    BY <2>2, CompletedFacts, ResponseTells
  <2> QED BY <2>2, <2>3 DEF Explains
<1>2. ASSUME NEW a \in pool, condition[a] = "stalling" PROVE a \in truncated
  <2>1. "HTTP/1.1" \in Protocol
    BY DEF Protocol
  <2> DEFINE e == http[<<a, "HTTP/1.1">>]
  <2>2. e \in Exchanges(a, "HTTP/1.1")
    BY <2>1 DEF HttpAllOK, HttpOK
  <2> HIDE DEF e
  <2>3. e.failure = OK
    BY <1>2, <2>1, <2>2, LastingTells
  <2>4. e.body = "truncated"
    BY <1>2, <2>1, <2>2, <2>3, ResponseTells
  <2>5. <<a, "HTTP/1.1">> \in Completed
    BY <2>1, <2>3 DEF Completed, e
  <2> QED BY <2>1, <2>4, <2>5 DEF e
<1>3. truncated \in SUBSET Address
  BY Conditions
<1>4. TruncatedBodyRules = Raise(truncated # {}, "Http", "truncated", truncated)
  BY DEF TruncatedBodyRules
<1>5. d.cause = "truncated" /\ d.at = truncated
  BY DEF Diagnosis
<1> HIDE DEF truncated
<1>6. truncated # {} => Warranted(d)
  BY <1>1, Naming
<1>7. "Http" \in Category \ {"Healthy"} /\ "truncated" \in Cause
  BY DEF Category, Cause
<1>8. /\ Sound(TruncatedBodyRules, {"truncated"})
      /\ truncated # {} => d \in Range(TruncatedBodyRules)
  BY <1>3, <1>4, <1>6, <1>7, SoundRaise
<1> HIDE DEF d
<1> QED BY <1>2, <1>5, <1>8 DEF Says

LEMMA ConsistencySays ==
  ASSUME WorldOK, HttpAllOK
  PROVE  Sound(HttpConsistencyRules, {"protocols-differ", "families-differ", "addresses-differ"})
<1> DEFINE of(family) == {r \in Completed : r[1] \in family}
           v4 == of(IPv4)
           v6 == of(Address \ IPv4)
           peers(r) == {q \in Completed : q[2] = r[2] /\ (q[1] \in IPv4 <=> r[1] \in IPv4)}
           protocols == \E a \in pool : Differ(of({a}))
           families == v4 # {} /\ v6 # {} /\ Served(v4) # Served(v6)
           addresses == \E r \in Completed : Differ(peers(r))
           r1 == Raise(protocols, "Http", "protocols-differ", {})
           r2 == Raise(families, "Http", "families-differ", {})
           r3 == Raise(addresses, "Http", "addresses-differ", {})
<1>1. HttpConsistencyRules = r1 \o r2 \o r3
  BY DEF HttpConsistencyRules
<1>2. ASSUME NEW q \in Completed, ~Content(http[q].status),
             NEW cause \in {"families-differ", "addresses-differ"}
      PROVE  Warranted(Diagnosis("Http", cause, {}))
  <2>1. condition[q[1]] \in {"erring", "redirecting", "split", "flapping"} /\ q[1] \in pool
    BY <1>2, CompletedFacts
  <2>2. Explains(condition[q[1]], cause)
    BY <2>1 DEF Explains
  <2> QED BY <2>1, <2>2, NamingNone
<1>3. ASSUME protocols PROVE Warranted(Diagnosis("Http", "protocols-differ", {}))
  <2>1. PICK a \in pool : Differ(of({a}))
    BY <1>3
  <2>2. PICK r \in of({a}) : Content(http[r].status)
    BY <2>1 DEF Differ, Served
  <2>3. PICK q \in of({a}) : ~Content(http[q].status)
    BY <2>1 DEF Differ
  <2>4. r \in Completed /\ q \in Completed /\ r[1] = a /\ q[1] = a
    OBVIOUS
  <2> HIDE DEF of
  <2>5. http[r].status = 200
    BY <2>2, <2>4, CompletedFacts
  <2>6. condition[a] \in {"erring", "redirecting", "split", "flapping"}
    BY <2>3, <2>4, CompletedFacts
  <2>7. http[r] \in Exchanges(a, r[2]) /\ http[r].failure = OK /\ r[2] \in Protocol
    BY <2>4, CompletedFacts
  <2>8. condition[a] \notin {"erring", "redirecting"}
    BY <2>5, <2>7, ResponseTells
  <2>9. Explains(condition[a], "protocols-differ")
    BY <2>6, <2>8 DEF Explains
  <2> QED BY <2>9, NamingNone
<1>4. ASSUME families PROVE Warranted(Diagnosis("Http", "families-differ", {}))
  <2>1. \E q \in v4 \cup v6 : ~Content(http[q].status)
    BY <1>4 DEF Served
  <2>2. PICK q \in Completed : ~Content(http[q].status)
    BY <2>1
  <2> HIDE DEF families
  <2> QED BY <1>2, <2>2
<1>5. ASSUME addresses PROVE Warranted(Diagnosis("Http", "addresses-differ", {}))
  <2>1. PICK r \in Completed : Differ(peers(r))
    BY <1>5
  <2>2. PICK q \in peers(r) : ~Content(http[q].status)
    BY <2>1 DEF Differ
  <2>3. q \in Completed
    OBVIOUS
  <2> HIDE DEF addresses, peers
  <2> QED BY <1>2, <2>2, <2>3
<1> HIDE DEF protocols, families, addresses
<1>6. /\ "Http" \in Category \ {"Healthy"} /\ "protocols-differ" \in Cause
      /\ "families-differ" \in Cause /\ "addresses-differ" \in Cause
      /\ {} \in SUBSET Address
  BY DEF Category, Cause
<1>7. Sound(r1, {"protocols-differ"})
  BY <1>3, <1>6, SoundRaise
<1>8. Sound(r2, {"families-differ"})
  BY <1>4, <1>6, SoundRaise
<1>9. Sound(r3, {"addresses-differ"})
  BY <1>5, <1>6, SoundRaise
<1> HIDE DEF r1, r2, r3
<1>10. Sound(r1 \o r2, {"protocols-differ"} \cup {"families-differ"})
  <2>1. {"protocols-differ"} \cap {"families-differ"} = {}
    OBVIOUS
  <2> QED BY <1>7, <1>8, <2>1, SoundJoined
<1>11. Sound(r1 \o r2 \o r3,
             {"protocols-differ"} \cup {"families-differ"} \cup {"addresses-differ"})
  <2>1. ({"protocols-differ"} \cup {"families-differ"}) \cap {"addresses-differ"} = {}
    OBVIOUS
  <2> QED BY <1>9, <1>10, <2>1, SoundJoined
<1> QED BY <1>1, <1>11, SoundMore

LEMMA QuicSays ==
  ASSUME WorldOK, HttpAllOK
  PROVE  Sound(QuicRules, {"QUIC-fails"})
<1> DEFINE test == /\ QuicRows \cap Completed = {}
                   /\ \E r \in Completed : http[r].status < 400
           d == Diagnosis("Quic", "QUIC-fails", {})
<1>1. ASSUME QuicRows \cap Completed = {}, NEW a \in pool
      PROVE  Explains(condition[a], "QUIC-fails")
  <2> DEFINE e == http[<<a, "HTTP/3">>]
  <2>1. "HTTP/3" \in Protocol
    BY DEF Protocol
  <2>2. e \in Exchanges(a, "HTTP/3")
    BY <2>1 DEF HttpAllOK, HttpOK
  <2>3. e.failure # OK
    BY <1>1, <2>1 DEF QuicRows, Completed
  <2> HIDE DEF e
  <2>4. /\ condition[a] \in {"no-QUIC", "no-HTTP/2", "no-TLS", "hung", "garbled", "flaky"}
                               \cup OnPath \cup Local \cup Refusing
        /\ "HTTP/3" # "HTTP/2" => condition[a] # "no-HTTP/2"
    BY <2>1, <2>2, <2>3, FailureTells
  <2>5. condition[a] \in {"no-QUIC", "no-TLS", "hung", "garbled", "flaky"}
                            \cup OnPath \cup Local \cup Refusing
    BY <2>4
  <2> QED BY <2>5 DEF Explains
<1>2. d.category = "Quic" /\ d.cause = "QUIC-fails" /\ d.at = {}
  BY DEF Diagnosis
<1> HIDE DEF d
<1>3. test => Warranted(d)
  <2>1. test => Suspected(d.cause, pool) = pool /\ pool # {}
    BY <1>1, <1>2, Conditions DEF Suspected
  <2> QED BY <1>2, <2>1 DEF Warranted
<1>4. "Quic" \in Category \ {"Healthy"} /\ "QUIC-fails" \in Cause /\ {} \in SUBSET Address
  BY DEF Category, Cause
<1>5. QuicRules = Raise(test, "Quic", "QUIC-fails", {})
  BY DEF QuicRules
<1> HIDE DEF test
<1>6. Sound(Raise(test, "Quic", "QUIC-fails", {}), {"QUIC-fails"})
  BY <1>3, <1>4, SoundRaise DEF d
<1> QED BY <1>5, <1>6

(* Sets of two or more.                                                    *)
LEMMA Several ==
  ASSUME NEW S, IsFiniteSet(S)
  PROVE  Cardinality(S) >= 2 <=> \E x, y \in S : x # y
<1>1. Cardinality(S) \in Nat
  BY FS_CardinalityType
<1>2. ASSUME NEW x \in S, NEW y \in S, x # y PROVE Cardinality(S) >= 2
  <2>1. IsFiniteSet({x, y}) /\ Cardinality({x, y}) = 2
    <3>1. IsFiniteSet({y}) /\ Cardinality({y}) = 1 /\ x \notin {y}
      BY <1>2, FS_Singleton
    <3>2. IsFiniteSet({y} \cup {x}) /\ Cardinality({y} \cup {x}) = 1 + 1
      BY <3>1, FS_AddElement
    <3>3. {y} \cup {x} = {x, y}
      OBVIOUS
    <3> QED BY <3>2, <3>3
  <2>2. Cardinality({x, y}) <= Cardinality(S)
    <3>1. {x, y} \subseteq S
      OBVIOUS
    <3> QED BY <3>1, FS_Subset
  <2> QED BY <1>1, <2>1, <2>2
<1>3. ASSUME \A x, y \in S : x = y PROVE ~(Cardinality(S) >= 2)
  <2>1. CASE S = {}
    BY <2>1, FS_EmptySet
  <2>2. CASE S # {}
    <3>1. PICK x \in S : S = {x}
      BY <1>3, <2>2
    <3>2. Cardinality({x}) = 1
      BY FS_Singleton
    <3> QED BY <3>1, <3>2
  <2> QED BY <2>1, <2>2
<1> QED BY <1>2, <1>3

Alarms == {"disagreement", "address-specific", "reset", "tls", "quic-only", "repeated"}

LEMMA SmallSets == IsFiniteSet(Signals) /\ IsFiniteSet(Troubles)
<1>1. Signals \subseteq Alarms
  BY DEF Signals, Alarms
<1>2. Troubles \subseteq Trouble
  BY DEF Troubles
<1>3. IsFiniteSet(Alarms) /\ IsFiniteSet(Trouble)
  <2>1. \A S, x : IsFiniteSet(S) => IsFiniteSet(S \cup {x})
    BY FS_AddElement
  <2>2. Alarms = {} \cup {"disagreement"} \cup {"address-specific"} \cup {"reset"}
                  \cup {"tls"} \cup {"quic-only"} \cup {"repeated"}
    BY DEF Alarms
  <2>3. Trouble = {} \cup {"disagreement"} \cup {"path"} \cup {"reset"} \cup {"handshake"}
                  \cup {"quic"} \cup {"flaky"}
    BY DEF Trouble
  <2>4. IsFiniteSet({})
    BY FS_EmptySet
  <2>5. IsFiniteSet(Alarms)
    BY <2>1, <2>2, <2>4
  <2>6. IsFiniteSet(Trouble)
    BY <2>1, <2>3, <2>4
  <2> QED BY <2>5, <2>6
<1> QED BY <1>1, <1>2, <1>3, FS_Subset

(* A signal that is up bears witness to a trouble of its own, if there is  *)
(* but one and filtering_rules tells the signals of a flaky address to be  *)
(* the same.                                                               *)
Witness(signal) ==
  IF signal = "disagreement" THEN "disagreement"
  ELSE IF signal = "address-specific"
  THEN IF "flaky" \in Troubles THEN "flaky" ELSE "path"
  ELSE IF signal = "tls" THEN "handshake" ELSE "quic"

LEMMA SignalsTell ==
  ASSUME WorldOK, TcpOK, TlsOK, RepeatOK, HttpAllOK, FlakyCountedOnce,
         \A x, y \in Troubles : x = y, NEW signal \in Signals
  PROVE  /\ signal \in {"disagreement", "address-specific", "tls", "quic-only"}
         /\ Witness(signal) \in Troubles
<1>1. \A a \in pool, t \in Trouble : Troubled(condition[a], t) => t \in Troubles
  BY DEF Troubles
<1>2. ASSUME NEW a \in pool PROVE condition[a] # "reset"
  <2>1. condition[a] = "reset" =>
          Troubled(condition[a], "path") /\ Troubled(condition[a], "reset")
    BY DEF Troubled, OnPath
  <2>2. ~("path" \in Troubles /\ "reset" \in Troubles)
    OBVIOUS
  <2> QED BY <1>1, <2>1, <2>2 DEF Trouble
<1>flaky. ASSUME NEW a \in pool, condition[a] = "flaky"
          PROVE  /\ a \in PathFailing
                 /\ tcp[a] # OK
                 /\ QuicRows \cap Completed # {}
                 /\ "flaky" \in Troubles
  <2>1. a \in Unreached /\ QuicRows \cap Completed # {}
    BY <1>flaky DEF FlakyCountedOnce
  <2>2. tcp[a] # OK
    BY <2>1 DEF Unreached, Reached
  <2>3. tcp[a] \notin LocalKinds
    BY <1>flaky, TcpTells DEF Local
  <2>4. "flaky" \in Troubles
    BY <1>1, <1>flaky DEF Troubled, Trouble
  <2> QED BY <2>1, <2>2, <2>3, <2>4 DEF PathFailing
<1>3. CASE signal = "disagreement"
  <2>1. Disagreement
    BY <1>3 DEF Signals
  <2> QED BY <1>3, <2>1 DEF Troubles, Trouble, Witness
<1>4. CASE signal = "address-specific"
  <2>1. PathFailing # {}
    BY <1>4 DEF Signals
  <2>2. PICK a \in pool : tcp[a] # OK /\ tcp[a] \notin LocalKinds
    BY <2>1 DEF PathFailing, Unreached, Reached
  <2>3. condition[a] \in OnPath \cup {"flaky"}
    BY <2>2, TcpTells
  <2>4. CASE condition[a] = "flaky"
    <3>1. "flaky" \in Troubles
      BY <1>flaky, <2>2, <2>4
    <3> QED BY <1>4, <3>1 DEF Witness
  <2>5. CASE condition[a] \in OnPath
    <3>1. "path" \in Troubles
      BY <1>1, <2>2, <2>5 DEF Troubled, Trouble
    <3> QED BY <1>4, <3>1 DEF Witness
  <2> QED BY <2>3, <2>4, <2>5
<1>5. CASE signal = "reset"
  <2>1. PICK a \in pool : tcp[a] = "ConnectionReset"
    BY <1>5 DEF Signals
  <2> QED BY <1>2, <2>1, TcpTells
<1>6. CASE signal = "tls"
  <2>1. PICK a \in TlsFailing : TRUE
    BY <1>6 DEF Signals
  <2>2. a \in pool /\ tcp[a] = OK /\ tls[a].result # OK
    BY DEF TlsFailing, Reached
  <2>3. condition[a] \in {"no-TLS"} \cup Refusing
    BY <1>flaky, <2>2, TlsTells
  <2>4. Troubled(condition[a], "handshake")
    BY <2>3 DEF Troubled
  <2> QED BY <1>1, <1>6, <2>2, <2>4 DEF Trouble, Witness
<1>7. CASE signal = "quic-only"
  <2>1. QuicRows \cap Completed = {} /\ Completed # {}
    BY <1>7 DEF Signals
  <2>2. PICK r \in Completed : TRUE
    BY <2>1
  <2> DEFINE a == r[1]
             p == r[2]
             e == http[r]
             f == http[<<a, "HTTP/3">>]
  <2>3. a \in pool /\ p \in Protocol /\ r = <<a, p>>
    BY CompletedFacts
  <2>4. e \in Exchanges(a, p) /\ e.failure = OK
    BY CompletedFacts
  <2>5. "HTTP/3" \in Protocol
    BY DEF Protocol
  <2>6. f \in Exchanges(a, "HTTP/3")
    BY <2>3, <2>5 DEF HttpAllOK, HttpOK
  <2>7. <<a, "HTTP/3">> \notin Completed
    BY <2>1, <2>3 DEF QuicRows
  <2>8. f.failure # OK
    BY <2>3, <2>5, <2>7 DEF Completed
  <2>9. p # "HTTP/3"
    BY <2>3, <2>7
  <2> HIDE DEF a, p, e, f
  <2>10. /\ condition[a] \notin {"no-TLS", "hung", "garbled"} \cup Refusing
         /\ condition[a] \notin Local \cup OnPath
    BY <2>3, <2>4, <2>9, ResponseTells
  <2>11. /\ condition[a] \in {"no-QUIC", "no-HTTP/2", "no-TLS", "hung", "garbled", "flaky"}
                               \cup OnPath \cup Local \cup Refusing
         /\ "HTTP/3" # "HTTP/2" => condition[a] # "no-HTTP/2"
    BY <2>3, <2>5, <2>6, <2>8, FailureTells
  <2>12. condition[a] = "no-QUIC"
    BY <1>flaky, <2>1, <2>3, <2>10, <2>11
  <2>13. Troubled(condition[a], "quic")
    BY <2>12 DEF Troubled
  <2> QED BY <1>1, <1>7, <2>3, <2>13 DEF Trouble, Witness
<1>8. CASE signal = "repeated"
  <2>1. PICK i \in DOMAIN probes : probes[i].ok = "some" /\ probes[i].at \notin PathFailing
    BY <1>8 DEF Signals
  <2> DEFINE row == probes[i]
             a == row.at
  <2>2. /\ a \in pool /\ row \in TcpRepeat(a) \cup HttpRepeat(a) /\ row.ok = "some"
        /\ a \notin PathFailing
    BY <2>1 DEF RepeatOK
  <2> HIDE DEF row, a
  <2>3. condition[a] = "flaky"
    BY <2>2, RowsTell
  <2> QED BY <1>flaky, <2>2, <2>3
<1>9. signal \in Alarms
  BY DEF Signals, Alarms
<1> QED BY <1>3, <1>4, <1>5, <1>6, <1>7, <1>8, <1>9 DEF Alarms

LEMMA FilteringSays ==
  ASSUME WorldOK, TcpOK, TlsOK, RepeatOK, HttpAllOK
  PROVE  Sound(FilteringRules, {"filtering"})
<1>1. ASSUME Cardinality(Signals) >= 2, FlakyCountedOnce PROVE Cardinality(Troubles) >= 2
  <2> SUFFICES ASSUME ~(\E x, y \in Troubles : x # y) PROVE FALSE
    BY SmallSets, Several
  <2>1. \A x, y \in Troubles : x = y
    OBVIOUS
  <2>2. PICK s \in Signals, t \in Signals : s # t
    BY <1>1, SmallSets, Several
  <2>3. /\ s \in {"disagreement", "address-specific", "tls", "quic-only"}
        /\ t \in {"disagreement", "address-specific", "tls", "quic-only"}
        /\ Witness(s) \in Troubles /\ Witness(t) \in Troubles
    BY <1>1, <2>1, SignalsTell
  <2>4. Witness(s) # Witness(t)
    BY <2>2, <2>3 DEF Witness
  <2> QED BY <2>1, <2>3, <2>4
<1> DEFINE test == Cardinality(Signals) >= 2
           d == Diagnosis("PossibleNetworkFiltering", "filtering", {})
<1>2. d.category = "PossibleNetworkFiltering" /\ d.at = {}
  BY DEF Diagnosis
<1> HIDE DEF d
<1>3. test => Warranted(d)
  BY <1>1, <1>2 DEF Warranted
<1>4. /\ "PossibleNetworkFiltering" \in Category \ {"Healthy"} /\ "filtering" \in Cause
      /\ {} \in SUBSET Address
  BY DEF Category, Cause
<1>5. FilteringRules = Raise(test, "PossibleNetworkFiltering", "filtering", {})
  BY DEF FilteringRules
<1> HIDE DEF test
<1>6. Sound(Raise(test, "PossibleNetworkFiltering", "filtering", {}), {"filtering"})
  BY <1>3, <1>4, SoundRaise DEF d
<1> QED BY <1>5, <1>6

(* All of them, one after the other.                                       *)
Lifetime == {"expired", "not-yet-valid", "expiring"}
Coverage == {"no-names", "wrong-name"}
Lasting == OnPath \cup {"no-TLS"} \cup OfCertificate \cup OfHttp

Told(s, a) ==
  \E v \in Range(s) : ReportedAs(v.cause, condition[a]) /\ (v.at = {} \/ a \in v.at)

LEMMA RulesSay ==
  ASSUME Collected
  PROVE  /\ \E C : Sound(Rules, C)
         /\ \A a \in pool : condition[a] \in Lasting => Told(Rules, a)
<1>1. WorldOK /\ DnsOK /\ TcpOK /\ TlsOK /\ HttpAllOK /\ RepeatOK
  BY DEF Collected
<1>2. /\ CertificateLifetimeRules = CertificateRules(Lifetime)
      /\ CertificateCoverageRules = CertificateRules(Coverage)
      /\ Lifetime \in SUBSET OfCertificate /\ Coverage \in SUBSET OfCertificate
      /\ OfCertificate = Lifetime \cup Coverage
  BY DEF CertificateLifetimeRules, CertificateCoverageRules, Lifetime, Coverage,
         OfCertificate, Invalid
<1> DEFINE s1 == DnsRules
           C1 == {"resolvers-disagree"}
           s2 == s1 \o ConnectivityRules
           C2 == C1 \cup {"none-reachable", "some-unreachable"}
           s3 == s2 \o FamilyRules
           C3 == C2 \cup {"one-family-fails", "no-route"}
           s4 == s3 \o TlsLayerRules
           C4 == C3 \cup {"handshake-fails"}
           s5 == s4 \o CertificateLifetimeRules
           C5 == C4 \cup Lifetime
           s6 == s5 \o CertificateCoverageRules
           C6 == C5 \cup Coverage
           s7 == s6 \o HttpLayerRules
           C7 == C6 \cup {"error"}
           s8 == s7 \o RedirectRules
           C8 == C7 \cup {"redirect"}
           s9 == s8 \o HttpConsistencyRules
           C9 == C8 \cup {"protocols-differ", "families-differ", "addresses-differ"}
           s10 == s9 \o TruncatedBodyRules
           C10 == C9 \cup {"truncated"}
           s11 == s10 \o QuicRules
           C11 == C10 \cup {"QUIC-fails"}
           s12 == s11 \o IntermittentRules
           C12 == C11 \cup {"intermittent"}
           s13 == s12 \o HttpStatusFlappingRules
           C13 == C12 \cup {"status-flaps"}
           s14 == s13 \o LatencyInstabilityRules
           C14 == C13 \cup {"latency-unstable"}
           s15 == s14 \o FilteringRules
           C15 == C14 \cup {"filtering"}
<1>3. Sound(s1, C1)
  BY <1>1, DnsSays
<1>4. Rules = s15
  BY DEF Rules
<1>5. Sound(s2, C2) /\ Range(s2) = Range(s1) \cup Range(ConnectivityRules)
  <2>1. Sound(ConnectivityRules, {"none-reachable", "some-unreachable"})
    BY <1>1, ConnectivitySays
  <2>2. C1 \cap {"none-reachable", "some-unreachable"} = {}
    BY DEF Lifetime, Coverage
  <2> HIDE DEF s1, C1
  <2> QED BY <1>3, <2>1, <2>2, SoundJoined
<1>6. Sound(s3, C3) /\ Range(s3) = Range(s2) \cup Range(FamilyRules)
  <2>1. Sound(FamilyRules, {"one-family-fails", "no-route"})
    BY <1>1, FamilySays
  <2>2. C2 \cap {"one-family-fails", "no-route"} = {}
    BY DEF Lifetime, Coverage
  <2> HIDE DEF s2, C2
  <2> QED BY <1>5, <2>1, <2>2, SoundJoined
<1>7. Sound(s4, C4) /\ Range(s4) = Range(s3) \cup Range(TlsLayerRules)
  <2>1. Sound(TlsLayerRules, {"handshake-fails"})
    BY <1>1, TlsSays
  <2>2. C3 \cap {"handshake-fails"} = {}
    BY DEF Lifetime, Coverage
  <2> HIDE DEF s3, C3
  <2> QED BY <1>6, <2>1, <2>2, SoundJoined
<1>8. Sound(s5, C5) /\ Range(s5) = Range(s4) \cup Range(CertificateLifetimeRules)
  <2>1. Sound(CertificateLifetimeRules, Lifetime)
    BY <1>1, <1>2, CertificatesSay
  <2>2. C4 \cap Lifetime = {}
    BY DEF Lifetime, Coverage
  <2> HIDE DEF s4, C4
  <2> QED BY <1>7, <2>1, <2>2, SoundJoined
<1>9. Sound(s6, C6) /\ Range(s6) = Range(s5) \cup Range(CertificateCoverageRules)
  <2>1. Sound(CertificateCoverageRules, Coverage)
    BY <1>1, <1>2, CertificatesSay
  <2>2. C5 \cap Coverage = {}
    BY DEF Lifetime, Coverage
  <2> HIDE DEF s5, C5
  <2> QED BY <1>8, <2>1, <2>2, SoundJoined
<1>10. Sound(s7, C7) /\ Range(s7) = Range(s6) \cup Range(HttpLayerRules)
  <2>1. Sound(HttpLayerRules, {"error"})
    BY <1>1, ErrorsSay
  <2>2. C6 \cap {"error"} = {}
    BY DEF Lifetime, Coverage
  <2> HIDE DEF s6, C6
  <2> QED BY <1>9, <2>1, <2>2, SoundJoined
<1>11. Sound(s8, C8) /\ Range(s8) = Range(s7) \cup Range(RedirectRules)
  <2>1. Sound(RedirectRules, {"redirect"})
    BY <1>1, RedirectsSay
  <2>2. C7 \cap {"redirect"} = {}
    BY DEF Lifetime, Coverage
  <2> HIDE DEF s7, C7
  <2> QED BY <1>10, <2>1, <2>2, SoundJoined
<1>12. Sound(s9, C9) /\ Range(s9) = Range(s8) \cup Range(HttpConsistencyRules)
  <2>1. Sound(HttpConsistencyRules, {"protocols-differ", "families-differ", "addresses-differ"})
    BY <1>1, ConsistencySays
  <2>2. C8 \cap {"protocols-differ", "families-differ", "addresses-differ"} = {}
    BY DEF Lifetime, Coverage
  <2> HIDE DEF s8, C8
  <2> QED BY <1>11, <2>1, <2>2, SoundJoined
<1>13. Sound(s10, C10) /\ Range(s10) = Range(s9) \cup Range(TruncatedBodyRules)
  <2>1. Sound(TruncatedBodyRules, {"truncated"})
    BY <1>1, TruncationSays
  <2>2. C9 \cap {"truncated"} = {}
    BY DEF Lifetime, Coverage
  <2> HIDE DEF s9, C9
  <2> QED BY <1>12, <2>1, <2>2, SoundJoined
<1>14. Sound(s11, C11) /\ Range(s11) = Range(s10) \cup Range(QuicRules)
  <2>1. Sound(QuicRules, {"QUIC-fails"})
    BY <1>1, QuicSays
  <2>2. C10 \cap {"QUIC-fails"} = {}
    BY DEF Lifetime, Coverage
  <2> HIDE DEF s10, C10
  <2> QED BY <1>13, <2>1, <2>2, SoundJoined
<1>15. Sound(s12, C12) /\ Range(s12) = Range(s11) \cup Range(IntermittentRules)
  <2>1. Sound(IntermittentRules, {"intermittent"})
    BY <1>1, IntermittenceSays
  <2>2. C11 \cap {"intermittent"} = {}
    BY DEF Lifetime, Coverage
  <2> HIDE DEF s11, C11
  <2> QED BY <1>14, <2>1, <2>2, SoundJoined
<1>16. Sound(s13, C13) /\ Range(s13) = Range(s12) \cup Range(HttpStatusFlappingRules)
  <2>1. Sound(HttpStatusFlappingRules, {"status-flaps"})
    BY <1>1, IntermittenceSays
  <2>2. C12 \cap {"status-flaps"} = {}
    BY DEF Lifetime, Coverage
  <2> HIDE DEF s12, C12
  <2> QED BY <1>15, <2>1, <2>2, SoundJoined
<1>17. Sound(s14, C14) /\ Range(s14) = Range(s13) \cup Range(LatencyInstabilityRules)
  <2>1. Sound(LatencyInstabilityRules, {"latency-unstable"})
    BY <1>1, IntermittenceSays
  <2>2. C13 \cap {"latency-unstable"} = {}
    BY DEF Lifetime, Coverage
  <2> HIDE DEF s13, C13
  <2> QED BY <1>16, <2>1, <2>2, SoundJoined
<1>18. Sound(s15, C15) /\ Range(s15) = Range(s14) \cup Range(FilteringRules)
  <2>1. Sound(FilteringRules, {"filtering"})
    BY <1>1, FilteringSays
  <2>2. C14 \cap {"filtering"} = {}
    BY DEF Lifetime, Coverage
  <2> HIDE DEF s14, C14
  <2> QED BY <1>17, <2>1, <2>2, SoundJoined
<1> HIDE DEF s1, C1, s2, C2, s3, C3, s4, C4, s5, C5, s6, C6, s7, C7, s8, C8, s9, C9, s10, C10, s11, C11, s12, C12, s13, C13, s14, C14, s15, C15
<1>19. /\ Range(ConnectivityRules) \subseteq Range(Rules)
       /\ Range(TlsLayerRules) \subseteq Range(Rules)
       /\ Range(CertificateLifetimeRules) \subseteq Range(Rules)
       /\ Range(CertificateCoverageRules) \subseteq Range(Rules)
       /\ Range(HttpLayerRules) \subseteq Range(Rules)
       /\ Range(RedirectRules) \subseteq Range(Rules)
       /\ Range(TruncatedBodyRules) \subseteq Range(Rules)
  BY <1>4, <1>5, <1>6, <1>7, <1>8, <1>9, <1>10, <1>11, <1>12, <1>13, <1>14, <1>15, <1>16, <1>17, <1>18
<1>20. ASSUME NEW a \in pool, NEW s, Range(s) \subseteq Range(Rules), NEW causes,
              Says(s, a, causes), \A cause \in causes : ReportedAs(cause, condition[a])
       PROVE  Told(Rules, a)
  BY <1>20 DEF Says, Told
<1>21. ASSUME NEW a \in pool, condition[a] \in Lasting PROVE Told(Rules, a)
  <2>1. CASE condition[a] \in OnPath
    <3>1. \A cause \in {"none-reachable", "some-unreachable"} : ReportedAs(cause, condition[a])
      BY <2>1 DEF ReportedAs
    <3>2. Says(ConnectivityRules, a, {"none-reachable", "some-unreachable"})
      BY <1>1, <2>1, ConnectivitySays
    <3> QED BY <1>19, <1>20, <3>1, <3>2
  <2>2. CASE condition[a] \in {"no-TLS"} \cup Refusing
    <3>1. \A cause \in {"handshake-fails"} : ReportedAs(cause, condition[a])
      BY <2>2 DEF ReportedAs
    <3>2. Says(TlsLayerRules, a, {"handshake-fails"})
      BY <1>1, <2>2, TlsSays
    <3> QED BY <1>19, <1>20, <3>1, <3>2
  <2>3. CASE condition[a] \in OfCertificate \ Refusing
    <3>1. \A cause \in {condition[a]} : ReportedAs(cause, condition[a])
      BY <2>3 DEF ReportedAs
    <3>2. CASE condition[a] \in Lifetime
      <4>1. Says(CertificateLifetimeRules, a, {condition[a]})
        BY <1>1, <1>2, <2>3, <3>2, CertificatesSay
      <4> QED BY <1>19, <1>20, <3>1, <4>1
    <3>3. CASE condition[a] \in Coverage
      <4>1. Says(CertificateCoverageRules, a, {condition[a]})
        BY <1>1, <1>2, <2>3, <3>3, CertificatesSay
      <4> QED BY <1>19, <1>20, <3>1, <4>1
    <3> QED BY <1>2, <2>3, <3>2, <3>3
  <2>4. CASE condition[a] \in {"erring", "hung", "garbled", "split"}
    <3>1. \A cause \in {"error"} : ReportedAs(cause, condition[a])
      BY <2>4 DEF ReportedAs
    <3>2. Says(HttpLayerRules, a, {"error"})
      BY <1>1, <2>4, ErrorsSay
    <3> QED BY <1>19, <1>20, <3>1, <3>2
  <2>5. CASE condition[a] = "redirecting"
    <3>1. \A cause \in {"redirect"} : ReportedAs(cause, condition[a])
      BY <2>5 DEF ReportedAs
    <3>2. Says(RedirectRules, a, {"redirect"})
      BY <1>1, <2>5, RedirectsSay
    <3> QED BY <1>19, <1>20, <3>1, <3>2
  <2>6. CASE condition[a] = "stalling"
    <3>1. \A cause \in {"truncated"} : ReportedAs(cause, condition[a])
      BY <2>6 DEF ReportedAs
    <3>2. Says(TruncatedBodyRules, a, {"truncated"})
      BY <1>1, <2>6, TruncationSays
    <3> QED BY <1>19, <1>20, <3>1, <3>2
  <2> QED BY <1>21, <2>1, <2>2, <2>3, <2>4, <2>5, <2>6 DEF Lasting, OfHttp
<1>22. \E C : Sound(Rules, C)
  BY <1>4, <1>18
<1> QED BY <1>21, <1>22

(* And what is then said of the host as a whole.                           *)
LEMMA VerdictsSay ==
  ASSUME Collected
  PROVE  /\ Verdicts # <<>> /\ Verdicts \in Seq(Verdict) /\ IsInjective(Verdicts)
         /\ \A v \in Range(Verdicts) :
              IF v.category = "Healthy" THEN Range(Verdicts) = {v} ELSE Warranted(v)
         /\ \A a \in pool : condition[a] \in Lasting => Told(Verdicts, a)
<1>1. PICK C : Sound(Rules, C)
  BY RulesSay
<1>2. CASE Rules = <<>>
  <2> DEFINE h == Healthy
  <2>1. h \in Verdict /\ h.category = "Healthy"
    BY DEF Healthy, Verdict, Category, Cause
  <2>2. Verdicts = <<h>>
    BY <1>2 DEF Verdicts
  <2> HIDE DEF h
  <2>3. <<h>> \in Seq(Verdict) /\ DOMAIN <<h>> = {1} /\ <<h>>[1] = h /\ <<h>> # <<>>
    BY <2>1
  <2>4. IsInjective(<<h>>) /\ Range(<<h>>) = {h}
    BY <2>3 DEF IsInjective, Range
  <2>5. ASSUME NEW a \in pool, condition[a] \in Lasting PROVE FALSE
    <3>1. Told(Rules, a)
      BY <2>5, RulesSay
    <3>2. Range(Rules) = {}
      BY <1>2, EmptyIsSound
    <3> QED BY <3>1, <3>2 DEF Told
  <2> QED BY <2>1, <2>2, <2>3, <2>4, <2>5
<1>3. CASE Rules # <<>>
  <2>1. Verdicts = Rules
    BY <1>3 DEF Verdicts
  <2>2. /\ Rules \in Seq(Verdict) /\ IsInjective(Rules)
        /\ \A v \in Range(Rules) : v.category # "Healthy" /\ Warranted(v)
    BY <1>1 DEF Sound, List
  <2> QED BY <1>3, <2>1, <2>2, RulesSay
<1> QED BY <1>2, <1>3

-----------------------------------------------------------------------------
(* What a step leaves alone.                                               *)
LEMMA SameWorld ==
  ASSUME UNCHANGED world
  PROVE  /\ pool' = pool /\ InTurn' = InTurn /\ (WorldOK' <=> WorldOK)
         /\ Refusing' = Refusing /\ condition' = condition /\ insecure' = insecure
BY DEF world, pool, InTurn, WorldOK, Refusing

LEMMA SameTcp ==
  ASSUME UNCHANGED world, UNCHANGED tcp
  PROVE  TcpOK' <=> TcpOK
BY DEF world, TcpOK, pool, Connects

LEMMA SameTls ==
  ASSUME UNCHANGED world, UNCHANGED tls
  PROVE  TlsOK' <=> TlsOK
BY DEF world, TlsOK, pool, Shakes, Connects, Certificate

LEMMA SameExchanges ==
  ASSUME UNCHANGED world
  PROVE  \A a, p : Exchanges(a, p)' = Exchanges(a, p)
BY DEF world, Exchanges, Shakes, ShakesQuic, Connects, Answers

LEMMA SameHttp ==
  ASSUME UNCHANGED world, UNCHANGED http, NEW p \in Protocol
  PROVE  HttpOK(p)' <=> HttpOK(p)
BY SameExchanges DEF world, HttpOK, pool

(* Before the verdicts there is nothing to blame.                          *)
Quiet == phase # "done" /\ out = <<>>

LEMMA QuietIsFine ==
  Quiet => BlameIsWarranted /\ FaultsAreReported /\ NoStackedVerdicts
BY DEF Quiet, BlameIsWarranted, FaultsAreReported, NoStackedVerdicts, Raised

LEMMA QuietStep ==
  ASSUME Quiet'
  PROVE  BlameIsWarranted' /\ FaultsAreReported' /\ NoStackedVerdicts'
BY QuietIsFine, PTL

LEMMA InitHolds == EngineInit => EngineIInv
<1> SUFFICES ASSUME EngineInit PROVE EngineIInv
  OBVIOUS
<1>1. WorldOK /\ phase = "resolve" /\ out = <<>>
  BY DEF EngineInit, WorldOK
<1>2. Quiet
  BY <1>1 DEF Quiet
<1> QED BY <1>1, <1>2, QuietIsFine DEF EngineIInv

LEMMA OneEach ==
  ASSUME NEW of, NEW f \in OnePerAddress(of)
  PROVE  DOMAIN f = pool /\ \A a \in pool : f[a] \in of[a]
BY DEF OnePerAddress

LEMMA ResolveHolds == EngineIInv /\ ResolveHost => EngineIInv'
<1> SUFFICES ASSUME EngineIInv, ResolveHost PROVE EngineIInv'
  OBVIOUS
<1>1. WorldOK' /\ phase' = "tcp" /\ out' = <<>>
  BY SameWorld DEF EngineIInv, ResolveHost
<1>2. Quiet'
  BY <1>1 DEF Quiet
<1> DEFINE Reversed(reverse) == IF reverse THEN {LookupRow("system", "PTR", TRUE, {})} ELSE {}
<1>3. PICK answer \in Resolutions, reverse \in BOOLEAN :
        dns' = LookupsOf("A", answer, IPv4) \cup LookupsOf("AAAA", answer, Address \ IPv4)
                 \cup Reversed(reverse)
  BY DEF ResolveHost
<1>4. DOMAIN answer = {} \/ \E r \in DOMAIN answer : answer[r] = "every-address"
  BY ResolutionsAssumption
<1>5. DnsOK'
  <2>1. CASE DOMAIN answer = {}
    <3>1. \A l \in dns' : l = LookupRow("system", "PTR", TRUE, {})
      <4>1. LookupsOf("A", answer, IPv4) = {}
        BY <2>1 DEF LookupsOf
      <4>2. LookupsOf("AAAA", answer, Address \ IPv4) = {}
        BY <2>1 DEF LookupsOf
      <4>3. dns' = Reversed(reverse)
        BY <1>3, <4>1, <4>2
      <4> QED BY <4>3
    <3>2. \A l \in dns' : l.type = "PTR"
      BY <3>1 DEF LookupRow
    <3>3. Lookups' = {}
      BY <3>2 DEF Lookups
    <3> QED BY <3>3 DEF DnsOK
  <2>2. CASE \E r \in DOMAIN answer : answer[r] = "every-address"
    <3>1. PICK r \in DOMAIN answer : answer[r] = "every-address"
      BY <2>2
    <3> DEFINE failed == answer[r] = "failure"
               records == Records(answer[r]) \cap IPv4
               l == LookupRow(r, "A", failed, records)
    <3>2. l \in dns'
      <4>1. l \in LookupsOf("A", answer, IPv4)
        BY DEF LookupsOf
      <4> HIDE DEF l
      <4> QED BY <1>3, <4>1
    <3>3. ~failed
      BY <3>1
    <3> HIDE DEF failed, records
    <3>4. l.type = "A" /\ ~l.failed
      BY <3>3 DEF LookupRow
    <3> HIDE DEF l
    <3>5. l \in Lookups'
      BY <3>2, <3>4 DEF Lookups
    <3> QED BY <3>4, <3>5 DEF DnsOK
  <2> QED BY <1>4, <2>1, <2>2
<1>6. BlameIsWarranted' /\ FaultsAreReported' /\ NoStackedVerdicts'
  BY <1>2, QuietStep
<1> QED BY <1>1, <1>5, <1>6 DEF EngineIInv

LEMMA TcpHolds == EngineIInv /\ ProbeTcp => EngineIInv'
<1> SUFFICES ASSUME EngineIInv, ProbeTcp PROVE EngineIInv'
  OBVIOUS
<1>1. WorldOK' /\ phase' = "tls" /\ out' = <<>> /\ DnsOK' /\ pool' = pool
  BY SameWorld DEF EngineIInv, ProbeTcp, DnsOK, Lookups
<1>2. Quiet'
  BY <1>1 DEF Quiet
<1>3. \A a \in pool : tcp'[a] \in Connects(a)
  <2> DEFINE of == [a \in pool |-> Connects(a)]
  <2>1. tcp' \in OnePerAddress(of)
    BY DEF ProbeTcp
  <2>2. \A a \in pool : of[a] = Connects(a)
    OBVIOUS
  <2> HIDE DEF of
  <2> QED BY <2>1, <2>2, OneEach
<1>4. \A a : Connects(a)' = Connects(a)
  BY DEF Connects, ProbeTcp, world
<1>5. TcpOK'
  BY <1>1, <1>3, <1>4 DEF TcpOK
<1>6. BlameIsWarranted' /\ FaultsAreReported' /\ NoStackedVerdicts'
  BY <1>2, QuietStep
<1> QED BY <1>1, <1>5, <1>6 DEF EngineIInv

LEMMA TlsHolds == EngineIInv /\ ProbeTls => EngineIInv'
<1> SUFFICES ASSUME EngineIInv, ProbeTls PROVE EngineIInv'
  OBVIOUS
<1>1. /\ WorldOK' /\ phase' = "HTTP/1.1" /\ out' = <<>> /\ DnsOK' /\ TcpOK' /\ pool' = pool
      /\ UNCHANGED world
  BY SameWorld, SameTcp DEF EngineIInv, ProbeTls, DnsOK, Lookups
<1>2. Quiet'
  BY <1>1 DEF Quiet
<1>3. PICK shook \in OnePerAddress([a \in pool |-> Shakes(a)]) :
        tls' = [a \in pool |-> [result |-> shook[a],
                                certificate |-> Certificate(a, shook[a])]]
  BY DEF ProbeTls
<1>4. \A a \in pool : shook[a] \in Shakes(a)
  <2> DEFINE of == [a \in pool |-> Shakes(a)]
  <2>1. \A a \in pool : of[a] = Shakes(a)
    OBVIOUS
  <2>2. shook \in OnePerAddress(of)
    OBVIOUS
  <2> HIDE DEF of
  <2> QED BY <2>1, <2>2, OneEach
<1>5. \A a \in pool : /\ tls'[a].result \in Shakes(a)
                      /\ tls'[a].certificate = Certificate(a, tls'[a].result)
  BY <1>3, <1>4
<1>6. \A a : Shakes(a)' = Shakes(a)
  BY <1>1 DEF Shakes, Connects, world
<1>7. \A a, r : Certificate(a, r)' = Certificate(a, r)
  BY <1>1 DEF Certificate, world
<1>8. TlsOK'
  BY <1>1, <1>5, <1>6, <1>7 DEF TlsOK
<1>9. BlameIsWarranted' /\ FaultsAreReported' /\ NoStackedVerdicts'
  BY <1>2, QuietStep
<1> QED BY <1>1, <1>8, <1>9 DEF EngineIInv, Protocol

LEMMA HttpRows ==
  ASSUME NEW p \in Protocol, ProbeHttp(p)
  PROVE  /\ HttpOK(p)'
         /\ \A q \in Protocol : HttpOK(q) => HttpOK(q)'
<1>1. PICK answer \in OnePerAddress([a \in pool |-> Exchanges(a, p)]) :
        http' = [r \in DOMAIN http \cup (pool \X {p}) |->
                   IF r[2] = p THEN answer[r[1]] ELSE http[r]]
  BY DEF ProbeHttp
<1>2. \A a \in pool : answer[a] \in Exchanges(a, p)
  <2> DEFINE of == [a \in pool |-> Exchanges(a, p)]
  <2>1. \A a \in pool : of[a] = Exchanges(a, p)
    OBVIOUS
  <2>2. answer \in OnePerAddress(of)
    OBVIOUS
  <2> HIDE DEF of
  <2> QED BY <2>1, <2>2, OneEach
<1>3. UNCHANGED world
  BY DEF ProbeHttp
<1>4. pool' = pool /\ \A a, q : Exchanges(a, q)' = Exchanges(a, q)
  BY <1>3, SameWorld, SameExchanges
<1>5. ASSUME NEW a \in pool
      PROVE  <<a, p>> \in DOMAIN http' /\ http'[<<a, p>>] = answer[a]
  <2>1. <<a, p>> \in pool \X {p} /\ <<a, p>>[1] = a /\ <<a, p>>[2] = p
    OBVIOUS
  <2> QED BY <1>1, <2>1
<1>6. ASSUME NEW a \in pool, NEW q \in Protocol, q # p, <<a, q>> \in DOMAIN http
      PROVE  <<a, q>> \in DOMAIN http' /\ http'[<<a, q>>] = http[<<a, q>>]
  <2>1. <<a, q>>[2] = q
    OBVIOUS
  <2> QED BY <1>1, <1>6, <2>1
<1>7. HttpOK(p)'
  BY <1>2, <1>4, <1>5 DEF HttpOK
<1>8. ASSUME NEW q \in Protocol, q # p, HttpOK(q) PROVE HttpOK(q)'
  <2>1. ASSUME NEW a \in pool
        PROVE  <<a, q>> \in DOMAIN http' /\ http'[<<a, q>>] \in Exchanges(a, q)
    BY <1>6, <1>8 DEF HttpOK
  <2> QED BY <1>4, <2>1 DEF HttpOK
<1> QED BY <1>7, <1>8

LEMMA HttpHolds ==
  ASSUME EngineIInv, NEW p \in Protocol, ProbeHttp(p)
  PROVE  EngineIInv'
<1>1. /\ WorldOK' /\ out' = <<>> /\ DnsOK' /\ TcpOK' /\ TlsOK'
      /\ phase = p /\ phase' = After(p)
  BY SameWorld, SameTcp, SameTls DEF EngineIInv, ProbeHttp, DnsOK, Lookups, Protocol
<1>2. Protocol = {"HTTP/1.1", "HTTP/2", "HTTP/3"}
  BY DEF Protocol
<1>3. \/ p = "HTTP/1.1" /\ phase' = "HTTP/2"
      \/ p = "HTTP/2" /\ phase' = "HTTP/3"
      \/ p = "HTTP/3" /\ phase' = "repeat"
  BY <1>1, <1>2 DEF After
<1>4. Quiet'
  BY <1>1, <1>3 DEF Quiet
<1>5. HttpOK(p)' /\ \A q \in Protocol : HttpOK(q) => HttpOK(q)'
  BY HttpRows
<1>6. /\ p \in {"HTTP/2", "HTTP/3"} => HttpOK("HTTP/1.1")
      /\ p = "HTTP/3" => HttpOK("HTTP/2")
  BY <1>1 DEF EngineIInv
<1>7. /\ HttpOK("HTTP/1.1")'
      /\ p \in {"HTTP/2", "HTTP/3"} => HttpOK("HTTP/2")'
      /\ p = "HTTP/3" => HttpOK("HTTP/3")'
  BY <1>2, <1>5, <1>6
<1>8. BlameIsWarranted' /\ FaultsAreReported' /\ NoStackedVerdicts'
  BY <1>4, QuietStep
<1> QED BY <1>1, <1>3, <1>7, <1>8 DEF EngineIInv, Protocol

LEMMA SameRepeats ==
  ASSUME UNCHANGED world
  PROVE  \A a : TcpRepeat(a)' = TcpRepeat(a) /\ HttpRepeat(a)' = HttpRepeat(a)
<1>1. \A a : Tails(a)' = Tails(a) /\ Connects(a)' = Connects(a)
  BY DEF world, Tails, Connects
<1>2. \A a, p : Exchanges(a, p)' = Exchanges(a, p)
  BY SameExchanges
<1> QED BY <1>1, <1>2 DEF TcpRepeat, HttpRepeat, Rows

LEMMA RepeatHolds == EngineIInv /\ Repeat => EngineIInv'
<1> SUFFICES ASSUME EngineIInv, Repeat PROVE EngineIInv'
  OBVIOUS
<1>1. UNCHANGED world /\ phase' = "diagnose" /\ phase = "repeat"
  BY DEF Repeat
<1>2. /\ WorldOK' /\ out' = <<>> /\ DnsOK' /\ TcpOK' /\ TlsOK' /\ WorldOK
      /\ pool' = pool /\ InTurn' = InTurn
  BY <1>1, SameWorld, SameTcp, SameTls DEF EngineIInv, Repeat, DnsOK, Lookups, Protocol
<1>3. HttpOK("HTTP/1.1")' /\ HttpOK("HTTP/2")' /\ HttpOK("HTTP/3")'
  BY SameHttp DEF EngineIInv, Repeat, Protocol
<1>4. Quiet'
  BY <1>1, <1>2 DEF Quiet
<1> DEFINE tcps == [a \in pool |-> TcpRepeat(a)]
           https == [a \in pool |-> HttpRepeat(a)]
           size == Len(InTurn)
<1>5. PICK t \in OnePerAddress(tcps), h \in OnePerAddress(https) :
        probes' = [i \in 1..2 * size |->
                     LET a == InTurn[(i + 1) \div 2] IN IF i % 2 = 1 THEN t[a] ELSE h[a]]
  BY DEF Repeat
<1>6. \A a \in pool : tcps[a] = TcpRepeat(a) /\ https[a] = HttpRepeat(a)
  OBVIOUS
<1> HIDE DEF tcps, https
<1>7. \A a \in pool : t[a] \in TcpRepeat(a) /\ h[a] \in HttpRepeat(a)
  BY <1>6, OneEach
<1>8. size \in Nat /\ DOMAIN InTurn = 1..size /\ \A i \in 1..size : InTurn[i] \in pool
  BY <1>2, InTurnFacts
<1> HIDE DEF size
<1>9. ASSUME NEW i \in 1..2 * size
      PROVE  \E a \in pool : /\ probes'[i] \in TcpRepeat(a) \cup HttpRepeat(a)
                             /\ probes'[i].at = a
  <2>1. (i + 1) \div 2 \in 1..size
    BY <1>8
  <2> DEFINE a == InTurn[(i + 1) \div 2]
  <2>2. a \in pool
    BY <1>8, <2>1
  <2>3. probes'[i] \in {t[a], h[a]}
    BY <1>5
  <2> HIDE DEF a
  <2>4. probes'[i] \in TcpRepeat(a) \cup HttpRepeat(a)
    BY <1>7, <2>2, <2>3
  <2>5. probes'[i].at = a
    BY <1>2, <2>2, <2>4, RowsTell
  <2> QED BY <2>2, <2>4, <2>5
<1>10. \A a : TcpRepeat(a)' = TcpRepeat(a) /\ HttpRepeat(a)' = HttpRepeat(a)
  BY <1>1, SameRepeats
<1>11. DOMAIN probes' = 1..2 * size /\ Len(InTurn)' = size
  BY <1>2, <1>5 DEF size
<1>12. RepeatOK'
  BY <1>2, <1>9, <1>10, <1>11 DEF RepeatOK
<1>13. BlameIsWarranted' /\ FaultsAreReported' /\ NoStackedVerdicts'
  BY <1>4, QuietStep
<1> QED BY <1>1, <1>2, <1>3, <1>12, <1>13 DEF EngineIInv

LEMMA SameBlame ==
  ASSUME UNCHANGED world, UNCHANGED dns, UNCHANGED tcp, UNCHANGED http
  PROVE  \A v : Warranted(v)' <=> Warranted(v)
<1>1. pool' = pool /\ Refusing' = Refusing /\ condition' = condition
  BY SameWorld
<1>2. Disagreement' <=> Disagreement
  BY DEF Disagreement, Answered, Lookups
<1>3. \A c, t : Troubled(c, t)' <=> Troubled(c, t)
  BY <1>1 DEF Troubled
<1>4. Troubles' = Troubles
  BY <1>1, <1>2, <1>3 DEF Troubles
<1>5. \A c, cause : Explains(c, cause)' <=> Explains(c, cause)
  BY <1>1 DEF Explains
<1>6. \A cause, at : Suspected(cause, at)' = Suspected(cause, at)
  BY <1>1, <1>5 DEF Suspected
<1>7. FlakyCountedOnce' <=> FlakyCountedOnce
  BY <1>1 DEF FlakyCountedOnce, Unreached, Reached, QuicRows, Completed
<1> QED BY <1>1, <1>2, <1>4, <1>6, <1>7 DEF Warranted

LEMMA DiagnoseHolds == EngineIInv /\ Conclude => EngineIInv'
<1> SUFFICES ASSUME EngineIInv, Conclude PROVE EngineIInv'
  OBVIOUS
<1>1. /\ UNCHANGED world /\ UNCHANGED dns /\ UNCHANGED tcp /\ UNCHANGED tls
      /\ UNCHANGED http /\ UNCHANGED probes
      /\ phase = "diagnose" /\ phase' = "done" /\ out' = Verdicts
  BY DEF Conclude, Verdicts
<1>2. WorldOK /\ DnsOK /\ TcpOK /\ TlsOK /\ RepeatOK
  BY <1>1 DEF EngineIInv, Protocol
<1>3. HttpOK("HTTP/1.1") /\ HttpOK("HTTP/2") /\ HttpOK("HTTP/3")
  BY <1>1 DEF EngineIInv
<1>4. Collected
  BY <1>2, <1>3 DEF Collected, HttpAllOK, Protocol
<1>5. /\ WorldOK' /\ DnsOK' /\ TcpOK' /\ TlsOK' /\ pool' = pool /\ condition' = condition
      /\ InTurn' = InTurn
  BY <1>1, <1>2, SameWorld, SameTcp, SameTls DEF DnsOK, Lookups
<1>6. HttpOK("HTTP/1.1")' /\ HttpOK("HTTP/2")' /\ HttpOK("HTTP/3")'
  BY <1>1, <1>3, SameHttp DEF Protocol
<1>7. RepeatOK'
  BY <1>1, <1>2, SameRepeats, SameWorld DEF RepeatOK
<1>8. Raised' = Range(Verdicts)
  BY <1>1 DEF Raised, Range
<1>9. BlameIsWarranted'
  BY <1>1, <1>4, <1>8, VerdictsSay, SameBlame DEF BlameIsWarranted
<1>10. FaultsAreReported'
  <2>1. ASSUME NEW a \in pool, condition[a] \in Lasting
        PROVE  \E v \in Range(Verdicts) :
                 ReportedAs(v.cause, condition[a])' /\ (v.at = {} \/ a \in v.at)
    <3>1. Told(Verdicts, a)
      BY <1>4, <2>1, VerdictsSay
    <3>2. \A cause : ReportedAs(cause, condition[a])' <=> ReportedAs(cause, condition[a])
      <4>1. Refusing' = Refusing /\ condition' = condition
        BY <1>1, SameWorld
      <4> QED BY <4>1 DEF ReportedAs
    <3> QED BY <3>1, <3>2 DEF Told
  <2> QED BY <1>5, <1>8, <2>1 DEF FaultsAreReported, Lasting
<1>11. NoStackedVerdicts'
  BY <1>1, <1>4, VerdictsSay DEF NoStackedVerdicts, IsInjective
<1> QED BY <1>1, <1>5, <1>6, <1>7, <1>9, <1>10, <1>11 DEF EngineIInv

LEMMA StepHolds == EngineIInv /\ [EngineNext]_engineVars => EngineIInv'
<1> SUFFICES ASSUME EngineIInv, [EngineNext]_engineVars PROVE EngineIInv'
  OBVIOUS
<1>1. CASE ResolveHost
  BY <1>1, ResolveHolds
<1>2. CASE ProbeTcp
  BY <1>2, TcpHolds
<1>3. CASE ProbeTls
  BY <1>3, TlsHolds
<1>4. CASE \E p \in Protocol : ProbeHttp(p)
  BY <1>4, HttpHolds
<1>5. CASE Repeat
  BY <1>5, RepeatHolds
<1>6. CASE Conclude
  BY <1>6, DiagnoseHolds
<1>7. CASE UNCHANGED engineVars
  <2>1. /\ UNCHANGED world /\ UNCHANGED dns /\ UNCHANGED tcp /\ UNCHANGED tls
        /\ UNCHANGED http /\ UNCHANGED probes /\ UNCHANGED phase /\ UNCHANGED out
    BY <1>7 DEF engineVars, world
  <2>2. /\ pool' = pool /\ condition' = condition /\ Refusing' = Refusing
        /\ InTurn' = InTurn /\ (WorldOK' <=> WorldOK)
    BY <2>1, SameWorld
  <2>3. (DnsOK' <=> DnsOK) /\ (TcpOK' <=> TcpOK) /\ (TlsOK' <=> TlsOK)
    BY <2>1, SameTcp, SameTls DEF DnsOK, Lookups
  <2>4. \A p \in Protocol : HttpOK(p)' <=> HttpOK(p)
    BY <2>1, SameHttp
  <2>5. RepeatOK' <=> RepeatOK
    BY <2>1, <2>2, SameRepeats DEF RepeatOK
  <2>6. Raised' = Raised /\ (NoStackedVerdicts' <=> NoStackedVerdicts)
    BY <2>1 DEF Raised, NoStackedVerdicts
  <2>7. BlameIsWarranted' <=> BlameIsWarranted
    BY <2>1, <2>6, SameBlame DEF BlameIsWarranted
  <2>8. \A cause, c : ReportedAs(cause, c)' <=> ReportedAs(cause, c)
    BY <2>2 DEF ReportedAs
  <2>9. FaultsAreReported' <=> FaultsAreReported
    BY <2>1, <2>2, <2>6, <2>8 DEF FaultsAreReported
  <2>10. /\ HttpOK("HTTP/1.1")' <=> HttpOK("HTTP/1.1")
         /\ HttpOK("HTTP/2")' <=> HttpOK("HTTP/2")
         /\ HttpOK("HTTP/3")' <=> HttpOK("HTTP/3")
    BY <2>4 DEF Protocol
  <2> QED BY <2>1, <2>2, <2>3, <2>5, <2>6, <2>7, <2>9, <2>10 DEF EngineIInv
<1> QED BY <1>1, <1>2, <1>3, <1>4, <1>5, <1>6, <1>7 DEF EngineNext, Done

(* What the engine is given is, layer by layer, what the condition of each *)
(* address lets a probe of that layer see.                                 *)
THEOREM Collecting == EngineSpec => []EngineIInv
BY InitHolds, StepHolds, PTL DEF EngineSpec

(* The engine never blames what is not at fault, for any host, resolvers   *)
(* and course of the probes: the signals of filtering_rules, the layers of *)
(* the other rules and their exceptions for one another are such that      *)
(* every verdict has a cause behind it.                                    *)
THEOREM BlameAlwaysWarranted == EngineSpec => []BlameIsWarranted
<1>1. EngineIInv => BlameIsWarranted
  BY DEF EngineIInv
<1> QED BY <1>1, Collecting, PTL

(* A lasting fault of any address is reported at its layer, whatever else  *)
(* is wrong with the host and however many addresses it has.               *)
THEOREM FaultsAlwaysReported == EngineSpec => []FaultsAreReported
<1>1. EngineIInv => FaultsAreReported
  BY DEF EngineIInv
<1> QED BY <1>1, Collecting, PTL

(* And no two verdicts of a run are the same.                              *)
THEOREM VerdictsNeverStacked == EngineSpec => []NoStackedVerdicts
<1>1. EngineIInv => NoStackedVerdicts
  BY DEF EngineIInv
<1> QED BY <1>1, Collecting, PTL

-----------------------------------------------------------------------------
(* The shape of the evidence.                                              *)
LEMMA ConnectsTyped == \A a : Connects(a) \subseteq TcpOutcome
BY Zenon DEF Connects, TcpOutcome, LocalKinds, OK

LEMMA RecordsInPool ==
  ASSUME WorldOK, NEW answered
  PROVE  Records(answered) \subseteq pool
<1>1. InTurn[1] \in pool
  <2>1. PICK a : a \in pool
    BY Conditions
  <2>2. PICK i \in DOMAIN InTurn : InTurn[i] = a
    BY <2>1, InTurnFacts
  <2>3. DOMAIN InTurn = 1..Len(InTurn) /\ Len(InTurn) \in Nat
    BY InTurnFacts
  <2>4. 1 \in DOMAIN InTurn
    BY <2>2, <2>3
  <2> QED BY <2>4, InTurnFacts
<1>2. {InTurn[1]} \subseteq pool
  BY <1>1
<1> QED BY <1>2, Zenon DEF Records

LEMMA LookupsTyped ==
  ASSUME WorldOK, NEW type, NEW answer, NEW family
  PROVE  \A l \in LookupsOf(type, answer, family) : l.records \subseteq pool
<1> SUFFICES ASSUME NEW r \in DOMAIN answer
             PROVE  LookupRow(r, type, answer[r] = "failure",
                              Records(answer[r]) \cap family).records \subseteq pool
  BY DEF LookupsOf
<1> DEFINE records == Records(answer[r]) \cap family
           failed == answer[r] = "failure"
<1>1. records \subseteq pool
  BY RecordsInPool
<1> HIDE DEF records, failed
<1>2. LookupRow(r, type, failed, records).records = records
  BY DEF LookupRow
<1> QED BY <1>1, <1>2 DEF records, failed

LEMMA EmptyOnes == <<>> \in Seq(Verdict) /\ DOMAIN <<>> = {}
OBVIOUS

(* The parts of the type that EngineIInv does not tell already.            *)
DnsTyped == \A l \in dns : l.records \subseteq pool
TcpTyped == phase \notin {"resolve", "tcp"} => tcp \in [pool -> TcpOutcome]
TlsTyped == phase \notin {"resolve", "tcp", "tls"} => DOMAIN tls = pool
HttpTyped == DOMAIN http = pool \X Asked
RepeatTyped == phase \in {"diagnose", "done"} => Len(probes) = 2 * Cardinality(pool)
OutTyped == phase = "done" => out \in Seq(Verdict) /\ out # <<>>

Typed ==
  EngineIInv /\ DnsTyped /\ TcpTyped /\ TlsTyped /\ HttpTyped /\ RepeatTyped /\ OutTyped

LEMMA TypedByParts == Typed => EngineTypeOK
BY EmptyOnes DEF Typed, EngineIInv, WorldOK, EngineTypeOK, DnsTyped, TcpTyped,
                 TlsTyped, HttpTyped, RepeatTyped, OutTyped

LEMMA InitTyped == EngineInit => Typed
<1> SUFFICES ASSUME EngineInit PROVE Typed
  OBVIOUS
<1>1. phase = "resolve" /\ dns = {} /\ http = <<>> /\ EngineIInv
  BY InitHolds DEF EngineInit
<1>2. HttpTyped
  BY <1>1, EmptyOnes DEF HttpTyped, Asked
<1> QED BY <1>1, <1>2 DEF Typed, DnsTyped, TcpTyped, TlsTyped, RepeatTyped, OutTyped

LEMMA TypedStep == Typed /\ [EngineNext]_engineVars => Typed'
<1> SUFFICES ASSUME Typed, [EngineNext]_engineVars PROVE Typed'
  OBVIOUS
<1>1. EngineIInv /\ EngineIInv' /\ WorldOK /\ pool' = pool
  <2>1. EngineIInv /\ EngineIInv' /\ WorldOK
    BY StepHolds DEF Typed, EngineIInv
  <2>2. UNCHANGED world
    BY DEF EngineNext, engineVars, world, ResolveHost, ProbeTcp, ProbeTls, ProbeHttp,
           Repeat, Conclude, Done
  <2> QED BY <2>1, <2>2, SameWorld
<1>2. CASE ResolveHost
  <2>1. /\ phase = "resolve" /\ phase' = "tcp" /\ Asked' = Asked /\ UNCHANGED http
    BY <1>2 DEF ResolveHost, Asked
  <2>2. PICK answer \in Resolutions, reverse \in BOOLEAN :
          dns' = LookupsOf("A", answer, IPv4) \cup LookupsOf("AAAA", answer, Address \ IPv4)
                   \cup (IF reverse THEN {LookupRow("system", "PTR", TRUE, {})} ELSE {})
    BY <1>2 DEF ResolveHost
  <2>3. \A l \in dns' : l.records \subseteq pool
    <3> DEFINE ptr == LookupRow("system", "PTR", TRUE, {})
               v4 == LookupsOf("A", answer, IPv4)
               v6 == LookupsOf("AAAA", answer, Address \ IPv4)
    <3>1. ptr.records = {}
      BY DEF LookupRow
    <3>2. \A l \in v4 : l.records \subseteq pool
      BY <1>1, LookupsTyped
    <3>3. \A l \in v6 : l.records \subseteq pool
      BY <1>1, LookupsTyped
    <3>4. \A l \in dns' : l \in v4 \/ l \in v6 \/ l = ptr
      <4> HIDE DEF v4, v6, ptr
      <4> QED BY <2>2 DEF v4, v6, ptr
    <3> HIDE DEF v4, v6, ptr
    <3> QED BY <3>1, <3>2, <3>3, <3>4
  <2> QED BY <1>1, <2>1, <2>3
          DEF Typed, DnsTyped, TcpTyped, TlsTyped, HttpTyped, RepeatTyped, OutTyped
<1>3. CASE ProbeTcp
  <2>1. /\ phase = "tcp" /\ phase' = "tls" /\ Asked' = Asked
        /\ UNCHANGED dns /\ UNCHANGED http
    BY <1>3 DEF ProbeTcp, Asked
  <2>2. tcp' \in [pool -> TcpOutcome]
    <3> DEFINE of == [a \in pool |-> Connects(a)]
    <3>1. tcp' \in OnePerAddress(of) /\ \A a \in pool : of[a] \subseteq TcpOutcome
      BY <1>3, ConnectsTyped DEF ProbeTcp
    <3> HIDE DEF of
    <3> QED BY <3>1 DEF OnePerAddress
  <2> QED BY <1>1, <2>1, <2>2
          DEF Typed, DnsTyped, TcpTyped, TlsTyped, HttpTyped, RepeatTyped, OutTyped
<1>4. CASE ProbeTls
  <2>1. /\ phase = "tls" /\ phase' = "HTTP/1.1" /\ Asked' = Asked /\ DOMAIN tls' = pool
        /\ UNCHANGED dns /\ UNCHANGED tcp /\ UNCHANGED http
    BY <1>4 DEF ProbeTls, Asked
  <2> QED BY <1>1, <2>1
          DEF Typed, DnsTyped, TcpTyped, TlsTyped, HttpTyped, RepeatTyped, OutTyped
<1>5. ASSUME NEW p \in Protocol, ProbeHttp(p) PROVE Typed'
  <2>1. /\ phase = p /\ phase' = After(p) /\ DOMAIN http' = DOMAIN http \cup (pool \X {p})
        /\ UNCHANGED dns /\ UNCHANGED tcp /\ UNCHANGED tls
    BY <1>5 DEF ProbeHttp
  <2>2. /\ Asked' = Asked \cup {p}
        /\ phase' \notin {"resolve", "tcp", "tls", "diagnose", "done"}
        /\ phase \notin {"resolve", "tcp", "tls"}
    BY <2>1 DEF Asked, After, Protocol
  <2>3. DOMAIN http' = pool \X Asked'
    BY <2>1, <2>2 DEF Typed, HttpTyped
  <2> QED BY <1>1, <2>1, <2>2, <2>3
          DEF Typed, DnsTyped, TcpTyped, TlsTyped, HttpTyped, RepeatTyped, OutTyped
<1>6. CASE Repeat
  <2>1. /\ phase = "repeat" /\ phase' = "diagnose" /\ Asked' = Asked
        /\ UNCHANGED dns /\ UNCHANGED tcp /\ UNCHANGED tls /\ UNCHANGED http
    BY <1>6 DEF Repeat, Asked
  <2>2. \E row : probes' = [i \in 1..2 * Len(InTurn) |-> row[i]]
    BY <1>6 DEF Repeat
  <2>3. Len(InTurn) \in Nat /\ Len(InTurn) = Cardinality(pool)
    BY <1>1, InTurnFacts
  <2>4. Len(probes') = 2 * Cardinality(pool)
    BY <2>2, <2>3
  <2> QED BY <1>1, <2>1, <2>4
          DEF Typed, DnsTyped, TcpTyped, TlsTyped, HttpTyped, RepeatTyped, OutTyped
<1>7. CASE Conclude
  <2>1. /\ phase = "diagnose" /\ phase' = "done" /\ Asked' = Asked /\ out' = Verdicts
        /\ UNCHANGED dns /\ UNCHANGED tcp /\ UNCHANGED tls /\ UNCHANGED http
        /\ UNCHANGED probes
    BY <1>7 DEF Conclude, Verdicts, Asked
  <2>2. Collected
    BY <1>1, <2>1 DEF EngineIInv, Collected, HttpAllOK, Protocol
  <2>3. out' \in Seq(Verdict) /\ out' # <<>>
    BY <2>1, <2>2, VerdictsSay
  <2> QED BY <1>1, <2>1, <2>3
          DEF Typed, DnsTyped, TcpTyped, TlsTyped, HttpTyped, RepeatTyped, OutTyped
<1>8. CASE UNCHANGED engineVars
  <2>1. /\ UNCHANGED dns /\ UNCHANGED tcp /\ UNCHANGED tls /\ UNCHANGED http
        /\ UNCHANGED probes /\ UNCHANGED phase /\ UNCHANGED out /\ Asked' = Asked
    BY <1>8 DEF engineVars, Asked
  <2> QED BY <1>1, <2>1
          DEF Typed, DnsTyped, TcpTyped, TlsTyped, HttpTyped, RepeatTyped, OutTyped
<1> QED BY <1>2, <1>3, <1>4, <1>5, <1>6, <1>7, <1>8 DEF EngineNext, Done

(* The engine is always given complete evidence: a row for every address   *)
(* at every layer, records of the host's own addresses only, and as many   *)
(* rows of repeats as there are addresses, twice.                          *)
THEOREM EvidenceAlwaysComplete == EngineSpec => []EngineTypeOK
<1>1. EngineSpec => []Typed
  BY InitTyped, TypedStep, PTL DEF EngineSpec
<1> QED BY <1>1, TypedByParts, PTL
=============================================================================
