---------------------------- MODULE DiagnoseSweep ----------------------------
(***************************************************************************)
(* The diagnose command, src/cli/diagnose.rs: run_diagnose maps            *)
(* diagnose_one over the targets, and each diagnose_one maps one probe     *)
(* after another over its destinations.  Two semaphores of the same size   *)
(* are used: the outer map has one of its own, and every inner map of      *)
(* every target draws on one shared probe_limit.  Both are instances of    *)
(* ParallelMap: Outer with one call site, Inner with one per target.       *)
(***************************************************************************)
EXTENDS Sorting

CONSTANTS
  MaxTargets,  \* bound of the model: targets on the command line
  MaxAddr,     \* addresses are 1..MaxAddr, ordered as IpAddr orders them
  V6,          \* the IPv6 addresses among them
  Lookup,      \* Lookup[t]: the address sets target t may resolve to
  Options,     \* the command lines considered
  Permits,     \* --concurrency, of each of the two semaphores
  MaxPanics    \* bound of the model: panics of each level

ASSUME BoundsAssumption == MaxTargets \in Nat /\ MaxAddr \in Nat /\ MaxPanics \in Nat
(* shared_semaphore clamps --concurrency to 1..256.                        *)
ASSUME PermitsAssumption == Permits \in Nat \ {0}
ASSUME LookupAssumption == \A t \in 1..MaxTargets : Lookup[t] \subseteq SUBSET (1..MaxAddr)

VARIABLES
  n,         \* targets on the command line
  opts,      \* flags
  stage,     \* where run_diagnose is
  pc,        \* pc[t]: where diagnose_one is for target t
  addrs,     \* addrs[t]: the address pool of target t, in scope
  evidence,  \* evidence[t][ph]: the destinations of the rows of phase ph
  result,    \* result[t]: what diagnose_one came to
  report,    \* the targets printed, in order
  shape,     \* what --json printed: an object or an array
  code       \* exit code, or "running"

VARIABLES oFree, oCalling, oAsked, oQueue, oTask, oOut, oDropped, oPanics
VARIABLES iFree, iCalling, iAsked, iQueue, iTask, iOut, iDropped, iPanics

ownVars == <<n, opts, stage, pc, addrs, evidence, result, report, shape, code>>
outerVars == <<oFree, oCalling, oAsked, oQueue, oTask, oOut, oDropped, oPanics>>
innerVars == <<iFree, iCalling, iAsked, iQueue, iTask, iOut, iDropped, iPanics>>
vars == <<ownVars, outerVars, innerVars>>

Main == "run_diagnose"
Target == 1..MaxTargets
Addr == 1..MaxAddr

Outer == INSTANCE ParallelMap WITH
  Caller <- {Main}, Item <- Target,
  Request <- {[t \in 1..k |-> t] : k \in 1..MaxTargets},
  free <- oFree, calling <- oCalling, asked <- oAsked, queue <- oQueue,
  task <- oTask, out <- oOut, dropped <- oDropped, panics <- oPanics

Inner == INSTANCE ParallelMap WITH
  Caller <- Target, Item <- Addr,
  Request <- {Ascending(S) : S \in SUBSET Addr},
  free <- iFree, calling <- iCalling, asked <- iAsked, queue <- iQueue,
  task <- iTask, out <- iOut, dropped <- iDropped, panics <- iPanics

OptionType ==
  [args : {"ok", "conflict", "bad"}, family : {"any", "v4", "v6"},
   plain : BOOLEAN, strict : BOOLEAN, format : {"human", "csv", "json"}]

ASSUME OptionsAssumption == Options \subseteq OptionType

(* The probe phases of diagnose_one, in the order it runs them: --plain    *)
(* leaves out the TLS one only.                                            *)
Probes == <<"tcp", "tls", "http1", "http2", "http3", "repeat">>
ProbesPlain == <<"tcp", "http1", "http2", "http3", "repeat">>
PhaseName == Range(Probes)
Phases == IF opts.plain THEN ProbesPlain ELSE Probes

(* The rows diagnose_one keeps: under --plain those of http2 and http3 are *)
(* discarded.                                                              *)
Kept == IF opts.plain THEN {"tcp", "http1", "repeat"} ELSE PhaseName

TypeOK ==
  /\ n \in 0..MaxTargets
  /\ opts \in Options
  /\ stage \in {"args", "sweeping", "exited"}
  /\ pc \in [Target -> {"waiting", "resolve", "diagnose", "done"} \cup PhaseName]
  /\ addrs \in [Target -> SUBSET Addr]
  /\ evidence \in [Target -> [PhaseName -> Seq(Addr)]]
  /\ result \in [Target -> {"pending", "unresolved", "healthy", "anomaly", "lost"}]
  /\ report \in Seq(Target)
  /\ shape \in {"none", "object", "array"}
  /\ code \in {"running", "success", "failure", "usage"}
  /\ Outer!TypeOK
  /\ Inner!TypeOK

Init ==
  /\ n \in 0..MaxTargets
  /\ opts \in Options
  /\ stage = "args"
  /\ pc = [t \in Target |-> "waiting"]
  /\ addrs = [t \in Target |-> {}]
  /\ evidence = [t \in Target |-> [ph \in PhaseName |-> <<>>]]
  /\ result = [t \in Target |-> "pending"]
  /\ report = <<>>
  /\ shape = "none"
  /\ code = "running"
  /\ Outer!Init
  /\ Inner!Init

-----------------------------------------------------------------------------
Exit(c) == stage' = "exited" /\ code' = c

(* run_diagnose: a flag, server, header, body or target list that does not *)
(* parse, or an empty list, ends the run; else the outer map is called.    *)
CheckArgs ==
  /\ stage = "args"
  /\ \/ /\ opts.args = "conflict"
        /\ Exit("usage")
        /\ UNCHANGED outerVars
     \/ /\ opts.args = "bad" \/ (opts.args = "ok" /\ n = 0)
        /\ Exit("failure")
        /\ UNCHANGED outerVars
     \/ /\ opts.args = "ok"
        /\ n > 0
        /\ Outer!Call(Main, [t \in 1..n |-> t])
        /\ stage' = "sweeping"
        /\ UNCHANGED code
  /\ UNCHANGED <<n, opts, pc, addrs, evidence, result, report, shape, innerVars>>

(* Mutant of StartTarget: diagnose_one is started without an outer permit. *)
StartTargetUnlimited ==
  /\ oCalling[Main]
  /\ oQueue[Main] # <<>>
  /\ oQueue' = [oQueue EXCEPT ![Main] = Tail(@)]
  /\ oTask' = [oTask EXCEPT ![Main][Head(oQueue[Main])] = "running"]
  /\ pc' = [pc EXCEPT ![Head(oQueue[Main])] = "resolve"]
  /\ UNCHANGED <<n, opts, stage, addrs, evidence, result, report, shape, code,
                 oFree, oCalling, oAsked, oOut, oDropped, oPanics, innerVars>>

(* Mutant of StartTarget: the outer tasks take their permits from the      *)
(* semaphore that their own probes need, and hold them.                    *)
StartTargetNested ==
  /\ Outer!Spawn(Main)
  /\ iFree > 0
  /\ iFree' = iFree - 1
  /\ pc' = [pc EXCEPT ![Head(oQueue[Main])] = "resolve"]
  /\ UNCHANGED <<n, opts, stage, addrs, evidence, result, report, shape, code,
                 iCalling, iAsked, iQueue, iTask, iOut, iDropped, iPanics>>

(* The outer map starts diagnose_one for the next target.                  *)
StartTarget ==
  /\ Outer!Spawn(Main)
  /\ pc' = [pc EXCEPT ![Head(oQueue[Main])] = "resolve"]
  /\ UNCHANGED <<n, opts, stage, addrs, evidence, result, report, shape, code,
                 innerVars>>

(* diagnose_one goes on to phase ph of target t, over the sorted pool.     *)
Begin(t, ph, pool) ==
  /\ pc' = [pc EXCEPT ![t] = ph]
  /\ Inner!Call(t, Ascending(pool))

InFamily(d) ==
  CASE opts.family = "v4" -> d \notin V6
    [] opts.family = "v6" -> d \in V6
    [] OTHER -> TRUE

(* diagnose_one resolves target t and scopes the pool to the family: an    *)
(* empty pool ends it with no report, else the first probe phase begins.   *)
Resolve(t) ==
  /\ pc[t] = "resolve"
  /\ \E found \in Lookup[t] :
       LET pool == {d \in found : InFamily(d)}
       IN \/ /\ pool = {}
             /\ result' = [result EXCEPT ![t] = "unresolved"]
             /\ pc' = [pc EXCEPT ![t] = "done"]
             /\ Outer!Return(Main, t)
             /\ UNCHANGED <<addrs, innerVars>>
          \/ /\ pool # {}
             /\ addrs' = [addrs EXCEPT ![t] = pool]
             /\ Begin(t, Phases[1], pool)
             /\ UNCHANGED <<result, outerVars>>
  /\ UNCHANGED <<n, opts, stage, evidence, report, shape, code>>

(* Mutant of StartProbe: each target has a semaphore of its own.           *)
StartProbeUnshared(t) ==
  /\ iCalling[t]
  /\ iQueue[t] # <<>>
  /\ Cardinality({d \in Addr : iTask[t][d] = "running"}) < Permits
  /\ iFree' = iFree - 1
  /\ iQueue' = [iQueue EXCEPT ![t] = Tail(@)]
  /\ iTask' = [iTask EXCEPT ![t][Head(iQueue[t])] = "running"]
  /\ UNCHANGED <<ownVars, outerVars, iCalling, iAsked, iOut, iDropped, iPanics>>

(* The steps of target t's current inner map.                              *)
StartProbe(t) ==
  /\ Inner!Spawn(t)
  /\ UNCHANGED <<ownVars, outerVars>>

EndProbe(t, d) ==
  /\ Inner!Return(t, d)
  /\ UNCHANGED <<ownVars, outerVars>>

PanicProbe(t, d) ==
  /\ Inner!Panic(t, d)
  /\ UNCHANGED <<ownVars, outerVars>>

JoinProbe(t, d) ==
  /\ Inner!Join(t, d)
  /\ UNCHANGED <<ownVars, outerVars>>

ReturnPhase(t) ==
  /\ Inner!Finish(t)
  /\ UNCHANGED <<ownVars, outerVars>>

(* The rows of target t's phase.  Mutant: in completion order.             *)
RowsAsCompleted(t) == iOut[t]

RowsOf(t) == InOrder(iOut[t])

(* The rows of the phase that returned, in completion order, are sorted by *)
(* destination; the next phase begins, or the engine's turn comes.         *)
NextPhase(t) ==
  /\ pc[t] \in PhaseName
  /\ ~iCalling[t]
  /\ LET ph == pc[t]
         k == CHOOSE j \in DOMAIN Phases : Phases[j] = ph
     IN /\ evidence' = IF ph \in Kept
                       THEN [evidence EXCEPT ![t][ph] = RowsOf(t)]
                       ELSE evidence
        /\ IF k < Len(Phases)
           THEN Begin(t, Phases[k + 1], addrs[t])
           ELSE pc' = [pc EXCEPT ![t] = "diagnose"] /\ UNCHANGED innerVars
  /\ UNCHANGED <<n, opts, stage, addrs, result, report, shape, code, outerVars>>

(* The engine reads the evidence, and diagnose_one returns its report.     *)
Diagnose(t) ==
  /\ pc[t] = "diagnose"
  /\ \E v \in {"healthy", "anomaly"} : result' = [result EXCEPT ![t] = v]
  /\ pc' = [pc EXCEPT ![t] = "done"]
  /\ Outer!Return(Main, t)
  /\ UNCHANGED <<n, opts, stage, addrs, evidence, report, shape, code, innerVars>>

(* diagnose_one panics outside its inner maps, none of whose tasks is then *)
(* in flight.                                                              *)
PanicTarget(t) ==
  /\ pc[t] \in {"resolve", "diagnose"}
  /\ Outer!Panic(Main, t)
  /\ result' = [result EXCEPT ![t] = "lost"]
  /\ pc' = [pc EXCEPT ![t] = "done"]
  /\ UNCHANGED <<n, opts, stage, addrs, evidence, report, shape, code, innerVars>>

JoinTarget(t) ==
  /\ Outer!Join(Main, t)
  /\ UNCHANGED <<ownVars, innerVars>>

ReturnSweep ==
  /\ Outer!Finish(Main)
  /\ UNCHANGED <<ownVars, innerVars>>

(* What the outer map returned, sorted back to target order.  Mutant: in   *)
(* completion order.                                                       *)
IndexedAsCompleted == oOut[Main]

Indexed == InOrder(oOut[Main])

Unresolved == \E k \in DOMAIN Indexed : result[Indexed[k]] = "unresolved"
Reports == Those(Indexed, {t \in Target : result[t] # "unresolved"})
Anomaly == \E k \in DOMAIN Reports : result[Reports[k]] = "anomaly"

(* An unresolved target, or an anomaly under --strict, fails the run.      *)
(* Mutant: targets that did not resolve are forgotten.                     *)
ExitCodeForgetful == IF opts.strict /\ Anomaly THEN "failure" ELSE "success"

ExitCode ==
  IF Unresolved \/ (opts.strict /\ Anomaly) THEN "failure" ELSE "success"

(* The reports are printed: JSON prints one report as an object.  A report *)
(* that cannot be printed fails the run.                                   *)
PrintAndExit ==
  /\ stage = "sweeping"
  /\ ~oCalling[Main]
  /\ \/ /\ report' = Reports
        /\ shape' = CASE opts.format # "json" -> "none"
                      [] Len(Reports) = 1 -> "object"
                      [] OTHER -> "array"
        /\ Exit(ExitCode)
     \/ /\ Exit("failure")
        /\ UNCHANGED <<report, shape>>
  /\ UNCHANGED <<n, opts, pc, addrs, evidence, result, outerVars, innerVars>>

(* The run is over.                                                        *)
Exited ==
  /\ stage = "exited"
  /\ UNCHANGED vars

Next ==
  \/ CheckArgs
  \/ StartTarget
  \/ \E t \in Target :
       \/ Resolve(t)
       \/ StartProbe(t)
       \/ \E d \in Addr : EndProbe(t, d)
       \/ \E d \in Addr : PanicProbe(t, d)
       \/ \E d \in Addr : JoinProbe(t, d)
       \/ ReturnPhase(t)
       \/ NextPhase(t)
       \/ Diagnose(t)
       \/ PanicTarget(t)
       \/ JoinTarget(t)
  \/ ReturnSweep
  \/ PrintAndExit
  \/ Exited

(* Lookups and probes are bounded by --timeout and the engine computes, so *)
(* every task ends; the runtime polls whatever can proceed.  A target has  *)
(* finitely many probes, so no target can hold the others off for ever.    *)
Fairness ==
  /\ WF_vars(CheckArgs)
  /\ WF_vars(StartTarget)
  /\ \A t \in Target :
       /\ WF_vars(Resolve(t))
       /\ WF_vars(StartProbe(t))
       /\ \A d \in Addr : WF_vars(EndProbe(t, d)) /\ WF_vars(JoinProbe(t, d))
       /\ WF_vars(ReturnPhase(t))
       /\ WF_vars(NextPhase(t))
       /\ WF_vars(Diagnose(t))
       /\ WF_vars(JoinTarget(t))
  /\ WF_vars(ReturnSweep)
  /\ WF_vars(PrintAndExit)

Spec == Init /\ [][Next]_vars /\ Fairness

-----------------------------------------------------------------------------
(* The inner maps of all the targets together are a well-formed use of one *)
(* semaphore: what holds of every use holds of them, the bound on          *)
(* concurrent probes across the fleet first.                               *)
UsesInnerMap == Inner!Spec

(* Hosts are taken up in order, and --concurrency bounds the hosts at      *)
(* work: a host starts only when fewer than that many earlier ones are     *)
(* unfinished, so at --concurrency 1 strictly host after host.             *)
HostsInTurn ==
  \A t \in Target : pc[t] # "waiting" =>
    Cardinality({u \in 1..(t - 1) : pc[u] # "done"}) < Permits

(* The engine never sees evidence of a phase that is still going on, nor   *)
(* an order the scheduler chose: when it runs, every phase kept has one    *)
(* row per address of the pool in address order, but for the rows of       *)
(* panicked probes, and no probe of the target is in flight.               *)
EvidenceIsCanonical ==
  \A t \in Target : pc[t] = "diagnose" =>
    /\ Inner!InFlight(t) = {} /\ iQueue[t] = <<>>
    /\ \A ph \in Kept :
         LET rows == evidence[t][ph]
         IN /\ IsAscending(rows)
            /\ Range(rows) \subseteq addrs[t]
            /\ Cardinality(addrs[t] \ Range(rows)) <= iPanics
    /\ \A ph \in PhaseName \ Kept : evidence[t][ph] = <<>>

(* Every report printed is in target order, and no host that was diagnosed *)
(* is missing from it unless its task was named on stderr as lost.         *)
ReportIsComplete ==
  (stage = "exited" /\ oAsked[Main] # {} /\ (code = "success" \/ report # <<>>)) =>
    report = Ascending({t \in 1..n : result[t] \in {"healthy", "anomaly"}})

(* Success is earned: exit code 0 means every host whose task was not lost *)
(* was resolved and, under --strict, found healthy.                        *)
SuccessIsEarned ==
  code = "success" =>
    /\ n > 0
    /\ \A t \in 1..n :
         result[t] \in {"healthy", "lost"}
           \cup (IF opts.strict THEN {} ELSE {"anomaly"})

(* The nested maps never wait on each other for ever: every run ends.      *)
Terminates == <>(stage = "exited")

=============================================================================
