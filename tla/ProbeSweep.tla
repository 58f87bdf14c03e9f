----------------------------- MODULE ProbeSweep -----------------------------
(***************************************************************************)
(* run_probe_flow of src/cli/mod.rs, the body of the tcp, tls, http,       *)
(* http2, http3 and probe commands: check the arguments, resolve every     *)
(* target, check that --output-body has one writer, probe every (target,   *)
(* address) pair, regroup the results, print them and choose the exit      *)
(* code.  Both phases are calls of parallel_map_with_limit on one shared   *)
(* semaphore: module ParallelMap, with one call site.                      *)
(***************************************************************************)
EXTENDS Sweep, SequencesExt

CONSTANTS Permits, MaxPanics

(* shared_semaphore clamps --concurrency to 1..256.                        *)
ASSUME PermitsAssumption == Permits \in Nat \ {0} /\ MaxPanics \in Nat

VARIABLES
  stage,     \* where run_probe_flow is
  resolved,  \* phase 1's results, sorted: the targets whose lookup returned
  artifact,  \* the --output-body file
  free, calling, asked, queue, task, out, dropped, panics  \* ParallelMap's

Main == "run_probe_flow"

(* The items of phase 1 are the targets, those of phase 2 the pairs.       *)
LookupItem(t) == <<t, 0>>
Item == {LookupItem(t) : t \in Target} \cup (Target \X Addr)

Request ==
  {[t \in 1..k |-> LookupItem(t)] : k \in 1..MaxTargets}
  \cup {items \in UNION {[1..k -> Target \X Addr] : k \in 0..Cardinality(Target \X Addr)} :
          IsInjective(items)}

PM == INSTANCE ParallelMap WITH Caller <- {Main}

mapVars == <<free, calling, asked, queue, task, out, dropped, panics>>
mainVars == <<stage, resolved, artifact>>
sweepVars == <<n, opts, answer, verdict, report, code>>
allVars == <<sweepVars, mainVars, mapVars>>

Stage == {"args", "resolving", "probing", "exited"}

(* The file as it was before the run, emptied by the pre-flight, holding   *)
(* part of a body after a failed write, or holding the body of pair p.     *)
Untouched == [state |-> "untouched", of |-> <<>>]
Emptied == [state |-> "emptied", of |-> <<>>]
Partial == [state |-> "partial", of |-> <<>>]
BodyOf(p) == [state |-> "body", of |-> p]
Artifact == {Untouched, Emptied, Partial} \cup {BodyOf(p) : p \in Target \X Addr}

ProbeTypeOK ==
  /\ n \in 0..MaxTargets
  /\ opts \in Options
  /\ answer \in [Target -> AnswerType]
  /\ verdict \in [Target \X Addr -> VerdictType]
  /\ report \in Seq([target : Target,
                     rows : Seq([addr : Addr, verdict : VerdictType])])
  /\ code \in {"running", "success", "failure", "usage"}
  /\ stage \in Stage
  /\ resolved \in Seq(Target)
  /\ artifact \in Artifact
  /\ PM!TypeOK

ProbeInit ==
  /\ Init
  /\ stage = "args"
  /\ resolved = <<>>
  /\ artifact = Untouched
  /\ PM!Init

-----------------------------------------------------------------------------
Exit(c) == stage' = "exited" /\ code' = c

(* The checks that need no lookup: flags, servers and targets that do not  *)
(* parse, an empty target list, --output-body with several targets.        *)
(* Passed, they start phase 1.                                             *)
CheckArgs ==
  /\ stage = "args"
  /\ \/ /\ opts.args = "conflict"
        /\ Exit("usage")
        /\ UNCHANGED mapVars
     \/ /\ \/ opts.args = "bad"
           \/ opts.args = "ok" /\ n = 0
           \/ opts.args = "ok" /\ opts.outputBody /\ n > 1
        /\ Exit("failure")
        /\ UNCHANGED mapVars
     \/ /\ opts.args = "ok"
        /\ n > 0
        /\ ~(opts.outputBody /\ n > 1)
        /\ PM!Call(Main, [t \in 1..n |-> LookupItem(t)])
        /\ stage' = "resolving"
        /\ UNCHANGED code
  /\ UNCHANGED <<n, opts, answer, verdict, report, resolved, artifact>>

(* Mutant of Spawn: tasks are started without taking a permit.             *)
SpawnUnbounded ==
  /\ calling[Main]
  /\ queue[Main] # <<>>
  /\ queue' = [queue EXCEPT ![Main] = Tail(@)]
  /\ task' = [task EXCEPT ![Main][Head(queue[Main])] = "running"]
  /\ UNCHANGED <<sweepVars, mainVars, free, calling, asked, out, dropped, panics>>

(* The spawn loop of the current phase.                                    *)
Spawn ==
  /\ PM!Spawn(Main)
  /\ UNCHANGED <<sweepVars, mainVars>>

(* The task of target t looks it up and keeps the addresses in scope; a    *)
(* failed lookup and an emptied scope both leave it without one.           *)
ResolveTarget(t) ==
  /\ PM!Return(Main, LookupItem(t))
  /\ \E addrs \in Lookup[t] :
       answer' = [answer EXCEPT ![t] = Known(InScope(addrs))]
  /\ UNCHANGED <<n, opts, verdict, report, code, mainVars>>

(* The task of pair p probes it.  A probe that completed saves the body it *)
(* read, if asked to, and a write that fails is only a warning.            *)
ProbePair(p) ==
  /\ PM!Return(Main, p)
  /\ \E v \in {"ok", "unexpected", "failed"} :
       /\ verdict' = [verdict EXCEPT ![p] = v]
       /\ IF opts.outputBody /\ v # "failed"
          THEN artifact' \in {BodyOf(p), Partial}
          ELSE UNCHANGED artifact
  /\ UNCHANGED <<n, opts, answer, report, code, stage, resolved>>

(* A task of either phase panics.                                          *)
PanicResolve(t) ==
  /\ PM!Panic(Main, LookupItem(t))
  /\ answer' = [answer EXCEPT ![t] = LostAnswer]
  /\ UNCHANGED <<n, opts, verdict, report, code, mainVars>>

PanicProbe(p) ==
  /\ PM!Panic(Main, p)
  /\ verdict' = [verdict EXCEPT ![p] = "lost"]
  /\ UNCHANGED <<n, opts, answer, report, code, mainVars>>

Join ==
  /\ \E i \in Item : PM!Join(Main, i)
  /\ UNCHANGED <<sweepVars, mainVars>>

ReturnCall ==
  /\ PM!Finish(Main)
  /\ UNCHANGED <<sweepVars, mainVars>>

-----------------------------------------------------------------------------
(* Phase 1 returned its results in completion order: sort them, and list   *)
(* the pairs to probe, target by target, each in resolver order.           *)
SortedTargets(items) == InOrder([k \in DOMAIN items |-> items[k][1]])

PairsOf(t) == [k \in DOMAIN answer[t].at |-> <<t, answer[t].at[k]>>]

ProbeItems(ts) == FlattenSeq([k \in DOMAIN ts |-> PairsOf(ts[k])])

(* What the pre-flight does to the file.  Mutant: it empties it whether or *)
(* not there is a destination to write it.                                 *)
CreatedAlways(count) == IF opts.outputBody THEN Emptied ELSE artifact

Created(count) ==
  IF opts.outputBody /\ count = 1 THEN Emptied ELSE artifact

(* Between the phases.  With --output-body, several destinations end the   *)
(* run; exactly one has its file created, or emptied, before it is probed, *)
(* and no destination leaves the file alone.                               *)
Preflight ==
  /\ stage = "resolving"
  /\ ~calling[Main]
  /\ resolved' = SortedTargets(out[Main])
  /\ LET items == ProbeItems(resolved')
         count == Len(items)
     IN \/ /\ opts.outputBody
           /\ \/ count > 1
              \/ count = 1 /\ ~opts.writable
           /\ Exit("failure")
           /\ UNCHANGED <<artifact, mapVars>>
        \/ /\ opts.outputBody => count = 0 \/ (count = 1 /\ opts.writable)
           /\ artifact' = Created(count)
           /\ PM!Call(Main, items)
           /\ stage' = "probing"
           /\ UNCHANGED code
  /\ UNCHANGED <<n, opts, answer, verdict, report>>

(* Phase 2's results, in completion order, regrouped by target and sorted. *)
PerTarget(t) == Those(out[Main], {t} \X Addr)

(* Mutant: not sorted.                                                     *)
RowsUnsorted(t) == [k \in DOMAIN PerTarget(t) |-> Row(t, PerTarget(t)[k][2])]

RowsOf(t) ==
  LET own == SortedBy([p \in Range(PerTarget(t)) |-> p[2]], PerTarget(t))
  IN [k \in DOMAIN own |-> Row(t, own[k][2])]

HasDestinations(t) == answer[t].at # <<>>

Grouped ==
  LET ts == Those(resolved, {t \in Target : HasDestinations(t)})
  IN [k \in DOMAIN ts |-> [target |-> ts[k], rows |-> RowsOf(ts[k])]]

Verdicts ==
  UNION {{Grouped[k].rows[j].verdict : j \in DOMAIN Grouped[k].rows} :
           k \in DOMAIN Grouped}

(* An unresolved target, a violated expectation and, under --strict, a     *)
(* failed probe each fail the run.  Mutant: targets that did not resolve   *)
(* are left out of the report and forgotten.                               *)
ExitCodeForgetful ==
  IF \/ opts.expect /\ Verdicts \ {"ok"} # {}
     \/ opts.strict /\ "failed" \in Verdicts
  THEN "failure" ELSE "success"

ExitCode ==
  IF \/ \E k \in DOMAIN resolved : ~HasDestinations(resolved[k])
     \/ opts.expect /\ Verdicts \ {"ok"} # {}
     \/ opts.strict /\ "failed" \in Verdicts
  THEN "failure" ELSE "success"

(* After phase 2: print; an undelivered report fails the run whatever it   *)
(* said.                                                                   *)
PrintAndExit ==
  /\ stage = "probing"
  /\ ~calling[Main]
  /\ \/ report' = <<>> /\ Exit("failure")
     \/ report' = Grouped /\ Exit(ExitCode)
  /\ UNCHANGED <<n, opts, answer, verdict, resolved, artifact, mapVars>>

(* The run is over.                                                        *)
Exited ==
  /\ stage = "exited"
  /\ UNCHANGED allVars

ProbeNext ==
  \/ CheckArgs
  \/ Spawn
  \/ \E t \in Target : ResolveTarget(t)
  \/ \E p \in Target \X Addr : ProbePair(p)
  \/ \E t \in Target : PanicResolve(t)
  \/ \E p \in Target \X Addr : PanicProbe(p)
  \/ Join
  \/ ReturnCall
  \/ Preflight
  \/ PrintAndExit
  \/ Exited

(* Lookups and probes are bounded by --timeout, so their tasks end; the    *)
(* runtime polls the main task and every task that can proceed.            *)
ProbeFairness ==
  /\ WF_allVars(CheckArgs)
  /\ WF_allVars(Spawn)
  /\ \A t \in Target : WF_allVars(ResolveTarget(t) \/ PanicResolve(t))
  /\ \A p \in Target \X Addr : WF_allVars(ProbePair(p) \/ PanicProbe(p))
  /\ WF_allVars(Join)
  /\ WF_allVars(ReturnCall)
  /\ WF_allVars(Preflight)
  /\ WF_allVars(PrintAndExit)

ProbeSpec == ProbeInit /\ [][ProbeNext]_allVars /\ ProbeFairness

-----------------------------------------------------------------------------
(* The sweep, its permits, queues, tasks, completion orders and regrouping *)
(* included, implements the abstract one: the report and the exit code are *)
(* the same function of what the lookups and the probes found, whatever    *)
(* the interleaving.                                                       *)
ImplementsSweep == Spec

(* Both phases of the sweep are well-formed uses of the one semaphore, so  *)
(* they inherit what is true of every such use.                            *)
UsesParallelMap == PM!Spec

(* At most --concurrency lookups and probes are ever running.              *)
ConcurrencyBound == PM!ConcurrencyBound

(* A file captured by an earlier run is only given up for a run that goes  *)
(* on to probe one destination: never for a sweep that is refused, that    *)
(* resolves nothing, or that has two destinations to write it.             *)
CaptureKept ==
  [][artifact' # artifact => Cardinality(Pairs) = 1 /\ stage' # "exited"]_allVars

(* A row that a panic removed from the report is named on stderr: by the   *)
(* time the run exits, what is neither reported nor named is nothing.      *)
HolesAreNamed ==
  (stage = "exited" /\ report # <<>>) =>
    \A p \in Pairs :
      \/ \E k \in DOMAIN report : /\ report[k].target = p[1]
                                  /\ \E j \in DOMAIN report[k].rows :
                                       report[k].rows[j].addr = p[2]
      \/ p \in dropped[Main]

(* Success is earned: without a panic, a run exits 0 only when every       *)
(* target had an address in scope, every address was probed and passes the *)
(* checks the user asked for, and a requested capture was at least begun.  *)
SuccessIsEarned ==
  (code = "success" /\ panics = 0) =>
    /\ n > 0
    /\ \A t \in 1..n : answer[t].at # <<>>
    /\ \A p \in Pairs : /\ verdict[p] # "pending"
                        /\ opts.strict => verdict[p] # "failed"
                        /\ opts.expect => verdict[p] = "ok"
    /\ opts.outputBody => artifact # Untouched

(* Every sweep ends.                                                       *)
Terminates == <>(stage = "exited")

=============================================================================
