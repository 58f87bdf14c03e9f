------------------------------- MODULE Sweep -------------------------------
(***************************************************************************)
(* What a probe sweep promises its user: the tcp, tls, http, http2, http3  *)
(* and probe commands, which all run run_probe_flow of src/cli/mod.rs.     *)
(*                                                                         *)
(* Every target is looked up once, then every (target, address) pair in    *)
(* scope is probed once, in no promised order; then one report and one     *)
(* exit code come out, and both are functions of the answers and of the    *)
(* verdicts alone.  There are no permits, tasks or queues here: that the   *)
(* real sweep, whatever its concurrency, implements this specification is  *)
(* what makes its output deterministic.                                    *)
(***************************************************************************)
EXTENDS Sorting

CONSTANTS
  MaxTargets,  \* bound of the model: targets on the command line
  MaxAddr,     \* addresses are 1..MaxAddr, ordered as SocketAddr orders them
  V6,          \* the IPv6 addresses among them
  Lookup,      \* Lookup[t]: the answers target t's resolution may give
  Options      \* the command lines considered

ASSUME BoundsAssumption == MaxTargets \in Nat /\ MaxAddr \in Nat
(* resolve_for_tcp_servers drops the addresses it has seen already.        *)
ASSUME LookupAssumption ==
  \A t \in 1..MaxTargets : \A addrs \in Lookup[t] :
    addrs \in Seq(1..MaxAddr) /\ IsInjective(addrs)

VARIABLES
  n,        \* how many targets the command line names
  opts,     \* its flags
  answer,   \* answer[t]: what is known of the addresses of target t
  verdict,  \* verdict[<<t, d>>]: what the probe of address d of target t found
  report,   \* what was printed: a sequence of [target, rows]
  code      \* the exit code, or "running"

vars == <<n, opts, answer, verdict, report, code>>

Target == 1..MaxTargets
Addr == 1..MaxAddr

(* The flags that decide control.  args: how argument checking ends.       *)
OptionType ==
  [args : {"ok", "conflict", "bad"}, family : {"any", "v4", "v6"},
   outputBody : BOOLEAN, writable : BOOLEAN, expect : BOOLEAN,
   strict : BOOLEAN]

ASSUME OptionsAssumption == Options \subseteq OptionType

(* A lookup that failed, or whose answers the family scope emptied, is     *)
(* known with no address; one lost to a panic is never known.              *)
AnswerType == [known : {"pending", "yes", "lost"}, at : Seq(Addr)]
Pending == [known |-> "pending", at |-> <<>>]
LostAnswer == [known |-> "lost", at |-> <<>>]
Known(addrs) == [known |-> "yes", at |-> addrs]

(* ok: the response is what was asked for.  unexpected: it completed but   *)
(* violates --expect-*.  failed: it did not complete.  lost: its task      *)
(* panicked.                                                               *)
VerdictType == {"pending", "ok", "unexpected", "failed", "lost"}

InFamily(d) ==
  CASE opts.family = "v4" -> d \notin V6
    [] opts.family = "v6" -> d \in V6
    [] OTHER -> TRUE

InScope(addrs) == Those(addrs, {d \in Addr : InFamily(d)})

(* The probes of the sweep: every address in scope of every target.        *)
Pairs == {p \in Target \X Addr : p[2] \in Range(answer[p[1]].at)}

AllAnswered == \A t \in 1..n : answer[t].known # "pending"
AllJudged == \A p \in Pairs : verdict[p] # "pending"
NothingJudged == \A p \in Target \X Addr : verdict[p] = "pending"

-----------------------------------------------------------------------------
(* The report: the targets that have an address, in the order they were    *)
(* given, each with the verdicts of its addresses in address order.        *)
Reported(t) == {d \in Addr : /\ <<t, d>> \in Pairs
                             /\ verdict[<<t, d>>] \notin {"pending", "lost"}}

Row(t, d) == [addr |-> d, verdict |-> verdict[<<t, d>>]]

Block(t) ==
  LET addrs == Ascending(Reported(t))
  IN [target |-> t, rows |-> [k \in DOMAIN addrs |-> Row(t, addrs[k])]]

Resolved == {t \in 1..n : answer[t].at # <<>>}

Report ==
  LET order == Ascending(Resolved)
  IN [k \in DOMAIN order |-> Block(order[k])]

Unresolved == \E t \in 1..n : answer[t] = Known(<<>>)

(* The exit code of a run whose report was delivered.                      *)
Verdict ==
  IF \/ Unresolved
     \/ opts.expect /\ \E p \in Pairs : verdict[p] \in {"unexpected", "failed"}
     \/ opts.strict /\ \E p \in Pairs : verdict[p] = "failed"
  THEN "failure"
  ELSE "success"

(* Why a sweep may stop without probing anything.                          *)
MustRefuse ==
  \/ opts.args # "ok"
  \/ n = 0
  \/ opts.outputBody /\ n > 1
  \/ opts.outputBody /\ AllAnswered /\ Cardinality(Pairs) > 1
  \/ opts.outputBody /\ AllAnswered /\ ~opts.writable /\ Pairs # {}

-----------------------------------------------------------------------------
Init ==
  /\ n \in 0..MaxTargets
  /\ opts \in Options
  /\ answer = [t \in Target |-> Pending]
  /\ verdict = [p \in Target \X Addr |-> "pending"]
  /\ report = <<>>
  /\ code = "running"

(* A target's addresses become known, or its lookup is lost.               *)
Learn(t) ==
  /\ code = "running"
  /\ opts.args = "ok"
  /\ answer[t] = Pending
  /\ \/ \E addrs \in Lookup[t] :
          answer' = [answer EXCEPT ![t] = Known(InScope(addrs))]
     \/ answer' = [answer EXCEPT ![t] = LostAnswer]
  /\ UNCHANGED <<n, opts, verdict, report, code>>

(* An address is probed, once every target is known and none of the        *)
(* reasons to refuse holds.                                                *)
Judge(p) ==
  /\ code = "running"
  /\ AllAnswered
  /\ ~MustRefuse
  /\ p \in Pairs
  /\ verdict[p] = "pending"
  /\ \E v \in VerdictType \ {"pending"} : verdict' = [verdict EXCEPT ![p] = v]
  /\ UNCHANGED <<n, opts, answer, report, code>>

(* The sweep is refused before any probe: 2 for a usage error, else 1.     *)
Refuse ==
  /\ code = "running"
  /\ MustRefuse
  /\ NothingJudged
  /\ code' = IF opts.args = "conflict" THEN "usage" ELSE "failure"
  /\ UNCHANGED <<n, opts, answer, verdict, report>>

(* The report is printed and the exit code decided; or printing fails.     *)
Conclude ==
  /\ code = "running"
  /\ AllAnswered
  /\ AllJudged
  /\ ~MustRefuse
  /\ \/ report' = Report /\ code' = Verdict
     \/ report' = <<>> /\ code' = "failure"
  /\ UNCHANGED <<n, opts, answer, verdict>>

Next ==
  \/ \E t \in 1..n : Learn(t)
  \/ \E p \in Pairs : Judge(p)
  \/ Refuse
  \/ Conclude

Spec == Init /\ [][Next]_vars

=============================================================================
