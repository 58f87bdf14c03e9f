-------------------------------- MODULE Dns ---------------------------------
(***************************************************************************)
(* The dns subcommand: run_dns of src/cli/dns.rs, dns_compute under it,    *)
(* and DnsClient of src/dns.rs under that.                                 *)
(*                                                                         *)
(* Targets are tasks of parallel_map.  The task of a target goes through   *)
(* the record types; for each it asks all the client's resolvers at once,  *)
(* as many times as --count says and one round after the other, and then   *)
(* the encrypted endpoints in turn.  A query answers within the timeout or *)
(* is a timeout; its task, or that of the target, may also panic, and then *)
(* what it would have returned is dropped.                                 *)
(***************************************************************************)
EXTENDS Progress, Sorting, SequencesExt

CONSTANTS
  Options,      \* the command lines considered
  System,       \* the label of the system resolver; labels are numbers
  Ttl,          \* times to live
  Kind,         \* failure kinds, numbered in declaration order
  DnsFailure,   \* FailureKind::Dns
  Timeout,      \* FailureKind::Timeout
  Concurrency,  \* --concurrency
  None          \* Rust's None

RecordType == {"A", "AAAA", "CNAME", "MX", "TXT", "NS", "SOA", "CAA", "SRV", "PTR"}

ASSUME TaskAssumption == Task \subseteq Nat /\ IsFiniteSet(Task)
ASSUME KindAssumption ==
  Kind \subseteq Nat /\ IsFiniteSet(Kind) /\ {DnsFailure, Timeout} \subseteq Kind
ASSUME TtlAssumption == Ttl \subseteq Nat
ASSUME ConcurrencyAssumption == Concurrency \in Nat \ {0}
ASSUME NoneAssumption == None \notin Nat

(* No type of record is asked for twice.  Nothing in the code compares     *)
(* endpoints: their labels stand for their places on the command line.     *)
ASSUME OptionsAssumption ==
  \A o \in Options :
    /\ o.target \in [Task -> {"name", "literal"}]
    /\ o.types \in Seq(RecordType) /\ o.types # <<>> /\ IsInjective(o.types)
    /\ System \in Nat /\ o.servers \in Seq(Nat)
    /\ o.doh \in Seq(Nat) /\ o.dot \in Seq(Nat) /\ IsInjective(o.doh \o o.dot)
    /\ Range(o.doh \o o.dot) \cap (Range(o.servers) \cup {System}) = {}
    /\ o.count \in Nat \ {0}

VARIABLES
  opts,      \* the command line
  job,       \* what the task of each target is at
  log,       \* history: per target, every answer, in the order they came
  returned,  \* the targets whose task returned, in completion order
  outputs,   \* the same in target order, None before that
  exit       \* whether the command succeeded, and whether under --strict

vars == <<opts, job, log, returned, outputs, exit, progressVars>>

-----------------------------------------------------------------------------
(* The resolvers a DnsClient has: one that cannot be built is skipped, and *)
(* a server named twice is one.                                            *)
Resolvers == {r \in Range(opts.servers) \cup {System} : r \notin opts.broken}

Endpoints == opts.doh \o opts.dot

(* A literal is its own answer, except to a lookup of PTR records alone.   *)
Literal(t) == opts.target[t] = "literal"
ReverseLookup(t) == Literal(t) /\ opts.types = <<"PTR">>
Asks(t) == Literal(t) => ReverseLookup(t)
Repeats(t) == Asks(t) /\ opts.count > 1
Rounds(t) == IF Repeats(t) THEN opts.count ELSE 1

Observation(r, ty, error, records, ttl) ==
  [resolver |-> r, type |-> ty, error |-> error, records |-> records, ttl |-> ttl]

(* What a resolver makes of a query.  Its answer may hold records of other *)
(* types only: they are left out, and it is an answer with none.           *)
Queried(r, ty) ==
  {Observation(r, ty, None, TRUE, n) : n \in Ttl}
    \cup {Observation(r, ty, None, FALSE, None)}
    \cup {Observation(r, ty, k, FALSE, None) : k \in {DnsFailure, Timeout}}

(* doh_query and dot_query: an answer without a record is a failure, and   *)
(* the layers under the query fail in their own ways.                      *)
QueriedEncrypted(e, ty) ==
  {Observation(e, ty, None, TRUE, n) : n \in Ttl}
    \cup {Observation(e, ty, k, FALSE, None) : k \in Kind}

LiteralRow(ty) ==
  Observation(System, ty, None, ty = "A", None)

ByResolver(rows) == SortedBy([o \in Range(rows) |-> o.resolver], rows)

(* aggregate_repeat: the rows of failure_counts are in an order of their   *)
(* own, the most frequent first and equals by kind.                        *)
Tally(bucket, error) == Cardinality({i \in DOMAIN bucket : bucket[i].error = error})

MoreFrequent(a, b) == a[2] > b[2] \/ (a[2] = b[2] /\ a[1] < b[1])

FailureCounts(bucket) ==
  LET failed == {k \in Kind : Tally(bucket, k) > 0}
      counts == {<<k, Tally(bucket, k)>> : k \in failed}
  IN Ordered(counts, {p \in counts \X counts : MoreFrequent(p[1], p[2])})

MinTtl(bucket) ==
  LET ttls == {o.ttl : o \in Range(bucket)} \ {None}
  IN IF ttls = {} THEN None ELSE Min(ttls)

Aggregated(bucket, ty, attempts) ==
  LET successes == Tally(bucket, None)
  IN [resolver |-> bucket[1].resolver, type |-> ty, attempts |-> attempts,
      successes |-> successes,
      failures |-> IF successes <= attempts THEN attempts - successes ELSE 0,
      counts |-> FailureCounts(bucket), ttl |-> MinTtl(bucket)]

(* An attempt without an observation is a failure of no kind.  Mutant:     *)
(* attempts are the observations there are.                                *)
AggregateAnswered(bucket, ty) == Aggregated(bucket, ty, Len(bucket))

Aggregate(bucket, ty) == Aggregated(bucket, ty, opts.count)

-----------------------------------------------------------------------------
(* A task: the type and round it is at, the queries of the round that are  *)
(* out, their observations as they come in, those of the rounds before in  *)
(* a bucket per resolver, the endpoint it is at with its bucket, and the   *)
(* rows so far.                                                            *)
Idle ==
  [pc |-> "waiting", type |-> 1, round |-> 1, out |-> {}, got |-> <<>>,
   buckets |-> <<>>, endpoint |-> 1, rows |-> <<>>]

Init ==
  /\ opts \in Options
  /\ job = [t \in Task |-> Idle]
  /\ log = [t \in Task |-> {}]
  /\ returned = <<>>
  /\ outputs = None
  /\ exit = None
  /\ ProgressInit

Running == {t \in Task : job[t].pc \notin {"waiting", "returned", "panicked"}}

Type(t) == opts.types[job[t].type]

(* Back to the resolvers for the type of record that is next.              *)
NextType(j) ==
  IF j.type = Len(opts.types) THEN [j EXCEPT !.pc = "computed"]
  ELSE [j EXCEPT !.pc = "spawn", !.type = @ + 1, !.round = 1, !.endpoint = 1]

Become(t, j) ==
  /\ job' = [job EXCEPT ![t] = j]
  /\ UNCHANGED <<opts, returned, outputs, exit, progressVars>>

(* A permit is free: the task of a target starts.  A literal is reported   *)
(* from itself.                                                            *)
Begin(t) ==
  /\ job[t].pc = "waiting"
  /\ Cardinality(Running) < Concurrency
  /\ Become(t, IF Asks(t) THEN [job[t] EXCEPT !.pc = "spawn"]
               ELSE [job[t] EXCEPT !.pc = "computed",
                                   !.rows = [i \in DOMAIN opts.types |->
                                               LiteralRow(opts.types[i])]])
  /\ UNCHANGED log

(* A round: every resolver is asked at once.                               *)
Spawn(t) ==
  /\ job[t].pc = "spawn"
  /\ Become(t, [job[t] EXCEPT !.pc = "joining", !.out = Resolvers, !.got = <<>>])
  /\ UNCHANGED log

(* The query of a resolver comes back: join_next yields in this order.     *)
Answer(t, o) ==
  /\ job[t].pc = "joining"
  /\ o.resolver \in job[t].out
  /\ Become(t, [job[t] EXCEPT !.out = @ \ {o.resolver}, !.got = Append(@, o)])
  /\ log' = [log EXCEPT ![t] = @ \cup {[round |-> job[t].round, of |-> o]}]

(* It panicked: join_next yields an error, which is passed over.           *)
QueryPanics(t, r) ==
  /\ job[t].pc = "joining"
  /\ r \in job[t].out
  /\ Become(t, [job[t] EXCEPT !.out = @ \ {r}])
  /\ UNCHANGED log

(* The round is over: resolve sorts its observations.  Mutant: they stay   *)
(* in the order they came.                                                 *)
RoundAsCompleted(t) == job[t].got

Round(t) == ByResolver(job[t].got)

(* resolve_repeat puts each with the earlier ones of its resolver.         *)
Bucketed(buckets, o) ==
  IF \E i \in DOMAIN buckets : buckets[i][1].resolver = o.resolver
  THEN [i \in DOMAIN buckets |->
          IF buckets[i][1].resolver = o.resolver THEN Append(buckets[i], o)
          ELSE buckets[i]]
  ELSE Append(buckets, <<o>>)

Filled(buckets, round) ==
  LET filled[n \in 0..Len(round)] ==
        IF n = 0 THEN buckets ELSE Bucketed(filled[n - 1], round[n])
  IN filled[Len(round)]

EndRound(t) ==
  /\ job[t].pc = "joining"
  /\ job[t].out = {}
  /\ UNCHANGED log
  /\ LET j == job[t]
         buckets == Filled(j.buckets, Round(t))
         rows == [i \in DOMAIN buckets |-> Aggregate(buckets[i], Type(t))]
         next == [j EXCEPT !.pc = "encrypted", !.got = <<>>, !.buckets = <<>>]
     IN Become(t, IF ~Repeats(t) THEN [next EXCEPT !.rows = @ \o Round(t)]
                  ELSE IF j.round < opts.count
                  THEN [j EXCEPT !.pc = "spawn", !.round = @ + 1, !.got = <<>>,
                                 !.buckets = buckets]
                  ELSE [next EXCEPT !.rows = @ \o ByResolver(rows)])

(* An endpoint is asked, as many times as there are rounds, and its row    *)
(* added; then the next one.                                               *)
AskEndpoint(t, o) ==
  /\ job[t].pc = "encrypted"
  /\ job[t].endpoint <= Len(Endpoints)
  /\ o \in QueriedEncrypted(Endpoints[job[t].endpoint], Type(t))
  /\ log' = [log EXCEPT ![t] = @ \cup {[round |-> Len(job[t].got) + 1, of |-> o]}]
  /\ LET j == job[t]
         bucket == Append(j.got, o)
         row == IF Repeats(t) THEN Aggregate(bucket, Type(t)) ELSE o
     IN Become(t, IF Len(bucket) < Rounds(t) THEN [j EXCEPT !.got = bucket]
                  ELSE [j EXCEPT !.got = <<>>, !.endpoint = @ + 1,
                                 !.rows = Append(@, row)])

EndType(t) ==
  /\ job[t].pc = "encrypted"
  /\ job[t].endpoint > Len(Endpoints)
  /\ Become(t, NextType(job[t]))
  /\ UNCHANGED log

(* The target is computed: it is counted, and the task returns.            *)
StepProgress(t) ==
  /\ job[t].pc = "computed"
  /\ Step(t)
  /\ UNCHANGED <<opts, job, log, returned, outputs, exit>>

Return(t) ==
  /\ job[t].pc = "computed"
  /\ stepping[t] = "after"
  /\ job' = [job EXCEPT ![t].pc = "returned"]
  /\ returned' = Append(returned, t)
  /\ UNCHANGED <<opts, log, outputs, exit, progressVars>>

(* The task panics before it counts: parallel_map drops it.                *)
TargetPanics(t) ==
  /\ t \in Running
  /\ job[t].pc # "computed"
  /\ job' = [job EXCEPT ![t] = [Idle EXCEPT !.pc = "panicked"]]
  /\ UNCHANGED <<opts, log, returned, outputs, exit, progressVars>>

(* Every task is over, and the outputs are brought back to target order.   *)
OutputsInOrder == InOrder(returned)

Collect ==
  /\ outputs = None
  /\ \A t \in Task : job[t].pc \in {"returned", "panicked"}
  /\ Finish
  /\ outputs' = OutputsInOrder
  /\ UNCHANGED <<opts, job, log, returned, exit>>

(* A row that --strict does not let pass.  Mutant: of a repeated lookup    *)
(* only the one that never succeeded.                                      *)
RowFailedAlways(t, row) ==
  IF Repeats(t) THEN row.successes = 0 ELSE row.error # None

RowFailed(t, row) == IF Repeats(t) THEN row.failures > 0 ELSE row.error # None

(* The rows are printed, if anybody reads them, and the exit code is that  *)
(* of --strict, if given.                                                  *)
Judge(strict, printed) ==
  /\ outputs # None
  /\ exit = None
  /\ exit' = [strict |-> strict,
              ok |-> /\ printed
                     /\ strict => \A t \in Range(outputs) :
                          \A row \in Range(job[t].rows) : ~RowFailed(t, row)]
  /\ UNCHANGED <<opts, job, log, returned, outputs, progressVars>>

Judged == \E strict, printed \in BOOLEAN : Judge(strict, printed)

Done ==
  /\ exit # None
  /\ UNCHANGED vars

AnyAnswer(t) == UNION {Queried(r, Type(t)) : r \in job[t].out}

AnyEndpointAnswer(t) ==
  IF job[t].endpoint > Len(Endpoints) THEN {}
  ELSE QueriedEncrypted(Endpoints[job[t].endpoint], Type(t))

Work(t) ==
  \/ Begin(t)
  \/ Spawn(t)
  \/ \E o \in AnyAnswer(t) : Answer(t, o)
  \/ \E r \in job[t].out : QueryPanics(t, r)
  \/ EndRound(t)
  \/ \E o \in AnyEndpointAnswer(t) : AskEndpoint(t, o)
  \/ EndType(t)
  \/ StepProgress(t)
  \/ Return(t)

Next ==
  \/ \E t \in Task : Work(t) \/ TargetPanics(t)
  \/ Collect
  \/ Judged
  \/ Done

Spec == Init /\ [][Next]_vars

-----------------------------------------------------------------------------
Computed(t) == Asks(t) /\ job[t].pc \in {"computed", "returned"}

Answers(t, ty, r) == {e \in log[t] : e.of.type = ty /\ e.of.resolver = r}

ClientRows(t, ty) == Ascending({r \in Resolvers : Answers(t, ty, r) # {}})

Keyed(ty, labels) == [i \in DOMAIN labels |-> <<ty, labels[i]>>]

RowKeys(rows) == [i \in DOMAIN rows |-> <<rows[i].type, rows[i].resolver>>]

(* The rows of a target do not depend on which query came back first: by   *)
(* type, those of the client in order of label, one for every resolver     *)
(* heard of, then those of the endpoints as they were given.  Nor does     *)
(* what is printed depend on which target was: it is every one whose task  *)
(* did not panic, in the order given.                                      *)
RowsAreCanonical ==
  /\ \A t \in Task : Computed(t) =>
       RowKeys(job[t].rows) =
       FlattenSeq([k \in DOMAIN opts.types |->
                     Keyed(opts.types[k], ClientRows(t, opts.types[k]) \o Endpoints)])
  /\ outputs # None => outputs = Ascending({t \in Task : job[t].pc # "panicked"})

Exact(row, told) ==
  LET good == {e \in told : e.of.error = None}
      ttls == {e.of.ttl : e \in good} \ {None}
  IN /\ row.successes = Cardinality(good)
     /\ row.successes + row.failures = opts.count
     /\ \A k \in Kind :
          LET n == Cardinality({e \in told : e.of.error = k})
          IN n > 0 <=> <<k, n>> \in Range(row.counts)
     /\ row.ttl = IF ttls = {} THEN None ELSE Min(ttls)

(* A repeated row accounts for every attempt asked for, also those without *)
(* an observation; its time to live is the least of any answer.            *)
CountsAreExact ==
  \A t \in Task : Computed(t) /\ Repeats(t) =>
    \A row \in Range(job[t].rows) : Exact(row, Answers(t, row.type, row.resolver))

(* With --strict, success means that of the targets reported no query that *)
(* answered failed, and that of a repeated lookup every resolver with a    *)
(* row answered in every round.                                            *)
StrictIsEarned ==
  exit # None /\ exit.strict /\ exit.ok =>
    \A t \in Range(outputs) : Asks(t) =>
      /\ \A e \in log[t] : e.of.error = None
      /\ Repeats(t) =>
           \A row \in Range(job[t].rows) :
             Cardinality(Answers(t, row.type, row.resolver)) = opts.count

=============================================================================
