# ip-tools in TLA+

Specifications, model checks and proofs for `ip-tools`, a command-line network
diagnostics tool in Rust.  A line reference such as `cli/mod.rs:1524` is
relative to the crate's `src/`; `README.md:609` and `CHANGELOG.md:70` are files
at the root of the repository.

## 1. The system

| component | source | state | operations |
|---|---|---|---|
| bounded parallel map | `cli/mod.rs:1474-1540` | a semaphore, a `JoinSet` per call | `parallel_map`, `parallel_map_with_limit`, `shared_semaphore` |
| probe sweep | `cli/mod.rs:1040-1401` | resolved targets, rows, exit code, the `--output-body` file | `run_probe_flow`: the body of `tcp`, `tls`, `http`, `http2`, `http3`, `probe` |
| diagnose | `cli/diagnose.rs` | per host: address pool, evidence of each phase, report | `run_diagnose`, `diagnose_one`, `collect_http_probes` |
| diagnostics engine | `diagnostics/*.rs` | none: a function of the evidence | rule families and their suppression of one another |
| repeated probes | `probe.rs`, `model/latency.rs`, `cli/probe.rs` | counts and samples of a destination | `repeat_impl`, `LatencySummary`, `ProbeExpectation` |
| TCP, TLS, HTTP/1.1, /2, /3 probes | `tcp.rs`, `tls.rs`, `http*.rs` | a connection, a timer per step, the body so far | one observation per destination |
| DNS client | `dns.rs`, `cli/dns.rs` | a task per target, one per resolver; observations in buckets | `run_dns`, `resolve`, `resolve_repeat`, `aggregate_repeat`, `doh_query`, `dot_query` |
| DNS wire format | `dns.rs:937-1265` | a position in a message | `build_query`, `parse_dns_response`, `read_name`, `skip_name` |
| traceroute | `route.rs`, `cli/route.rs` | raw ICMP socket, one UDP socket per probe | TTL sweep, receive loop, aggregation of runs |
| progress display | `cli/progress.rs` | two atomics, one terminal line | `step`, `finish` |
| parsing, rendering, errors | `target.rs`, `report.rs`, `style.rs`, `error.rs` | none | strings in, strings out |

How they interact.  A command parses its arguments and hands its targets to a
sweep.  A sweep calls the parallel map with a closure that probes one address;
the closures share semaphores.  `diagnose` nests maps: an outer one over hosts,
and in each host one map per probe phase over its addresses, all of the inner
ones drawing on one pool.  `dns` maps over targets; in each, a query per
resolver runs at once and the encrypted endpoints are asked in turn, with the
TCP and TLS probes underneath.  A probe never fails its task: what went wrong
is part of its observation.  Only a panic does, and the map drops that row with
a line on stderr.  The repeat loop, the engine and the renderers read
observations.  `route` stands alone, on a blocking thread.

What is hard here: results arrive in completion order and the output must not
show it; one permit lost or taken twice stalls or overruns a sweep; nested maps
can deadlock; a panic, an unresolved target or a full disk must neither hide a
row nor turn into a green exit; a capture file must not be raced or destroyed;
a peer may stall, break off or drip at every layer; ICMP replies are late,
repeated or somebody else's; a DNS message may be anything; hash maps iterate
in random order.  The `hazards` of `PROJECT.json` list each at its line.

What makes each part correct:

* parallel map: permits are conserved; every item is collected or named as
  dropped, once; a returned call left nothing running; no caller starves.
* sweeps: report and exit code are functions of the answers; exit 0 is earned;
  the run ends; a fleet is taken up in the order typed.
* engine: no verdict blames a layer or an address that is not at fault; a
  lasting fault is reported at its own layer; one cause, one verdict.
* repeat loop: every attempt is in one bucket; rows are canonical; percentiles
  are nearest-rank; a passed expectation means what the flag says.
* probes: a failure names the layer it happened at; time and body are bounded
  however the peer behaves; a flag is honoured or refused.
* DNS: rows are in canonical order whatever answers first; counts are exact;
  `--strict` means it; the parser stays inside the message and reads names as
  the format defines them.
* traceroute: a hop is answered by a reply to its own probe; the aggregate of
  several runs says what was seen.

## 2. Modules

| module | models | instantiated by |
|---|---|---|
| `ParallelMap` | the concurrency primitive | `ProbeSweep`, `DiagnoseSweep` (twice) |
| `Sorting` | filters and sorts of the standard library | extended by the sweeps, `RepeatProbe`, `Engine`, `Dns` and `DnsWire` |
| `Sweep`, `ProbeSweep` | what a sweep promises; `run_probe_flow` | |
| `DiagnoseSweep` | `run_diagnose`, nested maps | |
| `RepeatProbe` | the repeat loop and `--expect-*` | |
| `Engine` | the rules, on the evidence of a host | |
| `ProbeRequest`, `LayeredProbe` | which command runs which probe how; one probe, layer by layer | |
| `Progress`, `Dns` | the status line; the `dns` command | `Dns` extends `Progress` |
| `DnsWire` | query and response parser, byte by byte | |
| `Route`, `Traceroute` | what a traceroute promises; `route.rs` | `Traceroute` refines `Route` |

Each model has an `MC` module with the values of its bounds, alone or with the
module that extends it.  `ParallelMap`, `ProbeSweep`, `RepeatProbe`,
`LayeredProbe` and `Traceroute` have a `Proofs` module, `DiagnoseSweep` and `Engine`
have one between them, `DiagnoseProofs`, and so have `Progress`, `Dns` and
`DnsWire`, `DnsProofs`; `SortingProofs` holds the lemmas on `Sorting` and on
sequences that the others share.

### Sorting

`Those` (`Iterator::filter`), `InOrder` and `SortedBy` (`sort`, `sort_by_key`
where ties cannot be told apart), `StablySorted` (where they can), `Ordered` (the
entries of a map, which come in any order) and `Ascending` (a `BTreeSet`).  Each result is defined by what it has to be, a rearrangement in
order, and not by an algorithm, so that it can be reasoned about.

### ParallelMap

State: `free` (permits in the semaphore), and per call site `calling`, `asked`,
`queue` (items the spawn loop has not reached), `task` (running / returned /
panicked / none), `out` and `dropped`.  Actions: `Call`, `Spawn` (acquire a
permit and spawn, `1523-1531`), `Return` and `Panic` (the task drops its permit,
in order or while unwinding), `Join` (`1533-1538`: collect or report), `Finish`.
`join_next` is reached only when the spawn loop is over, hence the guard
`queue[c] = <<>>`.  Several callers share one semaphore; a caller may call again.
What `f` computes is conjoined by the modules that instantiate this one.

### Sweep and ProbeSweep

`Sweep` is the promise: targets become known, pairs are judged in any order,
one report and one exit code come out, both defined from the answers and
verdicts alone.  `ProbeSweep` is `run_probe_flow`: `CheckArgs`, a
`ParallelMap` call over the targets, `Preflight` (sort, `--output-body` checks,
creation of the file, list of pairs), a second call over the pairs, regrouping,
`PrintAndExit`.  It EXTENDS `Sweep`, whose variables are exactly the observable
ones, so the refinement mapping is the identity and `ImplementsSweep` is simply
`Spec` of `Sweep`; `UsesParallelMap` maps the rest onto `ParallelMap`'s `Spec`.
Addresses are numbers in `SocketAddr` order, IPv6 after IPv4.

### DiagnoseSweep

`Outer` and `Inner` are two instances of `ParallelMap`: the per-host map with a
semaphore of its own, and the maps of all the hosts on the shared pool.  A host
runs through `resolve`, its phases in the code's order, and `diagnose`; each
`NextPhase` sorts the rows of the phase that returned and calls the next map.
The engine's verdict is a choice.  The comment at `cli/mod.rs:1502-1509` speaks
of both levels drawing on one limit; the code gives the outer map its own
(`diagnose.rs:167`), and the model follows the code.  The mutant
`StartTargetNested` shows what the comment's design would do: deadlock.

### RepeatProbe

An attempt meets an event on the wire (unreachable, connected, or headers and
then an end, a stall or a break); `Observation` is what the probe keeps of it,
`Outcome` the tuple of `http_outcome` and its siblings, `Attempt` the loop's
body, `Report` the `ProbeResult`, `Judge` the `--expect-*` check.  `seen` is a
history variable: the properties compare the aggregates with it.  A `HashMap`'s
iteration order is a choice in `CountReports`, and the sort that follows keeps it
where `MoreFrequent` has a tie.  `success_rate` is an exact
fraction; mean and jitter (floating point) are left out.  In the code,
a percent threshold is `pct / 100.0` and the rate `k as f64 / n as f64`; with
fractional percents the two roundings may differ in the last bit when the
threshold is met exactly.  TLC has no floating point, so this stays a hazard
without a property.

### Engine

A host is a condition for each of its addresses (no route, silent, broken TLS,
expired certificate, erring over HTTP/2 only, flaky, ...), 23 in all.  Nothing
but `condition` and `insecure` is the truth; the phases `ResolveHost`, `ProbeTcp`,
`ProbeTls`, `ProbeHttp(p)` and `Repeat` each make fresh connections and record
what that layer can see.  So a broken layer shows in all the rows above it, and
a flaky address may look different to every phase, which is the situation the
rules have to cope with.  `Conclude` runs the fifteen rules in the code's order;
each is an operator that reads evidence only and returns the verdicts it pushes.
`Connects`, `Shakes`, `ShakesQuic` and `Answers` say which failure kinds the
probes of `tcp.rs`, `tls.rs`, `http.rs` and `http3.rs` yield in a condition: a
stalled handshake is `TlsHandshake`, QUIC certificate trouble is `Quic`, and so
on; `FailureNamesLayer` of `LayeredProbe` is why an engine may read the layers
off the kinds at all.

A verdict is its category, its cause (the fixed part of the summary) and the
addresses it names.  Severity, confidence and wording are left out, and so is
evidence no rule reads.  "DNS resolution failed" is modelled but never raised: with
no address `diagnose_one` gives up before the engine is called.  Without
`--insecure` an expired certificate is a failed handshake, hence a `Tls` verdict:
the observation of a failed handshake holds no certificate.

### ProbeRequest and LayeredProbe

`ProbeRequest` is the way from a command line to a probe: which flags each
command knows, which exclude each other (`Refused`), and through which wrapper
the rest reaches the probe (`Plan`: kind, versions offered, trust mode, cap,
capture).  `LayeredProbe` runs the plan.  A probe is a list of steps,
`Steps(plan)`; `at` is the step it is at, `until` when its timer fires.  A timed
step is `Answered` or `Secured` by the peer, fails with a kind that `Fails` gives
for that step, or `Expire`s; a local one is `Computed` or fails.  The body takes
many events: `Frame` (`push_bounded_body`), `BodyEnds`, a break, or the one
deadline of the whole body.  `doh_query` and `dot_query` are two more lists of
steps, with the lookup of the endpoint (IPv4, then IPv6) in front.

### Progress and Dns

`Progress` has the three instructions of `step` one by one: `fetch_add`,
`fetch_max`, then the drawing.  `Dns` is `run_dns`: `Begin` when a permit is
free, then for each record type `Spawn` of a query per resolver, `Answer` and
`QueryPanics` in any order, `EndRound` (sort, and into the buckets of
`resolve_repeat`), once or `--count` times, `AskEndpoint` for each encrypted
endpoint in turn, `EndType`; the task then steps the counter and returns, or
panics.  `Collect` sorts, finishes the status line; `Judge` is `--strict`.
`log` is history: the counts and rows are compared with it.  A drawn line is
as long as its task's label (`Label`); that the digits of the counter are part of it is left
out, for the string `step` measures is the string it draws, whatever its length.  hickory's own retry
over UDP and fallback to TCP is inside the outcome of a query.  Resolvers and
endpoints are labels, in the order `ResolverKind::label` sorts them; nothing in the
code compares two endpoints, so theirs stand for places on the command line
(`OptionsAssumption`): an endpoint given twice is asked twice and has two rows.

### DnsWire

A client asks for `want` of `host`; a message comes back, honest or arbitrary;
`Parse` walks it.  `walk` is the loop of `read_name` or `skip_name`, one turn
per action: `ReadLabel`, `Pointer`, the three ends of a name, and the failures.
`Record` reads a record's header and decides whether its RDATA is decoded, as
names, text, or bytes.  An honest message is made of what its records are
(`Resource`, `Rdata`), as `build_query` makes a question: a record of `Sent` has the
parts its type needs, or data of a length the type cannot have (`WellFormed`), and
`Value` is what it says.  `inside` turns false at an index outside the bytes it
was checked against, and `work` counts the turns of a walk.  `Denotes`
defines recursively what the name at a position is and where it ends
(`NameBy` is one turn of it); `NamesAsDefined` compares every walk with it.

### Route and Traceroute

`Route` is the promise: `count` traces, each hop after hop in TTL order up to
the destination or `--max-hops`, or nothing at all; a hop is lost or one of the
`answers` to its own probes.  `Traceroute` is the code:
`SendProbe` from a fresh UDP socket (the kernel chooses the port, also one used
before), `CheckDeadline`, `RecvReply` (matched by the quoted source port,
anything else sends the loop back to the clock), `RecvForeign` (`recv_icmp`
reads on by itself), `RecvNothing`, `NextRun`, then `ResolveHostnames` and
`Report` with the aggregation of the runs: `Stats` folds `AddRun`, the loop body
of `aggregate_runs`, over them.  The network keeps the
replies in `flying`, delivers each any number of times or never, in any order.
Where its loops end is in the code's own terms: `PushHop` breaks off when the
sender is the destination or the last TTL was probed, `NextRun` counts the runs.
`ImplementsRoute` is `Route` under a refinement mapping: `Phase` is read off `pc`,
`Answers` are the senders of the replies under way that quote a probe of the
current TTL and run.  So a loop that ends a hop too late or too early, a run too
many, a reply taken for another probe's and hops that survive an error each
violate it.  Once a port is reused, which the code cannot tell, any address may
answer.

## 3. Runs

| run | instance | shows |
|---|---|---|
| `parallel_map` | 2 callers, 2 items in every order, 1 permit, 1 panic | permits and items conserved, returned calls complete, no starvation |
| `probe_sweep` | 2 targets, 2 addresses, 2 permits, 1 panic, 12 command lines | refinement of `Sweep` and of `ParallelMap`, exit code, capture file, termination |
| `diagnose_fleet` | 3 hosts with up to 2, 1 and 0 addresses, 2 permits, 1 panic per level, 6 command lines | canonical evidence, complete report, hosts in turn, inner maps well-formed, no deadlock |
| `repeat_probe` | 3 attempts, 2 kinds, 2 statuses, 2 times, 9 expectations | exact counts, canonical rows, percentiles, expectations |
| `engine` | 1 address in any of 23 conditions, or 2 of one or both families, the second fine or failing at some layer; 6 ways to resolve | no unwarranted blame, no lost lasting fault, no stacked verdicts |
| `traceroute` | 1 router, 2 hops, 2 probes per hop, 2 ports, up to 3 runs, 2 replies under way | own replies only, honest aggregate, exit code, refinement of `Route`, termination |
| `layered_probe` | every probe; timeout of one unit, body up to 4 bytes in frames up to 2, caps 0, 2 and the default 3 | failure kinds, time bound, body, flags, termination |
| `dns` | 2 targets, 2 permits, 5 command lines: two lookups with a DoH endpoint; two types asked of two resolvers; two rounds of two resolvers, one named twice, the system's missing; a reverse lookup; two types with endpoints only | row order, counts, `--strict`, status line |
| `dns_wire` | 5 hosts, 6 types, honest responses of up to 2 out of 8 records, raw messages with every short name and RDATA, 2 pointers | bounds, names, answers |
| `engine_local` | as `engine` | violated: a dual-stack host without any route is healthy |
| `engine_filtering` | as `engine` | violated: one flaky address is two signals of filtering |
| `http3_handshake` | as `layered_probe`, no flags | violated: the handshake latency of HTTP/3 is that of the whole exchange |

The last three check what the documentation says and find it contradicted; the
`findings` of `PROJECT.json` quote both sides.

### Bounds

`MaxTargets`, `MaxAddr`, `Permits`, `MaxPanics`: two tasks and one or two
permits give every order of spawning, ending, panicking and joining of two tasks
that compete; a third pair, or a third host, makes one wait.  One target with
both families listed IPv6 first exercises both sorts.  One panic per level
suffices for a leak or a lost row.

`MaxAttempts` = 3 gives ties and majorities in both distributions and
percentiles of different ranks.  In `engine` one partner in each class of trouble
shows every interplay of two addresses the rules look for, since all of them ask
for some address, all addresses, or two that differ.

`Traceroute`: `MaxHops`, `ProbesPerHop` and two ports give a late reply from
the previous probe of the hop, from the previous hop and from the previous run,
and a port that is reused.  `AnsweredMax` stands for 65535 at the smallest value
a `--count` can exceed.  `MaxForeign` bounds the foreign ICMP packets, for
termination needs them to pause (see fairness); `MaxFlying` the replies under way.

`LayeredProbe`: `Timeout` of one unit puts every event before, at or after a
deadline (a frame that is ready at the very deadline may still be taken).
`SnippetMax` 1, caps 0, 2 and 3 and bodies to 4 put the end of a body before, at
and behind each limit, within a frame and between frames.  `FlagSets`: flags that
interact are combined in full; `request` and `sni` only go with at most one other.

`Dns`: two targets race for the counter and the output; two resolvers and two
rounds fill the buckets in every order, with times to live and kinds that tie and
differ.  `DnsWire`: `MaxHops` is 2 where the code has 8, so that chains
of up to four pointers pass the limit; labels of 63 and 64 bytes, an empty one,
and every four-byte name over bytes that are the root, a length, the two ends of
a label's range, or pointers into the name itself.

The theorems below remove the bounds for the properties they cover.  No symmetry
is used: items and addresses are ordered.

### Fairness

Every lookup and probe is bounded by `--timeout` (`InBudget` and `Terminates` of
`LayeredProbe` are why), so a running task ends: WF of `Return \/ Panic`.  The
runtime polls every task that can proceed: WF of the steps of the main task and
of joining.  Tokio's semaphore is FIFO, so a call site that waits while permits
keep coming back gets one: SF of `Spawn` in `ParallelMap`, where callers call for
ever.  In the sweeps every caller makes finitely many calls, so WF is enough.
Panics are never forced.

In `LayeredProbe` the program's own steps and its timers are fair, and the clock
ticks; nothing is asked of the peer, which may stay silent at any step or drip a
body for ever.  In `Traceroute` the thread and the clock are fair, the network is
not; but foreign packets are finitely many, since a socket that never runs dry
does hold the loop up (section 5).  `Dns` and `DnsWire`
state no fairness: they claim safety, and that a walk ends is the bound on `work`.

Deadlock is checked in every run; a finished run stutters through an explicit
`Exited`, `Over` or `Done` action.

## 4. Proofs

Each theorem is `Spec => []P` (or a refinement `Spec => S`) for every value of
the constants that the named `ASSUME`s admit, and those say what the code
enforces: at least one permit (`shared_semaphore` clamps), a resolver's answers
without repetition (`resolve_for_tcp_servers`), well-formed command lines,
finitely many failure kinds and statuses, an expected rate in (0, 1], a timeout
of at least one unit, lookups that name
no record type twice and each endpoint by its place, hosts with finitely many addresses and at least one, of which
some resolver knew all (else `diagnose_one` gives up before there is a diagnosis).  In each module the pattern is the same: an inductive
invariant, a conjunction of named parts, is shown to hold initially and to be
kept by each action, one lemma per action or per part, and the properties follow.

**`SortingProofs`.**  The library's induction theorems take an operator as a
parameter, which the provers here cannot instantiate.  So nothing is proved by
them: a finite set with a strict order is enumerated by sending each element to
its rank, a bijection by counting (`EnumerationExists`), and a sequence is sorted
stably because that is a strict order of its positions (`StableOrderExists`).
`AscendingIsIt` says an ascending sequence is determined by its elements, which is
why completion orders vanish from the reports.  Where induction is needed, for a
recursive function, it is over a set of numbers: the least one missing would have
a predecessor (`SetInduction`).

**`ParallelMapProofs`**: `TypeCorrect`, `PermitsAlwaysConserved`, `Bounded`
(never more running tasks than permits, over all callers together),
`ItemsAccountedFor` and `ReturnsAreComplete`, for any callers and items, finite
or not.  `IInv == Items /\ Permitted`, with per caller `Shape` (types),
`Accounted` (each item in exactly one of four places) and `Settled` (an idle
caller has nothing queued or in flight), and for the semaphore the finiteness of
`Holders` with `PermitsConserved`.  They need each other: `Spawn` adds a holder
only if the head of the queue was not already in flight, which is `Accounted`; and
`Accounted` survives `Call` only because an idle caller is settled.  Permits are
counted with the cardinality theorems for adding and removing one element.
`LossesCounted` bounds the rows a call misses by the panics, for `DiagnoseSweep`.

**`ProbeSweepProofs`**: `SweepImplemented` (the refinement of `Sweep`),
`UsesTheMap`, `SweepBounded`, `TypeCorrect`, `CaptureAlwaysKept`,
`HolesAlwaysNamed` and `SuccessAlwaysEarned`.  `IInv` joins the invariant of
`ParallelMapProofs`, instantiated, to one of this module: `StageOK` (what the map
was asked in each phase), `LookupOK` and `PairOK` (what is known of a target or a
pair agrees with where its task is; the task of a "lost" one panicked), `LossOK`,
`ArtifactOK`, `ExitOK`.  Two steps carry the refinement.  At `Preflight` the
list of pairs is made from the *collected* lookups, and must be `Pairs`, those
of the answers; at `PrintAndExit` the regrouped rows, in completion order up to
there, must be `Report`.  Both go through `AscendingIsIt` and a lemma on what
`FlattenSeq` of the targets' lists is, by `SetInduction`.

**`DiagnoseProofs`**, on the sweep: `InnerMapsAreMaps` (`UsesInnerMap`),
`OuterMapIsMap`, `TypeCorrect`, `EvidenceAlwaysCanonical`, `HostsAlwaysInTurn`,
`ReportAlwaysComplete` and `SuccessAlwaysEarned`.  First both maps are shown to
be uses of `ParallelMap`, from the small invariants that addresses and targets
come from their sets; so its invariants hold of both, which `IInv` takes up
beside its own parts: `QueueOK` (the hosts not yet spawned are the last ones
typed, in order, so that hosts in turn is a statement on permits), `TaskOK` and
`PhaseOK` (where a host is agrees with its outer task and its inner call) and
`EvidenceOK`: of every phase *behind* a host its rows are canonical and, unless
there was a panic, all of them, long before the engine reads them.

**`DiagnoseProofs`**, on the engine: `EvidenceAlwaysComplete` (its type
correctness), `BlameAlwaysWarranted`, `FaultsAlwaysReported` and
`VerdictsNeverStacked`, for hosts of any number of addresses in any conditions.
The run looks at two addresses; the rules quantify over addresses, families,
protocols and rows of repeats, and so does the proof.  `EngineIInv` says of each
layer that has been probed what its evidence can be: `TcpOK`, `TlsOK`, `HttpOK(p)`
and `RepeatOK` tie every row to the condition of its address, `DnsOK` says that
some lookup succeeded.  From there the argument is about one state, `Collected`:

* what can be told from a row (`TcpTells`, `TlsTells`, `ResponseTells`,
  `FailureTells`, `RowsTell`): from a failure kind or a status, the conditions
  that may be behind it, and from a lasting condition, what every row must show
  (`LastingTells`);
* per rule, one lemma: what it raises is warranted, once per cause, from a set of
  causes of its own, and reports the lasting faults that are its to report
  (`ConnectivitySays`, `TlsSays`, ...);
* `Joined` and `SoundJoined`: lists of verdicts on disjoint sets of causes can be
  concatenated, which over fifteen rules is `RulesSay`.

Filtering needs a counting argument: two signals must not stem from one trouble.
Suppose there is one trouble at most.  Then no address resets connections, which
would be two.  If one is flaky, its TCP probe failed (`FlakyCountedOnce`): so it is
among the addresses that fail on the path, its repeats do not count, its handshake
was not tried, and HTTP/3 works somewhere; one signal is left, and the flaky address
is its trouble.  Otherwise each signal has a trouble of its own.  So every signal
has a `Witness` (`SignalsTell`), there is at most one, and two are needed.

`FlakyCountedOnce` is a real restriction: where a flaky address passes its TCP
probe, or HTTP/3 works nowhere, one trouble can be two signals, against the comment
in `filtering_rules` and the head of `diagnostics/mod.rs`.  `FilteringHasTwoCauses`
is the statement without it, and the run `engine_filtering` shows it violated.

Trying to prove these properties changed the model: a `CASE` with overlapping
conditions in what warrants a verdict, of which TLC takes the first and the logic
any, and a misplaced parenthesis in the assumption on `Hosts`.

**`RepeatProbeProofs`**: `TypeCorrect`, `CountsAlwaysExact`,
`RowsAlwaysCanonical`, `PercentilesAlwaysNearestRank` and
`ExpectationAlwaysMeansIt`.  The counters equal the cardinalities of index sets
of the history, since appending an event adds its index to such a set exactly when
the event satisfies the predicate.  `ReportInv` adds that the result is of the
aggregates as they stand and the verdict of that result.  The rows are then a
matter of the sort (`FrequencyOrders`: count and key together leave no tie, so the
map's order cannot show).  The nearest rank is counted: of sorted samples, the
first k map into those that are not above the k-th, and those below it into the
first k - 1 (`RankedSample`).  A passed expectation goes back through rows and
counters to the events; at rate 1 the attempts that ran to completion, being as
many, are all of them.

**`LayeredProbeProofs`**: `TypeCorrect`, `FailuresNameLayers`, `ProbesKeepBudget`,
`BodiesAreHonest` and `FlagsAreHonoured`, for every command line, any timeout,
caps, frames and bodies.  `FailureNamesLayer` and `BodyIsHonest` are parts of the
invariant themselves; the rest is `PlanOK` (the step is one of the plan's),
`PeerOK` (a handshake has been made exactly when the current step is above it, with
a version offered and a certificate trusted or `--insecure`), `TimersOK` (the clock
is within a timeout per step *started*, of which the budget is the limit) and
`BodyOK` (snippet, file and count are functions of what was read, and reading stops
at the cap).

**`TracerouteProofs`**: `TypeCorrect`, `HopsAlwaysOwn`, `AggregateAlwaysHonest`,
`SuccessAlwaysEarned` and `Implementation` (`Spec => ImplementsRoute`).  `HopIsOwn` says nothing of the replies under way, so
its inductive invariant adds where ports come from: every reply in flight quotes a
port that was bound, and as long as none was reused, a reply that quotes the
current port was caused by the current probe.  It is conditioned on `~reused`: the
code matches on the port alone, and whether the kernel gives a closed socket's port
out again is not its to say.  The aggregate is the fold `Stats`: `RunTells` is
that one more run keeps an entry true of the runs so far, and `SetInduction` does
the rest.  That the counter does not saturate is `RunsOK`: a `--count` above what
it holds is refused.  `Implementation` needs all of these invariants and one of
the loop, `LoopOK`: between the probes of a trace its hops are not `Over`, and at
the end they are (`HopDecides`: what `PushHop` tests of one hop says so of all of
them).  That a matched reply is among the `Answers` is where ports come from once
more (`MatchedReplyIsAnswer`), and that the right number of runs is made is
`RunsOK`.

**`DnsProofs`**, on the lookups: `DnsInvariant`, `RowsAlwaysCanonical`,
`CountsAlwaysExact`, `StrictAlwaysEarned` and `ProgressAlwaysHonest`, for any number
of targets, resolvers, endpoints, record types, rounds and permits.  The heart of
`DnsInv` is one statement on a target, `TargetOK(t, j, L)`, of what its task is at,
`j`, and of the history of its answers, `L`; it is a statement on two values, so
that every action has a lemma about values (`TargetHears`, `AnotherRound`,
`EndpointAgain`, ...) and the frame is dealt with once (`TargetMoves`).  Its parts:

* `Listed`: the rows are, by type and label, those of the types before and of the
  current one so far (`Blocks`, `Settled`); each is exact about its answers, or is
  its one answer (`Accounted`); and no answer of a type or label that is over is
  without a row.  Only the last makes `--strict` mean anything, for it looks at
  rows and the property at answers.
* `Gathering`, while the resolvers are asked: what came in the rounds before is in
  the buckets, what came in this one is from the queries no longer out.  A bucket
  is `Backed` by answers of different rounds: the log is a set, in which two equal
  answers of one round would be one, so a bucket can be as long as its answers are
  many only because each is of another round.
* `Encrypting`, while the endpoints are: the answers of the one it is at are its
  bucket, numbered as it is.

The order of completion vanishes in `ByResolver` of a round, which is determined by
what is in it since no resolver answers twice (`SortedRows`).  `Filled` and
`FlattenSeq` are recursive functions, so that they have a value at all is proved
first (`FilledExists`), by `SetInduction`.  `OutputsOK` and `ExitOK` carry the
targets' order and the verdict to the end, and `ProgressOK` counts the lines drawn
by their numbers.  TLC finds `TargetOK` of every target kept on the instance of the
run `dns` (734040 states).  What the proof asked of the model was to say which labels
may coincide, and to give its folds and sorts in a form that can be reasoned about.

**`DnsProofs`**, on the wire: `AlwaysInside`, `NamesAlwaysAsDefined`, `AnswersAlwaysAsAsked`.
For every message,
host, type and pointer limit, no index leaves the bytes checked and no walk turns
more than `(MaxHops + 2) * (Size + 1)` times.  The invariant is a potential: the turns so
far are at most `hops * (Size + 1)` plus the position.  A label pays for its turn
with the distance it moves forward, and a pointer, which may lead back to the
start, with a whole message length; pointers are counted, so a loop runs out.
The same potential, as `Measure`, makes the recursive definition `Denotes` one that
has a solution: partial solutions on the places below a number are extended number
by number (`PartsExist`, `DenotesFacts`).  Then `WalkOK` is an invariant: what the
walk has read, followed by what the place it is at denotes, is what its start
denotes; at the root label the rest is empty, and where a walk gives up it is
"no name" (`FailsNowhere`).

`AnswersAlwaysAsAsked` is that parsing undoes encoding, for honest responses of any
number of records (that a 16-bit count can hold) of any types, with any compressed
names.  It joins two statements.
One is on the message: `Laid` says where in it what is, from `Holds(p, s)`, the bytes
at `p` are `s`, and its lemmas on concatenations (`HoldsConcat`, `JoinedHeld`: in
what is joined, each part is where the ones before it end).  What a name denotes
there follows label by label (`LabelsDenoted`, `HostDenoted`, `CompressedDenoted`).
The other is on the parser, `HonestInv`: it is at the header, among the questions,
between two records (`Between(k)`), or within one (`Within(k)`) at its i-th name,
its j-th string or its bytes, and what it has found is `Finding(k, j)`, what the
first records say.  Each step leads from one of these places to the next
(`RecordFollows`, `EndRdataFollows`, `TextFollows`, ...).  That no step fails
on the way is `NeverFails`, which is `NamesAsDefined` at work: a walk gives up
only where no name is.  The proof changed the model: an honest record is given by
its parts and not by its bytes beside them, and what may be `Nothing` is
distinct from every value a property compares it with.

Only model-checked: all liveness (fairness and `ENABLED` are out of the proof
system's reach).  Every invariant and action property a passing run checks is
stated by a theorem.  No module declares a RECURSIVE operator.

## 5. Not modelled, and what the documentation says otherwise

Not modelled: rendering (`report.rs`, `style.rs`), errors, the entry point and
the list of local addresses, and the test doubles, which keep no state or are no
part of the program; the parsing of targets, headers and flag values, whose
outcome is an `args` flag of the sweeps; cryptography, certificate parsing, the
headers and authority of a request, HTTP/2 flow control; hickory's inner retries;
round-trip times, mean and jitter.  `Engine` leaves out the evidence of a
`--plain` run.  An outage that begins between two phases is among the behaviours
of a flaky address, for which no verdict is promised.

Met while translating, and left as the code has it in the models:

* `diagnose --json` is an object or an array by the number of reports
  (`cli/diagnose.rs:230`), so a fleet in which all but one host is dropped
  prints the shape of a single host; README.md:609-610 speaks of one host and of
  more than one.
  `dns --json` follows the number of outputs in the same way.
* `recv_icmp` reads on after a packet that is no reply to a UDP datagram without
  looking at the clock (`RecvForeign`; `route.rs:319`), so a probe outlives its
  deadline while such packets arrive less than 100 ms apart.  The comments say "the
  caller enforces the deadline" (`route.rs:281`), "a short non-blocking receive so we
  can respect the deadline" (302) and "Per-probe timeout" (37).
* `diagnose --plain` still runs the HTTP/2 and HTTP/3 maps
  (`cli/diagnose.rs:797`, against 656-657 and CHANGELOG.md:70).
* A body that breaks off loses the status and time to first byte that had been
  seen (`http.rs:539`, against `model/probe.rs:48-52` and `probe.rs:343-346`).  A
  body that stalls keeps them: single-shot `--expect-status` and `--strict` pass,
  while the repeat loop counts the attempt as a timeout.
* The latency verdict speaks of a stable status without reading `status_counts`
  (`diagnostics/layer.rs:272,306`, against 256-257).
* `body_capped` (`model/http.rs:42-47`) is also set for a body of exactly the
  cap (`http_common.rs:207`).
* The probes' documentation says "bounded by `timeout`" (`http.rs:22-23`,
  `http2.rs:17-18`, `http3.rs:49-50`); each step has a timer of the whole
  timeout, so the bound is a multiple of it, as `InBudget` states.  The latency in
  the TLS observation of HTTP/1.1 and /2 includes the TCP connect.
* `dns --strict` succeeds with no rows at all when no resolver can be built, and
  when the task of a target panicked: both leave nothing to object to.
* Lines of the progress display may be drawn out of order, a smaller count last,
  until the completion line covers them.
* A name in RDATA may run past the end of its record (`rdlen`); the time to live
  documented as that of the first answer record is that of the first record of
  the wanted type, also of one passed over for its length; `skip_name` follows
  one pointer more than `read_name`; a response's ID and question are not
  compared with the query.
