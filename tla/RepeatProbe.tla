----------------------------- MODULE RepeatProbe -----------------------------
(***************************************************************************)
(* One destination probed again and again: repeat_impl of src/probe.rs and *)
(* the closures around it, the summary of src/model/latency.rs, and the    *)
(* check of --expect-status and --expect-rate of src/cli/probe.rs.         *)
(*                                                                         *)
(* Attempts run one after the other.  What an attempt meets on the wire is *)
(* an event; the probe turns it into an observation, the closure turns     *)
(* that into the tuple the loop aggregates.                                *)
(***************************************************************************)
EXTENDS Sorting

CONSTANTS
  MaxAttempts,   \* bound of the model: attempts asked for
  Kind,          \* failure kinds, numbered in declaration order
  Timeout,       \* FailureKind::Timeout
  Status,        \* HTTP statuses
  Ms,            \* elapsed times
  Expectations,  \* the --expect-* flags considered
  None           \* Rust's None

ASSUME MaxAttemptsAssumption == MaxAttempts \in Nat
ASSUME KindAssumption == Kind \subseteq Nat /\ IsFiniteSet(Kind) /\ Timeout \in Kind
ASSUME StatusAssumption == Status \subseteq Nat /\ IsFiniteSet(Status)
ASSUME MsAssumption == Ms \subseteq Nat
ASSUME NoneAssumption == None \notin Nat /\ None \notin Nat \X Nat

(* A rate is a fraction n/d in (0, 1].                                     *)
ASSUME ExpectationsAssumption ==
  \A x \in Expectations :
    x.rate # None => x.rate \in Nat \X Nat /\ x.rate[1] \in 1..x.rate[2]

VARIABLES
  http,       \* whether the protocol is one of http, http2 and http3
  attempts,   \* how many attempts were asked for
  expect,     \* the flags
  seen,       \* history: what each attempt met, in order
  successes, failures, statuses, latency, ttfb,  \* locals of repeat_impl
  result,     \* the ProbeResult, or None before it
  verdict     \* how the destination fares against the flags

vars == <<http, attempts, expect, seen, successes, failures, statuses,
          latency, ttfb, result, verdict>>

(* An attempt either never got as far as the response headers, for a       *)
(* reason; or got headers with a status, after which the body ended, broke *)
(* off with an error, or did not end within --timeout.  A tcp or tls       *)
(* attempt that connected is a response that ended, without a status.      *)
Unreachable == [event : {"unreachable"}, kind : Kind]
Connected == [event : {"connected"}, ms : Ms]
Ended == {e \in [event : {"ended"}, status : Status, headersAt : Ms, ms : Ms] :
            e.headersAt <= e.ms}
Stalled == {e \in [event : {"stalled"}, status : Status, headersAt : Ms, ms : Ms] :
              e.headersAt <= e.ms}
Broken == [event : {"broken"}, status : Status, headersAt : Ms, kind : Kind]

HttpEvent == Unreachable \cup Ended \cup Stalled \cup Broken
TransportEvent == Unreachable \cup Connected
Event == HttpEvent \cup TransportEvent

(* The observation of the event.  with_failure gives up the status and the *)
(* time of headers that did arrive before the body broke off.              *)
Observation(e) ==
  CASE e.event \in {"unreachable", "broken"} ->
         [failure |-> e.kind, status |-> None, body |-> FALSE,
          latency |-> None, ttfb |-> None]
    [] e.event = "connected" ->
         [failure |-> None, status |-> None, body |-> TRUE,
          latency |-> e.ms, ttfb |-> None]
    [] e.event = "ended" ->
         [failure |-> None, status |-> e.status, body |-> TRUE,
          latency |-> e.ms, ttfb |-> e.headersAt]
    [] e.event = "stalled" ->
         [failure |-> None, status |-> e.status, body |-> FALSE,
          latency |-> e.ms, ttfb |-> e.headersAt]

(* The tuple the loop aggregates.  A response whose body never completes   *)
(* is a Timeout failure.  Mutant: it is a success.                         *)
OutcomeOfHeaders(e) ==
  LET o == Observation(e)
  IN [ok |-> o.failure = None, latency |-> o.latency, kind |-> o.failure,
      status |-> o.status, ttfb |-> o.ttfb]

Outcome(e) ==
  LET o == Observation(e)
      ok == o.failure = None /\ o.body
  IN [ok |-> ok,
      latency |-> IF ok THEN o.latency ELSE None,
      kind |-> IF ok \/ o.failure # None THEN o.failure ELSE Timeout,
      status |-> o.status,
      ttfb |-> o.ttfb]

(* What is pushed of an optional time: it if there is one.                 *)
Option(v) == IF v = None THEN <<>> ELSE <<v>>

-----------------------------------------------------------------------------
(* A HashMap of counts: a key that was never counted is absent.            *)
Entries(counts) == {k \in DOMAIN counts : counts[k] > 0}

(* The entries in a report: a HashMap yields them in any order, and they   *)
(* are then sorted, the most frequent first and equals by key.  Mutant:    *)
(* equals are left in the order they came in.                              *)
SortedByCount(order, counts) ==
  StablySorted(order, {e \in Entries(counts) \X Entries(counts) :
                         counts[e[1]] > counts[e[2]]})

MoreFrequent(counts) ==
  {e \in Entries(counts) \X Entries(counts) :
     \/ counts[e[1]] > counts[e[2]]
     \/ counts[e[1]] = counts[e[2]] /\ e[1] < e[2]}

SortedEntries(order, counts) == StablySorted(order, MoreFrequent(counts))

Counted(ks, counts) == [p \in DOMAIN ks |-> <<ks[p], counts[ks[p]]>>]

CountReports(counts) ==
  {Counted(SortedEntries(order, counts), counts) :
     order \in {f \in [1..Cardinality(Entries(counts)) -> Entries(counts)] :
                  IsInjective(f)}}

Total(counts) == FoldFunction(LAMBDA x, y : x + y, 0, counts)

(* The p-th percentile of sorted samples: the one whose rank is p percent  *)
(* of their number, rounded up.  Mutant: rounded down.                     *)
RankFloored(p, count) == IF p * count < 100 THEN 1 ELSE (p * count) \div 100

Rank(p, count) == (p * count + 99) \div 100

Percentiles == {50, 90, 95, 99}

Summarize(samples) ==
  LET sorted == InOrder(samples)
      count == Len(samples)
  IN [count |-> count,
      min |-> IF count = 0 THEN None ELSE sorted[1],
      max |-> IF count = 0 THEN None ELSE sorted[count],
      percentile |-> [p \in Percentiles |->
                        IF count = 0 THEN None ELSE sorted[Rank(p, count)]]]

-----------------------------------------------------------------------------
TypeOK ==
  /\ http \in BOOLEAN
  /\ attempts \in 0..MaxAttempts
  /\ expect \in Expectations
  /\ seen \in Seq(Event)
  /\ successes \in Nat
  /\ failures \in [Kind -> Nat]
  /\ statuses \in [Status -> Nat]
  /\ latency \in Seq(Ms)
  /\ ttfb \in Seq(Ms)
  /\ verdict \in {"pending", "met", "violated"}

(* --expect-status is an error with a protocol that has no status.         *)
Init ==
  /\ http \in BOOLEAN
  /\ attempts \in 0..MaxAttempts
  /\ expect \in {x \in Expectations : http \/ x.status = None}
  /\ seen = <<>>
  /\ successes = 0
  /\ failures = [k \in Kind |-> 0]
  /\ statuses = [s \in Status |-> 0]
  /\ latency = <<>>
  /\ ttfb = <<>>
  /\ result = None
  /\ verdict = "pending"

(* *entry(key).or_default() += 1.                                          *)
Increment(counts, key) ==
  [k \in DOMAIN counts |-> counts[k] + (IF k = key THEN 1 ELSE 0)]

(* The next attempt, and its place in the aggregates.                      *)
Attempt(e) ==
  /\ result = None
  /\ Len(seen) < attempts
  /\ e \in IF http THEN HttpEvent ELSE TransportEvent
  /\ LET o == Outcome(e)
     IN /\ statuses' = Increment(statuses, o.status)
        /\ ttfb' = ttfb \o Option(o.ttfb)
        /\ successes' = successes + (IF o.ok THEN 1 ELSE 0)
        /\ latency' = latency \o Option(o.latency)
        /\ failures' = Increment(failures, o.kind)
  /\ seen' = Append(seen, e)
  /\ UNCHANGED <<http, attempts, expect, result, verdict>>

(* The loop is over: the ProbeResult.                                      *)
Report ==
  /\ result = None
  /\ Len(seen) = attempts
  /\ \E fs \in CountReports(failures), ss \in CountReports(statuses) :
       result' = [successes |-> successes, failures |-> Total(failures),
                  latency |-> Summarize(latency), ttfb |-> Summarize(ttfb),
                  failureCounts |-> fs, statusCounts |-> ss]
  /\ UNCHANGED <<http, attempts, expect, seen, successes, failures, statuses,
                 latency, ttfb, verdict>>

(* The reasons ProbeExpectation.violation finds in a result.  success_rate *)
(* is kept as a fraction, 0 of 0 attempts being 0.  Mutant: a destination  *)
(* that never answered passes a status check.                              *)
StatusViolatedLeniently(r) ==
  /\ expect.status # None
  /\ \E p \in DOMAIN r.statusCounts : r.statusCounts[p][1] \notin expect.status

StatusViolated(r) ==
  /\ expect.status # None
  /\ \/ r.statusCounts = <<>>
     \/ \E p \in DOMAIN r.statusCounts : r.statusCounts[p][1] \notin expect.status

RateViolated(r) ==
  /\ expect.rate # None
  /\ \/ attempts = 0
     \/ r.successes * expect.rate[2] < expect.rate[1] * attempts

Judge ==
  /\ result # None
  /\ verdict = "pending"
  /\ verdict' = IF StatusViolated(result) \/ RateViolated(result)
                THEN "violated" ELSE "met"
  /\ UNCHANGED <<http, attempts, expect, seen, successes, failures, statuses,
                 latency, ttfb, result>>

(* The destination is done.                                                *)
Done ==
  /\ verdict # "pending"
  /\ UNCHANGED vars

Next ==
  \/ \E e \in Event : Attempt(e)
  \/ Report
  \/ Judge
  \/ Done

Spec == Init /\ [][Next]_vars

-----------------------------------------------------------------------------
(* An attempt failed in way k: unreachable or broken off that way, or, for *)
(* Timeout, stalled.                                                       *)
FailedBy(e, k) ==
  \/ e.event \in {"unreachable", "broken"} /\ e.kind = k
  \/ e.event = "stalled" /\ k = Timeout

Completed(e) == e.event \in {"connected", "ended"}
Answered(e, s) == e.event \in {"ended", "stalled"} /\ e.status = s

(* The attempts so far that ended so.                                      *)
CompletedAt == {i \in DOMAIN seen : Completed(seen[i])}
FailedAt(k) == {i \in DOMAIN seen : FailedBy(seen[i], k)}
AnsweredAt(s) == {i \in DOMAIN seen : Answered(seen[i], s)}
ResponseAt == {i \in DOMAIN seen : seen[i].event \in {"ended", "stalled"}}

(* At every moment of the loop the aggregates are exact: each attempt so   *)
(* far is in one bucket, its own, and the status of an answered one is     *)
(* counted even when its body stalled.                                     *)
CountsAreExact ==
  /\ successes = Cardinality(CompletedAt)
  /\ Len(latency) = successes
  /\ \A k \in Kind : failures[k] = Cardinality(FailedAt(k))
  /\ \A s \in Status : statuses[s] = Cardinality(AnsweredAt(s))

(* Two runs that met the same events print the same rows in the same       *)
(* order, whatever order their hash maps iterate in.                       *)
RowsAreCanonical ==
  result # None =>
    \A rows \in {result.failureCounts, result.statusCounts} :
      \A p, q \in DOMAIN rows : p < q =>
        \/ rows[p][2] > rows[q][2]
        \/ rows[p][2] = rows[q][2] /\ rows[p][1] < rows[q][1]

(* A reported percentile is the smallest measured time that at least p     *)
(* percent of the samples do not exceed.                                   *)
PercentilesAreNearestRank ==
  result # None /\ latency # <<>> =>
    \A p \in Percentiles :
      LET within(v) == Cardinality({i \in DOMAIN latency : latency[i] <= v})
          good == {v \in Range(latency) : 100 * within(v) >= p * Len(latency)}
      IN /\ result.latency.percentile[p] \in good
         /\ \A v \in good : result.latency.percentile[p] <= v

(* A destination that meets the flags did what they say: with a rate, at   *)
(* least that share of its attempts ran to completion; with a status set,  *)
(* something answered and nothing that answered is outside the set; with   *)
(* both and rate 1, every attempt was a complete response in the set.      *)
ExpectationMeansIt ==
  verdict = "met" =>
    /\ expect.rate # None =>
         /\ attempts > 0
         /\ Cardinality(CompletedAt) * expect.rate[2] >= expect.rate[1] * attempts
    /\ expect.status # None =>
         /\ ResponseAt # {}
         /\ \A i \in ResponseAt : seen[i].status \in expect.status
    /\ expect.status # None /\ expect.rate = <<1, 1>> =>
         \A i \in DOMAIN seen : Completed(seen[i]) /\ seen[i].status \in expect.status

=============================================================================
