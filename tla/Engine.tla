-------------------------------- MODULE Engine --------------------------------
(***************************************************************************)
(* The diagnostic engine of src/diagnostics over the evidence diagnose_one *)
(* collects.  Every address of a host is in some condition; each phase of  *)
(* the run observes it afresh and keeps what that layer can see of it; the *)
(* engine then sees the observations only, and must say what is wrong.     *)
(*                                                                         *)
(* Left out of a verdict: severity, confidence, wording and the mundane    *)
(* causes it lists.  Left out of the evidence: whatever no rule reads.     *)
(* --plain is the subject of DiagnoseSweep.  Where the two modules have a  *)
(* like thing, the one here says that it is the engine's: DiagnoseProofs   *)
(* is about both.                                                          *)
(***************************************************************************)
EXTENDS Sorting

CONSTANTS
  Address,     \* addresses, in the order of SocketAddr
  IPv4,        \* those of the IPv4 family; the others are IPv6
  Hosts,       \* the hosts considered: a condition for each of their addresses
  Resolver,    \* the system resolver, --server, --doh, --dot
  Resolutions  \* what the resolvers asked answer: some of AnswerShape each

AnswerShape == {"every-address", "one-address", "no-address", "failure"}

ASSUME AddressAssumption == Address \subseteq Nat /\ IPv4 \subseteq Address
ASSUME ResolutionsAssumption ==
  \A answer \in Resolutions :
    /\ DOMAIN answer \subseteq Resolver
    /\ \A r \in DOMAIN answer : answer[r] \in AnswerShape
    /\ DOMAIN answer = {} \/ \E r \in DOMAIN answer : answer[r] = "every-address"

VARIABLES
  condition,  \* of each address of the pool
  insecure,   \* --insecure: certificates are not validated
  dns, tcp, tls, http, probes,  \* the evidence, as in DiagnosticInput
  phase,      \* the next thing diagnose_one does
  out         \* the verdicts, in the order they were raised

world == <<condition, insecure>>
engineVars == <<condition, insecure, dns, tcp, tls, http, probes, phase, out>>

pool == DOMAIN condition

Local == {"no-route", "denied"}      \* the host's own stack refuses to send
OnPath == {"silent", "refused", "reset"}
Invalid == {"expired", "not-yet-valid", "no-names", "wrong-name"}
OfCertificate == Invalid \cup {"expiring"}
Unsteady == {"flaky", "flapping", "slow"}
OfHttp == {"erring", "redirecting", "hung", "garbled", "stalling", "split"}
Benign == {"fine", "no-HTTP/2"}
Condition == Local \cup OnPath \cup {"no-TLS", "no-QUIC"} \cup OfCertificate
               \cup OfHttp \cup Unsteady \cup Benign

ASSUME HostsAssumption ==
  \A h \in Hosts :
    /\ DOMAIN h \in (SUBSET Address) \ {{}} /\ IsFiniteSet(DOMAIN h)
    /\ \A a \in DOMAIN h : h[a] \in Condition

Protocol == {"HTTP/1.1", "HTTP/2", "HTTP/3"}
OK == "ok"

-----------------------------------------------------------------------------
(* What a fresh attempt at a layer may meet.  Every probe opens its own    *)
(* connection, so it inherits the troubles of the layers below.            *)

Connects(a) ==
  CASE condition[a] = "no-route" -> {"NetworkUnreachable"}
    [] condition[a] = "denied" -> {"HostUnreachable"}
    [] condition[a] = "silent" -> {"Timeout"}
    [] condition[a] = "refused" -> {"ConnectionRefused"}
    [] condition[a] = "reset" -> {"ConnectionReset"}
    [] condition[a] = "flaky" -> {OK, "Timeout"}
    [] OTHER -> {OK}

(* A handshake that stalls is a TlsHandshake failure, not a Timeout.       *)
Shakes(a) ==
  CASE condition[a] = "no-TLS" -> {"TlsHandshake"}
    [] condition[a] \in Invalid /\ ~insecure -> {"Certificate"}
    [] condition[a] = "flaky" -> Connects(a) \cup {"TlsHandshake"}
    [] OTHER -> Connects(a)

(* HTTP/3 does not depend on the TCP port: where that is filtered, UDP may *)
(* still get through.  Certificate trouble is part of the QUIC handshake.  *)
ShakesQuic(a) ==
  CASE condition[a] \in Local -> {"Timeout"}
    [] condition[a] \in OnPath \cup {"flaky"} -> {OK, "Timeout"}
    [] condition[a] \in {"no-TLS", "no-QUIC"} -> {"Quic", "Timeout"}
    [] condition[a] \in Invalid /\ ~insecure -> {"Quic"}
    [] OTHER -> {OK}

Failed(kind) == [failure |-> kind, status |-> 0, body |-> "none"]
Response(status) == [failure |-> OK, status |-> status, body |-> "read"]
Truncated == [failure |-> OK, status |-> 200, body |-> "truncated"]

Answers(a, p) ==
  CASE condition[a] = "erring" -> {Response(503)}
    [] condition[a] = "redirecting" -> {Response(302)}
    [] condition[a] = "hung" -> {Failed("Timeout")}
    [] condition[a] = "garbled" -> {Failed("Http")}
    [] condition[a] = "stalling" -> {Truncated}
    [] condition[a] = "split" /\ p = "HTTP/2" -> {Response(503)}
    [] condition[a] = "flapping" -> {Response(200), Response(503)}
    [] condition[a] = "no-HTTP/2" /\ p = "HTTP/2" -> {Failed("TlsHandshake")}
    [] OTHER -> {Response(200)}

Exchanges(a, p) ==
  LET shakes == IF p = "HTTP/3" THEN ShakesQuic(a) ELSE Shakes(a)
  IN {Failed(k) : k \in shakes \ {OK}}
       \cup (IF OK \in shakes THEN Answers(a, p) ELSE {})

(* A certificate is seen only when the handshake completes.                *)
Certificate(a, result) ==
  IF result # OK THEN "none"
  ELSE IF condition[a] \in OfCertificate THEN condition[a] ELSE "valid"

(* The two ProbeResults of an address: the TCP repeat and the HTTP/1.1     *)
(* repeat.  `tail` stands for p95 >= 3 * max(p50, 1).  No rule reads the   *)
(* statuses of a row with failures, so these are dropped.  --count is at   *)
(* least 3, its default: with fewer attempts some rules only keep quiet.   *)
Outcomes(good, bad) ==
  IF good /\ bad THEN {"all", "some", "none"}
  ELSE IF good THEN {"all"} ELSE {"none"}

Tails(a) == IF condition[a] \in {"slow", "flapping"} THEN BOOLEAN ELSE {FALSE}

Rows(a, outcomes, statuses) ==
  {r \in [at : {a}, ok : outcomes, statuses : statuses \cup {{}}, tail : Tails(a)] :
     IF r.ok = "all" THEN r.statuses \in statuses
                     ELSE r.statuses = {} /\ ~r.tail}

TcpRepeat(a) ==
  Rows(a, Outcomes(OK \in Connects(a), Connects(a) # {OK}), {{}})

HttpRepeat(a) ==
  LET all == Exchanges(a, "HTTP/1.1")
      good == {e \in all : e.failure = OK /\ e.body = "read"}
  IN Rows(a, Outcomes(good # {}, good # all),
          (SUBSET {e.status : e \in good}) \ {{}})

-----------------------------------------------------------------------------
(* The rules.  Each returns the verdicts it pushes, in order.  A verdict   *)
(* names the addresses its summary or evidence names, if it names any.     *)

Diagnosis(category, cause, at) == [category |-> category, cause |-> cause, at |-> at]

Raise(test, category, cause, at) ==
  IF test THEN <<Diagnosis(category, cause, at)>> ELSE <<>>

(* A loop over numbered rows with a verdict on each, and a list of what    *)
(* was already reported.  Mutant: the list is not consulted.               *)
Each(verdict) ==
  LET at == Ascending(DOMAIN verdict) IN [k \in DOMAIN at |-> verdict[at[k]]]

OncePerCause(verdict) ==
  Each([i \in {i \in DOMAIN verdict :
                 \A j \in DOMAIN verdict : j < i => verdict[j] # verdict[i]} |->
          verdict[i]])

InTurn == Ascending(pool)

Lookups == {r \in dns : r.type \in {"A", "AAAA"}}
Answered(r) == UNION {row.records : row \in {l \in Lookups : l.resolver = r}}

(* Different resolvers gave different sets of addresses; one that gave     *)
(* none takes no part.                                                     *)
Disagreement ==
  Cardinality({Answered(l.resolver) : l \in Lookups} \ {{}}) > 1

DnsRules ==
  LET failed == {l \in Lookups : l.failed}
  IN IF failed # {} /\ failed = Lookups
     THEN Raise(TRUE, "Dns", "resolution-failed", {})
     ELSE Raise(Disagreement, "Dns", "resolvers-disagree", {})

Reached == {a \in pool : tcp[a] = OK}
Unreached == pool \ Reached
LocalKinds == {"NetworkUnreachable", "HostUnreachable"}

(* Mutant: one local failure silences the others.                          *)
AnyLocal == \E a \in Unreached : tcp[a] \in LocalKinds

AllLocal == \A a \in Unreached : tcp[a] \in LocalKinds

ConnectivityRules ==
  IF Unreached = {} \/ AllLocal THEN <<>>
  ELSE IF Reached = {}
  THEN Raise(TRUE, "TotalConnectivityLoss", "none-reachable", Unreached)
  ELSE Raise(TRUE, "PartialConnectivity", "some-unreachable", Unreached)

(* One family reached and the other not; or one family only, without a     *)
(* route.                                                                  *)
FamilyRules ==
  LET v4 == pool \cap IPv4
      v6 == pool \ IPv4
      reached(family) == family \cap Reached # {}
  IN IF v4 # {} /\ v6 # {}
     THEN Raise(reached(v4) # reached(v6), "AddressFamily", "one-family-fails",
                IF reached(v4) THEN v6 ELSE v4)
     ELSE Raise(Reached = {} /\ AllLocal, "AddressFamily", "no-route", pool)

TlsFailing == {a \in Reached : tls[a].result # OK}

TlsLayerRules ==
  Raise(TlsFailing # {}, "Tls", "handshake-fails", TlsFailing)

(* A certificate names no address: the same one may be served by several.  *)
CertificateRules(faults) ==
  LET of(i) == tls[InTurn[i]].certificate
      rows == {i \in DOMAIN InTurn : of(i) \in faults}
  IN OncePerCause([i \in rows |-> Diagnosis("Certificate", of(i), {})])

CertificateLifetimeRules ==
  CertificateRules({"expired", "not-yet-valid", "expiring"})

CertificateCoverageRules ==
  CertificateRules({"no-names", "wrong-name"})

(* The kinds of failure that count as an error of HTTP itself on a row.    *)
(* Mutant: every failure does, whichever layer owns it.                    *)
AnyFailure(p, kind) == kind # OK

OwnFailure(p, kind) ==
  IF p = "HTTP/3" THEN kind \in {"Http", "Protocol"}
  ELSE kind \notin {OK, "Quic", "TlsHandshake", "Certificate"}

HttpFailing ==
  {a \in pool : \E p \in Protocol :
     \/ OwnFailure(p, http[<<a, p>>].failure) /\ a \in Reached
     \/ http[<<a, p>>].status >= 400}

HttpLayerRules ==
  Raise(HttpFailing # {}, "Http", "error", HttpFailing)

Completed == {r \in pool \X Protocol : http[r].failure = OK}

RedirectRules ==
  LET redirected == {a \in pool : \E p \in Protocol :
                       <<a, p>> \in Completed /\
                       http[<<a, p>>].status \in {301, 302, 303, 307, 308}}
  IN Raise(redirected # {}, "Http", "redirect", redirected)

Content(status) == status \in 200..299
Served(rows) == \E r \in rows : Content(http[r].status)
Differ(rows) == Served(rows) /\ \E r \in rows : ~Content(http[r].status)

(* Three ways in which completed responses may disagree on their class:    *)
(* over two protocols of an address, between the families as a whole, and  *)
(* between two addresses of a family over one protocol.                    *)
HttpConsistencyRules ==
  LET of(family) == {r \in Completed : r[1] \in family}
      v4 == of(IPv4)
      v6 == of(Address \ IPv4)
      peers(r) == {q \in Completed : q[2] = r[2] /\ (q[1] \in IPv4 <=> r[1] \in IPv4)}
  IN Raise(\E a \in pool : Differ(of({a})), "Http", "protocols-differ", {})
     \o Raise(v4 # {} /\ v6 # {} /\ Served(v4) # Served(v6),
              "Http", "families-differ", {})
     \o Raise(\E r \in Completed : Differ(peers(r)), "Http", "addresses-differ", {})

TruncatedBodyRules ==
  LET truncated == {a \in pool : \E p \in Protocol :
                      <<a, p>> \in Completed /\ http[<<a, p>>].body = "truncated"}
  IN Raise(truncated # {}, "Http", "truncated", truncated)

QuicRows == pool \X {"HTTP/3"}

QuicRules ==
  Raise(/\ QuicRows \cap Completed = {}
        /\ \E r \in Completed : http[r].status < 400,
        "Quic", "QUIC-fails", {})

RepeatRules(rows, cause) ==
  OncePerCause([i \in rows |-> Diagnosis("Intermittent", cause, {probes[i].at})])

IntermittentRules ==
  RepeatRules({i \in DOMAIN probes : probes[i].ok = "some"}, "intermittent")

StatusFlaps(row) ==
  /\ row.ok = "all"
  /\ \E s \in row.statuses : Content(s)
  /\ \E s \in row.statuses : ~Content(s)

HttpStatusFlappingRules ==
  RepeatRules({i \in DOMAIN probes : StatusFlaps(probes[i])}, "status-flaps")

(* Failures are excluded, a changing status is not.                        *)
LatencyInstabilityRules ==
  RepeatRules({i \in DOMAIN probes : probes[i].ok = "all" /\ probes[i].tail},
              "latency-unstable")

(* The signals of filtering_rules that are up.  Where TCP failed on the    *)
(* path, a row that fails intermittently is the same cause again.          *)
PathFailing == {a \in Unreached : tcp[a] \notin LocalKinds}

Signals ==
  (IF Disagreement THEN {"disagreement"} ELSE {})
  \cup (IF PathFailing # {} /\ Reached # {} THEN {"address-specific"} ELSE {})
  \cup (IF \E a \in pool : tcp[a] = "ConnectionReset" THEN {"reset"} ELSE {})
  \cup (IF TlsFailing # {} THEN {"tls"} ELSE {})
  \cup (IF QuicRows \cap Completed = {} /\ Completed # {} THEN {"quic-only"} ELSE {})
  \cup (IF \E i \in DOMAIN probes :
             probes[i].ok = "some" /\ probes[i].at \notin PathFailing
        THEN {"repeated"} ELSE {})

FilteringRules ==
  Raise(Cardinality(Signals) >= 2, "PossibleNetworkFiltering", "filtering", {})

Healthy == [category |-> "Healthy", cause |-> "healthy", at |-> {}]

Rules ==
  DnsRules \o ConnectivityRules \o FamilyRules \o TlsLayerRules
  \o CertificateLifetimeRules \o CertificateCoverageRules \o HttpLayerRules
  \o RedirectRules \o HttpConsistencyRules \o TruncatedBodyRules \o QuicRules
  \o IntermittentRules \o HttpStatusFlappingRules \o LatencyInstabilityRules
  \o FilteringRules

-----------------------------------------------------------------------------
(* --insecure is tried where there is a certificate to doubt.              *)
EngineInit ==
  /\ condition \in Hosts
  /\ insecure \in {FALSE, \E a \in pool : condition[a] \in OfCertificate}
  /\ dns = {} /\ tcp = <<>> /\ tls = <<>> /\ http = <<>> /\ probes = <<>>
  /\ phase = "resolve"
  /\ out = <<>>

(* The ways in which each address may yield one of its own results.        *)
OnePerAddress(of) ==
  {f \in [pool -> UNION {of[a] : a \in pool}] : \A a \in pool : f[a] \in of[a]}

LookupRow(r, type, failed, records) ==
  [resolver |-> r, type |-> type, failed |-> failed, records |-> records]

Records(shape) ==
  CASE shape = "every-address" -> pool
    [] shape = "one-address" -> {InTurn[1]}
    [] OTHER -> {}

LookupsOf(type, answer, family) ==
  {LookupRow(r, type, answer[r] = "failure", Records(answer[r]) \cap family) :
     r \in DOMAIN answer}

(* A host is a literal, of which nothing is looked up, or a name whose     *)
(* addresses some resolver knows.  With --reverse on a literal there is a  *)
(* PTR row, which most often is a failure.                                 *)
ResolveHost ==
  /\ phase = "resolve"
  /\ \E answer \in Resolutions, reverse \in BOOLEAN :
       /\ DOMAIN answer = {} => Cardinality(pool) = 1
       /\ reverse => DOMAIN answer = {}
       /\ dns' = LookupsOf("A", answer, IPv4) \cup LookupsOf("AAAA", answer, Address \ IPv4)
                   \cup (IF reverse THEN {LookupRow("system", "PTR", TRUE, {})} ELSE {})
  /\ phase' = "tcp"
  /\ UNCHANGED <<world, tcp, tls, http, probes, out>>

ProbeTcp ==
  /\ phase = "tcp"
  /\ tcp' \in OnePerAddress([a \in pool |-> Connects(a)])
  /\ phase' = "tls"
  /\ UNCHANGED <<world, dns, tls, http, probes, out>>

ProbeTls ==
  /\ phase = "tls"
  /\ \E result \in OnePerAddress([a \in pool |-> Shakes(a)]) :
       tls' = [a \in pool |-> [result |-> result[a],
                               certificate |-> Certificate(a, result[a])]]
  /\ phase' = "HTTP/1.1"
  /\ UNCHANGED <<world, dns, tcp, http, probes, out>>

After(p) ==
  IF p = "HTTP/1.1" THEN "HTTP/2" ELSE IF p = "HTTP/2" THEN "HTTP/3" ELSE "repeat"

ProbeHttp(p) ==
  /\ phase = p
  /\ \E answer \in OnePerAddress([a \in pool |-> Exchanges(a, p)]) :
       http' = [r \in DOMAIN http \cup (pool \X {p}) |->
                  IF r[2] = p THEN answer[r[1]] ELSE http[r]]
  /\ phase' = After(p)
  /\ UNCHANGED <<world, dns, tcp, tls, probes, out>>

Repeat ==
  /\ phase = "repeat"
  /\ \E t \in OnePerAddress([a \in pool |-> TcpRepeat(a)]),
        h \in OnePerAddress([a \in pool |-> HttpRepeat(a)]) :
       probes' = [i \in 1..2 * Len(InTurn) |->
                    LET a == InTurn[(i + 1) \div 2] IN IF i % 2 = 1 THEN t[a] ELSE h[a]]
  /\ phase' = "diagnose"
  /\ UNCHANGED <<world, dns, tcp, tls, http, out>>

Conclude ==
  /\ phase = "diagnose"
  /\ out' = IF Rules = <<>> THEN <<Healthy>> ELSE Rules
  /\ phase' = "done"
  /\ UNCHANGED <<world, dns, tcp, tls, http, probes>>

Done == phase = "done" /\ UNCHANGED engineVars

EngineNext ==
  \/ ResolveHost \/ ProbeTcp \/ ProbeTls
  \/ \E p \in Protocol : ProbeHttp(p)
  \/ Repeat \/ Conclude \/ Done

EngineSpec == EngineInit /\ [][EngineNext]_engineVars

-----------------------------------------------------------------------------
TcpOutcome ==
  {OK, "Timeout", "ConnectionRefused", "ConnectionReset"} \cup LocalKinds

Category == {"Dns", "TotalConnectivityLoss", "PartialConnectivity", "AddressFamily",
             "Tls", "Certificate", "Http", "Quic", "Intermittent",
             "PossibleNetworkFiltering", "Healthy"}

Cause == {"resolution-failed", "resolvers-disagree", "none-reachable",
          "some-unreachable", "one-family-fails", "no-route", "handshake-fails",
          "error", "redirect", "protocols-differ", "families-differ",
          "addresses-differ", "truncated", "QUIC-fails", "intermittent",
          "status-flaps", "latency-unstable", "filtering", "healthy"} \cup OfCertificate

Verdict == [category : Category, cause : Cause, at : SUBSET Address]

(* The protocols the host was asked by so far.                             *)
Asked ==
  IF phase \in {"resolve", "tcp", "tls", "HTTP/1.1"} THEN {}
  ELSE IF phase = "HTTP/2" THEN {"HTTP/1.1"}
  ELSE IF phase = "HTTP/3" THEN {"HTTP/1.1", "HTTP/2"}
  ELSE Protocol

(* Evidence has one row per address and layer, phase after phase: what     *)
(* diagnose_one hands the engine is always complete.                       *)
EngineTypeOK ==
  /\ condition \in Hosts
  /\ insecure \in BOOLEAN
  /\ \A l \in dns : l.records \subseteq pool
  /\ phase \in {"resolve", "tcp", "tls", "repeat", "diagnose", "done"} \cup Protocol
  /\ phase \notin {"resolve", "tcp"} => tcp \in [pool -> TcpOutcome]
  /\ phase \notin {"resolve", "tcp", "tls"} => DOMAIN tls = pool
  /\ DOMAIN http = pool \X Asked
  /\ phase \in {"diagnose", "done"} => Len(probes) = 2 * Cardinality(pool)
  /\ out \in Seq(Verdict) /\ (phase = "done" <=> out # <<>>)

Raised == {out[i] : i \in DOMAIN out}

(* The conditions that may be behind a verdict.  Without --insecure a      *)
(* certificate that does not validate is a failed handshake; with it, a    *)
(* verdict on the certificate.                                             *)
Refusing == IF insecure THEN {} ELSE Invalid

Explains(c, cause) ==
  \/ /\ cause \in {"none-reachable", "some-unreachable", "one-family-fails"}
     /\ c \in Local \cup OnPath \cup {"flaky"}
  \/ cause = "no-route" /\ c \in Local
  \/ cause = "handshake-fails" /\ c \in {"no-TLS", "flaky"} \cup Refusing
  \/ cause = c /\ c \in OfCertificate \ Refusing
  \/ cause = "error" /\ c \in {"erring", "hung", "garbled", "split", "flapping", "flaky"}
  \/ cause = "redirect" /\ c = "redirecting"
  \/ cause = "protocols-differ" /\ c \in {"split", "flapping"}
  \/ /\ cause \in {"families-differ", "addresses-differ"}
     /\ c \in {"erring", "redirecting", "split", "flapping"}
  \/ cause = "truncated" /\ c = "stalling"
  \/ /\ cause = "QUIC-fails"
     /\ c \in {"no-QUIC", "no-TLS", "hung", "garbled", "flaky"}
                \cup OnPath \cup Local \cup Refusing
  \/ cause = "intermittent" /\ c = "flaky"
  \/ cause = "status-flaps" /\ c = "flapping"
  \/ cause = "latency-unstable" /\ c \in {"slow", "flapping"}

Suspected(cause, addresses) == {a \in addresses : Explains(condition[a], cause)}

(* The independent troubles of a host that may look like filtering.  A     *)
(* flaky address is one, in whichever probes it fails; a reset is two, the *)
(* address and the reset (arguably_two_signals_yield_low_confidence of     *)
(* filtering.rs).                                                          *)
Trouble == {"disagreement", "path", "reset", "handshake", "quic", "flaky"}

Troubled(c, trouble) ==
  \/ trouble = "path" /\ c \in OnPath
  \/ trouble = "reset" /\ c = "reset"
  \/ trouble = "handshake" /\ c \in {"no-TLS"} \cup Refusing
  \/ trouble = "quic" /\ c = "no-QUIC"
  \/ trouble = "flaky" /\ c = "flaky"

Troubles ==
  {t \in Trouble : \/ t = "disagreement" /\ Disagreement
                  \/ \E a \in pool : Troubled(condition[a], t)}

(* A flaky address is counted once if its TCP probe failed and QUIC works  *)
(* somewhere.  If not, its signals may be several: a failed handshake,     *)
(* HTTP/3 beside a response over TCP, some of the repeats.                 *)
FlakyCountedOnce ==
  \A a \in pool : condition[a] = "flaky" =>
    a \in Unreached /\ QuicRows \cap Completed # {}

(* What must be so for a verdict of its kind to be raised.                 *)
Warranted(v) ==
  /\ v.category = "Dns" => v.cause = "resolvers-disagree" /\ Disagreement
  /\ v.category = "PossibleNetworkFiltering" /\ FlakyCountedOnce =>
       Cardinality(Troubles) >= 2
  /\ v.category = "Quic" => Suspected(v.cause, pool) = pool
  /\ v.category \notin {"Dns", "PossibleNetworkFiltering"} /\ v.at = {} =>
       Suspected(v.cause, pool) # {}
  /\ v.at # {} => Suspected(v.cause, v.at) = v.at
  /\ v.category \in {"TotalConnectivityLoss", "PartialConnectivity"} =>
       \E a \in v.at : condition[a] \notin Local

(* No verdict blames what is not at fault: every address a verdict names   *)
(* is in a condition that explains it, a verdict on the host as a whole is *)
(* explained by some address (QUIC: by all), a host is not declared        *)
(* unreachable for want of a local route, a disagreement of resolvers is   *)
(* one, and filtering is not suggested on one trouble, be it seen at many  *)
(* layers, nor on one flaky address in the way that filtering_rules tells  *)
(* its signals to be one (the test                                         *)
(* filtering_does_not_double_count_one_flaky_address).  The other ways are *)
(* the subject of FilteringHasTwoCauses.                                   *)
BlameIsWarranted ==
  \A v \in Raised : IF v.category = "Healthy" THEN Raised = {v} ELSE Warranted(v)

(* The verdicts by which a condition that shows in every probe may be      *)
(* reported.                                                               *)
ReportedAs(cause, c) ==
  \/ cause \in {"none-reachable", "some-unreachable"} /\ c \in OnPath
  \/ cause = "handshake-fails" /\ c \in {"no-TLS"} \cup Refusing
  \/ cause = c /\ c \in OfCertificate \ Refusing
  \/ cause = "error" /\ c \in {"erring", "hung", "garbled", "split"}
  \/ cause = "redirect" /\ c = "redirecting"
  \/ cause = "truncated" /\ c = "stalling"

(* A lasting fault is never lost: whatever else is wrong with the host, it *)
(* is reported at its own layer, and by a verdict that names its address   *)
(* if it names any.  Not so a fault of the local routing (see below), of   *)
(* QUIC (only if QUIC fails everywhere and HTTP succeeds somewhere), or    *)
(* one that comes and goes.                                                *)
FaultsAreReported ==
  phase = "done" =>
    \A a \in pool : condition[a] \in OnPath \cup {"no-TLS"} \cup OfCertificate \cup OfHttp =>
      \E v \in Raised : ReportedAs(v.cause, condition[a]) /\ (v.at = {} \/ a \in v.at)

(* One cause, one verdict: never two verdicts on the same cause and        *)
(* address, though a certificate is seen at every address and a flaky      *)
(* address in two rows of repeats.                                         *)
NoStackedVerdicts == \A i, j \in DOMAIN out : out[i] = out[j] => i = j

(* The comment at the total-loss branch of connectivity_rules: where every *)
(* address fails for want of a local route it stays quiet, for "the        *)
(* address-family rule reports that local condition instead".              *)
LocalUnreachabilityIsReported ==
  phase = "done" /\ Reached = {} /\ AllLocal =>
    \E v \in Raised : v.category = "AddressFamily"

(* The comment in filtering_rules, "the same unreliable path is one cause, *)
(* not two", and the head of mod.rs, "only [...] when several independent  *)
(* signals align": a host with one trouble, one flaky address included, is *)
(* never suspected of being filtered.                                      *)
FilteringHasTwoCauses ==
  \A v \in Raised :
    v.category = "PossibleNetworkFiltering" => Cardinality(Troubles) >= 2

=============================================================================
