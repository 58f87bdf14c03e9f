---------------------------- MODULE LayeredProbe ----------------------------
(***************************************************************************)
(* One probe of one address, layer by layer: tcp::probe, tls::probe, the   *)
(* cleartext, HTTP/1.1, HTTP/2 and HTTP/3 probes, and the queries of an    *)
(* encrypted resolver (doh_query and dot_query of src/dns.rs).             *)
(*                                                                         *)
(* A probe is a list of steps.  A timed step waits for the peer under a    *)
(* timer of its own, of the whole --timeout; the others are computed at    *)
(* once.  The first step that fails ends the probe with an observation     *)
(* that names the failure.  The body is the one step that takes many       *)
(* events: its frames arrive one by one, and all under one timer.          *)
(***************************************************************************)
EXTENDS ProbeRequest, Sequences, FiniteSetsExt

CONSTANTS
  Timeout,      \* --timeout, in units of the model's clock
  SnippetMax,   \* BODY_SNIPPET_BYTES
  MaxFrame,     \* bound of the model: bytes in a body frame
  MaxBody,      \* bound of the model: bytes in a body
  FlagSets      \* bound of the model: the sets of flags considered

ASSUME TimeoutAssumption == Timeout \in Nat \ {0}
ASSUME SnippetAssumption == SnippetMax \in Nat
ASSUME BodyAssumption == MaxFrame \in Nat /\ MaxBody \in Nat

VARIABLES
  line,      \* the command line
  plan,      \* the probe that runs, None before it
  at,        \* the step it is at, counted from 1
  now,       \* the clock, 0 when the probe starts
  until,     \* when the timer of the current step fires
  upAt,      \* when the TLS or QUIC handshake completed, or None
  peer,      \* what the peer presented in it, or None
  read,      \* bytes_read
  snippet,   \* length of the snippet
  kept,      \* length of full_body
  sent,      \* history: the bytes of the body that arrived
  obs        \* the observation, None before it

vars == <<line, plan, at, now, until, upAt, peer, read, snippet, kept, sent, obs>>

Bytes == <<read, snippet, kept, sent>>

-----------------------------------------------------------------------------
(* The steps of each probe, in order.                                      *)
Connection == <<"connect", "name", "tls">>

Http1Steps == <<"setup", "build", "response", "body">>

Http2Steps == <<"setup", "build", "enqueue", "response", "body">>

Http3Steps(body) ==
  <<"endpoint", "dial", "quic", "setup", "build", "send">>
    \o (IF body THEN <<"upload">> ELSE <<>>) \o <<"finish", "response", "body">>

Locating == <<"locate", "lookup4", "lookup6", "query">>

DohSteps == Locating \o Connection \o <<"setup", "build", "response", "collect", "judge">>

DotSteps == Locating \o Connection \o <<"frame", "write", "header", "answer", "judge">>

Steps(p) ==
  CASE p.kind = "tcp" -> <<"connect">>
    [] p.kind = "tls" -> Connection
    [] p.kind = "plain" -> <<"connect">> \o Http1Steps
    [] p.kind = "http" -> Connection \o Http1Steps
    [] p.kind = "http2" -> Connection \o Http2Steps
    [] p.kind = "http3" -> Http3Steps(p.body)
    [] p.kind = "doh" -> DohSteps
    [] p.kind = "dot" -> DotSteps

(* The steps under a timer.  Mutant: the QUIC handshake has none.          *)
TimedButQuic ==
  {"connect", "tls", "setup", "response", "body", "send", "upload", "finish",
   "lookup4", "lookup6", "collect", "write", "header", "answer"}

Timed ==
  {"connect", "tls", "quic", "setup", "response", "body", "send", "upload",
   "finish", "lookup4", "lookup6", "collect", "write", "header", "answer"}

(* The steps that need nothing of the peer.                                *)
Local ==
  {"name", "build", "enqueue", "endpoint", "dial", "locate", "query", "frame", "judge"}

Handshake == {"tls", "quic"}

(* The kinds classify_io_error gives a connect error; a TCP connection may *)
(* itself time out before --timeout.                                       *)
ConnectKinds ==
  {"connection_refused", "connection_reset", "timeout", "network_unreachable",
   "host_unreachable", "other"}

(* A certificate that is not trusted, or a signature in the handshake that *)
(* does not verify: the latter with --insecure too.                        *)
TlsKinds == {"certificate", "tls_handshake"}

(* The failures a step may end the probe with.                             *)
Fails(p, s) ==
  CASE s = "connect" -> ConnectKinds
    [] s \in {"name", "build", "query", "frame"} -> {"protocol"}
    [] s = "tls" -> TlsKinds
    [] s \in {"dial", "quic"} -> {"quic"}
    [] s = "endpoint" -> {"other"}
    [] s = "locate" -> {"other", "dns"}
    [] s = "lookup4" -> {}
    [] s \in {"lookup6", "write", "header", "answer", "collect", "judge"} -> {"dns"}
    [] OTHER -> IF p.kind \in {"doh", "dot"} THEN {"dns"} ELSE {"http"}

(* The failure of a step whose timer fired: a TLS handshake that stalls is *)
(* a failure of the TLS layer.  Mutant: it is a timeout like any other.    *)
ExpiresGenerically(s) == IF s = "lookup6" THEN "dns" ELSE "timeout"

Expires(s) ==
  CASE s = "tls" -> "tls_handshake"
    [] s = "lookup6" -> "dns"
    [] OTHER -> "timeout"

-----------------------------------------------------------------------------
Running == plan # None /\ obs = None
Step == Steps(plan)[at]

(* An observation without a response: with_failure keeps nothing of what   *)
(* the steps before it saw, not even of headers that had arrived.          *)
Failure(k) ==
  [failure |-> k, tls |-> None, headers |-> FALSE, bytes |-> None,
   capped |-> FALSE, snippet |-> 0, more |-> FALSE, file |-> 0, latency |-> None]

(* What is observed of a handshake.  tls.rs takes its latency as it ends,  *)
(* http3.rs computes it along with the observation.                        *)
Handshaken(presented, end) ==
  IF presented = None \/ plan.kind \in {"doh", "dot"} THEN None
  ELSE [version |-> presented.version, trusted |-> presented.trusted,
        latency |-> IF plan.kind = "http3" THEN now ELSE end]

(* What a probe that ran to its end observes.  After a response there is   *)
(* more: bytes is None for a body that did not complete.                   *)
Complete(tls) ==
  [failure |-> None, tls |-> tls, headers |-> FALSE, bytes |-> None,
   capped |-> FALSE, snippet |-> 0, more |-> FALSE, file |-> 0, latency |-> now]

Response(ended, capped, r, sn, k) ==
  [Complete(Handshaken(peer, upAt)) EXCEPT
     !.headers = TRUE,
     !.bytes = IF ended THEN r ELSE None,
     !.capped = capped,
     !.snippet = sn,
     !.more = r > sn,
     !.file = k]

-----------------------------------------------------------------------------
Init ==
  /\ line \in CommandLines(FlagSets)
  /\ plan = None
  /\ at = 1
  /\ now = 0
  /\ until = 0
  /\ upAt = None
  /\ peer = None
  /\ read = 0 /\ snippet = 0 /\ kept = 0 /\ sent = 0
  /\ obs = None

(* The command fixes what to probe and how.                                *)
Dispatch ==
  /\ plan = None
  /\ ~Refused(line)
  /\ plan' = Plan(line)
  /\ until' = now + Timeout
  /\ UNCHANGED <<line, at, now, upAt, peer, Bytes, obs>>

(* The command line is refused, and nothing is probed.                     *)
Refuse ==
  /\ plan = None
  /\ Refused(line)
  /\ UNCHANGED vars

(* On to the step i places further, under a new timer; after the last one  *)
(* the observation.                                                        *)
Go(i) ==
  IF at + i > Len(Steps(plan))
  THEN /\ obs' = Complete(Handshaken(peer', upAt'))
       /\ UNCHANGED <<at, until>>
  ELSE /\ at' = at + i
       /\ until' = now + Timeout
       /\ UNCHANGED obs

(* A step that waits for the peer, other than for handshake or body,       *)
(* succeeds.  The lookup of an IPv4 address spares that of an IPv6 one.    *)
Answered ==
  /\ Running
  /\ Step \in Timed \ (Handshake \cup {"body"})
  /\ UNCHANGED <<line, plan, now, upAt, peer, Bytes>>
  /\ Go(IF Step = "lookup4" THEN 2 ELSE 1)

(* A handshake succeeds: in a version that was offered, and with a         *)
(* certificate that is trusted unless nobody looks.                        *)
Secured(version, trusted) ==
  /\ Running
  /\ Step \in Handshake
  /\ version \in plan.offered
  /\ trusted \/ plan.insecure
  /\ upAt' = now
  /\ peer' = [version |-> version, trusted |-> trusted]
  /\ Go(1)
  /\ UNCHANGED <<line, plan, now, Bytes>>

(* A step computed at once succeeds.  An endpoint that is an address needs *)
(* no lookup.                                                              *)
Computed ==
  /\ Running
  /\ Step \in Local
  /\ UNCHANGED <<line, plan, now, upAt, peer, Bytes>>
  /\ \E i \in IF Step = "locate" THEN {1, 3} ELSE {1} : Go(i)

(* A step fails, and with it the probe.                                    *)
FailsWith(k) ==
  /\ Running
  /\ k \in Fails(plan, Step)
  /\ obs' = Failure(k)
  /\ UNCHANGED <<line, plan, at, now, until, upAt, peer, Bytes>>

(* The lookup of an IPv4 address for the endpoint finds none, for whatever *)
(* reason: the next one is tried.                                          *)
TryIpv6 ==
  /\ Running
  /\ Step = "lookup4"
  /\ UNCHANGED <<line, plan, now, upAt, peer, Bytes>>
  /\ Go(1)

(* The timer of a step fires before the peer did its part.  A body that    *)
(* has not ended is left at what arrived of it.                            *)
Expire ==
  /\ Running
  /\ Step \in Timed
  /\ now = until
  /\ UNCHANGED <<line, plan, now, upAt, peer, Bytes>>
  /\ IF Step = "lookup4" THEN Go(1)
     ELSE /\ obs' = IF Step = "body" THEN Response(FALSE, FALSE, read, snippet, kept)
                    ELSE Failure(Expires(Step))
          /\ UNCHANGED <<at, until>>

(* push_bounded_body: a frame is cut to what the cap leaves before it is   *)
(* kept.  Mutant: it is kept whole.                                        *)
TakeWhole(n) == n

Take(n) == Min({n, plan.cap - read})

(* The deadline of the next read of the body: the one of the whole body.   *)
(* Mutant: every frame gives the next one a timer of its own.              *)
DeadlinePerFrame == now + Timeout

BodyDeadline == until

(* A frame of the body.  It ends the probe if it reaches the cap.          *)
Frame(n) ==
  /\ Running
  /\ Step = "body"
  /\ sent + n <= MaxBody
  /\ sent' = sent + n
  /\ read' = read + Take(n)
  /\ snippet' = Min({SnippetMax, snippet + Take(n)})
  /\ kept' = kept + (IF plan.output THEN Take(n) ELSE 0)
  /\ IF read' >= plan.cap
     THEN obs' = Response(TRUE, TRUE, read', snippet', kept')
     ELSE UNCHANGED obs
  /\ until' = BodyDeadline
  /\ UNCHANGED <<line, plan, at, now, upAt, peer>>

(* The end of the body.                                                    *)
BodyEnds ==
  /\ Running
  /\ Step = "body"
  /\ obs' = Response(TRUE, FALSE, read, snippet, kept)
  /\ UNCHANGED <<line, plan, at, now, until, upAt, peer, Bytes>>

(* Time passes while a timed step waits.                                   *)
Tick ==
  /\ Running
  /\ Step \in Timed
  /\ now < until
  /\ now' = now + 1
  /\ UNCHANGED <<line, plan, at, until, upAt, peer, Bytes, obs>>

Done ==
  /\ obs # None
  /\ UNCHANGED vars

Kinds == ConnectKinds \cup TlsKinds \cup {"protocol", "quic", "dns", "http"}

Next ==
  \/ Dispatch
  \/ Refuse
  \/ Answered
  \/ \E v \in Versions, t \in BOOLEAN : Secured(v, t)
  \/ Computed
  \/ \E k \in Kinds : FailsWith(k)
  \/ TryIpv6
  \/ Expire
  \/ \E n \in 0..MaxFrame : Frame(n)
  \/ BodyEnds
  \/ Tick
  \/ Done

(* What the program does by itself happens and timers run; the peer owes   *)
(* nothing, neither an answer nor an error.                                *)
Fairness ==
  /\ WF_vars(Dispatch)
  /\ WF_vars(Computed)
  /\ WF_vars(Tick)
  /\ WF_vars(Expire)

Spec == Init /\ [][Next]_vars /\ Fairness

-----------------------------------------------------------------------------
Presented == [version : Versions, trusted : BOOLEAN]

Observations ==
  [failure : Kinds \cup {None},
   tls : [version : Versions, trusted : BOOLEAN, latency : Nat] \cup {None},
   headers : BOOLEAN, bytes : Nat \cup {None}, capped : BOOLEAN,
   snippet : Nat, more : BOOLEAN, file : Nat, latency : Nat \cup {None}]

ASSUME NoneAssumption == None \notin Nat \cup Plans \cup Presented \cup Observations

TypeOK ==
  /\ line \in CommandLines(FlagSets)
  /\ plan \in Plans \cup {None}
  /\ at \in Nat \ {0}
  /\ now \in Nat /\ until \in Nat
  /\ upAt \in Nat \cup {None}
  /\ peer \in Presented \cup {None}
  /\ read \in Nat /\ snippet \in Nat /\ kept \in Nat /\ sent \in Nat
  /\ obs \in Observations \cup {None}

-----------------------------------------------------------------------------
Passed(s) == \E i \in 1..at - 1 : Steps(plan)[i] = s
Has(s) == \E i \in DOMAIN Steps(plan) : Steps(plan)[i] = s

(* The failure an observation names is one of the layer the probe was at.  *)
(* The diagnoses read the layers off the kinds alone: an error of the      *)
(* connection means nothing answered at that address; one of TLS, that the *)
(* address was reached and no session came about; one of QUIC, no          *)
(* datagram session; an HTTP one, that everything under HTTP worked; and a *)
(* timeout is never a TLS handshake that stalled.                          *)
FailureNamesLayer ==
  obs # None /\ obs.failure # None =>
    /\ obs.failure \in ConnectKinds \ {"timeout", "other"} => upAt = None /\ ~Passed("connect")
    /\ obs.failure \in TlsKinds => Passed("connect") /\ peer = None
    /\ obs.failure = "quic" => Has("quic") /\ peer = None
    /\ obs.failure = "http" =>
         IF plan.kind = "plain" THEN Passed("connect") ELSE peer # None
    /\ obs.failure = "dns" => plan.kind \in {"doh", "dot"}
    /\ obs.failure = "timeout" =>
         \/ ~Passed("connect")
         \/ ~Has("tls")
         \/ peer # None

(* The time a probe takes is bounded by --timeout for every timer it has   *)
(* started, however the peer spreads its answers: a body that drips in is  *)
(* one read under one deadline.                                            *)
TimersStarted == Cardinality({i \in 1..at : Steps(plan)[i] \in Timed})

InBudget == plan # None => now <= Timeout * TimersStarted

(* body_bytes is a claim about the body: given without the mark of a cap,  *)
(* it is the length of a whole body; with it, the cap, and at least that   *)
(* much had arrived; and absent, the body had not ended when its time was  *)
(* up.  Snippet and file hold a beginning of what arrived, no longer than  *)
(* the cap, and the snippet says when it is not all of it.                 *)
BodyIsHonest ==
  obs # None /\ obs.headers =>
    /\ obs.bytes # None =>
         IF obs.capped THEN obs.bytes = plan.cap /\ sent >= plan.cap
         ELSE obs.bytes = sent
    /\ obs.bytes = None => now = until /\ read = sent /\ ~obs.capped
    /\ obs.snippet = Min({SnippetMax, sent, plan.cap})
    /\ obs.more <=> Min({sent, plan.cap}) > obs.snippet
    /\ obs.file = IF plan.output THEN Min({sent, plan.cap}) ELSE 0

(* What the user typed is what runs, through every wrapper: a handshake in *)
(* the version asked for, an untrusted peer only with --insecure, no more  *)
(* of a body than --max-body-bytes, a file exactly with --output-body, no  *)
(* TLS with --plain.  And no flag is accepted that the probe, or the       *)
(* resolution of its target, has no use for.                               *)
FlagsHonoured ==
  plan # None =>
    /\ peer # None =>
         /\ line.version \in {"auto", peer.version}
         /\ peer.trusted \/ "insecure" \in line.flags
         /\ "plain" \notin line.flags
    /\ read <= line.cap
    /\ obs # None /\ obs.headers =>
         obs.file = IF "output" \in line.flags THEN read ELSE 0
    /\ "insecure" \in line.flags => Has("tls") \/ Has("quic") \/ "resolver" \in line.flags
    /\ "version" \in line.flags => Has("tls")
    /\ line.flags \cap {"request", "body", "output", "cap"} # {} => Has("response")
    /\ "sni" \in line.flags => Has("tls") \/ Has("quic") \/ Has("response")

(* Every probe ends with an observation, whatever the peer does or does    *)
(* not do.                                                                 *)
Terminates == plan # None ~> obs # None

-----------------------------------------------------------------------------
(* src/model/tls.rs:43 says of the latency in a TLS observation that it is *)
(* the latency of the handshake: no longer than it took to complete.       *)
HandshakeIsTimed ==
  obs # None /\ obs.tls # None => obs.tls.latency <= upAt

=============================================================================
