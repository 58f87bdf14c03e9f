----------------------------- MODULE Traceroute -----------------------------
(***************************************************************************)
(* The route command: src/route.rs and run_route, run_route_repeat of      *)
(* src/cli/route.rs.  One raw ICMP socket per trace; for each TTL up to    *)
(* ProbesPerHop probes, each from a UDP socket of its own whose local port *)
(* is what replies are matched by; a deadline per probe.                   *)
(*                                                                         *)
(* The network delays, loses, reorders and duplicates replies, answers a   *)
(* probe from any address, and carries other ICMP traffic, which the raw   *)
(* socket receives too.  Round-trip times are left out: a hop has one      *)
(* exactly when it has an address.                                         *)
(***************************************************************************)
EXTENDS Integers, Sequences, FiniteSets, Functions

CONSTANTS
  Router,        \* the addresses of the routers
  Dest,          \* the address traced
  NoReply,       \* a hop's addr: None
  MaxHops,       \* --max-hops
  Counts,        \* the values of --count considered
  Port,          \* ephemeral ports
  NoPort,        \* no probe is out
  ProbesPerHop,  \* --probes-per-hop
  AnsweredMax,   \* u16::MAX, the limit of a hop's `answered`
  MaxForeign,    \* bound of the model: foreign ICMP packets
  MaxFlying      \* bound of the model: replies under way at once

ASSUME RouteAssumption ==
  /\ Dest \notin Router
  /\ NoReply \notin Router \cup {Dest}
  /\ MaxHops \in Nat \ {0}
  /\ Counts \subseteq Nat \ {0}

ASSUME TracerouteAssumption ==
  /\ ProbesPerHop \in Nat \ {0}
  /\ AnsweredMax \in Nat \ {0}
  /\ MaxForeign \in Nat
  /\ NoPort \notin Port

VARIABLES
  count,     \* traces asked for
  hops,      \* the current trace: hops[ttl]
  runs,      \* the finished traces
  pc,        \* where the command is
  probe,     \* probes already lost at this TTL
  port,      \* the local port of the current probe
  expired,   \* Instant::now() >= deadline
  flying,    \* replies sent and not yet lost for good
  strict,    \* --strict
  hostnames, \* the TTLs whose router was given a name
  exit,      \* the exit code: "none", "success" or "failure"
  shown,     \* whether the report was printed
  bound, reused,   \* history: the ports bound so far; whether one was again
  origin,    \* history: per hop of this trace, the probe its reply quotes
  foreign    \* history: the foreign packets read

traceVars == <<count, hops, runs>>
probeVars == <<probe, port, expired, flying, bound, reused, origin, foreign>>
cliVars == <<strict, hostnames, exit, shown>>
vars == <<traceVars, pc, probeVars, cliVars>>

Source == Router \cup {Dest}
Hop == Source \cup {NoReply}

Run == Len(runs) + 1
Ttl == Len(hops) + 1

(* An ICMP time-exceeded or destination-unreachable message: who sends it, *)
(* the UDP source port it quotes, and which probe that was, which is not   *)
(* in the message and only history.                                        *)
Reply == [src : Source, port : Port, run : Nat, ttl : Nat]
Unmatched == [run |-> 0, ttl |-> 0]
Quoted(r) == [run |-> r.run, ttl |-> r.ttl]
Current == [run |-> Run, ttl |-> Ttl]

PC == {"args", "open", "probe", "check", "recv", "end", "name", "report", "over"}

TypeOK ==
  /\ count \in Counts
  /\ hops \in Seq(Hop) /\ runs \in Seq(Seq(Hop))
  /\ pc \in PC /\ probe \in 0..ProbesPerHop - 1 /\ port \in Port \cup {NoPort}
  /\ expired \in BOOLEAN /\ flying \in SUBSET Reply
  /\ strict \in BOOLEAN /\ hostnames \in SUBSET (1..MaxHops)
  /\ exit \in {"none", "success", "failure"} /\ shown \in BOOLEAN
  /\ bound \in SUBSET Port /\ reused \in BOOLEAN
  /\ origin \in Seq([run : Nat, ttl : Nat])
  /\ foreign \in 0..MaxForeign

Init ==
  /\ count \in Counts /\ hops = <<>> /\ runs = <<>>
  /\ pc = "args" /\ probe = 0 /\ port = NoPort /\ expired = FALSE
  /\ flying = {}
  /\ strict = FALSE /\ hostnames = {} /\ exit = "none" /\ shown = FALSE
  /\ bound = {} /\ reused = FALSE /\ origin = <<>>
  /\ foreign = 0

-----------------------------------------------------------------------------
(* The handler, before the trace.                                          *)

(* An error is all there is to report: the hops and runs so far are gone.  *)
Abort ==
  /\ pc' = "over"
  /\ exit' = "failure"
  /\ hops' = <<>> /\ runs' = <<>> /\ origin' = <<>>
  /\ UNCHANGED <<count, probe, port, expired, flying, bound, reused, foreign,
                 strict, hostnames, shown>>

(* A --count above u16::MAX, a target that does not parse or resolve, or   *)
(* has no IPv4 address.                                                    *)
Refuse == pc = "args" /\ Abort

Start ==
  /\ pc = "args"
  /\ count <= AnsweredMax
  /\ pc' = "open"
  /\ UNCHANGED <<traceVars, probeVars, cliVars>>

-----------------------------------------------------------------------------
(* traceroute_linux.                                                       *)

(* The raw socket, or the bind, set_ttl or send of a probe fails.  The     *)
(* same exit follows from a panic of the blocking task.                    *)
LocalError == pc \in {"open", "probe"} /\ Abort

OpenRawSocket ==
  /\ pc = "open"
  /\ pc' = "probe"
  /\ UNCHANGED <<traceVars, probeVars, cliVars>>

(* A fresh UDP socket on any port the kernel picks: the sockets of earlier *)
(* probes are closed, so it may pick one of theirs.  The probe gets lost,  *)
(* or some router or the destination answers it.                           *)
SendProbe ==
  /\ pc = "probe"
  /\ \E p \in Port :
       /\ port' = p
       /\ reused' = (reused \/ p \in bound)
       /\ bound' = bound \cup {p}
       /\ \/ UNCHANGED flying
          \/ /\ Cardinality(flying) < MaxFlying
             /\ \E s \in Source :
                  flying' = flying
                    \cup {[src |-> s, port |-> p, run |-> Run, ttl |-> Ttl]}
  /\ expired' = FALSE
  /\ pc' = "check"
  /\ UNCHANGED <<traceVars, probe, origin, foreign, cliVars>>

DeadlinePasses ==
  /\ pc \in {"check", "recv"}
  /\ ~expired
  /\ expired' = TRUE
  /\ UNCHANGED <<traceVars, pc, probe, port, flying, bound, reused, origin,
                 foreign, cliVars>>

(* The probe's socket is dropped, its deadline with it.                    *)
Close == port' = NoPort /\ expired' = FALSE

(* Mutant: the destination's answer does not end the trace.                *)
PushHopPastDest(h, from) ==
  /\ hops' = Append(hops, h)
  /\ Close
  /\ origin' = Append(origin, from)
  /\ probe' = 0
  /\ pc' = IF Ttl = MaxHops THEN "end" ELSE "probe"
  /\ UNCHANGED <<count, runs>>

(* The hop is pushed: with the reply's sender, or lost.  The reply's ICMP  *)
(* type is not looked at.  The sender being the destination ends the loop  *)
(* over TTLs, and so does the last of them.  `from` is history.            *)
PushHop(h, from) ==
  /\ hops' = Append(hops, h)
  /\ Close
  /\ origin' = Append(origin, from)
  /\ probe' = 0
  /\ pc' = IF h = Dest \/ Ttl = MaxHops THEN "end" ELSE "probe"
  /\ UNCHANGED <<count, runs>>

(* Without an answer the next probe of the hop is sent, if there is one.   *)
ProbeLost ==
  \/ /\ probe + 1 < ProbesPerHop
     /\ probe' = probe + 1
     /\ pc' = "probe"
     /\ Close
     /\ UNCHANGED <<traceVars, origin>>
  \/ /\ probe + 1 = ProbesPerHop
     /\ PushHop(NoReply, Unmatched)

CheckDeadline ==
  /\ pc = "check"
  /\ \/ ~expired /\ pc' = "recv" /\ UNCHANGED <<traceVars, probe, port, expired, origin>>
     \/ expired /\ ProbeLost
  /\ UNCHANGED <<flying, bound, reused, foreign, cliVars>>

(* Mutant: whatever reply arrives is taken for the probe's.                *)
RecvReplyAnyPort(r) ==
  /\ pc = "recv"
  /\ r \in flying
  /\ flying' \in {flying, flying \ {r}}
  /\ PushHop(r.src, Quoted(r))
  /\ UNCHANGED <<bound, reused, foreign, cliVars>>

(* recv_icmp returns a reply that quotes a UDP datagram; the loop takes it *)
(* if it quotes the probe's port.  The network may deliver it again.       *)
RecvReply(r) ==
  /\ pc = "recv"
  /\ r \in flying
  /\ flying' \in {flying, flying \ {r}}
  /\ \/ r.port = port /\ PushHop(r.src, Quoted(r))
     \/ r.port # port /\ pc' = "check" /\ UNCHANGED <<traceVars, probe, port, expired, origin>>
  /\ UNCHANGED <<bound, reused, foreign, cliVars>>

(* Any other ICMP packet: recv_icmp reads on, whatever the time.           *)
RecvForeign ==
  /\ pc = "recv"
  /\ foreign < MaxForeign
  /\ foreign' = foreign + 1
  /\ UNCHANGED <<traceVars, pc, probe, port, expired, flying, bound, reused,
                 origin, cliVars>>

(* Mutant: a read that times out tries again without looking at the clock. *)
RecvNothingForever == pc = "recv" /\ UNCHANGED vars

(* The 100 ms read times out, or fails.  After the deadline that is the    *)
(* end of the probe; before it, recv_icmp tries again after 5 ms (a        *)
(* stuttering step), and an error returns to the loop, which ignores it.   *)
RecvNothing ==
  /\ pc = "recv"
  /\ \/ expired /\ ProbeLost
     \/ ~expired /\ pc' = "check" /\ UNCHANGED <<traceVars, probe, port, expired, origin>>
  /\ UNCHANGED <<flying, bound, reused, foreign, cliVars>>

(* A trace is complete; the next one opens a socket of its own.  Replies   *)
(* to this one may still be under way.                                     *)
NextRun ==
  /\ pc = "end"
  /\ runs' = Append(runs, hops)
  /\ hops' = <<>> /\ origin' = <<>>
  /\ pc' = IF Len(runs') < count THEN "open" ELSE "name"
  /\ UNCHANGED <<count, probe, port, expired, flying, bound, reused, foreign, cliVars>>

LoseReply ==
  /\ pc \in {"check", "recv"}
  /\ \E r \in flying : flying' = flying \ {r}
  /\ UNCHANGED <<traceVars, pc, probe, port, expired, bound, reused, origin,
                 foreign, cliVars>>

-----------------------------------------------------------------------------
(* The report: aggregate_runs and the end of run_route, run_route_repeat.  *)

Reached == {ttl \in 1..MaxHops : \E r \in DOMAIN runs : ttl <= Len(runs[r])}

(* Mutant: a lost hop is counted before it is skipped.                     *)
AddRunCountingLost(s, run, ttl) ==
  IF ttl > Len(run) THEN s
  ELSE [answered |-> IF s.answered < AnsweredMax THEN s.answered + 1 ELSE AnsweredMax,
        addrs |-> IF run[ttl] = NoReply \/ run[ttl] \in Range(s.addrs)
                  THEN s.addrs ELSE Append(s.addrs, run[ttl])]

(* One run's hop is added to the entry of its TTL: a lost hop adds         *)
(* nothing, an address only once; the count saturates.                     *)
AddRun(s, run, ttl) ==
  IF ttl > Len(run) \/ run[ttl] = NoReply THEN s
  ELSE [answered |-> IF s.answered < AnsweredMax THEN s.answered + 1 ELSE AnsweredMax,
        addrs |-> IF run[ttl] \in Range(s.addrs) THEN s.addrs
                  ELSE Append(s.addrs, run[ttl])]

(* The entry of one TTL, from the runs in their order.                     *)
Stats(ttl) ==
  LET entry[k \in 0..Len(runs)] ==
        IF k = 0 THEN [answered |-> 0, addrs |-> <<>>]
        ELSE AddRun(entry[k - 1], runs[k], ttl)
  IN entry[Len(runs)]

PathChanged(ttl) == Len(Stats(ttl).addrs) > 1

(* Mutant: --strict of a repeat counts the hops that changed their router. *)
LostHopsConfused ==
  IF count = 1 THEN {ttl \in Reached : runs[1][ttl] = NoReply}
  ELSE {ttl \in Reached : PathChanged(ttl)}

(* What --strict objects to: a lost hop, or in a repeat a hop that         *)
(* answered in no run.                                                     *)
LostHops ==
  IF count = 1 THEN {ttl \in Reached : runs[1][ttl] = NoReply}
  ELSE {ttl \in Reached : Stats(ttl).answered = 0}

(* Reverse lookups may fail; in a repeat only a hop with a single address  *)
(* is looked up.  Then --strict is read.                                   *)
Nameable ==
  IF count = 1 THEN {ttl \in Reached : runs[1][ttl] # NoReply}
  ELSE {ttl \in Reached : Len(Stats(ttl).addrs) = 1}

ResolveHostnames ==
  /\ pc = "name"
  /\ hostnames' \in SUBSET Nameable
  /\ strict' \in BOOLEAN
  /\ pc' = "report"
  /\ UNCHANGED <<traceVars, probeVars, exit, shown>>

(* Printing may fail; --strict is judged after it.                         *)
Report ==
  /\ pc = "report"
  /\ \/ shown' = FALSE /\ exit' = "failure"
     \/ /\ shown' = TRUE
        /\ exit' = IF strict /\ LostHops # {} THEN "failure" ELSE "success"
  /\ pc' = "over"
  /\ UNCHANGED <<traceVars, probeVars, strict, hostnames>>

Exited == pc = "over" /\ UNCHANGED vars

-----------------------------------------------------------------------------
Tracer ==
  \/ Refuse \/ Start \/ LocalError \/ OpenRawSocket \/ SendProbe
  \/ CheckDeadline \/ RecvNothing \/ NextRun \/ ResolveHostnames \/ Report

Network == LoseReply \/ RecvForeign \/ \E r \in flying : RecvReply(r)

Next == Tracer \/ Network \/ DeadlinePasses \/ Exited

(* The thread runs, and time passes.  Nothing is asked of the network.     *)
Fairness == WF_vars(Tracer) /\ WF_vars(DeadlinePasses)

Spec == Init /\ [][Next]_vars /\ Fairness

-----------------------------------------------------------------------------
(* A hop shows the router that answered one of its own probes: a reply     *)
(* that is late, repeated or meant for another TTL or trace is never       *)
(* attributed to it.  This rests on the kernel not handing out the port of *)
(* an earlier probe again, which the code does not ensure.                 *)
HopIsOwn ==
  ~reused => \A ttl \in DOMAIN hops :
    hops[ttl] # NoReply => origin[ttl] = [run |-> Run, ttl |-> ttl]

(* Route's phase is where the command is; Route's answers are the replies  *)
(* under way that a probe of the current hop caused.  Once a port was used *)
(* again, any address may have to pass for one.                            *)
Phase ==
  IF pc = "args" THEN "idle"
  ELSE IF pc \in {"open", "probe", "check", "recv", "end"} THEN "tracing"
  ELSE IF pc = "over" /\ runs = <<>> THEN "failed"
  ELSE "traced"

Answers ==
  IF reused THEN Source
  ELSE {r.src : r \in {reply \in flying : Quoted(reply) = Current}}

R == INSTANCE Route WITH phase <- Phase, answers <- Answers

(* Whatever the sequence of probes, timeouts and replies, the loops over   *)
(* runs, TTLs and probes yield the traces that Route promises: TTLs in     *)
(* order without gaps, no hop beyond the destination or --max-hops and no  *)
(* trace that stops short of both, each hop's address from the answers to  *)
(* its own probes, as many traces as were asked for or none.               *)
ImplementsRoute == R!RouteSpec

RunsAnswering(ttl) == {r \in DOMAIN runs : ttl <= Len(runs[r]) /\ runs[r][ttl] # NoReply}

(* The aggregate of the runs says what the runs found: `answered` is the   *)
(* number of runs in which the hop answered, unsaturated, its addresses    *)
(* are those runs' answers, each once, and a hop whose router changed is   *)
(* flagged and bears no name.                                              *)
AggregateIsHonest ==
  Len(runs) = count => \A ttl \in Reached :
    LET heard == {runs[r][ttl] : r \in RunsAnswering(ttl)}
    IN /\ Stats(ttl).answered = Cardinality(RunsAnswering(ttl))
       /\ Range(Stats(ttl).addrs) = heard
       /\ Len(Stats(ttl).addrs) = Cardinality(heard)
       /\ PathChanged(ttl) <=> Cardinality(heard) > 1
       /\ ttl \in hostnames => Cardinality(heard) = 1

(* Exit 0 is earned: all the traces were made and printed, and under       *)
(* --strict every TTL reached by any run answered in some run.             *)
SuccessIsEarned ==
  exit = "success" =>
    /\ shown /\ Len(runs) = count
    /\ strict => \A ttl \in Reached : RunsAnswering(ttl) # {}

(* The command ends however the network behaves, once the foreign packets  *)
(* pause: no wait for a reply outlasts the deadline for good.              *)
Terminates == <>(pc = "over")

=============================================================================
