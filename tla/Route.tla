-------------------------------- MODULE Route --------------------------------
(***************************************************************************)
(* What a traceroute promises (traceroute and traceroute_repeat of         *)
(* src/route.rs): `count` traces, each a sequence of hops in TTL order,    *)
(* ended by the first hop the destination itself answers or by --max-hops; *)
(* or no traces at all.  A hop is lost, or shows an address that answered  *)
(* the probes of that very hop.  Of sockets, ports, deadlines and repeated *)
(* probes nothing is said here: Traceroute is how the code gets there.     *)
(***************************************************************************)
EXTENDS Integers, Sequences

CONSTANTS
  Source,    \* the addresses of the routers and of the destination
  Dest,      \* the address traced
  NoReply,   \* a hop's addr: None
  MaxHops,   \* --max-hops
  Counts     \* the values of --count considered

VARIABLES
  count,    \* traces asked for
  phase,    \* "idle", "tracing", "traced" or "failed"
  answers,  \* the addresses whose answers to the next hop's probes may arrive
  hops,     \* the current trace: hops[ttl]
  runs      \* the finished traces

routeVars == <<count, phase, answers, hops, runs>>

(* The loop over TTLs is over.                                             *)
Over(trace) ==
  \/ Len(trace) = MaxHops
  \/ trace # <<>> /\ trace[Len(trace)] = Dest

RouteInit ==
  /\ count \in Counts
  /\ phase = "idle"
  /\ answers = {}
  /\ hops = <<>>
  /\ runs = <<>>

Begin ==
  /\ phase = "idle"
  /\ phase' = "tracing"
  /\ UNCHANGED <<count, hops, runs>>

AddHop(h) ==
  /\ phase = "tracing"
  /\ ~Over(hops)
  /\ hops' = Append(hops, h)
  /\ UNCHANGED <<count, phase, runs>>

EndTrace ==
  /\ phase = "tracing"
  /\ Over(hops)
  /\ runs' = Append(runs, hops)
  /\ hops' = <<>>
  /\ phase' = IF Len(runs) + 1 = count THEN "traced" ELSE "tracing"
  /\ UNCHANGED count

(* An error discards what earlier hops and runs had found.                 *)
Fail ==
  /\ phase \in {"idle", "tracing"}
  /\ phase' = "failed"
  /\ hops' = <<>>
  /\ runs' = <<>>
  /\ UNCHANGED count

Wait == UNCHANGED <<count, phase, hops, runs>>

(* Answers come and get lost all the time.                                 *)
RouteNext ==
  /\ answers' \in SUBSET Source
  /\ \/ Begin \/ EndTrace \/ Fail \/ Wait
     \/ \E h \in answers \cup {NoReply} : AddHop(h)

RouteSpec == RouteInit /\ [][RouteNext]_routeVars

=============================================================================
