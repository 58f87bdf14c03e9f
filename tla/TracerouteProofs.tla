-------------------------- MODULE TracerouteProofs --------------------------
(***************************************************************************)
(* Proofs about Traceroute, for any routers, ports, hops, probes per hop   *)
(* and runs, and any number of replies under way.                          *)
(***************************************************************************)
EXTENDS Traceroute, SortingProofs, SequenceTheorems

USE DEF Hop, Source

LEMMA TypeOKInit == Init => TypeOK
<1> SUFFICES ASSUME Init PROVE TypeOK
  OBVIOUS
<1>1. hops \in Seq(Hop) /\ runs \in Seq(Seq(Hop)) /\ origin \in Seq([run : Nat, ttl : Nat])
  BY DEF Init
<1>2. 0 \in 0..ProbesPerHop - 1 /\ 0 \in 0..MaxForeign /\ 0 \in Nat
  BY TracerouteAssumption
<1>3. expired = FALSE /\ strict = FALSE /\ shown = FALSE /\ reused = FALSE
  BY DEF Init
<1> QED BY <1>1, <1>2, <1>3 DEF Init, TypeOK, PC

(* Pushing a hop keeps the types of what it changes.                       *)
LEMMA PushHopTypes ==
  ASSUME TypeOK, NEW h \in Hop, NEW from \in [run : Nat, ttl : Nat], PushHop(h, from)
  PROVE  /\ count' = count /\ runs' = runs
         /\ hops' \in Seq(Hop) /\ origin' \in Seq([run : Nat, ttl : Nat])
         /\ pc' \in PC /\ probe' = 0 /\ port' = NoPort /\ expired' = FALSE
BY DEF TypeOK, PushHop, Close, PC

LEMMA ProbeLostTypes ==
  ASSUME TypeOK, ProbeLost
  PROVE  /\ count' = count /\ runs' = runs
         /\ hops' \in Seq(Hop) /\ origin' \in Seq([run : Nat, ttl : Nat])
         /\ pc' \in PC /\ probe' \in 0..ProbesPerHop - 1
         /\ port' = NoPort /\ expired' = FALSE
<1> USE TracerouteAssumption
<1>1. CASE PushHop(NoReply, Unmatched)
  <2>1. Unmatched \in [run : Nat, ttl : Nat]
    BY DEF Unmatched
  <2>2. 0 \in 0..ProbesPerHop - 1
    BY TracerouteAssumption
  <2>3. NoReply \in Hop
    OBVIOUS
  <2> HIDE DEF Hop
  <2> QED BY <1>1, <2>1, <2>2, <2>3, PushHopTypes
<1>2. CASE /\ probe + 1 < ProbesPerHop
           /\ probe' = probe + 1
           /\ pc' = "probe"
           /\ Close
           /\ UNCHANGED <<traceVars, origin>>
  BY <1>2 DEF TypeOK, Close, traceVars, PC
<1> QED BY <1>1, <1>2 DEF ProbeLost

LEMMA TypeOKStep == TypeOK /\ [Next]_vars => TypeOK'
<1> SUFFICES ASSUME TypeOK, [Next]_vars PROVE TypeOK'
  OBVIOUS
<1> USE RouteAssumption, TracerouteAssumption
<1>1. CASE Refuse
  BY <1>1 DEF Refuse, Abort, TypeOK, PC
<1>2. CASE Start
  BY <1>2 DEF Start, TypeOK, traceVars, probeVars, cliVars, PC
<1>3. CASE LocalError
  BY <1>3 DEF LocalError, Abort, TypeOK, PC
<1>4. CASE OpenRawSocket
  BY <1>4 DEF OpenRawSocket, TypeOK, traceVars, probeVars, cliVars, PC
<1>5. CASE SendProbe
  <2>1. Len(runs) + 1 \in Nat /\ Len(hops) + 1 \in Nat
    BY DEF TypeOK
  <2>2. flying' \in SUBSET Reply
    BY <1>5, <2>1 DEF SendProbe, TypeOK, Reply, Run, Ttl
  <2>3. port' \in Port /\ bound' \in SUBSET Port /\ reused' \in BOOLEAN
    BY <1>5 DEF SendProbe, TypeOK
  <2> QED BY <1>5, <2>2, <2>3 DEF SendProbe, TypeOK, traceVars, cliVars, PC
<1>6. CASE DeadlinePasses
  BY <1>6 DEF DeadlinePasses, TypeOK, traceVars, cliVars, PC
<1>7. CASE CheckDeadline
  <2>1. CASE ProbeLost
    BY <1>7, <2>1, ProbeLostTypes DEF CheckDeadline, TypeOK, cliVars
  <2>2. CASE pc' = "recv" /\ UNCHANGED <<traceVars, probe, port, expired, origin>>
    BY <1>7, <2>2 DEF CheckDeadline, TypeOK, traceVars, cliVars, PC
  <2> QED BY <1>7, <2>1, <2>2 DEF CheckDeadline
<1>8. ASSUME NEW r \in flying, RecvReply(r) PROVE TypeOK'
  <2>1. r \in Reply /\ flying' \in SUBSET Reply
    BY <1>8 DEF RecvReply, TypeOK
  <2>2. CASE PushHop(r.src, Quoted(r))
    <3>1. r.src \in Hop /\ Quoted(r) \in [run : Nat, ttl : Nat]
      BY <2>1 DEF Reply, Quoted
    <3>2. /\ count' = count /\ runs' = runs
          /\ hops' \in Seq(Hop) /\ origin' \in Seq([run : Nat, ttl : Nat])
          /\ pc' \in PC /\ probe' = 0 /\ port' = NoPort /\ expired' = FALSE
      BY <2>2, <3>1, PushHopTypes
    <3>3. UNCHANGED <<bound, reused, foreign, cliVars>>
      BY <1>8 DEF RecvReply
    <3>4. 0 \in 0..ProbesPerHop - 1
      BY TracerouteAssumption
    <3> HIDE DEF Hop
    <3> QED BY <2>1, <3>2, <3>3, <3>4 DEF TypeOK, cliVars
  <2>3. CASE pc' = "check" /\ UNCHANGED <<traceVars, probe, port, expired, origin>>
    BY <1>8, <2>1, <2>3 DEF RecvReply, TypeOK, traceVars, cliVars, PC
  <2> QED BY <1>8, <2>2, <2>3 DEF RecvReply
<1>9. CASE RecvForeign
  BY <1>9 DEF RecvForeign, TypeOK, traceVars, cliVars, PC
<1>10. CASE RecvNothing
  <2>1. CASE ProbeLost
    BY <1>10, <2>1, ProbeLostTypes DEF RecvNothing, TypeOK, cliVars
  <2>2. CASE pc' = "check" /\ UNCHANGED <<traceVars, probe, port, expired, origin>>
    BY <1>10, <2>2 DEF RecvNothing, TypeOK, traceVars, cliVars, PC
  <2> QED BY <1>10, <2>1, <2>2 DEF RecvNothing
<1>11. CASE NextRun
  BY <1>11 DEF NextRun, TypeOK, cliVars, PC
<1>12. CASE LoseReply
  BY <1>12 DEF LoseReply, TypeOK, traceVars, cliVars, PC
<1>13. CASE ResolveHostnames
  <2>1. hostnames' \in SUBSET (1..MaxHops)
    BY <1>13 DEF ResolveHostnames, Nameable, Reached
  <2> QED BY <1>13, <2>1 DEF ResolveHostnames, TypeOK, traceVars, probeVars, PC
<1>14. CASE Report
  BY <1>14 DEF Report, TypeOK, traceVars, probeVars, PC
<1>15. CASE UNCHANGED vars
  BY <1>15 DEF vars, TypeOK, traceVars, probeVars, cliVars
<1> QED
  BY <1>1, <1>2, <1>3, <1>4, <1>5, <1>6, <1>7, <1>8, <1>9, <1>10, <1>11, <1>12,
     <1>13, <1>14, <1>15 DEF Next, Tracer, Network, Exited

(* The variables of a traceroute keep their types.                         *)
THEOREM TypeCorrect == Spec => []TypeOK
<1>1. Init => TypeOK
  BY TypeOKInit
<1>2. TypeOK /\ [Next]_vars => TypeOK'
  BY TypeOKStep
<1> QED BY <1>1, <1>2, PTL DEF Spec

-----------------------------------------------------------------------------
(* Why a reply is never misattributed while ports stay fresh: every reply  *)
(* under way quotes a port that was bound, and the one bound for the       *)
(* current probe is quoted by its own replies only.                        *)
Matched ==
  pc \in {"check", "recv"} =>
    \A r \in flying : r.port = port => Quoted(r) = [run |-> Run, ttl |-> Ttl]

IInv ==
  /\ TypeOK
  /\ Len(origin) = Len(hops)
  /\ \A r \in flying : r.port \in bound
  /\ ~reused => Matched
  /\ HopIsOwn

(* A hop that is pushed lost, or with a reply to one of its own probes,    *)
(* extends a trace of such hops to one.                                    *)
LEMMA OwnHopAdded ==
  ASSUME IInv, NEW h \in Hop, NEW from \in [run : Nat, ttl : Nat],
         PushHop(h, from), reused' = reused,
         ~reused /\ h # NoReply => from = [run |-> Run, ttl |-> Ttl]
  PROVE  /\ Len(origin') = Len(hops')
         /\ pc' \notin {"check", "recv"}
         /\ HopIsOwn'
<1> USE DEF IInv, TypeOK, PushHop
<1>1. /\ hops' = Append(hops, h) /\ origin' = Append(origin, from) /\ runs' = runs
      /\ hops \in Seq(Hop) /\ origin \in Seq([run : Nat, ttl : Nat])
  OBVIOUS
<1>2. Len(hops') = Len(hops) + 1 /\ Len(origin') = Len(hops) + 1
  BY <1>1
<1>3. ASSUME ~reused, NEW ttl \in DOMAIN hops', hops'[ttl] # NoReply
      PROVE  origin'[ttl] = [run |-> Run, ttl |-> ttl]
  <2>1. CASE ttl = Len(hops) + 1
    BY <1>1, <1>3, <2>1 DEF Ttl
  <2>2. CASE ttl # Len(hops) + 1
    <3>1. ttl \in 1..Len(hops) /\ Len(origin) = Len(hops)
      BY <1>1, <1>2, <1>3, <2>2
    <3>2. hops'[ttl] = hops[ttl] /\ origin'[ttl] = origin[ttl]
      BY <1>1, <3>1
    <3> QED BY <1>1, <1>3, <3>1, <3>2 DEF HopIsOwn
  <2> QED BY <2>1, <2>2
<1> QED BY <1>1, <1>2, <1>3 DEF HopIsOwn, Run

LEMMA LostProbeKept ==
  ASSUME IInv, ProbeLost, reused' = reused
  PROVE  /\ Len(origin') = Len(hops')
         /\ pc' \notin {"check", "recv"}
         /\ HopIsOwn'
<1>1. CASE PushHop(NoReply, Unmatched)
  <2>1. Unmatched \in [run : Nat, ttl : Nat]
    BY DEF Unmatched
  <2> QED BY <1>1, <2>1, OwnHopAdded
<1>2. CASE pc' = "probe" /\ UNCHANGED <<traceVars, origin>>
  BY <1>2 DEF IInv, HopIsOwn, Run, traceVars
<1> QED BY <1>1, <1>2 DEF ProbeLost

LEMMA IInvStep == IInv /\ [Next]_vars => IInv'
<1> SUFFICES ASSUME IInv, [Next]_vars PROVE IInv'
  OBVIOUS
<1>0. TypeOK'
  BY TypeOKStep DEF IInv
<1> USE <1>0
<1>1. CASE Refuse \/ LocalError
  <2>1. /\ hops' = <<>> /\ origin' = <<>> /\ pc' = "over"
        /\ UNCHANGED <<flying, bound, reused>>
    BY <1>1 DEF Refuse, LocalError, Abort
  <2> QED BY <2>1 DEF IInv, Matched, HopIsOwn
<1>2. CASE Start \/ OpenRawSocket \/ ResolveHostnames \/ Report
  <2>1. /\ UNCHANGED <<hops, runs, origin, flying, bound, reused>>
        /\ pc' \notin {"check", "recv"}
    BY <1>2 DEF Start, OpenRawSocket, ResolveHostnames, Report,
                traceVars, probeVars
  <2> QED BY <2>1 DEF IInv, Matched, HopIsOwn, Run
<1>3. CASE SendProbe
  <2> USE DEF SendProbe
  <2>1. PICK p \in Port :
          /\ port' = p
          /\ reused' = (reused \/ p \in bound)
          /\ bound' = bound \cup {p}
          /\ \/ UNCHANGED flying
             \/ \E s \in Source :
                  flying' = flying
                    \cup {[src |-> s, port |-> p, run |-> Run, ttl |-> Ttl]}
    BY <1>3
  <2>2. UNCHANGED <<hops, runs, origin>>
    BY <1>3 DEF traceVars
  <2>3. \A r \in flying' : \/ r \in flying
                           \/ r.port = p /\ Quoted(r) = [run |-> Run, ttl |-> Ttl]
    BY <2>1 DEF Quoted
  <2>4. \A r \in flying' : r.port \in bound'
    BY <2>1, <2>3 DEF IInv
  <2>5. ~reused' => Matched'
    BY <2>1, <2>2, <2>3 DEF IInv, Matched, Quoted, Run, Ttl
  <2>6. HopIsOwn'
    BY <2>1, <2>2 DEF IInv, HopIsOwn, Run
  <2> QED BY <2>2, <2>4, <2>5, <2>6 DEF IInv
<1>4. CASE DeadlinePasses \/ RecvForeign \/ LoseReply
  <2>1. /\ UNCHANGED <<hops, runs, origin, bound, reused, port, pc>>
        /\ flying' \subseteq flying
        /\ pc \in {"check", "recv"}
    BY <1>4 DEF DeadlinePasses, RecvForeign, LoseReply, traceVars
  <2> QED BY <2>1 DEF IInv, Matched, HopIsOwn, Run, Ttl, Quoted
<1>5. CASE CheckDeadline \/ RecvNothing
  <2>1. UNCHANGED <<flying, bound, reused>> /\ pc \in {"check", "recv"}
    BY <1>5 DEF CheckDeadline, RecvNothing
  <2>2. CASE ProbeLost
    BY <2>1, <2>2, LostProbeKept DEF IInv, Matched
  <2>3. CASE UNCHANGED <<traceVars, probe, port, expired, origin>>
    BY <2>1, <2>3 DEF IInv, Matched, HopIsOwn, Run, Ttl, Quoted, traceVars
  <2> QED BY <1>5, <2>2, <2>3 DEF CheckDeadline, RecvNothing
<1>6. ASSUME NEW r \in flying, RecvReply(r) PROVE IInv'
  <2>1. /\ UNCHANGED <<bound, reused>> /\ flying' \subseteq flying /\ pc = "recv"
        /\ r \in Reply
    BY <1>6 DEF RecvReply, IInv, TypeOK
  <2>2. CASE r.port = port /\ PushHop(r.src, Quoted(r))
    <3>1. r.src \in Hop /\ Quoted(r) \in [run : Nat, ttl : Nat]
      BY <2>1 DEF Reply, Quoted
    <3>2. ~reused => Quoted(r) = [run |-> Run, ttl |-> Ttl]
      BY <2>1, <2>2 DEF IInv, Matched
    <3>3. /\ Len(origin') = Len(hops') /\ pc' \notin {"check", "recv"} /\ HopIsOwn'
      BY <2>1, <2>2, <3>1, <3>2, OwnHopAdded
    <3> QED BY <2>1, <3>3 DEF IInv, Matched
  <2>3. CASE UNCHANGED <<traceVars, probe, port, expired, origin>>
    BY <2>1, <2>3 DEF IInv, Matched, HopIsOwn, Run, Ttl, Quoted, traceVars
  <2> QED BY <1>6, <2>2, <2>3 DEF RecvReply
<1>7. CASE NextRun
  <2>1. /\ hops' = <<>> /\ origin' = <<>> /\ pc' \notin {"check", "recv"}
        /\ UNCHANGED <<flying, bound, reused>>
    BY <1>7 DEF NextRun
  <2> QED BY <2>1 DEF IInv, Matched, HopIsOwn
<1>8. CASE UNCHANGED vars
  BY <1>8 DEF IInv, Matched, HopIsOwn, Run, Ttl, Quoted, vars, traceVars, probeVars
<1> QED
  BY <1>1, <1>2, <1>3, <1>4, <1>5, <1>6, <1>7, <1>8
  DEF Next, Tracer, Network, Exited

LEMMA IInvAlways == Spec => []IInv
<1>1. Init => IInv
  BY TypeOKInit DEF Init, IInv, Matched, HopIsOwn
<1>2. IInv /\ [Next]_vars => IInv'
  BY IInvStep
<1> QED BY <1>1, <1>2, PTL DEF Spec

(* Every hop shows a router that answered a probe of that hop, as long as  *)
(* no ephemeral port is handed out twice.                                  *)
THEOREM HopsAlwaysOwn == Spec => []HopIsOwn
<1>1. IInv => HopIsOwn
  BY DEF IInv
<1> QED BY <1>1, IInvAlways, PTL

-----------------------------------------------------------------------------
(* The entry of a TTL, run by run: IsEntry says that f satisfies the       *)
(* recursion of Stats over the first n runs, and some f does.              *)
Unheard == [answered |-> 0, addrs |-> <<>>]

IsEntry(f, n, ttl) ==
  f = [k \in 0..n |-> IF k = 0 THEN Unheard ELSE AddRun(f[k - 1], runs[k], ttl)]

LEMMA EntryExists ==
  ASSUME NEW ttl
  PROVE  \A n \in Nat : \E f : IsEntry(f, n, ttl)
<1> DEFINE H == {n \in Nat : \E f : IsEntry(f, n, ttl)}
<1>1. 0 \in H
  <2> DEFINE f == [k \in {0} |-> Unheard]
  <2>1. f = [k \in 0..0 |-> IF k = 0 THEN Unheard ELSE AddRun(f[k - 1], runs[k], ttl)]
    OBVIOUS
  <2> QED BY <2>1 DEF IsEntry
<1>2. ASSUME NEW n \in Nat, n \in H PROVE n + 1 \in H
  <2>1. PICK f : IsEntry(f, n, ttl)
    BY <1>2
  <2> DEFINE last == AddRun(f[n], runs[n + 1], ttl)
             g == [k \in 0..(n + 1) |-> IF k = n + 1 THEN last ELSE f[k]]
  <2> HIDE DEF last
  <2>2. ASSUME NEW k \in 0..(n + 1)
        PROVE  g[k] = IF k = 0 THEN Unheard ELSE AddRun(g[k - 1], runs[k], ttl)
    <3>1. CASE k = n + 1
      <4>1. k # 0 /\ k - 1 = n /\ n \in 0..(n + 1) /\ n # n + 1
        BY <3>1
      <4>2. g[k - 1] = f[n] /\ g[k] = last
        BY <3>1, <4>1
      <4> QED BY <3>1, <4>1, <4>2 DEF last
    <3>2. CASE k # n + 1
      <4>1. k \in 0..n /\ g[k] = f[k]
        BY <3>2
      <4>2. f[k] = IF k = 0 THEN Unheard ELSE AddRun(f[k - 1], runs[k], ttl)
        BY <2>1, <4>1 DEF IsEntry
      <4>3. k # 0 => k - 1 \in 0..(n + 1) /\ k - 1 # n + 1
        BY <4>1
      <4>4. k # 0 => g[k - 1] = f[k - 1]
        BY <4>3
      <4> QED BY <4>1, <4>2, <4>4
    <3> QED BY <3>1, <3>2
  <2>3. g = [k \in 0..(n + 1) |->
               IF k = 0 THEN Unheard ELSE AddRun(g[k - 1], runs[k], ttl)]
    <3>1. g = [k \in 0..(n + 1) |-> g[k]]
      OBVIOUS
    <3> HIDE DEF g
    <3> QED BY <2>2, <3>1
  <2>4. IsEntry(g, n + 1, ttl)
    BY <2>3 DEF IsEntry
  <2> HIDE DEF g
  <2> QED BY <2>4
<1> HIDE DEF H
<1>3. \A n \in Nat : n \in H
  BY ONLY <1>1, <1>2, SetInduction
<1> QED BY <1>3 DEF H

(* The runs among the first n in which a TTL answered, and what did.       *)
Answering(n, ttl) ==
  {r \in 1..n : r \in DOMAIN runs /\ ttl <= Len(runs[r]) /\ runs[r][ttl] # NoReply}
HeardIn(n, ttl) == {runs[r][ttl] : r \in Answering(n, ttl)}

(* What an entry is after n runs.                                          *)
Tells(s, n, ttl) ==
  /\ s.answered \in Nat
  /\ s.answered = Cardinality(Answering(n, ttl))
  /\ s.answered <= n
  /\ s.addrs \in Seq(Hop)
  /\ IsInjective(s.addrs)
  /\ Range(s.addrs) = HeardIn(n, ttl)

LEMMA AnsweringFinite ==
  ASSUME NEW n \in Nat, NEW ttl
  PROVE  IsFiniteSet(Answering(n, ttl))
<1>1. IsFiniteSet(1..n) /\ Answering(n, ttl) \subseteq 1..n
  BY FS_Interval DEF Answering
<1> QED BY <1>1, FS_Subset

LEMMA RunTells ==
  ASSUME TypeOK, Len(runs) <= AnsweredMax, NEW ttl \in Nat \ {0},
         NEW n \in Nat, n + 1 <= Len(runs), NEW s, Tells(s, n, ttl)
  PROVE  Tells(AddRun(s, runs[n + 1], ttl), n + 1, ttl)
<1> DEFINE run == runs[n + 1]
<1>1. n + 1 \in DOMAIN runs /\ run \in Seq(Hop) /\ Len(runs) \in Nat /\ Len(run) \in Nat
  BY DEF TypeOK
<1>2. CASE ttl > Len(run) \/ run[ttl] = NoReply
  <2>1. n + 1 \notin Answering(n + 1, ttl)
    BY <1>1, <1>2 DEF Answering
  <2>2. Answering(n + 1, ttl) = Answering(n, ttl)
    BY <2>1 DEF Answering
  <2>3. HeardIn(n + 1, ttl) = HeardIn(n, ttl)
    BY <2>2 DEF HeardIn
  <2>4. AddRun(s, run, ttl) = s
    BY <1>2 DEF AddRun
  <2>5. s.answered <= n + 1
    BY DEF Tells
  <2> QED BY <2>2, <2>3, <2>4, <2>5 DEF Tells
<1>3. CASE ~(ttl > Len(run) \/ run[ttl] = NoReply)
  <2> DEFINE x == run[ttl]
             A == Answering(n, ttl)
             t == AddRun(s, run, ttl)
  <2>1. x \in Hop /\ ttl <= Len(run) /\ x # NoReply
    <3>1. ttl \in 1..Len(run)
      BY <1>1, <1>3
    <3> HIDE DEF Hop
    <3> QED BY <1>1, <1>3, <3>1
  <2>2. Answering(n + 1, ttl) = A \cup {n + 1} /\ n + 1 \notin A
    BY <1>1, <2>1 DEF Answering
  <2>3. Cardinality(Answering(n + 1, ttl)) = Cardinality(A) + 1
    BY <2>2, AnsweringFinite, FS_AddElement
  <2>4. HeardIn(n + 1, ttl) = HeardIn(n, ttl) \cup {x}
    BY <2>2 DEF HeardIn
  <2>5. s.answered < AnsweredMax
    BY <1>1, TracerouteAssumption DEF Tells
  <2>6. t = [answered |-> s.answered + 1,
             addrs |-> IF x \in Range(s.addrs) THEN s.addrs ELSE Append(s.addrs, x)]
    BY <1>3, <2>5 DEF AddRun
  <2>7. /\ t.addrs \in Seq(Hop) /\ IsInjective(t.addrs)
        /\ Range(t.addrs) = Range(s.addrs) \cup {x}
    <3>1. CASE x \in Range(s.addrs)
      BY <2>6, <3>1 DEF Tells
    <3>2. CASE x \notin Range(s.addrs)
      <4>1. s.addrs \in Seq(Hop) /\ IsInjective(s.addrs)
        BY DEF Tells
      <4>2. t.addrs = Append(s.addrs, x)
        BY <2>6, <3>2
      <4> HIDE DEF t, x, Hop
      <4> QED BY <2>1, <3>2, <4>1, <4>2, AppendToInjective
    <3> QED BY <3>1, <3>2
  <2>8. t.answered = s.answered + 1
    BY <2>6
  <2> HIDE DEF t, x, A, run
  <2>9. Tells(t, n + 1, ttl)
    BY <2>3, <2>4, <2>7, <2>8 DEF Tells, A
  <2> QED BY <2>9 DEF t, run
<1> QED BY <1>2, <1>3

(* An entry counts the runs that answered, and lists what they answered.   *)
LEMMA StatsTell ==
  ASSUME TypeOK, Len(runs) <= AnsweredMax, NEW ttl \in Nat \ {0}
  PROVE  Tells(Stats(ttl), Len(runs), ttl)
<1> DEFINE f == CHOOSE f : IsEntry(f, Len(runs), ttl)
<1>1. Len(runs) \in Nat
  BY DEF TypeOK
<1>2. IsEntry(f, Len(runs), ttl)
  BY <1>1, EntryExists
<1>3. Stats(ttl) = f[Len(runs)]
  BY DEF Stats, IsEntry, Unheard
<1> HIDE DEF f
<1> DEFINE H == {n \in Nat : n <= Len(runs) => Tells(f[n], n, ttl)}
<1>4. 0 \in H
  <2>1. f[0] = Unheard
    BY <1>1, <1>2 DEF IsEntry
  <2>2. Answering(0, ttl) = {}
    BY DEF Answering
  <2>3. HeardIn(0, ttl) = {} /\ Cardinality(Answering(0, ttl)) = 0
    BY <2>2, FS_EmptySet DEF HeardIn
  <2> DEFINE none == <<>>
  <2>4. none \in Seq(Hop) /\ IsInjective(none) /\ Range(none) = {}
    BY DEF IsInjective, Range
  <2>5. Unheard = [answered |-> 0, addrs |-> none]
    BY DEF Unheard
  <2> HIDE DEF none
  <2>6. Unheard.answered = 0 /\ Unheard.addrs = none
    BY <2>5
  <2>7. /\ Unheard.answered = Cardinality(Answering(0, ttl))
        /\ Unheard.answered \in Nat /\ Unheard.answered <= 0
    BY <2>3, <2>6
  <2>8. /\ Unheard.addrs \in Seq(Hop) /\ IsInjective(Unheard.addrs)
        /\ Range(Unheard.addrs) = HeardIn(0, ttl)
    BY <2>3, <2>4, <2>6, Zenon
  <2>9. Tells(Unheard, 0, ttl)
    BY <2>7, <2>8, Zenon DEF Tells
  <2> QED BY <2>1, <2>9
<1>5. ASSUME NEW n \in Nat, n \in H PROVE n + 1 \in H
  <2> SUFFICES ASSUME n + 1 <= Len(runs) PROVE Tells(f[n + 1], n + 1, ttl)
    OBVIOUS
  <2>1. Tells(f[n], n, ttl)
    BY <1>1, <1>5
  <2>2. f[n + 1] = AddRun(f[n], runs[n + 1], ttl)
    <3>1. n + 1 \in 0..Len(runs) /\ n + 1 # 0 /\ (n + 1) - 1 = n
      BY <1>1
    <3> QED BY <1>2, <3>1 DEF IsEntry
  <2> QED BY <2>1, <2>2, RunTells
<1> HIDE DEF H
<1>6. \A n \in Nat : n \in H
  BY ONLY <1>4, <1>5, SetInduction
<1> QED BY <1>1, <1>3, <1>6 DEF H

-----------------------------------------------------------------------------
(* Where the command is, and what it has: the traces it keeps are as many  *)
(* as were asked for exactly when they are all made, so an entry's count   *)
(* never reaches the limit at which it would saturate.                     *)
Loop == {"open", "probe", "check", "recv", "end"}

RunsOK ==
  /\ pc = "args" => runs = <<>>
  /\ pc \in Loop => Len(runs) < count
  /\ pc \in {"name", "report"} => Len(runs) = count
  /\ pc = "over" => runs = <<>> \/ Len(runs) = count
  /\ pc \in Loop \/ runs # <<>> => count <= AnsweredMax

NamesOK == hostnames # {} => Len(runs) = count /\ hostnames \subseteq Nameable

ExitOK ==
  /\ pc # "over" => exit = "none"
  /\ exit = "success" => shown /\ Len(runs) = count /\ (strict => LostHops = {})

ReportInv == TypeOK /\ RunsOK /\ NamesOK /\ ExitOK

LEMMA ReportInvInit == Init => ReportInv
<1> SUFFICES ASSUME Init PROVE ReportInv
  OBVIOUS
<1>1. TypeOK
  BY TypeOKInit
<1>2. RunsOK /\ NamesOK /\ ExitOK
  BY DEF Init, RunsOK, Loop, NamesOK, ExitOK
<1> QED BY <1>1, <1>2 DEF ReportInv

LEMMA CountIsPositive == TypeOK => count \in Nat \ {0} /\ Len(runs) \in Nat
BY RouteAssumption DEF TypeOK

(* While the traces are made, nothing of the report is decided.            *)
LEMMA Undecided ==
  ASSUME ReportInv, pc \in Loop \cup {"args"}
  PROVE  hostnames = {} /\ exit = "none"
<1>1. Len(runs) < count
  BY CountIsPositive DEF ReportInv, RunsOK
<1>2. pc # "over"
  BY DEF Loop
<1> QED BY <1>1, <1>2, CountIsPositive DEF ReportInv, NamesOK, ExitOK

(* A step that leaves the traces alone keeps the trace loop's invariant.   *)
LEMMA LoopGoesOn ==
  ASSUME ReportInv, pc \in {"open", "probe", "check", "recv"},
         UNCHANGED <<count, runs, cliVars>>,
         pc' \in {"probe", "check", "recv", "end"}
  PROVE  RunsOK' /\ NamesOK' /\ ExitOK'
<1>1. pc \in Loop /\ pc' \in Loop /\ hostnames = {} /\ exit = "none"
  BY Undecided DEF Loop
<1>2. RunsOK'
  BY <1>1 DEF ReportInv, RunsOK, Loop
<1>3. NamesOK' /\ ExitOK'
  BY <1>1 DEF NamesOK, ExitOK, cliVars
<1> QED BY <1>2, <1>3

LEMMA HopPushed ==
  ASSUME NEW h, NEW from, PushHop(h, from)
  PROVE  UNCHANGED <<count, runs>> /\ pc' \in {"probe", "end"}
BY DEF PushHop

LEMMA ReportInvStep == ReportInv /\ [Next]_vars => ReportInv'
<1> SUFFICES ASSUME ReportInv, [Next]_vars PROVE ReportInv'
  OBVIOUS
<1>0. TypeOK'
  BY TypeOKStep DEF ReportInv
<1> SUFFICES RunsOK' /\ NamesOK' /\ ExitOK'
  BY <1>0 DEF ReportInv
<1>1. CASE Refuse \/ LocalError
  <2>1. /\ pc \in Loop \cup {"args"} /\ pc' = "over" /\ runs' = <<>>
        /\ exit' = "failure" /\ UNCHANGED <<hostnames, strict, shown>>
    BY <1>1 DEF Refuse, LocalError, Abort, Loop
  <2>2. hostnames = {}
    BY <2>1, Undecided
  <2> QED BY <2>1, <2>2 DEF RunsOK, Loop, NamesOK, ExitOK
<1>2. CASE Start
  <2>1. /\ pc = "args" /\ count <= AnsweredMax
        /\ pc' = "open" /\ UNCHANGED <<count, runs, cliVars>>
    BY <1>2 DEF Start, traceVars
  <2>2. hostnames = {} /\ exit = "none" /\ runs = <<>>
    BY <2>1, Undecided DEF ReportInv, RunsOK
  <2>3. Len(runs) < count
    BY <2>2, CountIsPositive DEF ReportInv
  <2> QED BY <2>1, <2>2, <2>3 DEF RunsOK, Loop, NamesOK, ExitOK, cliVars
<1>3. CASE \/ OpenRawSocket \/ SendProbe \/ DeadlinePasses \/ RecvForeign \/ LoseReply
  BY <1>3, LoopGoesOn
  DEF OpenRawSocket, SendProbe, DeadlinePasses, RecvForeign, LoseReply, traceVars, probeVars
<1>4. CASE CheckDeadline \/ RecvNothing
  <2>1. pc \in {"check", "recv"} /\ UNCHANGED cliVars
    BY <1>4 DEF CheckDeadline, RecvNothing
  <2>2. UNCHANGED <<count, runs>> /\ pc' \in {"probe", "check", "recv", "end"}
    <3>1. CASE ProbeLost
      BY <3>1, HopPushed DEF ProbeLost, traceVars
    <3>2. CASE pc' \in {"check", "recv"} /\ UNCHANGED <<traceVars, probe, port, expired, origin>>
      BY <3>2 DEF traceVars
    <3> QED BY <1>4, <3>1, <3>2 DEF CheckDeadline, RecvNothing
  <2> QED BY <2>1, <2>2, LoopGoesOn
<1>5. ASSUME NEW r \in flying, RecvReply(r) PROVE RunsOK' /\ NamesOK' /\ ExitOK'
  <2>1. pc = "recv" /\ UNCHANGED cliVars
    BY <1>5 DEF RecvReply
  <2>2. UNCHANGED <<count, runs>> /\ pc' \in {"probe", "check", "recv", "end"}
    <3>1. CASE PushHop(r.src, Quoted(r))
      BY <3>1, HopPushed
    <3>2. CASE pc' = "check" /\ UNCHANGED <<traceVars, probe, port, expired, origin>>
      BY <3>2 DEF traceVars
    <3> QED BY <1>5, <3>1, <3>2 DEF RecvReply
  <2> QED BY <2>1, <2>2, LoopGoesOn
<1>6. CASE NextRun
  <2>1. /\ pc = "end" /\ runs' = Append(runs, hops)
        /\ pc' = IF Len(runs') < count THEN "open" ELSE "name"
        /\ UNCHANGED <<count, cliVars>>
    BY <1>6 DEF NextRun
  <2>2. hostnames = {} /\ exit = "none" /\ Len(runs) < count /\ count <= AnsweredMax
    BY <2>1, Undecided DEF ReportInv, RunsOK, Loop
  <2>3. Len(runs') = Len(runs) + 1 /\ Len(runs) \in Nat /\ count \in Nat
    <3>1. runs \in Seq(Seq(Hop)) /\ hops \in Seq(Hop) /\ count \in Nat
      BY RouteAssumption DEF ReportInv, TypeOK
    <3> HIDE DEF Hop
    <3> QED BY <2>1, <3>1
  <2>4. RunsOK'
    BY <2>1, <2>2, <2>3 DEF RunsOK, Loop
  <2> QED BY <2>1, <2>2, <2>4 DEF NamesOK, ExitOK, cliVars
<1>7. CASE ResolveHostnames
  <2>1. /\ pc = "name" /\ pc' = "report" /\ hostnames' \subseteq Nameable
        /\ UNCHANGED <<count, runs, exit>>
    BY <1>7 DEF ResolveHostnames, traceVars
  <2>2. Len(runs) = count /\ exit = "none"
    BY <2>1 DEF ReportInv, RunsOK, ExitOK
  <2>3. Nameable' = Nameable
    BY <2>1 DEF Nameable, Reached, Stats
  <2>4. RunsOK'
    BY <2>1, <2>2 DEF ReportInv, RunsOK, Loop
  <2>5. NamesOK'
    BY <2>1, <2>2, <2>3 DEF NamesOK
  <2>6. ExitOK'
    BY <2>1, <2>2 DEF ExitOK
  <2> QED BY <2>4, <2>5, <2>6
<1>8. CASE Report
  <2>1. /\ pc = "report" /\ pc' = "over"
        /\ exit' = "success" => shown' /\ ~(strict /\ LostHops # {})
        /\ UNCHANGED <<count, runs, strict, hostnames>>
    BY <1>8 DEF Report, traceVars
  <2>2. Len(runs) = count
    BY <2>1 DEF ReportInv, RunsOK
  <2>3. Nameable' = Nameable /\ LostHops' = LostHops
    BY <2>1 DEF Nameable, LostHops, Reached, Stats
  <2>4. RunsOK'
    BY <2>1, <2>2 DEF ReportInv, RunsOK, Loop
  <2>5. NamesOK'
    BY <2>1, <2>2, <2>3 DEF ReportInv, NamesOK
  <2>6. ExitOK'
    BY <2>1, <2>2, <2>3 DEF ExitOK
  <2> QED BY <2>4, <2>5, <2>6
<1>9. CASE UNCHANGED vars
  <2>1. UNCHANGED <<count, runs, pc, strict, hostnames, exit, shown>>
    BY <1>9 DEF vars, traceVars, cliVars
  <2>2. Nameable' = Nameable /\ LostHops' = LostHops
    BY <2>1 DEF Nameable, LostHops, Reached, Stats
  <2> QED BY <2>1, <2>2 DEF ReportInv, RunsOK, NamesOK, ExitOK
<1> QED
  BY <1>1, <1>2, <1>3, <1>4, <1>5, <1>6, <1>7, <1>8, <1>9
  DEF Next, Tracer, Network, Exited

LEMMA ReportInvAlways == Spec => []ReportInv
<1>1. Init => ReportInv
  BY ReportInvInit
<1>2. ReportInv /\ [Next]_vars => ReportInv'
  BY ReportInvStep
<1> QED BY <1>1, <1>2, PTL DEF Spec

(* What the entry of a reached TTL says when the traces are all made.      *)
LEMMA EntryFacts ==
  ASSUME ReportInv, Len(runs) = count, NEW ttl \in Reached
  PROVE  LET heard == {runs[r][ttl] : r \in RunsAnswering(ttl)}
         IN  /\ IsFiniteSet(RunsAnswering(ttl))
             /\ Stats(ttl).answered = Cardinality(RunsAnswering(ttl))
             /\ Range(Stats(ttl).addrs) = heard
             /\ Len(Stats(ttl).addrs) = Cardinality(heard)
             /\ Len(Stats(ttl).addrs) \in Nat
<1>1. TypeOK /\ Len(runs) <= AnsweredMax /\ ttl \in Nat \ {0}
  <2>1. TypeOK /\ runs # <<>>
    BY CountIsPositive DEF ReportInv
  <2>2. ttl \in Nat \ {0}
    BY RouteAssumption DEF Reached
  <2> QED BY <2>1, <2>2 DEF ReportInv, RunsOK
<1>2. Tells(Stats(ttl), Len(runs), ttl)
  BY <1>1, StatsTell
<1>3. Len(runs) \in Nat /\ DOMAIN runs = 1..Len(runs)
  BY <1>1 DEF TypeOK
<1>4. Answering(Len(runs), ttl) = RunsAnswering(ttl)
  BY <1>3 DEF Answering, RunsAnswering
<1>5. HeardIn(Len(runs), ttl) = {runs[r][ttl] : r \in RunsAnswering(ttl)}
  BY <1>4 DEF HeardIn
<1>6. IsFiniteSet(RunsAnswering(ttl))
  BY <1>3, <1>4, AnsweringFinite
<1> DEFINE s == Stats(ttl)
           heard == {runs[r][ttl] : r \in RunsAnswering(ttl)}
<1>7. /\ s.answered = Cardinality(RunsAnswering(ttl))
      /\ s.addrs \in Seq(Hop) /\ IsInjective(s.addrs) /\ Range(s.addrs) = heard
  BY <1>2, <1>4, <1>5 DEF Tells
<1>8. IsFiniteSet(heard)
  <2> DEFINE f == [r \in RunsAnswering(ttl) |-> runs[r][ttl]]
  <2>1. f \in Surjection(RunsAnswering(ttl), heard)
    BY DEF Surjection
  <2> HIDE DEF s, f, heard
  <2> QED BY <1>6, <2>1, FS_Surjection
<1> HIDE DEF s, heard
<1>9. s.addrs \in Seq(heard)
  <2>1. Len(s.addrs) \in Nat /\ s.addrs \in [1..Len(s.addrs) -> Hop]
    BY <1>7
  <2>2. \A i \in 1..Len(s.addrs) : s.addrs[i] \in heard
    BY <1>7, <2>1 DEF Range
  <2>3. s.addrs \in [1..Len(s.addrs) -> heard]
    BY <2>1, <2>2
  <2> QED BY <2>1, <2>3
<1>10. Cardinality(Range(s.addrs)) = Len(s.addrs) /\ Len(s.addrs) \in Nat
  BY <1>7, <1>8, <1>9, InjectiveLength
<1> QED BY <1>6, <1>7, <1>10 DEF s, heard

(* A single run has answered at a TTL exactly when its hop was not lost.   *)
LEMMA SingleRun ==
  ASSUME ReportInv, Len(runs) = count, count = 1, NEW ttl \in Reached,
         runs[1][ttl] # NoReply
  PROVE  /\ RunsAnswering(ttl) = {1}
         /\ Cardinality({runs[r][ttl] : r \in RunsAnswering(ttl)}) = 1
<1>1. Len(runs) = 1 /\ DOMAIN runs = {1}
  BY DEF ReportInv, RunsOK, TypeOK
<1>2. ttl <= Len(runs[1])
  BY <1>1 DEF Reached
<1>3. RunsAnswering(ttl) = {1}
  BY <1>1, <1>2 DEF RunsAnswering
<1>4. {runs[r][ttl] : r \in RunsAnswering(ttl)} = {runs[1][ttl]}
  BY <1>3
<1> QED BY <1>3, <1>4, FS_Singleton

(* The aggregate of the runs says what the runs found, for any number of   *)
(* runs that the command line admits.                                      *)
THEOREM AggregateAlwaysHonest == Spec => []AggregateIsHonest
<1>1. ReportInv => AggregateIsHonest
  <2> SUFFICES ASSUME ReportInv, Len(runs) = count, NEW ttl \in Reached
               PROVE  LET heard == {runs[r][ttl] : r \in RunsAnswering(ttl)}
                      IN /\ Stats(ttl).answered = Cardinality(RunsAnswering(ttl))
                         /\ Range(Stats(ttl).addrs) = heard
                         /\ Len(Stats(ttl).addrs) = Cardinality(heard)
                         /\ PathChanged(ttl) <=> Cardinality(heard) > 1
                         /\ ttl \in hostnames => Cardinality(heard) = 1
    BY DEF AggregateIsHonest
  <2> DEFINE heard == {runs[r][ttl] : r \in RunsAnswering(ttl)}
  <2>1. /\ Stats(ttl).answered = Cardinality(RunsAnswering(ttl))
        /\ Range(Stats(ttl).addrs) = heard
        /\ Len(Stats(ttl).addrs) = Cardinality(heard)
        /\ Len(Stats(ttl).addrs) \in Nat
    BY EntryFacts
  <2>2. PathChanged(ttl) <=> Cardinality(heard) > 1
    BY <2>1 DEF PathChanged
  <2>3. ASSUME ttl \in hostnames PROVE Cardinality(heard) = 1
    <3>1. ttl \in Nameable
      BY <2>3 DEF ReportInv, NamesOK
    <3>2. CASE count = 1
      BY <3>1, <3>2, SingleRun DEF Nameable
    <3>3. CASE count # 1
      BY <2>1, <3>1, <3>3 DEF Nameable
    <3> QED BY <3>2, <3>3
  <2> QED BY <2>1, <2>2, <2>3
<1> QED BY <1>1, ReportInvAlways, PTL

(* Exit 0 is earned: every trace was made and printed, and under --strict  *)
(* every TTL that any run reached answered in some run.                    *)
THEOREM SuccessAlwaysEarned == Spec => []SuccessIsEarned
<1>1. ReportInv => SuccessIsEarned
  <2> SUFFICES ASSUME ReportInv, exit = "success"
               PROVE  /\ shown /\ Len(runs) = count
                      /\ strict => \A ttl \in Reached : RunsAnswering(ttl) # {}
    BY DEF SuccessIsEarned
  <2>1. shown /\ Len(runs) = count /\ (strict => LostHops = {})
    BY DEF ReportInv, ExitOK
  <2>2. ASSUME strict, NEW ttl \in Reached PROVE RunsAnswering(ttl) # {}
    <3>1. ttl \notin LostHops
      BY <2>1, <2>2
    <3>2. CASE count = 1
      <4>1. runs[1][ttl] # NoReply
        BY <3>1, <3>2 DEF LostHops
      <4> QED BY <2>1, <3>2, <4>1, SingleRun
    <3>3. CASE count # 1
      <4>1. Stats(ttl).answered # 0
        BY <3>1, <3>3 DEF LostHops
      <4>2. Cardinality(RunsAnswering(ttl)) # 0
        BY <2>1, <4>1, EntryFacts
      <4> QED BY <4>2, FS_EmptySet
    <3> QED BY <3>2, <3>3
  <2> QED BY <2>1, <2>2
<1> QED BY <1>1, ReportInvAlways, PTL

-----------------------------------------------------------------------------
(* Why the loop over TTLs makes traces that end where they should: it goes *)
(* on exactly while neither the destination nor --max-hops is reached.     *)
LoopOK ==
  /\ pc \in {"open", "probe", "check", "recv"} => ~R!Over(hops)
  /\ pc = "end" => R!Over(hops)
  /\ pc \in {"args", "open"} => hops = <<>>

LEMMA HopDecides ==
  ASSUME TypeOK, NEW h \in Hop, NEW from, PushHop(h, from), ~R!Over(hops)
  PROVE  LoopOK'
<1>1. hops' = Append(hops, h) /\ hops \in Seq(Hop)
  BY DEF PushHop, TypeOK
<1> HIDE DEF Hop
<1>2. /\ Len(hops') = Len(hops) + 1 /\ hops' # <<>> /\ hops'[Len(hops')] = h
      /\ Ttl = Len(hops')
  BY <1>1 DEF Ttl
<1>3. R!Over(hops') <=> h = Dest \/ Ttl = MaxHops
  BY <1>2 DEF R!Over
<1>4. pc' = IF h = Dest \/ Ttl = MaxHops THEN "end" ELSE "probe"
  BY DEF PushHop
<1> QED BY <1>3, <1>4 DEF LoopOK

LEMMA LostProbeDecides ==
  ASSUME TypeOK, LoopOK, ProbeLost, pc \in {"check", "recv"}
  PROVE  LoopOK'
<1>1. CASE PushHop(NoReply, Unmatched)
  BY <1>1, HopDecides DEF LoopOK
<1>2. CASE pc' = "probe" /\ UNCHANGED <<traceVars, origin>>
  BY <1>2 DEF LoopOK, traceVars
<1> QED BY <1>1, <1>2 DEF ProbeLost

LEMMA NothingIsNotOver == ~R!Over(<<>>)
BY RouteAssumption DEF R!Over

LEMMA LoopOKStep == TypeOK /\ LoopOK /\ [Next]_vars => LoopOK'
<1> SUFFICES ASSUME TypeOK, LoopOK, [Next]_vars PROVE LoopOK'
  OBVIOUS
<1>1. CASE Refuse \/ LocalError
  BY <1>1 DEF Refuse, LocalError, Abort, LoopOK
<1>2. CASE Start \/ OpenRawSocket
  <2>1. hops' = <<>> /\ pc' \in {"open", "probe"}
    BY <1>2 DEF Start, OpenRawSocket, traceVars, LoopOK
  <2> QED BY <2>1, NothingIsNotOver DEF LoopOK
<1>3. CASE SendProbe \/ DeadlinePasses \/ RecvForeign \/ LoseReply
  <2>1. /\ hops' = hops /\ pc \in {"probe", "check", "recv"} /\ pc' \in {"check", "recv"}
    BY <1>3 DEF SendProbe, DeadlinePasses, RecvForeign, LoseReply, traceVars
  <2> QED BY <2>1 DEF LoopOK
<1>4. CASE CheckDeadline \/ RecvNothing
  <2>1. CASE ProbeLost
    BY <1>4, <2>1, LostProbeDecides DEF CheckDeadline, RecvNothing
  <2>2. CASE /\ pc' \in {"check", "recv"}
             /\ UNCHANGED <<traceVars, probe, port, expired, origin>>
    BY <1>4, <2>2 DEF CheckDeadline, RecvNothing, LoopOK, traceVars
  <2> QED BY <1>4, <2>1, <2>2 DEF CheckDeadline, RecvNothing
<1>5. ASSUME NEW r \in flying, RecvReply(r) PROVE LoopOK'
  <2>1. pc = "recv" /\ r.src \in Hop
    BY <1>5 DEF RecvReply, TypeOK, Reply
  <2>2. CASE PushHop(r.src, Quoted(r))
    BY <2>1, <2>2, HopDecides DEF LoopOK
  <2>3. CASE pc' = "check" /\ UNCHANGED <<traceVars, probe, port, expired, origin>>
    BY <2>1, <2>3 DEF LoopOK, traceVars
  <2> QED BY <1>5, <2>2, <2>3 DEF RecvReply
<1>6. CASE NextRun
  <2>1. hops' = <<>> /\ pc' \in {"open", "name"}
    BY <1>6 DEF NextRun
  <2> QED BY <2>1, NothingIsNotOver DEF LoopOK
<1>7. CASE ResolveHostnames \/ Report
  BY <1>7 DEF ResolveHostnames, Report, LoopOK
<1>8. CASE UNCHANGED vars
  BY <1>8 DEF vars, traceVars, LoopOK
<1> QED
  BY <1>1, <1>2, <1>3, <1>4, <1>5, <1>6, <1>7, <1>8
  DEF Next, Tracer, Network, Exited

LEMMA LoopOKAlways == Spec => []LoopOK
<1>1. Init => LoopOK
  BY DEF Init, LoopOK
<1>2. TypeOK /\ LoopOK /\ [Next]_vars => LoopOK'
  BY LoopOKStep
<1> QED BY <1>1, <1>2, TypeCorrect, PTL DEF Spec

-----------------------------------------------------------------------------
(* What the code does to a trace is what Route promises of it.             *)
LEMMA AnswersAreSources ==
  ASSUME TypeOK'
  PROVE  Answers' \in SUBSET Source
BY DEF TypeOK, Answers, Reply

LEMMA Phases ==
  /\ pc = "args" => Phase = "idle"
  /\ pc \in Loop => Phase = "tracing"
  /\ pc \in {"name", "report"} => Phase = "traced"
  /\ pc = "over" => Phase = IF runs = <<>> THEN "failed" ELSE "traced"
BY DEF Phase, Loop

LEMMA PhasesNext ==
  /\ pc' = "args" => Phase' = "idle"
  /\ pc' \in Loop => Phase' = "tracing"
  /\ pc' \in {"name", "report"} => Phase' = "traced"
  /\ pc' = "over" => Phase' = IF runs' = <<>> THEN "failed" ELSE "traced"
BY DEF Phase, Loop

(* A hop that is pushed is one Route may add: the trace was not over, and  *)
(* an address answered a probe of this very hop.                           *)
LEMMA PushedHopIsPromised ==
  ASSUME TypeOK', IInv, LoopOK, pc \in {"check", "recv"},
         NEW h \in Hop, NEW from, PushHop(h, from), h \in Answers \cup {NoReply}
  PROVE  R!RouteNext
<1>1. ~R!Over(hops)
  BY DEF LoopOK
<1>2. Phase = "tracing" /\ Phase' = "tracing"
  <2>1. pc \in Loop /\ pc' \in Loop
    BY DEF PushHop, Loop
  <2> QED BY <2>1, Phases, PhasesNext
<1>3. R!AddHop(h)
  BY <1>1, <1>2 DEF PushHop, R!AddHop
<1> QED BY <1>3, AnswersAreSources DEF R!RouteNext

(* A reply that quotes the port of the current probe is among the answers. *)
LEMMA MatchedReplyIsAnswer ==
  ASSUME IInv, pc = "recv", NEW r \in flying, r.port = port
  PROVE  r.src \in Answers
<1>1. CASE reused
  BY <1>1 DEF IInv, TypeOK, Reply, Answers
<1>2. CASE ~reused
  <2>1. Quoted(r) = Current
    BY <1>2 DEF IInv, Matched, Current
  <2> QED BY <1>2, <2>1 DEF Answers
<1>3. reused \in BOOLEAN
  BY DEF IInv, TypeOK
<1> QED BY <1>1, <1>2, <1>3

LEMMA WaitIsPromised ==
  ASSUME TypeOK', UNCHANGED <<count, hops, runs>>, Phase' = Phase
  PROVE  R!RouteNext
BY AnswersAreSources DEF R!RouteNext, R!Wait

LEMMA RouteStep ==
  TypeOK' /\ IInv /\ ReportInv /\ LoopOK /\ [Next]_vars => [R!RouteNext]_(R!routeVars)
<1> SUFFICES ASSUME TypeOK', IInv, ReportInv, LoopOK, [Next]_vars PROVE R!RouteNext
  OBVIOUS
<1>1. CASE Refuse \/ LocalError
  <2>1. /\ pc \in Loop \cup {"args"} /\ pc' = "over"
        /\ hops' = <<>> /\ runs' = <<>> /\ UNCHANGED count
    BY <1>1 DEF Refuse, LocalError, Abort, Loop
  <2>2. Phase \in {"idle", "tracing"} /\ Phase' = "failed"
    BY <2>1, Phases, PhasesNext
  <2>3. R!Fail
    BY <2>1, <2>2 DEF R!Fail
  <2> QED BY <2>3, AnswersAreSources DEF R!RouteNext
<1>2. CASE Start
  <2>1. pc = "args" /\ pc' \in Loop /\ UNCHANGED <<count, hops, runs>>
    BY <1>2 DEF Start, Loop, traceVars
  <2>2. R!Begin
    BY <2>1, Phases, PhasesNext DEF R!Begin
  <2> QED BY <2>2, AnswersAreSources DEF R!RouteNext
<1>3. CASE \/ OpenRawSocket \/ SendProbe \/ DeadlinePasses \/ RecvForeign \/ LoseReply
  <2>1. pc \in Loop /\ pc' \in Loop /\ UNCHANGED <<count, hops, runs>>
    BY <1>3 DEF OpenRawSocket, SendProbe, DeadlinePasses, RecvForeign, LoseReply,
                Loop, traceVars
  <2> QED BY <2>1, Phases, PhasesNext, WaitIsPromised
<1>4. CASE CheckDeadline \/ RecvNothing
  <2>1. pc \in {"check", "recv"} /\ pc \in Loop
    BY <1>4 DEF CheckDeadline, RecvNothing, Loop
  <2>2. CASE PushHop(NoReply, Unmatched)
    BY <2>1, <2>2, PushedHopIsPromised
  <2>3. CASE pc' \in {"probe", "check", "recv"} /\ UNCHANGED traceVars
    <3>1. pc' \in Loop /\ UNCHANGED <<count, hops, runs>>
      BY <2>3 DEF Loop, traceVars
    <3> QED BY <2>1, <3>1, Phases, PhasesNext, WaitIsPromised
  <2> QED BY <1>4, <2>2, <2>3 DEF CheckDeadline, RecvNothing, ProbeLost
<1>5. ASSUME NEW r \in flying, RecvReply(r) PROVE R!RouteNext
  <2>1. pc = "recv" /\ pc \in Loop /\ r.src \in Hop
    BY <1>5 DEF RecvReply, Loop, IInv, TypeOK, Reply
  <2>2. CASE r.port = port /\ PushHop(r.src, Quoted(r))
    BY <2>1, <2>2, MatchedReplyIsAnswer, PushedHopIsPromised
  <2>3. CASE pc' = "check" /\ UNCHANGED traceVars
    <3>1. pc' \in Loop /\ UNCHANGED <<count, hops, runs>>
      BY <2>3 DEF Loop, traceVars
    <3> QED BY <2>1, <3>1, Phases, PhasesNext, WaitIsPromised
  <2> QED BY <1>5, <2>2, <2>3 DEF RecvReply
<1>6. CASE NextRun
  <2>1. /\ pc = "end" /\ pc \in Loop /\ runs' = Append(runs, hops) /\ hops' = <<>>
        /\ pc' = (IF Len(runs') < count THEN "open" ELSE "name") /\ UNCHANGED count
    BY <1>6 DEF NextRun, Loop
  <2>2. Len(runs) < count /\ Len(runs') = Len(runs) + 1
    <3>1. runs \in Seq(Seq(Hop)) /\ hops \in Seq(Hop)
      BY DEF IInv, TypeOK
    <3> HIDE DEF Hop
    <3> QED BY <2>1, <3>1 DEF ReportInv, RunsOK
  <2>3. count \in Nat /\ Len(runs) \in Nat
    BY CountIsPositive DEF ReportInv
  <2>4. Len(runs') < count <=> Len(runs) + 1 # count
    BY <2>2, <2>3
  <2>5. Phase = "tracing" /\ Phase' = IF Len(runs) + 1 = count THEN "traced" ELSE "tracing"
    <3>1. pc' = "open" => pc' \in Loop
      BY DEF Loop
    <3> QED BY <2>1, <2>4, <3>1, Phases, PhasesNext
  <2>6. R!EndTrace
    BY <2>1, <2>5 DEF R!EndTrace, LoopOK
  <2> QED BY <2>6, AnswersAreSources DEF R!RouteNext
<1>7. CASE ResolveHostnames \/ Report
  <2>1. /\ pc \in {"name", "report"} /\ pc' \in {"report", "over"}
        /\ UNCHANGED <<count, hops, runs>>
    BY <1>7 DEF ResolveHostnames, Report, traceVars
  <2>2. runs # <<>>
    BY <2>1, CountIsPositive DEF ReportInv, RunsOK
  <2>3. Phase = "traced" /\ Phase' = "traced"
    BY <2>1, <2>2, Phases, PhasesNext
  <2> QED BY <2>1, <2>3, WaitIsPromised
<1>8. CASE UNCHANGED vars
  <2>1. UNCHANGED <<count, hops, runs>> /\ Phase' = Phase
    BY <1>8 DEF vars, traceVars, Phase
  <2> QED BY <2>1, WaitIsPromised
<1> QED
  BY <1>1, <1>2, <1>3, <1>4, <1>5, <1>6, <1>7, <1>8
  DEF Next, Tracer, Network, Exited

(* The loops over runs, TTLs and probes implement Route for every network, *)
(* any number of hops, probes, ports and runs: the traces end where they   *)
(* should, and each hop is answered by the answer to one of its own probes.*)
THEOREM Implementation == Spec => ImplementsRoute
<1>1. Init => R!RouteInit
  BY DEF Init, R!RouteInit, Phase, Answers
<1>2. TypeOK' /\ IInv /\ ReportInv /\ LoopOK /\ [Next]_vars
        => [R!RouteNext]_(R!routeVars)
  BY RouteStep
<1> QED
  BY <1>1, <1>2, TypeCorrect, IInvAlways, ReportInvAlways, LoopOKAlways, PTL
  DEF Spec, R!RouteSpec, ImplementsRoute

=============================================================================
