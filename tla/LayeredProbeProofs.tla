------------------------- MODULE LayeredProbeProofs -------------------------
(***************************************************************************)
(* Proofs about LayeredProbe, for any --timeout, any caps and sizes of a   *)
(* body, and any sets of flags.                                            *)
(***************************************************************************)
EXTENDS LayeredProbe, FiniteSetTheorems, SequenceTheorems, TLAPS

-----------------------------------------------------------------------------
(* Minima of two and three numbers.                                        *)
LEMMA MinOfTwo ==
  ASSUME NEW a \in Nat, NEW b \in Nat
  PROVE  Min({a, b}) = IF a <= b THEN a ELSE b
<1> DEFINE m == IF a <= b THEN a ELSE b
<1>1. m \in {a, b} /\ \A y \in {a, b} : m <= y
  OBVIOUS
<1>2. \A x \in {a, b} : (\A y \in {a, b} : x <= y) => x = m
  OBVIOUS
<1> HIDE DEF m
<1>3. Min({a, b}) = m
  BY <1>1, <1>2 DEF Min
<1> QED BY <1>3 DEF m

LEMMA MinOfThree ==
  ASSUME NEW a \in Nat, NEW b \in Nat, NEW c \in Nat
  PROVE  Min({a, b, c}) = Min({a, Min({b, c})})
<1> DEFINE n == IF b <= c THEN b ELSE c
           m == IF a <= n THEN a ELSE n
<1>1. Min({a, Min({b, c})}) = m
  BY MinOfTwo
<1>2. m \in {a, b, c} /\ \A y \in {a, b, c} : m <= y
  OBVIOUS
<1>3. \A x \in {a, b, c} : (\A y \in {a, b, c} : x <= y) => x = m
  OBVIOUS
<1> HIDE DEF n, m
<1>4. Min({a, b, c}) = m
  BY <1>2, <1>3 DEF Min
<1> QED BY <1>1, <1>4

-----------------------------------------------------------------------------
(* All probes take their steps in one order: s is a list of the steps in S *)
(* by their places.                                                        *)
Place(s) ==
  CASE s \in {"locate", "endpoint"} -> 1
    [] s \in {"lookup4", "dial"} -> 2
    [] s = "lookup6" -> 3
    [] s = "query" -> 4
    [] s = "connect" -> 5
    [] s = "name" -> 6
    [] s \in {"tls", "quic"} -> 7
    [] s \in {"setup", "frame"} -> 8
    [] s \in {"build", "write"} -> 9
    [] s \in {"enqueue", "send", "header"} -> 10
    [] s \in {"upload", "answer"} -> 11
    [] s = "finish" -> 12
    [] s = "response" -> 13
    [] s \in {"body", "collect"} -> 14
    [] s = "judge" -> 15

Orderly(s, S) ==
  /\ s \in Seq(S)
  /\ \A x \in S : \E i \in 1..Len(s) : s[i] = x
  /\ \A i, j \in 1..Len(s) : i < j => Place(s[i]) < Place(s[j])

LEMMA OrderlyConcatenation ==
  ASSUME NEW s, NEW S, Orderly(s, S),
         NEW t, NEW T, Orderly(t, T),
         \A x \in S, y \in T : Place(x) < Place(y)
  PROVE  Orderly(s \o t, S \cup T)
<1> DEFINE m == Len(s)
           n == Len(t)
           st == s \o t
<1>1. /\ m \in Nat /\ n \in Nat
      /\ st \in Seq(S \cup T) /\ Len(st) = m + n
      /\ \A i \in 1..m + n : st[i] = IF i <= m THEN s[i] ELSE t[i - m]
  <2>1. s \in Seq(S \cup T) /\ t \in Seq(S \cup T)
    BY DEF Orderly
  <2> QED BY <2>1, ConcatProperties, LenProperties
<1>2. \A i \in 1..m : s[i] \in S
  BY DEF Orderly
<1>3. \A i \in 1..n : t[i] \in T
  BY DEF Orderly
<1> HIDE DEF m, n, st
<1>4. \A i \in 1..m : i \in 1..m + n /\ st[i] = s[i]
  BY <1>1
<1>5. \A i \in 1..n : m + i \in 1..m + n /\ st[m + i] = t[i]
  <2> SUFFICES ASSUME NEW i \in 1..n PROVE m + i \in 1..m + n /\ st[m + i] = t[i]
    OBVIOUS
  <2>1. m + i \in 1..m + n /\ ~(m + i <= m) /\ m + i - m = i
    BY <1>1
  <2> QED BY <1>1, <2>1
<1>6. \A k \in 1..m + n : k \in 1..m \/ (\E i \in 1..n : k = m + i)
  <2> SUFFICES ASSUME NEW k \in 1..m + n, k \notin 1..m
               PROVE  \E i \in 1..n : k = m + i
    OBVIOUS
  <2> k - m \in 1..n /\ k = m + (k - m)
    BY <1>1
  <2> QED OBVIOUS
<1>7. \A x \in S \cup T : \E k \in 1..m + n : st[k] = x
  <2>1. \A x \in S : \E i \in 1..m : s[i] = x
    BY DEF Orderly, m
  <2>2. \A x \in T : \E i \in 1..n : t[i] = x
    BY DEF Orderly, n
  <2> QED BY <1>4, <1>5, <2>1, <2>2
<1>8. ASSUME NEW i \in 1..m + n, NEW j \in 1..m + n, i < j
      PROVE  Place(st[i]) < Place(st[j])
  <2>1. CASE j \in 1..m
    <3>1. i \in 1..m
      BY <1>1, <1>8, <2>1
    <3> QED BY <1>4, <1>8, <2>1, <3>1 DEF Orderly, m
  <2>2. CASE i \notin 1..m
    <3>1. PICK k \in 1..n : i = m + k
      BY <1>6, <2>2
    <3>2. PICK l \in 1..n : j = m + l
      BY <1>1, <1>6, <1>8, <2>2
    <3>3. k < l
      BY <1>1, <1>8, <3>1, <3>2
    <3> QED BY <1>5, <3>1, <3>2, <3>3 DEF Orderly, n
  <2>3. CASE i \in 1..m /\ j \notin 1..m
    <3>1. st[i] \in S
      BY <1>2, <1>4, <2>3
    <3>2. st[j] \in T
      BY <1>3, <1>5, <1>6, <2>3
    <3> QED BY <3>1, <3>2
  <2> QED BY <2>1, <2>2, <2>3
<1> QED BY <1>1, <1>7, <1>8 DEF Orderly, st

(* The steps of each kind of probe.                                        *)
StepSet(p) ==
  CASE p.kind = "tcp" -> {"connect"}
    [] p.kind = "tls" -> {"connect", "name", "tls"}
    [] p.kind = "plain" -> {"connect", "setup", "build", "response", "body"}
    [] p.kind = "http" ->
         {"connect", "name", "tls", "setup", "build", "response", "body"}
    [] p.kind = "http2" ->
         {"connect", "name", "tls", "setup", "build", "enqueue", "response", "body"}
    [] p.kind = "http3" ->
         {"endpoint", "dial", "quic", "setup", "build", "send", "finish",
          "response", "body"} \cup (IF p.body THEN {"upload"} ELSE {})
    [] p.kind = "doh" ->
         {"locate", "lookup4", "lookup6", "query", "connect", "name", "tls",
          "setup", "build", "response", "collect", "judge"}
    [] p.kind = "dot" ->
         {"locate", "lookup4", "lookup6", "query", "connect", "name", "tls",
          "frame", "write", "header", "answer", "judge"}

LEMMA StepsInOrder ==
  ASSUME NEW p \in Plans
  PROVE  Orderly(Steps(p), StepSet(p))
<1>1. Orderly(<<"connect">>, {"connect"})
  BY DEF Orderly, Place
<1>2. Orderly(Connection, {"connect", "name", "tls"})
  BY DEF Orderly, Place, Connection
<1>3. Orderly(Http1Steps, {"setup", "build", "response", "body"})
  BY DEF Orderly, Place, Http1Steps
<1>4. Orderly(Http2Steps, {"setup", "build", "enqueue", "response", "body"})
  BY DEF Orderly, Place, Http2Steps
<1>5. Orderly(Locating, {"locate", "lookup4", "lookup6", "query"})
  BY DEF Orderly, Place, Locating
<1>6. Orderly(<<"setup", "build", "response", "collect", "judge">>,
              {"setup", "build", "response", "collect", "judge"})
  BY DEF Orderly, Place
<1>7. Orderly(<<"frame", "write", "header", "answer", "judge">>,
              {"frame", "write", "header", "answer", "judge"})
  BY DEF Orderly, Place
<1>8. Orderly(<<"endpoint", "dial", "quic", "setup", "build", "send">>,
              {"endpoint", "dial", "quic", "setup", "build", "send"})
  BY DEF Orderly, Place
<1>9. Orderly(<<"upload">>, {"upload"})
  BY DEF Orderly, Place
<1>10. Orderly(<<>>, {})
  BY DEF Orderly
<1>11. Orderly(<<"finish", "response", "body">>, {"finish", "response", "body"})
  BY DEF Orderly, Place
<1>12. CASE p.kind = "tcp"
  BY <1>1, <1>12 DEF Steps, StepSet
<1>13. CASE p.kind = "tls"
  BY <1>2, <1>13 DEF Steps, StepSet
<1>14. CASE p.kind = "plain"
  <2>1. Orderly(<<"connect">> \o Http1Steps,
                {"connect"} \cup {"setup", "build", "response", "body"})
    BY <1>1, <1>3, OrderlyConcatenation DEF Place
  <2> QED BY <1>14, <2>1 DEF Steps, StepSet
<1>15. CASE p.kind = "http"
  <2>1. Orderly(Connection \o Http1Steps,
                {"connect", "name", "tls"} \cup {"setup", "build", "response", "body"})
    BY <1>2, <1>3, OrderlyConcatenation DEF Place
  <2> QED BY <1>15, <2>1 DEF Steps, StepSet
<1>16. CASE p.kind = "http2"
  <2>1. Orderly(Connection \o Http2Steps,
                {"connect", "name", "tls"}
                  \cup {"setup", "build", "enqueue", "response", "body"})
    BY <1>2, <1>4, OrderlyConcatenation DEF Place
  <2> QED BY <1>16, <2>1 DEF Steps, StepSet
<1>17. CASE p.kind = "http3"
  <2> DEFINE u == IF p.body THEN <<"upload">> ELSE <<>>
             U == IF p.body THEN {"upload"} ELSE {}
  <2>1. Orderly(u, U)
    BY <1>9, <1>10
  <2>2. Orderly(<<"endpoint", "dial", "quic", "setup", "build", "send">> \o u,
                {"endpoint", "dial", "quic", "setup", "build", "send"} \cup U)
    BY <1>8, <2>1, OrderlyConcatenation DEF Place
  <2>3. Orderly(Http3Steps(p.body),
                {"endpoint", "dial", "quic", "setup", "build", "send"} \cup U
                  \cup {"finish", "response", "body"})
    BY <1>11, <2>2, OrderlyConcatenation DEF Place, Http3Steps
  <2>4. StepSet(p) = {"endpoint", "dial", "quic", "setup", "build", "send"} \cup U
                       \cup {"finish", "response", "body"}
    BY <1>17 DEF StepSet
  <2> QED BY <1>17, <2>3, <2>4 DEF Steps
<1>18. Orderly(Locating \o Connection,
               {"locate", "lookup4", "lookup6", "query"} \cup {"connect", "name", "tls"})
  BY <1>2, <1>5, OrderlyConcatenation DEF Place
<1>19. CASE p.kind = "doh"
  <2>1. Orderly(DohSteps,
                ({"locate", "lookup4", "lookup6", "query"} \cup {"connect", "name", "tls"})
                  \cup {"setup", "build", "response", "collect", "judge"})
    BY <1>6, <1>18, OrderlyConcatenation DEF Place, DohSteps
  <2> QED BY <1>19, <2>1 DEF Steps, StepSet
<1>20. CASE p.kind = "dot"
  <2>1. Orderly(DotSteps,
                ({"locate", "lookup4", "lookup6", "query"} \cup {"connect", "name", "tls"})
                  \cup {"frame", "write", "header", "answer", "judge"})
    BY <1>7, <1>18, OrderlyConcatenation DEF Place, DotSteps
  <2> QED BY <1>20, <2>1 DEF Steps, StepSet
<1> QED BY <1>12, <1>13, <1>14, <1>15, <1>16, <1>17, <1>19, <1>20
        DEF Plans, Protocols

(* At the step of number i, the steps passed are those of lower places.    *)
LEMMA PassedIsLower ==
  ASSUME NEW p \in Plans, NEW i \in 1..Len(Steps(p)), NEW x
  PROVE  (\E j \in 1..i - 1 : Steps(p)[j] = x)
           <=> x \in StepSet(p) /\ Place(x) < Place(Steps(p)[i])
<1> DEFINE s == Steps(p)
<1>1. /\ Len(s) \in Nat
      /\ \A j \in 1..Len(s) : s[j] \in StepSet(p)
      /\ \A y \in StepSet(p) : \E j \in 1..Len(s) : s[j] = y
      /\ \A j, k \in 1..Len(s) : j < k => Place(s[j]) < Place(s[k])
  BY StepsInOrder, LenProperties DEF Orderly
<1>2. \A y \in StepSet(p) : Place(y) \in Nat
  BY DEF Plans, Protocols, StepSet, Place
<1> HIDE DEF s
<1>3. ASSUME NEW j \in 1..i - 1, s[j] = x
      PROVE  x \in StepSet(p) /\ Place(x) < Place(s[i])
  BY <1>1, <1>3 DEF s
<1>4. ASSUME x \in StepSet(p), Place(x) < Place(s[i])
      PROVE  \E j \in 1..i - 1 : s[j] = x
  <2>1. PICK j \in 1..Len(s) : s[j] = x
    BY <1>1, <1>4
  <2>2. Place(s[j]) \in Nat /\ Place(s[i]) \in Nat
    BY <1>1, <1>2 DEF s
  <2>3. ~(i < j) /\ i # j
    BY <1>1, <1>4, <2>1, <2>2 DEF s
  <2> QED BY <1>1, <2>1, <2>3 DEF s
<1> QED BY <1>3, <1>4 DEF s

-----------------------------------------------------------------------------
(* What clap accepts.                                                      *)
LEMMA LineFacts ==
  ASSUME NEW l \in CommandLines(FlagSets)
  PROVE  /\ l.command \in Commands
         /\ l.flags \subseteq Known(l.command)
         /\ l.protocol \in Protocols
         /\ l.version \in Versions \cup {"auto"}
         /\ l.cap \in Caps \cup {DefaultCap}
         /\ Parsed(l.command, l.flags, l.protocol, l.version, l.cap)
<1> DEFINE Values(c) ==
      {a \in {f \in FlagSets : f \subseteq Known(c)} \X Protocols
               \X (Versions \cup {"auto"}) \X (Caps \cup {DefaultCap}) :
         Parsed(c, a[1], a[2], a[3], a[4])}
<1>1. PICK c \in Commands :
        l \in {[command |-> c, flags |-> a[1], protocol |-> a[2],
                version |-> a[3], cap |-> a[4]] : a \in Values(c)}
  BY DEF CommandLines
<1>2. PICK a \in Values(c) :
        l = [command |-> c, flags |-> a[1], protocol |-> a[2],
             version |-> a[3], cap |-> a[4]]
  BY <1>1
<1>3. /\ a[1] \subseteq Known(c) /\ a[2] \in Protocols
      /\ a[3] \in Versions \cup {"auto"} /\ a[4] \in Caps \cup {DefaultCap}
      /\ Parsed(c, a[1], a[2], a[3], a[4])
  BY <1>2
<1> QED BY <1>2, <1>3

(* The options of the entry points that each command calls.                *)
Takes(t, f, plain, version, file) ==
  /\ "plain" \in t <=> plain
  /\ "insecure" \in t => "insecure" \in f
  /\ version => "version" \in t
  /\ file => "cap" \in t /\ "output" \in t

LEMMA OptionsTaken ==
  ASSUME NEW f
  PROVE  /\ Takes(TlsOptions(RunTls(f)), f, FALSE, TRUE, FALSE)
         /\ Takes(HttpOptions(RunHttp(f)), f, "plain" \in f, "plain" \notin f, TRUE)
         /\ Takes(HttpOptions(HttpRepeat(f)), f, "plain" \in f, "plain" \notin f, FALSE)
         /\ Takes(Http2Options(RunHttp2(f)), f, FALSE, TRUE, TRUE)
         /\ Takes(Http2Options(Http2Repeat(f)), f, FALSE, TRUE, FALSE)
         /\ Takes(Http3Options(RunHttp3(f)), f, FALSE, FALSE, TRUE)
         /\ Takes(Http3Options(Http3Repeat(f)), f, FALSE, FALSE, FALSE)
<1>1. Takes(TlsOptions(RunTls(f)), f, FALSE, TRUE, FALSE)
  BY DEF Takes, TlsOptions, RunTls
<1>2. Takes(HttpOptions(RunHttp(f)), f, "plain" \in f, "plain" \notin f, TRUE)
  BY DEF Takes, HttpOptions, RunHttp
<1>3. Takes(HttpOptions(HttpRepeat(f)), f, "plain" \in f, "plain" \notin f, FALSE)
  BY DEF Takes, HttpOptions, HttpRepeat
<1>4. Takes(Http2Options(RunHttp2(f)), f, FALSE, TRUE, TRUE)
  BY DEF Takes, Http2Options, RunHttp2
<1>5. Takes(Http2Options(Http2Repeat(f)), f, FALSE, TRUE, FALSE)
  BY DEF Takes, Http2Options, Http2Repeat
<1>6. Takes(Http3Options(RunHttp3(f)), f, FALSE, FALSE, TRUE)
  BY DEF Takes, Http3Options, RunHttp3
<1>7. Takes(Http3Options(Http3Repeat(f)), f, FALSE, FALSE, FALSE)
  BY DEF Takes, Http3Options, Http3Repeat
<1> QED BY <1>1, <1>2, <1>3, <1>4, <1>5, <1>6, <1>7

(* The probe that runs takes what the user typed, and was typed nothing it *)
(* has no use for.                                                         *)
Suits(p, l) ==
  /\ \A v \in p.offered : v \in Versions /\ l.version \in {"auto", v}
  /\ p.insecure => "insecure" \in l.flags
  /\ "plain" \in l.flags => p.kind = "plain"
  /\ p.cap = l.cap
  /\ p.output <=> "output" \in l.flags
  /\ "insecure" \in l.flags => p.kind \notin {"tcp", "plain"} \/ "resolver" \in l.flags
  /\ "version" \in l.flags => p.kind \notin {"tcp", "plain", "http3"}
  /\ l.flags \cap {"request", "body", "output", "cap"} # {} =>
       p.kind \in {"plain", "http", "http2", "http3"}
  /\ "sni" \in l.flags => p.kind # "tcp"

LEMMA PlanSuits ==
  ASSUME NEW l \in CommandLines(FlagSets), ~Refused(l)
  PROVE  Plan(l) \in Plans /\ Suits(Plan(l), l)
<1> DEFINE f == l.flags
           t == Options(l)
<1>1. /\ l.command \in Commands
      /\ f \subseteq Known(l.command)
      /\ l.protocol \in Protocols
      /\ l.version \in Versions \cup {"auto"}
      /\ l.cap \in Caps \cup {DefaultCap}
      /\ ~Conflicting(f)
      /\ "version" \notin f => l.version = "auto"
      /\ "cap" \notin f => l.cap = DefaultCap
      /\ l.command \in Protocols => l.protocol = l.command
  BY LineFacts DEF Parsed
<1> HIDE DEF f, t
<1>2. CASE l.command = "dns"
  <2>1. f \subseteq {"resolver", "insecure", "doh"} /\ "resolver" \in f
    BY <1>1, <1>2, LineFacts DEF Known, Parsed, f
  <2> DEFINE p == [kind |-> IF "doh" \in f THEN "doh" ELSE "dot",
                   insecure |-> "insecure" \in f, offered |-> Versions,
                   cap |-> DefaultCap, output |-> FALSE, body |-> FALSE]
  <2>2. Plan(l) = p
    BY <1>2 DEF Plan, Query, f
  <2>3. p \in Plans
    BY DEF Plans
  <2>4. Suits(p, l)
    BY <1>1, <2>1 DEF Suits, f
  <2> QED BY <2>2, <2>3, <2>4
<1>3. CASE l.command # "dns"
  <2> DEFINE p == Probe(l)
             plain == l.protocol = "http" /\ "plain" \in f
             version == l.protocol \in {"tls", "http", "http2"} /\ ~plain
             once == l.command # "probe"
             file == once /\ l.protocol \in {"http", "http2", "http3"}
  <2>1. Takes(t, f, plain, version, file)
    <3>1. CASE l.protocol = "tcp"
      BY <3>1 DEF Takes, Options, t
    <3>2. CASE l.protocol = "tls"
      BY <3>2, OptionsTaken DEF Options, t, f
    <3>3. CASE l.protocol = "http" /\ once
      BY <3>3, OptionsTaken DEF Takes, Options, t, f
    <3>4. CASE l.protocol = "http" /\ ~once
      BY <3>4, OptionsTaken DEF Takes, Options, t, f
    <3>5. CASE l.protocol = "http2" /\ once
      BY <3>5, OptionsTaken DEF Options, t, f
    <3>6. CASE l.protocol = "http2" /\ ~once
      BY <3>6, OptionsTaken DEF Options, t, f
    <3>7. CASE l.protocol = "http3" /\ once
      BY <3>7, OptionsTaken DEF Options, t, f
    <3>8. CASE l.protocol = "http3" /\ ~once
      BY <3>8, OptionsTaken DEF Options, t, f
    <3> QED BY <1>1, <3>1, <3>2, <3>3, <3>4, <3>5, <3>6, <3>7, <3>8 DEF Protocols
  <2>2. /\ "plain" \in f => plain
        /\ "version" \in f => version
        /\ f \cap {"output", "cap"} # {} => file
        /\ f \cap {"request", "body"} # {} => l.protocol \in {"http", "http2", "http3"}
        /\ "insecure" \in f => (l.protocol # "tcp" /\ ~plain) \/ "resolver" \in f
        /\ "sni" \in f => l.protocol # "tcp"
    BY <1>1, <1>3 DEF Commands, Protocols, Known, Conflicting, Refused, f
  <2>3. /\ p.kind = (IF plain THEN "plain" ELSE l.protocol)
        /\ p.insecure = ("insecure" \in t)
        /\ p.offered = (IF l.protocol = "http3" THEN {"1.3"}
                        ELSE IF "version" \in t /\ l.version # "auto"
                             THEN {l.version} ELSE Versions)
        /\ p.cap = (IF "cap" \in t THEN l.cap ELSE DefaultCap)
        /\ p.output = ("output" \in t /\ "output" \in f)
        /\ p \in Plans
    <3>1. "plain" \in t <=> plain
      BY <2>1 DEF Takes
    <3> HIDE DEF plain
    <3> QED BY <1>1, <3>1 DEF Probe, Plans, Versions, t, f
  <2>4. Suits(p, l)
    <3> HIDE DEF p
    <3>1. \A v \in p.offered : v \in Versions /\ l.version \in {"auto", v}
      BY <1>1, <2>1, <2>2, <2>3 DEF Takes, Versions
    <3> QED BY <1>1, <2>1, <2>2, <2>3, <3>1 DEF Takes, Suits, Protocols, f
  <2> QED BY <1>3, <2>3, <2>4 DEF Plan
<1> QED BY <1>2, <1>3

-----------------------------------------------------------------------------
(* The timers started by step n, and what they bound.                      *)
TimersBy(p, n) == {i \in 1..n : Steps(p)[i] \in Timed}

LEMMA TimersGrow ==
  ASSUME NEW p, NEW m \in Nat, NEW n \in Nat, m < n
  PROVE  /\ Cardinality(TimersBy(p, m)) \in Nat
         /\ Cardinality(TimersBy(p, n)) \in Nat
         /\ Cardinality(TimersBy(p, m)) <= Cardinality(TimersBy(p, n))
         /\ Steps(p)[n] \in Timed =>
              Cardinality(TimersBy(p, m)) + 1 <= Cardinality(TimersBy(p, n))
<1>1. TimersBy(p, m) \subseteq TimersBy(p, n) /\ n \notin TimersBy(p, m)
  BY DEF TimersBy
<1>2. IsFiniteSet(TimersBy(p, m)) /\ IsFiniteSet(TimersBy(p, n))
  <2>1. IsFiniteSet(1..m) /\ IsFiniteSet(1..n)
    BY FS_Interval
  <2>2. TimersBy(p, m) \subseteq 1..m /\ TimersBy(p, n) \subseteq 1..n
    BY DEF TimersBy
  <2> QED BY <2>1, <2>2, FS_Subset
<1>3. /\ Cardinality(TimersBy(p, m)) \in Nat /\ Cardinality(TimersBy(p, n)) \in Nat
      /\ Cardinality(TimersBy(p, m)) <= Cardinality(TimersBy(p, n))
  BY <1>1, <1>2, FS_CardinalityType, FS_Subset
<1>4. ASSUME Steps(p)[n] \in Timed
      PROVE  Cardinality(TimersBy(p, m)) + 1 <= Cardinality(TimersBy(p, n))
  <2> DEFINE M == TimersBy(p, m) \cup {n}
  <2>1. IsFiniteSet(M) /\ Cardinality(M) = Cardinality(TimersBy(p, m)) + 1
    BY <1>1, <1>2, FS_AddElement
  <2>2. M \subseteq TimersBy(p, n)
    BY <1>1, <1>4 DEF TimersBy
  <2> QED BY <1>2, <2>1, <2>2, FS_Subset
<1> QED BY <1>3, <1>4

LEMMA Multiples ==
  ASSUME NEW T \in Nat, NEW m \in Nat, NEW n \in Nat
  PROVE  /\ m <= n => T * m <= T * n
         /\ m + 1 <= n => T * m + T <= T * n
<1> DEFINE d == n - m
<1>1. ASSUME m <= n PROVE T * m <= T * n
  <2>1. d \in Nat /\ n = m + d
    BY <1>1
  <2>2. T * n = T * m + T * d
    BY <2>1
  <2>3. T * d \in Nat /\ T * m \in Nat
    BY <2>1
  <2> QED BY <2>2, <2>3
<1>2. ASSUME m + 1 <= n PROVE T * m + T <= T * n
  <2> DEFINE e == n - (m + 1)
  <2>1. e \in Nat /\ n = m + 1 + e
    BY <1>2
  <2>2. T * n = T * m + T + T * e
    BY <2>1
  <2>3. T * e \in Nat /\ T * m \in Nat
    BY <2>1
  <2> QED BY <2>2, <2>3
<1> QED BY <1>1, <1>2

-----------------------------------------------------------------------------
(* The inductive invariant.  The plan is that of the command line; a peer  *)
(* was seen exactly when the handshake is behind; no timer of a step runs  *)
(* past the budget; and what was read is all that arrived, until a cap     *)
(* ends the probe.                                                         *)
PlanOK ==
  IF plan = None
  THEN at = 1 /\ now = 0 /\ peer = None /\ read = 0 /\ sent = 0 /\ kept = 0 /\ obs = None
  ELSE /\ ~Refused(line)
       /\ plan = Plan(line)
       /\ at \in 1..Len(Steps(plan))

PeerOK ==
  /\ upAt = None <=> peer = None
  /\ peer # None =>
       /\ plan.kind \notin {"tcp", "plain"}
       /\ peer.version \in plan.offered
       /\ peer.trusted \/ plan.insecure
  /\ Running => (peer # None <=> plan.kind \notin {"tcp", "plain"} /\ Place(Step) > 7)

TimersOK ==
  plan # None =>
    /\ now <= Timeout * TimersStarted
    /\ Step \in Timed => now <= until /\ until <= Timeout * TimersStarted

BodyOK ==
  /\ snippet = Min({SnippetMax, read})
  /\ plan # None =>
       /\ kept = IF plan.output THEN read ELSE 0
       /\ read <= plan.cap
  /\ obs = None => read = sent
  /\ Running => read < plan.cap \/ read = 0
  /\ obs # None /\ obs.headers => obs.file = kept

IInv ==
  /\ TypeOK
  /\ PlanOK
  /\ PeerOK
  /\ TimersOK
  /\ BodyOK
  /\ FailureNamesLayer
  /\ BodyIsHonest

LEMMA IInvInit == Init => IInv
<1> SUFFICES ASSUME Init PROVE IInv
  OBVIOUS
<1> USE DEF Init
<1>1. TypeOK
  BY DEF TypeOK
<1>2. PlanOK /\ PeerOK /\ TimersOK
  BY DEF PlanOK, PeerOK, TimersOK, Running
<1>3. BodyOK
  <2>1. Min({SnippetMax, 0}) = 0
    BY MinOfTwo, SnippetAssumption
  <2> QED BY <2>1 DEF BodyOK, Running
<1>4. FailureNamesLayer /\ BodyIsHonest
  BY DEF FailureNamesLayer, BodyIsHonest
<1> QED BY <1>1, <1>2, <1>3, <1>4 DEF IInv

(* Where a running probe is.                                               *)
LEMMA RunningFacts ==
  ASSUME IInv, Running
  PROVE  /\ plan \in Plans /\ plan # None
         /\ Suits(plan, line)
         /\ Len(Steps(plan)) \in Nat /\ at \in 1..Len(Steps(plan))
         /\ \A i \in 1..Len(Steps(plan)) :
              Steps(plan)[i] \in StepSet(plan) /\ Place(Steps(plan)[i]) \in Nat
         /\ \A x \in StepSet(plan) : \E i \in 1..Len(Steps(plan)) : Steps(plan)[i] = x
         /\ \A i, j \in 1..Len(Steps(plan)) :
              i < j => Place(Steps(plan)[i]) < Place(Steps(plan)[j])
<1>1. plan # None /\ line \in CommandLines(FlagSets) /\ ~Refused(line) /\ plan = Plan(line)
      /\ at \in 1..Len(Steps(plan))
  BY DEF IInv, TypeOK, PlanOK, Running
<1>2. plan \in Plans /\ Suits(plan, line)
  BY <1>1, PlanSuits
<1>3. \A y \in StepSet(plan) : Place(y) \in Nat
  BY <1>2 DEF Plans, Protocols, StepSet, Place
<1>4. /\ Steps(plan) \in Seq(StepSet(plan))
      /\ \A x \in StepSet(plan) : \E i \in 1..Len(Steps(plan)) : Steps(plan)[i] = x
      /\ \A i, j \in 1..Len(Steps(plan)) :
           i < j => Place(Steps(plan)[i]) < Place(Steps(plan)[j])
  BY <1>2, StepsInOrder DEF Orderly
<1>5. Len(Steps(plan)) \in Nat
      /\ \A i \in 1..Len(Steps(plan)) : Steps(plan)[i] \in StepSet(plan)
  BY <1>4, LenProperties
<1> QED BY <1>1, <1>2, <1>3, <1>4, <1>5

(* On to the next step the timer is new, or the probe is complete.         *)
LEMMA GoMoves ==
  ASSUME IInv, Running, NEW i \in {1, 2, 3}, Go(i)
  PROVE  \/ /\ obs' = Complete(Handshaken(peer', upAt'))
            /\ UNCHANGED <<at, until>>
         \/ /\ obs' = None
            /\ at' = at + i /\ at' \in 1..Len(Steps(plan))
            /\ until' = now + Timeout
BY RunningFacts DEF Go, Running

(* The steps that are skipped are no handshake.                            *)
Skips(i) ==
  \/ i = 1
  \/ i = 2 /\ Step = "lookup4"
  \/ i = 3 /\ Step = "locate"

LEMMA HandshakeInTurn ==
  ASSUME IInv, Running, NEW i \in {1, 2, 3}, Skips(i),
         at + i \in 1..Len(Steps(plan))
  PROVE  plan.kind \notin {"tcp", "plain"} =>
           (Place(Steps(plan)[at + i]) > 7 <=> Place(Step) >= 7)
<1> DEFINE s == Steps(plan)
           n == Len(s)
<1>1. /\ plan \in Plans
      /\ n \in Nat /\ at \in 1..n /\ Step = s[at]
      /\ \A j \in 1..n : s[j] \in StepSet(plan) /\ Place(s[j]) \in Nat
      /\ \A x \in StepSet(plan) : \E j \in 1..n : s[j] = x
      /\ \A j, k \in 1..n : j < k => Place(s[j]) < Place(s[k])
  BY RunningFacts DEF Step
<1> HIDE DEF s, n
<1>2. ASSUME NEW j \in 1..n, NEW k \in 1..n, Place(s[j]) < Place(s[k])
      PROVE  j < k
  <2>1. Place(s[j]) \in Nat /\ Place(s[k]) \in Nat
    BY <1>1
  <2>2. j # k /\ ~(k < j)
    BY <1>1, <1>2, <2>1
  <2> QED BY <1>1, <2>2
<1>3. SUFFICES ASSUME plan.kind \notin {"tcp", "plain"}
               PROVE  Place(s[at + i]) > 7 <=> Place(Step) >= 7
  BY DEF s
<1>4. at + i \in 1..n /\ at < at + i
  BY <1>1 DEF s, n
<1>5. Place(Step) >= 7 => Place(s[at + i]) > 7
  BY <1>1, <1>4
<1>6. ASSUME Place(Step) < 7 PROVE Place(s[at + i]) <= 7
  <2>1. PICK h \in 1..n : Place(s[h]) = 7
    <3>1. \E x \in StepSet(plan) : Place(x) = 7
      BY <1>1, <1>3 DEF StepSet, Place, Plans, Protocols
    <3> QED BY <1>1, <3>1
  <2>2. at < h
    BY <1>1, <1>2, <1>6, <2>1
  <2>3. at + i <= h
    <3>1. CASE i = 1
      BY <1>1, <2>1, <2>2, <3>1
    <3>2. CASE i # 1
      <4>1. {"lookup4", "lookup6", "query"} \subseteq StepSet(plan)
        BY <1>1, <3>2 DEF Skips, StepSet, Plans, Protocols
      <4>2. PICK k2 \in 1..n : s[k2] = "lookup4"
        BY <1>1, <4>1
      <4>3. PICK k3 \in 1..n : s[k3] = "lookup6"
        BY <1>1, <4>1
      <4>4. PICK k4 \in 1..n : s[k4] = "query"
        BY <1>1, <4>1
      <4> Place("locate") = 1 /\ Place("lookup4") = 2 /\ Place("lookup6") = 3
          /\ Place("query") = 4
        BY DEF Place
      <4>5. k2 < k3 /\ k3 < k4 /\ k4 < h
        BY <1>2, <2>1, <4>2, <4>3, <4>4
      <4>6. CASE i = 2 /\ Step = "lookup4"
        <5>1. Place(s[at]) < Place(s[k3])
          BY <1>1, <4>3, <4>6
        <5>2. at < k3
          BY <1>1, <1>2, <5>1
        <5> QED BY <1>1, <2>1, <4>5, <4>6, <5>2
      <4>7. CASE i = 3 /\ Step = "locate"
        <5>1. Place(s[at]) < Place(s[k2])
          BY <1>1, <4>2, <4>7
        <5>2. at < k2
          BY <1>1, <1>2, <5>1
        <5> QED BY <1>1, <2>1, <4>5, <4>7, <5>2
      <4> QED BY <3>2, <4>6, <4>7 DEF Skips
    <3> QED BY <3>1, <3>2
  <2> QED BY <1>1, <1>4, <2>1, <2>3
<1> QED BY <1>1, <1>4, <1>5, <1>6

(* A new timer adds its time to the budget.                                *)
LEMMA AdvanceInTime ==
  ASSUME IInv, Running, NEW i \in {1, 2, 3}, plan' = plan, now' = now,
         at' = at + i, until' = now + Timeout
  PROVE  TimersOK'
<1>1. now \in Nat /\ at \in Nat /\ at' \in Nat /\ at < at' /\ Timeout \in Nat
  BY TimeoutAssumption DEF IInv, TypeOK
<1> DEFINE m == Cardinality(TimersBy(plan, at))
           n == Cardinality(TimersBy(plan, at'))
<1>2. m \in Nat /\ n \in Nat /\ m <= n
      /\ (Steps(plan)[at'] \in Timed => m + 1 <= n)
  BY <1>1, TimersGrow
<1>3. TimersStarted = m /\ TimersStarted' = n /\ Step' = Steps(plan)[at']
  BY DEF TimersStarted, TimersBy, Step
<1> HIDE DEF m, n
<1>4. now <= Timeout * m
  BY <1>3 DEF IInv, TimersOK, Running
<1>5. /\ Timeout * m <= Timeout * n
      /\ Step' \in Timed => Timeout * m + Timeout <= Timeout * n
  BY <1>1, <1>2, <1>3, Multiples
<1>6. Timeout * m \in Nat /\ Timeout * n \in Nat
  BY <1>1, <1>2
<1> QED BY <1>1, <1>3, <1>4, <1>5, <1>6 DEF TimersOK

(* The probe moves on, past a handshake or not.                            *)
LEMMA AdvanceKeeps ==
  ASSUME IInv, Running, NEW i \in {1, 2, 3}, Skips(i), Go(i),
         UNCHANGED <<line, plan, now, Bytes>>,
         \/ Step \notin Handshake /\ UNCHANGED <<upAt, peer>>
         \/ /\ Step \in Handshake /\ upAt' = now
            /\ peer' \in Presented /\ peer'.version \in plan.offered
            /\ peer'.trusted \/ plan.insecure
  PROVE  IInv'
<1> USE DEF Bytes
<1>1. /\ plan \in Plans /\ plan # None /\ obs = None
      /\ at \in 1..Len(Steps(plan)) /\ Len(Steps(plan)) \in Nat
      /\ Step \in StepSet(plan) /\ Place(Step) \in Nat
  BY RunningFacts DEF Step, Running
<1>2. now \in Nat /\ Timeout \in Nat /\ at \in Nat
  BY TimeoutAssumption DEF IInv, TypeOK
<1>3. /\ upAt' \in Nat \cup {None} /\ peer' \in Presented \cup {None}
      /\ upAt' = None <=> peer' = None
  BY <1>2, NoneAssumption DEF IInv, TypeOK, PeerOK
<1>4. /\ Step \in Handshake <=> Place(Step) = 7
      /\ Step \in Handshake => plan.kind \notin {"tcp", "plain"}
  BY <1>1 DEF Handshake, StepSet, Place, Plans, Protocols
<1>5. peer' # None =>
        /\ plan.kind \notin {"tcp", "plain"}
        /\ peer'.version \in plan.offered
        /\ peer'.trusted \/ plan.insecure
  BY <1>4 DEF IInv, PeerOK
<1>6. peer' # None <=> plan.kind \notin {"tcp", "plain"} /\ Place(Step) >= 7
  <2>1. peer # None <=> plan.kind \notin {"tcp", "plain"} /\ Place(Step) > 7
    BY DEF IInv, PeerOK, Running
  <2> QED BY <1>1, <1>4, <2>1, NoneAssumption
<1>7. CASE obs' = Complete(Handshaken(peer', upAt')) /\ UNCHANGED <<at, until>>
  <2>1. Handshaken(peer', upAt') \in [version : Versions, trusted : BOOLEAN, latency : Nat] \cup {None}
    BY <1>2, <1>3 DEF Handshaken, Presented
  <2>2. obs' \in Observations /\ obs'.failure = None /\ ~obs'.headers
    BY <1>2, <1>7, <2>1 DEF Complete, Observations
  <2>3. obs' # None
    BY <2>2, NoneAssumption
  <2>4. TypeOK'
    BY <1>3, <1>7, <2>2 DEF IInv, TypeOK
  <2>5. PlanOK'
    BY <1>1, <1>7 DEF IInv, PlanOK
  <2>6. PeerOK'
    BY <1>3, <1>5, <2>3 DEF PeerOK, Running
  <2>7. TimersOK'
    BY <1>7 DEF IInv, TimersOK, TimersStarted, Step
  <2>8. BodyOK'
    BY <1>1, <2>2, <2>3 DEF IInv, BodyOK, Running
  <2>9. FailureNamesLayer' /\ BodyIsHonest'
    BY <2>2 DEF FailureNamesLayer, BodyIsHonest
  <2> QED BY <2>4, <2>5, <2>6, <2>7, <2>8, <2>9 DEF IInv
<1>8. CASE /\ obs' = None
           /\ at' = at + i /\ at' \in 1..Len(Steps(plan))
           /\ until' = now + Timeout
  <2>1. at' \in Nat \ {0} /\ until' \in Nat
    BY <1>2, <1>8
  <2>2. TypeOK'
    BY <1>3, <1>8, <2>1 DEF IInv, TypeOK
  <2>3. PlanOK'
    BY <1>1, <1>8 DEF IInv, PlanOK
  <2>4. PeerOK'
    <3>1. Step' = Steps(plan)[at + i]
      BY <1>8 DEF Step
    <3>2. plan.kind \notin {"tcp", "plain"} => (Place(Step') > 7 <=> Place(Step) >= 7)
      BY <1>8, <3>1, HandshakeInTurn
    <3> QED BY <1>3, <1>5, <1>6, <3>2 DEF PeerOK
  <2>5. TimersOK'
    BY <1>8, AdvanceInTime
  <2>6. BodyOK'
    BY <1>1, <1>8 DEF IInv, BodyOK, Running
  <2>7. FailureNamesLayer' /\ BodyIsHonest'
    BY <1>8 DEF FailureNamesLayer, BodyIsHonest
  <2> QED BY <2>2, <2>3, <2>4, <2>5, <2>6, <2>7 DEF IInv
<1> QED BY <1>7, <1>8, GoMoves

(* The layer a failure names, of those the step may end the probe with.    *)
LEMMA FailureOfStep ==
  ASSUME IInv, Running,
         NEW k,
         \/ k \in Fails(plan, Step)
         \/ Step \in Timed \ {"lookup4", "body"} /\ k = Expires(Step)
  PROVE  /\ k \in Kinds
         /\ k \in ConnectKinds \ {"timeout", "other"} => upAt = None /\ ~Passed("connect")
         /\ k \in TlsKinds => Passed("connect") /\ peer = None
         /\ k = "quic" => Has("quic") /\ peer = None
         /\ k = "http" =>
              IF plan.kind = "plain" THEN Passed("connect") ELSE peer # None
         /\ k = "dns" => plan.kind \in {"doh", "dot"}
         /\ k = "timeout" =>
              \/ ~Passed("connect")
              \/ ~Has("tls")
              \/ peer # None
<1>1. /\ plan \in Plans
      /\ at \in 1..Len(Steps(plan)) /\ Len(Steps(plan)) \in Nat
      /\ \A i \in 1..Len(Steps(plan)) : Steps(plan)[i] \in StepSet(plan)
      /\ \A x \in StepSet(plan) : \E i \in 1..Len(Steps(plan)) : Steps(plan)[i] = x
      /\ Step \in StepSet(plan) /\ Place(Step) \in Nat
  BY RunningFacts DEF Step
<1>2. \A x : Has(x) <=> x \in StepSet(plan)
  <2>1. Steps(plan) \in Seq(StepSet(plan))
    BY <1>1, StepsInOrder DEF Orderly
  <2>2. DOMAIN Steps(plan) = 1..Len(Steps(plan))
    BY <2>1
  <2> QED BY <1>1, <2>2 DEF Has
<1>3. \A x : Passed(x) <=> x \in StepSet(plan) /\ Place(x) < Place(Step)
  BY <1>1, PassedIsLower DEF Passed, Step
<1>4. /\ peer # None <=> plan.kind \notin {"tcp", "plain"} /\ Place(Step) > 7
      /\ upAt = None <=> peer = None
  BY DEF IInv, PeerOK
<1> DEFINE s == Step
           K == plan.kind
<1>5. /\ "connect" \in StepSet(plan) <=> K # "http3"
      /\ "tls" \in StepSet(plan) <=> K \notin {"tcp", "plain", "http3"}
      /\ "quic" \in StepSet(plan) <=> K = "http3"
      /\ Place("connect") = 5
  BY <1>1 DEF StepSet, Place, Plans, Protocols
<1> HIDE DEF s, K
<1>6. k \in Kinds
  BY DEF Fails, Expires, Kinds, ConnectKinds, TlsKinds
<1>7. ASSUME k \in ConnectKinds \ {"timeout", "other"}
      PROVE  upAt = None /\ ~Passed("connect")
  <2>1. s = "connect"
    BY <1>7 DEF Fails, Expires, ConnectKinds, TlsKinds, s
  <2> QED BY <1>3, <1>4, <2>1 DEF Place, s
<1>8. ASSUME k \in TlsKinds
      PROVE  Passed("connect") /\ peer = None
  <2>1. s = "tls"
    BY <1>8 DEF Fails, Expires, ConnectKinds, TlsKinds, s
  <2>2. Place(s) = 7 /\ K # "http3"
    BY <1>1, <1>5, <2>1 DEF Place, s, K, StepSet
  <2> QED BY <1>3, <1>4, <1>5, <2>2 DEF s
<1>9. ASSUME k = "quic"
      PROVE  Has("quic") /\ peer = None
  <2>1. s \in {"dial", "quic"}
    BY <1>9 DEF Fails, Expires, ConnectKinds, TlsKinds, s
  <2>2. K = "http3" /\ Place(s) <= 7
    BY <1>1, <2>1 DEF Place, s, K, StepSet, Plans, Protocols
  <2> QED BY <1>1, <1>2, <1>4, <1>5, <2>2 DEF s
<1>10. ASSUME k = "http"
       PROVE  IF K = "plain" THEN Passed("connect") ELSE peer # None
  <2>1. /\ s \notin {"connect", "name", "tls", "build", "query", "frame", "dial", "quic",
                     "endpoint", "locate", "lookup4", "lookup6", "write", "header",
                     "answer", "collect", "judge"}
        /\ K \notin {"doh", "dot"}
    BY <1>10 DEF Fails, Expires, ConnectKinds, TlsKinds, s, K
  <2>2. K # "tcp" /\ Place(s) > 7
    BY <1>1, <2>1 DEF Place, s, K, StepSet, Plans, Protocols
  <2>3. CASE K = "plain"
    BY <1>1, <1>3, <1>5, <2>2, <2>3 DEF s, K
  <2>4. CASE K # "plain"
    BY <1>1, <1>4, <2>2, <2>4 DEF s, K
  <2> QED BY <2>3, <2>4
<1>11. ASSUME k = "dns" PROVE K \in {"doh", "dot"}
  <2>1. \/ s \in {"locate", "lookup6", "write", "header", "answer", "collect", "judge"}
        \/ K \in {"doh", "dot"}
    BY <1>11 DEF Fails, Expires, ConnectKinds, TlsKinds, s, K
  <2> QED BY <1>1, <2>1 DEF s, K, StepSet, Plans, Protocols
<1>12. ASSUME k = "timeout"
       PROVE  \/ ~Passed("connect")
              \/ ~Has("tls")
              \/ peer # None
  <2>1. s = "connect" \/ s \in Timed \ {"tls", "lookup4", "lookup6", "body"}
    BY <1>12 DEF Fails, Expires, ConnectKinds, TlsKinds, s
  <2>2. CASE s = "connect"
    BY <1>3, <1>5, <2>2 DEF s
  <2>3. CASE s # "connect" /\ K \notin {"tcp", "plain", "http3"}
    <3>1. Place(s) > 7
      BY <1>1, <2>1, <2>3 DEF s, K, Timed, Place, StepSet, Plans, Protocols
    <3> QED BY <1>4, <2>3, <3>1 DEF s, K
  <2>4. CASE K \in {"tcp", "plain", "http3"}
    BY <1>2, <1>5, <2>4
  <2> QED BY <2>2, <2>3, <2>4
<1> QED BY <1>6, <1>7, <1>8, <1>9, <1>10, <1>11, <1>12 DEF K

(* The probe ends with a failure.                                          *)
LEMMA FailureKeeps ==
  ASSUME IInv, Running, NEW k,
         \/ k \in Fails(plan, Step)
         \/ Step \in Timed \ {"lookup4", "body"} /\ k = Expires(Step),
         obs' = Failure(k),
         UNCHANGED <<line, plan, at, now, until, upAt, peer, Bytes>>
  PROVE  IInv'
<1> USE DEF Bytes
<1>1. k \in Kinds
  BY FailureOfStep
<1>2. obs' \in Observations /\ obs'.failure = k /\ ~obs'.headers
  BY <1>1 DEF Failure, Observations
<1>3. obs' # None
  BY <1>2, NoneAssumption
<1>4. TypeOK'
  BY <1>2 DEF IInv, TypeOK
<1>5. plan # None /\ PlanOK'
  BY DEF IInv, PlanOK, Running
<1>6. PeerOK'
  BY <1>3 DEF IInv, PeerOK, Running
<1>7. TimersOK'
  BY DEF IInv, TimersOK, TimersStarted, Step
<1>8. BodyOK'
  BY <1>2, <1>3 DEF IInv, BodyOK, Running
<1>9. FailureNamesLayer'
  <2>1. \A x : Passed(x)' <=> Passed(x)
    BY DEF Passed
  <2>2. \A x : Has(x)' <=> Has(x)
    BY DEF Has
  <2> QED BY <1>2, <2>1, <2>2, FailureOfStep DEF FailureNamesLayer
<1>10. BodyIsHonest'
  BY <1>2 DEF BodyIsHonest
<1> QED BY <1>4, <1>5, <1>6, <1>7, <1>8, <1>9, <1>10 DEF IInv

LEMMA ResponseIsObservation ==
  ASSUME NEW tls \in [version : Versions, trusted : BOOLEAN, latency : Nat] \cup {None},
         NEW bytes \in Nat \cup {None}, NEW capped \in BOOLEAN, NEW sn \in Nat,
         NEW more \in BOOLEAN, NEW file \in Nat, NEW latency \in Nat
  PROVE  [failure |-> None, tls |-> tls, headers |-> TRUE, bytes |-> bytes,
          capped |-> capped, snippet |-> sn, more |-> more, file |-> file,
          latency |-> latency] \in Observations
BY DEF Observations

(* The probe ends with a response: the body ended, was capped, or was left *)
(* at what its timer allowed.                                              *)
LEMMA ResponseKeeps ==
  ASSUME IInv, Running,
         NEW ended \in BOOLEAN, NEW capped \in BOOLEAN,
         obs' = Response(ended, capped, read', snippet', kept'),
         UNCHANGED <<line, plan, at, now, until, upAt, peer>>,
         read' \in Nat, snippet' \in Nat, kept' \in Nat, sent' \in Nat,
         snippet' = Min({SnippetMax, read'}),
         kept' = IF plan.output THEN read' ELSE 0,
         IF capped THEN read' = plan.cap /\ sent' >= plan.cap
         ELSE read' = sent' /\ read' <= plan.cap,
         ended \/ now = until,
         capped => ended
  PROVE  IInv'
<1> DEFINE tls == Handshaken(peer, upAt)
           more == read' > snippet'
           bytes == IF ended THEN read' ELSE None
<1>1. /\ plan \in Plans /\ plan # None /\ plan.cap \in Nat
      /\ now \in Nat /\ SnippetMax \in Nat
  BY RunningFacts, SnippetAssumption, DefaultCapAssumption, CapsAssumption
     DEF IInv, TypeOK, Plans
<1>2. tls \in [version : Versions, trusted : BOOLEAN, latency : Nat] \cup {None}
  BY <1>1 DEF IInv, TypeOK, PeerOK, Handshaken, Presented
<1> more \in BOOLEAN /\ bytes \in Nat \cup {None}
  OBVIOUS
<1> HIDE DEF tls, more, bytes
<1>3. obs' = [failure |-> None, tls |-> tls, headers |-> TRUE,
              bytes |-> bytes, capped |-> capped,
              snippet |-> snippet', more |-> more, file |-> kept',
              latency |-> now]
  BY DEF Response, Complete, tls, more, bytes
<1>4. obs' \in Observations
  <2>1. [failure |-> None, tls |-> tls, headers |-> TRUE, bytes |-> bytes,
         capped |-> capped, snippet |-> snippet', more |-> more, file |-> kept',
         latency |-> now] \in Observations
    <3>1. tls \in [version : Versions, trusted : BOOLEAN, latency : Nat] \cup {None}
      BY <1>2
    <3>2. bytes \in Nat \cup {None}
      OBVIOUS
    <3>3. more \in BOOLEAN
      OBVIOUS
    <3>4. now \in Nat
      BY <1>1
    <3>5. snippet' \in Nat /\ kept' \in Nat /\ capped \in BOOLEAN
      OBVIOUS
    <3> QED BY ONLY <3>1, <3>2, <3>3, <3>4, <3>5, ResponseIsObservation
  <2> QED BY <1>3, <2>1
<1>5. obs' # None
  BY <1>4, NoneAssumption
<1>6. TypeOK'
  BY <1>4 DEF IInv, TypeOK
<1>7. PlanOK'
  BY <1>1 DEF IInv, PlanOK
<1>8. PeerOK'
  BY <1>5 DEF IInv, PeerOK, Running
<1>9. TimersOK'
  BY DEF IInv, TimersOK, TimersStarted, Step
<1>10. BodyOK'
  BY <1>1, <1>3, <1>5 DEF IInv, BodyOK, Running
<1>11. FailureNamesLayer'
  BY <1>3 DEF FailureNamesLayer
<1>12. BodyIsHonest'
  <2>1. read' = Min({sent', plan.cap})
    BY <1>1, MinOfTwo
  <2>2. snippet' = Min({SnippetMax, sent', plan.cap})
    <3>1. Min({SnippetMax, sent', plan.cap}) = Min({SnippetMax, Min({sent', plan.cap})})
      BY <1>1, MinOfThree
    <3> QED BY <2>1, <3>1
  <2>3. /\ obs'.bytes # None <=> ended
        /\ ended => obs'.bytes = read'
    BY <1>3, NoneAssumption DEF bytes
  <2>4. obs'.more <=> Min({sent', plan.cap}) > obs'.snippet
    <3>1. obs'.more = more /\ obs'.snippet = snippet'
      BY <1>3
    <3> QED BY <2>1, <3>1 DEF more
  <2>5. obs'.file = IF plan.output THEN Min({sent', plan.cap}) ELSE 0
    BY <1>3, <2>1
  <2> QED BY <1>3, <2>2, <2>3, <2>4, <2>5 DEF BodyIsHonest
<1> QED BY <1>6, <1>7, <1>8, <1>9, <1>10, <1>11, <1>12 DEF IInv

(* A frame, cut to what the cap leaves.                                    *)
LEMMA FrameTaken ==
  ASSUME IInv, Running, NEW n \in Nat
  PROVE  /\ Take(n) \in Nat /\ read + Take(n) <= plan.cap
         /\ read + Take(n) < plan.cap => Take(n) = n
         /\ Take(n) <= n
         /\ Min({SnippetMax, snippet + Take(n)}) = Min({SnippetMax, read + Take(n)})
<1>1. /\ plan \in Plans /\ plan # None /\ plan.cap \in Nat
      /\ read \in Nat /\ snippet \in Nat /\ SnippetMax \in Nat
      /\ read <= plan.cap
      /\ snippet = Min({SnippetMax, read})
  BY RunningFacts, SnippetAssumption, DefaultCapAssumption, CapsAssumption
     DEF IInv, TypeOK, BodyOK, Plans
<1>2. plan.cap - read \in Nat
  BY <1>1
<1>3. Take(n) = IF n <= plan.cap - read THEN n ELSE plan.cap - read
  BY <1>2, MinOfTwo DEF Take
<1>4. Take(n) \in Nat /\ read + Take(n) <= plan.cap /\ Take(n) <= n
      /\ (read + Take(n) < plan.cap => Take(n) = n)
  BY <1>1, <1>2, <1>3
<1>5. Min({SnippetMax, snippet + Take(n)}) = Min({SnippetMax, read + Take(n)})
  <2>1. snippet = IF SnippetMax <= read THEN SnippetMax ELSE read
    BY <1>1, MinOfTwo
  <2>2. snippet + Take(n) \in Nat /\ read + Take(n) \in Nat
    BY <1>1, <1>4
  <2>3. /\ Min({SnippetMax, snippet + Take(n)})
             = IF SnippetMax <= snippet + Take(n) THEN SnippetMax ELSE snippet + Take(n)
        /\ Min({SnippetMax, read + Take(n)})
             = IF SnippetMax <= read + Take(n) THEN SnippetMax ELSE read + Take(n)
    BY <1>1, <2>2, MinOfTwo
  <2> QED BY <1>1, <1>4, <2>1, <2>3
<1> QED BY <1>4, <1>5

LEMMA FrameKeeps ==
  ASSUME IInv, NEW n \in 0..MaxFrame, Frame(n)
  PROVE  IInv'
<1>1. n \in Nat /\ Running /\ Step = "body"
  BY BodyAssumption DEF Frame
<1>2. /\ plan \in Plans /\ plan # None /\ plan.cap \in Nat
      /\ read \in Nat /\ sent \in Nat /\ read = sent
      /\ kept = IF plan.output THEN read ELSE 0
  BY <1>1, RunningFacts, DefaultCapAssumption, CapsAssumption
     DEF IInv, TypeOK, BodyOK, Plans, Running
<1>3. /\ sent' = sent + n /\ read' = read + Take(n)
      /\ snippet' = Min({SnippetMax, snippet + Take(n)})
      /\ kept' = kept + (IF plan.output THEN Take(n) ELSE 0)
      /\ UNCHANGED <<line, plan, at, now, until, upAt, peer>>
  BY DEF Frame, BodyDeadline
<1>4. /\ Take(n) \in Nat /\ read' <= plan.cap
      /\ read' < plan.cap => read' = sent'
      /\ read' <= sent'
      /\ snippet' = Min({SnippetMax, read'})
  <2>1. /\ Take(n) \in Nat /\ read + Take(n) <= plan.cap
        /\ read + Take(n) < plan.cap => Take(n) = n
        /\ Take(n) <= n
        /\ Min({SnippetMax, snippet + Take(n)}) = Min({SnippetMax, read + Take(n)})
    BY <1>1, FrameTaken
  <2> QED BY <1>1, <1>2, <1>3, <2>1
<1>5. /\ read' \in Nat /\ sent' \in Nat
      /\ kept' = IF plan.output THEN read' ELSE 0
  BY <1>2, <1>3, <1>4
<1>6. snippet' \in Nat
  BY <1>4, <1>5, MinOfTwo, SnippetAssumption
<1>7. kept' \in Nat
  BY <1>5
<1>8. CASE read' >= plan.cap
  <2>1. obs' = Response(TRUE, TRUE, read', snippet', kept')
    BY <1>8 DEF Frame
  <2>2. read' = plan.cap /\ sent' >= plan.cap
    BY <1>2, <1>4, <1>5, <1>8
  <2> QED BY <1>1, <1>3, <1>4, <1>5, <1>6, <1>7, <2>1, <2>2, ResponseKeeps
<1>9. CASE ~(read' >= plan.cap)
  <2>1. obs' = obs /\ obs = None
    BY <1>1, <1>9 DEF Frame, Running
  <2>2. read' < plan.cap
    BY <1>2, <1>5, <1>9
  <2>3. TypeOK'
    BY <1>3, <1>5, <1>6, <1>7, <2>1 DEF IInv, TypeOK
  <2>4. PlanOK'
    BY <1>2, <1>3, <2>1 DEF IInv, PlanOK
  <2>5. PeerOK'
    BY <1>3, <2>1 DEF IInv, PeerOK, Running, Step
  <2>6. TimersOK'
    BY <1>3 DEF IInv, TimersOK, TimersStarted, Step
  <2>7. BodyOK'
    BY <1>3, <1>4, <1>5, <2>1, <2>2 DEF BodyOK, Running
  <2>8. FailureNamesLayer' /\ BodyIsHonest'
    BY <2>1 DEF FailureNamesLayer, BodyIsHonest
  <2> QED BY <2>3, <2>4, <2>5, <2>6, <2>7, <2>8 DEF IInv
<1> QED BY <1>8, <1>9

-----------------------------------------------------------------------------
LEMMA Stays ==
  ASSUME IInv, UNCHANGED vars
  PROVE  IInv'
<1> USE DEF vars, Bytes
<1>1. \A x : (Passed(x)' <=> Passed(x)) /\ (Has(x)' <=> Has(x))
  BY DEF Passed, Has
<1>2. TypeOK' /\ PlanOK' /\ TimersOK'
  BY DEF IInv, TypeOK, PlanOK, TimersOK, TimersStarted, Step
<1>3. PeerOK' /\ BodyOK'
  BY DEF IInv, PeerOK, BodyOK, Running, Step
<1>4. FailureNamesLayer' /\ BodyIsHonest'
  BY <1>1 DEF IInv, FailureNamesLayer, BodyIsHonest
<1> QED BY <1>2, <1>3, <1>4 DEF IInv

LEMMA DispatchKeeps ==
  ASSUME IInv, Dispatch
  PROVE  IInv'
<1> USE DEF Bytes
<1>1. /\ plan = None /\ ~Refused(line) /\ plan' = Plan(line) /\ until' = now + Timeout
      /\ UNCHANGED <<line, at, now, upAt, peer, Bytes, obs>>
  BY DEF Dispatch
<1>2. /\ at = 1 /\ now = 0 /\ peer = None /\ upAt = None
      /\ read = 0 /\ sent = 0 /\ kept = 0 /\ obs = None
  BY <1>1 DEF IInv, PlanOK, PeerOK
<1>3. plan' \in Plans /\ plan' # None /\ line \in CommandLines(FlagSets)
  BY <1>1, PlanSuits, NoneAssumption DEF IInv, TypeOK
<1>4. Len(Steps(plan')) \in Nat /\ 1 \in 1..Len(Steps(plan'))
      /\ Step' \in StepSet(plan') /\ Place(Step') <= 7
  <2> DEFINE s == Steps(plan')
  <2>1. /\ s \in Seq(StepSet(plan'))
        /\ \A x \in StepSet(plan') : \E i \in 1..Len(s) : s[i] = x
        /\ \A i, j \in 1..Len(s) : i < j => Place(s[i]) < Place(s[j])
    BY <1>3, StepsInOrder DEF Orderly
  <2>2. \E x \in StepSet(plan') : Place(x) <= 7
    BY <1>3 DEF StepSet, Place, Plans, Protocols
  <2>3. PICK i \in 1..Len(s) : Place(s[i]) <= 7
    BY <2>1, <2>2
  <2>4. Len(s) \in Nat /\ 1 \in 1..Len(s)
    BY <2>1, <2>3, LenProperties
  <2>5. s[1] \in StepSet(plan') /\ s[i] \in StepSet(plan')
    BY <2>1, <2>4
  <2>6. Place(s[1]) \in Nat /\ Place(s[i]) \in Nat
    BY <1>3, <2>5 DEF StepSet, Place, Plans, Protocols
  <2>7. Place(s[1]) <= 7
    <3>1. i = 1 \/ 1 < i
      BY <2>4
    <3> QED BY <2>1, <2>3, <2>4, <2>6, <3>1
  <2> QED BY <1>1, <1>2, <2>4, <2>5, <2>7 DEF Step
<1>5. TypeOK'
  BY <1>1, <1>2, <1>3, TimeoutAssumption DEF IInv, TypeOK
<1>6. PlanOK'
  BY <1>1, <1>2, <1>3, <1>4 DEF PlanOK
<1>7. PeerOK'
  <2>1. Place(Step') \in Nat
    BY <1>3, <1>4 DEF StepSet, Place, Plans, Protocols
  <2> QED BY <1>1, <1>2, <1>4, <2>1 DEF PeerOK
<1>8. TimersOK'
  <2> DEFINE p == plan'
             n == Cardinality(TimersBy(p, 1))
  <2>1. n \in Nat /\ (Steps(p)[1] \in Timed => Cardinality(TimersBy(p, 0)) + 1 <= n)
        /\ Cardinality(TimersBy(p, 0)) \in Nat
    BY TimersGrow
  <2>2. TimersStarted' = n /\ Step' = Steps(p)[1]
    BY <1>1, <1>2 DEF TimersStarted, TimersBy, Step
  <2> HIDE DEF p, n
  <2>3. 0 <= Timeout * n /\ (Step' \in Timed => Timeout <= Timeout * n)
    <3>1. Timeout \in Nat /\ Timeout * 0 = 0
      BY TimeoutAssumption
    <3>2. Step' \in Timed => 0 + 1 <= n
      BY <2>1, <2>2
    <3>3. 0 <= n
      BY <2>1
    <3> QED BY <2>1, <3>1, <3>2, <3>3, Multiples
  <2> QED BY <1>1, <1>2, <2>2, <2>3, TimeoutAssumption DEF TimersOK
<1>9. BodyOK'
  <2>1. plan'.cap \in Nat
    BY <1>3, DefaultCapAssumption, CapsAssumption DEF Plans
  <2>2. snippet' = Min({SnippetMax, read'})
    BY <1>1 DEF IInv, BodyOK
  <2> QED BY <1>1, <1>2, <2>1, <2>2 DEF BodyOK
<1>10. FailureNamesLayer' /\ BodyIsHonest'
  BY <1>1, <1>2 DEF FailureNamesLayer, BodyIsHonest
<1> QED BY <1>5, <1>6, <1>7, <1>8, <1>9, <1>10 DEF IInv

LEMMA TickKeeps ==
  ASSUME IInv, Tick
  PROVE  IInv'
<1> USE DEF Bytes
<1>1. /\ Running /\ Step \in Timed /\ now < until /\ now' = now + 1
      /\ UNCHANGED <<line, plan, at, until, upAt, peer, Bytes, obs>>
  BY DEF Tick
<1>2. plan # None /\ obs = None /\ now \in Nat /\ until \in Nat
  BY <1>1 DEF IInv, TypeOK, Running
<1>3. TypeOK'
  BY <1>1, <1>2 DEF IInv, TypeOK
<1>4. PlanOK'
  BY <1>1, <1>2 DEF IInv, PlanOK
<1>5. PeerOK' /\ BodyOK'
  BY <1>1 DEF IInv, PeerOK, BodyOK, Running, Step
<1>6. TimersOK'
  <2>1. TimersStarted' = TimersStarted /\ Step' = Step
    BY <1>1 DEF TimersStarted, Step
  <2>2. until <= Timeout * TimersStarted
    BY <1>1, <1>2 DEF IInv, TimersOK
  <2>3. Timeout * TimersStarted \in Nat
    <3>1. at \in Nat /\ at + 1 \in Nat /\ at < at + 1
      BY DEF IInv, TypeOK
    <3>2. Cardinality(TimersBy(plan, at)) \in Nat
      BY <3>1, TimersGrow
    <3> QED BY <3>2, TimeoutAssumption DEF TimersStarted, TimersBy
  <2> HIDE DEF TimersStarted
  <2> QED BY <1>1, <1>2, <2>1, <2>2, <2>3 DEF TimersOK
<1>7. FailureNamesLayer' /\ BodyIsHonest'
  BY <1>1, <1>2 DEF FailureNamesLayer, BodyIsHonest
<1> QED BY <1>3, <1>4, <1>5, <1>6, <1>7 DEF IInv

(* A response of the body as it is.                                        *)
LEMMA BodyKeeps ==
  ASSUME IInv, Running,
         NEW ended \in BOOLEAN,
         obs' = Response(ended, FALSE, read, snippet, kept),
         UNCHANGED <<line, plan, at, now, until, upAt, peer, Bytes>>,
         ended \/ now = until
  PROVE  IInv'
<1>1. /\ UNCHANGED <<read, snippet, kept, sent>>
      /\ read \in Nat /\ snippet \in Nat /\ kept \in Nat /\ sent \in Nat
  BY DEF IInv, TypeOK, Bytes
<1>2. /\ plan # None /\ obs = None
      /\ snippet = Min({SnippetMax, read})
      /\ kept = IF plan.output THEN read ELSE 0
      /\ read = sent /\ read <= plan.cap
  BY DEF IInv, BodyOK, Running
<1>3. obs' = Response(ended, FALSE, read', snippet', kept')
  BY <1>1
<1> QED BY <1>1, <1>2, <1>3, ResponseKeeps

LEMMA NextKeeps == IInv /\ [Next]_vars => IInv'
<1> SUFFICES ASSUME IInv, [Next]_vars PROVE IInv'
  OBVIOUS
<1>1. CASE Dispatch
  BY <1>1, DispatchKeeps
<1>2. CASE Refuse
  BY <1>2, Stays DEF Refuse
<1>3. CASE Answered
  <2> DEFINE i == IF Step = "lookup4" THEN 2 ELSE 1
  <2>1. /\ i \in {1, 2, 3} /\ Skips(i) /\ Go(i)
        /\ Running /\ Step \notin Handshake
        /\ UNCHANGED <<line, plan, now, upAt, peer, Bytes>>
    BY <1>3 DEF Answered, Skips
  <2> HIDE DEF i
  <2> QED BY <2>1, AdvanceKeeps
<1>4. ASSUME NEW v \in Versions, NEW t \in BOOLEAN, Secured(v, t)
      PROVE  IInv'
  <2>1. /\ Running /\ Step \in Handshake /\ Go(1)
        /\ UNCHANGED <<line, plan, now, Bytes>>
        /\ upAt' = now /\ peer' = [version |-> v, trusted |-> t]
        /\ v \in plan.offered
        /\ t \/ plan.insecure
    BY <1>4 DEF Secured
  <2>2. /\ peer' \in Presented /\ peer'.version \in plan.offered
        /\ peer'.trusted \/ plan.insecure
    BY <2>1 DEF Presented
  <2>3. 1 \in {1, 2, 3} /\ Skips(1)
    BY DEF Skips
  <2> QED BY <2>1, <2>2, <2>3, AdvanceKeeps
<1>5. CASE Computed
  <2>1. PICK i \in IF Step = "locate" THEN {1, 3} ELSE {1} : Go(i)
    BY <1>5 DEF Computed
  <2>2. /\ i \in {1, 2, 3} /\ Skips(i)
        /\ Running /\ Step \notin Handshake
        /\ UNCHANGED <<line, plan, now, upAt, peer, Bytes>>
    BY <1>5, <2>1 DEF Computed, Skips, Local, Handshake
  <2> QED BY <2>1, <2>2, AdvanceKeeps
<1>6. ASSUME NEW k \in Kinds, FailsWith(k)
      PROVE  IInv'
  BY <1>6, FailureKeeps DEF FailsWith
<1>7. CASE TryIpv6
  <2>1. /\ 1 \in {1, 2, 3} /\ Skips(1) /\ Go(1)
        /\ Running /\ Step \notin Handshake
        /\ UNCHANGED <<line, plan, now, upAt, peer, Bytes>>
    BY <1>7 DEF TryIpv6, Skips, Handshake
  <2> QED BY <2>1, AdvanceKeeps
<1>8. CASE Expire
  <2>1. /\ Running /\ Step \in Timed /\ now = until
        /\ UNCHANGED <<line, plan, now, upAt, peer, Bytes>>
    BY <1>8 DEF Expire
  <2>2. CASE Step = "lookup4"
    <3>1. 1 \in {1, 2, 3} /\ Skips(1) /\ Go(1) /\ Step \notin Handshake
      BY <1>8, <2>2 DEF Expire, Skips, Handshake
    <3> QED BY <2>1, <3>1, AdvanceKeeps
  <2>3. CASE Step = "body"
    <3>1. obs' = Response(FALSE, FALSE, read, snippet, kept) /\ UNCHANGED <<at, until>>
      BY <1>8, <2>3 DEF Expire
    <3> QED BY <2>1, <3>1, BodyKeeps
  <2>4. CASE Step \notin {"lookup4", "body"}
    <3>1. obs' = Failure(Expires(Step)) /\ UNCHANGED <<at, until>>
      BY <1>8, <2>4 DEF Expire
    <3> QED BY <2>1, <2>4, <3>1, FailureKeeps
  <2> QED BY <2>2, <2>3, <2>4
<1>9. ASSUME NEW n \in 0..MaxFrame, Frame(n)
      PROVE  IInv'
  BY <1>9, FrameKeeps
<1>10. CASE BodyEnds
  BY <1>10, BodyKeeps DEF BodyEnds
<1>11. CASE Tick
  BY <1>11, TickKeeps
<1>12. CASE Done
  BY <1>12, Stays DEF Done
<1>13. CASE UNCHANGED vars
  BY <1>13, Stays
<1> QED BY <1>1, <1>2, <1>3, <1>4, <1>5, <1>6, <1>7, <1>8, <1>9, <1>10, <1>11,
           <1>12, <1>13 DEF Next

LEMMA Invariance == Spec => []IInv
<1>1. Init => IInv
  BY IInvInit
<1>2. IInv /\ [Next]_vars => IInv'
  BY NextKeeps
<1> QED BY <1>1, <1>2, PTL DEF Spec

LEMMA FlagsFollow == IInv => FlagsHonoured
<1> SUFFICES ASSUME IInv, plan # None PROVE FlagsHonoured
  BY DEF FlagsHonoured
<1>1. plan \in Plans /\ Suits(plan, line)
  BY PlanSuits DEF IInv, TypeOK, PlanOK
<1>2. \A x : Has(x) <=> x \in StepSet(plan)
  <2>1. /\ Steps(plan) \in Seq(StepSet(plan))
        /\ \A x \in StepSet(plan) : \E i \in 1..Len(Steps(plan)) : Steps(plan)[i] = x
    BY <1>1, StepsInOrder DEF Orderly
  <2>2. /\ DOMAIN Steps(plan) = 1..Len(Steps(plan))
        /\ \A i \in 1..Len(Steps(plan)) : Steps(plan)[i] \in StepSet(plan)
    BY <2>1
  <2> QED BY <2>1, <2>2 DEF Has
<1>3. /\ "tls" \in StepSet(plan) <=> plan.kind \notin {"tcp", "plain", "http3"}
      /\ "quic" \in StepSet(plan) <=> plan.kind = "http3"
      /\ plan.kind \in {"plain", "http", "http2", "http3"} => "response" \in StepSet(plan)
  BY <1>1 DEF StepSet, Plans, Protocols
<1>4. peer # None =>
        /\ line.version \in {"auto", peer.version}
        /\ peer.trusted \/ "insecure" \in line.flags
        /\ "plain" \notin line.flags
  BY <1>1 DEF IInv, PeerOK, Suits
<1>5. read <= line.cap
  BY <1>1 DEF IInv, BodyOK, Suits
<1>6. obs # None /\ obs.headers =>
        obs.file = IF "output" \in line.flags THEN read ELSE 0
  BY <1>1 DEF IInv, BodyOK, Suits
<1>7. /\ "insecure" \in line.flags => Has("tls") \/ Has("quic") \/ "resolver" \in line.flags
      /\ "version" \in line.flags => Has("tls")
      /\ line.flags \cap {"request", "body", "output", "cap"} # {} => Has("response")
      /\ "sni" \in line.flags => Has("tls") \/ Has("quic") \/ Has("response")
  BY <1>1, <1>2, <1>3 DEF Suits, Plans, Protocols
<1> QED BY <1>4, <1>5, <1>6, <1>7 DEF FlagsHonoured

-----------------------------------------------------------------------------
(* Type correctness of a probe, for every command line clap accepts.       *)
THEOREM TypeCorrect == Spec => []TypeOK
<1>1. IInv => TypeOK
  BY DEF IInv
<1> QED BY <1>1, Invariance, PTL

(* The kind of failure every probe reports is one of the layer it had      *)
(* reached when it failed (the with_failure calls of tcp.rs, tls.rs,       *)
(* http.rs, http2.rs, http3.rs and dns.rs).                                *)
THEOREM FailuresNameLayers == Spec => []FailureNamesLayer
<1>1. IInv => FailureNamesLayer
  BY DEF IInv
<1> QED BY <1>1, Invariance, PTL

(* No peer holds a probe longer than --timeout for every timer it started, *)
(* in whatever pieces and at whatever moments it sends (the timeout calls  *)
(* around each wait).                                                      *)
THEOREM ProbesKeepBudget == Spec => []InBudget
<1>1. IInv => InBudget
  BY DEF IInv, TimersOK, InBudget
<1> QED BY <1>1, Invariance, PTL

(* For any cap, any snippet and any frames, body_bytes, its cap mark, the  *)
(* snippet and the file say no more than arrived (push_bounded_body and    *)
(* the read loops of the three HTTP probes).                               *)
THEOREM BodiesAreHonest == Spec => []BodyIsHonest
<1>1. IInv => BodyIsHonest
  BY DEF IInv
<1> QED BY <1>1, Invariance, PTL

(* No flag is lost on its way through run_probe and the entry points, and  *)
(* none is accepted without a use.                                         *)
THEOREM FlagsAreHonoured == Spec => []FlagsHonoured
BY FlagsFollow, Invariance, PTL

=============================================================================
