------------------------------- MODULE DnsWire -------------------------------
(***************************************************************************)
(* The DNS messages of the encrypted resolvers: build_query,               *)
(* parse_dns_response with the walks over compressed names under it, and   *)
(* what doh_query and dot_query make of the response, src/dns.rs.          *)
(*                                                                         *)
(* A message is a sequence of bytes and every step of the parser reads it  *)
(* at a position, counted from 0 as the code does.  The endpoint answers   *)
(* with any message that is in Raw, or with a response to the question     *)
(* asked.  What has a namesake in Dns bears another name here: DnsProofs   *)
(* is about both.                                                          *)
(***************************************************************************)
EXTENDS Sorting, SequencesExt

CONSTANTS
  MaxHops,    \* 8: the compression pointers read_name follows
  Host,       \* host names: sequences of labels, each a sequence of bytes
  Want,       \* the record types asked for, by their numbers
  Sent,       \* the records of honest responses, see WellFormed
  MaxAnswers, \* bound of the model: records in an honest response
  Rcode,      \* response codes
  Raw,        \* per question, messages that need not be answers to it
  Nothing     \* Rust's None

Octet == 0..255
Message == Seq(Octet)
Bits16 == 0..65535

Outcome == {"ok", "rcode", "alias", "nodata", "invalid", "protocol"}

ASSUME MaxHopsAssumption == MaxHops \in Nat \ {0}
ASSUME MaxAnswersAssumption == MaxAnswers \in Bits16
ASSUME HostAssumption == Host \subseteq Seq(Message)
ASSUME WantAssumption == Want \subseteq Bits16
ASSUME RcodeAssumption == Rcode \subseteq 0..15
ASSUME NothingAssumption == Nothing \notin Nat \cup Seq(Nat) \cup Outcome

VARIABLES
  host, want,  \* the question
  msg,         \* the response
  script,      \* history: the answers and code an honest endpoint put in it
  pc,          \* where the parser is
  pos,         \* its position
  questions, answers,  \* how many of each are still to be parsed
  rec,         \* the record it is at
  walk,        \* the walk over a name, or over the strings of a TXT record
  found,       \* rcode, ttl, records and saw_cname so far
  result,      \* "ok", the failure, or Nothing before it
  inside,      \* history: no byte was indexed outside the slice indexed
  work         \* history: the labels and pointers of the current walk so far

asked == <<host, want>>
wire == <<msg, script>>
loop == <<questions, answers, rec, found>>
wireVars == <<asked, wire, pc, pos, loop, walk, result, inside, work>>

-----------------------------------------------------------------------------
Byte(p) == msg[p + 1]
Size == Len(msg)
U16(p) == 256 * Byte(p) + Byte(p + 1)

A == 1
NS == 2
CNAME == 5
SOA == 6
PTR == 12
MX == 15
TXT == 16
AAAA == 28
SRV == 33
CAA == 257

U16Bytes(n) == <<n \div 256, n % 256>>

(* build_query.  Every label is preceded by its length; a root dot at the  *)
(* end of the name is no label.                                            *)
Buildable(h) == h # <<>> /\ \A i \in DOMAIN h : Len(h[i]) \in 1..63

Prefixed(s) == <<Len(s)>> \o s

Strings(ss) == FlattenSeq([i \in DOMAIN ss |-> Prefixed(ss[i])])

Encoded(h) == Strings(h) \o <<0>>

Question(h, ty) == Encoded(h) \o U16Bytes(ty) \o U16Bytes(1)

(* A response to it: the question again, which starts at 12, and records   *)
(* whose names, and the names in them, go on there.                        *)
Compressed(labels) == Strings(labels) \o <<192, 12>>

Tagged(r) == <<r.fixed[1]>> \o Prefixed(r.fixed[2]) \o r.fixed[3]
Named(r) == r.fixed \o Compressed(r.names[1])
Authority(r) == Compressed(r.names[1]) \o Compressed(r.names[2]) \o r.fixed

Rdata(r) ==
  CASE r.fits /\ r.type = TXT -> Strings(r.fixed)
    [] r.fits /\ r.type = CAA -> Tagged(r)
    [] r.fits /\ r.type = SOA -> Authority(r)
    [] r.fits /\ r.type \in {CNAME, NS, PTR, MX, SRV} -> Named(r)
    [] OTHER -> r.fixed

Resource(r) ==
  <<192, 12>> \o U16Bytes(r.type) \o U16Bytes(1) \o U16Bytes(0) \o U16Bytes(r.ttl)
    \o U16Bytes(Len(Rdata(r))) \o Rdata(r)

Resources(recs) == FlattenSeq([i \in DOMAIN recs |-> Resource(recs[i])])

Respond(h, ty, recs, rcode) ==
  <<0, 0, 129, rcode>> \o U16Bytes(1) \o U16Bytes(Len(recs)) \o <<0, 0, 0, 0>>
    \o Question(h, ty) \o Resources(recs)

-----------------------------------------------------------------------------
NoRecord == [type |-> 0, start |-> 0, end |-> 0, names |-> <<>>]

NoWalk ==
  [start |-> 0, follows |-> 0, pos |-> 0, hops |-> 0, end |-> Nothing, labels |-> <<>>,
   then |-> "asked"]

WireInit ==
  /\ host \in Host /\ want \in Want
  /\ msg = <<>> /\ script = Nothing
  /\ pc = "query" /\ pos = 0
  /\ questions = 0 /\ answers = 0 /\ rec = NoRecord
  /\ walk = NoWalk
  /\ found = [rcode |-> 0, ttl |-> Nothing, records |-> <<>>, cname |-> FALSE]
  /\ result = Nothing
  /\ inside = TRUE /\ work = 0

Goto(where) == pc' = where /\ UNCHANGED result

Fail(why) == pc' = "over" /\ result' = why

(* The query is built, or is not; the endpoint answers it.                 *)
RefuseHost ==
  /\ pc = "query" /\ ~Buildable(host)
  /\ Fail("protocol")
  /\ UNCHANGED <<asked, wire, pos, loop, walk, inside, work>>

Receive(m, s) ==
  /\ m \in Message
  /\ msg' = m /\ script' = s
  /\ Goto("header")
  /\ UNCHANGED <<asked, pos, loop, walk, inside, work>>

Built == pc = "query" /\ Buildable(host)

Honest ==
  /\ Built
  /\ \E recs \in BoundedSeq(Sent, MaxAnswers), rcode \in Rcode :
       Receive(Respond(host, want, recs, rcode), [recs |-> recs, rcode |-> rcode])

Arbitrary == Built /\ \E m \in Raw[<<host, want>>] : Receive(m, Nothing)

Header ==
  /\ pc = "header"
  /\ IF Size < 12
     THEN Fail("invalid") /\ UNCHANGED <<pos, questions, answers, found>>
     ELSE /\ Goto("question")
          /\ pos' = 12
          /\ questions' = U16(4) /\ answers' = U16(6)
          /\ found' = [found EXCEPT !.rcode = Byte(3) % 16]
  /\ UNCHANGED <<asked, wire, rec, walk, inside, work>>

(* A walk over the name at p.  read_name follows MaxHops pointers.         *)
(* skip_name follows its first one before it starts counting.              *)
WalkFrom(p, follows, then) ==
  /\ walk' = [NoWalk EXCEPT !.start = p, !.pos = p, !.follows = follows, !.then = then]
  /\ work' = 0

SkipName(p, then) == WalkFrom(p, MaxHops + 1, then)
ReadName(p, then) == WalkFrom(p, MaxHops, then)

(* The next question, the next answer, or the end of the message.          *)
NextQuestion ==
  /\ pc = "question"
  /\ IF questions > 0
     THEN Goto("name") /\ SkipName(pos, "asked")
     ELSE Goto("answer") /\ UNCHANGED <<walk, work>>
  /\ UNCHANGED <<asked, wire, pos, loop, inside>>

NextAnswer ==
  /\ pc = "answer"
  /\ IF answers > 0
     THEN Goto("name") /\ SkipName(pos, "owner")
     ELSE Goto("judge") /\ UNCHANGED <<walk, work>>
  /\ UNCHANGED <<asked, wire, pos, loop, inside>>

-----------------------------------------------------------------------------
(* One turn of the loop over a name.                                       *)
AtName == pc = "name"
Reads(b) == AtName /\ walk.pos < Size /\ Byte(walk.pos) \in b

InvalidName ==
  /\ Fail("invalid")
  /\ UNCHANGED <<asked, wire, pos, loop, walk, inside>>

Advance(w) ==
  /\ walk' = w
  /\ UNCHANGED <<asked, wire, pc, pos, loop, result, inside>>

NameOverruns ==
  /\ AtName /\ walk.pos >= Size
  /\ InvalidName /\ UNCHANGED work

BadLabel ==
  /\ Reads(64..191)
  /\ InvalidName /\ UNCHANGED work

ReadLabel ==
  /\ Reads(1..63)
  /\ work' = work + 1
  /\ LET end == walk.pos + 1 + Byte(walk.pos)
     IN IF end > Size THEN InvalidName
        ELSE Advance([walk EXCEPT !.pos = end,
                                  !.labels = Append(@, SubSeq(msg, walk.pos + 2, end))])

(* Past a pointer, the name goes on where it points and the message after  *)
(* the first.  Mutant: after the last.                                     *)
EndAfterLast == walk.pos + 2

EndAfterFirst == IF walk.end = Nothing THEN walk.pos + 2 ELSE walk.end

Pointer ==
  /\ Reads(192..255)
  /\ work' = work + 1
  /\ IF \/ walk.pos + 1 >= Size
        \/ 256 * (Byte(walk.pos) - 192) + Byte(walk.pos + 1) >= Size
        \/ walk.hops + 1 > walk.follows
     THEN InvalidName
     ELSE Advance([walk EXCEPT
                     !.pos = 256 * (Byte(walk.pos) - 192) + Byte(walk.pos + 1),
                     !.hops = @ + 1,
                     !.end = EndAfterFirst])

(* The root label.  Who asked for the name goes on behind it.              *)
NameEnd == IF walk.end = Nothing THEN walk.pos + 1 ELSE walk.end

EndQuestionName ==
  /\ Reads({0}) /\ walk.then = "asked"
  /\ Goto("question")
  /\ pos' = NameEnd + 4
  /\ questions' = questions - 1
  /\ UNCHANGED <<asked, wire, answers, rec, found, walk, inside, work>>

EndOwnerName ==
  /\ Reads({0}) /\ walk.then = "owner"
  /\ Goto("record")
  /\ pos' = NameEnd
  /\ UNCHANGED <<asked, wire, loop, walk, inside, work>>

-----------------------------------------------------------------------------
(* The lengths of RDATA a record of the wanted type is decoded from; the   *)
(* others are passed over.  Mutant: any length.                            *)
DecodableAlways(rdlen) == TRUE

Decodable(rdlen) ==
  CASE want = A -> rdlen = 4
    [] want = AAAA -> rdlen = 16
    [] want = MX -> rdlen >= 3
    [] want = CAA -> rdlen >= 2
    [] want = SRV -> rdlen >= 6
    [] OTHER -> TRUE

(* The bytes of RDATA indexed one by one.                                  *)
Fixed ==
  CASE want = A -> 4
    [] want = AAAA -> 16
    [] want \in {MX, CAA} -> 2
    [] want = SRV -> 6
    [] OTHER -> 0

Names(type) == CASE type \in {CNAME, NS, PTR, MX, SRV} -> 1 [] type = SOA -> 2 [] OTHER -> 0

(* The time to live is that of the first record of the wanted type, also   *)
(* of one that is passed over.  Mutant: of the first record.               *)
TtlOfFirst(type, ttl) == IF found.ttl = Nothing THEN ttl ELSE found.ttl

RecordTtl(type, ttl) == IF type = want /\ found.ttl = Nothing THEN ttl ELSE found.ttl

(* From its header on, a record: passed over, or decoded as its type needs *)
(* it.  Names are read from the message, without regard to where RDATA     *)
(* ends.                                                                   *)
Record ==
  /\ pc = "record"
  /\ UNCHANGED <<asked, wire, questions>>
  /\ IF pos + 10 > Size
     THEN Fail("invalid") /\ UNCHANGED <<pos, answers, rec, walk, found, inside, work>>
     ELSE LET type == U16(pos)
              rdlen == U16(pos + 8)
              start == pos + 10
              decoded == type = want /\ Decodable(rdlen)
          IN /\ found' = [found EXCEPT
                            !.cname = @ \/ type = CNAME,
                            !.ttl = RecordTtl(type, <<U16(pos + 4), U16(pos + 6)>>)]
             /\ IF start + rdlen > Size
                THEN Fail("invalid") /\ UNCHANGED <<pos, answers, rec, walk, inside, work>>
                ELSE /\ pos' = start + rdlen
                     /\ answers' = answers - 1
                     /\ rec' = [type |-> type, start |-> start, end |-> start + rdlen,
                                names |-> <<>>]
                     /\ inside' = (inside /\ (decoded => Fixed <= rdlen))
                     /\ IF decoded /\ Names(want) > 0
                        THEN Goto("name") /\ ReadName(start + Fixed, "rdata")
                        ELSE /\ UNCHANGED work
                             /\ walk' = [NoWalk EXCEPT !.pos = start]
                             /\ Goto(IF ~decoded THEN "answer"
                                     ELSE IF want = TXT THEN "text" ELSE "push")

Bytes(from, to) == SubSeq(msg, from + 1, to)

Push(value) ==
  /\ found' = [found EXCEPT !.records = Append(@, value)]
  /\ Goto("answer")

(* A name in RDATA was read: the second one of a SOA record follows the    *)
(* first, and five numbers follow that.                                    *)
EndRdataName ==
  /\ Reads({0}) /\ walk.then = "rdata"
  /\ rec' = [rec EXCEPT !.names = Append(@, walk.labels)]
  /\ UNCHANGED <<asked, wire, pos, questions, answers, inside>>
  /\ IF Len(rec'.names) < Names(want)
     THEN ReadName(NameEnd, "rdata") /\ UNCHANGED <<pc, result, found>>
     ELSE /\ UNCHANGED <<walk, work>>
          /\ IF want = SOA /\ NameEnd + 20 > Size
             THEN Fail("invalid") /\ UNCHANGED found
             ELSE Push(<<IF want = SOA THEN Bytes(NameEnd, NameEnd + 20)
                         ELSE Bytes(rec.start, rec.start + Fixed), rec'.names>>)

(* The character-strings of a TXT record, joined.                          *)
TextString ==
  /\ pc = "text" /\ walk.pos < rec.end
  /\ LET end == walk.pos + 1 + Byte(walk.pos)
     IN IF end > rec.end THEN Fail("invalid") /\ UNCHANGED walk
        ELSE /\ walk' = [walk EXCEPT !.pos = end,
                                     !.labels = Append(@, Bytes(walk.pos + 1, end))]
             /\ UNCHANGED <<pc, result>>
  /\ UNCHANGED <<asked, wire, pos, loop, inside, work>>

EndText ==
  /\ pc = "text" /\ walk.pos >= rec.end
  /\ Push(FlattenSeq(walk.labels))
  /\ UNCHANGED <<asked, wire, pos, questions, answers, rec, walk, inside, work>>

(* The others: an address, or the flags, tag and value of a CAA record.    *)
PushFixed ==
  /\ pc = "push"
  /\ LET tagEnd == rec.start + 2 + Byte(rec.start + 1)
     IN IF want # CAA THEN Push(Bytes(rec.start, rec.end))
        ELSE IF tagEnd > rec.end THEN Fail("invalid") /\ UNCHANGED found
        ELSE Push(<<Byte(rec.start), Bytes(rec.start + 2, tagEnd), Bytes(tagEnd, rec.end)>>)
  /\ UNCHANGED <<asked, wire, pos, questions, answers, rec, walk, inside, work>>

(* doh_query and dot_query: an answer without a record is no success.      *)
Verdict ==
  CASE found.rcode # 0 -> "rcode"
    [] found.rcode = 0 /\ found.records # <<>> -> "ok"
    [] found.rcode = 0 /\ found.records = <<>> /\ found.cname -> "alias"
    [] OTHER -> "nodata"

Conclude ==
  /\ pc = "judge"
  /\ Fail(Verdict)
  /\ UNCHANGED <<asked, wire, pos, loop, walk, inside, work>>

Over ==
  /\ pc = "over"
  /\ UNCHANGED wireVars

EndName == EndQuestionName \/ EndOwnerName \/ EndRdataName

Parse ==
  \/ Header \/ NextQuestion \/ NextAnswer
  \/ NameOverruns \/ BadLabel \/ ReadLabel \/ Pointer \/ EndName
  \/ Record \/ TextString \/ EndText \/ PushFixed \/ Conclude

WireNext ==
  \/ RefuseHost \/ Honest \/ Arbitrary
  \/ Parse
  \/ Over

WireSpec == WireInit /\ [][WireNext]_wireVars

-----------------------------------------------------------------------------
(* Whatever the message, the parser indexes no byte outside of what it     *)
(* holds, and no name costs more turns than there are positions, once for  *)
(* every pointer that may be followed: pointers that form a loop end like  *)
(* any others.                                                             *)
StaysInside == inside /\ work <= (MaxHops + 2) * (Size + 1)

(* The name at position p, if h pointers may be followed: its labels,       *)
(* Nothing among them if there is no such name, and where it ends in the   *)
(* message.  The name it goes on with is taken from the function given.    *)
NameBy(name, h, p) ==
  LET next == p + 1 + Byte(p)
  IN IF p < Size /\ Byte(p) = 0 THEN [labels |-> <<>>, end |-> p + 1]
     ELSE IF p < Size /\ Byte(p) < 64 /\ next <= Size
     THEN [labels |-> <<Bytes(p + 1, next)>> \o name[<<h, next>>].labels,
           end |-> name[<<h, next>>].end]
     ELSE IF p + 1 < Size /\ Byte(p) >= 192 /\ h > 0
     THEN [labels |-> name[<<h - 1, U16(p) - 256 * 192>>].labels, end |-> p + 2]
     ELSE [labels |-> <<Nothing>>, end |-> p]

Place == (0..MaxHops + 1) \X Nat

Denotes ==
  LET Name[e \in Place] == NameBy(Name, e[1], e[2])
  IN Name

(* A walk over a name, to read or to skip it, ends with the labels the     *)
(* name denotes and behind the name, not behind where a pointer led; and   *)
(* it only fails where there is no name, or too many pointers to it.       *)
NamesAsDefined ==
  [][AtName =>
       LET name == Denotes[<<walk.follows, walk.start>>]
       IN IF Reads({0}) THEN walk.labels = name.labels /\ NameEnd = name.end
          ELSE result' # Nothing => Nothing \in ToSet(name.labels)]_wireVars

(* An honest record: what its type needs, or data of a length its type     *)
(* cannot have.                                                            *)
LabelBytes == {s \in Message : Len(s) \in 1..63}
StringBytes == {s \in Message : Len(s) \in Octet}

Wrong(type, length) ==
  \/ type = A /\ length # 4
  \/ type = AAAA /\ length # 16
  \/ type = MX /\ length < 3
  \/ type = CAA /\ length < 2
  \/ type = SRV /\ length < 6

Fits(type, fixed) ==
  /\ type = TXT => fixed \in Seq(StringBytes)
  /\ type = CAA => fixed \in Octet \X StringBytes \X Message
  /\ type \notin {TXT, CAA} => fixed \in Message
  /\ type \in {CNAME, NS, PTR} => Len(fixed) = 0
  /\ type = MX => Len(fixed) = 2
  /\ type = A => Len(fixed) = 4
  /\ type = SRV => Len(fixed) = 6
  /\ type = AAAA => Len(fixed) = 16
  /\ type = SOA => Len(fixed) = 20

WellFormed(r) ==
  /\ r.type \in Bits16 /\ r.ttl \in Bits16 /\ r.fits \in BOOLEAN
  /\ r.fits => Fits(r.type, r.fixed) /\ r.names \in [1..Names(r.type) -> Seq(LabelBytes)]
  /\ ~r.fits => r.fixed \in Message /\ Wrong(r.type, Len(r.fixed))
  /\ Len(Rdata(r)) \in Bits16

ASSUME SentAssumption == \A r \in Sent : WellFormed(r)

(* What it says: its strings as one, its names going on with the name      *)
(* asked for.                                                              *)
Value(r) ==
  IF r.type = TXT THEN FlattenSeq(r.fixed)
  ELSE IF Names(r.type) = 0 THEN r.fixed
  ELSE <<r.fixed, [i \in DOMAIN r.names |-> r.names[i] \o host]>>

(* The records an honest endpoint sent of the type asked for are what is   *)
(* found, in their order, with the names they mean; the time to live is of *)
(* one of them and not of an alias on the way; and the verdict tells an    *)
(* error, a name without such records, and an alias that was not followed  *)
(* apart.                                                                  *)
AnswersAsAsked ==
  result # Nothing /\ script # Nothing =>
    LET wanted == Those(script.recs, {r \in Sent : r.type = want})
        decoded == Those(script.recs, {r \in Sent : r.type = want /\ r.fits})
        aliased == \E i \in DOMAIN script.recs : script.recs[i].type = CNAME
    IN /\ found.records = [i \in DOMAIN decoded |-> Value(decoded[i])]
       /\ found.ttl = IF wanted = <<>> THEN Nothing ELSE <<0, wanted[1].ttl>>
       /\ result = IF script.rcode # 0 THEN "rcode"
                   ELSE IF decoded # <<>> THEN "ok"
                   ELSE IF aliased THEN "alias"
                   ELSE "nodata"

=============================================================================
