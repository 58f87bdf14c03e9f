------------------------------ MODULE MCDnsWire ------------------------------
(* Honest responses of up to two records; names of every shape at the      *)
(* start of a message and in RDATA, in bytes that make labels, pointers    *)
(* into and out of each other, and neither; chains of pointers up to and   *)
(* past the limit; RDATA of every length around what its type needs.       *)
EXTENDS DnsWire

Long(n) == [i \in 1..n |-> 120]

(* The empty label is that of an empty name and of a doubled dot.          *)
MCHost == {<<<<97>>>>, <<<<97>>, <<98, 99>>>>, <<Long(63)>>, <<Long(64)>>, <<<<97>>, <<>>>>}
MCWant == {A, CNAME, SOA, MX, TXT, CAA}

Rec(type, ttl, fits, fixed, names) ==
  [type |-> type, ttl |-> ttl, fits |-> fits, fixed |-> fixed, names |-> names]

Twenty == [i \in 1..20 |-> i]

MCSent ==
  {Rec(A, 3, TRUE, <<1, 2, 3, 4>>, <<>>),
   Rec(A, 4, FALSE, <<1, 2, 3>>, <<>>),
   Rec(CNAME, 5, TRUE, <<>>, <<<<<<98>>>>>>),
   Rec(MX, 6, TRUE, <<0, 9>>, <<<<>>>>),
   Rec(MX, 7, FALSE, <<0, 9>>, <<>>),
   Rec(TXT, 8, TRUE, <<<<98>>, <<>>, <<97, 97>>>>, <<>>),
   Rec(SOA, 9, TRUE, Twenty, <<<<>>, <<<<98>>>>>>),
   Rec(CAA, 2, TRUE, <<0, <<98>>, <<99>>>>, <<>>)}

HeaderOf(qd, an) == <<0, 0, 129, 0, 0, qd, 0, an, 0, 0, 0, 0>>

(* A name at 12 or, behind the header of a record, at 23.                  *)
AsQuestion(tail) == HeaderOf(1, 0) \o tail

AsRecord(type, rdlen, tail) ==
  HeaderOf(0, 1) \o <<0>> \o U16Bytes(type) \o U16Bytes(1) \o <<0, 0, 0, 1>>
    \o U16Bytes(rdlen) \o tail

Tails(n, bytes) == [1..n -> bytes]

Chain(from, n) == FlattenSeq([i \in 1..n |-> <<192, from + 2 * i>>]) \o <<0>>

Questions ==
  {AsQuestion(tail) : tail \in Tails(4, {0, 1, 12, 13, 14, 64, 192})}
    \cup {AsQuestion(Chain(12, n)) : n \in 1..4}
    \cup {HeaderOf(0, 1), SubSeq(HeaderOf(1, 1), 1, 11), AsQuestion(<<0>>),
          HeaderOf(2, 1) \o <<0, 0, 1, 0>>}

Records(type) ==
  {AsRecord(type, n, tail) : n \in 0..4, tail \in Tails(3, {0, 1, 23, 192})}
    \cup (IF type # CNAME THEN {}
          ELSE {AsRecord(CNAME, 2, Chain(23, n)) : n \in 1..4}
                 \cup {AsRecord(CNAME, 4, tail) : tail \in Tails(4, {0, 1, 12, 23, 25, 192})})

MCRaw ==
  [q \in MCHost \X MCWant |->
     IF q[1] # <<<<97>>>> THEN {}
     ELSE Records(q[2]) \cup IF q[2] = A THEN Questions ELSE {}]

=============================================================================
