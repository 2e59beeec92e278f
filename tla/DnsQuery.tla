------------------------------ MODULE DnsQuery ------------------------------
(***************************************************************************)
(* The resolver's single query and the parser of its response (net/dns.rs).*)
(* A packet is a sequence of cells; a 16 or 32 bit field is one cell, so   *)
(* the header has 4 cells for 12 bytes and the fixed part of a record 3    *)
(* for 10.  A name is label lengths and label cells up to a zero, or a     *)
(* pointer.  The server and the network are external.                      *)
(***************************************************************************)
EXTENDS Integers, Sequences, SequencesExt

CONSTANTS
    Names,              \* names as labels, ended by 0
    Records,            \* records: type, ttl, data
    MaxRecords,         \* bound: answers
    Pointer,            \* a cell that is a compression pointer's first
    AddressLen          \* cells of an address, the code's 4 octets

VARIABLES
    asked,              \* the query packet
    reply,              \* the packet sent back, before damage
    truth,              \* the records it holds
    packet,             \* what arrived
    result

vars == <<asked, reply, truth, packet, result>>

TYPE_A == 1
HEADER_LEN == 4

build_query(name, tx_id) == <<tx_id, 0, 1, 0>> \o name \o <<TYPE_A, 1>>

Err(why) == [error |-> why, addresses |-> <<>>, ttl |-> 0]
NoResult == Err("none")

Cell(p, pos) == p[pos + 1]          \* positions count from 0

\* The position after the name at pos, or -1 past the end.
skip_name(p, pos) ==
    LET After[at \in 0 .. Len(p) + Pointer] ==
            IF at >= Len(p) THEN -1
            ELSE IF Cell(p, at) = 0 THEN at + 1
            ELSE IF Cell(p, at) >= Pointer THEN (IF at + 1 >= Len(p) THEN -1 ELSE at + 2)
            ELSE After[at + 1 + Cell(p, at)]
    IN  After[pos]

DataFits(p, pos, rdlength) == pos + rdlength <= Len(p)

\* The loop over the questions, then over the answers.
Questions(p, count) ==
    LET After[k \in 0 .. count] ==
            IF k = 0 THEN HEADER_LEN
            ELSE IF After[k - 1] = -1 THEN -1
            ELSE LET pos == skip_name(p, After[k - 1])
                 IN  IF pos = -1 \/ pos + 2 > Len(p) THEN -1 ELSE pos + 2
    IN  After[count]

Taken(rdlength, isAddress) == rdlength

TtlKept(before, isAddress, ttl) ==
    IF isAddress /\ before.addresses = <<>> THEN ttl ELSE before.ttl

Answers(p, start, count) ==
    LET After[k \in 0 .. count] ==
            IF k = 0 THEN [pos |-> start, addresses |-> <<>>, ttl |-> 0]
            ELSE IF After[k - 1].pos = -1 THEN After[k - 1]
            ELSE LET before == After[k - 1]
                     pos == skip_name(p, before.pos)
                     data == pos + 3
                     rdlength == Cell(p, pos + 2)
                     isAddress == Cell(p, pos) = TYPE_A /\ rdlength = AddressLen
                 IN  IF pos = -1 \/ data > Len(p) THEN [before EXCEPT !.pos = -1]
                     ELSE IF ~DataFits(p, data, rdlength) THEN [before EXCEPT !.pos = -1]
                     ELSE [pos |-> data + Taken(rdlength, isAddress),
                           addresses |-> IF isAddress
                                         THEN Append(before.addresses,
                                                     SubSeq(p, data + 1, data + rdlength))
                                         ELSE before.addresses,
                           ttl |-> TtlKept(before, isAddress, Cell(p, pos + 1))]
    IN  After[count]

parse_response(p, expected) ==
    IF Len(p) < HEADER_LEN THEN Err("TruncatedResponse")
    ELSE IF p[1] # expected THEN Err("IdMismatch")
    ELSE IF p[2] # 0 THEN Err("ServerError")
    ELSE LET start == Questions(p, p[3])
         IN  IF start = -1 THEN Err("TruncatedResponse")
             ELSE LET found == Answers(p, start, p[4])
                  IN  IF found.pos = -1 THEN Err("TruncatedResponse")
                      ELSE IF found.addresses = <<>> THEN Err("NoAnswer")
                      ELSE [error |-> "none", addresses |-> found.addresses, ttl |-> found.ttl]

----------------------------------------------------------------------------
\* External: a server's answer, the records' names as they come.
Answer(id, rcode, records) ==
    <<id, rcode, 1, Len(records)>> \o SubSeq(asked, HEADER_LEN + 1, Len(asked))
    \o FoldLeft(LAMBDA p, r : p \o r.name \o <<r.type, r.ttl, Len(r.data)>> \o r.data,
                <<>>, records)

Init ==
    /\ asked \in {build_query(name, 1) : name \in Names}
    /\ reply = <<>>
    /\ truth = <<>>
    /\ packet = <<>>
    /\ result = NoResult

serve(id, rcode, records) ==
    /\ reply = <<>>
    /\ truth' = records
    /\ reply' = Answer(id, rcode, records)
    /\ packet' = reply'
    /\ UNCHANGED <<asked, result>>

\* MAX_DNS_PACKET or the network cuts the end off.
cut(k) ==
    /\ packet = reply /\ k < Len(packet)
    /\ packet' = SubSeq(packet, 1, k)
    /\ UNCHANGED <<asked, reply, truth, result>>

\* resolve: one datagram, or the read timeout.
resolve ==
    /\ result = NoResult
    /\ \/ reply # <<>> /\ result' = parse_response(packet, asked[1])
       \/ result' = Err("Io")
    /\ UNCHANGED <<asked, reply, truth, packet>>

Next ==
    \/ \E id \in {1, 2}, rcode \in {0, 3}, records \in BoundedSeq(Records, MaxRecords) :
          serve(id, rcode, records)
    \/ result = NoResult /\ \E k \in 0 .. Len(packet) : cut(k)
    \/ resolve

Spec == Init /\ [][Next]_vars

----------------------------------------------------------------------------
Addresses(records) ==
    SelectSeq(records, LAMBDA r : r.type = TYPE_A /\ Len(r.data) = AddressLen)

(***************************************************************************)
(* A resolution that succeeds gives exactly the addresses the server sent, *)
(* in order, with the first one's ttl, through whatever other records and  *)
(* name encodings stand between them (dns.rs:107-183).  A response cut     *)
(* short is an error, never a shorter list, and a whole one with an        *)
(* address never is (dns.rs:185-210).                                      *)
(***************************************************************************)
AddressesAreTheServers ==
    result \notin {NoResult, Err("Io")} =>
       LET sent == Addresses(truth)
           good == packet = reply /\ reply[1] = asked[1] /\ reply[2] = 0 /\ sent # <<>>
       IN  /\ (result.error = "none") = good
           /\ good => /\ result.addresses = [k \in DOMAIN sent |-> sent[k].data]
                      /\ result.ttl = sent[1].ttl
=============================================================================
