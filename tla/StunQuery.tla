------------------------------ MODULE StunQuery -----------------------------
(***************************************************************************)
(* One blocking STUN binding query (net/stun.rs): the same request is sent *)
(* a few times, each time with one wait for one datagram.  The server and  *)
(* the network are external: replies are lost, late or double, and         *)
(* datagrams of other requests arrive on the same socket.                  *)
(***************************************************************************)
EXTENDS Integers, Sequences, FiniteSetsExt

CONSTANTS
    attempts,           \* waits, the length of TIMEOUTS_MS in the code
    Bodies,             \* attribute lists a server may answer with
    Strays,             \* datagrams that answer another request or none
    MaxQueue            \* bound: datagrams waiting in the socket

VARIABLES
    attempt,            \* index of the current wait
    waiting,            \* the request of this attempt is sent
    socket,             \* datagrams that have arrived
    taken,              \* history: the datagram read last, None before the first
    result              \* "none" until the query returns

vars == <<attempt, waiting, socket, taken, result>>

\* A datagram: what its header says (kind, tx), its attributes, by how many
\* bytes the body ends early, and whether the datagram is cut.
None == [kind |-> "none"]

\* Attributes: type, length, and the reserved byte, the family and the address
\* an address attribute carries.
Padded(alen) == ((alen + 3) \div 4) * 4

\* Where the attributes of a body start, counted in bytes.
Offset(body, k) ==
    LET Sum[m \in 1 .. Len(body) + 1] ==
            IF m = 1 THEN 0 ELSE Sum[m - 1] + 4 + Padded(body[m - 1].alen)
    IN  Sum[k]

BodyLength(reply) == Offset(reply.attrs, Len(reply.attrs) + 1) - reply.short

\* What the parser reads at a byte position; anywhere but at the start of an
\* attribute it finds no address.
AttributeAt(body, cursor) ==
    IF \E k \in DOMAIN body : Offset(body, k) = cursor
    THEN body[CHOOSE k \in DOMAIN body : Offset(body, k) = cursor]
    ELSE [type |-> "other", alen |-> 0]

\* decode_mapped_address and decode_xor_mapped_address refuse alike.
decode_error(attr) ==
    IF attr.alen < 4 \/ attr.reserved # 0 THEN "BadAttribute"
    ELSE IF attr.family \notin {"v4", "v6"} THEN "BadFamily"
    ELSE IF attr.alen # (IF attr.family = "v4" THEN 8 ELSE 20) THEN "BadAttribute"
    ELSE "none"

NextCursor(cursor, alen) == cursor + 4 + Padded(alen)

\* The attribute walk, to its end or to the first attribute that is refused:
\* the last address of each kind.
Walk(reply) ==
    LET length == BodyLength(reply)
        At[cursor \in 0 .. length + 8] ==
            IF cursor + 4 > length THEN [xor |-> 0, plain |-> 0, error |-> "none"]
            ELSE LET attr == AttributeAt(reply.attrs, cursor)
                     error == IF cursor + 4 + attr.alen > length THEN "Truncated"
                              ELSE IF attr.type = "other" THEN "none"
                              ELSE decode_error(attr)
                     rest == At[NextCursor(cursor, attr.alen)]
                 IN  IF error # "none" THEN [xor |-> 0, plain |-> 0, error |-> error]
                     ELSE [rest EXCEPT
                             !.xor = IF @ = 0 /\ attr.type = "xor" THEN attr.addr ELSE @,
                             !.plain = IF @ = 0 /\ attr.type = "plain" THEN attr.addr ELSE @]
    IN  At[0]

\* Variant: whatever comes from a STUN server is taken for the answer.
TransactionMatches_any(datagram) == TRUE

TransactionMatches(datagram) == datagram.tx = "ours"

parse_binding_response(datagram) ==
    IF datagram.cut = "header" THEN <<"Truncated">>
    ELSE IF datagram.kind = "garbage" THEN <<"BadMagic">>
    ELSE IF ~TransactionMatches(datagram) THEN <<"TransactionMismatch">>
    ELSE IF datagram.cut = "body" THEN <<"Truncated">>
    ELSE IF datagram.kind = "error" THEN <<"ErrorResponse">>
    ELSE IF datagram.kind # "success" THEN <<"NotBinding">>
    ELSE LET found == Walk(datagram)
         IN  IF found.error # "none" THEN <<found.error>>
             ELSE IF found.xor # 0 THEN <<"addr", found.xor>>
             ELSE IF found.plain # 0 THEN <<"addr", found.plain>>
             ELSE <<"NoMappedAddress">>

----------------------------------------------------------------------------
Init ==
    /\ attempt = 1
    /\ waiting = FALSE
    /\ socket = <<>>
    /\ taken = None
    /\ result = <<"none">>

Returned == result # <<"none">>

send ==
    /\ ~Returned /\ ~waiting /\ attempt <= attempts
    /\ waiting' = TRUE
    /\ UNCHANGED <<attempt, socket, taken, result>>

\* send_to, set_read_timeout or recv_from fails.
io_error ==
    /\ ~Returned /\ attempt <= attempts
    /\ result' = <<"Io">>
    /\ UNCHANGED <<attempt, waiting, socket, taken>>

\* recv_from gives a datagram before the wait is over.
receive ==
    LET datagram == Head(socket)
        parsed == parse_binding_response(datagram)
    IN  /\ ~Returned /\ waiting /\ socket # <<>>
        /\ socket' = Tail(socket) /\ taken' = datagram
        /\ waiting' = FALSE
        /\ IF parsed = <<"TransactionMismatch">>
           THEN attempt' = attempt + 1 /\ UNCHANGED result
           ELSE result' = parsed /\ UNCHANGED attempt

expire ==
    /\ ~Returned /\ waiting
    /\ attempt' = attempt + 1
    /\ waiting' = FALSE
    /\ UNCHANGED <<socket, taken, result>>

give_up ==
    /\ ~Returned /\ attempt > attempts
    /\ result' = <<"Timeout">>
    /\ UNCHANGED <<attempt, waiting, socket, taken>>

\* External: a reply to one of the requests sent so far, or a stray.
arrive(datagram) ==
    /\ Len(socket) < MaxQueue
    /\ socket' = Append(socket, datagram)
    /\ UNCHANGED <<attempt, waiting, taken, result>>

\* A body may end without the padding of its last attribute, or inside it.
Endings(body) ==
    IF body = <<>> THEN {0}
    ELSE LET alen == body[Len(body)].alen
             pad == Padded(alen) - alen
         IN  {0, pad, pad + 1}

Reply(kind, attrs, short, cut) ==
    [kind |-> kind, tx |-> "ours", attrs |-> attrs, short |-> short, cut |-> cut]

Replies ==
    UNION {{Reply("success", body, short, "no") : short \in Endings(body)} : body \in Bodies}
    \cup {Reply(kind, <<>>, 0, "no") : kind \in {"error", "other"}}
    \cup {Reply("success", body, 0, "body") : body \in Bodies}

Next ==
    \/ send \/ receive \/ expire \/ give_up \/ io_error
    \/ ~Returned /\ (waiting \/ attempt > 1) /\ \E reply \in Replies : arrive(reply)
    \/ ~Returned /\ \E stray \in Strays : arrive(stray)

Spec == Init /\ [][Next]_vars

----------------------------------------------------------------------------
\* A binding success as RFC 5389 has it, with an address.
Positions(reply, type) == {m \in DOMAIN reply.attrs : reply.attrs[m].type = type}

Sound(attr) ==
    attr.type # "other" => /\ attr.reserved = 0
                           /\ <<attr.family, attr.alen>> \in {<<"v4", 8>>, <<"v6", 20>>}

Good(reply) ==
    /\ reply.kind = "success" /\ reply.tx = "ours" /\ reply.cut = "no"
    /\ \A m \in DOMAIN reply.attrs : Sound(reply.attrs[m])
    /\ Positions(reply, "xor") \cup Positions(reply, "plain") # {}
    /\ LET alen == reply.attrs[Len(reply.attrs)].alen IN reply.short <= Padded(alen) - alen

LastAddress(reply, type) == reply.attrs[Max(Positions(reply, type))].addr

(***************************************************************************)
(* The query returns an address exactly when the datagram it read last is  *)
(* a whole and sound binding success to this query: every attribute        *)
(* complete but for the last one's padding, every address attribute well   *)
(* formed and one of them there.  Then it is the address of the last       *)
(* XORed attribute, of the last plain one where there is none.  A reply    *)
(* with a good address is refused for any other attribute that is          *)
(* malformed, and a datagram that is no STUN message ends the query, as    *)
(* the code has it (stun.rs:176-247, 346-354).                             *)
(***************************************************************************)
AnswerIsTheServers ==
    /\ result[1] = "addr" <=> taken # None /\ Good(taken)
    /\ result[1] = "addr" =>
          result[2] = LastAddress(taken, IF Positions(taken, "xor") # {} THEN "xor" ELSE "plain")

=============================================================================
