------------------------------- MODULE WsFrame ------------------------------
(***************************************************************************)
(* WebSocket frames (desmos-http/src/websocket/frame.rs): encode_frame,    *)
(* and decode_frame on a buffer that fills in pieces.  The sizes are       *)
(* constants: the code has bytes, lengths up to 125 in the first length    *)
(* byte, two more bytes behind the mark 126 and eight behind 127.          *)
(***************************************************************************)
EXTENDS Integers, Sequences, SequencesExt, Bitwise

CONSTANTS
    Byte,               \* values of a byte, a power of two
    Inline,             \* the mark of a two-byte length, the code's 126
    Wide,               \* bytes of the longest length, the code's 8
    MAX_FRAME_PAYLOAD,
    Lengths,            \* payload lengths sent
    MaxFrames           \* bound: frames sent

Opcodes == {"Text", "Binary", "Close", "Ping", "Pong"}

VARIABLES
    sent,               \* frames sent
    wire,               \* their bytes, not delivered
    buf,                \* bytes delivered, not decoded
    got,                \* frames decoded
    failed              \* decode_frame has returned an error

vars == <<sent, wire, buf, got, failed>>

\* The digits of n, most significant first (to_be_bytes).
Digits(n, width) == [i \in 1 .. width |-> (n \div Byte ^ (width - i)) % Byte]
Number(digits) == FoldLeft(LAMBDA n, d : n * Byte + d, 0, digits)

\* Variant: the two-byte length starts one later.
LengthField_late(n) ==
    IF n <= Inline THEN [mark |-> n, rest |-> <<>>]
    ELSE IF n < Byte ^ 2 THEN [mark |-> Inline, rest |-> Digits(n, 2)]
    ELSE [mark |-> Inline + 1, rest |-> Digits(n, Wide)]

\* The mark in the second byte, and the length bytes behind it.
LengthField(n) ==
    IF n < Inline THEN [mark |-> n, rest |-> <<>>]
    ELSE IF n < Byte ^ 2 THEN [mark |-> Inline, rest |-> Digits(n, 2)]
    ELSE [mark |-> Inline + 1, rest |-> Digits(n, Wide)]

\* The first two bytes are kept as the pairs they pack.
Header(f, masked) ==
    LET field == LengthField(Len(f.payload))
    IN  <<<<f.fin, f.opcode>>, <<masked, field.mark>>>> \o field.rest

\* The server's frames are not masked.
encode_frame(f) == Header(f, FALSE) \o f.payload

Masked(payload, mask) == [i \in DOMAIN payload |-> payload[i] ^^ mask[((i - 1) % 4) + 1]]

\* external: a client's frame, masked
client_frame(f, mask) == Header(f, TRUE) \o mask \o Masked(f.payload, mask)

More == [frame |-> <<>>, total |-> 0, error |-> FALSE]
Bad == [More EXCEPT !.error = TRUE]

Total(header, masked, len) == header + (IF masked THEN 4 ELSE 0) + len

decode_frame(b) ==
    LET mark == b[2][2]
        masked == b[2][1]
        header == 2 + (CASE mark < Inline -> 0 [] mark = Inline -> 2 [] mark > Inline -> Wide)
        len == IF header = 2 THEN mark ELSE Number(SubSeq(b, 3, header))
        total == Total(header, masked, len)
        body == SubSeq(b, total - len + 1, total)
    IN  IF Len(b) < 2 THEN More
        ELSE IF b[1][2] \notin Opcodes THEN Bad
        ELSE IF Len(b) < header THEN More
        ELSE IF len > MAX_FRAME_PAYLOAD THEN Bad
        ELSE IF Len(b) < total THEN More
        ELSE [More EXCEPT
                !.frame = [fin |-> b[1][1], opcode |-> b[1][2],
                           payload |-> IF masked
                                       THEN Masked(body, SubSeq(b, header + 1, header + 4))
                                       ELSE body],
                !.total = total]

----------------------------------------------------------------------------
Init ==
    /\ sent = <<>> /\ wire = <<>> /\ buf = <<>> /\ got = <<>> /\ failed = FALSE

\* A frame of either end.
Payload(n) == [i \in 1 .. n |-> i % Byte]
send(opcode, fin, n, mask) ==
    LET f == [fin |-> fin, opcode |-> opcode, payload |-> Payload(n)]
    IN  /\ Len(sent) < MaxFrames
        /\ sent' = Append(sent, f)
        /\ wire' = wire \o (IF mask = <<>> THEN encode_frame(f) ELSE client_frame(f, mask))
        /\ UNCHANGED <<buf, got, failed>>

deliver(n) ==
    /\ n \in 1 .. Len(wire)
    /\ buf' = buf \o SubSeq(wire, 1, n)
    /\ wire' = SubSeq(wire, n + 1, Len(wire))
    /\ UNCHANGED <<sent, got, failed>>

decode ==
    LET d == decode_frame(buf)
    IN  /\ ~failed /\ d # More
        /\ failed' = d.error
        /\ got' = IF d.error THEN got ELSE Append(got, d.frame)
        /\ buf' = SubSeq(buf, d.total + 1, Len(buf))
        /\ UNCHANGED <<sent, wire>>

Masks == {<<>>, <<1, 2, 3, 1>>}

Next ==
    \/ \E n \in Lengths, mask \in Masks : send("Text", TRUE, n, mask)
    \/ \E op \in Opcodes \cup {"Continuation"} : send(op, FALSE, 0, <<>>)
    \/ \E n \in 1 .. Len(wire) : deliver(n)
    \/ decode

Spec == Init /\ [][Next]_vars

----------------------------------------------------------------------------
Refused(f) == f.opcode \notin Opcodes \/ Len(f.payload) > MAX_FRAME_PAYLOAD

(***************************************************************************)
(* However the bytes are cut, the frames come out as they went in, in      *)
(* order, up to the first one that is too large or of an unknown kind,     *)
(* which is an error (frame.rs:119-210); and decode_frame asks for more    *)
(* only in the middle of a frame, so that nothing complete waits.          *)
(***************************************************************************)
FramesAreWhole ==
    /\ IsPrefix(got, sent)
    /\ \A i \in DOMAIN got : ~Refused(got[i])
    /\ failed => Len(got) < Len(sent) /\ Refused(sent[Len(got) + 1])
    /\ wire = <<>> /\ ~failed /\ decode_frame(buf) = More => got = sent
=============================================================================
