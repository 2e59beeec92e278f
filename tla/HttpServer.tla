----------------------------- MODULE HttpServer -----------------------------
(***************************************************************************)
(* The web server's thread on one connection (desmos-http: server.rs,      *)
(* request.rs, headers.rs, router.rs, middleware.rs, basic_auth.rs,        *)
(* websocket/handshake.rs) with the routes and the socket loops of         *)
(* desmos-webui (routes.rs, auth.rs, ws_loop.rs).  A request goes over the *)
(* connection as cells that the server reads in pieces of any size: the    *)
(* request line, the header fields, the empty line and the characters of   *)
(* the body, a wide one in two cells; the lengths a client declares may be *)
(* wrong.  The client sends its next request after the answer to the one   *)
(* before, for as long as it likes; it may be slow, stop reading its       *)
(* answers, or leave.                                                      *)
(***************************************************************************)
EXTENDS Integers, Sequences, FiniteSets, SequencesExt

CONSTANTS
    Requests,           \* what clients may send, see Request
    MAX_HEADER_BUF,     \* cells
    MAX_BODY_SIZE,
    SendRoom            \* answers the connection holds for a client that
                        \* does not read

\* fields: number of header fields; framing: "none", "length" or "chunked";
\* length: the value of Content-Length; peeked: the number after the first
\* "content-length:" anywhere in what is read, 0 without one; chunks: their
\* declared sizes, never more than their data, and the data; body: its
\* cells, "a" or "u" "v" for a wide character; form: "ok", "malformed" or
\* "long".
Request == [method : {"GET", "PUT", "POST", "DELETE"}, path : Seq(STRING),
            form : {"ok", "malformed", "long"}, fields : Nat,
            credentials : {"none", "bad", "good"},
            connection : {"keep-alive", "close", "other", "upgrade"},
            framing : {"none", "length", "chunked"}, length : Nat, peeked : Nat,
            chunks : Seq([size : Nat, data : Seq({"a", "u", "v"})]),
            body : Seq({"a", "u", "v"})]

VARIABLES
    client,             \* "talking", "done": it sends no more and reads what
                        \* comes, or "gone": it closed its end
    request,            \* the request it sent last, or NoRequest
    stream,             \* cells sent and not read
    unread,             \* answers and frames it has not read
    conn,               \* the thread: "head", "body", "writing", "ws", "free"
                        \* or "panicked"
    buf,                \* cells read for the current request
    need,               \* cells of the whole request, once known
    answer,             \* [status, next]: the answer to the request, 0 until
                        \* there is one, and where its write leads
    handled,            \* history: what the handler of the request was given
    dirty,              \* history: it came behind cells another left
    slow,               \* history: a read timed out
    tunnel              \* the state the socket loops look at

vars == <<client, request, stream, unread, conn, buf, need, answer, handled, dirty, slow, tunnel>>

NoRequest == [form |-> "none"]
Unanswered == [status |-> 0, next |-> "head"]

----------------------------------------------------------------------------
\* What the client puts on the wire.

Cell(is, of) == [is |-> is, of |-> of]

Text(cells) == [i \in DOMAIN cells |-> Cell("text", cells[i])]
LineBreak == <<Cell("text", "cr"), Cell("text", "lf")>>

Chunked(r) ==
    FlattenSeq([c \in DOMAIN r.chunks |->
                    <<Cell("size", r.chunks[c].size)>> \o Text(r.chunks[c].data) \o LineBreak])
    \o <<Cell("size", 0)>> \o LineBreak

Encoded(r) ==
    <<Cell("line", r)>> \o [i \in 1 .. r.fields |-> Cell("field", r)] \o <<Cell("end", r)>>
    \o IF r.framing = "chunked" THEN Chunked(r) ELSE Text(r.body)

----------------------------------------------------------------------------
\* Routing and credentials.

API(rest) == <<"api", "v1">> \o rest
Route(method, path, guarded, upgrade) ==
    [method |-> method, path |-> path, guarded |-> guarded, upgrade |-> upgrade]

\* build_router; a segment that starts with a colon is a parameter.
routes ==
    <<Route("GET", API(<<"health">>), FALSE, FALSE),
      Route("GET", API(<<"version">>), FALSE, FALSE),
      Route("GET", API(<<"status">>), TRUE, FALSE),
      Route("GET", API(<<"interfaces">>), TRUE, FALSE),
      Route("GET", API(<<"bonding">>), TRUE, FALSE),
      Route("GET", API(<<"stats">>), TRUE, FALSE),
      Route("GET", API(<<"clients">>), TRUE, FALSE),
      Route("GET", API(<<"config">>), TRUE, FALSE),
      Route("GET", API(<<"logs">>), TRUE, FALSE),
      Route("PUT", API(<<"interfaces", ":name">>), TRUE, FALSE),
      Route("PUT", API(<<"bonding", "strategy">>), TRUE, FALSE),
      Route("PUT", API(<<"config">>), TRUE, FALSE),
      Route("DELETE", API(<<"clients", ":session_id">>), TRUE, FALSE),
      Route("GET", API(<<"ws", "stats">>), TRUE, TRUE),
      Route("GET", API(<<"ws", "logs">>), TRUE, TRUE),
      Route("GET", <<>>, FALSE, FALSE),
      Route("GET", <<"assets", ":file">>, FALSE, FALSE)>>

Params == {":name", ":session_id", ":file"}

match_pattern(pattern, segments) ==
    /\ Len(pattern) = Len(segments)
    /\ \A i \in DOMAIN pattern : pattern[i] = segments[i] \/ pattern[i] \in Params

check_basic_auth(r) == r.credentials = "good"

PUBLIC_PATHS == {API(<<"health">>), API(<<"version">>)}

auth_gate(r) == r.path \in PUBLIC_PATHS \/ check_basic_auth(r)

\* The chain of a route: 0, or the answer of the middleware that stops it.
middleware(route, r) == IF route.guarded /\ ~auth_gate(r) THEN 401 ELSE 0

\* 101, or the handler's 400.
try_upgrade(r) == IF r.method = "GET" /\ r.connection = "upgrade" THEN 101 ELSE 400

\* The first route that matches path and method decides; the handlers other
\* than the socket ones stand at 200.
dispatch(r) ==
    LET onPath == SelectSeq(routes, LAMBDA t : match_pattern(t.path, r.path))
        hits == SelectSeq(onPath, LAMBDA t : t.method = r.method)
        route == Head(hits)
    IN  IF onPath = <<>> THEN 404
        ELSE IF hits = <<>> THEN 405
        ELSE IF middleware(route, r) # 0 THEN middleware(route, r)
        ELSE IF route.upgrade THEN try_upgrade(r) ELSE 200

Reached(status) == status \in {200, 101}

----------------------------------------------------------------------------
\* The parser.

Holds(cells, i, c) == i \in DOMAIN cells /\ cells[i].is = "text" /\ cells[i].of = c

\* from_utf8: both halves of every wide character, next to each other.
IsText(cells) ==
    \A i \in 0 .. Len(cells) : Holds(cells, i, "u") <=> Holds(cells, i + 1, "v")

\* An index of a str that is not at the edge of a character.
Inside(cells, n) == Holds(cells, n, "u")

\* Cells of the head, the empty line included; 0 when it has not come.
HeadLen(cells) ==
    LET ends == {i \in DOMAIN cells : cells[i].is = "end"}
    IN  IF ends = {} THEN 0 ELSE Min(ends)

\* The request whose head has been read, with whatever there is before it.
HeaderOf(cells) == cells[HeadLen(cells)].of

\* Variant: the last character is not waited for.
TotalNeeded_short(r, head) == head + (IF r.peeked > 0 THEN r.peeked - 1 ELSE 0)

\* Only a content-length makes the server read on, whatever it belongs to.
TotalNeeded(r, head) == head + r.peeked

Parsed(status, body) == [status |-> status, body |-> body]
PANIC == -1

RECURSIVE decode_chunked_body(_, _)
decode_chunked_body(remaining, body) ==
    IF remaining = <<>> \/ Head(remaining).is # "size" THEN Parsed(400, <<>>)
    ELSE LET chunk_size == Head(remaining).of
             rest == Tail(remaining)
         IN  IF chunk_size = 0 THEN Parsed(0, body)
             ELSE IF Len(body) + chunk_size > MAX_BODY_SIZE THEN Parsed(413, <<>>)
             ELSE IF Len(rest) < chunk_size + 2 THEN Parsed(400, <<>>)
             ELSE IF Inside(rest, chunk_size) \/ Inside(rest, chunk_size + 2)
                  THEN Parsed(PANIC, <<>>)
             ELSE decode_chunked_body(SubSeq(rest, chunk_size + 3, Len(rest)),
                                      body \o [i \in 1 .. chunk_size |-> rest[i].of])

\* parse_request on the cells read: the body, or the status of its error.
\* A head without fields has no line break before the empty line.
parse_request(cells) ==
    LET r == HeaderOf(cells)
        rest == SubSeq(cells, HeadLen(cells) + 1, Len(cells))
    IN  IF cells[1].is # "line" \/ r.form = "malformed" \/ r.fields = 0
             THEN Parsed(400, <<>>)
        ELSE IF r.form = "long" THEN Parsed(414, <<>>)
        ELSE IF r.framing = "chunked" THEN decode_chunked_body(rest, <<>>)
        ELSE IF r.framing = "none" THEN Parsed(0, <<>>)
        ELSE IF r.length > MAX_BODY_SIZE THEN Parsed(413, <<>>)
        ELSE IF Len(rest) < r.length THEN Parsed(400, <<>>)
        ELSE IF Inside(rest, r.length) THEN Parsed(PANIC, <<>>)
        ELSE Parsed(0, [i \in 1 .. r.length |-> rest[i].of])

----------------------------------------------------------------------------
Init ==
    /\ client = "talking" /\ request = NoRequest /\ stream = <<>> /\ unread = 0
    /\ conn = "head" /\ buf = <<>> /\ need = 0
    /\ answer = Unanswered /\ handled = {} /\ dirty = FALSE /\ slow = FALSE
    /\ tunnel = "up"

client_send(r) ==
    /\ client = "talking" /\ conn = "head" /\ (request = NoRequest \/ answer # Unanswered)
    /\ request' = r /\ stream' = stream \o Encoded(r)
    /\ answer' = Unanswered /\ handled' = {}
    /\ dirty' = (buf # <<>> \/ stream # <<>>)
    /\ UNCHANGED <<client, unread, conn, buf, need, slow, tunnel>>

client_read ==
    /\ client = "talking" /\ unread > 0
    /\ unread' = unread - 1
    /\ UNCHANGED <<client, request, stream, conn, buf, need, answer, handled, dirty, slow, tunnel>>

client_stops ==
    /\ \/ client = "talking" /\ client' \in {"done", "gone"}
       \/ client = "done" /\ client' = "gone"
    /\ UNCHANGED <<request, stream, unread, conn, buf, need, answer, handled, dirty, slow, tunnel>>

KeepAlive(r) == r.connection = "keep-alive"

\* write_all begins; buf and the rest are those of the next request.
Write(status, next) ==
    /\ answer' = [status |-> status, next |-> next]
    /\ conn' = "writing" /\ buf' = <<>> /\ need' = 0

\* error_to_response and the end of the connection.
Refuse(status) == Write(status, "free") /\ UNCHANGED handled

\* The whole request is there: parse, dispatch, write, and go on or not.
\* What was read beyond the request is dropped.
Respond(cells) ==
    LET r == HeaderOf(cells)
        parsed == parse_request(cells)
        status == dispatch(r)
    IN  IF ~IsText(cells) THEN Refuse(400)
        ELSE IF parsed.status = PANIC
             THEN conn' = "panicked" /\ UNCHANGED <<buf, need, answer, handled>>
        ELSE IF parsed.status # 0 THEN Refuse(parsed.status)
        ELSE /\ Write(status, IF status = 101 THEN "ws"
                              ELSE IF KeepAlive(r) THEN "head" ELSE "free")
             /\ handled' = IF Reached(status) THEN {parsed.body} ELSE {}

\* The answer goes out when the connection has room for it, or its client
\* reads.
write_done ==
    /\ conn = "writing" /\ (unread < SendRoom \/ client # "talking")
    /\ unread' = IF client = "talking" THEN unread + 1 ELSE unread
    /\ conn' = answer.next
    /\ UNCHANGED <<client, request, stream, buf, need, answer, handled, dirty, slow, tunnel>>

write_fails ==
    /\ conn = "writing" /\ client = "gone"
    /\ conn' = "free"
    /\ UNCHANGED <<client, request, stream, unread, buf, need, answer, handled, dirty, slow, tunnel>>

\* A read in the head: up to the end of the buffer.
read_head(n) ==
    /\ conn = "head" /\ n \in 1 .. Len(stream)
    /\ LET cells == buf \o SubSeq(stream, 1, n)
           head == HeadLen(cells)
           r == HeaderOf(cells)
       IN  /\ Len(cells) <= MAX_HEADER_BUF
           /\ stream' = SubSeq(stream, n + 1, Len(stream))
           /\ IF head = 0
              THEN /\ buf' = cells
                   /\ UNCHANGED <<conn, need, answer, handled>>
              ELSE IF ~IsText(cells) THEN Refuse(400)
              ELSE IF r.peeked > MAX_BODY_SIZE THEN Refuse(413)
              ELSE IF Len(cells) >= TotalNeeded(r, head) THEN Respond(cells)
              ELSE /\ buf' = cells /\ conn' = "body" /\ need' = TotalNeeded(r, head)
                   /\ UNCHANGED <<answer, handled>>
    /\ UNCHANGED <<client, request, unread, dirty, slow, tunnel>>

head_too_long ==
    /\ conn = "head" /\ Len(buf) >= MAX_HEADER_BUF
    /\ Refuse(400)
    /\ UNCHANGED <<client, request, stream, unread, dirty, slow, tunnel>>

\* A read in the body: never beyond the request.
read_body(n) ==
    /\ conn = "body" /\ n \in 1 .. Len(stream) /\ Len(buf) + n <= need
    /\ LET cells == buf \o SubSeq(stream, 1, n)
       IN  /\ stream' = SubSeq(stream, n + 1, Len(stream))
           /\ IF Len(cells) = need THEN Respond(cells)
              ELSE buf' = cells /\ UNCHANGED <<conn, need, answer, handled>>
    /\ UNCHANGED <<client, request, unread, dirty, slow, tunnel>>

\* Variant: a read waits for as long as it takes.
GivesUp_never == FALSE

GivesUp == TRUE

\* The read timeout.  In the head it closes; in the body it does on systems
\* that report it as TimedOut, and answers 500 on those that report
\* WouldBlock.
read_timeout ==
    /\ conn \in {"head", "body"} /\ GivesUp
    /\ slow' = TRUE
    /\ \/ /\ conn' = "free" /\ buf' = <<>> /\ need' = 0
          /\ UNCHANGED <<answer, handled>>
       \/ conn = "body" /\ Refuse(500)
    /\ UNCHANGED <<client, request, stream, unread, dirty, tunnel>>

\* The other end is closed and everything is read.
read_eof ==
    /\ conn \in {"head", "body"} /\ client = "gone" /\ stream = <<>>
    /\ conn' = "free" /\ buf' = <<>> /\ need' = 0
    /\ UNCHANGED <<client, request, stream, unread, answer, handled, dirty, slow, tunnel>>

----------------------------------------------------------------------------
\* The socket loops: frames go out until the tunnel is down, the client has
\* closed or does not read for the write timeout of the loops; what the
\* client sends is read and ignored.

is_shutdown == tunnel = "down"

send_frame ==
    /\ conn = "ws" /\ client = "talking" /\ unread < SendRoom
    /\ unread' = unread + 1
    /\ UNCHANGED <<client, request, stream, conn, buf, need, answer, handled, dirty, slow, tunnel>>

ws_end ==
    /\ conn = "ws"
    /\ is_shutdown \/ client = "gone" \/ (client = "talking" /\ unread = SendRoom)
    /\ conn' = "free"
    /\ UNCHANGED <<client, request, stream, unread, buf, need, answer, handled, dirty, slow, tunnel>>

tunnel_down ==
    /\ tunnel = "up"
    /\ tunnel' = "down"
    /\ UNCHANGED <<client, request, stream, unread, conn, buf, need, answer, handled, dirty, slow>>

ServerStep ==
    \/ \E n \in 1 .. Len(stream) : read_head(n) \/ read_body(n)
    \/ head_too_long \/ read_timeout \/ read_eof
    \/ write_done \/ write_fails \/ ws_end

Next ==
    \/ \E r \in Requests : client_send(r)
    \/ client_read \/ client_stops \/ tunnel_down \/ send_frame \/ ServerStep

Fairness == WF_vars(ServerStep)

Spec == Init /\ [][Next]_vars /\ Fairness

----------------------------------------------------------------------------
\* The declared lengths are those of the body, and no other field looks like
\* the one that declares it.
Honest(r) ==
    /\ r.framing = "length" => r.length = Len(r.body)
    /\ r.peeked = IF r.framing = "length" THEN r.length ELSE 0
    /\ \A c \in ToSet(r.chunks) : c.size = Len(c.data)

\* What a request is due, however its cells arrive.
Due(r) ==
    LET large == Len(r.body) > MAX_BODY_SIZE
    IN  IF r.fields + 2 > MAX_HEADER_BUF THEN 400
        ELSE IF r.framing = "length" /\ large THEN 413
        ELSE IF r.form = "malformed" \/ r.fields = 0 THEN 400
        ELSE IF r.form = "long" THEN 414
        ELSE IF r.framing = "chunked" /\ large THEN 413
        ELSE dispatch(r)

(***************************************************************************)
(* The answer to a request with true lengths does not depend on how its    *)
(* bytes are cut into reads, with three exceptions, answered 400: a body   *)
(* with a wide character, which a read may cut; a chunked body, which the  *)
(* server does not wait for; and a request behind bytes that the one       *)
(* before left unread, such as the line break after the last chunk         *)
(* (server.rs:181-212; request.rs:145-175).                                *)
(***************************************************************************)
CutDoesNotMatter ==
    answer # Unanswered /\ Honest(request) =>
        \/ answer.status = Due(request)
        \/ slow /\ answer.status = 500
        \/ /\ answer.status = 400
           /\ dirty \/ request.framing = "chunked" \/ "u" \in ToSet(request.body)

(***************************************************************************)
(* However the bytes arrive, a request gets the answer it is due, with the *)
(* exceptions CutDoesNotMatter names and 500 for a body that stalls.  A    *)
(* handler that runs sees the body the client sent, to the last character, *)
(* or as much of it as its length declares (server.rs:185-209,             *)
(* request.rs:78-92, 145-175), and only with good credentials where it     *)
(* stands behind them, which never get 401 (routes.rs:20-134,              *)
(* router.rs:136-164, auth.rs:26-34).  The thread panics only at a length  *)
(* that is not the body's: a slice may then end inside a character         *)
(* (request.rs:89, 170-171).                                               *)
(***************************************************************************)
AnswersAreRight ==
    /\ CutDoesNotMatter
    /\ \A body \in handled :
         /\ Honest(request) /\ request.framing # "none" => body = request.body
         /\ request.framing = "length" => body = SubSeq(request.body, 1, request.length)
         /\ \/ request.credentials = "good"
            \/ request.path \in {API(<<"health">>), API(<<"version">>), <<>>}
            \/ Head(request.path) = "assets"
    /\ answer.status = 401 => request.credentials # "good"
    /\ conn = "panicked" => ~Honest(request)

(***************************************************************************)
(* The one thread comes back from a client that sends no more and reads    *)
(* its answers, or leaves, at whatever point of a request it stops         *)
(* (server.rs:122-142, 151-177), or has panicked; and from a socket loop   *)
(* when the tunnel goes down, whatever its client does (ws_loop.rs:24-28,  *)
(* 31-41, 76-85).  Only reads have a timeout: a client that keeps sending  *)
(* requests, or does not read its answers, keeps the thread (server.rs:123,*)
(* 136, 224).                                                              *)
(***************************************************************************)
ConnectionEnds ==
    /\ client # "talking" ~> conn \in {"free", "ws", "panicked"}
    /\ tunnel = "down" ~> conn # "ws"
=============================================================================
