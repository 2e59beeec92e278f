------------------------------- MODULE MCHost -------------------------------
(***************************************************************************)
(* The daemon and its host, for TLC: resolver configuration, NAT rules,    *)
(* link events, interface listing, device set-up, privilege drop, the      *)
(* service manager, STUN and DNS queries, its configuration file, the      *)
(* credentials of its clients, the one-time codes of its logins and a      *)
(* connection of its web server.  The parts do not interact; a behaviour   *)
(* is one of a single part, the others rest.                               *)
(***************************************************************************)
EXTENDS ResolverHook, NatRules, Interfaces, ConfigReload, Authenticator, TLC

VARIABLES
    part,
    kind, at, have, result, child, late, packet,                   \* DeviceSetup
    system, phase, uid, gid, sandbox, outcome, asRoot, broken,     \* PrivDrop
    refused,
    attempt, waiting, socket, taken, reflection,                \* StunQuery
    asked, reply, truth, datagram, answer,                         \* DnsQuery
    reading, line, stack, values, doc, lines,                      \* ConfigParser
    main, handler, bridge, handle, stop_requested,                 \* WinService
    shutdown, reported, stop, broke,
    client, request, stream, unread, conn, buf, need,              \* HttpServer
    given, handled, dirty, slow, tunnel

Device == INSTANCE DeviceSetup WITH MaxLen <- 6

Priv == INSTANCE PrivDrop WITH
    Blocked <- <<2, 4, 5>>, Calls <- 1 .. 6, os <- system

Address(type, family, alen, addr) ==
    [type |-> type, alen |-> alen, reserved |-> 0, family |-> family, addr |-> addr]
Other(alen) == [type |-> "other", alen |-> alen]
XorOne == Address("xor", "v4", 8, 1)
PlainTwo == Address("plain", "v4", 8, 2)

\* Sound ones, then a short one, a wrong family and a reserved byte, each
\* beside a good address.
StunBodies ==
    {<<>>, <<XorOne>>, <<PlainTwo>>, <<Other(5), PlainTwo, XorOne>>, <<XorOne, Other(3)>>,
     <<XorOne, Address("xor", "v6", 20, 3)>>, <<Address("plain", "v6", 20, 4), Other(2)>>,
     <<XorOne, Address("plain", "v4", 20, 2)>>, <<Address("xor", "none", 8, 9), PlainTwo>>,
     <<PlainTwo, [Address("plain", "v6", 20, 4) EXCEPT !.reserved = 1]>>}

StunStray(kind_, attrs, part_) ==
    [kind |-> kind_, tx |-> "other", attrs |-> attrs, short |-> 0, cut |-> part_]

Stun == INSTANCE StunQuery WITH
    attempts <- 3, MaxQueue <- 2, result <- reflection, Bodies <- StunBodies,
    Strays <- {StunStray("success", <<Address("xor", "v4", 8, 9)>>, "no"),
               StunStray("garbage", <<>>, "no"), StunStray("success", <<>>, "header")}

Record(name, type, ttl, data) == [name |-> name, type |-> type, ttl |-> ttl, data |-> data]

\* Two addresses, an alias whose data could be read as a name, a short one.
Dns == INSTANCE DnsQuery WITH
    Names <- {<<1, 5, 0>>, <<2, 1, 0, 1, 7, 0>>}, MaxRecords <- 2, Pointer <- 9,
    AddressLen <- 2, packet <- datagram, result <- answer,
    Records <- {Record(<<9, 0>>, 1, 7, <<3, 4>>), Record(<<1, 5, 0>>, 1, 8, <<0, 9>>),
                Record(<<9, 1>>, 5, 2, <<1, 9, 0>>), Record(<<0>>, 1, 2, <<1>>)}

Toml == INSTANCE ConfigParser WITH
    KeyOrder <- <<"a", "b">>, MaxLines <- 3, MaxPath <- 2, MaxDepth <- 2, MaxItems <- 1,
    pc <- reading

(* Documents: that of a mode, with a section added or removed and a field  *)
(* changed.                                                                *)

Base(mode) ==
    [s \in {"general", mode} |->
        [f \in Fields[s] |->
            IF f = "mode" THEN mode
            ELSE IF f = "auth_method" THEN "psk"
            ELSE IF f \in Credentials \/ <<s, f>> \in Required THEN "x" ELSE "absent"]]

\* The section as an operator would first write it.
Fresh(s) == IF s = "general" THEN Base("client").general
            ELSE IF s = "webui" THEN [f \in Fields[s] |-> IF f = "password_hash" THEN "x" ELSE "absent"]
            ELSE Base(s)[s]

Without(file, s) == [t \in DOMAIN file \ {s} |-> file[t]]
With(file, s) == [t \in DOMAIN file \cup {s} |-> IF t = s THEN Fresh(s) ELSE file[t]]

SectionEdits(file) ==
    {file} \cup {Without(file, s) : s \in DOMAIN file} \cup {With(file, s) : s \in Sections \ DOMAIN file}

FieldEdits(file) ==
    UNION {{[file EXCEPT ![a[1]][a[2]] = v] : v \in Values(a[2]) \cup {"absent", "bad"}} :
              a \in {a \in AllFields : a[1] \in DOMAIN file}}

EditedDocuments ==
    UNION {UNION {FieldEdits(file) : file \in SectionEdits(Base(mode))} :
              mode \in {"client", "server", "p2p"}}

Certificate(key, from, to, serial) ==
    [key |-> key, issuer |-> "ca", alg |-> "ed25519", from |-> from, to |-> to, serial |-> serial]

\* One client entitled by every method, and one by its certificate only;
\* each may also show the certificate of the other.
AuthClients ==
    {[static |-> "s1", psk |-> "right", cert |-> Certificate("k1", 1, 3, "1")],
     [static |-> "s2", psk |-> "wrong", cert |-> Certificate("k2", 0, 2, "2")]}

Authority == [key |-> "ca", from |-> 0, to |-> 2]
RevocationLists == {<<>>, <<"3", "2">>, <<"broken", "2">>}

\* Steps 0 and 2 have the same code.
CodeTable == 0 :> "a" @@ 1 :> "b" @@ 2 :> "a" @@ 3 :> "c"

Service == INSTANCE WinService WITH asked <- stop

(* Requests: every status, every framing, and wrong lengths: one that      *)
(* counts characters, one that is too large, a field that looks like one,  *)
(* and chunk sizes that count characters.                                  *)
Path(rest) == <<"api", "v1">> \o rest
Plain(verb, path) ==
    [method |-> verb, path |-> path, form |-> "ok", fields |-> 1, credentials |-> "good",
     connection |-> "keep-alive", framing |-> "none", length |-> 0, peeked |-> 0,
     chunks |-> <<>>, body |-> <<>>]
Get == Plain("GET", Path(<<"config">>))
Put(length, body) ==
    [Plain("PUT", Path(<<"config">>)) EXCEPT
        !.framing = "length", !.length = length, !.peeked = length, !.body = body]
PutInChunks(chunks, body) ==
    [Plain("PUT", Path(<<"config">>)) EXCEPT
        !.framing = "chunked", !.chunks = chunks, !.body = body]
Chunk(size, data) == [size |-> size, data |-> data]

WebRequests ==
    {[Plain("GET", Path(<<"health">>)) EXCEPT !.credentials = "none"],
     [Plain("GET", Path(<<"status">>)) EXCEPT !.credentials = "bad"],
     [Plain("DELETE", Path(<<"clients", "x">>)) EXCEPT !.connection = "other"],
     Plain("POST", Path(<<"status">>)),
     [Plain("GET", <<"x">>) EXCEPT !.connection = "close"],
     [Plain("GET", Path(<<"ws", "stats">>)) EXCEPT !.connection = "upgrade"],
     [Get EXCEPT !.fields = 0], [Get EXCEPT !.fields = 10], [Get EXCEPT !.peeked = 1],
     [Put(2, <<"a", "a">>) EXCEPT !.form = "malformed"], [Get EXCEPT !.form = "long"],
     Put(2, <<"a", "a">>), Put(3, <<"a", "u", "v">>), Put(2, <<"a", "u">>),
     Put(4, <<"a", "a", "a", "a">>), Put(2, <<"a", "u", "v">>), Put(3, <<"a", "a">>),
     Put(1, <<"a", "a">>),
     PutInChunks(<<Chunk(1, <<"a">>), Chunk(1, <<"a">>)>>, <<"a", "a">>),
     PutInChunks(<<Chunk(1, <<"u">>), Chunk(1, <<"v">>)>>, <<"u", "v">>),
     PutInChunks(<<Chunk(2, <<"u", "v">>)>>, <<"u", "v">>),
     PutInChunks(<<Chunk(1, <<"u", "v">>)>>, <<"u", "v">>),
     PutInChunks(<<Chunk(4, <<"a", "a", "a", "a">>)>>, <<"a", "a", "a", "a">>)}

Web == INSTANCE HttpServer WITH
    MAX_HEADER_BUF <- 11, MAX_BODY_SIZE <- 3, SendRoom <- 1, Requests <- WebRequests,
    answer <- given

device == <<kind, at, have, result, child, late, packet>>
priv == <<system, phase, uid, gid, sandbox, outcome, asRoot, broken, refused>>
stun == <<attempt, waiting, socket, taken, reflection>>
dns == <<asked, reply, truth, datagram, answer>>
toml == <<reading, line, stack, values, doc, lines>>
service == <<main, handler, bridge, handle, stop_requested, shutdown, reported, stop, broke>>
web == <<client, request, stream, unread, conn, buf, need, given, handled, dirty, slow, tunnel>>
files == <<toml, reload_vars, method_vars>>

\* The parts that rest have one initial state.
HostInit ==
    /\ part \in {"resolver", "nat", "watcher", "iface", "device", "priv", "totp",
               "stun", "dns", "toml", "reload", "auth", "service", "web"}
    /\ HookInit /\ (part # "resolver" => platform = "scutil")
    /\ NatInit
    /\ WatchInit /\ (part # "watcher" => watched = [l \in Watched |-> "up"])
    /\ ListInit /\ (part # "iface" => os = "unix" /\ Present = {})
    /\ Device!Init /\ (part # "device" => kind = "udp")
    /\ Priv!Init /\ (part # "priv" => system = "macos" /\ asRoot)
    /\ TotpInit
    /\ Stun!Init
    /\ IF part = "dns" THEN Dns!Init
       ELSE asked = 0 /\ reply = 0 /\ truth = 0 /\ datagram = 0 /\ answer = 0
    /\ Toml!Init /\ ReloadInit
    /\ MethodInit /\ (part # "auth" => method = "psk" /\ crl = <<>>)
    /\ Service!Init
    /\ Web!Init

ResolverStep == part = "resolver" /\ HookNext
    /\ UNCHANGED <<part, nat_vars, watch_vars, list_vars, device, priv, totp_vars, stun, dns, files, service, web>>
NatStep == part = "nat" /\ NatNext
    /\ UNCHANGED <<part, hook_vars, watch_vars, list_vars, device, priv, totp_vars, stun, dns, files, service, web>>
WatcherStep == part = "watcher" /\ WatchNext
    /\ UNCHANGED <<part, hook_vars, nat_vars, list_vars, device, priv, totp_vars, stun, dns, files, service, web>>
IfaceStep == part = "iface" /\ ListNext
    /\ UNCHANGED <<part, hook_vars, nat_vars, watch_vars, device, priv, totp_vars, stun, dns, files, service, web>>
DeviceStep == part = "device" /\ Device!Next
    /\ UNCHANGED <<part, hook_vars, nat_vars, watch_vars, list_vars, priv, totp_vars, stun, dns, files, service, web>>
PrivStep == part = "priv" /\ Priv!Next
    /\ UNCHANGED <<part, hook_vars, nat_vars, watch_vars, list_vars, device, totp_vars, stun, dns, files, service, web>>
OtpStep == part = "totp" /\ TotpNext
    /\ UNCHANGED <<part, hook_vars, nat_vars, watch_vars, list_vars, device, priv, stun, dns, files, service, web>>
StunStep == part = "stun" /\ Stun!Next
    /\ UNCHANGED <<part, hook_vars, nat_vars, watch_vars, list_vars, device, priv, totp_vars, dns, files, service, web>>
DnsStep == part = "dns" /\ Dns!Next
    /\ UNCHANGED <<part, hook_vars, nat_vars, watch_vars, list_vars, device, priv, totp_vars, stun, files, service, web>>

HostRest == UNCHANGED <<part, hook_vars, nat_vars, watch_vars, list_vars, device, priv, totp_vars, stun, dns>>
ServerRest == UNCHANGED <<service, web>>
TomlStep == part = "toml" /\ Toml!Next /\ HostRest /\ ServerRest /\ UNCHANGED <<reload_vars, method_vars>>
ReloadStep == part = "reload" /\ ReloadNext /\ HostRest /\ ServerRest /\ UNCHANGED <<toml, method_vars>>
AuthStep == part = "auth" /\ MethodNext /\ HostRest /\ ServerRest /\ UNCHANGED <<toml, reload_vars>>
ServiceRest == part = "service" /\ HostRest /\ UNCHANGED <<files, web>>
WebRest == part = "web" /\ HostRest /\ UNCHANGED <<files, service>>

HostNext ==
    \/ ResolverStep \/ NatStep \/ WatcherStep \/ IfaceStep
    \/ DeviceStep \/ PrivStep \/ OtpStep \/ StunStep \/ DnsStep
    \/ TomlStep \/ ReloadStep \/ AuthStep
    \/ (ServiceRest /\ Service!Next) \/ (WebRest /\ Web!Next)

host_vars == <<part, hook_vars, nat_vars, watch_vars, list_vars, device, priv, totp_vars, stun, dns, files, service, web>>

\* The threads of the service and the web server go on; the daemon ends
\* after its flag is set.  The part of a behaviour being fixed, this is the
\* fairness of that part.
Fair ==
    \/ WebRest /\ Web!ServerStep
    \/ /\ ServiceRest
       /\ \/ Service!MainStep \/ Service!service_control_handler \/ Service!bridge_passes
          \/ shutdown /\ Service!daemon_ends

HostSpec == HostInit /\ [][HostNext]_host_vars /\ WF_host_vars(Fair)

----------------------------------------------------------------------------
\* DeviceSetup: the devices of all platforms keep one contract.
DevicesKeepContract == Device!DevicesKeepContract

\* PrivDrop: a daemon started as root ends up unprivileged, and can.
RootEndsUnprivileged == Priv!RootEndsUnprivileged

\* StunQuery and DnsQuery: a result is what the server said to this query.
AnswerIsTheServers ==
    Stun!AnswerIsTheServers /\ (part = "dns" => Dns!AddressesAreTheServers)

\* ConfigParser: nothing of an accepted document is lost.
DocumentIsKept == part = "toml" => Toml!DocumentIsKept

\* WinService: a delivered stop ends the service and is reported.
StopIsCarriedOut == Service!StopIsCarriedOut

\* HttpServer: every request gets the answer it is due.
AnswersAreRight == part = "web" => Web!AnswersAreRight

\* HttpServer: the thread comes back from a client that stops.
ConnectionEnds == part = "web" => Web!ConnectionEnds
=============================================================================
