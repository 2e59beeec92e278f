# A TLA+ model of desmos

desmos bonds several network interfaces into one encrypted tunnel. This
directory holds TLA+ modules translated from its Rust source, the TLC
configurations that check them on small instances, and proofs that TLAPS checks
for every value of the constants. Paths below are relative to
`src/crates/desmos-core/src/` unless they name another crate.

## The system

### Parts, their state and their operations

The tunnel:

| Part | State | Operations | Module |
|---|---|---|---|
| Anti-replay window, `desmos-proto/src/antireplay.rs` | `highest`, 128-bit `bitmap` | `would_accept`, `check_and_update` | `AntiReplayWindow`, `AntiReplay` |
| Reorder buffer, `bonding/reorder.rs` | `next_expected`, `pending`, counters | `push`, `poll_timeout` | `ReorderBuffer` |
| Fragmentation, `desmos-proto/src/fragment.rs` | groups in flight, eviction queue | `fragment`, `push`, `clear` | `Fragmentation` |
| Noise IK, `desmos-proto/src/handshake` | symmetric state, ephemerals | messages 1 and 2, split | `NoiseIK` |
| Scalar multiplication, `desmos-proto/src/crypto/x25519_field.rs` | limbs | ladder, inversion, packing | `X25519Field` |
| Session, `session/mod.rs` | typestate, keys, send counter, window | `advance`, `encrypt_packet`, `decrypt_data`, `begin_rekey`, `advance_rekey`, `close` | `Session` |
| Engine and strategies, `bonding/mod.rs`, `link.rs`, `strategy.rs` | strategy and link table behind two locks | `schedule`, `swap_strategy`, `swap_links`, `update_link` | `Tunnel`, `LinkFailover` |
| Pipeline, `pipeline/` | — | `forward_tun_to_udp_bonded`, `forward_udp_to_tun_encrypted` | `Tunnel` |
| Link health and failover, `bonding/link_state.rs`, `failover.rs` | state, streaks, one machine per link | `on_probe`, `tick`, `register`, `deregister`, `apply_to_engine` | `LinkState`, `Probing`, `LinkFailover` |
| Probes and scores, `bonding/probe.rs`, `score.rs` | probes in flight, outcome window | `poll`, `on_ack`, `record` | `Probing` |
| Path MTU, `net/pmtud.rs` | state, probed size, attempts | `on_success`, `on_timeout`, `reset` | `Pmtud` |
| Server, `daemon/server_loop.rs`, `server/clients.rs`, `server/ratelimit.rs`, `session/manager.rs` | address map, session table, id cursor, buckets | `handle_incoming`, `accept_client_msg1`, `remove_client`, `try_admit` | `Server` |
| Hole punching and relay, `p2p/` | locals of one attempt, socket queue | `try_direct_then_relay`, `hole_punch`, `relay_connect_any`, `relay_connect` | `PeerToPeer` |

The runtime and the host:

| Part | State | Operations | Module |
|---|---|---|---|
| Ring, `desmos-rt/src/ring.rs` | slots, two wrapping counters | `try_push`, `try_pop`, drops | `SpscRing`, `BoundedQueue` |
| Timer wheel, `desmos-rt/src/timer.rs` | entries by level and slot, clock | `schedule`, `poll` | `TimerWheel` |
| Reactors, `desmos-rt/src/{linux,bsd,windows}/reactor.rs` | registrations | `register`, `reregister`, `deregister`, `poll` | `EpollReactor`, `KqueueReactor`, `IocpReactor` |
| Broadcast ring, `broadcast.rs` | slots, write position, cursors | `send`, `recv`, `poll` | `Broadcast` |
| Devices and sockets, `desmos-rt/src/**/tun.rs`, `socket.rs`, `bind_device.rs` | what has been opened and set | constructors, `recv`, `send` | `DeviceSetup` |
| Privilege drop, `desmos-rt/src/priv_drop` | identity, sandbox | start-up order, `drop_privileges`, seccomp program | `PrivDrop` |
| DNS override, `net/resolver_hook.rs` | configuration, backup, guard | `apply`, `restore` | `ResolverHook` |
| NAT rules, `server/nat.rs` | iptables rules, `installed` | `install`, `remove`, rollback | `NatRules` |
| Interfaces, `net/watcher.rs`, `net/iface.rs` | netlink queue; listing | `drain_once`, `parse_events`; `list` | `Interfaces` |
| STUN and DNS queries, `net/stun.rs`, `net/dns.rs` | attempt; cursor in the packet | `query_binding`; `resolve`, `parse_response` | `StunQuery`, `DnsQuery` |

Administration:

| Part | State | Operations | Module |
|---|---|---|---|
| Daemon and control socket, `daemon/`, `desmos-cli` | shutdown flag, configuration lock, registry, socket file | start, loop, shutdown, IPC commands, CLI invocations | `Daemon` |
| Windows service, `packaging/windows/service` | two flags, reported state | `service_main`, control handler, bridge | `WinService` |
| Web server, `desmos-http`, `desmos-webui` | buffer, connection | reads, parsing, routing, authentication, socket loops | `HttpServer` |
| WebSocket frames, `desmos-http/src/websocket/frame.rs` | buffer | `encode_frame`, `decode_frame` | `WsFrame` |
| Configuration, `config/` | token, table stack, tree; running configuration | parser, `to_toml`; validation, `diff`, `PUT` | `ConfigParser`, `ConfigReload` |
| Authentication, `auth/` | credentials, CRL, clock; last accepted step | `authenticate` of each method | `Authenticator` |

`PROJECT.json` lists every part, also those without a module, and maps each
definition to the lines it stands for.

### How the parts interact

The client's reactor thread reads a packet from the TUN, seals it once under the
session's send counter, asks the engine for one link or all of them, and sends
the frame on each. Other threads (the web UI, the failover controller) replace
the engine's strategy and table meanwhile. The receiver looks the session up,
runs the sequence number through the anti-replay window, opens the packet and
writes it to its TUN. The server does this for many clients from one thread,
while operators remove sessions from the table they share with it. Two peers
without a server probe each other from one socket each and, if no probe gets
through, register with the relays of their configuration in turn. Around the
loop stand a control socket and a web server with one thread each, which share
the shutdown flag, the configuration's lock and the client registry with it.

### What is hard about it

- Two writers rebuild the link table from a clone and store it under a second
  lock (`failover.rs:123-148`, `bonding/mod.rs:115-139`).
- `Engine::schedule` takes the strategy and the table under two locks, and the
  fan-out goes on after both are released (`bonding/mod.rs:80-82`).
- The window moves before the packet is authenticated (`session/mod.rs:354`).
- Sessions restart with counter zero and an empty window on every handshake; a
  duplicated message 1 makes a second session.
- The registry checks the cap, reserves an id and inserts in separate steps;
  ids come around while the address map keeps old ones.
- Answers arrive late: echoes of expired probes, acknowledgements of an MTU probe
  from before a reset, pongs and relay frames of an attempt that was given up,
  STUN replies to an earlier try, completions of a narrowed IOCP interest.
- The ring's counters wrap, and each thread decides from an old copy of the
  other's counter.
- The daemon can die between any two commands that change its host, and each
  command can fail alone.
- The runner holds the configuration's read lock as long as the tunnel lives
  (`daemon/runner.rs:79`), and one thread each serves the socket and the web UI.

`PROJECT.json` lists these as hazards, each at its line.

### What the daemon runs

Several parts are complete libraries that no loop of the repository starts yet:
the failover controller, the probe scheduler, the reorder buffer, path MTU
discovery, rekeying, `update_score`, the control socket and the web server. They
are modelled as their documentation or their tests use them, and each module says
so. Two things keep the client and the server of this repository from talking to
each other at all. The client sends message 1 without the wire header
(`daemon/handshake.rs:48`) that the server decodes (`server_loop.rs:175`). It also
binds its packets to session id 1, whatever id the server allocated. `Session` and
`Server` therefore model peers that agree on both.

## Modules

### The tunnel

**`AntiReplayWindow`** is the window as a value: `[initialised, highest,
bitmap]`, the bitmap as the set of its one-bits. `Check` gives the verdict of
`check_and_update`, `Update` its effect. `AntiReplay` drives one window with any
sequence of numbers and holds the proofs about it; `Session` and `Tunnel` embed
it.

**`ReorderBuffer`**: each exit of `push` is an action (`push_first`,
`push_duplicate`, `push_force_skip`, `push_in_order`, `push_buffer`), all of them
with the trailing `drain_contiguous` where the code has one. A pending packet is
mapped to its age, because the code only compares ages. `stream` is the history
of everything returned.

**`Fragmentation`** cuts payloads whose bytes carry their packet, sends the
fragments through a network that loses, repeats and reorders, and reassembles
them in a table of bounded size; wire ids wrap.

**`NoiseIK`** runs several initiators against several responder runs of one
server. Hashes, keys and ciphertexts are terms, equal exactly when they were
computed alike; messages may be crossed, repeated or damaged. **`X25519Field`**
is the ladder on lists of signed limbs, for a prime of the same shape as
2^255 - 19 but small enough to compare every intermediate point with the affine
addition law.

**`Session`** has both ends of a session. A transport key is the pair of
ephemerals it came from, so two handshakes share a key only if they share both.
Everything sent stays in a set, from which the network delivers it any number of
times or never; `damage` adds a copy that does not open. Cryptography is ideal:
a packet opens under exactly the key, direction and number it was sealed with.

**`Tunnel`** has the four `schedule` functions as operators on a sequence of
links, the pseudo-random draw being a free choice, and composes them with the
window into the data path: `seal` or `seal_refused` (a packet turned away after it
took its number), `schedule_links`, then `send_to`, `send_to_fails` or `skip_link`
per link, `swap_strategy` and `swap_links` by other threads, `receive` at the far
end. Round robin's cursor is a word that wraps; `wraps` counts the wraps at which
the rotation jumps.

**`LinkState`** has the health machine's operations on a record; a probation is
the time that is left of it. **`LinkFailover`** is the controller with one machine
per link, the engine's table, and the web UI's `update_link`. Every lock
acquisition is a step: `apply_snapshot`/`apply_swap` and
`update_link_snapshot`/`update_link_swap`. **`Probing`** is `ProbeScheduler` and
`LinkStats`, the smoothed round trip kept as an exact fraction, and, as a part of
its own, one health machine under probes, ticks and time (`HealthNext`).
**`Pmtud`** is the search with several probes on the way, answers that come after
the timeout, and resets.

**`Server`** composes the token bucket (`Refill`, `Admits`, `Pay`), the reactor
thread, the registry and the table: `handshake_frame` (rate limiter and cap),
`allocate_id` (one turn of its loop), `advance_establishes` or `advance_fails`,
`data_frame`, and `remove_client` by operators. `set_clock` sets the wall clock
to anything.

**`PeerToPeer`** runs `try_direct_then_relay` on two peers. A peer is its place in
the code and its local variables; instants are counted down to. The punch is
`send_burst`, then `punch_recv` per datagram or `recv_timeout`, or `punch_io_error`;
`fall_back` leads to `relay_connect`, one turn of the loop over the relays, and
`relay_recv`, `relay_timeout` or `relay_io_error` end the turn. What a relay does
with a registration (`AtRelay`) is external and follows the flow at
`relay.rs:34-41`.

### The runtime and the host

**`SpscRing`** takes one step per access to shared memory. An `Acquire` load may
return any value between the last one seen and the current one. `BoundedQueue` is
what the ring promises; `ImplementsQueue` maps the ring's contents to it.
**`TimerWheel`** does `schedule` and `poll` with the cascades of a wheel of four
levels. **`EpollReactor`** is the trait's contract as the Linux back end gives it;
**`KqueueReactor`** keeps one kernel entry per filter; a list of changes may be
applied in part. It is shown to implement the epoll model as long as no source has
`strayed`: had a call applied in part, or made a call that epoll refuses. Either
poll fetches at most `MaxEvents` kernel events. **`IocpReactor`** simulates
readiness with zero-byte operations, whose completions arrive late or cannot be
re-armed. **`Broadcast`** has one publisher and one receiver; `send` counts an
item before it stores it, and each slot is read under its own lock.

**`DeviceSetup`** has every constructor as its sequence of system calls, any of
which may fail, with the error paths that close the descriptor; another thread may
start a program between any two calls, which inherits what is not yet
close-on-exec. Then the framing of the packet calls. **`PrivDrop`** has the
client's start-up order, the drop on three platforms, the packets sent meanwhile
and afterwards, and the seccomp program, interpreted instruction by instruction.
Supplementary groups and the identities of other threads are outside it.
**`ResolverHook`** has `apply` and `restore` file operation by file operation on
Linux and command by command on macOS and Windows; the process may die between any
two of them and the host may rewrite its file. **`NatRules`** does the same for
three iptables rules and their rollback. **`Interfaces`** has two parts: the
netlink socket with its bounded queue (`WatchNext`), and `list` on three kinds of
systems while interfaces come and go (`ListNext`). An interface is gone, down, up
without a carrier, or running; what the caller sees of it is `up`, as on Linux the
kernel's `/sys` flags never carry the running bit. **`StunQuery`** and
**`DnsQuery`** are one query each, over a network that delays, repeats, cuts and
mixes in strays. A STUN reply is a list of attributes with their lengths, some of
them malformed, and the parser walks it by byte position; a DNS reply is one of a
server that tells the truth.

### Administration

**`Daemon`** is the process with its threads: the runner in all three modes
through start, handshake, privilege drop, loop, shutdown and crash; the control
socket's single thread; invocations of the command line with their timeouts; the
web requests that write. **`WinService`** has the service's three threads and two
flags. **`HttpServer`** is the web thread on one connection: requests are
sequences of cells, read in pieces of any size, with both body framings, lengths
that do not match the body, characters of two cells, read timeouts, routes,
credentials and upgrades. A write waits while the client does not read. A slice
inside a character ends the thread (`conn = "panicked"`, in a release build the
daemon: `panic = "abort"`). **`WsFrame`** encodes and decodes
frames byte by byte, with smaller bytes. **`ConfigParser`** parses token by token
and compares the tree with a reference reading of the lines;
**`ConfigReload`** validates, compares and takes over a configuration, out of any set
of documents. **`Authenticator`** has the methods' decisions about credentials that may
arrive late, twice or in another handshake, made by anyone with any certificate but
signed with the maker's own key, and the one-time codes under concurrent logins
(`TotpNext`).

### Conventions

`MC*` modules give instances their values and put parts that do not interact
side by side in one run: `part` says which one a behaviour is about, the others
rest. Modules that need no definitions for that are run directly.

Definitions behind a `\* Variant:` comment (`Slide_unmarked`,
`apply_swap_on_loss`, ...) are altered forms of the one that follows them. They
document which mistake a property would notice; no specification uses them.

## Runs

| Run | Configuration | What it shows |
|---|---|---|
| `links` | `MCLinks.cfg` | the table is right unless its two writers overlapped; health follows the probes; probe statistics are true; a settled MTU fits unless an answer crossed a reset |
| `session` | `Session.cfg` | no nonce twice, no delivery twice, genuine packets accepted |
| `session_window` | `SessionWindow.cfg` | *violated*: a packet that does not open moves the window |
| `tunnel` | `Tunnel.cfg` | at most one delivery, fan-out only where scheduled, losses for a reason; even rotation, exact weights |
| `server` | `Server.cfg` | cap and table exact, cross-talk only through a reused id, admissions bounded |
| `server_routing` | `ServerRouting.cfg` | *violated*: frames from a client's second link are dropped |
| `p2p` | `PeerToPeer.cfg` | a returned path is confirmed in this attempt; attempts return |
| `runtime` | `MCRuntime.cfg` | the ring implements a queue, timers fire in their millisecond, kqueue behaves like epoll until a call is applied in part, IOCP loses no readiness it can re-arm, an undisturbed receiver gets every item |
| `host` | `MCHost.cfg` | resolver, iptables, interfaces, devices, privileges, queries, configuration, authentication, web server, service (one property each, below) |
| `control` | `Daemon.cfg` | whoever asks for a shutdown gets one; commands, kicks, readiness and configuration are safe |
| `daemon_reload` | `DaemonReload.cfg` | *violated*: a configuration put to a running tunnel is never written |
| `wire` | `MCWire.cfg` | reorder buffer, window, reassembly, handshake, ladder and frames are exact; nothing is buffered for ever |

The properties of `host`: `ConfigurationKept` (what the host had is in
`resolv.conf` or its backup, through crashes), `RulesAreSound` (exactly the rules the
controller and its failed deletions answer for, never forwarding without
masquerading), `InterfacesAreKnown` (the watcher's view, and what a listing shows as
up), `DevicesKeepContract` (a failing constructor leaves nothing behind),
`RootEndsUnprivileged`, `AnswerIsTheServers` (an address is the last one of the reply
to this query, errors name what is wrong with it), `DocumentIsKept` (what is written
back reads as the same tree, and no line is lost), `AdmittedIsEntitled`,
`AnswersAreRight` (however a request is cut), `ReloadIsSound` (the seven fields that
`diff.rs:10-21` names fixed, report exact, configuration complete),
`StopIsCarriedOut`, `ConnectionEnds` (once the client has stopped sending or gone,
and a socket loop once the tunnel is down).

The violated runs check what a comment or document of the repository says;
`PROJECT.json` quotes each and says what happens instead.

### What the statements leave out

Some properties exclude a situation in which the code does not keep the promise.
A history variable records it, so that the property says everything up to there:

| Property | Excluded | Recorded in |
|---|---|---|
| `ConsistentUnlessRaced` | a table stored over one its writer had not read | `raced` |
| `SettledSizeFits` | an acknowledgement that crossed a reset | `crossed` |
| `GenuineAccepted` | a window moved by a packet that did not open | `poisoned` |
| `NonceUsedOnce` | a counter that wraps | `MaxSeals <= U64Max` |
| `ForeignOnlyThroughReuse` | an id freed by a kick and handed out again | `removed` |
| `ReceivedInOrder` | a pass that meets the publisher in its slots | `met` |
| `WatchedIsReported` | a probe that could not be armed | `unarmed` |
| `ConfigurationKept` | applying over an override; an edit during one; other platforms | `reapplied`, `edited` |
| `SharedOut` | one packet more for each wrap of the cursor at which the rotation jumps | `wraps` |
| `BehavesLikeEpoll` | a call applied in part, or one that epoll refuses; one of two directions when more is ready than fits | `strayed`, `CutShort` |
| `DevicesKeepContract` | what a program started inside a constructor holds; FreeBSD's interfaces; Windows sockets, whose option is given the index in the wrong byte order; what a socket receives | `child`, `late` |
| `RulesAreSound` | order after a failed or manual deletion; a missing copy of a rule deleted by hand | `unordered`, `byhand` |
| `InterfacesAreKnown` | a datagram that was cut; BSD and macOS listings; which interfaces are bondable on Linux, where none is | `cut` |
| `RootEndsUnprivileged` | packets that Capsicum refuses to send; supplementary groups, other threads | `refused` |
| `AdmittedIsEntitled` | steps across logins that overlap; a code shared by two steps; a revocation list that does not parse | `Overlapped`, `Readable` |
| `AnswersAreRight` | 400 for a cut chunked body or wide character or behind cells another request left, 500 for a slow body, and what is answered to wrong lengths | `slow`, `dirty`, `Honest` |
| `ConnectionEnds` | a client that keeps the connection open without reading its answers | `client = "talking"` |
| `DocumentIsKept` | empty tables, arrays mixing tables with values, how a value is printed | `Pruned` |
| `StopIsCarriedOut` | the last report of a daemon that ended by itself | `broke` |
| `ShutdownEnds` | a `down` behind a command that waits for a configuration write | `web` |
| `ReassemblyIsExact` | two packets under one wrapped id | `IdOf` |

### Bounds

- `links`: two links and one edit, so each writer can overlap the other in either
  order; streaks shortened to 2, 1 and 1 there, but the code's own (5, 3, 3) for
  the single link, whose counters saturate above every comparison. Probes: a
  sequence counter of 16 values and time for expiry, a late echo and a repeated
  one. MTU: sizes below, at and above the floor, two probes on the way, a reset.
- `session`: two client and three server ephemerals (a rekey, a repeated message
  1, a stale message 2), four seals over a window of two.
- `tunnel`: three links, one of them dead and without socket; three packets, two
  swaps, a window of two. A table without healthy links is reachable. The cursor's
  word has two values, so that it wraps within three packets and its length is no
  multiple of three links.
- `server`: two clients with two links each, ids 1 to 3 so that the fourth
  session reuses one, four admitted handshakes, a clock of three values and a
  refill that is truncated.
- `p2p`: no or two relays for each peer, time for two bursts, and a
  minimum budget that exceeds what is left when the second relay's turn comes. One
  peer has a pong of an earlier attempt on the way.
- `runtime`: a ring of two slots with words of four, so that counters wrap while
  the ring is full (the proof covers every size); a wheel with two slots per level
  and delays at and beyond every level's span; two sources for the reactors, one with
  two tokens and in any condition, and a buffer of two events for up to four filters
  (64 in the code), with one source that strays; a broadcast ring of two slots lapped
  twice.
- `wire`: a window of 3 over 9 numbers slides by less than, exactly and more than
  its width; 9 numbers and a reorder window of 4 allow two forced skips with
  packets pending on both sides; four packets over three fragment ids with two
  groups in flight; three initiators, two of them with one static key, and two
  responder runs; the field is 2^14 - 3 with three limbs of five bits; frame
  lengths on both sides of each boundary of the encoding.
- `host`: two values of each host configuration, three iptables faults, three link
  changes over a queue of two, two hot-plugs, two credentials made by any clients, four
  logins on two threads with a code that two time steps share, three STUN attempts
  with replies of up to three attributes, documents of three lines, any number of
  requests per connection from a list that meets every status, room for one unread
  answer, and configurations that differ from a base in each section and field.
- `control`: one start in any mode, two invocations of the command line (one
  `down`, one other), one session that joins twice, one configuration, one burst
  of traffic.

The two runs of `Server` check for deadlock. The others do not: their systems may
really stop, because a bound is used up, both attempts have returned, or the
process has ended.

### Fairness

- `wire`: time passes and the owner of the reorder buffer keeps polling it, as
  `reorder.rs:21-25` asks.
- `links`: probes, ticks and time of a link go on; `failover.rs:12-13` describes the
  periodic task. Nothing is assumed of the samples.
- `p2p`: time passes and a peer's thread takes the steps it does not have to wait
  for: a burst, an expired read, the turn to the next relay.
- `control`: the runner, the socket's thread, an invocation of the command line and
  a web request that can have the lock are scheduled; read timeouts of the code
  make their waits finite. `MaxTraffic` says that traffic pauses now and then: the
  drain loops do not look at the shutdown flag, so under traffic that never
  pauses the loop would not return.
- `host`: the web thread and the service's threads are scheduled, reads time out
  (`server.rs:123`), and a daemon whose flag is set ends (which is `ShutdownEnds` of
  `control`). Nothing is assumed of the web client.

No run assumes anything about which packets, samples, bytes or commands arrive.

## Proofs

| Module | Theorems | For every |
|---|---|---|
| `WireProofs` | `TypeCorrect`, `ExactStream` | range of numbers, window, timeout |
| | `ReplayTypeCorrect`, `ExactWindow` | range of numbers, window size |
| | `HandshakeAgrees` | set of runs, assignment of static keys, damaged messages |
| | `InterfacesKnown` | links, names, queue and sizes, number of changes |
| `PacketProofs` | `ReassemblyExact` | payload and body sizes, id space, limit of groups, deliveries |
| | `NatTableIsSound` | number and place of faults, crashes, manual deletions |
| | `AdmissionIsEarned` | holders, certificates, lists, codes, threads |
| `SessionProofs` | `NoncesAreUnique`, `NoReplay`, `NoGenuineRefused` | window size, counter width, number of handshakes, packets and damaged ones |
| | `TableStaysExact`, `ReuseIsTheOnlyWay`, `AdmissionIsBounded` | clients, cap, id width, bucket size and rate, clock |
| `TunnelProofs` | `DeliveryIsSound`, `SharingIsFair` | link table, set of sockets, window size, width of the cursor, number of swaps and replays |
| `ClientProofs` | `TableConsistent` | links, weights, streaks, probation, number of requests |
| | `MinimumKept`, `SettledFits`, `FailedStays`, `ShrinkTheorem` | minimum, step, attempt limit, sizes |
| | `ConfigurationSurvives` | host configurations, number of servers |
| | `PathsAreReal` | relays and lists of them, interval, deadlines |
| | `ReloadsAreSound` | set of documents, number of requests |
| `ThreadProofs` | `RingIsQueue` | capacity, word size, number of pushes |
| | `ReceivedIsExact` | capacity, number of items |
| | `ControlSafe` | invocations, sessions, restarts, number of requests |
| `ReactorProofs` | `TimersFireOnTime` | number of slots, delays, polls |
| | `KqueueIsEpoll` | sources, tokens, size of the buffer, number of strays |
| | `ReadinessIsReported` | sockets, failures of arming |

A module's theorems are about models that share no state; they are kept together
by layer.

`AntiReplayWindow` also has lemmas, about its operators: what each branch of an
update does to the window (`UpdateFirst`, `UpdateAhead`, `UpdateBehind`), that a
number once refused stays refused (`RefusalStable`), and what the bits mean
(`MarksGrow`, `RefusalCause`). `Session` and `Tunnel` both rest on them.

The bounds that the models name (`MaxSeals`, `Swaps`, `Requests`, ...) are
constants of the theorems too: each holds for every value of its bounds, so for
behaviours of any length.

**Reorder buffer.** The assumption is that the constants are naturals. None of
the conjuncts of `StreamIsExact` is inductive alone. Order needs to know that
everything returned lies below `next_expected`, which is part of `Accounting`; that
in turn needs everything buffered to lie above it, which is `PendingInWindow`; and
before the first packet all of it rests on the buffer being untouched. `BufferInv` is
their conjunction with `Untouched`. Three lemmas carry the argument:
`RunProperties` (what a run of consecutive numbers looks like), `StreamExtended`
(appending such a run keeps the stream ordered and bounded) and `DrainKeepsInv`
(one drain, with any pending map and start that the callers pass, re-establishes
`BufferInv`). Every exit of `push` and the skip of `poll_timeout` is then an instance of
the third.

**Anti-replay window.** The assumption is a window of at least one position.
`AcceptedAtMostOnce` is not inductive: whether a number is let through depends on
the bitmap. `ReplayInv` adds that the bitmap holds exactly the accepted numbers of
the window and that nothing accepted lies above `highest`. `FreshWhenOk` shows that
a number passes only if it was never accepted; `RefusalJustified` gives the other
direction; the rest is one case per branch of `check_and_update`.

**Session.** The assumption is that the header's sequence field is narrower than
the counter. What the three properties share is that a key is installed at most
once at each end: then a fresh counter or a fresh window only ever meets a fresh
key. `SessionInv` states it through the ephemerals. `EphemeralsFresh` numbers them
in the order they are drawn; `HandshakeFresh` says that the ephemeral of the
client's open handshake has derived no key that sealed or delivered anything. On
top of it `CounterAhead` puts the counter above every nonce used with the current
key, `WindowRemembers` has the window refuse everything delivered under it, and
`WindowHonest` has the window show nothing else, except at a peer whose window a
packet that failed to open has moved (`poisoned`, which run `session_window` is
about). `NoncesAreUnique` keeps the hypothesis of `NonceUsedOnce`: the number of
seals stays within the counter.

**Tunnel.** `TunnelAssumption` asks for a table that is not empty, without two
links of one id, as `LinkTable` is built, and sockets for links of the table only.
`TunnelInv` ties the log of decisions to the frames on the wire: `Logged` counts
them, `InHand` says where the packet in hand has been and may still go, and
`WindowRefuses` covers the far end. `SelectionIsSound` is the lemma on the
strategies: whatever the table, a selection names healthy links, none twice, all
of them for the redundant one and at most one otherwise. For fairness `FairInv`
adds `RoundRobinEven`: some number of links, those chosen last before the cursor,
are one packet ahead of the others, so counts differ by at most one and in a known
place; `TurnKeepsEven` shows that a turn keeps it, `FreshIsEven` that a swap
starts it anew. Where the cursor's word wraps and is no multiple of the links, the
place is lost; `Lapped` then adds one to the difference (`WrapKeepsEven`).
`WeightsAreHonoured` counts the draws that end at a link. The weights are summed
by a recursive function; the few inductions needed are done with least elements
(`LeastNumber`, `InductionUpTo`), which a set stands for.

**Server.** The assumptions are a cap that is a natural number, an id space that is not
empty, and a bucket with a token. The cap is checked and the id reserved before the
session is inserted; `SlotsExact` says that between the two there stays room for
one session and the id stays free, because kicks only remove and only this thread
inserts, and that a slot holds the newest session of its id. `MapTraced` traces
each entry of the address map to a session of that client, which is why cross-talk
leads back to a kicked session. `Ledger` keeps the books of each bucket, scaled by
the clock's unit so that no division is left: tokens let through and tokens left
never exceed the first fill and the refills. A refill rounds down, and a clock that
was set back adds nothing (`RefillBalanced`).

**Peer to peer.** The assumptions are those of the model: every list of relays is
a sequence of them, and relays are not named like the other results. What an
attempt returns is decided by one datagram, so `PeerInv` speaks of the datagrams
on the way (`Caused`): a pong of this attempt is there only if the peer answered
its ping, an announcement only if a relay has both peers. Causes last, so
`PeerMoves` covers every step that returns no path.

**Failover.** `ConsistentUnlessRaced` says nothing while the controller is between its
clone and its store. `FailoverInv` adds `SnapshotFlags`: unless a table was stored
over one it was not built from, the flags of the table are still those of the clone,
other than the ones an operator or a deregistration has changed. `TickKeepsBondable`
is why a tick never has to be followed by `apply_to_engine`.

**Resolver configuration.** `HookInv` says at which file operation the host's
configuration is where (`Saved`): in place until it is copied, in the copy until it is
written back, and in place before the copy is removed.

**Path MTU.** The invariant speaks of the answers that are still to come
(`ProbesOK`): each was for at least the minimum, and one of this epoch that the path
carried is no longer than the path. Without it a late acknowledgement could settle
any size. A settled size fits the path unless an acknowledgement sent before a reset
was taken after it (`crossed`), which the code cannot tell from a new one.
`FailedStays` and `ShrinkTheorem` are action properties from it.

**Ring.** The assumptions are a capacity of at least one and a word that is a larger
multiple of it, which holds for 2^64 and a power of two. The theorem is a
refinement: the ring implements `BoundedQueue`, with its slots between `head` and
`tail` as the queue's contents, no slot is written while it is read, and every
value is popped, left or dropped once. `IInv` relates the wrapping counters to the
numbers of values pushed and popped (`Counted`), says that each thread's copy of
the other's counter is the counter of some earlier count and how far it may lag
(`ProducerLags`, `ConsumerLags`), and which slots hold which values (`Stored`,
`Freed`). Its base are lemmas on remainders (`RemainderUnique`, `WordSub`, `SlotOf`,
`SlotsDiffer`): `wrapping_sub` gives the true distance because it is below the
word, and two counts less than the capacity apart have different slots. There is
one lemma per action, and `StepRefines` maps each to a step of the queue or a
stutter.

**Broadcast.** The assumption is a capacity of at least one. `BcastInv` says that the
slots hold the last `cap` items stored (`HoldsTheLast`; the one counted but not yet
stored is the exception), where a pass is between its two ends, and that a pass
which the publisher has not met has its items in order, none left out
(`PassExact`). A slot read behind `head - cap` would be one of a later item; that
is what `met` records.

**Control.** `ControlInv` has a part for each promise. `CommandInv` follows each
invocation: its line is in the socket only between the sending and the service, so
it is served at most once, and an unread "shutdown" comes from a process whose flag
is set. `TunnelInv` ties the tunnel's state to what the mode needs, `RegistryInv`
counts handshakes against kicks and sessions. That no PUT writes under the runner's
guard is an action property.

**Timer wheel.** The assumption is at least two slots per level. `Placed` says in
which slot of which level a timer is, given its expiry and the clock, and `Sound`
that each timer is placed or has fired in its millisecond, and is never both. One
tick cascades the levels from the top; `FinalPlaces` shows that a timer which has
gone through them is in the right slot of the new time, `DueIsExact` that the slot
of level 0 then holds exactly the due ones. A poll is a number of ticks, so
`TurnsSound` is an induction over them (`InductionUpTo`). The rest is arithmetic
with remainders (`FloorIs`, `SameQuotient`, `RemaindersDiffer`).

**Reactors.** `TokensAssumption` is that no two sources share a token. `KqInv` says that
the kernel's entries of a source are those of the interest committed last
(`FiltersAreCommitted`), under one token. It holds until a source strays; that the
kernel watches at least what was committed (`Watched`) holds throughout, because
additions come before deletions (`SubmitFails`, `ApplySound`). `KqStepRefines` maps
each step to a step of the epoll model or a stutter, and `PollRefines` shows that a
poll, which kqueue answers filter by filter, gives epoll's event of each source it
fetched whole. For IOCP, `IocpInv`
says that a socket's pending marks are exactly its probes in flight or completed
(`Marked`) and that what is watched is armed or could not be (`Armed`).

**Handshake.** `NoiseAssumption` keeps the names of the two sides' runs apart. The states
of both sides are determined by whom they read: `Paired(r, i)` is the state of a
responder that answered `i`, and `NoiseInv` says that every initiator is new, waits,
has failed or is paired, every responder is new or has read one initiator's message,
and what travels and what was sealed is one of these runs' messages and seals. A
responder that failed to open a message 1 keeps the mixed chaining key
(`Garbled`), which is then too long to become anyone's key.

**Interfaces.** The watcher's part says that, as long as nothing was lost, the last
datagram about a link in the queue is how the link is (`LastWord`), and without
one the caller already knows (`NoNews`). The listing's part follows `list()`: what was
up throughout is among the names still to be read or has been found.

**Fragmentation.** `FragmentAssumption` asks for bodies and an id space that are not
empty. `FragInv` says that fragments on the wire are pieces of packets that were
sent, that each slot of a group waits or holds the body of a packet with its id
(`GroupOK`), and that the queue holds each group once, within the limit. When all slots are
filled and one packet filled them, their concatenation is that packet
(`ReassemblyIsExact`'s exception is two packets under one id).

**NAT rules.** `Own(r)` counts the copies of a rule that the call under way, or the
installed controller, answers for. `NatInv`: the table holds at most these and what
earlier calls left, exactly that for a rule nobody deleted by hand, and in order
until a deletion fails or is done by hand.

**Authentication.** `MethodInv` has clients make credentials with their own keys only,
whatever certificate they put beside it (`MadeIsGenuine`). `TotpInv`: the stored step
is the last one accepted, and a login between its load and its store has a larger step
than that unless another was accepted since its load; so a step can fall back only
across logins that overlap.

**Configuration reload.** The invariant is that a running daemon's configuration can
be built for its mode (`ReloadInv`). What a step does follows from two lemmas on the
difference of two configurations: `DiffIsExact` (the report names what differs) and
`SafeKeepsIdentity` (what passes the safety test agrees on the fields that
`diff.rs:10-21` pins). Nothing is assumed of the documents.

Only model-checked are, first, all liveness (`AttemptReturns`, `PendingReleased`,
`ShutdownEnds`, `ConnectionEnds`, `StopIsCarriedOut` and the half of
`HealthFollowsProbes` that says a state settles), which needs fairness and `ENABLED`;
the other half, on streaks, is checked with it. Second, what folds and recursive
operators compute from a text, a datagram or a list of samples, which needs induction
over data: `DocumentIsKept`, `LadderIsMultiplication`, `FramesAreWhole`,
`AnswersAreRight`, `AnswerIsTheServers` and `StatisticsAreTrue`. Third,
`DevicesKeepContract` and `RootEndsUnprivileged`: these are short, fixed sequences of
system calls, and TLC visits every one with every failure.

## Other disagreements between comments and code

Met while modelling; the models follow the code. No run is spent on them.

Tunnel and links:

- `reorder.rs:165-168` skips "past" the packet that waited longest; the code
  (`:188`) skips to the smallest buffered number. `reorder.rs:15` speaks of a
  "missing packet"; a forced skip (`:129-135`) also counts packets that had arrived.
- `failover.rs:5-10` has strategies see a dead link on their "very next `schedule`
  call"; an overlapping `update_link` stores its older clone and revives it until
  the next crossing (`bonding/mod.rs:139`).
- `link_state.rs:157-158` "Reset every streak on a transition"; `tick` (`:177-178`)
  clears one of three. `:213-214` says one bad probe on probation pushes the link
  "straight back"; the full streak is needed. `:19-21` promises "reduced weight" on
  probation; `failover.rs:142` keeps it.
- `session/mod.rs:66-68` "we refuse rather than wrap"; the counter is incremented
  before the test (`:327`), so one call is refused and the next starts at zero.
- `session/mod.rs:157-159` keeps the old keys until the rekey is final;
  `advance_rekey` (`:438`) consumes the session, so a stale message 2 drops them.
- `session/rekey.rs:8-10` forbids data past the interval; nothing asks `needs_rekey`.
- `outbound.rs:174-177` sends the redundant copy on every link; the `?` on `send_to`
  (`:269`) starves the links behind one that fails.
- `strategy.rs:109-110` "Wrap-around at usize::MAX is fine thanks to the modulo"; unless
  the links divide the word, the rotation jumps there and a link gets two in a row.
- `strategy.rs:43-44` "bump a metric"; `outbound.rs:239` returns without one.
  `strategy.rs:313` draws from "[0, total)"; rounding to `f32` can reach `total`.
- `ratelimit.rs:12-14` refills "5 tokens / 10 s"; a source that tries every
  millisecond is refilled by `500 * 1 / 1000 = 0` each time.
- `holepunch.rs:53-55` has both peers "converge"; one that has its pong returns
  (`:181`) and stops answering. `:50-51` aborts after `deadline_ms`; each datagram
  restarts the read timeout, and the deadline is looked at behind it.
- `relay.rs:341-343` returns a session at the relay that paired the peers;
  `:307` ignores a frame's source, so a late `PeerJoined` of another relay counts.
- `fragment.rs:73-76` "the entire group is discarded"; `Inconsistent` leaves it.
  Ids wrap and groups do not age.
- `pmtud.rs`: an acknowledgement from before `reset` settles the new search.
- `noise.rs` gives the protocol name 31 bytes; it has 32. `x25519_field.rs` writes
  "a24 = (a+2)/4"; 121665 is (a-2)/4.

Runtime and host:

- `ring.rs`: `Producer::len` is documented as a lower bound and is an upper one.
- `PacketPool::stats` reads its counters in an order that lets `hit_rate` exceed 1.
- The epoll and kqueue `poll` return `Ok(0)` on `EINTR` without clearing `events`.
  `reactor.rs:33-35` "Fills `events` with every ready source"; at most 64 kernel events
  are fetched, which on kqueue can be one of a source's two directions.
- `bsd/reactor.rs:18-20` "the switch is atomic from the kernel's perspective"; `kevent`
  stops at an entry it cannot apply. `register` of a registered source and `reregister`
  of an unregistered one are accepted there and refused by epoll.
- The IOCP reactor ignores a failing re-arm, and refuses a source that was
  deregistered and registers again.
- `broadcast.rs:5-7`: an item counted but not yet stored is read as its predecessor
  and skipped.
- `totp.rs:239-241` speaks of `compare_exchange`; the code loads and stores, so of
  overlapping logins the later store may set the mark back. A code that two steps share
  is accepted once for each.
- `freebsd_tun.rs:66-67` "destroys it when the fd is closed"; a `tun` interface stays.
  CLOEXEC is a call of its own on BSD and macOS, open to a program started before it.
- `socket.rs`: on Windows the interface index is passed in native byte order (`:246`)
  where the option wants network order, and restricts only what is sent.
- `priv_drop/linux.rs:176` gives the jump as `2 + num_blocked`; the code, rightly,
  uses one less.
- The server loop and the Windows client never drop privileges. After the seccomp
  filter, restoring DNS and removing iptables rules could not run. In capability mode
  FreeBSD refuses `send_to` with an address; the loop passes over the error
  (`client.rs:343-344`), while `freebsd.rs:4-8` has open descriptors "remain usable".
- `resolver_hook.rs`: a second `apply` after a crash overwrites the backup; a file
  that was absent is not removed again; edits during the override are lost; a
  failing second `netsh` leaves an override without a guard (`docs/architecture.md`
  and `docs/cli.md` promise restoration).
- `watcher.rs`: a datagram longer than the buffer is cut silently. `:26-27` has a new
  interface come as `LinkUp`; one that is not up comes as `LinkDown`. `is_bondable` is
  never true on BSD and macOS, nor on Linux: the flags in `/sys` do not have the running
  bit that `iface.rs:104-108` asks for.
- `stun.rs`: strays use up attempts, one that is no STUN message ends the query,
  and a malformed attribute beside a good one refuses the reply. `dns.rs`: a name
  with an empty label ends early.

Administration:

- `runner.rs:1-2` "spawns" the service threads; it starts neither the control socket
  nor the web server, and nothing writes to the log bus.
- `reload` answers without doing anything; the CLI documentation calls it a
  hot-reload. The command line exits with 0 on error replies, and its `webui`
  command is unknown to the daemon. A command reported as timed out is still
  carried out later.
- The tunnel's state stays up when the reactor loop fails; the drain loops do not
  look at the shutdown flag; the client's handshake is never retransmitted.
- A server that cannot read its key goes on with a key of zeros
  (`runner.rs:46-48`); on systems other than Linux its loop only sleeps.
- Weights are misaligned when an interface is disabled (`client.rs:273`, `:391`). The
  Windows client reads a packet and drops it before the forwarding call reads the
  next (`client.rs:174`).
- Two daemons on one socket path remove each other's file; process exit leaves it.
- The service's `stop_signal` returns a flag nothing is connected to; a bad
  configuration is reported with exit code 0; a daemon that fails while the stop
  handler runs can leave `STOP_PENDING` as the last report.
- `PUT config` stores the configuration and leaves the engine alone; without a
  context it answers "applied" although nothing is stored. `PUT interfaces` accepts a
  weight of 0, which validation refuses.
- `request.rs:8-9` supports chunked bodies; one that is cut anywhere, and a wide
  character cut in the first read, get 400. Pipelined bytes are discarded; a
  request without header fields is refused; a body timeout is answered with 500 on
  Linux. The line break behind the last chunk stays unread and spoils the next
  request. The first "content-length:" anywhere in what was read is taken for the
  header (`server.rs:185`). A length that ends inside a character panics
  (`request.rs:89`, `:170-171`).
- Only reads have a timeout (`server.rs:123`); a client that does not read its answers
  holds the web thread in `write_all` (`:136`, `:224`).
- The socket loops ignore the client's close frame, take the tunnel's state for the
  shutdown flag, and occupy the only web thread.
- The statistics handler gives every interface the totals and sums them; the log
  handler compares levels as strings.
- The parser lets `[[a]]` extend an array `a = [1]`; the writer drops empty tables
  and prints floats with an exponent, which the lexer refuses.
- `psk.rs` binds the proof to the transcript in its header comment; only context and
  secret are hashed. `crl.rs:203-205` never treats a broken list as empty; a
  malformed entry ends the walk with "not revoked". `next_update` is not looked at.
  Day 31 of any month is accepted in a certificate.

## What is abstracted

Payloads, header fields other than the sequence number, logging and wording are
left out. Clocks are counted in units, and ages stop where the code stops
comparing them. Cryptography is ideal except for the scalar multiplication. A write
to the TUN is taken to succeed: `accepts` in `Tunnel` counts what is handed to it.
`Server` leaves the windows of its sessions to `Session` and records which session
each frame is handed to. The kernel, relays, STUN and DNS servers, iptables and the
service manager are external and modelled from how the code uses them. Poisoned
locks and allocation failure are not modelled.

## Not modelled

- Text and byte codecs without state: JSON, ASN.1 and the calendar of
  certificates, the wire header, the lexer's characters, HTTP response text,
  argument parsing and printing of the command line. What they do is a function of
  their input that unit tests pin down.
- Pages made from counters: statistics, metrics, status, logs, embedded assets.
- The cookie of the handshake and `evict_stale` of the rate limiter: nothing in the
  repository calls them.
- The buffer pool: one `Vec` behind a mutex.
- Logging.
