----------------------------- MODULE PeerToPeer -----------------------------
(***************************************************************************)
(* Two peers connect with try_direct_then_relay (p2p/relay.rs): each runs  *)
(* hole_punch (p2p/holepunch.rs) and, if that fails, registers with one    *)
(* relay after the other until one pairs it with the other peer.  The      *)
(* network loses, delays and reorders; a peer may start late, and a pong   *)
(* of an earlier attempt on the same socket can still arrive.              *)
(*                                                                         *)
(* A probe's nonce is the peer it belongs to and whether it is from this   *)
(* attempt.  A relay's side of the protocol is not part of the repository; *)
(* it follows the flow that the module comment of relay.rs describes.      *)
(***************************************************************************)
EXTENDS Integers, Sequences, FiniteSets

CONSTANTS
    Peers,
    Relays,
    RelayLists,         \* the relay_servers a peer may be configured with
    interval,           \* HolePunchConfig::interval_ms, in clock units
    deadline,           \* HolePunchConfig::deadline_ms
    total_deadline,     \* P2pConnectConfig::total_deadline_ms
    MinBudget,          \* the 500 ms every relay gets at least
    Earlier             \* the peers with a pong of an earlier attempt on the way

\* For the runs: no relay, or all of them in some order.
NoneOrAll ==
    LET orders == {list \in [1 .. Cardinality(Relays) -> Relays] :
                      \A i, j \in DOMAIN list : list[i] = list[j] => i = j}
    IN  {<< >>, CHOOSE list \in orders : TRUE}

\* What an attempt comes to other than a session through a relay.
Results == {"none", "direct", "bad_config", "timeout", "no_relay_servers", "no_relay"}

ASSUME PeerToPeerAssumption ==
    /\ Cardinality(Peers) = 2
    /\ RelayLists \subseteq Seq(Relays)
    /\ Relays \cap Results = {}
    /\ interval \in Nat \ {0}
    /\ deadline \in Nat \ {0}
    /\ total_deadline \in Nat
    /\ MinBudget \in Nat
    /\ Earlier \subseteq Peers

VARIABLES
    peer,       \* each peer's place in the code and its local variables
    net,        \* datagrams on the way or in a socket's queue
    registered, \* external: who registered with each relay
    answered    \* history: the nonces whose ping the other peer answered

vars == <<peer, net, registered, answered>>

(***************************************************************************)
(* The local variables of a peer.  Times count down to their instant:      *)
(* `wait` is the read timeout of the punch, `timer` what is left of the    *)
(* recv_from under way, `budget` is per_server, `relay` counts the relays  *)
(* of relay_servers that were tried.                                       *)
(***************************************************************************)
Idle == [pc |-> "idle", wait |-> 0, timer |-> 0, punch_left |-> 0,
         total_left |-> 0, relay_servers |-> << >>, budget |-> 0, relay |-> 0,
         outcome |-> "none"]

Other(p) == CHOOSE q \in Peers : q # p

Nonce(p) == <<p, "new">>

Ping(n) == [kind |-> "Ping", to |-> Other(n[1]), nonce |-> n]
Pong(n) == [kind |-> "Pong", to |-> n[1], nonce |-> n]
ToPeer(kind, p) == [kind |-> kind, to |-> p]

Init ==
    /\ peer = [p \in Peers |-> Idle]
    /\ net = {Pong(<<p, "old">>) : p \in Earlier}
    /\ registered = [r \in Relays |-> {}]
    /\ answered = {}

Smaller(x, y) == IF x < y THEN x ELSE y
Larger(x, y) == IF x > y THEN x ELSE y

At(p, label) == peer[p].pc = label

Goto(p, label) == peer' = [peer EXCEPT ![p].pc = label]

(***************************************************************************)
(* The datagrams that still make a difference when they are read: none for *)
(* a peer that has returned, and no probes for one that is past the punch, *)
(* whose relay_connect skips them.                                         *)
(***************************************************************************)
Matters(msgs) ==
    {m \in msgs : /\ ~At(m.to, "done")
                  /\ m.kind \in {"Ping", "Pong"} =>
                        peer[m.to].pc \in {"idle", "burst", "recv"}}

Send(msgs) == net' = net \cup Matters(msgs)

\* The locals are gone but for those the outcome is judged by.
Return(p, result) ==
    /\ peer' = [peer EXCEPT ![p] = [Idle EXCEPT !.pc = "done",
                                                !.total_left = peer[p].total_left,
                                                !.relay_servers = peer[p].relay_servers,
                                                !.relay = peer[p].relay,
                                                !.outcome = result]]
    /\ net' = {m \in net : m.to # p}

----------------------------------------------------------------------------
(* hole_punch                                                              *)

\* A zero deadline or interval is BadConfig, after which no relay is tried.
try_direct_then_relay(p) ==
    /\ At(p, "idle")
    /\ \/ Return(p, "bad_config")
       \/ /\ \E list \in RelayLists :
                peer' = [peer EXCEPT ![p] = [Idle EXCEPT !.pc = "burst",
                                                         !.punch_left = deadline,
                                                         !.total_left = total_deadline,
                                                         !.relay_servers = list]]
          /\ UNCHANGED net
    /\ UNCHANGED <<registered, answered>>

\* Variant: the deadline is not looked at.
Expired_never(p) == FALSE

Expired(p) == peer[p].punch_left = 0

\* hole_punch returns an error other than BadConfig.
PunchFails(p, sent) ==
    /\ peer' = [peer EXCEPT ![p].pc = "fall_back",
                            ![p].wait = 0, ![p].timer = 0, ![p].punch_left = 0]
    /\ net' = {m \in net \cup Matters(sent) :
                 m.to = p => m.kind \notin {"Ping", "Pong"}}

(***************************************************************************)
(* send_burst and the deadline check behind it.  A burst reaches the other *)
(* peer through the primary port or one of the alternatives, if at all: it *)
(* is one ping here.                                                       *)
(***************************************************************************)
send_burst(p) ==
    LET read_timeout == Smaller(peer[p].punch_left, interval)
    IN  /\ At(p, "burst")
        /\ \/ Expired(p) /\ PunchFails(p, {Ping(Nonce(p))})
           \/ /\ ~Expired(p)
              /\ Send({Ping(Nonce(p))})
              /\ peer' = [peer EXCEPT ![p].pc = "recv",
                                      ![p].wait = read_timeout,
                                      ![p].timer = read_timeout]
        /\ UNCHANGED <<registered, answered>>

\* The send to the primary address or recv_from fails: P2pError::Io.
punch_io_error(p) ==
    /\ At(p, "burst") \/ At(p, "recv")
    /\ PunchFails(p, {})
    /\ UNCHANGED <<registered, answered>>

\* recv_from gave up after `wait`: look at the deadline, then burst again.
recv_timeout(p) ==
    /\ At(p, "recv")
    /\ peer[p].timer = 0
    /\ \/ Expired(p) /\ PunchFails(p, {})
       \/ ~Expired(p) /\ Goto(p, "burst") /\ UNCHANGED net
    /\ UNCHANGED <<registered, answered>>

\* Variant: any pong completes the punch.
Confirms_any(p, m) == m.kind = "Pong"

Confirms(p, m) == m.kind = "Pong" /\ m.nonce = Nonce(p)

(***************************************************************************)
(* A datagram during the punch.  Every one of them restarts recv_from with *)
(* the full read timeout, and no deadline is looked at in between.         *)
(***************************************************************************)
punch_recv(p, m) ==
    LET pong    == IF m.kind = "Ping" THEN {Pong(m.nonce)} ELSE {}
        restart == [peer EXCEPT ![p].timer = peer[p].wait]
    IN  /\ At(p, "recv")
        /\ m.to = p
        /\ \/ Confirms(p, m) /\ Return(p, "direct")
           \/ /\ ~Confirms(p, m)
              /\ peer' = restart
              /\ net' = (net \ {m}) \cup Matters(pong)
        /\ answered' = answered \cup {reply.nonce : reply \in pong}
        /\ UNCHANGED registered

----------------------------------------------------------------------------
(* relay_connect_any and relay_connect                                     *)

\* The second phase of try_direct_then_relay, up to the loop over the relays.
fall_back(p) ==
    /\ At(p, "fall_back")
    /\ \/ /\ peer[p].total_left = 0
          /\ Return(p, "timeout")
       \/ /\ peer[p].total_left > 0
          /\ peer[p].relay_servers = << >>
          /\ Return(p, "no_relay_servers")
       \/ /\ peer[p].total_left > 0
          /\ peer[p].relay_servers # << >>
          /\ peer' = [peer EXCEPT ![p].pc = "next_relay",
                                  ![p].budget =
                Larger(peer[p].total_left \div Len(peer[p].relay_servers), MinBudget)]
          /\ UNCHANGED net
    /\ UNCHANGED <<registered, answered>>

attempt_deadline(p) == Smaller(peer[p].budget, peer[p].total_left)

(***************************************************************************)
(* External: what becomes of p's Register at relay r.  It is lost, or the  *)
(* relay rejects it, or it allocates a slot and, once both peers have      *)
(* one, announces them to each other.                                      *)
(***************************************************************************)
AtRelay(r, p) ==
    \/ UNCHANGED <<net, registered>>
    \/ /\ Send({ToPeer("Error", p)})
       /\ UNCHANGED registered
    \/ /\ registered' = [registered EXCEPT ![r] = @ \cup {p}]
       /\ Send({ToPeer("Registered", p)}
                \cup {ToPeer("PeerJoined", q) : q \in
                         IF registered'[r] = Peers THEN Peers ELSE {}})

\* One turn of the loop: register with the next relay while there is time.
relay_connect(p) ==
    LET relay_servers == peer[p].relay_servers
        tried         == peer[p].relay
    IN  /\ At(p, "next_relay")
        /\ \/ /\ tried = Len(relay_servers) \/ peer[p].total_left = 0
              /\ Return(p, "no_relay")
              /\ UNCHANGED registered
           \/ /\ tried < Len(relay_servers)
              /\ peer[p].total_left > 0
              /\ peer' = [peer EXCEPT ![p].pc = "relay",
                                      ![p].relay = tried + 1,
                                      ![p].timer = attempt_deadline(p)]
              /\ AtRelay(relay_servers[tried + 1], p)
        /\ UNCHANGED answered

\* relay_connect returns an error, of whatever kind.
NextRelay(p) == peer' = [peer EXCEPT ![p].pc = "next_relay", ![p].timer = 0]

relay_timeout(p) ==
    /\ At(p, "relay")
    /\ peer[p].timer = 0
    /\ NextRelay(p)
    /\ UNCHANGED <<net, registered, answered>>

relay_io_error(p) ==
    /\ At(p, "relay")
    /\ NextRelay(p)
    /\ UNCHANGED <<net, registered, answered>>

Pairs(m) == m.kind = "PeerJoined"

(***************************************************************************)
(* A frame while waiting for a relay.  Neither its sender nor whether      *)
(* Registered came first is looked at.                                     *)
(***************************************************************************)
relay_recv(p, m) ==
    /\ At(p, "relay")
    /\ m.to = p
    /\ \/ Pairs(m) /\ Return(p, peer[p].relay_servers[peer[p].relay])
       \/ /\ ~Pairs(m)
          /\ net' = net \ {m}
          /\ IF m.kind = "Error" \/ peer[p].timer = 0 THEN NextRelay(p)
                                                     ELSE UNCHANGED peer
    /\ UNCHANGED <<registered, answered>>

----------------------------------------------------------------------------
(* Time passes for the peers that are under way, at any moment.            *)

UnderWay == {p \in Peers : peer[p].pc \notin {"idle", "done"}}

Elapsed(left) == IF left = 0 THEN 0 ELSE left - 1

time_passes ==
    /\ \E p \in UnderWay : peer[p].total_left + peer[p].timer + peer[p].punch_left > 0
    /\ peer' = [p \in Peers |->
                  IF p \in UnderWay
                  THEN [peer[p] EXCEPT !.timer = Elapsed(@),
                                       !.punch_left = Elapsed(@),
                                       !.total_left = Elapsed(@)]
                  ELSE peer[p]]
    /\ UNCHANGED <<net, registered, answered>>

\* What a peer does of itself, without waiting for anybody.
Advance(p) ==
    \/ send_burst(p)
    \/ recv_timeout(p)
    \/ fall_back(p)
    \/ relay_connect(p)
    \/ relay_timeout(p)

Next ==
    \/ \E p \in Peers : \/ try_direct_then_relay(p)
                        \/ Advance(p)
                        \/ punch_io_error(p)
                        \/ relay_io_error(p)
    \/ \E m \in net, p \in Peers : punch_recv(p, m) \/ relay_recv(p, m)
    \/ time_passes

Spec == Init /\ [][Next]_vars

(***************************************************************************)
(* Time passes and each peer's thread runs on.  Nothing is assumed of the  *)
(* network: a datagram may stay on the way for ever.                       *)
(***************************************************************************)
FairSpec == Spec /\ WF_vars(time_passes) /\ \A p \in Peers : WF_vars(Advance(p))

----------------------------------------------------------------------------

(***************************************************************************)
(* The path an attempt returns is real.  "the punch completes only when    *)
(* the peer actually received one of our probes (not some leftover from a  *)
(* previous session ...)" (holepunch.rs:31-33), although pongs of an       *)
(* earlier attempt may still arrive.  A relay session is returned only     *)
(* after some relay has paired the two peers, whatever order               *)
(* registrations, acknowledgements and rejections arrive in.               *)
(***************************************************************************)
PathIsConfirmed ==
    \A p \in Peers :
        /\ peer[p].outcome = "direct" => Nonce(p) \in answered
        /\ peer[p].outcome \in Relays => \E r \in Relays : registered[r] = Peers

(***************************************************************************)
(* Every attempt returns, although each datagram restarts the read timeout *)
(* of the punch before the deadline is looked at: two peers cannot keep    *)
(* each other in the loop with their probes.                               *)
(***************************************************************************)
AttemptReturns ==
    \A p \in Peers : At(p, "burst") ~> At(p, "done")

=============================================================================
