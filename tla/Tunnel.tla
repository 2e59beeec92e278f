------------------------------- MODULE Tunnel -------------------------------
(***************************************************************************)
(* The data path of a tunnel, end to end: the client's reactor thread      *)
(* reads packets from the TUN, seals each once, asks the bonding engine    *)
(* for links and sends the frame on each of them (pipeline/outbound.rs);   *)
(* the links lose, duplicate and reorder; the server's anti-replay window  *)
(* lets the first copy through to its TUN (pipeline/inbound.rs).           *)
(* Meanwhile other threads swap the strategy and the link table.           *)
(*                                                                         *)
(* A packet is the sequence number it was sealed with.  The link table is  *)
(* a sequence of links [id, weight, healthy].                              *)
(***************************************************************************)
EXTENDS AntiReplayWindow, Sequences, Functions

CONSTANTS
    Table,      \* the link table at start: a sequence of [id, weight, healthy]
    Sockets,    \* the ids of the links with a bound socket
    Usize,      \* how many values a usize has, 2^64 or 2^32
    Swaps,      \* bound on the swaps of the strategy and of link flags
    MaxReplays  \* bound on the replayed frames explored

Ids(links) == {links[i].id : i \in DOMAIN links}

LinkIds == Ids(Table)

ASSUME TunnelAssumption ==
    /\ Table \in Seq([id : LinkIds, weight : Nat, healthy : BOOLEAN])
    /\ Table # << >>
    /\ \A i, j \in DOMAIN Table : Table[i].id = Table[j].id => i = j
    /\ Sockets \subseteq LinkIds
    /\ Usize \in Nat \ {0}
    /\ Swaps \in Nat
    /\ MaxReplays \in Nat

(***************************************************************************)
(* A table for model checking: three links, the last dead at first.        *)
(***************************************************************************)
Links3 == << [id |-> 1, weight |-> 2, healthy |-> TRUE],
             [id |-> 2, weight |-> 1, healthy |-> TRUE],
             [id |-> 3, weight |-> 0, healthy |-> FALSE] >>

----------------------------------------------------------------------------
(* The four strategies of bonding/strategy.rs.  A decision is the sequence *)
(* of the ids chosen, empty for LinkSelection::None.  The xorshift         *)
(* generator is a free choice of the number it is asked for.               *)

\* The positions of the links whose flag is up.
Up(links) == {i \in DOMAIN links : links[i].healthy}

Rank(links, i) == Cardinality({j \in Up(links) : j <= i})

(***************************************************************************)
(* LinkTable::healthy: the links whose flag is up, in the table's order.   *)
(* The n-th is the one with n such links up to its own position.           *)
(***************************************************************************)
healthy(links) ==
    [n \in 1 .. Cardinality(Up(links)) |->
        links[CHOOSE i \in Up(links) : Rank(links, i) = n]]

(***************************************************************************)
(* The total of the first n weights.                                       *)
(***************************************************************************)
Cumulative(weights, n) ==
    LET sum[k \in 0 .. Len(weights)] ==
            IF k = 0 THEN 0 ELSE sum[k - 1] + weights[k]
    IN  sum[n]

Total(weights) == Cumulative(weights, Len(weights))

(***************************************************************************)
(* The walk over the cumulative weights: the first position whose running  *)
(* total exceeds the pick, or the last position if there is none.          *)
(***************************************************************************)
CumulativePick(weights, pick) ==
    LET stops == {i \in DOMAIN weights : pick < Cumulative(weights, i)}
    IN  IF stops = {} THEN Len(weights)
        ELSE CHOOSE i \in stops : \A j \in stops : i <= j

(***************************************************************************)
(* What a sampler may pick on its way through the weights.  Weighted draws *)
(* an integer modulo the total.  LatencyAdaptive scales a quotient of two  *)
(* floats that reaches 1.0, so its pick reaches the total.                 *)
(***************************************************************************)
WeightedDraws(weights) == 0 .. (Total(weights) - 1)

AdaptiveDraws(weights) == 0 .. Total(weights)

\* The positions a sampler may choose; all of them if the weights are zero.
Sampled(weights, draws) ==
    IF Total(weights) = 0 THEN DOMAIN weights
    ELSE {CumulativePick(weights, pick) : pick \in draws}

Weights(links) == [i \in DOMAIN links |-> links[i].weight]

(***************************************************************************)
(* schedule: the decisions `strategy` may take over the table, with the    *)
(* round-robin cursor and the scores LatencyAdaptive was last given.       *)
(***************************************************************************)
Strategy == {"round-robin", "weighted", "latency-adaptive", "redundant"}

schedule(strategy, table, cursor, scores) ==
    LET h   == healthy(table)
        One(positions) == {<<h[i].id>> : i \in positions}
        adaptive == [i \in DOMAIN h |-> scores[h[i].id]]
    IN  IF h = << >> THEN {<< >>}
        ELSE CASE strategy = "round-robin" ->
                    One({(cursor % Len(h)) + 1})
               [] strategy = "weighted" ->
                    One(Sampled(Weights(h), WeightedDraws(Weights(h))))
               [] strategy = "latency-adaptive" ->
                    One(Sampled(adaptive, AdaptiveDraws(adaptive)))
               [] strategy = "redundant" ->
                    {[i \in DOMAIN h |-> h[i].id]}

----------------------------------------------------------------------------
VARIABLES
    table,      \* Engine::links
    strategy,   \* Engine::strategy, by name
    cursor,     \* RoundRobin::next of the current strategy object
    counter,    \* the session's send_counter
    loaded,     \* the strategy object Engine::schedule holds: its name, its
                \* cursor, and whether it still is the current one
    rest,       \* links the frame in hand has still to be sent on
    wire,       \* <<link, seq>> of every frame sent
    window,     \* the receiver's AntiReplayWindow
    metrics,    \* PipelineMetrics of both ends, as far as this path moves them
    swaps,      \* swaps so far
    accepts,    \* history: how often each packet reached the receiver's TUN
    log,        \* history: strategy and healthy links each packet met
    failed,     \* history: <<link, seq>> whose send_to returned an error
    picks,      \* history: packets per link since the last swap
    wraps       \* history: breaks of the round since then, see Broken

vars == <<table, strategy, cursor, counter, loaded, rest, wire, window, metrics,
          swaps, accepts, log, failed, picks, wraps>>

NoStrategy == [name |-> "none", cursor |-> 0, current |-> FALSE]

\* What nothing but the engine and the two pipeline stages touches.
Engine == <<table, strategy, cursor, swaps>>
Receiver == <<window, accepts>>

Init ==
    /\ table = Table
    /\ strategy \in Strategy
    /\ cursor = 0
    /\ counter = 0
    /\ loaded = NoStrategy
    /\ rest = << >>
    /\ wire = {}
    /\ window = new
    /\ metrics = [packets_sent |-> 0, replay_drops |-> 0]
    /\ swaps = 0
    /\ accepts = [s \in SeqNo |-> 0]
    /\ log = << >>
    /\ failed = {}
    /\ picks = [l \in LinkIds |-> 0]
    /\ wraps = 0

----------------------------------------------------------------------------
(* forward_tun_to_udp_bonded.  The packet is sealed; Engine::schedule      *)
(* clones the strategy under one lock and the table under another; then    *)
(* one frame after the other is sent, and the first error ends the call.   *)

\* For the history: the links whose flag is up.
UpIds == {table[i].id : i \in Up(table)}

\* Scores nobody has published count as one default weight each.
DefaultScores == [l \in LinkIds |-> 1]

seal ==
    /\ rest = << >>
    /\ loaded = NoStrategy
    /\ counter \in SeqNo
    /\ counter' = counter + 1
    /\ loaded' = [name |-> strategy, cursor |-> cursor, current |-> TRUE]
    /\ UNCHANGED <<Engine, rest, wire, failed, metrics, Receiver, log, picks, wraps>>

(***************************************************************************)
(* encrypt_packet has taken a number, and then the call returns an error:  *)
(* the ciphertext is longer than a frame or than the scratch buffer, or    *)
(* the number than the header's field.                                     *)
(***************************************************************************)
seal_refused ==
    /\ rest = << >>
    /\ loaded = NoStrategy
    /\ counter \in SeqNo
    /\ counter' = counter + 1
    /\ log' = Append(log, [strategy |-> "refused", healthy |-> {}])
    /\ UNCHANGED <<Engine, loaded, rest, wire, failed, metrics, Receiver, picks, wraps>>

\* Variant: the cursor moves by two.
NextCursor_two == IF loaded.name = "round-robin" THEN (cursor + 2) % Usize ELSE cursor

\* fetch_add wraps around.
NextCursor == IF loaded.name = "round-robin" THEN (cursor + 1) % Usize ELSE cursor

\* For the history: the cursor wraps around in the middle of a round, since the
\* healthy links do not divide the values of a usize.
Broken ==
    /\ loaded.name = "round-robin"
    /\ cursor + 1 = Usize
    /\ Usize % Cardinality(Up(table)) # 0

(***************************************************************************)
(* The held strategy object picks from the table of this moment.  If it    *)
(* was swapped out in between, its own cursor is gone with it.             *)
(***************************************************************************)
schedule_links ==
    /\ loaded # NoStrategy
    /\ \E selection \in schedule(loaded.name, table, loaded.cursor, DefaultScores) :
          /\ rest' = selection
          /\ picks' = [l \in LinkIds |->
                          IF loaded.current /\ l \in Range(selection)
                          THEN picks[l] + 1 ELSE picks[l]]
          /\ cursor' = IF selection = << >> \/ ~loaded.current
                       THEN cursor ELSE NextCursor
          /\ wraps' = IF selection # << >> /\ loaded.current /\ Broken
                      THEN wraps + 1 ELSE wraps
    /\ log' = Append(log, [strategy |-> loaded.name,
                           healthy |-> UpIds])
    /\ loaded' = NoStrategy
    /\ UNCHANGED <<table, strategy, swaps, counter, wire, failed, metrics,
                   Receiver>>

\* The sequence number of the frame in hand.
SeqInHand == counter - 1

\* get_sock returned None: continue with the next link.
skip_link ==
    /\ rest # << >>
    /\ Head(rest) \notin Sockets
    /\ rest' = Tail(rest)
    /\ UNCHANGED <<Engine, counter, loaded, wire, metrics, Receiver, log,
                   failed, picks, wraps>>

\* Variant: the first link that takes the frame is enough.
send_to_first ==
    /\ rest # << >>
    /\ Head(rest) \in Sockets
    /\ wire' = wire \cup {<<Head(rest), SeqInHand>>}
    /\ metrics' = [metrics EXCEPT !.packets_sent = @ + 1]
    /\ rest' = << >>
    /\ UNCHANGED <<Engine, counter, loaded, Receiver, log, failed, picks, wraps>>

send_to ==
    /\ rest # << >>
    /\ Head(rest) \in Sockets
    /\ wire' = wire \cup {<<Head(rest), SeqInHand>>}
    /\ metrics' = [metrics EXCEPT !.packets_sent = @ + 1]
    /\ rest' = Tail(rest)
    /\ UNCHANGED <<Engine, counter, loaded, Receiver, log, failed, picks, wraps>>

\* The `?` on send_to leaves the remaining links without the frame.
send_to_fails ==
    /\ rest # << >>
    /\ Head(rest) \in Sockets
    /\ failed' = failed \cup {<<Head(rest), SeqInHand>>}
    /\ rest' = << >>
    /\ UNCHANGED <<Engine, counter, loaded, wire, metrics, Receiver, log, picks, wraps>>

----------------------------------------------------------------------------
(* The other threads: Engine::swap_strategy installs a new strategy object *)
(* (and a new cursor), Engine::update_link and apply_to_engine a new table *)
(* with one flag changed.                                                  *)

NoPicks == [l \in LinkIds |-> 0]

swap_strategy(s) ==
    /\ swaps < Swaps
    /\ swaps' = swaps + 1
    /\ strategy' = s
    /\ cursor' = 0
    /\ loaded' = [loaded EXCEPT !.current = FALSE]
    /\ picks' = NoPicks
    /\ wraps' = 0
    /\ UNCHANGED <<table, counter, rest, wire, metrics, Receiver, log, failed>>

swap_links(i) ==
    /\ swaps < Swaps
    /\ swaps' = swaps + 1
    /\ table' = [table EXCEPT ![i].healthy = ~@]
    /\ picks' = NoPicks
    /\ wraps' = 0
    /\ UNCHANGED <<strategy, cursor, counter, loaded, rest, wire, metrics,
                   Receiver, log, failed>>

----------------------------------------------------------------------------
(* forward_udp_to_tun_encrypted: any frame that was sent may arrive, any   *)
(* number of times.                                                        *)

Updated(w, seq) == Update(w, seq)

receive(frame) ==
    LET seq == frame[2]
    IN  /\ \/ /\ Check(window, seq) = "Ok"
              /\ window' = Updated(window, seq)
              /\ accepts' = [accepts EXCEPT ![seq] = @ + 1]
              /\ UNCHANGED metrics
           \/ /\ Check(window, seq) # "Ok"
              /\ metrics.replay_drops < MaxReplays
              /\ metrics' = [metrics EXCEPT !.replay_drops = @ + 1]
              /\ UNCHANGED <<window, accepts>>
        /\ UNCHANGED <<Engine, counter, loaded, rest, wire, log, failed, picks, wraps>>

Next ==
    \/ seal
    \/ seal_refused
    \/ schedule_links
    \/ skip_link
    \/ send_to
    \/ send_to_fails
    \/ \E s \in Strategy : swap_strategy(s)
    \/ \E i \in DOMAIN table : swap_links(i)
    \/ \E frame \in wire : receive(frame)

Spec == Init /\ [][Next]_vars

----------------------------------------------------------------------------

(***************************************************************************)
(* End to end, whatever is swapped meanwhile.  "The application sees the   *)
(* packet exactly once" (strategy.rs:336): copies of Redundant and of the  *)
(* network never reach the TUN twice.  A frame goes out only on links that *)
(* were healthy in the table its packet met, on one of them unless the     *)
(* strategy was redundant, and each send is counted.  A packet that is not *)
(* on the wire was refused after sealing, had no healthy link, met a send  *)
(* that failed or a link without a socket (outbound.rs:216-242, 263-271).  *)
(***************************************************************************)
AppSeesOnce == \A s \in SeqNo : accepts[s] <= 1

FanOut ==
    /\ metrics.packets_sent = Cardinality(wire)
    /\ \A f \in wire :
          LET entry == log[f[2] + 1]
          IN  /\ f[1] \in entry.healthy
              /\ entry.strategy # "redundant" =>
                    \A g \in wire \cup failed : g[2] = f[2] => g[1] = f[1]

LostForAReason ==
    \A s \in DOMAIN log :
        LET up == log[s].healthy
            sent == {l \in LinkIds : <<l, s - 1>> \in wire}
        IN  \/ rest # << >> /\ s = counter
            \/ log[s].strategy = "refused"
            \/ \E l \in LinkIds : <<l, s - 1>> \in failed
            \/ log[s].strategy = "redundant" /\ sent = up \cap Sockets
            \/ log[s].strategy # "redundant" /\ (sent # {} \/ up = {} \/ up \ Sockets # {})

EndToEnd == AppSeesOnce /\ FanOut /\ LostForAReason

(***************************************************************************)
(* Packets are shared out as configured.  "N packets sweep cleanly across  *)
(* N links" (strategy.rs:77-79): between two swaps round-robin gives no    *)
(* healthy link two packets more than another, wherever the cursor stood   *)
(* when the table changed, and one more for each time the cursor's usize   *)
(* wraps around where the links do not divide it.  ("Wrap-around at        *)
(* usize::MAX is fine thanks to the modulo", 109-110: every index is       *)
(* valid, but a link may get two packets running.)  "The empirical         *)
(* distribution converges to the configured weights" (143-148): of the     *)
(* numbers below the total, exactly as many lead to a healthy link as its  *)
(* weight says.                                                            *)
(***************************************************************************)
SharedOut ==
    /\ strategy = "round-robin" =>
           \A k, l \in UpIds : picks[k] <= picks[l] + 1 + wraps
    /\ LET weights == Weights(healthy(table))
       IN  \A i \in DOMAIN weights :
               Cardinality({pick \in WeightedDraws(weights) :
                               CumulativePick(weights, pick) = i}) = weights[i]

=============================================================================
