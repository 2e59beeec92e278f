------------------------------ MODULE Session ------------------------------
(***************************************************************************)
(* The two ends of one tunnel session (session/mod.rs): the Noise IK       *)
(* handshake, the data plane with its send counter and anti-replay window, *)
(* and the rekey that only the initiator starts.                           *)
(*                                                                         *)
(* The network loses, duplicates, reorders and damages: what was sent      *)
(* stays in a set from which it may be delivered any number of times or    *)
(* never.  A transport key is the pair <<i, r>> of the two ephemerals it   *)
(* was derived from, the i-th of the client and the r-th of the server.    *)
(* Each direction has its own key, so a packet also names its sender.      *)
(***************************************************************************)
EXTENDS AntiReplayWindow

CONSTANTS
    U64Max,         \* largest value of the send counter (u64::MAX)
    MaxInits,       \* bound on the client's message 1s
    MaxAccepts,     \* bound on the server's message 2s
    MaxSeals,       \* bound on encrypt_packet calls
    MaxDamaged      \* bound on the packets the network damages

ASSUME SessionAssumption ==
    /\ U64Max \in Nat
    /\ MaxSeq < U64Max
    /\ {MaxInits, MaxAccepts, MaxSeals, MaxDamaged} \subseteq Nat

VARIABLES
    session,    \* per peer: typestate, Established data and own ephemeral
    msg1s,      \* the client ephemerals sent in a message 1
    msg2s,      \* the <<i, r>> of every message 2 sent
    datagrams,  \* the data packets sent, and their damaged copies
    seals,      \* encrypt_packet calls so far
    sealed,     \* history: <<sender, key, seq>> of every AEAD seal
    reused,     \* history: some seal repeated an earlier one's key and nonce
    delivered,  \* history: <<receiver, packet>> of every plaintext returned
    repeated,   \* history: some plaintext was returned twice
    poisoned    \* history: peers whose window was moved by a packet that did
                \* not open

vars == <<session, msg1s, msg2s, datagrams, seals, sealed, reused, delivered,
          repeated, poisoned>>

Peers == {"client", "server"}

Keys == (0 .. MaxInits) \X (0 .. MaxAccepts)

NoKey == <<0, 0>>

(***************************************************************************)
(* The fields of Established.  Nothing on this path reads the age of a     *)
(* session (needs_rekey has no caller), so a rekey may begin at any time.  *)
(***************************************************************************)
Established == [key : Keys, send_counter : 0 .. U64Max,
                recv_window : Windows]

established_from_keys(key) ==
    [key |-> key, send_counter |-> 0, recv_window |-> new]

Init ==
    /\ session = [p \in Peers |->
                     [state |-> "Handshaking", hs |-> 0,
                      est |-> established_from_keys(NoKey)]]
    /\ msg1s = {}
    /\ msg2s = {}
    /\ datagrams = {}
    /\ seals = 0
    /\ sealed = {}
    /\ reused = FALSE
    /\ delivered = {}
    /\ repeated = FALSE
    /\ poisoned = {}

Data == <<datagrams, seals, sealed, reused, delivered, repeated>>

----------------------------------------------------------------------------
(* The handshake, for a fresh session and for a rekey alike.               *)

\* The session a peer owns is replaced by a fresh Established one.
Install(p, key) ==
    /\ session' = [session EXCEPT ![p].state = "Established", ![p].hs = 0,
                                  ![p].est = established_from_keys(key)]
    /\ poisoned' = poisoned \ {p}

\* advance(None) / advance_rekey(None) on the initiator.
write_message_1 ==
    LET i == Cardinality(msg1s) + 1
    IN  /\ session["client"].state \in {"Handshaking", "Rekeying"}
        /\ session["client"].hs = 0
        /\ i <= MaxInits
        /\ session' = [session EXCEPT !["client"].hs = i]
        /\ msg1s' = msg1s \cup {i}
        /\ UNCHANGED <<msg2s, poisoned, Data>>

(***************************************************************************)
(* advance(Some(msg1)) on a new responder.  Its owner keeps the newest     *)
(* session of a peer, as server_loop.rs does with its address map.  A copy *)
(* of a message 1 is answered like the first one, with a new ephemeral.    *)
(***************************************************************************)
accept_message_1(i) ==
    LET key == <<i, Cardinality(msg2s) + 1>>
    IN  /\ i \in msg1s
        /\ key \in Keys
        /\ msg2s' = msg2s \cup {key}
        /\ Install("server", key)
        /\ UNCHANGED <<msg1s, Data>>

(***************************************************************************)
(* advance(Some(msg2)) / advance_rekey(Some(msg2)) on the initiator.  Both *)
(* consume the session: when read_message_2 fails, nothing is left of it.  *)
(***************************************************************************)
read_message_2(m) ==
    /\ m \in msg2s
    /\ session["client"].state \in {"Handshaking", "Rekeying"}
    /\ session["client"].hs # 0
    /\ \/ /\ m[1] = session["client"].hs
          /\ Install("client", m)
       \/ /\ m[1] # session["client"].hs
          /\ session' = [session EXCEPT !["client"].state = "Failed"]
          /\ UNCHANGED poisoned
    /\ UNCHANGED <<msg1s, msg2s, Data>>

begin_rekey ==
    /\ session["client"].state = "Established"
    /\ session' = [session EXCEPT !["client"].state = "Rekeying"]
    /\ UNCHANGED <<msg1s, msg2s, poisoned, Data>>

close(p) ==
    /\ session[p].state = "Established"
    /\ session' = [session EXCEPT ![p].state = "Closed"]
    /\ UNCHANGED <<msg1s, msg2s, poisoned, Data>>

----------------------------------------------------------------------------
(* The data plane.                                                         *)

\* Variant: the counter stops at one.
NextCounter_saturating(seq) == IF seq < 1 THEN seq + 1 ELSE 1

\* fetch_add on an AtomicU64.
NextCounter(seq) == (seq + 1) % (U64Max + 1)

(***************************************************************************)
(* encrypt_packet, called by the outbound pipeline.  The counter moves     *)
(* before the overflow test, and a sequence number that does not fit the   *)
(* 32-bit header field is sealed but not sent (outbound.rs:226-231).       *)
(***************************************************************************)
encrypt_packet(p) ==
    LET est  == session[p].est
        seq  == est.send_counter
        seal == <<p, est.key, seq>>
    IN  /\ session[p].state = "Established"
        /\ seals < MaxSeals
        /\ seals' = seals + 1
        /\ session' = [session EXCEPT ![p].est.send_counter = NextCounter(seq)]
        /\ sealed' = IF seq = U64Max THEN sealed ELSE sealed \cup {seal}
        /\ reused' = (reused \/ (seq # U64Max /\ seal \in sealed))
        /\ datagrams' = IF seq > MaxSeq THEN datagrams
                        ELSE datagrams \cup {[from |-> p, key |-> est.key,
                                              seq |-> seq, intact |-> TRUE]}
        /\ UNCHANGED <<msg1s, msg2s, delivered, repeated, poisoned>>

\* Variant: the packet opens under any key of its sender.
Opens_any_key(est, d) == d.intact

\* open_in_place: key, nonce, associated data and tag must all match.
Opens(est, d) == d.intact /\ d.key = est.key

\* Variant: the window is only consulted, not updated.
WindowAfter_unmarked(w, seq) == w

WindowAfter(w, seq) == Update(w, seq)

(***************************************************************************)
(* decrypt_data on Established and decrypt_with_old on Rekeying: the       *)
(* window first, then the AEAD.                                            *)
(***************************************************************************)
decrypt_data(p, d) ==
    LET est == session[p].est
        ok  == Check(est.recv_window, d.seq) = "Ok"
    IN  /\ session[p].state \in {"Established", "Rekeying"}
        /\ d.from # p
        /\ ok
        /\ session' = [session EXCEPT ![p].est.recv_window = WindowAfter(@, d.seq)]
        /\ \/ /\ Opens(est, d)
              /\ delivered' = delivered \cup {<<p, d>>}
              /\ repeated' = (repeated \/ <<p, d>> \in delivered)
              /\ UNCHANGED poisoned
           \/ /\ ~Opens(est, d)
              /\ poisoned' = poisoned \cup {p}
              /\ UNCHANGED <<delivered, repeated>>
        /\ UNCHANGED <<msg1s, msg2s, datagrams, seals, sealed, reused>>

----------------------------------------------------------------------------
(* The network.                                                            *)

damage(d) ==
    /\ d.intact
    /\ Cardinality({e \in datagrams : ~e.intact}) < MaxDamaged
    /\ datagrams' = datagrams \cup {[d EXCEPT !.intact = FALSE]}
    /\ UNCHANGED <<session, msg1s, msg2s, seals, sealed, reused, delivered,
                   repeated, poisoned>>

Next ==
    \/ write_message_1
    \/ \E i \in msg1s : accept_message_1(i)
    \/ \E m \in msg2s : read_message_2(m)
    \/ begin_rekey
    \/ \E p \in Peers : close(p)
    \/ \E p \in Peers : encrypt_packet(p)
    \/ \E p \in Peers, d \in datagrams : decrypt_data(p, d)
    \/ \E d \in datagrams : damage(d)

Spec == Init /\ [][Next]_vars

----------------------------------------------------------------------------

(***************************************************************************)
(* As long as the counter does not wrap, no key ever seals two packets     *)
(* under one nonce, over any number of handshakes, repeated message 1s and *)
(* abandoned rekeys: a fresh counter always comes with a fresh key.        *)
(***************************************************************************)
NonceUsedOnce == MaxSeals <= U64Max => ~reused

(***************************************************************************)
(* A packet is handed to the TUN at most once per receiver, however often  *)
(* the network delivers it, and although every handshake and rekey starts  *)
(* with an empty anti-replay window.                                       *)
(***************************************************************************)
DeliveredOnce == ~repeated

(***************************************************************************)
(* A genuine packet under the current key is turned away only as a copy of *)
(* a delivered one or because WINDOW_SIZE later ones were ahead of it,     *)
(* unless the window was moved by a packet that failed to open.            *)
(***************************************************************************)
GenuineAccepted ==
    \A p \in Peers \ poisoned, d \in datagrams :
        LET w == session[p].est.recv_window
        IN  /\ session[p].state \in {"Established", "Rekeying"}
            /\ d.from # p
            /\ Opens(session[p].est, d)
            /\ Check(w, d.seq) # "Ok"
            => \/ <<p, d>> \in delivered
               \/ \E e \in datagrams : /\ <<p, e>> \in delivered
                                       /\ e.key = d.key
                                       /\ d.seq + WINDOW_SIZE <= e.seq

(***************************************************************************)
(* session/mod.rs:346-348: replays are refused "without touching the AEAD. *)
(* Successful opens update the window."                                    *)
(***************************************************************************)
OnlyOpensMoveTheWindow == poisoned = {}

============================================================================
