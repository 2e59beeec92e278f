--------------------------- MODULE SessionProofs ---------------------------
(***************************************************************************)
(* Nonces, replays and refusals of a session, for any number of            *)
(* handshakes, any window width and any header width; and the server's     *)
(* table of sessions and its rate limiter, for any clients, ids and clock. *)
(*                                                                         *)
(* The three invariants of a session rest on one fact: a key is installed  *)
(* at most once at each end.  The server derives each of its keys from a   *)
(* new ephemeral; the client uses up its ephemeral when it reads a message *)
(* 2, so that no key of an earlier handshake can come back.  A fresh       *)
(* counter and a fresh window therefore only ever meet a fresh key.        *)
(***************************************************************************)
EXTENDS Session, Server, FiniteSetTheorems

\* The typestates and what they hold.
SessionStates == {"Handshaking", "Established", "Rekeying", "Closed", "Failed"}

EstRecords == [key : Nat \X Nat, send_counter : Nat, recv_window : Windows]

SessionRecords == [state : SessionStates, hs : Nat, est : EstRecords]

\* The typestates that hold transport keys.
Keyed(p) == session[p].state \in {"Established", "Rekeying"}

\* Types, and where the history variables get their keys from.
SessionTypes ==
    /\ session \in [Peers -> SessionRecords]
    /\ msg1s \subseteq Nat \ {0}
    /\ msg2s \subseteq msg1s \X Nat
    /\ datagrams \subseteq [from : Peers, key : msg2s, seq : SeqNo, intact : BOOLEAN]
    /\ seals \in Nat
    /\ sealed \subseteq Peers \X msg2s \X Nat
    /\ reused \in BOOLEAN
    /\ delivered \subseteq Peers \X datagrams
    /\ repeated \in BOOLEAN
    /\ poisoned \subseteq Peers

\* Ephemerals are numbered in the order they are drawn.
EphemeralsFresh ==
    /\ IsFiniteSet(msg1s) /\ \A i \in msg1s : i <= Cardinality(msg1s)
    /\ IsFiniteSet(msg2s) /\ \A m \in msg2s : m[2] <= Cardinality(msg2s)

\* The ephemeral of the client's open handshake has derived no key of its own.
HandshakeFresh ==
    /\ \A p \in Peers : Keyed(p) => session[p].est.key \in msg2s
    /\ session["client"].state = "Established" => session["client"].hs = 0
    /\ session["client"].hs # 0 =>
          /\ session["client"].hs \in msg1s
          /\ Keyed("client") => session["client"].est.key[1] # session["client"].hs
          /\ \A k \in msg2s, n \in Nat :
                <<"client", k, n>> \in sealed => k[1] # session["client"].hs
          /\ \A d \in datagrams :
                <<"client", d>> \in delivered => d.key[1] # session["client"].hs

\* The counter is ahead of every nonce used with the current key.
CounterAhead ==
    MaxSeals <= U64Max =>
        /\ ~reused
        /\ \A p \in Peers : session[p].est.send_counter <= seals
        /\ \A p \in Peers : Keyed(p) =>
              \A n \in Nat : <<p, session[p].est.key, n>> \in sealed =>
                                 n < session[p].est.send_counter

\* The window refuses every packet delivered under the current key.
WindowRemembers ==
    /\ ~repeated
    /\ \A p \in Peers, d \in datagrams :
          <<p, d>> \in delivered =>
              /\ d.intact /\ d.from # p
              /\ Keyed(p) /\ d.key = session[p].est.key =>
                    Check(session[p].est.recv_window, d.seq) # "Ok"

\* The numbers of the packets delivered to p under its current key.
DeliveredSeqs(p) ==
    {d.seq : d \in {e \in datagrams : /\ <<p, e>> \in delivered
                                      /\ e.key = session[p].est.key}}

\* The window of p shows only what was delivered.
HonestAt(p) ==
    Keyed(p) =>
        /\ Marks(session[p].est.recv_window) \subseteq DeliveredSeqs(p)
        /\ session[p].est.recv_window.initialised =>
              session[p].est.recv_window.highest \in DeliveredSeqs(p)

\* Only a packet that failed to open can make a window say more than that.
WindowHonest == \A p \in Peers \ poisoned : HonestAt(p)

\* The inductive invariant.
SessionInv == /\ SessionTypes
              /\ EphemeralsFresh
              /\ HandshakeFresh
              /\ CounterAhead
              /\ WindowRemembers
              /\ WindowHonest

\* fetch_add on the counter stays a counter, and below its limit it counts.
LEMMA CounterCounts ==
    ASSUME NEW seq \in Nat
    PROVE  /\ NextCounter(seq) \in Nat
           /\ seq < U64Max => NextCounter(seq) = seq + 1
  BY SessionAssumption DEF NextCounter

\* Before the first message there is nothing to remember.
LEMMA SessionInitInv == Init => SessionInv
  <1> SUFFICES ASSUME Init PROVE SessionInv
    BY Zenon
  <1> USE DEF Init
  <1>1. new \in Windows /\ Marks(new) = {} /\ ~new.initialised
    BY AntiReplayAssumption DEF new, Windows, SeqNo, Marks
  <1>2. established_from_keys(NoKey) \in EstRecords
    BY Zenon, <1>1 DEF established_from_keys, EstRecords, NoKey
  <1>3. SessionTypes
    BY Zenon, <1>2 DEF SessionTypes, SessionRecords, SessionStates
  <1>4. EphemeralsFresh
    BY Zenon, FS_EmptySet DEF EphemeralsFresh
  <1>5. \A p \in Peers : ~Keyed(p) /\ session[p].hs = 0 /\ session[p].est.send_counter = 0
    BY Zenon DEF Keyed, established_from_keys
  <1>6. HandshakeFresh /\ CounterAhead /\ WindowRemembers /\ WindowHonest
    BY <1>5 DEF HandshakeFresh, CounterAhead, WindowRemembers, WindowHonest, HonestAt, Peers
  <1> QED
    BY Zenon, <1>3, <1>4, <1>6 DEF SessionInv

\* What the window of p shows stays true while its keys stay and deliveries
\* only accumulate.
LEMMA HonestStays ==
    ASSUME NEW p \in Peers, HonestAt(p), Keyed(p)' => Keyed(p),
           session'[p].est.key = session[p].est.key,
           session'[p].est.recv_window = session[p].est.recv_window,
           datagrams \subseteq datagrams', delivered \subseteq delivered'
    PROVE  HonestAt(p)'
  <1>1. DeliveredSeqs(p) \subseteq DeliveredSeqs(p)'
    BY Zenon DEF DeliveredSeqs
  <1> QED
    BY Zenon, <1>1 DEF HonestAt

\* A step that leaves keys, counters and windows alone keeps what is known
\* of them, also when packets are added to the network.
LEMMA QuietStep ==
    ASSUME SessionInv,
           \A p \in Peers : session'[p].est = session[p].est,
           \A p \in Peers : Keyed(p)' => Keyed(p),
           datagrams \subseteq datagrams',
           UNCHANGED <<seals, sealed, reused, delivered, repeated, poisoned>>
    PROVE  CounterAhead' /\ WindowRemembers' /\ WindowHonest'
  <1>1. CounterAhead'
    BY Zenon DEF SessionInv, CounterAhead
  <1>2. WindowRemembers'
    BY Zenon DEF SessionInv, SessionTypes, WindowRemembers
  <1>3. WindowHonest'
    BY Zenon, HonestStays DEF SessionInv, WindowHonest
  <1> QED
    BY Zenon, <1>1, <1>2, <1>3

\* advance(None): the ephemeral is new, so no key has been derived from it.
LEMMA WriteKeepsInv == SessionInv /\ write_message_1 => SessionInv'
  <1> SUFFICES ASSUME SessionInv, write_message_1 PROVE SessionInv'
    BY Zenon
  <1> DEFINE i == Cardinality(msg1s) + 1
  <1>1. /\ session["client"].hs = 0
        /\ session["client"].state \in {"Handshaking", "Rekeying"}
        /\ session' = [session EXCEPT !["client"].hs = i]
        /\ msg1s' = msg1s \cup {i}
        /\ UNCHANGED <<msg2s, poisoned, datagrams, seals, sealed, reused, delivered, repeated>>
    BY Zenon DEF write_message_1, Data
  <1>2. Cardinality(msg1s) \in Nat /\ i \in Nat \ {0}
    BY FS_CardinalityType DEF SessionInv, EphemeralsFresh
  <1>3. i \notin msg1s
    BY <1>2 DEF SessionInv, EphemeralsFresh
  <1>4. IsFiniteSet(msg1s') /\ Cardinality(msg1s') = i
    BY Zenon, <1>1, <1>3, FS_AddElement DEF SessionInv, EphemeralsFresh
  <1> HIDE DEF i
  <1>5. /\ \A p \in Peers : session'[p].est = session[p].est /\ session'[p].state = session[p].state
        /\ session'["client"].hs = i
    BY Zenon, <1>1 DEF SessionInv, SessionTypes, SessionRecords, Peers
  <1>6. SessionTypes'
    <2>1. session' \in [Peers -> SessionRecords]
      BY <1>1, <1>2 DEF SessionInv, SessionTypes, SessionRecords, Peers
    <2> QED
      BY Zenon, <1>1, <1>2, <2>1 DEF SessionInv, SessionTypes
  <1>7. EphemeralsFresh'
    <2>1. \A j \in msg1s : j <= i
      BY <1>2 DEF SessionInv, SessionTypes, EphemeralsFresh, i
    <2> QED
      BY <1>1, <1>2, <1>4, <2>1 DEF SessionInv, EphemeralsFresh
  <1>8. HandshakeFresh'
    <2>1. \A m \in msg2s : m[1] # i
      BY Zenon, <1>3 DEF SessionInv, SessionTypes
    <2>2. \A d \in datagrams : d.key[1] # i
      BY Zenon, <2>1 DEF SessionInv, SessionTypes
    <2>3. \A p \in Peers : Keyed(p)' <=> Keyed(p)
      BY Zenon, <1>5 DEF Keyed
    <2>4. Keyed("client") => session["client"].est.key[1] # i
      BY Zenon, <2>1 DEF SessionInv, HandshakeFresh, Peers
    <2>5. session'["client"].state # "Established"
      BY Zenon, <1>1, <1>5 DEF Peers
    <2> QED
      BY <1>1, <1>5, <2>1, <2>2, <2>3, <2>4, <2>5 DEF SessionInv, HandshakeFresh, Peers
  <1>9. CounterAhead' /\ WindowRemembers' /\ WindowHonest'
    <2>1. \A p \in Peers : Keyed(p)' => Keyed(p)
      BY Zenon, <1>5 DEF Keyed
    <2> QED
      BY Zenon, <1>1, <1>5, <2>1, QuietStep
  <1> QED
    BY Zenon, <1>6, <1>7, <1>8, <1>9 DEF SessionInv

\* A session that starts over with a key its owner never used: the fresh
\* counter and the fresh window contradict nothing.
LEMMA InstallKeeps ==
    ASSUME SessionInv, NEW p \in Peers, NEW key \in Nat \X Nat, Install(p, key),
           \A n \in Nat : <<p, key, n>> \notin sealed,
           \A d \in datagrams : <<p, d>> \in delivered => d.key # key,
           UNCHANGED Data
    PROVE  /\ session' \in [Peers -> SessionRecords]
           /\ poisoned' \subseteq Peers
           /\ session'[p] = [state |-> "Established", hs |-> 0,
                             est |-> established_from_keys(key)]
           /\ \A q \in Peers \ {p} : session'[q] = session[q]
           /\ CounterAhead' /\ WindowRemembers' /\ WindowHonest'
  <1> DEFINE est == established_from_keys(key)
  <1>1. est.key = key /\ est.send_counter = 0 /\ est.recv_window = new
    BY Zenon DEF established_from_keys
  <1>2. new \in Windows /\ Marks(new) = {} /\ ~new.initialised
    BY AntiReplayAssumption DEF new, Windows, SeqNo, Marks
  <1>3. est \in EstRecords
    BY Zenon, <1>2 DEF established_from_keys, EstRecords
  <1> HIDE DEF est
  <1>4. session \in [Peers -> SessionRecords]
    BY Zenon DEF SessionInv, SessionTypes
  <1>5. session' = [session EXCEPT ![p].state = "Established", ![p].hs = 0, ![p].est = est]
    BY Zenon DEF Install, est
  <1>6. session'[p] = [state |-> "Established", hs |-> 0, est |-> est]
    BY Zenon, <1>4, <1>5 DEF SessionRecords
  <1>7. \A q \in Peers \ {p} : session'[q] = session[q]
    BY Zenon, <1>4, <1>5
  <1>8. session' \in [Peers -> SessionRecords]
    BY <1>3, <1>4, <1>5, <1>6, <1>7 DEF SessionRecords, SessionStates
  <1>9. /\ poisoned' = poisoned \ {p}
        /\ UNCHANGED <<datagrams, seals, sealed, reused, delivered, repeated>>
        /\ seals \in Nat
    BY Zenon DEF Install, Data, SessionInv, SessionTypes
  <1>10. \A q \in Peers \ {p} : Keyed(q)' <=> Keyed(q)
    BY Zenon, <1>7 DEF Keyed
  <1>11. CounterAhead'
    BY <1>1, <1>6, <1>7, <1>9, <1>10 DEF SessionInv, CounterAhead
  <1>12. WindowRemembers'
    BY <1>1, <1>6, <1>7, <1>9, <1>10 DEF SessionInv, WindowRemembers
  <1>13. WindowHonest'
    <2> SUFFICES ASSUME NEW q \in Peers, q \notin poisoned' PROVE HonestAt(q)'
      BY Zenon DEF WindowHonest
    <2>1. CASE q = p
      BY <1>1, <1>2, <1>6, <2>1 DEF HonestAt
    <2>2. CASE q # p
      <3>1. HonestAt(q)
        BY Zenon, <1>9, <2>2 DEF SessionInv, WindowHonest
      <3> QED
        BY Zenon, <1>7, <1>9, <1>10, <2>2, <3>1, HonestStays
    <2> QED
      BY Zenon, <2>1, <2>2
  <1> QED
    BY Zenon, <1>6, <1>7, <1>8, <1>9, <1>11, <1>12, <1>13 DEF est, SessionInv, SessionTypes

\* advance(Some(msg1)): the responder's ephemeral makes the key a new one.
LEMMA AcceptKeepsInv ==
    ASSUME SessionInv, NEW i \in msg1s, accept_message_1(i)
    PROVE  SessionInv'
  <1> DEFINE key == <<i, Cardinality(msg2s) + 1>>
  <1>1. /\ msg2s' = msg2s \cup {key}
        /\ Install("server", key)
        /\ UNCHANGED <<msg1s, Data>>
    BY Zenon DEF accept_message_1
  <1>2. UNCHANGED <<datagrams, seals, sealed, reused, delivered, repeated>>
    BY Zenon, <1>1 DEF Data
  <1>3. Cardinality(msg2s) \in Nat
    BY Zenon, FS_CardinalityType DEF SessionInv, EphemeralsFresh
  <1>4. key \in Nat \X Nat /\ key[1] = i /\ key[2] = Cardinality(msg2s) + 1
    BY <1>3 DEF SessionInv, SessionTypes
  <1> HIDE DEF key
  <1>5. key \notin msg2s
    BY <1>3, <1>4 DEF SessionInv, EphemeralsFresh
  <1>6. IsFiniteSet(msg2s') /\ Cardinality(msg2s') = Cardinality(msg2s) + 1
    BY Zenon, <1>1, <1>5, FS_AddElement DEF SessionInv, EphemeralsFresh
  <1>7. /\ \A n \in Nat : <<"server", key, n>> \notin sealed
        /\ \A d \in datagrams : d.key # key
    BY Zenon, <1>5 DEF SessionInv, SessionTypes
  <1>8. /\ session' \in [Peers -> SessionRecords] /\ poisoned' \subseteq Peers
        /\ session'["server"] = [state |-> "Established", hs |-> 0,
                                 est |-> established_from_keys(key)]
        /\ session'["client"] = session["client"]
        /\ CounterAhead' /\ WindowRemembers' /\ WindowHonest'
    BY Zenon, <1>1, <1>4, <1>7, InstallKeeps DEF Peers
  <1>9. SessionTypes'
    <2>1. msg2s' \subseteq msg1s' \X Nat
      BY <1>1, <1>3 DEF SessionInv, SessionTypes, key
    <2>2. datagrams' \subseteq [from : Peers, key : msg2s', seq : SeqNo, intact : BOOLEAN]
      BY Zenon, <1>1, <1>2 DEF SessionInv, SessionTypes
    <2>3. sealed' \subseteq Peers \X msg2s' \X Nat
      BY Zenon, <1>1, <1>2 DEF SessionInv, SessionTypes
    <2> QED
      BY Zenon, <1>1, <1>2, <1>8, <2>1, <2>2, <2>3 DEF SessionInv, SessionTypes
  <1>10. EphemeralsFresh'
    <2>1. \A m \in msg2s : m[2] \in Nat
      BY Zenon DEF SessionInv, SessionTypes
    <2>2. \A m \in msg2s : m[2] <= Cardinality(msg2s)
      BY Zenon DEF SessionInv, EphemeralsFresh
    <2>3. \A m \in msg2s' : m[2] <= Cardinality(msg2s) + 1
      BY <1>1, <1>3, <1>4, <2>1, <2>2
    <2> QED
      BY Zenon, <1>1, <1>6, <2>3 DEF SessionInv, EphemeralsFresh
  <1>11. HandshakeFresh'
    <2>1. Keyed("client")' <=> Keyed("client")
      BY Zenon, <1>8 DEF Keyed
    <2>2. session'["server"].est.key = key
      BY <1>8 DEF established_from_keys
    <2>3. \A k \in msg2s', n \in Nat : <<"client", k, n>> \in sealed => k \in msg2s
      BY Zenon DEF SessionInv, SessionTypes
    <2> QED
      BY Zenon, <1>1, <1>2, <1>8, <2>1, <2>2, <2>3 DEF SessionInv, HandshakeFresh, Peers
  <1> QED
    BY Zenon, <1>8, <1>9, <1>10, <1>11 DEF SessionInv

\* advance(Some(msg2)) and advance_rekey(Some(msg2)): the client used up the
\* ephemeral of this key only now.
LEMMA ReadKeepsInv ==
    ASSUME SessionInv, NEW m \in msg2s, read_message_2(m)
    PROVE  SessionInv'
  <1>1. /\ session["client"].state \in {"Handshaking", "Rekeying"}
        /\ session["client"].hs # 0
        /\ UNCHANGED <<msg1s, msg2s, Data>>
        /\ UNCHANGED <<datagrams, seals, sealed, reused, delivered, repeated>>
    BY Zenon DEF read_message_2, Data
  <1>2. EphemeralsFresh'
    BY Zenon, <1>1 DEF SessionInv, EphemeralsFresh
  <1>3. m \in Nat \X Nat
    BY Zenon DEF SessionInv, SessionTypes
  <1>4. CASE m[1] = session["client"].hs
    <2>1. Install("client", m)
      BY Zenon, <1>4 DEF read_message_2
    <2>2. /\ \A n \in Nat : <<"client", m, n>> \notin sealed
          /\ \A d \in datagrams : <<"client", d>> \in delivered => d.key # m
      BY Zenon, <1>1, <1>4 DEF SessionInv, HandshakeFresh
    <2>3. /\ session' \in [Peers -> SessionRecords] /\ poisoned' \subseteq Peers
          /\ session'["client"] = [state |-> "Established", hs |-> 0,
                                   est |-> established_from_keys(m)]
          /\ session'["server"] = session["server"]
          /\ CounterAhead' /\ WindowRemembers' /\ WindowHonest'
      BY Zenon, <1>1, <1>3, <2>1, <2>2, InstallKeeps DEF Peers
    <2>4. SessionTypes'
      BY Zenon, <1>1, <2>3 DEF SessionInv, SessionTypes
    <2>5. HandshakeFresh'
      <3>1. Keyed("server")' <=> Keyed("server")
        BY Zenon, <2>3 DEF Keyed
      <3>2. session'["client"].est.key = m /\ session'["client"].hs = 0
        BY <2>3 DEF established_from_keys
      <3> QED
        BY Zenon, <1>1, <2>3, <3>1, <3>2 DEF SessionInv, HandshakeFresh, Peers
    <2> QED
      BY Zenon, <1>2, <2>3, <2>4, <2>5 DEF SessionInv
  <1>5. CASE m[1] # session["client"].hs
    <2>1. /\ session' = [session EXCEPT !["client"].state = "Failed"]
          /\ UNCHANGED poisoned
      BY Zenon, <1>5 DEF read_message_2
    <2>2. /\ session' \in [Peers -> SessionRecords]
          /\ \A p \in Peers : session'[p].est = session[p].est /\ session'[p].hs = session[p].hs
          /\ session'["client"].state = "Failed"
          /\ session'["server"] = session["server"]
      BY Zenon, <2>1 DEF SessionInv, SessionTypes, SessionRecords, SessionStates, Peers
    <2>3. /\ \A p \in Peers : Keyed(p)' => Keyed(p)
          /\ ~Keyed("client")'
      BY Zenon, <2>2 DEF Keyed, Peers
    <2>4. SessionTypes'
      BY Zenon, <1>1, <2>1, <2>2 DEF SessionInv, SessionTypes
    <2>5. HandshakeFresh'
      BY Zenon, <1>1, <2>2, <2>3 DEF SessionInv, HandshakeFresh, Peers
    <2>6. CounterAhead' /\ WindowRemembers' /\ WindowHonest'
      BY Zenon, <1>1, <2>1, <2>2, <2>3, QuietStep
    <2> QED
      BY Zenon, <1>2, <2>4, <2>5, <2>6 DEF SessionInv
  <1> QED
    BY Zenon, <1>4, <1>5

\* begin_rekey and close change the typestate only.
LEMMA StateStepKeepsInv ==
    ASSUME SessionInv, NEW p \in Peers, NEW to \in {"Rekeying", "Closed"},
           session[p].state = "Established",
           session' = [session EXCEPT ![p].state = to],
           UNCHANGED <<msg1s, msg2s, poisoned, Data>>
    PROVE  SessionInv'
  <1>1. UNCHANGED <<datagrams, seals, sealed, reused, delivered, repeated>>
    BY Zenon DEF Data
  <1>2. /\ session' \in [Peers -> SessionRecords]
        /\ \A q \in Peers : session'[q].est = session[q].est /\ session'[q].hs = session[q].hs
        /\ session'[p].state = to
        /\ \A q \in Peers \ {p} : session'[q].state = session[q].state
    BY Zenon DEF SessionInv, SessionTypes, SessionRecords, SessionStates
  <1>3. \A q \in Peers : Keyed(q)' => Keyed(q)
    BY Zenon, <1>2 DEF Keyed
  <1>4. SessionTypes' /\ EphemeralsFresh'
    BY Zenon, <1>1, <1>2 DEF SessionInv, SessionTypes, EphemeralsFresh
  <1>5. HandshakeFresh'
    <2>1. session'["client"].state = "Established" => session["client"].state = "Established"
      BY Zenon, <1>2 DEF Peers
    <2> QED
      BY <1>1, <1>2, <1>3, <2>1 DEF SessionInv, HandshakeFresh, Peers
  <1>6. CounterAhead' /\ WindowRemembers' /\ WindowHonest'
    BY Zenon, <1>1, <1>2, <1>3, QuietStep
  <1> QED
    BY Zenon, <1>4, <1>5, <1>6 DEF SessionInv

\* The network damages a copy: nobody has been given it.
LEMMA DamageKeepsInv ==
    ASSUME SessionInv, NEW d \in datagrams, damage(d)
    PROVE  SessionInv'
  <1>1. /\ datagrams' = datagrams \cup {[d EXCEPT !.intact = FALSE]}
        /\ UNCHANGED <<session, msg1s, msg2s, seals, sealed, reused, delivered, repeated, poisoned>>
    BY Zenon DEF damage
  <1>2. SessionTypes'
    <2>1. [d EXCEPT !.intact = FALSE] \in [from : Peers, key : msg2s, seq : SeqNo, intact : BOOLEAN]
      BY Zenon DEF SessionInv, SessionTypes
    <2>2. datagrams' \subseteq [from : Peers, key : msg2s', seq : SeqNo, intact : BOOLEAN]
      BY Zenon, <1>1, <2>1 DEF SessionInv, SessionTypes
    <2>3. delivered' \subseteq Peers \X datagrams'
      BY Zenon, <1>1 DEF SessionInv, SessionTypes
    <2> QED
      BY Zenon, <1>1, <2>2, <2>3 DEF SessionInv, SessionTypes
  <1>3. EphemeralsFresh'
    BY Zenon, <1>1 DEF SessionInv, EphemeralsFresh
  <1>4. \A q \in Peers : Keyed(q)' <=> Keyed(q)
    BY Zenon, <1>1 DEF Keyed
  <1>5. HandshakeFresh'
    <2>1. \A e \in datagrams' : <<"client", e>> \in delivered => e \in datagrams
      BY Zenon DEF SessionInv, SessionTypes
    <2> QED
      BY Zenon, <1>1, <1>4, <2>1 DEF SessionInv, HandshakeFresh, Peers
  <1>6. CounterAhead' /\ WindowRemembers' /\ WindowHonest'
    BY Zenon, <1>1, <1>4, QuietStep
  <1> QED
    BY Zenon, <1>2, <1>3, <1>5, <1>6 DEF SessionInv

\* encrypt_packet: the nonce is ahead of all others of this key.
LEMMA EncryptKeepsInv ==
    ASSUME SessionInv, NEW p \in Peers, encrypt_packet(p)
    PROVE  SessionInv'
  <1> DEFINE est  == session[p].est
             seq  == est.send_counter
             next == NextCounter(seq)
             pkt  == [from |-> p, key |-> est.key, seq |-> seq, intact |-> TRUE]
  <1>1. /\ session[p].state = "Established" /\ seals < MaxSeals /\ seals' = seals + 1
        /\ session' = [session EXCEPT ![p].est.send_counter = next]
        /\ sealed' = IF seq = U64Max THEN sealed ELSE sealed \cup {<<p, est.key, seq>>}
        /\ reused' = (reused \/ (seq # U64Max /\ <<p, est.key, seq>> \in sealed))
        /\ datagrams' = IF seq > MaxSeq THEN datagrams ELSE datagrams \cup {pkt}
        /\ UNCHANGED <<msg1s, msg2s, delivered, repeated, poisoned>>
    BY Zenon DEF encrypt_packet
  <1>2. /\ session \in [Peers -> SessionRecords] /\ seals \in Nat
        /\ seq \in Nat /\ est.key \in msg2s /\ Keyed(p)
    BY Zenon, <1>1 DEF SessionInv, SessionTypes, SessionRecords, EstRecords, HandshakeFresh, Keyed
  <1>3. next \in Nat /\ (seq < U64Max => next = seq + 1)
    BY Zenon, <1>2, CounterCounts
  <1> HIDE DEF next
  <1>4. /\ session'[p].state = session[p].state /\ session'[p].hs = session[p].hs
        /\ session'[p].est.key = est.key /\ session'[p].est.recv_window = est.recv_window
        /\ session'[p].est.send_counter = next
        /\ \A q \in Peers \ {p} : session'[q] = session[q]
    BY Zenon, <1>1, <1>2 DEF SessionRecords, EstRecords
  <1>5. session' \in [Peers -> SessionRecords]
    BY <1>1, <1>2, <1>3 DEF SessionRecords, EstRecords
  <1>6. \A q \in Peers : Keyed(q)' <=> Keyed(q)
    BY Zenon, <1>4 DEF Keyed
  <1>7. datagrams \subseteq datagrams' /\ sealed \subseteq sealed'
    BY Zenon, <1>1
  <1>8. SessionTypes'
    <2>1. seq <= MaxSeq => pkt \in [from : Peers, key : msg2s, seq : SeqNo, intact : BOOLEAN]
      BY <1>2, AntiReplayAssumption DEF SeqNo
    <2>2. datagrams' \subseteq [from : Peers, key : msg2s', seq : SeqNo, intact : BOOLEAN]
      <3> HIDE DEF pkt
      <3>1. datagrams' \subseteq datagrams \cup {pkt} /\ (seq > MaxSeq => datagrams' = datagrams)
        BY Zenon, <1>1
      <3>2. seq > MaxSeq \/ seq <= MaxSeq
        BY <1>2, AntiReplayAssumption
      <3> QED
        BY Zenon, <1>1, <2>1, <3>1, <3>2 DEF SessionInv, SessionTypes
    <2>3. sealed' \subseteq Peers \X msg2s' \X Nat
      BY <1>1, <1>2 DEF SessionInv, SessionTypes
    <2>4. reused' \in BOOLEAN
      BY Zenon, <1>1 DEF SessionInv, SessionTypes
    <2> QED
      BY SMTT(30), <1>1, <1>2, <1>5, <1>7, <2>2, <2>3, <2>4 DEF SessionInv, SessionTypes
  <1>9. EphemeralsFresh'
    BY Zenon, <1>1 DEF SessionInv, EphemeralsFresh
  <1>10. HandshakeFresh'
    <2>1. \A q \in Peers : /\ session'[q].est.key = session[q].est.key
                           /\ session'[q].hs = session[q].hs
                           /\ session'[q].state = session[q].state
      BY Zenon, <1>4
    <2>2. session["client"].hs # 0 => p # "client"
      BY Zenon, <1>1 DEF SessionInv, HandshakeFresh
    <2>3. \A k \in msg2s, n \in Nat :
             <<"client", k, n>> \in sealed' /\ p # "client" => <<"client", k, n>> \in sealed
      BY Zenon, <1>1
    <2>4. \A d \in datagrams' : <<"client", d>> \in delivered => d \in datagrams
      BY Zenon DEF SessionInv, SessionTypes
    <2> QED
      BY <1>1, <1>6, <2>1, <2>2, <2>3, <2>4 DEF SessionInv, HandshakeFresh, Peers
  <1>11. CounterAhead'
    <2> SUFFICES ASSUME MaxSeals <= U64Max PROVE CounterAhead'
      BY Zenon DEF CounterAhead
    <2>1. /\ ~reused /\ \A q \in Peers : session[q].est.send_counter <= seals
          /\ \A q \in Peers : Keyed(q) =>
                \A n \in Nat : <<q, session[q].est.key, n>> \in sealed =>
                                   n < session[q].est.send_counter
      BY Zenon DEF SessionInv, CounterAhead
    <2>2. seq < U64Max /\ next = seq + 1
      BY SMTT(30), <1>1, <1>2, <1>3, <2>1, SessionAssumption
    <2>3. ~reused'
      <3>1. <<p, est.key, seq>> \notin sealed
        BY <1>2, <2>1
      <3> QED
        BY Zenon, <1>1, <2>1, <3>1 DEF SessionInv, SessionTypes
    <2>4. \A q \in Peers : session'[q].est.send_counter <= seals'
      BY <1>1, <1>2, <1>4, <2>1, <2>2 DEF SessionRecords, EstRecords
    <2>5. ASSUME NEW q \in Peers, Keyed(q)', NEW n \in Nat,
                 <<q, session'[q].est.key, n>> \in sealed'
          PROVE  n < session'[q].est.send_counter
      <3>1. CASE q = p
        BY SMTT(30), <1>1, <1>2, <1>4, <2>1, <2>2, <2>5, <3>1
      <3>2. CASE q # p
        BY SMTT(30), <1>1, <1>4, <1>6, <2>1, <2>5, <3>2
      <3> QED
        BY Zenon, <3>1, <3>2
    <2> QED
      BY Zenon, <2>3, <2>4, <2>5 DEF CounterAhead
  <1>12. WindowRemembers'
    <2>1. \A q \in Peers : /\ session'[q].est.key = session[q].est.key
                           /\ session'[q].est.recv_window = session[q].est.recv_window
      BY Zenon, <1>4
    <2> QED
      BY <1>1, <1>6, <2>1 DEF SessionInv, SessionTypes, WindowRemembers
  <1>13. WindowHonest'
    <2>1. \A q \in Peers : /\ session'[q].est.key = session[q].est.key
                           /\ session'[q].est.recv_window = session[q].est.recv_window
      BY Zenon, <1>4
    <2> QED
      BY Zenon, <1>1, <1>6, <1>7, <2>1, HonestStays DEF SessionInv, WindowHonest
  <1> QED
    BY Zenon, <1>8, <1>9, <1>10, <1>11, <1>12, <1>13 DEF SessionInv

\* decrypt_data and decrypt_with_old: whatever the AEAD says, the window has
\* moved, and it refuses this packet and all it refused before.
LEMMA DecryptKeepsInv ==
    ASSUME SessionInv, NEW p \in Peers, NEW d \in datagrams, decrypt_data(p, d)
    PROVE  SessionInv'
  <1> DEFINE est == session[p].est
             w   == est.recv_window
             u   == Update(w, d.seq)
  <1>1. /\ Keyed(p) /\ d.from # p /\ Check(w, d.seq) = "Ok"
        /\ session' = [session EXCEPT ![p].est.recv_window = u]
        /\ UNCHANGED <<msg1s, msg2s, datagrams, seals, sealed, reused>>
    BY Zenon DEF decrypt_data, WindowAfter, Keyed, SessionInv, SessionTypes, SessionRecords, EstRecords
  <1>2. \/ /\ d.intact /\ d.key = est.key
           /\ delivered' = delivered \cup {<<p, d>>}
           /\ repeated' = (repeated \/ <<p, d>> \in delivered)
           /\ poisoned' = poisoned
        \/ /\ poisoned' = poisoned \cup {p}
           /\ UNCHANGED <<delivered, repeated>>
    BY Zenon DEF decrypt_data, Opens
  <1>3. /\ session \in [Peers -> SessionRecords] /\ w \in Windows /\ d.seq \in SeqNo
        /\ \A e \in datagrams : e.seq \in SeqNo
    BY Zenon DEF SessionInv, SessionTypes, SessionRecords, EstRecords
  <1>4. u \in Windows
    BY Zenon, <1>3, UpdateIsWindow
  <1>5. Check(u, d.seq) # "Ok"
    BY Zenon, <1>3, UpdateRefuses
  <1>6. \A s \in SeqNo : Check(w, s) # "Ok" => Check(u, s) # "Ok"
    BY Zenon, <1>3, RefusalStable
  <1>7. /\ Marks(u) \subseteq Marks(w) \cup {d.seq}
        /\ u.highest = d.seq \/ (w.initialised /\ u.highest = w.highest)
    BY Zenon, <1>1, <1>3, MarksGrow
  <1> HIDE DEF u
  <1>8. /\ session'[p].state = session[p].state /\ session'[p].hs = session[p].hs
        /\ session'[p].est.key = est.key /\ session'[p].est.recv_window = u
        /\ session'[p].est.send_counter = est.send_counter
        /\ \A q \in Peers \ {p} : session'[q] = session[q]
    BY Zenon, <1>1, <1>3 DEF SessionRecords, EstRecords
  <1>9. session' \in [Peers -> SessionRecords]
    BY <1>1, <1>3, <1>4 DEF SessionRecords, EstRecords
  <1>10. /\ \A q \in Peers : Keyed(q)' <=> Keyed(q)
         /\ \A q \in Peers : session'[q].est.key = session[q].est.key
         /\ \A q \in Peers : session'[q].est.send_counter = session[q].est.send_counter
    BY Zenon, <1>8 DEF Keyed
  <1>11. SessionTypes'
    <2>1. delivered' \subseteq Peers \X datagrams' /\ poisoned' \subseteq Peers
      BY <1>1, <1>2 DEF SessionInv, SessionTypes
    <2>2. repeated' \in BOOLEAN
      BY Zenon, <1>2 DEF SessionInv, SessionTypes
    <2> QED
      BY Zenon, <1>1, <1>9, <2>1, <2>2 DEF SessionInv, SessionTypes
  <1>12. EphemeralsFresh' /\ CounterAhead'
    BY <1>1, <1>10 DEF SessionInv, EphemeralsFresh, CounterAhead
  <1>13. HandshakeFresh'
    <2>1. /\ session'["client"].hs = session["client"].hs
          /\ session'["client"].state = session["client"].state
      BY Zenon, <1>8 DEF Peers
    <2>2. ASSUME NEW e \in datagrams, <<"client", e>> \in delivered', session["client"].hs # 0
          PROVE  e.key[1] # session["client"].hs
      <3>1. CASE <<"client", e>> \in delivered
        BY Zenon, <2>2, <3>1 DEF SessionInv, HandshakeFresh
      <3>2. CASE <<"client", e>> \notin delivered
        <4>1. p = "client" /\ e = d /\ d.key = est.key
          BY <1>2, <2>2, <3>2
        <4> QED
          BY Zenon, <1>1, <2>2, <4>1 DEF SessionInv, HandshakeFresh
      <3> QED
        BY Zenon, <3>1, <3>2
    <2> QED
      BY <1>1, <1>10, <2>1, <2>2 DEF SessionInv, HandshakeFresh, Peers
  <1>14. WindowRemembers'
    <2>1. ASSUME d.key = est.key PROVE <<p, d>> \notin delivered
      BY Zenon, <1>1, <2>1 DEF SessionInv, WindowRemembers
    <2>2. ~repeated'
      <3>1. ~repeated
        BY Zenon DEF SessionInv, WindowRemembers
      <3> QED
        BY Zenon, <1>2, <2>1, <3>1 DEF SessionInv, SessionTypes
    <2>3. ASSUME NEW q \in Peers, NEW e \in datagrams, <<q, e>> \in delivered'
          PROVE  /\ e.intact /\ e.from # q
                 /\ Keyed(q)' /\ e.key = session'[q].est.key =>
                       Check(session'[q].est.recv_window, e.seq) # "Ok"
      <3>1. CASE <<q, e>> \notin delivered
        <4>1. q = p /\ e = d /\ d.intact
          BY <1>2, <2>3, <3>1
        <4> QED
          BY Zenon, <1>1, <1>5, <1>8, <4>1
      <3>2. CASE <<q, e>> \in delivered /\ q = p
        <4>1. /\ e.intact /\ e.from # q
              /\ e.key = est.key => Check(w, e.seq) # "Ok"
          BY Zenon, <1>1, <3>2 DEF SessionInv, WindowRemembers
        <4> QED
          BY Zenon, <1>3, <1>6, <1>8, <3>2, <4>1
      <3>3. CASE <<q, e>> \in delivered /\ q # p
        BY <1>8, <1>10, <3>3 DEF SessionInv, WindowRemembers
      <3> QED
        BY Zenon, <3>1, <3>2, <3>3
    <2> QED
      BY Zenon, <1>1, <2>2, <2>3 DEF WindowRemembers
  <1>15. WindowHonest'
    <2> SUFFICES ASSUME NEW q \in Peers, q \notin poisoned' PROVE HonestAt(q)'
      BY Zenon DEF WindowHonest
    <2>1. HonestAt(q)
      BY Zenon, <1>2 DEF SessionInv, WindowHonest
    <2>2. delivered \subseteq delivered'
      BY Zenon, <1>2
    <2>3. CASE q # p
      BY Zenon, <1>1, <1>8, <1>10, <2>1, <2>2, <2>3, HonestStays
    <2>4. CASE q = p
      <3>1. d.key = est.key /\ <<p, d>> \in delivered'
        BY Zenon, <1>2, <2>4
      <3>2. DeliveredSeqs(p) \subseteq DeliveredSeqs(p)' /\ d.seq \in DeliveredSeqs(p)'
        <4>1. session'[p].est.key = session[p].est.key /\ d \in datagrams'
          BY Zenon, <1>1, <1>10
        <4>2. DeliveredSeqs(p) \subseteq DeliveredSeqs(p)'
          BY Zenon, <1>1, <2>2, <4>1 DEF DeliveredSeqs
        <4>3. d.seq \in DeliveredSeqs(p)'
          BY Zenon, <3>1, <4>1 DEF DeliveredSeqs
        <4> QED
          BY Zenon, <4>2, <4>3
      <3>3. Marks(w) \subseteq DeliveredSeqs(p) /\ (w.initialised => w.highest \in DeliveredSeqs(p))
        BY Zenon, <1>1, <2>1, <2>4 DEF HonestAt
      <3>4. Marks(u) \subseteq DeliveredSeqs(p)' /\ u.highest \in DeliveredSeqs(p)'
        BY Zenon, <1>7, <3>2, <3>3
      <3> QED
        BY Zenon, <1>8, <2>4, <3>4 DEF HonestAt
    <2> QED
      BY Zenon, <2>3, <2>4
  <1> QED
    BY Zenon, <1>11, <1>12, <1>13, <1>14, <1>15 DEF SessionInv

\* Every step of either end and of the network keeps the invariant.
LEMMA SessionNextInv == SessionInv /\ [Next]_vars => SessionInv'
  <1> SUFFICES ASSUME SessionInv, [Next]_vars PROVE SessionInv'
    BY Zenon
  <1>1. CASE write_message_1
    BY Zenon, <1>1, WriteKeepsInv
  <1>2. ASSUME NEW i \in msg1s, accept_message_1(i) PROVE SessionInv'
    BY Zenon, <1>2, AcceptKeepsInv
  <1>3. ASSUME NEW m \in msg2s, read_message_2(m) PROVE SessionInv'
    BY Zenon, <1>3, ReadKeepsInv
  <1>4. CASE begin_rekey
    BY Zenon, <1>4, StateStepKeepsInv DEF begin_rekey, Peers
  <1>5. ASSUME NEW p \in Peers, close(p) PROVE SessionInv'
    BY Zenon, <1>5, StateStepKeepsInv DEF close
  <1>6. ASSUME NEW p \in Peers, encrypt_packet(p) PROVE SessionInv'
    BY Zenon, <1>6, EncryptKeepsInv
  <1>7. ASSUME NEW p \in Peers, NEW d \in datagrams, decrypt_data(p, d) PROVE SessionInv'
    BY Zenon, <1>7, DecryptKeepsInv
  <1>8. ASSUME NEW d \in datagrams, damage(d) PROVE SessionInv'
    BY Zenon, <1>8, DamageKeepsInv
  <1>9. CASE UNCHANGED vars
    <2>1. /\ SessionTypes' /\ EphemeralsFresh'
          /\ \A p \in Peers : Keyed(p)' <=> Keyed(p)
      BY Zenon, <1>9 DEF vars, SessionInv, SessionTypes, EphemeralsFresh, Keyed
    <2>2. HandshakeFresh'
      BY Zenon, <1>9, <2>1 DEF vars, SessionInv, HandshakeFresh, Peers
    <2>3. CounterAhead' /\ WindowRemembers' /\ WindowHonest'
      BY Zenon, <1>9, <2>1, QuietStep DEF vars
    <2> QED
      BY Zenon, <2>1, <2>2, <2>3 DEF SessionInv
  <1> QED
    BY Zenon, <1>1, <1>2, <1>3, <1>4, <1>5, <1>6, <1>7, <1>8, <1>9 DEF Next

\* The inductive invariant holds in every reachable state.
LEMMA SessionAlways == Spec => []SessionInv
  BY SessionInitInv, SessionNextInv, PTL DEF Spec

----------------------------------------------------------------------------

(***************************************************************************)
(* encrypt_packet never seals two packets under one key and nonce, as long *)
(* as the 64-bit counter does not wrap: over any number of handshakes,     *)
(* answered copies of a message 1 and abandoned rekeys.                    *)
(***************************************************************************)
THEOREM NoncesAreUnique == Spec => []NonceUsedOnce
  <1>1. SessionInv => NonceUsedOnce
    BY Zenon DEF SessionInv, CounterAhead, NonceUsedOnce
  <1> QED
    BY <1>1, SessionAlways, PTL

(***************************************************************************)
(* decrypt_data and decrypt_with_old hand each packet to the TUN at most   *)
(* once per receiver, although every handshake and every rekey starts with *)
(* an empty window.                                                        *)
(***************************************************************************)
THEOREM NoReplay == Spec => []DeliveredOnce
  <1>1. SessionInv => DeliveredOnce
    BY Zenon DEF SessionInv, WindowRemembers, DeliveredOnce
  <1> QED
    BY <1>1, SessionAlways, PTL

(***************************************************************************)
(* decrypt_data refuses a genuine packet of the current key only as a copy *)
(* of a delivered one or behind one at least WINDOW_SIZE ahead, unless a   *)
(* packet that failed to open had moved the window.                        *)
(***************************************************************************)
THEOREM NoGenuineRefused == Spec => []GenuineAccepted
  <1>1. SessionInv => GenuineAccepted
    <2> SUFFICES ASSUME SessionInv, NEW p \in Peers \ poisoned, NEW d \in datagrams,
                        Keyed(p), d.from # p, d.intact, d.key = session[p].est.key,
                        Check(session[p].est.recv_window, d.seq) # "Ok"
                 PROVE  \/ <<p, d>> \in delivered
                        \/ \E e \in datagrams : /\ <<p, e>> \in delivered
                                                /\ e.key = d.key
                                                /\ d.seq + WINDOW_SIZE <= e.seq
      BY Zenon DEF GenuineAccepted, Keyed, Opens
    <2> DEFINE w == session[p].est.recv_window
    <2>1. /\ w \in Windows /\ d.seq \in SeqNo
          /\ datagrams \subseteq [from : Peers, key : msg2s, seq : SeqNo, intact : BOOLEAN]
      BY Zenon DEF SessionInv, SessionTypes, SessionRecords, EstRecords
    <2>2. /\ w.initialised
          /\ d.seq \in Marks(w) \/ d.seq + WINDOW_SIZE <= w.highest
      BY Zenon, <2>1, RefusalCause
    <2>3. Marks(w) \subseteq DeliveredSeqs(p) /\ w.highest \in DeliveredSeqs(p)
      BY Zenon, <2>2 DEF SessionInv, WindowHonest, HonestAt
    <2>4. CASE d.seq \in Marks(w)
      <3>1. PICK e \in datagrams : /\ <<p, e>> \in delivered /\ e.seq = d.seq
                                   /\ e.key = session[p].est.key
        BY Zenon, <2>3, <2>4 DEF DeliveredSeqs
      <3>2. e.intact /\ e.from # p
        BY Zenon, <3>1 DEF SessionInv, WindowRemembers
      <3>3. e.from = d.from
        BY Zenon, <2>1, <3>2 DEF Peers
      <3>4. e.intact = TRUE /\ d.intact = TRUE
        BY Zenon, <2>1, <3>2
      <3>5. e = [from |-> d.from, key |-> d.key, seq |-> d.seq, intact |-> TRUE]
        BY Zenon, <2>1, <3>1, <3>3, <3>4
      <3>6. d = [from |-> d.from, key |-> d.key, seq |-> d.seq, intact |-> TRUE]
        BY Zenon, <2>1, <3>4
      <3> QED
        BY Zenon, <3>1, <3>5, <3>6
    <2>5. CASE d.seq + WINDOW_SIZE <= w.highest
      <3>1. PICK e \in datagrams : /\ <<p, e>> \in delivered /\ e.seq = w.highest
                                   /\ e.key = session[p].est.key
        BY Zenon, <2>3 DEF DeliveredSeqs
      <3> QED
        BY Zenon, <2>5, <3>1
    <2> QED
      BY Zenon, <2>2, <2>4, <2>5
  <1> QED
    BY <1>1, SessionAlways, PTL

----------------------------------------------------------------------------
\* The sessions so far, in the order they were inserted.
SessionsType == Seq([client : Clients, id : Nat \ {0}])

\* Where the reactor thread can be in handle_incoming.
LoopStates ==
    {Idle} \cup [pc : {"allocate"}, client : Clients, tries : Nat]
           \cup [pc : {"advance"}, client : Clients, id : Nat \ {0}]

\* Types of what the loop, the registry and the table hold.
ServerTypes ==
    /\ clock \in Nat
    /\ next_id \in Nat
    /\ sessions \in SessionsType
    /\ removed \subseteq DOMAIN sessions
    /\ IsFiniteSet(DOMAIN table)
    /\ table \in [DOMAIN table -> DOMAIN sessions]
    /\ at \in LoopStates
    /\ foreign \subseteq (DOMAIN sessions) \X (DOMAIN sessions)

(***************************************************************************)
(* The table holds exactly the sessions that were not kicked, each in the  *)
(* slot of its id, and a slot holds the newest session of its id.  Between *)
(* the cap check and the insertion there stays room for one more session,  *)
(* and the id that was reserved stays free: only this thread inserts.      *)
(***************************************************************************)
SlotsExact ==
    /\ Cardinality(DOMAIN table) <= max_clients
    /\ Range(table) = DOMAIN sessions \ removed
    /\ \A i \in DOMAIN table : sessions[table[i]].id = i
    /\ \A i \in DOMAIN table, m \in DOMAIN sessions :
          sessions[m].id = i => m <= table[i]
    /\ at.pc \in {"allocate", "advance"} => Cardinality(DOMAIN table) < max_clients
    /\ at.pc = "advance" => at.id \notin DOMAIN table

\* The address map is written by advance_establishes alone: each entry is the
\* id of a session of the client at that address.
MapTraced ==
    \A a \in DOMAIN addr_map :
        \E m \in DOMAIN sessions :
            sessions[m] = [client |-> a[1], id |-> addr_map[a]]

(***************************************************************************)
(* The books of the rate limiter, scaled to avoid the division: what was   *)
(* let through and what is still in the bucket never exceed the first fill *)
(* and the refills since.                                                  *)
(***************************************************************************)
Balanced(b, r) ==
    /\ b \in [tokens_milli : Nat, last_refill_ms : Nat]
    /\ r.count * Milli * SecondMs + b.tokens_milli * SecondMs
          <= MAX_TOKENS * Milli * SecondMs
             + REFILL_MILLI_PER_SEC * (b.last_refill_ms - r.since)

Ledger ==
    /\ admitted \in [Clients -> [count : Nat, since : Nat]]
    /\ DOMAIN buckets \subseteq {First(c) : c \in Clients}
    /\ \A c \in Clients :
          IF First(c) \in DOMAIN buckets THEN Balanced(buckets[First(c)], admitted[c])
                                         ELSE admitted[c].count = 0

\* The inductive invariant.
ServerInv == /\ ServerTypes
             /\ SlotsExact
             /\ MapTraced
             /\ ForeignOnlyThroughReuse
             /\ Ledger

----------------------------------------------------------------------------
(* The token bucket.                                                       *)

\* The refill is rounded down to whole milli-tokens.
LEMMA RoundsDown ==
    ASSUME NEW x \in Nat, NEW s \in Nat \ {0}
    PROVE  x \div s \in Nat /\ (x \div s) * s <= x
  OBVIOUS

\* try_admit's refill keeps the books balanced, also when the clock was set back.
LEMMA RefillBalanced ==
    ASSUME NEW b, NEW r \in [count : Nat, since : Nat], Balanced(b, r),
           NEW now \in Nat
    PROVE  Balanced(Refill(b, now), r)
  <1> USE RateLimitAssumption
  <1> DEFINE tok   == b.tokens_milli
             last  == b.last_refill_ms
             R     == REFILL_MILLI_PER_SEC
             added == (R * (now - last)) \div SecondMs
             cap   == MAX_TOKENS * Milli
             tok2  == IF tok + added < cap THEN tok + added ELSE cap
  <1>1. /\ tok \in Nat /\ last \in Nat /\ r.since \in Nat /\ r.count \in Nat
        /\ r.count * Milli * SecondMs + tok * SecondMs
              <= MAX_TOKENS * Milli * SecondMs + R * (last - r.since)
    BY Zenon DEF Balanced
  <1>2. CASE ~(now > last)
    BY Zenon, <1>2 DEF Refill
  <1>3. CASE now > last
    <2>1. Refill(b, now) = [tokens_milli |-> tok2, last_refill_ms |-> now]
      BY Zenon, <1>3 DEF Refill
    <2>2. R * (now - last) \in Nat
      BY <1>1, <1>3
    <2>3. added \in Nat /\ added * SecondMs <= R * (now - last)
      BY Zenon, <2>2, RoundsDown
    <2>4. cap \in Nat
      OBVIOUS
    <2> HIDE DEF added, cap
    <2>5. tok2 \in Nat /\ tok2 <= tok + added
      BY <1>1, <2>3, <2>4
    <2> HIDE DEF tok2
    <2>6. tok2 * SecondMs <= (tok + added) * SecondMs
      BY <1>1, <2>3, <2>5
    <2>7. (tok + added) * SecondMs = tok * SecondMs + added * SecondMs
      BY <1>1, <2>3
    <2>8. R * (now - r.since) = R * (last - r.since) + R * (now - last)
      BY <1>1
    <2>9. r.count * Milli * SecondMs + tok2 * SecondMs
             <= MAX_TOKENS * Milli * SecondMs + R * (now - r.since)
      <3> DEFINE A == r.count * Milli * SecondMs
                 B == MAX_TOKENS * Milli * SecondMs
                 C == R * (last - r.since)
                 D == R * (now - last)
      <3>1. /\ A \in Int /\ B \in Int /\ C \in Int /\ D \in Int
            /\ tok * SecondMs \in Int /\ added * SecondMs \in Int /\ tok2 * SecondMs \in Int
        BY <1>1, <2>3, <2>5
      <3>2. A + tok * SecondMs <= B + C /\ added * SecondMs <= D
        BY Zenon, <1>1, <2>3
      <3>3. tok2 * SecondMs <= tok * SecondMs + added * SecondMs
        BY Zenon, <2>6, <2>7
      <3>4. R * (now - r.since) = C + D
        BY Zenon, <2>8
      <3> HIDE DEF A, B, C, D
      <3>5. A + tok2 * SecondMs <= B + (C + D)
        BY <3>1, <3>2, <3>3
      <3> QED
        BY Zenon, <3>4, <3>5 DEF A, B
    <2> QED
      BY <2>1, <2>5, <2>9 DEF Balanced
  <1> QED
    BY Zenon, <1>2, <1>3

\* A message that is let through moves one token from the bucket to the count.
LEMMA PayBalanced ==
    ASSUME NEW b, NEW r \in [count : Nat, since : Nat], Balanced(b, r), Admits(b)
    PROVE  Balanced(Pay(b), [count |-> r.count + 1, since |-> r.since])
  <1> USE RateLimitAssumption
  <1> DEFINE tok == b.tokens_milli
  <1>1. /\ tok \in Nat /\ b.last_refill_ms \in Nat /\ r.count \in Nat /\ tok >= Milli
        /\ b \in [tokens_milli : Nat, last_refill_ms : Nat]
    BY Zenon DEF Balanced, Admits
  <1>2. /\ Pay(b) \in [tokens_milli : Nat, last_refill_ms : Nat]
        /\ Pay(b).tokens_milli = tok - Milli
        /\ Pay(b).last_refill_ms = b.last_refill_ms
    BY <1>1 DEF Pay
  <1>3. (r.count + 1) * Milli * SecondMs + (tok - Milli) * SecondMs
           = r.count * Milli * SecondMs + tok * SecondMs
    BY <1>1
  <1> QED
    BY Zenon, <1>2, <1>3 DEF Balanced

\* The first message of a source is let through and pays from a full bucket.
LEMMA NewBalanced ==
    ASSUME NEW now \in Nat
    PROVE  /\ Balanced(NewBucket(now), [count |-> 0, since |-> now])
           /\ Refill(NewBucket(now), now) = NewBucket(now)
           /\ Admits(NewBucket(now))
  <1> USE RateLimitAssumption
  <1>1. MAX_TOKENS * Milli \in Nat /\ MAX_TOKENS * Milli >= Milli
    OBVIOUS
  <1>2. REFILL_MILLI_PER_SEC * (now - now) = 0 /\ 0 * Milli * SecondMs = 0
    OBVIOUS
  <1> QED
    BY <1>1, <1>2 DEF Balanced, NewBucket, Refill, Admits

----------------------------------------------------------------------------
(* The steps of the server.                                                *)

\* The empty server owes nothing to anyone.
LEMMA ServerInitInv == ServerInit => ServerInv
  <1> SUFFICES ASSUME ServerInit PROVE ServerInv
    BY Zenon
  <1> USE DEF ServerInit
  <1>1. DOMAIN table = {} /\ DOMAIN sessions = {} /\ Range(table) = {}
    BY DEF Range
  <1>2. ServerTypes
    <2>1. clock \in Nat
      BY RateLimitAssumption DEF Clock
    <2>2. sessions \in SessionsType
      BY DEF SessionsType
    <2>3. IsFiniteSet(DOMAIN table)
      BY Zenon, <1>1, FS_EmptySet
    <2>4. at \in LoopStates
      BY Zenon DEF LoopStates
    <2> QED
      BY Zenon, <1>1, <2>1, <2>2, <2>3, <2>4 DEF ServerTypes
  <1>3. SlotsExact
    BY <1>1, FS_EmptySet, ServerAssumption DEF SlotsExact, Idle
  <1>4. MapTraced /\ ForeignOnlyThroughReuse
    BY Zenon DEF MapTraced, ForeignOnlyThroughReuse
  <1>5. Ledger
    BY Zenon DEF Ledger
  <1> QED
    BY Zenon, <1>2, <1>3, <1>4, <1>5 DEF ServerInv

\* A step that leaves the table, the sessions and the map alone keeps what
\* relates them.
LEMMA TableStays ==
    ASSUME ServerInv, UNCHANGED <<table, addr_map, sessions, removed, foreign>>
    PROVE  MapTraced' /\ ForeignOnlyThroughReuse'
  BY Zenon DEF ServerInv, MapTraced, ForeignOnlyThroughReuse

\* Neither does the ledger change while nothing is admitted or refilled.
LEMMA LedgerStays ==
    ASSUME ServerInv, UNCHANGED <<buckets, admitted>>
    PROVE  Ledger'
  BY Zenon DEF ServerInv, Ledger, Balanced

\* handle_incoming on a Handshake frame: the limiter's books balance, and the
\* thread goes on only while there is room in the table.
LEMMA HandshakeKeepsInv ==
    ASSUME ServerInv, NEW c \in Clients, handshake_frame(c)
    PROVE  ServerInv'
  <1> DEFINE a == First(c)
             b == Refill(EntryOrNew(a), clock)
  <1>1. /\ at = Idle
        /\ UNCHANGED <<clock, next_id, table, addr_map, sessions, removed, foreign>>
        /\ \/ /\ ~Admits(b)
              /\ buckets' = Put(buckets, a, b)
              /\ UNCHANGED <<at, admitted>>
           \/ /\ Admits(b)
              /\ buckets' = Put(buckets, a, Pay(b))
              /\ admitted' = [admitted EXCEPT
                    ![c].count = @ + 1,
                    ![c].since = IF a \in DOMAIN buckets THEN @ ELSE clock]
              /\ at' = IF AtCap THEN Idle
                       ELSE [pc |-> "allocate", client |-> c, tries |-> 0]
    BY Zenon DEF handshake_frame
  <1>2. at' = Idle \/ (~AtCap /\ at' = [pc |-> "allocate", client |-> c, tries |-> 0])
    BY Zenon, <1>1
  <1>3. Cardinality(DOMAIN table) \in Nat /\ max_clients \in Nat
    BY Zenon, FS_CardinalityType, ServerAssumption DEF ServerInv, ServerTypes
  <1>4. ServerTypes'
    <2>1. at' \in LoopStates
      BY <1>2 DEF LoopStates
    <2> QED
      BY Zenon, <1>1, <2>1 DEF ServerInv, ServerTypes
  <1>5. SlotsExact'
    <2>1. /\ at'.pc \in {"allocate", "advance"} => Cardinality(DOMAIN table) < max_clients
          /\ at'.pc # "advance"
      BY <1>2, <1>3 DEF Idle, AtCap
    <2> QED
      BY Zenon, <1>1, <2>1 DEF ServerInv, SlotsExact
  <1>6. MapTraced' /\ ForeignOnlyThroughReuse'
    BY Zenon, <1>1, TableStays
  <1>7. Ledger'
    <2> DEFINE r == admitted[c]
               rec == [count |-> r.count, since |-> IF a \in DOMAIN buckets THEN r.since ELSE clock]
    <2>1. /\ admitted \in [Clients -> [count : Nat, since : Nat]]
          /\ DOMAIN buckets \subseteq {First(k) : k \in Clients}
          /\ clock \in Nat
      BY Zenon DEF ServerInv, ServerTypes, Ledger
    <2>2. rec \in [count : Nat, since : Nat]
      BY Zenon, <2>1
    <2>3. Balanced(b, rec) /\ (a \notin DOMAIN buckets => Admits(b))
      <3>1. CASE a \in DOMAIN buckets
        <4>1. EntryOrNew(a) = buckets[a] /\ rec = r
          BY Zenon, <2>1, <3>1 DEF EntryOrNew
        <4>2. Balanced(buckets[a], r)
          BY Zenon, <3>1 DEF ServerInv, Ledger
        <4> QED
          BY Zenon, <2>1, <2>2, <3>1, <4>1, <4>2, RefillBalanced
      <3>2. CASE a \notin DOMAIN buckets
        <4>1. EntryOrNew(a) = NewBucket(clock) /\ rec = [count |-> 0, since |-> clock]
          BY Zenon, <3>2 DEF EntryOrNew, ServerInv, Ledger
        <4> QED
          BY Zenon, <2>1, <4>1, NewBalanced
      <3> QED
        BY Zenon, <3>1, <3>2
    <2> HIDE DEF b
    <2>4. PICK nb : /\ buckets' = Put(buckets, a, nb)
                    /\ admitted' \in [Clients -> [count : Nat, since : Nat]]
                    /\ Balanced(nb, admitted'[c])
                    /\ \A k \in Clients \ {c} : admitted'[k] = admitted[k]
      <3>1. CASE Admits(b)
        <4>1. admitted' = [admitted EXCEPT ![c].count = @ + 1,
                              ![c].since = IF a \in DOMAIN buckets THEN @ ELSE clock]
          BY Zenon, <1>1, <3>1
        <4>2. admitted'[c] = [count |-> rec.count + 1, since |-> rec.since]
          BY Zenon, <2>1, <4>1
        <4>3. /\ \A k \in Clients \ {c} : admitted'[k] = admitted[k]
              /\ admitted' \in [Clients -> [count : Nat, since : Nat]]
          BY <2>1, <2>2, <4>1, <4>2
        <4>4. Balanced(Pay(b), admitted'[c])
          BY Zenon, <2>2, <2>3, <3>1, <4>2, PayBalanced
        <4> QED
          BY Zenon, <1>1, <3>1, <4>3, <4>4
      <3>2. CASE ~Admits(b)
        <4>1. a \in DOMAIN buckets /\ rec = admitted[c]
          BY Zenon, <2>1, <2>3, <3>2
        <4> QED
          BY Zenon, <1>1, <2>1, <2>3, <3>2, <4>1
      <3> QED
        BY Zenon, <3>1, <3>2
    <2>5. /\ DOMAIN buckets' = DOMAIN buckets \cup {a}
          /\ buckets'[a] = nb
          /\ \A k \in DOMAIN buckets : k # a => buckets'[k] = buckets[k]
      BY Zenon, <2>4 DEF Put
    <2>6. ASSUME NEW k \in Clients
          PROVE  IF First(k) \in DOMAIN buckets' THEN Balanced(buckets'[First(k)], admitted'[k])
                                                 ELSE admitted'[k].count = 0
      <3>1. CASE k = c
        BY Zenon, <2>4, <2>5, <3>1
      <3>2. CASE k # c
        <4>1. First(k) # a
          BY Zenon, <3>2 DEF First
        <4>2. IF First(k) \in DOMAIN buckets THEN Balanced(buckets[First(k)], admitted[k])
                                             ELSE admitted[k].count = 0
          BY Zenon DEF ServerInv, Ledger
        <4> QED
          BY Zenon, <2>4, <2>5, <3>2, <4>1, <4>2
      <3> QED
        BY Zenon, <3>1, <3>2
    <2>7. DOMAIN buckets' \subseteq {First(k) : k \in Clients}
      BY Zenon, <2>1, <2>5
    <2>8. \A k \in Clients : IF First(k) \in DOMAIN buckets'
                             THEN Balanced(buckets'[First(k)], admitted'[k])
                             ELSE admitted'[k].count = 0
      BY Zenon, <2>6
    <2> QED
      BY Zenon, <2>4, <2>7, <2>8 DEF Ledger, Balanced
  <1> QED
    BY Zenon, <1>4, <1>5, <1>6, <1>7 DEF ServerInv

\* allocate_id: the id it settles on is free.
LEMMA AllocateKeepsInv ==
    ASSUME ServerInv, allocate_id
    PROVE  ServerInv'
  <1>1. /\ at.pc = "allocate"
        /\ next_id' = (next_id + 1) % (U16Max + 1)
        /\ UNCHANGED <<clock, buckets, table, addr_map, sessions, removed, admitted, foreign>>
        /\ \/ /\ Usable(next_id)
              /\ at' = [pc |-> "advance", client |-> at.client, id |-> next_id]
           \/ at' = Idle
           \/ at' = [at EXCEPT !.tries = @ + 1]
    BY Zenon DEF allocate_id
  <1>2. at \in [pc : {"allocate"}, client : Clients, tries : Nat]
    BY <1>1 DEF ServerInv, ServerTypes, LoopStates, Idle
  <1>3. /\ at' \in LoopStates
        /\ at'.pc = "advance" => at'.id \notin DOMAIN table
    BY <1>1, <1>2 DEF LoopStates, Idle, Usable, ServerInv, ServerTypes
  <1>4. next_id' \in Nat
    BY <1>1, ServerAssumption DEF ServerInv, ServerTypes
  <1>5. ServerTypes'
    BY Zenon, <1>1, <1>3, <1>4 DEF ServerInv, ServerTypes
  <1>6. SlotsExact'
    BY Zenon, <1>1, <1>3 DEF ServerInv, SlotsExact
  <1>7. MapTraced' /\ ForeignOnlyThroughReuse' /\ Ledger'
    BY Zenon, <1>1, TableStays, LedgerStays
  <1> QED
    BY Zenon, <1>5, <1>6, <1>7 DEF ServerInv

\* The sessions established so far are the first ones after an insertion too.
LEMMA SessionsGrow ==
    ASSUME sessions \in SessionsType, NEW s \in [client : Clients, id : Nat \ {0}],
           sessions' = Append(sessions, s)
    PROVE  /\ sessions' \in SessionsType
           /\ Len(sessions) \in Nat
           /\ Len(sessions) + 1 \notin DOMAIN sessions
           /\ \A m \in DOMAIN sessions : m \in Nat /\ m <= Len(sessions)
           /\ DOMAIN sessions' = DOMAIN sessions \cup {Len(sessions) + 1}
           /\ sessions'[Len(sessions) + 1] = s
           /\ \A m \in DOMAIN sessions : sessions'[m] = sessions[m]
  BY DEF SessionsType

\* insert: the reserved id is still free, so no session is pushed out, and
\* the new session is the newest of its id.
LEMMA EstablishKeepsInv ==
    ASSUME ServerInv, advance_establishes
    PROVE  ServerInv'
  <1> DEFINE n == Len(sessions) + 1
             s == [client |-> at.client, id |-> at.id]
  <1>1. /\ at.pc = "advance"
        /\ sessions' = Append(sessions, s)
        /\ table' = Put(table, at.id, n)
        /\ addr_map' = Put(addr_map, First(at.client), at.id)
        /\ at' = Idle
        /\ UNCHANGED <<clock, buckets, next_id, removed, admitted, foreign>>
    BY Zenon DEF advance_establishes
  <1>2. at \in [pc : {"advance"}, client : Clients, id : Nat \ {0}]
    BY <1>1 DEF ServerInv, ServerTypes, LoopStates, Idle
  <1>3. /\ at.id \notin DOMAIN table /\ Cardinality(DOMAIN table) < max_clients
        /\ IsFiniteSet(DOMAIN table)
    BY Zenon, <1>1 DEF ServerInv, ServerTypes, SlotsExact
  <1>4. s \in [client : Clients, id : Nat \ {0}] /\ s.id = at.id
    BY Zenon, <1>2
  <1> HIDE DEF s
  <1>5. /\ sessions' \in SessionsType
        /\ n \in Nat /\ n \notin DOMAIN sessions
        /\ \A m \in DOMAIN sessions : m \in Nat /\ m < n
        /\ DOMAIN sessions' = DOMAIN sessions \cup {n}
        /\ sessions'[n] = s
        /\ \A m \in DOMAIN sessions : sessions'[m] = sessions[m]
    BY <1>1, <1>4, SessionsGrow DEF ServerInv, ServerTypes
  <1> HIDE DEF n
  <1>6. /\ DOMAIN table' = DOMAIN table \cup {at.id}
        /\ table'[at.id] = n
        /\ \A i \in DOMAIN table : table'[i] = table[i]
        /\ table' \in [DOMAIN table' -> DOMAIN sessions']
    BY Zenon, <1>1, <1>3, <1>5 DEF Put, ServerInv, ServerTypes
  <1>7. /\ IsFiniteSet(DOMAIN table')
        /\ Cardinality(DOMAIN table') <= max_clients
    <2>1. /\ IsFiniteSet(DOMAIN table')
          /\ Cardinality(DOMAIN table') = Cardinality(DOMAIN table) + 1
      BY Zenon, <1>3, <1>6, FS_AddElement
    <2>2. Cardinality(DOMAIN table) \in Nat
      BY Zenon, <1>3, FS_CardinalityType
    <2> QED
      BY <1>3, <2>1, <2>2, ServerAssumption
  <1>8. ServerTypes'
    BY Zenon, <1>1, <1>5, <1>6, <1>7 DEF ServerInv, ServerTypes, LoopStates
  <1>9. SlotsExact'
    <2>1. Range(table') = DOMAIN sessions' \ removed'
      <3>1. Range(table) = DOMAIN sessions \ removed /\ removed \subseteq DOMAIN sessions
        BY Zenon DEF ServerInv, SlotsExact, ServerTypes
      <3>2. Range(table') = Range(table) \cup {n}
        BY <1>6 DEF Range
      <3> QED
        BY Zenon, <1>1, <1>5, <3>1, <3>2
    <2>2. \A i \in DOMAIN table : table[i] \in DOMAIN sessions
      BY Zenon DEF ServerInv, ServerTypes
    <2>3. \A i \in DOMAIN table' : sessions'[table'[i]].id = i
      BY <1>4, <1>5, <1>6, <2>2 DEF ServerInv, SlotsExact
    <2>4. ASSUME NEW i \in DOMAIN table', NEW m \in DOMAIN sessions', sessions'[m].id = i
          PROVE  m <= table'[i]
      <3>1. CASE i = at.id
        BY <1>5, <1>6, <3>1
      <3>2. CASE i # at.id
        <4>1. i \in DOMAIN table /\ m # n
          BY Zenon, <1>4, <1>5, <1>6, <2>4, <3>2
        <4> QED
          BY Zenon, <1>5, <1>6, <2>4, <4>1 DEF ServerInv, SlotsExact
      <3> QED
        BY Zenon, <3>1, <3>2
    <2>5. at'.pc \notin {"allocate", "advance"}
      BY Zenon, <1>1 DEF Idle
    <2> QED
      BY Zenon, <1>7, <2>1, <2>3, <2>4, <2>5 DEF SlotsExact
  <1>10. MapTraced'
    <2> SUFFICES ASSUME NEW a \in DOMAIN addr_map'
                 PROVE  \E m \in DOMAIN sessions' :
                           sessions'[m] = [client |-> a[1], id |-> addr_map'[a]]
      BY Zenon DEF MapTraced
    <2>1. CASE a = First(at.client)
      <3>1. a[1] = at.client /\ addr_map'[a] = at.id
        BY Zenon, <1>1, <2>1 DEF First, Put
      <3> QED
        BY Zenon, <1>5, <3>1 DEF s
    <2>2. CASE a # First(at.client)
      <3>1. a \in DOMAIN addr_map /\ addr_map'[a] = addr_map[a]
        BY Zenon, <1>1, <2>2 DEF Put
      <3>2. PICK m \in DOMAIN sessions : sessions[m] = [client |-> a[1], id |-> addr_map[a]]
        BY Zenon, <3>1 DEF ServerInv, MapTraced
      <3> QED
        BY Zenon, <1>5, <3>1, <3>2
    <2> QED
      BY Zenon, <2>1, <2>2
  <1>11. ForeignOnlyThroughReuse'
    <2>1. /\ \A f \in foreign : f[1] \in DOMAIN sessions /\ f[2] \in DOMAIN sessions
          /\ removed \subseteq DOMAIN sessions
      BY Zenon DEF ServerInv, ServerTypes
    <2> QED
      BY <1>1, <1>5, <2>1 DEF ServerInv, ForeignOnlyThroughReuse
  <1>12. Ledger'
    BY Zenon, <1>1, LedgerStays
  <1> QED
    BY Zenon, <1>8, <1>9, <1>10, <1>11, <1>12 DEF ServerInv

\* Routing by source address: if the session at the mapped id is not one of
\* this client's, the entry's own session was kicked and its id reused.
LEMMA DataKeepsInv ==
    ASSUME ServerInv, NEW a \in Addrs, NEW n \in DOMAIN sessions, data_frame(a, n)
    PROVE  ServerInv'
  <1>1. /\ a[1] = sessions[n].client
        /\ foreign' = foreign \cup ((Routed(a) \ {n}) \X {n})
        /\ UNCHANGED <<clock, buckets, next_id, table, addr_map, at, sessions, removed, admitted>>
    BY Zenon DEF data_frame
  <1>2. ASSUME NEW t \in Routed(a)
        PROVE  /\ t \in DOMAIN sessions
               /\ \/ sessions[t].client = sessions[n].client
                  \/ \E m \in removed : /\ m < t
                                        /\ sessions[m] = [client |-> sessions[n].client,
                                                          id |-> sessions[t].id]
    <2>1. PICK i \in DOMAIN table : a \in DOMAIN addr_map /\ i = addr_map[a] /\ t = table[i]
      BY Zenon DEF Routed
    <2>2. t \in DOMAIN sessions /\ sessions[t].id = i
      BY Zenon, <2>1 DEF ServerInv, ServerTypes, SlotsExact
    <2>3. PICK m \in DOMAIN sessions : sessions[m] = [client |-> a[1], id |-> i]
      BY Zenon, <2>1 DEF ServerInv, MapTraced
    <2>4. CASE m = t
      BY <1>1, <2>2, <2>3, <2>4
    <2>5. CASE m # t
      <3>1. m \in removed
        <4>1. SUFFICES ASSUME m \notin removed PROVE FALSE
          BY Zenon
        <4>2. m \in Range(table)
          BY Zenon, <4>1 DEF ServerInv, SlotsExact
        <4>3. PICK j \in DOMAIN table : m = table[j]
          BY Zenon, <4>2 DEF Range
        <4>4. j = i
          BY <2>3, <4>3 DEF ServerInv, SlotsExact
        <4> QED
          BY Zenon, <2>1, <2>5, <4>3, <4>4
      <3>2. m <= t /\ m \in Nat /\ t \in Nat
        BY <2>1, <2>2, <2>3 DEF ServerInv, ServerTypes, SessionsType, SlotsExact
      <3> QED
        BY <1>1, <2>2, <2>3, <2>5, <3>1, <3>2
    <2> QED
      BY Zenon, <2>4, <2>5
  <1>3. ServerTypes' /\ SlotsExact'
    BY Zenon, <1>1, <1>2 DEF ServerInv, ServerTypes, SlotsExact
  <1>4. ForeignOnlyThroughReuse'
    <2> SUFFICES ASSUME NEW f \in foreign'
                 PROVE  \/ sessions[f[1]].client = sessions[f[2]].client
                        \/ \E m \in removed : /\ m < f[1]
                                              /\ sessions[m] = [client |-> sessions[f[2]].client,
                                                                id |-> sessions[f[1]].id]
      BY Zenon, <1>1 DEF ForeignOnlyThroughReuse
    <2>1. CASE f \in foreign
      BY Zenon, <2>1 DEF ServerInv, ForeignOnlyThroughReuse
    <2>2. CASE f \in (Routed(a) \ {n}) \X {n}
      BY <1>2, <2>2
    <2> QED
      BY Zenon, <1>1, <2>1, <2>2
  <1>5. MapTraced' /\ Ledger'
    BY Zenon, <1>1, LedgerStays DEF ServerInv, MapTraced
  <1> QED
    BY Zenon, <1>3, <1>4, <1>5 DEF ServerInv

\* remove_client: slots hold different sessions, so one kick removes one.
LEMMA KickKeepsInv ==
    ASSUME ServerInv, NEW i \in DOMAIN table, remove_client(i)
    PROVE  ServerInv'
  <1>1. /\ removed' = removed \cup {table[i]}
        /\ table' = [k \in DOMAIN table \ {i} |-> table[k]]
        /\ UNCHANGED <<clock, buckets, next_id, addr_map, at, sessions, admitted, foreign>>
    BY Zenon DEF remove_client, Restrict
  <1>2. /\ DOMAIN table' = DOMAIN table \ {i}
        /\ \A k \in DOMAIN table' : table'[k] = table[k]
        /\ table \in [DOMAIN table -> DOMAIN sessions]
    BY Zenon, <1>1 DEF ServerInv, ServerTypes
  <1>3. /\ IsFiniteSet(DOMAIN table')
        /\ Cardinality(DOMAIN table') <= Cardinality(DOMAIN table)
        /\ Cardinality(DOMAIN table') \in Nat /\ Cardinality(DOMAIN table) \in Nat
    BY Zenon, <1>2, FS_Subset, FS_CardinalityType DEF ServerInv, ServerTypes
  <1>4. ServerTypes'
    <2>1. table' \in [DOMAIN table' -> DOMAIN sessions']
      BY Zenon, <1>1, <1>2
    <2>2. removed' \subseteq DOMAIN sessions'
      BY Zenon, <1>1, <1>2 DEF ServerInv, ServerTypes
    <2> QED
      BY Zenon, <1>1, <1>3, <2>1, <2>2 DEF ServerInv, ServerTypes
  <1>5. SlotsExact'
    <2>1. \A k \in DOMAIN table \ {i} : table[k] # table[i]
      BY Zenon DEF ServerInv, SlotsExact
    <2>2. Range(table') = Range(table) \ {table[i]}
      BY Zenon, <1>2, <2>1 DEF Range
    <2>3. Range(table') = DOMAIN sessions' \ removed'
      BY Zenon, <1>1, <2>2 DEF ServerInv, SlotsExact
    <2>4. /\ Cardinality(DOMAIN table') <= max_clients
          /\ at.pc \in {"allocate", "advance"} => Cardinality(DOMAIN table') < max_clients
      BY <1>3, ServerAssumption DEF ServerInv, SlotsExact
    <2> QED
      BY Zenon, <1>1, <1>2, <2>3, <2>4 DEF ServerInv, SlotsExact
  <1>6. MapTraced' /\ Ledger'
    BY Zenon, <1>1, LedgerStays DEF ServerInv, MapTraced
  <1>7. ForeignOnlyThroughReuse'
    BY Zenon, <1>1 DEF ServerInv, ForeignOnlyThroughReuse
  <1> QED
    BY Zenon, <1>4, <1>5, <1>6, <1>7 DEF ServerInv

\* Every step of the loop, of an operator and of the clock keeps the invariant.
LEMMA ServerNextInv == ServerInv /\ [ServerNext]_server_vars => ServerInv'
  <1> SUFFICES ASSUME ServerInv, [ServerNext]_server_vars PROVE ServerInv'
    BY Zenon
  <1>1. ASSUME NEW c \in Clients, handshake_frame(c) PROVE ServerInv'
    BY Zenon, <1>1, HandshakeKeepsInv
  <1>2. CASE allocate_id
    BY Zenon, <1>2, AllocateKeepsInv
  <1>3. CASE advance_fails
    <2>1. /\ at' = Idle
          /\ UNCHANGED <<clock, buckets, next_id, table, addr_map, sessions, removed, admitted, foreign>>
      BY Zenon, <1>3 DEF advance_fails
    <2>2. ServerTypes' /\ SlotsExact'
      BY Zenon, <2>1 DEF ServerInv, ServerTypes, SlotsExact, LoopStates, Idle
    <2> QED
      BY Zenon, <2>1, <2>2, TableStays, LedgerStays DEF ServerInv
  <1>4. CASE advance_establishes
    BY Zenon, <1>4, EstablishKeepsInv
  <1>5. ASSUME NEW a \in Addrs, NEW n \in DOMAIN sessions, data_frame(a, n) PROVE ServerInv'
    BY Zenon, <1>5, DataKeepsInv
  <1>6. ASSUME NEW i \in DOMAIN table, remove_client(i) PROVE ServerInv'
    BY Zenon, <1>6, KickKeepsInv
  <1>7. ASSUME NEW t \in Clock, set_clock(t) PROVE ServerInv'
    <2>1. /\ clock' \in Nat
          /\ UNCHANGED <<buckets, next_id, table, addr_map, at, sessions, removed, admitted, foreign>>
      BY <1>7, RateLimitAssumption DEF set_clock, Clock
    <2>2. ServerTypes' /\ SlotsExact'
      BY Zenon, <2>1 DEF ServerInv, ServerTypes, SlotsExact
    <2> QED
      BY Zenon, <2>1, <2>2, TableStays, LedgerStays DEF ServerInv
  <1>8. CASE UNCHANGED server_vars
    <2>1. UNCHANGED <<clock, buckets, next_id, table, addr_map, at, sessions, removed, admitted, foreign>>
      BY Zenon, <1>8 DEF server_vars
    <2>2. ServerTypes' /\ SlotsExact'
      BY Zenon, <2>1 DEF ServerInv, ServerTypes, SlotsExact
    <2> QED
      BY Zenon, <2>1, <2>2, TableStays, LedgerStays DEF ServerInv
  <1> QED
    BY Zenon, <1>1, <1>2, <1>3, <1>4, <1>5, <1>6, <1>7, <1>8 DEF ServerNext

\* The inductive invariant holds in every reachable state.
LEMMA ServerAlways == ServerSpec => []ServerInv
  BY ServerInitInv, ServerNextInv, PTL DEF ServerSpec

----------------------------------------------------------------------------

(***************************************************************************)
(* accept_client_msg1 and remove_client keep the session table exact: it   *)
(* never exceeds max_clients, no session is pushed out of its slot, and    *)
(* every session that was not kicked is in it, for every id width.         *)
(***************************************************************************)
THEOREM TableStaysExact == ServerSpec => []TableIsExact
  <1>1. ServerInv => TableIsExact
    BY Zenon DEF ServerInv, SlotsExact, TableIsExact
  <1> QED
    BY <1>1, ServerAlways, PTL

(***************************************************************************)
(* handle_incoming hands a packet to another client's session only through *)
(* an id that a kick freed and allocate_id handed out again.               *)
(***************************************************************************)
THEOREM ReuseIsTheOnlyWay == ServerSpec => []ForeignOnlyThroughReuse
  <1>1. ServerInv => ForeignOnlyThroughReuse
    BY Zenon DEF ServerInv
  <1> QED
    BY <1>1, ServerAlways, PTL

(***************************************************************************)
(* try_admit lets a source through at most MAX_TOKENS times plus what the  *)
(* refill rate grants, for every rate, scale and behaviour of the clock.   *)
(***************************************************************************)
THEOREM AdmissionIsBounded == ServerSpec => []AdmissionBounded
  <1>1. ServerInv => AdmissionBounded
    <2> SUFFICES ASSUME ServerInv, NEW a \in DOMAIN buckets
                 PROVE  admitted[a[1]].count * Milli * SecondMs
                           <= MAX_TOKENS * Milli * SecondMs
                              + REFILL_MILLI_PER_SEC
                                * (buckets[a].last_refill_ms - admitted[a[1]].since)
      BY Zenon DEF AdmissionBounded
    <2>1. PICK c \in Clients : a = First(c)
      BY Zenon DEF ServerInv, Ledger
    <2>2. a[1] = c
      BY Zenon, <2>1 DEF First
    <2>3. /\ admitted[c] \in [count : Nat, since : Nat]
          /\ Balanced(buckets[a], admitted[c])
      BY Zenon, <2>1 DEF ServerInv, Ledger
    <2> DEFINE A == admitted[c].count * Milli * SecondMs
               B == MAX_TOKENS * Milli * SecondMs
                    + REFILL_MILLI_PER_SEC * (buckets[a].last_refill_ms - admitted[c].since)
               T == buckets[a].tokens_milli * SecondMs
    <2>4. A \in Int /\ B \in Int /\ T \in Nat /\ A + T <= B
      BY <2>3, RateLimitAssumption DEF Balanced
    <2>5. A <= B
      <3> HIDE DEF A, B, T
      <3> QED
        BY <2>4
    <2> QED
      BY Zenon, <2>2, <2>5
  <1> QED
    BY <1>1, ServerAlways, PTL

=============================================================================
