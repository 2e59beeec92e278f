---------------------------- MODULE TunnelProofs ----------------------------
(***************************************************************************)
(* The data path end to end, for any link table, window and header width.  *)
(*                                                                         *)
(* Delivery: the log of decisions is tied to the frames on the wire, and   *)
(* the packet in hand to both, between any two sends and swaps.  Sharing:  *)
(* the last links that round-robin chose are one packet ahead of the rest, *)
(* and the running totals of the weights cut the range of the draw into    *)
(* intervals as long as the weights.                                       *)
(***************************************************************************)
EXTENDS Tunnel, FiniteSetTheorems, WellFoundedInduction

\* A link as the table holds it.
LinkRecords == [id : LinkIds, weight : Nat, healthy : BOOLEAN]

----------------------------------------------------------------------------
(* The healthy links of a table.                                           *)

\* A set of numbers that is not empty has a least element.
LEMMA LeastNumber ==
    ASSUME NEW T \in SUBSET Nat, T # {}
    PROVE  \E m \in T : \A k \in T : m <= k
  <1>1. PICK m \in T : \A k \in T : <<k, m>> \notin OpToRel(<, Nat)
    BY WFMin, NatLessThanWellFounded, Zenon
  <1>2. \A k \in T : ~(k < m)
    BY <1>1, Zenon DEF OpToRel
  <1> QED
    BY <1>2

\* Ranks count: they start at one, end at the number of healthy links, and
\* grow from one healthy link to the next.
LEMMA RankCounts ==
    ASSUME NEW n \in Nat, NEW links \in [1 .. n -> LinkRecords]
    PROVE  /\ IsFiniteSet(Up(links)) /\ Cardinality(Up(links)) \in Nat
           /\ \A i \in 0 .. n : Rank(links, i) \in 0 .. Cardinality(Up(links))
           /\ Rank(links, 0) = 0 /\ Rank(links, n) = Cardinality(Up(links))
           /\ \A i \in 1 .. n : Rank(links, i) =
                 IF i \in Up(links) THEN Rank(links, i - 1) + 1 ELSE Rank(links, i - 1)
           /\ \A i, j \in Up(links) : i < j => Rank(links, i) < Rank(links, j)
           /\ \A i \in Up(links) : Rank(links, i) \in 1 .. Cardinality(Up(links))
  <1> DEFINE U == Up(links)
             Below(i) == {j \in U : j <= i}
  <1>1. U \subseteq 1 .. n /\ IsFiniteSet(U) /\ Cardinality(U) \in Nat
    <2>1. U \subseteq 1 .. n
      BY Zenon DEF Up
    <2>2. IsFiniteSet(1 .. n)
      BY FS_Interval
    <2>3. IsFiniteSet(U)
      BY Zenon, <2>1, <2>2, FS_Subset
    <2> QED
      BY Zenon, <2>1, <2>3, FS_CardinalityType
  <1> HIDE DEF U
  <1>a. \A i : Below(i) \subseteq U
    BY Zenon
  <1>b. \A i, j : j \in Below(i) <=> (j \in U /\ j <= i)
    BY Zenon
  <1>c. \A j \in U : j \in 1 .. n
    BY Zenon, <1>1
  <1>2. ASSUME NEW i
        PROVE  /\ IsFiniteSet(Below(i)) /\ Cardinality(Below(i)) \in Nat
               /\ Cardinality(Below(i)) <= Cardinality(U)
    <2> HIDE DEF Below
    <2>1. IsFiniteSet(Below(i)) /\ Cardinality(Below(i)) <= Cardinality(U)
      BY Zenon, <1>1, <1>a, FS_Subset
    <2> QED
      BY Zenon, <2>1, FS_CardinalityType
  <1>3. Below(0) = {} /\ Below(n) = U
    <2>1. \A j : j \notin Below(0)
      BY <1>b, <1>c
    <2>2. \A j \in U : j \in Below(n)
      BY <1>b, <1>c
    <2> HIDE DEF Below
    <2> QED
      BY Zenon, <1>a, <2>1, <2>2
  <1> HIDE DEF Below
  <1>4. ASSUME NEW i \in 1 .. n
        PROVE  Cardinality(Below(i)) = IF i \in U THEN Cardinality(Below(i - 1)) + 1
                                       ELSE Cardinality(Below(i - 1))
    <2> DEFINE before == Below(i - 1)
    <2>0. IsFiniteSet(before)
      BY Zenon, <1>2
    <2>1. CASE i \in U
      <3>1. i \notin before
        BY <1>b, <1>c, <2>1
      <3>2. Below(i) = before \cup {i}
        <4>0. \A j \in U : j <= i <=> (j <= i - 1 \/ j = i)
          BY <1>c
        <4>1. \A j : j \in Below(i) <=> (j \in before \/ j = i)
          BY Zenon, <1>b, <2>1, <4>0
        <4> QED
          BY Zenon, <4>1
      <3> HIDE DEF before
      <3>3. Cardinality(before \cup {i}) = Cardinality(before) + 1
        BY Zenon, <2>0, <3>1, FS_AddElement
      <3> QED
        BY Zenon, <2>1, <3>2, <3>3 DEF before
    <2>2. CASE i \notin U
      <3>1. Below(i) = before
        <4>1. \A j : j \in Below(i) <=> j \in before
          BY <1>b, <1>c, <2>2
        <4>2. \A S, T : (\A j \in S : j \in T) /\ (\A j \in T : j \in S) => S = T
          BY Zenon
        <4> QED
          BY <4>1, <4>2, Zenon
      <3> QED
        BY Zenon, <2>2, <3>1
    <2> QED
      BY Zenon, <2>1, <2>2
  <1>5. ASSUME NEW i \in U, NEW j \in U, i < j
        PROVE  Cardinality(Below(i)) < Cardinality(Below(j))
    <2> DEFINE rest_ == Below(j) \ {j}
    <2>1. Below(i) \subseteq rest_ /\ j \in Below(j)
      BY <1>b, <1>c, <1>5
    <2>2. /\ IsFiniteSet(Below(j)) /\ Cardinality(Below(j)) \in Nat
          /\ Cardinality(Below(i)) \in Nat
      BY Zenon, <1>2
    <2>3. IsFiniteSet(rest_) /\ Cardinality(rest_) = Cardinality(Below(j)) - 1
      BY Zenon, <2>1, <2>2, FS_RemoveElement
    <2> HIDE DEF rest_
    <2>4. Cardinality(Below(i)) <= Cardinality(rest_)
      BY Zenon, <2>1, <2>3, FS_Subset
    <2> QED
      BY <2>2, <2>3, <2>4
  <1>6. ASSUME NEW i \in U PROVE Cardinality(Below(i)) \in 1 .. Cardinality(U)
    <2>1. i \in Below(i)
      BY <1>b, <1>c
    <2>2. IsFiniteSet(Below(i)) /\ Cardinality(Below(i)) \in Nat
      BY Zenon, <1>2
    <2>3. Cardinality(Below(i)) # 0
      BY Zenon, <2>1, <2>2, FS_EmptySet
    <2> QED
      BY <1>1, <1>2, <2>2, <2>3
  <1>7. \A i : Rank(links, i) = Cardinality(Below(i))
    BY Zenon DEF Rank, U, Below
  <1>8. Rank(links, 0) = 0
    BY Zenon, <1>3, <1>7, FS_EmptySet
  <1>9. \A i \in 1 .. n : Rank(links, i) =
                 IF i \in U THEN Rank(links, i - 1) + 1 ELSE Rank(links, i - 1)
    BY Zenon, <1>4, <1>7
  <1>10. \A i, j \in U : i < j => Rank(links, i) < Rank(links, j)
    BY Zenon, <1>5, <1>7
  <1>11. \A i \in U : Rank(links, i) \in 1 .. Cardinality(U)
    BY Zenon, <1>6, <1>7
  <1>12. \A i \in 0 .. n : Rank(links, i) \in 0 .. Cardinality(U)
    BY <1>1, <1>2, <1>7
  <1>13. Rank(links, n) = Cardinality(U)
    BY Zenon, <1>3, <1>7
  <1> QED
    BY Zenon, <1>1, <1>8, <1>9, <1>10, <1>11, <1>12, <1>13 DEF U

\* Every rank is the rank of a healthy link.
LEMMA RankOnto ==
    ASSUME NEW n \in Nat, NEW links \in [1 .. n -> LinkRecords],
           NEW k \in 1 .. Cardinality(Up(links))
    PROVE  \E i \in Up(links) : Rank(links, i) = k
  <1> DEFINE U == Up(links)
             T == {i \in 1 .. n : Rank(links, i) >= k}
  <1>1. /\ \A i \in 0 .. n : Rank(links, i) \in Nat
        /\ Rank(links, 0) = 0 /\ Rank(links, n) = Cardinality(U) /\ Cardinality(U) \in Nat
        /\ \A i \in 1 .. n : Rank(links, i) =
              IF i \in U THEN Rank(links, i - 1) + 1 ELSE Rank(links, i - 1)
    BY RankCounts
  <1> HIDE DEF U
  <1>2. k \in Nat \ {0} /\ k <= Cardinality(U)
    BY <1>1 DEF U
  <1>3. n \in T
    BY <1>1, <1>2
  <1>4. PICK i \in T : \A j \in T : i <= j
    <2>1. T \in SUBSET Nat /\ T # {}
      BY <1>3
    <2> HIDE DEF T
    <2> QED
      BY Zenon, <2>1, LeastNumber
  <1>5. Rank(links, i - 1) < k
    <2>1. CASE i = 1
      BY <1>1, <1>2, <2>1
    <2>2. CASE i # 1
      <3>1. i - 1 \in 1 .. n /\ i - 1 \notin T
        BY <1>4, <2>2
      <3> QED
        BY <1>1, <1>2, <3>1
    <2> QED
      BY Zenon, <2>1, <2>2
  <1>6. i \in U /\ Rank(links, i) = k
    BY <1>1, <1>2, <1>4, <1>5
  <1> QED
    BY Zenon, <1>6 DEF U

\* LinkTable::healthy returns the healthy links, each once.
LEMMA HealthyLinks ==
    ASSUME NEW n \in Nat, NEW links \in [1 .. n -> LinkRecords]
    PROVE  /\ Cardinality(Up(links)) \in Nat
           /\ healthy(links) \in [1 .. Cardinality(Up(links)) -> LinkRecords]
           /\ \A k \in 1 .. Cardinality(Up(links)) :
                 \E i \in Up(links) : Rank(links, i) = k /\ healthy(links)[k] = links[i]
           /\ \A i \in Up(links) : /\ Rank(links, i) \in 1 .. Cardinality(Up(links))
                                   /\ healthy(links)[Rank(links, i)] = links[i]
  <1> DEFINE U == Up(links)
             m == Cardinality(U)
             Nth(k) == CHOOSE i \in U : Rank(links, i) = k
  <1>1. m \in Nat /\ U \subseteq 1 .. n
    BY Zenon, RankCounts DEF Up
  <1>2. \A k \in 1 .. m : Nth(k) \in U /\ Rank(links, Nth(k)) = k
    BY Zenon, RankOnto
  <1>3. healthy(links) = [k \in 1 .. m |-> links[Nth(k)]]
    BY Zenon DEF healthy
  <1>4. ASSUME NEW i \in U PROVE Rank(links, i) \in 1 .. m /\ Nth(Rank(links, i)) = i
    <2>1. Rank(links, i) \in 1 .. m
      BY Zenon, RankCounts
    <2>2. \A j \in U : (i < j => Rank(links, i) < Rank(links, j))
                       /\ (j < i => Rank(links, j) < Rank(links, i))
      BY Zenon, RankCounts
    <2>3. \A j \in U : Rank(links, j) \in Nat /\ j \in Nat
      BY <1>1, RankCounts
    <2> QED
      BY <1>1, <1>2, <2>1, <2>2, <2>3
  <1> HIDE DEF U, m, Nth
  <1>5. healthy(links) \in [1 .. m -> LinkRecords]
    BY Zenon, <1>1, <1>2, <1>3
  <1>6. \A k \in 1 .. m : \E i \in U : Rank(links, i) = k /\ healthy(links)[k] = links[i]
    BY Zenon, <1>2, <1>3
  <1>7. \A i \in U : Rank(links, i) \in 1 .. m /\ healthy(links)[Rank(links, i)] = links[i]
    BY Zenon, <1>3, <1>4
  <1> QED
    BY Zenon, <1>1, <1>5, <1>6, <1>7 DEF U, m
----------------------------------------------------------------------------
(* What a strategy may select.                                             *)

\* A sampler chooses a position of the weights it walks over.
LEMMA SampledInRange ==
    ASSUME NEW m \in Nat \ {0}, NEW weights, DOMAIN weights = 1 .. m,
           Len(weights) = m, NEW draws
    PROVE  Sampled(weights, draws) \subseteq 1 .. m
  <1>1. ASSUME NEW pick PROVE CumulativePick(weights, pick) \in 1 .. m
    <2> DEFINE stops == {i \in DOMAIN weights : pick < Cumulative(weights, i)}
    <2>1. CASE stops = {}
      BY <2>1 DEF CumulativePick
    <2>2. CASE stops # {}
      <3>1. stops \in SUBSET Nat /\ stops \subseteq 1 .. m
        OBVIOUS
      <3>2. CumulativePick(weights, pick) = CHOOSE i \in stops : \A j \in stops : i <= j
        BY Zenon, <2>2 DEF CumulativePick
      <3> HIDE DEF stops
      <3>3. \E i \in stops : \A j \in stops : i <= j
        BY Zenon, <2>2, <3>1, LeastNumber
      <3> QED
        BY Zenon, <3>1, <3>2, <3>3
    <2> QED
      BY Zenon, <2>1, <2>2
  <1> QED
    BY Zenon, <1>1 DEF Sampled

\* The round-robin index is a position of the healthy links.
LEMMA IndexInRange ==
    ASSUME NEW m \in Nat \ {0}, NEW cur \in Nat
    PROVE  (cur % m) + 1 \in 1 .. m
  OBVIOUS

\* The links of the table of this moment whose flag is up.
UpIn(links) == {links[i].id : i \in Up(links)}

\* The ids of LinkTable::healthy: those of the links that are up, each once.
LEMMA HealthyIds ==
    ASSUME NEW n \in Nat, NEW links \in [1 .. n -> LinkRecords],
           \A i, j \in 1 .. n : links[i].id = links[j].id => i = j
    PROVE  /\ Len(healthy(links)) \in Nat
           /\ healthy(links) \in [1 .. Len(healthy(links)) -> LinkRecords]
           /\ healthy(links) \in Seq(LinkRecords)
           /\ \A k, l \in 1 .. Len(healthy(links)) :
                 healthy(links)[k].id = healthy(links)[l].id => k = l
           /\ UpIn(links) = {healthy(links)[k].id : k \in 1 .. Len(healthy(links))}
           /\ \A k \in 1 .. Len(healthy(links)) : healthy(links)[k].id \in LinkIds
  <1> DEFINE m == Cardinality(Up(links))
             h == healthy(links)
  <1>1. m \in Nat /\ h \in [1 .. m -> LinkRecords] /\ h \in Seq(LinkRecords) /\ Len(h) = m
    BY HealthyLinks
  <1>2. \A k \in 1 .. m : \E i \in Up(links) : Rank(links, i) = k /\ h[k] = links[i]
    BY Zenon, HealthyLinks
  <1>3. \A i \in Up(links) : Rank(links, i) \in 1 .. m /\ h[Rank(links, i)] = links[i]
    BY Zenon, HealthyLinks
  <1>4. Up(links) \subseteq 1 .. n
    BY Zenon DEF Up
  <1>5. \A k, l \in 1 .. m : h[k].id = h[l].id => k = l
    BY <1>2, <1>4
  <1>6. UpIn(links) = {h[k].id : k \in 1 .. m}
    <2>1. ASSUME NEW i \in Up(links) PROVE links[i].id \in {h[k].id : k \in 1 .. m}
      BY Zenon, <1>3
    <2>2. ASSUME NEW k \in 1 .. m PROVE h[k].id \in UpIn(links)
      BY Zenon, <1>2 DEF UpIn
    <2> QED
      BY <2>1, <2>2 DEF UpIn
  <1>7. \A k \in 1 .. m : h[k].id \in LinkIds
    BY Zenon, <1>1 DEF LinkRecords
  <1> HIDE DEF m, h
  <1>8. /\ Len(h) \in Nat /\ h \in [1 .. Len(h) -> LinkRecords] /\ h \in Seq(LinkRecords)
        /\ \A k, l \in 1 .. Len(h) : h[k].id = h[l].id => k = l
        /\ UpIn(links) = {h[k].id : k \in 1 .. Len(h)}
        /\ \A k \in 1 .. Len(h) : h[k].id \in LinkIds
    BY Zenon, <1>1, <1>5, <1>6, <1>7
  <1> QED
    BY Zenon, <1>8 DEF h

(***************************************************************************)
(* A sound selection: healthy links only, none twice; all of them if the   *)
(* strategy is redundant, one of them at most otherwise, and none only if  *)
(* there is none.                                                          *)
(***************************************************************************)
Sound(sel, name, links) ==
    /\ sel \in Seq(LinkIds)
    /\ \A i, j \in DOMAIN sel : sel[i] = sel[j] => i = j
    /\ Range(sel) \subseteq UpIn(links)
    /\ name = "redundant" => Range(sel) = UpIn(links)
    /\ name # "redundant" => Len(sel) <= 1
    /\ sel = << >> => UpIn(links) = {}

\* LinkScheduler::schedule selects soundly, whatever the strategy.
LEMMA SelectionIsSound ==
    ASSUME NEW n \in Nat, NEW links \in [1 .. n -> LinkRecords],
           \A i, j \in 1 .. n : links[i].id = links[j].id => i = j,
           NEW name \in Strategy, NEW cur \in Nat, NEW scores,
           NEW sel \in schedule(name, links, cur, scores)
    PROVE  Sound(sel, name, links)
  <1> USE DEF Sound
  <1> DEFINE h == healthy(links)
             m == Len(h)
  <1>1. m \in Nat /\ h \in [1 .. m -> LinkRecords] /\ h \in Seq(LinkRecords)
    BY Zenon, HealthyIds
  <1>5. \A k, l \in 1 .. m : h[k].id = h[l].id => k = l
    BY Zenon, HealthyIds
  <1>6. UpIn(links) = {h[k].id : k \in 1 .. m}
    BY Zenon, HealthyIds
  <1>7. \A k \in 1 .. m : h[k].id \in LinkIds
    BY Zenon, HealthyIds
  <1>8. CASE h = << >>
    <2>1. sel = << >>
      BY Zenon, <1>8 DEF schedule
    <2>2. m = 0
      BY <1>1, <1>8
    <2>3. UpIn(links) = {} /\ Range(sel) = {}
      BY <1>6, <2>1, <2>2 DEF Range
    <2> QED
      BY <2>1, <2>3
  <1>9. CASE h # << >> /\ name = "redundant"
    <2>1. sel = [k \in 1 .. m |-> h[k].id]
      BY Zenon, <1>1, <1>9 DEF schedule
    <2>2. sel \in [1 .. m -> LinkIds] /\ DOMAIN sel = 1 .. m /\ m # 0
      BY <1>1, <1>7, <1>9, <2>1
    <2>3. Range(sel) = UpIn(links)
      BY Zenon, <1>6, <2>1 DEF Range
    <2>4. sel \in Seq(LinkIds) /\ sel # << >>
      BY <1>1, <2>2
    <2> QED
      BY Zenon, <1>5, <1>9, <2>1, <2>2, <2>3, <2>4
  <1>10. CASE h # << >> /\ name # "redundant"
    <2>1. m \in Nat \ {0}
      BY <1>1, <1>10
    <2>2. \E k \in 1 .. m : sel = <<h[k].id>>
      <3> DEFINE w == Weights(h)
                 a == [i \in DOMAIN h |-> scores[h[i].id]]
      <3>1. CASE name = "round-robin"
        <4>1. sel = <<h[(cur % Len(h)) + 1].id>>
          BY Zenon, <1>10, <3>1 DEF schedule
        <4> QED
          BY Zenon, <1>1, <2>1, <4>1, IndexInRange
      <3>2. CASE name = "weighted"
        <4>1. \E k \in Sampled(w, WeightedDraws(w)) : sel = <<h[k].id>>
          BY Zenon, <1>10, <3>2 DEF schedule
        <4>2. DOMAIN w = 1 .. m /\ Len(w) = m
          BY <1>1 DEF Weights
        <4> HIDE DEF w
        <4>3. Sampled(w, WeightedDraws(w)) \subseteq 1 .. m
          BY Zenon, <2>1, <4>2, SampledInRange
        <4> QED
          BY Zenon, <4>1, <4>3
      <3>3. CASE name = "latency-adaptive"
        <4>1. \E k \in Sampled(a, AdaptiveDraws(a)) : sel = <<h[k].id>>
          BY Zenon, <1>10, <3>3 DEF schedule
        <4>2. DOMAIN a = 1 .. m /\ Len(a) = m
          BY <1>1
        <4> HIDE DEF a
        <4>3. Sampled(a, AdaptiveDraws(a)) \subseteq 1 .. m
          BY Zenon, <2>1, <4>2, SampledInRange
        <4> QED
          BY Zenon, <4>1, <4>3
      <3> QED
        BY Zenon, <1>10, <3>1, <3>2, <3>3 DEF Strategy
    <2>3. PICK k \in 1 .. m : sel = <<h[k].id>>
      BY Zenon, <2>2
    <2>4. sel \in Seq(LinkIds) /\ DOMAIN sel = {1} /\ Len(sel) = 1 /\ sel # << >>
      BY <1>7, <2>3
    <2>5. Range(sel) = {h[k].id}
      BY <2>3, <2>4 DEF Range
    <2>6. Range(sel) \subseteq UpIn(links)
      BY Zenon, <1>6, <2>5
    <2> QED
      BY <1>10, <2>4, <2>6
  <1> QED
    BY Zenon, <1>8, <1>9, <1>10

----------------------------------------------------------------------------
(* The inductive invariant.                                                *)

Held == [name : Strategy, cursor : Nat, current : BOOLEAN]

Positions == 1 .. Len(Table)

\* An entry of the log.
Entries == [strategy : Strategy \cup {"refused"}, healthy : SUBSET LinkIds]

TunnelTypes ==
    /\ table \in [Positions -> LinkRecords]
    /\ \A i \in Positions : table[i].id = Table[i].id
    /\ strategy \in Strategy
    /\ cursor \in Nat /\ cursor < Usize
    /\ counter \in Nat
    /\ loaded \in Held \cup {NoStrategy}
    /\ rest \in Seq(LinkIds)
    /\ wire \subseteq LinkIds \X SeqNo
    /\ failed \subseteq LinkIds \X SeqNo
    /\ IsFiniteSet(wire)
    /\ window \in Windows
    /\ metrics \in [packets_sent : Nat, replay_drops : Nat]
    /\ accepts \in [SeqNo -> Nat]
    /\ log \in Seq(Entries)
    /\ picks \in [LinkIds -> Nat]
    /\ wraps \in Nat

\* The log has an entry per packet, but for one that is not scheduled yet.
Logged ==
    /\ counter <= MaxSeq + 1
    /\ loaded = NoStrategy => Len(log) = counter
    /\ loaded # NoStrategy => Len(log) = counter - 1 /\ rest = << >>
    /\ \A f \in wire \cup failed : f[2] + 1 \in DOMAIN log

\* The packet in hand goes on to healthy links that have not seen it yet.
InHand ==
    rest # << >> =>
        LET entry == log[counter]
            sent == {l \in LinkIds : <<l, SeqInHand>> \in wire}
        IN  /\ loaded = NoStrategy /\ counter > 0
            /\ Range(rest) \subseteq entry.healthy
            /\ \A i, j \in DOMAIN rest : rest[i] = rest[j] => i = j
            /\ \A f \in failed : f[2] # SeqInHand
            /\ entry.strategy = "redundant" =>
                  sent = (entry.healthy \ Range(rest)) \cap Sockets
            /\ entry.strategy # "redundant" => Len(rest) = 1 /\ sent = {}

\* The window refuses what was let through before.
WindowRefuses == \A s \in SeqNo : accepts[s] > 0 => Check(window, s) # "Ok"

\* The inductive invariant of the delivery.
TunnelInv == TunnelTypes /\ Logged /\ InHand /\ WindowRefuses /\ EndToEnd

\* What is left of a selection after its first link.
LEMMA TailOfSelection ==
    ASSUME NEW sel \in Seq(LinkIds), sel # << >>,
           \A i, j \in DOMAIN sel : sel[i] = sel[j] => i = j
    PROVE  /\ Tail(sel) \in Seq(LinkIds) /\ Head(sel) \in Range(sel) /\ Head(sel) \in LinkIds
           /\ Range(sel) = Range(Tail(sel)) \cup {Head(sel)}
           /\ Head(sel) \notin Range(Tail(sel))
           /\ Len(Tail(sel)) = Len(sel) - 1
           /\ \A i, j \in DOMAIN Tail(sel) : Tail(sel)[i] = Tail(sel)[j] => i = j
  <1> DEFINE n == Len(sel)
             tail == Tail(sel)
  <1>1. n \in Nat /\ n > 0 /\ DOMAIN sel = 1 .. n /\ Head(sel) = sel[1] /\ sel[1] \in LinkIds
    OBVIOUS
  <1>2. /\ tail \in Seq(LinkIds) /\ Len(tail) = n - 1 /\ DOMAIN tail = 1 .. (n - 1)
        /\ \A i \in 1 .. (n - 1) : tail[i] = sel[i + 1]
    OBVIOUS
  <1> HIDE DEF n, tail
  <1>3. Range(sel) = Range(tail) \cup {sel[1]}
    <2>1. \A i \in 1 .. n : i = 1 \/ (i - 1 \in 1 .. (n - 1) /\ sel[i] = tail[i - 1])
      BY <1>1, <1>2
    <2>2. \A i \in 1 .. (n - 1) : i + 1 \in 1 .. n /\ tail[i] = sel[i + 1]
      BY <1>1, <1>2
    <2>3. 1 \in 1 .. n
      BY <1>1
    <2>4. ASSUME NEW x \in Range(sel) PROVE x \in Range(tail) \cup {sel[1]}
      <3>1. PICK i \in 1 .. n : x = sel[i]
        BY Zenon, <1>1 DEF Range
      <3>2. \A k \in 1 .. (n - 1) : tail[k] \in Range(tail)
        BY Zenon, <1>2 DEF Range
      <3> QED
        BY Zenon, <2>1, <3>1, <3>2
    <2>5. ASSUME NEW x \in Range(tail) PROVE x \in Range(sel)
      BY <1>1, <1>2, <2>2 DEF Range
    <2>6. sel[1] \in Range(sel)
      BY Zenon, <1>1, <2>3 DEF Range
    <2> QED
      BY Zenon, <2>4, <2>5, <2>6
  <1>4. sel[1] \notin Range(tail)
    <2>1. \A i \in 1 .. (n - 1) : tail[i] # sel[1]
      <3> TAKE i \in 1 .. (n - 1)
      <3>1. i + 1 \in 1 .. n /\ 1 \in 1 .. n /\ i + 1 # 1 /\ tail[i] = sel[i + 1]
        BY <1>1, <1>2
      <3> QED
        BY Zenon, <1>1, <3>1
    <2> QED
      BY Zenon, <1>2, <2>1 DEF Range
  <1>5. ASSUME NEW i \in 1 .. (n - 1), NEW j \in 1 .. (n - 1), tail[i] = tail[j]
        PROVE  i = j
    <2>1. i + 1 \in 1 .. n /\ j + 1 \in 1 .. n /\ sel[i + 1] = sel[j + 1]
      BY <1>1, <1>2, <1>5
    <2>2. i + 1 = j + 1
      BY Zenon, <1>1, <2>1
    <2> QED
      BY <1>1, <2>2
  <1>6. Head(sel) \in Range(sel)
    BY <1>1 DEF Range
  <1> QED
    BY Zenon, <1>1, <1>2, <1>3, <1>4, <1>5, <1>6 DEF n, tail

\* The table a client starts with: links with distinct ids.
LEMMA TableAtStart ==
    /\ Len(Table) \in Nat /\ Table \in [Positions -> LinkRecords]
    /\ \A i, j \in Positions : Table[i].id = Table[j].id => i = j
  <1>1. Table \in Seq(LinkRecords)
    BY Zenon, TunnelAssumption DEF LinkRecords
  <1>2. DOMAIN Table = Positions /\ Len(Table) \in Nat
    BY <1>1 DEF Positions
  <1>3. Table \in [Positions -> LinkRecords]
    BY <1>1 DEF Positions
  <1> QED
    BY Zenon, <1>2, <1>3, TunnelAssumption

\* Before the first packet.
LEMMA TunnelInitInv == Init => TunnelInv
  <1> SUFFICES ASSUME Init PROVE TunnelInv
    BY Zenon
  <1> USE DEF Init
  <1>1. TunnelTypes
    <2>1. Table \in [Positions -> LinkRecords]
      BY Zenon, TableAtStart
    <2>2. window \in Windows
      BY AntiReplayAssumption DEF new, Windows, SeqNo
    <2>3. IsFiniteSet(wire)
      BY Zenon, FS_EmptySet
    <2> QED
      BY <2>1, <2>2, <2>3, TunnelAssumption DEF TunnelTypes
  <1>2. Logged
    BY AntiReplayAssumption DEF Logged
  <1>3. InHand
    BY Zenon DEF InHand
  <1>4. WindowRefuses /\ AppSeesOnce
    BY DEF WindowRefuses, AppSeesOnce
  <1>5. FanOut /\ LostForAReason
    BY FS_EmptySet DEF FanOut, LostForAReason
  <1> QED
    BY Zenon, <1>1, <1>2, <1>3, <1>4, <1>5 DEF TunnelInv, EndToEnd

\* Sealing takes the next sequence number and the strategy of the moment.
LEMMA SealInv == TunnelInv /\ seal => TunnelInv'
  <1> SUFFICES ASSUME TunnelInv, seal PROVE TunnelInv'
    BY Zenon
  <1> USE DEF seal, Engine, Receiver
  <1>0. /\ TunnelTypes /\ Logged /\ InHand /\ WindowRefuses
        /\ AppSeesOnce /\ FanOut /\ LostForAReason
    BY Zenon DEF TunnelInv, EndToEnd
  <1>1. loaded' \in Held /\ loaded' # NoStrategy
    <2>1. strategy \in Strategy /\ cursor \in Nat
      BY Zenon, <1>0 DEF TunnelTypes
    <2>2. loaded'.name # "none"
      BY Zenon, <2>1 DEF Strategy
    <2> QED
      BY Zenon, <2>1, <2>2 DEF Held, NoStrategy
  <1>2. TunnelTypes'
    BY <1>0, <1>1 DEF TunnelTypes
  <1>3. Logged'
    BY <1>0, <1>1, AntiReplayAssumption DEF Logged, SeqNo, TunnelTypes
  <1>4. InHand'
    BY Zenon DEF InHand
  <1>5. WindowRefuses' /\ AppSeesOnce'
    BY Zenon, <1>0 DEF WindowRefuses, AppSeesOnce
  <1>6. FanOut'
    BY Zenon, <1>0 DEF FanOut
  <1>7. LostForAReason'
    BY Zenon, <1>0 DEF LostForAReason
  <1> QED
    BY Zenon, <1>2, <1>3, <1>4, <1>5, <1>6, <1>7 DEF TunnelInv, EndToEnd

\* A packet that is refused after sealing is logged as such.
LEMMA SealRefusedInv == TunnelInv /\ seal_refused => TunnelInv'
  <1> SUFFICES ASSUME TunnelInv, seal_refused PROVE TunnelInv'
    BY Zenon
  <1>0. /\ TunnelTypes /\ Logged /\ InHand /\ WindowRefuses
        /\ AppSeesOnce /\ FanOut /\ LostForAReason
    BY Zenon DEF TunnelInv, EndToEnd
  <1> DEFINE entry == [strategy |-> "refused", healthy |-> {}]
  <1>1. /\ UNCHANGED <<table, strategy, cursor, swaps, loaded, rest, wire, failed, metrics,
                       window, accepts, picks, wraps>>
        /\ rest = << >> /\ loaded = NoStrategy /\ counter \in SeqNo
        /\ counter' = counter + 1 /\ log' = Append(log, entry)
    BY Zenon DEF seal_refused, Engine, Receiver
  <1>2. counter \in Nat /\ Len(log) = counter /\ log \in Seq(Entries) /\ counter' <= MaxSeq + 1
    <2>1. counter \in 0 .. MaxSeq /\ MaxSeq \in Nat
      BY Zenon, <1>1, AntiReplayAssumption DEF SeqNo
    <2>2. Len(log) = counter /\ log \in Seq(Entries)
      BY Zenon, <1>0, <1>1 DEF Logged, TunnelTypes
    <2> QED
      BY <1>1, <2>1, <2>2
  <1>3. entry \in Entries
    BY Zenon DEF Entries
  <1>4. /\ log' \in Seq(Entries) /\ Len(log') = counter' /\ log'[counter'] = entry
        /\ \A s \in DOMAIN log : s \in DOMAIN log' /\ log'[s] = log[s]
        /\ \A s \in DOMAIN log' : s \in DOMAIN log \/ s = counter'
    <2> HIDE DEF entry
    <2> QED
      BY <1>1, <1>2, <1>3
  <1>5. entry.strategy = "refused"
    OBVIOUS
  <1> HIDE DEF entry
  <1>6. counter' \in Nat
    BY <1>1, <1>2
  <1>7. TunnelTypes'
    BY Zenon, <1>0, <1>1, <1>4, <1>6 DEF TunnelTypes
  <1>8. \A f \in wire \cup failed : f[2] + 1 \in DOMAIN log
    BY Zenon, <1>0 DEF Logged
  <1>9. Logged'
    BY Zenon, <1>1, <1>2, <1>4, <1>8 DEF Logged
  <1>10. InHand'
    BY Zenon, <1>1 DEF InHand
  <1>11. WindowRefuses' /\ AppSeesOnce'
    BY Zenon, <1>0, <1>1 DEF WindowRefuses, AppSeesOnce
  <1>12. FanOut'
    BY SMTT(30), <1>0, <1>1, <1>4, <1>8 DEF FanOut
  <1>13. LostForAReason'
    <2> SUFFICES ASSUME NEW s \in DOMAIN log'
                 PROVE  LET up == log'[s].healthy
                            sent == {l \in LinkIds : <<l, s - 1>> \in wire}
                        IN  \/ rest' # << >> /\ s = counter'
                            \/ log'[s].strategy = "refused"
                            \/ \E l \in LinkIds : <<l, s - 1>> \in failed
                            \/ log'[s].strategy = "redundant" /\ sent = up \cap Sockets
                            \/ /\ log'[s].strategy # "redundant"
                               /\ sent # {} \/ up = {} \/ up \ Sockets # {}
      BY Zenon, <1>1 DEF LostForAReason
    <2>1. CASE s = counter'
      BY Zenon, <1>4, <1>5, <2>1
    <2>2. CASE s \in DOMAIN log
      BY Zenon, <1>0, <1>1, <1>4, <2>2 DEF LostForAReason
    <2> QED
      BY Zenon, <1>4, <2>1, <2>2
  <1> QED
    BY Zenon, <1>7, <1>9, <1>10, <1>11, <1>12, <1>13 DEF TunnelInv, EndToEnd

\* The held strategy's decision is over the table of this moment.
LEMMA ScheduleInv == TunnelInv /\ schedule_links => TunnelInv'
  <1> SUFFICES ASSUME TunnelInv, schedule_links PROVE TunnelInv'
    BY Zenon
  <1>0. /\ TunnelTypes /\ Logged /\ InHand /\ WindowRefuses
        /\ AppSeesOnce /\ FanOut /\ LostForAReason
    BY Zenon DEF TunnelInv, EndToEnd
  <1>1. loaded \in Held /\ counter \in Nat /\ log \in Seq(Entries)
    BY Zenon, <1>0 DEF TunnelTypes, schedule_links
  <1>2. Len(log) = counter - 1 /\ rest = << >>
    BY Zenon, <1>0 DEF Logged, schedule_links
  <1>3. /\ UNCHANGED <<table, strategy, swaps, counter, wire, failed, metrics, window, accepts>>
        /\ loaded' = NoStrategy
    BY Zenon DEF schedule_links, Receiver
  <1> DEFINE entry == [strategy |-> loaded.name, healthy |-> UpIn(table)]
  <1>4. log' = Append(log, entry)
    BY Zenon DEF schedule_links, UpIds, UpIn
  <1>5. PICK sel \in schedule(loaded.name, table, loaded.cursor, DefaultScores) :
            /\ rest' = sel
            /\ picks' = [l \in LinkIds |->
                            IF loaded.current /\ l \in Range(sel)
                            THEN picks[l] + 1 ELSE picks[l]]
            /\ cursor' = IF sel = << >> \/ ~loaded.current THEN cursor ELSE NextCursor
            /\ wraps' = IF sel # << >> /\ loaded.current /\ Broken THEN wraps + 1 ELSE wraps
    BY Zenon DEF schedule_links
  <1>6. /\ sel \in Seq(LinkIds)
        /\ \A i, j \in DOMAIN sel : sel[i] = sel[j] => i = j
        /\ Range(sel) \subseteq UpIn(table)
        /\ loaded.name = "redundant" => Range(sel) = UpIn(table)
        /\ loaded.name # "redundant" => Len(sel) <= 1
        /\ sel = << >> => UpIn(table) = {}
    <2>1. Len(Table) \in Nat /\ table \in [1 .. Len(Table) -> LinkRecords]
      BY Zenon, <1>0, TableAtStart DEF TunnelTypes, Positions
    <2>2. \A i, j \in 1 .. Len(Table) : table[i].id = table[j].id => i = j
      BY Zenon, <1>0, TableAtStart DEF TunnelTypes, Positions
    <2>3. loaded.name \in Strategy /\ loaded.cursor \in Nat
      BY Zenon, <1>1 DEF Held
    <2>4. Sound(sel, loaded.name, table)
      BY Zenon, <2>1, <2>2, <2>3, SelectionIsSound
    <2> QED
      BY Zenon, <2>4 DEF Sound
  <1>7. UpIn(table) \subseteq LinkIds
    <2>1. \A i \in Up(table) : table[i] \in LinkRecords
      BY Zenon, <1>0 DEF TunnelTypes, Up
    <2> QED
      BY Zenon, <2>1 DEF UpIn, LinkRecords
  <1>8. entry \in Entries
    BY Zenon, <1>1, <1>7 DEF Held, Entries
  <1>9. /\ log' \in Seq(Entries)
        /\ Len(log') = counter /\ log'[counter] = entry
        /\ \A s \in DOMAIN log : s \in DOMAIN log' /\ s < counter /\ log'[s] = log[s]
        /\ \A s \in DOMAIN log' : s \in DOMAIN log \/ s = counter
        /\ counter \in DOMAIN log' /\ counter > 0
    <2> HIDE DEF entry
    <2> QED
      BY <1>1, <1>2, <1>4, <1>8
  <1>10. \A f \in wire \cup failed : f[2] + 1 \in DOMAIN log /\ f[2] # counter - 1
    <2>1. \A f \in wire \cup failed : f[2] \in Nat
      BY SMTT(30), <1>0, AntiReplayAssumption DEF TunnelTypes, SeqNo
    <2> QED
      BY <1>0, <1>1, <1>9, <2>1 DEF Logged
  <1>11. TunnelTypes'
    <2>1. cursor' \in Nat /\ cursor' < Usize /\ wraps' \in Nat
      <3>1. cursor \in Nat /\ cursor < Usize /\ wraps \in Nat
        BY Zenon, <1>0 DEF TunnelTypes
      <3>2. NextCursor \in Nat /\ NextCursor < Usize
        BY <3>1, TunnelAssumption DEF NextCursor
      <3>3. cursor' \in {cursor, NextCursor} /\ wraps' \in {wraps, wraps + 1}
        BY Zenon, <1>5
      <3> QED
        BY <3>1, <3>2, <3>3
    <2>2. picks' \in [LinkIds -> Nat]
      BY <1>0, <1>5 DEF TunnelTypes
    <2> QED
      BY Zenon, <1>0, <1>3, <1>5, <1>6, <1>9, <2>1, <2>2 DEF TunnelTypes
  <1>12. Logged'
    BY Zenon, <1>0, <1>3, <1>9, <1>10 DEF Logged
  <1>13. InHand'
    <2> SUFFICES ASSUME sel # << >> PROVE InHand'
      BY Zenon, <1>5 DEF InHand
    <2>1. {l \in LinkIds : <<l, counter - 1>> \in wire} = {}
      BY <1>10
    <2>2. \A f \in failed : f[2] # counter - 1
      BY Zenon, <1>10
    <2>3. loaded.name # "redundant" => Len(sel) = 1
      BY <1>6
    <2>4. log'[counter].healthy = UpIn(table) /\ log'[counter].strategy = loaded.name
      BY <1>9
    <2>5. loaded.name = "redundant" => {} = (UpIn(table) \ Range(sel)) \cap Sockets
      BY Zenon, <1>6
    <2> HIDE DEF entry
    <2> QED
      BY SMTT(30), <1>3, <1>5, <1>6, <1>9, <2>1, <2>2, <2>3, <2>4, <2>5 DEF InHand, SeqInHand
  <1>14. WindowRefuses' /\ AppSeesOnce'
    BY SMTT(30), <1>0, <1>3 DEF WindowRefuses, AppSeesOnce
  <1>15. FanOut'
    BY SMTT(30), <1>0, <1>3, <1>9, <1>10 DEF FanOut
  <1>16. LostForAReason'
    <2> SUFFICES ASSUME NEW s \in DOMAIN log'
                 PROVE  LET up == log'[s].healthy
                            sent == {l \in LinkIds : <<l, s - 1>> \in wire}
                        IN  \/ rest' # << >> /\ s = counter
                            \/ log'[s].strategy = "refused"
                            \/ \E l \in LinkIds : <<l, s - 1>> \in failed
                            \/ log'[s].strategy = "redundant" /\ sent = up \cap Sockets
                            \/ /\ log'[s].strategy # "redundant"
                               /\ sent # {} \/ up = {} \/ up \ Sockets # {}
      BY Zenon, <1>3 DEF LostForAReason
    <2>1. CASE s \in DOMAIN log
      BY Zenon, <1>0, <1>2, <1>9, <2>1 DEF LostForAReason
    <2>2. CASE s = counter
      <3>1. CASE sel # << >>
        BY Zenon, <1>5, <2>2, <3>1
      <3>2. CASE sel = << >>
        <4>1. log'[s].healthy = {}
          BY <1>6, <1>9, <2>2, <3>2
        <4>2. {l \in LinkIds : <<l, s - 1>> \in wire} = {}
          BY <1>10, <2>2
        <4> QED
          BY Zenon, <4>1, <4>2
      <3> QED
        BY Zenon, <3>1, <3>2
    <2> QED
      BY SMTT(30), <1>9, <2>1, <2>2
  <1> QED
    BY Zenon, <1>11, <1>12, <1>13, <1>14, <1>15, <1>16 DEF TunnelInv, EndToEnd

\* The next link has no socket.
LEMMA SkipInv == TunnelInv /\ skip_link => TunnelInv'
  <1> SUFFICES ASSUME TunnelInv, skip_link PROVE TunnelInv'
    BY Zenon
  <1> USE DEF skip_link, Engine, Receiver
  <1>0. /\ TunnelTypes /\ Logged /\ InHand /\ WindowRefuses
        /\ AppSeesOnce /\ FanOut /\ LostForAReason
    BY Zenon DEF TunnelInv, EndToEnd
  <1>1. /\ rest' \in Seq(LinkIds) /\ Head(rest) \in Range(rest)
        /\ Range(rest) = Range(rest') \cup {Head(rest)}
        /\ Len(rest') = Len(rest) - 1
        /\ \A i, j \in DOMAIN rest' : rest'[i] = rest'[j] => i = j
    BY SMTT(30), <1>0, TailOfSelection DEF TunnelTypes, InHand
  <1>2. TunnelTypes'
    BY Zenon, <1>0, <1>1 DEF TunnelTypes
  <1>3. Logged'
    BY Zenon, <1>0 DEF Logged
  <1>4. InHand'
    <2> SUFFICES ASSUME rest' # << >> PROVE InHand'
      BY Zenon DEF InHand
    <2>1. Len(rest') # 0
      BY <1>1
    <2> QED
      BY <1>0, <1>1, <2>1 DEF InHand, SeqInHand
  <1>5. WindowRefuses' /\ AppSeesOnce'
    BY Zenon, <1>0 DEF WindowRefuses, AppSeesOnce
  <1>6. FanOut'
    BY Zenon, <1>0 DEF FanOut
  <1>7. LostForAReason'
    <2> SUFFICES ASSUME rest' = << >> PROVE LostForAReason'
      BY Zenon, <1>0 DEF LostForAReason
    <2>1. Range(rest') = {}
      BY DEF Range
    <2>2. counter \in DOMAIN log /\ counter > 0
      BY <1>0 DEF Logged, InHand, TunnelTypes
    <2>3. /\ log[counter].strategy = "redundant" =>
                {l \in LinkIds : <<l, counter - 1>> \in wire} = log[counter].healthy \cap Sockets
          /\ Head(rest) \in log[counter].healthy \ Sockets
      BY Zenon, <1>0, <1>1, <2>1 DEF InHand, SeqInHand
    <2> QED
      BY Zenon, <1>0, <2>2, <2>3 DEF LostForAReason
  <1> QED
    BY Zenon, <1>2, <1>3, <1>4, <1>5, <1>6, <1>7 DEF TunnelInv, EndToEnd

\* A frame goes out on a link that has not seen its packet.
LEMMA SendInv == TunnelInv /\ send_to => TunnelInv'
  <1> SUFFICES ASSUME TunnelInv, send_to PROVE TunnelInv'
    BY Zenon
  <1> USE DEF Engine, Receiver
  <1>0. /\ TunnelTypes /\ Logged /\ InHand /\ WindowRefuses
        /\ AppSeesOnce /\ FanOut /\ LostForAReason
    BY Zenon DEF TunnelInv, EndToEnd
  <1>1. /\ rest' \in Seq(LinkIds) /\ Head(rest) \in Range(rest) /\ Head(rest) \in LinkIds
        /\ Range(rest) = Range(rest') \cup {Head(rest)} /\ Head(rest) \notin Range(rest')
        /\ Len(rest') = Len(rest) - 1
        /\ \A i, j \in DOMAIN rest' : rest'[i] = rest'[j] => i = j
    BY Zenon, <1>0, TailOfSelection DEF TunnelTypes, InHand, send_to
  <1> DEFINE link == Head(rest)
             frame == <<link, counter - 1>>
             entry == log[counter]
             Sent(s) == {l \in LinkIds : <<l, s>> \in wire}
  <1>2. /\ rest # << >> /\ link \in Sockets /\ wire' = wire \cup {frame}
        /\ metrics' = [metrics EXCEPT !.packets_sent = @ + 1]
        /\ rest' = Tail(rest)
        /\ UNCHANGED <<table, strategy, cursor, swaps, counter, loaded, window,
                       accepts, log, failed, picks, wraps>>
    BY Zenon DEF send_to, SeqInHand
  <1>3. /\ loaded = NoStrategy /\ counter > 0 /\ counter \in Nat
        /\ Len(log) = counter /\ counter \in DOMAIN log /\ counter - 1 \in SeqNo
    <2>1. loaded = NoStrategy /\ counter > 0
      BY Zenon, <1>0, <1>2 DEF InHand
    <2>2. counter \in Nat /\ log \in Seq(Entries)
      BY Zenon, <1>0 DEF TunnelTypes
    <2>3. Len(log) = counter /\ counter <= MaxSeq + 1
      BY Zenon, <1>0, <2>1 DEF Logged
    <2> QED
      BY <2>1, <2>2, <2>3, AntiReplayAssumption DEF SeqNo
  <1>4. /\ Range(rest) \subseteq entry.healthy
        /\ \A f \in failed : f[2] # counter - 1
        /\ entry.strategy = "redundant" =>
              Sent(counter - 1) = (entry.healthy \ Range(rest)) \cap Sockets
        /\ entry.strategy # "redundant" => Len(rest) = 1 /\ Sent(counter - 1) = {}
    BY Zenon, <1>0, <1>2 DEF InHand, SeqInHand
  <1>5. frame \notin wire /\ frame \in LinkIds \X SeqNo
    <2>1. link \notin Sent(counter - 1)
      BY Zenon, <1>1, <1>4
    <2> QED
      BY Zenon, <1>1, <1>3, <2>1
  <1>6. entry.strategy # "redundant" => \A f \in wire : f[2] # counter - 1
    BY <1>0, <1>4 DEF TunnelTypes
  <1>7. {l \in LinkIds : <<l, counter - 1>> \in wire'} = Sent(counter - 1) \cup {link}
    BY Zenon, <1>1, <1>2
  <1>8. IsFiniteSet(wire') /\ Cardinality(wire') = Cardinality(wire) + 1
    <2>1. IsFiniteSet(wire)
      BY Zenon, <1>0 DEF TunnelTypes
    <2> HIDE DEF frame
    <2> QED
      BY Zenon, <1>2, <1>5, <2>1, FS_AddElement
  <1>9. /\ metrics' \in [packets_sent : Nat, replay_drops : Nat]
        /\ metrics'.packets_sent = metrics.packets_sent + 1
    <2>1. metrics \in [packets_sent : Nat, replay_drops : Nat]
      BY Zenon, <1>0 DEF TunnelTypes
    <2> QED
      BY <1>2, <2>1
  <1> HIDE DEF frame, link, entry, Sent
  <1>10. TunnelTypes'
    BY SMTT(30), <1>0, <1>1, <1>2, <1>5, <1>8, <1>9 DEF TunnelTypes
  <1>11. Logged'
    <2>1. frame[2] + 1 = counter
      BY <1>3 DEF frame
    <2> QED
      BY Zenon, <1>0, <1>2, <1>3, <2>1 DEF Logged
  <1>12. InHand'
    <2> SUFFICES ASSUME rest' # << >> PROVE InHand'
      BY Zenon DEF InHand
    <2>1. Len(rest') # 0
      BY <1>1
    <2>2. entry.strategy = "redundant"
      BY <1>1, <1>4, <2>1
    <2>3. Sent(counter - 1) \cup {link} = (entry.healthy \ Range(rest')) \cap Sockets
      BY <1>1, <1>2, <1>4, <2>2 DEF link
    <2> QED
      BY Zenon, <1>1, <1>2, <1>3, <1>4, <1>7, <2>2, <2>3 DEF InHand, SeqInHand, entry
  <1>13. WindowRefuses' /\ AppSeesOnce'
    BY Zenon, <1>0, <1>2 DEF WindowRefuses, AppSeesOnce
  <1>14. FanOut'
    <2>1. metrics'.packets_sent = Cardinality(wire')
      BY Zenon, <1>0, <1>8, <1>9 DEF FanOut
    <2>2. frame[1] \in entry.healthy /\ frame[1] = link /\ frame[2] = counter - 1
      BY Zenon, <1>1, <1>4 DEF frame, link
    <2>3. ASSUME NEW f \in wire'
          PROVE  /\ f[1] \in log[f[2] + 1].healthy
                 /\ log[f[2] + 1].strategy # "redundant" =>
                       \A g \in wire' \cup failed : g[2] = f[2] => g[1] = f[1]
      <3>1. CASE f = frame
        <4>1. f[2] + 1 = counter
          BY <1>3, <2>2, <3>1
        <4>2. ASSUME entry.strategy # "redundant", NEW g \in wire' \cup failed, g[2] = f[2]
              PROVE  g[1] = f[1]
          BY Zenon, <1>2, <1>4, <1>6, <2>2, <3>1, <4>2
        <4> QED
          BY Zenon, <2>2, <3>1, <4>1, <4>2 DEF entry
      <3>2. CASE f \in wire
        <4>1. ASSUME log[f[2] + 1].strategy # "redundant",
                     NEW g \in wire' \cup failed, g[2] = f[2]
              PROVE  g[1] = f[1]
          <5>1. CASE g = frame
            <6>1. f[2] = counter - 1 /\ f[2] + 1 = counter
              BY <1>3, <2>2, <4>1, <5>1
            <6> QED
              BY Zenon, <1>6, <3>2, <4>1, <6>1 DEF entry
          <5>2. CASE g \in wire \cup failed
            BY Zenon, <1>0, <3>2, <4>1, <5>2 DEF FanOut
          <5> QED
            BY Zenon, <1>2, <5>1, <5>2
        <4>2. f[1] \in log[f[2] + 1].healthy
          BY Zenon, <1>0, <3>2 DEF FanOut
        <4> QED
          BY Zenon, <4>1, <4>2
      <3> QED
        BY Zenon, <1>2, <3>1, <3>2
    <2> QED
      BY Zenon, <1>2, <2>1, <2>3 DEF FanOut
  <1>15. LostForAReason'
    <2> SUFFICES ASSUME NEW s \in DOMAIN log
                 PROVE  LET up == log[s].healthy
                            sent == {l \in LinkIds : <<l, s - 1>> \in wire'}
                        IN  \/ rest' # << >> /\ s = counter
                            \/ log[s].strategy = "refused"
                            \/ \E l \in LinkIds : <<l, s - 1>> \in failed
                            \/ log[s].strategy = "redundant" /\ sent = up \cap Sockets
                            \/ /\ log[s].strategy # "redundant"
                               /\ sent # {} \/ up = {} \/ up \ Sockets # {}
      BY Zenon, <1>2 DEF LostForAReason
    <2>1. CASE s # counter
      <3>1. s - 1 # counter - 1
        BY <1>0, <1>3, <2>1 DEF TunnelTypes
      <3>2. \A l : <<l, s - 1>> \in wire' <=> <<l, s - 1>> \in wire
        BY Zenon, <1>2, <3>1 DEF frame
      <3>3. {l \in LinkIds : <<l, s - 1>> \in wire'} = {l \in LinkIds : <<l, s - 1>> \in wire}
        BY Zenon, <3>2
      <3> QED
        BY Zenon, <1>0, <2>1, <3>3 DEF LostForAReason
    <2>2. CASE s = counter /\ rest' = << >>
      <3>1. Range(rest') = {}
        BY <2>2 DEF Range
      <3>2. CASE entry.strategy = "redundant"
        <4>1. Sent(counter - 1) \cup {link} = entry.healthy \cap Sockets
          BY <1>1, <1>2, <1>4, <3>1, <3>2 DEF link
        <4> QED
          BY Zenon, <1>7, <2>2, <3>2, <4>1 DEF entry
      <3>3. CASE entry.strategy # "redundant"
        BY Zenon, <1>7, <2>2, <3>3 DEF entry
      <3> QED
        BY Zenon, <3>2, <3>3
    <2> QED
      BY Zenon, <2>1, <2>2
  <1> QED
    BY Zenon, <1>10, <1>11, <1>12, <1>13, <1>14, <1>15 DEF TunnelInv, EndToEnd

\* An error ends the call: the remaining links go without the frame.
LEMMA SendFailsInv == TunnelInv /\ send_to_fails => TunnelInv'
  <1> SUFFICES ASSUME TunnelInv, send_to_fails PROVE TunnelInv'
    BY Zenon
  <1>0. /\ TunnelTypes /\ Logged /\ InHand /\ WindowRefuses
        /\ AppSeesOnce /\ FanOut /\ LostForAReason
    BY Zenon DEF TunnelInv, EndToEnd
  <1> DEFINE frame == <<Head(rest), counter - 1>>
  <1>1. /\ rest # << >> /\ failed' = failed \cup {frame} /\ rest' = << >>
        /\ UNCHANGED <<table, strategy, cursor, swaps, counter, loaded, wire,
                       metrics, window, accepts, log, picks, wraps>>
    BY Zenon DEF send_to_fails, SeqInHand, Engine, Receiver
  <1>2. Head(rest) \in LinkIds
    BY <1>0, <1>1 DEF TunnelTypes
  <1>3. /\ loaded = NoStrategy /\ counter > 0 /\ counter \in Nat
        /\ Len(log) = counter /\ counter \in DOMAIN log /\ counter - 1 \in SeqNo
    <2>1. loaded = NoStrategy /\ counter > 0
      BY Zenon, <1>0, <1>1 DEF InHand
    <2>2. counter \in Nat /\ log \in Seq(Entries)
      BY Zenon, <1>0 DEF TunnelTypes
    <2>3. Len(log) = counter /\ counter <= MaxSeq + 1
      BY Zenon, <1>0, <2>1 DEF Logged
    <2> QED
      BY <2>1, <2>2, <2>3, AntiReplayAssumption DEF SeqNo
  <1>4. frame \in LinkIds \X SeqNo /\ frame[2] = counter - 1 /\ frame[2] + 1 = counter
    BY <1>2, <1>3
  <1>5. log[counter].strategy # "redundant" => \A f \in wire : f[2] # counter - 1
    <2>1. log[counter].strategy # "redundant" =>
              {l \in LinkIds : <<l, counter - 1>> \in wire} = {}
      BY Zenon, <1>0, <1>1 DEF InHand, SeqInHand
    <2> QED
      BY <1>0, <2>1 DEF TunnelTypes
  <1> HIDE DEF frame
  <1>6. TunnelTypes'
    BY SMTT(30), <1>0, <1>1, <1>4 DEF TunnelTypes
  <1>7. Logged'
    BY Zenon, <1>0, <1>1, <1>3, <1>4 DEF Logged
  <1>8. InHand'
    BY Zenon, <1>1 DEF InHand
  <1>9. WindowRefuses' /\ AppSeesOnce'
    BY Zenon, <1>0, <1>1 DEF WindowRefuses, AppSeesOnce
  <1>10. FanOut'
    <2>1. ASSUME NEW f \in wire, log[f[2] + 1].strategy # "redundant",
                 NEW g \in wire \cup failed', g[2] = f[2]
          PROVE  g[1] = f[1]
      <3>1. CASE g = frame
        BY Zenon, <1>3, <1>4, <1>5, <2>1, <3>1
      <3>2. CASE g \in wire \cup failed
        BY Zenon, <1>0, <2>1, <3>2 DEF FanOut
      <3> QED
        BY Zenon, <1>1, <3>1, <3>2
    <2> QED
      BY Zenon, <1>0, <1>1, <2>1 DEF FanOut
  <1>11. LostForAReason'
    <2> SUFFICES ASSUME NEW s \in DOMAIN log
                 PROVE  LET up == log[s].healthy
                            sent == {l \in LinkIds : <<l, s - 1>> \in wire}
                        IN  \/ rest' # << >> /\ s = counter
                            \/ log[s].strategy = "refused"
                            \/ \E l \in LinkIds : <<l, s - 1>> \in failed'
                            \/ log[s].strategy = "redundant" /\ sent = up \cap Sockets
                            \/ /\ log[s].strategy # "redundant"
                               /\ sent # {} \/ up = {} \/ up \ Sockets # {}
      BY Zenon, <1>1 DEF LostForAReason
    <2>1. CASE s = counter
      BY Zenon, <1>1, <1>2, <2>1 DEF frame
    <2>2. CASE s # counter
      BY Zenon, <1>0, <1>1, <2>2 DEF LostForAReason
    <2> QED
      BY Zenon, <2>1, <2>2
  <1> QED
    BY Zenon, <1>6, <1>7, <1>8, <1>9, <1>10, <1>11 DEF TunnelInv, EndToEnd

\* A new strategy: the frame in hand goes on as it was decided.
LEMMA SwapStrategyInv ==
    ASSUME TunnelInv, NEW s \in Strategy, swap_strategy(s)
    PROVE  TunnelInv'
  <1> USE DEF swap_strategy, Receiver
  <1>0. /\ TunnelTypes /\ Logged /\ InHand /\ WindowRefuses
        /\ AppSeesOnce /\ FanOut /\ LostForAReason
    BY Zenon DEF TunnelInv, EndToEnd
  <1>1. /\ loaded' \in Held \cup {NoStrategy}
        /\ loaded' = NoStrategy <=> loaded = NoStrategy
    <2>1. CASE loaded = NoStrategy
      BY Zenon, <2>1 DEF NoStrategy
    <2>2. CASE loaded \in Held
      <3>1. loaded' \in Held /\ loaded.name # "none" /\ loaded'.name # "none"
        BY Zenon, <2>2 DEF Held, Strategy
      <3> QED
        BY <3>1 DEF NoStrategy
    <2> QED
      BY Zenon, <1>0, <2>1, <2>2 DEF TunnelTypes
  <1>2. picks' \in [LinkIds -> Nat] /\ wraps' \in Nat /\ cursor' \in Nat /\ cursor' < Usize
    BY TunnelAssumption DEF NoPicks
  <1>3. TunnelTypes'
    BY Zenon, <1>0, <1>1, <1>2 DEF TunnelTypes
  <1>4. Logged'
    BY Zenon, <1>0, <1>1 DEF Logged
  <1>5. InHand'
    BY Zenon, <1>0, <1>1 DEF InHand, SeqInHand
  <1>6. WindowRefuses' /\ AppSeesOnce' /\ FanOut' /\ LostForAReason'
    BY Zenon, <1>0 DEF WindowRefuses, AppSeesOnce, FanOut, LostForAReason
  <1> QED
    BY Zenon, <1>3, <1>4, <1>5, <1>6 DEF TunnelInv, EndToEnd

\* A new table: the frame in hand goes on as it was decided.
LEMMA SwapLinksInv ==
    ASSUME TunnelInv, NEW i \in DOMAIN table, swap_links(i)
    PROVE  TunnelInv'
  <1> USE DEF swap_links, Receiver
  <1>0. /\ TunnelTypes /\ Logged /\ InHand /\ WindowRefuses
        /\ AppSeesOnce /\ FanOut /\ LostForAReason
    BY Zenon DEF TunnelInv, EndToEnd
  <1>1. /\ table' \in [Positions -> LinkRecords]
        /\ \A k \in Positions : table'[k].id = table[k].id
    <2>1. table \in [Positions -> LinkRecords] /\ i \in Positions
      BY Zenon, <1>0 DEF TunnelTypes
    <2>2. table' = [table EXCEPT ![i] = [table[i] EXCEPT !.healthy = ~@]]
      BY Zenon
    <2>3. [table[i] EXCEPT !.healthy = ~@] \in LinkRecords
      BY Zenon, <2>1 DEF LinkRecords
    <2>4. [table[i] EXCEPT !.healthy = ~@].id = table[i].id
      BY Zenon, <2>1 DEF LinkRecords
    <2> QED
      BY Zenon, <2>1, <2>2, <2>3, <2>4
  <1>2. picks' \in [LinkIds -> Nat]
    BY Zenon DEF NoPicks
  <1>3. TunnelTypes'
    BY Zenon, <1>0, <1>1, <1>2 DEF TunnelTypes
  <1>4. Logged'
    BY Zenon, <1>0 DEF Logged
  <1>5. InHand'
    BY Zenon, <1>0 DEF InHand, SeqInHand
  <1>6. WindowRefuses' /\ AppSeesOnce' /\ FanOut' /\ LostForAReason'
    BY Zenon, <1>0 DEF WindowRefuses, AppSeesOnce, FanOut, LostForAReason
  <1> QED
    BY Zenon, <1>3, <1>4, <1>5, <1>6 DEF TunnelInv, EndToEnd

\* A frame arrives: the window lets its packet through once.
LEMMA ReceiveInv ==
    ASSUME TunnelInv, NEW frame \in wire, receive(frame)
    PROVE  TunnelInv'
  <1>0. /\ TunnelTypes /\ Logged /\ InHand /\ WindowRefuses
        /\ AppSeesOnce /\ FanOut /\ LostForAReason
    BY Zenon DEF TunnelInv, EndToEnd
  <1> DEFINE seq == frame[2]
  <1>1. UNCHANGED <<table, strategy, cursor, swaps, counter, loaded, rest, wire,
                    log, failed, picks, wraps>>
    BY Zenon DEF receive, Engine
  <1>2. /\ seq \in SeqNo /\ window \in Windows /\ accepts \in [SeqNo -> Nat]
        /\ metrics \in [packets_sent : Nat, replay_drops : Nat]
    BY Zenon, <1>0 DEF TunnelTypes
  <1>3. /\ window' \in Windows /\ accepts' \in [SeqNo -> Nat]
        /\ metrics' \in [packets_sent : Nat, replay_drops : Nat]
        /\ metrics'.packets_sent = metrics.packets_sent
        /\ WindowRefuses' /\ AppSeesOnce'
    <2>1. CASE /\ Check(window, seq) = "Ok" /\ window' = Update(window, seq)
               /\ accepts' = [accepts EXCEPT ![seq] = @ + 1] /\ UNCHANGED metrics
      <3>1. window' \in Windows
        BY Zenon, <1>2, <2>1, UpdateIsWindow
      <3>2. accepts[seq] = 0
        BY <1>0, <1>2, <2>1 DEF WindowRefuses
      <3>3. accepts' \in [SeqNo -> Nat] /\ accepts'[seq] = 1
        BY <1>2, <2>1, <3>2
      <3>4. \A s \in SeqNo : s # seq => accepts'[s] = accepts[s]
        BY Zenon, <1>2, <2>1
      <3>5. ASSUME NEW s \in SeqNo, accepts'[s] > 0 PROVE Check(window', s) # "Ok"
        <4>1. CASE s = seq
          BY Zenon, <1>2, <2>1, <4>1, UpdateRefuses
        <4>2. CASE s # seq
          <5>1. Check(window, s) # "Ok"
            BY Zenon, <1>0, <3>4, <3>5, <4>2 DEF WindowRefuses
          <5> QED
            BY Zenon, <1>2, <2>1, <5>1, RefusalStable
        <4> QED
          BY Zenon, <4>1, <4>2
      <3>6. \A s \in SeqNo : accepts'[s] <= 1
        BY <1>0, <3>3, <3>4 DEF AppSeesOnce
      <3> QED
        BY Zenon, <1>2, <2>1, <3>1, <3>3, <3>5, <3>6 DEF WindowRefuses, AppSeesOnce
    <2>2. CASE /\ metrics' = [metrics EXCEPT !.replay_drops = @ + 1]
               /\ UNCHANGED <<window, accepts>>
      <3>1. /\ metrics' \in [packets_sent : Nat, replay_drops : Nat]
            /\ metrics'.packets_sent = metrics.packets_sent
        BY <1>2, <2>2
      <3>2. WindowRefuses' /\ AppSeesOnce'
        BY Zenon, <1>0, <2>2 DEF WindowRefuses, AppSeesOnce
      <3> QED
        BY Zenon, <1>2, <2>2, <3>1, <3>2
    <2> QED
      BY Zenon, <2>1, <2>2 DEF receive, Updated
  <1>4. TunnelTypes'
    BY Zenon, <1>0, <1>1, <1>3 DEF TunnelTypes
  <1>5. Logged'
    BY SMTT(30), <1>0, <1>1 DEF Logged
  <1>6. InHand'
    BY Zenon, <1>0, <1>1 DEF InHand, SeqInHand
  <1>7. FanOut' /\ LostForAReason'
    BY Zenon, <1>0, <1>1, <1>3 DEF FanOut, LostForAReason
  <1> QED
    BY Zenon, <1>3, <1>4, <1>5, <1>6, <1>7 DEF TunnelInv, EndToEnd

\* No step of the two ends, nor a swap, breaks the invariant.
LEMMA TunnelNextInv == TunnelInv /\ [Next]_vars => TunnelInv'
  <1> SUFFICES ASSUME TunnelInv, [Next]_vars PROVE TunnelInv'
    BY Zenon
  <1>1. CASE UNCHANGED vars
    <2>0. UNCHANGED <<table, strategy, cursor, counter, loaded, rest, wire, window,
                      metrics, swaps, accepts, log, failed, picks, wraps>>
      BY Zenon, <1>1 DEF vars
    <2>1. TunnelTypes'
      BY Zenon, <2>0 DEF TunnelInv, TunnelTypes
    <2>2. Logged'
      BY Zenon, <2>0 DEF TunnelInv, Logged
    <2>3. InHand'
      BY Zenon, <2>0 DEF TunnelInv, InHand, SeqInHand
    <2>4. WindowRefuses'
      BY Zenon, <2>0 DEF TunnelInv, WindowRefuses
    <2>5. AppSeesOnce'
      BY Zenon, <2>0 DEF TunnelInv, EndToEnd, AppSeesOnce
    <2>6. FanOut'
      BY Zenon, <2>0 DEF TunnelInv, EndToEnd, FanOut
    <2>7. LostForAReason'
      BY Zenon, <2>0 DEF TunnelInv, EndToEnd, LostForAReason
    <2> QED
      BY Zenon, <2>1, <2>2, <2>3, <2>4, <2>5, <2>6, <2>7 DEF TunnelInv, EndToEnd
  <1>2. CASE Next
    BY Zenon, <1>2, SealInv, SealRefusedInv, ScheduleInv, SkipInv, SendInv, SendFailsInv,
       SwapStrategyInv, SwapLinksInv, ReceiveInv DEF Next
  <1> QED
    BY Zenon, <1>1, <1>2

(***************************************************************************)
(* The data path delivers each packet once and loses none without one of   *)
(* the four reasons, for any number of links, of packets and of swaps,     *)
(* and for a window of any size.                                           *)
(***************************************************************************)
THEOREM DeliveryIsSound == Spec => []EndToEnd
  <1>1. TunnelInv => EndToEnd
    BY Zenon DEF TunnelInv
  <1> QED
    BY <1>1, TunnelInitInv, TunnelNextInv, PTL DEF Spec

----------------------------------------------------------------------------
(* Sharing out.  Round-robin: the last `ahead` links it chose are one      *)
(* packet ahead of the others.                                             *)

\* How many turns ago position p had its turn, the next being index's.
TurnsAgo(p, index, m) == IF p <= index THEN index - p ELSE index - p + m

EvenCounts(cnt, index, m) ==
    \E b \in Nat, ahead \in 0 .. (m - 1) : \A p \in 1 .. m :
        cnt[p] = IF TurnsAgo(p, index, m) < ahead THEN b + 1 ELSE b

Even(links, cur, counts) ==
    LET h == healthy(links)
    IN  h # << >> => EvenCounts([p \in DOMAIN h |-> counts[h[p].id]], cur % Len(h), Len(h))

\* The packets of the round under way, the one since the cursor last wrapped
\* around in the middle, are even at the cursor; those before it are apart by
\* the number of such breaks.
Lapped(links, cur, counts, breaks) ==
    \E lap \in [LinkIds -> Nat] :
        /\ Even(links, cur, lap)
        /\ \A k, l \in UpIn(links) : counts[k] - lap[k] <= counts[l] - lap[l] + breaks

RoundRobinEven == strategy = "round-robin" => Lapped(table, cursor, picks, wraps)

\* The held strategy object is the current one, cursor and all, or is marked.
HeldIsCurrent == loaded.current => loaded.name = strategy /\ loaded.cursor = cursor

\* Induction up to m: a set with 0 that is closed under successor is all.
LEMMA InductionUpTo ==
    ASSUME NEW m \in Nat, NEW S \in SUBSET (0 .. m), 0 \in S,
           \A k \in 1 .. m : k - 1 \in S => k \in S
    PROVE  S = 0 .. m
  <1> SUFFICES ASSUME S # 0 .. m PROVE FALSE
    BY Zenon
  <1> DEFINE T == (0 .. m) \ S
  <1>1. T \in SUBSET Nat /\ T # {}
    <2>1. T \in SUBSET Nat
      OBVIOUS
    <2>2. S \subseteq 0 .. m
      BY Zenon
    <2>3. T # {}
      BY <2>2, Zenon
    <2> QED
      BY Zenon, <2>1, <2>3
  <1> HIDE DEF T
  <1>2. PICK t \in T : \A k \in T : t <= k
    BY Zenon, <1>1, LeastNumber
  <1>3. t \in 1 .. m /\ t - 1 \in S /\ t \notin S
    BY <1>2 DEF T
  <1> QED
    BY Zenon, <1>3

\* Cumulative is the running total: each weight is added once, in order.
LEMMA RunningTotal ==
    ASSUME NEW m \in Nat, NEW weights \in [1 .. m -> Nat], Len(weights) = m
    PROVE  /\ Cumulative(weights, 0) = 0
           /\ \A k \in 1 .. m :
                 Cumulative(weights, k) = Cumulative(weights, k - 1) + weights[k]
  <1> DEFINE Sums(f, n) == f = [k \in 0 .. n |-> IF k = 0 THEN 0
                                                  ELSE f[k - 1] + weights[k]]
             S == {n \in 0 .. m : \E f : Sums(f, n)}
  <1>1. 0 \in S
    <2>1. Sums([k \in 0 .. 0 |-> 0], 0)
      OBVIOUS
    <2> HIDE DEF Sums
    <2> QED
      BY <2>1
  <1>2. ASSUME NEW t \in 1 .. m, t - 1 \in S PROVE t \in S
    <2>1. PICK f : Sums(f, t - 1)
      BY Zenon, <1>2
    <2> DEFINE g == [k \in 0 .. t |-> IF k = t THEN f[t - 1] + weights[t] ELSE f[k]]
    <2>2. \A k \in 0 .. (t - 1) : f[k] = IF k = 0 THEN 0 ELSE f[k - 1] + weights[k]
      BY Zenon, <2>1
    <2>3. \A k \in 0 .. t : g[k] = IF k = 0 THEN 0 ELSE g[k - 1] + weights[k]
      <3> TAKE k \in 0 .. t
      <3>1. CASE k = t
        BY <3>1
      <3>2. CASE k # t
        BY <2>2, <3>2
      <3> QED
        BY Zenon, <3>1, <3>2
    <2>4. Sums(g, t)
      <3>1. g = [k \in 0 .. t |-> g[k]]
        BY Zenon
      <3> HIDE DEF g
      <3> QED
        BY Zenon, <2>3, <3>1
    <2> HIDE DEF g, Sums
    <2> QED
      BY <2>4
  <1>3. S \in SUBSET (0 .. m)
    BY Zenon
  <1> HIDE DEF S
  <1>4. m \in S
    BY SMTT(30), <1>1, <1>2, <1>3, InductionUpTo
  <1>5. \E f : Sums(f, m)
    BY Zenon, <1>4 DEF S
  <1> DEFINE sum == CHOOSE f : Sums(f, m)
  <1>6. Sums(sum, m)
    BY Zenon, <1>5
  <1>7. \A n : Cumulative(weights, n) = sum[n]
    BY Zenon DEF Cumulative
  <1> HIDE DEF sum
  <1>8. sum[0] = 0 /\ \A k \in 1 .. m : sum[k] = sum[k - 1] + weights[k]
    BY <1>6
  <1> QED
    BY Zenon, <1>7, <1>8

\* Running totals grow with the position.
LEMMA TotalsGrow ==
    ASSUME NEW m \in Nat, NEW weights \in [1 .. m -> Nat], Len(weights) = m
    PROVE  /\ \A k \in 0 .. m : Cumulative(weights, k) \in Nat
           /\ \A j, k \in 0 .. m : j <= k => Cumulative(weights, j) <= Cumulative(weights, k)
  <1> DEFINE C(k) == Cumulative(weights, k)
             S == {k \in 0 .. m : \A j \in 0 .. k : C(j) \in Nat /\ C(j) <= C(k)}
  <1>1. C(0) = 0 /\ \A k \in 1 .. m : C(k) = C(k - 1) + weights[k]
    BY Zenon, RunningTotal
  <1> HIDE DEF C
  <1>2. 0 \in S
    BY <1>1
  <1>3. ASSUME NEW k \in 1 .. m, k - 1 \in S PROVE k \in S
    <2>1. C(k) = C(k - 1) + weights[k] /\ weights[k] \in Nat /\ C(k - 1) \in Nat
      BY <1>1, <1>3
    <2>2. \A j \in 0 .. k : j \in 0 .. (k - 1) \/ j = k
      OBVIOUS
    <2>3. \A j \in 0 .. (k - 1) : C(j) \in Nat /\ C(j) <= C(k - 1)
      BY Zenon, <1>3
    <2>4. \A j \in 0 .. k : C(j) \in Nat /\ C(j) <= C(k)
      BY <2>1, <2>2, <2>3
    <2> QED
      BY <2>4
  <1>4. S \in SUBSET (0 .. m)
    BY Zenon
  <1> HIDE DEF S
  <1>5. S = 0 .. m
    BY Zenon, <1>2, <1>3, <1>4, InductionUpTo
  <1>6. \A k \in 0 .. m : C(k) \in Nat /\ \A j \in 0 .. k : C(j) <= C(k)
    <2>1. \A k \in 0 .. m : \A j \in 0 .. k : C(j) \in Nat /\ C(j) <= C(k)
      BY Zenon, <1>5 DEF S
    <2> QED
      BY <2>1
  <1> QED
    BY <1>6 DEF C

(***************************************************************************)
(* Weighted's walk: of the numbers below the total, exactly as many lead   *)
(* to a position as its weight says.                                       *)
(***************************************************************************)
LEMMA WeightsAreHonoured ==
    ASSUME NEW m \in Nat, NEW weights \in [1 .. m -> Nat], Len(weights) = m,
           NEW i \in 1 .. m
    PROVE  Cardinality({pick \in WeightedDraws(weights) :
                           CumulativePick(weights, pick) = i}) = weights[i]
  <1> DEFINE C(k) == Cumulative(weights, k)
             lo == C(i - 1)
             hi == C(i) - 1
  <1>1. \A k \in 0 .. m : C(k) \in Nat
    BY Zenon, TotalsGrow
  <1>2. \A j, k \in 0 .. m : j <= k => C(j) <= C(k)
    BY Zenon, TotalsGrow
  <1>3. C(0) = 0 /\ C(i) = C(i - 1) + weights[i]
    BY Zenon, RunningTotal
  <1>4. WeightedDraws(weights) = 0 .. (C(m) - 1)
    BY Zenon DEF WeightedDraws, Total
  <1>5. \A pick : CumulativePick(weights, pick) =
              LET stops == {k \in 1 .. m : pick < C(k)}
              IN  IF stops = {} THEN m ELSE CHOOSE k \in stops : \A j \in stops : k <= j
    BY DEF CumulativePick
  <1> HIDE DEF C
  <1>6. i \in 0 .. m /\ i - 1 \in 0 .. m /\ m \in 0 .. m /\ weights[i] \in Nat
    OBVIOUS
  <1>7. lo \in Nat /\ C(i) \in Nat /\ C(m) \in Nat /\ C(i) <= C(m) /\ hi - lo + 1 = weights[i]
    BY <1>1, <1>2, <1>3, <1>6
  <1>8. ASSUME NEW pick \in 0 .. (C(m) - 1)
        PROVE  CumulativePick(weights, pick) = i <=> pick \in lo .. hi
    <2> DEFINE stops == {k \in 1 .. m : pick < C(k)}
               first == CHOOSE k \in stops : \A j \in stops : k <= j
    <2>1. stops \in SUBSET Nat /\ stops \subseteq 1 .. m
      OBVIOUS
    <2>2. m \in stops
      BY <1>7
    <2>3. \A k \in 1 .. m : k \in stops <=> pick < C(k)
      BY Zenon
    <2> HIDE DEF stops
    <2>4. first \in stops /\ \A j \in stops : first <= j
      <3>1. \E k \in stops : \A j \in stops : k <= j
        BY Zenon, <2>1, <2>2, LeastNumber
      <3> QED
        BY Zenon, <3>1
    <2>5. CumulativePick(weights, pick) = first
      BY Zenon, <1>5, <2>2 DEF stops
    <2> HIDE DEF first
    <2>6. ASSUME first = i PROVE pick \in lo .. hi
      <3>1. pick < C(i)
        BY Zenon, <2>3, <2>4, <2>6
      <3>2. lo <= pick
        <4>1. CASE i = 1
          BY <1>3, <4>1
        <4>2. CASE i # 1
          <5>1. i - 1 \in 1 .. m /\ i - 1 \notin stops
            BY <2>4, <2>6, <4>2
          <5> QED
            BY <1>7, <2>3, <5>1
        <4> QED
          BY Zenon, <4>1, <4>2
      <3> QED
        BY <1>7, <3>1, <3>2
    <2>7. ASSUME pick \in lo .. hi PROVE first = i
      <3>1. i \in stops
        BY <1>7, <2>3, <2>7
      <3>2. first \in 1 .. m /\ first <= i
        BY Zenon, <2>1, <2>4, <3>1
      <3>3. ASSUME first <= i - 1 PROVE FALSE
        <4>1. first \in 0 .. m /\ C(first) <= lo
          BY <1>2, <1>6, <3>2, <3>3
        <4>2. C(first) \in Nat /\ pick < C(first)
          BY <1>1, <2>3, <2>4, <3>2
        <4> QED
          BY <1>7, <2>7, <4>1, <4>2
      <3> QED
        BY <3>2, <3>3
    <2> QED
      BY Zenon, <2>5, <2>6, <2>7
  <1>9. lo .. hi \subseteq 0 .. (C(m) - 1)
    BY <1>7
  <1>10. {pick \in WeightedDraws(weights) : CumulativePick(weights, pick) = i} = lo .. hi
    <2> HIDE DEF lo, hi
    <2> QED
      BY Zenon, <1>4, <1>8, <1>9
  <1>11. Cardinality(lo .. hi) = weights[i]
    <2>1. lo \in Int /\ hi \in Int
      BY <1>7
    <2> HIDE DEF lo, hi
    <2> QED
      BY <1>6, <1>7, <2>1, FS_Interval
  <1> QED
    BY Zenon, <1>10, <1>11

\* The index of the next turn.
LEMMA NextIndex ==
    ASSUME NEW m \in Nat \ {0}, NEW cur \in Nat
    PROVE  /\ cur % m \in 0 .. (m - 1)
           /\ (cur + 1) % m = IF cur % m = m - 1 THEN 0 ELSE (cur % m) + 1
  <1> DEFINE q == cur \div m
             r == cur % m
             q2 == (cur + 1) \div m
             r2 == (cur + 1) % m
             k == q2 - q
  <1>1. q \in Int /\ r \in 0 .. (m - 1) /\ cur = m * q + r
    OBVIOUS
  <1>2. q2 \in Int /\ r2 \in 0 .. (m - 1) /\ cur + 1 = m * q2 + r2
    OBVIOUS
  <1> HIDE DEF q, r, q2, r2
  <1>3. k \in Int /\ m * k = m * q2 - m * q
    BY <1>1, <1>2
  <1> HIDE DEF k
  <1>4. /\ k <= -1 => m * k <= -m
        /\ k >= 2 => m * k >= 2 * m
        /\ k = 0 => m * k = 0
        /\ k = 1 => m * k = m
    BY <1>3
  <1>5. m * k = r + 1 - r2
    <2> DEFINE A == m * q
               B == m * q2
    <2>1. A \in Int /\ B \in Int
      BY <1>1, <1>2
    <2>2. cur = A + r /\ cur + 1 = B + r2 /\ m * k = B - A
      BY Zenon, <1>1, <1>2, <1>3
    <2> HIDE DEF A, B
    <2> QED
      BY <1>1, <1>2, <2>1, <2>2
  <1>6. k = 0 \/ k = 1
    <2> DEFINE P == m * k
    <2>1. P = r + 1 - r2 /\ (k <= -1 => P <= -m) /\ (k >= 2 => P >= 2 * m)
      BY Zenon, <1>4, <1>5
    <2> HIDE DEF P
    <2> QED
      BY <1>1, <1>2, <1>3, <2>1
  <1>7. r2 = r + 1 \/ r2 = r + 1 - m
    BY <1>1, <1>2, <1>4, <1>5, <1>6
  <1>8. r2 = IF r = m - 1 THEN 0 ELSE r + 1
    BY <1>1, <1>2, <1>7
  <1> QED
    BY Zenon, <1>1, <1>8 DEF r, r2

\* Counts that were just reset are even.
LEMMA FreshIsEven ==
    ASSUME NEW n \in Nat, NEW links \in [1 .. n -> LinkRecords],
           \A i, j \in 1 .. n : links[i].id = links[j].id => i = j,
           NEW cur \in Nat, NEW counts, \A l \in LinkIds : counts[l] = 0
    PROVE  Even(links, cur, counts)
  <1> DEFINE h == healthy(links)
             m == Len(h)
             index == cur % m
  <1> SUFFICES ASSUME h # << >> PROVE Even(links, cur, counts)
    BY Zenon DEF Even
  <1>1. m \in Nat /\ h \in [1 .. m -> LinkRecords] /\ h \in Seq(LinkRecords)
    BY Zenon, HealthyIds
  <1>2. \A p \in 1 .. m : h[p].id \in LinkIds
    BY Zenon, HealthyIds
  <1>3. m \in Nat \ {0} /\ DOMAIN h = 1 .. m
    BY <1>1
  <1> HIDE DEF h, m
  <1>4. index \in 0 .. (m - 1)
    BY Zenon, <1>3, NextIndex
  <1> HIDE DEF index
  <1>5. \A p \in 1 .. m : ~(TurnsAgo(p, index, m) < 0)
    BY <1>3, <1>4 DEF TurnsAgo
  <1> DEFINE cnt == [p \in 1 .. m |-> counts[h[p].id]]
  <1>6. \A p \in 1 .. m : cnt[p] = IF TurnsAgo(p, index, m) < 0 THEN 0 + 1 ELSE 0
    BY Zenon, <1>2, <1>5
  <1>7. 0 \in Nat /\ 0 \in 0 .. (m - 1)
    BY <1>3
  <1> HIDE DEF cnt
  <1>8. EvenCounts(cnt, index, m)
    BY Zenon, <1>6, <1>7 DEF EvenCounts
  <1> QED
    BY Zenon, <1>3, <1>8 DEF Even, h, m, index, cnt

\* A turn of round-robin keeps them even: its link was among those behind.
LEMMA TurnKeepsEven ==
    ASSUME NEW m \in Nat \ {0}, NEW index \in 0 .. (m - 1), NEW next,
           next = IF index = m - 1 THEN 0 ELSE index + 1,
           NEW cnt, EvenCounts(cnt, index, m), NEW after,
           \A p \in 1 .. m : after[p] = IF p = index + 1 THEN cnt[p] + 1 ELSE cnt[p]
    PROVE  EvenCounts(after, next, m)
  <1>0. PICK b \in Nat, ahead \in 0 .. (m - 1) : \A p \in 1 .. m :
            cnt[p] = IF TurnsAgo(p, index, m) < ahead THEN b + 1 ELSE b
    BY Zenon DEF EvenCounts
  <1>1. ASSUME NEW p \in 1 .. m
        PROVE  /\ TurnsAgo(p, index, m) \in 0 .. (m - 1)
               /\ p = index + 1 => TurnsAgo(p, index, m) = m - 1 /\ TurnsAgo(p, next, m) = 0
               /\ p # index + 1 => /\ TurnsAgo(p, index, m) < m - 1
                                   /\ TurnsAgo(p, next, m) = TurnsAgo(p, index, m) + 1
    BY DEF TurnsAgo
  <1>2. CASE ahead + 1 < m
    <2>1. ASSUME NEW p \in 1 .. m
          PROVE  after[p] = IF TurnsAgo(p, next, m) < ahead + 1 THEN b + 1 ELSE b
      <3>1. CASE p = index + 1
        <4>1. ~(TurnsAgo(p, index, m) < ahead) /\ TurnsAgo(p, next, m) < ahead + 1
          BY <1>1, <1>2, <3>1
        <4> QED
          BY Zenon, <1>0, <3>1, <4>1
      <3>2. CASE p # index + 1
        <4>1. TurnsAgo(p, next, m) < ahead + 1 <=> TurnsAgo(p, index, m) < ahead
          BY <1>1, <3>2
        <4> QED
          BY Zenon, <1>0, <3>2, <4>1
      <3> QED
        BY Zenon, <3>1, <3>2
    <2>2. ahead + 1 \in 0 .. (m - 1)
      BY <1>2
    <2> QED
      BY Zenon, <2>1, <2>2 DEF EvenCounts
  <1>3. CASE ahead + 1 = m
    <2>1. ASSUME NEW p \in 1 .. m
          PROVE  after[p] = IF TurnsAgo(p, next, m) < 0 THEN (b + 1) + 1 ELSE b + 1
      <3>1. CASE p = index + 1
        <4>1. ~(TurnsAgo(p, index, m) < ahead) /\ ~(TurnsAgo(p, next, m) < 0)
          BY <1>1, <1>3, <3>1
        <4> QED
          BY Zenon, <1>0, <3>1, <4>1
      <3>2. CASE p # index + 1
        <4>1. TurnsAgo(p, index, m) < ahead /\ ~(TurnsAgo(p, next, m) < 0)
          BY <1>1, <1>3, <3>2
        <4> QED
          BY Zenon, <1>0, <3>2, <4>1
      <3> QED
        BY Zenon, <3>1, <3>2
    <2>2. 0 \in 0 .. (m - 1) /\ b + 1 \in Nat
      OBVIOUS
    <2> QED
      BY Zenon, <2>1, <2>2 DEF EvenCounts
  <1> QED
    BY <1>2, <1>3

\* Even counts differ by one at most.
LEMMA EvenIsFair ==
    ASSUME NEW n \in Nat, NEW links \in [1 .. n -> LinkRecords],
           \A i, j \in 1 .. n : links[i].id = links[j].id => i = j,
           NEW cur \in Nat, NEW counts, Even(links, cur, counts),
           NEW k \in UpIn(links), NEW l \in UpIn(links)
    PROVE  counts[k] <= counts[l] + 1
  <1> DEFINE h == healthy(links)
             m == Len(h)
  <1>1. m \in Nat /\ h \in [1 .. m -> LinkRecords] /\ UpIn(links) = {h[p].id : p \in 1 .. m}
    BY Zenon, HealthyIds
  <1>2. PICK p \in 1 .. m, q \in 1 .. m : k = h[p].id /\ l = h[q].id
    BY Zenon, <1>1
  <1>3. DOMAIN h = 1 .. m /\ h # << >>
    BY <1>1, <1>2
  <1>4. PICK b \in Nat : \A i \in 1 .. m : counts[h[i].id] \in {b, b + 1}
    <2> DEFINE cnt == [i \in DOMAIN h |-> counts[h[i].id]]
    <2>1. EvenCounts(cnt, cur % m, m) /\ \A i \in 1 .. m : cnt[i] = counts[h[i].id]
      BY Zenon, <1>3 DEF Even
    <2> HIDE DEF cnt
    <2>2. \E b \in Nat : \A i \in 1 .. m : cnt[i] \in {b, b + 1}
      BY Zenon, <2>1 DEF EvenCounts
    <2> QED
      BY Zenon, <2>1, <2>2
  <1>5. counts[k] \in {b, b + 1} /\ counts[l] \in {b, b + 1}
    BY Zenon, <1>2, <1>4
  <1> QED
    BY <1>5

\* A packet shared out by round-robin leaves the counts even.
LEMMA RoundRobinTurn ==
    ASSUME NEW n \in Nat, NEW links \in [1 .. n -> LinkRecords],
           \A i, j \in 1 .. n : links[i].id = links[j].id => i = j,
           NEW cur \in Nat, NEW counts \in [LinkIds -> Nat], Even(links, cur, counts),
           NEW scores, NEW sel \in schedule("round-robin", links, cur, scores),
           sel # << >>, NEW after,
           after = [l \in LinkIds |->
                       IF l \in Range(sel) THEN counts[l] + 1 ELSE counts[l]]
    PROVE  Even(links, cur + 1, after)
  <1> DEFINE h == healthy(links)
             m == Len(h)
             index == cur % m
             next == (cur + 1) % m
             cnt == [p \in DOMAIN h |-> counts[h[p].id]]
             cnt2 == [p \in DOMAIN h |-> after[h[p].id]]
  <1>1. m \in Nat /\ h \in [1 .. m -> LinkRecords] /\ h \in Seq(LinkRecords)
    BY SMTT(30), HealthyIds
  <1>2. \A p \in 1 .. m : h[p].id \in LinkIds
    BY Zenon, HealthyIds
  <1>3. \A p, q \in 1 .. m : h[p].id = h[q].id => p = q
    BY Zenon, HealthyIds
  <1>4. h # << >>
    BY Zenon DEF schedule
  <1>5. m \in Nat \ {0} /\ DOMAIN h = 1 .. m
    BY <1>1, <1>4
  <1>6. sel = <<h[index + 1].id>>
    BY Zenon, <1>4 DEF schedule
  <1>7. index \in 0 .. (m - 1)
    BY Zenon, <1>5, NextIndex
  <1>8. next = IF index = m - 1 THEN 0 ELSE index + 1
    BY Zenon, <1>5, NextIndex
  <1>9. EvenCounts(cnt, index, m)
    BY Zenon, <1>4 DEF Even
  <1> HIDE DEF h, m, index, next
  <1>10. \A p \in 1 .. m : cnt[p] = counts[h[p].id] /\ cnt2[p] = after[h[p].id]
    BY Zenon, <1>5
  <1> HIDE DEF cnt, cnt2
  <1>11. Range(sel) = {h[index + 1].id}
    BY <1>6 DEF Range
  <1>12. ASSUME NEW p \in 1 .. m
         PROVE  cnt2[p] = IF p = index + 1 THEN cnt[p] + 1 ELSE cnt[p]
    <2>1. index + 1 \in 1 .. m
      BY <1>5, <1>7
    <2>2. h[p].id \in Range(sel) <=> p = index + 1
      BY Zenon, <1>3, <1>11, <2>1
    <2> QED
      BY Zenon, <1>2, <1>10, <2>2
  <1>13. EvenCounts(cnt2, next, m)
    BY <1>5, <1>7, <1>8, <1>9, <1>12, TurnKeepsEven
  <1> QED
    BY SMTT(30), <1>13 DEF Even, h, m, next, cnt2

\* A cursor that wraps around where the links divide its range goes on as if it
\* had not.
LEMMA WrapKeepsEven ==
    ASSUME NEW links, NEW cur, NEW counts, Even(links, cur, counts),
           cur % Len(healthy(links)) = 0, 0 % Len(healthy(links)) = 0
    PROVE  Even(links, 0, counts)
  BY Zenon DEF Even

\* A step of the cursor.
LEMMA CursorStep ==
    ASSUME NEW cur \in Nat, cur < Usize
    PROVE  /\ cur + 1 # Usize => (cur + 1) % Usize = cur + 1
           /\ cur + 1 = Usize => (cur + 1) % Usize = 0
  <1>1. Usize \in Nat /\ Usize > 0
    BY TunnelAssumption
  <1> QED
    BY <1>1

\* How many links are up.
LEMMA HealthyLength ==
    ASSUME NEW n \in Nat, NEW links \in [1 .. n -> LinkRecords]
    PROVE  Len(healthy(links)) = Cardinality(Up(links))
  <1>1. Cardinality(Up(links)) \in Nat
    <2>1. IsFiniteSet(1 .. n) /\ Up(links) \subseteq 1 .. n
      BY FS_Interval DEF Up
    <2> QED
      BY Zenon, <2>1, FS_Subset, FS_CardinalityType
  <1> QED
    BY <1>1 DEF healthy

\* The inductive invariant of the sharing.
FairInv == TunnelInv /\ RoundRobinEven /\ HeldIsCurrent

\* With counts that were just reset a round begins.
LEMMA FreshLap ==
    ASSUME NEW n \in Nat, NEW links \in [1 .. n -> LinkRecords],
           \A i, j \in 1 .. n : links[i].id = links[j].id => i = j,
           NEW cur \in Nat, NEW counts \in [LinkIds -> Nat], \A l \in LinkIds : counts[l] = 0,
           NEW breaks \in Nat
    PROVE  Lapped(links, cur, counts, breaks)
  <1>1. Even(links, cur, counts)
    BY Zenon, FreshIsEven
  <1>2. UpIn(links) \subseteq LinkIds
    BY DEF UpIn, Up, LinkRecords
  <1>3. \A k, l \in UpIn(links) : counts[k] - counts[k] <= counts[l] - counts[l] + breaks
    BY <1>2
  <1> QED
    BY Zenon, <1>1, <1>3 DEF Lapped

\* Nothing is shared out yet.
LEMMA FairInitInv == Init => FairInv
  <1> SUFFICES ASSUME Init PROVE FairInv
    BY Zenon
  <1>1. TunnelInv
    BY Zenon, TunnelInitInv
  <1>2. HeldIsCurrent
    BY Zenon DEF HeldIsCurrent, Init, NoStrategy
  <1>3. picks \in [LinkIds -> Nat] /\ wraps \in Nat /\ \A l \in LinkIds : picks[l] = 0
    BY DEF Init
  <1>4. /\ Len(Table) \in Nat /\ table \in [1 .. Len(Table) -> LinkRecords]
        /\ \A i, j \in 1 .. Len(Table) : table[i].id = table[j].id => i = j
        /\ cursor \in Nat
    BY Zenon, TableAtStart DEF Init, Positions
  <1> QED
    BY Zenon, <1>1, <1>2, <1>3, <1>4, FreshLap DEF FairInv, RoundRobinEven

\* No step favours a link.
LEMMA FairNextInv ==
    ASSUME FairInv, TunnelInv', [Next]_vars
    PROVE  RoundRobinEven' /\ HeldIsCurrent'
  <1>0. TunnelTypes /\ TunnelTypes' /\ RoundRobinEven /\ HeldIsCurrent
    BY Zenon DEF FairInv, TunnelInv
  <1>1. /\ Len(Table) \in Nat /\ table \in [1 .. Len(Table) -> LinkRecords]
        /\ \A i, j \in 1 .. Len(Table) : table[i].id = table[j].id => i = j
    BY Zenon, <1>0, TableAtStart DEF TunnelTypes, Positions
  <1>2. /\ table' \in [1 .. Len(Table) -> LinkRecords]
        /\ \A i, j \in 1 .. Len(Table) : table'[i].id = table'[j].id => i = j
    BY Zenon, <1>0, TableAtStart DEF TunnelTypes, Positions
  <1>3. /\ cursor \in Nat /\ cursor < Usize /\ cursor' \in Nat
        /\ picks \in [LinkIds -> Nat] /\ picks' \in [LinkIds -> Nat]
        /\ wraps \in Nat /\ wraps' \in Nat
    BY Zenon, <1>0 DEF TunnelTypes
  <1>4. CASE UNCHANGED <<table, strategy, cursor, loaded, picks, wraps>>
    BY Zenon, <1>0, <1>4 DEF RoundRobinEven, HeldIsCurrent
  <1>5. CASE seal
    BY Zenon, <1>0, <1>5 DEF RoundRobinEven, HeldIsCurrent, seal, Engine
  <1>6. CASE schedule_links
    <2>1. HeldIsCurrent'
      BY Zenon, <1>6 DEF schedule_links, HeldIsCurrent, NoStrategy
    <2>2. table' = table /\ strategy' = strategy
      BY Zenon, <1>6 DEF schedule_links
    <2>3. PICK sel \in schedule(loaded.name, table, loaded.cursor, DefaultScores) :
              /\ picks' = [l \in LinkIds |->
                              IF loaded.current /\ l \in Range(sel)
                              THEN picks[l] + 1 ELSE picks[l]]
              /\ cursor' = IF sel = << >> \/ ~loaded.current THEN cursor ELSE NextCursor
              /\ wraps' = IF sel # << >> /\ loaded.current /\ Broken THEN wraps + 1 ELSE wraps
      BY Zenon, <1>6 DEF schedule_links
    <2> SUFFICES ASSUME strategy = "round-robin"
                 PROVE  Lapped(table, cursor', picks', wraps')
      BY Zenon, <2>1, <2>2 DEF RoundRobinEven
    <2>4. Lapped(table, cursor, picks, wraps)
      BY Zenon, <1>0 DEF RoundRobinEven
    <2>5. CASE ~loaded.current
      <3>1. cursor' = cursor /\ picks' = picks /\ wraps' = wraps
        BY <1>3, <2>3, <2>5
      <3> QED
        BY Zenon, <2>4, <3>1
    <2>6. CASE loaded.current /\ sel = << >>
      <3>1. Range(sel) = {}
        BY <2>6 DEF Range
      <3>2. cursor' = cursor /\ picks' = picks /\ wraps' = wraps
        BY Zenon, <1>3, <2>3, <2>6, <3>1
      <3> QED
        BY Zenon, <2>4, <3>2
    <2>7. CASE loaded.current /\ sel # << >>
      <3>1. loaded.name = "round-robin" /\ loaded.cursor = cursor
        BY Zenon, <1>0, <2>7 DEF HeldIsCurrent
      <3>0. PICK lap \in [LinkIds -> Nat] :
                /\ Even(table, cursor, lap)
                /\ \A k, l \in UpIn(table) :
                      picks[k] - lap[k] <= picks[l] - lap[l] + wraps
        BY Zenon, <2>4 DEF Lapped
      <3> DEFINE after == [l \in LinkIds |-> IF l \in Range(sel) THEN lap[l] + 1 ELSE lap[l]]
      <3>2. after \in [LinkIds -> Nat] /\ \A l \in LinkIds : picks'[l] - after[l] = picks[l] - lap[l]
        <4>1. \A l \in LinkIds : picks'[l] = IF l \in Range(sel) THEN picks[l] + 1 ELSE picks[l]
          BY Zenon, <2>3, <2>7
        <4>2. \A l \in LinkIds : after[l] = IF l \in Range(sel) THEN lap[l] + 1 ELSE lap[l]
          BY Zenon
        <4>3. after \in [LinkIds -> Nat]
          OBVIOUS
        <4> HIDE DEF after
        <4>4. \A l \in LinkIds : lap[l] \in Nat /\ picks[l] \in Nat
          BY Zenon, <1>3
        <4> QED
          BY <4>1, <4>2, <4>3, <4>4
      <3>3. sel \in schedule("round-robin", table, cursor, DefaultScores)
        BY Zenon, <3>1
      <3>4. Even(table, cursor, lap)
        BY Zenon, <3>0
      <3>5. Even(table, cursor + 1, after)
        <4>1. sel # << >> /\ cursor \in Nat
          BY Zenon, <1>3, <2>7
        <4>2. \A scores : \A pick \in schedule("round-robin", table, cursor, scores) :
                 pick # << >> =>
                     Even(table, cursor + 1,
                          [l \in LinkIds |->
                              IF l \in Range(pick) THEN lap[l] + 1 ELSE lap[l]])
          BY SMTT(30), <1>1, <3>4, <4>1, RoundRobinTurn
        <4> QED
          BY Zenon, <3>3, <4>1, <4>2
      <3> HIDE DEF after
      <3>6. UpIn(table) \subseteq LinkIds
        BY <1>1 DEF UpIn, Up, LinkRecords
      <3>7. \A k, l \in UpIn(table) : picks'[k] - after[k] <= picks'[l] - after[l] + wraps
        BY Zenon, <3>0, <3>2, <3>6
      <3>8. cursor' = (cursor + 1) % Usize
        BY Zenon, <2>3, <2>7, <3>1 DEF NextCursor
      <3>9. CASE cursor + 1 # Usize
        <4>1. cursor' = cursor + 1
          BY Zenon, <1>3, <3>8, <3>9, CursorStep
        <4>2. wraps' = wraps
          BY Zenon, <2>3, <3>9 DEF Broken
        <4> QED
          BY Zenon, <3>2, <3>5, <3>7, <4>1, <4>2 DEF Lapped
      <3>10. CASE cursor + 1 = Usize
        <4> DEFINE m == Len(healthy(table))
        <4>1. cursor' = 0
          BY Zenon, <1>3, <3>8, <3>10, CursorStep
        <4>2. m = Cardinality(Up(table)) /\ m \in Nat /\ m # 0
          <5>1. m = Cardinality(Up(table))
            BY Zenon, <1>1, HealthyLength
          <5>2. m \in Nat /\ healthy(table) \in Seq(LinkRecords)
            BY Zenon, <1>1, HealthyIds
          <5>3. healthy(table) # << >>
            BY Zenon, <2>7, <3>3 DEF schedule
          <5> HIDE DEF m
          <5>4. healthy(table) \in Seq(LinkRecords) /\ healthy(table) # << >> => Len(healthy(table)) # 0
            OBVIOUS
          <5> QED
            BY Zenon, <5>1, <5>2, <5>3, <5>4 DEF m
        <4> HIDE DEF m
        <4>3. CASE Usize % m = 0
          <5>1. wraps' = wraps
            BY Zenon, <2>3, <4>2, <4>3 DEF Broken
          <5>2. 0 % m = 0
            BY <4>2
          <5>3. Even(table, Usize, after)
            BY Zenon, <3>5, <3>10
          <5>4. Even(table, 0, after)
            BY Zenon, <4>3, <5>2, <5>3, WrapKeepsEven DEF m
          <5> QED
            BY Zenon, <3>2, <3>7, <4>1, <5>1, <5>4 DEF Lapped
        <4>4. CASE Usize % m # 0
          <5>1. wraps' = wraps + 1
            BY Zenon, <2>3, <2>7, <3>1, <3>10, <4>2, <4>4 DEF Broken
          <5> DEFINE none == [l \in LinkIds |-> 0]
          <5>2. none \in [LinkIds -> Nat] /\ \A l \in LinkIds : none[l] = 0
            OBVIOUS
          <5> HIDE DEF none
          <5>3. Even(table, 0, none)
            <6>1. 0 \in Nat
              OBVIOUS
            <6> QED
              BY Zenon, <1>1, <5>2, <6>1, FreshIsEven
          <5>4. \A k, l \in UpIn(table) : after[k] <= after[l] + 1
            <6>1. cursor + 1 \in Nat
              BY <1>3
            <6> QED
              BY Zenon, <1>1, <3>5, <6>1, EvenIsFair
          <5>5. \A k, l \in UpIn(table) : picks'[k] - none[k] <= picks'[l] - none[l] + wraps'
            <6> SUFFICES ASSUME NEW k \in UpIn(table), NEW l \in UpIn(table)
                         PROVE  picks'[k] - none[k] <= picks'[l] - none[l] + wraps'
              BY Zenon
            <6>1. k \in LinkIds /\ l \in LinkIds
              BY Zenon, <3>6
            <6>2. /\ picks'[k] \in Nat /\ picks'[l] \in Nat /\ after[k] \in Nat /\ after[l] \in Nat
                  /\ none[k] = 0 /\ none[l] = 0
              BY Zenon, <1>3, <3>2, <5>2, <6>1
            <6>3. after[k] <= after[l] + 1 /\ picks'[k] - after[k] <= picks'[l] - after[l] + wraps
              BY Zenon, <3>7, <5>4
            <6> QED
              BY <1>3, <5>1, <6>2, <6>3
          <5> QED
            BY Zenon, <4>1, <5>2, <5>3, <5>5 DEF Lapped
        <4> QED
          BY Zenon, <4>3, <4>4
      <3> QED
        BY Zenon, <3>9, <3>10
    <2> QED
      BY Zenon, <2>5, <2>6, <2>7
  <1>7. ASSUME NEW s \in Strategy, swap_strategy(s) PROVE RoundRobinEven' /\ HeldIsCurrent'
    <2>1. ~loaded'.current
      <3>1. loaded \in Held \/ loaded = NoStrategy
        BY Zenon, <1>0 DEF TunnelTypes
      <3> QED
        BY SMTT(30), <1>7, <3>1 DEF swap_strategy, Held, NoStrategy
    <2>2. \A l \in LinkIds : picks'[l] = 0
      BY Zenon, <1>7 DEF swap_strategy, NoPicks
    <2>3. Lapped(table', cursor', picks', wraps')
      BY Zenon, <1>1, <1>2, <1>3, <2>2, FreshLap
    <2> QED
      BY Zenon, <2>1, <2>3 DEF RoundRobinEven, HeldIsCurrent
  <1>8. ASSUME NEW i \in DOMAIN table, swap_links(i) PROVE RoundRobinEven' /\ HeldIsCurrent'
    <2>1. UNCHANGED <<strategy, cursor, loaded>>
      BY Zenon, <1>8 DEF swap_links
    <2>2. \A l \in LinkIds : picks'[l] = 0
      BY Zenon, <1>8 DEF swap_links, NoPicks
    <2>3. Lapped(table', cursor', picks', wraps')
      BY Zenon, <1>1, <1>2, <1>3, <2>2, FreshLap
    <2> QED
      BY Zenon, <1>0, <2>1, <2>3 DEF RoundRobinEven, HeldIsCurrent
  <1>12. CASE seal_refused
    BY Zenon, <1>4, <1>12 DEF seal_refused, Engine
  <1>9. CASE skip_link \/ send_to \/ send_to_fails
    BY Zenon, <1>4, <1>9 DEF skip_link, send_to, send_to_fails, Engine
  <1>10. CASE \E frame \in wire : receive(frame)
    BY Zenon, <1>4, <1>10 DEF receive, Engine
  <1>11. CASE UNCHANGED vars
    BY Zenon, <1>4, <1>11 DEF vars
  <1> QED
    BY Zenon, <1>5, <1>6, <1>7, <1>8, <1>9, <1>10, <1>11, <1>12 DEF Next

(***************************************************************************)
(* Packets are shared out as configured, for any table, any weights and    *)
(* any width of the cursor: round-robin is never two packets ahead on a    *)
(* link, and one more for each wrap-around of the cursor in the middle of  *)
(* a round; the weighted walk gives every link its weight's share.         *)
(***************************************************************************)
THEOREM SharingIsFair == Spec => []SharedOut
  <1>1. FairInv /\ [Next]_vars => FairInv'
    BY Zenon, TunnelNextInv, FairNextInv DEF FairInv
  <1>2. FairInv => SharedOut
    <2> SUFFICES ASSUME FairInv PROVE SharedOut
      BY Zenon
    <2>1. /\ Len(Table) \in Nat /\ table \in [1 .. Len(Table) -> LinkRecords]
          /\ \A i, j \in 1 .. Len(Table) : table[i].id = table[j].id => i = j
          /\ cursor \in Nat
      BY Zenon, TableAtStart DEF FairInv, TunnelInv, TunnelTypes, Positions
    <2>2. ASSUME strategy = "round-robin", NEW k \in UpIds, NEW l \in UpIds
          PROVE  picks[k] <= picks[l] + 1 + wraps
      <3>1. PICK lap \in [LinkIds -> Nat] :
                /\ Even(table, cursor, lap)
                /\ \A i, j \in UpIn(table) :
                      picks[i] - lap[i] <= picks[j] - lap[j] + wraps
        BY Zenon, <2>2 DEF FairInv, RoundRobinEven, Lapped
      <3>2. k \in UpIn(table) /\ l \in UpIn(table)
        BY Zenon DEF UpIds, UpIn
      <3>3. lap[k] <= lap[l] + 1
        BY Zenon, <2>1, <3>1, <3>2, EvenIsFair
      <3>4. picks[k] - lap[k] <= picks[l] - lap[l] + wraps
        BY Zenon, <3>1, <3>2
      <3>5. k \in LinkIds /\ l \in LinkIds
        BY <2>1, <3>2 DEF UpIn, Up, LinkRecords
      <3>6. /\ picks[k] \in Nat /\ picks[l] \in Nat /\ lap[k] \in Nat /\ lap[l] \in Nat
            /\ wraps \in Nat
        BY Zenon, <3>1, <3>5 DEF FairInv, TunnelInv, TunnelTypes
      <3> QED
        BY <3>3, <3>4, <3>6
    <2> DEFINE weights == Weights(healthy(table))
               m == Len(healthy(table))
    <2>3. m \in Nat /\ weights \in [1 .. m -> Nat] /\ Len(weights) = m
      <3>1. m \in Nat /\ healthy(table) \in [1 .. m -> LinkRecords]
        BY Zenon, <2>1, HealthyIds
      <3> QED
        BY <3>1 DEF Weights, LinkRecords
    <2> HIDE DEF weights, m
    <2>4. ASSUME NEW i \in DOMAIN weights
          PROVE  Cardinality({pick \in WeightedDraws(weights) :
                                 CumulativePick(weights, pick) = i}) = weights[i]
      BY Zenon, <2>3, WeightsAreHonoured
    <2> QED
      BY Zenon, <2>2, <2>4 DEF SharedOut, weights
  <1> QED
    BY <1>1, <1>2, FairInitInv, PTL DEF Spec
=============================================================================
