--------------------------- MODULE ReactorProofs ----------------------------
(***************************************************************************)
(* Proofs about what drives the event loop of desmos-rt, for every value   *)
(* of the constants: timers fire in their millisecond (TimerWheel), the    *)
(* kqueue reactor implements the epoll one (KqueueReactor), and the IOCP   *)
(* reactor reports what is watched (IocpReactor).                          *)
(***************************************************************************)
EXTENDS TimerWheel, KqueueReactor, IocpReactor, FiniteSetTheorems, WellFoundedInduction, TLAPS

----------------------------------------------------------------------------
(* Arithmetic with remainders, and induction.                              *)

\* Division with remainder.
LEMMA ModDef ==
    ASSUME NEW x \in Int, NEW w \in Nat \ {0}
    PROVE  /\ x = (x \div w) * w + (x % w)
           /\ x \div w \in Int
           /\ x % w \in 0 .. w - 1
OBVIOUS

\* A remainder is one.
LEMMA ModRange ==
    ASSUME NEW x \in Int, NEW w \in Nat \ {0}
    PROVE  x % w \in 0 .. w - 1
OBVIOUS

\* A positive multiple of w is at least w.
LEMMA MultipleAtLeast ==
    ASSUME NEW k \in Int, NEW w \in Nat, k >= 1
    PROVE  k * w >= w
<1>1. (k - 1) * w \in Nat
  OBVIOUS
<1>2. k * w = (k - 1) * w + w
  OBVIOUS
<1> QED
  BY <1>1, <1>2

\* Two remainders that differ by a multiple of w are the same.
LEMMA RemainderUnique ==
    ASSUME NEW k \in Int, NEW w \in Nat \ {0},
           NEW r \in 0 .. w - 1, NEW s \in 0 .. w - 1, k * w = r - s
    PROVE  r = s
<1>1. CASE k >= 1
  BY <1>1, MultipleAtLeast
<1>2. CASE k <= -1
  <2>1. (-k) * w = s - r
    OBVIOUS
  <2> QED
    BY <1>2, <2>1, MultipleAtLeast
<1>3. CASE k = 0
  BY <1>3
<1> QED
  BY <1>1, <1>2, <1>3

\* The remainder of a number written as a multiple and a rest.
LEMMA ModIs ==
    ASSUME NEW q \in Int, NEW w \in Nat \ {0}, NEW r \in 0 .. w - 1
    PROVE  (q * w + r) % w = r
<1> DEFINE x == q * w + r
           p == x \div w
           s == x % w
<1>1. x = p * w + s /\ p \in Int /\ s \in 0 .. w - 1
  <2>1. x \in Int
    OBVIOUS
  <2> QED
    BY Zenon, <2>1, ModDef
<1>2. q * w + r = p * w + s
  BY Zenon, <1>1
<1> HIDE DEF x, p, s
<1>3. (q - p) * w = s - r
  <2>1. (q - p) * w = q * w - p * w
    BY <1>1
  <2> QED
    BY <2>1, <1>1, <1>2
<1>4. s = r
  BY <1>1, <1>3, RemainderUnique
<1> QED
  BY Zenon, <1>4 DEF s, x

\* Two numbers less than w apart have different remainders.
LEMMA RemaindersDiffer ==
    ASSUME NEW w \in Nat \ {0}, NEW i \in Nat, NEW j \in Nat, i < j, j - i < w
    PROVE  i % w # j % w
<1> SUFFICES ASSUME i % w = j % w
             PROVE  FALSE
  BY Zenon
<1> DEFINE p == i \div w
           q == j \div w
           r == i % w
<1>1. i = p * w + r /\ p \in Int /\ r \in 0 .. w - 1
  BY ModDef
<1>2. j = q * w + r /\ q \in Int
  BY ModDef
<1> HIDE DEF p, q, r
<1>3. (q - p) * w = (j - i) - 0
  <2>1. (q - p) * w = q * w - p * w
    BY <1>1, <1>2
  <2>2. q * w \in Int /\ p * w \in Int
    BY <1>1, <1>2
  <2> QED
    BY <2>1, <2>2, <1>1, <1>2
<1>4. j - i \in 0 .. w - 1 /\ 0 \in 0 .. w - 1 /\ q - p \in Int
  BY <1>1, <1>2
<1>5. j - i = 0
  BY Zenon, <1>3, <1>4, RemainderUnique
<1> QED
  BY <1>5

\* A set of numbers that is not empty has a least element.
LEMMA LeastNumber ==
    ASSUME NEW T \in SUBSET Nat, T # {}
    PROVE  \E m \in T : \A k \in T : m <= k
  <1>1. PICK m \in T : \A k \in T : <<k, m>> \notin OpToRel(<, Nat)
    BY WFMin, NatLessThanWellFounded, Zenon
  <1>2. \A k \in T : ~(k < m)
    BY <1>1, Zenon DEF OpToRel
  <1> QED
    BY <1>2

\* Induction up to m: a set with 0 that is closed under successor is all.
LEMMA InductionUpTo ==
    ASSUME NEW m \in Nat, NEW S \in SUBSET (0 .. m), 0 \in S,
           \A k \in 1 .. m : k - 1 \in S => k \in S
    PROVE  S = 0 .. m
  <1> SUFFICES ASSUME S # 0 .. m PROVE FALSE
    BY Zenon
  <1> DEFINE T == (0 .. m) \ S
  <1>1. T \in SUBSET Nat /\ T # {}
    <2>1. T \in SUBSET Nat
      OBVIOUS
    <2>2. S \subseteq 0 .. m
      BY Zenon
    <2>3. T # {}
      BY <2>2, Zenon
    <2> QED
      BY Zenon, <2>1, <2>3
  <1> HIDE DEF T
  <1>2. PICK t \in T : \A k \in T : t <= k
    BY Zenon, <1>1, LeastNumber
  <1>3. t \in 1 .. m /\ t - 1 \in S /\ t \notin S
    BY <1>2 DEF T
  <1> QED
    BY Zenon, <1>3

----------------------------------------------------------------------------
(* TimerWheel.  A timer lies in the slot of its expiry; it has its turn    *)
(* still ahead, at level 0 to fire and at the others to move down when the *)
(* clock enters the slot.                                                  *)

\* The spans of the levels: each is a multiple of the one below.
LEMMA Spans ==
    /\ Span(0) = 1 /\ Span(1) = SLOTS
    /\ Span(2) = SLOTS * SLOTS /\ Span(3) = SLOTS * SLOTS * SLOTS
    /\ \A l \in 0 .. 3 : Span(l) \in Nat \ {0}
<1>1. SLOTS \in Nat \ {0}
  BY WheelAssumption
<1>2. ASSUME NEW x \in Nat \ {0}, NEW y \in Nat \ {0} PROVE x * y \in Nat \ {0}
  OBVIOUS
<1>3. SLOTS * SLOTS \in Nat \ {0}
  BY Zenon, <1>1, <1>2
<1>4. SLOTS * SLOTS * SLOTS \in Nat \ {0}
  BY Zenon, <1>1, <1>2, <1>3
<1>5. Span(0) = 1 /\ Span(1) = SLOTS /\ Span(2) = SLOTS * SLOTS
      /\ Span(3) = SLOTS * SLOTS * SLOTS
  BY DEF Span
<1>6. ASSUME NEW l \in 0 .. 3 PROVE Span(l) \in Nat \ {0}
  <2>1. l = 0 \/ l = 1 \/ l = 2 \/ l = 3
    OBVIOUS
  <2>2. Span(0) \in Nat \ {0}
    BY <1>5
  <2> QED
    BY Zenon, <2>1, <2>2, <1>1, <1>3, <1>4, <1>5
<1> QED
  BY Zenon, <1>5, <1>6

\* The last multiple of n that is not after t.
Floor(t, n) == (t \div n) * n

\* The floor is a multiple, at most t, and less than n below it.
LEMMA FloorIs ==
    ASSUME NEW t \in Nat, NEW n \in Nat \ {0}
    PROVE  /\ Floor(t, n) \in Int
           /\ Floor(t, n) <= t /\ t < Floor(t, n) + n
           /\ Floor(t, n) % n = 0
           /\ t \div n \in Int
<1>1. t = (t \div n) * n + (t % n) /\ t \div n \in Int /\ t % n \in 0 .. n - 1
  <2>1. t \in Int
    OBVIOUS
  <2> QED
    BY Zenon, <2>1, ModDef
<1> DEFINE q == t \div n
           f == q * n
<1>2. q \in Int /\ f \in Int
  BY <1>1
<1>3. (q * n + 0) % n = 0
  <2>1. 0 \in 0 .. n - 1
    OBVIOUS
  <2> QED
    BY Zenon, <2>1, <1>2, ModIs
<1>4. q * n + 0 = f
  BY <1>2
<1>5. Floor(t, n) = f
  BY Zenon DEF Floor
<1> HIDE DEF q, f
<1>6. t = f + (t % n)
  BY Zenon, <1>1 DEF q, f
<1>7. f <= t /\ t < f + n
  BY <1>1, <1>2, <1>6
<1> QED
  BY Zenon, <1>2, <1>3, <1>4, <1>5, <1>7 DEF q

\* A multiple is its own floor.
LEMMA FloorOfMultiple ==
    ASSUME NEW c \in Nat, NEW n \in Nat \ {0}, c % n = 0
    PROVE  Floor(c, n) = c
<1>0. c \in Int
  OBVIOUS
<1>1. c = (c \div n) * n + (c % n) /\ c \div n \in Int
  BY Zenon, <1>0, ModDef
<1>2. (c \div n) * n \in Int
  BY <1>1
<1> QED
  BY <1>1, <1>2 DEF Floor

\* Equal multiples have equal quotients.
LEMMA SameQuotient ==
    ASSUME NEW p \in Int, NEW q \in Int, NEW n \in Nat \ {0}, p * n = q * n
    PROVE  p = q
<1>1. CASE p > q
  <2>1. (p - q) * n >= n
    BY <1>1, MultipleAtLeast
  <2>2. (p - q) * n = p * n - q * n /\ p * n \in Int /\ q * n \in Int
    OBVIOUS
  <2> QED
    BY <2>1, <2>2
<1>2. CASE q > p
  <2>1. (q - p) * n >= n
    BY <1>2, MultipleAtLeast
  <2>2. (q - p) * n = q * n - p * n /\ p * n \in Int /\ q * n \in Int
    OBVIOUS
  <2> QED
    BY <2>1, <2>2
<1> QED
  BY <1>1, <1>2

----------------------------------------------------------------------------
\* A timer in its place: in the slot of its expiry, and the turn in which it
\* fires (level 0) or moves down (the other levels) is not over at time `now`.
Placed(e, now) ==
    /\ e = [id |-> e.id, expires |-> e.expires, lvl |-> e.lvl, slot |-> e.slot]
    /\ e.expires \in Nat /\ e.expires <= U64Max /\ now <= e.expires
    /\ e.lvl \in 0 .. 3
    /\ e.slot = SlotAt(e.lvl, e.expires)
    /\ IF e.lvl = 0 THEN e.expires < now + SLOTS
                    ELSE now <= Floor(e.expires, Span(e.lvl))

\* Its level has nothing to do with it in the turn of `now`.
Settled(e, now) == e.lvl # 0 => now < Floor(e.expires, Span(e.lvl))

\* The level of a delay is the one whose turn is within reach.
LEMMA LevelIs ==
    ASSUME NEW delta \in Nat
    PROVE  /\ level_for_delta(delta) \in 0 .. 3
           /\ level_for_delta(delta) = 0 => delta < SLOTS
           /\ level_for_delta(delta) # 0 => delta >= Span(level_for_delta(delta))
<1>1. /\ Span(1) = SLOTS /\ Span(1) \in Nat /\ Span(2) \in Nat /\ Span(3) \in Nat
  BY Spans
<1> DEFINE a == Span(1)
           b == Span(2)
           c == Span(3)
<1>2. level_for_delta(delta) =
        IF delta < a THEN 0 ELSE IF delta < b THEN 1 ELSE IF delta < c THEN 2 ELSE 3
  BY Zenon DEF level_for_delta
<1>3. a \in Nat /\ b \in Nat /\ c \in Nat /\ a = SLOTS
  BY Zenon, <1>1
<1>4. CASE delta < a
  BY <1>2, <1>3, <1>4
<1>5. CASE ~(delta < a) /\ delta < b
  <2>1. level_for_delta(delta) = 1
    BY Zenon, <1>2, <1>5
  <2>2. delta >= Span(1)
    BY <1>3, <1>5
  <2> QED
    BY <2>1, <2>2
<1>6. CASE ~(delta < a) /\ ~(delta < b) /\ delta < c
  <2>1. level_for_delta(delta) = 2
    BY Zenon, <1>2, <1>6
  <2>2. delta >= Span(2)
    BY <1>3, <1>6
  <2> QED
    BY <2>1, <2>2
<1>7. CASE ~(delta < a) /\ ~(delta < b) /\ ~(delta < c)
  <2>1. level_for_delta(delta) = 3
    BY Zenon, <1>2, <1>7
  <2>2. delta >= Span(3)
    BY <1>3, <1>7
  <2> QED
    BY <2>1, <2>2
<1> QED
  BY Zenon, <1>4, <1>5, <1>6, <1>7

\* Inserting a timer places it, and no later cascade of the turn touches it.
LEMMA InsertPlaces ==
    ASSUME NEW id, NEW expires \in Nat, expires <= U64Max, NEW now \in Nat, now <= expires
    PROVE  LET e == insert_entry(id, expires, now)
           IN  e.id = id /\ e.expires = expires /\ Placed(e, now) /\ Settled(e, now)
<1> DEFINE delta == expires - now
           lvl == level_for_delta(delta)
           e == [id |-> id, expires |-> expires, lvl |-> lvl, slot |-> SlotAt(lvl, expires)]
<1>1. delta \in Nat /\ (IF expires > now THEN expires - now ELSE 0) = delta
  OBVIOUS
<1>2. insert_entry(id, expires, now) = e
  BY Zenon, <1>1 DEF insert_entry
<1>3. /\ lvl \in 0 .. 3 /\ (lvl = 0 => delta < SLOTS)
      /\ (lvl # 0 => delta >= Span(lvl))
  BY Zenon, <1>1, LevelIs
<1> HIDE DEF lvl
<1>4. e.id = id /\ e.expires = expires /\ e.lvl = lvl /\ e.slot = SlotAt(lvl, expires)
      /\ e = [id |-> e.id, expires |-> e.expires, lvl |-> e.lvl, slot |-> e.slot]
  BY Zenon
<1> HIDE DEF e
<1>5. lvl # 0 => now < Floor(expires, Span(lvl))
  <2>1. Span(lvl) \in Nat \ {0}
    BY Zenon, <1>3, Spans
  <2>2. Floor(expires, Span(lvl)) \in Int /\ expires < Floor(expires, Span(lvl)) + Span(lvl)
    BY Zenon, <2>1, FloorIs
  <2> QED
    BY <2>1, <2>2, <1>3
<1>6. lvl = 0 => expires < now + SLOTS
  BY <1>3, WheelAssumption
<1>7. lvl # 0 => now <= Floor(expires, Span(lvl))
  <2>1. Span(lvl) \in Nat \ {0}
    BY Zenon, <1>3, Spans
  <2>2. Floor(expires, Span(lvl)) \in Int
    BY Zenon, <2>1, FloorIs
  <2> QED
    BY <2>2, <1>5
<1>8. Settled(e, now)
  BY Zenon, <1>4, <1>5 DEF Settled
<1>9. Placed(e, now)
  BY Zenon, <1>3, <1>4, <1>6, <1>7 DEF Placed
<1> QED
  BY Zenon, <1>2, <1>4, <1>8, <1>9

\* What one level's cascade does to one timer.
Cascades(e, now, lvl) ==
    now % Span(lvl) = 0 /\ e.lvl = lvl /\ e.slot = SlotAt(lvl, now)

\* A timer after the cascade of one level.
Moved(e, now, lvl) ==
    IF Cascades(e, now, lvl) THEN insert_entry(e.id, e.expires, now) ELSE e

\* A cascade moves each timer on its own.
LEMMA CascadedIsMoved ==
    ASSUME NEW W, NEW now, NEW lvl
    PROVE  Cascaded(W, now, lvl) = {Moved(e, now, lvl) : e \in W}
<1>1. CASE now % Span(lvl) = 0
  BY Zenon, <1>1 DEF Cascaded, cascade_level, Moved, Cascades
<1>2. CASE now % Span(lvl) # 0
  BY Zenon, <1>2 DEF Cascaded, Moved, Cascades
<1> QED
  BY Zenon, <1>1, <1>2

\* A cascade leaves every timer placed, and those of its level settled.
LEMMA MovedPlaces ==
    ASSUME NEW now \in Nat, NEW lvl \in 1 .. 3, NEW e, Placed(e, now)
    PROVE  LET m == Moved(e, now, lvl)
           IN  /\ m.id = e.id /\ m.expires = e.expires /\ Placed(m, now)
               /\ Settled(e, now) \/ e.lvl = lvl => Settled(m, now)
<1>0. e.expires \in Nat /\ e.expires <= U64Max /\ now <= e.expires
  BY Zenon DEF Placed
<1>1. CASE Cascades(e, now, lvl)
  <2>1. Moved(e, now, lvl) = insert_entry(e.id, e.expires, now)
    BY Zenon, <1>1 DEF Moved
  <2> QED
    BY <1>0, <2>1, InsertPlaces
<1>2. CASE ~Cascades(e, now, lvl)
  <2>1. Moved(e, now, lvl) = e
    BY Zenon, <1>2 DEF Moved
  <2>2. ASSUME e.lvl = lvl PROVE Settled(e, now)
    <3> DEFINE n == Span(lvl)
               f == Floor(e.expires, n)
    <3>1. n \in Nat \ {0}
      BY Spans
    <3>2. f \in Int /\ f % n = 0
      BY Zenon, <3>1, <1>0, FloorIs
    <3>3. now <= f /\ lvl # 0 /\ e.slot = SlotAt(lvl, e.expires)
      BY <2>2 DEF Placed
    <3>4. ASSUME now = f PROVE FALSE
      <4>1. now % n = 0
        BY Zenon, <3>2, <3>4
      <4>2. Floor(now, n) = f
        BY Zenon, <3>1, <3>4, <4>1, FloorOfMultiple
      <4>3. now \div n = e.expires \div n
        <5>1. (now \div n) * n = (e.expires \div n) * n
          BY Zenon, <4>2 DEF Floor
        <5>2. now \div n \in Int /\ e.expires \div n \in Int
          BY Zenon, <1>0, <3>1, FloorIs
        <5> HIDE DEF n
        <5> QED
          BY Zenon, <5>1, <5>2, <3>1, SameQuotient
      <4>4. SlotAt(lvl, now) = e.slot
        BY Zenon, <4>3, <3>3 DEF SlotAt
      <4> QED
        BY Zenon, <4>1, <4>4, <2>2, <1>2 DEF Cascades
    <3>5. now < f
      <4> HIDE DEF f
      <4> QED
        BY <3>2, <3>3, <3>4
    <3> QED
      BY Zenon, <3>5, <2>2 DEF Settled
  <2> QED
    BY Zenon, <2>1, <2>2
<1> QED
  BY Zenon, <1>1, <1>2

\* A timer after all three cascades of a turn.
Final(e, now) == Moved(Moved(Moved(e, now, 3), now, 2), now, 1)

\* After the three cascades a timer is placed and every level is settled.
LEMMA FinalPlaces ==
    ASSUME NEW now \in Nat, NEW e, Placed(e, now)
    PROVE  LET m == Final(e, now)
           IN  m.id = e.id /\ m.expires = e.expires /\ Placed(m, now) /\ Settled(m, now)
<1> DEFINE a == Moved(e, now, 3)
           b == Moved(a, now, 2)
           c == Moved(b, now, 1)
<1>1. /\ a.id = e.id /\ a.expires = e.expires /\ Placed(a, now)
      /\ Settled(e, now) \/ e.lvl = 3 => Settled(a, now)
  BY MovedPlaces
<1> HIDE DEF a
<1>2. /\ b.id = a.id /\ b.expires = a.expires /\ Placed(b, now)
      /\ Settled(a, now) \/ a.lvl = 2 => Settled(b, now)
  BY <1>1, MovedPlaces
<1> HIDE DEF b
<1>3. /\ c.id = b.id /\ c.expires = b.expires /\ Placed(c, now)
      /\ Settled(b, now) \/ b.lvl = 1 => Settled(c, now)
  BY <1>2, MovedPlaces
<1>4. Final(e, now) = c
  BY Zenon DEF Final, a, b, c
<1> HIDE DEF c
<1>5. Settled(c, now)
  <2>1. Settled(b, now) => Settled(c, now)
    BY Zenon, <1>3
  <2>2. Settled(a, now) => Settled(b, now)
    BY Zenon, <1>2
  <2>3. ASSUME ~Settled(a, now) PROVE a.lvl \in 1 .. 2
    <3>1. a = e
      BY <2>3, InsertPlaces DEF a, Moved, Placed
    <3> QED
      BY <3>1, <2>3, <1>1 DEF Settled, Placed
  <2>4. ASSUME ~Settled(b, now) PROVE b.lvl = 1
    <3>1. ~Settled(a, now) /\ a.lvl # 2
      BY Zenon, <2>4, <1>2
    <3>2. a.lvl = 1
      BY <3>1, <2>3
    <3>3. b = a
      BY Zenon, <2>4, <1>1, InsertPlaces DEF b, Moved, Placed
    <3> QED
      BY Zenon, <3>2, <3>3
  <2> QED
    BY Zenon, <2>1, <2>4, <1>3
<1> QED
  BY Zenon, <1>1, <1>2, <1>3, <1>4, <1>5

\* cascade_if_needed does to each timer what the three cascades do.
LEMMA CascadeIsFinal ==
    ASSUME NEW W, NEW now
    PROVE  cascade_if_needed(W, now) = {Final(e, now) : e \in W}
<1>1. Cascaded(W, now, 3) = {Moved(e, now, 3) : e \in W}
  BY Zenon, CascadedIsMoved
<1>2. Cascaded(Cascaded(W, now, 3), now, 2)
        = {Moved(e, now, 2) : e \in {Moved(d, now, 3) : d \in W}}
  BY Zenon, <1>1, CascadedIsMoved
<1>3. cascade_if_needed(W, now)
        = {Moved(e, now, 1) : e \in
             {Moved(d, now, 2) : d \in {Moved(c, now, 3) : c \in W}}}
  BY Zenon, <1>2, CascadedIsMoved DEF cascade_if_needed
<1> QED
  BY <1>3 DEF Final

----------------------------------------------------------------------------
\* A wheel and what has fired, at time `now` and with the timers below n:
\* each of them is placed in the wheel or has fired in its millisecond.
Sound(state, now, n) ==
    /\ \A e \in state.wheel : Placed(e, now)
    /\ \A e, f \in state.wheel : e.id = f.id => e = f
    /\ \A f \in state.out : f.at = f.expires
    /\ \A f, g \in state.out : f.id = g.id => f = g
    /\ {f.id : f \in state.out} \cup {e.id : e \in state.wheel} = 0 .. n - 1
    /\ \A e \in state.wheel : \A f \in state.out : e.id # f.id

\* In the turn of `now` the slot holds the timers of `now`, all of them.
LEMMA DueIsExact ==
    ASSUME NEW now \in Nat, NEW e, Placed(e, now), Settled(e, now)
    PROVE  /\ (e.lvl = 0 /\ e.slot = SlotAt(0, now)) <=> e.expires = now
           /\ e.expires # now => Placed(e, now + 1)
<1>1. /\ e.expires \in Nat /\ now <= e.expires /\ e.lvl \in 0 .. 3
      /\ e.slot = SlotAt(e.lvl, e.expires) /\ e.expires <= U64Max
  BY Zenon DEF Placed
<1>2. SLOTS \in Nat \ {0}
  BY WheelAssumption
<1>3. \A x \in Nat : SlotAt(0, x) = x % SLOTS
  <2>1. \A x \in Nat : x \div 1 = x
    OBVIOUS
  <2> QED
    BY Zenon, <2>1, Spans DEF SlotAt
<1>4. CASE e.lvl = 0
  <2>1. e.expires < now + SLOTS /\ e.slot = e.expires % SLOTS
    BY Zenon, <1>1, <1>3, <1>4 DEF Placed
  <2>2. e.slot = SlotAt(0, now) <=> e.expires = now
    <3>1. ASSUME e.expires # now PROVE now % SLOTS # e.expires % SLOTS
      <4>1. now < e.expires /\ e.expires - now < SLOTS
        BY <3>1, <2>1, <1>1, <1>2
      <4> QED
        BY Zenon, <4>1, <1>1, <1>2, RemaindersDiffer
    <3>2. SlotAt(0, now) = now % SLOTS
      BY Zenon, <1>3
    <3> QED
      BY Zenon, <2>1, <3>1, <3>2
  <2>3. ASSUME e.expires # now PROVE Placed(e, now + 1)
    <3>1. now + 1 <= e.expires /\ e.expires < now + 1 + SLOTS
      BY <2>1, <2>3, <1>1, <1>2
    <3> QED
      BY Zenon, <3>1, <1>4 DEF Placed
  <2> QED
    BY Zenon, <2>2, <2>3, <1>4
<1>5. CASE e.lvl # 0
  <2> DEFINE f == Floor(e.expires, Span(e.lvl))
  <2>1. f \in Int /\ f <= e.expires
    BY Zenon, <1>1, Spans, FloorIs
  <2>2. now < f
    BY Zenon, <1>5 DEF Settled
  <2> HIDE DEF f
  <2>3. now + 1 <= f /\ now + 1 <= e.expires /\ e.expires # now
    BY <2>1, <2>2, <1>1
  <2>4. Placed(e, now + 1)
    BY Zenon, <2>3, <1>5 DEF Placed, f
  <2> QED
    BY Zenon, <2>3, <2>4, <1>5
<1> QED
  BY Zenon, <1>4, <1>5

\* One turn keeps the wheel sound.
LEMMA TurnSound ==
    ASSUME NEW now \in Nat, NEW n \in Nat, NEW state, Sound(state, now, n)
    PROVE  Sound(Turn(state, now), now + 1, n)
<1> DEFINE W   == cascade_if_needed(state.wheel, now)
           due == {e \in W : e.lvl = 0 /\ e.slot = SlotAt(0, now)}
           Fire(e) == [id |-> e.id, expires |-> e.expires, at |-> now]
           new == {Fire(e) : e \in due}
           next == Turn(state, now)
<1>1. next.wheel = W \ due /\ next.out = state.out \cup new
  BY Zenon DEF Turn
<1>2. W = {Final(e, now) : e \in state.wheel}
  BY Zenon, CascadeIsFinal
<1>3. ASSUME NEW e \in state.wheel
      PROVE  /\ Final(e, now).id = e.id /\ Final(e, now).expires = e.expires
             /\ Placed(Final(e, now), now) /\ Settled(Final(e, now), now)
  <2>1. Placed(e, now)
    BY Zenon DEF Sound
  <2> QED
    BY Zenon, <2>1, FinalPlaces
<1> HIDE DEF W
<1>4. \A e \in W : Placed(e, now) /\ Settled(e, now)
  BY Zenon, <1>2, <1>3
<1>5. \A e, f \in W : e.id = f.id => e = f
  BY <1>2, <1>3 DEF Sound
<1>6. \A e \in W : \E d \in state.wheel : d.id = e.id
  BY Zenon, <1>2, <1>3
<1>7. \A d \in state.wheel : \E e \in W : e.id = d.id
  BY Zenon, <1>2, <1>3
<1>8. /\ \A e \in due : e \in W /\ e.expires = now
      /\ \A e \in W \ due : Placed(e, now + 1)
  BY Zenon, <1>4, DueIsExact
<1> HIDE DEF due
<1>9. \A g \in new : g.at = g.expires /\ \E e \in due : g = Fire(e) /\ g.id = e.id
  BY <1>8
<1>10. \A e \in due : Fire(e) \in new /\ Fire(e).id = e.id
  BY Zenon
<1> HIDE DEF new, Fire, next
<1>11. \A e \in next.wheel : Placed(e, now + 1)
  BY Zenon, <1>1, <1>8
<1>12. \A e, f \in next.wheel : e.id = f.id => e = f
  BY Zenon, <1>1, <1>5
<1>13. \A f \in next.out : f.at = f.expires
  BY Zenon, <1>1, <1>9 DEF Sound
<1>14. ASSUME NEW f \in state.out, NEW e \in W PROVE f.id # e.id
  BY <1>6 DEF Sound
<1>15. ASSUME NEW f \in next.out, NEW g \in next.out, f.id = g.id PROVE f = g
  <2>1. CASE f \in state.out /\ g \in state.out
    BY Zenon, <1>15, <2>1 DEF Sound
  <2>2. CASE f \in new /\ g \in new
    <3>1. PICK d \in due, e \in due : f = Fire(d) /\ f.id = d.id /\ g = Fire(e) /\ g.id = e.id
      BY Zenon, <2>2, <1>9
    <3>2. d = e
      BY Zenon, <3>1, <1>5, <1>8, <1>15
    <3> QED
      BY Zenon, <3>1, <3>2
  <2>3. CASE f \in state.out /\ g \in new
    BY <2>3, <1>8, <1>9, <1>14, <1>15
  <2>4. CASE f \in new /\ g \in state.out
    BY <2>4, <1>8, <1>9, <1>14, <1>15
  <2> QED
    BY Zenon, <2>1, <2>2, <2>3, <2>4, <1>1
<1>16. ASSUME NEW e \in next.wheel, NEW f \in next.out PROVE e.id # f.id
  <2>1. CASE f \in state.out
    BY Zenon, <2>1, <1>1, <1>14
  <2>2. CASE f \in new
    <3>1. PICK d \in due : f.id = d.id
      BY Zenon, <2>2, <1>9
    <3> QED
      BY Zenon, <3>1, <1>1, <1>5, <1>8
  <2> QED
    BY Zenon, <2>1, <2>2, <1>1
<1>17. {f.id : f \in next.out} \cup {e.id : e \in next.wheel} = 0 .. n - 1
  <2> DEFINE old == {f.id : f \in state.out} \cup {e.id : e \in state.wheel}
             now_ == {f.id : f \in next.out} \cup {e.id : e \in next.wheel}
  <2>1. old = 0 .. n - 1
    BY Zenon DEF Sound
  <2>2. ASSUME NEW i \in old PROVE i \in now_
    <3>1. CASE \E f \in state.out : i = f.id
      BY Zenon, <3>1, <1>1
    <3>2. CASE \E d \in state.wheel : i = d.id
      <4>1. PICK e \in W : e.id = i
        BY Zenon, <3>2, <1>7
      <4>2. CASE e \in due
        BY Zenon, <4>1, <4>2, <1>1, <1>10
      <4>3. CASE e \notin due
        BY Zenon, <4>1, <4>3, <1>1
      <4> QED
        BY Zenon, <4>2, <4>3
    <3> QED
      BY Zenon, <3>1, <3>2
  <2>3. ASSUME NEW i \in now_ PROVE i \in old
    <3>1. CASE \E f \in next.out : i = f.id
      <4>1. PICK f \in next.out : i = f.id
        BY Zenon, <3>1
      <4>2. CASE f \in state.out
        BY Zenon, <4>1, <4>2
      <4>3. CASE f \in new
        <5>1. PICK e \in W : e.id = i
          BY Zenon, <4>1, <4>3, <1>8, <1>9
        <5> QED
          BY Zenon, <5>1, <1>6
      <4> QED
        BY Zenon, <4>1, <4>2, <4>3, <1>1
    <3>2. CASE \E e \in next.wheel : i = e.id
      BY Zenon, <3>2, <1>1, <1>6
    <3> QED
      BY Zenon, <3>1, <3>2
  <2> HIDE DEF old, now_
  <2>4. now_ = old
    BY Zenon, <2>2, <2>3
  <2> QED
    BY Zenon, <2>1, <2>4 DEF now_
<1>18. next = Turn(state, now)
  BY Zenon DEF next
<1> QED
  BY Zenon, <1>11, <1>12, <1>13, <1>15, <1>16, <1>17, <1>18 DEF Sound

\* The recursion of Turns is well-founded: there is a function that satisfies it.
LEMMA TurnsIs ==
    ASSUME NEW m \in Nat, NEW start, NEW from
    PROVE  LET run == Turns(start, from, m)
           IN  /\ run[0] = start
               /\ \A k \in 1 .. m : run[k] = Turn(run[k - 1], from + k - 1)
<1> DEFINE Runs(f, n) == f = [k \in 0 .. n |-> IF k = 0 THEN start
                                               ELSE Turn(f[k - 1], from + k - 1)]
           S == {n \in 0 .. m : \E f : Runs(f, n)}
<1>1. 0 \in S
  <2>1. Runs([k \in 0 .. 0 |-> start], 0)
    OBVIOUS
  <2> HIDE DEF Runs
  <2> QED
    BY <2>1
<1>2. ASSUME NEW t \in 1 .. m, t - 1 \in S PROVE t \in S
  <2>1. PICK f : Runs(f, t - 1)
    BY Zenon, <1>2
  <2> DEFINE g == [k \in 0 .. t |-> IF k = t THEN Turn(f[t - 1], from + t - 1) ELSE f[k]]
  <2>2. \A k \in 0 .. (t - 1) : f[k] = IF k = 0 THEN start ELSE Turn(f[k - 1], from + k - 1)
    BY Zenon, <2>1
  <2>3. \A k \in 0 .. t : g[k] = IF k = 0 THEN start ELSE Turn(g[k - 1], from + k - 1)
    <3> TAKE k \in 0 .. t
    <3>1. CASE k = t
      BY <3>1
    <3>2. CASE k # t
      BY <2>2, <3>2
    <3> QED
      BY Zenon, <3>1, <3>2
  <2>4. Runs(g, t)
    <3>1. g = [k \in 0 .. t |-> g[k]]
      BY Zenon
    <3> HIDE DEF g
    <3> QED
      BY Zenon, <2>3, <3>1
  <2> HIDE DEF g, Runs
  <2> QED
    BY <2>4
<1>3. S \in SUBSET (0 .. m)
  BY Zenon
<1> HIDE DEF S
<1>4. m \in S
  BY SMTT(30), <1>1, <1>2, <1>3, InductionUpTo
<1>5. \E f : Runs(f, m)
  BY Zenon, <1>4 DEF S
<1> DEFINE run == CHOOSE f : Runs(f, m)
<1>6. Runs(run, m)
  BY Zenon, <1>5
<1>7. Turns(start, from, m) = run
  BY Zenon DEF Turns
<1> HIDE DEF run
<1>8. run[0] = start /\ \A k \in 1 .. m : run[k] = Turn(run[k - 1], from + k - 1)
  BY <1>6
<1> QED
  BY Zenon, <1>7, <1>8

\* Any number of turns keeps the wheel sound.
LEMMA TurnsSound ==
    ASSUME NEW now \in Nat, NEW n \in Nat, NEW m \in Nat, NEW start, Sound(start, now, n)
    PROVE  Sound(Turns(start, now, m)[m], now + m, n)
<1> DEFINE run == Turns(start, now, m)
           S == {k \in 0 .. m : Sound(run[k], now + k, n)}
<1>1. run[0] = start /\ \A k \in 1 .. m : run[k] = Turn(run[k - 1], now + k - 1)
  BY TurnsIs
<1> HIDE DEF run
<1>2. 0 \in S
  BY <1>1
<1>3. ASSUME NEW k \in 1 .. m, k - 1 \in S PROVE k \in S
  <2>1. Sound(run[k - 1], now + (k - 1), n)
    BY Zenon, <1>3
  <2>2. now + (k - 1) \in Nat /\ now + (k - 1) = now + k - 1 /\ now + (k - 1) + 1 = now + k
    OBVIOUS
  <2>3. Sound(Turn(run[k - 1], now + (k - 1)), now + (k - 1) + 1, n)
    BY Zenon, <2>1, <2>2, TurnSound
  <2>4. Sound(run[k], now + k, n)
    BY Zenon, <2>2, <2>3, <1>1
  <2> QED
    BY <2>4
<1>4. S \in SUBSET (0 .. m)
  BY Zenon
<1>5. S = 0 .. m
  <2> HIDE DEF S
  <2> QED
    BY SMTT(30), <1>2, <1>3, <1>4, InductionUpTo
<1>6. m \in S
  BY <1>5
<1> QED
  BY Zenon, <1>6 DEF run

----------------------------------------------------------------------------
\* The inductive invariant.
WheelInv ==
    /\ current_ms \in Nat /\ current_ms <= U64Max /\ next_id \in Nat
    /\ Sound([wheel |-> entries, out |-> fired], current_ms, next_id)

\* An empty wheel.
LEMMA WheelInitInv == WheelInit => WheelInv
<1> SUFFICES ASSUME WheelInit PROVE WheelInv
  BY Zenon
<1>1. entries = {} /\ fired = {} /\ current_ms = 0 /\ next_id = 0
  BY Zenon DEF WheelInit
<1>2. Sound([wheel |-> entries, out |-> fired], current_ms, next_id)
  <2>1. 0 .. (0 - 1) = {}
    OBVIOUS
  <2> QED
    BY Zenon, <2>1, <1>1 DEF Sound
<1> QED
  BY <1>1, <1>2, WheelAssumption DEF WheelInv

\* schedule places the new timer and touches no other.
LEMMA ScheduleInv ==
    ASSUME WheelInv, NEW after \in Delays, schedule(after)
    PROVE  WheelInv'
<1> DEFINE expires == Capped(current_ms + after)
           new == insert_entry(next_id, expires, current_ms)
           old == [wheel |-> entries, out |-> fired]
           next == [wheel |-> entries', out |-> fired']
<1>1. /\ entries' = entries \cup {new} /\ next_id' = next_id + 1
      /\ current_ms' = current_ms /\ fired' = fired
  BY Zenon DEF schedule
<1>2. /\ current_ms \in Nat /\ current_ms <= U64Max /\ next_id \in Nat
      /\ Sound(old, current_ms, next_id)
  BY Zenon DEF WheelInv
<1>3. expires \in Nat /\ expires <= U64Max /\ current_ms <= expires
  BY <1>2, WheelAssumption DEF Capped
<1>4. new.id = next_id /\ Placed(new, current_ms)
  BY Zenon, <1>2, <1>3, InsertPlaces
<1> HIDE DEF new, expires
<1>5. old.wheel = entries /\ old.out = fired /\ next.wheel = entries' /\ next.out = fired
  BY Zenon, <1>1
<1>6. /\ \A e \in entries : e.id \in 0 .. next_id - 1
      /\ \A f \in fired : f.id \in 0 .. next_id - 1
  BY Zenon, <1>2, <1>5 DEF Sound
<1>7. /\ \A e \in entries : e.id # next_id
      /\ \A f \in fired : f.id # next_id
  BY <1>2, <1>6
<1> HIDE DEF old, next
<1>8. \A e \in next.wheel : Placed(e, current_ms)
  BY Zenon, <1>1, <1>2, <1>4, <1>5 DEF Sound
<1>9. \A e, f \in next.wheel : e.id = f.id => e = f
  BY <1>1, <1>2, <1>4, <1>5, <1>7 DEF Sound
<1>10. \A f \in next.out : f.at = f.expires
  BY Zenon, <1>2, <1>5 DEF Sound
<1>11. \A f, g \in next.out : f.id = g.id => f = g
  BY Zenon, <1>2, <1>5 DEF Sound
<1>12. \A e \in next.wheel : \A f \in next.out : e.id # f.id
  BY Zenon, <1>1, <1>2, <1>4, <1>5, <1>7 DEF Sound
<1>13. {f.id : f \in next.out} \cup {e.id : e \in next.wheel} = 0 .. (next_id + 1) - 1
  <2>1. {f.id : f \in fired} \cup {e.id : e \in entries} = 0 .. next_id - 1
    BY Zenon, <1>2, <1>5 DEF Sound
  <2>2. {e.id : e \in next.wheel} = {e.id : e \in entries} \cup {next_id}
    BY Zenon, <1>1, <1>4, <1>5
  <2>3. 0 .. (next_id + 1) - 1 = (0 .. next_id - 1) \cup {next_id}
    BY <1>2
  <2> QED
    BY Zenon, <2>1, <2>2, <2>3, <1>5
<1>14. Sound(next, current_ms, next_id + 1)
  BY Zenon, <1>8, <1>9, <1>10, <1>11, <1>12, <1>13 DEF Sound
<1> QED
  BY <1>1, <1>2, <1>14 DEF WheelInv, next

\* poll runs the turns that have passed and fires what is due in each.
LEMMA WheelPollInv ==
    ASSUME WheelInv, NEW now \in current_ms .. Capped(current_ms + MaxStep), wheel_poll(now)
    PROVE  WheelInv'
<1> DEFINE count == now - current_ms + 1
           start == [wheel |-> entries, out |-> fired]
           result == Turns(start, current_ms, count)[count]
<1>1. /\ entries' = result.wheel /\ fired' = result.out
      /\ current_ms' = Capped(now + 1) /\ next_id' = next_id
  BY Zenon DEF wheel_poll
<1>2. /\ current_ms \in Nat /\ current_ms <= U64Max /\ next_id \in Nat
      /\ Sound(start, current_ms, next_id)
  BY Zenon DEF WheelInv
<1>3. /\ now \in Nat /\ current_ms <= now /\ now <= U64Max
      /\ count \in Nat /\ current_ms + count = now + 1
  BY <1>2, WheelAssumption DEF Capped
<1>4. Sound(result, now + 1, next_id)
  <2>1. Sound(result, current_ms + count, next_id)
    <3> HIDE DEF count, start
    <3> QED
      BY Zenon, <1>2, <1>3, TurnsSound
  <2> HIDE DEF result
  <2> QED
    BY Zenon, <2>1, <1>3
<1> HIDE DEF result
<1>5. \A e \in result.wheel : now + 1 <= e.expires /\ e.expires \in Nat /\ e.expires <= U64Max
  BY Zenon, <1>4 DEF Sound, Placed
<1> DEFINE next == [wheel |-> entries', out |-> fired']
<1>6. next.wheel = result.wheel /\ next.out = result.out
  BY Zenon, <1>1
<1> HIDE DEF next
<1>7. Sound(next, now + 1, next_id)
  BY Zenon, <1>4, <1>6 DEF Sound
<1>8. CASE now + 1 <= U64Max
  <2>1. current_ms' = now + 1
    BY <1>1, <1>3, <1>8, WheelAssumption DEF Capped
  <2> QED
    BY <2>1, <1>1, <1>2, <1>3, <1>7, <1>8 DEF WheelInv, next
<1>9. CASE now + 1 > U64Max
  <2>1. current_ms' = U64Max
    BY Zenon, <1>1, <1>3, <1>9, WheelAssumption DEF Capped
  <2>2. next.wheel = {}
    BY <1>3, <1>5, <1>6, <1>9, WheelAssumption
  <2>3. Sound(next, U64Max, next_id)
    BY Zenon, <2>2, <1>7 DEF Sound
  <2> QED
    BY <2>1, <2>3, <1>1, <1>2, WheelAssumption DEF WheelInv, next
<1> QED
  BY <1>3, <1>8, <1>9, WheelAssumption

\* Every step keeps the invariant.
LEMMA WheelNextInv == WheelInv /\ [WheelNext]_timer_wheel => WheelInv'
<1> SUFFICES ASSUME WheelInv, [WheelNext]_timer_wheel PROVE WheelInv'
  BY Zenon
<1>1. CASE UNCHANGED timer_wheel
  BY Zenon, <1>1 DEF WheelInv, timer_wheel
<1> QED
  BY Zenon, <1>1, ScheduleInv, WheelPollInv DEF WheelNext

\* A timer fires in the millisecond it was scheduled for, once, and none is
\* lost, whatever level it was put in and however often it cascaded
\* (timer.rs): for every number of slots, every delay and every poll.
THEOREM TimersFireOnTime == WheelSpec => []FiresOnTime
<1>1. WheelInv => FiresOnTime
  <2> SUFFICES ASSUME WheelInv PROVE FiresOnTime
    BY Zenon
  <2> DEFINE state == [wheel |-> entries, out |-> fired]
  <2>1. Sound(state, current_ms, next_id) /\ current_ms \in Nat
    BY Zenon DEF WheelInv
  <2>2. state.wheel = entries /\ state.out = fired
    BY Zenon
  <2> HIDE DEF state
  <2>3. \A f \in fired : f.at = f.expires
    BY Zenon, <2>1, <2>2 DEF Sound
  <2>4. \A f, g \in fired : f.id = g.id => f = g
    BY Zenon, <2>1, <2>2 DEF Sound
  <2>5. {f.id : f \in fired} \cup {e.id : e \in entries} = 0 .. next_id - 1
    BY Zenon, <2>1, <2>2 DEF Sound
  <2>6. \A e \in entries : e.expires >= current_ms
    BY Zenon, <2>1, <2>2 DEF Sound, Placed
  <2>7. \A e \in entries : e.id \notin {f.id : f \in fired}
    BY Zenon, <2>1, <2>2 DEF Sound
  <2> QED
    BY Zenon, <2>3, <2>4, <2>5, <2>6, <2>7 DEF FiresOnTime
<1> QED
  BY <1>1, WheelInitInv, WheelNextInv, PTL DEF WheelSpec

----------------------------------------------------------------------------
(* KqueueReactor.  As long as no source has strayed, the kernel's entries  *)
(* of a source are exactly those of the interest committed last, under one *)
(* token.  Whatever fails, they include those.                             *)

\* What the kernel holds for a source is what was committed for it last.
FiltersAreCommitted ==
    /\ \A f \in filters :
          /\ f = Kevent(f.source, f.filter, f.token)
          /\ f.source \in DOMAIN registered
          /\ f.filter \in registered[f.source]
          /\ f.token \in TokensOf[f.source]
    /\ \A s \in DOMAIN registered : \A d \in registered[s] :
          \E f \in filters : f.source = s /\ f.filter = d

\* A source has one token.
OneToken == \A f, g \in filters : f.source = g.source => f.token = g.token

\* What the variables hold.
KqTyped ==
    /\ DOMAIN registered \subseteq Sources
    /\ registered \in [DOMAIN registered -> Interests]
    /\ ready \in [Sources -> Readiness]
    /\ IsFiniteSet(filters)

\* The invariant of the steps that behave like epoll's.
KqInv == KqTyped /\ FiltersAreCommitted /\ OneToken

\* The inductive invariant.
KqSound == KqTyped /\ Watched /\ (strayed = {} => KqInv)

\* An empty kqueue.
LEMMA KqInitInv == KqInit => KqSound
<1> SUFFICES ASSUME KqInit PROVE KqSound
  BY Zenon
<1>1. KqTyped
  BY FS_EmptySet DEF KqInit, KqTyped, Readiness
<1>2. Watched
  BY DEF KqInit, Watched
<1>3. FiltersAreCommitted /\ OneToken
  BY DEF KqInit, FiltersAreCommitted, OneToken
<1> QED
  BY Zenon, <1>1, <1>2, <1>3 DEF KqSound, KqInv

\* What a refused change list did: it deletes only when all is added.
DoneInPart(s, token, add, delete) ==
    \E a, d :
        /\ a \subseteq add /\ d \in Heads(delete)
        /\ filters' = Changed(s, token, a, d)
        /\ d = {} \/ (a = add /\ d # delete)

\* A change list that is refused.
LEMMA SubmitFails ==
    ASSUME NEW s, NEW token, NEW add, NEW delete, submit_fails(s, token, add, delete)
    PROVE  DoneInPart(s, token, add, delete)
<1>1. PICK part \in Parts(add, delete) :
          part # <<add, delete>> /\ filters' = Changed(s, token, part[1], part[2])
  BY Zenon DEF submit_fails
<1>2. part # <<add, delete>>
  BY Zenon, <1>1
<1>3. CASE part \in {<<a, {}>> : a \in Heads(add)}
  <2>1. PICK a \in Heads(add) : part = <<a, {}>>
    BY Zenon, <1>3
  <2>2. a \subseteq add /\ {} \in Heads(delete)
    BY Zenon DEF Heads
  <2>3. part[1] = a /\ part[2] = {}
    BY Zenon, <2>1
  <2> QED
    BY Zenon, <1>1, <2>2, <2>3 DEF DoneInPart
<1>4. CASE part \in {<<add, d>> : d \in Heads(delete)}
  <2>1. PICK d \in Heads(delete) : part = <<add, d>>
    BY Zenon, <1>4
  <2>2. part[1] = add /\ part[2] = d /\ d # delete
    BY Zenon, <1>2, <2>1
  <2> QED
    BY Zenon, <1>1, <2>1, <2>2 DEF DoneInPart
<1> QED
  BY Zenon, <1>1, <1>3, <1>4 DEF Parts

\* What a change list does to the entries.
LEMMA Entries ==
    ASSUME NEW s, NEW token, NEW add, NEW delete, filters' = Changed(s, token, add, delete)
    PROVE  /\ \A f \in filters : (f.source # s \/ f.filter \notin delete) =>
                  \E g \in filters' : g.source = f.source /\ g.filter = f.filter
           /\ \A d \in add : \E g \in filters' : g.source = s /\ g.filter = d
<1>1. ASSUME NEW d \in add PROVE \E g \in filters' : g.source = s /\ g.filter = d
  <2>1. Kevent(s, d, token) \in filters'
    BY Zenon DEF Changed
  <2> QED
    BY Zenon, <2>1 DEF Kevent
<1>2. ASSUME NEW f \in filters, f.source # s \/ f.filter \notin delete
      PROVE  \E g \in filters' : g.source = f.source /\ g.filter = f.filter
  <2>1. CASE f.source = s /\ f.filter \in add
    BY Zenon, <1>1, <2>1
  <2>2. CASE f.source # s \/ f.filter \notin add
    <3>1. f \notin EntriesOf(s, add \cup delete)
      BY Zenon, <1>2, <2>2 DEF EntriesOf
    <3>2. f \in filters'
      BY Zenon, <3>1 DEF Changed
    <3> QED
      BY Zenon, <3>2
  <2> QED
    BY Zenon, <2>1, <2>2
<1> QED
  BY Zenon, <1>1, <1>2

\* The entries stay finitely many.
LEMMA EntriesFinite ==
    ASSUME IsFiniteSet(filters), NEW s, NEW token, NEW add \in SUBSET {"R", "W"}, NEW delete,
           filters' = Changed(s, token, add, delete)
    PROVE  IsFiniteSet(filters')
<1> DEFINE r == Kevent(s, "R", token)
           w == Kevent(s, "W", token)
<1>1. filters' \subseteq (filters \cup {r}) \cup {w}
  BY Zenon DEF Changed
<1> HIDE DEF r, w
<1>2. IsFiniteSet((filters \cup {r}) \cup {w})
  BY Zenon, FS_AddElement
<1> QED
  BY Zenon, <1>1, <1>2, FS_Subset

\* What a call that changes a source's interest leaves, failed or not.
LEMMA ApplySound ==
    ASSUME KqTyped, Watched, NEW s \in Sources, NEW token, NEW interest \in Interests,
           NEW old, old = {} \/ old = Committed(s),
           UNCHANGED ready,
           \/ apply_interest(s, token, old, interest) /\ Commit(s, interest)
           \/ apply_fails(s, token, old, interest) /\ UNCHANGED registered
    PROVE  KqTyped' /\ Watched'
<1>0. /\ DOMAIN registered \subseteq Sources /\ registered \in [DOMAIN registered -> Interests]
      /\ ready \in [Sources -> Readiness] /\ IsFiniteSet(filters)
  BY Zenon DEF KqTyped
<1>1. CASE apply_interest(s, token, old, interest) /\ Commit(s, interest)
  <2>1. filters' = Changed(s, token, interest, old \ interest)
    BY Zenon, <1>1 DEF apply_interest, submit_changes
  <2>2. /\ registered' = [x \in DOMAIN registered \cup {s} |->
                             IF x = s THEN interest ELSE registered[x]]
        /\ DOMAIN registered' = DOMAIN registered \cup {s}
        /\ registered'[s] = interest
        /\ \A x \in DOMAIN registered : x # s => registered'[x] = registered[x]
    BY <1>1 DEF Commit
  <2>3. KqTyped'
    <3>1. registered' \in [DOMAIN registered' -> Interests] /\ DOMAIN registered' \subseteq Sources
      BY <1>0, <2>2
    <3>2. interest \in SUBSET {"R", "W"}
      BY Zenon DEF Interests
    <3>3. IsFiniteSet(filters')
      BY Zenon, <1>0, <2>1, <3>2, EntriesFinite
    <3> QED
      BY Zenon, <1>0, <3>1, <3>3 DEF KqTyped
  <2>4. \A f \in filters : f.source # s =>
            \E g \in filters' : g.source = f.source /\ g.filter = f.filter
    BY Zenon, <2>1, Entries
  <2>5. ASSUME NEW x \in DOMAIN registered', NEW d \in registered'[x]
        PROVE  \E f \in filters' : f.source = x /\ f.filter = d
    <3>1. CASE x = s
      <4>1. d \in interest
        BY <2>2, <3>1
      <4>2. Kevent(s, d, token) \in filters'
        BY Zenon, <2>1, <4>1 DEF Changed
      <4> QED
        BY Zenon, <3>1, <4>2 DEF Kevent
    <3>2. CASE x # s
      <4>1. PICK f \in filters : f.source = x /\ f.filter = d
        BY <2>2, <3>2 DEF Watched
      <4>2. \E g \in filters' : g.source = f.source /\ g.filter = f.filter
        BY Zenon, <2>4, <3>2, <4>1
      <4> QED
        BY Zenon, <4>1, <4>2
    <3> QED
      BY Zenon, <3>1, <3>2
  <2> QED
    BY Zenon, <2>3, <2>5 DEF Watched
<1>2. CASE apply_fails(s, token, old, interest) /\ UNCHANGED registered
  <2>1. PICK a, d :
            /\ a \subseteq interest /\ d \in Heads(old \ interest)
            /\ filters' = Changed(s, token, a, d)
            /\ d = {} \/ (a = interest /\ d # old \ interest)
    <3>1. DoneInPart(s, token, interest, old \ interest)
      BY Zenon, <1>2, SubmitFails DEF apply_fails
    <3> QED
      BY Zenon, <3>1 DEF DoneInPart
  <2>2. old \in Interests \cup {{}}
    BY Zenon, <1>0 DEF Committed
  <2>3. d = {}
    <3>1. interest \in {{"R"}, {"W"}, {"R", "W"}} /\ old \in {{}, {"R"}, {"W"}, {"R", "W"}}
      BY Zenon, <2>2 DEF Interests
    <3>2. d \in {{}, (old \ interest) \cap {"R"}, old \ interest}
      BY Zenon, <2>1 DEF Heads
    <3> QED
      BY <2>1, <3>1, <3>2
  <2>4. KqTyped'
    <3>1. a \in SUBSET {"R", "W"}
      BY Zenon, <2>1 DEF Interests
    <3>2. IsFiniteSet(filters')
      BY Zenon, <1>0, <2>1, <3>1, EntriesFinite
    <3> QED
      BY Zenon, <1>0, <1>2, <3>2 DEF KqTyped
  <2>5. ASSUME NEW x \in DOMAIN registered, NEW e \in registered[x]
        PROVE  \E f \in filters' : f.source = x /\ f.filter = e
    <3>1. PICK f \in filters : f.source = x /\ f.filter = e
      BY Zenon DEF Watched
    <3>2. \E g \in filters' : g.source = f.source /\ g.filter = f.filter
      BY <2>1, <2>3, Entries
    <3> QED
      BY Zenon, <3>1, <3>2
  <2> QED
    BY Zenon, <1>2, <2>4, <2>5 DEF Watched
<1> QED
  BY Zenon, <1>1, <1>2

\* No call, failed or not, loses an interest that stays committed.
LEMMA KqTypedNext ==
    ASSUME KqTyped, Watched, [KqNext]_kqueue
    PROVE  KqTyped' /\ Watched'
<1>1. ASSUME NEW s \in Sources, NEW interest \in Interests, NEW token \in TokensOf[s],
             kq_register(s, token, interest)
      PROVE  KqTyped' /\ Watched'
  BY Zenon, <1>1, ApplySound DEF kq_register
<1>2. ASSUME NEW s \in Sources, NEW interest \in Interests, NEW token \in TokensOf[s],
             kq_reregister(s, token, interest)
      PROVE  KqTyped' /\ Watched'
  BY Zenon, <1>2, ApplySound DEF kq_reregister
<1>3. ASSUME NEW s \in Sources, kq_deregister(s) PROVE KqTyped' /\ Watched'
  <2>1. \E d \in SUBSET Committed(s) : filters' = Changed(s, 0, {}, d)
    <3>1. CASE submit_changes(s, 0, {}, Committed(s))
      <4>1. filters' = Changed(s, 0, {}, Committed(s)) /\ Committed(s) \in SUBSET Committed(s)
        BY Zenon, <3>1 DEF submit_changes
      <4> QED
        BY Zenon, <4>1
    <3>2. CASE submit_fails(s, 0, {}, Committed(s))
      <4>1. PICK a, d : /\ a \subseteq {} /\ d \in Heads(Committed(s))
                        /\ filters' = Changed(s, 0, a, d)
        <5>1. DoneInPart(s, 0, {}, Committed(s))
          BY Zenon, <3>2, SubmitFails
        <5> QED
          BY Zenon, <5>1 DEF DoneInPart
      <4>2. a = {} /\ d \in SUBSET Committed(s)
        BY <4>1 DEF Heads
      <4> QED
        BY Zenon, <4>1, <4>2
    <3> QED
      BY Zenon, <1>3, <3>1, <3>2 DEF kq_deregister
  <2>2. PICK d \in SUBSET Committed(s) : filters' = Changed(s, 0, {}, d)
    BY Zenon, <2>1
  <2>3. /\ registered' = [x \in DOMAIN registered \ {s} |-> registered[x]]
        /\ DOMAIN registered' = DOMAIN registered \ {s}
        /\ \A x \in DOMAIN registered' : registered'[x] = registered[x]
        /\ ready' = ready
    BY Zenon, <1>3 DEF kq_deregister
  <2>4. KqTyped'
    <3>1. {} \in SUBSET {"R", "W"}
      BY Zenon
    <3>2. IsFiniteSet(filters')
      BY Zenon, <2>2, <3>1, EntriesFinite DEF KqTyped
    <3> QED
      BY Zenon, <2>3, <3>2 DEF KqTyped
  <2>5. \A f \in filters : f.source # s =>
            \E g \in filters' : g.source = f.source /\ g.filter = f.filter
    BY Zenon, <2>2, Entries
  <2>6. ASSUME NEW x \in DOMAIN registered', NEW e \in registered'[x]
        PROVE  \E f \in filters' : f.source = x /\ f.filter = e
    <3>1. x \in DOMAIN registered /\ e \in registered[x] /\ x # s
      BY Zenon, <2>3
    <3>2. PICK f \in filters : f.source = x /\ f.filter = e
      BY Zenon, <3>1 DEF Watched
    <3>3. \E g \in filters' : g.source = f.source /\ g.filter = f.filter
      BY Zenon, <2>5, <3>1, <3>2
    <3> QED
      BY Zenon, <3>2, <3>3
  <2> QED
    BY Zenon, <2>4, <2>6 DEF Watched
<1>4. ASSUME NEW s \in Sources, NEW r \in ConditionsOf[s], become(s, r)
      PROVE  KqTyped' /\ Watched'
  <2>1. r \in Readiness
    BY Zenon, TokensAssumption
  <2>2. KqTyped'
    BY Zenon, <1>4, <2>1 DEF become, KqTyped
  <2>3. Watched'
    BY <1>4 DEF become, Watched
  <2> QED
    BY Zenon, <2>2, <2>3
<1>5. CASE UNCHANGED <<registered, filters, ready>>
  BY <1>5 DEF KqTyped, Watched
<1> QED
  BY Zenon, <1>1, <1>2, <1>3, <1>4, <1>5 DEF KqNext, kqueue, kq_poll, kq_poll_interrupted

\* The entries after a change of interest.
LEMMA Applied ==
    ASSUME FiltersAreCommitted, OneToken, NEW s, NEW token, NEW old, NEW new,
           \A f \in filters : f.source = s => f.filter \in old,
           filters' = Changed(s, token, new, old \ new)
    PROVE  /\ \A f \in filters' : f.source # s => f \in filters
           /\ \A f \in filters' : f.source = s => f = Kevent(s, f.filter, token) /\ f.filter \in new
           /\ \A f \in filters : f.source # s => f \in filters'
           /\ \A d \in new : Kevent(s, d, token) \in filters'
<1>1. \A f \in filters' : f.source # s => f \in filters
  BY DEF Changed, Kevent
<1>2. \A f \in filters' : f.source = s => f = Kevent(s, f.filter, token) /\ f.filter \in new
  BY DEF Changed, Kevent, EntriesOf
<1>3. \A f \in filters : f.source # s => f \in filters'
  BY Zenon DEF Changed, EntriesOf
<1>4. \A d \in new : Kevent(s, d, token) \in filters'
  BY Zenon DEF Changed
<1> QED
  BY Zenon, <1>1, <1>2, <1>3, <1>4

\* Committing an interest together with its entries keeps the invariant.
LEMMA CommitInv ==
    ASSUME KqInv, NEW s \in Sources, NEW token \in TokensOf[s], NEW interest \in Interests,
           NEW old, \A f \in filters : f.source = s => f.filter \in old,
           filters' = Changed(s, token, interest, old \ interest), Commit(s, interest),
           KqTyped'
    PROVE  KqInv'
<1> USE DEF KqInv
<1>1. /\ \A f \in filters' : f.source # s => f \in filters
      /\ \A f \in filters' : f.source = s => f = Kevent(s, f.filter, token)
                                             /\ f.filter \in interest
      /\ \A f \in filters : f.source # s => f \in filters'
      /\ \A d \in interest : Kevent(s, d, token) \in filters'
  BY Zenon, Applied DEF KqInv
<1>2. /\ DOMAIN registered' = DOMAIN registered \cup {s}
      /\ registered'[s] = interest
      /\ \A x \in DOMAIN registered : x # s => registered'[x] = registered[x]
  BY Zenon DEF Commit
<1>4. FiltersAreCommitted'
  <2>1. ASSUME NEW f \in filters'
        PROVE  /\ f = Kevent(f.source, f.filter, f.token)
               /\ f.source \in DOMAIN registered'
               /\ f.filter \in registered'[f.source]
               /\ f.token \in TokensOf[f.source]
    <3>1. CASE f.source = s
      <4>1. f = Kevent(s, f.filter, token) /\ f.filter \in interest
        BY Zenon, <3>1, <1>1
      <4>2. f.token = token
        BY <4>1 DEF Kevent
      <4> QED
        BY Zenon, <3>1, <4>1, <4>2, <1>2
    <3>2. CASE f.source # s
      <4>1. f \in filters
        BY Zenon, <3>2, <1>1
      <4> QED
        BY Zenon, <3>2, <4>1, <1>2 DEF FiltersAreCommitted
    <3> QED
      BY Zenon, <3>1, <3>2
  <2>2. ASSUME NEW x \in DOMAIN registered', NEW d \in registered'[x]
        PROVE  \E f \in filters' : f.source = x /\ f.filter = d
    <3>1. CASE x = s
      <4>1. Kevent(s, d, token) \in filters'
        BY Zenon, <3>1, <1>1, <1>2
      <4> QED
        BY Zenon, <4>1, <3>1 DEF Kevent
    <3>2. CASE x # s
      <4>1. x \in DOMAIN registered /\ d \in registered[x]
        BY Zenon, <3>2, <1>2
      <4>2. PICK f \in filters : f.source = x /\ f.filter = d
        BY Zenon, <4>1 DEF FiltersAreCommitted
      <4> QED
        BY Zenon, <4>2, <3>2, <1>1
    <3> QED
      BY Zenon, <3>1, <3>2
  <2> QED
    BY Zenon, <2>1, <2>2 DEF FiltersAreCommitted
<1>5. OneToken'
  <2> SUFFICES ASSUME NEW f \in filters', NEW g \in filters', f.source = g.source
               PROVE  f.token = g.token
    BY Zenon DEF OneToken
  <2>1. CASE f.source = s
    <3>1. f = Kevent(s, f.filter, token) /\ g = Kevent(s, g.filter, token)
      BY Zenon, <2>1, <1>1
    <3> QED
      BY <3>1 DEF Kevent
  <2>2. CASE f.source # s
    BY Zenon, <2>2, <1>1 DEF OneToken
  <2> QED
    BY Zenon, <2>1, <2>2
<1> QED
  BY Zenon, <1>4, <1>5

\* What a call did that left no source astray: all it was asked for, or nothing.
LEMMA NotStrayed ==
    ASSUME KqTyped, strayed' = {}, NEW s \in Sources, NEW token, NEW interest
    PROVE  /\ kq_register(s, token, interest) =>
                 \/ UNCHANGED <<registered, filters>>
                 \/ /\ s \notin DOMAIN registered /\ Commit(s, interest)
                    /\ filters' = Changed(s, token, interest, {} \ interest)
           /\ kq_reregister(s, token, interest) =>
                 \/ UNCHANGED <<registered, filters>>
                 \/ /\ s \in DOMAIN registered /\ Commit(s, interest)
                    /\ filters' = Changed(s, token, interest, registered[s] \ interest)
           /\ kq_deregister(s) =>
                 \/ UNCHANGED <<registered, filters>>
                 \/ /\ s \in DOMAIN registered
                    /\ filters' = Changed(s, 0, {}, registered[s])
<1>1. \A odd : Note(s, odd) => ~odd
  BY Zenon DEF Note
<1>2. ASSUME kq_register(s, token, interest)
      PROVE  \/ UNCHANGED <<registered, filters>>
             \/ /\ s \notin DOMAIN registered /\ Commit(s, interest)
                /\ filters' = Changed(s, token, interest, {} \ interest)
  BY Zenon, <1>1, <1>2 DEF kq_register, apply_interest, submit_changes
<1>3. ASSUME kq_reregister(s, token, interest)
      PROVE  \/ UNCHANGED <<registered, filters>>
             \/ /\ s \in DOMAIN registered /\ Commit(s, interest)
                /\ filters' = Changed(s, token, interest, registered[s] \ interest)
  BY Zenon, <1>1, <1>3 DEF kq_reregister, apply_interest, submit_changes, Committed
<1>4. ASSUME kq_deregister(s)
      PROVE  \/ UNCHANGED <<registered, filters>>
             \/ s \in DOMAIN registered /\ filters' = Changed(s, 0, {}, registered[s])
  <2>2. filters' = Changed(s, 0, {}, Committed(s))
    BY Zenon, <1>1, <1>4 DEF kq_deregister, submit_changes
  <2>3. CASE s \notin DOMAIN registered
    <3>1. filters' = filters
      BY Zenon, <2>2, <2>3 DEF Changed, Committed, EntriesOf
    <3>2. registered' = [x \in DOMAIN registered \ {s} |-> registered[x]]
          /\ DOMAIN registered \ {s} = DOMAIN registered
      BY Zenon, <1>4, <2>3 DEF kq_deregister
    <3>3. registered = [x \in DOMAIN registered |-> registered[x]]
      BY DEF KqTyped
    <3> QED
      BY Zenon, <3>1, <3>2, <3>3
  <2> QED
    BY Zenon, <2>2, <2>3 DEF Committed
<1> QED
  BY Zenon, <1>2, <1>3, <1>4

\* Such a step keeps the kernel's entries those of the committed interest.
LEMMA KqNextInv ==
    ASSUME KqInv, KqTyped', [KqNext]_kqueue, strayed' = {}
    PROVE  KqInv'
<1>0. KqTyped
  BY Zenon DEF KqInv
<1>5. CASE UNCHANGED <<registered, filters>>
  <2>1. FiltersAreCommitted' /\ OneToken'
    BY <1>5 DEF KqInv, FiltersAreCommitted, OneToken
  <2> QED
    BY Zenon, <2>1 DEF KqInv
<1>1. ASSUME NEW s \in Sources, NEW interest \in Interests, NEW token \in TokensOf[s],
             kq_register(s, token, interest), s \notin DOMAIN registered,
             Commit(s, interest), filters' = Changed(s, token, interest, {} \ interest)
      PROVE  KqInv'
  <2>1. \A f \in filters : f.source = s => f.filter \in {}
    BY <1>1 DEF KqInv, FiltersAreCommitted
  <2> QED
    BY Zenon, <1>1, <2>1, CommitInv
<1>2. ASSUME NEW s \in Sources, NEW interest \in Interests, NEW token \in TokensOf[s],
             kq_reregister(s, token, interest), s \in DOMAIN registered,
             Commit(s, interest),
             filters' = Changed(s, token, interest, registered[s] \ interest)
      PROVE  KqInv'
  <2>1. \A f \in filters : f.source = s => f.filter \in registered[s]
    BY Zenon, <1>2 DEF KqInv, FiltersAreCommitted
  <2> QED
    BY Zenon, <1>2, <2>1, CommitInv
<1>3. ASSUME NEW s \in Sources, kq_deregister(s), s \in DOMAIN registered,
             filters' = Changed(s, 0, {}, registered[s])
      PROVE  KqInv'
  <2>1. /\ \A f \in filters' : f \in filters /\ f.source # s
        /\ \A f \in filters : f.source # s => f \in filters'
    BY Zenon, <1>3 DEF Changed, EntriesOf, KqInv, FiltersAreCommitted
  <2>2. /\ DOMAIN registered' = DOMAIN registered \ {s}
        /\ \A x \in DOMAIN registered' : registered'[x] = registered[x]
    BY Zenon, <1>3 DEF kq_deregister
  <2>4. FiltersAreCommitted'
    <3>1. ASSUME NEW f \in filters'
          PROVE  /\ f = Kevent(f.source, f.filter, f.token)
                 /\ f.source \in DOMAIN registered'
                 /\ f.filter \in registered'[f.source]
                 /\ f.token \in TokensOf[f.source]
      BY Zenon, <2>1, <2>2 DEF FiltersAreCommitted, KqInv
    <3>2. ASSUME NEW x \in DOMAIN registered', NEW d \in registered'[x]
          PROVE  \E f \in filters' : f.source = x /\ f.filter = d
      <4>1. PICK f \in filters : f.source = x /\ f.filter = d
        BY <2>2 DEF FiltersAreCommitted, KqInv
      <4> QED
        BY Zenon, <4>1, <2>1, <2>2
    <3> QED
      BY Zenon, <3>1, <3>2 DEF FiltersAreCommitted
  <2>5. OneToken'
    BY Zenon, <2>1 DEF OneToken, KqInv
  <2> QED
    BY Zenon, <2>4, <2>5 DEF KqInv
<1>4. CASE \/ \E s \in Sources : \E r \in ConditionsOf[s] : become(s, r)
           \/ kq_poll \/ kq_poll_interrupted \/ UNCHANGED kqueue
  BY Zenon, <1>4, <1>5 DEF become, kq_poll, kq_poll_interrupted, kqueue
<1>6. ASSUME NEW s \in Sources, NEW interest \in Interests, NEW token \in TokensOf[s],
             kq_register(s, token, interest) \/ kq_reregister(s, token, interest)
      PROVE  KqInv'
  BY Zenon, <1>0, <1>1, <1>2, <1>5, <1>6, NotStrayed
<1>7. ASSUME NEW s \in Sources, kq_deregister(s) PROVE KqInv'
  BY Zenon, <1>0, <1>3, <1>5, <1>7, NotStrayed
<1> QED
  BY Zenon, <1>4, <1>6, <1>7 DEF KqNext

\* A source that strayed stays so.
LEMMA StaysAstray ==
    ASSUME [KqNext]_kqueue, strayed' = {}
    PROVE  strayed = {}
<1>1. \A s, odd : Note(s, odd) => strayed \subseteq strayed'
  BY Zenon DEF Note
<1>2. strayed \subseteq strayed'
  BY Zenon, <1>1 DEF KqNext, kqueue, kq_register, kq_reregister, kq_deregister, become,
     kq_poll, kq_poll_interrupted
<1> QED
  BY Zenon, <1>2

\* The token of a registered source, as the mapping reads it off the filters.
LEMMA TokenOfIs ==
    ASSUME KqInv, NEW f \in filters
    PROVE  TokenOf(f.source) = f.token
<1> DEFINE g == CHOOSE g \in filters : g.source = f.source
<1>1. g \in filters /\ g.source = f.source
  BY Zenon
<1> QED
  BY Zenon, <1>1 DEF TokenOf, KqInv, OneToken

\* A registered source has an entry.
LEMMA HasEntry ==
    ASSUME KqInv, NEW s \in DOMAIN registered
    PROVE  \E f \in filters : f.source = s
<1>1. registered[s] # {}
  BY Zenon DEF KqInv, KqTyped, Interests
<1> QED
  BY <1>1 DEF KqInv, FiltersAreCommitted

\* What a poll reports for the kernel's entries is what epoll reports.
LEMMA SameEvents ==
    ASSUME KqInv
    PROVE  /\ Coalesced(Triggered)
               = {Epoll!EventOf(s) : s \in {x \in Epoll!Registered : Epoll!EventOf(x).readiness # {}}}
           /\ \A s \in Epoll!Registered : Epoll!EventOf(s).readiness # {} =>
                 \E f \in Triggered : f.source = s
           /\ \A f \in Triggered :
                 /\ f.source \in DOMAIN registered
                 /\ f.token = TokenOf(f.source)
                 /\ \A g \in Triggered : g.token = f.token => g.source = f.source
                 /\ kevent_to_interest(f) \subseteq Epoll!EventOf(f.source).readiness
<1> DEFINE T(s) == {f \in Triggered : f.source = s}
           Seen(s) == UNION {kevent_to_interest(f) : f \in T(s)}
           Ev(s) == [token |-> TokenOf(s), readiness |-> Seen(s)]
<1>1. ASSUME NEW s \in DOMAIN registered
      PROVE  Epoll!EventOf(s) = Ev(s) /\ (Seen(s) # {} <=> T(s) # {})
  <2>1. Epoll!EventOf(s) =
           [token |-> TokenOf(s),
            readiness |-> (ready[s] \cap registered[s])
                            \cup (IF "HUP" \in ready[s] THEN {"R"} ELSE {})]
    BY Zenon DEF Epoll!EventOf, Epoll!epoll_mask_to_interest
  <2>2. ready[s] \in Readiness /\ registered[s] \in Interests
    BY Zenon DEF KqInv, KqTyped
  <2>3. \A f \in T(s) : f.filter \in ready[s] /\ f.filter \in registered[s]
    BY Zenon DEF Triggered, KqInv, FiltersAreCommitted
  <2>4. \A d \in ready[s] \cap registered[s] : \E f \in T(s) : f.filter = d
    BY DEF Triggered, KqInv, FiltersAreCommitted
  <2>5. \A f \in T(s) : kevent_to_interest(f) =
              {f.filter} \cup (IF "HUP" \in ready[s] THEN {"R"} ELSE {})
    BY Zenon DEF kevent_to_interest
  <2>6. "HUP" \in ready[s] => T(s) # {}
    <3>1. "HUP" \in ready[s] => ready[s] \cap registered[s] # {}
      BY <2>2 DEF Readiness, Interests
    <3> QED
      BY Zenon, <3>1, <2>4
  <2>7. Seen(s) = (ready[s] \cap registered[s])
                    \cup (IF "HUP" \in ready[s] THEN {"R"} ELSE {})
    <3> HIDE DEF T
    <3>1. ASSUME NEW d \in Seen(s)
          PROVE  d \in (ready[s] \cap registered[s])
                    \cup (IF "HUP" \in ready[s] THEN {"R"} ELSE {})
      BY <2>3, <2>5
    <3>2. ASSUME NEW d \in ready[s] \cap registered[s] PROVE d \in Seen(s)
      BY <2>4, <2>5
    <3>3. "HUP" \in ready[s] => "R" \in Seen(s)
      BY Zenon, <2>5, <2>6
    <3> QED
      BY Zenon, <3>1, <3>2, <3>3
  <2>8. Seen(s) # {} <=> T(s) # {}
    <3> HIDE DEF T
    <3> QED
      BY <2>5
  <2> QED
    BY Zenon, <2>1, <2>7, <2>8
<1>2. ASSUME NEW f \in Triggered
      PROVE  /\ f.source \in DOMAIN registered
             /\ f.token = TokenOf(f.source)
             /\ {g \in Triggered : g.token = f.token} = T(f.source)
             /\ \A g \in Triggered : g.token = f.token => g.source = f.source
             /\ kevent_to_interest(f) \subseteq Epoll!EventOf(f.source).readiness
  <2>1. f \in filters
    BY Zenon DEF Triggered
  <2>2. f.source \in DOMAIN registered
    BY Zenon, <2>1 DEF KqInv, FiltersAreCommitted
  <2>3. f.token = TokenOf(f.source)
    BY Zenon, <2>1, TokenOfIs
  <2>4. ASSUME NEW g \in Triggered PROVE g.token = f.token <=> g.source = f.source
    <3>1. g \in filters
      BY Zenon DEF Triggered
    <3>2. f.token \in TokensOf[f.source] /\ g.token \in TokensOf[g.source]
          /\ f.source \in Sources /\ g.source \in Sources
      BY Zenon, <2>1, <3>1 DEF KqInv, FiltersAreCommitted, KqTyped
    <3> QED
      BY Zenon, <2>1, <3>1, <3>2, TokensAssumption DEF KqInv, OneToken
  <2>5. Epoll!EventOf(f.source).readiness = Seen(f.source)
    BY <1>1, <2>2
  <2>6. kevent_to_interest(f) \subseteq Seen(f.source)
    BY Zenon
  <2> QED
    BY Zenon, <2>2, <2>3, <2>4, <2>5, <2>6
<1> DEFINE C(t) == [token |-> t, readiness |-> UNION {kevent_to_interest(f) : f \in
                                          {g \in Triggered : g.token = t}}]
<1>3. ASSUME NEW f \in Triggered PROVE C(f.token) = Ev(f.source)
  BY Zenon, <1>2
<1>4. Coalesced(Triggered) = {C(t) : t \in {f.token : f \in Triggered}}
  BY Zenon DEF Coalesced
<1>5. Epoll!Registered = DOMAIN registered
  BY Zenon DEF Epoll!Registered
<1>6. \A s \in DOMAIN registered : Ev(s).readiness = Seen(s)
  BY Zenon
<1>7. ASSUME NEW s PROVE T(s) # {} => \E f \in Triggered : f.source = s
  BY Zenon
<1>8. ASSUME NEW f \in Triggered PROVE T(f.source) # {}
  BY Zenon
<1> HIDE DEF C, Ev, Seen, T
<1>9. ASSUME NEW e \in Coalesced(Triggered)
      PROVE  e \in {Epoll!EventOf(s) :
                      s \in {x \in Epoll!Registered : Epoll!EventOf(x).readiness # {}}}
  <2>1. PICK f \in Triggered : e = C(f.token)
    BY Zenon, <1>4
  <2>2. e = Epoll!EventOf(f.source) /\ f.source \in DOMAIN registered
    BY Zenon, <2>1, <1>1, <1>2, <1>3
  <2>3. e.readiness # {}
    BY Zenon, <2>1, <2>2, <1>1, <1>3, <1>6, <1>8
  <2> QED
    BY Zenon, <2>2, <2>3, <1>5
<1>10. ASSUME NEW s \in DOMAIN registered, Epoll!EventOf(s).readiness # {}
       PROVE  Epoll!EventOf(s) \in Coalesced(Triggered)
  <2>1. Epoll!EventOf(s) = Ev(s) /\ Seen(s) # {}
    BY Zenon, <1>10, <1>1, <1>6
  <2>2. PICK f \in Triggered : f.source = s
    BY Zenon, <2>1, <1>1, <1>7
  <2> QED
    BY Zenon, <2>1, <2>2, <1>3, <1>4
<1>11. ASSUME NEW s \in DOMAIN registered, Epoll!EventOf(s).readiness # {}
       PROVE  \E f \in Triggered : f.source = s
  BY Zenon, <1>11, <1>1, <1>6, <1>7
<1>12. Coalesced(Triggered)
         = {Epoll!EventOf(s) : s \in {x \in Epoll!Registered : Epoll!EventOf(x).readiness # {}}}
  BY Zenon, <1>5, <1>9, <1>10
<1> QED
  BY Zenon, <1>2, <1>5, <1>11, <1>12

\* An empty kqueue is an empty epoll table.
LEMMA KqInitRefines == KqInit => Epoll!Init
  BY DEF KqInit, Epoll!Init

\* The same after a step.
LEMMA TokenOfIsNext ==
    ASSUME KqInv', NEW f \in filters'
    PROVE  TokenOf(f.source)' = f.token
<1> DEFINE g == CHOOSE g \in filters' : g.source = f.source
<1>1. g \in filters' /\ g.source = f.source
  BY Zenon
<1> QED
  BY Zenon, <1>1 DEF TokenOf, KqInv, OneToken

\* A change of interest is epoll_ctl's change of the table.
LEMMA CommitRefines ==
    ASSUME KqInv, KqInv', NEW s \in Sources, NEW token \in TokensOf[s],
           NEW interest \in Interests,
           NEW old, \A f \in filters : f.source = s => f.filter \in old,
           filters' = Changed(s, token, interest, old \ interest), Commit(s, interest),
           UNCHANGED <<ready, events, returned>>
    PROVE  Epoll!ctl(s, token, interest)
<1>1. /\ \A f \in filters' : f.source # s => f \in filters
      /\ \A f \in filters' : f.source = s => f = Kevent(s, f.filter, token)
                                             /\ f.filter \in interest
      /\ \A f \in filters : f.source # s => f \in filters'
      /\ \A d \in interest : Kevent(s, d, token) \in filters'
  <2>1. FiltersAreCommitted /\ OneToken
    BY Zenon DEF KqInv
  <2> QED
    BY Zenon, <2>1, Applied
<1>2. /\ DOMAIN registered' = DOMAIN registered \cup {s}
      /\ registered'[s] = interest
      /\ \A x \in DOMAIN registered : x # s => registered'[x] = registered[x]
  BY Zenon DEF Commit
<1>3. TokenOf(s)' = token
  <2>1. PICK d \in interest : TRUE
    BY Zenon DEF Interests
  <2>2. Kevent(s, d, token) \in filters'
    BY Zenon, <1>1
  <2>3. TokenOf(Kevent(s, d, token).source)' = Kevent(s, d, token).token
    BY Zenon, <2>2, TokenOfIsNext
  <2> QED
    BY Zenon, <2>3 DEF Kevent
<1>4. ASSUME NEW x \in DOMAIN registered, x # s PROVE TokenOf(x)' = TokenOf(x)
  <2>1. PICK f \in filters : f.source = x
    BY Zenon, HasEntry
  <2>2. f \in filters'
    BY Zenon, <1>4, <2>1, <1>1
  <2> QED
    BY Zenon, <2>1, <2>2, TokenOfIs, TokenOfIsNext
<1>5. [x \in DOMAIN registered |->
          [token |-> TokenOf(x), interest |-> registered[x]]]'
        = [x \in DOMAIN registered \cup {s} |->
             IF x = s THEN [token |-> token, interest |-> interest]
             ELSE [y \in DOMAIN registered |->
                     [token |-> TokenOf(y), interest |-> registered[y]]][x]]
  <2>1. ASSUME NEW x \in DOMAIN registered \cup {s}
        PROVE  [token |-> TokenOf(x)', interest |-> registered'[x]]
                 = IF x = s THEN [token |-> token, interest |-> interest]
                   ELSE [token |-> TokenOf(x), interest |-> registered[x]]
    BY Zenon, <1>2, <1>3, <1>4
  <2> QED
    BY Zenon, <1>2, <2>1
<1> QED
  BY Zenon, <1>5 DEF Epoll!ctl, Epoll!Registered, Epoll!Entry

\* A poll is epoll's poll, if the buffer had room for every filter that fired.
LEMMA PollRefines ==
    ASSUME KqInv, kq_poll,
           UNCHANGED [x \in DOMAIN registered |->
                         [token |-> TokenOf(x), interest |-> registered[x]]]
    PROVE  Epoll!poll \/ CutShort
<1> DEFINE Ready == {x \in Epoll!Registered : Epoll!EventOf(x).readiness # {}}
<1>0. \A S : Epoll!Cardinality(S) = Cardinality(S)
  BY Zenon DEF Cardinality, Epoll!Cardinality
<1>1. PICK raw \in Fetched(Triggered) : events' = Coalesced(raw)
  BY Zenon DEF kq_poll
<1>2. IsFiniteSet(Triggered) /\ Cardinality(Triggered) \in Nat /\ MaxEvents \in Nat \ {0}
  <2>1. Triggered \in SUBSET filters /\ IsFiniteSet(filters)
    BY Zenon DEF Triggered, KqInv, KqTyped
  <2> QED
    BY Zenon, <2>1, FS_Subset, FS_CardinalityType, TokensAssumption
<1>3. CASE Cardinality(Triggered) <= MaxEvents
  <2>1. raw = Triggered
    BY Zenon, <1>1, <1>3 DEF Fetched
  <2>2. events' = {Epoll!EventOf(s) : s \in Ready}
    BY Zenon, <1>1, <2>1, SameEvents
  <2>3. Cardinality(Ready) \in Nat /\ Cardinality(Ready) <= Cardinality(Triggered)
    <3> DEFINE Firing == {f \in Triggered : f.source \in Ready}
               from == [f \in Firing |-> f.source]
    <3>1. IsFiniteSet(Firing) /\ Cardinality(Firing) <= Cardinality(Triggered)
      <4>1. Firing \in SUBSET Triggered
        BY Zenon
      <4> QED
        BY Zenon, <1>2, <4>1, FS_Subset
    <3>2. from \in Surjection(Firing, Ready)
      <4>1. \A s \in Ready : \E f \in Firing : f.source = s
        BY Zenon, SameEvents
      <4> HIDE DEF Ready
      <4>2. from \in [Firing -> Ready]
        BY Zenon
      <4>3. \A s \in Ready : \E f \in Firing : from[f] = s
        BY Zenon, <4>1
      <4> QED
        BY Zenon, <4>2, <4>3 DEF Surjection
    <3> HIDE DEF Ready, Firing, from
    <3>3. IsFiniteSet(Ready) /\ Cardinality(Ready) <= Cardinality(Firing)
      BY Zenon, <3>1, <3>2, FS_Surjection
    <3>4. Cardinality(Ready) \in Nat /\ Cardinality(Firing) \in Nat
      BY Zenon, <3>1, <3>3, FS_CardinalityType
    <3> QED
      BY <1>2, <3>1, <3>3, <3>4
  <2> HIDE DEF Ready
  <2>4. Cardinality(Ready) <= MaxEvents
    BY <1>2, <1>3, <2>3
  <2>5. Ready \in Epoll!Fetched(Ready)
    BY Zenon, <1>0, <2>4 DEF Epoll!Fetched
  <2>6. returned' = Epoll!Cardinality(events') /\ UNCHANGED ready
    BY Zenon, <1>0 DEF kq_poll
  <2> USE DEF Ready
  <2>7. Epoll!poll
    BY Zenon, <2>2, <2>5, <2>6 DEF Epoll!poll
  <2> QED
    BY Zenon, <2>7
<1>4. CASE ~(Cardinality(Triggered) <= MaxEvents)
  <2>1. raw \in SUBSET Triggered /\ Cardinality(raw) = MaxEvents
    BY Zenon, <1>1, <1>4 DEF Fetched
  <2>2. raw # {}
    BY <1>2, <2>1, FS_EmptySet
  <2>3. events' # {}
    <3>1. PICK f \in raw : TRUE
      BY Zenon, <2>2
    <3>2. f.token \in {g.token : g \in raw}
      BY Zenon, <3>1
    <3> DEFINE One(t) == [token |-> t,
                          readiness |-> UNION {kevent_to_interest(h) : h \in
                                                 {g \in raw : g.token = t}}]
    <3>3. Coalesced(raw) = {One(t) : t \in {g.token : g \in raw}}
      BY Zenon DEF Coalesced
    <3> HIDE DEF One
    <3> QED
      BY Zenon, <1>1, <3>2, <3>3
  <2>4. ASSUME NEW e \in events'
        PROVE  \E s \in DOMAIN registered :
                   /\ e.token = TokenOf(s)
                   /\ e.readiness # {} /\ e.readiness \subseteq Epoll!EventOf(s).readiness
    <3>1. PICK f \in raw : e = [token |-> f.token,
                                readiness |-> UNION {kevent_to_interest(h) : h \in
                                                       {g \in raw : g.token = f.token}}]
      BY <1>1 DEF Coalesced
    <3>2. /\ e.token = f.token
          /\ e.readiness = UNION {kevent_to_interest(h) : h \in
                                     {g \in raw : g.token = f.token}}
      BY Zenon, <3>1
    <3>3. f \in Triggered /\ f.filter \in kevent_to_interest(f)
      BY Zenon, <2>1 DEF kevent_to_interest
    <3>4. f.source \in DOMAIN registered /\ f.token = TokenOf(f.source)
      BY Zenon, <3>3, SameEvents
    <3>5. f.filter \in e.readiness
      BY Zenon, <3>2, <3>3
    <3>6. ASSUME NEW d \in e.readiness PROVE d \in Epoll!EventOf(f.source).readiness
      <4>1. PICK g \in raw : g.token = f.token /\ d \in kevent_to_interest(g)
        BY Zenon, <3>2
      <4>2. g \in Triggered
        BY Zenon, <2>1
      <4>3. g.source = f.source /\ kevent_to_interest(g) \subseteq Epoll!EventOf(g.source).readiness
        BY Zenon, <3>3, <4>1, <4>2, SameEvents
      <4>4. d \in Epoll!EventOf(g.source).readiness
        BY Zenon, <4>1, <4>3
      <4> QED
        BY Zenon, <4>3, <4>4
    <3> QED
      BY Zenon, <3>2, <3>4, <3>5, <3>6
  <2>5. Cardinality(Triggered) > MaxEvents
    BY <1>2, <1>4
  <2> QED
    BY Zenon, <2>3, <2>4, <2>5 DEF CutShort, kq_poll
<1> QED
  BY Zenon, <1>3, <1>4

\* A step that leaves no source astray is a step of the epoll reactor.
LEMMA KqStepRefines ==
    ASSUME KqInv, KqInv', [KqNext]_kqueue, strayed' = {}
    PROVE  Epoll!Next \/ CutShort \/ UNCHANGED Epoll!vars
<1> DEFINE Tokens == UNION {TokensOf[s] : s \in Sources}
<1>0. Epoll!Registered = DOMAIN registered /\ Interests = Epoll!Interests
      /\ Readiness = Epoll!Readiness /\ KqTyped
  BY Zenon DEF Epoll!Registered, Interests, Epoll!Interests, Readiness, Epoll!Readiness, KqInv
<1>1. ASSUME NEW s \in Sources, NEW interest \in Interests, NEW token \in TokensOf[s],
             kq_register(s, token, interest), s \notin DOMAIN registered,
             Commit(s, interest), filters' = Changed(s, token, interest, {} \ interest)
      PROVE  Epoll!Next
  <2>1. \A f \in filters : f.source = s => f.filter \in {}
    BY <1>1 DEF KqInv, FiltersAreCommitted
  <2>2. UNCHANGED <<ready, events, returned>>
    BY Zenon, <1>1 DEF kq_register
  <2>3. Epoll!ctl(s, token, interest)
    BY Zenon, <1>1, <2>1, <2>2, CommitRefines
  <2>4. Epoll!register(s, token, interest)
    BY Zenon, <1>0, <1>1, <2>3 DEF Epoll!register
  <2> QED
    BY Zenon, <1>0, <2>4 DEF Epoll!Next
<1>2. ASSUME NEW s \in Sources, NEW interest \in Interests, NEW token \in TokensOf[s],
             kq_reregister(s, token, interest), s \in DOMAIN registered,
             Commit(s, interest),
             filters' = Changed(s, token, interest, registered[s] \ interest)
      PROVE  Epoll!Next
  <2>1. \A f \in filters : f.source = s => f.filter \in registered[s]
    BY Zenon, <1>2 DEF KqInv, FiltersAreCommitted
  <2>2. UNCHANGED <<ready, events, returned>>
    BY Zenon, <1>2 DEF kq_reregister
  <2>3. Epoll!ctl(s, token, interest)
    BY Zenon, <1>2, <2>1, <2>2, CommitRefines
  <2>4. Epoll!reregister(s, token, interest)
    BY Zenon, <1>0, <1>2, <2>3 DEF Epoll!reregister
  <2> QED
    BY Zenon, <1>0, <2>4 DEF Epoll!Next
<1>3. ASSUME NEW s \in Sources, kq_deregister(s), s \in DOMAIN registered,
             filters' = Changed(s, 0, {}, registered[s])
      PROVE  Epoll!Next
  <2>1. DOMAIN registered' = DOMAIN registered \ {s}
        /\ \A x \in DOMAIN registered' : registered'[x] = registered[x]
    BY Zenon, <1>3 DEF kq_deregister
  <2>2. ASSUME NEW x \in DOMAIN registered \ {s} PROVE TokenOf(x)' = TokenOf(x)
    <3>1. PICK f \in filters : f.source = x
      BY Zenon, HasEntry
    <3>2. f \in filters'
      BY Zenon, <1>3, <2>2, <3>1 DEF Changed, EntriesOf
    <3> QED
      BY Zenon, <3>1, <3>2, TokenOfIs, TokenOfIsNext
  <2>3. [x \in DOMAIN registered |->
            [token |-> TokenOf(x), interest |-> registered[x]]]'
          = [x \in DOMAIN registered \ {s} |->
               [y \in DOMAIN registered |->
                  [token |-> TokenOf(y), interest |-> registered[y]]][x]]
    BY Zenon, <2>1, <2>2
  <2>4. Epoll!deregister(s)
    BY Zenon, <1>0, <1>3, <2>3 DEF kq_deregister, Epoll!deregister, Epoll!Registered
  <2> QED
    BY Zenon, <2>4 DEF Epoll!Next
<1>4. ASSUME UNCHANGED <<registered, filters>>
      PROVE  UNCHANGED [x \in DOMAIN registered |->
                           [token |-> TokenOf(x), interest |-> registered[x]]]
  BY Zenon, <1>4 DEF TokenOf
<1>5. ASSUME NEW s \in Sources, NEW r \in ConditionsOf[s], become(s, r) PROVE Epoll!Next
  <2>1. Epoll!become(s, r)
    BY Zenon, <1>4, <1>5 DEF become, Epoll!become
  <2>2. r \in Readiness
    BY Zenon, TokensAssumption
  <2> QED
    BY Zenon, <1>0, <2>1, <2>2 DEF Epoll!Next
<1>6. CASE kq_poll
  BY Zenon, <1>4, <1>6, PollRefines DEF kq_poll, Epoll!Next
<1>7. CASE kq_poll_interrupted
  <2>1. Epoll!poll_interrupted
    BY Zenon, <1>4, <1>7 DEF kq_poll_interrupted, Epoll!poll_interrupted
  <2> QED
    BY Zenon, <2>1 DEF Epoll!Next
<1>8. ASSUME UNCHANGED <<registered, filters, ready, events, returned>>
      PROVE  UNCHANGED Epoll!vars
  BY Zenon, <1>4, <1>8 DEF Epoll!vars
<1>9. ASSUME NEW s \in Sources, NEW interest \in Interests, NEW token \in TokensOf[s],
             kq_register(s, token, interest)
      PROVE  Epoll!Next \/ UNCHANGED Epoll!vars
  <2>1. CASE UNCHANGED <<registered, filters>>
    <3>1. UNCHANGED <<ready, events, returned>>
      BY Zenon, <1>9 DEF kq_register
    <3> QED
      BY Zenon, <1>8, <2>1, <3>1
  <2>2. CASE ~UNCHANGED <<registered, filters>>
    BY Zenon, <1>0, <1>1, <1>9, <2>2, NotStrayed
  <2> QED
    BY Zenon, <2>1, <2>2
<1>10. ASSUME NEW s \in Sources, NEW interest \in Interests, NEW token \in TokensOf[s],
              kq_reregister(s, token, interest)
       PROVE  Epoll!Next \/ UNCHANGED Epoll!vars
  <2>1. CASE UNCHANGED <<registered, filters>>
    <3>1. UNCHANGED <<ready, events, returned>>
      BY Zenon, <1>10 DEF kq_reregister
    <3> QED
      BY Zenon, <1>8, <2>1, <3>1
  <2>2. CASE ~UNCHANGED <<registered, filters>>
    BY Zenon, <1>0, <1>2, <1>10, <2>2, NotStrayed
  <2> QED
    BY Zenon, <2>1, <2>2
<1>11. ASSUME NEW s \in Sources, kq_deregister(s) PROVE Epoll!Next \/ UNCHANGED Epoll!vars
  <2>1. CASE UNCHANGED <<registered, filters>>
    <3>1. UNCHANGED <<ready, events, returned>>
      BY Zenon, <1>11 DEF kq_deregister
    <3> QED
      BY Zenon, <1>8, <2>1, <3>1
  <2>2. CASE ~UNCHANGED <<registered, filters>>
    BY Zenon, <1>0, <1>3, <1>11, <2>2, NotStrayed
  <2> QED
    BY Zenon, <2>1, <2>2
<1>12. CASE UNCHANGED kqueue
  BY Zenon, <1>8, <1>12 DEF kqueue
<1> QED
  BY Zenon, <1>5, <1>6, <1>7, <1>9, <1>10, <1>11, <1>12 DEF KqNext

\* A reactor on kqueue behaves like one on epoll (bsd/reactor.rs,
\* linux/reactor.rs) until a change list fails half-way or a caller makes a
\* call epoll refuses: register, reregister and deregister change what is
\* watched alike, and a poll returns the same events, or some of them when
\* more filters fire than its buffer holds.  After any failures the kernel
\* still watches what is committed.  For every set of sources and tokens,
\* and every size of the buffer.
THEOREM KqueueIsEpoll == KqSpec => BehavesLikeEpoll
<1>1. KqSound /\ [KqNext]_kqueue => KqSound'
  <2> SUFFICES ASSUME KqSound, [KqNext]_kqueue PROVE KqSound'
    BY Zenon
  <2>1. KqTyped' /\ Watched'
    BY Zenon, KqTypedNext DEF KqSound
  <2>2. strayed' = {} => KqInv'
    BY Zenon, <2>1, KqNextInv, StaysAstray DEF KqSound
  <2> QED
    BY Zenon, <2>1, <2>2 DEF KqSound
<1>2. KqSound /\ KqSound' /\ [KqNext]_kqueue
        => [strayed' = {} => Epoll!Next \/ CutShort]_(Epoll!vars)
  BY Zenon, KqStepRefines, StaysAstray DEF KqSound
<1>3. KqSound => Watched
  BY Zenon DEF KqSound
<1> QED
  BY <1>1, <1>2, <1>3, KqInitInv, KqInitRefines, PTL DEF KqSpec, BehavesLikeEpoll

----------------------------------------------------------------------------
(* IocpReactor.  The pending marks of a socket are its probes in flight    *)
(* and its waiting completions, and a probe is never both.                 *)

\* The two directions a socket is probed in.
Dirs == {"R", "W"}

\* The probes the kernel knows belong to associated sockets, and one that is
\* in flight is not also a waiting completion.
ProbesTyped ==
    /\ \A p \in flying \cup done :
          p = Probe(p.socket, p.dir) /\ p.socket \in associated /\ p.dir \in Dirs
    /\ flying \cap done = {}

\* What is known of a socket.
SocketsTyped ==
    /\ DOMAIN sockets \subseteq associated
    /\ \A s \in DOMAIN sockets :
          sockets[s] \in [interest : WatchSets, pending : SUBSET Dirs]

\* Of one socket: its pending marks are the truth, and what is watched is armed.
Marked(s) ==
    \A d \in Dirs : d \in sockets[s].pending <=> Probe(s, d) \in flying \cup done

\* What is watched has a probe, or could not be armed.
Armed(s) ==
    \A d \in sockets[s].interest : Probe(s, d) \in flying \cup done \cup unarmed

\* The inductive invariant.
IocpInv ==
    /\ ProbesTyped
    /\ SocketsTyped
    /\ \A s \in DOMAIN sockets : Marked(s) /\ Armed(s)

\* A poll reports only what is watched.
OnlyWatched ==
    reported' # reported =>
        \A p \in reported' : p.socket \in DOMAIN sockets
                             /\ p.dir \in sockets[p.socket].interest

\* The parts of a probe.
LEMMA ProbeIs ==
    ASSUME NEW s, NEW d
    PROVE  /\ Probe(s, d).socket = s /\ Probe(s, d).dir = d
           /\ Probe(s, d) = Probe(Probe(s, d).socket, Probe(s, d).dir)
  BY Zenon DEF Probe

\* An empty port.
LEMMA IocpInitInv == IocpInit => IocpInv
  BY SMTT(30) DEF IocpInit, IocpInv, ProbesTyped, SocketsTyped

\* register arms what it watches, unless arming fails.
LEMMA RegisterInv ==
    ASSUME IocpInv, NEW s \in Sockets, NEW interest \in WatchSets, iocp_register(s, interest)
    PROVE  IocpInv'
<1> DEFINE new == {Probe(s, d) : d \in interest}
<1>1. /\ DOMAIN sockets' = DOMAIN sockets \cup {s}
      /\ sockets'[s] = [interest |-> interest, pending |-> interest]
      /\ \A x \in DOMAIN sockets : x # s => sockets'[x] = sockets[x]
  BY Zenon DEF iocp_register, Put
<1>2. flying' = flying \cup new /\ done' = done /\ unarmed' = unarmed
      /\ associated' = associated \cup {s}
  BY Zenon DEF iocp_register
<1>3. interest \subseteq Dirs
  BY Zenon DEF WatchSets, Dirs
<1>4. \A p \in flying \cup done : p.socket # s
  BY Zenon DEF iocp_register, IocpInv, ProbesTyped
<1>5. \A p \in new : p = Probe(s, p.dir) /\ p.socket = s /\ p.dir \in interest
  BY ProbeIs
<1>6. ProbesTyped'
  BY Zenon, <1>2, <1>3, <1>4, <1>5 DEF IocpInv, ProbesTyped
<1>7. SocketsTyped'
  BY <1>1, <1>2, <1>3 DEF IocpInv, SocketsTyped
<1>8. ASSUME NEW x \in DOMAIN sockets' PROVE Marked(x)' /\ Armed(x)'
  <2>1. CASE x = s
    <3>1. \A d \in Dirs : Probe(s, d) \in flying' \cup done' <=> d \in interest
      BY <1>2, <1>3, <1>4, <1>5, ProbeIs
    <3> QED
      BY <2>1, <1>1, <1>3, <3>1 DEF Marked, Armed
  <2>2. CASE x # s
    <3>1. \A d \in Dirs : Probe(x, d) \in flying' \cup done' <=> Probe(x, d) \in flying \cup done
      BY Zenon, <2>2, <1>2, <1>5, ProbeIs
    <3>2. x \in DOMAIN sockets /\ sockets'[x] = sockets[x]
      BY Zenon, <2>2, <1>1
    <3>3. Marked(x)'
      BY Zenon, <3>1, <3>2 DEF Marked, IocpInv
    <3>4. Armed(x)'
      BY Zenon, <3>2, <1>2 DEF Armed, IocpInv
    <3> QED
      BY Zenon, <3>3, <3>4
  <2> QED
    BY Zenon, <2>1, <2>2
<1> QED
  BY Zenon, <1>6, <1>7, <1>8 DEF IocpInv

\* register fails when a probe cannot be armed; what was armed stays in flight.
LEMMA RegisterFailsInv ==
    ASSUME IocpInv, NEW s \in Sockets, NEW interest \in WatchSets,
           iocp_register_arm_fails(s, interest)
    PROVE  IocpInv'
<1>1. PICK new \in SUBSET {Probe(s, "R")} : flying' = flying \cup new
  BY Zenon DEF iocp_register_arm_fails
<1>2. done' = done /\ unarmed' = unarmed /\ sockets' = sockets
      /\ associated' = associated \cup {s} /\ s \notin associated
  BY Zenon DEF iocp_register_arm_fails
<1>3. \A p \in new : p = Probe(s, "R") /\ p.socket = s /\ p.dir = "R"
  BY <1>1, ProbeIs
<1>4. ProbesTyped'
  BY Zenon, <1>1, <1>2, <1>3 DEF IocpInv, ProbesTyped, Dirs
<1>5. SocketsTyped'
  BY Zenon, <1>2 DEF IocpInv, SocketsTyped
<1>6. ASSUME NEW x \in DOMAIN sockets' PROVE Marked(x)' /\ Armed(x)'
  <2>1. x # s /\ x \in DOMAIN sockets
    BY Zenon, <1>2 DEF IocpInv, SocketsTyped
  <2>2. \A d \in Dirs : Probe(x, d) \in flying' \cup done' <=> Probe(x, d) \in flying \cup done
    BY Zenon, <2>1, <1>1, <1>2, <1>3, ProbeIs
  <2>3. Marked(x)'
    BY Zenon, <2>1, <2>2, <1>2 DEF Marked, IocpInv
  <2>4. Armed(x)'
    BY Zenon, <2>1, <1>1, <1>2 DEF Armed, IocpInv
  <2> QED
    BY Zenon, <2>3, <2>4
<1> QED
  BY Zenon, <1>4, <1>5, <1>6 DEF IocpInv

\* reregister arms only what is not in flight already.
LEMMA ReregisterInv ==
    ASSUME IocpInv, NEW s \in Sockets, NEW interest \in WatchSets,
           NEW failed \in {{}, {"R"}, {"W"}}, iocp_reregister(s, interest, failed)
    PROVE  IocpInv'
<1> DEFINE wanted == Armable(s, interest \ sockets[s].interest)
           armed  == IF failed = {} THEN wanted
                     ELSE IF failed = {"W"} THEN wanted \cap {"R"} ELSE {}
           new    == {Probe(s, d) : d \in armed}
           late   == {Probe(s, d) : d \in wanted \ armed}
<1>1. s \in DOMAIN sockets
  BY Zenon DEF iocp_reregister
<1>2. sockets[s].interest \in WatchSets /\ sockets[s].pending \subseteq Dirs
      /\ Marked(s) /\ Armed(s)
  BY Zenon, <1>1 DEF IocpInv, SocketsTyped
<1>3. wanted = (interest \ sockets[s].interest) \ sockets[s].pending
  BY Zenon DEF Armable
<1>4. armed \subseteq wanted /\ wanted \subseteq Dirs
  BY Zenon, <1>3 DEF WatchSets, Dirs
<1>5. /\ sockets' = Put(s, [interest |-> interest, pending |-> sockets[s].pending \cup armed])
      /\ flying' = flying \cup new /\ done' = done /\ associated' = associated
      /\ unarmed' = (unarmed \ new) \cup late
  BY Zenon DEF iocp_reregister
<1>6. /\ DOMAIN sockets' = DOMAIN sockets
      /\ sockets'[s] = [interest |-> interest, pending |-> sockets[s].pending \cup armed]
      /\ \A x \in DOMAIN sockets : x # s => sockets'[x] = sockets[x]
  BY Zenon, <1>1, <1>5 DEF Put
<1>7. \A p \in new : p = Probe(s, p.dir) /\ p.socket = s /\ p.dir \in armed
  <2> HIDE DEF armed
  <2> QED
    BY ProbeIs
<1>8. \A p \in late : p = Probe(s, p.dir) /\ p.socket = s /\ p.dir \in wanted \ armed
  <2> HIDE DEF armed, wanted
  <2> QED
    BY ProbeIs
<1>9. \A d \in armed : Probe(s, d) \notin flying \cup done
  BY Zenon, <1>2, <1>3, <1>4 DEF Marked
<1>10. /\ \A d \in armed : Probe(s, d) \in new
       /\ \A d \in wanted \ armed : Probe(s, d) \in late
  <2> HIDE DEF armed, wanted
  <2> QED
    BY Zenon
<1> HIDE DEF wanted, armed, new, late
<1>11. ProbesTyped'
  <2>1. s \in associated
    BY Zenon, <1>1 DEF IocpInv, SocketsTyped
  <2> QED
    BY Zenon, <2>1, <1>4, <1>5, <1>7, <1>9 DEF IocpInv, ProbesTyped
<1>12. SocketsTyped'
  <2> DEFINE pend == sockets[s].pending \cup armed
  <2>0. pend \in SUBSET Dirs
    BY Zenon, <1>2, <1>4
  <2> HIDE DEF pend
  <2>1. sockets'[s] \in [interest : WatchSets, pending : SUBSET Dirs]
    <3>1. sockets'[s] = [interest |-> interest, pending |-> pend]
      BY Zenon, <1>6 DEF pend
    <3> QED
      BY <2>0, <3>1
  <2>2. associated' = associated
    BY Zenon, <1>5
  <2>3. /\ DOMAIN sockets \subseteq associated
        /\ \A x \in DOMAIN sockets : sockets[x] \in [interest : WatchSets, pending : SUBSET Dirs]
    BY Zenon DEF IocpInv, SocketsTyped
  <2> QED
    BY Zenon, <2>1, <2>2, <2>3, <1>6 DEF SocketsTyped
<1>13. ASSUME NEW x \in DOMAIN sockets' PROVE Marked(x)' /\ Armed(x)'
  <2>1. CASE x = s
    <3>1. sockets'[s].interest = interest /\ sockets'[s].pending = sockets[s].pending \cup armed
      BY <1>6
    <3>2. \A d \in Dirs : Probe(s, d) \in new <=> d \in armed
      BY Zenon, <1>7, <1>10, ProbeIs
    <3>3. Marked(s)'
      BY Zenon, <3>1, <3>2, <1>2, <1>5 DEF Marked
    <3>4. ASSUME NEW d \in interest PROVE Probe(s, d) \in flying' \cup done' \cup unarmed'
      <4>1. CASE d \in sockets[s].interest
        BY Zenon, <4>1, <1>2, <1>5 DEF Armed
      <4>2. CASE d \in sockets[s].pending
        BY Zenon, <4>2, <1>2, <1>5 DEF Marked
      <4>3. CASE d \in wanted
        BY Zenon, <4>3, <1>5, <1>10
      <4> QED
        BY Zenon, <4>1, <4>2, <4>3, <1>3
    <3>5. Armed(s)'
      BY Zenon, <3>1, <3>4 DEF Armed
    <3> QED
      BY Zenon, <2>1, <3>3, <3>5
  <2>2. CASE x # s
    <3>1. \A d : Probe(x, d) \notin new /\ Probe(x, d) \notin late
      BY <2>2, <1>7, <1>8, ProbeIs
    <3>2. x \in DOMAIN sockets /\ sockets'[x] = sockets[x]
      BY Zenon, <2>2, <1>6
    <3>3. Marked(x) /\ Armed(x)
      BY Zenon, <3>2 DEF IocpInv
    <3>4. Marked(x)'
      BY Zenon, <3>1, <3>2, <3>3, <1>5 DEF Marked
    <3>5. Armed(x)'
      BY Zenon, <3>1, <3>2, <3>3, <1>5 DEF Armed
    <3> QED
      BY Zenon, <3>4, <3>5
  <2> QED
    BY Zenon, <2>1, <2>2
<1> QED
  BY Zenon, <1>11, <1>12, <1>13 DEF IocpInv

\* deregister forgets the socket; its probes stay in flight.
LEMMA DeregisterInv ==
    ASSUME IocpInv, NEW s \in Sockets, iocp_deregister(s)
    PROVE  IocpInv'
<1>1. /\ DOMAIN sockets' = DOMAIN sockets \ {s}
      /\ \A x \in DOMAIN sockets' : sockets'[x] = sockets[x]
      /\ flying' = flying /\ done' = done /\ associated' = associated
      /\ unarmed' = {p \in unarmed : p.socket # s}
  BY Zenon DEF iocp_deregister
<1>2. ProbesTyped' /\ SocketsTyped'
  BY Zenon, <1>1 DEF IocpInv, ProbesTyped, SocketsTyped
<1>3. ASSUME NEW x \in DOMAIN sockets' PROVE Marked(x)' /\ Armed(x)'
  <2>1. x # s /\ x \in DOMAIN sockets /\ sockets'[x] = sockets[x]
    BY Zenon, <1>1
  <2>2. Marked(x) /\ Armed(x)
    BY Zenon, <2>1 DEF IocpInv
  <2>3. Marked(x)'
    BY Zenon, <2>1, <2>2, <1>1 DEF Marked
  <2>4. \A d : Probe(x, d) \in unarmed => Probe(x, d) \in unarmed'
    BY Zenon, <2>1, <1>1, ProbeIs
  <2>5. Armed(x)'
    BY Zenon, <2>1, <2>2, <2>4, <1>1 DEF Armed
  <2> QED
    BY Zenon, <2>3, <2>5
<1> QED
  BY Zenon, <1>2, <1>3 DEF IocpInv

\* A probe completes: it leaves the flight and waits to be dequeued.
LEMMA CompleteInv ==
    ASSUME IocpInv, NEW p \in flying, complete(p)
    PROVE  IocpInv'
<1>1. flying' \cup done' = flying \cup done /\ sockets' = sockets /\ unarmed' = unarmed
      /\ associated' = associated
  BY Zenon DEF complete
<1>2. ProbesTyped'
  <2>1. flying' \cap done' = {}
    BY Zenon DEF complete, IocpInv, ProbesTyped
  <2> QED
    BY Zenon, <2>1, <1>1 DEF IocpInv, ProbesTyped
<1>3. SocketsTyped'
  BY Zenon, <1>1 DEF IocpInv, SocketsTyped
<1>4. ASSUME NEW x \in DOMAIN sockets' PROVE Marked(x)' /\ Armed(x)'
  BY Zenon, <1>1 DEF IocpInv, Marked, Armed
<1> QED
  BY Zenon, <1>2, <1>3, <1>4 DEF IocpInv

\* poll takes completions off the port, reports those watched and arms them again.
LEMMA PollInv ==
    ASSUME IocpInv, NEW batch \in SUBSET done, NEW failed \in SUBSET batch,
           iocp_poll(batch, failed)
    PROVE  IocpInv'
<1> DEFINE again == Wanted(batch) \ failed
           Cleared(s) == {p.dir : p \in {q \in batch : q.socket = s}}
           Rearmed(s) == {p.dir : p \in {q \in again : q.socket = s}}
<1>1. /\ failed \subseteq Wanted(batch)
      /\ done' = done \ batch
      /\ flying' = flying \cup again
      /\ unarmed' = unarmed \cup failed
      /\ associated' = associated
      /\ DOMAIN sockets' = DOMAIN sockets
      /\ \A s \in DOMAIN sockets :
            sockets'[s] = [sockets[s] EXCEPT !.pending = (@ \ Cleared(s)) \cup Rearmed(s)]
  BY Zenon DEF iocp_poll
<1>2. again \subseteq batch
  BY Zenon DEF Wanted
<1>3. ProbesTyped'
  BY Zenon, <1>1, <1>2 DEF IocpInv, ProbesTyped
<1>4. ASSUME NEW s \in DOMAIN sockets, NEW d \in Dirs
      PROVE  /\ d \in Cleared(s) <=> Probe(s, d) \in batch
             /\ d \in Rearmed(s) <=> Probe(s, d) \in again
  <2>1. \A p \in batch : p = Probe(p.socket, p.dir)
    BY Zenon DEF IocpInv, ProbesTyped
  <2> QED
    BY <2>1, <1>2, ProbeIs
<1>5. ASSUME NEW s \in DOMAIN sockets PROVE Cleared(s) \subseteq Dirs /\ Rearmed(s) \subseteq Dirs
  BY <1>2 DEF IocpInv, ProbesTyped
<1>6. ASSUME NEW s \in DOMAIN sockets
      PROVE  /\ sockets'[s].interest = sockets[s].interest
             /\ sockets'[s].pending = (sockets[s].pending \ Cleared(s)) \cup Rearmed(s)
             /\ sockets'[s] \in [interest : WatchSets, pending : SUBSET Dirs]
  <2> HIDE DEF Cleared, Rearmed
  <2>1. sockets[s] \in [interest : WatchSets, pending : SUBSET Dirs]
    BY Zenon DEF IocpInv, SocketsTyped
  <2> QED
    BY <2>1, <1>1, <1>5
<1>7. SocketsTyped'
  BY Zenon, <1>1, <1>6 DEF IocpInv, SocketsTyped
<1> HIDE DEF Cleared, Rearmed
<1>8. ASSUME NEW s \in DOMAIN sockets' PROVE Marked(s)' /\ Armed(s)'
  <2>1. s \in DOMAIN sockets /\ Marked(s) /\ Armed(s)
    BY Zenon, <1>1 DEF IocpInv
  <2>2. ASSUME NEW d \in Dirs
        PROVE d \in sockets'[s].pending <=> Probe(s, d) \in flying' \cup done'
    <3>1. d \in sockets[s].pending <=> Probe(s, d) \in flying \cup done
      BY Zenon, <2>1 DEF Marked
    <3>2. Probe(s, d) \in batch => Probe(s, d) \notin flying
      BY Zenon DEF IocpInv, ProbesTyped
    <3>3. d \in sockets'[s].pending <=>
             (d \in sockets[s].pending /\ Probe(s, d) \notin batch) \/ Probe(s, d) \in again
      BY Zenon, <2>1, <1>4, <1>6
    <3> QED
      BY Zenon, <3>1, <3>2, <3>3, <1>1, <1>2
  <2>3. ASSUME NEW d \in sockets[s].interest
        PROVE  Probe(s, d) \in flying' \cup done' \cup unarmed'
    <3>1. CASE Probe(s, d) \in batch
      <4>1. Probe(s, d) \in Wanted(batch)
        BY <2>1, <3>1, ProbeIs DEF Wanted
      <4> QED
        BY Zenon, <4>1, <1>1
    <3>2. CASE Probe(s, d) \notin batch
      BY Zenon, <2>1, <3>2, <1>1 DEF Armed
    <3> QED
      BY Zenon, <3>1, <3>2
  <2> QED
    BY Zenon, <2>1, <2>2, <2>3, <1>6 DEF Marked, Armed
<1> QED
  BY Zenon, <1>3, <1>7, <1>8 DEF IocpInv

\* Every step keeps the invariant.
LEMMA IocpNextInv == IocpInv /\ [IocpNext]_iocp => IocpInv'
<1> SUFFICES ASSUME IocpInv, [IocpNext]_iocp PROVE IocpInv'
  BY Zenon
<1>1. CASE UNCHANGED <<sockets, associated, flying, done, unarmed>>
  BY Zenon, <1>1 DEF IocpInv, ProbesTyped, SocketsTyped, Marked, Armed
<1> QED
  BY Zenon, <1>1, RegisterInv, RegisterFailsInv, ReregisterInv, DeregisterInv, CompleteInv, PollInv
     DEF IocpNext, iocp, iocp_register_again, iocp_poll_timeout

\* No step reports what is not watched.
LEMMA IocpNextReports == [IocpNext]_iocp => OnlyWatched
<1> SUFFICES ASSUME [IocpNext]_iocp, reported' # reported,
                    NEW p \in reported'
             PROVE  p.socket \in DOMAIN sockets /\ p.dir \in sockets[p.socket].interest
  BY Zenon DEF OnlyWatched
<1>1. CASE iocp_poll_timeout
  BY Zenon, <1>1 DEF iocp_poll_timeout
<1>2. ASSUME NEW batch \in SUBSET done, NEW failed \in SUBSET batch, iocp_poll(batch, failed)
      PROVE  p.socket \in DOMAIN sockets /\ p.dir \in sockets[p.socket].interest
  BY Zenon, <1>2 DEF iocp_poll, Wanted
<1>3. IocpNext => \/ iocp_poll_timeout
                  \/ \E batch \in SUBSET done : \E failed \in SUBSET batch :
                        iocp_poll(batch, failed)
  <2>1. ASSUME NEW s \in Sockets, NEW interest \in WatchSets, iocp_register(s, interest)
        PROVE  FALSE
    BY Zenon, <2>1 DEF iocp_register
  <2>2. ASSUME NEW s \in Sockets, NEW interest \in WatchSets,
               iocp_register_arm_fails(s, interest)
        PROVE  FALSE
    BY Zenon, <2>2 DEF iocp_register_arm_fails
  <2>3. ASSUME NEW s \in Sockets, iocp_register_again(s) PROVE FALSE
    BY Zenon, <2>3 DEF iocp_register_again, iocp
  <2>4. ASSUME NEW s \in Sockets, NEW interest \in WatchSets,
               NEW failed \in {{}, {"R"}, {"W"}}, iocp_reregister(s, interest, failed)
        PROVE  FALSE
    BY Zenon, <2>4 DEF iocp_reregister
  <2>5. ASSUME NEW s \in Sockets, iocp_deregister(s) PROVE FALSE
    BY Zenon, <2>5 DEF iocp_deregister
  <2>6. ASSUME NEW x \in flying, complete(x) PROVE FALSE
    BY Zenon, <2>6 DEF complete
  <2> QED
    BY Zenon, <2>1, <2>2, <2>3, <2>4, <2>5, <2>6 DEF IocpNext
<1> QED
  BY Zenon, <1>1, <1>2, <1>3 DEF iocp

\* Whatever is watched has a probe in flight or a completion waiting, unless
\* arming it failed, and a poll reports only what is watched
\* (windows/reactor.rs): no readiness is lost between register, reregister,
\* deregister and poll, whatever the order.
THEOREM ReadinessIsReported == IocpSpec => WatchedIsReported
<1>1. IocpInv => \A s \in DOMAIN sockets :
             /\ \A d \in sockets[s].interest :
                   Probe(s, d) \in flying \cup done \cup unarmed
             /\ \A d \in {"R", "W"} :
                   d \in sockets[s].pending <=> Probe(s, d) \in flying \cup done
  BY Zenon DEF IocpInv, Marked, Armed, Dirs
<1>2. [IocpNext]_iocp => [OnlyWatched]_iocp
  BY Zenon, IocpNextReports
<1> QED
  BY <1>1, <1>2, IocpInitInv, IocpNextInv, PTL DEF IocpSpec, WatchedIsReported, OnlyWatched

=============================================================================
