---------------------------- MODULE PacketProofs ----------------------------
(***************************************************************************)
(* What is proved, for every value of the constants, of a packet that is   *)
(* sent in fragments (Fragmentation), of the iptables rules it leaves the  *)
(* server through (NatRules), and of the peers that are let in to send one *)
(* (Authenticator).  The three share no state.                             *)
(***************************************************************************)
EXTENDS Fragmentation, NatRules, Authenticator, FiniteSetTheorems,
        WellFoundedInduction, TLAPS

----------------------------------------------------------------------------
\* Fragmentation.

\* A sequence put behind another.
LEMMA Concatenated ==
    ASSUME NEW S, NEW s \in Seq(S), NEW t \in Seq(S)
    PROVE  /\ s \o t \in Seq(S) /\ Len(s \o t) = Len(s) + Len(t)
           /\ \A i \in 1 .. Len(s) + Len(t) :
                 (s \o t)[i] = IF i <= Len(s) THEN s[i] ELSE t[i - Len(s)]
  <1>1. s \o t \in Seq(S) /\ Len(s \o t) = Len(s) + Len(t)
    OBVIOUS
  <1>2. \A i \in 1 .. Len(s) + Len(t) :
            (s \o t)[i] = IF i <= Len(s) THEN s[i] ELSE t[i - Len(s)]
    OBVIOUS
  <1> QED
    BY Zenon, <1>1, <1>2

\* A piece of a sequence.
LEMMA PieceOf ==
    ASSUME NEW S, NEW s, NEW a \in Int, NEW b \in Int, \A i \in a .. b : s[i] \in S
    PROVE  /\ SubSeq(s, a, b) \in Seq(S)
           /\ Len(SubSeq(s, a, b)) = IF a <= b THEN b - a + 1 ELSE 0
           /\ \A i \in 1 .. b - a + 1 : SubSeq(s, a, b)[i] = s[a + i - 1]
  <1>1. Len(SubSeq(s, a, b)) = IF a <= b THEN b - a + 1 ELSE 0
    OBVIOUS
  <1>2. \A i \in 1 .. b - a + 1 : SubSeq(s, a, b)[i] = s[a + i - 1]
    OBVIOUS
  <1>3. SubSeq(s, a, b) \in Seq(S)
    OBVIOUS
  <1> QED
    BY Zenon, <1>1, <1>2, <1>3

\* Division with remainder.
LEMMA ModDef ==
    ASSUME NEW x \in Int, NEW w \in Nat \ {0}
    PROVE  /\ x = (x \div w) * w + (x % w)
           /\ x \div w \in Int
           /\ x % w \in 0 .. w - 1
OBVIOUS

\* A remainder is one.
LEMMA ModRange ==
    ASSUME NEW x \in Int, NEW w \in Nat \ {0}
    PROVE  x % w \in 0 .. w - 1
OBVIOUS

\* A positive multiple of w is at least w.
LEMMA MultipleAtLeast ==
    ASSUME NEW k \in Int, NEW w \in Nat, k >= 1
    PROVE  k * w >= w
<1>1. (k - 1) * w \in Nat
  OBVIOUS
<1>2. k * w = (k - 1) * w + w
  OBVIOUS
<1> QED
  BY <1>1, <1>2

\* Two remainders that differ by a multiple of w are the same.
LEMMA RemainderUnique ==
    ASSUME NEW k \in Int, NEW w \in Nat \ {0},
           NEW r \in 0 .. w - 1, NEW s \in 0 .. w - 1, k * w = r - s
    PROVE  r = s
<1>1. CASE k >= 1
  BY <1>1, MultipleAtLeast
<1>2. CASE k <= -1
  <2>1. (-k) * w = s - r
    OBVIOUS
  <2> QED
    BY <1>2, <2>1, MultipleAtLeast
<1>3. CASE k = 0
  BY <1>3
<1> QED
  BY <1>1, <1>2, <1>3

\* Two numbers less than w apart have different remainders.
LEMMA RemaindersDiffer ==
    ASSUME NEW w \in Nat \ {0}, NEW i \in Nat, NEW j \in Nat, i < j, j - i < w
    PROVE  i % w # j % w
<1> SUFFICES ASSUME i % w = j % w
             PROVE  FALSE
  BY Zenon
<1> DEFINE p == i \div w
           q == j \div w
           r == i % w
<1>1. i = p * w + r /\ p \in Int /\ r \in 0 .. w - 1
  BY ModDef
<1>2. j = q * w + r /\ q \in Int
  BY ModDef
<1> HIDE DEF p, q, r
<1>3. (q - p) * w = (j - i) - 0
  <2>1. (q - p) * w = q * w - p * w
    BY <1>1, <1>2
  <2>2. q * w \in Int /\ p * w \in Int
    BY <1>1, <1>2
  <2> QED
    BY <2>1, <2>2, <1>1, <1>2
<1>4. j - i \in 0 .. w - 1 /\ 0 \in 0 .. w - 1 /\ q - p \in Int
  BY <1>1, <1>2
<1>5. j - i = 0
  BY Zenon, <1>3, <1>4, RemainderUnique
<1> QED
  BY <1>5

\* A set of numbers that is not empty has a least element.
LEMMA LeastNumber ==
    ASSUME NEW T \in SUBSET Nat, T # {}
    PROVE  \E m \in T : \A k \in T : m <= k
  <1>1. PICK m \in T : \A k \in T : <<k, m>> \notin OpToRel(<, Nat)
    BY WFMin, NatLessThanWellFounded, Zenon
  <1>2. \A k \in T : ~(k < m)
    BY <1>1, Zenon DEF OpToRel
  <1> QED
    BY <1>2

\* Induction up to m: a set with 0 that is closed under successor is all.
LEMMA InductionUpTo ==
    ASSUME NEW m \in Nat, NEW S \in SUBSET (0 .. m), 0 \in S,
           \A k \in 1 .. m : k - 1 \in S => k \in S
    PROVE  S = 0 .. m
  <1> SUFFICES ASSUME S # 0 .. m PROVE FALSE
    BY Zenon
  <1> DEFINE T == (0 .. m) \ S
  <1>1. T \in SUBSET Nat /\ T # {}
    <2>1. T \in SUBSET Nat
      OBVIOUS
    <2>2. S \subseteq 0 .. m
      BY Zenon
    <2>3. T # {}
      BY <2>2, Zenon
    <2> QED
      BY Zenon, <2>1, <2>3
  <1> HIDE DEF T
  <1>2. PICK t \in T : \A k \in T : t <= k
    BY Zenon, <1>1, LeastNumber
  <1>3. t \in 1 .. m /\ t - 1 \in S /\ t \notin S
    BY <1>2 DEF T
  <1> QED
    BY Zenon, <1>3

\* A byte is known by its packet and its place.
ByteSet == Nat \X Nat

\* The payload of packet p, n bytes long, and the number of its fragments.
Bytes(p, n) == [i \in 1 .. n |-> <<p, i>>]
Total(n) == div_ceil(n, BodyLen)

\* The body of fragment i of packet p.
Body(snt, p, i) == chunk(Bytes(p, snt[p]), i)

\* The fragments but the last are full, the last one is not empty.
LEMMA TotalIs ==
    ASSUME NEW n \in Nat \ {0}
    PROVE  /\ Total(n) \in Nat \ {0}
           /\ n <= Total(n) * BodyLen
           /\ (Total(n) - 1) * BodyLen < n
<1> DEFINE x == n + BodyLen - 1
           t == x \div BodyLen
           r == x % BodyLen
<1>1. BodyLen \in Nat \ {0}
  BY Zenon, FragmentAssumption
<1>2. x = t * BodyLen + r /\ t \in Int /\ r \in 0 .. BodyLen - 1
  <2>1. x \in Int
    BY <1>1
  <2> HIDE DEF x
  <2> QED
    BY Zenon, <2>1, <1>1, ModDef
<1>3. Total(n) = t
  BY Zenon DEF Total, div_ceil
<1>4. n + BodyLen - 1 = t * BodyLen + r
  BY Zenon, <1>2
<1> HIDE DEF x, t, r
<1>5. (t - 1) * BodyLen = t * BodyLen - BodyLen
  BY <1>1, <1>2
<1>6. t * BodyLen \in Int
  BY <1>1, <1>2
<1>7. n <= t * BodyLen /\ (t - 1) * BodyLen < n
  BY <1>1, <1>2, <1>4, <1>5, <1>6
<1>8. t >= 1
  <2> SUFFICES ASSUME t <= 0 PROVE FALSE
    BY <1>2
  <2>1. (-t) * BodyLen \in Nat
    BY <1>1, <1>2
  <2>2. t * BodyLen = -((-t) * BodyLen)
    BY <1>1, <1>2
  <2> QED
    BY <2>1, <2>2, <1>7
<1> QED
  BY <1>2, <1>3, <1>7, <1>8

\* What a fragment carries: byte y of fragment i is byte i * BodyLen + y.
LEMMA BodyIs ==
    ASSUME NEW p \in Nat, NEW n \in Nat \ {0}, NEW i \in 0 .. Total(n) - 1
    PROVE  LET c == chunk(Bytes(p, n), i) IN
           /\ c \in Seq(ByteSet)
           /\ i * BodyLen \in Nat /\ i * BodyLen < n
           /\ Len(c) = IF i = Total(n) - 1 THEN n - i * BodyLen ELSE BodyLen
           /\ Len(c) >= 1
           /\ \A y \in 1 .. Len(c) : c[y] = <<p, i * BodyLen + y>>
<1> DEFINE T == Total(n)
           from == i * BodyLen
           to == (i + 1) * BodyLen
           last == IF to < n THEN to ELSE n
<1>1. BodyLen \in Nat \ {0} /\ T \in Nat \ {0}
  BY Zenon, FragmentAssumption, TotalIs
<1>2. n <= T * BodyLen /\ (T - 1) * BodyLen < n
  BY Zenon, TotalIs
<1>3. Bytes(p, n) \in Seq(ByteSet) /\ Len(Bytes(p, n)) = n
      /\ \A k \in 1 .. n : Bytes(p, n)[k] = <<p, k>>
  BY DEF Bytes, ByteSet
<1>4. chunk(Bytes(p, n), i) = SubSeq(Bytes(p, n), from + 1, last)
  BY Zenon, <1>3 DEF chunk
<1> HIDE DEF T
<1>5. i \in Nat /\ i <= T - 1
  BY <1>1 DEF T
<1>6. from \in Nat /\ to = from + BodyLen /\ to \in Nat
  BY <1>1, <1>5
<1>7. i < T - 1 => to < n
  <2> SUFFICES ASSUME i < T - 1 PROVE to < n
    BY Zenon
  <2>1. (T - 1 - (i + 1)) * BodyLen \in Nat
    BY <1>1, <1>5
  <2>2. (T - 1 - (i + 1)) * BodyLen = (T - 1) * BodyLen - to
    BY <1>1, <1>5
  <2>3. (T - 1) * BodyLen \in Int
    BY <1>1
  <2> HIDE DEF to
  <2> QED
    BY <2>1, <2>2, <2>3, <1>2, <1>6
<1>8. i = T - 1 => to >= n /\ from < n
  BY <1>1, <1>2
<1> HIDE DEF from, to
<1>9. from < n
  BY <1>1, <1>5, <1>6, <1>7, <1>8
<1>10. last = IF i = T - 1 THEN n ELSE to
  BY <1>5, <1>1, <1>6, <1>7, <1>8
<1>11. last \in from + 1 .. n /\ last - from = IF i = T - 1 THEN n - from ELSE BodyLen
  BY <1>1, <1>6, <1>7, <1>5, <1>9, <1>10
<1> HIDE DEF last
<1> DEFINE b == Bytes(p, n)
           c == SubSeq(b, from + 1, last)
<1>12. b \in Seq(ByteSet) /\ Len(b) = n /\ \A k \in 1 .. n : b[k] = <<p, k>>
  BY Zenon, <1>3
<1> HIDE DEF b
<1>13. c \in Seq(ByteSet) /\ Len(c) = last - from /\ \A y \in 1 .. Len(c) : c[y] = b[from + y]
  <2>1. from + 1 \in 1 .. Len(b) + 1 /\ last \in (from + 1) - 1 .. Len(b)
    BY <1>12, <1>11, <1>6
  <2>2. last \in Int
    BY <1>11, <1>6
  <2> QED
    BY <2>1, <2>2, <1>12, <1>6, PieceOf
<1>14. ASSUME NEW y \in 1 .. Len(c) PROVE c[y] = <<p, from + y>>
  <2>1. from + y \in 1 .. n
    <3> HIDE DEF c
    <3> QED
      BY <1>13, <1>11, <1>6
  <2> QED
    BY Zenon, <2>1, <1>12, <1>13
<1>15. chunk(Bytes(p, n), i) = c
  BY Zenon, <1>4 DEF b
<1> HIDE DEF c
<1> QED
  <2>1. Len(c) = (IF i = T - 1 THEN n - from ELSE BodyLen) /\ Len(c) >= 1
    BY <1>13, <1>11, <1>6, <1>1
  <2> QED
    BY Zenon, <2>1, <1>13, <1>14, <1>15, <1>9, <1>6 DEF from, T

\* The recursion of Extended is well-founded: there is a function that
\* satisfies it.
LEMMA ExtendedIs ==
    ASSUME NEW m \in Nat, NEW slots
    PROVE  LET out == Extended(slots, m)
           IN  /\ out[0] = << >>
               /\ \A k \in 1 .. m : out[k] = out[k - 1] \o slots[k - 1][1]
<1> DEFINE Runs(f, n) == f = [k \in 0 .. n |-> IF k = 0 THEN << >>
                                               ELSE f[k - 1] \o slots[k - 1][1]]
           S == {n \in 0 .. m : \E f : Runs(f, n)}
<1>1. 0 \in S
  <2>1. Runs([k \in 0 .. 0 |-> << >>], 0)
    OBVIOUS
  <2> HIDE DEF Runs
  <2> QED
    BY <2>1
<1>2. ASSUME NEW t \in 1 .. m, t - 1 \in S PROVE t \in S
  <2>1. PICK f : Runs(f, t - 1)
    BY Zenon, <1>2
  <2> DEFINE g == [k \in 0 .. t |-> IF k = t THEN f[t - 1] \o slots[t - 1][1] ELSE f[k]]
  <2>2. \A k \in 0 .. (t - 1) : f[k] = IF k = 0 THEN << >> ELSE f[k - 1] \o slots[k - 1][1]
    BY Zenon, <2>1
  <2>3. \A k \in 0 .. t : g[k] = IF k = 0 THEN << >> ELSE g[k - 1] \o slots[k - 1][1]
    <3> TAKE k \in 0 .. t
    <3>1. CASE k = t
      <4>1. t # 0 /\ t \in 0 .. t /\ t - 1 \in 0 .. t /\ t - 1 # t
        OBVIOUS
      <4>2. g[t] = f[t - 1] \o slots[t - 1][1] /\ g[t - 1] = f[t - 1]
        BY Zenon, <4>1
      <4> QED
        BY Zenon, <3>1, <4>1, <4>2
    <3>2. CASE k # t
      BY <2>2, <3>2
    <3> QED
      BY Zenon, <3>1, <3>2
  <2>4. Runs(g, t)
    <3>1. g = [k \in 0 .. t |-> g[k]]
      BY Zenon
    <3> HIDE DEF g
    <3> QED
      BY Zenon, <2>3, <3>1
  <2> HIDE DEF g, Runs
  <2> QED
    BY <2>4
<1>3. S \in SUBSET (0 .. m)
  BY Zenon
<1> HIDE DEF S
<1>4. m \in S
  BY SMTT(30), <1>1, <1>2, <1>3, InductionUpTo
<1>5. \E f : Runs(f, m)
  BY Zenon, <1>4 DEF S
<1> DEFINE run == CHOOSE f : Runs(f, m)
<1>6. Runs(run, m)
  BY Zenon, <1>5
<1>7. Extended(slots, m) = run
  BY DEF Extended
<1> HIDE DEF run
<1>8. run[0] = << >> /\ \A k \in 1 .. m : run[k] = run[k - 1] \o slots[k - 1][1]
  <2>1. \A k \in 0 .. m : run[k] = IF k = 0 THEN << >> ELSE run[k - 1] \o slots[k - 1][1]
    BY Zenon, <1>6
  <2>2. 0 \in 0 .. m /\ \A k \in 1 .. m : k \in 0 .. m /\ k # 0
    OBVIOUS
  <2> QED
    BY Zenon, <2>1, <2>2
<1> QED
  BY Zenon, <1>7, <1>8

\* A body put behind the bytes up to m: byte x stays byte x.
LEMMA BehindIs ==
    ASSUME NEW S, NEW s \in Seq(S), NEW c \in Seq(S)
    PROVE  /\ s \o c \in Seq(S)
           /\ Len(s \o c) = Len(s) + Len(c)
           /\ \A x \in 1 .. Len(s) : (s \o c)[x] = s[x]
           /\ \A y \in 1 .. Len(c) : (s \o c)[Len(s) + y] = c[y]
<1>1. s \o c \in Seq(S) /\ Len(s \o c) = Len(s) + Len(c)
  BY Zenon, Concatenated
<1>2. ASSUME NEW x \in 1 .. Len(s) PROVE (s \o c)[x] = s[x]
  BY <1>1, Concatenated
<1>3. ASSUME NEW y \in 1 .. Len(c) PROVE (s \o c)[Len(s) + y] = c[y]
  <2> DEFINE m == Len(s)
             k == m + y
  <2>1. k \in 1 .. m + Len(c) /\ ~(k <= m) /\ k - m = y
    OBVIOUS
  <2>2. (s \o c)[k] = IF k <= m THEN s[k] ELSE c[k - m]
    BY Zenon, <2>1, Concatenated
  <2> HIDE DEF k, m
  <2>3. (s \o c)[k] = c[y]
    BY Zenon, <2>1, <2>2
  <2> QED
    BY Zenon, <2>3 DEF k, m
<1> QED
  BY Zenon, <1>1, <1>2, <1>3

\* new is old, of m bytes, with the l bytes of c behind it.
Behind(longer, old, c, m, l) ==
    /\ longer \in Seq(ByteSet) /\ Len(longer) = m + l
    /\ \A x \in 1 .. m : longer[x] = old[x]
    /\ \A y \in 1 .. l : longer[m + y] = c[y]

\* Concatenation is that.
LEMMA ConcatIsBehind ==
    ASSUME NEW old \in Seq(ByteSet), NEW c \in Seq(ByteSet)
    PROVE  Behind(old \o c, old, c, Len(old), Len(c))
BY BehindIs DEF Behind

\* Byte x of the sequence is byte x of one of the packets from[0 .. k - 1],
\* and each of them has a byte in it.
Numbered(s, from, k) ==
    /\ \A x \in 1 .. Len(s) : \E i \in 0 .. k - 1 : s[x] = <<from[i], x>>
    /\ \A i \in 0 .. k - 1 : \E x \in 1 .. Len(s) : s[x] = <<from[i], x>>

\* The next body keeps that.
LEMMA OneMore ==
    ASSUME NEW longer, NEW old, NEW c, NEW j \in Nat, NEW m \in Nat, NEW l \in Nat, NEW from,
           Len(old) = m, Len(c) = l, Len(longer) = m + l, l >= 1,
           \A x \in 1 .. m : longer[x] = old[x],
           \A y \in 1 .. l : longer[m + y] = c[y],
           \A y \in 1 .. l : c[y] = <<from[j], m + y>>,
           Numbered(old, from, j)
    PROVE  Numbered(longer, from, j + 1)
<1>1. /\ Len(longer) = m + l
      /\ \A x \in 1 .. m : longer[x] = old[x]
  BY SMTT(30)
<1>2. l \in Nat /\ l >= 1
  BY Zenon
<1>3. \A y \in 1 .. l : longer[m + y] = <<from[j], m + y>>
  BY Zenon
<1>4. /\ \A x \in 1 .. m : \E i \in 0 .. j - 1 : longer[x] = <<from[i], x>>
      /\ \A i \in 0 .. j - 1 : \E x \in 1 .. m : longer[x] = <<from[i], x>>
  <2>1. /\ \A x \in 1 .. m : \E i \in 0 .. j - 1 : old[x] = <<from[i], x>>
        /\ \A i \in 0 .. j - 1 : \E x \in 1 .. m : old[x] = <<from[i], x>>
    BY Zenon DEF Numbered
  <2>2. \A x \in 1 .. m : longer[x] = old[x]
    BY Zenon, <1>1
  <2>3. ASSUME NEW i \in 0 .. j - 1 PROVE \E x \in 1 .. m : longer[x] = <<from[i], x>>
    <3>1. PICK x \in 1 .. m : old[x] = <<from[i], x>>
      BY Zenon, <2>1
    <3> QED
      BY Zenon, <3>1, <2>2
  <2>4. ASSUME NEW x \in 1 .. m PROVE \E i \in 0 .. j - 1 : longer[x] = <<from[i], x>>
    <3>1. PICK i \in 0 .. j - 1 : old[x] = <<from[i], x>>
      BY Zenon, <2>1
    <3> QED
      BY Zenon, <3>1, <2>2
  <2> QED
    BY Zenon, <2>3, <2>4
<1>5. ASSUME NEW x \in 1 .. Len(longer) PROVE \E i \in 0 .. (j + 1) - 1 : longer[x] = <<from[i], x>>
  <2>1. CASE x <= m
    <3>1. x \in 1 .. m
      BY <2>1, <1>1, <1>2
    <3>2. PICK i \in 0 .. j - 1 : longer[x] = <<from[i], x>>
      BY Zenon, <3>1, <1>4
    <3>3. i \in 0 .. (j + 1) - 1
      OBVIOUS
    <3> QED
      BY Zenon, <3>2, <3>3
  <2>2. CASE x > m
    <3>1. x - m \in 1 .. l /\ m + (x - m) = x
      BY <2>2, <1>1, <1>2
    <3>2. longer[x] = <<from[j], x>>
      BY Zenon, <3>1, <1>3
    <3>3. j \in 0 .. (j + 1) - 1
      OBVIOUS
    <3> QED
      BY Zenon, <3>2, <3>3
  <2> QED
    BY <2>1, <2>2, <1>1, <1>2
<1>6. ASSUME NEW i \in 0 .. (j + 1) - 1 PROVE \E x \in 1 .. Len(longer) : longer[x] = <<from[i], x>>
  <2>1. CASE i = j
    <3>1. m + 1 \in 1 .. Len(longer) /\ 1 \in 1 .. l
      BY <1>1, <1>2
    <3>2. longer[m + 1] = <<from[j], m + 1>>
      BY Zenon, <3>1, <1>3
    <3> QED
      BY Zenon, <3>1, <3>2, <2>1
  <2>2. CASE i # j
    <3>1. i \in 0 .. j - 1
      BY <2>2
    <3>2. PICK x \in 1 .. m : longer[x] = <<from[i], x>>
      BY Zenon, <3>1, <1>4
    <3>3. x \in 1 .. Len(longer)
      BY <1>1, <1>2
    <3> QED
      BY SMTT(30), <3>2, <3>3
  <2> QED
    BY Zenon, <2>1, <2>2
<1> QED
  BY Zenon, <1>5, <1>6 DEF Numbered

\* Slot i holds the body of fragment i of a packet p in total fragments.
Holds(snt, slot, p, i, total) ==
    /\ p \in 1 .. Len(snt) /\ snt[p] # 0 /\ Total(snt[p]) = total
    /\ slot = <<Body(snt, p, i)>>

\* Slots that hold bodies of the packets from[0], from[1], ..., all in total
\* fragments: the payload has byte x at x, and a byte of every slot.
LEMMA ExtendedSound ==
    ASSUME NEW total \in Nat \ {0}, NEW slots, NEW from, NEW snt \in Seq(Nat),
           \A i \in 0 .. total - 1 : Holds(snt, slots[i], from[i], i, total)
    PROVE  LET out == Extended(slots, total)[total] IN
           /\ out \in Seq(ByteSet)
           /\ Len(out) = snt[from[total - 1]]
           /\ Numbered(out, from, total)
<1> DEFINE out == Extended(slots, total)
           long(k) == IF k = total THEN snt[from[total - 1]] ELSE k * BodyLen
           Good(k) == /\ out[k] \in Seq(ByteSet)
                      /\ Len(out[k]) = long(k)
                      /\ Numbered(out[k], from, k)
           S == {k \in 0 .. total : Good(k)}
<1>1. out[0] = << >> /\ \A k \in 1 .. total : out[k] = out[k - 1] \o slots[k - 1][1]
  BY Zenon, ExtendedIs
<1> HIDE DEF out
<1>2. 0 \in S
  <2>1. long(0) = 0
    BY FragmentAssumption
  <2>2. out[0] \in Seq(ByteSet) /\ Len(out[0]) = 0
    BY <1>1
  <2>3. Numbered(out[0], from, 0)
    BY <2>2 DEF Numbered
  <2> QED
    BY <2>1, <2>2, <2>3
<1>3. ASSUME NEW k \in 1 .. total, k - 1 \in S PROVE k \in S
  <2> DEFINE j == k - 1
             p == from[j]
             n == snt[p]
             c == Body(snt, p, j)
             m == j * BodyLen
  <2>1. j \in 0 .. total - 1 /\ j \in Nat /\ j # total /\ k = j + 1
    OBVIOUS
  <2>2. p \in 1 .. Len(snt) /\ n # 0 /\ Total(n) = total /\ slots[j] = <<c>>
    BY Zenon, <2>1 DEF Holds
  <2>3. p \in Nat /\ n \in Nat \ {0}
    BY <2>2
  <2>4. /\ c \in Seq(ByteSet) /\ m \in Nat
        /\ Len(c) = IF j = total - 1 THEN n - m ELSE BodyLen
        /\ Len(c) >= 1
        /\ \A y \in 1 .. Len(c) : c[y] = <<p, m + y>>
    <3> HIDE DEF j, n, p
    <3>1. j \in 0 .. Total(n) - 1
      BY Zenon, <2>1, <2>2
    <3>2. c = chunk(Bytes(p, n), j)
      BY Zenon DEF Body, n
    <3> HIDE DEF c
    <3>3. /\ c \in Seq(ByteSet) /\ m \in Nat
          /\ Len(c) = IF j = Total(n) - 1 THEN n - m ELSE BodyLen
          /\ Len(c) >= 1
          /\ \A y \in 1 .. Len(c) : c[y] = <<p, m + y>>
      <4> DEFINE d == chunk(Bytes(p, n), j)
      <4>1. /\ d \in Seq(ByteSet) /\ j * BodyLen \in Nat
            /\ Len(d) = IF j = Total(n) - 1 THEN n - j * BodyLen ELSE BodyLen
            /\ Len(d) >= 1
            /\ \A y \in 1 .. Len(d) : d[y] = <<p, j * BodyLen + y>>
        BY Zenon, <3>1, <2>3, BodyIs
      <4>2. c = d
        BY Zenon, <3>2
      <4> HIDE DEF d
      <4> QED
        BY Zenon, <4>1, <4>2
    <3> QED
      BY Zenon, <3>3, <2>2
  <2>5. Good(j)
    BY Zenon, <1>3
  <2>6. out[j] \in Seq(ByteSet) /\ Len(out[j]) = m /\ Numbered(out[j], from, j)
    BY Zenon, <2>1, <2>5
  <2>7. out[k] = out[j] \o c
    <3>1. out[k] = out[j] \o slots[j][1]
      BY Zenon, <1>1
    <3>2. slots[j][1] = c
      <4> HIDE DEF c, j
      <4> QED
        BY <2>2
    <3> QED
      BY Zenon, <3>1, <3>2
  <2>8. k # total => k * BodyLen = m + BodyLen
    BY FragmentAssumption, <2>1
  <2> HIDE DEF c, m, n, p
  <2>9. long(k) = m + Len(c)
    <3>1. CASE k = total
      <4>1. long(k) = n
        BY Zenon, <3>1 DEF n, p
      <4>2. Len(c) = n - m
        BY Zenon, <3>1, <2>4
      <4> QED
        BY <4>1, <4>2, <2>3, <2>4
    <3>2. CASE k # total
      <4>1. long(k) = m + BodyLen
        BY Zenon, <3>2, <2>8
      <4>2. Len(c) = BodyLen
        BY <3>2, <2>4
      <4> QED
        BY Zenon, <4>1, <4>2
    <3> QED
      BY Zenon, <3>1, <3>2
  <2> HIDE DEF long
  <2> DEFINE old == out[j]
             longer == old \o c
  <2>10. /\ longer \in Seq(ByteSet) /\ Len(longer) = m + Len(c)
         /\ \A x \in 1 .. m : longer[x] = old[x]
         /\ \A y \in 1 .. Len(c) : longer[m + y] = c[y]
    <3>1. c \in Seq(ByteSet) /\ old \in Seq(ByteSet) /\ Len(old) = m
      BY Zenon, <2>4, <2>6
    <3>2. longer = old \o c
      BY Zenon
    <3> DEFINE l == Len(c)
    <3>3. l = Len(c) /\ m = Len(old)
      BY Zenon, <3>1
    <3> HIDE DEF old, longer, l
    <3>4. Behind(old \o c, old, c, Len(old), Len(c))
      BY Zenon, <3>1, ConcatIsBehind
    <3>5. Behind(longer, old, c, m, l)
      BY Zenon, <3>2, <3>3, <3>4
    <3> QED
      BY Zenon, <3>5 DEF l, Behind
  <2>11. Numbered(longer, from, j + 1)
    <3>1. \A y \in 1 .. Len(c) : c[y] = <<from[j], m + y>>
      BY Zenon, <2>4 DEF p
    <3>2. Len(c) \in Nat
      BY <2>4
    <3>3. Len(old) = m /\ Numbered(old, from, j)
      BY Zenon, <2>6
    <3> HIDE DEF j, old, longer
    <3> QED
      BY Zenon, <3>1, <3>2, <3>3, <2>1, <2>4, <2>10, OneMore
  <2>12. Good(k)
    <3>1. Numbered(out[k], from, k)
      BY Zenon, <2>11, <2>7, <2>1
    <3> QED
      BY Zenon, <3>1, <2>7, <2>9, <2>10
  <2> HIDE DEF Good
  <2> QED
    BY <2>12
<1>4. S \in SUBSET (0 .. total)
  BY Zenon
<1>5. total \in S
  <2> HIDE DEF S
  <2>1. S = 0 .. total
    BY SMTT(30), <1>2, <1>3, <1>4, InductionUpTo
  <2> QED
    BY <2>1
<1>6. Good(total)
  <2> HIDE DEF Good
  <2> QED
    BY Zenon, <1>5
<1> QED
  BY Zenon, <1>6 DEF out

\* A group that is complete is one payload that was sent, or it has bytes of
\* two packets with the same id.
LEMMA PayloadSound ==
    ASSUME NEW total \in Nat \ {0}, NEW slots, NEW id, NEW snt \in Seq(Nat),
           \A i \in 0 .. total - 1 :
              \E p \in 1 .. Len(snt) : IdOf(p) = id /\ Holds(snt, slots[i], p, i, total)
    PROVE  LET out == Extended(slots, total)[total] IN
           \/ \E p \in 1 .. Len(snt) : out = Bytes(p, snt[p])
           \/ \E p, q \in PacketsOf(out) : p # q /\ IdOf(p) = IdOf(q)
<1> DEFINE Of(i, p) == IdOf(p) = id /\ Holds(snt, slots[i], p, i, total)
           from == [i \in 0 .. total - 1 |-> CHOOSE p \in 1 .. Len(snt) : Of(i, p)]
           out == Extended(slots, total)[total]
<1>1. \A i \in 0 .. total - 1 : from[i] \in 1 .. Len(snt) /\ Of(i, from[i])
  <2> TAKE i \in 0 .. total - 1
  <2>1. \E p \in 1 .. Len(snt) : Of(i, p)
    BY Zenon
  <2> HIDE DEF Of
  <2> QED
    BY Zenon, <2>1
<1> HIDE DEF from
<1>2. /\ out \in Seq(ByteSet)
      /\ Len(out) = snt[from[total - 1]]
      /\ Numbered(out, from, total)
  <2>1. \A i \in 0 .. total - 1 : Holds(snt, slots[i], from[i], i, total)
    BY Zenon, <1>1
  <2> QED
    BY Zenon, <2>1, ExtendedSound
<1> HIDE DEF out
<1>3. /\ \A x \in 1 .. Len(out) : \E i \in 0 .. total - 1 : out[x] = <<from[i], x>>
      /\ \A i \in 0 .. total - 1 : \E x \in 1 .. Len(out) : out[x] = <<from[i], x>>
  BY Zenon, <1>2 DEF Numbered
<1> DEFINE p == from[total - 1]
<1>4. total - 1 \in 0 .. total - 1
  OBVIOUS
<1>5. p \in 1 .. Len(snt) /\ IdOf(p) = id
  BY Zenon, <1>1, <1>4
<1>6. Len(out) = snt[p]
  BY Zenon, <1>2
<1> HIDE DEF p
<1>7. CASE \A i \in 0 .. total - 1 : from[i] = p
  <2>1. \A x \in 1 .. Len(out) : out[x] = <<p, x>>
    BY Zenon, <1>3, <1>7
  <2>2. out = [x \in 1 .. Len(out) |-> out[x]]
    BY <1>2
  <2>3. out = Bytes(p, snt[p])
    BY Zenon, <2>1, <2>2, <1>6 DEF Bytes
  <2> QED
    BY Zenon, <1>5, <2>3 DEF out
<1>8. CASE ~ \A i \in 0 .. total - 1 : from[i] = p
  <2>1. PICK i \in 0 .. total - 1 : from[i] # p
    BY Zenon, <1>8
  <2>2. \A j \in 0 .. total - 1 : from[j] \in PacketsOf(out)
    <3> TAKE j \in 0 .. total - 1
    <3>1. PICK x \in 1 .. Len(out) : out[x] = <<from[j], x>>
      BY Zenon, <1>3
    <3>2. x \in DOMAIN out
      BY <1>2
    <3>3. out[x][1] = from[j]
      BY <3>1
    <3> QED
      BY Zenon, <3>2, <3>3 DEF PacketsOf
  <2>3. from[i] \in PacketsOf(out) /\ p \in PacketsOf(out)
    BY Zenon, <2>2, <1>4 DEF p
  <2>4. IdOf(from[i]) = IdOf(p)
    BY Zenon, <1>1, <1>5
  <2> QED
    BY Zenon, <2>1, <2>3, <2>4 DEF out
<1> QED
  BY Zenon, <1>7, <1>8

\* The queue q holds the ids of K, each once.
InQueue(K, q) ==
    /\ q \in Seq(Nat)
    /\ \A i, j \in 1 .. Len(q) : q[i] = q[j] => i = j
    /\ \A i \in 1 .. Len(q) : q[i] \in K
    /\ \A x \in K : \E i \in 1 .. Len(q) : q[i] = x

\* Dropping the oldest.
LEMMA QueueTail ==
    ASSUME NEW K, NEW q, InQueue(K, q), q # << >>
    PROVE  Head(q) \in K /\ InQueue(K \ {Head(q)}, Tail(q))
<1> DEFINE t == Tail(q)
           h == Head(q)
<1>1. q \in Seq(Nat) /\ Len(q) \in Nat \ {0} /\ h = q[1] /\ 1 \in 1 .. Len(q)
  BY DEF InQueue
<1>2. t \in Seq(Nat) /\ Len(t) = Len(q) - 1 /\ \A i \in 1 .. Len(t) : t[i] = q[i + 1]
  BY <1>1
<1>3. \A i, j \in 1 .. Len(q) : q[i] = q[j] => i = j
  BY Zenon DEF InQueue
<1> HIDE DEF t, h
<1>4. h \in K
  BY Zenon, <1>1 DEF InQueue
<1>5. ASSUME NEW i \in 1 .. Len(t), NEW j \in 1 .. Len(t), t[i] = t[j] PROVE i = j
  <2>1. i + 1 \in 1 .. Len(q) /\ j + 1 \in 1 .. Len(q)
    BY <1>1, <1>2
  <2>2. i + 1 = j + 1
    BY SMTT(30), <2>1, <1>2, <1>3, <1>5
  <2> QED
    BY <2>2
<1>6. ASSUME NEW i \in 1 .. Len(t) PROVE t[i] \in K \ {h}
  <2>1. i + 1 \in 1 .. Len(q) /\ i + 1 # 1 /\ t[i] = q[i + 1]
    BY <1>1, <1>2
  <2>2. q[i + 1] # q[1]
    BY Zenon, <2>1, <1>1, <1>3
  <2> QED
    BY Zenon, <2>1, <2>2, <1>1 DEF InQueue
<1>7. ASSUME NEW x \in K \ {h} PROVE \E i \in 1 .. Len(t) : t[i] = x
  <2>1. PICK i \in 1 .. Len(q) : q[i] = x
    BY Zenon DEF InQueue
  <2>2. i # 1
    BY Zenon, <2>1, <1>1
  <2>3. i - 1 \in 1 .. Len(t) /\ (i - 1) + 1 = i
    BY <2>2, <1>1, <1>2
  <2>4. t[i - 1] = x
    BY Zenon, <2>1, <2>3, <1>2
  <2> QED
    BY Zenon, <2>3, <2>4
<1>8. InQueue(K \ {h}, t)
  BY Zenon, <1>2, <1>5, <1>6, <1>7 DEF InQueue
<1> QED
  BY Zenon, <1>4, <1>8 DEF t, h

\* A new id goes to the back.
LEMMA QueueAppend ==
    ASSUME NEW K, NEW q, NEW id \in Nat, InQueue(K, q), id \notin K
    PROVE  InQueue(K \cup {id}, Append(q, id))
<1> DEFINE a == Append(q, id)
           n == Len(q) + 1
<1>1. /\ a \in Seq(Nat) /\ Len(a) = n /\ a[n] = id /\ n \in Nat
      /\ \A i \in 1 .. Len(q) : a[i] = q[i]
  BY DEF InQueue
<1>2. \A i \in 1 .. n : i \in 1 .. Len(q) \/ i = n
  BY DEF InQueue
<1>3. \A i \in 1 .. Len(q) : i \in 1 .. n /\ q[i] \in K /\ q[i] # id
  BY DEF InQueue
<1>4. n \in 1 .. n
  BY DEF InQueue
<1> HIDE DEF a, n
<1>5. ASSUME NEW i \in 1 .. n, NEW j \in 1 .. n, a[i] = a[j] PROVE i = j
  <2>1. \A k, m \in 1 .. Len(q) : q[k] = q[m] => k = m
    BY Zenon DEF InQueue
  <2>2. CASE i = n
    <3>1. j \notin 1 .. Len(q)
      BY Zenon, <2>2, <1>1, <1>3, <1>5
    <3> QED
      BY Zenon, <2>2, <3>1, <1>2
  <2>3. CASE j = n
    <3>1. i \notin 1 .. Len(q)
      BY Zenon, <2>3, <1>1, <1>3, <1>5
    <3> QED
      BY Zenon, <2>3, <3>1, <1>2
  <2>4. CASE i \in 1 .. Len(q) /\ j \in 1 .. Len(q)
    BY Zenon, <2>1, <2>4, <1>1, <1>5
  <2> QED
    BY Zenon, <2>2, <2>3, <2>4, <1>2
<1>6. ASSUME NEW i \in 1 .. n PROVE a[i] \in K \cup {id}
  BY Zenon, <1>1, <1>2, <1>3
<1>7. ASSUME NEW x \in K \cup {id} PROVE \E i \in 1 .. n : a[i] = x
  <2>1. CASE x = id
    BY Zenon, <2>1, <1>1, <1>4
  <2>2. CASE x \in K
    <3>1. PICK i \in 1 .. Len(q) : q[i] = x
      BY Zenon, <2>2 DEF InQueue
    <3> QED
      BY Zenon, <3>1, <1>1, <1>3
  <2> QED
    BY Zenon, <2>1, <2>2
<1>8. InQueue(K \cup {id}, a)
  BY Zenon, <1>1, <1>5, <1>6, <1>7 DEF InQueue
<1> QED
  BY Zenon, <1>8 DEF a

\* A group that is complete leaves the queue.
LEMMA QueueForget ==
    ASSUME NEW K, NEW q, NEW id \in K, InQueue(K, q)
    PROVE  InQueue(K \ {id}, forget_done(q, id))
<1> DEFINE at == {i \in DOMAIN q : q[i] = id}
           pos == CHOOSE i \in at : \A j \in at : i <= j
           before == SubSeq(q, 1, pos - 1)
           right == SubSeq(q, pos + 1, Len(q))
           r == before \o right
<1>1. q \in Seq(Nat) /\ Len(q) \in Nat /\ DOMAIN q = 1 .. Len(q)
  BY DEF InQueue
<1>2. \A i, j \in 1 .. Len(q) : q[i] = q[j] => i = j
  BY Zenon DEF InQueue
<1>3. PICK p \in 1 .. Len(q) : q[p] = id
  BY Zenon DEF InQueue
<1>4. at = {p}
  BY Zenon, <1>1, <1>2, <1>3
<1>5. pos = p
  <2>1. p \in at /\ \A j \in at : p <= j
    BY <1>4, <1>3
  <2> HIDE DEF at
  <2> QED
    BY Zenon, <2>1, <1>4
<1>6. forget_done(q, id) = r
  <2>1. at # {}
    BY Zenon, <1>4
  <2> QED
    BY Zenon, <2>1 DEF forget_done
<1> HIDE DEF at, pos
<1>7. /\ before \in Seq(Nat) /\ Len(before) = p - 1
      /\ \A i \in 1 .. p - 1 : before[i] = q[i]
  <2>1. before = SubSeq(q, 1, p - 1)
    BY Zenon, <1>5
  <2> DEFINE m == p - 1
  <2>2. m \in Nat /\ \A i \in 1 .. m : q[i] \in Nat
    BY <1>1, <1>3
  <2>3. before = SubSeq(q, 1, m)
    BY Zenon, <2>1
  <2> HIDE DEF m, before
  <2>4. before \in Seq(Nat) /\ Len(before) = m /\ \A i \in 1 .. m : before[i] = q[i]
    BY <2>2, <2>3, PieceOf
  <2> QED
    BY Zenon, <2>4 DEF m
<1>8. /\ right \in Seq(Nat) /\ Len(right) = Len(q) - p
      /\ \A i \in 1 .. Len(q) - p : right[i] = q[p + i]
  <2>1. right = SubSeq(q, p + 1, Len(q))
    BY Zenon, <1>5
  <2> DEFINE m == p + 1
             n == Len(q)
  <2>2. m \in Nat /\ n \in Nat /\ m <= n + 1 /\ \A i \in m .. n : q[i] \in Nat
    BY <1>1, <1>3
  <2>3. right = SubSeq(q, m, n)
    BY Zenon, <2>1
  <2> HIDE DEF m, n, right
  <2>4. /\ right \in Seq(Nat) /\ Len(right) = n - m + 1
        /\ \A i \in 1 .. n - m + 1 : right[i] = q[m + i - 1]
    BY <2>2, <2>3, PieceOf
  <2>5. n - m + 1 = Len(q) - p /\ \A i \in Nat : m + i - 1 = p + i
    BY <1>1, <1>3 DEF m, n
  <2>6. right \in Seq(Nat) /\ Len(right) = Len(q) - p
    BY Zenon, <2>4, <2>5
  <2>7. ASSUME NEW i \in 1 .. Len(q) - p
        PROVE  right[i] = q[p + i]
    <3>1. i \in 1 .. n - m + 1
      BY Zenon, <2>5
    <3>2. i \in Nat
      BY <1>1, <1>3
    <3>3. right[i] = q[m + i - 1]
      BY Zenon, <2>4, <3>1
    <3> QED
      BY Zenon, <2>5, <3>2, <3>3
  <2> QED
    BY Zenon, <2>6, <2>7
<1> HIDE DEF before, right
<1> DEFINE n == Len(q) - 1
           Src(i) == IF i < p THEN i ELSE i + 1
<1>0. /\ r \in Seq(Nat) /\ Len(r) = Len(before) + Len(right)
      /\ \A i \in 1 .. Len(before) : r[i] = before[i]
      /\ \A i \in 1 .. Len(right) : r[Len(before) + i] = right[i]
  <2>1. before \in Seq(Nat) /\ right \in Seq(Nat)
    BY Zenon, <1>7, <1>8
  <2> QED
    BY <2>1, BehindIs
<1> HIDE DEF r
<1>9. r \in Seq(Nat) /\ Len(r) = n /\ n \in Nat
  BY <1>0, <1>1, <1>3, <1>7, <1>8
<1>10. \A i \in 1 .. n : Src(i) \in 1 .. Len(q) /\ Src(i) # p /\ r[i] = q[Src(i)]
  <2> TAKE i \in 1 .. n
  <2>1. CASE i < p
    <3>1. i \in 1 .. Len(before) /\ i \in 1 .. p - 1 /\ i \in 1 .. Len(q) /\ i # p
      BY SMTT(30), <2>1, <1>1, <1>3, <1>7
    <3>2. r[i] = q[i]
      BY SMTT(30), <3>1, <1>0, <1>7
    <3> QED
      BY Zenon, <2>1, <3>1, <3>2
  <2>2. CASE ~(i < p)
    <3>1. i - (p - 1) \in 1 .. Len(q) - p /\ p + (i - (p - 1)) = i + 1 /\ i + 1 \in 1 .. Len(q)
      BY <2>2, <1>1, <1>3
    <3>2. r[i] = right[i - (p - 1)]
      <4>1. i - (p - 1) \in 1 .. Len(right) /\ Len(before) + (i - (p - 1)) = i
        BY <3>1, <1>3, <1>7, <1>8
      <4> QED
        BY Zenon, <4>1, <1>0
    <3>3. r[i] = q[i + 1]
      BY SMTT(30), <3>1, <3>2, <1>8
    <3> QED
      BY <3>1, <3>3, <2>2, <1>3
  <2> QED
    BY Zenon, <2>1, <2>2
<1>11. \A k \in 1 .. Len(q) : k # p => \E i \in 1 .. n : Src(i) = k
  <2> SUFFICES ASSUME NEW k \in 1 .. Len(q), k # p PROVE \E i \in 1 .. n : Src(i) = k
    BY Zenon
  <2>1. CASE k < p
    <3>1. k \in 1 .. n /\ Src(k) = k
      BY <2>1, <1>3, <1>1
    <3> QED
      BY Zenon, <3>1
  <2>2. CASE k > p
    <3>1. k - 1 \in 1 .. n /\ Src(k - 1) = k
      BY <2>2, <1>3, <1>1
    <3> QED
      BY Zenon, <3>1
  <2> QED
    BY <2>1, <2>2, <1>3, <1>1
<1>12. \A i, j \in 1 .. n : Src(i) = Src(j) => i = j
  BY <1>1, <1>3
<1> HIDE DEF Src, n
<1>13. ASSUME NEW i \in 1 .. n, NEW j \in 1 .. n, r[i] = r[j] PROVE i = j
  BY Zenon, <1>2, <1>10, <1>12, <1>13
<1>14. ASSUME NEW i \in 1 .. n PROVE r[i] \in K \ {id}
  BY SMTT(30), SMTT(30), <1>2, <1>3, <1>10 DEF InQueue
<1>15. ASSUME NEW x \in K \ {id} PROVE \E i \in 1 .. n : r[i] = x
  <2>1. PICK k \in 1 .. Len(q) : q[k] = x
    BY Zenon DEF InQueue
  <2>2. k # p
    BY Zenon, <2>1, <1>3
  <2> QED
    BY Zenon, <2>1, <2>2, <1>10, <1>11
<1>16. InQueue(K \ {id}, r)
  BY Zenon, <1>9, <1>13, <1>14, <1>15 DEF InQueue
<1> QED
  BY Zenon, <1>6, <1>16 DEF r

\* What is sent only grows.
Grown(a, b) ==
    /\ a \in Seq(Nat) /\ b \in Seq(Nat) /\ Len(a) <= Len(b)
    /\ \A p \in 1 .. Len(a) : b[p] = a[p]

\* Packet p goes out under id, in total fragments.
IsSent(snt, p, id, total) ==
    p \in 1 .. Len(snt) /\ snt[p] # 0 /\ IdOf(p) = id /\ Total(snt[p]) = total

\* A fragment is what the sender made of a packet.
Piece(snt, f) ==
    \E p \in 1 .. Len(snt) : \E i \in 0 .. Total(snt[p]) - 1 :
       /\ snt[p] # 0
       /\ f = [hdr |-> FragmentHeader(IdOf(p), i, Total(snt[p])), body |-> Body(snt, p, i)]

\* A slot of a group waits, or holds the body of a packet with the id.
SlotOK(snt, slot, id, i, total) ==
    \/ slot = << >>
    \/ \E p \in 1 .. Len(snt) : IdOf(p) = id /\ Holds(snt, slot, p, i, total)

\* A group has a slot for each fragment of a packet that was sent.
GroupOK(snt, g, id) ==
    /\ g = [total |-> g.total, slots |-> g.slots]
    /\ g.total \in Nat \ {0}
    /\ g.slots = [i \in 0 .. g.total - 1 |-> g.slots[i]]
    /\ \A i \in 0 .. g.total - 1 : SlotOK(snt, g.slots[i], id, i, g.total)
    /\ \E p \in 1 .. Len(snt) : IsSent(snt, p, id, g.total)

\* The groups and the queue that push works on.
GroupsOK(snt, groups, queue) ==
    /\ \A id \in DOMAIN groups : GroupOK(snt, groups[id], id)
    /\ InQueue(DOMAIN groups, queue)
    /\ IsFiniteSet(DOMAIN groups)
    /\ Cardinality(DOMAIN groups) <= in_flight_limit

\* What push answers.
ResultOK(snt, r) ==
    /\ r.tag = "done" =>
          \/ \E p \in 1 .. Len(snt) : r.payload = Bytes(p, snt[p])
          \/ \E p, q \in PacketsOf(r.payload) : p # q /\ IdOf(p) = IdOf(q)
    /\ r.tag = "err" => Len(snt) > IdSpace

\* The inductive invariant.
FragInv ==
    /\ sent \in Seq(Nat)
    /\ \A f \in wire : Piece(sent, f)
    /\ GroupsOK(sent, in_flight, order)
    /\ ResultOK(sent, result)

\* A packet sent once is the same packet for ever.
LEMMA GrownHolds ==
    ASSUME NEW a, NEW b, Grown(a, b), NEW p \in 1 .. Len(a)
    PROVE  /\ p \in 1 .. Len(b) /\ b[p] = a[p]
           /\ \A i : Body(b, p, i) = Body(a, p, i)
           /\ \A slot, i, total : Holds(a, slot, p, i, total) => Holds(b, slot, p, i, total)
           /\ \A id, total : IsSent(a, p, id, total) => IsSent(b, p, id, total)
<1>1. p \in 1 .. Len(b) /\ b[p] = a[p]
  <2>1. Len(a) \in Nat /\ Len(b) \in Nat /\ Len(a) <= Len(b) /\ b[p] = a[p]
    BY DEF Grown
  <2> QED
    BY <2>1
<1>2. \A i : Body(b, p, i) = Body(a, p, i)
  BY Zenon, <1>1 DEF Body
<1> QED
  BY Zenon, <1>1, <1>2 DEF Holds, IsSent

\* So is a fragment,
LEMMA GrownPiece ==
    ASSUME NEW a, NEW b, Grown(a, b), NEW f, Piece(a, f)
    PROVE  Piece(b, f)
<1>1. PICK p \in 1 .. Len(a) : \E i \in 0 .. Total(a[p]) - 1 :
         /\ a[p] # 0
         /\ f = [hdr |-> FragmentHeader(IdOf(p), i, Total(a[p])), body |-> Body(a, p, i)]
  BY Zenon DEF Piece
<1>2. p \in 1 .. Len(b) /\ b[p] = a[p] /\ \A i : Body(b, p, i) = Body(a, p, i)
  <2>1. p \in 1 .. Len(b) /\ b[p] = a[p]
    <3>1. Len(a) \in Nat /\ Len(b) \in Nat /\ Len(a) <= Len(b) /\ b[p] = a[p]
      BY DEF Grown
    <3> QED
      BY <3>1
  <2>2. ASSUME NEW i PROVE Body(b, p, i) = Body(a, p, i)
    BY Zenon, <2>1 DEF Body
  <2> QED
    BY Zenon, <2>1, <2>2
<1> QED
  BY Zenon, <1>1, <1>2 DEF Piece

\* what a group holds,
LEMMA GrownGroups ==
    ASSUME NEW a, NEW b, Grown(a, b), NEW groups, NEW queue, GroupsOK(a, groups, queue)
    PROVE  GroupsOK(b, groups, queue)
<1> SUFFICES ASSUME NEW id \in DOMAIN groups PROVE GroupOK(b, groups[id], id)
  BY Zenon DEF GroupsOK
<1> DEFINE g == groups[id]
<1>1. GroupOK(a, g, id)
  BY Zenon DEF GroupsOK
<1> HIDE DEF g
<1>2. ASSUME NEW i \in 0 .. g.total - 1 PROVE SlotOK(b, g.slots[i], id, i, g.total)
  <2>1. SlotOK(a, g.slots[i], id, i, g.total)
    BY Zenon, <1>1 DEF GroupOK
  <2>2. ASSUME NEW p \in 1 .. Len(a), Holds(a, g.slots[i], p, i, g.total)
        PROVE  p \in 1 .. Len(b) /\ Holds(b, g.slots[i], p, i, g.total)
    BY Zenon, <2>2, GrownHolds
  <2> QED
    BY Zenon, <2>1, <2>2 DEF SlotOK
<1>3. \E p \in 1 .. Len(b) : IsSent(b, p, id, g.total)
  BY ZenonT(30), <1>1, GrownHolds DEF GroupOK
<1>4. GroupOK(b, g, id)
  BY Zenon, <1>1, <1>2, <1>3 DEF GroupOK
<1> QED
  BY Zenon, <1>4 DEF g

\* and an answer.
LEMMA GrownResult ==
    ASSUME NEW a, NEW b, Grown(a, b), NEW r, ResultOK(a, r)
    PROVE  ResultOK(b, r)
<1>1. r.tag = "err" => Len(b) > IdSpace
  BY FragmentAssumption DEF ResultOK, Grown
<1>2. ASSUME NEW p \in 1 .. Len(a), r.payload = Bytes(p, a[p])
      PROVE  \E q \in 1 .. Len(b) : r.payload = Bytes(q, b[q])
  BY Zenon, <1>2, GrownHolds
<1> QED
  BY Zenon, <1>1, <1>2 DEF ResultOK

\* Packets with the same id are one packet as long as ids have not come
\* round.
LEMMA IdsUnique ==
    ASSUME NEW snt \in Seq(Nat), Len(snt) <= IdSpace,
           NEW p \in 1 .. Len(snt), NEW q \in 1 .. Len(snt), IdOf(p) = IdOf(q)
    PROVE  p = q
<1>1. IdSpace \in Nat \ {0} /\ Len(snt) \in Nat /\ p \in Nat /\ q \in Nat
  BY FragmentAssumption
<1>2. p < q => p % IdSpace # q % IdSpace
  BY <1>1, RemaindersDiffer
<1>3. q < p => q % IdSpace # p % IdSpace
  BY <1>1, RemaindersDiffer
<1> QED
  BY <1>1, <1>2, <1>3 DEF IdOf

\* An id is a number.
LEMMA IdIsNat == \A p \in Nat : IdOf(p) \in Nat
<1> SUFFICES ASSUME NEW p \in Nat PROVE IdOf(p) \in Nat
  BY Zenon
<1>1. p % IdSpace \in 0 .. IdSpace - 1
  BY FragmentAssumption, ModRange
<1> QED
  BY <1>1, FragmentAssumption DEF IdOf

\* At first there is nothing.
LEMMA FragInitInv == FragInit => FragInv
<1> SUFFICES ASSUME FragInit PROVE FragInv
  BY Zenon
<1>1. sent = << >> /\ wire = {} /\ in_flight = << >> /\ order = << >> /\ result = [tag |-> "none"]
  BY Zenon DEF FragInit
<1>2. DOMAIN in_flight = {}
  BY <1>1
<1>3. IsFiniteSet({}) /\ Cardinality({}) = 0
  BY Zenon, FS_EmptySet
<1>4. GroupsOK(sent, in_flight, order)
  BY <1>1, <1>2, <1>3, FragmentAssumption DEF GroupsOK, InQueue
<1>5. ResultOK(sent, result)
  BY Zenon, <1>1 DEF ResultOK
<1> QED
  BY <1>1, <1>4, <1>5 DEF FragInv

\* The groups after the eviction and the insertion: the group of the fragment
\* is there, and the queue has made room for it.
LEMMA AdmittedOK ==
    ASSUME sent \in Seq(Nat), GroupsOK(sent, in_flight, order),
           NEW hdr, NEW p \in Nat, IsSent(sent, p, hdr.id, hdr.total)
    PROVE  LET adm == Admitted(hdr)
           IN  hdr.id \in DOMAIN adm.groups /\ GroupsOK(sent, adm.groups, adm.queue)
<1> DEFINE id == hdr.id
           total == hdr.total
           K == DOMAIN in_flight
           adm == Admitted(hdr)
<1>1. /\ \A x \in K : GroupOK(sent, in_flight[x], x)
      /\ InQueue(K, order) /\ IsFiniteSet(K) /\ Cardinality(K) <= in_flight_limit
  BY Zenon DEF GroupsOK
<1>2. p \in 1 .. Len(sent) /\ sent[p] # 0 /\ id = IdOf(p) /\ total = Total(sent[p])
  BY Zenon DEF IsSent
<1>3. id \in Nat /\ total \in Nat \ {0}
  <2>1. sent[p] \in Nat \ {0}
    BY <1>2
  <2>2. IdOf(p) \in Nat /\ Total(sent[p]) \in Nat \ {0}
    BY Zenon, <2>1, IdIsNat, TotalIs
  <2> QED
    BY Zenon, <2>2, <1>2
<1>4. CASE id \in K
  <2>1. adm = [groups |-> in_flight, queue |-> order]
    BY Zenon, <1>4 DEF Admitted, Known
  <2>2. adm.groups = in_flight /\ adm.queue = order
    BY <2>1
  <2> QED
    BY Zenon, <1>4, <2>2
<1>5. CASE id \notin K
  <2> DEFINE victim == IF evicts(id) /\ order # << >> THEN {Head(order)} ELSE {}
             rest   == IF victim = {} THEN order ELSE Tail(order)
             fresh  == [total |-> total, slots |-> [i \in 0 .. total - 1 |-> << >>]]
             L      == K \ victim
             groups == [x \in L \cup {id} |-> IF x = id THEN fresh ELSE in_flight[x]]
             queue  == Append(rest, id)
  <2>1. adm.groups = groups /\ adm.queue = queue
    <3>1. adm = [groups |-> groups, queue |-> queue]
      BY Zenon, <1>5 DEF Admitted, Known
    <3> HIDE DEF groups, queue, adm
    <3> QED
      BY Zenon, <3>1
  <2>2. GroupOK(sent, fresh, id)
    <3>1. fresh.total = total /\ fresh.slots = [i \in 0 .. total - 1 |-> << >>]
      BY Zenon
    <3>2. fresh = [total |-> fresh.total, slots |-> fresh.slots]
      BY Zenon
    <3>3. fresh.slots = [i \in 0 .. fresh.total - 1 |-> fresh.slots[i]]
      BY Zenon, <3>1
    <3>4. \A i \in 0 .. fresh.total - 1 : fresh.slots[i] = << >>
      BY Zenon, <3>1
    <3>5. fresh.total \in Nat \ {0}
      BY Zenon, <3>1, <1>3
    <3>6. \E q \in 1 .. Len(sent) : IsSent(sent, q, id, fresh.total)
      BY Zenon, <3>1, <1>2
    <3> HIDE DEF fresh
    <3> QED
      BY Zenon, <3>2, <3>3, <3>4, <3>5, <3>6 DEF GroupOK, SlotOK
  <2>3. /\ InQueue(L, rest) /\ IsFiniteSet(L) /\ Cardinality(L) + 1 <= in_flight_limit
        /\ Cardinality(L) \in Nat
    <3>0. in_flight_limit \in Nat \ {0} /\ Cardinality(K) \in Nat
      BY Zenon, <1>1, FragmentAssumption, FS_CardinalityType
    <3>1. CASE ~(Cardinality(K) >= in_flight_limit)
      <4>1. victim = {}
        BY Zenon, <3>1 DEF evicts, Known
      <4>2. L = K /\ rest = order
        BY Zenon, <4>1
      <4>3. Cardinality(K) + 1 <= in_flight_limit
        BY <3>0, <3>1
      <4> QED
        BY Zenon, <4>2, <4>3, <3>0, <1>1
    <3>2. CASE Cardinality(K) >= in_flight_limit
      <4>1. order # << >>
        <5>1. K # {}
          <6>1. Cardinality(K) # 0
            BY <3>0, <3>2
          <6>2. Cardinality({}) = 0
            BY Zenon, FS_EmptySet
          <6> HIDE DEF K
          <6> QED
            BY Zenon, <6>1, <6>2
        <5>2. PICK x \in K : TRUE
          BY Zenon, <5>1
        <5>3. PICK i \in 1 .. Len(order) : order[i] = x
          BY Zenon, <1>1 DEF InQueue
        <5> QED
          BY <5>3
      <4>2. victim = {Head(order)}
        BY Zenon, <3>2, <4>1, <1>5 DEF evicts, Known
      <4>3. rest = Tail(order)
        BY Zenon, <4>2
      <4>4. Head(order) \in K /\ InQueue(K \ {Head(order)}, Tail(order))
        BY Zenon, <4>1, <1>1, QueueTail
      <4>5. IsFiniteSet(K \ {Head(order)}) /\ Cardinality(K \ {Head(order)}) = Cardinality(K) - 1
        BY SMTT(30), <4>4, <1>1, FS_RemoveElement
      <4>6. L = K \ {Head(order)}
        BY Zenon, <4>2
      <4> HIDE DEF L, rest
      <4>7. Cardinality(L) = Cardinality(K) - 1 /\ IsFiniteSet(L) /\ InQueue(L, rest)
        BY Zenon, <4>3, <4>4, <4>5, <4>6
      <4>8. Cardinality(L) \in Nat
        BY Zenon, <4>7, FS_CardinalityType
      <4> QED
        BY <4>7, <4>8, <1>1, <3>0
    <3> QED
      BY Zenon, <3>1, <3>2
  <2>4. L \subseteq K /\ id \notin L
    BY Zenon, <1>5
  <2> HIDE DEF L, rest, fresh
  <2>5. DOMAIN groups = L \cup {id}
    BY Zenon
  <2>6. InQueue(L \cup {id}, queue)
    BY Zenon, <2>3, <2>4, <1>3, QueueAppend
  <2>7. IsFiniteSet(L \cup {id}) /\ Cardinality(L \cup {id}) <= in_flight_limit
    <3>1. IsFiniteSet(L \cup {id})
      BY Zenon, <2>3, FS_AddElement
    <3>2. Cardinality(L \cup {id}) = IF id \in L THEN Cardinality(L) ELSE Cardinality(L) + 1
      BY Zenon, <2>3, FS_AddElement
    <3>3. Cardinality(L \cup {id}) = Cardinality(L) + 1
      BY Zenon, <3>2, <2>4
    <3> QED
      BY Zenon, <3>1, <3>3, <2>3
  <2>8. ASSUME NEW x \in L \cup {id} PROVE GroupOK(sent, groups[x], x)
    <3>1. CASE x = id
      <4>1. groups[x] = fresh
        BY Zenon, <3>1
      <4> QED
        BY Zenon, <2>2, <3>1, <4>1
    <3>2. CASE x # id
      <4>1. x \in K /\ groups[x] = in_flight[x]
        BY Zenon, <3>2, <2>4
      <4> QED
        BY Zenon, <4>1, <1>1
    <3> QED
      BY Zenon, <3>1, <3>2
  <2> HIDE DEF groups, queue
  <2>9. GroupsOK(sent, groups, queue)
    BY Zenon, <2>5, <2>6, <2>7, <2>8 DEF GroupsOK
  <2>10. id \in DOMAIN groups
    BY Zenon, <2>5
  <2> QED
    BY Zenon, <2>1, <2>9, <2>10
<1> QED
  BY Zenon, <1>4, <1>5

\* A fragment joins its group.
LEMMA JoinedOK ==
    ASSUME NEW snt, NEW g, NEW id, GroupOK(snt, g, id),
           NEW i \in 0 .. g.total - 1, NEW p \in 1 .. Len(snt), IdOf(p) = id,
           Holds(snt, <<Body(snt, p, i)>>, p, i, g.total)
    PROVE  LET slots == [g.slots EXCEPT ![i] = <<Body(snt, p, i)>>]
               h == [g EXCEPT !.slots = slots]
           IN  GroupOK(snt, h, id) /\ h.slots = slots /\ h.total = g.total
<1> DEFINE body == <<Body(snt, p, i)>>
           slots == [g.slots EXCEPT ![i] = body]
           total == g.total
           h == [g EXCEPT !.slots = slots]
<1>1. /\ g = [total |-> g.total, slots |-> g.slots] /\ total \in Nat \ {0}
      /\ g.slots = [k \in 0 .. total - 1 |-> g.slots[k]]
      /\ \A k \in 0 .. total - 1 : SlotOK(snt, g.slots[k], id, k, total)
      /\ \E q \in 1 .. Len(snt) : IsSent(snt, q, id, total)
  BY Zenon DEF GroupOK
<1>2. SlotOK(snt, body, id, i, total)
  BY Zenon DEF SlotOK
<1> HIDE DEF body
<1>3. /\ slots = [k \in 0 .. total - 1 |-> slots[k]]
      /\ slots[i] = body /\ \A k \in 0 .. total - 1 : k # i => slots[k] = g.slots[k]
  BY Zenon, <1>1
<1> HIDE DEF slots
<1>4. h = [total |-> total, slots |-> slots]
  BY <1>1
<1>5. h.total = total /\ h.slots = slots
  BY Zenon, <1>4
<1>6. ASSUME NEW k \in 0 .. total - 1 PROVE SlotOK(snt, slots[k], id, k, total)
  BY Zenon, <1>1, <1>2, <1>3
<1> HIDE DEF h, total
<1>7. GroupOK(snt, h, id)
  BY Zenon, <1>1, <1>3, <1>4, <1>5, <1>6 DEF GroupOK
<1> QED
  BY Zenon, <1>5, <1>7 DEF h, slots, body, total

\* A group leaves.
LEMMA LeavesOK ==
    ASSUME NEW snt, NEW groups, NEW queue, GroupsOK(snt, groups, queue), NEW id \in DOMAIN groups
    PROVE  GroupsOK(snt, [x \in DOMAIN groups \ {id} |-> groups[x]], forget_done(queue, id))
<1> DEFINE K == DOMAIN groups
           L == K \ {id}
           before == [x \in L |-> groups[x]]
<1>1. InQueue(L, forget_done(queue, id))
  BY Zenon, QueueForget DEF GroupsOK
<1>2. IsFiniteSet(K) /\ Cardinality(K) <= in_flight_limit
  BY Zenon DEF GroupsOK
<1>3. IsFiniteSet(L) /\ Cardinality(L) = Cardinality(K) - 1 /\ Cardinality(K) \in Nat
  <2>1. IsFiniteSet(L) /\ Cardinality(L) = IF id \in K THEN Cardinality(K) - 1 ELSE Cardinality(K)
    BY Zenon, <1>2, FS_RemoveElement
  <2>2. Cardinality(K) \in Nat
    BY Zenon, <1>2, FS_CardinalityType
  <2> QED
    BY Zenon, <2>1, <2>2
<1>4. Cardinality(L) <= in_flight_limit
  BY <1>2, <1>3, FragmentAssumption
<1>5. DOMAIN before = L /\ \A x \in L : before[x] = groups[x] /\ x \in K
  BY Zenon
<1> HIDE DEF before
<1>6. GroupsOK(snt, before, forget_done(queue, id))
  BY Zenon, <1>1, <1>3, <1>4, <1>5 DEF GroupsOK
<1> QED
  BY Zenon, <1>6 DEF before

\* push, on every path.
LEMMA PushInv ==
    ASSUME FragInv, NEW f \in wire, push_fragment(f)
    PROVE  FragInv'
<1> DEFINE adm   == Admitted(f.hdr)
           id    == f.hdr.id
           i     == f.hdr.offset
           total == f.hdr.total
           group == adm.groups[id]
           slots == [group.slots EXCEPT ![i] = <<f.body>>]
<1>1. sent' = sent /\ wire' = wire
  BY Zenon DEF push_fragment
<1>2. sent \in Seq(Nat) /\ Piece(sent, f) /\ GroupsOK(sent, in_flight, order)
  BY Zenon DEF FragInv
<1>3. PICK p \in 1 .. Len(sent) : \E k \in 0 .. Total(sent[p]) - 1 :
         /\ sent[p] # 0
         /\ f = [hdr |-> FragmentHeader(IdOf(p), k, Total(sent[p])), body |-> Body(sent, p, k)]
  BY Zenon, <1>2 DEF Piece
<1>4. /\ i \in 0 .. total - 1 /\ sent[p] # 0 /\ id = IdOf(p) /\ total = Total(sent[p])
      /\ f.body = Body(sent, p, i)
  BY <1>3 DEF FragmentHeader
<1>5. IsSent(sent, p, id, total) /\ Holds(sent, <<f.body>>, p, i, total)
  BY Zenon, <1>4 DEF IsSent, Holds
<1>6. p \in Nat
  BY <1>2
<1>7. id \in DOMAIN adm.groups /\ GroupsOK(sent, adm.groups, adm.queue)
  BY Zenon, <1>2, <1>5, <1>6, AdmittedOK
<1>8. GroupOK(sent, group, id)
  BY Zenon, <1>7 DEF GroupsOK
<1> SUFFICES GroupsOK(sent, in_flight', order') /\ ResultOK(sent, result')
  BY Zenon, <1>1 DEF FragInv
<1>9. CASE /\ group.total # total /\ Err("MismatchedTotal")
           /\ in_flight' = adm.groups /\ order' = adm.queue
  <2>1. Len(sent) > IdSpace
    <3> SUFFICES ASSUME Len(sent) <= IdSpace PROVE FALSE
      BY <1>2, FragmentAssumption
    <3>1. PICK q \in 1 .. Len(sent) : IsSent(sent, q, id, group.total)
      BY Zenon, <1>8 DEF GroupOK
    <3>2. IdOf(q) = IdOf(p)
      BY Zenon, <3>1, <1>4 DEF IsSent
    <3>3. q = p
      BY Zenon, <3>2, <1>2, IdsUnique
    <3> QED
      BY Zenon, <3>1, <3>3, <1>4, <1>9 DEF IsSent
  <2>2. result' = [tag |-> "err", error |-> "MismatchedTotal"]
    BY Zenon, <1>9 DEF Err
  <2>3. ResultOK(sent, result')
    BY Zenon, <2>1, <2>2 DEF ResultOK
  <2> QED
    BY Zenon, <2>3, <1>7, <1>9
<1>10. CASE /\ group.total = total /\ conflicts(group, f) /\ Err("Inconsistent")
            /\ in_flight' = adm.groups /\ order' = adm.queue
  <2>1. Len(sent) > IdSpace
    <3> SUFFICES ASSUME Len(sent) <= IdSpace PROVE FALSE
      BY <1>2, FragmentAssumption
    <3>1. group.slots[i] # << >> /\ group.slots[i] # <<f.body>>
      BY Zenon, <1>10 DEF conflicts
    <3>2. SlotOK(sent, group.slots[i], id, i, total)
      BY Zenon, <1>4, <1>8, <1>10 DEF GroupOK
    <3>3. PICK q \in 1 .. Len(sent) : IdOf(q) = id /\ Holds(sent, group.slots[i], q, i, total)
      BY Zenon, <3>1, <3>2 DEF SlotOK
    <3>4. q = p
      BY Zenon, <3>3, <1>2, <1>4, IdsUnique
    <3> QED
      BY Zenon, <3>1, <3>3, <3>4, <1>4 DEF Holds
  <2>2. result' = [tag |-> "err", error |-> "Inconsistent"]
    BY Zenon, <1>10 DEF Err
  <2>3. ResultOK(sent, result')
    BY Zenon, <2>1, <2>2 DEF ResultOK
  <2> QED
    BY Zenon, <2>3, <1>7, <1>10
<1> DEFINE joined == [group EXCEPT !.slots = slots]
<1>11. group.total = total => GroupOK(sent, joined, id) /\ joined.slots = slots /\ joined.total = total
  <2> SUFFICES ASSUME group.total = total
               PROVE  GroupOK(sent, joined, id) /\ joined.slots = slots /\ joined.total = total
    BY Zenon
  <2> DEFINE given == [group.slots EXCEPT ![i] = <<Body(sent, p, i)>>]
             h == [group EXCEPT !.slots = given]
  <2>1. /\ i \in 0 .. group.total - 1 /\ IdOf(p) = id
        /\ Holds(sent, <<Body(sent, p, i)>>, p, i, group.total)
    BY Zenon, <1>4, <1>5
  <2>2. slots = given
    BY Zenon, <1>4
  <2> HIDE DEF group, slots, total, id, i
  <2>3. GroupOK(sent, h, id) /\ h.slots = given /\ h.total = group.total
    BY <2>1, <1>8, JoinedOK
  <2>4. joined = h
    BY Zenon, <2>2
  <2> HIDE DEF joined, h, given
  <2> QED
    BY Zenon, <2>2, <2>3, <2>4
<1>12. CASE /\ group.total = total /\ result' = [tag |-> "more"]
            /\ in_flight' = [adm.groups EXCEPT ![id].slots = slots] /\ order' = adm.queue
  <2>1. /\ DOMAIN in_flight' = DOMAIN adm.groups
        /\ in_flight'[id] = joined
        /\ \A x \in DOMAIN adm.groups : x # id => in_flight'[x] = adm.groups[x]
    <3> HIDE DEF adm, slots, id
    <3> QED
      BY Zenon, <1>12, <1>7
  <2>2. GroupOK(sent, joined, id)
    BY Zenon, <1>11, <1>12
  <2>3. \A x \in DOMAIN adm.groups : GroupOK(sent, in_flight'[x], x)
    BY Zenon, <2>1, <2>2, <1>7 DEF GroupsOK
  <2>4. GroupsOK(sent, in_flight', order')
    BY Zenon, <2>1, <2>3, <1>7, <1>12 DEF GroupsOK
  <2>5. ResultOK(sent, result')
    BY Zenon, <1>12 DEF ResultOK
  <2> QED
    BY Zenon, <2>4, <2>5
<1>13. CASE /\ group.total = total /\ Filled(slots) = DOMAIN slots
            /\ result' = [tag |-> "done", payload |-> Extended(slots, total)[total]]
            /\ in_flight' = [x \in DOMAIN adm.groups \ {id} |-> adm.groups[x]]
            /\ order' = forget_done(adm.queue, id)
  <2>1. GroupsOK(sent, in_flight', order')
    BY Zenon, <1>7, <1>13, LeavesOK
  <2>2. GroupOK(sent, joined, id) /\ joined.slots = slots /\ joined.total = total
    BY Zenon, <1>11, <1>13
  <2> HIDE DEF slots, joined
  <2>3. /\ total \in Nat \ {0}
        /\ slots = [k \in 0 .. total - 1 |-> slots[k]]
        /\ \A k \in 0 .. total - 1 : SlotOK(sent, slots[k], id, k, total)
    BY Zenon, <2>2 DEF GroupOK
  <2>4. DOMAIN slots = 0 .. total - 1
    BY Zenon, <2>3
  <2>5. \A k \in 0 .. total - 1 : slots[k] # << >>
    BY Zenon, <2>4, <1>13 DEF Filled
  <2>6. \A k \in 0 .. total - 1 :
           \E q \in 1 .. Len(sent) : IdOf(q) = id /\ Holds(sent, slots[k], q, k, total)
    BY Zenon, <2>3, <2>5 DEF SlotOK
  <2> DEFINE out == Extended(slots, total)[total]
  <2>7. \/ \E q \in 1 .. Len(sent) : out = Bytes(q, sent[q])
        \/ \E q, r \in PacketsOf(out) : q # r /\ IdOf(q) = IdOf(r)
    <3> HIDE DEF total, id
    <3> QED
      BY Zenon, <2>3, <2>6, <1>2, PayloadSound
  <2>8. result' = [tag |-> "done", payload |-> out]
    BY Zenon, <1>13
  <2> HIDE DEF out
  <2>9. result'.tag = "done" /\ result'.payload = out
    BY Zenon, <2>8
  <2>10. ResultOK(sent, result')
    BY Zenon, <2>7, <2>9 DEF ResultOK
  <2> QED
    BY Zenon, <2>1, <2>10
<1> QED
  BY Zenon, <1>9, <1>10, <1>12, <1>13 DEF push_fragment

\* What is sent is cut as the invariant says.
LEMMA SendInv ==
    ASSUME FragInv, NEW len \in Lengths, send(len)
    PROVE  FragInv'
<1> DEFINE p == Len(sent) + 1
           payload == Bytes(p, len)
<1>1. sent \in Seq(Nat) /\ len \in Nat
  BY Zenon, FragmentAssumption DEF FragInv
<1>2. /\ sent' = Append(sent, len) /\ wire' = wire \cup fragment(payload, IdOf(p))
      /\ in_flight' = in_flight /\ order' = order /\ result' = result
  BY Zenon DEF send, Bytes
<1>3. Grown(sent, sent') /\ p \in 1 .. Len(sent') /\ sent'[p] = len
  BY <1>1, <1>2 DEF Grown
<1> HIDE DEF p
<1>4. ASSUME NEW f \in fragment(payload, IdOf(p)) PROVE Piece(sent', f)
  <2> DEFINE total == Total(len)
  <2>2. Len(payload) = len
    BY <1>1 DEF Bytes
  <2>3. payload # << >> /\ f \in {[hdr |-> FragmentHeader(IdOf(p), idx, total),
                                   body |-> chunk(payload, idx)] : idx \in 0 .. total - 1}
    BY Zenon, <1>4, <2>2 DEF fragment, Total
  <2>4. len # 0
    BY <2>3 DEF Bytes
  <2>5. PICK idx \in 0 .. total - 1 :
           f = [hdr |-> FragmentHeader(IdOf(p), idx, total), body |-> chunk(payload, idx)]
    BY Zenon, <2>3
  <2>6. chunk(payload, idx) = Body(sent', p, idx) /\ total = Total(sent'[p])
    BY Zenon, <1>3 DEF Body
  <2> QED
    BY Zenon, <1>3, <2>4, <2>5, <2>6 DEF Piece
<1>5. \A f \in wire' : Piece(sent', f)
  BY Zenon, <1>2, <1>3, <1>4, GrownPiece DEF FragInv
<1>6. GroupsOK(sent', in_flight', order')
  BY Zenon, <1>2, <1>3, GrownGroups DEF FragInv
<1>7. ResultOK(sent', result')
  BY Zenon, <1>2, <1>3, GrownResult DEF FragInv
<1> QED
  BY Zenon, <1>3, <1>5, <1>6, <1>7 DEF FragInv, Grown

\* clear leaves no group.
LEMMA ClearInv == FragInv /\ clear => FragInv'
<1> SUFFICES ASSUME FragInv, clear PROVE FragInv'
  BY Zenon
<1>1. /\ sent' = sent /\ wire' = wire /\ result' = result
      /\ in_flight' = << >> /\ order' = << >>
  BY Zenon DEF clear
<1>2. DOMAIN in_flight' = {}
  BY <1>1
<1>3. IsFiniteSet({}) /\ Cardinality({}) = 0
  BY Zenon, FS_EmptySet
<1>4. GroupsOK(sent', in_flight', order')
  BY <1>1, <1>2, <1>3, FragmentAssumption DEF GroupsOK, InQueue
<1> QED
  BY Zenon, <1>1, <1>4 DEF FragInv

\* Every step keeps the invariant.
LEMMA FragNextInv == FragInv /\ [FragNext]_frag_vars => FragInv'
<1> SUFFICES ASSUME FragInv, [FragNext]_frag_vars PROVE FragInv'
  BY Zenon
<1>1. CASE UNCHANGED frag_vars
  BY Zenon, <1>1 DEF FragInv, frag_vars
<1>2. CASE FragNext
  BY Zenon, <1>2, SendInv, PushInv, ClearInv DEF FragNext
<1> QED
  BY Zenon, <1>1, <1>2

\* The invariant gives the property.
LEMMA FragInvExact == FragInv => ReassemblyIsExact
<1> SUFFICES ASSUME FragInv PROVE ReassemblyIsExact
  BY Zenon
<1>1. ResultOK(sent, result) /\ GroupsOK(sent, in_flight, order)
  BY Zenon DEF FragInv
<1>2. InQueue(Known, order) /\ Cardinality(Known) <= in_flight_limit
  BY Zenon, <1>1 DEF GroupsOK, Known
<1>3. DOMAIN order = 1 .. Len(order)
  BY <1>2 DEF InQueue
<1>4. \A i, j \in DOMAIN order : order[i] = order[j] => i = j
  BY Zenon, <1>2, <1>3 DEF InQueue
<1>5. {order[i] : i \in DOMAIN order} = Known
  <2>1. /\ \A i \in DOMAIN order : order[i] \in Known
        /\ \A x \in Known : \E i \in DOMAIN order : order[i] = x
    BY Zenon, <1>2, <1>3 DEF InQueue
  <2> QED
    BY Zenon, <2>1
<1>6. \A p : Payload(p) = Bytes(p, sent[p])
  BY Zenon DEF Payload, Bytes
<1>7. /\ result.tag = "done" =>
            \/ \E p \in 1 .. Len(sent) : result.payload = Payload(p)
            \/ \E p, q \in PacketsOf(result.payload) : p # q /\ IdOf(p) = IdOf(q)
      /\ result.tag = "err" => Len(sent) > IdSpace
  BY Zenon, <1>1, <1>6 DEF ResultOK
<1> QED
  BY Zenon, <1>2, <1>4, <1>5, <1>7 DEF ReassemblyIsExact

\* What push returns is, byte for byte, a payload that was sent, unless it
\* mixes two packets with the same id; no error as long as ids have not come
\* round; and the queue of groups is exact, within its limit (fragment.rs,
\* fragment and Reassembler).  For every size of payload, body, id space and
\* limit, and however the network loses, repeats and reorders the fragments.
THEOREM ReassemblyExact == FragSpec => []ReassemblyIsExact
<1> QED
  BY FragInitInv, FragNextInv, FragInvExact, PTL DEF FragSpec

----------------------------------------------------------------------------
(* server/nat.rs: the NAT rules. *)

NatTypeOK ==
    /\ rules \in [Rules -> Nat] /\ left \in [Rules -> Nat]
    /\ installed \in BOOLEAN /\ unordered \in BOOLEAN
    /\ op \in {"idle", "install", "rollback", "remove"}
    /\ rule \in IF op = "idle" THEN {0} ELSE Rules

\* Copies of r that the call under way, or the controller, answers for.
Own(r) ==
    CASE op = "idle" -> IF installed THEN 1 ELSE 0
      [] op = "install" -> IF r < rule THEN 1 ELSE 0
      [] OTHER -> IF r <= rule THEN 1 ELSE 0

(***************************************************************************)
(* What is in the table is the controller's own copies and what was left   *)
(* behind, at most; exactly that of a rule nobody deleted by hand; and in  *)
(* order until a -D fails or a rule is deleted by hand.                    *)
(***************************************************************************)
NatInv ==
    /\ NatTypeOK
    /\ op # "idle" => ~installed
    /\ \A r \in Rules : rules[r] <= Own(r) + left[r]
    /\ \A r \in Rules : r \notin byhand => rules[r] = Own(r) + left[r]
    /\ ~unordered => byhand = {} /\ left[1] >= left[2] /\ left[2] >= left[3]

\* A new controller answers for nothing: the table is empty.
LEMMA NatInitInv == NatInit => NatInv
  <1> SUFFICES ASSUME NatInit PROVE NatInv
    BY Zenon
  <1>1. NatTypeOK
    BY Zenon DEF NatInit, NatTypeOK, Rules
  <1>2. \A r \in Rules : rules[r] = 0 /\ left[r] = 0 /\ Own(r) = 0
    BY Zenon DEF NatInit, Own, Rules
  <1> QED
    BY <1>1, <1>2 DEF NatInit, NatInv, Rules

\* Every iptables call, crash and deletion by hand keeps the invariant.
LEMMA NatNextInv == NatInv /\ [NatNext]_nat_vars => NatInv'
  <1> SUFFICES ASSUME NatInv, [NatNext]_nat_vars PROVE NatInv'
    BY Zenon
  <1> USE DEF NatInv, NatTypeOK, Own, Rules
  <1>1. CASE install
    BY <1>1 DEF install
  <1>2. CASE install_rule
    <2>a. rules' \in [Rules -> Nat] /\ left' \in [Rules -> Nat]
      BY <1>2 DEF install_rule
    <2>b. installed' \in BOOLEAN /\ unordered' \in BOOLEAN
      BY <1>2, Zenon DEF install_rule
    <2>c. op' \in {"idle", "install", "rollback", "remove"}
      BY Zenon, <1>2 DEF install_rule
    <2>d. rule' \in IF op' = "idle" THEN {0} ELSE Rules
      BY <1>2 DEF install_rule
    <2>1. NatTypeOK'
      BY Zenon, <2>a, <2>b, <2>c, <2>d
    <2>2. \A r \in Rules : rules'[r] <= Own(r)' + left'[r]
      BY <1>2 DEF install_rule
    <2>3. /\ \A r \in Rules : r \notin byhand' => rules'[r] = Own(r)' + left'[r]
          /\ ~unordered' => byhand' = {} /\ left'[1] >= left'[2] /\ left'[2] >= left'[3]
      BY <1>2 DEF install_rule
    <2> QED
      BY Zenon, <1>2, <2>1, <2>2, <2>3 DEF install_rule
  <1>3. CASE install_fails
    BY <1>3 DEF install_fails
  <1>4. CASE remove
    <2>a. installed' \in BOOLEAN /\ unordered' \in BOOLEAN
      BY <1>4, Zenon DEF remove
    <2>b. rule' \in IF op' = "idle" THEN {0} ELSE Rules
      BY <1>4 DEF remove
    <2>1. NatTypeOK'
      BY <1>4, <2>a, <2>b, Zenon DEF remove
    <2>2. \A r \in Rules : rules'[r] <= Own(r)' + left'[r]
      BY <1>4 DEF remove
    <2>3. /\ \A r \in Rules : r \notin byhand' => rules'[r] = Own(r)' + left'[r]
          /\ ~unordered' => byhand' = {} /\ left'[1] >= left'[2] /\ left'[2] >= left'[3]
      BY <1>4 DEF remove
    <2> QED
      BY Zenon, <1>4, <2>1, <2>2, <2>3 DEF remove
  <1>5. CASE delete_rule
    BY <1>5 DEF delete_rule, Backward
  <1>6. CASE delete_fails
    BY <1>6 DEF delete_fails, Backward
  <1>7. CASE nat_crash
    <2>1. NatTypeOK'
      BY Zenon, <1>7 DEF nat_crash
    <2>2. \A r \in Rules : rules'[r] <= Own(r)' + left'[r]
      BY <1>7 DEF nat_crash
    <2>3. /\ \A r \in Rules : r \notin byhand' => rules'[r] = Own(r)' + left'[r]
          /\ ~unordered' => byhand' = {} /\ left'[1] >= left'[2] /\ left'[2] >= left'[3]
      BY <1>7 DEF nat_crash
    <2> QED
      BY Zenon, <1>7, <2>1, <2>2, <2>3 DEF nat_crash
  <1>8. ASSUME NEW r \in Rules, delete_by_hand(r) PROVE NatInv'
    <2>1. /\ rules' \in [Rules -> Nat] /\ left' \in [Rules -> Nat]
          /\ \A x \in Rules : /\ Own(x)' = Own(x)
                              /\ rules'[x] <= Own(x) + left'[x]
                              /\ x # r => rules'[x] = rules[x] /\ left'[x] = left[x]
      BY <1>8 DEF delete_by_hand
    <2>2. unordered' /\ r \in byhand' /\ \A x : x \in byhand => x \in byhand'
      BY Zenon, <1>8 DEF delete_by_hand
    <2>3. NatTypeOK' /\ (op' # "idle" => ~installed')
      BY Zenon, <1>8, <2>1 DEF delete_by_hand
    <2>4. \A x \in Rules : x \notin byhand' => rules'[x] = Own(x)' + left'[x]
      BY Zenon, <2>1, <2>2
    <2> HIDE DEF Own, NatTypeOK
    <2> QED
      BY Zenon, <2>1, <2>2, <2>3, <2>4
  <1>9. CASE UNCHANGED nat_vars
    BY Zenon, <1>9 DEF nat_vars
  <1> QED
    BY Zenon, <1>1, <1>2, <1>3, <1>4, <1>5, <1>6, <1>7, <1>8, <1>9 DEF NatNext

(***************************************************************************)
(* RulesAreSound always: whether install and remove complete, are rolled   *)
(* back, fail halfway or are cut short by a crash, the table holds between *)
(* calls exactly the controller's own copy of each rule and the copies a   *)
(* call left behind, of a rule deleted by hand at most those; and no rule  *)
(* without the ones installed before it, until a deletion fails or a rule  *)
(* is deleted by hand (server/nat.rs).                                     *)
(***************************************************************************)
THEOREM NatTableIsSound == NatSpec => []RulesAreSound
  <1>1. NatInv => RulesAreSound
    BY DEF NatInv, NatTypeOK, Own, Rules, RulesAreSound
  <1> QED
    BY <1>1, NatInitInv, NatNextInv, PTL DEF NatSpec

----------------------------------------------------------------------------
(* auth/: who is let in. *)

\* What a client makes has its own secret and is signed with its own key;
\* the certificate is some holder's.
MadeIsGenuine ==
    \A m \in made : /\ m.client \in Holders /\ m.psk = m.client.psk
                    /\ m.sig.key = m.client.cert.key
                    /\ \E holder \in Holders : m.cert = holder.cert

MethodInv ==
    /\ method \in Methods /\ crl \in Lists /\ time \in Nat
    /\ MadeIsGenuine /\ EntitledByMethod

\* A list without an unreadable entry that is_revoked walks through does not
\* hold the serial.
LEMMA UnrevokedIsUnlisted ==
  ASSUME crl \in Lists, NEW serial, ~is_revoked(serial), Readable
  PROVE  ~Listed(serial)
  <1> SUFFICES ASSUME NEW i \in DOMAIN crl, crl[i] = serial PROVE FALSE
    BY Zenon DEF Listed
  <1>1. crl \in Seq(STRING)
    BY Zenon, AuthAssumption
  <1>2. i \in 1 .. Len(crl) /\ 1 .. i \subseteq 1 .. Len(crl) /\ DOMAIN crl = 1 .. Len(crl)
    BY <1>1
  <1> QED
    BY Zenon, <1>2 DEF is_revoked, Readable

\* What authenticate lets in is entitled to it.
LEMMA AuthenticateEntitles ==
  ASSUME MethodInv, NEW c \in Holders, NEW h \in Transcripts, NEW cred \in made,
         authenticate(c, h, cred)
  PROVE  MethodInv'
  <1> DEFINE r == CASE method = "mtls" -> authenticate_mtls(h, cred)
                    [] method = "psk" -> authenticate_psk(cred)
                    [] method = "pubkey" -> authenticate_pubkey(c.static)
             res == [is |-> r, client |-> c, h |-> h, cred |-> cred, at |-> time]
  <1>1. results' = {res} /\ method' = method /\ crl' = crl /\ time' = time /\ made' = made
    BY Zenon DEF authenticate
  <1>2. /\ res.is = r /\ res.client = c /\ res.h = h /\ res.cred = cred /\ res.at = time
    BY Zenon
  <1>3. /\ cred.client \in Holders /\ cred.psk = cred.client.psk
        /\ cred.sig.key = cred.client.cert.key
        /\ \E holder \in Holders : cred.cert = holder.cert
    BY Zenon DEF MethodInv, MadeIsGenuine
  <1>4. method = "psk" \/ method = "pubkey" \/ method = "mtls"
    BY Zenon, AuthAssumption DEF MethodInv
  <1> HIDE DEF res
  <1>5. ASSUME r = "ok"
        PROVE  CASE method = "psk" -> res.cred.client.psk = psk
                 [] method = "pubkey" -> allowed = {} \/ res.client.static \in allowed
                 [] method = "mtls" ->
                        LET cert == res.cred.cert
                        IN  /\ res.cred.client.cert.key = cert.key
                            /\ res.cred.sig.over = res.h
                            /\ cert.issuer = ca.key
                            /\ res.at \in cert.from .. cert.to /\ res.at \in ca.from .. ca.to
                            /\ Readable => ~Listed(cert.serial)
    <2>1. CASE method = "psk"
      BY Zenon, <1>2, <1>3, <1>5, <2>1 DEF authenticate_psk
    <2>2. CASE method = "pubkey"
      BY Zenon, <1>2, <1>5, <2>2 DEF authenticate_pubkey
    <2>3. CASE method = "mtls"
      <3>1. authenticate_mtls(h, cred) = "ok"
        BY Zenon, <1>5, <2>3
      <3>2. /\ verify_signed_by(cred.cert, ca) /\ verify(cred.cert.key, h, cred.sig)
            /\ is_valid_at(cred.cert, time) /\ is_valid_at(ca, time)
            /\ ~is_revoked(cred.cert.serial)
        BY Zenon, <3>1 DEF authenticate_mtls
      <3>3. Readable => ~Listed(cred.cert.serial)
        BY Zenon, <3>2, UnrevokedIsUnlisted DEF MethodInv
      <3>4. /\ cred.client.cert.key = cred.cert.key
            /\ cred.sig.over = h /\ cred.cert.issuer = ca.key
        BY Zenon, <1>3, <3>2 DEF verify_signed_by, verify
      <3>5. time \in cred.cert.from .. cred.cert.to /\ time \in ca.from .. ca.to
        <4>1. cred.cert.from \in Nat /\ cred.cert.to \in Nat /\ ca.from \in Nat /\ ca.to \in Nat
          BY Zenon, <1>3, AuthAssumption
        <4>2. /\ time >= cred.cert.from /\ time <= cred.cert.to
              /\ time >= ca.from /\ time <= ca.to
          BY Zenon, <3>2 DEF is_valid_at
        <4>3. time \in Nat
          BY Zenon DEF MethodInv
        <4> HIDE DEF r
        <4> QED
          BY <4>1, <4>2, <4>3
      <3> QED
        BY Zenon, <1>2, <1>3, <2>3, <3>3, <3>4, <3>5
    <2> QED
      BY Zenon, <1>4, <2>1, <2>2, <2>3
  <1>6. EntitledByMethod'
    <2> SUFFICES ASSUME NEW q \in results', q.is = "ok"
                 PROVE  CASE method = "psk" -> q.cred.client.psk = psk
                          [] method = "pubkey" -> allowed = {} \/ q.client.static \in allowed
                          [] method = "mtls" ->
                                 LET cert == q.cred.cert
                                 IN  /\ q.cred.client.cert.key = cert.key
                                     /\ q.cred.sig.over = q.h
                                     /\ cert.issuer = ca.key
                                     /\ q.at \in cert.from .. cert.to /\ q.at \in ca.from .. ca.to
                                     /\ Readable => ~Listed(cert.serial)
      BY <1>1, Zenon DEF EntitledByMethod, Readable, Listed
    <2> HIDE DEF r
    <2>1. q = res
      BY Zenon, <1>1
    <2>2. r = "ok"
      BY Zenon, <1>2, <2>1
    <2> QED
      BY <1>5, <2>1, <2>2, Zenon
  <1> QED
    BY Zenon, <1>1, <1>6 DEF MethodInv, MadeIsGenuine

\* An authenticator has let nobody in when it is set up.
LEMMA MethodInitInv == MethodInit => MethodInv
  BY DEF MethodInit, MethodInv, MadeIsGenuine, EntitledByMethod

\* Nothing but authenticate lets anyone in.
LEMMA MethodNextInv == MethodInv /\ [MethodNext]_method_vars => MethodInv'
  <1> SUFFICES ASSUME MethodInv, [MethodNext]_method_vars PROVE MethodInv'
    BY Zenon
  <1>0. ASSUME UNCHANGED <<method, crl, results>> PROVE EntitledByMethod'
    BY <1>0, Zenon DEF MethodInv, EntitledByMethod, Readable, Listed
  <1>1. ASSUME NEW c \in Holders, NEW holder \in Holders, NEW h \in Transcripts,
               make(c, holder, h)
        PROVE  MethodInv'
    <2> DEFINE new == [client |-> c, cert |-> holder.cert, psk |-> c.psk,
                       sig |-> [key |-> c.cert.key, over |-> h]]
    <2>0. /\ made' = made \cup {new}
          /\ new.client = c /\ new.psk = c.psk /\ new.sig.key = c.cert.key
          /\ new.cert = holder.cert
      BY Zenon, <1>1 DEF make
    <2> HIDE DEF new
    <2>1. MadeIsGenuine'
      BY <2>0, Zenon DEF MethodInv, MadeIsGenuine
    <2> QED
      BY Zenon, <1>0, <1>1, <2>1 DEF make, MethodInv
  <1>2. CASE time_passes
    <2>1. MadeIsGenuine'
      BY Zenon, <1>2 DEF time_passes, MethodInv, MadeIsGenuine
    <2> QED
      BY <1>0, <1>2, <2>1 DEF time_passes, MethodInv
  <1>3. CASE UNCHANGED method_vars
    <2>1. MadeIsGenuine'
      BY Zenon, <1>3 DEF method_vars, MethodInv, MadeIsGenuine
    <2> QED
      BY Zenon, <1>0, <1>3, <2>1 DEF method_vars, MethodInv
  <1> QED
    BY Zenon, <1>1, <1>2, <1>3, AuthenticateEntitles DEF MethodNext

----------------------------------------------------------------------------
(* The one-time codes. *)

\* A set of numbers with an upper bound has a largest one.
LEMMA LargestNumber ==
  ASSUME NEW S \in SUBSET Nat, S # {}, NEW b \in Nat, \A s \in S : s <= b
  PROVE  \E s \in S : \A q \in S : q <= s
  <1> DEFINE D == {d \in Nat : d <= b /\ b - d \in S}
  <1>1. D \in SUBSET Nat /\ D # {}
    <2>1. PICK s \in S : TRUE
      BY Zenon
    <2>2. b - s \in D
      BY <2>1
    <2> QED
      BY Zenon, <2>2
  <1>2. PICK d \in D : \A e \in D : d <= e
    <2> HIDE DEF D
    <2>1. PICK d \in D : \A e \in D : <<e, d>> \notin OpToRel(<, Nat)
      BY <1>1, WFMin, NatLessThanWellFounded, Zenon
    <2>2. \A e \in D : ~(e < d)
      BY <1>1, <2>1, Zenon DEF OpToRel
    <2> QED
      BY <1>1, <2>2
  <1>3. b - d \in S
    BY Zenon
  <1>4. ASSUME NEW q \in S PROVE q <= b - d
    <2>1. b - q \in D
      BY <1>4
    <2>2. d <= b - q
      BY Zenon, <1>2, <2>1
    <2> QED
      BY <2>2
  <1> QED
    BY Zenon, <1>3, <1>4

\* The loop over the window ends with a step of the table.
LEMMA MatchedIsStep ==
  ASSUME NEW code, step_now \in Nat, Matches(code) # {}
  PROVE  matched_step(code) \in Steps /\ matched_step(code) \in Nat
  <1>1. Matches(code) \in SUBSET Nat /\ Matches(code) \subseteq Steps
    BY Zenon, AuthAssumption DEF Matches, Steps
  <1>2. step_now + skew_window \in Nat
    BY AuthAssumption
  <1>3. \A s \in Matches(code) : s <= step_now + skew_window
    BY Zenon DEF Matches
  <1>4. \E s \in Matches(code) : \A q \in Matches(code) : q <= s
    BY Zenon, <1>1, <1>2, <1>3, LargestNumber
  <1>5. matched_step(code) \in Matches(code)
    BY <1>4, Zenon DEF matched_step
  <1> QED
    BY Zenon, <1>1, <1>5

Logins == [at : {"idle", "load", "store"}, matched : Nat, before : Nat]
Accepted == [step : Nat, before : Nat]

TotpTypeOK ==
    /\ step_now \in Nat
    /\ last_accepted_step \in Nat \cup {Never}
    /\ login \in [Threads -> Logins]
    /\ accepted \in Seq(Accepted)

(***************************************************************************)
(* last_accepted_step is the step of the last store.  A login that goes on *)
(* to its store has a later one than the last store before its load: when  *)
(* none has come since, a later one than last_accepted_step.               *)
(***************************************************************************)
TotpInv ==
    /\ TotpTypeOK /\ StepsGrow
    /\ accepted # <<>> => last_accepted_step = accepted[Len(accepted)].step
    /\ \A t \in Threads :
           login[t].at = "store" =>
               /\ login[t].before <= Len(accepted)
               /\ login[t].before = Len(accepted) => last_accepted_step < login[t].matched

\* Before the first login nothing is accepted.
LEMMA TotpInitInv == TotpInit => TotpInv
  <1> SUFFICES ASSUME TotpInit PROVE TotpInv
    BY Zenon
  <1>1. NoLogin \in Logins
    BY DEF NoLogin, Logins
  <1>2. TotpTypeOK
    BY <1>1 DEF TotpInit, TotpTypeOK
  <1>3. \A t \in Threads : login[t].at # "store"
    BY Zenon DEF TotpInit, NoLogin
  <1>4. accepted = <<>> /\ DOMAIN accepted = {}
    BY DEF TotpInit
  <1>5. StepsGrow
    BY <1>4, Zenon DEF StepsGrow
  <1> QED
    BY Zenon, <1>2, <1>3, <1>4, <1>5 DEF TotpInv

\* The window's loop: the login goes on to the load, or is rejected.
LEMMA AuthenticateTotpInv ==
  ASSUME TotpInv, NEW t \in Threads, NEW code \in Codes, authenticate_totp(t, code)
  PROVE  TotpInv'
  <1>0. /\ step_now' = step_now /\ last_accepted_step' = last_accepted_step
        /\ accepted' = accepted
    BY Zenon DEF authenticate_totp
  <1> DEFINE to == [at |-> "load", matched |-> matched_step(code), before |-> 0]
  <1>1. login' = login \/ (login' = [login EXCEPT ![t] = to] /\ Matches(code) # {})
    BY Zenon DEF authenticate_totp
  <1>2. ASSUME Matches(code) # {} PROVE to \in Logins /\ to.at = "load"
    <2>1. matched_step(code) \in Nat
      BY Zenon, <1>2, MatchedIsStep DEF TotpInv, TotpTypeOK
    <2> QED
      BY <2>1 DEF Logins
  <1> HIDE DEF to
  <1>3. login \in [Threads -> Logins] /\ login' \in [Threads -> Logins]
    BY Zenon, <1>1, <1>2 DEF TotpInv, TotpTypeOK
  <1>4. ASSUME NEW u \in Threads, login'[u].at = "store" PROVE login'[u] = login[u]
    BY Zenon, <1>1, <1>2, <1>3, <1>4
  <1>5. TotpTypeOK'
    BY Zenon, <1>0, <1>3 DEF TotpInv, TotpTypeOK
  <1>6. StepsGrow'
    BY <1>0, Zenon DEF TotpInv, StepsGrow, Overlapped
  <1> QED
    BY Zenon, <1>0, <1>4, <1>5, <1>6 DEF TotpInv

\* The load: a step that is not later is rejected.
LEMMA LoadLastInv ==
  ASSUME TotpInv, NEW t \in Threads, load_last(t)
  PROVE  TotpInv'
  <1>0. /\ step_now' = step_now /\ last_accepted_step' = last_accepted_step
        /\ accepted' = accepted
    BY Zenon DEF load_last
  <1>1. /\ login \in [Threads -> Logins] /\ accepted \in Seq(Accepted)
        /\ last_accepted_step \in Nat \cup {Never}
    BY Zenon DEF TotpInv, TotpTypeOK
  <1>2. Len(accepted) \in Nat /\ login[t].matched \in Nat
    BY <1>1 DEF Logins
  <1> DEFINE go == [at |-> "store", matched |-> login[t].matched, before |-> Len(accepted)]
             to == IF Seen(t) THEN NoLogin ELSE go
  <1>3. login' = [login EXCEPT ![t] = to]
    BY Zenon DEF load_last
  <1>4. NoLogin \in Logins /\ go \in Logins
    BY <1>2 DEF NoLogin, Logins
  <1>5. to \in Logins
    BY Zenon, <1>4
  <1>6. to.at = "store" => /\ ~Seen(t) /\ to.matched = login[t].matched
                           /\ to.before = Len(accepted)
    BY Zenon DEF NoLogin
  <1> HIDE DEF to
  <1>7. TotpTypeOK'
    BY Zenon, <1>0, <1>1, <1>3, <1>5 DEF TotpInv, TotpTypeOK
  <1>8. StepsGrow'
    BY <1>0, Zenon DEF TotpInv, StepsGrow, Overlapped
  <1>9. ASSUME NEW u \in Threads, login'[u].at = "store"
        PROVE  /\ login'[u].before <= Len(accepted)
               /\ login'[u].before = Len(accepted) => last_accepted_step < login'[u].matched
    <2>1. CASE u # t
      BY Zenon, <1>1, <1>3, <1>9, <2>1 DEF TotpInv
    <2>2. CASE u = t
      <3>1. /\ ~Seen(t) /\ login'[u].matched = login[t].matched
            /\ login'[u].before = Len(accepted)
        BY Zenon, <1>1, <1>3, <1>6, <1>9, <2>2
      <3>2. last_accepted_step < login[t].matched
        BY <1>1, <1>2, <3>1 DEF Seen, Never
      <3> QED
        BY <1>2, <3>1, <3>2
    <2> QED
      BY Zenon, <2>1, <2>2
  <1> QED
    BY Zenon, <1>0, <1>7, <1>8, <1>9 DEF TotpInv

\* The store: without an overlap, the step is later than the last one stored.
LEMMA StoreLastInv ==
  ASSUME TotpInv, NEW t \in Threads, store_last(t)
  PROVE  TotpInv'
  <1> DEFINE n == Len(accepted)
             new == [step |-> login[t].matched, before |-> login[t].before]
  <1>0. /\ step_now' = step_now /\ login[t].at = "store"
        /\ last_accepted_step' = login[t].matched /\ accepted' = Append(accepted, new)
        /\ login' = [login EXCEPT ![t] = NoLogin]
    BY Zenon DEF store_last
  <1>1. /\ login \in [Threads -> Logins] /\ accepted \in Seq(Accepted)
        /\ last_accepted_step \in Nat \cup {Never}
    BY Zenon DEF TotpInv, TotpTypeOK
  <1>2. /\ new \in Accepted /\ login[t].matched \in Nat
        /\ new.step = login[t].matched /\ new.before = login[t].before
        /\ new.before \in Nat
    BY <1>1 DEF Logins, Accepted
  <1>3. /\ new.before <= n
        /\ new.before = n => last_accepted_step < new.step
    BY Zenon, <1>0, <1>2 DEF TotpInv
  <1> HIDE DEF new
  <1>4. NoLogin \in Logins /\ NoLogin.at = "idle"
    BY DEF NoLogin, Logins
  <1>5. login' \in [Threads -> Logins]
    BY Zenon, <1>0, <1>1, <1>4
  <1>6. accepted' \in Seq(Accepted)
    BY <1>0, <1>1, <1>2
  <1>7. TotpTypeOK'
    BY Zenon, <1>0, <1>2, <1>5, <1>6 DEF TotpInv, TotpTypeOK
  <1>8. /\ n \in Nat /\ DOMAIN accepted = 1 .. n /\ DOMAIN accepted' = 1 .. n + 1
        /\ Len(accepted') = n + 1 /\ accepted'[n + 1] = new
        /\ \A i \in 1 .. n : accepted'[i] = accepted[i] /\ accepted[i].step \in Nat
    <2>1. \A i \in 1 .. n : accepted[i] \in Accepted
      BY <1>1
    <2>2. \A i \in 1 .. n : accepted[i].step \in Nat
      BY Zenon, <2>1 DEF Accepted
    <2> QED
      BY <1>0, <1>1, <1>2, <2>2
  <1> HIDE DEF n
  <1>9. StepsGrow'
    <2> SUFFICES ASSUME NEW i \in 1 .. n + 1, NEW j \in 1 .. n + 1, i < j,
                        \A m \in i + 1 .. j : ~(accepted'[m].before < m - 1)
                 PROVE  accepted'[i].step < accepted'[j].step
      BY <1>8, Zenon DEF StepsGrow, Overlapped
    <2>1. i \in 1 .. n
      BY <1>8
    <2>2. CASE j \in 1 .. n
      <3>1. \A m \in i + 1 .. j : m \in 1 .. n
        BY <1>8, <2>1, <2>2
      <3>2. \A m \in i + 1 .. j : ~Overlapped(m)
        BY Zenon, <1>8, <3>1 DEF Overlapped
      <3>3. accepted[i].step < accepted[j].step
        BY Zenon, <1>8, <2>1, <2>2, <3>2 DEF TotpInv, StepsGrow
      <3> QED
        BY Zenon, <1>8, <2>1, <2>2, <3>3
    <2>3. CASE j = n + 1
      <3>1. ~(new.before < n)
        <4>1. n + 1 \in i + 1 .. j /\ (n + 1) - 1 = n
          BY <1>8, <2>1, <2>3
        <4> QED
          BY Zenon, <1>8, <4>1
      <3>2. new.before = n
        BY <1>2, <1>3, <1>8, <3>1
      <3>3. last_accepted_step = accepted[n].step
        <4>1. accepted # <<>>
          BY <1>1, <1>8, <2>1
        <4> QED
          BY Zenon, <4>1 DEF TotpInv, n
      <3>4. accepted[n].step < new.step
        BY Zenon, <1>3, <3>2, <3>3
      <3>5. CASE i = n
        BY Zenon, <1>8, <2>1, <2>3, <3>4, <3>5
      <3>6. CASE i < n
        <4>1. n \in 1 .. n /\ \A m \in i + 1 .. n : m \in i + 1 .. j /\ m \in 1 .. n
          BY <1>8, <2>1, <2>3, <3>6
        <4>2. \A m \in i + 1 .. n : ~Overlapped(m)
          BY Zenon, <1>8, <4>1 DEF Overlapped
        <4>3. accepted[i].step < accepted[n].step
          BY Zenon, <1>8, <2>1, <3>6, <4>1, <4>2 DEF TotpInv, StepsGrow
        <4>4. accepted[i].step \in Nat /\ accepted[n].step \in Nat /\ new.step \in Nat
          BY Zenon, <1>2, <1>8, <2>1, <4>1
        <4>5. accepted[i].step < new.step
          BY <3>4, <4>3, <4>4
        <4> QED
          BY Zenon, <1>8, <2>1, <2>3, <4>5
      <3> QED
        BY <1>8, <2>1, <3>5, <3>6
    <2> QED
      BY <1>8, <2>2, <2>3
  <1>10. last_accepted_step' = accepted'[Len(accepted')].step
    BY Zenon, <1>0, <1>2, <1>8
  <1>11. ASSUME NEW u \in Threads, login'[u].at = "store"
         PROVE  login'[u].before <= n + 1 /\ login'[u].before # n + 1
    <2>1. u # t
      BY Zenon, <1>0, <1>1, <1>4, <1>11
    <2>2. login'[u] = login[u]
      BY Zenon, <1>0, <1>1, <2>1
    <2>3. login[u].before <= n
      BY Zenon, <1>11, <2>2 DEF TotpInv, n
    <2>4. login[u].before \in Nat
      BY <1>1 DEF Logins
    <2> QED
      BY <1>8, <2>2, <2>3, <2>4
  <1> QED
    BY Zenon, <1>7, <1>8, <1>9, <1>10, <1>11 DEF TotpInv

\* Every step of a login, and every move of the clock, keeps the invariant.
LEMMA TotpNextInv == TotpInv /\ [TotpNext]_totp_vars => TotpInv'
  <1> SUFFICES ASSUME TotpInv, [TotpNext]_totp_vars PROVE TotpInv'
    BY Zenon
  <1>0. ASSUME UNCHANGED <<last_accepted_step, login, accepted>>, step_now' \in Nat
        PROVE  TotpInv'
    <2>1. TotpTypeOK'
      BY Zenon, <1>0 DEF TotpInv, TotpTypeOK
    <2>2. StepsGrow'
      BY <1>0, Zenon DEF TotpInv, StepsGrow, Overlapped
    <2> QED
      BY <1>0, <2>1, <2>2, Zenon DEF TotpInv
  <1>1. CASE clock_moves
    BY Zenon, <1>0, <1>1, AuthAssumption DEF clock_moves, Steps
  <1>2. CASE UNCHANGED totp_vars
    BY Zenon, <1>0, <1>2 DEF totp_vars, TotpInv, TotpTypeOK
  <1> QED
    BY Zenon, <1>1, <1>2, AuthenticateTotpInv, LoadLastInv, StoreLastInv DEF TotpNext

(***************************************************************************)
(* AdmittedIsEntitled always: whom authenticate lets in holds what its     *)
(* method asks for, the private key of the certificate it shows included,  *)
(* with a certificate that is valid and on no readable list; and the TOTP  *)
(* steps let in grow from one login to the next, except across a login     *)
(* that overlapped between authenticate_totp's load and its store.         *)
(***************************************************************************)
THEOREM AdmissionIsEarned == AuthSpec => []AdmittedIsEntitled
  <1>1. AuthInit => MethodInv /\ TotpInv
    BY Zenon, MethodInitInv, TotpInitInv DEF AuthInit
  <1>2. MethodInv /\ TotpInv /\ [AuthNext]_auth_vars => MethodInv' /\ TotpInv'
    <2> SUFFICES ASSUME MethodInv, TotpInv, [AuthNext]_auth_vars PROVE MethodInv' /\ TotpInv'
      BY Zenon
    <2>1. [MethodNext]_method_vars /\ [TotpNext]_totp_vars
      BY Zenon DEF AuthNext, auth_vars
    <2> QED
      BY Zenon, <2>1, MethodNextInv, TotpNextInv
  <1>3. MethodInv /\ TotpInv => AdmittedIsEntitled
    BY Zenon DEF MethodInv, TotpInv, AdmittedIsEntitled
  <1> QED
    BY <1>1, <1>2, <1>3, PTL DEF AuthSpec

=============================================================================
