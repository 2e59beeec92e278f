---------------------------- MODULE ThreadProofs ----------------------------
(***************************************************************************)
(* What the daemon's threads share: the ring of one producer and one       *)
(* consumer implements a bounded queue, for every capacity and width; a    *)
(* broadcast receiver gets what was sent, in order, for every capacity;    *)
(* and commands, kicks and PUTs are carried out as reported, for any       *)
(* invocations and sessions.                                               *)
(***************************************************************************)
EXTENDS SpscRing, Broadcast, Daemon, TLAPS

\* Sequences with the same elements in the same places are the same.
LEMMA SameElements ==
    ASSUME NEW S, NEW s \in Seq(S), NEW t \in Seq(S),
           Len(s) = Len(t), \A i \in 1 .. Len(s) : s[i] = t[i]
    PROVE  s = t
  OBVIOUS

\* A sequence put behind another.
LEMMA Concatenated ==
    ASSUME NEW S, NEW s \in Seq(S), NEW t \in Seq(S)
    PROVE  /\ s \o t \in Seq(S) /\ Len(s \o t) = Len(s) + Len(t)
           /\ \A i \in 1 .. Len(s) + Len(t) :
                 (s \o t)[i] = IF i <= Len(s) THEN s[i] ELSE t[i - Len(s)]
  <1>1. s \o t \in Seq(S) /\ Len(s \o t) = Len(s) + Len(t)
    OBVIOUS
  <1>2. \A i \in 1 .. Len(s) + Len(t) :
            (s \o t)[i] = IF i <= Len(s) THEN s[i] ELSE t[i - Len(s)]
    OBVIOUS
  <1> QED
    BY <1>1, <1>2

\* A sequence without its first element.
LEMMA Shortened ==
    ASSUME NEW S, NEW s \in Seq(S), s # << >>
    PROVE  /\ Tail(s) \in Seq(S) /\ Len(Tail(s)) = Len(s) - 1
           /\ \A i \in 1 .. Len(Tail(s)) : Tail(s)[i] = s[i + 1]
  OBVIOUS

----------------------------------------------------------------------------
(* Arithmetic with remainders.                                             *)

\* Division with remainder.
LEMMA ModDef ==
    ASSUME NEW x \in Int, NEW w \in Nat \ {0}
    PROVE  /\ x = (x \div w) * w + (x % w)
           /\ x \div w \in Int
           /\ x % w \in 0 .. w - 1
OBVIOUS

\* A remainder is one.
LEMMA ModRange ==
    ASSUME NEW x \in Int, NEW w \in Nat \ {0}
    PROVE  x % w \in 0 .. w - 1
OBVIOUS

\* A positive multiple of w is at least w.
LEMMA MultipleAtLeast ==
    ASSUME NEW k \in Int, NEW w \in Nat, k >= 1
    PROVE  k * w >= w
<1>1. (k - 1) * w \in Nat
  OBVIOUS
<1>2. k * w = (k - 1) * w + w
  OBVIOUS
<1> QED
  BY <1>1, <1>2

\* Two remainders that differ by a multiple of w are the same.
LEMMA RemainderUnique ==
    ASSUME NEW k \in Int, NEW w \in Nat \ {0},
           NEW r \in 0 .. w - 1, NEW s \in 0 .. w - 1, k * w = r - s
    PROVE  r = s
<1>1. CASE k >= 1
  BY <1>1, MultipleAtLeast
<1>2. CASE k <= -1
  <2>1. (-k) * w = s - r
    OBVIOUS
  <2> QED
    BY <1>2, <2>1, MultipleAtLeast
<1>3. CASE k = 0
  BY <1>3
<1> QED
  BY <1>1, <1>2, <1>3

\* The remainder of a number written as a multiple and a rest.
LEMMA ModIs ==
    ASSUME NEW q \in Int, NEW w \in Nat \ {0}, NEW r \in 0 .. w - 1
    PROVE  (q * w + r) % w = r
<1> DEFINE x == q * w + r
           p == x \div w
           s == x % w
<1>1. x = p * w + s /\ p \in Int /\ s \in 0 .. w - 1
  <2>1. x \in Int
    OBVIOUS
  <2> QED
    BY Zenon, <2>1, ModDef
<1>2. q * w + r = p * w + s
  BY <1>1
<1> HIDE DEF x, p, s
<1>3. (q - p) * w = s - r
  <2>1. (q - p) * w = q * w - p * w
    BY <1>1
  <2> QED
    BY <2>1, <1>1, <1>2
<1>4. s = r
  BY <1>1, <1>3, RemainderUnique
<1> QED
  BY <1>4 DEF s, x

\* Two numbers less than w apart have different remainders.
LEMMA RemaindersDiffer ==
    ASSUME NEW w \in Nat \ {0}, NEW i \in Nat, NEW j \in Nat, i < j, j - i < w
    PROVE  i % w # j % w
<1> SUFFICES ASSUME i % w = j % w
             PROVE  FALSE
  OBVIOUS
<1> DEFINE p == i \div w
           q == j \div w
           r == i % w
<1>1. i = p * w + r /\ p \in Int /\ r \in 0 .. w - 1
  BY ModDef
<1>2. j = q * w + r /\ q \in Int
  BY ModDef
<1> HIDE DEF p, q, r
<1>3. (q - p) * w = (j - i) - 0
  <2>1. (q - p) * w = q * w - p * w
    BY <1>1, <1>2
  <2>2. q * w \in Int /\ p * w \in Int
    BY <1>1, <1>2
  <2> QED
    BY <2>1, <2>2, <1>1, <1>2
<1>4. j - i \in 0 .. w - 1 /\ 0 \in 0 .. w - 1 /\ q - p \in Int
  BY <1>1, <1>2
<1>5. j - i = 0
  BY <1>3, <1>4, RemainderUnique
<1> QED
  BY <1>5

----------------------------------------------------------------------------
(* SpscRing.  The counters of the code wrap around; the inductive          *)
(* invariant relates them to counts that do not, `pushed` and the length   *)
(* of `popped`, and says how far each thread's copy of the other's counter *)
(* may lag behind.                                                         *)

\* The word's assumptions, as the lemmas use them.
LEMMA Sizes == capacity \in Nat \ {0} /\ Word \in Nat \ {0} /\ Word > capacity
  BY SpscRingAssumption

\* wrapping_sub of two counters gives the distance of what they count.
LEMMA WordSub ==
    ASSUME NEW c \in Nat, NEW p \in Nat, c <= p, p - c < Word
    PROVE  wrapping_sub(p % Word, c % Word) = p - c
<1> DEFINE qp == p \div Word
           qc == c \div Word
           rp == p % Word
           rc == c % Word
<1>1. p = qp * Word + rp /\ qp \in Int /\ rp \in 0 .. Word - 1
  BY ModDef, Sizes
<1>2. c = qc * Word + rc /\ qc \in Int /\ rc \in 0 .. Word - 1
  BY ModDef, Sizes
<1> HIDE DEF qp, qc, rp, rc
<1>3. rp - rc = (qc - qp) * Word + (p - c)
  <2>1. (qc - qp) * Word = qc * Word - qp * Word
    BY <1>1, <1>2, Sizes
  <2>2. qc * Word \in Int /\ qp * Word \in Int
    BY <1>1, <1>2, Sizes
  <2> QED
    BY <2>1, <2>2, <1>1, <1>2
<1>4. ((qc - qp) * Word + (p - c)) % Word = p - c
  <2>1. p - c \in 0 .. Word - 1 /\ qc - qp \in Int
    BY <1>1, <1>2, Sizes
  <2> QED
    BY <2>1, ModIs, Sizes
<1>5. (rp - rc) % Word = p - c
  BY <1>3, <1>4
<1> QED
  BY <1>5 DEF wrapping_sub, rp, rc

\* wrapping_add of a counter counts on.
LEMMA WordAdd ==
    ASSUME NEW x \in Nat, NEW d \in Nat
    PROVE  wrapping_add(x % Word, d) = (x + d) % Word
<1> DEFINE q == x \div Word
           r == x % Word
           p == (x + d) \div Word
           s == (x + d) % Word
<1>1. x = q * Word + r /\ q \in Int /\ r \in 0 .. Word - 1
  BY ModDef, Sizes
<1>2. x + d = p * Word + s /\ p \in Int /\ s \in 0 .. Word - 1
  <2>1. x + d \in Int
    OBVIOUS
  <2> QED
    BY Zenon, <2>1, ModDef, Sizes
<1> HIDE DEF q, r, p, s
<1>3. r + d = (p - q) * Word + s
  <2>1. (p - q) * Word = p * Word - q * Word
    BY <1>1, <1>2, Sizes
  <2>2. p * Word \in Int /\ q * Word \in Int
    BY <1>1, <1>2, Sizes
  <2> QED
    BY <2>1, <2>2, <1>1, <1>2
<1>4. ((p - q) * Word + s) % Word = s
  <2>1. p - q \in Int
    BY <1>1, <1>2
  <2> QED
    BY <2>1, <1>2, ModIs, Sizes
<1> QED
  BY <1>3, <1>4 DEF wrapping_add, r, s

\* The word size is a multiple of the capacity: masking the counter gives the
\* slot of the count.
LEMMA SlotOf ==
    ASSUME NEW x \in Nat
    PROVE  Slot(x % Word) = x % capacity
<1> DEFINE q == x \div Word
           r == x % Word
           m == Word \div capacity
           p == x \div capacity
           s == x % capacity
<1>1. x = q * Word + r /\ q \in Int /\ r \in 0 .. Word - 1
  BY ModDef, Sizes
<1>2. Word = m * capacity /\ m \in Int
  BY ModDef, Sizes, SpscRingAssumption
<1>3. x = p * capacity + s /\ p \in Int /\ s \in 0 .. capacity - 1
  BY ModDef, Sizes
<1> HIDE DEF q, r, m, p, s
<1>4. r = (p - q * m) * capacity + s
  <2>1. q * m \in Int
    BY <1>1, <1>2
  <2>2. q * Word = (q * m) * capacity
    BY <1>1, <1>2, Sizes
  <2>3. (p - q * m) * capacity = p * capacity - (q * m) * capacity
    BY <2>1, <1>3, Sizes
  <2>4. (q * m) * capacity \in Int /\ p * capacity \in Int
    BY <2>1, <1>3, Sizes
  <2> QED
    BY <2>2, <2>3, <2>4, <1>1, <1>3
<1>5. ((p - q * m) * capacity + s) % capacity = s
  <2>1. p - q * m \in Int
    BY <1>1, <1>2, <1>3
  <2> QED
    BY <2>1, <1>3, ModIs, Sizes
<1> QED
  BY <1>4, <1>5 DEF Slot, r, s

\* Two counts less than the capacity apart have different slots.
LEMMA SlotsDiffer ==
    ASSUME NEW i \in Nat, NEW j \in Nat, i < j, j - i < capacity
    PROVE  i % capacity # j % capacity
  BY Zenon, RemaindersDiffer, Sizes

----------------------------------------------------------------------------
(* The inductive invariant.                                                *)

Popped == Len(popped)

\* The values c + 1 to c + n, in order.
Run(c, n) == [i \in 1 .. n |-> c + i]

\* How many values have left the ring, Drop's included.
Left == IF prod.pc = "freed" THEN pushed ELSE Popped

Typed ==
    /\ buffer \in [0 .. capacity - 1 -> Nat]
    /\ prod \in [pc : {"idle", "write", "publish", "gone", "freed"}, head : Nat]
    /\ cons \in [pc : {"idle", "read", "publish", "gone"}, tail : Nat, value : Nat]
    /\ pushed \in Nat
    /\ popped \in Seq(Nat)
    /\ dropped \in Seq(Nat)

Counted ==
    /\ tail = pushed % Word
    /\ head = Left % Word
    /\ Popped <= pushed
    /\ pushed <= Popped + capacity

ProducerLags ==
    /\ prod.pc \in {"write", "publish"} => pushed < MaxPushed
    /\ \E h \in 0 .. Popped :
          /\ prod.head = h % Word
          /\ pushed - h <= capacity
          /\ prod.pc \in {"write", "publish"} => pushed - h < capacity

ConsumerLags ==
    \E t \in Popped .. pushed :
       /\ cons.tail = t % Word
       /\ cons.pc \in {"read", "publish"} => Popped < t

Stored ==
    /\ \A i \in Popped .. pushed - 1 : buffer[i % capacity] = i + 1
    /\ prod.pc = "publish" => buffer[pushed % capacity] = pushed + 1
    /\ cons.pc = "publish" => cons.value = Popped + 1
    /\ \A n \in 1 .. Popped : popped[n] = n

Freed ==
    prod.pc = "freed" =>
       /\ cons.pc = "gone"
       /\ dropped = Run(Popped, pushed - Popped)

IInv == Typed /\ Counted /\ ProducerLags /\ ConsumerLags /\ Stored /\ Freed

\* A run of consecutive values is a sequence.
LEMMA RunIsSeq ==
    ASSUME NEW c \in Nat, NEW n \in Nat
    PROVE  /\ Run(c, n) \in Seq(Nat)
           /\ Len(Run(c, n)) = n
           /\ \A i \in 1 .. n : Run(c, n)[i] = c + i
<1>1. \A i \in 1 .. n : c + i \in Nat
  OBVIOUS
<1> QED
  BY <1>1 DEF Run

\* A push makes the run one longer at its end.
LEMMA RunAppend ==
    ASSUME NEW c \in Nat, NEW n \in Nat
    PROVE  Append(Run(c, n), c + n + 1) = Run(c, n + 1)
<1>1. Run(c, n) \in Seq(Nat) /\ Len(Run(c, n)) = n
  BY RunIsSeq
<1>2. ASSUME NEW i \in 1 .. n + 1
      PROVE  Append(Run(c, n), c + n + 1)[i] = Run(c, n + 1)[i]
  BY <1>1 DEF Run
<1>3. /\ Append(Run(c, n), c + n + 1) \in Seq(Nat)
      /\ Len(Append(Run(c, n), c + n + 1)) = n + 1
  BY <1>1
<1>4. Run(c, n + 1) \in Seq(Nat) /\ Len(Run(c, n + 1)) = n + 1
  BY RunIsSeq
<1> QED
  BY SMTT(30), <1>2, <1>3, <1>4, SameElements

\* A pop takes the first value of the run.
LEMMA RunTail ==
    ASSUME NEW c \in Nat, NEW n \in Nat \ {0}
    PROVE  /\ Run(c, n) # << >>
           /\ Tail(Run(c, n)) = Run(c + 1, n - 1)
<1>1. /\ Run(c, n) \in Seq(Nat) /\ Len(Run(c, n)) = n
      /\ \A i \in 1 .. n : Run(c, n)[i] = c + i
  BY RunIsSeq
<1>2. Run(c, n) # << >>
  BY <1>1
<1>3. /\ Tail(Run(c, n)) \in Seq(Nat)
      /\ Len(Tail(Run(c, n))) = n - 1
      /\ \A i \in 1 .. n - 1 : Tail(Run(c, n))[i] = Run(c, n)[i + 1]
  BY <1>1, <1>2, Shortened
<1>4. /\ Run(c + 1, n - 1) \in Seq(Nat) /\ Len(Run(c + 1, n - 1)) = n - 1
      /\ \A i \in 1 .. n - 1 : Run(c + 1, n - 1)[i] = c + 1 + i
  <2>1. c + 1 \in Nat /\ n - 1 \in Nat
    OBVIOUS
  <2> QED
    BY Zenon, <2>1, RunIsSeq
<1>5. ASSUME NEW i \in 1 .. n - 1
      PROVE  Tail(Run(c, n))[i] = Run(c + 1, n - 1)[i]
  BY <1>1, <1>3, <1>4
<1>6. Tail(Run(c, n)) = Run(c + 1, n - 1)
  BY Zenon, <1>3, <1>4, <1>5, SameElements
<1> QED
  BY <1>2, <1>6

\* Two runs that meet are one run.
LEMMA RunConcat ==
    ASSUME NEW c \in Nat, NEW n \in Nat
    PROVE  Run(0, c) \o Run(c, n) = Run(0, c + n)
<1> DEFINE s == Run(0, c) \o Run(c, n)
<1>1. /\ Run(0, c) \in Seq(Nat) /\ Len(Run(0, c)) = c
      /\ \A i \in 1 .. c : Run(0, c)[i] = 0 + i
  BY Zenon, RunIsSeq
<1>2. /\ Run(c, n) \in Seq(Nat) /\ Len(Run(c, n)) = n
      /\ \A i \in 1 .. n : Run(c, n)[i] = c + i
  BY RunIsSeq
<1>3. /\ s \in Seq(Nat)
      /\ Len(s) = c + n
      /\ \A i \in 1 .. c + n : s[i] = IF i <= c THEN Run(0, c)[i] ELSE Run(c, n)[i - c]
  <2>1. /\ s \in Seq(Nat)
        /\ Len(s) = Len(Run(0, c)) + Len(Run(c, n))
        /\ \A i \in 1 .. Len(Run(0, c)) + Len(Run(c, n)) :
              s[i] = IF i <= Len(Run(0, c)) THEN Run(0, c)[i]
                                            ELSE Run(c, n)[i - Len(Run(0, c))]
    BY Zenon, <1>1, <1>2, Concatenated
  <2> HIDE DEF s
  <2> QED
    BY <2>1, <1>1, <1>2
<1>4. /\ Run(0, c + n) \in Seq(Nat) /\ Len(Run(0, c + n)) = c + n
      /\ \A i \in 1 .. c + n : Run(0, c + n)[i] = 0 + i
  BY RunIsSeq
<1> HIDE DEF s
<1>5. ASSUME NEW i \in 1 .. c + n
      PROVE  s[i] = i
  <2>1. CASE i <= c
    <3>1. i \in 1 .. c /\ 0 + i = i
      BY <2>1
    <3>2. s[i] = Run(0, c)[i]
      BY <2>1, <1>3
    <3> QED
      BY <3>1, <3>2, <1>1
  <2>2. CASE i > c
    <3>1. i - c \in 1 .. n
      BY <2>2
    <3> QED
      BY <3>1, <2>2, <1>2, <1>3
  <2> QED
    BY <2>1, <2>2
<1>6. s = Run(0, c + n)
  BY <1>3, <1>4, <1>5, SameElements
<1> QED
  BY <1>6 DEF s

\* The zeroth count.
LEMMA ZeroMod == 0 % Word = 0
<1>1. (0 * Word + 0) % Word = 0
  BY ModIs, Sizes
<1> QED
  BY <1>1, Sizes

\* A load returns the counter of a count between the last one seen and now.
LEMMA LoadsBetween ==
    ASSUME NEW s \in Nat, NEW n \in Nat, s <= n, n - s < Word,
           NEW v \in Loads(s % Word, n % Word)
    PROVE  \E k \in s .. n : v = k % Word
<1>1. wrapping_sub(n % Word, s % Word) = n - s
  BY WordSub
<1>2. PICK d \in 0 .. n - s : v = wrapping_add(s % Word, d)
  BY <1>1 DEF Loads
<1>3. v = (s + d) % Word
  BY <1>2, WordAdd
<1> QED
  BY <1>3

\* A new ring (ring.rs, channel): nothing pushed, nothing popped.
LEMMA InitInv == Init => IInv
<1> SUFFICES ASSUME Init
             PROVE  IInv
  OBVIOUS
<1>1. Typed
  BY Sizes DEF Init, Typed, Uninit
<1>2. Popped = 0 /\ Left = 0
  BY DEF Init, Popped, Left
<1>3. Counted
  BY <1>2, ZeroMod, Sizes DEF Init, Counted
<1>4. ProducerLags
  BY <1>2, ZeroMod, Sizes DEF Init, ProducerLags
<1>5. ConsumerLags
  BY <1>2, ZeroMod, Sizes DEF Init, ConsumerLags
<1>6. Stored
  BY <1>2 DEF Init, Stored
<1>7. Freed
  BY DEF Init, Freed
<1> QED
  BY <1>1, <1>3, <1>4, <1>5, <1>6, <1>7 DEF IInv

\* try_push: what is loaded bounds how far the slots may still be in use.
LEMMA PushLoadInv == IInv /\ push_load => IInv'
<1> SUFFICES ASSUME IInv, push_load
             PROVE  IInv'
  OBVIOUS
<1> USE DEF IInv
<1>0. Popped \in Nat /\ Popped' = Popped /\ Left = Popped
  BY DEF Typed, Popped, push_load, Left
<1>1. PICK h0 \in 0 .. Popped : prod.head = h0 % Word /\ pushed - h0 <= capacity
  BY DEF ProducerLags
<1>2. PICK h \in Loads(prod.head, head) :
         prod' = [pc |-> IF Full(tail, h) THEN "idle" ELSE "write", head |-> h]
  BY DEF push_load
<1>3. PICK k \in h0 .. Popped : h = k % Word
  <2>1. h0 \in Nat /\ h0 <= Popped /\ Popped - h0 < Word
    BY <1>0, <1>1, Sizes DEF Counted, Typed
  <2>2. h \in Loads(h0 % Word, Popped % Word)
    BY <1>0, <1>1, <1>2 DEF Counted
  <2> QED
    BY <2>1, <2>2, <1>0, LoadsBetween
<1>4. k \in Nat /\ k <= pushed /\ pushed - k <= capacity /\ pushed \in Nat
  BY <1>0, <1>1, <1>3, Sizes DEF Counted, Typed
<1>5. Full(tail, h) <=> pushed - k = capacity
  <2>1. wrapping_sub(pushed % Word, k % Word) = pushed - k
    <3>1. pushed - k < Word
      BY <1>4, Sizes
    <3> QED
      BY <3>1, <1>4, WordSub
  <2> QED
    BY <2>1, <1>3 DEF Full, Counted
<1>6. prod'.pc \in {"idle", "write"} /\ prod'.head = k % Word
      /\ (prod'.pc = "write" => pushed - k < capacity)
  BY <1>2, <1>3, <1>4, <1>5, Sizes
<1>7. k % Word \in Nat
  BY <1>4, ModDef, Sizes
<1>8. Typed'
  BY <1>2, <1>3, <1>7 DEF Typed, push_load
<1>9. Counted'
  BY <1>0, <1>6 DEF Counted, push_load, Left, Popped
<1>10. ProducerLags'
  <2>1. k \in 0 .. Popped'
    BY <1>0, <1>3, <1>4
  <2>2. pushed' = pushed /\ pushed < MaxPushed
    BY DEF push_load
  <2> QED
    BY <2>1, <2>2, <1>4, <1>6 DEF ProducerLags
<1>11. ConsumerLags'
  BY DEF ConsumerLags, push_load, Popped
<1>12. Stored'
  BY <1>6 DEF Stored, push_load, Popped
<1>13. Freed'
  BY <1>6 DEF Freed
<1> QED
  BY <1>8, <1>9, <1>10, <1>11, <1>12, <1>13

\* try_push: the slot written is none of those in use.
LEMMA PushWriteInv == IInv /\ push_write => IInv'
<1> SUFFICES ASSUME IInv, push_write
             PROVE  IInv'
  OBVIOUS
<1> USE DEF IInv
<1>0. Popped \in Nat /\ Popped' = Popped /\ pushed \in Nat /\ pushed' = pushed
  BY DEF Typed, Popped, push_write
<1>1. prod.pc = "write" /\ prod' = [prod EXCEPT !.pc = "publish"]
  BY DEF push_write
<1>2. prod'.pc = "publish" /\ prod'.head = prod.head
  BY <1>1 DEF Typed
<1>3. Slot(tail) = pushed % capacity
  BY <1>0, SlotOf DEF Counted
<1>4. pushed % capacity \in 0 .. capacity - 1
  BY <1>0, ModDef, Sizes
<1>5. buffer' = [buffer EXCEPT ![pushed % capacity] = pushed + 1]
  BY <1>3 DEF push_write
<1>6. Typed'
  <2>1. buffer' \in [0 .. capacity - 1 -> Nat]
    BY <1>0, <1>4, <1>5 DEF Typed
  <2>2. prod' \in [pc : {"idle", "write", "publish", "gone", "freed"}, head : Nat]
    BY <1>1 DEF Typed
  <2> QED
    BY <2>1, <2>2 DEF Typed, push_write
<1>7. Counted'
  BY <1>0, <1>1, <1>2 DEF Counted, push_write, Left, Popped
<1>8. ProducerLags'
  BY <1>0, <1>1, <1>2 DEF ProducerLags
<1>9. ConsumerLags'
  BY <1>0 DEF ConsumerLags, push_write
<1>10. Stored'
  <2>1. pushed - Popped < capacity
    BY <1>0, <1>1, Sizes DEF ProducerLags
  <2>2. ASSUME NEW i \in Popped .. pushed - 1
        PROVE  buffer'[i % capacity] = i + 1
    <3>1. i \in Nat /\ i < pushed /\ pushed - i < capacity
      BY <2>1, <1>0, Sizes
    <3>2. i % capacity # pushed % capacity
      BY <3>1, <1>0, SlotsDiffer
    <3>3. i % capacity \in 0 .. capacity - 1
      BY <3>1, ModDef, Sizes
    <3>4. buffer'[i % capacity] = buffer[i % capacity]
      BY <3>2, <3>3, <1>4, <1>5 DEF Typed
    <3> QED
      BY <3>4 DEF Stored
  <2>3. buffer'[pushed % capacity] = pushed + 1
    BY <1>4, <1>5 DEF Typed
  <2>4. cons' = cons /\ popped' = popped
    BY DEF push_write
  <2> QED
    BY <2>2, <2>3, <2>4, <1>0 DEF Stored
<1>11. Freed'
  BY <1>2 DEF Freed
<1> QED
  BY <1>6, <1>7, <1>8, <1>9, <1>10, <1>11

\* try_push: publishing hands the written slot over.
LEMMA PushPublishInv == IInv /\ push_publish => IInv'
<1> SUFFICES ASSUME IInv, push_publish
             PROVE  IInv'
  OBVIOUS
<1> USE DEF IInv
<1>0. Popped \in Nat /\ Popped' = Popped /\ pushed \in Nat /\ pushed' = pushed + 1
  BY DEF Typed, Popped, push_publish
<1>1. prod.pc = "publish" /\ prod'.pc = "idle" /\ prod'.head = prod.head
  BY DEF push_publish, Typed
<1>2. PICK h \in 0 .. Popped : prod.head = h % Word /\ pushed - h < capacity
  BY <1>1 DEF ProducerLags
<1>3. Typed'
  BY <1>0 DEF Typed, push_publish
<1>4. Counted'
  <2>1. tail' = (pushed + 1) % Word
    BY <1>0, WordAdd DEF push_publish, Counted
  <2>2. head' = head /\ Left' = Popped /\ Left = Popped
    BY <1>0, <1>1 DEF push_publish, Left
  <2>3. pushed + 1 <= Popped + capacity
    BY <1>0, <1>2, Sizes
  <2> QED
    BY <2>1, <2>2, <2>3, <1>0 DEF Counted
<1>5. ProducerLags'
  <2>1. pushed' - h <= capacity
    BY <1>0, <1>2, Sizes
  <2> QED
    BY <2>1, <1>0, <1>1, <1>2 DEF ProducerLags
<1>6. ConsumerLags'
  <2>1. PICK t \in Popped .. pushed :
           cons.tail = t % Word /\ (cons.pc \in {"read", "publish"} => Popped < t)
    BY DEF ConsumerLags
  <2>2. t \in Popped' .. pushed' /\ cons' = cons
    BY <2>1, <1>0 DEF push_publish
  <2> QED
    BY <2>1, <2>2, <1>0 DEF ConsumerLags
<1>7. Stored'
  <2>1. buffer' = buffer /\ cons' = cons /\ popped' = popped
    BY DEF push_publish
  <2>2. \A i \in Popped .. pushed : buffer[i % capacity] = i + 1
    BY <1>0, <1>1 DEF Stored
  <2> QED
    BY <2>1, <2>2, <1>0, <1>1 DEF Stored
<1>8. Freed'
  BY <1>1 DEF Freed
<1> QED
  BY <1>3, <1>4, <1>5, <1>6, <1>7, <1>8

\* try_pop: what is loaded is at most what was published.
LEMMA PopLoadInv == IInv /\ pop_load => IInv'
<1> SUFFICES ASSUME IInv, pop_load
             PROVE  IInv'
  OBVIOUS
<1> USE DEF IInv
<1>0. /\ Popped \in Nat /\ Popped' = Popped /\ pushed \in Nat /\ pushed' = pushed
      /\ prod' = prod /\ cons.pc = "idle" /\ prod.pc # "freed" /\ Left = Popped
  BY DEF Typed, Popped, pop_load, Freed, Left
<1>1. PICK t0 \in Popped .. pushed : cons.tail = t0 % Word
  BY DEF ConsumerLags
<1>2. PICK t \in Loads(cons.tail, tail) :
         cons' = [cons EXCEPT !.pc = IF head = t THEN "idle" ELSE "read", !.tail = t]
  BY Zenon DEF pop_load
<1>3. PICK k \in t0 .. pushed : t = k % Word
  <2>1. t0 \in Nat /\ t0 <= pushed /\ pushed - t0 < Word
    BY <1>0, <1>1, Sizes DEF Counted
  <2>2. t \in Loads(t0 % Word, pushed % Word)
    BY <1>1, <1>2 DEF Counted
  <2> QED
    BY <2>1, <2>2, <1>0, LoadsBetween
<1>4. k \in Popped .. pushed /\ k \in Nat
  BY <1>0, <1>1, <1>3
<1>5. head # t => Popped < k
  <2>1. head = Popped % Word
    BY <1>0 DEF Counted
  <2> QED
    BY <2>1, <1>0, <1>3, <1>4
<1>6. /\ cons'.pc \in {"idle", "read"}
      /\ cons'.pc = "read" => Popped < k
      /\ cons'.tail = k % Word
  BY <1>2, <1>3, <1>5 DEF Typed
<1>7. Typed'
  <2>1. k % Word \in Nat
    BY <1>4, ModDef, Sizes
  <2> QED
    BY Zenon, <2>1, <1>2, <1>3 DEF Typed, pop_load
<1>8. Counted'
  BY <1>0 DEF Counted, pop_load, Left
<1>9. ProducerLags'
  BY <1>0 DEF ProducerLags
<1>10. ConsumerLags'
  BY <1>0, <1>4, <1>6 DEF ConsumerLags
<1>11. Stored'
  BY <1>0, <1>6 DEF Stored, pop_load
<1>12. Freed'
  BY <1>0 DEF Freed
<1> QED
  BY <1>7, <1>8, <1>9, <1>10, <1>11, <1>12

\* try_pop: the slot read holds the oldest value that is left.
LEMMA PopReadInv == IInv /\ pop_read => IInv'
<1> SUFFICES ASSUME IInv, pop_read
             PROVE  IInv'
  OBVIOUS
<1> USE DEF IInv
<1>0. /\ Popped \in Nat /\ Popped' = Popped /\ pushed \in Nat /\ pushed' = pushed
      /\ prod' = prod /\ cons.pc = "read" /\ prod.pc # "freed" /\ Left = Popped
  BY DEF Typed, Popped, pop_read, Freed, Left
<1>1. /\ cons'.pc = "publish" /\ cons'.tail = cons.tail
      /\ cons'.value = buffer[Slot(head)]
  BY DEF pop_read, Typed
<1>2. Popped < pushed
  BY <1>0 DEF ConsumerLags
<1>3. Slot(head) = Popped % capacity
  BY <1>0, SlotOf DEF Counted
<1>4. cons'.value = Popped + 1
  BY <1>0, <1>1, <1>2, <1>3 DEF Stored
<1>5. Typed'
  <2>1. cons' = [cons EXCEPT !.pc = "publish", !.value = Popped + 1]
    BY <1>1, <1>4 DEF pop_read, Typed
  <2>2. cons' \in [pc : {"idle", "read", "publish", "gone"}, tail : Nat, value : Nat]
    <3>1. Popped + 1 \in Nat
      BY <1>0
    <3> HIDE DEF IInv
    <3>2. cons \in [pc : {"idle", "read", "publish", "gone"}, tail : Nat, value : Nat]
      BY DEF Typed, IInv
    <3> QED
      BY Zenon, <2>1, <3>1, <3>2
  <2> QED
    BY <2>2, <1>0 DEF Typed, pop_read
<1>6. Counted'
  BY <1>0 DEF Counted, pop_read, Left
<1>7. ProducerLags'
  BY <1>0 DEF ProducerLags
<1>8. ConsumerLags'
  BY <1>0, <1>1 DEF ConsumerLags
<1>9. Stored'
  BY <1>0, <1>4 DEF Stored, pop_read
<1>10. Freed'
  BY <1>0 DEF Freed
<1> QED
  BY <1>5, <1>6, <1>7, <1>8, <1>9, <1>10

\* try_pop: publishing gives the slot back.
LEMMA PopPublishInv == IInv /\ pop_publish => IInv'
<1> SUFFICES ASSUME IInv, pop_publish
             PROVE  IInv'
  OBVIOUS
<1> USE DEF IInv
<1>0. /\ Popped \in Nat /\ pushed \in Nat /\ pushed' = pushed
      /\ prod' = prod /\ cons.pc = "publish" /\ prod.pc # "freed" /\ Left = Popped
  BY DEF Typed, Popped, pop_publish, Freed, Left
<1>1. cons.value = Popped + 1 /\ popped' = Append(popped, Popped + 1)
  BY <1>0 DEF Stored, pop_publish
<1>2. Popped' = Popped + 1 /\ Left' = Popped + 1
  BY <1>0, <1>1 DEF Popped, Left, Typed
<1>3. /\ cons'.pc = "idle" /\ cons'.tail = cons.tail
      /\ cons' = [cons EXCEPT !.pc = "idle", !.value = Uninit]
  BY DEF pop_publish, Typed
<1>4. PICK t \in Popped .. pushed : cons.tail = t % Word /\ Popped < t
  BY <1>0 DEF ConsumerLags
<1>5. Typed'
  <2>1. popped' \in Seq(Nat)
    BY <1>0, <1>1 DEF Typed
  <2>2. cons' \in [pc : {"idle", "read", "publish", "gone"}, tail : Nat, value : Nat]
    BY Zenon, <1>3 DEF Typed, Uninit
  <2> QED
    BY <2>1, <2>2, <1>0 DEF Typed, pop_publish
<1>6. Counted'
  <2>1. head' = (Popped + 1) % Word
    BY Zenon, <1>0, WordAdd DEF pop_publish, Counted
  <2>2. Popped + 1 <= pushed /\ pushed <= Popped + 1 + capacity
    BY <1>0, <1>4, Sizes DEF Counted
  <2> QED
    BY <2>1, <2>2, <1>0, <1>2 DEF Counted, pop_publish
<1>7. ProducerLags'
  <2>1. PICK h \in 0 .. Popped : /\ prod.head = h % Word
                                 /\ pushed - h <= capacity
                                 /\ prod.pc \in {"write", "publish"} => pushed - h < capacity
    BY DEF ProducerLags
  <2>2. h \in 0 .. Popped'
    BY <2>1, <1>0, <1>2
  <2> QED
    BY <2>1, <2>2, <1>0 DEF ProducerLags
<1>8. ConsumerLags'
  <2>1. t \in Popped' .. pushed'
    BY <1>0, <1>2, <1>4
  <2> QED
    BY <2>1, <1>3, <1>4 DEF ConsumerLags
<1>9. Stored'
  <2>1. buffer' = buffer
    BY DEF pop_publish
  <2>2. \A n \in 1 .. Popped' : popped'[n] = n
    BY <1>0, <1>1, <1>2 DEF Stored, Typed, Popped
  <2> QED
    BY <2>1, <2>2, <1>0, <1>2, <1>3 DEF Stored
<1>10. Freed'
  BY <1>0 DEF Freed
<1> QED
  BY <1>5, <1>6, <1>7, <1>8, <1>9, <1>10

\* What is in the ring: the values not popped yet, in order.
Unpopped == prod.pc # "freed" => Contents = Run(Popped, pushed - Popped)

\* The slots between the counters hold what was pushed and not popped.
LEMMA ContentsAre == IInv => Unpopped
<1> SUFFICES ASSUME IInv, prod.pc # "freed"
             PROVE  Contents = Run(Popped, pushed - Popped)
  BY DEF Unpopped
<1> USE DEF IInv
<1>0. Popped \in Nat /\ pushed \in Nat /\ Left = Popped
  BY DEF Typed, Popped, Left
<1>1. wrapping_sub(tail, head) = pushed - Popped
  <2>1. Popped <= pushed /\ pushed - Popped < Word
    BY <1>0, Sizes DEF Counted
  <2>2. tail = pushed % Word /\ head = Popped % Word
    BY <1>0 DEF Counted
  <2> QED
    BY <2>1, <2>2, <1>0, WordSub
<1>2. ASSUME NEW i \in 1 .. pushed - Popped
      PROVE  buffer[Slot(wrapping_add(head, i - 1))] = Popped + i
  <2>1. i - 1 \in Nat /\ Popped + (i - 1) \in Popped .. pushed - 1
    BY <1>0
  <2>2. wrapping_add(head, i - 1) = (Popped + (i - 1)) % Word
    BY <2>1, <1>0, WordAdd DEF Counted
  <2>3. Slot(wrapping_add(head, i - 1)) = (Popped + (i - 1)) % capacity
    BY <2>1, <2>2, <1>0, SlotOf
  <2> QED
    BY <2>1, <2>3, <1>0 DEF Stored
<1> QED
  BY <1>1, <1>2 DEF Contents, Run

\* A freed ring is empty.
Emptied == prod.pc = "freed" => Contents = << >>

\* Drop (ring.rs) leaves nothing behind in the slots.
LEMMA FreedIsEmpty == IInv => Emptied
<1> SUFFICES ASSUME IInv, prod.pc = "freed"
             PROVE  Contents = << >>
  BY DEF Emptied
<1> USE DEF IInv
<1>1. wrapping_sub(tail, head) = 0
  <2>1. pushed \in Nat /\ pushed <= pushed /\ pushed - pushed = 0 /\ pushed - pushed < Word
    BY Sizes DEF Typed
  <2>2. tail = pushed % Word /\ head = pushed % Word
    BY DEF Counted, Left
  <2> QED
    BY <2>1, <2>2, WordSub
<1> QED
  BY <1>1 DEF Contents

\* Drop: the slots between the counters are the values not popped.
LEMMA DropRingInv == IInv /\ drop_ring => IInv'
<1> SUFFICES ASSUME IInv, drop_ring
             PROVE  IInv'
  OBVIOUS
<1> USE DEF IInv
<1>0. /\ Popped \in Nat /\ Popped' = Popped /\ pushed \in Nat /\ pushed' = pushed
      /\ cons' = cons /\ cons.pc = "gone" /\ prod.pc = "gone"
      /\ prod' = [prod EXCEPT !.pc = "freed"] /\ buffer' = buffer /\ popped' = popped
      /\ tail' = tail /\ head' = tail
  BY DEF Typed, Popped, drop_ring
<1>1. prod'.pc = "freed" /\ prod'.head = prod.head /\ Left' = pushed
  BY <1>0 DEF Typed, Left
<1>2. dropped' = Run(Popped, pushed - Popped)
  BY <1>0, ContentsAre DEF drop_ring, Unpopped
<1>3. Typed'
  <2>1. dropped' \in Seq(Nat)
    <3>1. pushed - Popped \in Nat
      BY <1>0 DEF Counted
    <3> QED
      BY <3>1, <1>0, <1>2, RunIsSeq
  <2> QED
    BY Zenon, <2>1, <1>0 DEF Typed
<1>4. Counted'
  BY <1>0, <1>1 DEF Counted
<1>5. ProducerLags'
  BY <1>0, <1>1 DEF ProducerLags
<1>6. ConsumerLags'
  BY <1>0 DEF ConsumerLags
<1>7. Stored'
  BY <1>0, <1>1 DEF Stored
<1>8. Freed'
  BY <1>0, <1>2 DEF Freed
<1> QED
  BY <1>3, <1>4, <1>5, <1>6, <1>7, <1>8

\* Every step of the producer, the consumer and Drop keeps the invariant.
LEMMA NextInv == IInv /\ [Next]_vars => IInv'
<1> SUFFICES ASSUME IInv, [Next]_vars
             PROVE  IInv'
  OBVIOUS
<1>1. CASE push_load
  BY <1>1, PushLoadInv
<1>2. CASE push_write
  BY <1>2, PushWriteInv
<1>3. CASE push_publish
  BY <1>3, PushPublishInv
<1>4. CASE pop_load
  BY <1>4, PopLoadInv
<1>5. CASE pop_read
  BY <1>5, PopReadInv
<1>6. CASE pop_publish
  BY <1>6, PopPublishInv
<1>7. CASE drop_producer
  <2>1. /\ prod.pc = "idle" /\ prod' = [prod EXCEPT !.pc = "gone"]
        /\ UNCHANGED <<buffer, head, tail, cons, pushed, popped, dropped>>
    BY <1>7 DEF drop_producer
  <2>2. prod'.pc = "gone" /\ prod'.head = prod.head /\ Typed'
    BY SMTT(30), SMTT(30), <2>1 DEF IInv, Typed
  <2>3. Popped' = Popped /\ Left' = Left
    BY <2>1, <2>2 DEF Popped, Left
  <2> QED
    BY <2>1, <2>2, <2>3
    DEF IInv, Counted, ProducerLags, ConsumerLags, Stored, Freed
<1>8. CASE drop_consumer
  <2>1. /\ cons.pc = "idle" /\ cons' = [cons EXCEPT !.pc = "gone"]
        /\ UNCHANGED <<buffer, head, tail, prod, pushed, popped, dropped>>
    BY <1>8 DEF drop_consumer
  <2>2. cons'.pc = "gone" /\ cons'.tail = cons.tail /\ Typed'
    BY <2>1 DEF IInv, Typed
  <2>3. Popped' = Popped /\ Left' = Left
    BY <2>1, <2>2 DEF Popped, Left
  <2> QED
    BY <2>1, <2>2, <2>3
    DEF IInv, Counted, ProducerLags, ConsumerLags, Stored, Freed
<1>9. CASE drop_ring
  BY <1>9, DropRingInv
<1>10. CASE UNCHANGED vars
  BY SMTT(30), <1>10
  DEF vars, IInv, Typed, Counted, ProducerLags, ConsumerLags, Stored, Freed, Popped, Left
<1> QED
  BY <1>1, <1>2, <1>3, <1>4, <1>5, <1>6, <1>7, <1>8, <1>9, <1>10
  DEF Next, producer, consumer

----------------------------------------------------------------------------
(* What the invariant gives.                                               *)

\* While the producer writes, the slot the consumer works on is another.
LEMMA SharedNot == IInv => SlotsNotShared
<1> SUFFICES ASSUME IInv, prod.pc = "write", cons.pc \in {"read", "publish"}
             PROVE  Slot(head) # Slot(tail)
  BY DEF SlotsNotShared
<1> USE DEF IInv
<1>0. Popped \in Nat /\ pushed \in Nat /\ Left = Popped
  BY DEF Typed, Popped, Left
<1>1. Popped < pushed
  BY <1>0 DEF ConsumerLags
<1>2. pushed - Popped < capacity
  BY <1>0, Sizes DEF ProducerLags
<1>3. Slot(head) = Popped % capacity /\ Slot(tail) = pushed % capacity
  BY <1>0, SlotOf DEF Counted
<1> QED
  BY <1>0, <1>1, <1>2, <1>3, SlotsDiffer

\* Popped, left and dropped together are the values pushed.
LEMMA AllAccounted == IInv => NothingLostOrTwice
<1> SUFFICES ASSUME IInv
             PROVE  NothingLostOrTwice
  OBVIOUS
<1> DEFINE rest == IF prod.pc = "freed" THEN dropped ELSE Contents
<1>0. /\ Popped \in Nat /\ pushed \in Nat /\ pushed - Popped \in Nat
      /\ Popped + (pushed - Popped) = pushed
      /\ popped \in Seq(Nat) /\ Len(popped) = Popped
  BY DEF IInv, Typed, Counted, Popped
<1>1. rest = Run(Popped, pushed - Popped)
  BY ContentsAre DEF IInv, Freed, Unpopped
<1> HIDE DEF rest
<1>2. popped = Run(0, Popped)
  <2>1. /\ Run(0, Popped) \in Seq(Nat) /\ Len(Run(0, Popped)) = Popped
        /\ \A i \in 1 .. Popped : Run(0, Popped)[i] = 0 + i
    BY Zenon, <1>0, RunIsSeq
  <2>2. \A i \in 1 .. Popped : popped[i] = Run(0, Popped)[i]
    BY <2>1, <1>0 DEF IInv, Stored
  <2> QED
    BY <2>1, <2>2, <1>0, SameElements
<1>3. popped \o rest = Run(0, pushed)
  BY Zenon, <1>0, <1>1, <1>2, RunConcat
<1>4. Run(0, pushed) = [n \in 1 .. pushed |-> n]
  BY <1>0 DEF Run
<1> QED
  BY Zenon, <1>3, <1>4 DEF NothingLostOrTwice, rest

\* The same after a step.
LEMMA ContentsAfter == IInv' => Unpopped' /\ Emptied'
  BY ContentsAre, FreedIsEmpty, PTL

\* Every step of the ring is a step of the queue or leaves it as it is.
LEMMA StepRefines ==
    IInv /\ IInv' /\ [Next]_vars => [Queue!Next]_<<Contents, prod.pc # "freed">>
<1> SUFFICES ASSUME IInv, IInv', [Next]_vars
             PROVE  [Queue!Next]_<<Contents, prod.pc # "freed">>
  OBVIOUS
<1>0. /\ Popped \in Nat /\ pushed \in Nat /\ pushed - Popped \in Nat
      /\ popped \in Seq(Nat) /\ Len(popped) = Popped
  BY DEF IInv, Typed, Counted, Popped
<1>1. CASE push_publish
  <2>1. /\ prod.pc = "publish" /\ prod'.pc = "idle"
        /\ pushed' = pushed + 1 /\ Popped' = Popped
    BY <1>1 DEF push_publish, IInv, Typed, Popped
  <2>2. pushed - Popped < capacity /\ pushed + 1 \in 1 .. MaxPushed
    BY <2>1, <1>0, Sizes, SpscRingAssumption DEF IInv, ProducerLags
  <2>3. Contents = Run(Popped, pushed - Popped) /\ Len(Contents) = pushed - Popped
    <3>1. Contents = Run(Popped, pushed - Popped)
      BY <2>1, ContentsAre DEF Unpopped
    <3> QED
      BY Zenon, <3>1, <1>0, RunIsSeq
  <2>4. Contents' = Run(Popped, (pushed - Popped) + 1)
    <3>1. Contents' = Run(Popped, (pushed + 1) - Popped)
      BY <2>1, ContentsAfter DEF Unpopped
    <3>2. (pushed + 1) - Popped = (pushed - Popped) + 1
      BY <1>0
    <3> QED
      BY <3>1, <3>2
  <2>5. Contents' = Append(Contents, pushed + 1)
    <3>1. Popped + (pushed - Popped) + 1 = pushed + 1
      BY <1>0
    <3> QED
      BY Zenon, <3>1, <2>3, <2>4, <1>0, RunAppend
  <2>6. Queue!Push(pushed + 1)
    BY <2>1, <2>2, <2>3, <2>5 DEF Queue!Push
  <2> QED
    BY <2>2, <2>6 DEF Queue!Next
<1>2. CASE pop_publish
  <2>1. /\ cons.pc = "publish" /\ prod' = prod /\ pushed' = pushed
        /\ Popped' = Popped + 1 /\ prod.pc # "freed"
    BY <1>2, <1>0 DEF pop_publish, IInv, Typed, Popped, Freed
  <2>2. Popped < pushed
    BY <2>1, <1>0 DEF IInv, ConsumerLags
  <2>3. Contents = Run(Popped, pushed - Popped)
    BY <2>1, ContentsAre DEF Unpopped
  <2>4. Contents' = Run(Popped + 1, (pushed - Popped) - 1)
    <3>1. Contents' = Run(Popped + 1, pushed - (Popped + 1))
      BY <2>1, ContentsAfter DEF Unpopped
    <3>2. pushed - (Popped + 1) = (pushed - Popped) - 1
      BY <1>0
    <3> QED
      BY <3>1, <3>2
  <2>5. Contents # << >> /\ Contents' = Tail(Contents)
    <3>1. pushed - Popped \in Nat \ {0}
      BY <2>2, <1>0
    <3> QED
      BY Zenon, <3>1, <2>3, <2>4, <1>0, RunTail
  <2>6. Queue!Pop
    BY <2>1, <2>5 DEF Queue!Pop
  <2> QED
    BY <2>6 DEF Queue!Next
<1>3. CASE drop_ring
  <2>1. prod.pc = "gone" /\ prod'.pc = "freed"
    BY <1>3 DEF drop_ring, IInv, Typed
  <2>2. Contents' = << >>
    BY <2>1, ContentsAfter DEF Emptied
  <2>3. Queue!Drop
    BY <2>1, <2>2 DEF Queue!Drop
  <2> QED
    BY <2>3 DEF Queue!Next
<1>4. ASSUME /\ pushed' = pushed /\ Popped' = Popped
             /\ (prod'.pc = "freed") = (prod.pc = "freed")
      PROVE  UNCHANGED <<Contents, prod.pc # "freed">>
  <2>1. CASE prod.pc = "freed"
    BY <2>1, <1>4, FreedIsEmpty, ContentsAfter DEF Emptied
  <2>2. CASE prod.pc # "freed"
    BY <2>2, <1>4, ContentsAre, ContentsAfter DEF Unpopped
  <2> QED
    BY <2>1, <2>2
<1>5. CASE push_load \/ push_write \/ pop_load \/ pop_read
           \/ drop_producer \/ drop_consumer \/ UNCHANGED vars
  <2>1. pushed' = pushed /\ popped' = popped
    BY Zenon, <1>5 DEF push_load, push_write, pop_load, pop_read, drop_producer,
                drop_consumer, vars
  <2>2. (prod'.pc = "freed") = (prod.pc = "freed")
    <3>1. CASE push_load
      BY <3>1 DEF push_load
    <3>2. CASE push_write
      BY <3>2 DEF push_write, IInv, Typed
    <3>3. CASE drop_producer
      BY <3>3 DEF drop_producer, IInv, Typed
    <3>4. CASE pop_load \/ pop_read \/ drop_consumer \/ UNCHANGED vars
      BY Zenon, <3>4 DEF pop_load, pop_read, drop_consumer, vars
    <3> QED
      BY <3>1, <3>2, <3>3, <3>4, <1>5
  <2> QED
    BY <2>1, <2>2, <1>4 DEF Popped
<1> QED
  BY <1>1, <1>2, <1>3, <1>5 DEF Next, producer, consumer

\* Nothing is in the ring at first.
LEMMA InitRefines == Init => Queue!Init
<1> SUFFICES ASSUME Init
             PROVE  Queue!Init
  OBVIOUS
<1>1. IInv
  BY InitInv
<1>2. Contents = Run(0, 0)
  <2>1. prod.pc # "freed" /\ Popped = 0 /\ pushed = 0
    BY DEF Init, Popped
  <2> QED
    BY <1>1, <2>1, ContentsAre DEF Unpopped
<1>3. Contents = << >>
  BY <1>2 DEF Run
<1> QED
  BY <1>3 DEF Queue!Init, Init

(***************************************************************************)
(* The ring implements a bounded first-in first-out queue, no slot is      *)
(* written while it is read, and every pushed value leaves the ring once,  *)
(* in order (try_push, try_pop and Drop, ring.rs), for every capacity,     *)
(* with stale loads and with counters that wrap around.                    *)
(***************************************************************************)
THEOREM RingIsQueue == Spec => ImplementsQueue
<1>1. Init => IInv
  BY InitInv
<1>2. IInv /\ [Next]_vars => IInv'
  BY NextInv
<1>3. IInv => SlotsNotShared /\ NothingLostOrTwice
  BY SharedNot, AllAccounted
<1>4. Init => Queue!Init
  BY InitRefines
<1>5. IInv /\ IInv' /\ [Next]_vars => [Queue!Next]_<<Contents, prod.pc # "freed">>
  BY StepRefines
<1> QED
  BY <1>1, <1>2, <1>3, <1>4, <1>5, PTL DEF Spec, ImplementsQueue, Queue!Spec

----------------------------------------------------------------------------
(* Broadcast.  The ring holds the last `cap` items stored, and a pass lies *)
(* within them as long as it has not met the publisher.                    *)

\* What the variables hold.
BcastTyped ==
    /\ write_pos \in Nat /\ cursor \in Nat
    /\ storing \in Int /\ (storing = -1 \/ storing = write_pos - 1)
    /\ bslots \in [0 .. cap - 1 -> Int]
    /\ met \in BOOLEAN
    /\ pass \in [head : Nat, start : Nat, pos : Nat, items : Seq(Int), on : BOOLEAN]

\* How many items are stored.
StoredUpTo == IF storing = -1 THEN write_pos ELSE write_pos - 1

\* The ring holds the last `cap` items that were stored.
HoldsTheLast ==
    \A p \in Nat : StoredUpTo - cap <= p /\ p < StoredUpTo => bslots[p % cap] = p

\* Where a pass is, and where the next one starts.
PassPlaced ==
    /\ pass.start <= pass.pos /\ pass.pos <= pass.head /\ pass.head <= write_pos
    /\ pass.on => pass.head - pass.start <= cap
    /\ cursor <= write_pos
    /\ ~pass.on => pass.head <= cursor

\* The items from `start` on.
ItemsFrom(start, n) == [k \in 1 .. n |-> start + k - 1]

\* A pass that has not met the publisher has the items in order, none left out.
PassExact == ~met => pass.items = ItemsFrom(pass.start, pass.pos - pass.start)

\* The inductive invariant.
BcastInv == BcastTyped /\ HoldsTheLast /\ PassPlaced /\ PassExact

\* A new pass does not start before the place the last one reached.
NeverBack == ~pass.on /\ pass'.on => pass'.start >= pass.head

\* One more item.
LEMMA ItemsAppend ==
    ASSUME NEW s \in Nat, NEW n \in Nat
    PROVE  Append(ItemsFrom(s, n), s + n) = ItemsFrom(s, n + 1)
<1> DEFINE old == ItemsFrom(s, n)
<1>1. old \in Seq(Int) /\ Len(old) = n /\ \A k \in 1 .. n : old[k] = s + k - 1
  BY DEF ItemsFrom
<1> HIDE DEF old
<1> DEFINE new == Append(old, s + n)
<1>2. new \in Seq(Int) /\ Len(new) = n + 1 /\ new[n + 1] = s + n
      /\ \A k \in 1 .. n : new[k] = s + k - 1
  BY <1>1
<1> HIDE DEF new
<1>3. ItemsFrom(s, n + 1) \in Seq(Int) /\ Len(ItemsFrom(s, n + 1)) = n + 1
      /\ \A k \in 1 .. n + 1 : ItemsFrom(s, n + 1)[k] = s + k - 1
  BY DEF ItemsFrom
<1>4. ASSUME NEW k \in 1 .. n + 1 PROVE new[k] = ItemsFrom(s, n + 1)[k]
  <2>1. CASE k \in 1 .. n
    BY SMTT(30), <2>1, <1>2, <1>3
  <2>2. CASE k = n + 1
    BY <2>2, <1>2, <1>3
  <2> QED
    BY <2>1, <2>2
<1>5. new = ItemsFrom(s, n + 1)
  BY <1>2, <1>3, <1>4, SameElements
<1> QED
  BY <1>5 DEF new, old

\* An empty ring holds everything that was stored: nothing.
LEMMA BcastInitInv == BcastInit => BcastInv
<1> SUFFICES ASSUME BcastInit PROVE BcastInv
  OBVIOUS
<1> USE DEF BcastInit, NoPass
<1>1. BcastTyped
  <2>1. pass \in [head : Nat, start : Nat, pos : Nat, items : Seq(Int), on : BOOLEAN]
    <3>1. << >> \in Seq(Int)
      OBVIOUS
    <3> QED
      BY <3>1
  <2>2. bslots \in [0 .. cap - 1 -> Int]
    OBVIOUS
  <2>3. write_pos \in Nat /\ cursor \in Nat /\ storing \in Int /\ storing = -1
    OBVIOUS
  <2>4. met \in BOOLEAN
    BY Zenon
  <2> QED
    BY Zenon, <2>1, <2>2, <2>3, <2>4 DEF BcastTyped
<1>2. HoldsTheLast
  BY DEF HoldsTheLast, StoredUpTo
<1>3. PassPlaced
  BY BcastAssumption DEF PassPlaced
<1>4. PassExact
  <2>1. ItemsFrom(0, 0) = << >>
    BY DEF ItemsFrom
  <2> QED
    BY <2>1 DEF PassExact
<1> QED
  BY <1>1, <1>2, <1>3, <1>4 DEF BcastInv

\* send, in its two steps: the count is ahead of the ring by the item it stores.
LEMMA SendInv == BcastInv /\ (send_count \/ send_store) => BcastInv'
<1> SUFFICES ASSUME BcastInv, send_count \/ send_store PROVE BcastInv'
  OBVIOUS
<1> USE DEF BcastInv
<1>1. pass' = pass /\ cursor' = cursor /\ met' = met
      /\ write_pos' \in Nat /\ write_pos' >= write_pos
  BY DEF send_count, send_store, BcastTyped
<1>2. PassPlaced'
  BY <1>1 DEF PassPlaced, BcastTyped
<1>3. PassExact'
  BY <1>1 DEF PassExact
<1>4. CASE send_count
  <2>1. BcastTyped'
    BY <1>4 DEF send_count, BcastTyped
  <2>2. HoldsTheLast'
    BY <1>4 DEF send_count, BcastTyped, HoldsTheLast, StoredUpTo
  <2> QED
    BY <2>1, <2>2, <1>2, <1>3
<1>5. CASE send_store
  <2>1. storing \in Nat /\ storing = write_pos - 1 /\ storing' = -1 /\ write_pos' = write_pos
        /\ bslots' = [bslots EXCEPT ![storing % cap] = storing]
    BY <1>5 DEF send_store, BcastTyped
  <2>2. storing % cap \in 0 .. cap - 1
    <3>1. storing \in Int
      BY <2>1
    <3> QED
      BY Zenon, <3>1, ModRange, BcastAssumption
  <2>3. BcastTyped'
    BY <2>1, <2>2, <1>1 DEF BcastTyped
  <2>4. HoldsTheLast'
    <3> SUFFICES ASSUME NEW p \in Nat, write_pos - cap <= p, p < write_pos
                 PROVE  bslots'[p % cap] = p
      BY <2>1 DEF HoldsTheLast, StoredUpTo
    <3>1. p % cap \in 0 .. cap - 1
      BY ModRange, BcastAssumption
    <3>2. CASE p = storing
      BY <3>2, <2>1, <2>2 DEF BcastTyped
    <3>3. CASE p # storing
      <4>1. p < storing /\ storing - p < cap
        BY <3>3, <2>1, BcastAssumption DEF BcastTyped
      <4>2. p % cap # storing % cap
        BY <4>1, <2>1, BcastAssumption, RemaindersDiffer
      <4>3. bslots[p % cap] = p
        <5>1. StoredUpTo = storing
          BY <2>1 DEF StoredUpTo
        <5>2. storing - cap <= p /\ p < storing
          BY <4>1, <2>1, BcastAssumption
        <5> QED
          BY <5>1, <5>2 DEF HoldsTheLast
      <4> QED
        BY <4>2, <4>3, <3>1, <2>1, <2>2 DEF BcastTyped
    <3> QED
      BY <3>2, <3>3
  <2> QED
    BY <2>3, <2>4, <1>2, <1>3
<1> QED
  BY <1>4, <1>5

\* A reader that was lapped starts at the oldest item still there.
LEMMA SnappedIs ==
    ASSUME NEW top \in Nat, NEW from \in Nat, from <= top
    PROVE  /\ Snapped(top, from) \in Nat
           /\ Snapped(top, from) >= from /\ Snapped(top, from) <= top
           /\ top - Snapped(top, from) <= cap
  BY BcastAssumption DEF Snapped

\* recv starts a pass at the reader's place, or at the oldest item.
LEMMA RecvBeginInv == BcastInv /\ recv_begin => BcastInv' /\ NeverBack
<1> SUFFICES ASSUME BcastInv, recv_begin PROVE BcastInv' /\ NeverBack
  OBVIOUS
<1> USE DEF BcastInv
<1> DEFINE start == Snapped(write_pos, cursor)
<1>1. /\ pass' = [head |-> write_pos, start |-> start, pos |-> start, items |-> <<>>,
                  on |-> TRUE]
      /\ ~pass.on /\ met' = FALSE
      /\ UNCHANGED <<write_pos, bslots, storing, cursor>>
  BY DEF recv_begin
<1>2. write_pos \in Nat /\ cursor \in Nat /\ cursor <= write_pos
  BY DEF BcastTyped, PassPlaced
<1>3. start \in Nat /\ start >= cursor /\ start <= write_pos /\ write_pos - start <= cap
  BY <1>2, SnappedIs
<1> HIDE DEF start
<1>4. /\ pass'.head = write_pos /\ pass'.start = start /\ pass'.pos = start
      /\ pass'.items = <<>> /\ pass'.on
  BY <1>1
<1>5. BcastTyped'
  <2>1. pass' \in [head : Nat, start : Nat, pos : Nat, items : Seq(Int), on : BOOLEAN]
    BY <1>1, <1>2, <1>3
  <2> QED
    BY Zenon, <2>1, <1>1 DEF BcastTyped
<1>6. HoldsTheLast'
  BY <1>1 DEF HoldsTheLast, StoredUpTo
<1>7. PassPlaced'
  BY <1>1, <1>2, <1>3, <1>4 DEF PassPlaced
<1>8. PassExact'
  <2>1. ItemsFrom(start, 0) = << >>
    BY DEF ItemsFrom
  <2>2. start - start = 0
    BY <1>3
  <2> QED
    BY <2>1, <2>2, <1>4 DEF PassExact
<1>9. NeverBack
  <2>1. pass.head <= cursor /\ pass.head \in Nat
    BY <1>1 DEF PassPlaced, BcastTyped
  <2> QED
    BY <2>1, <1>2, <1>3, <1>4 DEF NeverBack
<1> QED
  BY <1>5, <1>6, <1>7, <1>8, <1>9

\* recv reads one slot; the publisher may have overwritten it.
LEMMA RecvSlotInv == BcastInv /\ recv_slot => BcastInv' /\ NeverBack
<1> SUFFICES ASSUME BcastInv, recv_slot PROVE BcastInv' /\ NeverBack
  OBVIOUS
<1> USE DEF BcastInv
<1> DEFINE item == bslots[pass.pos % cap]
           more == IF item = -1 THEN pass.items ELSE Append(pass.items, item)
<1>1. /\ pass.on /\ pass.pos < pass.head
      /\ pass' = [pass EXCEPT !.pos = @ + 1, !.items = more]
      /\ met' = (met \/ storing = pass.pos
                 \/ (write_pos > pass.head /\ write_pos - pass.pos > cap))
      /\ UNCHANGED <<write_pos, bslots, storing, cursor>>
  BY DEF recv_slot
<1>2. /\ pass \in [head : Nat, start : Nat, pos : Nat, items : Seq(Int), on : BOOLEAN]
      /\ bslots \in [0 .. cap - 1 -> Int] /\ write_pos \in Nat
      /\ storing \in Int /\ (storing = -1 \/ storing = write_pos - 1)
  BY DEF BcastTyped
<1>3. pass.pos % cap \in 0 .. cap - 1
  <2>1. pass.pos \in Int
    BY <1>2
  <2> QED
    BY Zenon, <2>1, ModRange, BcastAssumption
<1>4. item \in Int
  BY <1>2, <1>3
<1>5. more \in Seq(Int)
  BY <1>2, <1>4
<1>6. ASSUME ~met'
      PROVE  item = pass.pos /\ more = Append(pass.items, pass.pos)
  <2>1. storing # pass.pos /\ (write_pos > pass.head => write_pos - pass.pos <= cap)
    BY <1>1, <1>2, <1>6, BcastAssumption
  <2>2. write_pos - pass.pos <= cap
    BY <2>1, <1>1, <1>2, BcastAssumption DEF PassPlaced
  <2>3. pass.pos < write_pos
    BY <1>1, <1>2 DEF PassPlaced
  <2>4. StoredUpTo - cap <= pass.pos /\ pass.pos < StoredUpTo
    BY SMTT(30), <2>1, <2>2, <2>3, <1>2, BcastAssumption DEF StoredUpTo
  <2>5. item = pass.pos
    BY <2>4, <1>2 DEF HoldsTheLast
  <2> QED
    BY <2>5, <1>2
<1> HIDE DEF item, more
<1>7. /\ pass'.head = pass.head /\ pass'.start = pass.start /\ pass'.pos = pass.pos + 1
      /\ pass'.items = more /\ pass'.on = pass.on
      /\ pass' \in [head : Nat, start : Nat, pos : Nat, items : Seq(Int), on : BOOLEAN]
  <2>1. pass' = [head |-> pass.head, start |-> pass.start, pos |-> pass.pos + 1,
                 items |-> more, on |-> pass.on]
    BY Zenon, <1>1, <1>2
  <2> QED
    BY <2>1, <1>2, <1>5
<1>8. BcastTyped'
  <2>1. met' \in BOOLEAN
    BY <1>1
  <2> QED
    BY <2>1, <1>1, <1>7 DEF BcastTyped
<1>9. HoldsTheLast'
  BY <1>1 DEF HoldsTheLast, StoredUpTo
<1>10. PassPlaced'
  BY SMTT(30), <1>1, <1>2, <1>7 DEF PassPlaced
<1>11. PassExact'
  <2> SUFFICES ASSUME ~met'
               PROVE  pass'.items = ItemsFrom(pass'.start, pass'.pos - pass'.start)
    BY DEF PassExact
  <2>1. pass.items = ItemsFrom(pass.start, pass.pos - pass.start)
    BY Zenon, <1>1 DEF PassExact
  <2>2. pass.pos - pass.start \in Nat /\ pass.start \in Nat
        /\ pass.start + (pass.pos - pass.start) = pass.pos
        /\ (pass.pos - pass.start) + 1 = pass.pos + 1 - pass.start
    BY <1>2 DEF PassPlaced
  <2>3. Append(ItemsFrom(pass.start, pass.pos - pass.start),
               pass.start + (pass.pos - pass.start))
          = ItemsFrom(pass.start, (pass.pos - pass.start) + 1)
    BY Zenon, <2>2, ItemsAppend
  <2>4. more = Append(pass.items, pass.pos)
    BY <1>6
  <2>5. pass'.start = pass.start /\ pass'.items = more
    BY <1>7
  <2>6. pass'.pos - pass'.start = (pass.pos - pass.start) + 1
    BY <1>7, <2>2
  <2>7. more = ItemsFrom(pass.start, (pass.pos - pass.start) + 1)
    BY Zenon, <2>1, <2>2, <2>3, <2>4
  <2> QED
    BY Zenon, <2>5, <2>6, <2>7
<1>12. NeverBack
  BY <1>1 DEF NeverBack
<1> QED
  BY <1>8, <1>9, <1>10, <1>11, <1>12

\* A new reader starts at the top, and a pass that ends leaves its place.
LEMMA BcastRestInv == BcastInv /\ (subscribe \/ recv_end) => BcastInv' /\ NeverBack
<1> SUFFICES ASSUME BcastInv, subscribe \/ recv_end PROVE BcastInv' /\ NeverBack
  OBVIOUS
<1> USE DEF BcastInv
<1>1. /\ pass' = pass \/ pass' = [pass EXCEPT !.on = FALSE]
      /\ UNCHANGED <<write_pos, bslots, storing, met>>
  BY DEF subscribe, recv_end
<1>2. pass \in [head : Nat, start : Nat, pos : Nat, items : Seq(Int), on : BOOLEAN]
      /\ write_pos \in Nat /\ cursor \in Nat
  BY DEF BcastTyped
<1>3. /\ pass' \in [head : Nat, start : Nat, pos : Nat, items : Seq(Int), on : BOOLEAN]
      /\ pass'.head = pass.head /\ pass'.start = pass.start /\ pass'.pos = pass.pos
      /\ pass'.items = pass.items
      /\ pass'.on => pass.on
  BY Zenon, <1>1, <1>2
<1>4. cursor' \in Nat /\ cursor' <= write_pos /\ cursor' >= pass.head
  BY <1>2 DEF subscribe, recv_end, NextCursor, PassPlaced
<1>5. BcastTyped'
  BY <1>1, <1>3, <1>4 DEF BcastTyped
<1>6. HoldsTheLast'
  BY <1>1 DEF HoldsTheLast, StoredUpTo
<1>7. PassPlaced'
  BY <1>1, <1>3, <1>4 DEF PassPlaced
<1>8. PassExact'
  BY <1>1, <1>3 DEF PassExact
<1>9. NeverBack
  BY <1>3 DEF NeverBack
<1> QED
  BY <1>5, <1>6, <1>7, <1>8, <1>9

\* Every step keeps the invariant, and no pass goes back.
LEMMA BcastNextInv == BcastInv /\ [BcastNext]_bcast => BcastInv' /\ [NeverBack]_bcast
<1> SUFFICES ASSUME BcastInv, [BcastNext]_bcast PROVE BcastInv' /\ [NeverBack]_bcast
  OBVIOUS
<1>1. CASE send_count \/ send_store
  <2>1. NeverBack
    BY <1>1 DEF send_count, send_store, NeverBack
  <2> QED
    BY <1>1, <2>1, SendInv
<1>2. CASE UNCHANGED bcast
  BY <1>2 DEF bcast, BcastInv, BcastTyped, HoldsTheLast, StoredUpTo, PassPlaced, PassExact
<1> QED
  BY <1>1, <1>2, RecvBeginInv, RecvSlotInv, BcastRestInv DEF BcastNext

\* A pass of recv that the publisher has not met returns consecutive items,
\* in order and unchanged, and the next one starts no earlier than it ended
\* (broadcast.rs): for every capacity and every number of items.
THEOREM ReceivedIsExact == BcastSpec => ReceivedInOrder
<1>1. BcastInv => (~met => pass.items =
             [k \in 1 .. pass.pos - pass.start |-> pass.start + k - 1])
  BY DEF BcastInv, PassExact, ItemsFrom
<1> QED
  BY <1>1, BcastInitInv, BcastNextInv, PTL DEF BcastSpec, ReceivedInOrder, NeverBack

----------------------------------------------------------------------------
(* The daemon's threads and the commands they serve. *)

Replies == {NoReply, "shutdown", "ok", "error", "up", "down", "kicked", "not kicked"}
Invocation ==
    [pc : {"off", "connected", "sent", "done", "failed"}, cmd : Commands, line : BOOLEAN,
     reply : Replies]

(***************************************************************************)
(* A command is in the socket only between its sending and its service; an *)
(* answer "shutdown" that is still to be read comes from the process that  *)
(* is alive.                                                               *)
(***************************************************************************)
Sound(c) ==
    /\ served[c] <= 1
    /\ cli[c].reply = "shutdown" /\ cli[c].pc \in {"connected", "sent"} => shutdown
    /\ cli[c].line => served[c] = 0
    /\ cli[c].pc \in {"off", "connected"} => served[c] = 0 /\ ~cli[c].line
    /\ cli[c].pc = "off" => cli[c].reply = NoReply

CommandInv ==
    /\ cli \in [Cli -> Invocation] /\ served \in [Cli -> Nat] /\ shutdown \in BOOLEAN
    /\ \A c \in Cli : Sound(c)

TunnelInv == tunnel \in {"up", "down"} /\ (tunnel = "up" => ready)

KicksAdd == \A s \in Sessions : joins[s] = kicked[s] + (IF s \in sessions THEN 1 ELSE 0)

RegistryInv == joins \in [Sessions -> Nat] /\ kicked \in [Sessions -> Nat] /\ KicksAdd

\* Before the first start nothing is set up, connected or registered.
LEMMA DaemonInitInv == DaemonInit => CommandInv /\ TunnelInv /\ RegistryInv
  <1> SUFFICES ASSUME DaemonInit PROVE CommandInv /\ TunnelInv /\ RegistryInv
    OBVIOUS
  <1>1. [pc |-> "off", cmd |-> "other", line |-> FALSE, reply |-> NoReply] \in Invocation
    BY DEF Invocation, Commands, Replies
  <1>2. cli \in [Cli -> Invocation] /\ served \in [Cli -> Nat]
    BY <1>1 DEF DaemonInit
  <1>3. shutdown \in BOOLEAN
    BY Zenon DEF DaemonInit
  <1>4. \A c \in Cli : Sound(c)
    BY DEF DaemonInit, Sound, NoReply
  <1>5. TunnelInv
    BY DEF DaemonInit, TunnelInv
  <1>6. \A s \in Sessions : joins[s] = 0 /\ kicked[s] = 0 /\ s \notin sessions
    BY DEF DaemonInit
  <1>7. joins \in [Sessions -> Nat] /\ kicked \in [Sessions -> Nat]
    BY DEF DaemonInit
  <1> QED
    BY <1>2, <1>3, <1>4, <1>5, <1>6, <1>7 DEF CommandInv, RegistryInv, KicksAdd

\* The steps of the runner that lead on: nothing but the runner is touched.
Onward ==
    \/ \E m \in Modes : run_encrypted(m)
    \/ init_context \/ take_config \/ setup_client \/ setup_server \/ client_handshake
    \/ drop_privileges \/ register \/ loop_check \/ poll \/ drain

\* The tunnel comes up with what the mode needs, and goes down alone.
LEMMA OnwardInv ==
  ASSUME TunnelInv, Onward
  PROVE  TunnelInv' /\ UNCHANGED <<cli, served, shutdown, config, joins, kicked, sessions>>
  <1> USE DEF TunnelInv, registry, control
  <1>1. ASSUME NEW m \in Modes, run_encrypted(m)
        PROVE  TunnelInv' /\ UNCHANGED <<cli, served, shutdown, config, joins, kicked, sessions>>
    BY <1>1 DEF run_encrypted
  <1>2. CASE init_context
    BY <1>2 DEF init_context
  <1>3. CASE take_config
    BY <1>3 DEF take_config, Fails
  <1>4. CASE setup_client
    BY <1>4 DEF setup_client, Fails
  <1>5. CASE setup_server
    BY <1>5 DEF setup_server, Fails
  <1>6. CASE client_handshake
    BY <1>6 DEF client_handshake, Fails
  <1>7. CASE drop_privileges
    BY <1>7 DEF drop_privileges, Fails
  <1>8. CASE register
    BY <1>8 DEF register, Fails
  <1>9. CASE loop_check
    BY <1>9 DEF loop_check
  <1>10. CASE poll
    BY <1>10 DEF poll, Fails
  <1>11. CASE drain
    BY <1>11 DEF drain
  <1> QED
    BY Zenon, <1>1, <1>2, <1>3, <1>4, <1>5, <1>6, <1>7, <1>8, <1>9, <1>10, <1>11 DEF Onward

\* The end of the process: who waited for an answer no longer does.
LEMMA GoneInv ==
  ASSUME CommandInv, Gone
  PROVE  CommandInv' /\ TunnelInv' /\ RegistryInv' /\ config' = config
  <1>1. TunnelInv' /\ config' = config
    BY Zenon DEF Gone, TunnelInv
  <1>2. RegistryInv'
    <2>1. \A s \in Sessions : joins'[s] = 0 /\ kicked'[s] = 0 /\ s \notin sessions'
      BY Zenon DEF Gone
    <2>2. joins' \in [Sessions -> Nat] /\ kicked' \in [Sessions -> Nat]
      BY Zenon DEF Gone
    <2> QED
      BY <2>1, <2>2 DEF RegistryInv, KicksAdd
  <1>3. served' = served /\ shutdown' = FALSE
    BY Zenon DEF Gone
  <1>4. ASSUME NEW c \in Cli
        PROVE  /\ cli'[c] \in Invocation /\ ~cli'[c].line /\ cli'[c].reply = cli[c].reply
               /\ cli'[c].pc \notin {"connected", "sent"}
               /\ cli'[c].pc = "off" => cli[c].pc = "off"
    <2>1. cli'[c] = [cli[c] EXCEPT !.pc = IF @ \notin {"connected", "sent"} THEN @
                                          ELSE IF cli[c].reply = NoReply THEN "failed" ELSE "done",
                                   !.line = FALSE]
      BY Zenon DEF Gone
    <2>2. cli[c] \in Invocation
      BY DEF CommandInv
    <2> QED
      BY Zenon, <2>1, <2>2 DEF Invocation
  <1>5. cli' = [c \in Cli |-> cli'[c]]
    BY Zenon DEF Gone
  <1>6. cli' \in [Cli -> Invocation]
    BY <1>4, <1>5
  <1>7. shutdown' \in BOOLEAN
    BY <1>3, Zenon
  <1>8. \A c \in Cli : Sound(c)'
    BY Zenon, <1>3, <1>4 DEF CommandInv, Sound
  <1>9. CommandInv'
    BY <1>3, <1>6, <1>7, <1>8 DEF CommandInv
  <1> QED
    BY <1>1, <1>2, <1>9

\* A step that changes one invocation at most.
LEMMA OneCommand ==
  ASSUME CommandInv, NEW c \in Cli, NEW x \in Invocation, cli' = [cli EXCEPT ![c] = x],
         served' \in [Cli -> Nat], \A d \in Cli : d # c => served'[d] = served[d],
         shutdown' \in BOOLEAN, shutdown => shutdown', Sound(c)'
  PROVE  CommandInv'
  <1>1. cli' \in [Cli -> Invocation] /\ \A d \in Cli : d # c => cli'[d] = cli[d]
    BY DEF CommandInv
  <1>2. ASSUME NEW d \in Cli, d # c PROVE Sound(d)'
    BY <1>1, <1>2 DEF CommandInv, Sound
  <1> QED
    BY <1>1, <1>2 DEF CommandInv

\* connect, send, read the answer, give up.
LEMMA CliInv ==
  ASSUME CommandInv, NEW c \in Cli,
         CliStep(c) \/ \E cmd \in Script(c) : cli_connect(c, cmd)
  PROVE  CommandInv'
  <1>1. cli[c] \in Invocation /\ Sound(c) /\ served \in [Cli -> Nat] /\ shutdown \in BOOLEAN
    BY DEF CommandInv
  <1>2. served' = served /\ shutdown' = shutdown
    BY Zenon DEF CliStep, cli_send, cli_done, cli_timeout, cli_connect, process
  <1>3. ASSUME NEW cmd \in Script(c), cli_connect(c, cmd) PROVE CommandInv'
    <2>1. cmd \in Commands
      BY ScriptedCommands DEF Script, Commands
    <2>2. PICK p \in {"connected", "failed"} :
              cli[c].pc = "off" /\ cli' = [cli EXCEPT ![c] = [cli[c] EXCEPT !.pc = p, !.cmd = cmd]]
      BY Zenon, <1>3 DEF cli_connect
    <2> DEFINE x == [cli[c] EXCEPT !.pc = p, !.cmd = cmd]
    <2>3. x \in Invocation /\ x.pc = p /\ x.line = cli[c].line /\ x.reply = cli[c].reply
      BY Zenon, <1>1, <2>1, <2>2 DEF Invocation
    <2> HIDE DEF x
    <2>4. cli'[c] = x
      BY <2>2 DEF x, CommandInv
    <2>5. Sound(c)'
      BY <1>1, <1>2, <2>2, <2>3, <2>4 DEF Sound, NoReply
    <2> QED
      BY Zenon, <1>1, <1>2, <2>2, <2>3, <2>5, OneCommand DEF x
  <1>4. CASE cli_send(c)
    <2> DEFINE x == [cli[c] EXCEPT !.pc = "sent", !.line = TRUE]
    <2>2. cli[c].pc = "connected" /\ cli' = [cli EXCEPT ![c] = x]
      BY <1>4 DEF cli_send
    <2>3. x \in Invocation /\ x.pc = "sent" /\ x.line = TRUE /\ x.reply = cli[c].reply
      BY Zenon, <1>1 DEF Invocation
    <2> HIDE DEF x
    <2>4. cli'[c] = x
      BY <2>2 DEF CommandInv
    <2>5. Sound(c)'
      BY Zenon, <1>1, <1>2, <2>2, <2>3, <2>4 DEF Sound
    <2> QED
      BY Zenon, <1>1, <1>2, <2>2, <2>3, <2>5, OneCommand
  <1>5. CASE cli_done(c) \/ cli_timeout(c)
    <2>1. PICK p \in {"done", "failed"} : cli' = [cli EXCEPT ![c].pc = p]
      BY <1>5 DEF cli_done, cli_timeout
    <2> DEFINE x == [cli[c] EXCEPT !.pc = p]
    <2>2. cli' = [cli EXCEPT ![c] = x]
      BY <2>1
    <2>3. x \in Invocation /\ x.pc = p /\ x.line = cli[c].line /\ x.reply = cli[c].reply
      BY <1>1 DEF Invocation
    <2> HIDE DEF x
    <2>4. cli'[c] = x
      BY <2>2 DEF CommandInv
    <2>5. Sound(c)'
      BY <1>1, <1>2, <2>1, <2>3, <2>4 DEF Sound
    <2> QED
      BY Zenon, <1>1, <1>2, <2>2, <2>3, <2>5, OneCommand
  <1> QED
    BY <1>3, <1>4, <1>5 DEF CliStep

\* dispatch_command carries the command out and takes it off the socket.
LEMMA ServeInv ==
  ASSUME CommandInv, TunnelInv, NEW c \in Cli, ipc_serve(c)
  PROVE  CommandInv'
  <1>1. /\ cli[c] \in Invocation /\ Sound(c) /\ served \in [Cli -> Nat] /\ shutdown \in BOOLEAN
        /\ cli[c].line
    BY DEF CommandInv, ipc_serve
  <1>2. PICK s \in Sessions :
            cli' = [cli EXCEPT ![c] =
                       [@ EXCEPT !.line = FALSE,
                                 !.reply = IF Waiting(c) THEN Answer(cli[c].cmd, s \in sessions)
                                           ELSE cli[c].reply]]
    BY Zenon DEF ipc_serve
  <1> DEFINE y == IF Waiting(c) THEN Answer(cli[c].cmd, s \in sessions) ELSE cli[c].reply
             x == [cli[c] EXCEPT !.line = FALSE, !.reply = y]
  <1>3. y \in Replies /\ (y = "shutdown" => cli[c].cmd = "down" \/ cli[c].reply = "shutdown")
    BY Zenon, <1>1 DEF Answer, Replies, Invocation, Commands, TunnelInv
  <1> HIDE DEF y
  <1>4. x \in Invocation /\ x.pc = cli[c].pc /\ x.line = FALSE /\ x.reply = y
    BY Zenon, <1>1, <1>3 DEF Invocation
  <1>5. cli' = [cli EXCEPT ![c] = x]
    BY <1>2 DEF y
  <1> HIDE DEF x
  <1>6. cli'[c] = x
    BY <1>5 DEF CommandInv
  <1>7. /\ shutdown' \in BOOLEAN /\ (shutdown => shutdown')
        /\ cli[c].cmd = "down" => shutdown'
    BY Zenon DEF ipc_serve, SetsFlag
  <1>8. served' = [served EXCEPT ![c] = @ + 1]
    BY DEF ipc_serve
  <1>9. served' \in [Cli -> Nat] /\ \A d \in Cli : d # c => served'[d] = served[d]
    BY <1>1, <1>8
  <1>10. served'[c] = 1 /\ served'[c] <= 1 /\ cli[c].pc \notin {"off", "connected"}
    <2>1. served[c] = 0 /\ cli[c].pc \notin {"off", "connected"}
      BY Zenon, <1>1 DEF Sound
    <2>2. served'[c] = served[c] + 1
      BY Zenon, <1>1, <1>8
    <2> QED
      BY <2>1, <2>2
  <1>11. Sound(c)'
    <2>1. /\ cli'[c].pc \notin {"off", "connected"} /\ ~cli'[c].line
          /\ cli'[c].pc = cli[c].pc /\ cli'[c].reply = y
      BY Zenon, <1>4, <1>6, <1>10
    <2>2. y = "shutdown" /\ cli[c].pc \in {"connected", "sent"} => shutdown'
      BY Zenon, <1>1, <1>3, <1>7 DEF Sound
    <2> QED
      BY Zenon, <1>10, <2>1, <2>2 DEF Sound
  <1> QED
    BY Zenon, <1>4, <1>5, <1>7, <1>9, <1>11, OneCommand

\* A connection that is closed: its client has the answer, or has failed.
LEMMA HangupInv ==
  ASSUME CommandInv, NEW c \in Cli, ipc_hangup(c)
  PROVE  CommandInv'
  <1>1. cli[c] \in Invocation /\ Sound(c) /\ served \in [Cli -> Nat] /\ shutdown \in BOOLEAN
    BY DEF CommandInv
  <1>2. served' = served /\ shutdown' = shutdown
    BY DEF ipc_hangup, process
  <1> DEFINE p == IF Waiting(c) /\ cli[c].reply = NoReply THEN "failed" ELSE cli[c].pc
             x == [cli[c] EXCEPT !.pc = p]
  <1>3. cli' = [cli EXCEPT ![c] = x]
    BY DEF ipc_hangup
  <1>4. p = cli[c].pc \/ p = "failed"
    OBVIOUS
  <1> HIDE DEF p
  <1>5. x \in Invocation /\ x.pc = p /\ x.line = cli[c].line /\ x.reply = cli[c].reply
    BY <1>1, <1>4 DEF Invocation
  <1> HIDE DEF x
  <1>6. cli'[c] = x
    BY <1>3 DEF CommandInv
  <1>7. Sound(c)'
    BY Zenon, <1>1, <1>2, <1>4, <1>5, <1>6 DEF Sound
  <1> QED
    BY Zenon, <1>1, <1>2, <1>3, <1>5, <1>7, OneCommand

\* The thread ends: whoever it had not accepted has failed.
LEMMA StopInv ==
  ASSUME CommandInv, ipc_stop
  PROVE  CommandInv'
  <1>1. served' = served /\ shutdown' = shutdown
    BY Zenon DEF ipc_stop, process
  <1>2. ASSUME NEW c \in Cli PROVE cli'[c] \in Invocation /\ Sound(c)'
    <2>1. cli[c] \in Invocation /\ Sound(c)
      BY DEF CommandInv
    <2> DEFINE x == [cli[c] EXCEPT !.pc = IF @ \in {"connected", "sent"} THEN "failed" ELSE @,
                                   !.line = FALSE]
    <2>2. cli'[c] = x \/ cli'[c] = cli[c]
      BY Zenon DEF ipc_stop
    <2>3. /\ x \in Invocation /\ ~x.line /\ x.reply = cli[c].reply
          /\ x.pc = IF cli[c].pc \in {"connected", "sent"} THEN "failed" ELSE cli[c].pc
      BY Zenon, <2>1 DEF Invocation
    <2> HIDE DEF x
    <2> QED
      BY Zenon, <1>1, <2>1, <2>2, <2>3 DEF Sound
  <1>3. cli' = [c \in Cli |-> cli'[c]]
    BY Zenon DEF ipc_stop
  <1>4. cli' \in [Cli -> Invocation]
    BY <1>2, <1>3
  <1> QED
    BY <1>1, <1>2, <1>4 DEF CommandInv

\* A kick that is reported has removed a session.
LEMMA KickInv ==
  ASSUME RegistryInv, NEW s \in Sessions, remove_client(s), joins' = joins
  PROVE  RegistryInv'
  BY DEF RegistryInv, KicksAdd, remove_client

\* A handshake adds one.
LEMMA JoinInv ==
  ASSUME RegistryInv, NEW s \in Sessions, client_joins(s)
  PROVE  RegistryInv'
  BY DEF RegistryInv, KicksAdd, client_joins

ControlInv == CommandInv /\ TunnelInv /\ RegistryInv

\* Every step of every thread keeps the invariant, and only the end of a
\* PUT writes the configuration, without the runner's guard.
LEMMA DaemonNextInv ==
  ControlInv /\ [DaemonNext]_daemon_vars =>
      ControlInv' /\ [config' # config => ~guard]_daemon_vars
  <1> SUFFICES ASSUME ControlInv, [DaemonNext]_daemon_vars
               PROVE  ControlInv' /\ (config' # config => ~guard)
    OBVIOUS
  <1> USE DEF ControlInv
  <1>a. ASSUME UNCHANGED <<cli, served, shutdown>> PROVE CommandInv'
    BY <1>a DEF CommandInv, Sound
  <1>b. ASSUME UNCHANGED <<tunnel, ready>> PROVE TunnelInv'
    BY <1>b DEF TunnelInv
  <1>c. ASSUME UNCHANGED <<joins, kicked, sessions>> PROVE RegistryInv'
    BY <1>c DEF RegistryInv, KicksAdd
  <1>1. CASE Onward
    BY <1>1, <1>a, <1>c, OnwardInv
  <1>2. CASE exit \/ crash
    BY <1>2, GoneInv DEF exit, crash
  <1>3. CASE signal_handler
    <2>1. shutdown' = TRUE /\ UNCHANGED <<cli, served, tunnel, ready, joins, kicked, sessions, config>>
      BY <1>3 DEF signal_handler, registry
    <2>2. shutdown' \in BOOLEAN
      BY <2>1, Zenon
    <2>3. CommandInv'
      BY <2>1, <2>2 DEF CommandInv, Sound
    <2> QED
      BY <2>1, <2>3, <1>b, <1>c
  <1>4. ASSUME NEW s \in Sessions, client_joins(s) PROVE ControlInv' /\ config' = config
    BY Zenon, <1>4, <1>a, <1>b, JoinInv DEF client_joins, process
  <1>5. ASSUME NEW s \in Sessions, web_kick(s) PROVE ControlInv' /\ config' = config
    BY <1>5, <1>a, <1>b, KickInv DEF web_kick, process
  <1>6. CASE spawn_ipc_server \/ ipc_accept \/ web_put_begin
    BY <1>6, <1>a, <1>b, <1>c DEF spawn_ipc_server, ipc_accept, web_put_begin, process, registry
  <1>7. CASE ipc_stop
    BY Zenon, <1>7, <1>b, <1>c, StopInv DEF ipc_stop, process, registry
  <1>8. ASSUME NEW c \in Cli, ipc_serve(c) PROVE ControlInv' /\ config' = config
    <2>1. UNCHANGED <<tunnel, ready, joins, config>>
      BY <1>8 DEF ipc_serve
    <2>2. PICK s \in Sessions : remove_client(s) \/ UNCHANGED <<sessions, kicked>>
      BY <1>8 DEF ipc_serve
    <2>3. RegistryInv'
      BY <2>1, <2>2, <1>c, KickInv
    <2> QED
      BY <1>8, <2>1, <2>3, <1>b, ServeInv
  <1>9. ASSUME NEW c \in Cli, ipc_hangup(c) PROVE ControlInv' /\ config' = config
    BY Zenon, <1>9, <1>b, <1>c, HangupInv DEF ipc_hangup, process, registry
  <1>10. ASSUME NEW c \in Cli, CliStep(c) \/ \E cmd \in Script(c) : cli_connect(c, cmd)
         PROVE  ControlInv' /\ config' = config
    BY Zenon, <1>10, <1>b, <1>c, CliInv
       DEF CliStep, cli_connect, cli_send, cli_done, cli_timeout, process, registry
  <1>11. CASE web_put_end
    BY <1>11, <1>a, <1>b, <1>c DEF web_put_end, CanWrite, process, registry
  <1>12. CASE UNCHANGED daemon_vars
    BY <1>12, <1>a, <1>b, <1>c DEF daemon_vars, process, registry
  <1> QED
    BY Zenon, <1>1, <1>2, <1>3, <1>4, <1>5, <1>6, <1>7, <1>8, <1>9, <1>10, <1>11, <1>12
       DEF DaemonNext, RunnerStep, IpcStep, Onward

(***************************************************************************)
(* ControlIsSafe: a command that reached the daemon is carried out at most *)
(* once and down's answer is read only with the flag set, kicks reported   *)
(* and sessions left add up to the handshakes, the tunnel is up only when  *)
(* what the mode needs is there, and no PUT writes the configuration while *)
(* the runner holds its guard.                                             *)
(***************************************************************************)
THEOREM ControlSafe == DaemonSpec => ControlIsSafe
  <1>1. DaemonInit => ControlInv
    BY DaemonInitInv DEF ControlInv
  <1>2. ControlInv => OncePerCommand
    BY DEF ControlInv, CommandInv, Sound, OncePerCommand, Waiting
  <1>3. ControlInv => \A s \in Sessions : joins[s] = kicked[s] + (IF s \in sessions THEN 1 ELSE 0)
    BY DEF ControlInv, RegistryInv, KicksAdd
  <1>4. ControlInv => (tunnel = "up" => ready)
    BY DEF ControlInv, TunnelInv
  <1> QED
    BY <1>1, <1>2, <1>3, <1>4, DaemonNextInv, PTL DEF DaemonSpec, ControlIsSafe

=============================================================================
