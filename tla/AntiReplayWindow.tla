-------------------------- MODULE AntiReplayWindow --------------------------
(***************************************************************************)
(* The sliding anti-replay window of desmos-proto/src/antireplay.rs, as a  *)
(* value with its operations, so that every session can own one.  The      *)
(* 128-bit bitmap is the set of its bits that are 1: offset k stands for   *)
(* the sequence number highest - k.                                        *)
(***************************************************************************)
EXTENDS Integers, FiniteSets, TLAPS

CONSTANTS
    MaxSeq,         \* largest sequence number a DWP header carries (u32::MAX)
    WINDOW_SIZE     \* width of the window, in packets (128)

ASSUME AntiReplayAssumption ==
    /\ MaxSeq \in Nat
    /\ WINDOW_SIZE \in Nat \ {0}

SeqNo == 0 .. MaxSeq

Offset == 0 .. (WINDOW_SIZE - 1)

Windows == [initialised : BOOLEAN, highest : SeqNo, bitmap : SUBSET Offset]

new == [initialised |-> FALSE, highest |-> 0, bitmap |-> {}]

would_accept(w, seq) ==
    \/ ~w.initialised
    \/ seq > w.highest
    \/ /\ w.highest - seq < WINDOW_SIZE
       /\ w.highest - seq \notin w.bitmap

(***************************************************************************)
(* bitmap << shift on a u128: bits that leave the window are dropped.      *)
(***************************************************************************)
ShiftLeft(bitmap, shift) == {o \in Offset : o - shift \in bitmap}

\* Variant: a long jump clears the bitmap without marking the new top.
Slide_unmarked(w, seq) ==
    [w EXCEPT !.highest = seq,
              !.bitmap  = IF seq - w.highest >= WINDOW_SIZE
                          THEN {}
                          ELSE ShiftLeft(w.bitmap, seq - w.highest) \cup {0}]

Slide(w, seq) ==
    [w EXCEPT !.highest = seq,
              !.bitmap  = IF seq - w.highest >= WINDOW_SIZE
                          THEN {0}
                          ELSE ShiftLeft(w.bitmap, seq - w.highest) \cup {0}]

(***************************************************************************)
(* check_and_update: the verdict and the window after it.                  *)
(***************************************************************************)
Verdict == {"Ok", "OutOfWindow", "Duplicate"}

Check(w, seq) ==
    IF ~w.initialised \/ seq > w.highest         THEN "Ok"
    ELSE IF w.highest - seq >= WINDOW_SIZE       THEN "OutOfWindow"
    ELSE IF w.highest - seq \in w.bitmap         THEN "Duplicate"
    ELSE "Ok"

Update(w, seq) ==
    IF Check(w, seq) # "Ok"   THEN w
    ELSE IF ~w.initialised    THEN [initialised |-> TRUE, highest |-> seq,
                                    bitmap |-> {0}]
    ELSE IF seq > w.highest   THEN Slide(w, seq)
    ELSE [w EXCEPT !.bitmap = @ \cup {w.highest - seq}]

----------------------------------------------------------------------------
(* What every owner of a window needs to know of it.                       *)

\* The sequence numbers a window has a bit for.
Marks(w) == {w.highest - o : o \in w.bitmap}

\* check_and_update leaves a window of the same type.
LEMMA UpdateIsWindow ==
    ASSUME NEW w \in Windows, NEW seq \in SeqNo
    PROVE  Update(w, seq) \in Windows
  <1>1. 0 \in Offset
    BY AntiReplayAssumption DEF Offset
  <1>2. CASE Check(w, seq) # "Ok"
    BY <1>2 DEF Update
  <1>3. CASE Check(w, seq) = "Ok" /\ ~w.initialised
    <2>1. Update(w, seq) = [initialised |-> TRUE, highest |-> seq, bitmap |-> {0}]
      BY <1>3 DEF Update
    <2>2. {0} \in SUBSET Offset
      BY <1>1
    <2> QED
      BY <2>1, <2>2 DEF Windows
  <1>4. CASE Check(w, seq) = "Ok" /\ w.initialised /\ seq > w.highest
    <2>1. Update(w, seq) = Slide(w, seq)
      BY <1>4 DEF Update
    <2>2. PICK b : /\ b \in SUBSET Offset
                   /\ Slide(w, seq) = [w EXCEPT !.highest = seq, !.bitmap = b]
      <3> DEFINE b == IF seq - w.highest >= WINDOW_SIZE
                      THEN {0}
                      ELSE ShiftLeft(w.bitmap, seq - w.highest) \cup {0}
      <3>1. b \in SUBSET Offset
        BY <1>1 DEF ShiftLeft
      <3>2. Slide(w, seq) = [w EXCEPT !.highest = seq, !.bitmap = b]
        BY Zenon DEF Slide
      <3> HIDE DEF b
      <3> QED
        BY Zenon, <3>1, <3>2
    <2> QED
      BY Zenon, <2>1, <2>2 DEF Windows
  <1>5. CASE Check(w, seq) = "Ok" /\ w.initialised /\ ~(seq > w.highest)
    <2>1. Update(w, seq) = [w EXCEPT !.bitmap = @ \cup {w.highest - seq}]
      BY <1>5 DEF Update
    <2>2. w.highest - seq \in Offset
      BY <1>5, AntiReplayAssumption DEF Check, Offset, SeqNo, Windows
    <2> QED
      BY <2>1, <2>2 DEF Windows
  <1> QED
    BY <1>2, <1>3, <1>4, <1>5

\* The first packet a window sees becomes its top.
LEMMA UpdateFirst ==
    ASSUME NEW w \in Windows, NEW seq \in SeqNo, ~w.initialised
    PROVE  Update(w, seq) = [initialised |-> TRUE, highest |-> seq, bitmap |-> {0}]
  BY DEF Check, Update

\* A packet ahead of the window becomes its top; the bits move with it.
LEMMA UpdateAhead ==
    ASSUME NEW w \in Windows, NEW seq \in SeqNo, w.initialised, seq > w.highest
    PROVE  /\ Update(w, seq).initialised
           /\ Update(w, seq).highest = seq
           /\ Update(w, seq).bitmap =
                 IF seq - w.highest >= WINDOW_SIZE THEN {0}
                 ELSE {o \in Offset : o - (seq - w.highest) \in w.bitmap} \cup {0}
  <1>1. Update(w, seq) = Slide(w, seq)
    BY DEF Check, Update
  <1> QED
    BY <1>1 DEF Slide, ShiftLeft, Windows

\* A late packet that is let through only adds its own bit.
LEMMA UpdateBehind ==
    ASSUME NEW w \in Windows, NEW seq \in SeqNo, Check(w, seq) = "Ok",
           w.initialised, ~(seq > w.highest)
    PROVE  /\ Update(w, seq).initialised
           /\ Update(w, seq).highest = w.highest
           /\ Update(w, seq).bitmap = w.bitmap \cup {w.highest - seq}
  <1>1. Update(w, seq) = [w EXCEPT !.bitmap = @ \cup {w.highest - seq}]
    BY DEF Update
  <1> QED
    BY <1>1 DEF Windows

\* A packet that was let through is refused from then on.
LEMMA UpdateRefuses ==
    ASSUME NEW w \in Windows, NEW seq \in SeqNo
    PROVE  Check(Update(w, seq), seq) # "Ok"
  <1>1. CASE Check(w, seq) # "Ok"
    BY <1>1 DEF Update
  <1>2. CASE Check(w, seq) = "Ok"
    <2> DEFINE u == Update(w, seq)
    <2>1. u.initialised
      <3>1. CASE ~w.initialised
        BY <3>1, UpdateFirst
      <3>2. CASE w.initialised /\ seq > w.highest
        BY Zenon, <3>2, UpdateAhead
      <3>3. CASE w.initialised /\ ~(seq > w.highest)
        BY <1>2, <3>3, UpdateBehind
      <3> QED
        BY <3>1, <3>2, <3>3
    <2>2. seq <= u.highest /\ u.highest - seq \in u.bitmap
      <3>1. CASE ~w.initialised
        BY <3>1, UpdateFirst DEF SeqNo
      <3>2. CASE w.initialised /\ seq > w.highest
        <4>1. u.highest = seq /\ 0 \in u.bitmap
          BY Zenon, <3>2, UpdateAhead
        <4> QED
          BY <4>1 DEF SeqNo
      <3>3. CASE w.initialised /\ ~(seq > w.highest)
        <4>1. u.highest = w.highest /\ w.highest - seq \in u.bitmap
          BY <1>2, <3>3, UpdateBehind
        <4> QED
          BY <3>3, <4>1 DEF SeqNo, Windows
      <3> QED
        BY <3>1, <3>2, <3>3
    <2>3. u.highest \in Int
      BY UpdateIsWindow DEF Windows, SeqNo
    <2> HIDE DEF u
    <2> QED
      BY <2>1, <2>2, <2>3, AntiReplayAssumption DEF Check, SeqNo, u
  <1> QED
    BY <1>1, <1>2

\* Once refused, a packet is refused for good, whatever slides the window.
LEMMA RefusalStable ==
    ASSUME NEW w \in Windows, NEW s \in SeqNo, NEW seq \in SeqNo,
           Check(w, s) # "Ok"
    PROVE  Check(Update(w, seq), s) # "Ok"
  <1>1. CASE Check(w, seq) # "Ok"
    BY <1>1 DEF Update
  <1>2. CASE Check(w, seq) = "Ok"
    <2> DEFINE u == Update(w, seq)
    <2>1. /\ w.initialised /\ s <= w.highest /\ w.highest \in Nat
          /\ w.highest - s >= WINDOW_SIZE \/ w.highest - s \in w.bitmap
      BY AntiReplayAssumption DEF Check, SeqNo, Windows
    <2>2. CASE seq > w.highest
      <3>1. /\ u.initialised /\ u.highest = seq
            /\ u.bitmap = IF seq - w.highest >= WINDOW_SIZE THEN {0}
                          ELSE {o \in Offset : o - (seq - w.highest) \in w.bitmap} \cup {0}
        BY <2>1, <2>2, UpdateAhead
      <3> HIDE DEF u
      <3>2. s <= u.highest
        BY <2>1, <2>2, <3>1 DEF SeqNo
      <3>3. CASE u.highest - s >= WINDOW_SIZE
        BY <3>1, <3>2, <3>3, AntiReplayAssumption DEF Check, SeqNo, u
      <3>4. CASE ~(u.highest - s >= WINDOW_SIZE)
        <4>1. ~(seq - w.highest >= WINDOW_SIZE) /\ seq - s \in Offset
          BY <2>1, <2>2, <3>1, <3>4, AntiReplayAssumption DEF SeqNo, Offset
        <4>2. w.highest - s \in w.bitmap
          BY <2>1, <2>2, <3>1, <3>4, AntiReplayAssumption DEF SeqNo
        <4>3. (seq - s) - (seq - w.highest) = w.highest - s
          BY <2>1 DEF SeqNo
        <4>4. u.highest - s \in u.bitmap
          BY <3>1, <4>1, <4>2, <4>3
        <4> QED
          BY <3>1, <3>2, <3>4, <4>4, AntiReplayAssumption DEF Check, SeqNo, u
      <3> QED
        BY <3>3, <3>4
    <2>3. CASE ~(seq > w.highest)
      <3>1. u.initialised /\ u.highest = w.highest /\ w.bitmap \subseteq u.bitmap
        BY <1>2, <2>1, <2>3, UpdateBehind
      <3> HIDE DEF u
      <3> QED
        BY <2>1, <3>1, AntiReplayAssumption DEF Check, SeqNo, u
    <2> QED
      BY <2>2, <2>3
  <1> QED
    BY <1>1, <1>2

\* The window marks what was let through and invents nothing.
LEMMA MarksGrow ==
    ASSUME NEW w \in Windows, NEW seq \in SeqNo, Check(w, seq) = "Ok"
    PROVE  /\ Marks(Update(w, seq)) \subseteq Marks(w) \cup {seq}
           /\ \/ Update(w, seq).highest = seq
              \/ w.initialised /\ Update(w, seq).highest = w.highest
  <1> DEFINE u == Update(w, seq)
  <1>1. u.highest = seq \/ (w.initialised /\ u.highest = w.highest)
    <2>1. CASE ~w.initialised
      BY <2>1, UpdateFirst
    <2>2. CASE w.initialised /\ seq > w.highest
      BY Zenon, <2>2, UpdateAhead
    <2>3. CASE w.initialised /\ ~(seq > w.highest)
      BY <2>3, UpdateBehind
    <2> QED
      BY <2>1, <2>2, <2>3
  <1>2. ASSUME NEW o \in u.bitmap
        PROVE  u.highest - o \in Marks(w) \cup {seq}
    <2>1. CASE ~w.initialised
      BY <2>1, UpdateFirst DEF SeqNo
    <2>2. CASE w.initialised /\ seq > w.highest
      <3>1. u.highest = seq /\ (o = 0 \/ (o \in Offset /\ o - (seq - w.highest) \in w.bitmap))
        <4>1. u.highest = seq
          BY Zenon, <2>2, UpdateAhead
        <4>2. u.bitmap = IF seq - w.highest >= WINDOW_SIZE THEN {0}
                         ELSE {k \in Offset : k - (seq - w.highest) \in w.bitmap} \cup {0}
          BY <2>2, UpdateAhead
        <4> HIDE DEF u
        <4> QED
          BY <1>2, <4>1, <4>2
      <3> HIDE DEF u
      <3>2. CASE o = 0
        BY <3>1, <3>2 DEF SeqNo
      <3>3. CASE o \in Offset /\ o - (seq - w.highest) \in w.bitmap
        <4>1. w.highest - (o - (seq - w.highest)) = seq - o
          BY <3>3, AntiReplayAssumption DEF Offset, SeqNo, Windows
        <4> QED
          BY <3>1, <3>3, <4>1 DEF Marks
      <3> QED
        BY <3>1, <3>2, <3>3
    <2>3. CASE w.initialised /\ ~(seq > w.highest)
      <3>1. u.highest = w.highest /\ (o \in w.bitmap \/ o = w.highest - seq)
        BY <1>2, <2>3, UpdateBehind
      <3> HIDE DEF u
      <3>2. w.highest - (w.highest - seq) = seq
        BY DEF SeqNo, Windows
      <3> QED
        BY <3>1, <3>2 DEF Marks
    <2> QED
      BY <2>1, <2>2, <2>3
  <1> QED
    BY <1>1, <1>2 DEF Marks

\* Why a packet is refused: it is marked, or the window has passed it.
LEMMA RefusalCause ==
    ASSUME NEW w \in Windows, NEW seq \in SeqNo, Check(w, seq) # "Ok"
    PROVE  /\ w.initialised
           /\ seq \in Marks(w) \/ seq + WINDOW_SIZE <= w.highest
  <1>1. /\ w.initialised /\ w.highest \in Nat
        /\ w.highest - seq >= WINDOW_SIZE \/ w.highest - seq \in w.bitmap
    BY AntiReplayAssumption DEF Check, SeqNo, Windows
  <1>2. w.highest - (w.highest - seq) = seq
    BY <1>1 DEF SeqNo
  <1> QED
    BY <1>1, <1>2, AntiReplayAssumption DEF Marks, SeqNo
=============================================================================
