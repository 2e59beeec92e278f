------------------------------ MODULE SpscRing ------------------------------
(***************************************************************************)
(* The single-producer single-consumer ring of desmos-rt/src/ring.rs.      *)
(* head and tail are counters of the machine's word size (modulo Word);    *)
(* every access to shared memory is a step of its own.  An Acquire load of *)
(* the other thread's counter may return an older value than the current   *)
(* one, but none older than the last it returned.                          *)
(***************************************************************************)
EXTENDS Integers, Sequences

CONSTANTS
    capacity,       \* a power of two
    Word,           \* 2^64 in the code, a multiple of capacity
    MaxPushed       \* bound: how many values are pushed

ASSUME SpscRingAssumption ==
    /\ capacity \in Nat \ {0}
    /\ Word \in Nat
    /\ Word > capacity
    /\ Word % capacity = 0
    /\ MaxPushed \in Nat

VARIABLES
    buffer,         \* the slots
    head, tail,
    prod,           \* locals of try_push: pc, and the head it has loaded
    cons,           \* locals of try_pop: pc, the tail it has loaded, the value
    pushed,         \* history: how many values were pushed; value n is the n-th
    popped,         \* history: the values returned by try_pop
    dropped         \* history: the values dropped with the ring

vars == <<buffer, head, tail, prod, cons, pushed, popped, dropped>>

Uninit == 0

Init ==
    /\ buffer = [i \in 0 .. capacity - 1 |-> Uninit]
    /\ head = 0
    /\ tail = 0
    /\ prod = [pc |-> "idle", head |-> 0]
    /\ cons = [pc |-> "idle", tail |-> 0, value |-> Uninit]
    /\ pushed = 0
    /\ popped = << >>
    /\ dropped = << >>

wrapping_add(x, y) == (x + y) % Word
wrapping_sub(x, y) == (x - y) % Word

Slot(counter) == counter % capacity

\* What a load of a counter may return that had the value `seen` at the last load.
Loads(seen, now) ==
    {wrapping_add(seen, d) : d \in 0 .. wrapping_sub(now, seen)}

----------------------------------------------------------------------------
(* Producer::try_push                                                      *)

\* Variant: one slot is kept too few.
Full_late(t, h) == wrapping_sub(t, h) = capacity + 1

Full(t, h) == wrapping_sub(t, h) = capacity

push_load ==
    /\ prod.pc = "idle"
    /\ pushed < MaxPushed
    /\ \E h \in Loads(prod.head, head) :
          prod' = [pc |-> IF Full(tail, h) THEN "idle" ELSE "write", head |-> h]
    /\ UNCHANGED <<buffer, head, tail, cons, pushed, popped, dropped>>

push_write ==
    /\ prod.pc = "write"
    /\ buffer' = [buffer EXCEPT ![Slot(tail)] = pushed + 1]
    /\ prod' = [prod EXCEPT !.pc = "publish"]
    /\ UNCHANGED <<head, tail, cons, pushed, popped, dropped>>

push_publish ==
    /\ prod.pc = "publish"
    /\ tail' = wrapping_add(tail, 1)
    /\ pushed' = pushed + 1
    /\ prod' = [prod EXCEPT !.pc = "idle"]
    /\ UNCHANGED <<buffer, head, cons, popped, dropped>>

----------------------------------------------------------------------------
(* Consumer::try_pop                                                       *)

pop_load ==
    /\ cons.pc = "idle"
    /\ \E t \in Loads(cons.tail, tail) :
          cons' = [cons EXCEPT !.pc = IF head = t THEN "idle" ELSE "read", !.tail = t]
    /\ UNCHANGED <<buffer, head, tail, prod, pushed, popped, dropped>>

pop_read ==
    /\ cons.pc = "read"
    /\ cons' = [cons EXCEPT !.pc = "publish", !.value = buffer[Slot(head)]]
    /\ UNCHANGED <<buffer, head, tail, prod, pushed, popped, dropped>>

pop_publish ==
    /\ cons.pc = "publish"
    /\ head' = wrapping_add(head, 1)
    /\ popped' = Append(popped, cons.value)
    /\ cons' = [cons EXCEPT !.pc = "idle", !.value = Uninit]
    /\ UNCHANGED <<buffer, tail, prod, pushed, dropped>>

----------------------------------------------------------------------------
\* The values between head and tail, oldest first.
Contents ==
    [i \in 1 .. wrapping_sub(tail, head) |-> buffer[Slot(wrapping_add(head, i - 1))]]

drop_producer ==
    /\ prod.pc = "idle"
    /\ prod' = [prod EXCEPT !.pc = "gone"]
    /\ UNCHANGED <<buffer, head, tail, cons, pushed, popped, dropped>>

drop_consumer ==
    /\ cons.pc = "idle"
    /\ cons' = [cons EXCEPT !.pc = "gone"]
    /\ UNCHANGED <<buffer, head, tail, prod, pushed, popped, dropped>>

\* The last Arc is gone: the slots in [head, tail) are dropped.
drop_ring ==
    /\ prod.pc = "gone"
    /\ cons.pc = "gone"
    /\ dropped' = Contents
    /\ head' = tail
    /\ prod' = [prod EXCEPT !.pc = "freed"]
    /\ UNCHANGED <<buffer, tail, cons, pushed, popped>>

producer == push_load \/ push_write \/ push_publish
consumer == pop_load \/ pop_read \/ pop_publish

Next == producer \/ consumer \/ drop_producer \/ drop_consumer \/ drop_ring

Spec == Init /\ [][Next]_vars

----------------------------------------------------------------------------

(***************************************************************************)
(* The SAFETY comments of ring.rs:115-121 and 158-163: while the producer  *)
(* writes a slot the consumer does not read it, also where the counters    *)
(* wrap around and with stale values of the other's counter.               *)
(***************************************************************************)
SlotsNotShared ==
    ~ /\ prod.pc = "write"
      /\ cons.pc \in {"read", "publish"}
      /\ Slot(head) = Slot(tail)

(***************************************************************************)
(* Every value that try_push accepted is popped, in the ring or dropped    *)
(* with it, once and in the order of the pushes: nothing is leaked and     *)
(* nothing freed twice (Drop, ring.rs:80-101).                             *)
(***************************************************************************)
NothingLostOrTwice ==
    popped \o (IF prod.pc = "freed" THEN dropped ELSE Contents)
        = [n \in 1 .. pushed |-> n]

(***************************************************************************)
(* The ring implements the bounded queue: try_push and try_pop take effect *)
(* when they publish their counter, and dropping the ring closes it.       *)
(* Meanwhile no slot is shared and no value lost or freed twice.           *)
(***************************************************************************)
Queue == INSTANCE BoundedQueue WITH
    queue <- Contents, open <- prod.pc # "freed", Value <- 1 .. MaxPushed

ImplementsQueue == Queue!Spec /\ [](SlotsNotShared /\ NothingLostOrTwice)

=============================================================================
