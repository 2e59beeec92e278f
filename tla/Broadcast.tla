------------------------------ MODULE Broadcast -----------------------------
(***************************************************************************)
(* The broadcast ring (broadcast.rs) between its one publisher, the        *)
(* daemon's loop, and one of its receivers; receivers do not change the    *)
(* ring.  send counts the item before it stores it, recv reads the count   *)
(* and then the slots one lock at a time.  An item is its own position.    *)
(***************************************************************************)
EXTENDS Integers, Sequences

CONSTANTS
    cap,                \* slots, a power of two
    MaxItems            \* bound: items published

ASSUME BcastAssumption == cap \in Nat \ {0}

VARIABLES
    write_pos, bslots,
    storing,            \* the position counted and not yet stored, or -1
    cursor,
    pass,               \* a recv on its way: head, start, pos, items
    met                 \* history: the pass met the publisher in its slots

bcast == <<write_pos, bslots, storing, cursor, pass, met>>

NoPass == [head |-> 0, start |-> 0, pos |-> 0, items |-> <<>>, on |-> FALSE]

BcastInit ==
    /\ write_pos = 0
    /\ bslots = [k \in 0 .. cap - 1 |-> -1]
    /\ storing = -1
    /\ cursor = 0
    /\ pass = NoPass
    /\ met = FALSE

send_count ==
    /\ storing = -1 /\ write_pos < MaxItems
    /\ storing' = write_pos
    /\ write_pos' = write_pos + 1
    /\ UNCHANGED <<bslots, cursor, pass, met>>

send_store ==
    /\ storing # -1
    /\ bslots' = [bslots EXCEPT ![storing % cap] = storing]
    /\ storing' = -1
    /\ UNCHANGED <<write_pos, cursor, pass, met>>

subscribe ==
    /\ ~pass.on
    /\ cursor' = write_pos
    /\ UNCHANGED <<write_pos, bslots, storing, pass, met>>

\* Variant: one item more than the ring holds.
Snapped_wide(head, from) == IF head - from > cap + 1 THEN head - cap - 1 ELSE from

Snapped(head, from) == IF head - from > cap THEN head - cap ELSE from

recv_begin ==
    /\ ~pass.on
    /\ LET start == Snapped(write_pos, cursor)
       IN  pass' = [head |-> write_pos, start |-> start, pos |-> start, items |-> <<>>,
                    on |-> TRUE]
    /\ met' = FALSE
    /\ UNCHANGED <<write_pos, bslots, storing, cursor>>

\* An empty slot gives no item.
recv_slot ==
    LET item == bslots[pass.pos % cap]
    IN  /\ pass.on /\ pass.pos < pass.head
        /\ pass' = [pass EXCEPT !.pos = @ + 1,
                                !.items = IF item = -1 THEN @ ELSE Append(@, item)]
        /\ met' = (met \/ storing = pass.pos
                   \/ (write_pos > pass.head /\ write_pos - pass.pos > cap))
        /\ UNCHANGED <<write_pos, bslots, storing, cursor>>

NextCursor == pass.head

recv_end ==
    /\ pass.on /\ pass.pos >= pass.head
    /\ cursor' = IF cursor >= pass.head THEN cursor ELSE NextCursor
    /\ pass' = [pass EXCEPT !.on = FALSE]
    /\ UNCHANGED <<write_pos, bslots, storing, met>>

BcastNext == send_count \/ send_store \/ subscribe \/ recv_begin \/ recv_slot \/ recv_end

BcastSpec == BcastInit /\ [][BcastNext]_bcast

----------------------------------------------------------------------------
(***************************************************************************)
(* A pass that does not meet the publisher in its slots delivers the items *)
(* of its positions, all of them, in order, and no more than the ring      *)
(* holds; a receiver that is too far behind goes on with the oldest item   *)
(* still there (broadcast.rs:68-93).  And no position is read twice: a     *)
(* pass starts at or after the head of the one before it                   *)
(* (broadcast.rs:107-112).                                                 *)
(***************************************************************************)
ReceivedInOrder ==
    /\ [](~met => pass.items =
             [k \in 1 .. pass.pos - pass.start |-> pass.start + k - 1])
    /\ [][~pass.on /\ pass'.on => pass'.start >= pass.head]_bcast
=============================================================================
