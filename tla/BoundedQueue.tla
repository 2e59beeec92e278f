---------------------------- MODULE BoundedQueue ----------------------------
(***************************************************************************)
(* What the ring of desmos-rt/src/ring.rs promises its two threads: a      *)
(* first-in first-out queue of at most `capacity` values.                  *)
(***************************************************************************)
EXTENDS Naturals, Sequences

CONSTANTS Value, capacity

VARIABLES
    queue,
    open            \* some handle is left

Init == queue = << >> /\ open = TRUE

Push(v) ==
    /\ open
    /\ Len(queue) < capacity
    /\ queue' = Append(queue, v)
    /\ UNCHANGED open

Pop ==
    /\ open
    /\ queue # << >>
    /\ queue' = Tail(queue)
    /\ UNCHANGED open

\* Both handles are gone: what is left is dropped.
Drop ==
    /\ open
    /\ queue' = << >>
    /\ open' = FALSE

Next == (\E v \in Value : Push(v)) \/ Pop \/ Drop

Spec == Init /\ [][Next]_<<queue, open>>

=============================================================================
