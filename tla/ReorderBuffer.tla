--------------------------- MODULE ReorderBuffer ---------------------------
(***************************************************************************)
(* The per-session reorder buffer of bonding/reorder.rs.  A packet is its  *)
(* sequence number: the buffer never looks at a payload.  A pending packet *)
(* is mapped to its age, the `now_ms - received_at_ms` that poll_timeout   *)
(* computes, which stops at GapTimeout because the code only asks whether  *)
(* it is below gap_timeout_ms.                                             *)
(***************************************************************************)
EXTENDS Integers, Sequences, FiniteSets

CONSTANTS
    LastSeq,        \* largest sequence number a DWP header carries (u32::MAX)
    Window,         \* ReorderBuffer::window
    GapTimeout,     \* ReorderBuffer::gap_timeout_ms, in clock ticks
    MaxDuplicates   \* bound on the late and duplicate arrivals explored

ASSUME ReorderAssumption ==
    /\ LastSeq \in Nat
    /\ Window \in Nat
    /\ GapTimeout \in Nat
    /\ MaxDuplicates \in Nat

VARIABLES
    initialised,
    next_expected,
    pending,        \* buffered sequence number -> age
    delivered,
    lost,
    duplicates,
    first,          \* history: the sequence number of the first packet pushed
    stream          \* history: every payload returned so far, in order

vars == <<initialised, next_expected, pending, delivered, lost, duplicates,
          first, stream>>

Sequence == 0 .. LastSeq

Init ==
    /\ initialised = FALSE
    /\ next_expected = 0
    /\ pending = [k \in {} |-> 0]
    /\ delivered = 0
    /\ lost = 0
    /\ duplicates = 0
    /\ first = 0
    /\ stream = << >>

(***************************************************************************)
(* The sequence numbers from .. to-1 in order.                             *)
(***************************************************************************)
Run(from, to) == [i \in 1 .. (to - from) |-> from + i - 1]

(***************************************************************************)
(* drain_contiguous, started with next_expected = n and the pending map p: *)
(* it stops at the first sequence number that is not buffered.             *)
(***************************************************************************)
DrainsTo(p, n, m) ==
    /\ \A k \in n .. (m - 1) : k \in DOMAIN p
    /\ m \notin DOMAIN p

drain_contiguous(p, n, from) ==
    \E m \in n .. (LastSeq + 1) :
        /\ DrainsTo(p, n, m)
        /\ next_expected' = m
        /\ pending' = [k \in {j \in DOMAIN p : j \notin n .. (m - 1)} |-> p[k]]
        /\ delivered' = delivered + (m - from)
        /\ stream' = stream \o Run(from, m)

\* Variant: the jump also counts the packet it lands on.
Skipped_inclusive(to) == to - next_expected + 1

(***************************************************************************)
(* What a jump of next_expected to `to` adds to the lost counter.          *)
(***************************************************************************)
Skipped(to) == to - next_expected

(***************************************************************************)
(* The pending map without what a forced skip to seq passes over.          *)
(***************************************************************************)
RetainAbove(seq) == [k \in {j \in DOMAIN pending : j > seq} |-> pending[k]]

----------------------------------------------------------------------------
(* The exits of push, in the order the code takes them.                    *)

push_first(seq) ==
    /\ ~initialised
    /\ initialised' = TRUE
    /\ next_expected' = seq + 1
    /\ delivered' = delivered + 1
    /\ first' = seq
    /\ stream' = Append(stream, seq)
    /\ UNCHANGED <<pending, lost, duplicates>>

push_duplicate(seq) ==
    /\ initialised
    /\ seq < next_expected \/ seq \in DOMAIN pending
    /\ duplicates < MaxDuplicates
    /\ duplicates' = duplicates + 1
    /\ UNCHANGED <<initialised, next_expected, pending, delivered, lost,
                   first, stream>>

Fresh(seq) ==
    /\ initialised
    /\ seq >= next_expected
    /\ seq \notin DOMAIN pending

push_force_skip(seq) ==
    /\ Fresh(seq)
    /\ seq >= next_expected + Window
    /\ lost' = lost + Skipped(seq)
    /\ drain_contiguous(RetainAbove(seq), seq + 1, seq)
    /\ UNCHANGED <<initialised, duplicates, first>>

push_in_order(seq) ==
    /\ Fresh(seq)
    /\ seq < next_expected + Window
    /\ seq = next_expected
    /\ drain_contiguous(pending, seq + 1, seq)
    /\ UNCHANGED <<initialised, lost, duplicates, first>>

push_buffer(seq) ==
    /\ Fresh(seq)
    /\ seq < next_expected + Window
    /\ seq > next_expected
    /\ pending' = [k \in DOMAIN pending \cup {seq} |->
                      IF k = seq THEN 0 ELSE pending[k]]
    /\ UNCHANGED <<initialised, next_expected, delivered, lost, duplicates,
                   first, stream>>

push(seq) ==
    \/ push_first(seq)
    \/ push_duplicate(seq)
    \/ push_force_skip(seq)
    \/ push_in_order(seq)
    \/ push_buffer(seq)

(***************************************************************************)
(* poll_timeout returns early while every pending packet is younger than   *)
(* the timeout; otherwise it skips to the smallest buffered sequence       *)
(* number, which need not be the packet that timed out.                    *)
(***************************************************************************)
\* Variant: the poll waits for the clock to pass the timeout by a tick that
\* the age, already at its maximum, never reaches.
TimedOut_strict == \E k \in DOMAIN pending : pending[k] > GapTimeout

TimedOut == \E k \in DOMAIN pending : pending[k] >= GapTimeout

poll_skip ==
    /\ TimedOut
    /\ \E oldest_seq \in DOMAIN pending :
          /\ \A k \in DOMAIN pending : oldest_seq <= k
          /\ LET start == IF oldest_seq > next_expected THEN oldest_seq
                                                       ELSE next_expected
             IN  /\ lost' = lost + Skipped(start)
                 /\ drain_contiguous(pending, start, start)
    /\ UNCHANGED <<initialised, duplicates, first>>

poll_timeout ==
    \/ poll_skip
    \/ ~TimedOut /\ UNCHANGED vars

(***************************************************************************)
(* The clock: now_ms grows between two calls.                              *)
(***************************************************************************)
tick ==
    /\ \E k \in DOMAIN pending : pending[k] < GapTimeout
    /\ pending' = [k \in DOMAIN pending |->
                      IF pending[k] < GapTimeout THEN pending[k] + 1
                                                 ELSE pending[k]]
    /\ UNCHANGED <<initialised, next_expected, delivered, lost, duplicates,
                   first, stream>>

Next ==
    \/ \E seq \in Sequence : push(seq)
    \/ poll_timeout
    \/ tick

Spec == Init /\ [][Next]_vars

(***************************************************************************)
(* Time passes, and the owner of the buffer keeps polling it, as the       *)
(* module comment of reorder.rs (lines 21-25) requires of its caller.      *)
(***************************************************************************)
FairSpec == Spec /\ WF_vars(tick) /\ WF_vars(poll_timeout)

----------------------------------------------------------------------------

(***************************************************************************)
(* Every field stays in its type.  Ages never pass the timeout.            *)
(***************************************************************************)
TypeOK ==
    /\ initialised \in BOOLEAN
    /\ next_expected \in 0 .. (LastSeq + 1)
    /\ DOMAIN pending \subseteq Sequence
    /\ pending \in [DOMAIN pending -> 0 .. GapTimeout]
    /\ delivered \in Nat
    /\ lost \in Nat
    /\ duplicates \in Nat
    /\ first \in Sequence
    /\ stream \in Seq(Sequence)

(***************************************************************************)
(* push and poll_timeout hand out payloads "in strict sequence order"      *)
(* (reorder.rs:102-105) over the whole life of the buffer: whatever mix of *)
(* late, duplicate, buffered and force-skipped packets arrives, no payload *)
(* is returned twice or after a later one.                                 *)
(***************************************************************************)
StreamInOrder ==
    \A i, j \in DOMAIN stream : i < j => stream[i] < stream[j]

(***************************************************************************)
(* The metrics are exact: every sequence number between the first packet   *)
(* and next_expected was either returned to the caller or counted in       *)
(* `lost`, and none is counted twice (reorder.rs:27-28).                   *)
(***************************************************************************)
Accounting ==
    /\ delivered = Len(stream)
    /\ initialised => delivered + lost = next_expected - first
    /\ \A i \in DOMAIN stream : stream[i] \in first .. (next_expected - 1)

(***************************************************************************)
(* What is buffered is always strictly ahead of next_expected and inside   *)
(* the window, so the BTreeMap never holds `window` packets or more, and a *)
(* contiguous run is never left behind undelivered.                        *)
(***************************************************************************)
PendingInWindow ==
    \A k \in DOMAIN pending :
        /\ initialised
        /\ next_expected < k
        /\ k < next_expected + Window

(***************************************************************************)
(* What the buffer hands out is exact, whatever arrives: in strict order,  *)
(* each sequence number passed returned or counted as lost, and nothing    *)
(* held back that could be delivered.                                      *)
(***************************************************************************)
StreamIsExact == StreamInOrder /\ Accounting /\ PendingInWindow

(***************************************************************************)
(* No packet is buffered for ever: polled regularly, the buffer delivers   *)
(* or discards everything it holds, whatever keeps arriving.               *)
(***************************************************************************)
PendingReleased ==
    \A k \in Sequence : (k \in DOMAIN pending) ~> (k \notin DOMAIN pending)

============================================================================
