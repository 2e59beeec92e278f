----------------------------- MODULE TimerWheel -----------------------------
(***************************************************************************)
(* The hierarchical timer wheel of desmos-rt/src/timer.rs: four levels of  *)
(* SLOTS slots, and a clock that ends at U64Max.                           *)
(***************************************************************************)
EXTENDS Integers

CONSTANTS
    SLOTS,              \* 32 in the code, 2^BITS_PER_LEVEL
    U64Max,
    Delays,             \* the delays that are scheduled
    MaxStep,            \* bound: how far one poll advances
    MaxTimers           \* bound

ASSUME WheelAssumption ==
    /\ SLOTS \in Nat /\ SLOTS > 1
    /\ U64Max \in Nat
    /\ Delays \subseteq Nat
    /\ MaxStep \in Nat

VARIABLES
    entries,            \* the timers in the wheel, each with its level and slot
    current_ms,
    next_id,
    fired               \* history: each fired timer with the tick it fired in

timer_wheel == <<entries, current_ms, next_id, fired>>

WheelInit ==
    /\ entries = {}
    /\ current_ms = 0
    /\ next_id = 0
    /\ fired = {}

Capped(t) == IF t > U64Max THEN U64Max ELSE t

\* The milliseconds a slot of a level stands for: 1 << (lvl * BITS_PER_LEVEL).
Span(lvl) ==
    CASE lvl = 0 -> 1
      [] lvl = 1 -> SLOTS
      [] lvl = 2 -> SLOTS * SLOTS
      [] OTHER   -> SLOTS * SLOTS * SLOTS

\* Variant: the first level is one slot too long.
level_for_delta_wide(delta) ==
    IF delta <= Span(1) THEN 0
    ELSE IF delta < Span(2) THEN 1 ELSE IF delta < Span(3) THEN 2 ELSE 3

level_for_delta(delta) ==
    IF delta < Span(1) THEN 0
    ELSE IF delta < Span(2) THEN 1 ELSE IF delta < Span(3) THEN 2 ELSE 3

SlotAt(lvl, time) == (time \div Span(lvl)) % SLOTS

\* Where a timer goes at time `now`.
insert_entry(id, expires, now) ==
    LET lvl == level_for_delta(IF expires > now THEN expires - now ELSE 0)
    IN  [id |-> id, expires |-> expires, lvl |-> lvl, slot |-> SlotAt(lvl, expires)]

cascade_level(wheel, now, lvl) ==
    LET moved == {e \in wheel : e.lvl = lvl /\ e.slot = SlotAt(lvl, now)}
    IN  (wheel \ moved) \cup {insert_entry(e.id, e.expires, now) : e \in moved}

\* A level is cascaded when the clock enters one of its slots.
Cascaded(wheel, now, lvl) ==
    IF now % Span(lvl) = 0 THEN cascade_level(wheel, now, lvl) ELSE wheel

cascade_if_needed(wheel, now) ==
    Cascaded(Cascaded(Cascaded(wheel, now, 3), now, 2), now, 1)

\* One turn of poll's loop: the wheel, and what has fired.
Turn(state, now) ==
    LET wheel == cascade_if_needed(state.wheel, now)
        due   == {e \in wheel : e.lvl = 0 /\ e.slot = SlotAt(0, now)}
    IN  [wheel |-> wheel \ due,
         out   |-> state.out \cup {[id |-> e.id, expires |-> e.expires, at |-> now] :
                                     e \in due}]

----------------------------------------------------------------------------
schedule(after) ==
    /\ next_id < MaxTimers
    /\ entries' = entries \cup
          {insert_entry(next_id, Capped(current_ms + after), current_ms)}
    /\ next_id' = next_id + 1
    /\ UNCHANGED <<current_ms, fired>>

\* The state after each turn of a poll that starts at `from`, up to `count` turns.
Turns(start, from, count) ==
    LET after[n \in 0 .. count] ==
            IF n = 0 THEN start ELSE Turn(after[n - 1], from + n - 1)
    IN  after

\* The clock ends in the turn of U64Max, which is then repeated by every poll.
wheel_poll(now) ==
    LET count  == now - current_ms + 1
        result == Turns([wheel |-> entries, out |-> fired], current_ms, count)[count]
    IN  /\ current_ms <= now
        /\ entries' = result.wheel
        /\ fired' = result.out
        /\ current_ms' = Capped(now + 1)
        /\ UNCHANGED next_id

WheelNext ==
    \/ \E after \in Delays : schedule(after)
    \/ \E now \in current_ms .. Capped(current_ms + MaxStep) : wheel_poll(now)

WheelSpec == WheelInit /\ [][WheelNext]_timer_wheel

----------------------------------------------------------------------------
(***************************************************************************)
(* A timer fires in the turn of its own millisecond, through all cascades, *)
(* however far a poll advances and however long the delay is: never early, *)
(* never late, never twice (timer.rs:72-94).  And none is lost: each one   *)
(* scheduled has fired or lies ahead of the clock.                         *)
(***************************************************************************)
FiresOnTime ==
    /\ \A f \in fired : f.at = f.expires
    /\ \A f, g \in fired : f.id = g.id => f = g
    /\ {f.id : f \in fired} \cup {e.id : e \in entries} = 0 .. next_id - 1
    /\ \A e \in entries : e.expires >= current_ms /\ e.id \notin {f.id : f \in fired}

=============================================================================
