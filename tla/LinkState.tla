----------------------------- MODULE LinkState -----------------------------
(***************************************************************************)
(* The per-link health state machine of bonding/link_state.rs, as a value  *)
(* with its operations.  `Probation { until_ms }` is kept as the time that *)
(* is left of it, max(0, until_ms - now_ms): the code only ever asks       *)
(* whether now_ms >= until_ms.                                             *)
(***************************************************************************)
EXTENDS Integers

CONSTANTS
    PROBATION_MS,           \* length of a probation, in clock ticks
    HIGH_LOSS_STREAK,
    NO_RESPONSE_STREAK,
    RECOVERY_STREAK,
    U8Max                   \* where the u8 streak counters saturate

ASSUME LinkStateAssumption ==
    /\ PROBATION_MS \in Nat
    /\ U8Max \in Nat
    /\ HIGH_LOSS_STREAK \in 1 .. U8Max
    /\ NO_RESPONSE_STREAK \in 1 .. U8Max
    /\ RECOVERY_STREAK \in 1 .. U8Max

ProbeSample == {"Good", "HighLoss", "NoResponse"}

States == {"Healthy", "Probation", "Degraded", "Dead"}

NewMachine == [state |-> "Healthy", left |-> 0, high_loss_streak |-> 0,
               no_response_streak |-> 0, recovery_streak |-> 0]

is_bondable(m) == m.state # "Dead"

SaturatingIncrement(n) == IF n < U8Max THEN n + 1 ELSE n

(***************************************************************************)
(* A sample extends its own streak and clears the two others.              *)
(***************************************************************************)
CountSample(m, sample) ==
    [m EXCEPT
        !.recovery_streak    = IF sample = "Good"
                               THEN SaturatingIncrement(@) ELSE 0,
        !.high_loss_streak   = IF sample = "HighLoss"
                               THEN SaturatingIncrement(@) ELSE 0,
        !.no_response_streak = IF sample = "NoResponse"
                               THEN SaturatingIncrement(@) ELSE 0]

Silent(m)    == m.no_response_streak >= NO_RESPONSE_STREAK
Lossy(m)     == m.high_loss_streak >= HIGH_LOSS_STREAK
Recovered(m) == m.recovery_streak >= RECOVERY_STREAK

compute_next(m) ==
    CASE m.state = "Healthy"   -> IF Silent(m) THEN "Dead"
                                  ELSE IF Lossy(m) THEN "Degraded"
                                  ELSE "Healthy"
      [] m.state = "Degraded"  -> IF Silent(m) THEN "Dead"
                                  ELSE IF Recovered(m) THEN "Probation"
                                  ELSE "Degraded"
      [] m.state = "Dead"      -> IF Recovered(m) THEN "Probation" ELSE "Dead"
      [] m.state = "Probation" -> IF Silent(m) THEN "Dead"
                                  ELSE IF Lossy(m) THEN "Degraded"
                                  ELSE IF m.left = 0 THEN "Healthy"
                                  ELSE "Probation"

\* Variant: every sample taken on probation restarts its clock.
on_probe_restarts(m, sample) ==
    LET c == CountSample(m, sample)
        s == compute_next(c)
    IN  IF s = m.state
        THEN [c EXCEPT !.left = IF s = "Probation" THEN PROBATION_MS ELSE @]
        ELSE [NewMachine EXCEPT !.state = s,
                                !.left  = IF s = "Probation"
                                          THEN PROBATION_MS ELSE 0]

(***************************************************************************)
(* on_probe: a transition clears every streak, and entering Probation      *)
(* starts its clock.                                                       *)
(***************************************************************************)
on_probe(m, sample) ==
    LET c == CountSample(m, sample)
        s == compute_next(c)
    IN  IF s = m.state
        THEN c
        ELSE [NewMachine EXCEPT !.state = s,
                                !.left  = IF s = "Probation"
                                          THEN PROBATION_MS ELSE 0]

(***************************************************************************)
(* tick: the end of a probation clears the recovery streak only.           *)
(***************************************************************************)
tick(m) ==
    IF m.state = "Probation" /\ m.left = 0
    THEN [m EXCEPT !.state = "Healthy", !.recovery_streak = 0]
    ELSE m

(***************************************************************************)
(* The passage of one unit of time, seen by one machine.                   *)
(***************************************************************************)
Elapse(m) == IF m.left > 0 THEN [m EXCEPT !.left = @ - 1] ELSE m

============================================================================
