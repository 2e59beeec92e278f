------------------------------- MODULE Probing ------------------------------
(***************************************************************************)
(* The probes of one link and the statistics they feed: ProbeScheduler     *)
(* (bonding/probe.rs) and LinkStats (bonding/score.rs).  The caller that   *)
(* polls the scheduler and carries results into the statistics is external *)
(* and modelled from tests/probe_and_score.rs.  Echoes come at any time,   *)
(* late, twice or never.  The health of the link, one LinkStateMachine     *)
(* under probes (on_probe), the engine's periodic tick and the clock, is a *)
(* part of its own.                                                        *)
(***************************************************************************)
EXTENDS LinkState, Sequences, FiniteSets, SequencesExt, FiniteSetsExt

CONSTANTS
    interval_us, timeout_us, window_size,
    Word,               \* the range of u32
    MaxNow,             \* bound: the clock
    MaxAcks             \* bound: echoes taken; the average stays exact

VARIABLES
    now,
    last_send_us,       \* -1 is None
    next_seq,
    in_flight,          \* seq -> send time
    rtt_ewma_us,        \* in units of 1 / Scale; -1 while not seeded
    outcome_window, rtt_samples,
    resolved            \* history: <<seq, answered>> in the order counted

scheduler == <<last_send_us, next_seq, in_flight>>
stats == <<rtt_ewma_us, outcome_window, rtt_samples, resolved>>
vars == <<now, scheduler, stats>>

Scale == 8 ^ (MaxAcks - 1)

Init ==
    /\ now = 0
    /\ last_send_us = -1
    /\ next_seq = 0
    /\ in_flight = <<>>
    /\ rtt_ewma_us = -1
    /\ outcome_window = <<>>
    /\ rtt_samples = <<>>
    /\ resolved = <<>>

----------------------------------------------------------------------------
\* The statistics.

\* Append, dropping the oldest of a full window.
push_sample(window, x) ==
    Append(IF Len(window) = window_size THEN Tail(window) ELSE window, x)

SmoothedWith(rtt_us) ==
    IF rtt_ewma_us = -1 THEN rtt_us * Scale
    ELSE (7 * rtt_ewma_us + rtt_us * Scale) \div 8

record_rtt(seq, rtt_us) ==
    /\ rtt_ewma_us' = SmoothedWith(rtt_us)
    /\ rtt_samples' = push_sample(rtt_samples, rtt_us)
    /\ outcome_window' = push_sample(outcome_window, TRUE)
    /\ resolved' = Append(resolved, <<seq, TRUE>>)

LossPushed(window, seq) == push_sample(window, FALSE)

record_losses(seqs) ==
    LET oldestFirst == SetToSortSeq(seqs, <)
    IN  /\ outcome_window' = FoldLeft(LossPushed, outcome_window, oldestFirst)
        /\ resolved' = resolved \o [i \in DOMAIN oldestFirst |-> <<oldestFirst[i], FALSE>>]
        /\ UNCHANGED <<rtt_ewma_us, rtt_samples>>

rounded_ewma == IF rtt_ewma_us = -1 THEN 0 ELSE (2 * rtt_ewma_us + Scale) \div (2 * Scale)

\* The standard deviation of the samples, rounded: the j whose square is
\* nearest to the variance, (n * Sum of squares - Sum ^ 2) / n ^ 2.
jitter_us ==
    LET n == Len(rtt_samples)
        Total(f(_)) == FoldLeft(LAMBDA a, s : a + f(s), 0, rtt_samples)
        spread == n * Total(LAMBDA s : s * s) - Total(LAMBDA s : s) ^ 2
    IN  IF n < 2 THEN 0
        ELSE CHOOSE j \in 0 .. MaxNow :
                /\ (2 * j - 1) ^ 2 * n * n <= 4 * spread \/ j = 0
                /\ 4 * spread < (2 * j + 1) ^ 2 * n * n

\* composite as a fraction, the factor 10_000 left out; a window without
\* outcomes has no loss.
score ==
    LET answered == Len(SelectSeq(outcome_window, LAMBDA ok : ok))
        n == Len(outcome_window)
    IN  [answered |-> IF n = 0 THEN 1 ELSE answered,
         over |-> (IF n = 0 THEN 1 ELSE n) * (1000 + rounded_ewma + 2 * jitter_us)]

----------------------------------------------------------------------------
\* The scheduler and its caller.

is_due == last_send_us = -1 \/ now - last_send_us >= interval_us

Expired == {seq \in DOMAIN in_flight : now - in_flight[seq] >= timeout_us}

\* Variant: the expired probes are reported but kept.
Remaining_all == DOMAIN in_flight

Remaining == DOMAIN in_flight \ Expired

\* The caller's turn: drain_timeouts with a record_loss for each, then issue
\* when is_due.
turn ==
    LET kept == [seq \in Remaining |-> in_flight[seq]]
    IN  /\ record_losses(Expired)
        /\ IF is_due
           THEN /\ in_flight' = [seq \in Remaining \cup {next_seq} |->
                                    IF seq = next_seq THEN now ELSE kept[seq]]
                /\ next_seq' = next_seq + 1
                /\ last_send_us' = now
           ELSE in_flight' = kept /\ UNCHANGED <<next_seq, last_send_us>>
        /\ UNCHANGED now

\* An echo; on_ack gives None for a probe that is not in flight.
on_ack(seq) ==
    /\ seq \in DOMAIN in_flight
    /\ Len(SelectSeq(resolved, LAMBDA r : r[2])) < MaxAcks
    /\ in_flight' = [other \in DOMAIN in_flight \ {seq} |-> in_flight[other]]
    /\ record_rtt(seq, (now - in_flight[seq]) % Word)
    /\ UNCHANGED <<now, last_send_us, next_seq>>

Pass ==
    /\ now < MaxNow
    /\ now' = now + 1
    /\ UNCHANGED <<scheduler, stats>>

Next == Pass \/ turn \/ \E seq \in 0 .. next_seq - 1 : on_ack(seq)

Spec == Init /\ [][Next]_vars

----------------------------------------------------------------------------
(***************************************************************************)
(* Every probe is in flight, answered or lost, and counted once: a late or *)
(* second echo of a probe that has been counted changes nothing, and the   *)
(* window holds the latest outcomes (probe.rs:92-128, score.rs:73-105).    *)
(***************************************************************************)
CountedOnce ==
    LET seqs == {resolved[i][1] : i \in DOMAIN resolved}
        kept == Min({window_size, Len(resolved)})
    IN  /\ Cardinality(seqs) = Len(resolved)
        /\ DOMAIN in_flight = (0 .. next_seq - 1) \ seqs
        /\ outcome_window =
              [i \in 1 .. kept |-> resolved[Len(resolved) - kept + i][2]]

(***************************************************************************)
(* What the scheduler is told of a link is true, however rarely the caller *)
(* polls: every probe counts once; no more are in flight than fit in one   *)
(* timeout ("at most ~4 between the 500 ms interval and 2 s timeout",      *)
(* probe.rs:107-109); the smoothed time lies among the times measured; and *)
(* a turn in which probes only expire never raises the composite           *)
(* ("Higher composite = better link", score.rs:89-91, 163-174).            *)
(***************************************************************************)
StatisticsAreTrue ==
    /\ [](/\ CountedOnce
          /\ Cardinality(DOMAIN in_flight) <= (timeout_us + interval_us - 1) \div interval_us)
    /\ [](rtt_ewma_us # -1 /\ Len(rtt_samples) = Len(SelectSeq(resolved, LAMBDA r : r[2])) =>
             /\ rtt_ewma_us >= Scale * Min(Range(rtt_samples))
             /\ rtt_ewma_us <= Scale * Max(Range(rtt_samples)))
    /\ [][(\A i \in Len(resolved) + 1 .. Len(resolved') : ~resolved'[i][2]) =>
             score.answered' * score.over <= score.answered * score.over']_vars

----------------------------------------------------------------------------
\* The health of the link.

VARIABLES
    machine,
    run,        \* history: the current run of equal samples, [kind, len]
    beat        \* flips with every probe, so that a probe is always a step

health_vars == <<machine, run, beat>>

HealthInit ==
    /\ machine = NewMachine
    /\ run = [kind |-> "Good", len |-> 0]
    /\ beat = 0

probe(sample) ==
    /\ machine' = on_probe(machine, sample)
    /\ run' = [kind |-> sample,
               len  |-> IF run.kind = sample THEN SaturatingIncrement(run.len)
                                             ELSE 1]
    /\ beat' = 1 - beat

periodic_tick ==
    /\ machine' = tick(machine)
    /\ UNCHANGED <<run, beat>>

elapse ==
    /\ machine' = Elapse(machine)
    /\ UNCHANGED <<run, beat>>

Probe == \E sample \in ProbeSample : probe(sample)

HealthNext == Probe \/ periodic_tick \/ elapse

----------------------------------------------------------------------------
(***************************************************************************)
(* The state follows the probes, and no single one.  "One transient spike  *)
(* does not flip the state" (link_state.rs:24-26): a link is demoted or    *)
(* readmitted only at the end of an unbroken run of samples of one kind,   *)
(* whatever states and probations it went through during the run, and it   *)
(* is trusted again only from a probation.  A link that answers every      *)
(* probe from some point on is Healthy for good, and one that answers none *)
(* is Dead for good.                                                       *)
(***************************************************************************)
RunOf(sample, n) == run'.kind = sample /\ run'.len >= n

FlipsNeedAStreak ==
    [][machine'.state # machine.state =>
          CASE machine'.state = "Dead"      -> RunOf("NoResponse", NO_RESPONSE_STREAK)
            [] machine'.state = "Degraded"  -> RunOf("HighLoss", HIGH_LOSS_STREAK)
            [] machine'.state = "Probation" -> RunOf("Good", RECOVERY_STREAK)
            [] machine'.state = "Healthy"   -> machine.state = "Probation"]_health_vars

StateSettles ==
    /\ <>[](run.kind = "Good") => <>[](machine.state = "Healthy")
    /\ <>[](run.kind = "NoResponse") => <>[](machine.state = "Dead")

=============================================================================
