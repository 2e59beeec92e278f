------------------------------ MODULE MCLinks -------------------------------
(***************************************************************************)
(* What the client knows of its links, for TLC: the fail-over controller,  *)
(* the health of one link, its probes and statistics, and its path MTU.    *)
(* A behaviour is one of a single part, the others rest.  The controller   *)
(* has two links, streaks of one or two samples, a probation of one tick   *)
(* and one edit from the web UI, enough for either writer to overlap the   *)
(* other; both links start with weight 1.  The health of a single link     *)
(* has the streaks of the code.                                            *)
(***************************************************************************)
EXTENDS LinkFailover, Pmtud, TLC

VARIABLES
    part,
    now, last_send_us, next_seq, in_flight, rtt_ewma_us,        \* Probing
    outcome_window, rtt_samples, resolved, machine, run, beat

\* Streak counters saturate one above the longest streak, where they no
\* longer change a comparison.
Probes == INSTANCE Probing WITH
    interval_us <- 2, timeout_us <- 5, window_size <- 3, Word <- 16, MaxNow <- 9,
    MaxAcks <- 3,
    PROBATION_MS <- 3, HIGH_LOSS_STREAK <- 5, NO_RESPONSE_STREAK <- 3,
    RECOVERY_STREAK <- 3, U8Max <- 6

health == <<machine, run, beat>>
probes == <<now, last_send_us, next_seq, in_flight, rtt_ewma_us, outcome_window,
            rtt_samples, resolved>>

\* The parts that rest have one initial state.
LinksInit ==
    /\ part \in {"failover", "health", "probing", "pmtud"}
    /\ FailoverInit /\ links = [l \in Links |-> [weight |-> 1, healthy |-> TRUE]]
    /\ PmtudInit
    /\ part # "pmtud" => path = MIN_MTU + 1 /\ current_probe = MIN_MTU
    /\ Probes!HealthInit /\ Probes!Init

FailoverStep == part = "failover" /\ FailoverNext
    /\ UNCHANGED <<part, pmtud_vars, health, probes>>
ProbingStep == part = "probing" /\ Probes!Next
    /\ UNCHANGED <<part, failover_vars, pmtud_vars, health>>

HealthRest == part = "health" /\ UNCHANGED <<part, failover_vars, pmtud_vars, probes>>
HealthProbe == HealthRest /\ Probes!Probe
HealthTick == HealthRest /\ Probes!periodic_tick
HealthElapse == HealthRest /\ Probes!elapse

PmtudStep == part = "pmtud" /\ PmtudNext
    /\ UNCHANGED <<part, failover_vars, health, probes>>

LinksNext ==
    FailoverStep \/ ProbingStep \/ HealthProbe \/ HealthTick \/ HealthElapse \/ PmtudStep

links_vars == <<part, failover_vars, pmtud_vars, health, probes>>

(***************************************************************************)
(* The probe loop and the periodic tick of a link never stop, and neither  *)
(* does time.  Nothing is assumed of the samples a link gives.             *)
(***************************************************************************)
LinksSpec ==
    /\ LinksInit /\ [][LinksNext]_links_vars
    /\ WF_links_vars(HealthProbe) /\ WF_links_vars(HealthTick) /\ WF_links_vars(HealthElapse)

----------------------------------------------------------------------------

\* Probing: streaks change the state, and a lasting one settles it.
HealthFollowsProbes ==
    Probes!FlipsNeedAStreak /\ (part = "health" => Probes!StateSettles)

\* Probing: what the scheduler is told of a link is true.
StatisticsAreTrue == Probes!StatisticsAreTrue

=============================================================================
