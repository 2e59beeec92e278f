-------------------------------- MODULE Pmtud -------------------------------
(***************************************************************************)
(* Path MTU discovery of one link (net/pmtud.rs).  The caller puts probes  *)
(* of current_probe_size on the wire, several at a time, and reports each  *)
(* one's acknowledgement or timeout, however late; a probe that timed out  *)
(* may still be acknowledged.  The path, the probes on the way and when    *)
(* the caller resets are external.                                         *)
(***************************************************************************)
EXTENDS Integers, FiniteSets

CONSTANTS
    MIN_MTU, STEP, max_attempts,
    Sizes,              \* sizes a path can carry, and initial MTUs
    MaxFlying,          \* bound: probes on the way
    MaxEpoch            \* bound: resets

ASSUME PmtudAssumption ==
    /\ MIN_MTU \in Nat /\ STEP \in Nat \ {0} /\ max_attempts \in Nat
    /\ Sizes \subseteq Nat
    /\ MaxFlying \in Nat /\ MaxEpoch \in Nat

VARIABLES
    state,              \* "Probing", "Converged" or "Failed"
    size,               \* the field of Converged
    current_probe,
    attempts,
    path,               \* external: what the path carries now
    flying,             \* external: probes without an answer yet
    late,               \* external: timed out, but acknowledged by the peer
    epoch,              \* resets so far
    crossed             \* history: an answer from before a reset was taken

pmtud_vars == <<state, size, current_probe, attempts, path, flying, late, epoch, crossed>>

Max2(a, b) == IF a > b THEN a ELSE b

saturating_sub(a, b) == IF a > b THEN a - b ELSE 0

PmtudInit ==
    /\ state = "Probing"
    /\ size = 0
    /\ attempts = 0
    /\ path \in Sizes
    /\ \E initial \in Sizes : current_probe = Max2(initial, MIN_MTU)
    /\ flying = {}
    /\ late = {}
    /\ epoch = 0
    /\ crossed = FALSE

is_done == state # "Probing"

mtu ==
    CASE state = "Probing"   -> current_probe
      [] state = "Converged" -> size
      [] state = "Failed"    -> MIN_MTU

\* A probe remembers its size, its epoch, and whether the path carried it.
Probe(n) == [size |-> current_probe, epoch |-> epoch, carried |-> current_probe <= path,
             n |-> n]

issue(n) ==
    /\ ~is_done
    /\ \A p \in flying \cup late : p.n # n
    /\ flying' = flying \cup {Probe(n)}
    /\ UNCHANGED <<state, size, current_probe, attempts, path, late, epoch, crossed>>

----------------------------------------------------------------------------

on_success(probed_size) ==
    IF state = "Failed" THEN UNCHANGED <<state, size, attempts>>
    ELSE /\ state' = "Converged"
         /\ size' = probed_size
         /\ attempts' = 0

acknowledged(p) ==
    /\ p \in flying \cup late
    /\ p.carried
    /\ flying' = flying \ {p}
    /\ late' = late \ {p}
    /\ on_success(p.size)
    /\ crossed' = (crossed \/ p.epoch # epoch)
    /\ UNCHANGED <<current_probe, path, epoch>>

NextProbe == Max2(saturating_sub(current_probe, STEP), MIN_MTU)

Stale(probed_size) == is_done \/ probed_size # current_probe

on_timeout(probed_size) ==
    IF Stale(probed_size) THEN UNCHANGED <<state, current_probe, attempts>>
    ELSE /\ attempts' = IF attempts < 255 THEN attempts + 1 ELSE 255
         /\ IF current_probe <= MIN_MTU
            THEN /\ state' = IF attempts' >= max_attempts THEN "Failed" ELSE state
                 /\ UNCHANGED current_probe
            ELSE current_probe' = NextProbe /\ UNCHANGED state

\* The answer may be lost, or on its way still.
timed_out(p) ==
    /\ p \in flying
    /\ flying' = flying \ {p}
    /\ late' \in {late} \cup (IF p.carried THEN {late \cup {p}} ELSE {})
    /\ on_timeout(p.size)
    /\ UNCHANGED <<size, path, epoch, crossed>>

\* Variant: the search is not started again.
reset_kept(initial_mtu) ==
    /\ epoch < MaxEpoch
    /\ epoch' = epoch + 1
    /\ current_probe' = Max2(initial_mtu, MIN_MTU)
    /\ path' \in Sizes
    /\ UNCHANGED <<state, size, attempts, flying, late, crossed>>

\* The link was dead and is back, perhaps over another path.
reset(initial_mtu) ==
    /\ epoch < MaxEpoch
    /\ epoch' = epoch + 1
    /\ state' = "Probing"
    /\ size' = 0
    /\ current_probe' = Max2(initial_mtu, MIN_MTU)
    /\ attempts' = 0
    /\ path' \in Sizes
    /\ crossed' = FALSE
    /\ UNCHANGED <<flying, late>>

Resolve == \E p \in flying \cup late : acknowledged(p) \/ timed_out(p)

Issue == \E n \in 1 .. MaxFlying : issue(n)

PmtudNext == Issue \/ Resolve \/ \E initial \in Sizes : reset(initial)

PmtudSpec == PmtudInit /\ [][PmtudNext]_pmtud_vars


----------------------------------------------------------------------------
(***************************************************************************)
(* "Every IPv6 path is required to accept packets at least this large":    *)
(* the MTU in use is never below MIN_MTU, in any state and after any late  *)
(* answer (pmtud.rs:150-177).                                              *)
(***************************************************************************)
NeverBelowMinimum == mtu >= MIN_MTU

(***************************************************************************)
(* A size that the search settled on has crossed the path since the last   *)
(* reset, unless the answer that settled it was sent before that reset.    *)
(***************************************************************************)
SettledSizeFits == state = "Converged" => size <= path \/ crossed

(***************************************************************************)
(* "ignore late acks so a transient recovery does not undo the operator's  *)
(* fallback path" (pmtud.rs:139-144): only a reset leaves Failed.          *)
(***************************************************************************)
FailedIsFinal == [][state = "Failed" /\ epoch' = epoch => state' = "Failed"]_pmtud_vars

(***************************************************************************)
(* Within an epoch the probed size only shrinks, one STEP for each timeout *)
(* of the size being probed and none for a stale one (pmtud.rs:154-177).   *)
(***************************************************************************)
ShrinksByTimeouts ==
    [][epoch' = epoch /\ current_probe' # current_probe =>
          /\ current_probe' < current_probe
          /\ \E p \in flying : p \notin flying' /\ p.size = current_probe]_pmtud_vars

=============================================================================
