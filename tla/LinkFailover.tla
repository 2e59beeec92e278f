---------------------------- MODULE LinkFailover ----------------------------
(***************************************************************************)
(* The failover controller (bonding/failover.rs), the engine's link table  *)
(* (bonding/mod.rs) and the web UI that edits the same table.              *)
(*                                                                         *)
(* Both writers replace the table wholesale: they clone the Arc under the  *)
(* read lock, rebuild it, and store the result under the write lock.  Each *)
(* lock acquisition is a step, so the other writer may come in between.    *)
(* The controller is single-writer (failover.rs:12).  Its caller is not    *)
(* part of the repository: it is the thread that feeds the controller with *)
(* samples and ticks and calls apply_to_engine after a transition across   *)
(* the bondable boundary, as failover.rs:119-121 asks.                     *)
(***************************************************************************)
EXTENDS LinkState

CONSTANTS
    Links,      \* the links of the table; a link's name and id go together
    Weights,    \* the weights a link may be configured with
    Requests    \* bound on the update_link calls of the web UI

ASSUME FailoverAssumption ==
    /\ Weights # {}
    /\ Weights \subseteq Nat
    /\ Requests \in Nat

VARIABLES
    machines,   \* FailoverController::machines, a map from some of the links
    links,      \* Engine::links: weight and healthy flag of every link
    ctl,        \* the controller's thread: where it is, and its snapshot
    op,         \* the web UI's thread: where it is, its snapshot and request
    requests,   \* update_link calls so far
    reported,   \* history: per link, the weight the operator was last told
    manual,     \* history: links whose flag or machine was changed behind the
                \* controller's back since its last apply_to_engine
    raced       \* history: a table was stored over one it was not built from

failover_vars == <<machines, links, ctl, op, requests, reported, manual, raced>>

Table == [Links -> [weight : Weights, healthy : BOOLEAN]]

NoTable == [l \in {} |-> 0]

Thread(at, snap) == [at |-> at, snap |-> snap]

Request == [link : Links, weight : Weights \cup {-1},
            enabled : {"none", "true", "false"}]

FailoverInit ==
    /\ machines = [l \in {} |-> NewMachine]
    /\ links \in [Links -> [weight : Weights, healthy : {TRUE}]]
    /\ ctl = Thread("idle", NoTable)
    /\ op = Thread("idle", NoTable)
    /\ requests = 0
    /\ reported = [l \in Links |-> links[l].weight]
    /\ manual = {}
    /\ raced = FALSE

----------------------------------------------------------------------------
(* FailoverController.  A call that takes some link across the bondable    *)
(* boundary obliges the caller to apply the controller to the engine.      *)

EntryOrDefault(l) == IF l \in DOMAIN machines THEN machines[l] ELSE NewMachine

crosses_bondable_boundary(before, after) ==
    is_bondable(before) # is_bondable(after)

SetMachine(l, m) ==
    machines' = [k \in DOMAIN machines \cup {l} |->
                    IF k = l THEN m ELSE machines[k]]

register(l) ==
    /\ ctl.at = "idle"
    /\ l \notin DOMAIN machines
    /\ SetMachine(l, NewMachine)
    /\ UNCHANGED <<links, ctl, op, requests, reported, manual, raced>>

deregister(l) ==
    /\ ctl.at = "idle"
    /\ l \in DOMAIN machines
    /\ machines' = [k \in DOMAIN machines \ {l} |-> machines[k]]
    /\ manual' = manual \cup {l}
    /\ UNCHANGED <<links, ctl, op, requests, reported, raced>>

ctl_on_probe(l, sample) ==
    LET before == EntryOrDefault(l)
        after  == on_probe(before, sample)
    IN  /\ ctl.at = "idle"
        /\ SetMachine(l, after)
        /\ ctl' = Thread(IF crosses_bondable_boundary(before, after)
                         THEN "crossed" ELSE "idle", NoTable)
        /\ UNCHANGED <<links, op, requests, reported, manual, raced>>

ctl_tick ==
    /\ ctl.at = "idle"
    /\ machines' = [l \in DOMAIN machines |-> tick(machines[l])]
    /\ UNCHANGED <<links, ctl, op, requests, reported, manual, raced>>

(***************************************************************************)
(* apply_to_engine: clone the table, then store the rebuilt one if a       *)
(* healthy flag of the clone differs from the machines' verdict.           *)
(***************************************************************************)
Verdict(l) == is_bondable(EntryOrDefault(l))

apply_snapshot ==
    /\ ctl.at = "crossed"
    /\ ctl' = Thread("apply", links)
    /\ UNCHANGED <<machines, links, op, requests, reported, manual, raced>>

Rebuilt(snap) == [l \in Links |-> [snap[l] EXCEPT !.healthy = Verdict(l)]]

\* Variant: the rebuilt table is stored only when some link was lost.
apply_swap_on_loss ==
    LET dirty == \E l \in Links : ctl.snap[l].healthy /\ ~Verdict(l)
    IN  /\ ctl.at = "apply"
        /\ links' = IF dirty THEN Rebuilt(ctl.snap) ELSE links
        /\ raced' = (raced \/ (dirty /\ links # ctl.snap))
        /\ manual' = IF dirty \/ links = ctl.snap THEN {} ELSE manual
        /\ ctl' = Thread("idle", NoTable)
        /\ UNCHANGED <<machines, op, requests, reported>>

apply_swap ==
    LET dirty == \E l \in Links : ctl.snap[l].healthy # Verdict(l)
    IN  /\ ctl.at = "apply"
        /\ links' = IF dirty THEN Rebuilt(ctl.snap) ELSE links
        /\ raced' = (raced \/ (dirty /\ links # ctl.snap))
        /\ manual' = IF dirty \/ links = ctl.snap THEN {} ELSE manual
        /\ ctl' = Thread("idle", NoTable)
        /\ UNCHANGED <<machines, op, requests, reported>>

(***************************************************************************)
(* The clock.                                                              *)
(***************************************************************************)
elapse ==
    /\ machines' = [l \in DOMAIN machines |-> Elapse(machines[l])]
    /\ UNCHANGED <<links, ctl, op, requests, reported, manual, raced>>

----------------------------------------------------------------------------
(* PUT /api/v1/interfaces/:name, through Engine::update_link.  The single  *)
(* HTTP thread runs one request at a time.                                 *)

update_link_snapshot(req) ==
    /\ op.at = "idle"
    /\ requests < Requests
    /\ requests' = requests + 1
    /\ op' = [at |-> "update", snap |-> links, req |-> req]
    /\ UNCHANGED <<machines, links, ctl, reported, manual, raced>>

Edited(link, req) ==
    [weight  |-> IF req.weight = -1 THEN link.weight ELSE req.weight,
     healthy |-> IF req.enabled = "none" THEN link.healthy
                                         ELSE req.enabled = "true"]

update_link_swap ==
    LET req == op.req
        row == Edited(op.snap[req.link], req)
    IN  /\ op.at = "update"
        /\ links' = [op.snap EXCEPT ![req.link] = row]
        /\ raced' = (raced \/ links # op.snap)
        /\ reported' = [reported EXCEPT ![req.link] =
                           IF req.weight = -1 THEN @ ELSE req.weight]
        /\ manual' = IF req.enabled = "none" THEN manual
                                             ELSE manual \cup {req.link}
        /\ op' = Thread("idle", NoTable)
        /\ UNCHANGED <<machines, ctl, requests>>

Controller == apply_snapshot \/ apply_swap

FailoverNext ==
    \/ \E l \in Links : register(l) \/ deregister(l)
    \/ \E l \in Links, sample \in ProbeSample : ctl_on_probe(l, sample)
    \/ ctl_tick
    \/ Controller
    \/ elapse
    \/ \E req \in Request : update_link_snapshot(req)
    \/ update_link_swap

FailoverSpec == FailoverInit /\ [][FailoverNext]_failover_vars

----------------------------------------------------------------------------

FlagsAgree ==
    ctl.at = "idle" =>
        \A l \in Links \ manual : links[l].healthy = Verdict(l)

WeightsAgree == \A l \in Links : links[l].weight = reported[l]

(***************************************************************************)
(* The two writers only hurt each other by overlapping: as long as neither *)
(* stored a table over one it had not read, a dead link is out of the      *)
(* schedule and a recovered one back in it as soon as the controller is    *)
(* done (failover.rs:5-10), and the table holds every weight update_link   *)
(* reported as updated (mod.rs:110-113).                                   *)
(***************************************************************************)
ConsistentUnlessRaced == ~raced => FlagsAgree /\ WeightsAgree

=============================================================================
