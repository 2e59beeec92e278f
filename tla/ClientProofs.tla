---------------------------- MODULE ClientProofs ----------------------------
(***************************************************************************)
(* What is proved of the client's links, of its host and of its way to a   *)
(* peer, for every value of the constants: the link table under its two    *)
(* writers (LinkFailover), the path MTU under late answers (Pmtud), the    *)
(* resolver configuration under crashes and failing file operations        *)
(* (ResolverHook), the path that an attempt returns (PeerToPeer), and the  *)
(* configuration that a reload puts in place (ConfigReload).  The five     *)
(* share no state.                                                         *)
(***************************************************************************)
EXTENDS LinkFailover, Pmtud, ResolverHook, PeerToPeer, ConfigReload, TLAPS

----------------------------------------------------------------------------
(* LinkFailover.  ConsistentUnlessRaced says nothing while the controller  *)
(* is between its clone and its store; the invariant adds what is true     *)
(* then: the table's flags are still those of the clone, other than the    *)
(* ones an operator or a deregistration has changed.                       *)

\* A machine as LinkStateMachine holds it.
Machine == [state : States, left : Nat, high_loss_streak : Nat,
            no_response_streak : Nat, recovery_streak : Nat]

\* The types; a thread's clone and request count only while it holds them.
FailoverTypes ==
    /\ DOMAIN machines \subseteq Links
    /\ \A l \in DOMAIN machines : machines[l] \in Machine
    /\ links \in Table
    /\ ctl.at \in {"idle", "crossed", "apply"}
    /\ ctl.at = "apply" => ctl.snap \in Table
    /\ op.at \in {"idle", "update"}
    /\ op.at = "update" => op.snap \in Table /\ op.req \in Request
    /\ reported \in [Links -> Weights]
    /\ manual \subseteq Links
    /\ raced \in BOOLEAN

\* While the controller holds its clone, the flags it does not know of are
\* those in `manual`.
SnapshotFlags ==
    ctl.at = "apply" =>
        \A l \in Links \ manual : links[l].healthy = ctl.snap[l].healthy

\* The inductive invariant.
FailoverInv ==
    /\ FailoverTypes
    /\ ~raced => FlagsAgree /\ WeightsAgree /\ SnapshotFlags

\* A new machine is bondable (link_state.rs, LinkStateMachine::new).
LEMMA NewMachineIsMachine == NewMachine \in Machine /\ is_bondable(NewMachine)
  BY Zenon DEF NewMachine, Machine, States, is_bondable

\* on_probe gives a machine.
LEMMA ProbeIsMachine ==
    ASSUME NEW m \in Machine, NEW sample \in ProbeSample
    PROVE  on_probe(m, sample) \in Machine
  <1> DEFINE c == CountSample(m, sample)
  <1>1. c \in Machine
    <2>1. \A n \in Nat : SaturatingIncrement(n) \in Nat
      BY DEF SaturatingIncrement
    <2> QED
      BY Zenon, <2>1 DEF Machine, CountSample
  <1> HIDE DEF c
  <1>2. compute_next(c) \in States
    BY Zenon, <1>1 DEF compute_next, States, Machine
  <1>3. CASE compute_next(c) = m.state
    BY Zenon, <1>1, <1>3 DEF on_probe, c
  <1>4. CASE compute_next(c) # m.state
    BY Zenon, <1>2, <1>4, LinkStateAssumption DEF on_probe, c, NewMachine, Machine
  <1> QED
    BY Zenon, <1>3, <1>4

\* tick ends a probation, which was bondable and stays so: a tick never
\* obliges the caller to apply the controller.
LEMMA TickKeepsBondable ==
    ASSUME NEW m \in Machine
    PROVE  tick(m) \in Machine /\ is_bondable(tick(m)) = is_bondable(m)
  BY Zenon DEF tick, Machine, is_bondable, States

\* Time alone changes no verdict.
LEMMA ElapseKeepsBondable ==
    ASSUME NEW m \in Machine
    PROVE  Elapse(m) \in Machine /\ is_bondable(Elapse(m)) = is_bondable(m)
  BY DEF Elapse, Machine, is_bondable, States

\* The invariant holds at the start: every link is up, no machine yet.
LEMMA FailoverInitInv == FailoverInit => FailoverInv
  <1> SUFFICES ASSUME FailoverInit PROVE FailoverInv
    BY Zenon
  <1>1. FailoverTypes
    BY Zenon DEF FailoverInit, FailoverTypes, Table, Thread
  <1>2. FlagsAgree
    BY Zenon, NewMachineIsMachine DEF FailoverInit, FlagsAgree, Verdict, EntryOrDefault
  <1>3. WeightsAgree /\ SnapshotFlags
    BY Zenon DEF FailoverInit, WeightsAgree, SnapshotFlags, Thread
  <1> QED
    BY Zenon, <1>1, <1>2, <1>3 DEF FailoverInv

(***************************************************************************)
(* A step that touches only the machines keeps the invariant if the links  *)
(* whose verdict it changes are counted in `manual`.                       *)
(***************************************************************************)
LEMMA VerdictsKept ==
    ASSUME FailoverInv, ctl' = ctl, links' = links, op' = op,
           reported' = reported, manual \subseteq manual', manual' \subseteq Links,
           raced' = raced,
           DOMAIN machines' \subseteq Links,
           \A l \in DOMAIN machines' : machines'[l] \in Machine,
           \A l \in Links \ manual' : Verdict(l)' = Verdict(l)
    PROVE  FailoverInv'
  BY Zenon DEF FailoverInv, FailoverTypes, FlagsAgree, WeightsAgree, SnapshotFlags

\* Every step keeps the invariant; apply_swap and update_link_swap are the
\* two that store a table.
LEMMA FailoverNextInv == FailoverInv /\ [FailoverNext]_failover_vars => FailoverInv'
  <1> SUFFICES ASSUME FailoverInv, [FailoverNext]_failover_vars PROVE FailoverInv'
    BY Zenon
  <1> USE DEF FailoverInv
  <1>1. ASSUME NEW l \in Links, register(l)
        PROVE  FailoverInv'
    <2>1. DOMAIN machines' = DOMAIN machines \cup {l} /\ machines'[l] = NewMachine
          /\ \A k \in DOMAIN machines : machines'[k] = machines[k]
      BY Zenon, <1>1 DEF register, SetMachine
    <2>2. \A k \in Links : Verdict(k)' = Verdict(k)
      BY Zenon, <1>1, <2>1 DEF register, Verdict, EntryOrDefault
    <2>3. \A k \in DOMAIN machines' : machines'[k] \in Machine
      BY Zenon, <2>1, NewMachineIsMachine DEF FailoverTypes
    <2>4. DOMAIN machines' \subseteq Links /\ manual \subseteq Links
      BY Zenon, <2>1 DEF FailoverTypes
    <2> QED
      BY Zenon, <1>1, <2>2, <2>3, <2>4, VerdictsKept DEF register
  <1>2. ASSUME NEW l \in Links, deregister(l)
        PROVE  FailoverInv'
    <2>1. DOMAIN machines' = DOMAIN machines \ {l}
          /\ \A k \in DOMAIN machines' : machines'[k] = machines[k]
      BY Zenon, <1>2 DEF deregister
    <2>2. manual' = manual \cup {l}
      BY Zenon, <1>2 DEF deregister
    <2>3. \A k \in Links \ manual' : Verdict(k)' = Verdict(k)
      BY Zenon, <2>1, <2>2 DEF Verdict, EntryOrDefault
    <2>4. \A k \in DOMAIN machines' : machines'[k] \in Machine
      BY Zenon, <2>1 DEF FailoverTypes
    <2>5. DOMAIN machines' \subseteq Links /\ manual' \subseteq Links
      BY Zenon, <2>1, <2>2 DEF FailoverTypes
    <2> QED
      BY Zenon, <1>2, <2>2, <2>3, <2>4, <2>5, VerdictsKept DEF deregister
  <1>3. ASSUME NEW l \in Links, NEW sample \in ProbeSample, ctl_on_probe(l, sample)
        PROVE  FailoverInv'
    <2> DEFINE before == EntryOrDefault(l)
               after == on_probe(before, sample)
    <2>1. DOMAIN machines' = DOMAIN machines \cup {l} /\ machines'[l] = after
          /\ \A k \in DOMAIN machines \ {l} : machines'[k] = machines[k]
      BY Zenon, <1>3 DEF ctl_on_probe, SetMachine
    <2>2. after \in Machine
      BY Zenon, ProbeIsMachine, NewMachineIsMachine DEF FailoverTypes, EntryOrDefault
    <2>3. \A k \in Links \ {l} : Verdict(k)' = Verdict(k)
      BY Zenon, <2>1 DEF Verdict, EntryOrDefault
    <2>4. Verdict(l) = is_bondable(before) /\ Verdict(l)' = is_bondable(after)
      BY Zenon, <2>1 DEF Verdict, EntryOrDefault
    <2> HIDE DEF after, before
    <2>5. (\A k \in DOMAIN machines' : machines'[k] \in Machine) /\ DOMAIN machines' \subseteq Links
      BY Zenon, <2>1, <2>2 DEF FailoverTypes
    <2>6. ctl.at = "idle" /\ UNCHANGED <<links, op, requests, reported, manual, raced>>
      BY Zenon, <1>3 DEF ctl_on_probe
    <2>7. CASE crosses_bondable_boundary(before, after)
      <3>1. ctl'.at = "crossed"
        BY Zenon, <1>3, <2>7 DEF ctl_on_probe, Thread, before, after
      <3> QED
        BY Zenon, <2>5, <2>6, <3>1
        DEF FailoverTypes, FlagsAgree, WeightsAgree, SnapshotFlags
    <2>8. CASE ~crosses_bondable_boundary(before, after)
      <3>1. ctl'.at = "idle"
        BY Zenon, <1>3, <2>8 DEF ctl_on_probe, Thread, before, after
      <3>2. \A k \in Links : Verdict(k)' = Verdict(k)
        BY Zenon, <2>3, <2>4, <2>8 DEF crosses_bondable_boundary
      <3> QED
        BY Zenon, <2>5, <2>6, <3>1, <3>2
        DEF FailoverTypes, FlagsAgree, WeightsAgree, SnapshotFlags
    <2> QED
      BY Zenon, <2>7, <2>8
  <1>4. CASE ctl_tick
    <2>1. DOMAIN machines' = DOMAIN machines
          /\ \A l \in DOMAIN machines : machines'[l] = tick(machines[l])
      BY Zenon, <1>4 DEF ctl_tick
    <2>2. \A l \in DOMAIN machines : machines'[l] \in Machine
                                     /\ is_bondable(machines'[l]) = is_bondable(machines[l])
      BY Zenon, <2>1, TickKeepsBondable DEF FailoverTypes
    <2>3. \A l \in Links : Verdict(l)' = Verdict(l)
      BY Zenon, <2>1, <2>2 DEF Verdict, EntryOrDefault
    <2> QED
      BY Zenon, <1>4, <2>1, <2>2, <2>3, VerdictsKept DEF ctl_tick, FailoverTypes
  <1>5. CASE elapse
    <2>1. DOMAIN machines' = DOMAIN machines
          /\ \A l \in DOMAIN machines : machines'[l] = Elapse(machines[l])
      BY Zenon, <1>5 DEF elapse
    <2>2. \A l \in DOMAIN machines : machines'[l] \in Machine
                                     /\ is_bondable(machines'[l]) = is_bondable(machines[l])
      BY Zenon, <2>1, ElapseKeepsBondable DEF FailoverTypes
    <2>3. \A l \in Links : Verdict(l)' = Verdict(l)
      BY Zenon, <2>1, <2>2 DEF Verdict, EntryOrDefault
    <2> QED
      BY Zenon, <1>5, <2>1, <2>2, <2>3, VerdictsKept DEF elapse, FailoverTypes
  <1>6. CASE apply_snapshot
    BY Zenon, <1>6 DEF apply_snapshot, Thread, FailoverTypes, FlagsAgree, WeightsAgree, SnapshotFlags
  <1>7. CASE apply_swap
    <2> DEFINE dirty == \E l \in Links : ctl.snap[l].healthy # Verdict(l)
    <2>1. /\ ctl.at = "apply" /\ ctl.snap \in Table
          /\ machines' = machines /\ op' = op /\ reported' = reported
          /\ ctl'.at = "idle"
          /\ links' = IF dirty THEN Rebuilt(ctl.snap) ELSE links
          /\ raced' = (raced \/ (dirty /\ links # ctl.snap))
          /\ manual' = IF dirty \/ links = ctl.snap THEN {} ELSE manual
      BY Zenon, <1>7 DEF apply_swap, Thread, FailoverTypes
    <2>2. \A l \in Links : Verdict(l) \in BOOLEAN /\ Verdict(l)' = Verdict(l)
      BY Zenon, <2>1 DEF Verdict, EntryOrDefault, is_bondable
    <2>3. CASE dirty
      <3>1. \A l \in Links : links'[l].healthy = Verdict(l) /\ links'[l].weight = ctl.snap[l].weight
        BY Zenon, <2>1, <2>3 DEF Rebuilt, Table
      <3>2. links' \in Table
        BY Zenon, <2>1, <2>2, <2>3 DEF Rebuilt, Table
      <3>3. raced' \in BOOLEAN /\ manual' = {} /\ (~raced' => ~raced /\ links = ctl.snap)
        BY Zenon, <2>1, <2>3
      <3> QED
        BY <2>1, <2>2, <3>1, <3>2, <3>3
        DEF FailoverTypes, FlagsAgree, WeightsAgree, SnapshotFlags
    <2>4. CASE ~dirty
      <3>1. /\ \A l \in Links : ctl.snap[l].healthy = Verdict(l)
            /\ links' = links /\ raced' = raced
        BY Zenon, <2>1, <2>4 DEF FailoverTypes
      <3>2. ~raced => \A l \in Links \ manual' : links[l].healthy = Verdict(l)
        BY Zenon, <2>1, <2>4, <3>1 DEF SnapshotFlags
      <3>3. manual' \subseteq Links
        BY Zenon, <2>1 DEF FailoverTypes
      <3> QED
        BY Zenon, <2>1, <2>2, <3>1, <3>2, <3>3
        DEF FailoverTypes, FlagsAgree, WeightsAgree, SnapshotFlags
    <2> QED
      BY Zenon, <2>3, <2>4
  <1>8. ASSUME NEW req \in Request, update_link_snapshot(req)
        PROVE  FailoverInv'
    <2>1. \A l \in Links : Verdict(l)' = Verdict(l)
      BY Zenon, <1>8 DEF update_link_snapshot, Verdict, EntryOrDefault
    <2> QED
      BY Zenon, <1>8, <2>1
      DEF update_link_snapshot, FailoverTypes, FlagsAgree, WeightsAgree, SnapshotFlags
  <1>9. CASE update_link_swap
    <2> DEFINE row == Edited(op.snap[op.req.link], op.req)
    <2>1. /\ op.snap \in Table /\ op.req \in Request /\ op.req.link \in Links
          /\ links' = [op.snap EXCEPT ![op.req.link] = row]
          /\ raced' = (raced \/ links # op.snap)
          /\ reported' = [reported EXCEPT ![op.req.link] =
                             IF op.req.weight = -1 THEN @ ELSE op.req.weight]
          /\ manual' = IF op.req.enabled = "none" THEN manual
                                                  ELSE manual \cup {op.req.link}
          /\ op'.at = "idle" /\ machines' = machines /\ ctl' = ctl
      BY Zenon, <1>9 DEF update_link_swap, Thread, FailoverTypes, Request
    <2>2. /\ row.weight = IF op.req.weight = -1 THEN op.snap[op.req.link].weight ELSE op.req.weight
          /\ op.req.enabled = "none" => row.healthy = op.snap[op.req.link].healthy
          /\ row \in [weight : Weights, healthy : BOOLEAN]
      BY Zenon, <2>1 DEF Edited, Table, Request
    <2> HIDE DEF row
    <2>3. links' \in Table
      BY Zenon, <2>1, <2>2 DEF Table
    <2>4. reported' \in [Links -> Weights]
      BY Zenon, <2>1 DEF FailoverTypes, Request
    <2>5. manual' \subseteq Links
      BY Zenon, <2>1 DEF FailoverTypes
    <2>6. \A l \in Links : Verdict(l)' = Verdict(l)
      BY Zenon, <2>1 DEF Verdict, EntryOrDefault
    <2>7. ASSUME ~raced'
          PROVE  FlagsAgree' /\ WeightsAgree' /\ SnapshotFlags'
      <3>1. ~raced /\ op.snap = links
        BY Zenon, <2>1, <2>7
      <3>2. links'[op.req.link] = row
            /\ \A l \in Links \ {op.req.link} : links'[l] = links[l]
        BY Zenon, <2>1, <3>1 DEF Table
      <3>3. WeightsAgree'
        BY <2>1, <2>2, <3>1, <3>2 DEF WeightsAgree, FailoverTypes
      <3>4. \A l \in Links \ manual' : l \notin manual /\ links'[l].healthy = links[l].healthy
        BY Zenon, <2>1, <2>2, <3>1, <3>2
      <3> QED
        BY <2>1, <2>6, <3>1, <3>3, <3>4 DEF FlagsAgree, SnapshotFlags
    <2> QED
      BY Zenon, <2>1, <2>3, <2>4, <2>5, <2>7 DEF FailoverTypes
  <1>10. CASE UNCHANGED failover_vars
    BY Zenon, <1>10 DEF failover_vars, FailoverTypes, FlagsAgree, WeightsAgree, SnapshotFlags, Verdict, EntryOrDefault
  <1> QED
    BY Zenon, <1>1, <1>2, <1>3, <1>4, <1>5, <1>6, <1>7, <1>8, <1>9, <1>10 DEF FailoverNext, Controller

(***************************************************************************)
(* As long as neither writer stored a table over one it had not read, the  *)
(* engine's flags are the controller's verdicts and its weights those the  *)
(* operator was told (failover.rs, apply_to_engine; mod.rs, update_link),  *)
(* for any links, weights, streaks, probation and number of requests.      *)
(***************************************************************************)
THEOREM TableConsistent == FailoverSpec => []ConsistentUnlessRaced
  <1>1. FailoverInv => ConsistentUnlessRaced
    BY Zenon DEF FailoverInv, ConsistentUnlessRaced
  <1> QED
    BY FailoverInitInv, FailoverNextInv, <1>1, PTL DEF FailoverSpec

----------------------------------------------------------------------------
(* Pmtud.  The answers on the way carry the argument: each is for a size   *)
(* not below the minimum, and one of this epoch that crossed the path is   *)
(* for a size that fits.                                                   *)

\* A probe with an answer to come.
ProbeRecord == [size : Nat, epoch : Nat, carried : BOOLEAN, n : Nat]

\* The types.
PmtudTypes ==
    /\ state \in {"Probing", "Converged", "Failed"}
    /\ size \in Nat
    /\ current_probe \in Nat
    /\ attempts \in Nat
    /\ path \in Nat
    /\ flying \subseteq ProbeRecord
    /\ late \subseteq ProbeRecord
    /\ epoch \in Nat
    /\ crossed \in BOOLEAN

\* Every probe with an answer to come was at least the minimum, and one of
\* this epoch that the path carried is no longer than the path.
ProbesOK ==
    \A p \in flying \cup late :
       /\ p.size >= MIN_MTU
       /\ p.epoch = epoch /\ p.carried => p.size <= path
       /\ p.epoch <= epoch

\* What has settled was acknowledged.
SettledOK ==
    state = "Converged" => size >= MIN_MTU /\ (size <= path \/ crossed)

\* The inductive invariant.
PmtudInv == PmtudTypes /\ current_probe >= MIN_MTU /\ ProbesOK /\ SettledOK

\* The larger of two numbers, as the code's max gives it.
LEMMA Max2Bounds ==
    ASSUME NEW a \in Nat, NEW b \in Nat
    PROVE  Max2(a, b) \in Nat /\ Max2(a, b) >= a /\ Max2(a, b) >= b
  BY DEF Max2

\* The next size to probe is at least the minimum and at most the current.
LEMMA NextProbeBounds ==
    ASSUME current_probe \in Nat, current_probe > MIN_MTU
    PROVE  NextProbe \in Nat /\ NextProbe >= MIN_MTU /\ NextProbe < current_probe
  BY PmtudAssumption DEF NextProbe, Max2, saturating_sub

\* The invariant holds at the start.
LEMMA PmtudInitInv == PmtudInit => PmtudInv
  <1> SUFFICES ASSUME PmtudInit PROVE PmtudInv
    BY Zenon
  <1>1. PICK initial \in Sizes : current_probe = Max2(initial, MIN_MTU)
    BY Zenon DEF PmtudInit
  <1>2. current_probe \in Nat /\ current_probe >= MIN_MTU
    BY Zenon, <1>1, PmtudAssumption, Max2Bounds
  <1>3. PmtudTypes
    BY Zenon, <1>2, PmtudAssumption DEF PmtudInit, PmtudTypes
  <1>4. QED
    BY Zenon, <1>2, <1>3 DEF PmtudInit, PmtudInv, ProbesOK, SettledOK

\* Every step keeps the invariant.
LEMMA PmtudNextInv == PmtudInv /\ [PmtudNext]_pmtud_vars => PmtudInv'
  <1> SUFFICES ASSUME PmtudInv, [PmtudNext]_pmtud_vars PROVE PmtudInv'
    BY Zenon
  <1> USE PmtudAssumption DEF PmtudInv
  <1>1. ASSUME NEW n \in 1 .. MaxFlying, issue(n) PROVE PmtudInv'
    <2>0. n \in Nat /\ (current_probe <= path) \in BOOLEAN
      BY DEF PmtudTypes
    <2>1. /\ Probe(n) \in ProbeRecord
          /\ Probe(n).size = current_probe
          /\ Probe(n).carried => current_probe <= path
          /\ Probe(n).epoch = epoch
      BY Zenon, <2>0 DEF Probe, ProbeRecord, PmtudTypes
    <2>2. PmtudTypes'
      BY Zenon, <1>1, <2>1 DEF issue, PmtudTypes
    <2>3. ProbesOK'
      BY <1>1, <2>1 DEF issue, ProbesOK, PmtudTypes
    <2>4. QED
      BY Zenon, <1>1, <2>2, <2>3 DEF issue, SettledOK
  <1>2. ASSUME NEW p \in flying \cup late, acknowledged(p) PROVE PmtudInv'
    <2>1. p \in ProbeRecord /\ p.size >= MIN_MTU
      BY Zenon DEF PmtudTypes, ProbesOK
    <2>2. PmtudTypes'
      BY <1>2, <2>1 DEF acknowledged, on_success, PmtudTypes, ProbeRecord
    <2>3. ProbesOK'
      BY Zenon, <1>2 DEF acknowledged, ProbesOK
    <2>4. SettledOK'
      <3>1. CASE state = "Failed"
        BY Zenon, <1>2, <3>1 DEF acknowledged, on_success, SettledOK
      <3>2. CASE state # "Failed"
        <4>1. p.carried /\ size' = p.size /\ path' = path
              /\ crossed' = (crossed \/ p.epoch # epoch)
          BY Zenon, <1>2, <3>2 DEF acknowledged, on_success
        <4>2. p.epoch = epoch => p.size <= path
          BY Zenon, <4>1 DEF ProbesOK
        <4>3. QED
          BY Zenon, <2>1, <4>1, <4>2 DEF SettledOK
      <3>3. QED
        BY Zenon, <3>1, <3>2
    <2>5. QED
      BY Zenon, <1>2, <2>2, <2>3, <2>4 DEF acknowledged
  <1>3. ASSUME NEW p \in flying \cup late, timed_out(p) PROVE PmtudInv'
    <2>1. late' \subseteq late \cup {p} /\ flying' \subseteq flying
      BY Zenon, <1>3 DEF timed_out
    <2>2. state' \in {state, "Failed"} /\ attempts' \in Nat
      BY <1>3 DEF timed_out, on_timeout, PmtudTypes
    <2>3. current_probe' \in Nat /\ current_probe' >= MIN_MTU
      BY <1>3, NextProbeBounds DEF timed_out, on_timeout, PmtudTypes
    <2>4. PmtudTypes'
      BY Zenon, <1>3, <2>1, <2>2, <2>3 DEF timed_out, PmtudTypes
    <2>5. ProbesOK'
      BY Zenon, <1>3, <2>1 DEF timed_out, ProbesOK
    <2>6. SettledOK'
      BY Zenon, <1>3, <2>2 DEF timed_out, SettledOK
    <2>7. QED
      BY Zenon, <2>3, <2>4, <2>5, <2>6
  <1>4. ASSUME NEW initial \in Sizes, reset(initial) PROVE PmtudInv'
    <2>1. initial \in Nat
      BY Zenon
    <2>2. current_probe' \in Nat /\ current_probe' >= MIN_MTU
      BY Zenon, <1>4, <2>1, Max2Bounds DEF reset
    <2>3. PmtudTypes'
      <3>1. path' \in Nat /\ epoch' \in Nat
        BY <1>4 DEF reset, PmtudTypes
      <3>2. flying' \subseteq ProbeRecord /\ late' \subseteq ProbeRecord
        BY Zenon, <1>4 DEF reset, PmtudTypes
      <3>3. QED
        BY Zenon, <1>4, <2>2, <3>1, <3>2 DEF reset, PmtudTypes
    <2>4. ProbesOK'
      <3> SUFFICES ASSUME NEW p \in flying \cup late
                   PROVE  p.size >= MIN_MTU /\ p.epoch < epoch + 1
        BY <1>4 DEF reset, ProbesOK, PmtudTypes, ProbeRecord
      <3> QED
        BY DEF ProbesOK, PmtudTypes, ProbeRecord
    <2>5. QED
      BY Zenon, <1>4, <2>2, <2>3, <2>4 DEF reset, SettledOK
  <1>5. CASE UNCHANGED pmtud_vars
    BY Zenon, <1>5 DEF pmtud_vars, PmtudTypes, ProbesOK, SettledOK
  <1>6. QED
    BY Zenon, <1>1, <1>2, <1>3, <1>4, <1>5 DEF PmtudNext, Issue, Resolve

\* The invariant implies both state properties.
LEMMA PmtudInvImplies == PmtudInv => NeverBelowMinimum /\ SettledSizeFits
  BY PmtudAssumption
     DEF PmtudInv, PmtudTypes, SettledOK, NeverBelowMinimum, SettledSizeFits, mtu

\* The MTU in use is never below MIN_MTU (pmtud.rs, mtu and on_timeout).
THEOREM MinimumKept == PmtudSpec => []NeverBelowMinimum
  <1>1. QED
    BY PmtudInitInv, PmtudNextInv, PmtudInvImplies, PTL DEF PmtudSpec

\* A settled size fits the path, or its answer crossed a reset (on_success).
THEOREM SettledFits == PmtudSpec => []SettledSizeFits
  <1>1. QED
    BY PmtudInitInv, PmtudNextInv, PmtudInvImplies, PTL DEF PmtudSpec

\* No step but a reset leaves Failed (on_success, on_timeout).
THEOREM FailedStays == PmtudSpec => FailedIsFinal
  <1>1. PmtudInv /\ [PmtudNext]_pmtud_vars
        => [state = "Failed" /\ epoch' = epoch => state' = "Failed"]_pmtud_vars
    <2> SUFFICES ASSUME PmtudInv, PmtudNext, state = "Failed", epoch' = epoch
                 PROVE  state' = "Failed"
      BY Zenon DEF pmtud_vars
    <2>1. epoch' # epoch + 1
      BY DEF PmtudInv, PmtudTypes
    <2>2. CASE Issue
      BY Zenon, <2>2 DEF Issue, issue
    <2>3. CASE Resolve
      BY Zenon, <2>3 DEF Resolve, acknowledged, timed_out, on_success, on_timeout, Stale, is_done
    <2>4. QED
      BY Zenon, <2>1, <2>2, <2>3 DEF PmtudNext, reset
  <1>2. QED
    BY PmtudInitInv, PmtudNextInv, <1>1, PTL DEF PmtudSpec, FailedIsFinal

\* The probed size shrinks, and only on a timeout of that size (on_timeout).
THEOREM ShrinkTheorem == PmtudSpec => ShrinksByTimeouts
  <1> DEFINE Shrinks == epoch' = epoch /\ current_probe' # current_probe =>
                 /\ current_probe' < current_probe
                 /\ \E p \in flying : p \notin flying' /\ p.size = current_probe
  <1>1. PmtudInv /\ [PmtudNext]_pmtud_vars => [Shrinks]_pmtud_vars
    <2> SUFFICES ASSUME PmtudInv, PmtudNext, epoch' = epoch, current_probe' # current_probe
                 PROVE  /\ current_probe' < current_probe
                        /\ \E p \in flying : p \notin flying' /\ p.size = current_probe
      BY Zenon DEF pmtud_vars
    <2>1. epoch' # epoch + 1
      BY DEF PmtudInv, PmtudTypes
    <2>2. PICK p \in flying \cup late : timed_out(p)
      BY Zenon, <2>1 DEF PmtudNext, Issue, Resolve, issue, acknowledged, reset
    <2>3. p \in flying /\ p \notin flying' /\ ~Stale(p.size)
      BY Zenon, <2>2 DEF timed_out, on_timeout
    <2>4. current_probe > MIN_MTU /\ current_probe' = NextProbe
      BY <2>2, <2>3, PmtudAssumption DEF timed_out, on_timeout, PmtudInv, PmtudTypes
    <2>5. QED
      BY Zenon, <2>3, <2>4, NextProbeBounds DEF Stale, PmtudInv, PmtudTypes
  <1>2. QED
    BY PmtudInitInv, PmtudNextInv, <1>1, PTL DEF PmtudSpec, ShrinksByTimeouts

----------------------------------------------------------------------------
(* ResolverHook.  ConfigurationKept names two places; the invariant says   *)
(* which of them holds the configuration at which operation.               *)

\* The types that the steps rely on.
HookTypes == reapplied \in BOOLEAN /\ edited \in BOOLEAN /\ guard \in BOOLEAN

(***************************************************************************)
(* Where the host's configuration is, operation by operation, on a system  *)
(* with resolv.conf, where no command is ever run.  Before the copy it is  *)
(* in place; from the copy to the end of the restore it is in the backup,  *)
(* and before the backup is removed it is in place again.                  *)
(***************************************************************************)
Saved ==
    /\ pc \notin {"set", "add"}
    /\ pc = "copy" => conf = host
    /\ pc = "write" => host \in {Absent, backup}
    /\ guard => pc = "idle" /\ host \in {Absent, backup}
    /\ pc = "restore" => host \in {Absent, backup}
    /\ pc = "remove" => host \in {Absent, conf}

\* The inductive invariant.
HookInv ==
    /\ HookTypes
    /\ platform = "resolv_conf" /\ ~reapplied /\ ~edited
          => Saved /\ host \in {Absent, conf, backup}

\* The invariant holds at the start: the configuration in place is the host's.
LEMMA HookInitInv == HookInit => HookInv
  BY Zenon DEF HookInit, HookInv, HookTypes, Saved

\* Every step keeps the invariant, a failing operation and a crash included.
LEMMA HookNextInv == HookInv /\ [HookNext]_hook_vars => HookInv'
  <1> SUFFICES ASSUME HookInv, [HookNext]_hook_vars PROVE HookInv'
    BY Zenon
  <1> USE DEF HookInv, HookTypes, Saved
  <1>1. CASE apply
    BY Zenon, <1>1 DEF apply
  <1>2. CASE apply_copy
    BY Zenon, <1>2 DEF apply_copy
  <1>3. CASE apply_write
    BY Zenon, <1>3 DEF apply_write
  <1>4. CASE apply_scutil \/ apply_netsh \/ apply_netsh_add
    BY Zenon, <1>4 DEF apply_scutil, apply_netsh, apply_netsh_add
  <1>5. CASE restore \/ disarm
    BY Zenon, <1>5 DEF restore, disarm
  <1>6. CASE restore_resolv_conf
    BY Zenon, <1>6 DEF restore_resolv_conf
  <1>7. CASE restore_remove
    BY Zenon, <1>7 DEF restore_remove
  <1>8. CASE restore_command
    BY Zenon, <1>8 DEF restore_command
  <1>9. CASE crash
    BY Zenon, <1>9 DEF crash
  <1>10. CASE host_writes
    BY Zenon, <1>10 DEF host_writes
  <1>11. CASE UNCHANGED hook_vars
    BY Zenon, <1>11 DEF hook_vars
  <1> QED
    BY Zenon, <1>1, <1>2, <1>3, <1>4, <1>5, <1>6, <1>7, <1>8, <1>9, <1>10, <1>11 DEF HookNext

(***************************************************************************)
(* The host's resolver configuration is in place or in the copy wherever a *)
(* crash or a failing file operation leaves the process, unless the        *)
(* override was applied over one that is not the host's or the file was    *)
(* written meanwhile (resolver_hook.rs, apply_resolv_conf and              *)
(* restore_resolv_conf), for any configurations and number of servers.     *)
(***************************************************************************)
THEOREM ConfigurationSurvives == HookSpec => []ConfigurationKept
  <1>1. HookInv => ConfigurationKept
    BY Zenon DEF HookInv, ConfigurationKept
  <1> QED
    BY HookInitInv, HookNextInv, <1>1, PTL DEF HookSpec

----------------------------------------------------------------------------
(* PeerToPeer (p2p/holepunch.rs, p2p/relay.rs).  PathIsConfirmed for every *)
(* number of relays, every interval and every deadline.  What an attempt   *)
(* returns is decided by one datagram, so the invariant speaks of the      *)
(* datagrams on the way: a pong of this attempt is there only if the other *)
(* peer answered its ping, and an announcement only if a relay has both    *)
(* peers registered.  Both causes last.                                    *)

\* What the local variables of a peer hold.
Locals ==
    [pc : {"idle", "burst", "recv", "fall_back", "next_relay", "relay", "done"},
     wait : Nat, timer : Nat, punch_left : Nat, total_left : Nat,
     relay_servers : Seq(Relays), budget : Nat, relay : Nat,
     outcome : Results \cup Relays]

\* The relay in use is one of the list.
InRange(x) == x.relay <= Len(x.relay_servers) /\ (x.pc = "relay" => x.relay >= 1)

\* A pong of this attempt and an announcement on the way have their cause.
Caused ==
    /\ \A m \in net, p \in Peers :
          m.kind = "Pong" /\ m.nonce = Nonce(p) => Nonce(p) \in answered
    /\ \A m \in net :
          m.kind = "PeerJoined" => \E r \in Relays : registered[r] = Peers

\* The inductive invariant.
PeerInv ==
    /\ peer \in [Peers -> Locals]
    /\ \A p \in Peers : InRange(peer[p])
    /\ registered \in [Relays -> SUBSET Peers]
    /\ Caused
    /\ PathIsConfirmed

(***************************************************************************)
(* A step of one peer keeps the invariant if its locals stay in order and  *)
(* an outcome that is new is an error or has its cause.                    *)
(***************************************************************************)
LEMMA PeerMoves ==
    ASSUME PeerInv, NEW p \in Peers, NEW x \in Locals, InRange(x),
           peer' = [peer EXCEPT ![p] = x],
           \/ x.outcome = peer[p].outcome
           \/ x.outcome \in Results \ {"direct"}
           \/ x.outcome = "direct" /\ Nonce(p) \in answered
           \/ x.outcome \in Relays /\ \E r \in Relays : registered[r] = Peers,
           answered \subseteq answered',
           registered' \in [Relays -> SUBSET Peers],
           \A r \in Relays : registered[r] = Peers => registered'[r] = Peers,
           Caused'
    PROVE  PeerInv'
  <1>1. peer' \in [Peers -> Locals] /\ peer'[p] = x /\ \A q \in Peers \ {p} : peer'[q] = peer[q]
    BY Zenon DEF PeerInv
  <1>2. \A q \in Peers : InRange(peer'[q])
    BY Zenon, <1>1 DEF PeerInv
  <1>3. ASSUME NEW q \in Peers
        PROVE  /\ peer'[q].outcome = "direct" => Nonce(q) \in answered'
               /\ peer'[q].outcome \in Relays => \E r \in Relays : registered'[r] = Peers
    <2>1. "direct" \notin Relays /\ \A o \in Results : o \notin Relays
      BY Zenon, PeerToPeerAssumption DEF Results
    <2>2. /\ peer[q].outcome = "direct" => Nonce(q) \in answered
          /\ peer[q].outcome \in Relays => \E r \in Relays : registered[r] = Peers
      BY Zenon DEF PeerInv, PathIsConfirmed
    <2>3. CASE q = p
      BY Zenon, <1>1, <2>1, <2>2, <2>3
    <2>4. CASE q # p
      BY Zenon, <1>1, <2>2, <2>4
    <2> QED
      BY Zenon, <2>3, <2>4
  <1>4. PathIsConfirmed'
    BY Zenon, <1>3 DEF PathIsConfirmed, Nonce
  <1> QED
    BY Zenon, <1>1, <1>2, <1>4 DEF PeerInv

\* Datagrams that are lost, and probes that are sent, need no cause.
LEMMA NothingCaused ==
    ASSUME PeerInv, answered \subseteq answered',
           \A r \in Relays : registered[r] = Peers => registered'[r] = Peers,
           \A m \in net' : m \in net \/ m.kind \in {"Ping", "Registered", "Error"}
    PROVE  Caused'
  <1>1. Caused
    BY Zenon DEF PeerInv
  <1>2. ASSUME NEW m \in net', NEW p \in Peers, m.kind = "Pong", m.nonce = Nonce(p)
        PROVE  Nonce(p) \in answered'
    BY Zenon, <1>1, <1>2 DEF Caused
  <1>3. ASSUME NEW m \in net', m.kind = "PeerJoined"
        PROVE  \E r \in Relays : registered'[r] = Peers
    BY Zenon, <1>1, <1>3 DEF Caused
  <1> QED
    BY Zenon, <1>2, <1>3 DEF Caused, Nonce

\* An attempt that returns keeps the invariant if its result has its cause.
LEMMA ReturnMoves ==
    ASSUME PeerInv, NEW p \in Peers, NEW result, Return(p, result),
           \/ result \in Results \ {"direct"}
           \/ result = "direct" /\ Nonce(p) \in answered
           \/ result \in Relays /\ \E r \in Relays : registered[r] = Peers,
           answered \subseteq answered', UNCHANGED registered
    PROVE  PeerInv'
  <1> DEFINE x == [Idle EXCEPT !.pc = "done", !.total_left = peer[p].total_left,
                               !.relay_servers = peer[p].relay_servers,
                               !.relay = peer[p].relay, !.outcome = result]
  <1>1. peer[p] \in Locals /\ InRange(peer[p]) /\ registered \in [Relays -> SUBSET Peers]
    BY Zenon DEF PeerInv
  <1>2. result \in Results \cup Relays
    BY Zenon DEF Results
  <1>3. x \in Locals /\ InRange(x) /\ x.outcome = result
    BY Zenon, <1>1, <1>2 DEF Idle, Locals, InRange
  <1>4. peer' = [peer EXCEPT ![p] = x] /\ net' \subseteq net
    BY Zenon DEF Return
  <1>5. Caused'
    BY Zenon, <1>4, NothingCaused
  <1> HIDE DEF x
  <1> QED
    BY Zenon, <1>1, <1>3, <1>4, <1>5, PeerMoves

\* Before a peer starts there are only pongs of earlier attempts.
LEMMA PeerInitInv == Init => PeerInv
  <1> SUFFICES ASSUME Init PROVE PeerInv
    BY Zenon
  <1>1. Idle \in Locals /\ InRange(Idle) /\ Idle.outcome = "none"
    BY DEF Idle, Locals, InRange, Results
  <1>2. peer \in [Peers -> Locals] /\ \A p \in Peers : peer[p] = Idle
    BY Zenon, <1>1 DEF Init
  <1>3. registered \in [Relays -> SUBSET Peers]
    BY Zenon DEF Init
  <1>4. Caused
    <2>1. \A m \in net : m.kind = "Pong" /\ \E p \in Earlier : m.nonce = <<p, "old">>
      BY DEF Init, Pong
    <2>2. \A m \in net, p \in Peers : m.nonce # Nonce(p)
      BY <2>1 DEF Nonce
    <2> QED
      BY Zenon, <2>1, <2>2 DEF Caused
  <1>5. PathIsConfirmed
    BY Zenon, <1>1, <1>2, PeerToPeerAssumption DEF PathIsConfirmed, Results
  <1> QED
    BY Zenon, <1>1, <1>2, <1>3, <1>4, <1>5 DEF PeerInv

\* The punch gives up: the last burst may have gone out.
LEMMA PunchFailsMoves ==
    ASSUME PeerInv, NEW p \in Peers, NEW sent, PunchFails(p, sent),
           \A m \in sent : m.kind = "Ping", UNCHANGED <<registered, answered>>
    PROVE  PeerInv'
  <1> DEFINE x == [peer[p] EXCEPT !.pc = "fall_back", !.wait = 0, !.timer = 0,
                                  !.punch_left = 0]
  <1>1. /\ peer \in [Peers -> Locals] /\ peer[p] \in Locals /\ InRange(peer[p])
        /\ registered \in [Relays -> SUBSET Peers]
    BY Zenon DEF PeerInv
  <1>2. peer' = [peer EXCEPT ![p] = x]
    BY Zenon, <1>1 DEF PunchFails
  <1>3. x \in Locals /\ InRange(x) /\ x.outcome = peer[p].outcome
    BY Zenon, <1>1 DEF Locals, InRange
  <1>4. \A m \in net' : m \in net \/ m.kind = "Ping"
    BY Zenon DEF PunchFails, Matters
  <1>5. Caused'
    BY Zenon, <1>4, NothingCaused
  <1> HIDE DEF x
  <1> QED
    BY Zenon, <1>1, <1>2, <1>3, <1>5, PeerMoves

\* hole_punch, up to the pong that completes it.
LEMMA PunchInv ==
    ASSUME PeerInv, NEW p \in Peers,
           \/ try_direct_then_relay(p)
           \/ send_burst(p)
           \/ punch_io_error(p)
           \/ recv_timeout(p)
    PROVE  PeerInv'
  <1>0. UNCHANGED <<registered, answered>>
    BY Zenon DEF try_direct_then_relay, send_burst, punch_io_error, recv_timeout
  <1>1. /\ peer \in [Peers -> Locals] /\ peer[p] \in Locals /\ InRange(peer[p])
        /\ registered \in [Relays -> SUBSET Peers]
    BY Zenon DEF PeerInv
  <1>2. CASE Return(p, "bad_config")
    BY Zenon, <1>0, <1>2, ReturnMoves DEF Results
  <1>3. ASSUME NEW relays \in RelayLists, UNCHANGED net,
               peer' = [peer EXCEPT ![p] = [Idle EXCEPT !.pc = "burst",
                                                        !.punch_left = deadline,
                                                        !.total_left = total_deadline,
                                                        !.relay_servers = relays]]
        PROVE  PeerInv'
    <2> DEFINE x == [Idle EXCEPT !.pc = "burst", !.punch_left = deadline,
                                 !.total_left = total_deadline, !.relay_servers = relays]
    <2>1. relays \in Seq(Relays)
      BY Zenon, PeerToPeerAssumption
    <2>2. x \in Locals /\ InRange(x) /\ x.outcome = "none"
      <3>1. Idle \in Locals
        BY DEF Idle, Locals, Results
      <3>2. x \in Locals
        BY Zenon, <2>1, <3>1, PeerToPeerAssumption DEF Locals
      <3>3. x.relay = 0 /\ x.outcome = "none" /\ x.pc = "burst" /\ x.relay_servers = relays
        BY Zenon DEF Idle
      <3>4. Len(relays) \in Nat
        BY <2>1
      <3> HIDE DEF x
      <3> QED
        BY <3>2, <3>3, <3>4 DEF InRange
    <2>3. Caused'
      BY Zenon, <1>0, <1>3, NothingCaused
    <2>4. x.outcome \in Results \ {"direct"}
      BY Zenon, <2>2 DEF Results
    <2>5. peer' = [peer EXCEPT ![p] = x]
      BY Zenon, <1>3
    <2> HIDE DEF x
    <2> QED
      BY Zenon, <1>0, <1>1, <2>2, <2>3, <2>4, <2>5, PeerMoves
  <1>4. CASE \/ PunchFails(p, {Ping(Nonce(p))})
             \/ PunchFails(p, {})
    <2>1. \A m \in {Ping(Nonce(p))} : m.kind = "Ping"
      BY DEF Ping
    <2> QED
      BY <1>0, <1>4, <2>1, PunchFailsMoves
  <1>5. CASE /\ Send({Ping(Nonce(p))})
             /\ peer' = [peer EXCEPT ![p].pc = "recv",
                                     ![p].wait = Smaller(peer[p].punch_left, interval),
                                     ![p].timer = Smaller(peer[p].punch_left, interval)]
    <2> DEFINE t == Smaller(peer[p].punch_left, interval)
               x == [peer[p] EXCEPT !.pc = "recv", !.wait = t, !.timer = t]
    <2>1. t \in Nat
      BY Zenon, <1>1, PeerToPeerAssumption DEF Smaller, Locals
    <2> HIDE DEF t
    <2>2. peer' = [peer EXCEPT ![p] = x]
      BY Zenon, <1>1, <1>5 DEF t
    <2>3. x \in Locals /\ InRange(x) /\ x.outcome = peer[p].outcome
      <3>1. x \in Locals
        BY Zenon, <1>1, <2>1 DEF Locals
      <3>2. /\ x.outcome = peer[p].outcome /\ x.pc = "recv" /\ x.relay = peer[p].relay
            /\ x.relay_servers = peer[p].relay_servers
        BY Zenon, <1>1 DEF Locals
      <3> QED
        BY Zenon, <1>1, <3>1, <3>2 DEF InRange
    <2>4. \A m \in net' : m \in net \/ m.kind = "Ping"
      BY <1>5 DEF Send, Matters, Ping
    <2>5. Caused'
      BY Zenon, <1>0, <2>4, NothingCaused
    <2> HIDE DEF x
    <2> QED
      BY Zenon, <1>0, <1>1, <2>2, <2>3, <2>5, PeerMoves
  <1>6. CASE Goto(p, "burst") /\ UNCHANGED net
    <2> DEFINE x == [peer[p] EXCEPT !.pc = "burst"]
    <2>1. peer' = [peer EXCEPT ![p] = x]
      BY Zenon, <1>1, <1>6 DEF Goto
    <2>2. x \in Locals /\ InRange(x) /\ x.outcome = peer[p].outcome
      BY Zenon, <1>1 DEF Locals, InRange
    <2>3. Caused'
      BY Zenon, <1>0, <1>6, NothingCaused
    <2> HIDE DEF x
    <2> QED
      BY Zenon, <1>0, <1>1, <2>1, <2>2, <2>3, PeerMoves
  <1>7. CASE try_direct_then_relay(p)
    BY Zenon, <1>2, <1>3, <1>7 DEF try_direct_then_relay
  <1>8. CASE send_burst(p)
    BY Zenon, <1>4, <1>5, <1>8 DEF send_burst
  <1>9. CASE punch_io_error(p) \/ recv_timeout(p)
    BY Zenon, <1>4, <1>6, <1>9 DEF punch_io_error, recv_timeout
  <1> QED
    BY Zenon, <1>7, <1>8, <1>9

\* A datagram during the punch: answering a ping is what causes its pong.
LEMMA PunchRecvInv ==
    ASSUME PeerInv, NEW p \in Peers, NEW m \in net, punch_recv(p, m)
    PROVE  PeerInv'
  <1> DEFINE pong == IF m.kind = "Ping" THEN {Pong(m.nonce)} ELSE {}
  <1>1. /\ peer \in [Peers -> Locals] /\ peer[p] \in Locals /\ InRange(peer[p])
        /\ registered \in [Relays -> SUBSET Peers] /\ Caused
    BY Zenon DEF PeerInv
  <1>2. answered' = answered \cup {reply.nonce : reply \in pong} /\ UNCHANGED registered
    BY Zenon DEF punch_recv
  <1>3. CASE Confirms(p, m) /\ Return(p, "direct")
    <2>1. Nonce(p) \in answered
      BY Zenon, <1>1, <1>3 DEF Confirms, Caused
    <2> QED
      BY Zenon, <1>2, <1>3, <2>1, ReturnMoves
  <1>4. CASE /\ peer' = [peer EXCEPT ![p].timer = peer[p].wait]
             /\ net' = (net \ {m}) \cup Matters(pong)
    <2> DEFINE x == [peer[p] EXCEPT !.timer = peer[p].wait]
    <2>1. peer' = [peer EXCEPT ![p] = x]
      BY Zenon, <1>1, <1>4
    <2>2. x \in Locals /\ InRange(x) /\ x.outcome = peer[p].outcome
      BY Zenon, <1>1 DEF Locals, InRange
    <2>3. \A d \in net' : d \in net \/ d \in pong
      BY Zenon, <1>4 DEF Matters
    <2>4. \A d \in pong : d.kind = "Pong" /\ d.nonce \in answered'
      BY <1>2 DEF Pong
    <2> HIDE DEF x, pong
    <2>5. ASSUME NEW d \in net', NEW q \in Peers, d.kind = "Pong", d.nonce = Nonce(q)
          PROVE  Nonce(q) \in answered'
      BY Zenon, <1>1, <1>2, <2>3, <2>4, <2>5 DEF Caused
    <2>6. ASSUME NEW d \in net', d.kind = "PeerJoined"
          PROVE  \E r \in Relays : registered'[r] = Peers
      BY Zenon, <1>1, <1>2, <2>3, <2>4, <2>6 DEF Caused
    <2>7. Caused'
      BY Zenon, <2>5, <2>6 DEF Caused, Nonce
    <2> QED
      BY Zenon, <1>1, <1>2, <2>1, <2>2, <2>7, PeerMoves
  <1> QED
    BY Zenon, <1>3, <1>4 DEF punch_recv

\* relay_connect gives up on one relay.
LEMMA NextRelayMoves ==
    ASSUME PeerInv, NEW p \in Peers, NextRelay(p), net' \subseteq net,
           UNCHANGED <<registered, answered>>
    PROVE  PeerInv'
  <1> DEFINE x == [peer[p] EXCEPT !.pc = "next_relay", !.timer = 0]
  <1>1. /\ peer \in [Peers -> Locals] /\ peer[p] \in Locals /\ InRange(peer[p])
        /\ registered \in [Relays -> SUBSET Peers]
    BY Zenon DEF PeerInv
  <1>2. peer' = [peer EXCEPT ![p] = x]
    BY Zenon, <1>1 DEF NextRelay
  <1>3. x \in Locals /\ InRange(x) /\ x.outcome = peer[p].outcome
    BY Zenon, <1>1 DEF Locals, InRange
  <1>4. Caused'
    BY Zenon, NothingCaused
  <1> HIDE DEF x
  <1> QED
    BY Zenon, <1>1, <1>2, <1>3, <1>4, PeerMoves

\* The relays, up to the announcement that completes the attempt.
LEMMA RelayInv ==
    ASSUME PeerInv, NEW p \in Peers,
           \/ fall_back(p)
           \/ relay_connect(p)
           \/ relay_timeout(p)
           \/ relay_io_error(p)
    PROVE  PeerInv'
  <1>0. answered' = answered
    BY Zenon DEF fall_back, relay_connect, relay_timeout, relay_io_error
  <1>1. /\ peer \in [Peers -> Locals] /\ peer[p] \in Locals /\ InRange(peer[p])
        /\ registered \in [Relays -> SUBSET Peers]
    BY Zenon DEF PeerInv
  <1>2. CASE \/ Return(p, "timeout") /\ UNCHANGED registered
             \/ Return(p, "no_relay_servers") /\ UNCHANGED registered
             \/ Return(p, "no_relay") /\ UNCHANGED registered
    BY Zenon, <1>0, <1>2, ReturnMoves DEF Results
  <1>3. CASE fall_back(p)
    <2> DEFINE budget == Larger(peer[p].total_left \div Len(peer[p].relay_servers), MinBudget)
               x == [peer[p] EXCEPT !.pc = "next_relay", !.budget = budget]
    <2>1. CASE /\ peer[p].relay_servers # << >> /\ UNCHANGED <<net, registered>>
               /\ peer' = [peer EXCEPT ![p].pc = "next_relay", ![p].budget = budget]
      <3>1. Len(peer[p].relay_servers) \in Nat \ {0} /\ peer[p].total_left \in Nat
        BY <1>1, <2>1 DEF Locals
      <3>2. budget \in Nat
        BY <3>1, PeerToPeerAssumption DEF Larger
      <3> HIDE DEF budget
      <3>3. peer' = [peer EXCEPT ![p] = x]
        BY Zenon, <1>1, <2>1
      <3>4. x \in Locals
        BY Zenon, <1>1, <3>2 DEF Locals
      <3>5. /\ x.outcome = peer[p].outcome /\ x.pc = "next_relay"
            /\ x.relay = peer[p].relay /\ x.relay_servers = peer[p].relay_servers
        BY Zenon, <1>1 DEF Locals
      <3>6. InRange(x)
        BY Zenon, <1>1, <3>5 DEF InRange
      <3>7. Caused'
        BY Zenon, <1>0, <2>1, NothingCaused
      <3> HIDE DEF x
      <3> QED
        BY Zenon, <1>0, <1>1, <2>1, <3>3, <3>4, <3>5, <3>6, <3>7, PeerMoves
    <2> QED
      BY Zenon, <1>2, <1>3, <2>1 DEF fall_back
  <1>4. CASE relay_connect(p)
    <2> DEFINE tried == peer[p].relay
               r == peer[p].relay_servers[tried + 1]
               t == attempt_deadline(p)
               x == [peer[p] EXCEPT !.pc = "relay", !.relay = tried + 1, !.timer = t]
    <2>1. CASE /\ tried < Len(peer[p].relay_servers) /\ AtRelay(r, p)
               /\ peer' = [peer EXCEPT ![p].pc = "relay", ![p].relay = tried + 1,
                                       ![p].timer = t]
      <3>1. /\ peer[p].relay_servers \in Seq(Relays) /\ tried \in Nat
            /\ peer[p].budget \in Nat /\ peer[p].total_left \in Nat
        BY Zenon, <1>1 DEF Locals
      <3>2. t \in Nat /\ tried + 1 \in Nat
        BY <3>1 DEF attempt_deadline, Smaller
      <3>3. r \in Relays
        BY <2>1, <3>1
      <3> HIDE DEF t, r
      <3>4. peer' = [peer EXCEPT ![p] = x]
        BY Zenon, <1>1, <2>1
      <3>5. x \in Locals
        BY Zenon, <1>1, <3>2 DEF Locals
      <3>6. /\ x.outcome = peer[p].outcome /\ x.pc = "relay" /\ x.relay = tried + 1
            /\ x.relay_servers = peer[p].relay_servers
        BY Zenon, <1>1 DEF Locals
      <3>7. InRange(x)
        BY <2>1, <3>1, <3>6 DEF InRange
      <3> HIDE DEF x
      <3>8. CASE /\ registered' = registered
                 /\ \A m \in net' : m \in net \/ m.kind = "Error"
        <4>1. Caused'
          BY Zenon, <1>0, <3>8, NothingCaused
        <4> QED
          BY Zenon, <1>0, <1>1, <3>4, <3>5, <3>6, <3>7, <3>8, <4>1, PeerMoves
      <3>9. CASE /\ registered' = [registered EXCEPT ![r] = @ \cup {p}]
                 /\ Send({ToPeer("Registered", p)}
                          \cup {ToPeer("PeerJoined", q) : q \in
                                   IF registered'[r] = Peers THEN Peers ELSE {}})
        <4>1. /\ registered' \in [Relays -> SUBSET Peers]
              /\ \A s \in Relays : registered[s] \subseteq registered'[s]
          BY Zenon, <1>1, <3>3, <3>9
        <4>2. \A s \in Relays : registered[s] = Peers => registered'[s] = Peers
          BY Zenon, <4>1
        <4>3. \A m \in net' : \/ m \in net
                              \/ m.kind = "Registered"
                              \/ m.kind = "PeerJoined" /\ registered'[r] = Peers
          BY <3>9 DEF Send, Matters, ToPeer
        <4>4. Caused
          BY Zenon DEF PeerInv
        <4>5. ASSUME NEW m \in net', NEW q \in Peers, m.kind = "Pong", m.nonce = Nonce(q)
              PROVE  Nonce(q) \in answered'
          BY Zenon, <1>0, <4>3, <4>4, <4>5 DEF Caused
        <4>6. ASSUME NEW m \in net', m.kind = "PeerJoined"
              PROVE  \E s \in Relays : registered'[s] = Peers
          BY Zenon, <3>3, <4>2, <4>3, <4>4, <4>6 DEF Caused
        <4>7. Caused'
          BY Zenon, <4>5, <4>6 DEF Caused, Nonce
        <4> QED
          BY Zenon, <1>0, <1>1, <3>4, <3>5, <3>6, <3>7, <4>1, <4>2, <4>7, PeerMoves
      <3>10. CASE Send({ToPeer("Error", p)}) /\ UNCHANGED registered
        BY <3>8, <3>10 DEF Send, Matters, ToPeer
      <3> QED
        BY Zenon, <2>1, <3>8, <3>9, <3>10 DEF AtRelay
    <2> QED
      BY Zenon, <1>2, <1>4, <2>1 DEF relay_connect
  <1>5. CASE NextRelay(p) /\ UNCHANGED <<net, registered>>
    BY Zenon, <1>0, <1>5, NextRelayMoves
  <1> QED
    BY Zenon, <1>3, <1>4, <1>5 DEF relay_timeout, relay_io_error

\* A frame while waiting for a relay: only an announcement ends the attempt.
LEMMA RelayRecvInv ==
    ASSUME PeerInv, NEW p \in Peers, NEW m \in net, relay_recv(p, m)
    PROVE  PeerInv'
  <1>0. UNCHANGED <<registered, answered>> /\ At(p, "relay")
    BY Zenon DEF relay_recv
  <1>1. /\ peer[p] \in Locals /\ InRange(peer[p]) /\ Caused
        /\ registered \in [Relays -> SUBSET Peers]
    BY Zenon DEF PeerInv
  <1>2. CASE Pairs(m) /\ Return(p, peer[p].relay_servers[peer[p].relay])
    <2>1. /\ peer[p].relay_servers \in Seq(Relays) /\ peer[p].relay \in Nat
          /\ peer[p].relay >= 1 /\ peer[p].relay <= Len(peer[p].relay_servers)
      BY Zenon, <1>0, <1>1 DEF Locals, InRange, At
    <2>2. peer[p].relay_servers[peer[p].relay] \in Relays
      BY <2>1
    <2>3. \E r \in Relays : registered[r] = Peers
      BY Zenon, <1>1, <1>2 DEF Pairs, Caused
    <2> QED
      BY Zenon, <1>0, <1>2, <2>2, <2>3, ReturnMoves
  <1>3. CASE net' = net \ {m} /\ NextRelay(p)
    BY Zenon, <1>0, <1>3, NextRelayMoves
  <1>4. CASE net' = net \ {m} /\ UNCHANGED peer
    <2>1. Caused'
      BY Zenon, <1>0, <1>4, NothingCaused
    <2> QED
      BY Zenon, <1>0, <1>4, <2>1 DEF PeerInv, PathIsConfirmed, Nonce
  <1> QED
    BY Zenon, <1>2, <1>3, <1>4 DEF relay_recv

\* Time changes no outcome.
LEMMA TickInv == PeerInv /\ time_passes => PeerInv'
  <1> SUFFICES ASSUME PeerInv, time_passes PROVE PeerInv'
    BY Zenon
  <1>1. peer \in [Peers -> Locals] /\ \A p \in Peers : InRange(peer[p])
    BY Zenon DEF PeerInv
  <1>2. UNCHANGED <<net, registered, answered>>
    BY Zenon DEF time_passes
  <1>3. ASSUME NEW p \in Peers
        PROVE  peer'[p] \in Locals /\ InRange(peer'[p]) /\ peer'[p].outcome = peer[p].outcome
    <2>1. peer[p] \in Locals /\ InRange(peer[p])
      BY Zenon, <1>1
    <2> DEFINE x == [peer[p] EXCEPT !.timer = Elapsed(@), !.punch_left = Elapsed(@),
                                    !.total_left = Elapsed(@)]
    <2>2. peer'[p] = peer[p] \/ peer'[p] = x
      BY Zenon DEF time_passes
    <2>3. \A left \in Nat : Elapsed(left) \in Nat
      BY DEF Elapsed
    <2>4. x \in Locals
      BY Zenon, <2>1, <2>3 DEF Locals
    <2>5. /\ x.outcome = peer[p].outcome /\ x.pc = peer[p].pc /\ x.relay = peer[p].relay
          /\ x.relay_servers = peer[p].relay_servers
      BY Zenon, <2>1 DEF Locals
    <2>6. InRange(x)
      BY Zenon, <2>1, <2>5 DEF InRange
    <2> HIDE DEF x
    <2> QED
      BY Zenon, <2>1, <2>2, <2>4, <2>5, <2>6
  <1>4. peer' \in [Peers -> Locals]
    <2>1. DOMAIN peer' = Peers /\ peer' = [p \in Peers |-> peer'[p]]
      BY Zenon DEF time_passes
    <2> QED
      BY Zenon, <1>3, <2>1
  <1>5. Caused'
    BY Zenon, <1>2 DEF PeerInv, Caused, Nonce
  <1>6. PathIsConfirmed'
    BY Zenon, <1>2, <1>3 DEF PeerInv, PathIsConfirmed, Nonce
  <1> QED
    BY Zenon, <1>2, <1>3, <1>4, <1>5, <1>6 DEF PeerInv

(***************************************************************************)
(* try_direct_then_relay returns only real paths, for any number of relays *)
(* and any deadlines: a direct one after the other peer has answered a     *)
(* ping of this attempt, a relayed one after a relay has paired the peers. *)
(***************************************************************************)
THEOREM PathsAreReal == Spec => []PathIsConfirmed
  <1>1. PeerInv /\ [Next]_vars => PeerInv'
    <2> SUFFICES ASSUME PeerInv, [Next]_vars PROVE PeerInv'
      BY Zenon
    <2>1. CASE UNCHANGED vars
      BY Zenon, <2>1 DEF vars, PeerInv, Caused, PathIsConfirmed, Nonce
    <2>2. CASE Next
      BY Zenon, <2>2, PunchInv, PunchRecvInv, RelayInv, RelayRecvInv, TickInv DEF Next, Advance
    <2> QED
      BY Zenon, <2>1, <2>2
  <1>2. PeerInv => PathIsConfirmed
    BY Zenon DEF PeerInv
  <1> QED
    BY <1>1, <1>2, PeerInitInv, PTL DEF Spec

----------------------------------------------------------------------------
(* config/: PUT /api/v1/config. *)

Moved(old, fresh) == (DOMAIN old \ DOMAIN fresh) \cup (DOMAIN fresh \ DOMAIN old)

\* The changes are those of the sections kept and the sections that moved.
LEMMA InDiff ==
  ASSUME NEW old, NEW fresh, NEW c
  PROVE  c \in diff(old, fresh) <=>
             \/ \E s \in DOMAIN old \cap DOMAIN fresh : c \in ChangedIn(old, fresh, s)
             \/ \E s \in Moved(old, fresh) : c = <<s, s>>
  <1> DEFINE K == DOMAIN old \cap DOMAIN fresh
             M == Moved(old, fresh)
             A == UNION {ChangedIn(old, fresh, s) : s \in K}
             B == {<<s, s>> : s \in M}
  <1>1. diff(old, fresh) = A \cup B
    BY Zenon DEF diff, Moved
  <1> HIDE DEF K, M
  <1>2. c \in A <=> \E s \in K : c \in ChangedIn(old, fresh, s)
    BY Zenon
  <1>3. c \in B <=> \E s \in M : c = <<s, s>>
    BY Zenon
  <1> HIDE DEF A, B
  <1> QED
    BY Zenon, <1>1, <1>2, <1>3 DEF K, M

\* A section that came or went is a change.
LEMMA SectionsCounted ==
  ASSUME NEW old, NEW fresh, NEW s \in Moved(old, fresh)
  PROVE  <<s, s>> \in diff(old, fresh)
  BY Zenon, InDiff

\* A field whose value differs is a change.
LEMMA FieldsCounted ==
  ASSUME NEW old, NEW fresh, NEW s \in DOMAIN old \cap DOMAIN fresh, NEW f \in Fields[s],
         old[s][f] # fresh[s][f]
  PROVE  <<s, Field(s, f)>> \in diff(old, fresh)
  <1>1. <<s, Field(s, f)>> \in ChangedIn(old, fresh, s)
    BY Zenon DEF ChangedIn
  <1> QED
    BY Zenon, <1>1, InDiff

\* What is_safe lets through leaves the tunnel's identity alone.
LEMMA SafeKeepsIdentity ==
  ASSUME NEW old, NEW fresh, "general" \in DOMAIN old, "general" \in DOMAIN fresh,
         is_safe(diff(old, fresh))
  PROVE  Identity(old) = Identity(fresh)
  <1>1. \A c \in Unsafe : c \notin diff(old, fresh)
    BY Zenon DEF is_safe
  <1>2. ASSUME NEW s \in {"server", "client"} PROVE s \in DOMAIN old <=> s \in DOMAIN fresh
    <2>1. <<s, s>> \in Unsafe
      BY Zenon DEF Unsafe
    <2> QED
      BY Zenon, <1>1, <2>1, SectionsCounted DEF Moved
  <1>3. \A u \in Pinned : /\ u[1] \in {"general", "server", "client"} /\ u = <<u[1], u[2]>>
                          /\ u[2] \in Fields[u[1]]
    BY DEF Pinned, Fields
  <1>4. \A u \in Pinned : u[1] \in DOMAIN old <=> u[1] \in DOMAIN fresh
    BY Zenon, <1>2, <1>3
  <1>5. ASSUME NEW u \in Pinned, u[1] \in DOMAIN old
        PROVE  old[u[1]][u[2]] = fresh[u[1]][u[2]]
    <2>1. Field(u[1], u[2]) = u[2]
      BY DEF Field, Pinned, Credentials
    <2>2. u[1] \in DOMAIN old \cap DOMAIN fresh
      BY Zenon, <1>4, <1>5
    <2>3. ASSUME old[u[1]][u[2]] # fresh[u[1]][u[2]] PROVE <<u[1], Field(u[1], u[2])>> \in diff(old, fresh)
      BY Zenon, <1>3, <2>2, <2>3, FieldsCounted
    <2>4. u \in Unsafe
      BY DEF Pinned, Unsafe
    <2> QED
      BY Zenon, <1>1, <1>3, <2>1, <2>3, <2>4
  <1> DEFINE U(c) == {u \in Pinned : u[1] \in DOMAIN c}
             V(c) == {<<u, c[u[1]][u[2]]>> : u \in U(c)}
  <1>6. U(old) = U(fresh)
    BY Zenon, <1>4
  <1>7. V(old) = V(fresh)
    BY Zenon, <1>5, <1>6
  <1>8. DOMAIN old \cap {"server", "client"} = DOMAIN fresh \cap {"server", "client"}
    BY Zenon, <1>2
  <1>9. /\ Identity(old) = <<DOMAIN old \cap {"server", "client"}, V(old)>>
        /\ Identity(fresh) = <<DOMAIN fresh \cap {"server", "client"}, V(fresh)>>
    BY Zenon DEF Identity
  <1> HIDE DEF V
  <1> QED
    BY Zenon, <1>7, <1>8, <1>9

\* diff reports the fields that differ and the sections that came or went.
LEMMA DiffIsExact ==
  ASSUME NEW old, NEW fresh, DOMAIN old \subseteq Sections, DOMAIN fresh \subseteq Sections
  PROVE  Reported(diff(old, fresh), DOMAIN old \cap DOMAIN fresh) = Differing(old, fresh)
  <1> DEFINE kept == DOMAIN old \cap DOMAIN fresh
             moved == Moved(old, fresh)
             D == diff(old, fresh)
             F == {a \in AllFields : a[1] \in kept /\ old[a[1]][a[2]] # fresh[a[1]][a[2]]}
             G == {<<a[1], Field(a[1], a[2])>> : a \in F}
  <1>1. \A c : c \in D <=> \/ \E s \in kept : c \in ChangedIn(old, fresh, s)
                           \/ \E s \in moved : c = <<s, s>>
    BY InDiff
  <1>2. \A s, c : c \in ChangedIn(old, fresh, s) <=>
                      \E f \in Fields[s] : old[s][f] # fresh[s][f] /\ c = <<s, Field(s, f)>>
    BY Zenon DEF ChangedIn
  <1>3. \A a : a \in AllFields <=> \E s \in Sections : \E f \in Fields[s] : a = <<s, f>>
    BY DEF AllFields
  <1> HIDE DEF D
  <1>4. {c \in D : c[1] \in kept} = G
    <2>1. ASSUME NEW c \in D, c[1] \in kept PROVE c \in G
      <3>1. PICK s \in kept : c \in ChangedIn(old, fresh, s)
        <4>1. ASSUME NEW s \in moved, c = <<s, s>> PROVE FALSE
          <5>1. c[1] = s
            BY Zenon, <4>1
          <5> QED
            BY Zenon, <2>1, <5>1 DEF Moved
        <4> QED
          BY Zenon, <1>1, <4>1
      <3>2. PICK f \in Fields[s] : old[s][f] # fresh[s][f] /\ c = <<s, Field(s, f)>>
        BY Zenon, <1>2, <3>1
      <3>3. <<s, f>> \in F
        BY Zenon, <1>3, <3>1, <3>2
      <3> QED
        BY <3>2, <3>3
    <2>2. ASSUME NEW c \in G PROVE c \in D /\ c[1] \in kept
      <3>1. PICK a \in F : c = <<a[1], Field(a[1], a[2])>>
        BY Zenon, <2>2
      <3>2. PICK s \in Sections : \E f \in Fields[s] : a = <<s, f>>
        BY Zenon, <1>3, <3>1
      <3>3. PICK f \in Fields[s] : a = <<s, f>>
        BY Zenon, <3>2
      <3>4. s \in kept /\ old[s][f] # fresh[s][f] /\ c = <<s, Field(s, f)>>
        BY Zenon, <3>1, <3>3
      <3>5. c \in ChangedIn(old, fresh, s)
        BY Zenon, <1>2, <3>3, <3>4
      <3> QED
        BY Zenon, <1>1, <3>4, <3>5
    <2> QED
      BY Zenon, <2>1, <2>2
  <1>5. {c[1] : c \in D} \ kept = (DOMAIN old \cup DOMAIN fresh) \ kept
    <2>1. ASSUME NEW s \in moved PROVE <<s, s>> \in D
      BY Zenon, <1>1
    <2>2. ASSUME NEW c \in D, c[1] \notin kept PROVE c[1] \in moved
      <3>1. ASSUME NEW s \in kept, c \in ChangedIn(old, fresh, s) PROVE c[1] = s
        BY <1>2, <3>1
      <3> QED
        BY <1>1, <2>2, <3>1
    <2>3. ASSUME NEW s \in moved PROVE s \in {c[1] : c \in D}
      <3>1. <<s, s>>[1] = s
        BY Zenon
      <3> QED
        BY Zenon, <2>1, <3>1
    <2> QED
      BY Zenon, <2>2, <2>3 DEF Moved
  <1>6. Reported(D, kept) = [fields |-> G, sections |-> (DOMAIN old \cup DOMAIN fresh) \ kept]
    BY <1>4, <1>5, Zenon DEF Reported
  <1>7. Differing(old, fresh) = [fields |-> G, sections |-> (DOMAIN old \cup DOMAIN fresh) \ kept]
    BY Zenon DEF Differing
  <1> QED
    BY Zenon, <1>6, <1>7 DEF D

\* A configuration the daemon can be built from.
Buildable(c) ==
    /\ DOMAIN c \subseteq Sections /\ "general" \in DOMAIN c
    /\ c.general["mode"] \in DOMAIN c
    /\ "server" \in DOMAIN c => c.server[c.server["auth_method"]] # "absent"

\* from_value keeps what a field says and what Credentials there are.
LEMMA FieldValues ==
  ASSUME NEW doc, NEW s \in DOMAIN doc, NEW f \in Fields[s]
  PROVE  /\ doc[s][f] # "absent" => from_value(doc)[s][f] = doc[s][f]
         /\ f \in Credentials => from_value(doc)[s][f] = doc[s][f]
  BY Zenon DEF from_value

\* Config::from_value lets through what the daemon can be built from.
LEMMA ValidIsBuildable ==
  ASSUME NEW doc, Valid(doc)
  PROVE  Buildable(from_value(doc))
  <1>1. DOMAIN from_value(doc) = DOMAIN doc
    BY Zenon DEF from_value
  <1>2. /\ "general" \in DOMAIN doc /\ \A s \in DOMAIN doc : SectionOk(doc, s)
        /\ AuthOk(doc) /\ HasModeSection(doc)
    BY Zenon DEF Valid
  <1>3. \A s \in DOMAIN doc : s \in Sections
    BY Zenon, <1>2 DEF SectionOk
  <1>4. "mode" \in Fields["general"] /\ <<"general", "mode">> \in Required
    BY Zenon DEF Fields, Required
  <1>5. doc["general"]["mode"] # "absent"
    BY Zenon, <1>2, <1>4 DEF SectionOk
  <1>6. from_value(doc)["general"]["mode"] = doc["general"]["mode"]
    BY Zenon, <1>2, <1>4, <1>5, FieldValues
  <1>7. ASSUME "server" \in DOMAIN doc
        PROVE  from_value(doc)["server"][from_value(doc)["server"]["auth_method"]] # "absent"
    <2>1. /\ "auth_method" \in Fields["server"] /\ <<"server", "auth_method">> \in Required
          /\ Credentials \subseteq Fields["server"]
      BY Zenon DEF Fields, Required, Credentials
    <2>2. doc["server"]["auth_method"] # "absent"
      BY Zenon, <1>2, <1>7, <2>1 DEF SectionOk
    <2>3. doc["server"]["auth_method"] \in Credentials
      BY Zenon, <1>2, <1>7, <2>1, <2>2 DEF SectionOk, Values
    <2>4. from_value(doc)["server"]["auth_method"] = doc["server"]["auth_method"]
      BY Zenon, <1>7, <2>1, <2>2, FieldValues
    <2>5. doc["server"][doc["server"]["auth_method"]] # "absent"
      BY Zenon, <1>2, <1>7 DEF AuthOk
    <2>6. from_value(doc)["server"][doc["server"]["auth_method"]]
              = doc["server"][doc["server"]["auth_method"]]
      BY Zenon, <1>7, <2>1, <2>3, FieldValues
    <2> QED
      BY Zenon, <2>4, <2>5, <2>6
  <1> QED
    BY Zenon, <1>1, <1>2, <1>3, <1>6, <1>7 DEF Buildable, HasModeSection

ReloadInv == ctx \in BOOLEAN /\ (ctx => Buildable(running))

\* What a step of a running daemon does to its configuration.
ReloadStepIsSound ==
    ctx => /\ Identity(running') = Identity(running)
           /\ report' = "applied" =>
                 Reported(reloaded', DOMAIN running \cap DOMAIN running')
                     = Differing(running, running')

\* A PUT that is applied is valid and safe, and reports the difference.
LEMMA PutIsSound ==
  ASSUME ReloadInv, NEW doc, put(doc)
  PROVE  ReloadInv' /\ ReloadStepIsSound
  <1> DEFINE fresh == from_value(doc)
             changed == IF ctx THEN diff(running, fresh) ELSE {}
  <1>1. /\ report' = IF ~Valid(doc) THEN "validation_error"
                     ELSE IF ~is_safe(changed) THEN "unsafe_reload" ELSE "applied"
        /\ reloaded' = IF report' = "applied" THEN changed ELSE {}
        /\ running' = IF report' = "applied" /\ ctx THEN fresh ELSE running
        /\ ctx' = ctx
    BY Zenon DEF put
  <1>2. CASE ~ctx \/ report' # "applied"
    BY Zenon, <1>1, <1>2 DEF ReloadInv, ReloadStepIsSound
  <1>3. CASE ctx /\ report' = "applied"
    <2>1. Valid(doc) /\ is_safe(diff(running, fresh)) /\ running' = fresh
          /\ reloaded' = diff(running, fresh)
      BY Zenon, <1>1, <1>3
    <2>2. Buildable(fresh)
      BY Zenon, <2>1, ValidIsBuildable
    <2> HIDE DEF fresh
    <2>3. Identity(running) = Identity(fresh)
      BY Zenon, <1>3, <2>1, <2>2, SafeKeepsIdentity DEF ReloadInv, Buildable
    <2>4. Reported(diff(running, fresh), DOMAIN running \cap DOMAIN fresh) = Differing(running, fresh)
      BY Zenon, <1>3, <2>2, DiffIsExact DEF ReloadInv, Buildable
    <2> QED
      BY Zenon, <1>1, <1>3, <2>1, <2>2, <2>3, <2>4 DEF ReloadInv, ReloadStepIsSound
  <1> QED
    BY Zenon, <1>2, <1>3

\* The other steps leave the configuration of a running daemon alone.
LEMMA ReloadNextIsSound ==
  ReloadInv /\ [ReloadNext]_reload_vars => ReloadInv' /\ [ReloadStepIsSound]_reload_vars
  <1> SUFFICES ASSUME ReloadInv, [ReloadNext]_reload_vars
               PROVE  ReloadInv' /\ [ReloadStepIsSound]_reload_vars
    BY Zenon
  <1>1. ASSUME NEW doc, init_context(doc) PROVE ReloadInv' /\ ReloadStepIsSound
    <2>1. ~ctx /\ ctx' = TRUE /\ running' = from_value(doc) /\ Valid(doc)
      BY Zenon, <1>1 DEF init_context
    <2>2. Buildable(from_value(doc))
      BY Zenon, <2>1, ValidIsBuildable
    <2>3. ctx' \in BOOLEAN
      BY <2>1, Zenon
    <2> QED
      BY Zenon, <2>1, <2>2, <2>3 DEF ReloadInv, ReloadStepIsSound
  <1>2. CASE put_unreadable \/ reload_answered
    BY <1>2 DEF put_unreadable, reload_answered, ReloadInv, ReloadStepIsSound
  <1>3. CASE UNCHANGED reload_vars
    BY Zenon, <1>3 DEF reload_vars, ReloadInv
  <1> QED
    BY Zenon, <1>1, <1>2, <1>3, PutIsSound DEF ReloadNext

(***************************************************************************)
(* ReloadIsSound: what PUT /config puts in place of the configuration,     *)
(* whatever documents the daemon is started on and given, keeps the fields *)
(* the head of diff.rs lists as needing a restart, is reported change by   *)
(* change, and can be built into the configuration of its mode.            *)
(***************************************************************************)
THEOREM ReloadsAreSound == ReloadSpec => ReloadIsSound
  <1>1. ReloadInit => ReloadInv
    BY Zenon DEF ReloadInit, ReloadInv
  <1>2. ReloadInv => (ctx => /\ running.general["mode"] \in DOMAIN running
                             /\ "server" \in DOMAIN running =>
                                   running.server[running.server["auth_method"]] # "absent")
    BY Zenon DEF ReloadInv, Buildable
  <1> QED
    BY <1>1, <1>2, ReloadNextIsSound, PTL DEF ReloadSpec, ReloadIsSound, ReloadStepIsSound

=============================================================================
