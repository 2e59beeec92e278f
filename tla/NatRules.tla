------------------------------ MODULE NatRules ------------------------------
(***************************************************************************)
(* server/nat.rs: NatController installs three iptables rules and removes  *)
(* them again.  Each iptables call is a step: it may fail, the daemon may  *)
(* die between two of them, and an administrator may delete a rule by      *)
(* hand.  iptables keeps equal rules side by side, so the kernel's table   *)
(* counts them; -D deletes one.                                            *)
(***************************************************************************)
EXTENDS Integers

CONSTANTS
    MaxFaults       \* failing calls, crashes and deletions by hand

VARIABLES
    rules,          \* rules[r]: how many copies of rule r are in the table
    installed,      \* NatController::installed is Some
    op, rule,       \* the call under way and the rule it is at
    left,           \* left[r]: copies a failed -D or a crash left behind
    unordered,      \* a rule was deleted by hand, or its -D failed
    byhand,         \* the rules deleted by hand since the daemon started
    faults

nat_vars == <<rules, installed, op, rule, left, unordered, byhand, faults>>

\* rules(): MASQUERADE on the egress, FORWARD out of the tunnel, FORWARD of
\* the return traffic, in the order of the vector.
Rules == 1 .. 3

NatInit ==
    /\ rules = [r \in Rules |-> 0] /\ installed = FALSE
    /\ op = "idle" /\ rule = 0
    /\ left = [r \in Rules |-> 0] /\ unordered = FALSE
    /\ byhand = {} /\ faults = 0

Fault == faults < MaxFaults /\ faults' = faults + 1

----------------------------------------------------------------------------
\* install: refused when installed; with a config that validate rejects it
\* returns before any call.
install ==
    /\ op = "idle" /\ ~installed
    /\ op' = "install" /\ rule' = 1
    /\ UNCHANGED <<rules, installed, left, unordered, byhand, faults>>

\* iptables -A for the rule at hand; the last one completes the install.
install_rule ==
    /\ op = "install"
    /\ rules' = [rules EXCEPT ![rule] = @ + 1]
    /\ IF rule = 3 THEN op' = "idle" /\ rule' = 0 /\ installed' = TRUE
                   ELSE op' = op /\ rule' = rule + 1 /\ installed' = installed
    /\ UNCHANGED <<left, unordered, byhand, faults>>

\* iptables -A fails: what was committed is rolled back.
install_fails ==
    /\ op = "install" /\ Fault
    /\ IF rule = 1 THEN op' = "idle" /\ rule' = 0
                   ELSE op' = "rollback" /\ rule' = rule - 1
    /\ UNCHANGED <<rules, installed, left, unordered, byhand>>

\* remove takes the installed rules; without any it returns NotInstalled.
remove ==
    /\ op = "idle" /\ installed
    /\ installed' = FALSE /\ op' = "remove" /\ rule' = 3
    /\ UNCHANGED <<rules, left, unordered, byhand, faults>>

\* The rule after this one in the reversed vector.
Backward == IF rule = 1 THEN op' = "idle" /\ rule' = 0 ELSE op' = op /\ rule' = rule - 1

\* iptables -D: one copy goes; without a copy iptables reports an error,
\* which rollback and remove both pass over.
delete_rule ==
    /\ op \in {"rollback", "remove"}
    /\ rules' = [rules EXCEPT ![rule] = IF @ > 0 THEN @ - 1 ELSE 0]
    /\ Backward
    /\ UNCHANGED <<installed, left, unordered, byhand, faults>>

\* Variant: remove gives up at the first error.
delete_fails_stop ==
    /\ op \in {"rollback", "remove"} /\ Fault
    /\ left' = [left EXCEPT ![rule] = @ + 1] /\ unordered' = TRUE
    /\ op' = "idle" /\ rule' = 0
    /\ UNCHANGED <<rules, installed, byhand>>

\* iptables -D fails although the rule is there: the loop goes on.
delete_fails ==
    /\ op \in {"rollback", "remove"} /\ Fault
    /\ rules[rule] > 0
    /\ left' = [left EXCEPT ![rule] = @ + 1] /\ unordered' = TRUE
    /\ Backward
    /\ UNCHANGED <<rules, installed, byhand>>

\* The daemon dies and starts again with a new controller; there is no
\* record of the rules in the table.
nat_crash ==
    /\ Fault
    /\ installed' = FALSE /\ op' = "idle" /\ rule' = 0 /\ left' = rules
    /\ byhand' = {}
    /\ UNCHANGED <<rules, unordered>>

\* An administrator deletes a rule.
delete_by_hand(r) ==
    /\ rules[r] > 0 /\ Fault
    /\ rules' = [rules EXCEPT ![r] = @ - 1]
    /\ left' = [left EXCEPT ![r] = IF @ > 0 THEN @ - 1 ELSE 0]
    /\ unordered' = TRUE /\ byhand' = byhand \cup {r}
    /\ UNCHANGED <<installed, op, rule>>

NatNext ==
    \/ install \/ install_rule \/ install_fails
    \/ remove \/ delete_rule \/ delete_fails
    \/ nat_crash \/ \E r \in Rules : delete_by_hand(r)

NatSpec == NatInit /\ [][NatNext]_nat_vars

----------------------------------------------------------------------------
(***************************************************************************)
(* Between calls the table holds one copy of each rule while installed and *)
(* none otherwise, plus what a failed -D or a crash left: no fewer unless  *)
(* that rule was deleted by hand since the daemon started, and never more. *)
(* A failing install rolls back exactly what it had installed, and remove  *)
(* goes on past a failing rule.  Until a -D fails or a rule is deleted by  *)
(* hand, and through crashes, the return path is open only while the way   *)
(* out is and the way out only while it is masqueraded, since install goes *)
(* through the rules in order and rollback and remove in reverse           *)
(* (server/nat.rs).                                                        *)
(***************************************************************************)
RulesAreSound ==
    /\ op = "idle" => \A r \in Rules :
           LET due == (IF installed THEN 1 ELSE 0) + left[r]
           IN  IF r \in byhand THEN rules[r] <= due ELSE rules[r] = due
    /\ ~unordered => rules[1] >= rules[2] /\ rules[2] >= rules[3]

=============================================================================
