----------------------------- MODULE AntiReplay -----------------------------
(***************************************************************************)
(* One AntiReplayWindow fed by the network: the packets of a session reach *)
(* it reordered, duplicated and with gaps.                                 *)
(***************************************************************************)
EXTENDS AntiReplayWindow

VARIABLES
    window,     \* the AntiReplayWindow of one session
    accepts     \* history: how often each sequence number was accepted

replay_vars == <<window, accepts>>

ReplayInit ==
    /\ window = new
    /\ accepts = [s \in SeqNo |-> 0]

(***************************************************************************)
(* One packet reaches the window.  The network decides which one, so any   *)
(* sequence number may come at any time and any number of times.           *)
(***************************************************************************)
check_and_update(seq) ==
    /\ window' = Update(window, seq)
    /\ accepts' = IF Check(window, seq) = "Ok"
                  THEN [accepts EXCEPT ![seq] = @ + 1]
                  ELSE accepts

ReplayNext == \E seq \in SeqNo : check_and_update(seq)

ReplaySpec == ReplayInit /\ [][ReplayNext]_replay_vars

----------------------------------------------------------------------------
Accepted == {s \in SeqNo : accepts[s] > 0}

(***************************************************************************)
(* The window stays in its type.                                           *)
(***************************************************************************)
ReplayTypeOK ==
    /\ window \in Windows
    /\ accepts \in [SeqNo -> Nat]

(***************************************************************************)
(* "A freshly received sequence number is accepted exactly once"           *)
(* (antireplay.rs:5-6): however the window slides in between, no sequence  *)
(* number gets through check_and_update a second time.                     *)
(***************************************************************************)
AcceptedAtMostOnce == \A s \in SeqNo : accepts[s] <= 1

(***************************************************************************)
(* The bitmap is exact: its bits are the accepted sequence numbers of the  *)
(* last WINDOW_SIZE, none forgotten by a slide and none invented by one,   *)
(* and highest is the largest sequence number accepted.                    *)
(***************************************************************************)
BitmapExact ==
    /\ window.initialised <=> Accepted # {}
    /\ \A s \in Accepted : s <= window.highest
    /\ window.initialised => window.highest \in Accepted
    /\ window.bitmap = {o \in Offset : window.highest - o \in Accepted}

(***************************************************************************)
(* No packet is refused without cause: the window turns a packet away only *)
(* if it was accepted before or lies WINDOW_SIZE or more behind the        *)
(* highest one, and would_accept (antireplay.rs:84) predicts exactly what  *)
(* check_and_update decides.                                               *)
(***************************************************************************)
RefusesOnlyReplays ==
    \A s \in SeqNo :
        /\ Check(window, s) = "Ok" <=> would_accept(window, s)
        /\ Check(window, s) = "Duplicate" => s \in Accepted
        /\ Check(window, s) = "OutOfWindow" => s + WINDOW_SIZE <= window.highest

(***************************************************************************)
(* The window accepts every sequence number at most once and refuses       *)
(* nothing else, over any order of arrival: the two promises need each     *)
(* other's bitmap.                                                         *)
(***************************************************************************)
WindowIsExact == AcceptedAtMostOnce /\ BitmapExact /\ RefusesOnlyReplays

=============================================================================
