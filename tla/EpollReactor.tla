---------------------------- MODULE EpollReactor ----------------------------
(***************************************************************************)
(* The Reactor trait (desmos-rt/src/reactor.rs) as the epoll backend       *)
(* (desmos-rt/src/linux/reactor.rs) implements it: one registration per    *)
(* source, and a poll reports the sources that are ready now, as many as   *)
(* its buffer has room for.  The kernel's side is external: epoll_ctl      *)
(* refuses to add what is registered, and to change or remove what is not; *)
(* a call it refuses, or that fails for another reason, changes nothing.   *)
(***************************************************************************)
EXTENDS Naturals, FiniteSets

CONSTANTS
    Sources,
    Tokens,
    MaxEvents           \* the capacity of event_buf, 64

VARIABLES
    table,              \* external: token and interest by registered source
    ready,              \* external: readiness of each source, with "HUP"
    events,             \* the vector the caller passes to every poll
    returned            \* the result of the last poll

vars == <<table, ready, events, returned>>

Interests == {{"R"}, {"W"}, {"R", "W"}}

Registered == DOMAIN table

Init ==
    /\ table = << >>
    /\ ready = [s \in Sources |-> {}]
    /\ events = {}
    /\ returned = 0

\* A hangup makes both directions ready (external).
Readiness == {{}, {"R"}, {"W"}, {"R", "W"}, {"R", "W", "HUP"}}

become(s, r) ==
    /\ r # ready[s]
    /\ ready' = [ready EXCEPT ![s] = r]
    /\ UNCHANGED <<table, events, returned>>

Entry(token, interest) == [token |-> token, interest |-> interest]

ctl(s, token, interest) ==
    /\ table' = [x \in Registered \cup {s} |->
                    IF x = s THEN Entry(token, interest) ELSE table[x]]
    /\ UNCHANGED <<ready, events, returned>>

register(s, token, interest) ==
    /\ s \notin Registered
    /\ ctl(s, token, interest)

reregister(s, token, interest) ==
    /\ s \in Registered
    /\ ctl(s, token, interest)

deregister(s) ==
    /\ s \in Registered
    /\ table' = [x \in Registered \ {s} |-> table[x]]
    /\ UNCHANGED <<ready, events, returned>>

\* The kernel's answer for one registration, and its translation.
epoll_mask_to_interest(entry, r) ==
    (r \cap entry.interest) \cup (IF "HUP" \in r THEN {"R"} ELSE {})

EventOf(s) ==
    [token |-> table[s].token,
     readiness |-> epoll_mask_to_interest(table[s], ready[s])]

\* What epoll_wait may fetch of what there is (external): all that fits.
Fetched(all) ==
    IF Cardinality(all) <= MaxEvents THEN {all}
    ELSE {some \in SUBSET all : Cardinality(some) = MaxEvents}

\* A call that found nothing before its timeout is one of these.
poll ==
    /\ \E found \in Fetched({s \in Registered : EventOf(s).readiness # {}}) :
          events' = {EventOf(s) : s \in found}
    /\ returned' = Cardinality(events')
    /\ UNCHANGED <<table, ready>>

\* A signal: Ok(0), before the vector is cleared.
poll_interrupted ==
    /\ returned' = 0
    /\ UNCHANGED <<table, ready, events>>

Next ==
    \/ \E s \in Sources, token \in Tokens, interest \in Interests :
          register(s, token, interest) \/ reregister(s, token, interest)
    \/ \E s \in Sources : deregister(s)
    \/ \E s \in Sources, r \in Readiness : become(s, r)
    \/ poll
    \/ poll_interrupted

Spec == Init /\ [][Next]_vars

=============================================================================
