---------------------------- MODULE KqueueReactor ---------------------------
(***************************************************************************)
(* The kqueue backend (desmos-rt/src/bsd/reactor.rs).  The kernel keeps    *)
(* one entry per source and filter; the reactor remembers the interest it  *)
(* committed last and submits the difference, in one list that the kernel  *)
(* may refuse at any entry, with the entries before it applied.            *)
(* EpollReactor is what "the rest of the codebase expects"                 *)
(* (bsd/reactor.rs:14-20).                                                 *)
(***************************************************************************)
EXTENDS Naturals, FiniteSets

CONSTANTS
    Sources,
    TokensOf,           \* the tokens a caller has for each source, all different
    ConditionsOf,       \* the readiness of each source that is explored
    MaxEvents,          \* the capacity of event_buf, 64
    MaxStrays           \* bound on the sources that stray

\* A hangup makes both directions ready (external).
Readiness == {{}, {"R"}, {"W"}, {"R", "W"}, {"R", "W", "HUP"}}

\* A token tells the caller which of its sources is ready.
ASSUME TokensAssumption ==
    /\ \A s, t \in Sources : s # t => TokensOf[s] \cap TokensOf[t] = {}
    /\ \A s \in Sources : ConditionsOf[s] \subseteq Readiness
    /\ MaxEvents \in Nat \ {0}

VARIABLES
    registered,         \* the interest last committed, by source
    filters,            \* external: the kernel's entries
    ready,              \* external: readiness of each source, with "HUP"
    events,
    returned,
    strayed             \* history: sources that are no longer like epoll's

kqueue == <<registered, filters, ready, events, returned, strayed>>

Interests == {{"R"}, {"W"}, {"R", "W"}}

KqInit ==
    /\ registered = << >>
    /\ filters = {}
    /\ ready = [s \in Sources |-> {}]
    /\ events = {}
    /\ returned = 0
    /\ strayed = {}

become(s, r) ==
    /\ r # ready[s]
    /\ ready' = [ready EXCEPT ![s] = r]
    /\ UNCHANGED <<registered, filters, events, returned, strayed>>

----------------------------------------------------------------------------
Kevent(s, filter, token) == [source |-> s, filter |-> filter, token |-> token]

EntriesOf(s, which) == {f \in filters : f.source = s /\ f.filter \in which}

\* The kernel's entries after changes: EV_ADD also replaces the token.
Changed(s, token, add, delete) ==
    (filters \ EntriesOf(s, add \cup delete)) \cup {Kevent(s, f, token) : f \in add}

\* How far the kernel may get in a list, additions first, READ before WRITE.
Heads(which) == {{}, which \cap {"R"}, which}

Parts(add, delete) == {<<a, {}>> : a \in Heads(add)} \cup {<<add, d>> : d \in Heads(delete)}

submit_changes(s, token, add, delete) == filters' = Changed(s, token, add, delete)

\* kevent stops at the first entry it cannot apply.
submit_fails(s, token, add, delete) ==
    \E part \in Parts(add, delete) \ {<<add, delete>>} :
        filters' = Changed(s, token, part[1], part[2])

apply_interest(s, token, old, new) == submit_changes(s, token, new, old \ new)

apply_fails(s, token, old, new) == submit_fails(s, token, new, old \ new)

Committed(s) == IF s \in DOMAIN registered THEN registered[s] ELSE {}

Commit(s, interest) ==
    registered' = [x \in DOMAIN registered \cup {s} |->
                      IF x = s THEN interest ELSE registered[x]]

\* For the history: the call failed with something done, or epoll refuses it.
Note(s, odd) ==
    /\ strayed' = IF odd THEN strayed \cup {s} ELSE strayed
    /\ Cardinality(strayed') <= MaxStrays

kq_register(s, token, interest) ==
    /\ \/ /\ apply_interest(s, token, {}, interest)
          /\ Commit(s, interest)
          /\ Note(s, s \in DOMAIN registered)
       \/ /\ apply_fails(s, token, {}, interest)
          /\ Note(s, filters' # filters)
          /\ UNCHANGED registered
    /\ UNCHANGED <<ready, events, returned>>

kq_reregister(s, token, interest) ==
    /\ \/ /\ apply_interest(s, token, Committed(s), interest)
          /\ Commit(s, interest)
          /\ Note(s, s \notin DOMAIN registered)
       \/ /\ apply_fails(s, token, Committed(s), interest)
          /\ Note(s, filters' # filters)
          /\ UNCHANGED registered
    /\ UNCHANGED <<ready, events, returned>>

\* The interest is forgotten before the kernel is asked.
kq_deregister(s) ==
    /\ \/ submit_changes(s, 0, {}, Committed(s)) /\ UNCHANGED strayed
       \/ submit_fails(s, 0, {}, Committed(s)) /\ Note(s, TRUE)
    /\ registered' = [x \in DOMAIN registered \ {s} |-> registered[x]]
    /\ UNCHANGED <<ready, events, returned>>

----------------------------------------------------------------------------
Triggered == {f \in filters : f.filter \in ready[f.source]}

kevent_to_interest(f) ==
    {f.filter} \cup (IF "HUP" \in ready[f.source] THEN {"R"} ELSE {})

\* Variant: every kernel event is passed on by itself.
Coalesced_not(raw) ==
    {[token |-> f.token, readiness |-> kevent_to_interest(f)] : f \in raw}

\* Events with one token become one.
Coalesced(raw) ==
    {[token |-> t, readiness |-> UNION {kevent_to_interest(f) : f \in
                                          {g \in raw : g.token = t}}] :
        t \in {f.token : f \in raw}}

\* What kevent may fetch of what there is (external): all that fits.
Fetched(all) ==
    IF Cardinality(all) <= MaxEvents THEN {all}
    ELSE {some \in SUBSET all : Cardinality(some) = MaxEvents}

kq_poll ==
    /\ \E raw \in Fetched(Triggered) : events' = Coalesced(raw)
    /\ returned' = Cardinality(events')
    /\ UNCHANGED <<registered, filters, ready, strayed>>

\* A signal: Ok(0), before the vector is cleared.
kq_poll_interrupted ==
    /\ returned' = 0
    /\ UNCHANGED <<registered, filters, ready, events, strayed>>

KqNext ==
    \/ \E s \in Sources, interest \in Interests : \E token \in TokensOf[s] :
          kq_register(s, token, interest) \/ kq_reregister(s, token, interest)
    \/ \E s \in Sources : kq_deregister(s)
    \/ \E s \in Sources : \E r \in ConditionsOf[s] : become(s, r)
    \/ kq_poll
    \/ kq_poll_interrupted

KqSpec == KqInit /\ [][KqNext]_kqueue

----------------------------------------------------------------------------
TokenOf(s) == (CHOOSE f \in filters : f.source = s).token

Epoll == INSTANCE EpollReactor WITH
    Tokens <- UNION {TokensOf[s] : s \in Sources},
    table <- [s \in DOMAIN registered |->
                [token |-> TokenOf(s), interest |-> registered[s]]]

\* The kernel watches every interest that was committed.
Watched ==
    \A s \in DOMAIN registered : \A d \in registered[s] :
        \E f \in filters : f.source = s /\ f.filter = d

\* More filters fired than the buffer holds: some of what epoll reports.
CutShort ==
    /\ Cardinality(Triggered) > MaxEvents
    /\ UNCHANGED <<registered, filters, ready>>
    /\ returned' = Cardinality(events')
    /\ events' # {}
    /\ \A e \in events' : \E s \in DOMAIN registered :
          /\ e.token = TokenOf(s)
          /\ e.readiness # {} /\ e.readiness \subseteq Epoll!EventOf(s).readiness

(***************************************************************************)
(* "the same `register` / `reregister` / `deregister` semantics the rest   *)
(* of the codebase expects" (bsd/reactor.rs:14-20) and "the same           *)
(* one-event-per-token model the epoll backend provides" (27-28): through  *)
(* any changes of interest, token and readiness, the filters behave like   *)
(* one registration per source.  This ends when a change list fails after  *)
(* some of its entries, when a deregistration fails, or when a caller      *)
(* registers a source twice or changes one it has not registered, which    *)
(* epoll refuses.  A poll with more events than its buffer may report one  *)
(* of a source's two directions.  Whatever failed before, the kernel still *)
(* watches all that the reactor recorded as committed (184-218, 231-246).  *)
(***************************************************************************)
BehavesLikeEpoll ==
    /\ Epoll!Init
    /\ [][strayed' = {} => Epoll!Next \/ CutShort]_(Epoll!vars)
    /\ []Watched

=============================================================================
