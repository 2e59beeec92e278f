----------------------------- MODULE IocpReactor ----------------------------
(***************************************************************************)
(* The IOCP backend (desmos-rt/src/windows/reactor.rs).  Readiness is      *)
(* simulated by zero-byte operations: an armed probe completes once its    *)
(* socket is ready, and poll turns the completion into an event and arms   *)
(* the probe again.  A probe is one Overlapped allocation; a completion    *)
(* names it.  The port, the sockets and the completions are external.      *)
(***************************************************************************)
EXTENDS Naturals, FiniteSets

CONSTANTS
    Sockets,
    MaxFailures         \* bound: how often arming a probe fails

VARIABLES
    sockets,            \* SocketState by registered socket
    associated,         \* external: sockets associated with the port, for ever
    flying,             \* external: probes in flight
    done,               \* external: completions queued at the port
    reported,           \* the events of the last poll
    unarmed             \* history: probes that could not be armed when they should

iocp == <<sockets, associated, flying, done, reported, unarmed>>

WatchSets == {{"R"}, {"W"}, {"R", "W"}}

IocpInit ==
    /\ sockets = << >>
    /\ associated = {}
    /\ flying = {}
    /\ done = {}
    /\ reported = {}
    /\ unarmed = {}

Probe(s, dir) == [socket |-> s, dir |-> dir]

Failures == Cardinality(unarmed)

\* The socket of a probe in flight becomes ready in its direction.
complete(p) ==
    /\ p \in flying
    /\ flying' = flying \ {p}
    /\ done' = done \cup {p}
    /\ UNCHANGED <<sockets, associated, reported, unarmed>>

----------------------------------------------------------------------------
Put(s, state) ==
    [x \in DOMAIN sockets \cup {s} |-> IF x = s THEN state ELSE sockets[x]]

(***************************************************************************)
(* register: the association, then the probes.  If one cannot be armed the *)
(* call fails and no state is kept, although the first may be in flight.   *)
(***************************************************************************)
iocp_register(s, interest) ==
    /\ s \notin DOMAIN sockets
    /\ s \notin associated
    /\ associated' = associated \cup {s}
    /\ sockets' = Put(s, [interest |-> interest, pending |-> interest])
    /\ flying' = flying \cup {Probe(s, d) : d \in interest}
    /\ UNCHANGED <<done, reported, unarmed>>

iocp_register_arm_fails(s, interest) ==
    /\ s \notin DOMAIN sockets
    /\ s \notin associated
    /\ associated' = associated \cup {s}
    /\ flying' = flying \cup (IF interest = {"R", "W"} THEN {Probe(s, "R")} ELSE {})
    /\ UNCHANGED <<sockets, done, reported, unarmed>>

\* CreateIoCompletionPort refuses a socket that has a port.
iocp_register_again(s) ==
    /\ s \notin DOMAIN sockets
    /\ s \in associated
    /\ UNCHANGED iocp

\* arm_read and arm_write do nothing while their probe is in flight.
Armable(s, wanted) == wanted \ sockets[s].pending

(***************************************************************************)
(* reregister: interest and token are replaced first, then the newly       *)
(* wanted probes are armed.  `failed` is the first that could not be.      *)
(***************************************************************************)
iocp_reregister(s, interest, failed) ==
    LET wanted == Armable(s, interest \ sockets[s].interest)
        armed  == IF failed = {} THEN wanted
                  ELSE IF failed = {"W"} THEN wanted \cap {"R"} ELSE {}
    IN  /\ s \in DOMAIN sockets
        /\ failed \subseteq wanted
        /\ Failures + Cardinality(failed) <= MaxFailures
        /\ sockets' = Put(s, [interest |-> interest,
                              pending |-> sockets[s].pending \cup armed])
        /\ flying' = flying \cup {Probe(s, d) : d \in armed}
        /\ unarmed' = (unarmed \ {Probe(s, d) : d \in armed})
                        \cup {Probe(s, d) : d \in wanted \ armed}
        /\ UNCHANGED <<associated, done, reported>>

iocp_deregister(s) ==
    /\ s \in DOMAIN sockets
    /\ sockets' = [x \in DOMAIN sockets \ {s} |-> sockets[x]]
    /\ unarmed' = {p \in unarmed : p.socket # s}
    /\ UNCHANGED <<associated, flying, done, reported>>

\* The completions that are events: of registered sockets and wanted directions.
Wanted(batch) ==
    {p \in batch : p.socket \in DOMAIN sockets /\ p.dir \in sockets[p.socket].interest}

\* Variant: the probe of a reported completion is not armed again.
iocp_poll_unarmed(batch, failed) ==
    LET events == Wanted(batch)
    IN  /\ batch # {}
        /\ failed = {}
        /\ done' = done \ batch
        /\ reported' = events
        /\ sockets' = [s \in DOMAIN sockets |->
              [sockets[s] EXCEPT !.pending =
                 @ \ {p.dir : p \in {q \in batch : q.socket = s}}]]
        /\ UNCHANGED <<associated, flying, unarmed>>

(***************************************************************************)
(* poll takes a batch of completions.  Each clears its pending mark; if it *)
(* is wanted it is an event and its probe is armed again, and an error     *)
(* doing so is ignored.                                                    *)
(***************************************************************************)
iocp_poll(batch, failed) ==
    LET events == Wanted(batch)
    IN  /\ batch # {}
        /\ failed \subseteq events
        /\ Failures + Cardinality(failed) <= MaxFailures
        /\ done' = done \ batch
        /\ reported' = events
        /\ sockets' = [s \in DOMAIN sockets |->
              [sockets[s] EXCEPT !.pending =
                 (@ \ {p.dir : p \in {q \in batch : q.socket = s}})
                   \cup {p.dir : p \in {q \in events \ failed : q.socket = s}}]]
        /\ flying' = flying \cup (events \ failed)
        /\ unarmed' = unarmed \cup failed
        /\ UNCHANGED <<associated>>

iocp_poll_timeout ==
    /\ done = {}
    /\ reported' = {}
    /\ UNCHANGED <<sockets, associated, flying, done, unarmed>>

IocpNext ==
    \/ \E s \in Sockets, interest \in WatchSets :
          \/ iocp_register(s, interest)
          \/ iocp_register_arm_fails(s, interest)
          \/ \E failed \in {{}, {"R"}, {"W"}} : iocp_reregister(s, interest, failed)
    \/ \E s \in Sockets : iocp_register_again(s) \/ iocp_deregister(s)
    \/ \E p \in flying : complete(p)
    \/ \E batch \in SUBSET done : \E failed \in SUBSET batch : iocp_poll(batch, failed)
    \/ iocp_poll_timeout

IocpSpec == IocpInit /\ [][IocpNext]_iocp

----------------------------------------------------------------------------
(***************************************************************************)
(* A direction a socket is watched for has its probe in flight or its      *)
(* completion waiting, through every change of interest and every poll,    *)
(* unless arming it failed: readiness is not lost otherwise                *)
(* (windows/reactor.rs:21-25).  The pending marks tell the truth: a probe  *)
(* is marked exactly while it is in flight or its completion waits, so     *)
(* that one Overlapped is never handed to the kernel twice (arm_read,      *)
(* arm_write).  And "any in-flight overlapped completions will arrive but  *)
(* be ignored": no poll reports a socket after deregister, nor a direction *)
(* nobody watches any more (381-389).                                      *)
(***************************************************************************)
WatchedIsReported ==
    /\ [](\A s \in DOMAIN sockets :
             /\ \A d \in sockets[s].interest :
                   Probe(s, d) \in flying \cup done \cup unarmed
             /\ \A d \in {"R", "W"} :
                   d \in sockets[s].pending <=> Probe(s, d) \in flying \cup done)
    /\ [][reported' # reported =>
             \A p \in reported' : p.socket \in DOMAIN sockets
                                  /\ p.dir \in sockets[p.socket].interest]_iocp

=============================================================================
