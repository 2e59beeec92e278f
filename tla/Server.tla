------------------------------- MODULE Server -------------------------------
(***************************************************************************)
(* The server: its single reactor thread (daemon/server_loop.rs) with the  *)
(* rate limiter and the address map it owns, the ClientRegistry and its    *)
(* session table (server/clients.rs, session/manager.rs), and the operator *)
(* who kicks clients from the web UI or the control socket at any moment.  *)
(* Every access of the reactor thread to the shared table is a step.       *)
(*                                                                         *)
(* Sessions are numbered in the order they are established.  A client has  *)
(* one address per bonded link, each on an interface and an IP of its own, *)
(* and shakes hands from the first (daemon/client.rs:269-290).             *)
(***************************************************************************)
EXTENDS Integers, Sequences, FiniteSets, Functions

CONSTANTS
    MAX_TOKENS,             \* burst size, in tokens
    REFILL_MILLI_PER_SEC,
    Milli,                  \* milli-tokens in a token (1000)
    SecondMs,               \* clock units in a second (1000)
    MaxClock,               \* bound on the wall clock
    Clients,
    LinksPerClient,
    max_clients,
    U16Max,         \* largest session id (u16::MAX)
    MaxHandshakes   \* bound on the message 1s that pass the rate limiter

ASSUME RateLimitAssumption ==
    /\ MAX_TOKENS \in Nat \ {0}
    /\ REFILL_MILLI_PER_SEC \in Nat
    /\ Milli \in Nat \ {0}
    /\ SecondMs \in Nat \ {0}
    /\ MaxClock \in Nat

ASSUME ServerAssumption ==
    /\ LinksPerClient \in Nat \ {0}
    /\ max_clients \in Nat
    /\ U16Max \in Nat \ {0}
    /\ MaxHandshakes \in Nat

----------------------------------------------------------------------------
(* The per-source token bucket of server/ratelimit.rs.  It counts in fixed *)
(* point, 1000 milli-tokens to a token, and the refill is truncated to     *)
(* whole milli-tokens.                                                     *)

Clock == 0 .. MaxClock

NewBucket(now) == [tokens_milli |-> MAX_TOKENS * Milli, last_refill_ms |-> now]

\* Variant: the time of the refill is not stored.
Refill_again(b, now) ==
    LET added == (REFILL_MILLI_PER_SEC * (now - b.last_refill_ms)) \div SecondMs
        sum   == b.tokens_milli + added
        cap   == MAX_TOKENS * Milli
    IN  IF now > b.last_refill_ms
        THEN [b EXCEPT !.tokens_milli = IF sum < cap THEN sum ELSE cap]
        ELSE b

(***************************************************************************)
(* What try_admit adds for the time since the last refill.  A wall clock   *)
(* that was set back adds nothing and leaves last_refill_ms alone.         *)
(***************************************************************************)
Refill(b, now) ==
    LET added == (REFILL_MILLI_PER_SEC * (now - b.last_refill_ms)) \div SecondMs
        sum   == b.tokens_milli + added
        cap   == MAX_TOKENS * Milli
    IN  IF now > b.last_refill_ms
        THEN [tokens_milli   |-> IF sum < cap THEN sum ELSE cap,
              last_refill_ms |-> now]
        ELSE b

Admits(b) == b.tokens_milli >= Milli

Pay(b) == [b EXCEPT !.tokens_milli = @ - Milli]

----------------------------------------------------------------------------
Addrs == Clients \X (1 .. LinksPerClient)

First(c) == <<c, 1>>

VARIABLES
    clock,      \* SystemTime::now()
    buckets,    \* RateLimiter::inner, by source; IPs and addresses go together
    next_id,    \* ClientRegistry::next_id
    table,      \* SessionTable::slots: id -> session number
    addr_map,   \* the loop's addr_to_session
    at,         \* the loop: where it is in handle_incoming, and for whom
    sessions,   \* history: client and id of every session established
    removed,    \* history: the sessions that were kicked
    admitted,   \* history: per client, messages let through and the time of
                \* the first one
    foreign,    \* history: <<n, m>> where session n was handed a packet of m
    unrouted    \* history: a packet of a live session was not handed to it

server_vars == <<clock, buckets, next_id, table, addr_map, at, sessions, removed,
                 admitted, foreign, unrouted>>

Idle == [pc |-> "idle"]

ServerInit ==
    /\ clock \in Clock
    /\ buckets = [a \in {} |-> 0]
    /\ next_id = 1
    /\ table = [i \in {} |-> 0]
    /\ addr_map = [a \in {} |-> 0]
    /\ at = Idle
    /\ sessions = << >>
    /\ removed = {}
    /\ admitted = [c \in Clients |-> [count |-> 0, since |-> 0]]
    /\ foreign = {}
    /\ unrouted = FALSE

Put(f, x, y) == [k \in DOMAIN f \cup {x} |-> IF k = x THEN y ELSE f[k]]

Handshakes == FoldFunction(LAMBDA r, n : r.count + n, 0, admitted)

----------------------------------------------------------------------------
(* handle_incoming for a Handshake frame, genuine or not.                  *)

\* Variant: one client more than the cap is let in.
AtCap_late == Cardinality(DOMAIN table) > max_clients

AtCap == Cardinality(DOMAIN table) >= max_clients

EntryOrNew(a) == IF a \in DOMAIN buckets THEN buckets[a] ELSE NewBucket(clock)

(***************************************************************************)
(* try_admit, then the cap check that opens accept_client_msg1.            *)
(***************************************************************************)
handshake_frame(c) ==
    LET a == First(c)
        b == Refill(EntryOrNew(a), clock)
    IN  /\ at = Idle
        /\ \/ /\ ~Admits(b)
              /\ buckets' = Put(buckets, a, b)
              /\ UNCHANGED <<at, admitted>>
           \/ /\ Admits(b)
              /\ Handshakes < MaxHandshakes
              /\ buckets' = Put(buckets, a, Pay(b))
              /\ admitted' = [admitted EXCEPT
                    ![c].count = @ + 1,
                    ![c].since = IF a \in DOMAIN buckets THEN @ ELSE clock]
              /\ at' = IF AtCap THEN Idle
                       ELSE [pc |-> "allocate", client |-> c, tries |-> 0]
        /\ UNCHANGED <<clock, next_id, table, addr_map, sessions, removed,
                       foreign, unrouted>>

Usable(candidate) == candidate # 0 /\ candidate \notin DOMAIN table

(***************************************************************************)
(* One turn of allocate_id's loop: take the next candidate, and keep it if *)
(* it is neither reserved nor in the table.                                *)
(***************************************************************************)
allocate_id ==
    /\ at.pc = "allocate"
    /\ next_id' = (next_id + 1) % (U16Max + 1)
    /\ at' = IF Usable(next_id)
             THEN [pc |-> "advance", client |-> at.client, id |-> next_id]
             ELSE IF at.tries = U16Max THEN Idle
             ELSE [at EXCEPT !.tries = @ + 1]
    /\ UNCHANGED <<clock, buckets, table, addr_map, sessions, removed,
                   admitted, foreign, unrouted>>

\* Variant: the address is recorded before the message is verified.
advance_fails_mapped ==
    /\ at.pc = "advance"
    /\ at' = Idle
    /\ addr_map' = Put(addr_map, First(at.client), at.id)
    /\ UNCHANGED <<clock, buckets, next_id, table, sessions, removed, admitted,
                   foreign, unrouted>>

\* The message 1 does not pass the Noise checks; its id is not given back.
advance_fails ==
    /\ at.pc = "advance"
    /\ at' = Idle
    /\ UNCHANGED <<clock, buckets, next_id, table, addr_map, sessions, removed,
                   admitted, foreign, unrouted>>

\* The session is installed and the source address now leads to it.
advance_establishes ==
    /\ at.pc = "advance"
    /\ sessions' = Append(sessions, [client |-> at.client, id |-> at.id])
    /\ table' = Put(table, at.id, Len(sessions) + 1)
    /\ addr_map' = Put(addr_map, First(at.client), at.id)
    /\ at' = Idle
    /\ UNCHANGED <<clock, buckets, next_id, removed, admitted, foreign, unrouted>>

----------------------------------------------------------------------------
(* handle_incoming for a Data frame of session n, arriving from `a`.       *)

(***************************************************************************)
(* The session a frame is handed to: the one whose id the source address   *)
(* is mapped to, if the table has it; the id in the header is not used.    *)
(***************************************************************************)
Routed(a) == {table[i] : i \in {addr_map[x] : x \in {a} \cap DOMAIN addr_map}
                                \cap DOMAIN table}

data_frame(a, n) ==
    /\ at = Idle
    /\ a[1] = sessions[n].client
    /\ foreign' = foreign \cup ((Routed(a) \ {n}) \X {n})
    /\ unrouted' = (unrouted \/ (n \in Range(table) /\ n \notin Routed(a)))
    /\ UNCHANGED <<clock, buckets, next_id, table, addr_map, at, sessions,
                   removed, admitted>>

----------------------------------------------------------------------------
(* DELETE /api/v1/clients/:session_id, or clients_kick on the control      *)
(* socket.  The address map belongs to the loop and is not touched.        *)

remove_client(i) ==
    /\ removed' = removed \cup {table[i]}
    /\ table' = Restrict(table, DOMAIN table \ {i})
    /\ UNCHANGED <<clock, buckets, next_id, addr_map, at, sessions, admitted,
                   foreign, unrouted>>

\* The wall clock moves on, or is set forward or back.
set_clock(t) ==
    /\ clock' = t
    /\ UNCHANGED <<buckets, next_id, table, addr_map, at, sessions, removed,
                   admitted, foreign, unrouted>>

ServerNext ==
    \/ \E c \in Clients : handshake_frame(c)
    \/ allocate_id
    \/ advance_fails
    \/ advance_establishes
    \/ \E a \in Addrs, n \in DOMAIN sessions : data_frame(a, n)
    \/ \E i \in DOMAIN table : remove_client(i)
    \/ \E t \in Clock : set_clock(t)

ServerSpec == ServerInit /\ [][ServerNext]_server_vars

----------------------------------------------------------------------------

(***************************************************************************)
(* "`max_clients` caps the active session count" (clients.rs:12-13): the   *)
(* table never holds more sessions, and none of them was pushed out of its *)
(* slot by a later one, although the cap is checked and the id reserved    *)
(* long before the session is inserted and kicks fall in between.          *)
(***************************************************************************)
TableIsExact ==
    /\ Cardinality(DOMAIN table) <= max_clients
    /\ Range(table) = DOMAIN sessions \ removed
    /\ \A i \in DOMAIN table : sessions[table[i]].id = i

(***************************************************************************)
(* Packets are handed to another client's session only through an id that  *)
(* was freed by a kick and handed out again after the 16-bit cursor came   *)
(* around: the stale entry of the address map (server_loop.rs:218) is the  *)
(* only way to get there.                                                  *)
(***************************************************************************)
ForeignOnlyThroughReuse ==
    \A f \in foreign :
        LET to == sessions[f[1]]
            of == sessions[f[2]]
        IN  \/ to.client = of.client
            \/ \E m \in removed : /\ m < f[1]
                                  /\ sessions[m] = [client |-> of.client, id |-> to.id]

(***************************************************************************)
(* A source is let through at most MAX_TOKENS times plus what the refill   *)
(* rate grants for the time its bucket has seen pass, even if the wall     *)
(* clock is set back and forth (ratelimit.rs:12-17).                       *)
(***************************************************************************)
AdmissionBounded ==
    \A a \in DOMAIN buckets :
        LET c == a[1]
        IN  admitted[c].count * Milli * SecondMs
                <= MAX_TOKENS * Milli * SecondMs
                   + REFILL_MILLI_PER_SEC * (buckets[a].last_refill_ms - admitted[c].since)

(***************************************************************************)
(* server_loop.rs:3-5: the server "routes encrypted data packets to their  *)
(* established sessions for decryption".                                   *)
(***************************************************************************)
DataReachesItsSession == ~unrouted

=============================================================================
