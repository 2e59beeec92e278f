---------------------------- MODULE Fragmentation ---------------------------
(***************************************************************************)
(* desmos-proto/src/fragment.rs: fragment cuts a payload, Reassembler puts *)
(* it together again behind a network that loses, repeats and reorders.    *)
(* A payload of packet p is the sequence of its bytes <<p, 1>>, <<p, 2>>,  *)
(* ...; packet p has the wire id p % IdSpace, because ids are u16 and      *)
(* wrap.                                                                   *)
(***************************************************************************)
EXTENDS Integers, Sequences, FiniteSets

CONSTANTS
    MAX_FRAGMENTS,      \* 64 in the code
    BodyLen,            \* max_fragment_len - FRAGMENT_HEADER_LEN
    Lengths,            \* lengths of the payloads that are sent
    IdSpace,            \* 2^16 in the code
    in_flight_limit,
    MaxPackets,         \* bound: packets sent
    MaxPushes           \* bound: fragments received

\* new takes at least one group, and fragment refuses a size without a body.
ASSUME FragmentAssumption ==
    /\ MAX_FRAGMENTS \in Nat /\ BodyLen \in Nat \ {0} /\ Lengths \subseteq Nat
    /\ IdSpace \in Nat \ {0} /\ in_flight_limit \in Nat \ {0}

VARIABLES
    sent,               \* history: the length of each packet sent
    wire,               \* fragments on the way; any may arrive again or never
    in_flight,          \* PartialGroup by id
    order,              \* ids, oldest group first
    result,             \* what the last push returned
    pushes

frag_vars == <<sent, wire, in_flight, order, result, pushes>>

Payload(p) == [i \in 1 .. sent[p] |-> <<p, i>>]
IdOf(p) == p % IdSpace

FragInit ==
    /\ sent = << >>
    /\ wire = {}
    /\ in_flight = << >>
    /\ order = << >>
    /\ result = [tag |-> "none"]
    /\ pushes = 0

----------------------------------------------------------------------------
(* The sender                                                              *)

FragmentHeader(id, offset, total) == [id |-> id, offset |-> offset, total |-> total]

div_ceil(n, d) == (n + d - 1) \div d

chunk(payload, idx) ==
    SubSeq(payload, idx * BodyLen + 1,
           IF (idx + 1) * BodyLen < Len(payload) THEN (idx + 1) * BodyLen
           ELSE Len(payload))

\* The pieces of a payload; none where fragment returns an error.
fragment(payload, id) ==
    LET total == div_ceil(Len(payload), BodyLen)
    IN  IF payload = << >> \/ total > MAX_FRAGMENTS THEN {}
        ELSE {[hdr |-> FragmentHeader(id, idx, total), body |-> chunk(payload, idx)] :
                 idx \in 0 .. total - 1}

send(len) ==
    /\ Len(sent) < MaxPackets
    /\ sent' = Append(sent, len)
    /\ LET p == Len(sent) + 1
       IN  wire' = wire \cup fragment([i \in 1 .. len |-> <<p, i>>], IdOf(p))
    /\ UNCHANGED <<in_flight, order, result, pushes>>

----------------------------------------------------------------------------
(* Reassembler::push                                                       *)

Known == DOMAIN in_flight

\* The first position of the id goes.
forget_done(queue, id) ==
    LET at == {i \in DOMAIN queue : queue[i] = id}
        pos == CHOOSE i \in at : \A j \in at : i <= j
    IN  IF at = {} THEN queue
        ELSE SubSeq(queue, 1, pos - 1) \o SubSeq(queue, pos + 1, Len(queue))

evicts(id) == id \notin Known /\ Cardinality(Known) >= in_flight_limit

\* in_flight and order after the eviction and the insertion of a new group.
Admitted(hdr) ==
    LET victim == IF evicts(hdr.id) /\ order # << >> THEN {Head(order)} ELSE {}
        rest   == IF victim = {} THEN order ELSE Tail(order)
        fresh  == [total |-> hdr.total, slots |-> [i \in 0 .. hdr.total - 1 |-> << >>]]
    IN  IF hdr.id \in Known THEN [groups |-> in_flight, queue |-> order]
        ELSE [groups |-> [x \in (Known \ victim) \cup {hdr.id} |->
                             IF x = hdr.id THEN fresh ELSE in_flight[x]],
              queue  |-> Append(rest, hdr.id)]

\* A slot holds << >> or the one body that arrived for it.
Filled(slots) == {i \in DOMAIN slots : slots[i] # << >>}

conflicts(group, f) ==
    group.slots[f.hdr.offset] # << >> /\ group.slots[f.hdr.offset] # <<f.body>>

\* Variant: the pieces are put before each other.
Extended_backward(slots, total) ==
    LET out[n \in 0 .. total] ==
          IF n = 0 THEN << >> ELSE slots[n - 1][1] \o out[n - 1]
    IN  out

\* The payload after each slot.
Extended(slots, total) ==
    LET out[n \in 0 .. total] ==
          IF n = 0 THEN << >> ELSE out[n - 1] \o slots[n - 1][1]
    IN  out

Err(e) == result' = [tag |-> "err", error |-> e]

push_fragment(f) ==
    LET adm   == Admitted(f.hdr)
        id    == f.hdr.id
        group == adm.groups[id]
        slots == [group.slots EXCEPT ![f.hdr.offset] = <<f.body>>]
    IN  /\ pushes < MaxPushes
        /\ pushes' = pushes + 1
        /\ UNCHANGED <<sent, wire>>
        /\ \/ /\ group.total # f.hdr.total
              /\ Err("MismatchedTotal")
              /\ in_flight' = adm.groups /\ order' = adm.queue
           \/ /\ group.total = f.hdr.total
              /\ conflicts(group, f)
              /\ Err("Inconsistent")
              /\ in_flight' = adm.groups /\ order' = adm.queue
           \/ /\ group.total = f.hdr.total
              /\ ~conflicts(group, f)
              /\ Filled(slots) # DOMAIN slots
              /\ result' = [tag |-> "more"]
              /\ in_flight' = [adm.groups EXCEPT ![id].slots = slots]
              /\ order' = adm.queue
           \/ /\ group.total = f.hdr.total
              /\ ~conflicts(group, f)
              /\ Filled(slots) = DOMAIN slots
              /\ result' = [tag |-> "done", payload |-> Extended(slots, f.hdr.total)[f.hdr.total]]
              /\ in_flight' = [x \in DOMAIN adm.groups \ {id} |-> adm.groups[x]]
              /\ order' = forget_done(adm.queue, id)

\* A rekey or the end of the session.
clear ==
    /\ Known # {}
    /\ in_flight' = << >>
    /\ order' = << >>
    /\ UNCHANGED <<sent, wire, result, pushes>>

FragNext ==
    \/ \E len \in Lengths : send(len)
    \/ \E f \in wire : push_fragment(f)
    \/ clear

FragSpec == FragInit /\ [][FragNext]_frag_vars

----------------------------------------------------------------------------

PacketsOf(payload) == {payload[i][1] : i \in DOMAIN payload}

(***************************************************************************)
(* A payload that push returns is, byte for byte, one that was sent, in    *)
(* spite of loss, repetition, reordering and eviction, as long as it       *)
(* contains no bytes of two packets with the same wire id.  As long as ids *)
(* do not come round again there are no errors: a repeated fragment is the *)
(* same fragment (fragment.rs:268-278).  The queue of groups holds exactly *)
(* the groups in flight, each once, and never more than in_flight_limit:   *)
(* eviction always finds a group to drop (236-245, 280-287).               *)
(***************************************************************************)
ReassemblyIsExact ==
    /\ result.tag = "done" =>
          \/ \E p \in 1 .. Len(sent) : result.payload = Payload(p)
          \/ \E p, q \in PacketsOf(result.payload) : p # q /\ IdOf(p) = IdOf(q)
    /\ result.tag = "err" => Len(sent) > IdSpace
    /\ \A i, j \in DOMAIN order : order[i] = order[j] => i = j
    /\ {order[i] : i \in DOMAIN order} = Known
    /\ Cardinality(Known) <= in_flight_limit

=============================================================================
