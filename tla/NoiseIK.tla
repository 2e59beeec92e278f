------------------------------- MODULE NoiseIK ------------------------------
(***************************************************************************)
(* The Noise IK handshake (handshake/mod.rs, handshake/noise.rs), message  *)
(* by message, between several attempts of honest initiators and several   *)
(* responder runs of one server.  The network loses, repeats, misdelivers  *)
(* and damages messages.  Hashes, keys and ciphertexts are terms: two are  *)
(* equal when they were computed alike.                                    *)
(***************************************************************************)
EXTENDS Integers, Sequences, FiniteSets

CONSTANTS
    Initiators, Responders,     \* attempts and responder runs
    StaticOf,                   \* initiator -> name of its static key
    known_initiators,           \* names of static keys, empty: any
    MaxReads                    \* bound: messages handed to one responder

\* Every run has an ephemeral key of its own.
ASSUME NoiseAssumption == Initiators \cap Responders = {}

VARIABLES
    ini,                \* initiator -> phase, symm and, when done, keys
    res,                \* responder -> phase, symm, re, rs, keys and reads
    wire1, wire2,       \* messages sent
    seals               \* history: what was sealed, as terms

noise_vars == <<ini, res, wire1, wire2, seals>>

NoData == <<>>
Public(private) == <<"pub", private>>
Static(name) == <<"s", name>>
Ephemeral(run) == <<"e", run>>
Server == Static("server")

\* Both sides of an exchange get the same secret.
diffie_hellman(private, public) == <<"dh", {private, public[2]}>>

----------------------------------------------------------------------------
\* SymmetricState: ck and k are the list of secrets mixed, h of data mixed.

\* The protocol name and the prologue are the same for every run.
NewSymmetric == [ck |-> <<>>, h |-> <<Public(Server)>>, k |-> NoData, n |-> 0]

mix_key(symm, ikm) ==
    [symm EXCEPT !.ck = Append(@, ikm), !.k = Append(symm.ck, ikm), !.n = 0]

mix_hash(symm, data) == [symm EXCEPT !.h = Append(@, data)]

Sealed(symm, plaintext) == <<"sealed", symm.k, symm.n, symm.h, plaintext>>

encrypt_and_hash(symm, plaintext) ==
    mix_hash([symm EXCEPT !.n = @ + 1], Sealed(symm, plaintext))

\* The tag covers the key, the nonce and the transcript.
Opens(symm, ciphertext) ==
    /\ Len(ciphertext) = 5
    /\ ciphertext = Sealed(symm, ciphertext[5])

decrypt_and_hash(symm, ciphertext) ==
    mix_hash([symm EXCEPT !.n = @ + 1], ciphertext)

split(symm) == [i2r |-> <<"i2r", symm.ck>>, r2i |-> <<"r2i", symm.ck>>]

----------------------------------------------------------------------------
NoiseInit ==
    /\ ini = [i \in Initiators |-> [phase |-> "new", symm |-> NewSymmetric, keys |-> NoData]]
    /\ res = [r \in Responders |-> [phase |-> "new", symm |-> NewSymmetric, re |-> NoData,
                                    rs |-> NoData, keys |-> NoData, reads |-> 0]]
    /\ wire1 = {}
    /\ wire2 = {}
    /\ seals = {}

\* Tokens e, es, s, ss, and the empty payload.
write_message_1(i) ==
    LET e == Ephemeral(i)
        s == Static(StaticOf[i])
        es == mix_key(mix_hash(ini[i].symm, Public(e)), diffie_hellman(e, Public(Server)))
        sent == encrypt_and_hash(es, Public(s))
        ss == mix_key(sent, diffie_hellman(s, Public(Server)))
    IN  /\ ini[i].phase = "new"
        /\ wire1' = wire1 \cup {[e |-> Public(e), s |-> Sealed(es, Public(s)),
                                 payload |-> Sealed(ss, NoData)]}
        /\ seals' = seals \cup {Sealed(es, Public(s)), Sealed(ss, NoData)}
        /\ ini' = [ini EXCEPT ![i].phase = "sent", ![i].symm = encrypt_and_hash(ss, NoData)]
        /\ UNCHANGED <<res, wire2>>

\* What a responder's state becomes; an error keeps what was mixed so far.
AfterMessage1(responder, m) ==
    LET es == mix_key(mix_hash(responder.symm, m.e), diffie_hellman(Server, m.e))
        got == decrypt_and_hash(es, m.s)
        rs == m.s[5]
        ss == mix_key(got, diffie_hellman(Server, rs))
    IN  IF ~Opens(es, m.s) THEN [responder EXCEPT !.symm = es]
        ELSE IF known_initiators # {} /\ \A name \in known_initiators : rs # Public(Static(name))
        THEN [responder EXCEPT !.symm = got]
        ELSE IF ~Opens(ss, m.payload) THEN [responder EXCEPT !.symm = ss]
        ELSE [responder EXCEPT !.phase = "read", !.symm = decrypt_and_hash(ss, m.payload),
                               !.re = m.e, !.rs = rs]

\* A second call after a success is WrongState and changes nothing.
read_message_1(r, m) ==
    /\ res[r].phase = "new"
    /\ res[r].reads < MaxReads
    /\ res' = [res EXCEPT ![r] = AfterMessage1([res[r] EXCEPT !.reads = @ + 1], m)]
    /\ UNCHANGED <<ini, wire1, wire2, seals>>

\* Tokens ee and se on the responder's side.
SecretsOfMessage2(e, re, rs) == <<diffie_hellman(e, re), diffie_hellman(e, rs)>>

\* Variant: the responder takes the halves in the initiator's order.
ResponderKeys_straight(symm) ==
    [send |-> split(symm).i2r, recv |-> split(symm).r2i, handshake_hash |-> symm.h]

ResponderKeys(symm) ==
    [send |-> split(symm).r2i, recv |-> split(symm).i2r, handshake_hash |-> symm.h]

write_message_2(r) ==
    LET e == Ephemeral(r)
        dh == SecretsOfMessage2(e, res[r].re, res[r].rs)
        se == mix_key(mix_key(mix_hash(res[r].symm, Public(e)), dh[1]), dh[2])
        end == encrypt_and_hash(se, NoData)
    IN  /\ res[r].phase = "read"
        /\ wire2' = wire2 \cup {[e |-> Public(e), payload |-> Sealed(se, NoData)]}
        /\ seals' = seals \cup {Sealed(se, NoData)}
        /\ res' = [res EXCEPT ![r].phase = "done", ![r].symm = end,
                              ![r].keys = ResponderKeys(end)]
        /\ UNCHANGED <<ini, wire1>>

\* Consumes the initiator: an error ends the attempt.
read_message_2(i, m) ==
    LET ee == mix_key(mix_hash(ini[i].symm, m.e), diffie_hellman(Ephemeral(i), m.e))
        se == mix_key(ee, diffie_hellman(Static(StaticOf[i]), m.e))
        end == decrypt_and_hash(se, m.payload)
    IN  /\ ini[i].phase = "sent"
        /\ ini' = [ini EXCEPT ![i] =
                     IF Opens(se, m.payload)
                     THEN [phase |-> "done", symm |-> end,
                           keys |-> [send |-> split(end).i2r, recv |-> split(end).r2i,
                                     handshake_hash |-> end.h]]
                     ELSE [@ EXCEPT !.phase = "failed"]]
        /\ UNCHANGED <<res, wire1, wire2, seals>>

\* What arrives: a message as sent, or with one part damaged.
Damage == {<<"damaged">>}
Arriving(sent) ==
    sent \cup {[m EXCEPT !.payload = d] : m \in sent, d \in Damage}
         \cup {[m EXCEPT !.e = Public(d)] : m \in sent, d \in Damage}

NoiseNext ==
    \/ \E i \in Initiators : write_message_1(i)
    \/ \E r \in Responders : \E m \in Arriving(wire1) : read_message_1(r, m)
    \/ \E r \in Responders : write_message_2(r)
    \/ \E i \in Initiators : \E m \in Arriving(wire2) : read_message_2(i, m)

NoiseSpec == NoiseInit /\ [][NoiseNext]_noise_vars

----------------------------------------------------------------------------
(***************************************************************************)
(* "The split is oriented so both sides see their own outbound key in send *)
(* and the peer's outbound key in recv" (noise.rs:66-72): an attempt that  *)
(* completes shares crossed keys and the transcript hash with exactly one  *)
(* responder run, and that run learned the initiator's own static key.     *)
(* Two responder runs never end with a common key, even when they read the *)
(* same message 1.  And "every MixKey call resets the counter": no key     *)
(* seals two different texts, or one text in two places, under one nonce   *)
(* (mod.rs:79-112).                                                        *)
(***************************************************************************)
KeysAgree ==
    /\ \A i \in Initiators : ini[i].phase = "done" =>
          \E r \in Responders :
             /\ res[r].phase = "done"
             /\ res[r].keys = [send |-> ini[i].keys.recv, recv |-> ini[i].keys.send,
                               handshake_hash |-> ini[i].keys.handshake_hash]
             /\ res[r].rs = Public(Static(StaticOf[i]))
    /\ \A r, o \in Responders : res[r].phase = "done" /\ res[o].phase = "done" =>
          /\ res[r].keys.send # res[r].keys.recv
          /\ r # o => {res[r].keys.send, res[r].keys.recv}
                         \cap {res[o].keys.send, res[o].keys.recv} = {}
    /\ \A s, t \in seals : s[2] = t[2] /\ s[3] = t[3] => s = t

=============================================================================
