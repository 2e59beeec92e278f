----------------------------- MODULE WireProofs -----------------------------
(***************************************************************************)
(* What is proved of the wire protocol and of the interfaces under it.  For *)
(* every window, every timeout and every range of sequence numbers, the    *)
(* reorder buffer returns payloads in order and at most once, its metrics  *)
(* are exact, and what it holds lies inside the window.  For every window  *)
(* size and every range of sequence numbers, the anti-replay window accepts *)
(* each packet at most once and refuses nothing else.  For every number of *)
(* runs, a handshake that both sides finish gives both the same keys, and  *)
(* no key seals two messages under one nonce.  For any links and any queue *)
(* of kernel messages, what is known of the interfaces is true.            *)
(***************************************************************************)
EXTENDS ReorderBuffer, AntiReplay, NoiseIK, Interfaces, TLAPS

\* Sequences with the same elements in the same places are the same.
LEMMA SameElements ==
    ASSUME NEW S, NEW s \in Seq(S), NEW t \in Seq(S),
           Len(s) = Len(t), \A i \in 1 .. Len(s) : s[i] = t[i]
    PROVE  s = t
  OBVIOUS

\* A sequence put behind another.
LEMMA Concatenated ==
    ASSUME NEW S, NEW s \in Seq(S), NEW t \in Seq(S)
    PROVE  /\ s \o t \in Seq(S) /\ Len(s \o t) = Len(s) + Len(t)
           /\ \A i \in 1 .. Len(s) + Len(t) :
                 (s \o t)[i] = IF i <= Len(s) THEN s[i] ELSE t[i - Len(s)]
  <1>1. s \o t \in Seq(S) /\ Len(s \o t) = Len(s) + Len(t)
    OBVIOUS
  <1>2. \A i \in 1 .. Len(s) + Len(t) :
            (s \o t)[i] = IF i <= Len(s) THEN s[i] ELSE t[i - Len(s)]
    OBVIOUS
  <1> QED
    BY Zenon, <1>1, <1>2

\* A sequence with one more element.
LEMMA Appended ==
    ASSUME NEW S, NEW s \in Seq(S), NEW x \in S
    PROVE  /\ Append(s, x) \in Seq(S) /\ Len(Append(s, x)) = Len(s) + 1
           /\ \A i \in 1 .. Len(s) : Append(s, x)[i] = s[i]
           /\ Append(s, x)[Len(s) + 1] = x
  OBVIOUS

\* The length of a sequence.
LEMMA LengthIsNat == ASSUME NEW S, NEW s \in Seq(S) PROVE Len(s) \in Nat
  OBVIOUS

----------------------------------------------------------------------------
\* NoiseIK.

\* A tuple with one more element.
LEMMA AppendTo1 == ASSUME NEW a, NEW x PROVE Append(<<a>>, x) = <<a, x>>
  <1> DEFINE S == {a, x}
             s == Append(<<a>>, x)
             t == <<a, x>>
  <1>1. <<a>> \in Seq(S) /\ t \in Seq(S) /\ x \in S /\ Len(t) = 2 /\ Len(<<a>>) = 1
    OBVIOUS
  <1>2. s \in Seq(S) /\ Len(s) = 2 /\ s[2] = x /\ \A i \in 1 .. 1 : s[i] = <<a>>[i]
    BY <1>1, Appended
  <1> HIDE DEF s
  <1>3. \A i \in 1 .. 2 : s[i] = t[i]
    BY <1>2
  <1> HIDE DEF t
  <1> QED
    BY Zenon, <1>1, <1>2, <1>3, SameElements DEF s, t

LEMMA AppendTo2 == ASSUME NEW a, NEW b, NEW x PROVE Append(<<a, b>>, x) = <<a, b, x>>
  <1> DEFINE S == {a, b, x}
             s == Append(<<a, b>>, x)
             t == <<a, b, x>>
  <1>1. <<a, b>> \in Seq(S) /\ t \in Seq(S) /\ x \in S /\ Len(t) = 3 /\ Len(<<a, b>>) = 2
    OBVIOUS
  <1>2. s \in Seq(S) /\ Len(s) = 3 /\ s[3] = x /\ \A i \in 1 .. 2 : s[i] = <<a, b>>[i]
    BY <1>1, Appended
  <1> HIDE DEF s
  <1>3. \A i \in 1 .. 3 : s[i] = t[i]
    BY <1>2
  <1> HIDE DEF t
  <1> QED
    BY Zenon, <1>1, <1>2, <1>3, SameElements DEF s, t

LEMMA AppendTo3 ==
    ASSUME NEW a, NEW b, NEW c, NEW x PROVE Append(<<a, b, c>>, x) = <<a, b, c, x>>
  <1> DEFINE S == {a, b, c, x}
             s == Append(<<a, b, c>>, x)
             t == <<a, b, c, x>>
  <1>1. <<a, b, c>> \in Seq(S) /\ t \in Seq(S) /\ x \in S /\ Len(t) = 4 /\ Len(<<a, b, c>>) = 3
    OBVIOUS
  <1>2. s \in Seq(S) /\ Len(s) = 4 /\ s[4] = x /\ \A i \in 1 .. 3 : s[i] = <<a, b, c>>[i]
    BY <1>1, Appended
  <1> HIDE DEF s
  <1>3. \A i \in 1 .. 4 : s[i] = t[i]
    BY <1>2
  <1> HIDE DEF t
  <1> QED
    BY Zenon, <1>1, <1>2, <1>3, SameElements DEF s, t

LEMMA AppendTo4 ==
    ASSUME NEW a, NEW b, NEW c, NEW d, NEW x
    PROVE  Append(<<a, b, c, d>>, x) = <<a, b, c, d, x>>
  <1> DEFINE S == {a, b, c, d, x}
             s == Append(<<a, b, c, d>>, x)
             t == <<a, b, c, d, x>>
  <1>1. /\ <<a, b, c, d>> \in Seq(S) /\ t \in Seq(S) /\ x \in S
        /\ Len(t) = 5 /\ Len(<<a, b, c, d>>) = 4
    OBVIOUS
  <1>2. s \in Seq(S) /\ Len(s) = 5 /\ s[5] = x /\ \A i \in 1 .. 4 : s[i] = <<a, b, c, d>>[i]
    BY <1>1, Appended
  <1> HIDE DEF s
  <1>3. \A i \in 1 .. 5 : s[i] = t[i]
    BY <1>2
  <1> HIDE DEF t
  <1> QED
    BY Zenon, <1>1, <1>2, <1>3, SameElements DEF s, t

LEMMA AppendTo5 ==
    ASSUME NEW a, NEW b, NEW c, NEW d, NEW e, NEW x
    PROVE  Append(<<a, b, c, d, e>>, x) = <<a, b, c, d, e, x>>
  <1> DEFINE S == {a, b, c, d, e, x}
             s == Append(<<a, b, c, d, e>>, x)
             t == <<a, b, c, d, e, x>>
  <1>1. /\ <<a, b, c, d, e>> \in Seq(S) /\ t \in Seq(S) /\ x \in S
        /\ Len(t) = 6 /\ Len(<<a, b, c, d, e>>) = 5
    OBVIOUS
  <1>2. /\ s \in Seq(S) /\ Len(s) = 6 /\ s[6] = x
        /\ \A i \in 1 .. 5 : s[i] = <<a, b, c, d, e>>[i]
    BY <1>1, Appended
  <1> HIDE DEF s
  <1>3. \A i \in 1 .. 6 : s[i] = t[i]
    BY <1>2
  <1> HIDE DEF t
  <1> QED
    BY Zenon, <1>1, <1>2, <1>3, SameElements DEF s, t

----------------------------------------------------------------------------
\* A symmetric state from its parts.
Symm(ck_, h_, k_, n_) == [ck |-> ck_, h |-> h_, k |-> k_, n |-> n_]

\* mix_key of a symmetric state, part by part.
LEMMA MixKeyIs ==
    ASSUME NEW ck_, NEW h_, NEW k_, NEW n_, NEW ikm
    PROVE  mix_key(Symm(ck_, h_, k_, n_), ikm) = Symm(Append(ck_, ikm), h_, Append(ck_, ikm), 0)
  <1> DEFINE x == Symm(ck_, h_, k_, n_)
             a == Append(ck_, ikm)
  <1>1. x.ck = ck_
    BY Zenon DEF Symm
  <1>2. mix_key(x, ikm) = [x EXCEPT !.ck = a, !.k = a, !.n = 0]
    BY Zenon, <1>1 DEF mix_key
  <1> HIDE DEF a
  <1>3. [x EXCEPT !.ck = a, !.k = a, !.n = 0] = Symm(a, h_, a, 0)
    <2>1. [x EXCEPT !.ck = a] = Symm(a, h_, k_, n_)
      BY DEF Symm
    <2>2. [Symm(a, h_, k_, n_) EXCEPT !.k = a] = Symm(a, h_, a, n_)
      BY DEF Symm
    <2>3. [Symm(a, h_, a, n_) EXCEPT !.n = 0] = Symm(a, h_, a, 0)
      BY DEF Symm
    <2>4. [x EXCEPT !.ck = a, !.k = a, !.n = 0] = [[[x EXCEPT !.ck = a] EXCEPT !.k = a] EXCEPT !.n = 0]
      BY Zenon DEF Symm
    <2> QED
      BY Zenon, <2>1, <2>2, <2>3, <2>4
  <1> QED
    BY Zenon, <1>2, <1>3 DEF a

\* mix_hash adds to the transcript only.
LEMMA MixHashIs ==
    ASSUME NEW ck_, NEW h_, NEW k_, NEW n_, NEW data
    PROVE  mix_hash(Symm(ck_, h_, k_, n_), data) = Symm(ck_, Append(h_, data), k_, n_)
  BY SMTT(30) DEF mix_hash, Symm

\* decrypt_and_hash with a fresh key uses nonce 0.
LEMMA DecryptIs ==
    ASSUME NEW ck_, NEW h_, NEW k_, NEW c
    PROVE  decrypt_and_hash(Symm(ck_, h_, k_, 0), c) = Symm(ck_, Append(h_, c), k_, 1)
  <1> DEFINE x == Symm(ck_, h_, k_, 0)
  <1>1. [x EXCEPT !.n = @ + 1] = Symm(ck_, h_, k_, 1)
    BY DEF Symm
  <1> QED
    BY <1>1, MixHashIs DEF decrypt_and_hash

\* So does encrypt_and_hash.
LEMMA EncryptIs ==
    ASSUME NEW ck_, NEW h_, NEW k_, NEW p
    PROVE  encrypt_and_hash(Symm(ck_, h_, k_, 0), p)
              = Symm(ck_, Append(h_, <<"sealed", k_, 0, h_, p>>), k_, 1)
  <1> DEFINE x == Symm(ck_, h_, k_, 0)
  <1>1. [x EXCEPT !.n = @ + 1] = Symm(ck_, h_, k_, 1)
    BY DEF Symm
  <1>2. Sealed(x, p) = <<"sealed", k_, 0, h_, p>>
    BY Zenon DEF Symm, Sealed
  <1> QED
    BY <1>1, <1>2, MixHashIs DEF encrypt_and_hash

\* A seal names its key, its nonce and the transcript so far.
LEMMA SealedIs ==
    ASSUME NEW ck_, NEW h_, NEW k_, NEW n_, NEW p
    PROVE  Sealed(Symm(ck_, h_, k_, n_), p) = <<"sealed", k_, n_, h_, p>>
  BY Zenon DEF Sealed, Symm

----------------------------------------------------------------------------
(* The terms of a handshake of initiator i with responder run r.           *)
Eph(run) == Public(Ephemeral(run))
Sta(i) == Public(Static(StaticOf[i]))
DhES(i) == <<"dh", {Ephemeral(i), Server}>>
DhSS(i) == <<"dh", {Static(StaticOf[i]), Server}>>
DhEE(r, i) == <<"dh", {Ephemeral(r), Ephemeral(i)}>>
DhSE(r, i) == <<"dh", {Ephemeral(r), Static(StaticOf[i])}>>

Seal1(i) == <<"sealed", <<DhES(i)>>, 0, <<Public(Server), Eph(i)>>, Sta(i)>>
Seal2(i) == <<"sealed", <<DhES(i), DhSS(i)>>, 0, <<Public(Server), Eph(i), Seal1(i)>>, NoData>>
After1(i) == Symm(<<DhES(i), DhSS(i)>>, <<Public(Server), Eph(i), Seal1(i), Seal2(i)>>, <<DhES(i), DhSS(i)>>, 1)

Secrets(r, i) == <<DhES(i), DhSS(i), DhEE(r, i), DhSE(r, i)>>
Seal3(r, i) ==
    <<"sealed", Secrets(r, i), 0, <<Public(Server), Eph(i), Seal1(i), Seal2(i), Eph(r)>>, NoData>>
After2(r, i) ==
    Symm(Secrets(r, i), <<Public(Server), Eph(i), Seal1(i), Seal2(i), Eph(r), Seal3(r, i)>>, Secrets(r, i), 1)

Message1(i) == [e |-> Eph(i), s |-> Seal1(i), payload |-> Seal2(i)]
Message2(r, i) == [e |-> Eph(r), payload |-> Seal3(r, i)]

\* What an initiator takes from split.
InitiatorKeys(symm) ==
    [send |-> split(symm).i2r, recv |-> split(symm).r2i, handshake_hash |-> symm.h]

\* The states of an initiator and of a responder run.
Initiator(phase_, symm_, keys_) == [phase |-> phase_, symm |-> symm_, keys |-> keys_]
Responder(phase_, symm_, re_, rs_, keys_, reads_) ==
    [phase |-> phase_, symm |-> symm_, re |-> re_, rs |-> rs_, keys |-> keys_, reads |-> reads_]

\* A responder has read the message of i; it has answered it.
ReadFrom(r, i) == res[r] = Responder("read", After1(i), Eph(i), Sta(i), NoData, res[r].reads)
Paired(r, i) ==
    res[r] = Responder("done", After2(r, i), Eph(i), Sta(i), ResponderKeys(After2(r, i)), res[r].reads)

\* After a message that did not open, the chaining key is too long for any.
FirstSecrets ==
    {<<"dh", {Server, x}>> : x \in {<<"damaged">>} \cup {Ephemeral(i) : i \in Initiators}
                                     \cup {Static(StaticOf[i]) : i \in Initiators}}
Garbled(symm) ==
    /\ symm = Symm(symm.ck, symm.h, symm.k, symm.n)
    /\ symm.ck \in Seq(FirstSecrets) /\ Len(symm.ck) >= 1

\* An initiator is new, waits, has failed, or has finished with a responder
\* that answered this very run.
InitiatorsSound ==
    /\ ini = [i \in Initiators |-> ini[i]]
    /\ \A i \in Initiators :
          \/ ini[i] = Initiator("new", NewSymmetric, NoData)
          \/ ini[i] = Initiator("sent", After1(i), NoData)
          \/ ini[i] = Initiator("failed", After1(i), NoData)
          \/ \E r \in Responders :
                /\ Paired(r, i)
                /\ ini[i] = Initiator("done", After2(r, i), InitiatorKeys(After2(r, i)))

\* A responder is new, possibly after a message that did not open, or has read
\* the message of one initiator.
RespondersSound ==
    /\ res = [r \in Responders |-> res[r]]
    /\ \A r \in Responders :
          \/ /\ res[r] = Responder("new", res[r].symm, NoData, NoData, NoData, res[r].reads)
             /\ res[r].symm = NewSymmetric \/ Garbled(res[r].symm)
          \/ \E i \in Initiators : ReadFrom(r, i) \/ Paired(r, i)

\* What travels was written by somebody.
WiresSound ==
    /\ \A m \in wire1 : \E i \in Initiators : m = Message1(i)
    /\ \A m \in wire2 : \E r \in Responders, i \in Initiators : m = Message2(r, i) /\ Paired(r, i)

\* Every seal is one of the three of a pair of runs.
SealsSound ==
    \A s \in seals : \/ \E i \in Initiators : s = Seal1(i) \/ s = Seal2(i)
                     \/ \E r \in Responders, i \in Initiators : s = Seal3(r, i)

NoiseInv == InitiatorsSound /\ RespondersSound /\ WiresSound /\ SealsSound
----------------------------------------------------------------------------
\* Both sides begin with the key of the server in the transcript.
LEMMA NewSymmetricIs == NewSymmetric = Symm(<< >>, <<Public(Server)>>, << >>, 0)
  BY Zenon DEF NewSymmetric, Symm, NoData

\* diffie_hellman gives both sides one secret.
LEMMA SameSecret ==
    ASSUME NEW a, NEW b PROVE diffie_hellman(a, Public(b)) = <<"dh", {b, a}>>
  <1>1. {a, b} = {b, a}
    BY Zenon
  <1> QED
    BY Zenon, <1>1 DEF diffie_hellman, Public

\* Every run has an ephemeral of its own.
LEMMA EphemeralsDiffer ==
    ASSUME NEW a, NEW b PROVE /\ Eph(a) = Eph(b) => a = b
                              /\ Ephemeral(a) = Ephemeral(b) => a = b
                              /\ Ephemeral(a) # Server
  BY Zenon DEF Eph, Public, Ephemeral, Server, Static

\* The first secret tells the initiator.
LEMMA SecretOne ==
    ASSUME NEW i, NEW j, DhES(i) = DhES(j) PROVE i = j
  <1>1. {Ephemeral(i), Server} = {Ephemeral(j), Server}
    BY Zenon DEF DhES
  <1>2. Ephemeral(i) = Ephemeral(j)
    BY <1>1, EphemeralsDiffer
  <1> QED
    BY Zenon, <1>2, EphemeralsDiffer

\* The third tells both runs.
LEMMA SecretThree ==
    ASSUME NEW r \in Responders, NEW o \in Responders, NEW i \in Initiators, NEW j \in Initiators,
           DhEE(r, i) = DhEE(o, j)
    PROVE  r = o /\ i = j
  <1>1. {Ephemeral(r), Ephemeral(i)} = {Ephemeral(o), Ephemeral(j)}
    BY Zenon DEF DhEE
  <1>2. Ephemeral(r) # Ephemeral(j) /\ Ephemeral(i) # Ephemeral(o)
    BY Zenon, EphemeralsDiffer, NoiseAssumption
  <1>3. Ephemeral(r) = Ephemeral(o) /\ Ephemeral(i) = Ephemeral(j)
    BY Zenon, <1>1, <1>2
  <1> QED
    BY Zenon, <1>3, EphemeralsDiffer

----------------------------------------------------------------------------
\* Nothing was sent and nothing is sealed at first.
LEMMA NoiseInitInv == NoiseInit => NoiseInv
  BY DEF NoiseInit, NoiseInv, InitiatorsSound, RespondersSound, WiresSound, SealsSound,
         Initiator, Responder

\* The invariant gives the property.
LEMMA NoiseInvAgrees == NoiseInv => KeysAgree
  <1> SUFFICES ASSUME NoiseInv PROVE KeysAgree
    BY Zenon
  <1>1. ASSUME NEW i \in Initiators, ini[i].phase = "done"
        PROVE  \E r \in Responders :
                  /\ res[r].phase = "done"
                  /\ res[r].keys = [send |-> ini[i].keys.recv, recv |-> ini[i].keys.send,
                                    handshake_hash |-> ini[i].keys.handshake_hash]
                  /\ res[r].rs = Public(Static(StaticOf[i]))
    <2>1. PICK r \in Responders :
             Paired(r, i) /\ ini[i] = Initiator("done", After2(r, i), InitiatorKeys(After2(r, i)))
      BY <1>1 DEF NoiseInv, InitiatorsSound, Initiator
    <2>2. /\ res[r].phase = "done" /\ res[r].rs = Sta(i)
          /\ res[r].keys = ResponderKeys(After2(r, i))
      BY <2>1 DEF Paired, Responder
    <2>3. ini[i].keys = InitiatorKeys(After2(r, i))
      BY <2>1 DEF Initiator
    <2> QED
      BY <2>2, <2>3 DEF InitiatorKeys, ResponderKeys, Sta
  <1>2. ASSUME NEW r \in Responders, res[r].phase = "done"
        PROVE  \E i \in Initiators : res[r].keys = ResponderKeys(After2(r, i))
    BY <1>2 DEF NoiseInv, RespondersSound, Paired, ReadFrom, Responder
  <1>3. ASSUME NEW r \in Responders, NEW i \in Initiators
        PROVE  /\ ResponderKeys(After2(r, i)).send = <<"r2i", Secrets(r, i)>>
               /\ ResponderKeys(After2(r, i)).recv = <<"i2r", Secrets(r, i)>>
    BY Zenon DEF ResponderKeys, split, After2, Symm
  <1>4. ASSUME NEW r \in Responders, NEW o \in Responders, res[r].phase = "done", res[o].phase = "done"
        PROVE  /\ res[r].keys.send # res[r].keys.recv
               /\ r # o => {res[r].keys.send, res[r].keys.recv}
                              \cap {res[o].keys.send, res[o].keys.recv} = {}
    <2>1. PICK i \in Initiators : res[r].keys = ResponderKeys(After2(r, i))
      BY Zenon, <1>2, <1>4
    <2>2. PICK j \in Initiators : res[o].keys = ResponderKeys(After2(o, j))
      BY Zenon, <1>2, <1>4
    <2>3. /\ res[r].keys.send = <<"r2i", Secrets(r, i)>> /\ res[r].keys.recv = <<"i2r", Secrets(r, i)>>
          /\ res[o].keys.send = <<"r2i", Secrets(o, j)>> /\ res[o].keys.recv = <<"i2r", Secrets(o, j)>>
      BY Zenon, <1>3, <2>1, <2>2
    <2>4. r # o => Secrets(r, i) # Secrets(o, j)
      BY Zenon, SecretThree DEF Secrets
    <2> QED
      BY <2>3, <2>4
  <1>5. ASSUME NEW s \in seals, NEW t \in seals, s[2] = t[2], s[3] = t[3]
        PROVE  s = t
    <2>1. \A i \in Initiators : Seal1(i)[2] = <<DhES(i)>> /\ Seal2(i)[2] = <<DhES(i), DhSS(i)>>
      BY Zenon DEF Seal1, Seal2
    <2>2. \A r \in Responders, i \in Initiators : Seal3(r, i)[2] = Secrets(r, i)
      BY Zenon DEF Seal3
    <2>3. CASE \E i \in Initiators : s = Seal1(i)
      <3>1. PICK i \in Initiators : s = Seal1(i)
        BY Zenon, <2>3
      <3>2. Len(t[2]) = 1 /\ t[2][1] = DhES(i)
        BY SMTT(40), <1>5, <2>1, <3>1
      <3>3. PICK j \in Initiators : t = Seal1(j)
        BY <2>1, <2>2, <3>2 DEF NoiseInv, SealsSound, Secrets
      <3> QED
        BY <2>1, <3>1, <3>2, <3>3, SecretOne
    <2>4. CASE \E i \in Initiators : s = Seal2(i)
      <3>1. PICK i \in Initiators : s = Seal2(i)
        BY Zenon, <2>4
      <3>2. Len(t[2]) = 2 /\ t[2][1] = DhES(i)
        BY SMTT(30), <1>5, <2>1, <3>1
      <3>3. PICK j \in Initiators : t = Seal2(j)
        BY SMTT(30), <2>1, <2>2, <3>2 DEF NoiseInv, SealsSound, Secrets
      <3> QED
        BY <2>1, <3>1, <3>2, <3>3, SecretOne
    <2>5. CASE \E r \in Responders, i \in Initiators : s = Seal3(r, i)
      <3>1. PICK r \in Responders, i \in Initiators : s = Seal3(r, i)
        BY Zenon, <2>5
      <3>2. Len(t[2]) = 4 /\ t[2][3] = DhEE(r, i)
        <4>1. t[2] = <<DhES(i), DhSS(i), DhEE(r, i), DhSE(r, i)>>
          BY Zenon, <1>5, <2>2, <3>1 DEF Secrets
        <4> QED
          BY <4>1
      <3>3. PICK o \in Responders, j \in Initiators : t = Seal3(o, j)
        BY <2>1, <2>2, <3>2 DEF NoiseInv, SealsSound
      <3>4. DhEE(o, j) = DhEE(r, i)
        BY <2>2, <3>2, <3>3 DEF Secrets
      <3> QED
        BY <3>1, <3>3, <3>4, SecretThree
    <2> QED
      BY Zenon, <2>3, <2>4, <2>5 DEF NoiseInv, SealsSound
  <1> QED
    BY Zenon, <1>1, <1>4, <1>5 DEF KeysAgree

----------------------------------------------------------------------------
\* The symmetric states between the messages.
Es(i) == Symm(<<DhES(i)>>, <<Public(Server), Eph(i)>>, <<DhES(i)>>, 0)
Got(i) == Symm(<<DhES(i)>>, <<Public(Server), Eph(i), Seal1(i)>>, <<DhES(i)>>, 1)
Ss(i) == Symm(<<DhES(i), DhSS(i)>>, <<Public(Server), Eph(i), Seal1(i)>>, <<DhES(i), DhSS(i)>>, 0)
Se(r, i) ==
    Symm(Secrets(r, i), <<Public(Server), Eph(i), Seal1(i), Seal2(i), Eph(r)>>, Secrets(r, i), 0)

\* Both sides of message 1 go through the same states.
LEMMA StatesOfMessage1 ==
    ASSUME NEW i
    PROVE  /\ mix_key(mix_hash(NewSymmetric, Eph(i)), DhES(i)) = Es(i)
           /\ Sealed(Es(i), Sta(i)) = Seal1(i)
           /\ encrypt_and_hash(Es(i), Sta(i)) = Got(i)
           /\ decrypt_and_hash(Es(i), Seal1(i)) = Got(i)
           /\ mix_key(Got(i), DhSS(i)) = Ss(i)
           /\ Sealed(Ss(i), NoData) = Seal2(i)
           /\ encrypt_and_hash(Ss(i), NoData) = After1(i)
           /\ decrypt_and_hash(Ss(i), Seal2(i)) = After1(i)
  <1> DEFINE k1 == <<DhES(i)>>
             k2 == <<DhES(i), DhSS(i)>>
             h1 == <<Public(Server)>>
             h2 == <<Public(Server), Eph(i)>>
             h3 == <<Public(Server), Eph(i), Seal1(i)>>
             h4 == <<Public(Server), Eph(i), Seal1(i), Seal2(i)>>
             c1 == Seal1(i)
             c2 == Seal2(i)
             e == Eph(i)
             s == Sta(i)
             d1 == DhES(i)
             d2 == DhSS(i)
             none == << >>
  <1>1. Append(h1, e) = h2 /\ Append(h2, c1) = h3 /\ Append(h3, c2) = h4
    BY ZenonT(30), AppendTo1, AppendTo2, AppendTo3
  <1>2. Append(none, d1) = k1 /\ Append(k1, d2) = k2
    BY AppendTo1
  <1>3. c1 = <<"sealed", k1, 0, h2, s>> /\ c2 = <<"sealed", k2, 0, h3, NoData>>
    BY Zenon DEF Seal1, Seal2
  <1>4. /\ NewSymmetric = Symm(none, h1, none, 0)
        /\ Es(i) = Symm(k1, h2, k1, 0) /\ Got(i) = Symm(k1, h3, k1, 1)
        /\ Ss(i) = Symm(k2, h3, k2, 0) /\ After1(i) = Symm(k2, h4, k2, 1)
    BY Zenon, NewSymmetricIs DEF Es, Got, Ss, After1
  <1> HIDE DEF k1, k2, h1, h2, h3, h4, c1, c2, e, s, d1, d2, none
  <1>5. mix_hash(NewSymmetric, e) = Symm(none, h2, none, 0)
    <2>1. mix_hash(Symm(none, h1, none, 0), e) = Symm(none, Append(h1, e), none, 0)
      BY MixHashIs
    <2> QED
      BY Zenon, <2>1, <1>1, <1>4
  <1>6. mix_key(mix_hash(NewSymmetric, e), d1) = Es(i)
    <2>1. mix_key(Symm(none, h2, none, 0), d1) = Symm(Append(none, d1), h2, Append(none, d1), 0)
      BY MixKeyIs
    <2> QED
      BY Zenon, <2>1, <1>2, <1>4, <1>5
  <1>7. Sealed(Es(i), s) = c1 /\ Sealed(Ss(i), NoData) = c2
    BY <1>3, <1>4, SealedIs
  <1>8. encrypt_and_hash(Es(i), s) = Got(i)
    <2>1. encrypt_and_hash(Symm(k1, h2, k1, 0), s)
             = Symm(k1, Append(h2, <<"sealed", k1, 0, h2, s>>), k1, 1)
      BY EncryptIs
    <2> QED
      BY Zenon, <2>1, <1>1, <1>3, <1>4
  <1>9. decrypt_and_hash(Es(i), c1) = Got(i)
    <2>1. decrypt_and_hash(Symm(k1, h2, k1, 0), c1) = Symm(k1, Append(h2, c1), k1, 1)
      BY Zenon, DecryptIs
    <2> QED
      BY Zenon, <2>1, <1>1, <1>4
  <1>10. mix_key(Got(i), d2) = Ss(i)
    <2>1. mix_key(Symm(k1, h3, k1, 1), d2) = Symm(Append(k1, d2), h3, Append(k1, d2), 0)
      BY MixKeyIs
    <2> QED
      BY Zenon, <2>1, <1>2, <1>4
  <1>11. encrypt_and_hash(Ss(i), NoData) = After1(i)
    <2>1. encrypt_and_hash(Symm(k2, h3, k2, 0), NoData)
             = Symm(k2, Append(h3, <<"sealed", k2, 0, h3, NoData>>), k2, 1)
      BY EncryptIs
    <2> QED
      BY Zenon, <2>1, <1>1, <1>3, <1>4
  <1>12. decrypt_and_hash(Ss(i), c2) = After1(i)
    <2>1. decrypt_and_hash(Symm(k2, h3, k2, 0), c2) = Symm(k2, Append(h3, c2), k2, 1)
      BY Zenon, DecryptIs
    <2> QED
      BY Zenon, <2>1, <1>1, <1>4
  <1> QED
    BY Zenon, <1>6, <1>7, <1>8, <1>9, <1>10, <1>11, <1>12 DEF e, s, d1, d2, c1, c2

\* And of message 2.
LEMMA StatesOfMessage2 ==
    ASSUME NEW r, NEW i
    PROVE  /\ mix_key(mix_key(mix_hash(After1(i), Eph(r)), DhEE(r, i)), DhSE(r, i)) = Se(r, i)
           /\ Sealed(Se(r, i), NoData) = Seal3(r, i)
           /\ encrypt_and_hash(Se(r, i), NoData) = After2(r, i)
           /\ decrypt_and_hash(Se(r, i), Seal3(r, i)) = After2(r, i)
  <1> DEFINE k2 == <<DhES(i), DhSS(i)>>
             k3 == <<DhES(i), DhSS(i), DhEE(r, i)>>
             k4 == Secrets(r, i)
             h4 == <<Public(Server), Eph(i), Seal1(i), Seal2(i)>>
             h5 == <<Public(Server), Eph(i), Seal1(i), Seal2(i), Eph(r)>>
             h6 == <<Public(Server), Eph(i), Seal1(i), Seal2(i), Eph(r), Seal3(r, i)>>
             c3 == Seal3(r, i)
             e == Eph(r)
             d3 == DhEE(r, i)
             d4 == DhSE(r, i)
  <1>1. Append(h4, e) = h5 /\ Append(h5, c3) = h6
    BY AppendTo4, AppendTo5
  <1>2. Append(k2, d3) = k3 /\ Append(k3, d4) = k4
    BY Zenon, AppendTo2, AppendTo3 DEF Secrets
  <1>3. c3 = <<"sealed", k4, 0, h5, NoData>>
    BY Zenon DEF Seal3
  <1>4. /\ After1(i) = Symm(k2, h4, k2, 1) /\ Se(r, i) = Symm(k4, h5, k4, 0)
        /\ After2(r, i) = Symm(k4, h6, k4, 1)
    BY Zenon DEF After1, Se, After2
  <1> HIDE DEF k2, k3, k4, h4, h5, h6, c3, e, d3, d4
  <1>5. mix_hash(After1(i), e) = Symm(k2, h5, k2, 1)
    <2>1. mix_hash(Symm(k2, h4, k2, 1), e) = Symm(k2, Append(h4, e), k2, 1)
      BY MixHashIs
    <2> QED
      BY Zenon, <2>1, <1>1, <1>4
  <1>6. mix_key(mix_hash(After1(i), e), d3) = Symm(k3, h5, k3, 0)
    <2>1. mix_key(Symm(k2, h5, k2, 1), d3) = Symm(Append(k2, d3), h5, Append(k2, d3), 0)
      BY MixKeyIs
    <2> QED
      BY Zenon, <2>1, <1>2, <1>5
  <1>7. mix_key(mix_key(mix_hash(After1(i), e), d3), d4) = Se(r, i)
    <2>1. mix_key(Symm(k3, h5, k3, 0), d4) = Symm(Append(k3, d4), h5, Append(k3, d4), 0)
      BY MixKeyIs
    <2> QED
      BY Zenon, <2>1, <1>2, <1>4, <1>6
  <1>8. Sealed(Se(r, i), NoData) = c3
    BY <1>3, <1>4, SealedIs
  <1>9. encrypt_and_hash(Se(r, i), NoData) = After2(r, i)
    <2>1. encrypt_and_hash(Symm(k4, h5, k4, 0), NoData)
             = Symm(k4, Append(h5, <<"sealed", k4, 0, h5, NoData>>), k4, 1)
      BY EncryptIs
    <2> QED
      BY Zenon, <2>1, <1>1, <1>3, <1>4
  <1>10. decrypt_and_hash(Se(r, i), c3) = After2(r, i)
    <2>1. decrypt_and_hash(Symm(k4, h5, k4, 0), c3) = Symm(k4, Append(h5, c3), k4, 1)
      BY Zenon, DecryptIs
    <2> QED
      BY Zenon, <2>1, <1>1, <1>4
  <1> QED
    BY Zenon, <1>7, <1>8, <1>9, <1>10 DEF e, d3, d4, c3

\* Message 1 is what its definition says.
LEMMA Write1Inv ==
    ASSUME NoiseInv, NEW i \in Initiators, write_message_1(i)
    PROVE  NoiseInv'
  <1>1. ini[i] = Initiator("new", NewSymmetric, NoData)
    BY DEF NoiseInv, InitiatorsSound, write_message_1, Initiator
  <1>2. ini[i].symm = NewSymmetric
    BY <1>1 DEF Initiator
  <1>3. /\ diffie_hellman(Ephemeral(i), Public(Server)) = DhES(i)
        /\ diffie_hellman(Static(StaticOf[i]), Public(Server)) = DhSS(i)
    BY Zenon DEF diffie_hellman, DhES, DhSS, Public
  <1>4. /\ wire1' = wire1 \cup {Message1(i)}
        /\ seals' = seals \cup {Seal1(i), Seal2(i)}
        /\ ini' = [ini EXCEPT ![i].phase = "sent", ![i].symm = After1(i)]
        /\ UNCHANGED <<res, wire2>>
    BY Zenon, <1>2, <1>3, StatesOfMessage1 DEF write_message_1, Message1, Eph, Sta
  <1>5. ini' = [ini EXCEPT ![i] = Initiator("sent", After1(i), NoData)]
    <2> DEFINE a == After1(i)
    <2>1. ini' = [ini EXCEPT ![i] = [[ini[i] EXCEPT !.phase = "sent"] EXCEPT !.symm = a]]
      BY Zenon, <1>4 DEF NoiseInv, InitiatorsSound
    <2> HIDE DEF a
    <2>2. [ini[i] EXCEPT !.phase = "sent"] = Initiator("sent", NewSymmetric, NoData)
      BY <1>1 DEF Initiator
    <2>3. [Initiator("sent", NewSymmetric, NoData) EXCEPT !.symm = a] = Initiator("sent", a, NoData)
      BY DEF Initiator
    <2> QED
      BY Zenon, <2>1, <2>2, <2>3 DEF a
  <1>6. InitiatorsSound'
    BY Zenon, <1>4, <1>5 DEF NoiseInv, InitiatorsSound, Paired
  <1>7. RespondersSound'
    BY Zenon, <1>4 DEF NoiseInv, RespondersSound, Paired, ReadFrom
  <1>8. WiresSound'
    BY Zenon, <1>4 DEF NoiseInv, WiresSound, Paired
  <1>9. SealsSound'
    BY Zenon, <1>4 DEF NoiseInv, SealsSound
  <1> QED
    BY Zenon, <1>6, <1>7, <1>8, <1>9 DEF NoiseInv

\* What arrives of message 1, whole or damaged.
LEMMA Arrives1 ==
    ASSUME NoiseInv, NEW m \in Arriving(wire1)
    PROVE  \E j \in Initiators :
              /\ m = [e |-> m.e, s |-> Seal1(j), payload |-> m.payload]
              /\ m.e \in {Eph(j), Public(<<"damaged">>)}
              /\ m.payload \in {Seal2(j), <<"damaged">>}
  <1>1. PICK w \in wire1 : \/ m = w
                           \/ m = [w EXCEPT !.payload = <<"damaged">>]
                           \/ m = [w EXCEPT !.e = Public(<<"damaged">>)]
    BY DEF Arriving, Damage
  <1>2. PICK j \in Initiators : w = [e |-> Eph(j), s |-> Seal1(j), payload |-> Seal2(j)]
    BY Zenon DEF NoiseInv, WiresSound, Message1
  <1> QED
    BY <1>1, <1>2

\* What arrives of message 2, whole or damaged.
LEMMA Arrives2 ==
    ASSUME NoiseInv, NEW m \in Arriving(wire2)
    PROVE  \E r \in Responders, j \in Initiators :
              /\ Paired(r, j)
              /\ m = [e |-> m.e, payload |-> m.payload]
              /\ m.payload \in {Seal3(r, j), <<"damaged">>}
  <1>1. PICK w \in wire2 : \/ m = w
                           \/ m = [w EXCEPT !.payload = <<"damaged">>]
                           \/ m = [w EXCEPT !.e = Public(<<"damaged">>)]
    BY DEF Arriving, Damage
  <1>2. PICK r \in Responders, j \in Initiators :
           w = [e |-> Eph(r), payload |-> Seal3(r, j)] /\ Paired(r, j)
    BY Zenon DEF NoiseInv, WiresSound, Message2
  <1> QED
    BY <1>1, <1>2

\* Message 2 is what its definition says.
LEMMA Write2Inv ==
    ASSUME NoiseInv, NEW r \in Responders, write_message_2(r)
    PROVE  NoiseInv'
  <1>1. PICK i \in Initiators : ReadFrom(r, i)
    BY DEF NoiseInv, RespondersSound, write_message_2, Responder, Paired
  <1>2. res[r].symm = After1(i) /\ res[r].re = Eph(i) /\ res[r].rs = Sta(i)
    BY <1>1 DEF ReadFrom, Responder
  <1>3. SecretsOfMessage2(Ephemeral(r), Eph(i), Sta(i)) = <<DhEE(r, i), DhSE(r, i)>>
    BY Zenon DEF SecretsOfMessage2, diffie_hellman, DhEE, DhSE, Eph, Sta, Public
  <1>4. /\ SecretsOfMessage2(Ephemeral(r), Eph(i), Sta(i))[1] = DhEE(r, i)
        /\ SecretsOfMessage2(Ephemeral(r), Eph(i), Sta(i))[2] = DhSE(r, i)
    BY <1>3
  <1>5. /\ wire2' = wire2 \cup {Message2(r, i)}
        /\ seals' = seals \cup {Seal3(r, i)}
        /\ res' = [res EXCEPT ![r].phase = "done", ![r].symm = After2(r, i),
                              ![r].keys = ResponderKeys(After2(r, i))]
        /\ UNCHANGED <<ini, wire1>>
    BY Zenon, <1>2, <1>4, StatesOfMessage2 DEF write_message_2, Message2, Eph
  <1>6. res' = [res EXCEPT ![r] = Responder("done", After2(r, i), Eph(i), Sta(i),
                                            ResponderKeys(After2(r, i)), res[r].reads)]
    <2> DEFINE k == ResponderKeys(After2(r, i))
               a == After2(r, i)
    <2>1. res' = [res EXCEPT ![r].phase = "done", ![r].symm = a, ![r].keys = k]
      BY Zenon, <1>5
    <2>2. res[r] = Responder("read", After1(i), Eph(i), Sta(i), NoData, res[r].reads)
      BY Zenon, <1>1 DEF ReadFrom
    <2> HIDE DEF k, a
    <2>3. res' = [res EXCEPT ![r] = [[[res[r] EXCEPT !.phase = "done"] EXCEPT !.symm = a] EXCEPT !.keys = k]]
      BY Zenon, <2>1 DEF NoiseInv, RespondersSound
    <2> DEFINE n == res[r].reads
               b == After1(i)
               x == Eph(i)
               y == Sta(i)
    <2>4. res[r] = Responder("read", b, x, y, NoData, n)
      BY Zenon, <2>2
    <2> HIDE DEF n, b, x, y
    <2>5. [res[r] EXCEPT !.phase = "done"] = Responder("done", b, x, y, NoData, n)
      BY <2>4 DEF Responder
    <2>6. [Responder("done", b, x, y, NoData, n) EXCEPT !.symm = a] = Responder("done", a, x, y, NoData, n)
      BY DEF Responder
    <2>7. [Responder("done", a, x, y, NoData, n) EXCEPT !.keys = k] = Responder("done", a, x, y, k, n)
      BY DEF Responder
    <2> QED
      BY Zenon, <2>3, <2>5, <2>6, <2>7 DEF k, a, n, x, y
  <1>7. Paired(r, i)' /\ \A o \in Responders : o # r => res'[o] = res[o]
    BY Zenon, <1>6 DEF Paired, NoiseInv, RespondersSound, Responder
  <1>8. \A o \in Responders, j \in Initiators : Paired(o, j) => o # r
    BY <1>1 DEF Paired, ReadFrom, Responder
  <1>9. \A o \in Responders, j \in Initiators : Paired(o, j) => Paired(o, j)'
    BY Zenon, <1>7, <1>8 DEF Paired
  <1>10. InitiatorsSound'
    BY Zenon, <1>5, <1>9 DEF NoiseInv, InitiatorsSound
  <1>11. RespondersSound'
    BY Zenon, <1>6, <1>7 DEF NoiseInv, RespondersSound, Paired, ReadFrom
  <1>12. WiresSound'
    BY Zenon, <1>5, <1>7, <1>9 DEF NoiseInv, WiresSound
  <1>13. SealsSound'
    BY Zenon, <1>5 DEF NoiseInv, SealsSound
  <1> QED
    BY Zenon, <1>10, <1>11, <1>12, <1>13 DEF NoiseInv

----------------------------------------------------------------------------
\* A state whose chaining key came from messages 1, or is empty.
Loose(symm) ==
    /\ symm = Symm(symm.ck, symm.h, symm.k, symm.n)
    /\ symm.ck \in Seq(FirstSecrets)

\* The parts of a symmetric state.
LEMMA SymmParts ==
    ASSUME NEW ck_, NEW h_, NEW k_, NEW n_
    PROVE  /\ Symm(ck_, h_, k_, n_).ck = ck_ /\ Symm(ck_, h_, k_, n_).h = h_
           /\ Symm(ck_, h_, k_, n_).k = k_ /\ Symm(ck_, h_, k_, n_).n = n_
  BY Zenon DEF Symm

\* Mixing a secret makes the chaining key one longer.
LEMMA MixGarbles ==
    ASSUME NEW x, Loose(x), NEW d \in FirstSecrets, NEW data
    PROVE  LET y == mix_key(mix_hash(x, data), d)
           IN  /\ Garbled(y) /\ y = Symm(y.ck, Append(x.h, data), y.ck, 0)
               /\ Len(y.ck) = Len(x.ck) + 1
  <1> DEFINE ck == x.ck
             h == x.h
             k == x.k
             n == x.n
             g == Append(h, data)
             c == Append(ck, d)
             y == mix_key(mix_hash(x, data), d)
  <1>1. x = Symm(ck, h, k, n) /\ ck \in Seq(FirstSecrets)
    BY Zenon DEF Loose
  <1>2. c \in Seq(FirstSecrets) /\ Len(c) = Len(ck) + 1 /\ Len(ck) \in Nat
    BY <1>1, Appended, LengthIsNat
  <1> HIDE DEF ck, h, k, n
  <1>3. mix_hash(Symm(ck, h, k, n), data) = Symm(ck, Append(h, data), k, n)
    BY MixHashIs
  <1>4. mix_key(Symm(ck, g, k, n), d) = Symm(Append(ck, d), g, Append(ck, d), 0)
    <2> HIDE DEF g
    <2> QED
      BY MixKeyIs
  <1>5. y = Symm(c, g, c, 0)
    BY Zenon, <1>1, <1>3, <1>4
  <1> HIDE DEF c, g, y
  <1>6. y.ck = c /\ y.h = g /\ y.k = c /\ y.n = 0
    BY <1>5, SymmParts
  <1>7. Garbled(y)
    BY <1>2, <1>5, <1>6 DEF Garbled
  <1> QED
    BY Zenon, <1>2, <1>5, <1>6, <1>7 DEF y, g, h, ck

\* So does the second secret.
LEMMA MixAgain ==
    ASSUME NEW x, Garbled(x), x.n = 0, NEW d \in FirstSecrets, NEW data
    PROVE  /\ Garbled(decrypt_and_hash(x, data))
           /\ Garbled(mix_key(decrypt_and_hash(x, data), d))
  <1> DEFINE ck == x.ck
             h == x.h
             k == x.k
             g == Append(h, data)
             c == Append(ck, d)
             y == decrypt_and_hash(x, data)
             z == mix_key(decrypt_and_hash(x, data), d)
  <1>1. x = Symm(ck, h, k, 0) /\ ck \in Seq(FirstSecrets) /\ Len(ck) >= 1
    BY Zenon DEF Garbled
  <1>2. c \in Seq(FirstSecrets) /\ Len(c) = Len(ck) + 1 /\ Len(ck) \in Nat
    BY <1>1, Appended, LengthIsNat
  <1> HIDE DEF ck, h, k
  <1>3. decrypt_and_hash(Symm(ck, h, k, 0), data) = Symm(ck, Append(h, data), k, 1)
    BY DecryptIs
  <1>4. mix_key(Symm(ck, g, k, 1), d) = Symm(Append(ck, d), g, Append(ck, d), 0)
    <2> HIDE DEF g
    <2> QED
      BY MixKeyIs
  <1>5. y = Symm(ck, g, k, 1) /\ z = Symm(c, g, c, 0)
    BY Zenon, <1>1, <1>3, <1>4
  <1> HIDE DEF c, g, y, z
  <1>6. y.ck = ck /\ y.h = g /\ y.k = k /\ y.n = 1 /\ z.ck = c /\ z.h = g /\ z.k = c /\ z.n = 0
    BY <1>5, SymmParts
  <1>7. Garbled(y) /\ Garbled(z)
    BY <1>1, <1>2, <1>5, <1>6 DEF Garbled
  <1> QED
    BY Zenon, <1>7 DEF y, z

\* Only a fresh responder opens a message 1, and only as it was sent.
LEMMA OpensFresh ==
    ASSUME NEW j \in Initiators, NEW symm, symm = NewSymmetric \/ Garbled(symm),
           NEW e \in {Eph(j), Public(<<"damaged">>)},
           Opens(mix_key(mix_hash(symm, e), diffie_hellman(Server, e)), Seal1(j))
    PROVE  symm = NewSymmetric /\ e = Eph(j)
  <1> DEFINE d == diffie_hellman(Server, e)
             y == mix_key(mix_hash(symm, e), d)
  <1>1. d \in FirstSecrets
    BY DEF diffie_hellman, Eph, Public, FirstSecrets
  <1>2. Loose(symm)
    <2>1. CASE symm = NewSymmetric
      <3>1. << >> \in Seq(FirstSecrets)
        OBVIOUS
      <3> QED
        BY Zenon, <2>1, <3>1 DEF Loose, NewSymmetric, Symm, NoData
    <2>2. CASE Garbled(symm)
      BY Zenon, <2>2 DEF Garbled, Loose
    <2> QED
      BY Zenon, <2>1, <2>2
  <1>3. y = Symm(y.ck, Append(symm.h, e), y.ck, 0) /\ Len(y.ck) = Len(symm.ck) + 1
    BY Zenon, <1>1, <1>2, MixGarbles
  <1> HIDE DEF y
  <1>4. Sealed(y, Seal1(j)[5]) = <<"sealed", y.ck, 0, Append(symm.h, e), Seal1(j)[5]>>
    <2> DEFINE ck == y.ck
               g == Append(symm.h, e)
               c5 == Seal1(j)[5]
    <2>1. y = Symm(ck, g, ck, 0)
      BY Zenon, <1>3
    <2> HIDE DEF ck, g, c5
    <2>2. Sealed(Symm(ck, g, ck, 0), c5) = <<"sealed", ck, 0, g, c5>>
      BY SealedIs
    <2> QED
      BY Zenon, <2>1, <2>2 DEF ck, g, c5
  <1>5. Seal1(j) = Sealed(y, Seal1(j)[5])
    BY Zenon DEF Opens, y
  <1>6. <<"sealed", <<DhES(j)>>, 0, <<Public(Server), Eph(j)>>, Sta(j)>>
           = <<"sealed", y.ck, 0, Append(symm.h, e), Seal1(j)[5]>>
    BY Zenon, <1>4, <1>5 DEF Seal1
  <1>7. <<DhES(j)>> = y.ck /\ <<Public(Server), Eph(j)>> = Append(symm.h, e)
    BY Zenon, <1>6
  <1>8. Len(y.ck) = 1
    BY <1>7
  <1>9. symm = NewSymmetric
    <2> SUFFICES ASSUME Garbled(symm) PROVE FALSE
      BY Zenon
    <2>1. symm.ck \in Seq(FirstSecrets) /\ Len(symm.ck) >= 1
      BY Zenon DEF Garbled
    <2>2. Len(symm.ck) \in Nat
      BY Zenon, <2>1, LengthIsNat
    <2> QED
      BY <1>3, <1>8, <2>1, <2>2
  <1>10. symm.h = <<Public(Server)>>
    BY Zenon, <1>9 DEF NewSymmetric
  <1>11. Append(symm.h, e) = <<Public(Server), e>>
    BY Zenon, <1>10, AppendTo1
  <1>12. e = Eph(j)
    BY <1>7, <1>11
  <1> QED
    BY Zenon, <1>9, <1>12

\* read_message_1: an error garbles the run for good, a success reads the
\* message of one initiator.
LEMMA Read1Inv ==
    ASSUME NoiseInv, NEW r \in Responders, NEW m \in Arriving(wire1), read_message_1(r, m)
    PROVE  NoiseInv'
  <1> DEFINE symm == res[r].symm
             n == res[r].reads + 1
             x == [res[r] EXCEPT !.reads = @ + 1]
             es == mix_key(mix_hash(symm, m.e), diffie_hellman(Server, m.e))
             got == decrypt_and_hash(es, m.s)
             ss == mix_key(got, diffie_hellman(Server, m.s[5]))
  <1>1. /\ res[r] = Responder("new", symm, NoData, NoData, NoData, res[r].reads)
        /\ symm = NewSymmetric \/ Garbled(symm)
    BY DEF NoiseInv, RespondersSound, read_message_1, Responder, ReadFrom, Paired
  <1>2. x = Responder("new", symm, NoData, NoData, NoData, n)
    <2> DEFINE b == res[r].reads
    <2>1. res[r] = Responder("new", symm, NoData, NoData, NoData, b) /\ n = b + 1
      BY Zenon, <1>1
    <2> HIDE DEF b, symm, n
    <2>2. [Responder("new", symm, NoData, NoData, NoData, b) EXCEPT !.reads = @ + 1]
             = Responder("new", symm, NoData, NoData, NoData, b + 1)
      BY DEF Responder
    <2> QED
      BY Zenon, <2>1, <2>2
  <1>3. PICK j \in Initiators :
           /\ m = [e |-> m.e, s |-> Seal1(j), payload |-> m.payload]
           /\ m.e \in {Eph(j), Public(<<"damaged">>)}
           /\ m.payload \in {Seal2(j), <<"damaged">>}
    BY Zenon, Arrives1
  <1>4. m.s = Seal1(j) /\ m.s[5] = Sta(j)
    BY <1>3 DEF Seal1
  <1>5. res' = [res EXCEPT ![r] = AfterMessage1(x, m)] /\ UNCHANGED <<ini, wire1, wire2, seals>>
    BY Zenon DEF read_message_1
  <1>6. x.symm = symm
    BY Zenon, <1>2 DEF Responder
  <1>7. AfterMessage1(x, m) =
           IF ~Opens(es, m.s) THEN [x EXCEPT !.symm = es]
           ELSE IF known_initiators # {} /\ \A name \in known_initiators : m.s[5] # Public(Static(name))
           THEN [x EXCEPT !.symm = got]
           ELSE IF ~Opens(ss, m.payload) THEN [x EXCEPT !.symm = ss]
           ELSE [x EXCEPT !.phase = "read", !.symm = decrypt_and_hash(ss, m.payload),
                          !.re = m.e, !.rs = m.s[5]]
    BY Zenon, <1>6 DEF AfterMessage1
  <1>8. Garbled(es) /\ Garbled(got) /\ Garbled(ss)
    <2>1. diffie_hellman(Server, m.e) \in FirstSecrets /\ diffie_hellman(Server, m.s[5]) \in FirstSecrets
      BY <1>3, <1>4 DEF diffie_hellman, Eph, Sta, Public, FirstSecrets
    <2>2. Loose(symm)
      <3>1. << >> \in Seq(FirstSecrets)
        OBVIOUS
      <3>2. Loose(NewSymmetric)
        BY Zenon, <3>1 DEF Loose, NewSymmetric, Symm, NoData
      <3> QED
        BY Zenon, <1>1, <3>2 DEF Garbled, Loose
    <2>3. Garbled(es) /\ es = Symm(es.ck, Append(symm.h, m.e), es.ck, 0)
      BY Zenon, <2>1, <2>2, MixGarbles
    <2>4. es.n = 0
      <3> DEFINE ck == es.ck
                 g == Append(symm.h, m.e)
      <3>1. es = Symm(ck, g, ck, 0)
        BY Zenon, <2>3
      <3> HIDE DEF es, ck, g
      <3> QED
        BY <3>1, SymmParts
    <2> HIDE DEF es
    <2> QED
      BY Zenon, <2>1, <2>3, <2>4, MixAgain
  <1> DEFINE Refused(y) == Responder("new", y, NoData, NoData, NoData, n)
  <1>9. \A y : [x EXCEPT !.symm = y] = Refused(y)
    <2> HIDE DEF x, symm, n
    <2> QED
      BY <1>2 DEF Responder
  <1>10. \/ \E y : Garbled(y) /\ AfterMessage1(x, m) = Refused(y)
         \/ AfterMessage1(x, m) = Responder("read", After1(j), Eph(j), Sta(j), NoData, n)
    <2>1. CASE ~Opens(es, m.s)
      BY Zenon, <1>7, <1>8, <1>9, <2>1
    <2>2. CASE /\ Opens(es, m.s)
               /\ known_initiators # {} /\ \A name \in known_initiators : m.s[5] # Public(Static(name))
      BY Zenon, <1>7, <1>8, <1>9, <2>2
    <2>3. CASE /\ Opens(es, m.s)
               /\ ~(known_initiators # {} /\ \A name \in known_initiators : m.s[5] # Public(Static(name)))
               /\ ~Opens(ss, m.payload)
      BY Zenon, <1>7, <1>8, <1>9, <2>3
    <2>4. CASE /\ Opens(es, m.s)
               /\ ~(known_initiators # {} /\ \A name \in known_initiators : m.s[5] # Public(Static(name)))
               /\ Opens(ss, m.payload)
      <3>1. symm = NewSymmetric /\ m.e = Eph(j)
        BY Zenon, <1>1, <1>3, <1>4, <2>4, OpensFresh
      <3>2. diffie_hellman(Server, m.e) = DhES(j) /\ diffie_hellman(Server, m.s[5]) = DhSS(j)
        BY Zenon, <1>4, <3>1, SameSecret DEF DhES, DhSS, Eph, Sta
      <3>3. es = Es(j) /\ got = Got(j) /\ ss = Ss(j)
        BY Zenon, <1>4, <3>1, <3>2, StatesOfMessage1
      <3>4. m.payload = Seal2(j)
        <4>1. Len(m.payload) = 5
          BY Zenon, <2>4 DEF Opens
        <4>2. Len(<<"damaged">>) = 1
          BY Zenon
        <4> QED
          BY <1>3, <4>1, <4>2
      <3>5. decrypt_and_hash(ss, m.payload) = After1(j)
        BY Zenon, <3>3, <3>4, StatesOfMessage1
      <3>6. AfterMessage1(x, m) = [x EXCEPT !.phase = "read", !.symm = After1(j), !.re = Eph(j), !.rs = Sta(j)]
        BY Zenon, <1>4, <1>7, <2>4, <3>1, <3>5
      <3>7. [x EXCEPT !.phase = "read", !.symm = After1(j), !.re = Eph(j), !.rs = Sta(j)]
               = Responder("read", After1(j), Eph(j), Sta(j), NoData, n)
        <4> DEFINE a == After1(j)
                   b == Eph(j)
                   c == Sta(j)
        <4> HIDE DEF x, a, b, c, symm, n
        <4>1. [x EXCEPT !.phase = "read", !.symm = a, !.re = b, !.rs = c]
                 = [[[[x EXCEPT !.phase = "read"] EXCEPT !.symm = a] EXCEPT !.re = b] EXCEPT !.rs = c]
          BY Zenon, <1>2 DEF Responder
        <4>2. [x EXCEPT !.phase = "read"] = Responder("read", symm, NoData, NoData, NoData, n)
          BY <1>2 DEF Responder
        <4>3. [Responder("read", symm, NoData, NoData, NoData, n) EXCEPT !.symm = a]
                 = Responder("read", a, NoData, NoData, NoData, n)
          BY DEF Responder
        <4>4. [Responder("read", a, NoData, NoData, NoData, n) EXCEPT !.re = b]
                 = Responder("read", a, b, NoData, NoData, n)
          BY DEF Responder
        <4>5. [Responder("read", a, b, NoData, NoData, n) EXCEPT !.rs = c]
                 = Responder("read", a, b, c, NoData, n)
          BY DEF Responder
        <4> QED
          BY Zenon, <4>1, <4>2, <4>3, <4>4, <4>5 DEF a, b, c
      <3> QED
        BY Zenon, <3>6, <3>7
    <2> QED
      BY Zenon, <2>1, <2>2, <2>3, <2>4
  <1> HIDE DEF x
  <1>11. /\ res' = [o \in Responders |-> res'[o]]
         /\ res'[r] = AfterMessage1(x, m) /\ \A o \in Responders : o # r => res'[o] = res[o]
    BY Zenon, <1>5 DEF NoiseInv, RespondersSound
  <1>12. \A o \in Responders, i \in Initiators : Paired(o, i) => Paired(o, i)'
    BY <1>1, <1>11 DEF Paired, Responder
  <1>13. InitiatorsSound'
    BY Zenon, <1>5, <1>12 DEF NoiseInv, InitiatorsSound
  <1>14. RespondersSound'
    <2>1. ASSUME NEW o \in Responders, o # r
          PROVE  \/ /\ res'[o] = Responder("new", res'[o].symm, NoData, NoData, NoData, res'[o].reads)
                    /\ res'[o].symm = NewSymmetric \/ Garbled(res'[o].symm)
                 \/ \E i \in Initiators : ReadFrom(o, i)' \/ Paired(o, i)'
      BY Zenon, <1>11, <2>1 DEF NoiseInv, RespondersSound, ReadFrom, Paired
    <2>2. CASE \E y : Garbled(y) /\ AfterMessage1(x, m) = Refused(y)
      <3>1. PICK y : Garbled(y) /\ res'[r] = Refused(y)
        BY Zenon, <1>11, <2>2
      <3>2. /\ res'[r] = Responder("new", res'[r].symm, NoData, NoData, NoData, res'[r].reads)
            /\ Garbled(res'[r].symm)
        BY <3>1 DEF Responder
      <3> QED
        BY Zenon, <1>11, <2>1, <3>2 DEF RespondersSound
    <2>3. CASE AfterMessage1(x, m) = Responder("read", After1(j), Eph(j), Sta(j), NoData, n)
      <3>1. ReadFrom(r, j)'
        BY <1>11, <2>3 DEF ReadFrom, Responder
      <3> QED
        BY Zenon, <1>11, <2>1, <3>1 DEF RespondersSound
    <2> QED
      BY Zenon, <1>10, <2>2, <2>3
  <1>15. WiresSound'
    BY Zenon, <1>5, <1>12 DEF NoiseInv, WiresSound
  <1>16. SealsSound'
    BY Zenon, <1>5 DEF NoiseInv, SealsSound
  <1> QED
    BY Zenon, <1>13, <1>14, <1>15, <1>16 DEF NoiseInv

\* read_message_2: only the responder that read this attempt's message can
\* have sealed what opens.
LEMMA Read2Inv ==
    ASSUME NoiseInv, NEW i \in Initiators, NEW m \in Arriving(wire2), read_message_2(i, m)
    PROVE  NoiseInv'
  <1> DEFINE d == diffie_hellman(Ephemeral(i), m.e)
             f == diffie_hellman(Static(StaticOf[i]), m.e)
             se == mix_key(mix_key(mix_hash(ini[i].symm, m.e), d), f)
             end == decrypt_and_hash(se, m.payload)
             old == ini[i]
             renewed == IF Opens(se, m.payload)
                    THEN Initiator("done", end, InitiatorKeys(end))
                    ELSE [old EXCEPT !.phase = "failed"]
  <1>1. old = Initiator("sent", After1(i), NoData)
    BY DEF NoiseInv, InitiatorsSound, read_message_2, Initiator
  <1>2. old.symm = After1(i)
    BY SMTT(40), <1>1 DEF Initiator
  <1>3. ini' = [ini EXCEPT ![i] = renewed] /\ UNCHANGED <<res, wire1, wire2, seals>>
    BY Zenon DEF read_message_2, Initiator, InitiatorKeys
  <1>4. PICK r \in Responders, j \in Initiators :
           /\ Paired(r, j)
           /\ m.payload \in {Seal3(r, j), <<"damaged">>}
    BY Zenon, Arrives2
  <1>5. \/ renewed = Initiator("failed", After1(i), NoData)
        \/ renewed = Initiator("done", After2(r, i), InitiatorKeys(After2(r, i))) /\ Paired(r, i)
    <2>1. CASE ~Opens(se, m.payload)
      <3>1. renewed = [old EXCEPT !.phase = "failed"]
        BY Zenon, <2>1
      <3> HIDE DEF renewed, old
      <3> QED
        BY Zenon, <1>1, <3>1 DEF Initiator
    <2>2. CASE Opens(se, m.payload)
      <3>1. m.payload = Seal3(r, j)
        <4>1. Len(m.payload) = 5
          BY Zenon, <2>2 DEF Opens
        <4>2. Len(<<"damaged">>) = 1
          BY Zenon
        <4> QED
          BY <1>4, <4>1, <4>2
      <3> DEFINE ck == <<DhES(i), DhSS(i)>>
                 h4 == <<Public(Server), Eph(i), Seal1(i), Seal2(i)>>
                 h5 == Append(h4, m.e)
                 ck3 == Append(ck, d)
                 ck4 == Append(ck3, f)
      <3>2. After1(i) = Symm(ck, h4, ck, 1)
        BY Zenon DEF After1
      <3>3. mix_hash(Symm(ck, h4, ck, 1), m.e) = Symm(ck, h5, ck, 1)
        <4> HIDE DEF ck, h4
        <4> QED
          BY MixHashIs
      <3>4. mix_key(Symm(ck, h5, ck, 1), d) = Symm(ck3, h5, ck3, 0)
        <4> HIDE DEF ck, h5, d
        <4> QED
          BY MixKeyIs
      <3>5. mix_key(Symm(ck3, h5, ck3, 0), f) = Symm(ck4, h5, ck4, 0)
        <4> HIDE DEF ck3, h5, f
        <4> QED
          BY MixKeyIs
      <3>6. se = Symm(ck4, h5, ck4, 0)
        BY Zenon, <1>2, <3>2, <3>3, <3>4, <3>5
      <3>7. Seal3(r, j) = <<"sealed", ck4, 0, h5, Seal3(r, j)[5]>>
        <4> DEFINE c5 == Seal3(r, j)[5]
        <4>1. Sealed(Symm(ck4, h5, ck4, 0), c5) = <<"sealed", ck4, 0, h5, c5>>
          <5> HIDE DEF ck4, h5, c5
          <5> QED
            BY SealedIs
        <4>2. Seal3(r, j) = Sealed(se, Seal3(r, j)[5])
          BY Zenon, <2>2, <3>1 DEF Opens
        <4> QED
          BY Zenon, <3>6, <4>1, <4>2
      <3>8. h5 = <<Public(Server), Eph(i), Seal1(i), Seal2(i), m.e>>
        BY Zenon, AppendTo4
      <3>9. <<Public(Server), Eph(j), Seal1(j), Seal2(j), Eph(r)>> = h5
        <4> DEFINE g == <<Public(Server), Eph(j), Seal1(j), Seal2(j), Eph(r)>>
                   k == Secrets(r, j)
                   c5 == Seal3(r, j)[5]
        <4>1. <<"sealed", k, 0, g, NoData>> = <<"sealed", ck4, 0, h5, c5>>
          BY Zenon, <3>7 DEF Seal3
        <4> HIDE DEF g, k, ck4, h5, c5
        <4> QED
          BY Zenon, <4>1 DEF g
      <3>10. Eph(j) = Eph(i) /\ Eph(r) = m.e
        BY <3>8, <3>9
      <3>11. j = i
        BY Zenon, <3>10, EphemeralsDiffer
      <3>12. d = DhEE(r, i) /\ f = DhSE(r, i)
        BY Zenon, <3>10, SameSecret DEF DhEE, DhSE, Eph
      <3>13. se = Se(r, i)
        BY Zenon, <1>2, <3>10, <3>12, StatesOfMessage2
      <3>14. end = After2(r, i)
        BY Zenon, <3>1, <3>11, <3>13, StatesOfMessage2
      <3> QED
        BY Zenon, <1>4, <2>2, <3>11, <3>14
    <2> QED
      BY Zenon, <2>1, <2>2
  <1> HIDE DEF renewed, old
  <1>6. /\ ini' = [k \in Initiators |-> ini'[k]]
        /\ ini'[i] = renewed /\ \A k \in Initiators : k # i => ini'[k] = ini[k]
    BY Zenon, <1>3 DEF NoiseInv, InitiatorsSound
  <1>7. \A o \in Responders, k \in Initiators : Paired(o, k)' = Paired(o, k)
    BY Zenon, <1>3 DEF Paired
  <1>8. InitiatorsSound'
    <2>1. ASSUME NEW k \in Initiators
          PROVE  \/ ini'[k] = Initiator("new", NewSymmetric, NoData)
                 \/ ini'[k] = Initiator("sent", After1(k), NoData)
                 \/ ini'[k] = Initiator("failed", After1(k), NoData)
                 \/ \E o \in Responders :
                       /\ Paired(o, k)'
                       /\ ini'[k] = Initiator("done", After2(o, k), InitiatorKeys(After2(o, k)))
      <3>1. CASE k = i
        BY Zenon, <1>5, <1>6, <1>7, <3>1
      <3>2. CASE k # i
        BY Zenon, <1>6, <1>7, <3>2 DEF NoiseInv, InitiatorsSound
      <3> QED
        BY Zenon, <3>1, <3>2
    <2> QED
      BY Zenon, <1>6, <2>1 DEF InitiatorsSound
  <1>9. RespondersSound'
    BY Zenon, <1>3 DEF NoiseInv, RespondersSound, ReadFrom, Paired
  <1>10. WiresSound'
    BY Zenon, <1>3, <1>7 DEF NoiseInv, WiresSound
  <1>11. SealsSound'
    BY Zenon, <1>3 DEF NoiseInv, SealsSound
  <1> QED
    BY Zenon, <1>8, <1>9, <1>10, <1>11 DEF NoiseInv

\* Every step keeps the invariant.
LEMMA NoiseNextInv == NoiseInv /\ [NoiseNext]_noise_vars => NoiseInv'
  <1> SUFFICES ASSUME NoiseInv, [NoiseNext]_noise_vars PROVE NoiseInv'
    BY Zenon
  <1>1. CASE UNCHANGED noise_vars
    BY Zenon, <1>1 DEF noise_vars, NoiseInv, InitiatorsSound, RespondersSound, WiresSound, SealsSound,
                ReadFrom, Paired
  <1>2. CASE NoiseNext
    BY Zenon, <1>2, Write1Inv, Read1Inv, Write2Inv, Read2Inv DEF NoiseNext
  <1> QED
    BY Zenon, <1>1, <1>2

(***************************************************************************)
(* KeysAgree always: a run of an initiator that completes shares crossed   *)
(* keys and the transcript with exactly one run of a responder, which      *)
(* learned its static key; no two responder runs share a key; and no key   *)
(* seals two texts under one nonce (noise.rs), for every number of runs and *)
(* whatever messages are lost, repeated, damaged or crossed.               *)
(***************************************************************************)
THEOREM HandshakeAgrees == NoiseSpec => []KeysAgree
  BY NoiseInitInv, NoiseNextInv, NoiseInvAgrees, PTL DEF NoiseSpec

----------------------------------------------------------------------------
\* ReorderBuffer.

(***************************************************************************)
(* Before the first push nothing was returned and nothing was lost.        *)
(***************************************************************************)
Untouched == ~initialised => stream = << >> /\ lost = 0

(***************************************************************************)
(* The inductive invariant.  The three safety properties need each other:  *)
(* a drained run comes after the stream because it starts at or above      *)
(* next_expected (Accounting bounds the stream by it, PendingInWindow puts *)
(* the buffer above it).                                                   *)
(***************************************************************************)
BufferInv ==
    /\ TypeOK
    /\ Untouched
    /\ StreamInOrder
    /\ Accounting
    /\ PendingInWindow

(***************************************************************************)
(* What the run from .. to-1 looks like as a sequence.                     *)
(***************************************************************************)
LEMMA RunProperties ==
    ASSUME NEW from \in Sequence, NEW to \in 0 .. (LastSeq + 1), from <= to
    PROVE  /\ Run(from, to) \in Seq(Sequence)
           /\ Len(Run(from, to)) = to - from
           /\ \A i \in 1 .. (to - from) : Run(from, to)[i] = from + i - 1
  <1>1. \A i \in 1 .. (to - from) : from + i - 1 \in Sequence
    BY ReorderAssumption DEF Sequence
  <1>2. to - from \in Nat
    BY ReorderAssumption DEF Sequence
  <1> QED
    BY <1>1, <1>2 DEF Run

(***************************************************************************)
(* Appending the run from .. m-1 to a stream that ends below `from` keeps  *)
(* it sorted and below m.                                                  *)
(***************************************************************************)
LEMMA StreamExtended ==
    ASSUME NEW s \in Seq(Sequence), NEW from \in Sequence,
           NEW m \in 0 .. (LastSeq + 1), from <= m,
           NEW lo \in Sequence, lo <= from,
           \A i, j \in DOMAIN s : i < j => s[i] < s[j],
           \A i \in DOMAIN s : s[i] \in lo .. (from - 1)
    PROVE  LET t == s \o Run(from, m) IN
           /\ t \in Seq(Sequence)
           /\ Len(t) = Len(s) + (m - from)
           /\ \A i, j \in DOMAIN t : i < j => t[i] < t[j]
           /\ \A i \in DOMAIN t : t[i] \in lo .. (m - 1)
  <1> DEFINE r == Run(from, m)
             t == s \o r
  <1>1. /\ r \in Seq(Sequence)
        /\ Len(r) = m - from
        /\ \A i \in 1 .. (m - from) : r[i] = from + i - 1
    BY Zenon, RunProperties
  <1>2. /\ t \in Seq(Sequence)
        /\ Len(t) = Len(s) + Len(r)
        /\ \A i \in 1 .. Len(s) + Len(r) :
              t[i] = IF i <= Len(s) THEN s[i] ELSE r[i - Len(s)]
    BY Zenon, <1>1, Concatenated
  <1>3. /\ Len(s) \in Nat /\ DOMAIN s = 1 .. Len(s)
        /\ DOMAIN t = 1 .. (Len(s) + (m - from))
    BY <1>1, <1>2
  <1> HIDE DEF r, t
  <1>4. \A i \in DOMAIN t :
           t[i] = IF i <= Len(s) THEN s[i] ELSE from + (i - Len(s)) - 1
    <2> SUFFICES ASSUME NEW i \in DOMAIN t
                 PROVE  t[i] = IF i <= Len(s) THEN s[i]
                                              ELSE from + (i - Len(s)) - 1
      BY Zenon
    <2>1. i \in 1 .. Len(s) + Len(r)
      BY Zenon, <1>1, <1>3
    <2>2. CASE i <= Len(s)
      BY Zenon, <1>2, <2>1, <2>2
    <2>3. CASE ~(i <= Len(s))
      <3>1. i - Len(s) \in 1 .. (m - from)
        BY <1>1, <1>3, <2>1, <2>3 DEF Sequence
      <3> QED
        BY Zenon, <1>1, <1>2, <2>1, <2>3, <3>1
    <2> QED
      BY Zenon, <2>2, <2>3
  <1>5. \A i \in DOMAIN t : t[i] \in lo .. (m - 1)
    <2> SUFFICES ASSUME NEW i \in DOMAIN t
                 PROVE  t[i] \in lo .. (m - 1)
      BY Zenon
    <2>1. i \in 1 .. (Len(s) + (m - from))
      BY Zenon, <1>3
    <2>2. CASE i <= Len(s)
      <3>1. i \in DOMAIN s /\ t[i] = s[i]
        BY <1>3, <1>4, <2>1, <2>2
      <3>2. s[i] \in lo .. (from - 1)
        BY Zenon, <3>1
      <3> QED
        BY <3>1, <3>2, ReorderAssumption DEF Sequence
    <2>3. CASE ~(i <= Len(s))
      <3>1. t[i] = from + (i - Len(s)) - 1
        BY Zenon, <1>4, <2>3
      <3> QED
        BY <1>3, <2>1, <2>3, <3>1, ReorderAssumption DEF Sequence
    <2> QED
      BY Zenon, <2>2, <2>3
  <1>6. \A i, j \in DOMAIN t : i < j => t[i] < t[j]
    <2> SUFFICES ASSUME NEW i \in DOMAIN t, NEW j \in DOMAIN t, i < j
                 PROVE  t[i] < t[j]
      BY Zenon
    <2>1. /\ i \in 1 .. (Len(s) + (m - from))
          /\ j \in 1 .. (Len(s) + (m - from))
      BY Zenon, <1>3
    <2>2. CASE j <= Len(s)
      <3>1. i \in DOMAIN s /\ j \in DOMAIN s /\ t[i] = s[i] /\ t[j] = s[j]
        BY <1>3, <1>4, <2>1, <2>2
      <3> QED
        BY Zenon, <3>1
    <2>3. CASE i <= Len(s) /\ ~(j <= Len(s))
      <3>1. i \in DOMAIN s /\ t[i] = s[i] /\ t[j] = from + (j - Len(s)) - 1
        BY <1>3, <1>4, <2>1, <2>3
      <3>2. s[i] \in lo .. (from - 1)
        BY Zenon, <3>1
      <3> QED
        BY SMTT(30), <1>3, <2>1, <2>3, <3>1, <3>2, ReorderAssumption DEF Sequence
    <2>4. CASE ~(i <= Len(s))
      <3>1. /\ t[i] = from + (i - Len(s)) - 1
            /\ t[j] = from + (j - Len(s)) - 1
        BY <1>3, <1>4, <2>1, <2>4
      <3> QED
        BY <1>3, <2>1, <3>1 DEF Sequence
    <2> QED
      BY Zenon, <2>2, <2>3, <2>4
  <1>7. Len(t) = Len(s) + (m - from)
    BY Zenon, <1>1, <1>2
  <1> QED
    BY SMTT(30), <1>2, <1>5, <1>6, <1>7 DEF r, t

(***************************************************************************)
(* drain_contiguous keeps the invariant when it is started at or above     *)
(* next_expected on a part of the buffer that lies at or above n, and the  *)
(* numbers jumped over are counted as lost.                                *)
(***************************************************************************)
LEMMA DrainKeepsInv ==
    ASSUME BufferInv, initialised, initialised',
           NEW from \in Sequence, NEW n \in 0 .. (LastSeq + 1), from <= n,
           next_expected <= from,
           NEW p,
           DOMAIN p \subseteq DOMAIN pending,
           p \in [DOMAIN p -> 0 .. GapTimeout],
           \A k \in DOMAIN p : n <= k,
           drain_contiguous(p, n, from),
           lost' = lost + (from - next_expected),
           UNCHANGED <<initialised, duplicates, first>>
    PROVE  BufferInv'
  <1> USE DEF BufferInv
  <1>1. PICK m \in n .. (LastSeq + 1) :
           /\ DrainsTo(p, n, m)
           /\ next_expected' = m
           /\ pending' = [k \in {j \in DOMAIN p : j \notin n .. (m - 1)} |-> p[k]]
           /\ delivered' = delivered + (m - from)
           /\ stream' = stream \o Run(from, m)
    BY SMTT(30) DEF drain_contiguous
  <1>2. /\ m \in 0 .. (LastSeq + 1) /\ from <= m
        /\ next_expected \in 0 .. (LastSeq + 1)
        /\ first \in Sequence
        /\ delivered \in Nat /\ lost \in Nat
    <2>1. LastSeq \in Nat /\ from \in 0 .. LastSeq
      BY Zenon, ReorderAssumption DEF Sequence
    <2>2. m \in 0 .. (LastSeq + 1) /\ from <= m
      BY <2>1
    <2>3. /\ next_expected \in 0 .. (LastSeq + 1)
          /\ first \in Sequence
          /\ delivered \in Nat /\ lost \in Nat
      BY Zenon DEF TypeOK
    <2> QED
      BY Zenon, <2>2, <2>3
  <1>3. first <= next_expected
    <2>1. delivered + lost = next_expected - first
      BY Zenon DEF Accounting
    <2> QED
      BY <1>2, <2>1 DEF Sequence
  <1>4. \A i \in DOMAIN stream : stream[i] \in first .. (from - 1)
    <2>1. \A i \in DOMAIN stream : stream[i] \in first .. (next_expected - 1)
      BY Zenon DEF Accounting
    <2> QED
      BY <1>2, <2>1, ReorderAssumption DEF Sequence
  <1>5. /\ stream' \in Seq(Sequence)
        /\ Len(stream') = Len(stream) + (m - from)
        /\ \A i, j \in DOMAIN stream' : i < j => stream'[i] < stream'[j]
        /\ \A i \in DOMAIN stream' : stream'[i] \in first .. (m - 1)
    <2>1. stream \in Seq(Sequence) /\ first <= from
      BY <1>2, <1>3 DEF TypeOK, Sequence
    <2>2. \A i, j \in DOMAIN stream : i < j => stream[i] < stream[j]
      BY Zenon DEF StreamInOrder
    <2> QED
      BY Zenon, <1>1, <1>2, <1>4, <2>1, <2>2, StreamExtended
  <1>6. \A k \in DOMAIN pending' : m < k /\ k \in DOMAIN p
    <2> SUFFICES ASSUME NEW k \in DOMAIN pending'
                 PROVE  m < k /\ k \in DOMAIN p
      BY Zenon
    <2>1. k \in DOMAIN p /\ k \notin n .. (m - 1)
      BY Zenon, <1>1
    <2>2. k \in Sequence /\ n <= k /\ k # m
      BY Zenon, <1>1, <2>1 DEF DrainsTo, TypeOK
    <2>3. k \in Int /\ n \in Int /\ m \in Int
      BY <1>2, <2>2, ReorderAssumption DEF Sequence
    <2> QED
      BY <2>1, <2>2, <2>3
  <1>7. TypeOK'
    <2>1. DOMAIN pending' \subseteq Sequence
      BY Zenon, <1>6 DEF TypeOK
    <2>2. pending' \in [DOMAIN pending' -> 0 .. GapTimeout]
      BY Zenon, <1>1
    <2>3. next_expected' \in 0 .. (LastSeq + 1) /\ delivered' \in Nat /\ lost' \in Nat
      BY <1>1, <1>2 DEF Sequence
    <2> QED
      BY Zenon, <1>5, <2>1, <2>2, <2>3 DEF TypeOK
  <1>8. Untouched'
    BY Zenon DEF Untouched
  <1>9. StreamInOrder'
    BY Zenon, <1>5 DEF StreamInOrder
  <1>10. Accounting'
    <2>1. delivered' = Len(stream')
      BY Zenon, <1>1, <1>5 DEF Accounting
    <2>2. delivered' + lost' = next_expected' - first'
      <3>1. delivered + lost = next_expected - first
        BY Zenon DEF Accounting
      <3>2. /\ delivered' = delivered + (m - from) /\ next_expected' = m
            /\ lost' = lost + (from - next_expected) /\ first' = first
        BY Zenon, <1>1
      <3>3. /\ m \in Int /\ from \in Int /\ next_expected \in Int /\ first \in Int
            /\ delivered \in Int /\ lost \in Int
        BY <1>2, ReorderAssumption DEF Sequence
      <3> HIDE DEF BufferInv
      <3> QED
        BY <3>1, <3>2, <3>3
    <2> QED
      BY Zenon, <1>1, <1>5, <2>1, <2>2 DEF Accounting
  <1>11. PendingInWindow'
    <2> SUFFICES ASSUME NEW k \in DOMAIN pending'
                 PROVE  m < k /\ k < m + Window
      BY Zenon, <1>1 DEF PendingInWindow
    <2>1. k \in Sequence /\ m < k /\ k < next_expected + Window
      BY Zenon, <1>6 DEF PendingInWindow, TypeOK
    <2> QED
      BY <1>2, <2>1, ReorderAssumption DEF Sequence
  <1> QED
    BY Zenon, <1>7, <1>8, <1>9, <1>10, <1>11

(***************************************************************************)
(* The state reorder.rs:67 creates satisfies the invariant.                *)
(***************************************************************************)
LEMMA BufferInitInv == Init => BufferInv
  <1> SUFFICES ASSUME Init
               PROVE  BufferInv
    BY Zenon
  <1>1. stream = << >> /\ DOMAIN stream = {} /\ Len(stream) = 0 /\ DOMAIN pending = {}
    BY DEF Init
  <1>2. TypeOK
    <2>1. 0 \in Sequence /\ 0 \in 0 .. (LastSeq + 1)
      BY ReorderAssumption DEF Sequence
    <2>2. stream \in Seq(Sequence) /\ pending \in [DOMAIN pending -> 0 .. GapTimeout]
      BY <1>1 DEF Init
    <2> QED
      BY Zenon, <1>1, <2>1, <2>2 DEF Init, TypeOK
  <1> QED
    BY Zenon, <1>1, <1>2 DEF Init, BufferInv, Untouched, StreamInOrder, Accounting,
                      PendingInWindow

(***************************************************************************)
(* Every call on the buffer, and every tick of the clock, preserves it.    *)
(***************************************************************************)
LEMMA BufferNextInv == BufferInv /\ [Next]_vars => BufferInv'
  <1> SUFFICES ASSUME BufferInv, [Next]_vars
               PROVE  BufferInv'
    BY Zenon
  <1>1. ASSUME NEW seq \in Sequence, push_first(seq)
        PROVE  BufferInv'
    <2>1. stream = << >> /\ lost = 0 /\ DOMAIN pending = {} /\ delivered = 0
      BY Zenon, <1>1 DEF BufferInv, push_first, Untouched, PendingInWindow, Accounting
    <2>2. /\ stream' = << seq >> /\ next_expected' = seq + 1 /\ first' = seq
          /\ initialised' /\ delivered' = 1 /\ lost' = 0
          /\ pending' = pending /\ duplicates' = duplicates
      BY <1>1, <2>1 DEF push_first, BufferInv, TypeOK
    <2>3. /\ Len(stream') = 1 /\ DOMAIN stream' = {1} /\ stream'[1] = seq
          /\ stream' \in Seq(Sequence)
      BY <2>2
    <2>4. TypeOK'
      <3>1. next_expected' \in 0 .. (LastSeq + 1) /\ first' \in Sequence
        BY <2>2, ReorderAssumption DEF Sequence
      <3>2. initialised' \in BOOLEAN
        BY Zenon, <1>1 DEF push_first
      <3> QED
        BY Zenon, <2>2, <2>3, <3>1, <3>2 DEF BufferInv, TypeOK
    <2>5. Untouched' /\ StreamInOrder'
      BY <2>2, <2>3 DEF Untouched, StreamInOrder
    <2>6. Accounting'
      BY <2>2, <2>3 DEF Accounting, Sequence
    <2>7. PendingInWindow'
      BY Zenon, <2>1, <2>2 DEF PendingInWindow
    <2> QED
      BY Zenon, <2>4, <2>5, <2>6, <2>7 DEF BufferInv
  <1>2. ASSUME NEW seq \in Sequence, push_duplicate(seq)
        PROVE  BufferInv'
    BY <1>2 DEF push_duplicate, BufferInv, TypeOK, Untouched, StreamInOrder,
                Accounting, PendingInWindow
  <1>3. ASSUME NEW seq \in Sequence, push_force_skip(seq)
        PROVE  BufferInv'
    <2> DEFINE p == RetainAbove(seq)
    <2>1. DOMAIN p \subseteq DOMAIN pending /\ p \in [DOMAIN p -> 0 .. GapTimeout]
      BY Zenon DEF BufferInv, TypeOK, RetainAbove
    <2>2. \A k \in DOMAIN p : seq + 1 <= k
      BY DEF BufferInv, TypeOK, Sequence, RetainAbove
    <2>3. seq + 1 \in 0 .. (LastSeq + 1) /\ seq <= seq + 1
      BY ReorderAssumption DEF Sequence
    <2>4. /\ drain_contiguous(p, seq + 1, seq)
          /\ lost' = lost + (seq - next_expected)
          /\ initialised /\ next_expected <= seq
          /\ UNCHANGED <<initialised, duplicates, first>>
      BY Zenon, <1>3 DEF push_force_skip, Fresh, Skipped, BufferInv, TypeOK, Sequence
    <2> HIDE DEF p
    <2> QED
      BY Zenon, <2>1, <2>2, <2>3, <2>4, DrainKeepsInv
  <1>4. ASSUME NEW seq \in Sequence, push_in_order(seq)
        PROVE  BufferInv'
    <2>1. /\ drain_contiguous(pending, seq + 1, seq)
          /\ initialised /\ next_expected = seq
          /\ UNCHANGED <<initialised, lost, duplicates, first>>
      BY Zenon, <1>4 DEF push_in_order, Fresh
    <2>2. \A k \in DOMAIN pending : seq + 1 <= k
      BY <2>1 DEF BufferInv, TypeOK, PendingInWindow, Sequence
    <2>3. seq + 1 \in 0 .. (LastSeq + 1) /\ seq <= seq + 1
      BY ReorderAssumption DEF Sequence
    <2>4. lost' = lost + (seq - next_expected) /\ next_expected <= seq
      BY <2>1 DEF BufferInv, TypeOK, Sequence
    <2>5. pending \in [DOMAIN pending -> 0 .. GapTimeout]
      BY Zenon DEF BufferInv, TypeOK
    <2> QED
      BY Zenon, <2>1, <2>2, <2>3, <2>4, <2>5, DrainKeepsInv
  <1>5. ASSUME NEW seq \in Sequence, push_buffer(seq)
        PROVE  BufferInv'
    <2>1. DOMAIN pending' = DOMAIN pending \cup {seq}
      BY Zenon, <1>5 DEF push_buffer
    <2>2. TypeOK'
      BY <1>5, <2>1, ReorderAssumption DEF push_buffer, BufferInv, TypeOK
    <2>3. PendingInWindow'
      BY Zenon, <1>5, <2>1 DEF push_buffer, Fresh, BufferInv, PendingInWindow
    <2> QED
      BY Zenon, <1>5, <2>2, <2>3
         DEF push_buffer, BufferInv, Untouched, StreamInOrder, Accounting
  <1>6. ASSUME poll_skip
        PROVE  BufferInv'
    <2>1. PICK oldest \in DOMAIN pending :
             /\ \A k \in DOMAIN pending : oldest <= k
             /\ LET start == IF oldest > next_expected THEN oldest
                                                       ELSE next_expected
                IN  /\ lost' = lost + Skipped(start)
                    /\ drain_contiguous(pending, start, start)
      BY Zenon, <1>6 DEF poll_skip
    <2>2. initialised /\ next_expected < oldest /\ oldest \in Sequence
      BY Zenon DEF BufferInv, TypeOK, PendingInWindow
    <2>3. /\ lost' = lost + (oldest - next_expected)
          /\ drain_contiguous(pending, oldest, oldest)
      BY Zenon, <2>1, <2>2 DEF BufferInv, TypeOK, Sequence, Skipped
    <2>4. /\ oldest \in 0 .. (LastSeq + 1) /\ oldest <= oldest
          /\ next_expected <= oldest
      BY <2>2, ReorderAssumption DEF BufferInv, TypeOK, Sequence
    <2>5. UNCHANGED <<initialised, duplicates, first>>
      BY Zenon, <1>6 DEF poll_skip
    <2>6. pending \in [DOMAIN pending -> 0 .. GapTimeout]
      BY Zenon DEF BufferInv, TypeOK
    <2> QED
      BY Zenon, <2>1, <2>2, <2>3, <2>4, <2>5, <2>6, DrainKeepsInv
  <1>7. ASSUME tick
        PROVE  BufferInv'
    <2>1. DOMAIN pending' = DOMAIN pending
      BY Zenon, <1>7 DEF tick
    <2>2. pending' \in [DOMAIN pending -> 0 .. GapTimeout]
      BY SMTT(30), <1>7, ReorderAssumption DEF tick, BufferInv, TypeOK
    <2> QED
      BY Zenon, <1>7, <2>1, <2>2 DEF tick, BufferInv, TypeOK, Untouched, StreamInOrder,
                              Accounting, PendingInWindow
  <1>8. ASSUME UNCHANGED vars
        PROVE  BufferInv'
    BY Zenon, <1>8 DEF vars, BufferInv, TypeOK, Untouched, StreamInOrder, Accounting,
                PendingInWindow
  <1> QED
    BY Zenon, <1>1, <1>2, <1>3, <1>4, <1>5, <1>6, <1>7, <1>8
       DEF Next, push, poll_timeout

(***************************************************************************)
(* The fields of the buffer keep their types, and ages never pass the      *)
(* timeout, in every reachable state of reorder.rs.                        *)
(***************************************************************************)
THEOREM TypeCorrect == Spec => []TypeOK
  <1>1. BufferInv => TypeOK
    BY Zenon DEF BufferInv
  <1> QED
    BY BufferInitInv, BufferNextInv, <1>1, PTL DEF Spec

(***************************************************************************)
(* push and poll_timeout return payloads in strict sequence order, each at *)
(* most once, over the whole life of the buffer (reorder.rs:102-105);      *)
(* `delivered` and `lost` add up to the sequence numbers passed since the  *)
(* first packet (27-28); and the buffer holds only packets ahead of        *)
(* next_expected and inside the window.                                    *)
(***************************************************************************)
THEOREM ExactStream == Spec => []StreamIsExact
  <1>1. BufferInv => StreamIsExact
    BY Zenon DEF BufferInv, StreamIsExact
  <1> QED
    BY BufferInitInv, BufferNextInv, <1>1, PTL DEF Spec

----------------------------------------------------------------------------
\* AntiReplay.

(***************************************************************************)
(* The inductive invariant.  AcceptedAtMostOnce is kept only because the   *)
(* bitmap remembers exactly what was accepted inside the window, and       *)
(* because nothing above `highest` was accepted.                           *)
(***************************************************************************)
ReplayInv ==
    /\ ReplayTypeOK
    /\ AcceptedAtMostOnce
    /\ BitmapExact

(***************************************************************************)
(* A fresh AntiReplayWindow (antireplay.rs:67) has accepted nothing.       *)
(***************************************************************************)
LEMMA ReplayInitInv == ReplayInit => ReplayInv
  <1> SUFFICES ASSUME ReplayInit
               PROVE  ReplayInv
    BY Zenon
  <1>1. Accepted = {}
    BY DEF ReplayInit, Accepted
  <1>2. ReplayTypeOK
    BY AntiReplayAssumption DEF ReplayInit, ReplayTypeOK, new, Windows, SeqNo
  <1> QED
    BY <1>1, <1>2 DEF ReplayInit, ReplayInv, AcceptedAtMostOnce, BitmapExact, new

(***************************************************************************)
(* A packet that passes the check was not accepted before.                 *)
(***************************************************************************)
LEMMA FreshWhenOk ==
    ASSUME ReplayInv, NEW seq \in SeqNo, Check(window, seq) = "Ok"
    PROVE  seq \notin Accepted
  <1>1. /\ window.highest \in SeqNo /\ window.bitmap \subseteq Offset
        /\ window.initialised \in BOOLEAN
    BY Zenon DEF ReplayInv, ReplayTypeOK, Windows
  <1>2. CASE ~window.initialised
    BY Zenon, <1>2 DEF ReplayInv, BitmapExact
  <1>3. CASE window.initialised /\ seq > window.highest
    BY <1>1, <1>3 DEF ReplayInv, BitmapExact, SeqNo
  <1>4. CASE window.initialised /\ ~(seq > window.highest)
    <2>1. ~(window.highest - seq >= WINDOW_SIZE) /\ window.highest - seq \notin window.bitmap
      BY Zenon, <1>4 DEF Check
    <2>2. window.highest - seq \in Offset
      BY <1>1, <1>4, <2>1, AntiReplayAssumption DEF Offset, SeqNo
    <2>3. window.highest - (window.highest - seq) = seq
      BY <1>1 DEF SeqNo
    <2> QED
      BY Zenon, <2>1, <2>2, <2>3 DEF ReplayInv, BitmapExact
  <1> QED
    BY Zenon, <1>1, <1>2, <1>3, <1>4

(***************************************************************************)
(* check_and_update keeps the invariant, whatever packet the network       *)
(* presents.                                                               *)
(***************************************************************************)
LEMMA ReplayNextInv == ReplayInv /\ [ReplayNext]_replay_vars => ReplayInv'
  <1> SUFFICES ASSUME ReplayInv, [ReplayNext]_replay_vars
               PROVE  ReplayInv'
    BY Zenon
  <1>1. CASE UNCHANGED replay_vars
    BY Zenon, <1>1 DEF replay_vars, ReplayInv, ReplayTypeOK, AcceptedAtMostOnce, BitmapExact, Accepted
  <1>2. ASSUME NEW seq \in SeqNo, check_and_update(seq)
        PROVE  ReplayInv'
    <2>0. /\ window \in Windows
          /\ window.highest \in SeqNo /\ window.bitmap \subseteq Offset
          /\ window.initialised \in BOOLEAN
          /\ accepts \in [SeqNo -> Nat]
          /\ window.bitmap = {o \in Offset : window.highest - o \in Accepted}
          /\ \A s \in Accepted : s <= window.highest
          /\ Accepted \subseteq SeqNo
      BY Zenon DEF ReplayInv, ReplayTypeOK, Windows, BitmapExact, Accepted
    <2>1. CASE Check(window, seq) # "Ok"
      <3>1. window' = window /\ accepts' = accepts
        BY Zenon, <1>2, <2>1 DEF check_and_update, Update
      <3> QED
        BY Zenon, <3>1 DEF ReplayInv, ReplayTypeOK, AcceptedAtMostOnce, BitmapExact, Accepted
    <2>2. CASE Check(window, seq) = "Ok"
      <3>1. accepts' = [accepts EXCEPT ![seq] = @ + 1] /\ window' = Update(window, seq)
        BY Zenon, <1>2, <2>2 DEF check_and_update
      <3>2. seq \notin Accepted
        BY Zenon, <2>2, FreshWhenOk
      <3>3. Accepted' = Accepted \cup {seq}
        BY <2>0, <3>1 DEF Accepted
      <3>4. accepts' \in [SeqNo -> Nat] /\ AcceptedAtMostOnce'
        <4>1. accepts[seq] = 0
          BY <2>0, <3>2 DEF Accepted
        <4> QED
          BY <2>0, <3>1, <4>1 DEF ReplayInv, AcceptedAtMostOnce
      <3>5. 0 \in Offset
        BY AntiReplayAssumption DEF Offset
      <3>6. CASE ~window.initialised
        <4>1. window' = [initialised |-> TRUE, highest |-> seq, bitmap |-> {0}]
          BY Zenon, <2>2, <3>1, <3>6 DEF Update
        <4>2. Accepted' = {seq}
          BY Zenon, <3>3, <3>6 DEF ReplayInv, BitmapExact
        <4>3. {o \in Offset : seq - o \in {seq}} = {0}
          BY <3>5 DEF Offset, SeqNo
        <4>4. BitmapExact'
          BY <4>1, <4>2, <4>3 DEF BitmapExact, SeqNo
        <4>5. window' \in Windows
          BY Zenon, <3>5, <4>1 DEF Windows
        <4> QED
          BY Zenon, <3>4, <4>4, <4>5 DEF ReplayInv, ReplayTypeOK
      <3>7. CASE window.initialised /\ seq > window.highest
        <4>1. window' = Slide(window, seq)
          BY Zenon, <2>2, <3>1, <3>7 DEF Update
        <4>2. /\ window'.highest = seq /\ window'.initialised
              /\ window' \in Windows
          <5>1. window' \in Windows
            BY Zenon, <2>0, <3>1, UpdateIsWindow
          <5> QED
            BY Zenon, <2>0, <3>7, <4>1, <5>1 DEF Slide, Windows
        <4>3. window'.bitmap = {o \in Offset : seq - o \in Accepted \cup {seq}}
          <5>1. CASE seq - window.highest >= WINDOW_SIZE
            <6>1. window'.bitmap = {0}
              BY Zenon, <2>0, <4>1, <5>1 DEF Slide, Windows
            <6>2. ASSUME NEW o \in Offset, o # 0
                  PROVE  seq - o \notin Accepted \cup {seq}
              <7>1. seq - o > window.highest /\ seq - o # seq
                BY <2>0, <5>1, <6>2, AntiReplayAssumption DEF Offset, SeqNo
              <7> QED
                BY <2>0, <7>1, AntiReplayAssumption DEF SeqNo, Offset
            <6>3. seq - 0 = seq
              BY DEF SeqNo
            <6> QED
              BY Zenon, <3>5, <6>1, <6>2, <6>3
          <5>2. CASE ~(seq - window.highest >= WINDOW_SIZE)
            <6>1. window'.bitmap = ShiftLeft(window.bitmap, seq - window.highest) \cup {0}
              BY Zenon, <2>0, <4>1, <5>2 DEF Slide, Windows
            <6>2. ASSUME NEW o \in Offset, o # 0
                  PROVE  o - (seq - window.highest) \in window.bitmap
                            <=> seq - o \in Accepted \cup {seq}
              <7>1. seq - o # seq
                BY <6>2 DEF Offset, SeqNo
              <7>2. window.highest - (o - (seq - window.highest)) = seq - o
                BY <2>0 DEF Offset, SeqNo
              <7>3. CASE o - (seq - window.highest) \in Offset
                BY Zenon, <2>0, <7>1, <7>2, <7>3
              <7>4. CASE o - (seq - window.highest) \notin Offset
                <8>0. window.highest \in Int /\ seq \in Int /\ o \in Int /\ o < WINDOW_SIZE
                      /\ WINDOW_SIZE \in Int
                  BY <2>0, AntiReplayAssumption DEF Offset, SeqNo
                <8>1. seq - o > window.highest
                  BY <3>7, <7>4, <8>0 DEF Offset
                <8>2. seq - o \notin Accepted
                  BY <2>0, <8>1, AntiReplayAssumption DEF SeqNo, Offset
                <8> QED
                  BY Zenon, <2>0, <7>1, <7>4, <8>2
              <7> QED
                BY Zenon, <7>3, <7>4
            <6>3. seq - 0 = seq
              BY DEF SeqNo
            <6> QED
              BY Zenon, <3>5, <6>1, <6>2, <6>3 DEF ShiftLeft
          <5> QED
            BY Zenon, <5>1, <5>2
        <4>4. \A s \in Accepted' : s <= seq
          <5>1. \A s \in Accepted : s \in Int /\ s <= window.highest
            BY <2>0, AntiReplayAssumption DEF SeqNo
          <5>2. window.highest \in Int /\ seq \in Int
            BY <2>0, AntiReplayAssumption DEF SeqNo
          <5> QED
            BY <3>3, <3>7, <5>1, <5>2
        <4>5. BitmapExact'
          BY Zenon, <3>3, <4>2, <4>3, <4>4 DEF BitmapExact
        <4> QED
          BY Zenon, <3>4, <4>2, <4>5 DEF ReplayInv, ReplayTypeOK
      <3>8. CASE window.initialised /\ ~(seq > window.highest)
        <4>1. window' = [window EXCEPT !.bitmap = @ \cup {window.highest - seq}]
          BY Zenon, <2>2, <3>1, <3>8 DEF Update
        <4>2. window.highest - seq \in Offset
          BY <2>0, <2>2, <3>8, AntiReplayAssumption DEF Check, Offset, SeqNo
        <4>3. /\ window'.highest = window.highest /\ window'.initialised
              /\ window'.bitmap = window.bitmap \cup {window.highest - seq}
              /\ window' \in Windows
          BY Zenon, <2>0, <3>8, <4>1, <4>2 DEF Windows
        <4>4. \A o \in Offset : window.highest - o = seq <=> o = window.highest - seq
          BY <2>0, <4>2 DEF Offset, SeqNo
        <4>5. window'.bitmap = {o \in Offset : window.highest - o \in Accepted \cup {seq}}
          BY Zenon, <2>0, <4>2, <4>3, <4>4
        <4>6. \A s \in Accepted' : s <= window.highest
          <5>1. \A s \in Accepted : s <= window.highest
            BY Zenon, <2>0
          <5>2. seq <= window.highest
            BY <1>2, <2>0, <3>8 DEF SeqNo
          <5> QED
            BY Zenon, <3>3, <5>1, <5>2
        <4>7. BitmapExact'
          BY Zenon, <3>3, <4>3, <4>5, <4>6, <3>8 DEF ReplayInv, BitmapExact
        <4> QED
          BY Zenon, <3>4, <4>3, <4>7 DEF ReplayInv, ReplayTypeOK
      <3> QED
        BY Zenon, <2>0, <3>6, <3>7, <3>8
    <2> QED
      BY Zenon, <2>1, <2>2
  <1> QED
    BY Zenon, <1>1, <1>2 DEF ReplayNext

(***************************************************************************)
(* The window's fields keep their types.                                   *)
(***************************************************************************)
THEOREM ReplayTypeCorrect == ReplaySpec => []ReplayTypeOK
  <1>1. ReplayInv => ReplayTypeOK
    BY Zenon DEF ReplayInv
  <1> QED
    BY ReplayInitInv, ReplayNextInv, <1>1, PTL DEF ReplaySpec

(***************************************************************************)
(* A packet is refused only as a replay or as too old, and would_accept    *)
(* predicts check_and_update.                                              *)
(***************************************************************************)
LEMMA RefusalJustified == ReplayInv => RefusesOnlyReplays
  <1> SUFFICES ASSUME ReplayInv, NEW s \in SeqNo
               PROVE  /\ Check(window, s) = "Ok" <=> would_accept(window, s)
                      /\ Check(window, s) = "Duplicate" => s \in Accepted
                      /\ Check(window, s) = "OutOfWindow"
                            => s + WINDOW_SIZE <= window.highest
    BY Zenon DEF RefusesOnlyReplays
  <1>1. window.highest \in SeqNo /\ window.initialised \in BOOLEAN
    BY Zenon DEF ReplayInv, ReplayTypeOK, Windows
  <1>2. Check(window, s) = "Ok" <=> would_accept(window, s)
    BY <1>1, AntiReplayAssumption DEF Check, would_accept, SeqNo
  <1>3. Check(window, s) = "Duplicate" => s \in Accepted
    <2> SUFFICES ASSUME Check(window, s) = "Duplicate"
                 PROVE  s \in Accepted
      BY Zenon
    <2>1. window.highest - s \in window.bitmap
      BY Zenon DEF Check
    <2>2. window.highest - (window.highest - s) = s
      BY <1>1 DEF SeqNo
    <2> QED
      BY Zenon, <2>1, <2>2 DEF ReplayInv, BitmapExact
  <1>4. Check(window, s) = "OutOfWindow" => s + WINDOW_SIZE <= window.highest
    BY <1>1, AntiReplayAssumption DEF Check, SeqNo
  <1> QED
    BY Zenon, <1>2, <1>3, <1>4

(***************************************************************************)
(* check_and_update lets every sequence number through at most once        *)
(* (antireplay.rs:5-6), its bitmap holds exactly the accepted sequence     *)
(* numbers of the window through every shift, and a packet is refused only *)
(* as a replay or as too old.                                              *)
(***************************************************************************)
THEOREM ExactWindow == ReplaySpec => []WindowIsExact
  <1>1. ReplayInv => WindowIsExact
    BY Zenon, RefusalJustified DEF ReplayInv, WindowIsExact
  <1> QED
    BY ReplayInitInv, ReplayNextInv, <1>1, PTL DEF ReplaySpec

----------------------------------------------------------------------------
(* net/watcher.rs: what the caller knows of the watched. *)

LinkStates == {"up", "down", "gone"}
News == UNION {UNION {Announcements(l, s) : s \in LinkStates} : l \in Watched}
Datagrams == [msgs : News, long : BOOLEAN]

\* The link a datagram is about, and whether its event will be LinkUp.
About(d) == d.msgs[Len(d.msgs)].name
Says(d) == LinkUp(d.msgs[Len(d.msgs)])

Tells(d, l, s) ==
    /\ About(d) = l /\ (Says(d) <=> s = "up") /\ Says(d) \in BOOLEAN
    /\ ~d.long => \A v : Applied(v, parse_events(d)) =
                            [k \in Watched |-> IF k = l THEN Says(d) ELSE v[k]]

\* A datagram holds one link message, the last: its event is the news, an
\* interface that is gone counting as down whatever flags it had.
LEMMA NewsIsApplied ==
  ASSUME NEW l \in Watched, NEW s \in LinkStates, NEW m \in Announcements(l, s), NEW b \in BOOLEAN
  PROVE  Tells([msgs |-> m, long |-> b], l, s)
  <1> DEFINE d == [msgs |-> m, long |-> b]
  <1>1. PICK n : /\ n.name = l
                 /\ n.type \in {"NEWLINK", "DELLINK"} /\ LinkUp(n) \in BOOLEAN
                 /\ LinkUp(n) <=> s = "up"
                 /\ \/ m = <<n>>
                    \/ m = <<[type |-> "other", name |-> l, up |-> TRUE], n>>
    BY Zenon DEF Announcements, LinkUp, LinkStates
  <1>2. d.msgs = m /\ d.long = b
    BY Zenon
  <1>3. m[Len(m)] = n /\ Len(m) \in 1 .. 2
    <2>1. CASE m = <<n>>
      BY <2>1
    <2>2. CASE m = <<[type |-> "other", name |-> l, up |-> TRUE], n>>
      BY <2>2
    <2> QED
      BY Zenon, <1>1, <2>1, <2>2
  <1>4. About(d) = l /\ Says(d) = LinkUp(n)
    BY Zenon, <1>1, <1>2, <1>3 DEF About, Says
  <1>5. ASSUME ~b, NEW v
        PROVE  Applied(v, parse_events(d)) = [k \in Watched |-> IF k = l THEN Says(d) ELSE v[k]]
    <2> DEFINE e == parse_events(d)
    <2>1. {i \in 1 .. Len(d.msgs) - (IF d.long THEN 1 ELSE 0) :
               d.msgs[i].type \in {"NEWLINK", "DELLINK"}} = {Len(m)}
      <3>1. Len(d.msgs) - (IF d.long THEN 1 ELSE 0) = Len(m)
        BY <1>2, <1>3, <1>5
      <3>2. ASSUME NEW i \in 1 .. Len(m)
            PROVE  m[i].type \in {"NEWLINK", "DELLINK"} <=> i = Len(m)
        <4>1. CASE m = <<n>>
          <5>1. Len(m) = 1 /\ i = 1 /\ m[1] = n
            BY <4>1
          <5> QED
            BY Zenon, <1>1, <5>1
        <4>2. CASE m = <<[type |-> "other", name |-> l, up |-> TRUE], n>>
          <5>1. Len(m) = 2 /\ i \in {1, 2} /\ m[1].type = "other" /\ m[2] = n
            BY <4>2
          <5>2. "other" \notin {"NEWLINK", "DELLINK"} /\ 1 # 2
            OBVIOUS
          <5> QED
            BY Zenon, <1>1, <5>1, <5>2
        <4> QED
          BY Zenon, <1>1, <4>1, <4>2
      <3>3. Len(m) \in 1 .. Len(m)
        BY <1>3
      <3> QED
        BY Zenon, <1>2, <3>1, <3>2, <3>3
    <2>2. DOMAIN e = {Len(m)} /\ e[Len(m)] = [name |-> l, up |-> LinkUp(n)]
      BY Zenon, <1>1, <1>2, <1>3, <2>1 DEF parse_events
    <2> HIDE DEF e, d
    <2>3. e[Len(m)].name = l /\ e[Len(m)].up = LinkUp(n)
      BY <2>2
    <2>4. ASSUME NEW k \in Watched
          PROVE  Applied(v, e)[k] = IF k = l THEN LinkUp(n) ELSE v[k]
      <3> DEFINE mine == {i \in DOMAIN e : e[i].name = k}
      <3>1. mine = IF k = l THEN {Len(m)} ELSE {}
        BY Zenon, <2>2, <2>3
      <3>2. k = l => (CHOOSE i \in mine : \A j \in mine : j <= i) = Len(m)
        BY <1>3, <3>1
      <3>3. Applied(v, e)[k] = IF mine = {} THEN v[k]
                               ELSE e[CHOOSE i \in mine : \A j \in mine : j <= i].up
        BY <2>4, Zenon DEF Applied
      <3> HIDE DEF mine
      <3> QED
        BY Zenon, <2>3, <3>1, <3>2, <3>3
    <2>5. Applied(v, e) = [k \in Watched |-> Applied(v, e)[k]]
      BY DEF Applied
    <2> QED
      BY <1>4, <2>4, <2>5, Zenon DEF e
  <1> QED
    BY Zenon, <1>1, <1>2, <1>4, <1>5 DEF Tells

WatchTypeOK ==
    /\ watched \in [Watched -> LinkStates] /\ queue \in Seq(Datagrams)
    /\ told \in BOOLEAN /\ overrun \in BOOLEAN /\ cut \in BOOLEAN

\* Whether the caller will hold l up once the queue is drained.
NoNews(l) == \A i \in DOMAIN queue : About(queue[i]) # l
LastWord(l, i) ==
    i \in DOMAIN queue /\ About(queue[i]) = l /\ \A j \in DOMAIN queue : i < j => About(queue[j]) # l

(***************************************************************************)
(* As long as nothing was lost, the last datagram about a link in the      *)
(* queue says how the link is; without one the caller already knows.       *)
(***************************************************************************)
WatchInv ==
    /\ WatchTypeOK
    /\ ~told /\ ~overrun /\ ~cut =>
           \A l \in Watched :
               /\ NoNews(l) => (view[l] <=> watched[l] = "up")
               /\ \A i : LastWord(l, i) => (Says(queue[i]) <=> watched[l] = "up")

\* The caller starts with the interfaces as they are.
LEMMA WatchInitInv == WatchInit => WatchInv
  <1> SUFFICES ASSUME WatchInit PROVE WatchInv
    BY Zenon
  <1>1. queue = <<>> /\ watched \in [Watched -> LinkStates]
    BY Zenon DEF WatchInit, LinkStates
  <1>2. told \in BOOLEAN /\ overrun \in BOOLEAN /\ cut \in BOOLEAN
    BY Zenon DEF WatchInit
  <1>3. \A l \in Watched : view[l] <=> watched[l] = "up"
    BY Zenon DEF WatchInit
  <1>4. \A l, i : ~LastWord(l, i)
    BY <1>1 DEF LastWord
  <1> QED
    BY <1>1, <1>2, <1>3, <1>4 DEF WatchInv, WatchTypeOK

\* A change of a link is announced behind all others, or the loss is.
LEMMA LinkChangesInv ==
  ASSUME WatchInv, NEW l \in Watched, link_changes(l)
  PROVE  WatchInv'
  <1>1. PICK s \in LinkStates : /\ s # watched[l] /\ watched' = [watched EXCEPT ![l] = s]
                                /\ \/ /\ \E m \in Announcements(l, s), b \in BOOLEAN :
                                             queue' = Append(queue, [msgs |-> m, long |-> b])
                                      /\ overrun' = overrun
                                   \/ overrun' = TRUE /\ queue' = queue
    BY Zenon DEF link_changes, LinkStates
  <1>2. view' = view /\ told' = told /\ cut' = cut
    BY Zenon DEF link_changes
  <1>3. /\ watched \in [Watched -> LinkStates] /\ queue \in Seq(Datagrams)
        /\ told \in BOOLEAN /\ overrun \in BOOLEAN /\ cut \in BOOLEAN
    BY Zenon DEF WatchInv, WatchTypeOK
  <1>4. watched' \in [Watched -> LinkStates]
    BY Zenon, <1>1, <1>3
  <1>5. CASE overrun' = TRUE /\ queue' = queue
    BY Zenon, <1>2, <1>3, <1>4, <1>5 DEF WatchInv, WatchTypeOK
  <1>6. ASSUME overrun' = overrun, NEW m \in Announcements(l, s), NEW b \in BOOLEAN,
               queue' = Append(queue, [msgs |-> m, long |-> b])
        PROVE  WatchInv'
    <2> DEFINE d == [msgs |-> m, long |-> b]
    <2>1. About(d) = l /\ (Says(d) <=> s = "up")
      BY Zenon, NewsIsApplied DEF Tells
    <2>2. d \in Datagrams
      <3>1. m \in News
        BY DEF News
      <3> QED
        BY Zenon, <3>1 DEF Datagrams
    <2>3. queue' = Append(queue, d)
      BY Zenon, <1>6
    <2> HIDE DEF d
    <2>4. queue' \in Seq(Datagrams)
      BY <1>3, <2>2, <2>3
    <2>5. WatchTypeOK'
      BY Zenon, <1>2, <1>3, <1>4, <1>6, <2>4 DEF WatchTypeOK
    <2>6. /\ Len(queue) \in Nat /\ DOMAIN queue = 1 .. Len(queue)
          /\ DOMAIN queue' = 1 .. Len(queue) + 1
          /\ queue'[Len(queue) + 1] = d /\ \A i \in 1 .. Len(queue) : queue'[i] = queue[i]
      BY SMTT(40), <1>3, <2>2, <2>3
    <2>7. ASSUME ~told, ~overrun, ~cut, NEW k \in Watched
          PROVE  /\ NoNews(k)' => (view'[k] <=> watched'[k] = "up")
                 /\ \A i : LastWord(k, i)' => (Says(queue'[i]) <=> watched'[k] = "up")
      <3>1. CASE k = l
        <4>1. watched'[k] = s
          BY Zenon, <1>1, <1>3, <3>1
        <4>2. About(queue'[Len(queue) + 1]) = k
          BY Zenon, <2>1, <2>6, <3>1
        <4>3. ~NoNews(k)'
          BY SMTT(40), <2>6, <4>2 DEF NoNews
        <4>4. ASSUME NEW i, LastWord(k, i)' PROVE i = Len(queue) + 1
          BY <2>6, <4>2, <4>4 DEF LastWord
        <4> QED
          BY Zenon, <2>1, <2>6, <4>1, <4>3, <4>4
      <3>2. CASE k # l
        <4>1. watched'[k] = watched[k]
          BY Zenon, <1>1, <1>3, <3>2
        <4>2. About(queue'[Len(queue) + 1]) # k
          BY Zenon, <2>1, <2>6, <3>2
        <4>3. NoNews(k)' => NoNews(k)
          BY SMTT(40), <2>6 DEF NoNews
        <4>4. ASSUME NEW i, LastWord(k, i)' PROVE LastWord(k, i) /\ queue'[i] = queue[i]
          <5>1. i \in 1 .. Len(queue)
            BY SMTT(40), <2>6, <4>2, <4>4 DEF LastWord
          <5> QED
            BY SMTT(40), <2>6, <4>4, <5>1 DEF LastWord
        <4>5. /\ NoNews(k) => (view[k] <=> watched[k] = "up")
              /\ \A i : LastWord(k, i) => (Says(queue[i]) <=> watched[k] = "up")
          BY Zenon, <2>7 DEF WatchInv
        <4> QED
          BY Zenon, <1>2, <4>1, <4>3, <4>4, <4>5
      <3> QED
        BY Zenon, <3>1, <3>2
    <2> QED
      BY Zenon, <1>2, <1>6, <2>5, <2>7 DEF WatchInv
  <1> QED
    BY Zenon, <1>1, <1>5, <1>6

\* drain_once applies the oldest news, and reports a loss.
LEMMA DrainOnceInv ==
  ASSUME WatchInv, drain_once
  PROVE  WatchInv'
  <1>0. /\ watched \in [Watched -> LinkStates] /\ queue \in Seq(Datagrams)
        /\ told \in BOOLEAN /\ overrun \in BOOLEAN /\ cut \in BOOLEAN
    BY Zenon DEF WatchInv, WatchTypeOK
  <1>1. CASE overrun /\ overrun' = FALSE /\ told' = TRUE /\ UNCHANGED <<watched, queue, view, cut>>
    <2>1. told' \in BOOLEAN /\ overrun' \in BOOLEAN
      BY <1>1, Zenon
    <2> QED
      BY Zenon, <1>0, <1>1, <2>1 DEF WatchInv, WatchTypeOK
  <1>2. CASE /\ ~overrun /\ queue # <<>>
             /\ queue' = Tail(queue) /\ view' = Applied(view, parse_events(Head(queue)))
             /\ cut' = (cut \/ Head(queue).long)
             /\ UNCHANGED <<watched, overrun, told>>
    <2> DEFINE d == queue[1]
    <2>1. /\ Len(queue) \in Nat /\ Len(queue) >= 1 /\ DOMAIN queue = 1 .. Len(queue)
          /\ Head(queue) = d /\ d \in Datagrams
          /\ DOMAIN queue' = 1 .. Len(queue) - 1 /\ queue' \in Seq(Datagrams)
          /\ \A i \in 1 .. Len(queue) - 1 : queue'[i] = queue[i + 1]
      BY <1>0, <1>2
    <2> HIDE DEF d
    <2>2. PICK l \in Watched, s \in LinkStates : \E m \in Announcements(l, s), b \in BOOLEAN :
              d = [msgs |-> m, long |-> b]
      <3>1. PICK m \in News, b \in BOOLEAN : d = [msgs |-> m, long |-> b]
        BY Zenon, <2>1 DEF Datagrams
      <3>2. PICK l \in Watched, s \in LinkStates : m \in Announcements(l, s)
        BY <3>1 DEF News
      <3> QED
        BY <3>1, <3>2, Zenon
    <2>a. PICK m \in Announcements(l, s), b \in BOOLEAN : d = [msgs |-> m, long |-> b]
      BY Zenon, <2>2
    <2>3. d.long = b
      BY Zenon, <2>a
    <2>b. Tells(d, l, s)
      BY <2>a, NewsIsApplied, Zenon
    <2>4. /\ About(d) = l
          /\ ~b => \A v : Applied(v, parse_events(d)) =
                              [k \in Watched |-> IF k = l THEN Says(d) ELSE v[k]]
      BY <2>3, <2>b, Zenon DEF Tells
    <2>5. cut' \in BOOLEAN /\ (~cut' => ~cut /\ ~b)
      BY <1>0, <1>2, <2>1, <2>3, Zenon
    <2>6. WatchTypeOK'
      BY Zenon, <1>0, <1>2, <2>1, <2>5 DEF WatchTypeOK
    <2>7. ASSUME ~told, ~overrun, ~cut, ~b, NEW k \in Watched
          PROVE  /\ NoNews(k)' => (view'[k] <=> watched[k] = "up")
                 /\ \A i : LastWord(k, i)' => (Says(queue'[i]) <=> watched[k] = "up")
      <3>1. view' = [q \in Watched |-> IF q = l THEN Says(d) ELSE view[q]]
        BY <1>2, <2>1, <2>4, <2>7, Zenon
      <3>2. view'[k] = IF k = l THEN Says(d) ELSE view[k]
        BY <3>1, Zenon
      <3>3. /\ NoNews(k) => (view[k] <=> watched[k] = "up")
            /\ \A i : LastWord(k, i) => (Says(queue[i]) <=> watched[k] = "up")
        BY Zenon, <2>7 DEF WatchInv
      <3>4. ASSUME NEW i, LastWord(k, i)' PROVE LastWord(k, i + 1) /\ queue'[i] = queue[i + 1]
        <4>1. i \in 1 .. Len(queue) - 1 /\ About(queue'[i]) = k
          BY Zenon, <2>1, <3>4 DEF LastWord
        <4>2. ASSUME NEW j \in DOMAIN queue, i + 1 < j PROVE About(queue[j]) # k
          <5>1. j - 1 \in 1 .. Len(queue) - 1 /\ i < j - 1 /\ (j - 1) + 1 = j
            BY SMTT(40), <2>1, <4>1, <4>2
          <5>2. queue'[j - 1] = queue[j]
            BY Zenon, <2>1, <5>1
          <5> QED
            BY Zenon, <2>1, <3>4, <5>1, <5>2 DEF LastWord
        <4> QED
          BY SMTT(40), <2>1, <4>1, <4>2 DEF LastWord
      <3>5. ASSUME NoNews(k)' PROVE IF k = l THEN LastWord(k, 1) ELSE NoNews(k)
        <4>1. ASSUME NEW j \in DOMAIN queue, 1 < j PROVE About(queue[j]) # k
          <5>1. j - 1 \in 1 .. Len(queue) - 1 /\ (j - 1) + 1 = j
            BY <2>1, <4>1
          <5>2. queue'[j - 1] = queue[j]
            BY Zenon, <2>1, <5>1
          <5> QED
            BY Zenon, <2>1, <3>5, <5>1, <5>2 DEF NoNews
        <4>2. About(queue[1]) = l /\ 1 \in DOMAIN queue
          BY SMTT(40), <2>1, <2>4 DEF d
        <4> QED
          BY SMTT(40), <2>1, <4>1, <4>2 DEF LastWord, NoNews
      <3> QED
        BY Zenon, <3>2, <3>3, <3>4, <3>5 DEF d
    <2> QED
      BY Zenon, <1>2, <2>5, <2>6, <2>7 DEF WatchInv
  <1> QED
    BY Zenon, <1>1, <1>2 DEF drain_once

\* Every change and every datagram read keeps the invariant.
LEMMA WatchNextInv == WatchInv /\ [WatchNext]_watch_vars => WatchInv'
  <1>1. ASSUME WatchInv, UNCHANGED watch_vars PROVE WatchInv'
    BY Zenon, <1>1 DEF watch_vars, WatchInv, WatchTypeOK, NoNews, LastWord
  <1> QED
    BY Zenon, <1>1, LinkChangesInv, DrainOnceInv DEF WatchNext

----------------------------------------------------------------------------
(* net/iface.rs: what list() returns. *)

\* n was up since the call began.
Steady(n) == seen[n] \subseteq UpStates
Found(n) == n \in DOMAIN listing /\ listing[n].up

ListTypeOK ==
    /\ os \in {"linux", "windows", "unix"}
    /\ step \in {"idle", "names", "addresses", "table"}
    /\ ifaces \in [Names -> IfaceStates] /\ seen \in [Names -> SUBSET IfaceStates]

(***************************************************************************)
(* On Linux an interface that was up throughout is among the names still   *)
(* to be read or has been found; a state an interface is in has been seen. *)
(***************************************************************************)
ListInv ==
    /\ ListTypeOK /\ ListingMatches
    /\ \A n \in Names : ifaces[n] \in seen[n]
    /\ DOMAIN listing \subseteq Names
    /\ step \in {"names", "addresses"} => os = "linux"
    /\ step = "names" => todo \subseteq Names /\ \A n \in Names : Steady(n) => n \in todo \/ Found(n)
    /\ step = "addresses" => \A n \in Names : Steady(n) => Found(n)
    /\ step = "table" => os = "windows"

\* What the three listings make of an interface's state.
LEMMA Flags ==
  /\ ~NoFlags.up /\ ~iface_is_bondable(NoFlags)
  /\ \A n : /\ from_linux_bits(n).up <=> ifaces[n] \in UpStates
            /\ ~iface_is_bondable(from_linux_bits(n))
  /\ \A n : /\ adapter_flags(n).up <=> ifaces[n] \in UpStates
            /\ iface_is_bondable(adapter_flags(n)) <=> ifaces[n] \in UpStates /\ n \notin Loopbacks
  BY Zenon DEF iface_is_bondable, NoFlags, from_linux_bits, adapter_flags

\* An interface that is gone is not up.
LEMMA GoneIsNotUp == \A n : ifaces[n] \in UpStates => ifaces[n] # "gone"
  BY DEF UpStates

\* No call yet.
LEMMA ListInitInv == ListInit => ListInv
  <1> SUFFICES ASSUME ListInit PROVE ListInv
    BY Zenon
  <1>1. DOMAIN listing = {}
    BY Zenon DEF ListInit, NoListing
  <1>2. ListTypeOK
    BY Zenon DEF ListInit, ListTypeOK, IfaceStates
  <1> QED
    BY Zenon, <1>1, <1>2 DEF ListInit, ListInv, ListingMatches

\* list() starts a call, with the states seen at its start.
LEMMA ListCallInv == ListInv /\ list => ListInv'
  <1> SUFFICES ASSUME ListInv, list PROVE ListInv'
    BY Zenon
  <1>1. /\ os' = os /\ ifaces' = ifaces /\ step = "idle" /\ UpStates' = UpStates
        /\ seen' = [n \in Names |-> {ifaces[n]}]
    BY Zenon DEF list, UpStates
  <1>2. ListTypeOK'
    BY <1>1 DEF list, ListInv, ListTypeOK
  <1>3. \A n \in Names : ifaces'[n] \in seen'[n] /\ (Steady(n)' => n \in Present)
    BY Zenon, <1>1, GoneIsNotUp DEF Steady, Present
  <1>4. DOMAIN NoListing = {}
    BY Zenon DEF NoListing
  <1>5. CASE listing' = NoListing /\ step' = "names" /\ os = "linux" /\ todo' = Present
    <2>1. todo' \subseteq Names
      BY Zenon, <1>5 DEF Present
    <2> QED
      BY Zenon, <1>1, <1>2, <1>3, <1>4, <1>5, <2>1 DEF ListInv, ListingMatches
  <1>6. CASE listing' = NoListing /\ step' = "table" /\ os = "windows"
    BY Zenon, <1>1, <1>2, <1>3, <1>4, <1>6 DEF ListInv, ListingMatches
  <1>7. CASE os = "unix" /\ listing' = [n \in Present |-> NoFlags] /\ step' = step
    <2>1. /\ DOMAIN listing' = Present /\ Present \subseteq Names
          /\ \A n \in Present : ~listing'[n].up /\ ~iface_is_bondable(listing'[n])
      BY Zenon, <1>7, Flags DEF Present
    <2> QED
      BY Zenon, <1>1, <1>2, <1>3, <1>7, <2>1 DEF ListInv, ListingMatches
  <1>8. CASE failed' = TRUE /\ listing' = NoListing /\ step' = step
    BY Zenon, <1>1, <1>2, <1>3, <1>4, <1>8 DEF ListInv, ListingMatches
  <1> QED
    BY Zenon, <1>5, <1>6, <1>7, <1>8 DEF list

\* The files of n: an interface that was up throughout is found.
LEMMA ReadSysInv ==
  ASSUME ListInv, NEW n \in Names, read_sys(n)
  PROVE  ListInv'
  <1>1. /\ os' = os /\ ifaces' = ifaces /\ seen' = seen /\ failed' = failed /\ os = "linux"
        /\ step = "names" /\ step' \in {"names", "addresses"} /\ UpStates' = UpStates
        /\ todo' = todo \ {n} /\ (step' = "addresses" => todo' = {})
    BY Zenon DEF read_sys, ListInv, UpStates
  <1>2. /\ DOMAIN listing' = DOMAIN listing \cup {n}
        /\ listing'[n] = read_sys_flags(n)
        /\ \A m \in DOMAIN listing : m # n => listing'[m] = listing[m]
    BY Zenon DEF read_sys
  <1>3. /\ listing'[n].up <=> ifaces[n] \in UpStates
        /\ ~iface_is_bondable(listing'[n])
    BY Zenon, <1>2, Flags, GoneIsNotUp DEF read_sys_flags
  <1>4. ListTypeOK'
    BY Zenon, <1>1 DEF ListInv, ListTypeOK
  <1>5. ASSUME NEW m \in Names, Steady(m)' PROVE m \in todo' \/ Found(m)'
    <2>1. ifaces[m] \in UpStates /\ (m \in todo \/ Found(m))
      BY Zenon, <1>1, <1>5 DEF ListInv, Steady
    <2> QED
      BY Zenon, <1>1, <1>2, <1>3, <2>1 DEF Found
  <1>6. ASSUME NEW m \in DOMAIN listing'
        PROVE  /\ listing'[m].up => seen'[m] \cap UpStates' # {}
               /\ ~iface_is_bondable(listing'[m])
    <2>1. CASE m = n
      BY Zenon, <1>1, <1>3, <2>1 DEF ListInv
    <2>2. CASE m # n
      BY Zenon, <1>1, <1>2, <2>2 DEF ListInv, ListingMatches
    <2> QED
      BY Zenon, <2>1, <2>2
  <1>7. ListingMatches' /\ DOMAIN listing' \subseteq Names
    BY Zenon, <1>1, <1>2, <1>6 DEF ListInv, ListingMatches
  <1> QED
    BY Zenon, <1>1, <1>4, <1>5, <1>7 DEF ListInv

\* A change during the call only adds to the states seen.
LEMMA HotplugInv ==
  ASSUME ListInv, NEW n \in Names, hotplug(n)
  PROVE  ListInv'
  <1>1. PICK s \in IfaceStates : /\ s # ifaces[n] /\ ifaces' = [ifaces EXCEPT ![n] = s]
                            /\ seen' = [seen EXCEPT ![n] = @ \cup {s}]
    BY Zenon DEF hotplug
  <1>2. /\ os' = os /\ step' = step /\ todo' = todo /\ listing' = listing /\ failed' = failed
        /\ step # "idle" /\ UpStates' = UpStates
    BY Zenon DEF hotplug, UpStates
  <1>3. ListTypeOK'
    BY Zenon, <1>1, <1>2 DEF ListInv, ListTypeOK
  <1>4. \A m \in Names : ifaces'[m] \in seen'[m] /\ seen[m] \subseteq seen'[m]
    BY Zenon, <1>1 DEF ListInv, ListTypeOK
  <1>5. ASSUME NEW m \in Names, Steady(m)' PROVE Steady(m)
    BY Zenon, <1>2, <1>4, <1>5 DEF Steady
  <1>6. ListingMatches'
    BY Zenon, <1>2, <1>4 DEF ListInv, ListingMatches
  <1> QED
    BY Zenon, <1>2, <1>3, <1>4, <1>5, <1>6 DEF ListInv, Found

\* The calls that end a listing, and the one that finds no names.
LEMMA ListEndsInv ==
  ASSUME ListInv,
         read_none \/ read_entry_fails \/ getifaddrs_addresses \/ GetAdaptersAddresses
  PROVE  ListInv'
  <1>1. /\ os' = os /\ ifaces' = ifaces /\ seen' = seen /\ UpStates' = UpStates
        /\ step' \in {"idle", "addresses"}
    BY Zenon DEF read_none, read_entry_fails, getifaddrs_addresses, GetAdaptersAddresses, UpStates
  <1>2. ListTypeOK'
    BY Zenon, <1>1 DEF ListInv, ListTypeOK
  <1>3. DOMAIN NoListing = {}
    BY Zenon DEF NoListing
  <1>4. CASE read_none
    BY Zenon, <1>1, <1>2, <1>4 DEF read_none, ListInv, ListingMatches, Steady, Found
  <1>5. CASE listing' = NoListing /\ failed' = TRUE /\ step' = "idle"
    BY Zenon, <1>1, <1>2, <1>3, <1>5 DEF ListInv, ListingMatches
  <1>6. CASE getifaddrs_addresses /\ listing' = listing
    BY Zenon, <1>1, <1>2, <1>6 DEF getifaddrs_addresses, ListInv, ListingMatches, Steady, Found
  <1>7. CASE GetAdaptersAddresses /\ listing' = [n \in Present |-> adapter_flags(n)]
    <2>1. step' = "idle" /\ os = "windows" /\ Present \subseteq Names
      BY Zenon, <1>7 DEF GetAdaptersAddresses, ListInv, Present
    <2>2. /\ DOMAIN listing' = Present
          /\ \A n \in Present :
                /\ listing'[n].up <=> ifaces[n] \in UpStates
                /\ iface_is_bondable(listing'[n]) <=> ifaces[n] \in UpStates /\ n \notin Loopbacks
      BY Zenon, <1>7, Flags
    <2>3. ASSUME NEW n \in Names, seen[n] \subseteq UpStates
          PROVE  n \in Present /\ ifaces[n] \in UpStates
      BY Zenon, <2>3, GoneIsNotUp DEF ListInv, Present
    <2>4. ListingMatches'
      BY Zenon, <1>1, <2>1, <2>2, <2>3 DEF ListInv, ListingMatches
    <2> QED
      BY Zenon, <1>1, <1>2, <2>1, <2>2, <2>4 DEF ListInv
  <1> QED
    BY Zenon, <1>4, <1>5, <1>6, <1>7
       DEF read_entry_fails, getifaddrs_addresses, GetAdaptersAddresses

\* Every call and every change between two of them keeps the invariant.
LEMMA ListNextInv == ListInv /\ [ListNext]_list_vars => ListInv'
  <1>1. ASSUME ListInv, UNCHANGED list_vars PROVE ListInv'
    BY Zenon, <1>1 DEF list_vars, ListInv, ListTypeOK, ListingMatches, Steady, Found, UpStates
  <1> QED
    BY Zenon, <1>1, ListCallInv, ReadSysInv, HotplugInv, ListEndsInv DEF ListNext

(***************************************************************************)
(* InterfacesAreKnown always: once the watcher's socket is drained, with   *)
(* nothing lost on the way, the caller's view is what the kernel has; and  *)
(* list() shows an interface as up only if it was up during the call,      *)
(* misses none that was up throughout, and makes bondable only what        *)
(* Windows reports as running (watcher.rs, iface.rs).                      *)
(***************************************************************************)
THEOREM InterfacesKnown == KnownSpec => []InterfacesAreKnown
  <1>1. KnownInit => WatchInv /\ ListInv
    BY Zenon, WatchInitInv, ListInitInv DEF KnownInit
  <1>2. WatchInv /\ ListInv /\ [KnownNext]_known_vars => WatchInv' /\ ListInv'
    <2> SUFFICES ASSUME WatchInv, ListInv, [KnownNext]_known_vars PROVE WatchInv' /\ ListInv'
      BY Zenon
    <2>1. [WatchNext]_watch_vars /\ [ListNext]_list_vars
      BY Zenon DEF KnownNext, known_vars
    <2> QED
      BY Zenon, <2>1, WatchNextInv, ListNextInv
  <1>3. WatchInv => ViewMatches
    BY DEF WatchInv, WatchTypeOK, NoNews, ViewMatches
  <1>4. ListInv => ListingMatches
    BY Zenon DEF ListInv
  <1> QED
    BY <1>1, <1>2, <1>3, <1>4, PTL DEF KnownSpec, InterfacesAreKnown

=============================================================================
