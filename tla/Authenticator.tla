---------------------------- MODULE Authenticator ---------------------------
(***************************************************************************)
(* Who the server's authenticators let in (desmos-core/src/auth): the      *)
(* pre-shared key, the list of public keys, and client certificates with   *)
(* a revocation list.  Credentials are made for one handshake and may      *)
(* arrive late, in another one, or again; the clock goes on meanwhile.     *)
(* The one-time codes of auth/totp.rs, in strict mode (reject_replay), are *)
(* a part of their own: logins on several threads, a moving clock, and the *)
(* last accepted step in an atomic that is loaded and later stored.        *)
(*                                                                         *)
(* Signatures and hashes are ideal.  Certificates are records and times    *)
(* numbers; DER, calendar dates and the matching of inner and outer        *)
(* algorithms are left out.                                                *)
(***************************************************************************)
EXTENDS Integers, Sequences, FiniteSets

CONSTANTS
    Methods,        \* subset of {"psk", "pubkey", "mtls"}
    Transcripts,    \* transcript hashes
    Holders,        \* [static, psk, cert]: what a client has
    allowed,        \* the public keys listed
    psk,            \* the configured secret
    ca,             \* [key, from, to]
    Lists,          \* revocation lists: serials, "broken" for an entry that
                    \* does not parse
    MaxTime,        \* bound: the clock
    MaxMade,        \* bound: credentials made
    Threads,
    skew_window,    \* steps before and after the current one
    CodeOf,         \* CodeOf[s]: compute_totp of step s; two steps may collide
    MaxLogins       \* logins in a behaviour

\* Times are seconds, steps are counted from 0.
ASSUME AuthAssumption ==
    /\ Methods \subseteq {"psk", "pubkey", "mtls"} /\ Lists \subseteq Seq(STRING)
    /\ ca.from \in Nat /\ ca.to \in Nat
    /\ \A c \in Holders : c.cert.from \in Nat /\ c.cert.to \in Nat
    /\ DOMAIN CodeOf \subseteq Nat /\ skew_window \in Nat

VARIABLES
    method,
    crl,
    time,           \* the server's clock
    made,           \* credentials clients have made
    results         \* what authenticate returned last

method_vars == <<method, crl, time, made, results>>

verify_signed_by(cert, issuer) == cert.issuer = issuer.key
is_valid_at(cert, t) == t >= cert.from /\ t <= cert.to

\* The walk ends at an entry it cannot read.
is_revoked(serial) ==
    \E i \in DOMAIN crl : crl[i] = serial /\ \A j \in 1 .. i : crl[j] # "broken"

verify(key, h, sig) == sig.key = key /\ sig.over = h

\* MtlsAuthenticator::authenticate
authenticate_mtls(h, cred) ==
    IF \/ ~verify_signed_by(cred.cert, ca)
       \/ cred.cert.alg # "ed25519"
       \/ ~verify(cred.cert.key, h, cred.sig)
       \/ ~is_valid_at(cred.cert, time)
    THEN "rejected"
    ELSE IF ~is_valid_at(ca, time) THEN "misconfigured"
    ELSE IF is_revoked(cred.cert.serial) THEN "rejected"
    ELSE "ok"

\* PresharedKey::authenticate
authenticate_psk(cred) == IF cred.psk = psk THEN "ok" ELSE "rejected"

\* PublicKeyList::authenticate; static is proved by the Noise handshake.
authenticate_pubkey(static) == IF allowed = {} \/ static \in allowed THEN "ok" ELSE "rejected"

MethodInit ==
    method \in Methods /\ crl \in Lists /\ time = 0 /\ made = {} /\ results = {}

\* external: a client makes a credential for a handshake.  Certificates are
\* public, so it may show the one of any holder, its own included; it has
\* its own secret and its own private key to sign with.
make(c, holder, h) ==
    /\ Cardinality(made) < MaxMade
    /\ made' = made \cup {[client |-> c, cert |-> holder.cert, psk |-> c.psk,
                           sig |-> [key |-> c.cert.key, over |-> h]]}
    /\ UNCHANGED <<method, crl, time, results>>

\* The handshake h is that of the client c; the credential is any there is.
authenticate(c, h, cred) ==
    LET r == CASE method = "mtls" -> authenticate_mtls(h, cred)
               [] method = "psk" -> authenticate_psk(cred)
               [] method = "pubkey" -> authenticate_pubkey(c.static)
    IN  /\ results' = {[is |-> r, client |-> c, h |-> h, cred |-> cred, at |-> time]}
        /\ UNCHANGED <<method, crl, time, made>>

time_passes ==
    /\ time < MaxTime
    /\ time' = time + 1
    /\ UNCHANGED <<method, crl, made, results>>

MethodNext ==
    \/ \E c, holder \in Holders, h \in Transcripts : make(c, holder, h)
    \/ \E c \in Holders, h \in Transcripts, cred \in made : authenticate(c, h, cred)
    \/ time_passes

----------------------------------------------------------------------------
\* The one-time codes.

VARIABLES
    step_now,           \* now / period_secs
    last_accepted_step,
    login,              \* login[t]: idle, or the operation thread t is at
    accepted,           \* the accepted logins, in the order of their stores
    logins

totp_vars == <<step_now, last_accepted_step, login, accepted, logins>>

Steps == DOMAIN CodeOf
Codes == {CodeOf[s] : s \in Steps}
Never == -1             \* u64::MAX, "no code accepted yet"

\* before counts the stores that came before the login's load.
NoLogin == [at |-> "idle", matched |-> 0, before |-> 0]

TotpInit ==
    /\ step_now = 0 /\ last_accepted_step = Never
    /\ login = [t \in Threads |-> NoLogin]
    /\ accepted = <<>> /\ logins = 0

----------------------------------------------------------------------------
\* The steps in the window whose code is the presented one; there is no
\* step before 0.  The loop does not stop at a match: the last one counts.
Matches(code) ==
    {s \in Steps : /\ step_now - skew_window <= s /\ s <= step_now + skew_window
                   /\ CodeOf[s] = code}

matched_step(code) == CHOOSE s \in Matches(code) : \A r \in Matches(code) : r <= s

\* TotpAuthenticator::authenticate up to the atomic: a code that matches
\* nothing is rejected.
authenticate_totp(t, code) ==
    /\ login[t].at = "idle" /\ logins < MaxLogins /\ logins' = logins + 1
    /\ login' = IF Matches(code) = {} THEN login
                ELSE [login EXCEPT ![t] = [at |-> "load", matched |-> matched_step(code),
                                           before |-> 0]]
    /\ UNCHANGED <<step_now, last_accepted_step, accepted>>

\* Variant: the last accepted step itself is let through.
Seen_later(t) == last_accepted_step > login[t].matched

Seen(t) == last_accepted_step # Never /\ last_accepted_step >= login[t].matched

\* The load, and the rejection of a step that is not later.
load_last(t) ==
    /\ login[t].at = "load"
    /\ login' = [login EXCEPT ![t] =
                     IF Seen(t) THEN NoLogin
                     ELSE [at |-> "store", matched |-> @.matched, before |-> Len(accepted)]]
    /\ UNCHANGED <<step_now, last_accepted_step, accepted, logins>>

\* The store; the login is accepted.
store_last(t) ==
    /\ login[t].at = "store"
    /\ last_accepted_step' = login[t].matched
    /\ accepted' = Append(accepted, [step |-> login[t].matched, before |-> login[t].before])
    /\ login' = [login EXCEPT ![t] = NoLogin]
    /\ UNCHANGED <<step_now, logins>>

\* The clock: it may also be set back.
clock_moves ==
    /\ step_now' \in Steps /\ step_now' \in {step_now - 1, step_now + 1}
    /\ UNCHANGED <<last_accepted_step, login, accepted, logins>>

TotpNext ==
    \/ clock_moves
    \/ \E t \in Threads : load_last(t) \/ store_last(t)
                          \/ \E c \in Codes : authenticate_totp(t, c)

----------------------------------------------------------------------------
\* An authenticator is of one method; the codes are of another.
AuthInit == MethodInit /\ TotpInit

AuthNext ==
    \/ MethodNext /\ UNCHANGED totp_vars
    \/ TotpNext /\ UNCHANGED method_vars

auth_vars == <<method_vars, totp_vars>>

AuthSpec == AuthInit /\ [][AuthNext]_auth_vars

----------------------------------------------------------------------------
Listed(serial) == \E i \in DOMAIN crl : crl[i] = serial
Readable == \A i \in DOMAIN crl : crl[i] # "broken"

(***************************************************************************)
(* Whoever is let in is entitled at that moment.  With certificates: the   *)
(* client that made the credential has the private key of the certificate  *)
(* it shows, whoever the certificate is of, and made it for this very      *)
(* handshake; the certificate is the authority's, and not revoked; both    *)
(* certificates are within their times.  A revoked serial behind an entry  *)
(* of the list that does not parse is not covered (mtls.rs:153-203,        *)
(* psk.rs:95-114, pubkey.rs:104-115).                                      *)
(***************************************************************************)
EntitledByMethod ==
    \A r \in results :
        r.is = "ok" =>
            CASE method = "psk" -> r.cred.client.psk = psk
              [] method = "pubkey" -> allowed = {} \/ r.client.static \in allowed
              [] method = "mtls" ->
                     LET cert == r.cred.cert
                     IN  /\ r.cred.client.cert.key = cert.key
                         /\ r.cred.sig.over = r.h
                         /\ cert.issuer = ca.key
                         /\ r.at \in cert.from .. cert.to /\ r.at \in ca.from .. ca.to
                         /\ Readable => ~Listed(cert.serial)

\* A login overlapped with another: it loaded before an earlier one stored.
Overlapped(i) == accepted[i].before < i - 1

(***************************************************************************)
(* A step that is not later than one accepted before it gets in only       *)
(* through an overlap: from any accepted login to any later one, the step  *)
(* has grown, unless one of those in between, or the later one itself,     *)
(* loaded the last step before another login stored its own.  It holds     *)
(* whatever the clock does, and again after two logins have overlapped.    *)
(* It is about steps: a code that is the code of two steps is let in once  *)
(* as each of them (totp.rs:226-246).                                      *)
(***************************************************************************)
StepsGrow ==
    \A i, j \in DOMAIN accepted :
        i < j /\ (\A m \in i + 1 .. j : ~Overlapped(m)) => accepted[i].step < accepted[j].step

(***************************************************************************)
(* Who is admitted is entitled to it at that moment, and no step of the    *)
(* one-time codes admits twice except through logins that overlap (auth/). *)
(***************************************************************************)
AdmittedIsEntitled == EntitledByMethod /\ StepsGrow
=============================================================================
