---------------------------- MODULE ConfigReload ----------------------------
(***************************************************************************)
(* The configuration of a running daemon: how a parsed document is         *)
(* validated (desmos-core/src/config/validate.rs), compared with the       *)
(* running configuration (config/diff.rs) and taken over by                *)
(* PUT /api/v1/config (desmos-webui/src/handlers/config.rs).               *)
(*                                                                         *)
(* A document gives each section's fields a value: "absent", "bad" (of the *)
(* wrong type or out of range) or one of two good ones, "x" being the      *)
(* default where there is one.  Keys a section does not have are ignored,  *)
(* as in the code, and so left out.                                        *)
(***************************************************************************)
EXTENDS Naturals, FiniteSets

CONSTANT Documents      \* the files and bodies the daemon is given: a function
                        \* from sections to functions from fields to values

Fields ==
    [general |-> {"mode", "log_level", "tunnel_mtu"},
     server |-> {"listen", "public_key", "private_key_file", "max_clients",
                 "auth_method", "psk", "authorized_keys_file"},
     client |-> {"server", "server_public_key", "private_key_file", "bonding_strategy",
                 "reorder_window_ms", "dns_leak_protection", "dns_servers", "interfaces"},
     webui |-> {"enabled", "listen", "username", "password_hash"},
     p2p |-> {"peer_public_key", "peer_endpoint", "stun_servers", "relay_servers"}]

Sections == DOMAIN Fields
AllFields == UNION {{s} \X Fields[s] : s \in Sections}

\* require_string, and the interfaces, of which there must be one.
Required ==
    ({"general"} \X {"mode"})
    \cup ({"server"} \X {"listen", "public_key", "private_key_file", "auth_method"})
    \cup ({"client"} \X {"server", "server_public_key", "private_key_file", "interfaces"})
    \cup ({"webui"} \X {"password_hash"})
    \cup ({"p2p"} \X {"peer_public_key", "peer_endpoint"})

\* The credentials have no default.  Two of the four methods stand for all.
Credentials == {"psk", "authorized_keys_file"}

Values(f) ==
    CASE f = "mode" -> {"client", "server", "p2p"}
      [] f = "auth_method" -> Credentials
      [] OTHER -> {"x", "y"}

VARIABLES
    ctx,            \* the daemon's context is set (init_context)
    running,        \* the running configuration
    report,         \* answer to a PUT, until it is read
    reloaded        \* fields the answer says were reloaded

reload_vars == <<ctx, running, report, reloaded>>

----------------------------------------------------------------------------
(* Config::from_value                                                      *)

HasModeSection(doc) == doc.general["mode"] \in DOMAIN doc

SectionOk(doc, s) ==
    /\ s \in Sections
    /\ \A f \in Fields[s] :
           doc[s][f] = "absent" \/ doc[s][f] \in Values(f)
    /\ \A f \in Fields[s] : <<s, f>> \in Required => doc[s][f] # "absent"

AuthOk(doc) == "server" \in DOMAIN doc => doc.server[doc.server["auth_method"]] # "absent"

Valid(doc) ==
    /\ "general" \in DOMAIN doc
    /\ \A s \in DOMAIN doc : SectionOk(doc, s)
    /\ AuthOk(doc)
    /\ HasModeSection(doc)

from_value(doc) ==
    [s \in DOMAIN doc |->
        [f \in Fields[s] |->
            IF doc[s][f] = "absent" /\ f \notin Credentials THEN "x" ELSE doc[s][f]]]

----------------------------------------------------------------------------
(* diff: the changed fields, as pairs; a section that came or went is the  *)
(* pair of its name with itself, the fields of server.auth count as one.   *)

Field(s, f) == IF s = "server" /\ f \in Credentials \cup {"auth_method"} THEN "auth" ELSE f

ChangedIn(old, new, s) ==
    {<<s, Field(s, f)>> : f \in {f \in Fields[s] : old[s][f] # new[s][f]}}

diff(old, new) ==
    (UNION {ChangedIn(old, new, s) : s \in DOMAIN old \cap DOMAIN new})
    \cup {<<s, s>> : s \in (DOMAIN old \ DOMAIN new) \cup (DOMAIN new \ DOMAIN old)}

\* Variant: a section may come and go.
Unsafe_fields ==
    {<<"general", "mode">>}
    \cup ({"server"} \X {"listen", "public_key", "private_key_file"})
    \cup ({"client"} \X {"server", "server_public_key", "private_key_file"})

Unsafe ==
    {<<"general", "mode">>, <<"server", "server">>, <<"client", "client">>}
    \cup ({"server"} \X {"listen", "public_key", "private_key_file"})
    \cup ({"client"} \X {"server", "server_public_key", "private_key_file"})

is_safe(changes) == changes \cap Unsafe = {}

----------------------------------------------------------------------------
NoConfig == <<>>

ReloadInit == ctx = FALSE /\ running = NoConfig /\ report = "none" /\ reloaded = {}

\* run_daemon on a validated file
init_context(doc) ==
    /\ ~ctx /\ report = "none" /\ Valid(doc)
    /\ ctx' = TRUE
    /\ running' = from_value(doc)
    /\ UNCHANGED <<report, reloaded>>

\* Without a context nothing is compared and nothing stored; the answer is
\* the same.
put(doc) ==
    LET new == from_value(doc)
        changes == IF ctx THEN diff(running, new) ELSE {}
    IN  /\ report = "none"
        /\ report' = IF ~Valid(doc) THEN "validation_error"
                    ELSE IF ~is_safe(changes) THEN "unsafe_reload" ELSE "applied"
        /\ reloaded' = IF report' = "applied" THEN changes ELSE {}
        /\ running' = IF report' = "applied" /\ ctx THEN new ELSE running
        /\ UNCHANGED ctx

\* A body that is empty, not UTF-8 or not TOML.
put_unreadable == report = "none" /\ report' = "parse_error" /\ UNCHANGED <<ctx, running, reloaded>>

\* external: one thread serves the requests, the next one comes after the answer
reload_answered == report # "none" /\ report' = "none" /\ reloaded' = {} /\ UNCHANGED <<ctx, running>>

ReloadNext ==
    \/ \E doc \in Documents : init_context(doc) \/ put(doc)
    \/ put_unreadable
    \/ reload_answered

ReloadSpec == ReloadInit /\ [][ReloadNext]_reload_vars

----------------------------------------------------------------------------
\* The reload-unsafe fields, as the head of diff.rs lists them.
Pinned ==
    {<<"general", "mode">>,
     <<"server", "listen">>, <<"server", "private_key_file">>, <<"server", "public_key">>,
     <<"client", "server">>, <<"client", "private_key_file">>, <<"client", "server_public_key">>}

Identity(c) ==
    <<DOMAIN c \cap {"server", "client"},
      {<<p, c[p[1]][p[2]]>> : p \in {p \in Pinned : p[1] \in DOMAIN c}}>>

\* The fields whose value differs between two configurations, and the
\* sections that only one of them has.
Differing(old, new) ==
    LET kept == DOMAIN old \cap DOMAIN new
    IN  [fields |-> {<<a[1], Field(a[1], a[2])>> : a \in
                        {a \in AllFields : a[1] \in kept /\ old[a[1]][a[2]] # new[a[1]][a[2]]}},
         sections |-> (DOMAIN old \cup DOMAIN new) \ kept]

Reported(changes, kept) ==
    [fields |-> {r \in changes : r[1] \in kept},
     sections |-> {r[1] : r \in changes} \ kept]

(***************************************************************************)
(* No sequence of PUTs changes what the running tunnel is built on: its    *)
(* mode, which of the server and client sections there are, their          *)
(* addresses and keys (diff.rs:10-21, handlers/config.rs:103-126).  The    *)
(* fields an answer reports as reloaded are those whose value differs now  *)
(* from before, none missing and none too many, defaults included          *)
(* (diff.rs:70-80).  And the running configuration stays one the daemon    *)
(* can be built from, although sections and the authentication may change  *)
(* freely: it has the section of its mode, and a server the credential of  *)
(* its method (validate.rs:153-164, 229-243).                              *)
(***************************************************************************)
ReloadIsSound ==
    /\ [][ctx =>
             /\ Identity(running') = Identity(running)
             /\ report' = "applied" =>
                   Reported(reloaded', DOMAIN running \cap DOMAIN running')
                       = Differing(running, running')]_reload_vars
    /\ [](ctx =>
             /\ running.general["mode"] \in DOMAIN running
             /\ "server" \in DOMAIN running =>
                   running.server[running.server["auth_method"]] # "absent")
=============================================================================
