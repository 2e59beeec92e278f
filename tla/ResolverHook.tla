---------------------------- MODULE ResolverHook ----------------------------
(***************************************************************************)
(* The DNS override of net/resolver_hook.rs: apply replaces the system's   *)
(* resolver configuration, a DnsGuard puts it back.  On Linux and FreeBSD  *)
(* the configuration is /etc/resolv.conf and the way back is a copy next   *)
(* to it; each file operation is a step of its own, because the process    *)
(* may die, the operation may fail, and other programs write the same file *)
(* between two of them.  On macOS and Windows one command sets the         *)
(* override and one command removes it.                                    *)
(***************************************************************************)
EXTENDS Naturals

CONSTANTS
    HostConfs,      \* contents other programs give resolv.conf
    MaxServers      \* servers after the first in the list given to apply

VARIABLES
    platform,       \* "resolv_conf", "scutil" or "netsh"
    conf,           \* what the system's resolver uses
    backup,         \* RESOLV_BACKUP
    guard,          \* the DnsGuard's state: TRUE when it holds a DnsState
    pc,             \* the file or command operation that comes next
    host,           \* the last configuration other programs wrote
    reapplied,      \* apply ran while conf was not the host's
    edited          \* another program wrote conf during the override

hook_vars == <<platform, conf, backup, guard, pc, host, reapplied, edited>>

Absent == "absent"          \* no such file
Ours == "tunnel"            \* the tunnel's servers
Torn == "torn"              \* truncated by a write that failed
Dhcp == "dhcp"              \* the interface takes its servers from DHCP

HookInit ==
    /\ platform \in {"resolv_conf", "scutil", "netsh"}
    /\ conf \in IF platform = "resolv_conf" THEN HostConfs \cup {Absent}
                                            ELSE {Dhcp}
    /\ host = conf
    /\ backup = Absent /\ guard = FALSE /\ pc = "idle"
    /\ reapplied = FALSE /\ edited = FALSE

----------------------------------------------------------------------------
\* apply with at least one server (with none it returns before any effect).
apply ==
    /\ pc = "idle" /\ ~guard
    /\ pc' = IF platform = "resolv_conf" THEN "copy" ELSE "set"
    /\ reapplied' = (reapplied \/ conf # host)
    /\ UNCHANGED <<platform, conf, backup, guard, host, edited>>

\* apply_resolv_conf: the file is saved, if there is one.  A copy that fails
\* may have truncated its target; the error ends apply.
apply_copy ==
    /\ pc = "copy"
    /\ \/ conf # Absent /\ backup' = conf /\ pc' = "write"
       \/ conf = Absent /\ backup' = backup /\ pc' = "write"
       \/ conf # Absent /\ backup' \in {backup, Torn} /\ pc' = "idle"
    /\ UNCHANGED <<platform, conf, guard, host, reapplied, edited>>

\* ... and replaced.  A write that fails leaves no DnsState behind.
apply_write ==
    /\ pc = "write" /\ pc' = "idle"
    /\ \/ conf' = Ours /\ guard' = TRUE
       \/ conf' \in {conf, Torn} /\ guard' = FALSE
    /\ UNCHANGED <<platform, backup, host, reapplied, edited>>

\* apply_scutil after get_primary_service: one command; nothing happens
\* when a command fails.
apply_scutil ==
    /\ pc = "set" /\ platform = "scutil" /\ pc' = "idle"
    /\ \/ conf' = Ours /\ guard' = TRUE
       \/ UNCHANGED <<conf, guard>>
    /\ UNCHANGED <<platform, backup, host, reapplied, edited>>

\* apply_netsh: the first server; a failure ends apply.
apply_netsh ==
    /\ pc = "set" /\ platform = "netsh"
    /\ \/ conf' = Ours /\ pc' = "add"
       \/ pc' = "idle" /\ UNCHANGED conf
    /\ UNCHANGED <<platform, backup, guard, host, reapplied, edited>>

\* The other servers: netsh's own errors are ignored; when it cannot be
\* started apply fails and leaves the first server in place.
apply_netsh_add ==
    /\ pc = "add" /\ pc' = "idle"
    /\ \/ guard' = TRUE
       \/ MaxServers > 0 /\ guard' = FALSE
    /\ UNCHANGED <<platform, conf, backup, host, reapplied, edited>>

\* DnsGuard::restore and Drop take the state, so they act once.
restore ==
    /\ pc = "idle" /\ guard
    /\ guard' = FALSE /\ pc' = "restore"
    /\ UNCHANGED <<platform, conf, backup, host, reapplied, edited>>

\* DnsGuard::disarm.
disarm ==
    /\ pc = "idle" /\ guard
    /\ guard' = FALSE
    /\ UNCHANGED <<platform, conf, backup, pc, host, reapplied, edited>>

\* Variant: the copy is moved away before it is written back.
restore_resolv_conf_moved ==
    /\ pc = "restore" /\ platform = "resolv_conf"
    /\ backup' = Absent
    /\ \/ backup # Absent /\ conf' = backup /\ pc' = "remove"
       \/ backup # Absent /\ conf' \in {conf, Torn} /\ pc' = "idle"
    /\ UNCHANGED <<platform, guard, host, reapplied, edited>>

\* restore_resolv_conf: back from the copy, if there is one.
restore_resolv_conf ==
    /\ pc = "restore" /\ platform = "resolv_conf"
    /\ \/ backup # Absent /\ conf' = backup /\ pc' = "remove"
       \/ backup = Absent /\ pc' = "idle" /\ UNCHANGED conf
       \/ backup # Absent /\ conf' \in {conf, Torn} /\ pc' = "idle"
    /\ UNCHANGED <<platform, backup, guard, host, reapplied, edited>>

\* The copy is removed; a failure is ignored.
restore_remove ==
    /\ pc = "remove" /\ pc' = "idle"
    /\ backup' \in {Absent, backup}
    /\ UNCHANGED <<platform, conf, guard, host, reapplied, edited>>

\* restore_scutil, restore_netsh: the interface is back on DHCP, or not.
restore_command ==
    /\ pc = "restore" /\ platform # "resolv_conf" /\ pc' = "idle"
    /\ conf' \in {Dhcp, conf}
    /\ UNCHANGED <<platform, backup, guard, host, reapplied, edited>>

\* The process dies; no destructor runs.
crash ==
    /\ pc' = "idle" /\ guard' = FALSE
    /\ pc # "idle" \/ guard
    /\ UNCHANGED <<platform, conf, backup, host, reapplied, edited>>

\* A DHCP client or an administrator writes or removes resolv.conf.
host_writes ==
    /\ platform = "resolv_conf"
    /\ host' \in HostConfs \cup {Absent} /\ host' # conf
    /\ conf' = host'
    /\ edited' = (edited \/ guard \/ pc # "idle")
    /\ UNCHANGED <<platform, backup, guard, pc, reapplied>>

HookNext ==
    \/ apply \/ apply_copy \/ apply_write
    \/ apply_scutil \/ apply_netsh \/ apply_netsh_add
    \/ restore \/ disarm \/ restore_resolv_conf \/ restore_remove
    \/ restore_command \/ crash \/ host_writes

HookSpec == HookInit /\ [][HookNext]_hook_vars

----------------------------------------------------------------------------
(* The host's own configuration is never lost on the way: in every state,  *)
(* so also where a crash or a failing file operation leaves the process,   *)
(* resolv.conf or its copy holds it.  apply saves before it writes, and    *)
(* restore_resolv_conf writes before it removes.  Two uses are outside:    *)
(* applying over a configuration that is not the host's (after a crash or  *)
(* a failed restore the copy is overwritten with the tunnel's servers) and *)
(* another program writing the file while the override is in place.        *)
ConfigurationKept ==
    platform = "resolv_conf" /\ ~reapplied /\ ~edited
        => host \in {Absent, conf, backup}

=============================================================================
