------------------------------ MODULE PrivDrop ------------------------------
(***************************************************************************)
(* The client's start-up (daemon/client.rs) with the privilege drop of     *)
(* desmos-rt/src/priv_drop: TUN device, sockets and handshake as root,     *)
(* then group, user and sandbox, then the reactor and its loop.  What a    *)
(* step may do depends on the identity and on the sandbox at that moment.  *)
(* The seccomp program of linux.rs is run instruction by instruction.      *)
(***************************************************************************)
EXTENDS Naturals, Sequences

CONSTANTS
    Blocked,        \* the blocked system call numbers, as a sequence
    Calls           \* the system call numbers considered

VARIABLES
    os,             \* "linux", "freebsd" or "macos"
    phase,          \* position in Phases(os)
    uid, gid,       \* "root" or "nobody"
    sandbox,        \* parts of the sandbox in place
    outcome,        \* "starting", "running" or "failed"
    asRoot,         \* the daemon was started as root
    broken,         \* a system call failed without a reason in the state
    refused         \* the kernel refused a send of the loop

vars == <<os, phase, uid, gid, sandbox, outcome, asRoot, broken, refused>>

----------------------------------------------------------------------------
(* The seccomp filter: instructions are loads, conditional jumps and       *)
(* returns; offsets of a jump count from the next instruction.             *)
Ours == 62              \* AUDIT_ARCH_X86_64 or AUDIT_ARCH_AARCH64
Foreign == 3            \* any other
bpf_load(k) == [op |-> "ld", k |-> k, jt |-> 0, jf |-> 0]
bpf_jump(k, jt, jf) == [op |-> "jeq", k |-> k, jt |-> jt, jf |-> jf]
bpf_ret(k) == [op |-> "ret", k |-> k, jt |-> 0, jf |-> 0]

skip_to_allow == 1 + Len(Blocked)

build_filter ==
    LET n == Len(Blocked)
    IN  <<bpf_load("arch"), bpf_jump(Ours, 0, skip_to_allow), bpf_load("nr")>>
        \o [i \in 1 .. n |-> bpf_jump(Blocked[i], (n - i) + 1, 0)]
        \o <<bpf_ret("allow"), bpf_ret("deny")>>

\* external: the kernel's interpreter, for a call nr made under arch.
Verdict(arch, nr) ==
    LET prog == build_filter
        value(k) == IF k = "arch" THEN arch ELSE nr
        run[i \in 1 .. Len(prog), acc \in {arch, nr}] ==
            CASE prog[i].op = "ld"  -> run[i + 1, value(prog[i].k)]
              [] prog[i].op = "jeq" -> run[i + 1 + (IF acc = prog[i].k THEN prog[i].jt
                                                    ELSE prog[i].jf), acc]
              [] prog[i].op = "ret" -> prog[i].k
    IN  run[1, arch]

----------------------------------------------------------------------------
\* Variant: the user is changed first.
posix_drop_ids_user_first == <<"setuid", "setgid">>

posix_drop_ids == <<"setgid", "setuid">>

\* drop_and_sandbox of each platform.
linux_drop == posix_drop_ids \o <<"no_new_privs", "seccomp">>
freebsd_drop == posix_drop_ids \o <<"cap_enter">>
macos_drop == posix_drop_ids

drop_privileges ==
    [linux |-> linux_drop, freebsd |-> freebsd_drop, macos |-> macos_drop]

\* run_client_*: setup, drop_privileges_if_root, reactor, loop.
Phases ==
    <<"tun", "sockets", "handshake">>
        \o (IF asRoot THEN drop_privileges[os] ELSE <<>>) \o <<"reactor", "loop">>

Init ==
    /\ os \in {"linux", "freebsd", "macos"} /\ asRoot \in BOOLEAN
    /\ uid = IF asRoot THEN "root" ELSE "nobody"
    /\ gid = uid
    /\ phase = 1 /\ sandbox = {} /\ outcome = "starting" /\ broken = FALSE
    /\ refused = FALSE

\* external: what the kernel demands for a step.  Devices and sockets are
\* opened with open and socket; the reactor's epoll_create1 and kqueue are
\* not on the blocklist, and neither is sendto, which capability mode
\* refuses when it names an address.  A user who is not root may hold
\* CAP_NET_ADMIN; seccomp without no_new_privs needs root.
Permitted(step) ==
    CASE step = "tun"     -> sandbox = {} /\ (uid = "root" \/ ~asRoot)
      [] step = "sockets" -> sandbox \cap {"seccomp", "cap_enter"} = {}
      [] step \in {"setgid", "setuid"} -> uid = "root"
      [] step = "seccomp" -> uid = "root" \/ "no_new_privs" \in sandbox
      [] step = "send"    -> "cap_enter" \notin sandbox
      [] OTHER -> TRUE

\* One step of the start-up succeeds; loop is the last.
advance ==
    /\ outcome = "starting" /\ Permitted(Phases[phase])
    /\ LET s == Phases[phase]
       IN  /\ gid' = IF s = "setgid" THEN "nobody" ELSE gid
           /\ uid' = IF s = "setuid" THEN "nobody" ELSE uid
           /\ sandbox' = sandbox \cup ({s} \cap {"no_new_privs", "seccomp", "cap_enter"})
           /\ outcome' = IF s = "loop" THEN "running" ELSE outcome
           /\ phase' = IF s = "loop" THEN phase ELSE phase + 1
    /\ UNCHANGED <<os, asRoot, broken, refused>>

\* A step fails and run_client returns its error: the kernel refuses it,
\* or the call fails for a reason of its own (the handshake may time out).
fail ==
    /\ outcome = "starting" /\ Phases[phase] # "loop"
    /\ outcome' = "failed" /\ broken' = (broken \/ Permitted(Phases[phase]))
    /\ UNCHANGED <<os, phase, uid, gid, sandbox, asRoot, refused>>

\* send_to of a packet from the TUN device; the loop goes on after an error.
send ==
    /\ outcome = "running"
    /\ refused' = (refused \/ ~Permitted("send"))
    /\ UNCHANGED <<os, phase, uid, gid, sandbox, outcome, asRoot, broken>>

Next == advance \/ fail \/ send

Spec == Init /\ [][Next]_vars

----------------------------------------------------------------------------
(* The filter denies exactly the blocked calls of our architecture; calls  *)
(* of another architecture are allowed (build_filter's jump offsets).      *)
FilterIsExact ==
    \A nr \in Calls :
        /\ Verdict(Ours, nr) = "deny" <=> \E i \in DOMAIN Blocked : nr = Blocked[i]
        /\ Verdict(Foreign, nr) = "allow"

(***************************************************************************)
(* A daemon started as root runs its loop as nobody, in the platform's     *)
(* sandbox and on Linux under a filter that denies what it should: no      *)
(* error path of the drop leads into the loop half-way.  The order of the  *)
(* steps is one in which none takes away what a later one needs: as root,  *)
(* start-up fails only when a system call fails by itself, and the loop    *)
(* may send.  The exception is FreeBSD, where capability mode refuses      *)
(* every send to an address and the loop passes over the error             *)
(* (outbound.rs:269, client.rs:335-347).                                   *)
(***************************************************************************)
RootEndsUnprivileged ==
    asRoot =>
        /\ outcome = "running" =>
              /\ uid = "nobody" /\ gid = "nobody"
              /\ sandbox = CASE os = "linux"   -> {"no_new_privs", "seccomp"}
                             [] os = "freebsd" -> {"cap_enter"}
                             [] os = "macos"   -> {}
        /\ "seccomp" \in sandbox => FilterIsExact
        /\ outcome = "failed" => broken
        /\ refused => os = "freebsd"

=============================================================================
