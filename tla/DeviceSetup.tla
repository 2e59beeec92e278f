---------------------------- MODULE DeviceSetup -----------------------------
(***************************************************************************)
(* The constructors of desmos-rt that open a kernel object and configure   *)
(* it call by call: the TUN devices of the four platforms, UDP sockets     *)
(* with and without an interface, the netlink socket of net/watcher.rs and *)
(* the kqueue.  Every call may fail; each constructor cleans up in its own *)
(* way.  Another thread may start a program at any moment (server/nat.rs   *)
(* and net/resolver_hook.rs do), which inherits the descriptors that are   *)
(* not close-on-exec yet.  Then the packet calls of the TUN devices, whose *)
(* framing differs per platform.                                           *)
(***************************************************************************)
EXTENDS Naturals, Sequences, FiniteSetsExt

CONSTANTS
    MaxLen          \* longest packet and buffer, in bytes

VARIABLES
    kind,           \* which constructor
    at,             \* the call that comes next, 0 when the constructor returned
    have,           \* what the kernel holds for it so far
    result,         \* "running", "ok" or "err"
    child,          \* a program started meanwhile holds the descriptor too
    late,           \* it was started after the constructor had returned
    packet          \* the last TUN call: [call, len, buf, n]

vars == <<kind, at, have, result, child, late, packet>>

(***************************************************************************)
(* A constructor: what each of its calls adds, {} for calls that only ask  *)
(* or check, and the calls whose error path closes the descriptor.  For an *)
(* object that owns its descriptor, that is where it has been made.        *)
(***************************************************************************)
Constructor(calls, closes) == [calls |-> calls, closes |-> closes]
Owned(calls) == Constructor(calls, 2 .. Len(calls))

\* Variant: the descriptor is forgotten when the name is refused.
LinuxTun_create_leaks ==
    Constructor(<<{"open", "nonblock", "cloexec"}, {}, {"iface"}>>, {3})

\* open; the name; TUNSETIFF.  Both error branches close.
LinuxTun_create ==
    Constructor(<<{"open", "nonblock", "cloexec"}, {}, {"iface"}>>, {2, 3})

\* create closes whatever fails in init.
init_closes(open, init) == Constructor(<<open>> \o init, 2 .. 1 + Len(init))

FreeBsdTun_create == init_closes({"open", "iface"}, <<{}, {"nonblock"}, {"cloexec"}>>)
MacosTun_create ==
    init_closes({"open"}, <<{}, {"iface"}, {}, {}, {"nonblock"}, {"cloexec"}>>)

\* The library, the adapter and the session: dropped in reverse.
WintunTun_create == Owned(<<{"library"}, {"iface"}, {"open"}>>)

NetlinkWatcher_new == Constructor(<<{"open", "nonblock", "cloexec"}, {"bound"}>>, {2})
KqueueReactor_new == Constructor(<<{"open"}, {"cloexec"}>>, {2})

new_socket == <<{"open", "cloexec"}, {"nonblock"}, {"reuse"}>>
disable_udp_connreset == <<{"no_connreset"}>>

UdpSocket_bind == Owned(new_socket \o <<{"bound"}>>)

\* The name is checked, translated to an index where the platform wants one,
\* and the socket option set.  SO_BINDTODEVICE holds in both directions,
\* IP_BOUND_IF for what is sent.
bind_to_device == <<{}, {"egress", "ingress"}>>
bind_to_interface == <<{}, {}, {"egress"}>>

\* IP_UNICAST_IF is for what is sent and wants the index in network order; it
\* is given the native one, so it names another interface or none.
windows_interface_index == <<{}, {}>>
windows_bind_to_interface == windows_interface_index \o <<{"other_egress"}>>

bind_on_interface(socket, restrict) == Owned(socket \o restrict \o <<{"bound"}>>)

Constructors ==
    [linux_tun |-> LinuxTun_create, freebsd_tun |-> FreeBsdTun_create,
     macos_tun |-> MacosTun_create, wintun |-> WintunTun_create,
     netlink |-> NetlinkWatcher_new, kqueue |-> KqueueReactor_new,
     udp |-> UdpSocket_bind,
     udp_linux |-> bind_on_interface(new_socket, bind_to_device),
     udp_macos |-> bind_on_interface(new_socket, bind_to_interface),
     udp_windows |-> bind_on_interface(new_socket \o disable_udp_connreset,
                                       windows_bind_to_interface)]

Kinds == DOMAIN Constructors
Tuns == {"linux_tun", "freebsd_tun", "macos_tun", "wintun"}
Calls == Constructors[kind].calls
NoPacket == [call |-> "none", len |-> 0, buf |-> 0, n |-> 0]

Init ==
    /\ kind \in Kinds /\ at = 1 /\ have = {} /\ result = "running"
    /\ child = FALSE /\ late = FALSE /\ packet = NoPacket

----------------------------------------------------------------------------
\* What stays when the last descriptor is closed (external): a tun(4)
\* interface of FreeBSD.
Outlives == IF kind = "freebsd_tun" THEN have \cap {"iface"} ELSE {}

\* The next call of the constructor succeeds.
call ==
    /\ at > 0
    /\ have' = have \cup Calls[at]
    /\ IF at = Len(Calls) THEN at' = 0 /\ result' = "ok"
                          ELSE at' = at + 1 /\ UNCHANGED result
    /\ UNCHANGED <<kind, child, late, packet>>

close == have' = IF child THEN have ELSE Outlives

\* It fails.
call_fails ==
    /\ at > 0 /\ at' = 0 /\ result' = "err"
    /\ IF at \in Constructors[kind].closes THEN close ELSE UNCHANGED have
    /\ UNCHANGED <<kind, child, late, packet>>

\* Drop closes the object.
drop ==
    /\ result = "ok" /\ result' = "err" /\ close
    /\ UNCHANGED <<kind, at, child, late, packet>>

\* The daemon starts a new tunnel, when no program holds the old device.
create ==
    /\ result = "err" /\ ~child /\ result' = "running" /\ at' = 1
    /\ packet' = NoPacket /\ late' = FALSE
    /\ UNCHANGED <<kind, have, child>>

\* Another thread starts a program (external); Windows passes none of these on.
spawn ==
    /\ kind \notin {"wintun", "udp_windows"} /\ result # "err"
    /\ "open" \in have /\ "cloexec" \notin have
    /\ child' = TRUE /\ late' = (late \/ result = "ok")
    /\ UNCHANGED <<kind, at, have, result, packet>>

\* The program ends.
child_exits ==
    /\ child /\ child' = FALSE
    /\ have' = IF result = "err" THEN Outlives ELSE have
    /\ UNCHANGED <<kind, at, result, late, packet>>

\* macOS puts a four byte address family before each packet.
AF_HEADER_LEN == 4
Header == IF kind = "macos_tun" THEN AF_HEADER_LEN ELSE 0

\* Tun::recv of a packet of len bytes into a buffer of buf bytes: read cuts
\* off what does not fit into buffer and header; the header is taken off.
recv_n(len, buf) == Min({len + Header, buf + Header}) - Header

\* Tun::send writes header and packet and reports the packet's bytes.
send_n(len) == (Header + len) - Header

recv(len, buf) ==
    /\ result = "ok" /\ kind \in Tuns
    /\ packet' = [call |-> "recv", len |-> len, buf |-> buf,
                  n |-> IF buf = 0 THEN 0 ELSE recv_n(len, buf)]
    /\ UNCHANGED <<kind, at, have, result, child, late>>

send(len) ==
    /\ result = "ok" /\ kind \in Tuns
    /\ packet' = [call |-> "send", len |-> len, buf |-> len,
                  n |-> IF len = 0 THEN 0 ELSE send_n(len)]
    /\ UNCHANGED <<kind, at, have, result, child, late>>

Next ==
    \/ call \/ call_fails \/ drop \/ create \/ spawn \/ child_exits
    \/ \E len \in 0 .. MaxLen : send(len) \/ \E buf \in 0 .. MaxLen : recv(len, buf)

Spec == Init /\ [][Next]_vars

----------------------------------------------------------------------------
(***************************************************************************)
(* The devices of all platforms keep one contract.  A constructor that     *)
(* fails, at whichever call, leaves nothing open and no interface behind,  *)
(* and neither does a dropped device, but for FreeBSD's interfaces, and    *)
(* what a program that was started inside the constructor still holds.  A  *)
(* program started once the constructor has returned holds nothing of it.  *)
(* A socket meant for one interface sends through it alone from the moment *)
(* it has a port (bind_on_interface, except on Windows).  recv and send    *)
(* count the packet's bytes, cut to the buffer, without the framing of the *)
(* platform.                                                               *)
(***************************************************************************)
DevicesKeepContract ==
    /\ result = "err" /\ ~child =>
          have \subseteq (IF kind = "freebsd_tun" THEN {"iface"} ELSE {})
    /\ ~late
    /\ kind \in {"udp_linux", "udp_macos"} /\ "bound" \in have => "egress" \in have
    /\ packet.n = Min({packet.len, packet.buf})

=============================================================================
