----------------------------- MODULE Interfaces -----------------------------
(***************************************************************************)
(* How the daemon knows the host's interfaces.                             *)
(*                                                                         *)
(* net/watcher.rs: the netlink socket that tells it of interfaces coming   *)
(* and going.  The kernel queues one datagram per change on the socket; a  *)
(* full queue loses the datagram and makes the next recv fail.  drain_once *)
(* reads one datagram and parse_events turns it into events, which the     *)
(* caller applies in order.                                                *)
(*                                                                         *)
(* net/iface.rs: list() enumerates the interfaces.  On Linux it reads the  *)
(* names from /sys, then three files per interface, then the addresses;    *)
(* on Windows it asks for the size and then for the table; on the other    *)
(* Unixes it has the addresses only.  Interfaces come, go and change       *)
(* between two of these calls.                                             *)
(***************************************************************************)
EXTENDS Naturals, FiniteSets, Sequences

CONSTANTS
    Watched,        \* names of the interfaces watched
    MaxQueue,       \* datagrams the socket's receive buffer holds
    MaxChanges,     \* changes of an interface in a behaviour
    Names, Loopbacks,   \* interface names; those of loopback interfaces
    MaxHotplugs         \* changes during the listings of a behaviour

----------------------------------------------------------------------------
\* The watcher.

VARIABLES
    watched,        \* watched[l]: "up", "down" or "gone"
    queue,          \* the socket's receive queue
    overrun,        \* ENOBUFS is pending on the socket
    view,           \* view[l]: the last event for l was LinkUp
    told,           \* drain_once has returned an error
    cut,            \* a datagram was longer than the 8192 byte buffer
    changes

watch_vars == <<watched, queue, overrun, view, told, cut, changes>>

\* What the kernel sends for l becoming s: a removed interface's last
\* message carries whatever flags it had; others are mixed in.
Announcements(l, s) ==
    LET news == IF s = "gone"
                THEN {[type |-> "DELLINK", name |-> l, up |-> u] : u \in BOOLEAN}
                ELSE {[type |-> "NEWLINK", name |-> l, up |-> s = "up"]}
        noise == [type |-> "other", name |-> l, up |-> TRUE]
    IN  {<<m>> : m \in news} \cup {<<noise, m>> : m \in news}

\* The caller starts from the interfaces listed when it opened the socket.
WatchInit ==
    /\ watched \in [Watched -> {"up", "gone"}]
    /\ view = [l \in Watched |-> watched[l] = "up"]
    /\ queue = <<>> /\ overrun = FALSE
    /\ told = FALSE /\ cut = FALSE /\ changes = 0

----------------------------------------------------------------------------
\* external: an interface changes and the kernel queues the datagram.
link_changes(l) ==
    /\ changes < MaxChanges /\ changes' = changes + 1
    /\ \E s \in {"up", "down", "gone"} \ {watched[l]} :
           /\ watched' = [watched EXCEPT ![l] = s]
           /\ IF Len(queue) < MaxQueue
              THEN /\ \E d \in Announcements(l, s), long \in BOOLEAN :
                          queue' = Append(queue, [msgs |-> d, long |-> long])
                   /\ UNCHANGED overrun
              ELSE /\ overrun' = TRUE /\ UNCHANGED queue
    /\ UNCHANGED <<view, told, cut>>

\* Variant: the flag alone decides.
LinkUpOnFlag(m) == m.up

LinkUp(m) == m.up /\ m.type = "NEWLINK"

\* An event for each link message: LinkUp for a NEWLINK with IFF_UP, LinkDown
\* for every other; other types are passed over.  recv cuts a long datagram
\* off, and the message that does not fit ends the walk.  Events are numbered
\* by their messages.
parse_events(d) ==
    LET whole == 1 .. Len(d.msgs) - (IF d.long THEN 1 ELSE 0)
    IN  [i \in {i \in whole : d.msgs[i].type \in {"NEWLINK", "DELLINK"}} |->
            [name |-> d.msgs[i].name, up |-> LinkUp(d.msgs[i])]]

\* The caller: the last event of an interface counts.
Applied(v, events) ==
    [l \in Watched |->
        LET mine == {i \in DOMAIN events : events[i].name = l}
        IN  IF mine = {} THEN v[l]
            ELSE events[CHOOSE i \in mine : \A j \in mine : j <= i].up]

\* drain_once: an error of recv other than WouldBlock goes to the caller;
\* with nothing to read (a step without effect) it returns no events.
drain_once ==
    \/ /\ overrun
       /\ overrun' = FALSE /\ told' = TRUE
       /\ UNCHANGED <<watched, queue, view, cut, changes>>
    \/ /\ ~overrun /\ queue # <<>>
       /\ queue' = Tail(queue) /\ view' = Applied(view, parse_events(Head(queue)))
       /\ cut' = (cut \/ Head(queue).long)
       /\ UNCHANGED <<watched, overrun, told, changes>>

WatchNext == drain_once \/ \E l \in Watched : link_changes(l)

----------------------------------------------------------------------------
(***************************************************************************)
(* Once the queue is drained and no call of drain_once has failed or is    *)
(* about to, the caller's picture is the kernel's: events keep the         *)
(* kernel's order, an interface that vanished with IFF_UP still set counts *)
(* as down, as does a new one that is not up yet, and a datagram lost to a *)
(* full queue is never silent (watcher.rs:101-114).  A datagram longer     *)
(* than the buffer is cut without an error and is outside.                 *)
(***************************************************************************)
ViewMatches ==
    queue = <<>> /\ ~told /\ ~overrun /\ ~cut =>
        \A l \in Watched : view[l] <=> watched[l] = "up"

----------------------------------------------------------------------------
\* The listing.

VARIABLES
    os,         \* "linux", "windows" or "unix"
    ifaces,     \* ifaces[n]: "gone", "down", "up" (not running) or "running"
    step,       \* "idle", "names", "addresses" or "table"
    todo,       \* Linux: names whose files are still to be read
    table_size, \* Windows: the size the first call asked for, in adapters
    listing,    \* the result: name -> flags, empty while there is none
    failed,     \* there is no result: an error, or no call yet
    seen,       \* seen[n]: the states n was in since list() was called
    hotplugs

list_vars == <<os, ifaces, step, todo, table_size, listing, failed, seen, hotplugs>>

IfaceStates == {"gone", "down", "up", "running"}
Present == {n \in Names : ifaces[n] # "gone"}

\* IfaceFlags::default, and from_linux_bits(0): no bit set.
NoFlags == [up |-> FALSE, running |-> FALSE, loopback |-> FALSE]

\* The states that show as up: IFF_UP, and on Windows the oper status.
UpStates == IF os = "windows" THEN {"running"} ELSE {"up", "running"}

\* from_linux_bits, of the bits in /sys: net_device::flags, where IFF_RUNNING
\* is never set (external).
from_linux_bits(n) ==
    [up |-> ifaces[n] \in UpStates, running |-> FALSE, loopback |-> n \in Loopbacks]

\* The flags that windows_list makes of an adapter.
adapter_flags(n) ==
    [up |-> ifaces[n] \in UpStates, running |-> ifaces[n] \in UpStates,
     loopback |-> n \in Loopbacks]

NoListing == [n \in {} |-> NoFlags]

ListInit ==
    /\ os \in {"linux", "windows", "unix"} /\ ifaces \in [Names -> IfaceStates]
    /\ step = "idle" /\ todo = {} /\ table_size = 0 /\ listing = NoListing /\ failed = TRUE
    /\ seen = [n \in Names |-> {ifaces[n]}] /\ hotplugs = 0

----------------------------------------------------------------------------
\* list(): the directory, the size query, or the addresses.  An error of
\* the first call is the result.
list ==
    /\ step = "idle"
    /\ seen' = [n \in Names |-> {ifaces[n]}]
    /\ \/ /\ os = "linux" /\ failed' = FALSE /\ listing' = NoListing
          /\ todo' = Present /\ step' = "names" /\ table_size' = table_size
       \/ /\ os = "windows" /\ failed' = FALSE /\ listing' = NoListing
          /\ table_size' = Cardinality(Present) /\ step' = "table" /\ todo' = todo
       \/ /\ os = "unix" /\ failed' = FALSE
          /\ listing' = [n \in Present |-> NoFlags]
          /\ UNCHANGED <<step, todo, table_size>>
       \/ failed' = TRUE /\ listing' = NoListing /\ UNCHANGED <<step, todo, table_size>>
    /\ UNCHANGED <<os, ifaces, hotplugs>>

\* read_sys_flags of an interface that is gone: no flag set.
read_sys_flags(n) == IF ifaces[n] = "gone" THEN NoFlags ELSE from_linux_bits(n)

\* linux_list: read_sys_mac, read_sys_operstate, read_sys_flags.
read_sys(n) ==
    /\ step = "names" /\ n \in todo
    /\ listing' = [m \in DOMAIN listing \cup {n} |->
                       IF m = n THEN read_sys_flags(n) ELSE listing[m]]
    /\ todo' = todo \ {n}
    /\ step' = IF todo = {n} THEN "addresses" ELSE step
    /\ UNCHANGED <<os, ifaces, table_size, failed, seen, hotplugs>>

\* An entry of the directory cannot be read: the call ends with the error.
read_entry_fails ==
    /\ step = "names"
    /\ step' = "idle" /\ todo' = {} /\ listing' = NoListing /\ failed' = TRUE
    /\ UNCHANGED <<os, ifaces, table_size, seen, hotplugs>>

\* A directory without entries.
read_none ==
    /\ step = "names" /\ todo = {} /\ step' = "addresses"
    /\ UNCHANGED <<os, ifaces, todo, table_size, listing, failed, seen, hotplugs>>

\* getifaddrs_addresses: entries of interfaces it does not know stay.
getifaddrs_addresses ==
    /\ step = "addresses" /\ step' = "idle"
    /\ \/ UNCHANGED <<listing, failed>>
       \/ listing' = NoListing /\ failed' = TRUE
    /\ UNCHANGED <<os, ifaces, todo, table_size, seen, hotplugs>>

\* windows_list, second call: a table that has outgrown the buffer fails.
GetAdaptersAddresses ==
    /\ step = "table" /\ step' = "idle"
    /\ IF Cardinality(Present) > table_size
       THEN listing' = NoListing /\ failed' = TRUE
       ELSE listing' = [n \in Present |-> adapter_flags(n)] /\ UNCHANGED failed
    /\ UNCHANGED <<os, ifaces, todo, table_size, seen, hotplugs>>

\* external: an interface appears, goes, or changes its state.
hotplug(n) ==
    /\ hotplugs < MaxHotplugs /\ hotplugs' = hotplugs + 1
    /\ step # "idle"
    /\ \E s \in IfaceStates \ {ifaces[n]} :
           /\ ifaces' = [ifaces EXCEPT ![n] = s]
           /\ seen' = [seen EXCEPT ![n] = @ \cup {s}]
    /\ UNCHANGED <<os, step, todo, table_size, listing, failed>>

ListNext ==
    \/ list \/ read_none \/ read_entry_fails \/ getifaddrs_addresses \/ GetAdaptersAddresses
    \/ \E n \in Names : read_sys(n) \/ hotplug(n)

----------------------------------------------------------------------------
\* The daemon watches and lists.
KnownInit == WatchInit /\ ListInit

KnownNext ==
    \/ WatchNext /\ UNCHANGED list_vars
    \/ ListNext /\ UNCHANGED watch_vars

known_vars == <<watch_vars, list_vars>>

KnownSpec == KnownInit /\ [][KnownNext]_known_vars

----------------------------------------------------------------------------
iface_is_bondable(flags) == flags.up /\ flags.running /\ ~flags.loopback

(***************************************************************************)
(* What list() shows as up was up at some moment of the call: files that   *)
(* vanish while linux_list reads them count as "no flags", never as "up".  *)
(* On Linux and Windows an interface that was up throughout the call is    *)
(* found and shown as up, unless list() returned an error.  is_bondable is *)
(* for the interfaces shown as up other than loopback on Windows, and for  *)
(* none elsewhere: on Linux the flags it looks at never say running, and   *)
(* the other Unixes have no flags (iface.rs).                              *)
(***************************************************************************)
ListingMatches ==
    /\ \A n \in DOMAIN listing :
          /\ listing[n].up => seen[n] \cap UpStates # {}
          /\ iface_is_bondable(listing[n]) <=>
                 os = "windows" /\ listing[n].up /\ n \notin Loopbacks
    /\ step = "idle" /\ os # "unix" /\ ~failed => \A n \in Names :
          seen[n] \subseteq UpStates => n \in DOMAIN listing /\ listing[n].up

(***************************************************************************)
(* The drained events leave the caller with the kernel's state, and a      *)
(* listing shows as up what was up while it was made (watcher.rs,          *)
(* iface.rs).                                                              *)
(***************************************************************************)
InterfacesAreKnown == ViewMatches /\ ListingMatches
=============================================================================
