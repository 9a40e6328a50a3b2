------------------------------ MODULE Netlink ------------------------------
(* NetlinkClient (src/netlink.rs): the client that installs routes in the  *)
(* kernel's tables, one for each VNI, over a kernel that outlives the      *)
(* process and holds the routes of others.  The calls come from two tasks: *)
(* the distributor adds and removes routes, the application clears VNIs;   *)
(* _mutex is never locked, so a clear goes on between the other calls.     *)
EXTENDS Integers

CONSTANTS
    Vnis, Routes,
    VniOf,      \* the VNI of a route
    NetOf,      \* its destination, host bits masked
    IsV4,       \* the destination is an IPv4 one
    IsStandard, \* the hop type is Standard
    GatewayOf,  \* the next hop if it is IPv6, else None
    None,
    Configs,    \* the configurations the process may be started with
    Foreign     \* entries of others the kernel may hold

ASSUME NetlinkOK ==
    /\ VniOf \in [Routes -> Vnis] /\ None \notin Vnis
    /\ {IsV4, IsStandard} \subseteq [Routes -> BOOLEAN]
    /\ \A c \in Configs : c.table \in [Vnis -> Int] /\ c.ipv4Only \in BOOLEAN
    /\ \A e \in Foreign : ~e.ours
    /\ \A e, f \in Foreign : e.table = f.table /\ e.net = f.net => e = f

VARIABLES
    phase,    \* of the process: "down", "starting", "running"
    config,   \* vni_table_map (0: the VNI is not in it) and ipv4_only
    unclear,  \* VNIs new() has yet to clear
    clearing, \* the VNI clear_metalbond_routes works on, or None
    listed,   \* what it listed and has not deleted yet
    kernel    \* the kernel's entries; "ours": of our protocol and device

client == <<phase, config, unclear, clearing, listed>>
vars == <<client, kernel>>

Entry(r, t) == [table |-> t, net |-> NetOf[r], gateway |-> GatewayOf[r], ours |-> TRUE]

\* Mutant: the id is sent in full.
FullId(v) == config.table[v]

\* The table id as it is sent, in 8 bits; the kernel takes 0 for its main table.
Byte(v) == config.table[v] % 256
Main == 254
TableOf(v) == IF Byte(v) = 0 THEN Main ELSE Byte(v)

Init ==
    /\ phase = "down" /\ config \in Configs /\ unclear = {}
    /\ clearing = None /\ listed = {}
    /\ kernel \in SUBSET Foreign

(* Every variable has its type; a table of the kernel has one entry for a  *)
(* network, whoever asked for it; a clear lists only our entries.          *)
TypeOK ==
    /\ phase \in {"down", "starting", "running"} /\ config \in Configs
    /\ unclear \subseteq Vnis /\ clearing \in Vnis \cup {None}
    /\ kernel \subseteq Foreign \cup {Entry(r, t) : r \in Routes, t \in 1..255}
    /\ \A e, f \in kernel : e.table = f.table /\ e.net = f.net => e = f
    /\ \A e \in listed : e.ours

-----------------------------------------------------------------------------
(* clear_metalbond_routes: list the kernel's entries, delete those of the  *)
(* table that are ours, one by one.  An entry that is gone by then fails   *)
(* the deletion, and with it the clear; so does any call that fails.       *)
HasTable(v) == config.table[v] > 0

\* Mutants: protocol and device are not compared; the table is not.
ListsAnyOwner(v) == {e \in kernel : e.table = Byte(v)}
ListsAnyTable(v) == {e \in kernel : e.ours}

Lists(v) == {e \in kernel : e.table = Byte(v) /\ e.ours}

Clear(v) ==
    /\ clearing = None /\ HasTable(v)
    /\ phase = "running" \/ v \in unclear
    /\ clearing' = v /\ listed' = Lists(v)
    /\ UNCHANGED <<phase, config, unclear, kernel>>

ClearDeletes(e) ==
    /\ e \in listed /\ e \in kernel
    /\ listed' = listed \ {e} /\ kernel' = kernel \ {e}
    /\ UNCHANGED <<phase, config, unclear, clearing>>

\* At the start, the process gives up.
ClearFails ==
    /\ clearing # None
    /\ clearing' = None /\ listed' = {} /\ unclear' = {}
    /\ phase' = IF phase = "starting" THEN "down" ELSE phase
    /\ UNCHANGED <<config, kernel>>

ClearEnds ==
    /\ clearing # None /\ listed = {}
    /\ clearing' = None /\ unclear' = unclear \ {clearing}
    /\ UNCHANGED <<phase, config, listed, kernel>>

-----------------------------------------------------------------------------
(* add_route and remove_route.  What is not to be installed is skipped     *)
(* with success or refused; both leave the kernel alone.                   *)
Installable(r) == /\ config.ipv4Only => IsV4[r]
                  /\ HasTable(VniOf[r]) /\ IsStandard[r]

Ours(r) == Entry(r, TableOf(VniOf[r]))

\* The kernel does not replace an entry; it may refuse for reasons of its own.
AddRoute(r) ==
    /\ phase = "running" /\ Installable(r)
    /\ \A e \in kernel : <<e.table, e.net>> # <<Ours(r).table, Ours(r).net>>
    /\ kernel' = kernel \cup {Ours(r)}
    /\ UNCHANGED client

\* It deletes an entry of our protocol; without a gateway, whatever its gateway.
Matches(e, r) ==
    /\ e.ours /\ e.table = TableOf(VniOf[r]) /\ e.net = NetOf[r]
    /\ GatewayOf[r] \in {None, e.gateway}

RemoveRoute(r) ==
    /\ phase = "running" /\ Installable(r)
    /\ \E e \in kernel : Matches(e, r) /\ kernel' = kernel \ {e}
    /\ UNCHANGED client

-----------------------------------------------------------------------------
(* new(): every VNI with a table is cleared before the client is used.     *)
\* Mutant: the routes of an earlier run stay.
NothingToClear(c) == {}

ToClear(c) == {v \in Vnis : c.table[v] > 0}

Start(c) ==
    /\ phase = "down" /\ phase' = "starting"
    /\ config' = c /\ unclear' = ToClear(c)
    /\ UNCHANGED <<clearing, listed, kernel>>

Started ==
    /\ phase = "starting" /\ unclear = {} /\ clearing = None
    /\ phase' = "running"
    /\ UNCHANGED <<config, unclear, clearing, listed, kernel>>

\* The process ends, by a crash or by shutdown(), which withdraws nothing.
Stop ==
    /\ phase # "down" /\ phase' = "down"
    /\ unclear' = {} /\ clearing' = None /\ listed' = {}
    /\ UNCHANGED <<config, kernel>>

Next ==
    \/ \E c \in Configs : Start(c)
    \/ Started \/ Stop
    \/ \E v \in Vnis : Clear(v)
    \/ \E e \in listed : ClearDeletes(e)
    \/ ClearFails \/ ClearEnds
    \/ \E r \in Routes : AddRoute(r) \/ RemoveRoute(r)

Spec == Init /\ [][Next]_vars

-----------------------------------------------------------------------------
(* The entries of others stay as they are, whatever the configuration:     *)
(* even if two VNIs share a table, or a table is the kernel's main one.    *)
ForeignUntouched == [][{e \in kernel' : ~e.ours} = {e \in kernel : ~e.ours}]_vars

(* VNIs that are cleared as one: their tables are one in 8 bits.           *)
SameTable(v, w) == HasTable(v) /\ HasTable(w) /\ TableOf(v) = TableOf(w)

(* The routes that are in the kernel while a process runs.                 *)
Held == {r \in Routes : phase = "running" /\ Installable(r) /\ Ours(r) \in kernel}

(* With any configuration, a route leaves the kernel only while a VNI is   *)
(* cleared that shares its table, maybe another one than its own           *)
(* (netlink.rs:95), or by a call to remove a route that the kernel cannot  *)
(* tell from it.  Nothing that is done for another table touches it.       *)
WithdrawalsAreExact ==
    [][\A r \in Held \ Held' :
          \/ phase' = "down"
          \/ clearing # None /\ SameTable(clearing, VniOf[r])
          \/ \E s \in Routes : RemoveRoute(s) /\ Matches(Ours(r), s)]_vars

(* What the configuration and the routes must grant, and nothing checks:   *)
(* tables that differ in their low 8 bits, none of them 0 there, and no    *)
(* two installable routes that the kernel cannot tell apart.               *)
Sound ==
    /\ \A v \in Vnis : HasTable(v) => Byte(v) # 0
    /\ \A v, w \in Vnis : SameTable(v, w) => v = w
    /\ \A r, s \in Routes : Installable(r) /\ Installable(s) /\ Matches(Ours(r), s) => r = s

(* Then a call makes a difference to one route at a time, and a process    *)
(* starts with nothing left over from a run before.  Refinement.           *)
Up == phase = "running" /\ Sound
Installed == IF Up THEN Held ELSE {}
O == INSTANCE OsClient WITH up <- Up, installed <- Installed
ImplementsOsClient == O!Spec
=============================================================================
