--------------------------- MODULE MetalBondState ---------------------------
(* The state one MetalBond instance shares between its tasks: the          *)
(* MetalBondState struct and its lock, the Peer structs, the channel to    *)
(* the distributor and the channels to the peer tasks (src/metalbond.rs,   *)
(* src/peer.rs).  Peer.tla, Distributor.tla and LocalApi.tla hold the      *)
(* actions of the tasks, MetalBond.tla composes them.                      *)
(*                                                                         *)
(* A route stands for a (VNI, destination, next hop) triple; VniOf gives   *)
(* its VNI.  The route table is the flat one of RouteStore.tla.            *)
EXTENDS Naturals, Sequences, FiniteSets

CONSTANTS
    Peers,       \* addresses of the remote ends
    Local,       \* source_peer None: an update of this instance itself
    Vnis, Routes, VniOf,
    NatRoutes,   \* routes whose next hop has type NAT
    IsServer,    \* server mode accepts connections, client mode opens them
    Servers,     \* peers whose HELLO says is_server
    Announces,   \* Announces[p]: the routes peer p may send UPDATEs about
    Subscribes,  \* Subscribes[p]: the VNIs peer p may (un)subscribe
    LocalRoutes, \* routes the application may announce and withdraw
    LocalVnis,   \* VNIs the application may subscribe and unsubscribe
    QueueCap,    \* capacity of the channel to the distributor
    TxCap,       \* capacity of the channel to one peer task
    Reconnects,  \* may an address connect again after its task ended?
    AnyMessage,  \* may messages arrive that the protocol does not provide for?
    OsMayFail,   \* may the OS client refuse to add or to clear routes?
    NoUpdate     \* the distributor holds no update

ASSUME ConstantsOK ==
    /\ Local \notin Peers
    /\ VniOf \in [Routes -> Vnis]
    /\ NatRoutes \subseteq Routes
    /\ Servers \subseteq Peers
    /\ Announces \in [Peers -> SUBSET Routes]
    /\ Subscribes \in [Peers -> SUBSET Vnis]
    /\ LocalRoutes \subseteq Routes
    /\ LocalVnis \subseteq Vnis
    /\ QueueCap \in Nat \ {0}
    /\ TxCap \in Nat \ {0}
    /\ {IsServer, Reconnects, AnyMessage, OsMayFail} \subseteq BOOLEAN

Sources == Peers \cup {Local}
Updates == [action : {"Add", "Remove"}, route : Routes, source : Sources]
ASSUME NoUpdateIsNone == NoUpdate \notin Updates

VARIABLES
    \* MetalBondState
    table,       \* route_table: the peers each route was learned from
    mine,        \* my_announcements
    mySubs,      \* my_subscriptions
    subscribers, \* subscribers[v]: peers that subscribed to VNI v
    peers,       \* the keys of the peers map
    \* Peer, one per address
    conn,        \* state
    isRemoteServer,
    remoteSubs,  \* subscribed_vnis_remote
    txLen,       \* messages waiting in tx_sender's channel
    notified,    \* shutdown_signal holds a permit
    \* where the task of a peer is, and what it still has to go through
    at, todo, exits,
    \* the distributor and the OS client
    queue,       \* route_update_tx's channel, and a send that waits for room
    inhand,      \* the update the distributor received last
    os,          \* routes installed by the OS client
    \* the application's call in progress
    apiAt, apiVni, apiTodo,
    \* history: what the accepted messages to a peer add up to
    view,        \* the routes the peer knows of once it read everything sent
    asked,       \* the VNIs it takes us to subscribe to by then
    dropped      \* peers to which a message was refused: channel full

stateVars == <<table, mine, mySubs, subscribers, peers>>
peerVars  == <<conn, isRemoteServer, remoteSubs, txLen, notified>>
taskVars  == <<at, todo, exits>>
distVars  == <<queue, inhand, os>>
apiVars   == <<apiAt, apiVni, apiTodo>>
histVars  == <<view, asked, dropped>>
vars == <<stateVars, peerVars, taskVars, distVars, apiVars, histVars>>

States == {"Connecting", "HelloSent", "HelloReceived", "Established", "Closed"}

(* Where handle_peer can be between two awaits that wait for the state     *)
(* lock, for the distributor's channel or for the next event.              *)
Places ==
    {"none", "starting", "select",                     \* no task; first HELLO; the loop
     "establishing", "subscribing", "announcing",      \* set_state(Established)
     "snapshot", "replaying",                          \* process_subscribe
     "unsubscribed", "withdrawing",                    \* process_unsubscribe
     "adding", "removing",                             \* process_update
     "closing", "cleanup", "wedged", "leaving", "gone"} \* set_state(Closed), the end

\* Where todo holds VNIs, and where it holds routes.
VniPlaces   == {"subscribing", "snapshot", "unsubscribed"}
RoutePlaces == {"announcing", "replaying", "withdrawing", "adding", "removing", "cleanup"}

Init ==
    /\ table = [r \in Routes |-> {}]
    /\ mine = {} /\ mySubs = {} /\ peers = {}
    /\ subscribers = [v \in Vnis |-> {}]
    /\ conn = [p \in Peers |-> "Connecting"]
    /\ isRemoteServer = [p \in Peers |-> FALSE]
    /\ remoteSubs = [p \in Peers |-> {}]
    /\ txLen = [p \in Peers |-> 0]
    /\ notified = [p \in Peers |-> FALSE]
    /\ at = [p \in Peers |-> "none"]
    /\ todo = [p \in Peers |-> {}]
    /\ exits = [p \in Peers |-> FALSE]
    /\ queue = <<>> /\ inhand = NoUpdate /\ os = {}
    /\ apiAt = "idle" /\ apiVni = {} /\ apiTodo = {}
    /\ view = [p \in Peers |-> {}]
    /\ asked = [p \in Peers |-> {}]
    /\ dropped = {}

StateTypeOK ==
    /\ table \in [Routes -> SUBSET Peers]
    /\ mine \subseteq LocalRoutes
    /\ mySubs \subseteq LocalVnis
    /\ subscribers \in [Vnis -> SUBSET Peers]
    /\ peers \subseteq Peers
PeerTypeOK ==
    /\ conn \in [Peers -> States]
    /\ isRemoteServer \in [Peers -> BOOLEAN]
    /\ remoteSubs \in [Peers -> SUBSET Vnis]
    /\ txLen \in [Peers -> 0..TxCap]
    /\ notified \in [Peers -> BOOLEAN]
TaskTypeOK ==
    /\ at \in [Peers -> Places]
    /\ todo \in [Peers -> SUBSET (Vnis \cup Routes)]
    /\ \A p \in Peers : at[p] \in VniPlaces => todo[p] \subseteq Vnis
    /\ \A p \in Peers : at[p] \in RoutePlaces => todo[p] \subseteq Routes
    /\ exits \in [Peers -> BOOLEAN]
DistTypeOK ==
    /\ queue \in Seq(Updates) /\ Len(queue) <= QueueCap + 1
    /\ inhand \in Updates \cup {NoUpdate}
    /\ os \subseteq Routes
ApiTypeOK ==
    /\ apiAt \in {"idle", "subscribe", "unsubscribe"}
    /\ apiVni \subseteq LocalVnis /\ apiTodo \subseteq Peers
HistTypeOK ==
    /\ view \in [Peers -> SUBSET Routes]
    /\ asked \in [Peers -> SUBSET Vnis]
    /\ dropped \subseteq Peers

(* Every variable has its type, and the bounds of the two channels hold: a *)
(* peer's channel never holds more than its capacity, the distributor's at *)
(* most one update more, that of the one sender that waits for room.       *)
TypeOK == /\ StateTypeOK /\ PeerTypeOK /\ TaskTypeOK
          /\ DistTypeOK /\ ApiTypeOK /\ HistTypeOK

-----------------------------------------------------------------------------
(* The lock around MetalBondState (tokio::sync::RwLock) and the channel to *)
(* the distributor.  A task that sends while it holds the write guard and  *)
(* finds the channel full waits inside send() with the guard: its update   *)
(* is then the last of queue, one beyond the capacity.  cleanup_peer_state *)
(* keeps a read guard to its end.  Every other guard is released within    *)
(* the step that takes it.                                                 *)
Update(action, r, source) == [action |-> action, route |-> r, source |-> source]

WriteHeld     == Len(queue) > QueueCap
HoldsWrite(t) == WriteHeld /\ queue[Len(queue)].source = t

\* The write request of a task that still holds its read guard waits for
\* that guard, and every later request waits behind it.
Wedged   == \E p \in Peers : at[p] = "wedged"
MayWriteBesideReads == ~WriteHeld /\ ~Wedged \* mutant: readers do not keep a writer out
MayRead  == ~WriteHeld /\ ~Wedged
MayWrite == MayRead /\ \A p \in Peers : at[p] # "cleanup"

\* route_update_tx.send(update).await under the write guard.
Enqueue(action, r, source) == queue' = Append(queue, Update(action, r, source))

-----------------------------------------------------------------------------
(* tx_sender.try_send: it never waits, a full channel refuses the message, *)
(* and the channel is closed once handle_peer has returned.                *)
CanSendOneMore(p) == txLen[p] <= TxCap /\ at[p] # "leaving" \* mutant: off by one

CanSend(p) == txLen[p] < TxCap /\ at[p] # "leaving"
Queued(p)  == [txLen EXCEPT ![p] = @ + 1]

(* set_state(Closed), the part before the cleanup: only a connection that  *)
(* was Established is cleaned up.  With leave, handle_peer then returns;   *)
(* otherwise it stores a permit in shutdown_signal and loops.              *)
AfterClosed(p, leave) ==
    IF conn[p] = "Established" THEN "closing" ELSE IF leave THEN "leaving" ELSE "select"

SetClosed(p, leave) ==
    /\ conn' = [conn EXCEPT ![p] = "Closed"]
    /\ exits' = [exits EXCEPT ![p] = leave]
    /\ notified' = [notified EXCEPT ![p] = ~leave]
    /\ at' = [at EXCEPT ![p] = AfterClosed(p, leave)]
    /\ todo' = [todo EXCEPT ![p] = {}]

-----------------------------------------------------------------------------
(* What a sequence of updates makes of a set of routes: a route is in if   *)
(* its last update adds it, or if it has none and was in before.           *)
Outcome(s, before) ==
    {r \in Routes :
        \/ \E i \in 1..Len(s) : /\ s[i].route = r /\ s[i].action = "Add"
                                /\ \A j \in (i + 1)..Len(s) : s[j].route # r
        \/ r \in before /\ \A i \in 1..Len(s) : s[i].route # r}

\* The updates that were sent and not yet distributed, oldest first.
InFlight == IF inhand = NoUpdate THEN queue ELSE <<inhand>> \o queue
=============================================================================
