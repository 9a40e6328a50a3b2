# metalbond_rs in TLA+

MetalBond distributes routes of virtual networks. A *client* connects to one or
more *servers*, subscribes to virtual networks (VNIs) and announces routes; a
server collects the routes its clients announce and sends them to the clients
that subscribed. This directory holds TLA+ specifications of the program in
`../src`, TLC configurations that check them on small instances, and proofs that
TLAPS checks.

## The system

| part | source | state | operations |
|---|---|---|---|
| route table | `src/routetable.rs` | nested maps VNI -> destination -> next hop -> set of sources, one lock | add and remove a next hop, remove all of a peer, five queries |
| shared state | `src/metalbond.rs:23` | `route_table`, `my_announcements`, `my_subscriptions`, `subscribers`, `peers`, all behind one `tokio` `RwLock` | every task reads and writes it |
| peer session | `src/peer.rs` | connection state, role and subscriptions of the remote end, a channel of 256 messages to the socket, a shutdown signal | one task per connection: a `select!` over shutdown, frames, the channel, two timers; five message handlers; a cleanup |
| route distributor | `src/metalbond.rs:522` | the update it works on | takes updates off a channel of 1024, calls the OS client, sends to the subscribed peers |
| application calls | `src/metalbond.rs:282-445` | none of their own | `subscribe`, `unsubscribe`, `announce_route`, `withdraw_route`, made by `main` one after the other |
| connection management | `src/metalbond.rs:174-262, 621-760` | `peer_tasks` | `add_peer`, `remove_peer`, connect and retry loop |
| listener, shutdown | `src/metalbond.rs:100-171, 448-518` | `listener_task`, `shutdown_notify` | accept, orderly end |
| wire format | `src/peer.rs:57-106, 629-704`, `proto/` | none | frame, decode, convert |
| OS client | `src/client.rs`, `src/netlink.rs` | the kernel's tables | add, remove, clear |
| HTTP server, command line | `src/http_server.rs`, `src/main.rs` | none | read the table; parse and call |

The parts interact in four ways only: through the shared state and its lock,
through the update channel (peer tasks and application calls -> distributor),
through the channels of the peers (anybody -> peer task -> socket), and through
wake-ups: the signal of a peer, which keeps a permit for a task that looks later,
and `shutdown_notify`, which wakes only who waits at that moment. What is hard is
that they are mixed: guards are kept across sends on bounded channels, snapshots
are used after the lock was released, a handler can be overtaken by every other
task at each wait, an arm of a `select!` that wins drops what the others had
begun, and a task may be aborted wherever it waits. What makes each part correct:

- the route table answers as a flat table would, and leaves no empty entry;
- the update channel carries the updates of a route in the order in which the
  table changed, so that what is installed is what is announced;
- a subscriber learns each route once by replay or by distribution, never by
  neither, and is not sent its own NAT routes;
- a connection is told of every subscription, whichever of `subscribe` and the
  handshake comes first;
- a connection that is lost takes its routes, its subscriptions and its entry
  with it; nothing brings it back;
- the two ends of a connection agree on how far the handshake is, what one
  accepted for the other is read in order and without a gap, and a connection that
  is told to end does end, at both ends, as far as its cleanup gets on;
- an address has one task, a listed peer has somebody who unlists it, a lost
  connection is tried again, and `shutdown()` returns with nothing left running;
- the kernel's tables hold what was asked for, routes of others stay, and nothing
  is left over from an earlier run of the program;
- what is sent can be read again, in whatever pieces it arrives;
- nobody waits for ever.

The program fails some of these; see *What the code does not do*. All hazards
met while reading, covered or not, are in `PROJECT.json`.

## Modules

| module | stands for |
|---|---|
| `RouteStore` | abstract: the sources of each path as one function |
| `RouteTable` | `routetable.rs` as written; implements `RouteStore` |
| `MetalBondState` | constants, variables, types, lock and channels shared by the next three |
| `Peer` | the task of one connection: `handle_peer`, the handlers, `set_state`, `cleanup_peer_state`, the entry into and the removal from `peers` |
| `Distributor` | `route_distributor_task` and the OS client it calls |
| `LocalApi` | the four calls of the application |
| `MetalBond` | one instance: the three above together, fairness, all properties |
| `Link` | abstract: two queues that are gapless and in order until the connection is cut |
| `Session` | the two ends of one connection: the arms of `select!`, the channels, the sockets, the timers; implements `Link` |
| `Lifecycle` | the tasks of an instance: `start`, `start_server`, `add_peer`, `remove_peer`, the retry loop, the accept loop, `shutdown` |
| `OsClient` | abstract: the trait `Client`, routes installed and withdrawn one by one |
| `Netlink` | `NetlinkClient` over a kernel that outlives it; implements `OsClient` |
| `Codec` | `MetalBondCodec` and the conversions of destinations and next hops, as operators |
| `MCRouteTable`, `MCMetalBond`, `MCSession`, `MCNetlink` | instances for TLC |
| `MetalBondProofs`, `UpdateProofs`, `ConnectionProofs` | types and lock of `MetalBond`, its promises on updates and on connections, proved |
| `RouteTableProofs`, `NetlinkProofs`, `SessionProofs` | types, safety and refinement of `RouteTable`, of `Netlink` and of `Session`, proved |
| `LifecycleProofs` | the safety properties of `Lifecycle`, proved |
| `CodecProofs` | what is encoded is read again, proved |

Definitions whose comment says *mutant* are not part of a specification: they
are wrong versions of the definition they precede, kept to show that the
properties notice them.

How they fit together: `MetalBond` takes the connection as given and says what an
instance does with what arrives. What it takes for granted is what the other
modules show: `Session`, that what was accepted for a peer is a queue read in
order (`Link`), and which messages can find which state; `Netlink`, that an OS call
concerns one route (`OsClient`); `Codec`, that the messages and routes that arrive
are those that were sent; `RouteTable`, that the table is a function; `Lifecycle`, which
connections there are at all.

### Correspondence

#### One instance: `MetalBond`

**Steps.** A handler is cut where it awaits the state lock or the update
channel, and where it goes round a loop of sends; between two cuts it is one
action. `at[p]` is the place of the task of `p`, `todo[p]` what its loop still
has to handle. All other awaits are on locks that only this task takes, or that
nobody keeps across a wait (`state`, `subscribed_vnis_remote`, the locks inside
`RouteTable`). The distributor's work on one update is one action: it keeps one
read guard throughout, its sends are `try_send`, and what other tasks may do
meanwhile touches nothing that it reads.

**The lock.** No variable holds the guards; they follow from what else is there.
A writer keeps its guard only while it waits for room in the update channel: the
channel then holds one update more than its capacity, and its last one is the
waiting sender's (`WriteHeld`, `HoldsWrite`). `cleanup_peer_state` keeps a read
guard to its end (`at[p] = "cleanup"`). A request for the write lock made while
holding that guard stops every later request, as tokio's fair lock does
(`"wedged"`). All other guards are taken and dropped within an action. That this
encoding behaves as a lock is not taken for granted: `GuardsExclude` says that a guard
for writing and one of a cleanup are never there together, and that the one who waits
with it does nothing else meanwhile.

**Data.** A route is a (VNI, destination, next hop) triple; that it may be one of
NAT type is all the properties need of it. A message in a peer's channel is
counted, not kept: what it says is added to `view[p]` (routes) or `asked[p]`
(VNIs), the knowledge of a remote end that has read everything sent; both are
history variables, as is `dropped`, the peers to which a message was refused.
The table is the flat one, which `RouteTable` implements.

**Environment.** Frames may arrive at any time in any order with `AnyMessage`;
without it SUBSCRIBE, UNSUBSCRIBE and UPDATE come only at Established or, as
leftovers, at Closed, and a server sends a client only routes of VNIs it was
asked for. An undecodable frame, an end of stream, a HELLO with interval 0 and
an UPDATE with a missing field are all `FrameError`: handled by the same four
lines. Timers may fire at any time while they exist. A peer's address comes
back only after the task of its last connection ended (`Reconnects`). The OS
client may refuse to add or to clear (`OsMayFail`); that it may fail to remove a
route for another reason than its absence is left out, since no promise about
installed routes could survive it.

**Simplifications.** `get_state` followed by `try_send` in `subscribe` is one
step: the state may change in between only to Closed, and a message queued for a
Closed connection changes nothing. When the `Peer` struct of an address goes,
application calls that still hold it find it Closed, which `Leave` expresses by
taking the address off their list.

#### Two ends of a connection: `Session`

Both ends run `handle_peer`; `"out"` opened the connection, `"in"` accepted it.
`place[e]` is where the task is: before its loop, in `select!`, inside `framed.send`, in a
cleanup that does not end, or gone. `tx[e]` is the channel to it, `held[e]` the message inside `framed.send`,
`wire[e]` what was written and not read yet, `permit[e]` the stored permit of the
shutdown signal. Each arm of the `select!` is an action that is possible at
`"select"`; the arm that sends does not come back before the socket takes the
message, and meanwhile the task neither reads nor sees its signal. `"UPDATE"`
stands for every message that leaves the connection's state alone; the handlers
behind it are in `Peer`. A handler runs in one step here: what it waits for is the
instance's affair, and `MetalBond` cuts it up. One wait is the connection's own affair:
`set_state(Closed)` of an Established end runs `cleanup_peer_state`, which blocks itself if the
peer has subscribed (`CleanupBlocks`, `peer.rs:245-262`; `subscribed` is true at an accepting end
whose peer has sent a SUBSCRIBE). Such an end neither signals itself nor returns: it is `"wedged"`
with the socket open, or `"halfClosed"` if the shutdown arm had closed the socket for writing
first. The other end reads to the end of the stream in the second case, and in the first one
learns nothing until its timer fires or the connection breaks. When an end becomes
Established, the opening one sends up to `MaxFirstUpdates` messages and its KEEPALIVE; the
accepting one sends none, since the program subscribes and announces at a client only
(`main.rs:228-272`). `greets` is the set of ends that are run by
another implementation, one that repeats its KEEPALIVE until the handshake is
done; this program sends none before it has got one. When a connection breaks or
an end closes its socket, any part of what was on its way may be lost, from its
end backwards.

#### Tasks: `Lifecycle`

`peers` and `peerTasks` are the maps of these names; an entry is the task of the
`Peer`, or whose handle it is. A task is followed through `at[t]`: connecting,
entering the map, handling, cleaning up after a loss (`"losing"`) or a signal
(`"closing"`), leaving the map, deciding whether to try again, waiting.
`aborted` are the tasks whose handle was aborted; they go on until they wait the
next time, and may be at the lock then, so they may take one more step there.
`notify_waiters` is modelled as it is: it wakes who waits now (`woken`), and a wake-up
is forgotten when another arm of the same `select!` wins (`ForgetWakeUp`).
`shutdown()` is one action per statement that waits. It awaits the listener in the
body of an `if let` whose condition has locked the state for writing, and the
guard lives as long as the body: nothing that needs the lock happens there
(`LockFree`). Nor does it once a connection's task waits for ever with a guard
(`"wedged"`, `Stuck`): a cleanup for the lock it holds itself (`peer.rs:245-262`), or a
handler or cleanup for room in the channel to a distributor that first needs the lock
(`peer.rs:463`, `metalbond.rs:537`). Whether a connection has subscribers and how full the
channel is are `MetalBond`'s affair, so `Wedges` may happen in every cleanup and, while the
distributor is about to take the lock, in every handler; and every step that needs the
lock is disabled from then on, that of `shutdown()` before its deadline of five seconds
included (`PeersAwaited`, `metalbond.rs:498`). An application call that never gets on with a
guard keeps its caller from calling `shutdown()` at all and is left out, as are waits for
the lock that end: they are part of the step they precede.

#### The kernel: `Netlink`

`kernel` is the set of entries of the kernel's tables, of which this program owns
those with its protocol number and device (`ours`); it survives `Stop`, which is a
crash as well as an orderly end, since `shutdown()` withdraws nothing. Table ids are
cut to 8 bits as they are sent (`Byte`); 0 means the kernel's main table, 254. A
clear is a listing followed by one deletion per entry, between which the
distributor adds and removes: the mutex that should exclude this is never
locked. A call that fails is a call that leaves things as they are; one that
clears leaves them half way.

#### Bytes: `Codec`

A message is its type and the bytes of its body; what the protobuf library makes
of the body is the constant `Parses`. `Encode` writes the version, the two bytes of
the length, each cut to 8 bits, and the type; the decoder is given by what it
refuses, waits for, takes and leaves (`Refuses`, `Waits`, `TakesFrame`, `RestOf`). Numbers of an
UPDATE are wider on the wire than in the program; the conversions cut them by
`% 256` and `% 65536` as `as` does.

## Runs

`tlc -workers 2 -config X.cfg M`; each takes less than two and a half minutes. Deadlock
checking is on for the route table only. An instance of `MetalBond` does come to a
standstill, which the runs `wedge` and `queue_deadlock` show; a connection whose two ends
are gone, an instance after `shutdown()`, and a process that does not start in
`Netlink` are the end of these systems.

| configuration | shows |
|---|---|
| `MCRouteTable` | `NoEmptyMaps`, `QueriesAgree`, refinement of `RouteStore` |
| `MetalBondServer` | `TypeOK`, `NoLostRoute`, `ClosedIsFinal`: a server, two clients, both subscribe, one announces, messages in any order |
| `MetalBondClient` | `NoPhantomRoute`, `GuardsExclude`, `NoLostSubscription`: the application announces a route a server announces too, subscribes and unsubscribes, while the connection is set up, fails and comes back; OS failures |
| `MetalBondNat` | `NatNeverReflected`, `StaysInstalled`: a NAT and a standard route of one peer |
| `MCSession` | `TypeOK`, `EstablishedAgree`, `NobodyGreetsFirst`, `UpdatesFindEstablished`, refinement of `Link`; under fairness `SignalsEndConnections` and `HandshakeCompletes`: none or one of the ends greets, load, timers, signals and breaks at any time |
| `Lifecycle` | `TypeOK`, `OneTaskPerAddress`, `EntriesAreLive`, `HandledIsListed`, `NothingLeftRunning`, `AlwaysRetries`; under fairness `LostConnectionsRetried` and `ShutdownEnds`: a client or a server from its start to the end of `shutdown()`, with tasks that get stuck with the lock |
| `MCNetlink` | `TypeOK`, `ForeignUntouched`, `WithdrawalsAreExact`, refinement of `OsClient`: restarts with other tables, with and without IPv6, also with tables that coincide or are 0 in 8 bits |

Some of these hold under a condition that is part of the property, because the
code gives no more:

- `NoLostRoute` and `StaysInstalled` are about routes that exactly one peer announces, and not
  the application. With two announcers a Remove of one of them may be the last word
  (`MetalBondSharedRoute`), and what the application announces never is in the table.
- `NoLostRoute` also asks that no address comes back: a SUBSCRIBE that is processed after
  its connection was Closed stays in `subscribers`, and the next connection from there gets
  no replay. `MetalBondServer`, where no address comes back, checks it.
- `StaysInstalled` excepts a clear of the VNI by `subscribe` or `unsubscribe`, after which the routes
  in the table are not installed again, and an add that the OS refuses.
- `NatNeverReflected` is about routes the application does not announce too; an update of the
  application has another source than the peer, and is not kept from it.
- `NobodyGreetsFirst` says that two ends of this program never get to Established, so
  everything after the handshake is about a connection with another
  implementation at one end.
- `UpdatesFindEstablished` holds if the greeting end is the one that opened the
  connection. If it is the one that accepted, it is Established last, and messages
  of a client may find it before that.
- `SignalsEndConnections` and `HandshakeCompletes` except the state `MutualSend`, in which both
  ends wait in `framed.send` for the other to read. It can be reached, and nothing but
  a break of the connection leads out of it.
- `SignalsEndConnections` also counts an end as ended whose cleanup has blocked itself
  (`Wedged`), as that of an accepting end does once its peer has subscribed: its `handle_peer`
  never returns. And it excepts an end that sends to such a peer, which does not read
  (`Unread`). That both ends are gone in the end cannot be promised of this code.
- `ShutdownEnds` excepts a loop that missed the one wake-up (`Missed`; the run `LifecycleShutdown`
  shows that this happens) and a task that waits for ever with the lock (`Stuck`; the runs
  `MetalBondWedge` and `MetalBondQueueDeadlock` show that this happens). The deadline of five seconds
  helps in neither case. A `shutdown()` called when the lock is stuck already does not come past
  its first statement (`metalbond.rs:452`).
- `LostConnectionsRetried` excepts `Stuck` as well.
- `HandledIsListed` holds if an address comes back only after its old task ended. With
  reuse, the end of the old task removes the entry of the new one.
- `ImplementsOsClient` holds if the configuration is `Sound`: tables that differ in their low
  8 bits, none of them 0 there, and no two routes that the kernel cannot tell
  apart. Nothing in the code checks this. `ForeignUntouched` and `WithdrawalsAreExact` hold for every
  configuration, but the second says less where it is not sound: a clear takes the routes
  of every VNI whose table is the same in 8 bits (`SameTable`), so that clearing a VNI on table 1
  deletes the routes of one on table 257 (`netlink.rs:95`), and a removal takes whatever entry
  the kernel matches. That it touches its own VNI or route only is `WithdrawnAlone`, which assumes
  `Sound`.

Bounds. In `MetalBond`, two peers are enough for one to act on another's routes,
subscriptions and lock; a third would only repeat the second. One peer is enough
for `NoLostSubscription`, `GuardsExclude`, `NatNeverReflected`, `StaysInstalled` and `NoPhantomRoute`, which
relate a connection to the application and to itself; that none of them depends on
the number of peers is proved. One VNI: no operation relates two. Two routes only
where the kind of route matters. The update channel has room for one (two in
`Nat`) so that it is full with two updates pending, and a peer's channel for two
so that it can be full after a HELLO and one more message: the real
capacities, 1024 and 256, are reached in the same way after longer runs.

In `Session` the channel holds two messages and each socket one, which is enough for
a full channel, a waiting send and a mutual one; up to two messages precede the first
KEEPALIVE (`MaxFirstUpdates`), so that what is sent at Established may fit or not. `Load`, `TriggerShutdown` and `Greet`
come one at a time, and load only to an empty channel: the timers and answers fill
it up. In `Lifecycle` there is one address and two tasks: an ended task stands for the
next one, addresses do not act on each other, and two tasks at one address are what the
properties are about. In `Netlink`, five routes: two to one network by different
hops, one to an IPv6 network, and one of each kind in the other VNI; table pairs
that are sound, coincide in 8 bits, or are 0 there; entries of others in a VNI's
table and in the main one. No other counter is bounded: all state spaces are finite
and are explored completely (`MCSession` has 93 thousand states, `Lifecycle` 137 thousand,
`MCNetlink` 27 thousand). The one symmetry, of the VNIs, destinations and next hops in
`MCRouteTable`, is sound: the module compares them for equality only, and refinement
has no liveness.

### What the code does not do

Each of these runs expects a violation, of a property that words what the source
says of itself (quoted at the property and under `findings`):

| configuration | property | what happens |
|---|---|---|
| `MetalBondWedge` | `ClosedPeersLeave` | cleanup asks for the write lock while it holds a read guard; every task stops there |
| `MetalBondQueueDeadlock` | `UpdatesAreDistributed` | a sender waits for room with the write guard, the distributor for its read guard |
| `MetalBondSharedRoute` | `RemovedWhenUnannounced` | the loss of one of two servers removes routes that the other announces |
| `MetalBondAnnounce` | `AnnouncementsReachServers` | announcements after Established go to subscribers only, and servers never are |
| `LifecycleShutdown` | `ListenerSeesShutdown` | a listener that pauses after a failed accept is not waiting, so `notify_waiters` does not reach it, and `shutdown()` awaits it with the write guard |

### Fairness

Liveness is checked under `FairSpec` of the three modules that have one: `MetalBond` (the
runs `wedge` and `queue_deadlock`), `Session` and `Lifecycle` (the run `shutdown` too). The runtime
runs every task that can run. The lock and the channels serve waiters in order,
and `select!` picks among the arms that are ready at random, so that none is passed
over for ever.

- `MetalBond`: strong fairness for the rest of a started handler, for the distributor
  and for a started application call, which wait for lock and channels; and for
  `Shutdown`, an arm. Nothing is assumed of connections, frames, timers, sockets and
  new calls. Both violations end in a state where the fair actions are disabled
  for good.
- `Session`: weak fairness for the start and for a send that can finish, strong
  fairness for the arms of frames, of sending and of the signal, which other arms
  may interrupt. `Greet` is fair, since the other implementation repeats its
  KEEPALIVE. Timers, load, signals and breaks are not.
- `Lifecycle`: weak fairness for the start and end of the loops, for the tasks' own
  progress and their next attempt, for the end of a pause, for the work on what
  was received, and for the steps of `shutdown()`. What the network does, what arrives
  and which calls are made is not fair: a connection may take for ever to be made.

## Proofs

`tlapm M.tla` checks each of the eight proof modules in about a minute at most. The
theorems hold for all values of the constants: any number of peers, routes, VNIs,
tasks, tables and capacities. They use the assumptions `ConstantsOK` (the constants
are of their kind, the capacities positive) and `NoUpdateIsNone` (the mark for an idle
distributor is no update) of `MetalBond`, `LocalIsNoPeer` of `RouteTable` (the application is
none of the peers), `CapsOK` of `Session` (channel and socket take at least one message),
`NoneOK` of `Lifecycle` (the mark for nobody is nobody), and `NetlinkOK` of `Netlink` (the
constants are of their kind, entries of others are not ours and one to a network and
table), which TLC evaluates in the runs. `Codec` assumes nothing.

| theorem | establishes |
|---|---|
| `TypeCorrect` | `[]TypeOK` of `MetalBond` |
| `GuardsAreExclusive` | `[]GuardsExclude` |
| `NoPhantoms`, `InstalledRoutesStay` | `[]NoPhantomRoute`, `StaysInstalled`: the OS has what the table has |
| `NothingIsLost` | `[]NoLostRoute` |
| `NatStaysAway` | `[]NatNeverReflected` |
| `SubscriptionsReachConnections` | `[]NoLostSubscription` |
| `ClosedForGood` | `ClosedIsFinal` |
| `TableTypeCorrect`, `NothingEmpty`, `QueriesRight` | `[]TypeOK`, `[]NoEmptyMaps`, `[]QueriesAgree` of `RouteTable` |
| `TableImplementsStore` | every behaviour of `RouteTable` is one of `RouteStore` |
| `SessionTypeCorrect` | `[]TypeOK` of `Session` |
| `EstablishedEndsAgree`, `NobodyEstablished`, `UpdatesAfterHandshake` | `[]EstablishedAgree`, `[]NobodyGreetsFirst`, `UpdatesFindEstablished` |
| `SessionImplementsLink` | every behaviour of `Session` is one of `Link` |
| `LifecycleTypeCorrect`, `OneTask`, `EntriesLive`, `HandledListed`, `ShutdownLeavesNothing` | the invariants of `Lifecycle` |
| `NeverGivesUp` | `AlwaysRetries` |
| `NetlinkTypeCorrect` | `[]TypeOK` of `Netlink` |
| `ForeignStays`, `WithdrawnExactly` | `ForeignUntouched`, `WithdrawalsAreExact`, for every configuration |
| `WithdrawnAlone` | with a `Sound` configuration, a route leaves the kernel by a call for it or while its own VNI is cleared |
| `NetlinkImplementsOsClient` | every behaviour of `Netlink` is one of `OsClient` |
| `WedgeIsForever`, `QueueDeadlockIsForever` | no step changes the shared state or the OS once one of the two deadlocks of the lock is there |
| `MissedForGood` | a loop that missed the wake-up never ends, and `shutdown()` never returns |
| `StuckForGood` | a task that waits for ever with the lock does so whatever happens, and `shutdown()` does not come past its last use of the lock |
| `MutualSendStays` | only the loss of the connection ends a mutual send |
| `FramesAreRead`, `PartsAreKept`, `FramesAreTaken` | of a stream of frames, each is read as it was sent, nothing is taken of a part, and every frame taken makes the buffer shorter |
| `RoutesAreRead`, `TakenIsPassedOn` | a route comes back from its wire form; what a server took, it passes on as it took it |

*Types.* `TypeOK` of `MetalBond` is inductive. The one part that needs an argument
is the bound of the update channel: a sender that keeps the write guard takes
it by `MayWrite`, hence finds at most `QueueCap` updates there and leaves at most
one more (`WritersFindRoom`), and a cleanup, which holds only a read guard, waits
for room first.

*Lock.* `GuardsExclude` is inductive given the types. A step that sends takes the write guard
by `MayWrite`, so it finds no cleanup, and the sender stands where a send leaves it
(`WriterSends`). Every other step moves one task only. While the channel is overfull this
is not the sender, and the steps that would start a cleanup or wedge the lock wait
for a guard they cannot have (`OneMoves`).

*Phantoms.* `NoPhantomRoute` is inductive given the types. A route in the outcome
of the updates on their way must be accounted for, by the table, by
`my_announcements` or by a cleanup. A step that touches neither changes nothing
(`QuietKeeps`). A step that sends appends one update, which decides about its
route alone (`OutcomeAppend`): an Add is sent in the step that puts the route into
the table, and after a Remove nothing need account for the route (`SendKeeps`). A
cleanup that takes a peer out of the table has the routes in its list. When the
distributor applies the oldest update, the outcome of the others is the same
(`OutcomeCons`), or smaller if the OS refused.

*Sources.* The other properties of updates need to know where things come from
(`Sourced`): the table, the updates on their way and what handlers still go through
name a peer for a route only if it announces the route, and a peer whose cleanup has
begun is in the table nowhere. So a route of one announcer is held by this peer or by
nobody (`SoleHolder`), and a change of the table is either told by an Add, told by a
Remove once the route is gone, or not told because somebody else announces the
route, or because it is a cleanup that will (`ChangeIsTold`, `CleanupUntold`,
`CleanupTold`, `LocalTold`). `RouteSteps` sorts out the steps that are about none of it,
once for all proofs (`Aside`).

*NAT routes.* A reflection could come from the distributor, which compares the source of
the update, or from a replay, which was filtered by the table as it was at the
snapshot. `NatNeverReflected` therefore goes with `NoReflectionAhead`: a replay in progress has no
NAT route left whose only announcer is its receiver. By `Sourced` the two filters mean
the same.

*Installed and lost routes.* Both rest on `LastIsAdd`: while a route of one announcer is in the
table, the last update about it on its way, if there is one, is an Add. Then
`StaysInstalled` needs only that applying the oldest update leaves the outcome alone. For
`NoLostRoute` there are four ways to know a route: it was sent before, it is on its way, it is in
the list of a replay, or its snapshot is still to come; each step passes a route
from one to another (`TellKeeps`, `ToldKeeps`, `UntoldKeeps`, `DistributeKeeps`). That
an older Remove cannot undo a replay is `LastIsAdd` again. That the snapshot is about the VNI that was subscribed is `OneVniAtATime`,
and that a new connection is not taken for a subscriber is `NewAreUnsubscribed`, the part that
needs addresses not to come back.

*Subscriptions.* `NoLostSubscription` alone is not inductive. `subscribe` collects
the connections from the peers map, so an Established one must be in it
(`TasksAreListed`, which follows a task through its places), and an `unsubscribe` in
progress must be for a VNI that is not subscribed, or its messages would undo a
subscription (`CallsAreTrue`). With these, each handler keeps it: the state is
Established before the VNIs are copied, and the VNI is inserted before the
connections are collected.

*Closed.* A connection leaves Closed only with its `Peer` struct. The one handler
that sets the state without looking at it is the first HELLO, and it runs only
while the connection is Connecting (`TasksAreListed` again).

*Route table.* The inductive invariant `TableInv` says of each level that its keys
are of their kind, that it has no empty entry, and that the sets of sources are
finite, so that counting one gives a number. It passes up from the level an
operation changes to the level above. For the refinement, a lookup through the
three levels is computed after each operation (`LookupPut`, `LookupPrunedSet`,
`LookupPrunedMap`): an entry that was pruned reads like an empty one. The queries walk the
same levels; as none of them has an empty entry, a key that is there has a source
below it, which is what `QueriesAgree` asks.

*Two ends.* The types of `Session` need that a task which has not started has sent nothing
(`StartInv`), for the first HELLO is put into the channel without looking for room. The rest
follows from what an end has on its way, be it in the channel, inside `framed.send` or
in the socket (`Carried`). The accepting end sends a HELLO, and the opening end anything
but a HELLO, only after what it answers has arrived, so the states of both ends are
known (`HellosFirst`); nothing but HELLOs is carried if nobody greets (`NobodyStarts`); and if
only the opening end greets, the other one is Established before it sends a KEEPALIVE
and both are before an UPDATE is sent (`UpdatesLast`). For the refinement the three places are one queue, `Waiting`. Reading takes its
head; the arm that sends moves a message from place to place and leaves the queue as
it is (`SendWaits`); a break cuts it to what is in the socket, of which a beginning stays
readable (`LoseLinks`).

*Tasks.* The invariants of `Lifecycle` need each other and four more. The handle of a
client's task is kept until the task is told to stop (`HandlesKept`), which is why
`add_peer`, which looks at the handles, starts no second one; it needs that a task
does not end its loop before `shutdown()` (`EndingInv`), which needs that it always
retries. That in turn rests on `ListedIsOwn`: what is listed under the address of such a
task is its own `Peer`, or that of an aborted task whose connection is not Closed; so
a task that has unlisted its `Peer` never asks a Closed one for its state. `ShutdownInv`
follows `shutdown()` through its places: which loops have ended by then, and that a
client's tasks are aborted once the handles are drained. That a task stuck with the
lock is not an aborted one (`StuckKept`), since aborting takes the lock, makes `StuckForGood`
hold: nothing drops such a task.

*Kernel.* `NetlinkInv` adds to the types that a clear in progress is for a VNI with a
table and works on entries of that table (`ClearIsSane`), and that while the process
starts, the tables cleared so far have no entry of ours (`CleanStart`). With a sound
configuration an entry of ours belongs to one route (`OwnEntry`), so each step that
changes the kernel installs or withdraws one (`InstalledStep`), and when the last VNI is
cleared there is none (`ComesUpEmpty`). With any configuration a deletion of a clear takes an entry of the
table listed, which is that of the VNI cleared in 8 bits (`ClearTakesItsTable`); only then does
`WithdrawnAlone` use that the tables differ.

*Bytes.* A body has at most 1188 bytes, so its length fits the two bytes of the
header and is read back from them; the rest is where the body begins and ends in
the buffer. `FramesAreRead` holds with anything behind the frame and `PartsAreKept` for every
proper beginning of it, so it makes no difference how the network cuts the
stream. No run evaluates `Codec`: what it says is not about steps.

*For ever.* A run shows that a deadlock can be reached in a small instance; that nothing
leads out of it is a matter of every action, in an instance of any size. `DeadlockSteps` goes
through them: in either deadlock of the lock no step gets a guard, and what steps do
without one changes nothing that is shared. `MissedStep`, `StuckStep` and `MutualSendStays` say the same of
states that the liveness properties except.

`TypeOK` of `RouteTable` is proved, since the other proofs rest on it, and not run: Rust's types grant it.

Every invariant, action property and refinement of the passing runs is proved. Only
model-checked are the liveness properties of `Session` (`SignalsEndConnections`, `HandshakeCompletes`) and of
`Lifecycle` (`LostConnectionsRetried`, `ShutdownEnds`), and the runs that end in a violation. Liveness under
fairness and `ENABLED` are out of the prover's reach and stay with TLC, as would
induction over the data of a recursive definition and `RECURSIVE` operators; no module
here has either of the last two.

## Not modelled, and the plan

In the order in which they are planned:

1. `EndToEnd`: a client, a server and a second client on links as `Link` promises them; what
   an unsubscription leaves in the tables; whether views converge.
2. `StateLock`: the fair `RwLock` and the bounded channel with their waiting lines, to
   show that `MayRead`, `MayWrite` and the update beyond the capacity are a sound
   abstraction of them (refinement).
3. In the modules that exist: that `remove_peer`, which nothing calls, also withdraws
   routes; the poll order of `select!`, which decides whether the keepalive timeout is still
   armed (both modules let it fire at any time, and no property counts on it).

Left out for good: the HTTP server, which only reads the table; the parsing of
the command line, of which the calls it makes are in `LocalApi` and the tables it accepts in
`Netlink`; the build; the formatting, parsing and ordering of addresses.
