----------------------------- MODULE Lifecycle -----------------------------
(* The tasks of one instance, from their start to shutdown(): the loops    *)
(* that start() and start_server() spawn, the tasks of the connections a   *)
(* server accepts and those that manage a client's connections, the maps   *)
(* that name them, and the calls add_peer, remove_peer and shutdown        *)
(* (src/metalbond.rs).  What the tasks say to each other is in Session,    *)
(* what they do to the routes in MetalBond.  Of the state's lock the       *)
(* guards kept across a wait are here: the one of shutdown() while the     *)
(* listener ends, and those of a connection's task that never gets on.  A  *)
(* call of the application that never gets on with a guard keeps it from   *)
(* calling shutdown() at all, and is left out.                             *)
EXTENDS Naturals

CONSTANTS
    Addrs, \* remote addresses
    Tasks, \* tasks of connections; an ended one may be spawned again
    None   \* no task, no address

ASSUME NoneOK == None \notin Tasks /\ None \notin Addrs

VARIABLES
    mode,      \* is_server
    reuse,     \* a remote address may come back before its old task ended
    peers,     \* peers[a]: the task of the Peer listed under the address
    peerTasks, \* peerTasks[a]: the task whose handle is kept
    at, addr,  \* where a task is, and for which address
    closed,    \* tasks whose Peer's state is Closed
    signal,    \* tasks whose shutdown_signal holds a permit
    aborted,   \* tasks aborted: each ends where it waits next
    loop,      \* where the listener, the manager and the distributor are
    woken,     \* loops and tasks that notify_waiters found waiting
    sd,        \* where shutdown() is
    drained    \* the handles shutdown() joins

taskVars == <<at, addr, closed, signal, aborted>>
maps == <<peers, peerTasks>>
calls == <<sd, drained>>
vars == <<mode, reuse, maps, taskVars, loop, woken, calls>>

Loops == {"listener", "manager", "distributor"}
Places == {"done", "starting", "connecting", "entering", "handling",
           "losing",  \* in the cleanup after the connection was lost
           "closing", \* in the cleanup after a shutdown signal
           "wedged",  \* holds the lock and waits for ever
           "leaving", "deciding", "retrying", "ending"}
LoopPlaces == {"none", "starting", "select", "busy", "pause", "done"}
ShutdownPlaces == {"running", "takeListener", "awaitListener", "awaitManager", "drain",
                   "join", "signal", "waitPeers", "awaitDistributor", "returned"}

IsServer == mode = "server"

Init ==
    /\ mode \in {"client", "server"}
    /\ reuse \in IF IsServer THEN BOOLEAN ELSE {FALSE}
    /\ peers = [a \in Addrs |-> None] /\ peerTasks = [a \in Addrs |-> None]
    /\ at = [t \in Tasks |-> "done"] /\ addr = [t \in Tasks |-> None]
    /\ closed = {} /\ signal = {} /\ aborted = {}
    /\ loop = [l \in Loops |-> IF l = "listener" /\ ~IsServer THEN "none" ELSE "starting"]
    /\ woken = {} /\ sd = "running" /\ drained = {}

(* Every variable has its type, and a task has an address while it runs.   *)
(* A server keeps no handles: nobody can abort what it accepted.           *)
TypeOK ==
    /\ mode \in {"client", "server"} /\ reuse \in BOOLEAN
    /\ peers \in [Addrs -> Tasks \cup {None}] /\ peerTasks \in [Addrs -> Tasks \cup {None}]
    /\ at \in [Tasks -> Places] /\ addr \in [Tasks -> Addrs \cup {None}]
    /\ \A t \in Tasks : addr[t] = None <=> at[t] = "done"
    /\ IsServer => \A a \in Addrs : peerTasks[a] = None
    /\ closed \subseteq Tasks /\ signal \subseteq Tasks /\ aborted \subseteq Tasks
    /\ loop \in [Loops -> LoopPlaces] /\ woken \subseteq Loops \cup Tasks
    /\ sd \in ShutdownPlaces /\ drained \subseteq Tasks

-----------------------------------------------------------------------------
(* A task that waits for ever while it holds the lock of the state.  The   *)
(* lock is fair: nobody gets it any more, for reading or for writing.      *)
Stuck == \E t \in Tasks : at[t] = "wedged"

(* shutdown() awaits the listener in the body of an if let whose condition *)
(* locked the state for writing, and the guard lives as long as the body.  *)
LockFree == sd # "awaitListener" /\ ~Stuck

MoveTask(t, from, to) == at[t] = from /\ at' = [at EXCEPT ![t] = to]
MoveLoop(l, from, to) == loop[l] = from /\ loop' = [loop EXCEPT ![l] = to]

(* The arm of a select that wins drops the other ones, and with them a     *)
(* wake-up by notify_waiters that was not seen yet.                        *)
ForgetWakeUp(x) == woken' = woken \ {x}

(* A task that nothing refers to any more, to stand for a new one.         *)
Free(t) == /\ at[t] = "done" /\ t \notin drained
           /\ \A a \in Addrs : peers[a] # t /\ peerTasks[a] # t

Spawn(t, a, place) ==
    /\ Free(t)
    /\ at' = [at EXCEPT ![t] = place] /\ addr' = [addr EXCEPT ![t] = a]
    /\ closed' = closed \ {t} /\ signal' = signal \ {t} /\ aborted' = aborted \ {t}

End(t) == /\ at' = [at EXCEPT ![t] = "done"] /\ addr' = [addr EXCEPT ![t] = None]
          /\ ForgetWakeUp(t)
          /\ signal' = signal \ {t} \* nobody will take it
          /\ UNCHANGED aborted

-----------------------------------------------------------------------------
(* The three loops.  Each clones shutdown_notify under the lock and then   *)
(* selects between it and its work.                                        *)
LoopStarts(l) ==
    /\ LockFree /\ MoveLoop(l, "starting", "select")
    /\ UNCHANGED <<mode, reuse, maps, taskVars, woken, calls>>

LoopEnds(l) ==
    /\ l \in woken /\ MoveLoop(l, "select", "done")
    /\ ForgetWakeUp(l)
    /\ UNCHANGED <<mode, reuse, maps, taskVars, calls>>

\* A connection is accepted, or an update received: the lock comes next.
Works(l) ==
    /\ l \in {"listener", "distributor"} /\ MoveLoop(l, "select", "busy")
    /\ ForgetWakeUp(l)
    /\ UNCHANGED <<mode, reuse, maps, taskVars, calls>>

ManagerTicks ==
    /\ loop["manager"] = "select" /\ ForgetWakeUp("manager")
    /\ UNCHANGED <<mode, reuse, maps, taskVars, loop, calls>>

AcceptFails ==
    /\ MoveLoop("listener", "select", "pause")
    /\ ForgetWakeUp("listener")
    /\ UNCHANGED <<mode, reuse, maps, taskVars, calls>>

PauseEnds ==
    /\ MoveLoop("listener", "pause", "select")
    /\ UNCHANGED <<mode, reuse, maps, taskVars, woken, calls>>

SpawnIncoming(t, a) ==
    /\ LockFree /\ MoveLoop("listener", "busy", "select")
    /\ reuse \/ \A u \in Tasks : addr[u] # a
    /\ Spawn(t, a, "entering")
    /\ UNCHANGED <<mode, reuse, maps, woken, calls>>

Distributes ==
    /\ LockFree /\ MoveLoop("distributor", "busy", "select")
    /\ UNCHANGED <<mode, reuse, maps, taskVars, woken, calls>>

-----------------------------------------------------------------------------
(* The task of a connection: manage_single_outgoing_connection at a        *)
(* client, the task spawned by the listener at a server, which enters at   *)
(* once and ends when it has left.                                         *)
Waits(t) == at[t] \in {"connecting", "handling", "retrying"}

Step(t, from, to) ==
    /\ MoveTask(t, from, to)
    /\ UNCHANGED <<mode, reuse, addr, aborted, loop, calls>>

Starts(t) == /\ LockFree /\ Step(t, "starting", "connecting")
             /\ UNCHANGED <<maps, closed, signal, woken>>

Connects(t) == /\ t \notin aborted /\ Step(t, "connecting", "entering") /\ ForgetWakeUp(t)
               /\ UNCHANGED <<maps, closed, signal>>

FailsToConnect(t) ==
    /\ t \notin aborted /\ Step(t, "connecting", "retrying") /\ ForgetWakeUp(t)
    /\ UNCHANGED <<maps, closed, signal>>

Retries(t) == /\ t \notin aborted /\ Step(t, "retrying", "connecting") /\ ForgetWakeUp(t)
              /\ UNCHANGED <<maps, closed, signal>>

\* The Peer is new: its state is not Closed, its signal not given.
Enters(t) ==
    /\ LockFree /\ Step(t, "entering", "handling")
    /\ peers' = [peers EXCEPT ![addr[t]] = t]
    /\ closed' = closed \ {t} /\ signal' = signal \ {t}
    /\ UNCHANGED <<peerTasks, woken>>

\* Mutant: the state is set, the shutdown not triggered.
SignalsNobody(t) == UNCHANGED signal

\* handle_peer sets Closed and tells itself to end.
SignalsItself(t) == signal' = signal \cup {t}

\* If the connection was Established, set_state(Closed) runs the cleanup first.
LosesConnection(t) ==
    /\ t \notin aborted \cup closed /\ at[t] = "handling"
    /\ closed' = closed \cup {t}
    /\ \/ SignalsItself(t) /\ UNCHANGED at
       \/ MoveTask(t, "handling", "losing") /\ UNCHANGED signal
    /\ UNCHANGED <<mode, reuse, maps, addr, aborted, loop, woken, calls>>

\* The signal is seen; an Established connection is cleaned up here too.
HandlerReturns(t) ==
    /\ t \notin aborted /\ t \in signal
    /\ \/ Step(t, "handling", "leaving")
       \/ t \notin closed /\ Step(t, "handling", "closing")
    /\ closed' = closed \cup {t} /\ signal' = signal \ {t}
    /\ UNCHANGED <<maps, woken>>

CleansUp(t) ==
    /\ LockFree /\ t \notin aborted
    /\ \/ Step(t, "losing", "handling") /\ SignalsItself(t)
       \/ Step(t, "closing", "leaving") /\ UNCHANGED signal
    /\ UNCHANGED <<maps, closed, woken>>

(* The cleanup after a peer that subscribed waits for a guard it keeps     *)
(* away itself; a handler, or a cleanup, may wait for room in the channel  *)
(* to a distributor that first needs the lock.                             *)
MayWedge(t) == \/ at[t] \in {"losing", "closing"}
               \/ at[t] = "handling" /\ loop["distributor"] \in {"starting", "busy"}

Wedges(t) ==
    /\ LockFree /\ t \notin aborted /\ MayWedge(t)
    /\ Step(t, at[t], "wedged")
    /\ UNCHANGED <<maps, closed, signal, woken>>

\* Mutant: the entry is left to a cleanup that does not remove it.
UnlistNothing(t) == UNCHANGED peers

\* Whatever is listed under the address is removed.
Unlist(t) == peers' = [peers EXCEPT ![addr[t]] = None]

Leaves(t) ==
    /\ LockFree /\ at[t] = "leaving" /\ Unlist(t)
    /\ \/ IsServer /\ End(t) /\ closed' = closed \ {t}
       \/ ~IsServer /\ at' = [at EXCEPT ![t] = "deciding"]
          /\ UNCHANGED <<addr, closed, signal, aborted, woken>>
    /\ UNCHANGED <<mode, reuse, peerTasks, loop, calls>>

\* Mutant: the state is asked before the Peer is unlisted.
OwnIsClosed(t) == t \in closed

\* The state is asked of the Peer now listed: the own one has been removed.
AskedIsClosed(t) == peers[addr[t]] \in closed

Decides(t) ==
    /\ LockFree /\ at[t] = "deciding" /\ t \notin aborted
    /\ Step(t, "deciding", IF AskedIsClosed(t) THEN "ending" ELSE "retrying")
    /\ closed' = closed \ {t}
    /\ UNCHANGED <<maps, signal, woken>>

SeesShutdown(t) ==
    /\ t \in woken \ aborted
    /\ Step(t, "connecting", "ending") \/ Step(t, "retrying", "ending")
    /\ ForgetWakeUp(t) /\ UNCHANGED <<maps, closed, signal>>

EndsItself(t) ==
    /\ LockFree /\ at[t] = "ending" /\ End(t)
    /\ peerTasks' = [peerTasks EXCEPT ![addr[t]] = None]
    /\ UNCHANGED <<mode, reuse, peers, closed, loop, calls>>

(* An aborted task is dropped where it waits next.  Bound: until then it   *)
(* takes the lock at most once more, to enter or to leave.                 *)
Dies(t) ==
    /\ t \in aborted /\ at[t] # "done" /\ End(t)
    /\ UNCHANGED <<mode, reuse, maps, closed, loop, calls>>

-----------------------------------------------------------------------------
\* The tasks that trigger_shutdown reaches through the peers listed.
Signalled(S) == {t \in Tasks : at[t] # "done" /\ \E a \in S : peers[a] = t}

(* The calls.  shutdown() borrows the instance mutably: there is no other  *)
(* call once it has begun.                                                 *)
\* Mutant: only the connections are looked at, not the attempts.
ListedOnly(a) == peers[a] # None

Known(a) == peers[a] # None \/ peerTasks[a] # None

\* Mutant: a server connects out as well.
OpenToAll == TRUE

ClientOnly == ~IsServer

AddPeer(a, t) ==
    /\ sd = "running" /\ ClientOnly /\ LockFree /\ ~Known(a)
    /\ Spawn(t, a, "starting")
    /\ peerTasks' = [peerTasks EXCEPT ![a] = t]
    /\ UNCHANGED <<mode, reuse, peers, loop, woken, calls>>

\* Mutant: the handles are only dropped.
AbortNone(S) == UNCHANGED aborted

Abort(S) == aborted' = aborted \cup S

\* Mutant: remove_peer unlists the Peer itself.
UnlistAtOnce(a) == peers' = [peers EXCEPT ![a] = None]

\* The Peer stays listed: its task is to unlist it.
LeaveListed(a) == UNCHANGED peers

RemovePeer(a) ==
    /\ sd = "running" /\ LockFree /\ Known(a)
    /\ Abort({peerTasks[a]} \ {None}) /\ LeaveListed(a)
    /\ peerTasks' = [peerTasks EXCEPT ![a] = None]
    /\ signal' = signal \cup Signalled({a})
    /\ UNCHANGED <<mode, reuse, at, addr, closed, loop, woken, calls>>

Advance(from, to) == sd = from /\ sd' = to

Waiters == {l \in Loops : loop[l] = "select"}
             \cup {t \in Tasks : at[t] \in {"connecting", "retrying"}}
Notify ==
    /\ LockFree /\ Advance("running", "takeListener") /\ woken' = Waiters
    /\ UNCHANGED <<mode, reuse, maps, taskVars, loop, drained>>

\* A client has no listener to wait for.
TakeListener ==
    /\ LockFree /\ Advance("takeListener", IF IsServer THEN "awaitListener" ELSE "awaitManager")
    /\ UNCHANGED <<mode, reuse, maps, taskVars, loop, woken, drained>>

\* Mutant: shutdown() does not wait for the loops.
NotAwaited(l) == TRUE

Awaited(l) == loop[l] = "done"

LoopAwaited(l, from, to) ==
    /\ Awaited(l) /\ Advance(from, to)
    /\ UNCHANGED <<mode, reuse, maps, taskVars, loop, woken, drained>>

Handles == {peerTasks[a] : a \in Addrs} \ {None}
Drain ==
    /\ LockFree /\ Advance("drain", "join")
    /\ drained' = Handles /\ Abort(Handles)
    /\ peerTasks' = [a \in Addrs |-> None]
    /\ UNCHANGED <<mode, reuse, peers, at, addr, closed, signal, loop, woken>>

Join ==
    /\ \A t \in drained : at[t] = "done"
    /\ Advance("join", "signal")
    /\ UNCHANGED <<mode, reuse, maps, taskVars, loop, woken, drained>>

SignalPeers ==
    /\ LockFree /\ Advance("signal", "waitPeers")
    /\ signal' = signal \cup Signalled(Addrs)
    /\ UNCHANGED <<mode, reuse, maps, at, addr, closed, aborted, loop, woken, drained>>

(* The map is empty, or five seconds have passed; the state is read before *)
(* the deadline is looked at.                                              *)
PeersAwaited ==
    /\ LockFree /\ Advance("waitPeers", "awaitDistributor")
    /\ UNCHANGED <<mode, reuse, maps, taskVars, loop, woken, drained>>

ShutdownStep ==
    \/ TakeListener
    \/ LoopAwaited("listener", "awaitListener", "awaitManager")
    \/ LoopAwaited("manager", "awaitManager", "drain")
    \/ Drain \/ Join \/ SignalPeers \/ PeersAwaited
    \/ LoopAwaited("distributor", "awaitDistributor", "returned")

-----------------------------------------------------------------------------
\* What the runtime does by itself, and what depends on the world around.
LoopProgress(l) == LoopStarts(l) \/ LoopEnds(l)

TaskProgress(t) ==
    \/ Starts(t) \/ Enters(t) \/ HandlerReturns(t) \/ CleansUp(t) \/ Leaves(t)
    \/ Decides(t) \/ SeesShutdown(t) \/ EndsItself(t) \/ Dies(t)

World(t) == \/ Connects(t) \/ FailsToConnect(t) \/ Retries(t)
            \/ LosesConnection(t) \/ Wedges(t)

Next ==
    \/ \E l \in Loops : LoopProgress(l) \/ Works(l)
    \/ ManagerTicks \/ AcceptFails \/ PauseEnds \/ Distributes
    \/ \E t \in Tasks : \/ TaskProgress(t) \/ World(t)
                        \/ \E a \in Addrs : SpawnIncoming(t, a) \/ AddPeer(a, t)
    \/ \E a \in Addrs : RemovePeer(a)
    \/ Notify \/ ShutdownStep

Spec == Init /\ [][Next]_vars

(* The runtime runs what can run, and the sleeps elapse.  What the network *)
(* does, what arrives and who calls what is not fair.                      *)
Fairness ==
    /\ \A l \in Loops : WF_vars(LoopProgress(l))
    /\ \A t \in Tasks : WF_vars(TaskProgress(t) \/ Retries(t))
    /\ WF_vars(PauseEnds) /\ WF_vars(Distributes)
    /\ WF_vars(\E t \in Tasks, a \in Addrs : SpawnIncoming(t, a))
    /\ WF_vars(ShutdownStep)

FairSpec == Spec /\ Fairness

-----------------------------------------------------------------------------
(* A client has at most one task per address that nobody told to stop:     *)
(* whatever the order of add_peer, remove_peer and failing connections.    *)
OneTaskPerAddress ==
    ~IsServer =>
        \A t, u \in Tasks \ aborted : addr[t] # None /\ addr[t] = addr[u] => t = u

Handling == {"handling", "losing", "closing", "wedged"}

(* A connection stays listed only while its task handles it, or for ever   *)
(* if the task was aborted: remove_peer and shutdown() count on            *)
(* handle_peer to unlist the Peer and abort the task that runs it.         *)
EntriesAreLive ==
    \A a \in Addrs : peers[a] # None =>
        \/ addr[peers[a]] = a /\ at[peers[a]] \in Handling \cup {"leaving"}
        \/ peers[a] \in aborted

(* A connection a server handles is listed, so that routes reach it and    *)
(* shutdown() finds it, if no address comes back before its old task ended.*)
HandledIsListed ==
    IsServer /\ ~reuse => \A t \in Tasks : at[t] \in Handling => peers[addr[t]] = t

(* Once shutdown() has returned, no loop runs, and of a client's tasks     *)
(* none that was not told to end.                                          *)
NothingLeftRunning ==
    sd = "returned" =>
        /\ \A l \in Loops : loop[l] \in {"none", "done"}
        /\ ~IsServer => \A t \in Tasks : at[t] = "done" \/ t \in aborted

(* "Don't retry if explicitly closed" (metalbond.rs:714) never applies: a  *)
(* client's task that lost its connection goes on to retry, however it was *)
(* lost.  The Peer is unlisted before its state is asked for.              *)
AlwaysRetries ==
    [][\A t \in Tasks \ aborted : at[t] = "deciding" => at'[t] # "ending"]_vars

(* It does connect again, unless it is told to stop or the lock is stuck.  *)
LostConnectionsRetried ==
    \A t \in Tasks :
        ~IsServer /\ at[t] \in Handling /\ t \in closed
            ~> at[t] = "connecting" \/ t \in aborted \/ sd # "running" \/ Stuck

(* shutdown() returns, whatever the connections do, unless a loop missed   *)
(* the only wake-up, because it was not waiting or another arm won, or a   *)
(* connection's task waits for ever with the lock: the deadline of five    *)
(* seconds (metalbond.rs:496) does not bound the wait for the lock.        *)
Missed(l) == loop[l] \notin {"none", "done"} /\ l \notin woken
ShutdownEnds ==
    sd # "running" ~> \/ sd = "returned"
                      \/ Stuck /\ sd # "awaitDistributor"
                      \/ \E l \in Loops : Missed(l)

-----------------------------------------------------------------------------
(* "If shutdown is triggered, the .notified() branch will eventually be    *)
(* taken" (metalbond.rs:159-160), said of a listener that pauses after a   *)
(* failed accept.  Refuted by a run of its own.                            *)
ListenerSeesShutdown ==
    loop["listener"] = "pause" /\ sd # "running" ~> loop["listener"] = "done"
=============================================================================
