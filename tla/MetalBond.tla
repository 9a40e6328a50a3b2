----------------------------- MODULE MetalBond -----------------------------
(* One MetalBond instance: the tasks of its peers, the distributor and the *)
(* application, on the state they share; and what the instance promises.   *)
EXTENDS Peer, Distributor, LocalApi

Next == (\E p \in Peers : PeerNext(p)) \/ DistributorNext \/ ApiNext

Spec == Init /\ [][Next]_vars

(* The runtime runs every task that can run; the state lock and the        *)
(* channel serve their waiters in order, so that a step which waits for    *)
(* them is taken if it becomes possible again and again; and select picks  *)
(* its arm at random, so that a shutdown signal is seen in the end.  What  *)
(* the peers, the network, the timers and the application do is not fair.  *)
Fairness ==
    /\ \A p \in Peers : SF_vars(HandlerStep(p)) /\ SF_vars(Shutdown(p))
    /\ SF_vars(DistributorNext)
    /\ SF_vars(ApiStep)

FairSpec == Spec /\ Fairness

-----------------------------------------------------------------------------
(* The state lock is one: while a task waits for room in the channel with  *)
(* the write guard, no cleanup has its read guard, and that task stands    *)
(* where it sent, at the end of a handler or between two routes it         *)
(* withdraws, until there is room.                                         *)
GuardsExclude ==
    WriteHeld =>
        /\ \A p \in Peers : at[p] \notin {"cleanup", "wedged"}
        /\ \A p \in Peers : HoldsWrite(p) => at[p] \in {"select", "withdrawing"}

(* A route the OS has installed, or will have once the updates on their    *)
(* way are applied, is one that a peer announces or this instance does, or *)
(* one whose Remove a cleanup still has to send.  It says that the channel *)
(* carries the updates of a route in the order in which the table changed, *)
(* whichever tasks changed it: the reason for sending under the guard.     *)
NoPhantomRoute ==
    \A r \in Outcome(InFlight, os) :
        \/ table[r] # {} \/ r \in mine
        \/ \E p \in Peers : at[p] = "cleanup" /\ r \in todo[p]

Owners(r) == {p \in Peers : r \in Announces[p]}

(* A subscriber to which no message was refused knows, once it has read    *)
(* everything on its way, every route of the VNI in the table that is not  *)
(* kept from it (loop prevention), or its replay is not over: the snapshot *)
(* of process_subscribe and the distribution of later updates leave no gap *)
(* between them.  For the routes that one peer announces and nobody else.  *)
(* An address must not come back: a SUBSCRIBE that is processed after its  *)
(* connection closed stays in subscribers, so that a later connection from *)
(* there would be taken for one that had its replay.                       *)
KeptFrom(r, p) == r \in NatRoutes /\ p \in Owners(r)
Owed(r, p) == \/ at[p] = "snapshot" /\ VniOf[r] \in todo[p]
              \/ at[p] = "replaying" /\ r \in todo[p]
Sole(r)    == r \notin LocalRoutes /\ \E q \in Peers : Owners(r) = {q}
NoLostRoute ==
    ~Reconnects =>
        \A p \in peers, r \in Routes :
            /\ p \in subscribers[VniOf[r]] /\ p \notin dropped /\ ~isRemoteServer[p]
            /\ table[r] # {} /\ Sole(r) /\ ~KeptFrom(r, p)
            => r \in Outcome(InFlight, view[p]) \/ Owed(r, p)

(* Such a route, once it is in the table, is in the OS or on its way there *)
(* as long as it is in the table, whatever other tasks do: only a clear of *)
(* its VNI, by subscribe or unsubscribe, takes it out, or the OS refuses   *)
(* it.  With NoPhantomRoute, the OS has what the table has.                *)
StaysInstalled ==
    [][\A r \in Routes :
          /\ Sole(r) /\ table'[r] # {}
          /\ table[r] = {} \/ r \in Outcome(InFlight, os)
          => \/ r \in Outcome(InFlight, os)'
             \/ ClearRoutes /\ VniOf[r] \in apiVni
             \/ OsMayFail /\ Distribute /\ os' = os /\ inhand.route = r]_vars

(* A NAT route that only one peer announces is never sent back to it,      *)
(* neither by the distributor nor by the replay after a SUBSCRIBE, unless  *)
(* the application announces the route too.                                *)
NatNeverReflected ==
    \A p \in Peers, r \in NatRoutes \ LocalRoutes : Owners(r) = {p} => r \notin view[p]

(* A client's Established connection has been told of every VNI the        *)
(* client subscribes to, or is about to be: by set_state(Established), by  *)
(* the subscribe call in progress, or not, because a message was refused.  *)
(* subscribe() and the connection each look at what the other wrote, so no *)
(* interleaving of the two loses a subscription.                           *)
NoLostSubscription ==
    \A p \in Peers, v \in mySubs :
        conn[p] = "Established" =>
            \/ v \in asked[p] \/ p \in dropped
            \/ at[p] = "establishing"
            \/ at[p] = "subscribing" /\ v \in todo[p]
            \/ apiAt = "subscribe" /\ v \in apiVni /\ p \in apiTodo

(* A Closed connection never comes back to life: no message that is still  *)
(* processed after the error revives it; it ends with the Peer struct.     *)
ClosedIsFinal ==
    [][\A p \in peers : conn[p] = "Closed" => conn'[p] = "Closed" \/ p \notin peers']_vars

-----------------------------------------------------------------------------
(* What the source says of itself and the code does not do: each of these  *)
(* is refuted by a run of its own.                                         *)

\* Nothing is on its way: every task waits for input.
Settled == /\ queue = <<>> /\ inhand = NoUpdate /\ apiAt = "idle"
           /\ \A p \in peers : at[p] = "select" /\ ~notified[p]

(* "The handle_peer task should clean up and remove itself from            *)
(* state.peers" (metalbond.rs:231): a Closed connection leaves the map.    *)
ClosedPeersLeave == \A p \in Peers : (p \in peers /\ conn[p] = "Closed") ~> p \notin peers

(* "Task responsible for distributing route updates to subscribed peers"   *)
(* (metalbond.rs:521): an update it received is distributed.               *)
UpdatesAreDistributed == inhand # NoUpdate ~> inhand = NoUpdate

(* "You may define multiple servers" (main.rs:50), "Install routes via     *)
(* netlink" (main.rs:62): when a server's connection is lost, a route is   *)
(* removed only if no other connected server announces it.                 *)
Announced(r) == \E p \in table[r] : conn[p] = "Established"
RemovedWhenUnannounced ==
    [][\A r \in Routes, p \in Peers : Enqueue("Remove", r, p) => ~Announced(r)']_vars

(* "Announce Prefixes in VNIs" (main.rs:56): once all is quiet, every      *)
(* connected server has been sent the routes this client announces.        *)
AnnouncementsReachServers ==
    Settled /\ ~IsServer =>
        \A p \in peers : conn[p] = "Established" /\ p \notin dropped => mine \subseteq view[p]
=============================================================================
