----------------------------- MODULE Distributor -----------------------------
(* route_distributor_task (src/metalbond.rs): takes one update off the     *)
(* channel, then under the read lock hands it to the OS client and to the  *)
(* subscribed peers.  The OS client is external: its table is the set of   *)
(* installed routes; an add may be refused, and a route that is already    *)
(* gone counts as removed.                                                 *)
EXTENDS MetalBondState

Receive ==
    /\ inhand = NoUpdate /\ queue # <<>>
    /\ inhand' = Head(queue)
    /\ queue' = Tail(queue)
    /\ UNCHANGED <<stateVars, peerVars, taskVars, os, apiVars, histVars>>

\* Whom the update came from: is it a server?
SourceIsServer(source) ==
    IF source = Local THEN IsServer
    ELSE source \in peers /\ isRemoteServer[source]

\* Mutant: the source of a NAT route is not skipped.
TargetsWithSource(u) ==
    {p \in peers \cap subscribers[VniOf[u.route]] :
        ~(SourceIsServer(u.source) /\ isRemoteServer[p])}

(* The connected subscribers, without the source of a NAT route and        *)
(* without servers if the source is one.                                   *)
Targets(u) ==
    {p \in peers \cap subscribers[VniOf[u.route]] :
        /\ ~(p = u.source /\ u.route \in NatRoutes)
        /\ ~(SourceIsServer(u.source) /\ isRemoteServer[p])}

ApplyTo(S, u) == IF u.action = "Add" THEN S \cup {u.route} ELSE S \ {u.route}

\* A peer whose channel is full does not get the update; nothing else happens.
Distribute ==
    /\ inhand # NoUpdate /\ MayRead
    /\ \/ os' = ApplyTo(os, inhand)
       \/ OsMayFail /\ inhand.action = "Add" /\ os' = os
    /\ LET targets == Targets(inhand)
           sent    == {p \in targets : CanSend(p)}
       IN  /\ view' = [p \in Peers |-> IF p \in sent THEN ApplyTo(view[p], inhand)
                                                     ELSE view[p]]
           /\ txLen' = [p \in Peers |-> IF p \in sent THEN txLen[p] + 1 ELSE txLen[p]]
           /\ dropped' = dropped \cup (targets \ sent)
    /\ inhand' = NoUpdate
    /\ UNCHANGED <<stateVars, conn, isRemoteServer, remoteSubs, notified, taskVars,
                   queue, apiVars, asked>>

DistributorNext == Receive \/ Distribute
=============================================================================
