------------------------------ MODULE LocalApi ------------------------------
(* The calls of the application (src/main.rs) on its MetalBond             *)
(* (src/metalbond.rs): subscribe, unsubscribe, announce_route and          *)
(* withdraw_route.  The application awaits each call before the next, so   *)
(* at most one is in progress; apiAt says which, apiVni for which VNI, and *)
(* apiTodo which of the peers it collected it still has to notify.         *)
EXTENDS MetalBondState

(* subscribe and unsubscribe: change my_subscriptions and collect the      *)
(* peers under the write lock, notify the peers with no lock held, then    *)
(* clear the VNI's routes in the OS under the read lock.                   *)
Subscribe(v) ==
    /\ apiAt = "idle" /\ ~IsServer /\ MayWrite
    /\ v \notin mySubs
    /\ mySubs' = mySubs \cup {v}
    /\ apiAt' = "subscribe" /\ apiVni' = {v} /\ apiTodo' = peers
    /\ UNCHANGED <<table, mine, subscribers, peers, peerVars, taskVars, distVars, histVars>>

Unsubscribe(v) ==
    /\ apiAt = "idle" /\ ~IsServer /\ MayWrite
    /\ v \in mySubs
    /\ mySubs' = mySubs \ {v}
    /\ apiAt' = "unsubscribe" /\ apiVni' = {v} /\ apiTodo' = peers
    /\ UNCHANGED <<table, mine, subscribers, peers, peerVars, taskVars, distVars, histVars>>

\* What a SUBSCRIBE or an UNSUBSCRIBE makes of the VNIs a peer has been asked for.
Asked(p) == IF apiAt = "subscribe" THEN asked[p] \cup apiVni ELSE asked[p] \ apiVni

\* Only an Established peer is notified; a refused message is only logged.
NotifyPeer(p) ==
    /\ apiAt # "idle" /\ p \in apiTodo
    /\ apiTodo' = apiTodo \ {p}
    /\ \/ /\ conn[p] = "Established" /\ CanSend(p)
          /\ txLen' = Queued(p)
          /\ asked' = [asked EXCEPT ![p] = Asked(p)]
          /\ UNCHANGED dropped
       \/ /\ conn[p] = "Established" /\ ~CanSend(p)
          /\ dropped' = dropped \cup {p}
          /\ UNCHANGED <<txLen, asked>>
       \/ conn[p] # "Established" /\ UNCHANGED <<txLen, asked, dropped>>
    /\ UNCHANGED <<stateVars, conn, isRemoteServer, remoteSubs, notified, taskVars,
                   distVars, apiAt, apiVni, view>>

ClearRoutes ==
    /\ apiAt # "idle" /\ apiTodo = {} /\ MayRead
    /\ \/ os' = {r \in os : VniOf[r] \notin apiVni}
       \/ OsMayFail /\ os' = os
    /\ apiAt' = "idle" /\ apiVni' = {}
    /\ UNCHANGED <<stateVars, peerVars, taskVars, queue, inhand, apiTodo, histVars>>

\* Mutant: the withdrawal is not distributed.
WithdrawSilently(r) ==
    /\ apiAt = "idle" /\ MayWrite
    /\ r \in mine
    /\ mine' = mine \ {r}
    /\ UNCHANGED <<table, mySubs, subscribers, peers, peerVars, taskVars, distVars,
                   apiVars, histVars>>

(* announce_route distributes an Add even if the route was announced       *)
(* already; withdraw_route distributes a Remove only if it was.            *)
AnnounceRoute(r) ==
    /\ apiAt = "idle" /\ MayWrite
    /\ mine' = mine \cup {r}
    /\ Enqueue("Add", r, Local)
    /\ UNCHANGED <<table, mySubs, subscribers, peers, peerVars, taskVars, inhand, os,
                   apiVars, histVars>>

WithdrawRoute(r) ==
    /\ apiAt = "idle" /\ MayWrite
    /\ r \in mine
    /\ mine' = mine \ {r}
    /\ Enqueue("Remove", r, Local)
    /\ UNCHANGED <<table, mySubs, subscribers, peers, peerVars, taskVars, inhand, os,
                   apiVars, histVars>>

\* What a subscribe or unsubscribe call in progress still goes through.
ApiStep == (\E p \in Peers : NotifyPeer(p)) \/ ClearRoutes

ApiNext ==
    \/ ApiStep
    \/ \E v \in LocalVnis : Subscribe(v) \/ Unsubscribe(v)
    \/ \E r \in LocalRoutes : AnnounceRoute(r) \/ WithdrawRoute(r)
=============================================================================
