-------------------------------- MODULE Peer --------------------------------
(* The task of one peer: handle_peer and the handlers it calls             *)
(* (src/peer.rs), with the entry into and the removal from the peers map   *)
(* that its caller does (src/metalbond.rs).  A handler is cut where it     *)
(* awaits the state lock or the distributor's channel, and nowhere else:   *)
(* between two of its steps every other task may run.                      *)
EXTENDS MetalBondState

\* The task is in its select loop: its last handler has returned.
InSelect(p) == at[p] = "select" /\ ~HoldsWrite(p)

(* A remote end that opened the connection and sends the first KEEPALIVE   *)
(* subscribes and announces only once the connection is Established here   *)
(* (Session's UpdatesFindEstablished); a server announces what it was      *)
(* asked for.  The code does not insist on either (AnyMessage), and it     *)
(* does not stop reading at Closed: messages that had arrived by then are  *)
(* processed like any other.                                               *)
MayArrive(p) == AnyMessage \/ conn[p] \in {"Established", "Closed"}
Offers(p) == {r \in Announces[p] : AnyMessage \/ IsServer \/ VniOf[r] \in asked[p]}

Goto(p, place, rest) ==
    /\ at' = [at EXCEPT ![p] = place]
    /\ todo' = [todo EXCEPT ![p] = rest]

\* A handler returned an error, or an arm lost the connection.
Fail(p) == SetClosed(p, FALSE)

-----------------------------------------------------------------------------
(* Start: the peer enters the peers map, and handle_peer sends the first   *)
(* HELLO of an outgoing connection.                                        *)
Connect(p) ==
    /\ at[p] = "none" /\ MayWrite
    /\ peers' = peers \cup {p}
    /\ at' = [at EXCEPT ![p] = IF IsServer THEN "select" ELSE "starting"]
    /\ UNCHANGED <<table, mine, mySubs, subscribers, peerVars, todo, exits,
                   distVars, apiVars, histVars>>

SendHello(p) ==
    /\ at[p] = "starting" /\ MayRead
    /\ \/ /\ CanSend(p)
          /\ txLen' = Queued(p)
          /\ conn' = [conn EXCEPT ![p] = "HelloSent"]
          /\ at' = [at EXCEPT ![p] = "select"]
          /\ UNCHANGED <<notified, todo, exits>>
       \/ /\ ~CanSend(p)
          /\ SetClosed(p, TRUE)
          /\ UNCHANGED txLen
    /\ UNCHANGED <<stateVars, isRemoteServer, remoteSubs, distVars, apiVars, histVars>>

-----------------------------------------------------------------------------
\* Mutant: the answer is given, and the state set, whatever the state was.
ProcessHelloAlways(p) ==
    /\ InSelect(p)
    /\ isRemoteServer' = [isRemoteServer EXCEPT ![p] = p \in Servers]
    /\ IsServer /\ CanSend(p)
    /\ txLen' = Queued(p)
    /\ conn' = [conn EXCEPT ![p] = "HelloSent"]
    /\ UNCHANGED <<stateVars, remoteSubs, notified, taskVars, distVars, apiVars, histVars>>

(* process_hello: the role of the remote end is recorded in any state, the *)
(* connection moves on only in the expected one.                           *)
ProcessHello(p) ==
    /\ InSelect(p)
    /\ isRemoteServer' = [isRemoteServer EXCEPT ![p] = p \in Servers]
    /\ LET answers == IsServer /\ conn[p] \in {"Connecting", "HelloReceived"}
           learns  == ~IsServer /\ conn[p] = "HelloSent"
       IN  \/ /\ answers /\ CanSend(p)
              /\ txLen' = Queued(p)
              /\ conn' = [conn EXCEPT ![p] = "HelloSent"]
              /\ UNCHANGED <<notified, taskVars>>
           \/ /\ answers /\ ~CanSend(p)
              /\ Fail(p)
              /\ UNCHANGED txLen
           \/ /\ learns
              /\ conn' = [conn EXCEPT ![p] = "HelloReceived"]
              /\ UNCHANGED <<txLen, notified, taskVars>>
           \/ /\ ~answers /\ ~learns
              /\ UNCHANGED <<txLen, conn, notified, taskVars>>
    /\ UNCHANGED <<stateVars, remoteSubs, distVars, apiVars, histVars>>

(* process_keepalive.  A server answers, a client only resets its timer    *)
(* (no step); in any state but those two and the one before Established,   *)
(* the message is an error.                                                *)
ProcessKeepalive(p) ==
    /\ InSelect(p)
    /\ LET before == IF IsServer THEN "HelloSent" ELSE "HelloReceived"
       IN  \/ /\ conn[p] = before
              /\ conn' = [conn EXCEPT ![p] = "Established"]
              /\ Goto(p, "establishing", {})
              /\ UNCHANGED <<txLen, notified, exits>>
           \/ /\ conn[p] = "Established" /\ IsServer /\ CanSend(p)
              /\ txLen' = Queued(p)
              /\ UNCHANGED <<conn, notified, taskVars>>
           \/ /\ \/ conn[p] = "Established" /\ IsServer /\ ~CanSend(p)
                 \/ conn[p] \notin {before, "Established"}
              /\ Fail(p)
              /\ UNCHANGED txLen
    /\ UNCHANGED <<stateVars, isRemoteServer, remoteSubs, distVars, apiVars, histVars>>

-----------------------------------------------------------------------------
\* Mutant: leaves the VNI of the call in progress to that call.
ReadOtherSubscriptions(p) ==
    /\ at[p] = "establishing" /\ MayRead
    /\ Goto(p, "subscribing", mySubs \ apiVni)
    /\ UNCHANGED <<stateVars, peerVars, exits, distVars, apiVars, histVars>>

(* set_state(Established): SUBSCRIBE for a snapshot of my_subscriptions,   *)
(* then an UPDATE for a snapshot of my_announcements.                      *)
ReadSubscriptions(p) ==
    /\ at[p] = "establishing" /\ MayRead
    /\ Goto(p, "subscribing", mySubs)
    /\ UNCHANGED <<stateVars, peerVars, exits, distVars, apiVars, histVars>>

SendSubscribe(p) ==
    /\ at[p] = "subscribing"
    /\ \E v \in todo[p] :
          /\ Goto(p, "subscribing", todo[p] \ {v})
          /\ \/ /\ CanSend(p)
                /\ txLen' = Queued(p)
                /\ asked' = [asked EXCEPT ![p] = @ \cup {v}]
                /\ UNCHANGED <<notified, dropped>>
             \/ /\ ~CanSend(p)
                /\ notified' = [notified EXCEPT ![p] = TRUE]
                /\ dropped' = dropped \cup {p}
                /\ UNCHANGED <<txLen, asked>>
    /\ UNCHANGED <<stateVars, conn, isRemoteServer, remoteSubs, exits, distVars,
                   apiVars, view>>

ReadAnnouncements(p) ==
    /\ at[p] = "subscribing" /\ todo[p] = {} /\ MayRead
    /\ Goto(p, "announcing", mine)
    /\ UNCHANGED <<stateVars, peerVars, exits, distVars, apiVars, histVars>>

\* A refused announcement ends the loop: the rest is not sent.
SendAnnouncement(p) ==
    /\ at[p] = "announcing"
    /\ \E r \in todo[p] :
          \/ /\ CanSend(p)
             /\ Goto(p, "announcing", todo[p] \ {r})
             /\ txLen' = Queued(p)
             /\ view' = [view EXCEPT ![p] = @ \cup {r}]
             /\ UNCHANGED <<notified, dropped>>
          \/ /\ ~CanSend(p)
             /\ Goto(p, "announcing", {})
             /\ notified' = [notified EXCEPT ![p] = TRUE]
             /\ dropped' = dropped \cup {p}
             /\ UNCHANGED <<txLen, view>>
    /\ UNCHANGED <<stateVars, conn, isRemoteServer, remoteSubs, exits, distVars,
                   apiVars, asked>>

\* The keepalive timers start; a client sends its first KEEPALIVE.
FinishEstablish(p) ==
    /\ at[p] = "announcing" /\ todo[p] = {}
    /\ Goto(p, "select", {})
    /\ \/ /\ ~IsServer /\ CanSend(p)
          /\ txLen' = Queued(p)
          /\ UNCHANGED notified
       \/ /\ ~IsServer /\ ~CanSend(p)
          /\ notified' = [notified EXCEPT ![p] = TRUE]
          /\ UNCHANGED txLen
       \/ IsServer /\ UNCHANGED <<txLen, notified>>
    /\ UNCHANGED <<stateVars, conn, isRemoteServer, remoteSubs, exits, distVars,
                   apiVars, histVars>>

-----------------------------------------------------------------------------
(* process_subscribe: register under the write lock; if the peer was not   *)
(* yet registered, snapshot the table under the read lock and send the     *)
(* snapshot with no lock held.                                             *)
ProcessSubscribe(p) ==
    /\ InSelect(p) /\ MayArrive(p) /\ MayWrite
    /\ \E v \in Subscribes[p] :
          /\ subscribers' = [subscribers EXCEPT ![v] = @ \cup {p}]
          /\ remoteSubs' = [remoteSubs EXCEPT ![p] = @ \cup {v}]
          /\ IF p \in subscribers[v] THEN UNCHANGED <<at, todo>>
                                     ELSE Goto(p, "snapshot", {v})
    /\ UNCHANGED <<table, mine, mySubs, peers, conn, isRemoteServer, txLen, notified,
                   exits, distVars, apiVars, histVars>>

\* Mutant: no route the peer itself announced is sent back, NAT or not.
ReplayedOfOthers(p, v) == {r \in Routes : VniOf[r] = v /\ table[r] \ {p} # {}}

\* A NAT route the peer itself announced is not sent back to it.
Replayed(p, v) == {r \in Routes : /\ VniOf[r] = v /\ table[r] # {}
                                  /\ ~(r \in NatRoutes /\ p \in table[r])}

Snapshot(p) ==
    /\ at[p] = "snapshot" /\ MayRead
    /\ \E v \in todo[p] : Goto(p, "replaying", Replayed(p, v))
    /\ UNCHANGED <<stateVars, peerVars, exits, distVars, apiVars, histVars>>

Replay(p) ==
    /\ at[p] = "replaying"
    /\ \E r \in todo[p] :
          \/ /\ CanSend(p)
             /\ Goto(p, "replaying", todo[p] \ {r})
             /\ txLen' = Queued(p)
             /\ view' = [view EXCEPT ![p] = @ \cup {r}]
             /\ UNCHANGED <<conn, notified, exits, dropped>>
          \/ /\ ~CanSend(p)
             /\ Fail(p)
             /\ dropped' = dropped \cup {p}
             /\ UNCHANGED <<txLen, view>>
    /\ UNCHANGED <<stateVars, isRemoteServer, remoteSubs, distVars, apiVars, asked>>

(* process_unsubscribe: deregister, then withdraw what the peer announced  *)
(* in that VNI, route by route under the write lock.                       *)
ProcessUnsubscribe(p) ==
    /\ InSelect(p) /\ MayArrive(p) /\ MayWrite
    /\ \E v \in Subscribes[p] :
          /\ subscribers' = [subscribers EXCEPT ![v] = @ \ {p}]
          /\ remoteSubs' = [remoteSubs EXCEPT ![p] = @ \ {v}]
          /\ IF p \in subscribers[v] THEN Goto(p, "unsubscribed", {v})
                                     ELSE UNCHANGED <<at, todo>>
    /\ UNCHANGED <<table, mine, mySubs, peers, conn, isRemoteServer, txLen, notified,
                   exits, distVars, apiVars, histVars>>

LearnedFrom(p) == {r \in Routes : p \in table[r]}

UnsubscribeSnapshot(p) ==
    /\ at[p] = "unsubscribed" /\ MayRead
    /\ \E v \in todo[p] :
          Goto(p, "withdrawing", {r \in LearnedFrom(p) : VniOf[r] = v})
    /\ UNCHANGED <<stateVars, peerVars, exits, distVars, apiVars, histVars>>

\* Mutant: the last source is reported as gone and stays in the table.
RemoveNextHopLate(p, r) ==
    IF table[r] = {p} THEN Enqueue("Remove", r, p) /\ UNCHANGED table
                      ELSE table' = [table EXCEPT ![r] = @ \ {p}] /\ UNCHANGED queue

(* remove_next_hop and what is sent after it: a Remove only when no other  *)
(* peer announces the route.                                               *)
RemoveNextHop(p, r) ==
    /\ table' = [table EXCEPT ![r] = @ \ {p}]
    /\ IF table[r] = {p} THEN Enqueue("Remove", r, p) ELSE UNCHANGED queue

WithdrawLearned(p) ==
    /\ at[p] = "withdrawing" /\ MayWrite
    /\ \E r \in todo[p] : RemoveNextHop(p, r) /\ Goto(p, "withdrawing", todo[p] \ {r})
    /\ UNCHANGED <<mine, mySubs, subscribers, peers, peerVars, exits, inhand, os,
                   apiVars, histVars>>

\* The loop of replayed or withdrawn routes is over.
FinishLoop(p) ==
    /\ at[p] \in {"replaying", "withdrawing"} /\ todo[p] = {} /\ ~HoldsWrite(p)
    /\ Goto(p, "select", {})
    /\ UNCHANGED <<stateVars, peerVars, exits, distVars, apiVars, histVars>>

-----------------------------------------------------------------------------
(* process_update: a client looks the VNI up in my_subscriptions under a   *)
(* read lock of its own, and ignores the update of a VNI it finds missing  *)
(* (no step); the table changes later, under the write lock.               *)
ProcessUpdate(p) ==
    /\ InSelect(p) /\ MayArrive(p) /\ MayRead
    /\ \E r \in Offers(p), place \in {"adding", "removing"} :
          /\ IsServer \/ VniOf[r] \in mySubs
          /\ Goto(p, place, {r})
    /\ UNCHANGED <<stateVars, peerVars, exits, distVars, apiVars, histVars>>

\* add_next_hop, and an Add only if this source is new for the route.
AddNextHop(p, r) ==
    /\ table' = [table EXCEPT ![r] = @ \cup {p}]
    /\ IF p \in table[r] THEN UNCHANGED queue ELSE Enqueue("Add", r, p)

ApplyUpdate(p) ==
    /\ MayWrite
    /\ \E r \in todo[p] : \/ at[p] = "adding" /\ AddNextHop(p, r)
                          \/ at[p] = "removing" /\ RemoveNextHop(p, r)
    /\ Goto(p, "select", {})
    /\ UNCHANGED <<mine, mySubs, subscribers, peers, peerVars, exits, inhand, os,
                   apiVars, histVars>>

-----------------------------------------------------------------------------
(* The other arms of the select loop.                                      *)

\* End of stream, a frame that does not decode, a message its handler rejects.
FrameError(p) ==
    /\ InSelect(p)
    /\ Fail(p)
    /\ UNCHANGED <<stateVars, isRemoteServer, remoteSubs, txLen, distVars, apiVars, histVars>>

\* One queued message leaves; if the socket fails, the connection is lost.
Transmit(p) ==
    /\ InSelect(p) /\ txLen[p] > 0
    /\ txLen' = [txLen EXCEPT ![p] = @ - 1]
    /\ \/ UNCHANGED <<conn, notified, taskVars>>
       \/ Fail(p)
    /\ UNCHANGED <<stateVars, isRemoteServer, remoteSubs, distVars, apiVars, histVars>>

\* The interval timer of a client.
KeepaliveTick(p) ==
    /\ InSelect(p) /\ ~IsServer /\ conn[p] = "Established"
    /\ \/ /\ CanSend(p)
          /\ txLen' = Queued(p)
          /\ UNCHANGED notified
       \/ /\ ~CanSend(p)
          /\ notified' = [notified EXCEPT ![p] = TRUE]
          /\ UNCHANGED txLen
    /\ UNCHANGED <<stateVars, conn, isRemoteServer, remoteSubs, taskVars, distVars,
                   apiVars, histVars>>

\* The timeout runs only once the connection was Established.
KeepaliveTimeout(p) ==
    /\ InSelect(p) /\ conn[p] = "Established"
    /\ Fail(p)
    /\ UNCHANGED <<stateVars, isRemoteServer, remoteSubs, txLen, distVars, apiVars, histVars>>

\* The permit is consumed, the socket closed and the state set to Closed.
Shutdown(p) ==
    /\ InSelect(p) /\ notified[p]
    /\ SetClosed(p, TRUE)
    /\ UNCHANGED <<stateVars, isRemoteServer, remoteSubs, txLen, distVars, apiVars, histVars>>

-----------------------------------------------------------------------------
(* cleanup_peer_state: the read guard is taken first and kept to the end,  *)
(* through every send; the write lock for the subscribers is requested     *)
(* while it is still held.                                                 *)
BeginCleanup(p) ==
    /\ at[p] = "closing" /\ MayRead
    /\ table' = [r \in Routes |-> table[r] \ {p}]
    /\ Goto(p, "cleanup", LearnedFrom(p))
    /\ UNCHANGED <<mine, mySubs, subscribers, peers, peerVars, exits, distVars,
                   apiVars, histVars>>

CleanupSend(p) ==
    /\ at[p] = "cleanup" /\ Len(queue) < QueueCap
    /\ \E r \in todo[p] : /\ Enqueue("Remove", r, p)
                          /\ Goto(p, "cleanup", todo[p] \ {r})
    /\ UNCHANGED <<stateVars, peerVars, exits, inhand, os, apiVars, histVars>>

AfterCleanup(p) ==
    IF remoteSubs[p] # {} THEN "wedged" ELSE IF exits[p] THEN "leaving" ELSE "select"

CleanupEnd(p) ==
    /\ at[p] = "cleanup" /\ todo[p] = {}
    /\ at' = [at EXCEPT ![p] = AfterCleanup(p)]
    /\ UNCHANGED <<stateVars, peerVars, todo, exits, distVars, apiVars, histVars>>

(* handle_peer returned: the caller removes the peer from the map, and the *)
(* Peer struct is gone with it; a later connection starts with a new one.  *)
(* An application call that still has the old struct to notify finds it    *)
(* Closed and sends nothing.                                               *)
Leave(p) ==
    /\ at[p] = "leaving" /\ MayWrite
    /\ peers' = peers \ {p}
    /\ at' = [at EXCEPT ![p] = IF Reconnects THEN "none" ELSE "gone"]
    /\ conn' = [conn EXCEPT ![p] = "Connecting"]
    /\ isRemoteServer' = [isRemoteServer EXCEPT ![p] = FALSE]
    /\ remoteSubs' = [remoteSubs EXCEPT ![p] = {}]
    /\ txLen' = [txLen EXCEPT ![p] = 0]
    /\ notified' = [notified EXCEPT ![p] = FALSE]
    /\ todo' = [todo EXCEPT ![p] = {}]
    /\ exits' = [exits EXCEPT ![p] = FALSE]
    /\ apiTodo' = apiTodo \ {p}
    /\ view' = [view EXCEPT ![p] = {}]
    /\ asked' = [asked EXCEPT ![p] = {}]
    /\ dropped' = dropped \ {p}
    /\ UNCHANGED <<table, mine, mySubs, subscribers, distVars, apiAt, apiVni>>

-----------------------------------------------------------------------------
(* What starts a handler: connections, messages, timers, the socket.       *)
PeerInput(p) ==
    \/ Connect(p) \/ ProcessHello(p) \/ ProcessKeepalive(p)
    \/ ProcessSubscribe(p) \/ ProcessUnsubscribe(p) \/ ProcessUpdate(p)
    \/ FrameError(p) \/ Transmit(p) \/ KeepaliveTick(p) \/ KeepaliveTimeout(p)

\* What a handler that was started goes through.
HandlerStep(p) ==
    \/ SendHello(p)
    \/ ReadSubscriptions(p) \/ SendSubscribe(p)
    \/ ReadAnnouncements(p) \/ SendAnnouncement(p) \/ FinishEstablish(p)
    \/ Snapshot(p) \/ Replay(p) \/ UnsubscribeSnapshot(p) \/ WithdrawLearned(p)
    \/ FinishLoop(p) \/ ApplyUpdate(p)
    \/ BeginCleanup(p) \/ CleanupSend(p) \/ CleanupEnd(p) \/ Leave(p)

PeerNext(p) == PeerInput(p) \/ HandlerStep(p) \/ Shutdown(p)
=============================================================================
