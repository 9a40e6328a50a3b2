--------------------------- MODULE MetalBondProofs ---------------------------
(* Type correctness of MetalBond, for any peers, routes and VNIs and any    *)
(* channel capacities.  The conjuncts of TypeOK are dealt with one by one:  *)
(* an action touches few of them, and the facts about the others stay out   *)
(* of its obligations.                                                      *)
EXTENDS MetalBond, SequenceTheorems, TLAPS

(* A message queued for a peer that can be sent one keeps within the        *)
(* capacity of the channel to its task (try_send in send_message).          *)
LEMMA QueuedType ==
  ASSUME PeerTypeOK, NEW p \in Peers, CanSend(p)
  PROVE  Queued(p) \in [Peers -> 0..TxCap]
BY ConstantsOK DEF PeerTypeOK, CanSend, Queued

(* An update sent while the channel to the distributor was not overfull     *)
(* puts at most one update beyond its capacity.                             *)
LEMMA EnqueueType ==
  ASSUME DistTypeOK, Len(queue) <= QueueCap,
         NEW action \in {"Add", "Remove"}, NEW r \in Routes, NEW source \in Sources,
         Enqueue(action, r, source)
  PROVE  queue' \in Seq(Updates) /\ Len(queue') <= QueueCap + 1
<1>1. Update(action, r, source) \in Updates
  BY DEF Update, Updates
<1>2. Len(queue') = Len(queue) + 1 /\ queue' \in Seq(Updates)
  BY <1>1 DEF DistTypeOK, Enqueue
<1> QED
  BY <1>2, ConstantsOK DEF DistTypeOK

(* set_state(Closed) leads to states and places of the task that exist.     *)
LEMMA SetClosedType ==
  ASSUME PeerTypeOK, TaskTypeOK, NEW p \in Peers, NEW leave \in BOOLEAN, SetClosed(p, leave)
  PROVE  conn' \in [Peers -> States] /\ notified' \in [Peers -> BOOLEAN] /\ TaskTypeOK'
BY DEF PeerTypeOK, TaskTypeOK, SetClosed, AfterClosed, States, Places, VniPlaces, RoutePlaces

(* Whoever gets the write lock finds the channel to the distributor at most *)
(* full: nobody waits for room in it, for he would hold the lock.           *)
LEMMA WritersFindRoom ==
  ASSUME DistTypeOK, MayWrite
  PROVE  Len(queue) <= QueueCap
BY ConstantsOK DEF DistTypeOK, MayWrite, MayRead, WriteHeld

(* Every variable keeps its type and the two kinds of channels their bounds *)
(* (Peer, MetalBondState, the mpsc channels of new() and of Peer::new).     *)
THEOREM TypeCorrect == Spec => []TypeOK
<1>1. Init => TypeOK
  BY ConstantsOK, NoUpdateIsNone
     DEF Init, TypeOK, StateTypeOK, PeerTypeOK, TaskTypeOK, DistTypeOK, ApiTypeOK,
         HistTypeOK, States, Places, VniPlaces, RoutePlaces
<1>2. TypeOK /\ [Next]_vars => TypeOK'
  <2> SUFFICES ASSUME TypeOK, [Next]_vars PROVE TypeOK'
    OBVIOUS
  <2> USE ConstantsOK DEF TypeOK, stateVars, peerVars, taskVars, distVars, apiVars, histVars
  <2>1. ASSUME NEW p \in Peers, Connect(p) PROVE TypeOK'
    <3>1. PeerTypeOK' /\ DistTypeOK' /\ ApiTypeOK' /\ HistTypeOK'
      BY <2>1 DEF Connect, PeerTypeOK, DistTypeOK, ApiTypeOK, HistTypeOK
    <3>2. StateTypeOK'
      BY <2>1 DEF Connect, StateTypeOK
    <3>3. TaskTypeOK'
      BY <2>1 DEF Connect, TaskTypeOK, Places, VniPlaces, RoutePlaces
    <3> QED BY <3>1, <3>2, <3>3
  <2>2. ASSUME NEW p \in Peers, SendHello(p) PROVE TypeOK'
    <3>1. StateTypeOK' /\ DistTypeOK' /\ ApiTypeOK' /\ HistTypeOK'
      BY <2>2 DEF SendHello, StateTypeOK, DistTypeOK, ApiTypeOK, HistTypeOK
    <3>2. conn' \in [Peers -> States] /\ notified' \in [Peers -> BOOLEAN] /\ TaskTypeOK'
      <4>1. CASE SetClosed(p, TRUE)
        BY <4>1, SetClosedType
      <4>2. CASE ~SetClosed(p, TRUE)
        <5>1. /\ conn' = [conn EXCEPT ![p] = "HelloSent"]
              /\ at' = [at EXCEPT ![p] = "select"] /\ UNCHANGED <<notified, todo, exits>>
          BY <2>2, <4>2 DEF SendHello
        <5>2. TaskTypeOK'
          BY <5>1 DEF TaskTypeOK, Places, VniPlaces, RoutePlaces
        <5> QED BY <5>1, <5>2 DEF PeerTypeOK, States
      <4> QED BY <4>1, <4>2
    <3>3. txLen' \in [Peers -> 0..TxCap]
      <4>1. (CanSend(p) /\ txLen' = Queued(p)) \/ txLen' = txLen
        BY <2>2 DEF SendHello
      <4> QED BY <4>1, QueuedType DEF PeerTypeOK
    <3>4. UNCHANGED <<isRemoteServer, remoteSubs>>
      BY <2>2 DEF SendHello
    <3>5. PeerTypeOK'
      BY <3>2, <3>3, <3>4 DEF PeerTypeOK
    <3> QED BY <3>1, <3>2, <3>5
  <2>3. ASSUME NEW p \in Peers, ProcessHello(p) PROVE TypeOK'
    <3>1. StateTypeOK' /\ DistTypeOK' /\ ApiTypeOK' /\ HistTypeOK'
      BY <2>3 DEF ProcessHello, StateTypeOK, DistTypeOK, ApiTypeOK, HistTypeOK
    <3>2. conn' \in [Peers -> States] /\ notified' \in [Peers -> BOOLEAN] /\ TaskTypeOK'
      <4>1. CASE Fail(p)
        BY <4>1, SetClosedType DEF Fail
      <4>2. CASE ~Fail(p)
        BY <2>3, <4>2 DEF ProcessHello, Goto, PeerTypeOK, TaskTypeOK, States, Places,
           VniPlaces, RoutePlaces
      <4> QED BY <4>1, <4>2
    <3>3. txLen' \in [Peers -> 0..TxCap]
      BY <2>3, QueuedType DEF ProcessHello, PeerTypeOK
    <3>4. PeerTypeOK'
      <4>1. isRemoteServer' \in [Peers -> BOOLEAN]
        <5>1. (p \in Servers) \in BOOLEAN
          OBVIOUS
        <5> QED
          BY <2>3, <5>1 DEF ProcessHello, PeerTypeOK
      <4>2. remoteSubs' \in [Peers -> SUBSET Vnis]
        BY <2>3 DEF ProcessHello, PeerTypeOK
      <4> QED
        BY <3>2, <3>3, <4>1, <4>2 DEF PeerTypeOK
    <3> QED BY <3>1, <3>2, <3>4
  <2>4. ASSUME NEW p \in Peers, ProcessKeepalive(p) PROVE TypeOK'
    <3>1. StateTypeOK' /\ DistTypeOK' /\ ApiTypeOK' /\ HistTypeOK'
      BY <2>4 DEF ProcessKeepalive, StateTypeOK, DistTypeOK, ApiTypeOK, HistTypeOK
    <3>2. conn' \in [Peers -> States] /\ notified' \in [Peers -> BOOLEAN] /\ TaskTypeOK'
      <4>1. CASE Fail(p)
        BY <4>1, SetClosedType DEF Fail
      <4>2. CASE ~Fail(p)
        BY <2>4, <4>2 DEF ProcessKeepalive, Goto, PeerTypeOK, TaskTypeOK, States,
           Places, VniPlaces, RoutePlaces
      <4> QED BY <4>1, <4>2
    <3>3. txLen' \in [Peers -> 0..TxCap]
      BY <2>4, QueuedType DEF ProcessKeepalive, PeerTypeOK
    <3>4. PeerTypeOK'
      BY <2>4, <3>2, <3>3 DEF ProcessKeepalive, PeerTypeOK
    <3> QED BY <3>1, <3>2, <3>4
  <2>5. ASSUME NEW p \in Peers, ReadSubscriptions(p) PROVE TypeOK'
    <3>1. StateTypeOK' /\ PeerTypeOK' /\ DistTypeOK' /\ ApiTypeOK' /\ HistTypeOK'
      BY <2>5 DEF ReadSubscriptions, StateTypeOK, PeerTypeOK, DistTypeOK, ApiTypeOK,
         HistTypeOK
    <3>2. TaskTypeOK'
      BY <2>5 DEF ReadSubscriptions, TaskTypeOK, Goto, Places, VniPlaces, RoutePlaces,
         StateTypeOK
    <3> QED BY <3>1, <3>2
  <2>6. ASSUME NEW p \in Peers, SendSubscribe(p) PROVE TypeOK'
    <3>1. StateTypeOK' /\ DistTypeOK' /\ ApiTypeOK'
      BY <2>6 DEF SendSubscribe, StateTypeOK, DistTypeOK, ApiTypeOK
    <3>2. PeerTypeOK'
      BY <2>6, QueuedType DEF SendSubscribe, PeerTypeOK, States
    <3>3. TaskTypeOK'
      BY <2>6 DEF SendSubscribe, TaskTypeOK, Goto, Places, VniPlaces, RoutePlaces
    <3>4. HistTypeOK'
      BY <2>6 DEF SendSubscribe, HistTypeOK, TaskTypeOK, VniPlaces
    <3> QED BY <3>1, <3>2, <3>3, <3>4
  <2>7. ASSUME NEW p \in Peers, ReadAnnouncements(p) PROVE TypeOK'
    <3>1. StateTypeOK' /\ PeerTypeOK' /\ DistTypeOK' /\ ApiTypeOK' /\ HistTypeOK'
      BY <2>7 DEF ReadAnnouncements, StateTypeOK, PeerTypeOK, DistTypeOK, ApiTypeOK,
         HistTypeOK
    <3>2. TaskTypeOK'
      BY <2>7 DEF ReadAnnouncements, TaskTypeOK, Goto, Places, VniPlaces, RoutePlaces,
         StateTypeOK
    <3> QED BY <3>1, <3>2
  <2>8. ASSUME NEW p \in Peers, SendAnnouncement(p) PROVE TypeOK'
    <3>1. StateTypeOK' /\ DistTypeOK' /\ ApiTypeOK'
      BY <2>8 DEF SendAnnouncement, StateTypeOK, DistTypeOK, ApiTypeOK
    <3>2. PeerTypeOK'
      BY <2>8, QueuedType DEF SendAnnouncement, PeerTypeOK, States
    <3>3. TaskTypeOK'
      BY <2>8 DEF SendAnnouncement, TaskTypeOK, Goto, Places, VniPlaces, RoutePlaces
    <3>4. HistTypeOK'
      BY <2>8 DEF SendAnnouncement, HistTypeOK, TaskTypeOK, RoutePlaces
    <3> QED BY <3>1, <3>2, <3>3, <3>4
  <2>9. ASSUME NEW p \in Peers, FinishEstablish(p) PROVE TypeOK'
    <3>1. StateTypeOK' /\ DistTypeOK' /\ ApiTypeOK' /\ HistTypeOK'
      BY <2>9 DEF FinishEstablish, StateTypeOK, DistTypeOK, ApiTypeOK, HistTypeOK
    <3>2. PeerTypeOK'
      BY <2>9, QueuedType DEF FinishEstablish, PeerTypeOK, States
    <3>3. TaskTypeOK'
      BY <2>9 DEF FinishEstablish, TaskTypeOK, Goto, Places, VniPlaces, RoutePlaces
    <3> QED BY <3>1, <3>2, <3>3
  <2>10. ASSUME NEW p \in Peers, ProcessSubscribe(p) PROVE TypeOK'
    <3>1. DistTypeOK' /\ ApiTypeOK' /\ HistTypeOK'
      BY <2>10 DEF ProcessSubscribe, DistTypeOK, ApiTypeOK, HistTypeOK
    <3>2. StateTypeOK'
      BY <2>10 DEF ProcessSubscribe, StateTypeOK
    <3>3. PeerTypeOK'
      BY <2>10 DEF ProcessSubscribe, PeerTypeOK
    <3>4. TaskTypeOK'
      BY <2>10 DEF ProcessSubscribe, TaskTypeOK, Goto, Places, VniPlaces, RoutePlaces
    <3> QED BY <3>1, <3>2, <3>3, <3>4
  <2>11. ASSUME NEW p \in Peers, Snapshot(p) PROVE TypeOK'
    <3>1. StateTypeOK' /\ PeerTypeOK' /\ DistTypeOK' /\ ApiTypeOK' /\ HistTypeOK'
      BY <2>11 DEF Snapshot, StateTypeOK, PeerTypeOK, DistTypeOK, ApiTypeOK, HistTypeOK
    <3>2. TaskTypeOK'
      BY <2>11 DEF Snapshot, TaskTypeOK, Goto, Places, VniPlaces, RoutePlaces, Replayed
    <3> QED BY <3>1, <3>2
  <2>12. ASSUME NEW p \in Peers, Replay(p) PROVE TypeOK'
    <3>1. StateTypeOK' /\ DistTypeOK' /\ ApiTypeOK'
      BY <2>12 DEF Replay, StateTypeOK, DistTypeOK, ApiTypeOK
    <3>2. HistTypeOK'
      BY <2>12 DEF Replay, HistTypeOK, TaskTypeOK, RoutePlaces
    <3>3. conn' \in [Peers -> States] /\ notified' \in [Peers -> BOOLEAN] /\ TaskTypeOK'
      <4>1. CASE Fail(p)
        BY <4>1, SetClosedType DEF Fail
      <4>2. CASE ~Fail(p)
        BY <2>12, <4>2 DEF Replay, Goto, PeerTypeOK, TaskTypeOK, States, Places,
           VniPlaces, RoutePlaces
      <4> QED BY <4>1, <4>2
    <3>4. txLen' \in [Peers -> 0..TxCap]
      BY <2>12, QueuedType DEF Replay, PeerTypeOK
    <3>5. PeerTypeOK'
      BY <2>12, <3>3, <3>4 DEF Replay, PeerTypeOK
    <3> QED BY <3>1, <3>2, <3>3, <3>5
  <2>13. ASSUME NEW p \in Peers, ProcessUnsubscribe(p) PROVE TypeOK'
    <3>1. DistTypeOK' /\ ApiTypeOK' /\ HistTypeOK'
      BY <2>13 DEF ProcessUnsubscribe, DistTypeOK, ApiTypeOK, HistTypeOK
    <3>2. StateTypeOK'
      BY <2>13 DEF ProcessUnsubscribe, StateTypeOK
    <3>3. PeerTypeOK'
      BY <2>13 DEF ProcessUnsubscribe, PeerTypeOK
    <3>4. TaskTypeOK'
      BY <2>13 DEF ProcessUnsubscribe, TaskTypeOK, Goto, Places, VniPlaces, RoutePlaces
    <3> QED BY <3>1, <3>2, <3>3, <3>4
  <2>14. ASSUME NEW p \in Peers, UnsubscribeSnapshot(p) PROVE TypeOK'
    <3>1. StateTypeOK' /\ PeerTypeOK' /\ DistTypeOK' /\ ApiTypeOK' /\ HistTypeOK'
      BY <2>14 DEF UnsubscribeSnapshot, StateTypeOK, PeerTypeOK, DistTypeOK, ApiTypeOK,
         HistTypeOK
    <3>2. TaskTypeOK'
      BY <2>14 DEF UnsubscribeSnapshot, TaskTypeOK, Goto, Places, VniPlaces,
         RoutePlaces, LearnedFrom
    <3> QED BY <3>1, <3>2
  <2>15. ASSUME NEW p \in Peers, WithdrawLearned(p) PROVE TypeOK'
    <3>1. PeerTypeOK' /\ ApiTypeOK' /\ HistTypeOK'
      BY <2>15 DEF WithdrawLearned, PeerTypeOK, ApiTypeOK, HistTypeOK
    <3>2. StateTypeOK'
      BY <2>15 DEF WithdrawLearned, StateTypeOK, RemoveNextHop, AddNextHop, TaskTypeOK,
         RoutePlaces
    <3>3. TaskTypeOK'
      BY <2>15 DEF WithdrawLearned, TaskTypeOK, Goto, Places, VniPlaces, RoutePlaces
    <3>4. DistTypeOK'
      BY <2>15, EnqueueType, WritersFindRoom DEF WithdrawLearned, DistTypeOK,
         RemoveNextHop, AddNextHop, Sources, TaskTypeOK, RoutePlaces
    <3> QED BY <3>1, <3>2, <3>3, <3>4
  <2>16. ASSUME NEW p \in Peers, FinishLoop(p) PROVE TypeOK'
    <3>1. StateTypeOK' /\ PeerTypeOK' /\ DistTypeOK' /\ ApiTypeOK' /\ HistTypeOK'
      BY <2>16 DEF FinishLoop, StateTypeOK, PeerTypeOK, DistTypeOK, ApiTypeOK,
         HistTypeOK
    <3>2. TaskTypeOK'
      BY <2>16 DEF FinishLoop, TaskTypeOK, Goto, Places, VniPlaces, RoutePlaces
    <3> QED BY <3>1, <3>2
  <2>17. ASSUME NEW p \in Peers, ProcessUpdate(p) PROVE TypeOK'
    <3>1. StateTypeOK' /\ PeerTypeOK' /\ DistTypeOK' /\ ApiTypeOK' /\ HistTypeOK'
      BY <2>17 DEF ProcessUpdate, StateTypeOK, PeerTypeOK, DistTypeOK, ApiTypeOK,
         HistTypeOK
    <3>2. TaskTypeOK'
      BY <2>17 DEF ProcessUpdate, TaskTypeOK, Goto, Places, VniPlaces, RoutePlaces,
         Offers
    <3> QED BY <3>1, <3>2
  <2>18. ASSUME NEW p \in Peers, ApplyUpdate(p) PROVE TypeOK'
    <3>1. PeerTypeOK' /\ ApiTypeOK' /\ HistTypeOK'
      BY <2>18 DEF ApplyUpdate, PeerTypeOK, ApiTypeOK, HistTypeOK
    <3>2. StateTypeOK'
      BY <2>18 DEF ApplyUpdate, StateTypeOK, RemoveNextHop, AddNextHop, TaskTypeOK,
         RoutePlaces
    <3>3. TaskTypeOK'
      BY <2>18 DEF ApplyUpdate, TaskTypeOK, Goto, Places, VniPlaces, RoutePlaces
    <3>4. DistTypeOK'
      BY <2>18, EnqueueType, WritersFindRoom DEF ApplyUpdate, DistTypeOK, RemoveNextHop,
         AddNextHop, Sources, TaskTypeOK, RoutePlaces
    <3> QED BY <3>1, <3>2, <3>3, <3>4
  <2>19. ASSUME NEW p \in Peers, FrameError(p) PROVE TypeOK'
    <3>1. StateTypeOK' /\ DistTypeOK' /\ ApiTypeOK' /\ HistTypeOK'
      BY <2>19 DEF FrameError, StateTypeOK, DistTypeOK, ApiTypeOK, HistTypeOK
    <3>2. conn' \in [Peers -> States] /\ notified' \in [Peers -> BOOLEAN] /\ TaskTypeOK'
      BY <2>19, SetClosedType DEF FrameError, Fail
    <3>3. txLen' \in [Peers -> 0..TxCap]
      BY <2>19 DEF FrameError, PeerTypeOK
    <3>4. PeerTypeOK'
      BY <2>19, <3>2, <3>3 DEF FrameError, PeerTypeOK
    <3> QED BY <3>1, <3>2, <3>4
  <2>20. ASSUME NEW p \in Peers, Transmit(p) PROVE TypeOK'
    <3>1. StateTypeOK' /\ DistTypeOK' /\ ApiTypeOK' /\ HistTypeOK'
      BY <2>20 DEF Transmit, StateTypeOK, DistTypeOK, ApiTypeOK, HistTypeOK
    <3>2. conn' \in [Peers -> States] /\ notified' \in [Peers -> BOOLEAN] /\ TaskTypeOK'
      <4>1. CASE Fail(p)
        BY <4>1, SetClosedType DEF Fail
      <4>2. CASE ~Fail(p)
        BY <2>20, <4>2 DEF Transmit, Goto, PeerTypeOK, TaskTypeOK, States, Places,
           VniPlaces, RoutePlaces
      <4> QED BY <4>1, <4>2
    <3>3. txLen' \in [Peers -> 0..TxCap]
      BY <2>20 DEF Transmit, PeerTypeOK
    <3>4. PeerTypeOK'
      BY <2>20, <3>2, <3>3 DEF Transmit, PeerTypeOK
    <3> QED BY <3>1, <3>2, <3>4
  <2>21. ASSUME NEW p \in Peers, KeepaliveTick(p) PROVE TypeOK'
    <3>1. StateTypeOK' /\ TaskTypeOK' /\ DistTypeOK' /\ ApiTypeOK' /\ HistTypeOK'
      BY <2>21 DEF KeepaliveTick, StateTypeOK, TaskTypeOK, DistTypeOK, ApiTypeOK,
         HistTypeOK
    <3>2. PeerTypeOK'
      BY <2>21, QueuedType DEF KeepaliveTick, PeerTypeOK, States
    <3> QED BY <3>1, <3>2
  <2>22. ASSUME NEW p \in Peers, KeepaliveTimeout(p) PROVE TypeOK'
    <3>1. StateTypeOK' /\ DistTypeOK' /\ ApiTypeOK' /\ HistTypeOK'
      BY <2>22 DEF KeepaliveTimeout, StateTypeOK, DistTypeOK, ApiTypeOK, HistTypeOK
    <3>2. conn' \in [Peers -> States] /\ notified' \in [Peers -> BOOLEAN] /\ TaskTypeOK'
      BY <2>22, SetClosedType DEF KeepaliveTimeout, Fail
    <3>3. txLen' \in [Peers -> 0..TxCap]
      BY <2>22 DEF KeepaliveTimeout, PeerTypeOK
    <3>4. PeerTypeOK'
      BY <2>22, <3>2, <3>3 DEF KeepaliveTimeout, PeerTypeOK
    <3> QED BY <3>1, <3>2, <3>4
  <2>23. ASSUME NEW p \in Peers, Shutdown(p) PROVE TypeOK'
    <3>1. StateTypeOK' /\ DistTypeOK' /\ ApiTypeOK' /\ HistTypeOK'
      BY <2>23 DEF Shutdown, StateTypeOK, DistTypeOK, ApiTypeOK, HistTypeOK
    <3>2. conn' \in [Peers -> States] /\ notified' \in [Peers -> BOOLEAN] /\ TaskTypeOK'
      BY <2>23, SetClosedType DEF Shutdown, Fail
    <3>3. txLen' \in [Peers -> 0..TxCap]
      BY <2>23 DEF Shutdown, PeerTypeOK
    <3>4. PeerTypeOK'
      BY <2>23, <3>2, <3>3 DEF Shutdown, PeerTypeOK
    <3> QED BY <3>1, <3>2, <3>4
  <2>24. ASSUME NEW p \in Peers, BeginCleanup(p) PROVE TypeOK'
    <3>1. PeerTypeOK' /\ DistTypeOK' /\ ApiTypeOK' /\ HistTypeOK'
      BY <2>24 DEF BeginCleanup, PeerTypeOK, DistTypeOK, ApiTypeOK, HistTypeOK
    <3>2. StateTypeOK'
      BY <2>24 DEF BeginCleanup, StateTypeOK
    <3>3. TaskTypeOK'
      BY <2>24 DEF BeginCleanup, TaskTypeOK, Goto, Places, VniPlaces, RoutePlaces,
         LearnedFrom
    <3> QED BY <3>1, <3>2, <3>3
  <2>25. ASSUME NEW p \in Peers, CleanupSend(p) PROVE TypeOK'
    <3>1. StateTypeOK' /\ PeerTypeOK' /\ ApiTypeOK' /\ HistTypeOK'
      BY <2>25 DEF CleanupSend, StateTypeOK, PeerTypeOK, ApiTypeOK, HistTypeOK
    <3>2. TaskTypeOK'
      BY <2>25 DEF CleanupSend, TaskTypeOK, Goto, Places, VniPlaces, RoutePlaces
    <3>3. DistTypeOK'
      BY <2>25, EnqueueType DEF CleanupSend, DistTypeOK, Sources, TaskTypeOK,
         RoutePlaces
    <3> QED BY <3>1, <3>2, <3>3
  <2>26. ASSUME NEW p \in Peers, CleanupEnd(p) PROVE TypeOK'
    <3>1. StateTypeOK' /\ PeerTypeOK' /\ DistTypeOK' /\ ApiTypeOK' /\ HistTypeOK'
      BY <2>26 DEF CleanupEnd, StateTypeOK, PeerTypeOK, DistTypeOK, ApiTypeOK,
         HistTypeOK
    <3>2. TaskTypeOK'
      BY <2>26 DEF CleanupEnd, TaskTypeOK, AfterCleanup, Places, VniPlaces, RoutePlaces
    <3> QED BY <3>1, <3>2
  <2>27. ASSUME NEW p \in Peers, Leave(p) PROVE TypeOK'
    <3>1. DistTypeOK'
      BY <2>27 DEF Leave, DistTypeOK
    <3>2. StateTypeOK'
      BY <2>27 DEF Leave, StateTypeOK
    <3>3. PeerTypeOK'
      BY <2>27 DEF Leave, PeerTypeOK, States
    <3>4. TaskTypeOK'
      BY <2>27 DEF Leave, TaskTypeOK, Places, VniPlaces, RoutePlaces
    <3>5. ApiTypeOK'
      BY <2>27 DEF Leave, ApiTypeOK
    <3>6. HistTypeOK'
      BY <2>27 DEF Leave, HistTypeOK
    <3> QED BY <3>1, <3>2, <3>3, <3>4, <3>5, <3>6
  <2>28. ASSUME Receive PROVE TypeOK'
    <3>1. StateTypeOK' /\ PeerTypeOK' /\ TaskTypeOK' /\ ApiTypeOK' /\ HistTypeOK'
      BY <2>28 DEF Receive, StateTypeOK, PeerTypeOK, TaskTypeOK, ApiTypeOK, HistTypeOK
    <3>2. DistTypeOK'
      BY <2>28, HeadTailProperties DEF Receive, DistTypeOK
    <3> QED BY <3>1, <3>2
  <2>29. ASSUME Distribute PROVE TypeOK'
    <3>1. StateTypeOK' /\ TaskTypeOK' /\ ApiTypeOK'
      BY <2>29 DEF Distribute, StateTypeOK, TaskTypeOK, ApiTypeOK
    <3>2. PeerTypeOK'
      BY <2>29 DEF Distribute, PeerTypeOK, Targets, CanSend
    <3>3. DistTypeOK'
      BY <2>29 DEF Distribute, DistTypeOK, ApplyTo, Updates
    <3>4. HistTypeOK'
      BY <2>29 DEF Distribute, HistTypeOK, ApplyTo, Updates, Targets, DistTypeOK,
         StateTypeOK
    <3> QED BY <3>1, <3>2, <3>3, <3>4
  <2>30. ASSUME ClearRoutes PROVE TypeOK'
    <3>1. StateTypeOK' /\ PeerTypeOK' /\ TaskTypeOK' /\ HistTypeOK'
      BY <2>30 DEF ClearRoutes, StateTypeOK, PeerTypeOK, TaskTypeOK, HistTypeOK
    <3>2. DistTypeOK'
      BY <2>30 DEF ClearRoutes, DistTypeOK
    <3>3. ApiTypeOK'
      BY <2>30 DEF ClearRoutes, ApiTypeOK
    <3> QED BY <3>1, <3>2, <3>3
  <2>31. ASSUME NEW v \in LocalVnis, Subscribe(v) PROVE TypeOK'
    <3>1. PeerTypeOK' /\ TaskTypeOK' /\ DistTypeOK' /\ HistTypeOK'
      BY <2>31 DEF Subscribe, PeerTypeOK, TaskTypeOK, DistTypeOK, HistTypeOK
    <3>2. StateTypeOK'
      BY <2>31 DEF Subscribe, StateTypeOK
    <3>3. ApiTypeOK'
      BY <2>31 DEF Subscribe, ApiTypeOK, StateTypeOK
    <3> QED BY <3>1, <3>2, <3>3
  <2>32. ASSUME NEW v \in LocalVnis, Unsubscribe(v) PROVE TypeOK'
    <3>1. PeerTypeOK' /\ TaskTypeOK' /\ DistTypeOK' /\ HistTypeOK'
      BY <2>32 DEF Unsubscribe, PeerTypeOK, TaskTypeOK, DistTypeOK, HistTypeOK
    <3>2. StateTypeOK'
      BY <2>32 DEF Unsubscribe, StateTypeOK
    <3>3. ApiTypeOK'
      BY <2>32 DEF Unsubscribe, ApiTypeOK, StateTypeOK
    <3> QED BY <3>1, <3>2, <3>3
  <2>33. ASSUME NEW p \in Peers, NotifyPeer(p) PROVE TypeOK'
    <3>1. StateTypeOK' /\ TaskTypeOK' /\ DistTypeOK'
      BY <2>33 DEF NotifyPeer, StateTypeOK, TaskTypeOK, DistTypeOK
    <3>2. PeerTypeOK'
      BY <2>33, QueuedType DEF NotifyPeer, PeerTypeOK, States
    <3>3. ApiTypeOK'
      BY <2>33 DEF NotifyPeer, ApiTypeOK
    <3>4. HistTypeOK'
      BY <2>33 DEF NotifyPeer, HistTypeOK, Asked, ApiTypeOK
    <3> QED BY <3>1, <3>2, <3>3, <3>4
  <2>34. ASSUME NEW r \in LocalRoutes, AnnounceRoute(r) PROVE TypeOK'
    <3>1. PeerTypeOK' /\ TaskTypeOK' /\ ApiTypeOK' /\ HistTypeOK'
      BY <2>34 DEF AnnounceRoute, PeerTypeOK, TaskTypeOK, ApiTypeOK, HistTypeOK
    <3>2. StateTypeOK'
      BY <2>34 DEF AnnounceRoute, StateTypeOK
    <3>3. DistTypeOK'
      BY <2>34, EnqueueType, WritersFindRoom DEF AnnounceRoute, DistTypeOK, Sources
    <3> QED BY <3>1, <3>2, <3>3
  <2>35. ASSUME NEW r \in LocalRoutes, WithdrawRoute(r) PROVE TypeOK'
    <3>1. PeerTypeOK' /\ TaskTypeOK' /\ ApiTypeOK' /\ HistTypeOK'
      BY <2>35 DEF WithdrawRoute, PeerTypeOK, TaskTypeOK, ApiTypeOK, HistTypeOK
    <3>2. StateTypeOK'
      BY <2>35 DEF WithdrawRoute, StateTypeOK
    <3>3. DistTypeOK'
      BY <2>35, EnqueueType, WritersFindRoom DEF WithdrawRoute, DistTypeOK, Sources
    <3> QED BY <3>1, <3>2, <3>3
  <2>36. CASE UNCHANGED vars
    BY <2>36 DEF vars, StateTypeOK, PeerTypeOK, TaskTypeOK, DistTypeOK, ApiTypeOK, HistTypeOK
  <2> QED
    BY <2>1, <2>2, <2>3, <2>4, <2>5, <2>6, <2>7, <2>8, <2>9, <2>10, <2>11, <2>12, <2>13,
       <2>14, <2>15, <2>16, <2>17, <2>18, <2>19, <2>20, <2>21, <2>22, <2>23, <2>24,
       <2>25, <2>26, <2>27, <2>28, <2>29, <2>30, <2>31, <2>32, <2>33, <2>34, <2>35,
       <2>36 DEF Next, PeerNext, PeerInput, HandlerStep, DistributorNext, ApiNext,
       ApiStep
<1> QED
  BY <1>1, <1>2, PTL DEF Spec
-----------------------------------------------------------------------------
(* One task moves, and nothing is sent: nobody begins a cleanup and the     *)
(* task that waits with the write guard stands.                             *)
LEMMA OneMoves ==
  ASSUME GuardsExclude, NEW p \in Peers, queue' = queue,
         \A q \in Peers \ {p} : at'[q] = at[q],
         WriteHeld => \/ at'[p] = at[p]
                      \/ at'[p] \notin {"cleanup", "wedged"} /\ ~HoldsWrite(p)
  PROVE  GuardsExclude'
<1>1. (WriteHeld' <=> WriteHeld) /\ \A q : HoldsWrite(q)' <=> HoldsWrite(q)
  BY DEF WriteHeld, HoldsWrite
<1> QED
  BY <1>1 DEF GuardsExclude

(* A task sends with the write guard.                                       *)
LEMMA WriterSends ==
  ASSUME TypeOK, MayWrite, NEW action \in {"Add", "Remove"}, NEW r \in Routes,
         NEW source \in Sources, Enqueue(action, r, source),
         \A q \in Peers : at'[q] = at[q] \/ (q = source /\ at'[q] \in {"select", "withdrawing"}),
         source \in Peers => at'[source] \in {"select", "withdrawing"}
  PROVE  GuardsExclude'
<1>1. Update(action, r, source) \in Updates /\ Update(action, r, source).source = source
  BY DEF Update, Updates
<1>2. queue'[Len(queue')].source = source
  BY <1>1 DEF Enqueue, TypeOK, DistTypeOK
<1>3. \A q \in Peers : at[q] \notin {"cleanup", "wedged"}
  BY DEF MayWrite, MayRead, Wedged
<1> QED
  BY <1>2, <1>3 DEF GuardsExclude, HoldsWrite

(* The places where a task is and the length of the update channel stand    *)
(* for the guards of the state lock as a lock would give them out.          *)
THEOREM GuardsAreExclusive == Spec => []GuardsExclude
<1>1. Init => GuardsExclude
  BY ConstantsOK DEF Init, GuardsExclude, WriteHeld
<1>2. TypeOK /\ GuardsExclude /\ [Next]_vars => GuardsExclude'
  <2> SUFFICES ASSUME TypeOK, GuardsExclude, [Next]_vars PROVE GuardsExclude'
    OBVIOUS
  <2> USE DEF stateVars, peerVars, taskVars, distVars, apiVars, histVars
  <2>1. at \in [Peers -> Places]
    BY DEF TypeOK, TaskTypeOK
  <2>2. ASSUME NEW p \in Peers, Connect(p) PROVE GuardsExclude'
    BY <2>1, <2>2, OneMoves DEF Connect, GuardsExclude
  <2>3. ASSUME NEW p \in Peers, SendHello(p) PROVE GuardsExclude'
    BY <2>1, <2>3, OneMoves DEF SendHello, SetClosed, AfterClosed, GuardsExclude
  <2>4. ASSUME NEW p \in Peers, ProcessHello(p) PROVE GuardsExclude'
    BY <2>1, <2>4, OneMoves DEF ProcessHello, InSelect, Fail, SetClosed, AfterClosed
  <2>5. ASSUME NEW p \in Peers, ProcessKeepalive(p) PROVE GuardsExclude'
    BY <2>1, <2>5, OneMoves DEF ProcessKeepalive, InSelect, Goto, Fail, SetClosed, AfterClosed
  <2>6. ASSUME NEW p \in Peers, ReadSubscriptions(p) \/ SendSubscribe(p) PROVE GuardsExclude'
    BY <2>1, <2>6, OneMoves DEF ReadSubscriptions, SendSubscribe, Goto, GuardsExclude
  <2>7. ASSUME NEW p \in Peers,
               ReadAnnouncements(p) \/ SendAnnouncement(p) \/ FinishEstablish(p)
        PROVE  GuardsExclude'
    BY <2>1, <2>7, OneMoves
       DEF ReadAnnouncements, SendAnnouncement, FinishEstablish, Goto, GuardsExclude
  <2>8. ASSUME NEW p \in Peers, ProcessSubscribe(p) \/ ProcessUnsubscribe(p)
        PROVE  GuardsExclude'
    BY <2>1, <2>8, OneMoves DEF ProcessSubscribe, ProcessUnsubscribe, InSelect, Goto
  <2>9. ASSUME NEW p \in Peers, Snapshot(p) \/ UnsubscribeSnapshot(p) PROVE GuardsExclude'
    BY <2>1, <2>9, OneMoves DEF Snapshot, UnsubscribeSnapshot, Goto, GuardsExclude
  <2>10. ASSUME NEW p \in Peers, Replay(p) PROVE GuardsExclude'
    BY <2>1, <2>10, OneMoves DEF Replay, Goto, Fail, SetClosed, AfterClosed, GuardsExclude
  <2>11. ASSUME NEW p \in Peers, WithdrawLearned(p) PROVE GuardsExclude'
    <3>1. PICK r \in todo[p] : RemoveNextHop(p, r) /\ Goto(p, "withdrawing", todo[p] \ {r})
      BY <2>11 DEF WithdrawLearned
    <3>2. MayWrite /\ at[p] = "withdrawing" /\ r \in Routes
      BY <2>11, <3>1 DEF WithdrawLearned, TypeOK, TaskTypeOK, RoutePlaces
    <3>3. CASE queue' = queue
      BY <2>1, <3>1, <3>2, <3>3, OneMoves DEF Goto
    <3>4. CASE Enqueue("Remove", r, p)
      BY <2>1, <3>1, <3>2, <3>4, WriterSends DEF Goto, Sources
    <3> QED
      BY <3>1, <3>3, <3>4 DEF RemoveNextHop
  <2>12. ASSUME NEW p \in Peers, FinishLoop(p) PROVE GuardsExclude'
    BY <2>1, <2>12, OneMoves DEF FinishLoop, Goto
  <2>13. ASSUME NEW p \in Peers, ProcessUpdate(p) PROVE GuardsExclude'
    BY <2>1, <2>13, OneMoves DEF ProcessUpdate, InSelect, Goto
  <2>14. ASSUME NEW p \in Peers, ApplyUpdate(p) PROVE GuardsExclude'
    <3>1. PICK r \in todo[p] : \/ at[p] = "adding" /\ AddNextHop(p, r)
                               \/ at[p] = "removing" /\ RemoveNextHop(p, r)
      BY <2>14 DEF ApplyUpdate
    <3>2. MayWrite /\ Goto(p, "select", {}) /\ r \in Routes
      BY <2>14, <3>1 DEF ApplyUpdate, TypeOK, TaskTypeOK, RoutePlaces
    <3>3. CASE queue' = queue
      BY <2>1, <3>2, <3>3, OneMoves DEF Goto, MayWrite, MayRead
    <3>4. ASSUME NEW action \in {"Add", "Remove"}, Enqueue(action, r, p)
          PROVE  GuardsExclude'
      BY <2>1, <3>2, <3>4, WriterSends DEF Goto, Sources
    <3> QED
      BY <3>1, <3>3, <3>4 DEF AddNextHop, RemoveNextHop
  <2>15. ASSUME NEW p \in Peers, FrameError(p) \/ Transmit(p) PROVE GuardsExclude'
    BY <2>1, <2>15, OneMoves DEF FrameError, Transmit, InSelect, Fail, SetClosed, AfterClosed
  <2>16. ASSUME NEW p \in Peers, KeepaliveTick(p) \/ KeepaliveTimeout(p) \/ Shutdown(p)
         PROVE  GuardsExclude'
    BY <2>1, <2>16, OneMoves
       DEF KeepaliveTick, KeepaliveTimeout, Shutdown, InSelect, Fail, SetClosed, AfterClosed
  <2>17. ASSUME NEW p \in Peers, BeginCleanup(p) PROVE GuardsExclude'
    BY <2>1, <2>17, OneMoves DEF BeginCleanup, Goto, MayRead
  <2>18. ASSUME NEW p \in Peers, CleanupSend(p) PROVE GuardsExclude'
    <3>1. Len(queue') <= QueueCap
      BY <2>18, ConstantsOK DEF CleanupSend, Enqueue, TypeOK, DistTypeOK
    <3> QED
      BY <3>1, ConstantsOK DEF GuardsExclude, WriteHeld, TypeOK, DistTypeOK
  <2>19. ASSUME NEW p \in Peers, CleanupEnd(p) PROVE GuardsExclude'
    BY <2>1, <2>19, OneMoves DEF CleanupEnd, GuardsExclude
  <2>20. ASSUME NEW p \in Peers, Leave(p) PROVE GuardsExclude'
    BY <2>1, <2>20, OneMoves DEF Leave, GuardsExclude
  <2>21. CASE Receive
    <3>1. Len(queue') <= QueueCap
      BY <2>21, ConstantsOK DEF Receive, TypeOK, DistTypeOK
    <3> QED
      BY <3>1, ConstantsOK DEF GuardsExclude, WriteHeld, TypeOK, DistTypeOK
  <2>22. ASSUME NEW r \in LocalRoutes, AnnounceRoute(r) \/ WithdrawRoute(r)
         PROVE  GuardsExclude'
    <3>1. /\ MayWrite /\ at' = at /\ r \in Routes /\ Local \in Sources /\ Local \notin Peers
          /\ \E action \in {"Add", "Remove"} : Enqueue(action, r, Local)
      BY <2>22, ConstantsOK DEF AnnounceRoute, WithdrawRoute, Sources
    <3> QED
      BY <3>1, WriterSends
  <2>23. CASE UNCHANGED <<queue, at>>
    BY <2>23 DEF GuardsExclude, WriteHeld, HoldsWrite
  <2> QED
    BY <2>2, <2>3, <2>4, <2>5, <2>6, <2>7, <2>8, <2>9, <2>10, <2>11, <2>12, <2>13, <2>14,
       <2>15, <2>16, <2>17, <2>18, <2>19, <2>20, <2>21, <2>22, <2>23
       DEF Next, PeerNext, PeerInput, HandlerStep, DistributorNext, ApiNext, ApiStep, vars,
           Distribute, Subscribe, Unsubscribe, NotifyPeer, ClearRoutes
<1> QED
  BY <1>1, <1>2, TypeCorrect, PTL DEF Spec
-----------------------------------------------------------------------------
(* The two deadlocks of the lock: a cleanup asks for the write lock while   *)
(* it has a read guard (peer.rs:262), or a task with the write guard waits  *)
(* for room in the channel while the distributor, which would make room,    *)
(* waits for a read guard (peer.rs:463 and metalbond.rs:537).               *)
QueueDeadlocked == WriteHeld /\ inhand # NoUpdate

(* What neither lets go on: the table, what the instance announces and      *)
(* subscribes to, who subscribes and is connected, and the OS.              *)
Frozen == UNCHANGED <<stateVars, os>>

LEMMA DeadlockSteps ==
  ASSUME TypeOK, [Next]_vars
  PROVE  /\ Wedged => Wedged' /\ Frozen
         /\ QueueDeadlocked => QueueDeadlocked' /\ Frozen
<1> DEFINE Goal == /\ Wedged => Wedged' /\ Frozen
                   /\ QueueDeadlocked => QueueDeadlocked' /\ Frozen
<1> SUFFICES Goal
  OBVIOUS
<1> USE DEF stateVars, peerVars, taskVars, distVars, apiVars, histVars, Frozen, Wedged,
            QueueDeadlocked, WriteHeld, MayRead, MayWrite
<1>1. at \in [Peers -> Places] /\ Len(queue) \in Nat /\ QueueCap \in Nat
  BY ConstantsOK DEF TypeOK, TaskTypeOK, DistTypeOK
<1>2. ASSUME NEW p \in Peers, Connect(p) \/ SendHello(p) \/ ProcessHello(p) PROVE Goal
  BY <1>1, <1>2 DEF Connect, SendHello, ProcessHello, InSelect, Fail, SetClosed, AfterClosed
<1>3. ASSUME NEW p \in Peers, ProcessKeepalive(p) PROVE Goal
  BY <1>1, <1>3 DEF ProcessKeepalive, InSelect, Goto, Fail, SetClosed, AfterClosed
<1>4. ASSUME NEW p \in Peers, \/ ReadSubscriptions(p) \/ SendSubscribe(p)
                              \/ ReadAnnouncements(p) \/ SendAnnouncement(p)
                              \/ FinishEstablish(p)
      PROVE  Goal
  BY <1>1, <1>4 DEF ReadSubscriptions, SendSubscribe, ReadAnnouncements, SendAnnouncement,
                    FinishEstablish, Goto
<1>5. ASSUME NEW p \in Peers, ProcessSubscribe(p) \/ Snapshot(p) PROVE Goal
  BY <1>1, <1>5 DEF ProcessSubscribe, Snapshot
<1>6. ASSUME NEW p \in Peers, Replay(p) PROVE Goal
  BY <1>1, <1>6 DEF Replay, Goto, Fail, SetClosed, AfterClosed
<1>7. ASSUME NEW p \in Peers, ProcessUnsubscribe(p) \/ UnsubscribeSnapshot(p) \/ WithdrawLearned(p)
      PROVE  Goal
  BY <1>1, <1>7 DEF ProcessUnsubscribe, UnsubscribeSnapshot, WithdrawLearned
<1>8. ASSUME NEW p \in Peers, FinishLoop(p) PROVE Goal
  BY <1>1, <1>8 DEF FinishLoop, Goto
<1>9. ASSUME NEW p \in Peers, ProcessUpdate(p) \/ ApplyUpdate(p) PROVE Goal
  BY <1>1, <1>9 DEF ProcessUpdate, ApplyUpdate
<1>10. ASSUME NEW p \in Peers, FrameError(p) \/ Transmit(p) PROVE Goal
  BY <1>1, <1>10 DEF FrameError, Transmit, InSelect, Fail, SetClosed, AfterClosed
<1>11. ASSUME NEW p \in Peers, KeepaliveTick(p) \/ KeepaliveTimeout(p) \/ Shutdown(p) PROVE Goal
  BY <1>1, <1>11 DEF KeepaliveTick, KeepaliveTimeout, Shutdown, InSelect, Fail, SetClosed,
                     AfterClosed
<1>12. ASSUME NEW p \in Peers, BeginCleanup(p) \/ Leave(p) PROVE Goal
  BY <1>1, <1>12 DEF BeginCleanup, Leave
<1>13. ASSUME NEW p \in Peers, CleanupSend(p) \/ CleanupEnd(p) PROVE Goal
  BY <1>1, <1>13 DEF CleanupSend, CleanupEnd, Goto
<1>14. CASE Receive \/ Distribute
  BY <1>14 DEF Receive, Distribute
<1>15. ASSUME NEW v \in LocalVnis, Subscribe(v) \/ Unsubscribe(v) PROVE Goal
  BY <1>15 DEF Subscribe, Unsubscribe
<1>16. ASSUME NEW r \in LocalRoutes, AnnounceRoute(r) \/ WithdrawRoute(r) PROVE Goal
  BY <1>16 DEF AnnounceRoute, WithdrawRoute
<1>17. ASSUME NEW p \in Peers, NotifyPeer(p) PROVE Goal
  BY <1>17 DEF NotifyPeer
<1>18. CASE ClearRoutes
  BY <1>18 DEF ClearRoutes
<1>19. CASE UNCHANGED vars
  BY <1>19 DEF vars
<1> HIDE DEF Goal
<1>20. ASSUME NEW p \in Peers, PeerNext(p) PROVE Goal
  BY <1>2, <1>3, <1>4, <1>5, <1>6, <1>7, <1>8, <1>9, <1>10, <1>11, <1>12, <1>13, <1>20
     DEF PeerNext, PeerInput, HandlerStep
<1>21. CASE ApiNext
  BY <1>15, <1>16, <1>17, <1>18, <1>21 DEF ApiNext, ApiStep
<1> QED
  BY <1>14, <1>19, <1>20, <1>21 DEF Next, DistributorNext

(* Neither deadlock ever ends, whatever the network, the timers and the     *)
(* application do: once it is reached, no step changes the shared state or  *)
(* the OS any more.  The runs wedge and queue_deadlock reach them; that     *)
(* nothing leads out of them does not depend on the size of the instance.   *)
THEOREM WedgeIsForever == Spec => [][Wedged => Wedged' /\ Frozen]_vars
<1>1. TypeOK /\ [Next]_vars => (Wedged => Wedged' /\ Frozen)
  BY DeadlockSteps
<1> QED
  BY <1>1, TypeCorrect, PTL DEF Spec

(* The same of the channel: neither the waiting sender nor the distributor  *)
(* ever goes on.                                                            *)
THEOREM QueueDeadlockIsForever ==
  Spec => [][QueueDeadlocked => QueueDeadlocked' /\ Frozen]_vars
<1>1. TypeOK /\ [Next]_vars => (QueueDeadlocked => QueueDeadlocked' /\ Frozen)
  BY DeadlockSteps
<1> QED
  BY <1>1, TypeCorrect, PTL DEF Spec
=============================================================================
