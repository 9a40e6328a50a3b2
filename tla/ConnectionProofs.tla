--------------------------- MODULE ConnectionProofs ---------------------------
(* What MetalBond promises of its connections, for any number of peers and  *)
(* VNIs: a Closed connection stays Closed, and no subscription is lost on   *)
(* an Established one.                                                      *)
EXTENDS MetalBondProofs

(* A connection whose task runs is in the peers map, and one whose task has *)
(* not sent its HELLO is Connecting.                                        *)
TasksAreListed ==
    \A p \in Peers :
        /\ at[p] \notin {"none", "gone"} => p \in peers
        /\ at[p] \in {"none", "starting", "gone"} => conn[p] = "Connecting"

(* The part of TypeOK that the proofs below need.                           *)
ConnectionTypeOK ==
    /\ at \in [Peers -> Places] /\ conn \in [Peers -> States]
    /\ todo \in [Peers -> SUBSET (Vnis \cup Routes)]
    /\ asked \in [Peers -> SUBSET Vnis]
    /\ mySubs \subseteq LocalVnis /\ peers \subseteq Peers
    /\ ApiTypeOK

(* It follows from type correctness.                                        *)
LEMMA ConnectionTypes == Spec => []ConnectionTypeOK
<1>1. TypeOK => ConnectionTypeOK
  BY DEF TypeOK, StateTypeOK, PeerTypeOK, TaskTypeOK, HistTypeOK, ConnectionTypeOK
<1> QED
  BY <1>1, TypeCorrect, PTL

(* The peers map has the entry of every running task: it is inserted before *)
(* handle_peer starts and removed after it returned.                        *)
LEMMA TasksListed == Spec => []TasksAreListed
<1>1. Init => TasksAreListed
  BY DEF Init, TasksAreListed
<1>2. ConnectionTypeOK /\ TasksAreListed /\ [Next]_vars => TasksAreListed'
  <2> SUFFICES ASSUME ConnectionTypeOK, TasksAreListed, [Next]_vars PROVE TasksAreListed'
    OBVIOUS
  <2> USE DEF ConnectionTypeOK, stateVars, peerVars, taskVars, distVars, apiVars, histVars
  <2>1. ASSUME NEW p \in Peers, Connect(p) PROVE TasksAreListed'
    BY <2>1 DEF Connect, TasksAreListed
  <2>2. ASSUME NEW p \in Peers, SendHello(p) PROVE TasksAreListed'
    BY <2>2 DEF SendHello, SetClosed, AfterClosed, TasksAreListed
  <2>3. ASSUME NEW p \in Peers, ProcessHello(p) PROVE TasksAreListed'
    BY <2>3 DEF ProcessHello, InSelect, Fail, SetClosed, AfterClosed, TasksAreListed
  <2>4. ASSUME NEW p \in Peers, ProcessKeepalive(p) PROVE TasksAreListed'
    BY <2>4 DEF ProcessKeepalive, InSelect, Goto, Fail, SetClosed, AfterClosed,
       TasksAreListed
  <2>5. ASSUME NEW p \in Peers, ReadSubscriptions(p) PROVE TasksAreListed'
    BY <2>5 DEF ReadSubscriptions, Goto, TasksAreListed
  <2>6. ASSUME NEW p \in Peers, SendSubscribe(p) PROVE TasksAreListed'
    BY <2>6 DEF SendSubscribe, Goto, TasksAreListed
  <2>7. ASSUME NEW p \in Peers, ReadAnnouncements(p) PROVE TasksAreListed'
    BY <2>7 DEF ReadAnnouncements, Goto, TasksAreListed
  <2>8. ASSUME NEW p \in Peers, SendAnnouncement(p) PROVE TasksAreListed'
    BY <2>8 DEF SendAnnouncement, Goto, TasksAreListed
  <2>9. ASSUME NEW p \in Peers, FinishEstablish(p) PROVE TasksAreListed'
    BY <2>9 DEF FinishEstablish, Goto, TasksAreListed
  <2>10. ASSUME NEW p \in Peers, ProcessSubscribe(p) PROVE TasksAreListed'
    BY <2>10 DEF ProcessSubscribe, InSelect, Goto, TasksAreListed
  <2>11. ASSUME NEW p \in Peers, Snapshot(p) PROVE TasksAreListed'
    BY <2>11 DEF Snapshot, Goto, TasksAreListed
  <2>12. ASSUME NEW p \in Peers, Replay(p) PROVE TasksAreListed'
    BY <2>12 DEF Replay, Goto, Fail, SetClosed, AfterClosed, TasksAreListed
  <2>13. ASSUME NEW p \in Peers, ProcessUnsubscribe(p) PROVE TasksAreListed'
    BY <2>13 DEF ProcessUnsubscribe, InSelect, Goto, TasksAreListed
  <2>14. ASSUME NEW p \in Peers, UnsubscribeSnapshot(p) PROVE TasksAreListed'
    BY <2>14 DEF UnsubscribeSnapshot, Goto, TasksAreListed
  <2>15. ASSUME NEW p \in Peers, WithdrawLearned(p) PROVE TasksAreListed'
    BY <2>15 DEF WithdrawLearned, Goto, TasksAreListed
  <2>16. ASSUME NEW p \in Peers, FinishLoop(p) PROVE TasksAreListed'
    BY <2>16 DEF FinishLoop, Goto, TasksAreListed
  <2>17. ASSUME NEW p \in Peers, ProcessUpdate(p) PROVE TasksAreListed'
    BY <2>17 DEF ProcessUpdate, InSelect, Goto, TasksAreListed
  <2>18. ASSUME NEW p \in Peers, ApplyUpdate(p) PROVE TasksAreListed'
    BY <2>18 DEF ApplyUpdate, Goto, TasksAreListed
  <2>19. ASSUME NEW p \in Peers, FrameError(p) PROVE TasksAreListed'
    BY <2>19 DEF FrameError, InSelect, Fail, SetClosed, AfterClosed, TasksAreListed
  <2>20. ASSUME NEW p \in Peers, Transmit(p) PROVE TasksAreListed'
    BY <2>20 DEF Transmit, InSelect, Fail, SetClosed, AfterClosed, TasksAreListed
  <2>21. ASSUME NEW p \in Peers, KeepaliveTick(p) PROVE TasksAreListed'
    BY <2>21 DEF KeepaliveTick, InSelect, TasksAreListed
  <2>22. ASSUME NEW p \in Peers, KeepaliveTimeout(p) PROVE TasksAreListed'
    BY <2>22 DEF KeepaliveTimeout, InSelect, Fail, SetClosed, AfterClosed,
       TasksAreListed
  <2>23. ASSUME NEW p \in Peers, Shutdown(p) PROVE TasksAreListed'
    BY <2>23 DEF Shutdown, InSelect, SetClosed, AfterClosed, TasksAreListed
  <2>24. ASSUME NEW p \in Peers, BeginCleanup(p) PROVE TasksAreListed'
    BY <2>24 DEF BeginCleanup, Goto, TasksAreListed
  <2>25. ASSUME NEW p \in Peers, CleanupSend(p) PROVE TasksAreListed'
    BY <2>25 DEF CleanupSend, Goto, TasksAreListed
  <2>26. ASSUME NEW p \in Peers, CleanupEnd(p) PROVE TasksAreListed'
    BY <2>26 DEF CleanupEnd, AfterCleanup, TasksAreListed
  <2>27. ASSUME NEW p \in Peers, Leave(p) PROVE TasksAreListed'
    BY <2>27 DEF Leave, TasksAreListed
  <2>28. ASSUME Receive PROVE TasksAreListed'
    BY <2>28 DEF Receive, TasksAreListed
  <2>29. ASSUME Distribute PROVE TasksAreListed'
    BY <2>29 DEF Distribute, TasksAreListed
  <2>30. ASSUME NEW v \in LocalVnis, Subscribe(v) PROVE TasksAreListed'
    BY <2>30 DEF Subscribe, TasksAreListed
  <2>31. ASSUME NEW v \in LocalVnis, Unsubscribe(v) PROVE TasksAreListed'
    BY <2>31 DEF Unsubscribe, TasksAreListed
  <2>32. ASSUME NEW q \in Peers, NotifyPeer(q) PROVE TasksAreListed'
    BY <2>32 DEF NotifyPeer, TasksAreListed
  <2>33. ASSUME ClearRoutes PROVE TasksAreListed'
    BY <2>33 DEF ClearRoutes, TasksAreListed
  <2>34. ASSUME NEW r \in LocalRoutes, AnnounceRoute(r) PROVE TasksAreListed'
    BY <2>34 DEF AnnounceRoute, TasksAreListed
  <2>35. ASSUME NEW r \in LocalRoutes, WithdrawRoute(r) PROVE TasksAreListed'
    BY <2>35 DEF WithdrawRoute, TasksAreListed
  <2>36. CASE UNCHANGED vars
    BY <2>36 DEF vars, TasksAreListed
  <2> QED
    BY <2>1, <2>2, <2>3, <2>4, <2>5, <2>6, <2>7, <2>8, <2>9, <2>10, <2>11, <2>12, <2>13,
       <2>14, <2>15, <2>16, <2>17, <2>18, <2>19, <2>20, <2>21, <2>22, <2>23, <2>24,
       <2>25, <2>26, <2>27, <2>28, <2>29, <2>30, <2>31, <2>32, <2>33, <2>34, <2>35,
       <2>36 DEF Next, PeerNext, PeerInput, HandlerStep, DistributorNext, ApiNext,
       ApiStep
<1> QED
  BY <1>1, <1>2, ConnectionTypes, PTL DEF Spec

-----------------------------------------------------------------------------
(* The step ClosedIsFinal allows.                                           *)
ClosedStays == \A p \in peers : conn[p] = "Closed" => conn'[p] = "Closed" \/ p \notin peers'

(* No message, timer or call moves a Closed connection to another state:    *)
(* process_hello and process_keepalive look at the state, and the first     *)
(* HELLO is sent before anything can close the connection.                  *)
THEOREM ClosedForGood == Spec => ClosedIsFinal
<1>1. ConnectionTypeOK /\ TasksAreListed /\ [Next]_vars => ClosedStays \/ UNCHANGED vars
  <2> SUFFICES ASSUME ConnectionTypeOK, TasksAreListed, [Next]_vars
               PROVE  ClosedStays \/ UNCHANGED vars
    OBVIOUS
  <2> USE DEF ConnectionTypeOK, stateVars, peerVars, taskVars, distVars, apiVars, histVars
  <2>1. ASSUME NEW p \in Peers, Connect(p) PROVE ClosedStays
    BY <2>1 DEF Connect, ClosedStays, TasksAreListed
  <2>2. ASSUME NEW p \in Peers, SendHello(p) PROVE ClosedStays
    BY <2>2 DEF SendHello, SetClosed, ClosedStays, TasksAreListed
  <2>3. ASSUME NEW p \in Peers, ProcessHello(p) PROVE ClosedStays
    BY <2>3 DEF ProcessHello, Fail, SetClosed, ClosedStays
  <2>4. ASSUME NEW p \in Peers, ProcessKeepalive(p) PROVE ClosedStays
    BY <2>4 DEF ProcessKeepalive, Fail, SetClosed, ClosedStays
  <2>5. ASSUME NEW p \in Peers, ReadSubscriptions(p) PROVE ClosedStays
    BY <2>5 DEF ReadSubscriptions, ClosedStays
  <2>6. ASSUME NEW p \in Peers, SendSubscribe(p) PROVE ClosedStays
    BY <2>6 DEF SendSubscribe, ClosedStays
  <2>7. ASSUME NEW p \in Peers, ReadAnnouncements(p) PROVE ClosedStays
    BY <2>7 DEF ReadAnnouncements, ClosedStays
  <2>8. ASSUME NEW p \in Peers, SendAnnouncement(p) PROVE ClosedStays
    BY <2>8 DEF SendAnnouncement, ClosedStays
  <2>9. ASSUME NEW p \in Peers, FinishEstablish(p) PROVE ClosedStays
    BY <2>9 DEF FinishEstablish, ClosedStays
  <2>10. ASSUME NEW p \in Peers, ProcessSubscribe(p) PROVE ClosedStays
    BY <2>10 DEF ProcessSubscribe, ClosedStays
  <2>11. ASSUME NEW p \in Peers, Snapshot(p) PROVE ClosedStays
    BY <2>11 DEF Snapshot, ClosedStays
  <2>12. ASSUME NEW p \in Peers, Replay(p) PROVE ClosedStays
    BY <2>12 DEF Replay, Fail, SetClosed, ClosedStays
  <2>13. ASSUME NEW p \in Peers, ProcessUnsubscribe(p) PROVE ClosedStays
    BY <2>13 DEF ProcessUnsubscribe, ClosedStays
  <2>14. ASSUME NEW p \in Peers, UnsubscribeSnapshot(p) PROVE ClosedStays
    BY <2>14 DEF UnsubscribeSnapshot, ClosedStays
  <2>15. ASSUME NEW p \in Peers, WithdrawLearned(p) PROVE ClosedStays
    BY <2>15 DEF WithdrawLearned, ClosedStays
  <2>16. ASSUME NEW p \in Peers, FinishLoop(p) PROVE ClosedStays
    BY <2>16 DEF FinishLoop, ClosedStays
  <2>17. ASSUME NEW p \in Peers, ProcessUpdate(p) PROVE ClosedStays
    BY <2>17 DEF ProcessUpdate, ClosedStays
  <2>18. ASSUME NEW p \in Peers, ApplyUpdate(p) PROVE ClosedStays
    BY <2>18 DEF ApplyUpdate, ClosedStays
  <2>19. ASSUME NEW p \in Peers, FrameError(p) PROVE ClosedStays
    BY <2>19 DEF FrameError, Fail, SetClosed, ClosedStays
  <2>20. ASSUME NEW p \in Peers, Transmit(p) PROVE ClosedStays
    BY <2>20 DEF Transmit, Fail, SetClosed, ClosedStays
  <2>21. ASSUME NEW p \in Peers, KeepaliveTick(p) PROVE ClosedStays
    BY <2>21 DEF KeepaliveTick, ClosedStays
  <2>22. ASSUME NEW p \in Peers, KeepaliveTimeout(p) PROVE ClosedStays
    BY <2>22 DEF KeepaliveTimeout, Fail, SetClosed, ClosedStays
  <2>23. ASSUME NEW p \in Peers, Shutdown(p) PROVE ClosedStays
    BY <2>23 DEF Shutdown, SetClosed, ClosedStays
  <2>24. ASSUME NEW p \in Peers, BeginCleanup(p) PROVE ClosedStays
    BY <2>24 DEF BeginCleanup, ClosedStays
  <2>25. ASSUME NEW p \in Peers, CleanupSend(p) PROVE ClosedStays
    BY <2>25 DEF CleanupSend, ClosedStays
  <2>26. ASSUME NEW p \in Peers, CleanupEnd(p) PROVE ClosedStays
    BY <2>26 DEF CleanupEnd, ClosedStays
  <2>27. ASSUME NEW p \in Peers, Leave(p) PROVE ClosedStays
    BY <2>27 DEF Leave, ClosedStays
  <2>28. ASSUME Receive PROVE ClosedStays
    BY <2>28 DEF Receive, ClosedStays
  <2>29. ASSUME Distribute PROVE ClosedStays
    BY <2>29 DEF Distribute, ClosedStays
  <2>30. ASSUME NEW v \in LocalVnis, Subscribe(v) PROVE ClosedStays
    BY <2>30 DEF Subscribe, ClosedStays
  <2>31. ASSUME NEW v \in LocalVnis, Unsubscribe(v) PROVE ClosedStays
    BY <2>31 DEF Unsubscribe, ClosedStays
  <2>32. ASSUME NEW q \in Peers, NotifyPeer(q) PROVE ClosedStays
    BY <2>32 DEF NotifyPeer, ClosedStays
  <2>33. ASSUME ClearRoutes PROVE ClosedStays
    BY <2>33 DEF ClearRoutes, ClosedStays
  <2>34. ASSUME NEW r \in LocalRoutes, AnnounceRoute(r) PROVE ClosedStays
    BY <2>34 DEF AnnounceRoute, ClosedStays
  <2>35. ASSUME NEW r \in LocalRoutes, WithdrawRoute(r) PROVE ClosedStays
    BY <2>35 DEF WithdrawRoute, ClosedStays
  <2> QED
    BY <2>1, <2>2, <2>3, <2>4, <2>5, <2>6, <2>7, <2>8, <2>9, <2>10, <2>11, <2>12, <2>13,
       <2>14, <2>15, <2>16, <2>17, <2>18, <2>19, <2>20, <2>21, <2>22, <2>23, <2>24,
       <2>25, <2>26, <2>27, <2>28, <2>29, <2>30, <2>31, <2>32, <2>33, <2>34, <2>35
       DEF Next, PeerNext, PeerInput, HandlerStep, DistributorNext, ApiNext,
       ApiStep
<1> QED
  BY <1>1, ConnectionTypes, TasksListed, PTL DEF Spec, ClosedIsFinal, ClosedStays

-----------------------------------------------------------------------------
(* An unsubscribe call in progress is for a VNI that is not subscribed: the *)
(* application makes no other call meanwhile.                               *)
CallsAreTrue == apiAt = "unsubscribe" => apiVni \cap mySubs = {}

(* The inductive invariant of NoLostSubscription.                           *)
SubscriptionInv == CallsAreTrue /\ NoLostSubscription

(* subscribe() inserts the VNI and collects the peers under one guard;      *)
(* set_state(Established) writes the state before it copies the VNIs.  So   *)
(* either the copy has the VNI or the call finds the connection Established *)
(* (with TasksAreListed: in its list), however the two interleave.          *)
THEOREM SubscriptionsReachConnections == Spec => []NoLostSubscription
<1>1. Init => SubscriptionInv
  BY DEF Init, SubscriptionInv, CallsAreTrue, NoLostSubscription
<1>2. /\ ConnectionTypeOK /\ TasksAreListed
      /\ SubscriptionInv /\ [Next]_vars
      => SubscriptionInv'
  <2> SUFFICES ASSUME ConnectionTypeOK, TasksAreListed, SubscriptionInv, [Next]_vars
               PROVE  SubscriptionInv'
    OBVIOUS
  <2> USE DEF ConnectionTypeOK, SubscriptionInv, stateVars, peerVars, taskVars, distVars,
              apiVars, histVars
  <2>1. ASSUME NEW p \in Peers, Connect(p) PROVE SubscriptionInv'
    BY <2>1 DEF Connect, CallsAreTrue, NoLostSubscription
  <2>2. ASSUME NEW p \in Peers, SendHello(p) PROVE SubscriptionInv'
    BY <2>2 DEF SendHello, SetClosed, AfterClosed, CallsAreTrue, NoLostSubscription
  <2>3. ASSUME NEW p \in Peers, ProcessHello(p) PROVE SubscriptionInv'
    BY <2>3 DEF ProcessHello, InSelect, Fail, SetClosed, AfterClosed, CallsAreTrue,
       NoLostSubscription
  <2>4. ASSUME NEW p \in Peers, ProcessKeepalive(p) PROVE SubscriptionInv'
    BY <2>4 DEF ProcessKeepalive, InSelect, Goto, Fail, SetClosed, AfterClosed,
       CallsAreTrue, NoLostSubscription, TasksAreListed
  <2>5. ASSUME NEW p \in Peers, ReadSubscriptions(p) PROVE SubscriptionInv'
    BY <2>5 DEF ReadSubscriptions, Goto, CallsAreTrue, NoLostSubscription
  <2>6. ASSUME NEW p \in Peers, SendSubscribe(p) PROVE SubscriptionInv'
    BY <2>6 DEF SendSubscribe, Goto, CallsAreTrue, NoLostSubscription
  <2>7. ASSUME NEW p \in Peers, ReadAnnouncements(p) PROVE SubscriptionInv'
    BY <2>7 DEF ReadAnnouncements, Goto, CallsAreTrue, NoLostSubscription
  <2>8. ASSUME NEW p \in Peers, SendAnnouncement(p) PROVE SubscriptionInv'
    BY <2>8 DEF SendAnnouncement, Goto, CallsAreTrue, NoLostSubscription
  <2>9. ASSUME NEW p \in Peers, FinishEstablish(p) PROVE SubscriptionInv'
    BY <2>9 DEF FinishEstablish, Goto, CallsAreTrue, NoLostSubscription
  <2>10. ASSUME NEW p \in Peers, ProcessSubscribe(p) PROVE SubscriptionInv'
    BY <2>10 DEF ProcessSubscribe, InSelect, Goto, CallsAreTrue, NoLostSubscription
  <2>11. ASSUME NEW p \in Peers, Snapshot(p) PROVE SubscriptionInv'
    BY <2>11 DEF Snapshot, Goto, CallsAreTrue, NoLostSubscription
  <2>12. ASSUME NEW p \in Peers, Replay(p) PROVE SubscriptionInv'
    BY <2>12 DEF Replay, Goto, Fail, SetClosed, AfterClosed, CallsAreTrue,
       NoLostSubscription
  <2>13. ASSUME NEW p \in Peers, ProcessUnsubscribe(p) PROVE SubscriptionInv'
    BY <2>13 DEF ProcessUnsubscribe, InSelect, Goto, CallsAreTrue, NoLostSubscription
  <2>14. ASSUME NEW p \in Peers, UnsubscribeSnapshot(p) PROVE SubscriptionInv'
    BY <2>14 DEF UnsubscribeSnapshot, Goto, CallsAreTrue, NoLostSubscription
  <2>15. ASSUME NEW p \in Peers, WithdrawLearned(p) PROVE SubscriptionInv'
    BY <2>15 DEF WithdrawLearned, Goto, CallsAreTrue, NoLostSubscription
  <2>16. ASSUME NEW p \in Peers, FinishLoop(p) PROVE SubscriptionInv'
    BY <2>16 DEF FinishLoop, Goto, CallsAreTrue, NoLostSubscription
  <2>17. ASSUME NEW p \in Peers, ProcessUpdate(p) PROVE SubscriptionInv'
    BY <2>17 DEF ProcessUpdate, InSelect, Goto, CallsAreTrue, NoLostSubscription
  <2>18. ASSUME NEW p \in Peers, ApplyUpdate(p) PROVE SubscriptionInv'
    BY <2>18 DEF ApplyUpdate, Goto, CallsAreTrue, NoLostSubscription
  <2>19. ASSUME NEW p \in Peers, FrameError(p) PROVE SubscriptionInv'
    BY <2>19 DEF FrameError, InSelect, Fail, SetClosed, AfterClosed, CallsAreTrue,
       NoLostSubscription
  <2>20. ASSUME NEW p \in Peers, Transmit(p) PROVE SubscriptionInv'
    BY <2>20 DEF Transmit, InSelect, Fail, SetClosed, AfterClosed, CallsAreTrue,
       NoLostSubscription
  <2>21. ASSUME NEW p \in Peers, KeepaliveTick(p) PROVE SubscriptionInv'
    BY <2>21 DEF KeepaliveTick, InSelect, CallsAreTrue, NoLostSubscription
  <2>22. ASSUME NEW p \in Peers, KeepaliveTimeout(p) PROVE SubscriptionInv'
    BY <2>22 DEF KeepaliveTimeout, InSelect, Fail, SetClosed, AfterClosed, CallsAreTrue,
       NoLostSubscription
  <2>23. ASSUME NEW p \in Peers, Shutdown(p) PROVE SubscriptionInv'
    BY <2>23 DEF Shutdown, InSelect, SetClosed, AfterClosed, CallsAreTrue,
       NoLostSubscription
  <2>24. ASSUME NEW p \in Peers, BeginCleanup(p) PROVE SubscriptionInv'
    BY <2>24 DEF BeginCleanup, Goto, CallsAreTrue, NoLostSubscription
  <2>25. ASSUME NEW p \in Peers, CleanupSend(p) PROVE SubscriptionInv'
    BY <2>25 DEF CleanupSend, Goto, CallsAreTrue, NoLostSubscription
  <2>26. ASSUME NEW p \in Peers, CleanupEnd(p) PROVE SubscriptionInv'
    BY <2>26 DEF CleanupEnd, AfterCleanup, CallsAreTrue, NoLostSubscription
  <2>27. ASSUME NEW p \in Peers, Leave(p) PROVE SubscriptionInv'
    BY <2>27 DEF Leave, CallsAreTrue, NoLostSubscription
  <2>28. ASSUME Receive PROVE SubscriptionInv'
    BY <2>28 DEF Receive, CallsAreTrue, NoLostSubscription
  <2>29. ASSUME Distribute PROVE SubscriptionInv'
    BY <2>29 DEF Distribute, CallsAreTrue, NoLostSubscription
  <2>30. ASSUME NEW v \in LocalVnis, Subscribe(v) PROVE SubscriptionInv'
    BY <2>30 DEF Subscribe, CallsAreTrue, NoLostSubscription, TasksAreListed
  <2>31. ASSUME NEW v \in LocalVnis, Unsubscribe(v) PROVE SubscriptionInv'
    BY <2>31 DEF Unsubscribe, CallsAreTrue, NoLostSubscription
  <2>32. ASSUME NEW q \in Peers, NotifyPeer(q) PROVE SubscriptionInv'
    <3>1. CallsAreTrue'
      BY <2>32 DEF NotifyPeer, CallsAreTrue
    <3>2. CASE apiAt = "subscribe"
      BY <2>32, <3>1, <3>2 DEF NotifyPeer, Asked, NoLostSubscription
    <3>3. CASE apiAt = "unsubscribe"
      BY <2>32, <3>1, <3>3 DEF NotifyPeer, Asked, CallsAreTrue, NoLostSubscription
    <3> QED
      BY <2>32, <3>2, <3>3 DEF NotifyPeer, ApiTypeOK
  <2>33. ASSUME ClearRoutes PROVE SubscriptionInv'
    BY <2>33 DEF ClearRoutes, CallsAreTrue, NoLostSubscription
  <2>34. ASSUME NEW r \in LocalRoutes, AnnounceRoute(r) PROVE SubscriptionInv'
    BY <2>34 DEF AnnounceRoute, CallsAreTrue, NoLostSubscription
  <2>35. ASSUME NEW r \in LocalRoutes, WithdrawRoute(r) PROVE SubscriptionInv'
    BY <2>35 DEF WithdrawRoute, CallsAreTrue, NoLostSubscription
  <2>36. CASE UNCHANGED vars
    BY <2>36 DEF vars, CallsAreTrue, NoLostSubscription
  <2> QED
    BY <2>1, <2>2, <2>3, <2>4, <2>5, <2>6, <2>7, <2>8, <2>9, <2>10, <2>11, <2>12, <2>13,
       <2>14, <2>15, <2>16, <2>17, <2>18, <2>19, <2>20, <2>21, <2>22, <2>23, <2>24,
       <2>25, <2>26, <2>27, <2>28, <2>29, <2>30, <2>31, <2>32, <2>33, <2>34, <2>35,
       <2>36 DEF Next, PeerNext, PeerInput, HandlerStep, DistributorNext, ApiNext,
       ApiStep
<1>3. SubscriptionInv => NoLostSubscription
  BY DEF SubscriptionInv
<1> QED
  BY <1>1, <1>2, <1>3, ConnectionTypes, TasksListed, PTL DEF Spec
=============================================================================
