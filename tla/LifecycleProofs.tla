--------------------------- MODULE LifecycleProofs ---------------------------
(* What Lifecycle promises of the tasks of an instance, for any number of  *)
(* addresses and tasks: the invariants its run checks, and that a client   *)
(* always tries again.  All rest on one inductive invariant.               *)
EXTENDS Lifecycle, TLAPS

AfterDrain == {"join", "signal", "waitPeers", "awaitDistributor", "returned"}

(* What a client's loops and tasks are when shutdown() has come so far.    *)
ShutdownInv ==
    /\ sd = "running" => woken = {}
    /\ ~IsServer => loop["listener"] = "none"
    /\ sd \notin {"running", "takeListener", "awaitListener"} =>
          loop["listener"] \in {"none", "done"}
    /\ sd \in {"drain"} \cup AfterDrain => loop["manager"] = "done"
    /\ sd = "returned" => loop["distributor"] = "done"
    /\ ~IsServer /\ sd \in AfterDrain => \A t \in Tasks : at[t] = "done" \/ t \in aborted

(* A task ends its loop only at shutdown(), and is aborted then only when  *)
(* all are.                                                                *)
EndingInv ==
    \A t \in Tasks : at[t] = "ending" =>
        sd # "running" /\ (t \in aborted => sd \in AfterDrain)

(* The handle of a client's task is kept until the task is told to stop.   *)
HandlesKept ==
    ~IsServer => \A t \in Tasks \ aborted : addr[t] # None => peerTasks[addr[t]] = t

(* The Peer listed under the address of a client's task is its own, or one *)
(* of a task that was told to stop and has not lost its connection.        *)
ListedIsOwn ==
    ~IsServer =>
        \A t \in Tasks \ aborted : addr[t] # None /\ peers[addr[t]] # None =>
            peers[addr[t]] = t \/ peers[addr[t]] \in aborted \ closed

(* A server's tasks have addresses of their own, unless one is reused.     *)
OwnAddress ==
    IsServer /\ ~reuse =>
        \A t, u \in Tasks : addr[t] # None /\ addr[t] = addr[u] => t = u

(* A server's task enters at once, and ends when it has left.              *)
ServerTasks ==
    IsServer => \A t \in Tasks : at[t] \in {"done", "entering", "leaving"} \cup Handling

(* Nobody aborts a task that is stuck: that takes the lock it holds.       *)
StuckKept == \A t \in Tasks : at[t] = "wedged" => t \notin aborted

(* Most of these parts need the others: that a task does not end           *)
(* (EndingInv) is needed for its handle to be its own (HandlesKept), which *)
(* makes it the only one to be listed (ListedIsOwn), which makes it retry. *)
LifecycleInv ==
    /\ TypeOK /\ ShutdownInv /\ EndingInv /\ HandlesKept /\ ListedIsOwn
    /\ EntriesAreLive /\ OwnAddress /\ ServerTasks /\ HandledIsListed /\ StuckKept

-----------------------------------------------------------------------------
(* When a task whose connection is gone asks for the state of the Peer now *)
(* listed, there is none, or one that is not Closed.                       *)
LEMMA NeverAskedOfClosed ==
    ASSUME LifecycleInv, NEW t \in Tasks \ aborted, at[t] = "deciding"
    PROVE  ~AskedIsClosed(t)
<1>1. ~IsServer
  BY DEF LifecycleInv, ServerTasks, Handling
<1>2. addr[t] \in Addrs /\ addr[t] # None
  BY DEF LifecycleInv, TypeOK
<1>3. peers[addr[t]] # t
  BY <1>2, NoneOK DEF LifecycleInv, EntriesAreLive, Handling
<1>4. peers[addr[t]] = None \/ peers[addr[t]] \notin closed
  BY <1>1, <1>2, <1>3 DEF LifecycleInv, ListedIsOwn
<1>5. None \notin closed
  BY NoneOK DEF LifecycleInv, TypeOK
<1> QED
  BY <1>4, <1>5 DEF AskedIsClosed

(* Every step keeps the invariant.                                         *)
LEMMA InvKept == LifecycleInv /\ [Next]_vars => LifecycleInv'
<1> SUFFICES ASSUME LifecycleInv, [Next]_vars PROVE LifecycleInv'
  OBVIOUS
<1> USE NoneOK DEF LifecycleInv, TypeOK, IsServer, Places, LoopPlaces, ShutdownPlaces,
    Loops, ShutdownInv, AfterDrain, EndingInv, HandlesKept, ListedIsOwn, EntriesAreLive,
    OwnAddress, ServerTasks, HandledIsListed, StuckKept, Handling, maps, taskVars, calls
<1>1. ASSUME NEW l \in Loops, LoopStarts(l) PROVE LifecycleInv'
  BY <1>1 DEF LoopStarts, MoveLoop
<1>2. ASSUME NEW l \in Loops, LoopEnds(l) PROVE LifecycleInv'
  BY <1>2 DEF LoopEnds, MoveLoop, ForgetWakeUp
<1>3. ASSUME NEW l \in Loops, Works(l) PROVE LifecycleInv'
  BY <1>3 DEF Works, MoveLoop, ForgetWakeUp
<1>4. ASSUME ManagerTicks PROVE LifecycleInv'
  BY <1>4 DEF ManagerTicks, ForgetWakeUp
<1>5. ASSUME AcceptFails PROVE LifecycleInv'
  BY <1>5 DEF AcceptFails, MoveLoop, ForgetWakeUp
<1>6. ASSUME PauseEnds PROVE LifecycleInv'
  BY <1>6 DEF PauseEnds, MoveLoop
<1>7. ASSUME Distributes PROVE LifecycleInv'
  BY <1>7 DEF Distributes, MoveLoop
<1>8. ASSUME NEW t \in Tasks, NEW a \in Addrs, SpawnIncoming(t, a) PROVE LifecycleInv'
  BY <1>8 DEF SpawnIncoming, MoveLoop, Spawn, Free
<1>9. ASSUME NEW t \in Tasks, Starts(t) PROVE LifecycleInv'
  BY <1>9 DEF Starts, Step, MoveTask
<1>10. ASSUME NEW t \in Tasks, Connects(t) PROVE LifecycleInv'
  <2>1. /\ at[t] = "connecting" /\ at' = [at EXCEPT ![t] = "entering"] /\ woken' \subseteq woken
        /\ UNCHANGED <<mode, reuse, maps, addr, closed, signal, aborted, loop, calls>>
    BY <1>10 DEF Connects, Step, MoveTask, ForgetWakeUp
  <2> QED
    BY <2>1
<1>11. ASSUME NEW t \in Tasks, FailsToConnect(t) PROVE LifecycleInv'
  <2>1. /\ at[t] = "connecting" /\ at' = [at EXCEPT ![t] = "retrying"] /\ woken' \subseteq woken
        /\ UNCHANGED <<mode, reuse, maps, addr, closed, signal, aborted, loop, calls>>
    BY <1>11 DEF FailsToConnect, Step, MoveTask, ForgetWakeUp
  <2> QED
    BY <2>1
<1>12. ASSUME NEW t \in Tasks, Retries(t) PROVE LifecycleInv'
  <2>1. /\ at[t] = "retrying" /\ at' = [at EXCEPT ![t] = "connecting"] /\ woken' \subseteq woken
        /\ UNCHANGED <<mode, reuse, maps, addr, closed, signal, aborted, loop, calls>>
    BY <1>12 DEF Retries, Step, MoveTask, ForgetWakeUp
  <2> QED
    BY <2>1
<1>13. ASSUME NEW t \in Tasks, Enters(t) PROVE LifecycleInv'
  BY <1>13 DEF Enters, Step, MoveTask
<1>14. ASSUME NEW t \in Tasks, LosesConnection(t) PROVE LifecycleInv'
  <2>1. CASE UNCHANGED at
    BY <1>14, <2>1 DEF LosesConnection, SignalsItself
  <2>2. CASE at' = [at EXCEPT ![t] = "losing"] /\ UNCHANGED signal
    BY <1>14, <2>2 DEF LosesConnection
  <2> QED
    BY <1>14, <2>1, <2>2 DEF LosesConnection, MoveTask
<1>15. ASSUME NEW t \in Tasks, HandlerReturns(t) PROVE LifecycleInv'
  <2>1. /\ at[t] = "handling" /\ t \notin aborted
        /\ closed' = closed \cup {t} /\ signal' = signal \ {t}
        /\ UNCHANGED <<mode, reuse, maps, addr, aborted, loop, calls, woken>>
    BY <1>15 DEF HandlerReturns, Step, MoveTask
  <2>2. CASE at' = [at EXCEPT ![t] = "leaving"]
    BY <2>1, <2>2
  <2>3. CASE at' = [at EXCEPT ![t] = "closing"]
    BY <2>1, <2>3
  <2> QED
    BY <1>15, <2>2, <2>3 DEF HandlerReturns, Step, MoveTask
<1>33. ASSUME NEW t \in Tasks, CleansUp(t) PROVE LifecycleInv'
  <2>1. /\ t \notin aborted /\ signal' \subseteq Tasks
        /\ UNCHANGED <<mode, reuse, maps, addr, closed, aborted, loop, calls, woken>>
    BY <1>33 DEF CleansUp, Step, SignalsItself
  <2>2. CASE at[t] = "losing" /\ at' = [at EXCEPT ![t] = "handling"]
    BY <2>1, <2>2
  <2>3. CASE at[t] = "closing" /\ at' = [at EXCEPT ![t] = "leaving"]
    BY <2>1, <2>3
  <2> QED
    BY <1>33, <2>2, <2>3 DEF CleansUp, Step, MoveTask
<1>34. ASSUME NEW t \in Tasks, Wedges(t) PROVE LifecycleInv'
  <2>1. /\ at[t] \in {"handling", "losing", "closing"} /\ t \notin aborted
        /\ at' = [at EXCEPT ![t] = "wedged"]
        /\ UNCHANGED <<mode, reuse, maps, addr, closed, signal, aborted, loop, calls, woken>>
    BY <1>34 DEF Wedges, MayWedge, Step, MoveTask
  <2> QED
    BY <2>1
<1>16. ASSUME NEW t \in Tasks, Leaves(t) PROVE LifecycleInv'
  <2>1. TypeOK'
    <3> HIDE DEF ShutdownInv, EndingInv, HandlesKept, ListedIsOwn, EntriesAreLive,
        OwnAddress, ServerTasks, HandledIsListed, StuckKept
    <3>1. peers' \in [Addrs -> Tasks \cup {None}]
      BY <1>16 DEF Leaves, Unlist
    <3>2. /\ at' \in [Tasks -> Places] /\ addr' \in [Tasks -> Addrs \cup {None}]
          /\ \A u \in Tasks : addr'[u] = None <=> at'[u] = "done"
      <4>1. CASE IsServer
        BY <1>16, <4>1 DEF Leaves, End
      <4>2. CASE ~IsServer
        BY <1>16, <4>2 DEF Leaves
      <4> QED  BY <4>1, <4>2
    <3>3. /\ closed' \subseteq Tasks /\ signal' \subseteq Tasks /\ aborted' \subseteq Tasks
          /\ woken' \subseteq Loops \cup Tasks
      BY <1>16 DEF Leaves, End, ForgetWakeUp
    <3>4. UNCHANGED <<mode, reuse, peerTasks, loop, sd, drained>>
      BY <1>16 DEF Leaves
    <3> QED
      BY <3>1, <3>2, <3>3, <3>4
  <2>2. ShutdownInv'
    <3> HIDE DEF EndingInv, HandlesKept, ListedIsOwn, EntriesAreLive, OwnAddress,
        ServerTasks, HandledIsListed, StuckKept
    <3> QED
      BY <1>16 DEF Leaves, Unlist, End, ForgetWakeUp
  <2>3. EndingInv'
    BY <1>16 DEF Leaves, Unlist, End, ForgetWakeUp
  <2>4. HandlesKept'
    BY <1>16 DEF Leaves, Unlist, End, ForgetWakeUp
  <2>5. ListedIsOwn'
    BY <1>16 DEF Leaves, Unlist, End, ForgetWakeUp
  <2>6. EntriesAreLive'
    BY <1>16 DEF Leaves, Unlist, End, ForgetWakeUp
  <2>7. OwnAddress'
    BY <1>16 DEF Leaves, Unlist, End, ForgetWakeUp
  <2>8. ServerTasks'
    BY <1>16 DEF Leaves, Unlist, End, ForgetWakeUp
  <2>9. HandledIsListed'
    BY <1>16 DEF Leaves, Unlist, End, ForgetWakeUp
  <2>10. StuckKept'
    BY <1>16 DEF Leaves, Unlist, End, ForgetWakeUp
  <2> QED
    BY <2>1, <2>2, <2>3, <2>4, <2>5, <2>6, <2>7, <2>8, <2>9, <2>10
<1>17. ASSUME NEW t \in Tasks, Decides(t) PROVE LifecycleInv'
  BY <1>17, NeverAskedOfClosed DEF Decides, Step, MoveTask, ForgetWakeUp
<1>18. ASSUME NEW t \in Tasks, SeesShutdown(t) PROVE LifecycleInv'
  <2>1. /\ at' = [at EXCEPT ![t] = "ending"] /\ at[t] \in {"connecting", "retrying"}
        /\ t \in woken /\ t \notin aborted /\ woken' \subseteq woken
        /\ UNCHANGED <<mode, reuse, maps, addr, closed, signal, aborted, loop, calls>>
    BY <1>18 DEF SeesShutdown, Step, MoveTask, ForgetWakeUp
  <2>2. ~IsServer
    BY <2>1
  <2> QED
    BY <2>1, <2>2
<1>19. ASSUME NEW t \in Tasks, EndsItself(t) PROVE LifecycleInv'
  <2>1. TypeOK'
    <3> HIDE DEF ShutdownInv, EndingInv, HandlesKept, ListedIsOwn, EntriesAreLive,
        OwnAddress, ServerTasks, HandledIsListed, StuckKept
    <3> QED
      BY <1>19 DEF EndsItself, End, ForgetWakeUp
  <2>2. ShutdownInv'
    <3> HIDE DEF EndingInv, HandlesKept, ListedIsOwn, EntriesAreLive, OwnAddress,
        ServerTasks, HandledIsListed, StuckKept
    <3> QED
      BY <1>19 DEF EndsItself, End, ForgetWakeUp
  <2>3. EndingInv'
    BY <1>19 DEF EndsItself, End, ForgetWakeUp
  <2>4. HandlesKept'
    BY <1>19 DEF EndsItself, End, ForgetWakeUp
  <2>5. ListedIsOwn'
    BY <1>19 DEF EndsItself, End, ForgetWakeUp
  <2>6. EntriesAreLive'
    BY <1>19 DEF EndsItself, End, ForgetWakeUp
  <2>7. OwnAddress'
    BY <1>19 DEF EndsItself, End, ForgetWakeUp
  <2>8. ServerTasks'
    BY <1>19 DEF EndsItself, End, ForgetWakeUp
  <2>9. HandledIsListed'
    BY <1>19 DEF EndsItself, End, ForgetWakeUp
  <2>10. StuckKept'
    BY <1>19 DEF EndsItself, End, ForgetWakeUp
  <2> QED
    BY <2>1, <2>2, <2>3, <2>4, <2>5, <2>6, <2>7, <2>8, <2>9, <2>10
<1>20. ASSUME NEW t \in Tasks, Dies(t) PROVE LifecycleInv'
  <2>1. TypeOK'
    <3> HIDE DEF ShutdownInv, EndingInv, HandlesKept, ListedIsOwn, EntriesAreLive,
        OwnAddress, ServerTasks, HandledIsListed, StuckKept
    <3> QED
      BY <1>20 DEF Dies, End, ForgetWakeUp
  <2>2. ShutdownInv'
    <3> HIDE DEF EndingInv, HandlesKept, ListedIsOwn, EntriesAreLive, OwnAddress,
        ServerTasks, HandledIsListed, StuckKept
    <3> QED
      BY <1>20 DEF Dies, End, ForgetWakeUp
  <2>3. EndingInv'
    BY <1>20 DEF Dies, End, ForgetWakeUp
  <2>4. HandlesKept'
    BY <1>20 DEF Dies, End, ForgetWakeUp
  <2>5. ListedIsOwn'
    BY <1>20 DEF Dies, End, ForgetWakeUp
  <2>6. EntriesAreLive'
    BY <1>20 DEF Dies, End, ForgetWakeUp
  <2>7. OwnAddress'
    BY <1>20 DEF Dies, End, ForgetWakeUp
  <2>8. ServerTasks'
    BY <1>20 DEF Dies, End, ForgetWakeUp
  <2>9. HandledIsListed'
    BY <1>20 DEF Dies, End, ForgetWakeUp
  <2>10. StuckKept'
    BY <1>20 DEF Dies, End, ForgetWakeUp
  <2> QED
    BY <2>1, <2>2, <2>3, <2>4, <2>5, <2>6, <2>7, <2>8, <2>9, <2>10
<1>21. ASSUME NEW a \in Addrs, NEW t \in Tasks, AddPeer(a, t) PROVE LifecycleInv'
  BY <1>21 DEF AddPeer, ClientOnly, Known, Spawn, Free
<1>22. ASSUME NEW a \in Addrs, RemovePeer(a) PROVE LifecycleInv'
  BY <1>22 DEF RemovePeer, LockFree, Stuck, Known, Abort, LeaveListed, Signalled
<1>23. ASSUME Notify PROVE LifecycleInv'
  BY <1>23 DEF Notify, Advance, Waiters
<1>24. ASSUME TakeListener PROVE LifecycleInv'
  BY <1>24 DEF TakeListener, Advance
<1>25. ASSUME LoopAwaited("listener", "awaitListener", "awaitManager") PROVE LifecycleInv'
  BY <1>25 DEF LoopAwaited, Awaited, Advance
<1>26. ASSUME LoopAwaited("manager", "awaitManager", "drain") PROVE LifecycleInv'
  BY <1>26 DEF LoopAwaited, Awaited, Advance
<1>27. ASSUME Drain PROVE LifecycleInv'
  BY <1>27 DEF Drain, LockFree, Stuck, Advance, Handles, Abort
<1>28. ASSUME Join PROVE LifecycleInv'
  BY <1>28 DEF Join, Advance
<1>29. ASSUME SignalPeers PROVE LifecycleInv'
  BY <1>29 DEF SignalPeers, Advance, Signalled
<1>30. ASSUME PeersAwaited PROVE LifecycleInv'
  BY <1>30 DEF PeersAwaited, Advance
<1>31. ASSUME LoopAwaited("distributor", "awaitDistributor", "returned") PROVE LifecycleInv'
  BY <1>31 DEF LoopAwaited, Awaited, Advance
<1>32. CASE UNCHANGED vars
  <2>1. /\ mode' = mode /\ reuse' = reuse /\ peers' = peers /\ peerTasks' = peerTasks
        /\ at' = at /\ addr' = addr /\ closed' = closed /\ signal' = signal
        /\ aborted' = aborted /\ loop' = loop /\ woken' = woken /\ sd' = sd
        /\ drained' = drained
    BY <1>32 DEF vars
  <2> QED
    BY <2>1, SMTT(30)
<1> QED
  <2> HIDE NoneOK DEF LifecycleInv, TypeOK, IsServer, Places, LoopPlaces, ShutdownPlaces,
      Loops, ShutdownInv, AfterDrain, EndingInv, HandlesKept, ListedIsOwn, EntriesAreLive,
      OwnAddress, ServerTasks, HandledIsListed, StuckKept, Handling, maps, taskVars, calls
  <2>1. ASSUME ShutdownStep PROVE LifecycleInv'
    BY <2>1, <1>24, <1>25, <1>26, <1>27, <1>28, <1>29, <1>30, <1>31 DEF ShutdownStep
  <2>2. ASSUME NEW t \in Tasks, TaskProgress(t) \/ World(t) PROVE LifecycleInv'
    BY <2>2, <1>9, <1>10, <1>11, <1>12, <1>13, <1>14, <1>15, <1>16, <1>17, <1>18, <1>19,
       <1>20, <1>33, <1>34 DEF TaskProgress, World
  <2> QED
    BY <1>1, <1>2, <1>3, <1>4, <1>5, <1>6, <1>7, <1>8, <1>21, <1>22, <1>23, <1>32, <2>1, <2>2
       DEF Next, LoopProgress

-----------------------------------------------------------------------------
(* The conjunction is an invariant.                                        *)
LEMMA LifecycleInvHolds == Spec => []LifecycleInv
<1>1. Init => LifecycleInv
  <2> SUFFICES ASSUME Init PROVE LifecycleInv
    OBVIOUS
  <2>1. TypeOK
    BY NoneOK DEF Init, TypeOK, Places, LoopPlaces, ShutdownPlaces, Loops, IsServer
  <2>2. ShutdownInv /\ EndingInv
    BY DEF Init, ShutdownInv, EndingInv, AfterDrain, Loops
  <2>3. HandlesKept /\ ListedIsOwn /\ OwnAddress
    BY DEF Init, HandlesKept, ListedIsOwn, OwnAddress
  <2>4. EntriesAreLive /\ ServerTasks /\ HandledIsListed /\ StuckKept
    BY DEF Init, EntriesAreLive, ServerTasks, HandledIsListed, StuckKept, Handling
  <2> QED
    BY <2>1, <2>2, <2>3, <2>4 DEF LifecycleInv
<1> QED
  BY <1>1, InvKept, PTL DEF Spec

(* Every variable has its type; a task has an address while it runs.       *)
THEOREM LifecycleTypeCorrect == Spec => []TypeOK
  BY LifecycleInvHolds, PTL DEF LifecycleInv

(* add_peer never starts a second task for an address of which one runs    *)
(* that remove_peer and shutdown() have not told to stop.                  *)
THEOREM OneTask == Spec => []OneTaskPerAddress
<1>1. LifecycleInv => OneTaskPerAddress
  BY DEF LifecycleInv, HandlesKept, OneTaskPerAddress
<1> QED
  BY <1>1, LifecycleInvHolds, PTL

(* A listed Peer is handled by its task, or by none: the task was aborted. *)
THEOREM EntriesLive == Spec => []EntriesAreLive
  BY LifecycleInvHolds, PTL DEF LifecycleInv

(* A connection that a server handles is listed, if no address is reused.  *)
THEOREM HandledListed == Spec => []HandledIsListed
  BY LifecycleInvHolds, PTL DEF LifecycleInv

(* When shutdown() returns, the loops have ended, and a client's tasks have *)
(* ended or will where they wait next.                                     *)
THEOREM ShutdownLeavesNothing == Spec => []NothingLeftRunning
<1>1. LifecycleInv => NothingLeftRunning
  BY DEF LifecycleInv, ShutdownInv, AfterDrain, NothingLeftRunning, Loops
<1> QED
  BY <1>1, LifecycleInvHolds, PTL

(* The condition under which manage_single_outgoing_connection gives up    *)
(* (metalbond.rs:714) is never met.                                        *)
THEOREM NeverGivesUp == Spec => AlwaysRetries
<1>1. LifecycleInv /\ [Next]_vars =>
        \A t \in Tasks \ aborted : at[t] = "deciding" => at'[t] # "ending"
  <2> SUFFICES ASSUME LifecycleInv, [Next]_vars,
                      NEW t \in Tasks \ aborted, at[t] = "deciding", at'[t] = "ending"
               PROVE  FALSE
    OBVIOUS
  <2>1. at \in [Tasks -> Places]
    BY DEF LifecycleInv, TypeOK
  <2>2. ~Decides(t)
    BY <2>1, NeverAskedOfClosed DEF Decides, Step, MoveTask
  <2>3. \A l \in Loops : ~LoopProgress(l) /\ ~Works(l)
    BY DEF LoopProgress, LoopStarts, LoopEnds, Works, taskVars
  <2>4. ~ManagerTicks /\ ~AcceptFails /\ ~PauseEnds /\ ~Distributes
    BY DEF ManagerTicks, AcceptFails, PauseEnds, Distributes, taskVars
  <2>5. \A u \in Tasks : ~TaskProgress(u)
    BY <2>1, <2>2 DEF TaskProgress, Starts, Enters, HandlerReturns, CleansUp, Leaves,
       Decides, SeesShutdown, EndsItself, Dies, End, Step, MoveTask
  <2>6. \A u \in Tasks : ~World(u)
    BY <2>1 DEF World, Connects, FailsToConnect, Retries, LosesConnection,
       Wedges, Step, MoveTask
  <2>7. \A u \in Tasks, a \in Addrs : ~SpawnIncoming(u, a) /\ ~AddPeer(a, u)
    BY <2>1 DEF SpawnIncoming, AddPeer, Spawn
  <2>8. (\A a \in Addrs : ~RemovePeer(a)) /\ ~Notify
    BY DEF RemovePeer, Notify, taskVars
  <2>9. ~ShutdownStep
    BY DEF ShutdownStep, TakeListener, LoopAwaited, Drain, Join, SignalPeers,
        PeersAwaited, taskVars
  <2> QED
    BY <2>3, <2>4, <2>5, <2>6, <2>7, <2>8, <2>9 DEF Next, vars, taskVars
<1> QED
  BY <1>1, LifecycleInvHolds, PTL DEF Spec, AlwaysRetries

-----------------------------------------------------------------------------
(* A loop that missed the wake-up of shutdown() has missed it for good:     *)
(* notify_waiters is called once, and nothing else ends the loops.          *)
LEMMA MissedStep ==
  ASSUME TypeOK, sd # "running", [Next]_vars, NEW l \in Loops, Missed(l)
  PROVE  Missed(l)' /\ sd' # "running"
<1> USE DEF Missed, vars, taskVars, maps, calls, ForgetWakeUp
<1>1. loop \in [Loops -> LoopPlaces]
  BY DEF TypeOK
<1>2. ASSUME NEW k \in Loops, LoopProgress(k) \/ Works(k) PROVE Missed(l)' /\ sd' # "running"
  BY <1>1, <1>2 DEF LoopProgress, LoopStarts, LoopEnds, Works, MoveLoop
<1>3. CASE ManagerTicks \/ AcceptFails \/ PauseEnds \/ Distributes
  BY <1>1, <1>3 DEF ManagerTicks, AcceptFails, PauseEnds, Distributes, MoveLoop
<1>4. ASSUME NEW t \in Tasks, TaskProgress(t) \/ World(t) PROVE Missed(l)' /\ sd' # "running"
  <2>1. loop' = loop /\ sd' = sd /\ woken' \subseteq woken
    BY <1>4 DEF TaskProgress, World, Starts, Enters, HandlerReturns, CleansUp, Leaves,
                Decides, SeesShutdown, EndsItself, Dies, Connects, FailsToConnect, Retries,
                LosesConnection, Wedges, Step, End
  <2> QED
    BY <2>1
<1>5. ASSUME NEW t \in Tasks, NEW a \in Addrs, SpawnIncoming(t, a) \/ AddPeer(a, t)
      PROVE  Missed(l)' /\ sd' # "running"
  BY <1>1, <1>5 DEF SpawnIncoming, AddPeer, MoveLoop
<1>6. ASSUME NEW a \in Addrs, RemovePeer(a) PROVE Missed(l)' /\ sd' # "running"
  BY <1>6 DEF RemovePeer
<1>7. CASE Notify \/ ShutdownStep
  BY <1>7 DEF Notify, ShutdownStep, TakeListener, LoopAwaited, Drain, Join, SignalPeers,
              PeersAwaited, Advance
<1>8. CASE UNCHANGED vars
  BY <1>8
<1> QED
  BY <1>2, <1>3, <1>4, <1>5, <1>6, <1>7, <1>8 DEF Next

(* So shutdown() never returns then, whatever the tasks and the network do: *)
(* it awaits each loop.  This is one of the two things ShutdownEnds excepts.*)
THEOREM MissedForGood ==
  Spec => [][sd # "running" /\ (\E l \in Loops : Missed(l))
                => (\E l \in Loops : Missed(l))' /\ sd' \notin {"running", "returned"}]_vars
<1>1. LifecycleInv /\ NothingLeftRunning' /\ [Next]_vars =>
        (sd # "running" /\ (\E l \in Loops : Missed(l))
            => (\E l \in Loops : Missed(l))' /\ sd' \notin {"running", "returned"})
  <2> SUFFICES ASSUME LifecycleInv, NothingLeftRunning', [Next]_vars, sd # "running",
                      NEW l \in Loops, Missed(l)
               PROVE  (\E k \in Loops : Missed(k))' /\ sd' \notin {"running", "returned"}
    OBVIOUS
  <2>1. Missed(l)' /\ sd' # "running"
    BY MissedStep DEF LifecycleInv
  <2>2. sd' # "returned"
    BY <2>1 DEF NothingLeftRunning, Missed
  <2> QED
    BY <2>1, <2>2
<1> QED
  BY <1>1, LifecycleInvHolds, ShutdownLeavesNothing, PTL DEF Spec

(* A task that is stuck with the lock stays stuck: to abort it, remove_peer *)
(* and shutdown() would first need the lock.                                *)
LEMMA StuckStep ==
  ASSUME LifecycleInv, [Next]_vars, NEW t \in Tasks, at[t] = "wedged"
  PROVE  at'[t] = "wedged"
<1> USE DEF vars, taskVars, maps, calls
<1>1. at \in [Tasks -> Places] /\ t \notin aborted
  BY DEF LifecycleInv, TypeOK, StuckKept
<1>2. ASSUME NEW u \in Tasks, TaskProgress(u) PROVE at'[t] = "wedged"
  BY <1>1, <1>2 DEF TaskProgress, Starts, Enters, HandlerReturns, CleansUp, Leaves, Decides,
                    SeesShutdown, EndsItself, Dies, Step, MoveTask, End
<1>3. ASSUME NEW u \in Tasks, World(u) PROVE at'[t] = "wedged"
  BY <1>1, <1>3 DEF World, Connects, FailsToConnect, Retries, LosesConnection, Wedges,
                    Step, MoveTask
<1>4. ASSUME NEW u \in Tasks, NEW a \in Addrs, SpawnIncoming(u, a) \/ AddPeer(a, u)
      PROVE  at'[t] = "wedged"
  BY <1>1, <1>4 DEF SpawnIncoming, AddPeer, Spawn, Free
<1>5. ASSUME NEW l \in Loops, LoopProgress(l) \/ Works(l) PROVE at' = at
  BY <1>5 DEF LoopProgress, LoopStarts, LoopEnds, Works
<1>6. CASE ManagerTicks \/ AcceptFails \/ PauseEnds \/ Distributes
  BY <1>6 DEF ManagerTicks, AcceptFails, PauseEnds, Distributes
<1>7. ASSUME NEW a \in Addrs, RemovePeer(a) PROVE at' = at
  BY <1>7 DEF RemovePeer
<1>8. CASE Notify \/ ShutdownStep
  BY <1>8 DEF Notify, ShutdownStep, TakeListener, LoopAwaited, Drain, Join, SignalPeers,
              PeersAwaited
<1> QED
  BY <1>2, <1>3, <1>4, <1>5, <1>6, <1>7, <1>8 DEF Next

(* A task that waits for ever with the lock does so whatever else happens,  *)
(* and shutdown() does not come past its last use of the lock then: neither *)
(* its signals nor its deadline of five seconds (metalbond.rs:496-506) help.*)
(* This is the other thing that ShutdownEnds excepts.                       *)
PastLock == {"awaitDistributor", "returned"}

THEOREM StuckForGood ==
  Spec => [][Stuck => Stuck' /\ (sd \notin PastLock => sd' \notin PastLock)]_vars
<1>1. LifecycleInv /\ [Next]_vars =>
        (Stuck => Stuck' /\ (sd \notin PastLock => sd' \notin PastLock))
  <2> SUFFICES ASSUME LifecycleInv, [Next]_vars, NEW t \in Tasks, at[t] = "wedged"
               PROVE  Stuck' /\ (sd \notin PastLock => sd' \notin PastLock)
    BY DEF Stuck
  <2>1. Stuck'
    BY StuckStep DEF Stuck
  <2>2. ~PeersAwaited /\ ~LockFree
    BY DEF PeersAwaited, LockFree, Stuck
  <2>3. ASSUME Notify \/ ShutdownStep, sd \notin PastLock PROVE sd' \notin PastLock
    BY <2>2, <2>3 DEF Notify, ShutdownStep, TakeListener, LoopAwaited, Drain, Join,
                      SignalPeers, Advance, PastLock
  <2>4. Notify \/ ShutdownStep \/ sd' = sd
    <3>1. \A u \in Tasks : TaskProgress(u) \/ World(u) => sd' = sd
      BY DEF TaskProgress, World, Starts, Enters, HandlerReturns, CleansUp, Leaves,
             Decides, SeesShutdown, EndsItself, Dies, Connects, FailsToConnect, Retries,
             LosesConnection, Wedges, Step, calls
    <3>2. \A l \in Loops : LoopProgress(l) \/ Works(l) => sd' = sd
      BY DEF LoopProgress, LoopStarts, LoopEnds, Works, calls
    <3>3. \A u \in Tasks, a \in Addrs : SpawnIncoming(u, a) \/ AddPeer(a, u) => sd' = sd
      BY DEF SpawnIncoming, AddPeer, calls
    <3>4. ManagerTicks \/ AcceptFails \/ PauseEnds \/ Distributes => sd' = sd
      BY DEF ManagerTicks, AcceptFails, PauseEnds, Distributes, calls
    <3>5. \A a \in Addrs : RemovePeer(a) => sd' = sd
      BY DEF RemovePeer, calls
    <3>6. UNCHANGED vars => sd' = sd
      BY DEF vars, calls
    <3> QED
      BY <3>1, <3>2, <3>3, <3>4, <3>5, <3>6 DEF Next
  <2> QED
    BY <2>1, <2>3, <2>4
<1> QED
  BY <1>1, LifecycleInvHolds, PTL DEF Spec
=============================================================================
