---------------------------- MODULE UpdateProofs ----------------------------
(* What the updates on their way add up to, for any number of peers, routes *)
(* and VNIs and however many tasks change the table: NoPhantomRoute and     *)
(* StaysInstalled for the OS, NatNeverReflected and NoLostRoute for the     *)
(* peers.                                                                   *)
EXTENDS MetalBondProofs

(* One more update at the end of a sequence decides about its route.       *)
LEMMA OutcomeAppend ==
  ASSUME NEW s \in Seq(Updates), NEW u \in Updates, NEW before
  PROVE  Outcome(Append(s, u), before) =
            IF u.action = "Add" THEN Outcome(s, before) \cup {u.route}
                                ELSE Outcome(s, before) \ {u.route}
<1> DEFINE t == Append(s, u)
           n == Len(s)
<1>1. n \in Nat /\ Len(t) = n + 1 /\ t[n + 1] = u /\ \A i \in 1..n : t[i] = s[i]
  OBVIOUS
<1>2. u.route \in Routes /\ u.action \in {"Add", "Remove"}
  BY DEF Updates
<1>3. \A i \in 1..(n + 1) : i \in 1..n \/ i = n + 1
  BY <1>1
<1> HIDE DEF t, n
<1>4. ASSUME NEW r \in Routes, r # u.route
      PROVE  r \in Outcome(t, before) <=> r \in Outcome(s, before)
  <2>1. (\A i \in 1..Len(t) : t[i].route # r) <=> (\A i \in 1..n : s[i].route # r)
    BY <1>1, <1>3, <1>4
  <2>2. ASSUME NEW i \in 1..n
        PROVE  (\A j \in (i + 1)..Len(t) : t[j].route # r)
               <=> (\A j \in (i + 1)..n : s[j].route # r)
    BY <1>1, <1>3, <1>4
  <2>3. (\E i \in 1..Len(t) : /\ t[i].route = r /\ t[i].action = "Add"
                             /\ \A j \in (i + 1)..Len(t) : t[j].route # r)
        <=> (\E i \in 1..n : /\ s[i].route = r /\ s[i].action = "Add"
                             /\ \A j \in (i + 1)..n : s[j].route # r)
    BY <1>1, <1>3, <1>4, <2>2
  <2> QED
    BY <2>1, <2>3 DEF Outcome, n
<1>5. u.route \in Outcome(t, before) <=> u.action = "Add"
  <2>1. ~ \A i \in 1..Len(t) : t[i].route # u.route
    BY <1>1
  <2>2. ASSUME u.action = "Add"
        PROVE  \E i \in 1..Len(t) : /\ t[i].route = u.route /\ t[i].action = "Add"
                                    /\ \A j \in (i + 1)..Len(t) : t[j].route # u.route
    <3>1. n + 1 \in 1..Len(t) /\ \A j \in (n + 1 + 1)..Len(t) : t[j].route # u.route
      BY <1>1
    <3> QED
      BY <1>1, <2>2, <3>1
  <2>3. ASSUME NEW i \in 1..Len(t), t[i].route = u.route, t[i].action = "Add",
               \A j \in (i + 1)..Len(t) : t[j].route # u.route
        PROVE  u.action = "Add"
    BY <1>1, <1>3, <2>3
  <2> QED
    BY <1>2, <2>1, <2>2, <2>3 DEF Outcome
<1>6. Outcome(t, before) \subseteq Routes /\ Outcome(s, before) \subseteq Routes
  BY DEF Outcome
<1> QED
  BY <1>2, <1>4, <1>5, <1>6 DEF t

(* The oldest update of a sequence can be applied ahead of the others.      *)
LEMMA OutcomeCons ==
  ASSUME NEW s \in Seq(Updates), NEW u \in Updates, NEW before \in SUBSET Routes
  PROVE  Outcome(<<u>> \o s, before) = Outcome(s, ApplyTo(before, u))
<1> DEFINE t == <<u>> \o s
           n == Len(s)
<1>1. n \in Nat /\ Len(t) = n + 1 /\ t[1] = u /\ \A i \in 1..n : t[i + 1] = s[i]
  OBVIOUS
<1>2. u.route \in Routes /\ u.action \in {"Add", "Remove"}
  BY DEF Updates
<1>3. \A i \in 1..(n + 1) : i = 1 \/ (i - 1 \in 1..n /\ i = (i - 1) + 1)
  BY <1>1
<1> HIDE DEF t, n
<1>4. ASSUME NEW r \in Routes
      PROVE  r \in Outcome(t, before) <=> r \in Outcome(s, ApplyTo(before, u))
  <2> DEFINE Last(q, i) == /\ q[i].route = r /\ q[i].action = "Add"
                           /\ \A j \in (i + 1)..Len(q) : q[j].route # r
             None(q) == \A i \in 1..Len(q) : q[i].route # r
  <2>1. None(t) <=> u.route # r /\ None(s)
    <3>1. ASSUME None(t) PROVE u.route # r /\ None(s)
      <4>1. ASSUME NEW i \in 1..Len(s) PROVE s[i].route # r
        <5>1. i + 1 \in 1..Len(t) /\ t[i + 1] = s[i]
          BY <1>1, <4>1 DEF n
        <5> QED
          BY <3>1, <5>1
      <4>2. 1 \in 1..Len(t)
        BY <1>1
      <4> QED
        BY <1>1, <3>1, <4>1, <4>2
    <3>2. ASSUME u.route # r, None(s), NEW i \in 1..Len(t) PROVE t[i].route # r
      <4>1. CASE i = 1
        BY <1>1, <3>2, <4>1
      <4>2. CASE i # 1
        <5>1. i - 1 \in 1..Len(s) /\ i = (i - 1) + 1
          BY <1>1, <1>3, <3>2, <4>2 DEF n
        <5>2. t[(i - 1) + 1] = s[i - 1]
          BY <1>1, <5>1 DEF n
        <5> QED
          BY <3>2, <5>1, <5>2
      <4> QED
        BY <4>1, <4>2
    <3> QED
      BY <3>1, <3>2
  <2>2. ASSUME NEW i \in 1..n PROVE Last(t, i + 1) <=> Last(s, i)
    <3>1. \A j \in (i + 1)..n : j + 1 \in (i + 1 + 1)..(n + 1) /\ j \in 1..n
      BY <1>1
    <3>2. \A j \in (i + 1 + 1)..(n + 1) : j - 1 \in (i + 1)..n /\ j - 1 \in 1..n /\ j = (j - 1) + 1
      BY <1>1
    <3>3. (\A j \in (i + 1 + 1)..(n + 1) : t[j].route # r)
          <=> (\A j \in (i + 1)..n : s[j].route # r)
      <4>1. ASSUME \A j \in (i + 1 + 1)..(n + 1) : t[j].route # r, NEW j \in (i + 1)..n
            PROVE  s[j].route # r
        BY <1>1, <3>1, <4>1, t[j + 1].route # r
      <4>2. ASSUME \A j \in (i + 1)..n : s[j].route # r, NEW j \in (i + 1 + 1)..(n + 1)
            PROVE  t[j].route # r
        BY <1>1, <3>2, <4>2, t[(j - 1) + 1] = s[j - 1]
      <4> QED
        BY <4>1, <4>2
    <3> QED
      BY <1>1, <3>3 DEF n
  <2>3. Last(t, 1) <=> u.route = r /\ u.action = "Add" /\ None(s)
    <3>1. (\A j \in (1 + 1)..(n + 1) : t[j].route # r) <=> (\A j \in 1..n : s[j].route # r)
      <4>1. \A j \in 1..n : j + 1 \in (1 + 1)..(n + 1)
        BY <1>1
      <4>2. \A j \in (1 + 1)..(n + 1) : j - 1 \in 1..n /\ j = (j - 1) + 1
        BY <1>1
      <4>3. ASSUME \A j \in (1 + 1)..(n + 1) : t[j].route # r, NEW j \in 1..n
            PROVE  s[j].route # r
        BY <1>1, <4>1, <4>3, t[j + 1].route # r
      <4>4. ASSUME \A j \in 1..n : s[j].route # r, NEW j \in (1 + 1)..(n + 1)
            PROVE  t[j].route # r
        BY <1>1, <4>2, <4>4, t[(j - 1) + 1] = s[j - 1]
      <4> QED
        BY <4>3, <4>4
    <3> QED
      BY <1>1, <3>1 DEF n
  <2> HIDE DEF Last, None
  <2>4. (\E i \in 1..Len(t) : Last(t, i)) <=> Last(t, 1) \/ \E i \in 1..n : Last(s, i)
    <3>1. 1 \in 1..Len(t) /\ \A i \in 1..n : i + 1 \in 1..Len(t)
      BY <1>1
    <3>2. ASSUME NEW i \in 1..Len(t), Last(t, i)
          PROVE  Last(t, 1) \/ \E j \in 1..n : Last(s, j)
      <4>1. CASE i = 1
        BY <3>2, <4>1
      <4>2. CASE i # 1
        <5>1. i - 1 \in 1..n /\ i = (i - 1) + 1
          BY <1>1, <1>3, <4>2
        <5> QED
          BY <2>2, <3>2, <5>1
      <4> QED
        BY <4>1, <4>2
    <3>3. ASSUME NEW i \in 1..n, Last(s, i) PROVE \E j \in 1..Len(t) : Last(t, j)
      BY <2>2, <3>1, <3>3
    <3> QED
      BY <3>1, <3>2, <3>3
  <2>5. r \in Outcome(t, before) <=> (\E i \in 1..Len(t) : Last(t, i)) \/ (r \in before /\ None(t))
    BY DEF Outcome, Last, None
  <2>6. r \in Outcome(s, ApplyTo(before, u))
        <=> (\E i \in 1..n : Last(s, i)) \/ (r \in ApplyTo(before, u) /\ None(s))
    BY DEF Outcome, Last, None, n
  <2>7. r \in ApplyTo(before, u) <=> \/ u.action = "Add" /\ r = u.route
                                     \/ r \in before /\ (r # u.route \/ u.action = "Add")
    BY DEF ApplyTo
  <2> QED
    BY <1>2, <2>1, <2>3, <2>4, <2>5, <2>6, <2>7
<1> QED
  BY <1>4 DEF Outcome, t
-----------------------------------------------------------------------------
(* The part of TypeOK that the proof below needs.                           *)
PhantomTypeOK ==
    /\ table \in [Routes -> SUBSET Peers] /\ mine \subseteq LocalRoutes
    /\ at \in [Peers -> Places] /\ todo \in [Peers -> SUBSET (Vnis \cup Routes)]
    /\ \A p \in Peers : at[p] \in RoutePlaces => todo[p] \subseteq Routes
    /\ queue \in Seq(Updates) /\ inhand \in Updates \cup {NoUpdate}
    /\ os \subseteq Routes

(* It follows from type correctness.                                        *)
LEMMA PhantomTypes == Spec => []PhantomTypeOK
<1>1. TypeOK => PhantomTypeOK
  BY DEF TypeOK, StateTypeOK, TaskTypeOK, DistTypeOK, PhantomTypeOK
<1> QED
  BY <1>1, TypeCorrect, PTL

(* What NoPhantomRoute demands of a route that is or will be installed.     *)
AccountedFor(r) ==
    \/ table[r] # {} \/ r \in mine
    \/ \E p \in Peers : at[p] = "cleanup" /\ r \in todo[p]

(* A step that touches neither the table nor the updates on their way, and  *)
(* no cleanup: most of the handlers' steps.                                 *)
Quiet ==
    /\ UNCHANGED <<table, mine, queue, inhand, os>>
    /\ \A p \in Peers : at[p] = "cleanup" => at'[p] = "cleanup" /\ todo'[p] = todo[p]

(* Such a step cannot make a phantom.                                       *)
LEMMA QuietKeeps ==
  ASSUME NoPhantomRoute, Quiet PROVE NoPhantomRoute'
<1>1. Outcome(InFlight, os)' = Outcome(InFlight, os)
  BY DEF Quiet, InFlight, Outcome
<1>2. \A r \in Routes : AccountedFor(r) => AccountedFor(r)'
  BY DEF Quiet, AccountedFor
<1> QED
  BY <1>1, <1>2 DEF NoPhantomRoute, AccountedFor, Outcome

(* What is on its way is a sequence of updates, and one more sent goes to   *)
(* its end.                                                                 *)
LEMMA EnqueuedLast ==
  ASSUME PhantomTypeOK, NEW u \in Updates
  PROVE  /\ InFlight \in Seq(Updates)
         /\ queue' = Append(queue, u) /\ inhand' = inhand => InFlight' = Append(InFlight, u)
<1>1. CASE inhand = NoUpdate
  BY <1>1 DEF PhantomTypeOK, InFlight
<1>2. CASE inhand # NoUpdate
  <2>1. <<inhand>> \in Seq(Updates) /\ inhand \in Updates
    BY <1>2 DEF PhantomTypeOK
  <2>2. Append(<<inhand>> \o queue, u) = <<inhand>> \o Append(queue, u)
    BY <2>1 DEF PhantomTypeOK
  <2>3. queue \in Seq(Updates) /\ InFlight = <<inhand>> \o queue
    BY <1>2 DEF PhantomTypeOK, InFlight
  <2>4. queue' = Append(queue, u) /\ inhand' = inhand => InFlight' = <<inhand>> \o Append(queue, u)
    BY <1>2 DEF InFlight
  <2>5. InFlight \in Seq(Updates)
    BY <2>1, <2>3
  <2> QED
    BY <2>2, <2>3, <2>4, <2>5, Zenon
<1> QED
  BY <1>1, <1>2

(* Taking an update off the channel leaves it on its way.                   *)
LEMMA ReceiveMoves ==
  ASSUME queue \in Seq(Updates), Receive PROVE InFlight' = InFlight
<1>1. Head(queue) \in Updates /\ queue = <<Head(queue)>> \o Tail(queue)
  BY DEF Receive
<1> QED
  BY <1>1, NoUpdateIsNone DEF Receive, InFlight

(* An Add of a route that is accounted for afterwards, or a Remove, makes   *)
(* no phantom, if the other routes stay accounted for.                      *)
LEMMA SendKeeps ==
  ASSUME PhantomTypeOK, NoPhantomRoute,
         NEW u \in Updates, queue' = Append(queue, u), inhand' = inhand, os' = os,
         u.action = "Add" => AccountedFor(u.route)',
         \A r \in Routes \ {u.route} : AccountedFor(r) => AccountedFor(r)'
  PROVE  NoPhantomRoute'
<1>1. Outcome(InFlight, os)' = Outcome(Append(InFlight, u), os)
  BY EnqueuedLast DEF Outcome
<1>2. Outcome(Append(InFlight, u), os) =
         IF u.action = "Add" THEN Outcome(InFlight, os) \cup {u.route}
                             ELSE Outcome(InFlight, os) \ {u.route}
  BY EnqueuedLast, OutcomeAppend
<1>3. u.route \in Routes
  BY DEF Updates
<1>4. \A r \in Outcome(InFlight, os) : r \in Routes /\ AccountedFor(r)
  BY DEF NoPhantomRoute, AccountedFor, Outcome
<1>5. \A r \in Outcome(InFlight, os)' : AccountedFor(r)'
  <2>1. CASE u.action = "Add"
    BY <1>1, <1>2, <1>4, <2>1
  <2>2. CASE u.action # "Add"
    BY <1>1, <1>2, <1>4, <2>2
  <2> QED
    BY <2>1, <2>2
<1> QED
  BY <1>5 DEF NoPhantomRoute, AccountedFor

(* The steps of remove_next_hop and what follows it, in any handler.        *)
LEMMA RemoveNextHopKeeps ==
  ASSUME PhantomTypeOK, NoPhantomRoute,
         NEW p \in Peers, NEW r \in Routes, RemoveNextHop(p, r), UNCHANGED <<mine, inhand, os>>,
         \A q \in Peers : at[q] = "cleanup" => at'[q] = "cleanup" /\ todo'[q] = todo[q]
  PROVE  NoPhantomRoute'
<1>1. \A x \in Routes \ {r} : AccountedFor(x) => AccountedFor(x)'
  BY DEF RemoveNextHop, PhantomTypeOK, AccountedFor
<1>2. CASE table[r] = {p}
  <2>1. Update("Remove", r, p) \in Updates
    BY DEF Update, Updates, Sources
  <2>2. /\ Update("Remove", r, p).action = "Remove"
        /\ Update("Remove", r, p).route = r
    BY DEF Update
  <2> QED
    BY <1>1, <1>2, <2>1, <2>2, SendKeeps DEF RemoveNextHop, Enqueue
<1>3. CASE table[r] # {p}
  <2>1. AccountedFor(r) => AccountedFor(r)'
    BY <1>3 DEF RemoveNextHop, PhantomTypeOK, AccountedFor
  <2>2. Outcome(InFlight, os)' = Outcome(InFlight, os)
    BY <1>3 DEF RemoveNextHop, InFlight, Outcome
  <2> QED
    BY <1>1, <2>1, <2>2 DEF NoPhantomRoute, AccountedFor, Outcome
<1> QED
  BY <1>2, <1>3

(* The table, the sends under the guard and the cleanup keep each other in  *)
(* step: a change of a route in the table and the update that tells of it   *)
(* are one step, so that the channel has the updates in the order of the    *)
(* changes; the cleanup, which changes first and sends later, still has the *)
(* route in hand.                                                           *)
THEOREM NoPhantoms == Spec => []NoPhantomRoute
<1>1. Init => NoPhantomRoute
  BY DEF Init, NoPhantomRoute, InFlight, Outcome
<1>2. PhantomTypeOK /\ NoPhantomRoute /\ [Next]_vars => NoPhantomRoute'
  <2> SUFFICES ASSUME PhantomTypeOK, NoPhantomRoute, [Next]_vars PROVE NoPhantomRoute'
    OBVIOUS
  <2> USE DEF PhantomTypeOK, stateVars, peerVars, taskVars, distVars, apiVars, histVars
  <2>1. ASSUME NEW p \in Peers, Connect(p) PROVE NoPhantomRoute'
    BY <2>1, QuietKeeps DEF Connect, Quiet
  <2>2. ASSUME NEW p \in Peers, SendHello(p) PROVE NoPhantomRoute'
    BY <2>2, QuietKeeps DEF SendHello, SetClosed, AfterClosed, Quiet
  <2>3. ASSUME NEW p \in Peers, ProcessHello(p) PROVE NoPhantomRoute'
    BY <2>3, QuietKeeps DEF ProcessHello, InSelect, Fail, SetClosed, AfterClosed, Quiet
  <2>4. ASSUME NEW p \in Peers, ProcessKeepalive(p) PROVE NoPhantomRoute'
    BY <2>4, QuietKeeps DEF ProcessKeepalive, InSelect, Goto, Fail, SetClosed,
       AfterClosed, Quiet
  <2>5. ASSUME NEW p \in Peers, ReadSubscriptions(p) PROVE NoPhantomRoute'
    BY <2>5, QuietKeeps DEF ReadSubscriptions, Goto, Quiet
  <2>6. ASSUME NEW p \in Peers, SendSubscribe(p) PROVE NoPhantomRoute'
    BY <2>6, QuietKeeps DEF SendSubscribe, Goto, Quiet
  <2>7. ASSUME NEW p \in Peers, ReadAnnouncements(p) PROVE NoPhantomRoute'
    BY <2>7, QuietKeeps DEF ReadAnnouncements, Goto, Quiet
  <2>8. ASSUME NEW p \in Peers, SendAnnouncement(p) PROVE NoPhantomRoute'
    BY <2>8, QuietKeeps DEF SendAnnouncement, Goto, Quiet
  <2>9. ASSUME NEW p \in Peers, FinishEstablish(p) PROVE NoPhantomRoute'
    BY <2>9, QuietKeeps DEF FinishEstablish, Goto, Quiet
  <2>10. ASSUME NEW p \in Peers, ProcessSubscribe(p) PROVE NoPhantomRoute'
    BY <2>10, QuietKeeps DEF ProcessSubscribe, InSelect, Goto, Quiet
  <2>11. ASSUME NEW p \in Peers, Snapshot(p) PROVE NoPhantomRoute'
    BY <2>11, QuietKeeps DEF Snapshot, Goto, Quiet
  <2>12. ASSUME NEW p \in Peers, Replay(p) PROVE NoPhantomRoute'
    BY <2>12, QuietKeeps DEF Replay, Goto, Fail, SetClosed, AfterClosed, Quiet
  <2>13. ASSUME NEW p \in Peers, ProcessUnsubscribe(p) PROVE NoPhantomRoute'
    BY <2>13, QuietKeeps DEF ProcessUnsubscribe, InSelect, Goto, Quiet
  <2>14. ASSUME NEW p \in Peers, UnsubscribeSnapshot(p) PROVE NoPhantomRoute'
    BY <2>14, QuietKeeps DEF UnsubscribeSnapshot, Goto, Quiet
  <2>15. ASSUME NEW p \in Peers, WithdrawLearned(p) PROVE NoPhantomRoute'
    <3>1. PICK r \in todo[p] : RemoveNextHop(p, r) /\ Goto(p, "withdrawing", todo[p] \ {r})
      BY <2>15 DEF WithdrawLearned
    <3>2. r \in Routes
      BY <2>15, <3>1 DEF WithdrawLearned, RoutePlaces
    <3>3. \A q \in Peers : at[q] = "cleanup" => at'[q] = "cleanup" /\ todo'[q] = todo[q]
      BY <2>15, <3>1 DEF WithdrawLearned, Goto
    <3> QED
      BY <2>15, <3>1, <3>2, <3>3, RemoveNextHopKeeps DEF WithdrawLearned
  <2>16. ASSUME NEW p \in Peers, FinishLoop(p) PROVE NoPhantomRoute'
    BY <2>16, QuietKeeps DEF FinishLoop, Goto, Quiet
  <2>17. ASSUME NEW p \in Peers, ProcessUpdate(p) PROVE NoPhantomRoute'
    BY <2>17, QuietKeeps DEF ProcessUpdate, InSelect, Goto, Quiet
  <2>18. ASSUME NEW p \in Peers, ApplyUpdate(p) PROVE NoPhantomRoute'
    <3>1. \A q \in Peers : at[q] = "cleanup" => at'[q] = "cleanup" /\ todo'[q] = todo[q]
      BY <2>18 DEF ApplyUpdate, Goto
    <3>2. PICK r \in todo[p] : \/ at[p] = "adding" /\ AddNextHop(p, r)
                               \/ at[p] = "removing" /\ RemoveNextHop(p, r)
      BY <2>18 DEF ApplyUpdate
    <3>3. r \in Routes
      BY <3>2 DEF RoutePlaces
    <3>4. CASE RemoveNextHop(p, r)
      BY <2>18, <3>1, <3>3, <3>4, RemoveNextHopKeeps DEF ApplyUpdate
    <3>5. CASE AddNextHop(p, r)
      <4>1. \A x \in Routes : AccountedFor(x) => AccountedFor(x)'
        BY <2>18, <3>1, <3>5 DEF ApplyUpdate, AddNextHop, AccountedFor
      <4>2. AccountedFor(r)'
        BY <3>3, <3>5 DEF AddNextHop, AccountedFor
      <4>3. CASE p \in table[r]
        <5>1. Outcome(InFlight, os)' = Outcome(InFlight, os)
          BY <2>18, <3>5, <4>3 DEF ApplyUpdate, AddNextHop, InFlight, Outcome
        <5> QED
          BY <4>1, <5>1 DEF NoPhantomRoute, AccountedFor, Outcome
      <4>4. CASE p \notin table[r]
        <5>1. Update("Add", r, p) \in Updates /\ Update("Add", r, p).route = r
          BY <3>3 DEF Update, Updates, Sources
        <5>2. queue' = Append(queue, Update("Add", r, p)) /\ inhand' = inhand /\ os' = os
          BY <2>18, <3>5, <4>4 DEF ApplyUpdate, AddNextHop, Enqueue
        <5> HIDE DEF PhantomTypeOK
        <5> QED
          BY <4>1, <4>2, <5>1, <5>2, SendKeeps
      <4> QED
        BY <4>3, <4>4
    <3> QED
      BY <3>2, <3>4, <3>5
  <2>19. ASSUME NEW p \in Peers, FrameError(p) PROVE NoPhantomRoute'
    BY <2>19, QuietKeeps DEF FrameError, InSelect, Fail, SetClosed, AfterClosed, Quiet
  <2>20. ASSUME NEW p \in Peers, Transmit(p) PROVE NoPhantomRoute'
    BY <2>20, QuietKeeps DEF Transmit, InSelect, Fail, SetClosed, AfterClosed, Quiet
  <2>21. ASSUME NEW p \in Peers, KeepaliveTick(p) PROVE NoPhantomRoute'
    BY <2>21, QuietKeeps DEF KeepaliveTick, InSelect, Quiet
  <2>22. ASSUME NEW p \in Peers, KeepaliveTimeout(p) PROVE NoPhantomRoute'
    BY <2>22, QuietKeeps DEF KeepaliveTimeout, InSelect, Fail, SetClosed, AfterClosed,
       Quiet
  <2>23. ASSUME NEW p \in Peers, Shutdown(p) PROVE NoPhantomRoute'
    BY <2>23, QuietKeeps DEF Shutdown, InSelect, SetClosed, AfterClosed, Quiet
  <2>24. ASSUME NEW p \in Peers, BeginCleanup(p) PROVE NoPhantomRoute'
    <3>1. Outcome(InFlight, os)' = Outcome(InFlight, os)
      BY <2>24 DEF BeginCleanup, InFlight, Outcome
    <3>2. \A r \in Routes : AccountedFor(r) => AccountedFor(r)'
      <4>1. \A q \in Peers : at[q] = "cleanup" => at'[q] = "cleanup" /\ todo'[q] = todo[q]
        BY <2>24 DEF BeginCleanup, Goto
      <4>2. at'[p] = "cleanup" /\ todo'[p] = LearnedFrom(p)
        BY <2>24 DEF BeginCleanup, Goto
      <4> QED
        BY <2>24, <4>1, <4>2 DEF BeginCleanup, LearnedFrom, AccountedFor
    <3> QED
      BY <3>1, <3>2 DEF NoPhantomRoute, AccountedFor, Outcome
  <2>25. ASSUME NEW p \in Peers, CleanupSend(p) PROVE NoPhantomRoute'
    <3>1. PICK r \in todo[p] : /\ Enqueue("Remove", r, p)
                               /\ Goto(p, "cleanup", todo[p] \ {r})
      BY <2>25 DEF CleanupSend
    <3>2. r \in Routes
      BY <2>25 DEF CleanupSend, RoutePlaces
    <3>3. /\ Update("Remove", r, p) \in Updates
          /\ Update("Remove", r, p).action = "Remove"
          /\ Update("Remove", r, p).route = r
      BY <3>2 DEF Update, Updates, Sources
    <3>4. \A x \in Routes \ {r} : AccountedFor(x) => AccountedFor(x)'
      BY <2>25, <3>1 DEF CleanupSend, Goto, AccountedFor
    <3>5. queue' = Append(queue, Update("Remove", r, p)) /\ inhand' = inhand /\ os' = os
      BY <2>25, <3>1 DEF CleanupSend, Enqueue
    <3> HIDE DEF PhantomTypeOK
    <3> QED
      BY <3>3, <3>4, <3>5, SendKeeps
  <2>26. ASSUME NEW p \in Peers, CleanupEnd(p) PROVE NoPhantomRoute'
    <3>1. Outcome(InFlight, os)' = Outcome(InFlight, os)
      BY <2>26 DEF CleanupEnd, InFlight, Outcome
    <3>2. \A r \in Routes : AccountedFor(r) => AccountedFor(r)'
      BY <2>26 DEF CleanupEnd, AccountedFor
    <3> QED
      BY <3>1, <3>2 DEF NoPhantomRoute, AccountedFor, Outcome
  <2>27. ASSUME NEW p \in Peers, Leave(p) PROVE NoPhantomRoute'
    BY <2>27, QuietKeeps DEF Leave, Quiet
  <2>28. ASSUME Receive PROVE NoPhantomRoute'
    <3>1. InFlight' = InFlight
      BY <2>28, ReceiveMoves
    <3>2. Outcome(InFlight, os)' = Outcome(InFlight, os)
      BY <2>28, <3>1 DEF Receive, Outcome
    <3> QED
      BY <2>28, <3>2 DEF Receive, NoPhantomRoute
  <2>29. ASSUME Distribute PROVE NoPhantomRoute'
    <3>1. inhand \in Updates /\ InFlight = <<inhand>> \o queue /\ InFlight' = queue
      BY <2>29 DEF Distribute, InFlight
    <3>2. Outcome(InFlight, os) = Outcome(queue, ApplyTo(os, inhand))
      BY <3>1, OutcomeCons
    <3>3. os' \subseteq ApplyTo(os, inhand)
      BY <2>29 DEF Distribute, ApplyTo
    <3>4. Outcome(InFlight, os)' = Outcome(queue, os')
      BY <3>1 DEF Outcome
    <3>5. Outcome(queue, os') \subseteq Outcome(queue, ApplyTo(os, inhand))
      BY <3>3 DEF Outcome
    <3>6. Outcome(InFlight, os)' \subseteq Outcome(InFlight, os)
      BY <3>2, <3>4, <3>5
    <3> QED
      BY <2>29, <3>6 DEF Distribute, NoPhantomRoute
  <2>30. ASSUME NEW v \in LocalVnis, Subscribe(v) PROVE NoPhantomRoute'
    BY <2>30, QuietKeeps DEF Subscribe, Quiet
  <2>31. ASSUME NEW v \in LocalVnis, Unsubscribe(v) PROVE NoPhantomRoute'
    BY <2>31, QuietKeeps DEF Unsubscribe, Quiet
  <2>32. ASSUME NEW q \in Peers, NotifyPeer(q) PROVE NoPhantomRoute'
    BY <2>32, QuietKeeps DEF NotifyPeer, Quiet
  <2>33. ASSUME ClearRoutes PROVE NoPhantomRoute'
    <3>1. Outcome(InFlight, os)' \subseteq Outcome(InFlight, os)
      BY <2>33 DEF ClearRoutes, InFlight, Outcome
    <3> QED
      BY <2>33, <3>1 DEF ClearRoutes, NoPhantomRoute
  <2>34. ASSUME NEW r \in LocalRoutes, AnnounceRoute(r) PROVE NoPhantomRoute'
    <3>1. /\ Update("Add", r, Local) \in Updates
          /\ Update("Add", r, Local).action = "Add"
          /\ Update("Add", r, Local).route = r
      BY ConstantsOK DEF Update, Updates, Sources
    <3>2. \A x \in Routes \ {r} : AccountedFor(x) => AccountedFor(x)'
      BY <2>34 DEF AnnounceRoute, AccountedFor
    <3>3. queue' = Append(queue, Update("Add", r, Local)) /\ inhand' = inhand /\ os' = os
      BY <2>34 DEF AnnounceRoute, Enqueue
    <3>4. AccountedFor(r)'
      BY <2>34 DEF AnnounceRoute, AccountedFor
    <3> HIDE DEF PhantomTypeOK
    <3> QED
      BY <3>1, <3>2, <3>3, <3>4, SendKeeps
  <2>35. ASSUME NEW r \in LocalRoutes, WithdrawRoute(r) PROVE NoPhantomRoute'
    <3>1. /\ Update("Remove", r, Local) \in Updates
          /\ Update("Remove", r, Local).action = "Remove"
          /\ Update("Remove", r, Local).route = r
      BY ConstantsOK DEF Update, Updates, Sources
    <3>2. \A x \in Routes \ {r} : AccountedFor(x) => AccountedFor(x)'
      BY <2>35 DEF WithdrawRoute, AccountedFor
    <3>3. queue' = Append(queue, Update("Remove", r, Local)) /\ inhand' = inhand /\ os' = os
      BY <2>35 DEF WithdrawRoute, Enqueue
    <3> HIDE DEF PhantomTypeOK
    <3> QED
      BY <3>1, <3>2, <3>3, SendKeeps
  <2>36. CASE UNCHANGED vars
    BY <2>36, QuietKeeps DEF vars, Quiet
  <2> QED
    BY <2>1, <2>2, <2>3, <2>4, <2>5, <2>6, <2>7, <2>8, <2>9, <2>10, <2>11, <2>12, <2>13,
       <2>14, <2>15, <2>16, <2>17, <2>18, <2>19, <2>20, <2>21, <2>22, <2>23, <2>24,
       <2>25, <2>26, <2>27, <2>28, <2>29, <2>30, <2>31, <2>32, <2>33, <2>34, <2>35,
       <2>36 DEF Next, PeerNext, PeerInput, HandlerStep, DistributorNext, ApiNext,
       ApiStep
<1> QED
  BY <1>1, <1>2, PhantomTypes, PTL DEF Spec
-----------------------------------------------------------------------------
(* The places where todo holds what a peer was or will be told, or may make *)
(* of the table: what the proofs below follow.                              *)
Watched == RoutePlaces \cup {"snapshot"}

(* A peer's record of a server is right: process_hello writes it, once and  *)
(* for all while the connection lasts.                                      *)
ServersKnown == \A q \in Peers : isRemoteServer[q] => q \in Servers

(* A step that is about none of it: the table, the updates on their way and *)
(* the subscribers stay, no handler enters or leaves a watched place with   *)
(* work left in it, and a peer that stays connected is told nothing.        *)
Aside ==
    /\ UNCHANGED <<table, queue, inhand, subscribers>>
    /\ UNCHANGED os \/ ClearRoutes
    /\ \A q \in Peers :
          /\ at'[q] \in Watched \/ (at[q] \in Watched /\ todo[q] # {})
                => at'[q] = at[q] /\ todo'[q] = todo[q]
          /\ at'[q] = "none" => at[q] = "none" \/ Reconnects
          /\ view'[q] \subseteq view[q]
          /\ q \in peers' => /\ q \in peers /\ view'[q] = view[q]
                             /\ q \in dropped => q \in dropped'
                             /\ isRemoteServer[q] => isRemoteServer'[q]
          /\ isRemoteServer'[q] => isRemoteServer[q] \/ q \in Servers

(* The steps of a peer's task that are about routes or subscribers.         *)
RouteStep(p) ==
    \/ Connect(p)
    \/ ReadAnnouncements(p) \/ SendAnnouncement(p)
    \/ ProcessSubscribe(p) \/ Snapshot(p) \/ Replay(p)
    \/ ProcessUnsubscribe(p) \/ UnsubscribeSnapshot(p) \/ WithdrawLearned(p)
    \/ ProcessUpdate(p) \/ ApplyUpdate(p)
    \/ BeginCleanup(p) \/ CleanupSend(p)

(* Every step is one of those, of the distributor, an announcement or a     *)
(* withdrawal of the application, or aside.                                 *)
LEMMA RouteSteps ==
  ASSUME TypeOK, ServersKnown, [Next]_vars
  PROVE  \/ Aside \/ Receive \/ Distribute
         \/ \E p \in Peers : RouteStep(p)
         \/ \E r \in LocalRoutes : AnnounceRoute(r) \/ WithdrawRoute(r)
<1> USE DEF TypeOK, StateTypeOK, PeerTypeOK, TaskTypeOK, HistTypeOK, stateVars, peerVars,
            taskVars, distVars, apiVars, histVars, Aside, Watched, RoutePlaces
<1>1. ASSUME NEW p \in Peers, SendHello(p) PROVE Aside
  BY <1>1 DEF SendHello, SetClosed, AfterClosed
<1>2. ASSUME NEW p \in Peers, ProcessHello(p) PROVE Aside
  BY <1>2 DEF ProcessHello, InSelect, Fail, SetClosed, AfterClosed, ServersKnown
<1>3. ASSUME NEW p \in Peers, ProcessKeepalive(p) PROVE Aside
  BY <1>3 DEF ProcessKeepalive, InSelect, Goto, Fail, SetClosed, AfterClosed
<1>4. ASSUME NEW p \in Peers, ReadSubscriptions(p) PROVE Aside
  BY <1>4 DEF ReadSubscriptions, Goto
<1>5. ASSUME NEW p \in Peers, SendSubscribe(p) PROVE Aside
  BY <1>5 DEF SendSubscribe, Goto
<1>6. ASSUME NEW p \in Peers, FinishEstablish(p) PROVE Aside
  BY <1>6 DEF FinishEstablish, Goto
<1>7. ASSUME NEW p \in Peers, FinishLoop(p) PROVE Aside
  BY <1>7 DEF FinishLoop, Goto
<1>8. ASSUME NEW p \in Peers, FrameError(p) PROVE Aside
  BY <1>8 DEF FrameError, InSelect, Fail, SetClosed, AfterClosed
<1>9. ASSUME NEW p \in Peers, Transmit(p) PROVE Aside
  BY <1>9 DEF Transmit, InSelect, Fail, SetClosed, AfterClosed
<1>10. ASSUME NEW p \in Peers, KeepaliveTick(p) PROVE Aside
  BY <1>10 DEF KeepaliveTick
<1>11. ASSUME NEW p \in Peers, KeepaliveTimeout(p) PROVE Aside
  BY <1>11 DEF KeepaliveTimeout, InSelect, Fail, SetClosed, AfterClosed
<1>12. ASSUME NEW p \in Peers, Shutdown(p) PROVE Aside
  BY <1>12 DEF Shutdown, InSelect, SetClosed, AfterClosed
<1>13. ASSUME NEW p \in Peers, CleanupEnd(p) PROVE Aside
  BY <1>13 DEF CleanupEnd, AfterCleanup
<1>14. ASSUME NEW p \in Peers, Leave(p) PROVE Aside
  BY <1>14 DEF Leave
<1>15. ASSUME NEW v \in LocalVnis, Subscribe(v) \/ Unsubscribe(v) PROVE Aside
  BY <1>15 DEF Subscribe, Unsubscribe
<1>16. ASSUME NEW p \in Peers, NotifyPeer(p) PROVE Aside
  BY <1>16 DEF NotifyPeer
<1>17. ASSUME ClearRoutes PROVE Aside
  BY <1>17 DEF ClearRoutes
<1>18. CASE UNCHANGED vars
  BY <1>18 DEF vars
<1> HIDE DEF TypeOK, Aside
<1> QED
  BY <1>1, <1>2, <1>3, <1>4, <1>5, <1>6, <1>7, <1>8, <1>9, <1>10, <1>11, <1>12, <1>13,
     <1>14, <1>15, <1>16, <1>17, <1>18
     DEF Next, PeerNext, PeerInput, HandlerStep, RouteStep, DistributorNext, ApiNext, ApiStep

(* Who may have caused an update: a peer that may announce its route, or    *)
(* the application.                                                         *)
FromSource(u) == \/ u.source = Local /\ u.route \in LocalRoutes
                 \/ u.source \in Peers /\ u.route \in Announces[u.source]

(* Nothing comes from nowhere: the table, the updates on their way and what *)
(* the handlers still go through name the peers that announce the routes;   *)
(* and a peer whose cleanup has begun has no route in the table any more.   *)
Sourced ==
    /\ \A r \in Routes, q \in Peers : q \in table[r] => r \in Announces[q]
    /\ \A q \in Peers : at[q] \in {"adding", "removing", "withdrawing", "cleanup"}
                           => todo[q] \subseteq Announces[q]
    /\ \A q \in Peers : at[q] = "announcing" => todo[q] \subseteq LocalRoutes
    /\ \A i \in 1..Len(queue) : FromSource(queue[i])
    /\ inhand # NoUpdate => FromSource(inhand)
    /\ \A r \in Routes, q \in Peers : at[q] = "cleanup" => q \notin table[r]
    /\ ServersKnown

(* An update that has a source may join those on their way.                 *)
LEMMA EnqueueSourced ==
  ASSUME TypeOK, NEW action \in {"Add", "Remove"}, NEW r \in Routes, NEW source \in Sources,
         Enqueue(action, r, source), FromSource(Update(action, r, source)),
         \A i \in 1..Len(queue) : FromSource(queue[i])
  PROVE  \A i \in 1..Len(queue') : FromSource(queue'[i])
<1>1. Update(action, r, source) \in Updates
  BY DEF Update, Updates
<1> DEFINE u == Update(action, r, source)
<1> HIDE DEF u
<1>2. queue \in Seq(Updates) /\ queue' = Append(queue, u) /\ u \in Updates /\ FromSource(u)
  BY <1>1 DEF TypeOK, DistTypeOK, Enqueue, u
<1>3. \A i \in 1..Len(queue') : (i \in 1..Len(queue) /\ queue'[i] = queue[i]) \/ queue'[i] = u
  BY <1>2
<1> QED
  BY <1>2, <1>3

(* The steps that change the table keep sources.                            *)
LEMMA ChangeSourced ==
  ASSUME TypeOK, Sourced, NEW p \in Peers, NEW r \in Routes, r \in Announces[p],
         \/ at[p] # "cleanup" /\ AddNextHop(p, r)
         \/ RemoveNextHop(p, r)
  PROVE  /\ \A x \in Routes, q \in Peers : q \in table'[x] => x \in Announces[q]
         /\ \A x \in Routes, q \in Peers : at[q] = "cleanup" => q \notin table'[x]
         /\ \A i \in 1..Len(queue') : FromSource(queue'[i])
<1>1. /\ \A x \in Routes, q \in Peers : q \in table'[x] => q \in table[x] \/ (x = r /\ q = p)
      /\ \A x \in Routes : p \in table'[x] => p \in table[x] \/ at[p] # "cleanup"
  BY DEF AddNextHop, RemoveNextHop, TypeOK, StateTypeOK
<1>2. \A action \in {"Add", "Remove"} : FromSource(Update(action, r, p))
  BY DEF FromSource, Update
<1>3. \A i \in 1..Len(queue') : FromSource(queue'[i])
  BY <1>2, EnqueueSourced DEF AddNextHop, RemoveNextHop, Sourced, Sources
<1> QED
  BY <1>1, <1>3 DEF Sourced

LEMMA SourcedKept ==
  ASSUME TypeOK, Sourced, [Next]_vars PROVE Sourced'
<1> USE DEF TypeOK, StateTypeOK, TaskTypeOK, DistTypeOK, stateVars, peerVars, taskVars,
            distVars, apiVars, histVars, ServersKnown
<1>1. CASE Aside
  BY <1>1 DEF Aside, Watched, RoutePlaces, Sourced
<1>2. ASSUME NEW p \in Peers, RouteStep(p) PROVE Sourced'
  <2>1. CASE Connect(p)
    BY <2>1 DEF Connect, Sourced
  <2>2. CASE ReadAnnouncements(p) \/ SendAnnouncement(p)
    BY <2>2 DEF ReadAnnouncements, SendAnnouncement, Goto, Sourced
  <2>3. CASE ProcessSubscribe(p) \/ ProcessUnsubscribe(p)
    BY <2>3 DEF ProcessSubscribe, ProcessUnsubscribe, InSelect, Goto, Sourced
  <2>4. CASE Snapshot(p) \/ Replay(p)
    <3>1. CASE Snapshot(p)
      BY <3>1 DEF Snapshot, Goto, Sourced
    <3>2. CASE Replay(p)
      BY <3>2 DEF Replay, Goto, Fail, SetClosed, AfterClosed, Sourced
    <3> QED
      BY <2>4, <3>1, <3>2
  <2>5. CASE UnsubscribeSnapshot(p)
    BY <2>5 DEF UnsubscribeSnapshot, LearnedFrom, Goto, Sourced
  <2>6. CASE WithdrawLearned(p)
    <3>1. PICK r \in todo[p] : RemoveNextHop(p, r) /\ Goto(p, "withdrawing", todo[p] \ {r})
      BY <2>6 DEF WithdrawLearned
    <3>2. r \in Routes /\ r \in Announces[p]
      BY <2>6, <3>1 DEF WithdrawLearned, RoutePlaces, Sourced
    <3>3. /\ \A x \in Routes, q \in Peers : q \in table'[x] => x \in Announces[q]
          /\ \A x \in Routes, q \in Peers : at[q] = "cleanup" => q \notin table'[x]
          /\ \A i \in 1..Len(queue') : FromSource(queue'[i])
      BY <3>1, <3>2, ChangeSourced
    <3> QED
      BY <2>6, <3>1, <3>3 DEF WithdrawLearned, Goto, Sourced
  <2>7. CASE ProcessUpdate(p)
    BY <2>7, ConstantsOK DEF ProcessUpdate, InSelect, Offers, Goto, Sourced
  <2>8. CASE ApplyUpdate(p)
    <3>1. PICK r \in todo[p] : \/ at[p] = "adding" /\ AddNextHop(p, r)
                               \/ at[p] = "removing" /\ RemoveNextHop(p, r)
      BY <2>8 DEF ApplyUpdate
    <3>2. r \in Routes /\ r \in Announces[p]
      BY <3>1 DEF RoutePlaces, Sourced
    <3>3. /\ \A x \in Routes, q \in Peers : q \in table'[x] => x \in Announces[q]
          /\ \A x \in Routes, q \in Peers : at[q] = "cleanup" => q \notin table'[x]
          /\ \A i \in 1..Len(queue') : FromSource(queue'[i])
      BY <3>1, <3>2, ChangeSourced
    <3> QED
      BY <2>8, <3>1, <3>3 DEF ApplyUpdate, Goto, Sourced
  <2>9. CASE BeginCleanup(p)
    BY <2>9 DEF BeginCleanup, LearnedFrom, Goto, Sourced
  <2>10. CASE CleanupSend(p)
    <3>1. PICK r \in todo[p] : Enqueue("Remove", r, p) /\ Goto(p, "cleanup", todo[p] \ {r})
      BY <2>10 DEF CleanupSend
    <3>2. r \in Routes /\ FromSource(Update("Remove", r, p))
      BY <2>10, <3>1 DEF CleanupSend, RoutePlaces, Sourced, FromSource, Update
    <3>3. \A i \in 1..Len(queue') : FromSource(queue'[i])
      BY <3>1, <3>2, EnqueueSourced DEF Sourced, Sources
    <3> QED
      BY <2>10, <3>1, <3>3 DEF CleanupSend, Goto, Sourced
  <2> QED
    BY <1>2, <2>1, <2>2, <2>3, <2>4, <2>5, <2>6, <2>7, <2>8, <2>9, <2>10 DEF RouteStep
<1>3. CASE Receive
  <2>1. /\ \A i \in 1..Len(Tail(queue)) : i + 1 \in 1..Len(queue) /\ Tail(queue)[i] = queue[i + 1]
        /\ Head(queue) = queue[1] /\ 1 \in 1..Len(queue)
    BY <1>3 DEF Receive
  <2>2. FromSource(inhand') /\ \A i \in 1..Len(queue') : FromSource(queue'[i])
    BY <1>3, <2>1 DEF Receive, Sourced
  <2> QED
    BY <1>3, <2>2 DEF Receive, Sourced
<1>4. CASE Distribute
  BY <1>4 DEF Distribute, Sourced
<1>5. ASSUME NEW r \in LocalRoutes, AnnounceRoute(r) \/ WithdrawRoute(r) PROVE Sourced'
  <2>1. r \in Routes /\ \A action \in {"Add", "Remove"} : FromSource(Update(action, r, Local))
    BY ConstantsOK DEF FromSource, Update
  <2>2. \A i \in 1..Len(queue') : FromSource(queue'[i])
    BY <1>5, <2>1, EnqueueSourced DEF AnnounceRoute, WithdrawRoute, Sourced, Sources
  <2> QED
    BY <1>5, <2>2 DEF AnnounceRoute, WithdrawRoute, Sourced
<1> QED
  BY <1>1, <1>2, <1>3, <1>4, <1>5, RouteSteps DEF Sourced

LEMMA SourcesHold == Spec => []Sourced
<1>1. Init => Sourced
  BY DEF Init, Sourced, ServersKnown
<1>2. TypeOK /\ Sourced /\ [Next]_vars => Sourced'
  BY SourcedKept
<1> QED
  BY <1>1, <1>2, TypeCorrect, PTL DEF Spec

(* A replay has nothing left to send that the peer alone announces.         *)
NoReflectionAhead ==
    \A q \in Peers : at[q] = "replaying" =>
        \A r \in todo[q] \cap NatRoutes : Owners(r) # {q}

(* Both ways to a peer check where a route is from, the distributor by the  *)
(* source of the update, process_subscribe by the sources in the table; as  *)
(* both name announcers of the route only, what one of them passes is not   *)
(* the peer's own.                                                          *)
THEOREM NatStaysAway == Spec => []NatNeverReflected
<1> DEFINE NatInv == NatNeverReflected /\ NoReflectionAhead
<1>1. Init => NatInv
  BY DEF Init, NatNeverReflected, NoReflectionAhead
<1>2. TypeOK /\ Sourced /\ NatInv /\ [Next]_vars => NatInv'
  <2> SUFFICES ASSUME TypeOK, Sourced, NatInv, [Next]_vars PROVE NatInv'
    OBVIOUS
  <2> USE DEF TypeOK, StateTypeOK, TaskTypeOK, HistTypeOK, stateVars, peerVars, taskVars,
              distVars, apiVars, histVars, Owners, NatNeverReflected, NoReflectionAhead
  <2>1. CASE Aside
    BY <2>1 DEF Aside, Watched, RoutePlaces
  <2>2. ASSUME NEW p \in Peers, RouteStep(p) PROVE NatInv'
    <3>1. CASE Connect(p) \/ ReadAnnouncements(p)
      BY <3>1 DEF Connect, ReadAnnouncements, Goto
    <3>2. CASE SendAnnouncement(p)
      <4>1. todo[p] \subseteq LocalRoutes
        BY <3>2 DEF SendAnnouncement, Sourced
      <4> QED
        BY <3>2, <4>1 DEF SendAnnouncement, Goto
    <3>3. CASE ProcessSubscribe(p) \/ ProcessUnsubscribe(p)
      BY <3>3 DEF ProcessSubscribe, ProcessUnsubscribe, InSelect, Goto
    <3>4. CASE Snapshot(p)
      <4>1. PICK v \in todo[p] : Goto(p, "replaying", Replayed(p, v))
        BY <3>4 DEF Snapshot
      <4>2. \A r \in Replayed(p, v) \cap NatRoutes : Owners(r) # {p}
        BY DEF Replayed, Sourced
      <4> QED
        BY <3>4, <4>1, <4>2 DEF Snapshot, Goto
    <3>5. CASE Replay(p)
      BY <3>5 DEF Replay, Goto, Fail, SetClosed, AfterClosed
    <3>6. CASE UnsubscribeSnapshot(p) \/ WithdrawLearned(p)
      BY <3>6 DEF UnsubscribeSnapshot, WithdrawLearned, Goto
    <3>7. CASE ProcessUpdate(p) \/ ApplyUpdate(p)
      BY <3>7 DEF ProcessUpdate, ApplyUpdate, Goto
    <3>8. CASE BeginCleanup(p) \/ CleanupSend(p)
      BY <3>8 DEF BeginCleanup, CleanupSend, Goto
    <3> QED
      BY <2>2, <3>1, <3>2, <3>3, <3>4, <3>5, <3>6, <3>7, <3>8 DEF RouteStep
  <2>3. CASE Receive
    BY <2>3 DEF Receive
  <2>4. CASE Distribute
    <3>1. ASSUME NEW p \in Peers, NEW r \in NatRoutes \ LocalRoutes, Owners(r) = {p},
                 r \in view'[p]
          PROVE  FALSE
      <4>1. r \notin view[p]
        BY <3>1
      <4>2. p \in Targets(inhand) /\ inhand.route = r
        BY <2>4, <3>1, <4>1 DEF Distribute, ApplyTo
      <4>3. inhand.source \in Peers /\ r \in Announces[inhand.source]
        BY <2>4, <3>1, <4>2 DEF Distribute, Sourced, FromSource
      <4>4. inhand.source = p
        BY <3>1, <4>3
      <4> QED
        BY <3>1, <4>2, <4>4 DEF Targets
    <3> QED
      BY <2>4, <3>1 DEF Distribute
  <2>5. ASSUME NEW r \in LocalRoutes, AnnounceRoute(r) \/ WithdrawRoute(r) PROVE NatInv'
    BY <2>5 DEF AnnounceRoute, WithdrawRoute
  <2> QED
    BY <2>1, <2>2, <2>3, <2>4, <2>5, RouteSteps DEF Sourced
<1> QED
  BY <1>1, <1>2, TypeCorrect, SourcesHold, PTL DEF Spec
-----------------------------------------------------------------------------
(* A route that one peer announces is added last, as long as it is in the   *)
(* table: its announcer sends the updates in the order of its changes.      *)
LastIsAdd ==
    \A r \in Routes : Sole(r) /\ table[r] # {} => r \in Outcome(InFlight, Routes)

(* process_subscribe is about one VNI.                                      *)
OneVniAtATime ==
    \A q \in Peers : at[q] = "snapshot" => \A v, w \in todo[q] : v = w

(* An address that was not connected yet is not subscribed.                 *)
NewAreUnsubscribed ==
    ~Reconnects => \A q \in Peers, v \in Vnis : at[q] = "none" => q \notin subscribers[v]

(* Whether a route is in an outcome depends on whether it was in before,    *)
(* and on no other route.                                                   *)
LEMMA OutcomeOfRoute ==
  ASSUME NEW s \in Seq(Updates), NEW r \in Routes, NEW A, NEW B, r \in A => r \in B
  PROVE  r \in Outcome(s, A) => r \in Outcome(s, B)
BY DEF Outcome

(* The sequence of updates on their way, and what one more makes of it.     *)
LEMMA SentLast ==
  ASSUME TypeOK, NEW u \in Updates, queue' = Append(queue, u), inhand' = inhand,
         NEW r \in Routes, NEW before
  PROVE  r \in Outcome(InFlight', before) <=>
            IF r = u.route THEN u.action = "Add" ELSE r \in Outcome(InFlight, before)
<1>1. InFlight \in Seq(Updates) /\ InFlight' = Append(InFlight, u)
  BY EnqueuedLast DEF TypeOK, StateTypeOK, TaskTypeOK, DistTypeOK, PhantomTypeOK
<1> QED
  BY <1>1, OutcomeAppend

(* Routes that nobody but their announcer may change in the table.          *)
LEMMA SoleHolder ==
  ASSUME Sourced, TypeOK, NEW r \in Routes, Sole(r), NEW p \in Peers, r \in Announces[p]
  PROVE  table[r] \subseteq {p}
BY DEF Sourced, Sole, Owners, TypeOK, StateTypeOK

(* Whom nothing happens to but that the table or the queue change.          *)
Bystanders ==
    /\ UNCHANGED <<peers, subscribers, dropped, isRemoteServer, view, inhand>>
    /\ \A q \in Peers :
          at[q] \in {"snapshot", "replaying"} => at'[q] = at[q] /\ todo'[q] = todo[q]

(* A change of the table that nobody is told of, and one that is announced  *)
(* by an update: of the routes of one peer, the former only removes, and a  *)
(* Remove finds the route removed.                                          *)
Untold ==
    /\ queue' = queue
    /\ \A r \in Routes : table'[r] = table[r] \/ table'[r] = {} \/ ~Sole(r)
Told(u) ==
    /\ queue' = Append(queue, u)
    /\ \A r \in Routes \ {u.route} : table'[r] = table[r]
    /\ u.action = "Add" \/ table'[u.route] = {} \/ ~Sole(u.route)

LEMMA UntoldKeeps ==
  ASSUME TypeOK, LastIsAdd, NoLostRoute, Bystanders, Untold
  PROVE  LastIsAdd' /\ NoLostRoute'
<1>1. InFlight' = InFlight /\ \A r : Sole(r)' <=> Sole(r)
  BY DEF InFlight, Bystanders, Sole, Owners, Untold
<1>2. \A r, p : KeptFrom(r, p)' <=> KeptFrom(r, p)
  BY DEF KeptFrom, Owners
<1>3. \A p \in Peers, r \in Routes : Owed(r, p) => Owed(r, p)'
  BY DEF Bystanders, Owed
<1>4. LastIsAdd'
  BY <1>1 DEF LastIsAdd, Untold
<1>5. NoLostRoute'
  <2> SUFFICES ASSUME ~Reconnects, NEW p \in peers, NEW r \in Routes,
                      p \in subscribers[VniOf[r]], p \notin dropped, ~isRemoteServer[p],
                      table'[r] # {}, Sole(r), ~KeptFrom(r, p)
               PROVE  r \in Outcome(InFlight, view[p]) \/ Owed(r, p)'
    BY <1>1, <1>2 DEF NoLostRoute, Bystanders
  <2> QED
    BY <1>3 DEF NoLostRoute, TypeOK, StateTypeOK, Untold
<1> QED
  BY <1>4, <1>5

LEMMA ToldKeeps ==
  ASSUME TypeOK, LastIsAdd, NoLostRoute, Bystanders,
         NEW u \in Updates, Told(u)
  PROVE  LastIsAdd' /\ NoLostRoute'
<1>1. inhand' = inhand /\ peers \subseteq Peers /\ peers' = peers /\ view' = view
  BY DEF Bystanders, TypeOK, StateTypeOK
<1>2. ASSUME NEW r \in Routes, NEW before, Sole(r), table'[r] # {},
             r = u.route \/ r \in Outcome(InFlight, before)
      PROVE  r \in Outcome(InFlight', before)
  BY <1>1, <1>2, SentLast DEF Told
<1>3. \A r : Sole(r)' <=> Sole(r)
  BY DEF Sole, Owners
<1>4. \A r, p : KeptFrom(r, p)' <=> KeptFrom(r, p)
  BY DEF KeptFrom, Owners
<1>5. \A p \in Peers, r \in Routes : Owed(r, p) => Owed(r, p)'
  BY DEF Bystanders, Owed
<1>6. LastIsAdd'
  BY <1>2, <1>3 DEF LastIsAdd, Told
<1>7. NoLostRoute'
  <2> SUFFICES ASSUME ~Reconnects, NEW p \in peers, NEW r \in Routes,
                      p \in subscribers[VniOf[r]], p \notin dropped, ~isRemoteServer[p],
                      table'[r] # {}, Sole(r), ~KeptFrom(r, p)
               PROVE  r \in Outcome(InFlight', view[p]) \/ Owed(r, p)'
    BY <1>1, <1>3, <1>4 DEF NoLostRoute, Bystanders
  <2>1. r = u.route \/ r \in Outcome(InFlight, view[p]) \/ Owed(r, p)
    BY DEF NoLostRoute, Told
  <2> QED
    BY <1>1, <1>2, <1>5, <2>1
<1> QED
  BY <1>6, <1>7

(* The steps of add_next_hop and of remove_next_hop, with what they send.   *)
LEMMA ChangeIsTold ==
  ASSUME TypeOK, Sourced,
         NEW p \in Peers, NEW r \in Routes, r \in Announces[p],
         AddNextHop(p, r) \/ RemoveNextHop(p, r)
  PROVE  Untold \/ \E u \in Updates : Told(u)
<1>1. \A action \in {"Add", "Remove"} :
         /\ Update(action, r, p) \in Updates
         /\ Update(action, r, p).action = action /\ Update(action, r, p).route = r
  BY DEF Update, Updates, Sources
<1>2. table \in [Routes -> SUBSET Peers] /\ (Sole(r) => table[r] \subseteq {p})
  BY SoleHolder DEF TypeOK, StateTypeOK
<1>3. CASE queue' = queue
  <2>1. \A x \in Routes : table'[x] = table[x] \/ table'[x] = {} \/ ~Sole(x)
    <3>1. \A x \in Routes \ {r} : table'[x] = table[x]
      BY <1>2 DEF AddNextHop, RemoveNextHop
    <3>2. AddNextHop(p, r) => table'[r] = table[r]
      <4>1. queue \in Seq(Updates) /\ queue # Append(queue, Update("Add", r, p))
        BY <1>1 DEF TypeOK, DistTypeOK
      <4> QED
        BY <1>2, <1>3, <4>1 DEF AddNextHop, Enqueue
    <3>3. RemoveNextHop(p, r) /\ Sole(r) => table'[r] = {}
      BY <1>2 DEF RemoveNextHop
    <3> QED
      BY <3>1, <3>2, <3>3
  <2> QED
    BY <1>3, <2>1 DEF Untold
<1>4. CASE queue' # queue
  <2>1. CASE AddNextHop(p, r)
    <3>1. queue' = Append(queue, Update("Add", r, p))
      BY <1>4, <2>1 DEF AddNextHop, Enqueue
    <3>2. \A x \in Routes \ {r} : table'[x] = table[x]
      BY <1>2, <2>1 DEF AddNextHop
    <3> QED
      BY <1>1, <3>1, <3>2 DEF Told
  <2>2. CASE RemoveNextHop(p, r)
    <3>1. table[r] = {p} /\ queue' = Append(queue, Update("Remove", r, p))
      BY <1>4, <2>2 DEF RemoveNextHop, Enqueue
    <3>2. table'[r] = {} /\ \A x \in Routes \ {r} : table'[x] = table[x]
      BY <1>2, <2>2, <3>1 DEF RemoveNextHop
    <3> QED
      BY <1>1, <3>1, <3>2 DEF Told
  <2> QED
    BY <2>1, <2>2
<1> QED
  BY <1>3, <1>4

(* A cleanup or the application sends an update for a route that is not in  *)
(* the table any more, or that is not of one peer alone; BeginCleanup takes *)
(* the only announcer of a route out without a word.                        *)
LEMMA CleanupUntold ==
  ASSUME TypeOK, Sourced, NEW p \in Peers, BeginCleanup(p) PROVE Untold
<1>1. queue' = queue /\ \A r \in Routes : table'[r] = table[r] \ {p}
  BY DEF BeginCleanup, distVars
<1>2. ASSUME NEW r \in Routes, Sole(r) PROVE table'[r] = table[r] \/ table'[r] = {}
  <2>1. CASE p \in table[r]
    BY <1>1, <1>2, <2>1, SoleHolder DEF Sourced
  <2>2. CASE p \notin table[r]
    BY <1>1, <2>2 DEF TypeOK, StateTypeOK
  <2> QED
    BY <2>1, <2>2
<1> QED
  BY <1>1, <1>2 DEF Untold

LEMMA CleanupTold ==
  ASSUME TypeOK, Sourced, NEW p \in Peers, CleanupSend(p)
  PROVE  \E u \in Updates : Told(u)
<1> USE DEF TypeOK, StateTypeOK, TaskTypeOK
<1>1. PICK r \in todo[p] : Enqueue("Remove", r, p)
  BY DEF CleanupSend
<1>2. table' = table /\ at[p] = "cleanup"
  BY DEF CleanupSend, stateVars
<1>3. r \in Routes /\ r \in Announces[p] /\ p \notin table[r]
  BY <1>2 DEF RoutePlaces, Sourced
<1>4. Update("Remove", r, p) \in Updates /\ Update("Remove", r, p).route = r
  BY <1>3 DEF Update, Updates, Sources
<1>5. table'[r] = {} \/ ~Sole(r)
  BY <1>2, <1>3, SoleHolder
<1> QED
  BY <1>1, <1>2, <1>4, <1>5 DEF Enqueue, Told

LEMMA LocalTold ==
  ASSUME TypeOK, NEW r \in LocalRoutes, AnnounceRoute(r) \/ WithdrawRoute(r)
  PROVE  \E u \in Updates : Told(u)
<1>1. PICK action \in {"Add", "Remove"} : Enqueue(action, r, Local)
  BY DEF AnnounceRoute, WithdrawRoute
<1>2. Update(action, r, Local) \in Updates /\ Update(action, r, Local).route = r
  BY ConstantsOK DEF Update, Updates, Sources
<1>3. UNCHANGED table /\ ~Sole(r)
  BY DEF AnnounceRoute, WithdrawRoute, Sole
<1> QED
  BY <1>1, <1>2, <1>3 DEF Enqueue, Told

(* Distributing an update applies it to what a subscriber knows, or marks   *)
(* the subscriber; whom it is kept from has no claim to its route.          *)
LEMMA DistributeKeeps ==
  ASSUME TypeOK, Sourced, LastIsAdd, NoLostRoute, Distribute
  PROVE  LastIsAdd' /\ NoLostRoute'
<1> USE DEF TypeOK, StateTypeOK, PeerTypeOK, DistTypeOK, HistTypeOK, stateVars, taskVars
<1> DEFINE u == inhand
<1>1. u \in Updates /\ u.route \in Routes /\ InFlight = <<u>> \o queue /\ InFlight' = queue
  BY DEF Distribute, InFlight, Updates
<1>2. queue \in Seq(Updates) /\ UNCHANGED <<table, peers, subscribers, isRemoteServer>>
  BY DEF Distribute
<1>3. \A before \in SUBSET Routes : Outcome(InFlight, before) = Outcome(queue, ApplyTo(before, u))
  BY <1>1, <1>2, OutcomeCons
<1>4. LastIsAdd'
  <2>1. \A r \in Routes : r \in Outcome(InFlight, Routes) => r \in Outcome(InFlight', Routes)
    BY <1>1, <1>2, <1>3, OutcomeOfRoute
  <2> QED
    BY <1>2, <2>1 DEF LastIsAdd, Sole, Owners
<1>5. NoLostRoute'
  <2> SUFFICES ASSUME ~Reconnects, NEW p \in peers, NEW r \in Routes,
                      p \in subscribers[VniOf[r]], p \notin dropped', ~isRemoteServer[p],
                      table[r] # {}, Sole(r), ~KeptFrom(r, p), ~Owed(r, p)
               PROVE  r \in Outcome(InFlight', view'[p])
    BY <1>2 DEF NoLostRoute, Sole, KeptFrom, Owners, Owed, Distribute
  <2>1. r \in Outcome(InFlight, view[p]) /\ p \notin dropped
    BY DEF NoLostRoute, Distribute
  <2>2. r \in Outcome(queue, ApplyTo(view[p], u))
    BY <1>3, <2>1
  <2>3. CASE view'[p] = ApplyTo(view[p], u)
    BY <1>1, <2>2, <2>3
  <2>4. CASE view'[p] # ApplyTo(view[p], u)
    <3>1. p \notin Targets(u) /\ view'[p] = view[p]
      BY <2>4 DEF Distribute
    <3>2. u.route # r
      <4> SUFFICES ASSUME u.route = r PROVE FALSE
        OBVIOUS
      <4>1. u.source \in Peers /\ r \in Announces[u.source]
        BY DEF Sourced, FromSource, Sole, Distribute
      <4>2. p = u.source /\ r \in NatRoutes
        BY <3>1 DEF Targets
      <4> QED
        BY <4>1, <4>2 DEF KeptFrom, Owners
    <3>3. r \in ApplyTo(view[p], u) => r \in view[p]
      BY <3>2 DEF ApplyTo
    <3>4. r \in Outcome(queue, view[p])
      BY <1>2, <2>2, <3>3, OutcomeOfRoute
    <3> QED
      BY <1>1, <3>1, <3>4
  <2> QED
    BY <2>3, <2>4
<1> QED
  BY <1>4, <1>5

(* A step that leaves the table and the updates on their way alone, after   *)
(* which every subscriber has been told of a route, is still owed it, or    *)
(* was a subscriber to which it was not owed any more.                      *)
LEMMA TellKeeps ==
  ASSUME TypeOK, LastIsAdd, NoLostRoute,
         UNCHANGED <<table, queue, inhand, peers, isRemoteServer>>,
         dropped \subseteq dropped', \A q \in Peers : view[q] \subseteq view'[q],
         \A q \in peers, r \in Routes :
            /\ q \in subscribers'[VniOf[r]] /\ q \notin dropped'
            /\ table[r] # {} /\ Sole(r) /\ ~KeptFrom(r, q)
            => \/ Owed(r, q)' \/ r \in view'[q]
               \/ q \in subscribers[VniOf[r]] /\ ~Owed(r, q)
  PROVE  LastIsAdd' /\ NoLostRoute'
<1>1. InFlight' = InFlight /\ InFlight \in Seq(Updates)
  BY EnqueuedLast DEF InFlight, TypeOK, StateTypeOK, TaskTypeOK, DistTypeOK, PhantomTypeOK
<1>2. LastIsAdd'
  BY <1>1 DEF LastIsAdd, Sole, Owners
<1>3. NoLostRoute'
  <2> SUFFICES ASSUME ~Reconnects, NEW q \in peers, NEW r \in Routes,
                      q \in subscribers'[VniOf[r]], q \notin dropped', ~isRemoteServer[q],
                      table[r] # {}, Sole(r), ~KeptFrom(r, q), ~Owed(r, q)'
               PROVE  r \in Outcome(InFlight, view'[q])
    BY <1>1 DEF NoLostRoute, Sole, KeptFrom, Owners
  <2>1. CASE r \in view'[q]
    <3>1. r \in Outcome(InFlight, Routes)
      BY DEF LastIsAdd
    <3> QED
      BY <1>1, <2>1, <3>1, OutcomeOfRoute
  <2>2. CASE r \notin view'[q]
    <3>1. r \in Outcome(InFlight, view[q]) /\ view[q] \subseteq view'[q]
      BY <2>2 DEF NoLostRoute, TypeOK, StateTypeOK
    <3> QED
      BY <1>1, <3>1, OutcomeOfRoute
  <2> QED
    BY <2>1, <2>2
<1> QED
  BY <1>2, <1>3

(* The replay and the distribution between them tell every subscriber: what *)
(* was in the table at the snapshot is replayed, what came later was sent   *)
(* after the peer was registered; and when the replay of a route arrives,   *)
(* what is still on its way for this route ends with an Add.                *)
LostInv == LastIsAdd /\ OneVniAtATime /\ NewAreUnsubscribed /\ NoLostRoute

LEMMA LostInvHolds == Spec => []LostInv
<1>1. Init => LostInv
  BY DEF Init, LostInv, LastIsAdd, OneVniAtATime, NewAreUnsubscribed, NoLostRoute
<1>2. TypeOK /\ Sourced /\ LostInv /\ [Next]_vars => LostInv'
  <2> SUFFICES ASSUME TypeOK, Sourced, LostInv, [Next]_vars PROVE LostInv'
    OBVIOUS
  <2> USE DEF LostInv, TypeOK, StateTypeOK, TaskTypeOK, HistTypeOK, stateVars, peerVars, taskVars,
              distVars, apiVars, histVars
  <2>1. CASE Aside
    <3>1. UNCHANGED InFlight /\ UNCHANGED <<table, subscribers>>
      BY <2>1 DEF Aside, InFlight
    <3>2. LastIsAdd'
      BY <3>1 DEF LastIsAdd, Sole, Owners
    <3>3. NoLostRoute'
      <4> SUFFICES ASSUME ~Reconnects, NEW p \in peers', NEW r \in Routes,
                          p \in subscribers[VniOf[r]], p \notin dropped', ~isRemoteServer'[p],
                          table[r] # {}, Sole(r), ~KeptFrom(r, p)
                   PROVE  r \in Outcome(InFlight, view'[p]) \/ Owed(r, p)'
        BY <3>1 DEF NoLostRoute, Sole, KeptFrom, Owners
      <4>1. p \in Peers /\ subscribers \in [Vnis -> SUBSET Peers] /\ VniOf[r] \in Vnis
        BY ConstantsOK
      <4>2. /\ p \in peers /\ p \notin dropped /\ ~isRemoteServer[p] /\ view'[p] = view[p]
            /\ Owed(r, p) => Owed(r, p)'
        BY <2>1, <4>1 DEF Aside, Owed, Watched, RoutePlaces
      <4> QED
        BY <4>2 DEF NoLostRoute
    <3>4. OneVniAtATime' /\ NewAreUnsubscribed'
      BY <2>1 DEF Aside, Watched, OneVniAtATime, NewAreUnsubscribed
    <3> QED
      BY <3>2, <3>3, <3>4
  <2>2. ASSUME NEW p \in Peers, Connect(p) PROVE LostInv'
    <3>1. /\ UNCHANGED <<table, queue, inhand, subscribers, view, dropped, isRemoteServer, todo>>
          /\ peers' = peers \cup {p} /\ at[p] = "none" /\ at'[p] \in {"select", "starting"}
          /\ \A q \in Peers \ {p} : at'[q] = at[q]
      BY <2>2 DEF Connect
    <3>2. UNCHANGED InFlight
      BY <3>1 DEF InFlight
    <3>3. ~Reconnects => \A r \in Routes : p \notin subscribers[VniOf[r]]
      BY <3>1, ConstantsOK DEF NewAreUnsubscribed
    <3>4. \A q \in Peers, r \in Routes : Owed(r, q) => Owed(r, q)'
      BY <3>1 DEF Owed
    <3>5. NoLostRoute'
      <4> SUFFICES ASSUME ~Reconnects, NEW q \in peers', NEW r \in Routes,
                          q \in subscribers[VniOf[r]], q \notin dropped, ~isRemoteServer[q],
                          table[r] # {}, Sole(r), ~KeptFrom(r, q)
                   PROVE  r \in Outcome(InFlight, view[q]) \/ Owed(r, q)'
        BY <3>1, <3>2 DEF NoLostRoute, Sole, KeptFrom, Owners
      <4>1. q \in peers
        BY <3>1, <3>3
      <4> QED
        BY <3>4, <4>1 DEF NoLostRoute
    <3>6. LastIsAdd'
      BY <3>1, <3>2 DEF LastIsAdd, Sole, Owners
    <3>7. OneVniAtATime' /\ NewAreUnsubscribed'
      BY <3>1 DEF OneVniAtATime, NewAreUnsubscribed
    <3> QED
      BY <3>5, <3>6, <3>7
  <2>3. ASSUME NEW p \in Peers, RouteStep(p), ~Connect(p) PROVE LostInv'
    <3>1. CASE ReadAnnouncements(p) \/ SendAnnouncement(p)
      <4>1. /\ UNCHANGED <<table, queue, inhand, peers, isRemoteServer, subscribers>>
            /\ dropped \subseteq dropped' /\ \A q \in Peers : view[q] \subseteq view'[q]
            /\ at[p] \in {"subscribing", "announcing"} /\ at'[p] = "announcing"
            /\ \A q \in Peers \ {p} : at'[q] = at[q] /\ todo'[q] = todo[q]
        BY <3>1 DEF ReadAnnouncements, SendAnnouncement, Goto
      <4>2. \A q \in Peers, r \in Routes : Owed(r, q) => Owed(r, q)'
        BY <4>1 DEF Owed
      <4>3. LastIsAdd' /\ NoLostRoute'
        BY <4>1, <4>2, TellKeeps
      <4> QED
        BY <4>1, <4>3 DEF OneVniAtATime, NewAreUnsubscribed
    <3>2. CASE ProcessSubscribe(p)
      <4>1. PICK v \in Subscribes[p] :
              /\ subscribers' = [subscribers EXCEPT ![v] = @ \cup {p}]
              /\ IF p \in subscribers[v] THEN UNCHANGED <<at, todo>>
                                         ELSE Goto(p, "snapshot", {v})
        BY <3>2 DEF ProcessSubscribe
      <4>2. /\ UNCHANGED <<table, queue, inhand, peers, isRemoteServer, dropped, view>>
            /\ at[p] = "select" /\ v \in Vnis
        BY <3>2, ConstantsOK DEF ProcessSubscribe, InSelect
      <4>3. ASSUME NEW q \in Peers, NEW r \in Routes, q \in subscribers'[VniOf[r]]
            PROVE  Owed(r, q)' \/ (q \in subscribers[VniOf[r]] /\ ~Owed(r, q))
        <5>1. VniOf[r] \in Vnis
          BY ConstantsOK
        <5>2. CASE q = p /\ p \notin subscribers[VniOf[r]]
          BY <4>1, <4>2, <4>3, <5>1, <5>2 DEF Goto, Owed
        <5>3. CASE q = p /\ p \in subscribers[VniOf[r]]
          BY <4>2, <5>3 DEF Owed
        <5>4. CASE q # p
          BY <4>1, <4>2, <4>3, <5>1, <5>4 DEF Goto, Owed
        <5> QED
          BY <5>2, <5>3, <5>4
      <4>4. LastIsAdd' /\ NoLostRoute'
        BY <4>2, <4>3, TellKeeps
      <4> QED
        BY <4>1, <4>2, <4>4 DEF Goto, OneVniAtATime, NewAreUnsubscribed
    <3>3. CASE Snapshot(p)
      <4>1. PICK v \in todo[p] : Goto(p, "replaying", Replayed(p, v))
        BY <3>3 DEF Snapshot
      <4>2. /\ UNCHANGED <<stateVars, peerVars, distVars, histVars>> /\ at[p] = "snapshot"
            /\ \A w \in todo[p] : w = v
        BY <3>3, <4>1 DEF Snapshot, OneVniAtATime
      <4>3. \A r \in Routes : VniOf[r] = v /\ table[r] # {} /\ ~KeptFrom(r, p)
                                 => r \in Replayed(p, v)
        BY DEF Replayed, KeptFrom, Owners, Sourced
      <4>4. ASSUME NEW q \in Peers, NEW r \in Routes,
                   Owed(r, q), table[r] # {}, ~KeptFrom(r, q)
            PROVE  Owed(r, q)'
        BY <4>1, <4>2, <4>3, <4>4 DEF Goto, Owed
      <4>5. LastIsAdd' /\ NoLostRoute'
        BY <4>2, <4>4, TellKeeps
      <4> QED
        BY <4>1, <4>2, <4>5 DEF Goto, OneVniAtATime, NewAreUnsubscribed
    <3>4. CASE Replay(p)
      <4>1. /\ UNCHANGED <<table, queue, inhand, peers, isRemoteServer, subscribers>>
            /\ dropped \subseteq dropped' /\ \A q \in Peers : view[q] \subseteq view'[q]
            /\ \A q \in Peers \ {p} : at'[q] = at[q] /\ todo'[q] = todo[q]
            /\ at[p] = "replaying" /\ at'[p] \notin {"snapshot", "none"}
        BY <3>4 DEF Replay, Goto, Fail, SetClosed, AfterClosed
      <4>2. \/ p \in dropped'
            \/ at'[p] = "replaying" /\ \A r \in todo[p] : r \in todo'[p] \/ r \in view'[p]
        BY <3>4 DEF Replay, Goto
      <4>3. ASSUME NEW q \in Peers, NEW r \in Routes, Owed(r, q), q \notin dropped'
            PROVE  Owed(r, q)' \/ r \in view'[q]
        BY <4>1, <4>2, <4>3 DEF Owed
      <4>4. LastIsAdd' /\ NoLostRoute'
        BY <4>1, <4>3, TellKeeps
      <4> QED
        BY <4>1, <4>4 DEF OneVniAtATime, NewAreUnsubscribed
    <3>5. CASE ProcessUnsubscribe(p)
      <4>1. /\ UNCHANGED <<table, queue, inhand, peers, isRemoteServer, dropped, view>>
            /\ \A w \in Vnis : subscribers'[w] \subseteq subscribers[w]
            /\ at[p] = "select" /\ at'[p] \in {"select", "unsubscribed"}
            /\ \A q \in Peers \ {p} : at'[q] = at[q] /\ todo'[q] = todo[q]
        BY <3>5 DEF ProcessUnsubscribe, InSelect, Goto
      <4>2. /\ \A r \in Routes : VniOf[r] \in Vnis
            /\ \A q \in Peers, r \in Routes : Owed(r, q) => Owed(r, q)'
        BY <4>1, ConstantsOK DEF Owed
      <4>3. LastIsAdd' /\ NoLostRoute'
        BY <4>1, <4>2, TellKeeps
      <4> QED
        BY <4>1, <4>3 DEF OneVniAtATime, NewAreUnsubscribed
    <3>6. CASE UnsubscribeSnapshot(p) \/ ProcessUpdate(p)
      <4>1. /\ UNCHANGED <<stateVars, peerVars, distVars, histVars>>
            /\ at[p] \in {"unsubscribed", "select"}
            /\ at'[p] \in {"withdrawing", "adding", "removing"}
            /\ \A q \in Peers \ {p} : at'[q] = at[q] /\ todo'[q] = todo[q]
        BY <3>6 DEF UnsubscribeSnapshot, ProcessUpdate, InSelect, Goto
      <4>2. Bystanders
        BY <4>1 DEF Bystanders
      <4>3. LastIsAdd' /\ NoLostRoute'
        BY <4>1, <4>2, UntoldKeeps DEF Untold
      <4> QED
        BY <4>1, <4>3 DEF OneVniAtATime, NewAreUnsubscribed
    <3>7. CASE WithdrawLearned(p) \/ ApplyUpdate(p)
      <4>1. PICK r \in todo[p] : AddNextHop(p, r) \/ RemoveNextHop(p, r)
        BY <3>7 DEF WithdrawLearned, ApplyUpdate
      <4>2. at[p] \in {"withdrawing", "adding", "removing"}
        BY <3>7 DEF WithdrawLearned, ApplyUpdate
      <4>3. r \in Routes /\ r \in Announces[p]
        BY <4>2 DEF RoutePlaces, Sourced
      <4>4. /\ UNCHANGED <<subscribers, peers, peerVars, inhand, histVars>>
            /\ at'[p] \in {"withdrawing", "select"}
            /\ \A q \in Peers \ {p} : at'[q] = at[q] /\ todo'[q] = todo[q]
        BY <3>7 DEF WithdrawLearned, ApplyUpdate, Goto
      <4>5. Bystanders
        BY <4>2, <4>4 DEF Bystanders
      <4>6. LastIsAdd' /\ NoLostRoute'
        BY <4>1, <4>3, <4>5, ChangeIsTold, UntoldKeeps, ToldKeeps
      <4> QED
        BY <4>4, <4>6 DEF OneVniAtATime, NewAreUnsubscribed
    <3>8. CASE BeginCleanup(p)
      <4>1. /\ UNCHANGED <<subscribers, peers, peerVars, queue, inhand, histVars>>
            /\ at[p] = "closing" /\ at'[p] = "cleanup"
            /\ \A q \in Peers \ {p} : at'[q] = at[q] /\ todo'[q] = todo[q]
        BY <3>8 DEF BeginCleanup, Goto
      <4>2. Untold
        BY <3>8, CleanupUntold
      <4>3. Bystanders
        BY <4>1 DEF Bystanders
      <4>4. LastIsAdd' /\ NoLostRoute'
        BY <4>1, <4>2, <4>3, UntoldKeeps
      <4> QED
        BY <4>1, <4>4 DEF OneVniAtATime, NewAreUnsubscribed
    <3>9. CASE CleanupSend(p)
      <4>1. /\ UNCHANGED <<stateVars, peerVars, inhand, histVars>>
            /\ at[p] = "cleanup" /\ at'[p] = "cleanup"
            /\ \A q \in Peers \ {p} : at'[q] = at[q] /\ todo'[q] = todo[q]
        BY <3>9 DEF CleanupSend, Goto
      <4>2. Bystanders
        BY <4>1 DEF Bystanders
      <4>3. LastIsAdd' /\ NoLostRoute'
        BY <3>9, <4>2, CleanupTold, ToldKeeps
      <4> QED
        BY <4>1, <4>3 DEF OneVniAtATime, NewAreUnsubscribed
    <3> QED
      BY <2>3, <3>1, <3>2, <3>3, <3>4, <3>5, <3>6, <3>7, <3>8, <3>9 DEF RouteStep
  <2>4. CASE Receive
    <3>1. UNCHANGED InFlight /\ UNCHANGED <<stateVars, peerVars, taskVars, histVars>>
      BY <2>4, ReceiveMoves DEF Receive, DistTypeOK
    <3>2. LastIsAdd' /\ NoLostRoute'
      BY <3>1 DEF LastIsAdd, NoLostRoute, Sole, KeptFrom, Owners, Owed
    <3> QED
      BY <3>1, <3>2 DEF OneVniAtATime, NewAreUnsubscribed
  <2>5. CASE Distribute
    <3>1. UNCHANGED <<stateVars, taskVars>>
      BY <2>5 DEF Distribute
    <3> QED
      BY <2>5, <3>1, DistributeKeeps DEF OneVniAtATime, NewAreUnsubscribed
  <2>6. ASSUME NEW r \in LocalRoutes, AnnounceRoute(r) \/ WithdrawRoute(r) PROVE LostInv'
    <3>1. Bystanders /\ UNCHANGED <<subscribers, at, todo>>
      BY <2>6 DEF AnnounceRoute, WithdrawRoute, Bystanders
    <3>2. LastIsAdd' /\ NoLostRoute'
      BY <2>6, <3>1, LocalTold, ToldKeeps
    <3> QED
      BY <3>1, <3>2 DEF OneVniAtATime, NewAreUnsubscribed
  <2> QED
    BY <2>1, <2>2, <2>3, <2>4, <2>5, <2>6, RouteSteps DEF Sourced
<1> QED
  BY <1>1, <1>2, TypeCorrect, SourcesHold, PTL DEF Spec

(* No interleaving of the replay and the distribution leaves a subscriber   *)
(* without a route that one peer announces.                                 *)
THEOREM NothingIsLost == Spec => []NoLostRoute
<1>1. LostInv => NoLostRoute
  BY DEF LostInv
<1> QED
  BY <1>1, LostInvHolds, PTL
-----------------------------------------------------------------------------
(* The body of StaysInstalled, about one step.                              *)
StaysThere(r) ==
    /\ Sole(r) /\ table'[r] # {}
    /\ table[r] = {} \/ r \in Outcome(InFlight, os)
    => \/ r \in Outcome(InFlight, os)'
       \/ ClearRoutes /\ VniOf[r] \in apiVni
       \/ OsMayFail /\ Distribute /\ os' = os /\ inhand.route = r

(* The steps of a peer's task tell of what they make of the table.          *)
LEMMA RouteStepTells ==
  ASSUME TypeOK, Sourced, NEW p \in Peers, RouteStep(p)
  PROVE  UNCHANGED <<inhand, os>> /\ (Untold \/ \E u \in Updates : Told(u))
<1> USE DEF TypeOK, StateTypeOK, TaskTypeOK, stateVars, peerVars, taskVars, distVars
<1>1. CASE \/ Connect(p) \/ ReadAnnouncements(p) \/ SendAnnouncement(p)
           \/ ProcessSubscribe(p) \/ Snapshot(p) \/ Replay(p) \/ ProcessUnsubscribe(p)
           \/ UnsubscribeSnapshot(p) \/ ProcessUpdate(p)
  <2>1. UNCHANGED <<table, queue, inhand, os>>
    BY <1>1 DEF Connect, ReadAnnouncements, SendAnnouncement, ProcessSubscribe, Snapshot,
                Replay, ProcessUnsubscribe, UnsubscribeSnapshot, ProcessUpdate
  <2> QED
    BY <2>1 DEF Untold
<1>2. CASE WithdrawLearned(p) \/ ApplyUpdate(p)
  <2>1. PICK r \in todo[p] : AddNextHop(p, r) \/ RemoveNextHop(p, r)
    BY <1>2 DEF WithdrawLearned, ApplyUpdate
  <2>2. at[p] \in {"withdrawing", "adding", "removing"} /\ UNCHANGED <<inhand, os>>
    BY <1>2 DEF WithdrawLearned, ApplyUpdate
  <2>3. r \in Routes /\ r \in Announces[p]
    BY <2>2 DEF RoutePlaces, Sourced
  <2> QED
    BY <2>1, <2>2, <2>3, ChangeIsTold
<1>3. CASE BeginCleanup(p)
  BY <1>3, CleanupUntold DEF BeginCleanup
<1>4. CASE CleanupSend(p)
  BY <1>4, CleanupTold DEF CleanupSend
<1> QED
  BY <1>1, <1>2, <1>3, <1>4 DEF RouteStep

(* A route that one peer announces leaves the OS only with the table, by a  *)
(* clear of its VNI, or is refused by it: who puts it into the table sends  *)
(* an Add after whatever was sent about it, and who sends a Remove finds it *)
(* gone.                                                                    *)
THEOREM InstalledRoutesStay == Spec => StaysInstalled
<1>1. TypeOK /\ Sourced /\ LostInv /\ LostInv' /\ [Next]_vars
         => \A r \in Routes : StaysThere(r)
  <2> SUFFICES ASSUME TypeOK, Sourced, LastIsAdd, LastIsAdd', [Next]_vars,
                      NEW r \in Routes, Sole(r), table'[r] # {},
                      table[r] = {} \/ r \in Outcome(InFlight, os),
                      ~(ClearRoutes /\ VniOf[r] \in apiVni),
                      ~(OsMayFail /\ Distribute /\ os' = os /\ inhand.route = r)
               PROVE  r \in Outcome(InFlight, os)'
    BY DEF StaysThere, LostInv
  <2>1. InFlight \in Seq(Updates) /\ queue \in Seq(Updates)
    BY EnqueuedLast DEF InFlight, TypeOK, StateTypeOK, TaskTypeOK, DistTypeOK, PhantomTypeOK
  <2>2. ASSUME Untold, UNCHANGED <<inhand, os>> PROVE r \in Outcome(InFlight, os)'
    <3>1. table'[r] = table[r] /\ InFlight' = InFlight
      BY <2>2 DEF Untold, InFlight
    <3> QED
      BY <2>2, <3>1
  <2>3. ASSUME NEW u \in Updates, Told(u), UNCHANGED <<inhand, os>>
        PROVE  r \in Outcome(InFlight, os)'
    <3>1. CASE u.route = r
      <4>1. u.action = "Add"
        BY <2>3, <3>1 DEF Told
      <4> QED
        BY <2>3, <3>1, <4>1, SentLast DEF Told
    <3>2. CASE u.route # r
      BY <2>3, <3>2, SentLast DEF Told
    <3> QED
      BY <3>1, <3>2
  <2>4. CASE Aside
    <3>1. InFlight' = InFlight /\ r \in Outcome(InFlight, os)
      BY <2>4 DEF Aside, InFlight
    <3>2. r \in os => r \in os'
      BY <2>4 DEF Aside, ClearRoutes
    <3> QED
      BY <2>1, <3>1, <3>2, OutcomeOfRoute
  <2>5. ASSUME NEW p \in Peers, RouteStep(p) PROVE r \in Outcome(InFlight, os)'
    BY <2>2, <2>3, <2>5, RouteStepTells
  <2>6. CASE Receive
    <3>1. InFlight' = InFlight /\ UNCHANGED <<table, os>>
      BY <2>6, ReceiveMoves DEF Receive, TypeOK, DistTypeOK, stateVars
    <3> QED
      BY <3>1
  <2>7. CASE Distribute
    <3>1. /\ inhand \in Updates /\ InFlight = <<inhand>> \o queue /\ InFlight' = queue
          /\ UNCHANGED table /\ os \in SUBSET Routes
      BY <2>7 DEF Distribute, InFlight, TypeOK, DistTypeOK, stateVars
    <3>2. r \in Outcome(queue, ApplyTo(os, inhand))
      BY <2>1, <2>7, <3>1, OutcomeCons
    <3>3. r \in ApplyTo(os, inhand) => r \in os'
      BY <2>7 DEF Distribute, ApplyTo
    <3> QED
      BY <2>1, <3>1, <3>2, <3>3, OutcomeOfRoute
  <2>8. ASSUME NEW x \in LocalRoutes, AnnounceRoute(x) \/ WithdrawRoute(x)
        PROVE  r \in Outcome(InFlight, os)'
    <3>1. UNCHANGED <<inhand, os>>
      BY <2>8 DEF AnnounceRoute, WithdrawRoute
    <3> QED
      BY <2>3, <2>8, <3>1, LocalTold
  <2> QED
    BY <2>4, <2>5, <2>6, <2>7, <2>8, RouteSteps DEF Sourced
<1>2. (\A r \in Routes : StaysThere(r)) =>
         \A r \in Routes :
            /\ Sole(r) /\ table'[r] # {}
            /\ table[r] = {} \/ r \in Outcome(InFlight, os)
            => \/ r \in Outcome(InFlight, os)'
               \/ ClearRoutes /\ VniOf[r] \in apiVni
               \/ OsMayFail /\ Distribute /\ os' = os /\ inhand.route = r
  BY DEF StaysThere
<1> QED
  BY <1>1, <1>2, TypeCorrect, SourcesHold, LostInvHolds, PTL DEF Spec, StaysInstalled
=============================================================================
