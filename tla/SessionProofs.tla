--------------------------- MODULE SessionProofs ---------------------------
(* What Session promises of a connection for channels and sockets of any    *)
(* size and whichever ends greet: how the states of the two ends fit, where *)
(* an UPDATE can arrive, and that the connection delivers in order.         *)
EXTENDS Session, SequenceTheorems, TLAPS

-----------------------------------------------------------------------------
(* Sequences of messages.                                                   *)
Texts == Seq(Msgs)

(* Append and concatenation, by length.                                     *)
LEMMA AppendText ==
  ASSUME NEW s \in Texts, NEW m \in Msgs
  PROVE  Append(s, m) \in Texts /\ Len(Append(s, m)) = Len(s) + 1
BY DEF Texts

LEMMA ConcatText ==
  ASSUME NEW s \in Texts, NEW t \in Texts
  PROVE  s \o t \in Texts /\ Len(s \o t) = Len(s) + Len(t)
BY DEF Texts

(* Reading the head.                                                        *)
LEMMA TailText ==
  ASSUME NEW s \in Texts, s # <<>>
  PROVE  Head(s) \in Msgs /\ Tail(s) \in Texts /\ Len(Tail(s)) = Len(s) - 1
BY DEF Texts

(* A beginning of a sequence.                                               *)
LEMMA PrefixText ==
  ASSUME NEW s \in Texts, NEW n \in 0..Len(s)
  PROVE  SubSeq(s, 1, n) \in Texts /\ Len(SubSeq(s, 1, n)) = n
BY DEF Texts

LEMMA LenText ==
  ASSUME NEW s \in Texts
  PROVE  Len(s) \in Nat /\ <<>> \in Texts /\ Len(<<>>) = 0
BY DEF Texts

-----------------------------------------------------------------------------
(* Type correctness, step by step.                                          *)

(* A message is read off a socket.                                          *)
LEMMA ReceiveTypes ==
  ASSUME TypeOK, NEW e \in Ends, NEW m, Receive(e, m)
  PROVE  /\ wire' \in [Ends -> Seq(Msgs)] /\ \A f \in Ends : Len(wire'[f]) <= SockCap
<1>1. Other(e) \in Ends
  BY DEF Ends, Other
<1>2. Tail(wire[Other(e)]) \in Texts /\ Len(Tail(wire[Other(e)])) <= SockCap
  BY <1>1, TailText, LenText, CapsOK DEF TypeOK, Receive, Texts
<1> QED
  BY <1>1, <1>2 DEF TypeOK, Receive, At, Texts

(* A message goes into a channel that has room for it.                      *)
LEMMA PutTypes ==
  ASSUME TypeOK, NEW e \in Ends, NEW m \in Msgs, HasRoom(e) \/ tx[e] = <<>>, Put(e, m)
  PROVE  tx' \in [Ends -> Seq(Msgs)] /\ \A f \in Ends : Len(tx'[f]) <= TxCap
<1>1. Append(tx[e], m) \in Texts /\ Len(Append(tx[e], m)) <= TxCap
  BY AppendText, LenText, CapsOK DEF TypeOK, HasRoom, Texts
<1> QED
  BY <1>1 DEF TypeOK, Put, Texts

LEMMA EnterTypes ==
  ASSUME TypeOK, NEW e \in Ends, NEW s \in States, Enter(e, s)
  PROVE  conn' \in [Ends -> States]
BY DEF TypeOK, Enter

LEMMA SignalTypes ==
  ASSUME TypeOK, NEW e \in Ends, Signal(e)
  PROVE  permit' \in [Ends -> BOOLEAN]
BY DEF TypeOK, Signal

(* A task that goes on to select, or into a cleanup that never ends.        *)
Settles(e) ==
    /\ place' \in [Ends -> Places] /\ place'[e] \in {"select", "wedged"}
    /\ \A f \in Ends \ {e} : place'[f] = place[f]

LEMMA SettlesTypes ==
  ASSUME TypeOK, NEW e \in Ends, Settles(e),
         (At(e) /\ UNCHANGED held) \/ held' = [held EXCEPT ![e] = NoMsg]
  PROVE  /\ place' \in [Ends -> Places] /\ held' \in [Ends -> Msgs \cup {NoMsg}]
         /\ \A f \in Ends : held'[f] # NoMsg <=> place'[f] = "sending"
BY DEF TypeOK, Settles, At

LEMMA GoSettles ==
  ASSUME TypeOK, NEW e \in Ends, NEW p \in {"select", "wedged"}, Go(e, p)
  PROVE  Settles(e)
BY DEF TypeOK, Go, Settles, Places

(* Being told to end.                                                       *)
LEMMA ResetTypes ==
  ASSUME TypeOK, NEW e \in Ends, Reset(e)
  PROVE  /\ conn' \in [Ends -> States] /\ permit' \in [Ends -> BOOLEAN]
         /\ Settles(e)
<1>1. conn' \in [Ends -> States]
  BY EnterTypes DEF Reset, States
<1>2. permit' \in [Ends -> BOOLEAN]
  BY SignalTypes DEF Reset, TypeOK
<1>3. Settles(e)
  BY GoSettles DEF Reset
<1> QED
  BY <1>1, <1>2, <1>3

LEMMA FirstSendsText ==
  ASSUME NEW e \in Ends, NEW s \in FirstSends(e)
  PROVE  s \in Texts
<1>1. CASE e = "in"
  BY <1>1 DEF FirstSends, Texts
<1>2. CASE e # "in"
  <2>1. PICK n \in 0..MaxFirstUpdates : s = Append([i \in 1..n |-> "UPDATE"], "KEEPALIVE")
    BY <1>2 DEF FirstSends
  <2>2. n \in Nat
    BY DEF MaxFirstUpdates
  <2>3. [i \in 1..n |-> "UPDATE"] \in [1..n -> Msgs]
    BY DEF Msgs
  <2>4. [i \in 1..n |-> "UPDATE"] \in Texts
    BY <2>2, <2>3, SeqDef DEF Texts
  <2>5. "KEEPALIVE" \in Msgs
    BY DEF Msgs
  <2> QED
    BY <2>1, <2>4, <2>5, AppendText
<1> QED
  BY <1>1, <1>2

(* What set_state(Established) sends, cut to what the channel takes.        *)
LEMMA EstablishTypes ==
  ASSUME TypeOK, NEW e \in Ends, Establish(e)
  PROVE  /\ conn' \in [Ends -> States] /\ permit' \in [Ends -> BOOLEAN]
         /\ tx' \in [Ends -> Seq(Msgs)] /\ \A f \in Ends : Len(tx'[f]) <= TxCap
         /\ UNCHANGED place
<1>1. PICK s \in FirstSends(e) :
        LET all == tx[e] \o s
        IN  /\ tx' = [tx EXCEPT ![e] = SubSeq(all, 1, IF Len(all) > TxCap THEN TxCap
                                                                         ELSE Len(all))]
            /\ IF Len(all) > TxCap THEN Signal(e) ELSE UNCHANGED permit
  BY DEF Establish
<1> DEFINE all == tx[e] \o s
           n == IF Len(all) > TxCap THEN TxCap ELSE Len(all)
<1>2. s \in Texts
  BY FirstSendsText
<1>3. all \in Texts
  BY <1>2, ConcatText DEF TypeOK, Texts
<1>4. n \in 0..Len(all) /\ n <= TxCap
  BY <1>3, LenText, CapsOK
<1>5. tx' = [tx EXCEPT ![e] = SubSeq(all, 1, n)] /\ (Signal(e) \/ UNCHANGED permit)
  BY <1>1
<1> HIDE DEF all, n
<1>6. SubSeq(all, 1, n) \in Texts /\ Len(SubSeq(all, 1, n)) <= TxCap
  BY <1>3, <1>4, PrefixText
<1>7. conn' \in [Ends -> States]
  BY EnterTypes DEF Establish, States
<1>8. permit' \in [Ends -> BOOLEAN]
  BY <1>5, SignalTypes DEF TypeOK
<1>9. UNCHANGED place
  BY DEF Establish
<1> QED
  BY <1>5, <1>6, <1>7, <1>8, <1>9 DEF TypeOK, Texts

(* A message is written, lost, or fails to be written.                      *)
LEMMA WrittenTypes ==
  ASSUME TypeOK, NEW e \in Ends, NEW m \in Msgs, Written(e, m)
  PROVE  /\ wire' \in [Ends -> Seq(Msgs)] /\ \A f \in Ends : Len(wire'[f]) <= SockCap
         /\ conn' \in [Ends -> States] /\ permit' \in [Ends -> BOOLEAN]
         /\ Settles(e)
<1>1. /\ conn' \in [Ends -> States] /\ permit' \in [Ends -> BOOLEAN]
      /\ Settles(e)
  BY ResetTypes, GoSettles DEF Written, TypeOK
<1>2. CASE UNCHANGED wire
  BY <1>1, <1>2 DEF TypeOK
<1>3. CASE Len(wire[e]) < SockCap /\ wire' = [wire EXCEPT ![e] = Append(@, m)]
  <2>1. Append(wire[e], m) \in Texts /\ Len(Append(wire[e], m)) <= SockCap
    BY <1>3, AppendText, LenText, CapsOK DEF TypeOK, Texts
  <2> QED
    BY <1>1, <1>3, <2>1 DEF TypeOK, Texts
<1> QED
  BY <1>2, <1>3 DEF Written

(* A connection that ends keeps a beginning of what was on the wire.        *)
LEMMA BeginningTypes ==
  ASSUME TypeOK, NEW e \in Ends, NEW n \in 0..Len(wire[e])
  PROVE  SubSeq(wire[e], 1, n) \in Seq(Msgs) /\ Len(SubSeq(wire[e], 1, n)) <= SockCap
BY PrefixText, LenText, CapsOK DEF TypeOK, Texts

(* A task that reads stays in its loop, unless the cleanup blocks.          *)
LEMMA ReceivePlaces ==
  ASSUME TypeOK, NEW e \in Ends, ReceiveAny(e)
  PROVE  /\ Settles(e) /\ At(e) /\ UNCHANGED <<greets, held, broken>>
         /\ wire' \in [Ends -> Seq(Msgs)] /\ \A f \in Ends : Len(wire'[f]) <= SockCap
<1>1. /\ At(e) /\ UNCHANGED <<greets, held, broken>>
      /\ wire' \in [Ends -> Seq(Msgs)] /\ \A f \in Ends : Len(wire'[f]) <= SockCap
  BY ReceiveTypes DEF ReceiveAny, ReceiveHello, ReceiveKeepalive, ReceiveUpdate, Receive
<1>2. UNCHANGED place => Settles(e)
  BY <1>1 DEF TypeOK, Settles, At
<1>3. Settles(e)
  BY <1>2, ResetTypes DEF ReceiveAny, ReceiveHello, ReceiveKeepalive, ReceiveUpdate, Establish
<1> QED
  BY <1>1, <1>3

(* A task that has not started is Connecting and has nothing to send.       *)
StartInv == \A e \in Ends : place[e] = "start" => conn[e] = "Connecting" /\ tx[e] = <<>>

(* Every variable has its type at every step: what goes into a channel      *)
(* finds room there, and a message is held only inside framed.send.         *)
LEMMA StepTypes == TypeOK /\ StartInv /\ [Next]_vars => TypeOK'
<1> SUFFICES ASSUME TypeOK, StartInv, [Next]_vars PROVE TypeOK'
  OBVIOUS
<1> USE DEF vars, endVars
<1>0. {"HELLO", "KEEPALIVE", "UPDATE"} \subseteq Msgs
  BY DEF Msgs
<1>1. ASSUME NEW e \in Ends, Start(e) PROVE TypeOK'
  <2>1. /\ place' \in [Ends -> Places] /\ held' \in [Ends -> Msgs \cup {NoMsg}]
        /\ \A f \in Ends : held'[f] # NoMsg <=> place'[f] = "sending"
    BY <1>1 DEF Start, Go, TypeOK, Places
  <2>2. CASE UNCHANGED <<tx, conn>>
    BY <1>1, <2>1, <2>2 DEF Start, TypeOK
  <2>3. CASE Put(e, "HELLO") /\ Enter(e, "HelloSent")
    <3>1. conn' \in [Ends -> States]
      BY <2>3, EnterTypes DEF States
    <3>2. tx' \in [Ends -> Seq(Msgs)] /\ \A f \in Ends : Len(tx'[f]) <= TxCap
      BY <1>0, <1>1, <2>3, PutTypes DEF Start, StartInv
    <3> QED
      BY <1>1, <2>1, <3>1, <3>2 DEF Start, TypeOK
  <2> QED
    BY <1>1, <2>2, <2>3 DEF Start
<1>2. ASSUME NEW e \in Ends, ReceiveHello(e) PROVE TypeOK'
  <2>1. /\ conn' \in [Ends -> States] /\ permit' \in [Ends -> BOOLEAN]
        /\ tx' \in [Ends -> Seq(Msgs)] /\ \A f \in Ends : Len(tx'[f]) <= TxCap
    BY <1>0, <1>2, PutTypes, EnterTypes, ResetTypes DEF ReceiveHello, TypeOK, States
  <2>2. /\ Settles(e) /\ At(e) /\ UNCHANGED <<greets, held, broken>>
        /\ wire' \in [Ends -> Seq(Msgs)] /\ \A f \in Ends : Len(wire'[f]) <= SockCap
    BY <1>2, ReceivePlaces DEF ReceiveAny
  <2>3. UNCHANGED subscribed
    BY <1>2 DEF ReceiveHello
  <2> QED
    BY <2>1, <2>2, <2>3, SettlesTypes DEF TypeOK
<1>3. ASSUME NEW e \in Ends, ReceiveKeepalive(e) PROVE TypeOK'
  <2>1. /\ conn' \in [Ends -> States] /\ permit' \in [Ends -> BOOLEAN]
        /\ tx' \in [Ends -> Seq(Msgs)] /\ \A f \in Ends : Len(tx'[f]) <= TxCap
    <3>1. CASE Establish(e)
      BY <3>1, EstablishTypes
    <3>2. CASE HasRoom(e) /\ Put(e, "KEEPALIVE") /\ UNCHANGED <<conn, place, permit>>
      BY <1>0, <3>2, PutTypes DEF TypeOK
    <3>3. CASE Reset(e) /\ UNCHANGED tx
      BY <3>3, ResetTypes DEF TypeOK
    <3>4. CASE UNCHANGED <<tx, conn, place, permit>>
      BY <3>4 DEF TypeOK
    <3> QED
      BY <1>3, <3>1, <3>2, <3>3, <3>4 DEF ReceiveKeepalive
  <2>2. /\ Settles(e) /\ At(e) /\ UNCHANGED <<greets, held, broken>>
        /\ wire' \in [Ends -> Seq(Msgs)] /\ \A f \in Ends : Len(wire'[f]) <= SockCap
    BY <1>3, ReceivePlaces DEF ReceiveAny
  <2>3. UNCHANGED subscribed
    BY <1>3 DEF ReceiveKeepalive
  <2> QED
    BY <2>1, <2>2, <2>3, SettlesTypes DEF TypeOK
<1>4. ASSUME NEW e \in Ends, ReceiveUpdate(e) PROVE TypeOK'
  <2>1. conn' \in [Ends -> States] /\ permit' \in [Ends -> BOOLEAN]
    BY <1>4, ResetTypes DEF ReceiveUpdate, TypeOK
  <2>2. /\ Settles(e) /\ At(e) /\ UNCHANGED <<greets, held, broken>>
        /\ wire' \in [Ends -> Seq(Msgs)] /\ \A f \in Ends : Len(wire'[f]) <= SockCap
    BY <1>4, ReceivePlaces DEF ReceiveAny
  <2>3. UNCHANGED tx /\ subscribed' \in BOOLEAN
    BY <1>4 DEF ReceiveUpdate, TypeOK
  <2> QED
    BY <2>1, <2>2, <2>3, SettlesTypes DEF TypeOK
<1>5. ASSUME NEW e \in Ends, EndOfStream(e) \/ KeepaliveTimeout(e) PROVE TypeOK'
  <2>1. At(e) /\ Reset(e) /\ UNCHANGED <<greets, tx, held, subscribed, wire, broken>>
    BY <1>5 DEF EndOfStream, KeepaliveTimeout
  <2>2. /\ conn' \in [Ends -> States] /\ permit' \in [Ends -> BOOLEAN]
        /\ Settles(e)
    BY <2>1, ResetTypes
  <2> QED
    BY <2>1, <2>2, SettlesTypes DEF TypeOK
<1>6. ASSUME NEW e \in Ends, SendNext(e) PROVE TypeOK'
  <2>1. Head(tx[e]) \in Msgs /\ Tail(tx[e]) \in Texts /\ Len(Tail(tx[e])) <= TxCap
    BY <1>6, TailText, LenText, CapsOK DEF SendNext, TypeOK, Texts
  <2>2. tx' \in [Ends -> Seq(Msgs)] /\ \A f \in Ends : Len(tx'[f]) <= TxCap
    BY <1>6, <2>1 DEF SendNext, TypeOK, Texts
  <2>3. CASE Written(e, Head(tx[e])) /\ UNCHANGED held
    <3>1. /\ wire' \in [Ends -> Seq(Msgs)] /\ \A f \in Ends : Len(wire'[f]) <= SockCap
          /\ conn' \in [Ends -> States] /\ permit' \in [Ends -> BOOLEAN]
          /\ Settles(e)
      BY <2>1, <2>3, WrittenTypes
    <3>2. /\ place' \in [Ends -> Places] /\ held' \in [Ends -> Msgs \cup {NoMsg}]
          /\ \A f \in Ends : held'[f] # NoMsg <=> place'[f] = "sending"
      BY <1>6, <2>3, <3>1, SettlesTypes DEF SendNext
    <3> QED
      BY <1>6, <2>2, <2>3, <3>1, <3>2 DEF SendNext, TypeOK
  <2>4. CASE /\ held' = [held EXCEPT ![e] = Head(tx[e])]
             /\ Go(e, "sending")
             /\ UNCHANGED <<conn, permit, wire>>
    <3>1. Head(tx[e]) # NoMsg
      BY <2>1, CapsOK
    <3>2. /\ place' \in [Ends -> Places] /\ held' \in [Ends -> Msgs \cup {NoMsg}]
          /\ \A f \in Ends : held'[f] # NoMsg <=> place'[f] = "sending"
      BY <2>1, <2>4, <3>1 DEF Go, TypeOK, Places
    <3> QED
      BY <1>6, <2>2, <2>4, <3>2 DEF SendNext, TypeOK
  <2> QED
    BY <1>6, <2>3, <2>4 DEF SendNext
<1>7. ASSUME NEW e \in Ends, FinishSend(e) PROVE TypeOK'
  <2>1. held[e] \in Msgs
    BY <1>7 DEF FinishSend, TypeOK
  <2>2. /\ wire' \in [Ends -> Seq(Msgs)] /\ \A f \in Ends : Len(wire'[f]) <= SockCap
        /\ conn' \in [Ends -> States] /\ permit' \in [Ends -> BOOLEAN]
        /\ Settles(e)
    BY <1>7, <2>1, WrittenTypes DEF FinishSend
  <2>3. /\ place' \in [Ends -> Places] /\ held' \in [Ends -> Msgs \cup {NoMsg}]
        /\ \A f \in Ends : held'[f] # NoMsg <=> place'[f] = "sending"
    BY <1>7, <2>2, SettlesTypes DEF FinishSend
  <2> QED
    BY <1>7, <2>2, <2>3 DEF FinishSend, TypeOK
<1>8. ASSUME NEW e \in Ends, Tick(e) PROVE TypeOK'
  BY <1>0, <1>8, PutTypes, SignalTypes DEF Tick, TypeOK
<1>9. ASSUME NEW e \in Ends, Shutdown(e) PROVE TypeOK'
  <2>1. conn' \in [Ends -> States]
    BY <1>9, EnterTypes DEF Shutdown, States
  <2>2. permit' \in [Ends -> BOOLEAN]
    BY <1>9 DEF Shutdown, TypeOK
  <2>3. /\ place' \in [Ends -> Places]
        /\ \A f \in Ends : held'[f] # NoMsg <=> place'[f] = "sending"
    BY <1>9 DEF Shutdown, Go, At, TypeOK, Places
  <2>4. tx' \in [Ends -> Seq(Msgs)] /\ \A f \in Ends : Len(tx'[f]) <= TxCap
    <3>1. UNCHANGED tx \/ tx' = [tx EXCEPT ![e] = <<>>]
      BY <1>9 DEF Shutdown
    <3>2. <<>> \in Seq(Msgs) /\ Len(<<>>) <= TxCap
      BY CapsOK
    <3> QED
      BY <3>1, <3>2 DEF TypeOK
  <2>a. CASE UNCHANGED wire
    BY <1>9, <2>a, <2>1, <2>2, <2>3, <2>4 DEF Shutdown, TypeOK
  <2>b. CASE \E n \in 0..Len(wire[e]) :
               wire' = [wire EXCEPT ![e] = SubSeq(@, 1, n), ![Other(e)] = <<>>]
    <3>1. PICK n \in 0..Len(wire[e]) :
            wire' = [wire EXCEPT ![e] = SubSeq(@, 1, n), ![Other(e)] = <<>>]
      BY <2>b
    <3>2. SubSeq(wire[e], 1, n) \in Seq(Msgs) /\ Len(SubSeq(wire[e], 1, n)) <= SockCap
      BY BeginningTypes
    <3>3. <<>> \in Seq(Msgs) /\ Len(<<>>) <= SockCap
      BY CapsOK
    <3>4. wire' \in [Ends -> Seq(Msgs)] /\ \A f \in Ends : Len(wire'[f]) <= SockCap
      BY <3>1, <3>2, <3>3 DEF TypeOK
    <3> QED
      BY <1>9, <2>1, <2>2, <2>3, <2>4, <3>4 DEF Shutdown, TypeOK
  <2> QED
    BY <1>9, <2>a, <2>b DEF Shutdown
<1>10. ASSUME NEW e \in Ends, Load(e) \/ Greet(e) PROVE TypeOK'
  BY <1>0, <1>10, PutTypes DEF Load, Greet, TypeOK
<1>11. ASSUME NEW e \in Ends, TriggerShutdown(e) PROVE TypeOK'
  BY <1>11, SignalTypes DEF TriggerShutdown, TypeOK
<1>12. CASE Break
  <2>1. PICK n \in 0..Len(wire["out"]), k \in 0..Len(wire["in"]) :
          wire' = [wire EXCEPT !["out"] = SubSeq(@, 1, n), !["in"] = SubSeq(@, 1, k)]
    BY <1>12 DEF Break
  <2>2. /\ SubSeq(wire["out"], 1, n) \in Seq(Msgs) /\ Len(SubSeq(wire["out"], 1, n)) <= SockCap
        /\ SubSeq(wire["in"], 1, k) \in Seq(Msgs) /\ Len(SubSeq(wire["in"], 1, k)) <= SockCap
    BY BeginningTypes DEF Ends
  <2>3. wire' \in [Ends -> Seq(Msgs)] /\ \A f \in Ends : Len(wire'[f]) <= SockCap
    BY <2>1, <2>2 DEF TypeOK, Ends
  <2> QED
    BY <1>12, <2>3 DEF Break, TypeOK
<1>13. CASE UNCHANGED vars
  BY <1>13 DEF TypeOK
<1> QED
  BY <1>1, <1>2, <1>3, <1>4, <1>5, <1>6, <1>7, <1>8, <1>9, <1>10, <1>11, <1>12, <1>13
  DEF Next, EndNext, FrameArm, ReceiveAny

(* A task becomes Connecting and gets its empty channel before it starts.   *)
LEMMA StepStart == TypeOK /\ StartInv /\ [Next]_vars => StartInv'
<1> SUFFICES ASSUME TypeOK, StartInv, [Next]_vars, NEW f \in Ends, place'[f] = "start"
             PROVE  conn'[f] = "Connecting" /\ tx'[f] = <<>>
  BY DEF StartInv
<1> USE DEF vars, endVars, TypeOK, StartInv
<1>1. ASSUME NEW e \in Ends, Start(e) PROVE conn'[f] = "Connecting" /\ tx'[f] = <<>>
  BY <1>1 DEF Start, Go, Put, Enter
<1>2. ASSUME NEW e \in Ends, ReceiveAny(e)
      PROVE  conn'[f] = "Connecting" /\ tx'[f] = <<>>
  <2>1. f # e /\ place[f] = "start"
    BY <1>2, ReceivePlaces DEF Settles
  <2>2. conn'[f] = conn[f] /\ tx'[f] = tx[f]
    BY <1>2, <2>1 DEF ReceiveAny, ReceiveHello, ReceiveKeepalive, ReceiveUpdate, Establish,
       Put, Enter, Reset
  <2> QED
    BY <2>1, <2>2
<1>3. ASSUME NEW e \in Ends, SendNext(e) \/ FinishSend(e)
      PROVE  conn'[f] = "Connecting" /\ tx'[f] = <<>>
  BY <1>3 DEF SendNext, FinishSend, Written, Reset, Go, Enter, At
<1>4. ASSUME NEW e \in Ends, EndOfStream(e) \/ Tick(e) \/ KeepaliveTimeout(e) \/ Greet(e)
      PROVE  conn'[f] = "Connecting" /\ tx'[f] = <<>>
  BY <1>4 DEF EndOfStream, Tick, KeepaliveTimeout, Greet, Reset, Go, Put, Enter, At
<1>5. ASSUME NEW e \in Ends, Shutdown(e) \/ Load(e) \/ TriggerShutdown(e)
      PROVE  conn'[f] = "Connecting" /\ tx'[f] = <<>>
  BY <1>5 DEF Shutdown, Go, Load, Loadable, TriggerShutdown, Put, Enter
<1>6. CASE Break \/ UNCHANGED vars
  BY <1>6 DEF Break
<1> QED
  BY <1>1, <1>2, <1>3, <1>4, <1>5, <1>6 DEF Next, EndNext, FrameArm

(* Both hold of every state of the connection.                              *)
LEMMA SessionTypes == Spec => [](TypeOK /\ StartInv)
<1>1. Init => TypeOK /\ StartInv
  <2> SUFFICES ASSUME Init PROVE TypeOK /\ StartInv
    OBVIOUS
  <2>1. <<>> \in Seq(Msgs) /\ Len(<<>>) = 0
    OBVIOUS
  <2>2. NoMsg \notin Msgs /\ 0 <= TxCap /\ 0 <= SockCap /\ greets \in SUBSET Ends
    BY CapsOK DEF Init
  <2> QED
    BY <2>1, <2>2 DEF Init, TypeOK, StartInv, States, Places
<1>2. TypeOK /\ StartInv /\ [Next]_vars => (TypeOK /\ StartInv)'
  BY StepTypes, StepStart
<1> QED
  BY <1>1, <1>2, PTL DEF Spec

(* The states, channels and sockets have their types and keep to their      *)
(* capacities, and framed.send holds a message exactly while it runs.       *)
THEOREM SessionTypeCorrect == Spec => []TypeOK
BY SessionTypes, PTL

-----------------------------------------------------------------------------
(* What an end has sent and the other has not read.                         *)
Within(m, s) == \E i \in 1..Len(s) : s[i] = m
Carried(e, m) == Within(m, wire[e]) \/ held[e] = m \/ Within(m, tx[e])

LEMMA WithinText ==
  ASSUME NEW s \in Texts, NEW m \in Msgs
  PROVE  /\ ~Within(m, <<>>)
         /\ \A x \in Msgs : Within(x, Append(s, m)) <=> Within(x, s) \/ x = m
         /\ s # <<>> => /\ Within(Head(s), s)
                        /\ \A x \in Msgs : Within(x, s) <=> x = Head(s) \/ Within(x, Tail(s))
<1>1. ~Within(m, <<>>)
  BY DEF Within
<1>2. \A x \in Msgs : Within(x, Append(s, m)) <=> Within(x, s) \/ x = m
  BY DEF Within, Texts
<1>3. ASSUME s # <<>>
      PROVE  /\ Within(Head(s), s)
             /\ \A x \in Msgs : Within(x, s) <=> x = Head(s) \/ Within(x, Tail(s))
  BY <1>3 DEF Within, Texts
<1> QED
  BY <1>1, <1>2, <1>3

(* The first messages of an Established end are the client's, no HELLOs.    *)
LEMMA FirstSendsWithin ==
  ASSUME NEW e \in Ends, NEW s \in FirstSends(e), NEW m \in Msgs, Within(m, s)
  PROVE  e = "out" /\ m # "HELLO"
<1>1. CASE e = "in"
  BY <1>1 DEF FirstSends, Within
<1>2. CASE e # "in"
  <2>1. PICK n \in 0..MaxFirstUpdates : s = Append([i \in 1..n |-> "UPDATE"], "KEEPALIVE")
    BY <1>2 DEF FirstSends
  <2> DEFINE t == [i \in 1..n |-> "UPDATE"]
  <2>2. t \in Texts
    BY SeqDef DEF Texts, Msgs, MaxFirstUpdates
  <2>3. Within(m, t) => m = "UPDATE"
    BY DEF Within, MaxFirstUpdates
  <2>4. s = Append(t, "KEEPALIVE") /\ "KEEPALIVE" \in Msgs
    BY <2>1 DEF Msgs
  <2> HIDE DEF t
  <2>5. Within(m, t) \/ m = "KEEPALIVE"
    BY <2>2, <2>4, WithinText
  <2> QED
    BY <1>2, <2>3, <2>5 DEF Ends
<1> QED
  BY <1>1, <1>2

LEMMA WithinConcat ==
  ASSUME NEW s \in Texts, NEW t \in Texts, NEW m \in Msgs, Within(m, s \o t)
  PROVE  Within(m, s) \/ Within(m, t)
BY DEF Within, Texts

LEMMA WithinPrefix ==
  ASSUME NEW s \in Texts, NEW n \in 0..Len(s), NEW m \in Msgs, Within(m, SubSeq(s, 1, n))
  PROVE  Within(m, s)
BY DEF Within, Texts

(* What a step does to what is carried.                                     *)
LEMMA ReceiveCarries ==
  ASSUME TypeOK, NEW e \in Ends, NEW m \in Msgs, Receive(e, m),
         tx'[Other(e)] = tx[Other(e)]
  PROVE  /\ Carried(Other(e), m)
         /\ \A x \in Msgs : Carried(Other(e), x)' => Carried(Other(e), x)
<1>1. Other(e) \in Ends
  BY DEF Ends, Other
<1>2. wire[Other(e)] \in Texts /\ wire'[Other(e)] = Tail(wire[Other(e)])
  BY <1>1 DEF TypeOK, Receive, Texts
<1>3. /\ Within(m, wire[Other(e)])
      /\ \A x \in Msgs : Within(x, wire'[Other(e)]) => Within(x, wire[Other(e)])
  BY <1>2, WithinText DEF Receive
<1>4. held' = held
  BY DEF Receive
<1> QED
  BY <1>3, <1>4 DEF Carried

LEMMA PutCarries ==
  ASSUME TypeOK, NEW e \in Ends, NEW m \in Msgs, Put(e, m), wire'[e] = wire[e], held' = held
  PROVE  /\ \A x \in Msgs : Carried(e, x)' => Carried(e, x) \/ x = m
         /\ tx'[Other(e)] = tx[Other(e)]
<1>1. tx[e] \in Texts /\ tx'[e] = Append(tx[e], m) /\ tx'[Other(e)] = tx[Other(e)]
  BY DEF TypeOK, Put, Texts, Ends, Other
<1>2. \A x \in Msgs : Within(x, tx'[e]) <=> Within(x, tx[e]) \/ x = m
  BY <1>1, WithinText
<1> QED
  BY <1>1, <1>2 DEF Carried

LEMMA EstablishCarries ==
  ASSUME TypeOK, NEW e \in Ends, Establish(e), wire'[e] = wire[e], held' = held
  PROVE  /\ \A x \in Msgs : Carried(e, x)' => Carried(e, x) \/ (e = "out" /\ x # "HELLO")
         /\ tx'[Other(e)] = tx[Other(e)]
<1>1. PICK s \in FirstSends(e) :
        LET all == tx[e] \o s
        IN  tx' = [tx EXCEPT ![e] = SubSeq(all, 1, IF Len(all) > TxCap THEN TxCap
                                                                      ELSE Len(all))]
  BY DEF Establish
<1> DEFINE all == tx[e] \o s
           n == IF Len(all) > TxCap THEN TxCap ELSE Len(all)
<1>2. s \in Texts /\ \A x \in Msgs : Within(x, s) => e = "out" /\ x # "HELLO"
  BY FirstSendsText, FirstSendsWithin
<1>3. tx[e] \in Texts
  BY DEF TypeOK, Texts
<1>4. all \in Texts /\ \A x \in Msgs : Within(x, all) => Within(x, tx[e]) \/ Within(x, s)
  BY <1>2, <1>3, ConcatText, WithinConcat
<1>5. n \in 0..Len(all)
  BY <1>4, LenText, CapsOK
<1>6. tx' = [tx EXCEPT ![e] = SubSeq(all, 1, n)]
  BY <1>1
<1> HIDE DEF all, n
<1>7. \A x \in Msgs : Within(x, SubSeq(all, 1, n)) => Within(x, all)
  BY <1>4, <1>5, WithinPrefix
<1>8. tx'[e] = SubSeq(all, 1, n) /\ tx'[Other(e)] = tx[Other(e)]
  BY <1>6 DEF TypeOK, Ends, Other
<1> QED
  BY <1>2, <1>4, <1>7, <1>8 DEF Carried

(* Sending moves messages along; losing the connection loses some of them.  *)
LEMMA SendCarries ==
  ASSUME TypeOK, NEW e \in Ends,
         SendNext(e) \/ FinishSend(e) \/ Shutdown(e) \/ Break,
         NEW f \in Ends, NEW x \in Msgs, Carried(f, x)'
  PROVE  Carried(f, x)
<1> USE DEF TypeOK
<1>1. CASE SendNext(e)
  <2>1. CASE f = e
    <3>1. tx[e] \in Texts /\ tx[e] # <<>> /\ tx'[e] = Tail(tx[e])
      BY <1>1 DEF SendNext, Texts
    <3>2. Within(x, tx[e]) <=> x = Head(tx[e]) \/ Within(x, Tail(tx[e]))
      BY <3>1, WithinText
    <3>3. Head(tx[e]) \in Msgs
      BY <3>1, TailText
    <3>4. CASE wire'[e] = Append(wire[e], Head(tx[e])) /\ UNCHANGED held
      <4>1. Within(x, wire'[e]) <=> Within(x, wire[e]) \/ x = Head(tx[e])
        BY <3>3, <3>4, WithinText DEF Texts
      <4> QED
        BY <2>1, <3>1, <3>2, <3>4, <4>1 DEF Carried
    <3>5. CASE UNCHANGED <<wire, held>>
      BY <2>1, <3>1, <3>2, <3>5 DEF Carried
    <3>6. CASE UNCHANGED wire /\ held'[e] = Head(tx[e])
      BY <2>1, <3>1, <3>2, <3>6 DEF Carried
    <3> QED
      BY <1>1, <3>4, <3>5, <3>6 DEF SendNext, Written
  <2>2. CASE f # e
    BY <1>1, <2>2 DEF SendNext, Written, Carried
  <2> QED
    BY <2>1, <2>2
<1>2. CASE FinishSend(e)
  <2>1. CASE f = e
    <3>1. held[e] \in Msgs /\ held'[e] = NoMsg /\ tx' = tx /\ x # NoMsg
      BY <1>2, CapsOK DEF FinishSend
    <3>2. CASE wire'[e] = Append(wire[e], held[e])
      <4>1. Within(x, wire'[e]) <=> Within(x, wire[e]) \/ x = held[e]
        BY <3>1, <3>2, WithinText DEF Texts
      <4> QED
        BY <2>1, <3>1, <4>1 DEF Carried
    <3>3. CASE UNCHANGED wire
      BY <2>1, <3>1, <3>3 DEF Carried
    <3> QED
      BY <1>2, <3>2, <3>3 DEF FinishSend, Written
  <2>2. CASE f # e
    BY <1>2, <2>2 DEF FinishSend, Written, Carried
  <2> QED
    BY <2>1, <2>2
<1>a. CASE Shutdown(e) /\ UNCHANGED <<tx, wire>>
  BY <1>a DEF Shutdown, Carried
<1>3. CASE Shutdown(e) /\ ~UNCHANGED <<tx, wire>>
  <2>1. PICK n \in 0..Len(wire[e]) :
          wire' = [wire EXCEPT ![e] = SubSeq(@, 1, n), ![Other(e)] = <<>>]
    BY <1>3 DEF Shutdown
  <2>2. Within(x, SubSeq(wire[e], 1, n)) => Within(x, wire[e])
    BY WithinPrefix DEF Texts
  <2>3. ~Within(x, <<>>)
    BY DEF Within
  <2>4. Within(x, wire'[f]) => Within(x, wire[f])
    BY <2>1, <2>2, <2>3 DEF Ends, Other
  <2>5. Within(x, tx'[f]) => Within(x, tx[f])
    BY <1>3, <2>3 DEF Shutdown
  <2> QED
    BY <1>3, <2>4, <2>5 DEF Shutdown, Carried
<1>4. CASE Break
  <2>1. PICK n \in 0..Len(wire["out"]), k \in 0..Len(wire["in"]) :
          wire' = [wire EXCEPT !["out"] = SubSeq(@, 1, n), !["in"] = SubSeq(@, 1, k)]
    BY <1>4 DEF Break
  <2>2. /\ Within(x, SubSeq(wire["out"], 1, n)) => Within(x, wire["out"])
        /\ Within(x, SubSeq(wire["in"], 1, k)) => Within(x, wire["in"])
    BY WithinPrefix DEF Texts, Ends
  <2>3. Within(x, wire'[f]) => Within(x, wire[f])
    BY <2>1, <2>2 DEF Ends
  <2> QED
    BY <1>4, <2>3 DEF Break, endVars, Carried
<1> QED
  BY <1>1, <1>2, <1>a, <1>3, <1>4

-----------------------------------------------------------------------------
(* The inductive invariant: what the state of an end and the messages on    *)
(* their way say of the state of the other.                                 *)

(* An end gets a HELLO, or comes through the HELLOs, only after the other   *)
(* sent its own; and a KEEPALIVE or an UPDATE is sent only to an end that   *)
(* came through them.                                                       *)
HellosFirst ==
    /\ conn["out"] \in {"HelloReceived", "Established"} \/ Carried("in", "HELLO")
          => conn["in"] \in {"HelloSent", "Established", "Closed"}
    /\ \/ conn["in"] = "Established"
       \/ Carried("out", "KEEPALIVE") \/ Carried("out", "UPDATE")
       => conn["out"] \in {"HelloReceived", "Established", "Closed"}

(* Where nobody greets, nothing but HELLOs is ever sent.                    *)
NobodyStarts ==
    greets = {} => \A e \in Ends : /\ conn[e] # "Established"
                                  /\ ~Carried(e, "KEEPALIVE") /\ ~Carried(e, "UPDATE")

(* Where only the end that opened the connection greets, the other is       *)
(* Established before it, and both are before an UPDATE is sent.            *)
UpdatesLast ==
    greets \subseteq {"out"} =>
        /\ \/ conn["out"] = "Established"
           \/ Carried("in", "KEEPALIVE") \/ Carried("in", "UPDATE")
           \/ Carried("out", "UPDATE")
           => conn["in"] \in {"Established", "Closed"}
        /\ subscribed \/ Carried("out", "UPDATE") \/ Carried("in", "UPDATE")
           => conn["out"] \in {"Established", "Closed"}

SessionInv == HellosFirst /\ NobodyStarts /\ UpdatesLast

(* A step that sends nothing new and at most closes the ends keeps it.      *)
LEMMA QuietStep ==
  ASSUME SessionInv, UNCHANGED <<greets, subscribed>>,
         \A e \in Ends : conn'[e] = conn[e] \/ conn'[e] = "Closed",
         \A e \in Ends, m \in Msgs : Carried(e, m)' => Carried(e, m)
  PROVE  SessionInv'
<1>1. /\ Carried("in", "HELLO")' => Carried("in", "HELLO")
      /\ Carried("in", "KEEPALIVE")' => Carried("in", "KEEPALIVE")
      /\ Carried("in", "UPDATE")' => Carried("in", "UPDATE")
      /\ Carried("out", "KEEPALIVE")' => Carried("out", "KEEPALIVE")
      /\ Carried("out", "UPDATE")' => Carried("out", "UPDATE")
  BY DEF Ends, Msgs
<1>2. /\ conn'["in"] = conn["in"] \/ conn'["in"] = "Closed"
      /\ conn'["out"] = conn["out"] \/ conn'["out"] = "Closed"
  BY DEF Ends
<1>3. HellosFirst'
  BY <1>1, <1>2 DEF SessionInv, HellosFirst
<1>4. NobodyStarts'
  BY <1>1, <1>2 DEF SessionInv, NobodyStarts, Ends
<1>5. UpdatesLast'
  BY <1>1, <1>2 DEF SessionInv, UpdatesLast
<1> QED
  BY <1>3, <1>4, <1>5 DEF SessionInv

(* Every step keeps it.                                                     *)
LEMMA StepSession == TypeOK /\ StartInv /\ SessionInv /\ [Next]_vars => SessionInv'
<1> SUFFICES ASSUME TypeOK, StartInv, SessionInv, [Next]_vars PROVE SessionInv'
  OBVIOUS
<1> USE DEF vars, endVars
<1>0. /\ {"HELLO", "KEEPALIVE", "UPDATE"} = Msgs /\ Ends = {"in", "out"}
      /\ Other("in") = "out" /\ Other("out") = "in"
  BY DEF Msgs, Ends, Other
<1>a. conn \in [Ends -> States]
  BY DEF TypeOK
<1>1. ASSUME NEW e \in Ends, Start(e) PROVE SessionInv'
  <2>1. CASE UNCHANGED <<tx, conn>>
    BY <1>1, <2>1, QuietStep DEF Start, Carried
  <2>2. CASE e = "out" /\ Put(e, "HELLO") /\ Enter(e, "HelloSent")
    <3>1. conn["out"] = "Connecting" /\ conn' = [conn EXCEPT !["out"] = "HelloSent"]
      BY <1>1, <2>2 DEF Start, StartInv, Enter
    <3>2. /\ \A x \in Msgs : Carried("out", x)' => Carried("out", x) \/ x = "HELLO"
          /\ \A x \in Msgs : Carried("in", x)' => Carried("in", x)
      BY <1>0, <1>1, <2>2, PutCarries DEF Start, Carried
    <3>3. UNCHANGED <<greets, subscribed>>
      BY <1>1 DEF Start
    <3>4. /\ Carried("in", "HELLO")' => Carried("in", "HELLO")
          /\ Carried("in", "KEEPALIVE")' => Carried("in", "KEEPALIVE")
          /\ Carried("in", "UPDATE")' => Carried("in", "UPDATE")
          /\ Carried("out", "KEEPALIVE")' => Carried("out", "KEEPALIVE")
          /\ Carried("out", "UPDATE")' => Carried("out", "UPDATE")
      BY <1>0, <3>2
    <3>5. conn'["out"] = "HelloSent" /\ conn'["in"] = conn["in"]
      BY <1>0, <1>a, <3>1
    <3> QED
      BY <1>0, <3>1, <3>3, <3>4, <3>5 DEF SessionInv, HellosFirst, NobodyStarts, UpdatesLast
  <2> QED
    BY <1>1, <2>1, <2>2 DEF Start
<1>2. ASSUME NEW e \in Ends, ReceiveHello(e) PROVE SessionInv'
  <2>1. Receive(e, "HELLO") /\ UNCHANGED <<greets, subscribed, held>>
    BY <1>2 DEF ReceiveHello, Receive
  <2>2. wire'[e] = wire[e]
    BY <1>0, <2>1 DEF Receive, TypeOK
  <2>3. CASE e = "in" /\ conn[e] \in {"Connecting", "HelloReceived"} /\ Put(e, "HELLO")
             /\ Enter(e, "HelloSent")
    <3>1. /\ \A x \in Msgs : Carried("in", x)' => Carried("in", x) \/ x = "HELLO"
          /\ tx'["out"] = tx["out"]
      BY <1>0, <2>1, <2>2, <2>3, PutCarries
    <3>2. \A x \in Msgs : Carried("out", x)' => Carried("out", x)
      BY <1>0, <2>1, <2>3, <3>1, ReceiveCarries
    <3>3. /\ Carried("in", "KEEPALIVE")' => Carried("in", "KEEPALIVE")
          /\ Carried("in", "UPDATE")' => Carried("in", "UPDATE")
          /\ Carried("out", "KEEPALIVE")' => Carried("out", "KEEPALIVE")
          /\ Carried("out", "UPDATE")' => Carried("out", "UPDATE")
      BY <1>0, <3>1, <3>2
    <3>4. conn'["in"] = "HelloSent" /\ conn'["out"] = conn["out"]
      BY <1>0, <1>a, <2>3 DEF Enter
    <3> QED
      BY <1>0, <2>1, <2>3, <3>3, <3>4 DEF SessionInv, HellosFirst, NobodyStarts, UpdatesLast
  <2>4. CASE /\ UNCHANGED tx
             /\ \/ e = "out" /\ conn[e] = "HelloSent" /\ Enter(e, "HelloReceived")
                \/ Reset(e) \/ UNCHANGED conn
    <3>1. /\ Carried(Other(e), "HELLO")
          /\ \A x \in Msgs : Carried(Other(e), x)' => Carried(Other(e), x)
      BY <1>0, <2>1, <2>4, ReceiveCarries
    <3>2. \A x \in Msgs : Carried(e, x)' => Carried(e, x)
      BY <2>1, <2>2, <2>4 DEF Carried
    <3>3. \A f \in Ends, x \in Msgs : Carried(f, x)' => Carried(f, x)
      BY <1>0, <3>1, <3>2
    <3>4. CASE e = "out" /\ conn[e] = "HelloSent" /\ Enter(e, "HelloReceived")
      <4>1. /\ Carried("in", "KEEPALIVE")' => Carried("in", "KEEPALIVE")
            /\ Carried("in", "UPDATE")' => Carried("in", "UPDATE")
            /\ Carried("out", "KEEPALIVE")' => Carried("out", "KEEPALIVE")
            /\ Carried("out", "UPDATE")' => Carried("out", "UPDATE")
        BY <1>0, <3>3
      <4>2. conn'["out"] = "HelloReceived" /\ conn'["in"] = conn["in"]
        BY <1>0, <1>a, <3>4 DEF Enter
      <4> QED
        BY <1>0, <2>1, <3>1, <3>4, <4>1, <4>2
        DEF SessionInv, HellosFirst, NobodyStarts, UpdatesLast
    <3>5. CASE Reset(e) \/ UNCHANGED conn
      <4>1. \A f \in Ends : conn'[f] = conn[f] \/ conn'[f] = "Closed"
        BY <1>0, <1>a, <3>5 DEF Reset, Enter
      <4> QED
        BY <2>1, <3>3, <4>1, QuietStep
    <3> QED
      BY <2>4, <3>4, <3>5
  <2> QED
    BY <1>2, <2>3, <2>4 DEF ReceiveHello
<1>3. ASSUME NEW e \in Ends, ReceiveKeepalive(e) PROVE SessionInv'
  <2>1. Receive(e, "KEEPALIVE") /\ UNCHANGED <<greets, subscribed, held>>
    BY <1>3 DEF ReceiveKeepalive, Receive
  <2>2. wire'[e] = wire[e]
    BY <1>0, <2>1 DEF Receive, TypeOK
  <2>3. CASE conn[e] = Before(e) /\ Establish(e)
    <3>1. /\ \A x \in Msgs : Carried(e, x)' => Carried(e, x) \/ (e = "out" /\ x # "HELLO")
          /\ tx'[Other(e)] = tx[Other(e)]
      BY <2>1, <2>2, <2>3, EstablishCarries
    <3>2. /\ Carried(Other(e), "KEEPALIVE")
          /\ \A x \in Msgs : Carried(Other(e), x)' => Carried(Other(e), x)
      BY <1>0, <2>1, <3>1, ReceiveCarries
    <3>3. conn'[e] = "Established" /\ conn'[Other(e)] = conn[Other(e)]
      BY <1>0, <1>a, <2>3 DEF Establish, Enter
    <3>4. CASE e = "in"
      <4>1. /\ Carried("in", "HELLO")' => Carried("in", "HELLO")
            /\ Carried("in", "KEEPALIVE")' => Carried("in", "KEEPALIVE")
            /\ Carried("in", "UPDATE")' => Carried("in", "UPDATE")
            /\ Carried("out", "KEEPALIVE")' => Carried("out", "KEEPALIVE")
            /\ Carried("out", "UPDATE")' => Carried("out", "UPDATE")
        BY <1>0, <3>1, <3>2, <3>4
      <4>2. Carried("out", "KEEPALIVE") /\ conn'["in"] = "Established"
            /\ conn'["out"] = conn["out"]
        BY <1>0, <3>2, <3>3, <3>4
      <4> QED
        BY <1>0, <2>1, <4>1, <4>2 DEF SessionInv, HellosFirst, NobodyStarts, UpdatesLast
    <3>5. CASE e = "out"
      <4>1. /\ Carried("in", "HELLO")' => Carried("in", "HELLO")
            /\ Carried("in", "KEEPALIVE")' => Carried("in", "KEEPALIVE")
            /\ Carried("in", "UPDATE")' => Carried("in", "UPDATE")
        BY <1>0, <3>2, <3>5
      <4>2. Carried("in", "KEEPALIVE") /\ conn'["out"] = "Established"
            /\ conn'["in"] = conn["in"] /\ conn["out"] = "HelloReceived"
        BY <1>0, <2>3, <3>2, <3>3, <3>5 DEF Before
      <4> QED
        BY <1>0, <2>1, <4>1, <4>2 DEF SessionInv, HellosFirst, NobodyStarts, UpdatesLast
    <3> QED
      BY <1>0, <3>4, <3>5
  <2>4. CASE conn[e] = "Established" /\ e = "in" /\ Put(e, "KEEPALIVE") /\ UNCHANGED conn
    <3>1. /\ \A x \in Msgs : Carried("in", x)' => Carried("in", x) \/ x = "KEEPALIVE"
          /\ tx'["out"] = tx["out"]
      BY <1>0, <2>1, <2>2, <2>4, PutCarries
    <3>2. \A x \in Msgs : Carried("out", x)' => Carried("out", x)
      BY <1>0, <2>1, <2>4, <3>1, ReceiveCarries
    <3>3. /\ Carried("in", "HELLO")' => Carried("in", "HELLO")
          /\ Carried("in", "UPDATE")' => Carried("in", "UPDATE")
          /\ Carried("out", "KEEPALIVE")' => Carried("out", "KEEPALIVE")
          /\ Carried("out", "UPDATE")' => Carried("out", "UPDATE")
      BY <1>0, <3>1, <3>2
    <3> QED
      BY <1>0, <2>1, <2>4, <3>3 DEF SessionInv, HellosFirst, NobodyStarts, UpdatesLast
  <2>5. CASE UNCHANGED tx /\ (Reset(e) \/ UNCHANGED conn)
    <3>1. \A x \in Msgs : Carried(Other(e), x)' => Carried(Other(e), x)
      BY <1>0, <2>1, <2>5, ReceiveCarries
    <3>2. \A x \in Msgs : Carried(e, x)' => Carried(e, x)
      BY <2>1, <2>2, <2>5 DEF Carried
    <3>3. \A f \in Ends, x \in Msgs : Carried(f, x)' => Carried(f, x)
      BY <1>0, <3>1, <3>2
    <3>4. \A f \in Ends : conn'[f] = conn[f] \/ conn'[f] = "Closed"
      BY <1>0, <1>a, <2>5 DEF Reset, Enter
    <3> QED
      BY <2>1, <3>3, <3>4, QuietStep
  <2> QED
    BY <1>3, <2>3, <2>4, <2>5 DEF ReceiveKeepalive, Answers
<1>4. ASSUME NEW e \in Ends, ReceiveUpdate(e) PROVE SessionInv'
  <2>1. /\ Receive(e, "UPDATE") /\ UNCHANGED <<greets, held, tx>>
        /\ e # "in" => subscribed' = subscribed
    BY <1>4 DEF ReceiveUpdate, Receive
  <2>2. wire'[e] = wire[e]
    BY <1>0, <2>1 DEF Receive, TypeOK
  <2>3. /\ Carried(Other(e), "UPDATE")
        /\ \A x \in Msgs : Carried(Other(e), x)' => Carried(Other(e), x)
    BY <1>0, <2>1, ReceiveCarries
  <2>4. \A x \in Msgs : Carried(e, x)' => Carried(e, x)
    BY <2>1, <2>2 DEF Carried
  <2>5. /\ Carried("in", "HELLO")' => Carried("in", "HELLO")
        /\ Carried("in", "KEEPALIVE")' => Carried("in", "KEEPALIVE")
        /\ Carried("in", "UPDATE")' => Carried("in", "UPDATE")
        /\ Carried("out", "KEEPALIVE")' => Carried("out", "KEEPALIVE")
        /\ Carried("out", "UPDATE")' => Carried("out", "UPDATE")
    BY <1>0, <2>3, <2>4
  <2>6. /\ conn'["in"] = conn["in"] \/ conn'["in"] = "Closed"
        /\ conn'["out"] = conn["out"] \/ conn'["out"] = "Closed"
    BY <1>0, <1>4, <1>a DEF ReceiveUpdate, Reset, Enter
  <2>7. subscribed' => subscribed \/ Carried("out", "UPDATE")
    BY <1>0, <2>1, <2>3 DEF TypeOK
  <2> QED
    BY <1>0, <2>1, <2>5, <2>6, <2>7 DEF SessionInv, HellosFirst, NobodyStarts, UpdatesLast
<1>5. ASSUME NEW e \in Ends, SendNext(e) \/ FinishSend(e) \/ Shutdown(e) \/ Break
      PROVE  SessionInv'
  <2>1. \A f \in Ends, x \in Msgs : Carried(f, x)' => Carried(f, x)
    BY <1>5, SendCarries
  <2>2. UNCHANGED <<greets, subscribed>>
    BY <1>5 DEF SendNext, FinishSend, Shutdown, Break
  <2>3. \A f \in Ends : conn'[f] = conn[f] \/ conn'[f] = "Closed"
    BY <1>0, <1>5, <1>a DEF SendNext, FinishSend, Shutdown, Break, Written, Reset, Enter
  <2> QED
    BY <2>1, <2>2, <2>3, QuietStep
<1>6. ASSUME NEW e \in Ends, EndOfStream(e) \/ KeepaliveTimeout(e) \/ TriggerShutdown(e)
      PROVE  SessionInv'
  <2>1. UNCHANGED <<greets, subscribed, tx, held, wire>>
    BY <1>6 DEF EndOfStream, KeepaliveTimeout, TriggerShutdown
  <2>2. \A f \in Ends : conn'[f] = conn[f] \/ conn'[f] = "Closed"
    BY <1>0, <1>6, <1>a DEF EndOfStream, KeepaliveTimeout, TriggerShutdown, Reset, Enter
  <2> QED
    BY <2>1, <2>2, QuietStep DEF Carried
<1>7. ASSUME NEW e \in Ends, Tick(e) \/ Load(e) \/ Greet(e) PROVE SessionInv'
  <2>1. UNCHANGED <<greets, conn, held, subscribed, wire>>
    BY <1>7 DEF Tick, Load, Greet
  <2>2. CASE UNCHANGED tx
    BY <2>1, <2>2, QuietStep DEF Carried
  <2>3. CASE Tick(e) /\ e = "out" /\ Put(e, "KEEPALIVE")
    <3>1. \A x \in Msgs : Carried("out", x)' => Carried("out", x) \/ x = "KEEPALIVE"
      BY <1>0, <2>1, <2>3, PutCarries
    <3>2. \A x \in Msgs : Carried("in", x)' <=> Carried("in", x)
      BY <1>0, <2>1, <2>3, PutCarries DEF Carried
    <3>3. conn["out"] = "Established"
      BY <2>3 DEF Tick, Ticks
    <3> QED
      BY <1>0, <2>1, <3>1, <3>2, <3>3 DEF SessionInv, HellosFirst, NobodyStarts, UpdatesLast
  <2>4. CASE Load(e)
    <3>1. \A x \in Msgs : Carried(e, x)' => Carried(e, x) \/ x = "UPDATE"
      BY <1>0, <2>1, <2>4, PutCarries DEF Load
    <3>2. \A x \in Msgs : Carried(Other(e), x)' <=> Carried(Other(e), x)
      BY <1>0, <2>1, <2>4, PutCarries DEF Carried, Load
    <3>3. conn[e] = "Established" /\ (e = "in" => subscribed)
      BY <2>4 DEF Load, Loadable
    <3>4. CASE e = "in"
      BY <1>0, <2>1, <3>1, <3>2, <3>3, <3>4
      DEF SessionInv, HellosFirst, NobodyStarts, UpdatesLast
    <3>5. CASE e = "out"
      BY <1>0, <2>1, <3>1, <3>2, <3>3, <3>5
      DEF SessionInv, HellosFirst, NobodyStarts, UpdatesLast
    <3> QED
      BY <1>0, <3>4, <3>5
  <2>5. CASE Greet(e)
    <3>1. \A x \in Msgs : Carried(e, x)' => Carried(e, x) \/ x = "KEEPALIVE"
      BY <1>0, <2>1, <2>5, PutCarries DEF Greet
    <3>2. \A x \in Msgs : Carried(Other(e), x)' <=> Carried(Other(e), x)
      BY <1>0, <2>1, <2>5, PutCarries DEF Carried, Greet
    <3>3. conn[e] = Before(e) /\ e \in greets
      BY <2>5 DEF Greet
    <3>4. CASE e = "in"
      BY <1>0, <2>1, <3>1, <3>2, <3>3, <3>4
      DEF SessionInv, HellosFirst, NobodyStarts, UpdatesLast
    <3>5. CASE e = "out"
      BY <1>0, <2>1, <3>1, <3>2, <3>3, <3>5
      DEF SessionInv, HellosFirst, NobodyStarts, UpdatesLast, Before
    <3> QED
      BY <1>0, <3>4, <3>5
  <2> QED
    BY <1>7, <2>2, <2>3, <2>4, <2>5 DEF Tick
<1>8. CASE UNCHANGED vars
  BY <1>8, QuietStep DEF Carried
<1> QED
  BY <1>0, <1>1, <1>2, <1>3, <1>4, <1>5, <1>6, <1>7, <1>8
  DEF Next, EndNext, FrameArm, ReceiveAny

LEMMA SessionRight == Spec => []SessionInv
<1>1. Init => SessionInv
  <2> SUFFICES ASSUME Init PROVE SessionInv
    OBVIOUS
  <2>1. \A e \in Ends, m \in Msgs : ~Carried(e, m)
    BY CapsOK DEF Init, Carried, Within
  <2>2. \A e \in Ends : conn[e] = "Connecting"
    BY DEF Init
  <2> QED
    BY <2>1, <2>2 DEF Init, SessionInv, HellosFirst, NobodyStarts, UpdatesLast, Ends, Msgs
<1>2. TypeOK /\ StartInv /\ SessionInv /\ [Next]_vars => SessionInv'
  BY StepSession
<1> QED
  BY <1>1, <1>2, SessionTypes, PTL DEF Spec

(* What an Established end sends finds the other past the HELLOs: its first *)
(* KEEPALIVE or UPDATE is never an answer out of order that resets the      *)
(* connection (process_hello and process_keepalive at both ends).           *)
THEOREM EstablishedEndsAgree == Spec => []EstablishedAgree
<1>1. SessionInv => EstablishedAgree
  BY DEF SessionInv, HellosFirst, EstablishedAgree
<1> QED
  BY <1>1, SessionRight, PTL

(* Without a peer that sends a KEEPALIVE on its own, the handshake of this  *)
(* implementation with itself never ends: each end waits for the other's.   *)
THEOREM NobodyEstablished == Spec => []NobodyGreetsFirst
<1>1. SessionInv => NobodyGreetsFirst
  BY DEF SessionInv, NobodyStarts, NobodyGreetsFirst
<1> QED
  BY <1>1, SessionRight, PTL

(* When only the end that opened the connection greets, every SUBSCRIBE and *)
(* UPDATE is read by an end that is Established or was until it closed, so  *)
(* the clean-up of the connection undoes it.                                *)
THEOREM UpdatesAfterHandshake == Spec => UpdatesFindEstablished
<1>1. TypeOK /\ SessionInv /\ [Next]_vars =>
        [greets \subseteq {"out"} =>
           \A e \in Ends : ReceiveUpdate(e) => conn[e] \in {"Established", "Closed"}]_vars
  <2> SUFFICES ASSUME TypeOK, SessionInv, greets \subseteq {"out"},
                      NEW e \in Ends, ReceiveUpdate(e)
               PROVE  conn[e] \in {"Established", "Closed"}
    OBVIOUS
  <2>1. Carried(Other(e), "UPDATE")
    BY ReceiveCarries DEF ReceiveUpdate, Msgs
  <2> QED
    BY <2>1 DEF SessionInv, UpdatesLast, Ends, Other
<1> QED
  BY <1>1, SessionTypes, SessionRight, PTL DEF Spec, UpdatesFindEstablished

-----------------------------------------------------------------------------
(* The connection implements Link.  What Session's state stands for there:  *)
Mapped == [e \in Ends |-> IF IsCut THEN wire[e] ELSE Waiting(e)]
Unsent(e) == IF held[e] = NoMsg THEN <<>> ELSE <<held[e]>>

LEMMA BeginsText ==
  ASSUME NEW s \in Texts, NEW t \in Texts, NEW n \in 0..Len(s)
  PROVE  /\ L!Begins(s, s) /\ L!Begins(s, s \o t)
         /\ L!Begins(SubSeq(s, 1, n), s) /\ L!Begins(SubSeq(s, 1, n), s \o t)
         /\ L!Begins(<<>>, s)
<1>1. L!Begins(s, s)
  BY DEF L!Begins, Texts
<1>2. L!Begins(s, s \o t)
  BY DEF L!Begins, Texts
<1>3. L!Begins(SubSeq(s, 1, n), s)
  BY DEF L!Begins, Texts
<1>4. L!Begins(SubSeq(s, 1, n), s \o t)
  BY DEF L!Begins, Texts
<1>5. L!Begins(<<>>, s)
  BY DEF L!Begins, Texts
<1> QED
  BY <1>1, <1>2, <1>3, <1>4, <1>5

LEMMA ConcatAgain ==
  ASSUME NEW s \in Texts, NEW t \in Texts, NEW u \in Texts
  PROVE  (s \o t) \o u = s \o (t \o u)
BY ConcatAssociative DEF Texts

LEMMA TailConcat ==
  ASSUME NEW s \in Texts, s # <<>>, NEW t \in Texts
  PROVE  s \o t # <<>> /\ Tail(s \o t) = Tail(s) \o t
BY DEF Texts

LEMMA HeadMoves ==
  ASSUME NEW s \in Texts, NEW t \in Texts, t # <<>>
  PROVE  Append(s, Head(t)) \o Tail(t) = s \o t /\ <<Head(t)>> \o Tail(t) = t
BY DEF Texts

(* What waits is what is on the wire, and the rest behind it.               *)
LEMMA WaitingText ==
  ASSUME TypeOK, NEW e \in Ends
  PROVE  /\ Waiting(e) \in Texts /\ Unsent(e) \in Texts /\ Unsent(e) \o tx[e] \in Texts
         /\ Waiting(e) = wire[e] \o (Unsent(e) \o tx[e])
<1>1. wire[e] \in Texts /\ tx[e] \in Texts
  BY DEF TypeOK, Texts
<1>2. Unsent(e) \in Texts
  BY DEF TypeOK, Unsent, Texts
<1>3. Waiting(e) = (wire[e] \o Unsent(e)) \o tx[e]
  BY DEF Waiting, Unsent
<1>4. (wire[e] \o Unsent(e)) \o tx[e] = wire[e] \o (Unsent(e) \o tx[e])
  BY <1>1, <1>2, ConcatAgain
<1>5. Unsent(e) \o tx[e] \in Texts
  BY <1>1, <1>2, ConcatText
<1>6. wire[e] \o (Unsent(e) \o tx[e]) \in Texts
  BY <1>1, <1>5, ConcatText
<1>7. Waiting(e) = wire[e] \o (Unsent(e) \o tx[e])
  BY <1>3, <1>4, Zenon
<1> QED
  BY <1>2, <1>5, <1>6, <1>7, Zenon

(* More in the channel is more behind what waits.                           *)
LEMMA GrowWaits ==
  ASSUME TypeOK, NEW e \in Ends, NEW s \in Texts, tx'[e] = tx[e] \o s,
         wire'[e] = wire[e], held'[e] = held[e]
  PROVE  Waiting(e)' = Waiting(e) \o s
<1>1. wire[e] \in Texts /\ tx[e] \in Texts /\ Unsent(e) \in Texts
  BY WaitingText DEF TypeOK, Texts
<1>2. Waiting(e)' = (wire[e] \o Unsent(e)) \o (tx[e] \o s)
  BY DEF Waiting, Unsent
<1>3. Waiting(e) = (wire[e] \o Unsent(e)) \o tx[e] /\ wire[e] \o Unsent(e) \in Texts
  BY <1>1, ConcatText DEF Waiting, Unsent
<1>4. (wire[e] \o Unsent(e)) \o (tx[e] \o s) = ((wire[e] \o Unsent(e)) \o tx[e]) \o s
  BY <1>1, <1>3, ConcatAgain
<1> QED
  BY <1>2, <1>3, <1>4, Zenon

(* Reading takes the head of what waits.                                    *)
LEMMA ReadWaits ==
  ASSUME TypeOK, TypeOK', NEW e \in Ends, wire[e] # <<>>, wire'[e] = Tail(wire[e]),
         held'[e] = held[e], tx'[e] = tx[e]
  PROVE  Waiting(e) # <<>> /\ Waiting(e)' = Tail(Waiting(e))
<1>1. wire[e] \in Texts /\ Unsent(e) \o tx[e] \in Texts
      /\ Waiting(e) = wire[e] \o (Unsent(e) \o tx[e])
  BY WaitingText DEF TypeOK, Texts
<1>2. Waiting(e)' = wire'[e] \o (Unsent(e) \o tx'[e])
  <2>1. wire'[e] \in Texts /\ tx'[e] \in Texts /\ Unsent(e) \in Texts
    BY WaitingText DEF TypeOK, Texts
  <2>2. Waiting(e)' = (wire'[e] \o Unsent(e)) \o tx'[e]
    BY DEF Waiting, Unsent
  <2>3. (wire'[e] \o Unsent(e)) \o tx'[e] = wire'[e] \o (Unsent(e) \o tx'[e])
    BY <2>1, ConcatAgain
  <2> QED
    BY <2>2, <2>3, Zenon
<1> DEFINE rest == Unsent(e) \o tx[e]
<1>3. /\ wire[e] \in Texts /\ rest \in Texts /\ Waiting(e) = wire[e] \o rest
      /\ Waiting(e)' = Tail(wire[e]) \o rest
  BY <1>1, <1>2
<1> HIDE DEF rest
<1> QED
  BY <1>3, TailConcat

(* Sending moves messages along what waits and leaves it as it is.          *)
LEMMA SendWaits ==
  ASSUME TypeOK, NEW e \in Ends, SendNext(e) \/ FinishSend(e), ~IsCut
  PROVE  \A f \in Ends : Waiting(f)' = Waiting(f)
<1> USE DEF TypeOK
<1>1. wire[e] \in Texts /\ tx[e] \in Texts
  BY DEF Texts
<1>2. CASE SendNext(e)
  <2>1. held[e] = NoMsg /\ tx[e] # <<>> /\ tx' = [tx EXCEPT ![e] = Tail(@)]
    BY <1>2 DEF SendNext, At
  <2>2. Head(tx[e]) \in Msgs /\ Tail(tx[e]) \in Texts /\ Head(tx[e]) # NoMsg
    BY <1>1, <2>1, TailText, CapsOK
  <2>3. CASE wire' = [wire EXCEPT ![e] = Append(@, Head(tx[e]))] /\ UNCHANGED held
    <3>1. Waiting(e)' = (Append(wire[e], Head(tx[e])) \o <<>>) \o Tail(tx[e])
      BY <2>1, <2>3 DEF Waiting
    <3>2. Waiting(e) = (wire[e] \o <<>>) \o tx[e]
      BY <2>1 DEF Waiting
    <3>3. /\ wire[e] \o <<>> = wire[e]
          /\ Append(wire[e], Head(tx[e])) \o <<>> = Append(wire[e], Head(tx[e]))
      BY <1>1, <2>2 DEF Texts
    <3>4. Waiting(e)' = Waiting(e)
      BY <1>1, <2>1, <3>1, <3>2, <3>3, HeadMoves
    <3> QED
      BY <2>1, <2>3, <3>4 DEF Waiting
  <2>4. CASE held' = [held EXCEPT ![e] = Head(tx[e])] /\ UNCHANGED wire
    <3>1. Waiting(e)' = (wire[e] \o <<Head(tx[e])>>) \o Tail(tx[e])
      BY <2>1, <2>2, <2>4 DEF Waiting
    <3>2. Waiting(e) = (wire[e] \o <<>>) \o tx[e] /\ wire[e] \o <<>> = wire[e]
      BY <1>1, <2>1 DEF Waiting, Texts
    <3>3. <<Head(tx[e])>> \in Texts
      BY <2>2 DEF Texts
    <3>4. (wire[e] \o <<Head(tx[e])>>) \o Tail(tx[e])
          = wire[e] \o (<<Head(tx[e])>> \o Tail(tx[e]))
      BY <1>1, <2>2, <3>3, ConcatAgain
    <3>5. <<Head(tx[e])>> \o Tail(tx[e]) = tx[e]
      BY <1>1, <2>1, HeadMoves
    <3>6. Waiting(e)' = Waiting(e)
      BY <3>1, <3>2, <3>4, <3>5, Zenon
    <3> QED
      BY <2>1, <2>4, <3>6 DEF Waiting
  <2> QED
    BY <1>2, <2>3, <2>4 DEF SendNext, Written
<1>3. CASE FinishSend(e)
  <2>1. /\ held[e] \in Msgs /\ held' = [held EXCEPT ![e] = NoMsg] /\ UNCHANGED tx
        /\ wire' = [wire EXCEPT ![e] = Append(@, held[e])]
    BY <1>3 DEF FinishSend, Written
  <2>2. Waiting(e)' = (Append(wire[e], held[e]) \o <<>>) \o tx[e]
    BY <2>1 DEF Waiting
  <2>3. Waiting(e) = (wire[e] \o <<held[e]>>) \o tx[e]
    BY <2>1, CapsOK DEF Waiting
  <2>4. Append(wire[e], held[e]) \o <<>> = wire[e] \o <<held[e]>>
    BY <1>1, <2>1 DEF Texts
  <2>5. Waiting(e)' = Waiting(e)
    BY <2>2, <2>3, <2>4
  <2> QED
    BY <2>1, <2>5 DEF Waiting
<1> QED
  BY <1>2, <1>3

(* An end that reads or is given messages while the connection stands.      *)
LEMMA RelayStep ==
  ASSUME TypeOK, NEW e \in Ends, NEW s \in Texts, ~IsCut, ~IsCut',
         Waiting(e)' = Waiting(e) \o s,
         \/ Waiting(Other(e))' = Waiting(Other(e))
         \/ /\ Waiting(Other(e)) # <<>>
            /\ Waiting(Other(e))' = Tail(Waiting(Other(e)))
  PROVE  L!Relay(e)
<1>1. Other(e) \in Ends
  BY DEF Ends, Other
<1>2. /\ Mapped[e] = Waiting(e) /\ Mapped'[e] = Waiting(e)'
      /\ Mapped[Other(e)] = Waiting(Other(e)) /\ Mapped'[Other(e)] = Waiting(Other(e))'
  BY <1>1 DEF Mapped
<1>3. Waiting(e) \in Texts
  BY WaitingText
<1>4. L!Begins(Waiting(e), Waiting(e) \o s)
  <2>1. 0 \in 0..Len(Waiting(e))
    BY <1>3, LenText
  <2> QED
    BY <1>3, <2>1, BeginsText
<1> QED
  BY <1>2, <1>4 DEF L!Relay, Mapped

(* A beginning of a concatenation that covers its first part.               *)
LEMMA PrefixConcat ==
  ASSUME NEW s \in Texts, NEW t \in Texts, NEW k \in 0..Len(t)
  PROVE  SubSeq(s \o t, 1, Len(s) + k) = s \o SubSeq(t, 1, k)
<1>1. s \o t \in Texts /\ Len(s) \in Nat /\ Len(t) \in Nat /\ Len(s \o t) = Len(s) + Len(t)
  BY ConcatText, LenText
<1>2. SubSeq(t, 1, k) \in Texts /\ Len(SubSeq(t, 1, k)) = k
  BY PrefixText
<1>3. SubSeq(s \o t, 1, Len(s) + k) \in Texts /\ Len(SubSeq(s \o t, 1, Len(s) + k)) = Len(s) + k
  <2>1. Len(s) + k \in 0..Len(s \o t)
    BY <1>1
  <2> QED
    BY <1>1, <2>1, PrefixText
<1>4. s \o SubSeq(t, 1, k) \in Texts /\ Len(s \o SubSeq(t, 1, k)) = Len(s) + k
  BY <1>2, ConcatText
<1>5. ASSUME NEW i \in 1..(Len(s) + k)
      PROVE  SubSeq(s \o t, 1, Len(s) + k)[i] = (s \o SubSeq(t, 1, k))[i]
  BY <1>1, <1>2, <1>5 DEF Texts
<1> QED
  BY <1>3, <1>4, <1>5, SeqEqual DEF Texts

(* What set_state(Established) sends goes behind what waits.                *)
LEMMA EstablishGrows ==
  ASSUME TypeOK, NEW e \in Ends, Establish(e)
  PROVE  \E s \in Texts : tx'[e] = tx[e] \o s
<1>1. PICK s \in FirstSends(e) :
        LET all == tx[e] \o s
        IN  tx' = [tx EXCEPT ![e] = SubSeq(all, 1, IF Len(all) > TxCap THEN TxCap
                                                                      ELSE Len(all))]
  BY DEF Establish
<1> DEFINE all == tx[e] \o s
           n == IF Len(all) > TxCap THEN TxCap ELSE Len(all)
<1>2. s \in Texts /\ tx[e] \in Texts /\ Len(tx[e]) <= TxCap
  BY FirstSendsText DEF TypeOK, Texts
<1>3. all \in Texts /\ Len(all) = Len(tx[e]) + Len(s) /\ Len(tx[e]) \in Nat /\ Len(s) \in Nat
  BY <1>2, ConcatText, LenText
<1>4. n \in Len(tx[e])..Len(all)
  BY <1>2, <1>3, CapsOK
<1>5. tx'[e] = SubSeq(all, 1, n)
  BY <1>1 DEF TypeOK
<1> DEFINE k == n - Len(tx[e])
<1>6. k \in 0..Len(s) /\ n = Len(tx[e]) + k
  BY <1>3, <1>4
<1> HIDE DEF n, k
<1>7. SubSeq(tx[e] \o s, 1, Len(tx[e]) + k) = tx[e] \o SubSeq(s, 1, k)
  BY <1>2, <1>6, PrefixConcat
<1>8. SubSeq(s, 1, k) \in Texts
  BY <1>2, <1>6, PrefixText
<1> QED
  BY <1>5, <1>6, <1>7, <1>8

(* An end reads a message, and may answer it.                               *)
LEMMA ReceiveLinks ==
  ASSUME TypeOK, TypeOK', NEW e \in Ends, ReceiveAny(e)
  PROVE  L!Next
<1>1. /\ Other(e) \in Ends /\ Other(e) # e /\ Other(Other(e)) = e
      /\ Ends = {e, Other(e)}
  BY DEF Ends, Other
<1>2. /\ wire[Other(e)] # <<>> /\ wire' = [wire EXCEPT ![Other(e)] = Tail(@)]
      /\ UNCHANGED <<held, broken>>
  BY DEF ReceiveAny, ReceiveHello, ReceiveKeepalive, ReceiveUpdate, Receive
<1>3. IsCut' = IsCut
  <2>1. Settles(e) /\ At(e)
    BY ReceivePlaces
  <2>2. \A f \in Ends : place'[f] = "gone" <=> place[f] = "gone"
    BY <2>1 DEF Settles, At
  <2> QED
    BY <1>2, <2>2 DEF IsCut
<1>4. wire'[e] = wire[e] /\ wire'[Other(e)] = Tail(wire[Other(e)])
  BY <1>1, <1>2 DEF TypeOK
<1>5. CASE IsCut
  <2>1. Mapped = wire
    BY <1>5 DEF Mapped, TypeOK
  <2>2. Mapped' = wire'
    BY <1>3, <1>5 DEF Mapped, TypeOK
  <2>3. L!ReadRest(Other(e))
    BY <1>2, <1>3, <1>5, <2>1, <2>2 DEF L!ReadRest, Mapped
  <2> QED
    BY <1>1, <2>3 DEF L!Next
<1>6. CASE ~IsCut
  <2>1. /\ tx'[Other(e)] = tx[Other(e)]
        /\ \E s \in Texts : tx'[e] = tx[e] \o s
    <3>1. CASE UNCHANGED tx
      <4>1. tx[e] = tx[e] \o <<>> /\ <<>> \in Texts
        BY DEF TypeOK, Texts
      <4> QED
        BY <3>1, <4>1
    <3>2. ASSUME NEW m \in Msgs, Put(e, m)
          PROVE  /\ tx'[Other(e)] = tx[Other(e)]
                 /\ \E s \in Texts : tx'[e] = tx[e] \o s
      <4>1. tx'[e] = tx[e] \o <<m>> /\ <<m>> \in Texts
        BY <3>2 DEF Put, TypeOK, Texts
      <4> QED
        BY <1>1, <3>2, <4>1 DEF Put, TypeOK
    <3>3. CASE Establish(e)
      <4>1. tx'[Other(e)] = tx[Other(e)]
        BY <1>1, <3>3 DEF Establish, TypeOK
      <4> QED
        BY <3>3, <4>1, EstablishGrows
    <3>4. "HELLO" \in Msgs /\ "KEEPALIVE" \in Msgs
      BY DEF Msgs
    <3> QED
      BY <3>1, <3>2, <3>3, <3>4 DEF ReceiveAny, ReceiveHello, ReceiveKeepalive, ReceiveUpdate
  <2>2. PICK s \in Texts : tx'[e] = tx[e] \o s
    BY <2>1
  <2>3. Waiting(e)' = Waiting(e) \o s
    BY <1>2, <1>4, <2>2, GrowWaits
  <2>4. Waiting(Other(e)) # <<>> /\ Waiting(Other(e))' = Tail(Waiting(Other(e)))
    BY <1>1, <1>2, <1>4, <2>1, ReadWaits
  <2>5. L!Relay(e)
    BY <1>3, <1>6, <2>3, <2>4, RelayStep
  <2> QED
    BY <2>5 DEF L!Next
<1> QED
  BY <1>5, <1>6

(* Other tasks, the timer or the greeting put one message into the channel. *)
LEMMA PutLinks ==
  ASSUME TypeOK, NEW e \in Ends, NEW m \in Msgs, Put(e, m),
         UNCHANGED <<wire, held, IsCut>>
  PROVE  [L!Next]_(L!linkVars)
<1>1. Other(e) \in Ends /\ Other(e) # e
  BY DEF Ends, Other
<1>2. tx'[e] = tx[e] \o <<m>> /\ <<m>> \in Texts /\ tx'[Other(e)] = tx[Other(e)]
  BY <1>1 DEF Put, TypeOK, Texts
<1>3. CASE IsCut
  BY <1>3 DEF L!linkVars, Mapped
<1>4. CASE ~IsCut
  <2>1. Waiting(e)' = Waiting(e) \o <<m>>
    BY <1>2, GrowWaits
  <2>2. Waiting(Other(e))' = Waiting(Other(e))
    BY <1>2 DEF Waiting
  <2>3. L!Relay(e)
    BY <1>2, <1>4, <2>1, <2>2, RelayStep
  <2> QED
    BY <2>3 DEF L!Next
<1> QED
  BY <1>3, <1>4

(* The connection is cut: of what waits a beginning is left.                *)
LEMMA LoseLinks ==
  ASSUME TypeOK, IsCut',
         \A f \in Ends : \E n \in 0..Len(wire[f]) : wire'[f] = SubSeq(wire[f], 1, n)
  PROVE  L!Lose
<1>1. ASSUME NEW f \in Ends
      PROVE  L!Begins(Mapped'[f], Mapped[f])
  <2>1. PICK n \in 0..Len(wire[f]) : wire'[f] = SubSeq(wire[f], 1, n)
    OBVIOUS
  <2>2. Mapped'[f] = SubSeq(wire[f], 1, n)
    BY <2>1 DEF Mapped
  <2>3. /\ wire[f] \in Texts /\ Unsent(f) \o tx[f] \in Texts
        /\ Mapped[f] = wire[f] \/ Mapped[f] = wire[f] \o (Unsent(f) \o tx[f])
    BY WaitingText DEF TypeOK, Texts, Mapped
  <2> QED
    BY <2>2, <2>3, BeginsText
<1> QED
  BY <1>1 DEF L!Lose, Mapped

(* Every step of the two ends is a step of Link, or leaves it as it is.     *)
LEMMA StepLinks == TypeOK /\ StartInv /\ [Next]_vars => [L!Next]_(L!linkVars)
<1> SUFFICES ASSUME TypeOK, StartInv, [Next]_vars PROVE [L!Next]_(L!linkVars)
  OBVIOUS
<1>0. TypeOK'
  BY StepTypes
<1>1. ASSUME NEW e \in Ends, ReceiveAny(e) PROVE L!Next
  BY <1>0, <1>1, ReceiveLinks
<1>2. ASSUME NEW e \in Ends, Start(e) \/ Tick(e) \/ Load(e) \/ Greet(e)
      PROVE  [L!Next]_(L!linkVars)
  <2>1. UNCHANGED <<wire, held, IsCut>>
    <3>1. UNCHANGED <<wire, held, broken>>
      BY <1>2 DEF Start, Tick, Load, Greet
    <3>2. \A f \in Ends : place'[f] = "gone" <=> place[f] = "gone"
      BY <1>2 DEF Start, Go, Tick, Load, Greet, TypeOK
    <3> QED
      BY <3>1, <3>2 DEF IsCut
  <2>2. CASE UNCHANGED tx
    BY <2>1, <2>2 DEF L!linkVars, Mapped, Waiting
  <2>3. ASSUME NEW m \in Msgs, Put(e, m) PROVE [L!Next]_(L!linkVars)
    BY <2>1, <2>3, PutLinks
  <2>4. "HELLO" \in Msgs /\ "KEEPALIVE" \in Msgs /\ "UPDATE" \in Msgs
    BY DEF Msgs
  <2> QED
    BY <1>2, <2>2, <2>3, <2>4 DEF Start, Tick, Load, Greet
<1>3. ASSUME NEW e \in Ends, EndOfStream(e) \/ KeepaliveTimeout(e) \/ TriggerShutdown(e)
      PROVE  UNCHANGED L!linkVars
  <2>1. UNCHANGED <<tx, held, wire, broken>>
    BY <1>3 DEF EndOfStream, KeepaliveTimeout, TriggerShutdown
  <2>2. UNCHANGED place \/ (At(e) /\ Settles(e))
    BY <1>3, ResetTypes DEF EndOfStream, KeepaliveTimeout, TriggerShutdown
  <2>3. \A f \in Ends : place'[f] = "gone" <=> place[f] = "gone"
    BY <2>2 DEF Settles, At
  <2>4. IsCut' = IsCut
    BY <2>1, <2>3 DEF IsCut
  <2> QED
    BY <2>1, <2>4 DEF L!linkVars, Mapped, Waiting
<1>4. ASSUME NEW e \in Ends, SendNext(e) \/ FinishSend(e) PROVE UNCHANGED L!linkVars
  <2>1. IsCut' = IsCut
    <3>1. \A f \in Ends : place'[f] = "gone" <=> place[f] = "gone"
      BY <1>4 DEF SendNext, FinishSend, Written, Reset, Go, At, TypeOK
    <3>2. broken' = broken
      BY <1>4 DEF SendNext, FinishSend
    <3> QED
      BY <3>1, <3>2 DEF IsCut
  <2>2. CASE IsCut
    <3>1. wire' = wire
      BY <1>4, <2>2 DEF SendNext, FinishSend, Written
    <3> QED
      BY <2>1, <2>2, <3>1 DEF L!linkVars, Mapped
  <2>3. CASE ~IsCut
    BY <1>4, <2>1, <2>3, SendWaits DEF L!linkVars, Mapped
  <2> QED
    BY <2>2, <2>3
<1>a. ASSUME NEW e \in Ends, Shutdown(e), CleanupBlocks(e) PROVE UNCHANGED L!linkVars
  <2>1. UNCHANGED <<tx, held, wire, broken>> /\ At(e) /\ Go(e, "halfClosed")
    BY <1>a DEF Shutdown
  <2>2. \A f \in Ends : place'[f] = "gone" <=> place[f] = "gone"
    BY <2>1 DEF Go, At, TypeOK
  <2>3. IsCut' = IsCut
    BY <2>1, <2>2 DEF IsCut
  <2> QED
    BY <2>1, <2>3 DEF L!linkVars, Mapped, Waiting
<1>5. ASSUME NEW e \in Ends, Shutdown(e), ~CleanupBlocks(e) PROVE L!Next
  <2>1. IsCut'
    BY <1>5 DEF Shutdown, Go, IsCut, TypeOK
  <2>2. PICK n \in 0..Len(wire[e]) :
          wire' = [wire EXCEPT ![e] = SubSeq(@, 1, n), ![Other(e)] = <<>>]
    BY <1>5 DEF Shutdown
  <2>3. /\ Other(e) # e /\ Ends = {e, Other(e)}
        /\ wire'[e] = SubSeq(wire[e], 1, n) /\ wire'[Other(e)] = <<>>
    BY <2>2 DEF TypeOK, Ends, Other
  <2>4. wire[Other(e)] \in Texts
    BY <2>3 DEF TypeOK, Texts
  <2>5. SubSeq(wire[Other(e)], 1, 0) = <<>> /\ 0 \in 0..Len(wire[Other(e)])
    BY <2>4, LenText, SubSeqEmpty
  <2>6. \A f \in Ends : \E k \in 0..Len(wire[f]) : wire'[f] = SubSeq(wire[f], 1, k)
    BY <2>3, <2>5
  <2> QED
    BY <2>1, <2>6, LoseLinks DEF L!Next
<1>6. CASE Break
  <2>1. IsCut'
    BY <1>6 DEF Break, IsCut
  <2>2. PICK n \in 0..Len(wire["out"]), k \in 0..Len(wire["in"]) :
          wire' = [wire EXCEPT !["out"] = SubSeq(@, 1, n), !["in"] = SubSeq(@, 1, k)]
    BY <1>6 DEF Break
  <2>3. /\ wire'["out"] = SubSeq(wire["out"], 1, n)
        /\ wire'["in"] = SubSeq(wire["in"], 1, k)
    BY <2>2 DEF TypeOK, Ends
  <2>4. \A f \in Ends : \E j \in 0..Len(wire[f]) : wire'[f] = SubSeq(wire[f], 1, j)
    BY <2>3 DEF Ends
  <2> QED
    BY <2>1, <2>4, LoseLinks DEF L!Next
<1>7. CASE UNCHANGED vars
  BY <1>7 DEF vars, endVars, L!linkVars, Mapped, Waiting, IsCut
<1> QED
  BY <1>1, <1>2, <1>3, <1>4, <1>a, <1>5, <1>6, <1>7 DEF Next, EndNext, FrameArm

(* Nothing accepted for the other end is lost, repeated or overtaken while  *)
(* the connection stands, and of what is on its way when it is cut a        *)
(* beginning is still read: the channel, the message inside framed.send and *)
(* the socket are together one queue.                                       *)
THEOREM SessionImplementsLink == Spec => ImplementsLink
<1>1. Init => L!Init
  <2> SUFFICES ASSUME Init PROVE L!Init
    OBVIOUS
  <2>1. ~IsCut
    BY DEF Init, IsCut, Ends
  <2>2. \A e \in Ends : Waiting(e) = <<>>
    BY DEF Init, Waiting
  <2> QED
    BY <2>1, <2>2 DEF L!Init
<1> QED
  BY <1>1, StepLinks, SessionTypes, PTL DEF Spec, ImplementsLink, L!Spec

-----------------------------------------------------------------------------
(* Two ends that both wait inside framed.send for the other to read wait    *)
(* for ever, whatever timers fire, signals are given and messages are sent: *)
(* only the loss of the connection ends it.  It is what the liveness        *)
(* properties except.                                                       *)
THEOREM MutualSendStays == Spec => [][MutualSend => MutualSend' \/ broken']_vars
<1>1. TypeOK /\ [Next]_vars => (MutualSend => MutualSend' \/ broken')
  <2> SUFFICES ASSUME TypeOK, [Next]_vars, MutualSend PROVE MutualSend' \/ broken'
    OBVIOUS
  <2> USE DEF MutualSend, vars, endVars
  <2>1. /\ ~IsCut /\ SockCap \in Nat
        /\ \A e \in Ends : /\ ~At(e) /\ place[e] # "start" /\ Len(wire[e]) = SockCap
    BY CapsOK DEF IsCut, At
  <2>2. ASSUME NEW e \in Ends, EndNext(e) PROVE UNCHANGED <<broken, place, wire>>
    <3>1. ~FrameArm(e) /\ ~Start(e)
      BY <2>1 DEF FrameArm, ReceiveAny, ReceiveHello, ReceiveKeepalive, ReceiveUpdate,
                  Receive, EndOfStream, Start
    <3>2. ~SendNext(e) /\ ~Tick(e) /\ ~KeepaliveTimeout(e) /\ ~Shutdown(e) /\ ~Greet(e)
      BY <2>1 DEF SendNext, Tick, KeepaliveTimeout, Shutdown, Greet
    <3>3. ~FinishSend(e)
      BY <2>1 DEF FinishSend, Written
    <3>4. Load(e) \/ TriggerShutdown(e)
      BY <2>2, <3>1, <3>2, <3>3 DEF EndNext
    <3> QED
      BY <3>4 DEF Load, TriggerShutdown
  <2>3. CASE Break
    BY <2>3 DEF Break
  <2> QED
    BY <2>2, <2>3 DEF Next
<1> QED
  BY <1>1, SessionTypeCorrect, PTL DEF Spec
=============================================================================
