------------------------------ MODULE Session ------------------------------
(* The two ends of one connection: handle_peer at the end that opened it   *)
(* ("out") and at the end that accepted it ("in"), with the channel to     *)
(* each task, the sockets and the keepalive timers (src/peer.rs).  What    *)
(* the handlers do with routes is in Peer.tla; here "UPDATE" stands for    *)
(* every message that leaves the state of the connection alone.  A cleanup *)
(* that blocks itself keeps its task here; what it does to the rest of its *)
(* instance, and other waits for the lock of the state, is in Lifecycle.   *)
EXTENDS Naturals, Sequences

CONSTANTS
    TxCap,       \* capacity of the channel to a peer's task
    SockCap,     \* messages that fit between a sender and a reader
    GreeterSets, \* sets of ends run by an implementation that sends the
                 \* first KEEPALIVE; this one does not
    NoMsg        \* no message

Ends == {"out", "in"}
Other(e) == IF e = "out" THEN "in" ELSE "out"
Msgs == {"HELLO", "KEEPALIVE", "UPDATE"}

ASSUME CapsOK == /\ TxCap \in Nat \ {0} /\ SockCap \in Nat \ {0}
                 /\ GreeterSets \subseteq SUBSET Ends /\ NoMsg \notin Msgs

VARIABLES
    greets,     \* the ends of another implementation
    conn,       \* Peer.state
    place,      \* where handle_peer is: before its loop, in select, inside
                \* framed.send, in a cleanup that never ends with the socket
                \* open or closed for writing, returned
    tx,         \* tx_receiver's channel
    held,       \* the message inside framed.send
    permit,     \* shutdown_signal holds a permit
    subscribed, \* the accepting end knows the other as a subscriber
    wire,       \* wire[e]: written by e and not yet read by the other end
    broken      \* the network lost the connection

endVars == <<conn, place, tx, held, permit>>
vars == <<greets, endVars, subscribed, wire, broken>>

States == {"Connecting", "HelloSent", "HelloReceived", "Established", "Closed"}
Places == {"start", "select", "sending", "wedged", "halfClosed", "gone"}

Init ==
    /\ greets \in GreeterSets
    /\ conn = [e \in Ends |-> "Connecting"]
    /\ place = [e \in Ends |-> "start"]
    /\ tx = [e \in Ends |-> <<>>] /\ held = [e \in Ends |-> NoMsg]
    /\ permit = [e \in Ends |-> FALSE]
    /\ subscribed = FALSE
    /\ wire = [e \in Ends |-> <<>>] /\ broken = FALSE

(* Every variable has its type, both buffers keep to their capacity, and   *)
(* a message is held exactly while its task is inside framed.send.         *)
TypeOK ==
    /\ greets \in SUBSET Ends
    /\ conn \in [Ends -> States] /\ place \in [Ends -> Places]
    /\ tx \in [Ends -> Seq(Msgs)] /\ \A e \in Ends : Len(tx[e]) <= TxCap
    /\ held \in [Ends -> Msgs \cup {NoMsg}]
    /\ \A e \in Ends : held[e] # NoMsg <=> place[e] = "sending"
    /\ permit \in [Ends -> BOOLEAN]
    /\ subscribed \in BOOLEAN /\ broken \in BOOLEAN
    /\ wire \in [Ends -> Seq(Msgs)] /\ \A e \in Ends : Len(wire[e]) <= SockCap

-----------------------------------------------------------------------------
At(e)      == place[e] = "select"
Wedged(e)  == place[e] \in {"wedged", "halfClosed"}
Go(e, p)   == place' = [place EXCEPT ![e] = p]

\* Mutant: one message too many.
HasRoomOneOver(e) == Len(tx[e]) <= TxCap
HasRoom(e) == Len(tx[e]) < TxCap

\* Mutant: the message overtakes those that wait.
PutFirst(e, m) == tx' = [tx EXCEPT ![e] = <<m>> \o @]
Put(e, m) == tx' = [tx EXCEPT ![e] = Append(@, m)]
Enter(e, state) == conn' = [conn EXCEPT ![e] = state]
Signal(e) == permit' = [permit EXCEPT ![e] = TRUE]

(* set_state(Closed) of an Established end runs cleanup_peer_state, which  *)
(* keeps a guard of the state for reading and, for a peer that subscribed, *)
(* asks for one for writing: it never gets it.                             *)
CleanupBlocks(e) == conn[e] = "Established" /\ e = "in" /\ subscribed'

\* Mutant: the state is set, the shutdown not triggered.
ResetUnsignalled(e) == Enter(e, "Closed") /\ Go(e, "select") /\ UNCHANGED permit

\* set_state(Closed) and trigger_shutdown: the loop goes on until it sees it.
Reset(e) ==
    /\ Enter(e, "Closed")
    /\ \/ CleanupBlocks(e) /\ Go(e, "wedged") /\ UNCHANGED permit
       \/ ~CleanupBlocks(e) /\ Go(e, "select") /\ Signal(e)

\* The HELLO that handle_peer sends before its loop, for an outgoing one.
Start(e) ==
    /\ place[e] = "start"
    /\ Go(e, "select")
    /\ \/ e = "out" /\ Put(e, "HELLO") /\ Enter(e, "HelloSent")
       \/ e = "in" /\ UNCHANGED <<tx, conn>>
    /\ UNCHANGED <<greets, held, permit, subscribed, wire, broken>>

-----------------------------------------------------------------------------
(* The frame arm.  A message is read off the socket and handled at once.   *)
Receive(e, m) ==
    /\ At(e) /\ wire[Other(e)] # <<>> /\ m = Head(wire[Other(e)])
    /\ wire' = [wire EXCEPT ![Other(e)] = Tail(@)]
    /\ UNCHANGED <<greets, held, broken>>

ReceiveHello(e) ==
    /\ Receive(e, "HELLO") /\ UNCHANGED subscribed
    /\ LET answers == e = "in" /\ conn[e] \in {"Connecting", "HelloReceived"}
           learns  == e = "out" /\ conn[e] = "HelloSent"
       IN  \/ answers /\ HasRoom(e) /\ Put(e, "HELLO") /\ Enter(e, "HelloSent")
              /\ UNCHANGED <<place, permit>>
           \/ answers /\ ~HasRoom(e) /\ Reset(e) /\ UNCHANGED tx
           \/ learns /\ Enter(e, "HelloReceived") /\ UNCHANGED <<tx, place, permit>>
           \/ ~answers /\ ~learns /\ UNCHANGED <<tx, conn, place, permit>>

(* set_state(Established): the client sends what it subscribes to and      *)
(* announces, then both timers start, then it sends its KEEPALIVE; what    *)
(* finds the channel full is dropped and the connection told to end.  A    *)
(* server has nothing to send: the program subscribes and announces at a   *)
(* client only (main.rs:228-272).                                          *)
MaxFirstUpdates == 2 \* bound, one more than fits with a KEEPALIVE if TxCap = 2
FirstSends(e) ==
    IF e = "in" THEN {<<>>}
    ELSE {Append([i \in 1..n |-> "UPDATE"], "KEEPALIVE") : n \in 0..MaxFirstUpdates}

Establish(e) ==
    /\ Enter(e, "Established")
    /\ \E s \in FirstSends(e) :
          LET all == tx[e] \o s
          IN  /\ tx' = [tx EXCEPT ![e] = SubSeq(all, 1, IF Len(all) > TxCap THEN TxCap
                                                                           ELSE Len(all))]
              /\ IF Len(all) > TxCap THEN Signal(e) ELSE UNCHANGED permit
    /\ UNCHANGED place

\* Mutant: the end that opened it does not wait for the answer to its HELLO.
BeforeAnyHello(e) == "HelloSent"

\* The state in which the first KEEPALIVE finds an end.
Before(e) == IF e = "in" THEN "HelloSent" ELSE "HelloReceived"

\* Mutant: the other end answers.
AnswersSwapped(e) == e = "out"

\* Once Established, the end that accepted the connection answers KEEPALIVEs.
Answers(e) == e = "in"

ReceiveKeepalive(e) ==
    /\ Receive(e, "KEEPALIVE") /\ UNCHANGED subscribed
    /\ LET answers == conn[e] = "Established" /\ Answers(e)
           ignores == conn[e] = "Established" /\ ~Answers(e)
       IN  \/ conn[e] = Before(e) /\ Establish(e)
           \/ answers /\ HasRoom(e) /\ Put(e, "KEEPALIVE") /\ UNCHANGED <<conn, place, permit>>
           \/ answers /\ ~HasRoom(e) /\ Reset(e) /\ UNCHANGED tx
           \/ ignores /\ UNCHANGED <<tx, conn, place, permit>>
           \/ conn[e] \notin {Before(e), "Established"} /\ Reset(e) /\ UNCHANGED tx

(* The other end subscribes, unsubscribes, or sends a route.  The handler  *)
(* may fail, for instance in a replay that finds the channel full.         *)
ReceiveUpdate(e) ==
    /\ Receive(e, "UPDATE")
    /\ subscribed' \in IF e = "in" THEN BOOLEAN ELSE {subscribed}
    /\ \/ UNCHANGED <<conn, place, permit>>
       \/ Reset(e)
    /\ UNCHANGED tx

ReceiveAny(e) == ReceiveHello(e) \/ ReceiveKeepalive(e) \/ ReceiveUpdate(e)

IsCut == broken \/ \E e \in Ends : place[e] = "gone"

EndOfStream(e) ==
    /\ At(e) /\ wire[Other(e)] = <<>> /\ (IsCut \/ place[Other(e)] = "halfClosed")
    /\ UNCHANGED <<greets, tx, held, subscribed, wire, broken>>
    /\ Reset(e)

-----------------------------------------------------------------------------
(* The other arms.  framed.send is awaited inside its arm: while the       *)
(* socket is full, the task neither reads nor sees a signal.               *)
Written(e, m) ==
    \/ /\ ~IsCut /\ Len(wire[e]) < SockCap
       /\ wire' = [wire EXCEPT ![e] = Append(@, m)]
       /\ Go(e, "select") /\ UNCHANGED <<conn, permit>>
    \/ /\ IsCut \* the message is lost, or the send fails
       /\ (Go(e, "select") /\ UNCHANGED <<conn, permit>>) \/ Reset(e)
       /\ UNCHANGED wire

SendNext(e) ==
    /\ At(e) /\ tx[e] # <<>>
    /\ tx' = [tx EXCEPT ![e] = Tail(@)]
    /\ UNCHANGED <<greets, subscribed, broken>>
    /\ \/ Written(e, Head(tx[e])) /\ UNCHANGED held
       \/ /\ ~IsCut /\ Len(wire[e]) = SockCap
          /\ held' = [held EXCEPT ![e] = Head(tx[e])]
          /\ Go(e, "sending")
          /\ UNCHANGED <<conn, permit, wire>>

FinishSend(e) ==
    /\ place[e] = "sending"
    /\ held' = [held EXCEPT ![e] = NoMsg]
    /\ UNCHANGED <<greets, tx, subscribed, broken>>
    /\ Written(e, held[e])

(* The interval timer, which starts with Established.  At an accepting end *)
(* it sends nothing, but its arm wins there too.                           *)
\* Mutant: the timer starts with the answer to the HELLO.
TicksEarly(e) == conn[e] \in {"HelloReceived", "Established"}
Ticks(e) == conn[e] = "Established"

Tick(e) ==
    /\ At(e) /\ Ticks(e)
    /\ \/ e = "out" /\ HasRoom(e) /\ Put(e, "KEEPALIVE") /\ UNCHANGED permit
       \/ e = "out" /\ ~HasRoom(e) /\ Signal(e) /\ UNCHANGED tx
       \/ e = "in" /\ UNCHANGED <<tx, permit>>
    /\ UNCHANGED conn
    /\ UNCHANGED <<greets, place, held, subscribed, wire, broken>>

(* The timer is taken out of its Option when select first polls this arm,  *)
(* and is lost if another arm wins then, which depends on select's random  *)
(* order; whether it still runs is left open here, and nothing below       *)
(* counts on a timeout that fires.                                         *)
KeepaliveTimeout(e) ==
    /\ At(e) /\ conn[e] = "Established"
    /\ UNCHANGED <<greets, tx, held, subscribed, wire, broken>>
    /\ Reset(e)

(* The signal is seen, the socket closed for writing, and Closed set.      *)
(* Then the task returns and drops the socket: what the other end had sent *)
(* is gone, and what was sent to it may go with it.                        *)
Shutdown(e) ==
    /\ At(e) /\ permit[e]
    /\ permit' = [permit EXCEPT ![e] = FALSE]
    /\ Enter(e, "Closed")
    /\ UNCHANGED <<greets, held, subscribed, broken>>
    /\ \/ CleanupBlocks(e) /\ Go(e, "halfClosed") /\ UNCHANGED <<tx, wire>>
       \/ /\ ~CleanupBlocks(e) /\ Go(e, "gone")
          /\ tx' = [tx EXCEPT ![e] = <<>>]
          /\ \E n \in 0..Len(wire[e]) :
                wire' = [wire EXCEPT ![e] = SubSeq(@, 1, n), ![Other(e)] = <<>>]

-----------------------------------------------------------------------------
(* The rest of the instance, the network and the other implementation.     *)

(* Other tasks send: a client when it is Established, a server to its      *)
(* subscribers.  Bound: the channel is empty, the connection stands.       *)
\* Mutant: sends without looking at the state.
LoadableEarly(e) == conn[e] \in {"HelloReceived", "Established"} /\ (e = "in" => subscribed)

Loadable(e) == conn[e] = "Established" /\ (e = "in" => subscribed)

Load(e) ==
    /\ Loadable(e) /\ tx[e] = <<>> /\ ~IsCut
    /\ Put(e, "UPDATE")
    /\ UNCHANGED <<greets, conn, place, held, permit, subscribed,
                   wire, broken>>

\* remove_peer or shutdown.  Bound: at an end whose connection stands.
TriggerShutdown(e) ==
    /\ ~IsCut /\ (\A f \in Ends : ~permit[f]) /\ Signal(e)
    /\ UNCHANGED <<greets, conn, place, tx, held, subscribed,
                   wire, broken>>

Break ==
    /\ ~IsCut /\ broken' = TRUE
    /\ \E n \in 0..Len(wire["out"]), k \in 0..Len(wire["in"]) :
          wire' = [wire EXCEPT !["out"] = SubSeq(@, 1, n), !["in"] = SubSeq(@, 1, k)]
    /\ UNCHANGED <<greets, endVars, subscribed>>

\* It repeats its KEEPALIVE until the handshake is done.  Bound: one at a time.
Greet(e) ==
    /\ e \in greets /\ At(e) /\ conn[e] = Before(e) /\ tx[e] = <<>>
    /\ Put(e, "KEEPALIVE")
    /\ UNCHANGED <<greets, conn, place, held, permit, subscribed,
                   wire, broken>>
-----------------------------------------------------------------------------
FrameArm(e) == ReceiveAny(e) \/ EndOfStream(e)

EndNext(e) ==
    \/ Start(e) \/ FrameArm(e)
    \/ SendNext(e) \/ FinishSend(e)
    \/ Tick(e) \/ KeepaliveTimeout(e) \/ Shutdown(e)
    \/ Load(e) \/ TriggerShutdown(e) \/ Greet(e)

Next == Break \/ \E e \in Ends : EndNext(e)

Spec == Init /\ [][Next]_vars

(* The runtime runs both tasks, and select picks among the arms that are   *)
(* ready at random: none of them is passed over for ever.  The socket      *)
(* delivers.  Timers, load, signals and breaks are not fair.               *)
Fairness ==
    \A e \in Ends :
        /\ WF_vars(Start(e) \/ FinishSend(e) \/ Greet(e))
        /\ SF_vars(FrameArm(e)) /\ SF_vars(SendNext(e)) /\ SF_vars(Shutdown(e))

FairSpec == Spec /\ Fairness

-----------------------------------------------------------------------------
(* An Established end never faces one that has not come through the HELLOs *)
(* yet: what it sends is not taken for a message out of order.             *)
EstablishedAgree ==
    /\ conn["out"] = "Established" => conn["in"] \in {"HelloSent", "Established", "Closed"}
    /\ conn["in"] = "Established" => conn["out"] \in {"HelloReceived", "Established", "Closed"}

(* Between two ends of this implementation no connection is ever           *)
(* Established: each sends its first KEEPALIVE in reaction to one          *)
(* (peer.rs:306-325 and 548).                                              *)
NobodyGreetsFirst == greets = {} => \A e \in Ends : conn[e] # "Established"

(* If the end that opened the connection is the one that greets, every     *)
(* SUBSCRIBE and UPDATE finds an Established end, or one already Closed:   *)
(* the handlers do not check it, and cleanup_peer_state undoes what they   *)
(* did only for a connection that was Established.                         *)
UpdatesFindEstablished ==
    [][greets \subseteq {"out"} =>
          \A e \in Ends : ReceiveUpdate(e) => conn[e] \in {"Established", "Closed"}]_vars

(* Nothing accepted for the other end is lost, repeated or overtaken while *)
(* the connection stands: refinement of Link.                              *)
Waiting(e) == wire[e] \o (IF held[e] = NoMsg THEN <<>> ELSE <<held[e]>>) \o tx[e]
L == INSTANCE Link WITH queue <- [e \in Ends |-> IF IsCut THEN wire[e] ELSE Waiting(e)],
                        cut <- IsCut
ImplementsLink == L!Spec

\* Each end waits, inside framed.send, for the other to read.
MutualSend == /\ ~broken
              /\ \A e \in Ends : place[e] = "sending" /\ Len(wire[e]) = SockCap

(* It waits inside framed.send for an end that will never read again.      *)
Unread(e) ==
    \/ MutualSend
    \/ ~broken /\ place[e] = "sending" /\ Len(wire[e]) = SockCap /\ Wedged(Other(e))

(* An end that is told to end the connection, loses it, or reads to the    *)
(* end of what the other sent before it closed, ends, however much it has  *)
(* to send, unless it is stuck in a send nobody reads.  An accepting end   *)
(* whose peer has subscribed does not return then: its cleanup blocks.     *)
MustEnd(e) == permit[e] \/ IsCut \/ place[Other(e)] = "halfClosed"
Ended(e)   == place[e] = "gone" \/ Wedged(e)
SignalsEndConnections == \A e \in Ends : MustEnd(e) ~> Ended(e) \/ Unread(e)

(* With one end that greets, the handshake completes, unless the           *)
(* connection is lost or told to end.                                      *)
Disturbed == \/ broken \/ MutualSend
             \/ \E e \in Ends : permit[e] \/ conn[e] = "Closed"
HandshakeCompletes ==
    greets # {} => <>((\A e \in Ends : conn[e] = "Established") \/ Disturbed)

=============================================================================
