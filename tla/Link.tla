-------------------------------- MODULE Link --------------------------------
(* What a connection promises the rest of the program, and what the views   *)
(* in MetalBondState rely on: the messages accepted for the other end are  *)
(* read there in order and without a gap, until the connection is cut;     *)
(* after that, what is still read is a beginning of what was on its way.   *)
EXTENDS Naturals, Sequences

CONSTANTS Ends, Other(_)

VARIABLES queue, \* queue[e]: accepted from end e and not yet read by the other
          cut

linkVars == <<queue, cut>>

Begins(s, t) == Len(s) <= Len(t) /\ s = SubSeq(t, 1, Len(s))

Init == /\ queue = [e \in Ends |-> <<>>]
        /\ cut = FALSE

(* An end reads at most one message, and messages may be accepted from it, *)
(* its answers among them.                                                 *)
Relay(e) ==
    /\ ~cut /\ ~cut'
    /\ Begins(queue[e], queue'[e])
    /\ \/ queue'[Other(e)] = queue[Other(e)]
       \/ queue[Other(e)] # <<>> /\ queue'[Other(e)] = Tail(queue[Other(e)])

Lose == cut' /\ \A e \in Ends : Begins(queue'[e], queue[e])

ReadRest(e) ==
    /\ cut /\ cut'
    /\ queue[e] # <<>> /\ queue' = [queue EXCEPT ![e] = Tail(@)]

Next == Lose \/ \E e \in Ends : Relay(e) \/ ReadRest(e)

Spec == Init /\ [][Next]_linkVars
=============================================================================
