----------------------------- MODULE RouteStore -----------------------------
(* What a route table promises its callers.                                *)
(* A path is one (VNI, destination, next hop) triple; the table records    *)
(* for every path the set of sources that announce it: peers, or Local for *)
(* a route of this instance.  RouteTable.tla, the nested hash maps of the  *)
(* code, is shown to implement this specification.                         *)
EXTENDS Naturals, FiniteSets

CONSTANTS Paths,   \* the (VNI, destination, next hop) triples
          Keys     \* who may announce a path

VARIABLES holders, \* holders[path]: the sources that announce path
          reply    \* what the last operation returned

NoReply == [ok |-> FALSE, left |-> 0, paths |-> {}]

Init == /\ holders = [path \in Paths |-> {}]
        /\ reply = NoReply

\* One more source for a path; the reply says whether it was new.
AddNextHop(path, key) ==
    /\ holders' = [holders EXCEPT ![path] = @ \cup {key}]
    /\ reply' = [NoReply EXCEPT !.ok = key \notin holders[path]]

\* One source less; the reply counts those that still announce the path.
RemoveNextHop(path, key) ==
    /\ key \in holders[path]
    /\ holders' = [holders EXCEPT ![path] = @ \ {key}]
    /\ reply' = [NoReply EXCEPT !.ok = TRUE,
                                !.left = Cardinality(holders[path] \ {key})]

\* Nothing to remove: an error reply, and the table stays as it is.
RemoveNothing(path, key) ==
    /\ key \notin holders[path]
    /\ reply' = NoReply
    /\ UNCHANGED holders

\* Every path loses this source; the reply lists the paths that had it.
RemoveRoutesFromPeer(key) ==
    /\ holders' = [path \in Paths |-> holders[path] \ {key}]
    /\ reply' = [NoReply EXCEPT
                   !.paths = {path \in Paths : key \in holders[path]}]

Next == \E key \in Keys :
           \/ RemoveRoutesFromPeer(key)
           \/ \E path \in Paths : \/ AddNextHop(path, key)
                                  \/ RemoveNextHop(path, key)
                                  \/ RemoveNothing(path, key)

Spec == Init /\ [][Next]_<<holders, reply>>
=============================================================================
