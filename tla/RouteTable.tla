----------------------------- MODULE RouteTable -----------------------------
(* src/routetable.rs: the route table as the code keeps it, a hash map of  *)
(* hash maps VNI -> destination -> next hop -> set of sources.  Its        *)
(* operations each run under the table's own lock, so each is one action.  *)
(* A hash map is a function whose domain is the set of its keys.           *)
EXTENDS Naturals, FiniteSets

CONSTANTS Vnis, Dests, Hops, \* network identifiers, prefixes, next hops
          Peers,             \* addresses of peers
          Local              \* the None key: announced by this instance

ASSUME LocalIsNoPeer == Local \notin Peers

VARIABLES routes,            \* the nested map
          reply              \* what the last operation returned

vars == <<routes, reply>>

Keys  == Peers \cup {Local}
Paths == Vnis \X Dests \X Hops

EmptyMap == [x \in {} |-> {}]

-----------------------------------------------------------------------------
(* Hash map operations: get(k).unwrap_or_default(), insert, remove, and    *)
(* the removal of an entry whose value became empty.                       *)
Lookup(map, k, default) == IF k \in DOMAIN map THEN map[k] ELSE default
Put(map, k, value) == [x \in DOMAIN map \cup {k} |-> IF x = k THEN value ELSE map[x]]
Drop(map, k)       == [x \in DOMAIN map \ {k} |-> map[x]]

PutAlways(map, k, set) == Put(map, k, set) \* mutant: an empty set stays

PutOrPruneSet(map, k, set) == IF set = {} THEN Drop(map, k) ELSE Put(map, k, set)
PutOrPruneMap(map, k, sub) == IF DOMAIN sub = {} THEN Drop(map, k) ELSE Put(map, k, sub)

DestMap(v)       == Lookup(routes, v, EmptyMap)
HopMap(v, d)     == Lookup(DestMap(v), d, EmptyMap)
PeerSet(v, d, h) == Lookup(HopMap(v, d), h, {})

-----------------------------------------------------------------------------
(* The queries.                                                            *)
GetVnis == DOMAIN routes

GetDestinationsByVni(v) == [d \in DOMAIN DestMap(v) |-> DOMAIN HopMap(v, d)]

GetDestinationsByVniWithPeer(v) == DestMap(v)

GetNextHopsByDestination(v, d) == DOMAIN HopMap(v, d)

NextHopExists(v, d, h, key) == key \in PeerSet(v, d, h)

LocalHops(v, d) == {h \in DOMAIN HopMap(v, d) : Local \in PeerSet(v, d, h)}
AllDests(v)     == DOMAIN DestMap(v) \* mutant: no filter

LocalDests(v)   == {d \in DOMAIN DestMap(v) : LocalHops(v, d) # {}}
GetLocalAnnouncements ==
    [v \in {w \in DOMAIN routes : LocalDests(w) # {}} |->
        [d \in LocalDests(v) |-> LocalHops(v, d)]]

-----------------------------------------------------------------------------
NoReply == [ok |-> FALSE, left |-> 0, paths |-> {}]

Init == /\ routes = EmptyMap
        /\ reply = NoReply

AddNextHop(v, d, h, key) ==
    /\ routes' = Put(routes, v,
                     Put(DestMap(v), d,
                         Put(HopMap(v, d), h, PeerSet(v, d, h) \cup {key})))
    /\ reply' = [NoReply EXCEPT !.ok = ~NextHopExists(v, d, h, key)]

\* The set loses the source, then every level that became empty is removed.
RemoveNextHop(v, d, h, key) ==
    LET rest == PeerSet(v, d, h) \ {key}
        hops == PutOrPruneSet(HopMap(v, d), h, rest)
        dests == PutOrPruneMap(DestMap(v), d, hops)
    IN  /\ NextHopExists(v, d, h, key)
        /\ routes' = PutOrPruneMap(routes, v, dests)
        /\ reply' = [NoReply EXCEPT !.ok = TRUE, !.left = Cardinality(rest)]

\* One of the levels is missing, or the source is not in the set: an error.
RemoveNothing(v, d, h, key) ==
    /\ ~NextHopExists(v, d, h, key)
    /\ reply' = NoReply
    /\ UNCHANGED routes

\* Mutant: an entry goes when the peer was among its sources, not when it was the last.
HopsNotOf(hops, peer) ==
    [h \in {g \in DOMAIN hops : peer \notin hops[g]} |-> hops[h]]

\* The three nested loops of remove_routes_from_peer.
HopsWithout(hops, peer) ==
    [h \in {g \in DOMAIN hops : hops[g] \ {peer} # {}} |-> hops[h] \ {peer}]
DestsWithout(dests, peer) ==
    [d \in {e \in DOMAIN dests : DOMAIN HopsWithout(dests[e], peer) # {}} |->
        HopsWithout(dests[d], peer)]
RoutesWithout(peer) ==
    [v \in {w \in DOMAIN routes : DOMAIN DestsWithout(routes[w], peer) # {}} |->
        DestsWithout(routes[v], peer)]

RemoveRoutesFromPeer(peer) ==
    /\ routes' = RoutesWithout(peer)
    /\ reply' = [NoReply EXCEPT
                   !.paths = {path \in Paths :
                                NextHopExists(path[1], path[2], path[3], peer)}]

Next ==
    \/ \E peer \in Peers : RemoveRoutesFromPeer(peer)
    \/ \E v \in Vnis, d \in Dests, h \in Hops, key \in Keys :
          \/ AddNextHop(v, d, h, key)
          \/ RemoveNextHop(v, d, h, key)
          \/ RemoveNothing(v, d, h, key)

Spec == Init /\ [][Next]_vars

-----------------------------------------------------------------------------
(* Every level of the map has keys of its kind, and the sets hold sources. *)
(* The types of the code grant as much; the proofs rest on it.             *)
TypeOK ==
    /\ DOMAIN routes \subseteq Vnis
    /\ \A v \in DOMAIN routes :
         /\ DOMAIN routes[v] \subseteq Dests
         /\ \A d \in DOMAIN routes[v] :
              /\ DOMAIN routes[v][d] \subseteq Hops
              /\ \A h \in DOMAIN routes[v][d] : routes[v][d][h] \subseteq Keys
    /\ reply \in [ok : BOOLEAN, left : Nat, paths : SUBSET Paths]

(* The pruning discipline: no operation leaves an empty set or an empty    *)
(* inner map behind, at any level, whatever was removed and in what order. *)
(* get_vnis and the query for destinations list keys, so an entry left     *)
(* behind is a VNI or a prefix that they report and nobody announces.      *)
NoEmptyMaps ==
    \A v \in DOMAIN routes :
        /\ DOMAIN routes[v] # {}
        /\ \A d \in DOMAIN routes[v] :
             /\ DOMAIN routes[v][d] # {}
             /\ \A h \in DOMAIN routes[v][d] : routes[v][d][h] # {}

-----------------------------------------------------------------------------
(* What the table stands for: the sources of each path.                    *)
HoldersOf == [path \in Paths |-> PeerSet(path[1], path[2], path[3])]

Store == INSTANCE RouteStore WITH holders <- HoldersOf

(* The nested maps behave as the flat table: each operation changes the    *)
(* sources of exactly the paths it names, and replies what the flat table  *)
(* replies (was it new, how many sources are left, which paths were lost). *)
ImplementsStore == Store!Spec

(* The queries answer for the flat table: a VNI, a destination or a next   *)
(* hop is listed exactly when some source announces it, and the local      *)
(* announcements are the paths whose sources include Local.                *)
QueriesAgree ==
    LET Announced(v, d, h) == HoldersOf[<<v, d, h>>] # {}
        Locally(v, d, h)   == Local \in HoldersOf[<<v, d, h>>]
    IN  /\ GetVnis = {v \in Vnis : \E d \in Dests, h \in Hops : Announced(v, d, h)}
        /\ \A v \in Vnis :
             /\ GetDestinationsByVni(v) =
                  [d \in {e \in Dests : \E h \in Hops : Announced(v, e, h)} |->
                      {h \in Hops : Announced(v, d, h)}]
             /\ \A d \in DOMAIN GetDestinationsByVniWithPeer(v) :
                  GetDestinationsByVniWithPeer(v)[d] =
                     [h \in GetNextHopsByDestination(v, d) |-> HoldersOf[<<v, d, h>>]]
             /\ \A d \in Dests :
                  GetNextHopsByDestination(v, d) = {h \in Hops : Announced(v, d, h)}
        /\ GetLocalAnnouncements =
             [v \in {w \in Vnis : \E d \in Dests, h \in Hops : Locally(w, d, h)} |->
                [d \in {e \in Dests : \E h \in Hops : Locally(v, e, h)} |->
                    {h \in Hops : Locally(v, d, h)}]]
=============================================================================
