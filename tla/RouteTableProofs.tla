-------------------------- MODULE RouteTableProofs --------------------------
(* What RouteTable promises for any number of VNIs, destinations, next hops *)
(* and peers: its maps keep their shape, no level keeps an empty entry, and *)
(* it implements the flat table of RouteStore.                              *)
EXTENDS RouteTable, FiniteSetTheorems, TLAPS

-----------------------------------------------------------------------------
(* The hash map operations, by what a lookup finds afterwards.              *)

(* insert: the key has the value, every other key what it had.              *)
LEMMA LookupPut ==
  ASSUME NEW map, NEW k, NEW value, NEW x, NEW default
  PROVE  Lookup(Put(map, k, value), x, default) =
            IF x = k THEN value ELSE Lookup(map, x, default)
BY DEF Lookup, Put

(* A set that became empty reads like an entry that is not there.           *)
LEMMA LookupPrunedSet ==
  ASSUME NEW map, NEW k, NEW set, NEW x
  PROVE  Lookup(PutOrPruneSet(map, k, set), x, {}) =
            IF x = k THEN set ELSE Lookup(map, x, {})
BY DEF PutOrPruneSet, Lookup, Put, Drop

(* So does an inner map that became empty.                                  *)
LEMMA LookupPrunedMap ==
  ASSUME NEW map, NEW k, NEW sub, NEW x, NEW y, NEW default
  PROVE  Lookup(Lookup(PutOrPruneMap(map, k, sub), x, EmptyMap), y, default) =
            IF x = k THEN Lookup(sub, y, default)
                     ELSE Lookup(Lookup(map, x, EmptyMap), y, default)
<1>1. CASE DOMAIN sub = {}
  <2>1. CASE x = k
    BY <1>1, <2>1 DEF PutOrPruneMap, Lookup, Drop, EmptyMap
  <2>2. CASE x # k
    BY <1>1, <2>2 DEF PutOrPruneMap, Lookup, Drop
  <2> QED
    BY <2>1, <2>2
<1>2. CASE DOMAIN sub # {}
  BY <1>2, LookupPut DEF PutOrPruneMap
<1> QED
  BY <1>1, <1>2

-----------------------------------------------------------------------------
(* The inductive invariant: every level has keys of its kind and no empty   *)
(* entry, and a set of sources is finite, so that counting it is a number.  *)
SourcesGood(set) == set # {} /\ set \subseteq Keys /\ IsFiniteSet(set)
HopsGood(hops) ==
    /\ DOMAIN hops \subseteq Hops
    /\ hops = [h \in DOMAIN hops |-> hops[h]]
    /\ \A h \in DOMAIN hops : SourcesGood(hops[h])
DestsGood(dests) ==
    /\ DOMAIN dests \subseteq Dests
    /\ \A d \in DOMAIN dests : DOMAIN dests[d] # {} /\ HopsGood(dests[d])
RoutesGood ==
    /\ DOMAIN routes \subseteq Vnis
    /\ \A v \in DOMAIN routes : DOMAIN routes[v] # {} /\ DestsGood(routes[v])
TableInv == RoutesGood /\ reply \in [ok : BOOLEAN, left : Nat, paths : SUBSET Paths]

(* What the lookups find in a good table, present or not.                   *)
LEMMA LookupsGood ==
  ASSUME RoutesGood, NEW v \in Vnis, NEW d \in Dests, NEW h \in Hops
  PROVE  /\ DestsGood(DestMap(v))
         /\ HopsGood(HopMap(v, d))
         /\ PeerSet(v, d, h) \subseteq Keys /\ IsFiniteSet(PeerSet(v, d, h))
<1>1. DestsGood(DestMap(v))
  BY DEF RoutesGood, DestMap, Lookup, EmptyMap, DestsGood
<1>2. HopsGood(HopMap(v, d))
  BY <1>1 DEF DestsGood, HopMap, Lookup, EmptyMap, HopsGood
<1>3. PeerSet(v, d, h) = {} \/ SourcesGood(PeerSet(v, d, h))
  BY <1>2 DEF HopsGood, PeerSet, Lookup
<1> QED
  BY <1>1, <1>2, <1>3, FS_EmptySet DEF SourcesGood

(* add_next_hop keeps the table good.                                       *)
LEMMA AddGood ==
  ASSUME TableInv, NEW v \in Vnis, NEW d \in Dests, NEW h \in Hops, NEW key \in Keys,
         AddNextHop(v, d, h, key)
  PROVE  TableInv'
<1> DEFINE set   == PeerSet(v, d, h) \cup {key}
           hops  == Put(HopMap(v, d), h, set)
           dests == Put(DestMap(v), d, hops)
<1>1. RoutesGood
  BY DEF TableInv
<1>2. SourcesGood(set)
  BY <1>1, LookupsGood, FS_AddElement DEF SourcesGood
<1> HIDE DEF set
<1>3. HopsGood(hops) /\ DOMAIN hops # {}
  BY <1>1, <1>2, LookupsGood DEF HopsGood, Put
<1> HIDE DEF hops
<1>4. DestsGood(dests) /\ DOMAIN dests # {}
  BY <1>1, <1>3, LookupsGood DEF DestsGood, Put
<1> HIDE DEF dests
<1>5. routes' = Put(routes, v, dests)
  BY DEF AddNextHop, dests, hops, set
<1>6. RoutesGood'
  BY <1>1, <1>4, <1>5 DEF RoutesGood, Put
<1>7. reply' \in [ok : BOOLEAN, left : Nat, paths : SUBSET Paths]
  BY DEF AddNextHop, NoReply, NextHopExists
<1> QED
  BY <1>6, <1>7 DEF TableInv

(* remove_next_hop keeps the table good: each level prunes what the level   *)
(* below it emptied.                                                        *)
LEMMA RemoveGood ==
  ASSUME TableInv, NEW v \in Vnis, NEW d \in Dests, NEW h \in Hops, NEW key \in Keys,
         RemoveNextHop(v, d, h, key)
  PROVE  TableInv'
<1> DEFINE rest  == PeerSet(v, d, h) \ {key}
           hops  == PutOrPruneSet(HopMap(v, d), h, rest)
           dests == PutOrPruneMap(DestMap(v), d, hops)
<1>1. RoutesGood
  BY DEF TableInv
<1>2. rest \subseteq Keys /\ IsFiniteSet(rest)
  BY <1>1, LookupsGood, FS_RemoveElement
<1>3. Cardinality(rest) \in Nat
  BY <1>2, FS_CardinalityType
<1>4. reply' = [NoReply EXCEPT !.ok = TRUE, !.left = Cardinality(rest)]
  BY DEF RemoveNextHop
<1>5. routes' = PutOrPruneMap(routes, v, dests)
  BY DEF RemoveNextHop
<1> HIDE DEF rest
<1>6. HopsGood(hops)
  BY <1>1, <1>2, LookupsGood DEF HopsGood, SourcesGood, PutOrPruneSet, Put, Drop
<1> HIDE DEF hops
<1>7. DestsGood(dests)
  BY <1>1, <1>6, LookupsGood DEF DestsGood, PutOrPruneMap, Put, Drop
<1> HIDE DEF dests
<1>8. RoutesGood'
  BY <1>1, <1>5, <1>7 DEF RoutesGood, PutOrPruneMap, Put, Drop
<1>9. reply' \in [ok : BOOLEAN, left : Nat, paths : SUBSET Paths]
  BY <1>3, <1>4 DEF NoReply
<1> QED
  BY <1>8, <1>9 DEF TableInv

(* remove_routes_from_peer keeps the table good.                            *)
LEMMA RemovePeerGood ==
  ASSUME TableInv, NEW peer \in Peers, RemoveRoutesFromPeer(peer)
  PROVE  TableInv'
<1>1. ASSUME NEW set, SourcesGood(set), set \ {peer} # {} PROVE SourcesGood(set \ {peer})
  BY <1>1, FS_RemoveElement DEF SourcesGood
<1>2. ASSUME NEW hops, HopsGood(hops) PROVE HopsGood(HopsWithout(hops, peer))
  BY <1>1, <1>2 DEF HopsGood, HopsWithout
<1>3. ASSUME NEW dests, DestsGood(dests) PROVE DestsGood(DestsWithout(dests, peer))
  BY <1>2, <1>3 DEF DestsGood, DestsWithout
<1>4. RoutesGood'
  <2>1. routes' = RoutesWithout(peer) /\ RoutesGood
    BY DEF RemoveRoutesFromPeer, TableInv
  <2> QED
    BY <1>3, <2>1 DEF RoutesGood, RoutesWithout
<1>5. reply' \in [ok : BOOLEAN, left : Nat, paths : SUBSET Paths]
  BY DEF RemoveRoutesFromPeer, NoReply
<1> QED
  BY <1>4, <1>5 DEF TableInv

(* Every operation keeps the table good, from the empty table on.           *)
LEMMA TableGood == Spec => []TableInv
<1>1. Init => TableInv
  BY DEF Init, TableInv, RoutesGood, EmptyMap, NoReply
<1>2. TableInv /\ [Next]_vars => TableInv'
  <2> SUFFICES ASSUME TableInv, [Next]_vars PROVE TableInv'
    OBVIOUS
  <2>1. ASSUME NEW peer \in Peers, RemoveRoutesFromPeer(peer) PROVE TableInv'
    BY <2>1, RemovePeerGood
  <2>2. ASSUME NEW v \in Vnis, NEW d \in Dests, NEW h \in Hops, NEW key \in Keys,
               AddNextHop(v, d, h, key)
        PROVE  TableInv'
    BY <2>2, AddGood
  <2>3. ASSUME NEW v \in Vnis, NEW d \in Dests, NEW h \in Hops, NEW key \in Keys,
               RemoveNextHop(v, d, h, key)
        PROVE  TableInv'
    BY <2>3, RemoveGood
  <2>4. ASSUME NEW v \in Vnis, NEW d \in Dests, NEW h \in Hops, NEW key \in Keys,
               RemoveNothing(v, d, h, key)
        PROVE  TableInv'
    BY <2>4 DEF RemoveNothing, TableInv, RoutesGood, NoReply
  <2>5. CASE UNCHANGED vars
    BY <2>5 DEF vars, TableInv, RoutesGood
  <2> QED
    BY <2>1, <2>2, <2>3, <2>4, <2>5 DEF Next
<1> QED
  BY <1>1, <1>2, PTL DEF Spec

(* The maps and the replies have their types.                               *)
THEOREM TableTypeCorrect == Spec => []TypeOK
<1>1. TableInv => TypeOK
  BY DEF TableInv, RoutesGood, DestsGood, HopsGood, SourcesGood, TypeOK
<1> QED
  BY <1>1, TableGood, PTL

(* No operation leaves an empty set or an empty inner map behind, so the    *)
(* queries list no VNI, destination or next hop that nobody announces.      *)
THEOREM NothingEmpty == Spec => []NoEmptyMaps
<1>1. TableInv => NoEmptyMaps
  BY DEF TableInv, RoutesGood, DestsGood, HopsGood, SourcesGood, NoEmptyMaps
<1> QED
  BY <1>1, TableGood, PTL

-----------------------------------------------------------------------------
(* The sources of a path, as the flat table has them.                       *)
LEMMA HoldersOfPath ==
  ASSUME NEW v \in Vnis, NEW d \in Dests, NEW h \in Hops
  PROVE  <<v, d, h>> \in Paths /\ HoldersOf[<<v, d, h>>] = PeerSet(v, d, h)
BY DEF Paths, HoldersOf

(* Paths are the triples, so the table is its triples.                      *)
LEMMA SameHolders ==
  ASSUME NEW new,
         \A v \in Vnis, d \in Dests, h \in Hops : PeerSet(v, d, h)' = new[<<v, d, h>>]
  PROVE  HoldersOf' = [path \in Paths |-> new[path]]
BY DEF Paths, HoldersOf

(* add_next_hop adds the source to the path it names and to no other.       *)
LEMMA AddImplements ==
  ASSUME NEW v \in Vnis, NEW d \in Dests, NEW h \in Hops, NEW key \in Keys,
         AddNextHop(v, d, h, key)
  PROVE  Store!AddNextHop(<<v, d, h>>, key)
<1> DEFINE path == <<v, d, h>>
           set   == PeerSet(v, d, h) \cup {key}
           hops  == Put(HopMap(v, d), h, set)
           dests == Put(DestMap(v), d, hops)
           new   == [HoldersOf EXCEPT ![path] = @ \cup {key}]
<1>1. routes' = Put(routes, v, dests)
  BY DEF AddNextHop
<1>2. ASSUME NEW w \in Vnis, NEW e \in Dests, NEW g \in Hops
      PROVE  PeerSet(w, e, g)' = new[<<w, e, g>>]
  <2>1. PeerSet(w, e, g)' =
          Lookup(Lookup(Lookup(routes', w, EmptyMap), e, EmptyMap), g, {})
    BY DEF PeerSet, HopMap, DestMap
  <2>2. Lookup(routes', w, EmptyMap) = IF w = v THEN dests ELSE DestMap(w)
    BY <1>1, LookupPut DEF DestMap
  <2>3. Lookup(dests, e, EmptyMap) = IF e = d THEN hops ELSE HopMap(v, e)
    BY LookupPut DEF HopMap
  <2>4. Lookup(hops, g, {}) = IF g = h THEN set ELSE PeerSet(v, d, g)
    BY LookupPut DEF PeerSet
  <2> HIDE DEF set, hops, dests
  <2>5. PeerSet(w, e, g)' = IF w = v /\ e = d /\ g = h THEN set ELSE PeerSet(w, e, g)
    BY <2>1, <2>2, <2>3, <2>4 DEF PeerSet, HopMap
  <2>6. new[<<w, e, g>>] =
          IF <<w, e, g>> = path THEN HoldersOf[path] \cup {key} ELSE HoldersOf[<<w, e, g>>]
    BY HoldersOfPath DEF HoldersOf
  <2> QED
    BY <2>5, <2>6, HoldersOfPath DEF set
<1>3. HoldersOf' = new
  <2>1. new = [q \in Paths |-> new[q]]
    BY DEF HoldersOf
  <2> HIDE DEF new
  <2> QED
    BY <1>2, <2>1, SameHolders
<1>4. reply' = [Store!NoReply EXCEPT !.ok = key \notin HoldersOf[path]]
  BY HoldersOfPath DEF AddNextHop, NextHopExists, NoReply, Store!NoReply
<1> QED
  BY <1>3, <1>4 DEF Store!AddNextHop

(* RouteStore and RouteTable count alike.                                   *)
LEMMA SameCardinality ==
  ASSUME NEW S PROVE Store!Cardinality(S) = Cardinality(S)
BY Zenon DEF Cardinality, Store!Cardinality

(* remove_next_hop takes the source from the path it names, and its reply   *)
(* counts those that are left.                                              *)
LEMMA RemoveImplements ==
  ASSUME NEW v \in Vnis, NEW d \in Dests, NEW h \in Hops, NEW key \in Keys,
         RemoveNextHop(v, d, h, key)
  PROVE  Store!RemoveNextHop(<<v, d, h>>, key)
<1> DEFINE path == <<v, d, h>>
           rest  == PeerSet(v, d, h) \ {key}
           hops  == PutOrPruneSet(HopMap(v, d), h, rest)
           dests == PutOrPruneMap(DestMap(v), d, hops)
           new   == [HoldersOf EXCEPT ![path] = @ \ {key}]
<1>1. routes' = PutOrPruneMap(routes, v, dests)
  BY DEF RemoveNextHop
<1>2. ASSUME NEW w \in Vnis, NEW e \in Dests, NEW g \in Hops
      PROVE  PeerSet(w, e, g)' = new[<<w, e, g>>]
  <2>1. PeerSet(w, e, g)' =
          Lookup(Lookup(Lookup(routes', w, EmptyMap), e, EmptyMap), g, {})
    BY DEF PeerSet, HopMap, DestMap
  <2>2. Lookup(Lookup(routes', w, EmptyMap), e, EmptyMap) =
          IF w = v THEN Lookup(dests, e, EmptyMap) ELSE HopMap(w, e)
    BY <1>1, LookupPrunedMap DEF DestMap, HopMap
  <2>3. Lookup(Lookup(dests, e, EmptyMap), g, {}) =
          IF e = d THEN Lookup(hops, g, {}) ELSE PeerSet(v, e, g)
    BY LookupPrunedMap DEF HopMap, PeerSet
  <2>4. Lookup(hops, g, {}) = IF g = h THEN rest ELSE PeerSet(v, d, g)
    BY LookupPrunedSet DEF PeerSet
  <2> HIDE DEF rest, hops, dests
  <2>5. PeerSet(w, e, g)' = IF w = v /\ e = d /\ g = h THEN rest ELSE PeerSet(w, e, g)
    BY <2>1, <2>2, <2>3, <2>4 DEF PeerSet
  <2>6. new[<<w, e, g>>] =
          IF <<w, e, g>> = path THEN HoldersOf[path] \ {key} ELSE HoldersOf[<<w, e, g>>]
    BY HoldersOfPath DEF HoldersOf
  <2> QED
    BY <2>5, <2>6, HoldersOfPath DEF rest
<1>3. HoldersOf' = new
  <2>1. new = [q \in Paths |-> new[q]]
    BY DEF HoldersOf
  <2> HIDE DEF new
  <2> QED
    BY <1>2, <2>1, SameHolders
<1>4. /\ key \in HoldersOf[path]
      /\ reply' = [Store!NoReply EXCEPT !.ok = TRUE,
                                        !.left = Cardinality(HoldersOf[path] \ {key})]
  BY HoldersOfPath DEF RemoveNextHop, NextHopExists, NoReply, Store!NoReply
<1> QED
  BY <1>3, <1>4, SameCardinality DEF Store!RemoveNextHop

(* remove_routes_from_peer takes the peer from every path, and its reply    *)
(* lists the paths that had it.                                             *)
LEMMA RemovePeerImplements ==
  ASSUME NEW peer \in Peers, RemoveRoutesFromPeer(peer)
  PROVE  Store!RemoveRoutesFromPeer(peer)
<1> DEFINE new == [path \in Paths |-> HoldersOf[path] \ {peer}]
<1>1. ASSUME NEW hops, NEW h
      PROVE  Lookup(HopsWithout(hops, peer), h, {}) = Lookup(hops, h, {}) \ {peer}
  BY DEF HopsWithout, Lookup
<1>2. ASSUME NEW dests, NEW d, NEW h
      PROVE  Lookup(Lookup(DestsWithout(dests, peer), d, EmptyMap), h, {}) =
             Lookup(Lookup(dests, d, EmptyMap), h, {}) \ {peer}
  <2>1. \/ Lookup(DestsWithout(dests, peer), d, EmptyMap) =
             HopsWithout(Lookup(dests, d, EmptyMap), peer)
        \/ /\ DOMAIN HopsWithout(Lookup(dests, d, EmptyMap), peer) = {}
           /\ Lookup(DestsWithout(dests, peer), d, EmptyMap) = EmptyMap
    BY DEF DestsWithout, HopsWithout, Lookup, EmptyMap
  <2>2. Lookup(EmptyMap, h, {}) = {}
    BY DEF Lookup, EmptyMap
  <2> QED
    BY <1>1, <2>1, <2>2 DEF Lookup
<1>3. ASSUME NEW v, NEW d, NEW h
      PROVE  Lookup(Lookup(Lookup(RoutesWithout(peer), v, EmptyMap), d, EmptyMap), h, {}) =
             PeerSet(v, d, h) \ {peer}
  <2>1. \/ Lookup(RoutesWithout(peer), v, EmptyMap) = DestsWithout(DestMap(v), peer)
        \/ /\ DOMAIN DestsWithout(DestMap(v), peer) = {}
           /\ Lookup(RoutesWithout(peer), v, EmptyMap) = EmptyMap
    BY DEF RoutesWithout, DestsWithout, DestMap, Lookup, EmptyMap
  <2>2. Lookup(Lookup(EmptyMap, d, EmptyMap), h, {}) = {}
    BY DEF Lookup, EmptyMap
  <2>3. DOMAIN DestsWithout(DestMap(v), peer) = {}
        => Lookup(Lookup(DestsWithout(DestMap(v), peer), d, EmptyMap), h, {}) = {}
    BY DEF Lookup, EmptyMap
  <2>4. Lookup(Lookup(DestsWithout(DestMap(v), peer), d, EmptyMap), h, {}) =
          PeerSet(v, d, h) \ {peer}
    BY <1>2 DEF PeerSet, HopMap
  <2> QED
    BY <2>1, <2>2, <2>3, <2>4
<1>4. ASSUME NEW w \in Vnis, NEW e \in Dests, NEW g \in Hops
      PROVE  PeerSet(w, e, g)' = new[<<w, e, g>>]
  <2>1. PeerSet(w, e, g)' = PeerSet(w, e, g) \ {peer}
    BY <1>3 DEF RemoveRoutesFromPeer, PeerSet, HopMap, DestMap
  <2> QED
    BY <2>1, HoldersOfPath
<1>5. HoldersOf' = new
  <2>1. new = [q \in Paths |-> new[q]]
    OBVIOUS
  <2> HIDE DEF new
  <2> QED
    BY <1>4, <2>1, SameHolders
<1>6. reply' = [Store!NoReply EXCEPT !.paths = {path \in Paths : peer \in HoldersOf[path]}]
  BY DEF RemoveRoutesFromPeer, NextHopExists, NoReply, Store!NoReply, HoldersOf
<1> QED
  BY <1>5, <1>6 DEF Store!RemoveRoutesFromPeer

(* The nested maps implement the flat table: each operation is the one of   *)
(* the same name there.                                                     *)
THEOREM TableImplementsStore == Spec => ImplementsStore
<1>1. Init => Store!Init
  BY DEF Init, Store!Init, NoReply, Store!NoReply, HoldersOf, PeerSet, HopMap, DestMap,
     Lookup, EmptyMap
<1>2. [Next]_vars => [Store!Next]_<<HoldersOf, reply>>
  <2> SUFFICES ASSUME [Next]_vars PROVE [Store!Next]_<<HoldersOf, reply>>
    OBVIOUS
  <2>1. ASSUME NEW peer \in Peers, RemoveRoutesFromPeer(peer) PROVE Store!Next
    <3>1. peer \in Keys
      BY DEF Keys
    <3> QED
      BY <2>1, <3>1, RemovePeerImplements DEF Store!Next
  <2>2. ASSUME NEW v \in Vnis, NEW d \in Dests, NEW h \in Hops, NEW key \in Keys,
               AddNextHop(v, d, h, key)
        PROVE  Store!Next
    BY <2>2, AddImplements, HoldersOfPath DEF Store!Next
  <2>3. ASSUME NEW v \in Vnis, NEW d \in Dests, NEW h \in Hops, NEW key \in Keys,
               RemoveNextHop(v, d, h, key)
        PROVE  Store!Next
    BY <2>3, RemoveImplements, HoldersOfPath DEF Store!Next
  <2>4. ASSUME NEW v \in Vnis, NEW d \in Dests, NEW h \in Hops, NEW key \in Keys,
               RemoveNothing(v, d, h, key)
        PROVE  Store!Next
    <3>1. HoldersOf' = HoldersOf
      BY <2>4 DEF RemoveNothing, HoldersOf, PeerSet, HopMap, DestMap
    <3>2. Store!RemoveNothing(<<v, d, h>>, key)
      BY <2>4, <3>1, HoldersOfPath
      DEF RemoveNothing, NextHopExists, NoReply, Store!NoReply, Store!RemoveNothing
    <3> QED
      BY <3>2, HoldersOfPath DEF Store!Next
  <2>5. CASE UNCHANGED vars
    BY <2>5 DEF vars, HoldersOf, PeerSet, HopMap, DestMap
  <2> QED
    BY <2>1, <2>2, <2>3, <2>4, <2>5 DEF Next
<1> QED
  BY <1>1, <1>2, PTL DEF Spec, ImplementsStore, Store!Spec

-----------------------------------------------------------------------------
(* The sources of a path as the flat table has them, with the path spelt.   *)
Sources(v, d, h) == HoldersOf[<<v, d, h>>]

LEMMA SourcesOfPath ==
  ASSUME NEW v \in Vnis, NEW d \in Dests, NEW h \in Hops
  PROVE  Sources(v, d, h) = PeerSet(v, d, h)
BY HoldersOfPath DEF Sources

(* In a good table an entry is there exactly when somebody announces a path *)
(* through it, at each of the three levels.                                 *)
LEMMA EntriesAnnounced ==
  ASSUME RoutesGood, NEW v \in Vnis
  PROVE  /\ \A d \in Dests, h \in Hops :
               h \in DOMAIN HopMap(v, d) <=> Sources(v, d, h) # {}
         /\ \A d \in Dests :
               d \in DOMAIN DestMap(v) <=> \E h \in Hops : Sources(v, d, h) # {}
         /\ v \in DOMAIN routes <=> \E d \in Dests, h \in Hops : Sources(v, d, h) # {}
<1>1. ASSUME NEW d \in Dests, NEW h \in Hops
      PROVE  h \in DOMAIN HopMap(v, d) <=> Sources(v, d, h) # {}
  <2>1. HopsGood(HopMap(v, d))
    BY LookupsGood
  <2> QED
    BY <2>1, SourcesOfPath DEF HopsGood, SourcesGood, PeerSet, Lookup
<1>2. ASSUME NEW d \in Dests
      PROVE  d \in DOMAIN DestMap(v) <=> \E h \in Hops : Sources(v, d, h) # {}
  <2>1. DestsGood(DestMap(v))
    BY DEF RoutesGood, DestMap, Lookup, DestsGood, EmptyMap
  <2>2. d \in DOMAIN DestMap(v) <=> DOMAIN HopMap(v, d) # {}
    BY <2>1 DEF DestsGood, HopMap, Lookup, EmptyMap
  <2>3. DOMAIN HopMap(v, d) \subseteq Hops
    BY <2>1 DEF DestsGood, HopsGood, HopMap, Lookup, EmptyMap
  <2> QED
    BY <1>1, <2>2, <2>3
<1>3. v \in DOMAIN routes <=> \E d \in Dests : d \in DOMAIN DestMap(v)
  BY DEF RoutesGood, DestsGood, DestMap, Lookup, EmptyMap
<1> QED
  BY <1>1, <1>2, <1>3

(* get_vnis lists the VNIs somebody announces a path in.                    *)
LEMMA VnisAgree ==
  ASSUME RoutesGood
  PROVE  GetVnis = {v \in Vnis : \E d \in Dests, h \in Hops : Sources(v, d, h) # {}}
BY EntriesAnnounced DEF GetVnis, RoutesGood

(* The queries of one VNI list the destinations and next hops somebody      *)
(* announces, with the sources.                                             *)
LEMMA VniQueriesAgree ==
  ASSUME RoutesGood, NEW v \in Vnis
  PROVE  /\ GetDestinationsByVni(v) =
              [d \in {e \in Dests : \E h \in Hops : Sources(v, e, h) # {}} |->
                  {h \in Hops : Sources(v, d, h) # {}}]
         /\ \A d \in DOMAIN GetDestinationsByVniWithPeer(v) :
              GetDestinationsByVniWithPeer(v)[d] =
                 [h \in GetNextHopsByDestination(v, d) |-> Sources(v, d, h)]
         /\ \A d \in Dests :
              GetNextHopsByDestination(v, d) = {h \in Hops : Sources(v, d, h) # {}}
<1>1. DestsGood(DestMap(v))
  BY DEF RoutesGood, DestMap, Lookup, DestsGood, EmptyMap
<1>2. ASSUME NEW d \in DOMAIN DestMap(v)
      PROVE  /\ d \in Dests
             /\ HopMap(v, d) = DestMap(v)[d]
             /\ HopsGood(HopMap(v, d))
  BY <1>1 DEF DestsGood, HopMap, Lookup
<1>3. ASSUME NEW d \in Dests
      PROVE  DOMAIN HopMap(v, d) = {h \in Hops : Sources(v, d, h) # {}}
  <2>1. DOMAIN HopMap(v, d) \subseteq Hops
    BY <1>2 DEF HopsGood, HopMap, Lookup, EmptyMap
  <2> QED
    BY <2>1, EntriesAnnounced
<1>4. DOMAIN DestMap(v) = {e \in Dests : \E h \in Hops : Sources(v, e, h) # {}}
  BY <1>2, EntriesAnnounced
<1>5. GetDestinationsByVni(v) =
        [d \in {e \in Dests : \E h \in Hops : Sources(v, e, h) # {}} |->
            {h \in Hops : Sources(v, d, h) # {}}]
  BY <1>3, <1>4 DEF GetDestinationsByVni
<1>6. ASSUME NEW d \in DOMAIN DestMap(v)
      PROVE  DestMap(v)[d] = [h \in DOMAIN HopMap(v, d) |-> Sources(v, d, h)]
  <2>1. \A h \in DOMAIN HopMap(v, d) : Sources(v, d, h) = HopMap(v, d)[h]
    BY <1>2, SourcesOfPath DEF HopsGood, PeerSet, Lookup
  <2> QED
    BY <1>2, <2>1 DEF HopsGood
<1> QED
  BY <1>3, <1>5, <1>6 DEF GetDestinationsByVniWithPeer, GetNextHopsByDestination

(* The local announcements are the paths that have Local among their        *)
(* sources, and no VNI or destination without one.                          *)
LEMMA LocalAgree ==
  ASSUME RoutesGood
  PROVE  GetLocalAnnouncements =
           [v \in {w \in Vnis : \E d \in Dests, h \in Hops : Local \in Sources(w, d, h)} |->
              [d \in {e \in Dests : \E h \in Hops : Local \in Sources(v, e, h)} |->
                  {h \in Hops : Local \in Sources(v, d, h)}]]
<1>1. ASSUME NEW v \in Vnis, NEW d \in Dests
      PROVE  LocalHops(v, d) = {h \in Hops : Local \in Sources(v, d, h)}
  <2>1. DOMAIN HopMap(v, d) \subseteq Hops
    BY LookupsGood DEF HopsGood, RoutesGood, DestsGood, HopMap, DestMap, Lookup, EmptyMap
  <2>2. \A h \in Hops : h \in DOMAIN HopMap(v, d) <=> Sources(v, d, h) # {}
    BY EntriesAnnounced
  <2> QED
    BY <2>1, <2>2, SourcesOfPath DEF LocalHops
<1>2. ASSUME NEW v \in Vnis
      PROVE  LocalDests(v) = {e \in Dests : \E h \in Hops : Local \in Sources(v, e, h)}
  <2>1. DOMAIN DestMap(v) \subseteq Dests
    BY DEF RoutesGood, DestsGood, DestMap, Lookup, EmptyMap
  <2>2. \A d \in Dests :
          d \in DOMAIN DestMap(v) <=> \E h \in Hops : Sources(v, d, h) # {}
    BY EntriesAnnounced
  <2> QED
    BY <1>1, <2>1, <2>2 DEF LocalDests
<1>3. {w \in DOMAIN routes : LocalDests(w) # {}} =
        {w \in Vnis : \E d \in Dests, h \in Hops : Local \in Sources(w, d, h)}
  <2>1. DOMAIN routes \subseteq Vnis
    BY DEF RoutesGood
  <2>2. \A w \in Vnis :
          w \in DOMAIN routes <=> \E d \in Dests, h \in Hops : Sources(w, d, h) # {}
    BY EntriesAnnounced
  <2> QED
    BY <1>2, <2>1, <2>2
<1>4. ASSUME NEW v \in Vnis
      PROVE  [d \in LocalDests(v) |-> LocalHops(v, d)] =
               [d \in {e \in Dests : \E h \in Hops : Local \in Sources(v, e, h)} |->
                  {h \in Hops : Local \in Sources(v, d, h)}]
  BY <1>1, <1>2
<1> HIDE DEF LocalDests
<1> QED
  BY <1>3, <1>4 DEF GetLocalAnnouncements

(* The queries answer for the flat table: what get_vnis, the destination    *)
(* queries and get_local_announcements list is what somebody announces, for *)
(* every table the operations can build.                                    *)
THEOREM QueriesRight == Spec => []QueriesAgree
<1>1. TableInv => QueriesAgree
  <2> SUFFICES ASSUME RoutesGood PROVE QueriesAgree
    BY DEF TableInv
  <2> QED
    BY VnisAgree, VniQueriesAgree, LocalAgree, Zenon DEF QueriesAgree, Sources
<1> QED
  BY <1>1, TableGood, PTL
=============================================================================
