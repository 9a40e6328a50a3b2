---------------------------- MODULE MCRouteTable ----------------------------
(* RouteTable on two VNIs, two destinations, two next hops, one peer and   *)
(* the local instance: every level can hold one or two entries, and a path *)
(* can have no source, one of either kind, or both.                        *)
EXTENDS RouteTable, TLC

Symmetry == Permutations(Vnis) \cup Permutations(Dests) \cup Permutations(Hops)
=============================================================================
