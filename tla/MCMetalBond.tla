---------------------------- MODULE MCMetalBond ----------------------------
(* Instances of MetalBond for TLC.  There is one VNI; routes and peers are *)
(* few, and each configuration says which peer announces and subscribes.   *)
EXTENDS MetalBond, TLC

CONSTANTS a, b,  \* the peers: remote clients of a server, or servers
          v1,    \* the VNI
          r1, n1 \* a route with a standard next hop, one with a NAT next hop

AllInV1 == [r \in Routes |-> v1]

Only(p, S) == [q \in Peers |-> IF q = p THEN S ELSE {}]

NoPeer       == [p \in Peers |-> {}]
BothRoutesOfA == Only(a, {r1, n1})
RouteOfA     == Only(a, {r1})
RouteOfBoth  == [p \in Peers |-> {r1}]
VniForA      == Only(a, {v1})
VniForBoth   == [p \in Peers |-> {v1}]
=============================================================================
