----------------------------- MODULE MCNetlink -----------------------------
(* An instance of Netlink for TLC: two VNIs; configurations that are sound *)
(* and configurations with tables that coincide, or are 0, in 8 bits;      *)
(* routes to one network by two hops, to an IPv6 network by an IPv4 hop,   *)
(* and with a NAT hop; and entries of others in some of the tables.        *)
EXTENDS Netlink, TLC

CONSTANTS v1, v2,             \* VNIs
          r1, r2, r3, r4, r5, \* routes
          n4, n6,             \* networks
          g, h                \* next hops

RouteVni      == r1 :> v1 @@ r2 :> v1 @@ r3 :> v1 @@ r4 :> v2 @@ r5 :> v2
RouteNet      == r1 :> n4 @@ r2 :> n4 @@ r3 :> n6 @@ r4 :> n4 @@ r5 :> n6
RouteIsV4     == [r \in Routes |-> NetOf[r] = n4]
RouteStandard == [r \in Routes |-> r # r5]
RouteGateway  == r1 :> g @@ r2 :> h @@ r3 :> None @@ r4 :> g @@ r5 :> h

TablePairs == {<<1, 2>>, <<1, 257>>, <<256, 2>>, <<2, 0>>}
AllConfigs == {[table |-> (v1 :> p[1] @@ v2 :> p[2]), ipv4Only |-> b] :
                  p \in TablePairs, b \in BOOLEAN}

OtherEntries == {[table |-> t, net |-> n4, gateway |-> h, ours |-> FALSE] : t \in {2, 254}}
=============================================================================
