------------------------------- MODULE Codec -------------------------------
(* The wire format: MetalBondCodec, which cuts a stream of bytes into      *)
(* messages, and the conversions between the fields of an UPDATE and the   *)
(* program's own destinations and next hops (src/peer.rs).  The encoding   *)
(* of a message's body is the protobuf library's.                          *)
EXTENDS Integers, Sequences

CONSTANT Parses(_, _) \* the library accepts these bytes for this type

Byte  == {n \in Nat : n < 256}
Port  == {n \in Nat : n < 65536}
Types == 1..5
Keepalive == 2
METALBOND_VERSION == 1
MAX_MESSAGE_LEN   == 1188
HeaderLen         == 4

-----------------------------------------------------------------------------
(* Framing.  A message is its type and the bytes of its body.              *)

\* What GeneratedMessage stands for, as far as it can be sent.
Messages == {m \in [type : Types, body : Seq(Byte)] :
                /\ Len(m.body) <= MAX_MESSAGE_LEN
                /\ IF m.type = Keepalive THEN m.body = <<>> ELSE Parses(m.type, m.body)}

\* Each byte of the length is cut to 8 bits.
Header(n, type) == <<METALBOND_VERSION, (n \div 256) % 256, n % 256, type>>

Encode(m) == Header(Len(m.body), m.type) \o m.body

HasHeader(src) == Len(src) >= HeaderLen
BodyLen(src)   == (256 * src[2]) + src[3]
BodyOf(src)    == SubSeq(src, HeaderLen + 1, HeaderLen + BodyLen(src))

\* Another version: an error, and the bytes stay where they are.
Refuses(src) == HasHeader(src) /\ src[1] # METALBOND_VERSION

\* A whole frame is there; it is taken off the buffer before it is read.
TakesFrame(src) == /\ HasHeader(src) /\ ~Refuses(src)
                   /\ Len(src) >= HeaderLen + BodyLen(src)

\* More bytes are needed.
Waits(src) == ~Refuses(src) /\ ~TakesFrame(src)

Decodes(src) == /\ TakesFrame(src) /\ src[4] \in Types
                /\ src[4] = Keepalive \/ Parses(src[4], BodyOf(src))

Decoded(src) == [type |-> src[4],
                 body |-> IF src[4] = Keepalive THEN <<>> ELSE BodyOf(src)]

RestOf(src) == IF TakesFrame(src)
                 THEN SubSeq(src, HeaderLen + BodyLen(src) + 1, Len(src))
                 ELSE src

-----------------------------------------------------------------------------
(* The fields of an UPDATE.  Numbers on the wire are wider than in the     *)
(* program, and are cut.                                                   *)
AddressLens == {4, 16}
Addresses == {a \in Seq(Byte) : Len(a) \in AddressLens}
Standard  == 0
HopTypes  == 0..2

Destinations == {d \in [address : Addresses, length : Byte] :
                    d.length <= 8 * Len(d.address)}
NextHops == [address : Addresses, vni : Nat, type : HopTypes,
             from : Port, to : Port]

WireDestinations == [version : Int, prefix : Seq(Byte), length : Nat]
WireNextHops == [address : Seq(Byte), vni : Nat, type : Int, from : Nat, to : Nat]

WireDestination(d) == [version |-> IF Len(d.address) = 4 THEN 0 ELSE 1,
                       prefix |-> d.address, length |-> d.length]

\* The version is not looked at; a longer prefix than the address is refused.
TakesDestination(w) == /\ w.prefix \in Addresses
                       /\ w.length % 256 <= 8 * Len(w.prefix)
DestinationOf(w) == [address |-> w.prefix, length |-> w.length % 256]

WireNextHop(h) == [address |-> h.address, vni |-> h.vni, type |-> h.type,
                   from |-> h.from, to |-> h.to]

TakesNextHop(w) == w.address \in Addresses

\* An unknown type is taken for a standard one.
HopTypeOf(n) == IF n \in HopTypes THEN n ELSE Standard
NextHopOf(w) == [address |-> w.address, vni |-> w.vni, type |-> HopTypeOf(w.type),
                 from |-> w.from % 65536, to |-> w.to % 65536]
=============================================================================
