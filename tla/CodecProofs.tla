---------------------------- MODULE CodecProofs ----------------------------
(* Proofs about Codec: what one end encodes the other decodes, however the *)
(* bytes are cut into reads, and what a server takes from one client is    *)
(* what the others take from the server.                                   *)
EXTENDS Codec, SequenceTheorems, TLAPS

(* What cutting a number to 8 or 16 bits does.                             *)
LEMMA ByteStays == ASSUME NEW n \in Byte PROVE n % 256 = n
BY SMT DEF Byte
LEMMA PortStays == ASSUME NEW n \in Port PROVE n % 65536 = n
BY SMT DEF Port
LEMMA CutToByte == ASSUME NEW n \in Nat PROVE n % 256 \in Byte
BY SMT DEF Byte
LEMMA CutToPort == ASSUME NEW n \in Nat PROVE n % 65536 \in Port
BY SMT DEF Port

(* The length of a message fits its two bytes.                             *)
LEMMA LengthFits ==
    ASSUME NEW n \in Nat, n <= 1188
    PROVE  /\ (n \div 256) % 256 \in Byte /\ n % 256 \in Byte
           /\ n = (256 * ((n \div 256) % 256)) + (n % 256)
BY SMT DEF Byte

(* Four bytes before the body, and the body.                               *)
Parts(m, b, n, t, hi, lo, e) ==
    /\ m = [type |-> t, body |-> b]
    /\ n = Len(b) /\ n = (256 * hi) + lo
    /\ Encode(m) = e /\ Len(e) = 4 + n
    /\ e[1] = 1 /\ e[2] = hi /\ e[3] = lo /\ e[4] = t
    /\ \A i \in 1..n : e[4 + i] = b[i]

LEMMA EncodeParts ==
    ASSUME NEW m \in Messages
    PROVE  \E b \in Seq(Byte), n \in Nat, t \in Types, hi \in Byte, lo \in Byte,
              e \in Seq(Byte) :
              Parts(m, b, n, t, hi, lo, e)
<1>1. PICK b \in Seq(Byte), t \in Types : m = [type |-> t, body |-> b]
  BY DEF Messages
<1>2. m.body = b /\ m.type = t
  BY <1>1
<1>3. Len(b) \in Nat
  BY LenProperties
<1>4. Len(b) <= 1188
  BY <1>2 DEF Messages, MAX_MESSAGE_LEN
<1>5. PICK n \in Nat : n = Len(b) /\ n <= 1188
  BY <1>3, <1>4
<1>6. (n \div 256) % 256 \in Byte /\ n % 256 \in Byte
      /\ n = (256 * ((n \div 256) % 256)) + (n % 256)
  BY <1>5, LengthFits
<1>7. PICK hi \in Byte, lo \in Byte : hi = (n \div 256) % 256 /\ lo = n % 256
  BY <1>6
<1>8. n = (256 * hi) + lo
  BY <1>6, <1>7
<1>9. PICK h : h = <<1, hi, lo, t>>
  OBVIOUS
<1>10. /\ h \in Seq(Byte) /\ Len(h) = 4
       /\ h[1] = 1 /\ h[2] = hi /\ h[3] = lo /\ h[4] = t
  BY <1>8, <1>9 DEF Byte, Types
<1>11. /\ h \o b \in Seq(Byte) /\ Len(h \o b) = Len(h) + Len(b)
       /\ \A i \in 1..(Len(h) + Len(b)) :
             (h \o b)[i] = IF i <= Len(h) THEN h[i] ELSE b[i - Len(h)]
  BY <1>10, ConcatProperties
<1>12. PICK e \in Seq(Byte) : e = h \o b
  BY <1>11
<1>13. Encode(m) = e
  BY <1>2, <1>5, <1>7, <1>9, <1>12 DEF Encode, Header, METALBOND_VERSION
<1>14. /\ Len(e) = 4 + n
       /\ \A i \in 1..(4 + n) : e[i] = IF i <= 4 THEN h[i] ELSE b[i - 4]
  BY <1>5, <1>10, <1>11, <1>12
<1>15. e[1] = 1 /\ e[2] = hi /\ e[3] = lo /\ e[4] = t
  BY <1>10, <1>14
<1>16. \A i \in 1..n : e[4 + i] = b[i]
  BY <1>14
<1>17. Parts(m, b, n, t, hi, lo, e)
  BY <1>1, <1>5, <1>8, <1>13, <1>14, <1>15, <1>16 DEF Parts
<1> QED  BY <1>17

(* The part of a sequence that agrees with another one is that one.        *)
LEMMA PartIs ==
    ASSUME NEW s \in Seq(Byte), NEW t \in Seq(Byte),
           NEW f \in Nat, NEW n \in Nat, NEW l \in Nat,
           n = Len(t), l + 1 = f + n, f >= 1, l <= Len(s),
           \A i \in 1..n : s[(f - 1) + i] = t[i]
    PROVE  SubSeq(s, f, l) = t
<1>1. PICK c \in Nat : c = Len(s)
  BY LenProperties
<1>2. \A i \in f..l : i \in 1..Len(s)
  BY <1>1
<1>3. \A i \in f..l : s[i] \in Byte
  BY <1>2, ElementOfSeq
<1>4. PICK u : u = SubSeq(s, f, l)
  OBVIOUS
<1>5. /\ SubSeq(s, f, l) \in Seq(Byte)
      /\ Len(SubSeq(s, f, l)) = IF f <= l THEN l - f + 1 ELSE 0
      /\ \A i \in 1..(l - f + 1) : SubSeq(s, f, l)[i] = s[f + i - 1]
  BY <1>3, SubSeqProperties
<1>6. /\ u \in Seq(Byte)
      /\ Len(u) = IF f <= l THEN l - f + 1 ELSE 0
      /\ \A i \in 1..(l - f + 1) : u[i] = s[f + i - 1]
  BY <1>4, <1>5
<1>7. Len(u) = n
  BY <1>6
<1>8. \A i \in 1..n : u[i] = t[i]
  <2> SUFFICES ASSUME NEW i \in 1..n PROVE u[i] = t[i]
    OBVIOUS
  <2>1. u[i] = s[f + i - 1] /\ f + i - 1 = (f - 1) + i
    BY <1>6
  <2> QED  BY <2>1
<1>9. u = t
  BY <1>6, <1>7, <1>8, SeqEqual
<1> QED  BY <1>4, <1>9

(* A frame at the beginning of the buffer is decoded to the message that   *)
(* was encoded, and exactly its bytes are taken: what follows it is left   *)
(* for the next call.                                                      *)
THEOREM FramesAreRead ==
    ASSUME NEW m \in Messages, NEW rest \in Seq(Byte)
    PROVE  LET src == Encode(m) \o rest
           IN  Decodes(src) /\ Decoded(src) = m /\ RestOf(src) = rest
<1>1. PICK b \in Seq(Byte), n \in Nat, t \in Types, hi \in Byte, lo \in Byte,
           e \in Seq(Byte) : Parts(m, b, n, t, hi, lo, e)
  BY EncodeParts
<1>2. /\ m = [type |-> t, body |-> b]
      /\ n = Len(b) /\ n = (256 * hi) + lo
      /\ Encode(m) = e /\ Len(e) = 4 + n
      /\ e[1] = 1 /\ e[2] = hi /\ e[3] = lo /\ e[4] = t
      /\ \A i \in 1..n : e[4 + i] = b[i]
  BY <1>1 DEF Parts
<1>4. PICK src : src = e \o rest
  OBVIOUS
<1>5. PICK l \in Nat : l = Len(rest)
  BY LenProperties
<1>6. /\ e \o rest \in Seq(Byte) /\ Len(e \o rest) = Len(e) + Len(rest)
      /\ \A i \in 1..(Len(e) + Len(rest)) :
            (e \o rest)[i] = IF i <= Len(e) THEN e[i] ELSE rest[i - Len(e)]
  BY ConcatProperties
<1>7. /\ src \in Seq(Byte) /\ Len(src) = 4 + n + l
      /\ \A i \in 1..(4 + n + l) : src[i] = IF i <= 4 + n THEN e[i] ELSE rest[i - (4 + n)]
  <2>1. src \in Seq(Byte) /\ Len(src) = 4 + n + l
    BY <1>2, <1>4, <1>5, <1>6
  <2>2. ASSUME NEW i \in 1..(4 + n + l)
        PROVE  src[i] = IF i <= 4 + n THEN e[i] ELSE rest[i - (4 + n)]
    <3>1. i \in 1..(Len(e) + Len(rest))
      BY <1>2, <1>5
    <3>2. src[i] = IF i <= Len(e) THEN e[i] ELSE rest[i - Len(e)]
      BY <1>4, <1>6, <3>1
    <3> QED  BY <1>2, <3>2
  <2> QED  BY <2>1, <2>2
<1>8. src[1] = 1 /\ src[2] = hi /\ src[3] = lo /\ src[4] = t
  <2>1. \A i \in 1..4 : i \in 1..(4 + n + l) /\ i <= 4 + n
    OBVIOUS
  <2>2. \A i \in 1..4 : src[i] = e[i]
    BY <1>7, <2>1
  <2> QED  BY <1>2, <2>2
<1>9. BodyLen(src) = n
  BY <1>2, <1>8 DEF BodyLen, Byte
<1>10. TakesFrame(src)
  BY <1>7, <1>8, <1>9 DEF TakesFrame, Refuses, HasHeader, HeaderLen, METALBOND_VERSION
<1>11. BodyOf(src) = b
  <2>1. \A i \in 1..n : src[(5 - 1) + i] = b[i]
    <3>1. ASSUME NEW i \in 1..n PROVE src[4 + i] = b[i]
      <4>1. 4 + i \in 1..(4 + n + l) /\ 4 + i <= 4 + n
        OBVIOUS
      <4>2. src[4 + i] = e[4 + i]
        BY <1>7, <4>1
      <4> QED  BY <1>2, <4>2
    <3> QED  BY <3>1
  <2>2. SubSeq(src, 5, 4 + n) = b
    <3>1. PICK k \in Nat : k = 4 + n
      OBVIOUS
    <3>2. n = Len(b) /\ k + 1 = 5 + n /\ k <= 4 + n + l
      BY <1>2, <3>1
    <3>4. k <= Len(src)
      BY <1>7, <3>2
    <3>3. SubSeq(src, 5, k) = b
      BY <1>7, <2>1, <3>2, <3>4, PartIs
    <3> QED  BY <3>1, <3>3
  <2> QED  BY <1>9, <2>2 DEF BodyOf, HeaderLen
<1>12. RestOf(src) = rest
  <2>1. PICK f \in Nat, k \in Nat : f = 5 + n /\ k = 4 + n + l
    OBVIOUS
  <2>2. \A i \in 1..l : src[(f - 1) + i] = rest[i]
    BY <1>7, <2>1
  <2>3. k + 1 = f + l /\ f >= 1 /\ k <= Len(src) /\ k = Len(src)
    BY <1>7, <2>1
  <2>4. SubSeq(src, f, k) = rest
    <3>1. src \in Seq(Byte) /\ l = Len(rest)
      BY <1>5, <1>7
    <3>2. k + 1 = f + l /\ f >= 1 /\ k <= Len(src)
      BY <2>3
    <3> QED  BY <2>2, <3>1, <3>2, PartIs, ZenonT(40)
  <2>5. HeaderLen + BodyLen(src) + 1 = f
    BY <1>9, <2>1 DEF HeaderLen
  <2> QED  BY <1>10, <2>3, <2>4, <2>5 DEF RestOf
<1>13. m.type = t /\ m.body = b
  BY <1>2
<1>14. t = Keepalive => b = <<>>
  BY <1>13 DEF Messages
<1>15. t # Keepalive => Parses(t, b)
  BY <1>13 DEF Messages
<1>16. Decodes(src)
  BY <1>8, <1>10, <1>11, <1>15 DEF Decodes
<1>17. Decoded(src) = m
  BY <1>2, <1>8, <1>11, <1>14 DEF Decoded
<1> QED  BY <1>2, <1>4, <1>12, <1>16, <1>17

(* Of a frame that has not arrived whole nothing is taken and nothing is   *)
(* reported: with FramesAreRead, how the bytes are cut into reads makes no *)
(* difference to the messages.                                             *)
THEOREM PartsAreKept ==
    ASSUME NEW m \in Messages, NEW k \in Nat, k < Len(Encode(m))
    PROVE  LET src == SubSeq(Encode(m), 1, k)
           IN  Waits(src) /\ RestOf(src) = src
<1>1. PICK b \in Seq(Byte), n \in Nat, t \in Types, hi \in Byte, lo \in Byte,
           e \in Seq(Byte) : Parts(m, b, n, t, hi, lo, e)
  BY EncodeParts
<1>2. /\ m = [type |-> t, body |-> b]
      /\ n = Len(b) /\ n = (256 * hi) + lo
      /\ Encode(m) = e /\ Len(e) = 4 + n
      /\ e[1] = 1 /\ e[2] = hi /\ e[3] = lo /\ e[4] = t
      /\ \A i \in 1..n : e[4 + i] = b[i]
  BY <1>1 DEF Parts
<1>4. k < 4 + n
  BY <1>2
<1>5. \A i \in 1..k : i \in 1..Len(e)
  BY <1>2, <1>4
<1>6. \A i \in 1..k : e[i] \in Byte
  BY <1>2, <1>5, ElementOfSeq
<1>7. /\ Len(SubSeq(e, 1, k)) = IF 1 <= k THEN k - 1 + 1 ELSE 0
      /\ \A i \in 1..(k - 1 + 1) : SubSeq(e, 1, k)[i] = e[1 + i - 1]
  BY <1>6, SubSeqProperties
<1>8. PICK src : src = SubSeq(e, 1, k)
  OBVIOUS
<1>9. Len(src) = k /\ \A i \in 1..k : src[i] = e[i]
  <2>1. /\ Len(src) = IF 1 <= k THEN k - 1 + 1 ELSE 0
        /\ \A i \in 1..(k - 1 + 1) : src[i] = e[1 + i - 1]
    BY <1>7, <1>8
  <2>2. Len(src) = k
    BY <2>1
  <2>3. ASSUME NEW i \in 1..k PROVE src[i] = e[i]
    <3>1. src[i] = e[1 + i - 1] /\ 1 + i - 1 = i
      BY <2>1
    <3> QED  BY <3>1
  <2> QED  BY <2>2, <2>3
<1>10. ~Refuses(src) /\ ~TakesFrame(src)
  <2>1. CASE k < 4
    BY <1>9, <2>1 DEF Refuses, TakesFrame, HasHeader, HeaderLen
  <2>2. CASE k >= 4
    <3>1. src[1] = 1 /\ src[2] = hi /\ src[3] = lo
      BY <1>2, <1>9, <2>2
    <3>2. BodyLen(src) = n
      BY <1>2, <3>1 DEF BodyLen, Byte
    <3>3. ~Refuses(src)
      BY <3>1 DEF Refuses, METALBOND_VERSION
    <3>4. ~(Len(src) >= HeaderLen + BodyLen(src))
      BY <1>4, <1>9, <3>2 DEF HeaderLen
    <3> QED  BY <3>3, <3>4 DEF TakesFrame
  <2> QED  BY <2>1, <2>2
<1>11. Waits(src) /\ RestOf(src) = src
  BY <1>10 DEF Waits, RestOf
<1> QED  BY <1>2, <1>8, <1>11

(* Whatever arrives, a frame that is taken makes the buffer shorter: the   *)
(* loop over the buffer ends, also with frames that cannot be read.        *)
THEOREM FramesAreTaken ==
    ASSUME NEW src \in Seq(Byte), TakesFrame(src)
    PROVE  Len(RestOf(src)) < Len(src)
<1>1. PICK l \in Nat : l = Len(src)
  BY LenProperties
<1>2. l >= 4
  BY <1>1 DEF TakesFrame, HasHeader, HeaderLen
<1>3. 2 \in 1..Len(src) /\ 3 \in 1..Len(src)
  BY <1>1, <1>2
<1>4. src[2] \in Byte /\ src[3] \in Byte
  BY <1>3, ElementOfSeq
<1>5. PICK hi \in Byte, lo \in Byte : hi = src[2] /\ lo = src[3]
  BY <1>4
<1>6. PICK n \in Nat : n = (256 * hi) + lo
  BY DEF Byte
<1>7. BodyLen(src) = n
  BY <1>5, <1>6 DEF BodyLen
<1>8. l >= 4 + n
  BY <1>1, <1>7 DEF TakesFrame, HeaderLen
<1>9. PICK f \in Nat : f = 5 + n
  OBVIOUS
<1>10. \A i \in f..l : i \in 1..Len(src)
  BY <1>1, <1>9
<1>11. \A i \in f..l : src[i] \in Byte
  BY <1>10, ElementOfSeq
<1>12. Len(SubSeq(src, f, l)) = IF f <= l THEN l - f + 1 ELSE 0
  BY <1>11, SubSeqProperties
<1>13. RestOf(src) = SubSeq(src, f, l)
  <2>1. HeaderLen + BodyLen(src) + 1 = f
    BY <1>7, <1>9 DEF HeaderLen
  <2> QED  BY <1>1, <2>1 DEF RestOf
<1>14. (IF f <= l THEN l - f + 1 ELSE 0) < l
  BY <1>2, <1>9
<1> QED  BY <1>1, <1>12, <1>13, <1>14

-----------------------------------------------------------------------------
(* Every destination and next hop of the program is taken by the other end *)
(* for what it is.                                                         *)
THEOREM RoutesAreRead ==
    /\ \A d \in Destinations :
          TakesDestination(WireDestination(d)) /\ DestinationOf(WireDestination(d)) = d
    /\ \A h \in NextHops : TakesNextHop(WireNextHop(h)) /\ NextHopOf(WireNextHop(h)) = h
<1>1. ASSUME NEW d \in Destinations
      PROVE  TakesDestination(WireDestination(d)) /\ DestinationOf(WireDestination(d)) = d
  <2>1. PICK a \in Addresses, n \in Byte : d = [address |-> a, length |-> n]
    BY DEF Destinations
  <2>2. n <= 8 * Len(a)
    BY <2>1 DEF Destinations
  <2>3. n % 256 = n
    BY ByteStays
  <2>4. WireDestination(d).prefix = a /\ WireDestination(d).length = n
    BY <2>1 DEF WireDestination
  <2> QED  BY <2>1, <2>2, <2>3, <2>4 DEF TakesDestination, DestinationOf
<1>2. ASSUME NEW h \in NextHops
      PROVE  TakesNextHop(WireNextHop(h)) /\ NextHopOf(WireNextHop(h)) = h
  <2>1. PICK a \in Addresses, v \in Nat, t \in HopTypes, f \in Port, g \in Port :
           h = [address |-> a, vni |-> v, type |-> t, from |-> f, to |-> g]
    BY DEF NextHops
  <2>2. f % 65536 = f /\ g % 65536 = g
    BY PortStays
  <2>3. HopTypeOf(t) = t
    BY DEF HopTypeOf
  <2>4. WireNextHop(h) = h
    BY <2>1 DEF WireNextHop
  <2>5. NextHopOf(h) = [address |-> a, vni |-> v, type |-> t, from |-> f, to |-> g]
    BY <2>1, <2>2, <2>3 DEF NextHopOf
  <2> QED  BY <2>1, <2>4, <2>5 DEF TakesNextHop
<1> QED  BY <1>1, <1>2

(* What is taken is a destination or next hop of the program, whatever the *)
(* wire held: numbers that do not fit are cut, never kept.                 *)
LEMMA TakenIsOurs ==
    /\ \A w \in WireDestinations : TakesDestination(w) => DestinationOf(w) \in Destinations
    /\ \A w \in WireNextHops : TakesNextHop(w) => NextHopOf(w) \in NextHops
<1>1. ASSUME NEW w \in WireDestinations, TakesDestination(w)
      PROVE  DestinationOf(w) \in Destinations
  <2>1. PICK n \in Nat, a \in Addresses : w.length = n /\ w.prefix = a
    BY <1>1 DEF WireDestinations, TakesDestination
  <2>2. n % 256 \in Byte
    BY CutToByte
  <2>3. n % 256 <= 8 * Len(a)
    BY <1>1, <2>1 DEF TakesDestination
  <2>4. DestinationOf(w) = [address |-> a, length |-> n % 256]
    BY <2>1 DEF DestinationOf
  <2>5. PICK k \in Byte : k = n % 256
    BY <2>2
  <2> QED  BY <2>3, <2>4, <2>5 DEF Destinations
<1>2. ASSUME NEW w \in WireNextHops, TakesNextHop(w)
      PROVE  NextHopOf(w) \in NextHops
  <2>1. PICK a \in Addresses, v \in Nat, t \in Int, f \in Nat, g \in Nat :
           w = [address |-> a, vni |-> v, type |-> t, from |-> f, to |-> g]
    BY <1>2 DEF WireNextHops, TakesNextHop
  <2>2. f % 65536 \in Port /\ g % 65536 \in Port
    BY CutToPort
  <2>3. HopTypeOf(t) \in HopTypes
    BY DEF HopTypeOf, HopTypes, Standard
  <2>4. NextHopOf(w) = [address |-> a, vni |-> v, type |-> HopTypeOf(t),
                        from |-> f % 65536, to |-> g % 65536]
    BY <2>1 DEF NextHopOf
  <2> QED  BY <2>2, <2>3, <2>4 DEF NextHops
<1> QED  BY <1>1, <1>2

(* A server converts an UPDATE on its way in and again on its way out.     *)
(* The clients behind it end up with the route that the server has in its  *)
(* table, also if the sender's numbers had to be cut: nothing is cut twice *)
(* to something else, and nothing the server took is refused further on.   *)
THEOREM TakenIsPassedOn ==
    /\ \A w \in WireDestinations : TakesDestination(w) =>
          LET out == WireDestination(DestinationOf(w))
          IN  TakesDestination(out) /\ DestinationOf(out) = DestinationOf(w)
    /\ \A w \in WireNextHops : TakesNextHop(w) =>
          LET out == WireNextHop(NextHopOf(w))
          IN  TakesNextHop(out) /\ NextHopOf(out) = NextHopOf(w)
BY TakenIsOurs, RoutesAreRead
=============================================================================
