------------------------------ MODULE SshProofs ------------------------------
(***************************************************************************)
(* Theorems about SshTransport, for any number and sizes of packets, any   *)
(* place of the NEWKEYS, any sizes of the cipher's blocks, the MAC and the *)
(* buffer, and every way recv() and send() cut the streams: packets reach  *)
(* packet_add whole, once and in order, and what is on the wire is what    *)
(* libssh2_packet_write said it sent.                                      *)
(***************************************************************************)
EXTENDS SshTransport, SshKeyProofs

\* A byte, and what session->packet holds on the receiving side.
Bytewise == [of : Nat, at : Nat, form : {"plain", "cipher", "noise"}]

Packets ==
  [total : Nat, init : Seq(Bytewise), payload : Seq(Bytewise), buf : Seq(Bytewise)]

\* The packet at hand: the one being collected, or the one given to packet_add
\* last while that has not returned 0.
Arriving == Len(received) + (IF fullpacket THEN 0 ELSE 1)

\* How far it is in the stream, and how much of it is decrypted.
Unpacked(p) == Len(p.init) + Len(p.payload)

\* The buffer holds what follows in the stream.
Following(k, p) ==
  /\ Bytes[k - 1] + Unpacked(p) + Len(p.buf) <= Len(Stream)
  /\ \A i \in 1..Len(p.buf) : p.buf[i] = Stream[Bytes[k - 1] + Unpacked(p) + i]

\* What has been collected are the first bytes of packet k, in plain text.
Deciphered(k, p) ==
  IF p.total = 0
    THEN p.init = <<>> /\ p.payload = <<>>
    ELSE /\ k \in 1..Count /\ p.total = Size[k] - Header
         /\ Len(p.init) = Header /\ Len(p.payload) <= p.total
         /\ \A i \in 1..Header : p.init[i] = Byte(k, i, "plain")
         /\ \A i \in 1..Len(p.payload) : p.payload[i] = Byte(k, Header + i, "plain")

\* The variables of the receiving side have their types.
ReceivingTypes ==
  /\ arrived \in 0..Len(Stream) /\ taken \in 0..arrived
  /\ packet \in Packets
  /\ Len(packet.buf) \in 0..BufSize
  /\ newkeys \in BOOLEAN /\ fullpacket \in BOOLEAN /\ jump \in BOOLEAN
  /\ call \in {"none", "again", "loop", "full", "add"}
  /\ received \in Seq([of : Nat, bytes : Nat, mac : BOOLEAN])
  /\ Len(received) \in 0..Count /\ seqno = Len(received) + 1

\* Between the calls no packet is at hand; inside one the keys are those of
\* the packet at hand, which is whole when it is checked and given away.
Calls ==
  /\ call = "none" =>
       /\ ~fullpacket /\ packet.total = 0
       /\ newkeys => Len(received) >= KeysAt
       /\ Len(received) > KeysAt => newkeys
  /\ call # "none" => newkeys = (Arriving > KeysAt)
  /\ jump <=> (call = "again" /\ fullpacket)
  /\ call = "loop" => ~fullpacket
  /\ call = "add" => fullpacket
  /\ call = "full" \/ fullpacket => Whole(packet)

\* Packets were received whole, confirmed, once and in order.
ReceivedWhole ==
  \A k \in DOMAIN received :
    received[k] = [of |-> k, bytes |-> Size[k] - Header, mac |-> TRUE]

\* Where the receiving side is in the stream.
InPlace ==
  /\ taken = Bytes[Arriving - 1] + Unpacked(packet) + Len(packet.buf)
  /\ Following(Arriving, packet) /\ Deciphered(Arriving, packet)

RInv == ReceivingTypes /\ Calls /\ ReceivedWhole /\ InPlace

\* The sending side: what is kept in outbuf is some of the message it belongs
\* to, and nothing only after a part has been taken for all of it.
SendingTypes ==
  /\ sent \in Seq(1..Messages) /\ wire \in Seq(Bytewise) /\ cut \in BOOLEAN
  /\ \/ out = Empty
     \/ /\ out \in [data : 1..Messages, rest : Seq(Bytewise)]
        /\ out.rest = <<>> => cut

SInv == SendingTypes /\ WrittenIsSent

IInv == RInv /\ SInv

-----------------------------------------------------------------------------
(***************************************************************************)
(* The streams.                                                            *)
(***************************************************************************)
\* The constants, one fact at a time.
LEMMA Constants ==
  /\ Count \in Nat \ {0} /\ Header \in Nat \ {0} /\ BlockSize \in Nat \ {0}
  /\ MacLen \in Nat \ {0} /\ BufSize \in Nat \ {0} /\ OutSize \in Nat \ {0}
  /\ KeysAt \in Nat /\ Messages \in Nat
  /\ Header <= BlockSize /\ BlockSize <= BufSize
  /\ \A k \in 1..Count : Size[k] \in Nat /\ Size[k] > Header
  /\ \A k \in 1..Count : k > KeysAt => Size[k] > BlockSize + MacLen
<1>1. \A k \in 1..Count : k > KeysAt => k \in (KeysAt + 1)..Count
  BY SizesAssumption
<1>. QED
  BY <1>1, SizesAssumption

\* The same without the sizes, and the size of one packet.
LEMMA ConstantTypes ==
  /\ Count \in Nat \ {0} /\ Header \in Nat \ {0} /\ BlockSize \in Nat \ {0}
  /\ MacLen \in Nat \ {0} /\ BufSize \in Nat \ {0} /\ OutSize \in Nat \ {0}
  /\ KeysAt \in Nat /\ Messages \in Nat
  /\ Header <= BlockSize /\ BlockSize <= BufSize
  BY Constants

LEMMA SizeOf ==
  ASSUME NEW k \in 1..Count
  PROVE  /\ k \in Nat \ {0} /\ Size[k] \in Nat /\ Size[k] > Header
         /\ k > KeysAt => Size[k] > BlockSize + MacLen
<1>1. k \in Nat \ {0}
  BY ConstantTypes
<1>. QED
  BY <1>1, Constants

\* The numbers of packets, and of packets before a packet.
LEMMA Numbers ==
  /\ 0 \in 0..Count /\ Count \in 0..Count
  /\ \A k \in 1..Count : k \in 0..Count /\ k - 1 \in 0..Count /\ k # 0 /\ k \in Nat
<1>1. Count \in Nat
  BY Constants
<1>. QED
  BY <1>1

\* The bytes of the first k packets are those of the packets before and of k.
LEMMA BytesUnfolds ==
  /\ Bytes \in [0..Count -> Nat] /\ Bytes[0] = 0
  /\ \A k \in 1..Count : Bytes[k] = Bytes[k - 1] + Size[k]
<1> DEFINE Unfolds(f) == f = [k \in 0..Count |-> IF k = 0 THEN 0 ELSE f[k - 1] + Size[k]]
           h == [x \in (1..Count) \X Nat |-> x[2] + Size[x[1]]]
<1>1. PICK f \in [0..Count -> Nat] : f[0] = 0 /\ \A k \in 1..Count : f[k] = f[k - 1] + Size[k]
  <2>1. h \in [(1..Count) \X Nat -> Nat] /\ Count \in Nat /\ 0 \in Nat
    BY Constants
  <2>2. \A k \in 1..Count, b \in Nat : h[<<k, b>>] = b + Size[k]
    OBVIOUS
  <2> HIDE DEF h
  <2>3. PICK f \in [0..Count -> Nat] : f[0] = 0 /\ \A k \in 1..Count : f[k] = h[<<k, f[k - 1]>>]
    <3> DEFINE S == Nat
    <3>1. h \in [(1..Count) \X S -> S] /\ 0 \in S /\ Count \in Nat
      BY <2>1
    <3> HIDE DEF S
    <3>2. \E f : Recurs(f, Count, S, 0, h)
      BY <3>1, PrimitiveRecursion
    <3>. QED
      BY <3>2 DEF S, Recurs
  <2>4. \A k \in 1..Count : f[k - 1] \in Nat
    BY Numbers
  <2>. QED
    BY <2>2, <2>3, <2>4
<1>2. Unfolds(f)
  BY <1>1, Constants
<1>3. Bytes = CHOOSE g : Unfolds(g)
  BY DEF Bytes
<1>4. Unfolds(Bytes)
  <2> HIDE DEF Unfolds
  <2>. QED
    BY <1>2, <1>3
<1>5. Bytes[0] = 0 /\ \A k \in 1..Count : Bytes[k] = Bytes[k - 1] + Size[k]
  BY <1>4, Numbers
<1> DEFINE T == {k \in Nat : k <= Count => Bytes[k] \in Nat}
<1>6. \A k \in 0..Count : Bytes[k] \in Nat
  <2>1. 0 \in T
    BY <1>5
  <2>2. ASSUME NEW k \in Nat, k \in T PROVE k + 1 \in T
    <3>. SUFFICES ASSUME k + 1 <= Count PROVE Bytes[k + 1] \in Nat
      OBVIOUS
    <3>1. k + 1 \in 1..Count /\ (k + 1) - 1 = k /\ Bytes[k] \in Nat /\ Size[k + 1] \in Nat
      BY <2>2, Constants
    <3>. QED
      BY <1>5, <3>1
  <2> HIDE DEF T
  <2>3. Nat \subseteq T
    BY <2>1, <2>2, NatSetInduction
  <2>. QED
    BY <2>3, Constants DEF T
<1>. QED
  BY <1>4, <1>5, <1>6

\* A packet on the wire, and a message, are sequences of bytes.
LEMMA SealedBytes ==
  ASSUME NEW k \in 1..Count
  PROVE  /\ Encoded(k) \in Seq(Bytewise) /\ Len(Encoded(k)) = Size[k]
         /\ \A i \in 1..Size[k] :
              Encoded(k)[i] = Byte(k, i, IF k > KeysAt /\ i <= Size[k] - MacLen
                                          THEN "cipher" ELSE "plain")
<1>1. Size[k] \in Nat /\ k \in Nat
  BY Constants
<1>2. \A i \in 1..Size[k] :
        Byte(k, i, IF k > KeysAt /\ i <= Size[k] - MacLen THEN "cipher" ELSE "plain") \in Bytewise
  BY <1>1 DEF Byte, Bytewise
<1>. QED
  BY <1>1, <1>2 DEF Encoded

LEMMA MessageBytes ==
  ASSUME NEW m \in 1..Messages
  PROVE  Message(m) \in Seq(Bytewise) /\ Len(Message(m)) = OutSize
<1>1. \A i \in 1..OutSize : Byte(m, i, "plain") \in Bytewise
  BY Constants DEF Byte, Bytewise
<1>. QED
  BY <1>1, Constants DEF Message

\* The stream up to packet k is that up to the packet before, and packet k.
LEMMA StreamUnfolds ==
  /\ StreamTo \in [0..Count -> Seq(Bytewise)] /\ StreamTo[0] = <<>>
  /\ \A k \in 1..Count : StreamTo[k] = StreamTo[k - 1] \o Encoded(k)
<1> DEFINE S == Seq(Bytewise)
           Unfolds(f) == f = [k \in 0..Count |-> IF k = 0 THEN <<>> ELSE f[k - 1] \o Encoded(k)]
           h == [x \in (1..Count) \X S |-> x[2] \o Encoded(x[1])]
<1>1. PICK f \in [0..Count -> S] : f[0] = <<>> /\ \A k \in 1..Count : f[k] = f[k - 1] \o Encoded(k)
  <2>1. <<>> \in S /\ Count \in Nat
    BY EmptySeq, Constants
  <2>2. ASSUME NEW k \in 1..Count, NEW b \in S PROVE b \o Encoded(k) \in S
    BY SealedBytes, ConcatProperties
  <2> HIDE DEF S
  <2>3. h \in [(1..Count) \X S -> S]
    BY <2>2
  <2>4. \A k \in 1..Count, b \in S : h[<<k, b>>] = b \o Encoded(k)
    OBVIOUS
  <2> HIDE DEF h
  <2>5. PICK f : Recurs(f, Count, S, <<>>, h)
    BY <2>1, <2>3, PrimitiveRecursion
  <2>6. f \in [0..Count -> S] /\ f[0] = <<>> /\ \A k \in 1..Count : f[k] = h[<<k, f[k - 1]>>]
    BY <2>5 DEF Recurs
  <2>7. \A k \in 1..Count : f[k - 1] \in S
    BY <2>6, Numbers
  <2>. QED
    BY <2>4, <2>6, <2>7
<1> HIDE DEF S
<1>2. Unfolds(f)
  BY <1>1, Constants, SMTT(20)
<1>3. StreamTo = CHOOSE g : Unfolds(g)
  BY DEF StreamTo
<1>4. Unfolds(StreamTo)
  <2> HIDE DEF Unfolds
  <2>. QED
    BY <1>2, <1>3
<1>5. StreamTo[0] = <<>> /\ \A k \in 1..Count : StreamTo[k] = StreamTo[k - 1] \o Encoded(k)
  BY <1>4, Numbers
<1> DEFINE T == {k \in Nat : k <= Count => StreamTo[k] \in S}
<1>6. \A k \in 0..Count : StreamTo[k] \in S
  <2>1. 0 \in T
    BY <1>5, EmptySeq DEF S
  <2>2. ASSUME NEW k \in Nat, k \in T PROVE k + 1 \in T
    <3>. SUFFICES ASSUME k + 1 <= Count PROVE StreamTo[k + 1] \in S
      OBVIOUS
    <3>1. k + 1 \in 1..Count /\ (k + 1) - 1 = k /\ StreamTo[k] \in S
      BY <2>2, Constants
    <3>2. StreamTo[k] \o Encoded(k + 1) \in S
      BY <3>1, SealedBytes, ConcatProperties DEF S
    <3>. QED
      BY <1>5, <3>1, <3>2
  <2> HIDE DEF T
  <2>3. Nat \subseteq T
    BY <2>1, <2>2, NatSetInduction
  <2>. QED
    BY <2>3, Constants DEF T
<1>. QED
  BY <1>4, <1>5, <1>6 DEF S

\* The stream up to packet k is as long as its packets are, and byte i of any
\* of them is at its place.
LEMMA StreamToPlaces ==
  ASSUME NEW k \in 0..Count
  PROVE  /\ Len(StreamTo[k]) = Bytes[k]
         /\ \A j \in 1..k : Bytes[j] <= Bytes[k]
         /\ \A j \in 1..k : \A i \in 1..Size[j] :
              StreamTo[k][Bytes[j - 1] + i] = Encoded(j)[i]
<1> DEFINE P(n) == /\ Len(StreamTo[n]) = Bytes[n]
                   /\ \A j \in 1..n : Bytes[j] <= Bytes[n]
                   /\ \A j \in 1..n : \A i \in 1..Size[j] :
                        StreamTo[n][Bytes[j - 1] + i] = Encoded(j)[i]
           T == {n \in Nat : n <= Count => P(n)}
<1>1. 0 \in T
  <2>1. Len(StreamTo[0]) = Bytes[0]
    BY BytesUnfolds, StreamUnfolds
  <2>. QED
    BY <2>1
<1>2. ASSUME NEW n \in Nat, n \in T PROVE n + 1 \in T
  <2>. SUFFICES ASSUME n + 1 <= Count PROVE P(n + 1)
    OBVIOUS
  <2>1. /\ n + 1 \in 1..Count /\ n \in 0..Count /\ n + 1 \in 0..Count /\ (n + 1) - 1 = n /\ P(n)
    BY <1>2, Constants
  <2> DEFINE a == StreamTo[n]
             b == Encoded(n + 1)
             c == StreamTo[n + 1]
  <2>2. /\ c = a \o b /\ a \in Seq(Bytewise) /\ b \in Seq(Bytewise)
        /\ Len(a) = Bytes[n] /\ Len(b) = Size[n + 1]
        /\ Bytes[n] \in Nat /\ Size[n + 1] \in Nat /\ Bytes[n + 1] = Bytes[n] + Size[n + 1]
    BY <2>1, StreamUnfolds, SealedBytes, BytesUnfolds, Constants
  <2>3. \A j \in 1..n : j \in 1..Count /\ j - 1 \in 0..Count
    <3>1. n <= Count /\ Count \in Nat
      BY <2>1, Constants
    <3>. QED
      BY <3>1
  <2>4. \A j \in 1..n : /\ Bytes[j - 1] \in Nat /\ Size[j] \in Nat /\ Bytes[j] \in Nat
                        /\ Bytes[j] = Bytes[j - 1] + Size[j] /\ Bytes[j] <= Bytes[n]
    BY <2>1, <2>3, BytesUnfolds, Constants
  <2>8. \A j \in 1..n : \A i \in 1..Size[j] : a[Bytes[j - 1] + i] = Encoded(j)[i]
    BY <2>1
  <2> HIDE DEF a, b, c
  <2>5. /\ Len(c) = Len(a) + Len(b)
        /\ \A i \in 1..(Len(a) + Len(b)) : c[i] = IF i <= Len(a) THEN a[i] ELSE b[i - Len(a)]
    BY <2>2, ConcatProperties
  <2>6. \A j \in 1..(n + 1) : Bytes[j] <= Bytes[n + 1]
    BY <2>2, <2>4
  <2>7. ASSUME NEW j \in 1..(n + 1), NEW i \in 1..Size[j]
        PROVE  c[Bytes[j - 1] + i] = Encoded(j)[i]
    <3>1. CASE j = n + 1
      <4>1. i \in Nat /\ Bytes[n] + i \in 1..(Len(a) + Len(b)) /\ ~(Bytes[n] + i <= Len(a))
            /\ (Bytes[n] + i) - Len(a) = i
        BY <2>2, <3>1
      <4>2. c[Bytes[n] + i] = b[i]
        BY <2>5, <4>1
      <4>. QED
        BY <2>1, <3>1, <4>2 DEF b
    <3>2. CASE j \in 1..n
      <4>1. Bytes[j - 1] + i \in 1..(Len(a) + Len(b)) /\ Bytes[j - 1] + i <= Len(a)
        BY <2>2, <2>4, <3>2, SMTT(20)
      <4>. QED
        BY <2>5, <2>8, <3>2, <4>1
    <3>. QED
      BY <3>1, <3>2
  <2>. QED
    BY <2>2, <2>5, <2>6, <2>7 DEF c
<1> HIDE DEF T
<1>3. k \in T
  BY <1>1, <1>2, NatSetInduction
<1>. QED
  BY <1>3 DEF T

\* The same of the whole stream.
LEMMA StreamPlaces ==
  /\ Stream \in Seq(Bytewise) /\ Len(Stream) \in Nat /\ Len(Stream) = Bytes[Count]
  /\ \A k \in 1..Count : /\ Bytes[k - 1] \in Nat /\ Bytes[k] \in Nat
                         /\ Bytes[k] = Bytes[k - 1] + Size[k] /\ Bytes[k] <= Len(Stream)
  /\ \A k \in 1..Count : \A i \in 1..Size[k] :
       Stream[Bytes[k - 1] + i] = Byte(k, i, IF k > KeysAt /\ i <= Size[k] - MacLen
                                               THEN "cipher" ELSE "plain")
<1>2. Stream \in Seq(Bytewise) /\ Len(Stream) = Bytes[Count] /\ Bytes[Count] \in Nat
  BY Numbers, StreamUnfolds, StreamToPlaces, BytesUnfolds DEF Stream
<1>3. \A k \in 1..Count : /\ Bytes[k - 1] \in Nat /\ Bytes[k] \in Nat
                          /\ Bytes[k] = Bytes[k - 1] + Size[k] /\ Bytes[k] <= Bytes[Count]
  BY Numbers, StreamToPlaces, BytesUnfolds
<1>4. ASSUME NEW k \in 1..Count, NEW i \in 1..Size[k]
      PROVE  Stream[Bytes[k - 1] + i] = Byte(k, i, IF k > KeysAt /\ i <= Size[k] - MacLen
                                                     THEN "cipher" ELSE "plain")
  BY Numbers, StreamToPlaces, SealedBytes DEF Stream
<1>. QED
  BY <1>2, <1>3, <1>4

-----------------------------------------------------------------------------
(***************************************************************************)
(* Receiving, one turn of the loop.                                        *)
(***************************************************************************)
\* decrypt keeps the places of the bytes, and makes plain text of the cipher's.
LEMMA Decrypts ==
  ASSUME NEW str \in Seq(Bytewise)
  PROVE  /\ Decrypt(str) \in Seq(Bytewise) /\ Len(Decrypt(str)) = Len(str)
         /\ \A i \in 1..Len(str), k, j \in Nat :
              str[i] = Byte(k, j, "cipher") => Decrypt(str)[i] = Byte(k, j, "plain")
<1>1. Len(str) \in Nat /\ DOMAIN str = 1..Len(str) /\ \A i \in 1..Len(str) : str[i] \in Bytewise
  BY LenProperties
<1> DEFINE g == [i \in 1..Len(str) |->
                   [str[i] EXCEPT !.form = IF @ = "cipher" THEN "plain" ELSE "noise"]]
<1>2. Decrypt(str) = g
  BY <1>1 DEF Decrypt
<1>3. \A b \in Bytewise :
        [b EXCEPT !.form = IF @ = "cipher" THEN "plain" ELSE "noise"] \in Bytewise
  BY DEF Bytewise
<1>4. \A i \in 1..Len(str) : g[i] \in Bytewise
  BY <1>1, <1>3
<1>5. g \in Seq(Bytewise) /\ Len(g) = Len(str)
  BY <1>1, <1>4
<1>6. ASSUME NEW i \in 1..Len(str), NEW k \in Nat, NEW j \in Nat, str[i] = Byte(k, j, "cipher")
      PROVE  g[i] = Byte(k, j, "plain")
  BY <1>6 DEF Byte
<1>. QED
  BY <1>2, <1>5, <1>6

\* Where packet k is in the stream.
LEMMA PlaceOf ==
  ASSUME NEW k \in 1..Count
  PROVE  /\ Bytes[k - 1] \in Nat /\ Bytes[k] \in Nat /\ Len(Stream) \in Nat
         /\ Bytes[k] = Bytes[k - 1] + Size[k] /\ Bytes[k] <= Len(Stream)
  BY StreamPlaces

\* What is in the buffer for the packet at hand.
LEMMA FollowingBytes ==
  ASSUME NEW k \in 1..Count, NEW p \in Packets, Following(k, p)
  PROVE  \A i \in 1..Len(p.buf) : Unpacked(p) + i <= Size[k] =>
           p.buf[i] = Byte(k, Unpacked(p) + i, IF k > KeysAt /\ Unpacked(p) + i <= Size[k] - MacLen
                                              THEN "cipher" ELSE "plain")
<1>. SUFFICES ASSUME NEW i \in 1..Len(p.buf), Unpacked(p) + i <= Size[k]
              PROVE  p.buf[i] = Byte(k, Unpacked(p) + i,
                                     IF k > KeysAt /\ Unpacked(p) + i <= Size[k] - MacLen
                                       THEN "cipher" ELSE "plain")
  OBVIOUS
<1> DEFINE j == Unpacked(p) + i
<1>1. Len(p.init) \in Nat /\ Len(p.payload) \in Nat /\ Len(p.buf) \in Nat
  BY LenProperties DEF Packets
<1>2. j \in 1..Size[k] /\ Unpacked(p) \in Nat /\ i \in Nat /\ Bytes[k - 1] \in Nat
  <2>1. Size[k] \in Nat /\ Bytes[k - 1] \in Nat
    BY SizeOf, PlaceOf
  <2>2. Unpacked(p) \in Nat
    <3> DEFINE x == Len(p.init)
               y == Len(p.payload)
    <3>1. x \in Nat /\ y \in Nat /\ Unpacked(p) = x + y
      BY <1>1 DEF Unpacked
    <3> HIDE DEF x, y
    <3>. QED
      BY <3>1
  <2>3. i \in Nat /\ i >= 1
    BY <1>1
  <2>. QED
    BY <2>1, <2>2, <2>3
<1>3. p.buf[i] = Stream[Bytes[k - 1] + Unpacked(p) + i]
  BY DEF Following
<1>4. Bytes[k - 1] + Unpacked(p) + i = Bytes[k - 1] + j
  BY <1>2
<1> HIDE DEF j
<1>5. p.buf[i] = Stream[Bytes[k - 1] + j]
  BY <1>3, <1>4
<1>6. p.buf[i] = Byte(k, j, IF k > KeysAt /\ j <= Size[k] - MacLen THEN "cipher" ELSE "plain")
  BY <1>2, <1>5, StreamPlaces
<1>. QED
  BY <1>6 DEF j

\* The first block of a packet gives its header, in plain text, and so its
\* length; the buffer holds what follows.
LEMMA FirstBlockOpens ==
  ASSUME NEW k \in 1..(Count + 1), NEW p \in Packets, newkeys = (k > KeysAt),
         p.total = 0, Deciphered(k, p), Following(k, p), Len(p.buf) >= blocksize
  PROVE  /\ k \in 1..Count
         /\ FirstBlock(p) \in Packets /\ FirstBlock(p).total # 0
         /\ Deciphered(k, FirstBlock(p)) /\ Following(k, FirstBlock(p))
         /\ Unpacked(FirstBlock(p)) + Len(FirstBlock(p).buf) = Unpacked(p) + Len(p.buf)
         /\ Len(FirstBlock(p).buf) <= Len(p.buf)
<1> DEFINE n == blocksize
           b == p.buf
           raw == SubSeq(b, 1, n)
           block == IF newkeys THEN Decrypt(raw) ELSE raw
           init == SubSeq(block, 1, Header)
           payload == SubSeq(block, Header + 1, n)
           left == SubSeq(b, n + 1, Len(b))
<1>1. /\ n \in Nat \ {0} /\ Header <= n /\ n <= Len(b)
      /\ b \in Seq(Bytewise) /\ Len(b) \in Nat /\ Unpacked(p) = 0
      /\ Bytes[k - 1] \in Nat
  <2>1. k - 1 \in 0..Count
    BY Constants
  <2>. QED
    BY <2>1, Constants, LenProperties, BytesUnfolds DEF blocksize, Packets, Deciphered, Unpacked
<1>2. k \in 1..Count
  <2>1. SUFFICES ASSUME k = Count + 1 PROVE FALSE
    BY Constants
  <2>2. Bytes[k - 1] = Len(Stream)
    BY <2>1, Constants, StreamPlaces
  <2>. QED
    BY <2>2, <1>1 DEF Following
<1>3. n <= Size[k] /\ (newkeys => n <= Size[k] - MacLen) /\ Size[k] \in Nat
  <2>1. /\ Size[k] \in Nat /\ Size[k] > Header
        /\ k > KeysAt => Size[k] > BlockSize + MacLen
    BY <1>2, SizeOf
  <2>2. CASE newkeys
    <3>1. k > KeysAt
      BY <2>2
    <3>2. n = BlockSize
      BY <2>2 DEF blocksize
    <3>3. Size[k] > BlockSize + MacLen
      BY <2>1, <3>1
    <3> HIDE DEF n
    <3>. QED
      BY <2>1, <3>2, <3>3, ConstantTypes
  <2>3. CASE ~newkeys
    BY <2>1, <2>3, ConstantTypes DEF blocksize
  <2>. QED
    BY <2>2, <2>3
<1>4. \A i \in 1..n : b[i] = Byte(k, i, IF newkeys THEN "cipher" ELSE "plain")
  <2>. TAKE i \in 1..n
  <2>1. i \in 1..Len(b) /\ Unpacked(p) + i = i /\ i <= Size[k] /\ (newkeys => i <= Size[k] - MacLen)
    <3>1. i \in Nat /\ i <= n /\ i >= 1
      BY <1>1
    <3>2. i \in 1..Len(b) /\ Unpacked(p) + i = i
      BY <1>1, <3>1
    <3>3. i <= Size[k]
      BY <1>1, <1>3, <3>1
    <3>4. newkeys => i <= Size[k] - MacLen
      BY <1>1, <1>3, <3>1, ConstantTypes
    <3>. QED
      BY <3>2, <3>3, <3>4
  <2>2. b[i] = Byte(k, i, IF k > KeysAt /\ i <= Size[k] - MacLen THEN "cipher" ELSE "plain")
    BY <1>2, <2>1, FollowingBytes
  <2>. QED
    BY <2>1, <2>2
<1>5. /\ raw \in Seq(Bytewise) /\ Len(raw) = n /\ \A i \in 1..n : raw[i] = b[i]
  <2>1. n \in 0..Len(b) /\ 1 \in 1..(n + 1) /\ n - 1 + 1 = n /\ \A i \in 1..n : 1 - 1 + i = i
    BY <1>1
  <2> HIDE DEF n, b
  <2>2. /\ SubSeq(b, 1, n) \in Seq(Bytewise) /\ Len(SubSeq(b, 1, n)) = n - 1 + 1
        /\ \A i \in 1..(n - 1 + 1) : SubSeq(b, 1, n)[i] = b[1 - 1 + i]
    BY <1>1, <2>1, Stretch
  <2>. QED
    BY <2>1, <2>2
<1>6. /\ left \in Seq(Bytewise) /\ Len(left) = Len(b) - n
      /\ \A i \in 1..(Len(b) - n) : left[i] = b[n + i]
  <2>1. Len(b) \in 0..Len(b) /\ n + 1 \in 1..(Len(b) + 1) /\ Len(b) - (n + 1) + 1 = Len(b) - n
        /\ \A i \in 1..(Len(b) - n) : (n + 1) - 1 + i = n + i
    BY <1>1
  <2> HIDE DEF n, b
  <2>2. /\ left \in Seq(Bytewise) /\ Len(left) = Len(b) - (n + 1) + 1
        /\ \A i \in 1..(Len(b) - (n + 1) + 1) : left[i] = b[(n + 1) - 1 + i]
    <3>1. left = SubSeq(b, n + 1, Len(b)) /\ b \in Seq(Bytewise)
      BY <1>1
    <3> HIDE DEF left
    <3>. QED
      BY <2>1, <3>1, Stretch
  <2>. QED
    BY <2>1, <2>2
<1>7. /\ block \in Seq(Bytewise) /\ Len(block) = n
      /\ \A i \in 1..n : block[i] = Byte(k, i, "plain")
  <2> HIDE DEF n, b, raw
  <2>1. CASE newkeys
    <3>1. \A i \in 1..n : raw[i] = Byte(k, i, "cipher") /\ i \in Nat
      BY <1>1, <1>4, <1>5, <2>1
    <3>. QED
      BY <1>2, <1>5, <2>1, <3>1, Decrypts
  <2>2. CASE ~newkeys
    BY <1>4, <1>5, <2>2
  <2>. QED
    BY <2>1, <2>2
<1> HIDE DEF n, b, raw, block, left
<1>8. /\ init \in Seq(Bytewise) /\ Len(init) = Header
      /\ \A i \in 1..Header : init[i] = Byte(k, i, "plain")
  <2>1. Header \in 0..Len(block) /\ 1 \in 1..(Header + 1) /\ Header - 1 + 1 = Header
        /\ \A i \in 1..Header : 1 - 1 + i = i /\ i \in 1..n
    BY <1>1, <1>7, Constants
  <2>2. /\ init \in Seq(Bytewise) /\ Len(init) = Header - 1 + 1
        /\ \A i \in 1..(Header - 1 + 1) : init[i] = block[1 - 1 + i]
    BY <1>7, <2>1, Stretch
  <2>. QED
    BY <1>7, <2>1, <2>2
<1>9. /\ payload \in Seq(Bytewise) /\ Len(payload) = n - Header
      /\ \A i \in 1..(n - Header) : payload[i] = Byte(k, Header + i, "plain")
  <2>1. n \in 0..Len(block) /\ Header + 1 \in 1..(n + 1) /\ n - (Header + 1) + 1 = n - Header
        /\ \A i \in 1..(n - Header) : (Header + 1) - 1 + i = Header + i /\ Header + i \in 1..n
    BY <1>1, <1>7, Constants
  <2>2. /\ payload \in Seq(Bytewise) /\ Len(payload) = n - (Header + 1) + 1
        /\ \A i \in 1..(n - (Header + 1) + 1) : payload[i] = block[(Header + 1) - 1 + i]
    BY <1>7, <2>1, Stretch
  <2>. QED
    BY <1>7, <2>1, <2>2
<1>10. HeaderOf(block) = k
  <2>1. 1 \in 1..n /\ \A i \in 1..Header : i \in 1..n
    BY <1>1, Constants
  <2>2. block[1].of = k
    BY <1>7, <2>1 DEF Byte
  <2>. QED
    BY <1>7, <2>1, <2>2 DEF HeaderOf
<1> HIDE DEF init, payload
<1> DEFINE q == FirstBlock(p)
<1>11. q = [total |-> Size[k] - Header, init |-> init, payload |-> payload, buf |-> left]
  <2>1. k # 0
    BY <1>2
  <2>2. q = [total |-> IF HeaderOf(block) = 0 THEN BufSize * Len(Stream)
                       ELSE Size[HeaderOf(block)] - Header,
             init |-> init, payload |-> payload, buf |-> left]
    BY DEF FirstBlock, n, b, raw, block, init, payload, left
  <2>. QED
    BY <1>10, <2>1, <2>2
<1> HIDE DEF q
<1>12. /\ q \in Packets /\ q.total = Size[k] - Header /\ q.init = init
       /\ q.payload = payload /\ q.buf = left
  <2>1. Size[k] - Header \in Nat
    BY <1>2, Constants
  <2>. QED
    BY <1>6, <1>8, <1>9, <1>11, <2>1 DEF Packets
<1>13. Size[k] - Header # 0 /\ Unpacked(q) = n /\ Len(left) = Len(b) - n
  BY <1>1, <1>2, <1>6, <1>8, <1>9, <1>12, SizeOf, ConstantTypes DEF Unpacked
<1>14. Deciphered(k, q)
  BY <1>1, <1>2, <1>3, <1>8, <1>9, <1>12, <1>13, Constants DEF Deciphered
<1>15. Following(k, q)
  <2>1. Bytes[k - 1] + n + Len(left) <= Len(Stream)
    BY <1>1, <1>13 DEF Following, b
  <2>2. ASSUME NEW i \in 1..(Len(b) - n) PROVE left[i] = Stream[Bytes[k - 1] + n + i]
    <3>1. n + i \in 1..Len(b) /\ Bytes[k - 1] + 0 + (n + i) = Bytes[k - 1] + n + i
      BY <1>1
    <3>2. b[n + i] = Stream[Bytes[k - 1] + 0 + (n + i)]
      BY <1>1, <3>1 DEF Following, b
    <3>. QED
      BY <1>6, <3>1, <3>2
  <2>. QED
    BY <1>12, <1>13, <2>1, <2>2 DEF Following
<1>16. Unpacked(q) + Len(q.buf) = Unpacked(p) + Len(p.buf) /\ Len(q.buf) <= Len(p.buf)
  BY <1>1, <1>12, <1>13 DEF b
<1>. QED
  BY <1>2, <1>12, <1>13, <1>14, <1>15, <1>16 DEF q

\* A part of a number of bytes in whole blocks is no more than they are.
LEMMA WholeBlocks ==
  ASSUME NEW n \in Nat
  PROVE  n - (n % BlockSize) \in 0..n
<1> DEFINE r == n % BlockSize
           d == n \div BlockSize
           e == BlockSize * d
<1>1. r \in 0..(BlockSize - 1) /\ d \in Int /\ n = e + r /\ e \in Int
  BY ConstantTypes
<1>2. d >= 0
  <2>. SUFFICES ASSUME d <= -1 PROVE FALSE
    BY <1>1
  <2>1. \A x, y \in Int : x > 0 /\ y <= -1 => x * y <= -x
    OBVIOUS
  <2> HIDE DEF d
  <2>2. e <= -BlockSize
    BY <1>1, <2>1, ConstantTypes
  <2> HIDE DEF e, r
  <2>. QED
    BY <1>1, <2>2, ConstantTypes
<1>3. e >= 0
  <2>1. \A x, y \in Int : x >= 0 /\ y >= 0 => x * y >= 0
    OBVIOUS
  <2> HIDE DEF d
  <2>. QED
    BY <1>1, <1>2, <2>1, ConstantTypes
<1> HIDE DEF e, r
<1>4. n - r \in 0..n
  BY <1>1, <1>3, ConstantTypes
<1>. QED
  BY <1>4 DEF r

\* How many bytes of the buffer one turn decrypts and copies: no more than the
\* packet lacks, none of the cipher's is copied and none of the MAC decrypted.
Turn(p) ==
  LET data    == Len(p.payload)
      left    == p.total - data
      bytes   == IF Len(p.buf) > left THEN left ELSE Len(p.buf)
      sealed  == p.total - MacLen
      decrypt == IF ~newkeys \/ data >= sealed THEN 0
                 ELSE IF data + bytes > sealed THEN sealed - data
                 ELSE bytes - (bytes % BlockSize)
      copied  == IF ~newkeys THEN bytes
                 ELSE IF data + bytes > sealed THEN bytes - decrypt ELSE 0
  IN  [decrypt |-> decrypt, used |-> decrypt + copied]

LEMMA TurnBounds ==
  ASSUME NEW p \in Packets, Len(p.payload) <= p.total, newkeys \in BOOLEAN
  PROVE  /\ Turn(p).decrypt \in Nat /\ Turn(p).used \in Nat
         /\ Turn(p).decrypt <= Turn(p).used /\ Turn(p).used <= Len(p.buf)
         /\ Len(p.payload) + Turn(p).used <= p.total
         /\ ~newkeys => Turn(p).decrypt = 0
         /\ newkeys /\ Turn(p).decrypt > 0 => Len(p.payload) + Turn(p).decrypt <= p.total - MacLen
         /\ newkeys /\ Turn(p).decrypt < Turn(p).used =>
              Len(p.payload) + Turn(p).decrypt >= p.total - MacLen
<1> DEFINE data    == Len(p.payload)
           total   == p.total
           size    == Len(p.buf)
           left    == total - data
           bytes   == IF size > left THEN left ELSE size
           sealed  == total - MacLen
           rest    == bytes % BlockSize
           decrypt == IF ~newkeys \/ data >= sealed THEN 0
                      ELSE IF data + bytes > sealed THEN sealed - data
                      ELSE bytes - rest
           copied  == IF ~newkeys THEN bytes
                      ELSE IF data + bytes > sealed THEN bytes - decrypt ELSE 0
<1>1. data \in Nat /\ total \in Nat /\ size \in Nat /\ data <= total
  BY LenProperties DEF Packets
<1>2. Turn(p) = [decrypt |-> decrypt, used |-> decrypt + copied]
  BY DEF Turn
<1> HIDE DEF data, total, size
<1>3. bytes \in Nat /\ bytes <= size /\ data + bytes <= total
  BY <1>1
<1>4. bytes - rest \in 0..bytes
  BY <1>3, WholeBlocks
<1>5. sealed \in Int /\ sealed < total
  BY <1>1, ConstantTypes
<1> HIDE DEF bytes, rest, sealed
<1> DEFINE whole == bytes - rest
<1>6. whole \in Nat /\ whole <= bytes
  BY <1>3, <1>4
<1> HIDE DEF whole
<1>7. /\ decrypt \in Nat /\ copied \in Nat /\ decrypt + copied <= bytes
      /\ ~newkeys => decrypt = 0
      /\ newkeys /\ decrypt > 0 => data + decrypt <= sealed
      /\ newkeys /\ copied > 0 => data + decrypt >= sealed
  <2>1. decrypt = IF ~newkeys \/ data >= sealed THEN 0
                  ELSE IF data + bytes > sealed THEN sealed - data ELSE whole
    BY DEF whole
  <2> HIDE DEF decrypt
  <2>2. CASE ~newkeys
    BY <1>1, <1>3, <2>1, <2>2
  <2>3. CASE newkeys /\ data >= sealed
    BY <1>1, <1>3, <1>5, <2>1, <2>3
  <2>4. CASE newkeys /\ data < sealed /\ data + bytes > sealed
    BY <1>1, <1>3, <1>5, <2>1, <2>4
  <2>5. CASE newkeys /\ data < sealed /\ data + bytes <= sealed
    BY <1>1, <1>3, <1>5, <1>6, <2>1, <2>5
  <2>. QED
    BY <1>1, <1>3, <1>5, <2>2, <2>3, <2>4, <2>5
<1> HIDE DEF decrypt, copied
<1>8. /\ decrypt + copied \in Nat /\ decrypt <= decrypt + copied
      /\ decrypt + copied <= size /\ data + (decrypt + copied) <= total
      /\ (decrypt < decrypt + copied => copied > 0)
  BY <1>1, <1>3, <1>7
<1> DEFINE turn == Turn(p)
<1>9. turn.decrypt = decrypt /\ turn.used = decrypt + copied
  BY <1>2
<1> HIDE DEF turn
<1>10. /\ turn.decrypt \in Nat /\ turn.used \in Nat
       /\ turn.decrypt <= turn.used /\ turn.used <= size
       /\ data + turn.used <= total
       /\ ~newkeys => turn.decrypt = 0
       /\ newkeys /\ turn.decrypt > 0 => data + turn.decrypt <= sealed
       /\ newkeys /\ turn.decrypt < turn.used => data + turn.decrypt >= sealed
  BY <1>7, <1>8, <1>9
<1>. QED
  BY <1>10 DEF turn, data, total, size, sealed

\* A turn adds to what has been collected the bytes that follow, in plain text,
\* and leaves the others in the buffer.
LEMMA Collects ==
  ASSUME NEW k \in 1..Count, NEW p \in Packets, newkeys = (k > KeysAt), newkeys \in BOOLEAN,
         p.total # 0, Deciphered(k, p), Following(k, p)
  PROVE  /\ Collect(p) \in Packets /\ Collect(p).total = p.total
         /\ Deciphered(k, Collect(p)) /\ Following(k, Collect(p))
         /\ Unpacked(Collect(p)) + Len(Collect(p).buf) = Unpacked(p) + Len(p.buf)
         /\ Len(Collect(p).buf) <= Len(p.buf)
<1> DEFINE b == p.buf
           y == p.payload
           data == Len(y)
           decrypt == Turn(p).decrypt
           used == Turn(p).used
           head == SubSeq(b, 1, decrypt)
           mac == SubSeq(b, decrypt + 1, used)
           left == SubSeq(b, used + 1, Len(b))
           d == Decrypt(head)
           payload == (y \o d) \o mac
           q == Collect(p)
<1>1. /\ b \in Seq(Bytewise) /\ y \in Seq(Bytewise) /\ Len(b) \in Nat /\ data \in Nat
      /\ p.init \in Seq(Bytewise) /\ Len(p.init) = Header /\ p.total \in Nat
      /\ Bytes[k - 1] \in Nat /\ Size[k] \in Nat /\ k \in Nat
      /\ p.total = Size[k] - Header /\ data <= p.total
  BY LenProperties, PlaceOf, SizeOf DEF Packets, Deciphered
<1>3. /\ decrypt \in Nat /\ used \in Nat /\ decrypt <= used /\ used <= Len(b)
      /\ data + used <= p.total
      /\ ~newkeys => decrypt = 0
      /\ newkeys /\ decrypt > 0 => data + decrypt <= p.total - MacLen
      /\ newkeys /\ decrypt < used => data + decrypt >= p.total - MacLen
  BY <1>1, TurnBounds
<1>4. q = [total |-> p.total, init |-> p.init, payload |-> payload, buf |-> left]
  <2>1. p = [total |-> p.total, init |-> p.init, payload |-> p.payload, buf |-> p.buf]
    BY DEF Packets
  <2>2. q = [p EXCEPT !.payload = payload, !.buf = left]
    BY DEF Collect, Turn, payload, d, mac, head, left, b, y, decrypt, used
  <2> HIDE DEF payload, left, q
  <2>. QED
    BY <2>1, <2>2
<1>5. Unpacked(p) = Header + data
  BY <1>1 DEF Unpacked
<1> HIDE DEF b, y, decrypt, used
<1>6. \A i \in 1..Len(b) : Header + data + i <= Size[k] =>
        b[i] = Byte(k, Header + data + i,
                    IF k > KeysAt /\ Header + data + i <= Size[k] - MacLen
                      THEN "cipher" ELSE "plain")
  BY <1>5, FollowingBytes DEF b
<1> HIDE DEF data
<1>7. /\ head \in Seq(Bytewise) /\ Len(head) = decrypt
      /\ \A i \in 1..decrypt : head[i] = b[i]
  <2>1. decrypt \in 0..Len(b) /\ 1 \in 1..(decrypt + 1) /\ decrypt - 1 + 1 = decrypt
        /\ \A i \in 1..decrypt : 1 - 1 + i = i
    BY <1>1, <1>3
  <2>2. /\ head \in Seq(Bytewise) /\ Len(head) = decrypt - 1 + 1
        /\ \A i \in 1..(decrypt - 1 + 1) : head[i] = b[1 - 1 + i]
    BY <1>1, <2>1, Stretch
  <2>. QED
    BY <2>1, <2>2
<1>8. /\ mac \in Seq(Bytewise) /\ Len(mac) = used - decrypt
      /\ \A i \in 1..(used - decrypt) : mac[i] = b[decrypt + i]
  <2>1. used \in 0..Len(b) /\ decrypt + 1 \in 1..(used + 1)
        /\ used - (decrypt + 1) + 1 = used - decrypt
        /\ \A i \in 1..(used - decrypt) : (decrypt + 1) - 1 + i = decrypt + i
    BY <1>1, <1>3
  <2>2. /\ mac \in Seq(Bytewise) /\ Len(mac) = used - (decrypt + 1) + 1
        /\ \A i \in 1..(used - (decrypt + 1) + 1) : mac[i] = b[(decrypt + 1) - 1 + i]
    <3> DEFINE m == decrypt + 1
    <3>1. b \in Seq(Bytewise) /\ used \in 0..Len(b) /\ m \in 1..(used + 1)
      BY <1>1, <2>1
    <3> HIDE DEF m
    <3>2. /\ SubSeq(b, m, used) \in Seq(Bytewise) /\ Len(SubSeq(b, m, used)) = used - m + 1
          /\ \A i \in 1..(used - m + 1) : SubSeq(b, m, used)[i] = b[m - 1 + i]
      BY <3>1, Stretch
    <3>. QED
      BY <3>2 DEF m
  <2>. QED
    BY <2>1, <2>2
<1>9. /\ left \in Seq(Bytewise) /\ Len(left) = Len(b) - used
      /\ \A i \in 1..(Len(b) - used) : left[i] = b[used + i]
  <2>1. Len(b) \in 0..Len(b) /\ used + 1 \in 1..(Len(b) + 1)
        /\ Len(b) - (used + 1) + 1 = Len(b) - used
        /\ \A i \in 1..(Len(b) - used) : (used + 1) - 1 + i = used + i
    BY <1>1, <1>3
  <2>2. /\ left \in Seq(Bytewise) /\ Len(left) = Len(b) - (used + 1) + 1
        /\ \A i \in 1..(Len(b) - (used + 1) + 1) : left[i] = b[(used + 1) - 1 + i]
    <3> DEFINE m == used + 1
               n == Len(b)
    <3>1. b \in Seq(Bytewise) /\ n \in 0..Len(b) /\ m \in 1..(n + 1)
      BY <1>1, <2>1
    <3> HIDE DEF m, n
    <3>2. /\ SubSeq(b, m, n) \in Seq(Bytewise) /\ Len(SubSeq(b, m, n)) = n - m + 1
          /\ \A i \in 1..(n - m + 1) : SubSeq(b, m, n)[i] = b[m - 1 + i]
      BY <3>1, Stretch
    <3>. QED
      BY <3>2 DEF m, n
  <2>. QED
    BY <2>1, <2>2
<1> HIDE DEF head, mac, left
<1>10. /\ d \in Seq(Bytewise) /\ Len(d) = decrypt
       /\ \A i \in 1..decrypt : d[i] = Byte(k, Header + data + i, "plain")
  <2>1. ASSUME NEW i \in 1..decrypt
        PROVE  head[i] = Byte(k, Header + data + i, "cipher") /\ Header + data + i \in Nat
    <3>1. decrypt > 0 /\ newkeys /\ i \in Nat /\ i <= decrypt /\ i >= 1
      BY <1>3
    <3>2. data + decrypt <= p.total - MacLen
      BY <1>3, <3>1
    <3>3. i \in 1..Len(b) /\ Header + data + i <= Size[k] - MacLen /\ Header + data + i <= Size[k]
      <4>1. i \in 1..Len(b)
        BY <1>1, <1>3, <3>1
      <4>2. data + i <= Size[k] - Header - MacLen /\ data + i \in Nat
        BY <1>1, <1>3, <3>1, <3>2, ConstantTypes, SMTT(20)
      <4>. QED
        BY <1>1, <3>1, <4>1, <4>2, ConstantTypes, SMTT(20)
    <3>4. k > KeysAt
      BY <3>1
    <3>5. b[i] = Byte(k, Header + data + i, "cipher")
      BY <1>6, <3>3, <3>4
    <3>. QED
      BY <1>1, <1>7, <3>1, <3>5, ConstantTypes, SMTT(20)
  <2>. QED
    BY <1>1, <1>7, <2>1, Decrypts
<1>11. \A i \in 1..(used - decrypt) : mac[i] = Byte(k, Header + data + decrypt + i, "plain")
  <2>. TAKE i \in 1..(used - decrypt)
  <2>1. i \in Nat /\ i >= 1 /\ i <= used - decrypt /\ decrypt < used
    BY <1>3
  <2>2. decrypt + i \in 1..Len(b) /\ Header + data + (decrypt + i) <= Size[k]
    BY <1>1, <1>3, <2>1, ConstantTypes, SMTT(20)
  <2>3. ~(k > KeysAt /\ Header + data + (decrypt + i) <= Size[k] - MacLen)
    <3>1. CASE newkeys
      <4>1. data + decrypt >= p.total - MacLen
        BY <1>3, <2>1, <3>1
      <4>. QED
        BY <1>1, <1>3, <2>1, <4>1, ConstantTypes, SMTT(20)
    <3>2. CASE ~newkeys
      BY <3>2
    <3>. QED
      BY <3>1, <3>2
  <2>4. b[decrypt + i] = Byte(k, Header + data + (decrypt + i), "plain")
    BY <1>6, <2>2, <2>3
  <2>5. Header + data + (decrypt + i) = Header + data + decrypt + i
    BY <1>1, <1>3, <2>1, ConstantTypes
  <2>. QED
    BY <1>8, <2>4, <2>5
<1> HIDE DEF d
<1>12. /\ payload \in Seq(Bytewise) /\ Len(payload) = data + used
       /\ \A i \in 1..(data + used) : payload[i] = Byte(k, Header + i, "plain")
  <2> DEFINE yd == y \o d
  <2>1. /\ yd \in Seq(Bytewise) /\ Len(yd) = data + decrypt
        /\ \A i \in 1..(data + decrypt) : yd[i] = IF i <= data THEN y[i] ELSE d[i - data]
    BY <1>1, <1>10, ConcatProperties DEF data
  <2> HIDE DEF yd
  <2>2. /\ yd \o mac \in Seq(Bytewise) /\ Len(yd \o mac) = data + used
        /\ \A i \in 1..(data + used) :
             (yd \o mac)[i] = IF i <= data + decrypt THEN yd[i] ELSE mac[i - (data + decrypt)]
    <3>1. /\ yd \o mac \in Seq(Bytewise) /\ Len(yd \o mac) = Len(yd) + Len(mac)
          /\ \A i \in 1..(Len(yd) + Len(mac)) :
               (yd \o mac)[i] = IF i <= Len(yd) THEN yd[i] ELSE mac[i - Len(yd)]
      BY <1>8, <2>1, ConcatProperties
    <3>2. Len(yd) + Len(mac) = data + used
      BY <1>1, <1>3, <1>8, <2>1
    <3>. QED
      BY <2>1, <3>1, <3>2
  <2>3. ASSUME NEW i \in 1..(data + used) PROVE (yd \o mac)[i] = Byte(k, Header + i, "plain")
    <3>1. CASE i <= data
      <4>1. i \in 1..data /\ i \in 1..(data + decrypt) /\ i <= data + decrypt
        BY <1>1, <1>3, <3>1
      <4>2. y[i] = Byte(k, Header + i, "plain")
        BY <4>1 DEF Deciphered, y, data
      <4>. QED
        BY <2>1, <2>2, <3>1, <4>1, <4>2
    <3>2. CASE i > data /\ i <= data + decrypt
      <4>1. i \in 1..(data + decrypt) /\ ~(i <= data) /\ i - data \in 1..decrypt
            /\ Header + data + (i - data) = Header + i
        BY <1>1, <1>3, <3>2, ConstantTypes
      <4>. QED
        BY <1>10, <2>1, <2>2, <3>2, <4>1
    <3>3. CASE i > data + decrypt
      <4>1. i - (data + decrypt) \in 1..(used - decrypt) /\ ~(i <= data + decrypt)
            /\ Header + data + decrypt + (i - (data + decrypt)) = Header + i
        BY <1>1, <1>3, <3>3, ConstantTypes
      <4>. QED
        BY <1>11, <2>2, <4>1
    <3>4. i <= data \/ (i > data /\ i <= data + decrypt) \/ i > data + decrypt
      BY <1>1, <1>3
    <3>. QED
      BY <3>1, <3>2, <3>3, <3>4, Zenon
  <2>. QED
    BY <2>2, <2>3 DEF yd
<1> HIDE DEF payload, q
<1>13. /\ q \in Packets /\ q.total = p.total /\ q.init = p.init
       /\ q.payload = payload /\ q.buf = left
  BY <1>1, <1>4, <1>9, <1>12 DEF Packets
<1>14. Unpacked(q) = Header + (data + used) /\ Len(q.buf) = Len(b) - used
  BY <1>1, <1>9, <1>12, <1>13 DEF Unpacked
<1>15. Deciphered(k, q)
  BY <1>1, <1>3, <1>12, <1>13 DEF Deciphered
<1>16. Following(k, q)
  <2>1. Bytes[k - 1] + (Header + (data + used)) + (Len(b) - used) <= Len(Stream)
    <3>1. Bytes[k - 1] + (Header + data) + Len(b) <= Len(Stream)
      BY <1>5 DEF Following, b
    <3>. QED
      BY <1>1, <1>3, <3>1, ConstantTypes, StreamPlaces, SMTT(20)
  <2>2. ASSUME NEW i \in 1..(Len(b) - used)
        PROVE  left[i] = Stream[Bytes[k - 1] + (Header + (data + used)) + i]
    <3>1. used + i \in 1..Len(b)
          /\ Bytes[k - 1] + (Header + data) + (used + i)
               = Bytes[k - 1] + (Header + (data + used)) + i
      BY <1>1, <1>3, ConstantTypes, SMTT(20)
    <3>2. b[used + i] = Stream[Bytes[k - 1] + (Header + data) + (used + i)]
      BY <1>5, <3>1 DEF Following, b
    <3>. QED
      BY <1>9, <3>1, <3>2
  <2>. QED
    BY <1>9, <1>13, <1>14, <2>1, <2>2 DEF Following
<1>17. /\ Unpacked(q) + Len(q.buf) = Unpacked(p) + Len(p.buf)
       /\ Len(q.buf) <= Len(p.buf)
  <2>1. Header + (data + used) + (Len(b) - used) = Header + data + Len(b) /\ Len(b) - used <= Len(b)
    BY <1>1, <1>3, ConstantTypes
  <2>. QED
    BY <1>5, <1>14, <2>1 DEF b
<1>. QED
  BY <1>13, <1>15, <1>16, <1>17 DEF q

\* The number of the packet at hand.
LEMMA AtNumber ==
  ASSUME RInv
  PROVE  /\ Arriving \in 1..(Count + 1) /\ Bytes[Arriving - 1] \in Nat
         /\ fullpacket => Arriving = Len(received)
         /\ ~fullpacket => Arriving = Len(received) + 1
         /\ packet.total # 0 => Arriving \in 1..Count
<1>1. Len(received) \in 0..Count /\ fullpacket \in BOOLEAN
  BY DEF RInv, ReceivingTypes
<1>2. CASE ~fullpacket
  <2>1. Arriving = Len(received) + 1
    BY <1>1, <1>2 DEF Arriving
  <2>2. Arriving \in 1..(Count + 1) /\ Arriving - 1 \in 0..Count
    BY <1>1, <2>1, ConstantTypes
  <2>3. packet.total # 0 => Arriving \in 1..Count
    BY DEF RInv, InPlace, Deciphered
  <2>. QED
    BY <1>2, <2>1, <2>2, <2>3, BytesUnfolds, ConstantTypes
<1>3. CASE fullpacket
  <2>1. Arriving = Len(received)
    BY <1>1, <1>3 DEF Arriving
  <2>2. packet.total # 0
    BY <1>3, ConstantTypes DEF RInv, Calls, Whole, ReceivingTypes, Packets
  <2>3. Arriving \in 1..Count
    BY <2>2 DEF RInv, InPlace, Deciphered
  <2>4. Arriving \in 1..(Count + 1)
    BY <2>3, ConstantTypes
  <2>. QED
    BY <1>1, <1>3, <2>1, <2>3, <2>4, PlaceOf
<1>. QED
  BY <1>1, <1>2, <1>3

\* Bytes that arrive, and calls that are made or wait, leave the receiving side
\* where it is in the stream.
LEMMA InPlaceKept ==
  ASSUME RInv, UNCHANGED <<taken, packet, received, fullpacket>>
  PROVE  Arriving' = Arriving /\ ReceivedWhole' /\ InPlace'
<1>1. Arriving' = Arriving
  BY DEF Arriving
<1>2. ReceivedWhole'
  BY DEF RInv, ReceivedWhole
<1>3. InPlace'
  BY <1>1 DEF RInv, InPlace, Following, Deciphered, Unpacked
<1>. QED
  BY <1>1, <1>2, <1>3

LEMMA ArriveStep ==
  ASSUME RInv, Arrive
  PROVE  RInv'
<1>1. Arriving' = Arriving /\ ReceivedWhole' /\ InPlace'
  BY InPlaceKept DEF Arrive
<1>2. ReceivingTypes'
  BY StreamPlaces DEF RInv, ReceivingTypes, Arrive
<1>3. Calls'
  BY <1>1 DEF RInv, Calls, Whole, Arrive
<1>. QED
  BY <1>1, <1>2, <1>3 DEF RInv

LEMMA PacketReadStep ==
  ASSUME RInv, LibPacketRead
  PROVE  RInv'
<1>1. Arriving' = Arriving /\ ReceivedWhole' /\ InPlace'
  BY InPlaceKept DEF LibPacketRead
<1>2. ReceivingTypes'
  BY DEF RInv, ReceivingTypes, LibPacketRead
<1>3. Calls'
  <2>1. newkeys = (Arriving > KeysAt)
    <3>1. CASE call = "none"
      <4>1. ~fullpacket /\ Arriving = Len(received) + 1 /\ Len(received) \in Nat
            /\ newkeys \in BOOLEAN
        BY <3>1, AtNumber DEF RInv, Calls, ReceivingTypes
      <4>2. newkeys => Len(received) >= KeysAt
        BY <3>1 DEF RInv, Calls
      <4>3. Len(received) > KeysAt => newkeys
        BY <3>1 DEF RInv, Calls
      <4>4. Len(received) = KeysAt => newkeys
        BY <4>1 DEF LibPacketRead
      <4>5. newkeys <=> Arriving > KeysAt
        BY <4>1, <4>2, <4>3, <4>4, ConstantTypes
      <4>. QED
        BY <4>1, <4>5
    <3>2. CASE call = "again"
      BY <3>2 DEF RInv, Calls
    <3>. QED
      BY <3>1, <3>2 DEF LibPacketRead
  <2>2. CASE jump
    <3>1. call = "again" /\ fullpacket /\ call' = "full" /\ jump' = FALSE
      BY <2>2 DEF RInv, Calls, LibPacketRead
    <3>. QED
      BY <1>1, <2>1, <3>1 DEF RInv, Calls, Whole, LibPacketRead
  <2>3. CASE ~jump
    <3>1. ~fullpacket /\ call' = "loop" /\ jump' = jump
      BY <2>3 DEF RInv, Calls, LibPacketRead, ReceivingTypes
    <3>. QED
      BY <1>1, <2>1, <2>3, <3>1 DEF RInv, Calls, Whole, LibPacketRead
  <2>. QED
    BY <2>2, <2>3
<1>. QED
  BY <1>1, <1>2, <1>3 DEF RInv

LEMMA WouldBlockStep ==
  ASSUME RInv, WouldBlock
  PROVE  RInv'
<1>1. Arriving' = Arriving /\ ReceivedWhole' /\ InPlace'
  BY InPlaceKept DEF WouldBlock
<1>2. ReceivingTypes'
  BY DEF RInv, ReceivingTypes, WouldBlock
<1>3. Calls'
  BY <1>1 DEF RInv, Calls, Whole, WouldBlock, ReceivingTypes
<1>. QED
  BY <1>1, <1>2, <1>3 DEF RInv

LEMMA AddAgainStep ==
  ASSUME RInv, AddAgain
  PROVE  RInv'
<1>1. Arriving' = Arriving /\ ReceivedWhole' /\ InPlace'
  BY InPlaceKept DEF AddAgain
<1>2. ReceivingTypes'
  BY DEF RInv, ReceivingTypes, AddAgain
<1>3. Calls'
  BY <1>1 DEF RInv, Calls, Whole, AddAgain, ReceivingTypes
<1>. QED
  BY <1>1, <1>2, <1>3 DEF RInv

LEMMA SwitchKeysStep ==
  ASSUME RInv, SwitchKeys
  PROVE  RInv'
<1>1. Arriving' = Arriving /\ ReceivedWhole' /\ InPlace'
  BY InPlaceKept DEF SwitchKeys
<1>2. ReceivingTypes'
  BY DEF RInv, ReceivingTypes, SwitchKeys
<1>3. Calls'
  <2>1. Len(received) = KeysAt /\ KeysAt >= KeysAt
    BY ConstantTypes DEF SwitchKeys
  <2>. QED
    BY <1>1, <2>1 DEF RInv, Calls, Whole, SwitchKeys, ReceivingTypes
<1>. QED
  BY <1>1, <1>2, <1>3 DEF RInv

\* A turn of the loop with n more bytes.
LEMMA ReadMoreStep ==
  ASSUME RInv, call = "loop", NEW n \in Nat, n <= BufSize - Len(packet.buf),
         n <= arrived - taken, ReadMore(n)
  PROVE  RInv'
<1> DEFINE k == Arriving
           more == SubSeq(Stream, taken + 1, taken + n)
           p == [packet EXCEPT !.buf = @ \o more]
           q == IF p.total = 0 THEN FirstBlock(p) ELSE p
<1>1. /\ ~fullpacket /\ newkeys = (k > KeysAt) /\ newkeys \in BOOLEAN /\ jump = FALSE
      /\ packet \in Packets /\ Len(packet.buf) \in Nat
      /\ taken \in Nat /\ arrived \in Nat /\ arrived <= Len(Stream) /\ taken <= arrived
      /\ Len(packet.init) \in Nat /\ Len(packet.payload) \in Nat /\ packet.buf \in Seq(Bytewise)
  <2>1. /\ ~fullpacket /\ newkeys = (k > KeysAt) /\ jump = FALSE
    BY DEF RInv, Calls, ReceivingTypes
  <2>2. /\ newkeys \in BOOLEAN /\ packet \in Packets
        /\ taken \in Nat /\ arrived \in Nat /\ arrived <= Len(Stream) /\ taken <= arrived
    BY StreamPlaces DEF RInv, ReceivingTypes
  <2>. QED
    BY <2>1, <2>2, LenProperties DEF Packets
<1>2. /\ k \in 1..(Count + 1) /\ Bytes[k - 1] \in Nat /\ k = Len(received) + 1
      /\ taken = Bytes[k - 1] + Unpacked(packet) + Len(packet.buf)
      /\ Following(k, packet) /\ Deciphered(k, packet)
  BY <1>1, AtNumber DEF RInv, InPlace
<1>3. Unpacked(packet) \in Nat
  <2> DEFINE x == Len(packet.init)
             y == Len(packet.payload)
  <2>1. x \in Nat /\ y \in Nat /\ Unpacked(packet) = x + y
    BY <1>1 DEF Unpacked
  <2> HIDE DEF x, y
  <2>. QED
    BY <2>1
<1> HIDE DEF k
<1>4. /\ more \in Seq(Bytewise) /\ Len(more) = n
      /\ \A i \in 1..n : more[i] = Stream[taken + i]
  <2> DEFINE a == taken + 1
             z == taken + n
  <2>1. /\ Stream \in Seq(Bytewise) /\ z \in 0..Len(Stream) /\ a \in 1..(z + 1)
        /\ z - a + 1 = n /\ \A i \in 1..n : a - 1 + i = taken + i
    BY <1>1, StreamPlaces
  <2> HIDE DEF a, z
  <2>2. /\ SubSeq(Stream, a, z) \in Seq(Bytewise) /\ Len(SubSeq(Stream, a, z)) = z - a + 1
        /\ \A i \in 1..(z - a + 1) : SubSeq(Stream, a, z)[i] = Stream[a - 1 + i]
    BY <2>1, Stretch
  <2>. QED
    BY <2>1, <2>2 DEF a, z
<1> HIDE DEF more
<1>5. /\ p \in Packets /\ p.total = packet.total /\ p.init = packet.init
      /\ p.payload = packet.payload /\ p.buf = packet.buf \o more
  <2>1. packet.buf \o more \in Seq(Bytewise)
    BY <1>1, <1>4, ConcatProperties
  <2>. QED
    BY <1>1, <2>1 DEF Packets
<1>6. /\ Len(p.buf) = Len(packet.buf) + n
      /\ \A i \in 1..(Len(packet.buf) + n) :
           p.buf[i] = IF i <= Len(packet.buf) THEN packet.buf[i] ELSE more[i - Len(packet.buf)]
  <2> DEFINE b == packet.buf
  <2>1. b \in Seq(Bytewise) /\ more \in Seq(Bytewise) /\ Len(more) = n /\ p.buf = b \o more
    BY <1>1, <1>4, <1>5
  <2> HIDE DEF b, p
  <2>2. /\ Len(b \o more) = Len(b) + Len(more)
        /\ \A i \in 1..(Len(b) + Len(more)) :
             (b \o more)[i] = IF i <= Len(b) THEN b[i] ELSE more[i - Len(b)]
    BY <2>1, ConcatProperties
  <2>. QED
    BY <2>1, <2>2 DEF b
<1> HIDE DEF p
<1>7. Unpacked(p) = Unpacked(packet) /\ Deciphered(k, p)
  BY <1>2, <1>5 DEF Unpacked, Deciphered
<1>8. taken + n = Bytes[k - 1] + Unpacked(p) + Len(p.buf)
  BY <1>1, <1>2, <1>3, <1>6, <1>7, SMTT(20)
<1>9. Following(k, p)
  <2>1. Bytes[k - 1] + Unpacked(p) + Len(p.buf) <= Len(Stream)
    BY <1>1, <1>8, StreamPlaces
  <2>2. ASSUME NEW i \in 1..Len(p.buf) PROVE p.buf[i] = Stream[Bytes[k - 1] + Unpacked(p) + i]
    <3>1. CASE i <= Len(packet.buf)
      <4>1. i \in 1..Len(packet.buf) /\ i \in 1..(Len(packet.buf) + n)
        BY <1>1, <1>6, <3>1
      <4>2. packet.buf[i] = Stream[Bytes[k - 1] + Unpacked(packet) + i]
        BY <1>2, <4>1 DEF Following
      <4>. QED
        BY <1>6, <1>7, <3>1, <4>1, <4>2
    <3>2. CASE ~(i <= Len(packet.buf))
      <4>1. /\ i - Len(packet.buf) \in 1..n /\ i \in 1..(Len(packet.buf) + n)
            /\ taken + (i - Len(packet.buf)) = Bytes[k - 1] + Unpacked(packet) + i
        <5> DEFINE l == Len(packet.buf)
                   g == Unpacked(packet)
                   z == Bytes[k - 1]
        <5>1. /\ l \in Nat /\ g \in Nat /\ z \in Nat /\ taken = z + g + l
              /\ i \in 1..(l + n) /\ ~(i <= l)
          BY <1>1, <1>2, <1>3, <1>6, <3>2
        <5> HIDE DEF l, g, z
        <5>2. i - l \in 1..n /\ taken + (i - l) = z + g + i
          BY <5>1
        <5>. QED
          BY <5>1, <5>2 DEF l, g, z
      <4>. QED
        BY <1>4, <1>6, <1>7, <3>2, <4>1
    <3>. QED
      BY <3>1, <3>2
  <2>. QED
    BY <2>1, <2>2 DEF Following
<1>10. Len(p.buf) \in 0..BufSize
  BY <1>1, <1>6, ConstantTypes
<1>11. /\ taken' = taken + n /\ taken' \in 0..arrived
       /\ UNCHANGED <<arrived, seqno, newkeys, fullpacket, jump, received>>
       /\ IF p.total = 0 /\ Len(p.buf) < blocksize
            THEN packet' = p /\ call' = "again"
            ELSE IF TooBig(q)
            THEN packet' = q /\ call' = "failed"
            ELSE packet' = Collect(q) /\ call' = IF Whole(Collect(q)) THEN "full" ELSE "loop"
  <2>1. taken + n \in 0..arrived
    BY <1>1
  <2>. QED
    BY <2>1 DEF ReadMore, p, q, more
<1> SUFFICES ASSUME NEW r \in Packets, packet' = r,
                    taken + n = Bytes[k - 1] + Unpacked(r) + Len(r.buf),
                    Following(k, r), Deciphered(k, r), Len(r.buf) \in 0..BufSize,
                    \/ call' = "again"
                    \/ call' = "loop"
                    \/ call' = "full" /\ Whole(r)
             PROVE  RInv'
  <2> DEFINE Goal(r) == /\ r \in Packets /\ packet' = r
                        /\ taken + n = Bytes[k - 1] + Unpacked(r) + Len(r.buf)
                        /\ Following(k, r) /\ Deciphered(k, r) /\ Len(r.buf) \in 0..BufSize
                        /\ \/ call' = "again"
                           \/ call' = "loop"
                           \/ call' = "full" /\ Whole(r)
  <2>1. CASE p.total = 0 /\ Len(p.buf) < blocksize
    <3>1. Goal(p)
      BY <1>5, <1>7, <1>8, <1>9, <1>10, <1>11, <2>1
    <3>. QED
      BY <3>1
  <2>2. CASE ~(p.total = 0 /\ Len(p.buf) < blocksize)
    <3>1. /\ k \in 1..Count /\ q \in Packets /\ q.total # 0
          /\ Deciphered(k, q) /\ Following(k, q)
          /\ Unpacked(q) + Len(q.buf) = Unpacked(p) + Len(p.buf)
          /\ Len(q.buf) <= Len(p.buf)
      <4>1. CASE p.total = 0
        <5>1. Len(p.buf) >= blocksize
          BY <1>10, <2>2, <4>1, ConstantTypes DEF blocksize
        <5>. QED
          BY <1>1, <1>2, <1>5, <1>7, <1>9, <4>1, <5>1, FirstBlockOpens
      <4>2. CASE p.total # 0
        <5>1. k \in 1..Count
          BY <1>7, <4>2 DEF Deciphered
        <5>2. q = p
          BY <4>2
        <5>3. Len(p.buf) <= Len(p.buf)
          BY <1>10, ConstantTypes
        <5>. QED
          BY <1>5, <1>7, <1>9, <4>2, <5>1, <5>2, <5>3
      <4>. QED
        BY <4>1, <4>2
    <3> HIDE DEF q
    <3>2. ~TooBig(q)
      <4>1. q.total = Size[k] - Header
        BY <3>1 DEF Deciphered
      <4>. QED
        <5>1. Size[k] \in Nat /\ Bytes[k - 1] + Size[k] <= Len(Stream)
              /\ Bytes[k - 1] \in Nat /\ Len(Stream) \in Nat
          BY <3>1, SizeOf, PlaceOf
        <5>2. Size[k] - Header <= Len(Stream)
          BY <5>1, ConstantTypes
        <5>3. ~(Size[k] - Header > Len(Stream))
          BY <5>1, <5>2, ConstantTypes
        <5>. QED
          BY <4>1, <5>3 DEF TooBig
    <3> DEFINE r == Collect(q)
    <3>3. /\ r \in Packets /\ r.total = q.total
          /\ Deciphered(k, r) /\ Following(k, r)
          /\ Unpacked(r) + Len(r.buf) = Unpacked(q) + Len(q.buf)
          /\ Len(r.buf) <= Len(q.buf)
      BY <1>1, <3>1, Collects
    <3>4. packet' = r /\ call' = IF Whole(r) THEN "full" ELSE "loop"
      BY <1>11, <2>2, <3>2
    <3> HIDE DEF r
    <3>5. Len(r.buf) \in 0..BufSize
      <4>1. Len(r.buf) \in Nat /\ Len(q.buf) \in Nat
        BY <3>1, <3>3, LenProperties DEF Packets
      <4>. QED
        BY <1>10, <3>1, <3>3, <4>1, ConstantTypes
    <3>6. taken + n = Bytes[k - 1] + Unpacked(r) + Len(r.buf)
      <4>1. /\ Unpacked(r) + Len(r.buf) = Unpacked(p) + Len(p.buf)
        BY <3>1, <3>3
      <4>2. Unpacked(r) \in Nat /\ Unpacked(p) \in Nat /\ Len(p.buf) \in Nat /\ Len(r.buf) \in Nat
        <5>1. Len(r.init) \in Nat /\ Len(r.payload) \in Nat
          BY <3>3, LenProperties DEF Packets
        <5>2. Unpacked(r) \in Nat
          <6> DEFINE x == Len(r.init)
                     y == Len(r.payload)
          <6>1. x \in Nat /\ y \in Nat /\ Unpacked(r) = x + y
            BY <5>1 DEF Unpacked
          <6> HIDE DEF x, y
          <6>. QED
            BY <6>1
        <5>. QED
          BY <1>3, <1>7, <1>10, <3>5, <5>2, ConstantTypes
      <4> DEFINE z == Bytes[k - 1]
                 e == Unpacked(p)
                 f == Unpacked(r)
                 g == Len(p.buf)
                 h == Len(r.buf)
      <4>3. z \in Nat /\ e \in Nat /\ f \in Nat /\ g \in Nat /\ h \in Nat
            /\ f + h = e + g /\ taken + n = z + e + g
        BY <1>2, <1>8, <4>1, <4>2
      <4> HIDE DEF z, e, f, g, h
      <4>4. taken + n = z + f + h
        BY <4>3
      <4>. QED
        BY <4>4 DEF z, f, h
    <3>7. Goal(r)
      BY <3>3, <3>4, <3>5, <3>6
    <3>. QED
      BY <3>7
  <2>. QED
    BY <2>1, <2>2
<1>12. Arriving' = k
  BY <1>11 DEF Arriving, k
<1>13. ReceivingTypes'
  BY <1>11 DEF RInv, ReceivingTypes
<1>14. Calls'
  BY <1>1, <1>11, <1>12 DEF RInv, Calls
<1>15. ReceivedWhole'
  BY <1>11 DEF RInv, ReceivedWhole
<1>16. InPlace'
  <2>1. Following(k, packet') /\ Deciphered(k, packet')
        /\ taken' = Bytes[k - 1] + Unpacked(packet') + Len(packet'.buf)
    BY <1>11
  <2>. QED
    BY <1>12, <2>1 DEF InPlace, Following, Deciphered, Unpacked
<1>. QED
  BY <1>13, <1>14, <1>15, <1>16 DEF RInv

LEMMA ReadLoopStep ==
  ASSUME RInv, ReadLoop
  PROVE  RInv'
<1>1. call = "loop" /\ Len(packet.buf) \in 0..BufSize /\ taken \in 0..arrived
      /\ arrived \in 0..Len(Stream)
  BY DEF RInv, ReceivingTypes, ReadLoop
<1>2. CASE Len(packet.buf) >= blocksize
  <2>1. 0 \in Nat /\ 0 <= BufSize - Len(packet.buf) /\ 0 <= arrived - taken
    BY <1>1, ConstantTypes, StreamPlaces
  <2>. QED
    BY <1>1, <1>2, <2>1, ReadMoreStep DEF ReadLoop
<1>3. CASE ~(Len(packet.buf) >= blocksize)
  <2>1. PICK n \in 1..(BufSize - Len(packet.buf)) : n <= arrived - taken /\ ReadMore(n)
    BY <1>3 DEF ReadLoop
  <2>2. n \in Nat /\ n <= BufSize - Len(packet.buf)
    BY <1>1, ConstantTypes
  <2>. QED
    BY <1>1, <2>1, <2>2, ReadMoreStep
<1>. QED
  BY <1>2, <1>3

\* A whole packet that was opened is the packet as it was before it was sealed:
\* the header names it and the MAC confirms it.
LEMMA WholePacket ==
  ASSUME RInv, Whole(packet)
  PROVE  /\ Arriving \in 1..Count /\ HeaderOf(packet.init) = Arriving
         /\ Len(packet.payload) = Size[Arriving] - Header /\ Unpacked(packet) = Size[Arriving]
         /\ seqno = Arriving => MacConfirmed(packet)
<1>1. /\ packet \in Packets /\ packet.total # 0 /\ Len(packet.payload) = packet.total
      /\ packet.init \in Seq(Bytewise) /\ packet.payload \in Seq(Bytewise)
  <2>1. packet \in Packets /\ packet.total > 0 /\ Len(packet.payload) = packet.total
    BY DEF RInv, ReceivingTypes, Whole
  <2>. QED
    BY <2>1 DEF Packets
<1> DEFINE k == Arriving
           a == packet.init
           b == packet.payload
<1>2. /\ k \in 1..Count /\ packet.total = Size[k] - Header /\ Len(a) = Header
      /\ \A i \in 1..Header : a[i] = Byte(k, i, "plain")
      /\ \A i \in 1..Len(b) : b[i] = Byte(k, Header + i, "plain")
  BY <1>1 DEF RInv, InPlace, Deciphered
<1>3. Unpacked(packet) = Len(a) + Len(b) /\ Len(b) = packet.total
  BY <1>1 DEF Unpacked
<1> HIDE DEF k, a, b
<1>4. Size[k] \in Nat /\ Len(b) = Size[k] - Header /\ Unpacked(packet) = Size[k]
  BY <1>2, <1>3, SizeOf, ConstantTypes
<1>5. HeaderOf(a) = k
  <2>1. 1 \in 1..Header
    BY ConstantTypes
  <2>2. a[1].of = k
    BY <1>2, <2>1 DEF Byte
  <2>. QED
    BY <1>2, <2>2 DEF HeaderOf
<1>6. a \o b = [i \in 1..Size[k] |-> Byte(k, i, "plain")]
  <2> DEFINE c == a \o b
             e == [i \in 1..Size[k] |-> Byte(k, i, "plain")]
  <2>1. /\ c \in Seq(Bytewise) /\ Len(c) = Len(a) + Len(b)
        /\ \A i \in 1..(Len(a) + Len(b)) : c[i] = IF i <= Len(a) THEN a[i] ELSE b[i - Len(a)]
    BY <1>1, ConcatProperties DEF a, b
  <2>2. Len(a) + Len(b) = Size[k]
    BY <1>2, <1>4, ConstantTypes
  <2> HIDE DEF c
  <2>3. ASSUME NEW i \in 1..Size[k] PROVE c[i] = Byte(k, i, "plain")
    <3>1. CASE i <= Header
      <4>1. i \in 1..Header
        BY <1>4, <3>1, ConstantTypes
      <4>. QED
        BY <1>2, <2>1, <2>2, <3>1, <4>1
    <3>2. CASE i > Header
      <4>1. i - Header \in 1..Len(b) /\ Header + (i - Header) = i /\ ~(i <= Header)
        BY <1>4, <3>2, ConstantTypes
      <4>. QED
        BY <1>2, <2>1, <2>2, <4>1
    <3>. QED
      BY <1>4, <3>1, <3>2, ConstantTypes
  <2>4. c = [i \in 1..Len(c) |-> c[i]]
    BY <2>1
  <2>5. c = e
    BY <2>1, <2>2, <2>3, <2>4
  <2>. QED
    BY <2>5 DEF c
<1>. QED
  BY <1>2, <1>4, <1>5, <1>6 DEF k, a, b, MacConfirmed

LEMMA FullPacketStep ==
  ASSUME RInv, FullPacket
  PROVE  RInv'
<1>1. /\ Whole(packet) /\ fullpacket' = TRUE /\ call' = "add" /\ jump = FALSE
      /\ UNCHANGED <<arrived, taken, packet, newkeys, jump>>
  BY DEF RInv, Calls, ReceivingTypes, FullPacket
<1>2. CASE fullpacket
  <2>1. UNCHANGED <<taken, packet, received, fullpacket, seqno>>
    BY <1>1, <1>2 DEF FullPacket, RInv, ReceivingTypes
  <2>2. Arriving' = Arriving /\ ReceivedWhole' /\ InPlace'
    BY <2>1, InPlaceKept
  <2>3. ReceivingTypes'
    BY <1>1, <2>1 DEF RInv, ReceivingTypes
  <2>4. Calls'
    BY <1>1, <2>1, <2>2 DEF RInv, Calls, Whole, FullPacket
  <2>. QED
    BY <2>2, <2>3, <2>4 DEF RInv
<1>3. CASE ~fullpacket
  <2> DEFINE k == Len(received) + 1
             verdict == [of |-> HeaderOf(packet.init), bytes |-> Len(packet.payload),
                         mac |-> MacConfirmed(packet)]
             Verdicts == [of : Nat, bytes : Nat, mac : BOOLEAN]
  <2>1. /\ Arriving = k /\ seqno = k /\ Len(received) \in Nat /\ received \in Seq(Verdicts)
    BY <1>3, AtNumber DEF RInv, ReceivingTypes
  <2>2. /\ k \in 1..Count /\ verdict.of = k /\ verdict.bytes = Size[k] - Header
        /\ MacConfirmed(packet) /\ Len(packet.payload) = Size[k] - Header
    BY <1>1, <2>1, WholePacket
  <2>3. MacConfirmed(packet) = TRUE
    BY <2>2 DEF MacConfirmed
  <2>4. verdict = [of |-> k, bytes |-> Size[k] - Header, mac |-> TRUE]
    BY <2>2, <2>3
  <2>5. received' = Append(received, verdict) /\ seqno' = seqno + 1
    BY <1>3 DEF FullPacket
  <2>6. verdict \in Verdicts
    <3>1. Size[k] - Header \in Nat /\ k \in Nat
      BY <2>2, SizeOf, ConstantTypes
    <3>. QED
      BY <2>4, <3>1
  <2> HIDE DEF verdict
  <2>7. /\ received' \in Seq(Verdicts) /\ Len(received') = k
        /\ \A i \in 1..Len(received) : received'[i] = received[i]
        /\ received'[k] = verdict
    BY <2>1, <2>5, <2>6, AppendProperties
  <2>8. Arriving' = Arriving
    BY <1>1, <2>1, <2>7 DEF Arriving
  <2>9. ReceivedWhole'
    <3>1. DOMAIN received' = 1..k /\ DOMAIN received = 1..Len(received)
      BY <2>1, <2>7
    <3>2. 1..k = 1..Len(received) \cup {k}
      BY <2>1
    <3>3. \A i \in 1..Len(received) :
            received[i] = [of |-> i, bytes |-> Size[i] - Header, mac |-> TRUE]
      BY <3>1 DEF RInv, ReceivedWhole
    <3>4. \A i \in 1..k : received'[i] = [of |-> i, bytes |-> Size[i] - Header, mac |-> TRUE]
      BY <2>4, <2>7, <3>2, <3>3
    <3>. QED
      BY <3>1, <3>4 DEF ReceivedWhole
  <2>10. ReceivingTypes'
    <3>1. Len(received') \in 0..Count /\ seqno' = Len(received') + 1
      BY <2>1, <2>2, <2>5, <2>7, ConstantTypes
    <3>. QED
      BY <1>1, <2>7, <3>1 DEF RInv, ReceivingTypes
  <2>11. Calls'
    <3>1. newkeys = (Arriving > KeysAt)
      BY DEF RInv, Calls, FullPacket
    <3>. QED
      BY <1>1, <2>8, <3>1 DEF Calls, Whole
  <2>12. InPlace'
    BY <1>1, <2>8 DEF RInv, InPlace, Following, Deciphered, Unpacked
  <2>. QED
    BY <2>9, <2>10, <2>11, <2>12 DEF RInv
<1>. QED
  BY <1>2, <1>3

\* The packet is given away, and the buffer begins with the next one.
LEMMA AddedStep ==
  ASSUME RInv, Added
  PROVE  RInv'
<1>1. /\ fullpacket /\ Whole(packet) /\ jump = FALSE /\ packet \in Packets
      /\ newkeys = (Arriving > KeysAt)
  BY DEF RInv, Calls, ReceivingTypes, Added
<1>2. /\ Arriving = Len(received) /\ Arriving \in 1..Count /\ Unpacked(packet) = Size[Arriving]
  BY <1>1, AtNumber, WholePacket
<1>3. /\ call' = "none" /\ fullpacket' = FALSE
      /\ packet' = [total |-> 0, init |-> <<>>, payload |-> <<>>, buf |-> packet.buf]
      /\ UNCHANGED <<arrived, taken, seqno, newkeys, jump, received>>
  BY DEF Added, NoPacket
<1>4. packet' \in Packets /\ packet'.total = 0 /\ packet'.buf = packet.buf
      /\ packet'.init = <<>> /\ packet'.payload = <<>>
  <2>1. packet.buf \in Seq(Bytewise) /\ <<>> \in Seq(Bytewise)
    BY <1>1, EmptySeq DEF Packets
  <2>. QED
    BY <1>3, <2>1 DEF Packets
<1>5. ReceivingTypes'
  BY <1>3, <1>4 DEF RInv, ReceivingTypes
<1>6. ReceivedWhole'
  BY <1>3 DEF RInv, ReceivedWhole
<1>7. Arriving' = Arriving + 1 /\ Arriving \in Nat
  <2>1. Len(received) \in Nat
    BY <1>2, ConstantTypes
  <2>. QED
    BY <1>2, <1>3, <2>1 DEF Arriving
<1>8. Calls'
  <2>1. newkeys => Len(received) >= KeysAt
    <3>. SUFFICES ASSUME newkeys PROVE Len(received) >= KeysAt
      OBVIOUS
    <3>1. Arriving > KeysAt
      BY <1>1
    <3>. QED
      BY <1>2, <1>7, <3>1, ConstantTypes
  <2>2. Len(received) > KeysAt => newkeys
    BY <1>1, <1>2
  <2>. QED
    BY <1>1, <1>3, <1>4, <2>1, <2>2 DEF Calls
<1>9. InPlace'
  <2> DEFINE k == Arriving
             b == packet.buf
  <2>1. /\ taken = Bytes[k - 1] + Size[k] + Len(b)
        /\ Bytes[k - 1] + Size[k] + Len(b) <= Len(Stream)
        /\ \A i \in 1..Len(b) : b[i] = Stream[Bytes[k - 1] + Size[k] + i]
    BY <1>2 DEF RInv, InPlace, Following
  <2>2. /\ (k + 1) - 1 = k /\ Bytes[k] = Bytes[k - 1] + Size[k] /\ Bytes[k] \in Nat
        /\ Len(b) \in Nat
    BY <1>1, <1>2, <1>7, PlaceOf, LenProperties DEF Packets
  <2>3. Len(<<>>) = 0 /\ Unpacked(packet') = 0
    BY <1>4 DEF Unpacked
  <2> HIDE DEF k, b
  <2>4. /\ taken = Bytes[k] + 0 + Len(b)
        /\ Bytes[k] + 0 + Len(b) <= Len(Stream)
        /\ \A i \in 1..Len(b) : b[i] = Stream[Bytes[k] + 0 + i]
    BY <2>1, <2>2
  <2>5. Following(k + 1, packet') /\ Deciphered(k + 1, packet')
        /\ taken' = Bytes[(k + 1) - 1] + Unpacked(packet') + Len(packet'.buf)
    BY <1>3, <1>4, <2>2, <2>3, <2>4 DEF Following, Deciphered, b
  <2>6. Arriving' = k + 1
    BY <1>7 DEF k
  <2>. QED
    BY <2>5, <2>6 DEF InPlace, Following, Deciphered, Unpacked
<1>. QED
  BY <1>5, <1>6, <1>8, <1>9 DEF RInv

LEMMA ReceivingStarts ==
  ASSUME WireInit
  PROVE  RInv
<1>1. <<>> \in Seq(Bytewise) /\ Len(<<>>) = 0
  BY EmptySeq
<1>2. packet \in Packets /\ packet.total = 0 /\ packet.init = <<>> /\ packet.payload = <<>>
      /\ packet.buf = <<>>
  BY <1>1 DEF WireInit, NoPacket, Packets
<1>3. /\ received = <<>> /\ Len(received) = 0 /\ fullpacket = FALSE /\ call = "none"
      /\ jump = FALSE /\ arrived = 0 /\ taken = 0 /\ seqno = 1 /\ newkeys = (KeysAt = 0)
  BY <1>1 DEF WireInit
<1>4. Arriving = 1
  BY <1>3 DEF Arriving
<1>5. ReceivingTypes
  <2>1. 0 \in 0..Count /\ 0 \in 0..BufSize /\ 0 \in 0..Len(Stream) /\ 0 \in 0..0
    BY ConstantTypes, StreamPlaces
  <2>2. received \in Seq([of : Nat, bytes : Nat, mac : BOOLEAN])
    BY <1>3, EmptySeq
  <2>3. newkeys \in BOOLEAN
    BY <1>3
  <2>4. arrived \in 0..Len(Stream) /\ taken \in 0..arrived
    BY <1>3, <2>1
  <2>5. Len(packet.buf) \in 0..BufSize /\ Len(received) \in 0..Count /\ seqno = Len(received) + 1
    BY <1>1, <1>2, <1>3, <2>1
  <2>. QED
    BY <1>2, <1>3, <2>2, <2>3, <2>4, <2>5 DEF ReceivingTypes
<1>6. Calls
  <2>1. ~(0 > KeysAt) /\ (KeysAt = 0 => 0 >= KeysAt)
    BY ConstantTypes
  <2>2. newkeys => KeysAt = 0
    BY <1>3
  <2>3. newkeys => Len(received) >= KeysAt
    BY <1>3, <2>1, <2>2
  <2>4. ~(Len(received) > KeysAt)
    BY <1>3, <2>1
  <2>. QED
    BY <1>2, <1>3, <2>3, <2>4 DEF Calls
<1>7. ReceivedWhole
  BY <1>3 DEF ReceivedWhole
<1>8. InPlace
  <2>1. Bytes[1 - 1] = 0 /\ Unpacked(packet) = 0 /\ 1 - 1 = 0
    BY <1>1, <1>2, BytesUnfolds DEF Unpacked
  <2>2. Following(1, packet) /\ Deciphered(1, packet)
    BY <1>1, <1>2, <2>1, StreamPlaces DEF Following, Deciphered
  <2>. QED
    BY <1>1, <1>2, <1>3, <1>4, <2>1, <2>2 DEF InPlace
<1>. QED
  BY <1>5, <1>6, <1>7, <1>8 DEF RInv

-----------------------------------------------------------------------------
(***************************************************************************)
(* Sending.                                                                *)
(***************************************************************************)
\* The messages of a sequence one after the other, message by message.
JoinedTo(str, f) ==
  /\ f \in [0..Len(str) -> Seq(Bytewise)] /\ f[0] = <<>>
  /\ \A i \in 1..Len(str) : f[i] = f[i - 1] \o Message(str[i])

LEMMA JoinedUnfolds ==
  ASSUME NEW str \in Seq(1..Messages)
  PROVE  \E f : JoinedTo(str, f) /\ Concatenated(str) = f[Len(str)]
<1> DEFINE n == Len(str)
           S == Seq(Bytewise)
           upTo[i \in 0..n] == IF i = 0 THEN <<>> ELSE upTo[i - 1] \o Message(str[i])
           Unfolds(f) == f = [i \in 0..n |-> IF i = 0 THEN <<>> ELSE f[i - 1] \o Message(str[i])]
           h == [x \in (1..n) \X S |-> x[2] \o Message(str[x[1]])]
<1>1. n \in Nat /\ <<>> \in S /\ \A i \in 1..n : str[i] \in 1..Messages
  BY LenProperties, EmptySeq
<1>2. Concatenated(str) = upTo[n]
  BY DEF Concatenated
<1> HIDE DEF n
<1>3. 0 \in 0..n /\ n \in 0..n /\ \A i \in 1..n : i \in 0..n /\ i - 1 \in 0..n /\ i # 0
  BY <1>1
<1>4. ASSUME NEW i \in 1..n, NEW b \in S PROVE b \o Message(str[i]) \in S
  BY <1>1, MessageBytes, ConcatProperties
<1> HIDE DEF S
<1>5. h \in [(1..n) \X S -> S]
  BY <1>4
<1>6. \A i \in 1..n, b \in S : h[<<i, b>>] = b \o Message(str[i])
  OBVIOUS
<1> HIDE DEF h
<1>7. PICK f : Recurs(f, n, S, <<>>, h)
  BY <1>1, <1>5, PrimitiveRecursion
<1>8. /\ f \in [0..n -> S] /\ f[0] = <<>> /\ \A i \in 1..n : f[i] = h[<<i, f[i - 1]>>]
  BY <1>7 DEF Recurs
<1>9. \A i \in 1..n : f[i] = f[i - 1] \o Message(str[i])
  BY <1>3, <1>6, <1>8
<1>10. Unfolds(f)
  <2> DEFINE body(i) == IF i = 0 THEN <<>> ELSE f[i - 1] \o Message(str[i])
  <2>1. ASSUME NEW i \in 0..n PROVE f[i] = body(i)
    <3>1. i = 0 \/ (i # 0 /\ i \in 1..n)
      BY <1>1
    <3>. QED
      BY <1>8, <1>9, <3>1
  <2>2. f = [i \in 0..n |-> f[i]]
    BY <1>8
  <2> HIDE DEF body
  <2>3. f = [i \in 0..n |-> body(i)]
    BY <2>1, <2>2
  <2>. QED
    BY <2>3 DEF body
<1>11. upTo = CHOOSE g : Unfolds(g)
  OBVIOUS
<1>12. Unfolds(upTo)
  <2> HIDE DEF Unfolds
  <2>. QED
    BY <1>10, <1>11
<1> HIDE DEF upTo
<1>13. upTo[0] = <<>> /\ \A i \in 1..n : upTo[i] = upTo[i - 1] \o Message(str[i])
  BY <1>3, <1>12
<1> DEFINE T == {i \in Nat : i <= n => upTo[i] = f[i]}
<1>14. n \in T
  <2>1. 0 \in T
    BY <1>8, <1>13
  <2>2. ASSUME NEW i \in Nat, i \in T PROVE i + 1 \in T
    <3>. SUFFICES ASSUME i + 1 <= n PROVE upTo[i + 1] = f[i + 1]
      OBVIOUS
    <3>1. i + 1 \in 1..n /\ (i + 1) - 1 = i /\ upTo[i] = f[i]
      BY <1>1, <2>2
    <3>. QED
      BY <1>9, <1>13, <3>1
  <2> HIDE DEF T
  <2>. QED
    BY <1>1, <2>1, <2>2, NatSetInduction
<1>15. JoinedTo(str, f)
  BY <1>8, <1>9 DEF JoinedTo, n, S
<1>. QED
  BY <1>2, <1>14, <1>15 DEF n

\* One more message.
LEMMA JoinedAppend ==
  ASSUME NEW str \in Seq(1..Messages), NEW m \in 1..Messages
  PROVE  /\ Concatenated(str) \in Seq(Bytewise)
         /\ Concatenated(Append(str, m)) = Concatenated(str) \o Message(m)
<1> DEFINE t == Append(str, m)
           n == Len(str)
<1>1. /\ t \in Seq(1..Messages) /\ Len(t) = n + 1 /\ n \in Nat
      /\ \A i \in 1..n : t[i] = str[i]
      /\ t[n + 1] = m
  BY AppendProperties, LenProperties
<1> HIDE DEF t
<1>2. PICK f : JoinedTo(str, f) /\ Concatenated(str) = f[n]
  BY JoinedUnfolds
<1>3. PICK g : JoinedTo(t, g) /\ Concatenated(t) = g[n + 1]
  BY <1>1, JoinedUnfolds
<1>4. f[0] = <<>> /\ \A i \in 1..n : f[i] = f[i - 1] \o Message(str[i])
  BY <1>2 DEF JoinedTo
<1>5. g[0] = <<>> /\ \A i \in 1..(n + 1) : g[i] = g[i - 1] \o Message(t[i])
  BY <1>1, <1>3 DEF JoinedTo
<1>6. f[n] \in Seq(Bytewise)
  <2>1. n \in 0..n
    BY <1>1
  <2>. QED
    BY <1>2, <2>1 DEF JoinedTo
<1> HIDE DEF n
<1> DEFINE T == {i \in Nat : i <= n => f[i] = g[i]}
<1>7. n \in T
  <2>1. 0 \in T
    BY <1>4, <1>5
  <2>2. ASSUME NEW i \in Nat, i \in T PROVE i + 1 \in T
    <3>. SUFFICES ASSUME i + 1 <= n PROVE f[i + 1] = g[i + 1]
      OBVIOUS
    <3>1. i + 1 \in 1..n /\ i + 1 \in 1..(n + 1) /\ (i + 1) - 1 = i /\ f[i] = g[i]
      BY <1>1, <2>2
    <3>. QED
      BY <1>1, <1>4, <1>5, <3>1
  <2> HIDE DEF T
  <2>. QED
    BY <1>1, <2>1, <2>2, NatSetInduction
<1>8. g[n + 1] = g[n] \o Message(m)
  <2>1. n + 1 \in 1..(n + 1) /\ (n + 1) - 1 = n
    BY <1>1
  <2>. QED
    BY <1>1, <1>5, <2>1
<1>9. f[n] = g[n]
  BY <1>1, <1>7
<1>. QED
  BY <1>2, <1>3, <1>6, <1>8, <1>9 DEF t

\* What a message was cut into makes the message.
LEMMA Cut ==
  ASSUME NEW str \in Seq(Bytewise), NEW n \in 0..Len(str)
  PROVE  /\ SubSeq(str, 1, n) \in Seq(Bytewise) /\ SubSeq(str, n + 1, Len(str)) \in Seq(Bytewise)
         /\ SubSeq(str, 1, n) \o SubSeq(str, n + 1, Len(str)) = str
         /\ n < Len(str) => SubSeq(str, n + 1, Len(str)) # <<>>
         /\ n = Len(str) => SubSeq(str, 1, n) = str
<1> DEFINE l == Len(str)
           a == SubSeq(str, 1, n)
           b == SubSeq(str, n + 1, l)
<1>1. l \in Nat /\ \A i \in 1..l : str[i] \in Bytewise
  BY LenProperties
<1>2. /\ a \in Seq(Bytewise) /\ Len(a) = n
      /\ \A i \in 1..n : a[i] = str[i]
  <2>1. n \in 0..Len(str) /\ 1 \in 1..(n + 1) /\ n - 1 + 1 = n
        /\ \A i \in 1..n : 1 - 1 + i = i
    BY <1>1
  <2>2. /\ a \in Seq(Bytewise) /\ Len(a) = n - 1 + 1
        /\ \A i \in 1..(n - 1 + 1) : a[i] = str[1 - 1 + i]
    BY <2>1, Stretch
  <2>. QED
    BY <2>1, <2>2
<1>3. /\ b \in Seq(Bytewise) /\ Len(b) = l - n
      /\ \A i \in 1..(l - n) : b[i] = str[n + i]
  <2> DEFINE m == n + 1
  <2>1. l \in 0..Len(str) /\ m \in 1..(l + 1) /\ l - m + 1 = l - n
        /\ \A i \in 1..(l - n) : m - 1 + i = n + i
    BY <1>1
  <2> HIDE DEF m, l
  <2>2. /\ SubSeq(str, m, l) \in Seq(Bytewise) /\ Len(SubSeq(str, m, l)) = l - m + 1
        /\ \A i \in 1..(l - m + 1) : SubSeq(str, m, l)[i] = str[m - 1 + i]
    BY <2>1, Stretch
  <2>. QED
    BY <2>1, <2>2 DEF m
<1> HIDE DEF a, b
<1>4. a \o b = str
  <2> DEFINE c == a \o b
  <2>1. /\ c \in Seq(Bytewise) /\ Len(c) = Len(a) + Len(b)
        /\ \A i \in 1..(Len(a) + Len(b)) : c[i] = IF i <= Len(a) THEN a[i] ELSE b[i - Len(a)]
    BY <1>2, <1>3, ConcatProperties
  <2>2. Len(a) + Len(b) = l
    BY <1>1, <1>2, <1>3
  <2> HIDE DEF c
  <2>3. ASSUME NEW i \in 1..l PROVE c[i] = str[i]
    <3>1. CASE i <= n
      BY <1>1, <1>2, <2>1, <2>2, <3>1
    <3>2. CASE i > n
      <4>1. i - n \in 1..(l - n) /\ n + (i - n) = i /\ ~(i <= n)
        BY <1>1, <3>2
      <4>. QED
        BY <1>2, <1>3, <2>1, <2>2, <4>1
    <3>. QED
      BY <1>1, <3>1, <3>2
  <2>4. c = [i \in 1..Len(c) |-> c[i]] /\ str = [i \in 1..l |-> str[i]]
    BY <2>1
  <2>5. c = str
    BY <2>1, <2>2, <2>3, <2>4
  <2>. QED
    BY <2>5 DEF c
<1>5. n < l => b # <<>>
  BY <1>1, <1>3
<1>6. n = l => a = str
  <2>. SUFFICES ASSUME n = l PROVE a = str
    OBVIOUS
  <2>1. a = [i \in 1..Len(a) |-> a[i]] /\ str = [i \in 1..l |-> str[i]]
    BY <1>2
  <2>. QED
    BY <1>2, <2>1
<1>. QED
  BY <1>2, <1>3, <1>4, <1>5, <1>6 DEF a, b, l

LEMMA SendingStarts ==
  ASSUME WireInit
  PROVE  SInv
<1>1. <<>> \in Seq(Bytewise) /\ <<>> \in Seq(1..Messages)
  BY EmptySeq
<1>2. sent = <<>> /\ out = Empty /\ wire = <<>> /\ cut = FALSE
  BY DEF WireInit
<1>3. Concatenated(<<>>) = <<>>
  <2>1. PICK f : JoinedTo(<<>>, f) /\ Concatenated(<<>>) = f[Len(<<>>)]
    BY <1>1, JoinedUnfolds
  <2>2. Len(<<>>) = 0
    BY EmptySeq
  <2>. QED
    BY <2>1, <2>2 DEF JoinedTo
<1>4. out.rest = <<>>
  BY <1>2 DEF Empty
<1>. QED
  BY <1>1, <1>2, <1>3, <1>4 DEF SInv, SendingTypes, WrittenIsSent

\* What has been put in outbuf belongs to a message.
LEMMA OutNotEmpty ==
  ASSUME SInv, NEW m \in 1..Messages, out.data = m
  PROVE  out # Empty /\ out.rest \in Seq(Bytewise) /\ (out.rest = <<>> => cut)
<1>1. Empty.data = 0 /\ m # 0
  BY ConstantTypes DEF Empty
<1>2. out # Empty
  BY <1>1
<1>. QED
  BY <1>2 DEF SInv, SendingTypes

LEMMA WriteNewStep ==
  ASSUME SInv, NEW m \in 1..Messages, WriteNew(m)
  PROVE  SInv'
<1>1. PICK n \in 0..OutSize :
        /\ wire' = wire \o SubSeq(Message(m), 1, n)
        /\ IF n = OutSize
             THEN sent' = Append(sent, m) /\ UNCHANGED out
             ELSE /\ out' = [data |-> m, rest |-> SubSeq(Message(m), n + 1, OutSize)]
                  /\ UNCHANGED sent
  BY DEF WriteNew
<1> DEFINE a == SubSeq(Message(m), 1, n)
           b == SubSeq(Message(m), n + 1, OutSize)
           M == Message(m)
<1>2. /\ a \in Seq(Bytewise) /\ b \in Seq(Bytewise) /\ a \o b = M
      /\ n < OutSize => b # <<>>
      /\ n = OutSize => a = M
      /\ M \in Seq(Bytewise)
  <2>1. M \in Seq(Bytewise) /\ Len(M) = OutSize /\ n \in 0..Len(M)
    BY MessageBytes
  <2> HIDE DEF M
  <2>2. /\ SubSeq(M, 1, n) \in Seq(Bytewise) /\ SubSeq(M, n + 1, Len(M)) \in Seq(Bytewise)
        /\ SubSeq(M, 1, n) \o SubSeq(M, n + 1, Len(M)) = M
        /\ n < Len(M) => SubSeq(M, n + 1, Len(M)) # <<>>
        /\ n = Len(M) => SubSeq(M, 1, n) = M
    BY <2>1, Cut
  <2>. QED
    BY <2>1, <2>2 DEF M
<1>3. /\ sent \in Seq(1..Messages) /\ wire \in Seq(Bytewise) /\ cut \in BOOLEAN /\ cut' = cut
      /\ out = Empty
  BY DEF SInv, SendingTypes, WriteNew
<1>4. Concatenated(sent) \in Seq(Bytewise) /\ Concatenated(Append(sent, m)) = Concatenated(sent) \o M
  BY <1>3, JoinedAppend
<1>5. ~cut => wire = Concatenated(sent)
  <2>1. Empty.rest = <<>>
    BY DEF Empty
  <2>2. wire \o <<>> = wire /\ Concatenated(sent) \o <<>> = Concatenated(sent)
    BY <1>3, <1>4, ConcatEmptySeq
  <2>. QED
    BY <1>3, <2>1, <2>2 DEF SInv, WrittenIsSent
<1>6. wire' = wire \o a
  BY <1>1
<1> HIDE DEF a, b, M
<1>7. wire' \in Seq(Bytewise)
  BY <1>2, <1>3, <1>6, ConcatProperties
<1>8. CASE n = OutSize
  <2>1. sent' = Append(sent, m) /\ out' = Empty /\ out'.rest = <<>>
    BY <1>1, <1>3, <1>8 DEF Empty
  <2>2. sent' \in Seq(1..Messages)
    BY <1>3, <2>1, AppendProperties
  <2>3. ~cut => wire' = Concatenated(sent')
    BY <1>2, <1>4, <1>5, <1>6, <1>8, <2>1
  <2>4. Concatenated(sent) \o M \in Seq(Bytewise)
    BY <1>2, <1>4, ConcatProperties
  <2>5. wire' \o <<>> = wire' /\ Concatenated(sent') \o <<>> = Concatenated(sent')
    BY <1>4, <1>7, <2>1, <2>4, ConcatEmptySeq
  <2>6. WrittenIsSent'
    BY <1>3, <2>1, <2>3, <2>5 DEF WrittenIsSent
  <2>. QED
    BY <1>3, <1>7, <2>1, <2>2, <2>6 DEF SInv, SendingTypes
<1>9. CASE n # OutSize
  <2>1. out' = [data |-> m, rest |-> b] /\ sent' = sent
    BY <1>1, <1>9 DEF b
  <2>2. out'.data = m /\ out'.rest = b /\ out' \in [data : 1..Messages, rest : Seq(Bytewise)]
    BY <1>2, <2>1
  <2>3. b # <<>>
    BY <1>2, <1>9, ConstantTypes
  <2>4. out' # Empty
    <3>1. Empty.data = 0 /\ m # 0
      BY ConstantTypes DEF Empty
    <3>. QED
      BY <2>2, <3>1
  <2>5. (wire \o a) \o b = wire \o (a \o b)
    <3>1. a \in Seq(Bytewise) /\ b \in Seq(Bytewise) /\ wire \in Seq(Bytewise)
      BY <1>2, <1>3
    <3>. QED
      BY <3>1, ConcatAssociative, SMTT(20)
  <2>6. ~cut => wire' \o out'.rest = Concatenated(sent) \o M
    BY <1>2, <1>5, <1>6, <2>2, <2>5
  <2>7. WrittenIsSent'
    BY <1>3, <2>1, <2>2, <2>4, <2>6 DEF WrittenIsSent, M
  <2>. QED
    BY <1>3, <1>7, <2>1, <2>2, <2>3, <2>7 DEF SInv, SendingTypes
<1>. QED
  BY <1>8, <1>9

LEMMA SendExistingStep ==
  ASSUME SInv, NEW m \in 1..Messages, SendExisting(m)
  PROVE  SInv'
<1> DEFINE r == out.rest
           l == Len(r)
           M == Message(m)
<1>1. /\ out.data = m /\ out # Empty /\ r \in Seq(Bytewise) /\ (r = <<>> => cut) /\ l \in Nat
      /\ out \in [data : 1..Messages, rest : Seq(Bytewise)]
  BY OutNotEmpty, LenProperties DEF SendExisting, SInv, SendingTypes
<1>2. PICK n \in 0..l :
        /\ wire' = wire \o SubSeq(r, 1, n)
        /\ cut' = (cut \/ n \in 1..(l - 1))
        /\ sent' = IF n > 0 THEN Append(sent, m) ELSE sent
        /\ out' = IF n = l THEN Empty
                  ELSE IF n > 0 THEN [out EXCEPT !.rest = <<>>] ELSE out
  BY DEF SendExisting
<1> DEFINE a == SubSeq(r, 1, n)
           b == SubSeq(r, n + 1, l)
<1>3. n = l => a = r
  BY <1>1, Cut
<1>4. M \in Seq(Bytewise)
  BY MessageBytes
<1>5. sent \in Seq(1..Messages) /\ wire \in Seq(Bytewise) /\ cut \in BOOLEAN
  BY DEF SInv, SendingTypes
<1>6. /\ Concatenated(sent) \in Seq(Bytewise) /\ Concatenated(Append(sent, m)) = Concatenated(sent) \o M
      /\ Append(sent, m) \in Seq(1..Messages)
  BY <1>5, JoinedAppend, AppendProperties
<1>7. ~cut => wire \o r = Concatenated(sent) \o M
  BY <1>1 DEF SInv, WrittenIsSent
<1>8. a \in Seq(Bytewise)
  BY <1>1, Cut
<1>9. wire' \in Seq(Bytewise) /\ sent' \in Seq(1..Messages) /\ cut' \in BOOLEAN
  BY <1>2, <1>5, <1>6, <1>8, ConcatProperties
<1>10. CASE n = l /\ n > 0
  <2>1. out' = Empty /\ Empty.rest = <<>> /\ sent' = Append(sent, m) /\ cut' = cut
    BY <1>1, <1>2, <1>5, <1>10 DEF Empty
  <2>2. ~cut => wire' = Concatenated(sent) \o M
    <3>1. wire' = wire \o r
      BY <1>2, <1>3, <1>10
    <3>. QED
      BY <1>7, <3>1
  <2>3. Concatenated(sent) \o M \in Seq(Bytewise)
    BY <1>4, <1>6, ConcatProperties
  <2>4. wire' \o <<>> = wire' /\ Concatenated(sent') \o <<>> = Concatenated(sent')
    BY <1>6, <1>9, <2>1, <2>3, ConcatEmptySeq
  <2>5. WrittenIsSent'
    BY <1>6, <2>1, <2>2, <2>4 DEF WrittenIsSent
  <2>. QED
    BY <1>9, <2>1, <2>5 DEF SInv, SendingTypes
<1>11. CASE n = l /\ n = 0
  <2>1. out' = Empty /\ cut
    BY <1>1, <1>2, <1>11, EmptySeq
  <2>2. cut' = TRUE
    BY <1>2, <2>1
  <2>. QED
    BY <1>9, <2>1, <2>2 DEF SInv, SendingTypes, WrittenIsSent
<1>12. CASE n # l /\ n > 0
  <2>1. n \in 1..(l - 1)
    BY <1>1, <1>12
  <2>2. cut' = TRUE /\ out' = [out EXCEPT !.rest = <<>>]
    BY <1>2, <1>12, <2>1
  <2>3. out' \in [data : 1..Messages, rest : Seq(Bytewise)]
    BY <1>1, <2>2, EmptySeq
  <2>. QED
    BY <1>9, <2>2, <2>3 DEF SInv, SendingTypes, WrittenIsSent
<1>13. CASE n # l /\ n = 0
  <2>1. out' = out /\ sent' = sent
    BY <1>2, <1>13
  <2>2. ~(0 \in 1..(l - 1)) /\ cut' = (cut \/ 0 \in 1..(l - 1))
    BY <1>1, <1>2, <1>13
  <2>3. cut' = cut
    BY <1>5, <2>2
  <2>4. wire' = wire
    <3>1. SubSeq(r, 1, 0) = <<>>
      BY SubSeqEmpty
    <3>2. wire \o <<>> = wire
      BY <1>5, ConcatEmptySeq
    <3>. QED
      BY <1>2, <1>13, <3>1, <3>2
  <2>5. UNCHANGED <<sent, out, wire, cut>>
    BY <2>1, <2>3, <2>4
  <2>. QED
    BY <2>5 DEF SInv, SendingTypes, WrittenIsSent
<1>. QED
  BY <1>2, <1>10, <1>11, <1>12, <1>13

-----------------------------------------------------------------------------
(***************************************************************************)
(* The theorems.                                                           *)
(***************************************************************************)
LEMMA InvariantInitially == WireInit => IInv
  BY ReceivingStarts, SendingStarts DEF IInv

LEMMA InvariantKept == IInv /\ [WireNext]_wireVars => IInv'
<1>. SUFFICES ASSUME IInv, [WireNext]_wireVars PROVE IInv'
  OBVIOUS
<1>1. ASSUME UNCHANGED outVars PROVE SInv'
  BY <1>1 DEF IInv, SInv, SendingTypes, WrittenIsSent, outVars
<1>2. ASSUME UNCHANGED inVars PROVE RInv'
  <2>1. UNCHANGED <<arrived, taken, packet, seqno, newkeys, fullpacket, jump, call, received>>
    BY <1>2 DEF inVars
  <2>2. Arriving' = Arriving /\ ReceivedWhole' /\ InPlace'
    BY <2>1, InPlaceKept DEF IInv
  <2>3. ReceivingTypes'
    BY <2>1 DEF IInv, RInv, ReceivingTypes
  <2>4. Calls'
    BY <2>1, <2>2 DEF IInv, RInv, Calls, Whole
  <2>. QED
    BY <2>2, <2>3, <2>4 DEF RInv
<1>3. CASE Arrive
  BY <1>1, <1>3, ArriveStep DEF IInv, Arrive
<1>4. CASE LibPacketRead
  BY <1>1, <1>4, PacketReadStep DEF IInv, LibPacketRead
<1>5. CASE ReadLoop
  <2>1. UNCHANGED outVars
    BY <1>5 DEF ReadLoop, ReadMore
  <2>. QED
    BY <1>1, <1>5, <2>1, ReadLoopStep DEF IInv
<1>6. CASE WouldBlock
  BY <1>1, <1>6, WouldBlockStep DEF IInv, WouldBlock
<1>7. CASE FullPacket
  BY <1>1, <1>7, FullPacketStep DEF IInv, FullPacket
<1>8. CASE AddAgain
  BY <1>1, <1>8, AddAgainStep DEF IInv, AddAgain
<1>9. CASE Added
  BY <1>1, <1>9, AddedStep DEF IInv, Added
<1>10. CASE SwitchKeys
  BY <1>1, <1>10, SwitchKeysStep DEF IInv, SwitchKeys
<1>11. ASSUME NEW m \in 1..Messages, WriteNew(m) PROVE IInv'
  BY <1>2, <1>11, WriteNewStep DEF IInv, WriteNew
<1>12. ASSUME NEW m \in 1..Messages, SendExisting(m) PROVE IInv'
  BY <1>2, <1>12, SendExistingStep DEF IInv, SendExisting
<1>13. CASE UNCHANGED wireVars
  BY <1>1, <1>2, <1>13 DEF wireVars, IInv
<1>. QED
  BY <1>3, <1>4, <1>5, <1>6, <1>7, <1>8, <1>9, <1>10, <1>11, <1>12, <1>13
  DEF WireNext, Receive, Send, Unsent

LEMMA Invariant == WireSpec => []IInv
  BY InvariantInitially, InvariantKept, PTL DEF WireSpec

\* Packets reach packet_add whole, confirmed by their MAC, once each and in
\* order, and every byte read is in one of them, in the packet at hand or in
\* the buffer: for every cut of the stream and every size of packet and buffer.
THEOREM PacketsArriveWhole == WireSpec => []PacketsWhole
<1>1. ASSUME IInv PROVE PacketsWhole
  <2>1. RInv /\ SInv
    BY <1>1 DEF IInv
  <2>2. WireTypeOK
    <3>1. out.data \in 0..Messages
      <4>1. CASE out = Empty
        BY <4>1, ConstantTypes DEF Empty
      <4>2. CASE out # Empty
        BY <2>1, <4>2, ConstantTypes DEF SInv, SendingTypes
      <4>. QED
        BY <4>1, <4>2
    <3>2. seqno \in 1..(Count + 1)
      BY <2>1, ConstantTypes DEF RInv, ReceivingTypes
    <3>. QED
      BY <2>1, <3>1, <3>2 DEF WireTypeOK, RInv, ReceivingTypes, SInv, SendingTypes
  <2>3. call # "failed"
    BY <2>1 DEF RInv, ReceivingTypes
  <2>4. taken = Bytes[Len(received)]
                  + (IF fullpacket THEN 0 ELSE Len(packet.init) + Len(packet.payload))
                  + Len(packet.buf)
    <3> DEFINE l == Len(packet.buf)
    <3>1. l \in Nat /\ taken = Bytes[Arriving - 1] + Unpacked(packet) + l /\ Len(received) \in Nat
      BY <2>1, ConstantTypes DEF RInv, InPlace, ReceivingTypes
    <3> HIDE DEF l
    <3>2. CASE fullpacket
      <4>1. /\ Arriving = Len(received) /\ Arriving \in 1..Count /\ Unpacked(packet) = Size[Arriving]
        BY <2>1, <3>2, AtNumber, WholePacket DEF RInv, Calls
      <4>2. /\ Bytes[Arriving] = Bytes[Arriving - 1] + Size[Arriving] /\ Bytes[Arriving] \in Nat
        BY <4>1, PlaceOf
      <4>3. taken = Bytes[Len(received)] + 0 + l
        BY <3>1, <4>1, <4>2
      <4>. QED
        BY <3>2, <4>3 DEF l
    <3>3. CASE ~fullpacket
      <4>1. Arriving = Len(received) + 1 /\ Arriving - 1 = Len(received)
        BY <2>1, <3>1, <3>3, AtNumber
      <4>. QED
        BY <3>1, <3>3, <4>1 DEF Unpacked, l
    <3>. QED
      BY <3>2, <3>3
  <2>. QED
    BY <2>1, <2>2, <2>3, <2>4 DEF PacketsWhole, RInv, ReceivedWhole
<1>. QED
  BY <1>1, Invariant, PTL

\* What is on the wire with what is kept in outbuf is what libssh2_packet_write
\* said it sent and what it said EAGAIN for, unless a part of what was left has
\* been taken for all of it.
THEOREM WritesAreSent == WireSpec => []WrittenIsSent
<1>1. IInv => WrittenIsSent
  BY DEF IInv, SInv
<1>. QED
  BY <1>1, Invariant, PTL

\* Each step of the transport layer is a step of the pipe or leaves it as it is:
\* the safety part of ImplementsPipe.
THEOREM StepsAreThePipes == WireSpec => Incoming!Init /\ [][Incoming!Next]_(Len(received))
<1>1. WireInit => Incoming!Init
  BY EmptySeq DEF WireInit, Incoming!Init
<1>2. ASSUME IInv, IInv', [WireNext]_wireVars
      PROVE  [Incoming!Next]_(Len(received))
  <2>1. Len(received) \in 0..Count /\ Len(received') \in 0..Count
    BY <1>2 DEF IInv, RInv, ReceivingTypes
  <2>2. \/ UNCHANGED received
        \/ \E v : received' = Append(received, v)
    BY <1>2 DEF WireNext, wireVars, inVars, Receive, Send, Arrive, LibPacketRead, ReadLoop, ReadMore,
         WouldBlock, FullPacket, AddAgain, Added, SwitchKeys, WriteNew, SendExisting
  <2>3. CASE UNCHANGED received
    BY <2>3
  <2>4. ASSUME NEW v, received' = Append(received, v) PROVE Incoming!Next
    <3>1. received \in Seq([of : Nat, bytes : Nat, mac : BOOLEAN])
      BY <1>2 DEF IInv, RInv, ReceivingTypes
    <3>2. Len(received') = Len(received) + 1
      BY <2>4, <3>1
    <3>3. Len(received) < Count
      BY <2>1, <3>2, ConstantTypes
    <3>. QED
      BY <3>2, <3>3 DEF Incoming!Next, Incoming!Deliver
  <2>. QED
    BY <2>2, <2>3, <2>4
<1>. QED
  BY <1>1, <1>2, Invariant, PTL DEF WireSpec

-----------------------------------------------------------------------------
(***************************************************************************)
(* Theorem about SshClient, for every program, every server and every      *)
(* interleaving of the two: neither end gets a packet under keys it does   *)
(* not have, and nothing comes between libssh2's KEXINIT and its NEWKEYS,  *)
(* unless an exchange was left half way.  The calls keep KeyInv by the     *)
(* lemmas of SshKeyProofs, the server's steps by those below.              *)
(***************************************************************************)

-----------------------------------------------------------------------------
(* The beginning of session_startup. *)

\* Another position of startup is no other one of an exchange.
LEMMA StartupStood ==
  ASSUME NEW t, NEW u, NEW pos, Stood(t, u, "startup", pos)
  PROVE  /\ \A o \in KeyOps : At(u, o, 0) = At(t, o, 0)
         /\ StartAt(u) = pos
         /\ DOMAIN u = Fields /\ u.fullpacket = t.fullpacket /\ u.packets = t.packets /\ u.gone = t.gone
         /\ u.inbound = t.inbound /\ u.outbound = t.outbound /\ u.keys = t.keys /\ u.state = t.state
         /\ u.start = t.start /\ u.kex = t.kex /\ u.kexRc = t.kexRc /\ u.socket_state = t.socket_state
         /\ u.call = t.call /\ u.methods = t.methods
         /\ Idle(t) => Idle(u)
<1>1. \A o \in KeyOps : At(u, o, 0) = At(t, o, 0)
  <2> SUFFICES ASSUME NEW o \in KeyOps PROVE At(u, o, 0) = At(t, o, 0)
    OBVIOUS
  <2>1. <<o, 0>> # <<"startup", 0>>
    BY DEF KeyOps
  <2>. QED
    BY <2>1 DEF Stood
<1>2. /\ DOMAIN u = Fields /\ u.fullpacket = t.fullpacket /\ u.packets = t.packets /\ u.gone = t.gone
      /\ u.inbound = t.inbound /\ u.outbound = t.outbound /\ u.keys = t.keys /\ u.state = t.state
      /\ u.start = t.start /\ u.kex = t.kex /\ u.kexRc = t.kexRc /\ u.socket_state = t.socket_state
      /\ u.call = t.call /\ u.methods = t.methods
  BY FieldsAre DEF Stood
<1>3. StartAt(u) = pos
  BY DEF Stood, StartAt
<1>4. Idle(t) => Idle(u)
  BY <1>1, <1>2 DEF Idle
<1>. QED
  BY <1>1, <1>2, <1>3, <1>4

\* What startup has received and sent before an exchange.
Fresh(t, v, m) ==
  /\ Formed(t) /\ Hung(t, v) /\ t.kex = "none" /\ t.kexRc = ""
  /\ t.keys = 0 /\ t.methods = <<>> /\ t.packets = <<>>
  /\ Idle(t) /\ Plainly(t.outbound, v, 0) /\ Holding(v, 0)
  /\ Announced(t.inbound, m, 0)

LEMMA FreshStands ==
  ASSUME NEW t, NEW v, NEW m, Fresh(t, v, m), NEW pos
  PROVE  LET u == Goto(t, "startup", 0, pos)
         IN  Fresh(u, v, m) /\ StartAt(u) = pos /\ u.call = t.call
<1> DEFINE u == Goto(t, "startup", 0, pos)
<1>1. Formed(t)
  BY DEF Fresh
<1>2. Stood(t, u, "startup", pos) /\ Formed(u)
  BY <1>1, GotoOther, GotoForms
<1> HIDE DEF u
<1>3. /\ StartAt(u) = pos
      /\ DOMAIN u = Fields /\ u.fullpacket = t.fullpacket /\ u.packets = t.packets /\ u.gone = t.gone
      /\ u.inbound = t.inbound /\ u.outbound = t.outbound /\ u.keys = t.keys
      /\ u.kex = t.kex /\ u.kexRc = t.kexRc /\ u.socket_state = t.socket_state
      /\ u.call = t.call /\ u.methods = t.methods
      /\ Idle(t) => Idle(u)
  BY <1>2, StartupStood
<1>4. Hung(u, v)
  BY <1>3, HungSame DEF Fresh
<1>. QED
  BY <1>2, <1>3, <1>4 DEF Fresh, u

LEMMA AnnouncedHas ==
  ASSUME NEW q, IsList(q), NEW m \in {0, 1}, Announced(q, m, 0)
  PROVE  q # <<>> /\ q[1].key = 0 /\ (m = 1 => Tail(q) # <<>> /\ Tail(q)[1].key = 0 /\ Announced(Tail(q), 0, 0))
<1> DEFINE x == Tail(q)
           f == Offers[q[m + 1].n].follows
<1>1. Len(q) = m + (IF f THEN 2 ELSE 1)
  BY DEF Announced
<1>2. Len(q) \in Nat /\ DOMAIN q = 1..Len(q)
  BY ListHas
<1> HIDE DEF f
<1>3. 1 \in DOMAIN q /\ Len(q) >= m + 1
  <2> DEFINE n == Len(q)
             g == IF f THEN 2 ELSE 1
  <2>1. g \in {1, 2} /\ n = m + g
    BY <1>1
  <2> HIDE DEF n, g
  <2>2. n >= m + 1 /\ 1 <= n
    BY <2>1
  <2>. QED
    BY <1>2, <2>2 DEF n
<1>4. q # <<>> /\ q[1].key = 0
  BY <1>3, NotEmpty DEF Announced
<1>5. ASSUME m = 1 PROVE x # <<>> /\ x[1].key = 0 /\ Announced(x, 0, 0)
  <2>1. /\ IsList(x) /\ Len(x) = Len(q) - 1
        /\ \A j \in DOMAIN x : j + 1 \in DOMAIN q /\ x[j] = q[j + 1] /\ j \in Nat /\ j >= 1
    BY <1>4, TailIs
  <2> HIDE DEF x
  <2>2. Len(x) \in Nat /\ DOMAIN x = 1..Len(x)
    BY <2>1, ListHas
  <2>3. Len(q) >= 2
    BY <1>3, <1>5
  <2>4. 1 \in DOMAIN x
    BY <1>2, <2>1, <2>2, <2>3
  <2>5. x[1] = q[2]
    <3>1. 1 + 1 = 2
      OBVIOUS
    <3>. QED
      BY <2>1, <2>4, <3>1
  <2>6. /\ \A j \in DOMAIN q : q[j].key = 0
        /\ q[2].type = "KEXINIT"
        /\ \A j \in DOMAIN q : j > 2 => q[j].type = "GUESS"
        /\ f = Offers[q[2].n].follows
    BY <1>5 DEF Announced, f
  <2>7. \A j \in DOMAIN x : x[j].key = 0 /\ (j > 1 => x[j].type = "GUESS")
    <3> SUFFICES ASSUME NEW j \in DOMAIN x PROVE x[j].key = 0 /\ (j > 1 => x[j].type = "GUESS")
      OBVIOUS
    <3>1. j + 1 \in DOMAIN q /\ x[j] = q[j + 1] /\ (j > 1 => j + 1 > 2)
      BY <2>1
    <3>. QED
      BY <2>6, <3>1
  <2>8. Len(x) = IF f THEN 2 ELSE 1
    BY <1>1, <1>5, <2>1
  <2>9. Len(x) = 0 + (IF f THEN 2 ELSE 1)
    BY <2>8
  <2>10. f = Offers[x[0 + 1].n].follows /\ x[0 + 1].type = "KEXINIT"
    BY <2>5, <2>6
  <2>11. \A j \in DOMAIN x : x[j].key = 0 /\ (j > 0 + 1 => x[j].type = "GUESS")
    BY <2>7
  <2>12. Announced(x, 0, 0)
    BY <2>9, <2>10, <2>11, Zenon DEF Announced
  <2>. QED
    BY <2>1, <2>4, <2>7, <2>12, NotEmpty
<1>. QED
  BY <1>4, <1>5 DEF x

LEMMA UnstartedIs ==
  ASSUME NEW t, NEW v, NEW a, Formed(t), Hung(t, v)
  PROVE  Unstarted(t, v, a) <=>
           /\ Starts(a.todo) /\ StartAt(t) \in {"idle", "sent", "sent1"}
           /\ Fresh(t, v, IF StartAt(t) = "sent1" THEN 0 ELSE 1)
BY DEF Unstarted, Fresh

\* It goes on.
LEMMA FreshGoes ==
  ASSUME NEW u, Fresh(u, srv, IF StartAt(u) = "sent1" THEN 0 ELSE 1), StartAt(u) \in {"idle", "sent", "sent1"},
         Program(s, app), Starts(app.todo), app.busy, app.todo # <<>>, NEW b, b.busy = app.busy, b.todo = app.todo
  PROVE  Settled(u, srv, b)
<1>1. Formed(u) /\ Hung(u, srv) /\ u.keys = 0
  BY DEF Fresh
<1>2. Unstarted(u, srv, b)
  BY <1>1, UnstartedIs
<1>3. app.todo[1].op # "read"
  BY DEF Starts
<1>4. Program(u, b)
  BY <1>3 DEF Program
<1>5. u.keys \in Nat
  <2>1. 0 \in Nat
    OBVIOUS
  <2>. QED
    BY <1>1, <2>1
<1>. QED
  BY <1>1, <1>2, <1>4, <1>5 DEF Settled

\* It fails.
LEMMA FreshFails ==
  ASSUME NEW u, Formed(u), Hung(u, srv), u.kex = "none", u.kexRc = "", u.keys = 0, Plainly(u.outbound, srv, 0),
         u.inbound # <<>>, u.inbound[1].key = 0,
         Program(s, app), Starts(app.todo), app.todo # <<>>, NEW r, r.rc = "FAIL", NEW b, Continues(r, b)
  PROVE  Settled(u, srv, b)
<1>1. Now.op = "startup" /\ Now.no = "end"
  BY UsableFirst DEF Program, Starts, Now
<1>2. b.busy = FALSE /\ Usable(b.todo) /\ Quitting(b.todo)
  <2>1. r.rc \notin {"", "EAGAIN"} /\ r.rc # "MORE" /\ Now.op # "read"
    BY <1>1
  <2>. QED
    BY <1>1, <2>1, GoesOnward
<1>3. Program(u, b)
  BY <1>2, QuittingLists DEF Program
<1>4. Broken(u, srv)
  BY DEF Broken
<1>5. Failed(u, srv, b)
  BY <1>2, <1>4 DEF Failed
<1>6. u.keys \in Nat
  <2>1. 0 \in Nat
    OBVIOUS
  <2>. QED
    BY <2>1
<1>. QED
  BY <1>3, <1>5, <1>6 DEF Settled

LEMMA BannerSends ==
  ASSUME NEW t, NEW v, Fresh(t, v, 1), ~t.gone
  PROVE  LET o == BannerSend(t) IN o.rc = "" /\ Fresh(o.s, v, 1) /\ o.s.call = t.call
<1> DEFINE p == Plain("BANNER")
           x == Append(t.outbound, p)
           u == [t EXCEPT !.outbound = x]
<1>1. Formed(t) /\ IsList(t.outbound) /\ ArePackets(t.outbound)
  BY DEF Fresh, Formed, ArePackets
<1>2. IsPacket(p) /\ p.key = 0 /\ p.type = "BANNER"
  BY DEF IsPacket, Plain, Packet, PacketFields
<1> HIDE DEF p
<1>3. ArePackets(x)
  BY <1>1, <1>2, PacketsAppended
<1>4. \A j \in DOMAIN x : x[j] = p \/ (j \in DOMAIN t.outbound /\ x[j] = t.outbound[j])
  BY <1>1, AppendedIs
<1> HIDE DEF x
<1>5. Formed(u) /\ Same(t, u, {"outbound"}) /\ u.outbound = x
  BY <1>1, <1>3, FieldsAre DEF Formed, Same
<1> DEFINE o == BannerSend(t)
<1>6. o = R(u, "")
  BY DEF BannerSend, x, p
<1> HIDE DEF u, o
<1>7. o.s = u /\ o.rc = ""
  BY <1>6 DEF R
<1>8. /\ u.fullpacket = t.fullpacket /\ u.packets = t.packets /\ u.gone = t.gone
      /\ u.inbound = t.inbound /\ u.keys = t.keys /\ u.state = t.state /\ u.start = t.start
      /\ u.kex = t.kex /\ u.kexRc = t.kexRc /\ u.socket_state = t.socket_state
      /\ u.call = t.call /\ u.methods = t.methods
  BY <1>5, FieldsAre DEF Same
<1>9. \A f, c : At(u, f, c) = At(t, f, c)
  BY <1>5, AtSame
<1>10. Idle(u)
  BY <1>8, <1>9 DEF Fresh, Idle
<1>11. Hung(u, v)
  BY <1>8, HungSame DEF Fresh
<1>12. Plainly(x, v, 0)
  <2>1. p.type \notin Asking
    BY <1>2 DEF Asking, Inits
  <2>2. Plainly(t.outbound, v, 0)
    BY DEF Fresh
  <2>3. \A j \in DOMAIN x : x[j].key = 0 /\ x[j].type \notin Asking
    BY <1>2, <1>4, <2>1, <2>2 DEF Plainly
  <2>. QED
    BY <2>2, <2>3 DEF Plainly
<1>13. Fresh(u, v, 1)
  BY <1>5, <1>8, <1>10, <1>11, <1>12 DEF Fresh
<1>. QED
  BY <1>7, <1>8, <1>13 DEF o

\* The server's banner has been read.
LEMMA BannerRead ==
  ASSUME NEW t, NEW v, Fresh(t, v, 1)
  PROVE  LET o == BannerReceive(t)
         IN  o.rc \in {"", "FAIL"} /\ Fresh(o.s, v, 0) /\ o.s.call = t.call
<1> DEFINE x == Tail(t.inbound)
           u == [t EXCEPT !.inbound = x]
           o == BannerReceive(t)
<1>1. Formed(t) /\ ArePackets(t.inbound) /\ IsList(t.inbound)
  BY DEF Fresh, Formed, ArePackets
<1>2. t.inbound # <<>> /\ Announced(x, 0, 0)
  BY <1>1, AnnouncedHas DEF Fresh
<1>3. ArePackets(x)
  BY <1>1, <1>2, PacketsTail
<1>4. \A j \in DOMAIN x : j + 1 \in DOMAIN t.inbound /\ x[j] = t.inbound[j + 1]
  BY <1>1, <1>2, TailIs
<1> HIDE DEF x
<1>5. Formed(u) /\ Same(t, u, {"inbound"}) /\ u.inbound = x
  BY <1>1, <1>3, FieldsAre DEF Formed, Same
<1> DEFINE rc == IF Head(t.inbound).what = "empty" THEN "FAIL" ELSE ""
<1>6. o = R(u, rc) /\ rc \in {"", "FAIL"}
  BY <1>2 DEF BannerReceive, x
<1> HIDE DEF u, o, rc
<1>7. o.s = u /\ o.rc \in {"", "FAIL"}
  BY <1>6, ResultOf
<1>8. /\ u.fullpacket = t.fullpacket /\ u.packets = t.packets /\ u.gone = t.gone
      /\ u.outbound = t.outbound /\ u.keys = t.keys /\ u.state = t.state /\ u.start = t.start
      /\ u.kex = t.kex /\ u.kexRc = t.kexRc /\ u.socket_state = t.socket_state
      /\ u.call = t.call /\ u.methods = t.methods
  BY <1>5, FieldsAre DEF Same
<1>9. \A op, c : At(u, op, c) = At(t, op, c)
  BY <1>5, AtSame
<1>10. Idle(u)
  BY <1>8, <1>9 DEF Fresh, Idle
<1>11. Hung(u, v)
  BY <1>4, <1>5, <1>8 DEF Fresh, Hung
<1>12. Fresh(u, v, 0)
  BY <1>2, <1>5, <1>8, <1>10, <1>11 DEF Fresh
<1>. QED
  BY <1>7, <1>8, <1>12 DEF o

LEMMA StartupBanner ==
  ASSUME NEW t, NEW net, StartAt(t) = "idle"
  PROVE  LET o == BannerSend(t)
         IN  Startup(t, net) = IF o.rc = "" THEN R(Goto(o.s, "startup", 0, "sent"), "MORE")
                               ELSE R(Goto(o.s, "startup", 0, "created"), "FAIL")
BY DEF Startup, StartAt

LEMMA StartupReads ==
  ASSUME NEW t, NEW net, StartAt(t) = "sent"
  PROVE  LET o == BannerReceive(t)
         IN  Startup(t, net) = IF o.rc = "" THEN R(Goto(o.s, "startup", 0, "sent1"), "MORE") ELSE o
BY DEF Startup, StartAt

LEMMA StartupCalls ==
  ASSUME NEW t, NEW net, StartAt(t) = "sent1", t.kexRc = ""
  PROVE  Startup(t, net) = R([t EXCEPT !.kex = "startup"], "MORE")
BY DEF Startup, StartAt

LEMMA IdleStep ==
  ASSUME Fresh(s, srv, 1), StartAt(s) = "idle", Program(s, app), Starts(app.todo), app.busy, app.todo # <<>>,
         NEW net, NEW r, r = Startup(s, net), NEW b, Continues(r, b)
  PROVE  Settled(r.s, srv, b)
<1> DEFINE o == BannerSend(s)
           u == Goto(o.s, "startup", 0, "sent")
           d == Goto(o.s, "startup", 0, "created")
<1>1. r = IF o.rc = "" THEN R(u, "MORE") ELSE R(d, "FAIL")
  BY StartupBanner
<1>2. CASE ~s.gone
  <2>1. o.rc = "" /\ Fresh(o.s, srv, 1)
    BY <1>2, BannerSends
  <2> HIDE DEF o
  <2>2. Fresh(u, srv, 1) /\ StartAt(u) = "sent"
    BY <2>1, FreshStands
  <2> HIDE DEF u
  <2>3. r.s = u /\ r.rc = "MORE"
    <3>1. r = R(u, "MORE")
      BY <1>1, <2>1
    <3>. QED
      BY <3>1, ResultOf
  <2>4. b.busy = app.busy /\ b.todo = app.todo
    BY <2>3 DEF Continues
  <2>5. Fresh(u, srv, IF StartAt(u) = "sent1" THEN 0 ELSE 1) /\ StartAt(u) \in {"idle", "sent", "sent1"}
    BY <2>2
  <2>. QED
    BY <2>3, <2>4, <2>5, FreshGoes
<1>3. CASE s.gone
  <2>1. o = R(s, "FAIL")
    BY <1>3 DEF BannerSend
  <2> HIDE DEF o
  <2>2. o.s = s /\ o.rc = "FAIL"
    BY <2>1 DEF R
  <2>3. Fresh(d, srv, 1)
    BY <2>2, FreshStands
  <2> HIDE DEF d
  <2>4. r.s = d /\ r.rc = "FAIL"
    BY <1>1, <2>2 DEF R
  <2>5. IsList(d.inbound)
    BY <2>3 DEF Fresh, Formed, ArePackets
  <2>6. d.inbound # <<>> /\ d.inbound[1].key = 0
    BY <2>3, <2>5, AnnouncedHas DEF Fresh
  <2>. QED
    BY <2>3, <2>4, <2>6, FreshFails DEF Fresh
<1>. QED
  BY <1>2, <1>3

LEMMA BannerStep ==
  ASSUME Fresh(s, srv, 1), StartAt(s) = "sent", Program(s, app), Starts(app.todo), app.busy, app.todo # <<>>,
         NEW net, NEW r, r = Startup(s, net), NEW b, Continues(r, b)
  PROVE  Settled(r.s, srv, b)
<1> DEFINE o == BannerReceive(s)
           u == Goto(o.s, "startup", 0, "sent1")
<1>1. r = IF o.rc = "" THEN R(u, "MORE") ELSE o
  BY StartupReads
<1>2. o.rc \in {"", "FAIL"} /\ Fresh(o.s, srv, 0)
  BY BannerRead
<1> HIDE DEF o
<1>3. CASE o.rc = ""
  <2>2. Fresh(u, srv, 0) /\ StartAt(u) = "sent1"
    BY <1>2, FreshStands
  <2> HIDE DEF u
  <2>3. r.s = u /\ r.rc = "MORE"
    <3>1. r = R(u, "MORE")
      BY <1>1, <1>3
    <3>. QED
      BY <3>1, ResultOf
  <2>4. b.busy = app.busy /\ b.todo = app.todo
    BY <2>3 DEF Continues
  <2>5. Fresh(u, srv, IF StartAt(u) = "sent1" THEN 0 ELSE 1) /\ StartAt(u) \in {"idle", "sent", "sent1"}
    BY <2>2
  <2>. QED
    BY <2>3, <2>4, <2>5, FreshGoes
<1>4. CASE o.rc = "FAIL"
  <2>1. r = o
    BY <1>1, <1>4
  <2>2. Fresh(r.s, srv, 0) /\ r.rc = "FAIL"
    BY <1>2, <1>4, <2>1
  <2>3. IsList(r.s.inbound)
    BY <2>2 DEF Fresh, Formed, ArePackets
  <2>4. r.s.inbound # <<>> /\ r.s.inbound[1].key = 0
    BY <2>2, <2>3, AnnouncedHas DEF Fresh
  <2> DEFINE u1 == r.s
  <2>5. /\ Formed(u1) /\ Hung(u1, srv) /\ u1.kex = "none" /\ u1.kexRc = "" /\ u1.keys = 0 /\ Plainly(u1.outbound, srv, 0)
        /\ u1.inbound # <<>> /\ u1.inbound[1].key = 0
    BY <2>2, <2>4 DEF Fresh
  <2> HIDE DEF u1
  <2>6. Settled(u1, srv, b)
    BY <2>2, <2>5, FreshFails
  <2>. QED
    BY <2>6 DEF u1
<1>. QED
  BY <1>2, <1>3, <1>4

\* The exchange is called.
LEMMA CallStep ==
  ASSUME Fresh(s, srv, 0), StartAt(s) = "sent1", Program(s, app), Starts(app.todo), app.busy, app.todo # <<>>,
         NEW net, NEW r, r = Startup(s, net), NEW b, Continues(r, b)
  PROVE  Settled(r.s, srv, b)
<1> DEFINE u == [s EXCEPT !.kex = "startup"]
<1>1. r = R(u, "MORE")
  BY StartupCalls DEF Fresh
<1>2. Formed(u) /\ Same(s, u, {"kex"}) /\ u.kex = "startup"
  BY FieldsAre DEF Fresh, Formed, Same
<1> HIDE DEF u
<1>3. r.s = u /\ r.rc = "MORE"
  BY <1>1 DEF R
<1>4. /\ u.fullpacket = s.fullpacket /\ u.packets = s.packets /\ u.gone = s.gone /\ u.inbound = s.inbound
      /\ u.outbound = s.outbound /\ u.keys = s.keys /\ u.state = s.state /\ u.start = s.start
      /\ u.kexRc = s.kexRc /\ u.socket_state = s.socket_state
      /\ u.call = s.call /\ u.methods = s.methods
  BY <1>2, FieldsAre DEF Same
<1>5. \A o, c : At(u, o, c) = At(s, o, c)
  BY <1>2, AtSame
<1>6. Idle(u)
  BY <1>4, <1>5 DEF Fresh, Idle
<1>7. Called(u) /\ u.methods = <<>> /\ u.keys = 0 /\ u.kexRc = "" /\ Plainly(u.outbound, srv, u.keys) /\ Holding(srv, u.keys)
  BY <1>2, <1>4 DEF Fresh, Called
<1>8. At(u, "kex", 0) = "idle" /\ (\A op \in KeyOps : At(u, op, 0) = "idle") /\ "kex" \notin u.start
  BY <1>6 DEF Idle, KeyOps
<1>9. ToOffer(u, srv)
  BY <1>6, <1>7, <1>8 DEF ToOffer
<1>10. Exchanging(u, srv)
  BY <1>8, <1>9 DEF Exchanging
<1>11. b.busy = app.busy /\ b.todo = app.todo
  BY <1>3 DEF Continues
<1>12. Started(u, b)
  BY <1>5, <1>11 DEF Started, StartAt
<1>13. In(u, srv, b)
  BY <1>2, <1>7, <1>10, <1>11, <1>12 DEF In
<1>14. Program(u, b)
  BY <1>11 DEF Program, Starts
<1>15. Hung(u, srv)
  BY <1>4, HungSame DEF Fresh
<1>16. u.keys \in Nat
  <2>1. 0 \in Nat
    OBVIOUS
  <2>. QED
    BY <1>7, <2>1
<1>. QED
  BY <1>2, <1>3, <1>13, <1>14, <1>15, <1>16 DEF Settled

\* What a call does in a step where it waits for no exchange.
LEMMA StepIs ==
  ASSUME s.kex = "none", Now.op \in Ops, NEW net
  PROVE  LET r == Step(s, Now.op, On, Now.arg, net)
         IN  /\ r = Operation(s, Now.op, On, Now.arg, net)
             /\ Now.op = "startup" => r = Startup(s, net)
             /\ Now.op = "disconnect" => r = Disconnect(s)
             /\ Now.op = "session_free" => r = SessionFree(s)
<1> DEFINE r == Operation(s, Now.op, On, Now.arg, net)
<1>1. Step(s, Now.op, On, Now.arg, net) = r
  BY Zenon DEF Step
<1>2. /\ Now.op = "startup" => r = Startup(s, net)
      /\ Now.op = "disconnect" => r = Disconnect(s)
      /\ Now.op = "session_free" => r = SessionFree(s)
  BY OperationIs
<1> DEFINE q == Step(s, Now.op, On, Now.arg, net)
<1>3. q = r
  BY <1>1
<1> HIDE DEF r, q
<1>4. /\ Now.op = "startup" => q = Startup(s, net)
      /\ Now.op = "disconnect" => q = Disconnect(s)
      /\ Now.op = "session_free" => q = SessionFree(s)
  BY <1>2, <1>3
<1>. QED
  BY <1>3, <1>4 DEF r, q

\* The keys the server has are those of outbound, or it is about to switch.
LEMMA OpenKeys ==
  ASSUME NEW o, NEW v, v.keysIn \in Nat, NEW k \in Nat, Plainly(o, v, k) \/ Begun(o, v, k) \/ Open(o, v, k)
  PROVE  /\ k \in {v.keysIn, v.keysIn + 1}
         /\ Plainly(o, v, k) \/ Begun(o, v, k) \/ Switching(o, v, k)
<1>1. Plainly(o, v, k) \/ Begun(o, v, k) \/ Switching(o, v, k)
  BY DEF Open
<1>2. v.keysIn = k \/ v.keysIn = k - 1
  BY <1>1 DEF Plainly, Begun, Proposed, Within, Switching
<1>. QED
  BY <1>1, <1>2

Standing == Formed(s) /\ s.keys \in Nat /\ Hung(s, srv) /\ Program(s, app) /\ srv.keysIn \in Nat

LEMMA FreeStep ==
  ASSUME Standing, app.todo # <<>>, Now.op = "session_free",
         NEW k \in Nat, Plainly(s.outbound, srv, k) \/ Begun(s.outbound, srv, k) \/ Open(s.outbound, srv, k),
         NEW r, r = SessionFree(s), NEW b, Continues(r, b)
  PROVE  Settled(r.s, srv, b)
<1>1. /\ k \in {srv.keysIn, srv.keysIn + 1}
      /\ Plainly(s.outbound, srv, k) \/ Begun(s.outbound, srv, k) \/ Switching(s.outbound, srv, k)
  BY OpenKeys DEF Standing
<1>. QED
  BY <1>1, FreedStep DEF Standing

LEMMA BetweenStep ==
  ASSUME Standing, Between(s, srv, app), s.kexRc = "", app.todo # <<>>, app.busy,
         NEW net, NEW r, r = Step(s, Now.op, On, Now.arg, net), NEW b, Continues(r, b)
  PROVE  Settled(r.s, srv, b)
<1>1. /\ s.kex = "none" /\ Calm(s, srv) /\ PastExchange(s, app)
      /\ Formed(s) /\ s.keys \in Nat /\ Hung(s, srv) /\ Program(s, app) /\ Sound(s)
  <2>1. s.kex = "none" /\ Calm(s, srv) /\ PastExchange(s, app)
    BY DEF Between
  <2>. QED
    BY <2>1, CalmSound DEF Standing
<1>2. Now.op \in Ops /\ Now = app.todo[1] /\ 1 \in DOMAIN app.todo
  BY <1>1, UsableFirst DEF Program, Now
<1>3. (Now.op = "read" => Reading(s.call)) /\ (NoStartup(app.todo) \/ Starts(app.todo))
  BY <1>1, <1>2 DEF Program
<1>4. /\ r = Operation(s, Now.op, On, Now.arg, net)
      /\ Now.op = "startup" => r = Startup(s, net)
      /\ Now.op = "session_free" => r = SessionFree(s)
  BY <1>1, <1>2, StepIs
<1>5. (Starts(app.todo) => Now.op = "startup") /\ (NoStartup(app.todo) => Now.op # "startup")
  BY <1>2 DEF Starts, NoStartup
<1>6. CASE Now.op = "session_free"
  <2>1. Open(s.outbound, srv, s.keys)
    BY <1>1 DEF Calm
  <2> DEFINE k == s.keys
  <2>2. k \in Nat /\ Open(s.outbound, srv, k)
    BY <1>1, <2>1
  <2> HIDE DEF k
  <2>. QED
    BY <1>4, <1>6, <2>2, FreeStep
<1>7. CASE Now.op = "startup"
  <2>1. Starts(app.todo) /\ At(s, "startup", 0) \in {"sent2", "sent4"}
    BY <1>1, <1>3, <1>5, <1>7 DEF PastExchange, StartAt
  <2>2. r = Startup(s, net) /\ Now.op # "read"
    BY <1>4, <1>7
  <2>3. Goes(s, r) /\ (r.rc \notin {"", "FAIL"} => At(r.s, "startup", 0) \in {"sent2", "sent4"})
    BY <1>1, <2>1, <2>2, StartupGoes
  <2>4. r.rc \notin {"", "FAIL"} => StartAt(r.s) \in {"sent2", "sent4"}
    BY <2>3 DEF StartAt
  <2>. QED
    BY <1>1, <1>7, <2>1, <2>2, <2>3, <2>4, CalmStep
<1>8. CASE Now.op \notin {"startup", "session_free"}
  <2>1. NoStartup(app.todo)
    BY <1>3, <1>5, <1>8
  <2>2. Now.op \in Ordinary
    BY <1>2, <1>8 DEF Ordinary
  <2>3. Goes(s, r) /\ (Now.op = "read" => Reading(r.s.call))
    <3> DEFINE op == Now.op
               c == On
               arg == Now.arg
    <3>1. op \in Ordinary /\ (op = "read" => Reading(s.call)) /\ r = Operation(s, op, c, arg, net)
      BY <1>3, <1>4, <2>2
    <3> HIDE DEF op, c, arg
    <3>2. Goes(s, r) /\ (op = "read" => Reading(r.s.call))
      BY <1>1, <3>1, OperationGoes
    <3>. QED
      BY <3>2 DEF op
  <2>. QED
    BY <1>1, <2>1, <2>3, CalmStep
<1>. QED
  BY <1>6, <1>7, <1>8

LEMMA FailedStep ==
  ASSUME Standing, Failed(s, srv, app), app.todo # <<>>, app.busy,
         NEW net, NEW r, r = Step(s, Now.op, On, Now.arg, net), NEW b, Continues(r, b)
  PROVE  Settled(r.s, srv, b)
<1>1. /\ s.kex = "none" /\ Broken(s, srv)
      /\ Formed(s) /\ s.keys \in Nat /\ Hung(s, srv) /\ Program(s, app)
  BY DEF Failed, Standing
<1>2. Now.op \in Ops /\ Now = app.todo[1] /\ 1 \in DOMAIN app.todo
  BY <1>1, UsableFirst DEF Program, Now
<1>4. /\ Now.op = "startup" => r = Startup(s, net)
      /\ Now.op = "disconnect" => r = Disconnect(s)
      /\ Now.op = "session_free" => r = SessionFree(s)
  BY <1>1, <1>2, StepIs
<1>5. CASE s.kexRc = "FAIL" /\ Started(s, app)
  <2>1. Now.op = "startup"
    BY <1>2, <1>5 DEF Started, Starts
  <2>. QED
    BY <1>1, <1>4, <1>5, <2>1, FailStep
<1>6. CASE s.kexRc = "" /\ Quitting(app.todo)
  <2>1. Now.op \in {"disconnect", "session_free"}
    BY <1>2, <1>6 DEF Quitting
  <2>2. CASE Now.op = "disconnect"
    BY <1>1, <1>4, <1>6, <2>2, QuitStep
  <2>3. CASE Now.op = "session_free"
    <3>1. \E k \in Nat : Plainly(s.outbound, srv, k) \/ Begun(s.outbound, srv, k) \/ Open(s.outbound, srv, k)
      <4>1. s.keys + 1 \in Nat
        BY <1>1
      <4>. QED
        BY <1>1, <4>1 DEF Broken
    <3>. QED
      BY <1>4, <2>3, <3>1, FreeStep
  <2>. QED
    BY <2>1, <2>2, <2>3
<1>. QED
  BY <1>5, <1>6 DEF Failed

LEMMA UnstartedStep ==
  ASSUME Standing, Unstarted(s, srv, app), app.todo # <<>>, app.busy,
         NEW net, NEW r, r = Step(s, Now.op, On, Now.arg, net), NEW b, Continues(r, b)
  PROVE  Settled(r.s, srv, b)
<1>1. Formed(s) /\ Hung(s, srv) /\ Program(s, app) /\ s.kex = "none" /\ Starts(app.todo)
  BY DEF Unstarted, Standing
<1>2. Now.op \in Ops /\ Now = app.todo[1]
  BY <1>1, UsableFirst DEF Program, Now
<1>3. r = Startup(s, net)
  <2>1. Now.op = "startup"
    BY <1>1, <1>2 DEF Starts
  <2>. QED
    BY <1>1, <1>2, <2>1, StepIs
<1>4. /\ StartAt(s) \in {"idle", "sent", "sent1"}
      /\ Fresh(s, srv, IF StartAt(s) = "sent1" THEN 0 ELSE 1)
  BY <1>1, UnstartedIs
<1>5. CASE StartAt(s) = "idle"
  BY <1>1, <1>3, <1>4, <1>5, IdleStep
<1>6. CASE StartAt(s) = "sent"
  BY <1>1, <1>3, <1>4, <1>6, BannerStep
<1>7. CASE StartAt(s) = "sent1"
  BY <1>1, <1>3, <1>4, <1>7, CallStep
<1>. QED
  BY <1>4, <1>5, <1>6, <1>7

LEMMA InStep ==
  ASSUME ~Offers[1].follows, Standing, In(s, srv, app), app.todo # <<>>, app.busy,
         NEW net, NEW r, r = Step(s, Now.op, On, Now.arg, net), r.rc # "WAIT", ~LeftOff(s, r, net),
         NEW b, Continues(r, b)
  PROVE  Settled(r.s, srv, b)
<1>1. s.kex \in {"startup", "add"} /\ Formed(s) /\ s.keys \in Nat /\ Hung(s, srv) /\ Program(s, app)
  BY DEF In, Standing
<1>2. r = KexStep(s, net)
  <2>1. s.kex # "none"
    BY <1>1
  <2>. QED
    BY <2>1, Zenon DEF Step
<1> DEFINE bb == [app EXCEPT !.left = TRUE]
<1>3. r.rc = "MORE"
  BY <1>1, <1>2, KexGoes
<1>4. b.busy = app.busy /\ b.todo = app.todo
  BY <1>3 DEF Continues
<1>. QED
  BY <1>1, <1>2, <1>4, KexGoes

LEMMA RunKeeps ==
  ASSUME ~Offers[1].follows, DOMAIN app = AppFields, Good(s, srv, app), NEW net, Run(net), ~app'.left
  PROVE  DOMAIN app' = AppFields /\ Good(s', srv', app')
<1> DEFINE r == Step(s, Now.op, On, Now.arg, net)
           b == app'
<1>1. /\ app.todo # <<>> /\ app.busy
      /\ r.rc # "WAIT" /\ ~LeftOff(s, r, net)
      /\ s' = r.s /\ srv' = srv /\ DOMAIN app' = AppFields
      /\ Continues(r, b)
  BY RunIs
<1>2. r = Step(s, Now.op, On, Now.arg, net)
  OBVIOUS
<1> HIDE DEF r, b
<1>3. Standing /\ Serving(srv)
  BY DEF Good, Standing, Serving
<1>9. Settled(r.s, srv, b)
  <2>1. CASE Unstarted(s, srv, app)
    BY <1>1, <1>2, <1>3, <2>1, UnstartedStep
  <2>2. CASE In(s, srv, app)
    BY <1>1, <1>2, <1>3, <2>2, InStep
  <2>3. CASE Between(s, srv, app)
    <3>1. CASE s.kexRc = ""
      BY <1>1, <1>2, <1>3, <2>3, <3>1, BetweenStep
    <3>2. CASE s.kexRc = "KEYS" /\ Started(s, app)
      <4>1. s.kex = "none" /\ Calm(s, srv)
        BY <2>3 DEF Between
      <4>2. Now.op = "startup" /\ Now.op \in Ops
        BY <1>1, <1>3, <3>2, UsableFirst DEF Standing, Program, Now, Started, Starts
      <4>3. r = Startup(s, net)
        BY <1>2, <4>1, <4>2, StepIs
      <4>. QED
        BY <1>1, <1>3, <3>2, <4>1, <4>3, KeysStep DEF Standing
    <3>. QED
      BY <2>3, <3>1, <3>2 DEF Between
  <2>4. CASE Failed(s, srv, app)
    BY <1>1, <1>2, <1>3, <2>4, FailedStep
  <2>5. CASE Freed(s, srv, app)
    BY <1>1, <2>5 DEF Freed
  <2>. QED
    BY <1>3, <2>1, <2>2, <2>3, <2>4, <2>5 DEF Good
<1>10. Settled(s', srv', app')
  BY <1>1, <1>9 DEF b
<1>11. Serving(srv')
  BY <1>1, <1>3
<1>. QED
  BY <1>1, <1>10, <1>11 DEF Good, Settled

-----------------------------------------------------------------------------
(* Between the steps of calls. *)

LEMMA BeginKeeps ==
  ASSUME DOMAIN app = AppFields, Good(s, srv, app), Begin
  PROVE  DOMAIN app' = AppFields /\ Good(s', srv', app')
<1> DEFINE c == Call(IF Now.op = "read" THEN ReadBuffer ELSE Now.n, Now.from)
           u == [s EXCEPT !.call = c]
           b == [app EXCEPT !.busy = TRUE]
<1>1. app.todo # <<>> /\ ~app.busy /\ s' = u /\ app' = b /\ srv' = srv
  BY DEF Begin
<1>2. Reading(c)
  BY DEF Call, Reading
<1> HIDE DEF c
<1>3. Formed(u) /\ Same(s, u, {"call"}) /\ u.call = c
  BY FieldsAre DEF Good, Formed, Same
<1>4. DOMAIN b = AppFields /\ b.busy = TRUE /\ b.todo = app.todo
  BY DEF AppFields
<1> HIDE DEF u, b
<1>5. /\ u.fullpacket = s.fullpacket /\ u.packets = s.packets /\ u.gone = s.gone /\ u.inbound = s.inbound
      /\ u.outbound = s.outbound /\ u.keys = s.keys /\ u.state = s.state /\ u.start = s.start
      /\ u.kex = s.kex /\ u.kexRc = s.kexRc /\ u.socket_state = s.socket_state /\ u.methods = s.methods
  BY <1>3, FieldsAre DEF Same
<1>6. \A o, d : At(u, o, d) = At(s, o, d)
  BY <1>3, AtSame
<1>7. StartAt(u) = StartAt(s) /\ (Idle(s) => Idle(u))
  BY <1>5, <1>6 DEF StartAt, Idle
<1>8. Hung(u, srv) /\ u.keys \in Nat /\ Serving(srv)
  BY <1>5, HungSame DEF Good
<1>9. Program(u, b)
  BY <1>1, <1>2, <1>3, <1>4 DEF Good, Program
<1>13. ~In(s, srv, app) /\ ~Freed(s, srv, app)
  BY <1>1 DEF In, Freed
<1>14. Unstarted(u, srv, b) \/ Between(u, srv, b) \/ Failed(u, srv, b)
  <2>1. Unstarted(s, srv, app) => Unstarted(u, srv, b)
    BY <1>4, <1>5, <1>7 DEF Unstarted
  <2>2. Between(s, srv, app) => Between(u, srv, b)
    <3> SUFFICES ASSUME Between(s, srv, app) PROVE Between(u, srv, b)
      OBVIOUS
    <3>1. s.kexRc = "" /\ PastExchange(s, app) /\ s.kex = "none" /\ Calm(s, srv)
      BY <1>1 DEF Between, Started
    <3>2. Calm(u, srv)
      BY <1>5, <1>7, <3>1 DEF Calm, NoneAwaited
    <3>3. PastExchange(u, b)
      BY <1>4, <1>7, <3>1 DEF PastExchange
    <3>. QED
      BY <1>5, <3>1, <3>2, <3>3 DEF Between
  <2>3. Failed(s, srv, app) => Failed(u, srv, b)
    <3> SUFFICES ASSUME Failed(s, srv, app) PROVE Failed(u, srv, b)
      OBVIOUS
    <3>1. s.kexRc = "" /\ Quitting(app.todo) /\ s.kex = "none" /\ Broken(s, srv)
      BY <1>1 DEF Failed, Started
    <3>2. Broken(u, srv)
      BY <1>5, <3>1 DEF Broken
    <3>. QED
      BY <1>4, <1>5, <3>1, <3>2 DEF Failed
  <2>. QED
    BY <1>13, <2>1, <2>2, <2>3 DEF Good
<1>15. Good(u, srv, b)
  BY <1>3, <1>8, <1>9, <1>14 DEF Good
<1>. QED
  BY <1>1, <1>4, <1>15

-----------------------------------------------------------------------------
(* What the server says. *)

\* What it says that is no part of an exchange.
Spoken == Awaited \cup {"GUESS"}
Talk(say) == ArePackets(say) /\ \A j \in DOMAIN say : say[j].type \notin Spoken

LEMMA PacketType ==
  ASSUME NEW kind, NEW a, NEW b, NEW d, NEW e
  PROVE  Packet(kind, a, b, d, e).type = kind
BY DEF Packet

LEMMA PacketNumber ==
  ASSUME NEW kind, NEW a, NEW b, NEW d, NEW e
  PROVE  Packet(kind, a, b, d, e).n = b
BY DEF Packet

LEMMA OneIs ==
  ASSUME NEW p
  PROVE  IsList(<<p>>) /\ Len(<<p>>) = 1 /\ DOMAIN <<p>> = {1} /\ <<p>>[1] = p
BY DEF IsList, Range

LEMMA TalkNone == Talk(<<>>)
BY EmptySeq DEF Talk, ArePackets, IsList, Range

LEMMA TalkOne ==
  ASSUME NEW kind, kind \notin Spoken, NEW a, NEW b, NEW d, NEW e
  PROVE  Talk(<<Packet(kind, a, b, d, e)>>)
<1> DEFINE p == Packet(kind, a, b, d, e)
           x == <<p>>
<1>1. IsPacket(p) /\ p.type \notin Spoken
  BY PacketIs, PacketType
<1> HIDE DEF p
<1>2. IsList(x) /\ DOMAIN x = {1} /\ x[1] = p
  BY OneIs
<1> HIDE DEF x
<1>3. Talk(x)
  BY <1>1, <1>2 DEF Talk, ArePackets
<1>. QED
  BY <1>3 DEF x, p

\* Nothing of the server that is about keys is different.
KeyFields == {"keysIn", "keysOut", "offered", "exchanging", "held", "undeciphered", "strayed"}
Retains(v, w) == DOMAIN w = ServerFields /\ \A f \in KeyFields : w[f] = v[f]

LEMMA KeepsIs ==
  ASSUME NEW v, NEW w, Retains(v, w)
  PROVE  /\ w.keysIn = v.keysIn /\ w.keysOut = v.keysOut /\ w.offered = v.offered
         /\ w.exchanging = v.exchanging /\ w.held = v.held
         /\ w.undeciphered = v.undeciphered /\ w.strayed = v.strayed
BY DEF Retains, KeyFields

LEMMA KeepsDecided ==
  ASSUME NEW v, NEW w, Retains(v, w), NEW a, NEW b
  PROVE  Retains(v, Decided(w, a, b))
BY FieldsAre DEF Retains, KeyFields, Decided

LEMMA KeepsChannel ==
  ASSUME NEW v, NEW w, Retains(v, w), NEW id, NEW c
  PROVE  Retains(v, WithServerChannel(w, id, c))
BY FieldsAre DEF Retains, KeyFields, WithServerChannel

LEMMA KeepsElsewhere ==
  ASSUME NEW v, NEW w, Retains(v, w), NEW x
  PROVE  /\ Retains(v, [w EXCEPT !.chan = x])
         /\ Retains(v, [w EXCEPT !.tries = x])
         /\ Retains(v, [w EXCEPT !.may = x])
         /\ Retains(v, [w EXCEPT !.opens = x])
         /\ Retains(v, [w EXCEPT !.disordered = x])
BY FieldsAre DEF Retains, KeyFields

\* A reaction of this kind.
Fine(v, x) == x.now = <<>> /\ Talk(x.say) /\ Retains(v, x.v)

LEMMA FineRx ==
  ASSUME NEW v, NEW w, Retains(v, w), NEW say, Talk(say)
  PROVE  Fine(v, Rx(w, say))
BY DEF Fine, Rx

LEMMA FineOne ==
  ASSUME NEW v, NEW w, Retains(v, w), NEW kind, kind \notin Spoken, NEW a, NEW b, NEW d, NEW e
  PROVE  Fine(v, Rx(w, <<Packet(kind, a, b, d, e)>>))
BY TalkOne, FineRx

LEMMA FineDecided ==
  ASSUME NEW v, NEW w, Retains(v, w), NEW what, NEW kind, kind \notin Spoken, NEW a, NEW b, NEW d, NEW e
  PROVE  Fine(v, Rx(Decided(w, what, Packet(kind, a, b, d, e)), <<Packet(kind, a, b, d, e)>>))
BY KeepsDecided, TalkOne, FineRx

LEMMA AuthFine ==
  ASSUME NEW v, Retains(v, v), NEW what, NEW x \in AnswerAuth(v, what)
  PROVE  Fine(v, x)
<1> DEFINE w == [v EXCEPT !.tries = @ + 1]
           yes == CASE what = "publickey" -> {"PK_OK"}
               [] what \in {"password", "new password"} -> {"SUCCESS", "PASSWD_CHANGEREQ"}
               [] what = "keyboard-interactive" -> {"INFO_REQUEST"}
               [] what = "response" -> {"SUCCESS", "INFO_REQUEST"}
               [] OTHER -> {"SUCCESS"}
           no  == IF "refuse" \in v.may THEN {"FAILURE"} ELSE {}
           All == {"PK_OK", "SUCCESS", "PASSWD_CHANGEREQ", "INFO_REQUEST", "FAILURE"}
<1>1. Retains(v, w)
  BY KeepsElsewhere
<1> HIDE DEF w
<1>2. yes \cup no \subseteq All
  <2>1. yes \subseteq All
    BY Zenon
  <2>2. no \subseteq All
    OBVIOUS
  <2> HIDE DEF yes, no
  <2>. QED
    BY <2>1, <2>2
<1>3. \/ x = Rx(v, <<Plain("DISCONNECT")>>)
      \/ \E t \in yes \cup no : x = Rx(Decided(w, what, Plain(t)), <<Plain(t)>>)
  BY Zenon DEF AnswerAuth, w
<1> HIDE DEF yes, no
<1>4. CASE x = Rx(v, <<Plain("DISCONNECT")>>)
  <2>1. "DISCONNECT" \notin Spoken
    BY DEF Spoken, Awaited
  <2>. QED
    BY <1>4, <2>1, FineOne DEF Plain
<1>5. ASSUME NEW t \in All, x = Rx(Decided(w, what, Plain(t)), <<Plain(t)>>)
      PROVE  Fine(v, x)
  <2>1. t \notin Spoken
    BY DEF Spoken, Awaited
  <2> HIDE DEF All
  <2>. QED
    BY <1>1, <1>5, <2>1, FineDecided DEF Plain
<1>. QED
  BY <1>2, <1>3, <1>4, <1>5

LEMMA OpenFine ==
  ASSUME NEW v, Retains(v, v), NEW p, NEW x \in AnswerOpen(v, p)
  PROVE  Fine(v, x)
<1> DEFINE id == NewId(v)
           c == ServerChannel(v, p.from, p.n, "open")
           w == WithServerChannel(v, id, c)
           yes == Packet("OPEN_CONFIRMATION", p.from, ServerWindow, id, "")
           no  == Packet("OPEN_FAILURE", p.from, 0, 0, "")
<1>1. x = Rx(Decided(w, "open", yes), <<yes>>) \/ x = Rx(Decided(v, "open", no), <<no>>)
  BY DEF AnswerOpen
<1>2. "OPEN_CONFIRMATION" \notin Spoken /\ "OPEN_FAILURE" \notin Spoken
  BY DEF Spoken, Awaited
<1>3. Retains(v, w)
  BY KeepsChannel
<1> HIDE DEF w, id
<1>4. Fine(v, Rx(Decided(w, "open", yes), <<yes>>))
  BY <1>2, <1>3, FineDecided
<1>5. Fine(v, Rx(Decided(v, "open", no), <<no>>))
  BY <1>2, FineDecided
<1>. QED
  BY <1>1, <1>4, <1>5

LEMMA RequestFine ==
  ASSUME NEW v, Retains(v, v), NEW p, NEW x \in AnswerRequest(v, p)
  PROVE  Fine(v, x)
<1> DEFINE peer == v.chan[p.ch].peer
           yes  == Packet("CHANNEL_SUCCESS", peer, 0, 0, "")
           no   == Packet("CHANNEL_FAILURE", peer, 0, 0, "")
           run  == [v EXCEPT !.chan[p.ch].stage = "running"]
           runs == IF p.what = "exec" /\ v.chan[p.ch].stage = "open" THEN run ELSE v
           what == p.what
<1>1. \/ x = Rx(v, <<>>) \/ x = Rx(Decided(runs, what, yes), <<yes>>)
      \/ x = Rx(Decided(v, what, no), <<no>>)
  <2> HIDE DEF runs, yes, no
  <2>1. AnswerRequest(v, p) =
          IF p.what = "window-change" \/ v.chan[p.ch].stage = "closed" THEN {Rx(v, <<>>)}
          ELSE {Rx(Decided(runs, p.what, yes), <<yes>>)}
               \cup {Rx(Decided(v, p.what, no), <<no>>) : y \in v.may \cap {"refuse"}}
    BY Zenon DEF AnswerRequest, runs, yes, no
  <2>. QED
    BY <2>1
<1>2. "CHANNEL_SUCCESS" \notin Spoken /\ "CHANNEL_FAILURE" \notin Spoken
  BY DEF Spoken, Awaited
<1>3. Retains(v, run)
  BY FieldsAre DEF Retains, KeyFields
<1> HIDE DEF run
<1>4. Retains(v, runs)
  BY <1>3
<1> HIDE DEF runs, what, peer
<1>5. Fine(v, Rx(Decided(runs, what, yes), <<yes>>))
  BY <1>2, <1>4, FineDecided
<1>6. Fine(v, Rx(Decided(v, what, no), <<no>>))
  BY <1>2, FineDecided
<1>7. Fine(v, Rx(v, <<>>))
  BY TalkNone, FineRx
<1>. QED
  BY <1>1, <1>5, <1>6, <1>7

LEMMA GlobalFine ==
  ASSUME NEW v, Retains(v, v), NEW p, NEW x \in AnswerGlobal(v, p)
  PROVE  Fine(v, x)
<1>1. x = Rx(v, <<>>) \/ \E t \in {"REQUEST_SUCCESS", "REQUEST_FAILURE"} :
                           x = Rx(Decided(v, "listen", Plain(t)), <<Plain(t)>>)
  BY DEF AnswerGlobal
<1>2. ASSUME NEW t \in {"REQUEST_SUCCESS", "REQUEST_FAILURE"}, x = Rx(Decided(v, "listen", Plain(t)), <<Plain(t)>>)
      PROVE  Fine(v, x)
  <2>1. t \notin Spoken
    BY DEF Spoken, Awaited
  <2>. QED
    BY <1>2, <2>1, FineDecided DEF Plain
<1>3. Fine(v, Rx(v, <<>>))
  BY TalkNone, FineRx
<1>. QED
  BY <1>1, <1>2, <1>3

LEMMA CloseFine ==
  ASSUME NEW v, Retains(v, v), NEW p, NEW x \in AnswerClose(v, p)
  PROVE  Fine(v, x)
<1> DEFINE w == [v EXCEPT !.chan[p.ch].stage = "closed"]
<1>1. x = Rx(v, <<>>) \/ x = Rx(w, <<Packet("CLOSE", v.chan[p.ch].peer, 0, 0, "")>>)
  BY DEF AnswerClose
<1>2. Retains(v, w)
  BY FieldsAre DEF Retains, KeyFields
<1>3. "CLOSE" \notin Spoken
  BY DEF Spoken, Awaited
<1> HIDE DEF w
<1>. QED
  BY <1>1, <1>2, <1>3, FineOne, FineRx, TalkNone

-----------------------------------------------------------------------------
\* What the server makes of the packets that are no part of an exchange.
Kinds == {"KEXINIT", "GEX_REQUEST", "KEXDH_INIT", "GEX_INIT", "NEWKEYS", "SERVICE_REQUEST",
          "USERAUTH_REQUEST", "INFO_RESPONSE", "OPEN", "CHANNEL_REQUEST", "GLOBAL_REQUEST",
          "DATA", "EXTENDED_DATA", "WINDOW_ADJUST", "CLOSE", "OPEN_CONFIRMATION"}

LEMMA ReactionIs ==
  ASSUME NEW v, NEW p
  PROVE  /\ p.type = "SERVICE_REQUEST" => Reactions(v, p) = {Rx(v, <<Plain("SERVICE_ACCEPT")>>)}
         /\ p.type = "USERAUTH_REQUEST" => Reactions(v, p) = AnswerAuth(v, p.what)
         /\ p.type = "INFO_RESPONSE" => Reactions(v, p) = AnswerAuth(v, "response")
         /\ p.type = "OPEN" => Reactions(v, p) = AnswerOpen(v, p)
         /\ p.type = "CHANNEL_REQUEST" => Reactions(v, p) = AnswerRequest(v, p)
         /\ p.type = "GLOBAL_REQUEST" => Reactions(v, p) = AnswerGlobal(v, p)
         /\ p.type \in DataTypes => Reactions(v, p) = {Rx(TakeData(v, p), <<>>)}
         /\ p.type = "CLOSE" => Reactions(v, p) = AnswerClose(v, p)
         /\ p.type \notin Kinds => Reactions(v, p) = {Rx(v, <<>>)}
BY DEF Reactions, DataTypes, Kinds

LEMMA ExchangeReactionIs ==
  ASSUME NEW v, NEW p
  PROVE  /\ p.type = "KEXINIT" => Reactions(v, p) = {Rx([v EXCEPT !.exchanging = TRUE], <<>>)}
         /\ p.type = "GEX_REQUEST" => Reactions(v, p) = {RxKex(v, Sealed(v, <<Plain("GEX_GROUP")>>))}
         /\ p.type = "KEXDH_INIT" => Reactions(v, p) = AnswerDh(v, "KEXDH_REPLY")
         /\ p.type = "GEX_INIT" => Reactions(v, p) = AnswerDh(v, "GEX_REPLY")
         /\ p.type = "NEWKEYS" =>
              Reactions(v, p) = {Rx([v EXCEPT !.exchanging = FALSE, !.keysIn = @ + 1], <<>>)}
<1>1. p.type = "KEXINIT" => Reactions(v, p) = {Rx([v EXCEPT !.exchanging = TRUE], <<>>)}
  BY DEF Reactions, DataTypes
<1>2. p.type = "GEX_REQUEST" => Reactions(v, p) = {RxKex(v, Sealed(v, <<Plain("GEX_GROUP")>>))}
  BY DEF Reactions, DataTypes
<1>3. p.type = "KEXDH_INIT" => Reactions(v, p) = AnswerDh(v, "KEXDH_REPLY")
  BY DEF Reactions, DataTypes
<1>4. p.type = "GEX_INIT" => Reactions(v, p) = AnswerDh(v, "GEX_REPLY")
  BY DEF Reactions, DataTypes
<1>5. p.type = "NEWKEYS" =>
        Reactions(v, p) = {Rx([v EXCEPT !.exchanging = FALSE, !.keysIn = @ + 1], <<>>)}
  BY DEF Reactions, DataTypes
<1>. QED
  BY <1>1, <1>2, <1>3, <1>4, <1>5

LEMMA ChannelReactionIs ==
  ASSUME NEW v, NEW p, NEW x \in Reactions(v, p), p.type \in {"WINDOW_ADJUST", "OPEN_CONFIRMATION"}
  PROVE  \E c : x = Rx([v EXCEPT !.chan = c], <<>>)
<1>1. CASE p.type = "WINDOW_ADJUST"
  <2>1. x = Rx([v EXCEPT !.chan[p.ch].out = @ + p.n], <<>>)
    BY <1>1 DEF Reactions, DataTypes
  <2>2. [v EXCEPT !.chan[p.ch].out = @ + p.n] = [v EXCEPT !.chan = [v.chan EXCEPT ![p.ch].out = @ + p.n]]
    OBVIOUS
  <2>. QED
    BY <2>1, <2>2
<1>2. CASE p.type = "OPEN_CONFIRMATION"
  <2> DEFINE w == [v EXCEPT !.chan[p.ch].peer = p.from, !.chan[p.ch].out = p.n,
                            !.chan[p.ch].stage = "running"]
  <2>1. x = Rx(w, <<>>)
    BY <1>2 DEF Reactions, DataTypes
  <2>2. \E c : w = [v EXCEPT !.chan = c]
    <3> DEFINE d == [[[v.chan EXCEPT ![p.ch].peer = p.from] EXCEPT ![p.ch].out = p.n] EXCEPT ![p.ch].stage = "running"]
    <3>1. w = [v EXCEPT !.chan = d]
      OBVIOUS
    <3> HIDE DEF d
    <3>. QED
      BY <3>1
  <2> HIDE DEF w
  <2>. QED
    BY <2>1, <2>2
<1>. QED
  BY <1>1, <1>2

LEMMA ReactionsFine ==
  ASSUME NEW v, Retains(v, v), NEW p, p.type \notin Asking, NEW x \in Reactions(v, p)
  PROVE  Fine(v, x)
<1>1. CASE p.type \in {"USERAUTH_REQUEST", "INFO_RESPONSE"}
  <2>1. x \in AnswerAuth(v, p.what) \/ x \in AnswerAuth(v, "response")
    BY <1>1, ReactionIs
  <2>. QED
    BY <2>1, AuthFine
<1>2. CASE p.type \in {"OPEN", "CHANNEL_REQUEST", "GLOBAL_REQUEST", "CLOSE"}
  <2>1. \/ x \in AnswerOpen(v, p) \/ x \in AnswerRequest(v, p)
        \/ x \in AnswerGlobal(v, p) \/ x \in AnswerClose(v, p)
    BY <1>2, ReactionIs
  <2>. QED
    BY <2>1, OpenFine, RequestFine, GlobalFine, CloseFine
<1>3. CASE p.type = "SERVICE_REQUEST"
  <2>1. x = Rx(v, <<Plain("SERVICE_ACCEPT")>>)
    BY <1>3, ReactionIs
  <2>2. "SERVICE_ACCEPT" \notin Spoken
    BY DEF Spoken, Awaited
  <2>. QED
    BY <2>1, <2>2, FineOne DEF Plain
<1>4. CASE p.type \in DataTypes
  <2>1. x = Rx(TakeData(v, p), <<>>)
    BY <1>4, ReactionIs
  <2>2. Retains(v, TakeData(v, p))
    BY FieldsAre DEF Retains, KeyFields, TakeData
  <2>. QED
    BY <2>1, <2>2, TalkNone, FineRx
<1>5. CASE p.type \in {"WINDOW_ADJUST", "OPEN_CONFIRMATION"}
  <2>1. PICK c : x = Rx([v EXCEPT !.chan = c], <<>>)
    BY <1>5, ChannelReactionIs
  <2>2. Retains(v, [v EXCEPT !.chan = c])
    BY KeepsElsewhere
  <2>. QED
    BY <2>1, <2>2, TalkNone, FineRx
<1>6. CASE p.type \notin Kinds
  <2>1. x = Rx(v, <<>>)
    BY <1>6, ReactionIs
  <2>. QED
    BY <2>1, TalkNone, FineRx
<1>. QED
  BY <1>1, <1>2, <1>3, <1>4, <1>5, <1>6 DEF Kinds, DataTypes, Asking, Inits

-----------------------------------------------------------------------------
\* What it says by itself, which is not that it hangs up.
Utters(v, x) == Talk(x.say) /\ (\A j \in DOMAIN x.say : x.say[j].type # "DISCONNECT") /\ Retains(v, x.v)

LEMMA UttersOne ==
  ASSUME NEW v, NEW w, Retains(v, w), NEW kind, kind \notin Spoken, kind # "DISCONNECT",
         NEW a, NEW b, NEW d, NEW e
  PROVE  Utters(v, [v |-> w, say |-> <<Packet(kind, a, b, d, e)>>])
<1> DEFINE p == Packet(kind, a, b, d, e)
           y == <<p>>
<1>1. p.type = kind
  BY PacketType
<1>2. Talk(y)
  BY TalkOne
<1> HIDE DEF p
<1>3. DOMAIN y = {1} /\ y[1] = p
  BY OneIs
<1> HIDE DEF y
<1>4. Utters(v, [v |-> w, say |-> y])
  BY <1>1, <1>2, <1>3 DEF Utters
<1>. QED
  BY <1>4 DEF y, p

LEMMA DataFree ==
  ASSUME NEW v, Retains(v, v), NEW c, NEW x \in DataSent(v, c)
  PROVE  Utters(v, x)
<1> DEFINE ch == v.chan[c]
           one(n) == [v EXCEPT !.chan[c].sent = @ + n, !.chan[c].left = @ - n, !.chan[c].out = @ - n]
           two(n) == [v EXCEPT !.chan[c].sentExt = @ + n, !.chan[c].ext = @ - n, !.chan[c].out = @ - n]
<1>1. \E n : \/ x = [v |-> one(n), say |-> <<Packet("DATA", ch.peer, n, ch.sent, "")>>]
             \/ x = [v |-> two(n), say |-> <<Packet("EXTENDED_DATA", ch.peer, n, ch.sentExt, "")>>]
  BY DEF DataSent
<1>2. \A n : Retains(v, one(n)) /\ Retains(v, two(n))
  BY FieldsAre DEF Retains, KeyFields
<1>3. "DATA" \notin Spoken /\ "EXTENDED_DATA" \notin Spoken
  BY DEF Spoken, Awaited
<1> HIDE DEF one, two, ch
<1>. QED
  BY <1>1, <1>2, <1>3, UttersOne

LEMMA AdjustFree ==
  ASSUME NEW v, Retains(v, v), NEW c, NEW x \in Adjusted(v, c)
  PROVE  Utters(v, x)
<1> DEFINE w == [v EXCEPT !.chan[c].in = ServerWindow]
           n == ServerWindow - v.chan[c].in
<1>1. x = [v |-> w, say |-> <<Packet("WINDOW_ADJUST", v.chan[c].peer, n, 0, "")>>]
  BY DEF Adjusted
<1>2. Retains(v, w)
  BY FieldsAre DEF Retains, KeyFields
<1>3. "WINDOW_ADJUST" \notin Spoken
  BY DEF Spoken, Awaited
<1> HIDE DEF w, n
<1>. QED
  BY <1>1, <1>2, <1>3, UttersOne

LEMMA UttersTwo ==
  ASSUME NEW v, NEW w, Retains(v, w), NEW kind, kind \notin Spoken, kind # "DISCONNECT", NEW a, NEW b, NEW d, NEW e,
         NEW kind2, kind2 \notin Spoken, kind2 # "DISCONNECT", NEW a2, NEW b2, NEW d2, NEW e2
  PROVE  Utters(v, [v |-> w, say |-> <<Packet(kind, a, b, d, e), Packet(kind2, a2, b2, d2, e2)>>])
<1> DEFINE p == Packet(kind, a, b, d, e)
           q == Packet(kind2, a2, b2, d2, e2)
           y == <<p, q>>
<1>1. IsPacket(p) /\ p.type = kind /\ IsPacket(q) /\ q.type = kind2
  BY PacketIs
<1> HIDE DEF p, q
<1>2. IsList(y) /\ DOMAIN y = {1, 2} /\ y[1] = p /\ y[2] = q
  BY DEF IsList, Range
<1> HIDE DEF y
<1>3. Utters(v, [v |-> w, say |-> y])
  BY <1>1, <1>2 DEF Utters, Talk, ArePackets
<1>. QED
  BY <1>3 DEF y, p, q

LEMMA FinishFree ==
  ASSUME NEW v, Retains(v, v), NEW c, NEW x \in Finished(v, c)
  PROVE  Utters(v, x)
<1> DEFINE one == [v EXCEPT !.chan[c].stage = "ended"]
           two == [v EXCEPT !.chan[c].stage = "closed"]
           a == v.chan[c].peer
<1>1. \/ x = [v |-> one, say |-> <<Packet("EXIT_STATUS", a, 1, 0, ""), Packet("EOF", a, 0, 0, "")>>]
      \/ x = [v |-> two, say |-> <<Packet("CLOSE", a, 0, 0, "")>>]
  BY DEF Finished
<1>2. Retains(v, one) /\ Retains(v, two)
  BY FieldsAre DEF Retains, KeyFields
<1>3. "EXIT_STATUS" \notin Spoken /\ "EOF" \notin Spoken /\ "CLOSE" \notin Spoken
  BY DEF Spoken, Awaited
<1> HIDE DEF one, two, a
<1>. QED
  BY <1>1, <1>2, <1>3, UttersOne, UttersTwo

LEMMA OfferedFree ==
  ASSUME NEW v, Retains(v, v), NEW x \in Offered(v)
  PROVE  Utters(v, x)
<1> DEFINE u == WithServerChannel(v, NewId(v), ServerChannel(v, 0, 0, "offered"))
           w == [u EXCEPT !.opens = Tail(@)]
<1>1. x = [v |-> w, say |-> <<Packet("OPEN", 0, ServerWindow, NewId(v), Head(v.opens))>>]
  BY DEF Offered
<1>2. Retains(v, u)
  BY KeepsChannel
<1> HIDE DEF u
<1>3. Retains(v, w)
  BY <1>2, KeepsElsewhere
<1>4. "OPEN" \notin Spoken
  BY DEF Spoken, Awaited
<1> HIDE DEF w
<1>. QED
  BY <1>1, <1>3, <1>4, UttersOne

-----------------------------------------------------------------------------
(* What a step of the server leaves as it was. *)

\* The server has the keys of outbound, or is about to.
Sorted(o, v) ==
  \E k \in {v.keysIn, v.keysIn + 1} : Plainly(o, v, k) \/ Begun(o, v, k) \/ Switching(o, v, k)

\* Outbound o, as server v will take it, is now x and w.
OutKept(o, v, x, w) ==
  /\ \A k : Plainly(o, v, k) => Plainly(x, w, k)
  /\ \A k : Begun(o, v, k) => Begun(x, w, k)
  /\ \A k \in Nat : Open(o, v, k) => Open(x, w, k)
  /\ \A k : Within(o, v, k) /\ o = <<>> => Within(x, w, k) /\ x = <<>>
  /\ Sorted(o, v) => Sorted(x, w)
  /\ NoneDue(o) => NoneDue(x)
  /\ \A type \in Inits : Due(o, type) => Due(x, type)

\* Inbound q of server v is now x of w.
InKept(q, v, x, w) ==
  /\ \A k : Holding(v, k) => Holding(w, k) /\ x = q
  /\ Guesses(x) = Guesses(q)
  /\ \A m \in Nat : \A k : m <= Len(q) /\ Flow(q, m, v, k) => Flow(x, m, w, k)
  /\ q # <<>> => x # <<>> /\ x[1] = q[1]
  /\ q # <<>> => 1 \in DOMAIN q
  /\ x = <<>> /\ v.offered => w.offered

\* The answer has come, and nothing but it.
AnswerKept(t, v, u, w) ==
  \A k : \A type : ~v.offered /\ Within(t.outbound, v, k) /\ Replied(t.inbound, v, k, type)
                     => ~w.offered /\ Replied(u.inbound, w, k, type)

Under(t, u) == Formed(u) /\ Same(t, u, {"inbound", "outbound", "gone"})

Follows(t, v, u, w) ==
  /\ Under(t, u)
  /\ OutKept(t.outbound, v, u.outbound, w)
  /\ InKept(t.inbound, v, u.inbound, w)
  /\ AnswerKept(t, v, u, w)

SameServer(v, w) ==
  w.keysIn = v.keysIn /\ w.keysOut = v.keysOut /\ w.offered = v.offered /\ w.exchanging = v.exchanging

Trimmed(o, x) == x = o \/ (o # <<>> /\ x = Tail(o) /\ o[1].type \notin Asking)

LEMMA SameOut ==
  ASSUME NEW o, NEW v, NEW w, SameServer(v, w)
  PROVE  OutKept(o, v, o, w)
<1>1. \A k : Plainly(o, v, k) => Plainly(o, w, k)
  BY DEF SameServer, Plainly
<1>2. \A k : Proposed(o, v, k) => Proposed(o, w, k)
  BY DEF SameServer, Proposed
<1>3. \A k : Within(o, v, k) => Within(o, w, k)
  BY DEF SameServer, Within
<1>4. \A k : Switching(o, v, k) => Switching(o, w, k)
  BY DEF SameServer, Switching
<1>5. \A k : Begun(o, v, k) => Begun(o, w, k)
  BY <1>2, <1>3 DEF Begun
<1>6. \A k : Open(o, v, k) => Open(o, w, k)
  BY <1>1, <1>4 DEF Open, SameServer
<1>7. Sorted(o, v) => Sorted(o, w)
  BY <1>1, <1>4, <1>5 DEF Sorted, SameServer
<1>. QED
  BY <1>1, <1>3, <1>5, <1>6, <1>7 DEF OutKept

LEMMA TailOut ==
  ASSUME NEW o, IsList(o), o # <<>>, o[1].type \notin Asking, NEW v, NEW w, SameServer(v, w)
  PROVE  OutKept(o, v, Tail(o), w)
<1> DEFINE x == Tail(o)
<1>1. /\ IsList(x) /\ Len(o) \in Nat /\ Len(o) >= 1 /\ DOMAIN o = 1..Len(o) /\ 1 \in DOMAIN o
      /\ Len(x) = Len(o) - 1
      /\ \A j \in DOMAIN x : j + 1 \in DOMAIN o /\ x[j] = o[j + 1] /\ j \in Nat /\ j >= 1
  BY TailIs
<1>2. DOMAIN x = 1..Len(x) /\ Len(x) \in Nat
  BY <1>1, ListHas
<1> HIDE DEF x
<1>3. \A k : Plainly(o, v, k) => Plainly(x, w, k)
  BY <1>1 DEF SameServer, Plainly
<1>4. ASSUME NEW k, Proposed(o, v, k) PROVE Proposed(x, w, k)
  <2>1. /\ ~v.exchanging /\ v.keysIn = k
        /\ \A j \in DOMAIN o : o[j].key = k
    BY <1>4 DEF Proposed
  <2>2. PICK m \in DOMAIN o :
          /\ o[m].type = "KEXINIT"
          /\ \A j \in DOMAIN o : j < m => o[j].type \notin Asking
          /\ \A j \in DOMAIN o : j > m => o[j].type \in Inits \cup {"DISCONNECT"}
    BY <1>4 DEF Proposed
  <2>3. m # 1
    BY <2>2 DEF Asking
  <2> DEFINE n == m - 1
  <2>4. n \in DOMAIN x /\ n + 1 = m /\ n \in Nat
    BY <1>1, <1>2, <2>3
  <2> HIDE DEF n
  <2>5. x[n].type = "KEXINIT"
    BY <1>1, <2>2, <2>4
  <2>6. \A j \in DOMAIN x : j < n => j + 1 < m
    BY <1>1, <2>4
  <2>7. \A j \in DOMAIN x : j > n => j + 1 > m
    BY <1>1, <2>4
  <2>8. \A j \in DOMAIN x : j < n => x[j].type \notin Asking
    BY <1>1, <2>2, <2>6
  <2>9. \A j \in DOMAIN x : j > n => x[j].type \in Inits \cup {"DISCONNECT"}
    BY <1>1, <2>2, <2>7
  <2>10. \A j \in DOMAIN x : x[j].key = k
    BY <1>1, <2>1
  <2>. QED
    BY <2>1, <2>4, <2>5, <2>8, <2>9, <2>10 DEF Proposed, SameServer
<1>5. \A k : Within(o, v, k) => Within(x, w, k)
  BY <1>1 DEF SameServer, Within
<1>6. \A k : ~Switching(o, v, k)
  BY <1>1 DEF Switching, Asking
<1>7. \A k : Begun(o, v, k) => Begun(x, w, k)
  BY <1>4, <1>5 DEF Begun
<1>8. \A k : Open(o, v, k) => Open(x, w, k)
  BY <1>3, <1>6 DEF Open
<1>9. Sorted(o, v) => Sorted(x, w)
  BY <1>3, <1>6, <1>7 DEF Sorted, SameServer
<1>10. NoneDue(o) => NoneDue(x)
  BY <1>1 DEF NoneDue
<1>11. ASSUME NEW type \in Inits, Due(o, type) PROVE Due(x, type)
  <2>1. o[Len(o)].type = type /\ \A j \in DOMAIN o : j # Len(o) => o[j].type \notin Inits
    BY <1>11 DEF Due
  <2>2. Len(o) # 1
    BY <1>11, <2>1 DEF Asking
  <2>3. Len(x) \in DOMAIN x /\ Len(x) + 1 = Len(o)
    BY <1>1, <1>2, <2>2
  <2>4. x[Len(x)].type = type
    BY <1>1, <2>1, <2>3
  <2>5. \A j \in DOMAIN x : j # Len(x) => j + 1 # Len(o)
    BY <1>1, <1>2
  <2>6. \A j \in DOMAIN x : j # Len(x) => x[j].type \notin Inits
    BY <1>1, <2>1, <2>5
  <2>7. x # <<>>
    BY <2>3
  <2>. QED
    BY <2>4, <2>6, <2>7 DEF Due
<1>12. OutKept(o, v, x, w)
  BY <1>3, <1>5, <1>7, <1>8, <1>9, <1>10, <1>11 DEF OutKept
<1>. QED
  BY <1>12 DEF x

LEMMA SameIn ==
  ASSUME NEW q, IsList(q), NEW v, NEW w, w.keysOut = v.keysOut, w.offered = v.offered
  PROVE  InKept(q, v, q, w)
<1>1. q # <<>> => 1 \in DOMAIN q
  BY TailIs
<1>2. \A k : Holding(v, k) => Holding(w, k)
  BY DEF Holding
<1>3. \A m, k : Flow(q, m, v, k) => Flow(q, m, w, k)
  BY DEF Flow
<1>. QED
  BY <1>1, <1>2, <1>3 DEF InKept

\* More has come, under the keys in use.
Grown(q, x, k) ==
  /\ IsList(x) /\ Len(x) >= Len(q)
  /\ \A j \in DOMAIN q : j \in DOMAIN x /\ x[j] = q[j]
  /\ \A j \in DOMAIN x : j \notin DOMAIN q => x[j].key = k /\ x[j].type \notin Spoken

LEMMA GrownFirst ==
  ASSUME NEW q, IsList(q), NEW x, IsList(x),
         \A j \in DOMAIN q : j \in DOMAIN x /\ x[j] = q[j],
         1 \in DOMAIN x /\ 1 \notin DOMAIN q => x[1].type # "GUESS"
  PROVE  /\ q # <<>> => 1 \in DOMAIN q /\ x # <<>> /\ x[1] = q[1]
         /\ Guesses(x) = Guesses(q)
<1>1. (q # <<>> => 1 \in DOMAIN q) /\ (x # <<>> => 1 \in DOMAIN x)
  BY TailIs
<1>2. q # <<>> => x # <<>> /\ x[1] = q[1]
  BY <1>1
<1>3. q = <<>> => 1 \notin DOMAIN q
  OBVIOUS
<1>4. q = <<>> /\ x # <<>> => x[1].type # "GUESS"
  BY <1>1, <1>3
<1>5. Guesses(x) = Guesses(q)
  BY <1>2, <1>4 DEF Guesses
<1>. QED
  BY <1>1, <1>2, <1>5

LEMMA GrownIn ==
  ASSUME NEW q, IsList(q), NEW v, ~v.offered, NEW x, Grown(q, x, v.keysOut),
         NEW w, w.keysOut = v.keysOut, w.offered = v.offered
  PROVE  InKept(q, v, x, w)
<1>1. /\ q # <<>> => 1 \in DOMAIN q /\ x # <<>> /\ x[1] = q[1]
      /\ Guesses(x) = Guesses(q)
  <2>1. "GUESS" \in Spoken
    BY DEF Spoken
  <2>. QED
    BY <2>1, GrownFirst DEF Grown
<1>2. \A k : ~Holding(v, k)
  BY DEF Holding
<1>3. ASSUME NEW m \in Nat, NEW k, Flow(q, m, v, k) PROVE Flow(x, m, w, k)
  <2>1. v.keysOut = k
    BY <1>3 DEF Flow
  <2>2. \A j \in DOMAIN q : j > m => q[j].key = k /\ q[j].type \notin Awaited
    BY <1>3 DEF Flow
  <2>3. \A j \in DOMAIN x : j > m => x[j].key = k /\ x[j].type \notin Awaited
    BY <2>1, <2>2 DEF Grown, Spoken
  <2>. QED
    BY <2>1, <2>3 DEF Flow
<1>. QED
  BY <1>1, <1>2, <1>3 DEF InKept

\* Flow decides about the answer.
LEMMA AnswerFollows ==
  ASSUME NEW q, IsList(q), NEW v, NEW x, IsList(x), NEW w, InKept(q, v, x, w), ~v.offered => ~w.offered,
         Len(x) >= Len(q), \A j \in DOMAIN q : j \in DOMAIN x /\ x[j] = q[j],
         NEW k, NEW type, ~v.offered, Replied(q, v, k, type)
  PROVE  ~w.offered /\ Replied(x, w, k, type)
<1> DEFINE a == Guesses(q)
<1>1. a \in Nat /\ Guesses(x) = a
  BY DEF InKept, Guesses
<1> HIDE DEF a
<1>2. /\ Len(q) >= a + 2 /\ q[a + 1].type = type /\ q[a + 2].type = "NEWKEYS"
      /\ \A j \in DOMAIN q : j <= a + 2 => q[j].key = k
      /\ Flow(q, a + 2, v, k + 1)
  BY DEF Replied, a
<1>3. /\ Len(q) \in Nat /\ DOMAIN q = 1..Len(q) /\ Len(x) \in Nat /\ DOMAIN x = 1..Len(x)
  BY ListHas
<1>4. a + 1 \in DOMAIN q /\ a + 2 \in DOMAIN q /\ a + 2 \in Nat /\ a + 2 <= Len(q)
  BY <1>1, <1>2, <1>3
<1>5. Flow(x, a + 2, w, k + 1)
  BY <1>2, <1>4 DEF InKept
<1>6. \A j \in DOMAIN x : j <= a + 2 => x[j].key = k
  BY <1>2, <1>3, <1>4
<1>7. Len(x) >= a + 2
  BY <1>1, <1>2, <1>3
<1>8. x[a + 1].type = type /\ x[a + 2].type = "NEWKEYS"
  BY <1>2, <1>4
<1>. QED
  BY <1>1, <1>5, <1>6, <1>7, <1>8 DEF Replied

-----------------------------------------------------------------------------
\* What a step of the server does to what is on its way.
Chat(t, v, u, w) ==
  /\ Under(t, u) /\ SameServer(v, w) /\ Trimmed(t.outbound, u.outbound)
  /\ v.offered => u.inbound = t.inbound
  /\ ~v.offered => Grown(t.inbound, u.inbound, v.keysOut)

TakesOffer(t, v, u, w) ==
  /\ Under(t, u) /\ u.inbound = t.inbound
  /\ t.outbound # <<>> /\ t.outbound[1].type = "KEXINIT" /\ u.outbound = Tail(t.outbound)
  /\ w.keysIn = v.keysIn /\ w.keysOut = v.keysOut /\ w.offered = v.offered /\ w.exchanging

Switches(t, v, u, w) ==
  /\ Under(t, u) /\ u.inbound = t.inbound
  /\ t.outbound # <<>> /\ t.outbound[1].type = "NEWKEYS" /\ u.outbound = Tail(t.outbound)
  /\ w.keysIn = v.keysIn + 1 /\ w.keysOut = v.keysOut /\ w.offered = v.offered /\ ~w.exchanging

\* x is q and then p.
Ends(q, x, p) ==
  /\ IsList(x) /\ Len(q) + 1 \in DOMAIN x /\ x[Len(q) + 1] = p /\ Len(x) = Len(q) + 1
  /\ \A j \in DOMAIN q : j \in DOMAIN x /\ x[j] = q[j] /\ j # Len(q) + 1
  /\ \A j \in DOMAIN x : j # Len(q) + 1 => j \in DOMAIN q /\ x[j] = q[j]

Proposes(t, v, u, w) ==
  /\ Under(t, u) /\ u.outbound = t.outbound
  /\ ~v.offered /\ ~v.exchanging
  /\ \E p : Ends(t.inbound, u.inbound, p) /\ p.type = "KEXINIT" /\ p.n = 1 /\ p.key = v.keysOut
  /\ w.keysIn = v.keysIn /\ w.keysOut = v.keysOut /\ w.offered /\ ~w.exchanging

LEMMA FormedIs ==
  ASSUME NEW t, Formed(t)
  PROVE  IsList(t.inbound) /\ IsList(t.outbound) /\ IsList(t.packets)
BY DEF Formed, ArePackets

LEMMA ChatFollows ==
  ASSUME NEW t, Formed(t), NEW v, NEW u, NEW w, Chat(t, v, u, w)
  PROVE  Follows(t, v, u, w)
<1> DEFINE o == t.outbound
           q == t.inbound
           x == u.inbound
<1>1. IsList(o) /\ IsList(q) /\ IsList(x) /\ Under(t, u) /\ SameServer(v, w)
  BY FormedIs DEF Chat, Under
<1>2. OutKept(o, v, u.outbound, w)
  <2>1. CASE u.outbound = o
    BY <1>1, <2>1, SameOut
  <2>2. CASE o # <<>> /\ u.outbound = Tail(o) /\ o[1].type \notin Asking
    BY <1>1, <2>2, TailOut
  <2>. QED
    BY <2>1, <2>2 DEF Chat, Trimmed
<1>3. InKept(q, v, x, w)
  <2>1. CASE v.offered
    <3>1. x = q /\ w.keysOut = v.keysOut /\ w.offered = v.offered
      BY <1>1, <2>1 DEF Chat, SameServer
    <3>2. InKept(q, v, q, w)
      BY <1>1, <3>1, SameIn
    <3>. QED
      BY <3>1, <3>2
  <2>2. CASE ~v.offered
    <3>1. Grown(q, x, v.keysOut) /\ w.keysOut = v.keysOut /\ w.offered = v.offered
      BY <1>1, <2>2 DEF Chat, SameServer
    <3>. QED
      BY <1>1, <2>2, <3>1, GrownIn
  <2>. QED
    BY <2>1, <2>2
<1>4. AnswerKept(t, v, u, w)
  <2> SUFFICES ASSUME NEW k, NEW type, ~v.offered, Replied(q, v, k, type)
               PROVE  ~w.offered /\ Replied(x, w, k, type)
    BY DEF AnswerKept
  <2>1. /\ Len(x) >= Len(q) /\ \A j \in DOMAIN q : j \in DOMAIN x /\ x[j] = q[j]
        /\ ~w.offered
    BY <1>1 DEF Chat, Grown, SameServer
  <2>. QED
    BY <1>1, <1>3, <2>1, AnswerFollows
<1>. QED
  BY <1>1, <1>2, <1>3, <1>4 DEF Follows

\* The next packet is one of an exchange.
LEMMA FirstAsking ==
  ASSUME NEW o, IsList(o), o # <<>>, NEW v, NEW k
  PROVE  /\ 1 \in DOMAIN o
         /\ o[1].type \in Asking => ~Plainly(o, v, k)
         /\ o[1].type # "NEWKEYS" => ~Switching(o, v, k)
         /\ o[1].type # "NEWKEYS" /\ o[1].type \in Asking => ~Open(o, v, k)
         /\ o[1].type \in {"KEXINIT", "NEWKEYS"} => ~Within(o, v, k)
         /\ o[1].type # "KEXINIT" /\ o[1].type \in Asking => ~Proposed(o, v, k)
<1>1. 1 \in DOMAIN o /\ DOMAIN o = 1..Len(o) /\ Len(o) \in Nat
  BY TailIs
<1>2. o[1].type \in Asking => ~Plainly(o, v, k)
  BY <1>1 DEF Plainly
<1>3. o[1].type # "NEWKEYS" => ~Switching(o, v, k)
  BY DEF Switching
<1>4. o[1].type \in {"KEXINIT", "NEWKEYS"} => ~Within(o, v, k)
  BY <1>1 DEF Within, Inits
<1>5. ASSUME o[1].type # "KEXINIT", o[1].type \in Asking, Proposed(o, v, k) PROVE FALSE
  <2>1. PICK m \in DOMAIN o :
          /\ o[m].type = "KEXINIT"
          /\ \A j \in DOMAIN o : j < m => o[j].type \notin Asking
    BY <1>5 DEF Proposed
  <2>2. m # 1
    BY <1>5, <2>1
  <2>3. 1 < m
    BY <1>1, <2>2
  <2>. QED
    BY <1>1, <1>5, <2>1, <2>3
<1>. QED
  BY <1>1, <1>2, <1>3, <1>4, <1>5 DEF Open

LEMMA OfferFollows ==
  ASSUME NEW t, Formed(t), NEW v, NEW u, NEW w, TakesOffer(t, v, u, w)
  PROVE  Follows(t, v, u, w)
<1> DEFINE o == t.outbound
           q == t.inbound
           x == Tail(o)
<1>1. /\ IsList(o) /\ IsList(q) /\ o # <<>> /\ o[1].type = "KEXINIT" /\ Under(t, u)
      /\ u.outbound = x /\ u.inbound = q
      /\ w.keysIn = v.keysIn /\ w.keysOut = v.keysOut /\ w.offered = v.offered /\ w.exchanging
  BY FormedIs DEF TakesOffer
<1>2. /\ IsList(x) /\ Len(o) \in Nat /\ Len(o) >= 1 /\ DOMAIN o = 1..Len(o) /\ 1 \in DOMAIN o
      /\ Len(x) = Len(o) - 1
      /\ \A j \in DOMAIN x : j + 1 \in DOMAIN o /\ x[j] = o[j + 1] /\ j \in Nat /\ j >= 1
  BY <1>1, TailIs
<1>3. DOMAIN x = 1..Len(x) /\ Len(x) \in Nat
  BY <1>2, ListHas
<1> HIDE DEF x
<1>4. o[1].type \in Asking /\ o[1].type \notin Inits
  BY <1>1 DEF Asking, Inits
<1>5. \A k : ~Plainly(o, v, k) /\ ~Switching(o, v, k) /\ ~Open(o, v, k) /\ ~Within(o, v, k)
  BY <1>1, <1>4, FirstAsking
<1>6. ASSUME NEW k, Proposed(o, v, k) PROVE Within(x, w, k)
  <2>1. /\ v.keysIn = k
        /\ \A j \in DOMAIN o : o[j].key = k
    BY <1>6 DEF Proposed
  <2>2. PICK m \in DOMAIN o :
          /\ \A j \in DOMAIN o : j < m => o[j].type \notin Asking
          /\ \A j \in DOMAIN o : j > m => o[j].type \in Inits \cup {"DISCONNECT"}
    BY <1>6 DEF Proposed
  <2>3. ~(1 < m)
    BY <1>2, <1>4, <2>2
  <2>4. m = 1
    BY <1>2, <2>3
  <2>5. \A j \in DOMAIN x : j + 1 > m
    BY <1>2, <2>4
  <2>6. \A j \in DOMAIN x : x[j].key = k /\ x[j].type \in Inits \cup {"DISCONNECT"}
    BY <1>2, <2>1, <2>2, <2>5
  <2>. QED
    BY <1>1, <2>1, <2>6 DEF Within
<1>7. \A k : Begun(o, v, k) => Begun(x, w, k)
  BY <1>5, <1>6 DEF Begun
<1>8. Sorted(o, v) => Sorted(x, w)
  BY <1>1, <1>5, <1>7 DEF Sorted
<1>9. NoneDue(o) => NoneDue(x)
  BY <1>2 DEF NoneDue
<1>10. ASSUME NEW type \in Inits, Due(o, type) PROVE Due(x, type)
  <2>1. o[Len(o)].type = type /\ \A j \in DOMAIN o : j # Len(o) => o[j].type \notin Inits
    BY <1>10 DEF Due
  <2>2. Len(o) # 1
    BY <1>4, <1>10, <2>1
  <2>3. Len(x) \in DOMAIN x /\ Len(x) + 1 = Len(o)
    <3> DEFINE n == Len(o)
               m == Len(x)
    <3>1. n # 1 /\ n \in Nat /\ n >= 1 /\ m = n - 1 /\ DOMAIN x = 1..m
      BY <1>2, <1>3, <2>2
    <3> HIDE DEF n, m
    <3>2. m \in 1..m /\ m + 1 = n
      BY <3>1
    <3>. QED
      BY <3>1, <3>2 DEF n, m
  <2>4. x[Len(x)].type = type
    BY <1>2, <2>1, <2>3
  <2>5. \A j \in DOMAIN x : j # Len(x) => j + 1 # Len(o)
    BY <1>2, <1>3
  <2>6. \A j \in DOMAIN x : j # Len(x) => x[j].type \notin Inits
    BY <1>2, <2>1, <2>5
  <2>7. x # <<>>
    BY <2>3
  <2>. QED
    BY <2>4, <2>6, <2>7 DEF Due
<1>11. OutKept(o, v, x, w)
  BY <1>5, <1>7, <1>8, <1>9, <1>10 DEF OutKept
<1>12. InKept(q, v, q, w)
  BY <1>1, SameIn
<1>13. AnswerKept(t, v, u, w)
  BY <1>5 DEF AnswerKept
<1>. QED
  BY <1>1, <1>11, <1>12, <1>13 DEF Follows

LEMMA SwitchFollows ==
  ASSUME NEW t, Formed(t), NEW v, v.keysIn \in Nat, NEW u, NEW w, Switches(t, v, u, w),
         \E k \in Nat : Plainly(t.outbound, v, k) \/ Begun(t.outbound, v, k) \/ Switching(t.outbound, v, k)
  PROVE  Follows(t, v, u, w)
<1> DEFINE o == t.outbound
           q == t.inbound
           x == Tail(o)
<1>1. /\ IsList(o) /\ IsList(q) /\ o # <<>> /\ o[1].type = "NEWKEYS" /\ Under(t, u)
      /\ u.outbound = x /\ u.inbound = q
      /\ w.keysIn = v.keysIn + 1 /\ w.keysOut = v.keysOut /\ w.offered = v.offered /\ ~w.exchanging
  BY FormedIs DEF Switches
<1>2. /\ IsList(x) /\ 1 \in DOMAIN o
      /\ \A j \in DOMAIN x : j + 1 \in DOMAIN o /\ x[j] = o[j + 1] /\ j \in Nat /\ j >= 1
  BY <1>1, TailIs
<1> HIDE DEF x
<1>3. o[1].type \in Asking /\ o[1].type # "KEXINIT"
  BY <1>1 DEF Asking
<1>4. \A k : ~Plainly(o, v, k) /\ ~Within(o, v, k) /\ ~Proposed(o, v, k)
  BY <1>1, <1>3, FirstAsking
<1>5. \A k : ~Begun(o, v, k)
  BY <1>4 DEF Begun
<1>6. PICK n \in Nat : Switching(o, v, n)
  BY <1>4, <1>5
<1>7. n = v.keysIn + 1 /\ v.exchanging
  BY <1>6 DEF Switching
<1>8. Plainly(x, w, n)
  <2>1. \A j \in DOMAIN x : j + 1 # 1
    BY <1>2
  <2>2. \A j \in DOMAIN o : j # 1 => o[j].key = n /\ o[j].type \notin Asking
    BY <1>6 DEF Switching
  <2>3. \A j \in DOMAIN x : x[j].key = n /\ x[j].type \notin Asking
    BY <1>2, <2>1, <2>2
  <2>. QED
    BY <1>1, <1>7, <2>3 DEF Plainly
<1>9. \A k \in Nat : Open(o, v, k) => Open(x, w, k)
  <2> SUFFICES ASSUME NEW k \in Nat, Open(o, v, k) PROVE Plainly(x, w, k)
    BY DEF Open
  <2>1. Switching(o, v, k)
    BY <1>4 DEF Open
  <2>2. k - 1 = v.keysIn /\ \A j \in DOMAIN o : j # 1 => o[j].key = k /\ o[j].type \notin Asking
    BY <2>1 DEF Switching
  <2>3. o[1].key = k - 1
    BY <2>1 DEF Switching
  <2>4. \A j \in DOMAIN x : x[j].key = k
    <3>1. \A j \in DOMAIN x : j + 1 # 1
      BY <1>2
    <3>. QED
      BY <1>2, <2>2, <3>1
  <2>5. w.keysIn = k
    BY <1>1, <2>2
  <2>. QED
    BY <1>8, <2>4, <2>5 DEF Plainly
<1>10. Sorted(x, w)
  <2>1. n \in {w.keysIn, w.keysIn + 1}
    BY <1>1, <1>7
  <2>. QED
    BY <1>8, <2>1 DEF Sorted
<1>11. NoneDue(x) /\ \A type \in Inits : ~Due(o, type)
  <2>1. \A j \in DOMAIN x : x[j].type \notin Inits
    BY <1>8 DEF Plainly, Asking
  <2>2. \A j \in DOMAIN o : o[j].type \notin Inits
    <3>1. o[1].type \notin Inits
      BY <1>1 DEF Inits
    <3>2. \A j \in DOMAIN o : j # 1 => o[j].type \notin Inits
      BY <1>6 DEF Switching, Asking
    <3>. QED
      BY <3>1, <3>2
  <2>3. Len(o) \in DOMAIN o
    BY <1>1, TailIs
  <2>. QED
    BY <2>1, <2>2, <2>3 DEF NoneDue, Due
<1>12. OutKept(o, v, x, w)
  BY <1>4, <1>5, <1>9, <1>10, <1>11 DEF OutKept
<1>13. InKept(q, v, q, w)
  BY <1>1, SameIn
<1>14. AnswerKept(t, v, u, w)
  BY <1>4 DEF AnswerKept
<1>. QED
  BY <1>1, <1>12, <1>13, <1>14 DEF Follows

LEMMA RekeyFollows ==
  ASSUME NEW t, Formed(t), NEW v, NEW u, NEW w, Proposes(t, v, u, w)
  PROVE  Follows(t, v, u, w)
<1> DEFINE o == t.outbound
           q == t.inbound
<1>1. /\ IsList(o) /\ IsList(q) /\ Under(t, u) /\ u.outbound = o /\ ~v.offered /\ ~v.exchanging
      /\ w.keysIn = v.keysIn /\ w.keysOut = v.keysOut /\ w.offered /\ ~w.exchanging
  BY FormedIs DEF Proposes
<1>2. PICK p : Ends(q, u.inbound, p) /\ p.type = "KEXINIT" /\ p.n = 1 /\ p.key = v.keysOut
  BY DEF Proposes
<1> DEFINE x == u.inbound
<1>3. /\ IsList(x) /\ Len(q) + 1 \in DOMAIN x /\ x[Len(q) + 1] = p /\ Len(x) = Len(q) + 1
      /\ \A j \in DOMAIN q : j \in DOMAIN x /\ x[j] = q[j] /\ j # Len(q) + 1
      /\ \A j \in DOMAIN x : j # Len(q) + 1 => j \in DOMAIN q /\ x[j] = q[j]
  BY <1>2 DEF Ends
<1> HIDE DEF x
<1>4. \A k : ~Switching(o, v, k) /\ ~Within(o, v, k)
  BY <1>1 DEF Switching, Within
<1>5. \A k : Plainly(o, v, k) => Plainly(o, w, k)
  BY <1>1 DEF Plainly
<1>6. \A k : Begun(o, v, k) => Begun(o, w, k)
  BY <1>1, <1>4 DEF Begun, Proposed
<1>7. \A k : Open(o, v, k) => Open(o, w, k)
  BY <1>4, <1>5 DEF Open
<1>8. Sorted(o, v) => Sorted(o, w)
  BY <1>1, <1>4, <1>5, <1>6 DEF Sorted
<1>9. OutKept(o, v, o, w)
  BY <1>4, <1>5, <1>6, <1>7, <1>8 DEF OutKept
<1>10. /\ q # <<>> => 1 \in DOMAIN q /\ x # <<>> /\ x[1] = q[1]
       /\ Guesses(x) = Guesses(q)
  <2>1. 1 \in DOMAIN x /\ 1 \notin DOMAIN q => x[1].type # "GUESS"
    BY <1>2, <1>3
  <2>. QED
    BY <1>1, <1>3, <2>1, GrownFirst
<1>11. ASSUME NEW m \in Nat, NEW k, Flow(q, m, v, k) PROVE Flow(x, m, w, k)
  <2>1. v.keysOut = k /\ \A j \in DOMAIN q : j > m => q[j].key = k /\ q[j].type \notin Awaited
    BY <1>1, <1>11 DEF Flow
  <2>2. ASSUME NEW j \in DOMAIN x, j > m
        PROVE  /\ x[j].key = k
               /\ \/ x[j].type \notin Awaited
                  \/ x[j].type = "KEXINIT" /\ j = Len(x) /\ x[j].n = 1 /\ w.offered
    <3>1. CASE j = Len(q) + 1
      BY <1>1, <1>2, <1>3, <2>1, <3>1
    <3>2. CASE j # Len(q) + 1
      BY <1>3, <2>1, <2>2, <3>2
    <3>. QED
      BY <3>1, <3>2
  <2>. QED
    BY <1>1, <2>1, <2>2 DEF Flow
<1>12. InKept(q, v, x, w)
  BY <1>1, <1>10, <1>11 DEF InKept, Holding
<1>13. AnswerKept(t, v, u, w)
  BY <1>4 DEF AnswerKept
<1>. QED
  BY <1>1, <1>2, <1>9, <1>12, <1>13 DEF Follows, x

-----------------------------------------------------------------------------
(* The session goes on where it was. *)

LEMMA UnderIs ==
  ASSUME NEW t, NEW u, Under(t, u)
  PROVE  /\ u.keys = t.keys /\ u.packets = t.packets /\ u.kex = t.kex /\ u.kexRc = t.kexRc
         /\ u.start = t.start /\ u.state = t.state /\ u.methods = t.methods /\ u.burn = t.burn
         /\ u.fullpacket = t.fullpacket /\ u.socket_state = t.socket_state /\ u.call = t.call
         /\ \A f, c : At(u, f, c) = At(t, f, c)
         /\ StartAt(u) = StartAt(t) /\ (Idle(t) => Idle(u)) /\ (NoneAwaited(t) => NoneAwaited(u))
         /\ Gex(u) = Gex(t) /\ InitOf(u) = InitOf(t) /\ ReplyOf(u) = ReplyOf(t)
<1>1. /\ u.keys = t.keys /\ u.packets = t.packets /\ u.kex = t.kex /\ u.kexRc = t.kexRc
      /\ u.start = t.start /\ u.state = t.state /\ u.methods = t.methods /\ u.burn = t.burn
      /\ u.fullpacket = t.fullpacket /\ u.socket_state = t.socket_state /\ u.call = t.call
  BY FieldsAre DEF Under, Same
<1>2. \A f, c : At(u, f, c) = At(t, f, c)
  <2>1. "at" \notin {"inbound", "outbound", "gone"}
    OBVIOUS
  <2>. QED
    BY <2>1, AtSame DEF Under
<1>3. StartAt(u) = StartAt(t)
  BY <1>2 DEF StartAt
<1>4. Idle(t) => Idle(u)
  BY <1>1, <1>2 DEF Idle
<1>5. NoneAwaited(t) => NoneAwaited(u)
  BY <1>1 DEF NoneAwaited
<1>6. Gex(u) = Gex(t)
  BY <1>1 DEF Gex
<1>7. InitOf(u) = InitOf(t) /\ ReplyOf(u) = ReplyOf(t)
  BY <1>6 DEF InitOf, ReplyOf
<1>. QED
  BY <1>1, <1>2, <1>3, <1>4, <1>5, <1>6, <1>7

LEMMA FollowsIs ==
  ASSUME NEW t, NEW v, NEW u, NEW w, Follows(t, v, u, w), NEW k
  PROVE  /\ Plainly(t.outbound, v, k) => Plainly(u.outbound, w, k)
         /\ Begun(t.outbound, v, k) => Begun(u.outbound, w, k)
         /\ k \in Nat /\ Open(t.outbound, v, k) => Open(u.outbound, w, k)
         /\ Within(t.outbound, v, k) /\ t.outbound = <<>> => Within(u.outbound, w, k) /\ u.outbound = <<>>
         /\ NoneDue(t.outbound) => NoneDue(u.outbound)
         /\ \A type \in Inits : Due(t.outbound, type) => Due(u.outbound, type)
         /\ Holding(v, k) => Holding(w, k) /\ u.inbound = t.inbound
         /\ Guesses(u.inbound) = Guesses(t.inbound)
BY DEF Follows, OutKept, InKept

LEMMA InitOfIs ==
  ASSUME NEW t
  PROVE  InitOf(t) \in Inits
BY DEF InitOf, Inits

LEMMA CalledFollows ==
  ASSUME NEW t, NEW u, Under(t, u), u.inbound = t.inbound, Called(t)
  PROVE  Called(u)
<1>1. u.kex = t.kex /\ u.packets = t.packets /\ u.keys = t.keys
  BY UnderIs
<1>. QED
  BY <1>1 DEF Called

LEMMA GuessFollows ==
  ASSUME NEW t, NEW u, Under(t, u), Guesses(u.inbound) = Guesses(t.inbound), GuessKept(t)
  PROVE  GuessKept(u)
<1>1. u.kex = t.kex /\ u.packets = t.packets /\ u.burn = t.burn /\ At(u, "burn", 0) = At(t, "burn", 0)
  BY UnderIs
<1>. QED
  BY <1>1 DEF GuessKept

LEMMA MakingFollows ==
  ASSUME NEW t, Formed(t), t.keys \in Nat, NEW v, NEW u, NEW w, Follows(t, v, u, w), MakingKeys(t, v)
  PROVE  MakingKeys(u, w)
<1>1. Under(t, u)
  BY DEF Follows
<1>2. /\ u.keys = t.keys /\ u.burn = t.burn
      /\ Gex(u) = Gex(t) /\ InitOf(u) = InitOf(t) /\ ReplyOf(u) = ReplyOf(t)
  BY <1>1, UnderIs
<1>3. \A f, c : At(u, f, c) = At(t, f, c)
  BY <1>1, UnderIs
<1>4. GuessKept(u) /\ NoneAwaited(u)
  <2>1. Guesses(u.inbound) = Guesses(t.inbound)
    BY FollowsIs
  <2>2. NoneAwaited(t) /\ GuessKept(t)
    BY DEF MakingKeys
  <2>3. NoneAwaited(t) => NoneAwaited(u)
    BY <1>1, UnderIs
  <2>. QED
    BY <1>1, <2>1, <2>2, <2>3, GuessFollows
<1>5. NothingSent(t, v) => NothingSent(u, w)
  BY <1>2, <1>3, FollowsIs DEF NothingSent
<1>6. GroupAsked(t, v) => GroupAsked(u, w)
  <2>1. "GEX_REQUEST" \in Inits
    BY DEF Inits
  <2>. QED
    BY <1>2, <1>3, <2>1, FollowsIs DEF GroupAsked
<1>7. GroupKnown(t, v) => GroupKnown(u, w)
  BY <1>2, <1>3, FollowsIs DEF GroupKnown
<1>8. InitSent(t, v) => InitSent(u, w)
  <2> SUFFICES ASSUME InitSent(t, v) PROVE InitSent(u, w)
    OBVIOUS
  <2>1. /\ At(u, "gex", 0) = IF Gex(u) THEN "sent1" ELSE "idle"
        /\ At(u, "dh", 0) \in {"sent", "sent1"}
        /\ At(u, "dh", 0) = "sent1" => ~u.burn
    BY <1>2, <1>3 DEF InitSent
  <2>2. CASE /\ Begun(t.outbound, v, t.keys) /\ Due(t.outbound, InitOf(t))
             /\ Holding(v, t.keys) /\ OnlyGuess(t.inbound, t.keys)
    <3>1. /\ Begun(u.outbound, w, u.keys) /\ Due(u.outbound, InitOf(u))
          /\ Holding(w, u.keys) /\ OnlyGuess(u.inbound, u.keys)
      BY <1>2, <2>2, FollowsIs, InitOfIs
    <3>. QED
      BY <2>1, <3>1 DEF InitSent
  <2>3. CASE /\ Within(t.outbound, v, t.keys) /\ t.outbound = <<>> /\ ~v.offered
             /\ Replied(t.inbound, v, t.keys, ReplyOf(t))
    <3>1. Within(u.outbound, w, u.keys) /\ u.outbound = <<>>
      BY <1>2, <2>3, FollowsIs
    <3>2. ~w.offered /\ Replied(u.inbound, w, u.keys, ReplyOf(u))
      BY <1>2, <2>3 DEF Follows, AnswerKept
    <3>. QED
      BY <2>1, <3>1, <3>2 DEF InitSent
  <2>. QED
    BY <2>2, <2>3 DEF InitSent
<1>9. Confirmed(t, v) => Confirmed(u, w)
  <2> SUFFICES ASSUME Confirmed(t, v) PROVE Confirmed(u, w)
    OBVIOUS
  <2>1. At(u, "gex", 0) = (IF Gex(u) THEN "sent1" ELSE "idle") /\ At(u, "dh", 0) = "sent3"
    BY <1>2, <1>3 DEF Confirmed
  <2>2. /\ t.inbound # <<>> /\ t.inbound[1].type = "NEWKEYS" /\ t.inbound[1].key = t.keys
        /\ Flow(t.inbound, 1, v, t.keys + 1) /\ Open(t.outbound, v, t.keys + 1)
    BY DEF Confirmed
  <2> DEFINE k == t.keys + 1
  <2>3. k \in Nat
    OBVIOUS
  <2>4. 1 <= Len(t.inbound)
    BY <2>2, FormedIs, TailIs
  <2>5. Flow(t.inbound, 1, v, k) /\ Open(t.outbound, v, k)
    BY <2>2
  <2> HIDE DEF k
  <2>6. Open(u.outbound, w, k)
    BY <2>3, <2>5, FollowsIs
  <2>7. Flow(u.inbound, 1, w, k) /\ u.inbound # <<>> /\ u.inbound[1] = t.inbound[1]
    BY <2>2, <2>4, <2>5 DEF Follows, InKept
  <2>8. k = u.keys + 1 /\ u.inbound[1].type = "NEWKEYS" /\ u.inbound[1].key = u.keys
    BY <1>2, <2>2, <2>7 DEF k
  <2>. QED
    BY <2>1, <2>6, <2>7, <2>8 DEF Confirmed
<1>. QED
  BY <1>2, <1>3, <1>4, <1>5, <1>6, <1>7, <1>8, <1>9 DEF MakingKeys

LEMMA ExchangingFollows ==
  ASSUME NEW t, Formed(t), t.keys \in Nat, NEW v, NEW u, NEW w, Follows(t, v, u, w), Exchanging(t, v)
  PROVE  Exchanging(u, w)
<1>1. Under(t, u)
  BY DEF Follows
<1>2. /\ u.keys = t.keys /\ u.start = t.start /\ u.state = t.state /\ u.kex = t.kex /\ u.methods = t.methods
      /\ Idle(t) => Idle(u)
  BY <1>1, UnderIs
<1>3. \A f, c : At(u, f, c) = At(t, f, c)
  BY <1>1, UnderIs
<1>4. ToOffer(t, v) => ToOffer(u, w)
  <2> SUFFICES ASSUME ToOffer(t, v) PROVE ToOffer(u, w)
    OBVIOUS
  <2>1. Plainly(u.outbound, w, u.keys) /\ Holding(w, u.keys) /\ u.inbound = t.inbound
    BY <1>2, FollowsIs DEF ToOffer
  <2>2. Called(u)
    BY <1>1, <2>1, CalledFollows DEF ToOffer
  <2>. QED
    BY <1>2, <1>3, <2>1, <2>2 DEF ToOffer
<1>5. OfferSent(t, v) => OfferSent(u, w)
  <2> SUFFICES ASSUME OfferSent(t, v) PROVE OfferSent(u, w)
    OBVIOUS
  <2>1. /\ Begun(u.outbound, w, u.keys) /\ NoneDue(u.outbound) /\ Holding(w, u.keys)
        /\ u.inbound = t.inbound
    BY <1>2, FollowsIs DEF OfferSent
  <2>2. Called(u)
    BY <1>1, <2>1, CalledFollows DEF OfferSent
  <2>. QED
    BY <1>3, <2>1, <2>2 DEF OfferSent
<1>6. MakingKeys(t, v) => MakingKeys(u, w)
  BY MakingFollows
<1>. QED
  BY <1>2, <1>3, <1>4, <1>5, <1>6 DEF Exchanging

LEMMA CalmFollows ==
  ASSUME NEW t, Formed(t), t.keys \in Nat, NEW v, NEW u, NEW w, Follows(t, v, u, w), Calm(t, v)
  PROVE  Calm(u, w)
<1>1. Under(t, u)
  BY DEF Follows
<1>2. u.keys = t.keys /\ (Idle(t) => Idle(u)) /\ (NoneAwaited(t) => NoneAwaited(u))
  BY <1>1, UnderIs
<1>3. 0 \in Nat /\ 0 <= Len(t.inbound)
  BY FormedIs, ListHas
<1>4. Flow(u.inbound, 0, w, u.keys)
  BY <1>2, <1>3 DEF Follows, InKept, Calm
<1>5. Open(u.outbound, w, u.keys)
  BY <1>2, FollowsIs DEF Calm
<1>. QED
  BY <1>2, <1>4, <1>5 DEF Calm

LEMMA BrokenFollows ==
  ASSUME NEW t, Formed(t), t.keys \in Nat, ~t.gone, NEW v, NEW u, NEW w, Follows(t, v, u, w), Broken(t, v)
  PROVE  Broken(u, w)
<1>1. Under(t, u)
  BY DEF Follows
<1>2. u.keys = t.keys /\ u.fullpacket = t.fullpacket
  BY <1>1, UnderIs
<1>3. Plainly(u.outbound, w, u.keys) \/ Begun(u.outbound, w, u.keys)
  BY <1>2, FollowsIs DEF Broken
<1>4. u.fullpacket # "" \/ u.inbound = <<>> \/ u.inbound[1].key = u.keys
  <2>1. CASE t.inbound = <<>>
    <3>1. v.offered /\ (u.inbound = <<>> \/ u.inbound # <<>>)
      BY <2>1 DEF Broken
    <3>2. v.keysOut = v.keysOut /\ Holding(v, v.keysOut)
      BY <3>1 DEF Holding
    <3>3. u.inbound = t.inbound
      BY <3>2, FollowsIs
    <3>. QED
      BY <2>1, <3>3
  <2>2. CASE t.inbound # <<>>
    BY <1>2, <2>2 DEF Broken, Follows, InKept
  <2>. QED
    BY <2>1, <2>2
<1>5. u.inbound = <<>> => w.offered /\ NoneDue(u.outbound)
  <2> SUFFICES ASSUME u.inbound = <<>> PROVE w.offered /\ NoneDue(u.outbound)
    OBVIOUS
  <2>1. t.inbound = <<>>
    BY DEF Follows, InKept
  <2>2. v.offered /\ NoneDue(t.outbound)
    BY <2>1 DEF Broken
  <2>. QED
    BY <2>2, FollowsIs DEF Follows, InKept
<1>. QED
  BY <1>3, <1>4, <1>5 DEF Broken

LEMMA FollowsGood ==
  ASSUME NEW t, NEW v, NEW a, Good(t, v, a), ~t.gone, NEW u, NEW w, Follows(t, v, u, w),
         Serving(w), Hung(u, w)
  PROVE  Good(u, w, a)
<1>1. Under(t, u) /\ Formed(t) /\ t.keys \in Nat /\ Formed(u) /\ Program(t, a)
  BY DEF Follows, Good, Under
<1>2. /\ u.keys = t.keys /\ u.packets = t.packets /\ u.kex = t.kex /\ u.kexRc = t.kexRc
      /\ u.start = t.start /\ u.state = t.state /\ u.methods = t.methods /\ u.socket_state = t.socket_state
      /\ u.call = t.call /\ StartAt(u) = StartAt(t) /\ (Idle(t) => Idle(u))
  BY <1>1, UnderIs
<1>3. Program(u, a)
  BY <1>1, <1>2 DEF Program
<1>4. Unstarted(t, v, a) => Unstarted(u, w, a)
  <2> SUFFICES ASSUME Unstarted(t, v, a) PROVE Unstarted(u, w, a)
    OBVIOUS
  <2>1. Plainly(u.outbound, w, 0) /\ Holding(w, 0) /\ u.inbound = t.inbound
    BY FollowsIs DEF Unstarted
  <2>. QED
    BY <1>2, <2>1 DEF Unstarted
<1>5. In(t, v, a) => In(u, w, a)
  BY <1>1, <1>2, ExchangingFollows DEF In, Started, PastExchange
<1>6. Between(t, v, a) => Between(u, w, a)
  BY <1>1, <1>2, CalmFollows DEF Between, Started, PastExchange
<1>7. Failed(t, v, a) => Failed(u, w, a)
  BY <1>1, <1>2, BrokenFollows DEF Failed, Started
<1>8. Freed(t, v, a) => Freed(u, w, a)
  <2> SUFFICES ASSUME Freed(t, v, a) PROVE Freed(u, w, a)
    OBVIOUS
  <2>1. Sorted(t.outbound, v)
    BY DEF Freed, Sorted
  <2>2. Sorted(u.outbound, w)
    BY <2>1 DEF Follows, OutKept
  <2>. QED
    BY <1>2, <2>2 DEF Freed, Sorted
<1>. QED
  BY <1>1, <1>2, <1>3, <1>4, <1>5, <1>6, <1>7, <1>8 DEF Good

-----------------------------------------------------------------------------
(* What libssh2 sends in an exchange is taken and answered. *)

\* The next packet is one of the exchange's, and its answer follows what has come.
Takes(t, v, u, w) ==
  /\ Under(t, u) /\ t.outbound # <<>> /\ t.outbound[1].type \in Inits /\ u.outbound = Tail(t.outbound)
  /\ w.keysIn = v.keysIn /\ w.exchanging = v.exchanging
  /\ \A j \in DOMAIN t.inbound : j \in DOMAIN u.inbound /\ u.inbound[j] = t.inbound[j]
  /\ 1 \in DOMAIN u.inbound /\ 1 \notin DOMAIN t.inbound => u.inbound[1].type # "GUESS"

AnswersGroup(t, v, u, w) ==
  /\ Takes(t, v, u, w) /\ t.outbound[1].type = "GEX_REQUEST"
  /\ w.keysOut = v.keysOut /\ w.offered = v.offered
  /\ \E p : Ends(t.inbound, u.inbound, p) /\ p.type = "GEX_GROUP" /\ p.key = v.keysOut

AnswersInit(t, v, u, w) ==
  /\ Takes(t, v, u, w) /\ t.outbound[1].type # "GEX_REQUEST"
  /\ w.keysOut = v.keysOut + 1 /\ ~w.offered
  /\ LET n == Len(t.inbound)
     IN  /\ Len(u.inbound) >= n + 2
         /\ u.inbound[n + 1].type = IF t.outbound[1].type = "GEX_INIT" THEN "GEX_REPLY" ELSE "KEXDH_REPLY"
         /\ u.inbound[n + 2].type = "NEWKEYS"
         /\ \A j \in {n + 1, n + 2} : u.inbound[j].key = v.keysOut
         /\ \A j \in DOMAIN u.inbound : j > n + 2 => /\ u.inbound[j].key = v.keysOut + 1
                                                     /\ u.inbound[j].type \notin Awaited

LEMMA InitTaken ==
  ASSUME NEW o, IsList(o), o # <<>>, o[1].type \in Inits,
         NEW v, NEW w, w.keysIn = v.keysIn, w.exchanging = v.exchanging
  PROVE  /\ \A k : ~Plainly(o, v, k) /\ ~Open(o, v, k) /\ ~Switching(o, v, k)
         /\ \A k : Begun(o, v, k) => Within(Tail(o), w, k)
         /\ ~NoneDue(o)
         /\ \A type : Due(o, type) => type = o[1].type /\ Tail(o) = <<>>
<1> DEFINE x == Tail(o)
<1>1. /\ IsList(x) /\ Len(o) \in Nat /\ Len(o) >= 1 /\ DOMAIN o = 1..Len(o) /\ 1 \in DOMAIN o
      /\ Len(x) = Len(o) - 1
      /\ \A j \in DOMAIN x : j + 1 \in DOMAIN o /\ x[j] = o[j + 1] /\ j \in Nat /\ j >= 1
  BY TailIs
<1>2. Len(o) = 1 => x = <<>>
  BY OneTail
<1> HIDE DEF x
<1>3. o[1].type \in Asking /\ o[1].type # "KEXINIT" /\ o[1].type # "NEWKEYS"
  BY DEF Asking, Inits
<1>4. \A k : ~Plainly(o, v, k) /\ ~Open(o, v, k) /\ ~Switching(o, v, k) /\ ~Proposed(o, v, k)
  BY <1>3, FirstAsking
<1>5. \A k : Within(o, v, k) => Within(x, w, k)
  BY <1>1 DEF Within
<1>6. \A k : Begun(o, v, k) => Within(x, w, k)
  BY <1>4, <1>5 DEF Begun
<1>7. ~NoneDue(o)
  BY <1>1 DEF NoneDue
<1>8. ASSUME NEW type, Due(o, type) PROVE type = o[1].type /\ x = <<>>
  <2>1. o[Len(o)].type = type /\ \A j \in DOMAIN o : j # Len(o) => o[j].type \notin Inits
    BY <1>8 DEF Due
  <2>2. Len(o) = 1
    BY <1>1, <2>1
  <2>. QED
    BY <1>2, <2>1, <2>2
<1>. QED
  BY <1>4, <1>6, <1>7, <1>8 DEF x

LEMMA TakesIs ==
  ASSUME NEW t, Formed(t), NEW v, NEW u, NEW w, Takes(t, v, u, w)
  PROVE  /\ t.inbound # <<>> => u.inbound # <<>> /\ u.inbound[1] = t.inbound[1]
         /\ Guesses(u.inbound) = Guesses(t.inbound)
         /\ \A k : ~Plainly(t.outbound, v, k) /\ ~Open(t.outbound, v, k) /\ ~Switching(t.outbound, v, k)
         /\ \A k : Begun(t.outbound, v, k) => Within(u.outbound, w, k)
         /\ ~NoneDue(t.outbound)
         /\ \A type : Due(t.outbound, type) => type = t.outbound[1].type /\ u.outbound = <<>>
<1>1. IsList(t.inbound) /\ IsList(u.inbound) /\ IsList(t.outbound)
  BY FormedIs DEF Takes, Under
<1>2. /\ t.inbound # <<>> => u.inbound # <<>> /\ u.inbound[1] = t.inbound[1]
      /\ Guesses(u.inbound) = Guesses(t.inbound)
  BY <1>1, GrownFirst DEF Takes
<1>3. /\ t.outbound # <<>> /\ t.outbound[1].type \in Inits /\ u.outbound = Tail(t.outbound)
      /\ w.keysIn = v.keysIn /\ w.exchanging = v.exchanging
  BY DEF Takes
<1> DEFINE o == t.outbound
<1>4. IsList(o) /\ o # <<>> /\ o[1].type \in Inits
  BY <1>1, <1>3
<1> HIDE DEF o
<1>5. /\ \A k : ~Plainly(o, v, k) /\ ~Open(o, v, k) /\ ~Switching(o, v, k)
      /\ \A k : Begun(o, v, k) => Within(Tail(o), w, k)
      /\ ~NoneDue(o)
      /\ \A type : Due(o, type) => type = o[1].type /\ Tail(o) = <<>>
  BY <1>3, <1>4, InitTaken
<1>. QED
  BY <1>2, <1>3, <1>5 DEF o

\* Only an exchange that has sent the packet goes on by its answer.
LEMMA TakesGood ==
  ASSUME NEW t, NEW v, NEW a, Good(t, v, a), ~t.gone, NEW u, NEW w, Takes(t, v, u, w),
         Serving(w), Hung(u, w), MakingKeys(t, v) => MakingKeys(u, w)
  PROVE  Good(u, w, a)
<1>1. Under(t, u) /\ Formed(t) /\ t.keys \in Nat /\ Formed(u) /\ Program(t, a)
  BY DEF Takes, Good, Under
<1>2. /\ u.keys = t.keys /\ u.kex = t.kex /\ u.kexRc = t.kexRc /\ u.start = t.start /\ u.state = t.state
      /\ u.socket_state = t.socket_state /\ u.call = t.call /\ u.fullpacket = t.fullpacket
      /\ StartAt(u) = StartAt(t) /\ At(u, "kex", 0) = At(t, "kex", 0)
  BY <1>1, UnderIs
<1>3. Program(u, a)
  BY <1>1, <1>2 DEF Program
<1>4. /\ t.inbound # <<>> => u.inbound # <<>> /\ u.inbound[1] = t.inbound[1]
      /\ \A k : ~Plainly(t.outbound, v, k) /\ ~Open(t.outbound, v, k) /\ ~Switching(t.outbound, v, k)
      /\ \A k : Begun(t.outbound, v, k) => Within(u.outbound, w, k)
      /\ ~NoneDue(t.outbound)
  BY <1>1, TakesIs
<1>5. ~Unstarted(t, v, a)
  BY <1>4 DEF Unstarted
<1>6. In(t, v, a) => In(u, w, a)
  <2> SUFFICES ASSUME In(t, v, a) PROVE In(u, w, a)
    OBVIOUS
  <2>1. ~ToOffer(t, v) /\ ~OfferSent(t, v)
    BY <1>4 DEF ToOffer, OfferSent
  <2>2. Exchanging(u, w)
    BY <1>2, <2>1 DEF In, Exchanging
  <2>. QED
    BY <1>2, <2>2 DEF In, Started, PastExchange
<1>7. ~Between(t, v, a)
  BY <1>4 DEF Between, Calm
<1>8. Failed(t, v, a) => Failed(u, w, a)
  <2> SUFFICES ASSUME Broken(t, v) PROVE Broken(u, w)
    BY <1>2 DEF Failed, Started
  <2>1. Begun(t.outbound, v, t.keys)
    BY <1>4 DEF Broken
  <2>2. Begun(u.outbound, w, u.keys)
    BY <1>2, <1>4, <2>1 DEF Begun
  <2>3. t.inbound # <<>>
    BY <1>4 DEF Broken
  <2>. QED
    BY <1>2, <1>4, <2>2, <2>3 DEF Broken
<1>9. Freed(t, v, a) => Freed(u, w, a)
  <2> SUFFICES ASSUME Freed(t, v, a) PROVE Freed(u, w, a)
    OBVIOUS
  <2>1. PICK k \in {v.keysIn, v.keysIn + 1} : Begun(t.outbound, v, k)
    BY <1>4 DEF Freed
  <2>2. Begun(u.outbound, w, k) /\ k \in {w.keysIn, w.keysIn + 1}
    BY <1>4, <2>1 DEF Begun, Takes
  <2>. QED
    BY <1>2, <2>2 DEF Freed
<1>. QED
  BY <1>1, <1>2, <1>3, <1>5, <1>6, <1>7, <1>8, <1>9 DEF Good

LEMMA OnlyGuessLen ==
  ASSUME NEW q, IsList(q), NEW k, OnlyGuess(q, k)
  PROVE  Len(q) = Guesses(q) /\ Len(q) \in {0, 1} /\ \A j \in DOMAIN q : q[j].key = k
<1>1. Len(q) \in Nat /\ DOMAIN q = 1..Len(q) /\ (q # <<>> => Len(q) >= 1)
  BY ListHas, TailIs
<1>2. Len(q) \in {0, 1}
  BY <1>1 DEF OnlyGuess
<1>3. CASE q = <<>>
  BY <1>3 DEF Guesses
<1>4. CASE q # <<>>
  <2>1. Len(q) = 1 /\ 1 \in DOMAIN q
    BY <1>1, <1>2, <1>4
  <2>2. IsGuess(q[1], k)
    BY <2>1 DEF OnlyGuess
  <2>3. q[1].type = "GUESS"
    BY <2>2 DEF IsGuess
  <2>. QED
    BY <1>4, <2>1, <2>3 DEF Guesses, OnlyGuess, IsGuess
<1>. QED
  BY <1>2, <1>3, <1>4 DEF OnlyGuess, IsGuess

\* What a packet of an exchange finds.
LEMMA TakesMaking ==
  ASSUME NEW t, Formed(t), NEW v, NEW u, NEW w, Takes(t, v, u, w), MakingKeys(t, v)
  PROVE  /\ u.keys = t.keys /\ Gex(u) = Gex(t) /\ ReplyOf(u) = ReplyOf(t) /\ InitOf(u) = InitOf(t)
         /\ \A f, c : At(u, f, c) = At(t, f, c)
         /\ NoneAwaited(u) /\ GuessKept(u) /\ u.burn = t.burn
         /\ u.outbound = <<>> /\ Within(u.outbound, w, u.keys)
         /\ Holding(v, t.keys) /\ OnlyGuess(t.inbound, t.keys)
         /\ \/ GroupAsked(t, v) /\ t.outbound[1].type = "GEX_REQUEST"
            \/ InitSent(t, v) /\ t.outbound[1].type = InitOf(t)
<1>1. Under(t, u) /\ t.outbound # <<>>
  BY DEF Takes
<1>2. /\ u.keys = t.keys /\ Gex(u) = Gex(t) /\ ReplyOf(u) = ReplyOf(t) /\ InitOf(u) = InitOf(t)
      /\ u.burn = t.burn /\ (NoneAwaited(t) => NoneAwaited(u))
  BY <1>1, UnderIs
<1>3. \A f, c : At(u, f, c) = At(t, f, c)
  BY <1>1, UnderIs
<1>4. /\ Guesses(u.inbound) = Guesses(t.inbound)
      /\ \A k : ~Open(t.outbound, v, k)
      /\ \A k : Begun(t.outbound, v, k) => Within(u.outbound, w, k)
      /\ ~NoneDue(t.outbound)
      /\ \A type : Due(t.outbound, type) => type = t.outbound[1].type /\ u.outbound = <<>>
  BY TakesIs
<1>5. NoneAwaited(u) /\ GuessKept(u)
  BY <1>1, <1>2, <1>4, GuessFollows DEF MakingKeys
<1>6. ~NothingSent(t, v) /\ ~GroupKnown(t, v) /\ ~Confirmed(t, v)
  BY <1>1, <1>4 DEF NothingSent, GroupKnown, Confirmed
<1>7. CASE GroupAsked(t, v)
  BY <1>1, <1>2, <1>3, <1>4, <1>5, <1>7 DEF GroupAsked
<1>8. CASE InitSent(t, v)
  BY <1>1, <1>2, <1>3, <1>4, <1>5, <1>8 DEF InitSent
<1>. QED
  BY <1>6, <1>7, <1>8 DEF MakingKeys

LEMMA GroupMaking ==
  ASSUME NEW t, Formed(t), NEW v, NEW u, NEW w, AnswersGroup(t, v, u, w), MakingKeys(t, v)
  PROVE  MakingKeys(u, w)
<1>1. /\ Takes(t, v, u, w) /\ t.outbound[1].type = "GEX_REQUEST"
      /\ w.keysOut = v.keysOut /\ w.offered = v.offered
  BY DEF AnswersGroup
<1>2. /\ u.keys = t.keys /\ Gex(u) = Gex(t)
      /\ NoneAwaited(u) /\ GuessKept(u) /\ u.burn = t.burn
      /\ u.outbound = <<>> /\ Within(u.outbound, w, u.keys)
      /\ Holding(v, t.keys) /\ OnlyGuess(t.inbound, t.keys)
      /\ \/ GroupAsked(t, v) /\ t.outbound[1].type = "GEX_REQUEST"
         \/ InitSent(t, v) /\ t.outbound[1].type = InitOf(t)
  BY <1>1, TakesMaking
<1>3. \A f, c : At(u, f, c) = At(t, f, c)
  BY <1>1, TakesMaking
<1>4. GroupAsked(t, v)
  BY <1>1, <1>2 DEF InitOf
<1>5. PICK p : Ends(t.inbound, u.inbound, p) /\ p.type = "GEX_GROUP" /\ p.key = v.keysOut
  BY DEF AnswersGroup
<1> DEFINE q == t.inbound
           x == u.inbound
           n == Len(q)
           k == t.keys
<1>6. /\ n + 1 \in DOMAIN x /\ x[n + 1] = p /\ Len(x) = n + 1
      /\ \A j \in DOMAIN x : j # n + 1 => j \in DOMAIN q /\ x[j] = q[j]
  BY <1>5 DEF Ends
<1>7. n = Guesses(q) /\ Guesses(x) = Guesses(q) /\ \A j \in DOMAIN q : q[j].key = k
  <2>1. Guesses(u.inbound) = Guesses(t.inbound)
    BY <1>1, TakesIs
  <2>2. Len(q) = Guesses(q) /\ \A j \in DOMAIN q : q[j].key = k
    BY <1>2, FormedIs, OnlyGuessLen
  <2>. QED
    BY <1>5, <2>1, <2>2
<1>8. p.key = k
  BY <1>2, <1>5 DEF Holding
<1> HIDE DEF x, n, k
<1>9. \A j \in DOMAIN x : x[j].key = k
  BY <1>6, <1>7, <1>8
<1>10. GroupCame(x, k)
  BY <1>5, <1>6, <1>7, <1>9 DEF GroupCame
<1>11. GroupCame(u.inbound, u.keys)
  BY <1>2, <1>5, <1>10 DEF x, k
<1>12. Holding(w, u.keys)
  BY <1>1, <1>2 DEF Holding
<1>13. GroupAsked(u, w)
  BY <1>2, <1>3, <1>4, <1>11, <1>12 DEF GroupAsked
<1>. QED
  BY <1>2, <1>3, <1>13 DEF MakingKeys

LEMMA InitMaking ==
  ASSUME NEW t, Formed(t), t.keys \in Nat, NEW v, NEW u, NEW w, AnswersInit(t, v, u, w), MakingKeys(t, v)
  PROVE  MakingKeys(u, w)
<1>1. /\ Takes(t, v, u, w) /\ t.outbound[1].type # "GEX_REQUEST"
      /\ w.keysOut = v.keysOut + 1 /\ ~w.offered
  BY DEF AnswersInit
<1>2. /\ u.keys = t.keys /\ Gex(u) = Gex(t) /\ ReplyOf(u) = ReplyOf(t) /\ InitOf(u) = InitOf(t)
      /\ NoneAwaited(u) /\ GuessKept(u) /\ u.burn = t.burn
      /\ u.outbound = <<>> /\ Within(u.outbound, w, u.keys)
      /\ Holding(v, t.keys) /\ OnlyGuess(t.inbound, t.keys)
      /\ \/ GroupAsked(t, v) /\ t.outbound[1].type = "GEX_REQUEST"
         \/ InitSent(t, v) /\ t.outbound[1].type = InitOf(t)
  BY <1>1, TakesMaking
<1>3. \A f, c : At(u, f, c) = At(t, f, c)
  BY <1>1, TakesMaking
<1>4. InitSent(t, v) /\ t.outbound[1].type = InitOf(t)
  BY <1>1, <1>2
<1> DEFINE q == t.inbound
           x == u.inbound
           n == Len(q)
           k == t.keys
<1>5. (IF t.outbound[1].type = "GEX_INIT" THEN "GEX_REPLY" ELSE "KEXDH_REPLY") = ReplyOf(t)
  BY <1>4 DEF InitOf, ReplyOf
<1>6. v.keysOut = k
  BY <1>2 DEF Holding
<1>7. /\ Len(x) >= n + 2
      /\ x[n + 1].type = ReplyOf(t)
      /\ x[n + 2].type = "NEWKEYS"
      /\ \A j \in {n + 1, n + 2} : x[j].key = k
      /\ \A j \in DOMAIN x : j > n + 2 => x[j].key = k + 1 /\ x[j].type \notin Awaited
  BY <1>5, <1>6 DEF AnswersInit
<1>8. \A j \in DOMAIN q : j \in DOMAIN x /\ x[j] = q[j]
  BY <1>1 DEF Takes
<1>9. n = Guesses(q) /\ Guesses(x) = Guesses(q) /\ \A j \in DOMAIN q : q[j].key = k
  <2>1. Guesses(u.inbound) = Guesses(t.inbound)
    BY <1>1, TakesIs
  <2>2. Len(q) = Guesses(q) /\ \A j \in DOMAIN q : q[j].key = k
    BY <1>2, FormedIs, OnlyGuessLen
  <2>. QED
    BY <2>1, <2>2
<1>10. /\ n \in Nat /\ DOMAIN q = 1..n /\ Len(x) \in Nat /\ DOMAIN x = 1..Len(x)
  BY <1>1, FormedIs, ListHas DEF Takes, Under
<1>11. w.keysOut = k + 1
  BY <1>1, <1>6
<1> HIDE DEF n, k, q, x
<1>12. \A j \in DOMAIN x : j <= n + 2 => x[j].key = k
  <2> SUFFICES ASSUME NEW j \in DOMAIN x, j <= n + 2 PROVE x[j].key = k
    OBVIOUS
  <2>1. j \in DOMAIN q \/ j \in {n + 1, n + 2}
    BY <1>10
  <2>. QED
    BY <1>7, <1>8, <1>9, <2>1
<1>13. Flow(x, n + 2, w, k + 1)
  BY <1>7, <1>11 DEF Flow
<1>14. Replied(x, w, k, ReplyOf(t))
  BY <1>7, <1>9, <1>12, <1>13 DEF Replied
<1>15. Replied(u.inbound, w, u.keys, ReplyOf(u))
  BY <1>2, <1>14 DEF x, k
<1>16. InitSent(u, w)
  BY <1>1, <1>2, <1>3, <1>4, <1>15 DEF InitSent
<1>. QED
  BY <1>2, <1>3, <1>4, <1>16 DEF MakingKeys, InitSent

-----------------------------------------------------------------------------
(* What the server says arrives, or is held back. *)

LEMMA SealedIs ==
  ASSUME NEW v, NEW say, ArePackets(say)
  PROVE  LET y == Sealed(v, say)
         IN  /\ ArePackets(y) /\ DOMAIN y = DOMAIN say /\ Len(y) = Len(say)
             /\ \A j \in DOMAIN y : y[j].type = say[j].type /\ y[j].n = say[j].n /\ y[j].key = v.keysOut
<1> DEFINE e(i) == [say[i] EXCEPT !.key = v.keysOut]
           n == Len(say)
           S == {e(i) : i \in 1..n}
           y == Sealed(v, say)
<1>1. n \in Nat /\ DOMAIN say = 1..n
  BY ListHas DEF ArePackets
<1>2. y = [i \in 1..n |-> e(i)]
  BY <1>1 DEF Sealed
<1>3. \A i \in 1..n : e(i) \in S
  OBVIOUS
<1>4. \A i \in 1..n : IsPacket(e(i)) /\ e(i).type = say[i].type /\ e(i).n = say[i].n /\ e(i).key = v.keysOut
  <2> SUFFICES ASSUME NEW i \in 1..n
               PROVE  IsPacket(e(i)) /\ e(i).type = say[i].type /\ e(i).n = say[i].n /\ e(i).key = v.keysOut
    OBVIOUS
  <2>1. DOMAIN say[i] = PacketFields
    BY <1>1 DEF ArePackets, IsPacket
  <2>. QED
    BY <2>1, FieldsAre DEF IsPacket
<1> HIDE DEF e, n, S, y
<1>5. y \in Seq(S)
  BY <1>1, <1>2, <1>3, IsASeq
<1>6. IsList(y)
  BY <1>5, ListIs
<1>7. DOMAIN y = 1..n /\ Len(y) = n /\ \A i \in 1..n : y[i] = e(i)
  <2>1. DOMAIN y = 1..n /\ \A i \in 1..n : y[i] = e(i)
    BY <1>2
  <2>2. DOMAIN y = 1..Len(y) /\ Len(y) \in Nat
    BY <1>6, ListHas
  <2>3. Len(y) = n
    BY <1>1, <2>1, <2>2
  <2>. QED
    BY <2>1, <2>3
<1>8. /\ ArePackets(y) /\ DOMAIN y = DOMAIN say /\ Len(y) = Len(say)
      /\ \A j \in DOMAIN y : y[j].type = say[j].type /\ y[j].n = say[j].n /\ y[j].key = v.keysOut
  BY <1>1, <1>4, <1>6, <1>7 DEF ArePackets, n
<1>. QED
  BY <1>8 DEF y

LEMMA NoneSealed ==
  ASSUME NEW v
  PROVE  Sealed(v, <<>>) = <<>>
<1>1. DOMAIN Sealed(v, <<>>) = {}
  BY DEF Sealed
<1>2. ArePackets(Sealed(v, <<>>))
  BY SealedIs, TalkNone DEF Talk
<1> DEFINE y == Sealed(v, <<>>)
<1>3. IsList(y) /\ DOMAIN y = {}
  BY <1>1, <1>2 DEF ArePackets
<1> HIDE DEF y
<1>4. y = <<>>
  <2>1. y # <<>> => 1 \in DOMAIN y
    BY <1>3, TailIs
  <2>. QED
    BY <1>3, <2>1
<1>. QED
  BY <1>4 DEF y

LEMMA NoneJoined ==
  ASSUME NEW q, IsList(q)
  PROVE  q \o <<>> = q
BY ListHas, ConcatEmptySeq

\* The connection and the server after it says something.
Told(t, x, now, say, unread, closes) ==
  [t EXCEPT !.outbound = unread, !.gone = closes,
            !.inbound = @ \o now \o (IF x.offered THEN <<>> ELSE Sealed(x, say))]

Became(x, say) == IF x.offered THEN [x EXCEPT !.held = @ \o say] ELSE x

\* u is t after it.
Tells(t, x, now, say, unread, closes, u) ==
  LET q == IF x.offered THEN <<>> ELSE Sealed(x, say)
  IN  /\ Under(t, u) /\ u.outbound = unread /\ u.gone = closes
      /\ u.inbound = (t.inbound \o now) \o q
      /\ ArePackets(q) /\ ArePackets(t.inbound \o now)

LEMMA ToldIs ==
  ASSUME NEW t, Formed(t), NEW x, NEW now, ArePackets(now), NEW say, ArePackets(say),
         NEW unread, ArePackets(unread), NEW closes
  PROVE  Tells(t, x, now, say, unread, closes, Told(t, x, now, say, unread, closes))
<1> DEFINE u == Told(t, x, now, say, unread, closes)
           q == IF x.offered THEN <<>> ELSE Sealed(x, say)
           p == t.inbound \o now
           i == p \o q
<1>1. ArePackets(q)
  <2>1. ArePackets(<<>>)
    BY TalkNone DEF Talk
  <2>2. ArePackets(Sealed(x, say))
    BY SealedIs
  <2>. QED
    BY <2>1, <2>2
<1> HIDE DEF q
<1>2. ArePackets(p)
  BY PacketsJoined DEF Formed
<1> HIDE DEF p
<1>3. ArePackets(i)
  BY <1>1, <1>2, PacketsJoined
<1> HIDE DEF i
<1>4. u = [t EXCEPT !.outbound = unread, !.gone = closes, !.inbound = i]
  BY DEF Told, i, p, q
<1> HIDE DEF u
<1>5. u.outbound = unread /\ u.gone = closes /\ u.inbound = i
  BY <1>4, FieldsAre DEF Formed
<1>6. Same(t, u, {"inbound", "outbound", "gone"})
  BY <1>4, FieldsAre DEF Formed, Same
<1>7. Formed(u)
  BY <1>3, <1>4, <1>5, FieldsAre DEF Formed
<1>8. Under(t, u)
  BY <1>6, <1>7 DEF Under
<1>9. Tells(t, x, now, say, unread, closes, u)
  BY <1>1, <1>2, <1>5, <1>8 DEF Tells, i, p, q
<1>. QED
  BY <1>9 DEF u

LEMMA BecameIs ==
  ASSUME NEW x, FormedServer(x), NEW say, ArePackets(say)
  PROVE  LET w == Became(x, say)
         IN  /\ FormedServer(w) /\ SameServer(x, w)
             /\ w.undeciphered = x.undeciphered /\ w.strayed = x.strayed
             /\ w.held = IF x.offered THEN x.held \o say ELSE x.held
<1> DEFINE h == x.held \o say
           w == [x EXCEPT !.held = h]
<1>1. ArePackets(h)
  BY PacketsJoined DEF FormedServer
<1> HIDE DEF h
<1>2. /\ FormedServer(w) /\ SameServer(x, w)
      /\ w.undeciphered = x.undeciphered /\ w.strayed = x.strayed /\ w.held = h
  BY <1>1, FieldsAre DEF FormedServer, SameServer
<1>3. CASE x.offered
  <2>1. Became(x, say) = w
    BY <1>3 DEF Became, h
  <2> HIDE DEF w
  <2>. QED
    BY <1>2, <1>3, <2>1 DEF h
<1>4. CASE ~x.offered
  BY <1>4 DEF Became, SameServer
<1>. QED
  BY <1>3, <1>4

LEMMA HungTold ==
  ASSUME NEW t, NEW v, Hung(t, v), ~t.gone, NEW u, Under(t, u), NEW w,
         \A j \in DOMAIN u.inbound : u.inbound[j].type = "DISCONNECT" => u.gone,
         \A j \in DOMAIN w.held : w.held[j].type = "DISCONNECT" => u.gone
  PROVE  Hung(u, w)
<1>1. t.fullpacket = "" /\ t.socket_state # "disconnected"
  BY DEF Hung
<1>2. u.fullpacket = t.fullpacket /\ u.socket_state = t.socket_state
  BY UnderIs
<1>. QED
  BY <1>1, <1>2 DEF Hung

\* x is q and then r.
Joint(q, r, x) ==
  /\ IsList(x) /\ Len(x) >= Len(q) /\ Len(x) = Len(q) + Len(r)
  /\ \A j \in DOMAIN q : j \in DOMAIN x /\ x[j] = q[j]
  /\ \A j \in DOMAIN x : j \notin DOMAIN q => \E i \in DOMAIN r : x[j] = r[i] /\ j = Len(q) + i
  /\ \A i \in DOMAIN r : Len(q) + i \in DOMAIN x /\ x[Len(q) + i] = r[i]

LEMMA JoinedHas ==
  ASSUME NEW q, IsList(q), NEW r, IsList(r)
  PROVE  Joint(q, r, q \o r)
<1> DEFINE x == q \o r
           m == Len(q)
           n == Len(r)
<1>1. /\ IsList(x) /\ m \in Nat /\ n \in Nat
      /\ Len(x) = m + n /\ DOMAIN x = 1..(m + n)
      /\ \A j \in 1..m : x[j] = q[j]
      /\ \A j \in 1..n : x[m + j] = r[j]
      /\ \A j \in (m + 1)..(m + n) : x[j] = r[j - m]
  BY ListJoined
<1>2. DOMAIN q = 1..m /\ DOMAIN r = 1..n
  BY ListHas
<1> HIDE DEF x, m, n
<1>3. Len(x) >= m /\ \A j \in DOMAIN q : j \in DOMAIN x /\ x[j] = q[j]
  BY <1>1, <1>2
<1>4. ASSUME NEW j \in DOMAIN x, j \notin DOMAIN q PROVE \E i \in DOMAIN r : x[j] = r[i] /\ j = m + i
  <2> DEFINE i == j - m
  <2>1. i \in DOMAIN r /\ j = m + i /\ j \in (m + 1)..(m + n)
    BY <1>1, <1>2, <1>4
  <2>2. x[j] = r[i]
    BY <1>1, <2>1
  <2> HIDE DEF i
  <2>. QED
    BY <2>1, <2>2
<1>5. \A i \in DOMAIN r : m + i \in DOMAIN x /\ x[m + i] = r[i]
  BY <1>1, <1>2
<1>6. Joint(q, r, x)
  BY <1>1, <1>3, <1>4, <1>5 DEF Joint, m, n
<1>. QED
  BY <1>6 DEF x

-----------------------------------------------------------------------------
LEMMA TrimmedIs ==
  ASSUME NEW o, ArePackets(o), NEW x, Trimmed(o, x)
  PROVE  ArePackets(x)
BY PacketsTail DEF Trimmed

LEMMA ServingSaid ==
  ASSUME NEW v, Serving(v), NEW x, Retains(v, x), NEW say, Talk(say)
  PROVE  LET w == Became(x, say)
         IN  /\ Serving(w) /\ SameServer(v, w) /\ FormedServer(x)
             /\ \A j \in DOMAIN w.held : \/ j \in DOMAIN v.held /\ w.held[j] = v.held[j]
                                         \/ \E i \in DOMAIN say : w.held[j] = say[i]
<1>1. FormedServer(x) /\ ArePackets(v.held) /\ x.held = v.held /\ SameServer(v, x) /\ ArePackets(say)
      /\ ~x.undeciphered /\ ~x.strayed
  BY KeepsIs DEF Serving, FormedServer, Retains, SameServer, Talk
<1> DEFINE w == Became(x, say)
<1>2. /\ FormedServer(w) /\ SameServer(x, w)
      /\ w.undeciphered = x.undeciphered /\ w.strayed = x.strayed
      /\ w.held = IF x.offered THEN x.held \o say ELSE x.held
  BY <1>1, BecameIs
<1> HIDE DEF w
<1>3. SameServer(v, w)
  BY <1>1, <1>2 DEF SameServer
<1>4. \A j \in DOMAIN w.held : \/ j \in DOMAIN v.held /\ w.held[j] = v.held[j]
                               \/ \E i \in DOMAIN say : w.held[j] = say[i]
  <2>1. CASE x.offered
    <3>1. IsList(v.held) /\ IsList(say) /\ w.held = v.held \o say
      BY <1>1, <1>2, <2>1 DEF ArePackets
    <3> DEFINE h == v.held \o say
    <3>2. /\ \A j \in DOMAIN v.held : j \in DOMAIN h /\ h[j] = v.held[j]
          /\ \A j \in DOMAIN h : j \notin DOMAIN v.held => \E i \in DOMAIN say : h[j] = say[i]
      <4>1. Joint(v.held, say, h)
        BY <3>1, JoinedHas
      <4> HIDE DEF h
      <4>. QED
        BY <4>1 DEF Joint
    <3> HIDE DEF h
    <3>3. w.held = h
      BY <3>1 DEF h
    <3>. QED
      BY <3>2, <3>3
  <2>2. CASE ~x.offered
    BY <1>1, <1>2, <2>2
  <2>. QED
    BY <2>1, <2>2
<1>5. \A j \in DOMAIN w.held : w.held[j].type \notin Awaited
  <2>1. \A j \in DOMAIN v.held : v.held[j].type \notin Awaited
    BY DEF Serving
  <2>2. \A i \in DOMAIN say : say[i].type \notin Awaited
    BY DEF Talk, Spoken
  <2>. QED
    BY <1>4, <2>1, <2>2
<1>6. ~w.offered => w.held = <<>>
  BY <1>1, <1>2 DEF SameServer, Serving
<1>7. w.keysIn \in Nat
  BY <1>3 DEF SameServer, Serving
<1>8. Serving(w)
  BY <1>1, <1>2, <1>5, <1>6, <1>7 DEF Serving
<1>. QED
  BY <1>1, <1>3, <1>4, <1>8 DEF w

LEMMA ChatGood ==
  ASSUME NEW t, NEW v, NEW a, Good(t, v, a), ~t.gone, NEW x, Retains(v, x), NEW say, Talk(say),
         NEW unread, Trimmed(t.outbound, unread), NEW closes,
         \A j \in DOMAIN say : say[j].type = "DISCONNECT" => closes
  PROVE  Good(Told(t, x, <<>>, say, unread, closes), Became(x, say), a)
<1> DEFINE now == <<>>
           u == Told(t, x, now, say, unread, closes)
           w == Became(x, say)
           q == t.inbound
           r == IF x.offered THEN <<>> ELSE Sealed(x, say)
<1>1. Formed(t) /\ Serving(v) /\ Hung(t, v) /\ ArePackets(say) /\ ArePackets(unread) /\ ArePackets(<<>>)
      /\ ArePackets(q)
  BY TrimmedIs, TalkNone DEF Good, Formed, Talk
<1>2. /\ Serving(w) /\ SameServer(v, w) /\ FormedServer(x)
      /\ \A j \in DOMAIN w.held : \/ j \in DOMAIN v.held /\ w.held[j] = v.held[j]
                                  \/ \E i \in DOMAIN say : w.held[j] = say[i]
  BY <1>1, ServingSaid
<1>3. /\ Under(t, u) /\ u.outbound = unread /\ u.gone = closes
      /\ u.inbound = (q \o now) \o r /\ ArePackets(r)
  <2>1. ArePackets(now)
    BY <1>1
  <2>2. Tells(t, x, now, say, unread, closes, u)
    BY <1>1, <2>1, ToldIs
  <2> HIDE DEF now, u
  <2>. QED
    BY <2>2 DEF Tells
<1>4. x.offered = v.offered /\ x.keysOut = v.keysOut
  BY KeepsIs
<1> HIDE DEF u, w
<1>5. q \o <<>> = q /\ IsList(q) /\ IsList(r)
  BY <1>1, <1>3, NoneJoined DEF ArePackets
<1>6. u.inbound = q \o r
  BY <1>3, <1>5
<1>7. v.offered => u.inbound = q
  BY <1>4, <1>5, <1>6
<1>8. \A i \in DOMAIN r : r[i].key = v.keysOut /\ i \in DOMAIN say /\ r[i].type = say[i].type
  <2>1. CASE x.offered
    BY <2>1
  <2>2. CASE ~x.offered
    <3> DEFINE y == Sealed(x, say)
    <3>1. DOMAIN y = DOMAIN say /\ \A j \in DOMAIN y : y[j].type = say[j].type /\ y[j].key = x.keysOut
      BY <1>1, SealedIs
    <3>2. r = y
      BY <2>2
    <3> HIDE DEF y, r
    <3>. QED
      BY <1>4, <3>1, <3>2
  <2>. QED
    BY <2>1, <2>2
<1> HIDE DEF r
<1> DEFINE z == q \o r
<1>9. /\ IsList(z) /\ Len(z) >= Len(q)
      /\ \A j \in DOMAIN q : j \in DOMAIN z /\ z[j] = q[j]
      /\ \A j \in DOMAIN z : j \notin DOMAIN q => \E i \in DOMAIN r : z[j] = r[i]
  <2>1. Joint(q, r, z)
    BY <1>5, JoinedHas
  <2> HIDE DEF z
  <2>. QED
    BY <2>1 DEF Joint
<1> HIDE DEF z
<1>10. \A i \in DOMAIN say : say[i].type \notin Spoken
  BY DEF Talk
<1>11. Grown(q, z, v.keysOut)
  BY <1>8, <1>9, <1>10 DEF Grown
<1>12. u.inbound = z
  BY <1>6 DEF z
<1>13. Chat(t, v, u, w)
  BY <1>2, <1>3, <1>7, <1>11, <1>12 DEF Chat
<1>14. Follows(t, v, u, w)
  BY <1>1, <1>13, ChatFollows
<1>15. Hung(u, w)
  <2>1. \A j \in DOMAIN q : q[j].type # "DISCONNECT"
    BY <1>1 DEF Hung
  <2>2. \A j \in DOMAIN v.held : v.held[j].type # "DISCONNECT"
    BY <1>1 DEF Hung
  <2>3. \A j \in DOMAIN z : z[j].type = "DISCONNECT" => u.gone
    <3> SUFFICES ASSUME NEW j \in DOMAIN z, z[j].type = "DISCONNECT" PROVE u.gone
      OBVIOUS
    <3>1. j \notin DOMAIN q
      BY <1>9, <2>1
    <3>2. PICK i \in DOMAIN r : z[j] = r[i]
      BY <1>9, <3>1
    <3>. QED
      BY <1>3, <1>8, <3>2
  <2>4. \A j \in DOMAIN w.held : w.held[j].type = "DISCONNECT" => u.gone
    BY <1>2, <1>3, <2>2
  <2>. QED
    BY <1>1, <1>3, <1>12, <2>3, <2>4, HungTold
<1>16. Good(u, w, a)
  BY <1>2, <1>14, <1>15, FollowsGood
<1>. QED
  BY <1>16 DEF u, w

\* The keys of the next packet are the server's, and it belongs where it comes.
LEMMA KeysMet ==
  ASSUME NEW t, NEW v, NEW a, Good(t, v, a), ~t.gone
  PROVE  /\ \E k \in Nat : Plainly(t.outbound, v, k) \/ Begun(t.outbound, v, k) \/ Switching(t.outbound, v, k)
         /\ t.outbound # <<>> => /\ 1 \in DOMAIN t.outbound
                                 /\ Head(t.outbound) = t.outbound[1]
                                 /\ t.outbound[1].key = v.keysIn
                                 /\ v.exchanging => t.outbound[1].type \in KexTypes
<1> DEFINE o == t.outbound
           Some(k) == Plainly(o, v, k) \/ Begun(o, v, k) \/ Switching(o, v, k)
<1>1. t.keys \in Nat /\ v.keysIn \in Nat /\ IsList(o)
  BY FormedIs DEF Good, Serving
<1>2. \E k \in Nat : Some(k)
  <2>1. CASE Unstarted(t, v, a)
    <3>1. Some(0) /\ 0 \in Nat
      BY <2>1 DEF Unstarted
    <3> HIDE DEF Some
    <3>. QED
      BY <3>1
  <2>2. CASE In(t, v, a)
    <3>1. CASE ToOffer(t, v)
      BY <1>1, <3>1 DEF ToOffer
    <3>2. CASE OfferSent(t, v)
      BY <1>1, <3>2 DEF OfferSent
    <3>3. CASE NothingSent(t, v) \/ GroupAsked(t, v) \/ GroupKnown(t, v) \/ InitSent(t, v)
      BY <1>1, <3>3 DEF NothingSent, GroupAsked, GroupKnown, InitSent, Begun
    <3>4. CASE Confirmed(t, v)
      <4> DEFINE k == t.keys + 1
      <4>1. k \in Nat
        BY <1>1
      <4>2. Open(o, v, k)
        BY <3>4 DEF Confirmed
      <4> HIDE DEF k
      <4>. QED
        BY <4>1, <4>2 DEF Open
    <3>. QED
      BY <2>2, <3>1, <3>2, <3>3, <3>4 DEF In, Exchanging, MakingKeys
  <2>3. CASE Between(t, v, a)
    BY <1>1, <2>3 DEF Between, Calm, Open
  <2>4. CASE Failed(t, v, a)
    BY <1>1, <2>4 DEF Failed, Broken
  <2>5. CASE Freed(t, v, a)
    <3>1. PICK k \in {v.keysIn, v.keysIn + 1} : Some(k)
      BY <2>5 DEF Freed
    <3>2. k \in Nat
      BY <1>1
    <3>. QED
      BY <3>1, <3>2
  <2>. QED
    BY <2>1, <2>2, <2>3, <2>4, <2>5 DEF Good
<1>3. ASSUME o # <<>>
      PROVE  /\ 1 \in DOMAIN o /\ Head(o) = o[1] /\ o[1].key = v.keysIn
             /\ v.exchanging => o[1].type \in KexTypes
  <2>1. 1 \in DOMAIN o /\ Head(o) = o[1]
    BY <1>1, <1>3, TailIs
  <2>2. PICK k \in Nat : Some(k)
    BY <1>2
  <2>3. CASE Plainly(o, v, k)
    BY <2>1, <2>3 DEF Plainly
  <2>4. CASE Proposed(o, v, k)
    BY <2>1, <2>4 DEF Proposed
  <2>5. CASE Within(o, v, k)
    BY <2>1, <2>5 DEF Within, Inits, KexTypes
  <2>6. CASE Switching(o, v, k)
    BY <2>1, <2>6 DEF Switching, KexTypes
  <2>. QED
    BY <2>2, <2>3, <2>4, <2>5, <2>6, <2>1 DEF Begun
<1>. QED
  BY <1>2, <1>3

-----------------------------------------------------------------------------
(* The server's part in an exchange. *)

\* It says nothing but what belongs to the exchange.
Quietly(t, x, now, unread, closes, u, w) ==
  /\ Under(t, u) /\ u.outbound = unread /\ u.inbound = t.inbound \o now
  /\ FormedServer(w) /\ SameServer(x, w) /\ w.held = x.held
  /\ w.undeciphered = x.undeciphered /\ w.strayed = x.strayed

LEMMA QuietIs ==
  ASSUME NEW t, Formed(t), NEW x, FormedServer(x), NEW now, ArePackets(now),
         NEW unread, ArePackets(unread), NEW closes
  PROVE  Quietly(t, x, now, unread, closes, Told(t, x, now, <<>>, unread, closes), Became(x, <<>>))
<1> DEFINE say == <<>>
           u == Told(t, x, now, say, unread, closes)
           w == Became(x, say)
           q == IF x.offered THEN <<>> ELSE Sealed(x, say)
           p == t.inbound \o now
<1>1. ArePackets(say) /\ q = <<>> /\ IsList(x.held)
  BY TalkNone, NoneSealed DEF Talk, FormedServer, ArePackets
<1>2. Tells(t, x, now, say, unread, closes, u)
  BY <1>1, ToldIs
<1>3. /\ FormedServer(w) /\ SameServer(x, w)
      /\ w.undeciphered = x.undeciphered /\ w.strayed = x.strayed
      /\ w.held = IF x.offered THEN x.held \o say ELSE x.held
  BY <1>1, BecameIs
<1>4. x.held \o say = x.held
  BY <1>1, NoneJoined
<1> HIDE DEF u, w
<1>5. Under(t, u) /\ u.outbound = unread /\ u.inbound = p \o q /\ ArePackets(p)
  BY <1>2 DEF Tells
<1> HIDE DEF p, q
<1>6. u.inbound = p
  BY <1>1, <1>5, NoneJoined DEF ArePackets
<1>7. Quietly(t, x, now, unread, closes, u, w)
  BY <1>3, <1>4, <1>5, <1>6 DEF Quietly, p
<1>. QED
  BY <1>7 DEF u, w

LEMMA HungQuiet ==
  ASSUME NEW t, Formed(t), NEW v, Hung(t, v), ~t.gone, NEW u, Under(t, u), NEW now, ArePackets(now),
         u.inbound = t.inbound \o now, \A j \in DOMAIN now : now[j].type # "DISCONNECT",
         NEW w, w.held = v.held \/ w.held = <<>>
  PROVE  Hung(u, w)
<1> DEFINE q == t.inbound
           z == q \o now
<1>1. IsList(q) /\ IsList(now)
  BY FormedIs DEF ArePackets
<1>2. Joint(q, now, z)
  BY <1>1, JoinedHas
<1> HIDE DEF z
<1>3. \A j \in DOMAIN q : q[j].type # "DISCONNECT"
  BY DEF Hung
<1>4. \A j \in DOMAIN v.held : v.held[j].type # "DISCONNECT"
  BY DEF Hung
<1>5. \A j \in DOMAIN z : z[j].type # "DISCONNECT"
  BY <1>2, <1>3 DEF Joint
<1>6. \A j \in DOMAIN w.held : w.held[j].type # "DISCONNECT"
  BY <1>4
<1>7. u.inbound = z
  BY DEF z
<1>. QED
  BY <1>5, <1>6, <1>7, HungTold

LEMMA HeadIs ==
  ASSUME NEW t, Formed(t), t.outbound # <<>>
  PROVE  /\ Head(t.outbound) = t.outbound[1] /\ ArePackets(Tail(t.outbound)) /\ 1 \in DOMAIN t.outbound
         /\ ArePackets(<<>>) /\ t.inbound \o <<>> = t.inbound
BY PacketsTail, TalkNone, NoneJoined, FormedIs DEF Formed, Talk

\* It takes libssh2's offer.
LEMMA OfferGood ==
  ASSUME NEW t, NEW v, NEW a, Good(t, v, a), ~t.gone, t.outbound # <<>>,
         Head(t.outbound).type = "KEXINIT", NEW x, x = [v EXCEPT !.exchanging = TRUE], NEW closes
  PROVE  Good(Told(t, x, <<>>, <<>>, Tail(t.outbound), closes), Became(x, <<>>), a)
<1> DEFINE now == <<>>
           unread == Tail(t.outbound)
           u == Told(t, x, now, <<>>, unread, closes)
           w == Became(x, <<>>)
<1>1. /\ Formed(t) /\ Serving(v) /\ Hung(t, v) /\ FormedServer(v)
      /\ t.outbound[1].type = "KEXINIT" /\ ArePackets(unread) /\ ArePackets(now) /\ t.inbound \o now = t.inbound
  BY HeadIs DEF Good, Serving
<1>2. /\ FormedServer(x) /\ x.held = v.held /\ x.keysIn = v.keysIn /\ x.keysOut = v.keysOut
      /\ x.offered = v.offered /\ x.undeciphered = v.undeciphered /\ x.strayed = v.strayed /\ x.exchanging = TRUE
  BY <1>1, FieldsAre DEF FormedServer
<1> HIDE DEF unread, now
<1>3. Quietly(t, x, now, unread, closes, u, w)
  BY <1>1, <1>2, QuietIs
<1> HIDE DEF u, w
<1>4. /\ Under(t, u) /\ u.outbound = unread /\ u.inbound = t.inbound \o now
      /\ FormedServer(w) /\ w.held = v.held
      /\ w.keysIn = v.keysIn /\ w.keysOut = v.keysOut /\ w.offered = v.offered /\ w.exchanging
      /\ w.undeciphered = v.undeciphered /\ w.strayed = v.strayed
  BY <1>2, <1>3 DEF Quietly, SameServer
<1>5. Hung(u, w)
  <2>1. \A j \in DOMAIN now : now[j].type # "DISCONNECT"
    BY EmptySeq DEF now
  <2>. QED
    BY <1>1, <1>4, <2>1, HungQuiet
<1>6. Serving(w)
  BY <1>1, <1>4 DEF Serving
<1>7. TakesOffer(t, v, u, w)
  BY <1>1, <1>4 DEF TakesOffer, unread
<1>8. Follows(t, v, u, w)
  BY <1>1, <1>7, OfferFollows
<1>9. Good(u, w, a)
  BY <1>5, <1>6, <1>8, FollowsGood
<1>. QED
  BY <1>9 DEF u, w, unread, now

\* It takes libssh2's NEWKEYS.
LEMMA SwitchGood ==
  ASSUME NEW t, NEW v, NEW a, Good(t, v, a), ~t.gone, t.outbound # <<>>,
         Head(t.outbound).type = "NEWKEYS", NEW x, x = [v EXCEPT !.exchanging = FALSE, !.keysIn = @ + 1], NEW closes
  PROVE  Good(Told(t, x, <<>>, <<>>, Tail(t.outbound), closes), Became(x, <<>>), a)
<1> DEFINE now == <<>>
           unread == Tail(t.outbound)
           u == Told(t, x, now, <<>>, unread, closes)
           w == Became(x, <<>>)
<1>1. /\ Formed(t) /\ Serving(v) /\ Hung(t, v) /\ FormedServer(v) /\ v.keysIn \in Nat
      /\ t.outbound[1].type = "NEWKEYS" /\ ArePackets(unread) /\ ArePackets(now) /\ t.inbound \o now = t.inbound
  BY HeadIs DEF Good, Serving
<1>2. /\ FormedServer(x) /\ x.held = v.held /\ x.keysIn = v.keysIn + 1 /\ x.keysOut = v.keysOut
      /\ x.offered = v.offered /\ x.undeciphered = v.undeciphered /\ x.strayed = v.strayed /\ x.exchanging = FALSE
  BY <1>1, FieldsAre DEF FormedServer
<1> HIDE DEF unread, now
<1>3. Quietly(t, x, now, unread, closes, u, w)
  BY <1>1, <1>2, QuietIs
<1> HIDE DEF u, w
<1>4. /\ Under(t, u) /\ u.outbound = unread /\ u.inbound = t.inbound \o now
      /\ FormedServer(w) /\ w.held = v.held
      /\ w.keysIn = v.keysIn + 1 /\ w.keysOut = v.keysOut /\ w.offered = v.offered /\ ~w.exchanging
      /\ w.undeciphered = v.undeciphered /\ w.strayed = v.strayed
  BY <1>2, <1>3 DEF Quietly, SameServer
<1>5. Hung(u, w)
  <2>1. \A j \in DOMAIN now : now[j].type # "DISCONNECT"
    BY EmptySeq DEF now
  <2>. QED
    BY <1>1, <1>4, <2>1, HungQuiet
<1>6. Serving(w)
  <2>1. w.keysIn \in Nat
    BY <1>1, <1>4
  <2>. QED
    BY <1>1, <1>4, <2>1 DEF Serving
<1>7. Switches(t, v, u, w)
  BY <1>1, <1>4 DEF Switches, unread
<1>8. Follows(t, v, u, w)
  BY <1>1, <1>7, KeysMet, SwitchFollows
<1>9. Good(u, w, a)
  BY <1>5, <1>6, <1>8, FollowsGood
<1>. QED
  BY <1>9 DEF u, w, unread, now

LEMMA OneEnds ==
  ASSUME NEW q, IsList(q), NEW y, IsList(y), DOMAIN y = {1}
  PROVE  Ends(q, q \o y, y[1])
<1> DEFINE x == q \o y
           n == Len(q)
<1>1. Joint(q, y, x)
  BY JoinedHas
<1>2. n \in Nat /\ DOMAIN q = 1..n
  BY ListHas
<1>3. Len(y) = 1
  <2> DEFINE m == Len(y)
  <2>1. m \in Nat /\ 1..m = {1}
    BY ListHas
  <2> HIDE DEF m
  <2>2. m = 1
    BY <2>1
  <2>. QED
    BY <2>2 DEF m
<1> HIDE DEF x
<1>4. /\ IsList(x) /\ Len(x) = n + 1 /\ n + 1 \in DOMAIN x /\ x[n + 1] = y[1]
      /\ \A j \in DOMAIN q : j \in DOMAIN x /\ x[j] = q[j]
      /\ \A j \in DOMAIN x : j \notin DOMAIN q => j = n + 1
  BY <1>1, <1>3 DEF Joint
<1>5. \A j \in DOMAIN q : j # n + 1
  BY <1>2
<1>6. Ends(q, x, y[1])
  BY <1>4, <1>5 DEF Ends
<1>. QED
  BY <1>6 DEF x

\* The one packet y, sealed.
IsSealed(v, kind, n, y) ==
  /\ ArePackets(y) /\ IsList(y) /\ DOMAIN y = {1}
  /\ y[1].type = kind /\ y[1].n = n /\ y[1].key = v.keysOut

LEMMA SealedOne ==
  ASSUME NEW v, NEW kind, NEW a, NEW b, NEW d, NEW e
  PROVE  IsSealed(v, kind, b, Sealed(v, <<Packet(kind, a, b, d, e)>>))
<1> DEFINE p == Packet(kind, a, b, d, e)
           z == <<p>>
           y == Sealed(v, z)
<1>1. IsPacket(p) /\ p.type = kind /\ p.n = b
  BY PacketIs, PacketNumber
<1> HIDE DEF p
<1>2. IsList(z) /\ DOMAIN z = {1} /\ z[1] = p
  BY OneIs
<1> HIDE DEF z
<1>3. ArePackets(z)
  BY <1>1, <1>2 DEF ArePackets
<1>4. /\ ArePackets(y) /\ DOMAIN y = DOMAIN z
      /\ \A j \in DOMAIN y : y[j].type = z[j].type /\ y[j].n = z[j].n /\ y[j].key = v.keysOut
  BY <1>3, SealedIs
<1> HIDE DEF y
<1>5. IsSealed(v, kind, b, y)
  BY <1>1, <1>2, <1>4 DEF ArePackets, IsSealed
<1>. QED
  BY <1>5 DEF y, z, p

-----------------------------------------------------------------------------
LEMMA GroupGood ==
  ASSUME NEW t, NEW v, NEW a, Good(t, v, a), ~t.gone, t.outbound # <<>>,
         Head(t.outbound).type = "GEX_REQUEST", NEW closes
  PROVE  Good(Told(t, v, Sealed(v, <<Plain("GEX_GROUP")>>), <<>>, Tail(t.outbound), closes), Became(v, <<>>), a)
<1> DEFINE now == Sealed(v, <<Plain("GEX_GROUP")>>)
           unread == Tail(t.outbound)
           u == Told(t, v, now, <<>>, unread, closes)
           w == Became(v, <<>>)
<1>1. /\ Formed(t) /\ Serving(v) /\ Hung(t, v) /\ FormedServer(v) /\ v.keysIn \in Nat /\ t.keys \in Nat
      /\ t.outbound[1].type = "GEX_REQUEST" /\ ArePackets(unread) /\ IsList(t.inbound)
  BY HeadIs, FormedIs DEF Good, Serving
<1>2. /\ ArePackets(now) /\ IsList(now) /\ DOMAIN now = {1}
      /\ now[1].type = "GEX_GROUP" /\ now[1].key = v.keysOut
  <2>1. IsSealed(v, "GEX_GROUP", 0, now)
    BY SealedOne DEF Plain
  <2> HIDE DEF now
  <2>. QED
    BY <2>1 DEF IsSealed
<1> HIDE DEF unread, now
<1>3. Quietly(t, v, now, unread, closes, u, w)
  BY <1>1, <1>2, QuietIs
<1> HIDE DEF u, w
<1>4. /\ Under(t, u) /\ u.outbound = unread /\ u.inbound = t.inbound \o now
      /\ FormedServer(w) /\ w.held = v.held
      /\ w.keysIn = v.keysIn /\ w.keysOut = v.keysOut /\ w.offered = v.offered /\ w.exchanging = v.exchanging
      /\ w.undeciphered = v.undeciphered /\ w.strayed = v.strayed
  BY <1>3 DEF Quietly, SameServer
<1>5. Hung(u, w)
  <2>1. \A j \in DOMAIN now : now[j].type # "DISCONNECT"
    BY <1>2
  <2>. QED
    BY <1>1, <1>2, <1>4, <2>1, HungQuiet
<1>6. Serving(w)
  BY <1>1, <1>4 DEF Serving
<1>7. Ends(t.inbound, u.inbound, now[1])
  BY <1>1, <1>2, <1>4, OneEnds
<1>8. Takes(t, v, u, w)
  <2>1. \A j \in DOMAIN t.inbound : j \in DOMAIN u.inbound /\ u.inbound[j] = t.inbound[j]
    BY <1>7 DEF Ends
  <2>2. 1 \in DOMAIN u.inbound /\ 1 \notin DOMAIN t.inbound => u.inbound[1].type # "GUESS"
    BY <1>2, <1>7 DEF Ends
  <2>. QED
    BY <1>1, <1>4, <2>1, <2>2 DEF Takes, Inits, unread
<1>9. AnswersGroup(t, v, u, w)
  BY <1>1, <1>2, <1>4, <1>7, <1>8 DEF AnswersGroup
<1>10. MakingKeys(t, v) => MakingKeys(u, w)
  BY <1>1, <1>9, GroupMaking
<1>11. Good(u, w, a)
  BY <1>5, <1>6, <1>8, <1>10, TakesGood
<1>. QED
  BY <1>11 DEF u, w, unread, now

\* What answers libssh2's part of an exchange.
Answer(v, reply, sig) ==
  Sealed(v, <<Packet(reply, 0, 0, 0, sig), Plain("NEWKEYS")>>) \o Sealed([v EXCEPT !.keysOut = @ + 1], v.held)

LEMMA AnswerIs ==
  ASSUME NEW v, Serving(v), NEW reply, NEW sig
  PROVE  LET y == Answer(v, reply, sig)
         IN  /\ ArePackets(y) /\ Len(y) >= 2 /\ 1 \in DOMAIN y /\ 2 \in DOMAIN y
             /\ y[1].type = reply /\ y[2].type = "NEWKEYS" /\ y[1].key = v.keysOut /\ y[2].key = v.keysOut
             /\ \A i \in DOMAIN y : i \notin {1, 2} =>
                  /\ y[i].key = v.keysOut + 1
                  /\ \E j \in DOMAIN v.held : y[i].type = v.held[j].type
<1> DEFINE p == Packet(reply, 0, 0, 0, sig)
           n == Plain("NEWKEYS")
           pn == <<p, n>>
           c == Sealed(v, pn)
           x == [v EXCEPT !.keysOut = @ + 1]
           d == Sealed(x, v.held)
           y == c \o d
<1>1. IsPacket(p) /\ p.type = reply /\ IsPacket(n) /\ n.type = "NEWKEYS"
  BY PacketIs
<1>2. ArePackets(v.held) /\ x.keysOut = v.keysOut + 1
  BY FieldsAre DEF Serving, FormedServer
<1> HIDE DEF p, n, x
<1>3. IsList(pn) /\ DOMAIN pn = {1, 2} /\ Len(pn) = 2 /\ pn[1] = p /\ pn[2] = n
  BY DEF IsList, Range
<1> HIDE DEF pn
<1>4. ArePackets(pn)
  BY <1>1, <1>3 DEF ArePackets
<1>5. /\ ArePackets(c) /\ DOMAIN c = {1, 2} /\ Len(c) = 2
      /\ \A j \in DOMAIN c : c[j].type = pn[j].type /\ c[j].key = v.keysOut
  BY <1>3, <1>4, SealedIs
<1>6. /\ ArePackets(d) /\ DOMAIN d = DOMAIN v.held
      /\ \A j \in DOMAIN d : d[j].type = v.held[j].type /\ d[j].key = v.keysOut + 1
  BY <1>2, SealedIs
<1> HIDE DEF c, d
<1>7. Joint(c, d, y) /\ ArePackets(y)
  BY <1>5, <1>6, JoinedHas, PacketsJoined DEF ArePackets
<1> HIDE DEF y
<1>8. \A i \in DOMAIN y : i \notin {1, 2} => \E j \in DOMAIN d : y[i] = d[j]
  BY <1>5, <1>7 DEF Joint
<1>9. \A j \in {1, 2} : j \in DOMAIN y /\ y[j] = c[j]
  BY <1>5, <1>7 DEF Joint
<1>10. Len(y) >= 2
  BY <1>5, <1>7 DEF Joint
<1>11. /\ y[1].type = reply /\ y[2].type = "NEWKEYS" /\ y[1].key = v.keysOut /\ y[2].key = v.keysOut
  BY <1>1, <1>3, <1>5, <1>9
<1>12. \A i \in DOMAIN y : i \notin {1, 2} =>
         /\ y[i].key = v.keysOut + 1
         /\ \E j \in DOMAIN v.held : y[i].type = v.held[j].type
  BY <1>6, <1>8
<1>. QED
  BY <1>7, <1>9, <1>10, <1>11, <1>12 DEF y, d, c, pn, p, n, x, Answer

LEMMA ReplyGood ==
  ASSUME NEW t, NEW v, NEW a, Good(t, v, a), ~t.gone, t.outbound # <<>>,
         NEW reply,
         \/ Head(t.outbound).type = "KEXDH_INIT" /\ reply = "KEXDH_REPLY"
         \/ Head(t.outbound).type = "GEX_INIT" /\ reply = "GEX_REPLY",
         NEW x, x = [v EXCEPT !.keysOut = @ + 1, !.offered = FALSE, !.held = <<>>], NEW sig, NEW closes
  PROVE  Good(Told(t, x, Answer(v, reply, sig), <<>>, Tail(t.outbound), closes), Became(x, <<>>), a)
<1> DEFINE now == Answer(v, reply, sig)
           unread == Tail(t.outbound)
           u == Told(t, x, now, <<>>, unread, closes)
           w == Became(x, <<>>)
<1>1. /\ Formed(t) /\ Serving(v) /\ Hung(t, v) /\ FormedServer(v) /\ v.keysIn \in Nat /\ t.keys \in Nat
      /\ t.outbound[1] = Head(t.outbound) /\ ArePackets(unread) /\ IsList(t.inbound) /\ ArePackets(<<>>)
  BY HeadIs, FormedIs DEF Good, Serving
<1>2. /\ FormedServer(x) /\ x.held = <<>> /\ x.keysIn = v.keysIn /\ x.keysOut = v.keysOut + 1
      /\ x.offered = FALSE /\ x.undeciphered = v.undeciphered /\ x.strayed = v.strayed
      /\ x.exchanging = v.exchanging
  BY <1>1, FieldsAre DEF FormedServer
<1>3. /\ ArePackets(now) /\ Len(now) >= 2 /\ 1 \in DOMAIN now /\ 2 \in DOMAIN now
      /\ now[1].type = reply /\ now[2].type = "NEWKEYS" /\ now[1].key = v.keysOut /\ now[2].key = v.keysOut
      /\ \A i \in DOMAIN now : i \notin {1, 2} =>
           /\ now[i].key = v.keysOut + 1
           /\ \E j \in DOMAIN v.held : now[i].type = v.held[j].type
  BY <1>1, AnswerIs
<1> HIDE DEF unread, now
<1>4. Quietly(t, x, now, unread, closes, u, w)
  BY <1>1, <1>2, <1>3, QuietIs
<1> HIDE DEF u, w
<1>5. /\ Under(t, u) /\ u.outbound = unread /\ u.inbound = t.inbound \o now
      /\ FormedServer(w) /\ w.held = <<>>
      /\ w.keysIn = v.keysIn /\ w.keysOut = v.keysOut + 1 /\ ~w.offered /\ w.exchanging = v.exchanging
      /\ w.undeciphered = v.undeciphered /\ w.strayed = v.strayed
  BY <1>2, <1>4 DEF Quietly, SameServer
<1>6. \A j \in DOMAIN v.held : v.held[j].type \notin Awaited /\ v.held[j].type # "DISCONNECT"
  BY <1>1 DEF Serving, Hung
<1>7. Hung(u, w)
  <2>1. \A j \in DOMAIN now : now[j].type # "DISCONNECT"
    BY <1>3, <1>6
  <2>2. ArePackets(now) /\ w.held = <<>> /\ u.inbound = t.inbound \o now /\ Under(t, u)
    BY <1>3, <1>5
  <2>. QED
    BY <1>1, <2>1, <2>2, HungQuiet
<1>8. Serving(w)
  BY <1>1, <1>5 DEF Serving
<1> DEFINE q == t.inbound
           z == u.inbound
           n == Len(q)
<1>9. Joint(q, now, z) /\ n \in Nat /\ DOMAIN q = 1..n /\ IsList(now) /\ DOMAIN now = 1..Len(now) /\ Len(now) \in Nat
  BY <1>1, <1>3, <1>5, JoinedHas, ListHas DEF ArePackets
<1>10. t.outbound[1].type \in Inits /\ t.outbound[1].type # "GEX_REQUEST"
       /\ reply = (IF t.outbound[1].type = "GEX_INIT" THEN "GEX_REPLY" ELSE "KEXDH_REPLY")
       /\ reply # "GUESS"
  BY <1>1 DEF Inits
<1>11. Takes(t, v, u, w)
  <2>1. \A j \in DOMAIN q : j \in DOMAIN z /\ z[j] = q[j]
    BY <1>9 DEF Joint
  <2>2. 1 \in DOMAIN z /\ 1 \notin DOMAIN q => z[1].type # "GUESS"
    <3> SUFFICES ASSUME 1 \in DOMAIN z, 1 \notin DOMAIN q PROVE z[1].type # "GUESS"
      OBVIOUS
    <3>1. PICK i \in DOMAIN now : z[1] = now[i] /\ 1 = n + i
      BY <1>9 DEF Joint
    <3>2. i = 1
      BY <1>9, <3>1
    <3>. QED
      BY <1>3, <1>10, <3>1, <3>2
  <2>. QED
    BY <1>1, <1>5, <1>10, <2>1, <2>2 DEF Takes, unread
<1>12. \A i \in DOMAIN now : n + i \in DOMAIN z /\ z[n + i] = now[i]
  BY <1>9 DEF Joint
<1>13. Len(z) >= n + 2
  BY <1>3, <1>9 DEF Joint
<1>14. /\ z[n + 1].type = reply /\ z[n + 2].type = "NEWKEYS"
       /\ z[n + 1].key = v.keysOut /\ z[n + 2].key = v.keysOut
  BY <1>3, <1>12
<1>15. ASSUME NEW j \in DOMAIN z, j > n + 2
       PROVE  z[j].key = v.keysOut + 1 /\ z[j].type \notin Awaited
  <2>1. j \notin DOMAIN q
    BY <1>9, <1>15
  <2>2. PICK i \in DOMAIN now : z[j] = now[i] /\ j = n + i
    BY <1>9, <2>1 DEF Joint
  <2>3. i \notin {1, 2}
    BY <1>9, <1>15, <2>2
  <2>. QED
    BY <1>3, <1>6, <2>2, <2>3
<1>16. AnswersInit(t, v, u, w)
  BY <1>5, <1>10, <1>11, <1>13, <1>14, <1>15 DEF AnswersInit
<1>17. MakingKeys(t, v) => MakingKeys(u, w)
  BY <1>1, <1>16, InitMaking
<1>18. Good(u, w, a)
  BY <1>7, <1>8, <1>11, <1>17, TakesGood
<1>. QED
  BY <1>18 DEF u, w, unread, now

\* It offers a new exchange.
LEMMA RekeyGood ==
  ASSUME NEW t, NEW v, NEW a, Good(t, v, a), ~t.gone, ~v.offered, ~v.exchanging, NEW may,
         NEW x, x = [v EXCEPT !.may = may, !.offered = TRUE], NEW closes
  PROVE  Good(Told(t, x, Sealed(v, <<Packet("KEXINIT", 0, 1, 0, "")>>), <<>>, t.outbound, closes), Became(x, <<>>), a)
<1> DEFINE now == Sealed(v, <<Packet("KEXINIT", 0, 1, 0, "")>>)
           unread == t.outbound
           u == Told(t, x, now, <<>>, unread, closes)
           w == Became(x, <<>>)
<1>1. /\ Formed(t) /\ Serving(v) /\ Hung(t, v) /\ FormedServer(v) /\ v.keysIn \in Nat
      /\ ArePackets(unread) /\ IsList(t.inbound)
  BY FormedIs DEF Good, Serving, Formed
<1>2. /\ ArePackets(now) /\ IsList(now) /\ DOMAIN now = {1}
      /\ now[1].type = "KEXINIT" /\ now[1].n = 1 /\ now[1].key = v.keysOut
  <2>1. IsSealed(v, "KEXINIT", 1, now)
    BY SealedOne
  <2> HIDE DEF now
  <2>. QED
    BY <2>1 DEF IsSealed
<1>3. /\ FormedServer(x) /\ x.held = v.held /\ x.keysIn = v.keysIn /\ x.keysOut = v.keysOut
      /\ x.offered = TRUE /\ x.undeciphered = v.undeciphered /\ x.strayed = v.strayed
      /\ x.exchanging = v.exchanging
  BY <1>1, FieldsAre DEF FormedServer
<1> HIDE DEF unread, now
<1>4. Quietly(t, x, now, unread, closes, u, w)
  BY <1>1, <1>2, <1>3, QuietIs
<1> HIDE DEF u, w
<1>5. /\ Under(t, u) /\ u.outbound = unread /\ u.inbound = t.inbound \o now
      /\ FormedServer(w) /\ w.held = v.held
      /\ w.keysIn = v.keysIn /\ w.keysOut = v.keysOut /\ w.offered /\ ~w.exchanging
      /\ w.undeciphered = v.undeciphered /\ w.strayed = v.strayed
  BY <1>3, <1>4 DEF Quietly, SameServer
<1>6. Hung(u, w)
  <2>1. \A j \in DOMAIN now : now[j].type # "DISCONNECT"
    BY <1>2
  <2>. QED
    BY <1>1, <1>2, <1>5, <2>1, HungQuiet
<1>7. Serving(w)
  BY <1>1, <1>5 DEF Serving
<1>8. Ends(t.inbound, u.inbound, now[1])
  BY <1>1, <1>2, <1>5, OneEnds
<1>9. Proposes(t, v, u, w)
  BY <1>2, <1>5, <1>8 DEF Proposes, unread
<1>10. Follows(t, v, u, w)
  BY <1>1, <1>9, RekeyFollows
<1>11. Good(u, w, a)
  BY <1>6, <1>7, <1>10, FollowsGood
<1>. QED
  BY <1>11 DEF u, w, unread, now

-----------------------------------------------------------------------------
(* The steps of the server. *)

LEMMA SaysIs ==
  ASSUME NEW v, NEW now, NEW say, NEW unread, NEW closes, Says(v, now, say, unread, closes)
  PROVE  s' = Told(s, v, now, say, unread, closes) /\ srv' = Became(v, say) /\ app' = app
BY DEF Says, Told, Became

\* What it notes of a packet.
LEMMA NotedGood ==
  ASSUME NEW t, NEW v, NEW a, Good(t, v, a), ~t.gone, NEW strays, ~strays, NEW x,
         x = [v EXCEPT !.strayed = @ \/ strays]
  PROVE  Good(t, x, a) /\ Retains(x, x)
<1>1. Formed(t) /\ Serving(v) /\ Hung(t, v) /\ FormedServer(v)
  BY DEF Good, Serving
<1>2. /\ FormedServer(x) /\ SameServer(v, x) /\ x.held = v.held
      /\ x.undeciphered = v.undeciphered /\ ~x.strayed
  BY <1>1, FieldsAre DEF FormedServer, SameServer, Serving
<1>3. Serving(x)
  BY <1>1, <1>2 DEF Serving, SameServer
<1>4. Hung(t, x)
  BY <1>1, <1>2 DEF Hung
<1>5. Retains(x, x)
  BY <1>2 DEF Retains, FormedServer
<1>6. Under(t, t)
  BY <1>1 DEF Under, Same, Formed
<1> DEFINE k == v.keysOut
<1>7. Grown(t.inbound, t.inbound, k)
  <2>1. Len(t.inbound) \in Nat /\ IsList(t.inbound)
    BY <1>1, FormedIs, ListHas
  <2>. QED
    BY <2>1 DEF Grown
<1>8. Chat(t, v, t, x)
  BY <1>2, <1>6, <1>7 DEF Chat, Trimmed
<1>9. Follows(t, v, t, x)
  BY <1>1, <1>8, ChatFollows
<1>. QED
  BY <1>3, <1>4, <1>5, <1>9, FollowsGood

\* What comes of the next packet.
LEMMA ReactionGood ==
  ASSUME NEW t, NEW v, NEW a, Good(t, v, a), ~t.gone, t.outbound # <<>>, Retains(v, v),
         NEW x \in Reactions(v, Head(t.outbound)), NEW closes,
         \A j \in DOMAIN x.say : x.say[j].type = "DISCONNECT" => closes
  PROVE  Good(Told(t, x.v, x.now, x.say, Tail(t.outbound), closes), Became(x.v, x.say), a)
<1> DEFINE p == Head(t.outbound)
           unread == Tail(t.outbound)
<1>1. t.outbound[1] = p
  BY HeadIs DEF Good
<1>2. CASE p.type \notin Asking
  <2>1. Fine(v, x)
    BY <1>2, ReactionsFine
  <2>2. x.now = <<>> /\ Talk(x.say) /\ Retains(v, x.v)
    BY <2>1 DEF Fine
  <2>3. Trimmed(t.outbound, unread)
    BY <1>1, <1>2 DEF Trimmed
  <2> HIDE DEF unread, p
  <2>4. Good(Told(t, x.v, <<>>, x.say, unread, closes), Became(x.v, x.say), a)
    BY <2>2, <2>3, ChatGood
  <2>. QED
    BY <2>2, <2>4 DEF unread
<1>3. CASE p.type = "KEXINIT"
  <2> DEFINE w == [v EXCEPT !.exchanging = TRUE]
  <2>1. x = Rx(w, <<>>)
    BY <1>3, ExchangeReactionIs
  <2>2. Good(Told(t, w, <<>>, <<>>, Tail(t.outbound), closes), Became(w, <<>>), a)
    BY <1>3, OfferGood
  <2> HIDE DEF w
  <2>3. x.v = w /\ x.now = <<>> /\ x.say = <<>>
    BY <2>1 DEF Rx
  <2>. QED
    BY <2>2, <2>3
<1>4. CASE p.type = "NEWKEYS"
  <2> DEFINE w == [v EXCEPT !.exchanging = FALSE, !.keysIn = @ + 1]
  <2>1. x = Rx(w, <<>>)
    BY <1>4, ExchangeReactionIs
  <2>2. Good(Told(t, w, <<>>, <<>>, Tail(t.outbound), closes), Became(w, <<>>), a)
    BY <1>4, SwitchGood
  <2> HIDE DEF w
  <2>3. x.v = w /\ x.now = <<>> /\ x.say = <<>>
    BY <2>1 DEF Rx
  <2>. QED
    BY <2>2, <2>3
<1>5. CASE p.type = "GEX_REQUEST"
  <2> DEFINE now == Sealed(v, <<Plain("GEX_GROUP")>>)
  <2>1. x = RxKex(v, now)
    BY <1>5, ExchangeReactionIs
  <2>2. Good(Told(t, v, now, <<>>, Tail(t.outbound), closes), Became(v, <<>>), a)
    BY <1>5, GroupGood
  <2> HIDE DEF now
  <2>3. x.v = v /\ x.now = now /\ x.say = <<>>
    BY <2>1 DEF RxKex
  <2>. QED
    BY <2>2, <2>3
<1>6. CASE p.type \in {"KEXDH_INIT", "GEX_INIT"}
  <2> DEFINE w == [v EXCEPT !.keysOut = @ + 1, !.offered = FALSE, !.held = <<>>]
  <2>1. PICK reply : /\ \/ p.type = "KEXDH_INIT" /\ reply = "KEXDH_REPLY"
                        \/ p.type = "GEX_INIT" /\ reply = "GEX_REPLY"
                     /\ x \in AnswerDh(v, reply)
    <3>1. CASE p.type = "KEXDH_INIT"
      <4>1. x \in AnswerDh(v, "KEXDH_REPLY")
        BY <3>1, ExchangeReactionIs
      <4>. QED
        BY <3>1, <4>1
    <3>2. CASE p.type = "GEX_INIT"
      <4>1. x \in AnswerDh(v, "GEX_REPLY")
        BY <3>2, ExchangeReactionIs
      <4>. QED
        BY <3>2, <4>1
    <3>. QED
      BY <1>6, <3>1, <3>2
  <2>2. PICK sig : x = RxKex(w, Answer(v, reply, sig))
    BY <2>1 DEF AnswerDh, Answer
  <2> DEFINE now == Answer(v, reply, sig)
  <2>3. Good(Told(t, w, now, <<>>, Tail(t.outbound), closes), Became(w, <<>>), a)
    BY <2>1, ReplyGood
  <2> HIDE DEF w, now
  <2>4. x.v = w /\ x.now = now /\ x.say = <<>>
    BY <2>2 DEF RxKex, now
  <2>. QED
    BY <2>3, <2>4
<1>. QED
  BY <1>2, <1>3, <1>4, <1>5, <1>6 DEF Asking, Inits

LEMMA ServeKeeps ==
  ASSUME Good(s, srv, app), Serve
  PROVE  app' = app /\ Good(s', srv', app')
<1> DEFINE p == Head(s.outbound)
           strays == srv.exchanging /\ p.type \notin KexTypes
           v == [srv EXCEPT !.strayed = @ \/ strays]
<1>1. s.outbound # <<>> /\ ~s.gone
  BY DEF Serve
<1>2. p = s.outbound[1] /\ p.key = srv.keysIn /\ ~strays
  BY <1>1, KeysMet
<1>3. PICK x \in Reactions(v, p) :
        Says(x.v, x.now, x.say, Tail(s.outbound),
             \E q \in {p} \cup Range(x.say) : q.type = "DISCONNECT")
  BY <1>2 DEF Serve
<1>4. Good(s, v, app) /\ Retains(v, v)
  <2> HIDE DEF strays
  <2>. QED
    BY <1>1, <1>2, NotedGood
<1> HIDE DEF strays, v
<1> DEFINE closes == \E q \in {p} \cup Range(x.say) : q.type = "DISCONNECT"
<1>5. \A j \in DOMAIN x.say : x.say[j].type = "DISCONNECT" => closes
  BY DEF Range
<1>6. Says(x.v, x.now, x.say, Tail(s.outbound), closes)
  BY <1>3
<1> HIDE DEF closes
<1>7. Good(Told(s, x.v, x.now, x.say, Tail(s.outbound), closes), Became(x.v, x.say), app)
  BY <1>1, <1>4, <1>5, ReactionGood
<1>8. /\ s' = Told(s, x.v, x.now, x.say, Tail(s.outbound), closes)
      /\ srv' = Became(x.v, x.say) /\ app' = app
  BY <1>6, SaysIs
<1>. QED
  BY <1>7, <1>8

LEMMA SaidKeeps ==
  ASSUME Good(s, srv, app), ~s.gone, NEW x, Retains(srv, x), NEW say, Talk(say), NEW closes,
         \A j \in DOMAIN say : say[j].type = "DISCONNECT" => closes,
         Says(x, <<>>, say, s.outbound, closes)
  PROVE  app' = app /\ Good(s', srv', app')
<1>1. Trimmed(s.outbound, s.outbound)
  BY DEF Trimmed
<1>2. Good(Told(s, x, <<>>, say, s.outbound, closes), Became(x, say), app)
  BY <1>1, ChatGood
<1>3. /\ s' = Told(s, x, <<>>, say, s.outbound, closes)
      /\ srv' = Became(x, say) /\ app' = app
  BY SaysIs
<1>. QED
  BY <1>2, <1>3

LEMMA RetainsAll ==
  ASSUME NEW t, NEW v, NEW a, Good(t, v, a)
  PROVE  Retains(v, v)
BY DEF Good, Serving, FormedServer, Retains

LEMMA FreelyKeeps ==
  ASSUME Good(s, srv, app), NEW S, Freely(S), \A x \in S : Utters(srv, x)
  PROVE  app' = app /\ Good(s', srv', app')
<1>1. ~s.gone
  BY DEF Freely
<1>2. PICK x \in S : Says(x.v, <<>>, x.say, s.outbound, FALSE)
  BY DEF Freely
<1>3. Talk(x.say) /\ Retains(srv, x.v) /\ \A j \in DOMAIN x.say : x.say[j].type = "DISCONNECT" => FALSE
  BY DEF Utters
<1>. QED
  BY <1>1, <1>2, <1>3, SaidKeeps

LEMMA ServerKeeps ==
  ASSUME Good(s, srv, app), Serve \/ SendData \/ Adjust \/ Finish \/ Offering \/ Rekey \/ HangUp \/ Drop
  PROVE  app' = app /\ Good(s', srv', app')
<1>1. Retains(srv, srv)
  BY RetainsAll
<1>2. CASE Serve
  BY <1>2, ServeKeeps
<1>3. CASE SendData
  <2> DEFINE S == UNION {DataSent(srv, c) : c \in DOMAIN srv.chan}
  <2>1. \A x \in S : Utters(srv, x)
    BY <1>1, DataFree
  <2>2. Freely(S)
    BY <1>3 DEF SendData
  <2> HIDE DEF S
  <2>. QED
    BY <2>1, <2>2, FreelyKeeps
<1>4. CASE Adjust
  <2> DEFINE S == UNION {Adjusted(srv, c) : c \in DOMAIN srv.chan}
  <2>1. \A x \in S : Utters(srv, x)
    BY <1>1, AdjustFree
  <2>2. Freely(S)
    BY <1>4 DEF Adjust
  <2> HIDE DEF S
  <2>. QED
    BY <2>1, <2>2, FreelyKeeps
<1>5. CASE Finish
  <2> DEFINE S == UNION {Finished(srv, c) : c \in DOMAIN srv.chan}
  <2>1. \A x \in S : Utters(srv, x)
    BY <1>1, FinishFree
  <2>2. Freely(S)
    BY <1>5 DEF Finish
  <2> HIDE DEF S
  <2>. QED
    BY <2>1, <2>2, FreelyKeeps
<1>6. CASE Offering
  <2>1. \A x \in Offered(srv) : Utters(srv, x)
    BY <1>1, OfferedFree
  <2>2. Freely(Offered(srv))
    BY <1>6 DEF Offering
  <2>. QED
    BY <2>1, <2>2, FreelyKeeps
<1>7. CASE Rekey
  <2> DEFINE may == srv.may \ {"rekey"}
             x == [srv EXCEPT !.may = may, !.offered = TRUE]
             now == Sealed(srv, <<Packet("KEXINIT", 0, 1, 0, "")>>)
  <2>1. ~s.gone /\ ~srv.offered /\ ~srv.exchanging /\ Says(x, now, <<>>, s.outbound, FALSE)
    BY <1>7 DEF Rekey
  <2> HIDE DEF may
  <2>2. Good(Told(s, x, now, <<>>, s.outbound, FALSE), Became(x, <<>>), app)
    BY <2>1, RekeyGood
  <2> HIDE DEF x, now
  <2>3. s' = Told(s, x, now, <<>>, s.outbound, FALSE) /\ srv' = Became(x, <<>>) /\ app' = app
    BY <2>1, SaysIs
  <2>. QED
    BY <2>2, <2>3
<1>8. CASE HangUp
  <2> DEFINE x == [srv EXCEPT !.may = {}]
             say == <<Plain("DISCONNECT")>>
  <2>1. ~s.gone /\ Says(x, <<>>, say, s.outbound, TRUE)
    BY <1>8 DEF HangUp
  <2>2. Retains(srv, x)
    BY <1>1, KeepsElsewhere
  <2>3. "DISCONNECT" \notin Spoken
    BY DEF Spoken, Awaited
  <2>4. Talk(say)
    BY <2>3, TalkOne DEF Plain
  <2> HIDE DEF x, say
  <2>. QED
    BY <2>1, <2>2, <2>4, SaidKeeps
<1>9. CASE Drop
  <2> DEFINE x == [srv EXCEPT !.may = {}]
             say == <<>>
  <2>1. ~s.gone /\ Says(x, <<>>, say, s.outbound, TRUE)
    BY <1>9 DEF Drop
  <2>2. Retains(srv, x)
    BY <1>1, KeepsElsewhere
  <2>3. Talk(say)
    BY TalkNone
  <2> HIDE DEF x, say
  <2>. QED
    BY <2>1, <2>2, <2>3, SaidKeeps
<1>. QED
  BY <1>2, <1>3, <1>4, <1>5, <1>6, <1>7, <1>8, <1>9

-----------------------------------------------------------------------------
(* Where an exchange has been left nothing more is said. *)

LEMMA LeftStays ==
  ASSUME DOMAIN app = AppFields, NEW net, Run(net)
  PROVE  DOMAIN app' = AppFields /\ (app.left => app'.left)
<1> DEFINE r == Step(s, Now.op, On, Now.arg, net)
           a == IF r.rc = "MORE" THEN app ELSE Returned(r)
<1>1. app' = [a EXCEPT !.parts = IF net = "whole" THEN @ ELSE @ - 1,
                    !.left = @ \/ Leaves(r, net),
                    !.lossy = @ \cup Waiting(r.s)]
  BY Zenon DEF Run
<1> HIDE DEF r
<1>2. DOMAIN a = AppFields /\ a.left = app.left
  <2>1. CASE r.rc = "MORE"
    BY <2>1
  <2>2. CASE r.rc # "MORE"
    <3>1. a = Returned(r)
      BY <2>2
    <3> HIDE DEF a
    <3>. QED
      BY <3>1, ReturnedIs
  <2>. QED
    BY <2>1, <2>2
<1> HIDE DEF a
<1>3. DOMAIN app' = AppFields /\ app'.left = (a.left \/ Leaves(r, net))
  BY <1>1, <1>2 DEF AppFields
<1>. QED
  BY <1>2, <1>3, Zenon

LEMMA RunInv ==
  ASSUME ~Offers[1].follows, KeyInv, NEW net, Run(net)
  PROVE  KeyInv'
<1>1. DOMAIN app' = AppFields /\ (app.left => app'.left)
  BY LeftStays DEF KeyInv
<1>2. CASE app.left
  BY <1>1, <1>2 DEF KeyInv
<1>3. CASE app'.left
  BY <1>1, <1>3 DEF KeyInv
<1>4. CASE ~app.left /\ ~app'.left
  BY <1>4, RunKeeps DEF KeyInv
<1>. QED
  BY <1>2, <1>3, <1>4

LEMMA BeginLeft ==
  ASSUME DOMAIN app = AppFields, Begin
  PROVE  DOMAIN app' = AppFields /\ app'.left = app.left
BY DEF Begin, AppFields

LEMMA ServerLeft ==
  ASSUME Serve \/ SendData \/ Adjust \/ Finish \/ Offering \/ Rekey \/ HangUp \/ Drop
  PROVE  app' = app
<1>1. ASSUME NEW v, NEW kex, NEW say, NEW outbound, NEW closes, Says(v, kex, say, outbound, closes)
      PROVE  app' = app
  BY <1>1 DEF Says
<1>2. ASSUME NEW S, Freely(S) PROVE app' = app
  BY <1>1, <1>2 DEF Freely
<1>3. CASE Serve
  BY <1>1, <1>3, Zenon DEF Serve
<1>4. CASE SendData
  BY <1>2, <1>4 DEF SendData
<1>5. CASE Adjust
  BY <1>2, <1>5 DEF Adjust
<1>6. CASE Finish
  BY <1>2, <1>6 DEF Finish
<1>7. CASE Offering
  BY <1>2, <1>7 DEF Offering
<1>8. CASE Rekey
  BY <1>1, <1>8, Zenon DEF Rekey
<1>9. CASE HangUp
  BY <1>1, <1>9, Zenon DEF HangUp
<1>10. CASE Drop
  BY <1>1, <1>10, Zenon DEF Drop
<1>. QED
  BY <1>3, <1>4, <1>5, <1>6, <1>7, <1>8, <1>9, <1>10

LEMMA KeyStep ==
  ASSUME ~Offers[1].follows, KeyInv, [Next]_vars
  PROVE  KeyInv'
<1>1. CASE Begin
  <2>1. DOMAIN app' = AppFields /\ app'.left = app.left
    BY <1>1, BeginLeft DEF KeyInv
  <2>. QED
    BY <1>1, <2>1, BeginKeeps DEF KeyInv
<1>2. CASE \E net \in {"whole", "part", "late"} : Run(net)
  BY <1>2, RunInv
<1>3. CASE UNCHANGED vars
  BY <1>3 DEF KeyInv, vars
<1>4. CASE Serve \/ SendData \/ Adjust \/ Finish \/ Offering \/ Rekey \/ HangUp \/ Drop
  <2>1. app' = app
    BY <1>4, ServerLeft
  <2>. QED
    BY <1>4, <2>1, ServerKeeps DEF KeyInv
<1>. QED
  BY <1>1, <1>2, <1>3, <1>4 DEF Next, Done

-----------------------------------------------------------------------------
(* Where a program may begin. *)

LEMMA NoneList == ArePackets(<<>>)
BY DEF ArePackets, IsList, Range

LEMMA FirstServer ==
  ASSUME NEW k \in Nat, NEW may, NEW opens, NEW bytes, NEW ext, NEW v,
         v = NewServer(k, may, opens, bytes, ext)
  PROVE  Serving(v) /\ v.keysIn = k /\ v.keysOut = k /\ v.held = <<>> /\ ~v.exchanging
<1>1. FormedServer(v)
  BY NoneList DEF FormedServer, ServerFields, NewServer
<1>. QED
  BY <1>1 DEF Serving, NewServer

LEMMA FirstProgram ==
  ASSUME NEW x, Usable(x.todo), NoStartup(x.todo) \/ Starts(x.todo), Begins(x), NEW t
  PROVE  /\ DOMAIN app = AppFields /\ app.todo = x.todo /\ ~app.busy /\ s = x.session /\ srv = x.server
         /\ Program(t, app)
<1>1. /\ DOMAIN app = AppFields /\ app.todo = x.todo /\ app.busy = FALSE
      /\ s = x.session /\ srv = x.server
  BY DEF Begins, AppFields
<1>. QED
  BY <1>1 DEF Program

LEMMA NewIdle ==
  ASSUME NEW t, t.at = NewSession.at, NEW op, NEW c
  PROVE  At(t, op, c) = "idle"
BY DEF At, NewSession

LEMMA NoneIn == DOMAIN <<>> = {}
OBVIOUS

\* A server that has said its KEXINIT, and a session whose keys are k.
Announcing(k, may, opens, bytes, ext) == [NewServer(k, may, opens, bytes, ext) EXCEPT !.offered = TRUE]

Underway(k, i) ==
  [NewSession EXCEPT !.state = {"NEWKEYS", "AUTHENTICATED"}, !.keys = k, !.session_id = i]

OffersFirst(v, k) ==
  Serving(v) /\ v.keysIn = k /\ v.keysOut = k /\ v.held = <<>> /\ ~v.exchanging /\ v.offered

SessionFirst(t, k) ==
  /\ t.inbound = <<>> /\ t.outbound = <<>> /\ t.packets = <<>> /\ t.keys = k /\ t.kex = "none"
  /\ t.kexRc = "" /\ t.state = {"NEWKEYS", "AUTHENTICATED"} /\ t.start = {} /\ t.fullpacket = ""
  /\ t.socket_state = "connected" /\ t.at = NewSession.at /\ DOMAIN t = Fields

LEMMA OfferingServer ==
  ASSUME NEW k \in Nat, NEW may, NEW opens, NEW bytes, NEW ext
  PROVE  OffersFirst(Announcing(k, may, opens, bytes, ext), k)
<1> DEFINE v == Announcing(k, may, opens, bytes, ext)
<1>1. FormedServer(v)
  BY NoneList DEF Announcing, FormedServer, ServerFields, NewServer
<1>. QED
  BY <1>1 DEF Announcing, OffersFirst, Serving, NewServer

LEMMA StartedSession ==
  ASSUME NEW k, NEW i
  PROVE  SessionFirst(Underway(k, i), k)
BY DEF SessionFirst, Underway, NewSession, Fields

LEMMA MadeGood ==
  ASSUME NEW x, Usable(x.todo), JustMade(x), Begins(x)
  PROVE  KeyInv
<1> DEFINE q == x.session.inbound
           v == x.server
           w == NewServer(0, v.may, v.opens, v.bytes, v.ext)
<1>1. /\ Starts(x.todo) /\ x.session = [NewSession EXCEPT !.inbound = q]
      /\ IsList(q) /\ \A j \in DOMAIN q : DOMAIN q[j] = PacketFields
      /\ Announced(q, 1, 0) /\ q[1].type # "DISCONNECT"
      /\ v = [w EXCEPT !.offered = TRUE]
  BY DEF JustMade
<1>2. /\ DOMAIN app = AppFields /\ app.todo = x.todo /\ ~app.busy /\ s = x.session /\ srv = v
      /\ Program(s, app)
  BY <1>1, FirstProgram
<1>3. /\ s.inbound = q /\ s.outbound = <<>> /\ s.packets = <<>> /\ s.keys = 0 /\ s.kex = "none"
      /\ s.kexRc = "" /\ s.methods = <<>> /\ s.state = {} /\ s.start = {} /\ s.fullpacket = ""
      /\ s.socket_state = "connected" /\ s.at = NewSession.at /\ DOMAIN s = Fields
  BY <1>1, <1>2 DEF NewSession, Fields
<1>4. ArePackets(q)
  BY <1>1 DEF ArePackets, IsPacket
<1>5. Formed(s)
  BY <1>3, <1>4, NoneList DEF Formed
<1>6. Serving(v) /\ v.keysIn = 0 /\ v.keysOut = 0 /\ v.held = <<>> /\ ~v.exchanging /\ v.offered
  <2>1. v = Announcing(0, v.may, v.opens, v.bytes, v.ext)
    BY <1>1 DEF Announcing
  <2> HIDE DEF v
  <2>2. OffersFirst(v, 0)
    BY <2>1, OfferingServer, 0 \in Nat
  <2>. QED
    BY <2>2 DEF OffersFirst
<1>7. \A op, c : At(s, op, c) = "idle"
  BY <1>3, NewIdle
<1> HIDE DEF q, v, w
<1>8. \A j \in DOMAIN q : q[j].type # "DISCONNECT"
  <2>1. IsList(q)
    BY <1>1
  <2>2. DOMAIN q = 1..Len(q) /\ Len(q) \in Nat
    BY <2>1 DEF IsList
  <2>3. q[2].type = "KEXINIT" /\ \A j \in DOMAIN q : j > 2 => q[j].type = "GUESS"
    BY <1>1 DEF Announced
  <2> SUFFICES ASSUME NEW j \in DOMAIN q PROVE q[j].type # "DISCONNECT"
    OBVIOUS
  <2>4. j = 1 \/ j = 2 \/ j > 2
    BY <2>2
  <2>. QED
    BY <1>1, <2>3, <2>4
<1>9. Hung(s, srv)
  BY <1>2, <1>3, <1>6, <1>8, NoneIn DEF Hung
<1>10. Unstarted(s, srv, app)
  <2>1. StartAt(s) = "idle" /\ Idle(s)
    BY <1>3, <1>7 DEF StartAt, Idle, ExchangeStates
  <2>2. Plainly(s.outbound, srv, 0) /\ Holding(srv, 0)
    BY <1>2, <1>3, <1>6, NoneIn DEF Plainly, Holding
  <2>. QED
    BY <1>1, <1>2, <1>3, <2>1, <2>2 DEF Unstarted
<1>. QED
  BY <1>2, <1>3, <1>5, <1>6, <1>9, <1>10, 0 \in Nat DEF KeyInv, Good

LEMMA BeforeGood ==
  ASSUME NEW x, Usable(x.todo), MadeBefore(x), Begins(x)
  PROVE  KeyInv
<1> DEFINE t == x.session
           v == x.server
           k == t.keys
<1>1. /\ NoStartup(x.todo) /\ k \in Nat
      /\ t = [NewSession EXCEPT !.state = {"NEWKEYS", "AUTHENTICATED"}, !.keys = k,
                                !.session_id = t.session_id]
      /\ v = NewServer(k, v.may, v.opens, v.bytes, v.ext)
  BY DEF MadeBefore
<1>2. /\ DOMAIN app = AppFields /\ app.todo = x.todo /\ ~app.busy /\ s = t /\ srv = v
      /\ Program(s, app)
  BY <1>1, FirstProgram
<1>3. /\ s.inbound = <<>> /\ s.outbound = <<>> /\ s.packets = <<>> /\ s.keys = k /\ s.kex = "none"
      /\ s.kexRc = "" /\ s.state = {"NEWKEYS", "AUTHENTICATED"} /\ s.start = {} /\ s.fullpacket = ""
      /\ s.socket_state = "connected" /\ s.at = NewSession.at /\ DOMAIN s = Fields
  <2>1. t = Underway(k, t.session_id)
    BY <1>1 DEF Underway
  <2> HIDE DEF k, t
  <2>2. SessionFirst(t, k)
    BY <2>1, StartedSession
  <2>. QED
    BY <1>2, <2>2 DEF SessionFirst
<1>4. Formed(s)
  BY <1>3, NoneList DEF Formed
<1> HIDE DEF t, v, k
<1>5. Serving(v) /\ v.keysIn = k /\ v.keysOut = k /\ v.held = <<>> /\ ~v.exchanging
  BY <1>1, FirstServer
<1>6. \A op, c : At(s, op, c) = "idle"
  BY <1>3, NewIdle
<1>7. Hung(s, srv)
  BY <1>2, <1>3, <1>5, NoneIn DEF Hung
<1>8. Between(s, srv, app)
  <2>1. Idle(s)
    BY <1>3, <1>6 DEF Idle, ExchangeStates
  <2>2. Flow(s.inbound, 0, srv, k)
    BY <1>2, <1>3, <1>5, NoneIn DEF Flow
  <2>3. Open(s.outbound, srv, k)
    BY <1>2, <1>3, <1>5, NoneIn DEF Plainly, Open
  <2>4. Calm(s, srv)
    BY <1>3, <2>1, <2>2, <2>3, NoneIn DEF Calm, NoneAwaited
  <2>. QED
    BY <1>1, <1>2, <1>3, <2>4 DEF Between, PastExchange
<1>. QED
  BY <1>1, <1>2, <1>3, <1>4, <1>5, <1>7, <1>8 DEF KeyInv, Good

LEMMA KeyInit == ASSUME Init PROVE KeyInv
<1>1. PICK x \in Scenarios : Begins(x)
  BY DEF Init
<1>2. Usable(x.todo) /\ (JustMade(x) \/ MadeBefore(x))
  BY ProgramAssumption
<1>. QED
  BY <1>1, <1>2, MadeGood, BeforeGood

-----------------------------------------------------------------------------
(* What is read first has the session's keys. *)

\* The next packet can be read.
Readable(t) == t.fullpacket # "" \/ t.inbound = <<>> \/ t.inbound[1].key = t.keys

LEMMA InReadable ==
  ASSUME NEW t, NEW v, NEW a, Formed(t), t.keys \in Nat, In(t, v, a)
  PROVE  Readable(t)
<1>1. \A x : KexNext(x) => Readable(x)
  BY DEF KexNext, Readable
<1>2. CASE Called(t)
  <2>1. IsList(t.inbound)
    BY FormedIs
  <2>. QED
    BY <1>2, <2>1, AnnouncedTail DEF Called, Readable
<1>3. CASE MakingKeys(t, v)
  <2>1. OnlyGuess(t.inbound, t.keys) => Readable(t)
    BY <1>1, OnlyGuessNext
  <2>2. CASE NothingSent(t, v)
    BY <2>1, <2>2 DEF NothingSent
  <2>3. CASE GroupAsked(t, v)
    BY <1>1, <2>1, <2>3, GroupCameNext DEF GroupAsked
  <2>4. CASE GroupKnown(t, v)
    BY <2>4 DEF GroupKnown, Readable
  <2>5. CASE InitSent(t, v)
    <3>1. ReplyOf(t) \in {"KEXDH_REPLY", "GEX_REPLY"}
      BY DEF ReplyOf
    <3>2. Replied(t.inbound, v, t.keys, ReplyOf(t)) => Readable(t)
      BY <1>1, <3>1, RepliedNext
    <3>. QED
      BY <2>1, <2>5, <3>2 DEF InitSent
  <2>6. CASE Confirmed(t, v)
    BY <2>6 DEF Confirmed, Readable
  <2>. QED
    BY <1>3, <2>2, <2>3, <2>4, <2>5, <2>6 DEF MakingKeys
<1>. QED
  BY <1>2, <1>3 DEF In, Exchanging, ToOffer, OfferSent

LEMMA FirstReadable ==
  ASSUME NEW t, Formed(t), NEW v, NEW k, Flow(t.inbound, 0, v, k), k = t.keys
  PROVE  Readable(t)
<1>1. t.inbound # <<>> => 1 \in DOMAIN t.inbound
  BY FormedIs, ListHas, TailIs
<1>2. \A j \in DOMAIN t.inbound : j > 0 => t.inbound[j].key = k
  BY DEF Flow
<1>. QED
  BY <1>1, <1>2, 1 > 0 DEF Readable

LEMMA KeyMet == ASSUME KeyInv PROVE KeysAgree
<1>1. CASE app.left
  BY <1>1 DEF KeysAgree
<1>2. CASE Good(s, srv, app)
  <2>1. ~srv.undeciphered /\ ~srv.strayed
    BY <1>2 DEF Good, Serving
  <2>2. Readable(s) \/ s.socket_state = "freed"
    <3>1. CASE Unstarted(s, srv, app)
      <4>1. IsList(s.inbound)
        BY <1>2, FormedIs DEF Good
      <4> DEFINE m == IF StartAt(s) = "sent1" THEN 0 ELSE 1
      <4>2. m \in {0, 1} /\ s.keys = 0 /\ Announced(s.inbound, m, 0)
        BY <3>1 DEF Unstarted
      <4> HIDE DEF m
      <4>. QED
        BY <4>1, <4>2, AnnouncedHas DEF Readable
    <3>2. CASE In(s, srv, app)
      BY <1>2, <3>2, InReadable DEF Good
    <3>3. CASE Between(s, srv, app)
      BY <1>2, <3>3, FirstReadable DEF Between, Calm, Good
    <3>4. CASE Failed(s, srv, app)
      BY <3>4 DEF Failed, Broken, Readable
    <3>5. CASE Freed(s, srv, app)
      BY <3>5 DEF Freed
    <3>. QED
      BY <1>2, <3>1, <3>2, <3>3, <3>4, <3>5 DEF Good
  <2>3. s.inbound # <<>> => Head(s.inbound) = s.inbound[1]
    BY <1>2, FormedIs, ListHas DEF Good
  <2>. QED
    BY <2>1, <2>2, <2>3 DEF KeysAgree, Unreadable, Readable
<1>. QED
  BY <1>1, <1>2 DEF KeyInv

THEOREM KeysStayAgreed == Spec => []KeysAgree
<1>1. Init => KeyInv
  BY KeyInit
<1>2. KeyInv /\ [Next]_vars => KeyInv'
  BY KeyStep, ProgramAssumption
<1>3. KeyInv => KeysAgree
  BY KeyMet
<1>. QED
  BY <1>1, <1>2, <1>3, PTL DEF Spec

=============================================================================
