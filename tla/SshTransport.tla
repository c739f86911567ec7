---------------------------- MODULE SshTransport ----------------------------
(***************************************************************************)
(* The binary packet protocol of libssh2 (transport.c): a byte stream is   *)
(* cut into packets while it arrives in pieces of any size, and packets    *)
(* are put on a socket that takes them in pieces.                          *)
(*                                                                         *)
(* A byte is the packet and the place it belongs to, and whether it is     *)
(* under the cipher.  The server sends the packets 1..Count; from packet   *)
(* KeysAt + 1 on they are encrypted and carry a MAC.  libssh2 sends the    *)
(* messages 1..Messages, in the same form.                                 *)
(***************************************************************************)
EXTENDS Naturals, Sequences

CONSTANTS
  Count,        \* packets the server sends
  Size,         \* Size[k]: bytes of packet k, MAC and header included
  KeysAt,       \* the packet that is the server's NEWKEYS
  Header,       \* bytes of the length fields (5)
  BlockSize,    \* of the cipher
  MacLen,       \* of the MAC
  BufSize,      \* PACKETBUFSIZE
  Messages,     \* messages libssh2 sends
  OutSize       \* bytes of each of them

ASSUME SizesAssumption ==
  /\ {Count, Header, BlockSize, MacLen, BufSize, OutSize} \subseteq Nat \ {0}
  /\ {KeysAt, Messages} \subseteq Nat
  /\ Header <= BlockSize /\ BlockSize <= BufSize
  /\ Size \in [1..Count -> Nat]
  /\ \A k \in 1..Count : Size[k] > Header
  /\ \A k \in (KeysAt + 1)..Count :
       Size[k] > BlockSize + MacLen /\ (Size[k] - MacLen) % BlockSize = 0

VARIABLES
  arrived,    \* bytes of the server's stream the socket has for libssh2
  taken,      \* bytes of it that recv() has returned
  packet,     \* session->packet, the receiving half
  seqno,      \* session->remote.seqno
  newkeys,    \* LIBSSH2_STATE_NEWKEYS
  fullpacket, \* fullpacket_state # idle: the packet has been decrypted
  jump,       \* readPack_state = jump1: packet_add was not done
  call,       \* where libssh2_packet_read is
  received,   \* the packets given to packet_add, with the MAC's verdict
  sent,       \* the messages libssh2_packet_write has returned 0 for
  out,        \* session->packet, the sending half: odata; outbuf from osent on
  wire,       \* the bytes the server gets
  cut         \* observation: a part of what was left has been sent

inVars == <<arrived, taken, packet, seqno, newkeys, fullpacket, jump, call, received>>
outVars == <<sent, out, wire, cut>>
wireVars == <<inVars, outVars>>

-----------------------------------------------------------------------------
(* The streams. *)

Byte(k, i, form) == [of |-> k, at |-> i, form |-> form]

\* Packet k as the server puts it on the wire: the MAC is never encrypted.
Encoded(k) ==
  [i \in 1..Size[k] |->
     Byte(k, i, IF k > KeysAt /\ i <= Size[k] - MacLen THEN "cipher" ELSE "plain")]

StreamTo[k \in 0..Count] ==
  IF k = 0 THEN <<>> ELSE StreamTo[k - 1] \o Encoded(k)

Stream == StreamTo[Count]

Message(m) == [i \in 1..OutSize |-> Byte(m, i, "plain")]

-----------------------------------------------------------------------------
(* Receiving. *)

Empty == [data |-> 0, rest |-> <<>>]

NoPacket == [total |-> 0, init |-> <<>>, payload |-> <<>>, buf |-> <<>>]

WireInit ==
  /\ arrived = 0 /\ taken = 0 /\ seqno = 1 /\ newkeys = (KeysAt = 0)
  /\ packet = NoPacket /\ fullpacket = FALSE /\ jump = FALSE
  /\ call = "none" /\ received = <<>>
  /\ sent = <<>> /\ out = Empty /\ wire = <<>> /\ cut = FALSE

\* A byte of the stream reaches the socket; recv() returns any number of them.
Arrive ==
  /\ arrived < Len(Stream)
  /\ arrived' = arrived + 1
  /\ UNCHANGED <<taken, packet, seqno, newkeys, fullpacket, jump, call, received, outVars>>

blocksize == IF newkeys THEN BlockSize ELSE Header

\* decrypt: what is not the cipher's output comes out as noise.
Decrypt(bytes) ==
  [i \in DOMAIN bytes |->
     [bytes[i] EXCEPT !.form = IF @ = "cipher" THEN "plain" ELSE "noise"]]

\* The packet whose length fields a first block holds, 0 for noise.
HeaderOf(block) ==
  LET k == block[1].of
  IN  IF \A i \in 1..Header : block[i] = Byte(k, i, "plain") THEN k ELSE 0

\* The first block gives the lengths; the payload area is allocated and gets
\* what the block holds after them.
FirstBlock(p) ==
  LET raw   == SubSeq(p.buf, 1, blocksize)
      block == IF newkeys THEN Decrypt(raw) ELSE raw
      k     == HeaderOf(block)
  IN  [total   |-> IF k = 0 THEN BufSize * Len(Stream) ELSE Size[k] - Header,
       init    |-> SubSeq(block, 1, Header),
       payload |-> SubSeq(block, Header + 1, blocksize),
       buf     |-> SubSeq(p.buf, blocksize + 1, Len(p.buf))]

\* Whole blocks are decrypted, the MAC is copied as it is; a part of a block
\* stays in the buffer.
Collect(p) ==
  LET data    == Len(p.payload)
      bytes   == LET left == p.total - data
                 IN  IF Len(p.buf) > left THEN left ELSE Len(p.buf)
      sealed  == p.total - MacLen
      decrypt == IF ~newkeys \/ data >= sealed THEN 0
                 ELSE IF data + bytes > sealed THEN sealed - data
                 ELSE bytes - (bytes % BlockSize)
      copied  == IF ~newkeys THEN bytes
                 ELSE IF data + bytes > sealed THEN bytes - decrypt ELSE 0
      used    == decrypt + copied
  IN  [p EXCEPT !.payload = @ \o Decrypt(SubSeq(p.buf, 1, decrypt))
                              \o SubSeq(p.buf, decrypt + 1, used),
                !.buf = SubSeq(@, used + 1, Len(@))]

TooBig(p) == p.total > Len(Stream)
Whole(p)  == p.total > 0 /\ Len(p.payload) = p.total

\* libssh2_packet_read is called; after an EAGAIN of packet_add it goes back
\* to the packet at hand.
LibPacketRead ==
  /\ call \in {"none", "again"}
  /\ (Len(received) = KeysAt /\ ~fullpacket) => newkeys
  /\ IF jump THEN jump' = FALSE /\ call' = "full"
             ELSE call' = "loop" /\ UNCHANGED jump
  /\ UNCHANGED <<arrived, taken, packet, seqno, newkeys, fullpacket, received, outVars>>

\* One turn of the loop: read when less than a block is at hand, then deal
\* with what is there.
ReadMore(n) ==
  LET p     == [packet EXCEPT !.buf = @ \o SubSeq(Stream, taken + 1, taken + n)]
      first == p.total = 0
      q     == IF first THEN FirstBlock(p) ELSE p
      r     == Collect(q)
  IN  /\ taken' = taken + n
      /\ IF first /\ Len(p.buf) < blocksize
           THEN packet' = p /\ call' = "again"
           ELSE IF TooBig(q)
           THEN packet' = q /\ call' = "failed"
           ELSE packet' = r /\ call' = IF Whole(r) THEN "full" ELSE "loop"
      /\ UNCHANGED <<arrived, seqno, newkeys, fullpacket, jump, received, outVars>>

ReadLoop ==
  /\ call = "loop"
  /\ IF Len(packet.buf) >= blocksize
       THEN ReadMore(0)
       ELSE \E n \in 1..(BufSize - Len(packet.buf)) :
              n <= arrived - taken /\ ReadMore(n)

\* recv says EAGAIN.
WouldBlock ==
  /\ call = "loop"
  /\ Len(packet.buf) < blocksize /\ arrived = taken
  /\ call' = "again"
  /\ UNCHANGED <<arrived, taken, packet, seqno, newkeys, fullpacket, jump, received, outVars>>

\* The MAC covers the sequence number, the length fields and the payload.
MacConfirmed(p) ==
  \/ ~newkeys
  \/ p.init \o p.payload = [i \in 1..Size[seqno] |-> Byte(seqno, i, "plain")]

\* seeded fault: it starts anew after an EAGAIN of packet_add
FullPacketAnew ==
  /\ call = "full"
  /\ fullpacket' = TRUE /\ seqno' = seqno + 1
  /\ received' = Append(received, [of |-> HeaderOf(packet.init),
                                   bytes |-> Len(packet.payload),
                                   mac |-> MacConfirmed(packet)])
  /\ call' = "add"
  /\ UNCHANGED <<arrived, taken, packet, newkeys, jump, outVars>>

\* fullpacket: the MAC is checked and the sequence number counted once, then
\* packet_add is called until it does not say EAGAIN.
FullPacket ==
  /\ call = "full"
  /\ fullpacket' = TRUE
  /\ seqno' = IF fullpacket THEN seqno ELSE seqno + 1
  /\ received' = IF fullpacket THEN received
                 ELSE Append(received, [of |-> HeaderOf(packet.init),
                                        bytes |-> Len(packet.payload),
                                        mac |-> MacConfirmed(packet)])
  /\ call' = "add"
  /\ UNCHANGED <<arrived, taken, packet, newkeys, jump, outVars>>

\* packet_add is waiting to send: the packet is kept.
AddAgain ==
  /\ call = "add"
  /\ jump' = TRUE /\ call' = "again"
  /\ UNCHANGED <<arrived, taken, packet, seqno, newkeys, fullpacket, received, outVars>>

\* seeded fault: the bytes read beyond the packet are forgotten
AddedAlone ==
  /\ call = "add"
  /\ fullpacket' = FALSE /\ call' = "none"
  /\ packet' = NoPacket
  /\ UNCHANGED <<arrived, taken, seqno, newkeys, jump, received, outVars>>

Added ==
  /\ call = "add"
  /\ fullpacket' = FALSE /\ call' = "none"
  /\ packet' = [NoPacket EXCEPT !.buf = packet.buf]
  /\ UNCHANGED <<arrived, taken, seqno, newkeys, jump, received, outVars>>

\* The key exchange has taken the server's NEWKEYS from the brigade.
SwitchKeys ==
  /\ call = "none" /\ Len(received) = KeysAt /\ ~newkeys
  /\ newkeys' = TRUE
  /\ UNCHANGED <<arrived, taken, packet, seqno, fullpacket, jump, call, received, outVars>>

-----------------------------------------------------------------------------
(* Sending. *)

\* libssh2_packet_write of m with nothing pending: send() takes all, or a part,
\* or nothing; what is left is kept in outbuf.
WriteNew(m) ==
  /\ out = Empty
  /\ \E n \in 0..OutSize :
       /\ wire' = wire \o SubSeq(Message(m), 1, n)
       /\ IF n = OutSize
            THEN sent' = Append(sent, m) /\ UNCHANGED out
            ELSE /\ out' = [data |-> m, rest |-> SubSeq(Message(m), n + 1, OutSize)]
                 /\ UNCHANGED sent
  /\ UNCHANGED <<inVars, cut>>

\* seeded fault: it does not ask whether the data are the pending ones
SendExistingAny(m) ==
  /\ out # Empty
  /\ wire' = wire \o out.rest /\ out' = Empty
  /\ sent' = Append(sent, m)
  /\ UNCHANGED <<cut, inVars>>

\* send_existing, called again with the same data; other data are refused with
\* PACKET_BADUSE and nothing changes.  When send() takes only a part of what is
\* left, osent moves past all of it and 0 is returned, with outbuf still there.
SendExisting(m) ==
  /\ out.data = m
  /\ \E n \in 0..Len(out.rest) :
       /\ wire' = wire \o SubSeq(out.rest, 1, n)
       /\ cut' = (cut \/ n \in 1..(Len(out.rest) - 1))
       /\ sent' = IF n > 0 THEN Append(sent, m) ELSE sent
       /\ out' = IF n = Len(out.rest) THEN Empty
                 ELSE IF n > 0 THEN [out EXCEPT !.rest = <<>>] ELSE out
  /\ UNCHANGED inVars

-----------------------------------------------------------------------------
Receive ==
  LibPacketRead \/ ReadLoop \/ WouldBlock \/ FullPacket \/ AddAgain \/ Added \/ SwitchKeys
Unsent  == {m \in 1..Messages : \A i \in DOMAIN sent : sent[i] # m}
Send    == \E m \in Unsent : WriteNew(m) \/ SendExisting(m)
WireNext == Arrive \/ Receive \/ Send

WireSpec == WireInit /\ [][WireNext]_wireVars

\* The network delivers, and who was told EAGAIN calls again; a socket that
\* takes nothing is ready at some time.
FairWireSpec == WireSpec /\ WF_wireVars(Arrive) /\ WF_wireVars(Receive) /\ SF_wireVars(Added)

-----------------------------------------------------------------------------
(* Properties. *)

WireTypeOK ==
  /\ taken \in 0..arrived /\ arrived \in 0..Len(Stream)
  /\ seqno \in 1..(Count + 1) /\ {newkeys, fullpacket, jump} \subseteq BOOLEAN
  /\ call \in {"none", "again", "loop", "full", "add", "failed"}
  /\ Len(received) \in 0..Count /\ Len(packet.buf) \in 0..BufSize
  /\ sent \in Seq(1..Messages) /\ out.data \in 0..Messages /\ cut \in BOOLEAN

\* The bytes of the first k packets, and the messages of s one after the other.
Bytes[k \in 0..Count] == IF k = 0 THEN 0 ELSE Bytes[k - 1] + Size[k]

Concatenated(s) ==
  LET upTo[i \in 0..Len(s)] == IF i = 0 THEN <<>> ELSE upTo[i - 1] \o Message(s[i])
  IN  upTo[Len(s)]

\* What reaches packet_add are the packets the server sent, whole, confirmed
\* by their MAC, once each and in order: however recv() cuts the stream, and
\* although the buffer may hold encrypted bytes read together with the packet
\* that switches the keys.  Every byte taken from the socket is in one of them,
\* in the packet being collected or in the buffer, which never holds more than
\* it can.
PacketsWhole ==
  LET begun == IF fullpacket THEN 0 ELSE Len(packet.init) + Len(packet.payload)
  IN  /\ WireTypeOK /\ call # "failed"
      /\ \A k \in DOMAIN received :
           received[k] = [of |-> k, bytes |-> Size[k] - Header, mac |-> TRUE]
      /\ taken = Bytes[Len(received)] + begun + Len(packet.buf)

\* What is on the wire, with what is kept in outbuf, are the messages that
\* libssh2_packet_write said are sent, whole and in that order, and the one it
\* said EAGAIN for, although the callers may turn to another message meanwhile;
\* unless a part of what was left has been taken for all of it.
WrittenIsSent ==
  LET begun == IF out = Empty THEN <<>> ELSE Message(out.data)
  IN  ~cut => wire \o out.rest = Concatenated(sent) \o begun

\* The transport layer is a pipe of packets.
Incoming == INSTANCE PacketPipe WITH got <- Len(received)
ImplementsPipe == Incoming!Spec

=============================================================================
