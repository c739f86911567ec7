----------------------------- MODULE SshPackets -----------------------------
(***************************************************************************)
(* The packet brigade of libssh2 (packet.c) on top of whole packets        *)
(* (transport.c; SshTransport has its bytes).                              *)
(*                                                                         *)
(* A LIBSSH2_SESSION is a record s, with the two directions of its socket. *)
(* A function of the library is an operator that gives the session after   *)
(* it and what it returned, [s |-> , rc |-> ].  It does at most one        *)
(* recv(); a function that loops or waits is called again at the position  *)
(* it kept: that is how libssh2 is written, its positions being the        *)
(* ..._state members.  MORE says that the function is still running, WAIT  *)
(* that it is blocked in recv().                                           *)
(*                                                                         *)
(* The socket is the blocking one that sessionToHost connects: send()      *)
(* takes a whole packet or fails, recv() waits.  EAGAIN occurs all the     *)
(* same, when less than a block of a packet has come (net = "part"); "late"*)
(* says that the rest then takes longer than LIBSSH2_READ_TIMEOUT.         *)
(***************************************************************************)
EXTENDS Integers, Sequences, FiniteSets, SequencesExt

CONSTANTS
  Modulus,       \* 2^32: an unsigned long of the 32-bit build
  MinAdjust,     \* LIBSSH2_CHANNEL_MINADJUST
  WindowDefault, \* LIBSSH2_CHANNEL_WINDOW_DEFAULT
  PacketDefault  \* LIBSSH2_CHANNEL_PACKET_DEFAULT

R(s, rc) == [s |-> s, rc |-> rc]

-----------------------------------------------------------------------------
(* Packets and sessions. *)

\* ch is the recipient's channel, n a length or a window (in a KEXINIT, the
\* offer), from the place of the data in its stream or the sender's channel,
\* what a name, head how much of the data has been read, key the exchange whose
\* keys the packet is sealed with (0: in plain text).
Packet(type, ch, n, from, what) ==
  [type |-> type, ch |-> ch, n |-> n, from |-> from, what |-> what,
   head |-> 0, key |-> 0]

Plain(type) == Packet(type, 0, 0, 0, "")

DataTypes == {"DATA", "EXTENDED_DATA"}

\* A channel: local is what we send, remote what we are sent.
Channel(localId, localWindow, localPacket, remoteId, remoteWindow, remotePacket) ==
  [local  |-> [id |-> localId, window_size |-> localWindow,
               packet_size |-> localPacket, eof |-> FALSE, close |-> FALSE],
   remote |-> [id |-> remoteId, window_size |-> remoteWindow,
               packet_size |-> remotePacket, eof |-> FALSE, close |-> FALSE,
               extended_data_ignore_mode |-> "normal"],
   adjust_queue |-> 0, write_bufwrote |-> 0, exit_status |-> 0]

\* The local variables of the call in progress, which a return loses: where it
\* is, what is left of the buffer it was given and from which place on, and
\* what it has read.
Call(left, from) == [phase |-> "", left |-> left, from |-> from, got |-> <<>>]

NewSession ==
  [socket_state |-> "connected", state |-> {}, keys |-> 0, session_id |-> 0,
   packets |-> <<>>, fullpacket |-> "", at |-> [k \in {} |-> "idle"], start |-> {},
   channels |-> <<>>, chan |-> [c \in {} |-> 0], next_channel |-> 1,
   listeners |-> <<>>, x11 |-> FALSE,
   open_channel |-> 0, kex |-> "none", kexRc |-> "", burn |-> FALSE, methods |-> <<>>,
   call |-> Call(0, 0), inbound |-> <<>>, outbound |-> <<>>, gone |-> FALSE]

\* Where an operation on channel c (0: on the session) stands.
At(s, op, c) == IF <<op, c>> \in DOMAIN s.at THEN s.at[<<op, c>>] ELSE "idle"

Goto(s, op, c, pos) ==
  LET others == DOMAIN s.at \ {<<op, c>>}
      keys   == IF pos = "idle" THEN others ELSE others \cup {<<op, c>>}
  IN  [s EXCEPT !.at = [k \in keys |-> IF k = <<op, c>> THEN pos ELSE s.at[k]]]

\* libssh2_channel_locate: the session's own channels, not the ones queued in
\* a listener.
Located(s, c) == \E i \in DOMAIN s.channels : s.channels[i] = c

\* libssh2_channel_nextid: the ids of channels that were freed stay unused.
NextId(s) ==
  CHOOSE id \in {s.next_channel} \cup {s.channels[i] : i \in DOMAIN s.channels} :
    id >= s.next_channel /\ \A i \in DOMAIN s.channels : s.channels[i] <= id

TakeId(s) == [s EXCEPT !.next_channel = NextId(s) + 1]

WithChannel(s, c, channel) ==
  [s EXCEPT !.chan = [d \in DOMAIN s.chan \cup {c} |-> IF d = c THEN channel ELSE s.chan[d]]]

-----------------------------------------------------------------------------
(* Sending. *)

\* libssh2_packet_write: sealed with the keys in use; a connection the server
\* has dropped takes nothing.
PacketWrite(s, p) ==
  IF s.gone THEN R(s, "FAIL")
  ELSE R([s EXCEPT !.outbound = Append(@, [p EXCEPT !.key = s.keys])], "")

\* seeded fault: what was saved up is counted, but not sent
AdjustWithoutQueue(s, c, n, force) ==
  LET total == (n + s.chan[c].adjust_queue) % Modulus
      w     == PacketWrite(s, Packet("WINDOW_ADJUST", s.chan[c].remote.id, n, 0, ""))
  IN  IF ~force /\ total < MinAdjust THEN [s EXCEPT !.chan[c].adjust_queue = total]
      ELSE [w.s EXCEPT !.chan[c].adjust_queue = 0, !.chan[c].remote.window_size = @ + total]

\* libssh2_channel_receive_window_adjust: small amounts are saved up.  Amounts
\* are unsigned: one below 0 is a large one.
ReceiveWindowAdjust(s, c, n, force) ==
  LET total == (n + s.chan[c].adjust_queue) % Modulus
      w     == PacketWrite(s, Packet("WINDOW_ADJUST", s.chan[c].remote.id, total, 0, ""))
  IN  IF ~force /\ total < MinAdjust THEN [s EXCEPT !.chan[c].adjust_queue = total]
      ELSE IF total = 0 THEN s
      ELSE IF w.rc # "" THEN [w.s EXCEPT !.chan[c].adjust_queue = total]
      ELSE [w.s EXCEPT !.chan[c].adjust_queue = 0,
                       !.chan[c].remote.window_size = (@ + total) % Modulus]

-----------------------------------------------------------------------------
(* Receiving: libssh2_packet_add. *)

\* What exceeds the packet size or the window we granted is cut off; data
\* beyond an empty window is dropped.
AddData(s, p) ==
  LET remote == s.chan[p.ch].remote
      cut    == IF remote.packet_size < p.n THEN remote.packet_size ELSE p.n
      beyond == cut > remote.window_size
      kept   == IF beyond THEN remote.window_size ELSE cut
  IN  IF ~Located(s, p.ch) THEN s
      ELSE IF p.type = "EXTENDED_DATA" /\ remote.extended_data_ignore_mode = "ignore"
        THEN ReceiveWindowAdjust(s, p.ch, p.n, FALSE)
      ELSE IF remote.window_size <= 0 THEN s
      ELSE [s EXCEPT !.packets = Append(@, [p EXCEPT !.n = kept]),
                     !.chan[p.ch].remote.eof = FALSE,
                     !.chan[p.ch].remote.window_size = IF beyond THEN @ ELSE @ - cut]

\* Packets that change their channel and go no further; for a channel that is
\* not there they are ignored.
ChannelTypes == {"EOF", "CLOSE", "WINDOW_ADJUST", "EXIT_STATUS"}

AddToChannel(s, p) ==
  IF ~Located(s, p.ch) THEN s
  ELSE CASE p.type = "EOF"           -> [s EXCEPT !.chan[p.ch].remote.eof = TRUE]
         [] p.type = "CLOSE"         -> [s EXCEPT !.chan[p.ch].remote.eof = TRUE,
                                                  !.chan[p.ch].remote.close = TRUE]
         [] p.type = "WINDOW_ADJUST" -> [s EXCEPT !.chan[p.ch].local.window_size = @ + p.n]
         [] p.type = "EXIT_STATUS"   -> [s EXCEPT !.chan[p.ch].exit_status = p.n]

\* A channel the server opens, answered with its confirmation: what, from and
\* n of its OPEN are the port or "x11", the server's channel and its window.
Accepted(s, p) ==
  LET id == NextId(s)
      told(w) == R(IF w.rc = ""
                     THEN WithChannel(w.s, id,
                            Channel(id, p.n, PacketDefault, p.from, WindowDefault, PacketDefault))
                     ELSE w.s, w.rc)
  IN  told(PacketWrite(TakeId(s), Packet("OPEN_CONFIRMATION", p.from, WindowDefault, id, "")))

Refused(s, p, reason) == PacketWrite(s, Packet("OPEN_FAILURE", p.from, 0, 0, reason))

\* libssh2_packet_queue_listener: a connection to a port we listen at waits in
\* the listener's queue, and is not one of the session's channels yet.
QueueListener(s, p) ==
  LET hits == {i \in DOMAIN s.listeners : s.listeners[i].port = p.what}
      i    == CHOOSE j \in hits : \A k \in hits : j <= k
      max  == s.listeners[i].queue_maxsize
      queued(a) ==
        IF a.rc # "" THEN a
        ELSE R([a.s EXCEPT
                  !.listeners[i].queue = Append(@, NextId(s)),
                  !.listeners[i].queue_size = IF s.listeners[i].queue = <<>> THEN @ ELSE @ + 1],
               "")
  IN  IF hits = {} THEN Refused(s, p, "prohibited")
      ELSE IF max # 0 /\ s.listeners[i].queue_size >= max
        THEN Refused(s, p, "shortage")
      ELSE queued(Accepted(s, p))

\* libssh2_packet_x11_open: only after x11_req, and at once one of the
\* session's channels.
X11Open(s, p) ==
  LET linked(a) == IF a.rc # "" THEN a ELSE R([a.s EXCEPT !.channels = Append(@, NextId(s))], "")
  IN  IF ~s.x11 THEN Refused(s, p, "shortage") ELSE linked(Accepted(s, p))

\* Into the brigade; a KEXINIT outside of an exchange starts one, which goes
\* on before the function that was reading.
AddToBrigade(s, p) ==
  LET b == [s EXCEPT !.packets = Append(@, p)]
  IN  IF p.type = "KEXINIT" /\ "EXCHANGING_KEYS" \notin s.state
        THEN [Goto(b, "kex", 0, "idle") EXCEPT !.kex = "add"]
        ELSE b

\* A packet sealed with other keys than ours does not pass the MAC, and after
\* it none will: fullpacket_state and macstate stay.  After another error the
\* next packet is taken without a check, and not counted.
PacketAdd(s, p) ==
  LET fails(t, why) == R([t EXCEPT !.fullpacket = why], "FAIL")
      adds(t)  == R([t EXCEPT !.fullpacket = IF @ = "kept" THEN "bad" ELSE @], p.type)
      opens(o) == IF o.rc = "" THEN adds(o.s) ELSE fails(o.s, "kept")
  IN  IF s.fullpacket = "bad" \/ (p.key # s.keys /\ s.fullpacket = "") THEN fails(s, "bad")
      ELSE CASE p.type = "DISCONNECT" -> fails([s EXCEPT !.socket_state = "disconnected"], "kept")
             [] p.type \in {"IGNORE", "DEBUG"} -> adds(s)
             [] p.type \in DataTypes    -> adds(AddData(s, p))
             [] p.type \in ChannelTypes -> adds(AddToChannel(s, p))
             [] p.type = "OPEN" -> opens(IF p.what = "x11" THEN X11Open(s, p) ELSE QueueListener(s, p))
             [] OTHER -> adds(AddToBrigade(s, p))

-----------------------------------------------------------------------------
(* libssh2_packet_read *)

\* A key exchange that somebody left goes on first.  Then a packet is read:
\* nothing from a disconnected session; an error from a closed connection.
PacketRead(s, net) ==
  IF s.kexRc # "" THEN R([s EXCEPT !.kexRc = ""], s.kexRc)
  ELSE IF "EXCHANGING_KEYS" \in s.state /\ "KEX_ACTIVE" \notin s.state
    THEN R([s EXCEPT !.kex = "redirect"], "MORE")
  ELSE IF s.socket_state = "disconnected" THEN R(s, "NONE")
  ELSE IF s.inbound = <<>> THEN R(s, IF s.gone THEN "FAIL" ELSE "WAIT")
  ELSE IF net # "whole" THEN R(s, "EAGAIN")
  ELSE PacketAdd([s EXCEPT !.inbound = Tail(@)], Head(s.inbound))

-----------------------------------------------------------------------------
(* Looking for a packet. *)

Nobody == 0

\* seeded fault: an answer for any channel
MatchingAny(s, type, c) == {i \in DOMAIN s.packets : s.packets[i].type = type}

Matching(s, type, c) ==
  {i \in DOMAIN s.packets : s.packets[i].type = type /\ c \in {Nobody, s.packets[i].ch}}

First(set) == CHOOSE i \in set : \A j \in set : i <= j

Got(s, i) == [s |-> [s EXCEPT !.packets = RemoveAt(@, i)], rc |-> "", p |-> s.packets[i]]

Not(s, rc) == [s |-> s, rc |-> rc, p |-> Plain("none")]

\* What of a list is in a set, in order.
Only(list, set) ==
  LET only[n \in 0..Len(list)] ==
        IF n = 0 THEN <<>>
        ELSE IF list[n] \in set THEN Append(only[n - 1], list[n]) ELSE only[n - 1]
  IN  only[Len(list)]

\* libssh2_packet_askv_ex (and ask_ex): the first packet of the first of the
\* types that is there, and meant for channel c.
Ask(s, types, c) ==
  LET there == {k \in DOMAIN types : Matching(s, types[k], c) # {}}
  IN  IF there = {} THEN Not(s, "FAIL")
                    ELSE Got(s, First(Matching(s, types[First(there)], c)))

\* libssh2_packet_require_ex: who called it before does not look at the
\* brigade again until a packet of the type has come.
Require(s, who, type, net) ==
  LET begun == [s EXCEPT !.start = @ \cup {who}]
      ended(t) == [t EXCEPT !.start = @ \ {who}]
      after(r) == CASE r.rc \in {"EAGAIN", "WAIT"} -> Not(r.s, r.rc)
                    [] r.rc = "FAIL" -> Not(ended(r.s), "FAIL")
                    [] r.rc = type   -> Ask(ended(r.s), <<type>>, Nobody)
                    [] OTHER         -> Not(r.s, "MORE")
      waits(asked) == IF who \notin s.start /\ asked.rc = "" THEN asked
                      ELSE IF s.socket_state = "disconnected" THEN Not(begun, "FAIL")
                      ELSE after(PacketRead(begun, net))
  IN  waits(Ask(s, <<type>>, Nobody))

\* libssh2_packet_requirev_ex: a packet of one of the types that is not the
\* awaited channel's ends the wait.  The timer is looked at when recv() has
\* said EAGAIN, and only then.
RequireV(s, types, c, net) ==
  LET after(r) == CASE r.rc = "WAIT"   -> Not(r.s, "WAIT")
                    [] r.rc = "EAGAIN" -> Not(r.s, IF net = "late" THEN "TIMEOUT" ELSE "EAGAIN")
                    [] r.rc = "FAIL"   -> Not(r.s, "FAIL")
                    [] r.rc \in Range(types) -> Ask(r.s, types, c)
                    [] OTHER -> Not(r.s, "MORE")
      waits(asked) == IF asked.rc = "" THEN asked
                      ELSE IF s.socket_state = "disconnected" THEN Not(s, "FAIL")
                      ELSE after(PacketRead(s, net))
  IN  waits(Ask(s, types, c))

\* The form most operations have: a request is sent and its answer awaited;
\* one that fails while waiting starts anew when it is called again.
Request(s, op, c, p, types, match, net) ==
  LET sends(w)  == IF w.rc = "" THEN Not(Goto(w.s, op, c, "sent"), "MORE")
                                ELSE Not(Goto(w.s, op, c, "idle"), "FAIL")
      awaits(a) == IF a.rc \in {"MORE", "WAIT", "EAGAIN"} THEN a
                   ELSE [a EXCEPT !.s = Goto(@, op, c, "idle")]
  IN  IF At(s, op, c) # "sent" THEN sends(PacketWrite(s, p))
                               ELSE awaits(RequireV(s, types, match, net))

\* The message numbers, for what may wait in the brigade.
Number(type) ==
  CASE type = "SERVICE_ACCEPT" -> 6   [] type = "KEXINIT" -> 20
    [] type = "NEWKEYS" -> 21         [] type \in {"GUESS", "KEXDH_REPLY"} -> 31
    [] type \in {"FAILURE", "SUCCESS"} -> 51
    [] type \in DataTypes -> 94       [] OTHER -> 91

\* libssh2_packet_burn: the next packet is thrown away, or one that waits in
\* the brigade, the one with the lowest number.
Burn(s, net) ==
  LET types == {Number(s.packets[i].type) : i \in DOMAIN s.packets}
      low   == {i \in DOMAIN s.packets : \A n \in types : Number(s.packets[i].type) <= n}
      hit(r) == {i \in DOMAIN r.s.packets : r.s.packets[i].type = r.rc}
      out(t, set) == R(Goto([t EXCEPT !.packets = RemoveAt(@, First(set))], "burn", 0, "idle"), "")
      after(r) == IF r.rc \in {"WAIT", "EAGAIN"} THEN r
                  ELSE IF r.rc = "FAIL" THEN R(Goto(r.s, "burn", 0, "idle"), "FAIL")
                  ELSE IF hit(r) # {} THEN out(r.s, hit(r))
                  ELSE R(r.s, "MORE")
  IN  IF At(s, "burn", 0) = "idle" /\ low # {} THEN out(s, low)
      ELSE IF At(s, "burn", 0) = "idle" THEN R(Goto(s, "burn", 0, "created"), "MORE")
      ELSE IF s.socket_state = "disconnected" THEN R(s, "FAIL")
      ELSE after(PacketRead(s, net))

=============================================================================
