---------------------------- MODULE SshChannels -----------------------------
(***************************************************************************)
(* The channels of libssh2 (channel.c): opening them, requests on them,    *)
(* reading and writing, closing and freeing, and the listeners whose       *)
(* queues hold channels the server has opened.                             *)
(***************************************************************************)
EXTENDS SshPackets

CONSTANT StreamIdLen   \* bytes the header of extended data has more (4)

MayRetry(rc) == rc \in {"MORE", "WAIT", "EAGAIN"}

-----------------------------------------------------------------------------
(* Opening. *)

IsDataOf(p, c) == p.type \in DataTypes /\ p.ch = c

ClearPackets(s, c) == [s EXCEPT !.packets = Only(@, {p \in Range(@) : ~IsDataOf(p, c)})]

\* seeded fault: its data stay in the brigade
ForgetOnly(s, c) ==
  [s EXCEPT !.chan = [d \in DOMAIN @ \ {c} |-> @[d]],
            !.at = [k \in {j \in DOMAIN @ : j[2] # c} |-> @[k]]]

Forget(s, c) ==
  LET t == ClearPackets(s, c)
  IN  [t EXCEPT !.chan = [d \in DOMAIN t.chan \ {c} |-> t.chan[d]],
                !.at = [k \in {j \in DOMAIN t.at : j[2] # c} |-> t.at[k]]]

\* The channel is one of the session's from before its OPEN is sent.
Opening(s) ==
  LET id == NextId(s)
      t  == WithChannel(TakeId(s), id, Channel(id, 0, 0, 0, WindowDefault, PacketDefault))
  IN  [t EXCEPT !.channels = Append(@, id), !.open_channel = id]

\* channel_error: it is taken out again, and data meant for it.
OpenFailed(s, rc) ==
  LET t == Forget(s, s.open_channel)
  IN  R([t EXCEPT !.channels = Only(@, Range(@) \ {s.open_channel}), !.open_channel = 0], rc)

\* The CONFIRMATION has the server's channel in from, and in n its window.
Opened(s, p) ==
  R([s EXCEPT !.chan[s.open_channel].remote.id = p.from,
              !.chan[s.open_channel].local.window_size = p.n,
              !.chan[s.open_channel].local.packet_size = PacketDefault], "")

\* libssh2_channel_open_ex.  (open_channel stays what it was.)
OpenEx(s, kind, net) ==
  LET o == IF At(s, "open", 0) = "idle" THEN Opening(s) ELSE s
      answered(q) == IF MayRetry(q.rc) THEN R(q.s, q.rc)
                     ELSE IF q.rc # "" THEN OpenFailed(q.s, q.rc)
                     ELSE IF q.p.type = "OPEN_FAILURE" THEN OpenFailed(q.s, "DENIED")
                     ELSE Opened(q.s, q.p)
  IN  answered(Request(o, "open", 0, Packet("OPEN", 0, WindowDefault, o.open_channel, kind),
                       <<"OPEN_CONFIRMATION", "OPEN_FAILURE">>, o.open_channel, net))

\* libssh2_channel_direct_tcpip_ex
DirectTcpip(s, net) == OpenEx(s, "direct-tcpip", net)

-----------------------------------------------------------------------------
(* Requests on a channel. *)

ChannelRequest(s, state, c, what, net) ==
  Request(s, state, c, Packet("CHANNEL_REQUEST", s.chan[c].remote.id, 0, 0, what),
          <<"CHANNEL_SUCCESS", "CHANNEL_FAILURE">>, c, net)

Verdict(q) ==
  R(q.s, IF q.rc = "" /\ q.p.type = "CHANNEL_FAILURE" THEN "DENIED" ELSE q.rc)

\* libssh2_channel_setenv_ex
Setenv(s, c, net) == Verdict(ChannelRequest(s, "setenv", c, "env", net))

\* libssh2_channel_request_pty_ex
RequestPty(s, c, net) == Verdict(ChannelRequest(s, "reqPTY", c, "pty-req", net))

\* libssh2_channel_request_pty_size_ex: it has no answer, and shares its state
\* with request_pty, which it leaves at sent.
RequestPtySize(s, c) ==
  LET w == PacketWrite(s, Packet("CHANNEL_REQUEST", s.chan[c].remote.id, 0, 0, "window-change"))
  IN  IF At(s, "reqPTY", c) # "idle" THEN R(Goto(s, "reqPTY", c, "idle"), "FAIL")
      ELSE IF w.rc # "" THEN R(w.s, "FAIL")
      ELSE R(Goto(w.s, "reqPTY", c, "sent"), "")

\* libssh2_channel_x11_req_ex: when it is denied the state stays at sent.
X11Req(s, c, net) ==
  LET answered(v) == IF v.rc = "DENIED" THEN R(Goto(v.s, "reqX11", c, "sent"), v.rc) ELSE v
  IN  answered(Verdict(ChannelRequest(s, "reqX11", c, "x11-req", net)))

\* libssh2_channel_process_startup: exec, shell or subsystem.
ProcessStartup(s, c, net) == Verdict(ChannelRequest(s, "process", c, "exec", net))

-----------------------------------------------------------------------------
(* Reading. *)

\* seeded fault: where the last read ended is forgotten
WholeLen(p) == p.n

DataLen(p) == p.n - p.head

Total(seq) ==
  LET sum[k \in 0..Len(seq)] == IF k = 0 THEN 0 ELSE sum[k - 1] + seq[k]
  IN  sum[Len(seq)]

\* The data a reader of a stream is given.
IsOfStream(s, c, stream, p) ==
  /\ p.ch = c
  /\ \/ p.type = "DATA" /\ stream = 0
     \/ p.type = "EXTENDED_DATA" /\ stream = 1
     \/ p.type = "EXTENDED_DATA" /\ stream = 0
        /\ s.chan[c].remote.extended_data_ignore_mode = "merge"

OfStream(s, c, stream) == {i \in DOMAIN s.packets : IsOfStream(s, c, stream, s.packets[i])}

\* libssh2_channel_packet_data_len, and libssh2_poll_channel_read
PacketDataLen(s, c, stream) ==
  IF OfStream(s, c, stream) = {} THEN 0 ELSE DataLen(s.packets[First(OfStream(s, c, stream))])

\* libssh2_channel_eof
Eof(s, c) ==
  /\ s.chan[c].remote.eof
  /\ \A i \in DOMAIN s.packets : ~IsDataOf(s.packets[i], c)

\* libssh2_channel_window_read_ex: what may come, and what is there.
WindowRead(s, c) ==
  [window |-> s.chan[c].remote.window_size,
   avail  |-> Total([i \in DOMAIN s.packets |->
                        IF IsDataOf(s.packets[i], c) THEN DataLen(s.packets[i]) ELSE 0])]

\* seeded fault: only what this call has read of the packet
RefundRest(p, stream) == DataLen(p)

\* What a packet of n gives back to the window when a reader of the stream has
\* emptied it: data_len without the header that stream has.
Refund(p, stream) ==
  p.n + (IF p.type = "EXTENDED_DATA" THEN StreamIdLen ELSE 0)
      - (IF stream = 0 THEN 0 ELSE StreamIdLen)

\* As much of the packet as the buffer takes; an emptied packet is freed.
TakeFrom(s, c, i, stream) ==
  LET p    == s.packets[i]
      want == IF DataLen(p) < s.call.left THEN DataLen(p) ELSE s.call.left
      t    == [s EXCEPT !.call.left = @ - want,
                        !.call.got = @ \o [k \in 1..want |-> <<p.type, p.from + p.head + k>>]]
  IN  IF want < DataLen(p) THEN [t EXCEPT !.packets[i].head = @ + want]
      ELSE ReceiveWindowAdjust([t EXCEPT !.packets = RemoveAt(@, i)], c, Refund(p, stream), FALSE)

\* libssh2_channel_read_ex.  First all that has come is read ("" : as long as
\* the socket is readable; part of a packet makes it EAGAIN, which is put
\* aside); then the brigade is searched, and when there is nothing one more
\* packet is awaited and it is searched again.
Poll(s, net) ==
  LET scan(t)  == R([t EXCEPT !.call.phase = "scan"], "MORE")
      after(r) == CASE r.rc = "FAIL" -> r
                    [] r.rc \in {"EAGAIN", "WAIT", "NONE"} -> scan(r.s)
                    [] OTHER -> R(r.s, "MORE")
  IN  IF s.inbound = <<>> /\ ~s.gone /\ s.kexRc = "" THEN scan(s) ELSE after(PacketRead(s, net))

Scan(s, c, stream) ==
  LET there == OfStream(s, c, stream)
  IN  IF there # {} /\ s.call.left > 0 THEN R(TakeFrom(s, c, First(there), stream), "MORE")
      ELSE IF s.call.got # <<>> \/ s.chan[c].remote.close THEN R(s, "")
      ELSE R([s EXCEPT !.call.phase = "wait"], "MORE")

AwaitData(s, net) ==
  LET after(r) == IF r.rc \in {"FAIL", "EAGAIN", "WAIT", "MORE"} THEN r
                  ELSE R([r.s EXCEPT !.call.phase = "scan"], "MORE")
  IN  after(PacketRead(s, net))

ReadEx(s, c, stream, net) ==
  CASE s.call.phase = ""     -> Poll(s, net)
    [] s.call.phase = "scan" -> Scan(s, c, stream)
    [] s.call.phase = "wait" -> AwaitData(s, net)

\* libssh2_channel_flush_ex: the data of some streams is thrown away, and the
\* window gets back data_len - 13 for each packet, whichever kind it is.
FlushEx(s, c, types) ==
  LET hit    == {i \in DOMAIN s.packets : s.packets[i].type \in types /\ s.packets[i].ch = c}
      refund == Total([i \in DOMAIN s.packets |-> IF i \in hit THEN Refund(s.packets[i], 1) ELSE 0])
      t == [s EXCEPT !.packets = Only(@, {p \in Range(@) : ~(p.type \in types /\ p.ch = c)})]
  IN  R(IF refund = 0 THEN t ELSE ReceiveWindowAdjust(t, c, refund, FALSE), "")

\* libssh2_channel_handle_extended_data: the flush that IGNORE asks for is
\* under a condition that does not hold any more.
HandleExtendedData(s, c, mode) ==
  R([s EXCEPT !.chan[c].remote.extended_data_ignore_mode = mode], "")

-----------------------------------------------------------------------------
(* Writing. *)

Minimum3(a, b, c) == CHOOSE m \in {a, b, c} : m <= a /\ m <= b /\ m <= c

\* While the window is closed, packets are read in the hope of an adjustment.
AwaitWindow(s, c, net) ==
  LET after(r) == CASE r.rc = "FAIL" -> R(Goto(r.s, "write", c, "idle"), "FAIL")
                    [] r.rc \in {"EAGAIN", "WAIT"} -> r
                    [] OTHER -> R(r.s, "MORE")
  IN  after(PacketRead(s, net))

\* One packet, within the window and the packet size.
WritePiece(s, c, stream) ==
  LET local == s.chan[c].local
      n     == Minimum3(s.call.left, local.window_size, local.packet_size)
      w     == PacketWrite(s, Packet(IF stream = 0 THEN "DATA" ELSE "EXTENDED_DATA",
                                     s.chan[c].remote.id, n, s.call.from, ""))
  IN  IF w.rc # "" THEN R(Goto(w.s, "write", c, "idle"), "FAIL")
      ELSE R([w.s EXCEPT !.call.left = @ - n, !.call.from = @ + n,
                         !.chan[c].local.window_size = @ - n,
                         !.chan[c].write_bufwrote = @ + n], "MORE")

\* libssh2_channel_write_ex.  A call after an EAGAIN goes on with the count of
\* what was written, but from the start of the buffer it is given.
WriteEx(s, c, stream, net) ==
  LET begun == [Goto(s, "write", c, "allocated") EXCEPT
                  !.call.phase = "go",
                  !.chan[c].write_bufwrote = IF At(s, "write", c) = "idle" THEN 0 ELSE @]
  IN  IF s.call.phase = ""
        THEN IF At(s, "write", c) = "idle" /\ s.chan[c].local.close THEN R(s, "FAIL")
                                                                     ELSE R(begun, "MORE")
      ELSE IF s.call.left = 0 THEN R(Goto(s, "write", c, "idle"), "")
      ELSE IF s.chan[c].local.window_size <= 0 THEN AwaitWindow(s, c, net)
      ELSE WritePiece(s, c, stream)

\* libssh2_channel_send_eof
SendEof(s, c) ==
  LET w == PacketWrite(s, Packet("EOF", s.chan[c].remote.id, 0, 0, ""))
  IN  IF w.rc # "" THEN R(w.s, "FAIL") ELSE R([w.s EXCEPT !.chan[c].local.eof = TRUE], "")

-----------------------------------------------------------------------------
(* Closing. *)

\* libssh2_channel_wait_eof
WaitEof(s, c, net) ==
  LET after(r) == IF r.rc \in {"EAGAIN", "WAIT", "FAIL"} THEN r ELSE R(r.s, "MORE")
  IN  IF s.chan[c].remote.eof THEN R(s, "") ELSE after(PacketRead(s, net))

\* libssh2_channel_wait_closed: it reads on while the channel is closed.
WaitClosed(s, c, net) ==
  LET after(r) == CASE r.rc \in {"EAGAIN", "WAIT"} -> r
                    [] r.rc \in {"FAIL", "NONE"} -> R(r.s, "")
                    [] OTHER -> R([r.s EXCEPT !.call.phase = "go"], "MORE")
  IN  IF s.call.phase = "" /\ ~Eof(s, c) THEN R(s, "FAIL")
      ELSE IF ~s.chan[c].remote.close THEN R(s, "")
      ELSE after(PacketRead(s, net))

\* seeded fault: it waits although the server's CLOSE has come
CloseWaits(s, c, net) ==
  LET sends(w) == IF w.rc # "" THEN R(w.s, "FAIL") ELSE R([w.s EXCEPT !.call.phase = "wait"], "MORE")
      after(r) == CASE r.rc \in {"EAGAIN", "WAIT", "FAIL"} -> r
                    [] r.rc = "CLOSE" -> R(r.s, "")
                    [] OTHER -> R(r.s, "MORE")
  IN  CASE s.call.phase # "" -> after(PacketRead(s, net))
        [] s.call.phase = "" /\ s.chan[c].local.close -> R(s, "")
        [] OTHER -> sends(PacketWrite([s EXCEPT !.chan[c].local.close = TRUE],
                                      Packet("CLOSE", s.chan[c].remote.id, 0, 0, "")))

\* libssh2_channel_close: any channel's CLOSE ends the wait; a second call
\* does nothing.
Close(s, c, net) ==
  LET sends(w) == IF w.rc # "" THEN R(w.s, "FAIL")
                  ELSE IF s.chan[c].remote.close THEN R(w.s, "")
                  ELSE R([w.s EXCEPT !.call.phase = "wait"], "MORE")
      after(r) == CASE r.rc \in {"EAGAIN", "WAIT", "FAIL"} -> r
                    [] r.rc = "CLOSE" -> R(r.s, "")
                    [] OTHER -> R(r.s, "MORE")
  IN  CASE s.call.phase # "" -> after(PacketRead(s, net))
        [] s.call.phase = "" /\ s.chan[c].local.close -> R(s, "")
        [] OTHER -> sends(PacketWrite([s EXCEPT !.chan[c].local.close = TRUE],
                                      Packet("CLOSE", s.chan[c].remote.id, 0, 0, "")))

\* Out of the list it is thought to be in: a channel that waits in a listener's
\* queue is the head of the session's list to this code, and what follows it in
\* the queue takes the place of the session's channels.
Unlinked(s, c) ==
  LET q(i) == s.listeners[i].queue
      in   == {i \in DOMAIN s.listeners : \E k \in DOMAIN q(i) : q(i)[k] = c}
      rest(i) == SubSeq(q(i), (CHOOSE k \in DOMAIN q(i) : q(i)[k] = c) + 1, Len(q(i)))
  IN  [s EXCEPT !.channels = IF in = {} THEN Only(@, Range(@) \ {c}) ELSE rest(First(in))]

\* libssh2_channel_free: closed first, unless the connection is known to be
\* lost; an EAGAIN of the close is followed by another, which does nothing.
Free(s, c, net) ==
  LET freed(t)  == R(Forget(Unlinked(t, c), c), "")
      closed(r) == IF r.rc \in {"", "EAGAIN"} THEN freed(r.s) ELSE r
  IN  IF s.call.phase = "" /\ (s.chan[c].local.close \/ s.socket_state # "connected") THEN freed(s)
      ELSE closed(Close(s, c, net))

-----------------------------------------------------------------------------
(* Listening. *)

\* libssh2_channel_forward_listen_ex: the newest listener is the first.
ForwardListen(s, port, max, net) ==
  LET listener == [port |-> port, queue |-> <<>>, queue_size |-> 0, queue_maxsize |-> max]
      answered(q) == IF q.rc # "" THEN R(q.s, q.rc)
                     ELSE IF q.p.type = "REQUEST_FAILURE" THEN R(q.s, "DENIED")
                     ELSE R([q.s EXCEPT !.listeners = <<listener>> \o @], "")
  IN  answered(Request(s, "fwdLstn", 0, Packet("GLOBAL_REQUEST", 0, 0, 0, port),
                       <<"REQUEST_SUCCESS", "REQUEST_FAILURE">>, Nobody, net))

\* libssh2_channel_forward_accept: reads on as long as packets come.
ForwardAccept(s, i, net) ==
  LET dequeued(t) ==
        LET l == t.listeners[i]
        IN  IF l.queue = <<>> THEN R(t, "FAIL")
            ELSE R([t EXCEPT !.channels = <<Head(l.queue)>> \o @,
                             !.listeners[i] = [l EXCEPT !.queue = Tail(@), !.queue_size = @ - 1]], "")
      after(r) == CASE r.rc \in {"EAGAIN", "WAIT"} -> r
                    [] r.rc \in {"FAIL", "NONE"} -> dequeued(r.s)
                    [] OTHER -> R(r.s, "MORE")
  IN  after(PacketRead(s, net))

\* libssh2_channel_forward_cancel: what waits in the queue is freed, whatever
\* comes of it.  call.left is the place in the queue.
ForwardCancel(s, i, net) ==
  LET queue == s.listeners[i].queue
      next(t, k) == R([t EXCEPT !.call = [Call(k, 0) EXCEPT !.got = <<"cancelling">>]], "MORE")
      sent(w)  == IF w.rc # "" THEN R(w.s, "FAIL") ELSE next(w.s, 1)
      freed(f) == IF f.rc \in {"MORE", "WAIT"} THEN f ELSE next(f.s, s.call.left + 1)
  IN  IF s.call.got = <<>> THEN sent(PacketWrite(s, Packet("GLOBAL_REQUEST", 0, 0, 0, "cancel")))
      ELSE IF s.call.left <= Len(queue) THEN freed(Free(s, queue[s.call.left], net))
      ELSE R([s EXCEPT !.listeners = RemoveAt(@, i)], "")

=============================================================================
