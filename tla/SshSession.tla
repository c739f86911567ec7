----------------------------- MODULE SshSession -----------------------------
(***************************************************************************)
(* The session of libssh2 (session.c) over its packets, key exchange,      *)
(* authentication and channels, and the operations of the library as the   *)
(* program calls them.                                                     *)
(***************************************************************************)
EXTENDS SshKex, SshUserAuth, SshChannels

\* libssh2_banner_send: a line of text before any packet.
BannerSend(s) ==
  IF s.gone THEN R(s, "FAIL") ELSE R([s EXCEPT !.outbound = Append(@, Plain("BANNER"))], "")

\* libssh2_banner_receive: read byte by byte; a connection that is closed
\* before a line has come is a disconnected one.
BannerReceive(s) ==
  CASE s.inbound = <<>> /\ s.gone  -> R([s EXCEPT !.socket_state = "disconnected"], "FAIL")
    [] s.inbound = <<>> /\ ~s.gone -> R(s, "WAIT")
    [] OTHER -> R([s EXCEPT !.inbound = Tail(@)], IF Head(s.inbound).what = "empty" THEN "FAIL" ELSE "")

\* The last two parts of libssh2_session_startup: the service the methods of
\* authentication belong to is asked for, and must be the one accepted.
RequestService(s) ==
  LET sent(w) == IF w.rc = "" THEN R(Goto(w.s, "startup", 0, "sent4"), "MORE") ELSE R(w.s, "FAIL")
  IN  sent(PacketWrite(s, Plain("SERVICE_REQUEST")))

AwaitService(s, net) ==
  LET came(q) == IF q.rc # "" THEN R(q.s, q.rc)
                 ELSE IF q.p.what = "other service" THEN R(q.s, "FAIL")
                 ELSE R(Goto(q.s, "startup", 0, "idle"), "")
  IN  came(Require(s, "startup", "SERVICE_ACCEPT", net))

\* libssh2_session_startup.  It stays where it failed.  (kexRc is the result of
\* the exchange it has called.)
Startup(s, net) ==
  LET to(t, pos) == R(Goto(t, "startup", 0, pos), "MORE")
      o == BannerSend(s)
      b == BannerReceive(s)
      exchanged == [s EXCEPT !.kexRc = ""]
  IN  CASE At(s, "startup", 0) = "idle"  -> IF o.rc = "" THEN to(o.s, "sent")
                                            ELSE R(Goto(o.s, "startup", 0, "created"), "FAIL")
        [] At(s, "startup", 0) = "created" -> IF o.rc = "" THEN to(o.s, "sent") ELSE o
        [] At(s, "startup", 0) = "sent"  -> IF b.rc = "" THEN to(b.s, "sent1") ELSE b
        [] At(s, "startup", 0) = "sent1" ->
             CASE s.kexRc = ""     -> R([s EXCEPT !.kex = "startup"], "MORE")
               [] s.kexRc = "KEYS" -> to(exchanged, "sent2")
               [] OTHER            -> R(exchanged, s.kexRc)
        [] At(s, "startup", 0) = "sent2" -> RequestService(s)
        [] At(s, "startup", 0) = "sent4" -> AwaitService(s, net)

\* libssh2_session_callback_set, for LIBSSH2_CALLBACK_X11
CallbackSet(s) == R([s EXCEPT !.x11 = TRUE], "")

\* libssh2_session_disconnect_ex: what becomes of the packet does not matter.
Disconnect(s) == R(PacketWrite(s, Plain("DISCONNECT")).s, "")

\* libssh2_session_free.  free_state stays idle (session->state is set in its
\* place), so that neither channels are freed nor listeners cancelled.
SessionFree(s) ==
  R([NewSession EXCEPT !.socket_state = "freed", !.outbound = s.outbound, !.inbound = s.inbound,
                       !.gone = s.gone], "")

-----------------------------------------------------------------------------
(* A call: what it does in one step, net being what recv() meets. *)

\* The stream a call is about, or what of a channel a flush throws away.
StreamOf(arg) == IF arg = "stderr" THEN 1 ELSE 0

TypesOf(arg) ==
  CASE arg = "all" -> DataTypes [] arg = "stderr" -> {"EXTENDED_DATA"} [] OTHER -> {"DATA"}

\* arg is a callback, a file, a stream or a mode.
Operation(s, op, c, arg, net) ==
  CASE op = "startup"       -> Startup(s, net)
    [] op = "list"          -> UserauthList(s, net)
    [] op = "password"      -> UserauthPassword(s, arg = "callback", net)
    [] op = "hostbased"     -> UserauthHostbased(s, net)
    [] op = "publickey"     -> UserauthPublickey(s, arg, net)
    [] op = "interactive"   -> UserauthKeyboardInteractive(s, net)
    [] op = "open"          -> OpenEx(s, "session", net)
    [] op = "direct"        -> DirectTcpip(s, net)
    [] op = "setenv"        -> Setenv(s, c, net)
    [] op = "pty"           -> RequestPty(s, c, net)
    [] op = "pty_size"      -> RequestPtySize(s, c)
    [] op = "x11"           -> X11Req(s, c, net)
    [] op = "exec"          -> ProcessStartup(s, c, net)
    [] op = "read"          -> ReadEx(s, c, StreamOf(arg), net)
    [] op = "flush"         -> FlushEx(s, c, TypesOf(arg))
    [] op = "extended_data" -> HandleExtendedData(s, c, arg)
    [] op = "write"         -> WriteEx(s, c, StreamOf(arg), net)
    [] op = "send_eof"      -> SendEof(s, c)
    [] op = "wait_eof"      -> WaitEof(s, c, net)
    [] op = "wait_closed"   -> WaitClosed(s, c, net)
    [] op = "close"         -> Close(s, c, net)
    [] op = "free"          -> Free(s, c, net)
    [] op = "listen"        -> ForwardListen(s, "port", s.call.left, net)
    [] op = "accept"        -> ForwardAccept(s, 1, net)
    [] op = "cancel"        -> ForwardCancel(s, 1, net)
    [] op = "x11_callback"  -> CallbackSet(s)
    [] op = "disconnect"    -> Disconnect(s)
    [] op = "session_free"  -> SessionFree(s)

\* An exchange that is going on comes before the call it is a part of.
Step(s, op, c, arg, net) ==
  IF s.kex # "none" THEN KexStep(s, net) ELSE Operation(s, op, c, arg, net)

=============================================================================
