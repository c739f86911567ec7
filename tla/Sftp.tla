-------------------------------- MODULE Sftp ---------------------------------
(***************************************************************************)
(* The file transfer client of libssh2 (sftp.c) over a channel, which is   *)
(* here what SshChannels makes of it: bytes that arrive in order, in       *)
(* pieces of any length.                                                   *)
(*                                                                         *)
(* A LIBSSH2_SFTP is a record f, with the two directions of its channel.   *)
(* As in SshPackets a function of the library is an operator that gives    *)
(* [f |-> , rc |-> ], takes one step, reads at most once, and keeps its    *)
(* place in a ..._state.  MORE: it is still running; WAIT: it is blocked   *)
(* in recv().  net says what the channel does: everything asked for        *)
(* ("whole"), a piece of it ("part"), EAGAIN ("again"), or EAGAIN with     *)
(* nothing more before LIBSSH2_READ_TIMEOUT ("late").                      *)
(***************************************************************************)
EXTENDS Integers, Sequences, FiniteSets, SequencesExt

CONSTANTS
  MaxRead,      \* LIBSSH2_SFTP_PACKET_MAXLEN - 13
  OurVersion,   \* LIBSSH2_SFTP_VERSION
  IdBase,       \* a request id is IdDigits digits (in the code bytes)
  IdDigits

R(f, rc) == [f |-> f, rc |-> rc]

-----------------------------------------------------------------------------
(* Packets. *)

\* of is a handle or a path, n a number of bytes, names or the version, from
\* the place in the file or the directory, what the status or, of what is
\* written, the place in what the program writes.  cut: the channel ends in it.
Packet(type, id, of, n, from, what) ==
  [type |-> type, id |-> id, of |-> of, n |-> n, from |-> from, what |-> what, cut |-> FALSE]

Status(id, what) == Packet("STATUS", id, 0, 0, 0, what)

\* On the channel a packet is Header bytes of length and the rest.
Header == 2
Size   == 4

\* handle, type, file offset and the names that are left of a NAME packet
Handle(of, dir) == [of |-> of, dir |-> dir, offset |-> 0, names |-> <<>>, freed |-> FALSE]

\* What a call has read, and where it is when it is not at a ..._state.
Call(got) == [phase |-> "", got |-> got]

NewSftp(id) ==
  [channel |-> "none", refused |-> FALSE, version |-> 0, request_id |-> id, mkdir_request_id |-> 0,
   packets |-> <<>>, partial |-> FALSE, pos |-> 0, short |-> FALSE,
   at |-> [k \in {} |-> 0], handles |-> <<>>, last_errno |-> "OK",
   call |-> Call(<<>>), answered |-> {},
   inbound |-> <<>>, outbound |-> <<>>, closed |-> FALSE, gone |-> FALSE]

\* The state variables of a function: pos is its ..._state, req its packet,
\* total what it has read.  Those of a handle have its number, others 0.
Idle == [pos |-> "idle", req |-> Status(0, ""), total |-> 0]

At(f, op) == IF op \in DOMAIN f.at THEN f.at[op] ELSE Idle

Goto(f, op, to) ==
  LET keys == IF to.pos = "idle" THEN DOMAIN f.at \ {op} ELSE DOMAIN f.at \cup {op}
  IN  [f EXCEPT !.at = [k \in keys |-> IF k = op THEN to ELSE f.at[k]], !.call.phase = ""]

Leave(f, op) == Goto(f, op, Idle)

-----------------------------------------------------------------------------
(* Writing and reading packets. *)

\* libssh2_channel_write_ex of a whole packet
ChannelWrite(f, req, net) ==
  IF f.gone THEN R(f, "FAIL")
  ELSE IF net # "whole" THEN R(f, "EAGAIN")
  ELSE R([f EXCEPT !.outbound = Append(@, req)], "")

\* sftp_packet_add, of the packet the channel is at
PacketAdd(f) ==
  R([f EXCEPT !.packets = Append(@, Head(f.inbound)), !.inbound = Tail(@),
              !.partial = FALSE, !.pos = 0], Head(f.inbound).type)

\* The length of the next packet.  Less than all of it is an error, and what has
\* been read of it is lost: what is then taken for a length is too large, or
\* that of some bytes which are no packet.
ReadLength(f, net) ==
  CASE f.pos # 0 /\ net = "whole" -> R([f EXCEPT !.inbound = Tail(@)], "FAIL")
    [] f.pos # 0 /\ net = "part"  ->
         R([f EXCEPT !.inbound = Tail(@), !.packets = Append(@, Packet("noise", -1, 0, 0, 0, ""))], "noise")
    [] f.pos = 0 /\ net = "part"  -> R([f EXCEPT !.pos = 1, !.short = TRUE], "FAIL")
    [] OTHER -> R([f EXCEPT !.pos = Header, !.partial = TRUE], "MORE")

\* seeded fault: an EAGAIN in the middle of a packet forgets that it is in one
PacketReadForgets(f, net) ==
  LET got == IF net = "part" THEN f.pos + 1 ELSE Size
  IN  IF f.gone THEN R([f EXCEPT !.partial = FALSE], "FAIL")
      ELSE IF f.inbound = <<>> THEN R(f, IF f.closed THEN "FAIL" ELSE "WAIT")
      ELSE IF net \in {"again", "late"} THEN R([f EXCEPT !.partial = FALSE], "EAGAIN")
      ELSE IF ~f.partial THEN ReadLength(f, net)
      ELSE IF Head(f.inbound).cut THEN R(f, "MORE")
      ELSE IF got < Size THEN R([f EXCEPT !.pos = got], "MORE")
      ELSE PacketAdd(f)

\* sftp_packet_read.  partial is its partial_packet or, while it runs, its
\* packet.  From a channel that is closed in a packet it reads 0 bytes for ever.
PacketRead(f, net) ==
  LET got == IF net = "part" THEN f.pos + 1 ELSE Size
  IN  IF f.gone THEN R([f EXCEPT !.partial = FALSE], "FAIL")
      ELSE IF f.inbound = <<>> THEN R(f, IF f.closed THEN "FAIL" ELSE "WAIT")
      ELSE IF net \in {"again", "late"} THEN R(f, "EAGAIN")
      ELSE IF ~f.partial THEN ReadLength(f, net)
      ELSE IF Head(f.inbound).cut THEN R(f, "MORE")
      ELSE IF got < Size THEN R([f EXCEPT !.pos = got], "MORE")
      ELSE PacketAdd(f)

-----------------------------------------------------------------------------
(* Looking for the answer to a request. *)

Digit(id, i) == (id \div IdBase^(IdDigits - i)) % IdBase

\* strncmp compares the ids from the most significant byte on, and no further
\* than to a byte that is 0.
LooksLike(id1, id2) ==
  \A i \in 1..IdDigits :
    Digit(id1, i) = Digit(id2, i) \/ \E j \in 1..(i - 1) : Digit(id1, j) = 0 /\ Digit(id2, j) = 0

Matches(p, type, id) == p.type = type /\ (type = "VERSION" \/ LooksLike(p.id, id))

Nothing == Status(-1, "none")

Not(f, rc) == [f |-> f, rc |-> rc, p |-> Nothing]

\* sftp_packet_ask, for the types in their order.  (answered is a record of
\* whose answers were taken for whose.)
Ask(f, types, id) ==
  LET hits == {x \in (DOMAIN types) \X (DOMAIN f.packets) : Matches(f.packets[x[2]], types[x[1]], id)}
      x    == CHOOSE y \in hits : \A z \in hits : y[1] < z[1] \/ (y[1] = z[1] /\ y[2] <= z[2])
      p    == f.packets[x[2]]
  IN  IF hits = {} THEN Not(f, "FAIL")
      ELSE [f  |-> [f EXCEPT !.packets = RemoveAt(@, x[2]),
                             !.answered = IF p.type = "VERSION" THEN @ ELSE @ \cup {<<id, p.id>>}],
            rc |-> "", p |-> p]

\* sftp_packet_require: a packet of the type that has come and does not match
\* ends it.
Require(f, type, id, net) ==
  LET found(a) == IF a.rc = "" THEN a ELSE Not([f EXCEPT !.call.phase = "read"], "MORE")
      after(r) == IF r.rc \in {"EAGAIN", "FAIL", "WAIT"} THEN Not(r.f, r.rc)
                  ELSE IF r.rc = type THEN Ask(r.f, <<type>>, id)
                  ELSE Not(r.f, "MORE")
  IN  IF f.call.phase = "" THEN found(Ask(f, <<type>>, id)) ELSE after(PacketRead(f, net))

\* sftp_packet_requirev: after each packet the brigade is looked through.
Requirev(f, types, id, net) ==
  LET found(a) == IF a.rc = "" THEN a ELSE Not([f EXCEPT !.call.phase = "read"], "MORE")
      after(r) == CASE r.rc = "EAGAIN" -> Not(r.f, IF net = "late" THEN "TIMEOUT" ELSE "EAGAIN")
                    [] r.rc \in {"FAIL", "WAIT"} -> Not(r.f, r.rc)
                    [] r.rc = "MORE" -> Not(r.f, "MORE")
                    [] OTHER -> Not([r.f EXCEPT !.call.phase = ""], "MORE")
  IN  IF f.call.phase = "" THEN found(Ask(f, types, id)) ELSE after(PacketRead(f, net))

-----------------------------------------------------------------------------
(* A request and its answer, as all functions have them. *)

\* The packet is made, with the next id.
Created(f, op, req) ==
  Goto([f EXCEPT !.request_id = @ + 1], op,
       [At(f, op) EXCEPT !.pos = "created", !.req = [req EXCEPT !.id = f.request_id]])

\* One type of answer is asked for with require, two are with requirev.
Answered(f, types, id, net) ==
  IF Len(types) = 1 THEN Require(f, types[1], id, net) ELSE Requirev(f, types, id, net)

\* seeded fault: after an EAGAIN the request is made anew
ExchangeAnew(f, op, req, types, net) ==
  LET at == At(f, op)
      sends(w) == IF w.rc = "" THEN Not(Goto(w.f, op, [at EXCEPT !.pos = "sent"]), "MORE")
                  ELSE Not(IF w.rc = "FAIL" THEN Leave(f, op) ELSE f, w.rc)
      came(a)  == CASE a.rc \in {"MORE", "WAIT"} -> a
                    [] a.rc = "EAGAIN" -> Not(Goto(a.f, op, [at EXCEPT !.pos = "created"]), "EAGAIN")
                    [] OTHER -> [a EXCEPT !.f = Leave(a.f, op)]
  IN  CASE at.pos = "idle"    -> Not(Created(f, op, req), "MORE")
        [] at.pos = "created" -> sends(ChannelWrite(f, at.req, net))
        [] at.pos = "sent"    -> came(Answered(f, types, at.req.id, net))

\* Idle, created and sent.  An EAGAIN leaves it where it is, for the next call
\* of a function that has the same state; everything else ends it.
Exchange(f, op, req, types, net) ==
  LET at == At(f, op)
      sends(w) == IF w.rc = "" THEN Not(Goto(w.f, op, [at EXCEPT !.pos = "sent"]), "MORE")
                  ELSE Not(IF w.rc = "FAIL" THEN Leave(f, op) ELSE f, w.rc)
      came(a)  == IF a.rc \in {"MORE", "WAIT", "EAGAIN"} THEN a ELSE [a EXCEPT !.f = Leave(a.f, op)]
  IN  CASE at.pos = "idle"    -> Not(Created(f, op, req), "MORE")
        [] at.pos = "created" -> sends(ChannelWrite(f, at.req, net))
        [] at.pos = "sent"    -> came(Answered(f, types, at.req.id, net))

Request(type, of, n, from, what) == Packet(type, 0, of, n, from, what)

\* What the status means to the caller; last_errno is set where the function
\* does so.
Verdict(f, p, sets) ==
  IF p.what = "OK" THEN R(f, "")
  ELSE R(IF sets THEN [f EXCEPT !.last_errno = p.what] ELSE f, "DENIED")

\* A function that is answered with a status only, or with that or what it asks
\* for.
StatusRequest(f, op, req, sets, net) ==
  LET told(q) == IF q.rc = "" THEN Verdict(q.f, q.p, sets) ELSE R(q.f, q.rc)
  IN  told(Exchange(f, op, req, <<"STATUS">>, net))

ValueRequest(f, op, req, type, net) ==
  LET told(q) == IF q.rc # "" THEN R(q.f, q.rc)
                 ELSE IF q.p.type = "STATUS" THEN Verdict(q.f, q.p, TRUE)
                 ELSE R(q.f, IF type = "NAME" /\ q.p.n < 1 THEN "DENIED" ELSE "")
  IN  told(Exchange(f, op, req, <<type, "STATUS">>, net))

-----------------------------------------------------------------------------
(* Files and directories by their paths. *)

\* libssh2_sftp_unlink_ex
Unlink(f, path, net) == StatusRequest(f, <<"unlink", 0>>, Request("REMOVE", path, 0, 0, ""), FALSE, net)

\* libssh2_sftp_rename_ex
Rename(f, path, net) ==
  IF f.version < 2 THEN R(f, "DENIED")
  ELSE StatusRequest(f, <<"rename", 0>>, Request("RENAME", path, 0, 0, ""), TRUE, net)

\* libssh2_sftp_mkdir_ex: the id is saved when writing says EAGAIN, and looked
\* up after every EAGAIN.
Mkdir(f, path, net) ==
  LET q == At(f, <<"mkdir", 0>>)
      told(r) ==
        CASE r.rc = "EAGAIN" /\ q.pos = "created" -> R([r.f EXCEPT !.mkdir_request_id = q.req.id], "EAGAIN")
          [] r.rc = "EAGAIN" /\ q.pos = "sent" ->
               R([r.f EXCEPT !.at[<<"mkdir", 0>>].req.id = f.mkdir_request_id], "EAGAIN")
          [] OTHER -> r
  IN  told(StatusRequest(f, <<"mkdir", 0>>, Request("MKDIR", path, 0, 0, ""), TRUE, net))

\* libssh2_sftp_rmdir_ex
Rmdir(f, path, net) == StatusRequest(f, <<"rmdir", 0>>, Request("RMDIR", path, 0, 0, ""), FALSE, net)

\* libssh2_sftp_stat_ex, for STAT, LSTAT and SETSTAT
Stat(f, path, type, net) == ValueRequest(f, <<"stat", 0>>, Request(type, path, 0, 0, ""), "ATTRS", net)

\* libssh2_sftp_symlink_ex, for SYMLINK, READLINK and REALPATH
Symlink(f, path, type, net) ==
  IF f.version < 3 /\ type # "REALPATH" THEN R(f, "DENIED")
  ELSE ValueRequest(f, <<"symlink", 0>>, Request(type, path, 0, 0, ""), "NAME", net)

-----------------------------------------------------------------------------
(* Handles. *)

\* libssh2_sftp_open_ex, of a file or a directory.  Instead of the handle there
\* may be a status that all is well, which the handle then follows.
OpenEx(f, path, dir, net) ==
  LET at == At(f, <<"open", 0>>)
      again(t)    == Goto(t, <<"open", 0>>, [at EXCEPT !.pos = "sent"])
      opens(t, p) == R([Leave(t, <<"open", 0>>) EXCEPT !.handles = Append(@, Handle(p.of, dir))], "")
      follows(h)  == CASE h.rc = ""       -> opens(h.f, h.p)
                       [] h.rc = "EAGAIN" -> R(again(h.f), "EAGAIN")
                       [] h.rc \in {"MORE", "WAIT"} -> R([h.f EXCEPT !.call.phase = "handle read"], h.rc)
                       [] OTHER -> R(Leave(h.f, <<"open", 0>>), "FAIL")
      answered(q) ==
        CASE q.rc # "" -> R(q.f, q.rc)
          [] q.rc = "" /\ q.p.type = "HANDLE" -> opens(q.f, q.p)
          [] q.rc = "" /\ q.p.type = "STATUS" /\ q.p.what = "OK" ->
               R([again(q.f) EXCEPT !.last_errno = "OK", !.call.phase = "handle"], "MORE")
          [] OTHER -> R([q.f EXCEPT !.last_errno = q.p.what], "DENIED")
  IN  IF f.call.phase \in {"handle", "handle read"}
        THEN follows(Require([f EXCEPT !.call.phase = IF @ = "handle" THEN "" ELSE "read"], "HANDLE", at.req.id, net))
        ELSE answered(Exchange(f, <<"open", 0>>, Request(IF dir THEN "OPENDIR" ELSE "OPEN", path, 0, 0, ""),
                               <<"HANDLE", "STATUS">>, net))

\* seeded fault: the offset moves by what was asked for
ReadGotAsked(f, h, at, p) ==
  [f EXCEPT !.handles[h].offset = @ + at.req.n,
            !.call.got = @ \o [i \in 1..p.n |-> <<p.of, p.from + i>>]]

\* A piece has come: it goes to the buffer, and the offset moves on.
ReadGot(f, h, at, p) ==
  [f EXCEPT !.handles[h].offset = @ + p.n,
            !.call.got = @ \o [i \in 1..p.n |-> <<p.of, p.from + i>>]]

\* libssh2_sftp_read, which asks for one piece after the other until it has n
\* bytes.  Its state is the session's, not the handle's.
Read(f, h, n, net) ==
  LET at   == At(f, <<"read", 0>>)
      left == n - at.total
      req  == Request("READ", f.handles[h].of, IF left > MaxRead THEN MaxRead ELSE left,
                      f.handles[h].offset, "")
      more(t, total) == R(Goto(t, <<"read", 0>>, [Idle EXCEPT !.pos = "allocated", !.total = total]), "MORE")
      answered(q) ==
        CASE q.rc # "" -> R(q.f, q.rc)
          [] q.rc = "" /\ q.p.type = "DATA" -> more(ReadGot(q.f, h, at, q.p), at.total + q.p.n)
          [] OTHER -> IF q.p.what = "EOF" THEN R(q.f, "") ELSE Verdict(q.f, q.p, TRUE)
  IN  IF at.pos = "idle" THEN more(f, 0)
      ELSE IF left <= 0 THEN R(Leave(f, <<"read", 0>>), "")
      ELSE IF at.pos = "allocated" THEN R(Created(f, <<"read", 0>>, req), "MORE")
      ELSE answered(Exchange(f, <<"read", 0>>, req, <<"DATA", "STATUS">>, net))

\* libssh2_sftp_readdir_ex: one name, of those left or of the next packet.
Readdir(f, h, net) ==
  LET left == f.handles[h].names
      names(p) == [i \in 1..p.n |-> <<p.of, p.from + i>>]
      gives(t, list) == IF Len(list) > 1 THEN R([t EXCEPT !.handles[h].names = list], "MORE")
                                         ELSE R([t EXCEPT !.call.got = list], "")
      answered(q) ==
        CASE q.rc # "" -> R(q.f, q.rc)
          [] q.rc = "" /\ q.p.type = "NAME" -> gives(q.f, names(q.p))
          [] OTHER -> IF q.p.what = "EOF" THEN R(q.f, "") ELSE Verdict(q.f, q.p, TRUE)
  IN  IF At(f, <<"readdir", 0>>).pos = "idle" /\ left # <<>>
        THEN R([f EXCEPT !.handles[h].names = Tail(@), !.call.got = <<Head(left)>>], "")
        ELSE answered(Exchange(f, <<"readdir", 0>>, Request("READDIR", f.handles[h].of, 0, 0, ""), <<"NAME", "STATUS">>, net))

\* libssh2_sftp_write, of n bytes of which the program's place is what
Write(f, h, n, what, net) ==
  LET written(r) == IF r.rc = "" THEN R([r.f EXCEPT !.handles[h].offset = @ + n], "") ELSE r
  IN  written(StatusRequest(f, <<"write", 0>>, Request("WRITE", f.handles[h].of, n, f.handles[h].offset, what), TRUE, net))

\* libssh2_sftp_fstat_ex, for FSTAT and FSETSTAT
Fstat(f, h, type, net) == ValueRequest(f, <<"fstat", 0>>, Request(type, f.handles[h].of, 0, 0, ""), "ATTRS", net)

\* libssh2_sftp_seek, seek64, tell and tell64
Seek(f, h, offset) == R([f EXCEPT !.handles[h].offset = offset], "")

\* libssh2_sftp_close_handle, whose state is the handle's.  (Handles are never
\* linked, open_ex does not change sftp->handles.)
CloseHandle(f, h, net) ==
  LET closed(r) == IF r.rc = "" THEN R([r.f EXCEPT !.handles[h].freed = TRUE], "") ELSE r
  IN  closed(StatusRequest(f, <<"close", h>>, Request("CLOSE", f.handles[h].of, 0, 0, ""), TRUE, net))

-----------------------------------------------------------------------------
(* Beginning and end. *)

\* The error exit of libssh2_sftp_init frees the channel and the session.
InitError(f, rc) == R([Leave(f, <<"init", 0>>) EXCEPT !.channel = "freed"], rc)

\* libssh2_sftp_init: a channel, the subsystem on it, which may be refused, the
\* two versions.
Init(f, net) ==
  LET at == At(f, <<"init", 0>>)
      to(t, pos) == R(Goto(t, <<"init", 0>>, [at EXCEPT !.pos = pos]), "MORE")
      goes == IF f.gone THEN "FAIL" ELSE IF net # "whole" THEN "EAGAIN" ELSE ""
      sends(w) == IF w.rc = "" THEN to(w.f, "sent3")
                  ELSE IF w.rc = "EAGAIN" THEN R(f, w.rc) ELSE InitError(f, "FAIL")
      agrees(v) ==
        CASE v.rc \in {"MORE", "WAIT", "EAGAIN"} -> R(v.f, v.rc)
          [] v.rc \in {"FAIL", "TIMEOUT"} -> InitError(v.f, "FAIL")
          [] OTHER -> R([Leave(v.f, <<"init", 0>>) EXCEPT
                           !.channel = "ready",
                           !.version = IF v.p.n > OurVersion THEN OurVersion ELSE v.p.n], "")
  IN  CASE at.pos = "idle" -> to(f, "created")
        [] at.pos = "created" ->
             IF goes = "" THEN to([f EXCEPT !.channel = "open"], "sent")
             ELSE R(IF goes = "FAIL" THEN Leave(f, <<"init", 0>>) ELSE f, goes)
        [] at.pos = "sent" ->
             IF goes = "EAGAIN" THEN R(f, goes)
             ELSE IF goes = "FAIL" \/ f.refused THEN InitError(f, "FAIL")
             ELSE to(f, "sent2")
        [] at.pos = "sent2" -> sends(ChannelWrite(f, Request("INIT", 0, OurVersion, 0, ""), net))
        [] at.pos = "sent3" -> agrees(Require(f, "VERSION", 0, net))

\* libssh2_sftp_dtor, as the channel is freed
Dtor(f) == [f EXCEPT !.channel = "freed", !.partial = FALSE, !.packets = <<>>, !.inbound = <<>>, !.at = [k \in {} |-> 0]]

\* libssh2_sftp_shutdown.  The channel stays when its CLOSE cannot be written.
Shutdown(f) == IF f.gone THEN R([f EXCEPT !.partial = FALSE], "FAIL") ELSE R(Dtor(f), "")

-----------------------------------------------------------------------------

\* A call of the program, and what it does in one step.
Step(f, op, h, arg, n, from, net) ==
  CASE op = "init"    -> Init(f, net)
    [] op = "open"    -> OpenEx(f, arg, FALSE, net)
    [] op = "opendir" -> OpenEx(f, arg, TRUE, net)
    [] op = "read"    -> Read(f, h, n, net)
    [] op = "readdir" -> Readdir(f, h, net)
    [] op = "write"   -> Write(f, h, n, from, net)
    [] op = "seek"    -> Seek(f, h, n)
    [] op = "fstat"   -> Fstat(f, h, arg, net)
    [] op = "close"   -> CloseHandle(f, h, net)
    [] op = "unlink"  -> Unlink(f, arg, net)
    [] op = "rename"  -> Rename(f, arg, net)
    [] op = "mkdir"   -> Mkdir(f, arg, net)
    [] op = "rmdir"   -> Rmdir(f, arg, net)
    [] op = "stat"    -> Stat(f, "file", arg, net)
    [] op = "symlink" -> Symlink(f, "link", arg, net)
    [] op = "shutdown" -> Shutdown(f)

=============================================================================
