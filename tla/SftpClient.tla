----------------------------- MODULE SftpClient ------------------------------
(***************************************************************************)
(* A program that uses the file transfer of libssh2, one call after the    *)
(* other, and a server that answers in any order and may fail in several   *)
(* ways.                                                                   *)
(***************************************************************************)
EXTENDS Sftp

CONSTANTS
  Scenarios,  \* [todo, sftp, server, parts]: how it may begin
  FileSize    \* length of every file, and names in every directory

VARIABLES
  f,    \* the LIBSSH2_SFTP and its channel
  srv,  \* the server
  app   \* the program

vars == <<f, srv, app>>

\* A call: the operation, on which of the program's handles, a path or a kind
\* of request, how many bytes (or the place to seek).  again: it is made again
\* when it says EAGAIN.
Does(op, of, arg, n) == [op |-> op, of |-> of, arg |-> arg, n |-> n, again |-> FALSE]

\* paths, read and wrote have what each handle was opened for, what was read on
\* it and how much was written, since the place base where it began; mislaid the
\* ids that a mkdir asked for in the place of its own.
Begins(x) ==
  /\ f = x.sftp
  /\ srv = x.server
  /\ app = [todo |-> x.todo, busy |-> FALSE, buffer |-> <<>>, paths |-> <<>>, base |-> <<>>,
            read |-> <<>>, wrote |-> <<>>, lossy |-> {}, givenUp |-> {}, left |-> {}, taken |-> FALSE,
            mislaid |-> {}, parts |-> x.parts]

Starts == \E x \in Scenarios : Begins(x)

-----------------------------------------------------------------------------
(* The program. *)

Now == Head(app.todo)

\* Where a call keeps its state.
Slot == CASE Now.op = "opendir" -> <<"open", 0>>
          [] Now.op = "close"   -> <<"close", Now.of>>
          [] OTHER              -> <<Now.op, 0>>

\* The program's k-th handle is the k-th that was opened.  (taken: the call goes
\* on with another, which was left at an EAGAIN.)
Begin ==
  /\ app.todo # <<>> /\ ~app.busy
  /\ f' = [f EXCEPT !.call = Call(app.buffer)]
  /\ app' = [app EXCEPT !.busy = TRUE, !.taken = @ \/ (Slot \in app.left /\ At(f, Slot).pos # "idle")]
  /\ UNCHANGED srv

Quit == Does("shutdown", 0, "", 0)

OnHandle == {"read", "readdir", "write", "seek", "fstat", "close"}

\* What comes next: calls on a handle that could not be opened are left out, and
\* all of them when there is no session.
NextCalls(r) ==
  LET rest == Tail(app.todo)
      can  == {i \in DOMAIN rest : rest[i].op \in OnHandle => rest[i].of \in DOMAIN r.f.handles}
      next == CHOOSE i \in can : \A j \in can : i <= j
  IN  IF r.rc = "EAGAIN" /\ Now.again THEN app.todo
      ELSE IF r.f.channel = "ready" /\ rest # <<>> THEN SubSeq(rest, next, Len(rest)) ELSE <<>>

\* A call that ends without an answer gives its request up.
Returned(r) ==
  LET opened == Len(r.f.handles) > Len(f.handles)
      gives  == r.rc \in {"FAIL", "TIMEOUT"} \/ (r.rc = "EAGAIN" /\ ~Now.again)
      done   == [app EXCEPT
                   !.busy = FALSE, !.todo = NextCalls(r),
                   !.buffer = IF r.rc = "EAGAIN" /\ Now.again THEN r.f.call.got ELSE <<>>,
                   !.left = IF gives /\ r.rc = "EAGAIN" THEN @ \cup {Slot} ELSE @,
                   !.givenUp = IF gives /\ At(f, Slot).pos # "idle" THEN @ \cup {At(f, Slot).req.id} ELSE @,
                   !.mislaid = IF Now.op = "mkdir" /\ r.rc = "EAGAIN"
                                 THEN @ \cup ({At(r.f, Slot).req.id} \ {At(f, Slot).req.id}) ELSE @]
  IN  IF opened THEN [done EXCEPT !.paths = Append(@, Now.arg), !.base = Append(@, 0),
                                  !.read = Append(@, <<>>), !.wrote = Append(@, 0)]
      ELSE IF r.rc = "" /\ Now.op \in {"read", "readdir"} THEN [done EXCEPT !.read[Now.of] = @ \o r.f.call.got]
      ELSE IF r.rc = "" /\ Now.op = "write" THEN [done EXCEPT !.wrote[Now.of] = @ + Now.n]
      ELSE IF r.rc = "" /\ Now.op = "seek"
        THEN [done EXCEPT !.base[Now.of] = Now.n, !.read[Now.of] = <<>>, !.wrote[Now.of] = 0]
      ELSE IF (gives \/ r.rc = "DENIED") /\ (r.f.call.got # <<>> \/ Now.op = "readdir")
        THEN [done EXCEPT !.lossy = @ \cup {Now.of}]
      ELSE done

Result(net) ==
  Step(f, Now.op, Now.of, Now.arg, Now.n, IF Now.op = "write" THEN app.wrote[Now.of] ELSE 0, net)

\* One step of the call, and what the channel does in it.
Run(net) ==
  /\ app.todo # <<>> /\ app.busy
  /\ net # "whole" => app.parts > 0
  /\ \E r \in {Result(net)} :
       /\ r.rc # "WAIT"
       /\ net # "whole" => r # Result("whole")
       /\ f' = r.f
       /\ app' = [(IF r.rc = "MORE" THEN app ELSE Returned(r)) EXCEPT
                    !.parts = IF net = "whole" THEN @ ELSE @ - 1]
  /\ UNCHANGED srv

Done == app.todo = <<>> /\ UNCHANGED vars

-----------------------------------------------------------------------------
(* The server. *)

Server(version, may) ==
  [version |-> version, may |-> may, handles |-> <<>>, written |-> [x \in {} |-> 0], held |-> <<>>]

\* What programs are made of, and what they start from: every operation, called
\* as its function is meant to be, and last of all the end of the session.
Ops == {"init", "open", "opendir", "read", "readdir", "write", "seek", "fstat", "close", "unlink",
        "rename", "mkdir", "rmdir", "stat", "symlink", "shutdown"}

Calls ==
  {c \in [op : Ops, of : Nat, arg : STRING, n : Nat, again : BOOLEAN] :
     /\ c.op = "stat"    => c.arg \in {"STAT", "LSTAT", "SETSTAT"}
     /\ c.op = "fstat"   => c.arg \in {"FSTAT", "FSETSTAT"}
     /\ c.op = "symlink" => c.arg \in {"SYMLINK", "READLINK", "REALPATH"}}

ASSUME ProgramAssumption ==
  \A x \in Scenarios :
    /\ x.todo \in Seq(Calls) /\ x.todo # <<>> /\ Last(x.todo).op = "shutdown"
    /\ x.sftp.request_id \in Nat
    /\ x.sftp = [NewSftp(x.sftp.request_id) EXCEPT !.refused = x.sftp.refused]
    /\ x.server = Server(x.server.version, x.server.may)

Least(a, b) == IF a < b THEN a ELSE b

Answer(r, type, of, n, from) == Packet(type, r.id, of, n, from, "")

\* What is written replaces what was there.
Store(v, path, r) ==
  LET new == {<<path, r.from + i>> : i \in 1..r.n}
  IN  [v EXCEPT !.written = [x \in DOMAIN @ \cup new |-> IF x \in new THEN r.what + x[2] - r.from ELSE @[x]]]

\* What a request leads to: the server after it and what it says.
Granted(v, r) ==
  LET known == r.of \in DOMAIN v.handles
      next  == v.handles[r.of].next
      left  == FileSize - next
      says(packets) == {[v |-> v, say |-> packets]}
      opens(dir) ==
        LET h == Len(v.handles) + 1
        IN  {[v   |-> [v EXCEPT !.handles = Append(@, [path |-> r.of, next |-> 0])],
              say |-> first \o <<Answer(r, "HANDLE", h, 0, 0)>>] :
               first \in {<<>>} \cup (IF "ok first" \in v.may THEN {<<Status(r.id, "OK")>>} ELSE {})}
  IN  CASE r.type = "INIT" -> says(<<Answer(r, "VERSION", 0, v.version, 0)>>)
        [] r.type \in {"OPEN", "OPENDIR"} -> opens(r.type = "OPENDIR")
        [] r.type = "READ" ->
             IF r.from >= FileSize THEN says(<<Status(r.id, "EOF")>>)
             ELSE UNION {says(<<Answer(r, "DATA", v.handles[r.of].path, k, r.from)>>) : k \in 1..Least(r.n, FileSize - r.from)}
        [] r.type = "READDIR" ->
             IF left = 0 THEN says(<<Status(r.id, "EOF")>>) \cup says(<<Answer(r, "NAME", 0, 0, 0)>>)
             ELSE {[v   |-> [v EXCEPT !.handles[r.of].next = @ + k],
                    say |-> <<Answer(r, "NAME", v.handles[r.of].path, k, next)>>] : k \in 1..left}
        [] r.type = "WRITE" ->
             {[v |-> Store(v, v.handles[r.of].path, r), say |-> <<Status(r.id, "OK")>>]}
        [] r.type \in {"STAT", "LSTAT", "FSTAT"} -> says(<<Answer(r, "ATTRS", 0, 0, 0)>>)
        [] r.type \in {"READLINK", "REALPATH"} -> says(<<Answer(r, "NAME", r.of, 1, 0)>>)
        [] OTHER -> says(<<Status(r.id, "OK")>>)

Refusing(v, r) ==
  IF "refuse" \in v.may /\ r.type # "INIT"
    THEN {[v |-> [v EXCEPT !.may = @ \ {"refuse"}], say |-> <<Status(r.id, "FAILURE")>>]} ELSE {}

\* The next request is taken and done.
Serve ==
  /\ f.outbound # <<>> /\ ~f.closed /\ ~f.gone
  /\ \E x \in Granted(srv, Head(f.outbound)) \cup Refusing(srv, Head(f.outbound)) :
       srv' = [x.v EXCEPT !.held = @ \o x.say]
  /\ f' = [f EXCEPT !.outbound = Tail(@)]
  /\ UNCHANGED app

\* An answer goes out: of several the order is free, but not of those to one
\* request.
Send ==
  /\ ~f.closed /\ ~f.gone
  /\ \E i \in DOMAIN srv.held :
       /\ \A j \in 1..(i - 1) : srv.held[j].id # srv.held[i].id
       /\ f' = [f EXCEPT !.inbound = Append(@, srv.held[i])]
       /\ srv' = [srv EXCEPT !.held = RemoveAt(@, i)]
  /\ UNCHANGED app

\* The server ends the channel between two answers or in the middle of one, or
\* the connection is lost.
Close ==
  /\ "close" \in srv.may /\ f.channel = "ready" /\ ~f.closed /\ ~f.gone
  /\ f' = [f EXCEPT !.closed = TRUE]
  /\ UNCHANGED <<srv, app>>

Cut ==
  /\ "cut" \in srv.may /\ srv.held # <<>> /\ f.channel = "ready" /\ ~f.closed /\ ~f.gone
  /\ f' = [f EXCEPT !.inbound = Append(@, [Head(srv.held) EXCEPT !.cut = TRUE]), !.closed = TRUE]
  /\ UNCHANGED <<srv, app>>

Drop ==
  /\ "drop" \in srv.may /\ ~f.gone
  /\ f' = [f EXCEPT !.gone = TRUE]
  /\ UNCHANGED <<srv, app>>

-----------------------------------------------------------------------------

Next ==
  \/ Begin
  \/ Run("whole")
  \/ Run("part")
  \/ Run("again")
  \/ Run("late")
  \/ Done
  \/ Serve
  \/ Send
  \/ Close
  \/ Cut
  \/ Drop

Spec == Starts /\ [][Next]_vars

\* A call that can go on does: WF_vars(Run("whole")), with what enables that
\* step written out.
CanRun ==
  /\ app.todo # <<>> /\ app.busy
  /\ LET r == Result("whole")
     IN  r.rc # "WAIT" /\ <<r.f, IF r.rc = "MORE" THEN app ELSE Returned(r)>> # <<f, app>>

Runs == []<>~CanRun \/ []<><<Run("whole")>>_vars

\* The program goes on, and requests are answered.
FairSpec == Spec /\ WF_vars(Begin) /\ Runs /\ WF_vars(Serve) /\ WF_vars(Send)

-----------------------------------------------------------------------------
(* Properties *)

\* An answer is taken for the one to another request only if the two ids look
\* the same and a request has been given up before, or a mkdir that said EAGAIN
\* has lost its id (packet_ask, mkdir_ex); what is left over when no call is
\* running was asked for by a call that gave up.
AnswersAreTheirs ==
  /\ \A x \in f.answered :
       \/ x[1] = x[2]
       \/ LooksLike(x[1], x[2]) /\ (x[1] \in app.mislaid \/ \E k \in app.givenUp : k <= x[1])
  /\ DOMAIN f.at = {} /\ ~app.busy /\ app.givenUp = {} => f.packets = <<>> /\ f.inbound = <<>> /\ ~f.partial

\* A call has gone on with another one's request, or taken the answer to it.
Muddled == app.taken \/ \E x \in f.answered : x[1] # x[2]

\* A handle is of the file it was opened for.  The program reads the bytes of
\* that file or the names of that directory in order and without a gap, its
\* writes are in the file as it made them, and the handle's offset says how far
\* it is (open, read, readdir, write, seek).  It is not so on a handle where
\* reading failed after a part had come or did not wait for its names.
FilesInOrder ==
  \A k \in DOMAIN app.read : ~Muddled /\ k \notin app.lossy =>
    LET h == f.handles[k]
        path == srv.handles[h.of].path
    IN  /\ path = app.paths[k]
        /\ \A i \in DOMAIN app.read[k] : app.read[k][i] = <<path, app.base[k] + i>>
        /\ \A i \in 1..app.wrote[k] : srv.written[<<path, app.base[k] + i>>] = i
        /\ ~app.busy /\ ~h.dir =>
             h.offset = app.base[k] + Len(app.read[k]) + app.wrote[k]
                          + (IF app.todo # <<>> /\ Now.of = k THEN Len(app.buffer) ELSE 0)

\* What ends no call: an answer that the channel ends in the middle of, which
\* is read for ever, and a length of which less than four bytes had come.
Stuck == f.short \/ (f.closed /\ f.inbound # <<>> /\ Last(f.inbound).cut)

\* Every call returns.
Returns == [](app.busy => <>(~app.busy \/ Stuck))

=============================================================================
