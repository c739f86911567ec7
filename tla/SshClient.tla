------------------------------ MODULE SshClient -------------------------------
(***************************************************************************)
(* A program that uses libssh2, as SSHSession.m and SSHChannel.m do: a     *)
(* sequence of calls, each of which runs until it returns, over a          *)
(* connection to a server.  The program's next call depends on what the    *)
(* last one returned, and a call that said EAGAIN may be made again.       *)
(***************************************************************************)
EXTENDS SshSession, SshServer

CONSTANTS
  Scenarios,   \* [todo, session, server, parts]: how it may begin
  ReadBuffer   \* readBufferSize

VARIABLES
  s,    \* the LIBSSH2_SESSION and its connection
  srv,  \* the server
  app   \* the program

vars == <<s, srv, app>>

\* A call: the operation, on which of the program's channels (0: the session),
\* what it is given, how many bytes and from which place on.  again: it is made
\* again when it says EAGAIN.  yes and no: where the program goes on.
Does(op, of, arg, n, from) ==
  [op |-> op, of |-> of, arg |-> arg, n |-> n, from |-> from,
   again |-> FALSE, yes |-> "next", no |-> "next"]

Begins(x) ==
  /\ s = x.session
  /\ srv = x.server
  /\ app = [todo |-> x.todo, busy |-> FALSE, mine |-> <<>>, read |-> <<>>, results |-> {},
            parts |-> x.parts, givenUp |-> {}, left |-> FALSE, resent |-> FALSE, lossy |-> {}, merged |-> {}]

Init == \E x \in Scenarios : Begins(x)

-----------------------------------------------------------------------------
(* What the scenarios may be: any sequence of calls that ends with           *)
(* disconnect and session_free, on a connection just made, which it starts   *)
(* with startup, or on one that was started before.                          *)

Ops == {"startup", "list", "password", "hostbased", "publickey", "interactive", "open", "direct",
        "setenv", "pty", "pty_size", "x11", "exec", "read", "flush", "extended_data", "write",
        "send_eof", "wait_eof", "wait_closed", "close", "free", "listen", "accept", "cancel",
        "x11_callback", "disconnect", "session_free"}

IsList(q) == q \in Seq(Range(q))

CallFields   == DOMAIN Does("", 0, "", 0, 0)
PacketFields == DOMAIN Plain("")

Usable(todo) ==
  /\ IsList(todo)
  /\ \A j \in DOMAIN todo :
       /\ DOMAIN todo[j] = CallFields
       /\ todo[j].op \in Ops
       /\ todo[j].yes \in {"next", "skip"} /\ todo[j].no \in {"next", "end"}
       /\ todo[j].op = "session_free" => j = Len(todo)
       /\ j = Len(todo) => todo[j].op = "session_free"
       /\ j = Len(todo) - 1 => todo[j].op = "disconnect"
       /\ j > Len(todo) - 2 => todo[j].yes = "next" /\ todo[j].no = "next"

NoStartup(todo) == \A j \in DOMAIN todo : todo[j].op # "startup"

Starts(todo) == todo # <<>> /\ todo[1].op = "startup" /\ todo[1].no = "end" /\ NoStartup(Tail(todo))

\* In startup the server's KEXINIT comes after m packets, with its guess.
Announced(q, m, k) ==
  /\ Len(q) = m + (IF Offers[q[m + 1].n].follows THEN 2 ELSE 1)
  /\ \A j \in DOMAIN q : q[j].key = k
  /\ q[m + 1].type = "KEXINIT"
  /\ \A j \in DOMAIN q : j > m + 1 => q[j].type = "GUESS"

\* The server has said its banner and its KEXINIT.
JustMade(x) ==
  LET q == x.session.inbound
      v == x.server
  IN  /\ Starts(x.todo)
      /\ x.session = [NewSession EXCEPT !.inbound = q]
      /\ IsList(q) /\ \A j \in DOMAIN q : DOMAIN q[j] = PacketFields
      /\ Announced(q, 1, 0) /\ q[1].type # "DISCONNECT"
      /\ v = [NewServer(0, v.may, v.opens, v.bytes, v.ext) EXCEPT !.offered = TRUE]

\* Keys have been exchanged.
MadeBefore(x) ==
  LET t == x.session
      v == x.server
  IN  /\ NoStartup(x.todo) /\ t.keys \in Nat
      /\ t = [NewSession EXCEPT !.state = {"NEWKEYS", "AUTHENTICATED"}, !.keys = t.keys,
                                !.session_id = t.session_id]
      /\ v = NewServer(t.keys, v.may, v.opens, v.bytes, v.ext)

\* Nothing else is assumed of the programs.  In an exchange the server begins
\* later (Rekey) it sends no guess along.
ASSUME ProgramAssumption ==
  /\ \A x \in Scenarios : Usable(x.todo) /\ (JustMade(x) \/ MadeBefore(x))
  /\ ~Offers[1].follows

-----------------------------------------------------------------------------
(* The program. *)

Now == Head(app.todo)
On  == IF Now.of = 0 THEN 0 ELSE app.mine[Now.of]

\* A read is given the buffer of SSHChannel, other calls what they are to write.
Begin ==
  /\ app.todo # <<>> /\ ~app.busy
  /\ s' = [s EXCEPT !.call = Call(IF Now.op = "read" THEN ReadBuffer ELSE Now.n, Now.from)]
  /\ app' = [app EXCEPT !.busy = TRUE]
  /\ UNCHANGED srv

\* disconnect and session_free, the last two calls of every program.
Ending == SubSeq(app.todo, Len(app.todo) - 1, Len(app.todo))

After(where) ==
  CASE where = "next" -> Tail(app.todo)
    [] where = "skip" -> SubSeq(app.todo, 3, Len(app.todo))
    [] where = "end"  -> Ending

\* readData: reading goes on until there are n bytes, also after an error; when
\* there is no data the channel is closed.
AfterRead(r, have) ==
  CASE r.rc = "EAGAIN" -> Tail(app.todo)
    [] r.rc = "" /\ r.s.call.got = <<>> ->
         <<Does("close", Now.of, "", 0, 0), Does("free", Now.of, "", 0, 0)>> \o Ending
    [] OTHER -> IF Len(have) < Now.n THEN app.todo ELSE Tail(app.todo)

NextCalls(r, have) ==
  IF Now.op = "read" THEN AfterRead(r, have)
  ELSE IF r.rc = "EAGAIN" /\ Now.again THEN app.todo
  ELSE After(IF r.rc = "" THEN Now.yes ELSE Now.no)

\* What the calls that send a request ask for.
Asks ==
  [list |-> {"none"}, password |-> {"password", "new password"}, hostbased |-> {"hostbased signed"},
   publickey |-> {"publickey", "publickey signed"},
   interactive |-> {"keyboard-interactive", "response"}, open |-> {"open"}, direct |-> {"open"},
   setenv |-> {"env"}, pty |-> {"pty-req"}, x11 |-> {"x11-req"}, exec |-> {"exec"},
   listen |-> {"listen"}]

\* The channel an answer is for: that of an open is made by the call.
AskedOn == IF Now.op \in {"open", "direct"} THEN s.open_channel ELSE On

Returned(r) ==
  LET mine  == CASE r.rc = "" /\ Now.op \in {"open", "direct"} -> Append(app.mine, r.s.open_channel)
                 [] r.rc = "" /\ Now.op = "accept" -> Append(app.mine, Head(r.s.channels))
                 [] OTHER -> app.mine
      have  == app.read[Now.of] \o r.s.call.got
      gives == r.rc \in {"TIMEOUT", "FAIL"} \/ (r.rc = "EAGAIN" /\ ~Now.again)
      lossy == IF Now.op = "flush" \/ (Now.op = "extended_data" /\ Now.arg = "ignore") THEN {On} ELSE {}
      todo  == NextCalls(r, IF Now.op = "read" THEN have ELSE <<>>)
      done  == [app EXCEPT !.busy = FALSE, !.todo = todo, !.mine = mine,
                           !.lossy = @ \cup lossy,
                           !.merged = IF Now.op = "extended_data" /\ Now.arg = "merge" THEN @ \cup {On} ELSE @,
                           !.resent = @ \/ (r.rc = "EAGAIN" /\ Now.op = "write"
                                            /\ s.chan[On].write_bufwrote > 0)]
  IN  IF Now.op = "read" THEN [done EXCEPT !.read[Now.of] = have]
      ELSE IF Now.op \in DOMAIN Asks /\ r.rc \in {"", "DENIED"}
        THEN [done EXCEPT !.results = @ \cup {<<Now.op, AskedOn, r.rc>>},
                          !.read = IF mine # app.mine THEN Append(@, <<>>) ELSE @]
      ELSE IF Now.op \in DOMAIN Asks /\ gives THEN [done EXCEPT !.givenUp = @ \cup {AskedOn}]
      ELSE IF mine # app.mine THEN [done EXCEPT !.read = Append(@, <<>>)]
      ELSE done

\* An exchange is left: at an EAGAIN, or because it fails within packet_add,
\* which tells nobody, so that the program goes on under the old keys.
Leaves(r, net) ==
  \/ {"EXCHANGING_KEYS", "KEX_ACTIVE"} \cap r.s.state = {"EXCHANGING_KEYS"}
  \/ s.kex = "add" /\ KexExchange(s, net).rc = "FAIL"

\* The channels that wait in a listener's queue: data for them is dropped.
Waiting(t) == UNION {Range(t.listeners[i].queue) : i \in DOMAIN t.listeners}

\* One step of the call.  Part of a packet is met only where the call reads.
Run(net) ==
  /\ app.todo # <<>> /\ app.busy
  /\ net # "whole" => app.parts > 0
  /\ \E r \in {Step(s, Now.op, On, Now.arg, net)} :
       /\ r.rc # "WAIT"
       /\ net # "whole" => r # Step(s, Now.op, On, Now.arg, "whole")
       /\ s' = r.s
       /\ app' = [(IF r.rc = "MORE" THEN app ELSE Returned(r)) EXCEPT
                    !.parts = IF net = "whole" THEN @ ELSE @ - 1,
                    !.left = @ \/ Leaves(r, net),
                    !.lossy = @ \cup Waiting(r.s)]
  /\ UNCHANGED srv

Done == app.todo = <<>> /\ UNCHANGED vars

-----------------------------------------------------------------------------
(* The server. *)

\* The server becomes v and says something; outbound is what it has not taken
\* yet.  While it exchanges keys only what belongs to that (kex) goes out.
Says(v, kex, say, outbound, closes) ==
  /\ s' = [s EXCEPT !.outbound = outbound, !.gone = closes,
                    !.inbound = @ \o kex \o (IF v.offered THEN <<>> ELSE Sealed(v, say))]
  /\ srv' = IF v.offered THEN [v EXCEPT !.held = @ \o say] ELSE v
  /\ UNCHANGED app

\* The next packet is taken.  One it cannot decipher ends the connection, as
\* libssh2's DISCONNECT does.
Serve ==
  /\ s.outbound # <<>> /\ ~s.gone
  /\ LET p == Head(s.outbound)
         v == [srv EXCEPT !.strayed = @ \/ (srv.exchanging /\ p.type \notin KexTypes)]
     IN  IF p.key # srv.keysIn
           THEN Says([v EXCEPT !.undeciphered = TRUE], <<>>, <<>>, Tail(s.outbound), TRUE)
           ELSE \E x \in Reactions(v, p) :
                  Says(x.v, x.now, x.say, Tail(s.outbound),
                       \E q \in {p} \cup Range(x.say) : q.type = "DISCONNECT")

\* What it does by itself it does not while keys are exchanged.
Freely(results) ==
  /\ ~s.gone /\ ~srv.offered
  /\ \E x \in results : Says(x.v, <<>>, x.say, s.outbound, FALSE)

SendData == Freely(UNION {DataSent(srv, c) : c \in DOMAIN srv.chan})
Adjust   == Freely(UNION {Adjusted(srv, c) : c \in DOMAIN srv.chan})
Finish   == Freely(UNION {Finished(srv, c) : c \in DOMAIN srv.chan})
Offering == Freely(Offered(srv))

\* Keys are exchanged once more, with the first of the offers.
Rekey ==
  /\ "rekey" \in srv.may /\ ~s.gone /\ ~srv.offered /\ ~srv.exchanging
  /\ Says([srv EXCEPT !.may = @ \ {"rekey"}, !.offered = TRUE],
          Sealed(srv, <<Packet("KEXINIT", 0, 1, 0, "")>>), <<>>, s.outbound, FALSE)

\* It says that it hangs up, or the connection is just lost.
HangUp ==
  /\ "hang up" \in srv.may /\ ~s.gone /\ ~srv.offered
  /\ Says([srv EXCEPT !.may = {}], <<>>, <<Plain("DISCONNECT")>>, s.outbound, TRUE)

Drop == "drop" \in srv.may /\ ~s.gone /\ Says([srv EXCEPT !.may = {}], <<>>, <<>>, s.outbound, TRUE)

-----------------------------------------------------------------------------

Next ==
  \/ Begin
  \/ Run("whole")
  \/ Run("part")
  \/ Run("late")
  \/ Done
  \/ Serve
  \/ SendData
  \/ Adjust
  \/ Finish
  \/ Offering
  \/ Rekey
  \/ HangUp
  \/ Drop

Spec == Init /\ [][Next]_vars

\* A call that can go on does: WF_vars(Run("whole")), with what enables that
\* step written out.
CanRun ==
  /\ app.todo # <<>> /\ app.busy
  /\ LET r == Step(s, Now.op, On, Now.arg, "whole")
     IN  r.rc # "WAIT" /\ <<r.s, IF r.rc = "MORE" THEN app ELSE Returned(r)>> # <<s, app>>

Runs == []<>~CanRun \/ []<><<Run("whole")>>_vars

\* The program goes on, and what is sent to it arrives; the server answers,
\* sends what it has, makes room and ends its commands.
Fairness ==
  /\ WF_vars(Begin) /\ Runs
  /\ WF_vars(Serve) /\ WF_vars(SendData) /\ WF_vars(Adjust) /\ WF_vars(Finish)

FairSpec == Spec /\ Fairness

-----------------------------------------------------------------------------
(* Properties *)

Ours == Range(s.channels)

\* The session's channels are channels, each once; what waits in the brigade is
\* part of a channel that is there and not read to its end; windows are not
\* negative.
TypeOK ==
  /\ s.socket_state \in {"connected", "disconnected", "freed"}
  /\ s.keys \in Nat /\ s.fullpacket \in {"", "kept", "bad"}
  /\ Ours \subseteq DOMAIN s.chan /\ Cardinality(Ours) = Len(s.channels)
  /\ \A c \in DOMAIN s.chan :
       {s.chan[c].local.window_size, s.chan[c].remote.window_size, s.chan[c].adjust_queue} \subseteq Nat
  /\ \A i \in DOMAIN s.packets :
       LET p == s.packets[i]
       IN  p.type \in DataTypes => p.ch \in DOMAIN s.chan /\ p.head < p.n

\* How much the packets of some types to channel c carry.
Carried(packets, types, c) ==
  Total([i \in DOMAIN packets |->
           IF packets[i].type \in types /\ packets[i].ch = c THEN packets[i].n ELSE 0])

\* The channels of the session that are open at both ends, on which nothing
\* was thrown away and which never waited in a listener.
Joined ==
  {c \in Ours \ app.lossy : /\ s.chan[c].remote.id \in DOMAIN srv.chan
                            /\ srv.chan[s.chan[c].remote.id].peer = c}

\* The two ends of a channel agree on its two windows, what is on its way taken
\* into account (packet_add, receive_window_adjust, write_ex), as long as
\* packets are taken at all.
WindowsAgree ==
  s.fullpacket = "" /\ ~srv.undeciphered => \A c \in Joined :
    LET here   == s.chan[c]
        there  == srv.chan[here.remote.id]
        coming == s.inbound \o srv.held
    IN  /\ here.remote.window_size =
             there.out + Carried(s.outbound, {"WINDOW_ADJUST"}, here.remote.id)
                       + Carried(coming, DataTypes, c)
        /\ here.local.window_size + Carried(s.outbound, DataTypes, here.remote.id)
             + Carried(coming, {"WINDOW_ADJUST"}, c) = there.in

\* No window is lost: what the server may still send, what waits to be read and
\* what is saved up for the next adjustment make the window the channel was
\* opened with (read_ex, packet_add), unless its streams have been merged.
WindowConserved ==
  \A c \in Ours \ (app.lossy \cup app.merged) :
    s.chan[c].remote.window_size + s.chan[c].adjust_queue
      + Carried(s.packets, DataTypes, c) = WindowDefault

\* Each stream is read in the order it was sent, without a gap and no further
\* than it was sent, and the server gets what is written in order, unless a
\* write said EAGAIN after a part of it and was repeated (SSHChannel.m:181).
StreamsInOrder ==
  /\ srv.disordered => app.resent
  /\ \A k \in DOMAIN app.read : app.mine[k] \notin app.lossy =>
       \A type \in DataTypes :
         LET stream == SelectSeq(app.read[k], LAMBDA b : b[1] = type)
             sent(c) == IF type = "DATA" THEN c.sent ELSE c.sentExt
         IN  /\ \A j \in DOMAIN stream : stream[j][2] = j
             /\ stream # <<>> => \E d \in DOMAIN srv.chan :
                  srv.chan[d].peer = app.mine[k] /\ Len(stream) <= sent(srv.chan[d])

\* The next packet is sealed with other keys than libssh2 has.
Unreadable ==
  /\ s.socket_state = "connected" /\ s.fullpacket = ""
  /\ s.inbound # <<>> /\ Head(s.inbound).key # s.keys

\* Neither end is sent a packet under keys it does not have, and nothing comes
\* between libssh2's KEXINIT and its NEWKEYS, unless an exchange has been left
\* (kex_exchange, packet_read, packet_add).
KeysAgree == srv.undeciphered \/ srv.strayed \/ Unreadable => app.left

Refusals == {"FAILURE", "PASSWD_CHANGEREQ", "CHANNEL_FAILURE", "OPEN_FAILURE", "REQUEST_FAILURE"}

\* What a call says has been granted or refused, has been, on that channel; a
\* call that gave up leaves its answer to the next one (requirev).
AnswersAreTheirs ==
  \A x \in app.results : x[2] \notin app.givenUp =>
    \E y \in srv.verdicts :
      /\ y[1] \in Asks[x[1]]
      /\ y[2] \in {0, x[2]}
      /\ (x[3] = "DENIED") <=> y[3] \in Refusals

\* The connection is lost, or libssh2 takes it to be.
Lost == s.gone \/ s.socket_state # "connected" \/ s.fullpacket # ""

\* What may wait for ever while the connection is there: accept and wait_closed
\* wait for it to be lost, a write for a window although the server has closed
\* the channel, and readData for data of a command that was not started.
Stuck ==
  \/ Now.op \in {"accept", "wait_closed"}
  \/ Now.op = "write" /\ On \in DOMAIN s.chan /\ s.chan[On].remote.close
  \/ Now.op = "read" /\ <<"exec", On, "">> \notin app.results

\* Every other call returns, or the connection is lost.
Returns == [](app.busy => <>(~app.busy \/ Lost \/ Stuck))

\* A readData on a closed connection ends, as its comment has it: "socket
\* closed or nonblocking socket && not enough data" (SSHChannel.m:146).
ReadEnds ==
  (app.todo # <<>> /\ Now.op = "read" /\ Lost) ~> (app.todo = <<>> \/ Now.op # "read")

=============================================================================
