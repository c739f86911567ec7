------------------------------ MODULE SshServer -------------------------------
(***************************************************************************)
(* A server of the SSH protocol as libssh2 relies on it: it answers in     *)
(* order, keeps to the windows it is granted and sends nothing else while  *)
(* it exchanges keys.  It is not code of the repository; what it expects   *)
(* and says is what the code on the other side sends and waits for.        *)
(*                                                                         *)
(* A server is a record v.  may is what else it does: refuse requests,     *)
(* forge a signature, exchange keys again, hang up or drop the connection. *)
(***************************************************************************)
EXTENDS SshPackets

CONSTANTS
  ServerWindow,  \* the window it grants on a channel
  MaxTries       \* how many requests of authentication it answers

NewServer(keys, may, opens, bytes, ext) ==
  [keysIn |-> keys, keysOut |-> keys, offered |-> FALSE, exchanging |-> FALSE, held |-> <<>>,
   undeciphered |-> FALSE, strayed |-> FALSE, disordered |-> FALSE,
   chan |-> [c \in {} |-> 0], verdicts |-> {}, tries |-> 0,
   may |-> may, opens |-> opens, bytes |-> bytes, ext |-> ext]

\* Its end of a channel: peer is libssh2's id, out what it may send and in what
\* it may be sent; left and ext are the data it still has for the two streams.
ServerChannel(v, peer, out, stage) ==
  [peer |-> peer, out |-> out, in |-> ServerWindow, stage |-> stage, got |-> 0,
   sent |-> 0, left |-> v.bytes, sentExt |-> 0, ext |-> v.ext]

\* Its channels have other ids than libssh2's, as the two ends choose theirs.
NewId(v) == 11 + Cardinality(DOMAIN v.chan)

WithServerChannel(v, id, c) ==
  [v EXCEPT !.chan = [d \in DOMAIN v.chan \cup {id} |-> IF d = id THEN c ELSE v.chan[d]]]

Sealed(v, packets) == [i \in DOMAIN packets |-> [packets[i] EXCEPT !.key = v.keysOut]]

\* What comes of a packet: the server, what it says and what of that belongs to
\* the exchange of keys, for which other packets are held back.
Rx(v, say) == [v |-> v, now |-> <<>>, say |-> say]
RxKex(v, now) == [v |-> v, now |-> now, say |-> <<>>]

Decided(v, what, answer) == [v EXCEPT !.verdicts = @ \cup {<<what, answer.ch, answer.type>>}]

-----------------------------------------------------------------------------
(* Its answers. *)

\* e is answered with f and, as there is nothing to wait for, with NEWKEYS;
\* what was held back follows under the new keys.
AnswerDh(v, reply) ==
  {RxKex([v EXCEPT !.keysOut = @ + 1, !.offered = FALSE, !.held = <<>>],
         Sealed(v, <<Packet(reply, 0, 0, 0, sig), Plain("NEWKEYS")>>)
           \o Sealed([v EXCEPT !.keysOut = @ + 1], v.held)) :
     sig \in {"signed"} \cup ({"forged"} \cap v.may)}

\* To a request of authentication.  A user who tries too often is hung up on.
AnswerAuth(v, what) ==
  LET yes == CASE what = "publickey" -> {"PK_OK"}
               [] what \in {"password", "new password"} -> {"SUCCESS", "PASSWD_CHANGEREQ"}
               [] what = "keyboard-interactive" -> {"INFO_REQUEST"}
               [] what = "response" -> {"SUCCESS", "INFO_REQUEST"}
               [] OTHER -> {"SUCCESS"}
      no  == IF "refuse" \in v.may THEN {"FAILURE"} ELSE {}
  IN  IF v.tries = MaxTries THEN {Rx(v, <<Plain("DISCONNECT")>>)}
      ELSE {Rx(Decided([v EXCEPT !.tries = @ + 1], what, Plain(t)), <<Plain(t)>>) : t \in yes \cup no}

AnswerOpen(v, p) ==
  LET id == NewId(v)
      yes == Packet("OPEN_CONFIRMATION", p.from, ServerWindow, id, "")
      no  == Packet("OPEN_FAILURE", p.from, 0, 0, "")
  IN  {Rx(Decided(WithServerChannel(v, id, ServerChannel(v, p.from, p.n, "open")), "open", yes), <<yes>>)}
      \cup {Rx(Decided(v, "open", no), <<no>>) : x \in v.may \cap {"refuse"}}

\* Only a command that runs has data to send.
AnswerRequest(v, p) ==
  LET peer == v.chan[p.ch].peer
      yes  == Packet("CHANNEL_SUCCESS", peer, 0, 0, "")
      no   == Packet("CHANNEL_FAILURE", peer, 0, 0, "")
      runs == IF p.what = "exec" /\ v.chan[p.ch].stage = "open"
                THEN [v EXCEPT !.chan[p.ch].stage = "running"] ELSE v
  IN  IF p.what = "window-change" \/ v.chan[p.ch].stage = "closed" THEN {Rx(v, <<>>)}
      ELSE {Rx(Decided(runs, p.what, yes), <<yes>>)}
           \cup {Rx(Decided(v, p.what, no), <<no>>) : x \in v.may \cap {"refuse"}}

AnswerGlobal(v, p) ==
  IF p.what = "cancel" THEN {Rx(v, <<>>)}
  ELSE {Rx(Decided(v, "listen", Plain(t)), <<Plain(t)>>) :
          t \in {"REQUEST_SUCCESS"} \cup (IF "refuse" \in v.may THEN {"REQUEST_FAILURE"} ELSE {})}

\* Data is expected to continue what came before.
TakeData(v, p) ==
  [v EXCEPT !.chan[p.ch].in = @ - p.n, !.chan[p.ch].got = p.from + p.n,
            !.disordered = @ \/ p.from # v.chan[p.ch].got]

AnswerClose(v, p) ==
  IF v.chan[p.ch].stage = "closed" THEN {Rx(v, <<>>)}
  ELSE {Rx([v EXCEPT !.chan[p.ch].stage = "closed"],
           <<Packet("CLOSE", v.chan[p.ch].peer, 0, 0, "")>>)}

\* Everything that may come of packet p.
Reactions(v, p) ==
  CASE p.type = "KEXINIT"         -> {Rx([v EXCEPT !.exchanging = TRUE], <<>>)}
    [] p.type = "GEX_REQUEST"     -> {RxKex(v, Sealed(v, <<Plain("GEX_GROUP")>>))}
    [] p.type = "KEXDH_INIT"      -> AnswerDh(v, "KEXDH_REPLY")
    [] p.type = "GEX_INIT"        -> AnswerDh(v, "GEX_REPLY")
    [] p.type = "NEWKEYS"         -> {Rx([v EXCEPT !.exchanging = FALSE, !.keysIn = @ + 1], <<>>)}
    [] p.type = "SERVICE_REQUEST" -> {Rx(v, <<Plain("SERVICE_ACCEPT")>>)}
    [] p.type = "USERAUTH_REQUEST" -> AnswerAuth(v, p.what)
    [] p.type = "INFO_RESPONSE"   -> AnswerAuth(v, "response")
    [] p.type = "OPEN"            -> AnswerOpen(v, p)
    [] p.type = "CHANNEL_REQUEST" -> AnswerRequest(v, p)
    [] p.type = "GLOBAL_REQUEST"  -> AnswerGlobal(v, p)
    [] p.type \in DataTypes       -> {Rx(TakeData(v, p), <<>>)}
    [] p.type = "WINDOW_ADJUST"   -> {Rx([v EXCEPT !.chan[p.ch].out = @ + p.n], <<>>)}
    [] p.type = "CLOSE"           -> AnswerClose(v, p)
    [] p.type = "OPEN_CONFIRMATION" ->
         {Rx([v EXCEPT !.chan[p.ch].peer = p.from, !.chan[p.ch].out = p.n,
                       !.chan[p.ch].stage = "running"], <<>>)}
    [] OTHER                      -> {Rx(v, <<>>)}

\* The packets that may come between libssh2's KEXINIT and its NEWKEYS.
KexTypes == {"KEXDH_INIT", "GEX_REQUEST", "GEX_INIT", "NEWKEYS", "DISCONNECT"}

-----------------------------------------------------------------------------
(* What it does by itself: sets of [v, say]. *)

\* Data of either stream, as much as a packet and the window take.
DataSent(v, c) ==
  LET ch == v.chan[c]
      fit(left) == {n \in 1..left : n <= ch.out /\ n <= PacketDefault}
  IN  IF ch.stage # "running" THEN {}
      ELSE {[v |-> [v EXCEPT !.chan[c].sent = @ + n, !.chan[c].left = @ - n, !.chan[c].out = @ - n],
             say |-> <<Packet("DATA", ch.peer, n, ch.sent, "")>>] : n \in fit(ch.left)}
           \cup
           {[v |-> [v EXCEPT !.chan[c].sentExt = @ + n, !.chan[c].ext = @ - n, !.chan[c].out = @ - n],
             say |-> <<Packet("EXTENDED_DATA", ch.peer, n, ch.sentExt, "")>>] : n \in fit(ch.ext)}

\* It takes data from a channel, and makes room for as much again.
Adjusted(v, c) ==
  LET ch == v.chan[c]
  IN  IF ch.stage \in {"closed", "offered"} \/ ch.in = ServerWindow THEN {}
      ELSE {[v |-> [v EXCEPT !.chan[c].in = ServerWindow],
             say |-> <<Packet("WINDOW_ADJUST", ch.peer, ServerWindow - ch.in, 0, "")>>]}

\* The command ends, and then its channel.
Finished(v, c) ==
  LET ch == v.chan[c]
  IN  CASE ch.stage = "running" ->
             {[v |-> [v EXCEPT !.chan[c].stage = "ended"],
               say |-> <<Packet("EXIT_STATUS", ch.peer, 1, 0, ""), Packet("EOF", ch.peer, 0, 0, "")>>]}
        [] ch.stage = "ended" ->
             {[v |-> [v EXCEPT !.chan[c].stage = "closed"],
               say |-> <<Packet("CLOSE", ch.peer, 0, 0, "")>>]}
        [] OTHER -> {}

\* A channel of its own: a connection to a port, or of an X client.
Offered(v) ==
  IF v.opens = <<>> THEN {}
  ELSE {[v |-> [WithServerChannel(v, NewId(v), ServerChannel(v, 0, 0, "offered"))
                  EXCEPT !.opens = Tail(@)],
         say |-> <<Packet("OPEN", 0, ServerWindow, NewId(v), Head(v.opens))>>]}

=============================================================================
