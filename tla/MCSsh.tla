-------------------------------- MODULE MCSsh --------------------------------
(***************************************************************************)
(* SshClient with the programs of the repository and some of their kind:   *)
(* each scenario is a program, the session it starts with, what the server *)
(* has to send and may do, and how often part of a packet comes.           *)
(***************************************************************************)
EXTENDS SshClient

\* Our methods, two of each kind where a choice matters.
MCPrefs == [kex |-> <<"group14", "group-exchange">>, hostkey |-> <<"rsa", "dsa">>,
            crypt |-> <<"aes">>, mac |-> <<"sha1">>, comp |-> <<"none">>]

PlainOffer == [kex |-> <<"group14">>, hostkey |-> <<"dsa">>, crypt_cs |-> <<"aes">>,
               crypt_sc |-> <<"aes">>, mac_cs |-> <<"sha1">>, mac_sc |-> <<"sha1">>,
               comp_cs |-> <<"none">>, comp_sc |-> <<"none">>, follows |-> FALSE]

\* A server with the group exchange only, one whose guess is wrong, one that
\* has others too, one that has no cipher of ours in one direction.
MCOffers ==
  <<PlainOffer,
    [PlainOffer EXCEPT !.kex = <<"group-exchange">>],
    [PlainOffer EXCEPT !.kex = <<"other", "group14">>, !.follows = TRUE],
    [PlainOffer EXCEPT !.kex = <<"group14", "other">>],
    [PlainOffer EXCEPT !.crypt_sc = <<"other">>]>>

Again(call)       == [call EXCEPT !.again = TRUE]
OrEnd(call)       == [call EXCEPT !.no = "end"]
ThenSkip(call)    == [call EXCEPT !.yes = "skip"]
On0(op, arg)      == Does(op, 0, arg, 0, 0)
On1(op, arg, n, from) == Does(op, 1, arg, n, from)
Quit              == <<On0("disconnect", ""), On0("session_free", "")>>

\* A connection just made: the server has said its banner and its KEXINIT.
Fresh(k) ==
  [NewSession EXCEPT !.inbound = <<Packet("BANNER", 0, 0, 0, ""), Packet("KEXINIT", 0, k, 0, "")>>
                                   \o (IF MCOffers[k].follows THEN <<Plain("GUESS")>> ELSE <<>>)]

\* A session that has been started and authenticated.
Ready == [NewSession EXCEPT !.state = {"NEWKEYS", "AUTHENTICATED"}, !.keys = 1, !.session_id = 1]

Scenario(todo, session, server, parts) ==
  [todo |-> todo \o Quit, session |-> session, server |-> server, parts |-> parts]

Starting(may, bytes) == [NewServer(0, may, <<>>, bytes, 0) EXCEPT !.offered = TRUE]

Connect == <<OrEnd(On0("startup", "")), ThenSkip(On0("publickey", "public only")),
             OrEnd(On0("publickey", "pair"))>>

ExecOn(k) == Again(Does("exec", k, "", 0, 0))

Using == <<OrEnd(On0("open", "")), ExecOn(1), Again(On1("write", "", 3, 0)),
           On1("read", "", 3, 0), On1("close", "", 0, 0), On1("free", "", 0, 0)>>

\* GITSshTransport: connect, startFetch, and what its connection is used for.
FetchScenarios ==
  {Scenario(Connect \o Using, Fresh(1), Starting({"refuse"}, 3), 0)}

\* The other ways to log in, and other servers.
Logins == {On0("list", ""), On0("password", "callback"), On0("password", ""),
           On0("hostbased", ""), On0("publickey", "pair"), On0("publickey", "unreadable"), On0("interactive", "")}

LoginScenarios ==
  {Scenario(<<OrEnd(On0("startup", "")), Again(l)>>, Fresh(1), Starting({"refuse"}, 0), 0) : l \in Logins}
  \cup
  {Scenario(<<OrEnd(On0("startup", "")), Again(On0("list", ""))>>, Fresh(k), Starting({"forged", "drop"}, 0), 1) :
     k \in DOMAIN MCOffers}

\* Writing and reading while keys are exchanged, packets come in parts, or the
\* connection is lost.
ChannelScenarios ==
  {Scenario(Using, Ready, NewServer(1, {"rekey"}, <<>>, 3, 0), parts) : parts \in {0, 1}}
  \cup {Scenario(Using, Ready, NewServer(1, {how}, <<>>, 3, 0), 0) : how \in {"drop", "hang up"}}
  \cup {Scenario(Using, Ready, NewServer(1, {"rekey", "forged"}, <<>>, 1, 0), 0)}

\* Requests on two channels, some of which are answered late.
RequestScenarios ==
  {Scenario(<<OrEnd(On0("open", "")), OrEnd(On0("direct", "")), r, ExecOn(2),
              Does("free", 2, "", 0, 0), On1("free", "", 0, 0)>>,
            Ready, NewServer(1, {"refuse"}, <<>>, 0, 0), 1) :
     r \in {Again(On1("setenv", "", 0, 0)), Again(On1("pty", "", 0, 0)), On1("x11", "", 0, 0)}}

\* The size of the terminal, set twice.
PtyScenarios ==
  {Scenario(<<OrEnd(On0("open", "")), On1("pty", "", 0, 0), On1("pty_size", "", 0, 0),
              On1("pty_size", "", 0, 0), ExecOn(1), On1("send_eof", "", 0, 0), On1("wait_eof", "", 0, 0),
              On1("wait_closed", "", 0, 0)>>,
            Ready, NewServer(1, {"drop"}, <<>>, 1, 0), 0)}

\* Two streams of one channel: apart, merged, one ignored, one flushed.
StreamScenarios ==
  {Scenario(<<OrEnd(On0("open", "")), On1("extended_data", mode, 0, 0), ExecOn(1),
              On1("read", "", 2, 0)>> \o then \o
              <<On1("close", "", 0, 0), On1("free", "", 0, 0)>>,
            Ready, NewServer(1, {}, <<>>, 3, 2), 0) :
     mode \in {"normal", "merge", "ignore"},
     then \in {<<>>, <<On1("read", "stderr", 3, 0)>>, <<On1("flush", "all", 0, 0)>>}}

\* A listener with room for one, and connections to its port and another; an X
\* client.  The program accepts one, or cancels.
ListenScenarios ==
  {Scenario(<<On0("x11_callback", ""), OrEnd(On0("open", "")), OrEnd(Does("listen", 0, "", 1, 0)), end>>,
            Ready, NewServer(1, {"refuse", "hang up"}, opens, 0, 0), 0) :
     end \in {On0("accept", ""), On0("cancel", "")},
     opens \in {<<"port", "port", "port">>, <<"x11", "other">>}}

MCScenarios ==
  FetchScenarios \cup LoginScenarios \cup ChannelScenarios \cup RequestScenarios
  \cup PtyScenarios \cup StreamScenarios \cup ListenScenarios

MCReading ==
  {Scenario(<<OrEnd(On0("open", "")), ExecOn(1), On1("read", "", 3, 0)>>,
            Ready, NewServer(1, {"hang up"}, <<>>, 3, 0), 0)}

=============================================================================
