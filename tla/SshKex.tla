------------------------------- MODULE SshKex -------------------------------
(***************************************************************************)
(* The key exchange of libssh2 (kex.c): agreeing on methods, the exchange  *)
(* itself, and the switch to the new keys.  An exchange is begun by        *)
(* session_startup, or by packet_add when the server sends KEXINIT, and is *)
(* gone on with by packet_read when somebody left it at an EAGAIN.         *)
(***************************************************************************)
EXTENDS SshPackets

CONSTANTS
  Prefs,   \* the methods libssh2 offers, by kind, in order of preference
  Offers   \* the offers of servers; a KEXINIT has the number of one

None == "none agreed"

-----------------------------------------------------------------------------
(* Agreeing on methods.  An offer has the server's list for every kind. *)

\* libssh2_kex_agree_instr and libssh2_get_method_by_name: is the name one of
\* the list?
AgreeInstr(list, name) == \E i \in DOMAIN list : list[i] = name

\* The loop all the agreements share: our first method that the server has.
FirstAgreed(prefs, offered) ==
  LET both == {i \in DOMAIN prefs : AgreeInstr(offered, prefs[i])}
  IN  IF both = {} THEN None ELSE prefs[First(both)]

\* libssh2_kex_agree_hostkey: every method libssh2 has can sign, as every key
\* exchange of it needs.
AgreeHostkey(offer) == FirstAgreed(Prefs.hostkey, offer.hostkey)

\* libssh2_kex_agree_kex_hostkey: our first key exchange that the server has,
\* if there is a host key for it.
AgreeKexHostkey(offer) ==
  IF AgreeHostkey(offer) = None THEN None ELSE FirstAgreed(Prefs.kex, offer.kex)

AgreeCrypt(offer) == [cs |-> FirstAgreed(Prefs.crypt, offer.crypt_cs),
                      sc |-> FirstAgreed(Prefs.crypt, offer.crypt_sc)]

AgreeMac(offer) == [cs |-> FirstAgreed(Prefs.mac, offer.mac_cs),
                    sc |-> FirstAgreed(Prefs.mac, offer.mac_sc)]

AgreeComp(offer) == [cs |-> FirstAgreed(Prefs.comp, offer.comp_cs),
                     sc |-> FirstAgreed(Prefs.comp, offer.comp_sc)]

\* libssh2_kex_agree_methods.  The packet a server sends on the guess that its
\* first key exchange will be chosen is burnt unless it is.
AgreeMethods(s, offer) ==
  LET failed(m) == \/ None \in {m.kex, m.hostkey}
                   \/ \E k \in {m.crypt, m.mac, m.comp} : None \in {k.cs, k.sc}
      chosen(m) == R([s EXCEPT !.methods = IF m.kex = None THEN <<>> ELSE <<m>>,
                               !.burn = offer.follows /\ m.kex # offer.kex[1]],
                     IF failed(m) THEN "FAIL" ELSE "")
  IN  chosen([kex |-> AgreeKexHostkey(offer), hostkey |-> AgreeHostkey(offer),
              crypt |-> AgreeCrypt(offer), mac |-> AgreeMac(offer), comp |-> AgreeComp(offer)])

-----------------------------------------------------------------------------
(* libssh2_kex_method_diffie_hellman_groupGP_sha1_key_exchange: e is sent, f *)
(* and the host key's signature come back, NEWKEYS goes both ways.           *)

\* seeded fault: keys are made for the first exchange only
TakeKeysOnce(s) ==
  [s EXCEPT !.state = @ \cup {"NEWKEYS"}, !.keys = 1, !.session_id = 1]

\* All keys of both directions are made at once, when the server's NEWKEYS is
\* there; the first exchange gives the session its id.
TakeKeys(s) ==
  [s EXCEPT !.state = @ \cup {"NEWKEYS"}, !.keys = @ + 1,
            !.session_id = IF @ = 0 THEN s.keys + 1 ELSE @]

DhTo(s, pos)  == R(Goto(s, "dh", 0, pos), "MORE")
DhEnd(s, rc)  == R(Goto(s, "dh", 0, "idle"), rc)
DhFails(s, rc) == IF rc = "FAIL" THEN DhEnd(s, rc) ELSE R(s, rc)

\* e is computed and sent.
DhInit(s, init) ==
  LET sent(e) == IF e.rc = "" THEN DhTo(e.s, "sent") ELSE DhEnd(e.s, "FAIL")
  IN  sent(PacketWrite(s, Plain(init)))

\* The packet the server sent on a wrong guess is thrown away.
DhBurn(s, net) ==
  LET burnt(b) == IF b.rc = "" THEN DhTo([b.s EXCEPT !.burn = FALSE], "sent1")
                  ELSE DhFails(b.s, b.rc)
  IN  IF s.burn THEN burnt(Burn(s, net)) ELSE DhTo(s, "sent1")

\* f comes, with the host key and its signature of the exchange; when that is
\* good, NEWKEYS is sent.
DhReply(s, reply, net) ==
  LET confirms(c) == IF c.rc = "" THEN DhTo(c.s, "sent3") ELSE DhEnd(c.s, "FAIL")
      verifies(f) == IF f.rc # "" THEN DhFails(f.s, f.rc)
                     ELSE IF f.p.what = "forged" THEN DhEnd(f.s, "FAIL")
                     ELSE confirms(PacketWrite(f.s, Plain("NEWKEYS")))
  IN  verifies(Require(s, "dh", reply, net))

DhNewKeys(s, net) ==
  LET takes(n) == IF n.rc = "" THEN DhEnd(TakeKeys(n.s), "") ELSE DhFails(n.s, n.rc)
  IN  takes(Require(s, "dh", "NEWKEYS", net))

DhExchange(s, init, reply, net) ==
  CASE At(s, "dh", 0) = "idle"  -> DhInit(s, init)
    [] At(s, "dh", 0) = "sent"  -> DhBurn(s, net)
    [] At(s, "dh", 0) = "sent1" -> DhReply(s, reply, net)
    [] At(s, "dh", 0) = "sent3" -> DhNewKeys(s, net)

\* ..._group1_sha1_... and ..._group14_sha1_...
GroupExchange(s, net) == DhExchange(s, "KEXDH_INIT", "KEXDH_REPLY", net)

\* ..._group_exchange_sha1_...: the server is asked for the group first.
GexExchange(s, net) ==
  LET to(t, pos) == R(Goto(t, "gex", 0, pos), "MORE")
      end(t, rc) == R(Goto(t, "gex", 0, "idle"), rc)
      asks(w)    == IF w.rc = "" THEN to(w.s, "sent") ELSE end(w.s, "FAIL")
      group(g)   == IF g.rc = "" THEN to(g.s, "sent1")
                    ELSE IF g.rc = "FAIL" THEN end(g.s, "FAIL") ELSE R(g.s, g.rc)
      dh(r)      == IF r.rc \in {"", "FAIL"} THEN end(r.s, r.rc) ELSE r
  IN  CASE At(s, "gex", 0) = "idle"  -> asks(PacketWrite(s, Plain("GEX_REQUEST")))
        [] At(s, "gex", 0) = "sent"  -> group(Require(s, "gex", "GEX_GROUP", net))
        [] At(s, "gex", 0) = "sent1" -> dh(DhExchange(s, "GEX_INIT", "GEX_REPLY", net))

ExchangeKeys(s, net) ==
  IF s.methods[1].kex = "group-exchange" THEN GexExchange(s, net) ELSE GroupExchange(s, net)

-----------------------------------------------------------------------------
(* libssh2_kex_exchange *)

Left(s)  == [s EXCEPT !.state = @ \ {"KEX_ACTIVE"}]
Ended(s) == Goto([s EXCEPT !.state = @ \ {"KEX_ACTIVE", "EXCHANGING_KEYS"}], "kex", 0, "idle")

KexInit(s) == PacketWrite(s, Plain("KEXINIT"))

\* A new exchange forgets the methods, so that they are agreed on again.
BeginExchange(s) ==
  LET reexchange == s.kex # "startup"
      b == [s EXCEPT !.state = @ \cup {"EXCHANGING_KEYS"},
                     !.methods = IF reexchange THEN <<>> ELSE @]
  IN  Goto(b, "kex", 0, IF b.methods = <<>> THEN "sent" ELSE "sent2")

KexExchange(s, net) ==
  LET a   == [s EXCEPT !.state = @ \cup {"KEX_ACTIVE"}]
      pos == At(s, "kex", 0)
      to(t, where) == R(Goto(t, "kex", 0, where), "MORE")
      rest(r)   == IF r.rc = "FAIL" THEN R(Ended(r.s), "FAIL")
                   ELSE IF r.rc = "EAGAIN" THEN R(Left(r.s), "EAGAIN") ELSE R(r.s, r.rc)
      sent(i)   == IF i.rc = "" THEN to(i.s, "sent1") ELSE rest(i)
      agreed(m) == IF m.rc # "" THEN R(Ended(m.s), "FAIL") ELSE to(m.s, "sent2")
      come(k)   == IF k.rc # "" THEN rest(k) ELSE agreed(AgreeMethods(k.s, Offers[k.p.n]))
      made(x)   == IF x.rc = "" THEN R(Ended(x.s), "") ELSE rest(x)
  IN  CASE pos = "idle"  -> R(BeginExchange(a), "MORE")
        [] pos = "sent"  -> sent(KexInit(a))
        [] pos = "sent1" -> come(Require(a, "kex", "KEXINIT", net))
        [] pos = "sent2" -> made(ExchangeKeys(a, net))

\* The exchange is a call within the call that reads: its result is what the
\* reader gets.  packet_add does not pass a failure on.
KexStep(s, net) ==
  LET given(rc) == CASE rc = "EAGAIN" -> "EAGAIN"
                     [] rc = "FAIL" /\ s.kex # "add" -> "FAIL"
                     [] rc = "" /\ s.kex = "startup" -> "KEYS"
                     [] OTHER -> ""
      ends(r) == IF r.rc \in {"MORE", "WAIT"} THEN r
                 ELSE R([r.s EXCEPT !.kex = "none", !.kexRc = given(r.rc)], "MORE")
  IN  ends(KexExchange(s, net))

=============================================================================
