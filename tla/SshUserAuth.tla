---------------------------- MODULE SshUserAuth -----------------------------
(***************************************************************************)
(* The authentication methods of libssh2 (userauth.c).  Each is a request  *)
(* and its answer; two of them go on with another request.                 *)
(***************************************************************************)
EXTENDS SshPackets

AuthRequest(what) == Packet("USERAUTH_REQUEST", 0, 0, 0, what)

Authenticated(s) == [s EXCEPT !.state = @ \cup {"AUTHENTICATED"}]

\* What the answer to a request, q, is to its caller.
AuthResult(q) ==
  CASE q.rc # ""             -> R(q.s, q.rc)
    [] q.p.type = "SUCCESS"  -> R(Authenticated(q.s), "")
    [] q.p.type = "FAILURE"  -> R(q.s, "DENIED")

\* libssh2_userauth_list: asks for no authentication, which may be granted;
\* that and every error are NULL to the caller, as is EAGAIN.
UserauthList(s, net) ==
  AuthResult(Request(s, "userauth_list", 0, AuthRequest("none"), <<"SUCCESS", "FAILURE">>, Nobody, net))

\* libssh2_userauth_password_ex, when the password has expired: the callback
\* gives another; without one the call fails.  userauth_pswd_data0 remembers
\* that it has expired, so that every refusal of a new one asks for yet another:
\* the call ends when one is taken, or the server hangs up.
Expired(s) == At(s, "userauth_pswd_data0", 0) = "created"

NewPassword(s, callback) ==
  LET sent(w) == IF w.rc # "" THEN R(Goto(w.s, "userauth_pswd", 0, "sent2"), "FAIL")
                 ELSE R(Goto(w.s, "userauth_pswd", 0, "sent"), "MORE")
  IN  IF ~callback THEN R(s, "DENIED")
      ELSE sent(PacketWrite(Goto(s, "userauth_pswd_data0", 0, "created"), AuthRequest("new password")))

UserauthPassword(s, callback, net) ==
  LET b == IF At(s, "userauth_pswd", 0) = "idle" THEN Goto(s, "userauth_pswd_data0", 0, "idle") ELSE s
      change(q) == \/ q.rc = "" /\ q.p.type = "PASSWD_CHANGEREQ"
                   \/ q.rc = "" /\ q.p.type = "FAILURE" /\ Expired(q.s)
      answered(q) == IF change(q) THEN NewPassword(q.s, callback) ELSE AuthResult(q)
  IN  answered(Request(b, "userauth_pswd", 0, AuthRequest("password"),
                       <<"SUCCESS", "FAILURE", "PASSWD_CHANGEREQ">>, Nobody, net))

\* libssh2_userauth_hostbased_fromfile_ex: signed from the start.
UserauthHostbased(s, net) ==
  AuthResult(Request(s, "userauth_host", 0, AuthRequest("hostbased signed"),
                     <<"SUCCESS", "FAILURE">>, Nobody, net))

\* libssh2_file_read_publickey and libssh2_file_read_privatekey, as the caller
\* sees them: key is "unreadable" for a missing or malformed public key, and
\* "public only" when the private key's file is not one.
ReadsPublic(key)  == key # "unreadable"
ReadsPrivate(key) == key = "pair"

\* The first half of libssh2_userauth_publickey_fromfile_ex: would the server
\* take this key?
OfferKey(s, net) ==
  Request(s, "userauth_pblc", 0, AuthRequest("publickey"),
          <<"SUCCESS", "FAILURE", "PK_OK">>, Nobody, net)

\* The second: it would, so the request is repeated with a signature.
SendSignature(s) ==
  LET sent(w) == IF w.rc = "" THEN R(Goto(w.s, "userauth_pblc", 0, "sent2"), "MORE") ELSE R(w.s, "FAIL")
  IN  sent(PacketWrite(s, AuthRequest("publickey signed")))

AwaitVerdict(s, net) ==
  LET came(q) == IF q.rc \in {"MORE", "WAIT", "EAGAIN"} THEN R(q.s, q.rc)
                 ELSE AuthResult([q EXCEPT !.s = Goto(@, "userauth_pblc", 0, "idle")])
  IN  came(RequireV(s, <<"SUCCESS", "FAILURE">>, Nobody, net))

UserauthPublickey(s, key, net) ==
  LET offered(q) == IF q.rc # "" \/ q.p.type # "PK_OK" THEN AuthResult(q)
                    ELSE IF ReadsPrivate(key) THEN SendSignature(q.s) ELSE R(q.s, "FAIL")
  IN  CASE At(s, "userauth_pblc", 0) = "sent2" -> AwaitVerdict(s, net)
        [] At(s, "userauth_pblc", 0) = "idle" /\ ~ReadsPublic(key) -> R(s, "FAIL")
        [] OTHER -> offered(OfferKey(s, net))

\* libssh2_userauth_keyboard_interactive_ex: every question is passed to the
\* callback and answered.
Respond(s) ==
  LET w == PacketWrite(s, Plain("INFO_RESPONSE"))
  IN  IF w.rc = "" THEN R(Goto(w.s, "userauth_kybd", 0, "sent"), "MORE") ELSE R(w.s, "FAIL")

UserauthKeyboardInteractive(s, net) ==
  LET answered(q) == IF q.rc = "" /\ q.p.type = "INFO_REQUEST" THEN Respond(q.s) ELSE AuthResult(q)
  IN  answered(Request(s, "userauth_kybd", 0, AuthRequest("keyboard-interactive"),
                       <<"SUCCESS", "FAILURE", "INFO_REQUEST">>, Nobody, net))

=============================================================================
