---------------------------- MODULE SshKeyProofs ----------------------------
(***************************************************************************)
(* What every operation of libssh2 does to the keys of a session: for any  *)
(* methods, windows, servers and ways the packets come, an operation of    *)
(* SshSession keeps what is said here of the session, the packets on their *)
(* way and the server together.                                            *)
(*                                                                         *)
(* libssh2 sends and reads under keys it changes at two places, behind its *)
(* own NEWKEYS and behind the server's, and the packets on their way were  *)
(* sealed before.  So the invariant says for every place an exchange can   *)
(* be at what is on its way in both directions, under which keys, and      *)
(* where the server is: calm, libssh2's KEXINIT sent (Begun), its first    *)
(* message sent, the answer on its way (InitSent), the server's NEWKEYS    *)
(* next and libssh2's own already sent under the old keys (Confirmed).     *)
(* An exchange that failed leaves a session that can only disconnect.      *)
(***************************************************************************)
EXTENDS SshClient, WorkListTheorems

Fields == DOMAIN NewSession
ServerFields == DOMAIN NewServer(0, {}, <<>>, 0, 0)
IsPacket(p) == DOMAIN p = PacketFields
ArePackets(q) == IsList(q) /\ \A j \in DOMAIN q : IsPacket(q[j])

Formed(t) ==
  /\ DOMAIN t = Fields
  /\ ArePackets(t.packets) /\ ArePackets(t.inbound) /\ ArePackets(t.outbound)

FormedServer(v) == DOMAIN v = ServerFields /\ ArePackets(v.held)

\* What an exchange waits for, and what libssh2 sends in one.
Awaited == {"KEXINIT", "GEX_GROUP", "KEXDH_REPLY", "GEX_REPLY", "NEWKEYS"}
Inits   == {"GEX_REQUEST", "KEXDH_INIT", "GEX_INIT"}
Asking  == {"KEXINIT", "NEWKEYS"} \cup Inits

\* Outbound, as the server will take it, k being the keys at its end.
Plainly(o, v, k) ==
  /\ ~v.exchanging /\ v.keysIn = k
  /\ \A j \in DOMAIN o : o[j].key = k /\ o[j].type \notin Asking

Proposed(o, v, k) ==
  /\ ~v.exchanging /\ v.keysIn = k
  /\ \A j \in DOMAIN o : o[j].key = k
  /\ \E m \in DOMAIN o :
       /\ o[m].type = "KEXINIT"
       /\ \A j \in DOMAIN o : j < m => o[j].type \notin Asking
       /\ \A j \in DOMAIN o : j > m => o[j].type \in Inits \cup {"DISCONNECT"}

Within(o, v, k) ==
  /\ v.exchanging /\ v.keysIn = k
  /\ \A j \in DOMAIN o : o[j].key = k /\ o[j].type \in Inits \cup {"DISCONNECT"}

Switching(o, v, k) ==
  /\ v.exchanging /\ v.keysIn = k - 1
  /\ o # <<>> /\ o[1].type = "NEWKEYS" /\ o[1].key = k - 1
  /\ \A j \in DOMAIN o : j # 1 => o[j].key = k /\ o[j].type \notin Asking

Begun(o, v, k) == Proposed(o, v, k) \/ Within(o, v, k)
Open(o, v, k)  == Plainly(o, v, k) \/ (Switching(o, v, k) /\ ~v.offered)

NoneDue(o) == \A j \in DOMAIN o : o[j].type \notin Inits
Due(o, type) ==
  /\ o # <<>> /\ o[Len(o)].type = type
  /\ \A j \in DOMAIN o : j # Len(o) => o[j].type \notin Inits

\* Inbound after its first m packets.
Flow(q, m, v, k) ==
  /\ v.keysOut = k
  /\ \A j \in DOMAIN q : j > m =>
       /\ q[j].key = k
       /\ \/ q[j].type \notin Awaited
          \/ q[j].type = "KEXINIT" /\ j = Len(q) /\ q[j].n = 1 /\ v.offered

IsGuess(p, k) == p.type = "GUESS" /\ p.key = k
Guesses(q) == IF q # <<>> /\ q[1].type = "GUESS" THEN 1 ELSE 0
OnlyGuess(q, k) == Len(q) <= 1 /\ \A j \in DOMAIN q : IsGuess(q[j], k)

GroupCame(q, k) ==
  LET a == Guesses(q)
  IN  /\ Len(q) = a + 1 /\ q[a + 1].type = "GEX_GROUP"
      /\ \A j \in DOMAIN q : q[j].key = k

Replied(q, v, k, reply) ==
  LET a == Guesses(q)
  IN  /\ Len(q) >= a + 2 /\ q[a + 1].type = reply /\ q[a + 2].type = "NEWKEYS"
      /\ \A j \in DOMAIN q : j <= a + 2 => q[j].key = k
      /\ Flow(q, a + 2, v, k + 1)

NoneAwaited(t) == \A j \in DOMAIN t.packets : t.packets[j].type \notin Awaited

Called(t) ==
  IF t.kex = "startup" THEN t.packets = <<>> /\ Announced(t.inbound, 0, t.keys)
  ELSE /\ t.inbound = <<>>
       /\ \E i \in DOMAIN t.packets :
            /\ t.packets[i].type = "KEXINIT" /\ t.packets[i].n = 1
            /\ \A j \in DOMAIN t.packets : j # i => t.packets[j].type \notin Awaited

KeyOps == {"kex", "dh", "gex", "burn"}

ExchangeStates == {"EXCHANGING_KEYS", "KEX_ACTIVE"}

\* No exchange has begun.
Idle(t) ==
  /\ ExchangeStates \cap t.state = {}
  /\ \A op \in KeyOps : At(t, op, 0) = "idle"
  /\ "kex" \notin t.start

Holding(v, k) == v.offered /\ v.keysOut = k

GuessKept(t) ==
  t.burn => /\ t.kex = "startup"
            /\ \/ t.packets = <<>> /\ Guesses(t.inbound) = 1
               \/ /\ Len(t.packets) = 1 /\ t.packets[1].type = "GUESS" /\ Guesses(t.inbound) = 0
                  /\ At(t, "burn", 0) = "idle"

Gex(t) == t.methods[1].kex = "group-exchange"
InitOf(t) == IF Gex(t) THEN "GEX_INIT" ELSE "KEXDH_INIT"
ReplyOf(t) == IF Gex(t) THEN "GEX_REPLY" ELSE "KEXDH_REPLY"

\* The positions of an exchange whose methods are agreed.
NothingSent(t, v) ==
  /\ At(t, "gex", 0) = "idle" /\ At(t, "dh", 0) = "idle"
  /\ Begun(t.outbound, v, t.keys) /\ NoneDue(t.outbound)
  /\ Holding(v, t.keys) /\ OnlyGuess(t.inbound, t.keys)

GroupAsked(t, v) ==
  /\ Gex(t) /\ At(t, "gex", 0) = "sent" /\ At(t, "dh", 0) = "idle"
  /\ Holding(v, t.keys)
  /\ \/ Begun(t.outbound, v, t.keys) /\ Due(t.outbound, "GEX_REQUEST") /\ OnlyGuess(t.inbound, t.keys)
     \/ Within(t.outbound, v, t.keys) /\ t.outbound = <<>> /\ GroupCame(t.inbound, t.keys)

GroupKnown(t, v) ==
  /\ Gex(t) /\ At(t, "gex", 0) = "sent1" /\ At(t, "dh", 0) = "idle"
  /\ Holding(v, t.keys)
  /\ Within(t.outbound, v, t.keys) /\ t.outbound = <<>> /\ t.inbound = <<>>

InitSent(t, v) ==
  /\ At(t, "gex", 0) = IF Gex(t) THEN "sent1" ELSE "idle"
  /\ At(t, "dh", 0) \in {"sent", "sent1"}
  /\ At(t, "dh", 0) = "sent1" => ~t.burn
  /\ \/ /\ Begun(t.outbound, v, t.keys) /\ Due(t.outbound, InitOf(t))
        /\ Holding(v, t.keys) /\ OnlyGuess(t.inbound, t.keys)
     \/ /\ Within(t.outbound, v, t.keys) /\ t.outbound = <<>> /\ ~v.offered
        /\ Replied(t.inbound, v, t.keys, ReplyOf(t))

Confirmed(t, v) ==
  /\ At(t, "gex", 0) = IF Gex(t) THEN "sent1" ELSE "idle"
  /\ At(t, "dh", 0) = "sent3"
  /\ t.inbound # <<>> /\ t.inbound[1].type = "NEWKEYS" /\ t.inbound[1].key = t.keys
  /\ Flow(t.inbound, 1, v, t.keys + 1)
  /\ Open(t.outbound, v, t.keys + 1)

\* The positions of libssh2_kex_exchange.
ToOffer(t, v) ==
  /\ At(t, "kex", 0) \in {"idle", "sent"} /\ Called(t)
  /\ \A op \in KeyOps \ {"kex"} : At(t, op, 0) = "idle"
  /\ At(t, "kex", 0) = "idle" => Idle(t)
  /\ t.kex = "startup" => t.methods = <<>>
  /\ Plainly(t.outbound, v, t.keys) /\ Holding(v, t.keys)

OfferSent(t, v) ==
  /\ At(t, "kex", 0) = "sent1" /\ Called(t)
  /\ \A op \in KeyOps \ {"kex"} : At(t, op, 0) = "idle"
  /\ Begun(t.outbound, v, t.keys) /\ NoneDue(t.outbound) /\ Holding(v, t.keys)

MakingKeys(t, v) ==
  /\ At(t, "kex", 0) = "sent2" /\ NoneAwaited(t) /\ GuessKept(t)
  /\ At(t, "burn", 0) # "idle" => t.burn /\ At(t, "dh", 0) = "sent"
  /\ \/ NothingSent(t, v) \/ GroupAsked(t, v) \/ GroupKnown(t, v)
     \/ InitSent(t, v) \/ Confirmed(t, v)

Exchanging(t, v) ==
  /\ "kex" \notin t.start
  /\ ToOffer(t, v) \/ OfferSent(t, v) \/ MakingKeys(t, v)
  /\ At(t, "kex", 0) # "idle" => ExchangeStates \subseteq t.state

Calm(t, v) ==
  /\ Idle(t) /\ NoneAwaited(t)
  /\ Flow(t.inbound, 0, v, t.keys) /\ Open(t.outbound, v, t.keys)

-----------------------------------------------------------------------------
\* A reader is polling, scanning or waiting.
Reading(call) == "phase" \in DOMAIN call /\ call.phase \in {"", "scan", "wait"}

AppFields == {"todo", "busy", "mine", "read", "results", "parts", "givenUp", "left", "resent", "lossy", "merged"}

\* The program a, and the session t in its call.
Program(t, a) ==
  /\ a.busy \in BOOLEAN
  /\ Usable(a.todo)
  /\ NoStartup(a.todo) \/ Starts(a.todo)
  /\ a.busy => a.todo # <<>> /\ (a.todo[1].op = "read" => Reading(t.call))

StartAt(t) == At(t, "startup", 0)

\* Before the first exchange.
Unstarted(t, v, a) ==
  /\ Starts(a.todo) /\ t.kex = "none" /\ t.kexRc = ""
  /\ StartAt(t) \in {"idle", "sent", "sent1"}
  /\ t.keys = 0 /\ t.methods = <<>> /\ t.packets = <<>>
  /\ Idle(t) /\ Plainly(t.outbound, v, 0) /\ Holding(v, 0)
  /\ Announced(t.inbound, IF StartAt(t) = "sent1" THEN 0 ELSE 1, 0)

PastExchange(t, a) == NoStartup(a.todo) \/ (Starts(a.todo) /\ StartAt(t) \in {"sent2", "sent4"})

\* The call that began the first exchange waits for it.
Started(t, a) == Starts(a.todo) /\ a.busy /\ StartAt(t) = "sent1"

Between(t, v, a) ==
  /\ t.kex = "none" /\ Calm(t, v)
  /\ \/ t.kexRc = "" /\ PastExchange(t, a)
     \/ t.kexRc = "KEYS" /\ Started(t, a)

In(t, v, a) ==
  /\ a.busy /\ t.kexRc = "" /\ Exchanging(t, v)
  /\ \/ t.kex = "startup" /\ Started(t, a)
     \/ t.kex = "add" /\ PastExchange(t, a)

Quitting(todo) == \A j \in DOMAIN todo : todo[j].op \in {"disconnect", "session_free"}

\* An exchange has failed.
Broken(t, v) ==
  /\ \/ Plainly(t.outbound, v, t.keys) \/ Begun(t.outbound, v, t.keys)
     \/ t.gone /\ \E k \in {t.keys, t.keys + 1} : Open(t.outbound, v, k)
  /\ t.fullpacket # "" \/ t.inbound = <<>> \/ t.inbound[1].key = t.keys
  /\ t.inbound = <<>> => t.gone \/ (v.offered /\ NoneDue(t.outbound))

Failed(t, v, a) ==
  /\ t.kex = "none" /\ Broken(t, v)
  /\ \/ t.kexRc = "" /\ Quitting(a.todo)
     \/ t.kexRc = "FAIL" /\ Started(t, a)

Freed(t, v, a) ==
  /\ a.todo = <<>> /\ ~a.busy /\ t.socket_state = "freed" /\ t.kex = "none"
  /\ \E k \in {v.keysIn, v.keysIn + 1} :
       Plainly(t.outbound, v, k) \/ Begun(t.outbound, v, k) \/ Switching(t.outbound, v, k)

Hung(t, v) ==
  /\ t.fullpacket # "" \/ t.socket_state = "disconnected" => t.gone
  /\ \A j \in DOMAIN t.inbound : t.inbound[j].type = "DISCONNECT" => t.gone
  /\ \A j \in DOMAIN v.held : v.held[j].type = "DISCONNECT" => t.gone

Serving(v) ==
  /\ FormedServer(v) /\ ~v.undeciphered /\ ~v.strayed /\ v.keysIn \in Nat
  /\ \A j \in DOMAIN v.held : v.held[j].type \notin Awaited
  /\ ~v.offered => v.held = <<>>

Good(t, v, a) ==
  /\ Formed(t) /\ t.keys \in Nat /\ Serving(v) /\ Hung(t, v) /\ Program(t, a)
  /\ Unstarted(t, v, a) \/ In(t, v, a) \/ Between(t, v, a) \/ Failed(t, v, a) \/ Freed(t, v, a)

KeyInv == DOMAIN app = AppFields /\ (app.left \/ Good(s, srv, app))

-----------------------------------------------------------------------------
(* Lists, and lists of packets. *)

LEMMA ListIs ==
  ASSUME NEW S, NEW q \in Seq(S)
  PROVE  /\ IsList(q) /\ Len(q) \in Nat /\ DOMAIN q = 1..Len(q)
         /\ \A j \in 1..Len(q) : q[j] \in S
<1>1. Len(q) \in Nat /\ DOMAIN q = 1..Len(q) /\ \A j \in 1..Len(q) : q[j] \in S
  BY LenProperties
<1>2. \A j \in 1..Len(q) : q[j] \in Range(q)
  BY <1>1 DEF Range
<1>3. q \in [1..Len(q) -> S]
  BY LenProperties
<1>4. q \in [1..Len(q) -> Range(q)]
  BY <1>2, <1>3
<1>. QED
  BY <1>1, <1>4, IsASeq DEF IsList

LEMMA ListHas ==
  ASSUME NEW q, IsList(q)
  PROVE  /\ q \in Seq(Range(q)) /\ Len(q) \in Nat /\ DOMAIN q = 1..Len(q)
         /\ \A j \in 1..Len(q) : q[j] \in Range(q)
BY LenProperties DEF IsList

LEMMA ListAppended ==
  ASSUME NEW q, IsList(q), NEW e
  PROVE  /\ IsList(Append(q, e)) /\ Len(q) \in Nat /\ DOMAIN q = 1..Len(q)
         /\ Len(Append(q, e)) = Len(q) + 1 /\ DOMAIN Append(q, e) = 1..(Len(q) + 1)
         /\ \A j \in 1..Len(q) : Append(q, e)[j] = q[j]
         /\ Append(q, e)[Len(q) + 1] = e
<1> DEFINE S == Range(q) \cup {e}
<1>1. q \in Seq(S) /\ e \in S
  <2>1. \A j \in 1..Len(q) : q[j] \in S
    BY ListHas
  <2>2. q \in [1..Len(q) -> S] /\ Len(q) \in Nat
    BY <2>1, ListHas, LenProperties
  <2> HIDE DEF S
  <2>3. q \in Seq(S)
    BY <2>2, IsASeq
  <2>. QED
    BY <2>3 DEF S
<1> HIDE DEF S
<1>2. /\ Append(q, e) \in Seq(S)
      /\ Len(Append(q, e)) = Len(q) + 1 /\ Len(q) \in Nat
      /\ \A i \in 1..Len(q) : Append(q, e)[i] = q[i]
      /\ Append(q, e)[Len(q) + 1] = e
  BY <1>1, AppendElements
<1>. QED
  BY <1>1, <1>2, ListIs

LEMMA ListTail ==
  ASSUME NEW q, IsList(q), q # <<>>
  PROVE  /\ IsList(Tail(q)) /\ Len(q) \in Nat /\ Len(q) >= 1 /\ DOMAIN q = 1..Len(q)
         /\ Len(Tail(q)) = Len(q) - 1 /\ DOMAIN Tail(q) = 1..(Len(q) - 1)
         /\ \A j \in 1..(Len(q) - 1) : Tail(q)[j] = q[j + 1]
         /\ Head(q) = q[1]
<1>1. q \in Seq(Range(q)) /\ Len(q) \in Nat /\ DOMAIN q = 1..Len(q)
  BY ListHas
<1>2. /\ Tail(q) \in Seq(Range(q)) /\ Len(Tail(q)) = Len(q) - 1
      /\ \A i \in 1..Len(Tail(q)) : Tail(q)[i] = q[i + 1]
      /\ Head(q) = q[1]
  BY <1>1, HeadTailProperties
<1>3. Len(q) # 0
  BY <1>1, EmptySeq
<1> DEFINE x == Tail(q)
<1>4. IsList(x) /\ DOMAIN x = 1..Len(x) /\ Len(x) = Len(q) - 1
  BY <1>1, <1>2, ListIs
<1>5. \A j \in 1..Len(x) : x[j] = q[j + 1]
  BY <1>2
<1> HIDE DEF x
<1>. QED
  BY <1>1, <1>2, <1>3, <1>4, <1>5 DEF x

LEMMA ListJoined ==
  ASSUME NEW q, IsList(q), NEW r, IsList(r)
  PROVE  /\ IsList(q \o r) /\ Len(q) \in Nat /\ Len(r) \in Nat
         /\ Len(q \o r) = Len(q) + Len(r) /\ DOMAIN (q \o r) = 1..(Len(q) + Len(r))
         /\ \A j \in 1..Len(q) : (q \o r)[j] = q[j]
         /\ \A j \in 1..Len(r) : (q \o r)[Len(q) + j] = r[j]
         /\ \A j \in (Len(q) + 1)..(Len(q) + Len(r)) : (q \o r)[j] = r[j - Len(q)]
<1> DEFINE S == Range(q) \cup Range(r)
<1>0. /\ Len(q) \in Nat /\ Len(r) \in Nat
      /\ \A j \in 1..Len(q) : q[j] \in S
      /\ \A j \in 1..Len(r) : r[j] \in S
      /\ q = [j \in 1..Len(q) |-> q[j]] /\ r = [j \in 1..Len(r) |-> r[j]]
  BY ListHas, LenProperties
<1> HIDE DEF S
<1>1. q \in Seq(S) /\ r \in Seq(S)
  BY <1>0, IsASeq
<1>2. /\ q \o r \in Seq(S) /\ Len(q \o r) = Len(q) + Len(r)
      /\ \A i \in 1..(Len(q) + Len(r)) : (q \o r)[i] = IF i <= Len(q) THEN q[i] ELSE r[i - Len(q)]
  BY <1>1, ConcatProperties
<1> DEFINE x == q \o r
<1>3. IsList(x) /\ DOMAIN x = 1..(Len(q) + Len(r)) /\ Len(x) = Len(q) + Len(r)
  BY <1>2, ListIs
<1>4. \A i \in 1..(Len(q) + Len(r)) : x[i] = IF i <= Len(q) THEN q[i] ELSE r[i - Len(q)]
  BY <1>2
<1> HIDE DEF x
<1>5. /\ \A j \in 1..Len(q) : x[j] = q[j]
      /\ \A j \in 1..Len(r) : x[Len(q) + j] = r[j]
      /\ \A j \in (Len(q) + 1)..(Len(q) + Len(r)) : x[j] = r[j - Len(q)]
  BY <1>0, <1>4
<1>. QED
  BY <1>0, <1>3, <1>5 DEF x

LEMMA ListWithout ==
  ASSUME NEW q, IsList(q), NEW i \in DOMAIN q
  PROVE  /\ IsList(RemoveAt(q, i)) /\ Len(q) \in Nat /\ DOMAIN q = 1..Len(q)
         /\ Len(RemoveAt(q, i)) = Len(q) - 1 /\ DOMAIN RemoveAt(q, i) = 1..(Len(q) - 1)
         /\ \A j \in 1..(Len(q) - 1) : RemoveAt(q, i)[j] = IF j < i THEN q[j] ELSE q[j + 1]
<1> DEFINE S == Range(q)
           a == SubSeq(q, 1, i - 1)
           b == SubSeq(q, i + 1, Len(q))
<1>1. q \in Seq(S) /\ Len(q) \in Nat /\ DOMAIN q = 1..Len(q)
  BY ListHas
<1> HIDE DEF S
<1>2. /\ a \in Seq(S) /\ Len(a) = i - 1 /\ \A j \in 1..(i - 1) : a[j] = q[j]
  <2>1. i - 1 \in 0..Len(q) /\ 1 \in 1..((i - 1) + 1)
    BY <1>1
  <2>2. /\ SubSeq(q, 1, i - 1) \in Seq(S) /\ Len(SubSeq(q, 1, i - 1)) = (i - 1) - 1 + 1
        /\ \A j \in 1..((i - 1) - 1 + 1) : SubSeq(q, 1, i - 1)[j] = q[1 - 1 + j]
    BY <1>1, <2>1, Stretch
  <2>. QED
    BY <1>1, <2>2
<1>3. /\ b \in Seq(S) /\ Len(b) = Len(q) - i /\ \A j \in 1..(Len(q) - i) : b[j] = q[i + j]
  <2>1. Len(q) \in 0..Len(q) /\ i + 1 \in 1..(Len(q) + 1)
    BY <1>1
  <2>2. /\ SubSeq(q, i + 1, Len(q)) \in Seq(S) /\ Len(SubSeq(q, i + 1, Len(q))) = Len(q) - (i + 1) + 1
        /\ \A j \in 1..(Len(q) - (i + 1) + 1) : SubSeq(q, i + 1, Len(q))[j] = q[(i + 1) - 1 + j]
    BY <1>1, <2>1, Stretch
  <2>. QED
    BY <1>1, <2>2
<1> HIDE DEF a, b
<1>4. IsList(a) /\ IsList(b)
  BY <1>2, <1>3, ListIs
<1> DEFINE x == a \o b
<1>5. /\ IsList(x) /\ Len(x) = Len(a) + Len(b) /\ DOMAIN x = 1..(Len(a) + Len(b))
      /\ \A j \in 1..Len(a) : x[j] = a[j]
      /\ \A j \in (Len(a) + 1)..(Len(a) + Len(b)) : x[j] = b[j - Len(a)]
  BY <1>4, ListJoined
<1>6. RemoveAt(q, i) = x
  BY DEF RemoveAt, a, b
<1> HIDE DEF x
<1>7. Len(a) + Len(b) = Len(q) - 1
  BY <1>1, <1>2, <1>3
<1>8. ASSUME NEW j \in 1..(Len(q) - 1) PROVE x[j] = IF j < i THEN q[j] ELSE q[j + 1]
  <2>1. CASE j < i
    BY <2>1, <1>1, <1>2, <1>5
  <2>2. CASE ~(j < i)
    <3>1. j \in (Len(a) + 1)..(Len(a) + Len(b)) /\ j - Len(a) \in 1..(Len(q) - i) /\ i + (j - Len(a)) = j + 1
      BY <2>2, <1>1, <1>2, <1>3
    <3>. QED
      BY <2>2, <3>1, <1>3, <1>5
  <2>. QED
    BY <2>1, <2>2
<1>. QED
  BY <1>1, <1>5, <1>6, <1>7, <1>8

\* Only, and its parts: what the first k elements leave.
OnlyGrows(f, q, T) ==
  /\ f \in [0..Len(q) -> Seq(Range(q))] /\ f[0] = <<>> /\ Only(q, T) = f[Len(q)]
  /\ \A k \in 1..Len(q) : f[k] = IF q[k] \in T THEN Append(f[k - 1], q[k]) ELSE f[k - 1]

LEMMA OnlyUnfolds ==
  ASSUME NEW q, IsList(q), NEW T
  PROVE  \E f : OnlyGrows(f, q, T)
<1> DEFINE S == Range(q)
           V == Seq(S)
           n == Len(q)
           Unfolds(f) == f = [k \in 0..Len(q) |-> IF k = 0 THEN <<>>
                                ELSE IF q[k] \in T THEN Append(f[k - 1], q[k]) ELSE f[k - 1]]
           h == [x \in (1..n) \X V |-> IF q[x[1]] \in T THEN Append(x[2], q[x[1]]) ELSE x[2]]
<1>1. n \in Nat /\ <<>> \in V /\ \A k \in 1..n : q[k] \in S
  BY ListHas, EmptySeq
<1>2. \A k \in 1..n, b \in V : Append(b, q[k]) \in V
  BY <1>1, AppendProperties
<1> HIDE DEF V
<1>3. h \in [(1..n) \X V -> V]
  BY <1>2
<1>4. \A k \in 1..n, b \in V : h[<<k, b>>] = IF q[k] \in T THEN Append(b, q[k]) ELSE b
  OBVIOUS
<1> HIDE DEF h
<1>5. PICK f : Recurs(f, n, V, <<>>, h)
  BY <1>1, <1>3, PrimitiveRecursion
<1>6. f \in [0..n -> V] /\ f[0] = <<>> /\ \A k \in 1..n : f[k] = h[<<k, f[k - 1]>>]
  BY <1>5 DEF Recurs
<1>7. \A k \in 1..n : k - 1 \in 0..n /\ k \in 0..n /\ k # 0
  BY <1>1
<1>8. \A k \in 1..n : f[k - 1] \in V
  BY <1>6, <1>7
<1>9. \A k \in 1..n : f[k] = IF q[k] \in T THEN Append(f[k - 1], q[k]) ELSE f[k - 1]
  BY <1>4, <1>6, <1>8
<1>10. Unfolds(f)
  <2>1. \A k \in 0..n : f[k] = IF k = 0 THEN <<>> ELSE IF q[k] \in T THEN Append(f[k - 1], q[k]) ELSE f[k - 1]
    <3>1. \A k \in 0..n : k = 0 \/ k \in 1..n
      BY <1>1
    <3>. QED
      BY <1>6, <1>9, <3>1
  <2>. QED
    BY <1>6, <2>1, Zenon
<1> DEFINE g == CHOOSE e : Unfolds(e)
<1>11. Only(q, T) = g[Len(q)]
  BY DEF Only
<1>12. Unfolds(g)
  <2> HIDE DEF Unfolds
  <2>. QED
    BY <1>10
<1> HIDE DEF g
<1>13. g[0] = <<>> /\ \A k \in 1..n : g[k] = IF q[k] \in T THEN Append(g[k - 1], q[k]) ELSE g[k - 1]
  <2>1. \A k \in 0..n : g[k] = IF k = 0 THEN <<>> ELSE IF q[k] \in T THEN Append(g[k - 1], q[k]) ELSE g[k - 1]
    BY <1>12, Zenon
  <2>2. 0 \in 0..n
    BY <1>1
  <2>. QED
    BY <1>7, <2>1, <2>2
<1> DEFINE D == {k \in Nat : k <= n => g[k] \in V}
<1>14. Nat \subseteq D
  <2>1. 0 \in D
    BY <1>1, <1>13
  <2>2. ASSUME NEW k \in Nat, k \in D PROVE k + 1 \in D
    <3>. SUFFICES ASSUME k + 1 <= n PROVE g[k + 1] \in V
      OBVIOUS
    <3>1. k + 1 \in 1..n /\ (k + 1) - 1 = k /\ g[k] \in V
      BY <1>1, <2>2
    <3>2. g[k + 1] = IF q[k + 1] \in T THEN Append(g[k], q[k + 1]) ELSE g[k]
      BY <1>13, <3>1
    <3>. QED
      BY <1>2, <3>1, <3>2
  <2> HIDE DEF D
  <2>. QED
    BY <2>1, <2>2, NatSetInduction
<1>15. \A k \in 0..n : g[k] \in V
  BY <1>1, <1>14
<1>16. g \in [0..n -> V]
  BY <1>12, <1>15
<1>. QED
  BY <1>11, <1>13, <1>16 DEF OnlyGrows, V

\* It is a list of what is in the set.
LEMMA OnlyHas ==
  ASSUME NEW q, IsList(q), NEW T
  PROVE  IsList(Only(q, T)) /\ Range(Only(q, T)) = Range(q) \cap T
<1> DEFINE S == Range(q)
           n == Len(q)
<1>1. n \in Nat /\ DOMAIN q = 1..n /\ \A j \in 1..n : q[j] \in S
  BY ListHas
<1>2. PICK f : OnlyGrows(f, q, T)
  BY OnlyUnfolds
<1>3. /\ f \in [0..n -> Seq(S)] /\ f[0] = <<>> /\ Only(q, T) = f[n]
      /\ \A k \in 1..n : f[k] = IF q[k] \in T THEN Append(f[k - 1], q[k]) ELSE f[k - 1]
  BY <1>2 DEF OnlyGrows
<1> DEFINE D == {k \in Nat : k <= n => ToSet(f[k]) = {q[j] : j \in 1..k} \cap T}
<1>4. Nat \subseteq D
  <2>1. 0 \in D
    BY <1>3 DEF ToSet
  <2>2. ASSUME NEW k \in Nat, k \in D PROVE k + 1 \in D
    <3>. SUFFICES ASSUME k + 1 <= n PROVE ToSet(f[k + 1]) = {q[j] : j \in 1..(k + 1)} \cap T
      OBVIOUS
    <3>1. k + 1 \in 1..n /\ (k + 1) - 1 = k /\ k \in 0..n /\ f[k] \in Seq(S) /\ q[k + 1] \in S
      BY <1>1, <1>3, <2>2
    <3>2. f[k + 1] = IF q[k + 1] \in T THEN Append(f[k], q[k + 1]) ELSE f[k]
      BY <1>3, <3>1
    <3>3. ToSet(Append(f[k], q[k + 1])) = ToSet(f[k]) \cup {q[k + 1]}
      BY <3>1, AppendElements
    <3>4. {q[j] : j \in 1..(k + 1)} = {q[j] : j \in 1..k} \cup {q[k + 1]}
      BY <3>1
    <3>5. ToSet(f[k]) = {q[j] : j \in 1..k} \cap T
      BY <2>2, <3>1
    <3> HIDE DEF D
    <3>. QED
      BY <3>2, <3>3, <3>4, <3>5
  <2> HIDE DEF D
  <2>. QED
    BY <2>1, <2>2, NatSetInduction
<1>5. ToSet(f[n]) = {q[j] : j \in 1..n} \cap T
  BY <1>1, <1>4
<1>6. {q[j] : j \in 1..n} = Range(q)
  BY <1>1 DEF Range
<1>7. f[n] \in Seq(S)
  BY <1>1, <1>3
<1>8. IsList(f[n])
  BY <1>7, ListIs
<1>9. ToSet(f[n]) = Range(f[n])
  BY DEF ToSet, Range
<1>. QED
  BY <1>3, <1>5, <1>6, <1>8, <1>9

-----------------------------------------------------------------------------
(* Lists of packets. *)

LEMMA PacketsAppended ==
  ASSUME NEW q, ArePackets(q), NEW p, IsPacket(p)
  PROVE  ArePackets(Append(q, p)) /\ Range(Append(q, p)) = Range(q) \cup {p}
<1> DEFINE x == Append(q, p)
<1>1. /\ IsList(x) /\ Len(q) \in Nat /\ DOMAIN q = 1..Len(q) /\ DOMAIN x = 1..(Len(q) + 1)
      /\ \A j \in 1..Len(q) : x[j] = q[j]
      /\ x[Len(q) + 1] = p
  BY ListAppended DEF ArePackets
<1> HIDE DEF x
<1>2. \A j \in DOMAIN x : IsPacket(x[j])
  BY <1>1 DEF ArePackets
<1>3. Range(x) = Range(q) \cup {p}
  BY <1>1 DEF Range
<1>. QED
  BY <1>1, <1>2, <1>3 DEF x, ArePackets

LEMMA PacketsTail ==
  ASSUME NEW q, ArePackets(q), q # <<>>
  PROVE  /\ ArePackets(Tail(q)) /\ IsPacket(Head(q)) /\ Head(q) = q[1] /\ 1 \in DOMAIN q
         /\ Head(q) \in Range(q) /\ Range(Tail(q)) \subseteq Range(q)
<1> DEFINE x == Tail(q)
<1>1. /\ IsList(x) /\ Len(q) \in Nat /\ Len(q) >= 1 /\ DOMAIN q = 1..Len(q)
      /\ DOMAIN x = 1..(Len(q) - 1)
      /\ \A j \in 1..(Len(q) - 1) : x[j] = q[j + 1]
      /\ Head(q) = q[1]
  BY ListTail DEF ArePackets
<1> HIDE DEF x
<1>2. \A j \in DOMAIN x : x[j] = q[j + 1] /\ j + 1 \in DOMAIN q
  BY <1>1
<1>3. 1 \in DOMAIN q
  BY <1>1
<1>4. \A j \in DOMAIN x : IsPacket(x[j])
  BY <1>2 DEF ArePackets
<1>5. Range(x) \subseteq Range(q) /\ q[1] \in Range(q)
  BY <1>2, <1>3 DEF Range
<1>. QED
  BY <1>1, <1>3, <1>4, <1>5 DEF x, ArePackets

LEMMA PacketsJoined ==
  ASSUME NEW q, ArePackets(q), NEW r, ArePackets(r)
  PROVE  ArePackets(q \o r) /\ Range(q \o r) = Range(q) \cup Range(r)
<1> DEFINE x == q \o r
<1>1. /\ IsList(x) /\ Len(q) \in Nat /\ Len(r) \in Nat
      /\ DOMAIN x = 1..(Len(q) + Len(r))
      /\ \A j \in 1..Len(q) : x[j] = q[j]
      /\ \A j \in 1..Len(r) : x[Len(q) + j] = r[j]
      /\ \A j \in (Len(q) + 1)..(Len(q) + Len(r)) : x[j] = r[j - Len(q)]
  BY ListJoined DEF ArePackets
<1>2. DOMAIN q = 1..Len(q) /\ DOMAIN r = 1..Len(r)
  BY ListHas DEF ArePackets
<1> HIDE DEF x
<1>3. \A j \in DOMAIN x : (j \in DOMAIN q /\ x[j] = q[j]) \/ (j - Len(q) \in DOMAIN r /\ x[j] = r[j - Len(q)])
  BY <1>1, <1>2
<1>4. \A j \in DOMAIN x : IsPacket(x[j])
  BY <1>3 DEF ArePackets
<1>5. \A j \in DOMAIN q : j \in DOMAIN x /\ x[j] = q[j]
  BY <1>1, <1>2
<1>6. \A j \in DOMAIN r : Len(q) + j \in DOMAIN x /\ x[Len(q) + j] = r[j]
  BY <1>1, <1>2
<1>7. Range(x) = Range(q) \cup Range(r)
  BY <1>3, <1>5, <1>6 DEF Range
<1>. QED
  BY <1>1, <1>4, <1>7 DEF x, ArePackets

LEMMA PacketsWithout ==
  ASSUME NEW q, ArePackets(q), NEW i \in DOMAIN q
  PROVE  /\ ArePackets(RemoveAt(q, i))
         /\ Range(RemoveAt(q, i)) \subseteq Range(q)
         /\ Range(q) \subseteq Range(RemoveAt(q, i)) \cup {q[i]}
<1> DEFINE x == RemoveAt(q, i)
<1>1. /\ IsList(x) /\ Len(q) \in Nat /\ DOMAIN q = 1..Len(q)
      /\ DOMAIN x = 1..(Len(q) - 1)
      /\ \A j \in 1..(Len(q) - 1) : x[j] = IF j < i THEN q[j] ELSE q[j + 1]
  BY ListWithout DEF ArePackets
<1> HIDE DEF x
<1>2. \A j \in DOMAIN x : \E k \in DOMAIN q : x[j] = q[k]
  BY <1>1
<1>3. ASSUME NEW j \in DOMAIN q, j # i PROVE \E k \in DOMAIN x : x[k] = q[j]
  <2>1. CASE j < i
    BY <1>1, <2>1
  <2>2. CASE j > i
    <3>1. j - 1 \in DOMAIN x /\ ~(j - 1 < i) /\ (j - 1) + 1 = j
      BY <1>1, <2>2
    <3>2. x[j - 1] = q[j]
      BY <1>1, <3>1
    <3>. QED
      BY <3>1, <3>2
  <2>. QED
    BY <1>1, <1>3, <2>1, <2>2
<1>4. \A j \in DOMAIN x : IsPacket(x[j])
  BY <1>2 DEF ArePackets
<1>5. Range(x) \subseteq Range(q) /\ Range(q) \subseteq Range(x) \cup {q[i]}
  BY <1>2, <1>3 DEF Range
<1>. QED
  BY <1>1, <1>4, <1>5 DEF x, ArePackets

LEMMA PacketsOnly ==
  ASSUME NEW q, ArePackets(q), NEW T
  PROVE  ArePackets(Only(q, T)) /\ Range(Only(q, T)) = Range(q) \cap T
<1> DEFINE x == Only(q, T)
<1>1. IsList(x) /\ Range(x) = Range(q) \cap T
  BY OnlyHas DEF ArePackets
<1> HIDE DEF x
<1>2. \A p \in Range(q) : IsPacket(p)
  BY DEF ArePackets, Range
<1>3. \A j \in DOMAIN x : IsPacket(x[j])
  BY <1>1, <1>2 DEF Range
<1>. QED
  BY <1>1, <1>3 DEF x, ArePackets

\* A packet whose data are read in part.
LEMMA PacketsHead ==
  ASSUME NEW q, ArePackets(q), NEW i \in DOMAIN q, NEW n
  PROVE  LET r == [q EXCEPT ![i].head = n]
         IN  /\ ArePackets(r) /\ DOMAIN r = DOMAIN q /\ Len(r) = Len(q)
             /\ \A j \in DOMAIN q : j # i => r[j] = q[j]
             /\ r[i] = [q[i] EXCEPT !.head = n]
<1> DEFINE e == [q[i] EXCEPT !.head = n]
           r == [q EXCEPT ![i] = e]
<1>1. q \in Seq(Range(q)) /\ DOMAIN q = 1..Len(q) /\ Len(q) \in Nat /\ \A j \in 1..Len(q) : q[j] \in Range(q)
  BY ListHas DEF ArePackets
<1>2. IsPacket(e)
  BY DEF ArePackets, IsPacket
<1>3. q = [j \in 1..Len(q) |-> q[j]]
  BY <1>1, LenProperties
<1>. HIDE DEF e
<1>4. r = [j \in 1..Len(q) |-> IF j = i THEN e ELSE q[j]]
  BY <1>1, <1>3
<1> DEFINE S == Range(q) \cup {e}
<1>5. \A j \in 1..Len(q) : r[j] \in S
  BY <1>1, <1>4
<1> HIDE DEF S
<1>6. r \in [1..Len(q) -> S]
  BY <1>4, <1>5
<1> HIDE DEF r
<1>7. r \in Seq(S) /\ Len(r) = Len(q)
  BY <1>1, <1>6, IsASeq
<1>8. IsList(r) /\ DOMAIN r = DOMAIN q
  BY <1>7, <1>1, ListIs
<1>9. \A j \in DOMAIN r : IsPacket(r[j])
  BY <1>1, <1>2, <1>4, <1>8 DEF ArePackets
<1>. QED
  BY <1>1, <1>4, <1>7, <1>8, <1>9 DEF ArePackets, r, e

-----------------------------------------------------------------------------
(* Sessions *)

LEMMA FieldsAre ==
  /\ Fields = {"socket_state", "state", "keys", "session_id", "packets", "fullpacket", "at", "start",
               "channels", "chan", "next_channel", "listeners", "x11", "open_channel", "kex", "kexRc",
               "burn", "methods", "call", "inbound", "outbound", "gone"}
  /\ PacketFields = {"type", "ch", "n", "from", "what", "head", "key"}
  /\ ServerFields = {"keysIn", "keysOut", "offered", "exchanging", "held", "undeciphered", "strayed",
                     "disordered", "chan", "verdicts", "tries", "may", "opens", "bytes", "ext"}
BY DEF Fields, NewSession, PacketFields, Plain, Packet, ServerFields, NewServer

\* What of a list an exchange waits for.
AwaitedIn(q) == {p \in Range(q) : p.type \in Awaited}

\* outbound has grown by packets that belong to no exchange, under the keys in use.
Sends(t, u) ==
  /\ Len(t.outbound) <= Len(u.outbound)
  /\ \A j \in DOMAIN t.outbound : u.outbound[j] = t.outbound[j]
  /\ \A j \in DOMAIN u.outbound \ DOMAIN t.outbound :
       u.outbound[j].key = t.keys /\ u.outbound[j].type \notin Asking
  /\ t.gone => u.outbound = t.outbound

\* From t to u nothing has happened that an exchange of keys would notice.
Works(t, u) ==
  /\ Formed(u)
  /\ u.keys = t.keys /\ u.gone = t.gone /\ u.kex = t.kex /\ u.kexRc = t.kexRc
  /\ u.burn = t.burn /\ u.methods = t.methods /\ u.inbound = t.inbound
  /\ (u.fullpacket = t.fullpacket /\ u.socket_state = t.socket_state) \/ u.gone
  /\ ExchangeStates \cap u.state = ExchangeStates \cap t.state
  /\ "kex" \in u.start <=> "kex" \in t.start
  /\ \A op \in KeyOps : At(t, op, 0) = "idle" => At(u, op, 0) = "idle"
  /\ AwaitedIn(u.packets) = AwaitedIn(t.packets)
  /\ Sends(t, u)

LEMMA FormedLists ==
  ASSUME NEW t, Formed(t)
  PROVE  /\ Len(t.packets) \in Nat /\ DOMAIN t.packets = 1..Len(t.packets)
         /\ Len(t.inbound) \in Nat /\ DOMAIN t.inbound = 1..Len(t.inbound)
         /\ Len(t.outbound) \in Nat /\ DOMAIN t.outbound = 1..Len(t.outbound)
BY ListHas DEF Formed, ArePackets

LEMMA WorksSame ==
  ASSUME NEW t, Formed(t)
  PROVE  Works(t, t)
BY FormedLists DEF Works, Sends

LEMMA WorksOn ==
  ASSUME NEW t, Formed(t), NEW u, NEW w, Works(t, u), Works(u, w)
  PROVE  Works(t, w)
<1>1. Formed(u) /\ Formed(w)
  BY DEF Works
<1>2. Sends(t, w)
  <2>1. Sends(t, u) /\ Sends(u, w) /\ u.keys = t.keys /\ u.gone = t.gone
    BY DEF Works
  <2>2. /\ Len(t.outbound) \in Nat /\ DOMAIN t.outbound = 1..Len(t.outbound)
        /\ Len(u.outbound) \in Nat /\ DOMAIN u.outbound = 1..Len(u.outbound)
        /\ Len(w.outbound) \in Nat /\ DOMAIN w.outbound = 1..Len(w.outbound)
    BY <1>1, FormedLists
  <2>. QED
    BY <2>1, <2>2 DEF Sends
<1>. QED
  BY <1>2 DEF Works

\* Fields the exchange does not look at.
LEMMA WorksElsewhere ==
  ASSUME NEW t, Formed(t), NEW u, DOMAIN u = Fields,
         u.keys = t.keys, u.gone = t.gone, u.kex = t.kex, u.kexRc = t.kexRc,
         u.burn = t.burn, u.methods = t.methods, u.inbound = t.inbound,
         u.fullpacket = t.fullpacket, u.socket_state = t.socket_state,
         u.state = t.state, u.start = t.start, u.at = t.at,
         u.packets = t.packets, u.outbound = t.outbound
  PROVE  Works(t, u)
BY FormedLists DEF Works, Sends, Formed, At

\* Another brigade, with the same packets of an exchange.
LEMMA WorksBrigade ==
  ASSUME NEW t, Formed(t), NEW q, ArePackets(q), AwaitedIn(q) = AwaitedIn(t.packets)
  PROVE  Works(t, [t EXCEPT !.packets = q])
<1> DEFINE u == [t EXCEPT !.packets = q]
<1>1. /\ DOMAIN u = Fields /\ u.packets = q
      /\ u.keys = t.keys /\ u.gone = t.gone /\ u.kex = t.kex /\ u.kexRc = t.kexRc
      /\ u.burn = t.burn /\ u.methods = t.methods /\ u.inbound = t.inbound
      /\ u.fullpacket = t.fullpacket /\ u.socket_state = t.socket_state
      /\ u.state = t.state /\ u.start = t.start /\ u.at = t.at
      /\ u.outbound = t.outbound
  BY FieldsAre DEF Formed
<1> HIDE DEF u
<1>. QED
  BY <1>1, FormedLists DEF Works, Sends, Formed, At, u

LEMMA AtGoto ==
  ASSUME NEW t, Formed(t), NEW op, NEW c, NEW pos
  PROVE  /\ DOMAIN Goto(t, op, c, pos) = Fields
         /\ \A f \in Fields \ {"at"} : Goto(t, op, c, pos)[f] = t[f]
         /\ At(Goto(t, op, c, pos), op, c) = pos
         /\ \A o, d : <<o, d>> # <<op, c>> => At(Goto(t, op, c, pos), o, d) = At(t, o, d)
<1> DEFINE others == DOMAIN t.at \ {<<op, c>>}
           keys   == IF pos = "idle" THEN others ELSE others \cup {<<op, c>>}
           g == [k \in keys |-> IF k = <<op, c>> THEN pos ELSE t.at[k]]
           u == Goto(t, op, c, pos)
<1>1. u = [t EXCEPT !.at = g]
  BY DEF Goto
<1>2. DOMAIN u = Fields /\ u.at = g /\ \A f \in Fields \ {"at"} : u[f] = t[f]
  BY <1>1, FieldsAre DEF Formed
<1>3. \A o, d : At(u, o, d) = IF <<o, d>> \in keys THEN g[<<o, d>>] ELSE "idle"
  BY <1>2 DEF At
<1> HIDE DEF u
<1>4. At(u, op, c) = pos
  BY <1>3
<1>5. \A o, d : <<o, d>> # <<op, c>> => At(u, o, d) = At(t, o, d)
  BY <1>3 DEF At
<1>. QED
  BY <1>2, <1>4, <1>5 DEF u

LEMMA GotoForms ==
  ASSUME NEW t, Formed(t), NEW op, NEW c, NEW pos
  PROVE  LET u == Goto(t, op, c, pos)
         IN  /\ Formed(u)
             /\ u.keys = t.keys /\ u.gone = t.gone /\ u.kex = t.kex /\ u.kexRc = t.kexRc
             /\ u.burn = t.burn /\ u.methods = t.methods /\ u.inbound = t.inbound
             /\ u.fullpacket = t.fullpacket /\ u.socket_state = t.socket_state
             /\ u.state = t.state /\ u.start = t.start
             /\ u.packets = t.packets /\ u.outbound = t.outbound /\ u.call = t.call
             /\ u.chan = t.chan /\ u.channels = t.channels /\ u.listeners = t.listeners
             /\ u.open_channel = t.open_channel /\ u.next_channel = t.next_channel
<1> DEFINE u == Goto(t, op, c, pos)
<1>1. DOMAIN u = Fields /\ \A f \in Fields \ {"at"} : u[f] = t[f]
  BY AtGoto
<1> HIDE DEF u
<1>. QED
  BY <1>1, FieldsAre DEF Formed, u

\* Where an operation stands is nothing to an exchange, unless it is its own.
LEMMA WorksGoto ==
  ASSUME NEW t, Formed(t), NEW op, NEW c, NEW pos, op \notin KeyOps \/ pos = "idle"
  PROVE  Works(t, Goto(t, op, c, pos))
<1> DEFINE u == Goto(t, op, c, pos)
<1>1. /\ Formed(u)
      /\ u.keys = t.keys /\ u.gone = t.gone /\ u.kex = t.kex /\ u.kexRc = t.kexRc
      /\ u.burn = t.burn /\ u.methods = t.methods /\ u.inbound = t.inbound
      /\ u.fullpacket = t.fullpacket /\ u.socket_state = t.socket_state
      /\ u.state = t.state /\ u.start = t.start
      /\ u.packets = t.packets /\ u.outbound = t.outbound
  BY GotoForms
<1>2. /\ At(u, op, c) = pos
      /\ \A o, d : <<o, d>> # <<op, c>> => At(u, o, d) = At(t, o, d)
  BY AtGoto
<1> HIDE DEF u
<1>3. \A o \in KeyOps : At(t, o, 0) = "idle" => At(u, o, 0) = "idle"
  BY <1>2
<1>. QED
  BY <1>1, <1>3, FormedLists DEF Works, Sends, u

\* All fields but some are the same.
Same(t, u, others) == DOMAIN u = Fields /\ \A f \in Fields \ others : u[f] = t[f]

\* What a function returns.
LEMMA ResultIs ==
  ASSUME NEW a, NEW b
  PROVE  R(a, b).s = a /\ R(a, b).rc = b
BY DEF R

LEMMA ResultOf ==
  ASSUME NEW r, NEW a, NEW b, r = R(a, b)
  PROVE  r.s = a /\ r.rc = b
BY ResultIs

\* Sending a packet.
LEMMA WriteForms ==
  ASSUME NEW t, Formed(t), NEW p, IsPacket(p)
  PROVE  LET w == PacketWrite(t, p)
         IN  /\ Formed(w.s) /\ Same(t, w.s, {"outbound"})
             /\ w.rc \in {"", "FAIL"} /\ (w.rc = "FAIL" <=> t.gone)
             /\ w.s.outbound = IF t.gone THEN t.outbound
                              ELSE Append(t.outbound, [p EXCEPT !.key = t.keys])
<1> DEFINE e == [p EXCEPT !.key = t.keys]
           x == Append(t.outbound, e)
<1>1. IsPacket(e)
  BY DEF IsPacket
<1> HIDE DEF e
<1>2. ArePackets(x)
  BY <1>1, PacketsAppended DEF Formed
<1> HIDE DEF x
<1>3. PacketWrite(t, p) = IF t.gone THEN R(t, "FAIL") ELSE R([t EXCEPT !.outbound = x], "")
  BY DEF PacketWrite, e, x
<1>4. CASE t.gone
  <2>1. PacketWrite(t, p).s = t /\ PacketWrite(t, p).rc = "FAIL"
    BY <1>3, <1>4, ResultIs
  <2>. QED
    BY <1>4, <2>1 DEF Formed, Same
<1>5. CASE ~t.gone
  <2> DEFINE u == [t EXCEPT !.outbound = x]
  <2>0. PacketWrite(t, p) = R(u, "")
    BY <1>3, <1>5
  <2>2. Same(t, u, {"outbound"}) /\ u.outbound = x
    BY FieldsAre DEF Formed, Same
  <2> HIDE DEF u
  <2>1. PacketWrite(t, p).s = u /\ PacketWrite(t, p).rc = ""
    BY <2>0, ResultIs
  <2>3. Formed(u)
    BY <1>2, <2>2, FieldsAre DEF Formed, Same
  <2>. QED
    BY <1>5, <2>1, <2>2, <2>3 DEF x, e
<1>. QED
  BY <1>4, <1>5

LEMMA WorksWrite ==
  ASSUME NEW t, Formed(t), NEW p, IsPacket(p), p.type \notin Asking
  PROVE  /\ Works(t, PacketWrite(t, p).s)
         /\ PacketWrite(t, p).rc \in {"", "FAIL"}
         /\ PacketWrite(t, p).rc = "FAIL" <=> t.gone
         /\ PacketWrite(t, p).s.call = t.call /\ PacketWrite(t, p).s.at = t.at
<1> DEFINE e == [p EXCEPT !.key = t.keys]
           u == PacketWrite(t, p).s
           x == Append(t.outbound, e)
<1>1. /\ Formed(u) /\ Same(t, u, {"outbound"})
      /\ u.outbound = IF t.gone THEN t.outbound ELSE x
      /\ PacketWrite(t, p).rc \in {"", "FAIL"} /\ (PacketWrite(t, p).rc = "FAIL" <=> t.gone)
  BY WriteForms
<1>2. e.key = t.keys /\ e.type \notin Asking
  BY FieldsAre DEF IsPacket
<1> HIDE DEF e, u
<1>3. /\ Len(t.outbound) \in Nat /\ DOMAIN t.outbound = 1..Len(t.outbound)
      /\ Len(x) = Len(t.outbound) + 1 /\ DOMAIN x = 1..(Len(t.outbound) + 1)
      /\ \A j \in 1..Len(t.outbound) : x[j] = t.outbound[j]
      /\ x[Len(t.outbound) + 1] = e
  BY ListAppended DEF Formed, ArePackets
<1> HIDE DEF x
<1>4. Sends(t, u)
  <2>1. CASE t.gone
    <3>1. u.outbound = t.outbound
      BY <1>1, <2>1
    <3>. QED
      BY <3>1, <1>3 DEF Sends
  <2>2. CASE ~t.gone
    <3>1. u.outbound = x
      BY <1>1, <2>2
    <3>2. \A j \in DOMAIN x \ DOMAIN t.outbound : x[j] = e
      BY <1>3
    <3>. QED
      BY <2>2, <3>1, <3>2, <1>2, <1>3 DEF Sends
  <2>. QED
    BY <2>1, <2>2
<1>5. Works(t, u)
  BY <1>1, <1>4, FieldsAre DEF Works, At, Same
<1>6. u.call = t.call /\ u.at = t.at
  BY <1>1, FieldsAre DEF Same
<1>. QED
  BY <1>1, <1>5, <1>6 DEF u

LEMMA PacketIs ==
  ASSUME NEW kind, NEW to, NEW length, NEW place, NEW name
  PROVE  /\ IsPacket(Packet(kind, to, length, place, name))
         /\ Packet(kind, to, length, place, name).type = kind
         /\ IsPacket(Plain(kind)) /\ Plain(kind).type = kind
BY FieldsAre DEF IsPacket, Packet, Plain

\* The fields no exchange looks at.
Inert == {"session_id", "channels", "chan", "next_channel", "listeners", "x11", "open_channel", "call"}

LEMMA WorksInert ==
  ASSUME NEW t, Formed(t), NEW u, Same(t, u, Inert)
  PROVE  Works(t, u)
<1>1. /\ DOMAIN u = Fields
      /\ u.keys = t.keys /\ u.gone = t.gone /\ u.kex = t.kex /\ u.kexRc = t.kexRc
      /\ u.burn = t.burn /\ u.methods = t.methods /\ u.inbound = t.inbound
      /\ u.fullpacket = t.fullpacket /\ u.socket_state = t.socket_state
      /\ u.state = t.state /\ u.start = t.start /\ u.at = t.at
      /\ u.packets = t.packets /\ u.outbound = t.outbound
  BY FieldsAre DEF Same, Inert
<1>. QED
  BY <1>1, WorksElsewhere

LEMMA WorksStates ==
  ASSUME NEW t, Formed(t), NEW u, Same(t, u, {"state"}),
         ExchangeStates \cap u.state = ExchangeStates \cap t.state
  PROVE  Works(t, u)
<1>1. /\ DOMAIN u = Fields
      /\ u.keys = t.keys /\ u.gone = t.gone /\ u.kex = t.kex /\ u.kexRc = t.kexRc
      /\ u.burn = t.burn /\ u.methods = t.methods /\ u.inbound = t.inbound
      /\ u.fullpacket = t.fullpacket /\ u.socket_state = t.socket_state
      /\ u.start = t.start /\ u.at = t.at
      /\ u.packets = t.packets /\ u.outbound = t.outbound
  BY FieldsAre DEF Same
<1>. QED
  BY <1>1, FormedLists DEF Works, Sends, Formed, At

\* What packet_add does: an exchange would not notice, and the call goes on
\* where it was.
Adds(t, u) == Works(t, u) /\ u.call = t.call /\ u.at = t.at

LEMMA AddsOn ==
  ASSUME NEW t, Formed(t), NEW u, NEW w, Adds(t, u), Adds(u, w)
  PROVE  Adds(t, w)
BY WorksOn DEF Adds

LEMMA AddsInert ==
  ASSUME NEW t, Formed(t), NEW u, Same(t, u, Inert \ {"call"})
  PROVE  Adds(t, u)
<1>1. Same(t, u, Inert) /\ u.call = t.call /\ u.at = t.at
  BY FieldsAre DEF Same, Inert
<1>. QED
  BY <1>1, WorksInert DEF Adds

LEMMA AddsWrite ==
  ASSUME NEW t, Formed(t), NEW p, IsPacket(p), p.type \notin Asking
  PROVE  /\ Adds(t, PacketWrite(t, p).s) /\ PacketWrite(t, p).rc \in {"", "FAIL"}
         /\ PacketWrite(t, p).rc = "FAIL" => t.gone
BY WorksWrite DEF Adds

LEMMA AddsAdjust ==
  ASSUME NEW t, Formed(t), NEW c, NEW n, NEW force
  PROVE  Adds(t, ReceiveWindowAdjust(t, c, n, force))
<1> DEFINE total == (n + t.chan[c].adjust_queue) % Modulus
           p == Packet("WINDOW_ADJUST", t.chan[c].remote.id, total, 0, "")
           w == PacketWrite(t, p)
           a == [t EXCEPT !.chan[c].adjust_queue = total]
           b == [w.s EXCEPT !.chan[c].adjust_queue = total]
           d == [w.s EXCEPT !.chan[c].adjust_queue = 0,
                            !.chan[c].remote.window_size = (@ + total) % Modulus]
           u == ReceiveWindowAdjust(t, c, n, force)
<1>1. u \in {t, a, b, d}
  BY DEF ReceiveWindowAdjust
<1>2. Adds(t, w.s)
  <2> HIDE DEF total
  <2>1. IsPacket(p) /\ p.type = "WINDOW_ADJUST"
    BY FieldsAre DEF IsPacket, Packet
  <2> HIDE DEF p
  <2>. QED
    BY <2>1, AddsWrite DEF Asking, Inits
<1>3. Formed(w.s)
  BY <1>2 DEF Adds, Works
<1> HIDE DEF total, w
<1>4. Same(t, a, {"chan"}) /\ Same(w.s, b, {"chan"}) /\ Same(w.s, d, {"chan"}) /\ Same(t, t, {"chan"})
  BY <1>3, FieldsAre DEF Formed, Same
<1> HIDE DEF a, b, d, u
<1>5. Adds(t, t) /\ Adds(t, a) /\ Adds(w.s, b) /\ Adds(w.s, d)
  <2>1. \A x, y : Same(x, y, {"chan"}) => Same(x, y, Inert \ {"call"})
    BY DEF Same, Inert
  <2>. QED
    BY <1>3, <1>4, <2>1, AddsInert
<1>6. Adds(t, b) /\ Adds(t, d)
  BY <1>2, <1>5, AddsOn
<1>. QED
  BY <1>1, <1>5, <1>6 DEF u

LEMMA AddsPacket ==
  ASSUME NEW t, Formed(t), NEW p, IsPacket(p), p.type \notin Awaited
  PROVE  Adds(t, [t EXCEPT !.packets = Append(@, p)])
<1> DEFINE q == Append(t.packets, p)
<1>1. ArePackets(q) /\ Range(q) = Range(t.packets) \cup {p}
  BY PacketsAppended DEF Formed
<1> HIDE DEF q
<1>2. AwaitedIn(q) = AwaitedIn(t.packets)
  BY <1>1 DEF AwaitedIn
<1>3. Works(t, [t EXCEPT !.packets = q])
  BY <1>1, <1>2, WorksBrigade
<1>4. [t EXCEPT !.packets = q].call = t.call /\ [t EXCEPT !.packets = q].at = t.at
  BY FieldsAre DEF Formed
<1>5. [t EXCEPT !.packets = Append(@, p)] = [t EXCEPT !.packets = q]
  BY DEF q
<1>. QED
  BY <1>3, <1>4, <1>5 DEF Adds

LEMMA AddsData ==
  ASSUME NEW t, Formed(t), NEW p, IsPacket(p), p.type \in DataTypes
  PROVE  Adds(t, AddData(t, p))
<1> DEFINE remote == t.chan[p.ch].remote
           cut    == IF remote.packet_size < p.n THEN remote.packet_size ELSE p.n
           beyond == cut > remote.window_size
           kept   == IF beyond THEN remote.window_size ELSE cut
           e == [p EXCEPT !.n = kept]
           a == ReceiveWindowAdjust(t, p.ch, p.n, FALSE)
           b == [t EXCEPT !.packets = Append(@, e),
                     !.chan[p.ch].remote.eof = FALSE,
                     !.chan[p.ch].remote.window_size = IF beyond THEN @ ELSE @ - cut]
           m == [t EXCEPT !.packets = Append(@, e)]
           u == AddData(t, p)
<1>1. u \in {t, a, b}
  BY DEF AddData
<1>2. IsPacket(e) /\ e.type \notin Awaited
  BY FieldsAre DEF IsPacket, DataTypes, Awaited
<1> HIDE DEF kept, beyond, cut, e
<1>3. Adds(t, m)
  BY <1>2, AddsPacket
<1>4. Formed(m)
  BY <1>3 DEF Adds, Works
<1>5. Same(m, b, Inert \ {"call"})
  BY FieldsAre DEF Formed, Same, Inert
<1>6. Adds(t, b)
  <2> HIDE DEF m, b
  <2>. QED
    BY <1>3, <1>4, <1>5, AddsOn, AddsInert
<1>7. Adds(t, a)
  BY AddsAdjust
<1>8. Adds(t, t)
  BY WorksSame DEF Adds
<1> HIDE DEF a, b, u
<1>. QED
  BY <1>1, <1>6, <1>7, <1>8 DEF u

LEMMA AddsToChannel ==
  ASSUME NEW t, Formed(t), NEW p, p.type \in ChannelTypes
  PROVE  Adds(t, AddToChannel(t, p))
<1> DEFINE a == [t EXCEPT !.chan[p.ch].remote.eof = TRUE]
           b == [t EXCEPT !.chan[p.ch].remote.eof = TRUE, !.chan[p.ch].remote.close = TRUE]
           d == [t EXCEPT !.chan[p.ch].local.window_size = @ + p.n]
           e == [t EXCEPT !.chan[p.ch].exit_status = p.n]
           u == AddToChannel(t, p)
<1>1. u \in {t, a, b, d, e}
  BY DEF AddToChannel, ChannelTypes
<1>2. \A x \in {t, a, b, d, e} : Same(t, x, Inert \ {"call"})
  BY FieldsAre DEF Formed, Same, Inert
<1> HIDE DEF a, b, d, e, u
<1>3. Same(t, u, Inert \ {"call"})
  BY <1>1, <1>2
<1>. QED
  BY <1>3, AddsInert DEF u

LEMMA AddsAccepted ==
  ASSUME NEW t, Formed(t), NEW p
  PROVE  /\ Adds(t, Accepted(t, p).s) /\ Accepted(t, p).rc \in {"", "FAIL"}
         /\ Accepted(t, p).rc = "FAIL" => t.gone
<1> DEFINE id == NextId(t)
           i == TakeId(t)
           y == Packet("OPEN_CONFIRMATION", p.from, WindowDefault, id, "")
           w == PacketWrite(i, y)
           ch == Channel(id, p.n, PacketDefault, p.from, WindowDefault, PacketDefault)
           u == WithChannel(w.s, id, ch)
<1>1. Adds(t, i)
  <2>1. Same(t, i, Inert \ {"call"})
    BY FieldsAre DEF TakeId, Formed, Same, Inert
  <2>. QED
    BY <2>1, AddsInert
<1>2. Formed(i)
  BY <1>1 DEF Adds, Works
<1>3. IsPacket(y) /\ y.type \notin Asking
  <2>1. IsPacket(y) /\ y.type = "OPEN_CONFIRMATION"
    BY FieldsAre DEF IsPacket, Packet
  <2> HIDE DEF y
  <2>. QED
    BY <2>1 DEF Asking, Inits
<1> HIDE DEF i, y
<1>4. Adds(i, w.s) /\ w.rc \in {"", "FAIL"} /\ (w.rc = "FAIL" => t.gone)
  <2>1. i.gone = t.gone
    BY <1>1 DEF Adds, Works
  <2>. QED
    BY <1>2, <1>3, <2>1, AddsWrite
<1>5. Formed(w.s)
  BY <1>4 DEF Adds, Works
<1>6. Accepted(t, p) = IF w.rc = "" THEN R(u, w.rc) ELSE R(w.s, w.rc)
  BY DEF Accepted, i, y
<1> HIDE DEF w
<1>7. Adds(w.s, u)
  <2> HIDE DEF ch, id
  <2>1. Same(w.s, u, Inert \ {"call"})
    BY <1>5, FieldsAre DEF WithChannel, Formed, Same, Inert
  <2> HIDE DEF u
  <2>. QED
    BY <1>5, <2>1, AddsInert
<1> HIDE DEF u
<1>8. Adds(t, w.s)
  BY <1>1, <1>4, AddsOn
<1>9. Adds(t, u)
  BY <1>7, <1>8, AddsOn
<1>10. Accepted(t, p).s \in {u, w.s} /\ Accepted(t, p).rc = w.rc
  <2>1. Accepted(t, p) = R(u, w.rc) \/ Accepted(t, p) = R(w.s, w.rc)
    BY <1>6
  <2>. QED
    BY <2>1, ResultIs
<1>. QED
  BY <1>4, <1>8, <1>9, <1>10

LEMMA AddsRefused ==
  ASSUME NEW t, Formed(t), NEW p, NEW reason
  PROVE  /\ Adds(t, Refused(t, p, reason).s) /\ Refused(t, p, reason).rc \in {"", "FAIL"}
         /\ Refused(t, p, reason).rc = "FAIL" => t.gone
<1> DEFINE y == Packet("OPEN_FAILURE", p.from, 0, 0, reason)
<1>1. IsPacket(y) /\ y.type \notin Asking
  BY PacketIs DEF Asking, Inits
<1>2. Refused(t, p, reason) = PacketWrite(t, y)
  BY DEF Refused
<1> HIDE DEF y
<1>. QED
  BY <1>1, <1>2, AddsWrite

LEMMA AddsListener ==
  ASSUME NEW t, Formed(t), NEW p
  PROVE  /\ Adds(t, QueueListener(t, p).s) /\ QueueListener(t, p).rc \in {"", "FAIL"}
         /\ QueueListener(t, p).rc = "FAIL" => t.gone
<1> DEFINE hits == {i \in DOMAIN t.listeners : t.listeners[i].port = p.what}
           l == CHOOSE j \in hits : \A k \in hits : j <= k
           max == t.listeners[l].queue_maxsize
           a == Accepted(t, p)
           u == [a.s EXCEPT
                  !.listeners[l].queue = Append(@, NextId(t)),
                  !.listeners[l].queue_size = IF t.listeners[l].queue = <<>> THEN @ ELSE @ + 1]
           x == QueueListener(t, p)
<1>1. \/ x = Refused(t, p, "prohibited") \/ x = Refused(t, p, "shortage")
      \/ x = a \/ x = R(u, "")
  BY DEF QueueListener
<1>2. Adds(t, a.s) /\ a.rc \in {"", "FAIL"} /\ (a.rc = "FAIL" => t.gone)
  BY AddsAccepted
<1>3. Formed(a.s)
  BY <1>2 DEF Adds, Works
<1> HIDE DEF a, l
<1>4. Same(a.s, u, Inert \ {"call"})
  BY <1>3, FieldsAre DEF Formed, Same, Inert
<1> HIDE DEF u, x
<1>5. Adds(t, u)
  BY <1>2, <1>3, <1>4, AddsOn, AddsInert
<1>6. x = R(u, "") => x.s = u /\ x.rc = ""
  BY ResultIs
<1>. QED
  BY <1>1, <1>2, <1>5, <1>6, AddsRefused DEF x

LEMMA AddsX11 ==
  ASSUME NEW t, Formed(t), NEW p
  PROVE  /\ Adds(t, X11Open(t, p).s) /\ X11Open(t, p).rc \in {"", "FAIL"}
         /\ X11Open(t, p).rc = "FAIL" => t.gone
<1> DEFINE a == Accepted(t, p)
           u == [a.s EXCEPT !.channels = Append(@, NextId(t))]
           x == X11Open(t, p)
<1>1. x = Refused(t, p, "shortage") \/ x = a \/ x = R(u, "")
  BY DEF X11Open
<1>2. Adds(t, a.s) /\ a.rc \in {"", "FAIL"} /\ (a.rc = "FAIL" => t.gone)
  BY AddsAccepted
<1>3. Formed(a.s)
  BY <1>2 DEF Adds, Works
<1> HIDE DEF a
<1>4. Same(a.s, u, Inert \ {"call"})
  BY <1>3, FieldsAre DEF Formed, Same, Inert
<1> HIDE DEF u, x
<1>5. Adds(t, u)
  BY <1>2, <1>3, <1>4, AddsOn, AddsInert
<1>6. x = R(u, "") => x.s = u /\ x.rc = ""
  BY ResultIs
<1>. QED
  BY <1>1, <1>2, <1>5, <1>6, AddsRefused DEF x

-----------------------------------------------------------------------------
(* Packets that come. *)

\* Nothing worse than a lost connection.
Sound(t) ==
  /\ Formed(t) /\ t.kexRc = ""
  /\ ExchangeStates \cap t.state # {"EXCHANGING_KEYS"}
  /\ t.fullpacket # "" => t.gone
  /\ t.inbound # <<>> => t.inbound[1].key = t.keys /\ (t.inbound[1].type = "DISCONNECT" => t.gone)

LEMMA SoundOn ==
  ASSUME NEW t, Sound(t), NEW u, Works(t, u)
  PROVE  Sound(u)
BY DEF Sound, Works

\* The session without the packet at the head of inbound.
Popped(t) == [t EXCEPT !.inbound = Tail(@)]

LEMMA PoppedForms ==
  ASSUME NEW t, Formed(t), t.inbound # <<>>
  PROVE  /\ Formed(Popped(t)) /\ Same(t, Popped(t), {"inbound"})
         /\ Popped(t).inbound = Tail(t.inbound) /\ IsPacket(Head(t.inbound))
         /\ Head(t.inbound) = t.inbound[1]
<1> DEFINE x == Tail(t.inbound)
<1>1. ArePackets(x) /\ IsPacket(Head(t.inbound)) /\ Head(t.inbound) = t.inbound[1]
  BY PacketsTail DEF Formed
<1> HIDE DEF x
<1>2. Popped(t) = [t EXCEPT !.inbound = x]
  BY DEF Popped, x
<1>3. Formed([t EXCEPT !.inbound = x]) /\ Same(t, [t EXCEPT !.inbound = x], {"inbound"}) /\ [t EXCEPT !.inbound = x].inbound = x
  BY <1>1, FieldsAre DEF Formed, Same
<1>. QED
  BY <1>1, <1>2, <1>3 DEF x

\* A connection that is lost may be found out.
LEMMA AddsLost ==
  ASSUME NEW t, Formed(t), t.gone, NEW u, Same(t, u, {"fullpacket", "socket_state"})
  PROVE  Adds(t, u)
<1>1. /\ DOMAIN u = Fields
      /\ u.keys = t.keys /\ u.gone = t.gone /\ u.kex = t.kex /\ u.kexRc = t.kexRc
      /\ u.burn = t.burn /\ u.methods = t.methods /\ u.inbound = t.inbound
      /\ u.state = t.state /\ u.start = t.start /\ u.at = t.at /\ u.call = t.call
      /\ u.packets = t.packets /\ u.outbound = t.outbound
  BY FieldsAre DEF Same
<1>. QED
  BY <1>1, FormedLists DEF Adds, Works, Sends, Formed, At

LEMMA BrigadeForms ==
  ASSUME NEW t, Formed(t), NEW p, IsPacket(p)
  PROVE  LET u == AddToBrigade(t, p)
         IN  /\ Formed(u) /\ Same(t, u, {"packets", "at", "kex"})
             /\ u.packets = Append(t.packets, p)
             /\ IF p.type = "KEXINIT" /\ "EXCHANGING_KEYS" \notin t.state
                  THEN /\ u.kex = "add" /\ At(u, "kex", 0) = "idle"
                       /\ \A o, d : <<o, d>> # <<"kex", 0>> => At(u, o, d) = At(t, o, d)
                  ELSE u.kex = t.kex /\ u.at = t.at
<1> DEFINE q == Append(t.packets, p)
           b == [t EXCEPT !.packets = q]
           g == Goto(b, "kex", 0, "idle")
           a == [g EXCEPT !.kex = "add"]
           u == AddToBrigade(t, p)
<1>1. ArePackets(q)
  BY PacketsAppended DEF Formed
<1>2. u = IF p.type = "KEXINIT" /\ "EXCHANGING_KEYS" \notin t.state THEN a ELSE b
  BY DEF AddToBrigade
<1> HIDE DEF q, u
<1>3. Formed(b) /\ Same(t, b, {"packets"}) /\ b.packets = q
  BY <1>1, FieldsAre DEF Formed, Same
<1>4. \A o, d : At(b, o, d) = At(t, o, d)
  BY <1>3, FieldsAre DEF At, Same
<1> HIDE DEF b
<1>5. CASE p.type = "KEXINIT" /\ "EXCHANGING_KEYS" \notin t.state
  <2>1. /\ DOMAIN g = Fields
        /\ \A f \in Fields \ {"at"} : g[f] = b[f]
        /\ At(g, "kex", 0) = "idle"
        /\ \A o, d : <<o, d>> # <<"kex", 0>> => At(g, o, d) = At(b, o, d)
    BY <1>3, AtGoto
  <2> HIDE DEF g
  <2>2. Same(t, a, {"packets", "at", "kex"}) /\ a.packets = q /\ a.kex = "add" /\ a.at = g.at
    BY <1>3, <2>1, FieldsAre DEF Same
  <2>3. \A o, d : At(a, o, d) = At(g, o, d)
    BY <2>2 DEF At
  <2> HIDE DEF a
  <2>4. Formed(a)
    BY <1>1, <2>2, FieldsAre DEF Formed, Same
  <2>. QED
    BY <1>2, <1>4, <1>5, <2>1, <2>2, <2>3, <2>4 DEF q, u
<1>6. CASE ~(p.type = "KEXINIT" /\ "EXCHANGING_KEYS" \notin t.state)
  <2>1. u = b
    BY <1>2, <1>6
  <2>2. Same(t, b, {"packets", "at", "kex"}) /\ b.at = t.at /\ b.kex = t.kex
    BY <1>3, FieldsAre DEF Same
  <2>. QED
    BY <1>3, <1>6, <2>1, <2>2 DEF q, u
<1>. QED
  BY <1>5, <1>6

\* The three ways packet_add ends.
Fails(t, why) == R([t EXCEPT !.fullpacket = why], "FAIL")
Taken(t, p)   == R([t EXCEPT !.fullpacket = IF @ = "kept" THEN "bad" ELSE @], p.type)
Answered(o, p) == IF o.rc = "" THEN Taken(o.s, p) ELSE Fails(o.s, "kept")

LEMMA AddCases ==
  ASSUME NEW t, NEW p
  PROVE  PacketAdd(t, p) =
           IF t.fullpacket = "bad" \/ (p.key # t.keys /\ t.fullpacket = "") THEN Fails(t, "bad")
           ELSE CASE p.type = "DISCONNECT" -> Fails([t EXCEPT !.socket_state = "disconnected"], "kept")
                  [] p.type \in {"IGNORE", "DEBUG"} -> Taken(t, p)
                  [] p.type \in DataTypes    -> Taken(AddData(t, p), p)
                  [] p.type \in ChannelTypes -> Taken(AddToChannel(t, p), p)
                  [] p.type = "OPEN" -> Answered(IF p.what = "x11" THEN X11Open(t, p) ELSE QueueListener(t, p), p)
                  [] OTHER -> Taken(AddToBrigade(t, p), p)
BY Zenon DEF PacketAdd, Fails, Taken, Answered

LEMMA AddsFails ==
  ASSUME NEW t, Formed(t), t.gone, NEW u, Adds(t, u), NEW why
  PROVE  Fails(u, why).rc = "FAIL" /\ Adds(t, Fails(u, why).s)
<1> DEFINE x == [u EXCEPT !.fullpacket = why]
<1>1. Formed(u) /\ u.gone
  BY DEF Adds, Works
<1>2. Same(u, x, {"fullpacket", "socket_state"})
  BY <1>1, FieldsAre DEF Formed, Same
<1>3. Fails(u, why) = R(x, "FAIL")
  BY DEF Fails
<1> HIDE DEF x
<1>4. Adds(t, x)
  BY <1>1, <1>2, AddsLost, AddsOn
<1>. QED
  BY <1>3, <1>4, ResultIs

LEMMA AddsTaken ==
  ASSUME NEW t, Formed(t), t.fullpacket # "" => t.gone, NEW p
  PROVE  Taken(t, p).rc = p.type /\ Adds(t, Taken(t, p).s) /\ Taken(t, p).s.packets = t.packets
<1> DEFINE w == IF t.fullpacket = "kept" THEN "bad" ELSE t.fullpacket
           u == [t EXCEPT !.fullpacket = w]
<1>0. t.fullpacket = "" => w = t.fullpacket
  OBVIOUS
<1>1. Taken(t, p) = R(u, p.type)
  BY DEF Taken
<1> HIDE DEF w
<1>2. Same(t, u, {"fullpacket"}) /\ u.fullpacket = w
  BY FieldsAre DEF Formed, Same
<1> HIDE DEF u
<1>3. Same(t, u, {"fullpacket", "socket_state"}) /\ u.packets = t.packets
  BY <1>2, FieldsAre DEF Same
<1>4. Adds(t, u)
  <2>1. CASE t.gone
    BY <2>1, <1>3, AddsLost
  <2>2. CASE ~t.gone
    <3>1. u.fullpacket = t.fullpacket
      BY <2>2, <1>0, <1>2
    <3>2. /\ DOMAIN u = Fields
          /\ u.keys = t.keys /\ u.gone = t.gone /\ u.kex = t.kex /\ u.kexRc = t.kexRc
          /\ u.burn = t.burn /\ u.methods = t.methods /\ u.inbound = t.inbound
          /\ u.socket_state = t.socket_state
          /\ u.state = t.state /\ u.start = t.start /\ u.at = t.at
          /\ u.packets = t.packets /\ u.outbound = t.outbound /\ u.call = t.call
      BY <1>2, FieldsAre DEF Same
    <3>. QED
      BY <3>1, <3>2, WorksElsewhere DEF Adds
  <2>. QED
    BY <2>1, <2>2
<1>5. Taken(t, p).s = u /\ Taken(t, p).rc = p.type
  <2> DEFINE k == p.type
  <2>1. Taken(t, p) = R(u, k)
    BY <1>1
  <2> HIDE DEF k
  <2>2. Taken(t, p).s = u /\ Taken(t, p).rc = k
    BY <2>1, ResultOf
  <2>. QED
    BY <2>2 DEF k
<1>. QED
  BY <1>3, <1>4, <1>5

LEMMA TakenAfter ==
  ASSUME NEW t, Formed(t), t.fullpacket # "" => t.gone, NEW u, Adds(t, u), NEW p
  PROVE  Taken(u, p).rc = p.type /\ Adds(t, Taken(u, p).s)
<1>1. Formed(u) /\ (u.fullpacket # "" => u.gone)
  BY DEF Adds, Works
<1>. QED
  BY <1>1, AddsTaken, AddsOn

LEMMA AnsweredAfter ==
  ASSUME NEW t, Formed(t), t.fullpacket # "" => t.gone, NEW p,
         NEW o, Adds(t, o.s), o.rc \in {"", "FAIL"}, o.rc = "FAIL" => t.gone
  PROVE  Answered(o, p).rc \in {"FAIL", p.type} /\ Adds(t, Answered(o, p).s)
<1>1. CASE o.rc = ""
  BY <1>1, TakenAfter DEF Answered
<1>2. CASE o.rc = "FAIL"
  BY <1>2, AddsFails DEF Answered
<1>. QED
  BY <1>1, <1>2

\* A packet in the keys in use: packet_add notes what it is about, or puts it
\* into the brigade; an exchange begins with a KEXINIT.
LEMMA PacketAdded ==
  ASSUME NEW t, Formed(t), NEW p, IsPacket(p), p.key = t.keys,
         t.fullpacket # "" => t.gone, p.type = "DISCONNECT" => t.gone
  PROVE  LET x == PacketAdd(t, p)
         IN  /\ x.rc \in {"FAIL", p.type}
             /\ \/ Adds(t, x.s) /\ (p.type \in Awaited => x.rc = "FAIL" /\ t.gone)
                \/ /\ p.type \in Awaited /\ x.rc = p.type
                   /\ Adds(AddToBrigade(t, p), x.s) /\ x.s.packets = Append(t.packets, p)
<1> DEFINE x == PacketAdd(t, p)
<1>1. Adds(t, t)
  BY WorksSame DEF Adds
<1>2. CASE t.fullpacket = "bad"
  <2>1. x = Fails(t, "bad")
    BY <1>2, AddCases
  <2>2. t.gone
    BY <1>2
  <2> HIDE DEF x
  <2>. QED
    BY <1>1, <2>1, <2>2, AddsFails DEF x
<1>3. CASE t.fullpacket # "bad" /\ p.type = "DISCONNECT"
  <2> DEFINE w == [t EXCEPT !.socket_state = "disconnected"]
  <2>1. x = Fails(w, "kept")
    BY <1>3, AddCases DEF DataTypes, ChannelTypes
  <2>2. Same(t, w, {"fullpacket", "socket_state"})
    BY FieldsAre DEF Formed, Same
  <2> HIDE DEF x, w
  <2>3. Adds(t, w)
    BY <1>3, <2>2, AddsLost
  <2>4. x.rc = "FAIL" /\ Adds(t, x.s)
    BY <1>3, <2>1, <2>3, AddsFails
  <2>5. p.type \notin Awaited
    BY <1>3 DEF Awaited
  <2>. QED
    BY <2>4, <2>5 DEF x
<1>4. CASE t.fullpacket # "bad" /\ p.type \in {"IGNORE", "DEBUG"} \cup DataTypes \cup ChannelTypes
  <2>1. \E u : x = Taken(u, p) /\ Adds(t, u)
    <3>1. CASE p.type \in {"IGNORE", "DEBUG"}
      <4>1. x = Taken(t, p)
        BY <1>4, <3>1, AddCases DEF DataTypes, ChannelTypes
      <4>. QED
        BY <1>1, <4>1
    <3>2. CASE p.type \in DataTypes
      <4>1. x = Taken(AddData(t, p), p)
        BY <1>4, <3>2, AddCases DEF DataTypes, ChannelTypes
      <4>. QED
        BY <3>2, <4>1, AddsData
    <3>3. CASE p.type \in ChannelTypes
      <4>1. x = Taken(AddToChannel(t, p), p)
        BY <1>4, <3>3, AddCases DEF DataTypes, ChannelTypes
      <4>. QED
        BY <3>3, <4>1, AddsToChannel
    <3>. QED
      BY <1>4, <3>1, <3>2, <3>3
  <2>2. p.type \notin Awaited
    BY <1>4 DEF Awaited, DataTypes, ChannelTypes
  <2> HIDE DEF x
  <2>3. x.rc = p.type /\ Adds(t, x.s)
    BY <2>1, TakenAfter
  <2>. QED
    BY <2>2, <2>3 DEF x
<1>5. CASE t.fullpacket # "bad" /\ p.type = "OPEN"
  <2> DEFINE o == IF p.what = "x11" THEN X11Open(t, p) ELSE QueueListener(t, p)
  <2>1. x = Answered(o, p)
    BY <1>5, AddCases DEF DataTypes, ChannelTypes
  <2>2. Adds(t, o.s) /\ o.rc \in {"", "FAIL"} /\ (o.rc = "FAIL" => t.gone)
    BY AddsListener, AddsX11
  <2>3. p.type \notin Awaited
    BY <1>5 DEF Awaited
  <2> HIDE DEF x, o
  <2>4. x.rc \in {"FAIL", p.type} /\ Adds(t, x.s)
    BY <2>1, <2>2, AnsweredAfter
  <2>. QED
    BY <2>3, <2>4 DEF x
<1>6. CASE /\ t.fullpacket # "bad"
           /\ p.type \notin {"DISCONNECT", "IGNORE", "DEBUG", "OPEN"} \cup DataTypes \cup ChannelTypes
  <2> DEFINE b == AddToBrigade(t, p)
  <2>1. x = Taken(b, p)
    BY <1>6, AddCases
  <2>2. Formed(b) /\ b.packets = Append(t.packets, p) /\ Same(t, b, {"packets", "at", "kex"})
    BY BrigadeForms
  <2>3. b.fullpacket = t.fullpacket /\ b.gone = t.gone
    BY <2>2, FieldsAre DEF Same
  <2> HIDE DEF x, b
  <2>4. x.rc = p.type /\ Adds(b, x.s) /\ x.s.packets = b.packets
    BY <2>1, <2>2, <2>3, AddsTaken
  <2>5. CASE p.type \in Awaited
    BY <2>2, <2>4, <2>5 DEF x, b
  <2>6. CASE p.type \notin Awaited
    <3>1. b = [t EXCEPT !.packets = Append(@, p)]
      BY <2>6 DEF AddToBrigade, Awaited, b
    <3>2. Adds(t, b)
      BY <2>6, <3>1, AddsPacket
    <3>3. Adds(t, x.s)
      BY <2>4, <3>2, AddsOn
    <3>. QED
      BY <2>4, <2>6, <3>3 DEF x
  <2>. QED
    BY <2>5, <2>6
<1>. QED
  BY <1>2, <1>3, <1>4, <1>5, <1>6

\* What packet_read does outside of an exchange.
LEMMA ReadCases ==
  ASSUME NEW t, Sound(t), NEW net
  PROVE  LET x == PacketRead(t, net)
         IN  \/ x.s = t /\ x.rc \in {"NONE", "FAIL", "WAIT", "EAGAIN"}
             \/ t.inbound # <<>> /\ x = PacketAdd(Popped(t), Head(t.inbound))
<1> DEFINE x == PacketRead(t, net)
<1>1. \/ x = R(t, "NONE") \/ x = R(t, "FAIL") \/ x = R(t, "WAIT") \/ x = R(t, "EAGAIN")
      \/ t.inbound # <<>> /\ x = PacketAdd(Popped(t), Head(t.inbound))
  <2>1. t.kexRc = "" /\ ~("EXCHANGING_KEYS" \in t.state /\ "KEX_ACTIVE" \notin t.state)
    BY DEF Sound, ExchangeStates
  <2>2. x = IF t.socket_state = "disconnected" THEN R(t, "NONE")
            ELSE IF t.inbound = <<>> THEN R(t, IF t.gone THEN "FAIL" ELSE "WAIT")
            ELSE IF net # "whole" THEN R(t, "EAGAIN")
            ELSE PacketAdd(Popped(t), Head(t.inbound))
    BY <2>1, Zenon DEF PacketRead, Popped
  <2> HIDE DEF x
  <2>3. CASE t.gone
    BY <2>2, <2>3
  <2>4. CASE ~t.gone
    BY <2>2, <2>4
  <2>. QED
    BY <2>3, <2>4
<1> HIDE DEF x
<1>2. CASE x = R(t, "NONE") \/ x = R(t, "FAIL") \/ x = R(t, "WAIT") \/ x = R(t, "EAGAIN")
  <2>1. x.s = t /\ x.rc \in {"NONE", "FAIL", "WAIT", "EAGAIN"}
    <3>1. CASE x = R(t, "NONE")
      <4>1. x.s = t /\ x.rc = "NONE"
        BY <3>1, ResultOf
      <4>. QED
        BY <4>1
    <3>2. CASE x = R(t, "FAIL")
      <4>1. x.s = t /\ x.rc = "FAIL"
        BY <3>2, ResultOf
      <4>. QED
        BY <4>1
    <3>3. CASE x = R(t, "WAIT")
      <4>1. x.s = t /\ x.rc = "WAIT"
        BY <3>3, ResultOf
      <4>. QED
        BY <4>1
    <3>4. CASE x = R(t, "EAGAIN")
      <4>1. x.s = t /\ x.rc = "EAGAIN"
        BY <3>4, ResultOf
      <4>. QED
        BY <4>1
    <3>. QED
      BY <1>2, <3>1, <3>2, <3>3, <3>4
  <2>. QED
    BY <2>1 DEF x
<1>. QED
  BY <1>1, <1>2 DEF x

\* An operation has worked, and may have read a packet on the way; the last
\* thing it does may be to read the KEXINIT that begins an exchange.
Rekeyed(t, u) ==
  /\ t.inbound # <<>> /\ Head(t.inbound).type \in Awaited
  /\ \E a : /\ Works(t, a)
            /\ Works(AddToBrigade(Popped(a), Head(t.inbound)), u)
            /\ u.packets = Append(a.packets, Head(t.inbound))

Moves(t, rc, u) ==
  \/ Works(t, u)
  \/ t.inbound # <<>> /\ \E a : Works(t, a) /\ Works(Popped(a), u)
  \/ rc = "MORE" /\ Rekeyed(t, u)

\* More work before or after it.
LEMMA MovesBefore ==
  ASSUME NEW t, Formed(t), NEW a, Works(t, a), NEW rc, NEW u, Moves(a, rc, u)
  PROVE  Moves(t, rc, u)
<1>1. a.inbound = t.inbound
  BY DEF Works
<1>2. \A w : Works(a, w) => Works(t, w)
  BY WorksOn
<1>. QED
  BY <1>1, <1>2 DEF Moves, Rekeyed

LEMMA WorksForms ==
  ASSUME NEW t, NEW u, Works(t, u)
  PROVE  Formed(u)
BY DEF Works

LEMMA MovesAfter ==
  ASSUME NEW t, Sound(t), NEW rc, NEW u, Moves(t, rc, u),
         NEW w, Works(u, w), NEW rd, rc = "MORE" => rd = "MORE" /\ w.packets = u.packets
  PROVE  Moves(t, rd, w) /\ Formed(w)
<1>0. Formed(t) /\ Formed(w)
  BY DEF Sound, Works
<1>1. CASE Works(t, u)
  BY <1>0, <1>1, WorksOn DEF Moves
<1>2. CASE t.inbound # <<>> /\ \E a : Works(t, a) /\ Works(Popped(a), u)
  <2>1. PICK a : Works(t, a) /\ Works(Popped(a), u)
    BY <1>2
  <2>2. Formed(a) /\ a.inbound = t.inbound
    BY <2>1 DEF Works
  <2>3. Formed(Popped(a))
    BY <1>2, <2>2, PoppedForms
  <2>4. Works(Popped(a), w)
    BY <2>1, <2>3, WorksOn
  <2>. QED
    BY <1>0, <1>2, <2>1, <2>4 DEF Moves
<1>3. CASE rc = "MORE" /\ Rekeyed(t, u)
  <2> DEFINE p == Head(t.inbound)
  <2>1. PICK a : Works(t, a) /\ Works(AddToBrigade(Popped(a), p), u) /\ u.packets = Append(a.packets, p)
    BY <1>3 DEF Rekeyed
  <2>2. Formed(a) /\ a.inbound = t.inbound /\ t.inbound # <<>> /\ p.type \in Awaited
    BY <1>3, <2>1 DEF Works, Rekeyed
  <2>3. Formed(Popped(a)) /\ IsPacket(p)
    BY <2>2, PoppedForms
  <2> HIDE DEF p
  <2>4. Formed(AddToBrigade(Popped(a), p))
    BY <2>3, BrigadeForms
  <2>5. Works(AddToBrigade(Popped(a), p), w) /\ w.packets = Append(a.packets, p)
    BY <1>3, <2>1, <2>4, WorksOn
  <2>6. Rekeyed(t, w)
    BY <2>1, <2>2, <2>5 DEF Rekeyed, p
  <2>. QED
    BY <1>0, <1>3, <2>6 DEF Moves
<1>. QED
  BY <1>1, <1>2, <1>3 DEF Moves

LEMMA MovesRead ==
  ASSUME NEW t, Sound(t), NEW net
  PROVE  LET x == PacketRead(t, net)
         IN  /\ Moves(t, IF x.rc \in Awaited THEN "MORE" ELSE "", x.s) /\ x.s.call = t.call
             /\ \A o : o # "kex" => At(x.s, o, 0) = At(t, o, 0)
             /\ Formed(x.s)
<1> DEFINE x == PacketRead(t, net)
           p == Head(t.inbound)
           d == Popped(t)
<1>0. Formed(t)
  BY DEF Sound
<1>1. CASE x.s = t /\ x.rc \in {"NONE", "FAIL", "WAIT", "EAGAIN"}
  BY <1>0, <1>1, WorksSame DEF Moves
<1>2. CASE t.inbound # <<>> /\ x = PacketAdd(d, p)
  <2>1. /\ Formed(d) /\ Same(t, d, {"inbound"}) /\ IsPacket(p) /\ p = t.inbound[1]
    BY <1>0, <1>2, PoppedForms
  <2>2. d.keys = t.keys /\ d.fullpacket = t.fullpacket /\ d.gone = t.gone /\ d.call = t.call /\ d.packets = t.packets /\ d.at = t.at
    BY <2>1, FieldsAre DEF Same
  <2>3. p.key = d.keys /\ (d.fullpacket # "" => d.gone) /\ (p.type = "DISCONNECT" => d.gone)
    BY <1>2, <2>1, <2>2 DEF Sound
  <2> HIDE DEF x, d, p
  <2>4. /\ x.rc \in {"FAIL", p.type}
        /\ \/ Adds(d, x.s) /\ (p.type \in Awaited => x.rc = "FAIL")
           \/ /\ p.type \in Awaited /\ x.rc = p.type
              /\ Adds(AddToBrigade(d, p), x.s) /\ x.s.packets = Append(d.packets, p)
    BY <1>2, <2>1, <2>3, PacketAdded
  <2>5. CASE Adds(d, x.s)
    <3>1. /\ Works(t, t) /\ Works(d, x.s) /\ x.s.call = t.call
          /\ \A o : At(x.s, o, 0) = At(t, o, 0)
      BY <1>0, <2>2, <2>5, WorksSame DEF Adds, At
    <3>. QED
      BY <1>2, <3>1, WorksForms DEF Moves, x, d
  <2>6. CASE /\ p.type \in Awaited /\ x.rc = p.type
             /\ Adds(AddToBrigade(d, p), x.s) /\ x.s.packets = Append(d.packets, p)
    <3>1. /\ AddToBrigade(d, p).call = d.call
          /\ \A o : o # "kex" => At(AddToBrigade(d, p), o, 0) = At(d, o, 0)
      <4>1. /\ Same(d, AddToBrigade(d, p), {"packets", "at", "kex"})
            /\ \/ AddToBrigade(d, p).at = d.at
               \/ \A o, e : <<o, e>> # <<"kex", 0>> => At(AddToBrigade(d, p), o, e) = At(d, o, e)
        BY <2>1, BrigadeForms
      <4>2. AddToBrigade(d, p).call = d.call
        BY <4>1, FieldsAre DEF Same
      <4>3. \A o : o # "kex" => At(AddToBrigade(d, p), o, 0) = At(d, o, 0)
        BY <4>1 DEF At
      <4>. QED
        BY <4>2, <4>3
    <3>2. /\ Works(t, t) /\ Works(AddToBrigade(d, p), x.s) /\ x.s.call = t.call
          /\ \A o : o # "kex" => At(x.s, o, 0) = At(t, o, 0)
      <4>1. Works(t, t) /\ Works(AddToBrigade(d, p), x.s) /\ x.s.call = t.call
        BY <1>0, <2>2, <2>6, <3>1, WorksSame DEF Adds
      <4>2. \A o : o # "kex" => At(x.s, o, 0) = At(d, o, 0)
        BY <2>6, <3>1 DEF Adds, At
      <4>3. \A o : At(d, o, 0) = At(t, o, 0)
        BY <2>2 DEF At
      <4>. QED
        BY <4>1, <4>2, <4>3
    <3>3. Rekeyed(t, x.s)
      BY <1>2, <2>2, <2>6, <3>2 DEF Rekeyed, d, p
    <3>. QED
      BY <2>6, <3>2, <3>3, WorksForms DEF Moves, x
  <2>. QED
    BY <2>4, <2>5, <2>6
<1>. QED
  BY <1>1, <1>2, ReadCases

-----------------------------------------------------------------------------
(* Looking for packets and waiting for them, outside of an exchange. *)

LEMMA FirstIs ==
  ASSUME NEW T \in SUBSET Nat, T # {}
  PROVE  First(T) \in T /\ \A j \in T : First(T) <= j
BY LeastElement DEF First

\* Positions of types are natural numbers.
LEMMA AskFinds ==
  ASSUME NEW t, Formed(t), NEW types, DOMAIN types \in SUBSET Nat, NEW c
  PROVE  LET q == Ask(t, types, c)
         IN  \/ q = Not(t, "FAIL") /\ \A k \in DOMAIN types : Matching(t, types[k], c) = {}
             \/ \E k \in DOMAIN types, i \in DOMAIN t.packets :
                  t.packets[i].type = types[k] /\ q = Got(t, i)
<1> DEFINE there == {k \in DOMAIN types : Matching(t, types[k], c) # {}}
           m == Matching(t, types[First(there)], c)
<1>1. CASE there = {}
  BY <1>1 DEF Ask
<1>2. CASE there # {}
  <2>1. Ask(t, types, c) = Got(t, First(m))
    BY <1>2 DEF Ask
  <2>2. First(there) \in there
    <3>1. there \in SUBSET Nat
      OBVIOUS
    <3> HIDE DEF there
    <3>. QED
      BY <1>2, <3>1, FirstIs
  <2>3. DOMAIN t.packets \in SUBSET Nat
    BY FormedLists
  <2>4. m \in SUBSET Nat /\ m # {} /\ m \subseteq {i \in DOMAIN t.packets : t.packets[i].type = types[First(there)]}
    <3>1. m # {}
      BY <2>2
    <3>2. m \subseteq {i \in DOMAIN t.packets : t.packets[i].type = types[First(there)]}
      BY DEF Matching
    <3>. QED
      BY <2>3, <3>1, <3>2
  <2> HIDE DEF there, m
  <2>5. First(m) \in m
    BY <2>4, FirstIs
  <2>6. First(there) \in DOMAIN types
    BY <2>2 DEF there
  <2>. QED
    BY <2>1, <2>4, <2>5, <2>6
<1>. QED
  BY <1>1, <1>2

LEMMA AddsGot ==
  ASSUME NEW t, Formed(t), NEW i \in DOMAIN t.packets, t.packets[i].type \notin Awaited
  PROVE  Adds(t, [t EXCEPT !.packets = RemoveAt(@, i)])
<1> DEFINE q == RemoveAt(t.packets, i)
<1>1. /\ ArePackets(q) /\ Range(q) \subseteq Range(t.packets)
      /\ Range(t.packets) \subseteq Range(q) \cup {t.packets[i]}
  BY PacketsWithout DEF Formed
<1> HIDE DEF q
<1>2. AwaitedIn(q) = AwaitedIn(t.packets)
  BY <1>1 DEF AwaitedIn
<1>3. Works(t, [t EXCEPT !.packets = q])
  BY <1>1, <1>2, WorksBrigade
<1>4. [t EXCEPT !.packets = q].call = t.call /\ [t EXCEPT !.packets = q].at = t.at
  BY FieldsAre DEF Formed
<1>. QED
  BY <1>3, <1>4 DEF Adds, q

\* Types no exchange waits for, and a packet of one of them.
Others(types) == DOMAIN types \in SUBSET Nat /\ \A k \in DOMAIN types : types[k] \notin Awaited
OneOf(types) == {types[k] : k \in DOMAIN types}

\* A packet of one of the types, or none.
Given(q, types) ==
  /\ IF q.rc = "" THEN q.p.type \in OneOf(types) ELSE q.p.type = "none"
  /\ DOMAIN q = {"s", "rc", "p"}

LEMMA GivenNot ==
  ASSUME NEW t, NEW rc, rc # "", NEW types
  PROVE  Given(Not(t, rc), types) /\ Not(t, rc).s = t /\ Not(t, rc).rc = rc
BY DEF Given, Not, Plain, Packet

LEMMA AddsAsk ==
  ASSUME NEW t, Formed(t), NEW types, Others(types), NEW c
  PROVE  LET q == Ask(t, types, c)
         IN  Adds(t, q.s) /\ q.rc \in {"", "FAIL"} /\ Given(q, types)
<1> DEFINE q == Ask(t, types, c)
<1>1. CASE q = Not(t, "FAIL")
  <2>1. Adds(t, t)
    BY WorksSame DEF Adds
  <2> HIDE DEF q
  <2>2. q.s = t /\ q.rc = "FAIL" /\ Given(q, types)
    BY <1>1, GivenNot
  <2>. QED
    BY <2>1, <2>2 DEF q
<1>2. ASSUME NEW k \in DOMAIN types, NEW i \in DOMAIN t.packets, t.packets[i].type = types[k], q = Got(t, i)
      PROVE  Adds(t, q.s) /\ q.rc \in {"", "FAIL"} /\ Given(q, types)
  <2>1. t.packets[i].type \notin Awaited
    BY <1>2 DEF Others
  <2> DEFINE u == [t EXCEPT !.packets = RemoveAt(@, i)]
  <2>2. Adds(t, u)
    BY <2>1, AddsGot
  <2> HIDE DEF q, u
  <2>3. q.s = u /\ q.rc = "" /\ q.p = t.packets[i] /\ DOMAIN q = {"s", "rc", "p"}
    BY <1>2 DEF Got, u
  <2>. QED
    BY <1>2, <2>2, <2>3 DEF OneOf, Given
<1> HIDE DEF q
<1>3. q = Not(t, "FAIL") \/ \E k \in DOMAIN types, i \in DOMAIN t.packets : t.packets[i].type = types[k] /\ q = Got(t, i)
  BY AskFinds DEF q, Others
<1>. QED
  BY <1>1, <1>2, <1>3 DEF q

\* What an operation does in a step, r.rc being what it returns.
Goes(t, r)   == Moves(t, r.rc, r.s) /\ Formed(r.s)
Serves(t, r) == Goes(t, r) /\ r.s.call = t.call /\ At(r.s, "startup", 0) = At(t, "startup", 0)

LEMMA ServesWorks ==
  ASSUME NEW t, NEW r, Adds(t, r.s)
  PROVE  Serves(t, r)
BY WorksForms DEF Serves, Goes, Moves, Adds, At

LEMMA GoesWorks ==
  ASSUME NEW t, NEW r, Works(t, r.s)
  PROVE  Goes(t, r)
BY WorksForms DEF Goes, Moves

\* What follows an operation that has returned.
LEMMA GoesAfter ==
  ASSUME NEW t, Sound(t), NEW r, Goes(t, r), r.rc # "MORE", NEW u, Works(r.s, u.s)
  PROVE  Goes(t, u)
<1> DEFINE w == r.s
           rc == r.rc
           x == u.s
           rd == u.rc
<1>1. Moves(t, rc, w) /\ Works(w, x) /\ rc # "MORE"
  BY DEF Goes
<1> HIDE DEF w, x, rc, rd
<1>2. Moves(t, rd, x) /\ Formed(x)
  BY <1>1, MovesAfter
<1>. QED
  BY <1>2 DEF Goes, x, rd

\* What is done with the result of packet_read, an exchange that has begun
\* being gone on with before anything else.
LEMMA ReadThen ==
  ASSUME NEW t, Sound(t), NEW net, NEW u,
         LET x == PacketRead(t, net)
         IN  /\ Works(x.s, u.s)
             /\ x.rc \in Awaited => u.s.packets = x.s.packets /\ u.rc = "MORE"
  PROVE  Goes(t, u)
<1> DEFINE x == PacketRead(t, net)
           rc == IF x.rc \in Awaited THEN "MORE" ELSE ""
           w == x.s
           y == u.s
           rd == u.rc
<1>1. Moves(t, rc, w)
  BY MovesRead
<1>2. Works(w, y) /\ (rc = "MORE" => rd = "MORE" /\ y.packets = w.packets)
  OBVIOUS
<1> HIDE DEF w, rc, rd, x, y
<1>3. Moves(t, rd, y) /\ Formed(y)
  BY <1>1, <1>2, MovesAfter
<1>. QED
  BY <1>3 DEF Goes, rd, y

LEMMA ReadServes ==
  ASSUME NEW t, Sound(t), NEW net, NEW u,
         LET x == PacketRead(t, net)
         IN  /\ Adds(x.s, u.s)
             /\ x.rc \in Awaited => u.s.packets = x.s.packets /\ u.rc = "MORE"
  PROVE  Serves(t, u)
<1>1. Goes(t, u)
  BY ReadThen DEF Adds
<1> DEFINE x == PacketRead(t, net)
<1>3. x.s.call = t.call /\ At(x.s, "startup", 0) = At(t, "startup", 0)
  BY MovesRead
<1> HIDE DEF x
<1>4. u.s.call = x.s.call /\ u.s.at = x.s.at
  BY DEF Adds, x
<1>2. u.s.call = t.call /\ At(u.s, "startup", 0) = At(t, "startup", 0)
  BY <1>3, <1>4 DEF At
<1>. QED
  BY <1>1, <1>2 DEF Serves

LEMMA RequireVServes ==
  ASSUME NEW t, Sound(t), NEW types, Others(types), NEW c, NEW net
  PROVE  LET q == RequireV(t, types, c, net)
         IN  Serves(t, q) /\ Given(q, types)
<1> DEFINE q == RequireV(t, types, c, net)
           asked == Ask(t, types, c)
           x == PacketRead(t, net)
           again == Ask(x.s, types, c)
<1>0. Formed(t) /\ Formed(x.s)
  BY MovesRead DEF Sound
<1>1. Range(types) = OneOf(types)
  BY DEF Range, OneOf
<1>2. \/ q = asked
      \/ q = Not(t, "FAIL")
      \/ q = again /\ x.rc \in OneOf(types)
      \/ \E rc : q = Not(x.s, rc) /\ rc # "" /\ (x.rc \in Awaited => rc = "MORE")
  <2> HIDE DEF asked, x, again
  <2>1. \/ q = asked \/ q = Not(t, "FAIL")
        \/ q = CASE x.rc = "WAIT"   -> Not(x.s, "WAIT")
             [] x.rc = "EAGAIN" -> Not(x.s, IF net = "late" THEN "TIMEOUT" ELSE "EAGAIN")
             [] x.rc = "FAIL"   -> Not(x.s, "FAIL")
             [] x.rc \in OneOf(types) -> again
             [] OTHER -> Not(x.s, "MORE")
    BY <1>1 DEF RequireV, asked, x, again
  <2> HIDE DEF q
  <2>2. CASE x.rc \in Awaited
    <3>1. x.rc # "WAIT" /\ x.rc # "EAGAIN" /\ x.rc # "FAIL"
      BY <2>2 DEF Awaited
    <3>2. \/ q = asked \/ q = Not(t, "FAIL")
          \/ q = again /\ x.rc \in OneOf(types)
          \/ q = Not(x.s, "MORE")
      BY <2>1, <3>1
    <3>. QED
      BY <3>2
  <2>3. CASE x.rc \notin Awaited
    <3>1. \/ q = asked \/ q = Not(t, "FAIL")
          \/ q = again /\ x.rc \in OneOf(types)
          \/ \E rc \in {"WAIT", "TIMEOUT", "EAGAIN", "FAIL", "MORE"} : q = Not(x.s, rc)
      BY <2>1
    <3>. QED
      BY <2>3, <3>1
  <2>. QED
    BY <2>2, <2>3
<1> HIDE DEF q
<1>3. CASE q = asked
  <2>1. Adds(t, asked.s) /\ Given(asked, types)
    BY <1>0, AddsAsk
  <2>. QED
    BY <1>3, <2>1, ServesWorks DEF q
<1>4. CASE q = Not(t, "FAIL")
  <2>1. q.s = t /\ q.rc = "FAIL" /\ Given(q, types)
    BY <1>4, GivenNot
  <2>2. Adds(t, t)
    BY <1>0, WorksSame DEF Adds
  <2>. QED
    BY <2>1, <2>2, ServesWorks DEF q
<1>5. CASE q = again /\ x.rc \in OneOf(types)
  <2>1. Adds(x.s, again.s) /\ Given(again, types)
    <3> HIDE DEF x
    <3>. QED
      BY <1>0, AddsAsk
  <2>2. x.rc \notin Awaited
    BY <1>5 DEF OneOf, Others
  <2> HIDE DEF again
  <2>3. Serves(t, q)
    BY <1>5, <2>1, <2>2, ReadServes
  <2>. QED
    BY <1>5, <2>1, <2>3 DEF q
<1>6. ASSUME NEW rc, q = Not(x.s, rc), rc # "", x.rc \in Awaited => rc = "MORE"
      PROVE  Serves(t, q) /\ q.rc # "" /\ Given(q, types)
  <2>1. q.s = x.s /\ q.rc = rc /\ Given(q, types)
    BY <1>6, GivenNot
  <2>2. Adds(x.s, x.s)
    BY <1>0, WorksSame DEF Adds
  <2>3. Serves(t, q)
    BY <1>6, <2>1, <2>2, ReadServes
  <2>. QED
    BY <1>6, <2>1, <2>3
<1>. QED
  BY <1>2, <1>3, <1>4, <1>5, <1>6 DEF q

\* Operations other than those of an exchange.
LEMMA RequestServes ==
  ASSUME NEW t, Sound(t), NEW op, op \notin KeyOps, NEW d, NEW p, IsPacket(p), p.type \notin Asking,
         NEW types, Others(types), NEW c, NEW net
  PROVE  LET q == Request(t, op, d, p, types, c, net)
         IN  Goes(t, q) /\ Given(q, types)
<1> DEFINE q == Request(t, op, d, p, types, c, net)
           w == PacketWrite(t, p)
           a == RequireV(t, types, c, net)
           sent == Goto(w.s, op, d, "sent")
           idle == Goto(w.s, op, d, "idle")
           back == Goto(a.s, op, d, "idle")
<1>0. Formed(t)
  BY DEF Sound
<1>1. \/ q = Not(sent, "MORE") \/ q = Not(idle, "FAIL")
      \/ q = a
      \/ q = [a EXCEPT !.s = back] /\ a.rc # "MORE"
  BY DEF Request
<1>2. Adds(t, w.s)
  BY <1>0, AddsWrite
<1>3. Works(t, sent) /\ Works(t, idle)
  <2>1. Formed(w.s)
    BY <1>2 DEF Adds, Works
  <2> HIDE DEF w
  <2>2. Works(w.s, sent) /\ Works(w.s, idle)
    BY <2>1, WorksGoto
  <2> HIDE DEF sent, idle
  <2>. QED
    BY <1>0, <1>2, <2>2, WorksOn DEF Adds
<1>4. Goes(t, a) /\ Given(a, types)
  BY RequireVServes DEF Serves
<1> HIDE DEF w, a, sent, idle, q
<1>5. CASE q = Not(sent, "MORE") \/ q = Not(idle, "FAIL")
  <2>1. Works(t, q.s) /\ q.rc # "" /\ Given(q, types)
    <3>1. CASE q = Not(sent, "MORE")
      <4>1. q.s = sent /\ q.rc = "MORE" /\ Given(q, types)
        BY <3>1, GivenNot
      <4>. QED
        BY <1>3, <4>1
    <3>2. CASE q = Not(idle, "FAIL")
      <4>1. q.s = idle /\ q.rc = "FAIL" /\ Given(q, types)
        BY <3>2, GivenNot
      <4>. QED
        BY <1>3, <4>1
    <3>. QED
      BY <1>5, <3>1, <3>2
  <2>. QED
    BY <2>1, GoesWorks DEF q
<1>6. CASE q = a
  BY <1>4, <1>6 DEF q
<1>7. CASE q = [a EXCEPT !.s = back] /\ a.rc # "MORE"
  <2>1. q.s = back /\ q.rc = a.rc /\ q.p = a.p /\ DOMAIN q = {"s", "rc", "p"}
    BY <1>4, <1>7 DEF Given
  <2>2. Formed(a.s)
    BY <1>4 DEF Goes
  <2>3. Works(a.s, back)
    BY <2>2, WorksGoto
  <2>4. Goes(t, q)
    BY <1>4, <1>7, <2>1, <2>3, GoesAfter
  <2>. QED
    BY <1>4, <2>1, <2>3, <2>4 DEF Given, q
<1>. QED
  BY <1>1, <1>5, <1>6, <1>7

-----------------------------------------------------------------------------
(* Authentication *)

\* A step that ends in R(u, rc).
LEMMA GoesR ==
  ASSUME NEW t, NEW r, NEW u, NEW rc, r = R(u, rc), Works(t, u)
  PROVE  Goes(t, r)
<1>1. r.s = u
  BY ResultOf
<1>. QED
  BY <1>1, GoesWorks

\* ... after a request that has been answered.
LEMMA GoesOn ==
  ASSUME NEW t, Sound(t), NEW q, Goes(t, q), q.rc # "MORE", NEW r, NEW u, NEW rc, r = R(u, rc), Works(q.s, u)
  PROVE  Goes(t, r)
<1>1. r.s = u
  BY ResultOf
<1>. QED
  BY <1>1, GoesAfter

\* ... or what the request says itself.
LEMMA GoesSame ==
  ASSUME NEW t, NEW q, Goes(t, q), NEW r, r = R(q.s, q.rc)
  PROVE  Goes(t, r)
<1>1. r.s = q.s /\ r.rc = q.rc
  BY DEF R
<1>. QED
  BY <1>1 DEF Goes

IsVerdict(q) == IF q.rc = "" THEN q.p.type \in {"SUCCESS", "FAILURE"} ELSE q.p.type = "none"

LEMMA AuthResultGoes ==
  ASSUME NEW t, Sound(t), NEW q, Goes(t, q), IsVerdict(q)
  PROVE  Goes(t, AuthResult(q))
<1>1. CASE q.rc # ""
  <2>1. AuthResult(q) = R(q.s, q.rc)
    BY <1>1 DEF AuthResult, IsVerdict
  <2>. QED
    BY <2>1, GoesSame
<1>2. CASE q.rc = "" /\ q.p.type = "SUCCESS"
  <2> DEFINE u == Authenticated(q.s)
  <2>1. AuthResult(q) = R(u, "")
    BY <1>2 DEF AuthResult
  <2>2. Formed(q.s)
    BY DEF Goes
  <2>3. Works(q.s, u)
    <3>1. Same(q.s, u, {"state"}) /\ u.state = q.s.state \cup {"AUTHENTICATED"}
      BY <2>2, FieldsAre DEF Authenticated, Formed, Same
    <3> HIDE DEF u
    <3>2. ExchangeStates \cap u.state = ExchangeStates \cap q.s.state
      BY <3>1 DEF ExchangeStates
    <3>. QED
      BY <2>2, <3>1, <3>2, WorksStates
  <2> HIDE DEF u
  <2>. QED
    BY <1>2, <2>1, <2>3, GoesOn
<1>3. CASE q.rc = "" /\ q.p.type = "FAILURE"
  <2>1. AuthResult(q) = R(q.s, "DENIED")
    BY <1>3 DEF AuthResult
  <2>2. Works(q.s, q.s)
    BY WorksSame DEF Goes
  <2>. QED
    BY <1>3, <2>1, <2>2, GoesOn
<1>. QED
  BY <1>1, <1>2, <1>3 DEF IsVerdict

LEMMA AuthRequestIs ==
  ASSUME NEW what
  PROVE  IsPacket(AuthRequest(what)) /\ AuthRequest(what).type \notin Asking
BY FieldsAre DEF AuthRequest, Packet, IsPacket, Asking, Inits

LEMMA AnswerTypes ==
  /\ Others(<<"SUCCESS", "FAILURE">>) /\ OneOf(<<"SUCCESS", "FAILURE">>) = {"SUCCESS", "FAILURE"}
  /\ \A x : x \notin Awaited => Others(<<"SUCCESS", "FAILURE", x>>)
  /\ \A x : OneOf(<<"SUCCESS", "FAILURE", x>>) = {"SUCCESS", "FAILURE", x}
<1>1. Others(<<"SUCCESS", "FAILURE">>)
  BY DEF Others, Awaited
<1>2. OneOf(<<"SUCCESS", "FAILURE">>) = {"SUCCESS", "FAILURE"}
  BY DEF OneOf
<1>3. \A x : x \notin Awaited => Others(<<"SUCCESS", "FAILURE", x>>)
  BY DEF Others, Awaited
<1>4. ASSUME NEW x PROVE OneOf(<<"SUCCESS", "FAILURE", x>>) = {"SUCCESS", "FAILURE", x}
  BY DEF OneOf
<1>. QED
  BY <1>1, <1>2, <1>3, <1>4

\* A request of authentication and its answer.
LEMMA AuthRequestServes ==
  ASSUME NEW t, Sound(t), NEW op, op \notin KeyOps, NEW what, NEW types, Others(types), NEW net
  PROVE  LET q == Request(t, op, 0, AuthRequest(what), types, Nobody, net)
         IN  Goes(t, q) /\ Given(q, types)
BY AuthRequestIs, RequestServes

\* One that is only answered yes or no.
LEMMA PlainAuthGoes ==
  ASSUME NEW t, Sound(t), NEW op, op \notin KeyOps, NEW what, NEW net
  PROVE  Goes(t, AuthResult(Request(t, op, 0, AuthRequest(what), <<"SUCCESS", "FAILURE">>, Nobody, net)))
<1> DEFINE q == Request(t, op, 0, AuthRequest(what), <<"SUCCESS", "FAILURE">>, Nobody, net)
<1>1. Goes(t, q) /\ Given(q, <<"SUCCESS", "FAILURE">>)
  BY AnswerTypes, AuthRequestServes
<1> HIDE DEF q
<1>2. IsVerdict(q)
  BY <1>1, AnswerTypes DEF Given, IsVerdict
<1>. QED
  BY <1>1, <1>2, AuthResultGoes DEF q

LEMMA ListGoes ==
  ASSUME NEW t, Sound(t), NEW net
  PROVE  Goes(t, UserauthList(t, net))
BY PlainAuthGoes DEF UserauthList, KeyOps

LEMMA HostbasedGoes ==
  ASSUME NEW t, Sound(t), NEW net
  PROVE  Goes(t, UserauthHostbased(t, net))
BY PlainAuthGoes DEF UserauthHostbased, KeyOps

LEMMA NewPasswordGoes ==
  ASSUME NEW t, Formed(t), NEW callback
  PROVE  LET r == NewPassword(t, callback) IN Works(t, r.s)
<1> DEFINE r == NewPassword(t, callback)
           g == Goto(t, "userauth_pswd_data0", 0, "created")
           w == PacketWrite(g, AuthRequest("new password"))
           a == Goto(w.s, "userauth_pswd", 0, "sent2")
           b == Goto(w.s, "userauth_pswd", 0, "sent")
<1>1. r = R(t, "DENIED") \/ r = R(a, "FAIL") \/ r = R(b, "MORE")
  BY DEF NewPassword
<1>2. Works(t, g)
  BY WorksGoto DEF KeyOps
<1>3. Formed(g)
  BY <1>2, WorksForms
<1> HIDE DEF g
<1>4. Works(g, w.s)
  BY <1>3, AuthRequestIs, WorksWrite
<1>5. Formed(w.s)
  BY <1>4, WorksForms
<1> HIDE DEF w
<1>6. Works(w.s, a) /\ Works(w.s, b)
  BY <1>5, WorksGoto DEF KeyOps
<1> HIDE DEF a, b, r
<1>7. Works(t, a) /\ Works(t, b) /\ Works(t, t)
  BY <1>2, <1>3, <1>4, <1>5, <1>6, WorksOn, WorksSame
<1>8. r.s \in {t, a, b}
  BY <1>1, ResultOf
<1>. QED
  BY <1>7, <1>8 DEF r

LEMMA PasswordGoes ==
  ASSUME NEW t, Sound(t), NEW callback, NEW net
  PROVE  Goes(t, UserauthPassword(t, callback, net))
<1> DEFINE types == <<"SUCCESS", "FAILURE", "PASSWD_CHANGEREQ">>
           b == IF At(t, "userauth_pswd", 0) = "idle" THEN Goto(t, "userauth_pswd_data0", 0, "idle") ELSE t
           q == Request(b, "userauth_pswd", 0, AuthRequest("password"), types, Nobody, net)
           r == UserauthPassword(t, callback, net)
<1>1. \/ r = NewPassword(q.s, callback) /\ q.rc = ""
      \/ r = AuthResult(q) /\ (q.rc = "" => q.p.type # "PASSWD_CHANGEREQ")
  BY Zenon DEF UserauthPassword
<1>2. Works(t, b)
  BY WorksGoto, WorksSame DEF KeyOps, Sound
<1>3. Sound(b) /\ Formed(t)
  BY <1>2, SoundOn DEF Sound
<1>4. Others(types) /\ OneOf(types) = {"SUCCESS", "FAILURE", "PASSWD_CHANGEREQ"}
  <2>1. "PASSWD_CHANGEREQ" \notin Awaited
    BY DEF Awaited
  <2>. QED
    BY <2>1, AnswerTypes
<1> HIDE DEF b, types
<1>5. Goes(b, q) /\ Given(q, types)
  BY <1>3, <1>4, AuthRequestServes DEF KeyOps
<1> HIDE DEF q, r
<1>6. Goes(b, r)
  <2>1. CASE r = NewPassword(q.s, callback) /\ q.rc = ""
    <3>1. Formed(q.s)
      BY <1>5 DEF Goes
    <3>2. Works(q.s, r.s)
      BY <2>1, <3>1, NewPasswordGoes
    <3>. QED
      BY <1>3, <1>5, <2>1, <3>2, GoesAfter
  <2>2. CASE r = AuthResult(q) /\ (q.rc = "" => q.p.type # "PASSWD_CHANGEREQ")
    <3>1. IsVerdict(q)
      BY <1>4, <1>5, <2>2 DEF Given, IsVerdict
    <3>. QED
      BY <1>3, <1>5, <2>2, <3>1, AuthResultGoes
  <2>. QED
    BY <1>1, <2>1, <2>2
<1>7. Goes(t, r)
  BY <1>2, <1>3, <1>6, MovesBefore DEF Goes
<1>. QED
  BY <1>7 DEF r

LEMMA PublickeyGoes ==
  ASSUME NEW t, Sound(t), NEW key, NEW net
  PROVE  Goes(t, UserauthPublickey(t, key, net))
<1> DEFINE types == <<"SUCCESS", "FAILURE", "PK_OK">>
           two == <<"SUCCESS", "FAILURE">>
           q == OfferKey(t, net)
           v == RequireV(t, two, Nobody, net)
           g == [v EXCEPT !.s = Goto(@, "userauth_pblc", 0, "idle")]
           r == UserauthPublickey(t, key, net)
<1>0. Formed(t)
  BY DEF Sound
<1>1. \/ r = R(v.s, v.rc)
      \/ r = AuthResult(g) /\ v.rc # "MORE"
      \/ r = R(t, "FAIL")
      \/ r = AuthResult(q) /\ (q.rc = "" => q.p.type # "PK_OK")
      \/ r = SendSignature(q.s) /\ q.rc = ""
      \/ r = R(q.s, "FAIL") /\ q.rc = ""
  BY Zenon DEF UserauthPublickey, AwaitVerdict
<1>2. Others(types) /\ OneOf(types) = {"SUCCESS", "FAILURE", "PK_OK"}
  <2>1. "PK_OK" \notin Awaited
    BY DEF Awaited
  <2>. QED
    BY <2>1, AnswerTypes
<1> HIDE DEF types
<1>3. Goes(t, q) /\ Given(q, types)
  BY <1>2, AuthRequestServes DEF OfferKey, KeyOps, types
<1>4. Goes(t, v) /\ Given(v, two)
  BY AnswerTypes, RequireVServes DEF Serves
<1> HIDE DEF q, v, two, r
<1>5. CASE r = R(v.s, v.rc)
  BY <1>4, <1>5, GoesSame DEF r
<1>6. CASE r = AuthResult(g) /\ v.rc # "MORE"
  <2> DEFINE w == Goto(v.s, "userauth_pblc", 0, "idle")
  <2>1. Formed(v.s)
    BY <1>4 DEF Goes
  <2>2. Works(v.s, w)
    BY <2>1, WorksGoto
  <2>3. g.s = w /\ g.rc = v.rc /\ g.p = v.p
    BY <1>4 DEF Given
  <2> HIDE DEF g, w
  <2>4. Goes(t, g)
    BY <1>4, <1>6, <2>2, <2>3, GoesAfter
  <2>5. IsVerdict(g)
    BY <1>4, <2>3, AnswerTypes DEF Given, IsVerdict, two
  <2>. QED
    BY <1>6, <2>4, <2>5, AuthResultGoes DEF r
<1>7. CASE r = R(t, "FAIL")
  BY <1>0, <1>7, GoesR, WorksSame DEF r
<1>8. CASE r = AuthResult(q) /\ (q.rc = "" => q.p.type # "PK_OK")
  <2>1. IsVerdict(q)
    BY <1>2, <1>3, <1>8 DEF Given, IsVerdict
  <2>. QED
    BY <1>3, <1>8, <2>1, AuthResultGoes DEF r
<1>9. CASE r = SendSignature(q.s) /\ q.rc = ""
  <2> DEFINE w == PacketWrite(q.s, AuthRequest("publickey signed"))
             a == Goto(w.s, "userauth_pblc", 0, "sent2")
  <2>1. r = R(a, "MORE") \/ r = R(w.s, "FAIL")
    BY <1>9 DEF SendSignature
  <2>2. Formed(q.s)
    BY <1>3 DEF Goes
  <2>3. Works(q.s, w.s)
    BY <2>2, AuthRequestIs, WorksWrite
  <2>4. Formed(w.s)
    BY <2>3, WorksForms
  <2> HIDE DEF w
  <2>5. Works(w.s, a)
    BY <2>4, WorksGoto DEF KeyOps
  <2> HIDE DEF a
  <2>6. Works(q.s, a)
    BY <2>2, <2>3, <2>5, WorksOn
  <2>. QED
    BY <1>3, <1>9, <2>1, <2>3, <2>6, GoesOn DEF r
<1>10. CASE r = R(q.s, "FAIL") /\ q.rc = ""
  <2>1. Works(q.s, q.s)
    BY <1>3, WorksSame DEF Goes
  <2>. QED
    BY <1>3, <1>10, <2>1, GoesOn DEF r
<1>. QED
  BY <1>1, <1>5, <1>6, <1>7, <1>8, <1>9, <1>10 DEF r

LEMMA InteractiveGoes ==
  ASSUME NEW t, Sound(t), NEW net
  PROVE  Goes(t, UserauthKeyboardInteractive(t, net))
<1> DEFINE types == <<"SUCCESS", "FAILURE", "INFO_REQUEST">>
           q == Request(t, "userauth_kybd", 0, AuthRequest("keyboard-interactive"), types, Nobody, net)
           w == PacketWrite(q.s, Plain("INFO_RESPONSE"))
           a == Goto(w.s, "userauth_kybd", 0, "sent")
           r == UserauthKeyboardInteractive(t, net)
<1>1. \/ (r = R(a, "MORE") \/ r = R(w.s, "FAIL")) /\ q.rc = ""
      \/ r = AuthResult(q) /\ (q.rc = "" => q.p.type # "INFO_REQUEST")
  BY Zenon DEF UserauthKeyboardInteractive, Respond
<1>2. Others(types) /\ OneOf(types) = {"SUCCESS", "FAILURE", "INFO_REQUEST"}
  <2>1. "INFO_REQUEST" \notin Awaited
    BY DEF Awaited
  <2>. QED
    BY <2>1, AnswerTypes
<1> HIDE DEF types
<1>3. Goes(t, q) /\ Given(q, types)
  BY <1>2, AuthRequestServes DEF KeyOps
<1> HIDE DEF q, r
<1>4. CASE (r = R(a, "MORE") \/ r = R(w.s, "FAIL")) /\ q.rc = ""
  <2>0. IsPacket(Plain("INFO_RESPONSE")) /\ Plain("INFO_RESPONSE").type \notin Asking
    BY FieldsAre DEF IsPacket, Plain, Packet, Asking, Inits
  <2>2. Formed(q.s)
    BY <1>3 DEF Goes
  <2>3. Works(q.s, w.s)
    BY <2>0, <2>2, WorksWrite
  <2>4. Formed(w.s)
    BY <2>3, WorksForms
  <2> HIDE DEF w
  <2>5. Works(w.s, a)
    BY <2>4, WorksGoto DEF KeyOps
  <2> HIDE DEF a
  <2>6. Works(q.s, a)
    BY <2>2, <2>3, <2>5, WorksOn
  <2>. QED
    BY <1>3, <1>4, <2>3, <2>6, GoesOn DEF r
<1>5. CASE r = AuthResult(q) /\ (q.rc = "" => q.p.type # "INFO_REQUEST")
  <2>1. IsVerdict(q)
    BY <1>2, <1>3, <1>5 DEF Given, IsVerdict
  <2>. QED
    BY <1>3, <1>5, <2>1, AuthResultGoes DEF r
<1>. QED
  BY <1>1, <1>4, <1>5 DEF r

-----------------------------------------------------------------------------
(* Channels *)

\* The packets of a request on a channel, and of what else is sent on one.
LEMMA SentIs ==
  ASSUME NEW kind, kind \notin Asking, NEW a, NEW b, NEW d, NEW e
  PROVE  IsPacket(Packet(kind, a, b, d, e)) /\ Packet(kind, a, b, d, e).type \notin Asking
BY FieldsAre DEF IsPacket, Packet

LEMMA RequestGoes ==
  ASSUME NEW t, Sound(t), NEW op, op \notin KeyOps, NEW k, NEW kind, kind \notin Asking,
         NEW a, NEW b, NEW d, NEW e, NEW types, Others(types), NEW c, NEW net
  PROVE  LET q == Request(t, op, k, Packet(kind, a, b, d, e), types, c, net)
         IN  Goes(t, q) /\ Given(q, types)
<1> DEFINE p == Packet(kind, a, b, d, e)
<1>1. IsPacket(p) /\ p.type \notin Asking
  BY SentIs
<1> HIDE DEF p
<1>. QED
  BY <1>1, RequestServes DEF p

LEMMA PairsAre ==
  /\ Others(<<"OPEN_CONFIRMATION", "OPEN_FAILURE">>)
  /\ Others(<<"CHANNEL_SUCCESS", "CHANNEL_FAILURE">>)
  /\ Others(<<"REQUEST_SUCCESS", "REQUEST_FAILURE">>)
BY DEF Others, Awaited

\* A channel is forgotten.
LEMMA WorksOnly ==
  ASSUME NEW t, Formed(t), NEW T, \A p \in Range(t.packets) \ T : p.type \notin Awaited
  PROVE  Adds(t, [t EXCEPT !.packets = Only(@, T)])
<1> DEFINE q == Only(t.packets, T)
<1>1. ArePackets(q) /\ Range(q) = Range(t.packets) \cap T
  BY PacketsOnly DEF Formed
<1> HIDE DEF q
<1>2. AwaitedIn(q) = AwaitedIn(t.packets)
  BY <1>1 DEF AwaitedIn
<1>3. Works(t, [t EXCEPT !.packets = q])
  BY <1>1, <1>2, WorksBrigade
<1>4. [t EXCEPT !.packets = q].call = t.call /\ [t EXCEPT !.packets = q].at = t.at
  BY FieldsAre DEF Formed
<1>. QED
  BY <1>3, <1>4 DEF Adds, q

LEMMA WorksForget ==
  ASSUME NEW t, Formed(t), NEW c
  PROVE  Works(t, Forget(t, c))
<1> DEFINE T == {p \in Range(t.packets) : ~IsDataOf(p, c)}
           a == ClearPackets(t, c)
           b == [a EXCEPT !.chan = [d \in DOMAIN a.chan \ {c} |-> a.chan[d]]]
           g == [k \in {j \in DOMAIN a.at : j[2] # c} |-> a.at[k]]
           u == [b EXCEPT !.at = g]
<1>1. Works(t, a)
  <2>1. \A p \in Range(t.packets) \ T : p.type \notin Awaited
    BY DEF IsDataOf, DataTypes, Awaited
  <2>2. a = [t EXCEPT !.packets = Only(@, T)]
    BY DEF ClearPackets
  <2> HIDE DEF T, a
  <2>. QED
    BY <2>1, <2>2, WorksOnly DEF Adds
<1>2. Formed(a)
  BY <1>1, WorksForms
<1>3. Forget(t, c) = u
  BY DEF Forget
<1> HIDE DEF a
<1>4. Formed(b) /\ Same(a, b, Inert) /\ b.at = a.at
  BY <1>2, FieldsAre DEF Formed, Same, Inert
<1>5. Works(a, b)
  BY <1>2, <1>4, WorksInert
<1>6. Works(b, u)
  <2>1. \A o : At(b, o, 0) = "idle" => (IF <<o, 0>> \in DOMAIN g THEN g[<<o, 0>>] ELSE "idle") = "idle"
    BY <1>4 DEF At
  <2> HIDE DEF b, g
  <2>2. Same(b, u, {"at"}) /\ u.at = g
    BY <1>4, FieldsAre DEF Formed, Same
  <2> HIDE DEF u
  <2>3. \A o \in KeyOps : At(b, o, 0) = "idle" => At(u, o, 0) = "idle"
    BY <2>1, <2>2 DEF At
  <2>4. /\ DOMAIN u = Fields
        /\ u.keys = b.keys /\ u.gone = b.gone /\ u.kex = b.kex /\ u.kexRc = b.kexRc
        /\ u.burn = b.burn /\ u.methods = b.methods /\ u.inbound = b.inbound
        /\ u.fullpacket = b.fullpacket /\ u.socket_state = b.socket_state
        /\ u.state = b.state /\ u.start = b.start
        /\ u.packets = b.packets /\ u.outbound = b.outbound
    BY <2>2, FieldsAre DEF Same
  <2>. QED
    BY <1>4, <2>3, <2>4, FormedLists DEF Works, Sends, Formed
<1> HIDE DEF b, u
<1>7. Works(t, u)
  <2>1. Works(t, b)
    BY <1>1, <1>5, WorksOn
  <2>. QED
    BY <1>6, <2>1, WorksOn
<1>. QED
  BY <1>3, <1>7

LEMMA OpenGoes ==
  ASSUME NEW t, Sound(t), NEW kind, NEW net
  PROVE  Goes(t, OpenEx(t, kind, net))
<1> DEFINE types == <<"OPEN_CONFIRMATION", "OPEN_FAILURE">>
           o == IF At(t, "open", 0) = "idle" THEN Opening(t) ELSE t
           q == Request(o, "open", 0, Packet("OPEN", 0, WindowDefault, o.open_channel, kind),
                        types, o.open_channel, net)
           f == Forget(q.s, q.s.open_channel)
           n == [f EXCEPT !.channels = Only(@, Range(@) \ {q.s.open_channel}), !.open_channel = 0]
           y == [q.s EXCEPT !.chan[q.s.open_channel].remote.id = q.p.from,
                            !.chan[q.s.open_channel].local.window_size = q.p.n,
                            !.chan[q.s.open_channel].local.packet_size = PacketDefault]
           r == OpenEx(t, kind, net)
<1>0. Formed(t)
  BY DEF Sound
<1>1. \/ r = R(q.s, q.rc)
      \/ ~MayRetry(q.rc) /\ \E rc : r = R(n, rc)
      \/ ~MayRetry(q.rc) /\ r = R(y, "")
  <2> HIDE DEF q, o
  <2>1. r = IF MayRetry(q.rc) THEN R(q.s, q.rc)
            ELSE IF q.rc # "" THEN OpenFailed(q.s, q.rc)
            ELSE IF q.p.type = "OPEN_FAILURE" THEN OpenFailed(q.s, "DENIED")
            ELSE Opened(q.s, q.p)
    BY Zenon DEF OpenEx, q, o
  <2>2. \A rc : OpenFailed(q.s, rc) = R(n, rc)
    BY DEF OpenFailed
  <2>3. Opened(q.s, q.p) = R(y, "")
    BY DEF Opened
  <2> HIDE DEF r, n, y
  <2>. QED
    BY <2>1, <2>2, <2>3
<1>2. Works(t, o)
  <2> DEFINE id == NextId(t)
             w == WithChannel(TakeId(t), id, Channel(id, 0, 0, 0, WindowDefault, PacketDefault))
             z == [w EXCEPT !.channels = Append(@, id), !.open_channel = id]
  <2>1. Opening(t) = z
    BY DEF Opening
  <2>2. Same(t, TakeId(t), Inert)
    BY <1>0, FieldsAre DEF TakeId, Formed, Same, Inert
  <2> DEFINE i == TakeId(t)
  <2> HIDE DEF i, id
  <2>3. Same(i, w, Inert)
    BY <2>2, FieldsAre DEF WithChannel, Same, Inert, i
  <2> HIDE DEF w
  <2>4. Same(w, z, Inert)
    BY <2>3, FieldsAre DEF Same, Inert
  <2> HIDE DEF z
  <2>5. Same(t, z, Inert)
    BY <2>2, <2>3, <2>4 DEF Same, i
  <2>. QED
    BY <1>0, <2>1, <2>5, WorksInert, WorksSame
<1>3. Sound(o)
  BY <1>2, SoundOn
<1> HIDE DEF o, types
<1>4. Goes(o, q)
  BY <1>3, PairsAre, RequestGoes DEF KeyOps, Asking, Inits, types
<1> HIDE DEF q
<1>5. Formed(q.s)
  BY <1>4 DEF Goes
<1>6. Works(q.s, n)
  <2>1. Works(q.s, f)
    BY <1>5, WorksForget
  <2>2. Formed(f)
    BY <2>1, WorksForms
  <2> HIDE DEF f
  <2>3. Same(f, n, Inert)
    BY <2>2, FieldsAre DEF Formed, Same, Inert
  <2> HIDE DEF n
  <2>4. Works(f, n)
    BY <2>2, <2>3, WorksInert
  <2>. QED
    BY <1>5, <2>1, <2>4, WorksOn
<1>7. Works(q.s, y)
  <2> DEFINE v == q.s
  <2>1. Same(v, y, Inert)
    BY <1>5, FieldsAre DEF Formed, Same, Inert
  <2> HIDE DEF y
  <2>. QED
    BY <1>5, <2>1, WorksInert
<1> HIDE DEF n, y, r
<1>8. Goes(o, r)
  <2>1. ~MayRetry(q.rc) => q.rc # "MORE"
    BY DEF MayRetry
  <2>. QED
    BY <1>1, <1>3, <1>4, <1>6, <1>7, <2>1, GoesOn, GoesSame
<1>9. Goes(t, r)
  BY <1>0, <1>2, <1>8, MovesBefore DEF Goes
<1>. QED
  BY <1>9 DEF r

LEMMA ChannelRequestGoes ==
  ASSUME NEW t, Sound(t), NEW op, op \notin KeyOps, NEW c, NEW what, NEW net
  PROVE  LET q == ChannelRequest(t, op, c, what, net)
             v == Verdict(q)
         IN  Goes(t, q) /\ Goes(t, v) /\ v.s = q.s /\ (q.rc # "" => v.rc = q.rc)
<1> DEFINE q == ChannelRequest(t, op, c, what, net)
           v == Verdict(q)
<1>1. Goes(t, q)
  BY PairsAre, RequestGoes DEF ChannelRequest, Asking, Inits
<1> HIDE DEF q
<1>2. v = R(q.s, q.rc) \/ (v = R(q.s, "DENIED") /\ q.rc = "")
  BY DEF Verdict
<1> HIDE DEF v
<1>3. CASE v = R(q.s, q.rc)
  <2>1. v.s = q.s /\ v.rc = q.rc
    BY <1>3 DEF R
  <2>. QED
    BY <1>1, <1>3, <2>1, GoesSame DEF q, v
<1>4. CASE v = R(q.s, "DENIED") /\ q.rc = ""
  <2>1. v.s = q.s
    BY <1>4 DEF R
  <2>2. Works(q.s, q.s)
    BY <1>1, WorksSame DEF Goes
  <2>3. Goes(t, v)
    BY <1>1, <1>4, <2>2, GoesOn
  <2>. QED
    BY <1>1, <1>4, <2>1, <2>3 DEF q, v
<1>. QED
  BY <1>2, <1>3, <1>4

LEMMA X11ReqGoes ==
  ASSUME NEW t, Sound(t), NEW c, NEW net
  PROVE  Goes(t, X11Req(t, c, net))
<1> DEFINE v == Verdict(ChannelRequest(t, "reqX11", c, "x11-req", net))
           g == Goto(v.s, "reqX11", c, "sent")
           r == X11Req(t, c, net)
<1>1. (r = R(g, v.rc) /\ v.rc = "DENIED") \/ r = v
  BY DEF X11Req
<1>2. Goes(t, v)
  BY ChannelRequestGoes DEF KeyOps
<1> HIDE DEF v, r
<1>3. Works(v.s, g)
  BY <1>2, WorksGoto DEF Goes, KeyOps
<1> HIDE DEF g
<1>4. v.rc = "DENIED" => v.rc # "MORE"
  OBVIOUS
<1>. QED
  BY <1>1, <1>2, <1>3, <1>4, GoesOn DEF r

LEMMA RequestPtySizeGoes ==
  ASSUME NEW t, Sound(t), NEW c
  PROVE  Goes(t, RequestPtySize(t, c))
<1> DEFINE a == t.chan[c].remote.id
           w == PacketWrite(t, Packet("CHANNEL_REQUEST", a, 0, 0, "window-change"))
           g == Goto(t, "reqPTY", c, "idle")
           h == Goto(w.s, "reqPTY", c, "sent")
           r == RequestPtySize(t, c)
<1>0. Formed(t)
  BY DEF Sound
<1>1. r = R(g, "FAIL") \/ r = R(w.s, "FAIL") \/ r = R(h, "")
  BY DEF RequestPtySize
<1>2. Works(t, g)
  BY <1>0, WorksGoto
<1> HIDE DEF a, g, r
<1>3. Works(t, w.s)
  <2>1. "CHANNEL_REQUEST" \notin Asking
    BY DEF Asking, Inits
  <2>. QED
    BY <1>0, <2>1, SentIs, WorksWrite
<1>4. Formed(w.s)
  BY <1>3, WorksForms
<1> HIDE DEF w
<1>5. Works(w.s, h)
  BY <1>4, WorksGoto DEF KeyOps
<1> HIDE DEF h
<1>6. Works(t, h)
  BY <1>0, <1>3, <1>5, WorksOn
<1>. QED
  BY <1>1, <1>2, <1>3, <1>6, GoesR DEF r

\* A step that has changed fields only that no exchange looks at.
LEMMA InertGoes ==
  ASSUME NEW t, Formed(t), NEW u, Same(t, u, Inert), NEW r, NEW rc, r = R(u, rc)
  PROVE  Goes(t, r)
BY WorksInert, GoesR

\* What is done with the result of packet_read, in the form most operations have.
LEMMA ReadGoes ==
  ASSUME NEW t, Sound(t), NEW net, NEW u, NEW rc, NEW r, r = R(u, rc),
         LET x == PacketRead(t, net)
         IN  /\ Formed(x.s) => Same(x.s, u, Inert)
             /\ x.rc \in Awaited => rc = "MORE"
  PROVE  Goes(t, r)
<1> DEFINE x == PacketRead(t, net)
<1>1. Formed(x.s)
  BY MovesRead
<1>2. Same(x.s, u, Inert)
  BY <1>1
<1>3. r.s = u /\ r.rc = rc
  BY ResultOf
<1> HIDE DEF x
<1>4. Works(x.s, u)
  BY <1>1, <1>2, WorksInert
<1>5. u.packets = x.s.packets
  BY <1>2, FieldsAre DEF Same, Inert
<1>. QED
  BY <1>3, <1>4, <1>5, ReadThen DEF x

LEMMA SameSelf ==
  ASSUME NEW t, Formed(t), NEW T
  PROVE  Same(t, t, T)
BY DEF Same, Formed

\* The result of packet_read is passed on.
LEMMA ReadItself ==
  ASSUME NEW t, Sound(t), NEW net, NEW r, r = PacketRead(t, net), r.rc \notin Awaited
  PROVE  Goes(t, r)
<1>1. Formed(r.s)
  BY MovesRead
<1>2. Works(r.s, r.s)
  BY <1>1, WorksSame
<1>. QED
  BY <1>2, ReadThen

-----------------------------------------------------------------------------
(* Reading *)

LEMMA PhaseForms ==
  ASSUME NEW t, Formed(t), NEW phase
  PROVE  Same(t, [t EXCEPT !.call.phase = phase], Inert)
BY FieldsAre DEF Formed, Same, Inert

LEMMA PhaseReads ==
  ASSUME NEW t, Formed(t), Reading(t.call), NEW phase \in {"", "scan", "wait"}
  PROVE  Reading([t EXCEPT !.call.phase = phase].call)
BY FieldsAre DEF Formed, Reading

LEMMA PollGoes ==
  ASSUME NEW t, Sound(t), Reading(t.call), NEW net
  PROVE  LET r == Poll(t, net) IN Goes(t, r) /\ Reading(r.s.call)
<1> DEFINE r == Poll(t, net)
           x == PacketRead(t, net)
           a == [t EXCEPT !.call.phase = "scan"]
           b == [x.s EXCEPT !.call.phase = "scan"]
<1>0. Formed(t) /\ Formed(x.s) /\ x.s.call = t.call
  BY MovesRead DEF Sound
<1>1. \/ r = R(a, "MORE")
      \/ r = x /\ x.rc \notin Awaited
      \/ r = R(b, "MORE")
      \/ r = R(x.s, "MORE")
  <2> HIDE DEF x
  <2>1. \/ r = R(a, "MORE")
        \/ r = CASE x.rc = "FAIL" -> x
                 [] x.rc \in {"EAGAIN", "WAIT", "NONE"} -> R(b, "MORE")
                 [] OTHER -> R(x.s, "MORE")
    BY Zenon DEF Poll, x, a, b
  <2>2. "FAIL" \notin Awaited
    BY DEF Awaited
  <2> HIDE DEF r, a, b
  <2>. QED
    BY <2>1, <2>2
<1>2. Same(t, a, Inert) /\ Reading(a.call)
  BY <1>0, PhaseForms, PhaseReads
<1>3. Same(x.s, b, Inert) /\ Reading(b.call)
  <2> DEFINE y == x.s
  <2>1. Formed(y) /\ Reading(y.call)
    BY <1>0
  <2> HIDE DEF y
  <2>2. Same(y, [y EXCEPT !.call.phase = "scan"], Inert) /\ Reading([y EXCEPT !.call.phase = "scan"].call)
    BY <2>1, PhaseForms, PhaseReads
  <2>. QED
    BY <2>2 DEF y
<1> HIDE DEF a, b, r
<1>4. CASE r = R(a, "MORE")
  BY <1>0, <1>2, <1>4, InertGoes, ResultOf DEF r
<1>5. CASE r = x /\ x.rc \notin Awaited
  BY <1>0, <1>5, ReadItself DEF r
<1>6. CASE r = R(b, "MORE")
  <2>1. Goes(t, r)
    BY <1>3, <1>6, ReadGoes
  <2>. QED
    BY <1>3, <1>6, <2>1, ResultOf DEF r
<1>7. CASE r = R(x.s, "MORE")
  <2>1. Same(x.s, x.s, Inert)
    BY <1>0, SameSelf
  <2>2. Goes(t, r)
    BY <1>7, <2>1, ReadGoes
  <2>3. r.s = x.s
    BY <1>7, ResultOf
  <2>. QED
    BY <1>0, <2>2, <2>3 DEF r
<1>. QED
  BY <1>1, <1>4, <1>5, <1>6, <1>7

LEMMA AwaitDataGoes ==
  ASSUME NEW t, Sound(t), Reading(t.call), NEW net
  PROVE  LET r == AwaitData(t, net) IN Goes(t, r) /\ Reading(r.s.call)
<1> DEFINE r == AwaitData(t, net)
           x == PacketRead(t, net)
           b == [x.s EXCEPT !.call.phase = "scan"]
<1>0. Formed(t) /\ Formed(x.s) /\ x.s.call = t.call
  BY MovesRead DEF Sound
<1>1. \/ r = x /\ x.rc \notin Awaited
      \/ r = R(b, "MORE")
  <2> HIDE DEF x
  <2>1. r = IF x.rc \in {"FAIL", "EAGAIN", "WAIT", "MORE"} THEN x ELSE R(b, "MORE")
    BY Zenon DEF AwaitData, x, b
  <2> HIDE DEF r, b
  <2>. QED
    BY <2>1 DEF Awaited
<1>3. Same(x.s, b, Inert) /\ Reading(b.call)
  <2> DEFINE y == x.s
  <2>1. Formed(y) /\ Reading(y.call)
    BY <1>0
  <2> HIDE DEF y
  <2>2. Same(y, [y EXCEPT !.call.phase = "scan"], Inert) /\ Reading([y EXCEPT !.call.phase = "scan"].call)
    BY <2>1, PhaseForms, PhaseReads
  <2>. QED
    BY <2>2 DEF y
<1> HIDE DEF b, r
<1>5. CASE r = x /\ x.rc \notin Awaited
  BY <1>0, <1>5, ReadItself DEF r
<1>6. CASE r = R(b, "MORE")
  <2>1. Goes(t, r)
    BY <1>3, <1>6, ReadGoes
  <2>. QED
    BY <1>3, <1>6, <2>1, ResultOf DEF r
<1>. QED
  BY <1>1, <1>5, <1>6

\* A packet of the brigade is read from.
LEMMA WorksHead ==
  ASSUME NEW t, Formed(t), NEW i \in DOMAIN t.packets, t.packets[i].type \notin Awaited, NEW n
  PROVE  Works(t, [t EXCEPT !.packets[i].head = n])
<1> DEFINE q == [t.packets EXCEPT ![i].head = n]
<1>1. /\ ArePackets(q) /\ DOMAIN q = DOMAIN t.packets
      /\ \A j \in DOMAIN q : j # i => q[j] = t.packets[j]
      /\ q[i] = [t.packets[i] EXCEPT !.head = n]
  BY PacketsHead DEF Formed
<1>2. q[i].type = t.packets[i].type
  BY <1>1, FieldsAre DEF Formed, ArePackets, IsPacket
<1> HIDE DEF q
<1>3. AwaitedIn(q) = AwaitedIn(t.packets)
  BY <1>1, <1>2 DEF AwaitedIn, Range
<1>4. [t EXCEPT !.packets[i].head = n] = [t EXCEPT !.packets = q]
  BY DEF q
<1>. QED
  BY <1>1, <1>3, <1>4, WorksBrigade

LEMMA TakeFromWorks ==
  ASSUME NEW t, Formed(t), Reading(t.call), NEW c, NEW i \in DOMAIN t.packets,
         t.packets[i].type \notin Awaited, NEW stream
  PROVE  LET u == TakeFrom(t, c, i, stream) IN Works(t, u) /\ Reading(u.call)
<1> DEFINE p    == t.packets[i]
           want == IF DataLen(p) < t.call.left THEN DataLen(p) ELSE t.call.left
           a == [t EXCEPT !.call.left = @ - want,
                          !.call.got = @ \o [k \in 1..want |-> <<p.type, p.from + p.head + k>>]]
           n == a.packets[i].head + want
           b == [a EXCEPT !.packets[i].head = n]
           d == [a EXCEPT !.packets = RemoveAt(@, i)]
           u == TakeFrom(t, c, i, stream)
<1>1. u = b \/ u = ReceiveWindowAdjust(d, c, Refund(p, stream), FALSE)
  BY DEF TakeFrom
<1> HIDE DEF want
<1>2. Same(t, a, Inert) /\ Reading(a.call) /\ a.packets = t.packets
  BY FieldsAre DEF Formed, Same, Inert, Reading
<1> HIDE DEF a, u
<1>3. Works(t, a)
  BY <1>2, WorksInert
<1>4. Formed(a) /\ i \in DOMAIN a.packets /\ a.packets[i].type \notin Awaited
  BY <1>2, <1>3, WorksForms
<1> HIDE DEF n
<1>5. Works(a, b) /\ Reading(b.call)
  <2>1. Works(a, b)
    BY <1>4, WorksHead
  <2>2. b.call = a.call
    BY <1>4, FieldsAre DEF Formed
  <2>. QED
    BY <1>2, <2>1, <2>2
<1>6. Adds(a, d)
  BY <1>4, AddsGot
<1>7. Formed(d)
  BY <1>6, WorksForms DEF Adds
<1> HIDE DEF b, d, p
<1>8. Adds(d, ReceiveWindowAdjust(d, c, Refund(p, stream), FALSE))
  BY <1>7, AddsAdjust
<1>9. CASE u = b
  BY <1>3, <1>5, <1>9, WorksOn DEF u
<1>10. CASE u = ReceiveWindowAdjust(d, c, Refund(p, stream), FALSE)
  <2>1. Adds(a, u)
    BY <1>4, <1>6, <1>8, <1>10, AddsOn
  <2>. QED
    BY <1>2, <1>3, <2>1, WorksOn DEF Adds, u
<1>. QED
  BY <1>1, <1>9, <1>10

LEMMA ScanGoes ==
  ASSUME NEW t, Sound(t), Reading(t.call), NEW c, NEW stream
  PROVE  LET r == Scan(t, c, stream) IN Goes(t, r) /\ Reading(r.s.call)
<1> DEFINE there == OfStream(t, c, stream)
           i == First(there)
           x == TakeFrom(t, c, i, stream)
           b == [t EXCEPT !.call.phase = "wait"]
           r == Scan(t, c, stream)
<1>0. Formed(t)
  BY DEF Sound
<1>1. (there # {} /\ r = R(x, "MORE")) \/ r = R(t, "") \/ r = R(b, "MORE")
  BY Zenon DEF Scan
<1>2. there # {} => i \in DOMAIN t.packets /\ t.packets[i].type \notin Awaited
  <2>1. there \in SUBSET Nat /\ \A j \in there : j \in DOMAIN t.packets /\ t.packets[j].type \in DataTypes
    BY <1>0, FormedLists DEF OfStream, IsOfStream, DataTypes
  <2> HIDE DEF there
  <2>2. there # {} => i \in there
    BY <2>1, FirstIs
  <2>. QED
    BY <2>1, <2>2 DEF DataTypes, Awaited
<1> HIDE DEF i, there
<1>3. there # {} => Works(t, x) /\ Reading(x.call)
  BY <1>0, <1>2, TakeFromWorks
<1>4. Same(t, b, Inert) /\ Reading(b.call)
  BY <1>0, PhaseForms, PhaseReads
<1> HIDE DEF x, b, r
<1>5. CASE there # {} /\ r = R(x, "MORE")
  BY <1>3, <1>5, GoesR, ResultOf DEF r
<1>6. CASE r = R(t, "")
  BY <1>0, <1>6, WorksSame, GoesR, ResultOf DEF r
<1>7. CASE r = R(b, "MORE")
  BY <1>0, <1>4, <1>7, InertGoes, ResultOf DEF r
<1>. QED
  BY <1>1, <1>5, <1>6, <1>7

LEMMA ReadExGoes ==
  ASSUME NEW t, Sound(t), Reading(t.call), NEW c, NEW stream, NEW net
  PROVE  LET r == ReadEx(t, c, stream, net) IN Goes(t, r) /\ Reading(r.s.call)
<1>1. \/ ReadEx(t, c, stream, net) = Poll(t, net)
      \/ ReadEx(t, c, stream, net) = Scan(t, c, stream)
      \/ ReadEx(t, c, stream, net) = AwaitData(t, net)
  <2>1. t.call.phase = "" \/ t.call.phase = "scan" \/ t.call.phase = "wait"
    BY DEF Reading
  <2>. QED
    BY <2>1 DEF ReadEx
<1>. QED
  BY <1>1, PollGoes, ScanGoes, AwaitDataGoes

\* Data thrown away.
LEMMA FlushGoes ==
  ASSUME NEW t, Sound(t), NEW c, NEW types, types \subseteq DataTypes
  PROVE  Goes(t, FlushEx(t, c, types))
<1> DEFINE T == {p \in Range(t.packets) : ~(p.type \in types /\ p.ch = c)}
           u == [t EXCEPT !.packets = Only(@, T)]
           r == FlushEx(t, c, types)
<1>0. Formed(t)
  BY DEF Sound
<1>1. \E n : r = R(u, "") \/ r = R(ReceiveWindowAdjust(u, c, n, FALSE), "")
  BY DEF FlushEx
<1>2. \A p \in Range(t.packets) \ T : p.type \notin Awaited
  BY DEF DataTypes, Awaited
<1> HIDE DEF T, r
<1>3. Works(t, u)
  BY <1>0, <1>2, WorksOnly DEF Adds
<1>4. Formed(u)
  BY <1>3, WorksForms
<1> HIDE DEF u
<1>5. \A n : Works(t, ReceiveWindowAdjust(u, c, n, FALSE))
  BY <1>0, <1>3, <1>4, AddsAdjust, WorksOn DEF Adds
<1>. QED
  BY <1>1, <1>3, <1>5, GoesR DEF r

LEMMA ExtendedDataGoes ==
  ASSUME NEW t, Sound(t), NEW c, NEW mode
  PROVE  Goes(t, HandleExtendedData(t, c, mode))
<1> DEFINE u == [t EXCEPT !.chan[c].remote.extended_data_ignore_mode = mode]
<1>1. Formed(t)
  BY DEF Sound
<1>2. HandleExtendedData(t, c, mode) = R(u, "")
  BY DEF HandleExtendedData
<1>3. Same(t, u, Inert)
  BY <1>1, FieldsAre DEF Formed, Same, Inert
<1> HIDE DEF u
<1>. QED
  BY <1>1, <1>2, <1>3, InertGoes

-----------------------------------------------------------------------------
(* Writing *)

\* What packet_read says, or MORE; the session as it was left.
LEMMA ReadOn ==
  ASSUME NEW t, Sound(t), NEW net, NEW r,
         LET x == PacketRead(t, net) IN (r = x /\ x.rc \notin Awaited) \/ r = R(x.s, "MORE")
  PROVE  Goes(t, r)
<1> DEFINE x == PacketRead(t, net)
<1>1. Same(x.s, x.s, Inert)
  BY MovesRead, SameSelf
<1>2. CASE r = x /\ x.rc \notin Awaited
  BY <1>2, ReadItself
<1>3. CASE r = R(x.s, "MORE")
  BY <1>1, <1>3, ReadGoes
<1>. QED
  BY <1>2, <1>3

LEMMA AwaitWindowGoes ==
  ASSUME NEW t, Sound(t), NEW c, NEW net
  PROVE  Goes(t, AwaitWindow(t, c, net))
<1> DEFINE x == PacketRead(t, net)
           g == Goto(x.s, "write", c, "idle")
           r == AwaitWindow(t, c, net)
<1>1. \/ r = R(g, "FAIL") /\ x.rc = "FAIL"
      \/ r = x /\ x.rc \notin Awaited
      \/ r = R(x.s, "MORE")
  <2> HIDE DEF x
  <2>1. r = CASE x.rc = "FAIL" -> R(g, "FAIL")
              [] x.rc \in {"EAGAIN", "WAIT"} -> x
              [] OTHER -> R(x.s, "MORE")
    BY Zenon DEF AwaitWindow, x, g
  <2>2. "EAGAIN" \notin Awaited /\ "WAIT" \notin Awaited
    BY DEF Awaited
  <2> HIDE DEF r, g
  <2>. QED
    BY <2>1, <2>2
<1>2. Formed(x.s)
  BY MovesRead
<1> HIDE DEF r
<1>3. CASE r = R(g, "FAIL") /\ x.rc = "FAIL"
  <2>1. Works(x.s, g)
    <3> HIDE DEF x
    <3>. QED
      BY <1>2, WorksGoto DEF KeyOps
  <2>2. x.rc \notin Awaited
    BY <1>3 DEF Awaited
  <2>3. r.s = g
    BY <1>3, ResultOf
  <2> HIDE DEF x, g
  <2>4. Works(x.s, r.s)
    BY <2>1, <2>3
  <2>. QED
    BY <2>2, <2>4, ReadThen DEF r, x
<1>4. CASE (r = x /\ x.rc \notin Awaited) \/ r = R(x.s, "MORE")
  BY <1>4, ReadOn DEF r
<1>. QED
  BY <1>1, <1>3, <1>4

LEMMA WritePieceGoes ==
  ASSUME NEW t, Sound(t), NEW c, NEW stream
  PROVE  Goes(t, WritePiece(t, c, stream))
<1> DEFINE local == t.chan[c].local
           n    == Minimum3(t.call.left, local.window_size, local.packet_size)
           kind == IF stream = 0 THEN "DATA" ELSE "EXTENDED_DATA"
           w == PacketWrite(t, Packet(kind, t.chan[c].remote.id, n, t.call.from, ""))
           g == Goto(w.s, "write", c, "idle")
           b == [w.s EXCEPT !.call.left = @ - n, !.call.from = @ + n,
                         !.chan[c].local.window_size = @ - n,
                         !.chan[c].write_bufwrote = @ + n]
           r == WritePiece(t, c, stream)
<1>0. Formed(t)
  BY DEF Sound
<1>1. r = R(g, "FAIL") \/ r = R(b, "MORE")
  BY DEF WritePiece
<1>2. Works(t, w.s)
  <2>1. kind \notin Asking
    BY DEF Asking, Inits
  <2> HIDE DEF n, kind
  <2>. QED
    BY <1>0, <2>1, SentIs, WorksWrite
<1>3. Formed(w.s)
  BY <1>2, WorksForms
<1> HIDE DEF w, n, r
<1>4. Works(w.s, g)
  BY <1>3, WorksGoto
<1>5. Works(w.s, b)
  <2> DEFINE y == w.s
  <2>1. Same(y, b, Inert)
    BY <1>3, FieldsAre DEF Formed, Same, Inert
  <2> HIDE DEF b
  <2>. QED
    BY <1>3, <2>1, WorksInert
<1> HIDE DEF g, b
<1>6. Works(t, g) /\ Works(t, b)
  BY <1>0, <1>2, <1>4, <1>5, WorksOn
<1>. QED
  BY <1>1, <1>6, GoesR DEF r

LEMMA WriteExGoes ==
  ASSUME NEW t, Sound(t), NEW c, NEW stream, NEW net
  PROVE  Goes(t, WriteEx(t, c, stream, net))
<1> DEFINE g == Goto(t, "write", c, "allocated")
           n == IF At(t, "write", c) = "idle" THEN 0 ELSE g.chan[c].write_bufwrote
           b == [g EXCEPT !.call.phase = "go", !.chan[c].write_bufwrote = n]
           i == Goto(t, "write", c, "idle")
           r == WriteEx(t, c, stream, net)
<1>0. Formed(t)
  BY DEF Sound
<1>1. \/ r = R(t, "FAIL") \/ r = R(b, "MORE") \/ r = R(i, "")
      \/ r = AwaitWindow(t, c, net) \/ r = WritePiece(t, c, stream)
  BY DEF WriteEx
<1>2. Works(t, g) /\ Works(t, i) /\ Works(t, t)
  BY <1>0, WorksGoto, WorksSame DEF KeyOps
<1>3. Formed(g)
  BY <1>2, WorksForms
<1> HIDE DEF g, n, i, r
<1>4. Works(t, b)
  <2>1. Same(g, b, Inert)
    BY <1>3, FieldsAre DEF Formed, Same, Inert
  <2> HIDE DEF b
  <2>. QED
    BY <1>0, <1>2, <1>3, <2>1, WorksInert, WorksOn
<1> HIDE DEF b
<1>. QED
  BY <1>1, <1>2, <1>4, GoesR, AwaitWindowGoes, WritePieceGoes DEF r

\* Sending one packet, after which fields no exchange looks at change.
LEMMA SendEofGoes ==
  ASSUME NEW t, Sound(t), NEW c
  PROVE  Goes(t, SendEof(t, c))
<1> DEFINE w == PacketWrite(t, Packet("EOF", t.chan[c].remote.id, 0, 0, ""))
           b == [w.s EXCEPT !.chan[c].local.eof = TRUE]
           r == SendEof(t, c)
<1>0. Formed(t)
  BY DEF Sound
<1>1. r = R(w.s, "FAIL") \/ r = R(b, "")
  BY DEF SendEof
<1>2. Works(t, w.s)
  BY <1>0, SentIs, WorksWrite DEF Asking, Inits
<1>3. Formed(w.s)
  BY <1>2, WorksForms
<1> HIDE DEF w, r
<1>4. Works(t, b)
  <2> DEFINE y == w.s
  <2>1. Same(y, b, Inert)
    BY <1>3, FieldsAre DEF Formed, Same, Inert
  <2> HIDE DEF b
  <2>. QED
    BY <1>0, <1>2, <1>3, <2>1, WorksInert, WorksOn
<1> HIDE DEF b
<1>. QED
  BY <1>1, <1>2, <1>4, GoesR DEF r

-----------------------------------------------------------------------------
(* Closing *)

LEMMA WaitEofGoes ==
  ASSUME NEW t, Sound(t), NEW c, NEW net
  PROVE  Goes(t, WaitEof(t, c, net))
<1> DEFINE x == PacketRead(t, net)
           r == WaitEof(t, c, net)
<1>1. r = R(t, "") \/ r = (IF x.rc \in {"EAGAIN", "WAIT", "FAIL"} THEN x ELSE R(x.s, "MORE"))
  BY Zenon DEF WaitEof
<1>2. "EAGAIN" \notin Awaited /\ "WAIT" \notin Awaited /\ "FAIL" \notin Awaited
  BY DEF Awaited
<1>3. Works(t, t)
  BY WorksSame DEF Sound
<1> HIDE DEF r, x
<1>4. r = R(t, "") \/ (r = x /\ x.rc \notin Awaited) \/ r = R(x.s, "MORE")
  BY <1>1, <1>2
<1>. QED
  BY <1>3, <1>4, GoesR, ReadOn DEF r, x

LEMMA WaitClosedGoes ==
  ASSUME NEW t, Sound(t), NEW c, NEW net
  PROVE  Goes(t, WaitClosed(t, c, net))
<1> DEFINE x == PacketRead(t, net)
           b == [x.s EXCEPT !.call.phase = "go"]
           r == WaitClosed(t, c, net)
<1>1. \/ r = R(t, "FAIL") \/ r = R(t, "")
      \/ r = x /\ x.rc \notin Awaited
      \/ r = R(x.s, "") /\ x.rc \notin Awaited
      \/ r = R(b, "MORE")
  <2> HIDE DEF x
  <2>1. \/ r = R(t, "FAIL") \/ r = R(t, "")
        \/ r = CASE x.rc \in {"EAGAIN", "WAIT"} -> x
                 [] x.rc \in {"FAIL", "NONE"} -> R(x.s, "")
                 [] OTHER -> R(b, "MORE")
    BY Zenon DEF WaitClosed, x, b
  <2>2. {"EAGAIN", "WAIT", "FAIL", "NONE"} \cap Awaited = {}
    BY DEF Awaited
  <2> HIDE DEF r, b
  <2>. QED
    BY <2>1, <2>2
<1>2. Formed(x.s) /\ Works(t, t)
  BY MovesRead, WorksSame DEF Sound
<1>3. Same(x.s, b, Inert) /\ Same(x.s, x.s, Inert)
  <2> HIDE DEF x
  <2>. QED
    BY <1>2, PhaseForms, SameSelf
<1> HIDE DEF r, b
<1>4. CASE r = R(t, "FAIL") \/ r = R(t, "")
  BY <1>2, <1>4, GoesR DEF r
<1>5. CASE r = x /\ x.rc \notin Awaited
  BY <1>5, ReadItself DEF r
<1>6. CASE r = R(x.s, "") /\ x.rc \notin Awaited
  BY <1>3, <1>6, ReadGoes DEF r
<1>7. CASE r = R(b, "MORE")
  BY <1>3, <1>7, ReadGoes DEF r
<1>. QED
  BY <1>1, <1>4, <1>5, <1>6, <1>7

\* A close may say "" on reading a CLOSE, which begins no exchange.
LEMMA CloseGoes ==
  ASSUME NEW t, Sound(t), NEW c, NEW net
  PROVE  Goes(t, Close(t, c, net)) /\ (Close(t, c, net).rc \in {"", "EAGAIN"} => Close(t, c, net).rc # "MORE")
<1> DEFINE x == PacketRead(t, net)
           a == [t EXCEPT !.chan[c].local.close = TRUE]
           w == PacketWrite(a, Packet("CLOSE", t.chan[c].remote.id, 0, 0, ""))
           b == [w.s EXCEPT !.call.phase = "wait"]
           r == Close(t, c, net)
<1>0. Formed(t) /\ Works(t, t)
  BY WorksSame DEF Sound
<1>1. \/ r = R(t, "")
      \/ r = x /\ x.rc \notin Awaited
      \/ r = R(x.s, "") /\ x.rc = "CLOSE"
      \/ r = R(x.s, "MORE")
      \/ r = R(w.s, "FAIL") \/ r = R(w.s, "") \/ r = R(b, "MORE")
  <2> HIDE DEF x
  <2>1. \/ r = R(t, "")
        \/ r = CASE x.rc \in {"EAGAIN", "WAIT", "FAIL"} -> x
                 [] x.rc = "CLOSE" -> R(x.s, "")
                 [] OTHER -> R(x.s, "MORE")
        \/ r = IF w.rc # "" THEN R(w.s, "FAIL") ELSE IF t.chan[c].remote.close THEN R(w.s, "") ELSE R(b, "MORE")
    BY Zenon DEF Close, x, w, b, a
  <2>2. {"EAGAIN", "WAIT", "FAIL"} \cap Awaited = {}
    BY DEF Awaited
  <2> HIDE DEF r, b, w
  <2>3. CASE r = CASE x.rc \in {"EAGAIN", "WAIT", "FAIL"} -> x
                 [] x.rc = "CLOSE" -> R(x.s, "")
                 [] OTHER -> R(x.s, "MORE")
    BY <2>2, <2>3
  <2>. QED
    BY <2>1, <2>3
<1>2. Formed(x.s)
  BY MovesRead
<1>3. Same(x.s, x.s, Inert)
  BY <1>2, SameSelf
<1>4. Works(t, a)
  <2>1. Same(t, a, Inert)
    BY <1>0, FieldsAre DEF Formed, Same, Inert
  <2> HIDE DEF a
  <2>. QED
    BY <1>0, <2>1, WorksInert
<1>5. Formed(a)
  BY <1>4, WorksForms
<1> HIDE DEF a, r
<1>6. Works(a, w.s)
  BY <1>5, SentIs, WorksWrite DEF Asking, Inits
<1>7. Works(t, w.s) /\ Formed(w.s)
  BY <1>0, <1>4, <1>6, WorksOn, WorksForms
<1> HIDE DEF w
<1>8. Works(t, b)
  <2> DEFINE y == w.s
  <2>1. Formed(y)
    BY <1>7
  <2> HIDE DEF y
  <2>2. Same(y, [y EXCEPT !.call.phase = "wait"], Inert)
    BY <2>1, PhaseForms
  <2>3. Works(y, [y EXCEPT !.call.phase = "wait"])
    BY <2>1, <2>2, WorksInert
  <2>. QED
    BY <1>0, <1>7, <2>3, WorksOn DEF y
<1> HIDE DEF b
<1>9. CASE r = R(t, "") \/ r = R(w.s, "FAIL") \/ r = R(w.s, "") \/ r = R(b, "MORE")
  BY <1>0, <1>7, <1>8, <1>9, GoesR DEF r
<1>10. CASE r = x /\ x.rc \notin Awaited
  BY <1>10, ReadItself DEF r
<1>11. CASE r = R(x.s, "") /\ x.rc = "CLOSE"
  <2>1. x.rc \notin Awaited
    BY <1>11 DEF Awaited
  <2>. QED
    BY <1>3, <1>11, <2>1, ReadGoes DEF r
<1>12. CASE r = R(x.s, "MORE")
  BY <1>3, <1>12, ReadGoes DEF r
<1>. QED
  BY <1>1, <1>9, <1>10, <1>11, <1>12 DEF r

LEMMA FreedWorks ==
  ASSUME NEW t, Formed(t), NEW c
  PROVE  Works(t, Forget(Unlinked(t, c), c))
<1> DEFINE u == Unlinked(t, c)
<1>1. Same(t, u, Inert)
  BY FieldsAre DEF Unlinked, Formed, Same, Inert
<1> HIDE DEF u
<1>2. Works(t, u)
  BY <1>1, WorksInert
<1>3. Formed(u)
  BY <1>2, WorksForms
<1>4. Works(u, Forget(u, c))
  BY <1>3, WorksForget
<1>. QED
  BY <1>2, <1>4, WorksOn DEF u

LEMMA FreeGoes ==
  ASSUME NEW t, Sound(t), NEW c, NEW net
  PROVE  Goes(t, Free(t, c, net))
<1> DEFINE x == Close(t, c, net)
           f == Forget(Unlinked(t, c), c)
           g == Forget(Unlinked(x.s, c), c)
           r == Free(t, c, net)
<1>1. \/ r = R(f, "")
      \/ r = R(g, "") /\ x.rc \in {"", "EAGAIN"}
      \/ r = x
  <2> HIDE DEF x
  <2>1. r = R(f, "") \/ r = IF x.rc \in {"", "EAGAIN"} THEN R(g, "") ELSE x
    BY Zenon DEF Free, x, f, g
  <2> HIDE DEF r, f, g
  <2>. QED
    BY <2>1
<1>2. Goes(t, x)
  BY CloseGoes
<1>3. Works(t, f)
  BY FreedWorks DEF Sound
<1> HIDE DEF x, f
<1>4. Works(x.s, g)
  BY <1>2, FreedWorks DEF Goes
<1> HIDE DEF r, g
<1>5. CASE r = R(f, "")
  BY <1>3, <1>5, GoesR DEF r
<1>6. CASE r = R(g, "") /\ x.rc \in {"", "EAGAIN"}
  <2>1. x.rc # "MORE"
    BY <1>6
  <2>. QED
    BY <1>2, <1>4, <1>6, <2>1, GoesOn DEF r
<1>. QED
  BY <1>1, <1>2, <1>5, <1>6 DEF r

-----------------------------------------------------------------------------
(* Listening, and the session *)

LEMMA ForwardListenGoes ==
  ASSUME NEW t, Sound(t), NEW port, NEW max, NEW net
  PROVE  Goes(t, ForwardListen(t, port, max, net))
<1> DEFINE types == <<"REQUEST_SUCCESS", "REQUEST_FAILURE">>
           q == Request(t, "fwdLstn", 0, Packet("GLOBAL_REQUEST", 0, 0, 0, port), types, Nobody, net)
           listener == [port |-> port, queue |-> <<>>, queue_size |-> 0, queue_maxsize |-> max]
           y == [q.s EXCEPT !.listeners = <<listener>> \o @]
           r == ForwardListen(t, port, max, net)
<1>1. \/ r = R(q.s, q.rc) \/ (q.rc = "" /\ r = R(q.s, "DENIED")) \/ (q.rc = "" /\ r = R(y, ""))
  <2> HIDE DEF q
  <2>1. r = IF q.rc # "" THEN R(q.s, q.rc)
            ELSE IF q.p.type = "REQUEST_FAILURE" THEN R(q.s, "DENIED") ELSE R(y, "")
    BY Zenon DEF ForwardListen, q, y
  <2> HIDE DEF r, y
  <2>. QED
    BY <2>1
<1>2. Goes(t, q)
  BY PairsAre, RequestGoes DEF KeyOps, Asking, Inits
<1>3. Formed(q.s)
  BY <1>2 DEF Goes
<1> HIDE DEF q, listener
<1>4. Works(q.s, q.s) /\ Works(q.s, y)
  <2> DEFINE v == q.s
  <2>1. Same(v, y, Inert)
    BY <1>3, FieldsAre DEF Formed, Same, Inert
  <2> HIDE DEF y
  <2>. QED
    BY <1>3, <2>1, WorksInert, WorksSame
<1> HIDE DEF y, r
<1>5. CASE r = R(q.s, q.rc)
  BY <1>2, <1>5, GoesSame DEF r
<1>6. CASE q.rc = "" /\ (r = R(q.s, "DENIED") \/ r = R(y, ""))
  <2>1. q.rc # "MORE"
    BY <1>6
  <2>. QED
    BY <1>2, <1>4, <1>6, <2>1, GoesOn DEF r
<1>. QED
  BY <1>1, <1>5, <1>6

LEMMA ForwardAcceptGoes ==
  ASSUME NEW t, Sound(t), NEW i, NEW net
  PROVE  Goes(t, ForwardAccept(t, i, net))
<1> DEFINE x == PacketRead(t, net)
           l == x.s.listeners[i]
           y == [x.s EXCEPT !.channels = <<Head(l.queue)>> \o @,
                            !.listeners[i] = [l EXCEPT !.queue = Tail(@), !.queue_size = @ - 1]]
           r == ForwardAccept(t, i, net)
<1>1. \/ r = x /\ x.rc \notin Awaited
      \/ r = R(x.s, "MORE")
      \/ x.rc \notin Awaited /\ (r = R(x.s, "FAIL") \/ r = R(y, ""))
  <2> HIDE DEF x
  <2>1. r = CASE x.rc \in {"EAGAIN", "WAIT"} -> x
              [] x.rc \in {"FAIL", "NONE"} -> IF l.queue = <<>> THEN R(x.s, "FAIL") ELSE R(y, "")
              [] OTHER -> R(x.s, "MORE")
    BY Zenon DEF ForwardAccept, x, y, l
  <2>2. {"EAGAIN", "WAIT", "FAIL", "NONE"} \cap Awaited = {}
    BY DEF Awaited
  <2> HIDE DEF r, y, l
  <2>. QED
    BY <2>1, <2>2
<1>2. Formed(x.s)
  BY MovesRead
<1>3. Same(x.s, y, Inert) /\ Same(x.s, x.s, Inert)
  <2> DEFINE v == x.s
  <2>1. Formed(v)
    BY <1>2
  <2> HIDE DEF x, l
  <2>2. Same(v, y, Inert)
    BY <2>1, FieldsAre DEF Formed, Same, Inert
  <2>. QED
    BY <2>1, <2>2, SameSelf
<1> HIDE DEF y, r
<1>4. CASE (r = x /\ x.rc \notin Awaited) \/ r = R(x.s, "MORE")
  BY <1>4, ReadOn DEF r
<1>5. CASE x.rc \notin Awaited /\ (r = R(x.s, "FAIL") \/ r = R(y, ""))
  BY <1>3, <1>5, ReadGoes DEF r
<1>. QED
  BY <1>1, <1>4, <1>5

LEMMA ForwardCancelGoes ==
  ASSUME NEW t, Sound(t), NEW i, NEW net
  PROVE  Goes(t, ForwardCancel(t, i, net))
<1> DEFINE queue == t.listeners[i].queue
           w == PacketWrite(t, Packet("GLOBAL_REQUEST", 0, 0, 0, "cancel"))
           c == queue[t.call.left]
           f == Free(t, c, net)
           k == t.call.left + 1
           to(u, m) == [u EXCEPT !.call = [Call(m, 0) EXCEPT !.got = <<"cancelling">>]]
           a == to(w.s, 1)
           b == to(f.s, k)
           d == [t EXCEPT !.listeners = RemoveAt(@, i)]
           r == ForwardCancel(t, i, net)
<1>0. Formed(t)
  BY DEF Sound
<1>1. \/ r = R(w.s, "FAIL") \/ r = R(a, "MORE")
      \/ r = f \/ (f.rc # "MORE" /\ r = R(b, "MORE"))
      \/ r = R(d, "")
  <2> HIDE DEF f, w
  <2>1. \/ r = IF w.rc # "" THEN R(w.s, "FAIL") ELSE R(a, "MORE")
        \/ r = IF f.rc \in {"MORE", "WAIT"} THEN f ELSE R(b, "MORE")
        \/ r = R(d, "")
    BY Zenon DEF ForwardCancel, w, f, a, b, d, c, queue, k
  <2> HIDE DEF r, a, b, d
  <2>. QED
    BY <2>1
<1>2. Works(t, w.s)
  BY <1>0, SentIs, WorksWrite DEF Asking, Inits
<1>3. Goes(t, f)
  <2> HIDE DEF c
  <2>. QED
    BY FreeGoes
<1>4. Formed(w.s) /\ Formed(f.s)
  BY <1>2, <1>3, WorksForms DEF Goes
<1> HIDE DEF w, f, k, r
<1>5. \A u, m : Formed(u) => Works(u, to(u, m))
  <2> TAKE u, m
  <2> HAVE Formed(u)
  <2>1. Same(u, to(u, m), Inert)
    BY FieldsAre DEF Formed, Same, Inert
  <2>. QED
    BY <2>1, WorksInert
<1>6. Works(w.s, a) /\ Works(f.s, b)
  BY <1>4, <1>5
<1>7. Works(t, d)
  <2>1. Same(t, d, Inert)
    BY <1>0, FieldsAre DEF Formed, Same, Inert
  <2>. QED
    BY <1>0, <2>1, WorksInert
<1> HIDE DEF a, b, d
<1>8. Works(t, a)
  BY <1>0, <1>2, <1>6, WorksOn
<1>9. CASE r = R(w.s, "FAIL") \/ r = R(a, "MORE") \/ r = R(d, "")
  BY <1>2, <1>7, <1>8, <1>9, GoesR DEF r
<1>10. CASE f.rc # "MORE" /\ r = R(b, "MORE")
  BY <1>3, <1>6, <1>10, GoesOn DEF r
<1>. QED
  BY <1>1, <1>3, <1>9, <1>10 DEF r

LEMMA CallbackGoes ==
  ASSUME NEW t, Sound(t)
  PROVE  Goes(t, CallbackSet(t))
<1> DEFINE u == [t EXCEPT !.x11 = TRUE]
<1>1. Formed(t)
  BY DEF Sound
<1>2. Same(t, u, Inert)
  BY <1>1, FieldsAre DEF Formed, Same, Inert
<1>3. CallbackSet(t) = R(u, "")
  BY DEF CallbackSet
<1> HIDE DEF u
<1>. QED
  BY <1>1, <1>2, <1>3, InertGoes

LEMMA DisconnectGoes ==
  ASSUME NEW t, Sound(t)
  PROVE  Goes(t, Disconnect(t))
<1> DEFINE w == PacketWrite(t, Plain("DISCONNECT"))
<1>1. IsPacket(Plain("DISCONNECT")) /\ Plain("DISCONNECT").type \notin Asking
  BY SentIs DEF Plain, Asking, Inits
<1>2. Works(t, w.s)
  BY <1>1, WorksWrite DEF Sound
<1>3. Disconnect(t) = R(w.s, "")
  BY DEF Disconnect
<1> HIDE DEF w
<1>. QED
  BY <1>2, <1>3, GoesR

\* The operations that neither begin nor end a session.
Ordinary == Ops \ {"startup", "session_free"}

LEMMA OperationIs ==
  ASSUME NEW t, NEW op \in Ops, NEW c, NEW arg, NEW net
  PROVE  LET r == Operation(t, op, c, arg, net)
         IN  /\ op = "startup" => r = Startup(t, net)
             /\ op = "list" => r = UserauthList(t, net)
             /\ op = "password" => r = UserauthPassword(t, arg = "callback", net)
             /\ op = "hostbased" => r = UserauthHostbased(t, net)
             /\ op = "publickey" => r = UserauthPublickey(t, arg, net)
             /\ op = "interactive" => r = UserauthKeyboardInteractive(t, net)
             /\ op = "open" => r = OpenEx(t, "session", net)
             /\ op = "direct" => r = DirectTcpip(t, net)
             /\ op = "setenv" => r = Setenv(t, c, net)
             /\ op = "pty" => r = RequestPty(t, c, net)
             /\ op = "pty_size" => r = RequestPtySize(t, c)
             /\ op = "x11" => r = X11Req(t, c, net)
             /\ op = "exec" => r = ProcessStartup(t, c, net)
             /\ op = "read" => r = ReadEx(t, c, StreamOf(arg), net)
             /\ op = "flush" => r = FlushEx(t, c, TypesOf(arg))
             /\ op = "extended_data" => r = HandleExtendedData(t, c, arg)
             /\ op = "write" => r = WriteEx(t, c, StreamOf(arg), net)
             /\ op = "send_eof" => r = SendEof(t, c)
             /\ op = "wait_eof" => r = WaitEof(t, c, net)
             /\ op = "wait_closed" => r = WaitClosed(t, c, net)
             /\ op = "close" => r = Close(t, c, net)
             /\ op = "free" => r = Free(t, c, net)
             /\ op = "listen" => r = ForwardListen(t, "port", t.call.left, net)
             /\ op = "accept" => r = ForwardAccept(t, 1, net)
             /\ op = "cancel" => r = ForwardCancel(t, 1, net)
             /\ op = "x11_callback" => r = CallbackSet(t)
             /\ op = "disconnect" => r = Disconnect(t)
             /\ op = "session_free" => r = SessionFree(t)
BY DEF Operation

LEMMA OperationGoes ==
  ASSUME NEW t, Sound(t), NEW op \in Ordinary, op = "read" => Reading(t.call), NEW c, NEW arg, NEW net
  PROVE  LET r == Operation(t, op, c, arg, net)
         IN  Goes(t, r) /\ (op = "read" => Reading(r.s.call))
<1> DEFINE r == Operation(t, op, c, arg, net)
<1>0. op \in Ops
  BY DEF Ordinary
<1>1. CASE op \in {"list", "password", "hostbased", "publickey", "interactive"}
  <2>1. Goes(t, r)
    <3> HIDE DEF r
    <3>1. \/ r = UserauthList(t, net) \/ r = UserauthPassword(t, arg = "callback", net)
          \/ r = UserauthHostbased(t, net) \/ r = UserauthPublickey(t, arg, net)
          \/ r = UserauthKeyboardInteractive(t, net)
      BY <1>0, <1>1, OperationIs DEF r
    <3> DEFINE callback == arg = "callback"
    <3>2. Goes(t, UserauthPassword(t, callback, net))
      <4> HIDE DEF callback
      <4>. QED
        BY PasswordGoes
    <3>. QED
      BY <3>1, <3>2, ListGoes, HostbasedGoes, PublickeyGoes, InteractiveGoes
  <2>. QED
    BY <1>1, <2>1
<1>2. CASE op \in {"open", "direct", "setenv", "pty", "pty_size", "x11", "exec"}
  <2>1. Goes(t, r)
    <3> HIDE DEF r
    <3>1. \/ r = OpenEx(t, "session", net) \/ r = OpenEx(t, "direct-tcpip", net)
          \/ r = Verdict(ChannelRequest(t, "setenv", c, "env", net))
          \/ r = Verdict(ChannelRequest(t, "reqPTY", c, "pty-req", net))
          \/ r = RequestPtySize(t, c) \/ r = X11Req(t, c, net)
          \/ r = Verdict(ChannelRequest(t, "process", c, "exec", net))
      BY <1>0, <1>2, OperationIs DEF r, DirectTcpip, Setenv, RequestPty, ProcessStartup
    <3>2. /\ Goes(t, Verdict(ChannelRequest(t, "setenv", c, "env", net)))
          /\ Goes(t, Verdict(ChannelRequest(t, "reqPTY", c, "pty-req", net)))
          /\ Goes(t, Verdict(ChannelRequest(t, "process", c, "exec", net)))
      BY ChannelRequestGoes DEF KeyOps
    <3>. QED
      BY <3>1, <3>2, OpenGoes, RequestPtySizeGoes, X11ReqGoes
  <2>. QED
    BY <1>2, <2>1
<1>3. CASE op = "read"
  <2>1. r = ReadEx(t, c, StreamOf(arg), net)
    BY <1>0, <1>3, OperationIs
  <2> HIDE DEF r
  <2>2. Goes(t, r) /\ Reading(r.s.call)
    BY <1>3, <2>1, ReadExGoes
  <2>. QED
    BY <2>2 DEF r
<1>4. CASE op \in {"flush", "extended_data", "write", "send_eof"}
  <2>1. Goes(t, r)
    <3> HIDE DEF r
    <3>1. \/ r = FlushEx(t, c, TypesOf(arg)) \/ r = HandleExtendedData(t, c, arg)
          \/ r = WriteEx(t, c, StreamOf(arg), net) \/ r = SendEof(t, c)
      BY <1>0, <1>4, OperationIs DEF r
    <3>2. TypesOf(arg) \subseteq DataTypes
      BY DEF TypesOf, DataTypes
    <3>. QED
      BY <3>1, <3>2, FlushGoes, ExtendedDataGoes, WriteExGoes, SendEofGoes
  <2>. QED
    BY <1>4, <2>1
<1>5. CASE op \in {"wait_eof", "wait_closed", "close", "free"}
  <2>1. Goes(t, r)
    <3> HIDE DEF r
    <3>1. \/ r = WaitEof(t, c, net) \/ r = WaitClosed(t, c, net)
          \/ r = Close(t, c, net) \/ r = Free(t, c, net)
      BY <1>0, <1>5, OperationIs DEF r
    <3>. QED
      BY <3>1, WaitEofGoes, WaitClosedGoes, CloseGoes, FreeGoes
  <2>. QED
    BY <1>5, <2>1
<1>6. CASE op \in {"listen", "accept", "cancel", "x11_callback", "disconnect"}
  <2>1. Goes(t, r)
    <3> HIDE DEF r
    <3>1. \/ r = ForwardListen(t, "port", t.call.left, net) \/ r = ForwardAccept(t, 1, net)
          \/ r = ForwardCancel(t, 1, net) \/ r = CallbackSet(t) \/ r = Disconnect(t)
      BY <1>0, <1>6, OperationIs DEF r
    <3>. QED
      BY <3>1, ForwardListenGoes, ForwardAcceptGoes, ForwardCancelGoes, CallbackGoes, DisconnectGoes
  <2>. QED
    BY <1>6, <2>1
<1>. QED
  BY <1>1, <1>2, <1>3, <1>4, <1>5, <1>6 DEF Ordinary, Ops

-----------------------------------------------------------------------------
(* The end of session_startup. *)

LEMMA AddsStart ==
  ASSUME NEW t, Formed(t), NEW u, Same(t, u, {"start"}), "kex" \in u.start <=> "kex" \in t.start
  PROVE  Adds(t, u)
<1>1. /\ DOMAIN u = Fields
      /\ u.keys = t.keys /\ u.gone = t.gone /\ u.kex = t.kex /\ u.kexRc = t.kexRc
      /\ u.burn = t.burn /\ u.methods = t.methods /\ u.inbound = t.inbound
      /\ u.fullpacket = t.fullpacket /\ u.socket_state = t.socket_state
      /\ u.state = t.state /\ u.at = t.at /\ u.call = t.call
      /\ u.packets = t.packets /\ u.outbound = t.outbound
  BY FieldsAre DEF Same
<1>. QED
  BY <1>1, FormedLists DEF Adds, Works, Sends, Formed, At

LEMMA ServesAfter ==
  ASSUME NEW t, Formed(t), NEW a, Adds(t, a), NEW r, Serves(a, r)
  PROVE  Serves(t, r)
<1>1. Goes(t, r)
  BY MovesBefore DEF Adds, Serves, Goes
<1>2. At(a, "startup", 0) = At(t, "startup", 0) /\ a.call = t.call
  BY DEF Adds, At
<1>. QED
  BY <1>1, <1>2 DEF Serves

LEMMA RequireServes ==
  ASSUME NEW t, Sound(t), NEW who, who # "kex", NEW type, type \notin Awaited, NEW net
  PROVE  LET q == Require(t, who, type, net) IN Serves(t, q) /\ Given(q, <<type>>)
<1> DEFINE types == <<type>>
           begun == [t EXCEPT !.start = @ \cup {who}]
           x == PacketRead(begun, net)
           e == [x.s EXCEPT !.start = @ \ {who}]
           asked == Ask(t, types, Nobody)
           again == Ask(e, types, Nobody)
           q == Require(t, who, type, net)
<1>0. Formed(t) /\ Others(types) /\ OneOf(types) = {type}
  <2>1. DOMAIN types = {1} /\ types[1] = type
    OBVIOUS
  <2>2. Formed(t)
    BY DEF Sound
  <2> HIDE DEF types
  <2>3. Others(types)
    BY <2>1 DEF Others
  <2>4. OneOf(types) = {type}
    BY <2>1 DEF OneOf
  <2>. QED
    BY <2>2, <2>3, <2>4
<1> HIDE DEF types
<1>1. \/ q = asked
      \/ q = Not(begun, "FAIL")
      \/ \E rc : q = Not(x.s, rc) /\ rc # "" /\ (x.rc \in Awaited => rc = "MORE")
      \/ q = Not(e, "FAIL") /\ x.rc = "FAIL"
      \/ q = again /\ x.rc = type
  <2> HIDE DEF asked, again, x
  <2>1. \/ q = asked
        \/ q = Not(begun, "FAIL")
        \/ q = CASE x.rc \in {"EAGAIN", "WAIT"} -> Not(x.s, x.rc)
                 [] x.rc = "FAIL" -> Not(e, "FAIL")
                 [] x.rc = type   -> again
                 [] OTHER         -> Not(x.s, "MORE")
    BY Zenon DEF Require, asked, again, x, e, begun, types
  <2> HIDE DEF q, e, begun
  <2>2. CASE x.rc \in Awaited
    <3>1. x.rc # "WAIT" /\ x.rc # "EAGAIN" /\ x.rc # "FAIL" /\ x.rc # type
      BY <2>2 DEF Awaited
    <3>. QED
      BY <2>1, <3>1
  <2>3. CASE x.rc \notin Awaited
    <3>1. CASE x.rc \in {"EAGAIN", "WAIT"}
      <4>1. x.rc # "" /\ x.rc # "FAIL"
        BY <3>1
      <4>. QED
        BY <2>1, <2>3, <3>1, <4>1
    <3>2. CASE x.rc \notin {"EAGAIN", "WAIT"}
      BY <2>1, <2>3, <3>2
    <3>. QED
      BY <3>1, <3>2
  <2>. QED
    BY <2>2, <2>3
<1>2. Same(t, begun, {"start"}) /\ begun.start = t.start \cup {who}
  BY <1>0, FieldsAre DEF Formed, Same
<1> HIDE DEF begun
<1>3. Adds(t, begun)
  BY <1>0, <1>2, AddsStart
<1>4. Sound(begun)
  BY <1>3, SoundOn DEF Adds
<1>5. Formed(x.s) /\ Formed(begun)
  BY <1>4, MovesRead DEF Sound
<1>6. Adds(x.s, e)
  <2> DEFINE y == x.s
  <2>1. Same(y, e, {"start"}) /\ e.start = y.start \ {who}
    BY <1>5, FieldsAre DEF Formed, Same
  <2> HIDE DEF x, e
  <2>. QED
    BY <1>5, <2>1, AddsStart
<1>7. Adds(x.s, x.s) /\ Adds(begun, begun)
  BY <1>5, WorksSame DEF Adds
<1> HIDE DEF e, q
<1>8. CASE q = asked
  <2>1. Adds(t, asked.s) /\ Given(asked, types)
    BY <1>0, AddsAsk
  <2>. QED
    BY <1>8, <2>1, ServesWorks DEF q, types
<1>9. CASE q = Not(begun, "FAIL")
  <2>1. q.s = begun /\ q.rc = "FAIL" /\ Given(q, types)
    BY <1>9, GivenNot
  <2>. QED
    BY <1>3, <2>1, ServesWorks DEF q, types
<1>10. ASSUME NEW rc, q = Not(x.s, rc), rc # "", x.rc \in Awaited => rc = "MORE"
       PROVE  Serves(t, q) /\ Given(q, types)
  <2>1. q.s = x.s /\ q.rc = rc /\ Given(q, types)
    BY <1>10, GivenNot
  <2>2. Serves(begun, q)
    BY <1>4, <1>7, <1>10, <2>1, ReadServes
  <2>. QED
    BY <1>0, <1>3, <2>1, <2>2, ServesAfter
<1>11. CASE q = Not(e, "FAIL") /\ x.rc = "FAIL"
  <2>1. q.s = e /\ q.rc = "FAIL" /\ Given(q, types)
    BY <1>11, GivenNot
  <2>2. x.rc \notin Awaited
    BY <1>11 DEF Awaited
  <2>3. Serves(begun, q)
    BY <1>4, <1>6, <2>1, <2>2, ReadServes
  <2>. QED
    BY <1>0, <1>3, <2>1, <2>3, ServesAfter DEF q, types
<1>12. CASE q = again /\ x.rc = type
  <2>1. Formed(e)
    BY <1>6, WorksForms DEF Adds
  <2>2. Adds(e, again.s) /\ Given(again, types)
    BY <1>0, <2>1, AddsAsk
  <2>3. Adds(x.s, again.s)
    BY <1>5, <1>6, <2>2, AddsOn
  <2>4. Adds(x.s, q.s) /\ x.rc \notin Awaited
    BY <1>12, <2>3
  <2>5. Serves(begun, q)
    BY <1>4, <2>4, ReadServes
  <2>. QED
    BY <1>0, <1>3, <1>12, <2>2, <2>5, ServesAfter DEF q, types
<1>. QED
  BY <1>1, <1>8, <1>9, <1>10, <1>11, <1>12 DEF q, types

LEMMA StartupGoes ==
  ASSUME NEW t, Sound(t), At(t, "startup", 0) \in {"sent2", "sent4"}, NEW net
  PROVE  LET r == Startup(t, net)
         IN  /\ Goes(t, r)
             /\ r.rc \notin {"", "FAIL"} => At(r.s, "startup", 0) \in {"sent2", "sent4"}
<1> DEFINE r == Startup(t, net)
           w == PacketWrite(t, Plain("SERVICE_REQUEST"))
           g == Goto(w.s, "startup", 0, "sent4")
           q == Require(t, "startup", "SERVICE_ACCEPT", net)
           i == Goto(q.s, "startup", 0, "idle")
<1>0. Formed(t)
  BY DEF Sound
<1>1. \/ r = R(g, "MORE") \/ r = R(w.s, "FAIL")
      \/ r = R(q.s, q.rc)
      \/ q.rc = "" /\ (r = R(q.s, "FAIL") \/ r = R(i, ""))
  <2> HIDE DEF w, q
  <2>1. \/ r = IF w.rc = "" THEN R(g, "MORE") ELSE R(w.s, "FAIL")
        \/ r = IF q.rc # "" THEN R(q.s, q.rc) ELSE IF q.p.what = "other service" THEN R(q.s, "FAIL") ELSE R(i, "")
    BY DEF Startup, RequestService, AwaitService, w, q
  <2> HIDE DEF r, g, i
  <2>. QED
    BY <2>1
<1>2. Works(t, w.s)
  <2>1. IsPacket(Plain("SERVICE_REQUEST")) /\ Plain("SERVICE_REQUEST").type \notin Asking
    BY SentIs DEF Plain, Asking, Inits
  <2>. QED
    BY <1>0, <2>1, WorksWrite
<1>3. Formed(w.s)
  BY <1>2, WorksForms
<1>4. Serves(t, q)
  BY RequireServes DEF Awaited
<1> HIDE DEF w, q, r
<1>5. Works(w.s, g) /\ At(g, "startup", 0) = "sent4"
  BY <1>3, WorksGoto, AtGoto DEF KeyOps
<1>6. Goes(t, q) /\ At(q.s, "startup", 0) = At(t, "startup", 0) /\ Formed(q.s)
  BY <1>4 DEF Serves, Goes
<1>7. Works(q.s, i) /\ Works(q.s, q.s)
  BY <1>6, WorksGoto, WorksSame
<1> HIDE DEF g, i
<1>8. CASE r = R(g, "MORE")
  <2>1. Works(t, g)
    BY <1>0, <1>2, <1>5, WorksOn
  <2>2. r.s = g
    BY <1>8, ResultOf
  <2>. QED
    BY <1>5, <1>8, <2>1, <2>2, GoesR DEF r
<1>9. CASE r = R(w.s, "FAIL")
  <2>1. Goes(t, r)
    BY <1>2, <1>9, GoesR
  <2>2. r.rc = "FAIL"
    BY <1>9, ResultOf
  <2>. QED
    BY <2>1, <2>2 DEF r
<1>10. CASE r = R(q.s, q.rc)
  <2>1. Goes(t, r)
    BY <1>6, <1>10, GoesSame
  <2>2. r.s = q.s
    BY <1>10 DEF R
  <2>. QED
    BY <1>6, <2>1, <2>2 DEF r
<1>11. CASE q.rc = "" /\ (r = R(q.s, "FAIL") \/ r = R(i, ""))
  <2>1. q.rc # "MORE"
    BY <1>11
  <2>2. Goes(t, r)
    BY <1>6, <1>7, <1>11, <2>1, GoesOn
  <2>3. r.rc \in {"", "FAIL"}
    <3>1. CASE r = R(q.s, "FAIL")
      <4>1. r.rc = "FAIL"
        BY <3>1, ResultOf
      <4>. QED
        BY <4>1
    <3>2. CASE r = R(i, "")
      <4>1. r.rc = ""
        BY <3>2, ResultOf
      <4>. QED
        BY <4>1
    <3>. QED
      BY <1>11, <3>1, <3>2
  <2>. QED
    BY <2>2, <2>3 DEF r
<1>. QED
  BY <1>1, <1>8, <1>9, <1>10, <1>11

-----------------------------------------------------------------------------
(* Between two exchanges. *)

LEMMA NotEmpty ==
  ASSUME NEW q, IsList(q)
  PROVE  q # <<>> <=> 1 \in DOMAIN q
BY ListHas, EmptySeq

LEMMA OpenSends ==
  ASSUME NEW t, Formed(t), NEW u, Formed(u), Sends(t, u), NEW v, Open(t.outbound, v, t.keys)
  PROVE  Open(u.outbound, v, t.keys)
<1> DEFINE o == t.outbound
           x == u.outbound
           k == t.keys
<1>1. /\ Len(o) \in Nat /\ DOMAIN o = 1..Len(o) /\ Len(x) \in Nat /\ DOMAIN x = 1..Len(x)
      /\ Len(o) <= Len(x) /\ IsList(o) /\ IsList(x)
  BY FormedLists DEF Sends, Formed, ArePackets
<1>2. /\ \A j \in DOMAIN o : j \in DOMAIN x /\ x[j] = o[j]
      /\ \A j \in DOMAIN x : j \notin DOMAIN o => x[j].key = k /\ x[j].type \notin Asking
  BY <1>1 DEF Sends
<1>3. o # <<>> => x # <<>> /\ x[1] = o[1]
  BY <1>1, <1>2, NotEmpty
<1>4. Open(o, v, k)
  OBVIOUS
<1> HIDE DEF o, x, k
<1>5. CASE Plainly(o, v, k)
  BY <1>2, <1>5 DEF Plainly, Open, x, k
<1>6. CASE Switching(o, v, k) /\ ~v.offered
  <2>1. \A j \in DOMAIN x : j # 1 => x[j].key = k /\ x[j].type \notin Asking
    BY <1>2, <1>6 DEF Switching
  <2>. QED
    BY <1>3, <1>6, <2>1 DEF Switching, Open, x, k
<1>. QED
  BY <1>4, <1>5, <1>6 DEF Open

LEMMA TailIs ==
  ASSUME NEW q, IsList(q), q # <<>>
  PROVE  /\ IsList(Tail(q)) /\ Len(q) \in Nat /\ Len(q) >= 1 /\ DOMAIN q = 1..Len(q) /\ 1 \in DOMAIN q
         /\ Len(Tail(q)) = Len(q) - 1
         /\ \A j \in DOMAIN Tail(q) : j + 1 \in DOMAIN q /\ Tail(q)[j] = q[j + 1] /\ j \in Nat /\ j >= 1
         /\ Head(q) = q[1]
BY ListTail

LEMMA FlowTail ==
  ASSUME NEW q, IsList(q), q # <<>>, NEW m \in Nat, NEW n \in Nat, m + 1 >= n, NEW v, NEW k, Flow(q, n, v, k)
  PROVE  Flow(Tail(q), m, v, k)
<1> DEFINE x == Tail(q)
<1>1. /\ Len(x) = Len(q) - 1 /\ Len(q) \in Nat
      /\ \A j \in DOMAIN x : j + 1 \in DOMAIN q /\ x[j] = q[j + 1] /\ j \in Nat
  BY TailIs
<1> HIDE DEF x
<1>2. \A j \in DOMAIN x : j > m => j + 1 > n /\ (j + 1 = Len(q) => j = Len(x))
  BY <1>1
<1>3. Flow(x, m, v, k)
  BY <1>1, <1>2 DEF Flow
<1>. QED
  BY <1>3 DEF x

LEMMA NoneAwaitedIs ==
  ASSUME NEW t, NEW u, AwaitedIn(t.packets) = AwaitedIn(u.packets), NoneAwaited(t)
  PROVE  NoneAwaited(u)
BY DEF AwaitedIn, NoneAwaited, Range

LEMMA CalmWorks ==
  ASSUME NEW t, Formed(t), NEW u, Works(t, u), NEW v, Calm(t, v)
  PROVE  Calm(u, v)
<1>1. Open(u.outbound, v, u.keys)
  BY OpenSends DEF Works, Calm
<1>2. NoneAwaited(u)
  BY NoneAwaitedIs DEF Works, Calm
<1>3. Idle(u)
  BY DEF Works, Calm, Idle, ExchangeStates
<1>4. Flow(u.inbound, 0, v, u.keys)
  BY DEF Works, Calm
<1>. QED
  BY <1>1, <1>2, <1>3, <1>4 DEF Calm

LEMMA PoppedIs ==
  ASSUME NEW t, Formed(t), t.inbound # <<>>
  PROVE  LET u == Popped(t)
         IN  /\ Formed(u) /\ u.inbound = Tail(t.inbound)
             /\ u.keys = t.keys /\ u.gone = t.gone /\ u.kex = t.kex /\ u.kexRc = t.kexRc
             /\ u.burn = t.burn /\ u.methods = t.methods /\ u.outbound = t.outbound
             /\ u.fullpacket = t.fullpacket /\ u.socket_state = t.socket_state
             /\ u.state = t.state /\ u.start = t.start /\ u.at = t.at
             /\ u.packets = t.packets /\ u.call = t.call /\ \A op, c : At(u, op, c) = At(t, op, c)
<1> DEFINE u == Popped(t)
<1>1. Formed(u) /\ Same(t, u, {"inbound"}) /\ u.inbound = Tail(t.inbound)
  BY PoppedForms
<1> HIDE DEF u
<1>2. u.at = t.at
  BY <1>1, FieldsAre DEF Same
<1>3. \A op, c : At(u, op, c) = At(t, op, c)
  BY <1>2 DEF At
<1>. QED
  BY <1>1, <1>3, FieldsAre DEF Same, u

LEMMA CalmPopped ==
  ASSUME NEW t, Formed(t), t.inbound # <<>>, NEW v, Calm(t, v)
  PROVE  Calm(Popped(t), v)
<1> DEFINE u == Popped(t)
<1>1. /\ u.inbound = Tail(t.inbound) /\ u.keys = t.keys /\ u.outbound = t.outbound
      /\ u.state = t.state /\ u.start = t.start /\ u.packets = t.packets
      /\ \A op, c : At(u, op, c) = At(t, op, c)
  BY PoppedIs
<1> HIDE DEF u
<1>2. IsList(t.inbound) /\ Flow(t.inbound, 0, v, t.keys)
  BY DEF Calm, Formed, ArePackets
<1>3. Flow(Tail(t.inbound), 0, v, t.keys)
  BY <1>2, FlowTail
<1>4. Flow(u.inbound, 0, v, u.keys)
  BY <1>1, <1>3
<1>. QED
  BY <1>1, <1>4 DEF Calm, Idle, NoneAwaited, u

LEMMA HungWorks ==
  ASSUME NEW t, NEW u, Works(t, u), NEW v, Hung(t, v)
  PROVE  Hung(u, v)
BY DEF Works, Hung

LEMMA HungPopped ==
  ASSUME NEW t, Formed(t), t.inbound # <<>>, NEW v, Hung(t, v)
  PROVE  Hung(Popped(t), v)
<1> DEFINE u == Popped(t)
<1>1. /\ u.inbound = Tail(t.inbound) /\ u.gone = t.gone
      /\ u.fullpacket = t.fullpacket /\ u.socket_state = t.socket_state
  BY PoppedIs
<1> HIDE DEF u
<1>2. \A j \in DOMAIN u.inbound : j + 1 \in DOMAIN t.inbound /\ u.inbound[j] = t.inbound[j + 1]
  BY <1>1, TailIs DEF Formed, ArePackets
<1>. QED
  BY <1>1, <1>2 DEF Hung, u

LEMMA AppendedIs ==
  ASSUME NEW q, IsList(q), NEW e
  PROVE  LET x == Append(q, e)
         IN  /\ IsList(x) /\ Len(q) + 1 \in DOMAIN x /\ x[Len(q) + 1] = e /\ Len(x) = Len(q) + 1
             /\ \A j \in DOMAIN q : j \in DOMAIN x /\ x[j] = q[j] /\ j # Len(q) + 1
             /\ \A j \in DOMAIN x : j # Len(q) + 1 => j \in DOMAIN q /\ x[j] = q[j]
<1> DEFINE x == Append(q, e)
<1>1. /\ IsList(x) /\ Len(q) \in Nat /\ DOMAIN q = 1..Len(q)
      /\ Len(x) = Len(q) + 1 /\ DOMAIN x = 1..(Len(q) + 1)
      /\ \A j \in 1..Len(q) : x[j] = q[j]
      /\ x[Len(q) + 1] = e
  BY ListAppended
<1> HIDE DEF x
<1>2. \A j \in DOMAIN x : j # Len(q) + 1 => j \in DOMAIN q /\ x[j] = q[j]
  BY <1>1
<1>3. \A j \in DOMAIN q : j \in DOMAIN x /\ x[j] = q[j] /\ j # Len(q) + 1
  BY <1>1
<1>. QED
  BY <1>1, <1>2, <1>3 DEF x

\* A list of one has an empty tail.
LEMMA OneTail ==
  ASSUME NEW q, IsList(q), Len(q) = 1
  PROVE  Tail(q) = <<>>
<1> DEFINE x == Tail(q)
<1>1. q # <<>>
  OBVIOUS
<1>2. IsList(x) /\ Len(x) = Len(q) - 1
  BY <1>1, ListTail
<1> HIDE DEF x
<1>3. Len(x) = 0
  BY <1>2
<1>4. x = <<>>
  BY <1>2, <1>3, ListHas, EmptySeq
<1>. QED
  BY <1>4 DEF x

LEMMA FlowFirst ==
  ASSUME NEW q, 1 \in DOMAIN q, NEW v, NEW k, Flow(q, 0, v, k)
  PROVE  /\ q[1].key = k /\ v.keysOut = k
         /\ q[1].type \in Awaited => q[1].type = "KEXINIT" /\ Len(q) = 1 /\ q[1].n = 1 /\ v.offered
<1>1. 1 > 0
  OBVIOUS
<1>. QED
  BY <1>1 DEF Flow

LEMMA CalmSound ==
  ASSUME NEW t, Formed(t), NEW v, Calm(t, v), Hung(t, v), t.kexRc = ""
  PROVE  Sound(t)
<1>1. t.inbound # <<>> => t.inbound[1].key = t.keys /\ (t.inbound[1].type = "DISCONNECT" => t.gone)
  <2> SUFFICES ASSUME t.inbound # <<>>
               PROVE  t.inbound[1].key = t.keys /\ (t.inbound[1].type = "DISCONNECT" => t.gone)
    OBVIOUS
  <2>1. 1 \in DOMAIN t.inbound
    BY NotEmpty DEF Formed, ArePackets
  <2>2. Flow(t.inbound, 0, v, t.keys)
    BY DEF Calm
  <2>3. t.inbound[1].key = t.keys
    <3> DEFINE q == t.inbound
               k == t.keys
    <3>1. 1 \in DOMAIN q /\ Flow(q, 0, v, k)
      BY <2>1, <2>2
    <3> HIDE DEF q, k
    <3>2. q[1].key = k
      BY <3>1, FlowFirst
    <3>. QED
      BY <3>2 DEF q, k
  <2>. QED
    BY <2>1, <2>3 DEF Hung
<1>2. "EXCHANGING_KEYS" \notin t.state
  BY DEF Calm, Idle, ExchangeStates
<1>. QED
  BY <1>1, <1>2 DEF Sound, ExchangeStates, Hung

LEMMA HungBrigade ==
  ASSUME NEW t, Formed(t), NEW p, IsPacket(p), NEW v, Hung(t, v)
  PROVE  Hung(AddToBrigade(t, p), v)
<1> DEFINE u == AddToBrigade(t, p)
<1>1. Same(t, u, {"packets", "at", "kex"})
  BY BrigadeForms
<1> HIDE DEF u
<1>2. u.gone = t.gone /\ u.fullpacket = t.fullpacket /\ u.socket_state = t.socket_state /\ u.inbound = t.inbound
  BY <1>1, FieldsAre DEF Same
<1>. QED
  BY <1>2 DEF Hung, u

\* The server's KEXINIT has been read: the exchange begins.
LEMMA CalmRekeyed ==
  ASSUME NEW t, Formed(t), NEW v, Calm(t, v), Hung(t, v), t.kex = "none", t.kexRc = "", NEW u, Rekeyed(t, u)
  PROVE  u.kex = "add" /\ u.kexRc = "" /\ u.keys = t.keys /\ Exchanging(u, v) /\ Hung(u, v)
<1> DEFINE p == Head(t.inbound)
<1>1. PICK a : Works(t, a) /\ Works(AddToBrigade(Popped(a), p), u) /\ u.packets = Append(a.packets, p)
  BY DEF Rekeyed
<1>2. /\ t.inbound # <<>> /\ p.type \in Awaited /\ p = t.inbound[1] /\ 1 \in DOMAIN t.inbound
      /\ Len(t.inbound) \in Nat /\ DOMAIN t.inbound = 1..Len(t.inbound) /\ IsPacket(p)
  BY PacketsTail, FormedLists DEF Rekeyed, Formed
<1>3. p.type = "KEXINIT" /\ p.n = 1 /\ v.offered /\ Len(t.inbound) = 1
  BY <1>2, FlowFirst DEF Calm
<1>3a. Len(t.inbound) = 1
  BY <1>3
<1> HIDE DEF p
<1>4. Formed(a) /\ Calm(a, v) /\ Hung(a, v) /\ a.inbound = t.inbound /\ a.keys = t.keys /\ a.kex = "none" /\ a.kexRc = ""
  BY <1>1, CalmWorks, HungWorks DEF Works
<1> DEFINE d == Popped(a)
<1>5. Formed(d) /\ Calm(d, v) /\ Hung(d, v) /\ d.inbound = Tail(t.inbound) /\ d.keys = t.keys
      /\ d.kexRc = "" /\ d.packets = a.packets
  BY <1>2, <1>4, CalmPopped, HungPopped, PoppedIs
<1> HIDE DEF d
<1>6. d.inbound = <<>>
  <2>1. IsList(t.inbound)
    BY DEF Formed, ArePackets
  <2>2. Tail(t.inbound) = <<>>
    BY <1>3a, <2>1, OneTail
  <2>. QED
    BY <1>5, <2>2
<1> DEFINE b == AddToBrigade(d, p)
<1>7. "EXCHANGING_KEYS" \notin d.state
  BY <1>5 DEF Calm, Idle, ExchangeStates
<1>7a. p.type = "KEXINIT" /\ "EXCHANGING_KEYS" \notin d.state
  BY <1>3, <1>7
<1>8. /\ Formed(b) /\ Same(d, b, {"packets", "at", "kex"}) /\ b.packets = Append(d.packets, p)
      /\ b.kex = "add" /\ At(b, "kex", 0) = "idle"
      /\ \A o, e : <<o, e>> # <<"kex", 0>> => At(b, o, e) = At(d, o, e)
  <2>1. Formed(d) /\ IsPacket(p)
    BY <1>2, <1>5
  <2> HIDE DEF b
  <2>2. LET u0 == AddToBrigade(d, p)
        IN  /\ Formed(u0) /\ Same(d, u0, {"packets", "at", "kex"})
            /\ u0.packets = Append(d.packets, p)
            /\ IF p.type = "KEXINIT" /\ "EXCHANGING_KEYS" \notin d.state
                  THEN /\ u0.kex = "add" /\ At(u0, "kex", 0) = "idle"
                       /\ \A o, e : <<o, e>> # <<"kex", 0>> => At(u0, o, e) = At(d, o, e)
                  ELSE u0.kex = d.kex /\ u0.at = d.at
    BY <2>1, BrigadeForms, Zenon
  <2>. QED
    BY <2>2, <1>7a, Zenon DEF b
<1>9. Hung(b, v)
  BY <1>2, <1>5, HungBrigade
<1> HIDE DEF b
<1>10. /\ b.keys = t.keys /\ b.state = d.state /\ b.start = d.start /\ b.inbound = <<>>
       /\ b.outbound = d.outbound /\ b.kexRc = ""
  BY <1>5, <1>6, <1>8, FieldsAre DEF Same
<1>11. Idle(b) /\ Open(b.outbound, v, b.keys) /\ Flow(t.inbound, 0, v, t.keys)
  <2>1. Idle(d) /\ Open(d.outbound, v, d.keys)
    BY <1>5 DEF Calm
  <2>2. \A o \in KeyOps : At(b, o, 0) = "idle"
    <3> SUFFICES ASSUME NEW o \in KeyOps PROVE At(b, o, 0) = "idle"
      OBVIOUS
    <3>1. At(d, o, 0) = "idle"
      BY <2>1 DEF Idle
    <3>2. CASE o = "kex"
      BY <1>8, <3>2
    <3>3. CASE o # "kex"
      <4>1. <<o, 0>> # <<"kex", 0>>
        BY <3>3
      <4>. QED
        BY <1>8, <3>1, <4>1
    <3>. QED
      BY <3>2, <3>3
  <2>3. Idle(b)
    BY <1>10, <2>1, <2>2 DEF Idle
  <2>4. Flow(t.inbound, 0, v, t.keys)
    BY DEF Calm
  <2>5. b.keys = d.keys
    BY <1>5, <1>10
  <2>. QED
    BY <1>10, <2>1, <2>3, <2>4, <2>5
<1>12. Works(b, u)
  BY <1>1 DEF b, d
<1>13. /\ u.kex = "add" /\ u.kexRc = "" /\ u.keys = t.keys /\ u.inbound = <<>> /\ Hung(u, v) /\ Formed(u)
  BY <1>8, <1>9, <1>10, <1>12, HungWorks DEF Works
<1>14. Idle(u)
  BY <1>11, <1>12 DEF Works, Idle, ExchangeStates
<1>15. Plainly(u.outbound, v, u.keys)
  <2>1. Open(u.outbound, v, u.keys)
    BY <1>8, <1>10, <1>11, <1>12, <1>13, OpenSends DEF Works
  <2>. QED
    BY <1>3, <2>1 DEF Open
<1>16. Called(u)
  <2> DEFINE q == a.packets
             x == Append(q, p)
  <2>1. NoneAwaited(a) /\ u.packets = x
    BY <1>1, <1>4 DEF Calm, p
  <2>2. ArePackets(q) /\ \A j \in DOMAIN q : q[j].type \notin Awaited
    BY <1>4, <2>1 DEF NoneAwaited, Formed
  <2>3. /\ Len(q) + 1 \in DOMAIN x /\ x[Len(q) + 1] = p
        /\ \A j \in DOMAIN x : j # Len(q) + 1 => j \in DOMAIN q /\ x[j] = q[j]
    <3>1. IsList(q)
      BY <2>2 DEF ArePackets
    <3> HIDE DEF q
    <3>. QED
      BY <3>1, AppendedIs
  <2> HIDE DEF x, q
  <2>4. Len(q) + 1 \in DOMAIN x /\ \A j \in DOMAIN x : j # Len(q) + 1 => x[j].type \notin Awaited
    BY <2>2, <2>3, Zenon
  <2>5. \E i \in DOMAIN u.packets :
            /\ u.packets[i].type = "KEXINIT" /\ u.packets[i].n = 1
            /\ \A j \in DOMAIN u.packets : j # i => u.packets[j].type \notin Awaited
    <3>1. x[Len(q) + 1].type = "KEXINIT" /\ x[Len(q) + 1].n = 1
      BY <1>3, <2>3
    <3>. QED
      BY <2>1, <2>4, <3>1, Zenon
  <2>6. u.kex # "startup"
    BY <1>13
  <2>. QED
    BY <1>13, <2>5, <2>6 DEF Called
<1>17. Holding(v, u.keys)
  BY <1>3, <1>11, <1>13 DEF Holding, Flow
<1>18. Exchanging(u, v)
  <2>1. At(u, "kex", 0) = "idle" /\ (\A op \in KeyOps : At(u, op, 0) = "idle") /\ "kex" \notin u.start
    BY <1>14 DEF Idle, KeyOps
  <2>2. ToOffer(u, v)
    BY <1>13, <1>14, <1>15, <1>16, <1>17, <2>1 DEF ToOffer
  <2>. QED
    BY <2>1, <2>2 DEF Exchanging
<1>. QED
  BY <1>13, <1>18

\* What an operation makes of it.
LEMMA CalmGoes ==
  ASSUME NEW t, Formed(t), NEW v, Calm(t, v), Hung(t, v), t.kex = "none", t.kexRc = "", NEW r, Goes(t, r)
  PROVE  /\ Formed(r.s) /\ Hung(r.s, v) /\ r.s.keys = t.keys /\ r.s.kexRc = ""
         /\ \/ r.s.kex = "none" /\ Calm(r.s, v)
            \/ r.rc = "MORE" /\ r.s.kex = "add" /\ Exchanging(r.s, v)
<1> DEFINE u == r.s
           rc == r.rc
<1>1. Formed(u) /\ Moves(t, rc, u)
  BY DEF Goes
<1> HIDE DEF u, rc
<1>2. CASE Works(t, u)
  <2>1. u.kex = "none" /\ u.kexRc = "" /\ u.keys = t.keys
    BY <1>2 DEF Works
  <2>. QED
    BY <1>1, <1>2, <2>1, CalmWorks, HungWorks DEF u, rc
<1>3. CASE t.inbound # <<>> /\ \E a : Works(t, a) /\ Works(Popped(a), u)
  <2>1. PICK a : Works(t, a) /\ Works(Popped(a), u)
    BY <1>3
  <2>2. /\ Formed(a) /\ Calm(a, v) /\ Hung(a, v) /\ a.inbound = t.inbound
        /\ a.kex = "none" /\ a.kexRc = "" /\ a.keys = t.keys
    BY <2>1, CalmWorks, HungWorks DEF Works
  <2>3. /\ Formed(Popped(a)) /\ Calm(Popped(a), v) /\ Hung(Popped(a), v)
        /\ Popped(a).kex = "none" /\ Popped(a).kexRc = "" /\ Popped(a).keys = t.keys
    BY <1>3, <2>2, CalmPopped, HungPopped, PoppedIs
  <2>4. u.kex = "none" /\ u.kexRc = "" /\ u.keys = t.keys
    BY <2>1, <2>3 DEF Works
  <2>. QED
    BY <1>1, <2>1, <2>3, <2>4, CalmWorks, HungWorks DEF u, rc
<1>4. CASE rc = "MORE" /\ Rekeyed(t, u)
  <2>1. u.kex = "add" /\ u.kexRc = "" /\ u.keys = t.keys /\ Exchanging(u, v) /\ Hung(u, v)
    BY <1>4, CalmRekeyed
  <2>. QED
    BY <1>1, <1>4, <2>1 DEF u, rc
<1>. QED
  BY <1>1, <1>2, <1>3, <1>4 DEF Moves

-----------------------------------------------------------------------------
(* Packets of an exchange. *)

KexPackets == Awaited \cup {"GUESS"}

\* packet_add has failed on a connection that is lost.
Dropped(t, x) ==
  /\ x.rc = "FAIL" /\ t.gone /\ Formed(x.s) /\ Same(t, x.s, {"inbound", "fullpacket"})
  /\ x.s.inbound = t.inbound \/ (x.s.fullpacket # "" /\ t.inbound # <<>> /\ x.s.inbound = Tail(t.inbound))

\* The packet at the head of inbound is in the brigade.
Came(t, x) ==
  /\ t.inbound # <<>> /\ x.rc = t.inbound[1].type /\ Formed(x.s)
  /\ Same(t, x.s, {"inbound", "packets", "fullpacket"})
  /\ x.s.inbound = Tail(t.inbound) /\ x.s.packets = Append(t.packets, t.inbound[1])
  /\ x.s.fullpacket # "" => t.gone

AddedIn(t, p, x) ==
  \/ /\ x.rc = "FAIL" /\ t.gone /\ Formed(x.s) /\ Same(t, x.s, {"fullpacket"})
     /\ x.s.fullpacket # ""
  \/ /\ x.rc = p.type /\ Formed(x.s) /\ Same(t, x.s, {"packets", "fullpacket"})
     /\ x.s.packets = Append(t.packets, p) /\ (x.s.fullpacket # "" => t.gone)

LEMMA KexAdded ==
  ASSUME NEW t, Formed(t), NEW p, IsPacket(p), p.key = t.keys, p.type \in KexPackets,
         "EXCHANGING_KEYS" \in t.state, t.fullpacket # "" => t.gone
  PROVE  AddedIn(t, p, PacketAdd(t, p))
<1> DEFINE x == PacketAdd(t, p)
           b == AddToBrigade(t, p)
<1>1. CASE t.fullpacket = "bad"
  <2> DEFINE u == [t EXCEPT !.fullpacket = "bad"]
  <2>1. x = R(u, "FAIL")
    BY <1>1, AddCases DEF Fails
  <2>2. Formed(u) /\ Same(t, u, {"fullpacket"}) /\ u.fullpacket = "bad"
    BY FieldsAre DEF Formed, Same
  <2> HIDE DEF x, u
  <2>3. x.s = u /\ x.rc = "FAIL"
    BY <2>1 DEF R
  <2>4. t.gone
    BY <1>1
  <2>. QED
    BY <2>2, <2>3, <2>4 DEF x, AddedIn
<1>2. CASE t.fullpacket # "bad"
  <2>1. x = Taken(b, p)
    BY <1>2, AddCases DEF KexPackets, Awaited, DataTypes, ChannelTypes
  <2>2. /\ Formed(b) /\ Same(t, b, {"packets", "at", "kex"}) /\ b.packets = Append(t.packets, p)
        /\ b.kex = t.kex /\ b.at = t.at
    BY BrigadeForms
  <2> HIDE DEF x, b
  <2> DEFINE u == [b EXCEPT !.fullpacket = IF @ = "kept" THEN "bad" ELSE @]
             k == p.type
  <2>3. x = R(u, k)
    BY <2>1 DEF Taken
  <2>4. Formed(u) /\ Same(b, u, {"fullpacket"}) /\ (u.fullpacket # "" => b.fullpacket # "")
    BY <2>2, FieldsAre DEF Formed, Same
  <2> HIDE DEF u, k
  <2>5. x.s = u /\ x.rc = k
    BY <2>3 DEF R
  <2>6. Same(t, u, {"packets", "fullpacket"}) /\ u.packets = b.packets /\ b.fullpacket = t.fullpacket
    BY <2>2, <2>4, FieldsAre DEF Same
  <2>. QED
    BY <2>2, <2>4, <2>5, <2>6 DEF x, k, AddedIn
<1>. QED
  BY <1>1, <1>2

\* What packet_read does within an exchange.
LEMMA KexRead ==
  ASSUME NEW t, Sound(t), t.socket_state # "disconnected", "EXCHANGING_KEYS" \in t.state,
         t.inbound # <<>> => t.inbound[1].type \in KexPackets, NEW net
  PROVE  LET x == PacketRead(t, net)
         IN  (x.s = t /\ x.rc \in {"WAIT", "EAGAIN"}) \/ Dropped(t, x) \/ Came(t, x)
<1> DEFINE x == PacketRead(t, net)
<1>1. x = IF t.inbound = <<>> THEN R(t, IF t.gone THEN "FAIL" ELSE "WAIT")
          ELSE IF net # "whole" THEN R(t, "EAGAIN")
          ELSE PacketAdd(Popped(t), Head(t.inbound))
  <2>1. t.kexRc = "" /\ ~("EXCHANGING_KEYS" \in t.state /\ "KEX_ACTIVE" \notin t.state)
    BY DEF Sound, ExchangeStates
  <2>. QED
    BY <2>1, Zenon DEF PacketRead, Popped
<1>2. Formed(t) /\ (t.fullpacket # "" => t.gone)
  BY DEF Sound
<1> HIDE DEF x
<1>3. CASE t.inbound = <<>> /\ t.gone
  <2>1. x = R(t, "FAIL")
    BY <1>1, <1>3
  <2>2. x.s = t /\ x.rc = "FAIL"
    BY <2>1, ResultOf
  <2>3. Dropped(t, x)
    BY <1>2, <1>3, <2>2 DEF Dropped, Same, Formed
  <2>. QED
    BY <2>3 DEF x
<1>4. CASE t.inbound = <<>> /\ ~t.gone
  <2>1. x = R(t, "WAIT")
    BY <1>1, <1>4
  <2>2. x.s = t /\ x.rc = "WAIT"
    BY <2>1, ResultOf
  <2>. QED
    BY <2>2 DEF x
<1>5. CASE t.inbound # <<>> /\ net # "whole"
  <2>1. x = R(t, "EAGAIN")
    BY <1>1, <1>5
  <2>2. x.s = t /\ x.rc = "EAGAIN"
    BY <2>1, ResultOf
  <2>. QED
    BY <2>2 DEF x
<1>6. CASE t.inbound # <<>> /\ net = "whole"
  <2> DEFINE p == Head(t.inbound)
             d == Popped(t)
  <2>1. x = PacketAdd(d, p)
    BY <1>1, <1>6
  <2>2. /\ Formed(d) /\ d.inbound = Tail(t.inbound) /\ Same(t, d, {"inbound"})
        /\ IsPacket(p) /\ p = t.inbound[1]
    BY <1>2, <1>6, PoppedForms
  <2>3. p.key = t.keys /\ p.type \in KexPackets
    BY <1>6, <2>2 DEF Sound
  <2> HIDE DEF p, d
  <2>4. /\ d.keys = t.keys /\ d.gone = t.gone /\ d.fullpacket = t.fullpacket /\ d.state = t.state
        /\ d.packets = t.packets
    BY <2>2, FieldsAre DEF Same
  <2>5. AddedIn(d, p, x)
    <3>1. p.key = d.keys /\ "EXCHANGING_KEYS" \in d.state /\ (d.fullpacket # "" => d.gone)
      BY <1>2, <2>3, <2>4
    <3>. QED
      BY <2>1, <2>2, <2>3, <3>1, KexAdded
  <2>6. CASE /\ x.rc = "FAIL" /\ d.gone /\ Formed(x.s) /\ Same(d, x.s, {"fullpacket"})
             /\ x.s.fullpacket # ""
    <3>1. Same(t, x.s, {"inbound", "fullpacket"}) /\ x.s.inbound = d.inbound
      BY <2>2, <2>6, FieldsAre DEF Same
    <3>. QED
      BY <1>6, <2>2, <2>4, <2>6, <3>1 DEF Dropped, x
  <2>7. CASE /\ x.rc = p.type /\ Formed(x.s) /\ Same(d, x.s, {"packets", "fullpacket"})
             /\ x.s.packets = Append(d.packets, p) /\ (x.s.fullpacket # "" => d.gone)
    <3>1. Same(t, x.s, {"inbound", "packets", "fullpacket"}) /\ x.s.inbound = d.inbound
      BY <2>2, <2>7, FieldsAre DEF Same
    <3>. QED
      BY <1>6, <2>2, <2>4, <2>7, <3>1 DEF Came, x
  <2>. QED
    BY <2>5, <2>6, <2>7 DEF AddedIn
<1>. QED
  BY <1>3, <1>4, <1>5, <1>6

-----------------------------------------------------------------------------
(* Waiting for a packet of the exchange. *)

\* What libssh2_packet_require makes of it: nothing has come;
Waits(t, who, q) ==
  /\ q.rc \in {"WAIT", "EAGAIN"} /\ Formed(q.s) /\ Same(t, q.s, {"start"})
  /\ q.s.start = t.start \cup {who}

\* the connection is lost;
Loses(t, who, q) ==
  /\ q.rc = "FAIL" /\ t.gone /\ Formed(q.s) /\ Same(t, q.s, {"inbound", "fullpacket", "start"})
  /\ q.s.start \in {t.start \cup {who}, (t.start \cup {who}) \ {who}}
  /\ q.s.inbound = t.inbound \/ (q.s.fullpacket # "" /\ t.inbound # <<>> /\ q.s.inbound = Tail(t.inbound))

\* another packet has come;
Keeps(t, who, type, q) ==
  /\ q.rc = "MORE" /\ t.inbound # <<>> /\ t.inbound[1].type # type /\ Formed(q.s)
  /\ Same(t, q.s, {"start", "inbound", "packets", "fullpacket"})
  /\ q.s.start = t.start \cup {who}
  /\ q.s.inbound = Tail(t.inbound) /\ q.s.packets = Append(t.packets, t.inbound[1])
  /\ q.s.fullpacket # "" => t.gone

\* the packet has.
Gives(t, who, type, q) ==
  /\ q.rc = "" /\ t.inbound # <<>> /\ t.inbound[1].type = type /\ Formed(q.s)
  /\ Same(t, q.s, {"start", "inbound", "fullpacket"})
  /\ q.s.start = (t.start \cup {who}) \ {who}
  /\ q.s.inbound = Tail(t.inbound) /\ q.p = t.inbound[1]
  /\ q.s.fullpacket # "" => t.gone

\* The last packet of a list is taken away again.
LEMMA LastWithout ==
  ASSUME NEW q, IsList(q), NEW e
  PROVE  RemoveAt(Append(q, e), Len(q) + 1) = q
<1> DEFINE a == Append(q, e)
           x == RemoveAt(a, Len(q) + 1)
<1>1. /\ IsList(a) /\ Len(q) + 1 \in DOMAIN a /\ Len(a) = Len(q) + 1 /\ Len(q) \in Nat
      /\ \A j \in 1..Len(q) : a[j] = q[j]
  BY ListAppended
<1> HIDE DEF a
<1>2. /\ IsList(x) /\ Len(x) = Len(a) - 1 /\ DOMAIN x = 1..(Len(a) - 1)
      /\ \A j \in 1..(Len(a) - 1) : x[j] = IF j < Len(q) + 1 THEN a[j] ELSE a[j + 1]
  BY <1>1, ListWithout
<1> HIDE DEF x
<1>3. Len(x) = Len(q) /\ \A j \in 1..Len(q) : x[j] = q[j]
  BY <1>1, <1>2
<1>4. x = [j \in 1..Len(x) |-> x[j]] /\ q = [j \in 1..Len(q) |-> q[j]]
  BY <1>2, LenProperties DEF IsList
<1>5. x = q
  BY <1>3, <1>4
<1>. QED
  BY <1>5 DEF x, a

\* No packet of a type is in the brigade.
Lacks(t, type) == \A j \in DOMAIN t.packets : t.packets[j].type # type

\* Without such a packet in the brigade nothing is found;
LEMMA AskNone ==
  ASSUME NEW t, NEW type, Lacks(t, type)
  PROVE  Ask(t, <<type>>, Nobody) = Not(t, "FAIL")
<1>1. \A k \in DOMAIN <<type>> : Matching(t, <<type>>[k], Nobody) = {}
  BY DEF Matching, Lacks
<1>. QED
  BY <1>1 DEF Ask

\* and when there is one, the one.
LEMMA AskOnly ==
  ASSUME NEW t, Formed(t), NEW type, NEW i \in DOMAIN t.packets, t.packets[i].type = type,
         \A j \in DOMAIN t.packets : j # i => t.packets[j].type # type
  PROVE  Ask(t, <<type>>, Nobody) = Got(t, i)
<1> DEFINE there == {k \in DOMAIN <<type>> : Matching(t, <<type>>[k], Nobody) # {}}
           m == Matching(t, <<type>>[First(there)], Nobody)
<1>1. Matching(t, type, Nobody) = {i}
  BY DEF Matching
<1>2. there = {1}
  BY <1>1
<1>3. First({1}) = 1
  BY FirstIs
<1>4. DOMAIN t.packets \subseteq Nat
  BY FormedLists
<1>5. First({i}) = i
  BY <1>4, FirstIs
<1>6. m = {i}
  BY <1>1, <1>2, <1>3
<1> HIDE DEF there, m
<1>7. there # {}
  BY <1>2
<1>8. Ask(t, <<type>>, Nobody) = Got(t, First(m))
  BY <1>7 DEF Ask, there, m
<1>. QED
  BY <1>5, <1>6, <1>8

\* The session after it was asked for packet i.
LEMMA GotIs ==
  ASSUME NEW t, Formed(t), NEW i \in DOMAIN t.packets
  PROVE  /\ Got(t, i).rc = "" /\ Got(t, i).p = t.packets[i]
         /\ Formed(Got(t, i).s) /\ Same(t, Got(t, i).s, {"packets"})
         /\ Got(t, i).s.packets = RemoveAt(t.packets, i)
<1> DEFINE q == RemoveAt(t.packets, i)
           u == [t EXCEPT !.packets = q]
<1>1. ArePackets(q)
  BY PacketsWithout DEF Formed
<1>2. Got(t, i).s = u /\ Got(t, i).rc = "" /\ Got(t, i).p = t.packets[i]
  BY DEF Got
<1> HIDE DEF q
<1>3. Formed(u) /\ Same(t, u, {"packets"}) /\ u.packets = q
  BY <1>1, FieldsAre DEF Formed, Same
<1>. QED
  BY <1>2, <1>3 DEF q

Enter(t, who) == [t EXCEPT !.start = @ \cup {who}]
Leave(t, who) == [t EXCEPT !.start = @ \ {who}]

LEMMA EnterIs ==
  ASSUME NEW t, Formed(t), NEW who
  PROVE  /\ Formed(Enter(t, who)) /\ Same(t, Enter(t, who), {"start"}) /\ Enter(t, who).start = t.start \cup {who}
         /\ Formed(Leave(t, who)) /\ Same(t, Leave(t, who), {"start"}) /\ Leave(t, who).start = t.start \ {who}
BY FieldsAre DEF Formed, Same, Enter, Leave

\* The results of libssh2_packet_require after it has read.
Requires(r, who, type) ==
  CASE r.rc \in {"EAGAIN", "WAIT"} -> Not(r.s, r.rc)
    [] r.rc = "FAIL" -> Not(Leave(r.s, who), "FAIL")
    [] r.rc = type   -> Ask(Leave(r.s, who), <<type>>, Nobody)
    [] OTHER         -> Not(r.s, "MORE")

LEMMA RequireIs ==
  ASSUME NEW t, NEW who, NEW type, Lacks(t, type), NEW net
  PROVE  Require(t, who, type, net) =
           IF t.socket_state = "disconnected" THEN Not(Enter(t, who), "FAIL")
           ELSE Requires(PacketRead(Enter(t, who), net), who, type)
<1> DEFINE asked == Ask(t, <<type>>, Nobody)
<1>1. asked = Not(t, "FAIL")
  BY AskNone
<1> HIDE DEF asked
<1>2. asked.rc # ""
  BY <1>1 DEF Not
<1>3. Require(t, who, type, net) =
        IF who \notin t.start /\ asked.rc = "" THEN asked
        ELSE IF t.socket_state = "disconnected" THEN Not(Enter(t, who), "FAIL")
        ELSE Requires(PacketRead(Enter(t, who), net), who, type)
  BY Zenon DEF Require, Requires, Enter, Leave, asked
<1>. QED
  BY <1>2, <1>3

LEMMA RequireKex ==
  ASSUME NEW t, Sound(t), "EXCHANGING_KEYS" \in t.state, t.socket_state = "disconnected" => t.gone,
         NEW type \in Awaited, Lacks(t, type),
         t.inbound # <<>> => t.inbound[1].type \in KexPackets, NEW who, NEW net
  PROVE  LET q == Require(t, who, type, net)
         IN  Waits(t, who, q) \/ Loses(t, who, q) \/ Keeps(t, who, type, q) \/ Gives(t, who, type, q)
<1> DEFINE q == Require(t, who, type, net)
           e == Enter(t, who)
           r == PacketRead(e, net)
<1>0. Formed(t) /\ (t.fullpacket # "" => t.gone)
  BY DEF Sound
<1>1. q = IF t.socket_state = "disconnected" THEN Not(e, "FAIL") ELSE Requires(r, who, type)
  BY RequireIs
<1>2. Formed(e) /\ Same(t, e, {"start"}) /\ e.start = t.start \cup {who}
  BY <1>0, EnterIs
<1> HIDE DEF q, e
<1>3. /\ e.keys = t.keys /\ e.gone = t.gone /\ e.fullpacket = t.fullpacket /\ e.state = t.state
      /\ e.packets = t.packets /\ e.inbound = t.inbound /\ e.socket_state = t.socket_state /\ e.kexRc = t.kexRc
  BY <1>2, FieldsAre DEF Same
<1>4. Sound(e)
  BY <1>2, <1>3 DEF Sound
<1>5. CASE t.socket_state = "disconnected"
  <2>1. q = Not(e, "FAIL")
    BY <1>1, <1>5
  <2>2. q.s = e /\ q.rc = "FAIL"
    BY <2>1 DEF Not
  <2>3. Same(t, e, {"inbound", "fullpacket", "start"})
    BY <1>2 DEF Same
  <2>4. Loses(t, who, q)
    BY <1>2, <1>3, <1>5, <2>2, <2>3 DEF Loses
  <2>. QED
    BY <2>4 DEF q
<1>6. CASE t.socket_state # "disconnected"
  <2>1. q = Requires(r, who, type)
    BY <1>1, <1>6
  <2>2. (r.s = e /\ r.rc \in {"WAIT", "EAGAIN"}) \/ Dropped(e, r) \/ Came(e, r)
    <3>1. /\ e.socket_state # "disconnected" /\ "EXCHANGING_KEYS" \in e.state
          /\ e.inbound # <<>> => e.inbound[1].type \in KexPackets
      BY <1>3, <1>6
    <3>. QED
      BY <1>4, <3>1, KexRead
  <2> HIDE DEF r
  <2>3. CASE r.s = e /\ r.rc \in {"WAIT", "EAGAIN"}
    <3>1. q = Not(r.s, r.rc)
      BY <2>1, <2>3 DEF Requires, Awaited
    <3>2. q.s = e /\ q.rc = r.rc
      BY <2>3, <3>1 DEF Not
    <3>3. Waits(t, who, q)
      BY <1>2, <2>3, <3>2 DEF Waits
    <3>. QED
      BY <3>3 DEF q
  <2>4. CASE Dropped(e, r)
    <3> DEFINE l == Leave(r.s, who)
    <3>1. r.rc = "FAIL" /\ Formed(r.s)
      BY <2>4 DEF Dropped
    <3>2. q = Not(l, "FAIL")
      BY <2>1, <3>1 DEF Requires, Awaited
    <3>3. Formed(l) /\ Same(r.s, l, {"start"}) /\ l.start = r.s.start \ {who}
      BY <3>1, EnterIs
    <3> HIDE DEF l
    <3>4. q.s = l /\ q.rc = "FAIL"
      BY <3>2 DEF Not
    <3>5. Same(e, r.s, {"inbound", "fullpacket"})
      BY <2>4 DEF Dropped
    <3>6. /\ Same(t, l, {"inbound", "fullpacket", "start"}) /\ l.start = e.start \ {who}
          /\ l.inbound = r.s.inbound /\ l.fullpacket = r.s.fullpacket
      BY <1>2, <3>3, <3>5, FieldsAre DEF Same
    <3>7. Loses(t, who, q)
      BY <1>2, <1>3, <2>4, <3>3, <3>4, <3>6 DEF Loses, Dropped
    <3>. QED
      BY <3>7 DEF q
  <2>5. CASE Came(e, r) /\ r.rc # type
    <3>1. r.rc \in KexPackets
      BY <1>3, <2>5 DEF Came
    <3>2. q = Not(r.s, "MORE")
      BY <2>1, <2>5, <3>1 DEF Requires, KexPackets, Awaited
    <3>3. q.s = r.s /\ q.rc = "MORE"
      BY <3>2 DEF Not
    <3>4. Same(t, r.s, {"start", "inbound", "packets", "fullpacket"}) /\ r.s.start = e.start
      BY <1>2, <2>5, FieldsAre DEF Same, Came
    <3>5. Keeps(t, who, type, q)
      BY <1>2, <1>3, <2>5, <3>3, <3>4 DEF Came, Keeps
    <3>. QED
      BY <3>5 DEF q
  <2>6. CASE Came(e, r) /\ r.rc = type
    <3> DEFINE l == Leave(r.s, who)
               k == Len(t.packets) + 1
               p == t.inbound[1]
    <3>1. q = Ask(l, <<type>>, Nobody)
      BY <2>1, <2>6 DEF Requires, Awaited
    <3>2. /\ Formed(r.s) /\ r.s.packets = Append(t.packets, p) /\ p.type = type
          /\ r.s.inbound = Tail(t.inbound) /\ t.inbound # <<>> /\ (r.s.fullpacket # "" => t.gone)
          /\ Same(e, r.s, {"inbound", "packets", "fullpacket"})
      BY <1>3, <2>6 DEF Came
    <3>3. Formed(l) /\ Same(r.s, l, {"start"}) /\ l.start = r.s.start \ {who}
      BY <3>2, EnterIs
    <3> HIDE DEF l, p
    <3>4. /\ l.packets = Append(t.packets, p) /\ l.inbound = Tail(t.inbound) /\ (l.fullpacket # "" => t.gone)
          /\ Same(t, l, {"inbound", "packets", "fullpacket", "start"}) /\ l.start = e.start \ {who}
      BY <1>2, <3>2, <3>3, FieldsAre DEF Same
    <3>5. IsList(t.packets)
      BY <1>0 DEF Formed, ArePackets
    <3>6. /\ k \in DOMAIN l.packets /\ l.packets[k] = p
          /\ \A j \in DOMAIN l.packets : j # k => j \in DOMAIN t.packets /\ l.packets[j] = t.packets[j]
      <4> DEFINE b == t.packets
                 x == Append(b, p)
      <4>1. l.packets = x
        BY <3>4
      <4>2. IsList(b)
        BY <3>5
      <4> HIDE DEF b
      <4>3. /\ Len(b) + 1 \in DOMAIN x /\ x[Len(b) + 1] = p
            /\ \A j \in DOMAIN x : j # Len(b) + 1 => j \in DOMAIN b /\ x[j] = b[j]
        BY <4>2, AppendedIs
      <4> HIDE DEF x
      <4>. QED
        BY <4>1, <4>3 DEF b
    <3>7. RemoveAt(l.packets, k) = t.packets
      BY <3>4, <3>5, LastWithout
    <3> HIDE DEF k
    <3>8. q = Got(l, k)
      <4>1. \A j \in DOMAIN l.packets : j # k => l.packets[j].type # type
        BY <3>6 DEF Lacks
      <4>2. l.packets[k].type = type
        BY <3>2, <3>6
      <4>. QED
        BY <3>1, <3>3, <3>6, <4>1, <4>2, AskOnly
    <3>9. /\ q.rc = "" /\ q.p = p /\ Formed(q.s) /\ Same(l, q.s, {"packets"}) /\ q.s.packets = t.packets
      BY <3>3, <3>6, <3>7, <3>8, GotIs
    <3>10. /\ Same(t, q.s, {"start", "inbound", "fullpacket"}) /\ q.s.start = l.start
           /\ q.s.inbound = l.inbound /\ q.s.fullpacket = l.fullpacket
      BY <3>4, <3>9, FieldsAre DEF Same
    <3>11. Gives(t, who, type, q)
      BY <1>2, <3>2, <3>4, <3>9, <3>10 DEF Gives, p
    <3>. QED
      BY <3>11 DEF q
  <2>. QED
    BY <2>2, <2>3, <2>4, <2>5, <2>6
<1>. QED
  BY <1>5, <1>6

-----------------------------------------------------------------------------
(* Throwing a wrong guess away. *)

LEMMA OnlyWithout ==
  ASSUME NEW q, IsList(q), Len(q) = 1
  PROVE  1 \in DOMAIN q /\ RemoveAt(q, 1) = <<>>
<1> DEFINE x == RemoveAt(q, 1)
<1>1. 1 \in DOMAIN q
  BY ListHas
<1>2. IsList(x) /\ Len(x) = Len(q) - 1
  BY <1>1, ListWithout
<1> HIDE DEF x
<1>3. x = <<>>
  BY <1>2, ListHas, EmptySeq
<1>. QED
  BY <1>1, <1>3 DEF x

\* The guess is still to come, or is alone in the brigade.
Awaits(t) == t.packets = <<>> /\ t.inbound # <<>> /\ t.inbound[1].type = "GUESS"
Keeping(t) == Len(t.packets) = 1 /\ t.packets[1].type = "GUESS"

\* The packets of the brigade with the lowest number, and what libssh2_packet_burn
\* does when it throws one away, or has read.
Lowest(t) ==
  LET types == {Number(t.packets[i].type) : i \in DOMAIN t.packets}
  IN  {i \in DOMAIN t.packets : \A n \in types : Number(t.packets[i].type) <= n}

BurnsOut(t, set) == R(Goto([t EXCEPT !.packets = RemoveAt(@, First(set))], "burn", 0, "idle"), "")

Burns(r) ==
  LET hit == {i \in DOMAIN r.s.packets : r.s.packets[i].type = r.rc}
  IN  IF r.rc \in {"WAIT", "EAGAIN"} THEN r
      ELSE IF r.rc = "FAIL" THEN R(Goto(r.s, "burn", 0, "idle"), "FAIL")
      ELSE IF hit # {} THEN BurnsOut(r.s, hit)
      ELSE R(r.s, "MORE")

LEMMA BurnIs ==
  ASSUME NEW t, NEW net
  PROVE  Burn(t, net) =
           IF At(t, "burn", 0) = "idle" /\ Lowest(t) # {} THEN BurnsOut(t, Lowest(t))
           ELSE IF At(t, "burn", 0) = "idle" THEN R(Goto(t, "burn", 0, "created"), "MORE")
           ELSE IF t.socket_state = "disconnected" THEN R(t, "FAIL")
           ELSE Burns(PacketRead(t, net))
BY Zenon DEF Burn, Lowest, BurnsOut, Burns

\* Only where the burning stands may have changed.
Elsewhere(t, u) == \A o, d : <<o, d>> # <<"burn", 0>> => At(u, o, d) = At(t, o, d)

BurnWaits(t, b) == b.s = t /\ b.rc \in {"WAIT", "EAGAIN"}

BurnLoses(t, b) ==
  /\ b.rc = "FAIL" /\ t.gone /\ Formed(b.s) /\ Same(t, b.s, {"inbound", "fullpacket", "at"})
  /\ b.s.inbound = t.inbound \/ (b.s.fullpacket # "" /\ t.inbound # <<>> /\ b.s.inbound = Tail(t.inbound))
  /\ Elsewhere(t, b.s)

BurnBegins(t, b) ==
  /\ b.rc = "MORE" /\ Formed(b.s) /\ Same(t, b.s, {"at"}) /\ Awaits(t)
  /\ Elsewhere(t, b.s)

Burnt(t, b) ==
  /\ b.rc = "" /\ Formed(b.s) /\ Same(t, b.s, {"inbound", "fullpacket", "packets", "at"})
  /\ b.s.packets = <<>> /\ At(b.s, "burn", 0) = "idle" /\ (b.s.fullpacket # "" => t.gone)
  /\ IF Keeping(t) THEN b.s.inbound = t.inbound ELSE Awaits(t) /\ b.s.inbound = Tail(t.inbound)
  /\ Elsewhere(t, b.s)

\* The one packet of the brigade is thrown away.
LEMMA BurnOut ==
  ASSUME NEW t, Formed(t), Len(t.packets) = 1
  PROVE  LET b == BurnsOut(t, {1})
         IN  /\ b.rc = "" /\ Formed(b.s) /\ Same(t, b.s, {"packets", "at"})
             /\ b.s.packets = <<>> /\ At(b.s, "burn", 0) = "idle" /\ Elsewhere(t, b.s)
<1> DEFINE b == BurnsOut(t, {1})
           d == [t EXCEPT !.packets = <<>>]
           g == Goto(d, "burn", 0, "idle")
<1>1. IsList(t.packets)
  BY DEF Formed, ArePackets
<1>2. RemoveAt(t.packets, 1) = <<>> /\ 1 \in DOMAIN t.packets
  BY <1>1, OnlyWithout
<1>3. First({1}) = 1
  BY FirstIs
<1>4. b = R(g, "")
  BY <1>2, <1>3 DEF BurnsOut
<1>5. ArePackets(<<>>)
  BY EmptySeq DEF ArePackets, IsList
<1>6. Formed(d) /\ Same(t, d, {"packets"}) /\ d.packets = <<>>
  BY <1>5, FieldsAre DEF Formed, Same
<1>7. \A o, c : At(d, o, c) = At(t, o, c)
  BY <1>6, FieldsAre DEF At, Same
<1> HIDE DEF d, b
<1>8. /\ DOMAIN g = Fields /\ \A f \in Fields \ {"at"} : g[f] = d[f]
      /\ At(g, "burn", 0) = "idle"
      /\ \A o, c : <<o, c>> # <<"burn", 0>> => At(g, o, c) = At(d, o, c)
  BY <1>6, AtGoto
<1>9. Formed(g)
  BY <1>6, GotoForms
<1> HIDE DEF g
<1>10. Same(t, g, {"packets", "at"}) /\ g.packets = <<>>
  BY <1>6, <1>8, FieldsAre DEF Same
<1>11. b.s = g /\ b.rc = ""
  BY <1>4 DEF R
<1>12. Elsewhere(t, g)
  BY <1>7, <1>8 DEF Elsewhere
<1>. QED
  BY <1>8, <1>9, <1>10, <1>11, <1>12 DEF b

LEMMA LowestIs ==
  ASSUME NEW t, Formed(t)
  PROVE  /\ t.packets = <<>> => Lowest(t) = {}
         /\ Keeping(t) => Lowest(t) = {1}
<1>1. t.packets = <<>> => Lowest(t) = {}
  BY DEF Lowest
<1>2. ASSUME Keeping(t) PROVE Lowest(t) = {1}
  <2>1. DOMAIN t.packets = {1}
    BY <1>2, FormedLists DEF Keeping
  <2>2. Number(t.packets[1].type) = 31
    <3>1. Number("GUESS") = 31
      BY Zenon DEF Number, DataTypes
    <3>. QED
      BY <1>2, <3>1 DEF Keeping
  <2>. QED
    BY <2>1, <2>2 DEF Lowest
<1>. QED
  BY <1>1, <1>2

LEMMA GotoBurn ==
  ASSUME NEW t, Formed(t), NEW pos
  PROVE  LET g == Goto(t, "burn", 0, pos)
         IN  Formed(g) /\ Same(t, g, {"at"}) /\ At(g, "burn", 0) = pos /\ Elsewhere(t, g)
<1>1. Formed(Goto(t, "burn", 0, pos))
  BY GotoForms
<1>. QED
  BY <1>1, AtGoto DEF Same, Elsewhere

LEMMA BurnKex ==
  ASSUME NEW t, Sound(t), "EXCHANGING_KEYS" \in t.state, t.socket_state = "disconnected" => t.gone,
         Awaits(t) \/ (Keeping(t) /\ At(t, "burn", 0) = "idle"), NEW net
  PROVE  LET b == Burn(t, net)
         IN  BurnWaits(t, b) \/ BurnLoses(t, b) \/ BurnBegins(t, b) \/ Burnt(t, b)
<1> DEFINE b == Burn(t, net)
           r == PacketRead(t, net)
<1>0. Formed(t) /\ (t.fullpacket # "" => t.gone)
  BY DEF Sound
<1>1. b = IF At(t, "burn", 0) = "idle" /\ Lowest(t) # {} THEN BurnsOut(t, Lowest(t))
          ELSE IF At(t, "burn", 0) = "idle" THEN R(Goto(t, "burn", 0, "created"), "MORE")
          ELSE IF t.socket_state = "disconnected" THEN R(t, "FAIL")
          ELSE Burns(r)
  BY BurnIs
<1>2. Lowest(t) = IF Keeping(t) THEN {1} ELSE {}
  BY <1>0, LowestIs DEF Awaits
<1>3. Elsewhere(t, t) /\ Same(t, t, {"at"})
  BY <1>0 DEF Elsewhere, Same, Formed
<1> HIDE DEF b
<1>4. CASE Keeping(t) /\ At(t, "burn", 0) = "idle"
  <2>1. b = BurnsOut(t, {1})
    BY <1>1, <1>2, <1>4
  <2>2. Len(t.packets) = 1
    BY <1>4 DEF Keeping
  <2>3. /\ b.rc = "" /\ Formed(b.s) /\ Same(t, b.s, {"packets", "at"})
        /\ b.s.packets = <<>> /\ At(b.s, "burn", 0) = "idle" /\ Elsewhere(t, b.s)
    BY <1>0, <2>1, <2>2, BurnOut
  <2>4. Same(t, b.s, {"inbound", "fullpacket", "packets", "at"}) /\ b.s.inbound = t.inbound /\ b.s.fullpacket = t.fullpacket
    BY <2>3, FieldsAre DEF Same
  <2>5. Burnt(t, b)
    BY <1>0, <1>4, <2>3, <2>4 DEF Burnt
  <2>. QED
    BY <2>5 DEF b
<1>5. CASE Awaits(t) /\ At(t, "burn", 0) = "idle"
  <2> DEFINE g == Goto(t, "burn", 0, "created")
  <2>1. ~Keeping(t)
    BY <1>5 DEF Awaits, Keeping
  <2>2. b = R(g, "MORE")
    BY <1>1, <1>2, <1>5, <2>1
  <2>3. Formed(g) /\ Same(t, g, {"at"}) /\ Elsewhere(t, g)
    BY <1>0, GotoBurn
  <2> HIDE DEF g
  <2>4. b.s = g /\ b.rc = "MORE"
    BY <2>2 DEF R
  <2>5. BurnBegins(t, b)
    BY <1>5, <2>3, <2>4 DEF BurnBegins
  <2>. QED
    BY <2>5 DEF b
<1>6. CASE At(t, "burn", 0) # "idle" /\ t.socket_state = "disconnected"
  <2>1. b = R(t, "FAIL")
    BY <1>1, <1>6
  <2>2. b.s = t /\ b.rc = "FAIL"
    BY <2>1 DEF R
  <2>3. Same(t, t, {"inbound", "fullpacket", "at"})
    BY <1>0 DEF Same, Formed
  <2>4. BurnLoses(t, b)
    BY <1>0, <1>3, <1>6, <2>2, <2>3 DEF BurnLoses
  <2>. QED
    BY <2>4 DEF b
<1>7. CASE At(t, "burn", 0) # "idle" /\ t.socket_state # "disconnected"
  <2>1. b = Burns(r)
    BY <1>1, <1>7
  <2>2. Awaits(t) /\ ~Keeping(t)
    BY <1>7 DEF Awaits, Keeping
  <2>3. (r.s = t /\ r.rc \in {"WAIT", "EAGAIN"}) \/ Dropped(t, r) \/ Came(t, r)
    <3>1. t.inbound # <<>> => t.inbound[1].type \in KexPackets
      BY <2>2 DEF Awaits, KexPackets
    <3>. QED
      BY <1>7, <3>1, KexRead
  <2> HIDE DEF r
  <2>4. CASE r.s = t /\ r.rc \in {"WAIT", "EAGAIN"}
    <3>1. b = r
      BY <2>1, <2>4 DEF Burns
    <3>2. BurnWaits(t, b)
      BY <2>4, <3>1 DEF BurnWaits
    <3>. QED
      BY <3>2 DEF b
  <2>5. CASE Dropped(t, r)
    <3> DEFINE g == Goto(r.s, "burn", 0, "idle")
    <3>1. /\ r.rc = "FAIL" /\ t.gone /\ Formed(r.s) /\ Same(t, r.s, {"inbound", "fullpacket"})
          /\ r.s.inbound = t.inbound \/ (r.s.fullpacket # "" /\ t.inbound # <<>> /\ r.s.inbound = Tail(t.inbound))
      BY <2>5 DEF Dropped
    <3>2. b = R(g, "FAIL")
      BY <2>1, <3>1 DEF Burns
    <3>3. Formed(g) /\ Same(r.s, g, {"at"}) /\ Elsewhere(r.s, g)
      BY <3>1, GotoBurn
    <3> HIDE DEF g
    <3>4. b.s = g /\ b.rc = "FAIL"
      BY <3>2 DEF R
    <3>5. Same(t, g, {"inbound", "fullpacket", "at"}) /\ g.inbound = r.s.inbound /\ g.fullpacket = r.s.fullpacket
      BY <3>1, <3>3, FieldsAre DEF Same
    <3>6. \A o, d : At(r.s, o, d) = At(t, o, d)
      BY <3>1, FieldsAre DEF Same, At
    <3>7. Elsewhere(t, g)
      BY <3>3, <3>6 DEF Elsewhere
    <3>8. BurnLoses(t, b)
      BY <3>1, <3>3, <3>4, <3>5, <3>7 DEF BurnLoses
    <3>. QED
      BY <3>8 DEF b
  <2>6. CASE Came(t, r)
    <3> DEFINE p == t.inbound[1]
               e == Append(t.packets, p)
    <3>1. /\ r.rc = "GUESS" /\ p.type = "GUESS" /\ Formed(r.s)
          /\ Same(t, r.s, {"inbound", "packets", "fullpacket"})
          /\ r.s.inbound = Tail(t.inbound) /\ r.s.packets = e
          /\ r.s.fullpacket # "" => t.gone
      BY <2>2, <2>6 DEF Came, Awaits
    <3>2. Len(e) = 1 /\ e[1] = p /\ DOMAIN e = {1}
      <4>1. t.packets = <<>>
        BY <2>2 DEF Awaits
      <4>. QED
        BY <4>1
    <3>3. {i \in DOMAIN r.s.packets : r.s.packets[i].type = r.rc} = {1}
      BY <3>1, <3>2
    <3> HIDE DEF e, p
    <3>4. b = BurnsOut(r.s, {1})
      BY <2>1, <3>1, <3>3 DEF Burns
    <3>5. Len(r.s.packets) = 1
      BY <3>1, <3>2
    <3>6. /\ b.rc = "" /\ Formed(b.s) /\ Same(r.s, b.s, {"packets", "at"})
          /\ b.s.packets = <<>> /\ At(b.s, "burn", 0) = "idle" /\ Elsewhere(r.s, b.s)
      BY <3>1, <3>4, <3>5, BurnOut
    <3>7. /\ Same(t, b.s, {"inbound", "fullpacket", "packets", "at"}) /\ b.s.inbound = r.s.inbound
          /\ b.s.fullpacket = r.s.fullpacket
      BY <3>1, <3>6, FieldsAre DEF Same
    <3>8. \A o, d : At(r.s, o, d) = At(t, o, d)
      BY <3>1, FieldsAre DEF Same, At
    <3>9. Elsewhere(t, b.s)
      BY <3>6, <3>8 DEF Elsewhere
    <3>10. Burnt(t, b)
      BY <2>2, <3>1, <3>6, <3>7, <3>9 DEF Burnt
    <3>. QED
      BY <3>10 DEF b
  <2>. QED
    BY <2>3, <2>4, <2>5, <2>6
<1>. QED
  BY <1>4, <1>5, <1>6, <1>7

-----------------------------------------------------------------------------
(* What a step of an exchange leaves alone. *)

Turns(t, u) ==
  /\ Formed(u)
  /\ u.kex = t.kex /\ u.kexRc = t.kexRc /\ u.call = t.call
  /\ u.gone = t.gone /\ u.socket_state = t.socket_state
  /\ StartAt(u) = StartAt(t)
  /\ u.fullpacket # "" => t.gone
  /\ Range(u.inbound) \subseteq Range(t.inbound)

\* A step within the exchange of values does not touch the exchange around it.
Inner(t, u) ==
  /\ Turns(t, u)
  /\ u.methods = t.methods /\ ("kex" \in u.start <=> "kex" \in t.start)
  /\ At(u, "kex", 0) = At(t, "kex", 0)
  /\ ExchangeStates \cap u.state = ExchangeStates \cap t.state

LEMMA TurnsOn ==
  ASSUME NEW t, NEW u, NEW w, Turns(t, u), Turns(u, w)
  PROVE  Turns(t, w)
BY DEF Turns

LEMMA InnerOn ==
  ASSUME NEW t, NEW u, NEW w, Inner(t, u), Inner(u, w)
  PROVE  Inner(t, w)
BY TurnsOn DEF Inner

LEMMA RangeTail ==
  ASSUME NEW t, Formed(t), t.inbound # <<>>
  PROVE  Range(Tail(t.inbound)) \subseteq Range(t.inbound)
BY PacketsTail DEF Formed

LEMMA AtSame ==
  ASSUME NEW t, NEW u, NEW F, Same(t, u, F), "at" \notin F
  PROVE  \A o, c : At(u, o, c) = At(t, o, c)
<1>1. u.at = t.at
  BY FieldsAre DEF Same
<1>. QED
  BY <1>1 DEF At

Moving == {"start", "inbound", "packets", "fullpacket", "outbound", "burn"}

LEMMA InnerSame ==
  ASSUME NEW t, Formed(t), NEW u, Formed(u), Same(t, u, Moving), u.fullpacket # "" => t.gone,
         "kex" \in u.start <=> "kex" \in t.start,
         u.inbound = t.inbound \/ (t.inbound # <<>> /\ u.inbound = Tail(t.inbound))
  PROVE  Inner(t, u) /\ u.keys = t.keys /\ \A o, c : At(u, o, c) = At(t, o, c)
<1>1. \A o, c : At(u, o, c) = At(t, o, c)
  BY AtSame DEF Moving
<1>2. Range(u.inbound) \subseteq Range(t.inbound)
  BY RangeTail
<1>3. /\ u.kex = t.kex /\ u.kexRc = t.kexRc /\ u.call = t.call /\ u.gone = t.gone
      /\ u.socket_state = t.socket_state /\ u.methods = t.methods /\ u.state = t.state /\ u.keys = t.keys
  BY FieldsAre DEF Same, Moving
<1>4. StartAt(u) = StartAt(t) /\ At(u, "kex", 0) = At(t, "kex", 0)
  BY <1>1 DEF StartAt
<1>. QED
  BY <1>1, <1>2, <1>3, <1>4 DEF Inner, Turns

\* Operation op stands at pos, and nothing else is different.
Stood(t, u, op, pos) ==
  /\ DOMAIN u = Fields /\ \A f \in Fields \ {"at"} : u[f] = t[f]
  /\ At(u, op, 0) = pos /\ \A o, d : <<o, d>> # <<op, 0>> => At(u, o, d) = At(t, o, d)

LEMMA GotoOther ==
  ASSUME NEW t, Formed(t), NEW op, NEW pos
  PROVE  Stood(t, Goto(t, op, 0, pos), op, pos)
BY AtGoto DEF Stood

Placed(t, u, op, pos) ==
  /\ Inner(t, u) /\ Same(t, u, {"at"}) /\ At(u, op, 0) = pos
  /\ \A o : o # op => At(u, o, 0) = At(t, o, 0)

\* Fields that are the same after another position has been kept.
LEMMA InnerGoto ==
  ASSUME NEW t, Formed(t), t.fullpacket # "" => t.gone, NEW op \in {"dh", "gex", "burn"}, NEW pos
  PROVE  Placed(t, Goto(t, op, 0, pos), op, pos)
<1> DEFINE u == Goto(t, op, 0, pos)
<1>0. Stood(t, u, op, pos)
  BY GotoOther
<1>1. /\ DOMAIN u = Fields /\ \A f \in Fields \ {"at"} : u[f] = t[f]
      /\ At(u, op, 0) = pos /\ \A o, d : <<o, d>> # <<op, 0>> => At(u, o, d) = At(t, o, d)
  BY <1>0, Zenon DEF Stood
<1>2. Formed(u)
  BY GotoForms
<1> HIDE DEF u
<1>3. \A o : o # op => At(u, o, 0) = At(t, o, 0)
  BY <1>1
<1>4. op # "kex" /\ op # "startup"
  OBVIOUS
<1>5. At(u, "kex", 0) = At(t, "kex", 0) /\ StartAt(u) = StartAt(t)
  BY <1>3, <1>4, Zenon DEF StartAt
<1>6. /\ u.kex = t.kex /\ u.kexRc = t.kexRc /\ u.call = t.call /\ u.gone = t.gone /\ u.fullpacket = t.fullpacket
      /\ u.socket_state = t.socket_state /\ u.methods = t.methods /\ u.state = t.state
      /\ u.inbound = t.inbound /\ u.start = t.start
  BY <1>1, FieldsAre
<1>7. Turns(t, u)
  BY <1>2, <1>5, <1>6 DEF Turns
<1>8. Inner(t, u)
  BY <1>5, <1>6, <1>7 DEF Inner
<1>. QED
  BY <1>1, <1>3, <1>8 DEF Same, Placed, u

-----------------------------------------------------------------------------
(* What an exchange sends. *)

Wrote(t, type, w) ==
  /\ w.rc = "" /\ ~t.gone /\ Formed(w.s) /\ Same(t, w.s, {"outbound"})
  /\ \E e : e.type = type /\ e.key = t.keys /\ w.s.outbound = Append(t.outbound, e)

WroteNot(t, w) == w.rc = "FAIL" /\ t.gone /\ Formed(w.s) /\ Same(t, w.s, {})

LEMMA KexWrite ==
  ASSUME NEW t, Formed(t), NEW type
  PROVE  LET w == PacketWrite(t, Plain(type))
         IN  Wrote(t, type, w) \/ WroteNot(t, w)
<1> DEFINE p == Plain(type)
           e == [p EXCEPT !.key = t.keys]
           w == PacketWrite(t, p)
<1>1. IsPacket(p) /\ p.type = type
  BY PacketIs
<1>2. e.type = type /\ e.key = t.keys
  BY <1>1, FieldsAre DEF IsPacket
<1> HIDE DEF p
<1>3. /\ Formed(w.s) /\ Same(t, w.s, {"outbound"})
      /\ w.rc \in {"", "FAIL"} /\ (w.rc = "FAIL" <=> t.gone)
      /\ w.s.outbound = IF t.gone THEN t.outbound ELSE Append(t.outbound, e)
  BY <1>1, WriteForms
<1> HIDE DEF e, w
<1>4. CASE t.gone
  <2>1. Same(t, w.s, {})
    BY <1>3, <1>4, FieldsAre DEF Same
  <2>. QED
    BY <1>3, <1>4, <2>1 DEF WroteNot, w, p
<1>5. CASE ~t.gone
  <2>1. Wrote(t, type, w)
    BY <1>2, <1>3, <1>5 DEF Wrote
  <2>. QED
    BY <2>1 DEF w, p
<1>. QED
  BY <1>4, <1>5

LEMMA ProposedSent ==
  ASSUME NEW o, IsList(o), NEW v, NEW k, Plainly(o, v, k), NEW e, e.type = "KEXINIT", e.key = k
  PROVE  Begun(Append(o, e), v, k) /\ NoneDue(Append(o, e))
<1> DEFINE x == Append(o, e)
           m == Len(o) + 1
<1>1. /\ IsList(x) /\ m \in DOMAIN x /\ x[m] = e /\ Len(x) = m
      /\ \A j \in DOMAIN x : j # m => j \in DOMAIN o /\ x[j] = o[j]
  BY AppendedIs
<1>2. DOMAIN x = 1..m /\ m \in Nat
  BY <1>1, ListHas
<1> HIDE DEF x, m
<1>3. \A j \in DOMAIN x : j # m => x[j].key = k /\ x[j].type \notin Asking
  BY <1>1 DEF Plainly
<1>4. x[m].type = "KEXINIT" /\ x[m].key = k
  BY <1>1
<1>5. \A j \in DOMAIN x : x[j].key = k
  BY <1>3, <1>4
<1>6. (\A j \in DOMAIN x : j < m => j # m) /\ (\A j \in DOMAIN x : ~(j > m))
  BY <1>2
<1>7. (\A j \in DOMAIN x : j < m => x[j].type \notin Asking) /\ (\A j \in DOMAIN x : j > m => x[j].type \in Inits \cup {"DISCONNECT"})
  BY <1>3, <1>6
<1>8. NoneDue(x)
  <2>1. "KEXINIT" \notin Inits /\ Inits \subseteq Asking
    BY DEF Inits, Asking
  <2>. QED
    BY <1>3, <1>4, <2>1 DEF NoneDue
<1>9. Proposed(x, v, k)
  BY <1>1, <1>4, <1>5, <1>7 DEF Proposed, Plainly
<1>. QED
  BY <1>8, <1>9 DEF Begun, x

LEMMA InitDue ==
  ASSUME NEW o, IsList(o), NEW v, NEW k, Begun(o, v, k), NoneDue(o), NEW e, e.type \in Inits, e.key = k
  PROVE  Begun(Append(o, e), v, k) /\ Due(Append(o, e), e.type)
<1> DEFINE x == Append(o, e)
           n == Len(o) + 1
<1>1. /\ IsList(x) /\ n \in DOMAIN x /\ x[n] = e /\ Len(x) = n
      /\ \A j \in DOMAIN o : j \in DOMAIN x /\ x[j] = o[j] /\ j # n
      /\ \A j \in DOMAIN x : j # n => j \in DOMAIN o /\ x[j] = o[j]
  BY AppendedIs
<1>2. DOMAIN o = 1..(n - 1) /\ n \in Nat /\ \A j \in DOMAIN o : j < n
  BY ListHas
<1> HIDE DEF x, n
<1>3. x # <<>>
  BY <1>1
<1>4. Due(x, e.type)
  BY <1>1, <1>3 DEF Due, NoneDue
<1>5. ASSUME Proposed(o, v, k) PROVE Proposed(x, v, k)
  <2>1. /\ ~v.exchanging /\ v.keysIn = k
        /\ \A j \in DOMAIN o : o[j].key = k
    BY <1>5 DEF Proposed
  <2>2. PICK m \in DOMAIN o :
            /\ o[m].type = "KEXINIT"
            /\ \A j \in DOMAIN o : j < m => o[j].type \notin Asking
            /\ \A j \in DOMAIN o : j > m => o[j].type \in Inits \cup {"DISCONNECT"}
    BY <1>5 DEF Proposed
  <2>3. \A j \in DOMAIN x : x[j].key = k
    BY <1>1, <2>1
  <2>4. m < n /\ ~(n < m)
    BY <1>2
  <2>5. \A j \in DOMAIN x : j < m => x[j].type \notin Asking
    <3>1. \A j \in DOMAIN x : j < m => j \in DOMAIN o /\ x[j] = o[j]
      BY <1>1, <2>4
    <3>. QED
      BY <2>2, <3>1
  <2>6. \A j \in DOMAIN x : j > m => x[j].type \in Inits \cup {"DISCONNECT"}
    BY <1>1, <2>2
  <2>7. m \in DOMAIN x /\ x[m].type = "KEXINIT"
    BY <1>1, <2>2
  <2>. QED
    BY <2>1, <2>3, <2>5, <2>6, <2>7 DEF Proposed
<1>6. ASSUME Within(o, v, k) PROVE Within(x, v, k)
  BY <1>1, <1>6 DEF Within
<1>. QED
  BY <1>4, <1>5, <1>6 DEF Begun, x

LEMMA NewKeysSent ==
  ASSUME NEW v, NEW k \in Nat, Within(<<>>, v, k), ~v.offered, NEW e, e.type = "NEWKEYS", e.key = k
  PROVE  Open(Append(<<>>, e), v, k + 1)
<1>1. Append(<<>>, e) = <<e>>
  OBVIOUS
<1>2. (k + 1) - 1 = k
  OBVIOUS
<1>3. Switching(<<e>>, v, k + 1)
  BY <1>2 DEF Switching, Within
<1>. QED
  BY <1>1, <1>3 DEF Open

-----------------------------------------------------------------------------
(* The exchange of values. *)

Ready(t) ==
  /\ Formed(t) /\ t.keys \in Nat /\ t.kexRc = "" /\ ExchangeStates \subseteq t.state
  /\ t.fullpacket # "" => t.gone
  /\ t.socket_state = "disconnected" => t.gone

\* What comes next belongs to the exchange.
KexNext(t) == t.inbound # <<>> => t.inbound[1].key = t.keys /\ t.inbound[1].type \in KexPackets

Stepped(t, v, x) ==
  /\ Inner(t, x.s) /\ x.s.keys \in Nat
  /\ x.rc \in {"MORE", "WAIT", "EAGAIN", "FAIL", ""}
  /\ x.rc = "MORE" => MakingKeys(x.s, v)
  /\ x.rc = "FAIL" => Broken(x.s, v)

\* The new keys are in use.
Renewed(t, v) ==
  /\ NoneAwaited(t) /\ At(t, "dh", 0) = "idle" /\ At(t, "burn", 0) = "idle"
  /\ Flow(t.inbound, 0, v, t.keys) /\ Open(t.outbound, v, t.keys)

DhStepped(t, v, x) ==
  /\ Stepped(t, v, x)
  /\ x.rc = "" => Renewed(x.s, v) /\ At(x.s, "gex", 0) = At(t, "gex", 0)

LEMMA KexSound ==
  ASSUME NEW t, Ready(t), KexNext(t)
  PROVE  /\ Sound(t) /\ "EXCHANGING_KEYS" \in t.state /\ (t.socket_state = "disconnected" => t.gone)
         /\ t.inbound # <<>> => t.inbound[1].type \in KexPackets
BY DEF Ready, KexNext, Sound, ExchangeStates, KexPackets, Awaited

LEMMA BrokenLost ==
  ASSUME NEW t, NEW v, t.gone, KexNext(t),
         Begun(t.outbound, v, t.keys) \/ Open(t.outbound, v, t.keys + 1),
         NEW u, u.gone = t.gone, u.keys = t.keys, u.outbound = t.outbound,
         u.inbound = t.inbound \/ u.fullpacket # ""
  PROVE  Broken(u, v)
BY DEF Broken, KexNext

\* Nothing but a guess that comes in the keys in use.
LEMMA OnlyGuessNext ==
  ASSUME NEW t, Formed(t), OnlyGuess(t.inbound, t.keys)
  PROVE  /\ KexNext(t)
         /\ t.inbound # <<>> => t.inbound[1].type = "GUESS" /\ Tail(t.inbound) = <<>>
<1> SUFFICES ASSUME t.inbound # <<>>
             PROVE  KexNext(t) /\ t.inbound[1].type = "GUESS" /\ Tail(t.inbound) = <<>>
  BY DEF KexNext
<1>1. IsList(t.inbound)
  BY DEF Formed, ArePackets
<1>2. 1 \in DOMAIN t.inbound
  BY <1>1, NotEmpty
<1>3. t.inbound[1].type = "GUESS" /\ t.inbound[1].key = t.keys
  BY <1>2 DEF OnlyGuess, IsGuess
<1>4. Len(t.inbound) = 1
  <2> DEFINE q == t.inbound
  <2>1. Len(q) <= 1
    BY DEF OnlyGuess
  <2>2. IsList(q) /\ 1 \in DOMAIN q
    BY <1>1, <1>2
  <2> HIDE DEF q
  <2>3. Len(q) \in Nat /\ DOMAIN q = 1..Len(q)
    BY <2>2, ListHas
  <2>4. Len(q) = 1
    BY <2>1, <2>2, <2>3
  <2>. QED
    BY <2>4 DEF q
<1>. QED
  BY <1>1, <1>3, <1>4, OneTail DEF KexNext, KexPackets

LEMMA GroupCameNext ==
  ASSUME NEW t, Formed(t), GroupCame(t.inbound, t.keys)
  PROVE  /\ KexNext(t) /\ t.inbound # <<>>
         /\ t.inbound[1].type \in {"GUESS", "GEX_GROUP"}
         /\ t.inbound[1].type = "GUESS" => GroupCame(Tail(t.inbound), t.keys)
         /\ t.inbound[1].type = "GEX_GROUP" => Tail(t.inbound) = <<>> /\ Guesses(t.inbound) = 0
<1> DEFINE q == t.inbound
           k == t.keys
<1>1. IsList(q)
  BY DEF Formed, ArePackets
<1>2. /\ Len(q) = Guesses(q) + 1 /\ q[Guesses(q) + 1].type = "GEX_GROUP"
      /\ \A j \in DOMAIN q : q[j].key = k
  BY DEF GroupCame
<1> HIDE DEF q, k
<1>3. Guesses(q) = IF q # <<>> /\ q[1].type = "GUESS" THEN 1 ELSE 0
  BY DEF Guesses
<1>4. q # <<>> /\ DOMAIN q = 1..Len(q) /\ Len(q) \in Nat
  <2>1. DOMAIN q = 1..Len(q) /\ Len(q) \in Nat /\ Guesses(q) \in {0, 1}
    BY <1>1, <1>3, ListHas
  <2>2. Len(q) # 0
    BY <1>2, <2>1
  <2>. QED
    BY <2>1, <2>2
<1>5. /\ IsList(Tail(q)) /\ Len(Tail(q)) = Len(q) - 1 /\ 1 \in DOMAIN q
      /\ \A j \in DOMAIN Tail(q) : j + 1 \in DOMAIN q /\ Tail(q)[j] = q[j + 1]
  BY <1>1, <1>4, TailIs
<1> DEFINE x == Tail(q)
<1> HIDE DEF x
<1>6. CASE q[1].type = "GUESS"
  <2>1. Guesses(q) = 1
    BY <1>3, <1>4, <1>6
  <2>2. Len(q) = 2 /\ q[2].type = "GEX_GROUP"
    BY <1>2, <2>1
  <2>3. Len(x) = 1 /\ IsList(x) /\ \A j \in DOMAIN x : j + 1 \in DOMAIN q /\ x[j] = q[j + 1]
    BY <1>5, <2>2 DEF x
  <2>4. 1 \in DOMAIN x /\ x # <<>>
    BY <2>3, ListHas, NotEmpty
  <2>5. x[1] = q[2]
    BY <2>3, <2>4
  <2>6. Guesses(x) = 0
    BY <2>2, <2>4, <2>5 DEF Guesses
  <2>7. GroupCame(x, k)
    <3>1. Len(x) = Guesses(x) + 1 /\ x[Guesses(x) + 1].type = "GEX_GROUP"
      BY <2>2, <2>3, <2>5, <2>6
    <3>2. \A j \in DOMAIN x : x[j].key = k
      BY <1>2, <2>3
    <3>. QED
      BY <3>1, <3>2 DEF GroupCame
  <2>8. q[1].key = k
    BY <1>2, <1>5
  <2>. QED
    BY <1>4, <1>6, <2>7, <2>8 DEF KexNext, KexPackets, q, k, x
<1>7. CASE q[1].type # "GUESS"
  <2>1. Guesses(q) = 0
    BY <1>3, <1>7
  <2>2. Len(q) = 1 /\ q[1].type = "GEX_GROUP"
    BY <1>2, <2>1
  <2>3. Tail(q) = <<>>
    BY <1>1, <2>2, OneTail
  <2>4. q[1].key = k
    BY <1>2, <1>5
  <2>. QED
    BY <1>4, <2>1, <2>2, <2>3, <2>4 DEF KexNext, KexPackets, Awaited, q, k
<1>. QED
  BY <1>6, <1>7

LEMMA RepliedNext ==
  ASSUME NEW t, Formed(t), t.keys \in Nat, NEW v, NEW reply \in {"KEXDH_REPLY", "GEX_REPLY"},
         Replied(t.inbound, v, t.keys, reply)
  PROVE  LET x == Tail(t.inbound)
         IN  /\ KexNext(t) /\ t.inbound # <<>>
             /\ t.inbound[1].type \in {"GUESS", reply}
             /\ t.inbound[1].type = "GUESS" => Replied(x, v, t.keys, reply)
             /\ t.inbound[1].type = reply =>
                  x # <<>> /\ x[1].type = "NEWKEYS" /\ x[1].key = t.keys /\ Flow(x, 1, v, t.keys + 1)
<1> DEFINE q == t.inbound
           k == t.keys
           x == Tail(q)
<1>0. IsList(q) /\ k \in Nat
  BY DEF Formed, ArePackets
<1>1. /\ Len(q) >= Guesses(q) + 2 /\ q[Guesses(q) + 1].type = reply /\ q[Guesses(q) + 2].type = "NEWKEYS"
      /\ \A j \in DOMAIN q : j <= Guesses(q) + 2 => q[j].key = k
      /\ Flow(q, Guesses(q) + 2, v, k + 1)
  BY DEF Replied
<1> HIDE DEF q, k
<1>2. Guesses(q) = IF q # <<>> /\ q[1].type = "GUESS" THEN 1 ELSE 0
  BY DEF Guesses
<1>3. q # <<>> /\ DOMAIN q = 1..Len(q) /\ Len(q) \in Nat /\ Len(q) >= 2
  <2>1. DOMAIN q = 1..Len(q) /\ Len(q) \in Nat /\ Guesses(q) \in {0, 1}
    BY <1>0, <1>2, ListHas
  <2>2. Len(q) >= 2
    BY <1>1, <2>1
  <2>. QED
    BY <2>1, <2>2
<1>4. /\ IsList(x) /\ Len(x) = Len(q) - 1 /\ 1 \in DOMAIN q
      /\ \A j \in DOMAIN x : j + 1 \in DOMAIN q /\ x[j] = q[j + 1] /\ j \in Nat
  BY <1>0, <1>3, TailIs
<1>5. DOMAIN x = 1..(Len(q) - 1)
  BY <1>4, ListHas
<1> HIDE DEF x
<1>6. q[1].key = k
  <2>1. 1 <= Guesses(q) + 2
    BY <1>2
  <2>. QED
    BY <1>1, <1>4, <2>1
<1>7. \A m \in Nat, n \in Nat : m + 1 >= n /\ Flow(q, n, v, k + 1) => Flow(x, m, v, k + 1)
  BY <1>0, <1>3, FlowTail DEF x
<1>8. CASE q[1].type = "GUESS"
  <2>1. Guesses(q) = 1
    BY <1>2, <1>3, <1>8
  <2>2. /\ Len(q) >= 3 /\ q[2].type = reply /\ q[3].type = "NEWKEYS"
        /\ \A j \in DOMAIN q : j <= 3 => q[j].key = k
        /\ Flow(q, 3, v, k + 1)
    BY <1>1, <2>1
  <2>3. 1 \in DOMAIN x /\ 2 \in DOMAIN x
    BY <1>3, <1>5, <2>2
  <2>4. x[1] = q[2] /\ x[2] = q[3]
    BY <1>4, <2>3
  <2>5. Guesses(x) = 0
    BY <2>2, <2>4 DEF Guesses
  <2>6. Flow(x, 2, v, k + 1)
    BY <1>7, <2>2
  <2>7. \A j \in DOMAIN x : j <= 2 => x[j].key = k
    BY <1>4, <2>2
  <2>8. Len(x) >= 2
    BY <1>4, <2>2, <1>3
  <2>9. Replied(x, v, k, reply)
    <3>1. Guesses(x) + 1 = 1 /\ Guesses(x) + 2 = 2
      BY <2>5
    <3>. QED
      BY <2>2, <2>4, <2>6, <2>7, <2>8, <3>1 DEF Replied
  <2>. QED
    BY <1>3, <1>6, <1>8, <2>9 DEF KexNext, KexPackets, q, k, x
<1>9. CASE q[1].type # "GUESS"
  <2>1. Guesses(q) = 0
    BY <1>2, <1>9
  <2>2. /\ q[1].type = reply /\ q[2].type = "NEWKEYS"
        /\ \A j \in DOMAIN q : j <= 2 => q[j].key = k
        /\ Flow(q, 2, v, k + 1)
    BY <1>1, <2>1
  <2>3. 1 \in DOMAIN x /\ 2 \in DOMAIN q
    BY <1>3, <1>5
  <2>4. x[1] = q[2] /\ x # <<>>
    BY <1>4, <2>3
  <2>5. x[1].key = k
    BY <2>2, <2>3, <2>4
  <2>6. Flow(x, 1, v, k + 1)
    BY <1>7, <2>2
  <2>7. q[1].type \in KexPackets
    BY <2>2 DEF KexPackets, Awaited
  <2>. QED
    BY <1>3, <1>6, <1>9, <2>2, <2>4, <2>5, <2>6, <2>7 DEF KexNext, q, k, x
<1>. QED
  BY <1>8, <1>9

LEMMA MakingNext ==
  ASSUME NEW t, Formed(t), t.keys \in Nat, NEW v, MakingKeys(t, v)
  PROVE  KexNext(t)
<1>1. NothingSent(t, v) \/ GroupAsked(t, v) \/ GroupKnown(t, v) \/ InitSent(t, v) \/ Confirmed(t, v)
  BY DEF MakingKeys
<1>2. CASE OnlyGuess(t.inbound, t.keys)
  BY <1>2, OnlyGuessNext
<1>3. CASE GroupCame(t.inbound, t.keys)
  BY <1>3, GroupCameNext
<1>4. CASE Replied(t.inbound, v, t.keys, ReplyOf(t))
  <2>1. ReplyOf(t) \in {"KEXDH_REPLY", "GEX_REPLY"}
    BY DEF ReplyOf
  <2>. QED
    BY <1>4, <2>1, RepliedNext
<1>5. CASE t.inbound = <<>>
  BY <1>5 DEF KexNext
<1>6. CASE Confirmed(t, v)
  BY <1>6 DEF Confirmed, KexNext, KexPackets, Awaited
<1>. QED
  BY <1>1, <1>2, <1>3, <1>4, <1>5, <1>6 DEF NothingSent, GroupAsked, GroupKnown, InitSent

\* The exchange stands where it stood, and so does the guess.
LEMMA StillMaking ==
  ASSUME NEW t, NEW v, MakingKeys(t, v), NEW u, At(u, "kex", 0) = At(t, "kex", 0), NoneAwaited(u), GuessKept(u),
         At(u, "burn", 0) # "idle" => u.burn /\ At(u, "dh", 0) = "sent",
         NothingSent(u, v) \/ GroupAsked(u, v) \/ GroupKnown(u, v) \/ InitSent(u, v) \/ Confirmed(u, v)
  PROVE  MakingKeys(u, v)
BY DEF MakingKeys

LEMMA GuessSame ==
  ASSUME NEW t, GuessKept(t), NEW u, u.burn => t.burn, u.kex = t.kex, u.packets = t.packets,
         u.inbound = t.inbound, At(t, "burn", 0) = "idle" => At(u, "burn", 0) = "idle"
  PROVE  GuessKept(u)
BY DEF GuessKept

\* How far an exchange of values is.
GexAt(t) == IF Gex(t) THEN "sent1" ELSE "idle"

\* e may be sent.
DhMay(t, v) ==
  /\ At(t, "dh", 0) = "idle" /\ At(t, "gex", 0) = GexAt(t)
  /\ Begun(t.outbound, v, t.keys) /\ NoneDue(t.outbound) /\ Holding(v, t.keys) /\ OnlyGuess(t.inbound, t.keys)

LEMMA NothingGuessed ==
  ASSUME NEW k
  PROVE  OnlyGuess(<<>>, k)
BY DEF OnlyGuess

LEMMA MayInit ==
  ASSUME NEW t, Ready(t), NEW v, (~Gex(t) /\ NothingSent(t, v)) \/ GroupKnown(t, v)
  PROVE  DhMay(t, v)
<1>1. CASE ~Gex(t) /\ NothingSent(t, v)
  BY <1>1 DEF NothingSent, DhMay, GexAt
<1>2. CASE GroupKnown(t, v)
  <2>1. NoneDue(<<>>)
    BY DEF NoneDue
  <2>2. Begun(t.outbound, v, t.keys)
    BY <1>2 DEF GroupKnown, Begun
  <2>. QED
    BY <1>2, <2>1, <2>2, NothingGuessed DEF GroupKnown, DhMay, GexAt
<1>. QED
  BY <1>1, <1>2

LEMMA InitIs ==
  ASSUME NEW t
  PROVE  InitOf(t) \in Inits /\ ReplyOf(t) \in {"KEXDH_REPLY", "GEX_REPLY"} /\ ReplyOf(t) \in Awaited
BY DEF InitOf, ReplyOf, Inits, Awaited

LEMMA MethodsSame ==
  ASSUME NEW t, NEW u, u.methods = t.methods
  PROVE  Gex(u) = Gex(t) /\ InitOf(u) = InitOf(t) /\ ReplyOf(u) = ReplyOf(t) /\ GexAt(u) = GexAt(t)
BY DEF Gex, InitOf, ReplyOf, GexAt

LEMMA DhInitSteps ==
  ASSUME NEW t, Ready(t), NEW v, MakingKeys(t, v), DhMay(t, v)
  PROVE  DhStepped(t, v, DhInit(t, InitOf(t)))
<1> DEFINE i == InitOf(t)
           w == PacketWrite(t, Plain(i))
           x == DhInit(t, i)
           g == Goto(w.s, "dh", 0, "sent")
           h == Goto(w.s, "dh", 0, "idle")
<1>0. Formed(t) /\ t.keys \in Nat /\ (t.fullpacket # "" => t.gone)
  BY DEF Ready
<1>1. x = IF w.rc = "" THEN R(g, "MORE") ELSE R(h, "FAIL")
  BY DEF DhInit, DhTo, DhEnd
<1>2. Wrote(t, i, w) \/ WroteNot(t, w)
  BY <1>0, KexWrite
<1>3. KexNext(t)
  BY <1>0, MakingNext
<1>4. i \in Inits
  BY InitIs
<1> HIDE DEF x, i, w
<1>5. Formed(w.s) /\ Same(t, w.s, {"outbound"})
  BY <1>2, FieldsAre DEF Wrote, WroteNot, Same
<1>6. /\ w.s.packets = t.packets /\ w.s.inbound = t.inbound /\ w.s.burn = t.burn /\ w.s.kex = t.kex
      /\ w.s.methods = t.methods /\ w.s.keys = t.keys /\ w.s.gone = t.gone /\ w.s.fullpacket = t.fullpacket
      /\ w.s.start = t.start
  BY <1>5, FieldsAre DEF Same
<1>7. Inner(t, w.s) /\ \A o, c : At(w.s, o, c) = At(t, o, c)
  <2>1. Same(t, w.s, Moving)
    BY <1>5 DEF Same, Moving
  <2>. QED
    BY <1>0, <1>5, <1>6, <2>1, InnerSame
<1>8. CASE Wrote(t, i, w)
  <2>1. x = R(g, "MORE")
    BY <1>1, <1>8 DEF Wrote
  <2>2. /\ Inner(w.s, g) /\ Same(w.s, g, {"at"}) /\ At(g, "dh", 0) = "sent"
        /\ \A o : o # "dh" => At(g, o, 0) = At(w.s, o, 0)
    <3>1. Placed(w.s, g, "dh", "sent")
      BY <1>0, <1>5, <1>6, InnerGoto
    <3> HIDE DEF g
    <3>. QED
      BY <3>1 DEF Placed
  <2> HIDE DEF g
  <2>3. x.s = g /\ x.rc = "MORE"
    BY <2>1 DEF R
  <2>4. /\ g.packets = t.packets /\ g.inbound = t.inbound /\ g.burn = t.burn /\ g.kex = t.kex
        /\ g.methods = t.methods /\ g.keys = t.keys /\ g.outbound = w.s.outbound
    BY <1>6, <2>2, FieldsAre DEF Same
  <2>5. Inner(t, g)
    BY <1>7, <2>2, InnerOn
  <2>6. At(g, "burn", 0) = "idle" /\ At(g, "kex", 0) = At(t, "kex", 0) /\ At(g, "gex", 0) = GexAt(t)
    <3>1. At(t, "burn", 0) = "idle" /\ At(t, "gex", 0) = GexAt(t)
      BY DEF MakingKeys, DhMay
    <3>. QED
      BY <1>7, <2>2, <3>1
  <2>7. Begun(g.outbound, v, g.keys) /\ Due(g.outbound, i)
    <3>1. PICK e : e.type = i /\ e.key = t.keys /\ w.s.outbound = Append(t.outbound, e)
      BY <1>8 DEF Wrote
    <3>2. IsList(t.outbound)
      BY <1>0 DEF Formed, ArePackets
    <3>3. Begun(t.outbound, v, t.keys) /\ NoneDue(t.outbound)
      BY DEF DhMay
    <3>4. Begun(Append(t.outbound, e), v, t.keys) /\ Due(Append(t.outbound, e), e.type)
      BY <1>4, <3>1, <3>2, <3>3, InitDue
    <3>. QED
      BY <2>4, <3>1, <3>4
  <2>8. InitSent(g, v)
    <3>1. Gex(g) = Gex(t) /\ InitOf(g) = i /\ GexAt(g) = GexAt(t)
      BY <2>4, MethodsSame DEF i
    <3>2. Holding(v, g.keys) /\ OnlyGuess(g.inbound, g.keys)
      BY <2>4 DEF DhMay
    <3>. QED
      BY <2>2, <2>6, <2>7, <3>1, <3>2 DEF InitSent, GexAt
  <2>9. NoneAwaited(g) /\ GuessKept(g)
    <3>1. NoneAwaited(t) /\ GuessKept(t)
      BY DEF MakingKeys
    <3>2. NoneAwaited(g)
      BY <2>4, <3>1 DEF NoneAwaited
    <3>3. GuessKept(g)
      BY <2>4, <2>6, <3>1, GuessSame
    <3>. QED
      BY <3>2, <3>3
  <2>10. MakingKeys(g, v)
    BY <2>6, <2>8, <2>9, StillMaking
  <2>. QED
    BY <1>0, <2>3, <2>4, <2>5, <2>10 DEF DhStepped, Stepped, x, i
<1>9. CASE WroteNot(t, w)
  <2>1. x = R(h, "FAIL")
    BY <1>1, <1>9 DEF WroteNot
  <2>2. Inner(w.s, h) /\ Same(w.s, h, {"at"})
    <3>1. Placed(w.s, h, "dh", "idle")
      BY <1>0, <1>5, <1>6, InnerGoto
    <3> HIDE DEF h
    <3>. QED
      BY <3>1 DEF Placed
  <2> HIDE DEF h
  <2>3. x.s = h /\ x.rc = "FAIL"
    BY <2>1 DEF R
  <2>4. h.keys = t.keys /\ h.gone = t.gone /\ h.outbound = t.outbound /\ h.inbound = t.inbound
    BY <1>6, <1>9, <2>2, FieldsAre DEF Same, WroteNot
  <2>5. Inner(t, h)
    BY <1>7, <2>2, InnerOn
  <2>6. Broken(h, v)
    <3>1. t.gone /\ Begun(t.outbound, v, t.keys)
      BY <1>9 DEF WroteNot, DhMay
    <3>. QED
      BY <1>3, <2>4, <3>1, BrokenLost
  <2>. QED
    BY <1>0, <2>3, <2>4, <2>5, <2>6 DEF DhStepped, Stepped, x, i
<1>. QED
  BY <1>2, <1>8, <1>9

LEMMA InnerBurn ==
  ASSUME NEW t, Formed(t), NEW u, Formed(u), Same(t, u, {"inbound", "fullpacket", "packets", "at"}),
         Elsewhere(t, u), u.fullpacket # "" => t.gone,
         u.inbound = t.inbound \/ (t.inbound # <<>> /\ u.inbound = Tail(t.inbound))
  PROVE  /\ Inner(t, u) /\ \A o : o # "burn" => At(u, o, 0) = At(t, o, 0)
<1>1. \A o : o # "burn" => At(u, o, 0) = At(t, o, 0)
  BY DEF Elsewhere
<1>2. Range(u.inbound) \subseteq Range(t.inbound)
  BY RangeTail
<1>3. /\ u.kex = t.kex /\ u.kexRc = t.kexRc /\ u.call = t.call /\ u.gone = t.gone
      /\ u.socket_state = t.socket_state /\ u.methods = t.methods /\ u.state = t.state
      /\ u.start = t.start
  BY FieldsAre DEF Same
<1>4. StartAt(u) = StartAt(t) /\ At(u, "kex", 0) = At(t, "kex", 0)
  BY <1>1 DEF StartAt
<1>. QED
  BY <1>1, <1>2, <1>3, <1>4 DEF Inner, Turns

LEMMA InnerSelf ==
  ASSUME NEW t, Ready(t)
  PROVE  Inner(t, t)
BY DEF Inner, Turns, Ready

\* The fields a position depends on.
SamePlace(t, u) ==
  /\ u.burn = t.burn /\ u.kex = t.kex /\ u.methods = t.methods /\ u.keys = t.keys /\ u.outbound = t.outbound

LEMMA PlaceIs ==
  ASSUME NEW t, NEW u, NEW F, Same(t, u, F),
         F \subseteq {"at", "start", "inbound", "packets", "fullpacket"}
  PROVE  SamePlace(t, u) /\ u.gone = t.gone
BY FieldsAre DEF Same, SamePlace

LEMMA FailedOf ==
  ASSUME NEW x, NEW h, x = R(h, "FAIL")
  PROVE  x.s = h /\ x.rc = "FAIL"
BY DEF R

\* Ending the exchange of values on a connection that is lost.
LEMMA DhLost ==
  ASSUME NEW t, Ready(t), NEW v, MakingKeys(t, v), t.gone,
         Begun(t.outbound, v, t.keys) \/ Open(t.outbound, v, t.keys + 1),
         NEW u, Formed(u), Inner(t, u), SamePlace(t, u), u.inbound = t.inbound \/ u.fullpacket # "",
         NEW x, x = R(Goto(u, "dh", 0, "idle"), "FAIL")
  PROVE  DhStepped(t, v, x)
<1> DEFINE h == Goto(u, "dh", 0, "idle")
<1>0. Formed(t) /\ t.keys \in Nat /\ u.gone = t.gone /\ u.keys = t.keys /\ u.outbound = t.outbound
  BY DEF Ready, Inner, Turns, SamePlace
<1>1. KexNext(t)
  BY <1>0, MakingNext
<1>2. Placed(u, h, "dh", "idle")
  BY <1>0, InnerGoto
<1> HIDE DEF h
<1>3. Inner(u, h) /\ Same(u, h, {"at"})
  BY <1>2 DEF Placed
<1>4. h.keys = t.keys /\ h.gone = t.gone /\ h.outbound = t.outbound /\ h.inbound = u.inbound /\ h.fullpacket = u.fullpacket
  BY <1>0, <1>3, FieldsAre DEF Same
<1>5. Inner(t, h)
  BY <1>3, InnerOn
<1>6. Broken(h, v)
  <2>1. h.inbound = t.inbound \/ h.fullpacket # ""
    BY <1>4
  <2>2. h.gone = t.gone /\ h.keys = t.keys /\ h.outbound = t.outbound
    BY <1>4
  <2>. QED
    BY <1>1, <2>1, <2>2, BrokenLost
<1>7. x = R(h, "FAIL")
  BY DEF h
<1>8. x.s = h /\ x.rc = "FAIL"
  BY <1>7, FailedOf
<1>. QED
  BY <1>0, <1>4, <1>5, <1>6, <1>8 DEF DhStepped, Stepped

\* It waits.
LEMMA DhWaits ==
  ASSUME NEW t, Ready(t), NEW v, NEW u, Inner(t, u), u.keys = t.keys, NEW rc \in {"WAIT", "EAGAIN"},
         NEW x, x = R(u, rc)
  PROVE  DhStepped(t, v, x)
<1>1. x.s = u /\ x.rc = rc
  BY DEF R
<1>2. t.keys \in Nat
  BY DEF Ready
<1>. QED
  BY <1>1, <1>2 DEF DhStepped, Stepped

LEMMA DhMore ==
  ASSUME NEW t, Ready(t), NEW v, NEW u, Inner(t, u), u.keys = t.keys, MakingKeys(u, v),
         NEW x, x = R(u, "MORE")
  PROVE  DhStepped(t, v, x)
<1>1. x.s = u /\ x.rc = "MORE"
  BY DEF R
<1>2. t.keys \in Nat
  BY DEF Ready
<1>. QED
  BY <1>1, <1>2 DEF DhStepped, Stepped

\* What is still to come after the guess has.
LEMMA InitGoesOn ==
  ASSUME NEW t, Ready(t), NEW v, InitSent(t, v), NEW u, u.methods = t.methods, u.keys = t.keys,
         u.outbound = t.outbound,
         u.inbound = t.inbound \/ (t.inbound # <<>> /\ t.inbound[1].type = "GUESS" /\ u.inbound = Tail(t.inbound)),
         At(u, "gex", 0) = At(t, "gex", 0), At(u, "dh", 0) \in {"sent", "sent1"},
         At(u, "dh", 0) = "sent1" => ~u.burn
  PROVE  InitSent(u, v)
<1>1. /\ Gex(u) = Gex(t) /\ InitOf(u) = InitOf(t) /\ ReplyOf(u) = ReplyOf(t)
      /\ ReplyOf(t) \in {"KEXDH_REPLY", "GEX_REPLY"}
  BY MethodsSame, InitIs
<1>2. Formed(t) /\ t.keys \in Nat
  BY DEF Ready
<1>3. \/ /\ Begun(t.outbound, v, t.keys) /\ Due(t.outbound, InitOf(t))
         /\ Holding(v, t.keys) /\ OnlyGuess(t.inbound, t.keys)
      \/ /\ Within(t.outbound, v, t.keys) /\ t.outbound = <<>> /\ ~v.offered
         /\ Replied(t.inbound, v, t.keys, ReplyOf(t))
  BY DEF InitSent
<1>4. ASSUME OnlyGuess(t.inbound, t.keys) PROVE OnlyGuess(u.inbound, t.keys)
  <2>1. t.inbound # <<>> => Tail(t.inbound) = <<>>
    BY <1>2, <1>4, OnlyGuessNext
  <2>. QED
    BY <1>4, <2>1, NothingGuessed
<1>5. ASSUME Replied(t.inbound, v, t.keys, ReplyOf(t)) PROVE Replied(u.inbound, v, t.keys, ReplyOf(t))
  <2>1. t.inbound[1].type = "GUESS" => Replied(Tail(t.inbound), v, t.keys, ReplyOf(t))
    BY <1>1, <1>2, <1>5, RepliedNext
  <2>. QED
    BY <1>5, <2>1
<1>6. \/ /\ Begun(u.outbound, v, u.keys) /\ Due(u.outbound, InitOf(u))
         /\ Holding(v, u.keys) /\ OnlyGuess(u.inbound, u.keys)
      \/ /\ Within(u.outbound, v, u.keys) /\ u.outbound = <<>> /\ ~v.offered
         /\ Replied(u.inbound, v, u.keys, ReplyOf(u))
  BY <1>1, <1>3, <1>4, <1>5
<1>7. At(u, "gex", 0) = IF Gex(u) THEN "sent1" ELSE "idle"
  BY <1>1 DEF InitSent
<1>. QED
  BY <1>6, <1>7 DEF InitSent

LEMMA DhBurnSteps ==
  ASSUME NEW t, Ready(t), NEW v, MakingKeys(t, v), InitSent(t, v), At(t, "dh", 0) = "sent", NEW net
  PROVE  DhStepped(t, v, DhBurn(t, net))
<1> DEFINE b == Burn(t, net)
           x == DhBurn(t, net)
<1>0. Formed(t) /\ t.keys \in Nat /\ (t.fullpacket # "" => t.gone)
  BY DEF Ready
<1>1. x = IF ~t.burn THEN R(Goto(t, "dh", 0, "sent1"), "MORE")
          ELSE IF b.rc = "" THEN R(Goto([b.s EXCEPT !.burn = FALSE], "dh", 0, "sent1"), "MORE")
          ELSE IF b.rc = "FAIL" THEN R(Goto(b.s, "dh", 0, "idle"), "FAIL")
          ELSE R(b.s, b.rc)
  BY Zenon DEF DhBurn, DhTo, DhFails, DhEnd
<1>2. Sound(t) /\ "EXCHANGING_KEYS" \in t.state /\ (t.socket_state = "disconnected" => t.gone)
  BY <1>0, MakingNext, KexSound
<1>3. GuessKept(t) /\ NoneAwaited(t)
  BY DEF MakingKeys
<1> HIDE DEF x, b
<1>4. CASE ~t.burn
  <2> DEFINE g == Goto(t, "dh", 0, "sent1")
  <2>1. x = R(g, "MORE")
    BY <1>1, <1>4
  <2>2. Placed(t, g, "dh", "sent1")
    BY <1>0, InnerGoto
  <2> HIDE DEF g
  <2>3. /\ Inner(t, g) /\ Same(t, g, {"at"}) /\ At(g, "dh", 0) = "sent1"
        /\ \A o : o # "dh" => At(g, o, 0) = At(t, o, 0)
    BY <2>2 DEF Placed
  <2>4. SamePlace(t, g) /\ g.packets = t.packets /\ g.inbound = t.inbound
    BY <2>3, FieldsAre DEF Same, SamePlace
  <2>5. At(g, "burn", 0) = "idle" /\ At(g, "gex", 0) = At(t, "gex", 0) /\ At(g, "kex", 0) = At(t, "kex", 0)
    <3>1. At(t, "burn", 0) = "idle"
      BY <1>4 DEF MakingKeys
    <3>. QED
      BY <2>3, <3>1
  <2>6. InitSent(g, v)
    BY <1>4, <2>3, <2>4, <2>5, InitGoesOn DEF SamePlace
  <2>7. NoneAwaited(g)
    BY <1>3, <2>4 DEF NoneAwaited
  <2>8. GuessKept(g)
    BY <1>4, <2>4 DEF GuessKept, SamePlace
  <2>9. MakingKeys(g, v)
    BY <2>5, <2>6, <2>7, <2>8, StillMaking
  <2>10. g.keys = t.keys
    BY <2>4 DEF SamePlace
  <2>11. DhStepped(t, v, x)
    BY <2>1, <2>3, <2>9, <2>10, DhMore
  <2>. QED
    BY <2>11 DEF x
<1>5. CASE t.burn
  <2>1. BurnWaits(t, b) \/ BurnLoses(t, b) \/ BurnBegins(t, b) \/ Burnt(t, b)
    <3>1. Awaits(t) \/ (Keeping(t) /\ At(t, "burn", 0) = "idle")
      BY <1>3, <1>5 DEF GuessKept, Awaits, Keeping, Guesses
    <3>. QED
      BY <1>2, <3>1, BurnKex DEF b
  <2>2. CASE BurnWaits(t, b)
    <3>1. x = R(t, b.rc) /\ b.rc \in {"WAIT", "EAGAIN"}
      BY <1>1, <1>5, <2>2 DEF BurnWaits
    <3>2. DhStepped(t, v, x)
      BY <3>1, InnerSelf, DhWaits
    <3>. QED
      BY <3>2 DEF x
  <2>3. CASE BurnLoses(t, b)
    <3>1. x = R(Goto(b.s, "dh", 0, "idle"), "FAIL")
      BY <1>1, <1>5, <2>3 DEF BurnLoses
    <3>2. /\ Formed(b.s) /\ t.gone /\ Same(t, b.s, {"inbound", "fullpacket", "at"}) /\ Elsewhere(t, b.s)
          /\ b.s.inbound = t.inbound \/ (b.s.fullpacket # "" /\ t.inbound # <<>> /\ b.s.inbound = Tail(t.inbound))
      BY <2>3 DEF BurnLoses
    <3>3. Inner(t, b.s)
      <4>1. Same(t, b.s, {"inbound", "fullpacket", "packets", "at"})
        BY <3>2 DEF Same
      <4>. QED
        BY <1>0, <3>2, <4>1, InnerBurn
    <3>4. SamePlace(t, b.s)
      BY <3>2, PlaceIs
    <3>5. Begun(t.outbound, v, t.keys)
      BY DEF InitSent, Begun
    <3>6. DhStepped(t, v, x)
      BY <3>1, <3>2, <3>3, <3>4, <3>5, DhLost
    <3>. QED
      BY <3>6 DEF x
  <2>4. CASE BurnBegins(t, b)
    <3>1. x = R(b.s, "MORE")
      BY <1>1, <1>5, <2>4 DEF BurnBegins
    <3>2. Formed(b.s) /\ Same(t, b.s, {"at"}) /\ Elsewhere(t, b.s) /\ Awaits(t)
      BY <2>4 DEF BurnBegins
    <3>3. SamePlace(t, b.s) /\ b.s.packets = t.packets /\ b.s.inbound = t.inbound /\ b.s.fullpacket = t.fullpacket
          /\ b.s.gone = t.gone
      BY <3>2, FieldsAre DEF Same, SamePlace
    <3>4. Inner(t, b.s) /\ \A o : o # "burn" => At(b.s, o, 0) = At(t, o, 0)
      <4>1. Same(t, b.s, {"inbound", "fullpacket", "packets", "at"})
        BY <3>2 DEF Same
      <4>. QED
        BY <1>0, <3>2, <3>3, <4>1, InnerBurn
    <3>5. /\ At(b.s, "dh", 0) = "sent" /\ At(b.s, "gex", 0) = At(t, "gex", 0)
          /\ At(b.s, "kex", 0) = At(t, "kex", 0)
      BY <3>4
    <3>6. InitSent(b.s, v)
      BY <3>3, <3>5, InitGoesOn DEF SamePlace
    <3>7. NoneAwaited(b.s)
      BY <1>3, <3>3 DEF NoneAwaited
    <3>8. GuessKept(b.s) /\ b.s.burn
      BY <1>3, <1>5, <3>2, <3>3 DEF GuessKept, SamePlace, Awaits, Guesses
    <3>9. MakingKeys(b.s, v)
      BY <3>5, <3>6, <3>7, <3>8, StillMaking
    <3>10. b.s.keys = t.keys
      BY <3>3 DEF SamePlace
    <3>11. DhStepped(t, v, x)
      BY <3>1, <3>4, <3>9, <3>10, DhMore
    <3>. QED
      BY <3>11 DEF x
  <2>5. CASE Burnt(t, b)
    <3> DEFINE d == [b.s EXCEPT !.burn = FALSE]
               g == Goto(d, "dh", 0, "sent1")
    <3>1. x = R(g, "MORE")
      BY <1>1, <1>5, <2>5 DEF Burnt
    <3>2. /\ Formed(b.s) /\ Same(t, b.s, {"inbound", "fullpacket", "packets", "at"})
          /\ b.s.packets = <<>> /\ At(b.s, "burn", 0) = "idle" /\ (b.s.fullpacket # "" => t.gone)
          /\ Elsewhere(t, b.s)
      BY <2>5 DEF Burnt
    <3>3. b.s.inbound = t.inbound \/ (t.inbound # <<>> /\ t.inbound[1].type = "GUESS" /\ b.s.inbound = Tail(t.inbound))
      BY <2>5 DEF Burnt, Awaits
    <3>4. Inner(t, b.s) /\ \A o : o # "burn" => At(b.s, o, 0) = At(t, o, 0)
      BY <1>0, <3>2, <3>3, InnerBurn
    <3>5. Formed(d) /\ Same(b.s, d, {"burn"}) /\ d.burn = FALSE
      BY <3>2, FieldsAre DEF Formed, Same
    <3> HIDE DEF d
    <3>6. b.s.gone = t.gone
      BY <3>2, FieldsAre DEF Same
    <3>7. d.fullpacket = b.s.fullpacket /\ d.start = b.s.start /\ d.inbound = b.s.inbound /\ d.gone = t.gone
      BY <3>5, <3>6, FieldsAre DEF Same
    <3>8. Inner(b.s, d) /\ \A o, c : At(d, o, c) = At(b.s, o, c)
      <4> DEFINE c == b.s
      <4>1. Same(c, d, Moving)
        BY <3>5 DEF Same, Moving
      <4>2. d.fullpacket # "" => c.gone
        BY <3>2, <3>6, <3>7
      <4>3. "kex" \in d.start <=> "kex" \in c.start
        BY <3>7
      <4>4. Formed(c) /\ d.inbound = c.inbound
        BY <3>2, <3>7
      <4>5. Formed(d)
        BY <3>5
      <4> HIDE DEF c
      <4>6. Inner(c, d) /\ \A o, e : At(d, o, e) = At(c, o, e)
        BY <4>1, <4>2, <4>3, <4>4, <4>5, InnerSame
      <4>. QED
        BY <4>6 DEF c
    <3>9. Placed(d, g, "dh", "sent1")
      BY <3>2, <3>5, <3>7, InnerGoto
    <3> HIDE DEF g
    <3>10. /\ Inner(d, g) /\ Same(d, g, {"at"}) /\ At(g, "dh", 0) = "sent1"
           /\ \A o : o # "dh" => At(g, o, 0) = At(d, o, 0)
      BY <3>9 DEF Placed
    <3>11. Inner(t, g)
      BY <3>4, <3>8, <3>10, InnerOn
    <3>12. /\ g.methods = t.methods /\ g.keys = t.keys /\ g.outbound = t.outbound /\ ~g.burn
           /\ g.packets = <<>> /\ g.inbound = b.s.inbound
      BY <3>2, <3>5, <3>10, FieldsAre DEF Same
    <3>13. /\ At(g, "burn", 0) = "idle" /\ At(g, "gex", 0) = At(t, "gex", 0) /\ At(g, "kex", 0) = At(t, "kex", 0)
      BY <3>2, <3>4, <3>8, <3>10
    <3>14. InitSent(g, v)
      BY <3>3, <3>10, <3>12, <3>13, InitGoesOn
    <3>15. NoneAwaited(g) /\ GuessKept(g)
      BY <3>12 DEF NoneAwaited, GuessKept
    <3>16. MakingKeys(g, v)
      BY <3>13, <3>14, <3>15, StillMaking
    <3>17. DhStepped(t, v, x)
      BY <3>1, <3>11, <3>12, <3>16, DhMore
    <3>. QED
      BY <3>17 DEF x
  <2>. QED
    BY <2>1, <2>2, <2>3, <2>4, <2>5
<1>. QED
  BY <1>4, <1>5

\* What a packet is waited for in changes nothing around it.
Inside(t, u) ==
  /\ Inner(t, u) /\ SamePlace(t, u) /\ u.gone = t.gone /\ Formed(u)
  /\ \A o, c : At(u, o, c) = At(t, o, c)

LEMMA RequireInside ==
  ASSUME NEW t, Ready(t), NEW who, who # "kex", NEW type, NEW q,
         Waits(t, who, q) \/ Loses(t, who, q) \/ Keeps(t, who, type, q) \/ Gives(t, who, type, q)
  PROVE  Inside(t, q.s)
<1> DEFINE u == q.s
<1>0. Formed(t) /\ (t.fullpacket # "" => t.gone)
  BY DEF Ready
<1>1. Formed(u)
  BY DEF Waits, Loses, Keeps, Gives
<1>2. Same(t, u, {"start", "inbound", "packets", "fullpacket"})
  BY DEF Waits, Loses, Keeps, Gives, Same
<1>3. u.inbound = t.inbound \/ (t.inbound # <<>> /\ u.inbound = Tail(t.inbound))
  <2>1. CASE Waits(t, who, q)
    BY <2>1, FieldsAre DEF Waits, Same
  <2>2. CASE ~Waits(t, who, q)
    BY <2>2 DEF Loses, Keeps, Gives
  <2>. QED
    BY <2>1, <2>2
<1>4. u.fullpacket # "" => t.gone
  <2>1. CASE Waits(t, who, q)
    BY <1>0, <2>1, FieldsAre DEF Waits, Same
  <2>2. CASE ~Waits(t, who, q)
    BY <2>2 DEF Loses, Keeps, Gives
  <2>. QED
    BY <2>1, <2>2
<1>5. "kex" \in u.start <=> "kex" \in t.start
  BY DEF Waits, Loses, Keeps, Gives
<1> HIDE DEF u
<1>6. Same(t, u, Moving)
  BY <1>2 DEF Same, Moving
<1>7. Inner(t, u) /\ \A o, c : At(u, o, c) = At(t, o, c)
  BY <1>0, <1>1, <1>3, <1>4, <1>5, <1>6, InnerSame
<1>8. SamePlace(t, u) /\ u.gone = t.gone
  BY <1>2, PlaceIs
<1>9. Inside(t, u)
  BY <1>1, <1>7, <1>8 DEF Inside
<1>. QED
  BY <1>9 DEF u

\* A guess that is kept is not awaited.
LEMMA KeptNone ==
  ASSUME NEW t, Formed(t), NoneAwaited(t), NEW p, p.type \notin Awaited,
         NEW u, u.packets = Append(t.packets, p)
  PROVE  NoneAwaited(u)
<1> DEFINE q == t.packets
           x == u.packets
<1>1. IsList(q)
  BY DEF Formed, ArePackets
<1>2. x = Append(q, p) /\ \A j \in DOMAIN q : q[j].type \notin Awaited
  BY DEF NoneAwaited
<1> HIDE DEF q, x
<1>3. \A j \in DOMAIN x : x[j] = p \/ (j \in DOMAIN q /\ x[j] = q[j])
  BY <1>1, <1>2, AppendedIs
<1>4. \A j \in DOMAIN x : x[j].type \notin Awaited
  BY <1>2, <1>3
<1>. QED
  BY <1>4 DEF NoneAwaited, x

LEMMA NoneLacks ==
  ASSUME NEW t, NoneAwaited(t), NEW type \in Awaited
  PROVE  Lacks(t, type)
BY DEF NoneAwaited, Lacks

\* The reply has come.
LEMMA ReplyCame ==
  ASSUME NEW t, Ready(t), NEW v, InitSent(t, v), t.inbound # <<>>
  PROVE  LET x == Tail(t.inbound)
         IN  /\ t.inbound[1].type \in {"GUESS", ReplyOf(t)}
             /\ t.inbound[1].type # "GUESS" =>
                  /\ Within(<<>>, v, t.keys) /\ t.outbound = <<>> /\ ~v.offered
                  /\ x # <<>> /\ x[1].type = "NEWKEYS" /\ x[1].key = t.keys /\ Flow(x, 1, v, t.keys + 1)
<1> DEFINE x == Tail(t.inbound)
           r == ReplyOf(t)
<1>0. Formed(t) /\ t.keys \in Nat
  BY DEF Ready
<1>1. r \in {"KEXDH_REPLY", "GEX_REPLY"}
  BY InitIs
<1> HIDE DEF x
<1>2. CASE OnlyGuess(t.inbound, t.keys)
  <2>1. t.inbound[1].type = "GUESS"
    BY <1>0, <1>2, OnlyGuessNext
  <2>. QED
    BY <2>1
<1>3. CASE Within(t.outbound, v, t.keys) /\ t.outbound = <<>> /\ ~v.offered /\ Replied(t.inbound, v, t.keys, r)
  <2> HIDE DEF r
  <2>1. /\ t.inbound[1].type \in {"GUESS", r}
        /\ t.inbound[1].type = r =>
             x # <<>> /\ x[1].type = "NEWKEYS" /\ x[1].key = t.keys /\ Flow(x, 1, v, t.keys + 1)
    BY <1>0, <1>1, <1>3, RepliedNext DEF x
  <2>2. Within(<<>>, v, t.keys) /\ t.outbound = <<>> /\ ~v.offered
    BY <1>3
  <2>. QED
    BY <2>1, <2>2 DEF x, r
<1>. QED
  BY <1>2, <1>3 DEF InitSent

\* Every case of what the reply's place in the exchange gives.
ReplyOutcome(t, q, c) ==
  IF q.rc = ""
  THEN IF q.p.what = "forged" THEN R(Goto(q.s, "dh", 0, "idle"), "FAIL")
       ELSE IF c.rc = "" THEN R(Goto(c.s, "dh", 0, "sent3"), "MORE")
       ELSE R(Goto(c.s, "dh", 0, "idle"), "FAIL")
  ELSE IF q.rc = "FAIL" THEN R(Goto(q.s, "dh", 0, "idle"), "FAIL") ELSE R(q.s, q.rc)

LEMMA ReplyLost ==
  ASSUME NEW t, Ready(t), NEW v, MakingKeys(t, v), InitSent(t, v), NEW q, Loses(t, "dh", q)
  PROVE  DhStepped(t, v, R(Goto(q.s, "dh", 0, "idle"), "FAIL"))
<1> DEFINE u == q.s
<1>1. Inside(t, u)
  BY RequireInside
<1>2. t.gone /\ (u.inbound = t.inbound \/ u.fullpacket # "")
  BY DEF Loses
<1>3. Begun(t.outbound, v, t.keys)
  BY DEF InitSent, Begun
<1> HIDE DEF u
<1>4. Inner(t, u) /\ SamePlace(t, u) /\ Formed(u)
  BY <1>1 DEF Inside
<1>5. DhStepped(t, v, R(Goto(u, "dh", 0, "idle"), "FAIL"))
  BY <1>2, <1>3, <1>4, DhLost
<1>. QED
  BY <1>5 DEF u

LEMMA ReplyKept ==
  ASSUME NEW t, Ready(t), NEW v, MakingKeys(t, v), InitSent(t, v), At(t, "dh", 0) = "sent1",
         NEW q, Keeps(t, "dh", ReplyOf(t), q)
  PROVE  DhStepped(t, v, R(q.s, "MORE"))
<1> DEFINE u == q.s
           p == t.inbound[1]
<1>0. Formed(t) /\ t.keys \in Nat /\ ~t.burn
  BY DEF Ready, InitSent
<1>1. Inside(t, u)
  BY RequireInside
<1>2. t.inbound # <<>> /\ p.type # ReplyOf(t) /\ u.inbound = Tail(t.inbound) /\ u.packets = Append(t.packets, p)
  BY DEF Keeps
<1>3. p.type = "GUESS"
  BY <1>2, ReplyCame
<1> HIDE DEF u
<1>4. /\ Inner(t, u) /\ SamePlace(t, u) /\ Formed(u) /\ \A o, c : At(u, o, c) = At(t, o, c)
  BY <1>1 DEF Inside
<1>5. InitSent(u, v)
  BY <1>0, <1>2, <1>3, <1>4, InitGoesOn DEF SamePlace
<1>6. NoneAwaited(t) /\ (At(t, "burn", 0) # "idle" => t.burn)
  BY DEF MakingKeys
<1>7. NoneAwaited(u)
  <2>1. p.type \notin Awaited
    BY <1>3 DEF Awaited
  <2>. QED
    BY <1>0, <1>2, <1>6, <2>1, KeptNone
<1>8. GuessKept(u)
  BY <1>0, <1>4 DEF SamePlace, GuessKept
<1>9. MakingKeys(u, v)
  BY <1>0, <1>4, <1>5, <1>6, <1>7, <1>8, StillMaking
<1>10. DhStepped(t, v, R(u, "MORE"))
  BY <1>4, <1>9, DhMore DEF SamePlace
<1>. QED
  BY <1>10 DEF u

\* A step of the exchange of values that fails with more in the keys in use, or the connection lost.
LEMMA DhBroken ==
  ASSUME NEW t, Ready(t), NEW v, NEW u, Formed(u), Inner(t, u), u.keys = t.keys, u.gone = t.gone,
         NEW h, h = Goto(u, "dh", 0, "idle"), Broken(u, v)
  PROVE  DhStepped(t, v, R(h, "FAIL"))
<1>0. Formed(t) /\ t.keys \in Nat /\ (u.fullpacket # "" => u.gone)
  BY DEF Ready, Inner, Turns
<1>1. Placed(u, h, "dh", "idle")
  BY <1>0, InnerGoto
<1>2. Inner(u, h) /\ Same(u, h, {"at"})
  BY <1>1 DEF Placed
<1>3. Inner(t, h)
  BY <1>2, InnerOn
<1>4. /\ h.keys = u.keys /\ h.gone = u.gone /\ h.outbound = u.outbound
      /\ h.inbound = u.inbound /\ h.fullpacket = u.fullpacket
  BY <1>2, FieldsAre DEF Same
<1>5. Broken(h, v)
  BY <1>4 DEF Broken
<1>6. h.keys \in Nat
  BY <1>0, <1>4
<1> DEFINE x == R(h, "FAIL")
<1>7. x.s = h /\ x.rc = "FAIL"
  BY FailedOf
<1> HIDE DEF x
<1>8. DhStepped(t, v, x)
  BY <1>3, <1>5, <1>6, <1>7 DEF DhStepped, Stepped
<1>. QED
  BY <1>8 DEF x

\* The reply is good, and NEWKEYS is sent.
LEMMA ReplyGiven ==
  ASSUME NEW t, Ready(t), NEW v, MakingKeys(t, v), InitSent(t, v), At(t, "dh", 0) = "sent1",
         NEW q, Gives(t, "dh", ReplyOf(t), q), NEW c, c = PacketWrite(q.s, Plain("NEWKEYS"))
  PROVE  DhStepped(t, v, ReplyOutcome(t, q, c))
<1> DEFINE u == q.s
           k == t.keys
<1>0. Formed(t) /\ k \in Nat /\ ~t.burn
  BY DEF Ready, InitSent
<1>1. Inside(t, u)
  BY RequireInside
<1>2. t.inbound # <<>> /\ t.inbound[1].type = ReplyOf(t) /\ u.inbound = Tail(t.inbound) /\ q.rc = ""
      /\ Same(t, u, {"start", "inbound", "fullpacket"})
  BY DEF Gives
<1>3. /\ Within(<<>>, v, k) /\ t.outbound = <<>> /\ ~v.offered
      /\ u.inbound # <<>> /\ u.inbound[1].type = "NEWKEYS" /\ u.inbound[1].key = k /\ Flow(u.inbound, 1, v, k + 1)
  <2>1. ReplyOf(t) # "GUESS"
    BY DEF ReplyOf
  <2>. QED
    BY <1>2, <2>1, ReplyCame
<1>4. u.packets = t.packets
  BY <1>2, FieldsAre DEF Same
<1>5. c = PacketWrite(u, Plain("NEWKEYS"))
  OBVIOUS
<1>6. ReplyOutcome(t, q, c) = IF q.p.what = "forged" THEN R(Goto(u, "dh", 0, "idle"), "FAIL")
                              ELSE IF c.rc = "" THEN R(Goto(c.s, "dh", 0, "sent3"), "MORE")
                              ELSE R(Goto(c.s, "dh", 0, "idle"), "FAIL")
  BY <1>2 DEF ReplyOutcome
<1> HIDE DEF u
<1>7. /\ Inner(t, u) /\ SamePlace(t, u) /\ Formed(u) /\ u.gone = t.gone
      /\ \A o, d : At(u, o, d) = At(t, o, d)
  BY <1>1 DEF Inside
<1>8. /\ u.burn = t.burn /\ u.kex = t.kex /\ u.methods = t.methods /\ u.keys = k /\ u.outbound = <<>>
  BY <1>3, <1>7 DEF SamePlace
<1> HIDE DEF k
<1>9. Broken(u, v)
  <2>1. Begun(u.outbound, v, u.keys)
    BY <1>3, <1>8 DEF Begun
  <2>. QED
    BY <1>3, <1>8, <2>1 DEF Broken
<1>10. CASE q.p.what = "forged"
  <2>1. DhStepped(t, v, R(Goto(u, "dh", 0, "idle"), "FAIL"))
    BY <1>7, <1>8, <1>9, DhBroken DEF k
  <2>. QED
    BY <1>6, <1>10, <2>1
<1>11. Wrote(u, "NEWKEYS", c) \/ WroteNot(u, c)
  BY <1>5, <1>7, KexWrite
<1>12. CASE q.p.what # "forged" /\ WroteNot(u, c)
  <2> DEFINE w == c.s
             h == Goto(w, "dh", 0, "idle")
  <2>1. Formed(w) /\ Same(u, w, {}) /\ c.rc = "FAIL"
    BY <1>12 DEF WroteNot
  <2>2. ReplyOutcome(t, q, c) = R(h, "FAIL")
    BY <1>6, <1>12, <2>1
  <2> HIDE DEF w
  <2>3. /\ w.outbound = u.outbound /\ w.keys = u.keys /\ w.gone = u.gone /\ w.inbound = u.inbound
        /\ w.fullpacket = u.fullpacket /\ w.start = u.start
    BY <2>1, FieldsAre DEF Same
  <2>4. Inner(u, w)
    <3>1. Same(u, w, Moving)
      BY <2>1 DEF Same
    <3>2. w.fullpacket # "" => u.gone
      BY <1>7, <2>3 DEF Inner, Turns
    <3>. QED
      BY <1>7, <2>1, <2>3, <3>1, <3>2, InnerSame
  <2>5. Inner(t, w)
    BY <1>7, <2>4, InnerOn
  <2>6. Broken(w, v)
    BY <1>9, <2>3 DEF Broken
  <2>7. DhStepped(t, v, R(h, "FAIL"))
    BY <1>7, <1>8, <2>1, <2>3, <2>5, <2>6, DhBroken DEF k
  <2>. QED
    BY <2>2, <2>7
<1>13. CASE q.p.what # "forged" /\ Wrote(u, "NEWKEYS", c)
  <2> DEFINE w == c.s
             g == Goto(w, "dh", 0, "sent3")
  <2>1. Formed(w) /\ Same(u, w, {"outbound"}) /\ c.rc = ""
    BY <1>13 DEF Wrote
  <2>2. ReplyOutcome(t, q, c) = R(g, "MORE")
    BY <1>6, <1>13, <2>1
  <2>3. PICK e : e.type = "NEWKEYS" /\ e.key = k /\ w.outbound = Append(<<>>, e)
    BY <1>8, <1>13 DEF Wrote
  <2> HIDE DEF w
  <2>4. /\ w.burn = u.burn /\ w.kex = u.kex /\ w.methods = u.methods /\ w.keys = u.keys /\ w.inbound = u.inbound
        /\ w.packets = u.packets /\ w.fullpacket = u.fullpacket /\ w.start = u.start /\ w.gone = u.gone
    BY <2>1, FieldsAre DEF Same
  <2>5. Inner(u, w) /\ \A o, d : At(w, o, d) = At(u, o, d)
    <3>1. Same(u, w, Moving)
      BY <2>1 DEF Same, Moving
    <3>2. w.fullpacket # "" => u.gone
      BY <1>7, <2>4 DEF Inner, Turns
    <3>3. ("kex" \in w.start <=> "kex" \in u.start) /\ w.inbound = u.inbound /\ Formed(u) /\ Formed(w)
      BY <1>7, <2>1, <2>4
    <3>. QED
      BY <3>1, <3>2, <3>3, InnerSame
  <2>6. Placed(w, g, "dh", "sent3")
    <3>1. w.fullpacket # "" => w.gone
      BY <1>7, <2>4 DEF Inner, Turns
    <3>. QED
      BY <2>1, <3>1, InnerGoto
  <2> HIDE DEF g
  <2>7. /\ Inner(w, g) /\ Same(w, g, {"at"}) /\ At(g, "dh", 0) = "sent3"
        /\ \A o : o # "dh" => At(g, o, 0) = At(w, o, 0)
    BY <2>6 DEF Placed
  <2>8. /\ g.burn = t.burn /\ g.kex = t.kex /\ g.methods = t.methods /\ g.keys = k /\ g.inbound = u.inbound
        /\ g.packets = t.packets /\ g.outbound = w.outbound
    BY <1>4, <1>8, <2>4, <2>7, FieldsAre DEF Same
  <2>9. Inner(t, g)
    BY <1>7, <2>5, <2>7, InnerOn
  <2>10. /\ At(g, "burn", 0) = At(t, "burn", 0) /\ At(g, "kex", 0) = At(t, "kex", 0)
         /\ At(g, "gex", 0) = At(t, "gex", 0)
    BY <1>7, <2>5, <2>7
  <2>11. Confirmed(g, v)
    <3>1. Open(g.outbound, v, g.keys + 1)
      BY <1>0, <1>3, <2>3, <2>8, NewKeysSent DEF k
    <3>2. Gex(g) = Gex(t)
      BY <2>8, MethodsSame
    <3>3. At(g, "gex", 0) = IF Gex(g) THEN "sent1" ELSE "idle"
      BY <2>10, <3>2 DEF InitSent
    <3>. QED
      BY <1>3, <2>7, <2>8, <3>1, <3>3 DEF Confirmed
  <2>12. NoneAwaited(t) /\ (At(t, "burn", 0) # "idle" => t.burn)
    BY DEF MakingKeys
  <2>13. MakingKeys(g, v)
    <3>1. NoneAwaited(g)
      BY <2>8, <2>12 DEF NoneAwaited
    <3>2. GuessKept(g)
      BY <1>0, <2>8 DEF GuessKept
    <3>. QED
      BY <1>0, <2>10, <2>11, <2>12, <3>1, <3>2, StillMaking
  <2>14. DhStepped(t, v, R(g, "MORE"))
    BY <2>8, <2>9, <2>13, DhMore DEF k
  <2>. QED
    BY <2>2, <2>14
<1>. QED
  BY <1>10, <1>11, <1>12, <1>13

LEMMA DhReplySteps ==
  ASSUME NEW t, Ready(t), NEW v, MakingKeys(t, v), InitSent(t, v), At(t, "dh", 0) = "sent1", NEW net
  PROVE  DhStepped(t, v, DhReply(t, ReplyOf(t), net))
<1> DEFINE q == Require(t, "dh", ReplyOf(t), net)
           c == PacketWrite(q.s, Plain("NEWKEYS"))
           x == DhReply(t, ReplyOf(t), net)
<1>0. Formed(t) /\ t.keys \in Nat
  BY DEF Ready
<1>1. x = ReplyOutcome(t, q, c)
  BY Zenon DEF DhReply, DhTo, DhFails, DhEnd, ReplyOutcome
<1>2. Waits(t, "dh", q) \/ Loses(t, "dh", q) \/ Keeps(t, "dh", ReplyOf(t), q) \/ Gives(t, "dh", ReplyOf(t), q)
  <2>1. KexNext(t)
    BY <1>0, MakingNext
  <2>2. Sound(t) /\ "EXCHANGING_KEYS" \in t.state /\ (t.socket_state = "disconnected" => t.gone)
        /\ (t.inbound # <<>> => t.inbound[1].type \in KexPackets)
    BY <2>1, KexSound
  <2>3. ReplyOf(t) \in Awaited /\ Lacks(t, ReplyOf(t))
    <3>1. NoneAwaited(t)
      BY DEF MakingKeys
    <3>. QED
      BY <3>1, InitIs, NoneLacks
  <2>. QED
    BY <2>2, <2>3, RequireKex
<1> HIDE DEF q, x
<1>3. CASE Waits(t, "dh", q)
  <2>1. q.rc \in {"WAIT", "EAGAIN"}
    BY <1>3 DEF Waits
  <2>2. x = R(q.s, q.rc)
    BY <1>1, <2>1 DEF ReplyOutcome
  <2>3. Inside(t, q.s)
    BY <1>3, RequireInside
  <2>4. Inner(t, q.s) /\ q.s.keys = t.keys
    BY <2>3 DEF Inside, SamePlace
  <2>5. DhStepped(t, v, x)
    BY <2>1, <2>2, <2>4, DhWaits
  <2>. QED
    BY <2>5 DEF x
<1>4. CASE Loses(t, "dh", q)
  <2>1. x = R(Goto(q.s, "dh", 0, "idle"), "FAIL")
    BY <1>1, <1>4 DEF ReplyOutcome, Loses
  <2>2. DhStepped(t, v, x)
    BY <1>4, <2>1, ReplyLost
  <2>. QED
    BY <2>2 DEF x
<1>5. CASE Keeps(t, "dh", ReplyOf(t), q)
  <2>1. x = R(q.s, "MORE")
    BY <1>1, <1>5 DEF ReplyOutcome, Keeps
  <2>2. DhStepped(t, v, x)
    BY <1>5, <2>1, ReplyKept
  <2>. QED
    BY <2>2 DEF x
<1>6. CASE Gives(t, "dh", ReplyOf(t), q)
  <2>1. DhStepped(t, v, x)
    BY <1>1, <1>6, ReplyGiven
  <2>. QED
    BY <2>1 DEF x
<1>. QED
  BY <1>2, <1>3, <1>4, <1>5, <1>6

\* The keys are taken: what comes next is what was announced.
TakenOn(t, u) ==
  /\ Formed(u) /\ u.inbound = t.inbound /\ u.outbound = t.outbound /\ u.packets = t.packets
  /\ u.keys = t.keys + 1 /\ Inner(t, u) /\ \A o, c : At(u, o, c) = At(t, o, c)

LEMMA KeysTaken ==
  ASSUME NEW t, Ready(t)
  PROVE  TakenOn(t, TakeKeys(t))
<1> DEFINE u == TakeKeys(t)
<1>0. Formed(t) /\ t.keys \in Nat /\ (t.fullpacket # "" => t.gone)
  BY DEF Ready
<1>1. /\ Formed(u) /\ Same(t, u, {"state", "keys", "session_id"}) /\ u.state = t.state \cup {"NEWKEYS"}
      /\ u.keys = t.keys + 1
  BY <1>0, FieldsAre DEF Formed, Same, TakeKeys
<1> HIDE DEF u
<1>2. /\ u.kex = t.kex /\ u.kexRc = t.kexRc /\ u.call = t.call /\ u.gone = t.gone
      /\ u.socket_state = t.socket_state /\ u.methods = t.methods /\ u.inbound = t.inbound
      /\ u.outbound = t.outbound /\ u.packets = t.packets /\ u.start = t.start /\ u.fullpacket = t.fullpacket
  BY <1>1, FieldsAre DEF Same
<1>3. \A o, c : At(u, o, c) = At(t, o, c)
  BY <1>1, AtSame
<1>4. ExchangeStates \cap u.state = ExchangeStates \cap t.state
  BY <1>1 DEF ExchangeStates
<1>5. StartAt(u) = StartAt(t) /\ At(u, "kex", 0) = At(t, "kex", 0)
  BY <1>3 DEF StartAt
<1>6. Turns(t, u)
  BY <1>0, <1>1, <1>2, <1>5 DEF Turns
<1>7. Inner(t, u)
  BY <1>2, <1>4, <1>5, <1>6 DEF Inner
<1>8. TakenOn(t, u)
  BY <1>1, <1>2, <1>3, <1>7 DEF TakenOn
<1>. QED
  BY <1>8 DEF u

\* NEWKEYS has come.
LEMMA KeysGiven ==
  ASSUME NEW t, Ready(t), NEW v, MakingKeys(t, v), Confirmed(t, v), NEW q, Gives(t, "dh", "NEWKEYS", q)
  PROVE  DhStepped(t, v, R(Goto(TakeKeys(q.s), "dh", 0, "idle"), ""))
<1> DEFINE u == q.s
           w == TakeKeys(u)
           g == Goto(w, "dh", 0, "idle")
           k == t.keys
<1>0. Formed(t) /\ k \in Nat /\ (t.fullpacket # "" => t.gone)
  BY DEF Ready
<1>1. Inside(t, u)
  BY RequireInside
<1>2. t.inbound # <<>> /\ u.inbound = Tail(t.inbound) /\ Same(t, u, {"start", "inbound", "fullpacket"})
  BY DEF Gives
<1>3. u.packets = t.packets /\ u.state = t.state /\ u.socket_state = t.socket_state /\ u.kexRc = t.kexRc
  BY <1>2, FieldsAre DEF Same
<1> HIDE DEF u
<1>4. /\ Inner(t, u) /\ SamePlace(t, u) /\ Formed(u) /\ u.gone = t.gone
      /\ \A o, d : At(u, o, d) = At(t, o, d)
  BY <1>1 DEF Inside
<1>5. u.outbound = t.outbound /\ u.keys = k
  BY <1>4 DEF SamePlace
<1>6. Ready(u)
  <2>1. u.fullpacket # "" => u.gone
    BY <1>4 DEF Inner, Turns
  <2>. QED
    BY <1>0, <1>3, <1>4, <1>5, <2>1 DEF Ready
<1>7. Flow(u.inbound, 0, v, k + 1)
  <2>1. IsList(t.inbound)
    BY <1>0 DEF Formed, ArePackets
  <2>2. Flow(t.inbound, 1, v, k + 1)
    BY DEF Confirmed
  <2>. QED
    BY <1>2, <2>1, <2>2, FlowTail
<1>8. TakenOn(u, w)
  BY <1>6, KeysTaken
<1> HIDE DEF w
<1>9. /\ Formed(w) /\ w.inbound = u.inbound /\ w.outbound = u.outbound /\ w.packets = u.packets
      /\ w.keys = u.keys + 1 /\ Inner(u, w) /\ \A o, c : At(w, o, c) = At(u, o, c)
  BY <1>8 DEF TakenOn
<1>10. Placed(w, g, "dh", "idle")
  <2>1. w.fullpacket # "" => w.gone
    BY <1>9 DEF Inner, Turns
  <2>. QED
    BY <1>9, <2>1, InnerGoto
<1> HIDE DEF g
<1>11. /\ Inner(w, g) /\ Same(w, g, {"at"}) /\ At(g, "dh", 0) = "idle"
       /\ \A o : o # "dh" => At(g, o, 0) = At(w, o, 0)
  BY <1>10 DEF Placed
<1>12. /\ g.inbound = u.inbound /\ g.outbound = t.outbound /\ g.packets = t.packets /\ g.keys = k + 1
  BY <1>3, <1>5, <1>9, <1>11, FieldsAre DEF Same
<1>13. Inner(t, g)
  BY <1>4, <1>9, <1>11, InnerOn
<1>14. Renewed(g, v)
  <2>1. NoneAwaited(t) /\ At(t, "burn", 0) = "idle"
    BY DEF MakingKeys, Confirmed
  <2>2. NoneAwaited(g)
    BY <1>12, <2>1 DEF NoneAwaited
  <2>3. At(g, "burn", 0) = "idle"
    BY <1>4, <1>9, <1>11, <2>1
  <2>4. Open(g.outbound, v, k + 1)
    BY <1>12 DEF Confirmed, k
  <2>. QED
    BY <1>7, <1>11, <1>12, <2>2, <2>3, <2>4 DEF Renewed
<1> DEFINE x == R(g, "")
<1>15. x.s = g /\ x.rc = ""
  BY ResultOf
<1>16. g.keys \in Nat
  <2>1. k \in Nat
    BY DEF Ready
  <2>2. k + 1 \in Nat
    BY <2>1
  <2>. QED
    BY <1>12, <2>2
<1> HIDE DEF x
<1>17. At(g, "gex", 0) = At(t, "gex", 0)
  BY <1>4, <1>9, <1>11
<1>18. DhStepped(t, v, x)
  BY <1>13, <1>14, <1>15, <1>16, <1>17 DEF DhStepped, Stepped
<1>. QED
  BY <1>18 DEF x, g, w, u

LEMMA DhNewKeysSteps ==
  ASSUME NEW t, Ready(t), NEW v, MakingKeys(t, v), Confirmed(t, v), NEW net
  PROVE  DhStepped(t, v, DhNewKeys(t, net))
<1> DEFINE q == Require(t, "dh", "NEWKEYS", net)
           x == DhNewKeys(t, net)
<1>0. Formed(t) /\ t.keys \in Nat
  BY DEF Ready
<1>1. x = IF q.rc = "" THEN R(Goto(TakeKeys(q.s), "dh", 0, "idle"), "")
          ELSE IF q.rc = "FAIL" THEN R(Goto(q.s, "dh", 0, "idle"), "FAIL") ELSE R(q.s, q.rc)
  BY Zenon DEF DhNewKeys, DhFails, DhEnd
<1>2. Waits(t, "dh", q) \/ Loses(t, "dh", q) \/ Keeps(t, "dh", "NEWKEYS", q) \/ Gives(t, "dh", "NEWKEYS", q)
  <2>1. KexNext(t)
    BY <1>0, MakingNext
  <2>2. Sound(t) /\ "EXCHANGING_KEYS" \in t.state /\ (t.socket_state = "disconnected" => t.gone)
        /\ (t.inbound # <<>> => t.inbound[1].type \in KexPackets)
    BY <2>1, KexSound
  <2>3. Lacks(t, "NEWKEYS")
    <3>1. NoneAwaited(t)
      BY DEF MakingKeys
    <3>2. "NEWKEYS" \in Awaited
      BY DEF Awaited
    <3>. QED
      BY <3>1, <3>2, NoneLacks
  <2>4. "NEWKEYS" \in Awaited
    BY DEF Awaited
  <2>. QED
    BY <2>2, <2>3, <2>4, RequireKex
<1> HIDE DEF q, x
<1>3. CASE Waits(t, "dh", q)
  <2>1. q.rc \in {"WAIT", "EAGAIN"}
    BY <1>3 DEF Waits
  <2>2. x = R(q.s, q.rc)
    BY <1>1, <2>1
  <2>3. Inside(t, q.s)
    BY <1>3, RequireInside
  <2>4. Inner(t, q.s) /\ q.s.keys = t.keys
    BY <2>3 DEF Inside, SamePlace
  <2>5. DhStepped(t, v, x)
    BY <2>1, <2>2, <2>4, DhWaits
  <2>. QED
    BY <2>5 DEF x
<1>4. CASE Loses(t, "dh", q)
  <2>1. x = R(Goto(q.s, "dh", 0, "idle"), "FAIL")
    BY <1>1, <1>4 DEF Loses
  <2>2. Inside(t, q.s)
    BY <1>4, RequireInside
  <2>3. t.gone /\ (q.s.inbound = t.inbound \/ q.s.fullpacket # "")
    BY <1>4 DEF Loses
  <2>4. Open(t.outbound, v, t.keys + 1)
    BY DEF Confirmed
  <2>5. Inner(t, q.s) /\ SamePlace(t, q.s) /\ Formed(q.s)
    BY <2>2 DEF Inside
  <2>6. DhStepped(t, v, x)
    BY <2>1, <2>3, <2>4, <2>5, DhLost
  <2>. QED
    BY <2>6 DEF x
<1>5. ~Keeps(t, "dh", "NEWKEYS", q)
  BY DEF Keeps, Confirmed
<1>6. CASE Gives(t, "dh", "NEWKEYS", q)
  <2>1. x = R(Goto(TakeKeys(q.s), "dh", 0, "idle"), "")
    BY <1>1, <1>6 DEF Gives
  <2>2. DhStepped(t, v, x)
    BY <1>6, <2>1, KeysGiven
  <2>. QED
    BY <2>2 DEF x
<1>. QED
  BY <1>2, <1>3, <1>4, <1>5, <1>6

\* Where the exchange of values is, as its position says.
DhWhere(t, v) ==
  \/ DhMay(t, v)
  \/ InitSent(t, v)
  \/ Confirmed(t, v)

LEMMA DhSteps ==
  ASSUME NEW t, Ready(t), NEW v, MakingKeys(t, v), DhWhere(t, v), NEW net
  PROVE  DhStepped(t, v, DhExchange(t, InitOf(t), ReplyOf(t), net))
<1> DEFINE x == DhExchange(t, InitOf(t), ReplyOf(t), net)
<1>1. CASE DhMay(t, v)
  <2>1. x = DhInit(t, InitOf(t))
    BY <1>1 DEF DhExchange, DhMay
  <2>. QED
    BY <1>1, <2>1, DhInitSteps
<1>2. CASE InitSent(t, v) /\ At(t, "dh", 0) = "sent"
  <2>1. x = DhBurn(t, net)
    BY <1>2 DEF DhExchange
  <2>. QED
    BY <1>2, <2>1, DhBurnSteps
<1>3. CASE InitSent(t, v) /\ At(t, "dh", 0) = "sent1"
  <2>1. x = DhReply(t, ReplyOf(t), net)
    BY <1>3 DEF DhExchange
  <2>. QED
    BY <1>3, <2>1, DhReplySteps
<1>4. CASE Confirmed(t, v)
  <2>1. x = DhNewKeys(t, net)
    BY <1>4 DEF DhExchange, Confirmed
  <2>. QED
    BY <1>4, <2>1, DhNewKeysSteps
<1>. QED
  BY <1>1, <1>2, <1>3, <1>4 DEF DhWhere, InitSent

-----------------------------------------------------------------------------
(* The exchange, with the group that may be asked for first. *)

MadeStepped(t, v, x) ==
  /\ Stepped(t, v, x)
  /\ x.rc = "" => Renewed(x.s, v) /\ At(x.s, "gex", 0) = "idle"

LEMMA MadeWaits ==
  ASSUME NEW t, Ready(t), NEW v, NEW u, Inner(t, u), u.keys = t.keys, NEW rc \in {"WAIT", "EAGAIN"}
  PROVE  MadeStepped(t, v, R(u, rc))
<1> DEFINE x == R(u, rc)
<1>1. DhStepped(t, v, x) /\ x.rc = rc
  BY DhWaits, ResultOf
<1> HIDE DEF x
<1>2. MadeStepped(t, v, x)
  BY <1>1 DEF DhStepped, MadeStepped
<1>. QED
  BY <1>2 DEF x

LEMMA MadeMore ==
  ASSUME NEW t, Ready(t), NEW v, NEW u, Inner(t, u), u.keys = t.keys, MakingKeys(u, v)
  PROVE  MadeStepped(t, v, R(u, "MORE"))
<1> DEFINE x == R(u, "MORE")
<1>1. DhStepped(t, v, x) /\ x.rc = "MORE"
  BY DhMore, ResultOf
<1> HIDE DEF x
<1>2. MadeStepped(t, v, x)
  BY <1>1 DEF DhStepped, MadeStepped
<1>. QED
  BY <1>2 DEF x

\* The group exchange ends.
LEMMA GexEnds ==
  ASSUME NEW t, Ready(t), NEW v, NEW u, Formed(u), Inner(t, u), u.keys \in Nat, NEW rc \in {"", "FAIL"},
         rc = "" => Renewed(u, v), rc = "FAIL" => Broken(u, v)
  PROVE  MadeStepped(t, v, R(Goto(u, "gex", 0, "idle"), rc))
<1> DEFINE h == Goto(u, "gex", 0, "idle")
           x == R(h, rc)
<1>0. Formed(t) /\ (u.fullpacket # "" => u.gone)
  BY DEF Ready, Inner, Turns
<1>1. Placed(u, h, "gex", "idle")
  BY <1>0, InnerGoto
<1> HIDE DEF h
<1>2. x.s = h /\ x.rc = rc
  BY ResultOf
<1> HIDE DEF x
<1>3. /\ Inner(u, h) /\ Same(u, h, {"at"}) /\ At(h, "gex", 0) = "idle"
      /\ \A o : o # "gex" => At(h, o, 0) = At(u, o, 0)
  BY <1>1 DEF Placed
<1>4. Inner(t, h)
  BY <1>3, InnerOn
<1>5. /\ h.keys = u.keys /\ h.gone = u.gone /\ h.outbound = u.outbound
      /\ h.inbound = u.inbound /\ h.fullpacket = u.fullpacket /\ h.packets = u.packets
  BY <1>3, FieldsAre DEF Same
<1>6. ASSUME Broken(u, v) PROVE Broken(h, v)
  BY <1>5, <1>6 DEF Broken
<1>7. ASSUME Renewed(u, v) PROVE Renewed(h, v)
  <2>1. NoneAwaited(h)
    BY <1>5, <1>7 DEF Renewed, NoneAwaited
  <2>2. At(h, "dh", 0) = "idle" /\ At(h, "burn", 0) = "idle"
    BY <1>3, <1>7 DEF Renewed
  <2>. QED
    BY <1>5, <1>7, <2>1, <2>2 DEF Renewed
<1>8. h.keys \in Nat
  BY <1>5
<1>9. MadeStepped(t, v, x)
  BY <1>2, <1>3, <1>4, <1>6, <1>7, <1>8 DEF MadeStepped, Stepped
<1>. QED
  BY <1>9 DEF x, h

\* The exchange of values within the group exchange.
LEMMA GexDhSteps ==
  ASSUME NEW t, Ready(t), NEW v, NEW r, DhStepped(t, v, r), Formed(r.s)
  PROVE  MadeStepped(t, v, IF r.rc \in {"", "FAIL"} THEN R(Goto(r.s, "gex", 0, "idle"), r.rc) ELSE r)
<1>1. Inner(t, r.s) /\ r.s.keys \in Nat
  BY DEF DhStepped, Stepped
<1>2. (r.rc = "" => Renewed(r.s, v)) /\ (r.rc = "FAIL" => Broken(r.s, v))
  BY DEF DhStepped, Stepped
<1>3. CASE r.rc \in {"", "FAIL"}
  <2>1. MadeStepped(t, v, R(Goto(r.s, "gex", 0, "idle"), r.rc))
    BY <1>1, <1>2, <1>3, GexEnds
  <2>. QED
    BY <1>3, <2>1
<1>4. CASE r.rc \notin {"", "FAIL"}
  <2>1. MadeStepped(t, v, r)
    BY <1>4 DEF DhStepped, MadeStepped
  <2>. QED
    BY <1>4, <2>1
<1>. QED
  BY <1>3, <1>4

\* The group is asked for.
LEMMA GexAsks ==
  ASSUME NEW t, Ready(t), NEW v, MakingKeys(t, v), Gex(t), NothingSent(t, v),
         NEW w, w = PacketWrite(t, Plain("GEX_REQUEST"))
  PROVE  MadeStepped(t, v, IF w.rc = "" THEN R(Goto(w.s, "gex", 0, "sent"), "MORE")
                           ELSE R(Goto(w.s, "gex", 0, "idle"), "FAIL"))
<1> DEFINE g == Goto(w.s, "gex", 0, "sent")
           u == w.s
<1>0. Formed(t) /\ t.keys \in Nat /\ (t.fullpacket # "" => t.gone)
  BY DEF Ready
<1>1. Wrote(t, "GEX_REQUEST", w) \/ WroteNot(t, w)
  BY <1>0, KexWrite
<1>2. KexNext(t)
  BY <1>0, MakingNext
<1>3. Formed(u) /\ Same(t, u, {"outbound"})
  BY <1>1, FieldsAre DEF Wrote, WroteNot, Same
<1>4. u = w.s
  OBVIOUS
<1> HIDE DEF u
<1>5. /\ u.packets = t.packets /\ u.inbound = t.inbound /\ u.burn = t.burn /\ u.kex = t.kex
      /\ u.methods = t.methods /\ u.keys = t.keys /\ u.gone = t.gone /\ u.fullpacket = t.fullpacket
      /\ u.start = t.start
  BY <1>3, FieldsAre DEF Same
<1>6. Inner(t, u) /\ \A o, c : At(u, o, c) = At(t, o, c)
  <2>1. Same(t, u, Moving)
    BY <1>3 DEF Same, Moving
  <2>2. (u.fullpacket # "" => t.gone) /\ ("kex" \in u.start <=> "kex" \in t.start) /\ u.inbound = t.inbound
    BY <1>0, <1>5
  <2>. QED
    BY <1>0, <1>3, <2>1, <2>2, InnerSame
<1>7. CASE Wrote(t, "GEX_REQUEST", w)
  <2>1. Placed(u, g, "gex", "sent")
    <3>1. u.fullpacket # "" => u.gone
      BY <1>0, <1>5
    <3>. QED
      BY <1>3, <1>4, <3>1, InnerGoto
  <2>2. PICK e : e.type = "GEX_REQUEST" /\ e.key = t.keys /\ u.outbound = Append(t.outbound, e)
    BY <1>4, <1>7 DEF Wrote
  <2> HIDE DEF g
  <2>3. /\ Inner(u, g) /\ Same(u, g, {"at"}) /\ At(g, "gex", 0) = "sent"
        /\ \A o : o # "gex" => At(g, o, 0) = At(u, o, 0)
    BY <2>1 DEF Placed
  <2>4. /\ g.packets = t.packets /\ g.inbound = t.inbound /\ g.burn = t.burn /\ g.kex = t.kex
        /\ g.methods = t.methods /\ g.keys = t.keys /\ g.outbound = u.outbound
    BY <1>5, <2>3, FieldsAre DEF Same
  <2>5. Inner(t, g)
    BY <1>6, <2>3, InnerOn
  <2>6. At(g, "burn", 0) = "idle" /\ At(g, "kex", 0) = At(t, "kex", 0) /\ At(g, "dh", 0) = "idle"
    <3>1. At(t, "burn", 0) = "idle" /\ At(t, "dh", 0) = "idle"
      BY DEF MakingKeys, NothingSent
    <3>. QED
      BY <1>6, <2>3, <3>1
  <2>7. Begun(g.outbound, v, g.keys) /\ Due(g.outbound, "GEX_REQUEST")
    <3>1. IsList(t.outbound)
      BY <1>0 DEF Formed, ArePackets
    <3>2. Begun(t.outbound, v, t.keys) /\ NoneDue(t.outbound)
      BY DEF NothingSent
    <3>3. e.type \in Inits
      BY <2>2 DEF Inits
    <3>4. Begun(Append(t.outbound, e), v, t.keys) /\ Due(Append(t.outbound, e), e.type)
      BY <2>2, <3>1, <3>2, <3>3, InitDue
    <3>. QED
      BY <2>2, <2>4, <3>4
  <2>8. GroupAsked(g, v)
    <3>1. Gex(g)
      BY <2>4, MethodsSame
    <3>2. Holding(v, g.keys) /\ OnlyGuess(g.inbound, g.keys)
      BY <2>4 DEF NothingSent
    <3>. QED
      BY <2>3, <2>6, <2>7, <3>1, <3>2 DEF GroupAsked
  <2>9. NoneAwaited(g) /\ GuessKept(g)
    <3>1. NoneAwaited(t) /\ GuessKept(t)
      BY DEF MakingKeys
    <3>2. NoneAwaited(g)
      BY <2>4, <3>1 DEF NoneAwaited
    <3>3. GuessKept(g)
      BY <2>4, <2>6, <3>1, GuessSame
    <3>. QED
      BY <3>2, <3>3
  <2>10. MakingKeys(g, v)
    BY <2>6, <2>8, <2>9, StillMaking
  <2>11. MadeStepped(t, v, R(g, "MORE"))
    BY <2>4, <2>5, <2>10, MadeMore
  <2>. QED
    BY <1>7, <2>11 DEF g, Wrote
<1>8. CASE WroteNot(t, w)
  <2>1. u.keys \in Nat
    BY <1>0, <1>5
  <2>2. Broken(u, v)
    <3>1. t.gone /\ Begun(t.outbound, v, t.keys)
      BY <1>8 DEF WroteNot, NothingSent
    <3>2. Same(t, u, {})
      BY <1>4, <1>8 DEF WroteNot
    <3>3. u.outbound = t.outbound
      BY <3>2, FieldsAre DEF Same
    <3>. QED
      BY <1>2, <1>5, <3>1, <3>3, BrokenLost
  <2>3. MadeStepped(t, v, R(Goto(u, "gex", 0, "idle"), "FAIL"))
    BY <1>3, <1>6, <2>1, <2>2, GexEnds
  <2>4. w.rc = "FAIL"
    BY <1>8 DEF WroteNot
  <2>. QED
    BY <1>4, <2>3, <2>4
<1>. QED
  BY <1>1, <1>7, <1>8

\* The group is waited for:
LEMMA GroupNext ==
  ASSUME NEW t, Ready(t), NEW v, GroupAsked(t, v), t.inbound # <<>>
  PROVE  LET x == Tail(t.inbound)
         IN  /\ t.inbound[1].type \in {"GUESS", "GEX_GROUP"}
             /\ t.inbound[1].type = "GUESS" =>
                  Guesses(t.inbound) = 1 /\ Guesses(x) = 0
                  /\ (OnlyGuess(t.inbound, t.keys) => OnlyGuess(x, t.keys))
                  /\ (GroupCame(t.inbound, t.keys) => GroupCame(x, t.keys))
             /\ t.inbound[1].type = "GEX_GROUP" =>
                  x = <<>> /\ Guesses(t.inbound) = 0 /\ Within(t.outbound, v, t.keys) /\ t.outbound = <<>>
<1> DEFINE q == t.inbound
           k == t.keys
           x == Tail(q)
<1>0. Formed(t)
  BY DEF Ready
<1>1. q[1].type = "GUESS" => Guesses(q) = 1
  BY DEF Guesses
<1>2. Guesses(<<>>) = 0
  BY DEF Guesses
<1>3. CASE OnlyGuess(q, k)
  <2>1. q[1].type = "GUESS" /\ x = <<>>
    BY <1>0, <1>3, OnlyGuessNext
  <2>2. ~GroupCame(q, k)
    <3>1. GroupCame(q, k) => (q[1].type = "GUESS" => GroupCame(x, k))
      BY <1>0, GroupCameNext
    <3>2. ~GroupCame(<<>>, k)
      BY <1>2 DEF GroupCame
    <3>3. GroupCame(q, k) => GroupCame(<<>>, k)
      BY <2>1, <3>1
    <3>. QED
      BY <3>2, <3>3
  <2>. QED
    BY <1>1, <1>2, <1>3, <2>1, <2>2, NothingGuessed
<1>4. CASE GroupCame(q, k) /\ ~OnlyGuess(q, k)
  <2>1. /\ q[1].type \in {"GUESS", "GEX_GROUP"}
        /\ q[1].type = "GUESS" => GroupCame(x, k)
        /\ q[1].type = "GEX_GROUP" => x = <<>> /\ Guesses(q) = 0
    BY <1>0, <1>4, GroupCameNext
  <2>2. Within(t.outbound, v, k) /\ t.outbound = <<>>
    BY <1>4 DEF GroupAsked
  <2>3. q[1].type = "GUESS" => Guesses(x) = 0
    <3> HAVE q[1].type = "GUESS"
    <3>1. GroupCame(x, k) /\ Guesses(q) = 1 /\ GroupCame(q, k)
      BY <1>1, <1>4, <2>1
    <3>2. Len(q) = 2
      BY <3>1 DEF GroupCame
    <3>3. Len(x) = 1
      <4>1. IsList(q)
        BY <1>0 DEF Formed, ArePackets
      <4> HIDE DEF q
      <4>2. q # <<>>
        BY <3>2
      <4>. QED
        BY <3>2, <4>1, <4>2, TailIs
    <3>4. Guesses(x) \in {0, 1}
      BY DEF Guesses
    <3>. QED
      BY <3>1, <3>3, <3>4 DEF GroupCame
  <2>. QED
    BY <1>1, <1>4, <2>1, <2>2, <2>3
<1>5. OnlyGuess(q, k) \/ GroupCame(q, k)
  BY DEF GroupAsked
<1>. QED
  BY <1>3, <1>4, <1>5

\* another packet has come;
LEMMA GroupKept ==
  ASSUME NEW t, Ready(t), NEW v, MakingKeys(t, v), GroupAsked(t, v), NEW q, Keeps(t, "gex", "GEX_GROUP", q)
  PROVE  MadeStepped(t, v, R(q.s, "MORE"))
<1> DEFINE u == q.s
           p == t.inbound[1]
<1>0. Formed(t) /\ t.keys \in Nat
  BY DEF Ready
<1>1. Inside(t, u)
  BY RequireInside
<1>2. t.inbound # <<>> /\ p.type # "GEX_GROUP" /\ u.inbound = Tail(t.inbound) /\ u.packets = Append(t.packets, p)
  BY DEF Keeps
<1>3. /\ p.type = "GUESS" /\ Guesses(t.inbound) = 1 /\ Guesses(u.inbound) = 0
      /\ OnlyGuess(t.inbound, t.keys) => OnlyGuess(u.inbound, t.keys)
      /\ GroupCame(t.inbound, t.keys) => GroupCame(u.inbound, t.keys)
  BY <1>2, GroupNext
<1> HIDE DEF u
<1>4. /\ Inner(t, u) /\ SamePlace(t, u) /\ Formed(u) /\ \A o, c : At(u, o, c) = At(t, o, c)
  BY <1>1 DEF Inside
<1>5. /\ u.burn = t.burn /\ u.kex = t.kex /\ u.methods = t.methods /\ u.keys = t.keys /\ u.outbound = t.outbound
  BY <1>4 DEF SamePlace
<1>6. GroupAsked(u, v)
  <2>1. Gex(u) /\ Gex(t)
    BY <1>5, MethodsSame DEF GroupAsked
  <2>2. \/ Begun(t.outbound, v, t.keys) /\ Due(t.outbound, "GEX_REQUEST") /\ OnlyGuess(t.inbound, t.keys)
        \/ Within(t.outbound, v, t.keys) /\ t.outbound = <<>> /\ GroupCame(t.inbound, t.keys)
    BY DEF GroupAsked
  <2>3. \/ Begun(u.outbound, v, u.keys) /\ Due(u.outbound, "GEX_REQUEST") /\ OnlyGuess(u.inbound, u.keys)
        \/ Within(u.outbound, v, u.keys) /\ u.outbound = <<>> /\ GroupCame(u.inbound, u.keys)
    BY <1>3, <1>5, <2>2
  <2>4. At(u, "gex", 0) = "sent" /\ At(u, "dh", 0) = "idle" /\ Holding(v, u.keys)
    BY <1>4, <1>5 DEF GroupAsked
  <2>. QED
    BY <2>1, <2>3, <2>4 DEF GroupAsked
<1>7. NoneAwaited(t) /\ GuessKept(t) /\ At(t, "burn", 0) = "idle"
  BY DEF MakingKeys, GroupAsked
<1>8. NoneAwaited(u)
  <2>1. p.type \notin Awaited
    BY <1>3 DEF Awaited
  <2>. QED
    BY <1>0, <1>2, <1>7, <2>1, KeptNone
<1>9. GuessKept(u)
  <2> SUFFICES ASSUME t.burn PROVE GuessKept(u)
    BY <1>5 DEF GuessKept
  <2>1. t.kex = "startup" /\ t.packets = <<>>
    BY <1>3, <1>7 DEF GuessKept
  <2>2. u.packets = <<p>>
    BY <1>2, <2>1
  <2>3. Len(u.packets) = 1 /\ u.packets[1].type = "GUESS"
    BY <1>3, <2>2
  <2>4. At(u, "burn", 0) = "idle"
    BY <1>4, <1>7
  <2>. QED
    BY <1>3, <1>5, <2>1, <2>3, <2>4 DEF GuessKept
<1>10. MakingKeys(u, v)
  <2>1. At(u, "burn", 0) = "idle" /\ At(u, "kex", 0) = At(t, "kex", 0)
    BY <1>4, <1>7
  <2>. QED
    BY <1>6, <1>8, <1>9, <2>1, StillMaking
<1>11. MadeStepped(t, v, R(u, "MORE"))
  BY <1>4, <1>5, <1>10, MadeMore
<1>. QED
  BY <1>11 DEF u

\* the group has.
LEMMA GroupGiven ==
  ASSUME NEW t, Ready(t), NEW v, MakingKeys(t, v), GroupAsked(t, v), NEW q, Gives(t, "gex", "GEX_GROUP", q)
  PROVE  MadeStepped(t, v, R(Goto(q.s, "gex", 0, "sent1"), "MORE"))
<1> DEFINE u == q.s
           g == Goto(u, "gex", 0, "sent1")
<1>0. Formed(t) /\ t.keys \in Nat
  BY DEF Ready
<1>1. Inside(t, u)
  BY RequireInside
<1>2. /\ t.inbound # <<>> /\ t.inbound[1].type = "GEX_GROUP" /\ u.inbound = Tail(t.inbound)
      /\ Same(t, u, {"start", "inbound", "fullpacket"})
  BY DEF Gives
<1>3. u.inbound = <<>> /\ Guesses(t.inbound) = 0 /\ Within(t.outbound, v, t.keys) /\ t.outbound = <<>>
  BY <1>2, GroupNext
<1>4. u.packets = t.packets
  BY <1>2, FieldsAre DEF Same
<1> HIDE DEF u
<1>5. /\ Inner(t, u) /\ SamePlace(t, u) /\ Formed(u) /\ \A o, c : At(u, o, c) = At(t, o, c)
  BY <1>1 DEF Inside
<1>6. Placed(u, g, "gex", "sent1")
  <2>1. u.fullpacket # "" => u.gone
    BY <1>5 DEF Inner, Turns
  <2>. QED
    BY <1>5, <2>1, InnerGoto
<1> HIDE DEF g
<1>7. /\ Inner(u, g) /\ Same(u, g, {"at"}) /\ At(g, "gex", 0) = "sent1"
      /\ \A o : o # "gex" => At(g, o, 0) = At(u, o, 0)
  BY <1>6 DEF Placed
<1>8. SamePlace(t, g) /\ g.inbound = <<>> /\ g.packets = t.packets
  BY <1>3, <1>4, <1>5, <1>7, FieldsAre DEF Same, SamePlace
<1>9. /\ g.burn = t.burn /\ g.kex = t.kex /\ g.methods = t.methods /\ g.keys = t.keys /\ g.outbound = t.outbound
  BY <1>8 DEF SamePlace
<1>10. Inner(t, g)
  BY <1>5, <1>7, InnerOn
<1>11. /\ At(g, "burn", 0) = At(t, "burn", 0) /\ At(g, "kex", 0) = At(t, "kex", 0)
       /\ At(g, "dh", 0) = At(t, "dh", 0)
  BY <1>5, <1>7
<1>12. GroupKnown(g, v)
  <2>1. Gex(g)
    BY <1>9, MethodsSame DEF GroupAsked
  <2>. QED
    BY <1>3, <1>7, <1>8, <1>9, <1>11, <2>1 DEF GroupAsked, GroupKnown
<1>13. NoneAwaited(t) /\ GuessKept(t) /\ At(t, "burn", 0) = "idle"
  BY DEF MakingKeys, GroupAsked
<1>14. NoneAwaited(g)
  BY <1>8, <1>13 DEF NoneAwaited
<1>15. GuessKept(g)
  <2>1. Guesses(g.inbound) = 0
    BY <1>8 DEF Guesses
  <2>. QED
    BY <1>3, <1>8, <1>9, <1>11, <1>13, <2>1 DEF GuessKept
<1>16. MakingKeys(g, v)
  BY <1>11, <1>12, <1>13, <1>14, <1>15, StillMaking
<1>17. MadeStepped(t, v, R(g, "MORE"))
  BY <1>9, <1>10, <1>16, MadeMore
<1>. QED
  BY <1>17 DEF g, u

LEMMA GroupSteps ==
  ASSUME NEW t, Ready(t), NEW v, MakingKeys(t, v), GroupAsked(t, v), NEW net,
         NEW q, q = Require(t, "gex", "GEX_GROUP", net)
  PROVE  MadeStepped(t, v, IF q.rc = "" THEN R(Goto(q.s, "gex", 0, "sent1"), "MORE")
                           ELSE IF q.rc = "FAIL" THEN R(Goto(q.s, "gex", 0, "idle"), "FAIL") ELSE R(q.s, q.rc))
<1>0. Formed(t) /\ t.keys \in Nat
  BY DEF Ready
<1>1. KexNext(t)
  BY <1>0, MakingNext
<1>2. Waits(t, "gex", q) \/ Loses(t, "gex", q) \/ Keeps(t, "gex", "GEX_GROUP", q) \/ Gives(t, "gex", "GEX_GROUP", q)
  <2>1. Sound(t) /\ "EXCHANGING_KEYS" \in t.state /\ (t.socket_state = "disconnected" => t.gone)
        /\ (t.inbound # <<>> => t.inbound[1].type \in KexPackets)
    BY <1>1, KexSound
  <2>2. "GEX_GROUP" \in Awaited
    BY DEF Awaited
  <2>3. Lacks(t, "GEX_GROUP")
    <3>1. NoneAwaited(t)
      BY DEF MakingKeys
    <3>. QED
      BY <2>2, <3>1, NoneLacks
  <2>. QED
    BY <2>1, <2>2, <2>3, RequireKex
<1>3. CASE Waits(t, "gex", q)
  <2>1. Inside(t, q.s)
    BY <1>3, RequireInside
  <2>2. Inner(t, q.s) /\ q.s.keys = t.keys
    BY <2>1 DEF Inside, SamePlace
  <2>3. q.rc \in {"WAIT", "EAGAIN"}
    BY <1>3 DEF Waits
  <2>4. MadeStepped(t, v, R(q.s, q.rc))
    BY <2>2, <2>3, MadeWaits
  <2>. QED
    BY <2>3, <2>4
<1>4. CASE Loses(t, "gex", q)
  <2>1. Inside(t, q.s)
    BY <1>4, RequireInside
  <2>2. Inner(t, q.s) /\ SamePlace(t, q.s) /\ Formed(q.s) /\ q.s.gone = t.gone
    BY <2>1 DEF Inside
  <2>3. q.s.keys = t.keys /\ q.s.outbound = t.outbound
    BY <2>2 DEF SamePlace
  <2>4. q.rc = "FAIL" /\ t.gone /\ (q.s.inbound = t.inbound \/ q.s.fullpacket # "")
    BY <1>4 DEF Loses
  <2>5. Begun(t.outbound, v, t.keys)
    BY DEF GroupAsked, Begun
  <2>6. Broken(q.s, v)
    BY <1>1, <2>2, <2>3, <2>4, <2>5, BrokenLost
  <2>7. MadeStepped(t, v, R(Goto(q.s, "gex", 0, "idle"), "FAIL"))
    BY <1>0, <2>2, <2>3, <2>6, GexEnds
  <2>. QED
    BY <2>4, <2>7
<1>5. CASE Keeps(t, "gex", "GEX_GROUP", q)
  <2>1. MadeStepped(t, v, R(q.s, "MORE")) /\ q.rc = "MORE"
    BY <1>5, GroupKept DEF Keeps
  <2>. QED
    BY <2>1
<1>6. CASE Gives(t, "gex", "GEX_GROUP", q)
  <2>1. MadeStepped(t, v, R(Goto(q.s, "gex", 0, "sent1"), "MORE")) /\ q.rc = ""
    BY <1>6, GroupGiven DEF Gives
  <2>. QED
    BY <2>1
<1>. QED
  BY <1>2, <1>3, <1>4, <1>5, <1>6

LEMMA GexSteps ==
  ASSUME NEW t, Ready(t), NEW v, MakingKeys(t, v), Gex(t), NEW net
  PROVE  MadeStepped(t, v, GexExchange(t, net))
<1> DEFINE w == PacketWrite(t, Plain("GEX_REQUEST"))
           q == Require(t, "gex", "GEX_GROUP", net)
           r == DhExchange(t, "GEX_INIT", "GEX_REPLY", net)
           x == GexExchange(t, net)
<1>1. NothingSent(t, v) \/ GroupAsked(t, v) \/ GroupKnown(t, v) \/ InitSent(t, v) \/ Confirmed(t, v)
  BY DEF MakingKeys
<1>2. CASE NothingSent(t, v)
  <2>1. x = IF w.rc = "" THEN R(Goto(w.s, "gex", 0, "sent"), "MORE") ELSE R(Goto(w.s, "gex", 0, "idle"), "FAIL")
    BY <1>2 DEF GexExchange, NothingSent
  <2> HIDE DEF w, x
  <2>2. MadeStepped(t, v, x)
    BY <1>2, <2>1, GexAsks DEF w
  <2>. QED
    BY <2>2 DEF x
<1>3. CASE GroupAsked(t, v)
  <2>1. x = IF q.rc = "" THEN R(Goto(q.s, "gex", 0, "sent1"), "MORE")
            ELSE IF q.rc = "FAIL" THEN R(Goto(q.s, "gex", 0, "idle"), "FAIL") ELSE R(q.s, q.rc)
    BY <1>3 DEF GexExchange, GroupAsked
  <2> HIDE DEF q, x
  <2>2. MadeStepped(t, v, x)
    BY <1>3, <2>1, GroupSteps DEF q
  <2>. QED
    BY <2>2 DEF x
<1>4. CASE GroupKnown(t, v) \/ InitSent(t, v) \/ Confirmed(t, v)
  <2>1. At(t, "gex", 0) = "sent1"
    BY <1>4 DEF GroupKnown, InitSent, Confirmed
  <2>2. x = IF r.rc \in {"", "FAIL"} THEN R(Goto(r.s, "gex", 0, "idle"), r.rc) ELSE r
    BY <2>1 DEF GexExchange
  <2>3. DhWhere(t, v)
    BY <1>4, MayInit DEF DhWhere
  <2>4. InitOf(t) = "GEX_INIT" /\ ReplyOf(t) = "GEX_REPLY"
    BY DEF InitOf, ReplyOf
  <2>5. DhStepped(t, v, r)
    <3>1. DhStepped(t, v, DhExchange(t, InitOf(t), ReplyOf(t), net))
      BY <2>3, DhSteps
    <3>. QED
      BY <2>4, <3>1
  <2> HIDE DEF r, x
  <2>6. Formed(r.s)
    BY <2>5 DEF DhStepped, Stepped, Inner, Turns
  <2>7. MadeStepped(t, v, x)
    BY <2>2, <2>5, <2>6, GexDhSteps
  <2>. QED
    BY <2>7 DEF x
<1>. QED
  BY <1>1, <1>2, <1>3, <1>4

\* Every step between the two KEXINITs and the new keys.
LEMMA MadeSteps ==
  ASSUME NEW t, Ready(t), NEW v, MakingKeys(t, v), NEW net
  PROVE  MadeStepped(t, v, ExchangeKeys(t, net))
<1>1. CASE Gex(t)
  <2>1. ExchangeKeys(t, net) = GexExchange(t, net)
    BY <1>1 DEF ExchangeKeys, Gex
  <2>. QED
    BY <1>1, <2>1, GexSteps
<1>2. CASE ~Gex(t)
  <2> DEFINE r == DhExchange(t, "KEXDH_INIT", "KEXDH_REPLY", net)
  <2>1. ExchangeKeys(t, net) = r
    BY <1>2 DEF ExchangeKeys, GroupExchange, Gex
  <2>2. NothingSent(t, v) \/ InitSent(t, v) \/ Confirmed(t, v)
    BY <1>2 DEF MakingKeys, GroupAsked, GroupKnown
  <2>3. DhWhere(t, v)
    BY <1>2, <2>2, MayInit DEF DhWhere
  <2>4. InitOf(t) = "KEXDH_INIT" /\ ReplyOf(t) = "KEXDH_REPLY"
    BY <1>2 DEF InitOf, ReplyOf
  <2>5. At(t, "gex", 0) = "idle"
    BY <1>2, <2>2 DEF NothingSent, InitSent, Confirmed
  <2>6. DhStepped(t, v, r)
    <3>1. DhStepped(t, v, DhExchange(t, InitOf(t), ReplyOf(t), net))
      BY <2>3, DhSteps
    <3>. QED
      BY <2>4, <3>1
  <2> HIDE DEF r
  <2>7. MadeStepped(t, v, r)
    BY <2>5, <2>6 DEF DhStepped, MadeStepped
  <2>. QED
    BY <2>1, <2>7
<1>. QED
  BY <1>1, <1>2

-----------------------------------------------------------------------------
(* libssh2_kex_exchange. *)

KexStepped(t, v, x) ==
  /\ Turns(t, x.s) /\ x.s.keys \in Nat
  /\ x.rc \in {"MORE", "WAIT", "EAGAIN", "FAIL", ""}
  /\ x.rc = "MORE" => Exchanging(x.s, v)
  /\ x.rc = "EAGAIN" => ExchangeStates \cap x.s.state = {"EXCHANGING_KEYS"}
  /\ x.rc = "FAIL" /\ t.kex = "startup" => Broken(x.s, v)
  /\ x.rc = "" => Calm(x.s, v)

\* What an exchange may be in the middle of.
Going(t, v) ==
  /\ Formed(t) /\ t.keys \in Nat /\ t.kexRc = "" /\ t.kex \in {"startup", "add"}
  /\ t.fullpacket # "" => t.gone
  /\ t.socket_state = "disconnected" => t.gone
  /\ Exchanging(t, v)

Exchanges == {"state", "methods", "burn", "at", "packets", "outbound", "start", "inbound", "fullpacket"}

LEMMA TurnsSame ==
  ASSUME NEW t, Formed(t), NEW u, Formed(u), Same(t, u, Exchanges),
         u.inbound = t.inbound \/ (t.inbound # <<>> /\ u.inbound = Tail(t.inbound)),
         u.fullpacket # "" => t.gone, StartAt(u) = StartAt(t)
  PROVE  Turns(t, u)
<1>1. Range(u.inbound) \subseteq Range(t.inbound)
  BY RangeTail
<1>2. /\ u.kex = t.kex /\ u.kexRc = t.kexRc /\ u.call = t.call /\ u.gone = t.gone
      /\ u.socket_state = t.socket_state
  BY FieldsAre DEF Same, Exchanges
<1>. QED
  BY <1>1, <1>2 DEF Turns

\* The exchange is at another position.
KexAt(t, u, pos) ==
  /\ Formed(u) /\ Same(t, u, {"at"}) /\ At(u, "kex", 0) = pos
  /\ \A o : o # "kex" => At(u, o, 0) = At(t, o, 0)

LEMMA KexGoto ==
  ASSUME NEW t, Formed(t), NEW pos
  PROVE  KexAt(t, Goto(t, "kex", 0, pos), pos)
<1> DEFINE u == Goto(t, "kex", 0, pos)
<1>1. Stood(t, u, "kex", pos)
  BY GotoOther
<1>2. Formed(u)
  BY GotoForms
<1> HIDE DEF u
<1>3. /\ DOMAIN u = Fields /\ \A f \in Fields \ {"at"} : u[f] = t[f]
      /\ At(u, "kex", 0) = pos /\ \A o, d : <<o, d>> # <<"kex", 0>> => At(u, o, d) = At(t, o, d)
  BY <1>1, Zenon DEF Stood
<1>4. \A o : o # "kex" => At(u, o, 0) = At(t, o, 0)
  BY <1>3
<1>5. Same(t, u, {"at"})
  BY <1>3 DEF Same
<1>6. KexAt(t, u, pos)
  BY <1>2, <1>3, <1>4, <1>5 DEF KexAt
<1>. QED
  BY <1>6 DEF u

LEMMA KexTurns ==
  ASSUME NEW t, Formed(t), t.fullpacket # "" => t.gone, NEW u, NEW pos, KexAt(t, u, pos)
  PROVE  /\ Turns(t, u)
         /\ u.packets = t.packets /\ u.inbound = t.inbound /\ u.burn = t.burn /\ u.kex = t.kex
         /\ u.methods = t.methods /\ u.keys = t.keys /\ u.outbound = t.outbound /\ u.start = t.start
         /\ u.state = t.state
<1>1. /\ u.packets = t.packets /\ u.inbound = t.inbound /\ u.burn = t.burn /\ u.kex = t.kex
      /\ u.methods = t.methods /\ u.keys = t.keys /\ u.outbound = t.outbound /\ u.start = t.start
      /\ u.state = t.state /\ u.fullpacket = t.fullpacket
  BY FieldsAre DEF KexAt, Same
<1>2. Same(t, u, Exchanges)
  BY DEF KexAt, Same, Exchanges
<1>3. StartAt(u) = StartAt(t)
  BY DEF KexAt, StartAt
<1>4. Formed(u)
  BY DEF KexAt
<1>5. Turns(t, u)
  <2>1. u.fullpacket # "" => t.gone
    BY <1>1
  <2>. QED
    BY <1>1, <1>2, <1>3, <1>4, <2>1, TurnsSame
<1>. QED
  BY <1>1, <1>5

\* A session of which only the state is another.
Restated(t, u, state) ==
  /\ Formed(u) /\ Same(t, u, {"state"}) /\ u.state = state

LEMMA RestatedIs ==
  ASSUME NEW t, Formed(t), t.fullpacket # "" => t.gone, NEW u, NEW state, Restated(t, u, state)
  PROVE  /\ Turns(t, u) /\ SamePlace(t, u) /\ u.gone = t.gone
         /\ u.inbound = t.inbound /\ u.packets = t.packets /\ u.start = t.start /\ u.fullpacket = t.fullpacket
         /\ u.socket_state = t.socket_state /\ u.kexRc = t.kexRc
         /\ \A o, c : At(u, o, c) = At(t, o, c)
<1>1. \A o, c : At(u, o, c) = At(t, o, c)
  BY AtSame DEF Restated
<1>2. /\ u.inbound = t.inbound /\ u.packets = t.packets /\ u.start = t.start /\ u.fullpacket = t.fullpacket
      /\ u.gone = t.gone /\ SamePlace(t, u) /\ u.socket_state = t.socket_state /\ u.kexRc = t.kexRc
  BY FieldsAre DEF Restated, Same, SamePlace
<1>3. Same(t, u, Exchanges) /\ Formed(u)
  BY DEF Restated, Same, Exchanges
<1>4. StartAt(u) = StartAt(t)
  BY <1>1 DEF StartAt
<1>5. Turns(t, u)
  <2>1. u.fullpacket # "" => t.gone
    BY <1>2
  <2>. QED
    BY <1>2, <1>3, <1>4, <2>1, TurnsSame
<1>. QED
  BY <1>1, <1>2, <1>5

\* The exchange is at work, left or ended.
Active(t) == [t EXCEPT !.state = @ \cup {"KEX_ACTIVE"}]
Rest(t)   == [t EXCEPT !.state = @ \ {"KEX_ACTIVE", "EXCHANGING_KEYS"}]

LEMMA StatesAre ==
  ASSUME NEW t, Formed(t)
  PROVE  /\ Restated(t, Active(t), t.state \cup {"KEX_ACTIVE"})
         /\ Restated(t, Left(t), t.state \ {"KEX_ACTIVE"})
         /\ Restated(t, Rest(t), t.state \ {"KEX_ACTIVE", "EXCHANGING_KEYS"})
         /\ Ended(t) = Goto(Rest(t), "kex", 0, "idle")
<1>1. Restated(t, Active(t), t.state \cup {"KEX_ACTIVE"})
  BY FieldsAre DEF Formed, Restated, Same, Active
<1>2. Restated(t, Left(t), t.state \ {"KEX_ACTIVE"})
  BY FieldsAre DEF Formed, Restated, Same, Left
<1>3. Restated(t, Rest(t), t.state \ {"KEX_ACTIVE", "EXCHANGING_KEYS"})
  BY FieldsAre DEF Formed, Restated, Same, Rest
<1>4. Ended(t) = Goto(Rest(t), "kex", 0, "idle")
  BY DEF Ended, Rest
<1>. QED
  BY <1>1, <1>2, <1>3, <1>4

\* The position of an exchange is what these fields say.
LEMMA SamePositions ==
  ASSUME NEW t, NEW v, NEW u, SamePlace(t, u), u.inbound = t.inbound, u.packets = t.packets,
         \A o, c : At(u, o, c) = At(t, o, c)
  PROVE  /\ Called(t) => Called(u)
         /\ OfferSent(t, v) => OfferSent(u, v)
         /\ MakingKeys(t, v) => MakingKeys(u, v)
<1>1. /\ u.burn = t.burn /\ u.kex = t.kex /\ u.methods = t.methods /\ u.keys = t.keys /\ u.outbound = t.outbound
  BY DEF SamePlace
<1>2. Called(t) => Called(u)
  BY <1>1 DEF Called
<1>3. OfferSent(t, v) => OfferSent(u, v)
  BY <1>1, <1>2 DEF OfferSent
<1>4. Gex(u) = Gex(t) /\ InitOf(u) = InitOf(t) /\ ReplyOf(u) = ReplyOf(t)
  BY <1>1, MethodsSame
<1>5. NothingSent(t, v) => NothingSent(u, v)
  BY <1>1 DEF NothingSent
<1>6. GroupAsked(t, v) => GroupAsked(u, v)
  BY <1>1, <1>4 DEF GroupAsked
<1>7. GroupKnown(t, v) => GroupKnown(u, v)
  BY <1>1, <1>4 DEF GroupKnown
<1>8. InitSent(t, v) => InitSent(u, v)
  BY <1>1, <1>4 DEF InitSent
<1>9. Confirmed(t, v) => Confirmed(u, v)
  BY <1>1, <1>4 DEF Confirmed
<1>10. ASSUME MakingKeys(t, v) PROVE MakingKeys(u, v)
  <2>1. NoneAwaited(u)
    BY <1>10 DEF MakingKeys, NoneAwaited
  <2>2. GuessKept(t)
    BY <1>10 DEF MakingKeys
  <2>3. GuessKept(u)
    BY <1>1, <2>2, GuessSame
  <2>4. At(t, "burn", 0) # "idle" => t.burn /\ At(t, "dh", 0) = "sent"
    BY <1>10 DEF MakingKeys
  <2>5. At(u, "burn", 0) # "idle" => u.burn /\ At(u, "dh", 0) = "sent"
    BY <1>1, <2>4
  <2>6. NothingSent(u, v) \/ GroupAsked(u, v) \/ GroupKnown(u, v) \/ InitSent(u, v) \/ Confirmed(u, v)
    BY <1>5, <1>6, <1>7, <1>8, <1>9, <1>10 DEF MakingKeys
  <2>. QED
    BY <1>10, <2>1, <2>3, <2>5, <2>6, StillMaking
<1>. QED
  BY <1>2, <1>3, <1>10

\* The exchange of u has ended in e.
AtEnd(u, e) ==
  /\ Turns(u, e)
  /\ e.packets = u.packets /\ e.inbound = u.inbound /\ e.keys = u.keys /\ e.outbound = u.outbound
  /\ e.gone = u.gone /\ e.fullpacket = u.fullpacket /\ e.start = u.start
  /\ ExchangeStates \cap e.state = {} /\ At(e, "kex", 0) = "idle"
  /\ \A o : o # "kex" => At(e, o, 0) = At(u, o, 0)

LEMMA EndedIs ==
  ASSUME NEW u, Formed(u), u.fullpacket # "" => u.gone
  PROVE  AtEnd(u, Ended(u))
<1> DEFINE r == Rest(u)
           e == Ended(u)
<1>1. Restated(u, r, u.state \ {"KEX_ACTIVE", "EXCHANGING_KEYS"}) /\ e = Goto(r, "kex", 0, "idle")
  BY StatesAre
<1> HIDE DEF r, e
<1>2. /\ Turns(u, r) /\ SamePlace(u, r) /\ r.gone = u.gone
      /\ r.inbound = u.inbound /\ r.packets = u.packets /\ r.start = u.start /\ r.fullpacket = u.fullpacket
      /\ \A o, c : At(r, o, c) = At(u, o, c)
  BY <1>1, RestatedIs
<1>3. Formed(r) /\ r.state = u.state \ {"KEX_ACTIVE", "EXCHANGING_KEYS"}
  BY <1>1 DEF Restated
<1>4. KexAt(r, e, "idle")
  BY <1>1, <1>3, KexGoto
<1>5. r.fullpacket # "" => r.gone
  BY <1>2
<1>6. /\ Turns(r, e)
      /\ e.packets = r.packets /\ e.inbound = r.inbound /\ e.keys = r.keys /\ e.outbound = r.outbound
      /\ e.start = r.start /\ e.state = r.state
  BY <1>3, <1>4, <1>5, KexTurns
<1>7. e.gone = r.gone /\ e.fullpacket = r.fullpacket
  BY <1>4, FieldsAre DEF KexAt, Same
<1>8. At(e, "kex", 0) = "idle" /\ \A o : o # "kex" => At(e, o, 0) = At(r, o, 0)
  BY <1>4 DEF KexAt
<1>9. ExchangeStates \cap e.state = {}
  BY <1>3, <1>6 DEF ExchangeStates
<1>10. Turns(u, e)
  BY <1>2, <1>6, TurnsOn
<1>11. AtEnd(u, e)
  BY <1>2, <1>6, <1>7, <1>8, <1>9, <1>10 DEF AtEnd, SamePlace
<1>. QED
  BY <1>11 DEF e

LEMMA KexFails ==
  ASSUME NEW t, NEW v, NEW u, Turns(t, u), u.keys \in Nat, t.kex = "startup" => Broken(u, v)
  PROVE  KexStepped(t, v, R(Ended(u), "FAIL"))
<1> DEFINE e == Ended(u)
           x == R(e, "FAIL")
<1>1. Formed(u) /\ (u.fullpacket # "" => u.gone)
  BY DEF Turns
<1>2. AtEnd(u, e)
  BY <1>1, EndedIs
<1> HIDE DEF e
<1>3. x.s = e /\ x.rc = "FAIL"
  BY ResultOf
<1> HIDE DEF x
<1>4. Turns(t, e) /\ e.keys \in Nat
  BY <1>2, TurnsOn DEF AtEnd
<1>5. t.kex = "startup" => Broken(e, v)
  <2> HAVE t.kex = "startup"
  <2>1. Broken(u, v)
    OBVIOUS
  <2>. QED
    BY <1>2, <2>1 DEF AtEnd, Broken
<1>6. KexStepped(t, v, x)
  BY <1>3, <1>4, <1>5 DEF KexStepped
<1>. QED
  BY <1>6 DEF x, e

LEMMA KexLeaves ==
  ASSUME NEW t, NEW v, NEW u, Turns(t, u), u.keys \in Nat, ExchangeStates \subseteq u.state
  PROVE  KexStepped(t, v, R(Left(u), "EAGAIN"))
<1> DEFINE e == Left(u)
           x == R(e, "EAGAIN")
<1>1. Formed(u) /\ (u.fullpacket # "" => u.gone)
  BY DEF Turns
<1>2. Restated(u, e, u.state \ {"KEX_ACTIVE"})
  BY <1>1, StatesAre
<1> HIDE DEF e
<1>3. x.s = e /\ x.rc = "EAGAIN"
  BY ResultOf
<1> HIDE DEF x
<1>4. Turns(u, e) /\ SamePlace(u, e)
  BY <1>1, <1>2, RestatedIs
<1>5. Turns(t, e) /\ e.keys \in Nat
  BY <1>4, TurnsOn DEF SamePlace
<1>6. ExchangeStates \cap e.state = {"EXCHANGING_KEYS"}
  BY <1>2 DEF Restated, ExchangeStates
<1>7. KexStepped(t, v, x)
  BY <1>3, <1>5, <1>6 DEF KexStepped
<1>. QED
  BY <1>7 DEF x, e

LEMMA KexMore ==
  ASSUME NEW t, NEW v, NEW u, Turns(t, u), u.keys \in Nat, Exchanging(u, v)
  PROVE  KexStepped(t, v, R(u, "MORE"))
<1> DEFINE x == R(u, "MORE")
<1>1. x.s = u /\ x.rc = "MORE"
  BY ResultOf
<1> HIDE DEF x
<1>2. KexStepped(t, v, x)
  BY <1>1 DEF KexStepped
<1>. QED
  BY <1>2 DEF x

\* An exchange is begun.
LEMMA KexBegins ==
  ASSUME NEW t, NEW v, Going(t, v), At(t, "kex", 0) = "idle", NEW a, Restated(t, a, t.state \cup {"KEX_ACTIVE"})
  PROVE  KexStepped(t, v, R(BeginExchange(a), "MORE"))
<1> DEFINE b == [a EXCEPT !.state = @ \cup {"EXCHANGING_KEYS"},
                          !.methods = IF a.kex # "startup" THEN <<>> ELSE @]
           g == Goto(b, "kex", 0, "sent")
<1>0. Formed(t) /\ t.keys \in Nat /\ (t.fullpacket # "" => t.gone) /\ t.kex \in {"startup", "add"}
  BY DEF Going
<1>1. ToOffer(t, v) /\ "kex" \notin t.start
  BY DEF Going, Exchanging, OfferSent, MakingKeys
<1>2. Formed(a) /\ a.state = t.state \cup {"KEX_ACTIVE"}
  BY DEF Restated
<1>3. /\ Turns(t, a) /\ SamePlace(t, a) /\ a.inbound = t.inbound /\ a.packets = t.packets
      /\ a.start = t.start /\ a.fullpacket = t.fullpacket /\ a.gone = t.gone
      /\ \A o, c : At(a, o, c) = At(t, o, c)
  BY <1>0, RestatedIs
<1>4. a.kex = t.kex /\ a.methods = t.methods /\ a.outbound = t.outbound /\ a.keys = t.keys
  BY <1>3 DEF SamePlace
<1>5. b.methods = <<>>
  <2>1. b.methods = IF a.kex # "startup" THEN <<>> ELSE a.methods
    BY <1>2, FieldsAre DEF Formed
  <2>2. a.kex = "startup" => a.methods = <<>>
    BY <1>1, <1>4 DEF ToOffer
  <2>. QED
    BY <2>1, <2>2
<1>6. BeginExchange(a) = g
  BY <1>5 DEF BeginExchange
<1>7. Formed(b) /\ Same(a, b, {"state", "methods"}) /\ b.state = a.state \cup {"EXCHANGING_KEYS"}
  BY <1>2, FieldsAre DEF Formed, Same
<1> HIDE DEF b
<1>8. \A o, c : At(b, o, c) = At(a, o, c)
  BY <1>7, AtSame
<1>9. /\ b.inbound = a.inbound /\ b.packets = a.packets /\ b.start = a.start /\ b.fullpacket = a.fullpacket
      /\ b.gone = a.gone /\ b.kex = a.kex /\ b.keys = a.keys /\ b.outbound = a.outbound
  BY <1>7, FieldsAre DEF Same
<1>10. Turns(a, b)
  <2>1. Same(a, b, Exchanges)
    BY <1>7 DEF Same, Exchanges
  <2>2. StartAt(b) = StartAt(a)
    BY <1>8 DEF StartAt
  <2>3. b.fullpacket # "" => a.gone
    BY <1>0, <1>3, <1>9
  <2>. QED
    BY <1>2, <1>7, <1>9, <2>1, <2>2, <2>3, TurnsSame
<1>11. KexAt(b, g, "sent")
  BY <1>7, KexGoto
<1> HIDE DEF g
<1>12. /\ Turns(b, g) /\ g.packets = b.packets /\ g.inbound = b.inbound /\ g.kex = b.kex
       /\ g.methods = b.methods /\ g.keys = b.keys /\ g.outbound = b.outbound /\ g.start = b.start /\ g.state = b.state
  <2>1. b.fullpacket # "" => b.gone
    BY <1>0, <1>3, <1>9
  <2>. QED
    BY <1>7, <1>11, <2>1, KexTurns
<1>13. At(g, "kex", 0) = "sent" /\ \A o : o # "kex" => At(g, o, 0) = At(t, o, 0)
  BY <1>3, <1>8, <1>11 DEF KexAt
<1>14. Turns(t, g)
  BY <1>3, <1>10, <1>12, TurnsOn
<1>15. /\ g.packets = t.packets /\ g.inbound = t.inbound /\ g.kex = t.kex /\ g.methods = <<>>
       /\ g.keys = t.keys /\ g.outbound = t.outbound /\ g.start = t.start
  BY <1>3, <1>4, <1>5, <1>9, <1>12
<1>16. ToOffer(g, v)
  <2>1. Called(g)
    BY <1>1, <1>15 DEF ToOffer, Called
  <2>2. \A op \in KeyOps \ {"kex"} : At(g, op, 0) = "idle"
    BY <1>1, <1>13 DEF ToOffer
  <2>3. Plainly(g.outbound, v, g.keys) /\ Holding(v, g.keys)
    BY <1>1, <1>15 DEF ToOffer
  <2>. QED
    BY <1>13, <1>15, <2>1, <2>2, <2>3 DEF ToOffer
<1>17. Exchanging(g, v)
  <2>1. ExchangeStates \subseteq g.state
    BY <1>2, <1>7, <1>12 DEF ExchangeStates
  <2>. QED
    BY <1>1, <1>15, <1>16, <2>1 DEF Exchanging
<1>18. KexStepped(t, v, R(g, "MORE"))
  BY <1>0, <1>14, <1>15, <1>17, KexMore
<1>. QED
  BY <1>6, <1>18

\* The session as the exchange goes on with it.
Resumed(t, v, a) ==
  /\ Turns(t, a) /\ SamePlace(t, a) /\ Formed(a) /\ a.gone = t.gone
  /\ a.inbound = t.inbound /\ a.packets = t.packets /\ a.start = t.start
  /\ \A o, c : At(a, o, c) = At(t, o, c)
  /\ ExchangeStates \subseteq a.state /\ "kex" \notin a.start
  /\ Ready(a)

LEMMA ResumedIs ==
  ASSUME NEW t, NEW v, Going(t, v), At(t, "kex", 0) # "idle"
  PROVE  Resumed(t, v, Active(t))
<1> DEFINE a == Active(t)
<1>0. Formed(t) /\ t.keys \in Nat /\ (t.fullpacket # "" => t.gone) /\ t.kexRc = ""
      /\ (t.socket_state = "disconnected" => t.gone)
  BY DEF Going
<1>1. Restated(t, a, t.state \cup {"KEX_ACTIVE"})
  BY <1>0, StatesAre
<1> HIDE DEF a
<1>2. Formed(a) /\ a.state = t.state \cup {"KEX_ACTIVE"}
  BY <1>1 DEF Restated
<1>3. /\ Turns(t, a) /\ SamePlace(t, a) /\ a.gone = t.gone
      /\ a.inbound = t.inbound /\ a.packets = t.packets /\ a.start = t.start /\ a.fullpacket = t.fullpacket
      /\ a.socket_state = t.socket_state /\ a.kexRc = t.kexRc
      /\ \A o, c : At(a, o, c) = At(t, o, c)
  BY <1>0, <1>1, RestatedIs
<1>4. "kex" \notin t.start /\ ExchangeStates \subseteq t.state
  BY DEF Going, Exchanging
<1>5. ExchangeStates \subseteq a.state
  BY <1>2, <1>4
<1>6. Ready(a)
  <2>1. a.keys = t.keys
    BY <1>3 DEF SamePlace
  <2>. QED
    BY <1>0, <1>2, <1>3, <1>5, <2>1 DEF Ready
<1>7. Resumed(t, v, a)
  BY <1>2, <1>3, <1>4, <1>5, <1>6 DEF Resumed
<1>. QED
  BY <1>7 DEF a

\* What is called for is announced in the keys in use.
LEMMA CalledNext ==
  ASSUME NEW t, Formed(t), Called(t)
  PROVE  /\ t.inbound # <<>> => t.inbound[1].key = t.keys /\ t.inbound[1].type = "KEXINIT"
         /\ t.kex # "startup" => t.inbound = <<>>
<1>1. CASE t.kex = "startup" /\ t.inbound # <<>>
  <2>1. 1 \in DOMAIN t.inbound
    BY <1>1, NotEmpty DEF Formed, ArePackets
  <2>2. Announced(t.inbound, 0, t.keys)
    BY <1>1 DEF Called
  <2>3. t.inbound[0 + 1].type = "KEXINIT" /\ t.inbound[1].key = t.keys
    BY <2>1, <2>2 DEF Announced
  <2>4. t.inbound[1].type = "KEXINIT"
    BY <2>3
  <2>. QED
    BY <1>1, <2>3, <2>4
<1>2. CASE t.kex # "startup"
  BY <1>2 DEF Called
<1>. QED
  BY <1>1, <1>2

\* KEXINIT is sent.
LEMMA KexOffers ==
  ASSUME NEW t, NEW v, Going(t, v), At(t, "kex", 0) = "sent", NEW a, Resumed(t, v, a), NEW i, i = KexInit(a)
  PROVE  KexStepped(t, v, IF i.rc = "" THEN R(Goto(i.s, "kex", 0, "sent1"), "MORE") ELSE R(Ended(i.s), "FAIL"))
         /\ i.rc \in {"", "FAIL"}
<1> DEFINE u == i.s
           g == Goto(u, "kex", 0, "sent1")
<1>0. t.keys \in Nat
  BY DEF Going
<1>1. /\ Turns(t, a) /\ SamePlace(t, a) /\ Formed(a) /\ a.inbound = t.inbound /\ a.packets = t.packets
      /\ \A o, c : At(a, o, c) = At(t, o, c)
      /\ ExchangeStates \subseteq a.state /\ "kex" \notin a.start /\ (a.fullpacket # "" => a.gone)
  BY DEF Resumed, Ready
<1>2. a.kex = t.kex /\ a.methods = t.methods /\ a.outbound = t.outbound /\ a.keys = t.keys
  BY <1>1 DEF SamePlace
<1>3. ToOffer(t, v)
  BY DEF Going, Exchanging, OfferSent, MakingKeys
<1>4. Called(a)
  BY <1>1, <1>3, SamePositions DEF ToOffer
<1>5. i = PacketWrite(a, Plain("KEXINIT"))
  BY DEF KexInit
<1>6. Wrote(a, "KEXINIT", i) \/ WroteNot(a, i)
  BY <1>1, <1>5, KexWrite
<1>7. Formed(u) /\ Same(a, u, {"outbound"})
  BY <1>6, FieldsAre DEF Wrote, WroteNot, Same
<1>8. i.s = u
  OBVIOUS
<1> HIDE DEF u
<1>9. /\ u.packets = a.packets /\ u.inbound = a.inbound /\ u.kex = a.kex /\ u.keys = a.keys
      /\ u.gone = a.gone /\ u.fullpacket = a.fullpacket /\ u.start = a.start /\ u.state = a.state
  BY <1>7, FieldsAre DEF Same
<1>10. \A o, c : At(u, o, c) = At(a, o, c)
  BY <1>7, AtSame
<1>11. Turns(a, u)
  <2>1. Same(a, u, Exchanges)
    BY <1>7 DEF Same, Exchanges
  <2>2. StartAt(u) = StartAt(a)
    BY <1>10 DEF StartAt
  <2>3. u.fullpacket # "" => a.gone
    BY <1>1, <1>9
  <2>. QED
    BY <1>1, <1>7, <1>9, <2>1, <2>2, <2>3, TurnsSame
<1>12. Turns(t, u)
  BY <1>1, <1>11, TurnsOn
<1>13. CASE Wrote(a, "KEXINIT", i)
  <2>1. PICK e : e.type = "KEXINIT" /\ e.key = a.keys /\ u.outbound = Append(a.outbound, e)
    BY <1>8, <1>13 DEF Wrote
  <2>2. KexAt(u, g, "sent1")
    BY <1>7, KexGoto
  <2> HIDE DEF g
  <2>3. u.fullpacket # "" => u.gone
    BY <1>1, <1>9
  <2>4. /\ Turns(u, g) /\ g.packets = u.packets /\ g.inbound = u.inbound /\ g.kex = u.kex
        /\ g.keys = u.keys /\ g.outbound = u.outbound /\ g.start = u.start /\ g.state = u.state
    BY <1>7, <2>2, <2>3, KexTurns
  <2>5. At(g, "kex", 0) = "sent1" /\ \A o : o # "kex" => At(g, o, 0) = At(t, o, 0)
    BY <1>1, <1>10, <2>2 DEF KexAt
  <2>6. Begun(g.outbound, v, g.keys) /\ NoneDue(g.outbound)
    <3>1. IsList(a.outbound)
      BY <1>1 DEF Formed, ArePackets
    <3>2. Plainly(a.outbound, v, a.keys)
      BY <1>2, <1>3 DEF ToOffer
    <3>. QED
      BY <1>9, <2>1, <2>4, <3>1, <3>2, ProposedSent
  <2>7. OfferSent(g, v)
    <3>1. Called(g)
      BY <1>4, <1>9, <2>4 DEF Called
    <3>2. \A op \in KeyOps \ {"kex"} : At(g, op, 0) = "idle"
      BY <1>3, <2>5 DEF ToOffer
    <3>3. Holding(v, g.keys)
      BY <1>2, <1>3, <1>9, <2>4 DEF ToOffer
    <3>. QED
      BY <2>5, <2>6, <3>1, <3>2, <3>3 DEF OfferSent
  <2>8. Exchanging(g, v)
    BY <1>1, <1>9, <2>4, <2>7 DEF Exchanging
  <2>9. Turns(t, g) /\ g.keys \in Nat
    BY <1>0, <1>2, <1>9, <1>12, <2>4, TurnsOn
  <2>10. KexStepped(t, v, R(g, "MORE"))
    BY <2>8, <2>9, KexMore
  <2>11. i.rc = ""
    BY <1>13 DEF Wrote
  <2>. QED
    BY <1>8, <2>10, <2>11 DEF g
<1>14. CASE WroteNot(a, i)
  <2>1. Same(a, u, {}) /\ a.gone /\ i.rc = "FAIL"
    BY <1>8, <1>14 DEF WroteNot
  <2>2. u.outbound = a.outbound
    BY <2>1, FieldsAre DEF Same
  <2>3. Broken(u, v)
    <3>1. Plainly(u.outbound, v, u.keys)
      BY <1>2, <1>3, <1>9, <2>2 DEF ToOffer
    <3>2. u.inbound = <<>> \/ u.inbound[1].key = u.keys
      BY <1>1, <1>4, <1>9, CalledNext
    <3>3. u.gone
      BY <1>9, <2>1
    <3>. QED
      BY <3>1, <3>2, <3>3 DEF Broken
  <2>4. u.keys \in Nat
    BY <1>0, <1>2, <1>9
  <2>5. KexStepped(t, v, R(Ended(u), "FAIL"))
    BY <1>12, <2>3, <2>4, KexFails
  <2>. QED
    BY <1>8, <2>1, <2>5
<1>. QED
  BY <1>6, <1>13, <1>14

\* Agreeing on methods.
Agreed(t, offer, m) ==
  /\ m.rc \in {"", "FAIL"} /\ Formed(m.s) /\ Same(t, m.s, {"methods", "burn"})
  /\ m.s.burn => offer.follows

LEMMA AgreeIs ==
  ASSUME NEW t, Formed(t), NEW offer
  PROVE  Agreed(t, offer, AgreeMethods(t, offer))
<1> DEFINE e == [kex |-> AgreeKexHostkey(offer), hostkey |-> AgreeHostkey(offer),
                 crypt |-> AgreeCrypt(offer), mac |-> AgreeMac(offer), comp |-> AgreeComp(offer)]
           bad == \/ None \in {e.kex, e.hostkey}
                  \/ \E k \in {e.crypt, e.mac, e.comp} : None \in {k.cs, k.sc}
           ms == IF e.kex = None THEN <<>> ELSE <<e>>
           burn == offer.follows /\ e.kex # offer.kex[1]
           u == [t EXCEPT !.methods = ms, !.burn = burn]
           rc == IF bad THEN "FAIL" ELSE ""
           m == AgreeMethods(t, offer)
<1>1. m = R(u, rc)
  BY Zenon DEF AgreeMethods
<1>2. rc \in {"", "FAIL"}
  OBVIOUS
<1>3. burn => offer.follows
  OBVIOUS
<1> HIDE DEF ms, burn, rc, m
<1>4. Formed(u) /\ Same(t, u, {"methods", "burn"}) /\ u.burn = burn
  BY FieldsAre DEF Formed, Same
<1> HIDE DEF u
<1>5. m.s = u /\ m.rc = rc
  BY <1>1, ResultOf
<1>6. Agreed(t, offer, m)
  BY <1>2, <1>3, <1>4, <1>5 DEF Agreed
<1>. QED
  BY <1>6 DEF m

\* The server's KEXINIT has been taken.
OfferTaken(t, v, u) ==
  /\ Turns(t, u) /\ u.keys = t.keys /\ u.kex = t.kex /\ ExchangeStates \subseteq u.state /\ "kex" \notin u.start
  /\ \A op \in KeyOps \ {"kex"} : At(u, op, 0) = "idle"
  /\ Begun(u.outbound, v, u.keys) /\ NoneDue(u.outbound) /\ Holding(v, u.keys)
  /\ OnlyGuess(u.inbound, u.keys) /\ NoneAwaited(u)

GuessComing(u) == u.kex = "startup" /\ u.packets = <<>> /\ Guesses(u.inbound) = 1

LEMMA KexAgrees ==
  ASSUME NEW t, t.keys \in Nat, NEW v, NEW u, OfferTaken(t, v, u), NEW offer, offer.follows => GuessComing(u),
         NEW m, Agreed(u, offer, m)
  PROVE  KexStepped(t, v, IF m.rc # "" THEN R(Ended(m.s), "FAIL") ELSE R(Goto(m.s, "kex", 0, "sent2"), "MORE"))
<1> DEFINE d == m.s
           g == Goto(d, "kex", 0, "sent2")
<1>0. /\ Turns(t, u) /\ u.keys = t.keys /\ u.kex = t.kex /\ ExchangeStates \subseteq u.state /\ "kex" \notin u.start
      /\ \A op \in KeyOps \ {"kex"} : At(u, op, 0) = "idle"
      /\ Begun(u.outbound, v, u.keys) /\ NoneDue(u.outbound) /\ Holding(v, u.keys)
      /\ OnlyGuess(u.inbound, u.keys) /\ NoneAwaited(u)
  BY DEF OfferTaken
<1>1. /\ m.rc \in {"", "FAIL"} /\ Formed(d) /\ Same(u, d, {"methods", "burn"})
      /\ d.burn => GuessComing(u)
  BY DEF Agreed
<1>2. Formed(u) /\ (u.fullpacket # "" => u.gone)
  BY <1>0 DEF Turns
<1> HIDE DEF d
<1>3. /\ d.packets = u.packets /\ d.inbound = u.inbound /\ d.kex = u.kex /\ d.keys = u.keys
      /\ d.gone = u.gone /\ d.fullpacket = u.fullpacket /\ d.start = u.start /\ d.state = u.state
      /\ d.outbound = u.outbound
  BY <1>1, FieldsAre DEF Same
<1>4. \A o, c : At(d, o, c) = At(u, o, c)
  BY <1>1, AtSame
<1>5. Turns(u, d)
  <2>1. Same(u, d, Exchanges)
    BY <1>1 DEF Same, Exchanges
  <2>2. StartAt(d) = StartAt(u)
    BY <1>4 DEF StartAt
  <2>3. d.fullpacket # "" => u.gone
    BY <1>2, <1>3
  <2>. QED
    BY <1>1, <1>2, <1>3, <2>1, <2>2, <2>3, TurnsSame
<1>6. Turns(t, d)
  BY <1>0, <1>5, TurnsOn
<1>7. CASE m.rc # ""
  <2>1. Broken(d, v)
    <3>1. Begun(d.outbound, v, d.keys) /\ v.offered /\ NoneDue(d.outbound)
      BY <1>0, <1>3 DEF Holding
    <3>2. d.inbound = <<>> \/ d.inbound[1].key = d.keys
      <4>1. KexNext(u)
        BY <1>0, <1>2, OnlyGuessNext
      <4>. QED
        BY <1>3, <4>1 DEF KexNext
    <3>. QED
      BY <3>1, <3>2 DEF Broken
  <2>2. d.keys \in Nat
    BY <1>0, <1>3
  <2>3. KexStepped(t, v, R(Ended(d), "FAIL"))
    BY <1>6, <2>1, <2>2, KexFails
  <2>. QED
    BY <1>7, <2>3 DEF d
<1>8. CASE m.rc = ""
  <2>1. KexAt(d, g, "sent2")
    BY <1>1, KexGoto
  <2> HIDE DEF g
  <2>2. d.fullpacket # "" => d.gone
    BY <1>2, <1>3
  <2>3. /\ Turns(d, g) /\ g.packets = d.packets /\ g.inbound = d.inbound /\ g.kex = d.kex /\ g.burn = d.burn
        /\ g.keys = d.keys /\ g.outbound = d.outbound /\ g.start = d.start /\ g.state = d.state
    BY <1>1, <2>1, <2>2, KexTurns
  <2>4. At(g, "kex", 0) = "sent2" /\ \A o : o # "kex" => At(g, o, 0) = At(u, o, 0)
    BY <1>4, <2>1 DEF KexAt
  <2>5. At(g, "gex", 0) = "idle" /\ At(g, "dh", 0) = "idle" /\ At(g, "burn", 0) = "idle"
    BY <1>0, <2>4 DEF KeyOps
  <2>6. NothingSent(g, v)
    BY <1>0, <1>3, <2>3, <2>5 DEF NothingSent
  <2>7. NoneAwaited(g)
    BY <1>0, <1>3, <2>3 DEF NoneAwaited
  <2>8. GuessKept(g)
    BY <1>1, <1>3, <2>3 DEF GuessKept, GuessComing
  <2>9. MakingKeys(g, v)
    BY <2>4, <2>5, <2>6, <2>7, <2>8 DEF MakingKeys
  <2>10. Exchanging(g, v)
    BY <1>0, <1>3, <2>3, <2>9 DEF Exchanging
  <2>11. Turns(t, g) /\ g.keys \in Nat
    BY <1>0, <1>3, <1>6, <2>3, TurnsOn
  <2>12. KexStepped(t, v, R(g, "MORE"))
    BY <2>10, <2>11, KexMore
  <2>. QED
    BY <1>8, <2>12 DEF g, d
<1>. QED
  BY <1>7, <1>8

LEMMA AnnouncedTail ==
  ASSUME NEW q, IsList(q), NEW k, Announced(q, 0, k)
  PROVE  /\ q # <<>> /\ q[1].type = "KEXINIT" /\ q[1].key = k /\ OnlyGuess(Tail(q), k)
         /\ Offers[q[1].n].follows => Guesses(Tail(q)) = 1
<1> DEFINE x == Tail(q)
<1>1. /\ Len(q) = IF Offers[q[1].n].follows THEN 2 ELSE 1
      /\ \A j \in DOMAIN q : q[j].key = k
      /\ q[1].type = "KEXINIT"
      /\ \A j \in DOMAIN q : j > 1 => q[j].type = "GUESS"
  <2>1. 0 + 1 = 1
    OBVIOUS
  <2>2. /\ Len(q) = 0 + (IF Offers[q[0 + 1].n].follows THEN 2 ELSE 1)
        /\ \A j \in DOMAIN q : q[j].key = k
        /\ q[0 + 1].type = "KEXINIT"
        /\ \A j \in DOMAIN q : j > 0 + 1 => q[j].type = "GUESS"
    BY DEF Announced
  <2>3. 0 + (IF Offers[q[1].n].follows THEN 2 ELSE 1) = IF Offers[q[1].n].follows THEN 2 ELSE 1
    OBVIOUS
  <2>. QED
    BY <2>1, <2>2, <2>3
<1>2. q # <<>>
  <2>1. Len(q) # 0
    BY <1>1
  <2>. QED
    BY <2>1
<1>3. /\ IsList(x) /\ Len(q) \in Nat /\ DOMAIN q = 1..Len(q) /\ 1 \in DOMAIN q
      /\ Len(x) = Len(q) - 1
      /\ \A j \in DOMAIN x : j + 1 \in DOMAIN q /\ x[j] = q[j + 1] /\ j \in Nat /\ j >= 1
  BY <1>2, TailIs
<1> HIDE DEF x
<1>4. \A j \in DOMAIN x : x[j].type = "GUESS" /\ x[j].key = k
  <2> SUFFICES ASSUME NEW j \in DOMAIN x PROVE x[j].type = "GUESS" /\ x[j].key = k
    OBVIOUS
  <2>1. j + 1 \in DOMAIN q /\ x[j] = q[j + 1] /\ j + 1 > 1
    BY <1>3
  <2>. QED
    BY <1>1, <2>1
<1>5. Len(x) <= 1
  BY <1>1, <1>3
<1>6. OnlyGuess(x, k)
  BY <1>4, <1>5 DEF OnlyGuess, IsGuess
<1>7. ASSUME Offers[q[1].n].follows PROVE Guesses(x) = 1
  <2>1. Len(x) = 1
    BY <1>1, <1>3, <1>7
  <2>2. 1 \in DOMAIN x
    BY <1>3, <2>1, ListHas
  <2>3. x # <<>>
    BY <1>3, <2>2, NotEmpty
  <2>. QED
    BY <1>4, <2>2, <2>3 DEF Guesses
<1>. QED
  BY <1>1, <1>2, <1>3, <1>6, <1>7 DEF x

LEMMA OfferIsTaken ==
  ASSUME NEW t, NEW v, OfferSent(t, v), NEW u, Turns(t, u), u.keys = t.keys, u.kex = t.kex,
         u.outbound = t.outbound, \A o, c : At(u, o, c) = At(t, o, c), ExchangeStates \subseteq u.state,
         "kex" \notin u.start, OnlyGuess(u.inbound, u.keys), NoneAwaited(u)
  PROVE  OfferTaken(t, v, u)
<1>1. \A op \in KeyOps \ {"kex"} : At(u, op, 0) = "idle"
  BY DEF OfferSent
<1>2. Begun(u.outbound, v, u.keys) /\ NoneDue(u.outbound) /\ Holding(v, u.keys)
  BY DEF OfferSent
<1>. QED
  BY <1>1, <1>2 DEF OfferTaken

LEMMA EmptyBrigade ==
  ASSUME NEW t, t.packets = <<>>
  PROVE  NoneAwaited(t)
BY DEF NoneAwaited

\* What packet_add had begun an exchange for is in the brigade.
LEMMA AddTakes ==
  ASSUME NEW t, NEW v, OfferSent(t, v), t.kex = "add", NEW a, Resumed(t, v, a), NEW net,
         NEW k, k = Require(a, "kex", "KEXINIT", net)
  PROVE  k.rc = "" /\ OfferTaken(t, v, k.s) /\ k.p.n = 1
<1> DEFINE u == k.s
<1>0. /\ Turns(t, a) /\ SamePlace(t, a) /\ Formed(a) /\ a.inbound = t.inbound /\ a.packets = t.packets
      /\ \A o, c : At(a, o, c) = At(t, o, c)
      /\ ExchangeStates \subseteq a.state /\ "kex" \notin a.start /\ (a.fullpacket # "" => a.gone)
  BY DEF Resumed, Ready
<1>1. a.kex = t.kex /\ a.outbound = t.outbound /\ a.keys = t.keys
  BY <1>0 DEF SamePlace
<1>2. Called(t) /\ t.inbound = <<>>
  BY DEF OfferSent, Called
<1>3. PICK i \in DOMAIN a.packets : /\ a.packets[i].type = "KEXINIT" /\ a.packets[i].n = 1
                                    /\ \A j \in DOMAIN a.packets : j # i => a.packets[j].type \notin Awaited
  BY <1>0, <1>2 DEF Called
<1>4. \A j \in DOMAIN a.packets : j # i => a.packets[j].type # "KEXINIT"
  BY <1>3 DEF Awaited
<1>5. Ask(a, <<"KEXINIT">>, Nobody) = Got(a, i)
  BY <1>0, <1>3, <1>4, AskOnly
<1>6. /\ Got(a, i).rc = "" /\ Got(a, i).p = a.packets[i]
      /\ Formed(Got(a, i).s) /\ Same(a, Got(a, i).s, {"packets"})
      /\ Got(a, i).s.packets = RemoveAt(a.packets, i)
  BY <1>0, GotIs
<1>7. k = Got(a, i)
  <2>1. Ask(a, <<"KEXINIT">>, Nobody).rc = ""
    BY <1>5, <1>6
  <2>2. k = Ask(a, <<"KEXINIT">>, Nobody)
    BY <1>0, <2>1 DEF Require
  <2>. QED
    BY <1>5, <2>2
<1>8. k.rc = "" /\ k.p.n = 1 /\ Formed(u) /\ Same(a, u, {"packets"}) /\ u.packets = RemoveAt(a.packets, i)
  BY <1>3, <1>6, <1>7
<1> HIDE DEF u
<1>9. /\ u.inbound = a.inbound /\ u.kex = a.kex /\ u.keys = a.keys /\ u.outbound = a.outbound
      /\ u.gone = a.gone /\ u.fullpacket = a.fullpacket /\ u.start = a.start /\ u.state = a.state
  BY <1>8, FieldsAre DEF Same
<1>10. \A o, c : At(u, o, c) = At(a, o, c)
  BY <1>8, AtSame
<1>11. Turns(t, u)
  <2>1. Same(a, u, Exchanges)
    BY <1>8 DEF Same, Exchanges
  <2>2. StartAt(u) = StartAt(a)
    BY <1>10 DEF StartAt
  <2>3. u.fullpacket # "" => a.gone
    BY <1>0, <1>9
  <2>4. Turns(a, u)
    BY <1>0, <1>8, <1>9, <2>1, <2>2, <2>3, TurnsSame
  <2>. QED
    BY <1>0, <2>4, TurnsOn
<1>12. NoneAwaited(u)
  <2> DEFINE q == a.packets
             x == u.packets
  <2>1. IsList(q) /\ i \in DOMAIN q
    BY <1>0 DEF Formed, ArePackets
  <2>2. x = RemoveAt(q, i) /\ \A j \in DOMAIN q : j # i => q[j].type \notin Awaited
    BY <1>3, <1>8
  <2> HIDE DEF q, x
  <2>3. \A j \in DOMAIN x : x[j].type \notin Awaited
    <3>1. /\ Len(q) \in Nat /\ DOMAIN q = 1..Len(q) /\ DOMAIN x = 1..(Len(q) - 1)
          /\ \A j \in 1..(Len(q) - 1) : x[j] = IF j < i THEN q[j] ELSE q[j + 1]
      BY <2>1, <2>2, ListWithout, ListHas
    <3>2. \A j \in DOMAIN x : \E l \in DOMAIN q : l # i /\ x[j] = q[l]
      <4> TAKE j \in DOMAIN x
      <4>1. CASE j < i
        BY <2>1, <3>1, <4>1
      <4>2. CASE ~(j < i)
        <5>1. j + 1 \in DOMAIN q /\ j + 1 # i /\ x[j] = q[j + 1]
          BY <2>1, <3>1, <4>2
        <5>. QED
          BY <5>1
      <4>. QED
        BY <4>1, <4>2
    <3>. QED
      BY <2>2, <3>2
  <2>. QED
    BY <2>3 DEF NoneAwaited, x
<1>13. OnlyGuess(u.inbound, u.keys)
  BY <1>0, <1>2, <1>9, NothingGuessed
<1>14. OfferTaken(t, v, u)
  <2>1. /\ u.keys = t.keys /\ u.kex = t.kex /\ u.outbound = t.outbound
        /\ \A o, c : At(u, o, c) = At(t, o, c)
    BY <1>0, <1>1, <1>9, <1>10
  <2>2. ExchangeStates \subseteq u.state /\ "kex" \notin u.start
    BY <1>0, <1>9
  <2>. QED
    BY <1>11, <1>12, <1>13, <2>1, <2>2, OfferIsTaken
<1>. QED
  BY <1>8, <1>14 DEF u

\* The session has not been given KEXINIT yet when it starts up.
LEMMA StartTakes ==
  ASSUME NEW t, NEW v, OfferSent(t, v), t.kex = "startup", NEW a, Resumed(t, v, a),
         NEW k, Gives(a, "kex", "KEXINIT", k)
  PROVE  OfferTaken(t, v, k.s) /\ (Offers[k.p.n].follows => GuessComing(k.s))
<1> DEFINE u == k.s
<1>0. /\ Turns(t, a) /\ SamePlace(t, a) /\ Formed(a) /\ a.inbound = t.inbound /\ a.packets = t.packets
      /\ \A o, c : At(a, o, c) = At(t, o, c)
      /\ ExchangeStates \subseteq a.state /\ "kex" \notin a.start /\ (a.fullpacket # "" => a.gone)
  BY DEF Resumed, Ready
<1>1. a.kex = t.kex /\ a.outbound = t.outbound /\ a.keys = t.keys
  BY <1>0 DEF SamePlace
<1>2. t.packets = <<>> /\ Announced(t.inbound, 0, t.keys)
  BY DEF OfferSent, Called
<1>3. /\ Formed(u) /\ Same(a, u, {"start", "inbound", "fullpacket"})
      /\ u.start = (a.start \cup {"kex"}) \ {"kex"} /\ a.inbound # <<>>
      /\ u.inbound = Tail(a.inbound) /\ k.p = a.inbound[1] /\ (u.fullpacket # "" => a.gone)
  BY DEF Gives
<1>4. OnlyGuess(u.inbound, t.keys) /\ (Offers[k.p.n].follows => Guesses(u.inbound) = 1)
  <2>1. IsList(t.inbound)
    BY <1>0 DEF Formed, ArePackets
  <2>2. OnlyGuess(Tail(t.inbound), t.keys) /\ (Offers[t.inbound[1].n].follows => Guesses(Tail(t.inbound)) = 1)
    BY <1>2, <2>1, AnnouncedTail
  <2>. QED
    BY <1>0, <1>3, <2>2
<1> HIDE DEF u
<1>5. /\ u.packets = a.packets /\ u.kex = a.kex /\ u.keys = a.keys /\ u.outbound = a.outbound
      /\ u.gone = a.gone /\ u.state = a.state
  BY <1>3, FieldsAre DEF Same
<1>6. \A o, c : At(u, o, c) = At(a, o, c)
  BY <1>3, AtSame
<1>7. Turns(t, u)
  <2>1. Same(a, u, Exchanges)
    BY <1>3 DEF Same, Exchanges
  <2>2. StartAt(u) = StartAt(a)
    BY <1>6 DEF StartAt
  <2>3. Turns(a, u)
    BY <1>0, <1>3, <2>1, <2>2, TurnsSame
  <2>. QED
    BY <1>0, <2>3, TurnsOn
<1>8. u.packets = <<>> /\ NoneAwaited(u)
  BY <1>0, <1>2, <1>5, EmptyBrigade
<1>9. "kex" \notin u.start
  BY <1>3
<1>10. OfferTaken(t, v, u)
  <2>1. /\ u.keys = t.keys /\ u.kex = t.kex /\ u.outbound = t.outbound
        /\ \A o, c : At(u, o, c) = At(t, o, c)
    BY <1>0, <1>1, <1>5, <1>6
  <2>2. ExchangeStates \subseteq u.state /\ OnlyGuess(u.inbound, u.keys)
    BY <1>0, <1>4, <1>5, <2>1
  <2>. QED
    BY <1>7, <1>8, <1>9, <2>1, <2>2, OfferIsTaken
<1>11. Offers[k.p.n].follows => GuessComing(u)
  BY <1>1, <1>4, <1>5, <1>8 DEF GuessComing
<1>. QED
  BY <1>10, <1>11 DEF u

\* What libssh2_kex_exchange returns when it does not go on.
Resting(r) ==
  IF r.rc = "FAIL" THEN R(Ended(r.s), "FAIL")
  ELSE IF r.rc = "EAGAIN" THEN R(Left(r.s), "EAGAIN") ELSE R(r.s, r.rc)

LEMMA KexWaits ==
  ASSUME NEW t, NEW v, NEW u, Turns(t, u), u.keys \in Nat
  PROVE  KexStepped(t, v, R(u, "WAIT"))
<1> DEFINE x == R(u, "WAIT")
<1>1. x.s = u /\ x.rc = "WAIT"
  BY ResultOf
<1> HIDE DEF x
<1>2. KexStepped(t, v, x)
  BY <1>1 DEF KexStepped
<1>. QED
  BY <1>2 DEF x

\* Waiting for KEXINIT.
LEMMA OfferTurns ==
  ASSUME NEW t, Ready(t), NEW q, Waits(t, "kex", q) \/ Loses(t, "kex", q)
  PROVE  /\ Turns(t, q.s) /\ SamePlace(t, q.s) /\ q.s.gone = t.gone /\ q.s.state = t.state
         /\ Loses(t, "kex", q) => q.s.inbound = t.inbound \/ q.s.fullpacket # ""
<1> DEFINE u == q.s
<1>0. Formed(t) /\ (t.fullpacket # "" => t.gone)
  BY DEF Ready
<1>1. Formed(u) /\ Same(t, u, {"inbound", "fullpacket", "start"})
  BY DEF Waits, Loses, Same
<1>2. (u.inbound = t.inbound \/ (t.inbound # <<>> /\ u.inbound = Tail(t.inbound))) /\ (u.fullpacket # "" => t.gone)
  <2>1. CASE Waits(t, "kex", q)
    BY <1>0, <2>1, FieldsAre DEF Waits, Same
  <2>2. CASE Loses(t, "kex", q)
    BY <2>2 DEF Loses
  <2>. QED
    BY <2>1, <2>2
<1>3. Loses(t, "kex", q) => u.inbound = t.inbound \/ u.fullpacket # ""
  BY DEF Loses
<1> HIDE DEF u
<1>4. StartAt(u) = StartAt(t)
  BY <1>1, AtSame DEF StartAt
<1>5. Same(t, u, Exchanges)
  BY <1>1 DEF Same, Exchanges
<1>6. Turns(t, u)
  BY <1>0, <1>1, <1>2, <1>4, <1>5, TurnsSame
<1>7. SamePlace(t, u) /\ u.gone = t.gone /\ u.state = t.state
  BY <1>1, FieldsAre DEF Same, SamePlace
<1>. QED
  BY <1>3, <1>6, <1>7 DEF u

LEMMA KexComes ==
  ASSUME ~Offers[1].follows, NEW t, NEW v, Going(t, v), At(t, "kex", 0) = "sent1", NEW a, Resumed(t, v, a),
         NEW net, NEW k, k = Require(a, "kex", "KEXINIT", net), NEW m, m = AgreeMethods(k.s, Offers[k.p.n])
  PROVE  KexStepped(t, v, IF k.rc # "" THEN Resting(k)
                          ELSE IF m.rc # "" THEN R(Ended(m.s), "FAIL")
                          ELSE R(Goto(m.s, "kex", 0, "sent2"), "MORE"))
<1>0. t.keys \in Nat /\ t.kex \in {"startup", "add"}
  BY DEF Going
<1>1. OfferSent(t, v)
  BY DEF Going, Exchanging, ToOffer, MakingKeys
<1>2. /\ Turns(t, a) /\ SamePlace(t, a) /\ Formed(a) /\ a.inbound = t.inbound /\ a.packets = t.packets
      /\ ExchangeStates \subseteq a.state /\ "kex" \notin a.start /\ Ready(a) /\ a.gone = t.gone
  BY DEF Resumed
<1>3. a.kex = t.kex /\ a.outbound = t.outbound /\ a.keys = t.keys
  BY <1>2 DEF SamePlace
<1>4. ASSUME k.rc = "", OfferTaken(t, v, k.s), Offers[k.p.n].follows => GuessComing(k.s)
      PROVE  KexStepped(t, v, IF m.rc # "" THEN R(Ended(m.s), "FAIL") ELSE R(Goto(m.s, "kex", 0, "sent2"), "MORE"))
  <2>1. Formed(k.s)
    BY <1>4 DEF OfferTaken, Turns
  <2>2. Agreed(k.s, Offers[k.p.n], m)
    BY <2>1, AgreeIs
  <2>. QED
    BY <1>0, <1>4, <2>2, KexAgrees
<1>5. CASE t.kex = "add"
  <2>1. k.rc = "" /\ OfferTaken(t, v, k.s) /\ k.p.n = 1
    BY <1>1, <1>5, AddTakes
  <2>2. Offers[k.p.n].follows => GuessComing(k.s)
    BY <2>1
  <2>. QED
    BY <1>4, <2>1, <2>2
<1>6. CASE t.kex = "startup"
  <2>1. a.packets = <<>> /\ Announced(a.inbound, 0, a.keys)
    BY <1>1, <1>2, <1>3, <1>6 DEF OfferSent, Called
  <2>2. a.inbound # <<>> /\ a.inbound[1].type = "KEXINIT" /\ a.inbound[1].key = a.keys
    <3>1. IsList(a.inbound)
      BY <1>2 DEF Formed, ArePackets
    <3>. QED
      BY <2>1, <3>1, AnnouncedTail
  <2>3. Waits(a, "kex", k) \/ Loses(a, "kex", k) \/ Keeps(a, "kex", "KEXINIT", k) \/ Gives(a, "kex", "KEXINIT", k)
    <3>1. "KEXINIT" \in Awaited
      BY DEF Awaited
    <3>2. KexNext(a)
      BY <2>2, <3>1 DEF KexNext, KexPackets
    <3>3. Sound(a) /\ "EXCHANGING_KEYS" \in a.state /\ (a.socket_state = "disconnected" => a.gone)
          /\ (a.inbound # <<>> => a.inbound[1].type \in KexPackets)
      BY <1>2, <3>2, KexSound
    <3>4. Lacks(a, "KEXINIT")
      BY <2>1, <3>1, EmptyBrigade, NoneLacks
    <3>. QED
      BY <3>1, <3>3, <3>4, RequireKex
  <2>4. ~Keeps(a, "kex", "KEXINIT", k)
    BY <2>2 DEF Keeps
  <2>5. CASE Waits(a, "kex", k)
    <3>1. k.rc \in {"WAIT", "EAGAIN"}
      BY <2>5 DEF Waits
    <3>2. Turns(a, k.s) /\ SamePlace(a, k.s) /\ k.s.state = a.state
      BY <1>2, <2>5, OfferTurns
    <3>3. Turns(t, k.s) /\ k.s.keys \in Nat /\ ExchangeStates \subseteq k.s.state
      BY <1>0, <1>2, <1>3, <3>2, TurnsOn DEF SamePlace
    <3>4. KexStepped(t, v, R(k.s, "WAIT")) /\ KexStepped(t, v, R(Left(k.s), "EAGAIN"))
      BY <3>3, KexWaits, KexLeaves
    <3>5. KexStepped(t, v, Resting(k)) /\ k.rc # ""
      BY <3>1, <3>4 DEF Resting
    <3>. QED
      BY <3>5
  <2>6. CASE Loses(a, "kex", k)
    <3>1. k.rc = "FAIL" /\ a.gone
      BY <2>6 DEF Loses
    <3>2. /\ Turns(a, k.s) /\ SamePlace(a, k.s) /\ k.s.gone = a.gone
          /\ k.s.inbound = a.inbound \/ k.s.fullpacket # ""
      BY <1>2, <2>6, OfferTurns
    <3>3. Turns(t, k.s) /\ k.s.keys = t.keys /\ k.s.outbound = t.outbound
      BY <1>2, <1>3, <3>2, TurnsOn DEF SamePlace
    <3>4. Broken(k.s, v)
      <4>1. Begun(k.s.outbound, v, k.s.keys)
        BY <1>1, <3>3 DEF OfferSent
      <4>2. k.s.fullpacket # "" \/ k.s.inbound[1].key = k.s.keys
        BY <1>3, <2>2, <3>2, <3>3
      <4>. QED
        BY <3>1, <3>2, <4>1, <4>2 DEF Broken
    <3>5. KexStepped(t, v, R(Ended(k.s), "FAIL"))
      BY <1>0, <3>3, <3>4, KexFails
    <3>6. Resting(k) = R(Ended(k.s), "FAIL") /\ k.rc # ""
      BY <3>1 DEF Resting
    <3>. QED
      BY <3>5, <3>6
  <2>7. CASE Gives(a, "kex", "KEXINIT", k)
    <3>1. k.rc = ""
      BY <2>7 DEF Gives
    <3>2. OfferTaken(t, v, k.s) /\ (Offers[k.p.n].follows => GuessComing(k.s))
      BY <1>1, <1>6, <2>7, StartTakes
    <3>. QED
      BY <1>4, <3>1, <3>2
  <2>. QED
    BY <2>3, <2>4, <2>5, <2>6, <2>7
<1>. QED
  BY <1>0, <1>5, <1>6

\* The keys are made.
LEMMA KexMakes ==
  ASSUME NEW t, NEW v, Going(t, v), At(t, "kex", 0) = "sent2", NEW a, Resumed(t, v, a),
         NEW net, NEW x, x = ExchangeKeys(a, net)
  PROVE  KexStepped(t, v, IF x.rc = "" THEN R(Ended(x.s), "") ELSE Resting(x))
<1> DEFINE u == x.s
<1>0. t.keys \in Nat /\ t.kex \in {"startup", "add"}
  BY DEF Going
<1>1. MakingKeys(t, v)
  BY DEF Going, Exchanging, ToOffer, OfferSent
<1>2. /\ Turns(t, a) /\ SamePlace(t, a) /\ a.inbound = t.inbound /\ a.packets = t.packets
      /\ \A o, c : At(a, o, c) = At(t, o, c)
      /\ ExchangeStates \subseteq a.state /\ "kex" \notin a.start /\ Ready(a)
  BY DEF Resumed
<1>3. MakingKeys(a, v)
  BY <1>1, <1>2, SamePositions
<1>4. MadeStepped(a, v, x)
  BY <1>2, <1>3, MadeSteps
<1>5. /\ Inner(a, u) /\ u.keys \in Nat /\ x.rc \in {"MORE", "WAIT", "EAGAIN", "FAIL", ""}
      /\ x.rc = "MORE" => MakingKeys(u, v)
      /\ x.rc = "FAIL" => Broken(u, v)
      /\ x.rc = "" => Renewed(u, v) /\ At(u, "gex", 0) = "idle"
  BY <1>4 DEF MadeStepped, Stepped
<1>6. x.s = u
  OBVIOUS
<1> HIDE DEF u
<1>7. Turns(t, u)
  BY <1>2, <1>5, TurnsOn DEF Inner
<1>8. ExchangeStates \cap u.state = ExchangeStates /\ "kex" \notin u.start
  BY <1>2, <1>5 DEF Inner
<1>9. CASE x.rc = ""
  <2> DEFINE e == Ended(u)
             y == R(e, "")
  <2>1. Formed(u) /\ (u.fullpacket # "" => u.gone)
    BY <1>7 DEF Turns
  <2>2. AtEnd(u, e)
    BY <2>1, EndedIs
  <2> HIDE DEF e
  <2>3. y.s = e /\ y.rc = ""
    BY ResultOf
  <2> HIDE DEF y
  <2>4. Turns(t, e) /\ e.keys \in Nat
    BY <1>5, <1>7, <2>2, TurnsOn DEF AtEnd
  <2>5. Idle(e)
    <3>1. At(u, "dh", 0) = "idle" /\ At(u, "burn", 0) = "idle" /\ At(u, "gex", 0) = "idle"
      BY <1>5, <1>9 DEF Renewed
    <3>2. \A op \in KeyOps : At(e, op, 0) = "idle"
      BY <2>2, <3>1 DEF AtEnd, KeyOps
    <3>3. "kex" \notin e.start /\ ExchangeStates \cap e.state = {}
      BY <1>8, <2>2 DEF AtEnd
    <3>. QED
      BY <3>2, <3>3 DEF Idle
  <2>6. Calm(e, v)
    <3>1. NoneAwaited(e)
      BY <1>5, <1>9, <2>2 DEF Renewed, AtEnd, NoneAwaited
    <3>2. Flow(e.inbound, 0, v, e.keys) /\ Open(e.outbound, v, e.keys)
      BY <1>5, <1>9, <2>2 DEF Renewed, AtEnd
    <3>. QED
      BY <2>5, <3>1, <3>2 DEF Calm
  <2>7. KexStepped(t, v, y)
    BY <2>3, <2>4, <2>6 DEF KexStepped
  <2>. QED
    BY <1>6, <1>9, <2>7 DEF y, e
<1>10. CASE x.rc = "FAIL"
  <2>1. KexStepped(t, v, R(Ended(u), "FAIL"))
    BY <1>5, <1>7, <1>10, KexFails
  <2>. QED
    BY <1>6, <1>10, <2>1 DEF Resting
<1>11. CASE x.rc = "EAGAIN"
  <2>1. KexStepped(t, v, R(Left(u), "EAGAIN"))
    BY <1>5, <1>7, <1>8, KexLeaves
  <2>. QED
    BY <1>6, <1>11, <2>1 DEF Resting
<1>12. CASE x.rc = "WAIT"
  <2>1. KexStepped(t, v, R(u, "WAIT"))
    BY <1>5, <1>7, KexWaits
  <2>. QED
    BY <1>6, <1>12, <2>1 DEF Resting
<1>13. CASE x.rc = "MORE"
  <2>1. Exchanging(u, v)
    BY <1>5, <1>8, <1>13 DEF Exchanging
  <2>2. KexStepped(t, v, R(u, "MORE"))
    BY <1>5, <1>7, <2>1, KexMore
  <2>. QED
    BY <1>6, <1>13, <2>2 DEF Resting
<1>. QED
  BY <1>5, <1>9, <1>10, <1>11, <1>12, <1>13

\* Every step of it.
LEMMA KexExchangeSteps ==
  ASSUME ~Offers[1].follows, NEW t, NEW v, Going(t, v), NEW net
  PROVE  KexStepped(t, v, KexExchange(t, net))
<1> DEFINE a == Active(t)
           x == KexExchange(t, net)
           i == KexInit(a)
           k == Require(a, "kex", "KEXINIT", net)
           m == AgreeMethods(k.s, Offers[k.p.n])
           y == ExchangeKeys(a, net)
<1>1. CASE At(t, "kex", 0) = "idle"
  <2>1. x = R(BeginExchange(a), "MORE")
    BY <1>1 DEF KexExchange, Active
  <2>2. Restated(t, a, t.state \cup {"KEX_ACTIVE"})
    BY StatesAre DEF Going
  <2> HIDE DEF a
  <2>3. KexStepped(t, v, R(BeginExchange(a), "MORE"))
    BY <1>1, <2>2, KexBegins
  <2>. QED
    BY <2>1, <2>3
<1>2. CASE At(t, "kex", 0) = "sent"
  <2>1. x = IF i.rc = "" THEN R(Goto(i.s, "kex", 0, "sent1"), "MORE") ELSE Resting(i)
    BY <1>2, Zenon DEF KexExchange, Active, Resting
  <2>2. Resumed(t, v, a)
    BY <1>2, ResumedIs
  <2> HIDE DEF a, i, x
  <2>3. /\ KexStepped(t, v, IF i.rc = "" THEN R(Goto(i.s, "kex", 0, "sent1"), "MORE") ELSE R(Ended(i.s), "FAIL"))
        /\ i.rc \in {"", "FAIL"}
    BY <1>2, <2>2, KexOffers DEF i
  <2>4. KexStepped(t, v, x)
    BY <2>1, <2>3 DEF Resting
  <2>. QED
    BY <2>4 DEF x
<1>3. CASE At(t, "kex", 0) = "sent1"
  <2>1. x = IF k.rc # "" THEN Resting(k)
            ELSE IF m.rc # "" THEN R(Ended(m.s), "FAIL")
            ELSE R(Goto(m.s, "kex", 0, "sent2"), "MORE")
    BY <1>3, Zenon DEF KexExchange, Active, Resting
  <2>2. Resumed(t, v, a)
    BY <1>3, ResumedIs
  <2> HIDE DEF a, k, m, x
  <2>3. k = Require(a, "kex", "KEXINIT", net) /\ m = AgreeMethods(k.s, Offers[k.p.n])
    BY DEF k, m
  <2>4. KexStepped(t, v, x)
    BY <1>3, <2>1, <2>2, <2>3, KexComes
  <2>. QED
    BY <2>4 DEF x
<1>4. CASE At(t, "kex", 0) = "sent2"
  <2>1. x = IF y.rc = "" THEN R(Ended(y.s), "") ELSE Resting(y)
    BY <1>4, Zenon DEF KexExchange, Active, Resting
  <2>2. Resumed(t, v, a)
    BY <1>4, ResumedIs
  <2> HIDE DEF a, y, x
  <2>3. y = ExchangeKeys(a, net)
    BY DEF y
  <2>4. KexStepped(t, v, x)
    BY <1>4, <2>1, <2>2, <2>3, KexMakes
  <2>. QED
    BY <2>4 DEF x
<1>5. At(t, "kex", 0) \in {"idle", "sent", "sent1", "sent2"}
  BY DEF Going, Exchanging, ToOffer, OfferSent, MakingKeys
<1>. QED
  BY <1>1, <1>2, <1>3, <1>4, <1>5

\* An exchange is left (Leaves).
LeftOff(t, r, net) ==
  \/ ExchangeStates \cap r.s.state = {"EXCHANGING_KEYS"}
  \/ t.kex = "add" /\ KexExchange(t, net).rc = "FAIL"

LEMMA HungTurns ==
  ASSUME NEW t, NEW v, Hung(t, v), NEW u, Turns(t, u)
  PROVE  Hung(u, v)
<1>1. \A j \in DOMAIN u.inbound : u.inbound[j].type = "DISCONNECT" => u.gone
  <2> SUFFICES ASSUME NEW j \in DOMAIN u.inbound, u.inbound[j].type = "DISCONNECT" PROVE u.gone
    OBVIOUS
  <2>1. u.inbound[j] \in Range(t.inbound)
    BY DEF Turns, Range
  <2>2. PICK i \in DOMAIN t.inbound : t.inbound[i] = u.inbound[j]
    BY <2>1 DEF Range
  <2>3. t.gone
    BY <2>2 DEF Hung
  <2>. QED
    BY <2>3 DEF Turns
<1>2. u.fullpacket # "" \/ u.socket_state = "disconnected" => u.gone
  BY DEF Hung, Turns
<1>3. \A j \in DOMAIN v.held : v.held[j].type = "DISCONNECT" => u.gone
  BY DEF Hung, Turns
<1>. QED
  BY <1>1, <1>2, <1>3 DEF Hung

\* Where an exchange ends nothing else changes.
EndOf(t, u, kexRc) == [u EXCEPT !.kex = "none", !.kexRc = kexRc]

LEMMA EndOfIs ==
  ASSUME NEW t, NEW u, Turns(t, u), NEW kexRc
  PROVE  LET e == EndOf(t, u, kexRc)
         IN  /\ Formed(e) /\ Same(u, e, {"kex", "kexRc"}) /\ e.kex = "none" /\ e.kexRc = kexRc
             /\ e.call = t.call /\ StartAt(e) = StartAt(t) /\ e.keys = u.keys /\ e.state = u.state
<1> DEFINE e == EndOf(t, u, kexRc)
<1>1. Formed(u) /\ u.call = t.call /\ StartAt(u) = StartAt(t)
  BY DEF Turns
<1>2. Formed(e) /\ Same(u, e, {"kex", "kexRc"}) /\ e.kex = "none" /\ e.kexRc = kexRc
  BY <1>1, FieldsAre DEF Formed, Same, EndOf
<1> HIDE DEF e
<1>3. e.call = u.call /\ e.keys = u.keys /\ e.state = u.state
  BY <1>2, FieldsAre DEF Same
<1>4. StartAt(e) = StartAt(u)
  BY <1>2, AtSame DEF StartAt
<1>. QED
  BY <1>1, <1>2, <1>3, <1>4 DEF e

LEMMA EndedHung ==
  ASSUME NEW u, NEW v, Hung(u, v), NEW e, Same(u, e, {"kex", "kexRc"})
  PROVE  Hung(e, v)
<1>1. e.fullpacket = u.fullpacket /\ e.socket_state = u.socket_state /\ e.gone = u.gone /\ e.inbound = u.inbound
  BY FieldsAre DEF Same
<1>. QED
  BY <1>1 DEF Hung

LEMMA EndedCalm ==
  ASSUME NEW u, NEW v, NEW e, Same(u, e, {"kex", "kexRc"})
  PROVE  (Calm(u, v) => Calm(e, v)) /\ (Broken(u, v) => Broken(e, v))
<1>1. /\ e.fullpacket = u.fullpacket /\ e.packets = u.packets /\ e.gone = u.gone /\ e.inbound = u.inbound
      /\ e.outbound = u.outbound /\ e.keys = u.keys /\ e.state = u.state /\ e.start = u.start
  BY FieldsAre DEF Same
<1>2. \A o, c : At(e, o, c) = At(u, o, c)
  BY AtSame
<1>3. ASSUME Calm(u, v) PROVE Calm(e, v)
  <2>1. Idle(e)
    BY <1>1, <1>2, <1>3 DEF Calm, Idle
  <2>2. NoneAwaited(e)
    BY <1>1, <1>3 DEF Calm, NoneAwaited
  <2>. QED
    BY <1>1, <1>3, <2>1, <2>2 DEF Calm
<1>4. Broken(u, v) => Broken(e, v)
  BY <1>1 DEF Broken
<1>. QED
  BY <1>3, <1>4

\* The states of a program that is in a call.
Settled(t, v, a) ==
  /\ Formed(t) /\ t.keys \in Nat /\ Hung(t, v) /\ Program(t, a)
  /\ Unstarted(t, v, a) \/ In(t, v, a) \/ Between(t, v, a) \/ Failed(t, v, a) \/ Freed(t, v, a)

LEMMA CallSame ==
  ASSUME NEW t, NEW u, u.call = t.call, StartAt(u) = StartAt(t), NEW a, NEW b, b.busy = a.busy, b.todo = a.todo
  PROVE  /\ Program(t, a) => Program(u, b)
         /\ Started(t, a) => Started(u, b)
         /\ PastExchange(t, a) => PastExchange(u, b)
BY DEF Program, Reading, Started, PastExchange

LEMMA KexGoes ==
  ASSUME ~Offers[1].follows, NEW t, Formed(t), t.keys \in Nat, NEW v, Hung(t, v), NEW a, Program(t, a), In(t, v, a),
         NEW net, NEW r, r = KexStep(t, net), r.rc # "WAIT",
         NEW b, b.busy = a.busy, b.todo = a.todo
  PROVE  r.rc = "MORE" /\ (LeftOff(t, r, net) \/ Settled(r.s, v, b))
<1> DEFINE x == KexExchange(t, net)
           u == x.s
           given == CASE x.rc = "EAGAIN" -> "EAGAIN"
                      [] x.rc = "FAIL" /\ t.kex # "add" -> "FAIL"
                      [] x.rc = "" /\ t.kex = "startup" -> "KEYS"
                      [] OTHER -> ""
           e == EndOf(t, u, given)
<1>1. Going(t, v)
  BY DEF Going, In, Hung
<1>2. KexStepped(t, v, x)
  BY <1>1, KexExchangeSteps
<1>3. r = IF x.rc \in {"MORE", "WAIT"} THEN x ELSE R(e, "MORE")
  BY Zenon DEF KexStep, EndOf
<1> HIDE DEF x
<1>4. /\ Turns(t, u) /\ u.keys \in Nat
      /\ x.rc \in {"MORE", "WAIT", "EAGAIN", "FAIL", ""}
      /\ x.rc = "MORE" => Exchanging(u, v)
      /\ x.rc = "EAGAIN" => ExchangeStates \cap u.state = {"EXCHANGING_KEYS"}
      /\ x.rc = "FAIL" /\ t.kex = "startup" => Broken(u, v)
      /\ x.rc = "" => Calm(u, v)
  BY <1>2 DEF KexStepped
<1>5. t.kex \in {"startup", "add"} /\ a.busy
  BY <1>1 DEF Going, In
<1>6. Hung(u, v)
  BY <1>4, HungTurns
<1>7. /\ t.kex = "startup" => Started(t, a)
      /\ t.kex = "add" => PastExchange(t, a)
  BY DEF In
<1>8. CASE x.rc = "MORE"
  <2>1. r = x
    BY <1>3, <1>8
  <2>2. Formed(u) /\ u.kex = t.kex /\ u.kexRc = t.kexRc /\ u.call = t.call /\ StartAt(u) = StartAt(t)
    BY <1>4 DEF Turns
  <2>3. Program(u, b) /\ (t.kex = "startup" => Started(u, b)) /\ (t.kex = "add" => PastExchange(u, b))
    BY <1>7, <2>2, CallSame
  <2>4. In(u, v, b)
    BY <1>4, <1>5, <1>8, <2>2, <2>3 DEF In
  <2>5. Settled(u, v, b)
    BY <1>4, <1>6, <2>2, <2>3, <2>4 DEF Settled
  <2>. QED
    BY <1>8, <2>1, <2>5
<1>9. CASE x.rc \in {"EAGAIN", "FAIL", ""}
  <2>1. r = R(e, "MORE")
    BY <1>3, <1>9
  <2>2. given = IF x.rc = "EAGAIN" THEN "EAGAIN"
                ELSE IF x.rc = "FAIL" /\ t.kex # "add" THEN "FAIL"
                ELSE IF x.rc = "" /\ t.kex = "startup" THEN "KEYS" ELSE ""
    BY <1>9
  <2> HIDE DEF given
  <2>3. /\ Formed(e) /\ Same(u, e, {"kex", "kexRc"}) /\ e.kex = "none" /\ e.kexRc = given
        /\ e.call = t.call /\ StartAt(e) = StartAt(t) /\ e.keys = u.keys /\ e.state = u.state
    <3>1. Turns(t, u)
      BY <1>4
    <3> HIDE DEF u
    <3>. QED
      BY <3>1, EndOfIs
  <2> HIDE DEF e
  <2>4. r.s = e /\ r.rc = "MORE"
    BY <2>1, ResultOf
  <2>5. Program(e, b) /\ (t.kex = "startup" => Started(e, b)) /\ (t.kex = "add" => PastExchange(e, b))
    BY <1>7, <2>3, CallSame
  <2>6. Hung(e, v)
    BY <1>6, <2>3, EndedHung
  <2>7. (Calm(u, v) => Calm(e, v)) /\ (Broken(u, v) => Broken(e, v))
    BY <2>3, EndedCalm
  <2>8. ASSUME Between(e, v, b) \/ Failed(e, v, b) PROVE Settled(e, v, b)
    BY <1>4, <2>3, <2>5, <2>6, <2>8 DEF Settled
  <2>9. CASE x.rc = "EAGAIN"
    BY <1>4, <2>3, <2>4, <2>9 DEF LeftOff
  <2>10. CASE x.rc = "FAIL" /\ t.kex = "add"
    BY <2>4, <2>10 DEF LeftOff, x
  <2>11. CASE x.rc = "FAIL" /\ t.kex = "startup"
    <3>1. Broken(e, v) /\ e.kexRc = "FAIL" /\ e.kex = "none" /\ Started(e, b)
      BY <1>4, <2>2, <2>3, <2>5, <2>7, <2>11
    <3>2. Failed(e, v, b)
      BY <3>1 DEF Failed
    <3>. QED
      BY <2>4, <2>8, <3>2
  <2>12. CASE x.rc = ""
    <3>1. Calm(e, v) /\ e.kex = "none"
      BY <1>4, <2>3, <2>7, <2>12
    <3>2. CASE t.kex = "startup"
      <4>1. e.kexRc = "KEYS" /\ Started(e, b)
        BY <2>2, <2>3, <2>5, <2>12, <3>2
      <4>2. Between(e, v, b)
        BY <3>1, <4>1 DEF Between
      <4>. QED
        BY <2>4, <2>8, <4>2
    <3>3. CASE t.kex = "add"
      <4>1. e.kexRc = "" /\ PastExchange(e, b)
        BY <2>2, <2>3, <2>5, <2>12, <3>3
      <4>2. Between(e, v, b)
        BY <3>1, <4>1 DEF Between
      <4>. QED
        BY <2>4, <2>8, <4>2
    <3>. QED
      BY <1>5, <3>2, <3>3
  <2>. QED
    BY <1>5, <1>9, <2>9, <2>10, <2>11, <2>12
<1>10. x.rc # "WAIT"
  BY <1>3
<1>. QED
  BY <1>4, <1>8, <1>9, <1>10

-----------------------------------------------------------------------------
(* The calls of a program. *)

\* What of a list comes after its first d entries.
Later(todo, x, d) ==
  /\ IsList(x) /\ Len(x) = Len(todo) - d
  /\ \A j \in DOMAIN x : j + d \in DOMAIN todo /\ x[j] = todo[j + d]

LEMMA SubLater ==
  ASSUME NEW todo, IsList(todo), NEW m \in 1..(Len(todo) + 1)
  PROVE  Later(todo, SubSeq(todo, m, Len(todo)), m - 1)
<1> DEFINE n == Len(todo)
           x == SubSeq(todo, m, n)
           S == Range(todo)
<1>1. n \in Nat /\ DOMAIN todo = 1..n
  BY ListHas
<1>2. m \in Int /\ n \in Int
  BY <1>1
<1>3. \A i \in m..n : i \in DOMAIN todo /\ todo[i] \in S
  BY <1>1 DEF Range
<1>4. /\ x \in Seq(S) /\ Len(x) = IF m <= n THEN n - m + 1 ELSE 0
      /\ \A i \in 1..(n - m + 1) : x[i] = todo[m + i - 1]
  <2> HIDE DEF n, S
  <2>. QED
    BY <1>2, <1>3, SubSeqProperties
<1>5. IsList(x)
  BY <1>4, ListIs
<1> HIDE DEF x
<1>6. Len(x) = n - (m - 1)
  BY <1>1, <1>4
<1>7. DOMAIN x = 1..(n - (m - 1))
  BY <1>5, <1>6, ListHas
<1>8. \A j \in DOMAIN x : j + (m - 1) \in DOMAIN todo /\ x[j] = todo[j + (m - 1)]
  <2> TAKE j \in DOMAIN x
  <2>1. j \in 1..(n - m + 1) /\ j + (m - 1) \in 1..n /\ m + j - 1 = j + (m - 1)
    BY <1>1, <1>7
  <2>. QED
    BY <1>1, <1>4, <2>1
<1>. QED
  BY <1>5, <1>6, <1>8 DEF Later, x

LEMMA TailLater ==
  ASSUME NEW todo, IsList(todo), todo # <<>>
  PROVE  Later(todo, Tail(todo), 1)
BY TailIs DEF Later

LEMMA LaterUsable ==
  ASSUME NEW todo, Usable(todo), NEW d \in Nat, NEW x, Later(todo, x, d)
  PROVE  Usable(x)
<1>1. Len(todo) \in Nat /\ DOMAIN todo = 1..Len(todo) /\ Len(x) \in Nat /\ DOMAIN x = 1..Len(x)
  BY ListHas DEF Usable, Later
<1>2. Len(x) = Len(todo) - d /\ \A j \in DOMAIN x : j + d \in DOMAIN todo /\ x[j] = todo[j + d]
  BY DEF Later
<1>3. \A j \in DOMAIN x : /\ j = Len(x) <=> j + d = Len(todo)
                          /\ j = Len(x) - 1 <=> j + d = Len(todo) - 1
                          /\ j > Len(x) - 2 <=> j + d > Len(todo) - 2
  BY <1>1, <1>2
<1>4. \A j \in DOMAIN todo :
       /\ DOMAIN todo[j] = CallFields
       /\ todo[j].op \in Ops
       /\ todo[j].yes \in {"next", "skip"} /\ todo[j].no \in {"next", "end"}
       /\ todo[j].op = "session_free" => j = Len(todo)
       /\ j = Len(todo) => todo[j].op = "session_free"
       /\ j = Len(todo) - 1 => todo[j].op = "disconnect"
       /\ j > Len(todo) - 2 => todo[j].yes = "next" /\ todo[j].no = "next"
  BY DEF Usable
<1>5. ASSUME NEW j \in DOMAIN x
      PROVE  /\ DOMAIN x[j] = CallFields
             /\ x[j].op \in Ops
             /\ x[j].yes \in {"next", "skip"} /\ x[j].no \in {"next", "end"}
             /\ x[j].op = "session_free" => j = Len(x)
             /\ j = Len(x) => x[j].op = "session_free"
             /\ j = Len(x) - 1 => x[j].op = "disconnect"
             /\ j > Len(x) - 2 => x[j].yes = "next" /\ x[j].no = "next"
  <2>1. j + d \in DOMAIN todo /\ x[j] = todo[j + d]
    BY <1>2, <1>5
  <2>2. /\ DOMAIN todo[j + d] = CallFields
        /\ todo[j + d].op \in Ops
        /\ todo[j + d].yes \in {"next", "skip"} /\ todo[j + d].no \in {"next", "end"}
        /\ todo[j + d].op = "session_free" => j + d = Len(todo)
        /\ j + d = Len(todo) => todo[j + d].op = "session_free"
        /\ j + d = Len(todo) - 1 => todo[j + d].op = "disconnect"
        /\ j + d > Len(todo) - 2 => todo[j + d].yes = "next" /\ todo[j + d].no = "next"
    BY <1>4, <2>1
  <2>. QED
    BY <1>3, <1>5, <2>1, <2>2
<1>. QED
  BY <1>5 DEF Usable, Later

LEMMA LaterStays ==
  ASSUME NEW todo, NEW d, NEW x, Later(todo, x, d)
  PROVE  /\ NoStartup(todo) => NoStartup(x)
         /\ Quitting(todo) => Quitting(x)
BY DEF Later, NoStartup, Quitting

\* No later call starts up.
LEMMA LaterStarted ==
  ASSUME NEW todo, IsList(todo), todo # <<>>, NEW d \in Nat, d >= 1, NEW x, Later(todo, x, d),
         NoStartup(todo) \/ Starts(todo)
  PROVE  NoStartup(x)
<1>1. CASE NoStartup(todo)
  BY <1>1, LaterStays
<1>2. CASE Starts(todo)
  <2>1. NoStartup(Tail(todo))
    BY <1>2 DEF Starts
  <2>2. /\ Len(Tail(todo)) = Len(todo) - 1 /\ Len(todo) \in Nat /\ DOMAIN todo = 1..Len(todo)
        /\ IsList(Tail(todo)) /\ \A j \in DOMAIN Tail(todo) : Tail(todo)[j] = todo[j + 1]
    BY TailIs
  <2>3. DOMAIN Tail(todo) = 1..(Len(todo) - 1)
    BY <2>2, ListHas
  <2>4. \A i \in DOMAIN todo : i >= 2 => todo[i].op # "startup"
    <3> SUFFICES ASSUME NEW i \in DOMAIN todo, i >= 2 PROVE todo[i].op # "startup"
      OBVIOUS
    <3>1. i - 1 \in DOMAIN Tail(todo) /\ (i - 1) + 1 = i
      BY <2>2, <2>3
    <3>2. Tail(todo)[i - 1] = todo[i]
      BY <2>2, <3>1
    <3>. QED
      BY <2>1, <3>1, <3>2 DEF NoStartup
  <2>5. DOMAIN x \subseteq Nat \ {0}
    BY ListHas DEF Later
  <2>6. ASSUME NEW j \in DOMAIN x PROVE x[j].op # "startup"
    <3>1. j + d \in DOMAIN todo /\ x[j] = todo[j + d]
      BY <2>6 DEF Later
    <3>2. j + d >= 2
      BY <2>5, <2>6
    <3>. QED
      BY <2>4, <3>1, <3>2
  <2>. QED
    BY <2>6 DEF NoStartup
<1>. QED
  BY <1>1, <1>2

\* The first call of what a program has left to do.
LEMMA UsableFirst ==
  ASSUME NEW todo, Usable(todo), todo # <<>>
  PROVE  /\ IsList(todo) /\ Len(todo) \in Nat /\ Len(todo) >= 1 /\ Head(todo) = todo[1] /\ 1 \in DOMAIN todo
         /\ Head(todo).op \in Ops
         /\ Head(todo).yes \in {"next", "skip"} /\ Head(todo).no \in {"next", "end"}
         /\ Head(todo).op = "session_free" => Len(todo) = 1
         /\ Len(todo) < 3 => /\ Head(todo).yes = "next" /\ Head(todo).no = "next"
                             /\ Head(todo).op \in {"disconnect", "session_free"}
<1>1. /\ IsList(todo) /\ Len(todo) \in Nat /\ Len(todo) >= 1 /\ Head(todo) = todo[1] /\ 1 \in DOMAIN todo
  BY TailIs DEF Usable
<1> DEFINE e == todo[1]
<1>2. /\ e.op \in Ops
      /\ e.yes \in {"next", "skip"} /\ e.no \in {"next", "end"}
      /\ e.op = "session_free" => 1 = Len(todo)
      /\ 1 = Len(todo) => e.op = "session_free"
      /\ 1 = Len(todo) - 1 => e.op = "disconnect"
      /\ 1 > Len(todo) - 2 => e.yes = "next" /\ e.no = "next"
  BY <1>1 DEF Usable
<1> HIDE DEF e
<1>3. Len(todo) < 3 => 1 > Len(todo) - 2 /\ (1 = Len(todo) \/ 1 = Len(todo) - 1)
  <2> DEFINE n == Len(todo)
  <2>1. n \in Nat /\ n >= 1
    BY <1>1
  <2> HIDE DEF n
  <2>2. n < 3 => 1 > n - 2 /\ (1 = n \/ 1 = n - 1)
    BY <2>1
  <2>. QED
    BY <2>2 DEF n
<1>. QED
  BY <1>1, <1>2, <1>3 DEF e

\* The last two calls.
LEMMA EndQuits ==
  ASSUME NEW todo, Usable(todo), NEW d \in Nat, NEW x, Later(todo, x, d), d + 2 = Len(todo)
  PROVE  Quitting(x) /\ Len(x) = 2
<1>1. Len(x) = 2 /\ IsList(x)
  BY ListHas DEF Later
<1>2. DOMAIN x = 1..2
  BY <1>1, ListHas
<1>3. Usable(x)
  BY LaterUsable
<1>4. ASSUME NEW j \in DOMAIN x PROVE x[j].op \in {"disconnect", "session_free"}
  <2>1. j = Len(x) \/ j = Len(x) - 1
    BY <1>1, <1>2
  <2>2. /\ j = Len(x) => x[j].op = "session_free"
        /\ j = Len(x) - 1 => x[j].op = "disconnect"
    BY <1>3 DEF Usable
  <2>. QED
    BY <2>1, <2>2
<1>. QED
  BY <1>1, <1>4 DEF Quitting

Joins(x, a, b) ==
  /\ IsList(x) /\ Len(a) \in Nat /\ Len(b) \in Nat
  /\ Len(x) = Len(a) + Len(b) /\ DOMAIN x = 1..(Len(a) + Len(b))
  /\ \A j \in 1..Len(a) : x[j] = a[j]
  /\ \A j \in 1..Len(b) : x[Len(a) + j] = b[j]

LEMMA JoinedIs ==
  ASSUME NEW a, IsList(a), NEW b, IsList(b)
  PROVE  Joins(a \o b, a, b)
BY ListJoined DEF Joins

\* Two lists of two.
JoinsFour(x, p, q) ==
  /\ IsList(x) /\ Len(x) = 4 /\ DOMAIN x = 1..4
  /\ x[1] = p[1] /\ x[2] = p[2] /\ x[3] = q[1] /\ x[4] = q[2]

LEMMA FourJoined ==
  ASSUME NEW p, Len(p) = 2, NEW q, Len(q) = 2, NEW x, Joins(x, p, q)
  PROVE  JoinsFour(x, p, q)
<1>2. /\ IsList(x) /\ Len(x) = 2 + 2 /\ DOMAIN x = 1..(2 + 2)
      /\ \A j \in 1..2 : x[j] = p[j]
      /\ \A j \in 1..2 : x[2 + j] = q[j]
  BY DEF Joins
<1>3. x[1] = p[1] /\ x[2] = p[2] /\ x[2 + 1] = q[1] /\ x[2 + 2] = q[2]
  BY <1>2
<1>. QED
  BY <1>2, <1>3 DEF JoinsFour

\* readData on a channel without data closes and frees it, and ends.
LEMMA ClosingUsable ==
  ASSUME NEW of, NEW q, Usable(q), Len(q) = 2, NoStartup(q)
  PROVE  LET x == <<Does("close", of, "", 0, 0), Does("free", of, "", 0, 0)>> \o q
         IN  Usable(x) /\ NoStartup(x)
<1> DEFINE a == Does("close", of, "", 0, 0)
           b == Does("free", of, "", 0, 0)
           p == <<a, b>>
           x == p \o q
<1>1. /\ DOMAIN a = CallFields /\ a.op = "close" /\ a.yes = "next" /\ a.no = "next"
      /\ DOMAIN b = CallFields /\ b.op = "free" /\ b.yes = "next" /\ b.no = "next"
  BY DEF Does, CallFields
<1> HIDE DEF a, b
<1>2. IsList(p) /\ Len(p) = 2 /\ p[1] = a /\ p[2] = b
  BY DEF IsList, Range
<1> HIDE DEF p
<1>3. IsList(q) /\ DOMAIN q = 1..2
  BY ListHas DEF Usable
<1>4. /\ IsList(x) /\ Len(x) = 4 /\ DOMAIN x = 1..4
      /\ x[1] = a /\ x[2] = b /\ x[3] = q[1] /\ x[4] = q[2]
  <2>1. IsList(p) /\ IsList(q)
    BY <1>2, <1>3
  <2>2. Joins(x, p, q)
    BY <2>1, JoinedIs, Zenon
  <2>3. Len(p) = 2 /\ Len(q) = 2
    BY <1>2
  <2> HIDE DEF x
  <2>4. JoinsFour(x, p, q)
    BY <2>2, <2>3, FourJoined, Zenon
  <2>. QED
    BY <1>2, <2>4 DEF JoinsFour
<1> HIDE DEF x
<1>5. /\ q[1].op # "startup" /\ q[2].op # "startup"
      /\ DOMAIN q[1] = CallFields /\ q[1].op = "disconnect" /\ q[1].yes = "next" /\ q[1].no = "next"
      /\ DOMAIN q[2] = CallFields /\ q[2].op = "session_free" /\ q[2].yes = "next" /\ q[2].no = "next"
  <2>1. 1 \in DOMAIN q /\ 2 \in DOMAIN q /\ 1 = Len(q) - 1 /\ 2 = Len(q) /\ 1 > Len(q) - 2 /\ 2 > Len(q) - 2
    BY <1>3
  <2>. QED
    BY <2>1, Zenon DEF Usable, NoStartup
<1>6. {"close", "free", "disconnect", "session_free"} \subseteq Ops
  BY DEF Ops
<1>7. \A j \in DOMAIN x : j = 1 \/ j = 2 \/ j = 3 \/ j = 4
  BY <1>4
<1>8. NoStartup(x)
  BY <1>1, <1>4, <1>5, <1>7 DEF NoStartup
<1>9. Usable(x)
  <2> SUFFICES ASSUME NEW j \in DOMAIN x
               PROVE  /\ DOMAIN x[j] = CallFields
                      /\ x[j].op \in Ops
                      /\ x[j].yes \in {"next", "skip"} /\ x[j].no \in {"next", "end"}
                      /\ x[j].op = "session_free" => j = Len(x)
                      /\ j = Len(x) => x[j].op = "session_free"
                      /\ j = Len(x) - 1 => x[j].op = "disconnect"
                      /\ j > Len(x) - 2 => x[j].yes = "next" /\ x[j].no = "next"
    BY <1>4 DEF Usable
  <2>1. CASE j = 1
    BY <1>1, <1>4, <1>6, <2>1
  <2>2. CASE j = 2
    BY <1>1, <1>4, <1>6, <2>2
  <2>3. CASE j = 3
    BY <1>4, <1>5, <1>6, <2>3
  <2>4. CASE j = 4
    BY <1>4, <1>5, <1>6, <2>4
  <2>. QED
    BY <1>7, <2>1, <2>2, <2>3, <2>4
<1>. QED
  BY <1>8, <1>9 DEF x, p, a, b

\* What remains of the program, after a call or several.
Onward(n) ==
  /\ Usable(n) /\ NoStartup(n)
  /\ Quitting(app.todo) => Quitting(n)

LEMMA LaterOnward ==
  ASSUME Usable(app.todo), app.todo # <<>>, NoStartup(app.todo) \/ Starts(app.todo),
         NEW d \in Nat, d >= 1, NEW x, Later(app.todo, x, d)
  PROVE  Onward(x)
<1>1. Usable(x)
  BY LaterUsable
<1>2. NoStartup(x)
  BY LaterStarted DEF Usable
<1>3. Quitting(app.todo) => Quitting(x)
  BY LaterStays
<1>. QED
  BY <1>1, <1>2, <1>3 DEF Onward

\* From disconnect on.
LEMMA EndingIs ==
  ASSUME Usable(app.todo), app.todo # <<>>, NoStartup(app.todo) \/ Starts(app.todo), Len(app.todo) >= 3
  PROVE  Onward(Ending) /\ Quitting(Ending) /\ Len(Ending) = 2
<1> DEFINE todo == app.todo
           n == Len(todo)
           x == SubSeq(todo, n - 1, n)
<1>1. IsList(todo) /\ n \in Nat /\ n >= 3
  BY ListHas DEF Usable
<1>2. Later(todo, x, (n - 1) - 1)
  <2>1. n - 1 \in 1..(n + 1)
    <3> HIDE DEF n
    <3>. QED
      BY <1>1
  <2> HIDE DEF todo
  <2>. QED
    BY <1>1, <2>1, SubLater
<1> DEFINE d == (n - 1) - 1
<1>3. d \in Nat /\ d >= 1 /\ d + 2 = n
  <2> HIDE DEF n
  <2>. QED
    BY <1>1
<1>4. Later(todo, x, d)
  BY <1>2
<1>5. Usable(todo) /\ n = Len(todo)
  OBVIOUS
<1> HIDE DEF d, n, x
<1>6. Onward(x)
  BY <1>3, <1>4, LaterOnward
<1>7. Quitting(x) /\ Len(x) = 2
  <2> HIDE DEF todo
  <2>. QED
    BY <1>3, <1>4, <1>5, EndQuits
<1>8. Ending = x
  BY DEF Ending, x, n
<1>. QED
  BY <1>6, <1>7, <1>8

LEMMA TailOnward ==
  ASSUME Usable(app.todo), app.todo # <<>>, NoStartup(app.todo) \/ Starts(app.todo)
  PROVE  Onward(Tail(app.todo)) /\ (Now.op = "session_free" => Tail(app.todo) = <<>>)
<1>1. Later(app.todo, Tail(app.todo), 1)
  BY TailLater DEF Usable
<1>2. Onward(Tail(app.todo))
  BY <1>1, LaterOnward
<1>3. Now.op = "session_free" => Len(app.todo) = 1
  BY UsableFirst DEF Now
<1>4. IsList(app.todo)
  BY DEF Usable
<1>5. Len(app.todo) = 1 => Tail(app.todo) = <<>>
  BY <1>4, OneTail
<1>. QED
  BY <1>2, <1>3, <1>5

LEMMA SkipOnward ==
  ASSUME Usable(app.todo), app.todo # <<>>, NoStartup(app.todo) \/ Starts(app.todo), Len(app.todo) >= 3
  PROVE  Onward(SubSeq(app.todo, 3, Len(app.todo)))
<1> DEFINE todo == app.todo
           n == Len(todo)
           x == SubSeq(todo, 3, n)
<1>1. IsList(todo) /\ n \in Nat /\ n >= 3
  BY ListHas DEF Usable
<1>2. 3 \in 1..(n + 1)
  <2> HIDE DEF n
  <2>. QED
    BY <1>1
<1>3. Later(todo, x, 3 - 1)
  <2> HIDE DEF todo
  <2>. QED
    BY <1>1, <1>2, SubLater
<1>4. Later(todo, x, 2) /\ 2 \in Nat /\ 2 >= 1
  BY <1>3
<1> HIDE DEF x
<1>5. Onward(x)
  BY <1>4, LaterOnward
<1>. QED
  BY <1>5 DEF x

LEMMA NextCallsAre ==
  ASSUME Usable(app.todo), app.todo # <<>>, NoStartup(app.todo) \/ Starts(app.todo), NEW r, NEW have
  PROVE  LET n == NextCalls(r, have)
         IN  /\ \/ n = app.todo /\ (Now.op = "read" \/ r.rc = "EAGAIN")
                \/ Onward(n)
             /\ r.rc \notin {"", "EAGAIN"} /\ Now.op # "read" /\ Now.no = "end" => Quitting(n)
             /\ r.rc = "" /\ Now.op = "session_free" => n = <<>>
<1> DEFINE n == NextCalls(r, have)
           of == Now.of
           skip == SubSeq(app.todo, 3, Len(app.todo))
           closing == <<Does("close", of, "", 0, 0), Does("free", of, "", 0, 0)>> \o Ending
<1>1. /\ Len(app.todo) \in Nat
      /\ Now.yes \in {"next", "skip"} /\ Now.no \in {"next", "end"} 
      /\ Now.op = "session_free" => Len(app.todo) = 1
      /\ Len(app.todo) < 3 => /\ Now.yes = "next" /\ Now.no = "next"
                              /\ Now.op \in {"disconnect", "session_free"}
  BY UsableFirst DEF Now
<1>2. Len(app.todo) < 3 \/ Len(app.todo) >= 3
  BY <1>1
<1>2a. Len(app.todo) = 1 => Len(app.todo) < 3
  <2> DEFINE m == Len(app.todo)
  <2>1. m = 1 => m < 3
    <3> HIDE DEF m
    <3>. QED
      OBVIOUS
  <2>. QED
    BY <2>1
<1>3. Onward(Tail(app.todo)) /\ (Now.op = "session_free" => Tail(app.todo) = <<>>)
  BY TailOnward
<1>4. ASSUME Len(app.todo) >= 3
      PROVE  Onward(Ending) /\ Quitting(Ending) /\ Onward(skip) /\ (~Quitting(app.todo) => Onward(closing))
  <2>1. Onward(Ending) /\ Quitting(Ending) /\ Len(Ending) = 2
    BY <1>4, EndingIs
  <2>2. Onward(skip)
    BY <1>4, SkipOnward
  <2>3. Usable(Ending) /\ NoStartup(Ending)
    BY <2>1 DEF Onward
  <2>4. Usable(closing) /\ NoStartup(closing)
    BY <2>1, <2>3, ClosingUsable
  <2>. QED
    BY <2>1, <2>2, <2>4 DEF Onward
<1> HIDE DEF skip, closing
<1>5. \/ n = app.todo /\ Now.op = "read"
      \/ n = app.todo /\ Now.op # "read" /\ r.rc = "EAGAIN"
      \/ n = Tail(app.todo) /\ (Now.op = "read" \/ ((r.rc = "" => Now.yes # "skip") /\ (r.rc # "" => Now.no # "end")))
      \/ n = closing /\ Now.op = "read"
      \/ n = skip /\ Now.op # "read" /\ r.rc = "" /\ Now.yes = "skip"
      \/ n = Ending /\ Now.op # "read" /\ r.rc # "" /\ Now.no = "end"
  <2>1. CASE Now.op = "read"
    <3>1. n = CASE r.rc = "EAGAIN" -> Tail(app.todo)
                [] r.rc = "" /\ r.s.call.got = <<>> -> closing
                [] OTHER -> IF Len(have) < Now.n THEN app.todo ELSE Tail(app.todo)
      BY <2>1, Zenon DEF NextCalls, AfterRead, closing
    <3> HIDE DEF n
    <3>2. n = closing \/ n = Tail(app.todo) \/ n = app.todo
      BY <3>1
    <3>. QED
      BY <2>1, <3>2 DEF n
  <2>2. CASE Now.op # "read"
    <3> DEFINE where == IF r.rc = "" THEN Now.yes ELSE Now.no
    <3>1. n = IF r.rc = "EAGAIN" /\ Now.again THEN app.todo ELSE After(where)
      BY <2>2, Zenon DEF NextCalls
    <3>2. where \in {"next", "skip", "end"}
      BY <1>1
    <3>3. /\ where = "skip" => r.rc = "" /\ Now.yes = "skip"
          /\ where = "end" => r.rc # "" /\ Now.no = "end"
          /\ where = "next" => (r.rc = "" => Now.yes # "skip") /\ (r.rc # "" => Now.no # "end")
      BY <1>1
    <3> HIDE DEF where
    <3>4. After(where) = IF where = "next" THEN Tail(app.todo) ELSE IF where = "skip" THEN skip ELSE Ending
      <4>1. CASE where = "next"
        BY <4>1 DEF After
      <4>2. CASE where = "skip"
        BY <4>2 DEF After, skip
      <4>3. CASE where = "end"
        BY <4>3 DEF After
      <4>. QED
        BY <3>2, <4>1, <4>2, <4>3
    <3> HIDE DEF n
    <3>5. (n = app.todo /\ r.rc = "EAGAIN") \/ n = After(where)
      BY <3>1
    <3>6. (n = After(where)) =>
            \/ n = Tail(app.todo) /\ where = "next"
            \/ n = skip /\ where = "skip"
            \/ n = Ending /\ where = "end"
      BY <3>2, <3>4
    <3>. QED
      BY <2>2, <3>3, <3>5, <3>6 DEF n
  <2>. QED
    BY <2>1, <2>2
<1> HIDE DEF n
<1>6. Quitting(app.todo) => Now.op # "read"
  BY UsableFirst DEF Quitting, Now
<1>7. Now.op = "read" \/ Now.yes = "skip" \/ Now.no = "end" => Len(app.todo) >= 3
  BY <1>1, <1>2
<1>8. (n = app.todo /\ (Now.op = "read" \/ r.rc = "EAGAIN")) \/ Onward(n)
  BY <1>3, <1>4, <1>5, <1>6, <1>7
<1>9. r.rc \notin {"", "EAGAIN"} /\ Now.op # "read" /\ Now.no = "end" => Quitting(n)
  BY <1>3, <1>4, <1>5, <1>7
<1>10. r.rc = "" /\ Now.op = "session_free" => n = <<>>
  <2> SUFFICES ASSUME r.rc = "", Now.op = "session_free" PROVE n = <<>>
    OBVIOUS
  <2>1. Now.op # "read" /\ Now.yes # "skip"
    <3>2. Now.yes = "next"
      BY <1>1, <1>2a, Zenon
    <3>. QED
      BY <3>2
  <2>. QED
    BY <1>3, <1>5, <2>1
<1>. QED
  BY <1>8, <1>9, <1>10 DEF n

-----------------------------------------------------------------------------
(* A step of a call. *)

LEMMA ReturnedIs ==
  ASSUME DOMAIN app = AppFields, NEW r
  PROVE  LET b == Returned(r)
         IN  /\ DOMAIN b = AppFields /\ b.busy = FALSE /\ b.left = app.left
             /\ \E have : b.todo = NextCalls(r, have)
<1> DEFINE have == app.read[Now.of] \o r.s.call.got
           todo == NextCalls(r, IF Now.op = "read" THEN have ELSE <<>>)
           Kept(b) == /\ DOMAIN b = AppFields /\ b.busy = FALSE /\ b.left = app.left /\ b.todo = todo
           mine  == CASE r.rc = "" /\ Now.op \in {"open", "direct"} -> Append(app.mine, r.s.open_channel)
                      [] r.rc = "" /\ Now.op = "accept" -> Append(app.mine, Head(r.s.channels))
                      [] OTHER -> app.mine
           gives == r.rc \in {"TIMEOUT", "FAIL"} \/ (r.rc = "EAGAIN" /\ ~Now.again)
           lossy == IF Now.op = "flush" \/ (Now.op = "extended_data" /\ Now.arg = "ignore") THEN {On} ELSE {}
           done  == [app EXCEPT !.busy = FALSE, !.todo = todo, !.mine = mine,
                                !.lossy = @ \cup lossy,
                                !.merged = IF Now.op = "extended_data" /\ Now.arg = "merge" THEN @ \cup {On} ELSE @,
                                !.resent = @ \/ (r.rc = "EAGAIN" /\ Now.op = "write"
                                                 /\ s.chan[On].write_bufwrote > 0)]
           result == [done EXCEPT !.results = @ \cup {<<Now.op, AskedOn, r.rc>>},
                                  !.read = IF mine # app.mine THEN Append(@, <<>>) ELSE @]
           reads == [done EXCEPT !.read[Now.of] = have]
           gave == [done EXCEPT !.givenUp = @ \cup {AskedOn}]
           added == [done EXCEPT !.read = Append(@, <<>>)]
<1>1. Returned(r) = IF Now.op = "read" THEN reads
                    ELSE IF Now.op \in DOMAIN Asks /\ r.rc \in {"", "DENIED"} THEN result
                    ELSE IF Now.op \in DOMAIN Asks /\ gives THEN gave
                    ELSE IF mine # app.mine THEN added
                    ELSE done
  BY Zenon DEF Returned
<1> HIDE DEF todo, mine, gives, lossy, have
<1>2. Kept(done)
  BY DEF AppFields
<1> HIDE DEF done
<1>3. Kept(result) /\ Kept(reads) /\ Kept(gave) /\ Kept(added)
  <2>1. DOMAIN done = AppFields
    BY <1>2
  <2>2. Kept(result)
    BY <1>2, <2>1 DEF AppFields
  <2>3. Kept(reads)
    BY <1>2, <2>1 DEF AppFields
  <2>4. Kept(gave)
    BY <1>2, <2>1 DEF AppFields
  <2>5. Kept(added)
    BY <1>2, <2>1 DEF AppFields
  <2>. QED
    BY <2>2, <2>3, <2>4, <2>5
<1> HIDE DEF result, reads, gave, added
<1>4. Kept(Returned(r))
  <2> HIDE DEF Kept
  <2>. QED
    BY <1>1, <1>2, <1>3
<1>. QED
  BY <1>4 DEF todo

\* The program after a step of its call.
Continues(r, b) ==
  /\ r.rc = "MORE" => b.busy = app.busy /\ b.todo = app.todo
  /\ r.rc # "MORE" => b.busy = FALSE /\ \E have : b.todo = NextCalls(r, have)

LEMMA RunIs ==
  ASSUME DOMAIN app = AppFields, NEW net, Run(net), ~app'.left
  PROVE  LET r == Step(s, Now.op, On, Now.arg, net)
         IN  /\ app.todo # <<>> /\ app.busy
             /\ r.rc # "WAIT" /\ ~LeftOff(s, r, net)
             /\ s' = r.s /\ srv' = srv /\ DOMAIN app' = AppFields
             /\ Continues(r, app')
<1> DEFINE r == Step(s, Now.op, On, Now.arg, net)
           a == IF r.rc = "MORE" THEN app ELSE Returned(r)
<1>1. /\ app.todo # <<>> /\ app.busy
      /\ r.rc # "WAIT" /\ s' = r.s /\ srv' = srv
      /\ app' = [a EXCEPT !.parts = IF net = "whole" THEN @ ELSE @ - 1,
                    !.left = @ \/ Leaves(r, net),
                    !.lossy = @ \cup Waiting(r.s)]
  BY Zenon DEF Run
<1> HIDE DEF r
<1>2. /\ DOMAIN a = AppFields /\ a.left = app.left /\ Continues(r, a)
  <2>1. CASE r.rc = "MORE"
    BY <2>1 DEF Continues
  <2>2. CASE r.rc # "MORE"
    <3>1. a = Returned(r)
      BY <2>2
    <3> HIDE DEF a
    <3>. QED
      BY <2>2, <3>1, ReturnedIs DEF Continues
  <2>. QED
    BY <2>1, <2>2
<1> HIDE DEF a
<1>3. /\ DOMAIN app' = AppFields /\ app'.busy = a.busy /\ app'.todo = a.todo
      /\ app'.left = (a.left \/ Leaves(r, net))
  BY <1>1, <1>2 DEF AppFields
<1>4. ~Leaves(r, net)
  BY <1>3, Zenon
<1>5. ~LeftOff(s, r, net)
  BY <1>4 DEF Leaves, LeftOff, ExchangeStates
<1>6. Continues(r, app')
  BY <1>2, <1>3 DEF Continues
<1>. QED
  BY <1>1, <1>3, <1>5, <1>6 DEF r

\* How the program goes on after the step r of its call.
LEMMA GoesOnward ==
  ASSUME Program(s, app), app.todo # <<>>, NEW r, NEW b, Continues(r, b), r.rc # "MORE"
  PROVE  /\ b.busy = FALSE /\ Usable(b.todo)
         /\ \/ b.todo = app.todo /\ (Now.op = "read" \/ r.rc = "EAGAIN")
            \/ NoStartup(b.todo) /\ (Quitting(app.todo) => Quitting(b.todo))
         /\ r.rc \notin {"", "EAGAIN"} /\ Now.op # "read" /\ Now.no = "end" => Quitting(b.todo)
         /\ r.rc = "" /\ Now.op = "session_free" => b.todo = <<>>
<1>1. Usable(app.todo) /\ (NoStartup(app.todo) \/ Starts(app.todo))
  BY DEF Program
<1>2. PICK have : b.todo = NextCalls(r, have)
  BY DEF Continues
<1>3. b.busy = FALSE
  BY DEF Continues
<1> DEFINE n == NextCalls(r, have)
<1>4. /\ \/ n = app.todo /\ (Now.op = "read" \/ r.rc = "EAGAIN")
         \/ Onward(n)
      /\ r.rc \notin {"", "EAGAIN"} /\ Now.op # "read" /\ Now.no = "end" => Quitting(n)
      /\ r.rc = "" /\ Now.op = "session_free" => n = <<>>
  BY <1>1, NextCallsAre
<1>5. n = b.todo
  BY <1>2
<1> HIDE DEF n
<1>. QED
  BY <1>1, <1>3, <1>4, <1>5 DEF Onward

LEMMA QuittingLists ==
  ASSUME NEW todo, Quitting(todo)
  PROVE  NoStartup(todo)
BY DEF Quitting, NoStartup

\* The call waits for no exchange: neither comes of its step.
LEMMA CalmStep ==
  ASSUME Formed(s), s.keys \in Nat, Hung(s, srv), Program(s, app), Calm(s, srv), s.kex = "none", s.kexRc = "",
         app.todo # <<>>, app.busy,
         NEW r, Goes(s, r), Now.op = "read" => Reading(r.s.call),
         NoStartup(app.todo) \/ (/\ Now.op = "startup" /\ Starts(app.todo)
                                 /\ r.rc \notin {"", "FAIL"} => StartAt(r.s) \in {"sent2", "sent4"}),
         NEW b, Continues(r, b)
  PROVE  Settled(r.s, srv, b)
<1> DEFINE u == r.s
<1>1. /\ Formed(u) /\ Hung(u, srv) /\ u.keys = s.keys /\ u.kexRc = ""
      /\ \/ u.kex = "none" /\ Calm(u, srv)
         \/ r.rc = "MORE" /\ u.kex = "add" /\ Exchanging(u, srv)
  BY CalmGoes
<1>2. Now.op = "read" => Reading(u.call)
  OBVIOUS
<1>3. \/ NoStartup(app.todo)
      \/ Now.op = "startup" /\ Starts(app.todo) /\ (r.rc \notin {"", "FAIL"} => StartAt(u) \in {"sent2", "sent4"})
  OBVIOUS
<1> HIDE DEF u
<1>4. Usable(app.todo) /\ Now = app.todo[1]
  BY UsableFirst DEF Program, Now
<1>5. CASE r.rc = "MORE"
  <2>1. b.busy = app.busy /\ b.todo = app.todo
    BY <1>5 DEF Continues
  <2>2. r.rc \notin {"", "FAIL"}
    BY <1>5
  <2>3. PastExchange(u, b)
    BY <1>3, <2>1, <2>2 DEF PastExchange
  <2>4. Program(u, b)
    BY <1>2, <1>4, <2>1 DEF Program
  <2>5. Between(u, srv, b) \/ In(u, srv, b)
    BY <1>1, <2>1, <2>3 DEF Between, In
  <2>. QED
    BY <1>1, <2>4, <2>5 DEF Settled, u
<1>6. CASE r.rc # "MORE"
  <2>1. /\ b.busy = FALSE /\ Usable(b.todo)
        /\ \/ b.todo = app.todo /\ (Now.op = "read" \/ r.rc = "EAGAIN")
           \/ NoStartup(b.todo)
    BY <1>6, GoesOnward
  <2>2. PastExchange(u, b)
    <3>1. CASE NoStartup(b.todo)
      BY <3>1 DEF PastExchange
    <3>2. CASE b.todo = app.todo /\ Now.op # "read" /\ r.rc = "EAGAIN"
      <4>1. r.rc \notin {"", "FAIL"}
        BY <3>2
      <4>. QED
        BY <1>3, <3>2, <4>1 DEF PastExchange
    <3>3. CASE b.todo = app.todo /\ Now.op = "read"
      <4>1. Now.op # "startup"
        BY <3>3
      <4>. QED
        BY <1>3, <3>3, <4>1 DEF PastExchange
    <3>. QED
      BY <2>1, <3>1, <3>2, <3>3
  <2>3. Program(u, b)
    BY <2>1, <2>2 DEF Program, PastExchange
  <2>4. u.kex = "none" /\ Calm(u, srv)
    BY <1>1, <1>6
  <2>5. Between(u, srv, b)
    BY <1>1, <2>2, <2>4 DEF Between
  <2>. QED
    BY <1>1, <2>3, <2>5 DEF Settled, u
<1>. QED
  BY <1>5, <1>6

\* session_free.
LEMMA FreedStep ==
  ASSUME Formed(s), s.keys \in Nat, Hung(s, srv), Program(s, app), app.todo # <<>>,
         Now.op = "session_free", srv.keysIn \in Nat,
         NEW k \in {srv.keysIn, srv.keysIn + 1},
         Plainly(s.outbound, srv, k) \/ Begun(s.outbound, srv, k) \/ Switching(s.outbound, srv, k),
         NEW r, r = SessionFree(s), NEW b, Continues(r, b)
  PROVE  Settled(r.s, srv, b)
<1> DEFINE u == [NewSession EXCEPT !.socket_state = "freed", !.outbound = s.outbound, !.inbound = s.inbound,
                       !.gone = s.gone]
<1>1. r.s = u /\ r.rc = ""
  <2>1. r = R(u, "")
    BY DEF SessionFree
  <2> HIDE DEF u
  <2>. QED
    BY <2>1, ResultOf
<1>2. /\ DOMAIN u = Fields /\ u.socket_state = "freed" /\ u.outbound = s.outbound /\ u.inbound = s.inbound
      /\ u.gone = s.gone /\ u.fullpacket = "" /\ u.packets = <<>> /\ u.keys = 0 /\ u.kex = "none"
  BY FieldsAre DEF NewSession
<1> HIDE DEF u
<1>3. Formed(u)
  <2>1. ArePackets(<<>>)
    BY DEF ArePackets, IsList, Range
  <2>. QED
    BY <1>2, <2>1 DEF Formed
<1>4. Hung(u, srv)
  BY <1>2 DEF Hung
<1>5. b.busy = FALSE /\ b.todo = <<>> /\ Usable(b.todo)
  BY <1>1, GoesOnward
<1>6. Program(u, b)
  <2>1. NoStartup(b.todo)
    BY <1>5 DEF NoStartup
  <2>. QED
    BY <1>5, <2>1 DEF Program
<1>7. Freed(u, srv, b)
  BY <1>2, <1>5 DEF Freed
<1>. QED
  <2>1. u.keys \in Nat
    <3>1. u.keys = 0
      BY <1>2
    <3>. QED
      BY <3>1
  <2>. QED
    BY <1>1, <2>1, <1>3, <1>4, <1>6, <1>7 DEF Settled

\* startup goes on after the exchange it has made.
LEMMA KeysStep ==
  ASSUME Formed(s), s.keys \in Nat, Hung(s, srv), Program(s, app), Calm(s, srv), s.kex = "none", s.kexRc = "KEYS",
         Started(s, app), app.todo # <<>>,
         NEW net, NEW r, r = Startup(s, net), NEW b, Continues(r, b)
  PROVE  Settled(r.s, srv, b)
<1> DEFINE e == [s EXCEPT !.kexRc = ""]
           u == Goto(e, "startup", 0, "sent2")
<1>1. Formed(e) /\ Same(s, e, {"kexRc"}) /\ e.kexRc = ""
  BY FieldsAre DEF Formed, Same
<1>2. r = R(u, "MORE")
  <2>1. At(s, "startup", 0) = "sent1"
    BY DEF Started, StartAt
  <2>. QED
    BY <2>1 DEF Startup
<1> HIDE DEF e
<1>3. /\ Formed(u) /\ Same(e, u, {"at"}) /\ At(u, "startup", 0) = "sent2"
      /\ \A o, c : <<o, c>> # <<"startup", 0>> => At(u, o, c) = At(e, o, c)
  <2>1. Formed(u)
    BY <1>1, GotoForms
  <2>2. Formed(e)
    BY <1>1
  <2>3. Stood(e, u, "startup", "sent2")
    BY <2>2, GotoOther
  <2> HIDE DEF u
  <2>. QED
    BY <2>1, <2>3 DEF Stood, Same
<1> HIDE DEF u
<1>4. r.s = u /\ r.rc = "MORE"
  BY <1>2, ResultOf
<1>5. \A o, c : At(e, o, c) = At(s, o, c)
  BY <1>1, AtSame
<1>6. /\ u.fullpacket = s.fullpacket /\ u.packets = s.packets /\ u.gone = s.gone /\ u.inbound = s.inbound
      /\ u.outbound = s.outbound /\ u.keys = s.keys /\ u.state = s.state /\ u.start = s.start
      /\ u.kex = "none" /\ u.kexRc = "" /\ u.socket_state = s.socket_state /\ u.call = s.call
  BY <1>1, <1>3, FieldsAre DEF Same
<1>7. \A o \in KeyOps : At(u, o, 0) = At(s, o, 0)
  <2> SUFFICES ASSUME NEW o \in KeyOps PROVE At(u, o, 0) = At(s, o, 0)
    OBVIOUS
  <2>1. <<o, 0>> # <<"startup", 0>>
    BY DEF KeyOps
  <2>. QED
    BY <1>3, <1>5, <2>1
<1>8. Idle(u) /\ NoneAwaited(u)
  BY <1>6, <1>7 DEF Idle, Calm, NoneAwaited
<1>9. Calm(u, srv)
  BY <1>6, <1>8 DEF Calm
<1>10. Hung(u, srv)
  BY <1>6 DEF Hung
<1>11. b.busy = app.busy /\ b.todo = app.todo
  BY <1>4 DEF Continues
<1>12. Program(u, b)
  BY <1>6, <1>11 DEF Program, Reading
<1>13. PastExchange(u, b)
  BY <1>3, <1>11 DEF PastExchange, Started, StartAt
<1>14. Between(u, srv, b)
  BY <1>6, <1>9, <1>13 DEF Between
<1>. QED
  BY <1>3, <1>4, <1>6, <1>10, <1>12, <1>14 DEF Settled

\* libssh2's DISCONNECT is no part of an exchange.
LEMMA QuitSends ==
  ASSUME NEW o, IsList(o), NEW k, NEW e, e.key = k, e.type = "DISCONNECT", NEW v
  PROVE  LET x == Append(o, e)
         IN  /\ Plainly(o, v, k) => Plainly(x, v, k)
             /\ Begun(o, v, k) => Begun(x, v, k)
             /\ NoneDue(o) => NoneDue(x)
<1> DEFINE x == Append(o, e)
           n == Len(o) + 1
<1>1. /\ n \in DOMAIN x /\ x[n] = e
      /\ \A j \in DOMAIN o : j \in DOMAIN x /\ x[j] = o[j] /\ j # n
      /\ \A j \in DOMAIN x : j # n => j \in DOMAIN o /\ x[j] = o[j]
  BY AppendedIs
<1>2. \A j \in DOMAIN o : j < n /\ ~(n < j)
  <2>1. Len(o) \in Nat /\ DOMAIN o = 1..Len(o)
    BY ListHas
  <2>. QED
    BY <2>1
<1>3. e.type \notin Asking /\ e.type \notin Inits /\ e.type \in Inits \cup {"DISCONNECT"}
  BY DEF Asking, Inits
<1> HIDE DEF x, n
<1>4. Plainly(o, v, k) => Plainly(x, v, k)
  BY <1>1, <1>3 DEF Plainly
<1>5. Within(o, v, k) => Within(x, v, k)
  BY <1>1, <1>3 DEF Within
<1>6. ASSUME Proposed(o, v, k) PROVE Proposed(x, v, k)
  <2>1. PICK m \in DOMAIN o :
          /\ o[m].type = "KEXINIT"
          /\ \A j \in DOMAIN o : j < m => o[j].type \notin Asking
          /\ \A j \in DOMAIN o : j > m => o[j].type \in Inits \cup {"DISCONNECT"}
    BY <1>6 DEF Proposed
  <2>2. m \in DOMAIN x /\ x[m] = o[m]
    BY <1>1
  <2>3. \A j \in DOMAIN x : j < m => x[j].type \notin Asking
    BY <1>1, <1>2, <2>1
  <2>4. \A j \in DOMAIN x : j > m => x[j].type \in Inits \cup {"DISCONNECT"}
    BY <1>1, <1>3, <2>1
  <2>5. \A j \in DOMAIN x : x[j].key = k
    BY <1>1, <1>6 DEF Proposed
  <2>6. x[m].type = "KEXINIT"
    BY <2>1, <2>2
  <2>. QED
    BY <1>6, <2>2, <2>3, <2>4, <2>5, <2>6 DEF Proposed
<1>7. NoneDue(o) => NoneDue(x)
  BY <1>1, <1>3 DEF NoneDue
<1>. QED
  BY <1>4, <1>5, <1>6, <1>7 DEF Begun, x

LEMMA BrokenQuits ==
  ASSUME NEW t, Formed(t), NEW v, Broken(t, v), NEW w, w = PacketWrite(t, Plain("DISCONNECT"))
  PROVE  Formed(w.s) /\ Same(t, w.s, {"outbound"}) /\ Broken(w.s, v)
<1> DEFINE p == Plain("DISCONNECT")
           e == [p EXCEPT !.key = t.keys]
           u == w.s
<1>1. IsPacket(p) /\ p.type = "DISCONNECT"
  BY DEF IsPacket, Plain, Packet, PacketFields
<1>2. e.key = t.keys /\ e.type = "DISCONNECT"
  BY <1>1, FieldsAre DEF IsPacket
<1>3. /\ Formed(u) /\ Same(t, u, {"outbound"})
      /\ u.outbound = IF t.gone THEN t.outbound ELSE Append(t.outbound, e)
  <2> HIDE DEF p
  <2>. QED
    BY <1>1, WriteForms DEF p
<1> HIDE DEF e, u
<1>4. u.fullpacket = t.fullpacket /\ u.keys = t.keys /\ u.gone = t.gone /\ u.inbound = t.inbound
  BY <1>3, FieldsAre DEF Same
<1>5. CASE t.gone
  <2>1. u.outbound = t.outbound
    BY <1>3, <1>5
  <2>2. Broken(u, v)
    BY <1>4, <2>1 DEF Broken
  <2>. QED
    BY <1>3, <2>2 DEF u
<1>6. CASE ~t.gone
  <2>1. IsList(t.outbound) /\ u.outbound = Append(t.outbound, e)
    BY <1>3, <1>6 DEF Formed, ArePackets
  <2>2. /\ Plainly(t.outbound, v, t.keys) => Plainly(u.outbound, v, t.keys)
        /\ Begun(t.outbound, v, t.keys) => Begun(u.outbound, v, t.keys)
        /\ NoneDue(t.outbound) => NoneDue(u.outbound)
    BY <1>2, <2>1, QuitSends
  <2>3. Broken(u, v)
    BY <1>4, <1>6, <2>2 DEF Broken
  <2>. QED
    BY <1>3, <2>3 DEF u
<1>. QED
  BY <1>5, <1>6

LEMMA HungSame ==
  ASSUME NEW t, NEW v, Hung(t, v), NEW u,
         u.fullpacket = t.fullpacket, u.socket_state = t.socket_state, u.gone = t.gone, u.inbound = t.inbound
  PROVE  Hung(u, v)
BY DEF Hung

\* startup returns what has become of the exchange.
LEMMA FailStep ==
  ASSUME Formed(s), s.keys \in Nat, Hung(s, srv), Program(s, app), Broken(s, srv), s.kex = "none",
         s.kexRc = "FAIL", Started(s, app), app.todo # <<>>,
         NEW net, NEW r, r = Startup(s, net), NEW b, Continues(r, b)
  PROVE  Settled(r.s, srv, b)
<1> DEFINE e == [s EXCEPT !.kexRc = ""]
<1>1. Formed(e) /\ Same(s, e, {"kexRc"}) /\ e.kexRc = ""
  BY FieldsAre DEF Formed, Same
<1>2. r = R(e, "FAIL")
  <2>1. At(s, "startup", 0) = "sent1"
    BY DEF Started, StartAt
  <2>. QED
    BY <2>1 DEF Startup
<1> HIDE DEF e
<1>3. r.s = e /\ r.rc = "FAIL"
  BY <1>2, ResultOf
<1>4. /\ e.fullpacket = s.fullpacket /\ e.gone = s.gone /\ e.inbound = s.inbound
      /\ e.outbound = s.outbound /\ e.keys = s.keys /\ e.socket_state = s.socket_state /\ e.kex = "none"
  BY <1>1, FieldsAre DEF Same
<1>5. Now.op = "startup" /\ Now.no = "end"
  BY UsableFirst DEF Program, Started, Starts, Now
<1>6. b.busy = FALSE /\ Usable(b.todo) /\ Quitting(b.todo)
  <2>1. r.rc \notin {"", "EAGAIN"} /\ r.rc # "MORE" /\ Now.op # "read"
    BY <1>3, <1>5
  <2>. QED
    BY <1>5, <2>1, GoesOnward
<1>7. Program(e, b)
  BY <1>6, QuittingLists DEF Program
<1>8. Broken(e, srv)
  BY <1>4 DEF Broken
<1>9. Failed(e, srv, b)
  BY <1>1, <1>4, <1>6, <1>8 DEF Failed
<1>10. Hung(e, srv)
  BY <1>4, HungSame
<1>. QED
  BY <1>1, <1>3, <1>4, <1>7, <1>9, <1>10 DEF Settled

LEMMA DisconnectIs ==
  ASSUME NEW t
  PROVE  Disconnect(t).s = PacketWrite(t, Plain("DISCONNECT")).s /\ Disconnect(t).rc = ""
<1> DEFINE u == PacketWrite(t, Plain("DISCONNECT")).s
<1>1. Disconnect(t) = R(u, "")
  BY DEF Disconnect
<1> HIDE DEF u
<1>2. R(u, "").s = u /\ R(u, "").rc = ""
  BY DEF R
<1>. QED
  BY <1>1, <1>2 DEF u

\* disconnect, after an exchange that failed.
LEMMA QuitStep ==
  ASSUME Formed(s), s.keys \in Nat, Hung(s, srv), Program(s, app), Broken(s, srv), s.kex = "none",
         s.kexRc = "", Quitting(app.todo), app.todo # <<>>, Now.op = "disconnect",
         NEW r, r = Disconnect(s), NEW b, Continues(r, b)
  PROVE  Settled(r.s, srv, b)
<1> DEFINE w == PacketWrite(s, Plain("DISCONNECT"))
           e == w.s
<1>1. r.s = e /\ r.rc = ""
  BY DisconnectIs, Zenon
<1>2. Formed(e) /\ Same(s, e, {"outbound"}) /\ Broken(e, srv)
  BY BrokenQuits
<1> HIDE DEF e
<1>3. /\ e.fullpacket = s.fullpacket /\ e.gone = s.gone /\ e.inbound = s.inbound
      /\ e.keys = s.keys /\ e.socket_state = s.socket_state /\ e.kex = "none" /\ e.kexRc = ""
  BY <1>2, FieldsAre DEF Same
<1>4. b.busy = FALSE /\ Usable(b.todo) /\ Quitting(b.todo)
  <2>1. r.rc # "EAGAIN" /\ r.rc # "MORE" /\ Now.op # "read"
    BY <1>1
  <2>. QED
    BY <2>1, GoesOnward
<1>5. Program(e, b)
  BY <1>4, QuittingLists DEF Program
<1>6. Failed(e, srv, b)
  BY <1>2, <1>3, <1>4 DEF Failed
<1>7. Hung(e, srv)
  BY <1>3, HungSame
<1>. QED
  BY <1>1, <1>2, <1>3, <1>5, <1>6, <1>7 DEF Settled

=============================================================================
