-------------------------- MODULE SftpClientProofs --------------------------
(***************************************************************************)
(* Theorems about SftpClient, for every program of any number of calls,    *)
(* any first request id, any digits that ids are compared by, any sizes of *)
(* files and of reads, and a server that may do all that Server lets it:   *)
(* no call takes another one's answer unless a request was given up or a   *)
(* mkdir has lost its id, and a program that has given up none leaves      *)
(* nothing behind.                                                         *)
(*                                                                         *)
(* The functions of Sftp are operators on a session t, so most lemmas are  *)
(* about any t: what one step of a function makes of it (u), whatever      *)
(* calls it.                                                               *)
(***************************************************************************)
EXTENDS SftpClient, WorkListTheorems

-----------------------------------------------------------------------------
(* The inductive invariant.  An answer is found by what its id looks like, so
   that it is taken for the right request depends on where every packet is:
   while no request has been given up there is at most one on its way, or its
   answer, or the two packets that an open may get, in the brigade, in the
   channel or with the server; and once one has been given up, every later
   request has a later id. *)

Fields ==
  {"channel", "refused", "version", "request_id", "mkdir_request_id", "packets", "partial", "pos",
   "short", "at", "handles", "last_errno", "call", "answered", "inbound", "outbound", "closed", "gone"}

Nets == {"whole", "part", "again", "late"}

\* The fields of a LIBSSH2_SFTP are there.
Formed(t) == DOMAIN t = Fields /\ DOMAIN t.call = {"phase", "got"}

\* The slot of a call, and where the function that has it may be.
SlotOf(c) ==
  IF c.op = "opendir" THEN <<"open", 0>> ELSE IF c.op = "close" THEN <<"close", c.of>> ELSE <<c.op, 0>>

Positions(k) ==
  IF k[1] = "init" THEN {"created", "sent", "sent2", "sent3"}
  ELSE IF k[1] = "read" THEN {"allocated", "created", "sent"}
  ELSE IF k[1] \in {"seek", "shutdown"} THEN {} ELSE {"created", "sent"}

\* Where it has a request, and where it waits for the answer to that.
Asking(k) == IF k[1] = "init" THEN {} ELSE {"created", "sent"}

Waiting(k) == IF k[1] = "init" THEN "sent3" ELSE "sent"

Waits(t, k) == k \in DOMAIN t.at /\ t.at[k].pos = Waiting(k)

\* open waits for the handle that follows a status.
Handling(t) == t.call.phase \in {"handle", "handle read"}

SlotOK(t, k) ==
  LET at == t.at[k] IN
  /\ DOMAIN at = {"pos", "req", "total"} /\ "id" \in DOMAIN at.req
  /\ at.pos \in Positions(k) /\ at.req.id \in 0..t.request_id

IsList(s) == \E P : s \in Seq(P)

\* What is so in every state.
Safe(t) ==
  /\ Formed(t)
  /\ t.request_id \in Nat /\ t.mkdir_request_id \in 0..t.request_id
  /\ IsList(t.packets)
  /\ \A k \in DOMAIN t.at : SlotOK(t, k)

\* What the functions ask for, and what there is to send for it.
Choosers == {"open", "read", "readdir", "stat", "fstat", "symlink"}

Types(k) ==
  IF k[1] = "init" THEN {"VERSION"}
  ELSE {"STATUS"} \cup
       (IF k[1] = "open" THEN {"HANDLE"} ELSE IF k[1] = "read" THEN {"DATA"}
        ELSE IF k[1] \in {"readdir", "symlink"} THEN {"NAME"}
        ELSE IF k[1] \in {"stat", "fstat"} THEN {"ATTRS"} ELSE {})

Replies(type) ==
  IF type = "INIT" THEN {"VERSION"}
  ELSE {"STATUS"} \cup
       (IF type \in {"OPEN", "OPENDIR"} THEN {"HANDLE"} ELSE IF type = "READ" THEN {"DATA"}
        ELSE IF type \in {"READDIR", "READLINK", "REALPATH"} THEN {"NAME"}
        ELSE IF type \in {"STAT", "LSTAT", "FSTAT"} THEN {"ATTRS"} ELSE {})

Fits(k, q) ==
  /\ Replies(q.type) \subseteq Types(k)
  /\ q.type \in {"OPEN", "OPENDIR"} <=> k[1] = "open"

\* The last id that was used is that of the request, and of what comes for it.
Fresh(t, k, q) == k[1] # "init" => q.id = t.request_id - 1

OK(p) == p.type = "STATUS" /\ p.what = "OK"

\* What comes for a request has what an answer has.
Shaped(p) == {"type", "id", "what"} \subseteq DOMAIN p

Mine(t, k, p) == p.type \in Types(k) /\ Fresh(t, k, p) /\ Shaped(p)

\* An answer, in the brigade, in the channel or with the server; or the two that
\* an open may have.
Single(t, hl, p) ==
  \/ t.packets = <<p>> /\ t.inbound = <<>> /\ hl = <<>>
  \/ t.packets = <<>> /\ t.inbound = <<p>> /\ hl = <<>>
  \/ t.packets = <<>> /\ t.inbound = <<>> /\ hl = <<p>>

Double(t, hl, o, h) ==
  \/ t.packets = <<o>> /\ t.inbound = <<h>> /\ hl = <<>>
  \/ t.packets = <<o>> /\ t.inbound = <<>> /\ hl = <<h>>
  \/ t.packets = <<>> /\ t.inbound = <<o, h>> /\ hl = <<>>
  \/ t.packets = <<>> /\ t.inbound = <<o>> /\ hl = <<h>>
  \/ t.packets = <<>> /\ t.inbound = <<>> /\ hl = <<o, h>>

Underway(t, k, hl, out) ==
  /\ t.packets = <<>> /\ t.inbound = <<>> /\ hl = <<>>
  /\ \E q : out = <<q>> /\ Fits(k, q) /\ Fresh(t, k, q)

One(t, k, hl, out) ==
  /\ out = <<>>
  /\ \E p : Single(t, hl, p) /\ Mine(t, k, p) /\ (k[1] = "open" => ~OK(p))
            /\ (Handling(t) => p.type = "HANDLE")

Two(t, k, hl, out) ==
  /\ out = <<>> /\ k[1] = "open"
  /\ \E o, h : /\ Double(t, hl, o, h) /\ OK(o) /\ h.type = "HANDLE"
               /\ Fresh(t, k, o) /\ Fresh(t, k, h) /\ Shaped(o) /\ Shaped(h)

\* A request is on its way, or its answer.  hl and out are what the server
\* held and what was sent when the channel was closed.
Coming(t, held, k) ==
  /\ \E hl, out :
       /\ ~t.closed => hl = held /\ out = t.outbound
       /\ \/ ~Handling(t) /\ Underway(t, k, hl, out)
          \/ One(t, k, hl, out)
          \/ ~Handling(t) /\ Two(t, k, hl, out)
  /\ t.packets # <<>> => t.call.phase = "" /\ k[1] \in Choosers

Quiet(t, held) ==
  /\ t.packets = <<>> /\ t.inbound = <<>> /\ ~t.partial
  /\ ~t.closed => t.outbound = <<>> /\ held = <<>>

Framed(t) == (t.partial => t.inbound # <<>>) /\ (~t.partial => t.pos = 0)

\* What the slot of the call c has, while no request has been given up: lost
\* are the ids of mkdirs that were mislaid.
Meant(t, k, c, lost) ==
  LET at == t.at[k] IN
  /\ at.pos = "created" /\ k[1] # "init" => Fits(k, at.req) /\ Fresh(t, k, at.req)
  /\ at.pos = "sent" => Fresh(t, k, at.req) \/ (k[1] = "mkdir" /\ at.req.id \in lost)
  /\ k[1] = "rename" => ~(t.version < 2)
  /\ k[1] = "symlink" => ~(t.version < 3) \/ c.arg = "REALPATH"
  /\ k[1] = "read" /\ at.pos # "allocated" => ~(c.n - at.total <= 0)

Tidy(t, held, c, lost) ==
  LET k == SlotOf(c) IN
  /\ DOMAIN t.at \subseteq {k}
  /\ Framed(t)
  /\ k \in DOMAIN t.at => Meant(t, k, c, lost)
  /\ IF Waits(t, k) THEN Coming(t, held, k) ELSE Quiet(t, held)

\* Ids that were given up, or mislaid, or are later than one that was.
Suspect(a, id) == id \in a.mislaid \/ \E g \in a.givenUp : g <= id

Program(a) ==
  /\ DOMAIN a = {"todo", "busy", "buffer", "paths", "base", "read", "wrote", "lossy", "givenUp", "left",
                 "taken", "mislaid", "parts"}
  /\ a.todo \in Seq(Calls) /\ (a.todo # <<>> => Last(a.todo).op = "shutdown")
  /\ a.busy \in BOOLEAN /\ (a.busy => a.todo # <<>>)

\* As long as nothing was given up every packet has its call.
Orderly(t, held, a) ==
  IF a.todo = <<>> THEN DOMAIN t.at = {} /\ Quiet(t, held)
  ELSE Tidy(t, held, Head(a.todo), a.mislaid) /\ (~a.busy => t.packets = <<>>)

Inv(t, v, a) ==
  /\ Safe(t) /\ Program(a) /\ DOMAIN v = {"version", "may", "handles", "written", "held"}
  /\ a.givenUp \subseteq 0..t.request_id
  /\ a.busy /\ Handling(t) => SlotOf(Head(a.todo))[1] = "open" /\ Waits(t, SlotOf(Head(a.todo)))
  /\ \A x \in t.answered : x[1] = x[2] \/ (LooksLike(x[1], x[2]) /\ Suspect(a, x[1]))
  /\ a.givenUp # {} =>
       \A k \in DOMAIN t.at : t.at[k].pos \in Asking(k) => Suspect(a, t.at[k].req.id)
  /\ a.givenUp = {} => Orderly(t, v.held, a)

IInv == Inv(f, srv, app)

\* What reading and looking leave alone.
Kept(t, u) ==
  /\ Formed(u)
  /\ u.request_id = t.request_id /\ u.mkdir_request_id = t.mkdir_request_id
  /\ u.outbound = t.outbound /\ u.closed = t.closed /\ u.version = t.version

\* What is said about here has not changed, but for the place of a function.
Steady(t, u) ==
  /\ Kept(t, u)
  /\ u.packets = t.packets /\ u.partial = t.partial /\ u.pos = t.pos
  /\ u.inbound = t.inbound /\ u.answered = t.answered

Alike(t, u) == Steady(t, u) /\ u.at = t.at /\ u.call.phase = t.call.phase

-----------------------------------------------------------------------------
(* Reading and looking. *)

\* A function is at a place, or at none, and nothing else is different.
Elsewhere(t, u, k) ==
  /\ Steady(t, u) /\ u.call.phase = ""
  /\ \A j \in DOMAIN t.at \ {k} : u.at[j] = t.at[j]

Placed(t, u, k, to) ==
  Elsewhere(t, u, k) /\ DOMAIN u.at = DOMAIN t.at \cup {k} /\ u.at[k] = to

Gone(t, u, k) == Elsewhere(t, u, k) /\ DOMAIN u.at = DOMAIN t.at \ {k}

\* Goto moves one function to a place, or to none, and changes nothing else.
LEMMA GotoDoes ==
  ASSUME NEW t, Formed(t), NEW k, NEW to
  PROVE  /\ to.pos # "idle" => Placed(t, Goto(t, k, to), k, to)
         /\ to.pos = "idle" => Gone(t, Goto(t, k, to), k)
  BY DEF Goto, Placed, Gone, Elsewhere, Steady, Kept, Formed, Fields

\* Leave takes one function's place away, and changes nothing else.
LEMMA LeaveDoes ==
  ASSUME NEW t, Formed(t), NEW k
  PROVE  Gone(t, Leave(t, k), k)
<1>1. Idle.pos = "idle"
  BY DEF Idle
<1>. QED
  BY <1>1, GotoDoes DEF Leave

\* sftp_packet_read: nothing, an error, a part of a packet, the whole of it, or
\* what is no packet.
Reads(t, r) ==
  LET u == r.f IN
  /\ Kept(t, u) /\ u.at = t.at /\ u.call.phase = t.call.phase /\ u.answered = t.answered
  /\ \/ r.rc = "FAIL" /\ u.packets = t.packets
     \/ r.rc \in {"WAIT", "EAGAIN"} /\ u = t
     \/ /\ r.rc = "MORE" /\ t.inbound # <<>> /\ u.partial
        /\ u.packets = t.packets /\ u.inbound = t.inbound
     \/ /\ r.rc = "noise" /\ t.pos # 0 /\ ~t.partial
        /\ \E noise : u.packets = Append(t.packets, noise)
     \/ /\ t.inbound # <<>> /\ r.rc = Head(t.inbound).type
        /\ u.packets = Append(t.packets, Head(t.inbound)) /\ u.inbound = Tail(t.inbound)
        /\ ~u.partial /\ u.pos = 0

\* sftp_packet_read, for each thing the channel can do.
LEMMA PacketReadDoes ==
  ASSUME NEW t, Formed(t), NEW net \in Nets
  PROVE  Reads(t, PacketRead(t, net))
<1>1. CASE t.gone
  BY <1>1 DEF PacketRead, R, Reads, Kept, Formed, Fields
<1>2. CASE ~t.gone /\ t.inbound = <<>>
  BY <1>2 DEF PacketRead, R, Reads, Kept, Formed, Fields
<1>3. CASE ~t.gone /\ t.inbound # <<>> /\ net \in {"again", "late"}
  BY <1>3 DEF PacketRead, R, Reads, Kept, Formed, Fields
<1>4. CASE ~t.gone /\ t.inbound # <<>> /\ net \notin {"again", "late"} /\ ~t.partial
  <2>1. PacketRead(t, net) = ReadLength(t, net)
    BY <1>4 DEF PacketRead
  <2>2. Reads(t, ReadLength(t, net))
    <3>1. CASE t.pos # 0 /\ net = "whole"
      BY <1>4, <3>1 DEF ReadLength, R, Reads, Kept, Formed, Fields
    <3>2. CASE t.pos # 0 /\ net = "part"
      <4> DEFINE noise == Packet("noise", -1, 0, 0, 0, "")
      <4>1. ReadLength(t, net) = R([t EXCEPT !.inbound = Tail(@), !.packets = Append(@, noise)], "noise")
        BY <3>2 DEF ReadLength
      <4>. HIDE DEF noise
      <4> DEFINE u == [t EXCEPT !.inbound = Tail(@), !.packets = Append(@, noise)]
      <4>2. /\ Kept(t, u) /\ u.at = t.at /\ u.call.phase = t.call.phase /\ u.answered = t.answered
            /\ u.packets = Append(t.packets, noise)
        BY DEF Kept, Formed, Fields
      <4>3. ReadLength(t, net).f = u /\ ReadLength(t, net).rc = "noise"
        BY <4>1 DEF R
      <4>. HIDE DEF u
      <4>. QED
        BY <1>4, <3>2, <4>2, <4>3 DEF Reads
    <3>3. CASE t.pos = 0 /\ net = "part"
      BY <1>4, <3>3 DEF ReadLength, R, Reads, Kept, Formed, Fields
    <3>4. CASE t.pos = 0 /\ net = "whole"
      BY <1>4, <3>4 DEF ReadLength, R, Reads, Kept, Formed, Fields
    <3>. QED
      BY <1>4, <3>1, <3>2, <3>3, <3>4 DEF Nets
  <2>. QED
    BY <2>1, <2>2
<1>5. CASE ~t.gone /\ t.inbound # <<>> /\ net \notin {"again", "late"} /\ t.partial
  <2>1. \/ PacketRead(t, net) = R(t, "MORE")
        \/ \E got : PacketRead(t, net) = R([t EXCEPT !.pos = got], "MORE")
        \/ PacketRead(t, net) = PacketAdd(t)
    BY <1>5 DEF PacketRead
  <2>2. CASE PacketRead(t, net) = R(t, "MORE")
    BY <1>5, <2>2 DEF R, Reads, Kept, Formed, Fields
  <2>3. CASE \E got : PacketRead(t, net) = R([t EXCEPT !.pos = got], "MORE")
    BY <1>5, <2>3 DEF R, Reads, Kept, Formed, Fields
  <2>4. CASE PacketRead(t, net) = PacketAdd(t)
    <3>1. Reads(t, PacketAdd(t))
      BY <1>5 DEF PacketAdd, R, Reads, Kept, Formed, Fields
    <3>. QED
      BY <3>1, <2>4
  <2>. QED
    BY <2>1, <2>2, <2>3, <2>4
<1>. QED
  BY <1>1, <1>2, <1>3, <1>4, <1>5

\* sftp_packet_ask: what it finds is one of the types and looks like the answer.
Hit(t, types, id, i) == i \in 1..Len(t.packets) /\ \E k \in DOMAIN types : Matches(t.packets[i], types[k], id)

Asks(t, types, id, a) ==
  \/ a.rc = "FAIL" /\ a.f = t /\ ~\E i : Hit(t, types, id, i)
  \/ /\ a.rc = "" /\ Kept(t, a.f)
     /\ a.f.at = t.at /\ a.f.call.phase = t.call.phase
     /\ a.f.partial = t.partial /\ a.f.pos = t.pos /\ a.f.inbound = t.inbound
     /\ \E i : /\ Hit(t, types, id, i) /\ a.p = t.packets[i]
              /\ a.f.packets = RemoveAt(t.packets, i)
              /\ a.f.answered = IF a.p.type = "VERSION" THEN t.answered ELSE t.answered \cup {<<id, a.p.id>>}

\* sftp_packet_ask takes one packet that matches, or leaves everything as it was.
LEMMA AskDoes ==
  ASSUME NEW t, Formed(t), NEW P, t.packets \in Seq(P), NEW T, NEW types \in Seq(T), NEW id
  PROVE  Asks(t, types, id, Ask(t, types, id))
<1> DEFINE hits == {x \in (DOMAIN types) \X (DOMAIN t.packets) : Matches(t.packets[x[2]], types[x[1]], id)}
           least(y) == \A z \in hits : y[1] < z[1] \/ (y[1] = z[1] /\ y[2] <= z[2])
           x == CHOOSE y \in hits : least(y)
<1>0. DOMAIN types = 1..Len(types) /\ DOMAIN t.packets = 1..Len(t.packets) /\ Len(types) \in Nat /\ Len(t.packets) \in Nat
  OBVIOUS
<1>1. CASE hits = {}
  <2>1. Ask(t, types, id) = Not(t, "FAIL")
    BY <1>1 DEF Ask
  <2>2. ~\E i : Hit(t, types, id, i)
    <3>1. SUFFICES ASSUME NEW i, Hit(t, types, id, i) PROVE FALSE
      OBVIOUS
    <3>2. PICK k \in DOMAIN types : Matches(t.packets[i], types[k], id)
      BY <3>1 DEF Hit
    <3>3. <<k, i>> \in hits
      BY <3>1, <3>2, <1>0 DEF Hit
    <3>. QED
      BY <3>3, <1>1
  <2>. QED
    BY <2>1, <2>2 DEF Not, Asks
<1>2. CASE hits # {}
  <2>1. PICK k \in {y[1] : y \in hits} : \A l \in {y[1] : y \in hits} : k <= l
    <3>1. {y[1] : y \in hits} \in SUBSET Nat /\ {y[1] : y \in hits} # {}
      BY <1>0, <1>2
    <3>. HIDE DEF hits
    <3>. QED
      BY <3>1, LeastElement
  <2>2. PICK i \in {y[2] : y \in {z \in hits : z[1] = k}} : \A l \in {y[2] : y \in {z \in hits : z[1] = k}} : i <= l
    <3>1. {y[2] : y \in {z \in hits : z[1] = k}} \in SUBSET Nat /\ {y[2] : y \in {z \in hits : z[1] = k}} # {}
      BY <1>0, <1>2, <2>1
    <3>. HIDE DEF hits
    <3>. QED
      BY <3>1, LeastElement
  <2>3. <<k, i>> \in hits
    BY <2>2
  <2>4. least(<<k, i>>)
    <3>1. SUFFICES ASSUME NEW z \in hits PROVE k < z[1] \/ (k = z[1] /\ i <= z[2])
      OBVIOUS
    <3>2. k <= z[1] /\ k \in Nat /\ z[1] \in Nat /\ z[2] \in Nat /\ i \in Nat
      BY <2>1, <1>0, <2>3
    <3>3. CASE z[1] = k
      <4>1. z[2] \in {y[2] : y \in {w \in hits : w[1] = k}}
        BY <3>3
      <4>. QED
        BY <4>1, <2>2, <3>3
    <3>. HIDE DEF hits
    <3>. QED
      BY <3>2, <3>3
  <2>5. x \in hits
    <3>. HIDE DEF hits
    <3>. QED
      BY <2>3, <2>4
  <2>6. Hit(t, types, id, x[2])
    <3>1. \A y \in hits : Hit(t, types, id, y[2])
      BY <1>0 DEF Hit
    <3>. HIDE DEF x, hits
    <3>. QED
      BY <2>5, <3>1
  <2> DEFINE n == x[2]
             p == t.packets[n]
             kept == IF p.type = "VERSION" THEN t.answered ELSE t.answered \cup {<<id, p.id>>}
  <2>7. Ask(t, types, id) =
          [f  |-> [t EXCEPT !.packets = RemoveAt(@, n),
                            !.answered = IF p.type = "VERSION" THEN @ ELSE @ \cup {<<id, p.id>>}],
           rc |-> "", p |-> p]
    BY <1>2 DEF Ask
  <2>8. [t EXCEPT !.packets = RemoveAt(@, n),
                  !.answered = IF p.type = "VERSION" THEN @ ELSE @ \cup {<<id, p.id>>}]
          = [t EXCEPT !.packets = RemoveAt(t.packets, n), !.answered = kept]
    BY DEF Formed, Fields
  <2>. HIDE DEF x, hits
  <2>9. \E j : Hit(t, types, id, j) /\ j = n
    BY <2>6
  <2>. HIDE DEF n
  <2> DEFINE u == [t EXCEPT !.packets = RemoveAt(t.packets, n), !.answered = kept]
  <2>10. /\ Kept(t, u) /\ u.at = t.at /\ u.call.phase = t.call.phase
         /\ u.partial = t.partial /\ u.pos = t.pos /\ u.inbound = t.inbound
         /\ u.packets = RemoveAt(t.packets, n) /\ u.answered = kept
    <3>. HIDE DEF kept
    <3>. QED
      BY DEF Kept, Formed, Fields
  <2>11. Ask(t, types, id) = [f |-> u, rc |-> "", p |-> p]
    BY <2>7, <2>8
  <2>12. Asks(t, types, id, [f |-> u, rc |-> "", p |-> p])
    <3>. HIDE DEF u
    <3>1. /\ Hit(t, types, id, n) /\ p = t.packets[n] /\ u.packets = RemoveAt(t.packets, n)
          /\ u.answered = IF p.type = "VERSION" THEN t.answered ELSE t.answered \cup {<<id, p.id>>}
      BY <2>9, <2>10
    <3>. HIDE DEF p, kept
    <3>. QED
      BY <2>10, <3>1 DEF Asks
  <2>. QED
    BY <2>11, <2>12
<1>. QED
  BY <1>1, <1>2

\* Removing one element leaves a list.
LEMMA RemoveAtIsList ==
  ASSUME NEW P, NEW s \in Seq(P), NEW i \in 1..Len(s)
  PROVE  RemoveAt(s, i) \in Seq(P)
<1>1. Len(s) \in Nat
  OBVIOUS
<1>2. SubSeq(s, 1, i - 1) \in Seq(P)
  <2>1. i - 1 \in 0..Len(s) /\ 1 \in 1..((i - 1) + 1)
    BY <1>1
  <2>. QED
    BY <2>1, Stretch
<1>3. SubSeq(s, i + 1, Len(s)) \in Seq(P)
  <2>1. Len(s) \in 0..Len(s) /\ i + 1 \in 1..(Len(s) + 1)
    BY <1>1
  <2>. QED
    BY <2>1, Stretch
<1>. QED
  BY <1>2, <1>3, ConcatElements DEF RemoveAt

\* So does appending one.
LEMMA AppendIsList ==
  ASSUME NEW s, IsList(s), NEW e
  PROVE  IsList(Append(s, e))
<1>1. PICK P : s \in Seq(P)
  BY DEF IsList
<1>2. s \in Seq(P \cup {e})
  BY <1>1
<1>3. Append(s, e) \in Seq(P \cup {e})
  BY <1>2
<1>. QED
  BY <1>3 DEF IsList

\* strncmp does not care which of the ids is the first.
LEMMA LooksLikeBothWays ==
  ASSUME NEW a, NEW b, LooksLike(a, b)
  PROVE  LooksLike(b, a)
  BY DEF LooksLike

\* What looking for the answer to id does, whatever has come: the pairs it adds
\* to answered look alike.
Looked(t, types, id, u) ==
  /\ Kept(t, u) /\ u.at = t.at /\ IsList(u.packets)
  /\ u.call.phase \in {t.call.phase, "read", ""}
  /\ \A x \in u.answered : x \in t.answered \/ (x[1] = id /\ LooksLike(x[1], x[2]))
  /\ types = <<"VERSION">> => u.answered = t.answered

\* sftp_packet_ask may answer the request that it was asked about, and no other.
LEMMA AskLooks ==
  ASSUME NEW t, Formed(t), IsList(t.packets), NEW T, NEW types \in Seq(T), NEW id
  PROVE  Looked(t, types, id, Ask(t, types, id).f)
<1>1. PICK P : t.packets \in Seq(P)
  BY DEF IsList
<1> DEFINE a == Ask(t, types, id)
<1>2. Asks(t, types, id, a)
  BY <1>1, AskDoes
<1>. SUFFICES Looked(t, types, id, a.f)
  OBVIOUS
<1>. HIDE DEF a
<1>3. CASE a.rc = "FAIL" /\ a.f = t
  BY <1>3 DEF Looked, Kept
<1>4. CASE a.rc # "FAIL"
  <2>1. PICK i : /\ Hit(t, types, id, i) /\ a.p = t.packets[i]
                 /\ a.f.packets = RemoveAt(t.packets, i)
                 /\ a.f.answered = IF a.p.type = "VERSION" THEN t.answered ELSE t.answered \cup {<<id, a.p.id>>}
    BY <1>2, <1>4 DEF Asks
  <2>2. IsList(a.f.packets)
    BY <1>1, <2>1, RemoveAtIsList DEF IsList, Hit
  <2>3. PICK k \in DOMAIN types : Matches(a.p, types[k], id)
    BY <2>1 DEF Hit
  <2>4. types = <<"VERSION">> => a.p.type = "VERSION"
    BY <2>3 DEF Matches
  <2>5. a.p.type # "VERSION" => LooksLike(id, a.p.id)
    BY <2>3, LooksLikeBothWays DEF Matches
  <2>6. Kept(t, a.f) /\ a.f.at = t.at /\ a.f.call.phase = t.call.phase
    BY <1>2, <1>4 DEF Asks
  <2>. QED
    BY <2>1, <2>2, <2>4, <2>5, <2>6 DEF Looked
<1>. QED
  BY <1>2, <1>3, <1>4 DEF Asks

\* sftp_packet_read answers nothing.
LEMMA ReadLooks ==
  ASSUME NEW t, Formed(t), IsList(t.packets), NEW types, NEW id, NEW net \in Nets
  PROVE  Looked(t, types, id, PacketRead(t, net).f)
<1> DEFINE r == PacketRead(t, net)
<1>1. Reads(t, r)
  BY PacketReadDoes
<1>. HIDE DEF r
<1>2. IsList(r.f.packets)
  BY <1>1, AppendIsList DEF Reads
<1>. QED
  BY <1>1, <1>2 DEF Reads, Looked, r

\* Looking twice, one after the other.
LEMMA LookedThenAsked ==
  ASSUME NEW t, NEW u, NEW v, NEW types, NEW id, Looked(t, types, id, u), Looked(u, types, id, v)
  PROVE  Looked(t, types, id, v)
  BY DEF Looked, Kept

\* Where a call is in looking does not matter.
LEMMA PhaseLooks ==
  ASSUME NEW t, NEW u, NEW types, NEW id, Looked(t, types, id, u), NEW phase \in {"read", ""}
  PROVE  Looked(t, types, id, [u EXCEPT !.call.phase = phase])
  BY DEF Looked, Kept, Formed, Fields

\* sftp_packet_require and requirev answer only the request that they were asked about.
LEMMA AnsweredLooks ==
  ASSUME NEW t, Formed(t), IsList(t.packets), NEW T, NEW types \in Seq(T), Len(types) \in {1, 2},
         NEW id, NEW net \in Nets
  PROVE  Looked(t, types, id, Answered(t, types, id, net).f)
<1> DEFINE r == PacketRead(t, net)
           Good(u) == Looked(t, types, id, u)
<1>1. Good(r.f) /\ Formed(r.f) /\ IsList(r.f.packets)
  <2>1. Good(r.f)
    BY ReadLooks
  <2>. HIDE DEF r
  <2>. QED
    BY <2>1 DEF Looked, Kept
<1>2. Good(Ask(t, types, id).f)
  BY AskLooks
<1>3. Good(t)
  BY DEF Looked, Kept
<1>4. Good([t EXCEPT !.call.phase = "read"])
  <2>. HIDE DEF Good
  <2>. QED
    BY <1>3, PhaseLooks DEF Good
<1>5. Good([r.f EXCEPT !.call.phase = ""])
  <2>. HIDE DEF r
  <2>. QED
    BY <1>1, PhaseLooks
<1>6. Good(Ask(r.f, types, id).f)
  <2>. HIDE DEF r
  <2>1. Looked(r.f, types, id, Ask(r.f, types, id).f)
    BY <1>1, AskLooks
  <2>. QED
    BY <1>1, <2>1, LookedThenAsked
<1>7. CASE Len(types) = 1
  <2>1. types = <<types[1]>>
    BY <1>7
  <2> DEFINE q == Require(t, types[1], id, net)
  <2>2. q.f \in {Ask(t, types, id).f, [t EXCEPT !.call.phase = "read"], r.f, Ask(r.f, types, id).f}
    <3>. HIDE DEF r
    <3>1. q.f \in {Ask(t, <<types[1]>>, id).f, [t EXCEPT !.call.phase = "read"],
                   PacketRead(t, net).f, Ask(PacketRead(t, net).f, <<types[1]>>, id).f}
      BY DEF Require, Not
    <3>. QED
      BY <2>1, <3>1 DEF r
  <2>3. Answered(t, types, id, net) = q
    BY <1>7 DEF Answered
  <2>. HIDE DEF Good, q, r
  <2>. QED
    BY <1>1, <1>2, <1>4, <1>6, <2>2, <2>3 DEF Good
<1>8. CASE Len(types) = 2
  <2> DEFINE q == Requirev(t, types, id, net)
  <2>2. q.f \in {Ask(t, types, id).f, [t EXCEPT !.call.phase = "read"], r.f, [r.f EXCEPT !.call.phase = ""]}
    BY DEF Requirev, Not
  <2>3. Answered(t, types, id, net) = q
    BY <1>8 DEF Answered
  <2>. HIDE DEF Good, q, r
  <2>. QED
    BY <1>1, <1>2, <1>4, <1>5, <2>2, <2>3 DEF Good
<1>. QED
  BY <1>7, <1>8

-----------------------------------------------------------------------------
(* The answer, while no request has been given up. *)

\* Lists of one and of two elements.
LEMMA Tuples ==
  ASSUME NEW a, NEW b
  PROVE  /\ Append(<<>>, a) = <<a>> /\ Append(<<a>>, b) = <<a, b>>
         /\ Head(<<a>>) = a /\ Tail(<<a>>) = <<>> /\ Head(<<a, b>>) = a /\ Tail(<<a, b>>) = <<b>>
         /\ <<a>> # <<>> /\ <<a, b>> # <<>> /\ <<a>> # <<a, b>>
         /\ <<a>> = <<b>> => a = b
         /\ Len(<<a>>) = 1 /\ <<a>>[1] = a /\ RemoveAt(<<a>>, 1) = <<>>
<1>1. RemoveAt(<<a>>, 1) = <<>>
  <2>1. /\ SubSeq(<<a>>, 1, 1 - 1) = <<>> /\ SubSeq(<<a>>, 1 + 1, Len(<<a>>)) = <<>>
    OBVIOUS
  <2>2. <<>> \o <<>> = <<>>
    OBVIOUS
  <2>. QED
    BY <2>1, <2>2 DEF RemoveAt
<1>2. Append(<<>>, a) = <<a>>
  OBVIOUS
<1>3. Append(<<a>>, b) = <<a, b>>
  <2> DEFINE s == Append(<<a>>, b)
             t == <<a, b>>
             S == {a, b}
  <2>1. s \in Seq(S) /\ t \in Seq(S) /\ Len(s) = 2 /\ Len(t) = 2
    OBVIOUS
  <2>2. \A i \in 1..Len(s) : s[i] = t[i]
    OBVIOUS
  <2>. HIDE DEF s, t, S
  <2>3. s = t
    BY <2>1, <2>2, SeqEqual
  <2>. QED
    BY <2>3 DEF s, t
<1>4. Tail(<<a>>) = <<>>
  OBVIOUS
<1>5. Tail(<<a, b>>) = <<b>>
  OBVIOUS
<1>6. Head(<<a>>) = a /\ Head(<<a, b>>) = a
  OBVIOUS
<1>7. <<a>> # <<>> /\ <<a, b>> # <<>> /\ <<a>> # <<a, b>>
  OBVIOUS
<1>8. <<a>> = <<b>> => a = b
  OBVIOUS
<1>9. Len(<<a>>) = 1 /\ <<a>>[1] = a
  OBVIOUS
<1>. QED
  BY <1>1, <1>2, <1>3, <1>4, <1>5, <1>6, <1>7, <1>8, <1>9

\* The handle that follows the status.
Follow(t, held, k) ==
  \E hl, out :
    /\ ~t.closed => hl = held /\ out = t.outbound
    /\ out = <<>> /\ t.packets = <<>>
    /\ \E h : /\ h.type = "HANDLE" /\ Fresh(t, k, h) /\ Shaped(h)
              /\ (t.inbound = <<h>> /\ hl = <<>>) \/ (t.inbound = <<>> /\ hl = <<h>>)

Kin(t, k, u) == \A x \in u.answered : x \in t.answered \/ x[2] = t.request_id - 1

Settled(held, k, u, p) ==
  \/ Quiet(u, held) /\ ~(k[1] = "open" /\ OK(p))
  \/ k[1] = "open" /\ OK(p) /\ Follow(u, held, k)

\* What a function comes back with that looks for its answer.
Comes(t, held, k, a) ==
  /\ Kin(t, k, a.f) /\ Kept(t, a.f) /\ a.f.at = t.at
  /\ \/ a.rc = "" /\ Framed(a.f) /\ a.p.type \in Types(k) /\ Settled(held, k, a.f, a.p)
     \/ a.rc = "MORE" /\ Framed(a.f) /\ Coming(a.f, held, k)
     \/ a.rc \in {"EAGAIN", "WAIT"} /\ a.f = t /\ t.packets = <<>>
     \/ a.rc \in {"FAIL", "TIMEOUT"}

\* The same is coming after a step that has read nothing, or only a part.
Same(t, u) ==
  /\ Kept(t, u) /\ u.packets = t.packets /\ u.inbound = t.inbound
  /\ u.call.phase \in {t.call.phase, "read"}

\* What is coming still comes after a step that has taken nothing from the channel.
LEMMA SameComing ==
  ASSUME NEW t, NEW u, NEW held, NEW k, Same(t, u), Coming(t, held, k), ~Handling(t), t.packets = <<>>
  PROVE  Coming(u, held, k)
<1>1. ~Handling(u)
  BY DEF Same, Handling
<1>2. PICK hl, out : /\ ~t.closed => hl = held /\ out = t.outbound
                     /\ Underway(t, k, hl, out) \/ One(t, k, hl, out) \/ Two(t, k, hl, out)
  BY DEF Coming
<1>3. Underway(t, k, hl, out) => Underway(u, k, hl, out)
  BY DEF Underway, Fresh, Same, Kept
<1>4. One(t, k, hl, out) => One(u, k, hl, out)
  BY <1>1 DEF One, Single, Mine, Fresh, Same, Kept
<1>5. Two(t, k, hl, out) => Two(u, k, hl, out)
  BY DEF Two, Double, Fresh, Same, Kept
<1>6. ~u.closed => hl = held /\ out = u.outbound
  BY <1>2 DEF Same, Kept
<1>. QED
  BY <1>1, <1>2, <1>3, <1>4, <1>5, <1>6 DEF Coming, Same

\* What the brigade gets is the first that comes.
LEMMA NextComing ==
  ASSUME NEW t, NEW u, NEW held, NEW k, Kept(t, u), Coming(t, held, k), ~Handling(t), ~Handling(u),
         t.packets = <<>>, t.inbound # <<>>, k[1] \in Choosers, u.call.phase = "",
         u.packets = Append(t.packets, Head(t.inbound)), u.inbound = Tail(t.inbound)
  PROVE  Coming(u, held, k)
<1>1. PICK hl, out : /\ ~t.closed => hl = held /\ out = t.outbound
                     /\ Underway(t, k, hl, out) \/ One(t, k, hl, out) \/ Two(t, k, hl, out)
  BY DEF Coming
<1>2. ~Underway(t, k, hl, out)
  BY DEF Underway
<1>3. ASSUME One(t, k, hl, out) PROVE One(u, k, hl, out)
  <2>1. PICK p : Single(t, hl, p) /\ Mine(t, k, p) /\ (k[1] = "open" => ~OK(p))
    BY <1>3 DEF One
  <2>2. t.inbound = <<p>> /\ hl = <<>>
    BY <2>1, Tuples DEF Single
  <2>3. u.packets = <<p>> /\ u.inbound = <<>>
    <3>1. Append(<<>>, p) = <<p>> /\ Head(<<p>>) = p /\ Tail(<<p>>) = <<>>
      BY Tuples
    <3>. QED
      BY <2>2, <3>1
  <2>4. Single(u, hl, p) /\ Mine(u, k, p)
    BY <2>1, <2>2, <2>3 DEF Single, Mine, Fresh, Kept
  <2>. QED
    BY <2>1, <2>4, <1>3 DEF One
<1>4. ASSUME Two(t, k, hl, out) PROVE Two(u, k, hl, out)
  <2>1. PICK o, h : /\ Double(t, hl, o, h) /\ OK(o) /\ h.type = "HANDLE"
                      /\ Fresh(t, k, o) /\ Fresh(t, k, h) /\ Shaped(o) /\ Shaped(h)
    BY <1>4 DEF Two
  <2>2. (t.inbound = <<o, h>> /\ hl = <<>>) \/ (t.inbound = <<o>> /\ hl = <<h>>)
    <3>1. <<o>> # <<>>
      BY ONLY Tuples
    <3>. QED
      BY <2>1, <3>1 DEF Double
  <2>3. u.packets = <<o>> /\ ((u.inbound = <<h>> /\ hl = <<>>) \/ (u.inbound = <<>> /\ hl = <<h>>))
    <3>1. Append(<<>>, o) = <<o>> /\ Head(<<o>>) = o /\ Tail(<<o>>) = <<>>
      BY Tuples
    <3>2. Head(<<o, h>>) = o /\ Tail(<<o, h>>) = <<h>>
      BY ONLY Tuples
    <3>. QED
      BY <2>2, <3>1, <3>2
  <2>4. Double(u, hl, o, h) /\ Fresh(u, k, o) /\ Fresh(u, k, h)
    BY <2>1, <2>3 DEF Double, Fresh, Kept
  <2>. QED
    BY <2>1, <2>4, <1>4 DEF Two
<1>5. ~u.closed => hl = held /\ out = u.outbound
  BY <1>1 DEF Kept
<1>. QED
  BY <1>1, <1>2, <1>3, <1>4, <1>5 DEF Coming

\* The first packet in the channel is for the request.
LEMMA HeadComing ==
  ASSUME NEW t, NEW held, NEW k, Coming(t, held, k), t.packets = <<>>, t.inbound # <<>>
  PROVE  Mine(t, k, Head(t.inbound))
<1>1. PICK hl, out : /\ ~t.closed => hl = held /\ out = t.outbound
                     /\ Underway(t, k, hl, out) \/ One(t, k, hl, out) \/ Two(t, k, hl, out)
  BY DEF Coming
<1>2. ~Underway(t, k, hl, out)
  BY DEF Underway
<1>3. ASSUME One(t, k, hl, out) PROVE Mine(t, k, Head(t.inbound))
  <2>1. PICK p : Single(t, hl, p) /\ Mine(t, k, p)
    BY <1>3 DEF One
  <2>2. t.inbound = <<p>>
    BY <2>1, Tuples DEF Single
  <2>. QED
    BY <2>1, <2>2
<1>4. ASSUME Two(t, k, hl, out) PROVE Mine(t, k, Head(t.inbound))
  <2>1. PICK o, h : Double(t, hl, o, h) /\ OK(o) /\ Fresh(t, k, o) /\ Shaped(o)
    BY <1>4 DEF Two
  <2>2. t.inbound = <<o, h>> \/ t.inbound = <<o>>
    BY <2>1, Tuples DEF Double
  <2>3. o.type \in Types(k)
    BY <2>1, <1>4 DEF OK, Types, Two
  <2>4. Head(<<o, h>>) = o /\ Head(<<o>>) = o
    OBVIOUS
  <2>. QED
    BY <2>1, <2>2, <2>3, <2>4 DEF Mine
<1>. QED
  BY <1>1, <1>2, <1>3, <1>4

\* Every id looks like itself.
LEMMA LooksLikeItself ==
  ASSUME NEW id
  PROVE  LooksLike(id, id)
  BY DEF LooksLike

\* sftp_packet_ask, when the brigade has the answer, and it alone.
Finds(t, id, p, a) ==
  /\ a.rc = "" /\ a.p = p /\ Kept(t, a.f) /\ a.f.at = t.at
  /\ a.f.packets = <<>> /\ a.f.inbound = t.inbound /\ a.f.partial = t.partial /\ a.f.pos = t.pos
  /\ a.f.call.phase = t.call.phase
  /\ a.f.answered = IF p.type = "VERSION" THEN t.answered ELSE t.answered \cup {<<id, p.id>>}

\* When the brigade has the answer, and it alone, sftp_packet_ask takes it.
LEMMA AskFinds ==
  ASSUME NEW t, Formed(t), NEW T, NEW types \in Seq(T), NEW id, NEW p, t.packets = <<p>>,
         p.type \in ToSet(types), p.type = "VERSION" \/ LooksLike(p.id, id)
  PROVE  Finds(t, id, p, Ask(t, types, id))
<1> DEFINE a == Ask(t, types, id)
<1>1. t.packets \in Seq({p})
  OBVIOUS
<1>2. Asks(t, types, id, a)
  BY <1>1, AskDoes
<1>3. Hit(t, types, id, 1)
  BY DEF Hit, Matches, ToSet
<1>4. \A i : Hit(t, types, id, i) => i = 1
  BY DEF Hit
<1>5. t.packets[1] = p /\ RemoveAt(t.packets, 1) = <<>>
  BY Tuples
<1>. SUFFICES Finds(t, id, p, a)
  OBVIOUS
<1>. HIDE DEF a
<1>. QED
  BY <1>2, <1>3, <1>4, <1>5 DEF Asks, Finds

\* In an empty brigade it finds nothing.
LEMMA AskMisses ==
  ASSUME NEW t, Formed(t), NEW T, NEW types \in Seq(T), NEW id, t.packets = <<>>
  PROVE  LET a == Ask(t, types, id) IN a.rc = "FAIL" /\ a.f = t
<1> DEFINE a == Ask(t, types, id)
<1>1. t.packets \in Seq({})
  OBVIOUS
<1>2. Asks(t, types, id, a)
  BY <1>1, AskDoes
<1>3. \A i : ~Hit(t, types, id, i)
  BY DEF Hit
<1>. SUFFICES a.rc = "FAIL" /\ a.f = t
  OBVIOUS
<1>. HIDE DEF a
<1>. QED
  BY <1>2, <1>3 DEF Asks

\* sftp_packet_requirev, for those that wait for one of two types.
LEMMA RequirevComes ==
  ASSUME NEW t, Formed(t), NEW held, NEW k, k[1] \in Choosers, ~Handling(t), Framed(t), Coming(t, held, k),
         NEW T, NEW types \in Seq(T), Types(k) = ToSet(types), NEW net \in Nets
  PROVE  Comes(t, held, k, Requirev(t, types, t.request_id - 1, net))
<1> DEFINE id == t.request_id - 1
           a  == Ask(t, types, id)
           q  == Requirev(t, types, id, net)
           r  == PacketRead(t, net)
<1>0. \A x \in Types(k) : x \notin {"VERSION", "EAGAIN", "FAIL", "WAIT", "MORE"}
  BY DEF Types, Choosers
<1>1. PICK hl, out : /\ ~t.closed => hl = held /\ out = t.outbound
                     /\ Underway(t, k, hl, out) \/ One(t, k, hl, out) \/ Two(t, k, hl, out)
  BY DEF Coming
<1>2. CASE t.call.phase = "" /\ t.packets = <<>>
  <2>1. q = Not([t EXCEPT !.call.phase = "read"], "MORE")
    BY <1>2, AskMisses DEF Requirev
  <2> DEFINE u == [t EXCEPT !.call.phase = "read"]
  <2>2. Same(t, u) /\ u.at = t.at /\ u.answered = t.answered /\ u.partial = t.partial /\ u.pos = t.pos
    BY DEF Same, Kept, Formed, Fields
  <2>. HIDE DEF u
  <2>3. Coming(u, held, k)
    BY <1>2, <2>2, SameComing
  <2>4. Framed(u)
    BY <2>2 DEF Framed, Same
  <2>5. Comes(t, held, k, Not(u, "MORE"))
    BY <2>2, <2>3, <2>4 DEF Comes, Kin, Same, Not
  <2>. QED
    BY <2>1, <2>5 DEF u
<1>3. CASE t.packets # <<>>
  <2>1. t.call.phase = ""
    BY <1>3 DEF Coming
  <2>2. PICK p : /\ t.packets = <<p>> /\ p.type \in Types(k) /\ p.id = id
                 /\ \/ t.inbound = <<>> /\ (t.closed \/ (held = <<>> /\ t.outbound = <<>>))
                       /\ (k[1] = "open" => ~OK(p))
                    \/ /\ k[1] = "open" /\ OK(p) /\ (~t.closed => hl = held /\ t.outbound = <<>>)
                       /\ \E h : /\ h.type = "HANDLE" /\ Fresh(t, k, h) /\ Shaped(h)
                                 /\ (t.inbound = <<h>> /\ hl = <<>>) \/ (t.inbound = <<>> /\ hl = <<h>>)
    <3>0. k[1] # "init"
      BY DEF Choosers
    <3>1. CASE One(t, k, hl, out)
      BY <1>1, <1>3, <3>0, <3>1 DEF One, Single, Mine, Fresh
    <3>2. CASE Two(t, k, hl, out)
      <4>1. PICK o, h : /\ Double(t, hl, o, h) /\ OK(o) /\ h.type = "HANDLE"
                      /\ Fresh(t, k, o) /\ Fresh(t, k, h) /\ Shaped(o) /\ Shaped(h)
        BY <3>2 DEF Two
      <4>2. t.packets = <<o>> /\ ((t.inbound = <<h>> /\ hl = <<>>) \/ (t.inbound = <<>> /\ hl = <<h>>))
        BY <4>1, <1>3 DEF Double
      <4>3. o.type \in Types(k) /\ o.id = id
        BY <4>1, <3>0, <3>2 DEF OK, Types, Fresh, Two
      <4>4. k[1] = "open" /\ (~t.closed => hl = held /\ t.outbound = <<>>)
        BY <1>1, <3>2 DEF Two
      <4>. QED
        BY <4>1, <4>2, <4>3, <4>4
    <3>. QED
      BY <1>1, <1>3, <3>1, <3>2 DEF Underway
  <2>3. /\ a.rc = "" /\ a.p = p /\ Kept(t, a.f) /\ a.f.at = t.at
        /\ a.f.packets = <<>> /\ a.f.inbound = t.inbound /\ a.f.partial = t.partial /\ a.f.pos = t.pos
        /\ a.f.answered \subseteq t.answered \cup {<<id, p.id>>}
    <3>1. LooksLike(p.id, id)
      BY <2>2, LooksLikeItself
    <3>. HIDE DEF id
    <3>2. Finds(t, id, p, a)
      BY <2>2, <3>1, AskFinds
    <3>. HIDE DEF a
    <3>. QED
      BY <3>2 DEF Finds
  <2>. HIDE DEF a, id
  <2>4. q = a
    BY <2>1, <2>3 DEF Requirev, a, id
  <2>5. Framed(a.f)
    BY <2>3 DEF Framed
  <2>6. Kin(t, k, a.f)
    <3>1. \A x \in a.f.answered : x \in t.answered \/ x[2] = p.id
      <4>1. <<id, p.id>>[2] = p.id
        OBVIOUS
      <4>2. \A x \in a.f.answered : x \in t.answered \/ x = <<id, p.id>>
        BY <2>3
      <4>. QED
        BY <4>1, <4>2
    <3>. QED
      BY <2>2, <3>1 DEF Kin, id
  <2>7. Settled(held, k, a.f, p)
    <3>1. CASE /\ t.inbound = <<>> /\ (t.closed \/ (held = <<>> /\ t.outbound = <<>>))
               /\ (k[1] = "open" => ~OK(p))
      BY <2>3, <2>5, <3>1 DEF Settled, Quiet, Framed, Kept
    <3>2. CASE /\ k[1] = "open" /\ OK(p) /\ (~t.closed => hl = held /\ t.outbound = <<>>)
               /\ \E h : /\ h.type = "HANDLE" /\ Fresh(t, k, h) /\ Shaped(h)
                         /\ (t.inbound = <<h>> /\ hl = <<>>) \/ (t.inbound = <<>> /\ hl = <<h>>)
      <4>1. PICK h : /\ h.type = "HANDLE" /\ Fresh(t, k, h) /\ Shaped(h)
                     /\ (t.inbound = <<h>> /\ hl = <<>>) \/ (t.inbound = <<>> /\ hl = <<h>>)
        BY <3>2
      <4>2. ~a.f.closed => hl = held /\ a.f.outbound = <<>>
        BY <2>3, <3>2 DEF Kept
      <4>4. Fresh(a.f, k, h)
        BY <2>3, <4>1 DEF Fresh, Kept
      <4>5. Follow(a.f, held, k)
        BY <2>3, <4>1, <4>2, <4>4 DEF Follow
      <4>. QED
        BY <3>2, <4>5 DEF Settled
    <3>. QED
      BY <2>2, <3>1, <3>2
  <2>8. Comes(t, held, k, a)
    BY <2>2, <2>3, <2>5, <2>6, <2>7 DEF Comes
  <2>. QED
    BY <2>4, <2>8 DEF id
<1>4. CASE t.call.phase # "" /\ t.packets = <<>>
  <2>1. Reads(t, r)
    BY PacketReadDoes
  <2>. HIDE DEF r
  <2>2. /\ Kept(t, r.f) /\ r.f.at = t.at /\ r.f.call.phase = t.call.phase /\ r.f.answered = t.answered
        /\ Kin(t, k, r.f)
    BY <2>1 DEF Reads, Kin
  <2>3. CASE r.rc = "FAIL"
    <3>1. q = Not(r.f, "FAIL")
      BY <1>4, <2>3 DEF Requirev, r
    <3>2. Comes(t, held, k, Not(r.f, "FAIL"))
      BY <2>2 DEF Comes, Not
    <3>. QED
      BY <3>1, <3>2
  <2>4. CASE r.rc \in {"WAIT", "EAGAIN"} /\ r.f = t
    <3>1. q = Not(t, r.rc) \/ q = Not(t, "TIMEOUT")
      BY <1>4, <2>4 DEF Requirev, r
    <3>2. Comes(t, held, k, Not(t, r.rc)) /\ Comes(t, held, k, Not(t, "TIMEOUT"))
      BY <1>4, <2>2, <2>4 DEF Comes, Not
    <3>. QED
      BY <3>1, <3>2
  <2>5. CASE /\ r.rc = "MORE" /\ t.inbound # <<>> /\ r.f.partial
             /\ r.f.packets = t.packets /\ r.f.inbound = t.inbound
    <3>1. q = Not(r.f, "MORE")
      BY <1>4, <2>5 DEF Requirev, r
    <3>2. Same(t, r.f)
      BY <2>2, <2>5 DEF Same
    <3>3. Coming(r.f, held, k) /\ Framed(r.f)
      BY <1>4, <2>5, <3>2, SameComing DEF Framed
    <3>4. Comes(t, held, k, Not(r.f, "MORE"))
      BY <2>2, <3>3 DEF Comes, Not
    <3>. QED
      BY <3>1, <3>4
  <2>6. CASE /\ t.inbound # <<>> /\ r.rc = Head(t.inbound).type
             /\ r.f.packets = Append(t.packets, Head(t.inbound)) /\ r.f.inbound = Tail(t.inbound)
             /\ ~r.f.partial /\ r.f.pos = 0
    <3>1. r.rc \in Types(k)
      BY <1>4, <2>6, HeadComing DEF Mine
    <3> DEFINE u == [r.f EXCEPT !.call.phase = ""]
    <3>2. q = Not(u, "MORE")
      BY <1>0, <1>4, <3>1 DEF Requirev, r
    <3>3. /\ Kept(t, u) /\ u.at = t.at /\ u.call.phase = "" /\ u.answered = t.answered /\ ~u.partial /\ u.pos = 0
          /\ u.packets = Append(t.packets, Head(t.inbound)) /\ u.inbound = Tail(t.inbound)
      BY <2>2, <2>6 DEF Kept, Formed, Fields
    <3>. HIDE DEF u
    <3>4. Coming(u, held, k)
      BY <1>4, <2>6, <3>3, NextComing DEF Handling
    <3>5. Comes(t, held, k, Not(u, "MORE"))
      BY <3>3, <3>4 DEF Comes, Not, Kin, Framed
    <3>. QED
      BY <3>2, <3>5
  <2>. QED
    BY <2>1, <2>3, <2>4, <2>5, <2>6 DEF Reads, Framed
<1>. QED
  BY <1>2, <1>3, <1>4

\* A list of one element.
LEMMA OneIsList ==
  ASSUME NEW S, NEW x \in S
  PROVE  <<x>> \in Seq(S) /\ Len(<<x>>) = 1
  OBVIOUS

\* What comes is of one type.
Only(t, held, k, type) ==
  \E hl, out :
    /\ ~t.closed => hl = held /\ out = t.outbound
    /\ \/ Underway(t, k, hl, out)
       \/ out = <<>> /\ \E p : Single(t, hl, p) /\ p.type = type /\ Fresh(t, k, p)

Brings(t, held, k, type, a) ==
  /\ Kin(t, k, a.f) /\ Kept(t, a.f) /\ a.f.at = t.at
  /\ \/ a.rc = "" /\ Framed(a.f) /\ a.p.type = type /\ Quiet(a.f, held)
     \/ a.rc = "MORE" /\ Framed(a.f) /\ Same(t, a.f)
     \/ a.rc \in {"EAGAIN", "WAIT"} /\ a.f = t
     \/ a.rc = "FAIL"

\* sftp_packet_require, for those that wait for that type.
LEMMA RequireBrings ==
  ASSUME NEW t, Formed(t), NEW held, NEW k, ~Handling(t), Framed(t), t.packets = <<>>,
         NEW type \in {"STATUS", "HANDLE", "VERSION"}, k[1] = "init" <=> type = "VERSION",
         Only(t, held, k, type), NEW id, NEW net \in Nets
  PROVE  Brings(t, held, k, type, Require(t, type, id, net))
<1> DEFINE q == Require(t, type, id, net)
           r == PacketRead(t, net)
           Good(a) == /\ Kin(t, k, a.f) /\ Kept(t, a.f) /\ a.f.at = t.at
                      /\ \/ a.rc = "" /\ Framed(a.f) /\ a.p.type = type /\ Quiet(a.f, held)
                         \/ a.rc = "MORE" /\ Framed(a.f) /\ Same(t, a.f)
                         \/ a.rc \in {"EAGAIN", "WAIT"} /\ a.f = t
                         \/ a.rc = "FAIL"
<1>0. <<type>> \in Seq({type}) /\ Len(<<type>>) = 1
  BY OneIsList
<1>. SUFFICES Good(q)
  BY DEF Brings
<1>1. CASE t.call.phase = ""
  <2>1. q = Not([t EXCEPT !.call.phase = "read"], "MORE")
    BY <1>0, <1>1, AskMisses DEF Require
  <2> DEFINE u == [t EXCEPT !.call.phase = "read"]
  <2>2. Same(t, u) /\ u.at = t.at /\ u.answered = t.answered /\ u.partial = t.partial /\ u.pos = t.pos
    BY DEF Same, Kept, Formed, Fields
  <2>. HIDE DEF u
  <2>3. Good(Not(u, "MORE"))
    BY <2>2 DEF Framed, Same, Kin, Not
  <2>. QED
    BY <2>1, <2>3 DEF u
<1>2. CASE t.call.phase # ""
  <2>1. Reads(t, r)
    BY PacketReadDoes
  <2>. HIDE DEF r
  <2>2. /\ Kept(t, r.f) /\ r.f.at = t.at /\ r.f.call.phase = t.call.phase /\ r.f.answered = t.answered
        /\ Kin(t, k, r.f)
    BY <2>1 DEF Reads, Kin
  <2>3. CASE r.rc = "FAIL"
    <3>1. q = Not(r.f, "FAIL")
      BY <1>2, <2>3 DEF Require, r
    <3>2. Good(Not(r.f, "FAIL"))
      BY <2>2 DEF Not
    <3>. QED
      BY <3>1, <3>2
  <2>4. CASE r.rc \in {"WAIT", "EAGAIN"} /\ r.f = t
    <3>1. q = Not(t, r.rc)
      BY <1>2, <2>4 DEF Require, r
    <3>2. Good(Not(t, r.rc))
      BY <2>2, <2>4 DEF Not
    <3>. QED
      BY <3>1, <3>2
  <2>5. CASE /\ r.rc = "MORE" /\ t.inbound # <<>> /\ r.f.partial
             /\ r.f.packets = t.packets /\ r.f.inbound = t.inbound
    <3>1. q = Not(r.f, "MORE")
      BY <1>2, <2>5 DEF Require, r
    <3>2. Same(t, r.f) /\ Framed(r.f)
      BY <2>2, <2>5 DEF Same, Framed
    <3>3. Good(Not(r.f, "MORE"))
      BY <2>2, <3>2 DEF Not
    <3>. QED
      BY <3>1, <3>3
  <2>6. CASE /\ t.inbound # <<>> /\ r.rc = Head(t.inbound).type
             /\ r.f.packets = Append(t.packets, Head(t.inbound)) /\ r.f.inbound = Tail(t.inbound)
             /\ ~r.f.partial /\ r.f.pos = 0
    <3>1. PICK p : /\ t.inbound = <<p>> /\ p.type = type /\ Fresh(t, k, p)
                   /\ t.closed \/ (held = <<>> /\ t.outbound = <<>>)
      BY <2>6, Tuples DEF Only, Single, Underway
    <3>2. Head(<<p>>) = p /\ Tail(<<p>>) = <<>> /\ Append(<<>>, p) = <<p>>
      BY Tuples
    <3>3. r.rc = type /\ r.f.packets = <<p>> /\ r.f.inbound = <<>>
      BY <2>6, <3>1, <3>2
    <3> DEFINE a == Ask(r.f, <<type>>, id)
    <3>4. q = a
      BY <1>2, <3>3 DEF Require, r
    <3>5. Asks(r.f, <<type>>, id, a)
      <4>1. r.f.packets \in Seq({p})
        BY <3>3
      <4>. QED
        BY <1>0, <2>2, <4>1, AskDoes DEF Kept
    <3>. HIDE DEF a
    <3>6. CASE a.rc = "FAIL" /\ a.f = r.f
      BY <2>2, <3>4, <3>6
    <3>7. CASE a.rc = ""
      <4>1. PICK i : /\ Hit(r.f, <<type>>, id, i) /\ a.p = r.f.packets[i]
                     /\ a.f.packets = RemoveAt(r.f.packets, i)
                     /\ a.f.answered = IF a.p.type = "VERSION" THEN r.f.answered
                                       ELSE r.f.answered \cup {<<id, a.p.id>>}
        BY <3>5, <3>7 DEF Asks
      <4>2. i = 1
        BY <3>3, <4>1, Tuples DEF Hit
      <4>3. a.p = p /\ a.f.packets = <<>>
        BY <3>3, <4>1, <4>2, Tuples
      <4>4. Kept(r.f, a.f) /\ a.f.at = t.at /\ a.f.inbound = <<>> /\ ~a.f.partial /\ a.f.pos = 0
        BY <2>2, <2>6, <3>3, <3>5, <3>7 DEF Asks
      <4>5. Kept(t, a.f)
        BY <2>2, <4>4 DEF Kept
      <4>6. Kin(t, k, a.f)
        <5>1. CASE type = "VERSION"
          BY <2>2, <3>1, <4>1, <4>3, <5>1 DEF Kin
        <5>2. CASE type # "VERSION"
          <6>1. p.id = t.request_id - 1
            BY <3>1, <5>2 DEF Fresh
          <6>2. <<id, p.id>>[2] = p.id
            OBVIOUS
          <6>3. \A x \in a.f.answered : x \in t.answered \/ x = <<id, p.id>>
            BY <2>2, <4>1, <4>3
          <6>. QED
            BY <6>1, <6>2, <6>3 DEF Kin
        <5>. QED
          BY <5>1, <5>2
      <4>7. Framed(a.f) /\ Quiet(a.f, held)
        BY <3>1, <4>3, <4>4, <4>5 DEF Framed, Quiet, Kept
      <4>. QED
        BY <3>1, <3>4, <3>7, <4>3, <4>4, <4>5, <4>6, <4>7
    <3>. QED
      BY <3>5, <3>6, <3>7 DEF Asks
  <2>. QED
    BY <2>1, <2>3, <2>4, <2>5, <2>6 DEF Reads, Framed
<1>. QED
  BY <1>1, <1>2

\* sftp_packet_require, for a function that asks for one type of answer.
LEMMA RequireComes ==
  ASSUME NEW t, Formed(t), NEW held, NEW k, k[1] \notin Choosers, ~Handling(t), Framed(t), Coming(t, held, k),
         NEW type, Types(k) = {type}, NEW id, NEW net \in Nets
  PROVE  Comes(t, held, k, Require(t, type, id, net))
<1> DEFINE a == Require(t, type, id, net)
<1>1. t.packets = <<>>
  BY DEF Coming
<1>2. type \in {"STATUS", "VERSION"} /\ (k[1] = "init" <=> type = "VERSION") /\ k[1] # "open"
  BY DEF Types, Choosers
<1>3. Only(t, held, k, type)
  <2>1. PICK hl, out : /\ ~t.closed => hl = held /\ out = t.outbound
                       /\ Underway(t, k, hl, out) \/ One(t, k, hl, out) \/ Two(t, k, hl, out)
    BY DEF Coming
  <2>2. One(t, k, hl, out) => out = <<>> /\ \E p : Single(t, hl, p) /\ p.type = type /\ Fresh(t, k, p)
    BY DEF One, Mine
  <2>3. ~Two(t, k, hl, out)
    BY <1>2 DEF Two
  <2>. QED
    BY <2>1, <2>2, <2>3 DEF Only
<1>4. Brings(t, held, k, type, a)
  BY <1>1, <1>2, <1>3, RequireBrings
<1>. SUFFICES Comes(t, held, k, a)
  OBVIOUS
<1>. HIDE DEF a
<1>5. Same(t, a.f) => Coming(a.f, held, k)
  BY <1>1, SameComing
<1>. QED
  BY <1>1, <1>2, <1>4, <1>5 DEF Comes, Settled, Brings

-----------------------------------------------------------------------------
(* A request and its answer. *)

\* What a step of the function at k may do to a safe state: rc is what it
\* returns, and only a mkdir that returns EAGAIN may have another id then.
SafeStep(t, k, rc, u) ==
  /\ Safe(u) /\ t.request_id <= u.request_id
  /\ \A j \in DOMAIN u.at \ {k} : j \in DOMAIN t.at /\ u.at[j] = t.at[j]
  /\ k \in DOMAIN u.at /\ u.at[k].pos \in Asking(k) =>
       \/ u.at[k].req.id = t.request_id
       \/ k \in DOMAIN t.at /\ t.at[k].pos \in Asking(k) /\ u.at[k].req.id = t.at[k].req.id
       \/ k[1] = "mkdir" /\ rc = "EAGAIN" /\ k \in DOMAIN t.at /\ t.at[k].pos \in Asking(k)
  /\ \A x \in u.answered :
       \/ x \in t.answered
       \/ /\ k \in DOMAIN t.at /\ t.at[k].pos \in Asking(k)
          /\ x[1] = t.at[k].req.id /\ LooksLike(x[1], x[2])
  /\ Handling(u) => k[1] = "open" /\ Waits(u, k)

\* A request is made.
Makes(t, k, req, v) ==
  /\ Formed(v) /\ v.request_id = t.request_id + 1 /\ v.mkdir_request_id = t.mkdir_request_id
  /\ v.outbound = t.outbound /\ v.closed = t.closed /\ v.version = t.version
  /\ v.packets = t.packets /\ v.partial = t.partial /\ v.pos = t.pos
  /\ v.inbound = t.inbound /\ v.answered = t.answered /\ v.call.phase = ""
  /\ \A j \in DOMAIN t.at \ {k} : v.at[j] = t.at[j]
  /\ DOMAIN v.at = DOMAIN t.at \cup {k}
  /\ v.at[k] = [At(t, k) EXCEPT !.pos = "created", !.req = [req EXCEPT !.id = t.request_id]]

\* It is sent.
Sends(t, k, req, to, v) ==
  /\ Formed(v) /\ v.request_id = t.request_id /\ v.mkdir_request_id = t.mkdir_request_id
  /\ v.outbound = Append(t.outbound, req) /\ v.closed = t.closed /\ v.version = t.version
  /\ v.packets = t.packets /\ v.partial = t.partial /\ v.pos = t.pos
  /\ v.inbound = t.inbound /\ v.answered = t.answered /\ v.call.phase = ""
  /\ \A j \in DOMAIN t.at \ {k} : v.at[j] = t.at[j]
  /\ DOMAIN v.at = DOMAIN t.at \cup {k}
  /\ v.at[k] = to

\* A function's place is a record, in every safe state.
LEMMA AtShape ==
  ASSUME NEW t, Safe(t), NEW k
  PROVE  /\ DOMAIN At(t, k) = {"pos", "req", "total"} /\ "id" \in DOMAIN At(t, k).req
         /\ k \in DOMAIN t.at => At(t, k) = t.at[k] /\ At(t, k).pos # "idle"
         /\ k \notin DOMAIN t.at => At(t, k).pos = "idle"
<1>1. CASE k \in DOMAIN t.at
  <2>1. SlotOK(t, k)
    BY <1>1 DEF Safe
  <2>2. At(t, k) = t.at[k]
    BY <1>1 DEF At
  <2>. QED
    BY <1>1, <2>1, <2>2 DEF SlotOK, Positions
<1>2. CASE k \notin DOMAIN t.at
  <2>1. At(t, k) = Idle
    BY <1>2 DEF At
  <2>2. DOMAIN Idle = {"pos", "req", "total"} /\ "id" \in DOMAIN Idle.req /\ Idle.pos = "idle"
    BY DEF Idle, Status, Packet
  <2>. QED
    BY <1>2, <2>1, <2>2
<1>. QED
  BY <1>1, <1>2

\* What Created does to a session.
LEMMA CreatedDoes ==
  ASSUME NEW t, Formed(t), NEW k, NEW req, DOMAIN At(t, k) = {"pos", "req", "total"}
  PROVE  Makes(t, k, req, Created(t, k, req))
<1> DEFINE u  == [t EXCEPT !.request_id = @ + 1]
           to == [At(t, k) EXCEPT !.pos = "created", !.req = [req EXCEPT !.id = t.request_id]]
<1>1. Created(t, k, req) = Goto(u, k, to)
  BY DEF Created
<1>2. /\ Formed(u) /\ u.request_id = t.request_id + 1 /\ u.mkdir_request_id = t.mkdir_request_id
      /\ u.outbound = t.outbound /\ u.closed = t.closed /\ u.version = t.version
      /\ u.packets = t.packets /\ u.partial = t.partial /\ u.pos = t.pos
      /\ u.inbound = t.inbound /\ u.answered = t.answered /\ u.at = t.at
  BY DEF Formed, Fields
<1>3. to.pos # "idle"
  OBVIOUS
<1>. HIDE DEF u, to
<1>4. Placed(u, Goto(u, k, to), k, to)
  BY <1>2, <1>3, GotoDoes
<1>. DEFINE v == Goto(u, k, to)
<1>5. Placed(u, v, k, to)
  BY <1>4
<1>. HIDE DEF v
<1>6. Makes(t, k, req, v)
  BY <1>2, <1>5 DEF Makes, Placed, Elsewhere, Steady, Kept, to
<1>. QED
  BY <1>1, <1>6 DEF v

\* What sending a request does to a session.
LEMMA SendDoes ==
  ASSUME NEW t, Formed(t), NEW k, NEW req, NEW to, to.pos # "idle"
  PROVE  Sends(t, k, req, to, Goto([t EXCEPT !.outbound = Append(@, req)], k, to))
<1> DEFINE u == [t EXCEPT !.outbound = Append(@, req)]
<1>2. /\ Formed(u) /\ u.request_id = t.request_id /\ u.mkdir_request_id = t.mkdir_request_id
      /\ u.outbound = Append(t.outbound, req) /\ u.closed = t.closed /\ u.version = t.version
      /\ u.packets = t.packets /\ u.partial = t.partial /\ u.pos = t.pos
      /\ u.inbound = t.inbound /\ u.answered = t.answered /\ u.at = t.at
  BY DEF Formed, Fields
<1>. HIDE DEF u
<1>. DEFINE v == Goto(u, k, to)
<1>5. Placed(u, v, k, to)
  BY <1>2, GotoDoes
<1>. HIDE DEF v
<1>6. Sends(t, k, req, to, v)
  BY <1>2, <1>5 DEF Sends, Placed, Elsewhere, Steady, Kept
<1>. QED
  BY <1>6 DEF v, u

\* A place that is taken or left in a safe state leaves a safe one.
LEMMA PlaceSafe ==
  ASSUME NEW t, Safe(t), NEW v, Formed(v), NEW k,
         v.request_id \in Nat, t.request_id <= v.request_id, v.mkdir_request_id \in 0..v.request_id,
         IsList(v.packets),
         \A j \in DOMAIN v.at \ {k} : j \in DOMAIN t.at /\ v.at[j] = t.at[j],
         k \in DOMAIN v.at => SlotOK(v, k)
  PROVE  Safe(v)
<1>1. \A j \in DOMAIN t.at : SlotOK(t, j)
  BY DEF Safe
<1>2. \A j \in DOMAIN v.at \ {k} : SlotOK(v, j)
  BY <1>1 DEF SlotOK, Safe
<1>. QED
  BY <1>2 DEF Safe

\* The ids of a safe state, and what is later than they are.
LEMMA SafeIds ==
  ASSUME NEW t, Safe(t)
  PROVE  /\ Formed(t) /\ IsList(t.packets)
         /\ t.request_id \in Nat /\ t.mkdir_request_id \in Nat /\ t.mkdir_request_id <= t.request_id
         /\ \A n \in Nat : n >= t.request_id => t.mkdir_request_id \in 0..n /\ t.request_id \in 0..n /\ t.request_id <= n
  BY DEF Safe

\* A state stays safe when a request is made,
LEMMA MakesSafely ==
  ASSUME NEW t, Safe(t), NEW k, "created" \in Positions(k), NEW req, "id" \in DOMAIN req,
         NEW v, Makes(t, k, req, v)
  PROVE  SafeStep(t, k, "MORE", v) /\ ~Handling(v)
<1>0. /\ v.request_id \in Nat /\ t.request_id <= v.request_id /\ v.mkdir_request_id \in 0..v.request_id
      /\ t.request_id \in 0..v.request_id /\ IsList(v.packets) /\ Formed(v)
  <2>1. v.request_id = t.request_id + 1 /\ v.mkdir_request_id = t.mkdir_request_id /\ v.packets = t.packets /\ Formed(v)
    BY DEF Makes
  <2>. QED
    BY <2>1, SafeIds
<1>1. SlotOK(v, k) /\ v.at[k].req.id = t.request_id
  <2>1. DOMAIN At(t, k) = {"pos", "req", "total"}
    BY AtShape
  <2>2. v.at[k] = [At(t, k) EXCEPT !.pos = "created", !.req = [req EXCEPT !.id = t.request_id]]
    BY DEF Makes
  <2>3. /\ DOMAIN v.at[k] = {"pos", "req", "total"} /\ v.at[k].pos = "created"
        /\ DOMAIN v.at[k].req = DOMAIN req /\ v.at[k].req.id = t.request_id
    BY <2>1, <2>2
  <2>. QED
    BY <1>0, <2>3 DEF SlotOK
<1>2. \A j \in DOMAIN v.at \ {k} : j \in DOMAIN t.at /\ v.at[j] = t.at[j]
  BY DEF Makes
<1>3. Safe(v)
  BY <1>0, <1>1, <1>2, PlaceSafe
<1>4. v.answered = t.answered /\ ~Handling(v)
  BY DEF Makes, Handling
<1>. QED
  BY <1>0, <1>1, <1>2, <1>3, <1>4 DEF SafeStep

\* when it is sent,
LEMMA SendsSafely ==
  ASSUME NEW t, Safe(t), NEW k \in DOMAIN t.at, t.at[k].pos \in Asking(k), "sent" \in Positions(k), NEW v,
         Sends(t, k, t.at[k].req, [t.at[k] EXCEPT !.pos = "sent"], v)
  PROVE  SafeStep(t, k, "MORE", v) /\ ~Handling(v)
<1>0. /\ v.request_id = t.request_id /\ v.mkdir_request_id = t.mkdir_request_id /\ IsList(v.packets) /\ Formed(v)
      /\ v.answered = t.answered /\ ~Handling(v)
      /\ \A j \in DOMAIN v.at \ {k} : j \in DOMAIN t.at /\ v.at[j] = t.at[j]
  BY SafeIds DEF Sends, Handling
<1>1. SlotOK(t, k)
  BY DEF Safe
<1>2. SlotOK(v, k) /\ v.at[k].req.id = t.at[k].req.id
  BY <1>0, <1>1 DEF SlotOK, Sends
<1>3. v.request_id \in Nat /\ t.request_id <= v.request_id /\ v.mkdir_request_id \in 0..v.request_id
  BY <1>0, SafeIds
<1>4. Safe(v)
  BY <1>0, <1>2, <1>3, PlaceSafe
<1>. QED
  BY <1>0, <1>2, <1>3, <1>4 DEF SafeStep

\* What was taken was asked for with the id of the function's request.
LEMMA PairsOf ==
  ASSUME NEW t, Safe(t), NEW k, NEW u, NEW types, Looked(t, types, At(t, k).req.id, u),
         (k \in DOMAIN t.at /\ t.at[k].pos \in Asking(k)) \/ u.answered = t.answered
  PROVE  \A x \in u.answered : \/ x \in t.answered
                              \/ /\ k \in DOMAIN t.at /\ t.at[k].pos \in Asking(k)
                                 /\ x[1] = t.at[k].req.id /\ LooksLike(x[1], x[2])
<1>1. CASE u.answered = t.answered
  BY <1>1
<1>2. CASE k \in DOMAIN t.at /\ t.at[k].pos \in Asking(k)
  <2>1. At(t, k) = t.at[k]
    BY <1>2, AtShape
  <2>2. \A x \in u.answered : x \in t.answered \/ (x[1] = At(t, k).req.id /\ LooksLike(x[1], x[2]))
    BY DEF Looked
  <2>. QED
    BY <1>2, <2>1, <2>2
<1>. QED
  BY <1>1, <1>2

\* Leaving, or going to another place, after what was read and found.
LEMMA LeavesSafely ==
  ASSUME NEW t, Safe(t), NEW k, NEW u, NEW types, Looked(t, types, At(t, k).req.id, u),
         (k \in DOMAIN t.at /\ t.at[k].pos \in Asking(k)) \/ u.answered = t.answered,
         NEW rc, NEW v, Gone(u, v, k)
  PROVE  SafeStep(t, k, rc, v) /\ ~Handling(v)
<1>1. /\ v.request_id = t.request_id /\ v.mkdir_request_id = t.mkdir_request_id /\ v.packets = u.packets
      /\ v.answered = u.answered /\ ~Handling(v) /\ k \notin DOMAIN v.at /\ Formed(v)
      /\ \A j \in DOMAIN v.at \ {k} : j \in DOMAIN t.at /\ v.at[j] = t.at[j]
  BY DEF Looked, Kept, Gone, Elsewhere, Steady, Handling
<1>2. IsList(v.packets)
  BY <1>1 DEF Looked
<1>3. v.request_id \in Nat /\ t.request_id <= v.request_id /\ v.mkdir_request_id \in 0..v.request_id
  BY <1>1, SafeIds
<1>4. Safe(v)
  BY <1>1, <1>2, <1>3, PlaceSafe
<1>5. \A x \in u.answered : \/ x \in t.answered
                            \/ /\ k \in DOMAIN t.at /\ t.at[k].pos \in Asking(k)
                               /\ x[1] = t.at[k].req.id /\ LooksLike(x[1], x[2])
  BY PairsOf
<1>. QED
  BY <1>1, <1>3, <1>4, <1>5 DEF SafeStep

\* when its answer is looked for,
LEMMA LooksSafely ==
  ASSUME NEW t, Safe(t), NEW k, NEW u, NEW types, Looked(t, types, At(t, k).req.id, u), ~Handling(t),
         (k \in DOMAIN t.at /\ t.at[k].pos \in Asking(k)) \/ u.answered = t.answered,
         NEW rc
  PROVE  SafeStep(t, k, rc, u) /\ ~Handling(u)
<1>1. /\ u.request_id = t.request_id /\ u.mkdir_request_id = t.mkdir_request_id
      /\ ~Handling(u) /\ Formed(u) /\ u.at = t.at /\ IsList(u.packets)
  BY DEF Looked, Kept, Handling
<1>2. Safe(u)
  BY <1>1 DEF Safe, SlotOK
<1>3. t.request_id <= u.request_id
  BY <1>1, SafeIds
<1>. QED
  BY <1>1, <1>2, <1>3, PairsOf DEF SafeStep

\* and when nothing happens.
LEMMA StaysSafely ==
  ASSUME NEW t, Safe(t), ~Handling(t), NEW k, NEW rc
  PROVE  SafeStep(t, k, rc, t)
<1>1. t.request_id <= t.request_id
  BY SafeIds
<1>. QED
  BY <1>1 DEF SafeStep

\* The three states of a function that makes a request.
Stages(t, k, req, q, a) ==
  \/ At(t, k).pos = "idle" /\ q = Not(Created(t, k, req), "MORE")
  \/ /\ At(t, k).pos = "created"
     /\ \/ q = Not(Goto([t EXCEPT !.outbound = Append(@, At(t, k).req)], k, [At(t, k) EXCEPT !.pos = "sent"]), "MORE")
        \/ q = Not(t, "EAGAIN")
        \/ q = Not(Leave(t, k), "FAIL")
  \/ /\ At(t, k).pos = "sent"
     /\ \/ a.rc \in {"MORE", "WAIT", "EAGAIN"} /\ q = a
        \/ a.rc \notin {"MORE", "WAIT", "EAGAIN"} /\ q = [a EXCEPT !.f = Leave(a.f, k)]

\* Exchange is in one of its three stages.
LEMMA ExchangeStages ==
  ASSUME NEW t, Safe(t), NEW k, At(t, k).pos \in {"idle", "created", "sent"}, NEW req, NEW types, NEW net
  PROVE  Stages(t, k, req, Exchange(t, k, req, types, net), Answered(t, types, At(t, k).req.id, net))
<1>1. CASE At(t, k).pos = "idle"
  BY <1>1 DEF Exchange, Stages
<1>2. CASE At(t, k).pos = "created"
  BY <1>2 DEF Exchange, ChannelWrite, R, Stages
<1>3. CASE At(t, k).pos = "sent"
  BY <1>3 DEF Exchange, Stages
<1>. QED
  BY <1>1, <1>2, <1>3

\* What looking for an answer returns.
LEMMA AnsweredShape ==
  ASSUME NEW t, NEW types, Len(types) \in {1, 2}, NEW id, NEW net
  PROVE  DOMAIN Answered(t, types, id, net) = {"f", "rc", "p"}
<1>0. \A u, ts : DOMAIN Ask(u, ts, id) = {"f", "rc", "p"}
  BY DEF Ask, Not
<1>1. \A u, rc : DOMAIN Not(u, rc) = {"f", "rc", "p"}
  BY DEF Not
<1>2. CASE Len(types) = 1
  <2>1. DOMAIN Require(t, types[1], id, net) = {"f", "rc", "p"}
    BY <1>0, <1>1 DEF Require
  <2>. QED
    BY <1>2, <2>1 DEF Answered
<1>3. CASE Len(types) = 2
  <2>1. DOMAIN Requirev(t, types, id, net) = {"f", "rc", "p"}
    BY <1>0, <1>1 DEF Requirev
  <2>. QED
    BY <1>3, <2>1 DEF Answered
<1>. QED
  BY <1>2, <1>3

\* Every step of a request is safe.
Exchanged(t, k, q) ==
  /\ SafeStep(t, k, q.rc, q.f) /\ ~Handling(q.f)
  /\ q.rc \notin {"MORE", "WAIT", "EAGAIN"} => k \notin DOMAIN q.f.at
  /\ q.rc = "EAGAIN" => k \in DOMAIN t.at /\ q.f.at = t.at
  /\ q.rc = "" => At(t, k).pos = "sent"

\* No stage of Exchange makes a state unsafe.
LEMMA ExchangeSafe ==
  ASSUME NEW t, Safe(t), ~Handling(t), NEW k, {"created", "sent"} \subseteq Positions(k) \cap Asking(k),
         At(t, k).pos \in {"idle", "created", "sent"}, NEW req, "id" \in DOMAIN req,
         NEW T, NEW types \in Seq(T), Len(types) \in {1, 2}, NEW net \in Nets
  PROVE  Exchanged(t, k, Exchange(t, k, req, types, net))
<1> DEFINE q == Exchange(t, k, req, types, net)
           id == At(t, k).req.id
           a == Answered(t, types, id, net)
           sent == [At(t, k) EXCEPT !.pos = "sent"]
           w == Goto([t EXCEPT !.outbound = Append(@, At(t, k).req)], k, sent)
<1>0. Formed(t) /\ IsList(t.packets)
  BY SafeIds
<1>1. \/ At(t, k).pos = "idle" /\ q = Not(Created(t, k, req), "MORE")
      \/ /\ At(t, k).pos = "created"
         /\ q = Not(w, "MORE") \/ q = Not(t, "EAGAIN") \/ q = Not(Leave(t, k), "FAIL")
      \/ /\ At(t, k).pos = "sent"
         /\ \/ a.rc \in {"MORE", "WAIT", "EAGAIN"} /\ q = a
            \/ a.rc \notin {"MORE", "WAIT", "EAGAIN"} /\ q = [a EXCEPT !.f = Leave(a.f, k)]
  <2>1. Stages(t, k, req, q, a)
    BY ExchangeStages
  <2>. HIDE DEF q, a
  <2>. QED
    BY <2>1 DEF Stages
<1>2. \A u, rc : Not(u, rc).f = u /\ Not(u, rc).rc = rc
  BY DEF Not
<1>3. At(t, k).pos # "idle" => k \in DOMAIN t.at /\ At(t, k) = t.at[k]
  BY AtShape
<1>4. \A types2 : Looked(t, types2, id, t)
  BY <1>0 DEF Looked, Kept
<1>. SUFFICES Exchanged(t, k, q)
  OBVIOUS
<1>5. CASE At(t, k).pos = "idle"
  <2>1. q = Not(Created(t, k, req), "MORE")
    BY <1>1, <1>5
  <2>2. Makes(t, k, req, Created(t, k, req))
    BY <1>0, AtShape, CreatedDoes
  <2> DEFINE v == Created(t, k, req)
  <2>. HIDE DEF v, q
  <2>3. SafeStep(t, k, "MORE", v) /\ ~Handling(v)
    BY <2>2, MakesSafely DEF v
  <2>4. q.f = v /\ q.rc = "MORE"
    BY <2>1, <1>2 DEF v
  <2>. QED
    BY <2>3, <2>4 DEF Exchanged
<1>6. CASE At(t, k).pos = "created"
  <2>. HIDE DEF q
  <2>1. CASE q = Not(w, "MORE")
    <3>1. sent.pos # "idle"
      BY AtShape
    <3>2. Sends(t, k, At(t, k).req, sent, w)
      <4>. HIDE DEF sent
      <4>. QED
        BY <1>0, <3>1, SendDoes
    <3>3. Sends(t, k, t.at[k].req, [t.at[k] EXCEPT !.pos = "sent"], w)
      BY <1>3, <1>6, <3>2
    <3>. HIDE DEF w, sent
    <3>4. SafeStep(t, k, "MORE", w) /\ ~Handling(w)
      BY <1>3, <1>6, <3>3, SendsSafely
    <3>5. q.f = w /\ q.rc = "MORE"
      BY <1>2, <2>1
    <3>. QED
      BY <3>4, <3>5 DEF Exchanged
  <2>2. CASE q = Not(t, "EAGAIN")
    <3>1. q.f = t /\ q.rc = "EAGAIN" /\ k \in DOMAIN t.at
      BY <1>2, <1>3, <1>6, <2>2
    <3>2. SafeStep(t, k, "EAGAIN", t)
      BY StaysSafely
    <3>. QED
      BY <3>1, <3>2 DEF Exchanged
  <2>3. CASE q = Not(Leave(t, k), "FAIL")
    <3> DEFINE v == Leave(t, k)
    <3>1. Gone(t, v, k)
      BY <1>0, LeaveDoes
    <3>. HIDE DEF v
    <3>2. SafeStep(t, k, "FAIL", v) /\ ~Handling(v)
      BY <1>3, <1>4, <1>6, <3>1, LeavesSafely
    <3>3. k \notin DOMAIN v.at
      BY <3>1 DEF Gone
    <3>4. q.f = v /\ q.rc = "FAIL"
      BY <1>2, <2>3 DEF v
    <3>. QED
      BY <3>2, <3>3, <3>4 DEF Exchanged
  <2>. QED
    BY <1>1, <1>6, <2>1, <2>2, <2>3
<1>7. CASE At(t, k).pos = "sent"
  <2>1. Looked(t, types, id, a.f)
    BY <1>0, AnsweredLooks
  <2>2. DOMAIN a = {"f", "rc", "p"}
    BY AnsweredShape
  <2>. HIDE DEF q, a
  <2>3. CASE a.rc \in {"MORE", "WAIT", "EAGAIN"} /\ q = a
    <3>1. SafeStep(t, k, a.rc, a.f) /\ ~Handling(a.f)
      BY <1>3, <1>7, <2>1, LooksSafely
    <3>2. a.f.at = t.at
      BY <2>1 DEF Looked
    <3>. QED
      BY <1>3, <1>7, <2>3, <3>1, <3>2 DEF Exchanged
  <2>4. CASE a.rc \notin {"MORE", "WAIT", "EAGAIN"} /\ q = [a EXCEPT !.f = Leave(a.f, k)]
    <3> DEFINE v == Leave(a.f, k)
    <3>1. Gone(a.f, v, k)
      BY <2>1, LeaveDoes DEF Looked, Kept
    <3>. HIDE DEF v
    <3>2. SafeStep(t, k, a.rc, v) /\ ~Handling(v)
      BY <1>3, <1>7, <2>1, <3>1, LeavesSafely
    <3>3. k \notin DOMAIN v.at
      BY <3>1 DEF Gone
    <3>4. q.f = v /\ q.rc = a.rc
      BY <2>2, <2>4 DEF v
    <3>. QED
      BY <1>7, <2>4, <3>2, <3>3, <3>4 DEF Exchanged
  <2>. QED
    BY <1>1, <1>7, <2>3, <2>4
<1>. QED
  BY <1>5, <1>6, <1>7

\* The types that are asked for are those of the function.
Fitting(k, types) ==
  \/ k[1] \in Choosers /\ Len(types) = 2 /\ Types(k) = ToSet(types)
  \/ k[1] \notin Choosers \cup {"init"} /\ types = <<"STATUS">> /\ Types(k) = {"STATUS"}

\* What lets a call make its request.
May(t, c) ==
  LET k == SlotOf(c) IN
  /\ k[1] = "rename" => ~(t.version < 2)
  /\ k[1] = "symlink" => ~(t.version < 3) \/ c.arg = "REALPATH"
  /\ k[1] = "read" => ~(c.n - At(t, k).total <= 0)

TidyAsk(t, held, c, lost, q) ==
  LET k == SlotOf(c) IN
  /\ Kin(t, k, q.f) /\ DOMAIN q.f.at \subseteq {k}
  /\ \/ q.rc = "MORE" /\ Tidy(q.f, held, c, lost)
     \/ q.rc = "EAGAIN" /\ q.f = t /\ t.packets = <<>> /\ k \in DOMAIN t.at
     \/ q.rc = "WAIT" /\ q.f = t
     \/ /\ q.rc = "" /\ DOMAIN q.f.at = {} /\ q.f.request_id = t.request_id /\ q.f.version = t.version
        /\ Framed(q.f) /\ q.p.type \in Types(k) /\ Settled(held, k, q.f, q.p)
     \/ q.rc \in {"FAIL", "TIMEOUT"} /\ k \in DOMAIN t.at

\* A place has no part in what is coming.
LEMMA SettledSteady ==
  ASSUME NEW held, NEW k, NEW u, NEW p, Settled(held, k, u, p), NEW v, Steady(u, v)
  PROVE  Settled(held, k, v, p)
<1>1. Quiet(u, held) => Quiet(v, held)
  BY DEF Quiet, Steady, Kept
<1>2. Follow(u, held, k) => Follow(v, held, k)
  BY DEF Follow, Fresh, Steady, Kept
<1>. QED
  BY <1>1, <1>2 DEF Settled

\* A request that is made is the last one, and nothing is on its way.
LEMMA MakesTidy ==
  ASSUME NEW t, Safe(t), NEW held, NEW c, NEW lost, Tidy(t, held, c, lost), NEW k, k = SlotOf(c),
         k[1] # "init", ~Waits(t, k), May(t, c),
         NEW req, {"id", "type"} \subseteq DOMAIN req, Fits(k, req),
         NEW v, Makes(t, k, req, v)
  PROVE  Tidy(v, held, c, lost) /\ Kin(t, k, v)
<1>1. DOMAIN At(t, k) = {"pos", "req", "total"}
  BY AtShape
<1>2. /\ v.at[k].pos = "created" /\ v.at[k].total = At(t, k).total
      /\ v.at[k].req.id = t.request_id /\ v.at[k].req.type = req.type
  <2> DEFINE q == [req EXCEPT !.id = t.request_id]
  <2>1. q.id = t.request_id /\ q.type = req.type
    OBVIOUS
  <2>2. v.at[k] = [At(t, k) EXCEPT !.pos = "created", !.req = q]
    BY DEF Makes
  <2>. HIDE DEF q
  <2>. QED
    BY <1>1, <2>1, <2>2
<1>3. Fits(k, v.at[k].req)
  BY <1>2 DEF Fits
<1>4. Fresh(v, k, v.at[k].req)
  <2>1. v.request_id = t.request_id + 1 /\ t.request_id \in Nat
    BY SafeIds DEF Makes
  <2>. QED
    BY <1>2, <2>1 DEF Fresh
<1>5. Meant(v, k, c, lost)
  BY <1>2, <1>3, <1>4 DEF Meant, May, Makes
<1>6. ~Waits(v, k)
  BY <1>2 DEF Waits, Waiting
<1>7. Quiet(t, held) /\ Framed(t) /\ DOMAIN t.at \subseteq {k}
  BY DEF Tidy
<1>8. Quiet(v, held) /\ Framed(v) /\ DOMAIN v.at \subseteq {k}
  BY <1>7 DEF Quiet, Framed, Makes
<1>9. Kin(t, k, v)
  BY DEF Kin, Makes
<1>. QED
  BY <1>5, <1>6, <1>8, <1>9 DEF Tidy

\* A request that is sent is on its way, and nothing else is.
LEMMA SendsTidy ==
  ASSUME NEW t, Safe(t), NEW held, NEW c, NEW lost, Tidy(t, held, c, lost), NEW k, k = SlotOf(c),
         k \in DOMAIN t.at, ~Waits(t, k), NEW req, Fits(k, req), Fresh(t, k, req), NEW to, DOMAIN to = {"pos", "req", "total"},
         to.pos = Waiting(k), to.req = t.at[k].req, to.total = t.at[k].total,
         k[1] # "init" => Fresh(t, k, to.req), t.at[k].pos # "allocated",
         NEW v, Sends(t, k, req, to, v)
  PROVE  Tidy(v, held, c, lost) /\ Kin(t, k, v)
<1>1. Quiet(t, held) /\ Framed(t) /\ DOMAIN t.at \subseteq {k} /\ Meant(t, k, c, lost)
  BY DEF Tidy
<1>2. Meant(v, k, c, lost)
  BY <1>1 DEF Meant, Fresh, Waiting, Sends
<1>3. Waits(v, k) /\ ~Handling(v)
  BY DEF Waits, Sends, Handling
<1>4. v.packets = <<>> /\ v.inbound = <<>> /\ Framed(v) /\ DOMAIN v.at \subseteq {k}
  BY <1>1 DEF Quiet, Framed, Sends
<1>5. Fresh(v, k, req)
  BY DEF Fresh, Sends
<1>6. Underway(v, k, <<>>, <<req>>)
  BY <1>4, <1>5 DEF Underway
<1>7. ~v.closed => held = <<>> /\ v.outbound = <<req>>
  <2>1. Append(<<>>, req) = <<req>>
    BY Tuples
  <2>. QED
    BY <1>1, <2>1 DEF Quiet, Sends
<1>8. Coming(v, held, k)
  BY <1>3, <1>4, <1>6, <1>7 DEF Coming
<1>9. Kin(t, k, v)
  BY DEF Kin, Sends
<1>. QED
  BY <1>2, <1>3, <1>4, <1>8, <1>9 DEF Tidy

\* Waiting goes on.
LEMMA WaitsTidy ==
  ASSUME NEW t, NEW held, NEW c, NEW lost, Tidy(t, held, c, lost), NEW k, k = SlotOf(c), Waits(t, k),
         NEW u, Kept(t, u), u.at = t.at, Framed(u), Coming(u, held, k)
  PROVE  Tidy(u, held, c, lost)
<1>1. Meant(u, k, c, lost)
  <2>1. Meant(t, k, c, lost)
    BY DEF Tidy, Waits
  <2>. QED
    BY <2>1 DEF Meant, Fresh, Kept
<1>2. Waits(u, k)
  BY DEF Waits
<1>. QED
  BY <1>1, <1>2 DEF Tidy

\* Every stage of Exchange, while no request has been given up.
LEMMA ExchangeTidy ==
  ASSUME NEW t, Safe(t), ~Handling(t), NEW held, NEW c, NEW lost, Tidy(t, held, c, lost), NEW k, k = SlotOf(c),
         k[1] # "init", At(t, k).pos \in {"idle", "created", "sent"}, May(t, c),
         NEW req, {"id", "type"} \subseteq DOMAIN req, Fits(k, req),
         NEW T, NEW types \in Seq(T), Fitting(k, types), NEW net \in Nets
  PROVE  TidyAsk(t, held, c, lost, Exchange(t, k, req, types, net))
<1> DEFINE q == Exchange(t, k, req, types, net)
           id == At(t, k).req.id
           a == Answered(t, types, id, net)
           sent == [At(t, k) EXCEPT !.pos = "sent"]
           w == Goto([t EXCEPT !.outbound = Append(@, At(t, k).req)], k, sent)
<1>0. Formed(t) /\ IsList(t.packets) /\ DOMAIN t.at \subseteq {k} /\ Framed(t)
  BY SafeIds DEF Tidy
<1>1. \/ At(t, k).pos = "idle" /\ q = Not(Created(t, k, req), "MORE")
      \/ /\ At(t, k).pos = "created"
         /\ q = Not(w, "MORE") \/ q = Not(t, "EAGAIN") \/ q = Not(Leave(t, k), "FAIL")
      \/ /\ At(t, k).pos = "sent"
         /\ \/ a.rc \in {"MORE", "WAIT", "EAGAIN"} /\ q = a
            \/ a.rc \notin {"MORE", "WAIT", "EAGAIN"} /\ q = [a EXCEPT !.f = Leave(a.f, k)]
  <2>1. Stages(t, k, req, q, a)
    BY ExchangeStages
  <2>. HIDE DEF q, a
  <2>. QED
    BY <2>1 DEF Stages
<1>2. \A u, rc : Not(u, rc).f = u /\ Not(u, rc).rc = rc
  BY DEF Not
<1>3. /\ At(t, k).pos # "idle" => k \in DOMAIN t.at /\ At(t, k) = t.at[k] /\ Meant(t, k, c, lost)
      /\ At(t, k).pos = "idle" => k \notin DOMAIN t.at
  BY AtShape DEF Tidy
<1>4. Waits(t, k) <=> At(t, k).pos = "sent"
  BY <1>3 DEF Waits, Waiting
<1>. SUFFICES TidyAsk(t, held, c, lost, q)
  OBVIOUS
<1>5. CASE At(t, k).pos = "idle"
  <2> DEFINE v == Created(t, k, req)
  <2>1. q = Not(v, "MORE")
    BY <1>1, <1>5
  <2>2. Makes(t, k, req, v)
    BY <1>0, AtShape, CreatedDoes
  <2>. HIDE DEF v, q
  <2>3. Tidy(v, held, c, lost) /\ Kin(t, k, v)
    BY <1>4, <1>5, <2>2, MakesTidy
  <2>4. q.f = v /\ q.rc = "MORE"
    BY <2>1, <1>2
  <2>5. DOMAIN v.at \subseteq {k}
    BY <2>3 DEF Tidy
  <2>. QED
    BY <2>3, <2>4, <2>5 DEF TidyAsk
<1>6. CASE At(t, k).pos = "created"
  <2>. HIDE DEF q
  <2>0. Fits(k, t.at[k].req) /\ Fresh(t, k, t.at[k].req) /\ t.packets = <<>>
    BY <1>3, <1>4, <1>6 DEF Meant, Tidy, Quiet
  <2>1. CASE q = Not(w, "MORE")
    <3>1. DOMAIN sent = {"pos", "req", "total"} /\ sent.pos = "sent" /\ sent.req = t.at[k].req /\ sent.total = t.at[k].total
      BY AtShape, <1>3, <1>6
    <3>2. Sends(t, k, t.at[k].req, sent, w)
      <4>1. Sends(t, k, At(t, k).req, sent, w)
        <5>. HIDE DEF sent
        <5>. QED
          BY <1>0, <3>1, SendDoes
      <4>. QED
        BY <1>3, <1>6, <4>1
    <3>. HIDE DEF w, sent
    <3>3. sent.pos = Waiting(k) /\ Fresh(t, k, sent.req)
      BY <2>0, <3>1 DEF Waiting
    <3>4. Tidy(w, held, c, lost) /\ Kin(t, k, w)
      BY <1>3, <1>4, <1>6, <2>0, <3>1, <3>2, <3>3, SendsTidy
    <3>5. DOMAIN w.at \subseteq {k}
      BY <3>4 DEF Tidy
    <3>. QED
      BY <1>2, <2>1, <3>4, <3>5 DEF TidyAsk
  <2>2. CASE q = Not(t, "EAGAIN")
    <3>1. q.f = t /\ q.rc = "EAGAIN"
      BY <1>2, <2>2
    <3>2. Kin(t, k, t)
      BY DEF Kin
    <3>. QED
      BY <1>0, <1>3, <1>6, <2>0, <3>1, <3>2 DEF TidyAsk
  <2>3. CASE q = Not(Leave(t, k), "FAIL")
    <3> DEFINE v == Leave(t, k)
    <3>1. Gone(t, v, k)
      BY <1>0, LeaveDoes
    <3>2. q.f = v /\ q.rc = "FAIL"
      BY <1>2, <2>3
    <3>. HIDE DEF v
    <3>3. Kin(t, k, v) /\ DOMAIN v.at \subseteq {k}
      BY <1>0, <3>1 DEF Gone, Elsewhere, Steady, Kin
    <3>. QED
      BY <1>3, <1>6, <3>2, <3>3 DEF TidyAsk
  <2>. QED
    BY <1>1, <1>6, <2>1, <2>2, <2>3
<1>7. CASE At(t, k).pos = "sent"
  <2>0. Coming(t, held, k)
    BY <1>4, <1>7 DEF Tidy
  <2>1. Comes(t, held, k, a)
    <3>1. CASE k[1] \in Choosers
      <4>1. id = t.request_id - 1
        BY <1>3, <1>7, <3>1 DEF Meant, Fresh, Choosers
      <4>0. Len(types) = 2 /\ Types(k) = ToSet(types)
        BY <3>1 DEF Fitting
      <4>2. a = Requirev(t, types, t.request_id - 1, net) /\ Types(k) = ToSet(types)
        <5>1. a = Requirev(t, types, id, net)
          BY <4>0 DEF Answered
        <5>. HIDE DEF a
        <5>. QED
          BY <4>0, <4>1, <5>1
      <4>. QED
        BY <1>0, <2>0, <3>1, <4>2, RequirevComes
    <3>2. CASE k[1] \notin Choosers
      <4>1. types = <<"STATUS">> /\ Types(k) = {"STATUS"}
        BY <3>2 DEF Fitting
      <4>2. a = Require(t, "STATUS", id, net)
        BY <4>1 DEF Answered
      <4>. HIDE DEF a, id
      <4>. QED
        BY <1>0, <2>0, <3>2, <4>1, <4>2, RequireComes
    <3>. QED
      BY <3>1, <3>2
  <2>2. DOMAIN a = {"f", "rc", "p"}
    <3>1. Len(types) \in {1, 2}
      BY DEF Fitting
    <3>. QED
      BY <3>1, AnsweredShape
  <2>. HIDE DEF q, a
  <2>3. CASE a.rc \in {"MORE", "WAIT", "EAGAIN"} /\ q = a
    <3>1. a.rc = "MORE" => Tidy(a.f, held, c, lost)
      BY <1>4, <1>7, <2>1, WaitsTidy DEF Comes
    <3>2. Kin(t, k, a.f) /\ DOMAIN a.f.at \subseteq {k}
      BY <1>0, <2>1 DEF Comes
    <3>3. a.rc = "EAGAIN" => a.f = t /\ t.packets = <<>>
      BY <2>1 DEF Comes
    <3>4. a.rc = "WAIT" => a.f = t
      BY <2>1 DEF Comes
    <3>. QED
      BY <1>3, <1>7, <2>3, <3>1, <3>2, <3>3, <3>4 DEF TidyAsk
  <2>4. CASE a.rc \notin {"MORE", "WAIT", "EAGAIN"} /\ q = [a EXCEPT !.f = Leave(a.f, k)]
    <3> DEFINE v == Leave(a.f, k)
    <3>1. Gone(a.f, v, k)
      BY <2>1, LeaveDoes DEF Comes, Kept
    <3>4. q.f = v /\ q.rc = a.rc /\ q.p = a.p
      BY <2>2, <2>4 DEF v
    <3>. HIDE DEF v
    <3>2. Kin(t, k, v) /\ DOMAIN v.at = {}
      BY <1>0, <2>1, <3>1 DEF Gone, Elsewhere, Steady, Kin, Comes
    <3>3. CASE a.rc = ""
      <4>1. Framed(a.f) /\ a.p.type \in Types(k) /\ Settled(held, k, a.f, a.p)
        BY <2>1, <3>3 DEF Comes
      <4>2. Steady(a.f, v) /\ Kept(t, a.f)
        BY <2>1, <3>1 DEF Gone, Elsewhere, Comes
      <4>3. Settled(held, k, v, a.p)
        BY <4>1, <4>2, SettledSteady
      <4>4. Framed(v) /\ v.request_id = t.request_id /\ v.version = t.version
        BY <4>1, <4>2 DEF Framed, Steady, Kept
      <4>. QED
        BY <3>2, <3>3, <3>4, <4>1, <4>3, <4>4 DEF TidyAsk
    <3>5. CASE a.rc # ""
      <4>1. a.rc \in {"FAIL", "TIMEOUT"}
        BY <2>1, <2>4, <3>5 DEF Comes
      <4>. QED
        BY <1>3, <1>7, <3>2, <3>4, <4>1 DEF TidyAsk
    <3>. QED
      BY <3>3, <3>5
  <2>. QED
    BY <1>1, <1>7, <2>3, <2>4
<1>. QED
  BY <1>5, <1>6, <1>7

-----------------------------------------------------------------------------
(* The functions. *)

\* No function has a place, and nothing is on its way.
Rest(u, held) == DOMAIN u.at = {} /\ Quiet(u, held) /\ Framed(u)

\* What a step of the call c may do while no request has been given up.
TidyStep(t, held, c, lost, rc, u) ==
  LET k == SlotOf(c) IN
  /\ Kin(t, k, u)
  /\ \/ rc = "MORE" /\ Tidy(u, held, c, lost)
     \/ rc = "WAIT"
     \/ /\ rc = "EAGAIN" /\ k \in DOMAIN t.at /\ k \in DOMAIN u.at /\ u.packets = <<>>
        /\ Tidy(u, held, c, lost \cup (IF c.op = "mkdir" THEN {u.at[k].req.id} \ {t.at[k].req.id} ELSE {}))
     \/ rc \in {"FAIL", "TIMEOUT"} /\ k \in DOMAIN t.at
     \/ rc \in {"", "DENIED", "FAIL"} /\ Rest(u, held)

\* A step of the call c.
Good(t, held, c, lost, r) ==
  /\ SafeStep(t, SlotOf(c), r.rc, r.f)
  /\ Tidy(t, held, c, lost) => TidyStep(t, held, c, lost, r.rc, r.f)

\* What is made of an answer changes neither places nor packets.
Told(q, r) ==
  IF q.rc # "" THEN r.f = q.f /\ r.rc = q.rc
  ELSE (Formed(q.f) => Alike(q.f, r.f)) /\ r.rc \in {"", "DENIED", "MORE"}

\* At rest any call may be the next.
LEMMA RestTidy ==
  ASSUME NEW u, NEW held, Rest(u, held), NEW c, NEW lost
  PROVE  Tidy(u, held, c, lost)
  BY DEF Rest, Tidy, Waits

\* A step stays safe when something else is changed after it.
LEMMA AlikeSafe ==
  ASSUME NEW t, NEW k, NEW rc, NEW u, SafeStep(t, k, rc, u), NEW v, Alike(u, v), NEW rc2,
         rc = "EAGAIN" => rc2 = "EAGAIN"
  PROVE  SafeStep(t, k, rc2, v)
<1>1. /\ v.request_id = u.request_id /\ v.mkdir_request_id = u.mkdir_request_id /\ v.packets = u.packets
      /\ v.at = u.at /\ v.answered = u.answered /\ v.call.phase = u.call.phase /\ Formed(v)
  BY DEF Alike, Steady, Kept
<1>2. Safe(v)
  BY <1>1 DEF SafeStep, Safe, SlotOK
<1>3. Handling(v) <=> Handling(u)
  BY <1>1 DEF Handling
<1>4. Waits(v, k) <=> Waits(u, k)
  BY <1>1 DEF Waits
<1>. QED
  BY <1>1, <1>2, <1>3, <1>4 DEF SafeStep

\* What is at rest stays so.
LEMMA AlikeRest ==
  ASSUME NEW u, NEW held, Rest(u, held), NEW v, Alike(u, v)
  PROVE  Rest(v, held)
  BY DEF Rest, Quiet, Framed, Alike, Steady, Kept

\* Two such changes, one after the other.
LEMMA AlikeAlike ==
  ASSUME NEW t, NEW u, NEW v, Alike(t, u), Alike(u, v)
  PROVE  Alike(t, v)
  BY DEF Alike, Steady, Kept

\* None is one, too.
LEMMA AlikeItself ==
  ASSUME NEW t, Formed(t)
  PROVE  Alike(t, t)
  BY DEF Alike, Steady, Kept

\* What is made of an answer keeps a state safe,
LEMMA ToldSafe ==
  ASSUME NEW t, NEW k, NEW q, Exchanged(t, k, q), NEW r, Told(q, r)
  PROVE  SafeStep(t, k, r.rc, r.f)
<1>1. CASE q.rc # ""
  BY <1>1 DEF Told, Exchanged
<1>2. CASE q.rc = ""
  <2>1. SafeStep(t, k, "", q.f) /\ Formed(q.f)
    BY <1>2 DEF Exchanged, SafeStep, Safe
  <2>2. Alike(q.f, r.f)
    BY <1>2, <2>1 DEF Told
  <2> DEFINE none == ""
  <2>3. SafeStep(t, k, none, q.f) /\ none # "EAGAIN"
    BY <2>1
  <2>. HIDE DEF none
  <2>. QED
    BY <2>2, <2>3, AlikeSafe
<1>. QED
  BY <1>1, <1>2

\* and leaves nothing on its way, unless open waits for its handle.
LEMMA ToldTidy ==
  ASSUME NEW t, NEW held, NEW c, NEW lost, Tidy(t, held, c, lost),
         NEW q, SlotOf(c)[1] # "open" \/ q.rc # "", Formed(q.f), TidyAsk(t, held, c, lost, q), NEW r, Told(q, r)
  PROVE  TidyStep(t, held, c, lost, r.rc, r.f)
<1> DEFINE k == SlotOf(c)
<1>1. Kin(t, k, q.f)
  BY DEF TidyAsk
<1>. HIDE DEF k
<1>2. Kin(t, k, r.f)
  BY <1>1 DEF Told, Kin, Alike, Steady
<1>3. CASE q.rc = ""
  <2>1. Rest(q.f, held)
    BY <1>3 DEF TidyAsk, Rest, Settled, k
  <2>2. Rest(r.f, held)
    BY <1>3, <2>1, AlikeRest DEF Told
  <2>3. Tidy(r.f, held, c, lost)
    BY <2>2, RestTidy
  <2>4. r.rc \in {"", "DENIED", "MORE"}
    BY <1>3 DEF Told
  <2>. QED
    BY <1>2, <2>2, <2>3, <2>4 DEF TidyStep, k
<1>4. CASE q.rc = "EAGAIN"
  <2>1. r.f = t /\ r.rc = "EAGAIN" /\ t.packets = <<>> /\ k \in DOMAIN t.at
    BY <1>4 DEF Told, TidyAsk, k
  <2>2. lost \cup (IF c.op = "mkdir" THEN {t.at[k].req.id} \ {t.at[k].req.id} ELSE {}) = lost
    OBVIOUS
  <2>3. Tidy(r.f, held, c, lost \cup (IF c.op = "mkdir" THEN {r.f.at[k].req.id} \ {t.at[k].req.id} ELSE {}))
    BY <2>1, <2>2
  <2>. QED
    BY <1>2, <2>1, <2>3 DEF TidyStep, k
<1>5. CASE q.rc \notin {"", "EAGAIN"}
  <2>1. r.f = q.f /\ r.rc = q.rc
    BY <1>5 DEF Told
  <2>2. \/ q.rc = "MORE" /\ Tidy(q.f, held, c, lost)
        \/ q.rc = "WAIT"
        \/ q.rc \in {"FAIL", "TIMEOUT"} /\ k \in DOMAIN t.at
    BY <1>5 DEF TidyAsk, k
  <2>. QED
    BY <1>2, <2>1, <2>2 DEF TidyStep, k
<1>. QED
  BY <1>3, <1>4, <1>5

\* A status changes nothing but last_errno.
LEMMA VerdictDoes ==
  ASSUME NEW u, Formed(u), NEW p, NEW sets
  PROVE  Alike(u, Verdict(u, p, sets).f) /\ Verdict(u, p, sets).rc \in {"", "DENIED"}
  BY DEF Verdict, R, Alike, Steady, Kept, Formed, Fields

\* The functions that are not open ask for what fits, from one of three states.
LEMMA RequestGood ==
  ASSUME NEW t, Safe(t), ~Handling(t), NEW held, NEW c, NEW lost, NEW k, k = SlotOf(c),
         k[1] \notin {"init", "open", "seek", "shutdown"}, At(t, k).pos # "allocated", May(t, c),
         NEW req, {"id", "type"} \subseteq DOMAIN req, Fits(k, req),
         NEW T, NEW types \in Seq(T), Fitting(k, types), NEW net \in Nets,
         NEW r, Told(Exchange(t, k, req, types, net), r)
  PROVE  Good(t, held, c, lost, r)
<1> DEFINE q == Exchange(t, k, req, types, net)
<1>1. {"created", "sent"} \subseteq Positions(k) \cap Asking(k)
  BY DEF Positions, Asking
<1>2. At(t, k).pos \in {"idle", "created", "sent"}
  <2>1. CASE k \in DOMAIN t.at
    BY <2>1, AtShape DEF Safe, SlotOK, Positions
  <2>. QED
    BY <2>1, AtShape
<1>3. Len(types) \in {1, 2}
  BY DEF Fitting
<1>4. Exchanged(t, k, q)
  BY <1>1, <1>2, <1>3, ExchangeSafe
<1>5. Tidy(t, held, c, lost) => TidyAsk(t, held, c, lost, q)
  BY <1>2, ExchangeTidy
<1>. HIDE DEF q
<1>6. SafeStep(t, k, r.rc, r.f)
  BY <1>4, ToldSafe DEF q
<1>7. Tidy(t, held, c, lost) => TidyStep(t, held, c, lost, r.rc, r.f)
  <2>1. Formed(q.f)
    BY <1>4 DEF Exchanged, SafeStep, Safe
  <2>. QED
    BY <1>5, <2>1, ToldTidy DEF q
<1>. QED
  BY <1>6, <1>7 DEF Good

\* StatusRequest and
LEMMA StatusTold ==
  ASSUME NEW t, NEW k, NEW req, NEW sets, NEW net
  PROVE  Told(Exchange(t, k, req, <<"STATUS">>, net), StatusRequest(t, k, req, sets, net))
<1> DEFINE q == Exchange(t, k, req, <<"STATUS">>, net)
           r == StatusRequest(t, k, req, sets, net)
<1>1. r = IF q.rc = "" THEN Verdict(q.f, q.p, sets) ELSE R(q.f, q.rc)
  BY DEF StatusRequest
<1>. HIDE DEF q, r
<1>. SUFFICES Told(q, r)
  BY DEF q, r
<1>2. CASE q.rc # ""
  BY <1>1, <1>2 DEF R, Told
<1>3. CASE q.rc = ""
  <2>1. r.rc \in {"", "DENIED"}
    BY <1>1, <1>3 DEF Verdict, R
  <2>2. Formed(q.f) => Alike(q.f, r.f)
    BY <1>1, <1>3, VerdictDoes
  <2>. QED
    BY <1>3, <2>1, <2>2 DEF Told
<1>. QED
  BY <1>2, <1>3

\* ValueRequest make of an answer what Told says.
LEMMA ValueTold ==
  ASSUME NEW t, NEW k, NEW req, NEW type, NEW net
  PROVE  Told(Exchange(t, k, req, <<type, "STATUS">>, net), ValueRequest(t, k, req, type, net))
<1> DEFINE q == Exchange(t, k, req, <<type, "STATUS">>, net)
           r == ValueRequest(t, k, req, type, net)
<1>1. r = IF q.rc # "" THEN R(q.f, q.rc)
          ELSE IF q.p.type = "STATUS" THEN Verdict(q.f, q.p, TRUE)
          ELSE R(q.f, IF type = "NAME" /\ q.p.n < 1 THEN "DENIED" ELSE "")
  BY DEF ValueRequest
<1>. HIDE DEF q, r
<1>. SUFFICES Told(q, r)
  BY DEF q, r
<1>2. CASE q.rc # ""
  BY <1>1, <1>2 DEF R, Told
<1>3. CASE q.rc = "" /\ q.p.type = "STATUS"
  <2>1. r.rc \in {"", "DENIED"}
    BY <1>1, <1>3 DEF Verdict, R
  <2>2. Formed(q.f) => Alike(q.f, r.f)
    BY <1>1, <1>3, VerdictDoes
  <2>. QED
    BY <1>3, <2>1, <2>2 DEF Told
<1>4. CASE q.rc = "" /\ q.p.type # "STATUS"
  <2>1. r.f = q.f /\ r.rc \in {"", "DENIED"}
    BY <1>1, <1>4 DEF R
  <2>. QED
    BY <1>4, <2>1, AlikeItself DEF Told
<1>. QED
  BY <1>2, <1>3, <1>4

\* What follows an answer without an error may change what is alike.
LEMMA ToldFurther ==
  ASSUME NEW q, NEW r, Told(q, r), NEW s, r.rc # "" => s = r,
         r.rc = "" => s.rc = "" /\ (Formed(r.f) => Alike(r.f, s.f))
  PROVE  Told(q, s)
<1>1. CASE q.rc # "" \/ r.rc # ""
  BY <1>1 DEF Told
<1>2. CASE q.rc = "" /\ r.rc = ""
  <2>1. Formed(q.f) => Alike(q.f, r.f) /\ Alike(r.f, s.f)
    BY <1>2 DEF Told, Alike, Steady, Kept
  <2>2. Formed(q.f) => Alike(q.f, s.f)
    BY <2>1, AlikeAlike
  <2>. QED
    BY <1>2, <2>2 DEF Told
<1>. QED
  BY <1>1, <1>2

\* The types that the functions ask for are those that may come.
LEMMA TypesAsked ==
  ASSUME NEW k, NEW type
  PROVE  /\ k[1] \notin Choosers \cup {"init"} => Fitting(k, <<"STATUS">>)
         /\ k[1] \in Choosers /\ Types(k) = {type, "STATUS"} => Fitting(k, <<type, "STATUS">>)
         /\ <<"STATUS">> \in Seq({"STATUS"})
         /\ <<type, "STATUS">> \in Seq({type, "STATUS"})
<1>1. Len(<<type, "STATUS">>) = 2 /\ ToSet(<<type, "STATUS">>) = {type, "STATUS"}
  BY DEF ToSet
<1>2. k[1] \notin Choosers \cup {"init"} => Types(k) = {"STATUS"}
  BY DEF Types, Choosers
<1>3. <<"STATUS">> \in Seq({"STATUS"})
  BY OneIsList
<1>4. <<type, "STATUS">> \in Seq({type, "STATUS"})
  OBVIOUS
<1>. QED
  BY <1>1, <1>2, <1>3, <1>4 DEF Fitting

\* What a request has.
LEMMA RequestShape ==
  ASSUME NEW type, NEW of, NEW n, NEW from, NEW what
  PROVE  {"id", "type"} \subseteq DOMAIN Request(type, of, n, from, what)
         /\ Request(type, of, n, from, what).type = type
  BY DEF Request, Packet

\* unlink, rename, mkdir, rmdir, write and close_handle
LEMMA StatusGood ==
  ASSUME NEW t, Safe(t), ~Handling(t), NEW held, NEW c, NEW lost, NEW k, k = SlotOf(c),
         k[1] \in {"unlink", "rename", "mkdir", "rmdir", "write", "close"}, May(t, c),
         NEW type \in {"REMOVE", "RENAME", "MKDIR", "RMDIR", "WRITE", "CLOSE"},
         NEW of, NEW n, NEW from, NEW what, NEW sets, NEW net \in Nets, NEW r,
         Told(Exchange(t, k, Request(type, of, n, from, what), <<"STATUS">>, net), r)
  PROVE  Good(t, held, c, lost, r)
<1> DEFINE req == Request(type, of, n, from, what)
<1>1. {"id", "type"} \subseteq DOMAIN req /\ req.type = type
  BY RequestShape
<1>. HIDE DEF req
<1>2. Fits(k, req)
  BY <1>1 DEF Fits, Replies, Types
<1>3. At(t, k).pos # "allocated"
  <2>1. CASE k \in DOMAIN t.at
    BY <2>1, AtShape DEF Safe, SlotOK, Positions
  <2>. QED
    BY <2>1, AtShape
<1>4. Fitting(k, <<"STATUS">>) /\ <<"STATUS">> \in Seq({"STATUS"})
  BY TypesAsked DEF Choosers
<1>5. Told(Exchange(t, k, req, <<"STATUS">>, net), r)
  BY DEF req
<1>. QED
  BY <1>1, <1>2, <1>3, <1>4, <1>5, RequestGood

\* stat, fstat, symlink and readdir
LEMMA ValueGood ==
  ASSUME NEW t, Safe(t), ~Handling(t), NEW held, NEW c, NEW lost, NEW k, k = SlotOf(c),
         k[1] \in {"stat", "fstat", "symlink", "readdir", "read"}, May(t, c), At(t, k).pos # "allocated",
         NEW type, Types(k) = {type, "STATUS"},
         NEW kind, Replies(kind) \subseteq {type, "STATUS"}, kind \notin {"OPEN", "OPENDIR"},
         NEW of, NEW n, NEW from, NEW what, NEW net \in Nets, NEW r,
         Told(Exchange(t, k, Request(kind, of, n, from, what), <<type, "STATUS">>, net), r)
  PROVE  Good(t, held, c, lost, r)
<1> DEFINE req == Request(kind, of, n, from, what)
<1>1. {"id", "type"} \subseteq DOMAIN req /\ req.type = kind
  BY RequestShape
<1>. HIDE DEF req
<1>2. Fits(k, req)
  BY <1>1 DEF Fits
<1>4. Fitting(k, <<type, "STATUS">>) /\ <<type, "STATUS">> \in Seq({type, "STATUS"})
  BY TypesAsked DEF Choosers
<1>5. Told(Exchange(t, k, req, <<type, "STATUS">>, net), r)
  BY DEF req
<1>. QED
  BY <1>1, <1>2, <1>4, <1>5, RequestGood

\* libssh2_sftp_unlink_ex
LEMMA UnlinkGood ==
  ASSUME NEW t, Safe(t), ~Handling(t), NEW held, NEW c, c.op = "unlink", NEW lost, NEW path, NEW net \in Nets
  PROVE  Good(t, held, c, lost, Unlink(t, path, net))
<1> DEFINE k == <<"unlink", 0>>
<1>1. k = SlotOf(c) /\ k[1] = "unlink"
  BY DEF SlotOf
<1>2. May(t, c)
  BY <1>1 DEF May
<1>. HIDE DEF k
<1>3. Told(Exchange(t, k, Request("REMOVE", path, 0, 0, ""), <<"STATUS">>, net), Unlink(t, path, net))
  BY StatusTold DEF Unlink, k
<1>. QED
  BY <1>1, <1>2, <1>3, StatusGood

\* libssh2_sftp_rmdir_ex
LEMMA RmdirGood ==
  ASSUME NEW t, Safe(t), ~Handling(t), NEW held, NEW c, c.op = "rmdir", NEW lost, NEW path, NEW net \in Nets
  PROVE  Good(t, held, c, lost, Rmdir(t, path, net))
<1> DEFINE k == <<"rmdir", 0>>
<1>1. k = SlotOf(c) /\ k[1] = "rmdir"
  BY DEF SlotOf
<1>2. May(t, c)
  BY <1>1 DEF May
<1>. HIDE DEF k
<1>3. Told(Exchange(t, k, Request("RMDIR", path, 0, 0, ""), <<"STATUS">>, net), Rmdir(t, path, net))
  BY StatusTold DEF Rmdir, k
<1>. QED
  BY <1>1, <1>2, <1>3, StatusGood

\* A call that is refused at once has no place.
LEMMA RefusedGood ==
  ASSUME NEW t, Safe(t), ~Handling(t), NEW held, NEW c, NEW lost,
         Tidy(t, held, c, lost) => SlotOf(c) \notin DOMAIN t.at, NEW r, r.f = t, r.rc = "DENIED"
  PROVE  Good(t, held, c, lost, r)
<1>1. SafeStep(t, SlotOf(c), r.rc, t)
  BY StaysSafely
<1>2. ASSUME Tidy(t, held, c, lost) PROVE Rest(t, held) /\ Kin(t, SlotOf(c), t)
  BY <1>2 DEF Tidy, Rest, Waits, Kin
<1>. QED
  BY <1>1, <1>2 DEF Good, TidyStep

\* libssh2_sftp_rename_ex, also for a server that is too old for it
LEMMA RenameGood ==
  ASSUME NEW t, Safe(t), ~Handling(t), NEW held, NEW c, c.op = "rename", NEW lost, NEW path, NEW net \in Nets
  PROVE  Good(t, held, c, lost, Rename(t, path, net))
<1> DEFINE k == <<"rename", 0>>
           r == Rename(t, path, net)
<1>1. k = SlotOf(c) /\ k[1] = "rename"
  BY DEF SlotOf
<1>2. CASE t.version < 2
  <2>1. r.f = t /\ r.rc = "DENIED"
    BY <1>2 DEF Rename, R
  <2>2. Tidy(t, held, c, lost) => k \notin DOMAIN t.at
    <3>. HIDE DEF k
    <3>. QED
      BY <1>1, <1>2 DEF Tidy, Meant
  <2>. HIDE DEF r, k
  <2>. QED
    BY <1>1, <2>1, <2>2, RefusedGood DEF r
<1>3. CASE ~(t.version < 2)
  <2>1. May(t, c)
    BY <1>1, <1>3 DEF May
  <2>. HIDE DEF k
  <2>2. Told(Exchange(t, k, Request("RENAME", path, 0, 0, ""), <<"STATUS">>, net), Rename(t, path, net))
    BY <1>3, StatusTold DEF Rename, k
  <2>. QED
    BY <1>1, <2>1, <2>2, StatusGood
<1>. QED
  BY <1>2, <1>3

\* stat and fstat, and symlink when it may be asked for
LEMMA StatGood ==
  ASSUME NEW t, Safe(t), ~Handling(t), NEW held, NEW c, c.op = "stat", NEW lost, NEW path,
         NEW type \in {"STAT", "LSTAT", "SETSTAT"}, NEW net \in Nets
  PROVE  Good(t, held, c, lost, Stat(t, path, type, net))
<1> DEFINE k == <<"stat", 0>>
<1>1. k = SlotOf(c) /\ k[1] = "stat"
  BY DEF SlotOf
<1>2. May(t, c) /\ Types(k) = {"ATTRS", "STATUS"} /\ At(t, k).pos # "allocated"
  <2>1. k \in DOMAIN t.at => t.at[k].pos # "allocated"
    BY DEF Safe, SlotOK, Positions
  <2>. HIDE DEF k
  <2>. QED
    BY <1>1, <2>1, AtShape DEF May, Types
<1>. HIDE DEF k
<1>3. Replies(type) \subseteq {"ATTRS", "STATUS"} /\ type \notin {"OPEN", "OPENDIR"}
  BY DEF Replies
<1>4. Told(Exchange(t, k, Request(type, path, 0, 0, ""), <<"ATTRS", "STATUS">>, net), Stat(t, path, type, net))
  BY ValueTold DEF Stat, k
<1>. QED
  BY <1>1, <1>2, <1>3, <1>4, ValueGood

\* libssh2_sftp_fstat_ex
LEMMA FstatGood ==
  ASSUME NEW t, Safe(t), ~Handling(t), NEW held, NEW c, c.op = "fstat", NEW lost, NEW h,
         NEW type \in {"FSTAT", "FSETSTAT"}, NEW net \in Nets
  PROVE  Good(t, held, c, lost, Fstat(t, h, type, net))
<1> DEFINE k == <<"fstat", 0>>
<1>1. k = SlotOf(c) /\ k[1] = "fstat"
  BY DEF SlotOf
<1>2. May(t, c) /\ Types(k) = {"ATTRS", "STATUS"} /\ At(t, k).pos # "allocated"
  <2>1. k \in DOMAIN t.at => t.at[k].pos # "allocated"
    BY DEF Safe, SlotOK, Positions
  <2>. HIDE DEF k
  <2>. QED
    BY <1>1, <2>1, AtShape DEF May, Types
<1>. HIDE DEF k
<1>3. Replies(type) \subseteq {"ATTRS", "STATUS"} /\ type \notin {"OPEN", "OPENDIR"}
  BY DEF Replies
<1>4. Told(Exchange(t, k, Request(type, t.handles[h].of, 0, 0, ""), <<"ATTRS", "STATUS">>, net), Fstat(t, h, type, net))
  BY ValueTold DEF Fstat, k
<1>. QED
  BY <1>1, <1>2, <1>3, <1>4, ValueGood

\* libssh2_sftp_symlink_ex, also for a server that is too old for it
LEMMA SymlinkGood ==
  ASSUME NEW t, Safe(t), ~Handling(t), NEW held, NEW c, c.op = "symlink", NEW lost, NEW path,
         c.arg \in {"SYMLINK", "READLINK", "REALPATH"}, NEW net \in Nets
  PROVE  Good(t, held, c, lost, Symlink(t, path, c.arg, net))
<1> DEFINE k == <<"symlink", 0>>
           r == Symlink(t, path, c.arg, net)
<1>1. k = SlotOf(c) /\ k[1] = "symlink"
  BY DEF SlotOf
<1>2. CASE t.version < 3 /\ c.arg # "REALPATH"
  <2>1. r.f = t /\ r.rc = "DENIED"
    BY <1>2 DEF Symlink, R
  <2>2. Tidy(t, held, c, lost) => k \notin DOMAIN t.at
    <3>. HIDE DEF k
    <3>. QED
      BY <1>1, <1>2 DEF Tidy, Meant
  <2>. HIDE DEF r, k
  <2>. QED
    BY <1>1, <2>1, <2>2, RefusedGood DEF r
<1>3. CASE ~(t.version < 3 /\ c.arg # "REALPATH")
  <2>1. May(t, c)
    BY <1>1, <1>3 DEF May
  <2>2. Types(k) = {"NAME", "STATUS"} /\ At(t, k).pos # "allocated"
    <3>1. k \in DOMAIN t.at => t.at[k].pos # "allocated"
      BY DEF Safe, SlotOK, Positions
    <3>. HIDE DEF k
    <3>. QED
      BY <1>1, <3>1, AtShape DEF Types
  <2>. HIDE DEF k
  <2>3. Replies(c.arg) \subseteq {"NAME", "STATUS"} /\ c.arg \notin {"OPEN", "OPENDIR"}
    BY DEF Replies
  <2>4. Told(Exchange(t, k, Request(c.arg, path, 0, 0, ""), <<"NAME", "STATUS">>, net), Symlink(t, path, c.arg, net))
    BY <1>3, ValueTold DEF Symlink, k
  <2>. QED
    BY <1>1, <2>1, <2>2, <2>3, <2>4, ValueGood
<1>. QED
  BY <1>2, <1>3

\* libssh2_sftp_write
LEMMA WriteGood ==
  ASSUME NEW t, Safe(t), ~Handling(t), NEW held, NEW c, c.op = "write", NEW lost, NEW h, NEW n, NEW what,
         NEW net \in Nets
  PROVE  Good(t, held, c, lost, Write(t, h, n, what, net))
<1> DEFINE k == <<"write", 0>>
           req == Request("WRITE", t.handles[h].of, n, t.handles[h].offset, what)
           r == StatusRequest(t, k, req, TRUE, net)
           s == Write(t, h, n, what, net)
<1>1. k = SlotOf(c) /\ k[1] = "write"
  BY DEF SlotOf
<1>2. May(t, c)
  BY <1>1 DEF May
<1>3. Told(Exchange(t, k, req, <<"STATUS">>, net), r)
  BY StatusTold
<1>4. s = IF r.rc = "" THEN R([r.f EXCEPT !.handles[h].offset = @ + n], "") ELSE r
  BY DEF Write
<1>5. Told(Exchange(t, k, req, <<"STATUS">>, net), s)
  <2>. HIDE DEF k, r, s, req
  <2>1. r.rc = "" => s.rc = "" /\ (Formed(r.f) => Alike(r.f, s.f))
    BY <1>4 DEF R, Alike, Steady, Kept, Formed, Fields
  <2>. QED
    BY <1>3, <1>4, <2>1, ToldFurther
<1>. HIDE DEF k, s
<1>. QED
  BY <1>1, <1>2, <1>5, StatusGood DEF s

\* libssh2_sftp_close_handle, which has a place of its own in every handle
LEMMA CloseHandleGood ==
  ASSUME NEW t, Safe(t), ~Handling(t), NEW held, NEW c, c.op = "close", NEW lost, NEW net \in Nets
  PROVE  Good(t, held, c, lost, CloseHandle(t, c.of, net))
<1> DEFINE k == <<"close", c.of>>
           req == Request("CLOSE", t.handles[c.of].of, 0, 0, "")
           r == StatusRequest(t, k, req, TRUE, net)
           s == CloseHandle(t, c.of, net)
<1>1. k = SlotOf(c) /\ k[1] = "close"
  BY DEF SlotOf
<1>2. May(t, c)
  BY <1>1 DEF May
<1>3. Told(Exchange(t, k, req, <<"STATUS">>, net), r)
  BY StatusTold
<1>4. s = IF r.rc = "" THEN R([r.f EXCEPT !.handles[c.of].freed = TRUE], "") ELSE r
  BY DEF CloseHandle
<1>5. Told(Exchange(t, k, req, <<"STATUS">>, net), s)
  <2>. HIDE DEF k, r, s, req
  <2>1. r.rc = "" => s.rc = "" /\ (Formed(r.f) => Alike(r.f, s.f))
    BY <1>4 DEF R, Alike, Steady, Kept, Formed, Fields
  <2>. QED
    BY <1>3, <1>4, <2>1, ToldFurther
<1>. HIDE DEF k, s
<1>. QED
  BY <1>1, <1>2, <1>5, StatusGood DEF s

\* A call that does nothing here but to answer has no place.
LEMMA AlikeGood ==
  ASSUME NEW t, Safe(t), ~Handling(t), NEW held, NEW c, NEW lost,
         Tidy(t, held, c, lost) => SlotOf(c) \notin DOMAIN t.at, NEW r, Alike(t, r.f), r.rc = ""
  PROVE  Good(t, held, c, lost, r)
<1>1. SafeStep(t, SlotOf(c), r.rc, r.f)
  BY StaysSafely, AlikeSafe
<1>2. ASSUME Tidy(t, held, c, lost) PROVE Rest(r.f, held) /\ Kin(t, SlotOf(c), r.f)
  <2>1. Rest(t, held)
    BY <1>2 DEF Tidy, Rest, Waits
  <2>2. Kin(t, SlotOf(c), r.f)
    BY DEF Kin, Alike, Steady
  <2>. QED
    BY <2>1, <2>2, AlikeRest
<1>. QED
  BY <1>1, <1>2 DEF Good, TidyStep

\* libssh2_sftp_seek
LEMMA SeekGood ==
  ASSUME NEW t, Safe(t), ~Handling(t), NEW held, NEW c, c.op = "seek", NEW lost, NEW h, NEW offset
  PROVE  Good(t, held, c, lost, Seek(t, h, offset))
<1> DEFINE k == <<"seek", 0>>
           r == Seek(t, h, offset)
<1>1. k = SlotOf(c) /\ k[1] = "seek"
  BY DEF SlotOf
<1>2. k \notin DOMAIN t.at
  BY <1>1 DEF Safe, SlotOK, Positions
<1>3. Alike(t, r.f) /\ r.rc = ""
  BY SafeIds DEF Seek, R, Alike, Steady, Kept, Formed, Fields
<1>. HIDE DEF k, r
<1>. QED
  BY <1>1, <1>2, <1>3, AlikeGood DEF r

\* The end of a file or of a directory is an answer, too.
LEMMA EndsTold ==
  ASSUME NEW q, q.rc = "", NEW r, r = IF q.p.what = "EOF" THEN R(q.f, "") ELSE Verdict(q.f, q.p, TRUE)
  PROVE  Told(q, r)
<1>1. R(q.f, "").f = q.f /\ R(q.f, "").rc = ""
  BY DEF R
<1>2. Verdict(q.f, q.p, TRUE).rc \in {"", "DENIED"}
  BY ONLY DEF Verdict, R
<1>3. /\ Formed(q.f) => Alike(q.f, R(q.f, "").f)
      /\ Formed(q.f) => Alike(q.f, Verdict(q.f, q.p, TRUE).f)
  BY <1>1, VerdictDoes, AlikeItself
<1>. QED
  BY <1>1, <1>2, <1>3 DEF Told

\* libssh2_sftp_readdir_ex
LEMMA ReaddirGood ==
  ASSUME NEW t, Safe(t), ~Handling(t), NEW held, NEW c, c.op = "readdir", NEW lost, NEW h, NEW net \in Nets
  PROVE  Good(t, held, c, lost, Readdir(t, h, net))
<1> DEFINE k == <<"readdir", 0>>
           r == Readdir(t, h, net)
           left == t.handles[h].names
           req == Request("READDIR", t.handles[h].of, 0, 0, "")
           q == Exchange(t, k, req, <<"NAME", "STATUS">>, net)
           names == [i \in 1..q.p.n |-> <<q.p.of, q.p.from + i>>]
           ends == IF q.p.what = "EOF" THEN R(q.f, "") ELSE Verdict(q.f, q.p, TRUE)
           gives == IF Len(names) > 1 THEN R([q.f EXCEPT !.handles[h].names = names], "MORE")
                                      ELSE R([q.f EXCEPT !.call.got = names], "")
<1>1. k = SlotOf(c) /\ k[1] = "readdir"
  BY DEF SlotOf
<1>2. CASE At(t, k).pos = "idle" /\ left # <<>>
  <2>1. r = R([t EXCEPT !.handles[h].names = Tail(@), !.call.got = <<Head(left)>>], "")
    BY <1>2 DEF Readdir
  <2>2. Alike(t, r.f) /\ r.rc = ""
    <3>. HIDE DEF r
    <3>. QED
      BY <2>1, SafeIds DEF R, Alike, Steady, Kept, Formed, Fields
  <2>3. k \notin DOMAIN t.at
    BY <1>2, AtShape
  <2>. HIDE DEF k, r
  <2>. QED
    BY <1>1, <2>2, <2>3, AlikeGood DEF r
<1>3. CASE ~(At(t, k).pos = "idle" /\ left # <<>>)
  <2>1. r = IF q.rc # "" THEN R(q.f, q.rc) ELSE IF q.p.type = "NAME" THEN gives ELSE ends
    BY <1>3 DEF Readdir
  <2>2. Told(q, r)
    <3>. HIDE DEF q, r
    <3>1. CASE q.rc # ""
      BY <2>1, <3>1 DEF Told, R
    <3>2. CASE q.rc = "" /\ q.p.type = "NAME"
      <4>. HIDE DEF names
      <4>1. CASE r = R([q.f EXCEPT !.handles[h].names = names], "MORE")
        <5>1. Formed(q.f) => Alike(q.f, r.f)
          BY <4>1 DEF R, Alike, Steady, Kept, Formed, Fields
        <5>. QED
          BY <3>2, <4>1, <5>1 DEF Told, R
      <4>2. CASE r = R([q.f EXCEPT !.call.got = names], "")
        <5>1. Formed(q.f) => Alike(q.f, r.f)
          BY <4>2 DEF R, Alike, Steady, Kept, Formed, Fields
        <5>. QED
          BY <3>2, <4>2, <5>1 DEF Told, R
      <4>. QED
        BY <2>1, <3>2, <4>1, <4>2
    <3>3. CASE q.rc = "" /\ q.p.type # "NAME"
      <4>. QED
        BY <2>1, <3>3, EndsTold
    <3>. QED
      BY <3>1, <3>2, <3>3
  <2>3. May(t, c) /\ Types(k) = {"NAME", "STATUS"} /\ At(t, k).pos # "allocated"
    <3>1. k \in DOMAIN t.at => t.at[k].pos # "allocated"
      BY DEF Safe, SlotOK, Positions
    <3>. HIDE DEF k
    <3>. QED
      BY <1>1, <3>1, AtShape DEF May, Types
  <2>4. Replies("READDIR") \subseteq {"NAME", "STATUS"}
    BY DEF Replies
  <2>. HIDE DEF k, r
  <2>. QED
    BY <1>1, <2>2, <2>3, <2>4, ValueGood DEF r
<1>. QED
  BY <1>2, <1>3

\* A place where no request is kept is taken.
LEMMA PlacesSafely ==
  ASSUME NEW t, NEW k, NEW rc, NEW u, SafeStep(t, k, rc, u),
         NEW to, DOMAIN to = {"pos", "req", "total"}, to.pos \in Positions(k) \ Asking(k),
         "id" \in DOMAIN to.req, to.req.id \in 0..u.request_id,
         NEW v, Placed(u, v, k, to), NEW rc2
  PROVE  SafeStep(t, k, rc2, v)
<1>1. /\ v.request_id = u.request_id /\ v.mkdir_request_id = u.mkdir_request_id /\ v.packets = u.packets
      /\ v.answered = u.answered /\ ~Handling(v) /\ Formed(v) /\ v.at[k] = to
      /\ \A j \in DOMAIN v.at \ {k} : j \in DOMAIN u.at /\ v.at[j] = u.at[j]
  BY DEF Placed, Elsewhere, Steady, Kept, Handling
<1>2. Safe(u) /\ u.request_id \in Nat
  BY DEF SafeStep, Safe
<1>3. SlotOK(v, k)
  BY <1>1 DEF SlotOK
<1>4. Safe(v)
  <2>1. /\ v.request_id \in Nat /\ u.request_id <= v.request_id /\ v.mkdir_request_id \in 0..v.request_id
        /\ IsList(v.packets)
    BY <1>1, <1>2, SafeIds
  <2>. QED
    BY <1>1, <1>2, <1>3, <2>1, PlaceSafe
<1>5. v.at[k].pos \notin Asking(k)
  BY <1>1
<1>6. t.request_id <= v.request_id
  BY <1>1 DEF SafeStep
<1>7. \A j \in DOMAIN v.at \ {k} : j \in DOMAIN t.at /\ v.at[j] = t.at[j]
  BY <1>1 DEF SafeStep
<1>8. \A x \in v.answered :
        \/ x \in t.answered
        \/ /\ k \in DOMAIN t.at /\ t.at[k].pos \in Asking(k)
           /\ x[1] = t.at[k].req.id /\ LooksLike(x[1], x[2])
  BY <1>1 DEF SafeStep
<1>. QED
  BY <1>1, <1>4, <1>5, <1>6, <1>7, <1>8 DEF SafeStep

\* read has a place for as long as it wants more.
LEMMA AllocatesSafely ==
  ASSUME NEW t, NEW k, k[1] = "read", NEW rc, NEW u, SafeStep(t, k, rc, u),
         NEW to, DOMAIN to = {"pos", "req", "total"}, to.pos = "allocated", to.req = Idle.req,
         NEW v, Placed(u, v, k, to)
  PROVE  SafeStep(t, k, "MORE", v)
<1>1. "id" \in DOMAIN Idle.req /\ Idle.req.id = 0
  BY DEF Idle, Status, Packet
<1>2. u.request_id \in Nat
  BY DEF SafeStep, Safe
<1>3. to.pos \in Positions(k) \ Asking(k)
  BY DEF Positions, Asking
<1>4. "id" \in DOMAIN to.req /\ to.req.id \in 0..u.request_id
  BY <1>1, <1>2
<1>. QED
  BY <1>3, <1>4, PlacesSafely

\* read has a place before it has made a request.
LEMMA AllocatesTidy ==
  ASSUME NEW u, NEW held, Rest(u, held), NEW c, NEW lost, NEW k, k = SlotOf(c), k[1] = "read",
         NEW to, to.pos = "allocated", NEW v, Placed(u, v, k, to)
  PROVE  Tidy(v, held, c, lost)
<1>1. /\ DOMAIN v.at = {k} /\ v.at[k].pos = "allocated" /\ Quiet(v, held) /\ Framed(v)
  BY DEF Rest, Placed, Elsewhere, Steady, Kept, Quiet, Framed
<1>2. ~Waits(v, k)
  BY <1>1 DEF Waits, Waiting
<1>3. Meant(v, k, c, lost)
  BY <1>1 DEF Meant
<1>. QED
  BY <1>1, <1>2, <1>3 DEF Tidy

\* libssh2_sftp_read, one piece after the other
LEMMA ReadGood ==
  ASSUME NEW t, Safe(t), ~Handling(t), NEW held, NEW c, c.op = "read", NEW lost, NEW h, NEW net \in Nets
  PROVE  Good(t, held, c, lost, Read(t, h, c.n, net))
<1> DEFINE k == <<"read", 0>>
           r == Read(t, h, c.n, net)
           at == At(t, k)
           left == c.n - at.total
           n == IF left > MaxRead THEN MaxRead ELSE left
           req == Request("READ", t.handles[h].of, n, t.handles[h].offset, "")
           to(total) == [Idle EXCEPT !.pos = "allocated", !.total = total]
           q == Exchange(t, k, req, <<"DATA", "STATUS">>, net)
           u == ReadGot(q.f, h, at, q.p)
           ends == IF q.p.what = "EOF" THEN R(q.f, "") ELSE Verdict(q.f, q.p, TRUE)
<1>0. k = SlotOf(c) /\ k[1] = "read" /\ Formed(t)
  BY SafeIds DEF SlotOf
<1>1. \A total : /\ DOMAIN to(total) = {"pos", "req", "total"} /\ to(total).pos = "allocated"
                 /\ to(total).req = Idle.req /\ to(total).pos # "idle"
  BY DEF Idle
<1>2. /\ at.pos = "idle" => k \notin DOMAIN t.at
      /\ at.pos # "idle" => k \in DOMAIN t.at /\ at = t.at[k] /\ at.pos \in {"allocated", "created", "sent"}
  <2>1. k \in DOMAIN t.at => t.at[k].pos \in {"allocated", "created", "sent"}
    BY DEF Safe, SlotOK, Positions
  <2>. QED
    BY <2>1, AtShape
<1>. SUFFICES Good(t, held, c, lost, r)
  OBVIOUS
<1>3. CASE at.pos = "idle"
  <2> DEFINE v == Goto(t, k, to(0))
  <2>1. r = R(v, "MORE")
    BY <1>3 DEF Read
  <2>2. Placed(t, v, k, to(0))
    <3>. HIDE DEF to
    <3>. QED
      BY <1>0, <1>1, GotoDoes
  <2>. HIDE DEF v, r, k, to
  <2>3. SafeStep(t, k, "MORE", t)
    BY StaysSafely
  <2>4. SafeStep(t, k, "MORE", v)
    BY <1>0, <1>1, <2>2, <2>3, AllocatesSafely
  <2>5. ASSUME Tidy(t, held, c, lost) PROVE Tidy(v, held, c, lost)
    <3>1. Rest(t, held)
      BY <1>0, <1>2, <1>3, <2>5 DEF Tidy, Rest, Waits
    <3>. QED
      BY <1>0, <1>1, <2>2, <3>1, AllocatesTidy
  <2>6. Kin(t, k, v)
    BY <2>2 DEF Kin, Placed, Elsewhere, Steady
  <2>. QED
    BY <1>0, <2>1, <2>4, <2>5, <2>6 DEF Good, TidyStep, R
<1>4. CASE at.pos # "idle" /\ left <= 0
  <2> DEFINE v == Leave(t, k)
  <2>1. r = R(v, "")
    BY <1>4 DEF Read
  <2>2. Gone(t, v, k)
    BY <1>0, LeaveDoes
  <2>. HIDE DEF v, r, k
  <2>3. Looked(t, <<"VERSION">>, At(t, k).req.id, t)
    BY <1>0, SafeIds DEF Looked, Kept
  <2>4. SafeStep(t, k, "", v)
    BY <2>2, <2>3, LeavesSafely
  <2>5. ASSUME Tidy(t, held, c, lost) PROVE Rest(v, held)
    <3>1. at.pos = "allocated"
      BY <1>0, <1>2, <1>4, <2>5 DEF Tidy, Meant
    <3>2. Quiet(t, held) /\ Framed(t) /\ DOMAIN t.at \subseteq {k}
      BY <1>0, <1>2, <1>4, <2>5, <3>1 DEF Tidy, Waits, Waiting
    <3>. QED
      BY <2>2, <3>2 DEF Rest, Gone, Elsewhere, Steady, Kept, Quiet, Framed
  <2>6. Kin(t, k, v)
    BY <2>2 DEF Kin, Gone, Elsewhere, Steady
  <2>. QED
    BY <1>0, <2>1, <2>4, <2>5, <2>6 DEF Good, TidyStep, R
<1>5. CASE at.pos # "idle" /\ ~(left <= 0)
  <2>0. May(t, c)
    <3>. HIDE DEF k
    <3>. QED
      BY <1>0, <1>5 DEF May
  <2>1. {"id", "type"} \subseteq DOMAIN req /\ req.type = "READ"
    <3>. HIDE DEF n
    <3>. QED
      BY DEF Request, Packet
  <2>2. CASE at.pos = "allocated"
    <3> DEFINE v == Created(t, k, req)
    <3>1. r = R(v, "MORE")
      BY <1>5, <2>2 DEF Read
    <3>. HIDE DEF req
    <3>2. Makes(t, k, req, v)
      BY <1>0, AtShape, CreatedDoes
    <3>3. "created" \in Positions(k)
      BY DEF Positions
    <3>4. Fits(k, req)
      BY <2>1 DEF Fits, Replies, Types
    <3>. HIDE DEF v, r, k
    <3>5. SafeStep(t, k, "MORE", v)
      BY <2>1, <3>2, <3>3, MakesSafely
    <3>6. ~Waits(t, k)
      BY <1>0, <1>2, <2>2 DEF Waits, Waiting
    <3>7. Tidy(t, held, c, lost) => Tidy(v, held, c, lost) /\ Kin(t, k, v)
      BY <1>0, <2>0, <2>1, <3>2, <3>4, <3>6, MakesTidy
    <3>. QED
      BY <1>0, <3>1, <3>5, <3>7 DEF Good, TidyStep, R
  <2>3. CASE at.pos \in {"created", "sent"}
    <3>1. r = IF q.rc # "" THEN R(q.f, q.rc)
              ELSE IF q.p.type = "DATA" THEN R(Goto(u, k, to(at.total + q.p.n)), "MORE") ELSE ends
      BY <1>5, <2>3 DEF Read
    <3>2. CASE q.rc # "" \/ q.p.type # "DATA"
      <4>1. Told(q, r)
        <5>. HIDE DEF q, r
        <5>1. CASE q.rc # ""
          BY <3>1, <5>1 DEF Told, R
        <5>2. CASE q.rc = ""
          BY <3>1, <3>2, <5>2, EndsTold
        <5>. QED
          BY <5>1, <5>2
      <4>2. Types(k) = {"DATA", "STATUS"} /\ Replies("READ") \subseteq {"DATA", "STATUS"}
        BY DEF Types, Replies
      <4>. HIDE DEF k, r, n
      <4>. QED
        BY <1>0, <2>0, <2>3, <4>1, <4>2, ValueGood
    <3>3. CASE q.rc = "" /\ q.p.type = "DATA"
      <4> DEFINE total == at.total + q.p.n
                 v == Goto(u, k, to(total))
      <4>1. r = R(v, "MORE")
        BY <3>1, <3>3
      <4>2. /\ {"created", "sent"} \subseteq Positions(k) \cap Asking(k)
            /\ Types(k) = {"DATA", "STATUS"} /\ Replies("READ") \subseteq {"DATA", "STATUS"}
        BY DEF Positions, Asking, Types, Replies
      <4>3. Fits(k, req) /\ Fitting(k, <<"DATA", "STATUS">>)
        <5>. HIDE DEF k, req
        <5>. QED
          BY <1>0, <2>1, <4>2, TypesAsked DEF Fits, Choosers
      <4>4. <<"DATA", "STATUS">> \in Seq({"DATA", "STATUS"}) /\ Len(<<"DATA", "STATUS">>) = 2
        OBVIOUS
      <4>. HIDE DEF k, r, req
      <4>5. Exchanged(t, k, q)
        BY <1>2, <2>1, <2>3, <4>2, <4>4, ExchangeSafe
      <4>6. Tidy(t, held, c, lost) => TidyAsk(t, held, c, lost, q)
        BY <1>0, <1>2, <2>0, <2>1, <2>3, <4>3, <4>4, ExchangeTidy
      <4>. HIDE DEF q
      <4>7. SafeStep(t, k, q.rc, q.f) /\ Formed(q.f)
        BY <4>5 DEF Exchanged, SafeStep, Safe
      <4>8. Alike(q.f, u)
        BY <4>7 DEF ReadGot, Alike, Steady, Kept, Formed, Fields
      <4>. HIDE DEF u, to, total
      <4>9. Placed(u, v, k, to(total))
        BY <1>1, <4>8, GotoDoes DEF Alike, Steady, Kept
      <4>10. SafeStep(t, k, q.rc, u) /\ q.rc # "EAGAIN"
        BY <3>3, <4>7, <4>8, AlikeSafe
      <4>. HIDE DEF v
      <4>11. SafeStep(t, k, "MORE", v)
        BY <1>0, <1>1, <4>9, <4>10, AllocatesSafely
      <4>12. ASSUME Tidy(t, held, c, lost) PROVE Tidy(v, held, c, lost) /\ Kin(t, k, v)
        <5>1. Rest(q.f, held) /\ Kin(t, k, q.f)
          BY <1>0, <3>3, <4>6, <4>12 DEF TidyAsk, Rest, Settled
        <5>2. Rest(u, held) /\ Kin(t, k, u)
          BY <4>8, <5>1, AlikeRest DEF Kin, Alike, Steady
        <5>3. Kin(t, k, v)
          BY <4>9, <5>2 DEF Kin, Placed, Elsewhere, Steady
        <5>4. Tidy(v, held, c, lost)
          BY <1>0, <1>1, <4>9, <5>2, AllocatesTidy
        <5>. QED
          BY <5>3, <5>4
      <4>. QED
        BY <1>0, <4>1, <4>11, <4>12 DEF Good, TidyStep, R
    <3>. QED
      BY <3>2, <3>3
  <2>. QED
    BY <1>2, <1>5, <2>2, <2>3
<1>. QED
  BY <1>3, <1>4, <1>5

\* libssh2_sftp_shutdown
LEMMA ShutdownGood ==
  ASSUME NEW t, Safe(t), ~Handling(t), NEW held, NEW c, c.op = "shutdown", NEW lost
  PROVE  Good(t, held, c, lost, Shutdown(t))
<1> DEFINE k == <<"shutdown", 0>>
           r == Shutdown(t)
<1>1. k = SlotOf(c) /\ k[1] = "shutdown"
  BY DEF SlotOf
<1>2. k \notin DOMAIN t.at
  BY <1>1 DEF Safe, SlotOK, Positions
<1>3. Formed(t)
  BY SafeIds
<1>. HIDE DEF k
<1>4. ASSUME Tidy(t, held, c, lost) PROVE DOMAIN t.at = {} /\ Quiet(t, held) /\ t.pos = 0
  BY <1>1, <1>2, <1>4 DEF Tidy, Waits, Quiet, Framed
<1>5. CASE t.gone
  <2> DEFINE u == [t EXCEPT !.partial = FALSE]
  <2>1. r.f = u /\ r.rc = "FAIL"
    BY <1>5 DEF Shutdown, R
  <2>2. /\ Kept(t, u) /\ u.at = t.at /\ u.answered = t.answered /\ u.packets = t.packets
        /\ u.call = t.call /\ u.pos = t.pos /\ u.inbound = t.inbound /\ ~u.partial
    BY <1>3 DEF Kept, Formed, Fields
  <2>. HIDE DEF u, r
  <2>3. Safe(u)
    BY <2>2 DEF Safe, Kept, SlotOK
  <2>4. SafeStep(t, k, "FAIL", u)
    <3>1. t.request_id <= u.request_id
      BY <2>2, SafeIds DEF Kept
    <3>. QED
      BY <1>2, <2>2, <2>3, <3>1 DEF SafeStep, Handling
  <2>5. Tidy(t, held, c, lost) => Rest(u, held) /\ Kin(t, k, u)
    BY <1>4, <2>2 DEF Rest, Quiet, Framed, Kin, Kept
  <2>. QED
    BY <1>1, <2>1, <2>4, <2>5 DEF Good, TidyStep, r
<1>6. CASE ~t.gone
  <2> DEFINE u == Dtor(t)
  <2>1. r.f = u /\ r.rc = ""
    BY <1>6 DEF Shutdown, R
  <2>2. /\ Kept(t, u) /\ DOMAIN u.at = {} /\ u.answered = t.answered /\ u.packets = <<>>
        /\ u.call = t.call /\ u.pos = t.pos /\ u.inbound = <<>> /\ ~u.partial
    BY <1>3 DEF Dtor, Kept, Formed, Fields
  <2>. HIDE DEF u, r
  <2>3. Safe(u)
    <3>1. IsList(u.packets)
      BY <2>2, EmptySeq DEF IsList
    <3>. QED
      BY <2>2, <3>1 DEF Safe, Kept
  <2>4. SafeStep(t, k, "", u)
    <3>1. t.request_id <= u.request_id
      BY <2>2, SafeIds DEF Kept
    <3>. QED
      BY <1>2, <2>2, <2>3, <3>1 DEF SafeStep, Handling
  <2>5. Tidy(t, held, c, lost) => Rest(u, held) /\ Kin(t, k, u)
    BY <1>4, <2>2 DEF Rest, Quiet, Framed, Kin, Kept
  <2>. QED
    BY <1>1, <2>1, <2>4, <2>5 DEF Good, TidyStep, r
<1>. QED
  BY <1>5, <1>6

\* libssh2_sftp_mkdir_ex, which may come back from an EAGAIN with another id
LEMMA MkdirGood ==
  ASSUME NEW t, Safe(t), ~Handling(t), NEW held, NEW c, c.op = "mkdir", NEW lost, NEW path, NEW net \in Nets
  PROVE  Good(t, held, c, lost, Mkdir(t, path, net))
<1> DEFINE k == <<"mkdir", 0>>
           at == At(t, k)
           req == Request("MKDIR", path, 0, 0, "")
           q == Exchange(t, k, req, <<"STATUS">>, net)
           r == StatusRequest(t, k, req, TRUE, net)
           m == Mkdir(t, path, net)
<1>1. k = SlotOf(c) /\ k[1] = "mkdir"
  BY DEF SlotOf
<1>2. May(t, c)
  BY <1>1 DEF May
<1>3. Told(q, r)
  BY StatusTold
<1>4. /\ {"id", "type"} \subseteq DOMAIN req /\ Fits(k, req)
  <2>1. {"id", "type"} \subseteq DOMAIN req /\ req.type = "MKDIR"
    BY DEF Request, Packet
  <2>. HIDE DEF req
  <2>. QED
    BY <2>1 DEF Fits, Replies, Types
<1>5. {"created", "sent"} \subseteq Positions(k) \cap Asking(k)
  BY DEF Positions, Asking
<1>6. Fitting(k, <<"STATUS">>) /\ <<"STATUS">> \in Seq({"STATUS"}) /\ Len(<<"STATUS">>) = 1
  BY <1>1, TypesAsked DEF Choosers
<1>7. /\ at.pos \in {"idle", "created", "sent"}
      /\ at.pos # "idle" => k \in DOMAIN t.at /\ at = t.at[k]
  <2>1. k \in DOMAIN t.at => t.at[k].pos \in {"created", "sent"}
    BY DEF Safe, SlotOK, Positions
  <2>. QED
    BY <2>1, AtShape
<1>8. m = IF r.rc = "EAGAIN" /\ at.pos = "created" THEN R([r.f EXCEPT !.mkdir_request_id = at.req.id], "EAGAIN")
          ELSE IF r.rc = "EAGAIN" /\ at.pos = "sent" THEN R([r.f EXCEPT !.at[k].req.id = t.mkdir_request_id], "EAGAIN")
          ELSE r
  BY DEF Mkdir
<1>. HIDE DEF r, m, k, req
<1>9. Exchanged(t, k, q)
  BY <1>4, <1>5, <1>6, <1>7, ExchangeSafe
<1>10. Tidy(t, held, c, lost) => TidyAsk(t, held, c, lost, q)
  BY <1>1, <1>2, <1>4, <1>6, <1>7, ExchangeTidy
<1>11. Good(t, held, c, lost, r)
  BY <1>1, <1>2, <1>3, StatusGood DEF req
<1>. HIDE DEF q
<1>. SUFFICES Good(t, held, c, lost, m)
  BY DEF m
<1>12. CASE r.rc # "EAGAIN" \/ at.pos = "idle"
  <2>1. m = r
    BY <1>8, <1>12
  <2>. QED
    BY <1>11, <2>1
<1>13. CASE r.rc = "EAGAIN" /\ at.pos # "idle"
  <2>1. q.rc = "EAGAIN" /\ r.f = q.f /\ q.f.at = t.at /\ k \in DOMAIN t.at /\ at = t.at[k] /\ SlotOK(t, k)
    BY <1>3, <1>7, <1>9, <1>13 DEF Told, Exchanged, Safe
  <2>2. /\ Safe(q.f) /\ ~Handling(q.f) /\ Formed(q.f)
        /\ q.f.request_id \in Nat /\ t.request_id <= q.f.request_id /\ t.request_id \in Nat
    BY <1>9 DEF Exchanged, SafeStep, Safe
  <2>3. at.req.id \in 0..q.f.request_id /\ t.mkdir_request_id \in 0..q.f.request_id
    <3>1. at.req.id \in 0..t.request_id /\ t.mkdir_request_id \in 0..t.request_id
      BY <2>1 DEF SlotOK, Safe
    <3>. QED
      BY <2>2, <3>1
  <2>4. ASSUME Tidy(t, held, c, lost) PROVE q.f = t /\ t.packets = <<>>
    BY <1>1, <1>10, <2>1, <2>4 DEF TidyAsk
  <2>5. SafeStep(t, k, "EAGAIN", q.f)
    BY <1>9, <2>1 DEF Exchanged
  <2>6. CASE at.pos = "created"
    <3> DEFINE u == [q.f EXCEPT !.mkdir_request_id = at.req.id]
    <3>1. m.f = u /\ m.rc = "EAGAIN"
      BY <1>8, <1>13, <2>1, <2>6 DEF R
    <3>2. /\ Formed(u) /\ u.mkdir_request_id = at.req.id /\ u.request_id = q.f.request_id
          /\ u.packets = q.f.packets /\ u.at = q.f.at /\ u.answered = q.f.answered /\ u.call = q.f.call
          /\ u.partial = q.f.partial /\ u.pos = q.f.pos /\ u.inbound = q.f.inbound
          /\ u.closed = q.f.closed /\ u.outbound = q.f.outbound /\ u.version = q.f.version
      BY <2>2 DEF Formed, Fields
    <3>. HIDE DEF u
    <3>3. Safe(u)
      BY <2>2, <2>3, <3>2 DEF Safe, SlotOK
    <3>4. SafeStep(t, k, "EAGAIN", u)
      BY <2>2, <2>5, <3>2, <3>3 DEF SafeStep, Handling
    <3>5. ASSUME Tidy(t, held, c, lost)
          PROVE  /\ Tidy(u, held, c, lost) /\ u.at = t.at /\ u.packets = <<>> /\ Kin(t, k, u)
      <4>1. ~Waits(t, k) /\ ~Waits(u, k)
        BY <1>1, <2>1, <2>6, <3>2 DEF Waits, Waiting
      <4>2. Quiet(t, held) /\ Framed(t) /\ DOMAIN t.at \subseteq {k} /\ Meant(t, k, c, lost)
        BY <1>1, <2>1, <3>5, <4>1 DEF Tidy
      <4>3. Quiet(u, held) /\ Framed(u) /\ DOMAIN u.at \subseteq {k} /\ Meant(u, k, c, lost)
        BY <2>4, <3>2, <3>5, <4>2 DEF Quiet, Framed, Meant, Fresh
      <4>4. Kin(t, k, u)
        BY <2>4, <3>2, <3>5 DEF Kin
      <4>. QED
        BY <1>1, <2>4, <3>2, <3>5, <4>1, <4>3, <4>4 DEF Tidy
    <3>6. Tidy(t, held, c, lost) => TidyStep(t, held, c, lost, "EAGAIN", u)
      <4>1. lost \cup (IF c.op = "mkdir" THEN {t.at[k].req.id} \ {t.at[k].req.id} ELSE {}) = lost
        OBVIOUS
      <4>. QED
        BY <1>1, <2>1, <3>5, <4>1 DEF TidyStep
    <3>. QED
      BY <1>1, <3>1, <3>4, <3>6 DEF Good
  <2>7. CASE at.pos = "sent"
    <3> DEFINE to == [at EXCEPT !.req.id = t.mkdir_request_id]
               u == [q.f EXCEPT !.at[k] = to]
    <3>0. [q.f EXCEPT !.at[k].req.id = t.mkdir_request_id] = u
      BY <2>1, <2>2 DEF Formed, Fields
    <3>1. m.f = u /\ m.rc = "EAGAIN"
      BY <1>8, <1>13, <2>1, <2>7, <3>0 DEF R
    <3>2. /\ Formed(u) /\ u.mkdir_request_id = q.f.mkdir_request_id /\ u.request_id = q.f.request_id
          /\ u.packets = q.f.packets /\ u.answered = q.f.answered /\ u.call = q.f.call
          /\ u.partial = q.f.partial /\ u.pos = q.f.pos /\ u.inbound = q.f.inbound
          /\ u.closed = q.f.closed /\ u.outbound = q.f.outbound /\ u.version = q.f.version
          /\ DOMAIN u.at = DOMAIN t.at /\ u.at[k] = to /\ \A j \in DOMAIN t.at \ {k} : u.at[j] = t.at[j]
      <4>. HIDE DEF to
      <4>. QED
        BY <2>1, <2>2 DEF Formed, Fields
    <3>3. /\ DOMAIN to = {"pos", "req", "total"} /\ "id" \in DOMAIN to.req /\ to.pos = "sent"
          /\ to.req.id = t.mkdir_request_id /\ to.total = at.total
      BY <2>1, <2>7 DEF SlotOK
    <3>. HIDE DEF u, to
    <3>4. Safe(u)
      <4>1. SlotOK(u, k)
        BY <1>5, <2>3, <3>2, <3>3 DEF SlotOK
      <4>2. \A j \in DOMAIN u.at \ {k} : SlotOK(u, j)
        BY <2>1, <2>2, <3>2 DEF SlotOK, Safe
      <4>. QED
        BY <2>2, <3>2, <4>1, <4>2 DEF Safe
    <3>5. SafeStep(t, k, "EAGAIN", u)
      <4>1. /\ t.request_id <= u.request_id /\ ~Handling(u)
            /\ \A j \in DOMAIN u.at \ {k} : j \in DOMAIN t.at /\ u.at[j] = t.at[j]
        BY <2>2, <3>2 DEF Handling
      <4>2. \A x \in u.answered :
              \/ x \in t.answered
              \/ /\ k \in DOMAIN t.at /\ t.at[k].pos \in Asking(k)
                 /\ x[1] = t.at[k].req.id /\ LooksLike(x[1], x[2])
        BY <2>5, <3>2 DEF SafeStep
      <4>3. t.at[k].pos \in Asking(k)
        BY <1>5, <2>1, <2>7
      <4>. QED
        BY <1>1, <2>1, <3>4, <4>1, <4>2, <4>3 DEF SafeStep
    <3> DEFINE lost2 == lost \cup (IF c.op = "mkdir" THEN {u.at[k].req.id} \ {t.at[k].req.id} ELSE {})
    <3>6. ASSUME Tidy(t, held, c, lost)
          PROVE  Tidy(u, held, c, lost2) /\ u.packets = <<>> /\ Kin(t, k, u)
      <4>0. q.f = t /\ t.packets = <<>>
        BY <2>4, <3>6
      <4>1. Waits(t, k) /\ Waits(u, k)
        BY <1>1, <2>1, <2>7, <3>2, <3>3 DEF Waits, Waiting
      <4>2. Coming(t, held, k) /\ Framed(t) /\ DOMAIN t.at \subseteq {k} /\ Meant(t, k, c, lost)
        BY <1>1, <2>1, <3>6, <4>1 DEF Tidy
      <4>3. Same(t, u)
        BY <3>2, <4>0 DEF Same, Kept
      <4>4. Coming(u, held, k)
        BY <4>0, <4>2, <4>3, SameComing
      <4>5. Meant(u, k, c, lost2)
        <5>1. u.at[k].req.id \in lost2 \/ u.at[k].req.id = t.at[k].req.id
          OBVIOUS
        <5>2. Fresh(t, k, t.at[k].req) \/ t.at[k].req.id \in lost
          BY <2>1, <2>7, <4>2 DEF Meant
        <5>3. Fresh(u, k, u.at[k].req) \/ u.at[k].req.id \in lost2
          BY <3>2, <4>0, <5>1, <5>2 DEF Fresh
        <5>. HIDE DEF lost2
        <5>. QED
          BY <1>1, <3>2, <3>3, <5>3 DEF Meant
      <4>6. Framed(u) /\ Kin(t, k, u)
        BY <3>2, <4>0, <4>2 DEF Framed, Kin
      <4>. HIDE DEF lost2
      <4>. QED
        BY <1>1, <3>2, <4>0, <4>1, <4>2, <4>4, <4>5, <4>6 DEF Tidy
    <3>7. Tidy(t, held, c, lost) => TidyStep(t, held, c, lost, "EAGAIN", u)
      BY <1>1, <2>1, <3>2, <3>6 DEF TidyStep
    <3>. QED
      BY <1>1, <3>1, <3>5, <3>7 DEF Good
  <2>. QED
    BY <1>7, <1>13, <2>6, <2>7
<1>. QED
  BY <1>12, <1>13

\* The step that takes a safe step to one alike, seen from a state that differs
\* in what no request is about.
LEMMA SafeFrom ==
  ASSUME NEW t, NEW s, s.request_id = t.request_id, s.at = t.at, s.answered = t.answered,
         NEW k, NEW rc, NEW u, SafeStep(s, k, rc, u)
  PROVE  SafeStep(t, k, rc, u)
  BY DEF SafeStep

\* A VERSION has no id, so looking for it is the same for all.
LEMMA LookedAny ==
  ASSUME NEW t, NEW id, NEW u, Looked(t, <<"VERSION">>, id, u), NEW id2
  PROVE  Looked(t, <<"VERSION">>, id2, u)
  BY DEF Looked

\* One field that no request is about may be changed after all.
LEMMA ThenSafe ==
  ASSUME NEW t, NEW k, NEW rc, NEW u, SafeStep(t, k, rc, u), NEW v, Formed(v),
         v.request_id = u.request_id, v.mkdir_request_id = u.mkdir_request_id, v.packets = u.packets,
         v.at = u.at, v.answered = u.answered, v.call.phase = u.call.phase
  PROVE  SafeStep(t, k, rc, v)
<1>1. Safe(v)
  BY DEF SafeStep, Safe, SlotOK
<1>2. (Handling(v) <=> Handling(u)) /\ (Waits(v, k) <=> Waits(u, k))
  BY DEF Handling, Waits
<1>. QED
  BY <1>1, <1>2 DEF SafeStep

\* libssh2_sftp_init goes to its next position.
LEMMA InitGoes ==
  ASSUME NEW t, Safe(t), ~Handling(t), NEW held, NEW c, c.op = "init", NEW lost,
         ~Waits(t, <<"init", 0>>), NEW u, Formed(u), Steady(t, u), u.at = t.at, u.call.phase = t.call.phase,
         NEW pos \in {"created", "sent", "sent2"},
         NEW r, r = R(Goto(u, <<"init", 0>>, [At(t, <<"init", 0>>) EXCEPT !.pos = pos]), "MORE")
  PROVE  Good(t, held, c, lost, r)
<1> DEFINE k == <<"init", 0>>
           to == [At(t, k) EXCEPT !.pos = pos]
           v == Goto(u, k, to)
<1>1. k = SlotOf(c) /\ k[1] = "init"
  BY DEF SlotOf
<1>2. DOMAIN to = {"pos", "req", "total"} /\ to.pos = pos /\ "id" \in DOMAIN to.req /\ to.req.id \in 0..t.request_id
  <2>1. DOMAIN At(t, k) = {"pos", "req", "total"} /\ "id" \in DOMAIN At(t, k).req
    BY AtShape
  <2>2. At(t, k).req.id \in 0..t.request_id
    <3>1. CASE k \in DOMAIN t.at
      BY <3>1, AtShape DEF Safe, SlotOK
    <3>2. CASE k \notin DOMAIN t.at
      <4>1. At(t, k).req.id = 0
        BY <3>2 DEF At, Idle, Status, Packet
      <4>. QED
        BY <4>1, SafeIds
    <3>. QED
      BY <3>1, <3>2
  <2>. QED
    BY <2>1, <2>2
<1>3. Placed(u, v, k, to)
  <2>. HIDE DEF to
  <2>. QED
    BY <1>2, GotoDoes
<1>4. r.f = v /\ r.rc = "MORE"
  BY DEF R
<1>. HIDE DEF v, to, k
<1>5. SafeStep(t, k, "MORE", t)
  BY StaysSafely
<1>6. SafeStep(t, k, "MORE", u) /\ u.request_id = t.request_id
  BY <1>5, ThenSafe DEF Steady, Kept
<1>7. SafeStep(t, k, "MORE", v)
  <2>1. to.pos \in Positions(k) \ Asking(k)
    BY <1>1, <1>2 DEF Positions, Asking
  <2>. QED
    BY <1>2, <1>3, <1>6, <2>1, PlacesSafely
<1>8. ASSUME Tidy(t, held, c, lost) PROVE Tidy(v, held, c, lost) /\ Kin(t, k, v)
  <2>1. Quiet(t, held) /\ Framed(t) /\ DOMAIN t.at \subseteq {k}
    BY <1>1, <1>8 DEF Tidy, k
  <2>2. Quiet(v, held) /\ Framed(v) /\ DOMAIN v.at = {k} /\ Kin(t, k, v) /\ v.at[k].pos = pos
    BY <1>2, <1>3, <2>1 DEF Placed, Elsewhere, Steady, Kept, Quiet, Framed, Kin
  <2>3. ~Waits(v, k)
    BY <1>1, <2>2 DEF Waits, Waiting
  <2>4. Meant(v, k, c, lost)
    BY <1>1, <2>2 DEF Meant, Fresh
  <2>. QED
    BY <1>1, <2>2, <2>3, <2>4 DEF Tidy
<1>. QED
  BY <1>1, <1>4, <1>7, <1>8 DEF Good, TidyStep

\* Its error exit, and the end of its way.
LEMMA InitLeaves ==
  ASSUME NEW t, Safe(t), ~Handling(t), NEW held, NEW c, c.op = "init", NEW lost,
         <<"init", 0>> \in DOMAIN t.at, NEW u, Looked(t, <<"VERSION">>, 0, u),
         NEW v, Formed(v), v.request_id = u.request_id, v.mkdir_request_id = u.mkdir_request_id,
         v.packets = u.packets, v.at = Leave(u, <<"init", 0>>).at, v.answered = u.answered, v.call.phase = "",
         NEW r, r.f = v,
         \/ r.rc = "FAIL"
         \/ /\ r.rc = "" /\ v.partial = u.partial /\ v.pos = u.pos /\ v.inbound = u.inbound
            /\ v.closed = u.closed /\ v.outbound = u.outbound
            /\ Tidy(t, held, c, lost) => Quiet(u, held) /\ Framed(u)
  PROVE  Good(t, held, c, lost, r)
<1> DEFINE k == <<"init", 0>>
           w == Leave(u, k)
<1>1. k = SlotOf(c) /\ k[1] = "init"
  BY DEF SlotOf
<1>2. Gone(u, w, k) /\ u.answered = t.answered /\ u.at = t.at
  BY LeaveDoes DEF Looked, Kept
<1>3. v.at = w.at
  OBVIOUS
<1>. HIDE DEF w, k
<1>4. Looked(t, <<"VERSION">>, At(t, k).req.id, u)
  BY LookedAny
<1>5. SafeStep(t, k, r.rc, w)
  BY <1>2, <1>4, LeavesSafely
<1>6. SafeStep(t, k, r.rc, v)
  <2>1. /\ v.request_id = w.request_id /\ v.mkdir_request_id = w.mkdir_request_id /\ v.packets = w.packets
        /\ v.answered = w.answered /\ v.call.phase = w.call.phase
    BY <1>2 DEF Gone, Elsewhere, Steady, Kept
  <2> DEFINE rc == r.rc
  <2>2. SafeStep(t, k, rc, w)
    BY <1>5
  <2>. HIDE DEF rc
  <2>3. SafeStep(t, k, rc, v)
    BY ONLY <1>3, <2>1, <2>2, Formed(v), ThenSafe
  <2>. QED
    BY <2>3 DEF rc
<1>7. Kin(t, k, v)
  BY <1>2 DEF Kin
<1>8. ASSUME Tidy(t, held, c, lost), r.rc = "" PROVE Rest(v, held)
  <2>1. Quiet(u, held) /\ Framed(u) /\ DOMAIN t.at \subseteq {k}
    BY <1>1, <1>8 DEF Tidy
  <2>2. DOMAIN v.at = {}
    BY <1>2, <1>3, <2>1 DEF Gone
  <2>. QED
    BY <1>8, <2>1, <2>2 DEF Rest, Quiet, Framed
<1>. QED
  BY <1>1, <1>6, <1>7, <1>8 DEF Good, TidyStep, k

\* libssh2_sftp_init
LEMMA InitGood ==
  ASSUME NEW t, Safe(t), ~Handling(t), NEW held, NEW c, c.op = "init", NEW lost, NEW net \in Nets
  PROVE  Good(t, held, c, lost, Init(t, net))
<1> DEFINE k == <<"init", 0>>
           at == At(t, k)
           r == Init(t, net)
           to(u, pos) == R(Goto(u, k, [at EXCEPT !.pos = pos]), "MORE")
           goes == IF t.gone THEN "FAIL" ELSE IF net # "whole" THEN "EAGAIN" ELSE ""
<1>0. k = SlotOf(c) /\ k[1] = "init" /\ Formed(t) /\ IsList(t.packets)
  BY SafeIds DEF SlotOf
<1>1. /\ at.pos \in {"idle", "created", "sent", "sent2", "sent3"}
      /\ at.pos = "idle" => k \notin DOMAIN t.at
      /\ at.pos # "idle" => k \in DOMAIN t.at /\ at = t.at[k]
  <2>1. k \in DOMAIN t.at => t.at[k].pos \in {"created", "sent", "sent2", "sent3"}
    BY DEF Safe, SlotOK, Positions
  <2>. QED
    BY <2>1, AtShape
<1>2. Waits(t, k) <=> at.pos = "sent3"
  BY <1>1 DEF Waits, Waiting
<1>3. Looked(t, <<"VERSION">>, 0, t) /\ Steady(t, t)
  BY <1>0 DEF Looked, Kept, Steady
<1>4. goes \in {"", "FAIL", "EAGAIN"}
  OBVIOUS
\* An EAGAIN where nothing is waited for.
<1>5. ASSUME NEW s, s = R(t, "EAGAIN"), at.pos \in {"created", "sent", "sent2"}
      PROVE  Good(t, held, c, lost, s)
  <2>1. s.f = t /\ s.rc = "EAGAIN"
    BY <1>5 DEF R
  <2>2. SafeStep(t, k, "EAGAIN", t)
    BY StaysSafely
  <2>3. ASSUME Tidy(t, held, c, lost) PROVE t.packets = <<>>
    BY <1>0, <1>2, <1>5, <2>3 DEF Tidy, Quiet
  <2>4. Kin(t, k, t)
    BY DEF Kin
  <2>5. lost \cup (IF c.op = "mkdir" THEN {t.at[k].req.id} \ {t.at[k].req.id} ELSE {}) = lost
    OBVIOUS
  <2>. HIDE DEF k
  <2>. QED
    BY <1>0, <1>1, <1>5, <2>1, <2>2, <2>3, <2>4, <2>5 DEF Good, TidyStep
\* The error exit.
<1>6. ASSUME NEW u, Looked(t, <<"VERSION">>, 0, u), k \in DOMAIN t.at
      PROVE  Good(t, held, c, lost, InitError(u, "FAIL"))
  <2> DEFINE w == Leave(u, k)
             v == [w EXCEPT !.channel = "freed"]
             s == InitError(u, "FAIL")
  <2>1. s.f = v /\ s.rc = "FAIL"
    BY DEF InitError, R
  <2>2. Gone(u, w, k)
    BY <1>6, LeaveDoes DEF Looked, Kept
  <2>3. w = Leave(u, k)
    OBVIOUS
  <2>. HIDE DEF w, s
  <2>4. /\ Formed(v) /\ v.request_id = u.request_id /\ v.mkdir_request_id = u.mkdir_request_id
        /\ v.packets = u.packets /\ v.at = w.at /\ v.answered = u.answered /\ v.call.phase = ""
    BY <2>2 DEF Gone, Elsewhere, Steady, Kept, Formed, Fields
  <2>. HIDE DEF v
  <2>. QED
    BY <1>6, <2>1, <2>3, <2>4, InitLeaves DEF s
<1>7. ASSUME k \in DOMAIN t.at PROVE Good(t, held, c, lost, R(Leave(t, k), "FAIL"))
  <2> DEFINE v == Leave(t, k)
             s == R(v, "FAIL")
  <2>1. s.f = v /\ s.rc = "FAIL"
    BY DEF R
  <2>2. Gone(t, v, k) /\ v = Leave(t, k)
    BY <1>0, LeaveDoes
  <2>. HIDE DEF v, s
  <2>3. /\ Formed(v) /\ v.request_id = t.request_id /\ v.mkdir_request_id = t.mkdir_request_id
        /\ v.packets = t.packets /\ v.answered = t.answered /\ v.call.phase = ""
    BY <2>2 DEF Gone, Elsewhere, Steady, Kept
  <2>4. Good(t, held, c, lost, s)
    BY <1>3, <1>7, <2>1, <2>2, <2>3, InitLeaves
  <2>. QED
    BY <2>4 DEF s, v
<1>. SUFFICES Good(t, held, c, lost, r)
  OBVIOUS
<1>8. CASE at.pos = "idle"
  <2>1. r = to(t, "created")
    BY <1>8 DEF Init
  <2>. HIDE DEF r
  <2>. QED
    BY <1>0, <1>2, <1>3, <1>8, <2>1, InitGoes
<1>9. CASE at.pos = "created"
  <2> DEFINE u == [t EXCEPT !.channel = "open"]
  <2>1. r = IF goes = "" THEN to(u, "sent") ELSE R(IF goes = "FAIL" THEN Leave(t, k) ELSE t, goes)
    BY <1>9 DEF Init
  <2>2. Formed(u) /\ Steady(t, u) /\ u.at = t.at /\ u.call.phase = t.call.phase
    BY <1>0 DEF Formed, Fields, Steady, Kept
  <2>. HIDE DEF r, u, goes
  <2>3. CASE goes = ""
    <3>1. r = to(u, "sent")
      BY <2>1, <2>3
    <3>. QED
      BY <1>2, <1>9, <2>2, <3>1, InitGoes
  <2>4. CASE goes = "FAIL"
    <3>1. r = R(Leave(t, k), "FAIL")
      BY <2>1, <2>4
    <3>. QED
      BY <1>1, <1>7, <1>9, <3>1
  <2>5. CASE goes = "EAGAIN"
    <3>1. r = R(t, "EAGAIN")
      BY <2>1, <2>5
    <3>. QED
      BY <1>5, <1>9, <3>1
  <2>. QED
    BY <1>4, <2>3, <2>4, <2>5
<1>10. CASE at.pos = "sent"
  <2>1. r = IF goes = "EAGAIN" THEN R(t, goes)
            ELSE IF goes = "FAIL" \/ t.refused THEN InitError(t, "FAIL") ELSE to(t, "sent2")
    BY <1>10 DEF Init
  <2>. HIDE DEF r, goes
  <2>2. CASE goes = "EAGAIN"
    BY <1>5, <1>10, <2>1, <2>2
  <2>3. CASE goes # "EAGAIN" /\ (goes = "FAIL" \/ t.refused)
    BY <1>1, <1>3, <1>6, <1>10, <2>1, <2>3
  <2>4. CASE goes # "EAGAIN" /\ ~(goes = "FAIL" \/ t.refused)
    <3>1. r = to(t, "sent2")
      BY <2>1, <2>4
    <3>. QED
      BY <1>0, <1>2, <1>3, <1>10, <3>1, InitGoes
  <2>. QED
    BY <2>2, <2>3, <2>4
<1>11. CASE at.pos = "sent2"
  <2> DEFINE req == Request("INIT", 0, OurVersion, 0, "")
             u == [t EXCEPT !.outbound = Append(@, req)]
             place == [at EXCEPT !.pos = "sent3"]
             v == Goto(u, k, place)
  <2>1. r = R(t, "EAGAIN") \/ r = InitError(t, "FAIL") \/ r = R(v, "MORE")
    BY <1>11 DEF Init, ChannelWrite, R
  <2>2. req.type = "INIT"
    BY DEF Request, Packet
  <2>3. Fits(k, req) /\ Fresh(t, k, req)
    <3>. HIDE DEF req
    <3>. QED
      BY <2>2 DEF Fits, Replies, Types, Fresh
  <2>4. /\ DOMAIN place = {"pos", "req", "total"} /\ place.pos = "sent3" /\ place.req = at.req
        /\ place.total = at.total /\ "id" \in DOMAIN place.req /\ place.req.id \in 0..t.request_id
    BY <1>1, <1>11 DEF Safe, SlotOK
  <2>5. Sends(t, k, req, place, v)
    <3>. HIDE DEF place, req
    <3>. QED
      BY <1>0, <2>4, SendDoes
  <2>6. /\ Formed(u) /\ u.request_id = t.request_id /\ u.mkdir_request_id = t.mkdir_request_id
        /\ u.packets = t.packets /\ u.at = t.at /\ u.answered = t.answered /\ u.call.phase = t.call.phase
    BY <1>0 DEF Formed, Fields
  <2>. HIDE DEF r, u, place, req, goes, k
  <2>7. Placed(u, v, k, place)
    BY <2>4, <2>6, GotoDoes
  <2>. HIDE DEF v
  <2>8. CASE r = R(t, "EAGAIN")
    BY <1>5, <1>11, <2>8
  <2>9. CASE r = InitError(t, "FAIL")
    BY <1>1, <1>3, <1>6, <1>11, <2>9
  <2>10. CASE r = R(v, "MORE")
    <3>1. SafeStep(t, k, "MORE", t)
      BY StaysSafely
    <3>2. SafeStep(t, k, "MORE", u)
      BY <2>6, <3>1, ThenSafe
    <3>3. place.pos \in Positions(k) \ Asking(k)
      BY <1>0, <2>4 DEF Positions, Asking
    <3>4. SafeStep(t, k, "MORE", v)
      BY <2>4, <2>6, <2>7, <3>2, <3>3, PlacesSafely
    <3>5. place.pos = Waiting(k) /\ ~Waits(t, k) /\ k \in DOMAIN t.at /\ place.req = t.at[k].req
          /\ place.total = t.at[k].total /\ t.at[k].pos # "allocated"
      BY <1>0, <1>1, <1>2, <1>11, <2>4 DEF Waiting, k
    <3>6. Tidy(t, held, c, lost) => Tidy(v, held, c, lost) /\ Kin(t, k, v)
      BY <1>0, <2>3, <2>4, <2>5, <3>5, SendsTidy
    <3>. QED
      BY <1>0, <2>10, <3>4, <3>6 DEF Good, TidyStep, R
  <2>. QED
    BY <2>1, <2>8, <2>9, <2>10
<1>12. CASE at.pos = "sent3"
  <2> DEFINE a == Require(t, "VERSION", 0, net)
             w == Leave(a.f, k)
             v == [w EXCEPT !.channel = "ready", !.version = IF a.p.n > OurVersion THEN OurVersion ELSE a.p.n]
  <2>1. r = IF a.rc \in {"MORE", "WAIT", "EAGAIN"} THEN R(a.f, a.rc)
            ELSE IF a.rc \in {"FAIL", "TIMEOUT"} THEN InitError(a.f, "FAIL") ELSE R(v, "")
    BY <1>12 DEF Init
  <2>2. Looked(t, <<"VERSION">>, 0, a.f)
    <3>1. <<"VERSION">> \in Seq({"VERSION"}) /\ Len(<<"VERSION">>) = 1 /\ <<"VERSION">>[1] = "VERSION"
      BY OneIsList
    <3>2. Answered(t, <<"VERSION">>, 0, net) = a
      BY <3>1 DEF Answered
    <3>. HIDE DEF a
    <3>. QED
      BY <1>0, <3>1, <3>2, AnsweredLooks
  <2>3. Tidy(t, held, c, lost) => Comes(t, held, k, a)
    <3>1. Types(k) = {"VERSION"} /\ k[1] \notin Choosers
      BY <1>0 DEF Types, Choosers
    <3>2. Tidy(t, held, c, lost) => Coming(t, held, k) /\ Framed(t)
      BY <1>0, <1>2, <1>12 DEF Tidy
    <3>. HIDE DEF a, k
    <3>. QED
      BY <1>0, <3>1, <3>2, RequireComes DEF a
  <2>. HIDE DEF r, a
  <2>4. CASE a.rc \in {"MORE", "WAIT", "EAGAIN"}
    <3>1. r.f = a.f /\ r.rc = a.rc
      BY <2>1, <2>4 DEF R
    <3>2. Looked(t, <<"VERSION">>, At(t, k).req.id, a.f) /\ a.f.answered = t.answered
      BY <2>2, LookedAny DEF Looked
    <3>. HIDE DEF k
    <3>3. SafeStep(t, k, a.rc, a.f)
      BY <3>2, LooksSafely
    <3>4. ASSUME Tidy(t, held, c, lost) PROVE TidyStep(t, held, c, lost, a.rc, a.f)
      <4>1. Kin(t, k, a.f) /\ Kept(t, a.f) /\ a.f.at = t.at
        BY <2>3, <3>4 DEF Comes
      <4>2. CASE a.rc = "MORE"
        <5>1. Framed(a.f) /\ Coming(a.f, held, k)
          BY <2>3, <3>4, <4>2 DEF Comes
        <5>2. Tidy(a.f, held, c, lost)
          BY <1>0, <1>2, <1>12, <3>4, <4>1, <5>1, WaitsTidy DEF k
        <5>. QED
          BY <1>0, <4>1, <4>2, <5>2 DEF TidyStep
      <4>3. CASE a.rc = "WAIT"
        BY <1>0, <4>1, <4>3 DEF TidyStep
      <4>4. CASE a.rc = "EAGAIN"
        <5>1. a.f = t /\ t.packets = <<>>
          BY <2>3, <3>4, <4>4 DEF Comes
        <5>2. lost \cup (IF c.op = "mkdir" THEN {t.at[k].req.id} \ {t.at[k].req.id} ELSE {}) = lost
          OBVIOUS
        <5>3. k \in DOMAIN t.at
          BY <1>1, <1>12 DEF k
        <5>. QED
          BY <1>0, <3>4, <4>1, <4>4, <5>1, <5>2, <5>3 DEF TidyStep
      <4>. QED
        BY <2>4, <4>2, <4>3, <4>4
    <3>. QED
      BY <1>0, <3>1, <3>3, <3>4 DEF Good
  <2>5. CASE a.rc \in {"FAIL", "TIMEOUT"}
    BY <1>1, <1>6, <1>12, <2>1, <2>2, <2>5
  <2>6. CASE a.rc \notin {"MORE", "WAIT", "EAGAIN", "FAIL", "TIMEOUT"}
    <3>1. r = R(v, "")
      BY <2>1, <2>6
    <3>2. r.f = v /\ r.rc = ""
      BY <3>1 DEF R
    <3>3. Gone(a.f, w, k) /\ w.at = Leave(a.f, k).at
      BY <2>2, LeaveDoes DEF Looked, Kept
    <3>. HIDE DEF w
    <3>4. /\ Formed(v) /\ v.request_id = a.f.request_id /\ v.mkdir_request_id = a.f.mkdir_request_id
          /\ v.packets = a.f.packets /\ v.at = w.at /\ v.answered = a.f.answered /\ v.call.phase = ""
          /\ v.partial = a.f.partial /\ v.pos = a.f.pos /\ v.inbound = a.f.inbound
          /\ v.closed = a.f.closed /\ v.outbound = a.f.outbound
      BY <3>3 DEF Gone, Elsewhere, Steady, Kept, Formed, Fields
    <3>. HIDE DEF v
    <3>5. Tidy(t, held, c, lost) => Quiet(a.f, held) /\ Framed(a.f)
      BY <1>0, <2>3, <2>6 DEF Comes, Settled
    <3>6. k \in DOMAIN t.at
      BY <1>1, <1>12
    <3>. QED
      BY <2>2, <3>2, <3>3, <3>4, <3>5, <3>6, InitLeaves
  <2>. QED
    BY <2>4, <2>5, <2>6
<1>. QED
  BY <1>1, <1>8, <1>9, <1>10, <1>11, <1>12

\* The handle that follows the status, and what open does with it.
LEMMA FollowsGood ==
  ASSUME NEW t, Safe(t), Handling(t), NEW held, NEW c, c.op \in {"open", "opendir"}, NEW lost,
         Waits(t, <<"open", 0>>), NEW path, NEW dir, NEW net \in Nets
  PROVE  Good(t, held, c, lost, OpenEx(t, path, dir, net))
<1> DEFINE k == <<"open", 0>>
           at == At(t, k)
           phase == IF t.call.phase = "handle" THEN "" ELSE "read"
           s == [t EXCEPT !.call.phase = IF @ = "handle" THEN "" ELSE "read"]
           h == Require(s, "HANDLE", at.req.id, net)
           w == Leave(h.f, k)
           v == [w EXCEPT !.handles = Append(@, Handle(h.p.of, dir))]
           place == [at EXCEPT !.pos = "sent"]
           again == Goto(h.f, k, place)
           on == [h.f EXCEPT !.call.phase = "handle read"]
           r == OpenEx(t, path, dir, net)
<1>0. k = SlotOf(c) /\ k[1] = "open" /\ Formed(t) /\ IsList(t.packets)
  BY SafeIds DEF SlotOf
<1>1. r = IF h.rc = "" THEN R(v, "") ELSE IF h.rc = "EAGAIN" THEN R(again, "EAGAIN")
          ELSE IF h.rc \in {"MORE", "WAIT"} THEN R(on, h.rc) ELSE R(w, "FAIL")
  BY DEF OpenEx, Handling
<1>2. k \in DOMAIN t.at /\ at = t.at[k] /\ at.pos = "sent" /\ at.pos \in Asking(k) /\ SlotOK(t, k)
  BY AtShape DEF Waits, Waiting, Asking, Safe
<1>3. /\ DOMAIN place = {"pos", "req", "total"} /\ place.pos = at.pos /\ place.req = at.req
      /\ place.total = at.total /\ place.pos # "idle"
  BY <1>2 DEF SlotOK
<1>4. /\ Formed(s) /\ Kept(t, s) /\ s.at = t.at /\ s.answered = t.answered /\ s.packets = t.packets
      /\ s.partial = t.partial /\ s.pos = t.pos /\ s.inbound = t.inbound
      /\ s.call.phase \in {"", "read"} /\ ~Handling(s)
  BY <1>0 DEF Formed, Fields, Kept, Handling
<1>. HIDE DEF s
<1>5. Safe(s) /\ At(s, k) = at
  BY <1>4 DEF Safe, SlotOK, Kept, At
<1>6. Looked(s, <<"HANDLE">>, at.req.id, h.f)
  <2>1. <<"HANDLE">> \in Seq({"HANDLE"}) /\ Len(<<"HANDLE">>) = 1 /\ <<"HANDLE">>[1] = "HANDLE"
    BY OneIsList
  <2>2. Answered(s, <<"HANDLE">>, at.req.id, net) = h
    BY <2>1 DEF Answered
  <2>3. IsList(s.packets)
    BY <1>0, <1>4
  <2>. HIDE DEF h
  <2>. QED
    BY <1>4, <2>1, <2>2, <2>3, AnsweredLooks
<1>7. ASSUME Tidy(t, held, c, lost)
      PROVE  /\ Brings(s, held, k, "HANDLE", h) /\ Meant(t, k, c, lost)
             /\ t.packets = <<>> /\ DOMAIN t.at = {k} /\ Framed(t)
             /\ \E hl, out : /\ ~t.closed => hl = held /\ out = t.outbound
                             /\ out = <<>> /\ \E p : Single(t, hl, p) /\ p.type = "HANDLE" /\ Fresh(t, k, p) /\ Shaped(p)
  <2>1. /\ Coming(t, held, k) /\ Meant(t, k, c, lost) /\ DOMAIN t.at = {k} /\ Framed(t)
    BY <1>0, <1>2, <1>7 DEF Tidy
  <2>2. t.packets = <<>>
    BY <2>1 DEF Coming, Handling
  <2>3. PICK hl, out : /\ ~t.closed => hl = held /\ out = t.outbound
                       /\ One(t, k, hl, out)
    BY <2>1 DEF Coming
  <2>4. out = <<>> /\ \E p : Single(t, hl, p) /\ p.type = "HANDLE" /\ Fresh(t, k, p) /\ Shaped(p)
    BY <2>3 DEF One, Mine
  <2>5. Only(s, held, k, "HANDLE")
    <3>1. PICK p : Single(t, hl, p) /\ p.type = "HANDLE" /\ Fresh(t, k, p) /\ Shaped(p)
      BY <2>4
    <3>2. Single(s, hl, p) /\ Fresh(s, k, p)
      BY <1>4, <3>1 DEF Single, Fresh, Kept
    <3>3. ~s.closed => hl = held /\ out = s.outbound
      BY <1>4, <2>3 DEF Kept
    <3>. QED
      BY <2>4, <3>1, <3>2, <3>3 DEF Only
  <2>6. Framed(s) /\ s.packets = <<>>
    BY <1>4, <2>1, <2>2 DEF Framed
  <2>7. Brings(s, held, k, "HANDLE", h)
    <3>1. k[1] # "init"
      BY <1>0
    <3>. HIDE DEF k, at
    <3>. QED
      BY <1>4, <2>5, <2>6, <3>1, RequireBrings
  <2>. QED
    BY <2>1, <2>2, <2>3, <2>4, <2>7
<1>. HIDE DEF h, r
<1>8. Formed(h.f) /\ h.f.at = t.at /\ h.f.request_id = t.request_id
  BY <1>4, <1>6 DEF Looked, Kept
<1>9. \A rc, u : SafeStep(s, k, rc, u) => SafeStep(t, k, rc, u)
  BY <1>4, SafeFrom DEF Kept
<1>10. Looked(s, <<"HANDLE">>, At(s, k).req.id, h.f) /\ k \in DOMAIN s.at /\ s.at[k].pos \in Asking(k)
  BY <1>2, <1>4, <1>5, <1>6
<1>11. Gone(h.f, w, k)
  BY <1>8, LeaveDoes
<1>12. \A rc : SafeStep(t, k, rc, w)
  <2>. HIDE DEF w, k
  <2>. QED
    BY <1>5, <1>9, <1>10, <1>11, LeavesSafely
<1>13. \A rc : SafeStep(t, k, rc, h.f) /\ ~Handling(h.f)
  BY <1>4, <1>5, <1>9, <1>10, LooksSafely
<1>14. ASSUME Tidy(t, held, c, lost) PROVE Kin(t, k, h.f)
  BY <1>4, <1>7, <1>14 DEF Brings, Kin, Kept
<1>. SUFFICES Good(t, held, c, lost, r)
  BY DEF r
<1>15. CASE h.rc = ""
  <2>1. r.f = v /\ r.rc = ""
    BY <1>1, <1>15 DEF R
  <2>. HIDE DEF w, k
  <2>2. Formed(w)
    BY <1>11 DEF Gone, Elsewhere, Steady, Kept
  <2>3. Alike(w, v)
    BY <2>2 DEF Alike, Steady, Kept, Formed, Fields
  <2>. HIDE DEF v
  <2>4. SafeStep(t, k, "", v)
    BY <1>12, <2>3, AlikeSafe
  <2>5. ASSUME Tidy(t, held, c, lost) PROVE Rest(v, held) /\ Kin(t, k, v)
    <3>1. Framed(h.f) /\ Quiet(h.f, held)
      BY <1>7, <1>15, <2>5 DEF Brings
    <3>2. Rest(w, held) /\ Kin(t, k, w)
      BY <1>7, <1>8, <1>11, <1>14, <2>5, <3>1 DEF Rest, Gone, Elsewhere, Steady, Kept, Quiet, Framed, Kin
    <3>. QED
      BY <2>3, <3>2, AlikeRest DEF Kin, Alike, Steady
  <2>. QED
    BY <1>0, <2>1, <2>4, <2>5 DEF Good, TidyStep
<1>16. CASE h.rc = "EAGAIN"
  <2>1. r.f = again /\ r.rc = "EAGAIN"
    BY <1>1, <1>16 DEF R
  <2>. HIDE DEF place
  <2>2. Placed(h.f, again, k, place)
    BY <1>3, <1>8, GotoDoes
  <2>. HIDE DEF again, k
  <2>3. /\ Formed(again) /\ again.request_id = h.f.request_id /\ again.mkdir_request_id = h.f.mkdir_request_id
        /\ again.packets = h.f.packets /\ again.answered = h.f.answered /\ again.call.phase = ""
        /\ DOMAIN again.at = DOMAIN t.at /\ again.at[k] = place
        /\ \A j \in DOMAIN t.at \ {k} : again.at[j] = t.at[j]
    BY <1>2, <1>8, <2>2 DEF Placed, Elsewhere, Steady, Kept
  <2>4. SafeStep(t, k, "EAGAIN", again)
    <3>1. Safe(h.f) /\ t.request_id <= h.f.request_id
      BY <1>13 DEF SafeStep
    <3>2. Safe(again)
      <4>1. \A j \in DOMAIN again.at \ {k} : SlotOK(again, j)
        BY <1>8, <2>3, <3>1 DEF Safe, SlotOK
      <4>2. SlotOK(h.f, k)
        BY <1>2, <1>8, <3>1 DEF Safe, k
      <4>3. SlotOK(again, k)
        BY <1>2, <1>3, <1>8, <2>3, <4>2 DEF SlotOK
      <4>. QED
        BY <2>3, <3>1, <4>1, <4>3 DEF Safe
    <3>3. \A x \in again.answered :
            \/ x \in t.answered
            \/ /\ k \in DOMAIN t.at /\ t.at[k].pos \in Asking(k)
               /\ x[1] = t.at[k].req.id /\ LooksLike(x[1], x[2])
      BY <1>13, <2>3 DEF SafeStep
    <3>. QED
      BY <1>2, <1>3, <2>3, <3>1, <3>2, <3>3 DEF SafeStep, Handling
  <2>5. ASSUME Tidy(t, held, c, lost)
        PROVE  Tidy(again, held, c, lost) /\ Kin(t, k, again) /\ again.packets = <<>>
    <3>1. h.f = s
      BY <1>7, <1>16, <2>5 DEF Brings
    <3>2. /\ again.packets = <<>> /\ again.inbound = t.inbound /\ again.partial = t.partial /\ again.pos = t.pos
          /\ again.closed = t.closed /\ again.outbound = t.outbound /\ again.request_id = t.request_id
          /\ again.version = t.version /\ ~Handling(again)
      BY <1>4, <1>7, <2>2, <2>3, <2>5, <3>1 DEF Placed, Elsewhere, Steady, Kept, Handling
    <3>3. Waits(again, k)
      BY <1>0, <1>2, <1>3, <2>3 DEF Waits, Waiting, k
    <3>4. Coming(again, held, k)
      <4>1. PICK hl, out : /\ ~t.closed => hl = held /\ out = t.outbound
                           /\ out = <<>> /\ \E p : Single(t, hl, p) /\ p.type = "HANDLE" /\ Fresh(t, k, p) /\ Shaped(p)
        BY <1>7, <2>5
      <4>2. PICK p : Single(t, hl, p) /\ p.type = "HANDLE" /\ Fresh(t, k, p) /\ Shaped(p)
        BY <4>1
      <4>3. Single(again, hl, p)
        BY <1>7, <2>5, <3>2, <4>2 DEF Single
      <4>4. Mine(again, k, p) /\ ~OK(p)
        BY <1>0, <3>2, <4>2 DEF Mine, Fresh, Types, OK
      <4>5. One(again, k, hl, out)
        BY <4>1, <4>2, <4>3, <4>4 DEF One
      <4>6. ~again.closed => hl = held /\ out = again.outbound
        BY <3>2, <4>1
      <4>. QED
        BY <3>2, <4>5, <4>6 DEF Coming
    <3>5. Meant(again, k, c, lost)
      <4>1. again.at[k].pos = t.at[k].pos /\ again.at[k].req = t.at[k].req /\ again.at[k].total = t.at[k].total
        BY <1>2, <1>3, <2>3 DEF k
      <4>. QED
        BY <1>7, <2>5, <3>2, <4>1 DEF Meant, Fresh
    <3>6. Framed(again) /\ DOMAIN again.at \subseteq {k}
      BY <1>7, <2>3, <2>5, <3>2 DEF Framed
    <3>7. Kin(t, k, again)
      BY <1>14, <2>3, <2>5 DEF Kin
    <3>. QED
      BY <1>0, <3>2, <3>3, <3>4, <3>5, <3>6, <3>7 DEF Tidy, k
  <2>6. lost \cup (IF c.op = "mkdir" THEN {again.at[k].req.id} \ {t.at[k].req.id} ELSE {}) = lost
    BY <1>0
  <2>7. k \in DOMAIN t.at /\ k \in DOMAIN again.at
    BY <1>2, <2>3 DEF k
  <2>. QED
    BY <1>0, <2>1, <2>4, <2>5, <2>6, <2>7 DEF Good, TidyStep
<1>17. CASE h.rc \in {"MORE", "WAIT"}
  <2>1. r.f = on /\ r.rc = h.rc
    BY <1>1, <1>17 DEF R
  <2>2. /\ Formed(on) /\ Kept(h.f, on) /\ on.at = h.f.at /\ on.answered = h.f.answered /\ on.packets = h.f.packets
        /\ on.partial = h.f.partial /\ on.pos = h.f.pos /\ on.inbound = h.f.inbound
        /\ on.call.phase = "handle read"
    BY <1>8 DEF Formed, Fields, Kept
  <2>. HIDE DEF on
  <2>3. Waits(on, k) /\ Handling(on)
    BY <1>2, <1>8, <2>2 DEF Waits, Waiting, Handling
  <2>4. SafeStep(t, k, h.rc, on)
    <3>1. Safe(h.f) /\ t.request_id <= h.f.request_id /\ on.request_id = h.f.request_id
      BY <1>13, <2>2 DEF SafeStep, Kept
    <3>2. Safe(on)
      BY <2>2, <3>1 DEF Safe, SlotOK, Kept
    <3>3. \A x \in on.answered :
            \/ x \in t.answered
            \/ /\ k \in DOMAIN t.at /\ t.at[k].pos \in Asking(k)
               /\ x[1] = t.at[k].req.id /\ LooksLike(x[1], x[2])
      BY <1>13, <2>2 DEF SafeStep
    <3>. QED
      BY <1>0, <1>2, <1>8, <2>2, <2>3, <3>1, <3>2, <3>3 DEF SafeStep
  <2>5. ASSUME Tidy(t, held, c, lost), h.rc = "MORE" PROVE Tidy(on, held, c, lost)
    <3>1. Same(s, h.f) /\ Framed(h.f)
      BY <1>7, <2>5 DEF Brings
    <3>2. /\ on.packets = <<>> /\ on.inbound = t.inbound
          /\ on.closed = t.closed /\ on.outbound = t.outbound /\ on.request_id = t.request_id
          /\ on.version = t.version
      BY <1>4, <1>7, <2>2, <2>5, <3>1 DEF Same, Kept
    <3>4. Coming(on, held, k)
      <4>1. PICK hl, out : /\ ~t.closed => hl = held /\ out = t.outbound
                           /\ out = <<>> /\ \E p : Single(t, hl, p) /\ p.type = "HANDLE" /\ Fresh(t, k, p) /\ Shaped(p)
        BY <1>7, <2>5
      <4>2. PICK p : Single(t, hl, p) /\ p.type = "HANDLE" /\ Fresh(t, k, p) /\ Shaped(p)
        BY <4>1
      <4>3. Single(on, hl, p)
        BY <1>7, <2>5, <3>2, <4>2 DEF Single
      <4>4. Mine(on, k, p) /\ ~OK(p)
        BY <1>0, <3>2, <4>2 DEF Mine, Fresh, Types, OK
      <4>5. One(on, k, hl, out)
        BY <4>1, <4>2, <4>3, <4>4 DEF One
      <4>6. ~on.closed => hl = held /\ out = on.outbound
        BY <3>2, <4>1
      <4>. QED
        BY <3>2, <4>5, <4>6 DEF Coming
    <3>5. Meant(on, k, c, lost)
      BY <1>2, <1>7, <1>8, <2>2, <2>5, <3>2 DEF Meant, Fresh
    <3>6. Framed(on) /\ DOMAIN on.at \subseteq {k}
      BY <1>7, <1>8, <2>2, <2>5, <3>1 DEF Framed
    <3>. QED
      BY <1>0, <2>3, <3>4, <3>5, <3>6 DEF Tidy
  <2>6. Tidy(t, held, c, lost) => Kin(t, k, on)
    BY <1>14, <2>2 DEF Kin
  <2>. HIDE DEF k
  <2>. QED
    BY <1>0, <1>17, <2>1, <2>4, <2>5, <2>6 DEF Good, TidyStep
<1>18. CASE h.rc \notin {"", "EAGAIN", "MORE", "WAIT"}
  <2>1. r.f = w /\ r.rc = "FAIL"
    BY <1>1, <1>18 DEF R
  <2>2. Tidy(t, held, c, lost) => Kin(t, k, w)
    BY <1>11, <1>14 DEF Kin, Gone, Elsewhere, Steady
  <2>. HIDE DEF w
  <2>3. k \in DOMAIN t.at
    BY <1>2
  <2>. HIDE DEF k
  <2>. QED
    BY <1>0, <1>12, <2>1, <2>2, <2>3 DEF Good, TidyStep
<1>. QED
  BY <1>15, <1>16, <1>17, <1>18

\* libssh2_sftp_open_ex, before its status and between that and its handle
LEMMA OpenExGood ==
  ASSUME NEW t, Safe(t), Handling(t) => Waits(t, <<"open", 0>>), NEW held, NEW c, c.op \in {"open", "opendir"},
         NEW lost, NEW path, NEW dir, NEW net \in Nets
  PROVE  Good(t, held, c, lost, OpenEx(t, path, dir, net))
<1>. SUFFICES ASSUME ~Handling(t)
              PROVE  Good(t, held, c, lost, OpenEx(t, path, dir, net))
  BY FollowsGood
<1> DEFINE k == <<"open", 0>>
           at == At(t, k)
           kind == IF dir THEN "OPENDIR" ELSE "OPEN"
           req == Request(kind, path, 0, 0, "")
           types == <<"HANDLE", "STATUS">>
           q == Exchange(t, k, req, types, net)
           w == Leave(q.f, k)
           v == [w EXCEPT !.handles = Append(@, Handle(q.p.of, dir))]
           place == [at EXCEPT !.pos = "sent"]
           again == Goto(q.f, k, place)
           on == [again EXCEPT !.last_errno = "OK", !.call.phase = "handle"]
           no == [q.f EXCEPT !.last_errno = q.p.what]
           r == OpenEx(t, path, dir, net)
<1>0. k = SlotOf(c) /\ k[1] = "open" /\ Formed(t)
  BY SafeIds DEF SlotOf
<1>1. r = IF q.rc # "" THEN R(q.f, q.rc)
          ELSE IF q.p.type = "HANDLE" THEN R(v, "")
          ELSE IF q.p.type = "STATUS" /\ q.p.what = "OK" THEN R(on, "MORE") ELSE R(no, "DENIED")
  <2>1. r = CASE q.rc # "" -> R(q.f, q.rc)
              [] q.rc = "" /\ q.p.type = "HANDLE" -> R(v, "")
              [] q.rc = "" /\ q.p.type = "STATUS" /\ q.p.what = "OK" -> R(on, "MORE")
              [] OTHER -> R(no, "DENIED")
    <3>1. t.call.phase \notin {"handle", "handle read"}
      BY DEF Handling
    <3>. QED
      BY <3>1, Zenon DEF OpenEx
  <2>. HIDE DEF q, v, on, no, r
  <2>. QED
    BY <2>1
<1>2. kind \in {"OPEN", "OPENDIR"} /\ {"id", "type"} \subseteq DOMAIN req /\ req.type = kind
  <2>. HIDE DEF kind
  <2>1. {"id", "type"} \subseteq DOMAIN req /\ req.type = kind
    BY DEF Request, Packet
  <2>. QED
    BY <2>1 DEF kind
<1>. HIDE DEF req, kind
<1>3. /\ {"created", "sent"} \subseteq Positions(k) \cap Asking(k)
      /\ Types(k) = {"HANDLE", "STATUS"}
  BY DEF Positions, Asking, Types
<1>4. Fits(k, req) /\ Fitting(k, types) /\ types \in Seq({"HANDLE", "STATUS"}) /\ Len(types) = 2
  <2>1. Len(types) = 2
    OBVIOUS
  <2>2. types \in Seq({"HANDLE", "STATUS"}) /\ Fitting(k, types)
    <3>. HIDE DEF k
    <3>. QED
      BY <1>0, <1>3, TypesAsked DEF Choosers
  <2>3. Fits(k, req)
    BY <1>2, <1>3 DEF Fits, Replies
  <2>. QED
    BY <2>1, <2>2, <2>3
<1>5. /\ at.pos \in {"idle", "created", "sent"}
      /\ at.pos # "idle" => k \in DOMAIN t.at /\ at = t.at[k]
  <2>1. k \in DOMAIN t.at => t.at[k].pos \in {"created", "sent"}
    BY DEF Safe, SlotOK, Positions
  <2>. QED
    BY <2>1, AtShape
<1>6. May(t, c)
  <2>. HIDE DEF k
  <2>. QED
    BY <1>0 DEF May
<1>. HIDE DEF types, r, k
<1>7. Exchanged(t, k, q)
  BY <1>2, <1>3, <1>4, <1>5, ExchangeSafe
<1>8. Tidy(t, held, c, lost) => TidyAsk(t, held, c, lost, q)
  BY <1>0, <1>2, <1>4, <1>5, <1>6, ExchangeTidy
<1>. HIDE DEF q
<1>9. SafeStep(t, k, q.rc, q.f) /\ Formed(q.f) /\ Safe(q.f)
  BY <1>7 DEF Exchanged, SafeStep, Safe
<1>. SUFFICES Good(t, held, c, lost, r)
  BY DEF r
<1>10. CASE q.rc # ""
  <2>1. r.f = q.f /\ r.rc = q.rc
    BY <1>1, <1>10 DEF R
  <2>2. Told(q, r)
    BY <1>10, <2>1 DEF Told
  <2>3. Tidy(t, held, c, lost) => TidyStep(t, held, c, lost, r.rc, r.f)
    BY <1>8, <1>9, <1>10, <2>2, ToldTidy
  <2>. QED
    BY <1>0, <1>9, <2>1, <2>3 DEF Good
<1>11. CASE q.rc = "" /\ q.p.type = "HANDLE"
  <2>1. r.f = v /\ r.rc = ""
    BY <1>1, <1>11 DEF R
  <2>2. Gone(q.f, w, k)
    BY <1>9, LeaveDoes
  <2>3. k \notin DOMAIN q.f.at
    BY <1>7, <1>11 DEF Exchanged
  <2>. HIDE DEF w
  <2>4. /\ Formed(w) /\ w.request_id = q.f.request_id /\ w.mkdir_request_id = q.f.mkdir_request_id
        /\ w.packets = q.f.packets /\ w.answered = q.f.answered /\ w.call.phase = ""
        /\ DOMAIN w.at = DOMAIN q.f.at /\ \A j \in DOMAIN w.at : w.at[j] = q.f.at[j]
    BY <2>2, <2>3 DEF Gone, Elsewhere, Steady, Kept
  <2>5. SafeStep(t, k, "", w)
    <3>1. Safe(w)
      BY <1>9, <2>4 DEF Safe, SlotOK
    <3>2. ~Handling(w)
      BY <2>4 DEF Handling
    <3>. QED
      BY <1>9, <2>3, <2>4, <3>1, <3>2 DEF SafeStep
  <2>6. Alike(w, v)
    BY <2>4 DEF Alike, Steady, Kept, Formed, Fields
  <2>. HIDE DEF v
  <2>7. SafeStep(t, k, "", v)
    BY <2>5, <2>6, AlikeSafe
  <2>8. ASSUME Tidy(t, held, c, lost) PROVE Rest(v, held) /\ Kin(t, k, v)
    <3>1. Rest(q.f, held) /\ Kin(t, k, q.f)
      BY <1>0, <1>8, <1>11, <2>8 DEF TidyAsk, Rest, Settled, OK
    <3>2. Rest(w, held) /\ Kin(t, k, w)
      BY <2>2, <3>1 DEF Rest, Gone, Elsewhere, Steady, Kept, Quiet, Framed, Kin
    <3>. QED
      BY <2>6, <3>2, AlikeRest DEF Kin, Alike, Steady
  <2>. QED
    BY <1>0, <2>1, <2>7, <2>8 DEF Good, TidyStep
<1>12. CASE q.rc = "" /\ q.p.type = "STATUS" /\ q.p.what = "OK"
  <2>1. r.f = on /\ r.rc = "MORE"
    BY <1>1, <1>12 DEF R
  <2>2. at.pos = "sent" /\ k \in DOMAIN t.at /\ at = t.at[k] /\ SlotOK(t, k)
    BY <1>5, <1>7, <1>12 DEF Exchanged, Safe, k
  <2>3. /\ DOMAIN place = {"pos", "req", "total"} /\ place.pos = "sent" /\ place.req = at.req
        /\ place.total = at.total /\ place.pos # "idle"
    BY <2>2 DEF SlotOK
  <2>. HIDE DEF place
  <2>4. Placed(q.f, again, k, place)
    BY <1>9, <2>3, GotoDoes
  <2>. HIDE DEF again
  <2>5. Formed(again)
    BY <2>4 DEF Placed, Elsewhere, Steady, Kept
  <2>6. /\ Formed(on) /\ on.at = again.at /\ on.request_id = again.request_id
        /\ on.mkdir_request_id = again.mkdir_request_id /\ on.packets = again.packets
        /\ on.answered = again.answered /\ on.partial = again.partial /\ on.pos = again.pos
        /\ on.inbound = again.inbound /\ on.closed = again.closed /\ on.outbound = again.outbound
        /\ on.version = again.version /\ on.call.phase = "handle"
    BY <2>5 DEF Formed, Fields
  <2>. HIDE DEF on
  <2>7. /\ on.at[k] = place /\ DOMAIN on.at = DOMAIN q.f.at \cup {k}
        /\ \A j \in DOMAIN q.f.at \ {k} : on.at[j] = q.f.at[j]
        /\ on.request_id = q.f.request_id
        /\ on.mkdir_request_id = q.f.mkdir_request_id /\ on.packets = q.f.packets
        /\ on.answered = q.f.answered /\ on.partial = q.f.partial /\ on.pos = q.f.pos
        /\ on.inbound = q.f.inbound /\ on.closed = q.f.closed /\ on.outbound = q.f.outbound
        /\ on.version = q.f.version
    BY <2>4, <2>6 DEF Placed, Elsewhere, Steady, Kept
  <2>8. Waits(on, k) /\ Handling(on)
    BY <1>0, <2>3, <2>6, <2>7 DEF Waits, Waiting, Handling
  <2>9. SafeStep(t, k, "MORE", on)
    <3>1. /\ t.request_id <= q.f.request_id /\ t.request_id \in Nat /\ q.f.request_id \in Nat
          /\ q.f.mkdir_request_id \in 0..q.f.request_id /\ IsList(q.f.packets)
      <4>1. t.request_id <= q.f.request_id
        BY <1>9 DEF SafeStep
      <4>2. t.request_id \in Nat
        BY SafeIds
      <4>. QED
        BY <1>9, <4>1, <4>2 DEF Safe
    <3>2. SlotOK(on, k)
      <4>1. at.req.id \in 0..q.f.request_id
        BY <2>2, <3>1 DEF SlotOK
      <4>. QED
        BY <1>3, <2>2, <2>3, <2>7, <4>1 DEF SlotOK
    <3>3. \A j \in DOMAIN on.at \ {k} : SlotOK(on, j)
      BY <1>9, <2>7 DEF Safe, SlotOK
    <3>4. Safe(on)
      BY <2>6, <2>7, <3>1, <3>2, <3>3 DEF Safe
    <3>5. \A j \in DOMAIN on.at \ {k} : j \in DOMAIN t.at /\ on.at[j] = t.at[j]
      BY <1>9, <2>7 DEF SafeStep
    <3>6. \A x \in on.answered :
            \/ x \in t.answered
            \/ /\ k \in DOMAIN t.at /\ t.at[k].pos \in Asking(k)
               /\ x[1] = t.at[k].req.id /\ LooksLike(x[1], x[2])
      BY <1>9, <2>7 DEF SafeStep
    <3>7. on.at[k].req.id = t.at[k].req.id /\ t.at[k].pos \in Asking(k)
      BY <1>3, <2>2, <2>3, <2>7
    <3>. QED
      BY <1>0, <2>2, <2>7, <2>8, <3>1, <3>4, <3>5, <3>6, <3>7 DEF SafeStep
  <2>10. ASSUME Tidy(t, held, c, lost) PROVE Tidy(on, held, c, lost) /\ Kin(t, k, on)
    <3>1. /\ Kin(t, k, q.f) /\ DOMAIN q.f.at = {} /\ q.f.request_id = t.request_id /\ q.f.version = t.version
          /\ Framed(q.f) /\ Settled(held, k, q.f, q.p)
      BY <1>0, <1>8, <1>12, <2>10 DEF TidyAsk
    <3>2. Follow(q.f, held, k)
      BY <1>0, <1>12, <3>1 DEF Settled, OK
    <3>3. PICK hl, out : /\ ~q.f.closed => hl = held /\ out = q.f.outbound
                         /\ out = <<>> /\ q.f.packets = <<>>
                         /\ \E h : /\ h.type = "HANDLE" /\ Fresh(q.f, k, h) /\ Shaped(h)
                                   /\ (q.f.inbound = <<h>> /\ hl = <<>>) \/ (q.f.inbound = <<>> /\ hl = <<h>>)
      BY <3>2 DEF Follow
    <3>4. PICK h : /\ h.type = "HANDLE" /\ Fresh(q.f, k, h) /\ Shaped(h)
                   /\ (q.f.inbound = <<h>> /\ hl = <<>>) \/ (q.f.inbound = <<>> /\ hl = <<h>>)
      BY <3>3
    <3>5. Single(on, hl, h)
      BY <2>7, <3>3, <3>4 DEF Single
    <3>6. Mine(on, k, h) /\ ~OK(h)
      BY <1>3, <2>7, <3>4 DEF Mine, Fresh, OK
    <3>7. One(on, k, hl, out)
      BY <3>3, <3>4, <3>5, <3>6 DEF One
    <3>8. ~on.closed => hl = held /\ out = on.outbound
      BY <2>7, <3>3
    <3>9. Coming(on, held, k)
      BY <2>7, <3>3, <3>7, <3>8 DEF Coming
    <3>10. Meant(on, k, c, lost)
      <4>1. Meant(t, k, c, lost)
        BY <1>0, <2>2, <2>10 DEF Tidy
      <4>2. on.at[k].pos = t.at[k].pos /\ on.at[k].req = t.at[k].req /\ on.at[k].total = t.at[k].total
        BY <2>2, <2>3, <2>7
      <4>. QED
        BY <2>7, <3>1, <4>1, <4>2 DEF Meant, Fresh
    <3>11. Framed(on) /\ DOMAIN on.at \subseteq {k} /\ Kin(t, k, on)
      BY <2>7, <3>1 DEF Framed, Kin
    <3>. QED
      BY <1>0, <2>8, <3>9, <3>10, <3>11 DEF Tidy
  <2>. QED
    BY <1>0, <2>1, <2>9, <2>10 DEF Good, TidyStep
<1>13. CASE q.rc = "" /\ q.p.type # "HANDLE" /\ ~(q.p.type = "STATUS" /\ q.p.what = "OK")
  <2>1. r.f = no /\ r.rc = "DENIED"
    BY <1>1, <1>13 DEF R
  <2>2. Alike(q.f, no)
    BY <1>9 DEF Alike, Steady, Kept, Formed, Fields
  <2>. HIDE DEF no
  <2>3. SafeStep(t, k, "DENIED", no)
    <3>1. q.rc # "EAGAIN"
      BY <1>13
    <3>. QED
      BY <1>9, <2>2, <3>1, AlikeSafe
  <2>4. ASSUME Tidy(t, held, c, lost) PROVE Rest(no, held) /\ Kin(t, k, no)
    <3>1. Rest(q.f, held) /\ Kin(t, k, q.f)
      BY <1>0, <1>8, <1>13, <2>4 DEF TidyAsk, Rest, Settled, OK
    <3>. QED
      BY <2>2, <3>1, AlikeRest DEF Kin, Alike, Steady
  <2>. QED
    BY <1>0, <2>1, <2>3, <2>4 DEF Good, TidyStep
<1>. QED
  BY <1>10, <1>11, <1>12, <1>13

\* Every step of every call.
LEMMA StepGood ==
  ASSUME NEW t, Safe(t), NEW held, NEW c \in Calls, NEW lost, Handling(t) => SlotOf(c)[1] = "open" /\ Waits(t, SlotOf(c)),
         NEW from, NEW net \in Nets
  PROVE  Good(t, held, c, lost, Step(t, c.op, c.of, c.arg, c.n, from, net))
<1> DEFINE r == Step(t, c.op, c.of, c.arg, c.n, from, net)
<1>0. /\ c.op = "stat"    => c.arg \in {"STAT", "LSTAT", "SETSTAT"}
      /\ c.op = "fstat"   => c.arg \in {"FSTAT", "FSETSTAT"}
      /\ c.op = "symlink" => c.arg \in {"SYMLINK", "READLINK", "REALPATH"}
  BY DEF Calls
<1>1. CASE c.op \in {"open", "opendir"}
  <2>1. r = OpenEx(t, c.arg, c.op = "opendir", net)
    <3>1. CASE c.op = "open"
      <4>1. r = OpenEx(t, c.arg, FALSE, net)
        BY <3>1 DEF Step
      <4>. QED
        BY <3>1, <4>1
    <3>2. CASE c.op = "opendir"
      <4>1. r = OpenEx(t, c.arg, TRUE, net)
        BY <3>2 DEF Step
      <4>. QED
        BY <3>2, <4>1
    <3>. QED
      BY <1>1, <3>1, <3>2
  <2>2. SlotOf(c) = <<"open", 0>>
    BY <1>1 DEF SlotOf
  <2>. QED
    BY <1>1, <2>1, <2>2, OpenExGood
<1>2. CASE c.op \notin {"open", "opendir"}
  <2>1. ~Handling(t)
    <3>1. SlotOf(c)[1] # "open"
      BY <1>2 DEF SlotOf
    <3>. QED
      BY <3>1
  <2>2. CASE c.op = "init"
    <3>1. r = Init(t, net)
      BY <2>2 DEF Step
    <3>. QED
      BY <2>1, <2>2, <3>1, InitGood
  <2>3. CASE c.op = "read"
    <3>1. r = Read(t, c.of, c.n, net)
      BY <2>3 DEF Step
    <3>. QED
      BY <2>1, <2>3, <3>1, ReadGood
  <2>4. CASE c.op = "readdir"
    <3>1. r = Readdir(t, c.of, net)
      BY <2>4 DEF Step
    <3>. QED
      BY <2>1, <2>4, <3>1, ReaddirGood
  <2>5. CASE c.op = "write"
    <3>1. r = Write(t, c.of, c.n, from, net)
      BY <2>5 DEF Step
    <3>. QED
      BY <2>1, <2>5, <3>1, WriteGood
  <2>6. CASE c.op = "seek"
    <3>1. r = Seek(t, c.of, c.n)
      BY <2>6 DEF Step
    <3>. QED
      BY <2>1, <2>6, <3>1, SeekGood
  <2>7. CASE c.op = "fstat"
    <3>1. r = Fstat(t, c.of, c.arg, net)
      BY <2>7 DEF Step
    <3>. QED
      BY <1>0, <2>1, <2>7, <3>1, FstatGood
  <2>8. CASE c.op = "close"
    <3>1. r = CloseHandle(t, c.of, net)
      BY <2>8 DEF Step
    <3>. QED
      BY <2>1, <2>8, <3>1, CloseHandleGood
  <2>9. CASE c.op = "unlink"
    <3>1. r = Unlink(t, c.arg, net)
      BY <2>9 DEF Step
    <3>. QED
      BY <2>1, <2>9, <3>1, UnlinkGood
  <2>10. CASE c.op = "rename"
    <3>1. r = Rename(t, c.arg, net)
      BY <2>10 DEF Step
    <3>. QED
      BY <2>1, <2>10, <3>1, RenameGood
  <2>11. CASE c.op = "mkdir"
    <3>1. r = Mkdir(t, c.arg, net)
      BY <2>11 DEF Step
    <3>. QED
      BY <2>1, <2>11, <3>1, MkdirGood
  <2>12. CASE c.op = "rmdir"
    <3>1. r = Rmdir(t, c.arg, net)
      BY <2>12 DEF Step
    <3>. QED
      BY <2>1, <2>12, <3>1, RmdirGood
  <2>13. CASE c.op = "stat"
    <3>1. r = Stat(t, "file", c.arg, net)
      BY <2>13 DEF Step
    <3>. QED
      BY <1>0, <2>1, <2>13, <3>1, StatGood
  <2>14. CASE c.op = "symlink"
    <3>1. r = Symlink(t, "link", c.arg, net)
      BY <2>14 DEF Step
    <3>2. c.arg \in {"SYMLINK", "READLINK", "REALPATH"}
      BY <1>0, <2>14
    <3>3. \A path : Good(t, held, c, lost, Symlink(t, path, c.arg, net))
      BY ONLY Safe(t), net \in Nets, <2>1, <2>14, <3>2, SymlinkGood
    <3>. QED
      BY <3>1, <3>3
  <2>15. CASE c.op = "shutdown"
    <3>1. r = Shutdown(t)
      BY <2>15 DEF Step
    <3>. QED
      BY <2>1, <2>15, <3>1, ShutdownGood
  <2>16. c.op \in Ops
    BY DEF Calls
  <2>. HIDE DEF r
  <2>. QED
    BY <1>2, <2>2, <2>3, <2>4, <2>5, <2>6, <2>7, <2>8, <2>9, <2>10, <2>11, <2>12, <2>13, <2>14, <2>15, <2>16
       DEF Ops, r
<1>. QED
  BY <1>1, <1>2

-----------------------------------------------------------------------------
(* The program. *)

\* The slot that SftpClient uses is the one of the call.
LEMMA SlotIs == Slot = SlotOf(Now)
<1>1. CASE Now.op = "opendir"
  BY <1>1 DEF Slot, SlotOf
<1>2. CASE Now.op = "close"
  BY <1>2 DEF Slot, SlotOf
<1>3. CASE Now.op # "opendir" /\ Now.op # "close"
  BY <1>3 DEF Slot, SlotOf
<1>. QED
  BY <1>1, <1>2, <1>3

\* The calls that are left are the last ones of those there were: the shutdown,
\* which asks for no handle, is always among them.
LEMMA NextCallsLeft ==
  ASSUME Program(app), app.todo # <<>>, NEW r
  PROVE  /\ NextCalls(r) \in Seq(Calls)
         /\ NextCalls(r) # <<>> => Last(NextCalls(r)).op = "shutdown"
         /\ r.rc = "EAGAIN" /\ Now.again => NextCalls(r) = app.todo
<1> DEFINE rest == Tail(app.todo)
           can  == {i \in DOMAIN rest : rest[i].op \in OnHandle => rest[i].of \in DOMAIN r.f.handles}
           next == CHOOSE i \in can : \A j \in can : i <= j
           left == SubSeq(rest, next, Len(rest))
<1>1. app.todo \in Seq(Calls) /\ Last(app.todo).op = "shutdown" /\ Len(app.todo) \in Nat \ {0}
  BY DEF Program
<1>2. rest \in Seq(Calls) /\ Len(rest) = Len(app.todo) - 1 /\ \A i \in 1..Len(rest) : rest[i] = app.todo[i + 1]
  BY <1>1
<1>3. CASE r.rc = "EAGAIN" /\ Now.again
  <2>1. NextCalls(r) = app.todo
    BY <1>3 DEF NextCalls
  <2>. QED
    BY <1>1, <2>1
<1>4. CASE ~(r.rc = "EAGAIN" /\ Now.again) /\ r.f.channel = "ready" /\ rest # <<>>
  <2>1. NextCalls(r) = left
    BY <1>4 DEF NextCalls
  <2>2. Len(rest) \in Nat \ {0} /\ DOMAIN rest = 1..Len(rest)
    <3>1. rest \in Seq(Calls) /\ rest # <<>>
      BY <1>2, <1>4
    <3>. HIDE DEF rest
    <3>. QED
      BY <3>1, EmptySeq
  <2>3. rest[Len(rest)] = Last(app.todo)
    <3>. HIDE DEF rest
    <3>1. rest[Len(rest)] = app.todo[Len(rest) + 1]
      <4>1. Len(rest) \in 1..Len(rest)
        BY <2>2
      <4>. QED
        BY <1>2, <4>1
    <3>2. Len(rest) + 1 = Len(app.todo)
      BY <1>1, <1>2, <2>2
    <3>. QED
      BY <3>1, <3>2 DEF Last
  <2>4. can \in SUBSET Nat /\ can \subseteq 1..Len(rest) /\ Len(rest) \in can
    <3>1. rest[Len(rest)].op \notin OnHandle
      BY <1>1, <2>3 DEF OnHandle
    <3>. HIDE DEF rest
    <3>. QED
      BY <2>2, <3>1
  <2>5. next \in can
    <3>1. \E i \in can : \A j \in can : i <= j
      <4>. HIDE DEF can
      <4>1. can # {}
        BY <2>4
      <4>. QED
        BY <2>4, <4>1, LeastElement
    <3>. HIDE DEF can
    <3>. QED
      BY <3>1
  <2>6. next \in 1..Len(rest)
    BY <2>4, <2>5
  <2>. HIDE DEF next, rest
  <2>7. /\ left \in Seq(Calls) /\ Len(left) = Len(rest) - next + 1
        /\ \A i \in 1..(Len(rest) - next + 1) : left[i] = rest[next - 1 + i]
    <3>1. Len(rest) \in 0..Len(rest) /\ next \in 1..(Len(rest) + 1)
      BY <2>2, <2>6
    <3>. QED
      BY <1>2, <3>1, Stretch
  <2>. HIDE DEF left
  <2>8. left[Len(left)] = rest[Len(rest)]
    <3>1. Len(left) \in 1..(Len(rest) - next + 1) /\ next - 1 + Len(left) = Len(rest)
      BY <2>2, <2>6, <2>7
    <3>. QED
      BY <2>7, <3>1
  <2>9. Last(left).op = "shutdown"
    BY <1>1, <2>3, <2>8 DEF Last
  <2>. QED
    BY <1>4, <2>1, <2>7, <2>9
<1>5. CASE ~(r.rc = "EAGAIN" /\ Now.again) /\ ~(r.f.channel = "ready" /\ rest # <<>>)
  <2>1. NextCalls(r) = <<>>
    BY <1>5 DEF NextCalls
  <2>. QED
    BY <1>5, <2>1
<1>. QED
  BY <1>3, <1>4, <1>5

\* What a call leaves behind that returns.
GivesUp(r) == r.rc \in {"FAIL", "TIMEOUT"} \/ (r.rc = "EAGAIN" /\ ~Now.again)

Leaves(r, a) ==
  /\ DOMAIN a = DOMAIN app /\ a.busy = FALSE /\ a.todo = NextCalls(r)
  /\ a.givenUp = IF GivesUp(r) /\ At(f, Slot).pos # "idle" THEN app.givenUp \cup {At(f, Slot).req.id} ELSE app.givenUp
  /\ a.mislaid = IF Now.op = "mkdir" /\ r.rc = "EAGAIN"
                   THEN app.mislaid \cup ({At(r.f, Slot).req.id} \ {At(f, Slot).req.id}) ELSE app.mislaid

\* Returned does that, whatever else it writes down.
LEMMA ReturnedLeaves ==
  ASSUME Program(app), NEW r
  PROVE  Leaves(r, Returned(r))
<1> DEFINE done == [app EXCEPT
                   !.busy = FALSE, !.todo = NextCalls(r),
                   !.buffer = IF r.rc = "EAGAIN" /\ Now.again THEN r.f.call.got ELSE <<>>,
                   !.left = IF GivesUp(r) /\ r.rc = "EAGAIN" THEN @ \cup {Slot} ELSE @,
                   !.givenUp = IF GivesUp(r) /\ At(f, Slot).pos # "idle" THEN @ \cup {At(f, Slot).req.id} ELSE @,
                   !.mislaid = IF Now.op = "mkdir" /\ r.rc = "EAGAIN"
                                 THEN @ \cup ({At(r.f, Slot).req.id} \ {At(f, Slot).req.id}) ELSE @]
<1>1. \/ Returned(r) = [done EXCEPT !.paths = Append(@, Now.arg), !.base = Append(@, 0),
                                  !.read = Append(@, <<>>), !.wrote = Append(@, 0)]
      \/ Returned(r) = [done EXCEPT !.read[Now.of] = @ \o r.f.call.got]
      \/ Returned(r) = [done EXCEPT !.wrote[Now.of] = @ + Now.n]
      \/ Returned(r) = [done EXCEPT !.base[Now.of] = Now.n, !.read[Now.of] = <<>>, !.wrote[Now.of] = 0]
      \/ Returned(r) = [done EXCEPT !.lossy = @ \cup {Now.of}]
      \/ Returned(r) = done
  BY Zenon DEF Returned, GivesUp
<1>2. Leaves(r, done)
  <2>1. {"busy", "todo", "givenUp", "mislaid"} \subseteq DOMAIN app
    BY DEF Program
  <2>. QED
    BY <2>1 DEF Leaves
<1>. HIDE DEF done
<1>3. Leaves(r, [done EXCEPT !.paths = Append(@, Now.arg), !.base = Append(@, 0),
                             !.read = Append(@, <<>>), !.wrote = Append(@, 0)])
  BY <1>2 DEF Leaves
<1>4. Leaves(r, [done EXCEPT !.read[Now.of] = @ \o r.f.call.got])
  BY <1>2 DEF Leaves
<1>5. Leaves(r, [done EXCEPT !.wrote[Now.of] = @ + Now.n])
  BY <1>2 DEF Leaves
<1>6. Leaves(r, [done EXCEPT !.base[Now.of] = Now.n, !.read[Now.of] = <<>>, !.wrote[Now.of] = 0])
  BY <1>2 DEF Leaves
<1>7. Leaves(r, [done EXCEPT !.lossy = @ \cup {Now.of}])
  BY <1>2 DEF Leaves
<1>. QED
  BY ONLY <1>1, <1>2, <1>3, <1>4, <1>5, <1>6, <1>7

\* Every scenario begins in the invariant.
LEMMA StartsInv == Starts => IInv
<1>. SUFFICES ASSUME NEW x \in Scenarios, Begins(x)
              PROVE  IInv
  BY DEF Starts
<1>1. /\ x.todo \in Seq(Calls) /\ x.todo # <<>> /\ Last(x.todo).op = "shutdown"
      /\ x.sftp.request_id \in Nat
      /\ x.sftp = [NewSftp(x.sftp.request_id) EXCEPT !.refused = x.sftp.refused]
      /\ x.server = Server(x.server.version, x.server.may)
  BY ProgramAssumption
<1>2. /\ DOMAIN f = Fields /\ DOMAIN f.call = {"phase", "got"} /\ f.call.phase = ""
      /\ f.request_id \in Nat /\ f.mkdir_request_id = 0 /\ f.packets = <<>> /\ DOMAIN f.at = {}
      /\ f.inbound = <<>> /\ f.outbound = <<>> /\ f.partial = FALSE /\ f.pos = 0 /\ f.answered = {}
  <2> DEFINE id == x.sftp.request_id
             new == NewSftp(id)
  <2>1. /\ DOMAIN new = Fields /\ DOMAIN new.call = {"phase", "got"} /\ new.call.phase = ""
        /\ new.request_id = id /\ new.mkdir_request_id = 0 /\ new.packets = <<>> /\ DOMAIN new.at = {}
        /\ new.inbound = <<>> /\ new.outbound = <<>> /\ new.partial = FALSE /\ new.pos = 0 /\ new.answered = {}
    BY DEF NewSftp, Fields, Call
  <2>. HIDE DEF new
  <2>2. f = [new EXCEPT !.refused = x.sftp.refused]
    BY <1>1 DEF Begins, new
  <2>. QED
    BY <1>1, <2>1, <2>2 DEF Fields
<1>3. DOMAIN srv = {"version", "may", "handles", "written", "held"} /\ srv.held = <<>>
  BY <1>1 DEF Begins, Server
<1>4. /\ DOMAIN app = {"todo", "busy", "buffer", "paths", "base", "read", "wrote", "lossy", "givenUp", "left",
                       "taken", "mislaid", "parts"}
      /\ app.todo = x.todo /\ app.busy = FALSE /\ app.givenUp = {}
  BY DEF Begins
<1>5. Safe(f)
  <2>1. IsList(f.packets)
    <3>1. f.packets = <<>>
      BY <1>2
    <3>2. IsList(<<>>)
      BY DEF IsList
    <3>. QED
      BY ONLY <3>1, <3>2
  <2>2. f.mkdir_request_id \in 0..f.request_id
    <3>1. f.mkdir_request_id = 0 /\ f.request_id \in Nat
      BY <1>2
    <3>. QED
      BY ONLY <3>1
  <2>. QED
    BY <1>2, <2>1, <2>2 DEF Safe, Formed
<1>6. Program(app)
  BY <1>1, <1>4 DEF Program
<1>7. Rest(f, srv.held)
  BY <1>2, <1>3 DEF Rest, Quiet, Framed
<1>8. Orderly(f, srv.held, app)
  BY <1>1, <1>2, <1>4, <1>7, RestTidy DEF Orderly
<1>9. ~Handling(f)
  BY <1>2 DEF Handling
<1>. QED
  BY <1>2, <1>3, <1>4, <1>5, <1>6, <1>8, <1>9 DEF IInv, Inv

\* What the program makes of a step of its call, which returns rc.
Follows(t, a, rc, u, b) ==
  LET c == Head(a.todo)
      k == SlotOf(c)
      gives == rc \in {"FAIL", "TIMEOUT"} \/ (rc = "EAGAIN" /\ ~c.again)
  IN  /\ Program(b)
      /\ rc = "MORE" => b.todo = a.todo /\ b.busy /\ b.givenUp = a.givenUp /\ b.mislaid = a.mislaid
      /\ rc # "MORE" =>
           /\ ~b.busy /\ (rc = "EAGAIN" /\ c.again => b.todo = a.todo)
           /\ b.givenUp = IF gives /\ At(t, k).pos # "idle" THEN a.givenUp \cup {At(t, k).req.id} ELSE a.givenUp
           /\ b.mislaid = IF c.op = "mkdir" /\ rc = "EAGAIN"
                            THEN a.mislaid \cup ({At(u, k).req.id} \ {At(t, k).req.id}) ELSE a.mislaid

\* Answers, while the program goes on.
LEMMA AnswersFollow ==
  ASSUME NEW t, NEW v, NEW a, Inv(t, v, a), a.todo # <<>>, NEW k, k = SlotOf(Head(a.todo)), NEW rc, NEW u,
         SafeStep(t, k, rc, u), a.givenUp = {} => Kin(t, k, u), NEW x \in u.answered
  PROVE  x[1] = x[2] \/ (LooksLike(x[1], x[2]) /\ Suspect(a, x[1]))
<1>1. CASE x \in t.answered
  BY <1>1 DEF Inv
<1>2. CASE x \notin t.answered
  <2>1. k \in DOMAIN t.at /\ t.at[k].pos \in Asking(k) /\ x[1] = t.at[k].req.id /\ LooksLike(x[1], x[2])
    BY <1>2 DEF SafeStep
  <2>2. CASE a.givenUp # {}
    BY <2>1, <2>2 DEF Inv
  <2>3. CASE a.givenUp = {}
    <3>1. x[2] = t.request_id - 1
      BY <1>2, <2>3 DEF Kin
    <3>2. Meant(t, k, Head(a.todo), a.mislaid)
      BY <2>1, <2>3 DEF Inv, Orderly, Tidy
    <3>3. k[1] # "init" /\ t.at[k].pos \in {"created", "sent"}
      BY <2>1 DEF Asking
    <3>4. t.at[k].req.id = t.request_id - 1 \/ t.at[k].req.id \in a.mislaid
      BY <3>2, <3>3 DEF Meant, Fresh
    <3>. QED
      BY <2>1, <3>1, <3>4 DEF Suspect
  <2>. QED
    BY <2>2, <2>3
<1>. QED
  BY <1>1, <1>2

\* Requests, once one has been given up.
LEMMA RequestsFollow ==
  ASSUME NEW t, NEW v, NEW a, Inv(t, v, a), a.todo # <<>>, NEW k, k = SlotOf(Head(a.todo)), NEW rc, NEW u,
         SafeStep(t, k, rc, u), NEW b, Follows(t, a, rc, u, b), b.givenUp # {},
         NEW j \in DOMAIN u.at, u.at[j].pos \in Asking(j)
  PROVE  Suspect(b, u.at[j].req.id)
<1>1. a.givenUp \subseteq b.givenUp /\ a.mislaid \subseteq b.mislaid
  BY DEF Follows
<1>2. t.request_id \in Nat /\ a.givenUp \subseteq 0..t.request_id /\ \A l \in DOMAIN t.at : SlotOK(t, l)
  BY DEF Inv, Safe
<1>3. a.givenUp = {} => k \in DOMAIN t.at /\ t.at[k].req.id \in b.givenUp
  <2>1. a.givenUp = {} => At(t, k).pos # "idle" /\ At(t, k).req.id \in b.givenUp
    BY DEF Follows
  <2>2. Safe(t)
    BY DEF Inv
  <2>. QED
    BY <2>1, <2>2, AtShape
<1>4. ASSUME NEW l \in DOMAIN t.at, t.at[l].pos \in Asking(l) PROVE Suspect(b, t.at[l].req.id)
  <2>1. CASE a.givenUp # {}
    BY <1>1, <1>4, <2>1 DEF Inv, Suspect
  <2>2. CASE a.givenUp = {}
    <3>1. l = k
      BY <2>2 DEF Inv, Orderly, Tidy
    <3>2. t.at[k].req.id \in b.givenUp /\ t.at[k].req.id \in Int
      BY <1>2, <1>3, <2>2 DEF SlotOK
    <3>3. t.at[k].req.id <= t.at[k].req.id
      BY <3>2
    <3>. QED
      BY <3>1, <3>2, <3>3 DEF Suspect
  <2>. QED
    BY <2>1, <2>2
<1>5. CASE j # k
  <2>1. j \in DOMAIN t.at /\ u.at[j] = t.at[j]
    BY <1>5 DEF SafeStep
  <2>. QED
    BY <1>4, <2>1
<1>6. CASE j = k /\ u.at[k].req.id = t.request_id
  <2>1. PICK g \in b.givenUp : g \in 0..t.request_id
    <3>1. CASE a.givenUp # {}
      BY <1>1, <1>2, <3>1
    <3>2. CASE a.givenUp = {}
      BY <1>2, <1>3, <3>2 DEF SlotOK
    <3>. QED
      BY <3>1, <3>2
  <2>2. g <= u.at[j].req.id
    BY <1>2, <1>6, <2>1
  <2>. QED
    BY <2>1, <2>2 DEF Suspect
<1>7. CASE j = k /\ k \in DOMAIN t.at /\ t.at[k].pos \in Asking(k) /\ u.at[k].req.id = t.at[k].req.id
  BY <1>4, <1>7
<1>8. CASE j = k /\ k[1] = "mkdir" /\ rc = "EAGAIN" /\ k \in DOMAIN t.at /\ t.at[k].pos \in Asking(k)
           /\ u.at[k].req.id # t.at[k].req.id
  <2>1. At(t, k) = t.at[k] /\ At(u, k) = u.at[k]
    BY <1>8 DEF At
  <2>2. Head(a.todo).op = "mkdir"
    BY <1>8 DEF SlotOf
  <2>3. u.at[k].req.id \in b.mislaid
    BY <1>8, <2>1, <2>2 DEF Follows
  <2>. QED
    BY <1>8, <2>3 DEF Suspect
<1>9. \/ u.at[k].req.id = t.request_id
      \/ k \in DOMAIN t.at /\ t.at[k].pos \in Asking(k) /\ u.at[k].req.id = t.at[k].req.id
      \/ k[1] = "mkdir" /\ rc = "EAGAIN" /\ k \in DOMAIN t.at /\ t.at[k].pos \in Asking(k)
      \/ j # k
  BY DEF SafeStep
<1>. QED
  BY <1>5, <1>6, <1>7, <1>8, <1>9

\* As long as no request has been given up every packet has its call.
LEMMA OrderFollows ==
  ASSUME NEW t, NEW v, NEW a, Inv(t, v, a), a.todo # <<>>, a.busy, NEW rc, NEW u, rc # "WAIT",
         NEW c, c = Head(a.todo), Tidy(t, v.held, c, a.mislaid) => TidyStep(t, v.held, c, a.mislaid, rc, u),
         NEW b, Follows(t, a, rc, u, b), b.givenUp = {}
  PROVE  Orderly(u, v.held, b)
<1> DEFINE k == SlotOf(c)
           held == v.held
<1>1. a.givenUp = {} /\ Safe(t)
  BY DEF Follows, Inv
<1>2. TidyStep(t, held, c, a.mislaid, rc, u)
  BY <1>1 DEF Inv, Orderly
<1>3. k \in DOMAIN t.at => At(t, k).pos # "idle" /\ At(t, k) = t.at[k]
  BY <1>1, AtShape
<1>4. CASE rc = "MORE" /\ Tidy(u, held, c, a.mislaid)
  BY <1>4 DEF Follows, Orderly
<1>5. CASE /\ rc = "EAGAIN" /\ k \in DOMAIN t.at /\ k \in DOMAIN u.at /\ u.packets = <<>>
           /\ Tidy(u, held, c, a.mislaid \cup (IF c.op = "mkdir" THEN {u.at[k].req.id} \ {t.at[k].req.id} ELSE {}))
  <2>1. c.again
    BY <1>3, <1>5 DEF Follows
  <2>2. b.todo = a.todo
    BY <1>5, <2>1 DEF Follows
  <2>3. b.mislaid = a.mislaid \cup (IF c.op = "mkdir" THEN {u.at[k].req.id} \ {t.at[k].req.id} ELSE {})
    <3>1. At(u, k) = u.at[k]
      BY <1>5 DEF At
    <3>2. b.mislaid = IF c.op = "mkdir" THEN a.mislaid \cup ({u.at[k].req.id} \ {t.at[k].req.id}) ELSE a.mislaid
      BY <1>3, <1>5, <3>1 DEF Follows
    <3>. QED
      BY <3>2
  <2>. QED
    BY <1>5, <2>2, <2>3 DEF Orderly
<1>6. CASE rc \in {"FAIL", "TIMEOUT"} /\ k \in DOMAIN t.at
  <2>1. FALSE
    BY <1>3, <1>6 DEF Follows
  <2>. QED
    BY <2>1
<1>7. CASE rc \in {"", "DENIED", "FAIL"} /\ Rest(u, held)
  <2>1. DOMAIN u.at = {} /\ Quiet(u, held) /\ u.packets = <<>>
    BY <1>7 DEF Rest, Quiet
  <2>2. Tidy(u, held, Head(b.todo), b.mislaid)
    BY <1>7, RestTidy
  <2>. QED
    BY <2>1, <2>2 DEF Orderly
<1>. QED
  BY <1>2, <1>4, <1>5, <1>6, <1>7 DEF TidyStep

\* A step of the call, and what the program makes of it.
LEMMA CallKeepsInv ==
  ASSUME NEW t, NEW v, NEW a, Inv(t, v, a), a.todo # <<>>, a.busy, NEW rc, NEW u, rc # "WAIT",
         NEW c, c = Head(a.todo), SafeStep(t, SlotOf(c), rc, u),
         Tidy(t, v.held, c, a.mislaid) => TidyStep(t, v.held, c, a.mislaid, rc, u),
         NEW b, Follows(t, a, rc, u, b)
  PROVE  Inv(u, v, b)
<1> DEFINE k == SlotOf(c)
<1>1. Safe(u) /\ Program(b) /\ Safe(t) /\ t.request_id <= u.request_id
  BY DEF SafeStep, Follows, Inv
<1>2. a.givenUp = {} => Kin(t, k, u)
  <2>1. a.givenUp = {} => Tidy(t, v.held, c, a.mislaid)
    BY DEF Inv, Orderly
  <2>. QED
    BY <2>1 DEF TidyStep
<1>3. a.givenUp \subseteq b.givenUp /\ a.mislaid \subseteq b.mislaid
  BY DEF Follows
<1>4. b.givenUp \subseteq 0..u.request_id
  <2>1. t.request_id \in Nat /\ u.request_id \in Nat /\ 0..t.request_id \subseteq 0..u.request_id
    BY <1>1 DEF Safe
  <2>2. a.givenUp \subseteq 0..t.request_id
    BY DEF Inv
  <2>3. At(t, k).pos # "idle" => At(t, k).req.id \in 0..t.request_id
    <3>1. At(t, k).pos # "idle" => k \in DOMAIN t.at /\ At(t, k) = t.at[k]
      BY <1>1, AtShape
    <3>2. k \in DOMAIN t.at => t.at[k].req.id \in 0..t.request_id
      BY <1>1 DEF Safe, SlotOK
    <3>. QED
      BY <3>1, <3>2
  <2>4. b.givenUp = a.givenUp \/ (At(t, k).pos # "idle" /\ b.givenUp = a.givenUp \cup {At(t, k).req.id})
    BY DEF Follows
  <2>. QED
    BY <2>1, <2>2, <2>3, <2>4
<1>5. b.busy /\ Handling(u) => SlotOf(Head(b.todo))[1] = "open" /\ Waits(u, SlotOf(Head(b.todo)))
  <2>1. b.busy => b.todo = a.todo
    BY DEF Follows
  <2>. QED
    BY <2>1 DEF SafeStep
<1>6. \A x \in u.answered : x[1] = x[2] \/ (LooksLike(x[1], x[2]) /\ Suspect(b, x[1]))
  <2>1. SUFFICES ASSUME NEW x \in u.answered
                 PROVE  x[1] = x[2] \/ (LooksLike(x[1], x[2]) /\ Suspect(b, x[1]))
    OBVIOUS
  <2>2. x[1] = x[2] \/ (LooksLike(x[1], x[2]) /\ Suspect(a, x[1]))
    BY <1>2, AnswersFollow
  <2>. QED
    BY <1>3, <2>2 DEF Suspect
<1>7. b.givenUp # {} => \A j \in DOMAIN u.at : u.at[j].pos \in Asking(j) => Suspect(b, u.at[j].req.id)
  BY RequestsFollow
<1>8. b.givenUp = {} => Orderly(u, v.held, b)
  BY OrderFollows
<1>9. DOMAIN v = {"version", "may", "handles", "written", "held"}
  BY DEF Inv
<1>. QED
  BY <1>1, <1>4, <1>5, <1>6, <1>7, <1>8, <1>9 DEF Inv

\* A step of the call that is running keeps the invariant.
LEMMA RunKeepsInv ==
  ASSUME IInv, NEW net \in Nets, Run(net)
  PROVE  IInv'
<1> DEFINE r == Result(net)
<1>1. /\ app.todo # <<>> /\ app.busy /\ r.rc # "WAIT" /\ f' = r.f
      /\ app' = [(IF r.rc = "MORE" THEN app ELSE Returned(r)) EXCEPT
                    !.parts = IF net = "whole" THEN @ ELSE @ - 1]
      /\ srv' = srv
  BY DEF Run
<1>2. Inv(f, srv, app) /\ Safe(f) /\ Program(app)
  BY DEF IInv, Inv
<1>3. Now \in Calls /\ Now = Head(app.todo)
  BY <1>1, <1>2 DEF Program, Now
<1>4. Good(f, srv.held, Now, app.mislaid, r)
  <2>1. Handling(f) => SlotOf(Now)[1] = "open" /\ Waits(f, SlotOf(Now))
    BY <1>1, <1>2, <1>3 DEF Inv
  <2>. QED
    BY <1>2, <1>3, <2>1, StepGood DEF Result
<1>5. Follows(f, app, r.rc, r.f, app')
  <2>. HIDE DEF r
  <2>1. Leaves(r, Returned(r))
    BY <1>2, ReturnedLeaves
  <2>2. CASE r.rc = "MORE"
    <3>1. /\ DOMAIN app' = DOMAIN app /\ app'.todo = app.todo /\ app'.busy = app.busy
          /\ app'.givenUp = app.givenUp /\ app'.mislaid = app.mislaid
      BY <1>1, <1>2, <2>2 DEF Program
    <3>2. Program(app')
      BY <1>2, <3>1 DEF Program
    <3>. QED
      BY <1>1, <2>2, <3>1, <3>2 DEF Follows
  <2>3. CASE r.rc # "MORE"
    <3>1. app' = [Returned(r) EXCEPT !.parts = IF net = "whole" THEN @ ELSE @ - 1]
      BY <1>1, <2>3
    <3>2. /\ DOMAIN app' = DOMAIN Returned(r) /\ app'.todo = Returned(r).todo /\ app'.busy = Returned(r).busy
          /\ app'.givenUp = Returned(r).givenUp /\ app'.mislaid = Returned(r).mislaid
      <4>1. {"todo", "busy", "givenUp", "mislaid"} \subseteq DOMAIN Returned(r)
        BY <1>2, <2>1 DEF Leaves, Program
      <4>. QED
        BY <3>1, <4>1
    <3>3. /\ NextCalls(r) \in Seq(Calls)
          /\ NextCalls(r) # <<>> => Last(NextCalls(r)).op = "shutdown"
          /\ r.rc = "EAGAIN" /\ Now.again => NextCalls(r) = app.todo
      BY <1>1, <1>2, NextCallsLeft
    <3>4. Program(app')
      BY <1>2, <2>1, <3>2, <3>3 DEF Program, Leaves
    <3>. QED
      BY <1>3, <2>1, <2>3, <3>2, <3>3, <3>4, SlotIs DEF Follows, Leaves, GivesUp
  <2>. QED
    BY <2>2, <2>3
<1>. HIDE DEF r
<1>6. Inv(r.f, srv, app')
  BY <1>1, <1>2, <1>3, <1>4, <1>5, CallKeepsInv DEF Good
<1>. QED
  BY <1>1, <1>6 DEF IInv

\* The next call begins, where the last one left the functions.
LEMMA BeginKeepsInv ==
  ASSUME IInv, Begin
  PROVE  IInv'
<1> DEFINE t == [f EXCEPT !.call = Call(app.buffer)]
           b == [app EXCEPT !.busy = TRUE, !.taken = @ \/ (Slot \in app.left /\ At(f, Slot).pos # "idle")]
<1>1. app.todo # <<>> /\ ~app.busy /\ f' = t /\ app' = b /\ srv' = srv
  BY DEF Begin
<1>2. Inv(f, srv, app) /\ Safe(f) /\ Program(app) /\ Formed(f)
  BY DEF IInv, Inv, Safe
<1>3. Steady(f, t) /\ t.at = f.at /\ t.call.phase = ""
  BY <1>2 DEF Steady, Kept, Formed, Fields, Call
<1>4. DOMAIN b = DOMAIN app /\ b.todo = app.todo /\ b.busy = TRUE /\ b.givenUp = app.givenUp /\ b.mislaid = app.mislaid
  BY <1>2 DEF Program
<1>. HIDE DEF t, b
<1>5. Safe(t) /\ ~Handling(t)
  BY <1>2, <1>3 DEF Safe, SlotOK, Handling, Steady, Kept
<1>6. Program(b)
  BY <1>1, <1>2, <1>4 DEF Program
<1>7. app.givenUp = {} => Orderly(t, srv.held, b)
  <2>. SUFFICES ASSUME app.givenUp = {} PROVE Tidy(t, srv.held, Head(app.todo), app.mislaid)
    BY <1>1, <1>4 DEF Orderly
  <2> DEFINE c == Head(app.todo)
             k == SlotOf(c)
             held == srv.held
  <2>1. Tidy(f, held, c, app.mislaid) /\ f.packets = <<>>
    BY <1>1, <1>2 DEF Inv, Orderly
  <2>. HIDE DEF c
  <2>2. Waits(t, k) <=> Waits(f, k)
    BY <1>3 DEF Waits
  <2>3. ASSUME Coming(f, held, k) PROVE Coming(t, held, k)
    <3>1. PICK hl, out : /\ ~f.closed => hl = held /\ out = f.outbound
                         /\ Underway(f, k, hl, out) \/ One(f, k, hl, out) \/ Two(f, k, hl, out)
      BY <2>3 DEF Coming
    <3>2. Underway(f, k, hl, out) => Underway(t, k, hl, out)
      BY <1>3 DEF Underway, Fresh, Steady, Kept
    <3>3. One(f, k, hl, out) => One(t, k, hl, out)
      BY <1>3, <1>5 DEF One, Single, Mine, Fresh, Steady, Kept
    <3>4. Two(f, k, hl, out) => Two(t, k, hl, out)
      BY <1>3 DEF Two, Double, Fresh, Steady, Kept
    <3>5. ~t.closed => hl = held /\ out = t.outbound
      BY <1>3, <3>1 DEF Steady, Kept
    <3>. QED
      BY <1>3, <1>5, <2>1, <3>1, <3>2, <3>3, <3>4, <3>5 DEF Coming, Steady
  <2>4. Quiet(f, held) => Quiet(t, held)
    BY <1>3 DEF Quiet, Steady, Kept
  <2>5. k \in DOMAIN f.at /\ Meant(f, k, c, app.mislaid) => Meant(t, k, c, app.mislaid)
    BY <1>3 DEF Meant, Fresh, Steady, Kept
  <2>6. Framed(f) => Framed(t)
    BY <1>3 DEF Framed, Steady
  <2>7. Tidy(t, held, c, app.mislaid)
    BY <1>3, <2>1, <2>2, <2>3, <2>4, <2>5, <2>6 DEF Tidy
  <2>. QED
    BY <2>7 DEF c
<1>8. Inv(t, srv, b)
  BY <1>2, <1>3, <1>4, <1>5, <1>6, <1>7 DEF Inv, Suspect, Steady, Kept
<1>. QED
  BY <1>1, <1>8 DEF IInv

-----------------------------------------------------------------------------
(* The server. *)

\* More about lists of one and of two elements.
LEMMA MoreTuples ==
  ASSUME NEW a, NEW b
  PROVE  /\ RemoveAt(<<a, b>>, 1) = <<b>>
         /\ <<>> \o <<a>> = <<a>> /\ <<>> \o <<a, b>> = <<a, b>> /\ <<a>> \o <<b>> = <<a, b>>
         /\ DOMAIN <<a>> = {1} /\ DOMAIN <<a, b>> = {1, 2}
         /\ <<a, b>>[1] = a /\ <<a, b>>[2] = b
<1> DEFINE S == {a, b}
<1>1. <<>> \o <<a>> = <<a>>
  OBVIOUS
<1>2. <<>> \o <<a, b>> = <<a, b>>
  OBVIOUS
<1>3. <<a>> \o <<b>> = <<a, b>>
  <2> DEFINE s == <<a>> \o <<b>>
             t == <<a, b>>
  <2>1. s \in Seq(S) /\ t \in Seq(S) /\ Len(s) = 2 /\ Len(t) = 2
    OBVIOUS
  <2>2. \A i \in 1..Len(s) : s[i] = t[i]
    OBVIOUS
  <2>. HIDE DEF s, t, S
  <2>3. s = t
    BY <2>1, <2>2, SeqEqual
  <2>. QED
    BY <2>3 DEF s, t
<1>4. DOMAIN <<a>> = {1} /\ DOMAIN <<a, b>> = {1, 2} /\ <<a, b>>[1] = a /\ <<a, b>>[2] = b
  OBVIOUS
<1>5. RemoveAt(<<a, b>>, 1) = <<b>>
  <2>1. SubSeq(<<a, b>>, 1, 1 - 1) = <<>>
    OBVIOUS
  <2>2. SubSeq(<<a, b>>, 1 + 1, Len(<<a, b>>)) = <<b>>
    <3> DEFINE t == <<a, b>>
               s == SubSeq(t, 2, 2)
               u == <<b>>
    <3>1. t \in Seq(S) /\ Len(t) = 2 /\ t[2] = b /\ u \in Seq(S) /\ Len(u) = 1 /\ u[1] = b
      OBVIOUS
    <3>. HIDE DEF t, u, S
    <3>2. 2 \in 0..Len(t) /\ 2 \in 1..(2 + 1)
      BY <3>1
    <3>3. s \in Seq(S) /\ Len(s) = 2 - 2 + 1 /\ \A i \in 1..(2 - 2 + 1) : s[i] = t[2 - 1 + i]
      BY <3>1, <3>2, Stretch
    <3>. HIDE DEF s
    <3>4. Len(s) = 1 /\ s[1] = b
      BY <3>1, <3>3
    <3>5. s = u
      BY <3>1, <3>3, <3>4, SeqEqual
    <3>. QED
      BY <3>1, <3>5 DEF s, t, u
  <2>3. <<>> \o <<b>> = <<b>>
    OBVIOUS
  <2>. QED
    BY <2>1, <2>2, <2>3 DEF RemoveAt
<1>. QED
  BY <1>1, <1>2, <1>3, <1>4, <1>5

ServerFields == {"version", "may", "handles", "written", "held"}

Opening(q) == q.type \in {"OPEN", "OPENDIR"}

\* What the server says to a request.
Says(q, s) ==
  \/ \E p : /\ s = <<p>> /\ p.id = q.id /\ p.type \in Replies(q.type) /\ Shaped(p)
            /\ Opening(q) => ~OK(p)
  \/ /\ Opening(q)
     /\ \E o, h : /\ s = <<o, h>> /\ o.id = q.id /\ h.id = q.id /\ OK(o) /\ h.type = "HANDLE"
                  /\ Shaped(o) /\ Shaped(h)

\* It is said after what was held.
Grants(v, q, x) == DOMAIN x.v = ServerFields /\ x.v.held = v.held /\ Says(q, x.say)

\* One packet for one request, which is no "OK" for an open.
LEMMA SaysOne ==
  ASSUME NEW v, DOMAIN v = ServerFields, NEW q, NEW type, type \in Replies(q.type), NEW what,
         Opening(q) => ~(type = "STATUS" /\ what = "OK"), NEW of, NEW n, NEW from, NEW x,
         DOMAIN x.v = ServerFields, x.v.held = v.held, x.say = <<Packet(type, q.id, of, n, from, what)>>
  PROVE  Grants(v, q, x)
<1> DEFINE p == Packet(type, q.id, of, n, from, what)
<1>1. p.type = type /\ p.id = q.id /\ p.what = what /\ Shaped(p)
  BY DEF Packet, Shaped
<1>. HIDE DEF p
<1>2. x.say = <<p>>
  BY DEF p
<1>. QED
  BY <1>1, <1>2 DEF Grants, Says, OK

\* A handle, or a status that all is well and then a handle.
LEMMA SaysOpened ==
  ASSUME NEW v, DOMAIN v = ServerFields, NEW q, Opening(q), NEW h, NEW first, NEW x,
         first \in {<<>>} \cup (IF "ok first" \in v.may THEN {<<Status(q.id, "OK")>>} ELSE {}),
         DOMAIN x.v = ServerFields, x.v.held = v.held, x.say = first \o <<Answer(q, "HANDLE", h, 0, 0)>>
  PROVE  Grants(v, q, x)
<1> DEFINE p == Answer(q, "HANDLE", h, 0, 0)
           o == Status(q.id, "OK")
<1>1. p.type = "HANDLE" /\ p.id = q.id /\ Shaped(p)
  BY DEF Answer, Packet, Shaped
<1>2. o.id = q.id /\ OK(o) /\ Shaped(o)
  BY DEF Status, Packet, Shaped, OK
<1>. HIDE DEF p, o
<1>3. x.say = first \o <<p>> /\ (first = <<>> \/ first = <<o>>)
  BY DEF p, o
<1>4. CASE first = <<>>
  <2>1. x.say = <<p>>
    BY <1>3, <1>4, MoreTuples
  <2>2. "HANDLE" \in Replies(q.type)
    BY DEF Opening, Replies
  <2>. QED
    BY <1>1, <2>1, <2>2 DEF Grants, Says, OK
<1>5. CASE first = <<o>>
  <2>1. x.say = <<o, p>>
    BY <1>3, <1>5, MoreTuples
  <2>. QED
    BY <1>1, <1>2, <2>1 DEF Grants, Says
<1>. QED
  BY <1>3, <1>4, <1>5

\* What is granted is answered so, for every type of request,
LEMMA GrantedSays ==
  ASSUME NEW v, DOMAIN v = ServerFields, NEW q, NEW x \in Granted(v, q)
  PROVE  Grants(v, q, x)
<1> DEFINE says(packets) == {[v |-> v, say |-> packets]}
           Plain == \E type, what, of, n, from :
                      /\ type \in Replies(q.type) /\ (Opening(q) => ~(type = "STATUS" /\ what = "OK"))
                      /\ DOMAIN x.v = ServerFields /\ x.v.held = v.held
                      /\ x.say = <<Packet(type, q.id, of, n, from, what)>>
<1>. SUFFICES ASSUME ~Opening(q) PROVE Plain
  <2>1. CASE Opening(q)
    <3> DEFINE h == Len(v.handles) + 1
               new == [v EXCEPT !.handles = Append(@, [path |-> q.type = "OPENDIR", next |-> 0])]
    <3>1. PICK first, w : /\ first \in {<<>>} \cup (IF "ok first" \in v.may THEN {<<Status(q.id, "OK")>>} ELSE {})
                          /\ DOMAIN w = ServerFields /\ w.held = v.held
                          /\ x = [v |-> w, say |-> first \o <<Answer(q, "HANDLE", h, 0, 0)>>]
      BY <2>1 DEF Granted, Opening, ServerFields
    <3>2. x.v = w /\ x.say = first \o <<Answer(q, "HANDLE", h, 0, 0)>>
      BY <3>1
    <3>. HIDE DEF h
    <3>. QED
      BY <2>1, <3>1, <3>2, SaysOpened
  <2>2. CASE ~Opening(q) /\ Plain
    BY <2>2, SaysOne
  <2>. QED
    BY <2>1, <2>2
<1>1. CASE q.type = "INIT"
  <2>1. x = [v |-> v, say |-> <<Answer(q, "VERSION", 0, v.version, 0)>>]
    BY <1>1 DEF Granted
  <2>. QED
    BY <1>1, <2>1 DEF Replies, Answer
<1>2. CASE q.type = "READ"
  <2>1. \/ x = [v |-> v, say |-> <<Status(q.id, "EOF")>>]
        \/ \E of, n, from : x = [v |-> v, say |-> <<Answer(q, "DATA", of, n, from)>>]
    BY <1>2 DEF Granted
  <2>2. CASE x = [v |-> v, say |-> <<Status(q.id, "EOF")>>]
    BY <1>2, <2>2 DEF Replies, Status
  <2>3. CASE \E of, n, from : x = [v |-> v, say |-> <<Answer(q, "DATA", of, n, from)>>]
    <3>1. PICK of, n, from : x = [v |-> v, say |-> <<Answer(q, "DATA", of, n, from)>>]
      BY <2>3
    <3>2. x.v = v /\ x.say = <<Packet("DATA", q.id, of, n, from, "")>>
      BY <3>1 DEF Answer
    <3>3. "DATA" \in Replies(q.type)
      BY <1>2 DEF Replies
    <3>. QED
      BY <3>2, <3>3
  <2>. QED
    BY <2>1, <2>2, <2>3
<1>3. CASE q.type = "READDIR"
  <2>1. \/ x = [v |-> v, say |-> <<Status(q.id, "EOF")>>]
        \/ x = [v |-> v, say |-> <<Answer(q, "NAME", 0, 0, 0)>>]
        \/ \E of, n, from : x = [v |-> [v EXCEPT !.handles[q.of].next = @ + n],
                                 say |-> <<Answer(q, "NAME", of, n, from)>>]
    BY <1>3 DEF Granted
  <2>2. CASE x = [v |-> v, say |-> <<Status(q.id, "EOF")>>]
    BY <1>3, <2>2 DEF Replies, Status
  <2>3. CASE x = [v |-> v, say |-> <<Answer(q, "NAME", 0, 0, 0)>>]
    BY <1>3, <2>3 DEF Replies, Answer
  <2>4. CASE \E of, n, from : x = [v |-> [v EXCEPT !.handles[q.of].next = @ + n],
                                   say |-> <<Answer(q, "NAME", of, n, from)>>]
    <3>1. PICK of, n, from : x = [v |-> [v EXCEPT !.handles[q.of].next = @ + n],
                                  say |-> <<Answer(q, "NAME", of, n, from)>>]
      BY <2>4
    <3>2. /\ DOMAIN x.v = ServerFields /\ x.v.held = v.held
          /\ x.say = <<Packet("NAME", q.id, of, n, from, "")>>
      BY <3>1 DEF Answer, ServerFields
    <3>3. "NAME" \in Replies(q.type)
      BY <1>3 DEF Replies
    <3>. QED
      BY <3>2, <3>3
  <2>. QED
    BY <2>1, <2>2, <2>3, <2>4
<1>4. CASE q.type = "WRITE"
  <2> DEFINE w == Store(v, v.handles[q.of].path, q)
  <2>1. x = [v |-> w, say |-> <<Status(q.id, "OK")>>]
    BY <1>4 DEF Granted
  <2>2. DOMAIN w = ServerFields /\ w.held = v.held
    BY DEF Store, ServerFields
  <2>. HIDE DEF w
  <2>3. x.v = w /\ x.say = <<Status(q.id, "OK")>>
    BY <2>1
  <2>. QED
    BY <1>4, <2>2, <2>3 DEF Replies, Status
<1>5. CASE q.type \in {"STAT", "LSTAT", "FSTAT"}
  <2>1. x = [v |-> v, say |-> <<Answer(q, "ATTRS", 0, 0, 0)>>]
    BY <1>5 DEF Granted
  <2>. QED
    BY <1>5, <2>1 DEF Replies, Answer
<1>6. CASE q.type \in {"READLINK", "REALPATH"}
  <2>1. x = [v |-> v, say |-> <<Answer(q, "NAME", q.of, 1, 0)>>]
    BY <1>6 DEF Granted
  <2>. QED
    BY <1>6, <2>1 DEF Replies, Answer
<1>7. CASE q.type \notin {"INIT", "READ", "READDIR", "WRITE", "STAT", "LSTAT", "FSTAT", "READLINK", "REALPATH"}
  <2>1. x = [v |-> v, say |-> <<Status(q.id, "OK")>>]
    BY <1>7 DEF Granted, Opening
  <2>. QED
    BY <1>7, <2>1 DEF Replies, Status
<1>. QED
  BY <1>1, <1>2, <1>3, <1>4, <1>5, <1>6, <1>7

\* and what is refused.
LEMMA RefusingSays ==
  ASSUME NEW v, DOMAIN v = ServerFields, NEW q, NEW x \in Refusing(v, q)
  PROVE  Grants(v, q, x)
<1>1. q.type # "INIT" /\ x = [v |-> [v EXCEPT !.may = @ \ {"refuse"}], say |-> <<Status(q.id, "FAILURE")>>]
  BY DEF Refusing
<1>2. DOMAIN x.v = ServerFields /\ x.v.held = v.held
  BY <1>1 DEF ServerFields
<1>3. x.say = <<Packet("STATUS", q.id, 0, 0, 0, "FAILURE")>>
  BY <1>1 DEF Status
<1>4. "STATUS" \in Replies(q.type)
  BY <1>1 DEF Replies
<1>. QED
  BY <1>2, <1>3, <1>4, SaysOne

\* What the server or the network may change of a session.
Afar(t, u) ==
  /\ Formed(u) /\ u.request_id = t.request_id /\ u.mkdir_request_id = t.mkdir_request_id
  /\ u.version = t.version /\ u.packets = t.packets /\ u.partial = t.partial /\ u.pos = t.pos
  /\ u.at = t.at /\ u.call = t.call /\ u.answered = t.answered

\* It keeps the invariant when what is coming still comes.
LEMMA AfarKeepsInv ==
  ASSUME NEW t, NEW v, NEW a, Inv(t, v, a), NEW u, Afar(t, u), NEW w, DOMAIN w = ServerFields,
         \A k : Coming(t, v.held, k) =>
                  Coming(u, w.held, k) /\ (t.inbound # <<>> => u.inbound # <<>>),
         Quiet(t, v.held) => Quiet(u, w.held)
  PROVE  Inv(u, w, a)
<1>1. Safe(u)
  BY DEF Inv, Safe, SlotOK, Afar
<1>2. ASSUME Framed(t), t.partial => u.inbound # <<>> PROVE Framed(u)
  BY <1>2 DEF Framed, Afar
<1>3. \A k : Waits(u, k) <=> Waits(t, k)
  BY DEF Waits, Afar
<1>4. \A c : Tidy(t, v.held, c, a.mislaid) => Tidy(u, w.held, c, a.mislaid)
  <2>1. SUFFICES ASSUME NEW c, Tidy(t, v.held, c, a.mislaid)
                 PROVE  Tidy(u, w.held, c, a.mislaid)
    OBVIOUS
  <2> DEFINE k == SlotOf(c)
  <2>2. DOMAIN u.at \subseteq {k}
    BY <2>1 DEF Tidy, Afar
  <2>3. Framed(u)
    <3>1. Framed(t) /\ (Quiet(t, v.held) \/ Coming(t, v.held, k))
      BY <2>1 DEF Tidy
    <3>2. t.partial => u.inbound # <<>>
      BY <3>1 DEF Framed, Quiet
    <3>. QED
      BY <1>2, <3>1, <3>2
  <2>4. k \in DOMAIN u.at => Meant(u, k, c, a.mislaid)
    <3>1. k \in DOMAIN t.at => Meant(t, k, c, a.mislaid)
      BY <2>1 DEF Tidy
    <3>. QED
      BY <3>1 DEF Meant, Fresh, Afar
  <2>5. IF Waits(u, k) THEN Coming(u, w.held, k) ELSE Quiet(u, w.held)
    BY <1>3, <2>1 DEF Tidy
  <2>. QED
    BY <2>2, <2>3, <2>4, <2>5 DEF Tidy
<1>5. a.givenUp = {} => Orderly(u, w.held, a)
  <2>1. a.givenUp = {} => Orderly(t, v.held, a)
    BY DEF Inv
  <2>. QED
    BY <1>4, <2>1 DEF Orderly, Afar
<1>6. Handling(u) <=> Handling(t)
  BY DEF Handling, Afar
<1>. QED
  BY <1>1, <1>3, <1>5, <1>6 DEF Inv, Afar, ServerFields

\* A request is answered: the answer takes its place on the way.
LEMMA ServeKeepsInv ==
  ASSUME IInv, Serve
  PROVE  IInv'
<1> DEFINE q == Head(f.outbound)
           u == [f EXCEPT !.outbound = Tail(@)]
<1>1. PICK x \in Granted(srv, q) \cup Refusing(srv, q) : srv' = [x.v EXCEPT !.held = @ \o x.say]
  BY DEF Serve
<1>2. f' = u /\ app' = app /\ f.outbound # <<>> /\ ~f.closed
  BY DEF Serve
<1>3. Inv(f, srv, app) /\ Formed(f) /\ DOMAIN srv = ServerFields
  BY DEF IInv, Inv, Safe, ServerFields
<1>4. Grants(srv, q, x)
  BY <1>3, GrantedSays, RefusingSays
<1>5. DOMAIN srv' = ServerFields /\ srv'.held = srv.held \o x.say
  BY <1>1, <1>4 DEF Grants, ServerFields
<1>6. Afar(f, u) /\ u.outbound = Tail(f.outbound) /\ u.inbound = f.inbound /\ u.closed = f.closed
  BY <1>3 DEF Afar, Formed, Fields
<1>. HIDE DEF u
<1>7. ASSUME NEW k, Coming(f, srv.held, k) PROVE Coming(u, srv'.held, k)
  <2>1. PICK hl, out : /\ ~f.closed => hl = srv.held /\ out = f.outbound
                       /\ \/ ~Handling(f) /\ Underway(f, k, hl, out)
                          \/ One(f, k, hl, out) \/ Two(f, k, hl, out)
    BY <1>7 DEF Coming
  <2>2. ~Handling(f) /\ Underway(f, k, srv.held, f.outbound)
    BY <1>2, <2>1 DEF One, Two
  <2>3. PICK e : f.outbound = <<e>> /\ Fits(k, e) /\ Fresh(f, k, e)
    BY <2>2 DEF Underway
  <2>4. q = e /\ u.outbound = <<>>
    BY <1>6, <2>3, Tuples
  <2>5. f.packets = <<>> /\ f.inbound = <<>> /\ srv.held = <<>>
    BY <2>2 DEF Underway
  <2>6. u.packets = <<>> /\ u.inbound = <<>> /\ u.request_id = f.request_id /\ ~Handling(u)
    BY <1>6, <2>2, <2>5 DEF Afar, Handling
  <2>7. Opening(e) <=> k[1] = "open"
    BY <2>3 DEF Fits, Opening
  <2>8. CASE \E p : /\ x.say = <<p>> /\ p.id = e.id /\ p.type \in Replies(e.type) /\ Shaped(p)
                    /\ Opening(e) => ~OK(p)
    <3>1. PICK p : /\ x.say = <<p>> /\ p.id = e.id /\ p.type \in Replies(e.type) /\ Shaped(p)
                   /\ Opening(e) => ~OK(p)
      BY <2>8
    <3>2. srv'.held = <<p>>
      BY <1>5, <2>5, <3>1, MoreTuples
    <3>3. Mine(u, k, p)
      BY <2>3, <2>6, <3>1 DEF Mine, Fits, Fresh
    <3>4. Single(u, <<p>>, p)
      BY <2>6 DEF Single
    <3>5. One(u, k, <<p>>, <<>>)
      BY <2>6, <2>7, <3>1, <3>3, <3>4 DEF One
    <3>. QED
      BY <2>4, <2>6, <3>2, <3>5 DEF Coming
  <2>9. CASE /\ Opening(e)
             /\ \E o, h : /\ x.say = <<o, h>> /\ o.id = e.id /\ h.id = e.id /\ OK(o) /\ h.type = "HANDLE"
                          /\ Shaped(o) /\ Shaped(h)
    <3>1. PICK o, h : /\ x.say = <<o, h>> /\ o.id = e.id /\ h.id = e.id /\ OK(o) /\ h.type = "HANDLE"
                      /\ Shaped(o) /\ Shaped(h)
      BY <2>9
    <3>2. srv'.held = <<o, h>>
      BY <1>5, <2>5, <3>1, MoreTuples
    <3>3. Fresh(u, k, o) /\ Fresh(u, k, h)
      BY <2>3, <2>6, <3>1 DEF Fresh
    <3>4. Double(u, <<o, h>>, o, h)
      BY <2>6 DEF Double
    <3>5. Two(u, k, <<o, h>>, <<>>)
      BY <2>7, <2>9, <3>1, <3>3, <3>4 DEF Two
    <3>. QED
      BY <2>4, <2>6, <3>2, <3>5 DEF Coming
  <2>. QED
    BY <1>4, <2>4, <2>8, <2>9 DEF Grants, Says
<1>8. ~Quiet(f, srv.held)
  BY <1>2 DEF Quiet
<1>9. Inv(u, srv', app)
  BY <1>3, <1>5, <1>6, <1>7, <1>8, AfarKeepsInv
<1>. QED
  BY <1>2, <1>9 DEF IInv

\* An answer goes out, the first there is to the request.
LEMMA SendKeepsInv ==
  ASSUME IInv, Send
  PROVE  IInv'
<1>1. PICK i \in DOMAIN srv.held :
        /\ \A j \in 1..(i - 1) : srv.held[j].id # srv.held[i].id
        /\ f' = [f EXCEPT !.inbound = Append(@, srv.held[i])]
        /\ srv' = [srv EXCEPT !.held = RemoveAt(@, i)]
  BY DEF Send
<1> DEFINE u == [f EXCEPT !.inbound = Append(@, srv.held[i])]
           w == [srv EXCEPT !.held = RemoveAt(@, i)]
<1>2. f' = u /\ srv' = w /\ app' = app /\ ~f.closed
  BY <1>1 DEF Send
<1>3. Inv(f, srv, app) /\ Formed(f) /\ DOMAIN srv = ServerFields
  BY DEF IInv, Inv, Safe, ServerFields
<1>4. DOMAIN w = ServerFields /\ w.held = RemoveAt(srv.held, i)
  BY <1>3 DEF ServerFields
<1>5. Afar(f, u) /\ u.outbound = f.outbound /\ u.inbound = Append(f.inbound, srv.held[i]) /\ u.closed = f.closed
  BY <1>3 DEF Afar, Formed, Fields
<1>. HIDE DEF u, w
<1>6. ASSUME NEW k, Coming(f, srv.held, k) PROVE Coming(u, w.held, k) /\ u.inbound # <<>>
  <2>1. PICK hl, out : /\ ~f.closed => hl = srv.held /\ out = f.outbound
                       /\ \/ Underway(f, k, hl, out)
                          \/ One(f, k, hl, out)
                          \/ ~Handling(f) /\ Two(f, k, hl, out)
    BY <1>6 DEF Coming
  <2>2. \/ Underway(f, k, srv.held, f.outbound)
        \/ One(f, k, srv.held, f.outbound)
        \/ ~Handling(f) /\ Two(f, k, srv.held, f.outbound)
    BY <1>2, <2>1
  <2>3. ~Underway(f, k, srv.held, f.outbound)
    BY <1>1 DEF Underway
  <2>4. u.packets = f.packets /\ u.request_id = f.request_id /\ u.call = f.call /\ (Handling(u) <=> Handling(f))
    BY <1>5 DEF Afar, Handling
  <2>5. u.packets # <<>> => u.call.phase = "" /\ k[1] \in Choosers
    BY <1>6, <2>4 DEF Coming
  <2>6. CASE One(f, k, srv.held, f.outbound)
    <3>1. PICK p : /\ Single(f, srv.held, p) /\ Mine(f, k, p) /\ (k[1] = "open" => ~OK(p))
                   /\ (Handling(f) => p.type = "HANDLE")
      BY <2>6 DEF One
    <3>2. f.packets = <<>> /\ f.inbound = <<>> /\ srv.held = <<p>>
      BY <1>1, <3>1 DEF Single
    <3>3. i = 1 /\ u.inbound = <<p>> /\ w.held = <<>>
      <4>1. i = 1
        BY <1>1, <3>2, MoreTuples
      <4>. QED
        BY <1>4, <1>5, <3>2, <4>1, Tuples
    <3>4. Single(u, w.held, p) /\ Mine(u, k, p)
      BY <2>4, <3>1, <3>2, <3>3 DEF Single, Mine, Fresh
    <3>5. One(u, k, w.held, u.outbound)
      BY <1>5, <2>4, <2>6, <3>1, <3>4 DEF One
    <3>. QED
      BY <2>5, <3>3, <3>5, Tuples DEF Coming
  <2>7. CASE ~Handling(f) /\ Two(f, k, srv.held, f.outbound)
    <3>1. PICK o, h : /\ Double(f, srv.held, o, h) /\ OK(o) /\ h.type = "HANDLE"
                      /\ Fresh(f, k, o) /\ Fresh(f, k, h) /\ Shaped(o) /\ Shaped(h)
      BY <2>7 DEF Two
    <3>2. Fresh(u, k, o) /\ Fresh(u, k, h) /\ k[1] = "open" /\ f.outbound = <<>> /\ o.id = h.id
      BY <2>4, <2>7, <3>1 DEF Fresh, Two
    <3>3. Double(u, w.held, o, h) /\ u.inbound # <<>>
      <4>1. CASE f.packets = <<o>> /\ f.inbound = <<>> /\ srv.held = <<h>>
        <5>1. i = 1
          BY <1>1, <4>1, MoreTuples
        <5>2. u.packets = <<o>> /\ u.inbound = <<h>> /\ w.held = <<>>
          BY <1>4, <1>5, <2>4, <4>1, <5>1, Tuples
        <5>. QED
          BY <5>2, Tuples DEF Double
      <4>2. CASE f.packets = <<>> /\ f.inbound = <<o>> /\ srv.held = <<h>>
        <5>1. i = 1
          BY <1>1, <4>2, MoreTuples
        <5>2. u.packets = <<>> /\ u.inbound = <<o, h>> /\ w.held = <<>>
          BY <1>4, <1>5, <2>4, <4>2, <5>1, Tuples
        <5>. QED
          BY <5>2, Tuples DEF Double
      <4>3. CASE f.packets = <<>> /\ f.inbound = <<>> /\ srv.held = <<o, h>>
        <5>1. i = 1
          <6>1. i \in {1, 2} /\ <<o, h>>[1] = o /\ <<o, h>>[2] = h
            BY <1>1, <4>3, MoreTuples
          <6>2. i = 2 => 1 \in 1..(i - 1)
            OBVIOUS
          <6>. QED
            BY <1>1, <3>2, <4>3, <6>1, <6>2
        <5>2. srv.held[i] = o /\ RemoveAt(srv.held, i) = <<h>>
          <6>1. <<o, h>>[1] = o /\ RemoveAt(<<o, h>>, 1) = <<h>>
            <7>1. <<o, h>>[1] = o
              OBVIOUS
            <7>2. RemoveAt(<<o, h>>, 1) = <<h>>
              BY ONLY MoreTuples, Zenon
            <7>. QED
              BY ONLY <7>1, <7>2
          <6>2. srv.held = <<o, h>>
            BY <4>3
          <6>. QED
            BY ONLY <5>1, <6>1, <6>2
        <5>3. u.packets = <<>> /\ u.inbound = <<o>> /\ w.held = <<h>>
          BY <1>4, <1>5, <2>4, <4>3, <5>2, Tuples
        <5>. QED
          BY <5>3, Tuples DEF Double
      <4>. QED
        BY <1>1, <3>1, <4>1, <4>2, <4>3 DEF Double
    <3>4. Two(u, k, w.held, u.outbound)
      BY <1>5, <3>1, <3>2, <3>3 DEF Two
    <3>. QED
      BY <2>4, <2>5, <2>7, <3>3, <3>4 DEF Coming
  <2>. QED
    BY <2>2, <2>3, <2>6, <2>7
<1>7. ~Quiet(f, srv.held)
  BY <1>1, <1>2 DEF Quiet
<1>8. Inv(u, w, app)
  BY <1>3, <1>4, <1>5, <1>6, <1>7, AfarKeepsInv
<1>. QED
  BY <1>2, <1>8 DEF IInv

\* The channel is closed, or the connection lost, and what is on its way stays so.
LEMMA EndKeepsInv ==
  ASSUME IInv, app' = app, srv' = srv, Afar(f, f'), f'.inbound = f.inbound, f'.outbound = f.outbound,
         f.closed => f'.closed
  PROVE  IInv'
<1>1. Inv(f, srv, app) /\ DOMAIN srv = ServerFields
  BY DEF IInv, Inv, ServerFields
<1>2. ASSUME NEW k, Coming(f, srv.held, k) PROVE Coming(f', srv.held, k)
  <2>1. PICK hl, out : /\ ~f.closed => hl = srv.held /\ out = f.outbound
                       /\ \/ ~Handling(f) /\ Underway(f, k, hl, out)
                          \/ One(f, k, hl, out)
                          \/ ~Handling(f) /\ Two(f, k, hl, out)
    BY <1>2 DEF Coming
  <2>2. Handling(f') <=> Handling(f)
    BY DEF Afar, Handling
  <2>3. Underway(f, k, hl, out) => Underway(f', k, hl, out)
    BY DEF Underway, Fresh, Afar
  <2>4. One(f, k, hl, out) => One(f', k, hl, out)
    BY <2>2 DEF One, Single, Mine, Fresh, Afar
  <2>5. Two(f, k, hl, out) => Two(f', k, hl, out)
    BY DEF Two, Double, Fresh, Afar
  <2>6. /\ ~f'.closed => hl = srv.held /\ out = f'.outbound
        /\ f'.packets # <<>> => f'.call.phase = "" /\ k[1] \in Choosers
    BY <1>2, <2>1 DEF Afar, Coming
  <2>. QED
    BY <2>1, <2>2, <2>3, <2>4, <2>5, <2>6 DEF Coming
<1>3. Quiet(f, srv.held) => Quiet(f', srv.held)
  BY DEF Quiet, Afar
<1>4. Inv(f', srv, app)
  BY <1>1, <1>2, <1>3, AfarKeepsInv
<1>. QED
  BY <1>4 DEF IInv

\* Close and Drop keep the invariant.
LEMMA CloseKeepsInv ==
  ASSUME IInv, Close \/ Drop
  PROVE  IInv'
<1>1. Formed(f)
  BY DEF IInv, Inv, Safe
<1>2. CASE Close
  <2>1. f' = [f EXCEPT !.closed = TRUE] /\ srv' = srv /\ app' = app
    BY <1>2 DEF Close
  <2>2. Afar(f, f') /\ f'.inbound = f.inbound /\ f'.outbound = f.outbound /\ f'.closed
    BY <1>1, <2>1 DEF Afar, Formed, Fields
  <2>. QED
    BY <2>1, <2>2, EndKeepsInv
<1>3. CASE Drop
  <2>1. f' = [f EXCEPT !.gone = TRUE] /\ srv' = srv /\ app' = app
    BY <1>3 DEF Drop
  <2>2. Afar(f, f') /\ f'.inbound = f.inbound /\ f'.outbound = f.outbound /\ (f.closed => f'.closed)
    BY <1>1, <2>1 DEF Afar, Formed, Fields
  <2>. QED
    BY <2>1, <2>2, EndKeepsInv
<1>. QED
  BY <1>2, <1>3

\* The channel is closed in the middle of an answer, which then is in it.
LEMMA CutKeepsInv ==
  ASSUME IInv, Cut
  PROVE  IInv'
<1> DEFINE piece(p) == [p EXCEPT !.cut = TRUE]
           u == [f EXCEPT !.inbound = Append(@, piece(Head(srv.held))), !.closed = TRUE]
<1>1. f' = u /\ srv' = srv /\ app' = app /\ srv.held # <<>> /\ ~f.closed
  BY DEF Cut
<1>2. Inv(f, srv, app) /\ Formed(f) /\ DOMAIN srv = ServerFields
  BY DEF IInv, Inv, Safe, ServerFields
<1>3. Afar(f, u) /\ u.inbound = Append(f.inbound, piece(Head(srv.held))) /\ u.closed
  BY <1>2 DEF Afar, Formed, Fields
<1>. HIDE DEF u
<1>4. ASSUME NEW p, Shaped(p) PROVE Shaped(piece(p)) /\ piece(p).type = p.type /\ piece(p).id = p.id /\ piece(p).what = p.what
  BY <1>4 DEF Shaped
<1>. HIDE DEF piece
<1>5. ASSUME NEW k, Coming(f, srv.held, k) PROVE Coming(u, srv.held, k) /\ u.inbound # <<>>
  <2>1. PICK hl, out : /\ ~f.closed => hl = srv.held /\ out = f.outbound
                       /\ \/ Underway(f, k, hl, out)
                          \/ One(f, k, hl, out)
                          \/ ~Handling(f) /\ Two(f, k, hl, out)
    BY <1>5 DEF Coming
  <2>2. \/ One(f, k, srv.held, f.outbound)
        \/ ~Handling(f) /\ Two(f, k, srv.held, f.outbound)
    BY <1>1, <2>1 DEF Underway
  <2>3. u.packets = f.packets /\ u.request_id = f.request_id /\ u.call = f.call /\ (Handling(u) <=> Handling(f))
    BY <1>3 DEF Afar, Handling
  <2>4. u.packets # <<>> => u.call.phase = "" /\ k[1] \in Choosers
    BY <1>5, <2>3 DEF Coming
  <2>5. CASE One(f, k, srv.held, f.outbound)
    <3>1. PICK p : /\ Single(f, srv.held, p) /\ Mine(f, k, p) /\ (k[1] = "open" => ~OK(p))
                   /\ (Handling(f) => p.type = "HANDLE")
      BY <2>5 DEF One
    <3>2. f.packets = <<>> /\ f.inbound = <<>> /\ srv.held = <<p>>
      BY <1>1, <3>1 DEF Single
    <3>3. u.inbound = <<piece(p)>> /\ u.packets = <<>>
      BY <1>3, <2>3, <3>2, Tuples
    <3>4. Single(u, <<>>, piece(p))
      BY <3>3 DEF Single
    <3>5. Mine(u, k, piece(p)) /\ (OK(piece(p)) <=> OK(p)) /\ piece(p).type = p.type
      BY <1>4, <2>3, <3>1 DEF Mine, Fresh, OK
    <3>6. One(u, k, <<>>, <<>>)
      BY <2>3, <3>1, <3>4, <3>5 DEF One
    <3>. QED
      BY <1>3, <2>4, <3>3, <3>6, Tuples DEF Coming
  <2>6. CASE ~Handling(f) /\ Two(f, k, srv.held, f.outbound)
    <3>1. PICK o, h : /\ Double(f, srv.held, o, h) /\ OK(o) /\ h.type = "HANDLE"
                      /\ Fresh(f, k, o) /\ Fresh(f, k, h) /\ Shaped(o) /\ Shaped(h)
      BY <2>6 DEF Two
    <3>2. /\ Fresh(u, k, o) /\ Fresh(u, k, h) /\ k[1] = "open"
          /\ Fresh(u, k, piece(o)) /\ Fresh(u, k, piece(h)) /\ Shaped(piece(o)) /\ Shaped(piece(h))
          /\ OK(piece(o)) /\ piece(h).type = "HANDLE"
      BY <1>4, <2>3, <2>6, <3>1 DEF Fresh, Two, OK
    <3>3. CASE f.packets = <<o>> /\ f.inbound = <<>> /\ srv.held = <<h>>
      <4>1. u.packets = <<o>> /\ u.inbound = <<piece(h)>>
        <5>1. Head(srv.held) = h /\ Append(<<>>, piece(h)) = <<piece(h)>>
          BY ONLY <3>3, Tuples
        <5>. QED
          BY <1>3, <2>3, <3>3, <5>1
      <4>2. Double(u, <<>>, o, piece(h))
        BY <4>1 DEF Double
      <4>3. Two(u, k, <<>>, <<>>)
        BY <3>1, <3>2, <4>2 DEF Two
      <4>4. u.inbound # <<>>
        BY ONLY <4>1, Tuples
      <4>. QED
        BY <1>3, <2>3, <2>4, <2>6, <4>3, <4>4 DEF Coming
    <3>4. CASE f.packets = <<>> /\ f.inbound = <<o>> /\ srv.held = <<h>>
      <4>1. u.packets = <<>> /\ u.inbound = <<o, piece(h)>>
        <5>1. Head(srv.held) = h /\ Append(<<o>>, piece(h)) = <<o, piece(h)>>
          BY ONLY <3>4, Tuples
        <5>. QED
          BY <1>3, <2>3, <3>4, <5>1
      <4>2. Double(u, <<>>, o, piece(h))
        BY <4>1 DEF Double
      <4>3. Two(u, k, <<>>, <<>>)
        BY <3>1, <3>2, <4>2 DEF Two
      <4>4. u.inbound # <<>>
        BY ONLY <4>1, Tuples
      <4>. QED
        BY <1>3, <2>3, <2>4, <2>6, <4>3, <4>4 DEF Coming
    <3>5. CASE f.packets = <<>> /\ f.inbound = <<>> /\ srv.held = <<o, h>>
      <4>1. u.packets = <<>> /\ u.inbound = <<piece(o)>>
        <5>1. Head(<<o, h>>) = o
          BY ONLY Tuples
        <5>. QED
          BY <1>3, <2>3, <3>5, <5>1, Tuples
      <4>2. Double(u, <<h>>, piece(o), h)
        BY <4>1 DEF Double
      <4>3. Two(u, k, <<h>>, <<>>)
        BY <3>1, <3>2, <4>2 DEF Two
      <4>4. u.inbound # <<>>
        BY ONLY <4>1, Tuples
      <4>. QED
        BY <1>3, <2>3, <2>4, <2>6, <4>3, <4>4 DEF Coming
    <3>. QED
      BY <1>1, <3>1, <3>3, <3>4, <3>5 DEF Double
  <2>. QED
    BY <2>2, <2>5, <2>6
<1>6. ~Quiet(f, srv.held)
  BY <1>1 DEF Quiet
<1>7. Inv(u, srv, app)
  BY <1>2, <1>3, <1>5, <1>6, AfarKeepsInv
<1>. QED
  BY <1>1, <1>7 DEF IInv

-----------------------------------------------------------------------------

\* No step breaks the invariant.
LEMMA NextKeepsInv == IInv /\ [Next]_vars => IInv'
<1>. SUFFICES ASSUME IInv, [Next]_vars PROVE IInv'
  OBVIOUS
<1>1. CASE Begin
  BY <1>1, BeginKeepsInv
<1>2. ASSUME NEW net \in Nets, Run(net) PROVE IInv'
  BY <1>2, RunKeepsInv
<1>3. CASE Serve
  BY <1>3, ServeKeepsInv
<1>4. CASE Send
  BY <1>4, SendKeepsInv
<1>5. CASE Close \/ Drop
  BY <1>5, CloseKeepsInv
<1>6. CASE Cut
  BY <1>6, CutKeepsInv
<1>7. CASE UNCHANGED vars
  BY <1>7 DEF IInv, vars
<1>8. CASE Done
  BY <1>7, <1>8 DEF Done
<1>. QED
  BY <1>1, <1>2, <1>3, <1>4, <1>5, <1>6, <1>7, <1>8 DEF Next, Nets

\* An answer is taken for the one to another request only if a request was given
\* up before or a mkdir lost its id, and what is left over when no call is
\* running was asked for by a call that gave up (sftp_packet_ask, and what every
\* call leaves behind that ends).
THEOREM AnswersTheirs == Spec => []AnswersAreTheirs
<1>1. IInv => AnswersAreTheirs
  <2>. SUFFICES ASSUME IInv PROVE AnswersAreTheirs
    OBVIOUS
  <2>1. Inv(f, srv, app)
    BY DEF IInv
  <2>2. \A x \in f.answered :
          \/ x[1] = x[2]
          \/ LooksLike(x[1], x[2]) /\ (x[1] \in app.mislaid \/ \E k \in app.givenUp : k <= x[1])
    BY <2>1 DEF Inv, Suspect
  <2>3. ASSUME DOMAIN f.at = {}, ~app.busy, app.givenUp = {}
        PROVE  f.packets = <<>> /\ f.inbound = <<>> /\ ~f.partial
    <3>1. Quiet(f, srv.held)
      BY <2>1, <2>3 DEF Inv, Orderly, Tidy, Waits
    <3>. QED
      BY <3>1 DEF Quiet
  <2>. QED
    BY <2>2, <2>3 DEF AnswersAreTheirs
<1>. QED
  BY <1>1, StartsInv, NextKeepsInv, PTL DEF Spec

=============================================================================
