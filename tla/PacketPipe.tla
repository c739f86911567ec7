----------------------------- MODULE PacketPipe -----------------------------
(***************************************************************************)
(* What the transport layer of libssh2 promises to the rest of the         *)
(* library: packets arrive whole, each one once, in the order they were    *)
(* sent, and a packet that was sent is not kept back for ever.             *)
(***************************************************************************)
EXTENDS Naturals

CONSTANT Count    \* how many packets the sender has to send

VARIABLE got      \* how many packets the receiver was given

Init == got = 0

Deliver == got < Count /\ got' = got + 1

Next == Deliver

Spec == Init /\ [][Next]_got /\ WF_got(Next)

=============================================================================
