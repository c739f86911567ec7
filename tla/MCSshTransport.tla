-------------------------- MODULE MCSshTransport ----------------------------
(***************************************************************************)
(* SshTransport on four packets: two in plain text, of which the second is *)
(* the server's NEWKEYS, and two of several cipher blocks, the last longer *)
(* than the read buffer.                                                   *)
(***************************************************************************)
EXTENDS SshTransport

MCSize == <<4, 3, 8, 11>>

=============================================================================
