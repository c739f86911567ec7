------------------------ MODULE MCCommitEnumerator ------------------------
(***************************************************************************)
(* CommitEnumerator on every history of N commits with at most two parents *)
(* each, whole or with one commit lost.                                    *)
(***************************************************************************)
EXTENDS CommitEnumerator

CONSTANT N

MCCommit == 1..N

MCHistories ==
  {h \in [MCCommit -> BoundedSeq(MCCommit, 2)] :
     \A c \in MCCommit : \A i \in DOMAIN h[c] : h[c][i] < c}

\* The store holds every commit, or has lost one of them.
MCStores == {MCCommit} \cup {MCCommit \ {c} : c \in MCCommit}
=============================================================================
