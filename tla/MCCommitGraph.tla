--------------------------- MODULE MCCommitGraph ---------------------------
(***************************************************************************)
(* CommitGraph on every history of a few commits.  A commit has at most    *)
(* two parents, so that merges, criss-cross merges and unrelated roots all *)
(* occur; dates are assigned freely, so that clocks may disagree.          *)
(***************************************************************************)
EXTENDS CommitGraph

CONSTANTS N, MaxDate

MCCommit == 1..N

\* Parent lists over the commits below c, the first parent below the second.
MCParentLists(c) == {s \in BoundedSeq(1..(c - 1), 2) : Len(s) = 2 => s[1] < s[2]}

\* The last commit merges two others or, malformed, names one of them twice.
MCMerges ==
  {h \in [MCCommit -> UNION {MCParentLists(c) : c \in MCCommit} \cup {<<N - 1, N - 1>>}] :
     /\ \A c \in 1..(N - 1) : h[c] \in MCParentLists(c)
     /\ Len(h[N]) = 2}

\* Clocks may disagree on all commits but the first and the last.
MCCalendars == {d \in [MCCommit -> 1..MaxDate] : d[1] = 1 /\ d[N] = MaxDate}

\* The store holds every commit, or has lost one of them.
MCStores == {MCCommit, MCCommit \ {2}}

=============================================================================
