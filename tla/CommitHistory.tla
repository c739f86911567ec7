--------------------------- MODULE CommitHistory ---------------------------
(***************************************************************************)
(* The commits of a repository, as the graph and the enumerator find them. *)
(***************************************************************************)
EXTENDS Integers, Sequences, FiniteSets, SequencesExt

CONSTANTS
  Commit,      \* the commits, numbered so that a parent is below its children
  Histories,   \* the parent lists a behaviour may start from
  Stores       \* the sets of commits the object store may hold

\* A commit names its parents by their SHA1, which its own SHA1 covers: no
\* history has a cycle, so its commits can be numbered in this way.
ASSUME HistoryAssumption ==
  /\ Commit \subseteq Nat
  /\ Histories \subseteq [Commit -> Seq(Commit)]
  /\ \A h \in Histories, c \in Commit : \A i \in DOMAIN h[c] : h[c][i] < c
  /\ Stores \subseteq SUBSET Commit

VARIABLES
  parentShas,   \* the parents each commit names
  stored        \* the commits the store holds

=============================================================================
