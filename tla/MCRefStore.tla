----------------------------- MODULE MCRefStore -----------------------------
(***************************************************************************)
(* RefStore with HEAD, a branch, and a ref that may be a branch or a link  *)
(* to the branch, so that HEAD may be a link to a link.                    *)
(***************************************************************************)
EXTENDS RefStore

CONSTANTS master, alias, s1, s2

MCBranch == {master, alias}
MCSha == {s1, s2}
MCLinks == {<<HEAD, master>>, <<HEAD, alias>>, <<alias, master>>}

\* HEAD is a link or detached; refs are loose, packed, both with the packed
\* value outdated, or absent, as a branch is on which nothing is committed.
MCRepositories ==
  {[loose |-> (HEAD :> h @@ master :> m @@ alias :> a @@ Lock :> None),
    packed |-> (master :> p @@ alias :> q)] :
     h \in {master, alias, s1}, m \in {s1, None}, a \in {s1, master, None},
     p \in {s2, None}, q \in {s1, None}}

\* Repositories with a detached HEAD.
MCDetached == {d \in MCRepositories : d.loose[HEAD] \in MCSha}
=============================================================================
