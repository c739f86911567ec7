--------------------------- MODULE MCObjectStores ---------------------------
(***************************************************************************)
(* ObjectStores with two objects, the first of which may be written, two   *)
(* packs that may be there and one that git may make.                      *)
(***************************************************************************)
EXTENDS ObjectStores, TLC

CONSTANTS a, b, ra, p1, p2, p3

MCSha == {a, b, ra}
MCObject == {a, b}
MCRaw == a :> ra
MCPack == {p1, p2, p3}

Holding(x, y) == a :> x @@ b :> y @@ ra :> "none"

\* b is in the second pack; a is loose, packed or both, its first copies whole
\* or damaged; the index of the second pack may not be written yet.
With(l, x, y, d) ==
  [loose |-> Holding(l, "none"),
   packed |-> p1 :> Holding(x, "none") @@ p2 :> Holding(y, "whole") @@ p3 :> Holding("none", "none"),
   packDir |-> p1 :> (IF x = "none" THEN "none" ELSE "both") @@ p2 :> d @@ p3 :> "none"]

MCRepositories ==
  {With("whole", "none", "none", d) : d \in {"pack", "both"}}
  \cup {With(l, "torn", "whole", "both") : l \in {"none", "whole"}}
  \cup {With(l, "whole", "short", "both") : l \in {"none", "torn"}}
=============================================================================
