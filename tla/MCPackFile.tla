---------------------------- MODULE MCPackFile -----------------------------
(***************************************************************************)
(* Packs of up to three of four objects, in any order, each whole or a     *)
(* delta of either kind on another, or on one the pack lacks.              *)
(***************************************************************************)
EXTENDS PackFile

CONSTANT MaxObjects

MCSha == 0..3
MCFirstByte == [s \in MCSha |-> IF s = 0 THEN 0 ELSE 1]
MCOriginal == <<<<1, 2, 3>>, <<1, 2>>, <<3, 2>>>> @@ (0 :> <<1, 2, 4, 1>>)
MCGarbage == {0, 15, 20, 33, 60}

\* The delta git makes of two contents: the common start, and what follows.
Common(b, t) ==
  CHOOSE n \in 0..Len(b) :
    /\ n <= Len(t) /\ SubSeq(b, 1, n) = SubSeq(t, 1, n)
    /\ n = Len(b) \/ n = Len(t) \/ b[n + 1] # t[n + 1]
Delta(b, t) ==
  LET n == Common(b, t) IN
  (IF n = 0 THEN <<>> ELSE <<[off |-> 0, size |-> IF n = FullCopy THEN 0 ELSE n]>>)
  \o (IF n = Len(t) THEN <<>> ELSE <<[insert |-> SubSeq(t, n + 1, Len(t))]>>)

Length(kind) == CASE kind = "whole" -> 4 [] kind = "ofs" -> 5 [] kind = "ref" -> 6

\* An order of objects and, for each, a kind and a base.
At(kinds, k) == FoldSeq(LAMBDA kd, n : n + Length(kd), 12, SubSeq(kinds, 1, k - 1))

PackOf(order, kinds, bases) ==
  LET object(k) ==
        [sha |-> order[k], kind |-> kinds[k], at |-> At(kinds, k), to |-> At(kinds, k + 1), head |-> 1,
         ref |-> Length(kinds[k]) - 4,
         base |-> CASE kinds[k] = "whole" -> 0
                    [] kinds[k] = "ref" -> bases[k]
                    [] kinds[k] = "ofs" -> At(kinds, k) - At(kinds, CHOOSE j \in DOMAIN order : order[j] = bases[k]),
         text |-> IF kinds[k] = "whole" THEN MCOriginal[order[k]]
                  ELSE Delta(MCOriginal[bases[k]], MCOriginal[order[k]])]
      objects == [k \in DOMAIN order |-> object(k)]
      sorted == SetToSortSeq(ToSet(order), <)
      n == Len(order)
      at(s) == objects[CHOOSE k \in DOMAIN order : order[k] = s].at
      long == SelectSeq(sorted, LAMBDA s : at(s) >= Extended)
  IN [objects |-> objects, checksum |-> At(kinds, n + 1),
      index |->
        [count |-> n, shas |-> [i \in 0..n - 1 |-> sorted[i + 1]],
         fanout |-> [b \in 0..MaxByte |-> Len(SelectSeq(sorted, LAMBDA s : MCFirstByte[s] <= b))],
         offsets |-> [i \in 0..n - 1 |->
            LET a == at(sorted[i + 1]) IN
            IF a < Extended THEN a
            ELSE Extended + (CHOOSE j \in 0..n - 1 : long[j + 1] = sorted[i + 1])],
         extended |-> [j \in 0..Len(long) - 1 |-> at(long[j + 1])]]]

\* Bases come before their deltas in one direction or the other, so that no
\* delta rests on itself; "ofs" deltas follow their base in the file.
Acyclic(order, bases, kinds) ==
  \A k \in DOMAIN order :
    /\ kinds[k] = "whole" <=> bases[k] = order[k]
    /\ kinds[k] = "ofs" => \E j \in 1..k - 1 : order[j] = bases[k]

Grounded(order, bases) ==
  LET next(s) == IF s \in ToSet(order) THEN bases[CHOOSE k \in DOMAIN order : order[k] = s] ELSE s
  IN \A s \in ToSet(order) : LET t == next(next(next(s))) IN next(t) = t

MCPacks ==
  UNION {{PackOf(order, kinds, bases) : <<order, kinds, bases>> \in
    {ob \in {o \in [1..n -> MCSha] : IsInjective(o)} \X [1..n -> {"whole", "ofs", "ref"}] \X [1..n -> MCSha] :
      Acyclic(ob[1], ob[3], ob[2]) /\ Grounded(ob[1], ob[3])}} : n \in 1..MaxObjects}
MCIndexes == {p.index : p \in MCPacks}
=============================================================================
