--------------------------- MODULE PackFileProofs ---------------------------
(***************************************************************************)
(* Theorems about PackIndex and PackFile, for every set of packs and index *)
(* files: the binary search finds exactly what is indexed, and a load      *)
(* gives the contents that were packed, or fails for a reason.             *)
(*                                                                         *)
(* The search leaves a sha1 out only when the order of the table puts it   *)
(* elsewhere: what is wanted, if it is in the table at all, stays from lo  *)
(* up to hi - 1, so it is not there when that range is empty.              *)
(*                                                                         *)
(* The objects of a pack ascend, so a place behind the start of the k-th   *)
(* is at k in the reverse index, whose next entry is the start of object   *)
(* k + 2: the data range ends too late by an object, never too early.      *)
(* Each delta on the stack is the base of the one before it, and what      *)
(* comes back is patched in the opposite order.                            *)
(***************************************************************************)
EXTENDS PackFile, WorkListTheorems

SearchInv == SearchTypeOK /\ FoundIfIndexed

\* What a call needs of the pack besides.
PackInv ==
  /\ SearchInv
  /\ pack \in Packs /\ index = pack.index
  /\ UnpacksObjects

-----------------------------------------------------------------------------
\* The fanout entries around a first byte enclose the shas that have it.
LEMMA FanoutEncloses ==
  ASSUME WellFormed(index), NEW s \in Sha, NEW i \in Places(index), index.shas[i] = s
  PROVE  i \in RangeStart(FirstByte[s])..RangeEnd(FirstByte[s]) - 1
<1>. DEFINE b == FirstByte[s]
<1>1. b \in 0..MaxByte /\ MaxByte \in Nat
  BY IndexAssumption
<1>2. i \in Nat /\ index.fanout \in [0..MaxByte -> 0..index.count] /\ index.count \in Nat
  BY DEF WellFormed, Places
<1>3. i < index.fanout[b]
  BY <1>1 DEF WellFormed
<1>4. CASE b = 0
  BY <1>1, <1>2, <1>3, <1>4 DEF RangeStart, RangeEnd
<1>5. CASE b # 0
  <2>1. b - 1 \in 0..MaxByte /\ ~(b <= b - 1)
    BY <1>1, <1>5
  <2>2. ~(i < index.fanout[b - 1])
    BY <2>1 DEF WellFormed
  <2>3. index.fanout[b - 1] \in 0..index.count /\ index.fanout[b] \in 0..index.count
    BY <1>1, <1>2, <2>1
  <2>. QED
    BY <1>2, <1>3, <1>5, <2>2, <2>3 DEF RangeStart, RangeEnd
<1>. QED
  BY <1>4, <1>5

\* A search begins with a range that holds what is wanted, if anything does.
LEMMA BeginEstablishes ==
  ASSUME WellFormed(index), place \in Nat, NEW s \in Sha, BeginSearch(s)
  PROVE  SearchInv'
<1>. USE DEF BeginSearch
<1>. DEFINE b == FirstByte[s]
<1>1. b \in 0..MaxByte /\ MaxByte \in Nat /\ Nil \notin Sha
  BY IndexAssumption
<1>2. index.count \in Nat /\ index.fanout \in [0..MaxByte -> 0..index.count]
  BY DEF WellFormed
<1>3. lo' \in 0..index.count /\ hi' \in 0..index.count
  BY <1>1, <1>2 DEF RangeStart, RangeEnd
<1>4. WellFormed(index)'
  BY DEF WellFormed, Places
<1>5. SearchTypeOK'
  BY <1>1, <1>3, <1>4 DEF SearchTypeOK
<1>6. \A i \in Places(index) : index.shas[i] = s => i \in lo'..hi' - 1
  BY FanoutEncloses
<1>7. search' = "missing" => \A i \in Places(index) : index.shas[i] # s
  <2>. SUFFICES ASSUME search' = "missing", NEW i \in Places(index), index.shas[i] = s PROVE FALSE
    OBVIOUS
  <2>1. ~(lo' < hi') /\ i \in lo'..hi' - 1
    BY <1>6
  <2>. QED
    BY <2>1, <1>3
<1>8. FoundIfIndexed'
  BY <1>6, <1>7 DEF FoundIfIndexed, Places
<1>. QED
  BY <1>5, <1>8 DEF SearchInv

\* The order of the table carries over to the halves of the range.
LEMMA NarrowPreserves ==
  ASSUME SearchInv, Narrow
  PROVE  SearchInv'
<1>1. /\ WellFormed(index) /\ index.count \in Nat /\ lo \in 0..index.count /\ hi \in 0..index.count
      /\ lo < hi /\ place \in Nat /\ index' = index /\ wanted' = wanted /\ wanted \in Sha
  BY DEF Narrow, SearchInv, SearchTypeOK, WellFormed
<1>2. Middle \in lo..hi - 1 /\ Middle \in Places(index)
  BY <1>1 DEF Middle, Places
<1>3. Sha \subseteq Nat /\ Nil \notin Sha
  BY IndexAssumption
<1>4. \A i \in Places(index) : i \in Nat /\ index.shas[i] \in Nat
  <2>1. \A i \in Places(index) : index.shas[i] \in Sha
    BY <1>1 DEF WellFormed
  <2>2. \A i \in Places(index) : i \in Nat
    BY <1>1 DEF Places
  <2>. QED
    BY <1>3, <2>1, <2>2
<1>5. \A i, j \in Places(index) : i < j => index.shas[i] < index.shas[j]
  BY <1>1 DEF WellFormed
<1>6. WellFormed(index)'
  BY <1>1 DEF WellFormed, Places
<1>7. CASE wanted = index.shas[Middle] /\ search' = "found" /\ place' = Middle /\ UNCHANGED <<lo, hi>>
  BY <1>1, <1>2, <1>3, <1>6, <1>7 DEF SearchInv, SearchTypeOK, FoundIfIndexed, Places
<1>8. ASSUME \/ wanted < index.shas[Middle] /\ LowerHalf
             \/ wanted > index.shas[Middle] /\ UpperHalf,
             search' = IF lo' < hi' THEN "running" ELSE "missing", place' = place
      PROVE  SearchInv'
  <2>1. lo' \in 0..index.count /\ hi' \in 0..index.count
    BY <1>1, <1>2, <1>8 DEF LowerHalf, UpperHalf
  <2>2. SearchTypeOK'
    BY <1>1, <1>3, <1>6, <1>8, <2>1 DEF SearchTypeOK
  <2>3. \A i \in Places(index) : index.shas[i] = wanted => i \in lo'..hi' - 1
    <3>. SUFFICES ASSUME NEW i \in Places(index), index.shas[i] = wanted
                  PROVE  i \in lo'..hi' - 1
      OBVIOUS
    <3>1. i \in lo..hi - 1
      BY DEF Narrow, SearchInv, FoundIfIndexed
    <3>2. CASE wanted < index.shas[Middle] /\ LowerHalf
      <4>1. Middle < i => index.shas[Middle] < wanted
        BY <1>2, <1>5
      <4>2. wanted \in Nat /\ Middle \in Nat /\ i \in Nat /\ index.shas[Middle] \in Nat
        BY <1>1, <1>2, <1>3, <1>4
      <4>3. i # Middle /\ ~(Middle < i)
        BY <3>2, <4>1, <4>2
      <4>. QED
        BY <1>1, <1>2, <1>4, <3>1, <3>2, <4>3 DEF LowerHalf
    <3>3. CASE wanted > index.shas[Middle] /\ UpperHalf
      <4>1. i < Middle => wanted < index.shas[Middle]
        BY <1>2, <1>5
      <4>2. wanted \in Nat /\ Middle \in Nat /\ i \in Nat /\ index.shas[Middle] \in Nat
        BY <1>1, <1>2, <1>3, <1>4
      <4>3. i # Middle /\ ~(i < Middle)
        BY <3>3, <4>1, <4>2
      <4>. QED
        BY <1>1, <1>2, <1>4, <3>1, <3>3, <4>3 DEF UpperHalf
    <3>. QED
      BY <1>8, <3>2, <3>3
  <2>4. search' = "missing" => \A i \in Places(index) : index.shas[i] # wanted
    <3>. SUFFICES ASSUME search' = "missing", NEW i \in Places(index), index.shas[i] = wanted
                  PROVE  FALSE
      OBVIOUS
    <3>1. ~(lo' < hi') /\ i \in lo'..hi' - 1
      BY <1>8, <2>3
    <3>2. lo' \in Nat /\ hi' \in Nat /\ i \in Nat
      BY <1>1, <1>4, <2>1
    <3>3. lo' <= i /\ i <= hi' - 1
      BY <3>1, <3>2
    <3>. QED
      BY <3>1, <3>2, <3>3
  <2>5. FoundIfIndexed'
    BY <1>1, <1>8, <2>3, <2>4 DEF FoundIfIndexed, Places
  <2>. QED
    BY <2>2, <2>5 DEF SearchInv
<1>. QED
  BY <1>7, <1>8 DEF Narrow

\* A step that leaves the search alone, or clears it.
LEMMA SearchUntouched ==
  ASSUME SearchInv, UNCHANGED <<index, searchVars>>
  PROVE  SearchInv'
  BY DEF SearchInv, SearchTypeOK, FoundIfIndexed, WellFormed, Places, searchVars

LEMMA Cleared ==
  ASSUME WellFormed(index), index' = index, wanted' = Nil, search' = "none",
         lo' = 0, hi' = 0, place' = 0
  PROVE  SearchInv'
  BY DEF SearchInv, SearchTypeOK, FoundIfIndexed, WellFormed, Places
-----------------------------------------------------------------------------
\* Every step of a load keeps the search right and unpacks at an object.
LEMMA StepPreserves == PackInv /\ [Next]_vars => PackInv'
<1>. SUFFICES ASSUME PackInv, [Next]_vars PROVE PackInv'
  OBVIOUS
<1>. USE DEF PackInv
<1>1. WellFormed(index) /\ place \in Nat
  BY DEF SearchInv, SearchTypeOK
<1>2. ASSUME NEW s \in Sha, LoadObject(s) PROVE PackInv'
  <2>1. SearchInv'
    BY <1>1, <1>2, BeginEstablishes DEF LoadObject
  <2>. QED
    BY <1>2, <2>1 DEF LoadObject, BeginSearch, UnpacksObjects
<1>3. CASE NarrowSearch
  <2>1. SearchInv'
    BY <1>3, NarrowPreserves DEF NarrowSearch
  <2>. QED
    BY <1>3, <2>1 DEF NarrowSearch, Narrow, fileVars, UnpacksObjects, Starts
<1>4. CASE Located
  <2>1. SearchInv'
    BY <1>4, SearchUntouched DEF Located
  <2>2. place \in Places(index)
    BY <1>4 DEF Located, SearchInv, SearchTypeOK
  <2>3. PICK o \in ToSet(pack.objects) : o.at = PackOffset(index, place)
    BY <2>2, PackAssumption
  <2>. QED
    BY <1>4, <2>1, <2>3 DEF Located, UnpacksObjects, Starts
<1>5. CASE NotLocated
  BY <1>5, SearchUntouched DEF NotLocated, Answer, UnpacksObjects
<1>6. CASE UnpackWhole
  <2>1. UNCHANGED <<index, searchVars, pack>> /\ pc' # "unpack"
    BY <1>6 DEF UnpackWhole, Crash
  <2>. QED
    BY <2>1, SearchUntouched DEF UnpacksObjects
<1>7. CASE UnpackDelta
  <2>. DEFINE o == ObjectAt(pack, offset)
  <2>1. offset \in Starts(pack)
    BY <1>7 DEF UnpackDelta, UnpacksObjects
  <2>2. o \in ToSet(pack.objects)
    BY <2>1 DEF ObjectAt, Starts
  <2>3. PICK k \in 1..Len(pack.objects) : o = pack.objects[k]
    <3>1. DOMAIN pack.objects = 1..Len(pack.objects)
      BY PackAssumption
    <3>. QED
      BY <2>2, <3>1 DEF ToSet
  <2>4. /\ o.kind = "ofs" => BaseOffset(o) \in Starts(pack)
        /\ o.kind = "ref" => o.base \in Sha
    BY <2>3, PackAssumption DEF BaseOffset
  <2>5. CASE Crash
    BY <2>5, SearchUntouched DEF Crash, UnpacksObjects
  <2>6. CASE o.kind = "ofs" /\ offset' = BaseOffset(o) /\ UNCHANGED <<index, searchVars, pack>>
    BY <2>4, <2>6, SearchUntouched DEF UnpacksObjects, Starts
  <2>7. CASE o.kind = "ref" /\ BeginSearch(o.base) /\ pc' = "search" /\ pack' = pack
    <3>1. SearchInv'
      BY <1>1, <2>4, <2>7, BeginEstablishes
    <3>. QED
      BY <2>7, <3>1 DEF BeginSearch, UnpacksObjects
  <2>. QED
    BY <1>7, <2>5, <2>6, <2>7 DEF UnpackDelta
<1>8. CASE ApplyDelta
  <2>1. UNCHANGED <<index, searchVars, pack>> /\ pc' # "unpack"
    BY <1>8 DEF ApplyDelta, Crash
  <2>. QED
    BY <2>1, SearchUntouched DEF UnpacksObjects
<1>9. CASE Loaded
  BY <1>9, SearchUntouched DEF Loaded, Answer, UnpacksObjects
<1>10. CASE Return
  <2>1. SearchInv'
    BY <1>1, <1>10, Cleared DEF Return
  <2>. QED
    BY <1>10, <2>1 DEF Return, UnpacksObjects
<1>11. CASE UNCHANGED vars
  BY <1>11, SearchUntouched DEF vars, UnpacksObjects, Starts
<1>. QED
  BY <1>2, <1>3, <1>4, <1>5, <1>6, <1>7, <1>8, <1>9, <1>10, <1>11 DEF Next, Run

LEMMA InitEstablishes == Init => PackInv
<1>. SUFFICES ASSUME Init PROVE PackInv
  OBVIOUS
<1>1. WellFormed(index) /\ Nil \notin Sha /\ index.count \in Nat
  BY PackAssumption, IndexAssumption DEF Init, WellFormed
<1>. QED
  BY <1>1 DEF Init, PackInv, SearchInv, SearchTypeOK, FoundIfIndexed, UnpacksObjects

\* The invariant of every behaviour.
LEMMA Invariant == Spec => []PackInv
  BY InitEstablishes, StepPreserves, PTL DEF Spec

\* indexOfSha1: finds a sha1 if and only if it is in the index, at its place,
\* for every index file and every pack.
THEOREM SearchIsExact == Spec => []FoundIfIndexed
<1>1. PackInv => FoundIfIndexed
  BY DEF PackInv, SearchInv
<1>. QED
  BY <1>1, Invariant, PTL

\* unpackObjectAtOffset: is called with the start of an object, along every
\* chain of offset and ref deltas; its other outcome is the exception for a
\* base that is not in the pack.
THEOREM UnpacksOnlyObjects == Spec => []UnpacksObjects
<1>1. PackInv => UnpacksObjects
  BY DEF PackInv
<1>. QED
  BY <1>1, Invariant, PTL
-----------------------------------------------------------------------------
(***************************************************************************)
(* Where the objects of a pack lie, and what the reverse index makes of it.*)
(***************************************************************************)
\* A pack is a sequence of objects, each behind the one before.
LEMMA PackLayout ==
  ASSUME NEW p \in Packs
  PROVE  /\ p.objects \in Seq(ToSet(p.objects)) /\ Len(p.objects) \in Nat \ {0}
         /\ p.index.count = Len(p.objects) /\ WellFormed(p.index) /\ p.checksum \in Nat
         /\ \A k \in 1..Len(p.objects) :
              /\ p.objects[k] \in ToSet(p.objects) /\ p.objects[k].sha \in Sha
              /\ p.objects[k].at \in Nat /\ p.objects[k].to \in Nat
              /\ p.objects[k].ref \in Nat /\ p.objects[k].head \in Nat \ {0}
              /\ p.objects[k].to > p.objects[k].at + p.objects[k].head + p.objects[k].ref
              /\ p.objects[k].kind \in {"whole", "ofs", "ref"}
              /\ k = Len(p.objects) => p.objects[k].to = p.checksum
              /\ k # Len(p.objects) => p.objects[k].to = p.objects[k + 1].at
         /\ \A o \in ToSet(p.objects) : \E k \in 1..Len(p.objects) : p.objects[k] = o
<1>1. p.objects \in Seq(ToSet(p.objects)) /\ p.objects # <<>>
  BY PackAssumption
<1>2. Len(p.objects) \in Nat /\ Len(p.objects) # 0
  BY <1>1, EmptySeq, LenProperties
<1>3. \A x : x \in ToSet(p.objects) <=> \E k \in 1..Len(p.objects) : p.objects[k] = x
  BY <1>1, ToSetIsElements
<1>4. p.index.count = Len(p.objects) /\ p.index \in Indexes /\ p.checksum \in Nat
  BY PackAssumption
<1>5. ASSUME NEW k \in 1..Len(p.objects)
      PROVE  /\ p.objects[k] \in ToSet(p.objects) /\ p.objects[k].sha \in Sha
             /\ p.objects[k].at \in Nat /\ p.objects[k].to \in Nat
             /\ p.objects[k].ref \in Nat /\ p.objects[k].head \in Nat \ {0}
             /\ p.objects[k].to > p.objects[k].at + p.objects[k].head + p.objects[k].ref
             /\ p.objects[k].kind \in {"whole", "ofs", "ref"}
             /\ k = Len(p.objects) => p.objects[k].to = p.checksum
             /\ k # Len(p.objects) => p.objects[k].to = p.objects[k + 1].at
  <2>1. p.objects[k] \in ToSet(p.objects)
    BY <1>3
  <2> DEFINE o == p.objects[k]
  <2>2. /\ {o.at, o.to, o.ref} \subseteq Nat /\ o.head \in Nat \ {0}
        /\ o.kind \in {"whole", "ofs", "ref"} /\ o.sha \in Sha
        /\ o.to > o.at + o.head + o.ref
        /\ o.to = IF k = Len(p.objects) THEN p.checksum ELSE p.objects[k + 1].at
    BY PackAssumption
  <2>. QED
    BY <2>1, <2>2
<1>. QED
  BY <1>1, <1>2, <1>3, <1>4, <1>5, IndexAssumption

LEMMA ObjectsAscend ==
  ASSUME NEW p \in Packs, NEW i \in 1..Len(p.objects), NEW j \in 1..Len(p.objects), i < j
  PROVE  p.objects[i].to <= p.objects[j].at /\ p.objects[i].at < p.objects[j].at
<1> DEFINE n == Len(p.objects)
           at(k) == p.objects[k].at
           to(k) == p.objects[k].to
           D == {d \in Nat : i + d + 1 <= n => to(i) <= at(i + d + 1)}
<1>1. n \in Nat /\ \A k \in 1..n : at(k) \in Nat /\ to(k) \in Nat /\ at(k) < to(k)
  <2>1. ASSUME NEW k \in 1..n PROVE at(k) \in Nat /\ to(k) \in Nat /\ at(k) < to(k)
    <3>1. /\ at(k) \in Nat /\ to(k) \in Nat /\ p.objects[k].ref \in Nat /\ p.objects[k].head \in Nat
          /\ to(k) > at(k) + p.objects[k].head + p.objects[k].ref
      BY PackLayout
    <3>. QED
      BY <3>1, SMTT(20)
  <2>. QED
    BY <2>1, PackLayout
<1>2. \A k \in 1..n : k # n => to(k) = at(k + 1)
  BY PackLayout
<1> HIDE DEF n, at, to
<1>3. 0 \in D
  <2>1. i + 0 + 1 = i + 1 /\ i \in 1..n
    BY DEF n
  <2>2. i + 1 <= n => i # n
    BY <1>1, <2>1
  <2>3. i + 1 <= n => to(i) <= at(i + 1)
    <3>1. i + 1 <= n => to(i) = at(i + 1)
      BY <1>2, <2>1, <2>2
    <3>. QED
      BY <1>1, <2>1, <3>1
  <2>. QED
    BY <2>1, <2>3
<1>4. ASSUME NEW d \in Nat, d \in D PROVE d + 1 \in D
  <2>. SUFFICES ASSUME i + (d + 1) + 1 <= n PROVE to(i) <= at(i + (d + 1) + 1)
    OBVIOUS
  <2> DEFINE k == i + d + 1
  <2>1. k \in 1..n /\ k # n /\ i + (d + 1) + 1 = k + 1 /\ k + 1 \in 1..n /\ i \in 1..n
    BY <1>1 DEF n
  <2>2. to(i) <= at(k)
    BY <1>4, <2>1
  <2> HIDE DEF k
  <2>3. to(k) = at(k + 1) /\ at(k) < to(k)
    BY <1>1, <1>2, <2>1
  <2>4. to(i) \in Nat /\ at(k) \in Nat /\ at(k + 1) \in Nat
    BY <1>1, <2>1
  <2>. QED
    BY <2>1, <2>2, <2>3, <2>4
<1>5. to(i) <= at(j)
  <2> HIDE DEF D
  <2>1. Nat \subseteq D
    BY <1>3, <1>4, NatSetInduction
  <2>2. j - i - 1 \in D /\ i + (j - i - 1) + 1 = j /\ j <= n
    BY <1>1, <2>1 DEF n
  <2>. QED
    BY <2>2 DEF D
<1>6. at(i) < at(j)
  <2>1. i \in 1..n /\ j \in 1..n
    BY DEF n
  <2>2. at(i) < to(i) /\ at(i) \in Nat /\ to(i) \in Nat /\ at(j) \in Nat
    BY <1>1, <2>1
  <2>. QED
    BY <1>5, <2>2
<1>. QED
  BY <1>5, <1>6 DEF at, to

\* What the lemmas below are about: the pack of this behaviour and its index.
InPack == pack \in Packs /\ index = pack.index

At(k) == pack.objects[k].at

\* The places of the objects: facts of PackLayout and ObjectsAscend in one.
Ordered ==
  /\ Len(pack.objects) \in Nat \ {0} /\ index.count = Len(pack.objects)
  /\ \A k \in 1..Len(pack.objects) : At(k) \in Nat
  /\ \A i, j \in 1..Len(pack.objects) : i < j => At(i) < At(j)
  /\ \A v : v \in Offsets <=> \E k \in 1..Len(pack.objects) : v = At(k)

LEMMA PackOrdered ==
  ASSUME InPack
  PROVE  Ordered
<1>1. /\ Len(pack.objects) \in Nat \ {0} /\ index.count = Len(pack.objects)
      /\ \A k \in 1..Len(pack.objects) : At(k) \in Nat /\ pack.objects[k] \in ToSet(pack.objects)
      /\ \A o \in ToSet(pack.objects) : \E k \in 1..Len(pack.objects) : pack.objects[k] = o
  BY PackLayout DEF InPack, At
<1>2. \A i, j \in 1..Len(pack.objects) : i < j => At(i) < At(j)
  BY ObjectsAscend DEF InPack, At
<1>3. ASSUME NEW v PROVE v \in Offsets <=> \E k \in 1..Len(pack.objects) : v = At(k)
  <2>1. /\ \A i \in Places(index) : \E o \in ToSet(pack.objects) : o.at = PackOffset(index, i)
        /\ \A o \in ToSet(pack.objects) : \E i \in Places(index) : o.at = PackOffset(index, i)
    BY PackAssumption, ZenonT(30) DEF InPack
  <2>2. ASSUME v \in Offsets PROVE \E k \in 1..Len(pack.objects) : v = At(k)
    <3>1. PICK i \in Places(index) : v = PackOffset(index, i)
      BY <2>2 DEF Offsets
    <3>2. PICK o \in ToSet(pack.objects) : o.at = v
      BY <2>1, <3>1
    <3>. QED
      BY <1>1, <3>2 DEF At
  <2>3. ASSUME NEW k \in 1..Len(pack.objects), v = At(k) PROVE v \in Offsets
    BY <1>1, <2>1, <2>3 DEF At, Offsets
  <2>. QED
    BY <2>2, <2>3
<1>. QED
  BY <1>1, <1>2, <1>3 DEF Ordered

\* The binary search finds how many objects start before a value.
LEMMA BSearchCounts ==
  ASSUME Ordered, NEW v \in Nat, NEW k \in 0..Len(pack.objects),
         k = 0 \/ At(k) < v, k = Len(pack.objects) \/ v <= At(k + 1)
  PROVE  BSearch(v) = k
<1> DEFINE n == Len(pack.objects)
           T == {o \in Offsets : o < v}
           f == [j \in 1..k |-> At(j)]
<1>1. n \in Nat /\ k \in Nat /\ \A j \in 1..n : At(j) \in Nat
  BY DEF Ordered
<1>2. \A i, j \in 1..n : i < j => At(i) < At(j)
  BY DEF Ordered
<1>3. ASSUME NEW j \in 1..n PROVE j <= k <=> At(j) < v
  <2>1. CASE j <= k
    <3>1. k \in 1..n /\ At(k) < v /\ At(k) \in Nat /\ At(j) \in Nat
      BY <1>1, <2>1
    <3>2. j = k \/ At(j) < At(k)
      BY <1>1, <1>2, <2>1, <3>1
    <3>. QED
      BY <2>1, <3>1, <3>2
  <2>2. CASE ~(j <= k)
    <3>1. k + 1 \in 1..n /\ k # n /\ (k + 1 = j \/ k + 1 < j)
      BY <1>1, <2>2
    <3>2. v <= At(k + 1) /\ At(k + 1) \in Nat /\ At(j) \in Nat
      BY <1>1, <3>1
    <3>3. k + 1 = j \/ At(k + 1) < At(j)
      BY <1>2, <3>1
    <3>. QED
      BY <2>2, <3>2, <3>3
  <2>. QED
    BY <2>1, <2>2
<1>4. 1..k \subseteq 1..n
  BY <1>1
<1>5. \A x : x \in T <=> \E j \in 1..k : x = At(j)
  <2>1. ASSUME NEW x \in T PROVE \E j \in 1..k : x = At(j)
    <3>1. PICK j \in 1..n : x = At(j)
      BY DEF Ordered
    <3>2. j <= k
      BY <1>3, <3>1
    <3>. QED
      BY <1>1, <3>1, <3>2
  <2>2. ASSUME NEW j \in 1..k PROVE At(j) \in T
    <3>1. j \in 1..n /\ j <= k
      BY <1>1
    <3>. QED
      BY <1>3, <3>1 DEF Ordered
  <2>. QED
    BY <2>1, <2>2
<1>6. f \in Bijection(1..k, T)
  <2>1. f \in [1..k -> T] /\ \A t \in T : \E j \in 1..k : f[j] = t
    BY <1>5
  <2>2. ASSUME NEW i \in 1..k, NEW j \in 1..k, f[i] = f[j] PROVE i = j
    <3>1. i \in 1..n /\ j \in 1..n /\ At(i) = At(j)
      BY <1>4, <2>2
    <3>2. ~(i < j) /\ ~(j < i)
      BY <1>1, <1>2, <3>1
    <3>. QED
      BY <1>1, <3>1, <3>2
  <2>. QED
    BY <2>1, <2>2 DEF Bijection, Injection, Surjection, IsInjective
<1>7. IsFiniteSet(1..k) /\ Cardinality(1..k) = k
  BY <1>1, FS_Interval
<1> HIDE DEF T, f
<1>8. Cardinality(T) = k
  BY <1>6, <1>7, FS_Bijection DEF ExistsBijection
<1>. QED
  BY <1>8 DEF T, BSearch

\* So the reverse index has the objects at their places.
LEMMA PlacesOfObjects ==
  ASSUME Ordered, NEW k \in 1..Len(pack.objects)
  PROVE  OffsetAtPlace(k - 1) = At(k)
<1> DEFINE n == Len(pack.objects)
<1>1. n \in Nat /\ \A j \in 1..n : At(j) \in Nat
  BY DEF Ordered
<1>2. ASSUME NEW j \in 1..n PROVE BSearch(At(j)) = j - 1
  <2>1. j - 1 \in 0..n /\ (j - 1 = 0 \/ (j - 1 \in 1..n /\ j - 1 < j)) /\ (j - 1) + 1 = j
    BY <1>1
  <2>2. j - 1 = 0 \/ At(j - 1) < At(j)
    BY <2>1 DEF Ordered
  <2>3. At(j) <= At((j - 1) + 1) /\ At(j) \in Nat
    BY <1>1, <2>1
  <2>. QED
    BY <2>1, <2>2, <2>3, BSearchCounts
<1>3. At(k) \in Offsets /\ BSearch(At(k)) = k - 1
  BY <1>2 DEF Ordered
<1>4. ASSUME NEW o \in Offsets, BSearch(o) = k - 1 PROVE o = At(k)
  <2>1. PICK j \in 1..n : o = At(j)
    BY DEF Ordered
  <2>2. j - 1 = k - 1
    BY <1>2, <1>4, <2>1
  <2>. QED
    BY <1>1, <2>1, <2>2
<1>. QED
  BY <1>3, <1>4 DEF OffsetAtPlace

\* The range the reverse index gives for the data of an object reaches up to
\* its end at least, unless it is read beyond its own end, for the last object.
DataReaches(o, from) ==
  /\ PastEnd(from) => o = Last(pack.objects)
  /\ ~PastEnd(from) => \A next \in NextOffsets(from) :
       /\ DataEnd(next) >= o.to /\ InFile(from, DataEnd(next))
       /\ DataEnd(next) # from /\ Inflate(o, DataEnd(next)) = o.text

LEMMA RangeReaches ==
  ASSUME InPack, NEW o \in ToSet(pack.objects), NEW from \in {o.at + o.head, o.at + o.head + o.ref}
  PROVE  DataReaches(o, from)
<1> DEFINE n == Len(pack.objects)
           To(k) == pack.objects[k].to
<1>1. Ordered
  BY PackOrdered
<1>2. n \in Nat \ {0} /\ index.count = n /\ \A k \in 1..n : At(k) \in Nat
  BY <1>1 DEF Ordered
<1>3. pack.checksum \in Nat /\ \A k \in 1..n : To(k) \in Nat
  BY PackLayout DEF InPack
<1>4. PICK k \in 1..n : pack.objects[k] = o
  BY PackLayout DEF InPack
<1>5. /\ o.at = At(k) /\ o.to = To(k) /\ o.ref \in Nat /\ o.head \in Nat \ {0}
      /\ To(k) > At(k) + o.head + o.ref
      /\ k = n => To(k) = pack.checksum
      /\ k # n => To(k) = At(k + 1)
  BY <1>4, PackLayout DEF InPack, At
<1>6. from \in Nat /\ At(k) < from /\ from < To(k)
  <2>1. At(k) \in Nat /\ To(k) \in Nat
    BY <1>2, <1>3
  <2>. QED
    BY <1>5, <2>1, SMTT(20)
<1>7. \A j \in 1..n : To(j) <= pack.checksum
  <2>. TAKE j \in 1..n
  <2>1. n \in 1..n /\ To(n) = pack.checksum
    BY <1>2, PackLayout DEF InPack
  <2>2. CASE j < n
    <3>1. To(j) <= At(n)
      BY <2>1, <2>2, ObjectsAscend DEF InPack, At
    <3>2. /\ pack.objects[n].ref \in Nat /\ pack.objects[n].head \in Nat
          /\ To(n) > At(n) + pack.objects[n].head + pack.objects[n].ref
      BY <2>1, PackLayout DEF InPack, At
    <3>3. At(n) \in Nat /\ To(n) \in Nat /\ To(j) \in Nat
      BY <1>2, <1>3, <2>1
    <3>4. At(n) <= To(n)
      BY <3>2, <3>3
    <3> HIDE DEF To
    <3>. QED
      BY <2>1, <3>1, <3>3, <3>4 DEF To
  <2>. QED
    BY <1>2, <1>3, <2>1, <2>2
<1>8. BSearch(from) = k
  <2>1. k \in 0..n /\ k # 0
    BY <1>2
  <2>2. k = n \/ from <= At(k + 1)
    <3>1. CASE k # n
      <4>1. k + 1 \in 1..n
        BY <1>2, <3>1
      <4>. QED
        BY <1>2, <1>3, <1>5, <1>6, <3>1, <4>1
    <3>. QED
      BY <3>1
  <2>. QED
    BY <1>1, <1>6, <2>1, <2>2, BSearchCounts
<1>9. PastEnd(from) <=> k = n
  BY <1>2, <1>8 DEF PastEnd
<1>10. PastEnd(from) => o = Last(pack.objects)
  BY <1>4, <1>9 DEF Last
<1>11. ASSUME ~PastEnd(from), NEW next \in NextOffsets(from)
       PROVE  DataEnd(next) \in Nat /\ DataEnd(next) >= o.to /\ DataEnd(next) <= pack.checksum
  <2>1. k # n /\ k + 1 \in 1..n
    BY <1>2, <1>9, <1>11
  <2>2. CASE k + 1 = n
    <3>1. next = -1
      BY <1>2, <1>8, <1>11, <2>2 DEF NextOffsets
    <3>2. DataEnd(next) = pack.checksum
      BY <3>1 DEF DataEnd
    <3>. QED
      BY <1>3, <1>5, <1>7, <3>2
  <2>3. CASE k + 1 # n
    <3>1. k + 2 \in 1..n /\ (k + 2) - 1 = k + 1 /\ k + 1 < k + 2
      BY <1>2, <2>1, <2>3
    <3>2. next = OffsetAtPlace(k + 1)
      BY <1>2, <1>8, <1>11, <2>3 DEF NextOffsets
    <3>3. next = At(k + 2)
      <4>1. OffsetAtPlace((k + 2) - 1) = At(k + 2)
        BY <1>1, <3>1, PlacesOfObjects
      <4>. QED
        BY <3>1, <3>2, <4>1
    <3>4. At(k + 1) < At(k + 2) /\ At(k + 1) \in Nat /\ At(k + 2) \in Nat
      BY <1>1, <2>1, <3>1 DEF Ordered
    <3>5. DataEnd(next) = At(k + 2)
      BY <3>3, <3>4 DEF DataEnd
    <3>6. At(k + 2) <= pack.checksum
      <4>1. /\ pack.objects[k + 2].ref \in Nat /\ pack.objects[k + 2].head \in Nat
            /\ To(k + 2) > At(k + 2) + pack.objects[k + 2].head + pack.objects[k + 2].ref
        BY <3>1, PackLayout DEF InPack, At
      <4>2. To(k + 2) \in Nat /\ To(k + 2) <= pack.checksum
        BY <1>3, <1>7, <3>1
      <4>. QED
        BY <1>3, <3>4, <4>1, <4>2, SMTT(20)
    <3>7. o.to = At(k + 1)
      BY <1>5, <2>1
    <3>. QED
      BY <3>4, <3>5, <3>6, <3>7
  <2>. QED
    BY <2>2, <2>3
<1>12. ASSUME ~PastEnd(from), NEW next \in NextOffsets(from)
       PROVE  /\ DataEnd(next) >= o.to /\ InFile(from, DataEnd(next))
              /\ DataEnd(next) # from /\ Inflate(o, DataEnd(next)) = o.text
  <2>1. DataEnd(next) \in Nat /\ DataEnd(next) >= o.to /\ DataEnd(next) <= pack.checksum
    BY <1>11, <1>12
  <2>2. o.to \in Nat /\ from \in Nat /\ from < o.to
    BY <1>3, <1>5, <1>6
  <2>. QED
    BY <1>3, <2>1, <2>2 DEF InFile, Inflate
<1>. QED
  BY <1>10, <1>12 DEF DataReaches

-----------------------------------------------------------------------------
Named(p, s) == {o \in ToSet(p.objects) : o.sha = s}

\* The chain of a sha1 has its object and, of each delta, the base: that many
\* steps reach no object more.
LEMMA ChainCloses ==
  ASSUME NEW p \in Packs, NEW s
  PROVE  /\ Named(p, s) \subseteq Chain(p, s)
         /\ \A o \in Chain(p, s) : o \in ToSet(p.objects) /\ BaseOf(p, o) \subseteq Chain(p, s)
<1> DEFINE O == ToSet(p.objects)
           n == Len(p.objects)
           G == [T \in SUBSET O |-> UNION {BaseOf(p, o) : o \in T}]
           Unfolds(f) == f = [k \in 0..n |-> IF k = 0 THEN Named(p, s)
                                ELSE f[k - 1] \cup UNION {BaseOf(p, o) : o \in f[k - 1]}]
           reach == CHOOSE f : Unfolds(f)
<1>1. n \in Nat /\ p.objects \in Seq(O) /\ \A o \in O : \E k \in 1..n : p.objects[k] = o
  BY PackLayout
<1>2. Chain(p, s) = reach[n]
  BY DEF Chain, Named
<1>3. \A o \in O : BaseOf(p, o) \subseteq O
  BY DEF BaseOf
<1>4. Named(p, s) \in SUBSET O
  BY DEF Named
<1>5. G \in [SUBSET O -> SUBSET O] /\ \A T \in SUBSET O : G[T] = UNION {BaseOf(p, o) : o \in T}
  BY <1>3
<1>6. PICK f : f \in [0..n -> SUBSET O] /\ f[0] = Named(p, s) /\ \A k \in 1..n : f[k] = f[k - 1] \cup G[f[k - 1]]
  <2> DEFINE h == [x \in (1..n) \X SUBSET O |-> x[2] \cup G[x[2]]]
  <2>1. /\ h \in [(1..n) \X SUBSET O -> SUBSET O]
        /\ \A k \in 1..n, T \in SUBSET O : h[<<k, T>>] = T \cup G[T]
    <3> HIDE DEF G, O, n
    <3>. QED
      BY <1>5
  <2> HIDE DEF h, G, O, n
  <2>2. PICK f : Recurs(f, n, SUBSET O, Named(p, s), h)
    BY <1>1, <1>4, <2>1, PrimitiveRecursion
  <2>3. f \in [0..n -> SUBSET O] /\ f[0] = Named(p, s) /\ \A k \in 1..n : f[k] = h[<<k, f[k - 1]>>]
    BY <2>2 DEF Recurs
  <2>4. ASSUME NEW k \in 1..n PROVE f[k] = f[k - 1] \cup G[f[k - 1]]
    <3>1. k - 1 \in 0..n
      BY <1>1
    <3>2. f[k - 1] \in SUBSET O
      BY <2>3, <3>1
    <3>. QED
      BY <2>1, <2>3, <3>2
  <2>. QED
    BY <2>3, <2>4
<1> HIDE DEF G, O
<1>7. Unfolds(f)
  <2>1. ASSUME NEW k \in 0..n
        PROVE  f[k] = IF k = 0 THEN Named(p, s) ELSE f[k - 1] \cup UNION {BaseOf(p, o) : o \in f[k - 1]}
    <3>1. CASE k = 0
      BY <1>6, <3>1
    <3>2. CASE k # 0
      <4>1. k \in 1..n /\ k - 1 \in 0..n
        BY <1>1, <3>2
      <4>2. f[k - 1] \in SUBSET O /\ f[k] = f[k - 1] \cup G[f[k - 1]]
        BY <1>6, <4>1
      <4>. QED
        BY <1>5, <3>2, <4>2
    <3>. QED
      BY <3>1, <3>2
  <2>. QED
    BY <1>6, <2>1
<1>8. Unfolds(reach)
  <2> HIDE DEF Unfolds
  <2>. QED
    BY <1>7
<1> HIDE DEF reach
<1>9. /\ reach[0] = Named(p, s)
      /\ \A k \in 1..n : reach[k] = reach[k - 1] \cup UNION {BaseOf(p, o) : o \in reach[k - 1]}
  <2> HIDE DEF n
  <2>1. 0 \in 0..n /\ \A k \in 1..n : k \in 0..n /\ k # 0
    BY <1>1
  <2>. QED
    BY <1>8, <2>1
<1> HIDE DEF Unfolds, n
<1>10. \A k \in 0..n : reach[k] = f[k]
  <2> DEFINE D == {k \in Nat : k <= n => reach[k] = f[k]}
  <2>1. 0 \in D
    BY <1>6, <1>9
  <2>2. ASSUME NEW k \in Nat, k \in D PROVE k + 1 \in D
    <3>. SUFFICES ASSUME k + 1 <= n PROVE reach[k + 1] = f[k + 1]
      OBVIOUS
    <3>1. reach[k] = f[k] /\ k + 1 \in 1..n /\ (k + 1) - 1 = k /\ k \in 0..n
      BY <1>1, <2>2
    <3>2. f[k] \in SUBSET O
      BY <1>6, <3>1
    <3>3. reach[k + 1] = reach[k] \cup UNION {BaseOf(p, o) : o \in reach[k]}
      BY <1>9, <3>1
    <3>4. f[k + 1] = f[k] \cup G[f[k]]
      BY <1>6, <3>1
    <3>. QED
      BY <1>5, <3>1, <3>2, <3>3, <3>4
  <2> HIDE DEF D
  <2>3. Nat \subseteq D
    BY <2>1, <2>2, NatSetInduction
  <2>. QED
    BY <2>3 DEF D
<1>11. Levels(O, f, n, Named(p, s), G)
  <2>1. ASSUME NEW k \in Nat, k + 1 <= n PROVE f[k + 1] = f[k] \cup G[f[k]]
    <3>1. k + 1 \in 1..n /\ (k + 1) - 1 = k
      BY <1>1, <2>1
    <3>. QED
      BY <1>6, <3>1
  <2>. QED
    BY <1>1, <1>4, <1>5, <1>6, <2>1, Zenon DEF Levels, O
<1>12. IsFiniteSet(O) /\ Cardinality(O) <= n
  <2> DEFINE g == [k \in 1..n |-> p.objects[k]]
  <2>1. \A k \in 1..n : p.objects[k] \in O
    BY PackLayout DEF n, O
  <2>2. g \in Surjection(1..n, O)
    BY <1>1, <2>1 DEF Surjection
  <2>3. IsFiniteSet(1..n) /\ Cardinality(1..n) = n
    BY <1>1, FS_Interval
  <2> HIDE DEF g
  <2>. QED
    BY <2>2, <2>3, FS_Surjection
<1>13. f[n] \in SUBSET O /\ Named(p, s) \subseteq f[n] /\ G[f[n]] \subseteq f[n]
  BY <1>11, <1>12, LevelsClose
<1>14. Chain(p, s) = f[n]
  BY <1>1, <1>2, <1>10
<1>15. ASSUME NEW o \in Chain(p, s) PROVE o \in O /\ BaseOf(p, o) \subseteq Chain(p, s)
  <2>1. f[n] \in SUBSET O /\ G[f[n]] \subseteq f[n] /\ o \in f[n]
    BY <1>13, <1>14, <1>15
  <2>2. G[f[n]] = UNION {BaseOf(p, x) : x \in f[n]}
    BY <1>5, <2>1
  <2>. QED
    BY <1>14, <2>1, <2>2
<1>. QED
  BY <1>13, <1>14, <1>15 DEF O

-----------------------------------------------------------------------------
\* The pieces of a text put together are a text.
LEMMA FlattenedType ==
  ASSUME NEW S, NEW ss \in Seq(Seq(S))
  PROVE  FlattenSeq(ss) \in Seq(S)
<1> DEFINE n == Len(ss)
           Unfolds(f) == f = [i \in 1..n |-> IF i = 1 THEN ss[i] ELSE f[i - 1] \o ss[i]]
           flatten == CHOOSE f : Unfolds(f)
<1>1. n \in Nat /\ \A i \in 1..n : ss[i] \in Seq(S)
  BY LenProperties
<1>2. CASE n = 0
  <2>1. ss = <<>> /\ FlattenSeq(ss) = ss
    BY <1>2, EmptySeq DEF FlattenSeq
  <2>. QED
    BY <2>1, EmptySeq
<1>3. CASE n # 0
  <2>1. FlattenSeq(ss) = flatten[n]
    BY <1>3 DEF FlattenSeq
  <2>2. PICK g : /\ g \in [0..(n - 1) -> Seq(S)] /\ g[0] = ss[1]
                 /\ \A k \in 1..(n - 1) : g[k] = g[k - 1] \o ss[k + 1]
    <3> DEFINE h == [x \in (1..(n - 1)) \X Seq(S) |-> x[2] \o ss[x[1] + 1]]
    <3>1. n - 1 \in Nat /\ ss[1] \in Seq(S) /\ \A k \in 1..(n - 1) : ss[k + 1] \in Seq(S)
      BY <1>1, <1>3
    <3>2. h \in [(1..(n - 1)) \X Seq(S) -> Seq(S)]
      <4>1. \A t, u \in Seq(S) : t \o u \in Seq(S)
        BY ConcatProperties
      <4> HIDE DEF n
      <4>. QED
        BY <3>1, <4>1
    <3>3. \A k \in 1..(n - 1), t \in Seq(S) : h[<<k, t>>] = t \o ss[k + 1]
      OBVIOUS
    <3> HIDE DEF h, n
    <3>4. PICK g : Recurs(g, n - 1, Seq(S), ss[1], h)
      BY <3>1, <3>2, PrimitiveRecursion
    <3>5. g \in [0..(n - 1) -> Seq(S)] /\ g[0] = ss[1] /\ \A k \in 1..(n - 1) : g[k] = h[<<k, g[k - 1]>>]
      BY <3>4 DEF Recurs
    <3>6. ASSUME NEW k \in 1..(n - 1) PROVE g[k] = g[k - 1] \o ss[k + 1]
      <4>1. k - 1 \in 0..(n - 1)
        BY <3>1
      <4>. QED
        BY <3>3, <3>5, <4>1
    <3>. QED
      BY <3>5, <3>6
  <2> DEFINE f == [i \in 1..n |-> g[i - 1]]
  <2>3. \A i \in 1..n : i - 1 \in 0..(n - 1)
    BY <1>1
  <2>4. \A i \in 1..n : f[i] = IF i = 1 THEN ss[i] ELSE f[i - 1] \o ss[i]
    <3>. TAKE i \in 1..n
    <3>1. CASE i = 1
      BY <2>2, <3>1
    <3>2. CASE i # 1
      <4>1. i - 1 \in 1..(n - 1) /\ i - 1 \in 1..n /\ (i - 1) + 1 = i
        BY <1>1, <3>2
      <4>2. g[i - 1] = g[(i - 1) - 1] \o ss[(i - 1) + 1]
        BY <2>2, <4>1
      <4>3. f[i - 1] = g[(i - 1) - 1] /\ f[i] = g[i - 1]
        BY <4>1
      <4>. QED
        BY <3>2, <4>1, <4>2, <4>3
    <3>. QED
      BY <3>1, <3>2
  <2>5. Unfolds(f)
    BY <2>4
  <2>6. Unfolds(flatten)
    <3> HIDE DEF Unfolds, f
    <3>. QED
      BY <2>5
  <2> HIDE DEF flatten
  <2>7. \A i \in 1..n : flatten[i] = IF i = 1 THEN ss[i] ELSE flatten[i - 1] \o ss[i]
    BY <2>6
  <2> HIDE DEF Unfolds, n
  <2> DEFINE D == {k \in Nat : k + 1 <= n => flatten[k + 1] \in Seq(S)}
  <2>8. 0 \in D
    BY <1>1, <1>3, <2>7
  <2>9. ASSUME NEW k \in Nat, k \in D PROVE k + 1 \in D
    <3>. SUFFICES ASSUME (k + 1) + 1 <= n PROVE flatten[(k + 1) + 1] \in Seq(S)
      OBVIOUS
    <3>1. flatten[k + 1] \in Seq(S) /\ (k + 1) + 1 \in 1..n /\ ((k + 1) + 1) - 1 = k + 1 /\ (k + 1) + 1 # 1
      BY <1>1, <2>9
    <3>2. flatten[(k + 1) + 1] = flatten[k + 1] \o ss[(k + 1) + 1]
      BY <2>7, <3>1
    <3>. QED
      BY <1>1, <3>1, <3>2, ConcatProperties
  <2> HIDE DEF D
  <2>10. Nat \subseteq D
    BY <2>8, <2>9, NatSetInduction
  <2>11. n - 1 \in D /\ (n - 1) + 1 = n
    BY <1>1, <1>3, <2>10
  <2>. QED
    BY <2>1, <2>11 DEF D
<1>. QED
  BY <1>2, <1>3

\* What a pack holds of the contents, one object at a time.
LEMMA Contents ==
  ASSUME NEW p \in Packs, NEW o \in ToSet(p.objects)
  PROVE  /\ Original \in [Sha -> Seq(Nat)] /\ FullCopy \in Nat /\ o.sha \in Sha
         /\ o.kind = "whole" => o.text = Original[o.sha]
         /\ o.kind # "whole" =>
              /\ o.text # Nil /\ Len(o.text) \in Nat
              /\ \A k \in 1..Len(o.text) :
                   IF IsCopy(o.text[k]) THEN o.text[k].off \in Nat /\ o.text[k].size \in Nat
                   ELSE o.text[k].insert \in Seq(Nat)
              /\ \A b \in BaseOf(p, o) : Writes(Original[b.sha], o.text, Original[o.sha])
<1>1. o.sha \in Sha
  BY PackLayout
<1>2. /\ Original \in [Sha -> Seq(Nat)] /\ FullCopy \in Nat
      /\ o.kind = "whole" => o.text = Original[o.sha]
      /\ o.kind # "whole" =>
           /\ o.text # Nil /\ Len(o.text) \in Nat
           /\ \A b \in BaseOf(p, o) : Writes(Original[b.sha], o.text, Original[o.sha])
  BY ContentsAssumption
<1>3. ASSUME o.kind # "whole", NEW k \in 1..Len(o.text)
      PROVE  IF IsCopy(o.text[k]) THEN o.text[k].off \in Nat /\ o.text[k].size \in Nat
             ELSE o.text[k].insert \in Seq(Nat)
  <2>1. IF IsCopy(o.text[k]) THEN {o.text[k].off, o.text[k].size} \subseteq Nat
        ELSE o.text[k].insert \in Seq(Nat)
    BY <1>3, ContentsAssumption
  <2>. QED
    BY <2>1
<1>. QED
  BY <1>1, <1>2, <1>3

\* Patching gives contents again, if it does not raise.
LEMMA PatchedType ==
  ASSUME NEW p \in Packs, NEW o \in ToSet(p.objects), o.kind # "whole",
         NEW base \in Seq(Nat), ~PatchRaises(base, o.text)
  PROVE  Patched(base, o.text) \in Seq(Nat)
<1> DEFINE delta == o.text
           m == Len(delta)
           piece(k) == IF IsCopy(delta[k])
                       THEN SubSeq(base, delta[k].off + 1, delta[k].off + CopySize(delta[k]))
                       ELSE delta[k].insert
<1>1. /\ m \in Nat /\ FullCopy \in Nat /\ Len(base) \in Nat /\ \A i \in 1..Len(base) : base[i] \in Nat
      /\ \A k \in 1..m : IF IsCopy(delta[k]) THEN delta[k].off \in Nat /\ delta[k].size \in Nat
                         ELSE delta[k].insert \in Seq(Nat)
  BY Contents, LenProperties
<1>2. ASSUME NEW k \in 1..m PROVE piece(k) \in Seq(Nat)
  <2>1. CASE IsCopy(delta[k])
    <3> DEFINE from == delta[k].off + 1
               to == delta[k].off + CopySize(delta[k])
    <3>1. to <= Len(base)
      <4>1. ~(to > Len(base))
        BY <2>1 DEF PatchRaises
      <4>2. to \in Nat
        BY <1>1, <2>1 DEF CopySize
      <4>. QED
        BY <1>1, <4>1, <4>2
    <3>2. from \in Int /\ to \in Int /\ \A i \in from..to : base[i] \in Nat
      <4>1. from \in Nat /\ from >= 1 /\ to \in Nat
        BY <1>1, <2>1 DEF CopySize
      <4> HIDE DEF from, to
      <4>2. \A i \in from..to : i \in 1..Len(base)
        BY <1>1, <3>1, <4>1
      <4>. QED
        BY <1>1, <4>1, <4>2
    <3> HIDE DEF from, to
    <3>3. SubSeq(base, from, to) \in Seq(Nat)
      BY <3>2, SubSeqProperties
    <3>. QED
      BY <2>1, <3>3 DEF from, to
  <2>2. CASE ~IsCopy(delta[k])
    BY <1>1, <2>2
  <2>. QED
    BY <2>1, <2>2
<1> DEFINE pieces == [k \in 1..m |-> piece(k)]
<1>3. pieces \in Seq(Seq(Nat))
  <2> HIDE DEF piece, m
  <2>. QED
    BY <1>1, <1>2
<1>4. Patched(base, delta) = FlattenSeq(pieces)
  BY DEF Patched
<1> HIDE DEF pieces
<1>. QED
  BY <1>3, <1>4, FlattenedType

\* A delta that git wrote for a base gives back what it was made of.
LEMMA PatchRestores ==
  ASSUME NEW p \in Packs, NEW o \in ToSet(p.objects), o.kind # "whole",
         NEW b \in BaseOf(p, o), b.sha \in Sha
  PROVE  /\ ~PatchRaises(Original[b.sha], o.text)
         /\ Patched(Original[b.sha], o.text) = Original[o.sha]
<1> DEFINE delta == o.text
           m == Len(delta)
           base == Original[b.sha]
<1>1. /\ m \in Nat /\ FullCopy \in Nat /\ Len(base) \in Nat
      /\ \A k \in 1..m : IsCopy(delta[k]) => delta[k].off \in Nat /\ delta[k].size \in Nat
  BY Contents, LenProperties
<1>2. Writes(base, delta, Original[o.sha])
  BY Contents
<1>3. PICK n \in [1..m -> 0..Len(base)] :
        /\ \A k \in 1..m :
             IsCopy(delta[k]) => /\ n[k] > 0 /\ delta[k].off + n[k] <= Len(base)
                                 /\ delta[k].size = IF n[k] = FullCopy THEN 0 ELSE n[k]
        /\ Original[o.sha] = FlattenSeq([k \in 1..m |->
             IF IsCopy(delta[k]) THEN SubSeq(base, delta[k].off + 1, delta[k].off + n[k])
             ELSE delta[k].insert])
  BY <1>2 DEF Writes
<1>4. ASSUME NEW k \in 1..m, IsCopy(delta[k]) PROVE CopySize(delta[k]) = n[k]
  <2>1. n[k] \in Nat /\ n[k] > 0
    BY <1>1, <1>3, <1>4
  <2>. QED
    BY <1>3, <1>4, <2>1 DEF CopySize
<1>5. ~PatchRaises(base, delta)
  <2>1. ASSUME NEW k \in 1..m, IsCopy(delta[k]) PROVE ~(delta[k].off + CopySize(delta[k]) > Len(base))
    <3>1. delta[k].off + n[k] <= Len(base) /\ delta[k].off \in Nat /\ n[k] \in Nat
      BY <1>1, <1>3, <2>1
    <3>. QED
      BY <1>1, <1>4, <2>1, <3>1
  <2>. QED
    BY <2>1 DEF PatchRaises
<1>6. Patched(base, delta) = Original[o.sha]
  <2>1. \A k \in 1..m :
          (IF IsCopy(delta[k]) THEN SubSeq(base, delta[k].off + 1, delta[k].off + CopySize(delta[k]))
           ELSE delta[k].insert)
          = (IF IsCopy(delta[k]) THEN SubSeq(base, delta[k].off + 1, delta[k].off + n[k])
             ELSE delta[k].insert)
    BY <1>4
  <2>2. [k \in 1..m |-> IF IsCopy(delta[k])
                        THEN SubSeq(base, delta[k].off + 1, delta[k].off + CopySize(delta[k]))
                        ELSE delta[k].insert]
        = [k \in 1..m |-> IF IsCopy(delta[k]) THEN SubSeq(base, delta[k].off + 1, delta[k].off + n[k])
                          ELSE delta[k].insert]
    BY <2>1
  <2>. QED
    BY <1>3, <2>2 DEF Patched
<1>. QED
  BY <1>5, <1>6

-----------------------------------------------------------------------------
(***************************************************************************)
(* The invariant of a load.  A delta on the stack is what was sought when  *)
(* it was reached, and what is sought next is its base; the contents that  *)
(* come back are those of what was sought.                                 *)
(***************************************************************************)
\* What is sought with i deltas on the stack.
Sought(i) == IF i = 0 THEN Named(pack, call) ELSE BaseOf(pack, stack[i].o)

CallTypes ==
  /\ pc \in {"idle", "search", "unpack", "patch", "done", "crashed"}
  /\ call \in Sha \cup {Nil} /\ (call = Nil <=> pc = "idle")
  /\ answer \in {"none", "loaded", "notfound", "failed", "raised"}
  /\ answer # "none" <=> pc = "done"
  /\ pastEnd \in BOOLEAN
  /\ data = Nil \/ data \in Seq(Nat)

\* The deltas that wait for their base.
StackInv ==
  /\ stack \in Seq([o : ToSet(pack.objects), from : Nat])
  /\ \A i \in 1..Len(stack) :
       /\ stack[i].o.kind # "whole" /\ stack[i].from = stack[i].o.at + stack[i].o.head + stack[i].o.ref
       /\ stack[i].o \in Sought(i - 1) /\ stack[i].o \in Chain(pack, call)

PlaceInv ==
  /\ pc = "idle" => stack = <<>> /\ ~pastEnd
  /\ pc = "search" => wanted # Nil /\ Named(pack, wanted) = Sought(Len(stack))
  /\ pc = "unpack" => ObjectAt(pack, offset) \in Sought(Len(stack))
  /\ pc = "patch" => data \in Seq(Nat)
  /\ pc = "patch" /\ ~pastEnd => \E b \in Sought(Len(stack)) : data = Original[b.sha]

LoadInv == PackInv /\ CallTypes /\ StackInv /\ PlaceInv /\ LoadsOriginal /\ FailsOnlyWithoutBase

\* What is sought is among the objects of the chain.
LEMMA SoughtInChain ==
  ASSUME pack \in Packs, StackInv
  PROVE  /\ Len(stack) \in Nat
         /\ \A o \in Sought(Len(stack)) : o \in ToSet(pack.objects) /\ o \in Chain(pack, call)
<1>1. Len(stack) \in Nat
  BY LenProperties DEF StackInv
<1>2. /\ Named(pack, call) \subseteq Chain(pack, call)
      /\ \A o \in Chain(pack, call) : o \in ToSet(pack.objects) /\ BaseOf(pack, o) \subseteq Chain(pack, call)
  BY ChainCloses
<1>3. CASE Len(stack) = 0
  BY <1>1, <1>2, <1>3 DEF Sought
<1>4. CASE Len(stack) # 0
  <2>1. Len(stack) \in 1..Len(stack)
    BY <1>1, <1>4
  <2>2. stack[Len(stack)].o \in Chain(pack, call)
    BY <2>1 DEF StackInv
  <2>3. Sought(Len(stack)) = BaseOf(pack, stack[Len(stack)].o)
    BY <1>4 DEF Sought
  <2>. QED
    BY <1>1, <1>2, <2>2, <2>3
<1>. QED
  BY <1>3, <1>4

\* The objects of a pack start at different places.
LEMMA OneObjectAt ==
  ASSUME InPack, NEW o \in ToSet(pack.objects)
  PROVE  ObjectAt(pack, o.at) = o
<1>1. ASSUME NEW q \in ToSet(pack.objects), q.at = o.at PROVE q = o
  <2>1. PICK i \in 1..Len(pack.objects) : pack.objects[i] = q
    BY PackLayout DEF InPack
  <2>2. PICK j \in 1..Len(pack.objects) : pack.objects[j] = o
    BY PackLayout DEF InPack
  <2>3. Len(pack.objects) \in Nat /\ At(i) \in Nat /\ At(j) \in Nat /\ At(i) = At(j)
    <3>1. Ordered
      BY PackOrdered
    <3>. QED
      BY <1>1, <2>1, <2>2, <3>1 DEF Ordered, At
  <2>4. i < j => At(i) < At(j)
    BY ObjectsAscend DEF InPack, At
  <2>5. j < i => At(j) < At(i)
    BY ObjectsAscend DEF InPack, At
  <2>6. i = j
    BY <2>3, <2>4, <2>5
  <2>. QED
    BY <2>1, <2>2, <2>6
<1>. QED
  BY <1>1 DEF ObjectAt

\* What is unpacked is what was sought, and the range for it is enough.
LEMMA UnpacksSought ==
  ASSUME LoadInv, pc = "unpack", NEW o, o = ObjectAt(pack, offset)
  PROVE  /\ o \in ToSet(pack.objects) /\ o \in Sought(Len(stack)) /\ o \in Chain(pack, call)
         /\ DataReaches(o, o.at + o.head)
<1>1. o \in Sought(Len(stack))
  BY DEF LoadInv, PlaceInv
<1>2. o \in ToSet(pack.objects) /\ o \in Chain(pack, call)
  BY <1>1, SoughtInChain DEF LoadInv, PackInv
<1>3. DataReaches(o, o.at + o.head)
  BY <1>2, RangeReaches DEF LoadInv, PackInv, InPack
<1>. QED
  BY <1>1, <1>2, <1>3

\* Nothing of the stack changes.
LEMMA StackKept ==
  ASSUME StackInv, UNCHANGED <<pack, call, stack>>
  PROVE  StackInv'
         /\ Sought(Len(stack))' = Sought(Len(stack))
  BY DEF StackInv, Sought

\* What a step keeps besides PackInv, which StepPreserves is about.
LoadKept == CallTypes /\ StackInv /\ PlaceInv /\ LoadsOriginal /\ FailsOnlyWithoutBase

LEMMA LoadObjectStep ==
  ASSUME LoadInv, NEW s \in Sha, LoadObject(s)
  PROVE  LoadKept'
<1>1. /\ pc = "idle" /\ pc' = "search" /\ call' = s /\ wanted' = s
      /\ UNCHANGED <<pack, offset, stack, data, answer, pastEnd>>
  BY DEF LoadObject, BeginSearch
<1>2. stack = <<>> /\ ~pastEnd /\ Len(stack) = 0
  BY <1>1, EmptySeq DEF LoadInv, PlaceInv
<1>3. CallTypes'
  BY <1>1, IndexAssumption DEF LoadInv, CallTypes
<1>4. StackInv'
  BY <1>1, <1>2 DEF LoadInv, StackInv
<1>5. PlaceInv'
  <2>1. (Named(pack, wanted) = Sought(Len(stack)))'
    BY <1>1, <1>2 DEF Sought
  <2>2. s # Nil
    BY IndexAssumption
  <2>. QED
    BY <1>1, <2>1, <2>2 DEF PlaceInv
<1>6. LoadsOriginal' /\ FailsOnlyWithoutBase'
  <2>1. answer = "none"
    BY <1>1 DEF LoadInv, CallTypes
  <2>. QED
    BY <1>1, <1>2, <2>1 DEF LoadsOriginal, FailsOnlyWithoutBase
<1>. QED
  BY <1>3, <1>4, <1>5, <1>6 DEF LoadKept

LEMMA NarrowStep ==
  ASSUME LoadInv, NarrowSearch
  PROVE  LoadKept'
<1>1. /\ pc = "search" /\ pc' = "search" /\ wanted' = wanted
      /\ UNCHANGED <<pack, call, offset, stack, data, answer, pastEnd>>
  BY DEF NarrowSearch, Narrow, fileVars
<1>2. StackInv' /\ Sought(Len(stack))' = Sought(Len(stack))
  BY <1>1, StackKept DEF LoadInv
<1>3. CallTypes'
  BY <1>1 DEF LoadInv, CallTypes
<1>4. PlaceInv'
  BY <1>1, <1>2 DEF LoadInv, PlaceInv
<1>5. LoadsOriginal' /\ FailsOnlyWithoutBase'
  BY <1>1 DEF LoadInv, LoadsOriginal, FailsOnlyWithoutBase
<1>. QED
  BY <1>2, <1>3, <1>4, <1>5 DEF LoadKept

\* The place found is that of the object sought.
LEMMA LocatedStep ==
  ASSUME LoadInv, Located
  PROVE  LoadKept'
<1>1. /\ pc = "search" /\ pc' = "unpack" /\ search = "found" /\ offset' = PackOffset(index, place)
      /\ UNCHANGED <<pack, call, stack, data, answer, pastEnd>>
  BY DEF Located
<1>2. StackInv' /\ Sought(Len(stack))' = Sought(Len(stack))
  BY <1>1, StackKept DEF LoadInv
<1>3. CallTypes'
  BY <1>1 DEF LoadInv, CallTypes
<1>4. ObjectAt(pack, offset)' \in Sought(Len(stack))
  <2>1. place \in Places(index) /\ index.shas[place] = wanted /\ InPack
    BY <1>1 DEF LoadInv, PackInv, SearchInv, SearchTypeOK, FoundIfIndexed, InPack
  <2>2. PICK o \in ToSet(pack.objects) : o.sha = index.shas[place] /\ o.at = PackOffset(index, place)
    BY <2>1, PackAssumption DEF InPack
  <2>3. ObjectAt(pack, offset)' = o
    BY <1>1, <2>1, <2>2, OneObjectAt DEF ObjectAt
  <2>4. o \in Named(pack, wanted)
    BY <2>1, <2>2 DEF Named
  <2>. QED
    BY <1>1, <2>3, <2>4 DEF LoadInv, PlaceInv
<1>5. PlaceInv'
  BY <1>1, <1>2, <1>4 DEF PlaceInv
<1>6. LoadsOriginal' /\ FailsOnlyWithoutBase'
  BY <1>1 DEF LoadInv, LoadsOriginal, FailsOnlyWithoutBase
<1>. QED
  BY <1>2, <1>3, <1>5, <1>6 DEF LoadKept

\* What the search misses is not in the pack: neither the object nor, with a
\* delta on the stack, its base.
LEMMA NotLocatedStep ==
  ASSUME LoadInv, NotLocated
  PROVE  LoadKept'
<1>1. /\ pc = "search" /\ pc' = "done" /\ search = "missing"
      /\ answer' = IF stack = <<>> THEN "notfound" ELSE "raised"
      /\ UNCHANGED <<pack, call, offset, stack, data, pastEnd>>
  BY DEF NotLocated, Answer
<1>2. StackInv'
  BY <1>1, StackKept DEF LoadInv
<1>3. CallTypes'
  BY <1>1 DEF LoadInv, CallTypes
<1>4. PlaceInv'
  BY <1>1 DEF PlaceInv
<1>5. Sought(Len(stack)) = {}
  <2>1. /\ \A i \in Places(index) : index.shas[i] # wanted
        /\ pack \in Packs /\ index = pack.index
    BY <1>1 DEF LoadInv, PackInv, SearchInv, FoundIfIndexed
  <2>2. \A o \in ToSet(pack.objects) : o.sha # wanted
    <3>1. \A o \in ToSet(pack.objects) : \E i \in Places(pack.index) : o.sha = pack.index.shas[i]
      BY <2>1, PackAssumption
    <3>. QED
      BY <2>1, <3>1
  <2>3. Named(pack, wanted) = {}
    BY <2>2 DEF Named
  <2>. QED
    BY <1>1, <2>3 DEF LoadInv, PlaceInv
<1>6. LoadsOriginal'
  BY <1>1 DEF LoadsOriginal
<1>7. pastEnd => Last(pack.objects) \in Chain(pack, call)
  BY DEF LoadInv, FailsOnlyWithoutBase
<1>8. FailsOnlyWithoutBase'
  <2>1. CASE stack = <<>>
    <3>1. Len(stack) = 0
      BY <2>1, EmptySeq
    <3>2. call \notin {o.sha : o \in ToSet(pack.objects)}
      BY <1>5, <3>1 DEF Sought, Named
    <3>. QED
      BY <1>1, <1>7, <2>1, <3>2 DEF FailsOnlyWithoutBase
  <2>2. CASE stack # <<>>
    <3>1. Len(stack) \in 1..Len(stack) /\ Len(stack) # 0
      BY <2>2, EmptySeq DEF LoadInv, StackInv
    <3>2. LET o == stack[Len(stack)].o
          IN  o.kind # "whole" /\ o \in Chain(pack, call) /\ BaseOf(pack, o) = {}
      BY <1>5, <3>1 DEF Sought, LoadInv, StackInv
    <3>3. ~Complete(pack, call)
      BY <3>2 DEF Complete
    <3>. QED
      BY <1>1, <1>7, <2>2, <3>3 DEF FailsOnlyWithoutBase
  <2>. QED
    BY <2>1, <2>2
<1>. QED
  BY <1>2, <1>3, <1>4, <1>6, <1>8 DEF LoadKept

\* A read past the end of the reverse index that crashes.
LEMMA CrashStep ==
  ASSUME LoadInv, pc \notin {"idle", "done"}, Crash, NEW o \in Chain(pack, call), o = Last(pack.objects)
  PROVE  LoadKept'
<1>1. /\ pc' = "crashed" /\ pastEnd' = TRUE
      /\ UNCHANGED <<pack, call, offset, stack, data, answer>>
  BY DEF Crash
<1>2. StackInv'
  BY <1>1, StackKept DEF LoadInv
<1>3. answer = "none" /\ answer' = "none"
  BY <1>1 DEF LoadInv, CallTypes
<1>4. CallTypes'
  BY <1>1, <1>3 DEF LoadInv, CallTypes
<1>5. PlaceInv'
  BY <1>1 DEF PlaceInv
<1>6. LoadsOriginal' /\ FailsOnlyWithoutBase'
  BY <1>1, <1>3 DEF LoadsOriginal, FailsOnlyWithoutBase
<1>. QED
  BY <1>2, <1>4, <1>5, <1>6 DEF LoadKept

\* Contents fail to inflate only past the end of the reverse index.
LEMMA UnpackWholeStep ==
  ASSUME LoadInv, UnpackWhole
  PROVE  LoadKept'
<1> DEFINE o == ObjectAt(pack, offset)
           from == o.at + o.head
<1>1. pc = "unpack" /\ o.kind = "whole"
  BY DEF UnpackWhole
<1>2. /\ o \in ToSet(pack.objects) /\ o \in Sought(Len(stack)) /\ o \in Chain(pack, call)
      /\ DataReaches(o, from)
  BY <1>1, UnpacksSought
<1>3. PastEnd(from) => o = Last(pack.objects)
  BY <1>2 DEF DataReaches
<1>4. o.text \in Seq(Nat) /\ o.text = Original[o.sha] /\ o.text # Nil
  <2>1. o.text = Original[o.sha] /\ Original \in [Sha -> Seq(Nat)] /\ o.sha \in Sha
    BY <1>1, <1>2, Contents DEF LoadInv, PackInv
  <2>. QED
    BY <2>1, PackAssumption
<1>5. answer = "none" /\ call # Nil
  BY <1>1 DEF LoadInv, CallTypes
<1>6. pastEnd \in BOOLEAN /\ (pastEnd => Last(pack.objects) \in Chain(pack, call))
  BY DEF LoadInv, CallTypes, FailsOnlyWithoutBase
<1>7. CASE PastEnd(from) /\ Crash
  BY <1>1, <1>2, <1>3, <1>7, CrashStep
<1>8. ASSUME NEW next \in NextOffsets(from),
             pastEnd' = (pastEnd \/ PastEnd(from)), UNCHANGED <<pack, call, offset, stack>>,
             InFile(from, DataEnd(next)), data' = o.text, pc' = "patch", answer' = answer
      PROVE  LoadKept'
  <2> HIDE DEF o, from
  <2>1. StackInv' /\ Sought(Len(stack))' = Sought(Len(stack))
    BY <1>8, StackKept DEF LoadInv
  <2>2. CallTypes'
    BY <1>1, <1>4, <1>5, <1>6, <1>8 DEF LoadInv, CallTypes
  <2>3. PlaceInv'
    <3>1. pc' = "patch" /\ data' \in Seq(Nat)
      BY <1>4, <1>8
    <3>2. o \in Sought(Len(stack))' /\ data' = Original[o.sha]
      BY <1>2, <1>4, <1>8, <2>1
    <3>. QED
      BY <3>1, <3>2 DEF PlaceInv
  <2>4. LoadsOriginal' /\ FailsOnlyWithoutBase'
    BY <1>2, <1>3, <1>5, <1>6, <1>8 DEF LoadsOriginal, FailsOnlyWithoutBase
  <2>. QED
    BY <2>1, <2>2, <2>3, <2>4 DEF LoadKept
<1>9. ASSUME NEW next \in NextOffsets(from),
             pastEnd' = (pastEnd \/ PastEnd(from)), UNCHANGED <<pack, call, offset, stack>>,
             ~(InFile(from, DataEnd(next)) /\ Inflate(o, DataEnd(next)) # Nil),
             answer' = (IF InFile(from, DataEnd(next)) THEN "failed" ELSE "raised"),
             pc' = "done", data' = data
      PROVE  LoadKept'
  <2>1. PastEnd(from)
    <3> HIDE DEF o, from
    <3>. QED
      BY <1>2, <1>4, <1>9 DEF DataReaches
  <2>2. pastEnd' = TRUE /\ Last(pack.objects) \in Chain(pack, call)
    BY <1>2, <1>3, <1>9, <2>1
  <2> HIDE DEF o, from
  <2>3. StackInv'
    BY <1>9, StackKept DEF LoadInv
  <2>4. CallTypes'
    BY <1>1, <1>5, <1>9, <2>2 DEF LoadInv, CallTypes
  <2>5. PlaceInv'
    BY <1>9 DEF PlaceInv
  <2>6. LoadsOriginal' /\ FailsOnlyWithoutBase'
    BY <1>9, <2>2 DEF LoadsOriginal, FailsOnlyWithoutBase
  <2>. QED
    BY <2>3, <2>4, <2>5, <2>6 DEF LoadKept
<1>10. \/ PastEnd(from) /\ Crash
       \/ \E next \in NextOffsets(from) :
            /\ pastEnd' = (pastEnd \/ PastEnd(from))
            /\ \/ /\ InFile(from, DataEnd(next)) /\ Inflate(o, DataEnd(next)) # Nil
                  /\ data' = o.text /\ pc' = "patch" /\ answer' = answer
               \/ /\ ~(InFile(from, DataEnd(next)) /\ Inflate(o, DataEnd(next)) # Nil)
                  /\ answer' = IF InFile(from, DataEnd(next)) THEN "failed" ELSE "raised"
                  /\ pc' = "done" /\ data' = data
            /\ UNCHANGED <<pack, call, offset, stack>>
  BY DEF UnpackWhole
<1> HIDE DEF o, from
<1>. QED
  BY <1>7, <1>8, <1>9, <1>10

\* A delta joins the stack, and its base is sought.
LEMMA UnpackDeltaStep ==
  ASSUME LoadInv, UnpackDelta
  PROVE  LoadKept'
<1> DEFINE o == ObjectAt(pack, offset)
           from == o.at + o.head
           frame == [o |-> o, from |-> from + o.ref]
<1>1. pc = "unpack" /\ o.kind # "whole"
  BY DEF UnpackDelta
<1>2. /\ o \in ToSet(pack.objects) /\ o \in Sought(Len(stack)) /\ o \in Chain(pack, call)
      /\ DataReaches(o, from)
  BY <1>1, UnpacksSought
<1>3. PastEnd(from) => o = Last(pack.objects)
  BY <1>2 DEF DataReaches
<1>4. InPack /\ pack \in Packs
  BY DEF LoadInv, PackInv, InPack
<1>5. answer = "none" /\ call # Nil
  BY <1>1 DEF LoadInv, CallTypes
<1>6. pastEnd \in BOOLEAN /\ (pastEnd => Last(pack.objects) \in Chain(pack, call))
  BY DEF LoadInv, CallTypes, FailsOnlyWithoutBase
<1>7. CASE PastEnd(from) /\ Crash
  BY <1>1, <1>2, <1>3, <1>7, CrashStep
<1>8. /\ o.at \in Nat /\ o.head \in Nat /\ o.ref \in Nat /\ frame.o = o
      /\ frame.from = o.at + o.head + o.ref
      /\ o.kind = "ofs" => o.at - o.base \in Starts(pack)
      /\ o.kind = "ref" => o.base \in Sha
      /\ o.kind \in {"ofs", "ref"}
  <2>1. PICK k \in 1..Len(pack.objects) : pack.objects[k] = o
    BY <1>2, <1>4, PackLayout
  <2>2. /\ o.at \in Nat /\ o.head \in Nat /\ o.ref \in Nat /\ o.kind \in {"whole", "ofs", "ref"}
    BY <1>4, <2>1, PackLayout
  <2>3. /\ o.kind = "ofs" => o.at - o.base \in Starts(pack)
        /\ o.kind = "ref" => o.base \in Sha
    BY <1>4, <2>1, PackAssumption
  <2>. QED
    BY <1>1, <2>2, <2>3
<1>9. ASSUME stack' = Append(stack, frame), pastEnd' = (pastEnd \/ PastEnd(from)),
             UNCHANGED <<pack, call, data, answer>>,
             \/ /\ o.kind = "ofs" /\ offset' = BaseOffset(o) /\ pc' = pc
             \/ /\ o.kind = "ref" /\ wanted' = o.base /\ pc' = "search"
      PROVE  LoadKept'
  <2> HIDE DEF o, from
  <2>0. PICK n \in Nat : n = Len(stack)
    BY SoughtInChain DEF LoadInv, PackInv
  <2>1. n \in Nat /\ frame \in [o : ToSet(pack.objects), from : Nat]
    BY <1>2, <1>8, <2>0
  <2>2. stack \in Seq([o : ToSet(pack.objects), from : Nat])
    BY DEF LoadInv, StackInv
  <2> HIDE DEF frame
  <2>3. /\ stack' \in Seq([o : ToSet(pack.objects), from : Nat]) /\ Len(stack') = n + 1
        /\ \A i \in 1..n : stack'[i] = stack[i]
        /\ stack'[n + 1] = frame
    BY <1>9, <2>0, <2>1, <2>2, AppendProperties
  <2>4. \A i \in 0..n : Sought(i)' = Sought(i)
    BY <1>9, <2>1, <2>3 DEF Sought
  <2>5. Sought(n + 1)' = BaseOf(pack, o)
    BY <1>8, <1>9, <2>1, <2>3 DEF Sought
  <2>6. ASSUME NEW i \in 1..(n + 1)
        PROVE  /\ stack'[i].o.kind # "whole"
               /\ stack'[i].from = stack'[i].o.at + stack'[i].o.head + stack'[i].o.ref
               /\ stack'[i].o \in Sought(i - 1)' /\ stack'[i].o \in Chain(pack, call)
    <3>1. CASE i = n + 1
      <4>1. i - 1 = n /\ n \in 0..n /\ stack'[i] = frame
        BY <2>1, <2>3, <3>1
      <4>. QED
        BY <1>1, <1>2, <1>8, <2>0, <2>4, <4>1
    <3>2. CASE i # n + 1
      <4>1. i \in 1..n /\ i - 1 \in 0..n
        BY <2>1, <3>2
      <4>. QED
        BY <2>0, <2>3, <2>4, <4>1 DEF LoadInv, StackInv
    <3>. QED
      BY <3>1, <3>2
  <2>7. StackInv'
    BY <1>9, <2>3, <2>6 DEF StackInv
  <2>8. CallTypes'
    BY <1>1, <1>5, <1>6, <1>9 DEF LoadInv, CallTypes
  <2>9. PlaceInv'
    <3>1. CASE o.kind = "ofs"
      <4>1. pc' = "unpack" /\ offset' = o.at - o.base
        BY <1>1, <1>9, <3>1 DEF BaseOffset
      <4>2. PICK b \in ToSet(pack.objects) : b.at = o.at - o.base
        BY <1>8, <3>1 DEF Starts
      <4>3. ObjectAt(pack, offset)' = b
        BY <1>4, <1>9, <4>1, <4>2, OneObjectAt DEF ObjectAt
      <4>4. b \in BaseOf(pack, o)
        BY <3>1, <4>2 DEF BaseOf
      <4>. QED
        BY <2>3, <2>5, <4>1, <4>3, <4>4 DEF PlaceInv
    <3>2. CASE o.kind = "ref"
      <4>1. pc' = "search" /\ wanted' = o.base /\ o.base # Nil
        BY <1>8, <1>9, <3>2, IndexAssumption
      <4>2. BaseOf(pack, o) = Named(pack, o.base)
        BY <3>2 DEF BaseOf, Named
      <4>. QED
        BY <1>9, <2>3, <2>5, <4>1, <4>2 DEF PlaceInv
    <3>. QED
      BY <1>8, <3>1, <3>2
  <2>10. LoadsOriginal' /\ FailsOnlyWithoutBase'
    BY <1>2, <1>3, <1>5, <1>6, <1>9 DEF LoadsOriginal, FailsOnlyWithoutBase
  <2>. QED
    BY <2>7, <2>8, <2>9, <2>10 DEF LoadKept
<1>10. \/ PastEnd(from) /\ Crash
       \/ /\ stack' = Append(stack, frame) /\ pastEnd' = (pastEnd \/ PastEnd(from))
          /\ UNCHANGED <<pack, call, data, answer>>
          /\ \/ /\ o.kind = "ofs" /\ offset' = BaseOffset(o) /\ pc' = pc
             \/ /\ o.kind = "ref" /\ wanted' = o.base /\ pc' = "search"
  BY DEF UnpackDelta, BeginSearch
<1> HIDE DEF o, from, frame
<1>. QED
  BY <1>7, <1>9, <1>10

\* A delta is applied to the contents of its base, and makes its own.
LEMMA ApplyDeltaStep ==
  ASSUME LoadInv, ApplyDelta
  PROVE  LoadKept'
<1> DEFINE top == Last(stack)
           o == top.o
           from == top.from
           Raises(to) == \/ ~InFile(from, to) \/ to = from
                         \/ Inflate(o, to) # Nil /\ PatchRaises(data, Inflate(o, to))
<1>1. pc = "patch" /\ stack # <<>>
  BY DEF ApplyDelta
<1>2. PICK n \in Nat : n = Len(stack)
  BY SoughtInChain DEF LoadInv, PackInv
<1>3. stack \in Seq([o : ToSet(pack.objects), from : Nat]) /\ n \in 1..Len(stack) /\ n # 0 /\ top = stack[n]
  BY <1>1, <1>2, EmptySeq DEF LoadInv, StackInv, Last
<1>4. /\ o.kind # "whole" /\ from = o.at + o.head + o.ref
      /\ o \in Sought(n - 1) /\ o \in Chain(pack, call) /\ Sought(n) = BaseOf(pack, o)
  BY <1>3 DEF LoadInv, StackInv, Sought
<1>5. InPack /\ pack \in Packs
  BY DEF LoadInv, PackInv, InPack
<1>6. o \in ToSet(pack.objects) /\ DataReaches(o, from)
  <2>1. o \in ToSet(pack.objects)
    BY <1>4, <1>5, ChainCloses
  <2>. QED
    BY <1>4, <1>5, <2>1, RangeReaches
<1>7. PastEnd(from) => o = Last(pack.objects)
  BY <1>6 DEF DataReaches
<1>8. answer = "none" /\ call # Nil /\ data \in Seq(Nat)
  BY <1>1 DEF LoadInv, CallTypes, PlaceInv
<1>9. pastEnd \in BOOLEAN /\ (pastEnd => Last(pack.objects) \in Chain(pack, call))
  BY DEF LoadInv, CallTypes, FailsOnlyWithoutBase
<1>10. o.text # Nil /\ o.sha \in Sha /\ Original \in [Sha -> Seq(Nat)]
  BY <1>4, <1>5, <1>6, Contents
<1>11. ASSUME ~pastEnd
       PROVE  ~PatchRaises(data, o.text) /\ Patched(data, o.text) = Original[o.sha]
  <2>1. PICK b \in BaseOf(pack, o) : data = Original[b.sha]
    BY <1>1, <1>2, <1>4, <1>11 DEF LoadInv, PlaceInv
  <2>2. b.sha \in Sha
    <3>1. b \in ToSet(pack.objects)
      BY <2>1 DEF BaseOf
    <3>. QED
      BY <1>5, <3>1, Contents
  <2>. QED
    BY <1>4, <1>5, <1>6, <2>1, <2>2, PatchRestores
<1>12. CASE PastEnd(from) /\ Crash
  BY <1>1, <1>4, <1>7, <1>12, CrashStep
<1>13. \/ PastEnd(from) /\ Crash
       \/ \E next \in NextOffsets(from) :
            /\ pastEnd' = (pastEnd \/ PastEnd(from))
            /\ \/ /\ Raises(DataEnd(next))
                  /\ answer' = "raised" /\ pc' = "done"
                  /\ UNCHANGED <<data, stack>>
               \/ /\ ~Raises(DataEnd(next))
                  /\ data' = IF Inflate(o, DataEnd(next)) = Nil THEN <<>>
                             ELSE Patched(data, Inflate(o, DataEnd(next)))
                  /\ stack' = Front(stack)
                  /\ UNCHANGED <<answer, pc>>
            /\ UNCHANGED <<index, searchVars, pack, call, offset>>
  BY DEF ApplyDelta
<1> HIDE DEF top, o, from
<1>14. ASSUME NEW next \in NextOffsets(from), pastEnd' = (pastEnd \/ PastEnd(from)),
              Raises(DataEnd(next)), answer' = "raised", pc' = "done",
              UNCHANGED <<data, stack, pack, call>>
       PROVE  LoadKept'
  <2>1. pastEnd' = TRUE
    <3>. SUFFICES ASSUME ~pastEnd, ~PastEnd(from) PROVE FALSE
      BY <1>9, <1>14
    <3>1. /\ InFile(from, DataEnd(next)) /\ DataEnd(next) # from
          /\ Inflate(o, DataEnd(next)) = o.text
      BY <1>6, <1>14 DEF DataReaches
    <3>. QED
      BY <1>11, <1>14, <3>1
  <2>2. Last(pack.objects) \in Chain(pack, call)
    BY <1>4, <1>7, <1>9, <1>14, <2>1
  <2>3. StackInv'
    BY <1>14, StackKept DEF LoadInv
  <2>4. CallTypes'
    BY <1>8, <1>14, <2>1 DEF LoadInv, CallTypes
  <2>5. PlaceInv'
    BY <1>14 DEF PlaceInv
  <2>6. LoadsOriginal' /\ FailsOnlyWithoutBase'
    BY <1>14, <2>1, <2>2 DEF LoadsOriginal, FailsOnlyWithoutBase
  <2>. QED
    BY <2>3, <2>4, <2>5, <2>6 DEF LoadKept
<1>15. ASSUME NEW next \in NextOffsets(from), pastEnd' = (pastEnd \/ PastEnd(from)),
              ~Raises(DataEnd(next)), stack' = Front(stack),
              data' = IF Inflate(o, DataEnd(next)) = Nil THEN <<>>
                      ELSE Patched(data, Inflate(o, DataEnd(next))),
              UNCHANGED <<answer, pc, pack, call>>
       PROVE  LoadKept'
  <2>1. Inflate(o, DataEnd(next)) = Nil \/ Inflate(o, DataEnd(next)) = o.text
    BY DEF Inflate
  <2>2. data' \in Seq(Nat)
    <3>1. CASE Inflate(o, DataEnd(next)) = Nil
      BY <1>15, <3>1, EmptySeq
    <3>2. CASE Inflate(o, DataEnd(next)) = o.text
      <4>1. ~PatchRaises(data, o.text)
        BY <1>10, <1>15, <3>2
      <4>2. Patched(data, o.text) \in Seq(Nat)
        BY <1>4, <1>5, <1>6, <1>8, <4>1, PatchedType
      <4>. QED
        BY <1>10, <1>15, <3>2, <4>2
    <3>. QED
      BY <2>1, <3>1, <3>2
  <2>3. /\ stack' \in Seq([o : ToSet(pack.objects), from : Nat]) /\ Len(stack') = n - 1
        /\ \A i \in 1..(n - 1) : stack'[i] = stack[i]
    <3>1. n - 1 \in 0..Len(stack) /\ 1 \in 1..((n - 1) + 1) /\ (n - 1) - 1 + 1 = n - 1
          /\ \A i \in 1..(n - 1) : 1 - 1 + i = i
      BY <1>2, <1>3
    <3>2. stack' = SubSeq(stack, 1, n - 1)
      BY <1>2, <1>15 DEF Front
    <3>3. /\ SubSeq(stack, 1, n - 1) \in Seq([o : ToSet(pack.objects), from : Nat])
          /\ Len(SubSeq(stack, 1, n - 1)) = (n - 1) - 1 + 1
          /\ \A i \in 1..((n - 1) - 1 + 1) : SubSeq(stack, 1, n - 1)[i] = stack[1 - 1 + i]
      <4> DEFINE F == [o : ToSet(pack.objects), from : Nat]
      <4>1. stack \in Seq(F)
        BY <1>3
      <4> HIDE DEF F
      <4>2. /\ SubSeq(stack, 1, n - 1) \in Seq(F) /\ Len(SubSeq(stack, 1, n - 1)) = (n - 1) - 1 + 1
            /\ \A i \in 1..((n - 1) - 1 + 1) : SubSeq(stack, 1, n - 1)[i] = stack[1 - 1 + i]
        BY <3>1, <4>1, Stretch
      <4>. QED
        BY <4>2 DEF F
    <3>. QED
      BY <3>1, <3>2, <3>3
  <2>4. \A i \in 0..(n - 1) : Sought(i)' = Sought(i)
    BY <1>2, <1>15, <2>3 DEF Sought
  <2>5. n - 1 \in 0..(n - 1) /\ \A i \in 1..(n - 1) : i \in 1..Len(stack) /\ i - 1 \in 0..(n - 1)
    BY <1>2, <1>3
  <2>6. StackInv'
    <3>1. ASSUME NEW i \in 1..(n - 1)
          PROVE  /\ stack'[i].o.kind # "whole"
                 /\ stack'[i].from = stack'[i].o.at + stack'[i].o.head + stack'[i].o.ref
                 /\ stack'[i].o \in Sought(i - 1)' /\ stack'[i].o \in Chain(pack, call)
      BY <2>3, <2>4, <2>5 DEF LoadInv, StackInv
    <3>. QED
      BY <1>15, <2>3, <3>1 DEF StackInv
  <2>7. Sought(Len(stack))' = Sought(n - 1)
    BY <2>3, <2>4, <2>5
  <2>8. pastEnd' => Last(pack.objects) \in Chain(pack, call)
    BY <1>4, <1>7, <1>9, <1>15
  <2>9. CallTypes'
    BY <1>1, <1>8, <1>9, <1>15, <2>2 DEF LoadInv, CallTypes
  <2>10. ~pastEnd' => data' = Original[o.sha]
    <3>. SUFFICES ASSUME ~pastEnd, ~PastEnd(from) PROVE data' = Original[o.sha]
      BY <1>9, <1>15
    <3>1. Inflate(o, DataEnd(next)) = o.text
      BY <1>6, <1>15 DEF DataReaches
    <3>. QED
      BY <1>10, <1>11, <1>15, <3>1
  <2>11. PlaceInv'
    <3>1. pc' = "patch"
      BY <1>1, <1>15
    <3>2. ~pastEnd' => o \in Sought(Len(stack))' /\ data' = Original[o.sha]
      BY <1>4, <2>7, <2>10
    <3>. QED
      BY <2>2, <3>1, <3>2 DEF PlaceInv
  <2>12. LoadsOriginal' /\ FailsOnlyWithoutBase'
    BY <1>8, <1>15, <2>8 DEF LoadsOriginal, FailsOnlyWithoutBase
  <2>. QED
    BY <2>6, <2>9, <2>11, <2>12 DEF LoadKept
<1>. QED
  BY <1>12, <1>13, <1>14, <1>15

\* With no delta left, the contents are those of the object called for.
LEMMA LoadedStep ==
  ASSUME LoadInv, Loaded
  PROVE  LoadKept'
<1>1. /\ pc = "patch" /\ stack = <<>> /\ answer' = "loaded" /\ pc' = "done"
      /\ UNCHANGED <<pack, call, offset, stack, data, pastEnd>>
  BY DEF Loaded, Answer
<1>2. Len(stack) = 0
  BY <1>1, EmptySeq
<1>3. StackInv'
  BY <1>1, StackKept DEF LoadInv
<1>4. CallTypes'
  BY <1>1 DEF LoadInv, CallTypes
<1>5. PlaceInv'
  BY <1>1 DEF PlaceInv
<1>6. ASSUME ~pastEnd PROVE data = Original[call]
  <2>1. PICK b \in Sought(0) : data = Original[b.sha]
    BY <1>1, <1>2, <1>6 DEF LoadInv, PlaceInv
  <2>2. b.sha = call
    BY <2>1 DEF Sought, Named
  <2>. QED
    BY <2>1, <2>2
<1>7. LoadsOriginal'
  BY <1>1, <1>6 DEF LoadsOriginal
<1>8. FailsOnlyWithoutBase'
  BY <1>1 DEF LoadInv, FailsOnlyWithoutBase
<1>. QED
  BY <1>3, <1>4, <1>5, <1>7, <1>8 DEF LoadKept

LEMMA ReturnStep ==
  ASSUME LoadInv, Return
  PROVE  LoadKept'
<1>1. /\ pc' = "idle" /\ call' = Nil /\ stack' = <<>> /\ data' = Nil /\ answer' = "none"
      /\ pastEnd' = FALSE /\ pack' = pack
  BY DEF Return
<1>2. <<>> \in Seq([o : ToSet(pack.objects), from : Nat]) /\ Len(<<>>) = 0
  BY EmptySeq
<1>3. StackInv'
  BY <1>1, <1>2 DEF StackInv
<1>. QED
  BY <1>1, <1>3 DEF LoadKept, CallTypes, PlaceInv, LoadsOriginal, FailsOnlyWithoutBase

LEMMA LoadStep == LoadInv /\ [Next]_vars => LoadInv'
<1>. SUFFICES ASSUME LoadInv, [Next]_vars PROVE LoadInv'
  OBVIOUS
<1>1. PackInv'
  BY StepPreserves DEF LoadInv
<1>2. ASSUME UNCHANGED vars PROVE LoadKept'
  <2>1. /\ UNCHANGED <<pack, wanted, pc, call, offset, stack, data, answer, pastEnd>>
    BY <1>2 DEF vars, searchVars
  <2>2. StackInv' /\ Sought(Len(stack))' = Sought(Len(stack))
    BY <2>1, StackKept DEF LoadInv
  <2>3. CallTypes'
    BY <2>1 DEF LoadInv, CallTypes
  <2>4. PlaceInv'
    BY <2>1, <2>2 DEF LoadInv, PlaceInv
  <2>5. LoadsOriginal' /\ FailsOnlyWithoutBase'
    BY <2>1 DEF LoadInv, LoadsOriginal, FailsOnlyWithoutBase
  <2>. QED
    BY <2>2, <2>3, <2>4, <2>5 DEF LoadKept
<1>3. LoadKept'
  BY <1>2, LoadObjectStep, NarrowStep, LocatedStep, NotLocatedStep, UnpackWholeStep,
     UnpackDeltaStep, ApplyDeltaStep, LoadedStep, ReturnStep DEF Next, Run
<1>. QED
  BY <1>1, <1>3 DEF LoadInv, LoadKept

LEMMA LoadInit == Init => LoadInv
<1>. SUFFICES ASSUME Init PROVE LoadInv
  OBVIOUS
<1>1. /\ pc = "idle" /\ call = Nil /\ stack = <<>> /\ data = Nil /\ answer = "none"
      /\ pastEnd = FALSE /\ PackInv
  BY InitEstablishes DEF Init
<1>2. <<>> \in Seq([o : ToSet(pack.objects), from : Nat]) /\ Len(<<>>) = 0
  BY EmptySeq
<1>3. StackInv
  BY <1>1, <1>2 DEF StackInv
<1>. QED
  BY <1>1, <1>3 DEF LoadInv, CallTypes, PlaceInv, LoadsOriginal, FailsOnlyWithoutBase

LEMMA LoadInvariant == Spec => []LoadInv
  BY LoadInit, LoadStep, PTL DEF Spec

\* The variables keep their types: a delta on the stack is an object of the
\* pack, and what is unpacked starts where one does.
THEOREM TypeCorrect == Spec => []TypeOK
<1>1. LoadInv => TypeOK
  <2>. SUFFICES ASSUME LoadInv PROVE TypeOK
    OBVIOUS
  <2>1. SearchTypeOK /\ index = pack.index /\ UnpacksObjects
    BY DEF LoadInv, PackInv, SearchInv
  <2>2. CallTypes
    BY DEF LoadInv
  <2>3. \A i \in 1..Len(stack) : stack[i].o \in ToSet(pack.objects) /\ stack[i].o.kind # "whole"
    <3>1. \A o \in Chain(pack, call) : o \in ToSet(pack.objects)
      BY ChainCloses DEF LoadInv, PackInv
    <3>. QED
      BY <3>1 DEF LoadInv, StackInv
  <2>4. data = Nil \/ \A i \in 1..Len(data) : data[i] \in Nat
    <3>1. CASE data \in Seq(Nat)
      BY <3>1, LenProperties
    <3>. QED
      BY <2>2, <3>1 DEF CallTypes
  <2>. QED
    BY <2>1, <2>2, <2>3, <2>4 DEF TypeOK, CallTypes
<1>. QED
  BY <1>1, LoadInvariant, PTL

\* GITPackFileVersion2: an object that loads has its own contents, through any
\* chain of deltas of both kinds: the range taken for its data ends too late,
\* never too early, and inflating stops at the end of the stream.
THEOREM LoadsContents == Spec => []LoadsOriginal
<1>1. LoadInv => LoadsOriginal
  BY DEF LoadInv
<1>. QED
  BY <1>1, LoadInvariant, PTL

\* A load fails only for want of a base, or where the reverse index is read
\* past its end: for the last object, or a delta that rests on it.
THEOREM FailsForCause == Spec => []FailsOnlyWithoutBase
<1>1. LoadInv => FailsOnlyWithoutBase
  BY DEF LoadInv
<1>. QED
  BY <1>1, LoadInvariant, PTL
=============================================================================
