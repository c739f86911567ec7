----------------------------- MODULE PackFile ------------------------------
(***************************************************************************)
(* Loading an object from a pack file (GITPackFileVersion2): its offset is *)
(* looked up in the index, its data reach up to the offset the reverse     *)
(* index answers, and a delta is applied to its base, which is unpacked    *)
(* first and may be a delta itself.  Each call of unpackObjectAtOffset: is *)
(* a frame on the stack.  Bytes are abstract: a header, the reference to a *)
(* base and a compressed stream have lengths, contents are sequences.      *)
(***************************************************************************)
EXTENDS PackIndex, Sequences, FiniteSets, SequencesExt

CONSTANTS
  Packs,     \* pack files with their index files
  Original,  \* the contents of the objects
  FullCopy,  \* the length a copy instruction writes as 0: 0x10000
  Garbage    \* what the memory past the end of the reverse index may hold

\* Where the objects of a pack start.
Starts(p) == {o.at : o \in ToSet(p.objects)}
ObjectAt(p, offset) == CHOOSE o \in ToSet(p.objects) : o.at = offset

\* The objects of a pack lie one after the other from byte 12, the checksum
\* is behind the last; the index lists them and nothing else.
ASSUME PackAssumption ==
  /\ Nil \notin Seq(Nat) /\ Garbage \subseteq Nat
  /\ \A p \in Packs :
       /\ p.objects \in Seq(ToSet(p.objects)) /\ p.objects # <<>>
       /\ p.index \in Indexes /\ p.index.count = Len(p.objects)
       /\ p.objects[1].at = 12 /\ p.checksum \in Nat
       /\ \A k \in 1..Len(p.objects) :
            LET o == p.objects[k] IN
            /\ {o.at, o.to, o.ref} \subseteq Nat /\ o.head \in Nat \ {0}
            /\ o.kind \in {"whole", "ofs", "ref"} /\ o.sha \in Sha
            /\ o.to > o.at + o.head + o.ref
            /\ o.to = IF k = Len(p.objects) THEN p.checksum ELSE p.objects[k + 1].at
            /\ o.kind = "ofs" => o.at - o.base \in Starts(p) /\ o.base > 0
            /\ o.kind = "ref" => o.base \in Sha
       /\ \A i \in Places(p.index) : \E o \in ToSet(p.objects) :
            o.sha = p.index.shas[i] /\ o.at = PackOffset(p.index, i)
       /\ \A o \in ToSet(p.objects) : \E i \in Places(p.index) :
            o.sha = p.index.shas[i] /\ o.at = PackOffset(p.index, i)

VARIABLES
  pack,
  pc, call,    \* the sha1 being loaded
  offset,      \* of the object to unpack
  stack,       \* deltas waiting for their base: where their stream starts
  data,        \* the contents of the innermost object unpacked
  answer,
  pastEnd      \* observation: the reverse index was read past its end

fileVars == <<pack, call, offset, stack, data, answer, pastEnd>>
vars == <<pack, index, searchVars, pc, call, offset, stack, data, answer, pastEnd>>

\* What is unpacked starts where an object of the pack does.
UnpacksObjects == pc = "unpack" => offset \in Starts(pack)

TypeOK ==
  /\ SearchTypeOK
  /\ index = pack.index
  /\ pc \in {"idle", "search", "unpack", "patch", "done", "crashed"}
  /\ call \in Sha \cup {Nil} /\ (call = Nil) = (pc = "idle")
  /\ UnpacksObjects
  /\ \A i \in 1..Len(stack) : stack[i].o \in ToSet(pack.objects) /\ stack[i].o.kind # "whole"
  /\ data = Nil \/ \A i \in 1..Len(data) : data[i] \in Nat
  /\ answer \in {"none", "loaded", "notfound", "failed", "raised"}
  /\ (answer # "none") = (pc = "done")
  /\ pastEnd \in BOOLEAN

Init ==
  /\ pack \in Packs /\ index = pack.index
  /\ wanted = Nil /\ search = "none" /\ lo = 0 /\ hi = 0 /\ place = 0
  /\ pc = "idle" /\ call = Nil /\ offset = 0 /\ stack = <<>> /\ data = Nil
  /\ answer = "none" /\ pastEnd = FALSE
-----------------------------------------------------------------------------
(***************************************************************************)
(* The reverse index: an array of the offsets of all objects in order, so  *)
(* that an offset is at the place, counted from 0, of how many are less.   *)
(***************************************************************************)
Offsets == {PackOffset(index, i) : i \in Places(index)}

\* CFArrayBSearchValues: the place of a value in the array, or else that of
\* the first greater value, or the length of the array.
BSearch(value) == Cardinality({o \in Offsets : o < value})

OffsetAtPlace(i) == CHOOSE o \in Offsets : BSearch(o) = i

\* nextOffsetWithOffset: the object after the place found.  An offset behind
\* the start of the last object makes it read beyond the array: whatever is
\* there is taken for a pointer.
PastEnd(off) == BSearch(off) + 1 > index.count

NextOffsets(off) ==
  IF PastEnd(off) THEN Garbage
  ELSE IF BSearch(off) + 1 = index.count THEN {-1}
  ELSE {OffsetAtPlace(BSearch(off) + 1)}

\* sizeOfPackedDataFromOffset: up to the checksum behind the last object.
DataEndAlways(next) == next   \* seeded fault: the last object is not singled out
DataEnd(next) == IF next = -1 THEN pack.checksum ELSE next

\* subdataWithRange: raises for a range that is not within the file.
InFile(from, to) == to >= from /\ to <= pack.checksum + 20

\* zlibInflate stops at the end of the stream, and gives nil without one.
Inflate(o, to) == IF to >= o.to THEN o.text ELSE Nil
-----------------------------------------------------------------------------
(***************************************************************************)
(* dataByPatchingWithDelta: copies of parts of the base and new bytes.     *)
(***************************************************************************)
PlainSize(i) == i.size   \* seeded fault: 0 is 0
CopySize(i) == IF i.size = 0 THEN FullCopy ELSE i.size

IsCopy(i) == "size" \in DOMAIN i

PatchRaises(base, delta) ==
  \E k \in 1..Len(delta) :
    IsCopy(delta[k]) /\ delta[k].off + CopySize(delta[k]) > Len(base)

Patched(base, delta) ==
  FlattenSeq([k \in 1..Len(delta) |->
    IF IsCopy(delta[k])
    THEN SubSeq(base, delta[k].off + 1, delta[k].off + CopySize(delta[k]))
    ELSE delta[k].insert])

\* The object a delta rests on, if the pack holds it.
BaseOf(p, o) ==
  IF o.kind = "ofs" THEN {b \in ToSet(p.objects) : b.at = o.at - o.base}
  ELSE IF o.kind = "ref" THEN {b \in ToSet(p.objects) : b.sha = o.base}
  ELSE {}

\* The delta git writes to make target of base: copies of parts of the base, of
\* the length n, and insertions; the length FullCopy is written as 0.
Writes(base, delta, target) ==
  \E n \in [1..Len(delta) -> 0..Len(base)] :
    /\ \A k \in 1..Len(delta) :
         IsCopy(delta[k]) => /\ n[k] > 0 /\ delta[k].off + n[k] <= Len(base)
                             /\ delta[k].size = IF n[k] = FullCopy THEN 0 ELSE n[k]
    /\ target = FlattenSeq([k \in 1..Len(delta) |->
                   IF IsCopy(delta[k])
                   THEN SubSeq(base, delta[k].off + 1, delta[k].off + n[k])
                   ELSE delta[k].insert])

\* What packs hold, for every base that a delta may meet.
ASSUME ContentsAssumption ==
  /\ Original \in [Sha -> Seq(Nat)] /\ FullCopy \in Nat
  /\ \A p \in Packs : \A o \in ToSet(p.objects) :
       /\ o.kind = "whole" => o.text = Original[o.sha]
       /\ o.kind # "whole" =>
            /\ o.text # Nil /\ Len(o.text) \in Nat
            /\ \A k \in 1..Len(o.text) :
                 LET i == o.text[k] IN
                 IF IsCopy(i) THEN {i.off, i.size} \subseteq Nat ELSE i.insert \in Seq(Nat)
            /\ \A b \in BaseOf(p, o) : Writes(Original[b.sha], o.text, Original[o.sha])
-----------------------------------------------------------------------------
Answer(a) ==
  /\ answer' = a /\ pc' = "done"
  /\ UNCHANGED <<index, searchVars, pack, call, offset, stack, data, pastEnd>>

\* A bad pointer ends the process; so does, to its caller, a loop over an
\* uninitialized byte that never ends.
Crash ==
  /\ pc' = "crashed" /\ pastEnd' = TRUE
  /\ UNCHANGED <<index, searchVars, pack, call, offset, stack, data, answer>>

LoadObject(s) ==
  /\ pc = "idle"
  /\ BeginSearch(s)
  /\ call' = s /\ pc' = "search"
  /\ UNCHANGED <<pack, offset, stack, data, answer, pastEnd>>

NarrowSearch ==
  /\ pc = "search" /\ Narrow
  /\ UNCHANGED <<pc, fileVars>>

\* The offset of the object, or of the base of a delta.
Located ==
  /\ pc = "search" /\ search = "found"
  /\ offset' = PackOffset(index, place) /\ pc' = "unpack"
  /\ UNCHANGED <<index, searchVars, pack, call, stack, data, answer, pastEnd>>

\* A base that is missing is unpacked at offset NSNotFound, which raises.
NotLocated ==
  /\ pc = "search" /\ search = "missing"
  /\ Answer(IF stack = <<>> THEN "notfound" ELSE "raised")

\* Contents other than deltas.  A stream that is cut short gives nil, or
\* empty contents, which do not have the size in the header; the deltas
\* that wait for this base give up.
UnpackWhole ==
  LET o == ObjectAt(pack, offset)
      from == o.at + o.head
  IN
  /\ pc = "unpack" /\ o.kind = "whole"
  /\ \/ /\ PastEnd(from) /\ Crash
     \/ \E next \in NextOffsets(from) :
          LET to == DataEnd(next) IN
          /\ pastEnd' = (pastEnd \/ PastEnd(from))
          /\ \/ /\ InFile(from, to) /\ Inflate(o, to) # Nil
                /\ data' = o.text /\ pc' = "patch" /\ answer' = answer
             \/ /\ ~(InFile(from, to) /\ Inflate(o, to) # Nil)
                /\ answer' = IF InFile(from, to) THEN "failed" ELSE "raised"
                /\ pc' = "done" /\ data' = data
          /\ UNCHANGED <<index, searchVars, pack, call, offset, stack>>

BaseOffsetFromData(o) == o.at + o.head - o.base   \* seeded fault: counts from the data
BaseOffset(o) == o.at - o.base

\* The size of a delta's data is asked for before its base is unpacked, and
\* again, and used, afterwards.
UnpackDelta ==
  LET o == ObjectAt(pack, offset)
      from == o.at + o.head
  IN
  /\ pc = "unpack" /\ o.kind # "whole"
  /\ \/ /\ PastEnd(from) /\ Crash
     \/ /\ stack' = Append(stack, [o |-> o, from |-> from + o.ref])
        /\ pastEnd' = (pastEnd \/ PastEnd(from))
        /\ \/ /\ o.kind = "ofs"
              /\ offset' = BaseOffset(o) /\ pc' = pc
              /\ UNCHANGED <<index, searchVars>>
           \/ /\ o.kind = "ref"
              /\ BeginSearch(o.base) /\ pc' = "search" /\ offset' = offset
        /\ UNCHANGED <<pack, call, data, answer>>

\* The innermost base is complete: its delta is applied.  A delta that does
\* not decompress is nil, and patching with nil gives empty contents, if the
\* loop over its uninitialized header byte ends.
ApplyDelta ==
  LET top == Last(stack) IN
  /\ pc = "patch" /\ stack # <<>>
  /\ \/ /\ PastEnd(top.from) /\ Crash
     \/ \E next \in NextOffsets(top.from) :
          LET to == DataEnd(next)
              delta == Inflate(top.o, to)
              raises == \/ ~InFile(top.from, to) \/ to = top.from
                        \/ delta # Nil /\ PatchRaises(data, delta)
          IN
          /\ pastEnd' = (pastEnd \/ PastEnd(top.from))
          /\ \/ /\ raises
                /\ answer' = "raised" /\ pc' = "done"
                /\ UNCHANGED <<data, stack>>
             \/ /\ ~raises
                /\ data' = IF delta = Nil THEN <<>> ELSE Patched(data, delta)
                /\ stack' = Front(stack)
                /\ UNCHANGED <<answer, pc>>
          /\ UNCHANGED <<index, searchVars, pack, call, offset>>

Loaded ==
  /\ pc = "patch" /\ stack = <<>>
  /\ Answer("loaded")

Return ==
  /\ pc = "done"
  /\ pc' = "idle" /\ call' = Nil /\ offset' = 0 /\ stack' = <<>> /\ data' = Nil
  /\ answer' = "none" /\ pastEnd' = FALSE
  /\ wanted' = Nil /\ search' = "none" /\ lo' = 0 /\ hi' = 0 /\ place' = 0
  /\ UNCHANGED <<index, pack>>

Run == NarrowSearch \/ Located \/ NotLocated \/ UnpackWhole \/ UnpackDelta \/ ApplyDelta \/ Loaded \/ Return

Next == (\E s \in Sha : LoadObject(s)) \/ Run

Spec == Init /\ [][Next]_vars

\* A call runs on its own thread of control until it returns or crashes.
FairSpec == Spec /\ WF_vars(Run)
-----------------------------------------------------------------------------
\* The objects that are unpacked for s: itself and its bases, as far as the
\* pack holds them.
Chain(p, s) ==
  LET first == {o \in ToSet(p.objects) : o.sha = s}
      reach[n \in 0..Len(p.objects)] ==
        IF n = 0 THEN first ELSE reach[n - 1] \cup UNION {BaseOf(p, o) : o \in reach[n - 1]}
  IN reach[Len(p.objects)]

Complete(p, s) == \A o \in Chain(p, s) : o.kind = "whole" \/ BaseOf(p, o) # {}

\* GITPackFile.h: "Loads and returns the contents of an object", through any
\* chain of deltas of both kinds, although the range the reverse index gives
\* for the data (GITPackFileVersion2.m:204,258) is not the object's own.
LoadsOriginal ==
  answer = "loaded" /\ ~pastEnd => data = Original[call]

\* A load answers "not found" for what the pack does not hold, and fails or
\* raises only when a base is missing, or past the end of the reverse index,
\* which is read only for the last object in the pack or a delta resting on it.
FailsOnlyWithoutBase ==
  /\ answer = "notfound" => call \notin {o.sha : o \in ToSet(pack.objects)}
  /\ answer \in {"failed", "raised"} => pastEnd \/ ~Complete(pack, call)
  /\ pastEnd => Last(pack.objects) \in Chain(pack, call)

\* Every call answers unless the process crashes: the search narrows, and a
\* chain of deltas ends.
Ends == call # Nil ~> (call = Nil \/ pc = "crashed")
=============================================================================
