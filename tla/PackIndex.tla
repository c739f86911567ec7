----------------------------- MODULE PackIndex -----------------------------
(***************************************************************************)
(* The tables of a version 2 pack index and the search for a sha1 in them  *)
(* (GITPackIndexVersion2): the fanout table gives the range of shas with   *)
(* the same first byte, and a binary search runs over that range.  A turn  *)
(* of the search loop is a step.                                           *)
(***************************************************************************)
EXTENDS Integers

CONSTANTS
  Sha,         \* sha1s, as numbers: memcmp orders them the same way
  MaxByte,     \* the greatest first byte; the program's is 255
  FirstByte,   \* the first byte of a sha1
  Extended,    \* the flag of the offset table: 2^31
  Indexes,     \* index files git may have written
  Nil

\* The objects in the index, by their place in its tables.
Places(ix) == 0..ix.count - 1

\* What git writes: shas in order, a fanout entry for every byte, and an
\* offset that is either small or a place in the extended table.
WellFormed(ix) ==
  /\ ix.count \in Nat
  /\ ix.shas \in [Places(ix) -> Sha]
  /\ \A i, j \in Places(ix) : i < j => ix.shas[i] < ix.shas[j]
  /\ ix.fanout \in [0..MaxByte -> 0..ix.count]
  /\ \A b \in 0..MaxByte, i \in Places(ix) : i < ix.fanout[b] <=> FirstByte[ix.shas[i]] <= b
  /\ ix.offsets \in [Places(ix) -> Nat]
  /\ \A i \in Places(ix) : ix.offsets[i] >= Extended => ix.offsets[i] - Extended \in DOMAIN ix.extended

\* packOffsetWithIndex: small offsets are in the table itself.
PackOffset(ix, i) ==
  IF ix.offsets[i] < Extended
  THEN ix.offsets[i]
  ELSE ix.extended[ix.offsets[i] - Extended]

ASSUME IndexAssumption ==
  /\ Sha \subseteq Nat /\ Nil \notin Sha
  /\ MaxByte \in Nat /\ Extended \in Nat
  /\ FirstByte \in [Sha -> 0..MaxByte]
  /\ \A s, t \in Sha : s <= t => FirstByte[s] <= FirstByte[t]
  /\ \A ix \in Indexes : WellFormed(ix)

VARIABLES
  index,     \* the mapped index file
  wanted,    \* the sha1 looked for; Nil between searches
  search,    \* "none", "running", or how it ended: "found" or "missing"
  lo, hi,    \* the shas still in question are those from lo up to hi - 1
  place      \* where it was found

searchVars == <<wanted, search, lo, hi, place>>
-----------------------------------------------------------------------------
\* rangeOfObjectsWithFirstByte: as its two ends.
RangeStart(b) == IF b = 0 THEN 0 ELSE index.fanout[b - 1]
RangeEnd(b) == index.fanout[b]

\* An empty range is not searched.
BeginSearch(s) ==
  LET first == FirstByte[s] IN
  /\ wanted' = s
  /\ lo' = RangeStart(first) /\ hi' = RangeEnd(first)
  /\ search' = IF lo' < hi' THEN "running" ELSE "missing"
  /\ UNCHANGED <<index, place>>

Middle == (lo + hi) \div 2

\* Seeded faults: the upper end taken for the last sha of the range; no progress.
LowerHalfInclusive == lo' = lo /\ hi' = Middle - 1
UpperHalfWithMiddle == lo' = Middle /\ hi' = hi

LowerHalf == lo' = lo /\ hi' = Middle
UpperHalf == lo' = Middle + 1 /\ hi' = hi

\* One turn of the loop of indexOfSha1:.
Narrow ==
  /\ search = "running"
  /\ \/ /\ wanted = index.shas[Middle]
        /\ search' = "found" /\ place' = Middle
        /\ UNCHANGED <<lo, hi>>
     \/ /\ \/ wanted < index.shas[Middle] /\ LowerHalf
           \/ wanted > index.shas[Middle] /\ UpperHalf
        /\ search' = IF lo' < hi' THEN "running" ELSE "missing"
        /\ UNCHANGED place
  /\ UNCHANGED <<index, wanted>>

-----------------------------------------------------------------------------
SearchInit ==
  /\ index \in Indexes
  /\ wanted = Nil /\ search = "none"
  /\ lo = 0 /\ hi = 0 /\ place = 0

SearchNext == (search # "running" /\ \E s \in Sha : BeginSearch(s)) \/ Narrow

SearchSpec == SearchInit /\ [][SearchNext]_<<index, searchVars>>

SearchTypeOK ==
  /\ WellFormed(index)
  /\ wanted \in Sha \cup {Nil} /\ (wanted = Nil) = (search = "none")
  /\ search \in {"none", "running", "found", "missing"}
  /\ lo \in 0..index.count /\ hi \in 0..index.count
  /\ place \in Nat
  /\ search = "running" => lo < hi
  /\ search = "found" => place \in Places(index)

\* The search of indexOfSha1: finds a sha1 at its place and misses none that
\* is in the index: what it has left out on the way does not hold it.
FoundIfIndexed ==
  /\ search = "found" => index.shas[place] = wanted
  /\ search = "missing" => \A i \in Places(index) : index.shas[i] # wanted
  /\ search = "running" => \A i \in Places(index) : index.shas[i] = wanted => i \in lo..hi - 1
=============================================================================
