--------------------------- MODULE RefStoreProofs ---------------------------
(***************************************************************************)
(* Theorems about RefStore, for every set of refs, every repository and    *)
(* every interleaving with git: its types, that a fetch misses no ref,     *)
(* that what it caches of a ref was the ref's value, and that its          *)
(* assertion on symbolic refs fails only for links that were broken.       *)
(*                                                                         *)
(* Why none is missed: a ref that was there all the time and was not found *)
(* by the loose pass was packed when its name came up, and git takes an    *)
(* entry out of packed-refs only when it deletes the ref.  So during and   *)
(* after the loose pass such a ref is cached, still to be scanned, or in   *)
(* packed-refs; the packed pass comes last and caches the rest.            *)
(***************************************************************************)
EXTENDS RefStore, WorkListTheorems

\* In the packed-refs file the store reads.
InPacked(r) == packFile /\ packed[r] # None

\* Where the held refs are, pass by pass.
Accounted ==
  /\ \A r \in held : Present(r)
  /\ pc = "loose" =>
       ~fetchedLoose /\ \A r \in held : ~NotCached(r) \/ r \in toScan \cup {cur} \/ InPacked(r)
  /\ fetchedLoose => \A r \in held : ~NotCached(r) \/ (~fetchedPacked /\ InPacked(r))
  /\ pc = "packed" => fetchedLoose
  /\ pc \in {"resolve", "answer"} => Fetched
  /\ fetchedPacked => fetchedLoose

IInv == TypeOK /\ Accounted

-----------------------------------------------------------------------------
\* The constants, one fact at a time.
LEMMA Names ==
  /\ HEAD \notin Branch /\ Lock \notin Ref /\ HEAD \in Ref /\ Branch \subseteq Ref
  /\ None \notin Ref /\ None # Lock /\ None \notin Sha /\ Empty \notin Sha /\ Empty \notin Ref
  /\ None # Empty /\ Links \subseteq Ref \X Branch
  /\ \A s \in Sha : s \notin Branch
  BY RefAssumption DEF Ref

\* The entry made of a valid file is an entry, and is not the absent one.
LEMMA EntryOfValid ==
  ASSUME NEW content \in Sha \cup Branch
  PROVE  EntryOf(content) \in Entry /\ EntryOf(content) # NoRef
  BY Names DEF EntryOf, Entry, NoRef, Ref

LEMMA InitEstablishes == Init => IInv
<1>. SUFFICES ASSUME Init PROVE IInv
  OBVIOUS
<1>1. PICK d \in Repositories : loose = d.loose /\ packed = d.packed
  BY DEF Init
<1>2. /\ loose \in [Ref \cup {Lock} -> Sha \cup Branch \cup {None}]
      /\ packed \in [Branch -> Sha \cup {None}] /\ loose[HEAD] # None
  BY <1>1, RefAssumption
<1>3. GitIdle \in [op : {"none", "update", "prune", "delete"}, refs : SUBSET Branch,
                   value : Sha \cup {None}]
  BY DEF GitIdle, Doing
<1>4. NoRef \in Entry
  BY DEF NoRef, Entry
<1>5. \A r \in Ref : Value(r) \in Sha \cup Branch \cup {None}
  BY <1>2 DEF Value, Ref
<1>6. TypeOK
  <2>1. loose \in [Ref \cup {Lock} -> Sha \cup Branch \cup {None, Empty}]
        /\ \A r \in Ref : loose[r] # Empty
    BY <1>2, Names
  <2>2. Broken \in BOOLEAN
    BY DEF Broken
  <2>3. seen \in [Ref -> SUBSET (Sha \cup Branch \cup {None})]
    BY <1>5 DEF Init
  <2>4. changes \in 0..MaxChanges
    BY RefAssumption DEF Init
  <2>5. symbolicRefs \in Seq([name : Ref \cup {Lock}, link : Branch \cup {None}])
    BY EmptySeq DEF Init
  <2>. QED
    BY <1>2, <1>3, <1>4, <2>1, <2>2, <2>3, <2>4, <2>5 DEF Init, TypeOK
<1>. QED
  BY <1>6 DEF Init, IInv, Accounted, Idle

-----------------------------------------------------------------------------
(***************************************************************************)
(* The steps of git.                                                       *)
(***************************************************************************)
\* What is left to show of a step of git: the files keep their types, and it
\* takes a ref out of packed-refs only if it deletes it.
LEMMA GitStepKeeps ==
  ASSUME IInv, NEW breaks \in BOOLEAN, Observe(breaks),
         loose' \in [Ref \cup {Lock} -> Sha \cup Branch \cup {None, Empty}],
         \A r \in Ref : loose'[r] # Empty, loose'[HEAD] # None,
         packed' \in [Branch -> Sha \cup {None}], packedExists' \in BOOLEAN,
         git' \in [op : {"none", "update", "prune", "delete"}, refs : SUBSET Branch,
                   value : Sha \cup {None}],
         changes' \in 0..MaxChanges,
         \A r \in Branch : packed[r] # None =>
           packed'[r] # None \/ (git'.op = "delete" /\ r \in git'.refs)
  PROVE  IInv'
<1>1. /\ UNCHANGED <<packFile, cachedRefs, symbolicRefs, fetchedLoose, fetchedPacked, pc,
                     toScan, cur, asserted>>
      /\ held' = {r \in held : Present(r)'}
      /\ seen' = IF Fetched THEN seen ELSE [r \in Ref |-> seen[r] \cup {Value(r)'}]
      /\ disturbed' = (disturbed \/ breaks)
  BY DEF Observe, cache
<1>2. TypeOK'
  <2>1. \A r \in Ref : Value(r)' \in Sha \cup Branch \cup {None}
    <3>1. \A r \in Ref : loose'[r] \in Sha \cup Branch \cup {None}
      OBVIOUS
    <3>2. \A r \in Ref : r # HEAD => packed'[r] \in Sha \cup {None}
      BY DEF Ref
    <3>. QED
      BY <3>1, <3>2 DEF Value
  <2>2. seen' \in [Ref -> SUBSET (Sha \cup Branch \cup {None})]
    BY <1>1, <2>1 DEF IInv, TypeOK
  <2>3. held' \subseteq Branch /\ disturbed' \in BOOLEAN
    BY <1>1 DEF IInv, TypeOK
  <2>. QED
    BY <1>1, <2>2, <2>3 DEF IInv, TypeOK
<1>3. \A r \in held' : r \in held /\ r \in Branch /\ Present(r)'
  BY <1>1 DEF IInv, TypeOK
<1>4. \A r \in held' : InPacked(r) => InPacked(r)'
  BY <1>1, <1>3 DEF InPacked, Present
<1>5. \A r \in Ref : NotCached(r)' <=> NotCached(r)
  BY <1>1 DEF NotCached
<1>6. Fetched' <=> Fetched
  BY <1>1 DEF Fetched
<1>7. \A r \in held' : NotCached(r)' <=> NotCached(r)
  BY <1>3, <1>5, Names
<1>. QED
  BY <1>1, <1>2, <1>3, <1>4, <1>6, <1>7 DEF IInv, Accounted

\* Beginning an operation.
LEMMA BeginsTypes ==
  ASSUME TypeOK, NEW op, GitBegins(op)
  PROVE  git' = op /\ changes' \in 0..MaxChanges /\ git = GitIdle
  BY RefAssumption DEF GitBegins, TypeOK

LEMMA GitUpdateStep ==
  ASSUME IInv, NEW r \in Branch, NEW v \in Sha, GitUpdate(r, v)
  PROVE  IInv'
<1>1. git' = [op |-> "update", refs |-> {r}, value |-> v] /\ changes' \in 0..MaxChanges
  BY BeginsTypes DEF GitUpdate, IInv
<1>2. /\ loose' = [loose EXCEPT ![Lock] = Empty] /\ packed' = packed
      /\ packedExists' = packedExists /\ Observe(FALSE)
  BY DEF GitUpdate
<1>3. /\ git' \in [op : {"none", "update", "prune", "delete"}, refs : SUBSET Branch,
                   value : Sha \cup {None}]
      /\ changes' \in 0..MaxChanges
  BY <1>1
<1>4. /\ loose' \in [Ref \cup {Lock} -> Sha \cup Branch \cup {None, Empty}]
      /\ \A q \in Ref : loose'[q] # Empty
      /\ loose'[HEAD] # None
  BY <1>2, Names DEF IInv, TypeOK
<1>5. /\ packed' \in [Branch -> Sha \cup {None}] /\ packedExists' \in BOOLEAN
      /\ \A q \in Branch : packed[q] # None => packed'[q] # None
  BY <1>2 DEF IInv, TypeOK
<1>. QED
  <2>1. Observe(FALSE) /\ FALSE \in BOOLEAN
    BY <1>2
  <2>. QED
    BY <1>3, <1>4, <1>5, <2>1, GitStepKeeps

LEMMA GitWriteLockStep == IInv /\ GitWriteLock => IInv'
<1>. SUFFICES ASSUME IInv, GitWriteLock PROVE IInv'
  OBVIOUS
<1>1. /\ loose' = [loose EXCEPT ![Lock] = git.value]
      /\ packed' = packed /\ packedExists' = packedExists /\ git' = git /\ changes' = changes
      /\ Observe(FALSE)
  BY DEF GitWriteLock
<1>2. git.value \in Sha \cup {None}
  BY DEF IInv, TypeOK
<1>3. git' \in [op : {"none", "update", "prune", "delete"}, refs : SUBSET Branch,
                  value : Sha \cup {None}]
      /\ changes' \in 0..MaxChanges
  BY <1>1 DEF IInv, TypeOK
<1>4. /\ loose' \in [Ref \cup {Lock} -> Sha \cup Branch \cup {None, Empty}]
      /\ \A q \in Ref : loose'[q] # Empty
      /\ loose'[HEAD] # None
  BY <1>1, <1>2, Names DEF IInv, TypeOK
<1>5. /\ packed' \in [Branch -> Sha \cup {None}] /\ packedExists' \in BOOLEAN
      /\ \A q \in Branch : packed[q] # None => packed'[q] # None
  BY <1>1 DEF IInv, TypeOK
<1>. QED
  <2>1. Observe(FALSE) /\ FALSE \in BOOLEAN
    BY <1>1
  <2>. QED
    BY <1>3, <1>4, <1>5, <2>1, GitStepKeeps

LEMMA GitRenameStep ==
  ASSUME IInv, NEW r \in Branch, GitRename(r)
  PROVE  IInv'
<1>1. /\ loose' = [loose EXCEPT ![r] = git.value, ![Lock] = None]
      /\ packed' = packed /\ packedExists' = packedExists /\ git' = GitIdle /\ changes' = changes
      /\ Observe(loose[r] \in Branch)
  BY DEF GitRename
<1>2. git.value \in Sha \cup {None} /\ r \in Ref /\ r # HEAD /\ r # Lock
  BY Names DEF IInv, TypeOK
<1>3. GitIdle \in [op : {"none", "update", "prune", "delete"}, refs : SUBSET Branch,
                   value : Sha \cup {None}]
  BY DEF GitIdle, Doing
<1>4. /\ loose' \in [Ref \cup {Lock} -> Sha \cup Branch \cup {None, Empty}]
      /\ \A q \in Ref : loose'[q] # Empty
      /\ loose'[HEAD] # None
  BY <1>1, <1>2, Names DEF IInv, TypeOK
<1>5. /\ packed' \in [Branch -> Sha \cup {None}] /\ packedExists' \in BOOLEAN
      /\ changes' \in 0..MaxChanges
      /\ \A q \in Branch : packed[q] # None => packed'[q] # None
  BY <1>1 DEF IInv, TypeOK
<1>. QED
  <2> DEFINE breaks == loose[r] \in Branch
  <2>1. breaks \in BOOLEAN /\ Observe(breaks)
    BY <1>1
  <2>2. git' \in [op : {"none", "update", "prune", "delete"}, refs : SUBSET Branch,
                  value : Sha \cup {None}]
    BY <1>1, <1>3
  <2> HIDE DEF breaks
  <2>. QED
    BY <1>4, <1>5, <2>1, <2>2, GitStepKeeps

LEMMA GitPackStep == IInv /\ GitPack => IInv'
<1>. SUFFICES ASSUME IInv, GitPack PROVE IInv'
  OBVIOUS
<1>1. git' = Doing("prune", {r \in Branch : loose[r] \in Sha}) /\ changes' \in 0..MaxChanges
  BY BeginsTypes DEF GitPack, IInv
<1>2. /\ packed' = [r \in Branch |-> IF loose[r] \in Sha THEN loose[r] ELSE packed[r]]
      /\ packedExists' = TRUE /\ loose' = loose /\ Observe(~packFile)
  BY DEF GitPack
<1>3. packed' \in [Branch -> Sha \cup {None}]
      /\ \A r \in Branch : packed[r] # None => packed'[r] # None
  BY <1>2, Names DEF IInv, TypeOK
<1>4. git' \in [op : {"none", "update", "prune", "delete"}, refs : SUBSET Branch,
                value : Sha \cup {None}]
  BY <1>1 DEF Doing
<1>5. /\ loose' \in [Ref \cup {Lock} -> Sha \cup Branch \cup {None, Empty}]
      /\ \A q \in Ref : loose'[q] # Empty
      /\ loose'[HEAD] # None /\ (~packFile) \in BOOLEAN
  BY <1>2 DEF IInv, TypeOK
<1>. QED
  BY <1>1, <1>2, <1>3, <1>4, <1>5, GitStepKeeps

LEMMA GitPruneStep ==
  ASSUME IInv, NEW r \in Branch, GitPrune(r)
  PROVE  IInv'
<1>1. /\ loose' = [loose EXCEPT ![r] = IF @ = packed[r] THEN None ELSE @]
      /\ git' = IF git.refs = {r} THEN GitIdle ELSE [git EXCEPT !.refs = @ \ {r}]
      /\ packed' = packed /\ packedExists' = packedExists /\ changes' = changes
      /\ Observe(~packFile)
  BY DEF GitPrune
<1>2. r \in Ref /\ r # HEAD
  BY Names
<1>3. /\ loose' \in [Ref \cup {Lock} -> Sha \cup Branch \cup {None, Empty}]
      /\ \A q \in Ref : loose'[q] # Empty
      /\ loose'[HEAD] # None
  BY <1>1, <1>2, Names DEF IInv, TypeOK
<1>4. git' \in [op : {"none", "update", "prune", "delete"}, refs : SUBSET Branch,
                value : Sha \cup {None}]
  BY <1>1 DEF IInv, TypeOK, GitIdle, Doing
<1>5. /\ packed' \in [Branch -> Sha \cup {None}] /\ packedExists' \in BOOLEAN
      /\ changes' \in 0..MaxChanges /\ (~packFile) \in BOOLEAN
      /\ \A q \in Branch : packed[q] # None => packed'[q] # None
  BY <1>1 DEF IInv, TypeOK
<1>. QED
  BY <1>1, <1>3, <1>4, <1>5, GitStepKeeps

LEMMA GitDeleteStep ==
  ASSUME IInv, NEW r \in Branch, GitDelete(r)
  PROVE  IInv'
<1>1. git' = Doing("delete", {r}) /\ changes' \in 0..MaxChanges
  BY BeginsTypes DEF GitDelete, IInv
<1>2. /\ packed' = [packed EXCEPT ![r] = None] /\ loose' = loose
      /\ packedExists' = packedExists /\ Observe(TRUE)
  BY DEF GitDelete
<1>3. /\ packed' \in [Branch -> Sha \cup {None}]
      /\ \A q \in Branch : packed[q] # None =>
           packed'[q] # None \/ (git'.op = "delete" /\ q \in git'.refs)
  BY <1>1, <1>2 DEF IInv, TypeOK, Doing
<1>4. git' \in [op : {"none", "update", "prune", "delete"}, refs : SUBSET Branch,
                value : Sha \cup {None}]
  BY <1>1 DEF Doing
<1>5. /\ loose' \in [Ref \cup {Lock} -> Sha \cup Branch \cup {None, Empty}]
      /\ \A q \in Ref : loose'[q] # Empty
      /\ loose'[HEAD] # None /\ packedExists' \in BOOLEAN
  BY <1>2 DEF IInv, TypeOK
<1>. QED
  BY <1>1, <1>2, <1>3, <1>4, <1>5, GitStepKeeps

LEMMA GitUnlinkStep ==
  ASSUME IInv, NEW r \in Branch, GitUnlink(r)
  PROVE  IInv'
<1>1. /\ loose' = [loose EXCEPT ![r] = None] /\ git' = GitIdle
      /\ packed' = packed /\ packedExists' = packedExists /\ changes' = changes
      /\ Observe(TRUE)
  BY DEF GitUnlink
<1>2. r \in Ref /\ r # HEAD
  BY Names
<1>3. /\ loose' \in [Ref \cup {Lock} -> Sha \cup Branch \cup {None, Empty}]
      /\ \A q \in Ref : loose'[q] # Empty
      /\ loose'[HEAD] # None
  BY <1>1, <1>2, Names DEF IInv, TypeOK
<1>4. GitIdle \in [op : {"none", "update", "prune", "delete"}, refs : SUBSET Branch,
                   value : Sha \cup {None}]
  BY DEF GitIdle, Doing
<1>5. /\ packed' \in [Branch -> Sha \cup {None}] /\ packedExists' \in BOOLEAN
      /\ changes' \in 0..MaxChanges
      /\ \A q \in Branch : packed[q] # None => packed'[q] # None
  BY <1>1 DEF IInv, TypeOK
<1>. QED
  BY <1>1, <1>3, <1>4, <1>5, GitStepKeeps

LEMMA GitCheckoutStep ==
  ASSUME IInv, NEW v \in Sha \cup Branch, GitCheckout(v)
  PROVE  IInv'
<1>1. git' = GitIdle /\ changes' \in 0..MaxChanges
  BY BeginsTypes DEF GitCheckout, IInv
<1>2. /\ loose' = [loose EXCEPT ![HEAD] = v] /\ packed' = packed
      /\ packedExists' = packedExists /\ Observe(TRUE)
  BY DEF GitCheckout
<1>3. v # None /\ v # Empty
  BY Names
<1>4. /\ loose' \in [Ref \cup {Lock} -> Sha \cup Branch \cup {None, Empty}]
      /\ \A q \in Ref : loose'[q] # Empty
      /\ loose'[HEAD] # None
  BY <1>2, <1>3, Names DEF IInv, TypeOK
<1>5. GitIdle \in [op : {"none", "update", "prune", "delete"}, refs : SUBSET Branch,
                   value : Sha \cup {None}]
  BY DEF GitIdle, Doing
<1>6. /\ packed' \in [Branch -> Sha \cup {None}] /\ packedExists' \in BOOLEAN
      /\ \A q \in Branch : packed[q] # None => packed'[q] # None
  BY <1>2 DEF IInv, TypeOK
<1>. QED
  BY <1>1, <1>2, <1>4, <1>5, <1>6, GitStepKeeps

LEMMA GitStep == IInv /\ Git => IInv'
<1>. SUFFICES ASSUME IInv, Git PROVE IInv'
  OBVIOUS
<1>1. CASE GitFinishes
  BY <1>1, GitWriteLockStep, GitRenameStep, GitPruneStep, GitUnlinkStep DEF GitFinishes
<1>2. CASE \E v \in Sha \cup {l[2] : l \in {m \in Links : m[1] = HEAD}} : GitCheckout(v)
  <2>1. \A l \in Links : l[2] \in Branch
    BY Names
  <2>. QED
    BY <1>2, <2>1, GitCheckoutStep
<1>. QED
  BY <1>1, <1>2, GitPackStep, GitDeleteStep, GitUpdateStep DEF Git

-----------------------------------------------------------------------------
(***************************************************************************)
(* The steps of the store.                                                 *)
(***************************************************************************)
\* Where nothing is written, the refs are what they were.
LEMMA ReadingChangesNoRef ==
  ASSUME UNCHANGED <<disk, git, packFile>>
  PROVE  /\ \A r \in Ref : Value(r)' = Value(r)
         /\ \A r \in Ref : Present(r)' <=> Present(r)
         /\ \A r \in Ref : InPacked(r)' <=> InPacked(r)
<1>1. loose' = loose /\ packed' = packed /\ git' = git /\ packFile' = packFile
  BY DEF disk
<1>2. \A r \in Ref : Value(r)' = Value(r)
  BY <1>1 DEF Value
<1>. QED
  BY <1>1, <1>2 DEF Present, InPacked

LEMMA ValueType ==
  ASSUME TypeOK
  PROVE  \A r \in Ref : Value(r) \in Sha \cup Branch \cup {None}
<1>1. \A r \in Ref : loose[r] \in Sha \cup Branch \cup {None}
  BY DEF TypeOK
<1>2. \A r \in Ref : r # HEAD => packed[r] \in Sha \cup {None}
  BY DEF Ref, TypeOK
<1>. QED
  BY <1>1, <1>2 DEF Value

LEMMA BeginStep == IInv /\ Begin => IInv'
<1>. SUFFICES ASSUME IInv, Begin PROVE IInv'
  OBVIOUS
<1>1. /\ UNCHANGED <<disk, git, changes, packFile, cache, cur, seen, disturbed>>
      /\ pc' = NextPass("idle") /\ asserted' = FALSE
      /\ toScan' = (IF fetchedLoose THEN {} ELSE File)
      /\ held' = (IF fetchedLoose THEN held ELSE {r \in Branch : Present(r)})
  BY DEF Begin
<1>2. /\ pc' \in {"answer", "packed", "loose"}
      /\ pc' = "answer" => Fetched
      /\ pc' = "packed" => fetchedLoose /\ ~Fetched
      /\ pc' = "loose" => ~fetchedLoose
  BY <1>1 DEF NextPass, Fetched
<1>3. TypeOK'
  BY <1>1, <1>2 DEF IInv, TypeOK, disk, cache
<1>4. \A r \in held' : r \in Branch /\ r \in Ref /\ Present(r)
  BY <1>1, Names DEF IInv, TypeOK, Accounted
<1>5. \A r \in Ref : (Present(r)' <=> Present(r)) /\ (InPacked(r)' <=> InPacked(r))
  BY <1>1, ReadingChangesNoRef
<1>6. \A r \in Ref : NotCached(r)' <=> NotCached(r)
  BY <1>1 DEF NotCached, cache
<1>7. fetchedLoose' = fetchedLoose /\ fetchedPacked' = fetchedPacked /\ packFile' = packFile
  BY <1>1 DEF cache
<1>8. pc' = "loose" => \A r \in held' : r \in toScan'
  BY <1>1, <1>2, <1>4 DEF File
<1>. QED
  BY <1>1, <1>2, <1>3, <1>4, <1>5, <1>6, <1>7, <1>8 DEF IInv, Accounted, Fetched

LEMMA ScanNameStep ==
  ASSUME IInv, NEW f \in File, ScanName(f)
  PROVE  IInv'
<1>1. /\ UNCHANGED <<disk, git, changes, packFile, cache, pc, asserted, observed>>
      /\ pc = "loose" /\ cur = None /\ f \in toScan /\ toScan' = toScan \ {f}
      /\ cur' = (IF loose[f] # None /\ NotCached(f) THEN f ELSE None)
  BY DEF ScanName
<1>2. TypeOK'
  BY <1>1 DEF IInv, TypeOK, disk, cache, observed
<1>3. \A r \in held : r \in Branch /\ r \in Ref /\ Present(r)
  BY Names DEF IInv, TypeOK, Accounted
<1>4. \A r \in Ref : (Present(r)' <=> Present(r)) /\ (InPacked(r)' <=> InPacked(r))
  BY <1>1, ReadingChangesNoRef
<1>5. held' = held /\ \A r \in Ref : NotCached(r)' <=> NotCached(r)
  BY <1>1 DEF NotCached, cache, observed
<1>6. f \in held /\ loose[f] = None => InPacked(f)
  BY <1>3, Names DEF Present, Value, InPacked
<1>7. \A r \in held : ~NotCached(r) \/ r \in toScan' \cup {cur'} \/ InPacked(r)
  BY <1>1, <1>3, <1>6, Names DEF IInv, Accounted
<1>8. ~fetchedLoose' /\ ~fetchedPacked' /\ pc' = "loose"
  BY <1>1 DEF IInv, Accounted, cache
<1>. QED
  BY <1>2, <1>3, <1>4, <1>5, <1>7, <1>8 DEF IInv, Accounted

\* What caching the contents of a file does to the cache.
LEMMA CacheKeeps ==
  ASSUME TypeOK, NEW name \in Ref \cup {Lock}, NEW content \in Sha \cup Branch,
         Cache(name, content)
  PROVE  /\ cachedRefs' \in [Ref \cup {Lock} -> Entry]
         /\ symbolicRefs' \in Seq([name : Ref \cup {Lock}, link : Branch \cup {None}])
         /\ \A r \in Ref \cup {Lock} : NotCached(r)' => NotCached(r) /\ r # name
<1>1. EntryOf(content) \in Entry /\ EntryOf(content) # NoRef
  BY EntryOfValid
<1>2. EntryOf(content).link \in Branch \cup {None}
  BY DEF EntryOf
<1>3. cachedRefs' = [cachedRefs EXCEPT ![name] = EntryOf(content)]
  BY DEF Cache
<1>4. symbolicRefs' \in Seq([name : Ref \cup {Lock}, link : Branch \cup {None}])
  <2> DEFINE l == [name |-> name, link |-> EntryOf(content).link]
             L == [name : Ref \cup {Lock}, link : Branch \cup {None}]
  <2>1. l \in L
    BY <1>2
  <2>2. symbolicRefs \in Seq(L)
    BY DEF TypeOK
  <2>3. symbolicRefs' = Append(symbolicRefs, l) \/ symbolicRefs' = symbolicRefs
    BY DEF Cache
  <2> HIDE DEF l, L
  <2>4. symbolicRefs' \in Seq(L)
    BY <2>1, <2>2, <2>3, AppendProperties
  <2>. QED
    BY <2>4 DEF L
<1>. QED
  BY <1>1, <1>3, <1>4 DEF TypeOK, NotCached

LEMMA ScanFileStep == IInv /\ ScanFile => IInv'
<1>. SUFFICES ASSUME IInv, ScanFile PROVE IInv'
  OBVIOUS
<1>1. /\ UNCHANGED <<disk, git, changes, packFile, fetchedLoose, fetchedPacked, pc, toScan,
                     asserted, observed>>
      /\ pc = "loose" /\ cur # None /\ loose[cur] \notin {None, Empty}
      /\ Cache(cur, loose[cur]) /\ cur' = None
  BY DEF ScanFile
<1>2. cur \in Ref \cup {Lock} /\ loose[cur] \in Sha \cup Branch
  BY <1>1 DEF IInv, TypeOK, File, Ref
<1>3. /\ cachedRefs' \in [Ref \cup {Lock} -> Entry]
      /\ symbolicRefs' \in Seq([name : Ref \cup {Lock}, link : Branch \cup {None}])
      /\ \A r \in Ref \cup {Lock} : NotCached(r)' => NotCached(r) /\ r # cur
  BY <1>1, <1>2, CacheKeeps DEF IInv
<1>4. TypeOK'
  BY <1>1, <1>3 DEF IInv, TypeOK, disk, observed
<1>5. \A r \in held : r \in Branch /\ r \in Ref /\ Present(r)
  BY Names DEF IInv, TypeOK, Accounted
<1>6. \A r \in Ref : (Present(r)' <=> Present(r)) /\ (InPacked(r)' <=> InPacked(r))
  BY <1>1, ReadingChangesNoRef
<1>7. held' = held /\ ~fetchedLoose' /\ ~fetchedPacked' /\ pc' = "loose"
  BY <1>1 DEF observed, IInv, Accounted
<1>. QED
  BY <1>1, <1>3, <1>4, <1>5, <1>6, <1>7 DEF IInv, Accounted

LEMMA ScanFailsStep == IInv /\ ScanFails => IInv'
<1>. SUFFICES ASSUME IInv, ScanFails PROVE IInv'
  OBVIOUS
<1>1. /\ UNCHANGED <<disk, git, changes, packFile, cache, observed>>
      /\ pc = "loose" /\ pc' = "idle" /\ toScan' = {} /\ cur' = None /\ asserted' = FALSE
  BY DEF ScanFails, Raise
<1>2. TypeOK'
  BY <1>1 DEF IInv, TypeOK, disk, cache, observed
<1>3. \A r \in held : r \in Ref /\ Present(r)
  BY Names DEF IInv, TypeOK, Accounted
<1>4. \A r \in Ref : Present(r)' <=> Present(r)
  BY <1>1, ReadingChangesNoRef
<1>5. held' = held /\ ~fetchedLoose' /\ ~fetchedPacked'
  BY <1>1 DEF observed, cache, IInv, Accounted
<1>. QED
  BY <1>1, <1>2, <1>3, <1>4, <1>5 DEF IInv, Accounted

LEMMA ScanHeadStep == IInv /\ ScanHead => IInv'
<1>. SUFFICES ASSUME IInv, ScanHead PROVE IInv'
  OBVIOUS
<1>1. /\ UNCHANGED <<disk, git, changes, packFile, fetchedPacked, toScan, cur, asserted, observed>>
      /\ pc = "loose" /\ cur = None /\ toScan = {} /\ fetchedLoose' = TRUE /\ pc' = "packed"
  BY DEF ScanHead, NextPass
<1>2. HEAD \in Ref \cup {Lock} /\ loose[HEAD] \in Sha \cup Branch
  BY Names DEF IInv, TypeOK
<1>3. /\ cachedRefs' \in [Ref \cup {Lock} -> Entry]
      /\ symbolicRefs' \in Seq([name : Ref \cup {Lock}, link : Branch \cup {None}])
      /\ \A r \in Ref \cup {Lock} : NotCached(r)' => NotCached(r)
  <2>1. CASE NotCached(HEAD)
    BY <2>1, <1>2, CacheKeeps DEF ScanHead, IInv
  <2>2. CASE ~NotCached(HEAD)
    BY <2>2 DEF ScanHead, IInv, TypeOK, NotCached
  <2>. QED
    BY <2>1, <2>2
<1>4. TypeOK'
  BY <1>1, <1>3 DEF IInv, TypeOK, disk, observed
<1>5. \A r \in held : r \in Branch /\ r \in Ref /\ Present(r) /\ r # None
  BY Names DEF IInv, TypeOK, Accounted
<1>6. \A r \in Ref : (Present(r)' <=> Present(r)) /\ (InPacked(r)' <=> InPacked(r))
  BY <1>1, ReadingChangesNoRef
<1>7. held' = held /\ ~fetchedPacked'
  BY <1>1 DEF observed, IInv, Accounted
<1>8. \A r \in held : ~NotCached(r) \/ InPacked(r)
  BY <1>1, <1>5 DEF IInv, Accounted
<1>. QED
  BY <1>1, <1>3, <1>4, <1>5, <1>6, <1>7, <1>8 DEF IInv, Accounted

LEMMA FetchPackedRefsStep == IInv /\ FetchPackedRefs => IInv'
<1>. SUFFICES ASSUME IInv, FetchPackedRefs PROVE IInv'
  OBVIOUS
<1>1. /\ UNCHANGED <<disk, git, changes, packFile, symbolicRefs, fetchedLoose, toScan, cur,
                     asserted, observed>>
      /\ pc = "packed" /\ pc' = "resolve" /\ fetchedPacked' = packFile
      /\ cachedRefs' = [r \in Ref \cup {Lock} |->
                          IF packFile /\ r \in Branch /\ packed[r] # None /\ NotCached(r)
                          THEN EntryOf(packed[r]) ELSE cachedRefs[r]]
  BY DEF FetchPackedRefs, NextPass
<1>2. \A r \in Branch : packed[r] # None =>
        EntryOf(packed[r]) \in Entry /\ EntryOf(packed[r]) # NoRef
  BY EntryOfValid DEF IInv, TypeOK
<1>3. cachedRefs' \in [Ref \cup {Lock} -> Entry]
  BY <1>1, <1>2 DEF IInv, TypeOK
<1>4. TypeOK'
  BY <1>1, <1>3 DEF IInv, TypeOK, disk, observed
<1>5. \A r \in held : r \in Branch /\ r \in Ref /\ Present(r)
  BY Names DEF IInv, TypeOK, Accounted
<1>6. \A r \in Ref : Present(r)' <=> Present(r)
  BY <1>1, ReadingChangesNoRef
<1>7. fetchedLoose /\ fetchedLoose' = fetchedLoose /\ held' = held /\ packFile' = packFile
  BY <1>1 DEF observed, IInv, Accounted
<1>8. \A r \in held : ~NotCached(r)'
  <2>. SUFFICES ASSUME NEW r \in held PROVE cachedRefs'[r] # NoRef
    BY DEF NotCached
  <2>1. ~NotCached(r) \/ InPacked(r)
    BY <1>7 DEF IInv, Accounted
  <2>2. r \in Branch /\ r \in Ref \cup {Lock}
    BY <1>5
  <2>. QED
    BY <1>1, <1>2, <2>1, <2>2 DEF InPacked, NotCached
<1>. QED
  BY <1>1, <1>4, <1>5, <1>6, <1>7, <1>8 DEF IInv, Accounted, Fetched

LEMMA ResolveLastStep == IInv /\ ResolveLast => IInv'
<1>. SUFFICES ASSUME IInv, ResolveLast PROVE IInv'
  OBVIOUS
<1> DEFINE l == Last(symbolicRefs)
           L == [name : Ref \cup {Lock}, link : Branch \cup {None}]
           sha == ShaByResolving(l.link)
<1>1. /\ UNCHANGED <<disk, git, changes, packFile, fetchedLoose, fetchedPacked, observed>>
      /\ pc = "resolve" /\ symbolicRefs # <<>> /\ symbolicRefs' = Front(symbolicRefs)
  BY DEF ResolveLast
<1>2. symbolicRefs' \in Seq(L) /\ l \in L
  <2>1. symbolicRefs \in Seq(L)
    BY DEF IInv, TypeOK
  <2> HIDE DEF L
  <2>. QED
    BY <1>1, <2>1, FrontLast
<1>3. \/ /\ sha \in Sha
         /\ cachedRefs' = [cachedRefs EXCEPT ![l.name] =
              IF @.pending THEN [@ EXCEPT !.sha = sha, !.pending = FALSE] ELSE @]
         /\ UNCHANGED <<pc, toScan, cur, asserted>>
      \/ Raise(TRUE) /\ UNCHANGED cachedRefs
  BY DEF ResolveLast
<1> HIDE DEF sha
<1>4. l.name \in Ref \cup {Lock}
  BY <1>2
<1> HIDE DEF l
<1>5. /\ cachedRefs' \in [Ref \cup {Lock} -> Entry]
      /\ \A r \in Ref \cup {Lock} : NotCached(r)' => NotCached(r)
  <2>1. CASE sha \in Sha /\ cachedRefs' = [cachedRefs EXCEPT ![l.name] =
               IF @.pending THEN [@ EXCEPT !.sha = sha, !.pending = FALSE] ELSE @]
    <3> DEFINE e == cachedRefs[l.name]
               new == IF e.pending THEN [e EXCEPT !.sha = sha, !.pending = FALSE] ELSE e
    <3>1. e \in Entry
      BY <1>4 DEF IInv, TypeOK
    <3>2. new \in Entry /\ (new = NoRef => e = NoRef)
      BY <2>1, <3>1, Names DEF Entry, NoRef
    <3>3. cachedRefs' = [cachedRefs EXCEPT ![l.name] = new]
      BY <2>1
    <3> HIDE DEF new
    <3>4. cachedRefs' \in [Ref \cup {Lock} -> Entry]
      BY <3>2, <3>3 DEF IInv, TypeOK
    <3>5. \A r \in Ref \cup {Lock} : cachedRefs'[r] = NoRef => cachedRefs[r] = NoRef
      BY <1>4, <3>2, <3>3 DEF IInv, TypeOK
    <3>. QED
      BY <3>4, <3>5 DEF NotCached
  <2>2. CASE UNCHANGED cachedRefs
    BY <2>2 DEF IInv, TypeOK, NotCached
  <2>. QED
    BY <1>3, <2>1, <2>2
<1>6. /\ pc' \in {"resolve", "idle"} /\ toScan' \subseteq File /\ cur' \in File \cup {None}
      /\ asserted' \in BOOLEAN
  BY <1>1, <1>3 DEF Raise, IInv, TypeOK
<1>7. TypeOK'
  BY <1>1, <1>2, <1>5, <1>6 DEF IInv, TypeOK, disk, observed
<1>8. \A r \in held : r \in Ref /\ Present(r)
  BY Names DEF IInv, TypeOK, Accounted
<1>9. \A r \in Ref : (Present(r)' <=> Present(r)) /\ (InPacked(r)' <=> InPacked(r))
  BY <1>1, ReadingChangesNoRef
<1>10. /\ held' = held /\ fetchedLoose' = fetchedLoose /\ fetchedPacked' = fetchedPacked
       /\ packFile' = packFile
  BY <1>1 DEF observed
<1>. QED
  BY <1>1, <1>5, <1>6, <1>7, <1>8, <1>9, <1>10 DEF IInv, Accounted, Fetched

LEMMA ResolvedStep == IInv /\ Resolved => IInv'
<1>. SUFFICES ASSUME IInv, Resolved PROVE IInv'
  OBVIOUS
<1>1. /\ UNCHANGED <<disk, git, changes, packFile, cache, toScan, cur, asserted, observed>>
      /\ pc = "resolve" /\ pc' = "answer"
  BY DEF Resolved
<1>2. TypeOK'
  BY <1>1 DEF IInv, TypeOK, disk, cache, observed
<1>3. \A r \in held : r \in Ref /\ Present(r)
  BY Names DEF IInv, TypeOK, Accounted
<1>4. \A r \in Ref : (Present(r)' <=> Present(r)) /\ (InPacked(r)' <=> InPacked(r))
  BY <1>1, ReadingChangesNoRef
<1>5. /\ held' = held /\ fetchedLoose' = fetchedLoose /\ fetchedPacked' = fetchedPacked
      /\ packFile' = packFile /\ \A r \in Ref : NotCached(r)' <=> NotCached(r)
  BY <1>1 DEF observed, cache, NotCached
<1>. QED
  BY <1>1, <1>2, <1>3, <1>4, <1>5 DEF IInv, Accounted, Fetched

LEMMA AnswerStep == IInv /\ Answer => IInv'
<1>. SUFFICES ASSUME IInv, Answer PROVE IInv'
  OBVIOUS
<1>1. /\ UNCHANGED <<packed, packedExists, git, packFile, symbolicRefs, fetchedLoose,
                     fetchedPacked, toScan, cur, asserted>>
      /\ pc' = "idle" /\ held' = {} /\ seen' = [r \in Ref |-> {}] /\ disturbed' = FALSE
  BY DEF Answer, Settle
<1>2. /\ loose' \in [Ref \cup {Lock} -> Sha \cup Branch \cup {None, Empty}]
      /\ \A q \in Ref : loose'[q] # Empty
      /\ loose'[HEAD] # None
      /\ cachedRefs' \in [Ref \cup {Lock} -> Entry]
      /\ changes' \in 0..MaxChanges
  <2>1. CASE UNCHANGED <<loose, cachedRefs, changes>>
    BY <2>1 DEF IInv, TypeOK
  <2>2. ASSUME NEW k \in Links, changes < MaxChanges, changes' = changes + 1,
               Write(k[1], k[2],
                     [link |-> k[2], sha |-> cachedRefs[k[2]].sha, pending |-> FALSE])
        PROVE  /\ loose' \in [Ref \cup {Lock} -> Sha \cup Branch \cup {None, Empty}]
               /\ \A q \in Ref : loose'[q] # Empty
               /\ loose'[HEAD] # None
               /\ cachedRefs' \in [Ref \cup {Lock} -> Entry]
               /\ changes' \in 0..MaxChanges
    <3>1. k[1] \in Ref /\ k[2] \in Branch /\ k[2] \in Ref \cup {Lock}
      BY Names
    <3>2. cachedRefs[k[2]].sha \in Sha \cup {None}
      BY <3>1 DEF IInv, TypeOK, Entry
    <3>3. [link |-> k[2], sha |-> cachedRefs[k[2]].sha, pending |-> FALSE] \in Entry
      BY <3>1, <3>2 DEF Entry
    <3>4. k[2] # None /\ k[2] # Empty
      BY <3>1, Names
    <3>5. changes' \in 0..MaxChanges
      BY <2>2, RefAssumption DEF IInv, TypeOK
    <3>. QED
      BY <2>2, <3>1, <3>3, <3>4, <3>5 DEF Write, IInv, TypeOK
  <2>. QED
    BY <2>1, <2>2 DEF Answer
<1>3. TypeOK'
  BY <1>1, <1>2 DEF IInv, TypeOK
<1>. QED
  BY <1>1, <1>3 DEF IInv, Accounted

LEMMA WriteRefStep ==
  ASSUME IInv, NEW r \in Ref, NEW sha \in Sha, WriteRef(r, sha)
  PROVE  IInv'
<1>1. /\ UNCHANGED <<packed, packedExists, git, packFile, symbolicRefs, fetchedLoose,
                     fetchedPacked, pc, toScan, cur, asserted, observed>>
      /\ pc = "idle" /\ changes < MaxChanges /\ changes' = changes + 1
      /\ loose' = [loose EXCEPT ![r] = sha]
      /\ cachedRefs' = [cachedRefs EXCEPT ![r] = EntryOf(sha)]
  BY DEF WriteRef, Idle, Write
<1>2. EntryOf(sha) \in Entry /\ EntryOf(sha) # NoRef
  BY EntryOfValid
<1>3. sha # None /\ sha # Empty
  BY Names
<1>4. changes' \in 0..MaxChanges
  BY <1>1, RefAssumption DEF IInv, TypeOK
<1>5. /\ loose' \in [Ref \cup {Lock} -> Sha \cup Branch \cup {None, Empty}]
      /\ \A q \in Ref : loose'[q] # Empty
      /\ loose'[HEAD] # None
      /\ cachedRefs' \in [Ref \cup {Lock} -> Entry]
  BY <1>1, <1>2, <1>3 DEF IInv, TypeOK
<1>6. TypeOK'
  BY <1>1, <1>4, <1>5 DEF IInv, TypeOK, observed
<1>7. \A q \in held : q \in Ref /\ Present(q)
  BY Names DEF IInv, TypeOK, Accounted
<1>8. \A q \in Ref : Present(q) => Present(q)'
  <2>. SUFFICES ASSUME NEW q \in Ref, Present(q) PROVE Present(q)'
    OBVIOUS
  <2>1. loose'[q] = IF q = r THEN sha ELSE loose[q]
    BY <1>1 DEF IInv, TypeOK
  <2>2. Value(q)' # None
    BY <1>1, <1>3, <2>1 DEF Present, Value
  <2>. QED
    BY <1>1, <2>2 DEF Present
<1>9. \A q \in Ref : /\ NotCached(q)' => NotCached(q)
                     /\ InPacked(q)' <=> InPacked(q)
  BY <1>1, <1>2 DEF IInv, TypeOK, NotCached, InPacked
<1>10. held' = held
  BY <1>1 DEF observed
<1>. QED
  BY <1>1, <1>6, <1>7, <1>8, <1>9, <1>10 DEF IInv, Accounted

LEMMA InvalidateStep == IInv /\ InvalidateCachedRefs => IInv'
<1>. SUFFICES ASSUME IInv, InvalidateCachedRefs PROVE IInv'
  OBVIOUS
<1>1. /\ UNCHANGED <<disk, git, changes, packFile, pc, toScan, cur, asserted>>
      /\ pc = "idle" /\ cachedRefs' = [r \in Ref \cup {Lock} |-> NoRef]
      /\ symbolicRefs' = <<>> /\ fetchedLoose' = FALSE /\ fetchedPacked' = FALSE
      /\ held' = {} /\ seen' = [r \in Ref |-> {Value(r)}] /\ disturbed' = Broken
  BY DEF InvalidateCachedRefs, Idle
<1>2. NoRef \in Entry /\ Broken \in BOOLEAN
  BY DEF NoRef, Entry, Broken
<1>3. seen' \in [Ref -> SUBSET (Sha \cup Branch \cup {None})]
  BY <1>1, ValueType DEF IInv
<1>4. symbolicRefs' \in Seq([name : Ref \cup {Lock}, link : Branch \cup {None}])
  BY <1>1, EmptySeq
<1>5. TypeOK'
  BY <1>1, <1>2, <1>3, <1>4 DEF IInv, TypeOK, disk
<1>. QED
  BY <1>1, <1>5 DEF IInv, Accounted

LEMMA StutterStep == IInv /\ UNCHANGED vars => IInv'
<1>. SUFFICES ASSUME IInv, UNCHANGED vars PROVE IInv'
  OBVIOUS
<1>1. UNCHANGED <<disk, git, changes, packFile, cache, pc, toScan, cur, asserted, observed>>
  BY DEF vars
<1>2. TypeOK'
  BY <1>1 DEF IInv, TypeOK, disk, cache, observed
<1>3. \A r \in held : r \in Ref
  BY Names DEF IInv, TypeOK
<1>4. \A r \in Ref : (Present(r)' <=> Present(r)) /\ (InPacked(r)' <=> InPacked(r))
  BY <1>1, ReadingChangesNoRef
<1>5. /\ held' = held /\ fetchedLoose' = fetchedLoose /\ fetchedPacked' = fetchedPacked
      /\ packFile' = packFile /\ \A r \in Ref : NotCached(r)' <=> NotCached(r)
  BY <1>1 DEF observed, cache, NotCached
<1>. QED
  BY <1>1, <1>2, <1>3, <1>4, <1>5 DEF IInv, Accounted, Fetched

-----------------------------------------------------------------------------
LEMMA NextStep == IInv /\ Next => IInv'
<1>. SUFFICES ASSUME IInv, Next PROVE IInv'
  OBVIOUS
<1>1. CASE Run
  BY <1>1, ScanNameStep, ScanFileStep, ScanFailsStep, ScanHeadStep, FetchPackedRefsStep,
     ResolveLastStep, ResolvedStep, AnswerStep DEF Run
<1>2. CASE Calls
  BY <1>2, BeginStep, WriteRefStep, InvalidateStep DEF Calls
<1>. QED
  BY <1>1, <1>2, GitStep DEF Next

LEMMA Invariance == Spec => []IInv
<1>1. IInv /\ [Next]_vars => IInv'
  BY NextStep, StutterStep
<1>. QED
  BY InitEstablishes, <1>1, PTL DEF Spec

\* The files, the cache and the calls have their types, whatever git does
\* between two file accesses of the store.
THEOREM StoreTypeCorrect == Spec => []TypeOK
<1>1. IInv => TypeOK
  BY DEF IInv
<1>. QED
  BY Invariance, <1>1, PTL

\* When fetchRefs has run, every ref that was there all the time is in the
\* cache (GITRefStore.m:223-290), for any number of refs and git operations.
THEOREM FetchMissesNoRef == Spec => []NoRefMissed
<1>1. IInv => NoRefMissed
  BY DEF IInv, Accounted, NoRefMissed, Fetched, InPacked
<1>. QED
  BY Invariance, <1>1, PTL

-----------------------------------------------------------------------------
(***************************************************************************)
(* What is cached was true: the value of a ref that is not cached yet is   *)
(* among those it was seen to have, and once its name has come up without  *)
(* a file, so is its entry in packed-refs.  For then it had no loose file, *)
(* and git writes into packed-refs only the value a loose file has.        *)
(***************************************************************************)
\* The loose pass has come past r.
Passed(r) == pc = "loose" => r \notin toScan \cup {cur}

Truthful ==
  /\ ~Fetched => \A r \in Ref : NotCached(r) => Value(r) \in seen[r]
  /\ cur # None => pc = "loose" /\ NotCached(cur)
  /\ pc = "packed" => ~fetchedPacked
  /\ (pc = "loose" \/ fetchedLoose) /\ packFile /\ ~fetchedPacked =>
       \A r \in Branch : NotCached(r) /\ packed[r] # None /\ Passed(r) => packed[r] \in seen[r]

\* What a step of git must not do to keep it: put into packed-refs what the
\* ref is not.
PacksTheValue == \A r \in Branch : packed'[r] \in {packed[r], None} \/ packed'[r] = Value(r)'

LEMMA ObservedTruth ==
  ASSUME IInv, Truthful, NEW breaks \in BOOLEAN, Observe(breaks), PacksTheValue
  PROVE  Truthful'
<1>1. /\ UNCHANGED <<packFile, cachedRefs, fetchedLoose, fetchedPacked, pc, toScan, cur>>
      /\ seen' = IF Fetched THEN seen ELSE [r \in Ref |-> seen[r] \cup {Value(r)'}]
  BY DEF Observe, cache
<1>2. (\A r \in Ref : NotCached(r)' <=> NotCached(r)) /\ (NotCached(cur)' <=> NotCached(cur))
  BY <1>1 DEF NotCached
<1>3. (Fetched' <=> Fetched) /\ \A r \in Ref : Passed(r)' <=> Passed(r)
  BY <1>1 DEF Fetched, Passed
<1>4. ~Fetched => \A r \in Ref : Value(r)' \in seen'[r] /\ seen[r] \subseteq seen'[r]
  BY <1>1
<1>5. ASSUME pc = "loose" \/ fetchedLoose, packFile, ~fetchedPacked, NEW r \in Branch,
             NotCached(r), packed'[r] # None, Passed(r)
      PROVE  packed'[r] \in seen'[r]
  <2>1. ~Fetched /\ r \in Ref
    BY <1>5, Names DEF Fetched
  <2>2. CASE packed'[r] = Value(r)'
    BY <1>4, <2>1, <2>2
  <2>3. CASE packed'[r] = packed[r]
    <3>1. packed[r] \in seen[r]
      BY <1>5, <2>3 DEF Truthful
    <3>. QED
      BY <1>4, <2>1, <2>3, <3>1
  <2>. QED
    BY <1>5, <2>2, <2>3 DEF PacksTheValue
<1>6. \A r \in Branch : (NotCached(r)' <=> NotCached(r)) /\ (Passed(r)' <=> Passed(r))
  BY <1>2, <1>3, Names
<1>. QED
  BY <1>1, <1>2, <1>3, <1>4, <1>5, <1>6 DEF Truthful

LEMMA GitTruth == IInv /\ Truthful /\ Git => Truthful'
<1>. SUFFICES ASSUME IInv, Truthful, Git PROVE Truthful'
  OBVIOUS
<1>1. ASSUME NEW breaks \in BOOLEAN, Observe(breaks), packed' = packed PROVE Truthful'
  BY <1>1, ObservedTruth DEF PacksTheValue
<1>2. CASE GitWriteLock
  BY <1>1, <1>2 DEF GitWriteLock
<1>3. ASSUME NEW r \in Branch, GitRename(r) PROVE Truthful'
  <2> DEFINE breaks == loose[r] \in Branch
  <2>1. breaks \in BOOLEAN /\ Observe(breaks) /\ packed' = packed
    BY <1>3 DEF GitRename
  <2> HIDE DEF breaks
  <2>. QED
    BY <1>1, <2>1
<1>4. ASSUME NEW r \in Branch, GitPrune(r) PROVE Truthful'
  <2>1. (~packFile) \in BOOLEAN /\ Observe(~packFile) /\ packed' = packed
    BY <1>4 DEF GitPrune
  <2>. QED
    BY <1>1, <2>1
<1>5. ASSUME NEW r \in Branch, GitUnlink(r) PROVE Truthful'
  BY <1>1, <1>5 DEF GitUnlink
<1>6. CASE GitPack
  <2>1. /\ packed' = [r \in Branch |-> IF loose[r] \in Sha THEN loose[r] ELSE packed[r]]
        /\ loose' = loose /\ Observe(~packFile) /\ (~packFile) \in BOOLEAN
    BY <1>6 DEF GitPack
  <2>2. PacksTheValue
    BY <2>1, Names DEF PacksTheValue, Value
  <2>. QED
    BY <2>1, <2>2, ObservedTruth
<1>7. ASSUME NEW r \in Branch, GitDelete(r) PROVE Truthful'
  <2>1. packed' = [packed EXCEPT ![r] = None] /\ Observe(TRUE)
    BY <1>7 DEF GitDelete
  <2>2. PacksTheValue
    BY <2>1 DEF PacksTheValue, IInv, TypeOK
  <2>. QED
    BY <2>1, <2>2, ObservedTruth
<1>8. ASSUME NEW r \in Branch, NEW v \in Sha, GitUpdate(r, v) PROVE Truthful'
  BY <1>1, <1>8 DEF GitUpdate
<1>9. ASSUME NEW v, GitCheckout(v) PROVE Truthful'
  BY <1>1, <1>9 DEF GitCheckout
<1>. QED
  BY <1>2, <1>3, <1>4, <1>5, <1>6, <1>7, <1>8, <1>9 DEF Git, GitFinishes

\* An entry made of a file has the contents of the file.
LEMMA ContentOfEntry ==
  ASSUME NEW content \in Sha \cup Branch
  PROVE  Content(EntryOf(content)) = content
  BY Names DEF Content, EntryOf

\* The steps that read: what they cache is a value the ref was seen to have.
ReadsTruly ==
  /\ Truthful'
  /\ \A r \in Ref : cachedRefs'[r] # cachedRefs[r] => Content(cachedRefs'[r]) \in seen[r]

\* A name that comes up without a file, and is not cached, is in packed-refs
\* with its value, or absent.
LEMMA ScanNameTruth ==
  ASSUME IInv, Truthful, NEW f \in File, ScanName(f)
  PROVE  ReadsTruly
<1>1. /\ UNCHANGED <<disk, git, packFile, cachedRefs, fetchedLoose, fetchedPacked, seen>>
      /\ pc = "loose" /\ pc' = "loose" /\ cur = None /\ f \in toScan /\ toScan' = toScan \ {f}
      /\ cur' = IF loose[f] # None /\ NotCached(f) THEN f ELSE None
  BY DEF ScanName, cache, observed
<1>2. (\A r \in Ref : Value(r)' = Value(r)) /\ packed' = packed
  BY <1>1, ReadingChangesNoRef DEF disk
<1>4. (\A r \in Ref : NotCached(r)' <=> NotCached(r)) /\ (Fetched' <=> Fetched)
  BY <1>1 DEF NotCached, Fetched
<1>5. ~fetchedLoose /\ ~Fetched
  BY <1>1 DEF IInv, Accounted, Fetched
<1>6. cur' # None => NotCached(cur')
  BY <1>1
<1>7. ASSUME packFile, NEW r \in Branch, NotCached(r), packed[r] # None, r \notin toScan' \cup {cur'}
      PROVE  packed[r] \in seen[r]
  <2>1. r \in Ref /\ r # HEAD /\ r # None
    BY Names
  <2>2. CASE r = f
    <3>1. loose[r] = None
      BY <1>1, <1>7, <2>2
    <3>2. Value(r) = packed[r]
      BY <1>7, <2>1, <3>1 DEF Value
    <3>. QED
      BY <1>5, <1>7, <2>1, <3>2 DEF Truthful
  <2>3. CASE r # f
    <3>1. Passed(r)
      BY <1>1, <1>7, <2>1, <2>3 DEF Passed
    <3>2. ~fetchedPacked
      BY <1>5 DEF IInv, Accounted
    <3>. QED
      BY <1>1, <1>7, <3>1, <3>2 DEF Truthful
  <2>. QED
    BY <2>2, <2>3
<1>8. \A r \in Branch : r \in Ref
  BY Names
<1>9. NotCached(cur)' <=> cachedRefs[cur'] = NoRef
  BY <1>1 DEF NotCached
<1>10. Truthful'
  BY <1>1, <1>2, <1>4, <1>5, <1>6, <1>7, <1>8, <1>9 DEF Truthful, Passed, NotCached
<1>. QED
  BY <1>1, <1>10 DEF ReadsTruly

\* What reading a file puts into the cache.
LEMMA CachedContent ==
  ASSUME IInv, NEW name \in Ref \cup {Lock}, NEW content \in Sha \cup Branch, Cache(name, content)
  PROVE  /\ cachedRefs'[name] = EntryOf(content) /\ EntryOf(content) # NoRef
         /\ \A x \in Ref \cup {Lock} : x # name => cachedRefs'[x] = cachedRefs[x]
  BY EntryOfValid DEF Cache, IInv, TypeOK

LEMMA ScanFileTruth ==
  ASSUME IInv, Truthful, ScanFile
  PROVE  ReadsTruly
<1>1. /\ UNCHANGED <<disk, git, packFile, fetchedLoose, fetchedPacked, toScan, seen>>
      /\ pc = "loose" /\ pc' = "loose" /\ cur # None /\ cur' = None
      /\ loose[cur] \notin {None, Empty} /\ Cache(cur, loose[cur])
  BY DEF ScanFile, observed
<1>2. cur \in Ref \cup {Lock} /\ loose[cur] \in Sha \cup Branch
  BY <1>1, Names DEF IInv, TypeOK, File
<1>3. /\ cachedRefs'[cur] = EntryOf(loose[cur]) /\ EntryOf(loose[cur]) # NoRef
      /\ \A x \in Ref \cup {Lock} : x # cur => cachedRefs'[x] = cachedRefs[x]
  BY <1>1, <1>2, CachedContent
<1>4. ~fetchedLoose /\ ~Fetched /\ NotCached(cur) /\ ~fetchedPacked
  BY <1>1 DEF IInv, Accounted, Fetched, Truthful
<1>5. cur \in Ref => Content(cachedRefs'[cur]) \in seen[cur]
  <2>1. cur \in Ref => Value(cur) = loose[cur]
    BY <1>1 DEF Value
  <2>2. cur \in Ref => Value(cur) \in seen[cur]
    BY <1>4 DEF Truthful
  <2>. QED
    BY <1>2, <1>3, <2>1, <2>2, ContentOfEntry
<1>6. (\A r \in Ref : Value(r)' = Value(r)) /\ packed' = packed
  BY <1>1, ReadingChangesNoRef DEF disk
<1>7. \A r \in Ref : NotCached(r)' => r # cur /\ NotCached(r)
  BY <1>3 DEF NotCached
<1>8. \A r \in Branch : r \in Ref /\ r # None
  BY Names
<1>9. Truthful'
  <2>1. ~Fetched' => \A r \in Ref : NotCached(r)' => Value(r)' \in seen'[r]
    BY <1>1, <1>4, <1>6, <1>7 DEF Truthful
  <2>2. ASSUME packFile, NEW r \in Branch, NotCached(r)', packed[r] # None, r \notin toScan
        PROVE  packed[r] \in seen[r]
    BY <1>1, <1>4, <1>7, <1>8, <2>2 DEF Truthful, Passed
  <2>3. packed' = packed /\ seen' = seen /\ toScan' = toScan /\ packFile' = packFile
    BY <1>1, <1>6
  <2>. QED
    BY <1>1, <2>1, <2>2, <2>3 DEF Truthful, Passed
<1>. QED
  BY <1>1, <1>3, <1>5, <1>9 DEF ReadsTruly

\* After the last name, every ref that is not cached has been passed.
LEMMA ScanHeadTruth ==
  ASSUME IInv, Truthful, ScanHead
  PROVE  ReadsTruly
<1>1. /\ UNCHANGED <<disk, git, packFile, fetchedPacked, toScan, cur, seen>>
      /\ pc = "loose" /\ cur = None /\ toScan = {} /\ pc' = "packed"
      /\ IF NotCached(HEAD) THEN Cache(HEAD, loose[HEAD]) ELSE UNCHANGED <<cachedRefs, symbolicRefs>>
  BY DEF ScanHead, observed, NextPass
<1>2. HEAD \in Ref \cup {Lock} /\ loose[HEAD] \in Sha \cup Branch /\ HEAD \in Ref
  BY Names DEF IInv, TypeOK
<1>3. /\ \A x \in Ref : x # HEAD => cachedRefs'[x] = cachedRefs[x]
      /\ NotCached(HEAD)' => NotCached(HEAD)
      /\ cachedRefs'[HEAD] # cachedRefs[HEAD] => NotCached(HEAD) /\ cachedRefs'[HEAD] = EntryOf(loose[HEAD])
  <2>1. CASE NotCached(HEAD)
    BY <1>1, <1>2, <2>1, CachedContent DEF NotCached
  <2>2. CASE ~NotCached(HEAD)
    BY <1>1, <2>2 DEF NotCached
  <2>. QED
    BY <2>1, <2>2
<1>4. ~fetchedLoose /\ ~Fetched /\ ~fetchedPacked
  BY <1>1 DEF IInv, Accounted, Fetched
<1>5. Value(HEAD) = loose[HEAD]
  BY DEF Value
<1>6. \A r \in Ref : cachedRefs'[r] # cachedRefs[r] => Content(cachedRefs'[r]) \in seen[r]
  BY <1>2, <1>3, <1>4, <1>5, ContentOfEntry DEF Truthful
<1>7. (\A r \in Ref : Value(r)' = Value(r)) /\ packed' = packed
  BY <1>1, ReadingChangesNoRef DEF disk
<1>8. \A r \in Ref : NotCached(r)' => NotCached(r)
  BY <1>3 DEF NotCached
<1>9. \A r \in Branch : r \in Ref /\ r # None
  BY Names
<1>10. Truthful'
  <2>1. \A r \in Ref : NotCached(r)' => Value(r)' \in seen'[r]
    BY <1>1, <1>4, <1>7, <1>8 DEF Truthful
  <2>2. ASSUME packFile, NEW r \in Branch, NotCached(r)', packed[r] # None
        PROVE  packed[r] \in seen[r]
    BY <1>1, <1>4, <1>8, <1>9, <2>2 DEF Truthful, Passed
  <2>3. packed' = packed /\ seen' = seen /\ packFile' = packFile /\ cur' = None
    BY <1>1, <1>7
  <2>. QED
    BY <1>1, <1>4, <2>1, <2>2, <2>3 DEF Truthful, Fetched
<1>. QED
  BY <1>6, <1>10 DEF ReadsTruly

\* The packed pass caches the entries of the refs that have been passed.
LEMMA FetchPackedRefsTruth ==
  ASSUME IInv, Truthful, FetchPackedRefs
  PROVE  ReadsTruly
<1>1. /\ UNCHANGED <<disk, git, packFile, fetchedLoose, toScan, cur, seen>>
      /\ pc = "packed" /\ pc' = "resolve" /\ fetchedPacked' = packFile
      /\ cachedRefs' = [r \in Ref \cup {Lock} |->
                          IF packFile /\ r \in Branch /\ packed[r] # None /\ NotCached(r)
                          THEN EntryOf(packed[r]) ELSE cachedRefs[r]]
  BY DEF FetchPackedRefs, NextPass, observed
<1>2. fetchedLoose /\ ~fetchedPacked /\ cur = None
  BY <1>1 DEF IInv, Accounted, Truthful
<1>3. Fetched'
  BY <1>1, <1>2 DEF Fetched
<1>4. Truthful'
  BY <1>1, <1>2, <1>3 DEF Truthful
<1>5. ASSUME NEW r \in Ref, cachedRefs'[r] # cachedRefs[r]
      PROVE  Content(cachedRefs'[r]) \in seen[r]
  <2>1. /\ packFile /\ r \in Branch /\ packed[r] # None /\ NotCached(r)
        /\ cachedRefs'[r] = EntryOf(packed[r])
    BY <1>1, <1>5
  <2>2. packed[r] \in Sha
    BY <2>1 DEF IInv, TypeOK
  <2>3. packed[r] \in seen[r]
    BY <1>1, <1>2, <2>1 DEF Truthful, Passed
  <2>. QED
    BY <2>1, <2>2, <2>3, ContentOfEntry
<1>. QED
  BY <1>4, <1>5 DEF ReadsTruly

LEMMA ScanFailsTruth ==
  ASSUME IInv, Truthful, ScanFails
  PROVE  ReadsTruly
<1>1. /\ UNCHANGED <<disk, git, packFile, cachedRefs, fetchedLoose, fetchedPacked, seen>>
      /\ pc = "loose" /\ pc' = "idle" /\ cur' = None
  BY DEF ScanFails, Raise, cache, observed
<1>2. (\A r \in Ref : Value(r)' = Value(r)) /\ (\A r \in Ref : NotCached(r)' <=> NotCached(r))
  BY <1>1, ReadingChangesNoRef DEF NotCached
<1>3. ~fetchedLoose' /\ (Fetched' <=> Fetched)
  BY <1>1 DEF IInv, Accounted, Fetched
<1>4. Truthful'
  BY <1>1, <1>2, <1>3 DEF Truthful
<1>. QED
  BY <1>1, <1>4 DEF ReadsTruly

\* The steps outside the two passes.
LEMMA BeginTruth == IInv /\ Truthful /\ Begin => Truthful'
<1>. SUFFICES ASSUME IInv, Truthful, Begin PROVE Truthful'
  OBVIOUS
<1>1. /\ UNCHANGED <<disk, git, packFile, cachedRefs, fetchedLoose, fetchedPacked, cur, seen>>
      /\ pc = "idle" /\ pc' = NextPass("idle")
      /\ toScan' = (IF fetchedLoose THEN {} ELSE File)
  BY DEF Begin, cache, Idle
<1>2. (\A r \in Ref : Value(r)' = Value(r)) /\ (\A r \in Ref : NotCached(r)' <=> NotCached(r))
  BY <1>1, ReadingChangesNoRef DEF NotCached
<1>3. /\ pc' = "packed" => fetchedLoose /\ ~fetchedPacked
      /\ pc' = "loose" => ~fetchedLoose
      /\ cur = None /\ (Fetched' <=> Fetched)
  BY <1>1 DEF NextPass, Fetched, Truthful
<1>4. ASSUME NEW r \in Branch, Passed(r)', pc' = "loose" \/ fetchedLoose
      PROVE  fetchedLoose /\ Passed(r)
  BY <1>1, <1>3, <1>4 DEF Passed, File
<1>5. \A r \in Branch : (NotCached(r)' <=> NotCached(r)) /\ packed'[r] = packed[r]
  BY <1>1, <1>2, Names DEF disk
<1>. QED
  BY <1>1, <1>2, <1>3, <1>4, <1>5 DEF Truthful

LEMMA OtherTruth ==
  ASSUME IInv, Truthful, ResolveLast \/ Resolved \/ Answer
  PROVE  Truthful'
<1>1. Fetched /\ UNCHANGED <<packFile, fetchedLoose, fetchedPacked>> /\ pc \in {"resolve", "answer"}
  BY DEF ResolveLast, Resolved, Answer, cache, IInv, Accounted
<1>2. Fetched' /\ (packFile' => fetchedPacked')
  BY <1>1 DEF Fetched
<1>3. cur' = None /\ pc' # "packed" /\ pc' # "loose"
  BY <1>1 DEF ResolveLast, Resolved, Answer, Raise, Truthful
<1>. QED
  BY <1>2, <1>3 DEF Truthful

\* A ref written is cached.
LEMMA WriteTruth ==
  ASSUME IInv, Truthful, NEW r \in Ref, NEW sha \in Sha, WriteRef(r, sha)
  PROVE  Truthful'
<1>1. /\ UNCHANGED <<packed, packFile, fetchedLoose, fetchedPacked, cur, seen, pc>>
      /\ pc = "idle" /\ loose' = [loose EXCEPT ![r] = sha]
      /\ cachedRefs' = [cachedRefs EXCEPT ![r] = EntryOf(sha)]
  BY DEF WriteRef, Write, observed, Idle
<1>2. ASSUME NEW q \in Ref, NotCached(q)'
      PROVE  q # r /\ NotCached(q) /\ Value(q)' = Value(q)
  <2>1. q # r /\ NotCached(q)
    BY <1>1, <1>2, EntryOfValid DEF NotCached, IInv, TypeOK
  <2>2. loose'[q] = loose[q]
    BY <1>1, <2>1 DEF IInv, TypeOK
  <2>. QED
    BY <1>1, <2>1, <2>2 DEF Value
<1>3. cur = None /\ (Fetched' <=> Fetched)
  BY <1>1 DEF Fetched, Truthful
<1>4. ~Fetched' => \A q \in Ref : NotCached(q)' => Value(q)' \in seen'[q]
  BY <1>1, <1>2, <1>3 DEF Truthful
<1>5. ASSUME fetchedLoose, packFile, ~fetchedPacked, NEW q \in Branch, NotCached(q)', packed[q] # None
      PROVE  packed[q] \in seen[q]
  BY <1>1, <1>2, <1>5, Names DEF Truthful, Passed
<1>6. packed' = packed /\ seen' = seen /\ pc' = "idle" /\ cur' = None
  BY <1>1, <1>3
<1>. QED
  BY <1>1, <1>4, <1>5, <1>6 DEF Truthful

LEMMA InvalidateTruth ==
  ASSUME IInv, Truthful, InvalidateCachedRefs
  PROVE  Truthful'
<1>1. /\ UNCHANGED <<disk, git, packFile, pc, cur>>
      /\ pc = "idle" /\ fetchedLoose' = FALSE /\ fetchedPacked' = FALSE
      /\ seen' = [r \in Ref |-> {Value(r)}]
  BY DEF InvalidateCachedRefs, Idle
<1>2. \A r \in Ref : Value(r)' \in seen'[r]
  BY <1>1, ReadingChangesNoRef
<1>. QED
  BY <1>1, <1>2 DEF Truthful

LEMMA StutterTruth == Truthful /\ UNCHANGED vars => Truthful'
<1>. SUFFICES ASSUME Truthful, UNCHANGED vars PROVE Truthful'
  OBVIOUS
<1>1. UNCHANGED <<disk, git, packFile, cachedRefs, fetchedLoose, fetchedPacked, pc, toScan, cur, seen>>
  BY DEF vars, cache, observed
<1>2. (\A r \in Ref : Value(r)' = Value(r)) /\ packed' = packed
  BY <1>1, ReadingChangesNoRef DEF disk
<1>. QED
  BY <1>1, <1>2 DEF Truthful, Passed, NotCached, Fetched

LEMMA TruthStep ==
  ASSUME IInv, Truthful, [Next]_vars
  PROVE  /\ Truthful'
         /\ (pc = "loose" \/ pc = "packed") =>
              \A r \in Ref : cachedRefs'[r] # cachedRefs[r] => Content(cachedRefs'[r]) \in seen[r]
<1>1. CASE Git
  <2>1. cachedRefs' = cachedRefs
    BY <1>1 DEF Git, GitFinishes, GitWriteLock, GitRename, GitPrune, GitUnlink, GitPack, GitDelete,
                GitUpdate, GitCheckout, Observe, cache
  <2>. QED
    BY <1>1, <2>1, GitTruth
<1>2. CASE Calls
  <2>1. pc = "idle"
    BY <1>2 DEF Calls, Begin, WriteRef, InvalidateCachedRefs, Idle
  <2>. QED
    BY <1>2, <2>1, BeginTruth, WriteTruth, InvalidateTruth DEF Calls
<1>3. CASE ResolveLast \/ Resolved \/ Answer
  <2>1. pc \in {"resolve", "answer"}
    BY <1>3 DEF ResolveLast, Resolved, Answer
  <2>. QED
    BY <1>3, <2>1, OtherTruth
<1>4. CASE (\E f \in File : ScanName(f)) \/ ScanFile \/ ScanFails \/ ScanHead \/ FetchPackedRefs
  <2>1. ReadsTruly
    BY <1>4, ScanNameTruth, ScanFileTruth, ScanFailsTruth, ScanHeadTruth, FetchPackedRefsTruth
  <2>. QED
    BY <2>1 DEF ReadsTruly
<1>5. CASE UNCHANGED vars
  <2>1. cachedRefs' = cachedRefs
    BY <1>5 DEF vars, cache
  <2>. QED
    BY <1>5, <2>1, StutterTruth
<1>. QED
  BY <1>1, <1>2, <1>3, <1>4, <1>5 DEF Next, Run

\* What a fetch caches of a ref is a value the ref had while the cache was
\* filled, for any number of refs and of git operations between two reads:
\* no old packed value that a loose file hid all the time (244 and 280).
THEOREM CachesWhatWasTrue == Spec => CachedWasTrue
<1>1. Init => Truthful
  BY DEF Init, Truthful, Fetched
<1>2. IInv /\ Truthful /\ [Next]_vars => Truthful'
  BY TruthStep
<1>3. IInv /\ Truthful /\ [Next]_vars =>
        [(pc = "loose" \/ pc = "packed") =>
           \A r \in Ref : cachedRefs'[r] # cachedRefs[r] => Content(cachedRefs'[r]) \in seen[r]]_vars
  BY TruthStep
<1>. QED
  BY <1>1, <1>2, <1>3, Invariance, PTL DEF Spec, CachedWasTrue

-----------------------------------------------------------------------------
(***************************************************************************)
(* When the assertion on symbolic refs fails.  As long as no link was      *)
(* broken, what a link names, on disk, in the cache or among the links to  *)
(* resolve, is a ref with a value; so the passes find it, as they find the *)
(* refs that are held.  Once all are cached, a chain of links, which is    *)
(* finite, ends in a sha.                                                  *)
(***************************************************************************)
\* The cache is not complete, or a fetch has not come to its end.
Filling == pc \in {"loose", "packed", "resolve"} \/ ~Fetched

\* What is named by a link.
Linked ==
  {b \in Branch :
    \/ \E r \in Ref : loose[r] = b
    \/ \E r \in Ref \cup {Lock} : cachedRefs[r].link = b
    \/ \E l \in ToSet(symbolicRefs) : l.link = b}

\* The passes have found it, or will.
Kept(b) ==
  /\ pc = "loose" => ~NotCached(b) \/ b \in toScan \cup {cur} \/ InPacked(b)
  /\ pc = "packed" => ~NotCached(b) \/ InPacked(b)
  /\ pc = "resolve" => ~NotCached(b)

\* Only links that may be made are made, and every other entry has a sha.
KnownLinks ==
  /\ \A r \in Ref : loose[r] \in Branch => <<r, loose[r]>> \in Links
  /\ \A r \in Ref \cup {Lock} :
       /\ cachedRefs[r].link # None => <<r, cachedRefs[r].link>> \in Links
       /\ ~NotCached(r) /\ cachedRefs[r].link = None => cachedRefs[r].sha \in Sha
  /\ loose[Lock] \notin Branch /\ (git.op = "update" => git.value \in Sha)

LinksHold ==
  /\ \A b \in Linked : Value(b) # None /\ Kept(b)
  /\ NotCached(HEAD) => loose[HEAD] \in Branch
  /\ \A l \in ToSet(symbolicRefs) : l.link \in Branch

LinkInv ==
  /\ KnownLinks
  /\ pc # "idle" => ~asserted
  /\ fetchedLoose => Fetched \/ pc = "packed"
  /\ Filling /\ ~disturbed => LinksHold

\* The sha a link leads to, step by step (Target is defined by recursion).
LEMMA TargetSteps ==
  ASSUME TypeOK, KnownLinks
  PROVE  \A r \in Ref : Target[r] = IF Value(r) \in Branch THEN Target[Value(r)] ELSE Value(r)
<1> DEFINE v == [r \in Ref |-> Value(r)]
           m == Cardinality(Ref)
<1>1. PICK rank \in [Ref -> 0..m] : \A l \in Links : rank[l[2]] < rank[l[1]]
  BY RefAssumption
<1>2. m \in Nat
  BY RefAssumption, FS_CardinalityType
<1>3. \A r \in Ref : v[r] \in Branch => rank[v[r]] < rank[r]
  <2>. SUFFICES ASSUME NEW r \in Ref, Value(r) \in Branch PROVE rank[Value(r)] < rank[r]
    OBVIOUS
  <2>1. Value(r) = loose[r]
    BY Names DEF Value, TypeOK, Ref
  <2>2. <<r, loose[r]>> \in Links
    BY <2>1 DEF KnownLinks
  <2>3. rank[<<r, loose[r]>>[2]] < rank[<<r, loose[r]>>[1]]
    BY <1>1, <2>2
  <2>. QED
    BY <2>1, <2>3
<1>4. Branch \in SUBSET Ref
  BY DEF Ref
<1> HIDE DEF v, m
<1>5. \E f : f = [r \in Ref |-> IF v[r] \in Branch THEN f[v[r]] ELSE v[r]]
  <2>1. Descending(Ref, Branch, m, rank, v)
    BY <1>1, <1>2, <1>3, <1>4 DEF Descending
  <2>. QED
    BY <2>1, ChainRecursion DEF FollowsChain
<1>6. \E f : f = [r \in Ref |-> IF Value(r) \in Branch THEN f[Value(r)] ELSE Value(r)]
  BY <1>5 DEF v
<1>7. Target = [r \in Ref |-> IF Value(r) \in Branch THEN Target[Value(r)] ELSE Value(r)]
  BY <1>6 DEF Target
<1>. QED
  BY <1>7

\* Where no link is broken, what a link names has a value.
LEMMA UnbrokenLinks ==
  ASSUME TypeOK, KnownLinks, ~Broken
  PROVE  /\ loose[HEAD] \in Branch
         /\ \A r \in Ref : loose[r] \in Branch => Value(loose[r]) # None
<1>1. loose[HEAD] \in Branch
  BY DEF Broken, Value
<1>2. ASSUME NEW r \in Ref, loose[r] \in Branch, Value(loose[r]) = None PROVE FALSE
  <2>1. Value(r) = loose[r] /\ loose[r] \in Ref
    BY <1>2, Names DEF Value
  <2>2. Target[r] \in Sha
    BY <1>2, <2>1 DEF Broken
  <2>3. Target[r] = Target[loose[r]]
    BY <1>2, <2>1, TargetSteps
  <2>4. Target[loose[r]] = None
    BY <1>2, <2>1, Names, TargetSteps
  <2>. QED
    BY <2>2, <2>3, <2>4, Names
<1>. QED
  BY <1>1, <1>2

\* When everything that is named is cached, the chain from it ends in a sha.
LEMMA ChainsEnd ==
  ASSUME TypeOK, KnownLinks, \A b \in Linked : ~NotCached(b)
  PROVE  \A b \in Linked : Follow[b] \in Sha
<1> DEFINE next == [r \in Branch |-> cachedRefs[r].link]
           own == [r \in Branch |-> cachedRefs[r].sha]
           m == Cardinality(Ref)
<1>1. PICK rank \in [Ref -> 0..m] : \A l \in Links : rank[l[2]] < rank[l[1]]
  BY RefAssumption
<1>2. m \in Nat
  BY RefAssumption, FS_CardinalityType
<1>3. \A r \in Branch : r \in Ref /\ cachedRefs[r] \in Entry /\ cachedRefs[r].link \in Branch \cup {None}
  BY Names DEF TypeOK, Entry
<1>4. \A r \in Branch : cachedRefs[r].link # None =>
        cachedRefs[r].link \in Branch /\ rank[cachedRefs[r].link] < rank[r]
  <2>. SUFFICES ASSUME NEW r \in Branch, cachedRefs[r].link # None
                PROVE  cachedRefs[r].link \in Branch /\ rank[cachedRefs[r].link] < rank[r]
    OBVIOUS
  <2>1. <<r, cachedRefs[r].link>> \in Links
    BY <1>3 DEF KnownLinks
  <2>2. rank[<<r, cachedRefs[r].link>>[2]] < rank[<<r, cachedRefs[r].link>>[1]]
    BY <1>1, <2>1
  <2>. QED
    BY <1>3, <2>2
<1> DEFINE rk == [r \in Branch |-> rank[r]]
<1>5. rk \in [Branch -> 0..m] /\ \A r \in Branch : next[r] \in Branch => rk[next[r]] < rk[r]
  BY <1>1, <1>3, <1>4, Names
<1> HIDE DEF next, own, m, rk
<1>6. \E f : f = [r \in Branch |-> IF next[r] \in Branch THEN f[next[r]] ELSE own[r]]
  <2>1. Descending(Branch, Branch, m, rk, next)
    BY <1>2, <1>5 DEF Descending
  <2>. QED
    BY <2>1, ChainRecursion DEF FollowsChain
<1>7. \A r \in Branch : (next[r] \in Branch <=> cachedRefs[r].link # None)
                        /\ next[r] = cachedRefs[r].link /\ own[r] = cachedRefs[r].sha
  BY <1>3, Names DEF next, own
<1>8. \E f : f = [r \in Branch |->
               IF cachedRefs[r].link # None THEN f[cachedRefs[r].link] ELSE cachedRefs[r].sha]
  <2>1. PICK f : f = [r \in Branch |-> IF next[r] \in Branch THEN f[next[r]] ELSE own[r]]
    BY <1>6
  <2>2. f = [r \in Branch |->
               IF cachedRefs[r].link # None THEN f[cachedRefs[r].link] ELSE cachedRefs[r].sha]
    BY <1>7, <2>1
  <2>. QED
    BY <2>2
<1>9. Follow = [r \in Branch |->
               IF cachedRefs[r].link # None THEN Follow[cachedRefs[r].link] ELSE cachedRefs[r].sha]
  BY <1>8 DEF Follow
<1>10. \A b \in Branch : Follow[b] =
         IF cachedRefs[b].link # None THEN Follow[cachedRefs[b].link] ELSE cachedRefs[b].sha
  BY <1>9
<1> DEFINE D == {n \in Nat : \A b \in Linked : rk[b] <= n => Follow[b] \in Sha}
<1>11. \A b \in Linked : b \in Branch /\ rk[b] \in 0..m /\ (cachedRefs[b].link # None => cachedRefs[b].link \in Linked)
  <2>. SUFFICES ASSUME NEW b \in Linked
                PROVE  /\ b \in Branch /\ rk[b] \in 0..m
                       /\ cachedRefs[b].link # None => cachedRefs[b].link \in Linked
    OBVIOUS
  <2>1. b \in Branch
    BY DEF Linked
  <2>2. cachedRefs[b].link # None => cachedRefs[b].link \in Linked
    BY <1>3, <1>4, <2>1 DEF Linked
  <2>. QED
    BY <1>5, <2>1, <2>2
<1>12. \A b \in Linked : cachedRefs[b].link = None => Follow[b] \in Sha
  BY <1>3, <1>10, <1>11 DEF KnownLinks
<1>13. ASSUME NEW n \in Nat, \A c \in Linked : rk[c] < n => Follow[c] \in Sha,
              NEW b \in Linked, rk[b] <= n
       PROVE  Follow[b] \in Sha
  <2>1. CASE cachedRefs[b].link = None
    BY <1>12, <2>1
  <2>2. CASE cachedRefs[b].link # None
    <3> DEFINE c == cachedRefs[b].link
    <3>1. c \in Linked /\ rk[c] \in 0..m /\ rk[b] \in 0..m /\ rk[c] < rk[b]
      <4>1. c \in Linked /\ c \in Branch /\ b \in Branch
        BY <1>11, <2>2
      <4>2. rk[c] < rk[b]
        BY <1>5, <1>7, <4>1
      <4>. QED
        BY <1>11, <4>1, <4>2
    <3>2. rk[c] < n
      BY <1>2, <1>13, <3>1
    <3>3. Follow[b] = Follow[c]
      BY <1>10, <1>11, <2>2
    <3> HIDE DEF c
    <3>. QED
      BY <1>13, <3>1, <3>2, <3>3
  <2>. QED
    BY <2>1, <2>2
<1>14. 0 \in D
  <2>1. \A c \in Linked : ~(rk[c] < 0)
    BY <1>2, <1>11
  <2>. QED
    BY <1>13, <2>1
<1>15. ASSUME NEW n \in Nat, n \in D PROVE n + 1 \in D
  <2>1. \A c \in Linked : rk[c] < n + 1 => Follow[c] \in Sha
    BY <1>2, <1>11, <1>15
  <2>2. n + 1 \in Nat
    OBVIOUS
  <2>3. \A b \in Linked : rk[b] <= n + 1 => Follow[b] \in Sha
    BY <1>13, <2>1, <2>2
  <2>. QED
    BY <2>2, <2>3
<1>16. m \in D
  <2> HIDE DEF D
  <2>1. \A n \in Nat : n \in D => n + 1 \in D
    BY <1>15
  <2>. QED
    BY <1>2, <1>14, <2>1, NatSetInduction
<1>. QED
  BY <1>2, <1>11, <1>16

-----------------------------------------------------------------------------
\* What is left to show of a step of git: it makes no link but HEAD's, and that
\* breaks; and unless links break, what has a value keeps one, and an entry in
\* packed-refs.
SparesLinks(breaks) ==
  /\ \A r \in Ref : loose'[r] \in Branch =>
       loose'[r] = loose[r] \/ (breaks /\ <<r, loose'[r]>> \in Links)
  /\ loose'[Lock] \notin Branch
  /\ git'.op = "update" => git'.value \in Sha
  /\ ~breaks =>
       /\ loose'[HEAD] = loose[HEAD]
       /\ \A b \in Branch : Value(b) # None => Value(b)' # None
       /\ \A b \in Branch : InPacked(b) => packed'[b] # None

LEMMA ObservedLinks ==
  ASSUME IInv, LinkInv, NEW breaks \in BOOLEAN, Observe(breaks), SparesLinks(breaks)
  PROVE  LinkInv'
<1>1. /\ UNCHANGED <<packFile, cachedRefs, symbolicRefs, fetchedLoose, fetchedPacked, pc,
                     toScan, cur, asserted>>
      /\ disturbed' = (disturbed \/ breaks)
  BY DEF Observe, cache
<1>2. /\ (Fetched' <=> Fetched) /\ (Filling' <=> Filling)
      /\ \A r : NotCached(r)' <=> NotCached(r)
  BY <1>1 DEF Fetched, Filling, NotCached
<1>3. KnownLinks'
  <2>1. \A r \in Ref : loose'[r] \in Branch => <<r, loose'[r]>> \in Links
    BY DEF SparesLinks, LinkInv, KnownLinks
  <2>2. \A r \in Ref \cup {Lock} :
          /\ cachedRefs'[r].link # None => <<r, cachedRefs'[r].link>> \in Links
          /\ ~NotCached(r)' /\ cachedRefs'[r].link = None => cachedRefs'[r].sha \in Sha
    BY <1>1, <1>2 DEF LinkInv, KnownLinks
  <2>. QED
    BY <2>1, <2>2 DEF KnownLinks, SparesLinks
<1>4. ASSUME Filling, ~disturbed, ~breaks PROVE LinksHold'
  <2>1. LinksHold
    BY <1>4 DEF LinkInv
  <2>2. \A b \in Linked' : b \in Branch /\ b \in Linked
    BY <1>1, <1>4 DEF Linked, SparesLinks
  <2>3. \A b \in Linked' : InPacked(b) => InPacked(b)'
    BY <1>1, <1>4, <2>2 DEF InPacked, SparesLinks
  <2>4. ASSUME NEW b \in Linked' PROVE Kept(b)'
    <3>1. Kept(b) /\ (InPacked(b) => InPacked(b)') /\ (NotCached(b)' <=> NotCached(b))
      BY <1>2, <2>1, <2>2, <2>3, <2>4 DEF LinksHold
    <3>. QED
      BY <1>1, <3>1 DEF Kept
  <2>5. \A b \in Linked' : Value(b)' # None
    BY <1>4, <2>1, <2>2 DEF LinksHold, SparesLinks
  <2>6. NotCached(HEAD)' => loose'[HEAD] \in Branch
    BY <1>2, <1>4, <2>1 DEF LinksHold, SparesLinks
  <2>7. \A l \in ToSet(symbolicRefs)' : l.link \in Branch
    BY <1>1, <2>1 DEF LinksHold
  <2>. QED
    BY <2>4, <2>5, <2>6, <2>7 DEF LinksHold
<1>. QED
  BY <1>1, <1>2, <1>3, <1>4 DEF LinkInv

LEMMA GitLinks == IInv /\ LinkInv /\ Git => LinkInv'
<1>. SUFFICES ASSUME IInv, LinkInv, Git PROVE LinkInv'
  OBVIOUS
<1>1. TypeOK /\ KnownLinks
  BY DEF IInv, LinkInv
<1>2. \A b \in Branch : b \in Ref /\ b # HEAD /\ b # Lock /\ b # None
  BY Names
<1>3. /\ loose \in [Ref \cup {Lock} -> Sha \cup Branch \cup {None, Empty}]
      /\ packed \in [Branch -> Sha \cup {None}] /\ packFile \in BOOLEAN
      /\ loose[Lock] \notin Branch /\ (git.op = "update" => git.value \in Sha)
      /\ HEAD \in Ref /\ Lock \notin Ref /\ \A s \in Sha : s \notin Branch /\ s # None
      /\ None \notin Branch /\ Empty \notin Branch
  BY <1>1, Names DEF TypeOK, KnownLinks, Ref
<1>4. ASSUME GitWriteLock PROVE LinkInv'
  <2>1. /\ loose' = [loose EXCEPT ![Lock] = git.value] /\ packed' = packed /\ git' = git
        /\ git.value \in Sha /\ packFile' = packFile /\ Observe(FALSE)
    BY <1>3, <1>4 DEF GitWriteLock, Observe
  <2>2. SparesLinks(FALSE)
    BY <1>2, <1>3, <2>1 DEF SparesLinks, Value, InPacked
  <2>. QED
    BY <2>1, <2>2, ObservedLinks
<1>5. ASSUME NEW r \in Branch, GitRename(r) PROVE LinkInv'
  <2> DEFINE breaks == loose[r] \in Branch
  <2>1. /\ loose' = [loose EXCEPT ![r] = git.value, ![Lock] = None] /\ packed' = packed
        /\ git' = GitIdle /\ git.value \in Sha /\ packFile' = packFile /\ Observe(breaks)
    BY <1>3, <1>5 DEF GitRename, Observe
  <2>2. git'.op = "none"
    BY <2>1 DEF GitIdle, Doing
  <2>3. breaks \in BOOLEAN
    OBVIOUS
  <2>4. loose'[Lock] = None /\ \A q \in Ref : loose'[q] = IF q = r THEN git.value ELSE loose[q]
    BY <1>2, <1>3, <2>1
  <2>5. \A b \in Branch : Value(b) # None => Value(b)' # None
    BY <1>2, <1>3, <2>1, <2>4 DEF Value
  <2> HIDE DEF breaks
  <2>6. SparesLinks(breaks)
    BY <1>2, <1>3, <2>1, <2>2, <2>4, <2>5 DEF SparesLinks, InPacked
  <2>. QED
    BY <2>1, <2>3, <2>6, ObservedLinks
<1>6. ASSUME NEW r \in Branch, GitPrune(r) PROVE LinkInv'
  <2> DEFINE breaks == ~packFile
  <2>1. /\ loose' = [loose EXCEPT ![r] = IF @ = packed[r] THEN None ELSE @]
        /\ git' = IF git.refs = {r} THEN GitIdle ELSE [git EXCEPT !.refs = @ \ {r}]
        /\ git.op = "prune" /\ packed' = packed /\ packFile' = packFile /\ Observe(breaks)
    BY <1>6 DEF GitPrune, Observe
  <2>2. git'.op # "update"
    BY <1>1, <2>1 DEF TypeOK, GitIdle, Doing
  <2>3. breaks \in BOOLEAN
    OBVIOUS
  <2>4. \A q \in Ref \cup {Lock} :
          loose'[q] = IF q = r /\ loose[r] = packed[r] THEN None ELSE loose[q]
    BY <1>2, <1>3, <2>1
  <2>5. packFile => \A b \in Branch : Value(b) # None => Value(b)' # None
    BY <1>2, <1>3, <2>1, <2>4 DEF Value
  <2>6. SparesLinks(breaks)
    BY <1>2, <1>3, <2>1, <2>2, <2>4, <2>5 DEF SparesLinks, InPacked
  <2> HIDE DEF breaks
  <2>. QED
    BY <2>1, <2>3, <2>6, ObservedLinks
<1>7. ASSUME NEW r \in Branch, GitUnlink(r) PROVE LinkInv'
  <2>1. loose' = [loose EXCEPT ![r] = None] /\ git' = GitIdle /\ Observe(TRUE)
    BY <1>7 DEF GitUnlink
  <2>2. SparesLinks(TRUE)
    BY <1>2, <1>3, <2>1 DEF SparesLinks, GitIdle, Doing
  <2>. QED
    BY <2>1, <2>2, ObservedLinks
<1>8. ASSUME GitPack PROVE LinkInv'
  <2> DEFINE breaks == ~packFile
  <2>1. /\ packed' = [r \in Branch |-> IF loose[r] \in Sha THEN loose[r] ELSE packed[r]]
        /\ loose' = loose /\ packFile' = packFile /\ Observe(breaks)
        /\ git' = Doing("prune", {r \in Branch : loose[r] \in Sha})
    BY <1>8 DEF GitPack, GitBegins, Observe
  <2>2. breaks \in BOOLEAN
    OBVIOUS
  <2>3. \A b \in Branch : Value(b) # None => Value(b)' # None
    BY <1>2, <1>3, <2>1 DEF Value
  <2>4. SparesLinks(breaks)
    BY <1>3, <2>1, <2>3 DEF SparesLinks, InPacked, Doing
  <2> HIDE DEF breaks
  <2>. QED
    BY <2>1, <2>2, <2>4, ObservedLinks
<1>9. ASSUME NEW r \in Branch, GitDelete(r) PROVE LinkInv'
  <2>1. loose' = loose /\ git' = Doing("delete", {r}) /\ Observe(TRUE)
    BY <1>9 DEF GitDelete, GitBegins
  <2>2. SparesLinks(TRUE)
    BY <1>3, <2>1 DEF SparesLinks, Doing
  <2>. QED
    BY <2>1, <2>2, ObservedLinks
<1>10. ASSUME NEW r \in Branch, NEW v \in Sha, GitUpdate(r, v) PROVE LinkInv'
  <2>1. /\ loose' = [loose EXCEPT ![Lock] = Empty] /\ packed' = packed /\ packFile' = packFile
        /\ git' = [op |-> "update", refs |-> {r}, value |-> v] /\ Observe(FALSE)
    BY <1>10 DEF GitUpdate, GitBegins, Observe
  <2>2. SparesLinks(FALSE)
    BY <1>2, <1>3, <2>1 DEF SparesLinks, Value, InPacked
  <2>. QED
    BY <2>1, <2>2, ObservedLinks
<1>11. ASSUME NEW v \in Sha \cup {l[2] : l \in {m \in Links : m[1] = HEAD}}, GitCheckout(v)
       PROVE  LinkInv'
  <2>1. loose' = [loose EXCEPT ![HEAD] = v] /\ git' = GitIdle /\ Observe(TRUE)
    BY <1>11 DEF GitCheckout, GitBegins
  <2>2. v \in Branch => <<HEAD, v>> \in Links
    <3>1. \A l \in Links : l = <<l[1], l[2]>>
      BY Names
    <3>. QED
      BY <1>3, <1>11, <3>1
  <2>3. SparesLinks(TRUE)
    BY <1>3, <2>1, <2>2 DEF SparesLinks, GitIdle, Doing
  <2>. QED
    BY <2>1, <2>3, ObservedLinks
<1>. QED
  BY <1>4, <1>5, <1>6, <1>7, <1>8, <1>9, <1>10, <1>11 DEF Git, GitFinishes

-----------------------------------------------------------------------------
\* Caching the contents of a file makes no new name linked.
LEMMA CacheLinks ==
  ASSUME IInv, KnownLinks, UNCHANGED <<disk, git>>,
         NEW name \in Ref \cup {Lock}, loose[name] \in Sha \cup Branch, Cache(name, loose[name])
  PROVE  /\ KnownLinks' /\ Linked' \subseteq Linked /\ cachedRefs'[name] # NoRef
         /\ \A r \in Ref \cup {Lock} : r # name => cachedRefs'[r] = cachedRefs[r]
         /\ \A l \in ToSet(symbolicRefs)' :
              l \in ToSet(symbolicRefs)
              \/ (l.link = EntryOf(loose[name]).link /\ (loose[name] \in Branch \/ name = HEAD))
<1> DEFINE L == [name : Ref \cup {Lock}, link : Branch \cup {None}]
           e == EntryOf(loose[name])
           new == [name |-> name, link |-> e.link]
<1>1. /\ loose' = loose /\ git' = git
      /\ cachedRefs \in [Ref \cup {Lock} -> Entry] /\ symbolicRefs \in Seq(L)
      /\ cachedRefs' = [cachedRefs EXCEPT ![name] = e]
      /\ symbolicRefs' = IF loose[name] \in Branch \/ name = HEAD THEN Append(symbolicRefs, new)
                         ELSE symbolicRefs
  BY DEF IInv, TypeOK, disk, Cache
<1>2. e \in Entry /\ e # NoRef
  BY EntryOfValid
<1>3. /\ loose[name] \in Branch => e.link = loose[name]
      /\ loose[name] \notin Branch => e.link = None /\ e.sha = loose[name] /\ loose[name] \in Sha
      /\ None \notin Branch
  BY Names DEF EntryOf
<1>4. loose[name] \in Branch => name \in Ref /\ <<name, loose[name]>> \in Links
  BY DEF KnownLinks
<1> HIDE DEF e
<1>5. /\ cachedRefs'[name] = e
      /\ \A r \in Ref \cup {Lock} : r # name => cachedRefs'[r] = cachedRefs[r]
  BY <1>1
<1>6. KnownLinks'
  <2>1. \A r \in Ref \cup {Lock} :
          /\ cachedRefs'[r].link # None => <<r, cachedRefs'[r].link>> \in Links
          /\ cachedRefs'[r] # NoRef /\ cachedRefs'[r].link = None => cachedRefs'[r].sha \in Sha
    <3>. SUFFICES ASSUME NEW r \in Ref \cup {Lock}
                  PROVE  /\ cachedRefs'[r].link # None => <<r, cachedRefs'[r].link>> \in Links
                         /\ cachedRefs'[r] # NoRef /\ cachedRefs'[r].link = None =>
                              cachedRefs'[r].sha \in Sha
      OBVIOUS
    <3>1. CASE r = name
      BY <1>3, <1>4, <1>5, <3>1
    <3>2. CASE r # name
      BY <1>5, <3>2 DEF KnownLinks, NotCached
    <3>. QED
      BY <3>1, <3>2
  <2>. QED
    BY <1>1, <2>1 DEF KnownLinks, NotCached
<1>7. new \in L
  BY <1>2 DEF Entry
<1>8. \A l \in ToSet(symbolicRefs)' :
        l \in ToSet(symbolicRefs)
        \/ (l.link = e.link /\ (loose[name] \in Branch \/ name = HEAD))
  <2>1. new.link = e.link
    OBVIOUS
  <2> HIDE DEF L, new
  <2>2. ToSet(Append(symbolicRefs, new)) = ToSet(symbolicRefs) \cup {new}
    BY <1>1, <1>7, AppendElements
  <2>3. ToSet(symbolicRefs)' = ToSet(symbolicRefs')
    OBVIOUS
  <2>. QED
    BY <1>1, <2>1, <2>2, <2>3
<1>9. Linked' \subseteq Linked
  <2>. SUFFICES ASSUME NEW b \in Linked' PROVE b \in Linked
    OBVIOUS
  <2>0. b \in Branch /\ b # None
    BY <1>3 DEF Linked
  <2>1. CASE b = e.link
    BY <1>3, <1>4, <2>0, <2>1 DEF Linked
  <2>2. CASE b # e.link
    <3>1. \/ \E r \in Ref : loose[r] = b
          \/ \E r \in Ref \cup {Lock} : cachedRefs'[r].link = b
          \/ \E l \in ToSet(symbolicRefs)' : l.link = b
      BY <1>1 DEF Linked
    <3>. QED
      BY <1>5, <1>8, <2>0, <2>2, <3>1 DEF Linked
  <2>. QED
    BY <2>1, <2>2
<1>. QED
  BY <1>2, <1>5, <1>6, <1>8, <1>9 DEF e

\* Steps that leave the files alone.
LEMMA NothingWritten ==
  ASSUME UNCHANGED <<disk, git, packFile, disturbed>>
  PROVE  /\ loose' = loose /\ packed' = packed /\ packFile' = packFile /\ disturbed' = disturbed
         /\ \A r : Value(r)' = Value(r)
         /\ \A r : InPacked(r)' <=> InPacked(r)
  BY DEF disk, Value, InPacked

LEMMA ScanNameLinks ==
  ASSUME IInv, LinkInv, NEW f \in File, ScanName(f)
  PROVE  LinkInv'
<1>1. /\ UNCHANGED <<disk, git, packFile, disturbed, cachedRefs, symbolicRefs, fetchedLoose,
                     fetchedPacked, asserted>>
      /\ pc = "loose" /\ pc' = "loose" /\ cur = None /\ f \in toScan /\ toScan' = toScan \ {f}
      /\ cur' = IF loose[f] # None /\ NotCached(f) THEN f ELSE None
  BY DEF ScanName, cache, observed
<1>2. /\ loose' = loose /\ disturbed' = disturbed
      /\ (\A r : Value(r)' = Value(r)) /\ \A r : InPacked(r)' <=> InPacked(r)
  BY <1>1, NothingWritten
<1>3. KnownLinks'
  BY <1>1, <1>2 DEF LinkInv, KnownLinks, NotCached
<1>4. Linked' = Linked /\ (\A r : NotCached(r)' <=> NotCached(r))
  BY <1>1, <1>2 DEF Linked, NotCached
<1>5. (Fetched' <=> Fetched) /\ Filling
  BY <1>1 DEF Fetched, Filling
<1>6. ASSUME ~disturbed PROVE LinksHold'
  <2>1. LinksHold
    BY <1>5, <1>6 DEF LinkInv
  <2>2. ASSUME NEW b \in Linked PROVE Kept(b)'
    <3>1. b \in Branch /\ b # None /\ b # HEAD /\ Value(b) # None /\ Kept(b)
      BY <2>1, <2>2, Names DEF Linked, LinksHold
    <3>2. CASE b # f
      BY <1>1, <1>2, <1>4, <3>1, <3>2 DEF Kept
    <3>3. CASE b = f
      <4>1. cur' # b /\ NotCached(b) => InPacked(b)
        BY <1>1, <3>1, <3>3 DEF Value, InPacked
      <4>. QED
        BY <1>1, <1>2, <1>4, <4>1 DEF Kept
    <3>. QED
      BY <3>2, <3>3
  <2>. QED
    BY <1>1, <1>2, <1>4, <2>1, <2>2 DEF LinksHold
<1>. QED
  BY <1>1, <1>2, <1>3, <1>5, <1>6 DEF LinkInv

LEMMA ScanFileLinks ==
  ASSUME IInv, LinkInv, ScanFile
  PROVE  LinkInv'
<1>1. /\ UNCHANGED <<disk, git, packFile, disturbed, fetchedLoose, fetchedPacked, asserted, toScan>>
      /\ pc = "loose" /\ pc' = "loose" /\ cur # None /\ loose[cur] \notin {None, Empty}
      /\ Cache(cur, loose[cur]) /\ cur' = None
  BY DEF ScanFile, cache, observed
<1>2. /\ loose' = loose /\ disturbed' = disturbed
      /\ (\A r : Value(r)' = Value(r)) /\ \A r : InPacked(r)' <=> InPacked(r)
  BY <1>1, NothingWritten
<1>3. /\ cur \in Ref \cup {Lock} /\ loose[cur] \in Sha \cup Branch /\ cur # HEAD
  BY <1>1, Names DEF IInv, TypeOK, File
<1>4. /\ KnownLinks' /\ Linked' \subseteq Linked /\ cachedRefs'[cur] # NoRef
      /\ \A r \in Ref \cup {Lock} : r # cur => cachedRefs'[r] = cachedRefs[r]
      /\ \A l \in ToSet(symbolicRefs)' :
           l \in ToSet(symbolicRefs) \/ (l.link = EntryOf(loose[cur]).link /\ loose[cur] \in Branch)
  BY <1>1, <1>3, CacheLinks DEF LinkInv
<1>5. (Fetched' <=> Fetched) /\ Filling
  BY <1>1 DEF Fetched, Filling
<1>6. ASSUME ~disturbed PROVE LinksHold'
  <2>1. LinksHold
    BY <1>5, <1>6 DEF LinkInv
  <2>2. ASSUME NEW b \in Linked' PROVE Kept(b)' /\ Value(b)' # None
    <3>1. b \in Linked /\ b \in Ref /\ Value(b) # None /\ Kept(b)
      BY <1>4, <2>1, <2>2, Names DEF Linked, LinksHold
    <3>2. CASE b # cur
      BY <1>1, <1>2, <1>4, <3>1, <3>2 DEF Kept, NotCached
    <3>3. CASE b = cur
      BY <1>1, <1>2, <1>4, <3>1, <3>3 DEF Kept, NotCached
    <3>. QED
      BY <3>2, <3>3
  <2>3. NotCached(HEAD)' => loose'[HEAD] \in Branch
    BY <1>2, <1>3, <1>4, <2>1, Names DEF LinksHold, NotCached
  <2>4. \A l \in ToSet(symbolicRefs)' : l.link \in Branch
    BY <1>4, <2>1 DEF LinksHold, EntryOf
  <2>. QED
    BY <2>2, <2>3, <2>4 DEF LinksHold
<1>. QED
  BY <1>1, <1>2, <1>4, <1>5, <1>6 DEF LinkInv

LEMMA ScanFailsLinks ==
  ASSUME IInv, LinkInv, ScanFails
  PROVE  LinkInv'
<1>1. /\ UNCHANGED <<disk, git, packFile, disturbed, cachedRefs, symbolicRefs, fetchedLoose,
                     fetchedPacked>>
      /\ pc = "loose" /\ pc' = "idle"
  BY DEF ScanFails, Raise, cache, observed
<1>2. /\ loose' = loose /\ disturbed' = disturbed
      /\ (\A r : Value(r)' = Value(r))
  BY <1>1, NothingWritten
<1>3. KnownLinks'
  BY <1>1, <1>2 DEF LinkInv, KnownLinks, NotCached
<1>4. /\ Linked' = Linked /\ (\A r : NotCached(r)' <=> NotCached(r))
      /\ (Fetched' <=> Fetched) /\ Filling
  BY <1>1, <1>2 DEF Linked, NotCached, Fetched, Filling
<1>5. ASSUME ~disturbed PROVE LinksHold'
  <2>1. LinksHold
    BY <1>4, <1>5 DEF LinkInv
  <2>. QED
    BY <1>1, <1>2, <1>4, <2>1 DEF LinksHold, Kept
<1>6. fetchedLoose' => Fetched'
  BY <1>1, <1>4 DEF LinkInv
<1>. QED
  BY <1>1, <1>2, <1>3, <1>5, <1>6 DEF LinkInv

\* HEAD comes after all names, and what is linked and not cached is packed.
LEMMA ScanHeadLinks ==
  ASSUME IInv, LinkInv, ScanHead
  PROVE  LinkInv'
<1>1. /\ UNCHANGED <<disk, git, packFile, disturbed, fetchedPacked, asserted, toScan, cur>>
      /\ pc = "loose" /\ pc' = "packed" /\ cur = None /\ toScan = {}
      /\ IF NotCached(HEAD) THEN Cache(HEAD, loose[HEAD]) ELSE UNCHANGED <<cachedRefs, symbolicRefs>>
  BY DEF ScanHead, NextPass, observed
<1>2. /\ loose' = loose /\ disturbed' = disturbed
      /\ (\A r : Value(r)' = Value(r)) /\ \A r : InPacked(r)' <=> InPacked(r)
  BY <1>1, NothingWritten
<1>3. HEAD \in Ref \cup {Lock} /\ loose[HEAD] \in Sha \cup Branch
  BY Names DEF IInv, TypeOK
<1>4. /\ KnownLinks' /\ Linked' \subseteq Linked
      /\ NotCached(HEAD)' => FALSE
      /\ \A r \in Ref \cup {Lock} : r # HEAD => cachedRefs'[r] = cachedRefs[r]
      /\ \A l \in ToSet(symbolicRefs)' :
           l \in ToSet(symbolicRefs) \/ (l.link = EntryOf(loose[HEAD]).link /\ NotCached(HEAD))
  <2>1. CASE NotCached(HEAD)
    BY <1>1, <1>3, <2>1, CacheLinks DEF LinkInv, NotCached
  <2>2. CASE ~NotCached(HEAD)
    <3>1. UNCHANGED <<loose, git, cachedRefs, symbolicRefs>>
      BY <1>1, <1>2, <2>2
    <3>2. KnownLinks' /\ Linked' = Linked /\ (NotCached(HEAD)' <=> NotCached(HEAD))
      BY <3>1 DEF LinkInv, KnownLinks, Linked, NotCached
    <3>. QED
      BY <2>2, <3>1, <3>2
  <2>. QED
    BY <2>1, <2>2
<1>5. Filling
  BY <1>1 DEF Filling
<1>6. ASSUME ~disturbed PROVE LinksHold'
  <2>1. LinksHold
    BY <1>5, <1>6 DEF LinkInv
  <2>2. ASSUME NEW b \in Linked' PROVE Kept(b)' /\ Value(b)' # None
    <3>1. b \in Linked /\ b \in Ref /\ b # HEAD /\ b # None /\ Value(b) # None /\ Kept(b)
      BY <1>4, <2>1, <2>2, Names DEF Linked, LinksHold
    <3>2. ~NotCached(b) \/ InPacked(b)
      BY <1>1, <3>1 DEF Kept
    <3>. QED
      BY <1>1, <1>2, <1>4, <3>1, <3>2 DEF Kept, NotCached
  <2>3. NotCached(HEAD) => EntryOf(loose[HEAD]).link \in Branch
    BY <2>1 DEF LinksHold, EntryOf
  <2>4. \A l \in ToSet(symbolicRefs)' : l.link \in Branch
    BY <1>4, <2>1, <2>3 DEF LinksHold
  <2>. QED
    BY <1>4, <2>2, <2>4 DEF LinksHold
<1>7. ~asserted'
  BY <1>1 DEF LinkInv
<1>. QED
  BY <1>1, <1>2, <1>4, <1>6, <1>7 DEF LinkInv

\* After the packed pass all that is linked is cached.
LEMMA FetchPackedRefsLinks ==
  ASSUME IInv, LinkInv, FetchPackedRefs
  PROVE  LinkInv'
<1>1. /\ UNCHANGED <<disk, git, packFile, disturbed, symbolicRefs, fetchedLoose, asserted>>
      /\ pc = "packed" /\ pc' = "resolve" /\ fetchedPacked' = packFile
      /\ cachedRefs' = [r \in Ref \cup {Lock} |->
                         IF packFile /\ r \in Branch /\ packed[r] # None /\ NotCached(r)
                         THEN EntryOf(packed[r]) ELSE cachedRefs[r]]
  BY DEF FetchPackedRefs, NextPass, observed
<1>2. /\ loose' = loose /\ git' = git /\ packFile' = packFile /\ disturbed' = disturbed
      /\ (\A r : Value(r)' = Value(r)) /\ \A r : InPacked(r)' <=> InPacked(r)
  BY <1>1, NothingWritten
<1>3. \A r \in Branch : packed[r] # None =>
        /\ EntryOf(packed[r]).link = None /\ EntryOf(packed[r]).sha \in Sha
        /\ EntryOf(packed[r]) # NoRef
  <2>. SUFFICES ASSUME NEW r \in Branch, packed[r] # None
                PROVE  /\ EntryOf(packed[r]).link = None /\ EntryOf(packed[r]).sha \in Sha
                       /\ EntryOf(packed[r]) # NoRef
    OBVIOUS
  <2>1. packed[r] \in Sha /\ packed[r] \notin Branch
    BY Names DEF IInv, TypeOK
  <2>. QED
    BY <2>1, EntryOfValid DEF EntryOf
<1>4. \A r \in Ref \cup {Lock} :
        \/ cachedRefs'[r] = cachedRefs[r]
        \/ /\ NotCached(r) /\ r \in Branch /\ cachedRefs'[r] # NoRef
           /\ cachedRefs'[r].link = None /\ cachedRefs'[r].sha \in Sha
  BY <1>1, <1>3
<1>5. KnownLinks'
  BY <1>2, <1>4 DEF LinkInv, KnownLinks, NotCached
<1>6. Linked' \subseteq Linked
  <2>1. \A r \in Ref \cup {Lock} : cachedRefs'[r].link # None => cachedRefs'[r].link = cachedRefs[r].link
    BY <1>4
  <2>2. \A b \in Branch : b # None
    BY Names
  <2>. QED
    BY <1>1, <1>2, <2>1, <2>2 DEF Linked
<1>7. Filling /\ ~asserted'
  BY <1>1 DEF Filling, LinkInv
<1>8. ASSUME ~disturbed PROVE LinksHold'
  <2>1. LinksHold
    BY <1>7, <1>8 DEF LinkInv
  <2>2. ASSUME NEW b \in Linked' PROVE Kept(b)' /\ Value(b)' # None
    <3>1. b \in Linked /\ b \in Branch /\ b \in Ref /\ Value(b) # None /\ Kept(b)
      BY <1>6, <2>1, <2>2, Names DEF Linked, LinksHold
    <3>2. ~NotCached(b) \/ InPacked(b)
      BY <1>1, <3>1 DEF Kept
    <3>3. ~NotCached(b)'
      <4>1. CASE NotCached(b)
        BY <1>1, <1>3, <3>1, <3>2, <4>1 DEF InPacked, NotCached
      <4>2. CASE ~NotCached(b)
        BY <1>4, <3>1, <4>2 DEF NotCached
      <4>. QED
        BY <4>1, <4>2
    <3>. QED
      BY <1>1, <1>2, <3>1, <3>3 DEF Kept
  <2>3. NotCached(HEAD)' => loose'[HEAD] \in Branch
    BY <1>2, <1>4, <2>1, Names DEF LinksHold, NotCached
  <2>. QED
    BY <1>1, <2>1, <2>2, <2>3 DEF LinksHold
<1>9. fetchedLoose' => Fetched'
  BY <1>1, <1>2 DEF Fetched
<1>. QED
  BY <1>2, <1>5, <1>7, <1>8, <1>9 DEF LinkInv

\* A link is given its sha, and stays the link it is.
LEMMA ResolveLastLinks ==
  ASSUME IInv, LinkInv, ResolveLast
  PROVE  LinkInv' /\ (asserted' => disturbed)
<1> DEFINE l == Last(symbolicRefs)
           L == [name : Ref \cup {Lock}, link : Branch \cup {None}]
           sha == ShaByResolving(l.link)
<1>1. /\ UNCHANGED <<disk, git, packFile, fetchedLoose, fetchedPacked, disturbed>>
      /\ pc = "resolve" /\ symbolicRefs # <<>> /\ symbolicRefs' = Front(symbolicRefs)
  BY DEF ResolveLast, observed
<1>2. \/ /\ sha \in Sha
         /\ cachedRefs' = [cachedRefs EXCEPT ![l.name] =
              IF @.pending THEN [@ EXCEPT !.sha = sha, !.pending = FALSE] ELSE @]
         /\ UNCHANGED <<pc, toScan, cur, asserted>>
      \/ Raise(TRUE) /\ UNCHANGED cachedRefs /\ sha \notin Sha
  BY DEF ResolveLast
<1>3. /\ l \in L /\ l \in ToSet(symbolicRefs)
      /\ ToSet(symbolicRefs)' \subseteq ToSet(symbolicRefs)
  <2>1. symbolicRefs \in Seq(L)
    BY DEF IInv, TypeOK
  <2> HIDE DEF L
  <2>2. l \in L /\ ToSet(symbolicRefs) = ToSet(Front(symbolicRefs)) \cup {l}
    BY <1>1, <2>1, FrontLast
  <2> HIDE DEF l
  <2>3. ToSet(symbolicRefs)' = ToSet(symbolicRefs')
    OBVIOUS
  <2>. QED
    BY <1>1, <2>2, <2>3
<1>4. /\ loose' = loose /\ git' = git /\ packFile' = packFile /\ disturbed' = disturbed
      /\ (\A r : Value(r)' = Value(r))
  BY <1>1, NothingWritten DEF disk
<1>5. /\ Fetched /\ Fetched' /\ ~asserted /\ Filling
      /\ (~disturbed => LinksHold)
  BY <1>1 DEF IInv, Accounted, Fetched, LinkInv, Filling
<1>6. ASSUME ~disturbed PROVE sha \in Sha
  <2>1. LinksHold
    BY <1>5, <1>6
  <2>2. l.link \in Branch /\ l.link \in Linked
    BY <1>3, <2>1 DEF LinksHold, Linked
  <2>3. \A b \in Linked : ~NotCached(b)
    BY <1>1, <2>1 DEF LinksHold, Kept
  <2>4. Follow[l.link] \in Sha
    BY <2>2, <2>3, ChainsEnd DEF IInv, LinkInv
  <2>5. l.link # None
    BY <2>2, Names
  <2>. QED
    BY <2>4, <2>5 DEF ShaByResolving
<1> HIDE DEF sha
<1>7. l.name \in Ref \cup {Lock}
  BY <1>3
<1> HIDE DEF l
<1>8. /\ \A r \in Ref \cup {Lock} : cachedRefs'[r].link = cachedRefs[r].link
      /\ \A r \in Ref \cup {Lock} : NotCached(r)' <=> NotCached(r)
      /\ \A r \in Ref \cup {Lock} :
           cachedRefs'[r].sha = cachedRefs[r].sha \/ cachedRefs'[r].sha \in Sha
  <2>1. CASE sha \in Sha /\ cachedRefs' = [cachedRefs EXCEPT ![l.name] =
               IF @.pending THEN [@ EXCEPT !.sha = sha, !.pending = FALSE] ELSE @]
    <3> DEFINE e == cachedRefs[l.name]
               new == IF e.pending THEN [e EXCEPT !.sha = sha, !.pending = FALSE] ELSE e
    <3>1. e \in Entry
      BY <1>7 DEF IInv, TypeOK
    <3>2. new.link = e.link /\ (new = NoRef <=> e = NoRef) /\ (new.sha = e.sha \/ new.sha \in Sha)
      <4>1. CASE e.pending
        <5>1. new.link = e.link /\ new.sha = sha /\ new.pending = FALSE
          BY <3>1, <4>1 DEF Entry
        <5>2. NoRef.sha = None /\ NoRef.pending = FALSE /\ sha # None
          BY <2>1, Names DEF NoRef
        <5>3. e # NoRef
          BY <4>1, <5>2
        <5> HIDE DEF new
        <5>4. new # NoRef
          BY <5>1, <5>2
        <5>. QED
          BY <2>1, <5>1, <5>3, <5>4
      <4>2. CASE ~e.pending
        BY <4>2
      <4>. QED
        BY <4>1, <4>2
    <3>3. cachedRefs' = [cachedRefs EXCEPT ![l.name] = new]
      BY <2>1
    <3> HIDE DEF new
    <3>. QED
      BY <1>7, <3>2, <3>3 DEF IInv, TypeOK, NotCached
  <2>2. CASE UNCHANGED cachedRefs
    BY <2>2 DEF NotCached
  <2>. QED
    BY <1>2, <2>1, <2>2
<1>9. KnownLinks'
  BY <1>4, <1>8 DEF LinkInv, KnownLinks
<1>10. Linked' \subseteq Linked
  BY <1>3, <1>4, <1>8 DEF Linked
<1>11. ASSUME pc' = "resolve", ~disturbed PROVE LinksHold'
  <2>1. LinksHold
    BY <1>5, <1>11
  <2>2. \A b \in Linked' : Value(b)' # None /\ Kept(b)'
    <3>1. \A b \in Linked' : b \in Linked /\ b \in Ref
      BY <1>10, Names DEF Linked
    <3>2. \A b \in Linked : ~NotCached(b) /\ Value(b) # None
      BY <1>1, <2>1 DEF LinksHold, Kept
    <3>3. \A b \in Linked' : ~NotCached(b)'
      BY <1>8, <3>1, <3>2
    <3>. QED
      BY <1>4, <1>11, <3>1, <3>2, <3>3 DEF Kept
  <2>3. NotCached(HEAD)' => loose'[HEAD] \in Branch
    BY <1>4, <1>8, <2>1, Names DEF LinksHold
  <2>. QED
    BY <1>3, <2>1, <2>2, <2>3 DEF LinksHold
<1>12. pc' = "resolve" \/ (pc' = "idle" /\ disturbed)
  BY <1>1, <1>2, <1>6 DEF Raise
<1>13. asserted' => disturbed
  BY <1>2, <1>5, <1>6
<1>14. pc' = "resolve" => ~asserted'
  BY <1>2, <1>5 DEF Raise
<1>. QED
  BY <1>4, <1>5, <1>9, <1>11, <1>12, <1>13, <1>14 DEF LinkInv

LEMMA ResolvedLinks == IInv /\ LinkInv /\ Resolved => LinkInv'
<1>. SUFFICES ASSUME IInv, LinkInv, Resolved PROVE LinkInv'
  OBVIOUS
<1>1. /\ UNCHANGED <<disk, git, packFile, disturbed, cachedRefs, symbolicRefs, fetchedLoose,
                     fetchedPacked, asserted>>
      /\ pc = "resolve" /\ pc' = "answer"
  BY DEF Resolved, cache, observed
<1>2. loose' = loose /\ Fetched /\ (Fetched' <=> Fetched)
  BY <1>1 DEF disk, IInv, Accounted, Fetched
<1>3. KnownLinks' /\ ~asserted'
  BY <1>1, <1>2 DEF LinkInv, KnownLinks, NotCached
<1>. QED
  BY <1>1, <1>2, <1>3 DEF LinkInv, Filling

\* A link that is written is one that may be made; the cache is complete.
LEMMA AnswerLinks == IInv /\ LinkInv /\ Answer => LinkInv'
<1>. SUFFICES ASSUME IInv, LinkInv, Answer PROVE LinkInv'
  OBVIOUS
<1>1. /\ UNCHANGED <<git, packFile, fetchedLoose, fetchedPacked>>
      /\ pc = "answer" /\ pc' = "idle"
  BY DEF Answer
<1>2. Fetched /\ Fetched'
  BY <1>1 DEF IInv, Accounted, Fetched
<1>3. KnownLinks'
  <2>1. CASE UNCHANGED <<loose, cachedRefs, changes>>
    BY <1>1, <2>1 DEF LinkInv, KnownLinks, NotCached
  <2>2. ASSUME NEW k \in Links,
               Write(k[1], k[2], [link |-> k[2], sha |-> cachedRefs[k[2]].sha, pending |-> FALSE])
        PROVE  KnownLinks'
    <3>1. k[1] \in Ref /\ k[2] \in Branch /\ k = <<k[1], k[2]>> /\ k[2] # None /\ k[1] # Lock
      BY Names
    <3>2. /\ loose' = [loose EXCEPT ![k[1]] = k[2]]
          /\ cachedRefs' = [cachedRefs EXCEPT ![k[1]] =
               [link |-> k[2], sha |-> cachedRefs[k[2]].sha, pending |-> FALSE]]
      BY <2>2 DEF Write
    <3>3. \A r \in Ref \cup {Lock} :
            /\ r # k[1] => loose'[r] = loose[r] /\ cachedRefs'[r] = cachedRefs[r]
            /\ r = k[1] => loose'[r] = k[2] /\ cachedRefs'[r].link = k[2]
      BY <3>1, <3>2 DEF IInv, TypeOK
    <3>4. \A r \in Ref : loose'[r] \in Branch => <<r, loose'[r]>> \in Links
      BY <3>1, <3>3 DEF LinkInv, KnownLinks
    <3>5. \A r \in Ref \cup {Lock} :
            /\ cachedRefs'[r].link # None => <<r, cachedRefs'[r].link>> \in Links
            /\ ~NotCached(r)' /\ cachedRefs'[r].link = None => cachedRefs'[r].sha \in Sha
      BY <3>1, <3>3 DEF LinkInv, KnownLinks, NotCached
    <3>6. loose'[Lock] \notin Branch /\ (git'.op = "update" => git'.value \in Sha)
      BY <1>1, <3>1, <3>3 DEF LinkInv, KnownLinks
    <3>. QED
      BY <3>4, <3>5, <3>6 DEF KnownLinks
  <2>. QED
    BY <2>1, <2>2 DEF Answer
<1>. QED
  BY <1>1, <1>2, <1>3 DEF LinkInv, Filling

\* A ref that is written with a sha is no link any more.
LEMMA WriteRefLinks ==
  ASSUME IInv, LinkInv, NEW r \in Ref, NEW sha \in Sha, WriteRef(r, sha)
  PROVE  LinkInv'
<1>1. /\ UNCHANGED <<packed, git, packFile, symbolicRefs, fetchedLoose, fetchedPacked, disturbed>>
      /\ pc = "idle" /\ pc' = "idle"
      /\ loose' = [loose EXCEPT ![r] = sha]
      /\ cachedRefs' = [cachedRefs EXCEPT ![r] = EntryOf(sha)]
  BY DEF WriteRef, Idle, Write, observed
<1>2. /\ EntryOf(sha) # NoRef /\ EntryOf(sha).link = None /\ EntryOf(sha).sha = sha
      /\ sha \notin Branch /\ sha # None /\ r # Lock
  BY EntryOfValid, Names DEF EntryOf
<1>3. \A q \in Ref \cup {Lock} :
        /\ q # r => loose'[q] = loose[q] /\ cachedRefs'[q] = cachedRefs[q]
        /\ q = r => loose'[q] = sha /\ cachedRefs'[q] = EntryOf(sha)
  BY <1>1 DEF IInv, TypeOK
<1>4. KnownLinks'
  <2>1. \A q \in Ref : loose'[q] \in Branch => <<q, loose'[q]>> \in Links
    BY <1>2, <1>3 DEF LinkInv, KnownLinks
  <2>2. \A q \in Ref \cup {Lock} :
          /\ cachedRefs'[q].link # None => <<q, cachedRefs'[q].link>> \in Links
          /\ ~NotCached(q)' /\ cachedRefs'[q].link = None => cachedRefs'[q].sha \in Sha
    BY <1>2, <1>3 DEF LinkInv, KnownLinks, NotCached
  <2>3. loose'[Lock] \notin Branch /\ (git'.op = "update" => git'.value \in Sha)
    BY <1>1, <1>2, <1>3 DEF LinkInv, KnownLinks
  <2>. QED
    BY <2>1, <2>2, <2>3 DEF KnownLinks
<1>5. (Fetched' <=> Fetched) /\ (Filling' <=> Filling)
  BY <1>1 DEF Fetched, Filling
<1>6. Linked' \subseteq Linked
  BY <1>1, <1>2, <1>3, Names DEF Linked
<1>7. \A q \in Ref : Value(q) # None => Value(q)' # None
  BY <1>1, <1>2, <1>3 DEF Value
<1>8. ASSUME Filling, ~disturbed PROVE LinksHold'
  <2>1. LinksHold
    BY <1>8 DEF LinkInv
  <2>2. \A b \in Linked' : Value(b)' # None /\ Kept(b)'
    <3>1. \A b \in Linked' : b \in Linked /\ b \in Ref
      BY <1>6, Names DEF Linked
    <3>. QED
      BY <1>1, <1>7, <2>1, <3>1 DEF LinksHold, Kept
  <2>3. NotCached(HEAD)' => loose'[HEAD] \in Branch
    BY <1>2, <1>3, <2>1, Names DEF LinksHold, NotCached
  <2>4. \A l \in ToSet(symbolicRefs)' : l.link \in Branch
    BY <1>1, <2>1 DEF LinksHold
  <2>. QED
    BY <2>2, <2>3, <2>4 DEF LinksHold
<1>. QED
  BY <1>1, <1>4, <1>5, <1>8 DEF LinkInv

LEMMA BeginLinks == IInv /\ LinkInv /\ Begin => LinkInv'
<1>. SUFFICES ASSUME IInv, LinkInv, Begin PROVE LinkInv'
  OBVIOUS
<1>1. /\ UNCHANGED <<disk, git, packFile, disturbed, cachedRefs, symbolicRefs, fetchedLoose,
                     fetchedPacked>>
      /\ pc = "idle" /\ asserted' = FALSE /\ pc' = NextPass("idle")
      /\ toScan' = IF fetchedLoose THEN {} ELSE File
  BY DEF Begin, Idle, cache
<1>2. /\ loose' = loose /\ disturbed' = disturbed /\ \A r : Value(r)' = Value(r)
  BY <1>1, NothingWritten
<1>3. KnownLinks'
  BY <1>1, <1>2 DEF LinkInv, KnownLinks, NotCached
<1>4. Linked' = Linked /\ (Fetched' <=> Fetched) /\ \A r : NotCached(r)' <=> NotCached(r)
  BY <1>1, <1>2 DEF Linked, NotCached, Fetched
<1>5. pc' = IF Fetched THEN "answer" ELSE "loose"
  BY <1>1 DEF LinkInv, NextPass
<1>6. fetchedLoose' => Fetched'
  BY <1>1, <1>4 DEF LinkInv
<1>7. ASSUME ~Fetched, ~disturbed PROVE LinksHold'
  <2>1. LinksHold
    BY <1>7 DEF LinkInv, Filling
  <2>2. pc' = "loose" /\ toScan' = File
    BY <1>1, <1>5, <1>7 DEF LinkInv
  <2>3. \A b \in Linked : b \in toScan'
    BY <2>2 DEF Linked, File
  <2>. QED
    BY <1>1, <1>2, <1>4, <2>1, <2>2, <2>3 DEF LinksHold, Kept
<1>. QED
  BY <1>1, <1>2, <1>3, <1>4, <1>5, <1>6, <1>7 DEF LinkInv, Filling

\* With an empty cache only the files hold links.
LEMMA InvalidateLinks == IInv /\ LinkInv /\ InvalidateCachedRefs => LinkInv'
<1>. SUFFICES ASSUME IInv, LinkInv, InvalidateCachedRefs PROVE LinkInv'
  OBVIOUS
<1>1. /\ UNCHANGED <<disk, git, packFile, pc>> /\ pc = "idle"
      /\ cachedRefs' = [r \in Ref \cup {Lock} |-> NoRef] /\ symbolicRefs' = <<>>
      /\ fetchedLoose' = FALSE /\ disturbed' = Broken
  BY DEF InvalidateCachedRefs, Idle
<1>2. loose' = loose /\ \A r : Value(r)' = Value(r)
  BY <1>1 DEF disk, Value
<1>3. \A r \in Ref \cup {Lock} : cachedRefs'[r] = NoRef
  BY <1>1
<1>4. KnownLinks'
  BY <1>1, <1>2, <1>3 DEF LinkInv, KnownLinks, NotCached, NoRef
<1>5. \A l \in ToSet(symbolicRefs)' : FALSE
  <2>1. ToSet(<<>>) = {}
    BY DEF ToSet
  <2>2. ToSet(symbolicRefs)' = ToSet(symbolicRefs')
    OBVIOUS
  <2>. QED
    BY <1>1, <2>1, <2>2
<1>6. ASSUME ~Broken PROVE LinksHold'
  <2>1. /\ loose[HEAD] \in Branch
        /\ \A r \in Ref : loose[r] \in Branch => Value(loose[r]) # None
    BY <1>6, UnbrokenLinks DEF IInv, LinkInv
  <2>2. \A b \in Linked' : \E r \in Ref : loose[r] = b /\ b \in Branch
    BY <1>2, <1>3, <1>5, Names DEF Linked, NoRef
  <2>3. \A b \in Linked' : Value(b)' # None /\ Kept(b)'
    BY <1>1, <1>2, <2>1, <2>2 DEF Kept
  <2>. QED
    BY <1>2, <1>5, <2>1, <2>3 DEF LinksHold
<1>. QED
  BY <1>1, <1>4, <1>6 DEF LinkInv

LEMMA InitLinks == Init => LinkInv
<1>. SUFFICES ASSUME Init PROVE LinkInv
  OBVIOUS
<1>1. PICK d \in Repositories : loose = d.loose /\ packed = d.packed
  BY DEF Init
<1>2. TypeOK
  BY InitEstablishes DEF IInv
<1>3. /\ \A r \in Ref : loose[r] \in Branch => <<r, loose[r]>> \in Links
      /\ loose[Lock] = None
  BY <1>1, RefAssumption
<1>4. /\ cachedRefs = [r \in Ref \cup {Lock} |-> NoRef] /\ symbolicRefs = <<>>
      /\ git = GitIdle /\ pc = "idle" /\ fetchedLoose = FALSE /\ disturbed = Broken
  BY DEF Init
<1>5. KnownLinks
  BY <1>3, <1>4, Names DEF KnownLinks, NotCached, NoRef, GitIdle, Doing, Ref
<1>6. ASSUME ~Broken PROVE LinksHold
  <2>1. /\ loose[HEAD] \in Branch
        /\ \A r \in Ref : loose[r] \in Branch => Value(loose[r]) # None
    BY <1>2, <1>5, <1>6, UnbrokenLinks
  <2>2. \A l \in ToSet(symbolicRefs) : FALSE
    BY <1>4 DEF ToSet
  <2>3. \A b \in Linked : \E r \in Ref : loose[r] = b /\ b \in Branch
    BY <1>4, <2>2, Names DEF Linked, NoRef
  <2>4. \A b \in Linked : Value(b) # None /\ Kept(b)
    BY <1>4, <2>1, <2>3 DEF Kept
  <2>. QED
    BY <2>1, <2>2, <2>4 DEF LinksHold
<1>. QED
  BY <1>4, <1>5, <1>6 DEF LinkInv

LEMMA StutterLinks == LinkInv /\ UNCHANGED vars => LinkInv'
<1>. SUFFICES ASSUME LinkInv, UNCHANGED vars PROVE LinkInv'
  OBVIOUS
<1>1. UNCHANGED <<loose, packed, git, packFile, disturbed, cachedRefs, symbolicRefs, fetchedLoose,
                  fetchedPacked, pc, toScan, cur, asserted>>
  BY DEF vars, disk, cache, observed
<1>2. /\ \A r : Value(r)' = Value(r)
      /\ \A r : (InPacked(r)' <=> InPacked(r)) /\ (NotCached(r)' <=> NotCached(r))
  BY <1>1 DEF Value, InPacked, NotCached
<1>3. KnownLinks' /\ Linked' = Linked /\ (Filling' <=> Filling) /\ (Fetched' <=> Fetched)
  BY <1>1, <1>2 DEF LinkInv, KnownLinks, Linked, Filling, Fetched
<1>4. LinksHold => LinksHold'
  BY <1>1, <1>2, <1>3 DEF LinksHold, Kept
<1>. QED
  BY <1>1, <1>3, <1>4 DEF LinkInv

LEMMA LinkStep ==
  ASSUME IInv, LinkInv, [Next]_vars
  PROVE  LinkInv' /\ (pc = "resolve" /\ asserted' => disturbed)
<1>1. CASE Git
  <2>1. asserted' = asserted
    BY <1>1 DEF Git, GitFinishes, GitWriteLock, GitRename, GitPrune, GitUnlink, GitPack, GitDelete,
                GitUpdate, GitCheckout, Observe
  <2>. QED
    BY <1>1, <2>1, GitLinks DEF LinkInv
<1>2. CASE Calls
  <2>1. pc = "idle"
    BY <1>2 DEF Calls, Begin, WriteRef, InvalidateCachedRefs, Idle
  <2>. QED
    BY <1>2, <2>1, BeginLinks, WriteRefLinks, InvalidateLinks DEF Calls
<1>3. CASE (\E f \in File : ScanName(f)) \/ ScanFile \/ ScanFails \/ ScanHead \/ FetchPackedRefs
  <2>1. pc \in {"loose", "packed"}
    BY <1>3 DEF ScanName, ScanFile, ScanFails, ScanHead, FetchPackedRefs
  <2>. QED
    BY <1>3, <2>1, ScanNameLinks, ScanFileLinks, ScanFailsLinks, ScanHeadLinks, FetchPackedRefsLinks
<1>4. CASE ResolveLast
  BY <1>4, ResolveLastLinks
<1>5. CASE Resolved \/ Answer
  <2>1. pc \in {"resolve", "answer"} /\ asserted' = asserted
    BY <1>5 DEF Resolved, Answer
  <2>. QED
    BY <1>5, <2>1, ResolvedLinks, AnswerLinks DEF LinkInv
<1>6. CASE UNCHANGED vars
  <2>1. asserted' = asserted
    BY <1>6 DEF vars
  <2>. QED
    BY <1>6, <2>1, StutterLinks DEF LinkInv
<1>. QED
  BY <1>1, <1>2, <1>3, <1>4, <1>5, <1>6 DEF Next, Run

\* The assertion on symbolic refs fails only if a link was broken, or refs were
\* deleted or HEAD moved since the cache was emptied (205-215): for any number
\* of refs, links of any depth, any interruptions and whatever git updates,
\* packs and prunes meanwhile.
THEOREM AssertionNeedsABrokenLink == Spec => AssertsOnlyOnBrokenLinks
<1>1. IInv /\ LinkInv /\ [Next]_vars => LinkInv'
  BY LinkStep
<1>2. IInv /\ LinkInv /\ [Next]_vars => [pc = "resolve" /\ asserted' => disturbed]_vars
  BY LinkStep
<1>. QED
  BY InitLinks, <1>1, <1>2, Invariance, PTL DEF Spec, AssertsOnlyOnBrokenLinks
=============================================================================
