------------------------------ MODULE RefStore ------------------------------
(***************************************************************************)
(* GITRefStore reads the refs of a repository, loose files under refs/,    *)
(* HEAD and the packed-refs file, into a cache on the first call that      *)
(* needs one, and writes single refs.  The repository belongs to others    *)
(* too: while the store goes from file to file, a git process updates,     *)
(* packs and deletes refs with its own protocol (external code, modelled   *)
(* from the files the store reads).                                        *)
(***************************************************************************)
EXTENDS Integers, Sequences, FiniteSets, SequencesExt

CONSTANTS
  Branch,       \* the names of refs below refs/
  HEAD, Lock,   \* HEAD, and the lock file git puts below refs/
  Sha,          \* valid sha1 strings
  None, Empty,  \* no file or nil; a file without contents
  Links,        \* what a symbolic ref may name: HEAD and some branches to branches
  Repositories, \* the files a behaviour may start from
  MaxChanges    \* bound: operations of the git process, and refs written

Ref == Branch \cup {HEAD}
File == Branch \cup {Lock}

\* Symbolic refs that name each other in a circle make the store recurse
\* without end; git does not follow them either.
ASSUME RefAssumption ==
  /\ HEAD \notin Branch /\ Lock \notin Ref
  /\ Sha \cap (Branch \cup {None, Empty}) = {} /\ None # Empty
  /\ {None, Empty} \cap (Ref \cup {Lock}) = {}
  /\ Links \subseteq Ref \X Branch
  /\ \E rank \in [Ref -> 0..Cardinality(Ref)] : \A l \in Links : rank[l[2]] < rank[l[1]]
  /\ \A d \in Repositories :
       /\ d.loose \in [Ref \cup {Lock} -> Sha \cup Branch \cup {None}]
       /\ d.packed \in [Branch -> Sha \cup {None}]
       /\ \A r \in Ref : d.loose[r] \in Branch => <<r, d.loose[r]>> \in Links
       /\ d.loose[Lock] = None /\ d.loose[HEAD] # None
  /\ MaxChanges \in Nat /\ IsFiniteSet(Ref)

VARIABLES
  loose, packed, packedExists,      \* the files
  git, changes,                     \* what the git process does; changes so far
  packFile,                         \* did packed-refs exist when the store was made?
  cachedRefs, symbolicRefs, fetchedLoose, fetchedPacked,   \* the store
  pc,                               \* "idle", or what the running call does
  toScan, cur,                      \* names left to enumerate; the one found to exist
  asserted,    \* observation: the last call ended in a failed assertion
  held,        \* observation: refs present ever since the loose pass began
  seen,        \* observation: values refs had since the cache was empty
  disturbed    \* observation: a link was or may have become broken since then

disk == <<loose, packed, packedExists>>
cache == <<cachedRefs, symbolicRefs, fetchedLoose, fetchedPacked>>
observed == <<held, seen, disturbed>>
vars == <<disk, git, changes, packFile, cache, pc, toScan, cur, asserted, observed>>

Entry == [link : Branch \cup {None}, sha : Sha \cup {None}, pending : BOOLEAN]
NoRef == [link |-> None, sha |-> None, pending |-> FALSE]

Doing(op, refs) == [op |-> op, refs |-> refs, value |-> None]
GitIdle == Doing("none", {})

TypeOK ==
  /\ loose \in [Ref \cup {Lock} -> Sha \cup Branch \cup {None, Empty}]
  /\ \A r \in Ref : loose[r] # Empty
  /\ loose[HEAD] # None
  /\ packed \in [Branch -> Sha \cup {None}]
  /\ packedExists \in BOOLEAN /\ packFile \in BOOLEAN
  /\ git \in [op : {"none", "update", "prune", "delete"}, refs : SUBSET Branch,
              value : Sha \cup {None}]
  /\ changes \in 0..MaxChanges
  /\ cachedRefs \in [Ref \cup {Lock} -> Entry]
  /\ symbolicRefs \in Seq([name : Ref \cup {Lock}, link : Branch \cup {None}])
  /\ fetchedLoose \in BOOLEAN /\ fetchedPacked \in BOOLEAN
  /\ pc \in {"idle", "loose", "packed", "resolve", "answer"}
  /\ toScan \subseteq File /\ cur \in File \cup {None}
  /\ asserted \in BOOLEAN
  /\ held \subseteq Branch /\ disturbed \in BOOLEAN
  /\ seen \in [Ref -> SUBSET (Sha \cup Branch \cup {None})]
-----------------------------------------------------------------------------
(***************************************************************************)
(* The refs as git defines them: a loose file hides the packed entry.      *)
(***************************************************************************)
Value(r) == IF loose[r] # None \/ r = HEAD \/ ~packFile THEN loose[r] ELSE packed[r]

\* A ref is gone once a deletion has begun.
Present(r) == Value(r) # None /\ ~(git.op = "delete" /\ r \in git.refs)

\* The sha a symbolic ref leads to.
Target[r \in Ref] == IF Value(r) \in Branch THEN Target[Value(r)] ELSE Value(r)

Broken == Value(HEAD) \notin Branch \/ \E r \in Ref : Value(r) \in Branch /\ Target[r] \notin Sha

Init ==
  /\ \E d \in Repositories : loose = d.loose /\ packed = d.packed
  /\ packedExists \in BOOLEAN
  /\ ~packedExists => packed = [b \in Branch |-> None]
  /\ packFile = packedExists
  /\ git = GitIdle /\ changes = 0
  /\ cachedRefs = [r \in Ref \cup {Lock} |-> NoRef] /\ symbolicRefs = <<>>
  /\ fetchedLoose = FALSE /\ fetchedPacked = FALSE
  /\ pc = "idle" /\ toScan = {} /\ cur = None /\ asserted = FALSE
  /\ held = {} /\ seen = [r \in Ref |-> {Value(r)}] /\ disturbed = Broken
-----------------------------------------------------------------------------
(***************************************************************************)
(* The other git process, one operation at a time.                         *)
(***************************************************************************)
Fetched == fetchedLoose /\ (fetchedPacked \/ ~packFile)

\* What a step of git does to the observations.
Observe(breaks) ==
  /\ UNCHANGED <<packFile, cache, pc, toScan, cur, asserted>>
  /\ held' = {r \in held : Present(r)'}
  /\ seen' = IF Fetched THEN seen ELSE [r \in Ref |-> seen[r] \cup {Value(r)'}]
  /\ disturbed' = (disturbed \/ breaks)

GitBegins(op) ==
  /\ git = GitIdle /\ changes < MaxChanges
  /\ changes' = changes + 1 /\ git' = op

\* A new value goes to a lock file that is renamed to the ref.
GitUpdate(r, v) ==
  /\ loose[r] \notin Branch
  /\ GitBegins([op |-> "update", refs |-> {r}, value |-> v])
  /\ loose' = [loose EXCEPT ![Lock] = Empty]
  /\ UNCHANGED <<packed, packedExists>>
  /\ Observe(FALSE)

GitWriteLock ==
  /\ git.op = "update" /\ loose[Lock] = Empty
  /\ loose' = [loose EXCEPT ![Lock] = git.value]
  /\ UNCHANGED <<packed, packedExists, git, changes>>
  /\ Observe(FALSE)

GitRename(r) ==
  /\ git.op = "update" /\ r \in git.refs /\ loose[Lock] # Empty
  /\ loose' = [loose EXCEPT ![r] = git.value, ![Lock] = None]
  /\ git' = GitIdle
  /\ UNCHANGED <<packed, packedExists, changes>>
  /\ Observe(loose[r] \in Branch)

\* git pack-refs: packed-refs first, then the loose files that still agree.
GitPack ==
  /\ GitBegins(Doing("prune", {r \in Branch : loose[r] \in Sha}))
  /\ git'.refs # {}
  /\ packed' = [r \in Branch |-> IF loose[r] \in Sha THEN loose[r] ELSE packed[r]]
  /\ packedExists' = TRUE
  /\ UNCHANGED loose
  /\ Observe(~packFile)

GitPrune(r) ==
  /\ git.op = "prune" /\ r \in git.refs
  /\ loose' = [loose EXCEPT ![r] = IF @ = packed[r] THEN None ELSE @]
  /\ git' = IF git.refs = {r} THEN GitIdle ELSE [git EXCEPT !.refs = @ \ {r}]
  /\ UNCHANGED <<packed, packedExists, changes>>
  /\ Observe(~packFile)

\* A deletion takes the packed entry out before the loose file, so that the
\* old packed value never shows.
GitDelete(r) ==
  /\ loose[r] # None \/ packed[r] # None
  /\ GitBegins(Doing("delete", {r}))
  /\ packed' = [packed EXCEPT ![r] = None]
  /\ UNCHANGED <<loose, packedExists>>
  /\ Observe(TRUE)

GitUnlink(r) ==
  /\ git.op = "delete" /\ r \in git.refs
  /\ loose' = [loose EXCEPT ![r] = None] /\ git' = GitIdle
  /\ UNCHANGED <<packed, packedExists, changes>>
  /\ Observe(TRUE)

\* git checkout: HEAD names another branch, or a commit.
GitCheckout(v) ==
  /\ GitBegins(GitIdle) /\ v # loose[HEAD]
  /\ loose' = [loose EXCEPT ![HEAD] = v]
  /\ UNCHANGED <<packed, packedExists>>
  /\ Observe(TRUE)

GitFinishes ==
  GitWriteLock \/ \E r \in Branch : GitRename(r) \/ GitPrune(r) \/ GitUnlink(r)

Git ==
  \/ GitFinishes \/ GitPack
  \/ \E r \in Branch : GitDelete(r) \/ \E v \in Sha : GitUpdate(r, v)
  \/ \E v \in Sha \cup {l[2] : l \in {m \in Links : m[1] = HEAD}} : GitCheckout(v)
-----------------------------------------------------------------------------
(***************************************************************************)
(* Seeded faults: what an operator defined further down would be if the    *)
(* code had a bug.  The specification uses none of them.                   *)
(***************************************************************************)
\* packed-refs is read before the loose files.
PackedFirst(pass) ==
  CASE pass = "idle" -> IF Fetched THEN "answer" ELSE "packed"
    [] pass = "packed" -> IF fetchedLoose THEN "resolve" ELSE "loose"
    [] pass = "loose" -> "resolve"

\* A packed entry replaces what the loose file said.
Always(name) == TRUE

\* A link is given the sha of the ref it names, though that be a link too.
OneLevel(link) == IF link = None THEN None ELSE cachedRefs[link].sha

\* The store waits for a file without contents to be filled.
NeverNil == FALSE

\* The contents of a link are taken for a sha.
NoEntry(content) == [link |-> None, sha |-> content, pending |-> FALSE]

-----------------------------------------------------------------------------
(***************************************************************************)
(* fetchRefs: the loose pass, the packed pass, and the resolution of the   *)
(* symbolic refs they met.  An exception leaves what is cached in place.   *)
(***************************************************************************)
Idle == pc = "idle"

\* The pass after a pass; what is already fetched is not read again.
NextPass(pass) ==
  CASE pass = "idle" -> IF Fetched THEN "answer" ELSE IF fetchedLoose THEN "packed" ELSE "loose"
    [] pass = "loose" -> "packed"
    [] pass = "packed" -> "resolve"

\* A call that needs the cache begins: a lookup, or writeRef: of a link.
Begin ==
  /\ Idle
  /\ asserted' = FALSE /\ pc' = NextPass("idle")
  /\ toScan' = IF fetchedLoose THEN {} ELSE File
  /\ held' = IF fetchedLoose THEN held ELSE {r \in Branch : Present(r)}
  /\ UNCHANGED <<disk, git, changes, packFile, cache, cur, seen, disturbed>>

Raise(byAssertion) ==
  /\ pc' = "idle" /\ toScan' = {} /\ cur' = None /\ asserted' = byAssertion

\* Is there no entry in the cache yet?
NotCached(name) == cachedRefs[name] = NoRef

\* refWithContentsOfFile:name: of a valid file.
EntryOf(content) ==
  IF content \in Branch THEN [link |-> content, sha |-> None, pending |-> TRUE]
  ELSE [link |-> None, sha |-> content, pending |-> FALSE]

Cache(name, content) ==
  /\ cachedRefs' = [cachedRefs EXCEPT ![name] = EntryOf(content)]
  /\ symbolicRefs' = IF content \in Branch \/ name = HEAD
                     THEN Append(symbolicRefs, [name |-> name, link |-> EntryOf(content).link])
                     ELSE symbolicRefs

\* The enumerator gives the names in any order; a file that appears or goes
\* during the enumeration may be given or not.
ScanName(f) ==
  /\ pc = "loose" /\ cur = None /\ f \in toScan
  /\ toScan' = toScan \ {f}
  /\ cur' = IF loose[f] # None /\ NotCached(f) THEN f ELSE None
  /\ UNCHANGED <<disk, git, changes, packFile, cache, pc, asserted, observed>>

\* The file may be gone since it was found, or be empty: there is no GITRef
\* then, and setObject:nil raises.
NoContents == loose[cur] \in {None, Empty}

ScanFile ==
  /\ pc = "loose" /\ cur # None /\ loose[cur] \notin {None, Empty}
  /\ Cache(cur, loose[cur])
  /\ cur' = None
  /\ UNCHANGED <<disk, git, changes, packFile, fetchedLoose, fetchedPacked, pc,
                 toScan, asserted, observed>>

ScanFails ==
  /\ pc = "loose" /\ cur # None /\ NoContents
  /\ Raise(FALSE)
  /\ UNCHANGED <<disk, git, changes, packFile, cache, observed>>

ScanHead ==
  /\ pc = "loose" /\ cur = None /\ toScan = {}
  /\ IF NotCached(HEAD) THEN Cache(HEAD, loose[HEAD]) ELSE UNCHANGED <<cachedRefs, symbolicRefs>>
  /\ fetchedLoose' = TRUE
  /\ pc' = NextPass("loose")
  /\ UNCHANGED <<disk, git, changes, packFile, fetchedPacked, toScan, cur, asserted, observed>>

\* packed-refs is read in one piece, if there was one when the store was made.
FetchPackedRefs ==
  /\ pc = "packed"
  /\ cachedRefs' = [r \in Ref \cup {Lock} |->
                     IF packFile /\ r \in Branch /\ packed[r] # None /\ NotCached(r)
                     THEN EntryOf(packed[r]) ELSE cachedRefs[r]]
  /\ fetchedPacked' = packFile
  /\ pc' = NextPass("packed")
  /\ UNCHANGED <<disk, git, changes, packFile, symbolicRefs, fetchedLoose, toScan,
                 cur, asserted, observed>>

\* Follow[r]: the sha found in the cache from r on, through links.
Follow[r \in Branch] ==
  IF cachedRefs[r].link # None THEN Follow[cachedRefs[r].link] ELSE cachedRefs[r].sha

ShaByResolving(link) == IF link = None THEN None ELSE Follow[link]

\* The last link is taken off the array and given its sha, unless writeRef:
\* has replaced it in the cache.
ResolveLast ==
  /\ pc = "resolve" /\ symbolicRefs # <<>>
  /\ symbolicRefs' = Front(symbolicRefs)
  /\ LET l == Last(symbolicRefs)
         sha == ShaByResolving(l.link)
     IN IF sha \in Sha
        THEN /\ cachedRefs' = [cachedRefs EXCEPT ![l.name] =
                  IF @.pending THEN [@ EXCEPT !.sha = sha, !.pending = FALSE] ELSE @]
             /\ UNCHANGED <<pc, toScan, cur, asserted>>
        ELSE Raise(TRUE) /\ UNCHANGED cachedRefs
  /\ UNCHANGED <<disk, git, changes, packFile, fetchedLoose, fetchedPacked, observed>>

Resolved ==
  /\ pc = "resolve" /\ symbolicRefs = <<>>
  /\ pc' = "answer"
  /\ UNCHANGED <<disk, git, changes, packFile, cache, toScan, cur, asserted, observed>>

-----------------------------------------------------------------------------
(***************************************************************************)
(* The calls.                                                              *)
(***************************************************************************)
\* What observing a cache that is complete needs no more.
Settle ==
  /\ held' = {} /\ seen' = [r \in Ref |-> {}] /\ disturbed' = FALSE

\* The file and the cache entry are replaced; the links that lead to the ref
\* keep the sha they were given.
Write(name, content, entry) ==
  /\ loose' = [loose EXCEPT ![name] = content]
  /\ cachedRefs' = [cachedRefs EXCEPT ![name] = entry]

\* A lookup answers from the cache; writeRef: of a link whose target has no
\* sha, or whose file cannot be written, answers NO.
Answer ==
  /\ pc = "answer"
  /\ \/ UNCHANGED <<loose, cachedRefs, changes>>
     \/ /\ changes < MaxChanges /\ changes' = changes + 1
        /\ \E l \in Links :
             /\ cachedRefs[l[2]].sha # None
             /\ Write(l[1], l[2], [link |-> l[2], sha |-> cachedRefs[l[2]].sha, pending |-> FALSE])
  /\ pc' = "idle"
  /\ Settle
  /\ UNCHANGED <<packed, packedExists, git, packFile, symbolicRefs, fetchedLoose,
                 fetchedPacked, toScan, cur, asserted>>

\* writeRef: of a ref with a sha fetches nothing.
WriteRef(r, sha) ==
  /\ Idle /\ changes < MaxChanges
  /\ changes' = changes + 1
  /\ Write(r, sha, EntryOf(sha))
  /\ UNCHANGED <<packed, packedExists, git, packFile, symbolicRefs, fetchedLoose,
                 fetchedPacked, pc, toScan, cur, asserted, observed>>

InvalidateCachedRefs ==
  /\ Idle
  /\ cachedRefs' = [r \in Ref \cup {Lock} |-> NoRef] /\ symbolicRefs' = <<>>
  /\ fetchedLoose' = FALSE /\ fetchedPacked' = FALSE
  /\ held' = {} /\ seen' = [r \in Ref |-> {Value(r)}] /\ disturbed' = Broken
  /\ UNCHANGED <<disk, git, changes, packFile, pc, toScan, cur, asserted>>

Run ==
  \/ \E f \in File : ScanName(f)
  \/ ScanFile \/ ScanFails \/ ScanHead \/ FetchPackedRefs \/ ResolveLast \/ Resolved \/ Answer

Calls ==
  \/ Begin
  \/ \E r \in Ref, sha \in Sha : WriteRef(r, sha)
  \/ InvalidateCachedRefs

Next == Git \/ Run \/ Calls

Spec == Init /\ [][Next]_vars

\* A call runs until it returns or raises, a git process finishes what it has
\* begun, and somebody goes on looking refs up.
FairSpec == Spec /\ WF_vars(Run) /\ WF_vars(Begin) /\ WF_vars(GitFinishes)
-----------------------------------------------------------------------------
(***************************************************************************)
(* Properties.                                                             *)
(***************************************************************************)
\* A fetch finds every ref that was there all the time: whichever files git
\* moves between the loose files and packed-refs meanwhile, and although the
\* store may have been interrupted before and keeps what it cached then
\* (fetchRefs reads the loose files before packed-refs, 223-232).
NoRefMissed == pc = "answer" => \A r \in held : ~NotCached(r)

Content(entry) == IF entry.link # None THEN entry.link ELSE entry.sha

\* What a fetch caches of a ref is a value the ref had while the cache was
\* filled; in particular no packed value that a loose file hid all the time
\* (244 and 280 keep what is cached).
CachedWasTrue ==
  [][(pc = "loose" \/ pc = "packed") =>
       \A r \in Ref : cachedRefs'[r] # cachedRefs[r] => Content(cachedRefs'[r]) \in seen[r]]_vars

\* The assertion on symbolic refs fails only if a link was broken, or refs were
\* deleted or HEAD moved under way: updates and packing, links to links and the
\* last-in first-out order of the resolution never make it fail (205-215).
AssertsOnlyOnBrokenLinks ==
  [][pc = "resolve" /\ asserted' => disturbed]_vars

\* A store that goes on being asked fills its cache in the end, although lock
\* files and deletions make fetches raise.
CacheIsFilled == ~Fetched ~> Fetched

\* GITRefStore.m:211: NSAssert(isSha1StringValid(sha1), @"linked ref has
\* invalid sha1").
LinkedRefHasValidSha1 == ~asserted
=============================================================================
