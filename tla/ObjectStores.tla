---------------------------- MODULE ObjectStores ----------------------------
(***************************************************************************)
(* The object stores of a repository: GITFileStore reads loose files,      *)
(* GITPackStore the pack files it found when it was made, GITCombinedStore *)
(* asks one after the other, and the last two remember where they had      *)
(* their last hit.  Git processes add, pack and prune objects meanwhile    *)
(* (external code).  A pack that has been opened is mapped into memory and *)
(* stays readable when its file is removed.                                *)
(***************************************************************************)
EXTENDS Integers, Sequences, FiniteSets, SequencesExt

CONSTANTS
  Sha,          \* sha1 strings
  Object,       \* those that name objects
  Raw,          \* for the objects that are written: the sha1 of the bare contents
  Pack, Nil,
  Repositories, \* the files a behaviour may start from
  MaxChanges    \* bound: objects added by git or written by the store

\* A copy may be cut short or torn (it does not decompress); "written" is what
\* writeObject: leaves.
Copy == {"none", "whole", "short", "torn", "written"}
Damaged == {"short", "torn", "written"}
Store == {"file", "pack"}
NoCall == Nil

ASSUME StoresAssumption ==
  /\ Object \subseteq Sha /\ Raw \in [DOMAIN Raw -> Sha \ Object] /\ DOMAIN Raw \subseteq Object
  /\ Nil \notin Pack \cup Store /\ Nil \notin [op : {"load", "data"}, sha : Sha]
  /\ \A d \in Repositories :
       /\ d.loose \in [Sha -> Copy]
       /\ d.packed \in [Pack -> [Sha -> Copy \ {"written"}]]
       /\ d.packDir \in [Pack -> {"none", "pack", "both"}]
       /\ \A p \in Pack : d.packDir[p] # "none" => \E s \in Sha : d.packed[p][s] # "none"
  /\ "file" \notin Pack /\ MaxChanges \in Nat /\ IsFiniteSet(Pack)

VARIABLES
  loose,            \* the loose file of a sha
  packed,           \* what is in a pack
  packDir,          \* its files: none, only the .pack, or the .idx too
  changes,
  toOpen, packFiles, lastReadPack,   \* GITPackStore
  stores, recentStore,               \* GITCombinedStore
  pc, call, left, answer,            \* the running call; the stores it has yet to ask
  listed,   \* observation: packs there when the pack store listed them
  kept,     \* observation: the repository had the object all through the call
  moved,    \* observation: a loose file in use was removed during the call
  written   \* observation: objects writeObject: has reported as saved

disk == <<loose, packed, packDir, changes>>
packStore == <<toOpen, packFiles, lastReadPack>>
observed == <<listed, kept, moved, written>>
vars == <<disk, packStore, stores, recentStore, pc, call, left, answer, observed>>

TypeOK ==
  /\ loose \in [Sha -> Copy]
  /\ packed \in [Pack -> [Sha -> Copy]] /\ packDir \in [Pack -> {"none", "pack", "both"}]
  /\ changes \in 0..MaxChanges
  /\ toOpen \subseteq listed /\ listed \subseteq Pack
  /\ packFiles \in Seq(listed) /\ lastReadPack \in ToSet(packFiles) \cup {Nil}
  /\ stores \in Seq(Store) /\ IsInjective(stores) /\ recentStore \in ToSet(stores) \cup {Nil}
  /\ pc \in {"closed", "opening", "idle", "ask", "read", "done"}
  /\ call \in [op : {"load", "data"}, sha : Sha] \cup {NoCall}
  /\ (call = NoCall) = (pc \in {"closed", "opening", "idle"})
  /\ left \in Seq(ToSet(stores)) /\ (pc = "read" => left # <<>> /\ Head(left) = "file")
  /\ answer \in {"none", "found", "notfound", "failed"} /\ (answer # "none") = (pc = "done")
  /\ kept \in BOOLEAN /\ moved \in BOOLEAN /\ written \subseteq Object

Init ==
  /\ \E d \in Repositories : loose = d.loose /\ packed = d.packed /\ packDir = d.packDir
  /\ changes = 0
  /\ toOpen = {} /\ packFiles = <<>> /\ lastReadPack = Nil
  /\ stores = <<>> /\ recentStore = Nil
  /\ pc = "closed" /\ call = NoCall /\ left = <<>> /\ answer = "none"
  /\ listed = {} /\ kept = FALSE /\ moved = FALSE /\ written = {}
-----------------------------------------------------------------------------
(***************************************************************************)
(* Git: objects are added loose, packed, and pruned once a pack has them.  *)
(***************************************************************************)
OnDisk(p, s) == packDir[p] = "both" /\ packed[p][s] # "none"

InRepository(s) == loose[s] = "whole" \/ \E p \in Pack : OnDisk(p, s) /\ packed[p][s] = "whole"

Observe ==
  /\ UNCHANGED <<packStore, stores, recentStore, pc, call, left, answer, listed, written>>
  /\ kept' = (kept /\ InRepository(call.sha)')
  /\ moved' = (moved \/ /\ call # NoCall /\ "file" \in ToSet(stores)
                         /\ loose[call.sha] # "none" /\ loose'[call.sha] = "none")

GitAdds(s) ==
  /\ ~InRepository(s) /\ loose[s] = "none" /\ changes < MaxChanges
  /\ loose' = [loose EXCEPT ![s] = "whole"] /\ changes' = changes + 1
  /\ UNCHANGED <<packed, packDir>>
  /\ Observe

\* A pack is named after its contents, and is there before its index.
GitWritesPack(p) ==
  /\ packDir[p] = "none" /\ packed[p] = [s \in Sha |-> "none"]
  /\ \E s \in Object : InRepository(s)
  /\ packed' = [packed EXCEPT ![p] = [s \in Sha |->
                  IF s \in Object /\ InRepository(s) THEN "whole" ELSE "none"]]
  /\ packDir' = [packDir EXCEPT ![p] = "pack"]
  /\ UNCHANGED <<loose, changes>>
  /\ Observe

GitWritesIndex(p) ==
  /\ packDir[p] = "pack"
  /\ packDir' = [packDir EXCEPT ![p] = "both"]
  /\ UNCHANGED <<loose, packed, changes>>
  /\ Observe

GitPrunes(s) ==
  /\ loose[s] # "none" /\ \E p \in Pack : OnDisk(p, s)
  /\ loose' = [loose EXCEPT ![s] = "none"]
  /\ UNCHANGED <<packed, packDir, changes>>
  /\ Observe

\* git gc removes a pack when another has its objects.
GitRemovesPack(p) ==
  /\ packDir[p] = "both"
  /\ \E q \in Pack \ {p} : \A s \in Sha : OnDisk(p, s) => OnDisk(q, s) /\ packed[q][s] = "whole"
  /\ packDir' = [packDir EXCEPT ![p] = "none"]
  /\ UNCHANGED <<loose, packed, changes>>
  /\ Observe

Git ==
  \/ \E s \in Object : GitAdds(s)
  \/ \E s \in Sha : GitPrunes(s)
  \/ \E p \in Pack : GitWritesPack(p) \/ GitWritesIndex(p) \/ GitRemovesPack(p)
-----------------------------------------------------------------------------
(***************************************************************************)
(* Seeded faults: what an operator defined further down would be if the    *)
(* code had a bug.  The specification uses none of them.                   *)
(***************************************************************************)
\* The store that had the last hit is asked, and no other.
OnlyRecent(op) == IF recentStore = Nil THEN stores ELSE <<recentStore>>

\* A pack that cannot be opened is left out.
LeaveOut(p) == packFiles' = packFiles /\ pc' = pc /\ toOpen' = toOpen \ {p}

\* Opening the packs is not tried again: the store is half open.
StaysOpening(p) == UNCHANGED <<packFiles, pc, toOpen>>

\* The packs opened before the one that failed are kept.
KeepsOthers(p) == packFiles' = packFiles /\ pc' = "closed" /\ toOpen' = {}
-----------------------------------------------------------------------------
(***************************************************************************)
(* Making the stores.                                                      *)
(***************************************************************************)
\* loadPackFilesWithError: lists the directory, then opens pack after pack.
ListPacks ==
  /\ pc = "closed"
  /\ toOpen' = {p \in Pack : packDir[p] # "none"} /\ listed' = toOpen'
  /\ pc' = "opening"
  /\ UNCHANGED <<disk, packFiles, lastReadPack, stores, recentStore, call, left, answer,
                 kept, moved, written>>

\* addObject: of no pack raises; the store is not made.
Unopened(p) == packFiles' = <<>> /\ pc' = "closed" /\ toOpen' = {}

\* A pack needs its index; either may be gone or not there yet.
OpenPack(p) ==
  /\ pc = "opening" /\ p \in toOpen
  /\ IF packDir[p] = "both"
     THEN packFiles' = Append(packFiles, p) /\ toOpen' = toOpen \ {p} /\ pc' = pc
     ELSE Unopened(p)
  /\ UNCHANGED <<disk, lastReadPack, stores, recentStore, call, left, answer, observed>>

Opened ==
  /\ pc = "opening" /\ toOpen = {}
  /\ pc' = "idle"
  /\ UNCHANGED <<disk, packStore, stores, recentStore, call, left, answer, observed>>

\* addStore:priority: high at the front, normal and low at the end.
AddStore(store) ==
  /\ pc = "idle" /\ store \notin ToSet(stores)
  /\ stores' \in {<<store>> \o stores, Append(stores, store)}
  /\ UNCHANGED <<disk, packStore, recentStore, pc, call, left, answer, observed>>
-----------------------------------------------------------------------------
(***************************************************************************)
(* Lookups: "load" is loadObjectWithSha1:intoData:type:error:, "data" the  *)
(* deprecated dataWithContentsOfObject:.                                   *)
(***************************************************************************)
\* The store of the last hit goes first; only "load" does not ask it again.
AskingOrder(op) ==
  IF recentStore = Nil THEN stores
  ELSE <<recentStore>> \o (IF op = "load" THEN RemoveFirst(stores, recentStore) ELSE stores)

Begin(op, s) ==
  /\ pc = "idle" /\ stores # <<>>
  /\ pc' = "ask" /\ call' = [op |-> op, sha |-> s] /\ left' = AskingOrder(op)
  /\ kept' = InRepository(s)
  /\ UNCHANGED <<disk, packStore, stores, recentStore, answer, listed, moved, written>>

Asking(store) == pc = "ask" /\ left # <<>> /\ Head(left) = store

Hit == pc' = "done" /\ answer' = "found" /\ recentStore' = Head(left) /\ UNCHANGED left
Miss == pc' = "ask" /\ left' = Tail(left) /\ UNCHANGED <<answer, recentStore>>
Fail == pc' = "done" /\ answer' = "failed" /\ UNCHANGED <<left, recentStore>>

\* GITFileStore sees whether there is a readable file, and reads it later.
AskFile ==
  /\ Asking("file")
  /\ IF loose[call.sha] = "none" THEN Miss
     ELSE pc' = "read" /\ UNCHANGED <<left, answer, recentStore>>
  /\ UNCHANGED <<disk, packStore, stores, call, observed>>

\* What the file holds by then.
Contents == loose[call.sha]

\* A file that is gone or torn gives no data and one cut short the wrong size:
\* both are a size mismatch to "load".  So is a written one, unless it has no
\* NUL at all and the search for one raises.
ReadFile ==
  /\ pc = "read"
  /\ IF Contents = "whole" \/ (call.op = "data" /\ Contents \in {"short", "written"}) THEN Hit
     ELSE IF call.op = "data" THEN Miss ELSE Fail
  /\ UNCHANGED <<disk, packStore, stores, call, observed>>

PackOrder ==
  IF lastReadPack = Nil THEN packFiles ELSE <<lastReadPack>> \o RemoveFirst(packFiles, lastReadPack)

\* The i-th pack ends the search.  A torn copy gives neither data nor an error:
\* "load" then goes by the error of the pack before, which was not found; the
\* first pack has none before it, and no error is not not found.
Ends(i) ==
  LET copy == packed[PackOrder[i]][call.sha]
  IN copy = "whole" \/ (call.op = "load" /\ (copy = "short" \/ (copy = "torn" /\ i = 1)))

AskPacks ==
  /\ Asking("pack")
  /\ LET ends == {i \in DOMAIN PackOrder : Ends(i)}
     IN IF ends = {} THEN Miss /\ UNCHANGED lastReadPack
        ELSE LET pack == PackOrder[CHOOSE i \in ends : \A j \in ends : i <= j]
             IN IF packed[pack][call.sha] = "whole"
                THEN Hit /\ lastReadPack' = pack
                ELSE Fail /\ UNCHANGED lastReadPack
  /\ UNCHANGED <<disk, toOpen, packFiles, stores, call, observed>>

NotFound ==
  /\ pc = "ask" /\ left = <<>>
  /\ pc' = "done" /\ answer' = "notfound"
  /\ UNCHANGED <<disk, packStore, stores, recentStore, call, left, observed>>

Return ==
  /\ pc = "done"
  /\ pc' = "idle" /\ answer' = "none" /\ call' = NoCall /\ left' = <<>>
  /\ kept' = FALSE /\ moved' = FALSE
  /\ UNCHANGED <<disk, packStore, stores, recentStore, listed, written>>

\* writeObject:type:error: goes to the first store, and only GITFileStore has
\* one.  The file is named by the sha1 of the contents without a header, and
\* its header has no NUL.
WriteObject(o) ==
  /\ pc = "idle" /\ stores # <<>> /\ Head(stores) = "file" /\ changes < MaxChanges
  /\ loose' = [loose EXCEPT ![Raw[o]] = "written"] /\ changes' = changes + 1
  /\ written' = written \cup {o}
  /\ UNCHANGED <<packed, packDir, packStore, stores, recentStore, pc, call, left, answer,
                 listed, kept, moved>>

Run ==
  \/ ListPacks \/ (\E p \in Pack : OpenPack(p)) \/ Opened
  \/ AskFile \/ ReadFile \/ AskPacks \/ NotFound \/ Return

Calls ==
  \/ \E store \in Store : AddStore(store)
  \/ \E op \in {"load", "data"}, s \in Sha : Begin(op, s)
  \/ \E o \in DOMAIN Raw : WriteObject(o)

Next == Git \/ Run \/ Calls

Spec == Init /\ [][Next]_vars

\* Calls run until they return, a repository that could not be opened is opened
\* again, and git writes the index of a pack it has written.
FairSpec == Spec /\ WF_vars(Run) /\ WF_vars(\E p \in Pack : GitWritesIndex(p))
-----------------------------------------------------------------------------
(***************************************************************************)
(* Properties.                                                             *)
(***************************************************************************)
\* Where a store in use has a copy of s that is in kinds.
PlacesOf(kinds) ==
  [s \in Sha |->
    {x \in {"file"} : x \in ToSet(stores) /\ loose[s] \in kinds}
    \cup {p \in ToSet(packFiles) : "pack" \in ToSet(stores) /\ packed[p][s] \in kinds}]

\* Once the loose file has been missed and no pack is left that has a copy, the
\* object will not be found, although it may become loose now.
Missed ==
  /\ pc = "ask" /\ "file" \in ToSet(stores) \ ToSet(left)
  /\ "pack" \in ToSet(left) => \A i \in DOMAIN PackOrder : ~Ends(i)

Lookup == INSTANCE ObjectLookup WITH
  Place <- {"file"} \cup Pack,
  whole <- PlacesOf({"whole"}),
  flawed <- PlacesOf(Damaged),
  answer <- IF Missed THEN "notfound" ELSE answer

\* The stores with their order, their caches and their passes over files and
\* packs do what a single store promises, whatever git does under way: a hit, a
\* miss and a failure are each true of a moment of the call.
ImplementsLookup == Lookup!Spec

\* An object the repository had all through a call is missed only if git has
\* put it into a pack that was not there when the packs were listed
\* (GITPackStore reads the directory once, 96-120).
MissedOnlyIfPackedLater ==
  pc = "done" /\ answer = "notfound" /\ kept /\ ToSet(stores) = Store
    => \E p \in Pack \ listed : packed[p][call.sha] = "whole"

\* Every call returns, and opening succeeds in the end although a pack without
\* an index, or one removed since it was listed, makes it raise.
Responds == pc # "idle" ~> pc = "idle"

\* GITObjectStore.h: writeObject:type:error: returns "YES on successful save".
WrittenIsFound ==
  pc = "done" /\ answer = "notfound" => call.sha \notin written
=============================================================================
