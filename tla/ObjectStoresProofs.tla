------------------------- MODULE ObjectStoresProofs -------------------------
(***************************************************************************)
(* Theorems about ObjectStores, for any shas, any packs, any repository to *)
(* start from and every interleaving with git: its types, what a lookup    *)
(* that misses says of the repository, and that the stores, with their     *)
(* caches and passes, implement ObjectLookup.                              *)
(***************************************************************************)
EXTENDS ObjectStores, WorkListTheorems

\* What is in no pack: git makes no pack of it.
NoObjects == [s \in Sha |-> "none"]

\* While the packs are opened there are no stores to ask, and afterwards all
\* that were listed are open.
Opening ==
  /\ pc = "closed" => packFiles = <<>>
  /\ pc \in {"closed", "opening"} => stores = <<>> /\ lastReadPack = Nil
  /\ Distinct(packFiles) /\ toOpen \cap ToSet(packFiles) = {}
  /\ pc # "closed" => listed = toOpen \cup ToSet(packFiles)
  /\ pc \notin {"closed", "opening"} => toOpen = {}

\* A pack that is there, or was when the packs were listed, has objects; so
\* its name is not used again for other objects.
PacksKept == \A p \in Pack : packDir[p] # "none" \/ p \in listed => packed[p] # NoObjects

\* What the stores already asked have shown: no pack of the store has the
\* object; the loose file was not a whole one, so if the repository had the
\* object then a pack had it, and has it still.
Asked ==
  /\ (pc \in {"ask", "read"} \/ answer = "notfound") /\ "pack" \in ToSet(stores) \ ToSet(left) =>
       \A p \in listed : packed[p][call.sha] # "whole"
  /\ pc \in {"ask", "read", "done"} /\ kept /\ "file" \in ToSet(stores) \ ToSet(left) =>
       \E p \in Pack : packed[p][call.sha] = "whole"
  /\ answer = "notfound" => left = <<>>

\* The observations are what they say.
Observed ==
  /\ kept => call # NoCall /\ InRepository(call.sha)
  /\ pc = "read" => loose[call.sha] # "none" \/ moved

IInv == TypeOK /\ Opening /\ PacksKept /\ Asked /\ Observed

-----------------------------------------------------------------------------
\* The constants, one fact at a time.
LEMMA Names ==
  /\ Object \subseteq Sha /\ DOMAIN Raw \subseteq Object
  /\ \A o \in DOMAIN Raw : Raw[o] \in Sha
  /\ Nil \notin Pack /\ Nil \notin Store /\ "file" \notin Pack /\ MaxChanges \in Nat
  /\ Nil \notin [op : {"load", "data"}, sha : Sha]
  BY StoresAssumption

LEMMA InitEstablishes == Init => IInv
<1>. SUFFICES ASSUME Init PROVE IInv
  OBVIOUS
<1>1. PICK d \in Repositories : loose = d.loose /\ packed = d.packed /\ packDir = d.packDir
  BY DEF Init
<1>2. /\ loose \in [Sha -> Copy]
      /\ packed \in [Pack -> [Sha -> Copy]]
      /\ packDir \in [Pack -> {"none", "pack", "both"}]
      /\ \A p \in Pack : packDir[p] # "none" => \E s \in Sha : packed[p][s] # "none"
  <2>1. packed \in [Pack -> [Sha -> Copy \ {"written"}]]
    BY <1>1, StoresAssumption
  <2>2. packed \in [Pack -> [Sha -> Copy]]
    BY <2>1
  <2>. QED
    BY <1>1, <2>2, StoresAssumption
<1>3. ToSet(<<>>) = {} /\ <<>> \in Seq({}) /\ Distinct(<<>>) /\ Len(<<>>) = 0
  BY EmptySeq DEF ToSet, Distinct
<1>4. <<>> \in Seq(Store) /\ <<>> \in Seq(listed) /\ <<>> \in Seq(ToSet(stores))
  BY EmptySeq
<1>5. IsInjective(stores)
  BY DEF Init, IsInjective
<1>6. TypeOK
  <2>1. toOpen \subseteq listed /\ listed \subseteq Pack /\ changes \in 0..MaxChanges
    BY Names DEF Init
  <2>2. lastReadPack \in ToSet(packFiles) \cup {Nil} /\ recentStore \in ToSet(stores) \cup {Nil}
    BY DEF Init
  <2>3. /\ pc \in {"closed", "opening", "idle", "ask", "read", "done"}
        /\ call \in [op : {"load", "data"}, sha : Sha] \cup {NoCall}
        /\ (call = NoCall) = (pc \in {"closed", "opening", "idle"})
        /\ (pc = "read" => left # <<>> /\ Head(left) = "file")
        /\ answer \in {"none", "found", "notfound", "failed"} /\ (answer # "none") = (pc = "done")
        /\ kept \in BOOLEAN /\ moved \in BOOLEAN /\ written \subseteq Object
    BY DEF Init
  <2>4. packFiles \in Seq(listed) /\ stores \in Seq(Store) /\ left \in Seq(ToSet(stores))
    BY <1>4 DEF Init
  <2>. QED
    BY <1>2, <1>5, <2>1, <2>2, <2>3, <2>4 DEF TypeOK
<1>7. Opening
  BY <1>3 DEF Init, Opening
<1>8. PacksKept
  BY <1>2 DEF Init, PacksKept, NoObjects
<1>9. Asked /\ Observed
  BY DEF Init, Asked, Observed
<1>. QED
  BY <1>6, <1>7, <1>8, <1>9 DEF IInv

-----------------------------------------------------------------------------
(***************************************************************************)
(* The steps of git.                                                       *)
(***************************************************************************)
\* What is left to show of a step of git: the files keep their types, and it
\* leaves the packs that have objects as they are.
LEMMA GitStepKeeps ==
  ASSUME IInv, Observe,
         loose' \in [Sha -> Copy], packed' \in [Pack -> [Sha -> Copy]],
         packDir' \in [Pack -> {"none", "pack", "both"}], changes' \in 0..MaxChanges,
         \A p \in Pack : packed[p] # NoObjects => packed'[p] = packed[p],
         \A p \in Pack : packDir'[p] # "none" => packed'[p] # NoObjects
  PROVE  IInv'
<1>1. /\ UNCHANGED <<toOpen, packFiles, lastReadPack, stores, recentStore, pc, call, left,
                     answer, listed, written>>
      /\ kept' = (kept /\ InRepository(call.sha)')
      /\ moved' = (moved \/ /\ call # NoCall /\ "file" \in ToSet(stores)
                             /\ loose[call.sha] # "none" /\ loose'[call.sha] = "none")
  BY DEF Observe, packStore
<1>2. TypeOK'
  BY <1>1 DEF IInv, TypeOK
<1>3. Opening'
  BY <1>1 DEF IInv, Opening
<1>4. PacksKept'
  BY <1>1 DEF IInv, PacksKept, NoObjects
<1>5. listed \subseteq Pack /\ (call # NoCall => call.sha \in Sha)
  BY DEF IInv, TypeOK
<1>6. \A p \in listed : packed'[p] = packed[p]
  BY <1>5 DEF IInv, PacksKept
<1>7. \A p \in Pack : \A s \in Sha : packed[p][s] = "whole" => packed'[p] = packed[p]
  BY DEF NoObjects
<1>8. Observed'
  <2>1. kept' => call' # NoCall' /\ InRepository(call.sha)'
    BY <1>1 DEF IInv, Observed, NoCall
  <2>2. pc' = "read" => loose'[call'.sha] # "none" \/ moved'
    <3> SUFFICES ASSUME pc' = "read", loose'[call'.sha] = "none" PROVE moved'
      OBVIOUS
    <3>1. pc = "read" /\ call' = call /\ call # NoCall /\ "file" \in ToSet(stores)
      <4>1. pc = "read" /\ call' = call /\ call # NoCall
        BY <1>1 DEF IInv, TypeOK
      <4>2. left # <<>> /\ Head(left) = "file" /\ left \in Seq(ToSet(stores))
        BY <4>1 DEF IInv, TypeOK
      <4>. QED
        BY <4>1, <4>2, HeadTailProperties
    <3>2. loose[call.sha] # "none" \/ moved
      BY <3>1 DEF IInv, Observed
    <3>. QED
      BY <1>1, <3>1, <3>2
  <2>. QED
    BY <1>1, <2>1, <2>2 DEF Observed, InRepository, OnDisk
<1>9. Asked'
  <2>1. (pc' \in {"ask", "read"} \/ answer' = "notfound") /\ "pack" \in ToSet(stores') \ ToSet(left') =>
          \A p \in listed' : packed'[p][call'.sha] # "whole"
    BY <1>1, <1>6 DEF IInv, Asked
  <2>2. pc' \in {"ask", "read", "done"} /\ kept' /\ "file" \in ToSet(stores') \ ToSet(left') =>
          \E p \in Pack : packed'[p][call'.sha] = "whole"
    <3> SUFFICES ASSUME pc' \in {"ask", "read", "done"}, kept',
                        "file" \in ToSet(stores') \ ToSet(left')
                 PROVE  \E p \in Pack : packed'[p][call'.sha] = "whole"
      OBVIOUS
    <3>1. PICK p \in Pack : packed[p][call.sha] = "whole"
      BY <1>1 DEF IInv, Asked
    <3>2. call # NoCall
      BY <1>1 DEF IInv, TypeOK
    <3>. QED
      BY <1>1, <1>5, <1>7, <3>1, <3>2
  <2>3. answer' = "notfound" => left' = <<>>
    BY <1>1 DEF IInv, Asked
  <2>. QED
    BY <2>1, <2>2, <2>3 DEF Asked
<1>. QED
  BY <1>2, <1>3, <1>4, <1>8, <1>9 DEF IInv

\* Every step of git keeps the invariant.
LEMMA GitStep == IInv /\ Git => IInv'
<1>. SUFFICES ASSUME IInv, Git PROVE IInv'
  OBVIOUS
<1>1. /\ loose \in [Sha -> Copy] /\ packed \in [Pack -> [Sha -> Copy]]
      /\ packDir \in [Pack -> {"none", "pack", "both"}] /\ changes \in 0..MaxChanges
  BY DEF IInv, TypeOK
<1>2. \A p \in Pack : packDir[p] # "none" => packed[p] # NoObjects
  BY DEF IInv, PacksKept
<1>3. ASSUME NEW s \in Object, GitAdds(s) PROVE IInv'
  <2>1. /\ loose' = [loose EXCEPT ![s] = "whole"] /\ changes' = changes + 1 /\ changes < MaxChanges
        /\ packed' = packed /\ packDir' = packDir /\ Observe
    BY <1>3 DEF GitAdds
  <2>2. loose' \in [Sha -> Copy]
    BY <1>1, <2>1 DEF Copy
  <2>3. changes' \in 0..MaxChanges
    BY <1>1, <2>1, Names
  <2>. QED
    BY <1>1, <1>2, <2>1, <2>2, <2>3, GitStepKeeps
<1>4. ASSUME NEW s \in Sha, GitPrunes(s) PROVE IInv'
  <2>1. /\ loose' = [loose EXCEPT ![s] = "none"] /\ changes' = changes
        /\ packed' = packed /\ packDir' = packDir /\ Observe
    BY <1>4 DEF GitPrunes
  <2>2. loose' \in [Sha -> Copy]
    BY <1>1, <2>1 DEF Copy
  <2>. QED
    BY <1>1, <1>2, <2>1, <2>2, GitStepKeeps
<1>5. ASSUME NEW p \in Pack, GitWritesPack(p) PROVE IInv'
  <2> DEFINE new == [s \in Sha |-> IF s \in Object /\ InRepository(s) THEN "whole" ELSE "none"]
  <2>1. /\ packed[p] = NoObjects
        /\ packed' = [packed EXCEPT ![p] = new] /\ packDir' = [packDir EXCEPT ![p] = "pack"]
        /\ loose' = loose /\ changes' = changes /\ Observe
    BY <1>5 DEF GitWritesPack, NoObjects
  <2>2. new \in [Sha -> Copy] /\ new # NoObjects
    <3>1. PICK s \in Object : InRepository(s)
      BY <1>5 DEF GitWritesPack
    <3>2. s \in Sha /\ new[s] = "whole" /\ NoObjects[s] = "none"
      BY <3>1, Names DEF NoObjects
    <3>. QED
      BY <3>2 DEF Copy
  <2> HIDE DEF new
  <2>3. packed' \in [Pack -> [Sha -> Copy]] /\ packDir' \in [Pack -> {"none", "pack", "both"}]
    BY <1>1, <2>1, <2>2
  <2>4. \A q \in Pack : packed[q] # NoObjects => packed'[q] = packed[q]
    BY <1>1, <2>1
  <2>5. \A q \in Pack : packDir'[q] # "none" => packed'[q] # NoObjects
    BY <1>1, <1>2, <2>1, <2>2
  <2>. QED
    BY <1>1, <2>1, <2>3, <2>4, <2>5, GitStepKeeps
<1>6. ASSUME NEW p \in Pack, GitWritesIndex(p) PROVE IInv'
  <2>1. /\ packDir[p] = "pack" /\ packDir' = [packDir EXCEPT ![p] = "both"]
        /\ loose' = loose /\ packed' = packed /\ changes' = changes /\ Observe
    BY <1>6 DEF GitWritesIndex
  <2>2. /\ packDir' \in [Pack -> {"none", "pack", "both"}]
        /\ \A q \in Pack : packDir'[q] # "none" => packed'[q] # NoObjects
    BY <1>1, <1>2, <2>1
  <2>. QED
    BY <1>1, <2>1, <2>2, GitStepKeeps
<1>7. ASSUME NEW p \in Pack, GitRemovesPack(p) PROVE IInv'
  <2>1. /\ packDir' = [packDir EXCEPT ![p] = "none"]
        /\ loose' = loose /\ packed' = packed /\ changes' = changes /\ Observe
    BY <1>7 DEF GitRemovesPack
  <2>2. /\ packDir' \in [Pack -> {"none", "pack", "both"}]
        /\ \A q \in Pack : packDir'[q] # "none" => packed'[q] # NoObjects
    BY <1>1, <1>2, <2>1
  <2>. QED
    BY <1>1, <2>1, <2>2, GitStepKeeps
<1>. QED
  BY <1>3, <1>4, <1>5, <1>6, <1>7 DEF Git

-----------------------------------------------------------------------------
(***************************************************************************)
(* Making the stores.                                                      *)
(***************************************************************************)
LEMMA ListPacksStep == IInv /\ ListPacks => IInv'
<1>. SUFFICES ASSUME IInv, ListPacks PROVE IInv'
  OBVIOUS
<1>1. /\ pc = "closed" /\ pc' = "opening"
      /\ toOpen' = {p \in Pack : packDir[p] # "none"} /\ listed' = toOpen'
      /\ UNCHANGED <<loose, packed, packDir, changes, packFiles, lastReadPack, stores,
                     recentStore, call, left, answer, kept, moved, written>>
  BY DEF ListPacks, disk
<1>2. packFiles = <<>> /\ stores = <<>> /\ lastReadPack = Nil /\ answer # "notfound"
  BY <1>1 DEF IInv, Opening, TypeOK
<1>3. ToSet(<<>>) = {} /\ packFiles' \in Seq(listed')
  BY <1>1, <1>2, EmptySeq DEF ToSet
<1>4. TypeOK'
  BY <1>1, <1>2, <1>3 DEF IInv, TypeOK
<1>5. Opening'
  BY <1>1, <1>2, <1>3 DEF IInv, Opening
<1>6. PacksKept'
  BY <1>1 DEF IInv, PacksKept, NoObjects
<1>7. Asked' /\ Observed'
  BY <1>1, <1>2 DEF IInv, TypeOK, Asked, Observed, InRepository, OnDisk, NoCall
<1>. QED
  BY <1>4, <1>5, <1>6, <1>7 DEF IInv

LEMMA OpenPackStep ==
  ASSUME IInv, NEW p \in Pack, OpenPack(p)
  PROVE  IInv'
<1>1. /\ pc = "opening" /\ p \in toOpen
      /\ UNCHANGED <<loose, packed, packDir, changes, lastReadPack, stores, recentStore, call,
                     left, answer, listed, kept, moved, written>>
  BY DEF OpenPack, disk, observed
<1>2. \/ /\ packFiles' = Append(packFiles, p) /\ toOpen' = toOpen \ {p} /\ pc' = pc
      \/ /\ packFiles' = <<>> /\ toOpen' = {} /\ pc' = "closed"
  BY DEF OpenPack, Unopened
<1>3. /\ p \in listed /\ packFiles \in Seq(listed) /\ stores = <<>> /\ lastReadPack = Nil
      /\ answer # "notfound" /\ p \notin ToSet(packFiles) /\ listed = toOpen \cup ToSet(packFiles)
  BY <1>1 DEF IInv, Opening, TypeOK
<1>4. /\ packFiles' \in Seq(listed) /\ Distinct(packFiles')
      /\ toOpen' \cap ToSet(packFiles') = {}
      /\ pc' # "closed" => listed = toOpen' \cup ToSet(packFiles')
  <2>1. CASE packFiles' = Append(packFiles, p) /\ toOpen' = toOpen \ {p}
    <3>1. /\ Append(packFiles, p) \in Seq(listed)
          /\ ToSet(Append(packFiles, p)) = ToSet(packFiles) \cup {p}
          /\ Distinct(packFiles) => Distinct(Append(packFiles, p))
      BY <1>3, AppendElements
    <3>. QED
      BY <1>1, <1>3, <2>1, <3>1 DEF IInv, Opening
  <2>2. CASE packFiles' = <<>> /\ toOpen' = {} /\ pc' = "closed"
    BY <2>2, EmptySeq DEF Distinct
  <2>. QED
    BY <1>2, <2>1, <2>2
<1>5. TypeOK'
  BY <1>1, <1>2, <1>3, <1>4 DEF IInv, TypeOK
<1>6. Opening'
  BY <1>1, <1>2, <1>3, <1>4 DEF IInv, Opening
<1>7. PacksKept'
  BY <1>1 DEF IInv, PacksKept, NoObjects
<1>8. Asked' /\ Observed'
  BY <1>1, <1>2, <1>3 DEF IInv, TypeOK, Asked, Observed, InRepository, OnDisk, NoCall
<1>. QED
  BY <1>5, <1>6, <1>7, <1>8 DEF IInv

LEMMA OpenedStep == IInv /\ Opened => IInv'
<1>. SUFFICES ASSUME IInv, Opened PROVE IInv'
  OBVIOUS
<1>1. /\ pc = "opening" /\ pc' = "idle" /\ toOpen = {}
      /\ UNCHANGED <<loose, packed, packDir, changes, toOpen, packFiles, lastReadPack, stores,
                     recentStore, call, left, answer, listed, kept, moved, written>>
  BY DEF Opened, disk, packStore, observed
<1>2. TypeOK'
  BY <1>1 DEF IInv, TypeOK
<1>3. Opening' /\ PacksKept'
  BY <1>1 DEF IInv, Opening, PacksKept, NoObjects
<1>4. Asked' /\ Observed'
  BY <1>1 DEF IInv, TypeOK, Asked, Observed, InRepository, OnDisk, NoCall
<1>. QED
  BY <1>2, <1>3, <1>4 DEF IInv

LEMMA AddStoreStep ==
  ASSUME IInv, NEW store \in Store, AddStore(store)
  PROVE  IInv'
<1>1. /\ pc = "idle" /\ store \notin ToSet(stores)
      /\ stores' = <<store>> \o stores \/ stores' = Append(stores, store)
      /\ UNCHANGED <<loose, packed, packDir, changes, toOpen, packFiles, lastReadPack,
                     recentStore, pc, call, left, answer, listed, kept, moved, written>>
  BY DEF AddStore, disk, packStore, observed
<1>2. stores \in Seq(Store) /\ Distinct(stores)
  BY DEF IInv, TypeOK, IsInjective, Distinct
<1>3. stores' \in Seq(Store) /\ ToSet(stores') = ToSet(stores) \cup {store} /\ Distinct(stores')
  <2>1. CASE stores' = Append(stores, store)
    BY <1>1, <1>2, <2>1, AppendElements
  <2>2. CASE stores' = <<store>> \o stores
    <3>1. stores' = InsertAt(stores, 1, store)
      <4>1. SubSeq(stores, 1, 0) = <<>> /\ SubSeq(stores, 1, Len(stores)) = stores
        BY <1>2, SubSeqEmpty, SubSeqFull
      <4>2. InsertAt(stores, 1, store) = (<<>> \o <<store>>) \o stores
        BY <4>1 DEF InsertAt
      <4>3. <<>> \o <<store>> = <<store>>
        BY ConcatEmptySeq
      <4>. QED
        BY <2>2, <4>2, <4>3
    <3>2. 1 \in 1..(Len(stores) + 1)
      BY <1>2
    <3>. QED
      BY <1>1, <1>2, <3>1, <3>2, InsertElements
  <2>. QED
    BY <1>1, <2>1, <2>2
<1>4. IsInjective(stores')
  <2>1. DOMAIN stores' = 1..Len(stores')
    BY <1>3
  <2>. QED
    BY <1>3, <2>1 DEF IsInjective, Distinct
<1>5. left' \in Seq(ToSet(stores'))
  BY <1>1, <1>3, SeqMonotonic DEF IInv, TypeOK
<1>6. TypeOK'
  BY <1>1, <1>3, <1>4, <1>5 DEF IInv, TypeOK
<1>7. Opening' /\ PacksKept'
  BY <1>1 DEF IInv, Opening, PacksKept, NoObjects
<1>8. Asked' /\ Observed'
  BY <1>1 DEF IInv, TypeOK, Asked, Observed, InRepository, OnDisk, NoCall
<1>. QED
  BY <1>6, <1>7, <1>8 DEF IInv

-----------------------------------------------------------------------------
(***************************************************************************)
(* Lookups.                                                                *)
(***************************************************************************)
\* Every store is asked, and every pack of the pack store is searched.
LEMMA EveryStoreIsAsked ==
  ASSUME TypeOK, NEW op \in {"load", "data"}
  PROVE  AskingOrder(op) \in Seq(ToSet(stores)) /\ ToSet(AskingOrder(op)) = ToSet(stores)
<1> DEFINE T == ToSet(stores)
           rest == IF op = "load" THEN RemoveFirst(stores, recentStore) ELSE stores
<1>1. /\ stores \in Seq(Store) /\ Distinct(stores) /\ recentStore \in T \cup {Nil}
  BY DEF TypeOK, IsInjective, Distinct
<1>2. stores \in Seq(T)
  <2>1. Len(stores) \in Nat /\ \A i \in 1..Len(stores) : stores[i] \in T
    BY <1>1, ToSetIsElements
  <2>. QED
    BY <1>1, <2>1
<1>3. CASE recentStore = Nil
  BY <1>2, <1>3 DEF AskingOrder
<1>4. CASE recentStore # Nil
  <2>1. rest \in Seq(T) /\ ToSet(rest) \in {T, T \ {recentStore}}
    BY <1>1, <1>2, RemoveFirstElements
  <2>2. AskingOrder(op) = <<recentStore>> \o rest
    BY <1>4 DEF AskingOrder
  <2> HIDE DEF rest
  <2>3. /\ <<recentStore>> \o rest \in Seq(T)
        /\ ToSet(<<recentStore>> \o rest) = {recentStore} \cup ToSet(rest)
    BY <1>1, <1>4, <2>1, FirstElements
  <2>. QED
    BY <1>1, <1>4, <2>1, <2>2, <2>3
<1>. QED
  BY <1>3, <1>4

LEMMA EveryPackIsSearched ==
  ASSUME TypeOK, Distinct(packFiles)
  PROVE  PackOrder \in Seq(listed) /\ ToSet(PackOrder) = ToSet(packFiles)
<1>1. packFiles \in Seq(listed) /\ ToSet(packFiles) \subseteq listed
      /\ lastReadPack \in ToSet(packFiles) \cup {Nil}
  BY ToSetIsElements DEF TypeOK
<1>2. CASE lastReadPack = Nil
  BY <1>1, <1>2 DEF PackOrder
<1>3. CASE lastReadPack # Nil
  <2> DEFINE rest == RemoveFirst(packFiles, lastReadPack)
  <2>1. rest \in Seq(listed) /\ ToSet(rest) = ToSet(packFiles) \ {lastReadPack}
    BY <1>1, RemoveFirstElements
  <2>2. PackOrder = <<lastReadPack>> \o rest
    BY <1>3 DEF PackOrder
  <2> HIDE DEF rest
  <2>3. /\ <<lastReadPack>> \o rest \in Seq(listed)
        /\ ToSet(<<lastReadPack>> \o rest) = {lastReadPack} \cup ToSet(rest)
    BY <1>1, <1>3, <2>1, FirstElements
  <2>. QED
    BY <1>1, <1>3, <2>1, <2>2, <2>3
<1>. QED
  BY <1>2, <1>3

LEMMA BeginStep ==
  ASSUME IInv, NEW op \in {"load", "data"}, NEW s \in Sha, Begin(op, s)
  PROVE  IInv'
<1>1. /\ pc = "idle" /\ stores # <<>> /\ pc' = "ask" /\ call' = [op |-> op, sha |-> s]
      /\ left' = AskingOrder(op) /\ kept' = InRepository(s)
      /\ UNCHANGED <<loose, packed, packDir, changes, toOpen, packFiles, lastReadPack, stores,
                     recentStore, answer, listed, moved, written>>
  BY DEF Begin, disk, packStore
<1>2. left' \in Seq(ToSet(stores)) /\ ToSet(left') = ToSet(stores)
  BY <1>1, EveryStoreIsAsked DEF IInv
<1>3. call' \in [op : {"load", "data"}, sha : Sha] /\ call' # NoCall /\ call'.sha = s
  BY <1>1, Names DEF NoCall
<1>4. TypeOK'
  <2>1. kept' \in BOOLEAN
    BY <1>1 DEF InRepository
  <2>. QED
    BY <1>1, <1>2, <1>3, <2>1 DEF IInv, TypeOK, NoCall
<1>5. Opening' /\ PacksKept'
  BY <1>1 DEF IInv, Opening, PacksKept, NoObjects
<1>6. Observed'
  BY <1>1, <1>3 DEF Observed, InRepository, OnDisk, NoCall
<1>7. Asked'
  BY <1>1, <1>2 DEF IInv, TypeOK, Asked
<1>. QED
  BY <1>4, <1>5, <1>6, <1>7 DEF IInv

\* What the first of the stores that are left is, and what is left after it.
LEMMA NextStore ==
  ASSUME TypeOK, left # <<>>
  PROVE  /\ Head(left) \in ToSet(stores) /\ Tail(left) \in Seq(ToSet(stores))
         /\ ToSet(left) = {Head(left)} \cup ToSet(Tail(left))
  BY TailElements DEF TypeOK

\* What is left to show of the steps of a lookup: what a miss has shown.
LEMMA LookupStepKeeps ==
  ASSUME IInv, call # NoCall,
         UNCHANGED <<disk, toOpen, packFiles, stores, call, observed>>,
         lastReadPack' \in ToSet(packFiles) \cup {Nil},
         recentStore' \in ToSet(stores) \cup {Nil},
         pc' \in {"ask", "read", "done"}, left' \in Seq(ToSet(stores)),
         pc \in {"ask", "read"},
         pc' = "read" => left' # <<>> /\ Head(left') = "file" /\ loose[call.sha] # "none",
         answer' \in {"none", "found", "notfound", "failed"}, (answer' # "none") = (pc' = "done"),
         answer' = "notfound" => left' = <<>>,
         left' = left \/ (left # <<>> /\ left' = Tail(left)),
         left' # left /\ Head(left) = "file" => loose[call.sha] # "whole",
         left' # left /\ Head(left) = "pack" => \A p \in listed : packed[p][call.sha] # "whole"
  PROVE  IInv'
<1>1. UNCHANGED <<loose, packed, packDir, changes, toOpen, packFiles, stores, call, listed, kept,
                  moved, written>>
  BY DEF disk, observed
<1>2. TypeOK'
  BY <1>1 DEF IInv, TypeOK, NoCall
<1>3. Opening' /\ PacksKept'
  BY <1>1 DEF IInv, Opening, PacksKept, NoObjects
<1>4. Observed'
  BY <1>1 DEF IInv, Observed, InRepository, OnDisk, NoCall
<1>5. left' # left => left # <<>> /\ ToSet(left) = {Head(left)} \cup ToSet(left')
  BY NextStore DEF IInv
<1>6. Asked'
  <2>1. (pc' \in {"ask", "read"} \/ answer' = "notfound") /\ "pack" \in ToSet(stores') \ ToSet(left') =>
          \A p \in listed' : packed'[p][call'.sha] # "whole"
    <3> SUFFICES ASSUME "pack" \in ToSet(stores) \ ToSet(left')
                 PROVE  \A p \in listed : packed[p][call.sha] # "whole"
      BY <1>1
    <3>1. CASE "pack" \notin ToSet(left)
      BY <3>1 DEF IInv, Asked
    <3>2. CASE "pack" \in ToSet(left)
      BY <1>5, <3>2
    <3>. QED
      BY <3>1, <3>2
  <2>2. pc' \in {"ask", "read", "done"} /\ kept' /\ "file" \in ToSet(stores') \ ToSet(left') =>
          \E p \in Pack : packed'[p][call'.sha] = "whole"
    <3> SUFFICES ASSUME kept, "file" \in ToSet(stores) \ ToSet(left')
                 PROVE  \E p \in Pack : packed[p][call.sha] = "whole"
      BY <1>1
    <3>1. CASE "file" \notin ToSet(left)
      BY <3>1 DEF IInv, Asked
    <3>2. CASE "file" \in ToSet(left)
      <4>1. loose[call.sha] # "whole"
        BY <1>5, <3>2
      <4>. QED
        BY <4>1 DEF IInv, Observed, InRepository, OnDisk
    <3>. QED
      BY <3>1, <3>2
  <2>. QED
    BY <2>1, <2>2 DEF Asked
<1>. QED
  BY <1>2, <1>3, <1>4, <1>6 DEF IInv

LEMMA AskFileStep == IInv /\ AskFile => IInv'
<1>. SUFFICES ASSUME IInv, AskFile PROVE IInv'
  OBVIOUS
<1>1. /\ pc = "ask" /\ left # <<>> /\ Head(left) = "file"
      /\ UNCHANGED <<disk, toOpen, packFiles, lastReadPack, stores, call, observed>>
  BY DEF AskFile, Asking, packStore
<1>2. \/ loose[call.sha] = "none" /\ Miss
      \/ loose[call.sha] # "none" /\ pc' = "read" /\ UNCHANGED <<left, answer, recentStore>>
  BY DEF AskFile
<1>3. call # NoCall /\ answer = "none" /\ left \in Seq(ToSet(stores))
      /\ recentStore \in ToSet(stores) \cup {Nil} /\ lastReadPack \in ToSet(packFiles) \cup {Nil}
  BY <1>1 DEF IInv, TypeOK
<1>4. Tail(left) \in Seq(ToSet(stores))
  BY <1>1, NextStore DEF IInv
<1>5. CASE loose[call.sha] = "none" /\ Miss
  <2>1. pc' = "ask" /\ left' = Tail(left) /\ answer' = answer /\ recentStore' = recentStore
    BY <1>5 DEF Miss
  <2>. QED
    BY <1>1, <1>3, <1>4, <1>5, <2>1, LookupStepKeeps
<1>6. CASE loose[call.sha] # "none" /\ pc' = "read" /\ UNCHANGED <<left, answer, recentStore>>
  BY <1>1, <1>3, <1>6, LookupStepKeeps
<1>. QED
  BY <1>2, <1>5, <1>6

LEMMA ReadFileStep == IInv /\ ReadFile => IInv'
<1>. SUFFICES ASSUME IInv, ReadFile PROVE IInv'
  OBVIOUS
<1>1. /\ pc = "read"
      /\ UNCHANGED <<disk, toOpen, packFiles, lastReadPack, stores, call, observed>>
  BY DEF ReadFile, packStore
<1>2. call # NoCall /\ answer = "none" /\ left \in Seq(ToSet(stores))
      /\ left # <<>> /\ Head(left) = "file"
      /\ recentStore \in ToSet(stores) \cup {Nil} /\ lastReadPack \in ToSet(packFiles) \cup {Nil}
  BY <1>1 DEF IInv, TypeOK
<1>3. Head(left) \in ToSet(stores) /\ Tail(left) \in Seq(ToSet(stores))
  BY <1>2, NextStore DEF IInv
<1>4. Hit \/ (Miss /\ loose[call.sha] # "whole") \/ Fail
  BY DEF ReadFile, Contents
<1>5. CASE Hit \/ Fail
  <2>1. /\ pc' = "done" /\ left' = left /\ answer' \in {"found", "failed"}
        /\ recentStore' \in {recentStore, Head(left)}
    BY <1>5 DEF Hit, Fail
  <2>. QED
    BY <1>1, <1>2, <1>3, <2>1, LookupStepKeeps
<1>6. CASE Miss /\ loose[call.sha] # "whole"
  <2>1. pc' = "ask" /\ left' = Tail(left) /\ answer' = answer /\ recentStore' = recentStore
    BY <1>6 DEF Miss
  <2>. QED
    BY <1>1, <1>2, <1>3, <1>6, <2>1, LookupStepKeeps
<1>. QED
  BY <1>4, <1>5, <1>6

\* The outcomes of a pass over the packs: no pack ends the search, then none has
\* a whole copy; or the first that does has a whole one; or a damaged one.
LEMMA SearchOutcome ==
  ASSUME IInv, AskPacks
  PROVE  \/ /\ Miss /\ lastReadPack' = lastReadPack
            /\ \A i \in DOMAIN PackOrder : ~Ends(i)
         \/ /\ \E i \in DOMAIN PackOrder : Ends(i)
            /\ \E p \in ToSet(packFiles) :
                 \/ packed[p][call.sha] = "whole" /\ Hit /\ lastReadPack' = p
                 \/ /\ packed[p][call.sha] \in {"short", "torn"} /\ call.op = "load"
                    /\ Fail /\ lastReadPack' = lastReadPack
<1> DEFINE ends == {i \in DOMAIN PackOrder : Ends(i)}
           first == CHOOSE i \in ends : \A j \in ends : i <= j
<1>1. PackOrder \in Seq(listed) /\ ToSet(PackOrder) = ToSet(packFiles)
  BY EveryPackIsSearched DEF IInv, Opening
<1>2. CASE ends = {}
  BY <1>2 DEF AskPacks
<1>3. CASE ends # {}
  <2>1. first \in ends
    <3>1. ends \in SUBSET Nat
      BY <1>1
    <3> HIDE DEF ends
    <3>. QED
      BY <1>3, <3>1, LeastElement
  <2> DEFINE pack == PackOrder[first]
  <2>2. pack \in ToSet(packFiles)
    BY <1>1, <2>1 DEF ToSet
  <2>3. IF packed[pack][call.sha] = "whole" THEN Hit /\ lastReadPack' = pack
        ELSE Fail /\ lastReadPack' = lastReadPack
    BY <1>3 DEF AskPacks
  <2>4. Ends(first)
    BY <2>1
  <2> HIDE DEF first
  <2>5. packed[pack][call.sha] = "whole"
        \/ (call.op = "load" /\ packed[pack][call.sha] \in {"short", "torn"})
    BY <2>4 DEF Ends
  <2>6. \E i \in DOMAIN PackOrder : Ends(i)
    BY <1>3
  <2> HIDE DEF pack, ends
  <2>. QED
    BY <2>2, <2>3, <2>5, <2>6
<1>. QED
  BY <1>2, <1>3

\* Where no pack ends the search, none has a whole copy.
LEMMA NoneWhole ==
  ASSUME IInv, pc \notin {"closed", "opening"}, \A i \in DOMAIN PackOrder : ~Ends(i)
  PROVE  \A p \in listed : packed[p][call.sha] # "whole"
<1>1. PackOrder \in Seq(listed) /\ ToSet(PackOrder) = ToSet(packFiles)
  BY EveryPackIsSearched DEF IInv, Opening
<1>2. listed = ToSet(packFiles)
  BY DEF IInv, Opening
<1>3. \A p \in listed : \E i \in DOMAIN PackOrder : PackOrder[i] = p
  BY <1>1, <1>2 DEF ToSet
<1>. QED
  BY <1>3 DEF Ends

LEMMA AskPacksStep == IInv /\ AskPacks => IInv'
<1>. SUFFICES ASSUME IInv, AskPacks PROVE IInv'
  OBVIOUS
<1>1. /\ pc = "ask" /\ left # <<>> /\ Head(left) = "pack"
      /\ UNCHANGED <<disk, toOpen, packFiles, stores, call, observed>>
  BY DEF AskPacks, Asking
<1>2. call # NoCall /\ answer = "none" /\ left \in Seq(ToSet(stores))
      /\ recentStore \in ToSet(stores) \cup {Nil} /\ lastReadPack \in ToSet(packFiles) \cup {Nil}
  BY <1>1 DEF IInv, TypeOK
<1>3. Head(left) \in ToSet(stores) /\ Tail(left) \in Seq(ToSet(stores))
  BY <1>1, NextStore DEF IInv
<1>4. CASE Miss /\ lastReadPack' = lastReadPack /\ \A i \in DOMAIN PackOrder : ~Ends(i)
  <2>1. pc' = "ask" /\ left' = Tail(left) /\ answer' = answer /\ recentStore' = recentStore
    BY <1>4 DEF Miss
  <2>2. \A p \in listed : packed[p][call.sha] # "whole"
    BY <1>1, <1>4, NoneWhole
  <2>. QED
    BY <1>1, <1>2, <1>3, <1>4, <2>1, <2>2, LookupStepKeeps
<1>5. CASE (Hit \/ Fail) /\ lastReadPack' \in ToSet(packFiles) \cup {Nil}
  <2>1. /\ pc' = "done" /\ left' = left /\ answer' \in {"found", "failed"}
        /\ recentStore' \in {recentStore, Head(left)}
    BY <1>5 DEF Hit, Fail
  <2>. QED
    BY <1>1, <1>2, <1>3, <1>5, <2>1, LookupStepKeeps
<1>. QED
  BY <1>2, <1>4, <1>5, SearchOutcome

LEMMA NotFoundStep == IInv /\ NotFound => IInv'
<1>. SUFFICES ASSUME IInv, NotFound PROVE IInv'
  OBVIOUS
<1>1. /\ pc = "ask" /\ left = <<>> /\ pc' = "done" /\ answer' = "notfound" /\ left' = left
      /\ recentStore' = recentStore
      /\ UNCHANGED <<disk, toOpen, packFiles, lastReadPack, stores, call, observed>>
  BY DEF NotFound, packStore
<1>2. call # NoCall /\ left \in Seq(ToSet(stores))
      /\ recentStore \in ToSet(stores) \cup {Nil} /\ lastReadPack \in ToSet(packFiles) \cup {Nil}
  BY <1>1 DEF IInv, TypeOK
<1>. QED
  BY <1>1, <1>2, LookupStepKeeps

LEMMA ReturnStep == IInv /\ Return => IInv'
<1>. SUFFICES ASSUME IInv, Return PROVE IInv'
  OBVIOUS
<1>1. /\ pc = "done" /\ pc' = "idle" /\ answer' = "none" /\ call' = NoCall /\ left' = <<>>
      /\ kept' = FALSE /\ moved' = FALSE
      /\ UNCHANGED <<loose, packed, packDir, changes, toOpen, packFiles, lastReadPack, stores,
                     recentStore, listed, written>>
  BY DEF Return, disk, packStore
<1>2. TypeOK'
  BY <1>1, EmptySeq DEF IInv, TypeOK, NoCall
<1>3. Opening' /\ PacksKept'
  BY <1>1 DEF IInv, Opening, PacksKept, NoObjects
<1>4. Asked' /\ Observed'
  BY <1>1 DEF Asked, Observed
<1>. QED
  BY <1>2, <1>3, <1>4 DEF IInv

LEMMA WriteObjectStep ==
  ASSUME IInv, NEW o \in DOMAIN Raw, WriteObject(o)
  PROVE  IInv'
<1>1. /\ pc = "idle" /\ changes < MaxChanges
      /\ loose' = [loose EXCEPT ![Raw[o]] = "written"] /\ changes' = changes + 1
      /\ written' = written \cup {o}
      /\ UNCHANGED <<packed, packDir, toOpen, packFiles, lastReadPack, stores, recentStore, pc,
                     call, left, answer, listed, kept, moved>>
  BY DEF WriteObject, packStore
<1>2. loose' \in [Sha -> Copy] /\ changes' \in 0..MaxChanges /\ written' \subseteq Object
  BY <1>1, Names DEF IInv, TypeOK, Copy
<1>3. TypeOK'
  BY <1>1, <1>2 DEF IInv, TypeOK, NoCall
<1>4. Opening' /\ PacksKept'
  BY <1>1 DEF IInv, Opening, PacksKept, NoObjects
<1>5. Asked' /\ Observed'
  BY <1>1 DEF IInv, TypeOK, Asked, Observed, NoCall
<1>. QED
  BY <1>3, <1>4, <1>5 DEF IInv

-----------------------------------------------------------------------------
LEMMA NextStep == IInv /\ [Next]_vars => IInv'
<1>. SUFFICES ASSUME IInv, [Next]_vars PROVE IInv'
  OBVIOUS
<1>1. CASE Git
  BY <1>1, GitStep
<1>2. CASE Run
  BY <1>2, ListPacksStep, OpenPackStep, OpenedStep, AskFileStep, ReadFileStep, AskPacksStep,
     NotFoundStep, ReturnStep DEF Run
<1>3. CASE Calls
  BY <1>3, AddStoreStep, BeginStep, WriteObjectStep DEF Calls
<1>4. CASE UNCHANGED vars
  BY <1>4 DEF vars, disk, packStore, observed, IInv, TypeOK, Opening, PacksKept, NoObjects, Asked,
              Observed, InRepository, OnDisk, NoCall
<1>. QED
  BY <1>1, <1>2, <1>3, <1>4 DEF Next

LEMMA Invariance == Spec => []IInv
<1>1. Init => IInv
  BY InitEstablishes
<1>2. IInv /\ [Next]_vars => IInv'
  BY NextStep
<1>. QED
  BY <1>1, <1>2, PTL DEF Spec

-----------------------------------------------------------------------------
(***************************************************************************)
(* The theorems.                                                           *)
(***************************************************************************)
\* The variables keep their types: the pack store only ever has packs it
\* listed, the combined store remembers only stores it has, and an answer is
\* there exactly when a call has been decided.
THEOREM TypeCorrect == Spec => []TypeOK
<1>1. IInv => TypeOK
  BY DEF IInv
<1>. QED
  BY <1>1, Invariance, PTL

\* Both stores were asked and missed the object: when the loose file was, the
\* repository had it in some pack, which none of those that were listed is.
THEOREM MissesOnlyLaterPacks == Spec => []MissedOnlyIfPackedLater
<1>1. IInv => MissedOnlyIfPackedLater
  <2>. SUFFICES ASSUME IInv, pc = "done", answer = "notfound", kept, ToSet(stores) = Store
                PROVE  \E p \in Pack \ listed : packed[p][call.sha] = "whole"
    BY DEF MissedOnlyIfPackedLater
  <2>1. left = <<>> /\ ToSet(left) = {}
    BY DEF IInv, Asked, ToSet
  <2>2. "file" \in ToSet(stores) \ ToSet(left) /\ "pack" \in ToSet(stores) \ ToSet(left)
    BY <2>1 DEF Store
  <2>. QED
    BY <2>2 DEF IInv, Asked
<1>. QED
  BY <1>1, Invariance, PTL

-----------------------------------------------------------------------------
(***************************************************************************)
(* The refinement: whole and flawed are the copies where the stores in use *)
(* can see them, and the answer is "notfound" from the moment the file has *)
(* been missed and no pack is left that could end the search.              *)
(***************************************************************************)
wholeBar == PlacesOf({"whole"})
flawedBar == PlacesOf(Damaged)
answerBar == IF Missed THEN "notfound" ELSE answer

\* Where the copies of an object are.
LEMMA Places ==
  ASSUME NEW K, NEW s \in Sha, NEW x
  PROVE  x \in PlacesOf(K)[s] <=>
           \/ x = "file" /\ "file" \in ToSet(stores) /\ loose[s] \in K
           \/ x \in ToSet(packFiles) /\ "pack" \in ToSet(stores) /\ packed[x][s] \in K
  BY DEF PlacesOf

LEMMA PlacesAreCopies ==
  ASSUME TypeOK
  PROVE  wholeBar \in Lookup!Copies /\ flawedBar \in Lookup!Copies
<1>1. ToSet(packFiles) \subseteq Pack
  BY ToSetIsElements DEF TypeOK
<1>2. ASSUME NEW K PROVE PlacesOf(K) \in [Sha -> SUBSET ({"file"} \cup Pack)]
  BY <1>1 DEF PlacesOf
<1>. QED
  BY <1>2 DEF wholeBar, flawedBar, Lookup!Copies

LEMMA InitRefines == Init => Lookup!Init
<1>. SUFFICES ASSUME Init PROVE Lookup!Init
  OBVIOUS
<1>1. TypeOK
  BY InitEstablishes DEF IInv
<1>2. call = NoCall /\ moved = FALSE /\ answerBar = "none"
  BY DEF Init, answerBar, Missed
<1>. QED
  BY <1>1, <1>2, PlacesAreCopies DEF Lookup!Init, wholeBar, flawedBar, answerBar

\* A step that moves no copy and leaves the rest alone is a stutter.
LEMMA Stutters ==
  ASSUME UNCHANGED <<loose, packed, stores, call, moved>>,
         stores = <<>> \/ packFiles' = packFiles,
         answerBar' = answerBar
  PROVE  UNCHANGED Lookup!vars
<1>1. wholeBar' = wholeBar /\ flawedBar' = flawedBar
  <2>1. CASE stores = <<>>
    <3>1. ToSet(stores) = {}
      BY <2>1 DEF ToSet
    <3>. QED
      BY <3>1 DEF wholeBar, flawedBar, PlacesOf
  <2>2. CASE packFiles' = packFiles
    BY <2>2 DEF wholeBar, flawedBar, PlacesOf
  <2>. QED
    BY <2>1, <2>2
<1>. QED
  BY <1>1 DEF Lookup!vars, wholeBar, flawedBar, answerBar

\* Whatever git does, copies come and go, and no call is decided by it.
LEMMA GitRefines == IInv /\ IInv' /\ Git => Lookup!Change
<1>. SUFFICES ASSUME IInv, IInv', Git PROVE Lookup!Change
  OBVIOUS
<1>1. /\ Observe
      /\ \A s \in Sha : loose'[s] = loose[s] \/ loose[s] = "none" \/ loose'[s] = "none"
      /\ \A s \in Sha : loose[s] # "none" /\ loose'[s] # "none" => loose'[s] = loose[s]
      /\ \A p \in Pack : packed[p] # NoObjects => packed'[p] = packed[p]
  <2>1. ASSUME NEW s \in Sha, loose' = [loose EXCEPT ![s] = "none"]
        PROVE  \A t \in Sha : loose'[t] = loose[t] \/ loose'[t] = "none"
    BY <2>1 DEF IInv, TypeOK
  <2>2. ASSUME NEW s \in Object, loose' = [loose EXCEPT ![s] = "whole"], loose[s] = "none"
        PROVE  \A t \in Sha : loose'[t] = loose[t] \/ loose[t] = "none"
    BY <2>2, Names DEF IInv, TypeOK
  <2>3. ASSUME NEW p \in Pack, GitWritesPack(p)
        PROVE  \A q \in Pack : packed[q] # NoObjects => packed'[q] = packed[q]
    BY <2>3 DEF GitWritesPack, NoObjects, IInv, TypeOK
  <2>4. CASE \E s \in Object : GitAdds(s)
    BY <2>2, <2>4 DEF GitAdds
  <2>5. CASE \E s \in Sha : GitPrunes(s)
    BY <2>1, <2>5 DEF GitPrunes
  <2>6. CASE \E p \in Pack : GitWritesPack(p) \/ GitWritesIndex(p) \/ GitRemovesPack(p)
    BY <2>3, <2>6 DEF GitWritesPack, GitWritesIndex, GitRemovesPack
  <2>. QED
    BY <2>4, <2>5, <2>6 DEF Git
<1>2. /\ UNCHANGED <<toOpen, packFiles, lastReadPack, stores, pc, call, left, answer, listed>>
      /\ moved' = (moved \/ /\ call # NoCall /\ "file" \in ToSet(stores)
                             /\ loose[call.sha] # "none" /\ loose'[call.sha] = "none")
  BY <1>1 DEF Observe, packStore
<1>3. \A p \in ToSet(packFiles) : p \in Pack /\ packed'[p] = packed[p]
  <2>1. ToSet(packFiles) \subseteq listed /\ listed \subseteq Pack
    BY ToSetIsElements DEF IInv, TypeOK
  <2>. QED
    BY <1>1, <2>1 DEF IInv, PacksKept
<1>4. answerBar' = answerBar
  <2>1. PackOrder' = PackOrder
    BY <1>2 DEF PackOrder
  <2>2. pc = "ask" => \A i \in DOMAIN PackOrder : Ends(i)' <=> Ends(i)
    <3>1. PackOrder \in Seq(listed) /\ ToSet(PackOrder) = ToSet(packFiles)
      BY EveryPackIsSearched DEF IInv, Opening
    <3>2. \A i \in DOMAIN PackOrder : PackOrder[i] \in ToSet(packFiles)
      BY <3>1 DEF ToSet
    <3>. QED
      BY <1>2, <1>3, <2>1, <3>2 DEF Ends
  <2>. QED
    BY <1>2, <2>1, <2>2 DEF answerBar, Missed
<1>5. wholeBar' \in Lookup!Copies /\ flawedBar' \in Lookup!Copies
  <2>1. ToSet(packFiles') \subseteq Pack
    BY <1>2, <1>3
  <2>. QED
    BY <2>1 DEF wholeBar, flawedBar, PlacesOf, Lookup!Copies
<1>6. ASSUME call # NoCall
      PROVE  (/\ wholeBar[call.sha] \subseteq wholeBar'[call.sha]
              /\ flawedBar[call.sha] \subseteq flawedBar'[call.sha])
             <=> ~("file" \in ToSet(stores) /\ loose[call.sha] # "none" /\ loose'[call.sha] = "none")
  <2> DEFINE o == call.sha
  <2>1. o \in Sha /\ call' = call /\ stores' = stores /\ packFiles' = packFiles
    BY <1>2, <1>6 DEF IInv, TypeOK
  <2>2. loose[o] \in Copy /\ loose'[o] \in Copy
    BY <2>1 DEF IInv, TypeOK
  <2>3. "file" \notin ToSet(packFiles)
    BY <1>3, Names
  <2> HIDE DEF o
  <2>4. \A K, x : x \in PlacesOf(K)[o] <=>
          \/ x = "file" /\ "file" \in ToSet(stores) /\ loose[o] \in K
          \/ x \in ToSet(packFiles) /\ "pack" \in ToSet(stores) /\ packed[x][o] \in K
    BY <2>1, Places
  <2>5. \A x : x \in wholeBar'[o] <=>
          \/ x = "file" /\ "file" \in ToSet(stores) /\ loose'[o] = "whole"
          \/ x \in ToSet(packFiles) /\ "pack" \in ToSet(stores) /\ packed[x][o] = "whole"
    BY <1>3, <2>1 DEF wholeBar, PlacesOf
  <2>6. \A x : x \in flawedBar'[o] <=>
          \/ x = "file" /\ "file" \in ToSet(stores) /\ loose'[o] \in Damaged
          \/ x \in ToSet(packFiles) /\ "pack" \in ToSet(stores) /\ packed[x][o] \in Damaged
    BY <1>3, <2>1 DEF flawedBar, PlacesOf
  <2>7. CASE "file" \in ToSet(stores) /\ loose[o] # "none" /\ loose'[o] = "none"
    <3>1. loose[o] = "whole" \/ loose[o] \in Damaged
      BY <2>2, <2>7 DEF Copy, Damaged
    <3>2. "file" \in wholeBar[o] \/ "file" \in flawedBar[o]
      BY <2>4, <2>7, <3>1 DEF wholeBar, flawedBar
    <3>3. "file" \notin wholeBar'[o] /\ "file" \notin flawedBar'[o]
      BY <2>3, <2>5, <2>6, <2>7 DEF Damaged
    <3>. QED
      BY <2>7, <3>2, <3>3 DEF o
  <2>8. CASE ~("file" \in ToSet(stores) /\ loose[o] # "none" /\ loose'[o] = "none")
    <3>1. "file" \in ToSet(stores) => loose'[o] = loose[o] \/ loose[o] = "none"
      BY <1>1, <2>1, <2>8
    <3>2. wholeBar[o] \subseteq wholeBar'[o]
      BY <2>4, <2>5, <3>1 DEF wholeBar
    <3>3. flawedBar[o] \subseteq flawedBar'[o]
      BY <2>4, <2>6, <3>1 DEF flawedBar, Damaged
    <3>. QED
      BY <2>8, <3>2, <3>3 DEF o
  <2>. QED
    BY <2>7, <2>8 DEF o
<1>. QED
  BY <1>2, <1>4, <1>5, <1>6 DEF Lookup!Change, wholeBar, flawedBar, answerBar

-----------------------------------------------------------------------------
\* Making the stores is nothing to their callers, and a store that is added
\* brings its copies.
LEMMA OpeningRefines ==
  IInv /\ (ListPacks \/ (\E p \in Pack : OpenPack(p)) \/ Opened) => UNCHANGED Lookup!vars
<1>. SUFFICES ASSUME IInv, ListPacks \/ (\E p \in Pack : OpenPack(p)) \/ Opened
              PROVE  UNCHANGED Lookup!vars
  OBVIOUS
<1>1. /\ UNCHANGED <<loose, packed, stores, call, moved, answer>>
      /\ pc \in {"closed", "opening"} /\ pc' # "ask"
  <2>1. CASE ListPacks
    BY <2>1 DEF ListPacks, disk
  <2>2. CASE \E p \in Pack : OpenPack(p)
    BY <2>2 DEF OpenPack, Unopened, disk, observed
  <2>3. CASE Opened
    BY <2>3 DEF Opened, disk, observed
  <2>. QED
    BY <2>1, <2>2, <2>3
<1>2. stores = <<>> /\ answerBar' = answerBar
  BY <1>1 DEF IInv, Opening, answerBar, Missed
<1>. QED
  BY <1>1, <1>2, Stutters

LEMMA StoresRefine ==
  ASSUME IInv, IInv',
         (\E store \in Store : AddStore(store)) \/ (\E o \in DOMAIN Raw : WriteObject(o))
  PROVE  Lookup!Change
<1>1. /\ pc = "idle" /\ UNCHANGED <<packed, packFiles, pc, call, answer, moved>>
  BY DEF AddStore, WriteObject, packStore, observed, disk
<1>2. call = NoCall /\ moved \in BOOLEAN
  BY <1>1 DEF IInv, TypeOK
<1>3. answerBar' = answerBar
  BY <1>1 DEF answerBar, Missed
<1>4. wholeBar' \in Lookup!Copies /\ flawedBar' \in Lookup!Copies
  <2>1. ToSet(packFiles) \subseteq Pack
    BY ToSetIsElements DEF IInv, TypeOK
  <2>. QED
    BY <1>1, <2>1 DEF wholeBar, flawedBar, PlacesOf, Lookup!Copies
<1>. QED
  BY <1>1, <1>2, <1>3, <1>4 DEF Lookup!Change, wholeBar, flawedBar, answerBar

-----------------------------------------------------------------------------
(***************************************************************************)
(* The steps of a lookup.                                                  *)
(***************************************************************************)
LEMMA BeginRefines ==
  ASSUME IInv, NEW op \in {"load", "data"}, NEW s \in Sha, Begin(op, s)
  PROVE  Lookup!Begin
<1>1. /\ pc = "idle" /\ pc' = "ask" /\ call' = [op |-> op, sha |-> s] /\ left' = AskingOrder(op)
      /\ UNCHANGED <<loose, packed, packFiles, stores, answer, moved>>
  BY DEF Begin, disk, packStore
<1>2. ToSet(left') = ToSet(stores)
  BY <1>1, EveryStoreIsAsked DEF IInv
<1>3. call = NoCall /\ call' \in Lookup!Call
  BY <1>1 DEF IInv, TypeOK, Lookup!Call
<1>4. answerBar' = answerBar
  BY <1>1, <1>2 DEF answerBar, Missed
<1>5. wholeBar' = wholeBar /\ flawedBar' = flawedBar
  BY <1>1 DEF wholeBar, flawedBar, PlacesOf
<1>. QED
  BY <1>1, <1>3, <1>4, <1>5 DEF Lookup!Begin, wholeBar, flawedBar, answerBar

\* While an object is looked up, what the places hold does not change.
LEMMA Deciding ==
  ASSUME IInv, call # NoCall, UNCHANGED <<disk, packFiles, stores, call, observed>>,
         \/ answerBar' = answerBar
         \/ /\ answerBar = "none" /\ answerBar' \in {"found", "notfound", "failed"}
            /\ answerBar' = "found" =>
                 wholeBar[call.sha] # {} \/ (call.op = "data" /\ flawedBar[call.sha] # {})
            /\ answerBar' = "notfound" => wholeBar[call.sha] = {}
            /\ answerBar' = "failed" => call.op = "load" /\ (flawedBar[call.sha] # {} \/ moved)
  PROVE  [Lookup!Next]_(Lookup!vars)
<1>1. UNCHANGED <<loose, packed, packFiles, stores, call, moved>>
  BY DEF disk, observed
<1>2. wholeBar' = wholeBar /\ flawedBar' = flawedBar
  BY <1>1 DEF wholeBar, flawedBar, PlacesOf
<1>3. CASE answerBar' = answerBar
  BY <1>1, <1>2, <1>3 DEF Lookup!vars, wholeBar, flawedBar, answerBar
<1>4. CASE answerBar' # answerBar
  <2>1. Lookup!Possible(answerBar')
    BY <1>4 DEF Lookup!Possible, wholeBar, flawedBar
  <2>2. Lookup!Decide
    BY <1>1, <1>2, <1>4, <2>1 DEF Lookup!Decide, Lookup!Possible, wholeBar, flawedBar, answerBar
  <2>. QED
    BY <2>2 DEF Lookup!Next
<1>. QED
  BY <1>3, <1>4

\* An object is nowhere if neither the file nor a pack in use has it whole.
LEMMA Nowhere ==
  ASSUME IInv, call # NoCall, pc \notin {"closed", "opening"},
         "file" \in ToSet(stores) => loose[call.sha] # "whole",
         "pack" \in ToSet(stores) => \A p \in listed : packed[p][call.sha] # "whole"
  PROVE  wholeBar[call.sha] = {}
<1>1. call.sha \in Sha /\ listed = ToSet(packFiles)
  BY DEF IInv, TypeOK, Opening
<1> DEFINE o == call.sha
<1>2. o \in Sha
  BY <1>1
<1> HIDE DEF o
<1>3. \A x : x \in PlacesOf({"whole"})[o] <=>
        \/ x = "file" /\ "file" \in ToSet(stores) /\ loose[o] \in {"whole"}
        \/ x \in ToSet(packFiles) /\ "pack" \in ToSet(stores) /\ packed[x][o] \in {"whole"}
  BY <1>2, Places
<1>4. \A x : x \notin PlacesOf({"whole"})[o]
  BY <1>1, <1>3 DEF o
<1>. QED
  BY <1>4 DEF wholeBar, o

\* The loose file of an object that is looked up is one of its places.
LEMMA FileIsAPlace ==
  ASSUME IInv, call # NoCall, "file" \in ToSet(stores)
  PROVE  /\ loose[call.sha] = "whole" => wholeBar[call.sha] # {}
         /\ loose[call.sha] \in Damaged => flawedBar[call.sha] # {}
<1> DEFINE o == call.sha
<1>1. o \in Sha
  BY DEF IInv, TypeOK
<1> HIDE DEF o
<1>2. \A K : loose[o] \in K => "file" \in PlacesOf(K)[o]
  BY <1>1, Places
<1>3. loose[o] = "whole" => "file" \in PlacesOf({"whole"})[o]
  BY <1>2
<1>4. loose[o] \in Damaged => "file" \in PlacesOf(Damaged)[o]
  BY <1>2
<1>. QED
  BY <1>3, <1>4 DEF o, wholeBar, flawedBar

LEMMA PackIsAPlace ==
  ASSUME IInv, call # NoCall, "pack" \in ToSet(stores), NEW p \in ToSet(packFiles)
  PROVE  /\ packed[p][call.sha] = "whole" => wholeBar[call.sha] # {}
         /\ packed[p][call.sha] \in Damaged => flawedBar[call.sha] # {}
<1> DEFINE o == call.sha
<1>1. o \in Sha
  BY DEF IInv, TypeOK
<1> HIDE DEF o
<1>2. \A K : packed[p][o] \in K => p \in PlacesOf(K)[o]
  BY <1>1, Places
<1>3. packed[p][o] = "whole" => p \in PlacesOf({"whole"})[o]
  BY <1>2
<1>4. packed[p][o] \in Damaged => p \in PlacesOf(Damaged)[o]
  BY <1>2
<1>. QED
  BY <1>3, <1>4 DEF o, wholeBar, flawedBar

\* When the loose file is missed for the last time, the call may be decided.
LEMMA MissedFileRefines ==
  ASSUME IInv, pc \in {"ask", "read"}, left # <<>>, Head(left) = "file", Miss,
         loose[call.sha] # "whole",
         UNCHANGED <<disk, packFiles, lastReadPack, stores, call, observed>>
  PROVE  [Lookup!Next]_(Lookup!vars)
<1>1. /\ pc' = "ask" /\ left' = Tail(left) /\ answer' = answer
      /\ UNCHANGED <<packed, packFiles, lastReadPack, stores, call>>
  BY DEF Miss, disk
<1>2. call # NoCall /\ answer = "none"
  BY DEF IInv, TypeOK
<1>3. ToSet(left) = {"file"} \cup ToSet(left')
  BY <1>1, NextStore DEF IInv
<1>4. answerBar = "none"
  BY <1>2, <1>3 DEF answerBar, Missed
<1>5. CASE Missed'
  <2>1. "pack" \in ToSet(left') => \A p \in listed : packed[p][call.sha] # "whole"
    <3>. SUFFICES ASSUME "pack" \in ToSet(left')
                  PROVE  \A p \in listed : packed[p][call.sha] # "whole"
      OBVIOUS
    <3>1. PackOrder' = PackOrder /\ \A i \in DOMAIN PackOrder : ~Ends(i)'
      BY <1>1, <1>5 DEF Missed, PackOrder
    <3>2. \A i \in DOMAIN PackOrder : ~Ends(i)
      BY <1>1, <3>1 DEF Ends
    <3>. QED
      BY <3>2, NoneWhole
  <2>2. "pack" \in ToSet(stores) \ ToSet(left') => \A p \in listed : packed[p][call.sha] # "whole"
    BY <1>3 DEF IInv, Asked
  <2>3. wholeBar[call.sha] = {}
    BY <1>2, <2>1, <2>2, Nowhere
  <2>4. answerBar' = "notfound"
    BY <1>5 DEF answerBar
  <2>. QED
    BY <1>2, <1>4, <2>3, <2>4, Deciding
<1>6. CASE ~Missed'
  BY <1>1, <1>2, <1>4, <1>6, Deciding DEF answerBar
<1>. QED
  BY <1>5, <1>6

LEMMA AskFileRefines == IInv /\ AskFile => [Lookup!Next]_(Lookup!vars)
<1>. SUFFICES ASSUME IInv, AskFile PROVE [Lookup!Next]_(Lookup!vars)
  OBVIOUS
<1>1. /\ pc = "ask" /\ left # <<>> /\ Head(left) = "file"
      /\ UNCHANGED <<disk, packFiles, lastReadPack, stores, call, observed>>
  BY DEF AskFile, Asking, packStore
<1>2. CASE loose[call.sha] = "none"
  BY <1>1, <1>2, MissedFileRefines DEF AskFile
<1>3. CASE loose[call.sha] # "none"
  <2>1. pc' = "read" /\ left' = left /\ answer' = answer
    BY <1>3 DEF AskFile
  <2>2. "file" \in ToSet(left)
    BY <1>1, NextStore DEF IInv
  <2>3. answerBar' = answerBar /\ call # NoCall
    BY <1>1, <2>1, <2>2 DEF IInv, TypeOK, answerBar, Missed
  <2>. QED
    BY <1>1, <2>3, Deciding
<1>. QED
  BY <1>2, <1>3

LEMMA ReadFileRefines == IInv /\ ReadFile => [Lookup!Next]_(Lookup!vars)
<1>. SUFFICES ASSUME IInv, ReadFile PROVE [Lookup!Next]_(Lookup!vars)
  OBVIOUS
<1>1. /\ pc = "read" /\ UNCHANGED <<disk, packFiles, lastReadPack, stores, call, observed>>
  BY DEF ReadFile, packStore
<1>2. /\ call # NoCall /\ answer = "none" /\ left # <<>> /\ Head(left) = "file"
      /\ call.op \in {"load", "data"} /\ call.sha \in Sha /\ loose[call.sha] \in Copy
  BY <1>1 DEF IInv, TypeOK
<1>3. "file" \in ToSet(stores)
  BY <1>2, NextStore DEF IInv
<1>4. answerBar = "none"
  BY <1>1, <1>2 DEF answerBar, Missed
<1>5. CASE Contents = "whole" \/ (call.op = "data" /\ Contents \in {"short", "written"})
  <2>1. pc' = "done" /\ answer' = "found"
    BY <1>5 DEF ReadFile, Hit
  <2>2. answerBar' = "found"
    BY <2>1 DEF answerBar, Missed
  <2>3. wholeBar[call.sha] # {} \/ (call.op = "data" /\ flawedBar[call.sha] # {})
    BY <1>2, <1>3, <1>5, FileIsAPlace DEF Contents, Damaged
  <2>. QED
    BY <1>1, <1>2, <1>4, <2>2, <2>3, Deciding
<1>6. CASE /\ ~(Contents = "whole" \/ (call.op = "data" /\ Contents \in {"short", "written"}))
           /\ call.op = "data"
  BY <1>1, <1>2, <1>6, MissedFileRefines DEF ReadFile, Contents
<1>7. CASE Contents # "whole" /\ call.op # "data"
  <2>1. pc' = "done" /\ answer' = "failed"
    BY <1>7 DEF ReadFile, Fail
  <2>2. answerBar' = "failed"
    BY <2>1 DEF answerBar, Missed
  <2>3. loose[call.sha] \in Damaged \/ moved
    BY <1>1, <1>2, <1>7 DEF IInv, Observed, Contents, Copy, Damaged
  <2>4. call.op = "load" /\ (flawedBar[call.sha] # {} \/ moved)
    BY <1>2, <1>3, <1>7, <2>3, FileIsAPlace
  <2>. QED
    BY <1>1, <1>2, <1>4, <2>2, <2>4, Deciding
<1>. QED
  BY <1>5, <1>6, <1>7

LEMMA AskPacksRefines == IInv /\ AskPacks => [Lookup!Next]_(Lookup!vars)
<1>. SUFFICES ASSUME IInv, AskPacks PROVE [Lookup!Next]_(Lookup!vars)
  OBVIOUS
<1>1. /\ pc = "ask" /\ left # <<>> /\ Head(left) = "pack"
      /\ UNCHANGED <<disk, packFiles, stores, call, observed>>
  BY DEF AskPacks, Asking
<1>2. call # NoCall /\ answer = "none"
  BY <1>1 DEF IInv, TypeOK
<1>3. "pack" \in ToSet(stores) /\ ToSet(left) = {"pack"} \cup ToSet(Tail(left))
  BY <1>1, NextStore DEF IInv
<1>4. CASE Miss /\ lastReadPack' = lastReadPack /\ \A i \in DOMAIN PackOrder : ~Ends(i)
  <2>1. pc' = "ask" /\ left' = Tail(left) /\ answer' = answer /\ packed' = packed
    BY <1>1, <1>4 DEF Miss, disk
  <2>2. PackOrder' = PackOrder
    BY <1>1, <1>4 DEF PackOrder
  <2>3. \A i \in DOMAIN PackOrder : Ends(i)' <=> Ends(i)
    BY <1>1, <2>1, <2>2 DEF Ends
  <2>4. Missed' <=> Missed
    BY <1>1, <1>3, <1>4, <2>1, <2>2, <2>3 DEF Missed
  <2>5. answerBar' = answerBar
    BY <2>1, <2>4 DEF answerBar
  <2>. QED
    BY <1>1, <1>2, <2>5, Deciding
<1>5. ASSUME NEW p \in ToSet(packFiles), \E i \in DOMAIN PackOrder : Ends(i),
             \/ packed[p][call.sha] = "whole" /\ Hit
             \/ /\ packed[p][call.sha] \in {"short", "torn"} /\ call.op = "load"
                /\ Fail
      PROVE  [Lookup!Next]_(Lookup!vars)
  <2>1. answerBar = "none"
    BY <1>1, <1>2, <1>3, <1>5 DEF answerBar, Missed
  <2>2. \/ packed[p][call.sha] = "whole" /\ answerBar' = "found"
        \/ packed[p][call.sha] \in {"short", "torn"} /\ call.op = "load" /\ answerBar' = "failed"
    BY <1>5 DEF Hit, Fail, answerBar, Missed
  <2>3. /\ packed[p][call.sha] = "whole" => wholeBar[call.sha] # {}
        /\ packed[p][call.sha] \in Damaged => flawedBar[call.sha] # {}
    BY <1>2, <1>3, PackIsAPlace
  <2>. QED
    BY <1>1, <1>2, <2>1, <2>2, <2>3, Deciding DEF Damaged
<1>. QED
  BY <1>4, <1>5, SearchOutcome

LEMMA NotFoundRefines == IInv /\ NotFound => [Lookup!Next]_(Lookup!vars)
<1>. SUFFICES ASSUME IInv, NotFound PROVE [Lookup!Next]_(Lookup!vars)
  OBVIOUS
<1>1. /\ pc = "ask" /\ left = <<>> /\ pc' = "done" /\ answer' = "notfound"
      /\ UNCHANGED <<disk, packFiles, stores, call, observed>>
  BY DEF NotFound, packStore
<1>2. call # NoCall /\ answer = "none" /\ ToSet(left) = {}
  BY <1>1 DEF IInv, TypeOK, ToSet
<1>3. answerBar' = "notfound"
  BY <1>1 DEF answerBar, Missed
<1>4. CASE Missed
  <2>1. answerBar' = answerBar
    BY <1>3, <1>4 DEF answerBar
  <2>. QED
    BY <1>1, <1>2, <2>1, Deciding
<1>5. CASE ~Missed
  <2>1. "file" \notin ToSet(stores) /\ answerBar = "none"
    BY <1>1, <1>2, <1>5 DEF Missed, answerBar
  <2>2. "pack" \in ToSet(stores) => \A p \in listed : packed[p][call.sha] # "whole"
    BY <1>1, <1>2 DEF IInv, Asked
  <2>3. wholeBar[call.sha] = {}
    BY <1>1, <1>2, <2>1, <2>2, Nowhere
  <2>. QED
    BY <1>1, <1>2, <1>3, <2>1, <2>3, Deciding
<1>. QED
  BY <1>4, <1>5

LEMMA ReturnRefines == IInv /\ Return => Lookup!Return
<1>. SUFFICES ASSUME IInv, Return PROVE Lookup!Return
  OBVIOUS
<1>1. /\ pc = "done" /\ pc' = "idle" /\ answer' = "none" /\ call' = NoCall /\ moved' = FALSE
      /\ UNCHANGED <<loose, packed, packFiles, stores>>
  BY DEF Return, disk, packStore
<1>2. answerBar # "none" /\ answerBar' = "none"
  BY <1>1 DEF IInv, TypeOK, answerBar, Missed
<1>3. wholeBar' = wholeBar /\ flawedBar' = flawedBar
  BY <1>1 DEF wholeBar, flawedBar, PlacesOf
<1>. QED
  BY <1>1, <1>2, <1>3 DEF Lookup!Return, wholeBar, flawedBar, answerBar

LEMMA StepRefines == IInv /\ IInv' /\ [Next]_vars => [Lookup!Next]_(Lookup!vars)
<1>. SUFFICES ASSUME IInv, IInv', [Next]_vars PROVE [Lookup!Next]_(Lookup!vars)
  OBVIOUS
<1>1. CASE Git
  BY <1>1, GitRefines DEF Lookup!Next
<1>2. CASE Run
  BY <1>2, OpeningRefines, AskFileRefines, ReadFileRefines, AskPacksRefines, NotFoundRefines,
     ReturnRefines DEF Run, Lookup!Next
<1>3. CASE Calls
  BY <1>3, StoresRefine, BeginRefines DEF Calls, Lookup!Next
<1>4. CASE UNCHANGED vars
  BY <1>4 DEF vars, disk, packStore, observed, Lookup!vars, PlacesOf, Missed, PackOrder, Ends
<1>. QED
  BY <1>1, <1>2, <1>3, <1>4 DEF Next

\* The stores do what a single store promises a caller: every hit, miss and
\* failure is true of a moment of the call, whatever git does meanwhile,
\* whichever stores there are and whatever they remember of their last hits.
THEOREM StoresImplementLookup == Spec => ImplementsLookup
<1>1. Init => Lookup!Init
  BY InitRefines
<1>2. IInv /\ IInv' /\ [Next]_vars => [Lookup!Next]_(Lookup!vars)
  BY StepRefines
<1>. QED
  BY <1>1, <1>2, Invariance, PTL DEF Spec, ImplementsLookup, Lookup!Spec
=============================================================================
