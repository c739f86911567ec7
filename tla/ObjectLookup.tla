---------------------------- MODULE ObjectLookup ----------------------------
(***************************************************************************)
(* What an object store promises a single caller (GITObjectStore.h): a     *)
(* call finds an object that is there, misses one that is not, and fails   *)
(* only over a damaged copy or one that was taken away under way.  It says *)
(* nothing of stores, packs and caches; each answer is true of a single    *)
(* moment of the call.                                                     *)
(***************************************************************************)
CONSTANTS Sha, Place, NoCall

VARIABLES
  whole, flawed,   \* the places that have a whole, or a damaged, copy of a sha
  call,            \* [op, sha] of the running call, or NoCall
  moved,           \* was a copy of the sha taken away during the call?
  answer           \* "none" until the call has been decided

vars == <<whole, flawed, call, moved, answer>>

Copies == [Sha -> SUBSET Place]
Call == [op : {"load", "data"}, sha : Sha]

Init ==
  /\ whole \in Copies /\ flawed \in Copies
  /\ call = NoCall /\ moved = FALSE /\ answer = "none"

\* Copies come and go.
Change ==
  /\ whole' \in Copies /\ flawed' \in Copies
  /\ moved' = (moved \/ (call # NoCall /\ ~(/\ whole[call.sha] \subseteq whole'[call.sha]
                                           /\ flawed[call.sha] \subseteq flawed'[call.sha])))
  /\ UNCHANGED <<call, answer>>

Begin ==
  /\ call = NoCall
  /\ call' \in Call
  /\ UNCHANGED <<whole, flawed, moved, answer>>

\* Only loadObjectWithSha1:... reports errors and checks sizes;
\* dataWithContentsOfObject: answers data or nil.
Possible(a) ==
  \/ a = "found" /\ (whole[call.sha] # {} \/ (call.op = "data" /\ flawed[call.sha] # {}))
  \/ a = "notfound" /\ whole[call.sha] = {}
  \/ a = "failed" /\ call.op = "load" /\ (flawed[call.sha] # {} \/ moved)

Decide ==
  /\ call # NoCall /\ answer = "none"
  /\ answer' \in {"found", "notfound", "failed"} /\ Possible(answer')
  /\ UNCHANGED <<whole, flawed, call, moved>>

Return ==
  /\ answer # "none"
  /\ call' = NoCall /\ moved' = FALSE /\ answer' = "none"
  /\ UNCHANGED <<whole, flawed>>

Next == Change \/ Begin \/ Decide \/ Return

Spec == Init /\ [][Next]_vars
=============================================================================
