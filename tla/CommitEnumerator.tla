-------------------------- MODULE CommitEnumerator --------------------------
(***************************************************************************)
(* GITCommitEnumerator: an NSEnumerator that walks the history from its    *)
(* start commits, depth first or breadth first, one commit per nextObject. *)
(* Between two calls the caller does what it likes: it may add start       *)
(* commits until the first nextObject, and go on after an exception.       *)
(***************************************************************************)
EXTENDS CommitHistory

CONSTANTS
  Nil,         \* the answer of nextObject at the end
  MaxStarts    \* bound: how many start commits a caller queues

\* nil is no commit, and no collection either.
ASSUME EnumeratorAssumption ==
  /\ IsFiniteSet(Commit)
  /\ Nil \notin Commit /\ Nil \notin Seq(Commit) /\ \A S \in SUBSET Commit : Nil # S
  /\ MaxStarts \in Nat

VARIABLES
  head,                       \* of the repository, which never changes
  mode,                       \* "DFS" or "BFS"
  nodeQueue, visitedNodes,    \* Nil once nextObject has released them
  started,
  answers,                    \* observation: what nextObject returned so far
  starts,                     \* observation: the commits queued as starts
  raised                      \* observation: an exception left nextObject

repository == <<parentShas, stored, head>>
enumeratorVars == <<repository, mode, nodeQueue, visitedNodes, started, answers, starts, raised>>

EnumeratorTypeOK ==
  /\ parentShas \in Histories /\ stored \in Stores /\ head \in Commit
  /\ mode \in {"DFS", "BFS"}
  /\ nodeQueue \in Seq(stored) \cup {Nil}
  /\ visitedNodes \in (SUBSET Commit) \cup {Nil}
  /\ started \in BOOLEAN /\ raised \in BOOLEAN
  /\ answers \in Seq(stored \cup {Nil}) /\ starts \in Seq(stored)

\* enumeratorWithRepo:mode: queues the head; alloc and init queue nothing.
EnumeratorInit ==
  /\ parentShas \in Histories /\ stored \in Stores /\ head \in stored
  /\ mode \in {"DFS", "BFS"}
  /\ nodeQueue \in {<<>>, <<head>>}
  /\ visitedNodes = {} /\ started = FALSE
  /\ answers = <<>> /\ starts = nodeQueue /\ raised = FALSE

-----------------------------------------------------------------------------
(***************************************************************************)
(* Seeded faults: what an operator defined further down would be if the    *)
(* code had a bug.  The specification uses none of them.                   *)
(***************************************************************************)
\* The ends of the two modes are exchanged.
TakeOtherEnd(q) == IF mode = "BFS" THEN <<Last(q), Front(q)>> ELSE <<Head(q), Tail(q)>>

\* A parent is not marked when it is queued.
PushUnmarked(s, p) ==
  IF s.raised \/ p \in s.visited THEN s
  ELSE IF p \in stored THEN [s EXCEPT !.queue = Append(@, p)]
  ELSE [s EXCEPT !.raised = TRUE]

\* A parent the repository cannot load is passed over.
PushLoadable(s, p) ==
  IF p \in s.visited \/ p \notin stored THEN s
  ELSE [s EXCEPT !.visited = @ \cup {p}, !.queue = Append(@, p)]

-----------------------------------------------------------------------------
SetStartCommit(c) ==
  /\ ~started /\ Len(starts) < MaxStarts
  /\ nodeQueue' = Append(nodeQueue, c)
  /\ starts' = Append(starts, c)
  /\ UNCHANGED <<repository, mode, visitedNodes, started, answers, raised>>

\* The queue before the first take: empty only if nothing was queued, and
\* then the head is.
FirstQueue == IF nodeQueue = <<>> THEN <<head>> ELSE nodeQueue

\* A stack depth first, a FIFO breadth first: the commit and the rest.
Take(q) == IF mode = "DFS" THEN <<Last(q), Front(q)>> ELSE <<Head(q), Tail(q)>>

\* One turn of the loop over the parents.  A parent the repository cannot
\* load is marked, and then addObject:nil raises.
Push(s, p) ==
  IF s.raised \/ p \in s.visited THEN s
  ELSE IF p \in stored
       THEN [s EXCEPT !.visited = @ \cup {p}, !.queue = Append(@, p)]
       ELSE [s EXCEPT !.visited = @ \cup {p}, !.raised = TRUE]

Exhausted == started /\ (nodeQueue = Nil \/ nodeQueue = <<>>)

\* The loop over the parents.
PushAll(s, ps) ==
  LET after[k \in 0..Len(ps)] == IF k = 0 THEN s ELSE Push(after[k - 1], ps[k])
  IN after[Len(ps)]

\* Seeded fault: a commit whose parents raise stays queued, and they stay
\* unmarked.
NextCommitOrRetry ==
  /\ ~Exhausted
  /\ LET q == IF started THEN nodeQueue ELSE FirstQueue
         c == Take(q)[1]
         s == PushAll([visited |-> visitedNodes \cup {c}, queue |-> Take(q)[2],
                      raised |-> FALSE], parentShas[c])
     IN /\ nodeQueue' = IF s.raised THEN q ELSE s.queue
        /\ visitedNodes' = IF s.raised THEN visitedNodes ELSE s.visited
        /\ answers' = IF s.raised THEN answers ELSE Append(answers, c)
        /\ raised' = (raised \/ s.raised)
  /\ starts' = IF started THEN starts ELSE FirstQueue
  /\ started' = TRUE
  /\ UNCHANGED <<repository, mode>>

NextCommit ==
  /\ ~Exhausted
  /\ LET q == IF started THEN nodeQueue ELSE FirstQueue
         c == Take(q)[1]
         s == PushAll([visited |-> visitedNodes \cup {c}, queue |-> Take(q)[2],
                      raised |-> FALSE], parentShas[c])
     IN /\ nodeQueue' = s.queue /\ visitedNodes' = s.visited
        /\ answers' = IF s.raised THEN answers ELSE Append(answers, c)
        /\ raised' = (raised \/ s.raised)
  /\ starts' = IF started THEN starts ELSE FirstQueue
  /\ started' = TRUE
  /\ UNCHANGED <<repository, mode>>

\* The end: the collections are released and nil is returned, now and later
\* (the answers to later calls are not recorded).
NextNil ==
  /\ Exhausted
  /\ nodeQueue' = Nil /\ visitedNodes' = Nil
  /\ answers' = IF nodeQueue = Nil THEN answers ELSE Append(answers, Nil)
  /\ UNCHANGED <<repository, mode, started, starts, raised>>

NextObject == NextCommit \/ NextNil

EnumeratorNext == (\E c \in stored : SetStartCommit(c)) \/ NextObject

EnumeratorSpec == EnumeratorInit /\ [][EnumeratorNext]_enumeratorVars

\* allObjects and for-in loops call nextObject until it answers nil.
FairEnumeratorSpec == EnumeratorSpec /\ WF_enumeratorVars(NextObject)
-----------------------------------------------------------------------------
(***************************************************************************)
(* Properties.                                                             *)
(***************************************************************************)
Ended == started /\ nodeQueue = Nil

Answered == ToSet(answers) \ {Nil}

Parents(S) == UNION {ToSet(parentShas[c]) : c \in S}

\* The commits at most k generations above one of S, for every k.
Ancestry(S, parents) ==
  LET above[k \in 0..Cardinality(Commit)] ==
        IF k = 0 THEN S ELSE above[k - 1] \cup UNION {ToSet(parents[c]) : c \in above[k - 1]}
  IN above

\* Within[k]: the commits at most k generations above a start commit.
Within == Ancestry(ToSet(starts), parentShas)

Generation(c) == CHOOSE k \in 0..Cardinality(Commit) :
                   c \in Within[k] /\ \A l \in 0..(k - 1) : c \notin Within[l]

\* An enumeration no exception interrupted has answered the start commits and
\* everything above them when it answers nil: a parent is queued by the first
\* child that names it, and no later one (nextObject, 97-108).
AnswersHistory ==
  Ended /\ ~raised => Answered = Within[Cardinality(Commit)]

Occurrences(s, c) == Cardinality({i \in DOMAIN s : s[i] = c})

\* The walk from one start answers no commit twice, however it meets it: by
\* merges, criss-crosses, or a parent named twice.  Start commits are marked
\* only when they are taken, so of several starts one that is an ancestor of
\* another comes once more than the caller queued it; nothing else comes twice,
\* also when the caller goes on after exceptions.  (And nothing has a wrong type.)
AnsweredOnce ==
  /\ EnumeratorTypeOK
  /\ \A c \in Answered :
       Occurrences(answers, c) <=
         IF Len(starts) > 1 /\ c \in ToSet(starts) THEN Occurrences(starts, c) + 1 ELSE 1

\* Where a commit is answered for the first time.
FirstAnswers ==
  {j \in DOMAIN answers : answers[j] # Nil /\ answers[j] \notin ToSet(SubSeq(answers, 1, j - 1))}

\* Breadth first, the generations come in order, a commit counted at the
\* shortest way to it, although parents are queued by whichever child comes
\* first.
GenerationsInOrder ==
  mode = "BFS" /\ ~raised =>
    \A i, j \in FirstAnswers :
      i < j => Generation(answers[i]) <= Generation(answers[j])

\* The parents of the last answer that no commit before it has named.
Unseen ==
  ToSet(parentShas[Last(answers)]) \ (Parents(ToSet(Front(answers))) \cup Answered)

\* Depth first, the walk goes on from the commit it has just answered as long
\* as that commit has a parent not yet seen: the next answer is one of those.
DescendsFirst ==
  [][mode = "DFS" /\ answers # <<>> /\ ~Exhausted /\ ~raised' /\ answers' # answers
       /\ Unseen # {} => Last(answers') \in Unseen]_enumeratorVars

\* Every enumeration ends, whatever it raises on the way.
Ends == <>[]Ended
=============================================================================
