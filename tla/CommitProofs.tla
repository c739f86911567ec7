---------------------------- MODULE CommitProofs ----------------------------
(***************************************************************************)
(* Theorems about CommitGraph, for every set of commits, every history and *)
(* every order of calls: its types (no indegree is ever counted below 0),  *)
(* the agreement of the two ends of every edge, the topological constraint *)
(* of --topo-order and --date-order; then that a build is complete, that   *)
(* every sort lists every node once, that the default order puts a child   *)
(* first and that the orders by date take the youngest.                    *)
(*                                                                         *)
(* None is inductive by itself.  The indegree of a node during a           *)
(* topological sort counts its in-edges that no listed child has released; *)
(* a node waits on the stack or is listed only when that count is 0, and   *)
(* this is what makes a decrement safe and puts the children first (IInv). *)
(* That nothing is left out rests on what waits: the greatest commit that  *)
(* is missing from a list would have only listed children, and then it     *)
(* waits (JInv, kept on top of IInv).                                      *)
(***************************************************************************)
EXTENDS CommitGraph, CommitEnumerator, WorkListTheorems

Topological == {"topo", "dateorder"}

\* The in-edges already counted off: those from listed nodes, and of the node
\* being walked only those before the cursor.
Released ==
  {o \in Occurrence : o[1] \in ToSet(sorted) /\ (o[1] = cur => o[2] < edge)}

\* The nodes are finitely many, and a commit without a node has no edges.
WellFormed ==
  /\ TypeOK
  /\ IsFiniteSet(nodes)
  /\ \A c \in Commit : IsFiniteSet(inNodes[c])
  /\ \A c \in Commit \ nodes : inNodes[c] = {} /\ outNodes[c] = <<>>

\* EdgesMirrored, edge by edge.
Mirror ==
  \A p, c \in Commit : \A i \in Nat \ {0} :
    <<c, i>> \in inNodes[p] <=> i <= Len(outNodes[c]) /\ outNodes[c][i] = p

\* The list that is being made, or was made last, belongs to the routine, and
\* between calls no node is being walked.
OrderOfRoutine ==
  /\ Idle => cur = NoCommit
  /\ pc = "build" => order = "none"
  /\ pc \in Sorts => order = pc

\* Kahn's algorithm: indegrees count what is not released, and only nodes
\* with none left wait or are listed.
Counts ==
  /\ \A w \in nodes : indegree[w] = Cardinality(inNodes[w] \ Released)
  /\ \A w \in ToSet(stack) \cup ToSet(sorted) : indegree[w] = 0
  /\ Distinct(stack) /\ Distinct(sorted)
  /\ ToSet(stack) \cap ToSet(sorted) = {}
  /\ cur # NoCommit => cur \in ToSet(sorted)

Kahn == pc \in Topological => Counts

IInv == WellFormed /\ Mirror /\ OrderOfRoutine /\ Kahn /\ ChildrenFirst

-----------------------------------------------------------------------------
\* Every parent list is a sequence of commits.
LEMMA ParentsAreCommits ==
  ASSUME parentShas \in Histories, NEW c \in Commit
  PROVE  parentShas[c] \in Seq(Commit)
  BY HistoryAssumption, GraphAssumption

\* A target of an edge is a node: the routines push only nodes.
LEMMA TargetIsNode ==
  ASSUME WellFormed, Mirror, NEW c \in nodes, NEW i \in 1..Len(outNodes[c])
  PROVE  /\ outNodes[c][i] \in nodes
         /\ <<c, i>> \in inNodes[outNodes[c][i]]
         /\ i \in Nat \ {0} /\ Len(outNodes[c]) \in Nat
<1>1. outNodes[c] \in Seq(Commit) /\ c \in Commit
  BY DEF WellFormed, TypeOK
<1>2. i \in Nat \ {0} /\ i <= Len(outNodes[c]) /\ Len(outNodes[c]) \in Nat
  BY <1>1, LenProperties
<1>3. outNodes[c][i] \in Commit
  BY <1>1, ElementOfSeq
<1>4. <<c, i>> \in inNodes[outNodes[c][i]]
  BY <1>1, <1>2, <1>3 DEF Mirror
<1>. QED
  BY <1>2, <1>3, <1>4 DEF WellFormed

\* Sequences over the nodes stay such when a node is added.
LEMMA MoreNodes ==
  ASSUME nodes \subseteq nodes', NEW s \in Seq(nodes)
  PROVE  s \in Seq(nodes')
  BY SeqMonotonic

-----------------------------------------------------------------------------
LEMMA InitEstablishes == Init => IInv
<1>. SUFFICES ASSUME Init PROVE IInv
  OBVIOUS
<1>1. <<>> \in Seq(Commit) /\ <<>> \in Seq(nodes) /\ Len(<<>>) = 0
  BY EmptySeq
<1>2. WellFormed
  <2>1. TypeOK
    BY <1>1, HistoryAssumption, GraphAssumption DEF Init, TypeOK, Occurrence, Sorts
  <2>. QED
    BY <2>1, FS_EmptySet DEF Init, WellFormed
<1>3. Mirror
  BY <1>1 DEF Init, Mirror
<1>. QED
  BY <1>2, <1>3 DEF Init, IInv, OrderOfRoutine, Kahn, Counts, ChildrenFirst, Topological, Sorts, Idle

\* What a step that leaves the graph and the list alone, and ends or is no
\* part of a topological sort, keeps of the invariant.
LEMMA GraphUntouched ==
  ASSUME IInv, UNCHANGED <<repo, graph, sorted, order>>, TypeOK',
         pc' \notin Topological, OrderOfRoutine'
  PROVE  IInv'
<1>1. WellFormed'
  BY DEF IInv, WellFormed, graph
<1>2. Mirror'
  BY DEF IInv, Mirror, graph
<1>3. ChildrenFirst'
  BY DEF IInv, ChildrenFirst, Children, graph
<1>. QED
  BY <1>1, <1>2, <1>3 DEF IInv, Kahn

LEMMA EdgesDoneStep == IInv /\ EdgesDone => IInv'
<1>. SUFFICES ASSUME IInv, EdgesDone PROVE IInv'
  OBVIOUS
<1>. USE DEF EdgesDone, repo, graph
<1>1. WellFormed'
  BY DEF IInv, WellFormed, TypeOK
<1>2. Mirror' /\ OrderOfRoutine' /\ ChildrenFirst'
  BY DEF IInv, Mirror, OrderOfRoutine, Idle, ChildrenFirst, Children
<1>3. Kahn'
  <2>1. SUFFICES ASSUME pc \in Topological PROVE Counts'
    BY DEF Kahn
  <2>2. ASSUME NEW w \in nodes, NEW o \in inNodes[w]
        PROVE  o \in Released <=> o \in Released'
    <3>1. o \in Occurrence /\ w \in Commit
      BY DEF IInv, WellFormed, TypeOK
    <3>2. CASE o[1] = cur
      <4>1. o = <<cur, o[2]>> /\ o[2] \in Nat \ {0} /\ cur \in Commit
        BY <3>1, <3>2 DEF Occurrence
      <4>2. o[2] <= Len(outNodes[cur])
        BY <3>1, <4>1 DEF IInv, Mirror
      <4>3. edge > Len(outNodes[cur]) /\ Len(outNodes[cur]) \in Nat /\ edge \in Nat
        BY <2>1, <4>1, LenProperties DEF Edges, Topological, IInv, WellFormed, TypeOK
      <4>4. o[2] < edge
        BY <4>1, <4>2, <4>3
      <4>5. o[1] # cur'
        BY <3>1, HistoryAssumption, GraphAssumption DEF Occurrence
      <4>. QED
        BY <4>4, <4>5, <3>1 DEF Released
    <3>3. CASE o[1] # cur
      <4>1. o[1] # cur'
        BY <3>1, HistoryAssumption, GraphAssumption DEF Occurrence
      <4>. QED
        BY <3>1, <3>3, <4>1 DEF Released
    <3>. QED
      BY <3>2, <3>3
  <2>3. \A w \in nodes : inNodes[w] \ Released = inNodes[w] \ Released'
    BY <2>2
  <2>. QED
    BY <2>1, <2>3 DEF IInv, Kahn, Counts
<1>. QED
  BY <1>1, <1>2, <1>3 DEF IInv

LEMMA ReturnStep == IInv /\ Return => IInv'
<1>. SUFFICES ASSUME IInv, Return PROVE IInv'
  OBVIOUS
<1>. USE DEF Return, repo, graph
<1>1. TypeOK'
  BY DEF IInv, WellFormed, TypeOK
<1>. QED
  BY <1>1, GraphUntouched DEF OrderOfRoutine, Topological, Sorts, Idle

LEMMA MissingParentStep == IInv /\ MissingParent => IInv'
<1>. SUFFICES ASSUME IInv, MissingParent PROVE IInv'
  OBVIOUS
<1>. USE DEF MissingParent, repo, graph
<1>1. TypeOK'
  <2>1. /\ pc' = "idle" /\ stack' = <<>> /\ cur' = NoCommit /\ edge' = 1
        /\ clean' = FALSE
        /\ UNCHANGED <<parentShas, sortDate, stored, nodes, outNodes, inNodes,
                       indegree, visited, processed, sorted, order, fresh>>
    OBVIOUS
  <2>. HIDE DEF MissingParent
  <2>2. stack' \in Seq(nodes') /\ cur' \in nodes' \cup {NoCommit} /\ edge' \in Nat \ {0}
    BY <2>1, EmptySeq
  <2>3. pc' \in {"idle", "build"} \cup Sorts /\ clean' \in BOOLEAN
    BY <2>1
  <2>. QED
    BY <2>1, <2>2, <2>3 DEF IInv, WellFormed, TypeOK
<1>. QED
  BY <1>1, GraphUntouched DEF OrderOfRoutine, Topological, Sorts, Idle

\* Taking the last pending node keeps the types.
LEMMA TakeLastTypes ==
  ASSUME TypeOK, TakeLast
  PROVE  /\ cur' \in nodes /\ cur' = Last(stack) /\ stack' \in Seq(nodes)
         /\ edge' = 1 /\ stack # <<>> /\ Last(stack) \in nodes
  BY FrontLast DEF TypeOK, TakeLast

LEMMA PopNodeStep == IInv /\ PopNode => IInv'
<1>. SUFFICES ASSUME IInv, PopNode PROVE IInv'
  OBVIOUS
<1>. USE DEF PopNode, repo, graph
<1>1. TypeOK'
  BY TakeLastTypes DEF IInv, WellFormed, TypeOK
<1>. QED
  BY <1>1, GraphUntouched DEF IInv, OrderOfRoutine, Idle, Topological, Sorts, Between

LEMMA NodesSortedByDateStep == IInv /\ NodesSortedByDate => IInv'
<1>. SUFFICES ASSUME IInv, NodesSortedByDate PROVE IInv'
  OBVIOUS
<1>. USE DEF NodesSortedByDate, repo, graph
<1>1. TypeOK'
  <2>1. IsFiniteSet(DateRoots)
    BY FS_Subset, DateRoots \in SUBSET nodes DEF IInv, WellFormed, DateRoots
  <2>2. stack' \in Seq(DateRoots)
    BY <2>1, OrderingElements
  <2>3. stack' \in Seq(nodes)
    BY <2>2, SeqMonotonic, DateRoots \subseteq nodes DEF DateRoots
  <2>4. <<>> \in Seq(nodes)
    BY EmptySeq
  <2>. QED
    BY <2>3, <2>4 DEF IInv, WellFormed, TypeOK, Sorts
<1>2. WellFormed' /\ Mirror' /\ OrderOfRoutine' /\ Kahn' /\ ChildrenFirst'
  BY <1>1 DEF IInv, WellFormed, Mirror, OrderOfRoutine, Idle, Kahn, ChildrenFirst, Topological, Sorts
<1>. QED
  BY <1>2 DEF IInv

LEMMA EmitYoungestStep == IInv /\ EmitYoungest => IInv'
<1>. SUFFICES ASSUME IInv, EmitYoungest PROVE IInv'
  OBVIOUS
<1>. USE DEF EmitYoungest, repo, graph
<1>1. TypeOK'
  <2>1. Last(stack) \in nodes /\ stack' \in Seq(nodes) /\ cur' \in nodes /\ edge' = 1
    BY TakeLastTypes DEF IInv, WellFormed
  <2>2. Append(sorted, Last(stack)) \in Seq(nodes)
    BY <2>1, AppendElements DEF IInv, WellFormed, TypeOK
  <2>. QED
    BY <2>1, <2>2 DEF IInv, WellFormed, TypeOK
<1>2. order = "date"
  BY DEF IInv, OrderOfRoutine, Idle, Between, Sorts
<1>3. WellFormed' /\ Mirror' /\ OrderOfRoutine' /\ Kahn' /\ ChildrenFirst'
  BY <1>1, <1>2 DEF IInv, WellFormed, Mirror, OrderOfRoutine, Idle, Kahn, ChildrenFirst,
                    Between, Topological, Sorts
<1>. QED
  BY <1>3 DEF IInv

\* A node put in by date is a node more on the stack.
LEMMA InsertByDateElements ==
  ASSUME TypeOK, NEW w \in nodes, InsertByDate(w)
  PROVE  /\ stack' \in Seq(nodes)
         /\ ToSet(stack') = ToSet(stack) \cup {w}
         /\ Distinct(stack) /\ w \notin ToSet(stack) => Distinct(stack')
<1>1. PICK i \in Positions(stack, w) : stack' = InsertAt(stack, i, w)
  BY DEF InsertByDate
<1>2. i \in 1..(Len(stack) + 1) /\ stack \in Seq(nodes)
  BY <1>1 DEF Positions, TypeOK
<1>. QED
  BY <1>1, <1>2, InsertElements

LEMMA VisitEdgeStep == IInv /\ VisitEdge => IInv'
<1>. SUFFICES ASSUME IInv, VisitEdge PROVE IInv'
  OBVIOUS
<1>. USE DEF VisitEdge, repo, graph
<1> DEFINE w == Edges[edge]
<1>1. w \in nodes
  <2>1. cur \in nodes /\ edge \in 1..Len(outNodes[cur]) /\ w = outNodes[cur][edge]
    BY LenProperties DEF IInv, WellFormed, TypeOK, Walking, Edges
  <2>. QED
    BY <2>1, TargetIsNode DEF IInv
<1>2. TypeOK'
  <2>1. stack' \in Seq(nodes)
    BY <1>1, InsertByDateElements DEF IInv, WellFormed, TypeOK
  <2>. QED
    BY <1>1, <2>1 DEF IInv, WellFormed, TypeOK
<1>. QED
  BY <1>2, GraphUntouched DEF IInv, OrderOfRoutine, Idle, Topological, Walking, Sorts

LEMMA BuildStep ==
  ASSUME IInv, NEW c \in Commit, BuildGraphWithStartingCommit(c)
  PROVE  IInv'
<1>. USE DEF BuildGraphWithStartingCommit, repo
<1>1. TypeOK'
  <2>1. nodes \subseteq nodes' /\ c \in nodes' /\ nodes' \subseteq Commit
    BY DEF IInv, WellFormed, TypeOK
  <2>2. sorted' \in Seq(nodes')
    BY <2>1, MoreNodes DEF IInv, WellFormed, TypeOK
  <2>3. stack' \in Seq(nodes')
    BY <2>1
  <2>. QED
    BY <2>1, <2>2, <2>3 DEF IInv, WellFormed, TypeOK
<1>2. WellFormed'
  BY <1>1, FS_AddElement DEF IInv, WellFormed
<1>3. Mirror' /\ OrderOfRoutine' /\ Kahn' /\ ChildrenFirst'
  BY DEF IInv, Mirror, OrderOfRoutine, Idle, Kahn, ChildrenFirst, Topological, Sorts
<1>. QED
  BY <1>2, <1>3 DEF IInv

LEMMA ExpandParentStep == IInv /\ ExpandParent => IInv'
<1>. SUFFICES ASSUME IInv, ExpandParent PROVE IInv'
  OBVIOUS
<1> DEFINE p == Edges[edge]
           k == Len(outNodes[cur]) + 1
<1>1. /\ pc = "build" /\ cur \in nodes /\ cur \in Commit /\ p \in Commit
      /\ outNodes[cur] \in Seq(Commit) /\ k \in Nat \ {0}
      /\ Len(outNodes[cur]) \in Nat
  <2>1. pc = "build" /\ cur \in nodes /\ cur \in Commit /\ edge \in Nat \ {0}
    BY DEF ExpandParent, Walking, IInv, WellFormed, TypeOK
  <2>2. Edges \in Seq(Commit) /\ edge \in 1..Len(Edges)
    BY <2>1, ParentsAreCommits, LenProperties
    DEF Edges, ExpandParent, IInv, WellFormed, TypeOK
  <2>3. outNodes[cur] \in Seq(Commit)
    BY <2>1 DEF IInv, WellFormed, TypeOK
  <2>. QED
    BY <2>1, <2>2, <2>3, ElementOfSeq, LenProperties
<1>2. /\ nodes' = nodes \cup {p}
      /\ indegree' = [indegree EXCEPT ![p] = @ + 1]
      /\ outNodes' = [outNodes EXCEPT ![cur] = Append(@, p)]
      /\ inNodes' = [inNodes EXCEPT ![p] = @ \cup {<<cur, k>>}]
      /\ visited' = visited \cup {p}
      /\ stack' = IF NotVisited(p) THEN Append(stack, p) ELSE stack
      /\ edge' = edge + 1
      /\ UNCHANGED <<parentShas, sortDate, stored, processed, pc, cur, sorted,
                     order, clean, fresh>>
  BY DEF ExpandParent, AddEdgeFromNode, repo
<1>3. /\ Append(outNodes[cur], p) \in Seq(Commit)
      /\ Len(Append(outNodes[cur], p)) = k
      /\ \A i \in 1..(k - 1) : Append(outNodes[cur], p)[i] = outNodes[cur][i]
      /\ Append(outNodes[cur], p)[k] = p
  BY <1>1, AppendElements
<1> HIDE DEF p, k
<1>4. TypeOK'
  <2>1. nodes \subseteq nodes' /\ nodes' \subseteq Commit /\ p \in nodes'
    BY <1>1, <1>2 DEF IInv, WellFormed, TypeOK
  <2>2. stack \in Seq(nodes') /\ sorted' \in Seq(nodes')
    BY <1>2, <2>1, MoreNodes DEF IInv, WellFormed, TypeOK
  <2>3. stack' \in Seq(nodes')
    BY <1>2, <2>1, <2>2, AppendElements
  <2>4. outNodes' \in [Commit -> Seq(Commit)]
    BY <1>1, <1>2, <1>3 DEF IInv, WellFormed, TypeOK
  <2>5. inNodes' \in [Commit -> SUBSET Occurrence]
    BY <1>1, <1>2 DEF IInv, WellFormed, TypeOK, Occurrence
  <2>6. indegree' \in [Commit -> Nat]
    BY <1>1, <1>2 DEF IInv, WellFormed, TypeOK
  <2>. QED
    BY <1>1, <1>2, <2>1, <2>2, <2>3, <2>4, <2>5, <2>6, SMTT(20) DEF IInv, WellFormed, TypeOK
<1>5. WellFormed'
  <2>1. IsFiniteSet(nodes')
    BY <1>2, FS_AddElement DEF IInv, WellFormed
  <2>2. IsFiniteSet(inNodes[p] \cup {<<cur, k>>})
    BY <1>1, FS_AddElement DEF IInv, WellFormed
  <2>. QED
    BY <1>1, <1>2, <1>4, <2>1, <2>2 DEF IInv, WellFormed, TypeOK
<1>6. Mirror'
  <2>. SUFFICES ASSUME NEW q \in Commit, NEW c \in Commit, NEW i \in Nat \ {0}
                PROVE  <<c, i>> \in inNodes'[q] <=>
                         i <= Len(outNodes'[c]) /\ outNodes'[c][i] = q
    BY DEF Mirror
  <2>1. <<c, i>> \in inNodes[q] <=> i <= Len(outNodes[c]) /\ outNodes[c][i] = q
    BY DEF IInv, Mirror
  <2>2. <<c, i>> \in inNodes'[q] <=>
          <<c, i>> \in inNodes[q] \/ (q = p /\ c = cur /\ i = k)
    BY <1>1, <1>2 DEF IInv, WellFormed, TypeOK
  <2>3. CASE c # cur
    BY <2>1, <2>2, <2>3, <1>1, <1>2 DEF IInv, WellFormed, TypeOK
  <2>4. CASE c = cur
    <3>1. outNodes'[c] = Append(outNodes[cur], p)
      BY <1>1, <1>2, <2>4 DEF IInv, WellFormed, TypeOK
    <3>2. Len(outNodes[cur]) = k - 1
      BY <1>1 DEF k
    <3>3. CASE i = k
      BY <2>1, <2>2, <2>4, <3>1, <3>2, <3>3, <1>1, <1>3
    <3>4. CASE i < k
      BY <2>1, <2>2, <2>4, <3>1, <3>2, <3>4, <1>1, <1>3
    <3>5. CASE i > k
      BY <2>1, <2>2, <2>4, <3>1, <3>2, <3>5, <1>1, <1>3
    <3>. QED
      BY <1>1, <3>3, <3>4, <3>5
  <2>. QED
    BY <2>3, <2>4
<1>7. OrderOfRoutine' /\ Kahn' /\ ChildrenFirst'
  BY <1>1, <1>2 DEF IInv, OrderOfRoutine, Idle, Kahn, ChildrenFirst, Topological, Sorts
<1>. QED
  BY <1>5, <1>6, <1>7 DEF IInv

LEMMA NodesSortedByTopologyStep ==
  ASSUME IInv, NEW useLifo \in BOOLEAN, NodesSortedByTopology(useLifo)
  PROVE  IInv'
<1>1. /\ indegree' = [c \in Commit |-> Cardinality(inNodes[c])]
      /\ pc' \in Topological /\ order' = pc' /\ sorted' = <<>>
      /\ pc = "idle" /\ cur' = cur /\ edge' = edge
      /\ UNCHANGED <<parentShas, sortDate, stored, nodes, outNodes, inNodes,
                     visited, processed, clean>>
      /\ fresh' = TRUE
  BY DEF NodesSortedByTopology, ResetIndegree, InCount, Idle, Topological, repo, graph
<1>2. stack' \in SetToSeqs(TopologyRoots)
  BY DEF NodesSortedByTopology
<1>3. TopologyRoots \subseteq nodes /\ IsFiniteSet(TopologyRoots)
      /\ \A c \in TopologyRoots : c \in Commit /\ indegree'[c] = 0
  <2>1. TopologyRoots \in SUBSET nodes
    BY DEF TopologyRoots
  <2>. QED
    BY <2>1, <1>1, FS_Subset DEF IInv, WellFormed, TypeOK, TopologyRoots, ResetIndegree, InCount
<1>4. stack' \in Seq(TopologyRoots) /\ Distinct(stack') /\ ToSet(stack') = TopologyRoots
  BY <1>2, <1>3, OrderingElements
<1>5. /\ <<>> \in Seq(nodes) /\ ToSet(<<>>) = {} /\ Distinct(<<>>) /\ Len(<<>>) = 0
  BY EmptySeq DEF ToSet, Distinct
<1>6. TypeOK'
  <2>1. stack' \in Seq(nodes)
    BY <1>3, <1>4, SeqMonotonic
  <2>2. \A c \in Commit : Cardinality(inNodes[c]) \in Nat
    BY FS_CardinalityType DEF IInv, WellFormed
  <2>. QED
    BY <1>1, <1>5, <2>1, <2>2 DEF IInv, WellFormed, TypeOK, Topological, Sorts
<1>7. WellFormed' /\ Mirror' /\ OrderOfRoutine'
  BY <1>1, <1>6 DEF IInv, WellFormed, Mirror, OrderOfRoutine, Idle, Topological, Sorts
<1>8. ChildrenFirst'
  BY <1>1, <1>5 DEF ChildrenFirst
<1>9. Kahn'
  <2>1. Released' = {}
    BY <1>1, <1>5 DEF Released
  <2>2. \A w \in nodes : inNodes[w] \ {} = inNodes[w] /\ w \in Commit
    BY DEF IInv, WellFormed, TypeOK
  <2>3. cur = NoCommit
    BY <1>1 DEF IInv, OrderOfRoutine, Idle
  <2>. QED
    BY <1>1, <1>3, <1>4, <1>5, <2>1, <2>2, <2>3 DEF Kahn, Counts
<1>. QED
  BY <1>7, <1>8, <1>9 DEF IInv

\* A node none of whose in-edges is left to release has only listed children.
LEMMA NoneLeftToRelease ==
  ASSUME WellFormed, Mirror, NEW v \in nodes,
         Cardinality(inNodes[v] \ Released) = 0, NEW c \in Children(v)
  PROVE  c \in ToSet(sorted)
<1>1. c \in nodes /\ v \in ToSet(outNodes[c]) /\ outNodes[c] \in Seq(Commit)
      /\ v \in Commit /\ c \in Commit
  BY DEF Children, WellFormed, TypeOK
<1>2. PICK i \in 1..Len(outNodes[c]) : outNodes[c][i] = v
  BY <1>1, ToSetIsElements
<1>3. <<c, i>> \in inNodes[v]
  BY <1>1, <1>2, TargetIsNode
<1>4. inNodes[v] \ Released = {}
  <2>1. IsFiniteSet(inNodes[v] \ Released)
    BY <1>1, FS_Subset, inNodes[v] \ Released \in SUBSET inNodes[v] DEF WellFormed
  <2>. QED
    BY <2>1, FS_EmptySet
<1>. QED
  BY <1>3, <1>4 DEF Released

LEMMA EmitRootStep == IInv /\ EmitRoot => IInv'
<1>. SUFFICES ASSUME IInv, EmitRoot PROVE IInv'
  OBVIOUS
<1> DEFINE v == Last(stack)
<1>1. /\ pc \in Topological /\ pc' = pc /\ order' = order /\ order \in Topological
      /\ cur = NoCommit /\ cur' = v /\ edge' = 1
      /\ stack # <<>> /\ stack' = Front(stack) /\ sorted' = Append(sorted, v)
      /\ UNCHANGED <<parentShas, sortDate, stored, nodes, outNodes, inNodes,
                     indegree, visited, processed, clean, fresh>>
  BY DEF EmitRoot, Between, TakeLast, Topological, Sorts, repo, graph, IInv, OrderOfRoutine
<1>2. /\ stack \in Seq(nodes) /\ sorted \in Seq(nodes) /\ v \in nodes /\ v \in Commit
      /\ stack' \in Seq(nodes) /\ ToSet(stack) = ToSet(stack') \cup {v}
  BY <1>1, FrontLast DEF IInv, WellFormed, TypeOK
<1>3. /\ Counts /\ indegree[v] = 0 /\ v \notin ToSet(sorted)
      /\ Distinct(stack') /\ v \notin ToSet(stack')
  <2>1. Counts
    BY <1>1 DEF IInv, Kahn
  <2>2. Distinct(stack)
    BY <2>1 DEF Counts
  <2>3. Distinct(stack') /\ v \notin ToSet(stack')
    BY <1>1, <1>2, <2>2, FrontDistinct
  <2>. QED
    BY <1>2, <2>1, <2>3 DEF Counts
<1> HIDE DEF v
<1>4. /\ sorted' \in Seq(nodes) /\ ToSet(sorted') = ToSet(sorted) \cup {v}
      /\ Len(sorted') = Len(sorted) + 1 /\ Len(sorted) \in Nat
      /\ \A i \in 1..Len(sorted) : sorted'[i] = sorted[i]
      /\ sorted'[Len(sorted) + 1] = v
      /\ Distinct(sorted')
  BY <1>1, <1>2, <1>3, AppendElements DEF Counts
<1>5. WellFormed' /\ Mirror' /\ OrderOfRoutine'
  <2>1. TypeOK'
    BY <1>1, <1>2, <1>4 DEF IInv, WellFormed, TypeOK
  <2>. QED
    BY <1>1, <2>1 DEF IInv, WellFormed, Mirror, OrderOfRoutine, Idle, Topological, Sorts
<1>6. Released' = Released
  <2>1. \A o \in Occurrence : o[2] \in Nat \ {0} /\ o[1] # NoCommit
    BY HistoryAssumption, GraphAssumption DEF Occurrence
  <2>. QED
    BY <1>1, <1>3, <1>4, <2>1 DEF Released
<1>7. Kahn'
  BY <1>1, <1>2, <1>3, <1>4, <1>6 DEF Kahn, Counts
<1>8. ChildrenFirst'
  <2>. SUFFICES ASSUME NEW j \in 1..Len(sorted'), NEW c \in Children(sorted'[j])
                PROVE  \E i \in 1..(j - 1) : sorted'[i] = c
    BY <1>1 DEF ChildrenFirst, Children
  <2>1. CASE j <= Len(sorted)
    <3>1. j \in 1..Len(sorted) /\ c \in Children(sorted[j])
      BY <1>4, <2>1
    <3>2. PICK i \in 1..(j - 1) : sorted[i] = c
      BY <1>1, <3>1 DEF IInv, ChildrenFirst, Topological
    <3>. QED
      BY <1>4, <3>1, <3>2
  <2>2. CASE j = Len(sorted) + 1
    <3>1. c \in Children(v) /\ Cardinality(inNodes[v] \ Released) = 0
      BY <1>2, <1>3, <1>4, <2>2 DEF Counts
    <3>2. c \in ToSet(sorted)
      BY <1>2, <3>1, NoneLeftToRelease DEF IInv
    <3>3. PICK i \in 1..Len(sorted) : sorted[i] = c
      BY <1>2, <3>2, ToSetIsElements
    <3>. QED
      BY <1>4, <2>2, <3>3
  <2>. QED
    BY <1>4, <2>1, <2>2
<1>. QED
  BY <1>5, <1>7, <1>8 DEF IInv

LEMMA ReleaseEdgeStep == IInv /\ ReleaseEdge => IInv'
<1>. SUFFICES ASSUME IInv, ReleaseEdge PROVE IInv'
  OBVIOUS
<1> DEFINE w == outNodes[cur][edge]
           o == <<cur, edge>>
<1>1. /\ pc \in Topological /\ cur # NoCommit /\ cur \in nodes /\ cur \in Commit
      /\ edge \in 1..Len(outNodes[cur]) /\ Edges = outNodes[cur]
      /\ pc' = pc /\ order' = order /\ order = pc /\ cur' = cur /\ edge' = edge + 1
      /\ indegree' = [indegree EXCEPT ![w] = @ - 1]
      /\ sorted' = sorted
      /\ UNCHANGED <<parentShas, sortDate, stored, nodes, outNodes, inNodes,
                     visited, processed, clean, fresh>>
  <2>1. pc \in Topological /\ cur # NoCommit /\ order = pc /\ cur \in nodes /\ cur \in Commit
        /\ Edges = outNodes[cur] /\ edge \in Nat \ {0}
    BY DEF ReleaseEdge, Walking, Topological, Edges, Sorts, IInv, OrderOfRoutine, WellFormed, TypeOK
  <2>2. Len(outNodes[cur]) \in Nat
    BY <2>1, LenProperties DEF IInv, WellFormed, TypeOK
  <2>. QED
    BY <2>1, <2>2 DEF ReleaseEdge, repo, graph
<1>2. /\ w \in nodes /\ w \in Commit /\ o \in inNodes[w] /\ o \in Occurrence
      /\ edge \in Nat \ {0}
  BY <1>1, TargetIsNode DEF IInv, WellFormed, TypeOK, Occurrence
<1>3. Counts /\ cur \in ToSet(sorted)
  BY <1>1 DEF IInv, Kahn, Counts
<1>4. \/ ~LastInEdge(w) /\ UNCHANGED stack
      \/ LastInEdge(w) /\ stack' = Append(stack, w)
      \/ LastInEdge(w) /\ InsertByDate(w)
  BY <1>1 DEF ReleaseEdge
<1> HIDE DEF w, o
<1>5. o \notin Released /\ Released' = Released \cup {o}
  <2>1. o \notin Released
    BY <1>2 DEF Released, o
  <2>2. ASSUME NEW q \in Occurrence PROVE q \in Released' <=> q \in Released \cup {o}
    <3>1. q = <<q[1], q[2]>> /\ q[2] \in Nat
      BY DEF Occurrence
    <3>2. q[2] < edge + 1 <=> q[2] < edge \/ q[2] = edge
      BY <1>2, <3>1
    <3>. QED
      BY <1>1, <1>3, <3>1, <3>2 DEF Released, o
  <2>. QED
    BY <1>2, <2>1, <2>2 DEF Released
<1>6. /\ indegree[w] = Cardinality(inNodes[w] \ Released)
      /\ indegree[w] \in Nat \ {0}
      /\ indegree[w] - 1 = Cardinality(inNodes[w] \ Released')
  <2>1. IsFiniteSet(inNodes[w] \ Released) /\ o \in inNodes[w] \ Released
    BY <1>2, <1>5, FS_Subset, inNodes[w] \ Released \in SUBSET inNodes[w]
    DEF IInv, WellFormed
  <2>2. /\ Cardinality((inNodes[w] \ Released) \ {o}) = Cardinality(inNodes[w] \ Released) - 1
        /\ IsFiniteSet((inNodes[w] \ Released) \ {o})
    BY <2>1, FS_RemoveElement
  <2>3. inNodes[w] \ Released' = (inNodes[w] \ Released) \ {o}
    BY <1>5
  <2>4. /\ Cardinality(inNodes[w] \ Released) \in Nat
        /\ Cardinality((inNodes[w] \ Released) \ {o}) \in Nat
    BY <2>1, <2>2, FS_CardinalityType
  <2>. QED
    BY <1>2, <1>3, <2>2, <2>3, <2>4 DEF Counts
<1>7. w \notin ToSet(stack) \cup ToSet(sorted)
  BY <1>3, <1>6 DEF Counts
<1>8. /\ stack' \in Seq(nodes) /\ Distinct(stack')
      /\ ToSet(stack') = ToSet(stack) \/ (LastInEdge(w) /\ ToSet(stack') = ToSet(stack) \cup {w})
  <2>1. stack \in Seq(nodes) /\ Distinct(stack) /\ TypeOK
    BY <1>3 DEF Counts, IInv, WellFormed, TypeOK
  <2>2. CASE UNCHANGED stack
    BY <2>1, <2>2
  <2>3. CASE LastInEdge(w) /\ stack' = Append(stack, w)
    BY <2>1, <2>3, <1>2, <1>7, AppendElements
  <2>4. CASE LastInEdge(w) /\ InsertByDate(w)
    BY <2>1, <2>4, <1>2, <1>7, InsertByDateElements
  <2>. QED
    BY <1>4, <2>2, <2>3, <2>4
<1>9. indegree' \in [Commit -> Nat] /\ indegree'[w] = indegree[w] - 1
      /\ \A u \in Commit : u # w => indegree'[u] = indegree[u]
  BY <1>1, <1>2, <1>6 DEF IInv, WellFormed, TypeOK
<1>10. WellFormed' /\ Mirror' /\ OrderOfRoutine' /\ ChildrenFirst'
  <2>1. TypeOK'
    BY <1>1, <1>2, <1>8, <1>9 DEF IInv, WellFormed, TypeOK
  <2>2. ChildrenFirst'
    BY <1>1 DEF IInv, ChildrenFirst, Children
  <2>. QED
    BY <1>1, <2>1, <2>2 DEF IInv, WellFormed, Mirror, OrderOfRoutine, Idle
<1>11. Counts'
  <2>1. ASSUME NEW u \in nodes PROVE indegree'[u] = Cardinality(inNodes[u] \ Released')
    <3>1. CASE u = w
      BY <3>1, <1>6, <1>9
    <3>2. CASE u # w
      <4>1. o \notin inNodes[u]
        BY <1>1, <1>2, <3>2 DEF IInv, Mirror, WellFormed, TypeOK, o, w
      <4>2. inNodes[u] \ Released' = inNodes[u] \ Released
        BY <1>5, <4>1
      <4>3. u \in Commit
        BY DEF IInv, WellFormed, TypeOK
      <4>. QED
        BY <3>2, <4>2, <4>3, <1>3, <1>9 DEF Counts
    <3>. QED
      BY <3>1, <3>2
  <2>2. ASSUME NEW u \in ToSet(stack') \cup ToSet(sorted') PROVE indegree'[u] = 0
    <3>1. CASE u = w
      <4>1. LastInEdge(w)
        BY <1>1, <1>7, <1>8, <3>1
      <4>. QED
        BY <3>1, <4>1, <1>9 DEF LastInEdge
    <3>2. CASE u # w
      <4>1. u \in ToSet(stack) \cup ToSet(sorted)
        BY <1>1, <1>8, <3>2
      <4>2. u \in Commit
        BY <4>1, ToSetIsElements DEF IInv, WellFormed, TypeOK
      <4>. QED
        BY <3>2, <4>1, <4>2, <1>3, <1>9 DEF Counts
    <3>. QED
      BY <3>1, <3>2
  <2>3. ToSet(stack') \cap ToSet(sorted') = {} /\ Distinct(sorted') /\ cur' \in ToSet(sorted')
    BY <1>1, <1>3, <1>7, <1>8 DEF Counts
  <2>. QED
    BY <1>1, <1>8, <2>1, <2>2, <2>3 DEF Counts
<1>. QED
  BY <1>10, <1>11 DEF IInv, Kahn

-----------------------------------------------------------------------------
LEMMA NextStep == IInv /\ [Next]_vars => IInv'
<1>. SUFFICES ASSUME IInv, [Next]_vars PROVE IInv'
  OBVIOUS
<1>1. CASE Call
  BY <1>1, BuildStep, NodesSortedByTopologyStep, NodesSortedByDateStep DEF Call
<1>2. CASE Run
  BY <1>2, EdgesDoneStep, ReturnStep, PopNodeStep, ExpandParentStep, MissingParentStep,
     EmitRootStep, ReleaseEdgeStep, EmitYoungestStep, VisitEdgeStep DEF Run
<1>3. CASE UNCHANGED vars
  <2>1. UNCHANGED <<parentShas, sortDate, stored, nodes, outNodes, inNodes, indegree, visited,
                    processed, pc, stack, cur, edge, sorted, order, clean, fresh>>
    BY <1>3 DEF vars, repo, graph
  <2>2. TypeOK'
    BY <2>1 DEF IInv, WellFormed, TypeOK
  <2>3. WellFormed' /\ Mirror'
    BY <2>1, <2>2 DEF IInv, WellFormed, Mirror
  <2>4. OrderOfRoutine' /\ ChildrenFirst'
    BY <2>1 DEF IInv, OrderOfRoutine, Idle, ChildrenFirst, Children
  <2>5. Kahn'
    BY <2>1 DEF IInv, Kahn, Counts, Released
  <2>. QED
    BY <2>3, <2>4, <2>5 DEF IInv
<1>. QED
  BY <1>1, <1>2, <1>3 DEF Next

LEMMA Invariance == Spec => []IInv
<1>. QED
  BY InitEstablishes, NextStep, PTL DEF Spec

\* Whatever the calls, the graph holds its types: only nodes wait, are walked
\* and are listed, and no indegree is decremented below 0 (it is an unsigned
\* integer in the code, and a decrement of 0 would lose the node for good).
THEOREM TypeCorrect == Spec => []TypeOK
<1>1. IInv => TypeOK
  BY DEF IInv, WellFormed
<1>. QED
  BY <1>1, Invariance, PTL

\* addEdgeFromNode:toNode: keeps the two ends of every edge in agreement, also
\* when a build stops at a parent it cannot load.
THEOREM MirroredEdges == Spec => []EdgesMirrored
<1>1. IInv => EdgesMirrored
  <2>. SUFFICES ASSUME IInv, NEW p \in nodes
                PROVE  inNodes[p] = {o \in UNION {{c} \X DOMAIN outNodes[c] : c \in nodes} :
                                       outNodes[o[1]][o[2]] = p}
    BY DEF EdgesMirrored
  <2>1. p \in Commit /\ inNodes[p] \subseteq Occurrence /\ nodes \subseteq Commit
        /\ \A c \in Commit : outNodes[c] \in Seq(Commit)
    BY DEF IInv, WellFormed, TypeOK
  <2>2. ASSUME NEW c \in Commit, NEW i \in Nat \ {0}
        PROVE  <<c, i>> \in inNodes[p] <=> i \in DOMAIN outNodes[c] /\ outNodes[c][i] = p
    <3>1. <<c, i>> \in inNodes[p] <=> i <= Len(outNodes[c]) /\ outNodes[c][i] = p
      BY <2>1 DEF IInv, Mirror
    <3>2. DOMAIN outNodes[c] = 1..Len(outNodes[c]) /\ Len(outNodes[c]) \in Nat
      BY <2>1, LenProperties
    <3>. QED
      BY <3>1, <3>2
  <2>3. ASSUME NEW c \in Commit, NEW i \in DOMAIN outNodes[c] PROVE i \in Nat \ {0} /\ c \in nodes
    BY DEF IInv, WellFormed, TypeOK
  <2>. DEFINE Entries == UNION {{c} \X DOMAIN outNodes[c] : c \in nodes}
  <2>4. ASSUME NEW o \in inNodes[p] PROVE o \in Entries /\ outNodes[o[1]][o[2]] = p
    <3>1. PICK c \in Commit, i \in Nat \ {0} : o = <<c, i>>
      BY <2>1 DEF Occurrence
    <3>. QED
      BY <2>1, <2>2, <2>3, <3>1
  <2>5. ASSUME NEW o \in Entries, outNodes[o[1]][o[2]] = p PROVE o \in inNodes[p]
    <3>1. PICK c \in nodes : o \in {c} \X DOMAIN outNodes[c]
      OBVIOUS
    <3>2. PICK i \in DOMAIN outNodes[c] : o = <<c, i>>
      BY <3>1
    <3>. QED
      BY <2>1, <2>2, <2>3, <2>5, <3>2
  <2>. QED
    BY <2>4, <2>5
<1>. QED
  BY <1>1, Invariance, PTL

\* --topo-order and --date-order: no commit is listed before one of its
\* children, for every history, every set of dates and every order of calls.
THEOREM TopologicalOrder == Spec => []ChildrenFirst
<1>1. IInv => ChildrenFirst
  BY DEF IInv
<1>. QED
  BY <1>1, Invariance, PTL

-----------------------------------------------------------------------------
(***************************************************************************)
(* What the graph and the lists are complete about.  IInv above is kept    *)
(* whatever the calls; the parts below are kept on top of it.              *)
(***************************************************************************)
\* Every edge goes from a commit to one that is older in the numbering.
Downhill == \A c \in Commit : \A i \in 1..Len(outNodes[c]) : outNodes[c][i] < c

\* No call leaves an indegree above the number of in-edges: a node without
\* in-edges is a root to every sort.
Counted == \A n \in Commit : indegree[n] <= InCount(n)

\* The edges of cur that the build has added so far.
BuiltSoFar ==
  /\ Len(outNodes[cur]) = edge - 1 /\ edge - 1 <= Len(parentShas[cur])
  /\ \A i \in 1..(edge - 1) : outNodes[cur][i] = parentShas[cur][i]

\* During a build the nodes on the stack have no edges yet, cur has some of
\* them and every other node has them all.
BuildSoFar ==
  /\ Distinct(stack) /\ cur \notin ToSet(stack)
  /\ \A n \in nodes \ visited : cur = NoCommit /\ stack # <<>> /\ n = Last(stack)
  /\ \A n \in ToSet(stack) : outNodes[n] = <<>>
  /\ \A n \in nodes \ ToSet(stack) : n = cur \/ outNodes[n] = parentShas[n]
  /\ cur # NoCommit => BuiltSoFar

AllExpanded == \A n \in nodes : outNodes[n] = parentShas[n]

Expanded == clean => IF pc = "build" THEN BuildSoFar ELSE AllExpanded

\* The default order: a node waits or is listed when it has no in-edges or
\* an edge from a listed node was followed to it.
WalkSoFar ==
  /\ processed = ToSet(sorted) /\ visited \subseteq ToSet(stack) \cup ToSet(sorted)
  /\ \A n \in nodes : inNodes[n] = {} => n \in ToSet(stack) \cup ToSet(sorted)
  /\ cur # NoCommit => cur \in ToSet(sorted)
  /\ \A c \in ToSet(sorted) : \A i \in 1..Len(outNodes[c]) :
       (c = cur => i < edge) => outNodes[c][i] \in visited

Reached == pc = "date" => WalkSoFar

\* The topological orders: a node with nothing left to release waits or is
\* listed.
Waiting ==
  pc \in Topological => \A n \in nodes : indegree[n] = 0 => n \in ToSet(stack) \cup ToSet(sorted)

\* EachNodeOnce, with what is true of the list while it is made.
Listing == Distinct(sorted) /\ (Idle /\ order # "none" => ToSet(sorted) = nodes)

\* FollowsAChild, also of the nodes that wait to be listed.
WaitsForAChild ==
  \A w \in ToSet(stack) : Children(w) # {} => Children(w) \cap ToSet(sorted) # {}

Follows == FollowsAChild /\ (pc = "date" /\ fresh => WaitsForAChild)

SingleStart == Cardinality({n \in nodes : Children(n) = {}}) = 1

\* The stack of an order by date is a priority queue.
Queue == pc = "dateorder" \/ (pc = "date" /\ fresh /\ SingleStart) => Ascending(stack)

JInv == Downhill /\ Counted /\ Expanded /\ Reached /\ Waiting /\ Listing /\ Follows /\ Queue

-----------------------------------------------------------------------------
\* An occurrence among the in-edges of a node is an edge of a node.
LEMMA InEdge ==
  ASSUME WellFormed, Mirror, NEW n \in Commit, NEW o \in inNodes[n]
  PROVE  /\ o \in Occurrence /\ o = <<o[1], o[2]>>
         /\ o[1] \in nodes /\ o[1] \in Commit /\ o[2] \in 1..Len(outNodes[o[1]])
         /\ outNodes[o[1]][o[2]] = n /\ o[1] \in Children(n)
<1>1. o \in Occurrence
  BY DEF WellFormed, TypeOK
<1>2. o = <<o[1], o[2]>> /\ o[1] \in Commit /\ o[2] \in Nat \ {0}
  BY <1>1 DEF Occurrence
<1>3. outNodes[o[1]] \in Seq(Commit) /\ Len(outNodes[o[1]]) \in Nat
  BY <1>2, LenProperties DEF WellFormed, TypeOK
<1>4. o[2] <= Len(outNodes[o[1]]) /\ outNodes[o[1]][o[2]] = n
  <2>1. <<o[1], o[2]>> \in inNodes[n]
    BY <1>2
  <2>. QED
    BY <2>1, <1>2 DEF Mirror
<1>5. o[1] \in nodes
  <2>1. outNodes[o[1]] # <<>>
    BY <1>2, <1>3, <1>4, EmptySeq
  <2>. QED
    BY <1>2, <2>1 DEF WellFormed
<1>6. n \in ToSet(outNodes[o[1]])
  BY <1>2, <1>3, <1>4, ToSetIsElements
<1>. QED
  BY <1>1, <1>2, <1>3, <1>4, <1>5, <1>6 DEF Children

\* A child of a node has an edge to it.
LEMMA ChildEdge ==
  ASSUME WellFormed, Mirror, NEW n \in nodes, NEW c \in Children(n)
  PROVE  /\ c \in nodes /\ c \in Commit
         /\ \E i \in 1..Len(outNodes[c]) : outNodes[c][i] = n /\ <<c, i>> \in inNodes[n]
<1>1. c \in nodes /\ n \in ToSet(outNodes[c]) /\ outNodes[c] \in Seq(Commit) /\ c \in Commit
  BY DEF Children, WellFormed, TypeOK
<1>2. PICK i \in 1..Len(outNodes[c]) : outNodes[c][i] = n
  BY <1>1, ToSetIsElements
<1>3. <<c, i>> \in inNodes[n]
  BY <1>1, <1>2, TargetIsNode
<1>. QED
  BY <1>1, <1>2, <1>3

\* The nodes without children are those without in-edges.
LEMMA NoInEdges ==
  ASSUME WellFormed, Mirror, NEW n \in nodes
  PROVE  /\ Children(n) = {} <=> inNodes[n] = {}
         /\ InCount(n) = 0 <=> inNodes[n] = {}
<1>1. n \in Commit /\ IsFiniteSet(inNodes[n])
  BY DEF WellFormed, TypeOK
<1>. QED
  BY <1>1, InEdge, ChildEdge, FS_EmptySet DEF InCount

\* What adding the edge to a parent does.
LEMMA ExpandFacts ==
  ASSUME IInv, ExpandParent, NEW p, p = parentShas[cur][edge]
  PROVE  /\ pc = "build" /\ cur \in nodes /\ cur \in Commit /\ cur # NoCommit
         /\ p \in Commit /\ edge \in 1..Len(parentShas[cur]) /\ p < cur
         /\ nodes' = nodes \cup {p} /\ indegree' = [indegree EXCEPT ![p] = @ + 1]
         /\ outNodes' = [outNodes EXCEPT ![cur] = Append(@, p)]
         /\ inNodes' = [inNodes EXCEPT ![p] = @ \cup {<<cur, Len(outNodes[cur]) + 1>>}]
         /\ visited' = visited \cup {p}
         /\ stack' = IF p \notin visited THEN Append(stack, p) ELSE stack
         /\ edge' = edge + 1
         /\ UNCHANGED <<parentShas, sortDate, stored, processed, pc, cur, sorted,
                        order, clean, fresh>>
<1>1. pc = "build" /\ cur \in nodes /\ cur \in Commit /\ cur # NoCommit /\ edge \in Nat \ {0}
  BY DEF ExpandParent, Walking, IInv, WellFormed, TypeOK
<1>2. Edges = parentShas[cur] /\ parentShas[cur] \in Seq(Commit) /\ edge \in 1..Len(parentShas[cur])
  BY <1>1, ParentsAreCommits, LenProperties DEF Edges, ExpandParent, IInv, WellFormed, TypeOK
<1>3. p \in Commit /\ p < cur
  <2>1. edge \in DOMAIN parentShas[cur] /\ parentShas \in Histories
    BY <1>2, LenProperties DEF IInv, WellFormed, TypeOK
  <2>. QED
    BY <1>1, <1>2, <2>1, ElementOfSeq, HistoryAssumption, GraphAssumption
<1>. QED
  BY <1>1, <1>2, <1>3 DEF ExpandParent, AddEdgeFromNode, NotVisited, repo

-----------------------------------------------------------------------------
\* Commits name only parents below them (HistoryAssumption, GraphAssumption).
LEMMA DownhillStep ==
  ASSUME IInv, Downhill, [Next]_vars
  PROVE  Downhill'
<1>1. CASE ExpandParent
  <2> DEFINE p == parentShas[cur][edge]
  <2>1. /\ cur \in Commit /\ p \in Commit /\ p < cur
        /\ outNodes' = [outNodes EXCEPT ![cur] = Append(@, p)]
    BY <1>1, ExpandFacts
  <2> HIDE DEF p
  <2>2. /\ outNodes \in [Commit -> Seq(Commit)]
        /\ Len(Append(outNodes[cur], p)) = Len(outNodes[cur]) + 1 /\ Len(outNodes[cur]) \in Nat
        /\ \A i \in 1..Len(outNodes[cur]) : Append(outNodes[cur], p)[i] = outNodes[cur][i]
        /\ Append(outNodes[cur], p)[Len(outNodes[cur]) + 1] = p
    BY <2>1, AppendElements DEF IInv, WellFormed, TypeOK
  <2>3. ASSUME NEW c \in Commit, NEW i \in 1..Len(outNodes'[c]) PROVE outNodes'[c][i] < c
    <3>1. CASE c # cur
      BY <2>1, <2>2, <3>1 DEF Downhill
    <3>2. CASE c = cur
      <4>1. outNodes'[c] = Append(outNodes[cur], p)
        BY <2>1, <2>2, <3>2
      <4>2. CASE i = Len(outNodes[cur]) + 1
        BY <2>1, <2>2, <3>2, <4>1, <4>2
      <4>3. CASE i # Len(outNodes[cur]) + 1
        <5>1. i \in 1..Len(outNodes[cur])
          BY <2>2, <4>1, <4>3
        <5>. QED
          BY <2>1, <2>2, <3>2, <4>1, <5>1 DEF Downhill
      <4>. QED
        BY <4>2, <4>3
    <3>. QED
      BY <3>1, <3>2
  <2>. QED
    BY <2>3 DEF Downhill
<1>2. CASE ~ExpandParent
  <2>1. outNodes' = outNodes
    BY <1>2 DEF Next, Call, Run, vars, graph, BuildGraphWithStartingCommit, NodesSortedByTopology,
       NodesSortedByDate, EdgesDone, Return, PopNode, MissingParent, EmitRoot, ReleaseEdge,
       EmitYoungest, VisitEdge
  <2>. QED
    BY <2>1 DEF Downhill
<1>. QED
  BY <1>1, <1>2

\* An edge raises both counts, a released edge one of them.
LEMMA CountedStep ==
  ASSUME IInv, IInv', Counted, [Next]_vars
  PROVE  Counted'
<1>0. /\ indegree \in [Commit -> Nat] /\ inNodes \in [Commit -> SUBSET Occurrence]
      /\ \A n \in Commit : IsFiniteSet(inNodes[n]) /\ InCount(n) \in Nat
  BY FS_CardinalityType DEF IInv, WellFormed, TypeOK, InCount
<1>1. CASE ExpandParent
  <2> DEFINE p == parentShas[cur][edge]
             o == <<cur, Len(outNodes[cur]) + 1>>
  <2>1. /\ cur \in Commit /\ p \in Commit
        /\ indegree' = [indegree EXCEPT ![p] = @ + 1]
        /\ inNodes' = [inNodes EXCEPT ![p] = @ \cup {o}]
    BY <1>1, ExpandFacts
  <2>2. o \notin inNodes[p]
    <3>1. Len(outNodes[cur]) \in Nat
      BY <2>1, LenProperties DEF IInv, WellFormed, TypeOK
    <3> HIDE DEF p
    <3>. QED
      BY <2>1, <3>1 DEF IInv, Mirror
  <2> HIDE DEF p, o
  <2>3. Cardinality(inNodes[p] \cup {o}) = Cardinality(inNodes[p]) + 1
    BY <1>0, <2>1, <2>2, FS_AddElement
  <2>. QED
    BY <1>0, <2>1, <2>3 DEF Counted, InCount
<1>2. CASE \E useLifo \in BOOLEAN : NodesSortedByTopology(useLifo)
  BY <1>0, <1>2 DEF NodesSortedByTopology, ResetIndegree, Counted, InCount, graph
<1>3. CASE ReleaseEdge
  <2>1. indegree' = [indegree EXCEPT ![Edges[edge]] = @ - 1] /\ inNodes' = inNodes
        /\ indegree' \in [Commit -> Nat]
    BY <1>3 DEF ReleaseEdge, graph, IInv, WellFormed, TypeOK
  <2>2. \A n \in Commit : indegree'[n] <= indegree[n]
    BY <1>0, <2>1
  <2>. QED
    BY <1>0, <2>1, <2>2 DEF Counted, InCount
<1>4. CASE ~ExpandParent /\ ~(\E useLifo \in BOOLEAN : NodesSortedByTopology(useLifo)) /\ ~ReleaseEdge
  <2>1. indegree' = indegree /\ inNodes' = inNodes
    BY <1>4 DEF Next, Call, Run, vars, graph, BuildGraphWithStartingCommit,
       NodesSortedByDate, EdgesDone, Return, PopNode, MissingParent, EmitRoot, EmitYoungest, VisitEdge
  <2>. QED
    BY <2>1 DEF Counted, InCount
<1>. QED
  BY <1>1, <1>2, <1>3, <1>4

\* The routines of the sorts, and the calls that start them, leave the graph
\* and the flag of a clean build alone.
LEMMA OnlyABuildBuilds ==
  ASSUME [Next]_vars, ~PopNode, ~ExpandParent, ~MissingParent,
         ~\E c \in Commit : BuildGraphWithStartingCommit(c)
  PROVE  UNCHANGED <<parentShas, sortDate, nodes, outNodes, inNodes, clean>>
  BY DEF Next, Call, Run, vars, repo, graph, NodesSortedByTopology, NodesSortedByDate,
     EdgesDone, Return, EmitRoot, ReleaseEdge, EmitYoungest, VisitEdge

\* A build expands every node it meets, once.
LEMMA ExpandedStep ==
  ASSUME IInv, IInv', Expanded, [Next]_vars
  PROVE  Expanded'
<1>0. /\ outNodes \in [Commit -> Seq(Commit)] /\ nodes \subseteq Commit
      /\ \A n \in Commit : parentShas[n] \in Seq(Commit) /\ Len(parentShas[n]) \in Nat
                           /\ Len(outNodes[n]) \in Nat
      /\ stack \in Seq(nodes) /\ cur \in nodes \cup {NoCommit} /\ edge \in Nat \ {0}
      /\ NoCommit \notin Commit /\ visited \subseteq nodes
  BY ParentsAreCommits, LenProperties, HistoryAssumption, GraphAssumption DEF IInv, WellFormed, TypeOK
<1>1. ASSUME NEW c \in Commit, BuildGraphWithStartingCommit(c) PROVE Expanded'
  <2>1. /\ pc = "idle" /\ cur = NoCommit /\ c \notin nodes /\ nodes' = nodes \cup {c}
        /\ stack' = <<c>> /\ pc' = "build" /\ clean' = (clean /\ nodes \subseteq visited)
        /\ UNCHANGED <<parentShas, outNodes, visited, cur>>
    BY <1>1 DEF BuildGraphWithStartingCommit, repo, IInv, OrderOfRoutine, Idle
  <2>2. SUFFICES ASSUME clean' PROVE BuildSoFar'
    BY <2>1 DEF Expanded
  <2>3. AllExpanded /\ nodes \subseteq visited
    BY <2>1, <2>2 DEF Expanded
  <2>4. /\ <<c>> \in Seq(Commit) /\ Len(<<c>>) = 1 /\ <<c>>[1] = c /\ <<c>> # <<>>
        /\ Last(<<c>>) = c
    BY DEF Last
  <2>5. ToSet(<<c>>) = {c}
    BY DEF ToSet
  <2>6. outNodes[c] = <<>>
    BY <2>1 DEF IInv, WellFormed
  <2>7. Distinct(<<c>>)
    BY <2>4 DEF Distinct
  <2>. QED
    BY <1>0, <2>1, <2>3, <2>4, <2>5, <2>6, <2>7 DEF BuildSoFar, AllExpanded
<1>2. CASE PopNode
  <2> DEFINE v == Last(stack)
  <2>1. /\ pc = "build" /\ cur = NoCommit /\ stack # <<>> /\ cur' = v /\ stack' = Front(stack)
        /\ edge' = 1 /\ visited' = visited \cup {v}
        /\ UNCHANGED <<parentShas, nodes, outNodes, pc, clean>>
    BY <1>2 DEF PopNode, Between, TakeLast, repo, graph
  <2>2. SUFFICES ASSUME clean PROVE BuildSoFar'
    BY <2>1 DEF Expanded
  <2>3. BuildSoFar
    BY <2>1, <2>2 DEF Expanded
  <2>4. v \in nodes /\ ToSet(stack) = ToSet(stack') \cup {v}
    BY <1>0, <2>1, FrontLast
  <2>5. Distinct(stack') /\ v \notin ToSet(stack')
    BY <1>0, <2>1, <2>3, FrontDistinct DEF BuildSoFar
  <2>6. outNodes[v] = <<>> /\ Len(outNodes[v]) = 0 /\ Len(parentShas[v]) \in Nat
    BY <1>0, <2>3, <2>4, EmptySeq DEF BuildSoFar
  <2>7. \A n \in nodes \ visited' : FALSE
    BY <2>1, <2>3 DEF BuildSoFar
  <2>8. BuiltSoFar'
    BY <2>1, <2>6 DEF BuiltSoFar
  <2>9. \A n \in nodes \ ToSet(stack) : n # cur
    BY <1>0, <2>1
  <2> HIDE DEF v
  <2>. QED
    BY <2>1, <2>3, <2>4, <2>5, <2>6, <2>7, <2>8, <2>9 DEF BuildSoFar
<1>3. CASE ExpandParent
  <2> DEFINE p == parentShas[cur][edge]
             t == Append(outNodes[cur], p)
  <2>1. /\ pc = "build" /\ cur \in nodes /\ cur \in Commit /\ cur # NoCommit
        /\ p \in Commit /\ edge \in 1..Len(parentShas[cur]) /\ p < cur
        /\ nodes' = nodes \cup {p}
        /\ outNodes' = [outNodes EXCEPT ![cur] = Append(@, p)]
        /\ visited' = visited \cup {p}
        /\ stack' = IF p \notin visited THEN Append(stack, p) ELSE stack
        /\ edge' = edge + 1
        /\ UNCHANGED <<parentShas, pc, cur, clean>>
    BY <1>3, ExpandFacts
  <2>2. SUFFICES ASSUME clean PROVE BuildSoFar'
    BY <2>1 DEF Expanded
  <2>3. BuildSoFar /\ BuiltSoFar /\ nodes \subseteq visited
    BY <2>1, <2>2 DEF Expanded, BuildSoFar
  <2>4. /\ Len(t) = Len(outNodes[cur]) + 1
        /\ \A i \in 1..Len(outNodes[cur]) : t[i] = outNodes[cur][i]
        /\ t[Len(outNodes[cur]) + 1] = p
    BY <1>0, <2>1, AppendElements
  <2>5. outNodes'[cur] = t /\ \A n \in Commit : n # cur => outNodes'[n] = outNodes[n]
    BY <1>0, <2>1
  <2>6. BuiltSoFar'
    <3>1. Len(outNodes[cur]) = edge - 1 /\ \A i \in 1..(edge - 1) : outNodes[cur][i] = parentShas[cur][i]
      BY <2>3 DEF BuiltSoFar
    <3>2. Len(parentShas[cur]) \in Nat
      BY <1>0, <2>1
    <3>3. \A i \in 1..edge : t[i] = parentShas[cur][i]
      BY <1>0, <2>4, <3>1
    <3> HIDE DEF t
    <3>. QED
      BY <1>0, <2>1, <2>4, <2>5, <3>1, <3>2, <3>3 DEF BuiltSoFar
  <2> HIDE DEF p, t
  <2>7. CASE p \in visited
    <3>1. nodes' = nodes /\ stack' = stack /\ visited' = visited
      BY <1>0, <2>1, <2>7
    <3>2. \A n \in ToSet(stack) : n \in Commit
      BY <1>0, ToSetIsElements
    <3>. QED
      BY <1>0, <2>1, <2>3, <2>5, <2>6, <3>1, <3>2 DEF BuildSoFar
  <2>8. CASE p \notin visited
    <3>1. p \notin nodes /\ p # cur /\ stack' = Append(stack, p)
      BY <2>1, <2>3, <2>8
    <3>2. ToSet(stack) \subseteq nodes /\ stack \in Seq(Commit)
      BY <1>0, ToSetIsElements, SeqMonotonic
    <3>3. Distinct(stack') /\ ToSet(stack') = ToSet(stack) \cup {p}
      BY <1>0, <2>1, <2>3, <3>1, <3>2, AppendElements DEF BuildSoFar
    <3>4. outNodes[p] = <<>>
      BY <2>1, <3>1 DEF IInv, WellFormed
    <3>5. cur \notin ToSet(stack')
      BY <2>3, <3>1, <3>3 DEF BuildSoFar
    <3>6. \A n \in nodes' : n \in visited'
      BY <2>1, <2>3
    <3>7. \A n \in ToSet(stack') : n \in Commit /\ n # cur /\ outNodes[n] = <<>>
      BY <1>0, <2>1, <2>3, <3>1, <3>2, <3>3, <3>4 DEF BuildSoFar
    <3>8. \A n \in nodes' \ ToSet(stack') : n = cur \/ outNodes'[n] = parentShas'[n]
      BY <1>0, <2>1, <2>3, <2>5, <3>3 DEF BuildSoFar
    <3>. QED
      BY <2>1, <2>5, <2>6, <3>3, <3>5, <3>6, <3>7, <3>8 DEF BuildSoFar
  <2>. QED
    BY <2>7, <2>8
<1>4. CASE MissingParent
  BY <1>4 DEF MissingParent, Expanded
<1>5. CASE EdgesDone
  <2>1. /\ cur # NoCommit /\ cur \in nodes /\ edge > Len(Edges) /\ cur' = NoCommit
        /\ UNCHANGED <<parentShas, nodes, outNodes, visited, pc, stack, clean>>
    BY <1>0, <1>5 DEF EdgesDone, repo, graph
  <2>2. CASE pc # "build"
    BY <2>1, <2>2 DEF Expanded, AllExpanded
  <2>3. CASE pc = "build" /\ clean
    <3>1. BuildSoFar /\ BuiltSoFar /\ edge > Len(parentShas[cur])
      BY <2>1, <2>3 DEF Expanded, BuildSoFar, Edges
    <3>2. outNodes[cur] = parentShas[cur]
      <4>1. Len(outNodes[cur]) = Len(parentShas[cur])
        BY <1>0, <2>1, <3>1 DEF BuiltSoFar
      <4>2. \A i \in 1..Len(parentShas[cur]) : outNodes[cur][i] = parentShas[cur][i]
        BY <1>0, <2>1, <3>1, <4>1 DEF BuiltSoFar
      <4>. QED
        BY <1>0, <2>1, <4>1, <4>2, SeqEqual
    <3>3. NoCommit \notin ToSet(stack)
      BY <1>0, ToSetIsElements
    <3>. QED
      BY <2>1, <2>3, <3>1, <3>2, <3>3 DEF Expanded, BuildSoFar
  <2>. QED
    BY <2>1, <2>2, <2>3 DEF Expanded
<1>6. CASE Return
  <2>1. /\ cur = NoCommit /\ stack = <<>> /\ pc' = "idle"
        /\ UNCHANGED <<parentShas, nodes, outNodes, clean>>
    BY <1>6 DEF Return, repo, graph
  <2>2. ToSet(<<>>) = {}
    BY DEF ToSet
  <2>3. clean => AllExpanded
    BY <1>0, <2>1, <2>2 DEF Expanded, BuildSoFar, AllExpanded
  <2>. QED
    BY <2>1, <2>3 DEF Expanded, AllExpanded
<1>7. CASE /\ ~(\E c \in Commit : BuildGraphWithStartingCommit(c)) /\ ~PopNode /\ ~ExpandParent
           /\ ~MissingParent /\ ~EdgesDone /\ ~Return
  <2>1. UNCHANGED <<parentShas, nodes, outNodes, clean>>
    BY <1>7, OnlyABuildBuilds
  <2>2. CASE UNCHANGED vars
    BY <2>1, <2>2 DEF vars, Expanded, BuildSoFar, BuiltSoFar, AllExpanded
  <2>3. CASE ~UNCHANGED vars
    <3>1. pc # "build" /\ pc' # "build"
      BY <1>7, <2>3 DEF Next, Call, Run, NodesSortedByTopology, NodesSortedByDate, EmitRoot,
         ReleaseEdge, EmitYoungest, VisitEdge, Between, Walking, Idle
    <3>. QED
      BY <2>1, <3>1 DEF Expanded, AllExpanded
  <2>. QED
    BY <2>2, <2>3
<1>. QED
  BY <1>1, <1>2, <1>3, <1>4, <1>5, <1>6, <1>7

-----------------------------------------------------------------------------
\* Taking the youngest of the default order: what it does to the lists.
LEMMA EmitYoungestFacts ==
  ASSUME IInv, EmitYoungest
  PROVE  /\ pc = "date" /\ pc' = pc /\ order = "date" /\ cur = NoCommit
         /\ stack # <<>> /\ Last(stack) \in nodes /\ cur' = Last(stack) /\ edge' = 1
         /\ stack' = Front(stack) /\ stack \in Seq(nodes) /\ stack' \in Seq(nodes)
         /\ ToSet(stack) = ToSet(stack') \cup {Last(stack)}
         /\ processed' = processed \cup {Last(stack)}
         /\ sorted' = IF Last(stack) \in processed THEN sorted ELSE Append(sorted, Last(stack))
         /\ sorted \in Seq(nodes)
         /\ Last(stack) \notin processed => ToSet(sorted') = ToSet(sorted) \cup {Last(stack)}
         /\ UNCHANGED <<parentShas, sortDate, stored, nodes, outNodes, inNodes, indegree,
                        visited, order, clean, fresh>>
<1>1. TypeOK
  BY DEF IInv, WellFormed
<1>2. /\ pc = "date" /\ cur = NoCommit /\ TakeLast /\ processed' = processed \cup {Last(stack)}
      /\ sorted' = IF Last(stack) \in processed THEN sorted ELSE Append(sorted, Last(stack))
      /\ UNCHANGED <<parentShas, sortDate, stored, nodes, outNodes, inNodes, indegree,
                     visited, pc, order, clean, fresh>>
  BY DEF EmitYoungest, Between, repo, graph
<1>3. order = "date"
  BY <1>2 DEF IInv, OrderOfRoutine, Sorts
<1>4. /\ Last(stack) \in nodes /\ stack' \in Seq(nodes) /\ cur' = Last(stack) /\ edge' = 1
      /\ stack # <<>>
  BY <1>1, <1>2, TakeLastTypes
<1>5. stack \in Seq(nodes) /\ sorted \in Seq(nodes) /\ stack' = Front(stack)
  BY <1>1, <1>2 DEF TypeOK, TakeLast
<1>6. ToSet(stack) = ToSet(stack') \cup {Last(stack)}
  BY <1>4, <1>5, FrontLast
<1>7. Last(stack) \notin processed => ToSet(sorted') = ToSet(sorted) \cup {Last(stack)}
  BY <1>2, <1>4, <1>5, AppendElements
<1>. QED
  BY <1>2, <1>3, <1>4, <1>5, <1>6, <1>7

\* Following an edge of the default order.
LEMMA VisitEdgeFacts ==
  ASSUME IInv, VisitEdge, NEW w, w = outNodes[cur][edge]
  PROVE  /\ pc = "date" /\ pc' = pc /\ order = "date" /\ cur \in nodes /\ cur # NoCommit
         /\ edge \in 1..Len(outNodes[cur]) /\ w \in nodes /\ cur \in Children(w)
         /\ visited' = visited \cup {w} /\ edge' = edge + 1
         /\ IF w \in visited THEN stack' = stack ELSE InsertByDate(w)
         /\ ToSet(stack') = ToSet(stack) \cup (IF w \in visited THEN {} ELSE {w})
         /\ UNCHANGED <<parentShas, sortDate, stored, nodes, outNodes, inNodes, indegree,
                        processed, cur, sorted, order, clean, fresh>>
<1>1. pc = "date" /\ cur \in nodes /\ cur # NoCommit /\ cur \in Commit /\ order = "date"
      /\ outNodes[cur] \in Seq(Commit) /\ edge \in Nat \ {0} /\ Edges = outNodes[cur]
  BY DEF VisitEdge, Walking, Edges, Sorts, IInv, OrderOfRoutine, WellFormed, TypeOK
<1>2. edge \in 1..Len(outNodes[cur])
  BY <1>1, LenProperties DEF VisitEdge
<1>3. w \in nodes /\ <<cur, edge>> \in inNodes[w] /\ w \in Commit
  BY <1>1, <1>2, TargetIsNode DEF IInv, WellFormed, TypeOK
<1>4. cur \in Children(w)
  BY <1>1, <1>2, <1>3, ToSetIsElements DEF Children
<1>5. /\ visited' = visited \cup {w} /\ edge' = edge + 1
      /\ IF w \in visited THEN stack' = stack ELSE InsertByDate(w)
      /\ UNCHANGED <<parentShas, sortDate, stored, nodes, outNodes, inNodes, indegree,
                     processed, pc, cur, sorted, order, clean, fresh>>
  BY <1>1 DEF VisitEdge, repo, graph
<1>6. ToSet(stack') = ToSet(stack) \cup (IF w \in visited THEN {} ELSE {w})
  BY <1>3, <1>5, InsertByDateElements DEF IInv, WellFormed
<1>. QED
  BY <1>1, <1>2, <1>3, <1>4, <1>5, <1>6

\* What waits when the default order starts.
LEMMA DateStartFacts ==
  ASSUME IInv, NodesSortedByDate
  PROVE  /\ Idle /\ cur = NoCommit /\ pc' = "date" /\ order' = "date" /\ sorted' = <<>>
         /\ ToSet(sorted') = {} /\ Len(sorted') = 0
         /\ visited' = {} /\ processed' = {}
         /\ stack' \in Seq(nodes) /\ ToSet(stack') = {c \in nodes : indegree[c] = 0}
         /\ fresh' = (\A c \in nodes : indegree[c] = InCount(c))
         /\ UNCHANGED <<parentShas, sortDate, stored, nodes, outNodes, inNodes, indegree,
                        cur, edge, clean>>
<1>1. IsFiniteSet(DateRoots)
  BY FS_Subset, DateRoots \in SUBSET nodes DEF IInv, WellFormed, DateRoots
<1>2. stack' \in Seq(DateRoots) /\ ToSet(stack') = DateRoots
  BY <1>1, OrderingElements DEF NodesSortedByDate
<1>3. stack' \in Seq(nodes)
  BY <1>2, SeqMonotonic, DateRoots \subseteq nodes DEF DateRoots
<1>4. Len(<<>>) = 0 /\ ToSet(<<>>) = {}
  BY DEF ToSet
<1>. QED
  BY <1>2, <1>3, <1>4 DEF NodesSortedByDate, IInv, OrderOfRoutine, DateRoots, repo, graph, Idle

\* Every node is on the stack or in the list once an edge leads to it or when
\* no edge does.
LEMMA ReachedStep ==
  ASSUME IInv, IInv', Counted, Reached, [Next]_vars
  PROVE  Reached'
<1>1. CASE NodesSortedByDate
  <2>1. /\ cur' = NoCommit /\ ToSet(sorted') = {} /\ visited' = {} /\ processed' = {}
        /\ ToSet(stack') = {c \in nodes : indegree[c] = 0}
        /\ UNCHANGED <<nodes, outNodes, inNodes>>
    BY <1>1, DateStartFacts
  <2>2. ASSUME NEW n \in nodes, inNodes[n] = {} PROVE n \in ToSet(stack')
    <3>1. InCount(n) = 0 /\ n \in Commit /\ indegree[n] \in Nat
      BY <2>2, NoInEdges DEF IInv, WellFormed, TypeOK
    <3>. QED
      BY <2>1, <3>1 DEF Counted
  <2>. QED
    BY <2>1, <2>2 DEF Reached, WalkSoFar
<1>2. CASE EmitYoungest
  <2> DEFINE v == Last(stack)
  <2>1. /\ pc = "date" /\ cur = NoCommit /\ cur' = v /\ edge' = 1 /\ v \in nodes
        /\ ToSet(stack) = ToSet(stack') \cup {v} /\ processed' = processed \cup {v}
        /\ v \in processed => sorted' = sorted
        /\ v \notin processed => ToSet(sorted') = ToSet(sorted) \cup {v}
        /\ UNCHANGED <<nodes, outNodes, inNodes, visited>>
    BY <1>2, EmitYoungestFacts
  <2> HIDE DEF v
  <2>2. WalkSoFar
    BY <2>1 DEF Reached
  <2>3. ToSet(sorted') = ToSet(sorted) \cup {v}
    BY <2>1, <2>2 DEF WalkSoFar
  <2>4. ASSUME NEW c \in ToSet(sorted'), NEW i \in 1..Len(outNodes[c]), c = v => i < 1
        PROVE  outNodes[c][i] \in visited
    <3>1. c # v /\ c \in ToSet(sorted) /\ c \in nodes
      <4>1. Len(outNodes[v]) \in Nat /\ sorted \in Seq(nodes)
        BY <2>1, LenProperties DEF IInv, WellFormed, TypeOK
      <4>. QED
        BY <2>3, <2>4, <4>1, ToSetIsElements
    <3>2. c # cur
      BY <2>1, <3>1, HistoryAssumption, GraphAssumption DEF IInv, WellFormed, TypeOK
    <3>. QED
      BY <2>2, <3>1, <3>2 DEF WalkSoFar
  <2>. QED
    BY <2>1, <2>2, <2>3, <2>4 DEF Reached, WalkSoFar
<1>3. CASE VisitEdge
  <2> DEFINE w == outNodes[cur][edge]
  <2>1. /\ pc = "date" /\ edge \in 1..Len(outNodes[cur]) /\ visited' = visited \cup {w}
        /\ edge' = edge + 1
        /\ ToSet(stack') = ToSet(stack) \cup (IF w \in visited THEN {} ELSE {w})
        /\ UNCHANGED <<nodes, outNodes, inNodes, processed, cur, sorted>>
    BY <1>3, VisitEdgeFacts
  <2>2. WalkSoFar
    BY <2>1 DEF Reached
  <2>3. ASSUME NEW c \in ToSet(sorted), NEW i \in 1..Len(outNodes[c]), c = cur => i < edge + 1
        PROVE  outNodes[c][i] \in visited'
    <3>1. CASE c = cur /\ i = edge
      BY <2>1, <3>1
    <3>2. CASE ~(c = cur /\ i = edge)
      <4>1. c = cur => i < edge
        BY <2>1, <2>3, <3>2
      <4>. QED
        BY <2>1, <2>2, <4>1 DEF WalkSoFar
    <3>. QED
      BY <3>1, <3>2
  <2> HIDE DEF w
  <2>. QED
    BY <2>1, <2>2, <2>3 DEF Reached, WalkSoFar
<1>4. CASE EdgesDone
  <2>1. /\ cur # NoCommit /\ edge > Len(Edges) /\ cur' = NoCommit
        /\ UNCHANGED <<nodes, outNodes, inNodes, visited, processed, pc, stack, sorted>>
    BY <1>4 DEF EdgesDone, graph
  <2>2. SUFFICES ASSUME pc = "date" PROVE WalkSoFar'
    BY <2>1 DEF Reached
  <2>3. WalkSoFar /\ edge > Len(outNodes[cur])
    BY <2>1, <2>2 DEF Reached, Edges
  <2>4. Len(outNodes[cur]) \in Nat /\ edge \in Nat
    BY <2>1, LenProperties DEF IInv, WellFormed, TypeOK
  <2>5. \A c \in ToSet(sorted) : \A i \in 1..Len(outNodes[c]) : c = cur => i < edge
    BY <2>3, <2>4
  <2>. QED
    BY <2>1, <2>3, <2>5 DEF WalkSoFar
<1>5. CASE UNCHANGED vars
  BY <1>5 DEF vars, graph, Reached, WalkSoFar
<1>6. CASE ~NodesSortedByDate /\ ~EmitYoungest /\ ~VisitEdge /\ ~EdgesDone /\ ~UNCHANGED vars
  BY <1>6 DEF Next, Call, Run, BuildGraphWithStartingCommit, NodesSortedByTopology, Return,
     PopNode, ExpandParent, MissingParent, EmitRoot, ReleaseEdge, Between, Walking, Reached
<1>. QED
  BY <1>1, <1>2, <1>3, <1>4, <1>5, <1>6

\* Starting a topological sort: what waits.
LEMMA TopologyStartFacts ==
  ASSUME IInv, NEW useLifo \in BOOLEAN, NodesSortedByTopology(useLifo)
  PROVE  /\ Idle /\ cur = NoCommit /\ cur' = NoCommit /\ pc' \in Topological /\ order' = pc'
         /\ sorted' = <<>> /\ ToSet(sorted') = {} /\ Len(sorted') = 0
         /\ stack' \in Seq(nodes)
         /\ ToSet(stack') = {c \in nodes : indegree'[c] = 0}
         /\ pc' = "dateorder" => Ascending(stack')
         /\ UNCHANGED <<parentShas, sortDate, stored, nodes, outNodes, inNodes, clean>>
<1>1. /\ indegree' = ResetIndegree /\ stack' \in SetToSeqs(TopologyRoots)
      /\ useLifo \/ Ascending(stack')
  BY DEF NodesSortedByTopology
<1>2. IsFiniteSet(TopologyRoots)
  BY FS_Subset, TopologyRoots \in SUBSET nodes DEF IInv, WellFormed, TopologyRoots
<1>3. stack' \in Seq(TopologyRoots) /\ ToSet(stack') = TopologyRoots
  BY <1>1, <1>2, OrderingElements
<1>4. stack' \in Seq(nodes)
  BY <1>3, SeqMonotonic, TopologyRoots \subseteq nodes DEF TopologyRoots
<1>5. Len(<<>>) = 0 /\ ToSet(<<>>) = {}
  BY DEF ToSet
<1>. QED
  BY <1>1, <1>3, <1>4, <1>5 DEF NodesSortedByTopology, IInv, OrderOfRoutine, TopologyRoots,
     Topological, repo, graph, Idle

\* Listing a root of a topological sort.
LEMMA EmitRootFacts ==
  ASSUME IInv, EmitRoot
  PROVE  /\ pc \in Topological /\ pc' = pc /\ order = pc /\ cur = NoCommit /\ stack # <<>>
         /\ Last(stack) \in nodes /\ stack' = Front(stack) /\ stack \in Seq(nodes)
         /\ ToSet(stack) = ToSet(stack') \cup {Last(stack)}
         /\ sorted' = Append(sorted, Last(stack)) /\ sorted \in Seq(nodes)
         /\ ToSet(sorted') = ToSet(sorted) \cup {Last(stack)}
         /\ UNCHANGED <<parentShas, sortDate, stored, nodes, outNodes, inNodes, indegree,
                        order, clean, fresh>>
<1>1. /\ pc \in Topological /\ order = pc /\ cur = NoCommit /\ TakeLast
      /\ sorted' = Append(sorted, Last(stack))
      /\ UNCHANGED <<parentShas, sortDate, stored, nodes, outNodes, inNodes, indegree,
                     pc, order, clean, fresh>>
  BY DEF EmitRoot, Between, Topological, Sorts, repo, graph, IInv, OrderOfRoutine
<1>2. /\ Last(stack) \in nodes /\ stack # <<>> /\ stack' = Front(stack)
      /\ stack \in Seq(nodes) /\ sorted \in Seq(nodes)
  BY <1>1, TakeLastTypes DEF TakeLast, IInv, WellFormed, TypeOK
<1>3. ToSet(stack) = ToSet(stack') \cup {Last(stack)}
  BY <1>2, FrontLast
<1>4. ToSet(sorted') = ToSet(sorted) \cup {Last(stack)}
  BY <1>1, <1>2, AppendElements
<1>. QED
  BY <1>1, <1>2, <1>3, <1>4

\* Releasing an edge during a topological sort.
LEMMA ReleaseEdgeFacts ==
  ASSUME IInv, ReleaseEdge, NEW w, w = outNodes[cur][edge]
  PROVE  /\ pc \in Topological /\ pc' = pc /\ order = pc /\ w \in nodes /\ w \in Commit
         /\ indegree' = [indegree EXCEPT ![w] = @ - 1]
         /\ \/ ~LastInEdge(w) /\ UNCHANGED stack
            \/ LastInEdge(w) /\ pc = "topo" /\ stack' = Append(stack, w)
            \/ LastInEdge(w) /\ pc = "dateorder" /\ InsertByDate(w)
         /\ ToSet(stack') = ToSet(stack) \cup (IF LastInEdge(w) THEN {w} ELSE {})
         /\ UNCHANGED <<parentShas, sortDate, stored, nodes, outNodes, inNodes, cur, sorted,
                        order, clean, fresh>>
<1>1. /\ pc \in Topological /\ cur \in nodes /\ cur \in Commit /\ order = pc
      /\ outNodes[cur] \in Seq(Commit) /\ edge \in Nat \ {0} /\ Edges = outNodes[cur]
  BY DEF ReleaseEdge, Walking, Edges, Topological, Sorts, IInv, OrderOfRoutine, WellFormed, TypeOK
<1>2. edge \in 1..Len(outNodes[cur])
  BY <1>1, LenProperties DEF ReleaseEdge
<1>3. w \in nodes /\ w \in Commit
  BY <1>1, <1>2, TargetIsNode DEF IInv, WellFormed, TypeOK
<1>4. /\ indegree' = [indegree EXCEPT ![w] = @ - 1]
      /\ \/ ~LastInEdge(w) /\ UNCHANGED stack
         \/ LastInEdge(w) /\ pc = "topo" /\ stack' = Append(stack, w)
         \/ LastInEdge(w) /\ pc = "dateorder" /\ InsertByDate(w)
      /\ UNCHANGED <<parentShas, sortDate, stored, nodes, outNodes, inNodes, pc, cur, sorted,
                     order, clean, fresh>>
  BY <1>1 DEF ReleaseEdge, repo, graph
<1>5. ToSet(stack') = ToSet(stack) \cup (IF LastInEdge(w) THEN {w} ELSE {})
  <2>1. TypeOK /\ stack \in Seq(nodes)
    BY DEF IInv, WellFormed, TypeOK
  <2>2. InsertByDate(w) => ToSet(stack') = ToSet(stack) \cup {w}
    BY <1>3, <2>1, InsertByDateElements
  <2>3. ToSet(Append(stack, w)) = ToSet(stack) \cup {w}
    BY <1>3, <2>1, AppendElements
  <2>. QED
    BY <1>4, <2>2, <2>3
<1>. QED
  BY <1>1, <1>3, <1>4, <1>5

LEMMA WaitingStep ==
  ASSUME IInv, IInv', Waiting, [Next]_vars
  PROVE  Waiting'
<1>1. ASSUME NEW useLifo \in BOOLEAN, NodesSortedByTopology(useLifo) PROVE Waiting'
  BY <1>1, TopologyStartFacts DEF Waiting
<1>2. CASE EmitRoot
  BY <1>2, EmitRootFacts DEF Waiting
<1>3. CASE ReleaseEdge
  <2> DEFINE w == outNodes[cur][edge]
  <2>1. /\ pc \in Topological /\ w \in nodes /\ w \in Commit
        /\ indegree' = [indegree EXCEPT ![w] = @ - 1]
        /\ ToSet(stack') = ToSet(stack) \cup (IF LastInEdge(w) THEN {w} ELSE {})
        /\ UNCHANGED <<nodes, sorted>>
    BY <1>3, ReleaseEdgeFacts
  <2> HIDE DEF w
  <2>2. ASSUME NEW n \in nodes, indegree'[n] = 0 PROVE n \in ToSet(stack') \cup ToSet(sorted')
    <3>1. indegree \in [Commit -> Nat] /\ n \in Commit
      BY DEF IInv, WellFormed, TypeOK
    <3>2. CASE n = w
      BY <2>1, <2>2, <3>1, <3>2 DEF LastInEdge
    <3>3. CASE n # w
      BY <2>1, <2>2, <3>1, <3>3 DEF Waiting
    <3>. QED
      BY <3>2, <3>3
  <2>. QED
    BY <2>1, <2>2 DEF Waiting
<1>4. CASE EdgesDone \/ UNCHANGED vars
  BY <1>4 DEF EdgesDone, vars, graph, Waiting
<1>5. CASE /\ ~\E useLifo \in BOOLEAN : NodesSortedByTopology(useLifo)
           /\ ~EmitRoot /\ ~ReleaseEdge /\ ~EdgesDone /\ ~UNCHANGED vars
  BY <1>5 DEF Next, Call, Run, BuildGraphWithStartingCommit, NodesSortedByDate, Return,
     PopNode, ExpandParent, MissingParent, EmitYoungest, VisitEdge, Between, Walking, Waiting,
     Topological
<1>. QED
  BY <1>1, <1>2, <1>3, <1>4, <1>5

-----------------------------------------------------------------------------
\* When a sort returns nothing is missing from its list: the greatest commit
\* that was would have only listed children, and would wait or be listed.
LEMMA NothingMissing ==
  ASSUME IInv, Downhill, Reached, Waiting, stack = <<>>, cur = NoCommit, pc \in Sorts
  PROVE  ToSet(sorted) = nodes
<1> DEFINE Missing == nodes \ ToSet(sorted)
<1>0. ToSet(<<>>) = {} /\ nodes \subseteq Commit /\ WellFormed /\ Mirror /\ Commit \subseteq Nat
  BY HistoryAssumption, GraphAssumption DEF ToSet, IInv, WellFormed, TypeOK
<1>1. SUFFICES ASSUME Missing # {} PROVE FALSE
  <2>1. ToSet(sorted) \subseteq nodes
    BY ToSetIsElements DEF IInv, WellFormed, TypeOK
  <2>. QED
    BY <1>1, <2>1
<1>2. Missing \in SUBSET Nat /\ IsFiniteSet(Missing)
  BY <1>0, FS_Subset, Missing \in SUBSET nodes DEF WellFormed
<1> HIDE DEF Missing
<1>3. PICK x \in Missing : \A y \in Missing : y <= x
  BY <1>1, <1>2, GreatestElement
<1>4. x \in nodes /\ x \in Commit /\ x \notin ToSet(sorted)
  BY <1>0 DEF Missing
<1>5. ASSUME NEW o \in inNodes[x] PROVE o[1] \in ToSet(sorted)
  <2>1. o[1] \in nodes /\ o[1] \in Commit /\ o[2] \in 1..Len(outNodes[o[1]]) /\ outNodes[o[1]][o[2]] = x
    BY <1>0, <1>4, InEdge
  <2>2. x < o[1]
    BY <2>1 DEF Downhill
  <2>3. o[1] \notin Missing
    <3> DEFINE e == o[1]
    <3>1. x \in Nat /\ e \in Nat /\ x < e
      BY <1>0, <1>4, <2>1, <2>2
    <3> HIDE DEF e
    <3>2. ~(e <= x)
      BY <3>1
    <3>. QED
      BY <1>3, <3>2 DEF e
  <2>. QED
    BY <2>1, <2>3 DEF Missing
<1>6. CASE pc = "date"
  <2>1. WalkSoFar
    BY <1>6 DEF Reached
  <2>2. PICK o \in inNodes[x] : TRUE
    BY <1>0, <1>4, <2>1 DEF WalkSoFar
  <2>3. /\ o[1] \in ToSet(sorted) /\ o[1] \in Commit
        /\ o[2] \in 1..Len(outNodes[o[1]]) /\ outNodes[o[1]][o[2]] = x
    BY <1>0, <1>4, <1>5, InEdge
  <2>4. o[1] # cur
    BY <2>3, HistoryAssumption, GraphAssumption
  <2>5. x \in visited
    BY <2>1, <2>3, <2>4 DEF WalkSoFar
  <2>. QED
    BY <1>0, <1>4, <2>1, <2>5 DEF WalkSoFar
<1>7. CASE pc \in Topological
  <2>1. indegree[x] = Cardinality(inNodes[x] \ Released)
    BY <1>4, <1>7 DEF IInv, Kahn, Counts
  <2>2. ASSUME NEW o \in inNodes[x] PROVE o \in Released
    <3>1. o[1] \in ToSet(sorted) /\ o[1] \in Commit /\ o \in Occurrence
      BY <1>0, <1>4, <1>5, InEdge
    <3>. QED
      BY <3>1, HistoryAssumption, GraphAssumption DEF Released
  <2>3. inNodes[x] \ Released = {}
    BY <2>2
  <2>4. indegree[x] = 0
    BY <2>1, <2>3, FS_EmptySet
  <2>. QED
    BY <1>0, <1>4, <1>7, <2>4 DEF Waiting
<1>. QED
  BY <1>6, <1>7 DEF Sorts, Topological

LEMMA ListingStep ==
  ASSUME IInv, IInv', Downhill, Reached, Waiting, Listing, [Next]_vars
  PROVE  Listing'
<1>1. CASE Return
  <2>1. /\ stack = <<>> /\ cur = NoCommit /\ pc # "idle" /\ UNCHANGED <<nodes, sorted, order>>
    BY <1>1 DEF Return, graph, Idle
  <2>2. ASSUME order # "none" PROVE ToSet(sorted) = nodes
    <3>1. pc \in Sorts
      BY <2>1, <2>2 DEF IInv, OrderOfRoutine, WellFormed, TypeOK
    <3>. QED
      BY <2>1, <3>1, NothingMissing
  <2>. QED
    BY <2>1, <2>2 DEF Listing
<1>2. CASE EmitRoot
  <2>1. pc' \in Topological /\ pc' # "idle"
    BY <1>2, EmitRootFacts DEF Topological
  <2>. QED
    BY <2>1 DEF Listing, Idle, IInv, Kahn, Counts
<1>3. CASE EmitYoungest
  <2>1. /\ pc = "date" /\ pc' = pc /\ Last(stack) \in nodes /\ sorted \in Seq(nodes)
        /\ sorted' = IF Last(stack) \in processed THEN sorted ELSE Append(sorted, Last(stack))
    BY <1>3, EmitYoungestFacts
  <2>2. processed = ToSet(sorted)
    BY <2>1 DEF Reached, WalkSoFar
  <2>. QED
    BY <2>1, <2>2, AppendElements DEF Listing, Idle
<1>4. CASE NodesSortedByDate \/ \E useLifo \in BOOLEAN : NodesSortedByTopology(useLifo)
  <2>1. sorted' = <<>> /\ pc' # "idle" /\ Len(<<>>) = 0
    BY <1>4 DEF NodesSortedByDate, NodesSortedByTopology
  <2>. QED
    BY <2>1 DEF Listing, Idle, Distinct
<1>5. CASE UNCHANGED vars
  BY <1>5 DEF vars, graph, Listing, Idle
<1>6. CASE MissingParent
  BY <1>6 DEF MissingParent, graph, Listing, IInv, OrderOfRoutine, Walking
<1>7. CASE /\ ~Return /\ ~EmitRoot /\ ~EmitYoungest /\ ~NodesSortedByDate /\ ~UNCHANGED vars
           /\ ~MissingParent /\ ~\E useLifo \in BOOLEAN : NodesSortedByTopology(useLifo)
  <2>1. sorted' = sorted /\ pc' # "idle"
    BY <1>7 DEF Next, Call, Run, BuildGraphWithStartingCommit, EdgesDone, PopNode, ExpandParent,
       ReleaseEdge, VisitEdge, Between, Walking, Idle
  <2>. QED
    BY <2>1 DEF Listing, Idle
<1>. QED
  BY <1>1, <1>2, <1>3, <1>4, <1>5, <1>6, <1>7 DEF Next, Call, Run

-----------------------------------------------------------------------------
LEMMA FollowsStep ==
  ASSUME IInv, IInv', Reached, Follows, [Next]_vars
  PROVE  Follows'
<1>1. CASE NodesSortedByDate
  <2>1. /\ Len(sorted') = 0 /\ ToSet(stack') = {c \in nodes : indegree[c] = 0}
        /\ fresh' = (\A c \in nodes : indegree[c] = InCount(c))
        /\ UNCHANGED <<nodes, outNodes>>
    BY <1>1, DateStartFacts
  <2>2. ASSUME fresh', NEW n \in ToSet(stack') PROVE Children(n) = {}
    BY <2>1, <2>2, NoInEdges DEF IInv
  <2>. QED
    BY <2>1, <2>2 DEF Follows, FollowsAChild, WaitsForAChild, Children
<1>2. CASE EmitYoungest
  <2> DEFINE v == Last(stack)
  <2>1. /\ pc = "date" /\ order = "date" /\ v \in nodes /\ v \in ToSet(stack)
        /\ ToSet(stack') \subseteq ToSet(stack)
        /\ sorted' = IF v \in processed THEN sorted ELSE Append(sorted, v)
        /\ sorted \in Seq(nodes) /\ ToSet(sorted) \subseteq ToSet(sorted')
        /\ UNCHANGED <<nodes, outNodes, pc, order, fresh>>
    BY <1>2, EmitYoungestFacts
  <2> HIDE DEF v
  <2>2. SUFFICES ASSUME fresh PROVE FollowsAChild' /\ WaitsForAChild'
    BY <2>1 DEF Follows, FollowsAChild
  <2>3. FollowsAChild /\ WaitsForAChild
    BY <2>1, <2>2 DEF Follows
  <2>4. WaitsForAChild'
    BY <2>1, <2>3 DEF WaitsForAChild, Children
  <2>5. CASE v \in processed
    BY <2>1, <2>3, <2>4, <2>5 DEF FollowsAChild, Children
  <2>6. CASE v \notin processed
    <3>1. /\ Len(sorted') = Len(sorted) + 1 /\ Len(sorted) \in Nat
          /\ \A i \in 1..Len(sorted) : sorted'[i] = sorted[i]
          /\ sorted'[Len(sorted) + 1] = v
      BY <2>1, <2>6, AppendElements
    <3>2. ASSUME NEW j \in 1..Len(sorted'), Children(sorted'[j]) # {}
          PROVE  \E i \in 1..(j - 1) : sorted'[i] \in Children(sorted'[j])
      <4>1. CASE j \in 1..Len(sorted)
        <5>1. PICK i \in 1..(j - 1) : sorted[i] \in Children(sorted[j])
          BY <2>1, <2>2, <2>3, <3>1, <3>2, <4>1 DEF FollowsAChild
        <5>. QED
          BY <3>1, <4>1, <5>1
      <4>2. CASE j = Len(sorted) + 1
        <5>1. PICK c \in Children(v) : c \in ToSet(sorted)
          BY <2>1, <2>3, <3>1, <3>2, <4>2 DEF WaitsForAChild
        <5>2. PICK i \in 1..Len(sorted) : sorted[i] = c
          BY <2>1, <5>1, ToSetIsElements
        <5>. QED
          BY <3>1, <4>2, <5>1, <5>2
      <4>. QED
        BY <3>1, <4>1, <4>2
    <3>. QED
      BY <2>1, <2>4, <3>2 DEF FollowsAChild, Children
  <2>. QED
    BY <2>5, <2>6
<1>3. CASE VisitEdge
  <2> DEFINE w == outNodes[cur][edge]
  <2>1. /\ pc = "date" /\ cur # NoCommit /\ cur \in Children(w)
        /\ ToSet(stack') \subseteq ToSet(stack) \cup {w}
        /\ UNCHANGED <<nodes, outNodes, pc, cur, sorted, order, fresh>>
    BY <1>3, VisitEdgeFacts
  <2>2. cur \in ToSet(sorted)
    BY <2>1 DEF Reached, WalkSoFar
  <2> HIDE DEF w
  <2>. QED
    BY <2>1, <2>2 DEF Follows, FollowsAChild, WaitsForAChild, Children
<1>4. CASE EdgesDone \/ Return \/ UNCHANGED vars
  BY <1>4 DEF EdgesDone, Return, vars, graph, Follows, FollowsAChild, WaitsForAChild, Children
<1>5. CASE /\ ~NodesSortedByDate /\ ~EmitYoungest /\ ~VisitEdge
           /\ ~EdgesDone /\ ~Return /\ ~UNCHANGED vars
  <2>1. order' # "date"
    BY <1>5 DEF Next, Call, Run, BuildGraphWithStartingCommit, NodesSortedByTopology, PopNode,
       ExpandParent, MissingParent, EmitRoot, ReleaseEdge, Between, Walking, IInv, OrderOfRoutine,
       Sorts
  <2>2. pc' # "date"
    BY <2>1 DEF IInv, OrderOfRoutine, Sorts
  <2>. QED
    BY <2>1, <2>2 DEF Follows, FollowsAChild
<1>. QED
  BY <1>1, <1>2, <1>3, <1>4, <1>5

-----------------------------------------------------------------------------
\* The dates of nodes can be compared.
LEMMA Dates ==
  ASSUME IInv, NEW n \in nodes
  PROVE  sortDate[n] \in Nat
  BY HistoryAssumption, GraphAssumption DEF IInv, WellFormed, TypeOK

\* Removing the last of an ascending array leaves an ascending one, and the
\* last is the youngest.
LEMMA LastIsYoungest ==
  ASSUME IInv, stack # <<>>, Ascending(stack)
  PROVE  /\ Ascending(Front(stack))
         /\ \A n \in ToSet(stack) : sortDate[n] <= sortDate[Last(stack)]
<1>1. /\ stack \in Seq(nodes) /\ Len(stack) \in Nat \ {0} /\ Last(stack) = stack[Len(stack)]
      /\ Len(Front(stack)) = Len(stack) - 1
      /\ \A i \in 1..(Len(stack) - 1) : Front(stack)[i] = stack[i]
  <2>1. stack \in Seq(nodes)
    BY DEF IInv, WellFormed, TypeOK
  <2>. QED
    BY <2>1, FrontLast
<1>2. \A n \in ToSet(stack) : \E i \in 1..Len(stack) : stack[i] = n
  BY <1>1, ToSetIsElements
<1>3. Len(stack) \in 1..Len(stack)
  BY <1>1
<1>4. \A n \in ToSet(stack) : sortDate[n] <= sortDate[stack[Len(stack)]]
  BY <1>2, <1>3 DEF Ascending
<1>5. ASSUME NEW i \in 1..(Len(stack) - 1), NEW j \in 1..i
      PROVE  sortDate[Front(stack)[j]] <= sortDate[Front(stack)[i]]
  <2>1. i \in 1..Len(stack) /\ j \in 1..(Len(stack) - 1)
    BY <1>1
  <2>. QED
    BY <1>1, <2>1 DEF Ascending
<1>. QED
  BY <1>1, <1>4, <1>5 DEF Ascending

\* The position CFArrayBSearchValues answers keeps an ascending array so.
LEMMA InsertKeepsAscending ==
  ASSUME IInv, NEW w \in nodes, InsertByDate(w), Ascending(stack)
  PROVE  Ascending(stack')
<1>1. PICK k \in Positions(stack, w) : stack' = InsertAt(stack, k, w)
  BY DEF InsertByDate
<1>2. /\ k \in 1..(Len(stack) + 1) /\ stack \in Seq(nodes)
      /\ \A j \in 1..(k - 1) : sortDate[stack[j]] <= sortDate[w]
      /\ \A j \in k..Len(stack) : sortDate[w] <= sortDate[stack[j]]
  BY <1>1 DEF Positions, IInv, WellFormed, TypeOK
<1>3. /\ stack' \in Seq(nodes) /\ Len(stack') = Len(stack) + 1 /\ stack'[k] = w
      /\ \A j \in 1..(k - 1) : stack'[j] = stack[j]
      /\ \A j \in (k + 1)..(Len(stack) + 1) : stack'[j] = stack[j - 1]
  BY <1>1, <1>2, InsertPlaces, SMTT(20)
<1>4. Len(stack) \in Nat
  BY <1>2, LenProperties
<1>. SUFFICES ASSUME NEW i \in 1..Len(stack'), NEW j \in 1..i
              PROVE  sortDate[stack'[j]] <= sortDate[stack'[i]]
  BY DEF Ascending
<1>5. i \in 1..(Len(stack) + 1) /\ j \in 1..(Len(stack) + 1) /\ j <= i
  BY <1>3, <1>4
<1>6. sortDate[w] \in Nat
  BY Dates
<1>7. CASE i = j
  <2>1. stack'[i] \in nodes
    BY <1>3, ElementOfSeq
  <2>. QED
    BY <1>7, <2>1, Dates
<1>8. CASE j < i /\ i < k
  <2>1. i \in 1..(k - 1) /\ j \in 1..(k - 1) /\ i \in 1..Len(stack)
    BY <1>2, <1>4, <1>5, <1>8
  <2>. QED
    BY <1>3, <2>1 DEF Ascending
<1>9. CASE j < i /\ i = k
  BY <1>2, <1>3, <1>5, <1>9
<1>10. CASE j < k /\ k < i
  <2>1. /\ j \in 1..(k - 1) /\ i \in (k + 1)..(Len(stack) + 1)
        /\ i - 1 \in 1..Len(stack) /\ j \in 1..(i - 1)
    BY <1>2, <1>4, <1>5, <1>10
  <2>. QED
    BY <1>3, <2>1 DEF Ascending
<1>11. CASE j = k /\ k < i
  <2>1. i \in (k + 1)..(Len(stack) + 1) /\ i - 1 \in k..Len(stack)
    BY <1>2, <1>4, <1>5, <1>11
  <2>. QED
    BY <1>2, <1>3, <1>11, <2>1
<1>12. CASE k < j /\ j < i
  <2>1. /\ i \in (k + 1)..(Len(stack) + 1) /\ j \in (k + 1)..(Len(stack) + 1)
        /\ i - 1 \in 1..Len(stack) /\ j - 1 \in 1..(i - 1)
    BY <1>2, <1>4, <1>5, <1>12
  <2>. QED
    BY <1>3, <2>1 DEF Ascending
<1>. QED
  BY <1>2, <1>5, <1>7, <1>8, <1>9, <1>10, <1>11, <1>12

LEMMA QueueStep ==
  ASSUME IInv, IInv', Queue, [Next]_vars
  PROVE  Queue'
<1>1. ASSUME NEW useLifo \in BOOLEAN, NodesSortedByTopology(useLifo) PROVE Queue'
  <2>1. /\ pc' \in Topological /\ sortDate' = sortDate
        /\ pc' = "dateorder" => Ascending(stack')
    BY <1>1, TopologyStartFacts
  <2>. QED
    BY <2>1 DEF Queue, Ascending, Topological
<1>2. CASE NodesSortedByDate
  <2>1. /\ pc' = "date" /\ stack' \in Seq(nodes) /\ ToSet(stack') = {c \in nodes : indegree[c] = 0}
        /\ fresh' = (\A c \in nodes : indegree[c] = InCount(c))
        /\ UNCHANGED <<sortDate, nodes, outNodes>>
    BY <1>2, DateStartFacts
  <2>2. SUFFICES ASSUME fresh', SingleStart' PROVE Ascending(stack)'
    BY <2>1 DEF Queue
  <2>3. ToSet(stack') = {n \in nodes : Children(n) = {}}
    BY <2>1, <2>2, NoInEdges DEF IInv
  <2>4. PICK r : {n \in nodes : Children(n) = {}} = {r}
    <3>1. Cardinality({n \in nodes : Children(n) = {}}) = 1
      BY <2>1, <2>2 DEF SingleStart, Children
    <3>2. IsFiniteSet({n \in nodes : Children(n) = {}})
      BY FS_Subset DEF IInv, WellFormed
    <3>. QED
      BY <3>1, <3>2, FS_Singleton
  <2>5. sortDate[r] \in Nat
    BY <2>4, Dates
  <2>6. \A i \in 1..Len(stack') : stack'[i] = r
    BY <2>1, <2>3, <2>4, ToSetIsElements
  <2>7. Len(stack') \in Nat
    BY <2>1, LenProperties
  <2>. QED
    BY <2>1, <2>5, <2>6, <2>7 DEF Ascending
<1>3. CASE EmitRoot \/ EmitYoungest
  <2>1. /\ pc' = pc /\ fresh' = fresh /\ stack # <<>> /\ stack' = Front(stack)
        /\ UNCHANGED <<sortDate, nodes, outNodes>>
    BY <1>3, EmitRootFacts, EmitYoungestFacts
  <2>2. Ascending(stack) => Ascending(stack')
    BY <2>1, LastIsYoungest
  <2>. QED
    BY <2>1, <2>2 DEF Queue, SingleStart, Children, Ascending
<1>4. CASE ReleaseEdge
  <2> DEFINE w == outNodes[cur][edge]
  <2>1. /\ pc \in Topological /\ pc' = pc /\ w \in nodes /\ sortDate' = sortDate
        /\ pc = "dateorder" => UNCHANGED stack \/ InsertByDate(w)
    BY <1>4, ReleaseEdgeFacts
  <2> HIDE DEF w
  <2>2. pc = "dateorder" => Ascending(stack')
    BY <2>1, InsertKeepsAscending DEF Queue
  <2>. QED
    BY <2>1, <2>2 DEF Queue, Ascending, Topological
<1>5. CASE VisitEdge
  <2> DEFINE w == outNodes[cur][edge]
  <2>1. /\ pc = "date" /\ pc' = pc /\ w \in nodes /\ fresh' = fresh
        /\ UNCHANGED stack \/ InsertByDate(w)
        /\ UNCHANGED <<sortDate, nodes, outNodes>>
    BY <1>5, VisitEdgeFacts
  <2> HIDE DEF w
  <2>2. Ascending(stack) => Ascending(stack')
    BY <2>1, InsertKeepsAscending
  <2>. QED
    BY <2>1, <2>2 DEF Queue, SingleStart, Children, Ascending
<1>6. CASE EdgesDone \/ UNCHANGED vars
  BY <1>6 DEF EdgesDone, vars, repo, graph, Queue, SingleStart, Children, Ascending
<1>7. CASE /\ ~\E useLifo \in BOOLEAN : NodesSortedByTopology(useLifo)
           /\ ~NodesSortedByDate /\ ~EmitRoot /\ ~EmitYoungest /\ ~ReleaseEdge
           /\ ~VisitEdge /\ ~EdgesDone /\ ~UNCHANGED vars
  <2>1. pc' \notin {"date", "dateorder"}
    BY <1>7 DEF Next, Call, Run, BuildGraphWithStartingCommit, Return, PopNode, ExpandParent,
       MissingParent, Between, Walking
  <2>. QED
    BY <2>1 DEF Queue
<1>. QED
  BY <1>1, <1>2, <1>3, <1>4, <1>5, <1>6, <1>7

-----------------------------------------------------------------------------
LEMMA JInit == Init => JInv
<1>. SUFFICES ASSUME Init PROVE JInv
  OBVIOUS
<1>1. Len(<<>>) = 0 /\ ToSet(<<>>) = {}
  BY DEF ToSet
<1>2. \A n \in Commit : InCount(n) = 0
  BY FS_EmptySet DEF Init, InCount
<1>. QED
  BY <1>1, <1>2 DEF Init, JInv, Downhill, Counted, Expanded, AllExpanded, Reached, Waiting,
     Topological, Listing, Distinct, Follows, FollowsAChild, Queue

LEMMA JNext == IInv /\ IInv' /\ JInv /\ [Next]_vars => JInv'
  BY DownhillStep, CountedStep, ExpandedStep, ReachedStep, WaitingStep, ListingStep, FollowsStep,
     QueueStep DEF JInv

LEMMA JInvariance == Spec => [](IInv /\ JInv)
<1>1. Init => IInv /\ JInv
  BY InitEstablishes, JInit
<1>2. IInv /\ JInv /\ [Next]_vars => (IInv /\ JInv)'
  BY NextStep, JNext
<1>. QED
  BY <1>1, <1>2, PTL DEF Spec

\* A build that returned has given every node all the edges its commit names,
\* and every parent a node, also when it met nodes of an earlier build.
THEOREM HistoryIsComplete == Spec => []HistoryComplete
<1>1. IInv /\ JInv => HistoryComplete
  <2>. SUFFICES ASSUME IInv, JInv, Idle, clean, NEW n \in nodes
                PROVE  outNodes[n] = parentShas[n] /\ ToSet(parentShas[n]) \subseteq nodes
    BY DEF HistoryComplete
  <2>1. outNodes[n] = parentShas[n]
    BY DEF JInv, Expanded, AllExpanded, Idle
  <2>2. outNodes[n] \in Seq(Commit)
    BY DEF IInv, WellFormed, TypeOK
  <2>3. ToSet(outNodes[n]) \subseteq nodes
    <3>1. \A x : x \in ToSet(outNodes[n]) <=> \E i \in 1..Len(outNodes[n]) : outNodes[n][i] = x
      BY <2>2, ToSetIsElements
    <3>2. \A i \in 1..Len(outNodes[n]) : outNodes[n][i] \in nodes
      BY TargetIsNode DEF IInv
    <3>. QED
      BY <3>1, <3>2
  <2>. QED
    BY <2>1, <2>3
<1>. QED
  BY <1>1, JInvariance, PTL

\* Each of the three sorts lists every node, once, when it has returned.
THEOREM ListsEachNodeOnce == Spec => []EachNodeOnce
<1>1. JInv => EachNodeOnce
  BY DEF JInv, Listing, Distinct, EachNodeOnce
<1>. QED
  BY <1>1, JInvariance, PTL

\* The order by date alone lists a commit that has children after one of them,
\* when no sort has used up the indegrees.
THEOREM ListsAfterAChild == Spec => []FollowsAChild
<1>1. JInv => FollowsAChild
  BY DEF JInv, Follows
<1>. QED
  BY <1>1, JInvariance, PTL

\* A commit whose children are all listed, or in the default order one of
\* them, waits; the one that is taken is the last of an ascending array.
LEMMA YoungestStep ==
  ASSUME IInv, JInv, [Next]_vars, sorted' # sorted
  PROVE  /\ pc = "dateorder" => ListsYoungestOf({n \in nodes : Children(n) \subseteq ToSet(sorted)})
         /\ pc = "date" /\ fresh /\ Cardinality({n \in nodes : Children(n) = {}}) = 1 =>
              ListsYoungestOf({n \in nodes : Children(n) \cap ToSet(sorted) # {}})
<1>1. CASE EmitRoot
  <2>1. /\ pc \in Topological /\ cur = NoCommit /\ stack # <<>> /\ stack \in Seq(nodes)
        /\ Last(stack) \in nodes /\ sorted \in Seq(nodes)
        /\ sorted' = Append(sorted, Last(stack))
    BY <1>1, EmitRootFacts
  <2>2. Last(sorted') = Last(stack)
    BY <2>1, AppendElements DEF Last
  <2>3. ASSUME pc = "dateorder", NEW n \in nodes, Children(n) \subseteq ToSet(sorted),
               n \notin ToSet(sorted)
        PROVE  sortDate[n] <= sortDate[Last(stack)]
    <3>1. n \in Commit /\ indegree[n] = Cardinality(inNodes[n] \ Released)
      BY <2>1, <2>3 DEF IInv, WellFormed, TypeOK, Kahn, Counts
    <3>2. ASSUME NEW o \in inNodes[n] PROVE o \in Released
      <4>1. o \in Occurrence /\ o[1] \in Commit /\ o[1] \in Children(n)
        BY <3>1, InEdge DEF IInv
      <4>. QED
        BY <2>1, <2>3, <4>1, HistoryAssumption, GraphAssumption DEF Released
    <3>3. inNodes[n] \ Released = {}
      BY <3>2
    <3>4. n \in ToSet(stack)
      BY <2>1, <2>3, <3>1, <3>3, FS_EmptySet DEF JInv, Waiting
    <3>. QED
      BY <2>1, <2>3, <3>4, LastIsYoungest DEF JInv, Queue
  <2>. QED
    BY <2>1, <2>2, <2>3 DEF ListsYoungestOf, Topological
<1>2. CASE EmitYoungest
  <2>1. /\ pc = "date" /\ cur = NoCommit /\ stack # <<>> /\ stack \in Seq(nodes)
        /\ Last(stack) \in nodes /\ sorted \in Seq(nodes)
        /\ sorted' # sorted => sorted' = Append(sorted, Last(stack))
    BY <1>2, EmitYoungestFacts
  <2>2. sorted' # sorted => Last(sorted') = Last(stack)
    BY <2>1, AppendElements DEF Last
  <2>3. ASSUME fresh, SingleStart, NEW n \in nodes, Children(n) \cap ToSet(sorted) # {},
               n \notin ToSet(sorted)
        PROVE  sortDate[n] <= sortDate[Last(stack)]
    <3>1. PICK c \in Children(n) : c \in ToSet(sorted)
      BY <2>3
    <3>2. PICK i \in 1..Len(outNodes[c]) : outNodes[c][i] = n /\ c \in Commit
      BY ChildEdge DEF IInv
    <3>3. c # cur
      BY <2>1, <3>2, HistoryAssumption, GraphAssumption
    <3>4. n \in ToSet(stack)
      BY <2>1, <2>3, <3>1, <3>2, <3>3 DEF JInv, Reached, WalkSoFar
    <3>. QED
      BY <2>1, <2>3, <3>4, LastIsYoungest DEF JInv, Queue
  <2>. QED
    BY <2>1, <2>2, <2>3 DEF ListsYoungestOf, SingleStart
<1>3. CASE ~EmitRoot /\ ~EmitYoungest
  <2>1. sorted' = sorted \/ pc = "idle"
    BY <1>3 DEF Next, Call, Run, vars, BuildGraphWithStartingCommit, NodesSortedByTopology,
       NodesSortedByDate, EdgesDone, Return, PopNode, ExpandParent, MissingParent, ReleaseEdge,
       VisitEdge, Idle
  <2>. QED
    BY <2>1
<1>. QED
  BY <1>1, <1>2, <1>3

\* Both orders by date list the youngest of the commits that may come next (the
\* order by date on a fresh graph with a single head).
THEOREM ListsTheYoungest == Spec => TakesYoungest
<1>1. IInv /\ JInv /\ [Next]_vars =>
        [sorted' # sorted =>
           /\ pc = "dateorder" => ListsYoungestOf({n \in nodes : Children(n) \subseteq ToSet(sorted)})
           /\ pc = "date" /\ fresh /\ Cardinality({n \in nodes : Children(n) = {}}) = 1 =>
                ListsYoungestOf({n \in nodes : Children(n) \cap ToSet(sorted) # {}})]_vars
  BY YoungestStep
<1>. QED
  BY <1>1, JInvariance, PTL DEF Spec, TakesYoungest

-----------------------------------------------------------------------------
(***************************************************************************)
(* Theorems about CommitEnumerator, for every history and store, any       *)
(* number of start commits and every use of the enumerator: it answers no  *)
(* commit twice, an enumeration that nothing interrupted has answered the  *)
(* whole history, breadth first it answers the generations in order and    *)
(* depth first it descends.                                                *)
(*                                                                         *)
(* The argument is about what was answered and what is queued together:    *)
(* these are the start commits and the parents of what was answered, each  *)
(* parent once, and the marked commits are exactly those an answered       *)
(* commit is or names.  Breadth first, the answers followed by the queue   *)
(* is a sequence that only grows at its end; of two of its places the      *)
(* later, where a commit comes for the first time, is never of an earlier  *)
(* generation.                                                             *)
(***************************************************************************)

\* nextObject has not answered nil yet.
Live == nodeQueue # Nil

Given == IF Live THEN answers ELSE Front(answers)
Pending == IF Live THEN nodeQueue ELSE <<>>

\* The types, and what the enumerator is before its first and after its last
\* nextObject.
Base ==
  /\ EnumeratorTypeOK
  /\ head \in stored
  /\ Live <=> visitedNodes # Nil
  /\ ~started => answers = <<>> /\ visitedNodes = {} /\ nodeQueue = starts /\ ~raised
  /\ started => starts # <<>>
  /\ Given \in Seq(stored)
  /\ ~Live => started /\ answers = Append(Given, Nil)

\* How often a commit may come: a single start is marked with its first take,
\* of several one may be queued again as a parent before it is taken.
Most(c) == IF Len(starts) = 1 THEN 1 ELSE Occurrences(starts, c) + 1

\* How often while it is not marked.
Unmarked(c) == IF Len(starts) = 1 THEN 0 ELSE Occurrences(starts, c)

Comes(c) == Occurrences(Given, c) + Occurrences(Pending, c)

Once ==
  started => \A c \in Commit : /\ Comes(c) <= Most(c)
                               /\ Live /\ c \notin visitedNodes => Comes(c) <= Unmarked(c)

\* Nothing is answered or queued that is not at or above a start commit.
Sound ==
  \A S \in SUBSET Commit :
    ToSet(starts) \subseteq S /\ Parents(S) \subseteq S => ToSet(Given) \cup ToSet(Pending) \subseteq S

\* Until an exception, what comes is what was queued as a start and what an
\* answered commit names, and the latter are marked.
Complete ==
  started /\ ~raised =>
    /\ ToSet(Given) \cup ToSet(Pending) = ToSet(starts) \cup Parents(ToSet(Given))
    /\ Live => visitedNodes = ToSet(Given) \cup Parents(ToSet(Given))

\* Depth first, the next commit is a new parent of the last answer, if it has
\* one.
Descends ==
  mode = "DFS" /\ ~raised /\ Live /\ answers # <<>> /\ Unseen # {} =>
    nodeQueue # <<>> /\ Last(nodeQueue) \in Unseen

\* Breadth first: the sequence of all that was ever queued.
Walk == Given \o Pending

N == Cardinality(Commit)

\* A place of the walk w where a commit has been before, or one that no place
\* before it is a generation later than, generations as in V.
Orderly(V, w, j) ==
  \/ \E l \in 1..(j - 1) : w[l] = w[j]
  \/ \A i \in 1..j : \A k \in 0..N : w[j] \in V[k] => w[i] \in V[k]

InOrder ==
  mode = "BFS" /\ started /\ ~raised => \A j \in 1..Len(Walk) : Orderly(Within, Walk, j)

\* The inductive invariant.
Inv == Base /\ Once /\ Sound /\ Complete /\ Descends /\ InOrder

-----------------------------------------------------------------------------
(***************************************************************************)
(* Counting the occurrences in a sequence.                                 *)
(***************************************************************************)
LEMMA OccurrencesNat ==
  ASSUME NEW S, NEW s \in Seq(S), NEW c
  PROVE  /\ Occurrences(s, c) \in Nat /\ IsFiniteSet({i \in 1..Len(s) : s[i] = c})
         /\ Occurrences(s, c) = Cardinality({i \in 1..Len(s) : s[i] = c})
         /\ Occurrences(s, c) = 0 <=> c \notin ToSet(s)
<1> DEFINE I == {i \in 1..Len(s) : s[i] = c}
<1>1. DOMAIN s = 1..Len(s) /\ Len(s) \in Nat
  BY LenProperties
<1>2. IsFiniteSet(I) /\ Cardinality(I) \in Nat
  <2>1. IsFiniteSet(1..Len(s)) /\ I \in SUBSET (1..Len(s))
    BY <1>1, FS_Interval
  <2>. QED
    BY <2>1, FS_Subset, FS_CardinalityType
<1>3. Cardinality(I) = 0 <=> I = {}
  BY <1>2, FS_EmptySet
<1>4. I = {} <=> c \notin ToSet(s)
  BY ToSetIsElements
<1>. QED
  BY <1>1, <1>2, <1>3, <1>4 DEF Occurrences

\* The occurrences in two sequences one after the other.
LEMMA OccurrencesConcat ==
  ASSUME NEW S, NEW s \in Seq(S), NEW t \in Seq(S), NEW c
  PROVE  Occurrences(s \o t, c) = Occurrences(s, c) + Occurrences(t, c)
<1> DEFINE u == s \o t
           m == Len(s)
           n == Len(t)
<1>1. /\ u \in Seq(S) /\ Len(u) = m + n /\ m \in Nat /\ n \in Nat
      /\ \A i \in 1..(m + n) : u[i] = IF i <= m THEN s[i] ELSE t[i - m]
  BY ConcatProperties, LenProperties
<1> DEFINE A == {i \in 1..m : s[i] = c}
           B == {i \in 1..n : t[i] = c}
           D == {i \in (m + 1)..(m + n) : u[i] = c}
<1>2. /\ Occurrences(s, c) = Cardinality(A) /\ IsFiniteSet(A) /\ Cardinality(A) \in Nat
      /\ Occurrences(t, c) = Cardinality(B) /\ IsFiniteSet(B) /\ Cardinality(B) \in Nat
  BY OccurrencesNat
<1>3. Occurrences(u, c) = Cardinality({i \in 1..(m + n) : u[i] = c})
  <2> HIDE DEF u, m, n
  <2>. QED
    BY <1>1, OccurrencesNat
<1> HIDE DEF u, m, n
<1>4. {i \in 1..(m + n) : u[i] = c} = A \cup D /\ A \cap D = {}
  BY <1>1
<1>5. IsFiniteSet(D) /\ Cardinality(D) = Cardinality(B)
  <2> DEFINE f == [i \in B |-> m + i]
  <2>1. \A i \in B : m + i \in D
    BY <1>1
  <2>2. f \in [B -> D] /\ \A i, j \in B : f[i] = f[j] => i = j
    BY <1>1, <2>1
  <2>3. \A d \in D : d - m \in B /\ f[d - m] = d
    BY <1>1
  <2>4. f \in Bijection(B, D)
    <3> HIDE DEF f
    <3>. QED
      BY <2>2, <2>3 DEF Bijection, Injection, Surjection, IsInjective
  <2>5. ExistsBijection(B, D)
    <3> HIDE DEF B, D, f
    <3>. QED
      BY <2>4 DEF ExistsBijection
  <2> HIDE DEF B, D
  <2>. QED
    BY <1>2, <2>5, FS_Bijection
<1>6. Cardinality(A \cup D) = Cardinality(A) + Cardinality(D)
  <2> HIDE DEF A, D
  <2>1. Cardinality(A \cup D) = Cardinality(A) + Cardinality(D) - Cardinality(A \cap D)
    BY <1>2, <1>5, FS_Union
  <2>2. Cardinality(A \cap D) = 0
    BY <1>4, FS_EmptySet
  <2>. QED
    BY <1>2, <1>5, <2>1, <2>2
<1>. QED
  BY <1>2, <1>3, <1>4, <1>5, <1>6 DEF u

\* In a sequence of distinct elements each occurs once.
LEMMA OccurrencesDistinct ==
  ASSUME NEW S, NEW s \in Seq(S), Distinct(s), NEW c
  PROVE  Occurrences(s, c) = IF c \in ToSet(s) THEN 1 ELSE 0
<1>1. CASE c \in ToSet(s)
  <2>1. PICK i \in 1..Len(s) : s[i] = c
    BY <1>1, ToSetIsElements
  <2>2. {j \in 1..Len(s) : s[j] = c} = {i}
    BY <2>1 DEF Distinct
  <2>. QED
    BY <1>1, <2>2, OccurrencesNat, FS_Singleton
<1>2. CASE c \notin ToSet(s)
  BY <1>2, OccurrencesNat
<1>. QED
  BY <1>1, <1>2

LEMMA OccurrencesOne ==
  ASSUME NEW S, NEW e \in S, NEW c
  PROVE  /\ <<e>> \in Seq(S) /\ Len(<<e>>) = 1 /\ ToSet(<<e>>) = {e}
         /\ Occurrences(<<e>>, c) = IF c = e THEN 1 ELSE 0
<1> DEFINE s == <<e>>
<1>1. s \in Seq(S) /\ Len(s) = 1 /\ s[1] = e
  OBVIOUS
<1>2. ToSet(s) = {e}
  BY DEF ToSet
<1>3. Distinct(s)
  BY <1>1 DEF Distinct
<1> HIDE DEF s
<1>4. Occurrences(s, c) = IF c = e THEN 1 ELSE 0
  BY <1>1, <1>2, <1>3, OccurrencesDistinct
<1>. QED
  BY <1>1, <1>2, <1>4 DEF s

\* Answering a commit more.
LEMMA OccurrencesAppend ==
  ASSUME NEW S, NEW s \in Seq(S), NEW e \in S, NEW c
  PROVE  Occurrences(Append(s, e), c) = Occurrences(s, c) + (IF c = e THEN 1 ELSE 0)
<1> DEFINE t == <<e>>
<1>1. t \in Seq(S) /\ Occurrences(t, c) = IF c = e THEN 1 ELSE 0
  BY OccurrencesOne
<1>2. Append(s, e) = s \o t
  BY AppendIsConcat
<1> HIDE DEF t
<1>. QED
  BY <1>1, <1>2, OccurrencesConcat

-----------------------------------------------------------------------------
(***************************************************************************)
(* What nextObject does to the queue.                                      *)
(***************************************************************************)
\* A take, from either end.
LEMMA Taking ==
  ASSUME NEW S, NEW q \in Seq(S), q # <<>>,
         NEW c, c = Take(q)[1], NEW rest, rest = Take(q)[2]
  PROVE  /\ c \in S /\ rest \in Seq(S) /\ ToSet(q) = {c} \cup ToSet(rest)
         /\ Len(q) \in Nat /\ Len(rest) = Len(q) - 1
         /\ \A x : Occurrences(q, x) = Occurrences(rest, x) + (IF x = c THEN 1 ELSE 0)
<1>1. CASE mode = "DFS"
  <2>1. c = Last(q) /\ rest = Front(q)
    BY <1>1 DEF Take
  <2>2. /\ c \in S /\ rest \in Seq(S) /\ ToSet(q) = {c} \cup ToSet(rest)
        /\ Len(q) \in Nat /\ Len(rest) = Len(q) - 1 /\ c = q[Len(q)]
        /\ \A j \in 1..(Len(q) - 1) : rest[j] = q[j]
    BY <2>1, FrontLast
  <2>3. q = Append(rest, c)
    <3>1. /\ Append(rest, c) \in Seq(S) /\ Len(Append(rest, c)) = Len(rest) + 1
          /\ \A j \in 1..Len(rest) : Append(rest, c)[j] = rest[j]
          /\ Append(rest, c)[Len(rest) + 1] = c
      BY <2>2, AppendElements
    <3>2. \A j \in 1..Len(q) : q[j] = Append(rest, c)[j]
      BY <2>2, <3>1
    <3>. QED
      BY <2>2, <3>1, <3>2, SeqEqual
  <2>. QED
    BY <2>2, <2>3, OccurrencesAppend, SMTT(20)
<1>2. CASE mode # "DFS"
  <2>1. c = Head(q) /\ rest = Tail(q)
    BY <1>2 DEF Take
  <2>2. /\ c \in S /\ rest \in Seq(S) /\ ToSet(q) = {c} \cup ToSet(rest)
        /\ Len(q) \in Nat /\ Len(rest) = Len(q) - 1
    BY <2>1, TailElements, HeadTailProperties, LenProperties
  <2> DEFINE t == <<c>>
  <2>3. q = t \o rest
    BY <2>1, HeadTailProperties, ConcatElements
  <2>4. t \in Seq(S) /\ \A x : Occurrences(t, x) = IF x = c THEN 1 ELSE 0
    BY <2>2, OccurrencesOne
  <2> HIDE DEF t
  <2>5. \A x : Occurrences(q, x) = Occurrences(t, x) + Occurrences(rest, x)
    <3>1. \A x : Occurrences(t \o rest, x) = Occurrences(t, x) + Occurrences(rest, x)
      BY <2>2, <2>4, OccurrencesConcat
    <3>. QED
      BY <2>3, <3>1
  <2>6. \A x : Occurrences(rest, x) \in Nat
    BY <2>2, OccurrencesNat
  <2>. QED
    BY <2>2, <2>4, <2>5, <2>6
<1>. QED
  BY <1>1, <1>2

\* The states of the loop over the parents.
LoopState == [visited : SUBSET Commit, queue : Seq(stored), raised : BOOLEAN]

\* What the loop has done to t from s after the parents of T: it has queued P.
Queued(s, t, T, P) ==
  /\ P \in Seq(stored) /\ Distinct(P) /\ t.queue = s.queue \o P
  /\ ToSet(P) \cap s.visited = {} /\ ToSet(P) \subseteq t.visited /\ ToSet(P) \subseteq T
  /\ s.visited \subseteq t.visited /\ t.visited \subseteq s.visited \cup T
  /\ ~t.raised => t.visited = s.visited \cup T /\ ToSet(P) = T \ s.visited

LEMMA PushStep ==
  ASSUME stored \subseteq Commit, NEW s \in LoopState, NEW t \in LoopState,
         NEW T \in SUBSET Commit, NEW P, Queued(s, t, T, P), NEW p \in Commit
  PROVE  Push(t, p) \in LoopState /\ \E PP : Queued(s, Push(t, p), T \cup {p}, PP)
<1>1. CASE t.raised \/ p \in t.visited
  <2>1. Push(t, p) = t
    BY <1>1 DEF Push
  <2>2. Queued(s, t, T \cup {p}, P)
    BY <1>1 DEF Queued
  <2>. QED
    BY <2>1, <2>2
<1>2. CASE ~t.raised /\ p \notin t.visited /\ p \in stored
  <2> DEFINE u == [t EXCEPT !.visited = @ \cup {p}, !.queue = Append(@, p)]
  <2>1. Push(t, p) = u
    BY <1>2 DEF Push
  <2>2. /\ u.visited = t.visited \cup {p} /\ u.queue = Append(t.queue, p) /\ u.raised = t.raised
        /\ t.queue \in Seq(stored) /\ s.queue \in Seq(stored)
    BY DEF LoopState
  <2>3. u \in LoopState
    BY <1>2, AppendProperties DEF LoopState
  <2> HIDE DEF u
  <2>4. /\ P \in Seq(stored) /\ p \notin ToSet(P) /\ p \notin s.visited
        /\ Append(P, p) \in Seq(stored) /\ Distinct(Append(P, p))
        /\ ToSet(Append(P, p)) = ToSet(P) \cup {p}
    BY <1>2, AppendElements DEF Queued
  <2>5. u.queue = s.queue \o Append(P, p)
    <3>1. t.queue = s.queue \o P
      BY DEF Queued
    <3>2. Append(s.queue \o P, p) = s.queue \o Append(P, p)
      <4> DEFINE r == s.queue
                 e == <<p>>
      <4>1. r \in Seq(stored) /\ e \in Seq(stored) /\ r \o P \in Seq(stored)
        BY <1>2, <2>2, <2>4, ConcatProperties
      <4>2. Append(r \o P, p) = (r \o P) \o e /\ Append(P, p) = P \o e
        BY <1>2, <2>4, <4>1, AppendIsConcat
      <4> HIDE DEF r, e
      <4>3. (r \o P) \o e = r \o (P \o e)
        BY <2>4, <4>1, ConcatAssociative
      <4>. QED
        BY <4>2, <4>3 DEF r
    <3>. QED
      BY <2>2, <3>1, <3>2
  <2>6. Queued(s, u, T \cup {p}, Append(P, p))
    BY <1>2, <2>2, <2>4, <2>5 DEF Queued
  <2>. QED
    BY <2>1, <2>3, <2>6
<1>3. CASE ~t.raised /\ p \notin t.visited /\ p \notin stored
  <2> DEFINE u == [t EXCEPT !.visited = @ \cup {p}, !.raised = TRUE]
  <2>1. Push(t, p) = u
    BY <1>3 DEF Push
  <2>2. u.visited = t.visited \cup {p} /\ u.queue = t.queue /\ u.raised = TRUE
    BY DEF LoopState
  <2>3. u \in LoopState
    BY DEF LoopState
  <2> HIDE DEF u
  <2>4. Queued(s, u, T \cup {p}, P)
    BY <2>2 DEF Queued
  <2>. QED
    BY <2>1, <2>3, <2>4
<1>. QED
  BY <1>1, <1>2, <1>3

\* The whole loop, by induction over the turns.
LEMMA PushAllQueues ==
  ASSUME stored \subseteq Commit, NEW s \in LoopState, NEW ps \in Seq(Commit)
  PROVE  PushAll(s, ps) \in LoopState /\ \E P : Queued(s, PushAll(s, ps), ToSet(ps), P)
<1> DEFINE n == Len(ps)
           Unfolds(f) == f = [k \in 0..n |-> IF k = 0 THEN s ELSE Push(f[k - 1], ps[k])]
           after == CHOOSE f : Unfolds(f)
           Turns(k) == {ps[i] : i \in 1..k}
<1>1. n \in Nat /\ \A i \in 1..n : ps[i] \in Commit
  BY LenProperties
<1>2. PushAll(s, ps) = after[n]
  BY DEF PushAll
<1>3. \A t \in LoopState, p \in Commit : Push(t, p) \in LoopState
  BY stored \subseteq Commit, AppendProperties DEF Push, LoopState
<1>4. \E f : f \in [0..n -> LoopState] /\ Unfolds(f)
  <2> DEFINE h == [x \in (1..n) \X LoopState |-> Push(x[2], ps[x[1]])]
  <2>1. h \in [(1..n) \X LoopState -> LoopState]
    BY <1>1, <1>3
  <2>2. \A k \in 1..n, t \in LoopState : h[<<k, t>>] = Push(t, ps[k])
    OBVIOUS
  <2> HIDE DEF h, n
  <2>3. PICK f : Recurs(f, n, LoopState, s, h)
    BY <1>1, <2>1, PrimitiveRecursion
  <2>4. f \in [0..n -> LoopState] /\ f[0] = s /\ \A k \in 1..n : f[k] = h[<<k, f[k - 1]>>]
    BY <2>3 DEF Recurs
  <2>5. ASSUME NEW k \in 1..n PROVE k - 1 \in 0..n /\ f[k] = Push(f[k - 1], ps[k])
    <3>1. k - 1 \in 0..n
      BY <1>1
    <3>2. f[k - 1] \in LoopState
      BY <2>4, <3>1
    <3>. QED
      BY <2>2, <2>4, <3>1, <3>2
  <2>6. Unfolds(f)
    BY <1>1, <2>4, <2>5
  <2>. QED
    BY <2>4, <2>6
<1>5. Unfolds(after)
  <2> HIDE DEF Unfolds
  <2>. QED
    BY <1>4
<1> HIDE DEF after, n
<1>6. after[0] = s /\ \A k \in 1..n : after[k] = Push(after[k - 1], ps[k])
  BY <1>1, <1>5
<1> DEFINE Good(k) == after[k] \in LoopState /\ \E P : Queued(s, after[k], Turns(k), P)
           I == {k \in Nat : k <= n => Good(k)}
<1>7. n \in I
  <2>1. 0 \in I
    <3>1. <<>> \in Seq(stored) /\ ToSet(<<>>) = {} /\ Len(<<>>) = 0 /\ s.queue \in Seq(stored)
      BY DEF ToSet, LoopState
    <3>2. s.queue \o <<>> = s.queue /\ Turns(0) = {} /\ Distinct(<<>>)
      BY <3>1 DEF Distinct
    <3>3. Queued(s, s, Turns(0), <<>>)
      BY <3>1, <3>2 DEF Queued
    <3>4. Good(0)
      BY <1>6, <3>3
    <3> HIDE DEF Good
    <3>. QED
      BY <3>4
  <2>2. ASSUME NEW k \in Nat, k \in I PROVE k + 1 \in I
    <3>0. SUFFICES ASSUME k + 1 <= n PROVE Good(k + 1)
      <4> HIDE DEF Good
      <4>. QED
        OBVIOUS
    <3>1. Good(k)
      <4> HIDE DEF Good
      <4>. QED
        BY <1>1, <2>2, <3>0
    <3>2. PICK P : after[k] \in LoopState /\ Queued(s, after[k], Turns(k), P)
      BY <3>1
    <3>3. k + 1 \in 1..n /\ ps[k + 1] \in Commit /\ after[k + 1] = Push(after[k], ps[k + 1])
      BY <1>1, <1>6, <3>0
    <3>4. Turns(k + 1) = Turns(k) \cup {ps[k + 1]}
      <4>1. 1..(k + 1) = (1..k) \cup {k + 1}
        OBVIOUS
      <4>. QED
        BY <4>1
    <3>5. Turns(k) \in SUBSET Commit
      BY <1>1, <3>0
    <3> DEFINE t == after[k]
               e == ps[k + 1]
               T == Turns(k)
    <3>6. t \in LoopState /\ Queued(s, t, T, P) /\ e \in Commit /\ T \in SUBSET Commit
      BY <3>2, <3>3, <3>5
    <3>7. after[k + 1] = Push(t, e) /\ Turns(k + 1) = T \cup {e}
      BY <3>3, <3>4
    <3> HIDE DEF t, e, T
    <3>8. Push(t, e) \in LoopState /\ \E PP : Queued(s, Push(t, e), T \cup {e}, PP)
      BY <3>6, PushStep
    <3> HIDE DEF Turns
    <3>. QED
      BY <3>7, <3>8
  <2> HIDE DEF I
  <2>. QED
    BY <1>1, <2>1, <2>2, NatSetInduction
<1>8. Turns(n) = ToSet(ps)
  BY ToSetIsElements DEF n
<1>9. Good(n)
  <2> HIDE DEF Good
  <2>. QED
    BY <1>1, <1>7
<1>. QED
  BY <1>2, <1>8, <1>9


-----------------------------------------------------------------------------
(***************************************************************************)
(* One nextObject that takes a commit c off the queue q, leaving rest, and *)
(* queues the parents P; failed when a parent could not be loaded.         *)
(***************************************************************************)
Turn(q, c, rest, P, failed) ==
  /\ Live /\ Live' /\ started'
  /\ q = IF started THEN nodeQueue ELSE FirstQueue
  /\ q \in Seq(stored) /\ q # <<>> /\ c = Take(q)[1] /\ rest = Take(q)[2]
  /\ c \in stored /\ c \in Commit /\ rest \in Seq(stored)
  /\ P \in Seq(stored) /\ Distinct(P) /\ nodeQueue' = rest \o P
  /\ visitedNodes \in SUBSET Commit /\ visitedNodes' \in SUBSET Commit
  /\ ToSet(P) \cap (visitedNodes \cup {c}) = {}
  /\ ToSet(P) \subseteq visitedNodes' /\ ToSet(P) \subseteq ToSet(parentShas[c])
  /\ visitedNodes \cup {c} \subseteq visitedNodes'
  /\ failed \in BOOLEAN /\ raised' = (raised \/ failed)
  /\ answers' = IF failed THEN answers ELSE Append(answers, c)
  /\ ~failed => /\ visitedNodes' = visitedNodes \cup {c} \cup ToSet(parentShas[c])
                /\ ToSet(P) = ToSet(parentShas[c]) \ (visitedNodes \cup {c})
  /\ starts' = (IF started THEN starts ELSE q)
  /\ UNCHANGED <<parentShas, stored, head, mode>>

\* Every parent list is a sequence of commits.
LEMMA NamedAreCommits ==
  ASSUME EnumeratorTypeOK, NEW c \in Commit
  PROVE  parentShas[c] \in Seq(Commit) /\ ToSet(parentShas[c]) \subseteq Commit
<1>1. parentShas[c] \in Seq(Commit)
  BY EnumeratorAssumption, HistoryAssumption DEF EnumeratorTypeOK
<1>. QED
  BY <1>1, ToSetIsElements

\* While the enumerator lives its collections are collections.
LEMMA LiveTypes ==
  ASSUME Base, Live
  PROVE  /\ nodeQueue \in Seq(stored) /\ visitedNodes \in SUBSET Commit
         /\ Given = answers /\ Pending = nodeQueue /\ stored \subseteq Commit
<1>1. stored \in Stores /\ nodeQueue \in Seq(stored) \cup {Nil} /\ visitedNodes \in (SUBSET Commit) \cup {Nil}
  BY DEF Base, EnumeratorTypeOK
<1>2. nodeQueue # Nil /\ visitedNodes # Nil
  BY DEF Base, Live
<1>3. stored \subseteq Commit
  BY <1>1, EnumeratorAssumption, HistoryAssumption
<1>. QED
  BY <1>1, <1>2, <1>3 DEF Live, Given, Pending

\* The start commits are as many as the bound allows, and one when the first
\* take found none.
LEMMA FirstQueueFacts ==
  ASSUME Base, ~started
  PROVE  /\ Live /\ FirstQueue \in Seq(stored) /\ FirstQueue # <<>>
         /\ answers = <<>> /\ visitedNodes = {} /\ starts = nodeQueue
<1>1. Live
  BY DEF Base
<1>2. nodeQueue \in Seq(stored) /\ head \in stored
  BY <1>1, LiveTypes DEF Base
<1>3. <<head>> \in Seq(stored) /\ <<head>> # <<>>
  BY <1>2
<1>. QED
  BY <1>1, <1>2, <1>3 DEF FirstQueue, Base

LEMMA NextCommitTurns ==
  ASSUME Base, NextCommit
  PROVE  \E q, c, rest, P, failed : Turn(q, c, rest, P, failed)
<1> DEFINE q == IF started THEN nodeQueue ELSE FirstQueue
           c == Take(q)[1]
           rest == Take(q)[2]
           s == [visited |-> visitedNodes \cup {c}, queue |-> rest, raised |-> FALSE]
           t == PushAll(s, parentShas[c])
<1>1. /\ nodeQueue' = t.queue /\ visitedNodes' = t.visited
      /\ answers' = IF t.raised THEN answers ELSE Append(answers, c)
      /\ raised' = (raised \/ t.raised)
      /\ starts' = IF started THEN starts ELSE FirstQueue
      /\ started' /\ UNCHANGED <<parentShas, stored, head, mode>>
  BY DEF NextCommit, repository
<1>2. Live /\ q \in Seq(stored) /\ q # <<>>
  <2>1. CASE started
    <3>1. Live /\ nodeQueue # <<>>
      BY <2>1 DEF NextCommit, Exhausted, Live
    <3>. QED
      BY <2>1, <3>1, LiveTypes
  <2>2. CASE ~started
    BY <2>2, FirstQueueFacts
  <2>. QED
    BY <2>1, <2>2
<1>3. visitedNodes \in SUBSET Commit /\ stored \subseteq Commit
  BY <1>2, LiveTypes
<1>4. starts' = IF started THEN starts ELSE q
  BY <1>1
<1> HIDE DEF q
<1>5. c \in stored /\ rest \in Seq(stored)
  BY <1>2, Taking
<1> HIDE DEF c, rest
<1>6. s \in LoopState /\ s.visited = visitedNodes \cup {c} /\ s.queue = rest
  BY <1>3, <1>5 DEF LoopState
<1>7. parentShas[c] \in Seq(Commit)
  BY <1>3, <1>5, NamedAreCommits DEF Base
<1> HIDE DEF s
<1>8. PICK P : t \in LoopState /\ Queued(s, t, ToSet(parentShas[c]), P)
  BY <1>3, <1>6, <1>7, PushAllQueues
<1> HIDE DEF t
<1>9. t.queue \in Seq(stored) /\ t.visited \in SUBSET Commit /\ t.raised \in BOOLEAN
  BY <1>8 DEF LoopState
<1>10. Live'
  <2>1. t.queue \in Seq(Commit)
    BY <1>3, <1>9, SeqMonotonic
  <2>. QED
    BY <1>1, <2>1, EnumeratorAssumption, HistoryAssumption DEF Live
<1>11. Turn(q, c, rest, P, t.raised)
  BY <1>1, <1>2, <1>3, <1>4, <1>5, <1>6, <1>8, <1>9, <1>10 DEF Turn, Queued, q, c, rest
<1>. QED
  BY <1>11


\* Appending and leaving out the last again.
LEMMA FrontAppend ==
  ASSUME NEW S, NEW s \in Seq(S), NEW e \in S
  PROVE  Front(Append(s, e)) = s /\ Last(Append(s, e)) = e /\ Append(s, e) # <<>>
<1> DEFINE t == Append(s, e)
<1>1. /\ t \in Seq(S) /\ Len(t) = Len(s) + 1 /\ Len(s) \in Nat
      /\ \A i \in 1..Len(s) : t[i] = s[i]
      /\ t[Len(s) + 1] = e
  BY AppendElements
<1> HIDE DEF t
<1>2. t # <<>>
  BY <1>1, EmptySeq
<1>3. /\ Front(t) \in Seq(S) /\ Len(Front(t)) = Len(t) - 1 /\ Last(t) = t[Len(t)]
      /\ \A i \in 1..(Len(t) - 1) : Front(t)[i] = t[i]
  BY <1>1, <1>2, FrontLast
<1>4. Front(t) = s
  BY <1>1, <1>3, SeqEqual
<1>. QED
  BY <1>1, <1>2, <1>3, <1>4 DEF t

\* What a turn does to the answers and the queue.
LEMMA TurnLists ==
  ASSUME Base, NEW q, NEW c, NEW rest, NEW P, NEW failed, Turn(q, c, rest, P, failed)
  PROVE  /\ Given = answers /\ Pending = nodeQueue /\ Given' = answers' /\ Pending' = rest \o P
         /\ Given \in Seq(stored) /\ Given' \in Seq(stored) /\ Pending' \in Seq(stored)
         /\ ToSet(Given') = ToSet(Given) \cup (IF failed THEN {} ELSE {c})
         /\ ToSet(Pending') = ToSet(rest) \cup ToSet(P)
         /\ ToSet(q) = {c} \cup ToSet(rest) /\ ToSet(q) \subseteq stored
         /\ stored \subseteq Commit
         /\ started => q = Pending
         /\ ~started => Given = <<>> /\ ToSet(Given) = {} /\ visitedNodes = {} /\ ~raised
<1>. USE DEF Turn
<1>1. /\ Given = answers /\ Pending = nodeQueue /\ stored \subseteq Commit /\ nodeQueue \in Seq(stored)
  BY LiveTypes
<1>2. Given' = answers' /\ Pending' = nodeQueue'
  BY DEF Given, Pending
<1>3. Given \in Seq(stored)
  BY DEF Base
<1>4. /\ Append(Given, c) \in Seq(stored) /\ ToSet(Append(Given, c)) = ToSet(Given) \cup {c}
  BY <1>3, AppendElements
<1>5. rest \o P \in Seq(stored) /\ ToSet(rest \o P) = ToSet(rest) \cup ToSet(P)
  BY ConcatElements
<1>6. ToSet(q) = {c} \cup ToSet(rest)
  BY Taking
<1>7. ToSet(q) \subseteq stored
  BY ToSetIsElements
<1>8. ~started => Given = <<>> /\ ToSet(<<>>) = {} /\ visitedNodes = {} /\ ~raised
  BY <1>1 DEF Base, ToSet
<1>. QED
  BY <1>1, <1>2, <1>3, <1>4, <1>5, <1>6, <1>7, <1>8

\* The end leaves the answers and the queue.
LEMMA NilFacts ==
  ASSUME Base, NextNil
  PROVE  /\ Given' = Given /\ Pending = <<>> /\ Pending' = <<>> /\ started /\ ~Live'
         /\ answers' = Append(Given, Nil)
         /\ nodeQueue' = Nil /\ visitedNodes' = Nil
         /\ UNCHANGED <<parentShas, stored, head, mode, started, starts, raised>>
<1>1. /\ started /\ (nodeQueue = Nil \/ nodeQueue = <<>>)
      /\ nodeQueue' = Nil /\ visitedNodes' = Nil
      /\ answers' = IF nodeQueue = Nil THEN answers ELSE Append(answers, Nil)
      /\ UNCHANGED <<parentShas, stored, head, mode, started, starts, raised>>
  BY DEF NextNil, Exhausted, repository
<1>2. answers' = Append(Given, Nil) /\ Pending = <<>>
  BY <1>1 DEF Base, Live, Given, Pending
<1>3. ~Live' /\ Pending' = <<>> /\ Given' = Front(answers')
  BY <1>1 DEF Live, Pending, Given
<1>4. Given \in Seq(stored \cup {Nil})
  BY SeqMonotonic DEF Base
<1>5. Front(Append(Given, Nil)) = Given
  BY <1>4, FrontAppend
<1>. QED
  BY <1>1, <1>2, <1>3, <1>5

\* Queueing a start commit.
LEMMA SetStartFacts ==
  ASSUME Base, NEW c \in stored, SetStartCommit(c)
  PROVE  /\ ~started /\ ~started' /\ Live /\ Live' /\ nodeQueue' = Append(nodeQueue, c)
         /\ starts' = nodeQueue' /\ nodeQueue' \in Seq(stored)
         /\ answers = <<>> /\ Given = <<>> /\ Given' = <<>> /\ Pending' = nodeQueue' /\ Pending = nodeQueue
         /\ UNCHANGED <<parentShas, stored, head, mode, visitedNodes, started, answers, raised>>
<1>1. /\ ~started /\ nodeQueue' = Append(nodeQueue, c) /\ starts' = Append(starts, c)
      /\ UNCHANGED <<parentShas, stored, head, mode, visitedNodes, started, answers, raised>>
  BY DEF SetStartCommit, repository
<1>2. Live /\ starts = nodeQueue /\ answers = <<>>
  BY <1>1 DEF Base
<1>3. nodeQueue \in Seq(stored) /\ stored \subseteq Commit
  BY <1>2, LiveTypes
<1>4. nodeQueue' \in Seq(stored)
  BY <1>1, <1>3, AppendProperties
<1>5. Live'
  <2>1. nodeQueue' \in Seq(Commit)
    BY <1>3, <1>4, SeqMonotonic
  <2>. QED
    BY <2>1, EnumeratorAssumption, HistoryAssumption DEF Live
<1>. QED
  BY <1>1, <1>2, <1>4, <1>5 DEF Given, Pending

-----------------------------------------------------------------------------
LEMMA BaseInit == EnumeratorInit => Base
<1>. SUFFICES ASSUME EnumeratorInit PROVE Base
  OBVIOUS
<1>1. /\ head \in stored /\ stored \subseteq Commit /\ head \in Commit
  BY EnumeratorAssumption, HistoryAssumption DEF EnumeratorInit
<1>2. <<>> \in Seq(stored) /\ <<head>> \in Seq(stored) /\ <<>> \in Seq(stored \cup {Nil})
  BY <1>1
<1>3. nodeQueue \in Seq(stored) /\ answers = <<>> /\ visitedNodes = {} /\ nodeQueue \in Seq(Commit)
  BY <1>1, <1>2, SeqMonotonic DEF EnumeratorInit
<1>4. Live /\ visitedNodes # Nil
  BY <1>3, EnumeratorAssumption, HistoryAssumption DEF Live
<1>5. EnumeratorTypeOK
  BY <1>1, <1>2, <1>3 DEF EnumeratorInit, EnumeratorTypeOK
<1>. QED
  BY <1>1, <1>2, <1>3, <1>4, <1>5 DEF EnumeratorInit, Base, Given

LEMMA BaseStep == Base /\ [EnumeratorNext]_enumeratorVars => Base'
<1>. SUFFICES ASSUME Base, [EnumeratorNext]_enumeratorVars PROVE Base'
  OBVIOUS
<1>1. ASSUME NEW c \in stored, SetStartCommit(c) PROVE Base'
  <2>1. EnumeratorTypeOK'
    BY <1>1, SetStartFacts DEF Base, EnumeratorTypeOK
  <2>2. <<>> \in Seq(stored)
    OBVIOUS
  <2>. QED
    BY <1>1, <2>1, <2>2, SetStartFacts DEF Base
<1>2. CASE NextCommit
  <2>1. PICK q, c, rest, P, failed : Turn(q, c, rest, P, failed)
    BY <1>2, NextCommitTurns
  <2>2. answers' \in Seq(stored \cup {Nil})
    BY <2>1, TurnLists, SeqMonotonic
  <2>3. starts' \in Seq(stored) /\ starts' # <<>>
    BY <2>1 DEF Turn, Base, EnumeratorTypeOK
  <2>4. nodeQueue' \in Seq(stored)
    BY <2>1, TurnLists DEF Turn, Pending
  <2>5. EnumeratorTypeOK'
    BY <2>1, <2>2, <2>3, <2>4 DEF Turn, Base, EnumeratorTypeOK
  <2>6. Given' \in Seq(stored)
    BY <2>1, TurnLists
  <2>7. visitedNodes' # Nil
    BY <2>1, EnumeratorAssumption, HistoryAssumption DEF Turn
  <2>. QED
    BY <2>1, <2>3, <2>5, <2>6, <2>7 DEF Turn, Base
<1>3. CASE NextNil
  <2>1. Given \in Seq(stored)
    BY DEF Base
  <2>2. answers' \in Seq(stored \cup {Nil})
    <3>1. Given \in Seq(stored \cup {Nil})
      BY <2>1, SeqMonotonic
    <3>. QED
      BY <1>3, <3>1, NilFacts, AppendProperties
  <2>3. EnumeratorTypeOK'
    BY <1>3, <2>2, NilFacts DEF Base, EnumeratorTypeOK
  <2>. QED
    BY <1>3, <2>1, <2>3, NilFacts DEF Base
<1>4. CASE UNCHANGED enumeratorVars
  BY <1>4 DEF enumeratorVars, repository, Base, EnumeratorTypeOK, Given, Live
<1>. QED
  BY <1>1, <1>2, <1>3, <1>4 DEF EnumeratorNext, NextObject

\* Nothing comes from anywhere but the starts and the parents.
LEMMA SoundStep == Base /\ Sound /\ [EnumeratorNext]_enumeratorVars => Sound'
<1>. SUFFICES ASSUME Base, Sound, [EnumeratorNext]_enumeratorVars PROVE Sound'
  OBVIOUS
<1>1. ASSUME NEW c \in stored, SetStartCommit(c) PROVE Sound'
  <2>1. Given' = <<>> /\ Pending' = starts' /\ ToSet(<<>>) = {}
    BY <1>1, SetStartFacts DEF ToSet
  <2>. QED
    BY <2>1 DEF Sound
<1>2. CASE NextCommit
  <2>1. PICK q, c, rest, P, failed : Turn(q, c, rest, P, failed)
    BY <1>2, NextCommitTurns
  <2>2. SUFFICES ASSUME NEW S \in SUBSET Commit, ToSet(starts') \subseteq S,
                        UNION {ToSet(parentShas[d]) : d \in S} \subseteq S
                 PROVE  ToSet(Given') \cup ToSet(Pending') \subseteq S
    BY <2>1 DEF Sound, Parents, Turn
  <2>3. ToSet(Given) \subseteq S /\ ToSet(q) \subseteq S
    <3>1. starts' = (IF started THEN starts ELSE q)
      BY <2>1 DEF Turn
    <3>2. CASE started
      <4>1. q = Pending
        BY <2>1, <3>2, TurnLists
      <4>. QED
        BY <2>2, <3>1, <3>2, <4>1 DEF Sound, Parents
    <3>3. CASE ~started
      <4>1. ToSet(Given) = {}
        BY <2>1, <3>3, TurnLists
      <4>. QED
        BY <2>2, <3>1, <3>3, <4>1
    <3>. QED
      BY <3>2, <3>3
  <2>4. c \in S
    BY <2>1, <2>3, TurnLists
  <2>5. ToSet(P) \subseteq S
    BY <2>1, <2>2, <2>4 DEF Turn
  <2>. QED
    BY <2>1, <2>3, <2>4, <2>5, TurnLists
<1>3. CASE NextNil
  <2>1. Given' = Given /\ Pending' = Pending /\ UNCHANGED <<parentShas, starts>>
    BY <1>3, NilFacts
  <2>. QED
    BY <2>1 DEF Sound, Parents
<1>4. CASE UNCHANGED enumeratorVars
  BY <1>4 DEF enumeratorVars, repository, Sound, Given, Pending, Live, Parents
<1>. QED
  BY <1>1, <1>2, <1>3, <1>4 DEF EnumeratorNext, NextObject

\* Until an exception, nothing is forgotten and the marks are exact.
LEMMA CompleteStep == Base /\ Complete /\ [EnumeratorNext]_enumeratorVars => Complete'
<1>. SUFFICES ASSUME Base, Complete, [EnumeratorNext]_enumeratorVars PROVE Complete'
  OBVIOUS
<1>1. ASSUME NEW c \in stored, SetStartCommit(c) PROVE Complete'
  BY <1>1, SetStartFacts DEF Complete
<1>2. CASE NextCommit
  <2>1. PICK q, c, rest, P, failed : Turn(q, c, rest, P, failed)
    BY <1>2, NextCommitTurns
  <2>2. SUFFICES ASSUME ~raised'
                 PROVE  /\ ToSet(Given') \cup ToSet(Pending') = ToSet(starts') \cup Parents(ToSet(Given))'
                        /\ visitedNodes' = ToSet(Given') \cup Parents(ToSet(Given))'
    BY DEF Complete
  <2>3. ~failed /\ ~raised /\ starts' = (IF started THEN starts ELSE q) /\ Live
    BY <2>1, <2>2 DEF Turn
  <2>4. /\ ToSet(Given) \cup ToSet(q) = ToSet(starts') \cup Parents(ToSet(Given))
        /\ visitedNodes = ToSet(Given) \cup Parents(ToSet(Given))
    <3>1. CASE started
      <4>1. q = Pending
        BY <2>1, <3>1, TurnLists
      <4>. QED
        BY <2>3, <3>1, <4>1 DEF Complete
    <3>2. CASE ~started
      <4>1. Parents({}) = {}
        BY DEF Parents
      <4>2. ToSet(Given) = {} /\ visitedNodes = {}
        BY <2>1, <3>2, TurnLists
      <4>. QED
        BY <2>3, <3>2, <4>1, <4>2
    <3>. QED
      BY <3>1, <3>2
  <2>5. Parents(ToSet(Given))' = Parents(ToSet(Given)) \cup ToSet(parentShas[c])
    <3>1. ToSet(Given') = ToSet(Given) \cup {c}
      BY <2>1, <2>3, TurnLists
    <3>2. parentShas' = parentShas
      BY <2>1 DEF Turn
    <3>. QED
      BY <3>1, <3>2 DEF Parents
  <2>6. /\ visitedNodes' = visitedNodes \cup {c} \cup ToSet(parentShas[c])
        /\ ToSet(P) = ToSet(parentShas[c]) \ (visitedNodes \cup {c})
    BY <2>1, <2>3 DEF Turn
  <2>7. /\ ToSet(Given') = ToSet(Given) \cup {c} /\ ToSet(Pending') = ToSet(rest) \cup ToSet(P)
        /\ ToSet(q) = {c} \cup ToSet(rest)
    BY <2>1, <2>3, TurnLists
  <2>. QED
    BY <2>4, <2>5, <2>6, <2>7
<1>3. CASE NextNil
  <2>1. Given' = Given /\ Pending' = Pending /\ ~Live' /\ UNCHANGED <<parentShas, starts, started, raised>>
    BY <1>3, NilFacts
  <2>. QED
    BY <2>1 DEF Complete, Parents
<1>4. CASE UNCHANGED enumeratorVars
  BY <1>4 DEF enumeratorVars, repository, Complete, Given, Pending, Live, Parents
<1>. QED
  BY <1>1, <1>2, <1>3, <1>4 DEF EnumeratorNext, NextObject


\* A parent is queued when it is marked, so that it comes once more at most.
LEMMA OnceStep == Base /\ Once /\ [EnumeratorNext]_enumeratorVars => Once'
<1>. SUFFICES ASSUME Base, Once, [EnumeratorNext]_enumeratorVars PROVE Once'
  OBVIOUS
<1>1. ASSUME NEW c \in stored, SetStartCommit(c) PROVE Once'
  BY <1>1, SetStartFacts DEF Once
<1>2. CASE NextCommit
  <2>1. PICK q, c, rest, P, failed : Turn(q, c, rest, P, failed)
    BY <1>2, NextCommitTurns
  <2>. SUFFICES ASSUME NEW x \in Commit
                PROVE  /\ Comes(x)' <= Most(x)'
                       /\ x \notin visitedNodes' => Comes(x)' <= Unmarked(x)'
    BY DEF Once
  <2>2. /\ Given \in Seq(stored) /\ rest \in Seq(stored) /\ q \in Seq(stored) /\ q # <<>>
        /\ P \in Seq(stored) /\ c \in stored /\ c = Take(q)[1] /\ rest = Take(q)[2]
        /\ Given = answers /\ Given' = answers' /\ Pending' = rest \o P /\ Distinct(P)
        /\ failed \in BOOLEAN /\ answers' = IF failed THEN answers ELSE Append(answers, c)
    <3>1. /\ Given \in Seq(stored) /\ Given = answers /\ Given' = answers' /\ Pending' = rest \o P
      BY <2>1, TurnLists
    <3>2. /\ rest \in Seq(stored) /\ q \in Seq(stored) /\ q # <<>>
          /\ P \in Seq(stored) /\ c \in stored /\ c = Take(q)[1] /\ rest = Take(q)[2]
          /\ Distinct(P) /\ failed \in BOOLEAN
          /\ answers' = IF failed THEN answers ELSE Append(answers, c)
      BY <2>1 DEF Turn
    <3>. QED
      BY <3>1, <3>2
  <2> DEFINE g == Occurrences(Given, x)
             r == Occurrences(rest, x)
             k == Occurrences(q, x)
  <2>3. g \in Nat /\ r \in Nat /\ k \in Nat
    BY <2>2, OccurrencesNat
  <2>4. k = r + (IF x = c THEN 1 ELSE 0) /\ Len(rest) = Len(q) - 1 /\ Len(q) \in Nat
    BY <2>2, Taking
  <2>5. Occurrences(Given', x) = g + (IF ~failed /\ x = c THEN 1 ELSE 0)
    BY <2>2, <2>3, OccurrencesAppend
  <2>6. Occurrences(Pending', x) = r + (IF x \in ToSet(P) THEN 1 ELSE 0)
    BY <2>2, OccurrencesConcat, OccurrencesDistinct
  <2>7. Comes(x)' = Occurrences(Given', x) + Occurrences(Pending', x)
    BY DEF Comes
  <2> HIDE DEF g, r, k
  <2>8. /\ Comes(x)' \in Nat
        /\ Comes(x)' <= g + k + (IF x \in ToSet(P) THEN 1 ELSE 0)
    BY <2>3, <2>4, <2>5, <2>6, <2>7
  <2>9. /\ x \in ToSet(P) => x \notin visitedNodes /\ x # c /\ x \in visitedNodes'
        /\ x \in visitedNodes \/ x = c => x \in visitedNodes'
    BY <2>1 DEF Turn
  <2>10. starts' = (IF started THEN starts ELSE q) /\ Live
    BY <2>1 DEF Turn
  <2>11. CASE started
    <3>1. Comes(x) = g + k /\ Most(x)' = Most(x) /\ Unmarked(x)' = Unmarked(x)
      <4>1. q = Pending
        BY <2>1, <2>11, TurnLists
      <4>. QED
        BY <2>10, <2>11, <4>1 DEF Comes, Most, Unmarked, g, k
    <3>2. Occurrences(starts, x) \in Nat
      BY OccurrencesNat DEF Base, EnumeratorTypeOK
    <3>3. Most(x) = Unmarked(x) + 1 /\ Unmarked(x) \in Nat
      BY <3>2 DEF Most, Unmarked
    <3>4. g + k <= Most(x) /\ (x \notin visitedNodes => g + k <= Unmarked(x))
      BY <2>10, <2>11, <3>1 DEF Once
    <3>. QED
      BY <2>3, <2>8, <2>9, <3>1, <3>3, <3>4
  <2>12. CASE ~started
    <3>1. g = 0 /\ x \notin visitedNodes
      <4>1. Given = <<>> /\ ToSet(Given) = {} /\ visitedNodes = {}
        BY <2>1, <2>12, TurnLists
      <4>. QED
        BY <2>2, <4>1, OccurrencesNat DEF g
    <3>2. /\ Most(x)' = IF Len(q) = 1 THEN 1 ELSE k + 1
          /\ Unmarked(x)' = IF Len(q) = 1 THEN 0 ELSE k
      BY <2>10, <2>12 DEF Most, Unmarked, k
    <3>3. CASE Len(q) = 1
      <4>1. r = 0
        <5>1. Len(rest) = 0
          BY <2>4, <3>3
        <5>2. rest = <<>>
          BY <2>2, <5>1, EmptySeq
        <5>3. x \notin ToSet(rest)
          BY <2>2, <5>1, ToSetIsElements
        <5>. QED
          BY <2>2, <5>3, OccurrencesNat DEF r
      <4>. QED
        BY <2>3, <2>4, <2>8, <2>9, <3>1, <3>2, <3>3, <4>1
    <3>4. CASE Len(q) # 1
      BY <2>3, <2>8, <2>9, <3>1, <3>2, <3>4
    <3>. QED
      BY <3>3, <3>4
  <2>. QED
    BY <2>11, <2>12
<1>3. CASE NextNil
  <2>1. Given' = Given /\ Pending' = Pending /\ ~Live' /\ UNCHANGED <<starts, started>>
    BY <1>3, NilFacts
  <2>. QED
    BY <2>1 DEF Once, Comes, Most
<1>4. CASE UNCHANGED enumeratorVars
  BY <1>4 DEF enumeratorVars, repository, Once, Comes, Most, Unmarked, Given, Pending, Live
<1>. QED
  BY <1>1, <1>2, <1>3, <1>4 DEF EnumeratorNext, NextObject

-----------------------------------------------------------------------------
\* Before a turn nothing has raised, the marked commits are those answered
\* and those they name, and everything that comes is a start or is named.
LEMMA TurnMarks ==
  ASSUME Base, Complete, ~raised,
         NEW q, NEW c, NEW rest, NEW P, NEW failed, Turn(q, c, rest, P, failed)
  PROVE  /\ visitedNodes = ToSet(Given) \cup Parents(ToSet(Given))
         /\ ToSet(Given) \cup ToSet(q) = ToSet(starts') \cup Parents(ToSet(Given))
<1>1. starts' = (IF started THEN starts ELSE q) /\ Live
  BY DEF Turn
<1>2. CASE started
  BY <1>1, <1>2, TurnLists DEF Complete
<1>3. CASE ~started
  <2>1. ToSet(Given) = {} /\ visitedNodes = {} /\ Parents({}) = {}
    BY <1>3, TurnLists DEF Parents
  <2>. QED
    BY <1>1, <1>3, <2>1
<1>. QED
  BY <1>2, <1>3

\* The last of two sequences one after the other.
LEMMA LastConcat ==
  ASSUME NEW S, NEW s \in Seq(S), NEW t \in Seq(S), t # <<>>
  PROVE  s \o t # <<>> /\ Last(s \o t) \in ToSet(t)
<1> DEFINE u == s \o t
<1>1. /\ u \in Seq(S) /\ Len(u) = Len(s) + Len(t) /\ Len(s) \in Nat /\ Len(t) \in Nat
      /\ \A i \in 1..(Len(s) + Len(t)) : u[i] = IF i <= Len(s) THEN s[i] ELSE t[i - Len(s)]
  BY ConcatProperties, LenProperties
<1>2. Len(t) # 0
  BY EmptySeq
<1> HIDE DEF u
<1>3. u # <<>> /\ Last(u) = u[Len(u)]
  <2>1. u \in Seq(S) /\ Len(u) # 0
    BY <1>1, <1>2
  <2>2. u # <<>>
    BY <2>1, EmptySeq
  <2>. QED
    BY <2>1, <2>2, FrontLast
<1>4. u[Len(u)] = t[Len(t)] /\ Len(t) \in 1..Len(t)
  BY <1>1, <1>2
<1>5. t[Len(t)] \in ToSet(t)
  BY <1>4, ToSetIsElements
<1>. QED
  BY <1>3, <1>4, <1>5 DEF u

LEMMA DescendsStep == Base /\ Complete /\ Descends /\ [EnumeratorNext]_enumeratorVars => Descends'
<1>. SUFFICES ASSUME Base, Complete, Descends, [EnumeratorNext]_enumeratorVars PROVE Descends'
  OBVIOUS
<1>1. ASSUME NEW c \in stored, SetStartCommit(c) PROVE Descends'
  BY <1>1, SetStartFacts DEF Descends
<1>2. CASE NextCommit
  <2>1. PICK q, c, rest, P, failed : Turn(q, c, rest, P, failed)
    BY <1>2, NextCommitTurns
  <2>2. SUFFICES ASSUME ~raised', Unseen' # {}
                 PROVE  nodeQueue' # <<>> /\ Last(nodeQueue') \in Unseen'
    BY DEF Descends
  <2>3. /\ ~failed /\ ~raised /\ answers' = Append(answers, c) /\ c \in stored
        /\ parentShas' = parentShas /\ ToSet(P) = ToSet(parentShas[c]) \ (visitedNodes \cup {c})
        /\ P \in Seq(stored) /\ rest \in Seq(stored) /\ nodeQueue' = rest \o P
    BY <2>1, <2>2 DEF Turn
  <2>4. answers \in Seq(stored) /\ Given = answers /\ stored \subseteq Commit
    BY <2>1, TurnLists
  <2>5. Last(answers') = c /\ Front(answers') = answers /\ ToSet(answers') = ToSet(answers) \cup {c}
    BY <2>3, <2>4, FrontAppend, AppendElements
  <2>6. Nil \notin ToSet(answers')
    <3>1. ToSet(answers) \subseteq stored
      BY <2>4, ToSetIsElements
    <3>. QED
      BY <2>3, <2>4, <2>5, <3>1, EnumeratorAssumption, HistoryAssumption
  <2>7. visitedNodes = ToSet(answers) \cup Parents(ToSet(answers))
    BY <2>1, <2>3, <2>4, TurnMarks
  <2>8. Unseen' = ToSet(P)
    <3>1. Unseen' = ToSet(parentShas[c]) \ (Parents(ToSet(answers)) \cup (ToSet(answers') \ {Nil}))
      BY <2>3, <2>5 DEF Unseen, Parents, Answered
    <3>. QED
      BY <2>3, <2>5, <2>6, <2>7, <3>1
  <2>9. P # <<>>
    BY <2>2, <2>8 DEF ToSet
  <2>. QED
    BY <2>3, <2>8, <2>9, LastConcat
<1>3. CASE NextNil
  BY <1>3, NilFacts DEF Descends
<1>4. CASE UNCHANGED enumeratorVars
  BY <1>4 DEF enumeratorVars, repository, Descends, Live, Unseen, Parents, Answered
<1>. QED
  BY <1>1, <1>2, <1>3, <1>4 DEF EnumeratorNext, NextObject

-----------------------------------------------------------------------------
(***************************************************************************)
(* The commits at or above others, generation by generation.               *)
(***************************************************************************)
NextAncestors(T, parents) == UNION {ToSet(parents[c]) : c \in T}

\* The equation of Ancestry, by recursion over the generations.
LEMMA AncestryUnfolds ==
  ASSUME NEW S \in SUBSET Commit, NEW parents \in [Commit -> Seq(Commit)]
  PROVE  /\ N \in Nat /\ Ancestry(S, parents)[0] = S
         /\ \A k \in 1..N : Ancestry(S, parents)[k] =
              Ancestry(S, parents)[k - 1] \cup NextAncestors(Ancestry(S, parents)[k - 1], parents)
         /\ \A k \in 0..N : Ancestry(S, parents)[k] \in SUBSET Commit
<1> DEFINE Unfolds(f) == f = [k \in 0..Cardinality(Commit) |->
                                IF k = 0 THEN S ELSE f[k - 1] \cup UNION {ToSet(parents[c]) : c \in f[k - 1]}]
           above == CHOOSE f : Unfolds(f)
<1>1. N \in Nat
  BY FS_CardinalityType, EnumeratorAssumption, HistoryAssumption DEF N
<1>2. Ancestry(S, parents) = above
  BY DEF Ancestry
<1>3. \A T \in SUBSET Commit : NextAncestors(T, parents) \in SUBSET Commit
  <2>1. \A c \in Commit : ToSet(parents[c]) \subseteq Commit
    BY ToSetIsElements
  <2>. QED
    BY <2>1 DEF NextAncestors
<1>4. PICK f : /\ f \in [0..N -> SUBSET Commit] /\ f[0] = S
               /\ \A k \in 1..N : f[k] = f[k - 1] \cup NextAncestors(f[k - 1], parents)
  <2> DEFINE h == [x \in (1..N) \X SUBSET Commit |-> x[2] \cup NextAncestors(x[2], parents)]
  <2>1. h \in [(1..N) \X SUBSET Commit -> SUBSET Commit]
    BY <1>3
  <2>2. \A k \in 1..N, T \in SUBSET Commit : h[<<k, T>>] = T \cup NextAncestors(T, parents)
    OBVIOUS
  <2> HIDE DEF h
  <2>3. PICK f : Recurs(f, N, SUBSET Commit, S, h)
    BY <1>1, <2>1, PrimitiveRecursion
  <2>4. f \in [0..N -> SUBSET Commit] /\ f[0] = S /\ \A k \in 1..N : f[k] = h[<<k, f[k - 1]>>]
    BY <2>3 DEF Recurs
  <2>5. ASSUME NEW k \in 1..N PROVE f[k] = f[k - 1] \cup NextAncestors(f[k - 1], parents)
    <3>1. k - 1 \in 0..N
      BY <1>1
    <3>2. f[k - 1] \in SUBSET Commit
      BY <2>4, <3>1
    <3>. QED
      BY <2>2, <2>4, <3>2
  <2>. QED
    BY <2>4, <2>5
<1>5. Unfolds(f)
  <2>1. \A k \in 0..N : f[k] = IF k = 0 THEN S ELSE f[k - 1] \cup UNION {ToSet(parents[c]) : c \in f[k - 1]}
    BY <1>1, <1>4 DEF NextAncestors
  <2>. QED
    BY <1>4, <2>1 DEF N
<1>6. Unfolds(above)
  <2> HIDE DEF Unfolds
  <2>. QED
    BY <1>5
<1> HIDE DEF above
<1>7. /\ above[0] = S
      /\ \A k \in 1..N : above[k] = above[k - 1] \cup NextAncestors(above[k - 1], parents)
  <2>1. above = [k \in 0..N |-> IF k = 0 THEN S ELSE above[k - 1] \cup UNION {ToSet(parents[c]) : c \in above[k - 1]}]
    BY <1>6 DEF N
  <2>2. \A k \in 0..N : above[k] = IF k = 0 THEN S ELSE above[k - 1] \cup UNION {ToSet(parents[c]) : c \in above[k - 1]}
    BY <2>1
  <2>3. 0 \in 0..N /\ \A k \in 1..N : k \in 0..N /\ k # 0
    BY <1>1
  <2>. QED
    BY <2>2, <2>3 DEF NextAncestors
<1> DEFINE I == {k \in Nat : k <= N => above[k] \in SUBSET Commit}
<1>8. Nat \subseteq I
  <2>1. 0 \in I
    BY <1>7
  <2>2. ASSUME NEW k \in Nat, k \in I PROVE k + 1 \in I
    <3>. SUFFICES ASSUME k + 1 <= N PROVE above[k + 1] \in SUBSET Commit
      OBVIOUS
    <3>1. k + 1 \in 1..N /\ (k + 1) - 1 = k /\ above[k] \in SUBSET Commit
      BY <1>1, <2>2
    <3>. QED
      BY <1>3, <1>7, <3>1
  <2> HIDE DEF I
  <2>. QED
    BY <2>1, <2>2, NatSetInduction
<1>9. \A k \in 0..N : above[k] \in SUBSET Commit
  BY <1>1, <1>8
<1>. QED
  BY <1>1, <1>2, <1>7, <1>9

\* The generations grow, and the last is closed.
LEMMA AncestryClosed ==
  ASSUME NEW S \in SUBSET Commit, NEW parents \in [Commit -> Seq(Commit)],
         NEW V, V = Ancestry(S, parents)
  PROVE  /\ \A k, l \in 0..N : k <= l => V[k] \subseteq V[l]
         /\ NextAncestors(V[N], parents) \subseteq V[N]
<1>1. /\ N \in Nat /\ V[0] = S
      /\ \A k \in 1..N : V[k] = V[k - 1] \cup NextAncestors(V[k - 1], parents)
      /\ \A k \in 0..N : V[k] \in SUBSET Commit
  <2>1. /\ N \in Nat /\ Ancestry(S, parents)[0] = S
        /\ \A k \in 1..N : Ancestry(S, parents)[k] =
             Ancestry(S, parents)[k - 1] \cup NextAncestors(Ancestry(S, parents)[k - 1], parents)
        /\ \A k \in 0..N : Ancestry(S, parents)[k] \in SUBSET Commit
    BY AncestryUnfolds
  <2>. QED
    BY <2>1
<1>2. ASSUME NEW k \in Nat, k + 1 <= N
      PROVE  /\ V[k + 1] = V[k] \cup NextAncestors(V[k], parents)
             /\ k \in 0..N /\ k + 1 \in 0..N
  <2>1. k + 1 \in 1..N /\ (k + 1) - 1 = k /\ k \in 0..N /\ k + 1 \in 0..N
    BY <1>1, <1>2
  <2>. QED
    BY <1>1, <2>1
<1> DEFINE G == [T \in SUBSET Commit |-> NextAncestors(T, parents)]
<1>3. G \in [SUBSET Commit -> SUBSET Commit]
  <2>1. \A c \in Commit : ToSet(parents[c]) \subseteq Commit
    BY ToSetIsElements
  <2>2. \A T \in SUBSET Commit : NextAncestors(T, parents) \in SUBSET Commit
    BY <2>1 DEF NextAncestors
  <2>. QED
    BY <2>2
<1>4. \A T \in SUBSET Commit : G[T] = NextAncestors(T, parents)
  OBVIOUS
<1> HIDE DEF G
<1>5. Levels(Commit, V, N, S, G)
  <2>1. ASSUME NEW k \in Nat, k + 1 <= N PROVE V[k + 1] = V[k] \cup G[V[k]]
    <3>1. V[k + 1] = V[k] \cup NextAncestors(V[k], parents) /\ V[k] \in SUBSET Commit
      BY <1>1, <1>2, <2>1
    <3>. QED
      BY <1>4, <3>1
  <2>. QED
    BY <1>1, <1>3, <2>1 DEF Levels
<1>6. IsFiniteSet(Commit) /\ Cardinality(Commit) <= N /\ N \in Nat
  BY <1>1, EnumeratorAssumption, HistoryAssumption DEF N
<1>7. \A k, l \in 0..N : k <= l => V[k] \subseteq V[l]
  BY <1>3, <1>5, <1>6, LevelsGrow
<1>8. V[N] \in SUBSET Commit /\ G[V[N]] \subseteq V[N]
  BY <1>3, <1>5, <1>6, LevelsClose
<1>. QED
  BY <1>4, <1>7, <1>8

\* V is the generations of S, one at a time.
Generations(S, parents, V) ==
  /\ N \in Nat /\ V[0] = S /\ \A k \in 0..N : V[k] \in SUBSET Commit
  /\ \A k \in Nat : k + 1 <= N => V[k + 1] = V[k] \cup NextAncestors(V[k], parents)

LEMMA AncestryFacts ==
  ASSUME NEW S \in SUBSET Commit, NEW parents \in [Commit -> Seq(Commit)],
         NEW V, V = Ancestry(S, parents)
  PROVE  Generations(S, parents, V)
<1>1. /\ N \in Nat /\ Ancestry(S, parents)[0] = S
      /\ \A k \in 1..N : Ancestry(S, parents)[k] =
           Ancestry(S, parents)[k - 1] \cup NextAncestors(Ancestry(S, parents)[k - 1], parents)
      /\ \A k \in 0..N : Ancestry(S, parents)[k] \in SUBSET Commit
  BY AncestryUnfolds
<1>2. \A k \in 1..N : V[k] = V[k - 1] \cup NextAncestors(V[k - 1], parents)
  BY <1>1
<1>3. ASSUME NEW k \in Nat, k + 1 <= N
      PROVE  V[k + 1] = V[k] \cup NextAncestors(V[k], parents)
  <2>1. k + 1 \in 1..N /\ (k + 1) - 1 = k
    BY <1>1, <1>3
  <2>. QED
    BY <1>2, <2>1
<1>. QED
  BY <1>1, <1>3 DEF Generations

\* The walk W is in order, and has G and then c in front; P are new parents of c.
Queueing(S, parents, V, G, W, c, P) ==
  /\ Len(G) + 1 <= Len(W) /\ W[Len(G) + 1] = c /\ \A i \in 1..Len(G) : W[i] = G[i]
  /\ ToSet(W) = S \cup NextAncestors(ToSet(G), parents)
  /\ ToSet(P) \subseteq ToSet(parents[c])
  /\ ToSet(P) \cap (ToSet(G) \cup NextAncestors(ToSet(G), parents)) = {}
  /\ \A j \in 1..Len(W) : Orderly(V, W, j)

\* The walk stays in order when P is queued at its end.  A new parent of generation k that is no start has c
\* in generation k - 1: were c later, everything up to generation k - 1 would have
\* been answered before it, and the parent queued.  And what is queued names
\* nothing of a later generation than c does.
LEMMA QueueingInOrder ==
  ASSUME NEW S \in SUBSET Commit, NEW parents \in [Commit -> Seq(Commit)],
         NEW V, V = Ancestry(S, parents),
         NEW G \in Seq(Commit), NEW W \in Seq(Commit), NEW P \in Seq(Commit), NEW c \in Commit,
         Queueing(S, parents, V, G, W, c, P)
  PROVE  \A j \in 1..Len(W \o P) : Orderly(V, W \o P, j)
<1> DEFINE n == Len(G)
           m == Len(W)
           U == W \o P
<1>1. /\ n \in Nat /\ m \in Nat /\ Len(P) \in Nat /\ n + 1 \in 1..m
      /\ U \in Seq(Commit) /\ Len(U) = m + Len(P)
      /\ \A i \in 1..m : U[i] = W[i] /\ W[i] \in ToSet(W) /\ W[i] \in Commit
      /\ \A i \in (m + 1)..(m + Len(P)) : U[i] \in ToSet(P) /\ U[i] \in Commit
  <2>1. n \in Nat /\ m \in Nat /\ Len(P) \in Nat
    BY LenProperties
  <2>2. /\ U \in Seq(Commit) /\ Len(U) = m + Len(P)
        /\ \A i \in 1..(m + Len(P)) : U[i] = IF i <= m THEN W[i] ELSE P[i - m]
    BY ConcatProperties
  <2>3. \A i \in 1..m : W[i] \in ToSet(W) /\ W[i] \in Commit
    BY ToSetIsElements
  <2>4. \A i \in 1..Len(P) : P[i] \in ToSet(P) /\ P[i] \in Commit
    BY ToSetIsElements
  <2> HIDE DEF n, m, U
  <2>5. ASSUME NEW i \in (m + 1)..(m + Len(P)) PROVE U[i] \in ToSet(P) /\ U[i] \in Commit
    <3>1. i - m \in 1..Len(P) /\ U[i] = P[i - m]
      BY <2>1, <2>2
    <3>. QED
      BY <2>4, <3>1
  <2>6. \A i \in 1..m : U[i] = W[i]
    BY <2>1, <2>2
  <2>7. n + 1 \in 1..m
    BY <2>1 DEF n, m, Queueing
  <2>. QED
    BY <2>1, <2>2, <2>3, <2>5, <2>6, <2>7
<1>2. /\ N \in Nat /\ V[0] = S /\ \A k \in 0..N : V[k] \in SUBSET Commit
      /\ \A k \in Nat : k + 1 <= N => V[k + 1] = V[k] \cup NextAncestors(V[k], parents)
  <2>1. Generations(S, parents, V)
    BY AncestryFacts
  <2>. QED
    BY <2>1 DEF Generations
<1>3. \A k, l \in 0..N : k <= l => V[k] \subseteq V[l]
  BY AncestryClosed
<1>4. \A x : x \in ToSet(W) <=> \E i \in 1..m : W[i] = x
  BY ToSetIsElements
<1>5. \A x : x \in ToSet(G) <=> \E i \in 1..n : W[i] = x
  <2>1. \A x : x \in ToSet(G) <=> \E i \in 1..n : G[i] = x
    BY ToSetIsElements
  <2>2. \A i \in 1..n : W[i] = G[i]
    BY DEF Queueing
  <2>. QED
    BY <2>1, <2>2
<1>6. /\ W[n + 1] = c /\ \A j \in 1..m : Orderly(V, W, j)
      /\ ToSet(W) = S \cup NextAncestors(ToSet(G), parents)
      /\ ToSet(P) \subseteq ToSet(parents[c])
      /\ ToSet(P) \cap (ToSet(G) \cup NextAncestors(ToSet(G), parents)) = {}
  BY DEF Queueing
<1> HIDE DEF n, m
<1>7. \A T, Z : T \subseteq Z => NextAncestors(T, parents) \subseteq NextAncestors(Z, parents)
  BY DEF NextAncestors
\* What is of an earlier generation than c has been answered before it.
<1>8. ASSUME NEW x \in ToSet(W), NEW k \in 0..N, x \in V[k], c \notin V[k] PROVE x \in ToSet(G)
  <2> DEFINE I == {i \in 1..m : W[i] = x}
  <2>1. I \in SUBSET Nat /\ I # {}
    <3>1. \E i \in 1..m : W[i] = x
      BY <1>4, <1>8
    <3>2. I # {}
      BY <3>1
    <3>. QED
      BY <3>2
  <2>2. PICK i \in I : \A l \in I : i <= l
    BY <2>1, LeastElement
  <2>3. i \in 1..m /\ W[i] = x /\ ~\E l \in 1..(i - 1) : W[l] = W[i]
    BY <1>1, <2>2
  <2>4. \A l \in 1..i : \A g \in 0..N : W[i] \in V[g] => W[l] \in V[g]
    BY <1>6, <2>3 DEF Orderly
  <2>5. n + 1 \notin 1..i
    BY <1>6, <1>8, <2>3, <2>4
  <2>6. i \in 1..n
    BY <1>1, <2>3, <2>5
  <2>. QED
    BY <1>5, <2>3, <2>6
\* A new commit that was not there is one generation above c at least.
<1>9. ASSUME NEW p \in ToSet(P), p \notin ToSet(W), NEW k \in 0..N, p \in V[k]
      PROVE  k - 1 \in 0..N /\ c \in V[k - 1]
  <2>1. p \notin S /\ k # 0
    BY <1>2, <1>6, <1>9
  <2>2. k - 1 \in 0..N /\ k - 1 \in Nat /\ (k - 1) + 1 = k
    BY <1>2, <2>1
  <2>. SUFFICES ASSUME c \notin V[k - 1] PROVE FALSE
    BY <2>2
  <2> DEFINE I == {l \in Nat : l <= k - 1 => V[l] \subseteq ToSet(G)}
  <2>3. ASSUME NEW l \in Nat, l <= k - 1, V[l] \subseteq ToSet(W) PROVE V[l] \subseteq ToSet(G)
    <3>1. l \in 0..N /\ c \notin V[l]
      BY <1>2, <1>3, <2>2, <2>3
    <3>. QED
      BY <1>8, <2>3, <3>1
  <2>4. 0 \in I
    <3>1. V[0] \subseteq ToSet(W)
      BY <1>2, <1>6
    <3>. QED
      BY <2>2, <2>3, <3>1
  <2>5. ASSUME NEW l \in Nat, l \in I PROVE l + 1 \in I
    <3>. SUFFICES ASSUME l + 1 <= k - 1 PROVE V[l + 1] \subseteq ToSet(G)
      OBVIOUS
    <3>1. V[l] \subseteq ToSet(G)
      BY <2>2, <2>5
    <3>2. V[l + 1] = V[l] \cup NextAncestors(V[l], parents)
      BY <1>2, <2>2
    <3>3. ToSet(G) \subseteq ToSet(W)
      BY <1>1, <1>4, <1>5
    <3>4. V[l + 1] \subseteq ToSet(W)
      <4>1. NextAncestors(V[l], parents) \subseteq NextAncestors(ToSet(G), parents)
        BY <1>7, <3>1
      <4>. QED
        BY <1>6, <3>1, <3>2, <3>3, <4>1
    <3>5. l + 1 \in Nat
      OBVIOUS
    <3>. QED
      BY <2>3, <3>4, <3>5
  <2>6. V[k - 1] \subseteq ToSet(G)
    <3> HIDE DEF I
    <3>1. k - 1 \in I
      BY <2>2, <2>4, <2>5, NatSetInduction
    <3>. QED
      BY <2>2, <3>1 DEF I
  <2>7. V[k] = V[k - 1] \cup NextAncestors(V[k - 1], parents)
    <3>1. (k - 1) + 1 <= N
      BY <1>2, <2>2
    <3>. QED
      BY <1>2, <2>2, <3>1
  <2>8. NextAncestors(V[k - 1], parents) \subseteq NextAncestors(ToSet(G), parents)
    BY <1>7, <2>6
  <2>. QED
    BY <1>6, <1>9, <2>6, <2>7, <2>8
\* Then nothing that is there is of a later generation.
<1>10. ASSUME NEW p \in ToSet(P), p \notin ToSet(W), NEW k \in 0..N, p \in V[k]
       PROVE  ToSet(W) \cup ToSet(P) \subseteq V[k]
  <2>1. k - 1 \in 0..N /\ c \in V[k - 1] /\ k - 1 \in Nat /\ (k - 1) + 1 = k /\ k <= N
    BY <1>2, <1>9, <1>10
  <2>2. V[k] = V[k - 1] \cup NextAncestors(V[k - 1], parents) /\ S \subseteq V[k]
    <3>1. 0 \in 0..N /\ 0 <= k
      BY <1>2
    <3>. QED
      BY <1>2, <1>3, <2>1, <3>1
  <2>3. ToSet(parents[c]) \subseteq V[k]
    BY <2>1, <2>2 DEF NextAncestors
  <2>4. c \notin ToSet(G)
    BY <1>6, <1>10 DEF NextAncestors
  <2>5. ToSet(G) \subseteq V[k - 1]
    <3>1. Orderly(V, W, n + 1)
      BY <1>1, <1>6
    <3>2. ~\E l \in 1..((n + 1) - 1) : W[l] = W[n + 1]
      BY <1>1, <1>5, <1>6, <2>4
    <3>3. \A i \in 1..(n + 1) : W[i] \in V[k - 1]
      BY <1>6, <2>1, <3>1, <3>2 DEF Orderly
    <3>4. \A i \in 1..n : i \in 1..(n + 1)
      BY <1>1
    <3>5. ASSUME NEW x \in ToSet(G) PROVE x \in V[k - 1]
      <4>1. PICK i \in 1..n : W[i] = x
        BY <1>5
      <4>. QED
        BY <3>3, <3>4, <4>1
    <3>. QED
      BY <3>5
  <2>6. NextAncestors(ToSet(G), parents) \subseteq NextAncestors(V[k - 1], parents)
    BY <1>7, <2>5
  <2>. QED
    BY <1>6, <2>2, <2>3, <2>6
<1>11. ASSUME NEW j \in 1..Len(U) PROVE Orderly(V, U, j)
  <2>1. CASE j <= m
    <3>1. Orderly(V, W, j) /\ \A i \in 1..j : U[i] = W[i]
      BY <1>1, <1>6, <2>1
    <3>2. \A l \in 1..(j - 1) : l \in 1..j
      BY <1>1
    <3>3. j \in 1..j
      BY <1>1
    <3> HIDE DEF U
    <3>. QED
      BY <3>1, <3>2, <3>3 DEF Orderly
  <2>2. CASE m < j
    <3>1. U[j] \in ToSet(P) /\ j \in (m + 1)..(m + Len(P))
      BY <1>1, <2>2
    <3>2. CASE U[j] \in ToSet(W)
      <4>1. PICK l \in 1..m : W[l] = U[j]
        BY <1>4, <3>2
      <4>2. l \in 1..(j - 1) /\ U[l] = U[j]
        BY <1>1, <2>2, <4>1
      <4>. QED
        BY <4>2 DEF Orderly
    <3>3. CASE U[j] \notin ToSet(W)
      <4>1. \A i \in 1..j : U[i] \in ToSet(W) \cup ToSet(P)
        BY <1>1
      <4> HIDE DEF U
      <4>2. \A k \in 0..N : U[j] \in V[k] => ToSet(W) \cup ToSet(P) \subseteq V[k]
        BY <1>10, <3>1, <3>3
      <4>. QED
        BY <4>1, <4>2 DEF Orderly
    <3>. QED
      BY <3>2, <3>3
  <2>. QED
    BY <1>1, <2>1, <2>2
<1>. QED
  BY <1>11

-----------------------------------------------------------------------------
\* Where the walk stands at a turn that raises nothing: what was answered, the
\* commit that is taken, the rest, and then its new parents.
LEMMA TurnWalks ==
  ASSUME Base, mode = "BFS",
         NEW q, NEW c, NEW rest, NEW P, Turn(q, c, rest, P, FALSE)
  PROVE  /\ Walk' = (Given \o q) \o P /\ Given \in Seq(Commit) /\ q \in Seq(Commit) /\ P \in Seq(Commit)
         /\ Given \o q \in Seq(Commit) /\ Len(Given) + 1 <= Len(Given \o q)
         /\ (Given \o q)[Len(Given) + 1] = c
         /\ \A i \in 1..Len(Given) : (Given \o q)[i] = Given[i]
         /\ ToSet(Given \o q) = ToSet(Given) \cup ToSet(q)
<1> DEFINE g == Given
           t == <<c>>
<1>1. /\ q \in Seq(stored) /\ q # <<>> /\ c = Head(q) /\ rest = Tail(q) /\ c \in stored
      /\ rest \in Seq(stored) /\ P \in Seq(stored) /\ answers' = Append(answers, c)
  BY DEF Turn, Take
<1>2. Given = answers /\ Given' = answers' /\ Pending' = rest \o P /\ Given \in Seq(stored) /\ stored \subseteq Commit
  BY TurnLists
<1>3. /\ g \in Seq(Commit) /\ q \in Seq(Commit) /\ rest \in Seq(Commit) /\ P \in Seq(Commit)
      /\ c \in Commit /\ t \in Seq(Commit)
  BY <1>1, <1>2, SeqMonotonic
<1>4. q = t \o rest /\ Len(q) # 0 /\ Len(q) \in Nat /\ Len(g) \in Nat /\ q[1] = c
  <2>1. q = t \o rest
    BY <1>1, HeadTailProperties, ConcatElements
  <2>2. Len(q) # 0 /\ Len(q) \in Nat /\ Len(g) \in Nat /\ q[1] = c
    BY <1>1, <1>3, EmptySeq, LenProperties
  <2>. QED
    BY <2>1, <2>2
<1>5. Given' = g \o t
  <2>1. Append(g, c) = g \o t
    BY <1>3, AppendIsConcat
  <2>. QED
    BY <1>1, <1>2, <2>1
<1>6. Walk' = (g \o t) \o (rest \o P)
  BY <1>2, <1>5 DEF Walk
<1> HIDE DEF g, t
<1>7. (g \o t) \o (rest \o P) = (g \o q) \o P
  <2>1. g \o t \in Seq(Commit)
    BY <1>3, ConcatProperties
  <2> DEFINE gt == g \o t
  <2>2. \A x, y, z \in Seq(Commit) : (x \o y) \o z = x \o (y \o z)
    BY ConcatAssociative
  <2>3. gt \o rest = g \o (t \o rest)
    BY <1>3, <2>2, SMTT(30)
  <2> HIDE DEF gt
  <2>4. gt \o (rest \o P) = (gt \o rest) \o P
    BY <1>3, <2>1, <2>2 DEF gt
  <2>. QED
    BY <1>4, <2>3, <2>4 DEF gt
<1>8. /\ g \o q \in Seq(Commit) /\ Len(g \o q) = Len(g) + Len(q)
      /\ \A i \in 1..(Len(g) + Len(q)) : (g \o q)[i] = IF i <= Len(g) THEN g[i] ELSE q[i - Len(g)]
  BY <1>3, ConcatProperties
<1>9. /\ Len(g) + 1 <= Len(g \o q) /\ (g \o q)[Len(g) + 1] = c
      /\ \A i \in 1..Len(g) : (g \o q)[i] = g[i]
  <2>1. Len(g) + 1 \in 1..(Len(g) + Len(q)) /\ ~(Len(g) + 1 <= Len(g)) /\ (Len(g) + 1) - Len(g) = 1
    BY <1>4
  <2>2. \A i \in 1..Len(g) : i \in 1..(Len(g) + Len(q)) /\ i <= Len(g)
    BY <1>4
  <2>3. Len(g) + 1 <= Len(g \o q)
    BY <1>4, <1>8
  <2>. QED
    BY <1>4, <1>8, <2>1, <2>2, <2>3
<1>10. ToSet(g \o q) = ToSet(g) \cup ToSet(q)
  BY <1>3, ConcatElements
<1>. QED
  BY <1>3, <1>6, <1>7, <1>8, <1>9, <1>10 DEF g

\* Every history gives each commit a list of commits.
LEMMA HistoryType == EnumeratorTypeOK => parentShas \in [Commit -> Seq(Commit)]
  BY EnumeratorAssumption, HistoryAssumption DEF EnumeratorTypeOK

LEMMA InOrderStep == Base /\ Complete /\ InOrder /\ [EnumeratorNext]_enumeratorVars => InOrder'
<1>. SUFFICES ASSUME Base, Complete, InOrder, [EnumeratorNext]_enumeratorVars PROVE InOrder'
  OBVIOUS
<1>1. ASSUME NEW c \in stored, SetStartCommit(c) PROVE InOrder'
  BY <1>1, SetStartFacts DEF InOrder
<1>2. CASE NextCommit
  <2>1. PICK q, c, rest, P, failed : Turn(q, c, rest, P, failed)
    BY <1>2, NextCommitTurns
  <2>2. SUFFICES ASSUME mode = "BFS", ~raised'
                 PROVE  \A j \in 1..Len(Walk') : Orderly(Within', Walk', j)
    BY <2>1 DEF InOrder, Turn
  <2>3. /\ Turn(q, c, rest, P, FALSE) /\ ~raised /\ c \in Commit /\ parentShas' = parentShas
        /\ starts' = (IF started THEN starts ELSE q)
        /\ ToSet(P) \cap (visitedNodes \cup {c}) = {} /\ ToSet(P) \subseteq ToSet(parentShas[c])
    <3>1. failed = FALSE
      BY <2>1, <2>2 DEF Turn
    <3>2. Turn(q, c, rest, P, FALSE)
      BY <2>1, <3>1
    <3>. QED
      BY <2>2, <3>2 DEF Turn
  <2> DEFINE W == Given \o q
             S == ToSet(starts')
             V == Ancestry(S, parentShas)
  <2>4. Within' = V
    BY <2>3 DEF Within
  <2>5. /\ Walk' = W \o P /\ Given \in Seq(Commit) /\ q \in Seq(Commit) /\ P \in Seq(Commit)
        /\ W \in Seq(Commit) /\ Len(Given) + 1 <= Len(W)
        /\ W[Len(Given) + 1] = c
        /\ \A i \in 1..Len(Given) : W[i] = Given[i]
        /\ ToSet(W) = ToSet(Given) \cup ToSet(q)
    BY <2>2, <2>3, TurnWalks
  <2>6. /\ visitedNodes = ToSet(Given) \cup NextAncestors(ToSet(Given), parentShas)
        /\ ToSet(W) = S \cup NextAncestors(ToSet(Given), parentShas)
    <3>1. /\ visitedNodes = ToSet(Given) \cup Parents(ToSet(Given))
          /\ ToSet(Given) \cup ToSet(q) = ToSet(starts') \cup Parents(ToSet(Given))
      BY <2>3, TurnMarks
    <3>2. Parents(ToSet(Given)) = NextAncestors(ToSet(Given), parentShas)
      BY DEF Parents, NextAncestors
    <3>. QED
      BY <2>5, <3>1, <3>2
  <2>7. S \in SUBSET Commit /\ parentShas \in [Commit -> Seq(Commit)]
    <3>1. ToSet(W) \subseteq Commit
      BY <2>5, ToSetIsElements
    <3>. QED
      BY <2>6, <3>1, HistoryType DEF Base
  <2>8. \A j \in 1..Len(W) : Orderly(V, W, j)
    <3>1. CASE started
      <4>1. W = Walk /\ V = Within
        <5>1. q = Pending
          BY <2>3, <3>1, TurnLists
        <5>2. starts' = starts
          BY <2>3, <3>1
        <5>. QED
          BY <5>1, <5>2 DEF Walk, Within
      <4>. QED
        BY <2>2, <2>3, <3>1, <4>1 DEF InOrder
    <3>2. CASE ~started
      <4>1. ToSet(W) = S
        <5>1. ToSet(Given) = {}
          BY <2>3, <3>2, TurnLists
        <5>. QED
          BY <2>3, <2>5, <3>2, <5>1
      <4> HIDE DEF W, S, V
      <4>2. N \in Nat /\ V[0] = S
        <5>1. Generations(S, parentShas, V)
          BY <2>7, AncestryFacts DEF V
        <5>. QED
          BY <5>1 DEF Generations
      <4>3. \A k \in 0..N : S \subseteq V[k]
        <5>1. \A k, l \in 0..N : k <= l => V[k] \subseteq V[l]
          BY <2>7, AncestryClosed DEF V
        <5>2. 0 \in 0..N /\ \A k \in 0..N : 0 <= k
          BY <4>2
        <5>. QED
          BY <4>2, <5>1, <5>2
      <4>4. \A i \in 1..Len(W) : W[i] \in S
        BY <2>5, <4>1, ToSetIsElements
      <4>5. \A j \in 1..Len(W) : \A i \in 1..j : i \in 1..Len(W)
        <5>1. Len(W) \in Nat
          BY <2>5, LenProperties
        <5>. QED
          BY <5>1
      <4>. QED
        BY <4>3, <4>4, <4>5 DEF Orderly
    <3>. QED
      BY <3>1, <3>2
  <2> HIDE DEF W, S, V
  <2> DEFINE G == Given
             parents == parentShas
  <2>9. Queueing(S, parents, V, G, W, c, P)
    BY <2>3, <2>5, <2>6, <2>8 DEF Queueing
  <2>10. V = Ancestry(S, parents) /\ S \in SUBSET Commit /\ parents \in [Commit -> Seq(Commit)] /\ G \in Seq(Commit)
    BY <2>5, <2>7 DEF V
  <2> HIDE DEF G, parents
  <2>11. \A j \in 1..Len(W \o P) : Orderly(V, W \o P, j)
    BY <2>3, <2>5, <2>9, <2>10, QueueingInOrder
  <2>. QED
    BY <2>4, <2>5, <2>11
<1>3. CASE NextNil
  <2>1. Given' = Given /\ Pending' = Pending /\ UNCHANGED <<parentShas, starts, started, mode, raised>>
    BY <1>3, NilFacts
  <2>2. Walk' = Walk /\ Within' = Within
    BY <2>1 DEF Walk, Within
  <2>. QED
    BY <2>1, <2>2 DEF InOrder
<1>4. CASE UNCHANGED enumeratorVars
  <2>1. Walk' = Walk /\ Within' = Within
    BY <1>4 DEF enumeratorVars, repository, Walk, Within, Given, Pending, Live
  <2>. QED
    BY <1>4, <2>1 DEF enumeratorVars, repository, InOrder
<1>. QED
  BY <1>1, <1>2, <1>3, <1>4 DEF EnumeratorNext, NextObject

LEMMA InvInit == EnumeratorInit => Inv
<1>. SUFFICES ASSUME EnumeratorInit PROVE Inv
  OBVIOUS
<1>1. Base
  BY BaseInit
<1>2. ~started /\ answers = <<>>
  BY DEF EnumeratorInit
<1>3. Live /\ starts = nodeQueue /\ Given = <<>> /\ Pending = starts
  BY <1>1, <1>2 DEF Base, Given, Pending
<1>4. Sound
  <2>1. ToSet(Given) = {}
    BY <1>3 DEF ToSet
  <2>. QED
    BY <1>3, <2>1 DEF Sound
<1>. QED
  BY <1>1, <1>2, <1>4 DEF Inv, Once, Complete, Descends, InOrder

LEMMA EnumeratorInvariance == EnumeratorSpec => []Inv
<1>1. Inv /\ [EnumeratorNext]_enumeratorVars => Inv'
  BY BaseStep, OnceStep, SoundStep, CompleteStep, DescendsStep, InOrderStep DEF Inv
<1>. QED
  BY InvInit, <1>1, PTL DEF EnumeratorSpec

-----------------------------------------------------------------------------
\* What the answers hold when the walk has ended, and before.
LEMMA AnswersAreGiven ==
  ASSUME Base
  PROVE  /\ Answered = ToSet(Given) /\ Answered \subseteq Commit
         /\ Given \in Seq(stored) /\ stored \subseteq Commit
         /\ \A c \in Commit : Occurrences(answers, c) = Occurrences(Given, c)
<1>1. Given \in Seq(stored) /\ stored \subseteq Commit /\ Nil \notin stored
  BY EnumeratorAssumption, HistoryAssumption DEF Base, EnumeratorTypeOK
<1>2. ToSet(Given) \subseteq stored
  BY <1>1, ToSetIsElements
<1>3. CASE Live
  BY <1>1, <1>2, <1>3 DEF Given, Answered
<1>4. CASE ~Live
  <2> DEFINE g == Given
             T == stored \cup {Nil}
  <2>1. answers = Append(g, Nil) /\ g \in Seq(T) /\ Nil \in T
    BY <1>1, <1>4, SeqMonotonic DEF Base
  <2> HIDE DEF g, T
  <2>2. ToSet(Append(g, Nil)) = ToSet(g) \cup {Nil}
    BY <2>1, AppendElements
  <2>3. \A c : Occurrences(Append(g, Nil), c) = Occurrences(g, c) + (IF c = Nil THEN 1 ELSE 0)
    BY <2>1, OccurrencesAppend
  <2>4. \A c : Occurrences(g, c) \in Nat
    BY <2>1, OccurrencesNat
  <2>5. \A c \in Commit : Occurrences(answers, c) = Occurrences(g, c)
    BY <2>1, <2>3, <2>4, EnumeratorAssumption, HistoryAssumption
  <2>. QED
    BY <1>1, <1>2, <2>1, <2>2, <2>5 DEF Answered, g
<1>. QED
  BY <1>3, <1>4

\* nextObject (GITCommitEnumerator.m:77-115) answers no commit twice, but for a
\* start commit among several, which it answers once more than it was queued at
\* most: for every history and store, and also after exceptions.
THEOREM AnswersOnce == EnumeratorSpec => []AnsweredOnce
<1>1. Inv => AnsweredOnce
  <2>. SUFFICES ASSUME Inv PROVE AnsweredOnce
    OBVIOUS
  <2>1. Base /\ Once /\ EnumeratorTypeOK
    BY DEF Inv, Base
  <2>. SUFFICES ASSUME NEW c \in Answered
                PROVE  Occurrences(answers, c) <=
                         IF Len(starts) > 1 /\ c \in ToSet(starts) THEN Occurrences(starts, c) + 1 ELSE 1
    BY <2>1 DEF AnsweredOnce
  <2>2. c \in Commit /\ Occurrences(answers, c) = Occurrences(Given, c) /\ Given \in Seq(stored)
    BY <2>1, AnswersAreGiven
  <2>3. started
    <3>1. ASSUME ~started PROVE FALSE
      <4>1. answers = <<>>
        BY <2>1, <3>1 DEF Base
      <4>. QED
        BY <4>1 DEF Answered, ToSet
    <3>. QED
      BY <3>1
  <2>4. Pending \in Seq(stored)
    <3>1. CASE Live
      BY <2>1, <3>1, LiveTypes
    <3>2. CASE ~Live
      BY <3>2 DEF Pending
    <3>. QED
      BY <3>1, <3>2
  <2>5. Occurrences(Given, c) \in Nat /\ Occurrences(Pending, c) \in Nat
    BY <2>2, <2>4, OccurrencesNat
  <2>6. Occurrences(Given, c) <= Most(c)
    <3>1. Comes(c) <= Most(c)
      BY <2>1, <2>2, <2>3 DEF Once
    <3>2. Occurrences(starts, c) \in Nat
      BY <2>1, OccurrencesNat DEF EnumeratorTypeOK
    <3>. QED
      BY <2>5, <3>1, <3>2 DEF Comes, Most
  <2>7. starts \in Seq(stored) /\ Len(starts) \in Nat /\ Len(starts) # 0
    <3>1. starts \in Seq(stored) /\ starts # <<>>
      BY <2>1, <2>3 DEF Base, EnumeratorTypeOK
    <3>. QED
      BY <3>1, EmptySeq, LenProperties
  <2>8. Occurrences(starts, c) \in Nat /\ (c \notin ToSet(starts) => Occurrences(starts, c) = 0)
    BY <2>7, OccurrencesNat
  <2>9. Most(c) = IF Len(starts) > 1 /\ c \in ToSet(starts) THEN Occurrences(starts, c) + 1 ELSE 1
    <3>1. CASE Len(starts) = 1
      BY <3>1 DEF Most
    <3>2. CASE Len(starts) # 1
      <4> DEFINE m == Len(starts)
      <4>1. Most(c) = Occurrences(starts, c) + 1
        BY <3>2 DEF Most
      <4>2. m \in Nat /\ m # 0 /\ m # 1
        BY <2>7, <3>2
      <4> HIDE DEF m
      <4>3. m > 1
        BY <4>2
      <4>. QED
        BY <2>8, <4>1, <4>3 DEF m
    <3>. QED
      BY <3>1, <3>2
  <2>. QED
    BY <2>2, <2>6, <2>9
<1>. QED
  BY EnumeratorInvariance, <1>1, PTL

\* The generations of the start commits.
LEMMA WithinFacts ==
  ASSUME Inv
  PROVE  /\ Generations(ToSet(starts), parentShas, Within)
         /\ ToSet(starts) \in SUBSET Commit
         /\ \A k, l \in 0..N : k <= l => Within[k] \subseteq Within[l]
         /\ Parents(Within[N]) \subseteq Within[N]
         /\ ToSet(Given) \cup ToSet(Pending) \subseteq Within[N]
<1> DEFINE S == ToSet(starts)
           parents == parentShas
           V == Within
<1>1. S \in SUBSET Commit /\ parents \in [Commit -> Seq(Commit)] /\ Base /\ Sound
  <2>1. starts \in Seq(stored) /\ stored \subseteq Commit /\ Base /\ Sound
    BY EnumeratorAssumption, HistoryAssumption DEF Inv, Base, EnumeratorTypeOK
  <2>2. S \subseteq stored
    BY <2>1, ToSetIsElements
  <2>. QED
    BY <2>1, <2>2, HistoryType DEF Base
<1>2. V = Ancestry(S, parents)
  BY DEF Within
<1>3. \A T : Parents(T) = NextAncestors(T, parents)
  BY DEF Parents, NextAncestors
<1> HIDE DEF S, parents, V
<1>4. Generations(S, parents, V)
  BY <1>1, <1>2, AncestryFacts
<1>5. /\ \A k, l \in 0..N : k <= l => V[k] \subseteq V[l]
      /\ NextAncestors(V[N], parents) \subseteq V[N]
  BY <1>1, <1>2, AncestryClosed
<1>6. S \subseteq V[N] /\ V[N] \in SUBSET Commit
  <2>1. N \in Nat /\ 0 \in 0..N /\ N \in 0..N /\ 0 <= N /\ V[0] = S
    BY <1>4 DEF Generations
  <2>. QED
    BY <1>4, <1>5, <2>1 DEF Generations
<1>7. ToSet(Given) \cup ToSet(Pending) \subseteq V[N]
  BY <1>1, <1>3, <1>5, <1>6 DEF Sound, S
<1>. QED
  BY <1>1, <1>3, <1>4, <1>5, <1>7 DEF S, parents, V

\* An enumeration that ends without an exception has answered the start commits
\* and everything above them (nextObject, GITCommitEnumerator.m:77-115): what was
\* queued has been answered, and with a commit its parents.
THEOREM AnswersTheHistory == EnumeratorSpec => []AnswersHistory
<1>1. Inv => AnswersHistory
  <2>. SUFFICES ASSUME Inv, started, nodeQueue = Nil, ~raised PROVE Answered = Within[N]
    BY DEF AnswersHistory, Ended, N
  <2>1. /\ Generations(ToSet(starts), parentShas, Within)
        /\ ToSet(Given) \cup ToSet(Pending) \subseteq Within[N]
    BY WithinFacts
  <2>2. Answered = ToSet(Given)
    BY AnswersAreGiven DEF Inv
  <2>3. ToSet(Given) = ToSet(starts) \cup Parents(ToSet(Given))
    <3>1. ToSet(Pending) = {}
      BY DEF Pending, Live, ToSet
    <3>2. ToSet(Given) \cup ToSet(Pending) = ToSet(starts) \cup Parents(ToSet(Given))
      BY DEF Inv, Complete
    <3>. QED
      BY <3>1, <3>2
  <2> DEFINE V == Within
             T == ToSet(Given)
             I == {k \in Nat : k <= N => V[k] \subseteq T}
  <2>4. /\ N \in Nat /\ V[0] \subseteq T
        /\ \A k \in Nat : k + 1 <= N => V[k + 1] = V[k] \cup NextAncestors(V[k], parentShas)
    BY <2>1, <2>3 DEF Generations
  <2>5. \A Z : Z \subseteq T => NextAncestors(Z, parentShas) \subseteq T
    BY <2>3 DEF Parents, NextAncestors
  <2> HIDE DEF V, T
  <2>6. 0 \in I
    BY <2>4
  <2>7. ASSUME NEW k \in Nat, k \in I PROVE k + 1 \in I
    <3>. SUFFICES ASSUME k + 1 <= N PROVE V[k + 1] \subseteq T
      OBVIOUS
    <3>1. V[k] \subseteq T
      BY <2>4, <2>7
    <3>. QED
      BY <2>4, <2>5, <3>1
  <2> HIDE DEF I
  <2>8. N \in I
    BY <2>4, <2>6, <2>7, NatSetInduction
  <2>9. V[N] \subseteq T
    BY <2>4, <2>8 DEF I
  <2>. QED
    BY <2>1, <2>2, <2>9 DEF V, T
<1>. QED
  BY EnumeratorInvariance, <1>1, PTL

\* The generation of a commit is the least that has it.
LEMMA LeastGeneration ==
  ASSUME Inv, NEW c \in Within[N]
  PROVE  /\ Generation(c) \in 0..N /\ c \in Within[Generation(c)]
         /\ \A l \in 0..(Generation(c) - 1) : c \notin Within[l]
<1> DEFINE I == {k \in 0..N : c \in Within[k]}
           Least(k) == c \in Within[k] /\ \A l \in 0..(k - 1) : c \notin Within[l]
<1>1. N \in Nat
  BY WithinFacts DEF Generations
<1>2. I \in SUBSET Nat /\ N \in I
  BY <1>1
<1>3. PICK k \in I : \A l \in I : k <= l
  <2> HIDE DEF I
  <2>1. I # {}
    BY <1>2
  <2>. QED
    BY <1>2, <2>1, LeastElement
<1>4. k \in 0..N /\ Least(k)
  <2>1. k \in 0..N /\ c \in Within[k]
    BY <1>3
  <2>2. \A l \in 0..(k - 1) : l \in 0..N /\ ~(k <= l)
    BY <1>1, <2>1
  <2>. QED
    BY <1>3, <2>1, <2>2
<1>5. Generation(c) = CHOOSE g \in 0..N : Least(g)
  BY DEF Generation, N
<1> HIDE DEF Least
<1>6. Generation(c) \in 0..N /\ Least(Generation(c))
  BY <1>4, <1>5
<1>. QED
  BY <1>6 DEF Least

\* Breadth first the generations come in order (the queue of
\* GITCommitEnumerator.m:86-113), for every history: a commit that is answered for
\* the first time is in no earlier generation than what was answered before.
THEOREM GenerationsCome == EnumeratorSpec => []GenerationsInOrder
<1>1. Inv => GenerationsInOrder
  <2>. SUFFICES ASSUME Inv, mode = "BFS", ~raised,
                       NEW i \in FirstAnswers, NEW j \in FirstAnswers, i < j
                PROVE  Generation(answers[i]) <= Generation(answers[j])
    BY DEF GenerationsInOrder
  <2>1. Base /\ InOrder
    BY DEF Inv
  <2>2. /\ Given \in Seq(stored) /\ Pending \in Seq(stored)
        /\ Len(Given) \in Nat /\ Len(Pending) \in Nat /\ Len(answers) \in Nat
        /\ DOMAIN answers = 1..Len(answers) /\ answers \in Seq(stored \cup {Nil})
    <3>1. Pending \in Seq(stored)
      <4>1. CASE Live
        BY <2>1, <4>1, LiveTypes
      <4>2. CASE ~Live
        BY <4>2 DEF Pending
      <4>. QED
        BY <4>1, <4>2
    <3>2. Given \in Seq(stored) /\ answers \in Seq(stored \cup {Nil})
      BY <2>1 DEF Base, EnumeratorTypeOK
    <3>. QED
      BY <3>1, <3>2, LenProperties
  <2>3. /\ i \in 1..Len(answers) /\ j \in 1..Len(answers) /\ answers[j] # Nil
        /\ answers[j] \notin ToSet(SubSeq(answers, 1, j - 1))
    BY <2>2 DEF FirstAnswers
  <2>4. started
    <3>1. ASSUME ~started PROVE FALSE
      <4>1. answers = <<>>
        BY <2>1, <3>1 DEF Base
      <4>. QED
        BY <2>3, <4>1
    <3>. QED
      BY <3>1
  <2>5. j \in 1..Len(Given) /\ \A l \in 1..Len(Given) : Given[l] = answers[l]
    <3>1. CASE Live
      BY <2>3, <3>1 DEF Given
    <3>2. CASE ~Live
      <4> DEFINE g == Given
                 T == stored \cup {Nil}
      <4>1. answers = Append(g, Nil) /\ g \in Seq(T) /\ Nil \in T
        BY <2>1, <2>2, <3>2, SeqMonotonic DEF Base
      <4> HIDE DEF g, T
      <4>2. /\ Len(answers) = Len(g) + 1 /\ answers[Len(g) + 1] = Nil /\ Len(g) \in Nat
            /\ \A l \in 1..Len(g) : answers[l] = g[l]
        BY <4>1, AppendElements
      <4>3. j \in 1..Len(g)
        BY <2>3, <4>2
      <4>. QED
        BY <4>2, <4>3 DEF g
    <3>. QED
      BY <3>1, <3>2
  <2>6. /\ Walk \in Seq(stored) /\ Len(Walk) = Len(Given) + Len(Pending)
        /\ \A l \in 1..Len(Given) : Walk[l] = answers[l] /\ l \in 1..Len(Walk)
    <3> DEFINE g == Given
               q == Pending
    <3>1. g \in Seq(stored) /\ q \in Seq(stored) /\ Len(g) \in Nat /\ Len(q) \in Nat
      BY <2>2
    <3> HIDE DEF g, q
    <3>2. /\ g \o q \in Seq(stored) /\ Len(g \o q) = Len(g) + Len(q)
          /\ \A l \in 1..(Len(g) + Len(q)) : (g \o q)[l] = IF l <= Len(g) THEN g[l] ELSE q[l - Len(g)]
      BY <3>1, ConcatProperties
    <3>3. \A l \in 1..Len(g) : (g \o q)[l] = g[l] /\ l \in 1..Len(g \o q)
      BY <3>1, <3>2
    <3>. QED
      BY <2>5, <3>2, <3>3 DEF Walk, g, q
  <2>7. ~\E l \in 1..(j - 1) : Walk[l] = Walk[j]
    <3>. SUFFICES ASSUME NEW l \in 1..(j - 1), Walk[l] = Walk[j] PROVE FALSE
      OBVIOUS
    <3>1. l \in 1..Len(Given) /\ j - 1 \in 0..Len(answers)
      BY <2>2, <2>3, <2>5
    <3>2. answers[l] = answers[j]
      BY <2>5, <2>6, <3>1
    <3> DEFINE s == SubSeq(answers, 1, j - 1)
    <3>3. s \in Seq(stored \cup {Nil}) /\ Len(s) = j - 1 /\ s[l] = answers[l]
      <4>1. /\ SubSeq(answers, 1, j - 1) \in Seq(stored \cup {Nil}) /\ Len(SubSeq(answers, 1, j - 1)) = (j - 1) - 1 + 1
            /\ \A e \in 1..((j - 1) - 1 + 1) : SubSeq(answers, 1, j - 1)[e] = answers[1 - 1 + e]
        <5>1. 1 \in 1..((j - 1) + 1)
          BY <2>3, <2>2
        <5>. QED
          BY <2>2, <3>1, <5>1, Stretch
      <4>2. (j - 1) - 1 + 1 = j - 1 /\ 1 - 1 + l = l
        BY <2>2, <2>3
      <4>. QED
        BY <4>1, <4>2
    <3> HIDE DEF s
    <3>4. answers[l] \in ToSet(s)
      BY <3>3, ToSetIsElements
    <3>. QED
      BY <2>3, <3>2, <3>4 DEF s
  <2>8. \A k \in 0..N : answers[j] \in Within[k] => answers[i] \in Within[k]
    <3>1. Orderly(Within, Walk, j)
      BY <2>1, <2>4, <2>5, <2>6 DEF InOrder
    <3>2. i \in 1..j /\ i \in 1..Len(Given)
      BY <2>2, <2>3, <2>5
    <3>. QED
      BY <2>5, <2>6, <2>7, <3>1, <3>2 DEF Orderly
  <2>9. answers[i] \in Within[N] /\ answers[j] \in Within[N]
    <3>1. ToSet(Given) \subseteq Within[N]
      BY WithinFacts
    <3>2. i \in 1..Len(Given)
      BY <2>2, <2>3, <2>5
    <3>3. answers[i] \in ToSet(Given) /\ answers[j] \in ToSet(Given)
      BY <2>2, <2>5, <3>2, ToSetIsElements
    <3>. QED
      BY <3>1, <3>3
  <2> DEFINE gi == Generation(answers[i])
             gj == Generation(answers[j])
  <2>10. gi \in 0..N /\ \A l \in 0..(gi - 1) : answers[i] \notin Within[l]
    BY <2>9, LeastGeneration
  <2>11. gj \in 0..N /\ answers[j] \in Within[gj]
    BY <2>9, LeastGeneration
  <2>12. N \in Nat
    BY WithinFacts DEF Generations
  <2> HIDE DEF gi, gj
  <2>13. gj \notin 0..(gi - 1)
    BY <2>8, <2>10, <2>11
  <2>14. gi <= gj
    BY <2>10, <2>11, <2>12, <2>13
  <2>. QED
    BY <2>14 DEF gi, gj
<1>. QED
  BY EnumeratorInvariance, <1>1, PTL

\* Depth first the walk goes on from the commit it has just answered while that
\* names one not yet seen (the stack of GITCommitEnumerator.m:86-113).
THEOREM GoesDeep == EnumeratorSpec => DescendsFirst
<1>1. Inv /\ [EnumeratorNext]_enumeratorVars =>
        [mode = "DFS" /\ answers # <<>> /\ ~Exhausted /\ ~raised' /\ answers' # answers
           /\ Unseen # {} => Last(answers') \in Unseen]_enumeratorVars
  <2>. SUFFICES ASSUME Inv, [EnumeratorNext]_enumeratorVars, mode = "DFS", answers # <<>>, ~Exhausted, ~raised',
                       answers' # answers, Unseen # {}
                PROVE  Last(answers') \in Unseen
    OBVIOUS
  <2>1. Base /\ Descends
    BY DEF Inv
  <2>2. started
    BY <2>1 DEF Base
  <2>3. NextCommit
    <3>1. ASSUME NEW c \in stored, SetStartCommit(c) PROVE FALSE
      BY <2>2, <3>1 DEF SetStartCommit
    <3>2. ~NextNil
      BY DEF NextNil
    <3>3. answers' = answers \/ EnumeratorNext
      BY DEF enumeratorVars
    <3>. QED
      BY <3>1, <3>2, <3>3 DEF EnumeratorNext, NextObject
  <2>4. PICK q, c, rest, P, failed : Turn(q, c, rest, P, failed)
    BY <2>1, <2>3, NextCommitTurns
  <2>5. /\ ~raised /\ Live /\ q = nodeQueue /\ c = Last(q) /\ c \in stored
        /\ answers' = Append(answers, c)
    BY <2>2, <2>4 DEF Turn, Take
  <2>6. answers \in Seq(stored)
    BY <2>1, <2>5 DEF Base, Given
  <2>7. Last(answers') = c
    BY <2>5, <2>6, FrontAppend
  <2>8. Last(nodeQueue) \in Unseen
    BY <2>1, <2>5 DEF Descends
  <2>. QED
    BY <2>5, <2>7, <2>8
<1>. QED
  BY EnumeratorInvariance, <1>1, PTL DEF EnumeratorSpec, DescendsFirst

=============================================================================
