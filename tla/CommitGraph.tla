---------------------------- MODULE CommitGraph ----------------------------
(***************************************************************************)
(* The commit graph of Source/Graph: GITGraph builds, by depth-first       *)
(* search from a starting commit, a node per commit with its edges to the  *)
(* parents, and lists the nodes in one of the three orders of git-rev-list *)
(* (--topo-order, --date-order, and the default order by date).            *)
(*                                                                         *)
(* Everything runs on one thread, so a step is one turn of a loop of the   *)
(* code.  What is hard is the state that outlives a call: the flags and    *)
(* the indegree live in the nodes, and every call finds them as the last   *)
(* build, the last sort or the last exception left them.                   *)
(***************************************************************************)
EXTENDS CommitHistory

CONSTANTS
  NoCommit,    \* no node is being expanded
  Calendars    \* the commit dates a behaviour may start from

ASSUME GraphAssumption ==
  /\ NoCommit \notin Commit
  /\ Calendars \subseteq [Commit -> Nat]

VARIABLES
  sortDate,                             \* the dates, which never change
  nodes, outNodes, inNodes,             \* the graph: nodes and edge lists
  indegree, visited, processed,         \* the mutable fields of the nodes
  pc,        \* "idle", or the routine that runs
  stack,     \* its array of pending nodes (q of the build, roots of a sort)
  cur,       \* the node whose edges it walks, or NoCommit
  edge,      \* the next edge of cur
  sorted,    \* the list of the last sort
  order,     \* the routine that made it, "none" since the last build
  clean,     \* observation: no build failed, or began on flags a sort reset
  fresh      \* observation: the last sort read indegrees that count in-edges

repo == <<parentShas, sortDate, stored>>
graph == <<nodes, outNodes, inNodes>>
vars == <<repo, graph, indegree, visited, processed, pc, stack, cur, edge,
          sorted, order, clean, fresh>>

Sorts == {"topo", "dateorder", "date"}

\* An occurrence of a node in another's inNodes: the child, and which of the
\* entries of the child's outNodes it belongs to.
Occurrence == Commit \X (Nat \ {0})

TypeOK ==
  /\ parentShas \in Histories /\ sortDate \in Calendars /\ stored \in Stores
  /\ nodes \subseteq Commit
  /\ outNodes \in [Commit -> Seq(Commit)]
  /\ inNodes \in [Commit -> SUBSET Occurrence]
  /\ indegree \in [Commit -> Nat]
  /\ visited \subseteq nodes /\ processed \subseteq nodes
  /\ pc \in {"idle", "build"} \cup Sorts
  /\ stack \in Seq(nodes) /\ cur \in nodes \cup {NoCommit}
  /\ edge \in Nat \ {0}
  /\ sorted \in Seq(nodes) /\ order \in {"none"} \cup Sorts
  /\ clean \in BOOLEAN /\ fresh \in BOOLEAN

Init ==
  /\ parentShas \in Histories /\ sortDate \in Calendars /\ stored \in Stores
  /\ nodes = {}
  /\ outNodes = [c \in Commit |-> <<>>]
  /\ inNodes = [c \in Commit |-> {}]
  /\ indegree = [c \in Commit |-> 0]
  /\ visited = {} /\ processed = {}
  /\ pc = "idle" /\ stack = <<>> /\ cur = NoCommit /\ edge = 1
  /\ sorted = <<>> /\ order = "none"
  /\ clean = TRUE /\ fresh = TRUE

-----------------------------------------------------------------------------
(***************************************************************************)
(* Steps the routines share: take the last pending node and walk its edges.*)
(***************************************************************************)
Idle == pc = "idle"
Between(routine) == pc = routine /\ cur = NoCommit
Walking(routine) == pc = routine /\ cur # NoCommit

TakeLast ==
  /\ stack # <<>>
  /\ cur' = Last(stack)
  /\ stack' = Front(stack)
  /\ edge' = 1

\* The list the loop over cur goes through.
Edges == IF pc = "build" THEN parentShas[cur] ELSE outNodes[cur]

EdgesDone ==
  /\ ~Idle /\ cur # NoCommit /\ edge > Len(Edges)
  /\ cur' = NoCommit /\ edge' = 1
  /\ UNCHANGED <<repo, graph, indegree, visited, processed, pc, stack,
                 sorted, order, clean, fresh>>

Return ==
  /\ ~Idle /\ cur = NoCommit /\ stack = <<>>
  /\ pc' = "idle"
  /\ UNCHANGED <<repo, graph, indegree, visited, processed, stack, cur, edge,
                 sorted, order, clean, fresh>>

InCount(n) == Cardinality(inNodes[n])

-----------------------------------------------------------------------------
(***************************************************************************)
(* Seeded faults: what an operator defined further down would be if the    *)
(* code had a bug.  The specification uses none of them; each is there to  *)
(* show that a property fails when its operator is replaced by the fault.  *)
(***************************************************************************)
\* Both ends of the edge are recorded at the source.
AddEdgeAtSource(source, target) ==
  /\ outNodes' = [outNodes EXCEPT ![source] = Append(@, target)]
  /\ inNodes' = [inNodes EXCEPT ![source] = @ \cup {<<target, Len(outNodes[source]) + 1>>}]

\* A parent is pushed again each time it is met.
AlwaysNew(p) == TRUE

\* The node goes to the end whatever its date.
LastPosition(s, w) == {Len(s) + 1}

\* The indegrees stay as the last call left them.
KeptIndegree == indegree

\* The roots are picked before the indegrees are reset.
StaleRoots == {c \in nodes : indegree[c] = 0}

\* Every node is a root.
AllNodes == nodes

\* A parent is released with its first edge.
AnyInEdge(w) == indegree[w] = InCount(w)

\* The listed node is not taken off the array.
EmitWithoutRemoving ==
  /\ Between("date") /\ stack # <<>>
  /\ cur' = Last(stack) /\ edge' = 1
  /\ sorted' = IF Last(stack) \in processed THEN sorted ELSE Append(sorted, Last(stack))
  /\ processed' = processed \cup {Last(stack)}
  /\ UNCHANGED <<repo, graph, indegree, visited, pc, stack, order, clean, fresh>>

-----------------------------------------------------------------------------
(***************************************************************************)
(* buildGraphWithStartingCommit:.  The starting commit is not yet a node:  *)
(* building on one replaces and frees a node other nodes still point to.   *)
(***************************************************************************)
BuildGraphWithStartingCommit(c) ==
  /\ Idle
  /\ c \in stored \ nodes
  /\ nodes' = nodes \cup {c}
  /\ stack' = <<c>>
  /\ pc' = "build" /\ order' = "none"
  /\ clean' = (clean /\ nodes \subseteq visited)
  /\ UNCHANGED <<repo, outNodes, inNodes, indegree, visited, processed, cur,
                 edge, sorted, fresh>>

PopNode ==
  /\ Between("build")
  /\ TakeLast
  /\ visited' = visited \cup {Last(stack)}
  /\ UNCHANGED <<repo, graph, indegree, processed, pc, sorted, order, clean, fresh>>

\* Has the graph a node for p, or can the repository load the commit?
Loadable(p) == p \in nodes \cup stored

AddEdgeFromNode(source, target) ==
  /\ outNodes' = [outNodes EXCEPT ![source] = Append(@, target)]
  /\ inNodes' = [inNodes EXCEPT ![target] = @ \cup {<<source, Len(outNodes[source]) + 1>>}]

NotVisited(p) == p \notin visited

ExpandParent ==
  /\ Walking("build") /\ edge <= Len(Edges)
  /\ LET p == Edges[edge] IN
       /\ Loadable(p)
       /\ nodes' = nodes \cup {p}
       /\ indegree' = [indegree EXCEPT ![p] = @ + 1]
       /\ AddEdgeFromNode(cur, p)
       /\ visited' = visited \cup {p}
       /\ stack' = IF NotVisited(p) THEN Append(stack, p) ELSE stack
  /\ edge' = edge + 1
  /\ UNCHANGED <<repo, processed, pc, cur, sorted, order, clean, fresh>>

\* commitWithSha1: answers nil, so there is no node, and setObject:nil raises:
\* the call ends here and the graph keeps what was built.
MissingParent ==
  /\ Walking("build") /\ edge <= Len(Edges)
  /\ ~Loadable(Edges[edge])
  /\ pc' = "idle" /\ stack' = <<>> /\ cur' = NoCommit /\ edge' = 1
  /\ clean' = FALSE
  /\ UNCHANGED <<repo, graph, indegree, visited, processed, sorted, order, fresh>>

-----------------------------------------------------------------------------
(***************************************************************************)
(* The sorts.  [self nodes] lists the dictionary's values in no particular *)
(* order; CFArrayBSearchValues answers a position that keeps an ascending  *)
(* array ascending (any one of the positions of equal dates), and may      *)
(* answer any position when the array is not ascending.                    *)
(***************************************************************************)
Ascending(s) == \A i \in 1..Len(s) : \A j \in 1..i : sortDate[s[j]] <= sortDate[s[i]]

Positions(s, w) ==
  {i \in 1..(Len(s) + 1) :
     Ascending(s) => /\ \A j \in 1..(i - 1) : sortDate[s[j]] <= sortDate[w]
                     /\ \A j \in i..Len(s) : sortDate[w] <= sortDate[s[j]]}

InsertByDate(w) == \E i \in Positions(stack, w) : stack' = InsertAt(stack, i, w)

\* resetIndegree, for every node.
ResetIndegree == [c \in Commit |-> InCount(c)]

TopologyRoots == {c \in nodes : ResetIndegree[c] = 0}
DateRoots == {c \in nodes : indegree[c] = 0}

NodesSortedByTopology(useLifo) ==
  /\ Idle
  /\ indegree' = ResetIndegree
  /\ \E roots \in SetToSeqs(TopologyRoots) :
       /\ useLifo \/ Ascending(roots)
       /\ stack' = roots
  /\ pc' = IF useLifo THEN "topo" ELSE "dateorder"
  /\ order' = pc' /\ sorted' = <<>> /\ fresh' = TRUE
  /\ UNCHANGED <<repo, graph, visited, processed, cur, edge, clean>>

EmitRoot ==
  /\ Between("topo") \/ Between("dateorder")
  /\ TakeLast
  /\ sorted' = Append(sorted, Last(stack))
  /\ UNCHANGED <<repo, graph, indegree, visited, processed, pc, order, clean, fresh>>

LastInEdge(w) == indegree[w] = 1

ReleaseEdge ==
  /\ Walking("topo") \/ Walking("dateorder")
  /\ edge <= Len(Edges)
  /\ LET w == Edges[edge] IN
       /\ indegree' = [indegree EXCEPT ![w] = @ - 1]
       /\ \/ ~LastInEdge(w) /\ UNCHANGED stack
          \/ LastInEdge(w) /\ pc = "topo" /\ stack' = Append(stack, w)
          \/ LastInEdge(w) /\ pc = "dateorder" /\ InsertByDate(w)
  /\ edge' = edge + 1
  /\ UNCHANGED <<repo, graph, visited, processed, pc, cur, sorted, order, clean, fresh>>

NodesSortedByDate ==
  /\ Idle
  /\ visited' = {} /\ processed' = {}
  /\ \E roots \in SetToSeqs(DateRoots) : stack' = roots
  /\ fresh' = (\A c \in nodes : indegree[c] = InCount(c))
  /\ pc' = "date" /\ order' = "date" /\ sorted' = <<>>
  /\ UNCHANGED <<repo, graph, indegree, cur, edge, clean>>

EmitYoungest ==
  /\ Between("date")
  /\ TakeLast
  /\ sorted' = IF Last(stack) \in processed THEN sorted ELSE Append(sorted, Last(stack))
  /\ processed' = processed \cup {Last(stack)}
  /\ UNCHANGED <<repo, graph, indegree, visited, pc, order, clean, fresh>>

VisitEdge ==
  /\ Walking("date") /\ edge <= Len(Edges)
  /\ LET w == Edges[edge] IN
       /\ visited' = visited \cup {w}
       /\ IF w \in visited THEN UNCHANGED stack ELSE InsertByDate(w)
  /\ edge' = edge + 1
  /\ UNCHANGED <<repo, graph, indegree, processed, pc, cur, sorted, order, clean, fresh>>

-----------------------------------------------------------------------------
Call == \/ \E c \in Commit : BuildGraphWithStartingCommit(c)
        \/ \E useLifo \in BOOLEAN : NodesSortedByTopology(useLifo)
        \/ NodesSortedByDate

Run == \/ EdgesDone \/ Return
       \/ PopNode \/ ExpandParent \/ MissingParent
       \/ EmitRoot \/ ReleaseEdge
       \/ EmitYoungest \/ VisitEdge

Next == Call \/ Run

Spec == Init /\ [][Next]_vars

\* A call runs until it returns; callers need not make any.
FairSpec == Spec /\ WF_vars(Run)
-----------------------------------------------------------------------------
(***************************************************************************)
(* Properties.                                                             *)
(***************************************************************************)
Children(n) == {c \in nodes : n \in ToSet(outNodes[c])}

\* When a build returns, every node has all the parents its commit names, in
\* the order it names them, and every parent has a node: the graph is the
\* whole history below the starting commits, although nodes reached twice are
\* expanded once and a second build meets the nodes of the first
\* (buildGraphWithStartingNode:, GITGraph.m:94-123).
HistoryComplete ==
  Idle /\ clean => \A n \in nodes : /\ outNodes[n] = parentShas[n]
                                    /\ ToSet(parentShas[n]) \subseteq nodes

\* The two ends of every edge agree: an entry of a node's outNodes has one
\* occurrence in the other's inNodes and there are no others, also after a
\* build was cut short (addEdgeFromNode:toNode:, GITGraph.m:68-72).
EdgesMirrored ==
  \A p \in nodes :
    inNodes[p] = {o \in UNION {{c} \X DOMAIN outNodes[c] : c \in nodes} :
                    outNodes[o[1]][o[2]] = p}

\* --topo-order and --date-order: no parent is listed before all of its
\* children are (git-rev-list.m:145-148), whatever calls came before.
ChildrenFirst ==
  order \in {"topo", "dateorder"} =>
    \A j \in 1..Len(sorted) : \A c \in Children(sorted[j]) :
      \E i \in 1..(j - 1) : sorted[i] = c

\* A sort that has returned lists every node of the graph, and lists it once.
EachNodeOnce ==
  Idle /\ order # "none" => /\ \A i, j \in 1..Len(sorted) : sorted[i] = sorted[j] => i = j
                            /\ ToSet(sorted) = nodes

\* The default order lets a parent appear before some of its children, never
\* before all of them (GITGraph.m:148-151), when the indegrees it reads are
\* those the build left.
FollowsAChild ==
  order = "date" /\ fresh =>
    \A j \in 1..Len(sorted) :
      Children(sorted[j]) # {} =>
        \E i \in 1..(j - 1) : sorted[i] \in Children(sorted[j])

\* The same of every call of nodesSortedByDate: the comment above it says the
\* walk ignores the indegree of a node.
FollowsAChildAlways ==
  order = "date" =>
    \A j \in 1..Len(sorted) :
      Children(sorted[j]) # {} =>
        \E i \in 1..(j - 1) : sorted[i] \in Children(sorted[j])

\* The node a sort step has just listed is the youngest of those in S.
ListsYoungestOf(S) ==
  \A n \in S \ ToSet(sorted) : sortDate[n] <= sortDate[Last(sorted')]

\* Of the commits that could come next each order by date lists the youngest,
\* also when clocks disagree and a parent is younger than its child: those whose
\* children are all listed with --date-order (git-rev-list.m:147-148), those
\* with a listed child in the default order, which walks from a single start as
\* a priority queue (GITGraph.m:148-149).
TakesYoungest ==
  [][sorted' # sorted =>
       /\ pc = "dateorder" => ListsYoungestOf({n \in nodes : Children(n) \subseteq ToSet(sorted)})
       /\ pc = "date" /\ fresh /\ Cardinality({n \in nodes : Children(n) = {}}) = 1 =>
            ListsYoungestOf({n \in nodes : Children(n) \cap ToSet(sorted) # {}})]_vars

\* Every build and every sort returns.
CallsReturn == ~Idle ~> Idle
=============================================================================
