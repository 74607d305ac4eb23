--------------------------- MODULE WorkflowGraph ---------------------------
(***************************************************************************)
(* The graph algorithms a workflow definition goes through: validate_workflow *)
(* (orbflow-core/src/validate.rs) looks for cycles with an iterative        *)
(* depth-first search, then for nodes that no entry node reaches; a saga     *)
(* later sorts an accepted definition with Kahn's algorithm                 *)
(* (orbflow-engine/src/topo.rs).  Each loop iteration is a step; the graphs *)
(* are all those whose adjacency lists are in Lists, cyclic ones included.  *)
(* Nodes of kind Capability have no edges: both checks pass over them, and  *)
(* the sort yields each with the entry nodes, so they are left out.         *)
(***************************************************************************)
EXTENDS Naturals, Sequences, FiniteSets

CONSTANTS
  N,     \* the nodes are 1..N, in the order of wf.nodes
  Lists  \* the lists of targets a node may have, in the order of wf.edges

ASSUME GraphAssumption == N \in Nat \ {0} /\ Lists \subseteq Seq(1..N)

VARIABLES
  adj,    \* the adjacency lists, fixed
  phase,  \* "cycles", "connectivity", "sort" or "end"
  verdict,\* "none" or the error validate_workflow returns
  color,  \* detect_cycles: white, gray or black
  stack,  \* detect_cycles: frames [node, idx]
  seen,   \* check_connectivity: visited
  queue,  \* check_connectivity and topological_order
  deg,    \* topological_order: in_degree
  topo   \* topological_order: the result

graphVars == <<adj, phase, verdict, color, stack, seen, queue, deg, topo>>
dfs == <<color, stack>>
bfs == <<seen, queue>>
kahn == <<deg, topo>>

GraphNode == 1..N
Targets(n) == {adj[n][j] : j \in DOMAIN adj[n]}
InDegree(n) == Cardinality({m \in GraphNode : n \in Targets(m)})
Ascending == [n \in GraphNode |-> n]
EntryNodes == SelectSeq(Ascending, LAMBDA n : InDegree(n) = 0)
Last(s) == s[Len(s)]

GraphInit ==
  /\ adj \in [GraphNode -> Lists]
  /\ color = [n \in GraphNode |-> "white"] /\ stack = << >>
  /\ seen = {} /\ queue = << >>
  /\ deg = [n \in GraphNode |-> 0] /\ topo = << >>
  /\ verdict = IF EntryNodes = << >> THEN "NoEntryNodes" ELSE "none"
  /\ phase = IF EntryNodes = << >> THEN "end" ELSE "cycles"

-----------------------------------------------------------------------------
(* detect_cycles *)

\* The outer loop: the next node that is still white.
SearchFrom ==
  /\ phase = "cycles" /\ stack = << >>
  /\ \E n \in GraphNode :
       /\ color[n] = "white" /\ \A m \in 1..(n - 1) : color[m] # "white"
       /\ color' = [color EXCEPT ![n] = "gray"]
       /\ stack' = <<[node |-> n, idx |-> 1]>>
  /\ UNCHANGED <<adj, phase, verdict, bfs, kahn>>

\* Mutant of Retreat: a finished node stays gray.
RetreatStaysGray ==
  /\ phase = "cycles" /\ stack # << >>
  /\ Last(stack).idx > Len(adj[Last(stack).node])
  /\ stack' = SubSeq(stack, 1, Len(stack) - 1)
  /\ UNCHANGED <<adj, phase, verdict, color, bfs, kahn>>

\* All neighbours of the node on top were visited.
Retreat ==
  /\ phase = "cycles" /\ stack # << >>
  /\ Last(stack).idx > Len(adj[Last(stack).node])
  /\ color' = [color EXCEPT ![Last(stack).node] = "black"]
  /\ stack' = SubSeq(stack, 1, Len(stack) - 1)
  /\ UNCHANGED <<adj, phase, verdict, bfs, kahn>>

\* The next neighbour of the node on top: a gray one closes a cycle, a white one is
\* entered, a black one passed over.
Advance ==
  /\ phase = "cycles" /\ stack # << >>
  /\ LET top == Last(stack)
         next == adj[top.node][top.idx]
         moved == [stack EXCEPT ![Len(stack)].idx = @ + 1]
     IN /\ top.idx <= Len(adj[top.node])
        /\ IF color[next] = "gray"
           THEN phase' = "end" /\ verdict' = "CycleDetected"
           ELSE UNCHANGED <<phase, verdict>>
        /\ IF color[next] = "white"
           THEN /\ color' = [color EXCEPT ![next] = "gray"]
                /\ stack' = Append(moved, [node |-> next, idx |-> 1])
           ELSE color' = color /\ stack' = moved
  /\ UNCHANGED <<adj, bfs, kahn>>

NoCycle ==
  /\ phase = "cycles" /\ stack = << >> /\ \A n \in GraphNode : color[n] # "white"
  /\ phase' = "connectivity"
  /\ queue' = EntryNodes
  /\ seen' = {n \in GraphNode : InDegree(n) = 0}
  /\ UNCHANGED <<adj, verdict, dfs, kahn>>

-----------------------------------------------------------------------------
(* check_connectivity *)

Reach ==
  /\ phase = "connectivity" /\ queue # << >>
  /\ queue' = Tail(queue) \o SelectSeq(adj[Head(queue)], LAMBDA n : n \notin seen)
  /\ seen' = seen \cup Targets(Head(queue))
  /\ UNCHANGED <<adj, phase, verdict, dfs, kahn>>

\* An accepted definition is sorted when a saga starts.
Connected ==
  /\ phase = "connectivity" /\ queue = << >>
  /\ IF seen = GraphNode
     THEN /\ phase' = "sort" /\ UNCHANGED verdict
          /\ deg' = [n \in GraphNode |-> InDegree(n)]
          /\ queue' = EntryNodes
     ELSE phase' = "end" /\ verdict' = "Disconnected" /\ UNCHANGED <<deg, queue>>
  /\ UNCHANGED <<adj, dfs, seen, topo>>

-----------------------------------------------------------------------------
(* topological_order *)

\* Mutant of Freed: a node is queued as soon as one predecessor is out.
FreedEarly(cur) == SelectSeq(adj[cur], LAMBDA n : deg[n] = InDegree(n))

\* The neighbours of cur whose last predecessor is cur.
Freed(cur) == SelectSeq(adj[cur], LAMBDA n : deg[n] = 1)

Take ==
  /\ phase = "sort" /\ queue # << >>
  /\ LET cur == Head(queue)
     IN /\ topo' = Append(topo, cur)
        /\ deg' = [n \in GraphNode |-> IF n \in Targets(cur) THEN deg[n] - 1 ELSE deg[n]]
        /\ queue' = Tail(queue) \o Freed(cur)
  /\ UNCHANGED <<adj, phase, verdict, dfs, seen>>

Sorted ==
  /\ phase = "sort" /\ queue = << >>
  /\ phase' = "end"
  /\ UNCHANGED <<adj, verdict, dfs, bfs, kahn>>

GraphNext == SearchFrom \/ Advance \/ Retreat \/ NoCycle \/ Reach \/ Connected \/ Take \/ Sorted

GraphSpec == GraphInit /\ [][GraphNext]_graphVars

-----------------------------------------------------------------------------
\* A cycle: a set of nodes each of which has a successor in it.
Cyclic == \E S \in SUBSET GraphNode \ {{}} : \A n \in S : Targets(n) \cap S # {}

\* validate_workflow rejects exactly the cyclic graphs: none slips through, none of
\* the acyclic ones is refused, not even by the connectivity check, which on an
\* acyclic graph finds every node.
RejectsExactlyCycles == phase = "end" => (verdict # "none" <=> Cyclic)

\* The order of an accepted definition names every node once, and every node after
\* all its predecessors.  (ExecutionOrder of Workflow.tla is assumed to be such an
\* order.)
OrderIsTopological ==
  phase = "end" /\ verdict = "none" =>
    /\ Len(topo) = N /\ {topo[j] : j \in 1..N} = GraphNode
    /\ \A j, k \in 1..N : topo[k] \in Targets(topo[j]) => j < k

\* Validation and topological_order together: a definition is either rejected for a
\* cycle it has, or its saga order exists and is topological.
SortedIffAcyclic == RejectsExactlyCycles /\ OrderIsTopological

=============================================================================
