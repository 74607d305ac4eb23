---------------------------- MODULE SkipCascade ----------------------------
(***************************************************************************)
(* The loop of find_ready_nodes (orbflow-engine/src/dag.rs), node by node,  *)
(* on every acyclic graph over the nodes of wf.nodes, in every definition   *)
(* order and from every combination of node states: it must end with the    *)
(* set of skipped and of ready nodes that Workflow.tla defines outright,    *)
(* which is what the model of the engine uses.                              *)
(***************************************************************************)
EXTENDS Naturals, Sequences, FiniteSets

CONSTANTS
  WfNodes,  \* wf.nodes, in definition order
  Starts    \* the node states a run begins with

ASSUME SkipAssumption ==
  /\ WfNodes \in Seq({WfNodes[k] : k \in DOMAIN WfNodes})
  /\ Starts \subseteq {"Pending", "Queued", "Completed", "Failed", "Skipped"}

VARIABLES
  edges,    \* wf.edges: a condition that holds is "always", one that fails "no"
  entry,    \* the instance when find_ready_nodes was called
  inst,     \* the instance as the loop updates it in place
  pos,      \* position in wf.nodes
  changed,  \* a node was skipped in this pass
  ready,    \* the nodes to return
  returned  \* find_ready_nodes has returned

skipVars == <<edges, entry, inst, pos, changed, ready, returned>>

SkipNode == {WfNodes[j] : j \in DOMAIN WfNodes}

W == INSTANCE Workflow WITH
       NodeSeq <- WfNodes, Edges <- edges, Triggers <- {}, Capabilities <- {},
       NeedsApproval <- {}, Compensable <- {}, MaxAttempts <- [n \in SkipNode |-> 1],
       ExecutionOrder <- WfNodes

\* No node reaches itself: there is a rank that grows along every edge.
Acyclic(E) ==
  \E rank \in [SkipNode -> 1..Len(WfNodes)] : \A e \in E : rank[e.src] < rank[e.dst]

SkipInit ==
  /\ \E G \in SUBSET {p \in SkipNode \X SkipNode : p[1] # p[2]} :
       \E taken \in SUBSET G :
         /\ edges = {[src |-> p[1], dst |-> p[2],
                      cond |-> IF p \in taken THEN "always" ELSE "no"] : p \in G}
         /\ Acyclic(edges)
  /\ \E st \in [SkipNode -> Starts] :
       entry = [nodes |-> [n \in SkipNode |-> [st |-> st[n]]], outs |-> [n \in SkipNode |-> "yes"]]
  /\ inst = entry
  /\ pos = 1 /\ changed = FALSE /\ ready = << >> /\ returned = FALSE

\* The node at the current position is skipped: it is pending, has incoming edges,
\* all predecessors are terminal and no edge is live.
Dead(n) ==
  /\ inst.nodes[n].st = "Pending"
  /\ W!Incoming(n) # {}
  /\ \A e \in W!Incoming(n) : /\ inst.nodes[e.src].st \in W!NodeTerminal
                              /\ ~W!Live(inst, e)

Visit ==
  /\ ~returned /\ pos <= Len(WfNodes)
  /\ pos' = pos + 1
  /\ IF Dead(WfNodes[pos])
     THEN /\ inst' = [inst EXCEPT !.nodes[WfNodes[pos]].st = "Skipped"]
          /\ changed' = TRUE
     ELSE UNCHANGED <<inst, changed>>
  /\ UNCHANGED <<edges, entry, ready, returned>>

\* Mutant of Again: one pass only.
AgainNever == FALSE

\* Another pass follows if this one skipped a node.
Again == changed

NextPass ==
  /\ ~returned /\ pos > Len(WfNodes) /\ Again
  /\ pos' = 1 /\ changed' = FALSE
  /\ UNCHANGED <<edges, entry, inst, ready, returned>>

\* The second loop: pending nodes whose predecessors are all terminal, with a live
\* edge.
Collect ==
  /\ ~returned /\ pos > Len(WfNodes) /\ ~Again
  /\ LET ok(n) == /\ inst.nodes[n].st = "Pending"
                  /\ \A e \in W!Incoming(n) : inst.nodes[e.src].st \in W!NodeTerminal
                  /\ \E e \in W!Incoming(n) : W!Live(inst, e)
     IN ready' = SelectSeq(WfNodes, ok)
  /\ returned' = TRUE
  /\ UNCHANGED <<edges, entry, inst, pos, changed>>

SkipNext == Visit \/ NextPass \/ Collect

SkipSpec == SkipInit /\ [][SkipNext]_skipVars

\* When the loops of find_ready_nodes are over, the nodes skipped and the nodes
\* returned are the ones of the definition, whatever the order of wf.nodes.
LoopMatchesDefinition ==
  returned =>
    /\ inst = W!CascadeSkips(entry)
    /\ {ready[j] : j \in DOMAIN ready} = W!ReadyNodes(inst)

=============================================================================
