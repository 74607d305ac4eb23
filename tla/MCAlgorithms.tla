---------------------------- MODULE MCAlgorithms ----------------------------
(***************************************************************************)
(* The sequential algorithms of the engine, one at a time: the bounded set *)
(* of processed results; the loop of find_ready_nodes on every acyclic     *)
(* graph on three nodes, whose edges go up and down the numbering so that  *)
(* every definition order is met; and the graph algorithms on every graph  *)
(* on four nodes with at most two edges out of a node, self-loops          *)
(* included, with the edges in every order.                                *)
(***************************************************************************)
EXTENDS ResultDedup, SkipCascade, WorkflowGraph

VARIABLE algorithm   \* the one that runs; the others stay as they are

ThreeNodes == <<1, 2, 3>>
Four == 1..4
DistinctLists == {s \in UNION {[1..k -> Four] : k \in 0..2} :
                    \A j, k \in DOMAIN s : s[j] = s[k] => j = k}

\* The state of an algorithm that does not run.
NoStates == [nodes |-> [n \in SkipNode |-> [st |-> "Pending"]], outs |-> [n \in SkipNode |-> "yes"]]
SkipIdle ==
  /\ edges = {} /\ entry = NoStates /\ inst = NoStates
  /\ pos = 1 /\ changed = FALSE /\ ready = << >> /\ returned = FALSE
GraphIdle == adj = [n \in GraphNode |-> << >>] /\ GraphInit

AlgorithmsInit ==
  /\ Init
  /\ \/ algorithm = "dedup" /\ SkipIdle /\ GraphIdle
     \/ algorithm = "skip" /\ SkipInit /\ GraphIdle
     \/ algorithm = "graph" /\ SkipIdle /\ GraphInit

DedupStep == algorithm = "dedup" /\ Next /\ UNCHANGED <<algorithm, skipVars, graphVars>>
SkipStep == algorithm = "skip" /\ SkipNext /\ UNCHANGED <<algorithm, vars, graphVars>>
GraphStep == algorithm = "graph" /\ GraphNext /\ UNCHANGED <<algorithm, vars, skipVars>>

AlgorithmsSpec ==
  AlgorithmsInit /\ [][DedupStep \/ SkipStep \/ GraphStep]_<<algorithm, vars, skipVars, graphVars>>
=============================================================================
