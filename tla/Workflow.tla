------------------------------ MODULE Workflow ------------------------------
(***************************************************************************)
(* A workflow definition, fixed while an instance runs, and the instance    *)
(* record the engine keeps for one run of it                                *)
(* (orbflow-core/src/workflow.rs and execution.rs), with the functions of   *)
(* the engine that read and update such a record without touching the store *)
(* or the bus: readiness and skipping (dag.rs), the merge of a version      *)
(* conflict (save_instance in engine.rs), the saga plan (saga.rs).          *)
(*                                                                          *)
(* Data is abstracted to what control depends on: a node's output is one of *)
(* two values, because an edge condition (a CEL expression over outputs)    *)
(* only decides whether the edge is taken; timestamps are reduced to        *)
(* "started_at is set"; names, inputs, parameters and credentials are left  *)
(* out.                                                                     *)
(***************************************************************************)
EXTENDS Naturals, Sequences, FiniteSets

CONSTANTS
  NodeSeq,        \* wf.nodes: the node ids in definition order
  Edges,          \* wf.edges: records [src, dst, cond]
  Triggers,       \* nodes of kind Trigger
  Capabilities,   \* nodes of kind Capability
  NeedsApproval,  \* nodes with requires_approval
  Compensable,    \* nodes with a compensate config
  MaxAttempts,    \* [node -> retry.max_attempts]; 1 where there is no retry policy
  ExecutionOrder  \* topological_order(wf), see WorkflowGraph.tla

Nodes == {NodeSeq[i] : i \in DOMAIN NodeSeq}
Outputs == {"yes", "no"}
Conditions == {"always"} \cup Outputs

\* What validate_workflow guarantees of a stored definition (requires_approval is
\* offered for actions only), and what topological_order returns for it.
ASSUME WorkflowAssumption ==
  /\ NodeSeq \in Seq(Nodes)
  /\ \A i, j \in DOMAIN NodeSeq : NodeSeq[i] = NodeSeq[j] => i = j
  /\ Edges \subseteq [src : Nodes, dst : Nodes, cond : Conditions]
  /\ Triggers \subseteq Nodes /\ Capabilities \subseteq Nodes
  /\ \A e \in Edges : {e.src, e.dst} \cap Capabilities = {} /\ e.dst \notin Triggers
  /\ NeedsApproval \subseteq Nodes \ (Triggers \cup Capabilities)
  /\ Compensable \subseteq Nodes
  /\ MaxAttempts \in [Nodes -> Nat \ {0}]
  /\ ExecutionOrder \in Seq(Nodes)
  /\ \A n \in Nodes : \E i \in DOMAIN ExecutionOrder : ExecutionOrder[i] = n
  /\ \A i, j \in DOMAIN ExecutionOrder :
       /\ ExecutionOrder[i] = ExecutionOrder[j] => i = j
       /\ [src |-> ExecutionOrder[i], dst |-> ExecutionOrder[j]]
            \in {[src |-> e.src, dst |-> e.dst] : e \in Edges} => i < j

Incoming(n) == {e \in Edges : e.dst = n}

\* Workflow::entry_nodes without the triggers: what dispatch_initial_nodes starts.
EntryActions == {n \in Nodes \ (Triggers \cup Capabilities) : Incoming(n) = {}}

\* The loops of the engine take nodes in definition order, a compensation in the
\* reverse of the execution order: lists of nodes are sets with a first element.
Position(seq, n) == CHOOSE i \in DOMAIN seq : seq[i] = n
FirstDefined(S) ==
  CHOOSE n \in S : \A m \in S : Position(NodeSeq, n) <= Position(NodeSeq, m)
LastExecuted(S) ==
  CHOOSE n \in S : \A m \in S : Position(ExecutionOrder, m) <= Position(ExecutionOrder, n)

-----------------------------------------------------------------------------
(* The instance record. *)

NodeStatus == {"Pending", "Queued", "Completed", "Failed", "Skipped",
               "Cancelled", "WaitingApproval"}
InstanceStatus == {"Pending", "Running", "Completed", "Failed", "Cancelled"}

NodeTerminal == {"Completed", "Failed", "Skipped", "Cancelled"}
InstanceTerminal == {"Completed", "Failed", "Cancelled"}

Status(inst, n) == inst.nodes[n].st
AllNodesTerminal(inst) == \A n \in Nodes : Status(inst, n) \in NodeTerminal
SomeNodeFailed(inst) == \E n \in Nodes : Status(inst, n) = "Failed"
is_terminal(inst) == inst.status \in InstanceTerminal

\* SagaState: completed_nodes is the plan, compensated_nodes what is done of it.
NoSaga == [on |-> FALSE, plan |-> {}, done |-> {}]

\* The record start_workflow creates: version 1, every node pending.
NewInstance ==
  [status |-> "Running", version |-> 1, saga |-> NoSaga,
   nodes |-> [n \in Nodes |-> [st |-> "Pending", att |-> 0, started |-> FALSE]],
   outs |-> [n \in Nodes |-> "none"]]

SetNode(inst, n, ns) == [inst EXCEPT !.nodes[n] = ns]
SetStatus(inst, n, st) == [inst EXCEPT !.nodes[n].st = st]

\* resolve_capabilities and mark_triggers_completed: the capability nodes and the
\* triggers that fired are done before anything is dispatched.
CompleteAtStart(inst, fired) ==
  [inst EXCEPT
     !.nodes = [n \in Nodes |-> IF n \in Capabilities \cup fired
                                THEN [@[n] EXCEPT !.st = "Completed", !.started = TRUE]
                                ELSE @[n]],
     !.outs = [n \in Nodes |-> IF n \in Capabilities \cup fired THEN "yes" ELSE @[n]]]

-----------------------------------------------------------------------------
(* dag.rs *)

\* Mutant of Live: the edge condition is not evaluated.
LiveIgnoringCondition(inst, e) == Status(inst, e.src) = "Completed"

\* An incoming edge is live when its source completed and its condition (absent,
\* or about the source's output) holds; no output makes a condition false.
Live(inst, e) ==
  /\ Status(inst, e.src) = "Completed"
  /\ e.cond \in {"always", inst.outs[e.src]}

\* The nodes the multi-pass cascade skips: pending, with incoming edges whose
\* sources are all terminal (or skipped in turn) and none of which is live.  On an
\* acyclic graph there is exactly one such set; SkipCascade.tla checks that the
\* loop of the code computes it.
Skipped(inst) ==
  CHOOSE S \in SUBSET Nodes :
    S = {n \in Nodes :
           /\ Status(inst, n) = "Pending"
           /\ Incoming(n) # {}
           /\ \A e \in Incoming(n) : /\ ~Live(inst, e)
                                     /\ \/ e.src \in S
                                        \/ Status(inst, e.src) \in NodeTerminal}

CascadeSkips(inst) ==
  LET S == Skipped(inst)
  IN [inst EXCEPT !.nodes = [n \in Nodes |-> IF n \in S
                                             THEN [@[n] EXCEPT !.st = "Skipped"]
                                             ELSE @[n]]]

\* OR-join: all predecessors terminal and at least one live edge.
IsReady(inst, n) ==
  /\ Status(inst, n) = "Pending"
  /\ \A e \in Incoming(n) : Status(inst, e.src) \in NodeTerminal
  /\ \E e \in Incoming(n) : Live(inst, e)

\* The second pass of find_ready_nodes, on a record whose skips were cascaded.
ReadyNodes(inst) == {n \in Nodes : IsReady(inst, n)}

-----------------------------------------------------------------------------
(* The conflict resolution of save_instance. *)

\* Some terminal node of the local record is not terminal in the stored one.
NeedsMerge(loc, fresh) ==
  \E n \in Nodes : /\ Status(loc, n) \in NodeTerminal
                   /\ Status(fresh, n) \notin NodeTerminal

MergeInstanceStatus(fresh, loc) ==
  IF "Failed" \in {fresh, loc} THEN "Failed"
  ELSE IF "Cancelled" \in {fresh, loc} THEN "Cancelled"
  ELSE IF "Completed" \in {fresh, loc} THEN "Completed"
  ELSE IF "Running" \in {fresh, loc} THEN "Running"
  ELSE "Pending"

\* The stored record with the local node states that are further along.  The saga
\* state and the version are the stored ones.
Merge(loc, fresh) ==
  LET takeLocal(n) ==
        \/ Status(loc, n) \in NodeTerminal /\ Status(fresh, n) \notin NodeTerminal
        \/ Status(loc, n) = "Queued" /\ Status(fresh, n) = "Pending"
  IN [fresh EXCEPT
        !.status = MergeInstanceStatus(fresh.status, loc.status),
        !.nodes = [n \in Nodes |-> IF takeLocal(n) THEN loc.nodes[n] ELSE @[n]],
        !.outs = [n \in Nodes |-> IF @[n] = "none" THEN loc.outs[n] ELSE @[n]]]

-----------------------------------------------------------------------------
(* saga.rs *)

HasCompensation(inst) ==
  \E n \in Compensable : Status(inst, n) = "Completed"

\* start_compensation, up to its save: the plan is the completed nodes that have a
\* compensation.
CompensationPlan(inst) == {n \in Compensable : Status(inst, n) = "Completed"}

BeginCompensation(inst) ==
  [inst EXCEPT !.status = "Running",
               !.saga = [on |-> TRUE, plan |-> CompensationPlan(inst), done |-> {}]]

\* finalize_compensation and fail_compensation leave the same state.
EndCompensation(inst) == [inst EXCEPT !.status = "Failed", !.saga.on = FALSE]

PendingCompensations(inst) == inst.saga.plan \ inst.saga.done

\* Mutant of NextCompensation: the plan is walked in execution order.
NextCompensationForward(inst) ==
  CHOOSE n \in PendingCompensations(inst) : \A m \in PendingCompensations(inst) :
    Position(ExecutionOrder, n) <= Position(ExecutionOrder, m)

\* Compensation goes backwards, one node at a time.
NextCompensation(inst) == LastExecuted(PendingCompensations(inst))

=============================================================================
