------------------------- MODULE InstanceLifecycle -------------------------
(***************************************************************************)
(* What the engine promises about a stored instance, whatever it takes to   *)
(* get there (the statuses are those of orbflow-core/src/execution.rs):     *)
(* nodes move along their life cycle, the instance ends as Completed,       *)
(* Failed or Cancelled for a reason, and once it has ended it is frozen.    *)
(***************************************************************************)
CONSTANT Nodes

VARIABLES
  status,  \* the instance's status; "none" before it is created
  node     \* [Nodes -> node status]

vars == <<status, node>>

Over == {"Completed", "Failed", "Skipped", "Cancelled"}

\* The node life cycle.  Pending to Completed is a trigger or a capability; Queued
\* to Pending is a restart; an approved node leaves WaitingApproval as Queued.
Moves ==
  [Pending         |-> {"Queued", "WaitingApproval"} \cup Over,
   Queued          |-> {"Pending", "Completed", "Failed", "Cancelled"},
   WaitingApproval |-> {"Queued", "Failed", "Cancelled"},
   Completed       |-> {}, Failed |-> {}, Skipped |-> {}, Cancelled |-> {}]

Init ==
  /\ status = "none"
  /\ node = [n \in Nodes |-> "Pending"]

Create ==
  /\ status = "none"
  /\ status' = "Running"
  /\ UNCHANGED node

\* One save: any number of nodes move, and the instance may end.
Advance ==
  /\ status = "Running"
  /\ node' \in [Nodes -> DOMAIN Moves]
  /\ \A n \in Nodes : node'[n] \in {node[n]} \cup Moves[node[n]]
  /\ status' \in {"Running", "Completed", "Failed", "Cancelled"}
  /\ status' = "Completed" => \A n \in Nodes : node'[n] \in Over \ {"Failed"}
  /\ status' = "Cancelled" => \A n \in Nodes : node'[n] \in Over

Next == Create \/ Advance

Spec == Init /\ [][Next]_vars

=============================================================================
