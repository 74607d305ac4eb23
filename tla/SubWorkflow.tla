------------------------------ MODULE SubWorkflow ------------------------------
(***************************************************************************)
(* Nodes that start another workflow and wait for it: each call starts a    *)
(* child instance and polls it until it has ended or the call's deadline    *)
(* has passed.  A process-wide semaphore limits how many calls poll at the  *)
(* same time.                                                              *)
(***************************************************************************)
EXTENDS Naturals, FiniteSets

CONSTANTS
  Calls,
  ChildSlots      \* permits of SUB_WORKFLOW_SEMAPHORE (32 in the code)

ASSUME SlotsAssumption == ChildSlots \in Nat \ {0}

VARIABLES
  call,      \* each call: "new", "queued", "asleep", "late" (asleep, the deadline
             \* passed before), "polling", or how it ended:
             \* "ok", "child_failed", "child_cancelled", "timed_out", "broken"
  child,     \* each call's child instance: "none", "running", "completed", "failed", "cancelled"
  expired    \* calls whose deadline has passed

subVars == <<call, child, expired>>

Ended == {"ok", "child_failed", "child_cancelled", "timed_out", "broken"}
Holding == {c \in Calls : call[c] \in {"asleep", "late", "polling"}}

SubWorkflowInit ==
  /\ call = [c \in Calls |-> "new"] /\ child = [c \in Calls |-> "none"] /\ expired = {}

To(c, state) == call' = [call EXCEPT ![c] = state]

\* start_workflow succeeds, and the deadline starts to run ...
StartChild(c) ==
  /\ call[c] = "new" /\ To(c, "queued")
  /\ child' = [child EXCEPT ![c] = "running"]
  /\ UNCHANGED expired

\* ... or there is no such workflow, or the store is down.
StartChildFails(c) == call[c] = "new" /\ To(c, "broken") /\ UNCHANGED <<child, expired>>

\* The first select!: a permit, or the deadline
TakeSlot(c) ==
  /\ call[c] = "queued" /\ Cardinality(Holding) < ChildSlots
  /\ To(c, IF c \in expired THEN "late" ELSE "asleep")
  /\ UNCHANGED <<child, expired>>

\* The second select!: the next poll is due (after 200 ms, doubled up to 10 s),
\* unless the deadline is over already.
Wake(c) == call[c] = "asleep" /\ To(c, "polling") /\ UNCHANGED <<child, expired>>

ExpiresInQueueOnly(c) ==
  /\ call[c] = "queued" /\ c \in expired /\ To(c, "timed_out")
  /\ UNCHANGED <<child, expired>>
\* Either select! ends at the deadline; dropping the permit frees the slot.
GiveUp(c) ==
  /\ call[c] \in {"queued", "asleep", "late"} /\ c \in expired /\ To(c, "timed_out")
  /\ UNCHANGED <<child, expired>>

AnswerOfUnknown(c) == IF child[c] = "failed" THEN "child_failed" ELSE "ok"
AnswerOf(c) ==
  CASE child[c] = "failed" -> "child_failed"
    [] child[c] = "cancelled" -> "child_cancelled"
    [] OTHER -> "ok"

\* get_instance, and what the call makes of it
Poll(c) ==
  /\ call[c] = "polling"
  /\ To(c, IF child[c] = "running" THEN "queued" ELSE AnswerOf(c))
  /\ UNCHANGED <<child, expired>>

PollFails(c) == call[c] = "polling" /\ To(c, "broken") /\ UNCHANGED <<child, expired>>

\* The child ends by itself, is cancelled, or never ends.
ChildEnds(c, status) ==
  /\ child[c] = "running" /\ child' = [child EXCEPT ![c] = status]
  /\ UNCHANGED <<call, expired>>

DeadlinePasses(c) ==
  /\ call[c] \notin Ended \cup {"new"} /\ c \notin expired /\ expired' = expired \cup {c}
  /\ UNCHANGED <<call, child>>

SubWorkflowNext ==
  \E c \in Calls :
    \/ StartChild(c) \/ StartChildFails(c) \/ TakeSlot(c) \/ Wake(c) \/ GiveUp(c) \/ Poll(c) \/ PollFails(c)
    \/ \E status \in {"completed", "failed", "cancelled"} : ChildEnds(c, status)
    \/ DeadlinePasses(c)

\* Timers fire and store calls return; nothing makes a child end, and nothing
\* orders the calls that wait for a slot.
SubWorkflowFairness ==
  \A c \in Calls : WF_subVars(Wake(c)) /\ WF_subVars(GiveUp(c)) /\ WF_subVars(Poll(c)) /\ WF_subVars(DeadlinePasses(c))

SubWorkflowSpec == SubWorkflowInit /\ [][SubWorkflowNext]_subVars /\ SubWorkflowFairness

(***************************************************************************)
(* Properties                                                              *)
(***************************************************************************)
AnswersForItsChild(c) ==
  /\ call[c] = "ok" => child[c] = "completed"
  /\ call[c] = "child_failed" => child[c] = "failed"
  /\ call[c] = "child_cancelled" => child[c] = "cancelled"

\* Every call ends and frees its slot, even if children never end and all slots
\* are taken; and what it reports is the end of its own child: success only of a
\* child that completed, failure or cancellation only of one that failed or was
\* cancelled.
CallsEnd ==
  \A c \in Calls : call[c] # "new" ~> [](call[c] \in Ended /\ AnswersForItsChild(c))
================================================================================
