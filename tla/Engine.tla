------------------------------- MODULE Engine -------------------------------
(***************************************************************************)
(* The coordinator (orbflow-engine/src/engine.rs, saga.rs, resume.rs) while  *)
(* it runs one workflow instance, with the store it saves to, the bus that  *)
(* carries tasks and results at least once, and the workers.  Instances do  *)
(* not interact, so one is enough.                                          *)
(*                                                                          *)
(* An operation of the engine reads the stored instance once, works on its  *)
(* local copy, and calls the store and the bus in between: save_instance    *)
(* (optimistic locking on the version), publish.  Every such call is one    *)
(* step here; what the code computes between two calls belongs to the step  *)
(* before.  All operations but start_workflow hold the instance's mutex, so *)
(* two processes are enough: "start" and "locked", the one that holds it.   *)
(* (cleanup_instance drops the mutex of a terminal instance, after which    *)
(* two operations can run at once; they find nothing left to do.)           *)
(***************************************************************************)
EXTENDS Workflow

CONSTANTS
  SAVE_INSTANCE_MAX_RETRIES,  \* merges save_instance tries before giving up
  Flaky,          \* nodes whose execution may fail
  FlakyUndo,      \* nodes whose compensation may fail
  UserOps,        \* subset of {"cancel", "approve", "reject"}
  FaultKinds,     \* subset of AllFaults: what may go wrong in this environment
  MaxFaults,      \* bound: how often, in total
  RacingStart,    \* TRUE: other operations may run while start_workflow does
  ResumeListsNew  \* TRUE: an instance may be created before resume_running lists

AllFaults ==
  {"crash",        \* the engine process dies after start_workflow returned
   "crashInStart", \* ... or while it is in progress
   "dup",          \* a task or a result is delivered again (lost ack, worker crash)
   "resolve",      \* input mapping, credential or capability resolution fails
   "bus",          \* publish fails
   "store",        \* update_instance fails for a reason other than a conflict
   "budget"}       \* the execution budget is exceeded

ASSUME EngineAssumption ==
  /\ SAVE_INSTANCE_MAX_RETRIES \in Nat
  /\ Flaky \subseteq Nodes /\ FlakyUndo \subseteq Compensable
  /\ UserOps \subseteq {"cancel", "approve", "reject"}
  /\ FaultKinds \subseteq AllFaults /\ MaxFaults \in Nat
  /\ RacingStart \in BOOLEAN /\ ResumeListsNew \in BOOLEAN

VARIABLES
  db,        \* the stored instance; version 0: not created yet
  proc,      \* the operations in progress: [op, k, inst, todo, att, try, msg]
  tasks,     \* TaskMessages not acknowledged: [node, att, undo]
  results,   \* ResultMessages not acknowledged: [node, att, undo, ok, out]
  sleeping,  \* results whose handler waits out a retry delay without the mutex
  boot,      \* "list", "resume" or "up": how far Engine::start has come
  faults,    \* faults so far
  produced   \* history: every result a worker has produced

vars == <<db, proc, tasks, results, sleeping, boot, faults, produced>>
bus == <<tasks, results, produced>>

Procs == {"start", "locked"}
Ops == {"none", "start", "result", "retry", "cancel", "approve", "reject", "resume"}
Exists == db.version > 0

NoMsg == [node |-> "none", att |-> 0, undo |-> FALSE, ok |-> FALSE, out |-> "none"]

\* A process between operations.  k is what is left to do (a stack of labels), inst
\* the local copy, todo the nodes to dispatch, att the attempt in the task being
\* dispatched, try the merges of the current save, msg the result being handled.
Idle == [op |-> "none", k |-> << >>, inst |-> NewInstance, todo |-> {}, att |-> 1,
         try |-> 0, msg |-> NoMsg]

Init ==
  /\ db = [NewInstance EXCEPT !.version = 0]
  /\ proc = [p \in Procs |-> Idle]
  /\ tasks = {} /\ results = {} /\ sleeping = {} /\ produced = {}
  /\ boot = "list"
  /\ faults = 0

\* A fault of this kind is possible and happens now.
Fault(kind) ==
  /\ kind \in FaultKinds
  /\ faults < MaxFaults
  /\ faults' = faults + 1

At(p, label) == proc[p].k # << >> /\ Head(proc[p].k) = label

\* Process p goes on with record r; it is idle again when nothing is left.
Continue(p, r) == proc' = [proc EXCEPT ![p] = IF r.k = << >> THEN Idle ELSE r]
Pop(r) == [r EXCEPT !.k = Tail(@)]
Abort(r) == [r EXCEPT !.k = << >>]

\* An operation takes the mutex and reads the stored instance.
Begin(op, inst, todo, k, msg) ==
  Continue("locked", [op |-> op, k |-> k, inst |-> inst, todo |-> todo,
                      att |-> 1, try |-> 0, msg |-> msg])

CanLock ==
  /\ Exists
  /\ proc["locked"] = Idle
  /\ RacingStart \/ proc["start"] = Idle

-----------------------------------------------------------------------------
(* start_workflow: not under the mutex. *)

\* create_instance_tx, then capabilities and triggers; the dispatching follows.
\* The triggers that fire are the one the caller names, those of a type, or all.
StartWorkflow ==
  /\ ~Exists
  /\ boot = "up" \/ ResumeListsNew
  /\ db' = NewInstance
  /\ \E fired \in {F \in SUBSET Triggers : F = {} <=> Triggers = {}} :
       Continue("start",
         [Idle EXCEPT !.op = "start",
            !.inst = CompleteAtStart(NewInstance, fired),
            !.todo = EntryActions,
            !.k = IF fired = {} THEN <<"dispatch", "finish", "save">>
                  ELSE <<"dispatch", "ready", "dispatch", "finish", "save">>])
  /\ UNCHANGED <<bus, sleeping, boot, faults>>

\* resolve_capabilities fails, or mark_triggers_completed, because the input names a
\* trigger that is not there: start_workflow returns the error, the instance it created
\* stays as it is.
StartAborts ==
  /\ ~Exists
  /\ boot = "up" \/ ResumeListsNew
  /\ Capabilities # {} \/ Triggers # {}
  /\ Fault("resolve")
  /\ db' = NewInstance
  /\ UNCHANGED <<bus, proc, sleeping, boot>>

-----------------------------------------------------------------------------
(* dispatch_node, called in a loop over the nodes todo. *)

\* The approval gate stops a node that is not already approved (Queued).
Gated(inst, n) == n \in NeedsApproval /\ Status(inst, n) # "Queued"

WaitingNode(ns) == [ns EXCEPT !.st = "WaitingApproval", !.started = TRUE]

Gate(p) ==
  /\ At(p, "dispatch") /\ proc[p].todo # {}
  /\ LET r == proc[p]
         n == FirstDefined(r.todo)
     IN /\ Gated(r.inst, n)
        /\ Continue(p, [r EXCEPT !.todo = @ \ {n},
                                 !.inst = SetNode(@, n, WaitingNode(@.nodes[n]))])
  /\ UNCHANGED <<bus, db, sleeping, boot, faults>>

\* Mutant of QueuedNode: the attempt of the first dispatch stays 0.
QueuedNodeAttemptZero(ns) == [ns EXCEPT !.st = "Queued", !.started = TRUE]

QueuedNode(ns) ==
  [st |-> "Queued", started |-> TRUE, att |-> IF ns.att = 0 THEN 1 ELSE ns.att]

\* Mutant of QueueNode: the task is published without saving first.
QueueNodeUnsaved(p) ==
  /\ At(p, "dispatch") /\ proc[p].todo # {}
  /\ LET r == proc[p]
         n == FirstDefined(r.todo)
     IN /\ ~Gated(r.inst, n)
        /\ Continue(p, [r EXCEPT !.k = <<"publish">> \o @,
                                 !.inst = SetNode(@, n, QueuedNode(@.nodes[n])),
                                 !.att = QueuedNode(r.inst.nodes[n]).att])
  /\ UNCHANGED <<bus, db, sleeping, boot, faults>>

\* Otherwise the node is queued, the instance saved, then the task published.
QueueNode(p) ==
  /\ At(p, "dispatch") /\ proc[p].todo # {}
  /\ LET r == proc[p]
         n == FirstDefined(r.todo)
     IN /\ ~Gated(r.inst, n)
        /\ Continue(p, [r EXCEPT !.k = <<"save", "publish">> \o @,
                                 !.inst = SetNode(@, n, QueuedNode(@.nodes[n])),
                                 !.att = QueuedNode(r.inst.nodes[n]).att])
  /\ UNCHANGED <<bus, db, sleeping, boot, faults>>

\* The input mapping or a credential cannot be resolved.
DispatchFails(p) ==
  /\ At(p, "dispatch") /\ proc[p].todo # {}
  /\ Fault("resolve")
  /\ LET r == proc[p]
         n == FirstDefined(r.todo)
     IN Continue(p, [r EXCEPT !.k = <<"dispatchError">>,
                              !.inst = SetNode(@, n, IF Gated(@, n)
                                                     THEN WaitingNode(@.nodes[n])
                                                     ELSE QueuedNode(@.nodes[n]))])
  /\ UNCHANGED <<bus, db, sleeping, boot>>

Publish(p) ==
  /\ At(p, "publish")
  /\ LET r == proc[p]
         n == FirstDefined(r.todo)
     IN \/ /\ tasks' = tasks \cup {[node |-> n, att |-> r.att, undo |-> FALSE]}
           /\ Continue(p, [Pop(r) EXCEPT !.todo = @ \ {n}])
           /\ UNCHANGED faults
        \/ /\ Fault("bus")
           /\ Continue(p, [r EXCEPT !.k = <<"dispatchError">>])
           /\ UNCHANGED tasks
  /\ UNCHANGED <<db, results, produced, sleeping, boot>>

DispatchDone(p) ==
  /\ At(p, "dispatch") /\ proc[p].todo = {}
  /\ Continue(p, Pop(proc[p]))
  /\ UNCHANGED <<bus, db, sleeping, boot, faults>>

\* handle_node_dispatch_error (mark_node_dispatch_failed bumps the version once
\* more), and what its caller does next.
DispatchError(p) ==
  /\ At(p, "dispatchError")
  /\ LET r == proc[p]
         failed == [SetStatus(r.inst, FirstDefined(r.todo), "Failed") EXCEPT
                      !.status = "Failed", !.version = @ + 1]
         saga == HasCompensation(failed)
         rest == CASE r.op = "start" -> <<"finish", "save">>
                   [] r.op \in {"result", "retry"} -> <<"save", "ack">>
                   [] OTHER -> <<"save">>
     IN Continue(p, [r EXCEPT
          !.todo = {},
          !.inst = IF saga THEN BeginCompensation(failed) ELSE CascadeSkips(failed),
          !.k = IF saga THEN <<"save", "comp">> \o rest ELSE rest])
  /\ UNCHANGED <<bus, db, sleeping, boot, faults>>

\* ... or the append of one of its two events fails, and the operation ends.
DispatchErrorLost(p) ==
  /\ At(p, "dispatchError")
  /\ Fault("store")
  /\ Continue(p, Abort(proc[p]))
  /\ UNCHANGED <<bus, db, sleeping, boot>>

\* find_ready_nodes, where it follows a call (start after the entry nodes, resume
\* after its save; resume saves again only if something was ready).
FindReady(p) ==
  /\ At(p, "ready")
  /\ LET r == proc[p]
         inst == CascadeSkips(r.inst)
         q == [Pop(r) EXCEPT !.inst = inst, !.todo = ReadyNodes(inst)]
     IN Continue(p, IF r.op = "resume" /\ q.todo = {} THEN Abort(q) ELSE q)
  /\ UNCHANGED <<bus, db, sleeping, boot, faults>>

\* Mutant of Finished: the node states are not looked at.
FinishedEarly(r) == [r.inst EXCEPT !.status = "Completed"]

\* The instance's status once every node is terminal.
Finished(r) ==
  IF ~AllNodesTerminal(r.inst) \/ (r.op = "start" /\ r.inst.status = "Failed")
  THEN r.inst
  ELSE [r.inst EXCEPT !.status = IF r.op = "result" /\ SomeNodeFailed(r.inst)
                                 THEN "Failed" ELSE "Completed"]

Finish(p) ==
  /\ At(p, "finish")
  /\ Continue(p, [Pop(proc[p]) EXCEPT !.inst = Finished(proc[p])])
  /\ UNCHANGED <<bus, db, sleeping, boot, faults>>

-----------------------------------------------------------------------------
(* save_instance *)

Bumped(inst) == [inst EXCEPT !.version = @ + 1]

\* An error of save_instance: inside dispatch_node it is a dispatch error; anywhere
\* else it ends the operation, and a result is negatively acknowledged.
SaveFailed(r) ==
  IF Len(r.k) > 1 /\ r.k[2] = "publish"
  THEN [r EXCEPT !.k = <<"dispatchError">>, !.try = 0]
  ELSE Abort(r)

\* update_instance: the stored version must be the one before the new one.
SaveWins(inst) == db.version = inst.version

Save(p) ==
  /\ At(p, "save") /\ SaveWins(proc[p].inst)
  /\ db' = Bumped(proc[p].inst)
  /\ Continue(p, [Pop(proc[p]) EXCEPT !.inst = Bumped(@), !.try = 0])
  /\ UNCHANGED <<bus, sleeping, boot, faults>>

SaveConflict(p) ==
  /\ At(p, "save") /\ ~SaveWins(proc[p].inst)
  /\ Continue(p, [proc[p] EXCEPT !.inst = Bumped(@), !.k = <<"refetch">> \o @])
  /\ UNCHANGED <<bus, db, sleeping, boot, faults>>

SaveError(p) ==
  /\ At(p, "save")
  /\ Fault("store")
  /\ Continue(p, [SaveFailed(proc[p]) EXCEPT !.inst = Bumped(@)])
  /\ UNCHANGED <<bus, db, sleeping, boot>>

\* After a conflict: read the stored instance; if none of the local terminal states
\* is missing there, report success as it is, else merge and try again.
Refetch(p) ==
  /\ At(p, "refetch") /\ proc[p].try < SAVE_INSTANCE_MAX_RETRIES
  /\ LET r == proc[p]
     IN Continue(p,
          IF NeedsMerge(r.inst, db)
          THEN [Pop(r) EXCEPT !.inst = Merge(@, db), !.try = @ + 1]
          ELSE [Pop(Pop(r)) EXCEPT !.try = 0])
  /\ UNCHANGED <<bus, db, sleeping, boot, faults>>

RefetchError(p) ==
  /\ At(p, "refetch") /\ proc[p].try < SAVE_INSTANCE_MAX_RETRIES
  /\ Fault("store")
  /\ Continue(p, SaveFailed(Pop(proc[p])))
  /\ UNCHANGED <<bus, db, sleeping, boot>>

\* Too many conflicts: force the stored instance to Failed (unless that update
\* loses a race as well) and report an error.
GiveUp(p) ==
  /\ At(p, "refetch") /\ proc[p].try >= SAVE_INSTANCE_MAX_RETRIES
  /\ \/ db' = IF is_terminal(db) THEN db ELSE Bumped([db EXCEPT !.status = "Failed"])
     \/ UNCHANGED db
  /\ Continue(p, SaveFailed(Pop(proc[p])))
  /\ UNCHANGED <<bus, sleeping, boot, faults>>

-----------------------------------------------------------------------------
(* handle_node_result *)

\* Mutant of ResultExpected: the attempt is not compared.
ResultExpectedAnyAttempt(inst, m) == ~m.undo /\ Status(inst, m.node) = "Queued"

\* validate_node_result_identity.  Anything else is an error: the bus keeps the
\* message and delivers it again later, which changes nothing here.
ResultExpected(inst, m) ==
  /\ ~m.undo
  /\ Status(inst, m.node) = "Queued"
  /\ inst.nodes[m.node].att = m.att

IsCompensationResult(inst, m) == m.undo /\ inst.saga.on /\ m.node \in inst.saga.plan

\* Mutant of AllCompensated: the saga ends with its first confirmed compensation.
AllCompensatedFirst(saga) == saga.done # {}

AllCompensated(saga) == saga.done = saga.plan

\* handle_compensation_result.  A result that was already counted is ignored.
CompensationResult(m) ==
  /\ IsCompensationResult(db, m)
  /\ LET counted == [db EXCEPT !.saga.done = @ \cup {m.node}]
     IN IF m.node \in db.saga.done THEN Begin("result", db, {}, <<"ack">>, m)
        ELSE IF ~m.ok THEN Begin("result", EndCompensation(db), {}, <<"save", "ack">>, m)
        ELSE IF AllCompensated(counted.saga)
             THEN Begin("result", EndCompensation(counted), {}, <<"save", "ack">>, m)
        ELSE Begin("result", counted, {}, <<"save", "comp", "ack">>, m)
  /\ UNCHANGED faults

LateResult(m) ==
  /\ ~IsCompensationResult(db, m)
  /\ is_terminal(db)
  /\ Begin("result", db, {}, <<"ack">>, m)
  /\ UNCHANGED faults

\* The node is retried if its policy allows another attempt; otherwise it failed,
\* and the instance compensates or fails.
ErrorResult(m) ==
  /\ ~is_terminal(db) /\ ResultExpected(db, m) /\ ~m.ok
  /\ LET retried == SetNode(db, m.node, [st |-> "Queued", att |-> m.att + 1, started |-> FALSE])
         failed == SetStatus(db, m.node, "Failed")
     IN IF m.att < MaxAttempts[m.node]
        THEN Begin("result", retried, {}, <<"save", "sleep">>, m)
        ELSE IF HasCompensation(failed)
        THEN Begin("result", BeginCompensation(failed), {}, <<"save", "comp", "ack">>, m)
        ELSE Begin("result", [failed EXCEPT !.status = "Failed"], {}, <<"save", "ack">>, m)
  /\ UNCHANGED faults

\* The node completed: skips cascade and the ready nodes are dispatched, unless
\* the execution budget is now exceeded.
SuccessResult(m) ==
  /\ ~is_terminal(db) /\ ResultExpected(db, m) /\ m.ok
  /\ LET completed == SetStatus(db, m.node, "Completed")
         inst == CascadeSkips([completed EXCEPT !.outs[m.node] = m.out])
     IN \/ /\ Begin("result", inst, ReadyNodes(inst), <<"dispatch", "finish", "save", "ack">>, m)
           /\ UNCHANGED faults
        \/ /\ Fault("budget")
           /\ Begin("result", [completed EXCEPT !.status = "Failed"], {}, <<"save", "ack">>, m)

HandleResult ==
  /\ CanLock
  /\ \E m \in results :
       \/ CompensationResult(m)
       \/ LateResult(m)
       \/ ErrorResult(m)
       \/ SuccessResult(m)
  /\ UNCHANGED <<bus, db, sleeping, boot>>

\* The mutex is dropped and the retry delay waited out.
Sleep(p) ==
  /\ At(p, "sleep")
  /\ sleeping' = sleeping \cup {proc[p].msg}
  /\ Continue(p, Pop(proc[p]))
  /\ UNCHANGED <<bus, db, boot, faults>>

\* dispatch_retry_after_lock: the node is dispatched only if it still waits for it.
RetryDispatch ==
  /\ CanLock
  /\ \E m \in sleeping :
       LET waiting == /\ ~is_terminal(db)
                      /\ Status(db, m.node) = "Queued"
                      /\ ~db.nodes[m.node].started
       IN /\ sleeping' = sleeping \ {m}
          /\ IF waiting THEN Begin("retry", db, {m.node}, <<"dispatch", "ack">>, m)
                        ELSE Begin("retry", db, {}, <<"ack">>, m)
  /\ UNCHANGED <<bus, db, boot, faults>>

\* The handler returned Ok: the bus drops the message, unless the ack is lost.
Ack(p) ==
  /\ At(p, "ack")
  /\ \/ results' = results \ {proc[p].msg} /\ UNCHANGED faults
     \/ Fault("dup") /\ UNCHANGED results
  /\ Continue(p, Pop(proc[p]))
  /\ UNCHANGED <<db, tasks, produced, sleeping, boot>>

-----------------------------------------------------------------------------
(* saga.rs: dispatch_pending_compensations *)

\* The first compensation that is not confirmed is sent; a failure to send is only
\* logged.  Nothing happens without an active saga.
Compensate(p) ==
  /\ At(p, "comp")
  /\ LET r == proc[p]
         pending == PendingCompensations(r.inst)
         undo == [node |-> NextCompensation(r.inst), att |-> 1, undo |-> TRUE]
     IN /\ Continue(p, IF r.inst.saga.on /\ pending = {}
                       THEN [Pop(r) EXCEPT !.inst = EndCompensation(@)]
                       ELSE Pop(r))
        /\ IF r.inst.saga.on /\ pending # {}
           THEN \/ tasks' = tasks \cup {undo} /\ UNCHANGED faults
                \/ (Fault("bus") \/ Fault("resolve")) /\ UNCHANGED tasks
           ELSE UNCHANGED <<tasks, faults>>
  /\ UNCHANGED <<db, results, produced, sleeping, boot>>

-----------------------------------------------------------------------------
(* The operations users call. *)

\* Mutant of CancelledNodes: a node that waits for an approval goes on waiting.
CancelledNodesInFlight(inst) ==
  [n \in Nodes |-> IF Status(inst, n) \in NodeTerminal \cup {"WaitingApproval"}
                   THEN inst.nodes[n]
                   ELSE [inst.nodes[n] EXCEPT !.st = "Cancelled"]]

CancelledNodes(inst) ==
  [n \in Nodes |-> IF Status(inst, n) \in NodeTerminal THEN inst.nodes[n]
                   ELSE [inst.nodes[n] EXCEPT !.st = "Cancelled"]]

CancelInstance ==
  /\ "cancel" \in UserOps
  /\ CanLock /\ ~is_terminal(db)
  /\ Begin("cancel", [db EXCEPT !.status = "Cancelled", !.nodes = CancelledNodes(db)],
           {}, <<"save">>, NoMsg)
  /\ UNCHANGED <<bus, db, sleeping, boot, faults>>

ApproveNode ==
  /\ "approve" \in UserOps
  /\ CanLock /\ ~is_terminal(db)
  /\ \E n \in Nodes :
       /\ Status(db, n) = "WaitingApproval"
       /\ Begin("approve", SetStatus(db, n, "Queued"), {n}, <<"dispatch", "save">>, NoMsg)
  /\ UNCHANGED <<bus, db, sleeping, boot, faults>>

RejectNode ==
  /\ "reject" \in UserOps
  /\ CanLock /\ ~is_terminal(db)
  /\ \E n \in Nodes :
       /\ Status(db, n) = "WaitingApproval"
       /\ Begin("reject", [SetStatus(db, n, "Failed") EXCEPT !.status = "Failed"],
                {}, <<"save">>, NoMsg)
  /\ UNCHANGED <<bus, db, sleeping, boot, faults>>

-----------------------------------------------------------------------------
(* Crash and recovery: resume.rs *)

\* The process dies: the operations in progress and the sleeping handlers are gone,
\* unacknowledged messages stay with the bus.
Crash ==
  /\ boot = "up"
  /\ Exists
  /\ Fault(IF proc["start"] = Idle THEN "crash" ELSE "crashInStart")
  /\ proc' = [p \in Procs |-> Idle]
  /\ sleeping' = {}
  /\ boot' = "list"
  /\ UNCHANGED <<bus, db>>

\* resume_running lists the running instances, after the subscription to results.
ListRunning ==
  /\ boot = "list"
  /\ boot' = IF Exists /\ db.status = "Running" THEN "resume" ELSE "up"
  /\ UNCHANGED <<bus, db, proc, sleeping, faults>>

\* Mutant of Reset: nodes in flight are left alone.
ResetNothing(inst) == inst

\* Nodes in flight go back to pending, as a new attempt.
Reset(inst) ==
  LET again(ns) == [ns EXCEPT !.st = "Pending", !.att = ns.att + 1]
  IN [inst EXCEPT !.nodes = [n \in Nodes |-> IF Status(inst, n) = "Queued"
                                             THEN again(inst.nodes[n]) ELSE inst.nodes[n]]]

\* Then, under the mutex, each one that is still not terminal is driven on.
Resume ==
  /\ boot = "resume" /\ CanLock
  /\ boot' = "up"
  /\ IF is_terminal(db) THEN UNCHANGED proc
     ELSE IF db.saga.on
     THEN Begin("resume", db, {}, <<"comp", "save">>, NoMsg)
     ELSE Begin("resume", Reset(db), {}, <<"save", "ready", "dispatch", "save">>, NoMsg)
  /\ UNCHANGED <<bus, db, sleeping, faults>>

-----------------------------------------------------------------------------
(* The workers (worker.rs): one result per execution; a task is acknowledged   *)
(* after its result was published, so a crash in between executes it again.    *)

Execute ==
  /\ \E t \in tasks, ok \in BOOLEAN, out \in Outputs :
       LET m == [node |-> t.node, att |-> t.att, undo |-> t.undo, ok |-> ok,
                 out |-> IF ok THEN out ELSE "none"]
           conditional == \E e \in Edges : e.src = t.node /\ e.cond # "always"
       IN /\ ok \/ t.node \in (IF t.undo THEN FlakyUndo ELSE Flaky)
          /\ out = "yes" \/ conditional
          /\ results' = results \cup {m}
          /\ produced' = produced \cup {m}
          /\ \/ tasks' = tasks \ {t} /\ UNCHANGED faults
             \/ Fault("dup") /\ UNCHANGED tasks
  /\ UNCHANGED <<db, proc, sleeping, boot>>

-----------------------------------------------------------------------------
EngineStep(p) ==
  \/ Gate(p) \/ QueueNode(p) \/ DispatchFails(p) \/ Publish(p) \/ DispatchDone(p)
  \/ DispatchError(p) \/ DispatchErrorLost(p) \/ FindReady(p) \/ Finish(p)
  \/ Save(p) \/ SaveConflict(p) \/ SaveError(p)
  \/ Refetch(p) \/ RefetchError(p) \/ GiveUp(p)
  \/ Sleep(p) \/ Ack(p) \/ Compensate(p)

Next ==
  \/ StartWorkflow \/ StartAborts
  \/ \E p \in Procs : EngineStep(p)
  \/ HandleResult \/ RetryDispatch
  \/ CancelInstance \/ ApproveNode \/ RejectNode
  \/ Crash \/ ListRunning \/ Resume
  \/ Execute

Spec == Init /\ [][Next]_vars

\* What the code's scheduling guarantees: tokio runs every task that can run (an
\* operation in progress, the start-up sequence, a timer that has expired), a
\* worker takes every task and the bus keeps delivering a message that is not
\* acknowledged.  Of users it is assumed that a workflow is started and that a waiting
\* approval is eventually given.
Fairness ==
  /\ WF_vars(StartWorkflow)
  /\ \A p \in Procs : WF_vars(EngineStep(p))
  /\ WF_vars(HandleResult) /\ WF_vars(RetryDispatch)
  /\ WF_vars(ListRunning) /\ WF_vars(Resume)
  /\ WF_vars(ApproveNode)
  /\ WF_vars(Execute)

FairSpec == Spec /\ Fairness

-----------------------------------------------------------------------------
(* Properties *)

Tasks == [node : Nodes, att : Nat \ {0}, undo : BOOLEAN]
Results == [node : Nodes, att : Nat, undo : BOOLEAN, ok : BOOLEAN,
            out : Outputs \cup {"none"}]
Sagas == [on : BOOLEAN, plan : SUBSET Nodes, done : SUBSET Nodes]
NodeStates == [st : NodeStatus, att : Nat, started : BOOLEAN]
Instances == [status : InstanceStatus, version : Nat, saga : Sagas,
              nodes : [Nodes -> NodeStates], outs : [Nodes -> Outputs \cup {"none"}]]
Labels == {"dispatch", "publish", "dispatchError", "ready", "finish", "save",
           "refetch", "sleep", "ack", "comp"}

Operations ==
  [op : Ops, k : Seq(Labels), inst : Instances, todo : SUBSET Nodes,
   att : Nat \ {0}, try : Nat, msg : Results \cup {NoMsg}]

\* Type invariant.  A task always carries an attempt of at least 1: the wire format
\* reads 0 as "not set".
TypeOK ==
  /\ db \in Instances
  /\ proc \in [Procs -> Operations]
  /\ tasks \subseteq Tasks
  /\ results \subseteq Results /\ sleeping \subseteq Results /\ produced \subseteq Results
  /\ boot \in {"list", "resume", "up"}
  /\ faults \in 0..MaxFaults

\* A task in flight is known to the store: its attempt is the node's current one,
\* which is then no longer pending, or an older one.  (The comment before the save
\* in dispatch_node: a fast worker's result must find the attempt it answers.)
PersistedBeforePublished ==
  \A t \in tasks : ~t.undo =>
    \/ t.att < db.nodes[t.node].att
    \/ t.att = db.nodes[t.node].att /\ Status(db, t.node) # "Pending"

\* The successful results on which a completed source node can rest.
Succeeded(n) == {m \in produced : m.node = n /\ ~m.undo /\ m.ok}

\* No node runs before its turn: when a task for a node is in flight, every
\* predecessor is terminal in the store, and one of them really completed with an
\* output that satisfies the edge's condition (OR-join).
RunsInOrder ==
  \A t \in tasks : ~t.undo /\ Incoming(t.node) # {} =>
    /\ \A e \in Incoming(t.node) : Status(db, e.src) \in NodeTerminal
    /\ \E e \in Incoming(t.node) :
         \/ e.src \in Triggers
         \/ \E m \in Succeeded(e.src) : e.cond \in {"always", m.out}

\* A stored node outcome rests on the worker's answer for that very attempt: late
\* answers of an attempt given up by a retry or a restart never count.
OutcomeOfThisAttempt ==
  \A n \in Nodes \ (Triggers \cup Capabilities) :
    Status(db, n) = "Completed" => \E m \in Succeeded(n) : m.att = db.nodes[n].att

\* The stored instance, seen as the abstract life cycle.
Lifecycle ==
  INSTANCE InstanceLifecycle WITH
    status <- IF Exists THEN db.status ELSE "none",
    node <- [n \in Nodes |-> Status(db, n)]

\* The engine implements the life cycle: every save of every operation, merges,
\* retries, restarts and compensations included, is one of its steps.
ImplementsLifecycle == Lifecycle!Spec

\* Completed means that every node is over and none failed; Failed, that something
\* did fail (a node, or a fault of the environment).
StatusMeansOutcome ==
  /\ db.status = "Completed" => AllNodesTerminal(db) /\ ~SomeNodeFailed(db)
  /\ db.status = "Failed" => SomeNodeFailed(db) \/ faults > 0

Undone(n) == \E m \in produced : m.node = n /\ m.undo /\ m.ok
UndoFailed == \E m \in produced : m.undo /\ ~m.ok

\* Compensations run one at a time, last executed first: a compensation in flight is
\* for a completed node of the plan, and those before it in the plan succeeded.
UndoInReverseOrder ==
  \A t \in tasks : t.undo =>
    /\ t.node \in db.saga.plan /\ Status(db, t.node) = "Completed"
    /\ \A n \in db.saga.plan :
         Position(ExecutionOrder, n) > Position(ExecutionOrder, t.node) => Undone(n)

\* A rollback is complete: when it ends without a failed compensation, every executed
\* node that has a compensation was compensated.
RollbackComplete ==
  db.saga.plan # {} /\ ~db.saga.on /\ ~UndoFailed =>
    \A n \in Compensable : Status(db, n) = "Completed" => Undone(n)

\* Every run comes to an end.
Terminates == <>[]is_terminal(db)

=============================================================================
