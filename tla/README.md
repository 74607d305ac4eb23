# Verification of the Orbflow workflow engine

TLA+ models of Orbflow: of the coordinator that decides whether a workflow run
ends correctly (`crates/orbflow-engine`, with the records and checks of
`crates/orbflow-core`, the stores, the message bus and the workers), and of the
parts around it in which requests, processes and restarts overlap: definitions and
their reviews, triggers, plugins, access control, credentials, budgets, the audit
trail, streaming, and the server process itself. TLC checks them on small
instances; TLAPS proves the properties that carry most weight for every instance.
Paths below are relative to the repository.

## 1. The system

A *workflow* is a directed graph of nodes (triggers, actions, capabilities). A
run of it is an *instance*: a versioned record with a state per node. The parts:

| Part | State | Operations | Talks to |
|---|---|---|---|
| Engine (`orbflow-engine/src/engine.rs`) | per-instance mutexes, handled-result sets; works on copies of the stored instance | `start_workflow`, `dispatch_node`, `handle_node_result`, retries, `cancel_instance`, `approve_node`, `reject_node` | store (get, optimistic update), bus (publish tasks, consume results) |
| Saga (`saga.rs`) | `Instance.saga`: plan and confirmed compensations | start, dispatch next, handle result, finalise, fail | store, bus |
| Recovery (`resume.rs`) | none | `resume_running` at start-up | store, dispatch |
| Readiness (`dag.rs`), order (`topo.rs`), validation (`orbflow-core/src/validate.rs`) | none: loops over a definition and an instance | `find_ready_nodes`, `topological_order`, `validate_workflow` | called by the engine |
| Deduplication (`dedup.rs`) | set and queue of result ids, at most 100 | `contains`, `add` | engine, under the mutex |
| Sub-workflows (`subworkflow.rs`) | a semaphore shared by all calls | start a child, poll it, time out | engine, store |
| Test runs (`engine.rs`, `workflow.rs`) | none | execute a node and what it reads from, judge assertions | node executors |
| Stores (`orbflow-memstore`, `orbflow-postgres`) | a table per kind of record | create, get, update (instances: if the version is the next one), list; schema migrations at start | engine, HTTP handlers |
| Bus (`orbflow-natsbus`) | JetStream work queue: messages, ack-wait, messages in flight; plain subjects for chunks and signals | publish, deliver, ack, nak, close | engine, workers |
| Worker (`orbflow-worker`, `orbflow-worker-bin`) | permits, running handlers, plugin processes | take a task, execute with a timeout, stream chunks, publish one result, acknowledge | bus |
| Workflows and change requests (`orbflow-httpapi`, `orbflow-postgres`, `orbflow-core/src/versioning.rs`) | definition with version, snapshots, change requests, comments | create, update, delete; submit, approve, reject, rebase, merge | store, triggers |
| Triggers (`orbflow-trigger`) | schedules, subscriptions and routes per workflow, behind a mutex | start, refresh, remove, fire | store, engine |
| Plugins (`orbflow-plugin`) | directory, processes and ports per manager, executors per node type | scan, spawn, health check, stop, reload; call over gRPC or pipes | HTTP handlers, worker |
| Registry (`orbflow-registry`) | local entries, cached community index | list, fetch, install | GitHub, plugin directory |
| Access control (`orbflow-core/src/rbac.rs`) | the policy, in the database and in each server | decide, update, reload | every HTTP handler |
| Credentials, budgets | a record each | masked edits and resolution for a task; check, charge, roll over | engine, HTTP handlers |
| Audit trail (`audit.rs`) | events chained by hashes, a Merkle tree per instance | append, verify, prove | engine, HTTP handlers |
| Streaming (`streaming.rs`, worker, HTTP) | chunk numbers, clients of the event stream | chunk, done, error | worker, bus, HTTP |
| HTTP and JSON-RPC interfaces (`orbflow-httpapi`, `orbflow-grpcapi`) | rate limiters; frames of a connection | authenticate, limit, route, answer | all of the above |
| CEL evaluator (`orbflow-cel`) | compiled programs, threads | look up, compile, evict, execute, time out | engine |
| Server (`orbflow-server`) | phase of `main` | connect, spawn, serve, stop in order | all of the above |

What is hard here: `start_workflow` runs without the instance mutex, beside the
handlers of its own first results; every operation works on a private copy and
resolves version conflicts by a merge that is sometimes reported as success
without saving; results are delivered at least once and late; the engine can die
between any two calls and restarts from the stored record alone; a rollback goes
on for many messages while parallel nodes still report; users cancel and approve
at any time. Around the engine almost every handler reads a record, decides and
writes it back without a lock; memory that is a copy of stored state (policies,
registered triggers, executors, the registry index, the program cache) is renewed
by timers and signals that may come late or be lost; processes and threads outlive
those who wait for them; and servers start, stop and migrate beside each other.

What makes each part correct: a stored node outcome belongs to the attempt stored
with it and never changes; nodes run in the order and on the branches of the
definition; a run that ends says truthfully how, and stays so; every run ends;
rollbacks are complete and in reverse order; tasks are neither lost nor executed
more often than something failed. A merged definition was approved as it is, and
nothing stored is overwritten unseen; what is registered, offered, routed and
granted is what is stored; secrets go where their owner allows; budgets add up;
the audit trail tells whether it was touched; clients see everything they may see,
in order, and nothing else; and everything that waits (calls, evaluations, starting
servers) comes to an end.

## 2. Modules

| Module | Models |
|---|---|
| `Workflow` | A definition (constants), the instance record, and the functions that read and update it without calls: readiness and skips, merge, saga plan |
| `Engine` | The coordinator running one instance, with store, bus, workers, users, crashes: one action per step between two calls |
| `InstanceLifecycle` | Abstract specification: what a stored instance may do, implemented by `Engine` |
| `SkipCascade` | The two loops of `find_ready_nodes`, node by node, compared with the definition in `Workflow` |
| `WorkflowGraph` | Depth-first cycle check, connectivity check, Kahn's sort, iteration by iteration |
| `ResultDedup` | `ResultSet` and its use |
| `TaskDelivery` | The work queue and the worker's handler in discrete time |
| `Authoring` | One workflow's definition, snapshots and change requests under overlapping HTTP requests |
| `Triggers` | The trigger manager, edits, and what a trigger that fires starts |
| `SubWorkflow` | Calls of sub-workflows: child, polls, slots, deadline |
| `TestRuns` | A test run of one node with its ancestors and assertion |
| `Plugins`, `SubprocessPlugin` | gRPC plugins from install to executor; the pipe protocol of subprocess plugins |
| `Registry` | The cached index and installation from it |
| `AccessControl` | Policy in database and memories, decisions, updates, reloads |
| `Credentials`, `Budgets` | The records, their endpoints, and the engine's use of them |
| `Merkle`, `AuditTrail` | The tree over a sequence of hashes; appends, verification and proofs over an abstract hash |
| `Streaming` | Chunks from executor to client |
| `Queries` | Filtered and unfiltered pages, reads of single objects |
| `HttpApi`, `RpcServer` | Layers and limiters of HTTP; frames and answers of JSON-RPC |
| `CelCache` | Program cache, blocking pool and timeout |
| `Migrations`, `Server` | Several servers migrating one database; the phases of `main` |
| `EngineProofs`, `EngineCalmProofs`, `EngineOutcomeProofs` | Theorems about `Engine`, and their proofs: of every behaviour, of a calm start, and of how instances end (the refinement of `InstanceLifecycle`) and are rolled back |
| `TaskDeliveryProofs` | The same for the module of that name |
| `ArrivalProofs` | The same for `ResultDedup` and `RpcServer` |
| `GovernanceProofs` | The same for `Authoring`, `AccessControl` and `Queries` |
| `RequestProofs` | The same for `Credentials`, `HttpApi`, `Budgets` and `Plugins` |
| `CopiesProofs` | The same for `Streaming`, `Registry`, `Triggers` and `Migrations` |
| `MCEngine`, `MCAccess` | Values for the constants |
| `MCAlgorithms`, `MCLifecycle`, `MCRequests`, `MCExtensions` | Several modules checked in one run |

The last four each have a variable (`algorithm`, `part`) that says which of their
modules runs; the others keep their initial state, and the fairness of a module is
asked for only while it runs. A behaviour of the bundle is thus a behaviour of one
of the modules. Nothing is lost by not interleaving them: in the code modelled
they share no state. Where parts do share state they are in one module (definition
and registrations in `Triggers`, server and worker in `Plugins`, HTTP, engine and
bus in `Server`).

### How `Engine` corresponds to the code

`db` is the stored instance, `proc` the operations in progress, `tasks` and
`results` the messages not yet acknowledged, `sleeping` the handlers that wait out
a retry delay, `boot` how far `Engine::start` has come, `faults` the number of
faults so far, `produced` a history of all results of workers.

An operation is a record with a local copy of the instance and a stack `k` of
what is left to do. `dispatch` is the loop over `todo`; inside it `dispatch_node`
either stops at the approval gate (`Gate`) or queues the node and pushes `save`
and `publish`. `save` is `save_instance`: `Save` when the version fits,
`SaveConflict`, then `Refetch` (merge and retry, or report success as it is) or
`GiveUp`. `comp` is `dispatch_pending_compensations`, `ack` the acknowledgement
after the handler returned. What the code computes between two calls of the store
or the bus belongs to the step before it. Errors of `save_instance` inside
`dispatch_node` lead to `DispatchError`, elsewhere they end the operation and the
bus redelivers the result (`SaveFailed`).

All operations but `start_workflow` hold the instance's mutex, so there are two
processes: `start` and `locked`. The constant `RacingStart` says whether others
may run while `start_workflow` does. The code allows it (a worker may answer, and
a client may list and cancel the instance, before the call returns). Properties
that only hold if it does not happen are checked with `RacingStart = FALSE` (a
*calm start*); section 4 says what happens to them when it does.
`ResumeListsNew` says whether an instance can be created before `resume_running`
has listed the running ones (the server spawns `Engine::start` before it serves
requests, so it is possible for a moment).

Abstractions: a node output is `yes` or `no`, and an edge condition asks for one
of them; timestamps are reduced to "started"; instances do not interact, so there
is one; events appended to the log are left out (their failure is logged only)
except where an error of the append ends an operation (`DispatchErrorLost`); the
status Running of a node is never set by the engine and is left out. The
deduplication of results is a module of its own: in `Engine` a redelivered result
is judged by the state alone, which is the stronger claim.

### How the other modules correspond to the code

A database statement or transaction, a step under a lock and a message are one
action each; a handler that makes several has several, and a slot (`Slots`,
`Edits`, `Appenders`, ...) stands for a request in progress with the copy it has
read. Variables marked *history* in the modules are there for the properties only.

* `Authoring`: `UpdateRead`, `UpdateSnapshot`, `UpdateWrite` are
  `update_workflow`; a change-request endpoint is `ReadChangeRequest` (load and
  check), for rebase and merge `Compare` (load the workflow), then
  `WriteChangeRequest` or, in one transaction, `MergeWrite`. `row.json` is the
  version inside the stored definition, which may differ from the column. The client
  chooses the version in a proposed definition, the base of a change request, and may
  create the workflow again under its old id (`row.life` counts the creations);
  `overwrites` records each update that replaced a definition it had not read.
* `Triggers`: `Save`, `Reload`, `TakeDown`, `PutUp` are the steps of a handler that
  edits a workflow; `StartTakesLock` and `StartPage` are `TriggerManager::start`;
  `CronFires`, `EmitEvent`, `WebhookFound`/`WebhookFires` spawn a callback, which is
  `FireTrigger`. A webhook looks up its route and its node without the mutex. `runs`
  are the instances that `start_workflow` has stored, also those behind an error: the
  instance is created before its triggers are looked for.
* `Plugins`: an install is a sequence of steps on the directory; `KillAll`, `Scan`,
  `SpawnSucceeds`/`SpawnFails` are a manager's `reload`; `WorkerRegisters` gives
  each executor its address. A port that two processes claim answers for either, and a
  configured port may be one that `spawn_all` gives to another plugin. Any process may
  fail to tell its schemas (`Replies`); its executor then keeps the address it had.
  `ScanFails` and `ReloadFails` are the two scans of a reload when a directory vanishes
  under them. An uninstall unregisters no schema (section 4).
* `AccessControl`: an update is checked against memory, saved, then adopted; a load
  is two queries. `has_permission` and `validate_update` are the operators of the
  same name. `Credentials`, `Budgets`: read, merge, write; the engine's resolution
  and charges are separate actions on the same record.
* `AuditTrail`: `Appenders` hold the row lock of the instance while they read the
  last hash and insert. A hash is an injective function, a float in an event may be
  rewritten by the database (`rewritten`).
* `Streaming`: deliveries of one task, each numbering its chunks from 0, with the
  timeout of the worker; `SubWorkflow`: a call is new, queued for a slot, polling or
  sleeping with its slot, or ended. `TestRuns`: one case on every acyclic graph; what a
  node needs are its ancestors along edges, for capability nodes, which capability edges
  attach, are not executed in a test run.
* `Queries`: the two ways a list is cut into pages and the routes that check one
  workflow and read an object of another. `HttpApi`: the layers in their order, the
  three steps of the start limiter (sweep, look-up, insertion). `RpcServer`: bytes, of
  which a newline stands for the request it ends; `StoredFor` is what the engine has
  stored when it answers, which an error does not tell.
* `CelCache`: look-up, compilation outside of the lock, insertion with eviction, a
  thread of the blocking pool, the timeout. `Migrations`: check, SQL, record.
  `Server`: `main` is a phase, the engine task, the request and the messages run
  beside it; a run is `new` from its creation to the first queued save, and recovery
  finds nothing to dispatch in one that a crash left there.

## 3. Runs

Passing (`expect: pass`), with the number of distinct states:

| Run | Shows | States |
|---|---|---|
| `algorithms` | the two halves of `ResultSet` agree and repeats are far apart; on all acyclic graphs of 3 nodes, with all conditions and 4 states per node, the loops of `find_ready_nodes` end with the defined sets; on all graphs of 4 nodes with lists of at most 2 targets exactly the cyclic ones are rejected and the others are sorted topologically | 266,642 |
| `task_delivery` | 2 workers, one of them with an old wire version, 3 tasks, a fault: at most one extra execution per fault, no task without a result, all settled | 93,960 |
| `line` | 2 actions in line, the second with a retry policy and an approval gate; approve, reject and cancel at any time; 2 faults of crash, redelivery, bus failure. Saved before published, refinement of the life cycle (in which outcomes and ends are final), the run ends | 67,444 |
| `branch` | conditional branches and OR-join: order, meaning of the final status | 2,233 |
| `saga` | rollback of 2 nodes, one compensation may fail, 2 faults: backwards, complete, the run ends | 61,294 |
| `racing` | 2 parallel actions and a capability node; results, a cancellation and recovery race `start_workflow`; merges, exhausted save retries, any kind of fault: well-formed operations, only the current attempt counts | 1,472,079 |
| `lifecycle` | `Triggers`: registrations are those of one definition and settle on the stored one, a stale trigger completes no trigger but itself. `SubWorkflow`: calls end, with the end of their child. `Migrations`: servers come up on a complete schema. `AccessControl`: servers agree. `CelCache`: evaluations return. `Server`: runs that were queued once end | 97,677 |
| `requests` | `Authoring`: merged as approved, once per approval; an update replaces what it has read, with two exceptions, and comments are kept. `Credentials`: the last secret given is kept, travels only raw to its owner and is in no answer. `Budgets`: amounts add up and are not overdrawn. `AuditTrail`: verification and proofs tell the truth. `AccessControl`: grants were stored, somebody is in charge. `Queries`: all that is visible is shown, and no more. `HttpApi`: starts are spaced. `RpcServer`: answers are in order, and behind every instance is a start that was reported or failed | 1,679,585 |
| `extensions` | `Plugins`: what is installed is offered by the picker and known to the worker, what runs is tracked, and what answered is routed. `Registry`: a recent index. `Streaming`: a client sees the delivery. `TestRuns`: what is needed runs once, after its inputs | 2,941,936 |

Bounds. Workflows have at most four nodes besides the trigger: each shape that the
control distinguishes (line, branch with join, independent nodes, no trigger, a
capability) occurs once. `MaxFaults` is 2 where one operation runs at a time, so a
fault during the recovery from another one is included, and 1 where operations
race. Retry policies allow two attempts; a restart adds further ones.
`SAVE_INSTANCE_MAX_RETRIES` is 3 in the code and in the runs, except in `racing`,
where it is 1 so that `GiveUp` happens with few conflicting operations. Messages are
sets: an identical duplicate is the same element, and a redelivery is a message that
is not removed. In `TaskDelivery` three tasks are one more than the permits of a
worker, so that a task could wait for a permit if the bus let it.

The bundles: two requests, servers, callers or appenders at a time, since the
hazards are pairs of overlapping operations; one workflow, credential and change
request, since records do not interact (two budgets cover a run, because one charge
goes to several); two definitions, or secrets, or versions, to tell old from new; as
many requests or faults as one operation that overlaps a second one and a third
that observes the result take (the `Max...` constants, each named in its module).
Limits of the code are scaled down to where they are reached: a cache of 2, one
thread, one slot for two calls, frames of 2 bytes, a window of one tick, a time to
live of 2 ticks. In `extensions` the two HTTP slots are symmetric. One exception of
`NoLostUpdate` is not reached there: for a proposed version to come true, and an update
to slip through, takes two merges and an update, which is more than `MaxRequests`; the
theorem covers it. A client's version near the end of `i32` is left out.

Fairness: weak fairness of each operation in progress, of start-up and of expired
timers (tokio runs every task that can run), of workers and of the delivery of
messages (JetStream redelivers what is not acknowledged). `TaskDelivery` also
assumes strong fairness of a delivery to each worker: the server serves waiting
pull requests in turn, so a task that an old worker rejects again and again reaches
a worker that knows its version. Of users it is assumed that the workflow is started
and that an approval that is waited for is given; nobody has to cancel or reject.
In `SubWorkflow` timers fire and polls return, but nothing makes a child end and
nothing orders the calls that wait for a slot. In `Migrations` and `Server` a
supervisor starts a process again that has ended. In `AccessControl` the interval of
30 seconds comes round. In `CelCache` lookups return and timeouts fire; programs
need not end. Faults are never fair.

Deadlock checking is off where a run may simply be over.

## 4. Where code and documentation disagree

Each of these is a run with `expect: violation`; `PROJECT.json` quotes the line.

| Run | What the code does |
|---|---|
| `race_unsaved_task` | a cancellation during `start_workflow`: the save before a publication is dropped as already applied, and the task is published although its attempt was not stored |
| `saga_plan_lost` | after a failed publication the rollback plan is never stored: the version was raised in memory only |
| `subprocess_killed` | the process of a subprocess plugin is spawned with `kill_on_drop` and its handle dropped at once, so every call fails |

The rest of this section is what modelling brought up besides. It is worth knowing
when the code is changed, and it is the reason why the passing runs stay within the
conditions named in the modules.

The engine. The first five can be seen by changing constants:

* `RacingStart = TRUE` on two parallel actions violates `ImplementsLifecycle`: a save
  dropped in a conflict has raised the local version (`engine.rs:1424`), so the next
  save of the same stale copy overwrites a completed node. On the line with
  an approval gate, or with a retry of the first action, it violates `Terminates`:
  the approval, or the retry, that races the last save of `start_workflow` is lost.
* Three parallel actions of which two can be compensated violate
  `RollbackComplete`: the plan is computed when a node fails (`saga.rs:30`), and an
  action that completes afterwards is not compensated.
* Four parallel actions of which two can be compensated and two fail violate
  `UndoInReverseOrder`: the second failure plans again from the beginning
  (`saga.rs:51`) while a compensation of the first plan is in flight, so that one
  of a node that was executed later, and completed in between, comes after it.
* `FaultKinds = {"crashInStart"}` violates `Terminates`: after a crash between
  `create_instance_tx` and the first save nobody completes the triggers. So does
  `"resolve"`: a start that fails there returns an error and leaves the instance Running.
* Two triggers that lead to one action violate `Terminates` without any fault: the
  trigger that did not fire stays pending (`engine.rs:966`). So does an entry action
  in flight at a crash in a workflow without a trigger (`resume.rs:104`), although
  `docs/DEPLOYMENT.md:758` says that tasks in flight are dispatched again.
* A run that is cancelled during a rollback goes on compensating and becomes Failed
  (`engine.rs:1575`); `docs/user-guide/activity.md:80` speaks of stopping the execution.
* A crash after an approval makes the gate ask again: `resume_running` puts the
  approved node back to Pending (`resume.rs:85`).
* Sub-workflows: the permit is held while the poll loop sleeps, although the comment
  at `subworkflow.rs:200` says otherwise; a call that times out leaves its child
  running.
* The evaluator's timeout abandons a program but not its thread; the comment at
  `evaluator.rs:18` calls the program killed.
* A test of a failing node passes when its case has no assertions, or only
  `not_exists`.

Definitions and triggers:

* The web application proposes definitions without version and status, which are
  stored as version 0 and Draft; after a merge in PostgreSQL the version column and
  the definition differ, and every later update is refused as a conflict.
* An update or a merge keeps no snapshot of the definition it replaces
  (`docs/user-guide/builder.md:178`); a rebase never stores `base_version`
  (`docs/user-guide/reviews.md:121`); Merged and Rejected are not final for requests
  that overlap; a merge does not validate; the in-memory store has no version check.
* `TriggerManager::start` registers without removing: after a refresh that came
  first a schedule exists twice. Overlapping edits of a workflow may leave the
  triggers of the older one. `CreateWorkflow` over RPC registers nothing until a
  restart. A webhook that arrives during a refresh may lose its node id.
* A trigger that fires when the definition has lost its node leaves an instance Running
  of which nothing was done: it is stored (`engine.rs:2185`) before the node is looked
  for (`engine.rs:929`), and no restart drives it. When the definition has no trigger
  left at all, the whole run starts instead (`engine.rs:916`).
* The version inside a proposed definition is the client's (`handlers.rs:3223`), and so
  may be the id of a new workflow (`handlers.rs:242`). An update compares the version it
  has read in the definition with the column, so a proposed version ahead of its row, or
  a workflow created again under its id, lets it replace a definition nobody has read.

Records and requests:

* Access control: a load in two queries may mix two policies; updates on two servers
  are last-writer-wins; "from most specific to least specific" (`rbac.rs:11`) is not how
  `has_permission` decides, any binding grants; the bootstrap administrator can store a
  policy without an administrator; a server that starts without a token on an empty
  store never reloads.
* Overlapping edits of a credential may bring an older secret back. A cost that does
  not fit is dropped, so an exhausted budget goes on admitting runs.
* Losing the newest audit events goes unnoticed; floats that PostgreSQL writes in
  another form break the chain; an append that fails is only logged.
* An error that answers StartWorkflow over RPC does not say that nothing was started, so
  a client that tries again may start a second run; and `DEADLINE_EXCEEDED` is both the
  end of the connection and an engine's timeout (`server.rs:619`).
* The start limiter's sweep, look-up and insertion are not atomic, so two requests, or
  a request and a sweep, let through two starts of a workflow within a window; and a
  start that failed counts. `BudgetExceeded` on start is answered with 500, though `error_to_status`
  has 429. A page past the end reports a total of 0; deletions between two pages
  make a walk skip rows.

Processes:

* The server removes a plugin whose state is "running" only, but the manager says
  "Running": a removed plugin goes on running. A scan takes `.tmp-` directories
  for plugins; a crash between removal and renaming loses the plugin; a reload signal
  sent while the worker is down, or whose scan fails because a directory vanishes
  (`orbflow-worker-bin/src/main.rs:281`), is lost; a reload forgets configured ports.
* An uninstall reads the manifest as a `PluginIndexEntry`, whose `protocol` is a string
  (`ports.rs:740`); in every manifest that a scan accepts it is an object, so parsing
  fails and no schema is unregistered, although the comment at `handlers.rs:2820` says
  that the node picker updates immediately. The plugin is offered until the server
  restarts.
* A configured port may be one that another plugin is given by number: both processes
  claim it, and one of the two executors may never be registered. A plugin that does not
  tell its schemas after a reload (`loader.rs:204`) keeps the address it had, which by
  then may be another plugin's.
* A local registry entry hides newer community ones, so it is never upgraded.
* The event stream stays open after its last chunk; a timeout sends no last chunk.
* 008 adds constraints that cannot be added twice: a crash between its SQL and its
  record keeps every server from starting.
* A process that ends between `create_instance_tx` and the first queued save leaves a run
  that recovery never dispatches: the exception of `RunsEnd` beside those for shutdown and
  for a dead engine task (`docs/DEPLOYMENT.md:758` promises the contrary).
* On shutdown the HTTP task is only detached, and starts after the bus was closed are
  marked Failed; an error of `Engine::start` is only logged and the server goes on
  accepting runs.

## 5. Proofs

TLAPS checks the eight proof modules for every value of the constants, from the
named assumptions only: `WorkflowAssumption` (what validation guarantees of a
definition), `EngineAssumption`, `DedupAssumption`, `DeliveryAssumption`,
`AuthoringAssumption`, `CredentialsAssumption`, `HttpAssumption`, `BudgetsAssumption`,
`PluginsAssumption`, `RegistryAssumption`, `TriggersAssumption`, `QueriesAssumption`,
`RpcAssumption`. They say that bounds are numbers, that
sentinels are not data, and how settings are derived from each other. TLC evaluates
them in the runs, and checked the inductive invariants below before they were proved.

Engine, for every workflow, retry policy, user behaviour and number of faults:

* `TypeOKAlways`, `OutcomeOfThisAttemptAlways` (`EngineProofs`), with racing
  operations. `OutcomeOfThisAttempt` alone is not inductive: it speaks of `db`, but a
  save stores a local copy and a merge mixes two. The invariant `IInv` adds that
  *every* record in sight rests on produced results: the stored one
  (`Rests(db, produced)`) and the local copy of each operation (`GoodOp`), together
  with types and the facts that a result being handled was produced. Each action has a
  lemma: actions that change a local copy keep `Rests` because they change a node to
  something other than Completed, or copy the attempt of a result whose attempt was
  compared; `Merge` keeps it because each node state is taken whole from one of two
  records that satisfy it; skips need that the cascade changes pending nodes only.
* `PersistedBeforePublishedCalm`, `RunsInOrderCalm` (`EngineCalmProofs`), if
  `~RacingStart`. `CalmInv` says that one operation runs at a time, and of its copy
  (`Alone`): it is ahead of the store, node by node, so that saving it takes no attempt
  and no outcome back; while it dispatches its version is the stored one; and what it is
  about to publish it has just saved. A node is queued in any record only when it was its
  turn there, which stays so because what is over stays over. With a racing start the property is false; the run
  `race_unsaved_task` shows how.
* `StatusMeansOutcomeCalm` (`EngineOutcomeProofs`), if `~RacingStart` and
  `ActionsOnly`. The status is only ever stored from a copy, so `OutcomeInv` says of
  each copy what the property says of `db` (`Truthful`), and relates the copy to what is
  left to do (`TruthfulOp`): an operation that dispatches has a running instance, one
  that looks for the end or compensates dispatches nothing more, one whose copy has ended
  only saves it. `ActionsOnly` (compensations on actions only) is not checked by
  `validate.rs`: with one on a trigger, a dispatch error in `start_workflow` begins
  a compensation, and the check for the end that follows then stores Completed beside
  a failed node.
* `ImplementsLifecycleCalm` (`EngineOutcomeProofs`), if moreover `NoCancelledSaga`:
  initial states map to initial states of `InstanceLifecycle`, and each action to one of
  its steps or to none. The hardest part is an instance that has ended: operations go on
  after it, and the invariant has to say that their copies have the same outcome.
  `NoCancelledSaga` (no cancellation of a workflow with compensations) is needed because
  an instance that is cancelled while it compensates keeps its saga, and turns from
  Cancelled to Failed when the next compensation reports.
* `UndoInReverseOrderCalm`, `RollbackCompleteCalm` (`EngineOutcomeProofs`), if
  `~RacingStart` and `OneAtATime`: each action but the first has an edge from the one
  before it, whatever other edges and conditions there are. The line of the run `saga`
  is such a workflow; for parallel actions both properties are false (section 4).
  `SagaInv` says of the stored record (`RecordOK`) that a plan is exactly the completed
  nodes with a compensation, that no node waits beside it, that each node marked done was
  confirmed by a worker, and that a compensation in flight is of this plan and comes after
  everything behind it was confirmed. Nothing completes beside a rollback because a node
  leaves Pending when its sources are over (`Ordered`), so that with `OneAtATime` one
  node waits at most, and the one whose failure began the rollback was it. The copies of
  operations need four cases: a copy that would be stored as it is (`FreshOp`), one in
  which a dispatch has failed (`ErringOp`), one with a version ahead of the stored one
  (`LaggingOp`) and one merged after the conflict (`MergedOp`). After a dispatch error
  the plan exists only in the copy; the save conflicts, the merge takes the stored saga,
  which is empty, and nothing is sent. That is safe, but the rollback never happens:
  the run `saga_plan_lost` shows it.

Bus, worker, deduplication and JSON-RPC:

* `HalvesAgreeAlways`, `RepeatsFarApartAlways` (`ArrivalProofs`): the queue is
  the suffix of the history of length at most the bound and without repetition.
* `NoTaskLostAlways` (`TaskDeliveryProofs`): `DInv` adds that a handler about to
  acknowledge its message has published a result of it, because the acknowledgement comes
  a step after the publication.
* `RunsOncePerFaultAlways` (`TaskDeliveryProofs`): `RInv` adds that each task has
  one handler at most, that no more messages are in flight than there are permits (so that
  no handler waits for one), and that the ticks a handler has spent and those left of its
  message's ack-wait add up, so that the message is not redelivered under it.

* `AnswersAccountAlways` (`ArrivalProofs`), about `RpcServer`: the server reads whatever
  fragment of the stream has arrived, so which request a frame is depends on where
  requests end in the bytes still to be read. `Layout` says where: those ends are at
  increasing positions, one for each request neither answered nor being handled, and the
  bytes between two of them, with the part of a frame already read, are the size of a
  request. `RpcInv` joins it to the answers, of which only the last may be a refusal or
  the deadline's, and counts the instances: no fewer than the starts the client was told
  of, no more than those and the starts answered with an error.

Definitions, access and lists (`GovernanceProofs`):

* `MergedWasApprovedAlways`, `NothingLostAlways`, about `Authoring`: `AInv` says
  what each handler may still believe of the record it has read (`RequestOK`): an approved
  record has exactly the definition somebody other than its author has read, and while the
  workflow an update has read lives, its version has not gone back. So an update whose
  check succeeds on another row has read a version ahead of its own, or the workflow was
  created again: the two exceptions `NothingLost` states.
* `GrantsWereStoredAlways`, `SomeoneInChargeAlways`, about `AccessControl`:
  `PInv` follows a policy from the database through the two queries of a load into a
  server. A load overtaken by a save mixes two policies; that somebody stays in
  charge needs that "admin" is only ever granted by the built-in role.

* `ShownIffVisibleAlways`, about `Queries`: `QueriesInv` says that a row which was
  there when a walk over the pages began, and still is, has been shown or is at a place
  not before the walk's offset. It stays so because a new row goes in front, which moves
  rows away from the offset only in the direction still to be walked, and because a walk
  during which a row was deleted is not claimed to be complete.

Requests (`RequestProofs`):

* `LastGivenSecretKeptAlways`, `SecretsTravelOnlyRawAlways`, about `Credentials`:
  `CredentialInv` says that while edits do not overlap, the record an edit is about to
  write contains the secret to be kept, and that an edit's record is never that of a later
  credential.
* `StartsSpacedAlways`, about `HttpApi`: `HttpInv` says that, unless checks of the
  workflow overlapped, its entry in the limiter is not older than any of its starts, or is
  gone because two windows have passed since, and that a check that is past its look-up is a
  window away from every start.
* `BudgetsAddUpAlways`, about `Budgets`: `AmountInv` compares each amount with what was
  added since its period began, as a difference of two entries of the history, and needs
  that nothing was added from `reset_at` on and, of the record an update is about to
  write, that it goes on from the amount it read or starts a new period, whose first day
  `next_reset_after` puts no later than today (`NextReset`).
* `InstalledIsKnownAlways`, about `Plugins`: `InstallInv` says how far a request that is
  alone with its plugin has come with the directory and the schemas (`HandledAlone`), and
  that a worker knows what is installed from its scan on, or has a signal yet to handle, or
  has lost one (`Scanned`).
* `RunningIsReachableAlways`, about `Plugins`: `ProcessInv` says that a worker has one
  entry per plugin between two scans, so that one process at most answers for a plugin when
  executors are registered and only the worker's listen; and that the processes heard then
  are called where they listened, also when they have ended (`AllRouted`), for only a
  registration changes an address. Ports need only be positive: `PluginsAssumption`
  allows equal ones, and configured ones in the numbered range.

Copies of what is stored or published elsewhere (`CopiesProofs`):

* `ShownIsDeliveryAlways`, about `Streaming`: the messages a client has seen and
  those on their way to it are pairwise in order, across both.
* `IndexIsRecentAlways`, about `Registry`: a fetched index was published since the
  fetch began, a cached one since a fetch before it was stored, whoever stored it.
* `TriggersFollowStoreAlways`, `TriggerStandsForItselfAlways`, about `Triggers`: the
  first needs how far the pages of `start` have come (`Starting`) and, afterwards, that the
  one edit of a workflow in progress holds the stored definition or is yet to load it, and
  that it registers under the mutex (`Serving`); the second that a registered node was one
  of an active definition the workflow has had, wherever it is on its way to a start
  (`FireInv`).

* `UpOnWholeSchemaAlways`, about `Migrations`: a server that serves has every migration
  under it, committed and recorded, however many servers migrate at once and wherever they
  die: what is behind a server's place in the list is recorded, what it is about to record
  is committed, and nothing is taken back.

Only model-checked, and why:

* liveness (`AllSettled`, `Terminates`, `CallsEnd`, `EvaluationsReturn`, `RunsEnd`,
  `ServersAgree`, `UpUnlessHalfMigrated`): out of the prover's reach;
* `LoopMatchesDefinition`, `SortedIffAcyclic`, `TrailSpeaksTruth`, `RunsWhatIsNeeded`:
  they compare recursive computations, and induction over data is out of its reach.

## 6. Mutants

Each property of a passing run has one or more operators that change a mapped
definition the way a plausible bug would; they stand before the definition they
change, and `PROJECT.json` lists them. A property that is a conjunction of named
parts has a mutant for each part.

## 7. Plan

Every safety property of a passing run that does not compare recursive computations is
now a theorem. Next theorem: the two about rollbacks for workflows in which parallel
actions join before the first that can fail.

Next modelling: legacy triggers and their migration, the webhook limiter, and, once
something calls them, the alert evaluator and the worker's credential proxy.

## 8. Not modelled

Everything `PROJECT.json` lists as `not_modelled`, with its reason: the built-in
nodes and the MCP client (transformations and network I/O behind one call), the
parsing of AI answers, configuration, cryptography and string checks, metrics,
prediction and SLA statistics (floating point), the alert evaluator and the worker's
`CredentialProxy` (nothing calls them), compliance exports and diffs (formatting), the command-line test
runner, the web application. In the modelled parts: snapshots of instances (written,
never read by recovery), the 24-hour age limit of the JetStream stream, consumer
settings that outlive a changed configuration (`natsbus/src/bus.rs:201`), the length
of a retry delay (`engine.rs:1122`), the second holder of a mutex that
`cleanup_instance` dropped (`engine.rs:158`; both meet a terminal instance), and the
tables of the in-memory store other than instances (plain maps under one lock).
