------------------------------- MODULE Server -------------------------------
(***************************************************************************)
(* The life of the server process (crate orbflow-server, main): what is    *)
(* connected, spawned and served, in which order, and in which order it is *)
(* taken down again after SIGTERM, while a run is started through the HTTP *)
(* interface, its task executed and its result handled.  main only drops   *)
(* the handle of the HTTP task, which goes on serving until the process    *)
(* ends, and engine.stop leaves the subscription to results alone: bus     *)
(* close aborts it.  The run has a trigger and one action, and its last    *)
(* save, which stores nothing new, is left out.  The database, the broker  *)
(* and the supervisor that starts the process again are external; once     *)
(* connected, the database answers.                                        *)
(***************************************************************************)
EXTENDS Naturals

CONSTANTS MaxServerFaults  \* signals, crashes and failed connections or engine starts considered

VARIABLES main,       \* where main() is
          engine,     \* the spawned task of engine.start
          request,    \* the start request: what it does next
          run,        \* the stored run: [status, node, att].  node is "new" (nothing
                      \* is stored but the instance) or what the action is: "pending",
                      \* "queued" or "completed"; att is its attempt
          failedIn,   \* phase of main in which the run was marked as failed
          tasks, results,  \* the attempts that have a message in the stream
          faults

serverVars == <<main, engine, request, run, failedIn, tasks, results, faults>>

NoRun == [status |-> "none", node |-> "new", att |-> 0]

ServerInit ==
    /\ main = "down" /\ engine = "none" /\ request = "none"
    /\ run = NoRun /\ failedIn = "none" /\ tasks = {} /\ results = {} /\ faults = 0

Fault == faults < MaxServerFaults /\ faults' = faults + 1

\* The connections are open in these phases.
StoreOpen == main \in {"bus", "spawn", "bind", "serving", "stopping", "engine_stopped", "bus_closed"}
BusOpen == main \in {"spawn", "bind", "serving", "stopping", "engine_stopped"}

\* A listener bound before the broker is connected.
ServesEarly == main \notin {"down", "store"}
\* Requests are served from the bind on, until the process is gone.
ServesHttp == main \in {"serving", "stopping", "engine_stopped", "bus_closed"}

-----------------------------------------------------------------------------
(* main *)

\* The end of the process ends every task in it.
Exit ==
    /\ main' = "down" /\ engine' = "none"
    /\ request' = IF request = "none" THEN "none" ELSE "over"

Enter(phase) == main' = phase /\ UNCHANGED <<engine, request>>

\* Configuration, then PgStore::new and NatsBus::connect; a failure is exit(1).
StartProcess == main = "down" /\ Enter("store") /\ UNCHANGED <<run, failedIn, tasks, results, faults>>

OpenConnection(from, to) ==
    /\ main = from
    /\ (Enter(to) /\ UNCHANGED faults) \/ (Fault /\ Exit)
    /\ UNCHANGED <<run, failedIn, tasks, results>>

ConnectStore == OpenConnection("store", "bus")
ConnectBus == OpenConnection("bus", "spawn")

\* The built-in nodes and the plugins are registered; then engine.start is spawned.
SpawnEngine ==
    /\ main = "spawn" /\ main' = "bind" /\ engine' = "subscribe"
    /\ UNCHANGED <<request, run, failedIn, tasks, results, faults>>

\* Triggers, access policy, router; the listener is bound, or exit(1).
BindHttp == OpenConnection("bind", "serving")

\* wait_for_shutdown; the RPC server and the triggers are stopped.
Signal ==
    /\ main = "serving" /\ Fault /\ Enter("stopping")
    /\ UNCHANGED <<run, failedIn, tasks, results>>

StopEngine ==
    /\ main = "stopping" /\ main' = "engine_stopped"
    /\ engine' = IF engine = "waiting" THEN "stopped" ELSE engine
    /\ UNCHANGED <<request, run, failedIn, tasks, results, faults>>

CloseBus == main = "engine_stopped" /\ Enter("bus_closed") /\ UNCHANGED <<run, failedIn, tasks, results, faults>>

\* The pool is closed, which waits for the statements under way, and main returns.
CloseStore == main = "bus_closed" /\ Exit /\ UNCHANGED <<run, failedIn, tasks, results, faults>>

\* The process dies, or is killed because it takes too long to stop.
CrashServer == main # "down" /\ Fault /\ Exit /\ UNCHANGED <<run, failedIn, tasks, results>>

-----------------------------------------------------------------------------
(* A dispatch: the queued node is saved, the task published.  When that fails *)
(* handle_node_dispatch_error marks node and run as failed.                   *)

Queue(r) == [r EXCEPT !.node = "queued", !.att = IF @ = 0 THEN 1 ELSE @]

Publish(att) ==
    IF BusOpen
    THEN tasks' = tasks \cup {att} /\ UNCHANGED <<run, failedIn>>
    ELSE /\ UNCHANGED tasks
         /\ IF run.status = "running"
            THEN run' = [run EXCEPT !.status = "failed"] /\ failedIn' = main
            ELSE UNCHANGED <<run, failedIn>>

\* start_workflow
StartRequest ==
    /\ ServesHttp /\ request = "none" /\ request' = "create"
    /\ UNCHANGED <<main, engine, run, failedIn, tasks, results, faults>>

\* create_instance_tx; that the trigger has completed is first stored when the
\* action is queued.
CreateInstance ==
    /\ request = "create" /\ StoreOpen
    /\ run' = [NoRun EXCEPT !.status = "running"] /\ request' = "queue"
    /\ UNCHANGED <<main, engine, failedIn, tasks, results, faults>>

QueueNode ==
    /\ request = "queue" /\ StoreOpen
    /\ request' = "publish" /\ run' = Queue(run)
    /\ UNCHANGED <<main, engine, failedIn, tasks, results, faults>>

PublishTask ==
    /\ request = "publish" /\ request' = "over" /\ Publish(1)
    /\ UNCHANGED <<main, engine, results, faults>>

-----------------------------------------------------------------------------
(* engine.start: subscribe, list, resume, and wait for the stop signal.  An  *)
(* error ends the task and is logged; the rest of the server goes on.        *)

EngineGoes(from, to) ==
    /\ engine = from /\ BusOpen
    /\ (engine' = to /\ UNCHANGED faults) \/ (Fault /\ engine' = "dead")
    /\ UNCHANGED <<main, request, run, failedIn, tasks, results>>

Subscribe == EngineGoes("subscribe", "list")

ListRunning == EngineGoes("list", IF run.status = "running" THEN "resume" ELSE "waiting")

\* Mutant of Reset: a queued node is left to the task that was sent for it.
ResetNothing(r) == r
\* resume_running: a node that was queued is pending again, as one attempt more.
Reset(r) ==
    IF r.node = "queued" THEN [r EXCEPT !.node = "pending", !.att = @ + 1] ELSE r

\* What is pending behind a completed trigger is ready.  find_ready_nodes looks at
\* triggers and entry nodes never, so a run of which only the instance was stored
\* has nothing that is ready.
ResumeRun ==
    /\ engine = "resume" /\ StoreOpen
    /\ run' = IF run.status = "running" THEN Reset(run) ELSE run
    /\ engine' = IF run.status = "running" /\ run'.node = "pending" THEN "queue" ELSE "waiting"
    /\ UNCHANGED <<main, request, failedIn, tasks, results, faults>>

\* Its dispatch; the save stores nothing when the run has failed meanwhile.
ResumeQueues ==
    /\ engine = "queue" /\ StoreOpen /\ engine' = "publish"
    /\ run' = IF run.status = "running" THEN Queue(run) ELSE run
    /\ UNCHANGED <<main, request, failedIn, tasks, results, faults>>

ResumePublishes ==
    /\ engine = "publish" /\ engine' = "waiting" /\ Publish(run.att)
    /\ UNCHANGED <<main, request, results, faults>>

\* handle_result_message, while the subscription lives and resume does not hold the
\* run's mutex: the result of another attempt than the queued one is an error, and
\* stays in the stream.
HandleResult(att) ==
    /\ BusOpen /\ engine \in {"list", "resume", "waiting", "stopped"}
    /\ run.status = "running" => run.node = "queued" /\ run.att = att
    /\ results' = results \ {att}
    /\ run' = IF run.status = "running"
              THEN [run EXCEPT !.status = "completed", !.node = "completed"] ELSE run
    /\ UNCHANGED <<main, engine, request, failedIn, tasks, faults>>

\* External: a worker.
ExecuteTask(att) ==
    /\ tasks' = tasks \ {att} /\ results' = results \cup {att}
    /\ UNCHANGED <<main, engine, request, run, failedIn, faults>>

MainStep ==
    \/ StartProcess \/ ConnectStore \/ ConnectBus \/ SpawnEngine \/ BindHttp
    \/ StopEngine \/ CloseBus \/ CloseStore
EngineStep == Subscribe \/ ListRunning \/ ResumeRun \/ ResumeQueues \/ ResumePublishes
RequestStep == CreateInstance \/ QueueNode \/ PublishTask
ResultStep == \E att \in results : HandleResult(att)
WorkerStep == \E att \in tasks : ExecuteTask(att)

ServerNext ==
    \/ MainStep \/ Signal \/ CrashServer \/ EngineStep \/ StartRequest \/ RequestStep
    \/ ResultStep \/ WorkerStep

ServerFairness ==
    /\ WF_serverVars(MainStep) /\ WF_serverVars(EngineStep) /\ WF_serverVars(RequestStep)
    /\ WF_serverVars(ResultStep) /\ WF_serverVars(WorkerStep)
ServerSpec == ServerInit /\ [][ServerNext]_serverVars /\ ServerFairness

-----------------------------------------------------------------------------
(* Properties *)

\* A stored run completes, wherever the process was stopped or died: the task is
\* redelivered, or resume_running dispatches the node at the next start.  There are
\* three exceptions.  In the last phase of a shutdown, when the bus is closed, the
\* HTTP interface, which nothing has stopped, may still admit starts and a slow
\* resume may still dispatch: such a run is failed.  When the engine task died at
\* its own start, the server stays up and goes on accepting runs that nobody drives.
\* And nothing ever drives a run whose process ended between the instance's creation
\* and the save of its first queued node.
RunsEnd ==
    run.status = "running" ~>
        \/ run.status = "completed"
        \/ run.status = "failed" /\ failedIn = "bus_closed"
        \/ engine = "dead"
        \/ run.node = "new" /\ request = "over"
=============================================================================
