-------------------------------- MODULE Triggers --------------------------------
(***************************************************************************)
(* The trigger manager (orbflow-trigger): which schedules, event           *)
(* subscriptions and webhook routes are registered for each workflow while *)
(* workflows are created, changed and deleted, and what a trigger that     *)
(* fires starts.                                                           *)
(*                                                                         *)
(* HTTP handlers save a workflow, load it again and hand the loaded copy   *)
(* to the manager, whose mutex makes a refresh atomic for other refreshes, *)
(* for events and for start, but not for webhook requests, which read the  *)
(* routes without it.  The JSON-RPC service creates workflows and does not *)
(* tell the manager.  Legacy triggers (workflows without trigger nodes) are*)
(* not modelled: the engine turns them into trigger nodes.                 *)
(***************************************************************************)
EXTENDS Naturals, Sequences, FiniteSets

CONSTANTS
  Workflows,   \* workflow ids
  TriggerNodes,\* ids of trigger nodes
  Type,        \* TriggerType of a node
  Key,         \* its event name or webhook path
  Defs,        \* definitions: [active, nodes]
  Slots,       \* HTTP requests that may be in progress at the same time
  MaxEdits,    \* bound: workflows created, changed or deleted
  MaxFires,    \* bound: times a trigger fires
  PAGE_SIZE,   \* workflows that TriggerManager::start loads at a time
  None

TriggerType == {"schedule", "event", "webhook", "manual"}

\* Within one definition no two event or webhook triggers have the same key.
ASSUME TriggersAssumption ==
  /\ Type \in [TriggerNodes -> TriggerType]
  /\ Defs \subseteq [active : BOOLEAN, nodes : SUBSET TriggerNodes]
  /\ \A d \in Defs : \A m, n \in d.nodes :
        m # n /\ Type[m] = Type[n] /\ Type[m] \in {"event", "webhook"} => Key[m] # Key[n]
  /\ MaxEdits \in Nat /\ MaxFires \in Nat /\ PAGE_SIZE \in Nat \ {0}
  /\ None \notin TriggerNodes /\ None \notin Defs /\ None \notin Slots
  /\ IsFiniteSet(Workflows)

VARIABLES
  store,      \* the stored definition of each workflow, None when there is none
  list,       \* order in which list_workflows returns them: newest first
  reg,        \* registrations of each workflow: [jobs, events, hooks]
  lock,       \* holder of the manager's mutex: None, "start" or a slot
  start,      \* TriggerManager::start: [pc, offset]
  edit,       \* the HTTP request in progress in each slot
  hooks,      \* webhook requests that have found their route: set of [wf, via]
  fired,      \* spawned fire callbacks: set of [wf, via, node, n]; node is None
              \* when the payload does not name the trigger node
  edits, fires,
  past,       \* history: definitions each workflow has had
  apart,      \* history: workflows whose edits overlapped or bypassed the manager
  first,      \* start had the mutex before the first request could be served
  runs        \* history: instances stored by a trigger: set of [wf, def, via, node,
              \* completed, dispatched]

triggerVars == <<store, list, reg, lock, start, edit, hooks, fired, edits, fires, past,
          apart, first, runs>>

Of(d, t) == {n \in d.nodes : Type[n] = t}
NoJobs == [n \in TriggerNodes |-> 0]
NoRegistrations == [jobs |-> NoJobs, events |-> {}, hooks |-> {}]
NoEdit == [op |-> "none"]

\* register_workflow_triggers: a schedule always becomes one more job, an event
\* or webhook trigger replaces the one registered under the same key.
Replace(old, new) == {n \in old : \A m \in new : Key[m] # Key[n]} \cup new
Register(r, d) ==
  [jobs   |-> [n \in TriggerNodes |-> r.jobs[n] + IF n \in Of(d, "schedule") THEN 1 ELSE 0],
   events |-> Replace(r.events, Of(d, "event")),
   hooks  |-> Replace(r.hooks, Of(d, "webhook"))]

UnregisterButJobs(r) == [NoRegistrations EXCEPT !.jobs = r.jobs]
\* unregister_workflow: cron.remove, event.remove, webhook.remove
Unregister(r) == NoRegistrations

RegisterArchived(r, d) == Register(r, d)
\* Only the triggers of an active definition are registered.
RegisterActive(r, d) == IF d.active THEN Register(r, d) ELSE r

TriggersInit ==
  /\ store \in [Workflows -> Defs \cup {None}]
  /\ \E perm \in [1 .. Cardinality({w \in Workflows : store[w] # None}) -> Workflows] :
       /\ \A w \in Workflows : store[w] # None => \E i \in DOMAIN perm : perm[i] = w
       /\ \A i \in DOMAIN perm : store[perm[i]] # None
       /\ list = perm
  /\ reg = [w \in Workflows |-> NoRegistrations]
  /\ start = [pc |-> "wait", offset |-> 0]
  /\ first \in BOOLEAN /\ lock = IF first THEN "start" ELSE None
  /\ edit = [s \in Slots |-> NoEdit]
  /\ hooks = {} /\ fired = {} /\ runs = {} /\ apart = {}
  /\ edits = 0 /\ fires = 0
  /\ past = [w \in Workflows |-> {store[w]} \ {None}]

(***************************************************************************)
(* TriggerManager::start, in a task of its own, and the moment the HTTP    *)
(* server accepts requests: main takes the mutex for the webhook router,   *)
(* so when start took it first it has finished.                            *)
(***************************************************************************)
HttpUp == first => start.pc = "up"

StartTakesLock ==
  /\ start.pc = "wait" /\ (first \/ lock = None)
  /\ lock' = "start" /\ start' = [start EXCEPT !.pc = "page"]
  /\ UNCHANGED <<store, list, reg, edit, hooks, fired, edits, fires, past, apart, first, runs>>

Page == {i \in DOMAIN list : start.offset < i /\ i <= start.offset + PAGE_SIZE}

\* One page is loaded and its active workflows are registered; a short page is
\* the last one.  Nothing is unregistered before.
StartPage ==
  /\ start.pc = "page"
  /\ reg' = [w \in Workflows |->
               IF store[w] # None /\ \E i \in Page : list[i] = w
               THEN RegisterActive(reg[w], store[w]) ELSE reg[w]]
  /\ IF Cardinality(Page) < PAGE_SIZE
     THEN start' = [start EXCEPT !.pc = "up"] /\ lock' = None
     ELSE start' = [start EXCEPT !.offset = @ + PAGE_SIZE] /\ lock' = lock
  /\ UNCHANGED <<store, list, edit, hooks, fired, edits, fires, past, apart, first, runs>>

(***************************************************************************)
(* Edits of workflows                                                      *)
(***************************************************************************)
Busy(w) == \E s \in Slots : edit[s].op # "none" /\ edit[s].wf = w

Stored(w, d) ==
  /\ edits < MaxEdits /\ edits' = edits + 1
  /\ store' = [store EXCEPT ![w] = d]
  /\ list' = IF d = None THEN SelectSeq(list, LAMBDA x : x # w)
             ELSE IF store[w] = None THEN <<w>> \o list ELSE list
  /\ past' = [past EXCEPT ![w] = IF d = None THEN @ ELSE @ \cup {d}]

\* create_workflow, update_workflow and merge_change_request (d # None) and
\* delete_workflow (None), up to the write.
Save(s, w, d) ==
  /\ edit[s] = NoEdit /\ HttpUp
  /\ d = None => store[w] # None
  /\ Stored(w, d)
  /\ edit' = [edit EXCEPT ![s] = [op |-> IF d = None THEN "delete" ELSE "refresh",
                                  step |-> IF d = None THEN "lock" ELSE "reload",
                                  wf |-> w, copy |-> None]]
  /\ apart' = IF Busy(w) THEN apart \cup {w} ELSE apart
  /\ UNCHANGED <<reg, lock, start, hooks, fired, fires, first, runs>>

\* The handlers load the workflow again; when it is gone they give up.
Reload(s) ==
  LET e == edit[s] IN
  /\ e.op = "refresh" /\ e.step = "reload"
  /\ edit' = [edit EXCEPT ![s] = IF store[e.wf] = None THEN NoEdit
                                 ELSE [e EXCEPT !.step = "lock", !.copy = store[e.wf]]]
  /\ UNCHANGED <<store, list, reg, lock, start, hooks, fired, edits, fires, past, apart, first, runs>>

TakeDownKeepsDeleted(s) ==
  LET e == edit[s] IN
  /\ e.op # "none" /\ e.step = "lock" /\ lock = None
  /\ IF e.op = "delete"
     THEN edit' = [edit EXCEPT ![s] = NoEdit] /\ UNCHANGED <<lock, reg>>
     ELSE edit' = [edit EXCEPT ![s].step = "register"] /\ lock' = s
          /\ reg' = [reg EXCEPT ![e.wf] = Unregister(@)]
  /\ UNCHANGED <<store, list, start, hooks, fired, edits, fires, past, apart, first, runs>>
\* refresh_workflow and unregister_workflow of the registry: under the mutex the
\* old registrations go ...
TakeDown(s) ==
  LET e == edit[s] IN
  /\ e.op # "none" /\ e.step = "lock" /\ lock = None
  /\ reg' = [reg EXCEPT ![e.wf] = Unregister(@)]
  /\ IF e.op = "delete"
     THEN edit' = [edit EXCEPT ![s] = NoEdit] /\ lock' = lock
     ELSE edit' = [edit EXCEPT ![s].step = "register"] /\ lock' = s
  /\ UNCHANGED <<store, list, start, hooks, fired, edits, fires, past, apart, first, runs>>

\* ... and those of the copy come, if it is active.
PutUp(s) ==
  LET e == edit[s] IN
  /\ e.op # "none" /\ e.step = "register"
  /\ reg' = [reg EXCEPT ![e.wf] = RegisterActive(@, e.copy)]
  /\ edit' = [edit EXCEPT ![s] = NoEdit] /\ lock' = None
  /\ UNCHANGED <<store, list, start, hooks, fired, edits, fires, past, apart, first, runs>>

\* CreateWorkflow of the JSON-RPC service calls the engine and nobody else.
RpcCreate(w, d) ==
  /\ HttpUp /\ store[w] = None
  /\ Stored(w, d)
  /\ apart' = apart \cup {w}
  /\ UNCHANGED <<reg, lock, start, edit, hooks, fired, fires, first, runs>>

(***************************************************************************)
(* Firing                                                                  *)
(***************************************************************************)
Spawn(w, via, node) ==
  fired' = fired \cup {[wf |-> w, via |-> via, node |-> node, n |-> fires + 1]}
Fire == fires < MaxFires /\ fires' = fires + 1
Quiet == <<store, list, reg, start, edit, edits, past, apart, first>>

\* One cron job is due (a schedule registered twice has two).
CronFires(w, n) ==
  /\ start.pc = "up" /\ reg[w].jobs[n] > 0
  /\ Fire /\ Spawn(w, n, n)
  /\ UNCHANGED <<Quiet, lock, hooks, runs>>

\* emit_event, under the mutex: every subscriber is fired with its node.
EmitEvent(k) ==
  LET S == {x \in Workflows \X TriggerNodes : x[2] \in reg[x[1]].events /\ Key[x[2]] = k} IN
  /\ HttpUp /\ lock = None /\ S # {}
  /\ Fire
  /\ fired' = fired \cup {[wf |-> x[1], via |-> x[2], node |-> x[2], n |-> fires + 1] : x \in S}
  /\ UNCHANGED <<Quiet, lock, hooks, runs>>

\* process_webhook: the route is looked up (and token and signature are checked) ...
WebhookFound(w, n) ==
  /\ HttpUp /\ n \in reg[w].hooks
  /\ Fire
  /\ hooks' = hooks \cup {[wf |-> w, via |-> n]}
  /\ UNCHANGED <<Quiet, lock, fired, runs>>

HookNode(w, k) ==
  IF \E n \in reg[w].hooks : Key[n] = k THEN CHOOSE n \in reg[w].hooks : Key[n] = k ELSE None

\* ... and in verify_and_merge_payload the node registered for it, if it still is.
WebhookFires(h) ==
  /\ hooks' = hooks \ {h}
  /\ Spawn(h.wf, h.via, HookNode(h.wf, Key[h.via]))
  /\ UNCHANGED <<Quiet, lock, fires, runs>>

\* trigger_nodes_to_complete: the node that fired, if it is a trigger of the
\* definition; without one the nodes of the trigger type, or else all.
ToCompleteAnyNode(d, f) == IF f.node # None THEN {f.node} ELSE d.nodes
ToComplete(d, f) ==
  IF f.node # None THEN d.nodes \cap {f.node}
  ELSE IF Of(d, Type[f.via]) # {} THEN Of(d, Type[f.via]) ELSE d.nodes

\* start_workflow stores the instance before it looks for triggers to complete.  When
\* the definition has none, its entry nodes are dispatched at once; when it has some
\* but not the one that fired, the start fails, and the instance stays as it was created.
Started(d, f) ==
  [wf |-> f.wf, def |-> d, via |-> f.via, node |-> f.node,
   completed |-> ToComplete(d, f), dispatched |-> d.nodes = {} \/ ToComplete(d, f) # {}]

\* fire_trigger gives up when the workflow is gone.
FireTrigger(f) ==
  /\ fired' = fired \ {f}
  /\ runs' = IF store[f.wf] = None THEN runs ELSE runs \cup {Started(store[f.wf], f)}
  /\ UNCHANGED <<Quiet, lock, hooks, fires>>

TriggersNext ==
  \/ StartTakesLock \/ StartPage
  \/ \E s \in Slots :
       \/ \E w \in Workflows, d \in Defs \cup {None} : Save(s, w, d)
       \/ Reload(s) \/ TakeDown(s) \/ PutUp(s)
  \/ \E w \in Workflows, d \in Defs : RpcCreate(w, d)
  \/ \E w \in Workflows, n \in TriggerNodes : CronFires(w, n) \/ WebhookFound(w, n)
  \/ \E n \in TriggerNodes : EmitEvent(Key[n])
  \/ \E h \in hooks : WebhookFires(h)
  \/ \E f \in fired : FireTrigger(f)

TriggersSpec == TriggersInit /\ [][TriggersNext]_triggerVars

(***************************************************************************)
(* Properties                                                              *)
(***************************************************************************)
RegOf(d) == IF d = None \/ ~d.active THEN NoRegistrations ELSE Register(NoRegistrations, d)
BetweenRefreshes(w) == \A s \in Slots : ~(edit[s].op # "none" /\ edit[s].step = "register" /\ edit[s].wf = w)
StartedFirst == first /\ start.pc = "up"

\* However edits, reloads and refreshes overlap, the schedules, subscriptions and
\* routes of a workflow are those of one definition it has had, each once: no job
\* is left over from an earlier definition and none is registered twice.
NoMixture ==
  StartedFirst =>
    \A w \in Workflows : BetweenRefreshes(w) =>
      \E d \in past[w] \cup {None} : reg[w] = RegOf(d)

\* When the edits of a workflow come one after another, the manager has exactly the
\* triggers of the stored definition as soon as the last one has been answered;
\* none when the workflow is deleted or not active.
SettlesOnStored ==
  StartedFirst =>
    \A w \in Workflows \ apart : ~Busy(w) => reg[w] = RegOf(store[w])

\* A trigger that fires while the definition changes stands for nothing but itself.
\* The node it names was a trigger of an active definition of that workflow; the
\* instance it leaves behind completes no other trigger of the definition it was
\* started with, and dispatches nothing when that one has triggers but not this one.
TriggerStandsForItself ==
  \A r \in runs : r.node # None =>
    /\ \E d \in past[r.wf] : d.active /\ r.node \in d.nodes
    /\ r.completed \subseteq r.def.nodes \cap {r.node}
    /\ r.dispatched => r.node \in r.def.nodes \/ r.def.nodes = {}

\* What is registered follows what is stored: never a mixture, and in the end the
\* stored definition.
TriggersFollowStore == NoMixture /\ SettlesOnStored
================================================================================
