----------------------------- MODULE MCLifecycle -----------------------------
(***************************************************************************)
(* Six parts of the server whose properties include something that must    *)
(* happen, one at a time: the trigger manager, sub-workflow calls, schema  *)
(* migrations, access control, the CEL evaluator, and start and shutdown   *)
(* of the process.  They share no state in the code that these modules     *)
(* model, so each runs while the others stay as they are.                  *)
(***************************************************************************)
EXTENDS Triggers, SubWorkflow, Migrations, MCAccess, CelCache, Server

VARIABLE part   \* the one that runs

\* Two definitions whose webhooks share a path, one of them also archived, and one
\* without triggers.
MCType == [c |-> "schedule", e |-> "event", h |-> "webhook", g |-> "webhook"]
MCKey == [c |-> "none", e |-> "order", h |-> "in", g |-> "in"]
MCDefs == {[active |-> TRUE, nodes |-> {"c", "h"}],
           [active |-> TRUE, nodes |-> {"e", "g"}],
           [active |-> FALSE, nodes |-> {"c", "h"}],
           [active |-> TRUE, nodes |-> {}]}

LifecycleVars == <<part, triggerVars, subVars, migrationVars, accessVars, celVars, serverVars>>

LifecycleInit ==
  /\ part \in {"triggers", "calls", "migrations", "access", "cel", "server"}
  /\ TriggersInit /\ SubWorkflowInit /\ MigrationsInit /\ AccessInit /\ CelInit /\ ServerInit
  /\ part # "triggers" => list = <<>> /\ first
  /\ part # "access" => stored = EmptyPolicy /\ auth

TriggersPart == part = "triggers" /\ TriggersNext /\ UNCHANGED <<part, subVars, migrationVars, accessVars, celVars, serverVars>>
CallsPart == part = "calls" /\ SubWorkflowNext /\ UNCHANGED <<part, triggerVars, migrationVars, accessVars, celVars, serverVars>>
MigrationsPart == part = "migrations" /\ MigrationsNext /\ UNCHANGED <<part, triggerVars, subVars, accessVars, celVars, serverVars>>
AccessPart == part = "access" /\ AccessNext /\ UNCHANGED <<part, triggerVars, subVars, migrationVars, celVars, serverVars>>
CelPart == part = "cel" /\ CelNext /\ UNCHANGED <<part, triggerVars, subVars, migrationVars, accessVars, serverVars>>
ServerPart == part = "server" /\ ServerNext /\ UNCHANGED <<part, triggerVars, subVars, migrationVars, accessVars, celVars>>

\* The fairness of each part's own specification, while it is the one that runs.
LifecycleFairness ==
  /\ \A c \in Calls : /\ WF_subVars(part = "calls" /\ Wake(c)) /\ WF_subVars(part = "calls" /\ GiveUp(c))
                      /\ WF_subVars(part = "calls" /\ Poll(c)) /\ WF_subVars(part = "calls" /\ DeadlinePasses(c))
  /\ \A s \in Starters : WF_migrationVars(part = "migrations" /\ MigrationStep(s))
  /\ \A s \in Servers : WF_accessVars(part = "access" /\ AccessStep(s))
  /\ \A c \in Callers : WF_celVars(part = "cel" /\ CelStep(c))
  /\ WF_serverVars(part = "server" /\ MainStep) /\ WF_serverVars(part = "server" /\ EngineStep)
  /\ WF_serverVars(part = "server" /\ RequestStep) /\ WF_serverVars(part = "server" /\ ResultStep)
  /\ WF_serverVars(part = "server" /\ WorkerStep)

LifecycleSpec ==
  /\ LifecycleInit
  /\ [][TriggersPart \/ CallsPart \/ MigrationsPart \/ AccessPart \/ CelPart \/ ServerPart]_LifecycleVars
  /\ LifecycleFairness
=============================================================================
