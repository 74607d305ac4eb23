---------------------------- MODULE SubprocessPlugin ----------------------------
(***************************************************************************)
(* PluginExecutor (orbflow-plugin/src/loader.rs): calls of one subprocess  *)
(* plugin, which share a process behind a mutex.                           *)
(*                                                                         *)
(* The request and its answer pass through the pipes while the mutex is    *)
(* held, so they are one step.  The mutex is free between ensure_running   *)
(* and that step, and between a failure and the step that clears the       *)
(* process.                                                                *)
(***************************************************************************)
EXTENDS Naturals

CONSTANTS
  Calls,      \* calls of execute
  MaxFaults   \* bound: answers that never come and processes that crash

VARIABLES
  child,    \* the shared entry: "none", or a process: "alive" or "dead"
  pc,       \* step of each call
  attempt,  \* attempts each call has used
  faults

vars == <<child, pc, attempt, faults>>

Init ==
  /\ child = "none" /\ faults = 0
  /\ pc = [c \in Calls |-> "ensure"] /\ attempt = [c \in Calls |-> 0]

Goto(c, step) == pc' = [pc EXCEPT ![c] = step]

\* What is left of a process when ensure_running returns.  Only its pipes are
\* kept; the handle goes out of scope, and it was spawned with kill_on_drop.
AfterSpawn == "dead"

EnsureRunning(c) ==
  /\ pc[c] = "ensure" /\ Goto(c, "use")
  /\ child' = IF child = "none" THEN AfterSpawn ELSE child
  /\ UNCHANGED <<attempt, faults>>

\* A process that is alive answers.
Answered(c) ==
  /\ pc[c] = "use" /\ child = "alive" /\ Goto(c, "answered")
  /\ UNCHANGED <<child, attempt, faults>>

\* The pipe of a dead process is at its end, and an entry that another call has
\* cleared gives the same kind of error: the first time the call tries again.
Broken(c) ==
  /\ pc[c] = "use" /\ child # "alive"
  /\ attempt' = [attempt EXCEPT ![c] = @ + 1]
  /\ Goto(c, IF attempt[c] = 0 THEN "clear" ELSE "failed")
  /\ UNCHANGED <<child, faults>>

\* The process crashes, or does not answer in SUBPROCESS_TIMEOUT.
Crashes ==
  /\ child = "alive" /\ faults < MaxFaults /\ faults' = faults + 1
  /\ child' = "dead" /\ UNCHANGED <<pc, attempt>>
TimesOut(c) ==
  /\ pc[c] = "use" /\ child = "alive" /\ faults < MaxFaults /\ faults' = faults + 1
  /\ Goto(c, "abandon") /\ UNCHANGED <<child, attempt>>

Clear(c) ==
  /\ pc[c] \in {"clear", "abandon"} /\ child' = "none"
  /\ Goto(c, IF pc[c] = "clear" THEN "ensure" ELSE "failed")
  /\ UNCHANGED <<attempt, faults>>

Next ==
  \/ \E c \in Calls : EnsureRunning(c) \/ Answered(c) \/ Broken(c) \/ TimesOut(c) \/ Clear(c)
  \/ Crashes

Spec == Init /\ [][Next]_vars

\* What the documentation of PluginExecutor says: a process is spawned on the
\* first execute and answers this and later calls, so that a call fails only
\* when the process crashed or did not answer in time.
FailsOnlyAfterFault == (\E c \in Calls : pc[c] = "failed") => faults > 0
================================================================================
