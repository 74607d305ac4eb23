------------------------------ MODULE CelCache ------------------------------
(***************************************************************************)
(* The CEL evaluator: a cache of compiled programs under a read-write      *)
(* lock, with compilation outside of the lock, and eval_any_async, which   *)
(* executes a program on a blocking thread and stops waiting for it after  *)
(* CEL_EXECUTION_TIMEOUT.  The thread itself cannot be stopped.            *)
(* An expression is a model value; Endless ones never finish.              *)
(***************************************************************************)
EXTENDS Naturals, FiniteSets

CONSTANTS Callers,         \* tasks of the engine that evaluate expressions
          Expressions, Endless, Invalid,   \* Endless, Invalid \subseteq Expressions
          max_cache_size,  \* 10 000 in the code
          BlockingThreads, \* threads of the runtime's blocking pool (512 by default)
          MaxEvaluations

ASSUME CelAssumption == max_cache_size \in Nat \ {0} /\ Endless \subseteq Expressions /\ Invalid \subseteq Expressions

VARIABLES programs,    \* expressions whose program is cached
          evaluation,  \* caller -> [step, expr]
          stuck,       \* blocking threads held by endless programs nobody waits for
          backlog,     \* endless programs queued for a thread that nobody waits for
          evaluations

celVars == <<programs, evaluation, stuck, backlog, evaluations>>

Resting == [step |-> "idle", expr |-> CHOOSE e \in Expressions : TRUE]
ThreadsBusy == stuck + Cardinality({c \in Callers : evaluation[c].step = "executing"})

CelInit ==
    /\ programs = {} /\ evaluations = 0 /\ stuck = 0 /\ backlog = 0
    /\ evaluation = [c \in Callers |-> Resting]

Moves(c, step) == evaluation' = [evaluation EXCEPT ![c].step = step]

Evaluate(c, e) ==
    /\ evaluation[c].step = "idle" /\ evaluations < MaxEvaluations
    /\ evaluation' = [evaluation EXCEPT ![c] = [step |-> "look", expr |-> e]]
    /\ evaluations' = evaluations + 1 /\ UNCHANGED <<programs, stuck, backlog>>

\* get_or_compile under the read lock, and the compilation after it, which may
\* fail; an expression that is too long fails before.
LookUpProgram(c) ==
    LET e == evaluation[c].expr IN
    /\ evaluation[c].step = "look"
    /\ CASE e \in programs -> Moves(c, "queued")
         [] e \notin programs /\ e \in Invalid -> Moves(c, "idle")
         [] OTHER -> Moves(c, "compiled")
    /\ UNCHANGED <<programs, stuck, backlog, evaluations>>

\* Half the capacity goes, in arbitrary order, when the cache is full.
Evict(evicted) ==
    /\ evicted \subseteq programs
    /\ Cardinality(evicted) = IF Cardinality(programs) >= max_cache_size THEN max_cache_size \div 2 ELSE 0

\* The write lock: another caller may have inserted the same program meanwhile.
\* Then spawn_blocking queues the program, and the timeout begins.
InsertProgram(c, evicted) ==
    /\ evaluation[c].step = "compiled" /\ Evict(evicted)
    /\ programs' = (programs \ evicted) \cup {evaluation[c].expr}
    /\ Moves(c, "queued") /\ UNCHANGED <<stuck, backlog, evaluations>>

\* External: the runtime's pool gives a queued program a thread.
ThreadTakes(c) ==
    /\ evaluation[c].step = "queued" /\ ThreadsBusy < BlockingThreads
    /\ Moves(c, "executing") /\ UNCHANGED <<programs, stuck, backlog, evaluations>>

ThreadTakesBacklog ==
    /\ backlog > 0 /\ ThreadsBusy < BlockingThreads
    /\ backlog' = backlog - 1 /\ stuck' = stuck + 1 /\ UNCHANGED <<programs, evaluation, evaluations>>

\* A program that ends frees its thread and gives the caller its value.
ProgramEnds(c) ==
    /\ evaluation[c].step = "executing" /\ evaluation[c].expr \notin Endless
    /\ Moves(c, "idle") /\ UNCHANGED <<programs, stuck, backlog, evaluations>>

\* A timeout that begins only with the execution.
ExecutionTimesOut(c) ==
    /\ evaluation[c].step = "executing" /\ evaluation[c].expr \in Endless
    /\ stuck' = stuck + 1 /\ Moves(c, "idle") /\ UNCHANGED <<programs, backlog, evaluations>>

\* The caller gets Timeout.  Dropping the handle does not stop the task: an endless
\* program keeps its thread, and one still queued will get one.
EvaluationTimesOut(c) ==
    LET endless == IF evaluation[c].expr \in Endless THEN 1 ELSE 0 IN
    /\ \/ evaluation[c].step = "executing" /\ endless = 1 /\ stuck' = stuck + 1 /\ UNCHANGED backlog
       \/ /\ evaluation[c].step = "queued" /\ ThreadsBusy = BlockingThreads
          /\ backlog' = backlog + endless /\ UNCHANGED stuck
    /\ Moves(c, "idle") /\ UNCHANGED <<programs, evaluations>>

CelStep(c) ==
    \/ LookUpProgram(c) \/ ThreadTakes(c) \/ ProgramEnds(c) \/ EvaluationTimesOut(c)
    \/ \E evicted \in SUBSET Expressions : InsertProgram(c, evicted)

CelNext ==
    \/ \E c \in Callers : CelStep(c) \/ \E e \in Expressions : Evaluate(c, e)
    \/ ThreadTakesBacklog

CelFairness == \A c \in Callers : WF_celVars(CelStep(c))
CelSpec == CelInit /\ [][CelNext]_celVars /\ CelFairness

-----------------------------------------------------------------------------
(* Properties *)

\* Every evaluation comes back to the engine, with a value, an error or Timeout,
\* even when programs that never end hold every thread of the blocking pool:
\* the timeout of eval_any_async also covers the wait for a thread.
EvaluationsReturn == \A c \in Callers : evaluation[c].step # "idle" ~> evaluation[c].step = "idle"
=============================================================================
