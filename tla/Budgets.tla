-------------------------------- MODULE Budgets --------------------------------
(***************************************************************************)
(* Spending limits: a run starts only while no budget that covers its      *)
(* workflow is used up, and a completed run adds its cost to all of them,  *)
(* in a background task that runs after the run has ended.  A budget rolls *)
(* over at the end of its period, when somebody looks at it.               *)
(*                                                                         *)
(* Amounts are whole numbers, time is counted in days, a period is a       *)
(* number of days.                                                         *)
(***************************************************************************)
EXTENDS Naturals, FiniteSets

CONSTANTS
  Workflows,
  BudgetIds,
  Runs,
  Costs,      \* what a run may cost
  Limits,
  Periods,
  NoBudget,   \* a budget that does not exist; also the workflow of a budget for all
  MaxWrites,  \* METRICS permits: background writes at the same time (100 in the code)
  MaxBudgetEdits,  \* bound: requests about budgets
  MaxDays     \* bound: days

\* create_budget and update_budget refuse a limit that is not positive.
ASSUME BudgetsAssumption ==
  Limits \subseteq Nat \ {0} /\ Costs \subseteq Nat /\ Periods \subseteq Nat \ {0} /\ MaxDays \in Nat

VARIABLES
  today,
  budget,     \* each stored budget: [workflow, period, limit, current, reset_at]
  run,        \* each run: [workflow, state, cost]
  editing,    \* the update in progress: NoBudget, or [id, record]
  budgetEdits,
  ledger,     \* history: what was added to each budget before each day
  unsure      \* history: budgets an update may have set back, or lowered the limit of

budgetVars == <<today, budget, run, editing, budgetEdits, ledger, unsure>>

NothingAdded == [d \in 0..(MaxDays + 1) |-> 0]
AddedToday(added, cost) == [d \in 0..(MaxDays + 1) |-> IF d > today THEN added[d] + cost ELSE added[d]]

Existing == {b \in BudgetIds : budget[b] # NoBudget}
\* Budgets that a query for the workflow locks: its own and those for all
Covering(w) == {b \in Existing : budget[b].workflow \in {w, NoBudget}}

BudgetsInit ==
  /\ today = 0
  /\ budget \in [BudgetIds -> {NoBudget} \cup
       {[workflow |-> w, period |-> p, limit |-> l, current |-> 0, reset_at |-> p] :
          w \in Workflows \cup {NoBudget}, p \in Periods, l \in Limits}]
  /\ run = [r \in Runs |-> [state |-> "new"]]
  /\ editing = NoBudget /\ budgetEdits = 0
  /\ ledger = [b \in BudgetIds |-> NothingAdded] /\ unsure = {}

Day == today < MaxDays /\ today' = today + 1
       /\ UNCHANGED <<budget, run, editing, budgetEdits, ledger, unsure>>

\* next_reset_after: the first end of a period that is still to come
next_reset_after(reset_at, period) ==
  reset_at + period * (((today - reset_at) \div period) + 1)

RolledOverLate(x) ==
  IF x.reset_at >= today THEN x
  ELSE [x EXCEPT !.current = 0, !.reset_at = next_reset_after(@, x.period)]
\* rollover_if_expired
RolledOver(x) ==
  IF x.reset_at > today THEN x
  ELSE [x EXCEPT !.current = 0, !.reset_at = next_reset_after(@, x.period)]

(***************************************************************************)
(* The budget endpoints                                                    *)
(***************************************************************************)
BudgetRequest == budgetEdits < MaxBudgetEdits /\ budgetEdits' = budgetEdits + 1

CreateBudget(b, w, period, limit) ==
  /\ BudgetRequest /\ budget[b] = NoBudget
  /\ budget' = [budget EXCEPT ![b] = [workflow |-> w, period |-> period, limit |-> limit,
                                      current |-> 0, reset_at |-> today + period]]
  /\ ledger' = [ledger EXCEPT ![b] = NothingAdded] /\ unsure' = unsure \ {b}
  /\ UNCHANGED <<today, run, editing>>

\* update_budget reads the budget and works out the record ...
Updated(old, w, period, limit) ==
  [workflow |-> w, period |-> period, limit |-> limit,
   current |-> IF period # old.period \/ old.reset_at <= today THEN 0 ELSE old.current,
   reset_at |-> IF period # old.period THEN today + period
                ELSE IF old.reset_at <= today THEN next_reset_after(old.reset_at, period)
                ELSE old.reset_at]

ReadBudget(b, w, period, limit) ==
  /\ BudgetRequest /\ editing = NoBudget /\ budget[b] # NoBudget
  /\ editing' = [id |-> b, old |-> budget[b], record |-> Updated(budget[b], w, period, limit)]
  /\ UNCHANGED <<today, budget, run, ledger, unsure>>

\* ... and writes the whole of it, the amount spent included.
WriteBudget ==
  LET b == editing.id  new == editing.record  old == editing.old IN
  /\ editing # NoBudget /\ editing' = NoBudget
  /\ IF budget[b] = NoBudget THEN UNCHANGED <<budget, ledger, unsure>>
     ELSE /\ budget' = [budget EXCEPT ![b] = new]
          /\ ledger' = [ledger EXCEPT ![b] = IF new.period = old.period THEN @ ELSE NothingAdded]
          /\ unsure' = IF budget[b] # old \/ new.current > new.limit THEN unsure \cup {b} ELSE unsure
  /\ UNCHANGED <<today, run, budgetEdits>>

DeleteBudget(b) ==
  /\ BudgetRequest /\ budget[b] # NoBudget
  /\ budget' = [budget EXCEPT ![b] = NoBudget]
  /\ UNCHANGED <<today, run, editing, ledger, unsure>>

(***************************************************************************)
(* Runs                                                                    *)
(***************************************************************************)
\* check_budget, in one transaction, and check_budget_before_start
CheckedBudgets(w) == [b \in BudgetIds |-> IF b \in Covering(w) THEN RolledOver(budget[b]) ELSE budget[b]]
Admits(bs, w) == \A b \in Covering(w) : bs[b].current < bs[b].limit

StartRun(r, w) ==
  LET bs == CheckedBudgets(w) IN
  /\ run[r].state = "new" /\ budget' = bs
  /\ run' = [run EXCEPT ![r] = [state |-> IF Admits(bs, w) THEN "running" ELSE "refused", workflow |-> w, cost |-> 0]]
  /\ UNCHANGED <<today, editing, budgetEdits, ledger, unsure>>

\* A run that completes leaves its cost to a background task, or forgets it
\* when too many are busy.
CompleteRun(r, cost) ==
  LET busy == {o \in Runs : run[o].state = "recording"} IN
  /\ run[r].state = "running"
  /\ run' = [run EXCEPT ![r].state = IF cost > 0 /\ Cardinality(busy) < MaxWrites THEN "recording" ELSE "done",
                        ![r].cost = IF Cardinality(busy) < MaxWrites THEN cost ELSE 0]
  /\ UNCHANGED <<today, budget, editing, budgetEdits, ledger, unsure>>

FirstFits(bs, w, cost) ==
  \A b \in Covering(w) : budget[b].workflow = w => bs[b].current + cost <= bs[b].limit
\* increment_cost refuses a cost that some budget has no room for ...
Fits(bs, w, cost) == \A b \in Covering(w) : bs[b].current + cost <= bs[b].limit

\* ... and then rolls back everything, so that no budget hears of it.
RecordCost(r) ==
  LET w == run[r].workflow  cost == run[r].cost  bs == CheckedBudgets(w) IN
  /\ run[r].state = "recording"
  /\ run' = [run EXCEPT ![r].state = "done", ![r].cost = 0]
  /\ IF Fits(bs, w, cost)
     THEN /\ budget' = [b \in BudgetIds |-> IF b \in Covering(w) THEN [bs[b] EXCEPT !.current = @ + cost]
                                            ELSE budget[b]]
          /\ ledger' = [b \in BudgetIds |-> IF b \in Covering(w) THEN AddedToday(ledger[b], cost)
                                            ELSE ledger[b]]
     ELSE UNCHANGED <<budget, ledger>>
  /\ UNCHANGED <<today, editing, budgetEdits, unsure>>

\* The transaction fails: a warning is logged and the cost is forgotten.
RecordFails(r) ==
  /\ run[r].state = "recording" /\ run' = [run EXCEPT ![r].state = "done", ![r].cost = 0]
  /\ UNCHANGED <<today, budget, editing, budgetEdits, ledger, unsure>>

BudgetsNext ==
  \/ Day
  \/ \E b \in BudgetIds, w \in Workflows \cup {NoBudget}, p \in Periods, l \in Limits :
       CreateBudget(b, w, p, l) \/ ReadBudget(b, w, p, l)
  \/ WriteBudget
  \/ \E b \in BudgetIds : DeleteBudget(b)
  \/ \E r \in Runs : \/ \E w \in Workflows : StartRun(r, w)
                     \/ \E cost \in Costs : CompleteRun(r, cost)
                     \/ RecordCost(r) \/ RecordFails(r)

BudgetsSpec == BudgetsInit /\ [][BudgetsNext]_budgetVars

(***************************************************************************)
(* Properties                                                              *)
(***************************************************************************)
\* The amount a budget shows is what was added to it in the current period:
\* rolling over late, twice or in the middle of an update neither loses a cost
\* nor carries one over.  Excepted is a budget that an update set back because
\* costs were added between its read and its write.
AmountIsThisPeriods ==
  \A b \in Existing \ unsure : today < budget[b].reset_at =>
    budget[b].current = ledger[b][today + 1] - ledger[b][budget[b].reset_at - budget[b].period]

\* No budget is overdrawn, whichever runs are recorded at the same time and
\* however many budgets cover them, unless its limit is lowered later.
NeverOverdrawn == \A b \in Existing \ unsure : budget[b].current <= budget[b].limit

\* A budget accounts for its period: everything added, and no more than it allows.
BudgetsAddUp == AmountIsThisPeriods /\ NeverOverdrawn
================================================================================
