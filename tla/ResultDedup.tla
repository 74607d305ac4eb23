---------------------------- MODULE ResultDedup ----------------------------
(***************************************************************************)
(* Suppression of redelivered results (crates/orbflow-engine/src/dedup.rs  *)
(* and the part of handle_node_result in engine.rs that uses it).           *)
(*                                                                          *)
(* The bus delivers a result at least once.  Per instance the engine keeps  *)
(* a bounded ResultSet: a hash set for look-ups and a queue with the        *)
(* insertion order, whose oldest id is evicted once the bound is passed.    *)
(* An id is recorded only after its result was handled without an error.    *)
(* Everything happens under the instance's mutex, so one delivery is one    *)
(* step.  The set lives in memory: a restart of the engine, and the         *)
(* clean-up of a finished instance, start again from an empty one.          *)
(***************************************************************************)
EXTENDS Naturals, Sequences

CONSTANTS
  Ids,                    \* the result ids workers make up
  MAX_PROCESSED_RESULTS,  \* ids remembered per instance (100 in the code)
  MaxLog                  \* bound of the history, for TLC only

ASSUME DedupAssumption ==
  /\ MAX_PROCESSED_RESULTS \in Nat \ {0}
  /\ MaxLog \in Nat

VARIABLES
  ids,    \* ResultSetInner::ids, the look-up set
  order,  \* ResultSetInner::order, oldest first
  log     \* history: the ids handled since the set was created, in order

vars == <<ids, order, log>>

\* ResultSet::new
Init ==
  /\ ids = {}
  /\ order = << >>
  /\ log = << >>

\* ResultSet::contains
contains(id) == id \in ids

\* Mutant of PushBounded: nothing is evicted.
PushUnbounded(queue, id) == Append(queue, id)

\* The queue once id is pushed and, past the bound, the oldest id is popped.
PushBounded(queue, id) ==
  IF Len(queue) >= MAX_PROCESSED_RESULTS
  THEN Tail(Append(queue, id))
  ELSE Append(queue, id)

\* Mutant of InsertBounded: the oldest id is removed one push too early.
InsertEvictsEarly(id) ==
  IF Len(order) + 1 >= MAX_PROCESSED_RESULTS
  THEN (ids \cup {id}) \ {Head(order)}
  ELSE ids \cup {id}

\* The look-up set after the same push: the popped id is removed as well.
InsertBounded(id) ==
  IF Len(order) >= MAX_PROCESSED_RESULTS
  THEN (ids \cup {id}) \ {Head(order)}
  ELSE ids \cup {id}

\* A delivery whose result is handled: dedupe check, durable handling, then
\* ResultSet::add.  (add's own membership test cannot fire: contains was false
\* under the same lock.)  A delivery that is skipped as a duplicate, or whose
\* handling fails, records nothing and changes nothing here.
HandleResult(id) ==
  /\ Len(log) < MaxLog
  /\ ~contains(id)
  /\ log' = Append(log, id)
  /\ order' = PushBounded(order, id)
  /\ ids' = InsertBounded(id)

\* A new engine process, or cleanup_instance: the set is created afresh.
Forget ==
  /\ ids' = {}
  /\ order' = << >>
  /\ log' = << >>

Next ==
  \/ \E id \in Ids : HandleResult(id)
  \/ Forget

Spec == Init /\ [][Next]_vars

\* Type invariant; the queue never outgrows MAX_PROCESSED_RESULTS.
TypeOK ==
  /\ ids \subseteq Ids
  /\ order \in Seq(Ids) /\ Len(order) <= MAX_PROCESSED_RESULTS
  /\ log \in Seq(Ids)

\* The two halves of ResultSet never drift apart: the queue holds exactly the ids
\* of the look-up set, each once.  (An id left in the set but not in the queue
\* would never be evicted; one left only in the queue would no longer be
\* suppressed.)
HalvesAgree ==
  /\ ids = {order[i] : i \in DOMAIN order}
  /\ \A i, j \in DOMAIN order : i # j => order[i] # order[j]

\* What the bound costs: the same result is handled twice by one engine process
\* only if at least MAX_PROCESSED_RESULTS other results were handled in between.
RepeatsFarApart ==
  \A i, j \in DOMAIN log :
     i < j /\ log[i] = log[j] => j - i > MAX_PROCESSED_RESULTS

=============================================================================
