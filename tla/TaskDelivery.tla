---------------------------- MODULE TaskDelivery ----------------------------
(***************************************************************************)
(* How a task reaches a worker: the JetStream work queue of                 *)
(* orbflow-natsbus/src/bus.rs, shared by all workers of a pool, and the     *)
(* handler of orbflow-worker/src/worker.rs.  A message is redelivered when  *)
(* its ack-wait has passed; orbflow-worker-bin/src/main.rs chooses the       *)
(* ack-wait (the task timeout plus a margin) and the number of messages in  *)
(* flight (the concurrency of the worker) so that this does not happen to a *)
(* task that is being executed.  Time is counted in ticks.                  *)
(*                                                                          *)
(* Engine.tla relies on what is shown here: its Execute gives one result    *)
(* for a task, or, at the price of a fault, leaves it for another one.      *)
(***************************************************************************)
EXTENDS Naturals, FiniteSets

CONSTANTS
  Workers,      \* workers of one pool
  OldWorkers,   \* those that do not know the newest wire version
  Tasks,        \* the task messages published
  NewTasks,     \* those in the newest wire version
  Concurrency,  \* permits of a worker; also the consumer's max_ack_pending
  TaskTimeout,  \* longest execution
  Margin,       \* ack_wait is TaskTimeout + Margin (300 s and 30 s in the code)
  MaxFaults     \* bound: crashes, failed publications, lost acknowledgements

ASSUME DeliveryAssumption ==
  /\ OldWorkers \subseteq Workers /\ NewTasks \subseteq Tasks
  /\ Concurrency \in Nat \ {0} /\ TaskTimeout \in Nat \ {0} /\ Margin \in Nat \ {0}
  /\ MaxFaults \in Nat

VARIABLES
  queue,     \* the server: [Tasks -> [st, left]]; left: ticks of the ack-wait left
  handlers,  \* spawned handlers: [w, task, nth, phase, busy, over]; nth tells those
             \* for the same task apart
  ran,       \* history: executions per task
  results,   \* results published per task
  faults     \* faults so far

vars == <<queue, handlers, ran, results, faults>>

AckWait == TaskTimeout + Margin
Of(st) == {t \in Tasks : queue[t].st = st}

Init ==
  /\ queue = [t \in Tasks |-> [st |-> "queued", left |-> 0]]
  /\ handlers = {}
  /\ ran = [t \in Tasks |-> 0]
  /\ results = [t \in Tasks |-> 0]
  /\ faults = 0

Fault == faults < MaxFaults /\ faults' = faults + 1

\* Mutant of MaxAckPending: the default of the bus, not the worker's concurrency.
MaxAckPendingDefault == 1024

\* consumer_max_ack_pending, as worker-bin sets it.
MaxAckPending == Concurrency

FreeNumber(t) ==
  CHOOSE n \in 1..(Cardinality(handlers) + 1) :
    \A h \in handlers : h.task = t => h.nth # n

\* The pull loop of worker w fetches a message and spawns a handler for it, which
\* first waits for one of the worker's permits.
Deliver(w, t) ==
  /\ t \in Of("queued") /\ Cardinality(Of("delivered")) < MaxAckPending
  /\ queue' = [queue EXCEPT ![t] = [st |-> "delivered", left |-> AckWait]]
  /\ handlers' = handlers \cup {[w |-> w, task |-> t, nth |-> FreeNumber(t),
                                 phase |-> "permit", busy |-> 0, over |-> 0]}
  /\ UNCHANGED <<ran, results, faults>>

\* The permit is held until handle_task returns, so not while acknowledging.
FreePermit(w) ==
  Cardinality({h \in handlers : h.w = w /\ h.phase \in {"running", "publish"}}) < Concurrency

Move(h, phase) == handlers' = (handlers \ {h}) \cup {[h EXCEPT !.phase = phase]}

Acquire(h) ==
  /\ h.phase = "permit" /\ FreePermit(h.w)
  /\ ~(h.w \in OldWorkers /\ h.task \in NewTasks)
  /\ Move(h, "running")
  /\ ran' = [ran EXCEPT ![h.task] = @ + 1]
  /\ UNCHANGED <<queue, results, faults>>

\* A wire version newer than the worker's: the task is left to another worker.
Reject(h) ==
  /\ h.phase = "permit" /\ FreePermit(h.w)
  /\ h.w \in OldWorkers /\ h.task \in NewTasks
  /\ Move(h, "nak")
  /\ UNCHANGED <<queue, ran, results, faults>>

\* The executor returns, fails, panics, is not available or runs into the timeout,
\* streaming or not: each gives one result to publish.
Finish(h) ==
  /\ h.phase = "running"
  /\ Move(h, "publish")
  /\ UNCHANGED <<queue, ran, results, faults>>

\* The result is published; or that fails, maybe after the server has stored it.
Publish(h) ==
  /\ h.phase = "publish"
  /\ \/ /\ results' = [results EXCEPT ![h.task] = @ + 1]
        /\ Move(h, "ack")
        /\ UNCHANGED faults
     \/ /\ Fault
        /\ results' \in {results, [results EXCEPT ![h.task] = @ + 1]}
        /\ Move(h, "nak")
  /\ UNCHANGED <<queue, ran>>

\* Mutant of Nak: the message is taken off the queue.
NakDrops(h) ==
  /\ h.phase = "nak"
  /\ queue' = [queue EXCEPT ![h.task] = [st |-> "gone", left |-> 0]]
  /\ handlers' = handlers \ {h}
  /\ UNCHANGED <<ran, results, faults>>

\* The handler failed: the message goes back to the queue (after a delay).
Nak(h) ==
  /\ h.phase = "nak"
  /\ queue' = [queue EXCEPT ![h.task] = IF @.st = "gone" THEN @
                                        ELSE [st |-> "queued", left |-> 0]]
  /\ handlers' = handlers \ {h}
  /\ UNCHANGED <<ran, results, faults>>

\* The handler succeeded: the message is removed from the work queue.
Ack(h) ==
  /\ h.phase = "ack"
  /\ queue' = [queue EXCEPT ![h.task] = [st |-> "gone", left |-> 0]]
  /\ handlers' = handlers \ {h}
  /\ UNCHANGED <<ran, results, faults>>

\* A failure to acknowledge, one way or the other, is only logged.
AckLost(h) ==
  /\ h.phase \in {"ack", "nak"}
  /\ Fault
  /\ handlers' = handlers \ {h}
  /\ UNCHANGED <<queue, ran, results>>

\* Mutant of Expire: the ack-wait has no effect.
ExpireNever(t) == FALSE /\ UNCHANGED vars

\* The ack-wait has passed without an acknowledgement.
Expire(t) ==
  /\ t \in Of("delivered") /\ queue[t].left = 0
  /\ queue' = [queue EXCEPT ![t].st = "queued"]
  /\ UNCHANGED <<handlers, ran, results, faults>>

\* A worker process stops or dies, and is started again.
Crash(w) ==
  /\ Fault
  /\ handlers' = {h \in handlers : h.w # w}
  /\ UNCHANGED <<queue, ran, results>>

\* One tick.  A running executor is stopped at its timeout; everything else a handler
\* does takes, all in all, less than the margin, except waiting for a permit.
MayWait(h) ==
  CASE h.phase = "running" -> h.busy < TaskTimeout
    [] h.phase = "permit" /\ ~FreePermit(h.w) -> TRUE
    [] OTHER -> h.over + 1 < Margin

Older(h) ==
  CASE h.phase = "running" -> [h EXCEPT !.busy = @ + 1]
    [] h.phase = "permit" /\ ~FreePermit(h.w) -> h
    [] OTHER -> [h EXCEPT !.over = @ + 1]

Tick ==
  /\ \E t \in Of("delivered") : queue[t].left > 0
  /\ \A h \in handlers : MayWait(h)
  /\ handlers' = {Older(h) : h \in handlers}
  /\ queue' = [t \in Tasks |-> IF queue[t].left > 0 THEN [queue[t] EXCEPT !.left = @ - 1]
                               ELSE queue[t]]
  /\ UNCHANGED <<ran, results, faults>>

Handle == \E h \in handlers : Acquire(h) \/ Reject(h) \/ Finish(h) \/ Publish(h) \/ Ack(h) \/ Nak(h)
Deliveries == \E w \in Workers, t \in Tasks : Deliver(w, t)
Expiries == \E t \in Tasks : Expire(t)

Next ==
  \/ Deliveries \/ Handle \/ Expiries \/ Tick
  \/ \E h \in handlers : AckLost(h)
  \/ \E w \in Workers : Crash(w)

Spec == Init /\ [][Next]_vars

\* The pull loops, the handlers and the server's clock go on, and the server serves the
\* pull requests that wait in turn: a task an old worker rejects reaches the others.
FairSpec ==
  /\ Spec
  /\ \A w \in Workers, t \in Tasks : SF_vars(Deliver(w, t))
  /\ WF_vars(Handle) /\ WF_vars(Expiries) /\ WF_vars(Tick)

-----------------------------------------------------------------------------
\* A task is executed again only because something failed, once per failure: a
\* handler never waits for its permit, or runs, past the ack-wait of its message.
RunsOncePerFault == \A t \in Tasks : ran[t] <= 1 + faults

\* A task leaves the queue only with a result: whatever fails in between, the engine
\* hears of every task it published.
NoTaskLost == \A t \in Tasks : queue[t].st = "gone" => results[t] > 0

\* Every task is settled in the end.
AllSettled == <>(\A t \in Tasks : queue[t].st = "gone")

=============================================================================
