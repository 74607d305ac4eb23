------------------------- MODULE TaskDeliveryProofs -------------------------
(***************************************************************************)
(* No task leaves the work queue without a result, and no task is executed  *)
(* again unless something failed: for any number of workers, tasks and      *)
(* faults and any times.                                                    *)
(***************************************************************************)
EXTENDS TaskDelivery, FiniteSetTheorems, TLAPS

Record(h) == h = [w |-> h.w, task |-> h.task, nth |-> h.nth, phase |-> h.phase,
                  busy |-> h.busy, over |-> h.over]

\* The shape of the state, as far as the argument needs it.
Shape ==
  /\ results \in [Tasks -> Nat]
  /\ queue \in [Tasks -> [st : {"queued", "delivered", "gone"}, left : Nat]]
  /\ \A h \in handlers : Record(h) /\ h.task \in Tasks

\* Why a task that is taken off the queue has a result: its handler goes on to
\* acknowledge the message only after the publication has succeeded.
AckedAfterResult == \A h \in handlers : h.phase = "ack" => results[h.task] > 0

DInv == Shape /\ AckedAfterResult /\ NoTaskLost

\* The invariant holds when the workers start.
LEMMA InitDInv == Init => DInv
  BY DEF Init, DInv, Shape, AckedAfterResult, NoTaskLost

\* The ack-wait is a number of ticks.
LEMMA AckWaitNat == AckWait \in Nat
  BY DeliveryAssumption DEF AckWait

\* Moving a handler to another phase keeps its shape and its task.
LEMMA Moved ==
  ASSUME NEW h, NEW phase, Record(h), Move(h, phase)
  PROVE  \E new : /\ handlers' = (handlers \ {h}) \cup {new}
                  /\ Record(new) /\ new.task = h.task /\ new.phase = phase
<1> DEFINE new == [h EXCEPT !.phase = phase]
<1>1. Record(new) /\ new.task = h.task /\ new.phase = phase
  BY DEF Record
<1>2. handlers' = (handlers \ {h}) \cup {new}
  BY DEF Move
<1> HIDE DEF new
<1> QED
  BY <1>1, <1>2

\* A tick changes the clocks of a handler only.
LEMMA OlderSame ==
  ASSUME NEW h, Record(h)
  PROVE  Record(Older(h)) /\ Older(h).task = h.task /\ Older(h).phase = h.phase
  BY DEF Record, Older

\* A new handler has no result yet, and is not about to acknowledge.
LEMMA DeliverDInv ==
  ASSUME DInv, NEW w \in Workers, NEW t \in Tasks, Deliver(w, t)
  PROVE  DInv'
<1> DEFINE new == [w |-> w, task |-> t, nth |-> FreeNumber(t),
                   phase |-> "permit", busy |-> 0, over |-> 0]
<1>1. handlers' = handlers \cup {new} /\ results' = results
  BY DEF Deliver
<1>2. Record(new) /\ new.task = t /\ new.phase = "permit"
  BY DEF Record
<1> HIDE DEF new
<1>3. Shape' /\ NoTaskLost'
  BY <1>1, <1>2, AckWaitNat DEF DInv, Shape, NoTaskLost, Deliver
<1>4. AckedAfterResult'
  BY <1>1, <1>2 DEF DInv, AckedAfterResult
<1> QED
  BY <1>3, <1>4 DEF DInv

\* The steps of a handler: only a successful publication leads to an acknowledgement.
LEMMA HandleDInv ==
  ASSUME DInv, Handle
  PROVE  DInv'
<1> PICK h \in handlers :
      Acquire(h) \/ Reject(h) \/ Finish(h) \/ Publish(h) \/ Ack(h) \/ Nak(h)
  BY DEF Handle
<1>1. Record(h) /\ h.task \in Tasks
  BY DEF DInv, Shape
<1>2. CASE Acquire(h) \/ Reject(h) \/ Finish(h)
  <2>1. PICK phase \in {"running", "nak", "publish"} : Move(h, phase)
    BY <1>2 DEF Acquire, Reject, Finish
  <2>2. UNCHANGED <<queue, results>>
    BY <1>2 DEF Acquire, Reject, Finish
  <2>3. PICK new : /\ handlers' = (handlers \ {h}) \cup {new}
                   /\ Record(new) /\ new.task = h.task /\ new.phase = phase
    BY <1>1, <2>1, Moved
  <2> QED
    BY <1>1, <2>2, <2>3 DEF DInv, Shape, AckedAfterResult, NoTaskLost
<1>3. CASE Publish(h)
  <2>1. results' \in {results, [results EXCEPT ![h.task] = @ + 1]} /\ queue' = queue
    BY <1>3 DEF Publish
  <2>2. results' \in [Tasks -> Nat] /\ \A t \in Tasks : results[t] > 0 => results'[t] > 0
    BY <1>1, <2>1 DEF DInv, Shape
  <2>3. \/ Move(h, "nak")
        \/ Move(h, "ack") /\ results' = [results EXCEPT ![h.task] = @ + 1]
    BY <1>3 DEF Publish
  <2>4. PICK phase \in {"nak", "ack"} :
          Move(h, phase) /\ (phase = "ack" => results'[h.task] > 0)
    BY <1>1, <2>3 DEF DInv, Shape
  <2>5. PICK new : /\ handlers' = (handlers \ {h}) \cup {new}
                   /\ Record(new) /\ new.task = h.task /\ new.phase = phase
    BY <1>1, <2>4, Moved
  <2>6. Shape' /\ NoTaskLost'
    BY <1>1, <2>1, <2>2, <2>5 DEF DInv, Shape, NoTaskLost
  <2>7. AckedAfterResult'
    BY <1>1, <2>2, <2>4, <2>5 DEF DInv, Shape, AckedAfterResult
  <2> QED
    BY <2>6, <2>7 DEF DInv
<1>4. CASE Ack(h)
  BY <1>1, <1>4 DEF Ack, DInv, Shape, AckedAfterResult, NoTaskLost
<1>5. CASE Nak(h)
  BY <1>1, <1>5 DEF Nak, DInv, Shape, AckedAfterResult, NoTaskLost
<1> QED
  BY <1>2, <1>3, <1>4, <1>5

\* Time moves no message and no handler.
LEMMA TickDInv ==
  ASSUME DInv, Tick
  PROVE  DInv'
<1>1. results' = results /\ handlers' = {Older(h) : h \in handlers}
  BY DEF Tick
<1>2. \A h \in handlers : Record(Older(h)) /\ Older(h).task = h.task /\ Older(h).phase = h.phase
  BY OlderSame DEF DInv, Shape
<1>3. /\ queue' \in [Tasks -> [st : {"queued", "delivered", "gone"}, left : Nat]]
      /\ \A t \in Tasks : queue'[t].st = queue[t].st
  BY DEF Tick, DInv, Shape
<1> QED
  BY <1>1, <1>2, <1>3 DEF DInv, Shape, AckedAfterResult, NoTaskLost

\* Every step keeps the invariant.
LEMMA NextDInv == DInv /\ [Next]_vars => DInv'
<1> SUFFICES ASSUME DInv, [Next]_vars
             PROVE  DInv'
  OBVIOUS
<1>1. CASE Deliveries
  BY <1>1, DeliverDInv DEF Deliveries
<1>2. CASE Handle
  BY <1>2, HandleDInv
<1>3. CASE Expiries
  BY <1>3 DEF Expiries, Expire, DInv, Shape, AckedAfterResult, NoTaskLost
<1>4. CASE Tick
  BY <1>4, TickDInv
<1>5. CASE \E h \in handlers : AckLost(h)
  BY <1>5 DEF AckLost, DInv, Shape, AckedAfterResult, NoTaskLost
<1>6. CASE \E w \in Workers : Crash(w)
  BY <1>6 DEF Crash, DInv, Shape, AckedAfterResult, NoTaskLost
<1>7. CASE UNCHANGED vars
  BY <1>7 DEF vars, DInv, Shape, AckedAfterResult, NoTaskLost
<1> QED
  BY <1>1, <1>2, <1>3, <1>4, <1>5, <1>6, <1>7 DEF Next

\* A task leaves the queue only with a result: a message is acknowledged by a handler
\* whose publication succeeded, whatever crashes, rejections, lost acknowledgements and
\* redeliveries happen in between, with any number of workers of either wire version.
THEOREM NoTaskLostAlways == Spec => []NoTaskLost
<1>1. DInv => NoTaskLost
  BY DEF DInv
<1> QED
  BY <1>1, InitDInv, NextDInv, PTL DEF Spec

-----------------------------------------------------------------------------
(***************************************************************************)
(* Executions and faults                                                   *)
(***************************************************************************)
Phases == {"permit", "running", "publish", "ack", "nak"}

\* Every handler works on a delivered message, alone, and within its ack-wait: the
\* ticks the server has counted are the ones the handler has spent, executing for at
\* most TaskTimeout and less than Margin on all the rest.
HandlerOK(h) ==
  /\ Record(h) /\ h.task \in Tasks /\ h.phase \in Phases
  /\ h.busy \in Nat /\ h.over \in Nat /\ h.busy <= TaskTimeout /\ h.over < Margin
  /\ queue[h.task].st = "delivered" /\ queue[h.task].left + h.busy + h.over = AckWait
  /\ h.phase \in {"permit", "nak"} => ran[h.task] <= faults

TaskOK(t) ==
  /\ queue[t].st = "queued" => ran[t] <= faults
  /\ queue[t].st = "delivered" => (\E h \in handlers : h.task = t) \/ ran[t] <= faults

RShape ==
  /\ queue \in [Tasks -> [st : {"queued", "delivered", "gone"}, left : Nat]]
  /\ ran \in [Tasks -> Nat] /\ faults \in Nat

\* Not more messages are in flight than a worker has permits.
InFlight == IsFiniteSet(Of("delivered")) /\ Cardinality(Of("delivered")) <= Concurrency

OneEach == \A g, h \in handlers : g.task = h.task => g = h

RInv ==
  /\ RShape /\ InFlight /\ OneEach
  /\ \A h \in handlers : HandlerOK(h)
  /\ \A t \in Tasks : TaskOK(t)
  /\ RunsOncePerFault

LEMMA InitRInv == Init => RInv
<1> SUFFICES ASSUME Init PROVE RInv
  OBVIOUS
<1>1. Of("delivered") = {}
  BY DEF Of, Init
<1>2. InFlight
  BY <1>1, FS_EmptySet, DeliveryAssumption DEF InFlight
<1>3. \A t \in Tasks : TaskOK(t)
  BY DEF Init, TaskOK
<1> QED BY <1>2, <1>3 DEF Init, RInv, RShape, OneEach, RunsOncePerFault

\* A handler always finds a permit: the handlers of its worker that hold one are for
\* other messages in flight, of which there are fewer than permits.
LEMMA PermitFree == ASSUME RInv, NEW h \in handlers, h.phase = "permit" PROVE FreePermit(h.w)
<1> DEFINE S == {g \in handlers : g.w = h.w /\ g.phase \in {"running", "publish"}}
           T == Of("delivered") \ {h.task}
           f == [g \in S |-> g.task]
<1>1. h.task \in Of("delivered")
  BY DEF RInv, HandlerOK, Of
<1>2. IsFiniteSet(T) /\ Cardinality(T) = Cardinality(Of("delivered")) - 1
      /\ Cardinality(Of("delivered")) \in Nat
  BY <1>1, FS_RemoveElement, FS_CardinalityType DEF RInv, InFlight
<1>3. \A g \in S : g.task \in T
  BY DEF RInv, HandlerOK, Of, OneEach
<1>4. f \in [S -> T] /\ \A a, b \in S : f[a] = f[b] => a = b
  BY <1>3 DEF RInv, OneEach
<1>5. f \in Injection(S, T)
  BY <1>4 DEF Injection, IsInjective
<1> HIDE DEF f, S, T
<1>6. IsFiniteSet(S) /\ Cardinality(S) <= Cardinality(T)
  BY <1>2, <1>5, FS_Injection
<1>7. Cardinality(S) \in Nat
  BY <1>6, FS_CardinalityType
<1>8. Cardinality(S) < Concurrency
  BY <1>2, <1>6, <1>7, DeliveryAssumption DEF RInv, InFlight
<1> QED BY <1>8 DEF FreePermit, S

\* A message that has a handler has ack-wait left.
LEMMA TimeLeft == ASSUME RInv, NEW h \in handlers PROVE queue[h.task].left > 0
<1>1. HandlerOK(h)
  BY DEF RInv
<1>2. queue[h.task].left \in Nat
  BY <1>1 DEF RInv, RShape, HandlerOK
<1> QED BY <1>1, <1>2, DeliveryAssumption DEF HandlerOK, AckWait

\* Taking a message out of flight
LEMMA FewerInFlight ==
  ASSUME RInv, NEW t \in Tasks, RShape', queue'[t].st # "delivered",
         \A u \in Tasks \ {t} : queue'[u] = queue[u]
  PROVE  InFlight'
<1>1. Of("delivered")' \in SUBSET Of("delivered")
  BY DEF Of
<1>2. IsFiniteSet(Of("delivered")') /\ Cardinality(Of("delivered")') <= Cardinality(Of("delivered"))
  BY <1>1, FS_Subset DEF RInv, InFlight
<1>3. Cardinality(Of("delivered")') \in Nat /\ Cardinality(Of("delivered")) \in Nat
  BY <1>2, FS_CardinalityType DEF RInv, InFlight
<1> QED BY <1>2, <1>3, DeliveryAssumption DEF RInv, InFlight

LEMMA DeliverRInv ==
  ASSUME RInv, NEW w \in Workers, NEW t \in Tasks, Deliver(w, t)
  PROVE  RInv'
<1> PICK new : new = [w |-> w, task |-> t, nth |-> FreeNumber(t),
                      phase |-> "permit", busy |-> 0, over |-> 0]
  OBVIOUS
<1>1. /\ handlers' = handlers \cup {new} /\ UNCHANGED <<ran, faults>>
      /\ queue[t].st = "queued" /\ queue' = [queue EXCEPT ![t] = [st |-> "delivered", left |-> AckWait]]
      /\ Cardinality(Of("delivered")) < Concurrency
  BY DEF Deliver, Of, MaxAckPending
<1>2. Record(new) /\ new.task = t /\ new.phase = "permit" /\ new.busy = 0 /\ new.over = 0
  BY DEF Record
<1>3. RShape' /\ queue'[t] = [st |-> "delivered", left |-> AckWait]
      /\ \A u \in Tasks \ {t} : queue'[u] = queue[u]
  BY <1>1, AckWaitNat DEF RInv, RShape
<1>4. \A h \in handlers : h.task # t
  BY <1>1 DEF RInv, HandlerOK
<1>5. InFlight'
  <2>1. Of("delivered")' = Of("delivered") \cup {t} /\ t \notin Of("delivered")
    BY <1>1, <1>3 DEF Of
  <2>2. IsFiniteSet(Of("delivered")') /\ Cardinality(Of("delivered")') = Cardinality(Of("delivered")) + 1
    BY <2>1, FS_AddElement DEF RInv, InFlight
  <2>3. Cardinality(Of("delivered")) \in Nat
    BY FS_CardinalityType DEF RInv, InFlight
  <2> QED BY <1>1, <2>2, <2>3, DeliveryAssumption DEF InFlight
<1>6. OneEach'
  BY <1>1, <1>2, <1>4 DEF RInv, OneEach
<1>7. HandlerOK(new)'
  <2>1. ran[t] <= faults
    BY <1>1 DEF RInv, TaskOK
  <2>2. queue'[t].left + 0 + 0 = AckWait /\ queue'[t].st = "delivered"
    BY <1>3, AckWaitNat
  <2>3. 0 <= TaskTimeout /\ 0 < Margin
    BY DeliveryAssumption
  <2> QED BY <1>1, <1>2, <2>1, <2>2, <2>3 DEF HandlerOK, Record, Phases
<1>8. \A h \in handlers : HandlerOK(h)'
  BY <1>1, <1>3, <1>4 DEF RInv, HandlerOK, Record
<1>9. \A u \in Tasks : TaskOK(u)'
  BY <1>1, <1>2, <1>3 DEF RInv, TaskOK
<1> QED BY <1>1, <1>3, <1>5, <1>6, <1>7, <1>8, <1>9 DEF RInv, RunsOncePerFault

\* A handler goes on to its next phase: what it leaves unsaid is which phases come with
\* a fault or with an execution.
LEMMA MoveRInv ==
  ASSUME RInv, NEW h \in handlers, NEW phase \in Phases, Move(h, phase), queue' = queue,
         faults' \in Nat, faults <= faults', ran' \in [Tasks -> Nat],
         \A t \in Tasks \ {h.task} : ran'[t] = ran[t],
         ran'[h.task] <= 1 + faults',
         phase \in {"permit", "nak"} => ran'[h.task] <= faults'
  PROVE  RInv'
<1> DEFINE new == [h EXCEPT !.phase = phase]
<1>1. HandlerOK(h) /\ handlers' = (handlers \ {h}) \cup {new}
  BY DEF RInv, Move
<1>2. Record(new) /\ new.task = h.task /\ new.phase = phase /\ new.busy = h.busy /\ new.over = h.over
  BY <1>1 DEF HandlerOK, Record
<1> HIDE DEF new
<1>3. RShape' /\ InFlight'
  BY DEF RInv, RShape, InFlight, Of
<1>4. OneEach'
  BY <1>1, <1>2 DEF RInv, OneEach
<1>5. HandlerOK(new)'
  BY <1>1, <1>2 DEF HandlerOK, Record
<1>6. ASSUME NEW g \in handlers \ {h} PROVE HandlerOK(g)'
  <2>1. HandlerOK(g) /\ g.task \in Tasks \ {h.task} /\ ran'[g.task] = ran[g.task] /\ ran[g.task] \in Nat
        /\ faults \in Nat
    BY DEF RInv, OneEach, HandlerOK, RShape
  <2> QED BY <2>1 DEF HandlerOK, Record
<1>7. ASSUME NEW t \in Tasks PROVE TaskOK(t)'
  <2>1. CASE t = h.task
    BY <1>1, <1>2, <2>1 DEF TaskOK, HandlerOK
  <2>2. CASE t # h.task
    <3>1. ran'[t] = ran[t] /\ ran[t] \in Nat /\ faults \in Nat /\ TaskOK(t)
      BY <2>2 DEF RInv, RShape
    <3> QED BY <1>1, <1>2, <3>1 DEF TaskOK
  <2> QED BY <2>1, <2>2
<1>8. RunsOncePerFault'
  <2>1. ASSUME NEW t \in Tasks PROVE ran'[t] <= 1 + faults'
    <3>1. ran[t] <= 1 + faults /\ ran[t] \in Nat /\ faults \in Nat
      BY DEF RInv, RShape, RunsOncePerFault
    <3> QED BY <3>1
  <2> QED BY <2>1 DEF RunsOncePerFault
<1> QED BY <1>1, <1>3, <1>4, <1>5, <1>6, <1>7, <1>8 DEF RInv

\* A handler ends: the message is settled, goes back to the queue or stays in flight
\* without a handler.
LEMMA EndRInv ==
  ASSUME RInv, NEW h \in handlers, handlers' = handlers \ {h}, ran' = ran,
         faults' \in Nat, faults <= faults',
         queue' \in [Tasks -> [st : {"queued", "delivered", "gone"}, left : Nat]],
         \A t \in Tasks \ {h.task} : queue'[t] = queue[t],
         queue'[h.task] # queue[h.task] => queue'[h.task].st # "delivered",
         queue'[h.task].st # "gone" => ran[h.task] <= faults'
  PROVE  RInv'
<1>1. HandlerOK(h) /\ RShape'
  BY DEF RInv, RShape
<1>2. InFlight'
  <2>1. CASE queue'[h.task] = queue[h.task]
    <3>1. Of("delivered")' = Of("delivered")
      BY <2>1 DEF Of
    <3> QED BY <3>1 DEF RInv, InFlight
  <2>2. CASE queue'[h.task] # queue[h.task]
    BY <1>1, <2>2, FewerInFlight DEF HandlerOK
  <2> QED BY <2>1, <2>2
<1>3. OneEach'
  BY DEF RInv, OneEach
<1>4. ASSUME NEW g \in handlers' PROVE HandlerOK(g)'
  <2>1. HandlerOK(g) /\ g.task \in Tasks \ {h.task} /\ ran[g.task] \in Nat /\ faults \in Nat
    BY DEF RInv, OneEach, HandlerOK, RShape
  <2>2. queue'[g.task] = queue[g.task]
    BY <2>1
  <2> QED BY <2>1, <2>2 DEF HandlerOK, Record
<1>5. ASSUME NEW t \in Tasks PROVE TaskOK(t)'
  <2>1. CASE t = h.task
    BY <2>1 DEF TaskOK
  <2>2. CASE t # h.task
    <3>1. queue'[t] = queue[t] /\ ran[t] \in Nat /\ faults \in Nat /\ TaskOK(t)
      BY <2>2 DEF RInv, RShape
    <3>2. ASSUME NEW g \in handlers, g.task = t PROVE g \in handlers'
      BY <2>2, <3>2
    <3> QED BY <3>1, <3>2 DEF TaskOK
  <2> QED BY <2>1, <2>2
<1>6. RunsOncePerFault'
  <2>1. ASSUME NEW t \in Tasks PROVE ran'[t] <= 1 + faults'
    <3>1. ran[t] <= 1 + faults /\ ran[t] \in Nat /\ faults \in Nat
      BY DEF RInv, RShape, RunsOncePerFault
    <3> QED BY <3>1
  <2> QED BY <2>1 DEF RunsOncePerFault
<1> QED BY <1>1, <1>2, <1>3, <1>4, <1>5, <1>6 DEF RInv

LEMMA HandleRInv == ASSUME RInv, Handle PROVE RInv'
<1> PICK h \in handlers :
      Acquire(h) \/ Reject(h) \/ Finish(h) \/ Publish(h) \/ Ack(h) \/ Nak(h)
  BY DEF Handle
<1>1. /\ HandlerOK(h) /\ h.task \in Tasks /\ ran \in [Tasks -> Nat] /\ ran[h.task] \in Nat
      /\ faults \in Nat /\ ran[h.task] <= 1 + faults
  BY DEF RInv, HandlerOK, RShape, RunsOncePerFault
<1>2. CASE Acquire(h)
  <2>1. ran[h.task] <= faults
    BY <1>1, <1>2 DEF Acquire, HandlerOK
  <2>2. /\ ran' = [ran EXCEPT ![h.task] = @ + 1] /\ queue' = queue /\ faults' = faults
        /\ Move(h, "running")
    BY <1>2 DEF Acquire
  <2>3. /\ ran' \in [Tasks -> Nat] /\ \A t \in Tasks \ {h.task} : ran'[t] = ran[t]
        /\ ran'[h.task] = ran[h.task] + 1
    BY <1>1, <2>2
  <2>4. ran'[h.task] <= 1 + faults'
    BY <1>1, <2>1, <2>2, <2>3
  <2> QED BY <1>1, <2>2, <2>3, <2>4, MoveRInv DEF Phases
<1>3. CASE Reject(h) \/ Finish(h)
  <2>1. PICK phase \in {"nak", "publish"} : Move(h, phase) /\ (phase = "nak" => h.phase = "permit")
    BY <1>3 DEF Reject, Finish
  <2>2. queue' = queue /\ ran' = ran /\ faults' = faults /\ (phase = "nak" => ran[h.task] <= faults)
    BY <1>1, <1>3, <2>1 DEF Reject, Finish, HandlerOK
  <2> QED BY <1>1, <2>1, <2>2, MoveRInv DEF Phases
<1>4. CASE Publish(h)
  <2>1. PICK phase \in {"nak", "ack"} :
          Move(h, phase) /\ faults' = (IF phase = "nak" THEN faults + 1 ELSE faults)
    BY <1>4 DEF Publish, Fault
  <2>2. queue' = queue /\ ran' = ran
    BY <1>4 DEF Publish
  <2>3. faults' \in Nat /\ faults <= faults' /\ ran[h.task] <= 1 + faults'
        /\ (phase = "nak" => ran[h.task] <= faults')
    BY <1>1, <2>1
  <2> QED BY <1>1, <2>1, <2>2, <2>3, MoveRInv DEF Phases
<1>5. CASE Ack(h)
  <2>1. handlers' = handlers \ {h} /\ ran' = ran /\ faults' = faults
    BY <1>5 DEF Ack
  <2>2. /\ queue' \in [Tasks -> [st : {"queued", "delivered", "gone"}, left : Nat]]
        /\ \A t \in Tasks \ {h.task} : queue'[t] = queue[t]
        /\ queue'[h.task].st = "gone"
    BY <1>1, <1>5 DEF Ack, RInv, RShape
  <2> QED BY <1>1, <2>1, <2>2, EndRInv
<1>6. CASE Nak(h)
  <2>1. handlers' = handlers \ {h} /\ ran' = ran /\ faults' = faults /\ ran[h.task] <= faults
    BY <1>1, <1>6 DEF Nak, HandlerOK
  <2>2. /\ queue' \in [Tasks -> [st : {"queued", "delivered", "gone"}, left : Nat]]
        /\ \A t \in Tasks \ {h.task} : queue'[t] = queue[t]
        /\ queue'[h.task].st = "queued"
    BY <1>1, <1>6 DEF Nak, RInv, RShape, HandlerOK
  <2> QED BY <1>1, <2>1, <2>2, EndRInv
<1> QED BY <1>2, <1>3, <1>4, <1>5, <1>6

LEMMA AckLostRInv == ASSUME RInv, NEW h \in handlers, AckLost(h) PROVE RInv'
<1>1. /\ h.task \in Tasks /\ ran[h.task] \in Nat /\ faults \in Nat /\ ran[h.task] <= 1 + faults
      /\ queue \in [Tasks -> [st : {"queued", "delivered", "gone"}, left : Nat]]
  BY DEF RInv, HandlerOK, RShape, RunsOncePerFault
<1>2. handlers' = handlers \ {h} /\ ran' = ran /\ queue' = queue /\ faults' = faults + 1
  BY DEF AckLost, Fault
<1>3. faults' \in Nat /\ faults <= faults' /\ ran[h.task] <= faults'
  BY <1>1, <1>2
<1> QED BY <1>1, <1>2, <1>3, EndRInv

\* Only a message without a handler runs out of its ack-wait.
LEMMA ExpireRInv == ASSUME RInv, NEW t \in Tasks, Expire(t) PROVE RInv'
<1>1. /\ queue[t].st = "delivered" /\ queue[t].left = 0 /\ UNCHANGED <<handlers, ran, faults>>
      /\ queue' = [queue EXCEPT ![t].st = "queued"]
  BY DEF Expire, Of
<1>2. \A h \in handlers : h.task # t
  <2>1. ASSUME NEW h \in handlers, h.task = t PROVE FALSE
    <3>1. queue[t].left > 0
      BY <2>1, TimeLeft
    <3> QED BY <1>1, <3>1
  <2> QED BY <2>1
<1>3. /\ RShape' /\ queue'[t].st = "queued" /\ \A u \in Tasks \ {t} : queue'[u] = queue[u]
  BY <1>1 DEF RInv, RShape
<1>4. InFlight'
  BY <1>3, FewerInFlight
<1>5. \A h \in handlers : HandlerOK(h)'
  BY <1>1, <1>2, <1>3 DEF RInv, HandlerOK, Record
<1>6. \A u \in Tasks : TaskOK(u)'
  BY <1>1, <1>2, <1>3 DEF RInv, TaskOK
<1> QED BY <1>1, <1>3, <1>4, <1>5, <1>6 DEF RInv, OneEach, RunsOncePerFault

\* A crash is a fault that pays for an execution of every task the worker had.
LEMMA CrashRInv == ASSUME RInv, NEW w \in Workers, Crash(w) PROVE RInv'
<1>1. /\ faults' = faults + 1 /\ handlers' \subseteq handlers /\ UNCHANGED <<queue, ran>>
  BY DEF Crash, Fault
<1>2. RShape' /\ InFlight' /\ OneEach'
  BY <1>1 DEF RInv, RShape, InFlight, Of, OneEach
<1>3. \A t \in Tasks : ran'[t] <= faults' /\ ran'[t] <= 1 + faults'
  <2>1. ASSUME NEW t \in Tasks PROVE ran'[t] <= faults' /\ ran'[t] <= 1 + faults'
    <3>1. ran[t] <= 1 + faults /\ ran[t] \in Nat /\ faults \in Nat /\ ran'[t] = ran[t]
      BY <1>1 DEF RInv, RShape, RunsOncePerFault
    <3> QED BY <1>1, <3>1
  <2> QED BY <2>1
<1>4. \A h \in handlers' : HandlerOK(h)'
  BY <1>1, <1>3 DEF RInv, HandlerOK, Record
<1> QED BY <1>2, <1>3, <1>4 DEF RInv, TaskOK, RunsOncePerFault

\* A tick is counted by the server and by every handler: nobody waits for a permit.
LEMMA TickRInv == ASSUME RInv, Tick PROVE RInv'
<1>1. /\ handlers' = {Older(h) : h \in handlers} /\ UNCHANGED <<ran, faults>>
      /\ \A h \in handlers : MayWait(h)
      /\ queue' = [t \in Tasks |-> IF queue[t].left > 0 THEN [queue[t] EXCEPT !.left = @ - 1]
                                   ELSE queue[t]]
  BY DEF Tick
<1>2. RShape' /\ \A t \in Tasks : queue'[t].st = queue[t].st
  BY <1>1 DEF RInv, RShape
<1>3. InFlight'
  <2>1. Of("delivered")' = Of("delivered")
    BY <1>2 DEF Of
  <2> QED BY <2>1 DEF RInv, InFlight
<1>4. \A h \in handlers : Record(Older(h)) /\ Older(h).task = h.task /\ Older(h).phase = h.phase
  BY OlderSame DEF RInv, HandlerOK
<1>5. OneEach'
  BY <1>1, <1>4 DEF RInv, OneEach
<1>6. ASSUME NEW o \in handlers' PROVE HandlerOK(o)'
  <2> PICK h \in handlers : o = Older(h)
    BY <1>1
  <2>1. HandlerOK(h) /\ Record(o) /\ o.task = h.task /\ o.phase = h.phase /\ MayWait(h)
    BY <1>1, <1>4 DEF RInv
  <2>2. queue[h.task] \in [st : {"queued", "delivered", "gone"}, left : Nat] /\ queue[h.task].left > 0
    BY <2>1, TimeLeft DEF HandlerOK, RInv, RShape
  <2>3. queue'[h.task].left = queue[h.task].left - 1 /\ queue'[h.task].st = "delivered"
    BY <1>1, <2>1, <2>2 DEF HandlerOK
  <2>4. CASE h.phase = "running"
    <3>1. o = [h EXCEPT !.busy = @ + 1] /\ h.busy < TaskTimeout
      BY <2>1, <2>4 DEF Older, MayWait
    <3>2. o.busy = h.busy + 1 /\ o.over = h.over
      BY <2>1, <3>1 DEF HandlerOK, Record
    <3>3. o.busy \in Nat /\ o.over \in Nat /\ o.busy <= TaskTimeout /\ o.over < Margin
          /\ queue'[h.task].left + o.busy + o.over = AckWait
      BY <2>1, <2>2, <2>3, <3>1, <3>2, DeliveryAssumption DEF HandlerOK
    <3> QED BY <1>1, <2>1, <2>3, <3>3 DEF HandlerOK, Record
  <2>5. CASE h.phase # "running"
    <3>0. h.phase = "permit" => FreePermit(h.w)
      BY PermitFree
    <3>1. o = [h EXCEPT !.over = @ + 1] /\ h.over + 1 < Margin
      BY <2>1, <2>5, <3>0 DEF Older, MayWait
    <3>2. o.over = h.over + 1 /\ o.busy = h.busy
      BY <2>1, <3>1 DEF HandlerOK, Record
    <3>3. o.busy \in Nat /\ o.over \in Nat /\ o.busy <= TaskTimeout /\ o.over < Margin
          /\ queue'[h.task].left + o.busy + o.over = AckWait
      BY <2>1, <2>2, <2>3, <3>1, <3>2, DeliveryAssumption DEF HandlerOK
    <3> QED BY <1>1, <2>1, <2>3, <3>3 DEF HandlerOK, Record
  <2> QED BY <2>4, <2>5
<1>7. \A t \in Tasks : TaskOK(t)'
  BY <1>1, <1>2, <1>4 DEF RInv, TaskOK
<1> QED BY <1>1, <1>2, <1>3, <1>5, <1>6, <1>7 DEF RInv, RunsOncePerFault

LEMMA NextRInv == RInv /\ [Next]_vars => RInv'
<1> SUFFICES ASSUME RInv, [Next]_vars PROVE RInv'
  OBVIOUS
<1>1. CASE UNCHANGED vars
  BY <1>1 DEF vars, RInv, RShape, InFlight, Of, OneEach, HandlerOK, Record, TaskOK, RunsOncePerFault
<1>2. CASE Next
  BY <1>2, DeliverRInv, HandleRInv, ExpireRInv, TickRInv, AckLostRInv, CrashRInv
     DEF Next, Deliveries, Expiries
<1> QED BY <1>1, <1>2

\* A task is executed again only because something failed, once per failure: with as
\* many messages in flight as a worker has permits, no handler waits for one, so each
\* is done, or its worker has crashed, before the ack-wait of its message has passed.
THEOREM RunsOncePerFaultAlways == Spec => []RunsOncePerFault
<1>1. RInv => RunsOncePerFault
  BY DEF RInv
<1> QED
  BY <1>1, InitRInv, NextRInv, PTL DEF Spec

=============================================================================
