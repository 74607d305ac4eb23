-------------------------- MODULE EngineOutcomeProofs --------------------------
(***************************************************************************)
(* What the status of a stored instance means, in a calm start, and that    *)
(* the engine then implements the life cycle: for every workflow whose      *)
(* compensations are of actions, any number of faults, crashes, merges,     *)
(* retries, approvals and compensations.  And that compensations run in     *)
(* reverse order and leave nothing out: for every workflow whose actions    *)
(* run one at a time, and the same faults.                                  *)
(***************************************************************************)
EXTENDS EngineCalmProofs

\* Nothing is left but to save, to go on with a compensation and to acknowledge.
OnlyEnds(k) == \A i \in DOMAIN k : k[i] \in {"save", "comp", "ack"}

\* Once an operation looks for the end, or compensates, it dispatches nothing more.
Settled(k) ==
  \A i, j \in DOMAIN k : i < j /\ k[i] \in {"finish", "comp"} => k[j] \in {"save", "comp", "ack"}

\* What a record's status says is so; f is the number of faults.
Truthful(inst, f) ==
  /\ inst.status # "Pending"
  /\ inst.status = "Completed" => AllNodesTerminal(inst) /\ ~SomeNodeFailed(inst)
  /\ inst.status = "Cancelled" => AllNodesTerminal(inst) /\ "cancel" \in UserOps
  /\ inst.status = "Failed" => SomeNodeFailed(inst) \/ f > 0
  /\ inst.saga.on => SomeNodeFailed(inst) /\ Compensable # {}

\* Compensations are for actions.  (Nothing in the code keeps one from a trigger; then
\* the first dispatch of start_workflow to fail begins a compensation, and the check
\* for the end that follows takes the running instance for Completed.)
ActionsOnly == Compensable \cap (Triggers \cup Capabilities) = {}

\* A workflow with compensations is not cancelled.  (An instance that is cancelled while
\* it compensates keeps its active saga, and turns Failed on the next confirmation.)
NoCancelledSaga == "cancel" \in UserOps => Compensable = {}

\* The same status, of the instance and of each of its nodes.
SameOutcome(inst, stored) ==
  inst.status = stored.status /\ \A n \in Nodes : Status(inst, n) = Status(stored, n)

\* An operation in progress.  start_workflow fails the instance with the first node that
\* fails; the version is behind only after a fault.  Once the copy has ended only the end
\* is left to save, and once the store has ended the operation changes nothing of it.
TruthfulOp(r, stored, f) ==
  /\ Truthful(r.inst, f)
  /\ r.op = "start" =>
       /\ SomeNodeFailed(r.inst) => r.inst.status = "Failed"
       /\ \A n \in Nodes : Status(r.inst, n) = "Completed" => n \in Triggers \cup Capabilities
  /\ Has(r.k, {"finish"}) => r.op \in {"start", "result"}
  /\ Dispatching(r.k) => r.inst.status = "Running"
  /\ r.inst.version # stored.version \/ Has(r.k, {"dispatchError", "refetch"}) => f > 0
  /\ Settled(r.k)
  /\ is_terminal(r.inst) => OnlyEnds(Tail(r.k))
  /\ is_terminal(stored) => OnlyEnds(r.k) /\ r.inst.version = stored.version /\ is_terminal(r.inst)
  /\ is_terminal(stored) /\ NoCancelledSaga => SameOutcome(r.inst, stored)

OutcomeInv ==
  /\ Truthful(db, faults)
  /\ \A p \in Procs : Active(p) => TruthfulOp(proc[p], db, faults)

-----------------------------------------------------------------------------
(* Lemmas about stacks. *)

LEMMA SettledTail ==
  ASSUME NEW k \in Seq(Labels), k # << >>, Settled(k)
  PROVE  Settled(Tail(k)) /\ (Head(k) \in {"finish", "comp"} => OnlyEnds(Tail(k)))
<1>1. /\ Tail(k) \in Seq(Labels) /\ Len(Tail(k)) = Len(k) - 1 /\ Len(k) \in Nat
      /\ \A i \in 1..Len(Tail(k)) : Tail(k)[i] = k[i + 1]
      /\ Head(k) = k[1]
  BY HeadTailProperties
<1>2. DOMAIN Tail(k) = 1..Len(Tail(k)) /\ DOMAIN k = 1..Len(k) /\ Len(k) > 0
  BY <1>1, LenProperties, EmptySeq
<1>3. \A i \in DOMAIN Tail(k) : i + 1 \in DOMAIN k /\ Tail(k)[i] = k[i + 1] /\ 1 < i + 1 /\ i \in Nat
  BY <1>1, <1>2
<1>4. Settled(Tail(k))
  <2> SUFFICES ASSUME NEW i \in DOMAIN Tail(k), NEW j \in DOMAIN Tail(k), i < j,
                      Tail(k)[i] \in {"finish", "comp"}
               PROVE  Tail(k)[j] \in {"save", "comp", "ack"}
    BY DEF Settled
  <2>1. i + 1 < j + 1
    BY <1>3
  <2> QED BY <1>3, <2>1 DEF Settled
<1>5. Head(k) \in {"finish", "comp"} => OnlyEnds(Tail(k))
  BY <1>1, <1>2, <1>3 DEF Settled, OnlyEnds
<1> QED BY <1>4, <1>5

LEMMA OnlyEndsTail ==
  ASSUME NEW k \in Seq(Labels), k # << >>
  PROVE  /\ OnlyEnds(k) => OnlyEnds(Tail(k)) /\ Head(k) \in {"save", "comp", "ack"}
         /\ OnlyEnds(Tail(k)) /\ Head(k) \in {"save", "comp", "ack"} => OnlyEnds(k)
<1>1. /\ Tail(k) \in Seq(Labels) /\ Len(Tail(k)) = Len(k) - 1 /\ Len(k) \in Nat
      /\ \A i \in 1..Len(Tail(k)) : Tail(k)[i] = k[i + 1]
      /\ Head(k) = k[1]
  BY HeadTailProperties
<1>2. DOMAIN Tail(k) = 1..Len(Tail(k)) /\ DOMAIN k = 1..Len(k) /\ Len(k) > 0
  BY <1>1, LenProperties, EmptySeq
<1>3. \A i \in DOMAIN Tail(k) : i + 1 \in DOMAIN k /\ Tail(k)[i] = k[i + 1]
  BY <1>1, <1>2
<1>4. \A i \in DOMAIN k : i = 1 \/ (i - 1 \in DOMAIN Tail(k) /\ Tail(k)[i - 1] = k[i])
  BY <1>1, <1>2
<1>5. 1 \in DOMAIN k
  BY <1>1, <1>2
<1> QED BY <1>1, <1>3, <1>4, <1>5 DEF OnlyEnds

LEMMA OnlyEndsSilent ==
  ASSUME NEW k, OnlyEnds(k)
  PROVE  Settled(k) /\ ~Dispatching(k) /\ ~Has(k, {"finish"}) /\ ~Has(k, {"dispatchError", "refetch"})
  BY DEF OnlyEnds, Settled, Dispatching, Has

\* Two labels that are neither "finish" nor "comp" put before a stack.
LEMMA SettledPush ==
  ASSUME NEW k \in Seq(Labels), Settled(k), NEW a \in Labels, NEW b \in Labels,
         a \notin {"finish", "comp"}, b \notin {"finish", "comp"}
  PROVE  Settled(<<a, b>> \o k)
<1>1. <<a, b>> \in Seq(Labels) /\ Len(<<a, b>>) = 2
  OBVIOUS
<1>2. /\ Len(<<a, b>> \o k) = 2 + Len(k) /\ <<a, b>> \o k \in Seq(Labels)
      /\ \A i \in 1..(2 + Len(k)) :
           (<<a, b>> \o k)[i] = IF i <= 2 THEN <<a, b>>[i] ELSE k[i - 2]
  BY <1>1, ConcatProperties
<1>3. /\ DOMAIN (<<a, b>> \o k) = 1..(2 + Len(k))
      /\ DOMAIN k = 1..Len(k) /\ Len(k) \in Nat
  BY <1>2, LenProperties
<1> SUFFICES ASSUME NEW i \in 1..(2 + Len(k)), NEW j \in 1..(2 + Len(k)), i < j,
                    (<<a, b>> \o k)[i] \in {"finish", "comp"}
             PROVE  (<<a, b>> \o k)[j] \in {"save", "comp", "ack"}
  BY <1>3 DEF Settled
<1>4. i > 2
  <2>1. i <= 2 => (<<a, b>> \o k)[i] \in {a, b}
    BY <1>2
  <2>2. ~(i <= 2)
    BY <2>1
  <2> QED BY <2>2, <1>3
<1>5. /\ i - 2 \in DOMAIN k /\ j - 2 \in DOMAIN k /\ i - 2 < j - 2
      /\ (<<a, b>> \o k)[i] = k[i - 2] /\ (<<a, b>> \o k)[j] = k[j - 2]
  BY <1>2, <1>3, <1>4
<1> QED BY <1>5 DEF Settled

LEMMA RefetchPush ==
  ASSUME NEW k \in Seq(Labels)
  PROVE  /\ Tail(<<"refetch">> \o k) = k
         /\ Settled(k) => Settled(<<"refetch">> \o k)
<1>1. <<"refetch">> \in Seq(Labels) /\ Len(<<"refetch">>) = 1
  BY DEF Labels
<1> DEFINE s == <<"refetch">> \o k
<1>2. /\ Len(s) = 1 + Len(k) /\ s \in Seq(Labels)
      /\ \A i \in 1..(1 + Len(k)) : s[i] = IF i <= 1 THEN "refetch" ELSE k[i - 1]
  <2>1. \A i \in 1..(1 + Len(k)) : i <= 1 => i = 1
    OBVIOUS
  <2> QED BY <1>1, <2>1, ConcatProperties
<1>3. DOMAIN s = 1..(1 + Len(k)) /\ DOMAIN k = 1..Len(k) /\ Len(k) \in Nat
  BY <1>2, LenProperties
<1> HIDE DEF s
<1>4. Tail(s) = k
  <2>1. s # << >>
    BY <1>2, <1>3, EmptySeq
  <2>2. /\ Tail(s) \in Seq(Labels) /\ Len(Tail(s)) = Len(k)
        /\ \A i \in 1..Len(Tail(s)) : Tail(s)[i] = s[i + 1]
    BY <1>2, <1>3, <2>1, HeadTailProperties
  <2>3. \A i \in 1..Len(k) : Tail(s)[i] = k[i]
    BY <1>2, <1>3, <2>2
  <2> QED BY <1>3, <2>2, <2>3, SeqEqual
<1>5. ASSUME Settled(k) PROVE Settled(s)
  <2> SUFFICES ASSUME NEW i \in 1..(1 + Len(k)), NEW j \in 1..(1 + Len(k)), i < j,
                      s[i] \in {"finish", "comp"}
               PROVE  s[j] \in {"save", "comp", "ack"}
    BY <1>3 DEF Settled
  <2>1. /\ i - 1 \in DOMAIN k /\ j - 1 \in DOMAIN k /\ i - 1 < j - 1
        /\ s[i] = k[i - 1] /\ s[j] = k[j - 1]
    BY <1>2, <1>3
  <2> QED BY <1>5, <2>1 DEF Settled
<1> QED BY <1>4, <1>5 DEF s

-----------------------------------------------------------------------------
(* Lemmas about records and operations. *)

\* The nodes that failed and those that completed are the same.
SameEnds(new, old) ==
  \A n \in Nodes : /\ Status(new, n) = "Failed" <=> Status(old, n) = "Failed"
                   /\ Status(new, n) = "Completed" <=> Status(old, n) = "Completed"

LEMMA SameEndsFailed ==
  ASSUME NEW new, NEW old, SameEnds(new, old)
  PROVE  SomeNodeFailed(new) <=> SomeNodeFailed(old)
  BY DEF SameEnds, SomeNodeFailed

LEMMA FaultGrows ==
  ASSUME IInv, NEW kind, Fault(kind)
  PROVE  faults \in Nat /\ faults' \in Nat /\ faults' > 0 /\ faults' >= faults
<1>1. faults \in Nat
  BY EngineAssumption DEF IInv, TypeOK
<1> QED BY <1>1 DEF Fault

LEMMA TruthfulGrows ==
  ASSUME NEW f \in Nat, NEW g \in Nat, g >= f
  PROVE  /\ \A inst : Truthful(inst, f) => Truthful(inst, g)
         /\ \A r, stored : TruthfulOp(r, stored, f) => TruthfulOp(r, stored, g)
<1>1. f > 0 => g > 0
  OBVIOUS
<1>2. \A inst : Truthful(inst, f) => Truthful(inst, g)
  BY <1>1 DEF Truthful
<1> QED BY <1>1, <1>2 DEF TruthfulOp

LEMMA OutcomeStep ==
  ASSUME OutcomeInv, proc \in [Procs -> Operations], NEW p \in Procs, NEW q, Continue(p, q),
         \A o \in Procs \ {p} : ~Active(o),
         q.k # << >> => TruthfulOp(q, db', faults'), Truthful(db', faults')
  PROVE  OutcomeInv'
<1> DEFINE s == IF q.k = << >> THEN Idle ELSE q
<1>1. proc' = [proc EXCEPT ![p] = s]
  BY DEF Continue
<1>2. Idle.k = << >>
  BY DEF Idle
<1>3. \A o \in Procs : proc'[o] = IF o = p THEN s ELSE proc[o]
  BY <1>1
<1>4. \A o \in Procs : Active(o)' => o = p /\ proc'[o] = q /\ q.k # << >>
  BY <1>2, <1>3 DEF Active
<1>5. (\A o \in Procs : Active(o) => TruthfulOp(proc[o], db, faults))'
  BY <1>4
<1> QED BY <1>5 DEF OutcomeInv

\* A step that does not touch the store.
LEMMA OutcomeLocal ==
  ASSUME IInv, CalmInv, OutcomeInv, NEW p \in Procs, NEW label, At(p, label), NEW q, Continue(p, q),
         db' = db, faults' = faults \/ (\E kind : Fault(kind)),
         q.k # << >> => TruthfulOp(q, db, faults')
  PROVE  OutcomeInv'
<1>1. \A o \in Procs \ {p} : ~Active(o)
  BY CalmFacts
<1>2. Truthful(db', faults')
  <2>1. Truthful(db, faults)
    BY DEF OutcomeInv
  <2> QED BY <2>1, FaultGrows, TruthfulGrows
<1>3. proc \in [Procs -> Operations]
  BY DEF IInv, TypeOK
<1>4. q.k # << >> => TruthfulOp(q, db', faults')
  OBVIOUS
<1> QED BY <1>1, <1>2, <1>3, <1>4, OutcomeStep

\* What is known of the operation in progress when it takes a step.
LEMMA OutcomeFacts ==
  ASSUME IInv, CalmInv, OutcomeInv, NEW p \in Procs, NEW label, At(p, label)
  PROVE  /\ Truthful(db, faults) /\ TruthfulOp(proc[p], db, faults) /\ Truthful(proc[p].inst, faults)
         /\ Settled(proc[p].k) /\ Settled(Tail(proc[p].k))
         /\ label \in {"finish", "comp"} => OnlyEnds(Tail(proc[p].k))
         /\ label \in {"dispatchError", "refetch"} => faults > 0
         /\ is_terminal(proc[p].inst) => OnlyEnds(Tail(proc[p].k))
         /\ is_terminal(db) =>
              /\ label \in {"save", "comp", "ack"} /\ OnlyEnds(Tail(proc[p].k))
              /\ proc[p].inst.version = db.version /\ is_terminal(proc[p].inst)
              /\ NoCancelledSaga => SameOutcome(proc[p].inst, db)
         /\ label \in {"dispatch", "publish", "ready"} => proc[p].inst.status = "Running"
         /\ faults \in Nat
<1>1. /\ proc[p].k \in Seq(Labels) /\ proc[p].k # << >> /\ Head(proc[p].k) = label
  BY AtLabel, Facts
<1>2. Truthful(db, faults) /\ TruthfulOp(proc[p], db, faults)
  BY CalmFacts DEF OutcomeInv
<1>3. Settled(Tail(proc[p].k)) /\ (label \in {"finish", "comp"} => OnlyEnds(Tail(proc[p].k)))
  BY <1>1, <1>2, SettledTail DEF TruthfulOp
<1>4. label \in {"dispatchError", "refetch"} => faults > 0
  BY <1>1, <1>2, HasHead DEF TruthfulOp
<1>5. is_terminal(db) =>
        /\ label \in {"save", "comp", "ack"} /\ OnlyEnds(Tail(proc[p].k))
        /\ proc[p].inst.version = db.version /\ is_terminal(proc[p].inst)
        /\ NoCancelledSaga => SameOutcome(proc[p].inst, db)
  BY <1>1, <1>2, OnlyEndsTail DEF TruthfulOp
<1>6. label \in {"dispatch", "publish", "ready"} => proc[p].inst.status = "Running"
  BY <1>2, CalmFacts DEF TruthfulOp
<1>7. faults \in Nat
  BY EngineAssumption DEF IInv, TypeOK
<1> QED BY <1>2, <1>3, <1>4, <1>5, <1>6, <1>7 DEF TruthfulOp

\* A running instance: what has to be shown of an operation on it.
LEMMA RunningOp ==
  ASSUME NEW q, NEW stored, NEW f, q.inst.status = "Running", Settled(q.k),
         q.inst.saga.on => SomeNodeFailed(q.inst) /\ Compensable # {},
         q.op = "start" =>
           /\ ~SomeNodeFailed(q.inst)
           /\ \A n \in Nodes : Status(q.inst, n) = "Completed" => n \in Triggers \cup Capabilities,
         Has(q.k, {"finish"}) => q.op \in {"start", "result"},
         q.inst.version # stored.version \/ Has(q.k, {"dispatchError", "refetch"}) => f > 0,
         ~is_terminal(stored)
  PROVE  TruthfulOp(q, stored, f)
<1>1. Truthful(q.inst, f)
  BY DEF Truthful
<1>2. ~is_terminal(q.inst)
  BY DEF is_terminal, InstanceTerminal
<1> QED BY <1>1, <1>2 DEF TruthfulOp

\* A step of an operation that dispatches, on a running instance.
LEMMA OutcomeDispatch ==
  ASSUME IInv, CalmInv, OutcomeInv, NEW p \in Procs, NEW label \in {"dispatch", "publish", "ready"},
         At(p, label), NEW q, Continue(p, q), db' = db, faults' = faults \/ (\E kind : Fault(kind)),
         q.op = proc[p].op, q.inst.status = proc[p].inst.status, q.inst.saga = proc[p].inst.saga,
         q.inst.version = proc[p].inst.version, SameEnds(q.inst, proc[p].inst), Settled(q.k),
         Has(q.k, {"finish"}) => Has(proc[p].k, {"finish"}),
         Has(q.k, {"dispatchError", "refetch"}) => Has(proc[p].k, {"dispatchError", "refetch"}) \/ faults' > 0
  PROVE  OutcomeInv'
<1> DEFINE r == proc[p]
<1>1. /\ TruthfulOp(r, db, faults) /\ r.inst.status = "Running"
      /\ ~is_terminal(db)
  BY OutcomeFacts
<1>2. faults > 0 => faults' > 0
  BY FaultGrows
<1>3. SomeNodeFailed(q.inst) <=> SomeNodeFailed(r.inst)
  BY SameEndsFailed
<1>4. TruthfulOp(q, db, faults')
  <2>1. q.inst.status = "Running"
    BY <1>1
  <2>2. q.inst.saga.on => SomeNodeFailed(q.inst) /\ Compensable # {}
    BY <1>1, <1>3 DEF TruthfulOp, Truthful
  <2>3. q.op = "start" =>
           /\ ~SomeNodeFailed(q.inst)
           /\ \A n \in Nodes : Status(q.inst, n) = "Completed" => n \in Triggers \cup Capabilities
    <3>1. q.op = "start" => ~SomeNodeFailed(q.inst)
      BY <1>1, <1>3 DEF TruthfulOp
    <3> QED BY <1>1, <3>1 DEF TruthfulOp, SameEnds
  <2>4. Has(q.k, {"finish"}) => q.op \in {"start", "result"}
    BY <1>1 DEF TruthfulOp
  <2>5. q.inst.version # db.version \/ Has(q.k, {"dispatchError", "refetch"}) => faults' > 0
    BY <1>1, <1>2 DEF TruthfulOp
  <2> QED BY <1>1, <2>1, <2>2, <2>3, <2>4, <2>5, RunningOp
<1> QED BY <1>4, OutcomeLocal

-----------------------------------------------------------------------------
(* Dispatching keeps the outcome. *)

LEMMA OneMoves ==
  ASSUME NEW inst \in Instances, NEW n \in Nodes, NEW ns \in NodeStates,
         ns.st \notin {"Failed", "Completed"}, Status(inst, n) \notin {"Failed", "Completed"}
  PROVE  /\ SetNode(inst, n, ns).version = inst.version /\ SetNode(inst, n, ns).status = inst.status
         /\ SetNode(inst, n, ns).saga = inst.saga /\ SameEnds(SetNode(inst, n, ns), inst)
<1> DEFINE new == SetNode(inst, n, ns)
<1>1. /\ new.version = inst.version /\ new.status = inst.status /\ new.saga = inst.saga
      /\ \A m \in Nodes : new.nodes[m] = IF m = n THEN ns ELSE inst.nodes[m]
  BY SetNodeFields
<1> HIDE DEF new
<1>2. SameEnds(new, inst)
  BY <1>1 DEF SameEnds, Status
<1> QED BY <1>1, <1>2 DEF new

\* The node that is dispatched next.
LEMMA NextNode ==
  ASSUME IInv, CalmInv, NEW p \in Procs, At(p, "dispatch"), proc[p].todo # {}
  PROVE  LET n == FirstDefined(proc[p].todo)
             ns == proc[p].inst.nodes[n]
         IN /\ n \in Nodes /\ Status(proc[p].inst, n) \notin {"Failed", "Completed"}
            /\ WaitingNode(ns) \in NodeStates /\ WaitingNode(ns).st \notin {"Failed", "Completed"}
            /\ QueuedNode(ns) \in NodeStates /\ QueuedNode(ns).st \notin {"Failed", "Completed"}
<1> DEFINE n == FirstDefined(proc[p].todo)
<1>1. n \in Nodes /\ n \in proc[p].todo
  BY Facts, FirstDefinedIn
<1>2. Status(proc[p].inst, n) \notin NodeTerminal
  BY <1>1, CalmFacts
<1>3. proc[p].inst.nodes[n] \in NodeStates
  BY <1>1, Facts, InstanceFields
<1> QED BY <1>1, <1>2, <1>3, NodeUpdates DEF NodeTerminal

LEMMA OutcomeGate == ASSUME IInv, CalmInv, OutcomeInv, NEW p \in Procs, Gate(p) PROVE OutcomeInv'
<1> DEFINE r == proc[p]
           n == FirstDefined(r.todo)
           new == SetNode(r.inst, n, WaitingNode(r.inst.nodes[n]))
           q == [r EXCEPT !.todo = @ \ {n},
                          !.inst = SetNode(@, n, WaitingNode(@.nodes[n]))]
<1>1. At(p, "dispatch") /\ r.todo # {} /\ Continue(p, q) /\ db' = db /\ faults' = faults
  BY DEF Gate
<1>2. q.inst = new /\ q.k = r.k /\ q.op = r.op
  BY Facts DEF Operations
<1>3. /\ new.status = r.inst.status /\ new.saga = r.inst.saga /\ new.version = r.inst.version
      /\ SameEnds(new, r.inst)
  <2> DEFINE ns == WaitingNode(r.inst.nodes[n])
  <2>1. n \in Nodes /\ Status(r.inst, n) \notin {"Failed", "Completed"}
        /\ ns \in NodeStates /\ ns.st \notin {"Failed", "Completed"}
    BY <1>1, NextNode
  <2>2. r.inst \in Instances
    BY <1>1, Facts
  <2> HIDE DEF r, n
  <2> QED BY <2>1, <2>2, OneMoves
<1> HIDE DEF q, new
<1> QED BY <1>1, <1>2, <1>3, OutcomeFacts, OutcomeDispatch

LEMMA OutcomeQueueNode ==
  ASSUME IInv, CalmInv, OutcomeInv, NEW p \in Procs, QueueNode(p) PROVE OutcomeInv'
<1> DEFINE r == proc[p]
           n == FirstDefined(r.todo)
           new == SetNode(r.inst, n, QueuedNode(r.inst.nodes[n]))
           q == [r EXCEPT !.k = <<"save", "publish">> \o @,
                          !.inst = SetNode(@, n, QueuedNode(@.nodes[n])),
                          !.att = QueuedNode(r.inst.nodes[n]).att]
<1>1. At(p, "dispatch") /\ r.todo # {} /\ Continue(p, q) /\ db' = db /\ faults' = faults
  BY DEF QueueNode
<1>2. q.inst = new /\ q.k = <<"save", "publish">> \o r.k /\ q.op = r.op
  BY Facts DEF Operations
<1>3. /\ new.status = r.inst.status /\ new.saga = r.inst.saga /\ new.version = r.inst.version
      /\ SameEnds(new, r.inst)
  <2> DEFINE ns == QueuedNode(r.inst.nodes[n])
  <2>1. n \in Nodes /\ Status(r.inst, n) \notin {"Failed", "Completed"}
        /\ ns \in NodeStates /\ ns.st \notin {"Failed", "Completed"}
    BY <1>1, NextNode
  <2>2. r.inst \in Instances
    BY <1>1, Facts
  <2> HIDE DEF r, n
  <2> QED BY <2>1, <2>2, OneMoves
<1> HIDE DEF q, new
<1>4. "save" \in Labels /\ "publish" \in Labels /\ r.k \in Seq(Labels) /\ Settled(r.k)
  BY <1>1, Facts, OutcomeFacts DEF Labels
<1>5. /\ Settled(q.k)
      /\ Has(q.k, {"finish"}) => Has(r.k, {"finish"})
      /\ Has(q.k, {"dispatchError", "refetch"}) => Has(r.k, {"dispatchError", "refetch"})
  <2>1. Settled(q.k)
    BY <1>2, <1>4, SettledPush
  <2> QED BY <1>2, <1>4, <2>1, SilentPush
<1> QED BY <1>1, <1>2, <1>3, <1>5, OutcomeDispatch

LEMMA OutcomeDispatchFails ==
  ASSUME IInv, CalmInv, OutcomeInv, NEW p \in Procs, DispatchFails(p) PROVE OutcomeInv'
<1> DEFINE r == proc[p]
           n == FirstDefined(r.todo)
           ns == IF Gated(r.inst, n) THEN WaitingNode(r.inst.nodes[n])
                                     ELSE QueuedNode(r.inst.nodes[n])
           new == SetNode(r.inst, n, ns)
           q == [r EXCEPT !.k = <<"dispatchError">>,
                          !.inst = SetNode(@, n, IF Gated(@, n)
                                                 THEN WaitingNode(@.nodes[n])
                                                 ELSE QueuedNode(@.nodes[n]))]
<1>1. At(p, "dispatch") /\ r.todo # {} /\ Continue(p, q) /\ db' = db /\ Fault("resolve")
  BY DEF DispatchFails
<1>2. q.inst = new /\ q.k = <<"dispatchError">> /\ q.op = r.op
  BY Facts DEF Operations
<1>3. ns \in NodeStates /\ ns.st \notin {"Failed", "Completed"}
  BY <1>1, NextNode
<1> HIDE DEF ns
<1>4. /\ new.status = r.inst.status /\ new.saga = r.inst.saga /\ new.version = r.inst.version
      /\ SameEnds(new, r.inst)
  BY SMTT(30), <1>1, <1>3, NextNode, OneMoves, Facts
<1> HIDE DEF q, new
<1>5. Settled(q.k) /\ ~Has(q.k, {"finish"})
  BY <1>2 DEF Settled, Has
<1>6. faults' > 0
  BY <1>1, FaultGrows
<1> QED BY <1>1, <1>2, <1>4, <1>5, <1>6, OutcomeDispatch

LEMMA SameEndsSelf == ASSUME NEW new, NEW old, new.nodes = old.nodes PROVE SameEnds(new, old)
  BY DEF SameEnds, Status

LEMMA OutcomePublish == ASSUME IInv, CalmInv, OutcomeInv, NEW p \in Procs, Publish(p) PROVE OutcomeInv'
<1> DEFINE r == proc[p]
           n == FirstDefined(r.todo)
           q == [Pop(r) EXCEPT !.todo = @ \ {n}]
           s == [r EXCEPT !.k = <<"dispatchError">>]
<1>1. /\ At(p, "publish") /\ db' = db
      /\ (Continue(p, q) /\ faults' = faults) \/ (Continue(p, s) /\ Fault("bus"))
  BY DEF Publish
<1>2. /\ r \in Operations /\ r.k \in Seq(Labels) /\ r.k # << >> /\ Tail(r.k) \in Seq(Labels)
  BY <1>1, Facts, AtLabel
<1>3. /\ q.inst = r.inst /\ q.k = Tail(r.k) /\ q.op = r.op
      /\ s.inst = r.inst /\ s.k = <<"dispatchError">> /\ s.op = r.op
  BY <1>2 DEF Operations, Pop
<1> HIDE DEF q, s
<1>4. Settled(q.k) /\ \A labels : Has(q.k, labels) => Has(r.k, labels)
  BY <1>1, <1>2, <1>3, OutcomeFacts, HasTail
<1>5. Settled(s.k) /\ ~Has(s.k, {"finish"})
  BY <1>3 DEF Settled, Has
<1>6. SameEnds(r.inst, r.inst)
  BY SameEndsSelf
<1>7. CASE Continue(p, q) /\ faults' = faults
  BY <1>1, <1>3, <1>4, <1>6, <1>7, OutcomeDispatch
<1>8. CASE Continue(p, s) /\ Fault("bus")
  <2>1. faults' > 0
    BY <1>8, FaultGrows
  <2> QED BY <1>1, <1>3, <1>5, <1>6, <1>8, <2>1, OutcomeDispatch
<1> QED BY <1>1, <1>7, <1>8

LEMMA OutcomeDispatchDone ==
  ASSUME IInv, CalmInv, OutcomeInv, NEW p \in Procs, DispatchDone(p) PROVE OutcomeInv'
<1> DEFINE r == proc[p]
           q == Pop(r)
<1>1. At(p, "dispatch") /\ db' = db /\ Continue(p, q) /\ faults' = faults
  BY DEF DispatchDone
<1>2. /\ r \in Operations /\ r.k \in Seq(Labels) /\ r.k # << >> /\ Tail(r.k) \in Seq(Labels)
  BY <1>1, Facts, AtLabel
<1>3. q.inst = r.inst /\ q.k = Tail(r.k) /\ q.op = r.op
  BY <1>2 DEF Operations, Pop
<1> HIDE DEF q
<1>4. Settled(q.k) /\ \A labels : Has(q.k, labels) => Has(r.k, labels)
  BY <1>1, <1>2, <1>3, OutcomeFacts, HasTail
<1>5. SameEnds(r.inst, r.inst)
  BY SameEndsSelf
<1> QED BY <1>1, <1>3, <1>4, <1>5, OutcomeDispatch

LEMMA CascadeEnds ==
  ASSUME NEW inst \in Instances
  PROVE  LET new == CascadeSkips(inst)
         IN /\ new.version = inst.version /\ new.status = inst.status /\ new.saga = inst.saga
            /\ SameEnds(new, inst)
<1> DEFINE new == CascadeSkips(inst)
<1>1. /\ new.version = inst.version /\ new.status = inst.status /\ new.saga = inst.saga
      /\ \A n \in Nodes : /\ Onward(new.nodes[n], inst.nodes[n])
                          /\ new.nodes[n].st = "Failed" => new.nodes[n] = inst.nodes[n]
  BY CascadeOnward
<1> HIDE DEF new
<1>2. \A n \in Nodes : new.nodes[n].st = "Failed" <=> inst.nodes[n].st = "Failed"
  BY <1>1 DEF Onward
<1>3. \A n \in Nodes : new.nodes[n].st = "Completed" <=> inst.nodes[n].st = "Completed"
  BY <1>1 DEF Onward
<1> QED BY <1>1, <1>2, <1>3 DEF new, SameEnds, Status

LEMMA OutcomeFindReady ==
  ASSUME IInv, CalmInv, OutcomeInv, NEW p \in Procs, FindReady(p) PROVE OutcomeInv'
<1> DEFINE r == proc[p]
           inst == CascadeSkips(r.inst)
           q == [Pop(r) EXCEPT !.inst = inst, !.todo = ReadyNodes(inst)]
<1>1. /\ At(p, "ready") /\ db' = db /\ faults' = faults
      /\ Continue(p, q) \/ Continue(p, Abort(q))
  BY DEF FindReady
<1>2. /\ r \in Operations /\ r.k \in Seq(Labels) /\ r.k # << >> /\ Tail(r.k) \in Seq(Labels)
      /\ inst \in Instances /\ ReadyNodes(inst) \in SUBSET Nodes
  BY <1>1, Facts, AtLabel, CascadeOnward, ReadyNodesIn
<1>3. /\ inst.version = r.inst.version /\ inst.status = r.inst.status /\ inst.saga = r.inst.saga
      /\ SameEnds(inst, r.inst)
  BY Facts, CascadeEnds
<1> HIDE DEF inst
<1>4. q.inst = inst /\ q.k = Tail(r.k) /\ q.op = r.op /\ q \in Operations
  BY <1>2 DEF Operations, Pop
<1> HIDE DEF q
<1>5. Settled(q.k) /\ \A labels : Has(q.k, labels) => Has(r.k, labels)
  BY <1>1, <1>2, <1>4, OutcomeFacts, HasTail
<1>6. CASE Continue(p, q)
  BY <1>1, <1>3, <1>4, <1>5, <1>6, OutcomeDispatch
<1>7. CASE Continue(p, Abort(q))
  <2>1. Abort(q).k = << >>
    BY <1>4, AbortEnds
  <2> QED BY <1>1, <1>7, <2>1, OutcomeLocal
<1> QED BY <1>1, <1>6, <1>7

LEMMA OnlyEndsPush ==
  ASSUME NEW k \in Seq(Labels), OnlyEnds(k), NEW a \in Labels, NEW b \in Labels,
         a \in {"save", "comp", "ack"}, b \in {"save", "comp", "ack"}
  PROVE  OnlyEnds(<<a, b>> \o k)
<1>1. <<a, b>> \in Seq(Labels) /\ Len(<<a, b>>) = 2
  OBVIOUS
<1>2. /\ Len(<<a, b>> \o k) = 2 + Len(k) /\ <<a, b>> \o k \in Seq(Labels)
      /\ \A i \in 1..(2 + Len(k)) :
           (<<a, b>> \o k)[i] = IF i <= 2 THEN <<a, b>>[i] ELSE k[i - 2]
  BY <1>1, ConcatProperties
<1>3. /\ DOMAIN (<<a, b>> \o k) = 1..(2 + Len(k))
      /\ DOMAIN k = 1..Len(k) /\ Len(k) \in Nat
  BY <1>2, LenProperties
<1> SUFFICES ASSUME NEW i \in 1..(2 + Len(k)) PROVE (<<a, b>> \o k)[i] \in {"save", "comp", "ack"}
  BY <1>3 DEF OnlyEnds
<1>4. i <= 2 => (<<a, b>> \o k)[i] \in {a, b}
  BY <1>2
<1>5. ~(i <= 2) => i - 2 \in DOMAIN k /\ (<<a, b>> \o k)[i] = k[i - 2]
  BY <1>2, <1>3
<1> QED BY <1>4, <1>5 DEF OnlyEnds

\* The stacks that follow a dispatch error.
LEMMA ErrorStacks ==
  /\ Settled(<<"finish", "save">>) /\ OnlyEnds(Tail(<<"finish", "save">>))
  /\ \A k \in {<<"save", "ack">>, <<"save">>} :
       /\ Settled(k) /\ OnlyEnds(Tail(k)) /\ ~Has(k, {"finish"})
       /\ Settled(<<"save", "comp">> \o k) /\ ~Has(<<"save", "comp">> \o k, {"finish"})
<1>1. Settled(<<"finish", "save">>) /\ OnlyEnds(Tail(<<"finish", "save">>))
  BY DEF Settled, OnlyEnds
<1> SUFFICES ASSUME NEW k \in {<<"save", "ack">>, <<"save">>}
             PROVE  /\ Settled(k) /\ OnlyEnds(Tail(k)) /\ ~Has(k, {"finish"})
                    /\ Settled(<<"save", "comp">> \o k) /\ ~Has(<<"save", "comp">> \o k, {"finish"})
  BY <1>1
<1>2. OnlyEnds(k)
  BY DEF OnlyEnds
<1>3. k \in Seq(Labels) /\ k # << >> /\ "save" \in Labels /\ "comp" \in Labels
  BY ErrorRest DEF Labels
<1>4. OnlyEnds(<<"save", "comp">> \o k)
  BY <1>2, <1>3, OnlyEndsPush
<1> QED BY <1>2, <1>3, <1>4, OnlyEndsTail, OnlyEndsSilent

\* A node that cannot be dispatched fails the instance, or begins a compensation of it;
\* the latter not in start_workflow, where no action has completed yet.
LEMMA OutcomeDispatchError ==
  ASSUME IInv, CalmInv, OutcomeInv, ActionsOnly, NEW p \in Procs, DispatchError(p) PROVE OutcomeInv'
<1> DEFINE r == proc[p]
           n == FirstDefined(r.todo)
           one == SetStatus(r.inst, n, "Failed")
           failed == [one EXCEPT !.status = "Failed", !.version = @ + 1]
           saga == HasCompensation(failed)
           rest == CASE r.op = "start" -> <<"finish", "save">>
                     [] r.op \in {"result", "retry"} -> <<"save", "ack">>
                     [] OTHER -> <<"save">>
           inst == IF saga THEN BeginCompensation(failed) ELSE CascadeSkips(failed)
           q == [r EXCEPT !.todo = {}, !.inst = inst,
                          !.k = IF saga THEN <<"save", "comp">> \o rest ELSE rest]
<1>1. At(p, "dispatchError") /\ db' = db /\ faults' = faults /\ Continue(p, q)
  BY DEF DispatchError
<1>2. q.inst = inst /\ q.k = (IF saga THEN <<"save", "comp">> \o rest ELSE rest) /\ q.op = r.op
  BY Facts DEF Operations
<1>3. /\ faults > 0 /\ TruthfulOp(r, db, faults) /\ r.todo # {}
      /\ ~is_terminal(db)
  BY <1>1, OutcomeFacts, CalmFacts
<1>4. n \in Nodes /\ r.inst \in Instances /\ "Failed" \in NodeStatus
  <2>1. n \in r.todo
    BY <1>3, Facts, FirstDefinedIn
  <2> QED BY <2>1, Facts DEF NodeStatus
<1>5. /\ one \in Instances /\ Status(one, n) = "Failed"
      /\ \A m \in Nodes : Status(one, m) = "Completed" => Status(r.inst, m) = "Completed"
  <2> DEFINE ns == [r.inst.nodes[n] EXCEPT !.st = "Failed"]
  <2>1. /\ one \in Instances /\ ns.st = "Failed"
        /\ \A m \in Nodes : one.nodes[m] = IF m = n THEN ns ELSE r.inst.nodes[m]
    BY <1>4, SetStatusFields
  <2> HIDE DEF one, ns
  <2> QED BY <1>4, <2>1 DEF Status
<1> HIDE DEF one, n
<1>6. failed \in Instances /\ failed.nodes = one.nodes /\ failed.status = "Failed"
  <2>1. one.version + 1 \in Nat
    BY <1>5, InstanceFields
  <2> QED BY <1>5, <2>1 DEF Instances, InstanceStatus
<1> HIDE DEF failed
<1>7. /\ Status(failed, n) = "Failed" /\ SomeNodeFailed(failed)
      /\ \A m \in Nodes : Status(failed, m) = "Completed" => Status(r.inst, m) = "Completed"
  BY <1>4, <1>5, <1>6 DEF Status, SomeNodeFailed
<1>8. ASSUME r.op = "start" PROVE ~saga
  <2>1. \A m \in Nodes : Status(failed, m) = "Completed" => m \in Triggers \cup Capabilities
    BY <1>3, <1>7, <1>8 DEF TruthfulOp
  <2> QED BY <2>1, WorkflowAssumption DEF ActionsOnly, HasCompensation
<1>9. rest = IF r.op = "start" THEN <<"finish", "save">>
             ELSE IF r.op \in {"result", "retry"} THEN <<"save", "ack">> ELSE <<"save">>
  OBVIOUS
<1>10. /\ Settled(q.k) /\ (Has(q.k, {"finish"}) => q.op \in {"start", "result"})
       /\ ~saga => OnlyEnds(Tail(q.k))
  <2> HIDE DEF saga, rest, q
  <2>1. CASE r.op = "start"
    BY <1>2, <1>8, <1>9, <2>1, ErrorStacks
  <2>2. CASE r.op # "start"
    <3>1. rest \in {<<"save", "ack">>, <<"save">>}
      BY <1>9, <2>2
    <3>2. CASE rest = <<"save", "ack">>
      BY <1>2, <3>2, ErrorStacks
    <3>3. CASE rest = <<"save">>
      BY <1>2, <3>3, ErrorStacks
    <3> QED BY <3>1, <3>2, <3>3
  <2> QED BY <2>1, <2>2
<1>11. ~Dispatching(q.k)
  <2>1. rest \in {<<"finish", "save">>, <<"save", "ack">>, <<"save">>}
    BY <1>9
  <2> HIDE DEF rest
  <2> QED BY <1>2, <2>1, ErrorRest
<1> HIDE DEF q, rest
<1>12. CASE saga
  <2>1. inst = BeginCompensation(failed)
    BY <1>12
  <2>2. inst.status = "Running" /\ inst.nodes = failed.nodes
    BY <1>6, <2>1 DEF BeginCompensation, Instances
  <2>3. SomeNodeFailed(inst) /\ Compensable # {}
    BY <1>7, <1>12, <2>2 DEF SomeNodeFailed, Status, HasCompensation
  <2> HIDE DEF inst, saga
  <2>4. TruthfulOp(q, db, faults')
    BY <1>1, <1>2, <1>3, <1>8, <1>10, <1>12, <2>2, <2>3, RunningOp
  <2> QED BY <1>1, <2>4, OutcomeLocal
<1>13. CASE ~saga
  <2>1. inst = CascadeSkips(failed)
    BY <1>13
  <2>2. inst.status = "Failed" /\ SameEnds(inst, failed) /\ inst.saga = failed.saga
    BY <1>6, <2>1, CascadeEnds
  <2>3. SomeNodeFailed(inst)
    BY <1>7, <2>2, SameEndsFailed
  <2>4. failed.saga = r.inst.saga
    BY <1>4 DEF failed, one, SetStatus, Instances
  <2>5. Truthful(inst, faults)
    BY <1>3, <2>2, <2>3, <2>4 DEF TruthfulOp, Truthful
  <2>6. r.op = "start" => \A m \in Nodes : Status(inst, m) = "Completed" => m \in Triggers \cup Capabilities
    BY <1>3, <1>7, <2>2 DEF TruthfulOp, SameEnds
  <2> HIDE DEF inst, saga
  <2>7. TruthfulOp(q, db, faults')
    BY <1>1, <1>2, <1>3, <1>10, <1>11, <1>13, <2>2, <2>5, <2>6 DEF TruthfulOp
  <2> QED BY <1>1, <2>7, OutcomeLocal
<1> QED BY <1>12, <1>13

LEMMA OutcomeEnds ==
  ASSUME IInv, CalmInv, OutcomeInv, NEW p \in Procs, NEW label, At(p, label), NEW q, Continue(p, q),
         q.k = << >>, db' = db, faults' = faults \/ (\E kind : Fault(kind))
  PROVE  OutcomeInv'
  BY OutcomeLocal

LEMMA OutcomeDispatchErrorLost ==
  ASSUME IInv, CalmInv, OutcomeInv, NEW p \in Procs, DispatchErrorLost(p) PROVE OutcomeInv'
<1>1. At(p, "dispatchError") /\ Continue(p, Abort(proc[p])) /\ db' = db /\ Fault("store")
  BY DEF DispatchErrorLost
<1> QED BY <1>1, AbortEnds, Facts, OutcomeEnds

LEMMA OutcomeFinish == ASSUME IInv, CalmInv, OutcomeInv, NEW p \in Procs, Finish(p) PROVE OutcomeInv'
<1> DEFINE r == proc[p]
           inst == Finished(r)
           q == [Pop(r) EXCEPT !.inst = inst]
<1>1. At(p, "finish") /\ db' = db /\ faults' = faults /\ Continue(p, q)
  BY DEF Finish
<1>2. /\ r \in Operations /\ r.k \in Seq(Labels) /\ r.k # << >> /\ Tail(r.k) \in Seq(Labels)
      /\ r.inst \in Instances /\ Head(r.k) = "finish"
  BY <1>1, Facts, AtLabel
<1>3. q.inst = inst /\ q.k = Tail(r.k) /\ q.op = r.op
  BY <1>2 DEF Operations, Pop
<1>4. /\ TruthfulOp(r, db, faults) /\ Truthful(r.inst, faults)
      /\ OnlyEnds(Tail(r.k)) /\ ~is_terminal(db)
      /\ r.op \in {"start", "result"}
  BY <1>1, <1>2, OutcomeFacts, HasHead DEF TruthfulOp
<1>5. /\ inst.nodes = r.inst.nodes /\ inst.saga = r.inst.saga /\ inst.version = r.inst.version
      /\ \/ inst = r.inst
         \/ /\ inst.status = (IF r.op = "result" /\ SomeNodeFailed(r.inst) THEN "Failed" ELSE "Completed")
            /\ AllNodesTerminal(r.inst) /\ ~(r.op = "start" /\ r.inst.status = "Failed")
  BY <1>2 DEF Finished, Instances
<1> HIDE DEF inst, q
<1>6. SameEnds(inst, r.inst) /\ (AllNodesTerminal(inst) <=> AllNodesTerminal(r.inst))
      /\ (SomeNodeFailed(inst) <=> SomeNodeFailed(r.inst))
  BY <1>5 DEF SameEnds, AllNodesTerminal, SomeNodeFailed, Status
<1>7. Truthful(inst, faults)
  <2>1. CASE inst = r.inst
    BY <1>4, <2>1
  <2>2. CASE /\ inst.status = (IF r.op = "result" /\ SomeNodeFailed(r.inst) THEN "Failed" ELSE "Completed")
             /\ AllNodesTerminal(r.inst) /\ ~(r.op = "start" /\ r.inst.status = "Failed")
    <3>1. inst.status = "Completed" => ~SomeNodeFailed(r.inst)
      BY <1>4, <2>2 DEF TruthfulOp
    <3> QED BY <1>4, <1>5, <1>6, <2>2, <3>1 DEF Truthful
  <2> QED BY <1>5, <2>1, <2>2
<1>8. r.op = "start" =>
        /\ SomeNodeFailed(inst) => inst.status = "Failed"
        /\ \A n \in Nodes : Status(inst, n) = "Completed" => n \in Triggers \cup Capabilities
  <2>1. r.op = "start" /\ SomeNodeFailed(inst) => r.inst.status = "Failed"
    BY <1>4, <1>6 DEF TruthfulOp
  <2>2. r.op = "start" /\ SomeNodeFailed(inst) => inst.status = "Failed"
    BY <1>5, <2>1
  <2> QED BY <1>4, <1>6, <2>2 DEF TruthfulOp, SameEnds
<1>9. q.k # << >> => TruthfulOp(q, db, faults')
  <2>1. /\ Settled(q.k) /\ ~Dispatching(q.k) /\ ~Has(q.k, {"finish"})
        /\ ~Has(q.k, {"dispatchError", "refetch"})
    BY <1>3, <1>4, OnlyEndsSilent
  <2>2. q.k # << >> => OnlyEnds(Tail(q.k))
    BY <1>2, <1>3, <1>4, OnlyEndsTail
  <2> QED BY <1>1, <1>3, <1>4, <1>5, <1>7, <1>8, <2>1, <2>2 DEF TruthfulOp
<1> QED BY <1>1, <1>9, OutcomeLocal

-----------------------------------------------------------------------------
(* Saving keeps the outcome. *)

\* Truthful is about the status, the saga and the states of nodes.
LEMMA TruthfulSame ==
  ASSUME NEW new, NEW old, NEW f, Truthful(old, f), new.nodes = old.nodes,
         new.status = old.status, new.saga = old.saga
  PROVE  /\ Truthful(new, f) /\ SameOutcome(new, old) /\ SameEnds(new, old)
         /\ (is_terminal(new) <=> is_terminal(old)) /\ (SomeNodeFailed(new) <=> SomeNodeFailed(old))
<1>1. \A n : Status(new, n) = Status(old, n)
  BY DEF Status
<1> QED BY <1>1 DEF Truthful, SameOutcome, SameEnds, is_terminal, SomeNodeFailed, AllNodesTerminal

\* An operation that goes on with the same record, but for its version, and a shorter stack.
LEMMA OutcomeOn ==
  ASSUME NEW r, NEW stored, NEW f, TruthfulOp(r, stored, f), r.k \in Seq(Labels), r.k # << >>,
         NEW q, NEW now, NEW g, f > 0 => g > 0, q.op = r.op, q.inst.nodes = r.inst.nodes,
         q.inst.status = r.inst.status, q.inst.saga = r.inst.saga,
         q.k = Tail(r.k), q.k # << >>, q.inst.version # now.version => g > 0,
         is_terminal(now) =>
           /\ OnlyEnds(Tail(r.k)) /\ q.inst.version = now.version /\ is_terminal(r.inst)
           /\ NoCancelledSaga => SameOutcome(q.inst, now)
  PROVE  TruthfulOp(q, now, g)
<1>1. /\ Truthful(r.inst, g) /\ Truthful(q.inst, g) /\ SameEnds(q.inst, r.inst)
      /\ is_terminal(q.inst) <=> is_terminal(r.inst)
      /\ SomeNodeFailed(q.inst) <=> SomeNodeFailed(r.inst)
  <2>1. Truthful(r.inst, g)
    BY DEF TruthfulOp, Truthful
  <2> QED BY <2>1, TruthfulSame
<1>2. /\ Settled(q.k) /\ Tail(r.k) \in Seq(Labels)
      /\ is_terminal(q.inst) => OnlyEnds(Tail(q.k))
  <2>1. Tail(r.k) \in Seq(Labels)
    BY HeadTailProperties
  <2> QED BY <1>1, <2>1, SettledTail, OnlyEndsTail DEF TruthfulOp
<1>3. \A labels : Has(q.k, labels) => Has(r.k, labels)
  BY HasTail
<1>4. q.op = "start" =>
       /\ SomeNodeFailed(q.inst) => q.inst.status = "Failed"
       /\ \A n \in Nodes : Status(q.inst, n) = "Completed" => n \in Triggers \cup Capabilities
  BY <1>1 DEF TruthfulOp, SameEnds
<1>5. /\ Has(q.k, {"finish"}) => q.op \in {"start", "result"}
      /\ Dispatching(q.k) => q.inst.status = "Running"
      /\ q.inst.version # now.version \/ Has(q.k, {"dispatchError", "refetch"}) => g > 0
  BY <1>3 DEF TruthfulOp, Dispatching
<1> QED BY <1>1, <1>2, <1>4, <1>5 DEF TruthfulOp

LEMMA OutcomeSave == ASSUME IInv, CalmInv, OutcomeInv, NEW p \in Procs, Save(p) PROVE OutcomeInv'
<1> DEFINE r == proc[p]
           q == [Pop(r) EXCEPT !.inst = Bumped(@), !.try = 0]
<1>1. /\ At(p, "save") /\ Continue(p, q) /\ db' = Bumped(r.inst) /\ faults' = faults
  BY DEF Save
<1>2. /\ r \in Operations /\ r.k \in Seq(Labels) /\ r.k # << >> /\ Tail(r.k) \in Seq(Labels)
      /\ r.inst \in Instances
  BY <1>1, Facts, AtLabel
<1>3. q.inst = db' /\ q.k = Tail(r.k) /\ q.op = r.op
  BY <1>1, <1>2 DEF Operations, Pop
<1>4. /\ db'.nodes = r.inst.nodes /\ db'.status = r.inst.status /\ db'.saga = r.inst.saga
  BY <1>1, <1>2, BumpedFields
<1> HIDE DEF q
<1>5. /\ TruthfulOp(r, db, faults) /\ Truthful(r.inst, faults)
      /\ is_terminal(r.inst) => OnlyEnds(Tail(r.k))
  BY <1>1, OutcomeFacts
<1>6. Truthful(db', faults) /\ (is_terminal(db') <=> is_terminal(r.inst))
  BY <1>4, <1>5, TruthfulSame
<1>7. SameOutcome(db', db')
  BY DEF SameOutcome
<1>8. q.k # << >> => TruthfulOp(q, db', faults)
  BY <1>2, <1>3, <1>4, <1>5, <1>6, <1>7, OutcomeOn
<1>9. proc \in [Procs -> Operations] /\ \A o \in Procs \ {p} : ~Active(o)
  BY <1>1, CalmFacts DEF IInv, TypeOK
<1> QED BY <1>1, <1>6, <1>8, <1>9, OutcomeStep

LEMMA OutcomeSaveConflict ==
  ASSUME IInv, CalmInv, OutcomeInv, NEW p \in Procs, SaveConflict(p) PROVE OutcomeInv'
<1> DEFINE r == proc[p]
           q == [r EXCEPT !.inst = Bumped(@), !.k = <<"refetch">> \o @]
<1>1. /\ At(p, "save") /\ Continue(p, q) /\ db' = db /\ faults' = faults
      /\ db.version # r.inst.version
  BY DEF SaveConflict, SaveWins
<1>2. /\ r \in Operations /\ r.k \in Seq(Labels) /\ r.k # << >> /\ Tail(r.k) \in Seq(Labels)
      /\ r.inst \in Instances /\ Head(r.k) = "save"
  BY <1>1, Facts, AtLabel
<1>3. q.inst = Bumped(r.inst) /\ q.k = <<"refetch">> \o r.k /\ q.op = r.op
  BY <1>2 DEF Operations
<1> HIDE DEF q
<1>4. q.inst.nodes = r.inst.nodes /\ q.inst.status = r.inst.status /\ q.inst.saga = r.inst.saga
  BY <1>2, <1>3, BumpedFields
<1>5. /\ TruthfulOp(r, db, faults) /\ faults > 0
      /\ is_terminal(r.inst) => OnlyEnds(Tail(r.k))
      /\ ~is_terminal(db)
  BY <1>1, OutcomeFacts DEF TruthfulOp
<1>6. /\ Truthful(q.inst, faults) /\ SameEnds(q.inst, r.inst)
      /\ is_terminal(q.inst) <=> is_terminal(r.inst)
      /\ SomeNodeFailed(q.inst) <=> SomeNodeFailed(r.inst)
  BY <1>4, <1>5, TruthfulSame DEF TruthfulOp
<1>7. Settled(q.k) /\ Tail(q.k) = r.k
  BY <1>2, <1>3, <1>5, RefetchPush DEF TruthfulOp
<1>8. is_terminal(q.inst) => OnlyEnds(Tail(q.k))
  BY <1>2, <1>5, <1>6, <1>7, OnlyEndsTail
<1>9. (Has(q.k, {"finish"}) => Has(r.k, {"finish"})) /\ (Dispatching(q.k) => Dispatching(r.k))
  BY <1>2, <1>3, HasRefetch DEF Dispatching
<1>10. q.op = "start" =>
       /\ SomeNodeFailed(q.inst) => q.inst.status = "Failed"
       /\ \A n \in Nodes : Status(q.inst, n) = "Completed" => n \in Triggers \cup Capabilities
  BY <1>3, <1>4, <1>5, <1>6 DEF TruthfulOp, SameEnds
<1>11. TruthfulOp(q, db, faults)
  BY <1>3, <1>4, <1>5, <1>6, <1>7, <1>8, <1>9, <1>10 DEF TruthfulOp
<1> QED BY <1>1, <1>11, OutcomeLocal

LEMMA OutcomeSaveError ==
  ASSUME IInv, CalmInv, OutcomeInv, NEW p \in Procs, SaveError(p) PROVE OutcomeInv'
<1> DEFINE r == proc[p]
           s == SaveFailed(r)
           q == [s EXCEPT !.inst = Bumped(@)]
<1>1. At(p, "save") /\ Continue(p, q) /\ db' = db /\ Fault("store")
  BY DEF SaveError
<1>2. /\ r \in Operations /\ r.k \in Seq(Labels) /\ r.inst \in Instances
  BY Facts
<1>3. /\ s \in Operations /\ s.inst = r.inst /\ s.op = r.op
      /\ \/ s.k = << >>
         \/ s.k = <<"dispatchError">> /\ Len(r.k) > 1 /\ r.k[2] = "publish"
  <2>1. << >> \in Seq(Labels) /\ <<"dispatchError">> \in Seq(Labels) /\ 0 \in Nat
    BY Stack0, Stack1, QuietLabels
  <2>2. CASE Len(r.k) > 1 /\ r.k[2] = "publish"
    BY <1>2, <2>1, <2>2 DEF SaveFailed, Operations
  <2>3. CASE ~(Len(r.k) > 1 /\ r.k[2] = "publish")
    BY <1>2, <2>1, <2>3 DEF SaveFailed, Abort, Operations
  <2> QED BY <2>2, <2>3
<1> HIDE DEF s
<1>4. q.inst = Bumped(r.inst) /\ q.k = s.k /\ q.op = r.op
  BY <1>3 DEF Operations
<1> HIDE DEF q
<1>5. CASE s.k = << >>
  BY <1>1, <1>4, <1>5, OutcomeEnds
<1>6. CASE s.k = <<"dispatchError">> /\ Len(r.k) > 1 /\ r.k[2] = "publish"
  <2>1. Dispatching(r.k)
    <3>1. 2 \in DOMAIN r.k
      BY <1>2, <1>6, LenProperties
    <3> QED BY <1>6, <3>1 DEF Dispatching, Has
  <2>2. /\ TruthfulOp(r, db, faults) /\ r.inst.status = "Running"
        /\ ~is_terminal(db)
    <3>1. TruthfulOp(r, db, faults) /\ r.inst.status = "Running"
      BY <1>1, <2>1, OutcomeFacts DEF TruthfulOp
    <3> QED BY <2>1, <3>1, OnlyEndsSilent DEF TruthfulOp
  <2>3. faults' > 0 /\ faults' >= faults
    BY <1>1, FaultGrows
  <2>4. q.inst.nodes = r.inst.nodes /\ q.inst.status = r.inst.status /\ q.inst.saga = r.inst.saga
    BY <1>2, <1>4, BumpedFields
  <2>5. SameEnds(q.inst, r.inst) /\ (SomeNodeFailed(q.inst) <=> SomeNodeFailed(r.inst))
    BY <2>4, SameEndsSelf, SameEndsFailed
  <2>6. Settled(q.k) /\ ~Has(q.k, {"finish"})
    BY <1>4, <1>6 DEF Settled, Has
  <2>7. q.inst.saga.on => SomeNodeFailed(q.inst) /\ Compensable # {}
    BY <2>2, <2>4, <2>5 DEF TruthfulOp, Truthful
  <2>8. q.op = "start" =>
           /\ ~SomeNodeFailed(q.inst)
           /\ \A n \in Nodes : Status(q.inst, n) = "Completed" => n \in Triggers \cup Capabilities
    <3>1. q.op = "start" => ~SomeNodeFailed(q.inst)
      BY <1>4, <2>2, <2>5 DEF TruthfulOp
    <3> QED BY <1>4, <2>2, <2>5, <3>1 DEF TruthfulOp, SameEnds
  <2>9. TruthfulOp(q, db, faults')
    BY <2>2, <2>3, <2>4, <2>6, <2>7, <2>8, RunningOp
  <2> QED BY <1>1, <2>9, OutcomeLocal
<1> QED BY <1>3, <1>5, <1>6
\* An operation that goes on with the same record.
LEMMA OutcomePop ==
  ASSUME IInv, CalmInv, OutcomeInv, NEW p \in Procs, NEW label, At(p, label), NEW q, Continue(p, q),
         q.op = proc[p].op, q.inst = proc[p].inst, q.k = Tail(proc[p].k),
         db' = db, faults' = faults \/ (\E kind : Fault(kind))
  PROVE  OutcomeInv'
<1> DEFINE r == proc[p]
<1>1. r.k \in Seq(Labels) /\ r.k # << >> /\ TruthfulOp(r, db, faults)
  BY Facts, AtLabel, OutcomeFacts
<1>2. faults > 0 => faults' > 0
  BY FaultGrows
<1>3. q.inst.version # db.version => faults' > 0
  BY <1>1, <1>2 DEF TruthfulOp
<1>4. is_terminal(db) =>
        /\ OnlyEnds(Tail(r.k)) /\ q.inst.version = db.version /\ is_terminal(r.inst)
        /\ NoCancelledSaga => SameOutcome(q.inst, db)
  BY OutcomeFacts
<1>5. q.k # << >> => TruthfulOp(q, db, faults')
  BY <1>1, <1>2, <1>3, <1>4, OutcomeOn
<1> QED BY <1>5, OutcomeLocal

LEMMA OutcomeSleep == ASSUME IInv, CalmInv, OutcomeInv, NEW p \in Procs, Sleep(p) PROVE OutcomeInv'
<1>1. At(p, "sleep") /\ Continue(p, Pop(proc[p])) /\ db' = db /\ faults' = faults
  BY DEF Sleep
<1>2. /\ Pop(proc[p]).k = Tail(proc[p].k) /\ Pop(proc[p]).inst = proc[p].inst
      /\ Pop(proc[p]).op = proc[p].op
  BY <1>1, Facts, AtLabel DEF Operations, Pop
<1> QED BY <1>1, <1>2, OutcomePop

LEMMA OutcomeAck == ASSUME IInv, CalmInv, OutcomeInv, NEW p \in Procs, Ack(p) PROVE OutcomeInv'
<1>1. At(p, "ack") /\ Continue(p, Pop(proc[p])) /\ db' = db /\ (faults' = faults \/ \E kind : Fault(kind))
  BY DEF Ack
<1>2. /\ Pop(proc[p]).k = Tail(proc[p].k) /\ Pop(proc[p]).inst = proc[p].inst
      /\ Pop(proc[p]).op = proc[p].op
  BY <1>1, Facts, AtLabel DEF Operations, Pop
<1> QED BY <1>1, <1>2, OutcomePop

LEMMA OutcomeRefetchError ==
  ASSUME IInv, CalmInv, OutcomeInv, NEW p \in Procs, RefetchError(p) PROVE OutcomeInv'
<1>1. At(p, "refetch") /\ Continue(p, SaveFailed(Pop(proc[p]))) /\ db' = db /\ Fault("store")
  BY DEF RefetchError
<1> QED BY <1>1, RefetchEnds, OutcomeEnds

\* A merge: nodes are over in it when they are in the local copy.
LEMMA MergeEnds ==
  ASSUME NEW loc \in Instances, NEW fresh \in Instances, NEW f, f > 0, Truthful(loc, f),
         Truthful(fresh, f), Keeps(loc, fresh), NeedsMerge(loc, fresh),
         NEW new, new = Merge(loc, fresh), Keeps(new, loc), Keeps(new, fresh),
         \A n \in Nodes : Status(loc, n) \notin NodeTerminal => Status(new, n) \notin NodeTerminal
  PROVE  /\ Truthful(new, f) /\ SameEnds(new, loc)
         /\ loc.status = "Failed" => new.status = "Failed"
         /\ is_terminal(new) => is_terminal(loc) \/ is_terminal(fresh)
<1>1. new.status = MergeInstanceStatus(fresh.status, loc.status) /\ new.saga = fresh.saga
  BY DEF Merge, Instances
<1>2. loc.status \in InstanceStatus \ {"Pending"} /\ fresh.status \in InstanceStatus \ {"Pending"}
  BY InstanceFields DEF Truthful
<1>3. fresh.status \notin {"Completed", "Cancelled"}
  BY DEF Truthful, NeedsMerge, AllNodesTerminal
<1>4. SameEnds(new, loc)
  BY DEF SameEnds, Keeps, NodeTerminal
<1>5. /\ new.status \in {"Running", "Completed", "Failed", "Cancelled"}
      /\ new.status \in {"Completed", "Cancelled"} => loc.status = new.status
      /\ new.status \in InstanceTerminal => loc.status \in InstanceTerminal \/ fresh.status \in InstanceTerminal
      /\ loc.status = "Failed" => new.status = "Failed"
  BY <1>1, <1>2, <1>3 DEF MergeInstanceStatus, InstanceStatus, InstanceTerminal
<1>6. AllNodesTerminal(loc) => AllNodesTerminal(new)
  BY DEF AllNodesTerminal, Keeps
<1>7. SomeNodeFailed(new) <=> SomeNodeFailed(loc)
  BY <1>4, SameEndsFailed
<1>8. SomeNodeFailed(fresh) => SomeNodeFailed(new)
  BY DEF SomeNodeFailed, Keeps, NodeTerminal
<1>9. Truthful(new, f)
  BY <1>1, <1>5, <1>6, <1>7, <1>8 DEF Truthful
<1> QED BY <1>4, <1>5, <1>9 DEF is_terminal

LEMMA OutcomeRefetch == ASSUME IInv, CalmInv, OutcomeInv, NEW p \in Procs, Refetch(p) PROVE OutcomeInv'
<1> DEFINE r == proc[p]
           merged == [Pop(r) EXCEPT !.inst = Merge(@, db), !.try = @ + 1]
           asIs == [Pop(Pop(r)) EXCEPT !.try = 0]
<1>1. /\ At(p, "refetch") /\ db' = db /\ faults' = faults
      /\ Continue(p, IF NeedsMerge(r.inst, db) THEN merged ELSE asIs)
  BY DEF Refetch
<1>2. /\ r.k \in Seq(Labels) /\ r.k # << >> /\ r.inst \in Instances /\ db \in Instances
      /\ r \in Operations /\ Tail(r.k) \in Seq(Labels) /\ Tail(r.k) # << >>
  <2>1. /\ r.k \in Seq(Labels) /\ r.k # << >> /\ r.inst \in Instances /\ db \in Instances
        /\ r \in Operations /\ Place(r.k, r.todo, r.msg) /\ Head(r.k) = "refetch"
    BY <1>1, Facts DEF At
  <2>2. 1 \in DOMAIN r.k /\ r.k[1] = "refetch" /\ DOMAIN r.k = 1..Len(r.k)
    BY <2>1, HeadTailProperties
  <2>3. 2 \in 1..Len(r.k)
    BY <2>1, <2>2 DEF Place
  <2> QED BY <2>1, <2>3, TailLeft, HeadTailProperties
<1>3. /\ TruthfulOp(r, db, faults) /\ Truthful(r.inst, faults) /\ Truthful(db, faults) /\ faults > 0
      /\ Settled(Tail(r.k)) /\ (is_terminal(r.inst) => OnlyEnds(Tail(r.k))) /\ ~is_terminal(db)
  BY <1>1, OutcomeFacts
<1>4. ~Dispatching(r.k) /\ \A labels : Has(Tail(r.k), labels) => Has(r.k, labels)
  BY <1>1, <1>2, CalmFacts, HasTail
<1>5. CASE NeedsMerge(r.inst, db)
  <2> DEFINE new == Merge(r.inst, db)
  <2>1. merged.k = Tail(r.k) /\ merged.inst = new /\ merged.op = r.op
    BY <1>2 DEF Operations, Pop
  <2> HIDE DEF merged
  <2>2. /\ Sound(r.inst, produced) /\ Sound(db, produced) /\ Ahead(r.inst, db)
        /\ \A n \in Nodes : ~IsReset(r.inst, db, n)
    BY <1>1, CalmFacts DEF CalmInv
  <2>3. /\ Ahead(new, db) /\ Keeps(new, r.inst)
        /\ \A n \in Nodes : Status(r.inst, n) \notin NodeTerminal => Status(new, n) \notin NodeTerminal
    BY <1>2, <2>2, MergeSound
  <2>4. Keeps(new, db) /\ Keeps(r.inst, db)
    BY <2>2, <2>3, AheadKeeps
  <2>5. /\ Truthful(new, faults) /\ SameEnds(new, r.inst)
        /\ r.inst.status = "Failed" => new.status = "Failed"
        /\ is_terminal(new) => is_terminal(r.inst) \/ is_terminal(db)
    BY <1>2, <1>3, <1>5, <2>3, <2>4, MergeEnds
  <2> HIDE DEF new
  <2>6. r.op = "start" =>
          /\ SomeNodeFailed(new) => new.status = "Failed"
          /\ \A n \in Nodes : Status(new, n) = "Completed" => n \in Triggers \cup Capabilities
    <3>1. SomeNodeFailed(new) <=> SomeNodeFailed(r.inst)
      BY <2>5, SameEndsFailed
    <3> QED BY <1>3, <2>5, <3>1 DEF TruthfulOp, SameEnds
  <2>7. is_terminal(new) => OnlyEnds(Tail(Tail(r.k)))
    BY <1>2, <1>3, <2>5, OnlyEndsTail
  <2>8. (Has(Tail(r.k), {"finish"}) => r.op \in {"start", "result"}) /\ ~Dispatching(Tail(r.k))
    BY <1>3, <1>4 DEF TruthfulOp, Dispatching
  <2>9. TruthfulOp(merged, db, faults)
    BY <1>3, <2>1, <2>5, <2>6, <2>7, <2>8 DEF TruthfulOp
  <2> QED BY <1>1, <1>5, <2>9, OutcomeLocal
<1>6. CASE ~NeedsMerge(r.inst, db)
  <2>1. asIs.k = Tail(Tail(r.k)) /\ asIs.inst = r.inst /\ asIs.op = r.op
    BY <1>2 DEF Operations, Pop
  <2> DEFINE s == Pop(r)
  <2>2. s.k = Tail(r.k) /\ s.inst = r.inst /\ s.op = r.op
    BY <1>2 DEF Operations, Pop
  <2> HIDE DEF asIs, s
  <2>3. TruthfulOp(s, db, faults)
    BY <1>2, <1>3, <2>2, OutcomeOn
  <2>4. asIs.k # << >> => TruthfulOp(asIs, db, faults)
    BY <1>2, <1>3, <2>1, <2>2, <2>3, OutcomeOn
  <2> QED BY <1>1, <1>6, <2>4, OutcomeLocal
<1> QED BY <1>5, <1>6

LEMMA OutcomeGiveUp == ASSUME IInv, CalmInv, OutcomeInv, NEW p \in Procs, GiveUp(p) PROVE OutcomeInv'
<1> DEFINE failed == [db EXCEPT !.status = "Failed"]
<1>1. /\ At(p, "refetch") /\ Continue(p, SaveFailed(Pop(proc[p]))) /\ faults' = faults
      /\ db' \in {db, Bumped(failed)}
  BY DEF GiveUp
<1>2. SaveFailed(Pop(proc[p])).k = << >>
  BY <1>1, RefetchEnds
<1>3. Truthful(db, faults) /\ faults > 0 /\ \A o \in Procs \ {p} : ~Active(o)
  BY <1>1, OutcomeFacts, CalmFacts
<1>4. failed \in Instances /\ failed.nodes = db.nodes /\ failed.status = "Failed" /\ failed.saga = db.saga
  BY Facts DEF Instances, InstanceStatus
<1> HIDE DEF failed
<1>5. /\ Bumped(failed).nodes = db.nodes /\ Bumped(failed).status = "Failed"
      /\ Bumped(failed).saga = db.saga
  BY <1>4, BumpedFields
<1>6. Truthful(db', faults)
  <2>1. CASE db' = Bumped(failed)
    <3>1. SomeNodeFailed(db) => SomeNodeFailed(db')
      BY <1>5, <2>1 DEF SomeNodeFailed, Status
    <3> QED BY <1>3, <1>5, <2>1, <3>1 DEF Truthful
  <2> QED BY <1>1, <1>3, <2>1
<1>7. proc \in [Procs -> Operations]
  BY DEF IInv, TypeOK
<1> QED BY <1>1, <1>2, <1>3, <1>6, <1>7, OutcomeStep

\* The end of a compensation is the end of an instance that failed.
LEMMA OutcomeCompensate ==
  ASSUME IInv, CalmInv, OutcomeInv, NEW p \in Procs, Compensate(p) PROVE OutcomeInv'
<1> DEFINE r == proc[p]
           over == r.inst.saga.on /\ PendingCompensations(r.inst) = {}
           ended == [Pop(r) EXCEPT !.inst = EndCompensation(@)]
           new == EndCompensation(r.inst)
<1>1. /\ At(p, "comp") /\ Continue(p, IF over THEN ended ELSE Pop(r)) /\ db' = db
      /\ faults' = faults \/ (\E kind : Fault(kind))
  BY DEF Compensate
<1>2. /\ r \in Operations /\ r.k \in Seq(Labels) /\ r.k # << >> /\ Tail(r.k) \in Seq(Labels)
      /\ r.inst \in Instances
  BY <1>1, Facts, AtLabel
<1>3. Pop(r).k = Tail(r.k) /\ Pop(r).inst = r.inst /\ Pop(r).op = r.op
  BY <1>2 DEF Operations, Pop
<1>4. CASE ~over
  BY <1>1, <1>3, <1>4, OutcomePop
<1>5. CASE over
  <2>1. ended.k = Tail(r.k) /\ ended.inst = new /\ ended.op = r.op
    BY <1>2 DEF Operations, Pop
  <2>2. /\ new.nodes = r.inst.nodes /\ new.version = r.inst.version
        /\ new.status = "Failed" /\ ~new.saga.on
    BY <1>2 DEF EndCompensation, Instances, Sagas
  <2> HIDE DEF ended, new
  <2>3. /\ TruthfulOp(r, db, faults) /\ Truthful(r.inst, faults) /\ SomeNodeFailed(r.inst)
        /\ Compensable # {} /\ OnlyEnds(Tail(r.k)) /\ faults \in Nat
        /\ is_terminal(db) => r.inst.version = db.version /\ is_terminal(r.inst)
        /\ is_terminal(db) /\ NoCancelledSaga => SameOutcome(r.inst, db)
    <3>1. /\ TruthfulOp(r, db, faults) /\ Truthful(r.inst, faults) /\ OnlyEnds(Tail(r.k)) /\ faults \in Nat
          /\ is_terminal(db) => r.inst.version = db.version /\ is_terminal(r.inst)
          /\ is_terminal(db) /\ NoCancelledSaga => SameOutcome(r.inst, db)
      BY <1>1, OutcomeFacts
    <3> QED BY <1>5, <3>1 DEF Truthful
  <2>4. faults > 0 => faults' > 0
    BY <1>1, FaultGrows
  <2>5. SomeNodeFailed(new) /\ SameEnds(new, r.inst) /\ \A n : Status(new, n) = Status(r.inst, n)
    BY <2>2, <2>3, SameEndsSelf DEF SomeNodeFailed, Status
  <2>6. Truthful(new, faults')
    BY <2>2, <2>5 DEF Truthful
  <2>7. is_terminal(db) /\ NoCancelledSaga => SameOutcome(new, db)
    <3>1. is_terminal(r.inst) /\ NoCancelledSaga => r.inst.status = "Failed"
      BY <2>3 DEF is_terminal, InstanceTerminal, Truthful, NoCancelledSaga
    <3> QED BY <2>2, <2>3, <2>5, <3>1 DEF SameOutcome
  <2>8. /\ Settled(ended.k) /\ ~Dispatching(ended.k) /\ ~Has(ended.k, {"finish"})
        /\ ~Has(ended.k, {"dispatchError", "refetch"})
    BY <2>1, <2>3, OnlyEndsSilent
  <2>9. ended.k # << >> => OnlyEnds(Tail(ended.k))
    BY <1>2, <2>1, <2>3, OnlyEndsTail
  <2>10. \A n \in Nodes : ended.op = "start" /\ Status(new, n) = "Completed" => n \in Triggers \cup Capabilities
    BY <2>1, <2>3, <2>5 DEF TruthfulOp
  <2>11. (new.version # db.version => faults' > 0) /\ is_terminal(new)
    BY <2>2, <2>3, <2>4 DEF TruthfulOp, is_terminal, InstanceTerminal
  <2>12. ended.k # << >> => TruthfulOp(ended, db, faults')
    BY <2>1, <2>2, <2>3, <2>6, <2>7, <2>8, <2>9, <2>10, <2>11 DEF TruthfulOp
  <2> QED BY <1>1, <1>5, <2>12, OutcomeLocal
<1> QED BY <1>4, <1>5

-----------------------------------------------------------------------------
(* Operations that begin keep the outcome. *)

EndStacks == {<<"ack">>, <<"save">>, <<"save", "ack">>, <<"comp", "save">>, <<"save", "comp", "ack">>}
GoStacks == {<<"save", "sleep">>, <<"dispatch", "ack">>, <<"dispatch", "save">>,
             <<"dispatch", "finish", "save", "ack">>, <<"save", "ready", "dispatch", "save">>}

LEMMA OutcomeStacks ==
  /\ \A k \in EndStacks : k \in Seq(Labels) /\ k # << >> /\ OnlyEnds(k)
  /\ \A k \in GoStacks : k # << >> /\ Settled(k) /\ ~Has(k, {"dispatchError", "refetch"})
  /\ \A k \in GoStacks : Has(k, {"finish"}) => k = <<"dispatch", "finish", "save", "ack">>
<1>1. \A a \in {"ack", "save", "comp"} : <<a>> \in Seq(Labels) /\ <<a>> # << >> /\ OnlyEnds(<<a>>)
  BY DEF Labels, OnlyEnds
<1>2. \A a, b \in {"ack", "save", "comp"} :
        <<a, b>> \in Seq(Labels) /\ <<a, b>> # << >> /\ OnlyEnds(<<a, b>>)
  BY DEF Labels, OnlyEnds
<1>3. /\ <<"save", "comp", "ack">> \in Seq(Labels) /\ <<"save", "comp", "ack">> # << >>
      /\ OnlyEnds(<<"save", "comp", "ack">>)
  BY DEF Labels, OnlyEnds
<1>4. \A k \in EndStacks : k \in Seq(Labels) /\ k # << >> /\ OnlyEnds(k)
  BY <1>1, <1>2, <1>3 DEF EndStacks
<1>5. \A a \in {"save", "dispatch"} : \A b \in {"sleep", "ack", "save"} :
        /\ <<a, b>> # << >> /\ Settled(<<a, b>>) /\ ~Has(<<a, b>>, {"dispatchError", "refetch"})
        /\ ~Has(<<a, b>>, {"finish"})
  BY DEF Settled, Has
<1>6. LET k == <<"dispatch", "finish", "save", "ack">>
      IN k # << >> /\ Settled(k) /\ ~Has(k, {"dispatchError", "refetch"})
  BY DEF Settled, Has
<1>7. LET k == <<"save", "ready", "dispatch", "save">>
      IN k # << >> /\ Settled(k) /\ ~Has(k, {"dispatchError", "refetch"}) /\ ~Has(k, {"finish"})
  BY DEF Settled, Has
<1> QED BY <1>4, <1>5, <1>6, <1>7 DEF GoStacks

\* An operation takes the mutex.
LEMMA OutcomeBegin ==
  ASSUME IInv, OutcomeInv, ~RacingStart, CanLock, NEW op, NEW inst, NEW todo, NEW k, NEW msg,
         Begin(op, inst, todo, k, msg), db' = db, faults' = faults \/ (\E kind : Fault(kind)),
         op # "start", Truthful(inst, faults'), inst.version = db.version, Settled(k),
         Has(k, {"finish"}) => op = "result", Dispatching(k) => inst.status = "Running",
         ~Has(k, {"dispatchError", "refetch"}), is_terminal(inst) => OnlyEnds(Tail(k)),
         is_terminal(db) => OnlyEnds(k) /\ is_terminal(inst),
         is_terminal(db) /\ NoCancelledSaga => SameOutcome(inst, db)
  PROVE  OutcomeInv'
<1> DEFINE q == [op |-> op, k |-> k, inst |-> inst, todo |-> todo,
                 att |-> 1, try |-> 0, msg |-> msg]
<1>1. q.k = k /\ q.inst = inst /\ q.op = op /\ Continue("locked", q)
  BY DEF Begin
<1> HIDE DEF q
<1>2. TruthfulOp(q, db', faults')
  BY <1>1 DEF TruthfulOp
<1>3. Truthful(db', faults')
  <2>1. Truthful(db, faults)
    BY DEF OutcomeInv
  <2> QED BY <2>1, FaultGrows, TruthfulGrows
<1>4. /\ proc \in [Procs -> Operations] /\ "locked" \in Procs
      /\ \A o \in Procs \ {"locked"} : ~Active(o)
  BY DEF IInv, TypeOK, Procs, CanLock, Idle, Active
<1> QED BY <1>1, <1>2, <1>3, <1>4, OutcomeStep

\* ... and has only to save.
LEMMA OutcomeBeginEnd ==
  ASSUME IInv, OutcomeInv, ~RacingStart, CanLock, NEW op, NEW inst, NEW todo, NEW k \in EndStacks,
         NEW msg, Begin(op, inst, todo, k, msg), db' = db, faults' = faults \/ (\E kind : Fault(kind)),
         op # "start", Truthful(inst, faults'), inst.version = db.version,
         is_terminal(db) => is_terminal(inst),
         is_terminal(db) /\ NoCancelledSaga => SameOutcome(inst, db)
  PROVE  OutcomeInv'
<1>1. k \in Seq(Labels) /\ k # << >> /\ OnlyEnds(k)
  BY OutcomeStacks
<1>2. /\ Settled(k) /\ ~Dispatching(k) /\ ~Has(k, {"finish"}) /\ ~Has(k, {"dispatchError", "refetch"})
      /\ OnlyEnds(Tail(k))
  BY <1>1, OnlyEndsSilent, OnlyEndsTail
<1> QED BY <1>1, <1>2, OutcomeBegin

\* ... or goes on with a running instance.
LEMMA OutcomeBeginGo ==
  ASSUME IInv, OutcomeInv, ~RacingStart, CanLock, NEW op, NEW inst, NEW todo, NEW k \in GoStacks,
         NEW msg, Begin(op, inst, todo, k, msg), db' = db, faults' = faults,
         op # "start", k = <<"dispatch", "finish", "save", "ack">> => op = "result",
         inst.status = "Running", inst.saga.on => SomeNodeFailed(inst) /\ Compensable # {},
         inst.version = db.version, ~is_terminal(db)
  PROVE  OutcomeInv'
<1>1. /\ Settled(k) /\ ~Has(k, {"dispatchError", "refetch"})
      /\ Has(k, {"finish"}) => op = "result"
  BY OutcomeStacks
<1>2. Truthful(inst, faults') /\ ~is_terminal(inst)
  BY DEF Truthful, is_terminal, InstanceTerminal
<1> QED BY <1>1, <1>2, OutcomeBegin

\* The stored record when an operation begins.
LEMMA StoredFacts ==
  ASSUME IInv, OutcomeInv
  PROVE  /\ db \in Instances /\ Truthful(db, faults) /\ faults \in Nat
         /\ ~is_terminal(db) => db.status = "Running"
         /\ db.saga.on => SomeNodeFailed(db) /\ Compensable # {}
<1>1. db \in Instances /\ Truthful(db, faults) /\ faults \in Nat
  BY EngineAssumption DEF IInv, TypeOK, OutcomeInv
<1>2. db.status \in InstanceStatus
  BY <1>1, InstanceFields
<1> QED BY <1>1, <1>2 DEF Truthful, is_terminal, InstanceTerminal, InstanceStatus

\* One node that had not failed moves: those that failed stay.
LEMMA FailedStays ==
  ASSUME NEW old, NEW new, NEW n, Status(old, n) # "Failed", SomeNodeFailed(old),
         \A m \in Nodes : m # n => new.nodes[m] = old.nodes[m]
  PROVE  SomeNodeFailed(new)
  BY DEF SomeNodeFailed, Status

LEMMA OutcomeCancel ==
  ASSUME IInv, OutcomeInv, ~RacingStart, CancelInstance PROVE OutcomeInv'
<1> DEFINE inst == [db EXCEPT !.status = "Cancelled", !.nodes = CancelledNodes(db)]
<1>1. /\ CanLock /\ Begin("cancel", inst, {}, <<"save">>, NoMsg) /\ db' = db /\ faults' = faults
      /\ ~is_terminal(db) /\ "cancel" \in UserOps
  BY DEF CancelInstance
<1>2. db \in Instances /\ (db.saga.on => SomeNodeFailed(db) /\ Compensable # {})
  BY StoredFacts
<1>3. /\ inst.nodes = CancelledNodes(db) /\ inst.status = "Cancelled" /\ inst.saga = db.saga
      /\ inst.version = db.version
  BY <1>2 DEF Instances
<1> HIDE DEF inst
<1>4. \A m \in Nodes : db.nodes[m] \in NodeStates /\ [db.nodes[m] EXCEPT !.st = "Cancelled"].st = "Cancelled"
  BY <1>2, InstanceFields DEF NodeStates
<1>5. \A m \in Nodes : /\ Status(inst, m) \in NodeTerminal
                       /\ Status(db, m) = "Failed" => Status(inst, m) = "Failed"
  BY <1>3, <1>4 DEF CancelledNodes, Status, NodeTerminal
<1>6. Truthful(inst, faults)
  BY <1>1, <1>2, <1>3, <1>5 DEF Truthful, AllNodesTerminal, SomeNodeFailed
<1>7. <<"save">> \in EndStacks
  BY DEF EndStacks
<1> QED BY <1>1, <1>3, <1>6, <1>7, OutcomeBeginEnd

LEMMA OutcomeApprove ==
  ASSUME IInv, OutcomeInv, ~RacingStart, ApproveNode PROVE OutcomeInv'
<1>1. PICK n \in Nodes :
        /\ Status(db, n) = "WaitingApproval"
        /\ Begin("approve", SetStatus(db, n, "Queued"), {n}, <<"dispatch", "save">>, NoMsg)
  BY DEF ApproveNode
<1>2. CanLock /\ db' = db /\ faults' = faults /\ ~is_terminal(db)
  BY DEF ApproveNode
<1> DEFINE inst == SetStatus(db, n, "Queued")
           ns == [db.nodes[n] EXCEPT !.st = "Queued"]
<1>3. db \in Instances /\ db.status = "Running" /\ (db.saga.on => SomeNodeFailed(db) /\ Compensable # {})
  BY <1>2, StoredFacts
<1>4. "Queued" \in NodeStatus
  BY DEF NodeStatus
<1>5. /\ inst.status = db.status /\ inst.saga = db.saga /\ inst.version = db.version
      /\ \A m \in Nodes : inst.nodes[m] = IF m = n THEN ns ELSE db.nodes[m]
  BY <1>3, <1>4, SetStatusFields
<1> HIDE DEF inst, ns
<1>6. inst.saga.on => SomeNodeFailed(inst) /\ Compensable # {}
  BY <1>1, <1>3, <1>5, FailedStays
<1>7. <<"dispatch", "save">> \in GoStacks /\ <<"dispatch", "save">> # <<"dispatch", "finish", "save", "ack">>
  BY DEF GoStacks
<1>8. Begin("approve", inst, {n}, <<"dispatch", "save">>, NoMsg)
  BY <1>1 DEF inst
<1> QED BY <1>2, <1>3, <1>5, <1>6, <1>7, <1>8, OutcomeBeginGo

\* A node of the stored record fails, and the instance with it.
LEMMA StoredFails ==
  ASSUME IInv, OutcomeInv, NEW n \in Nodes, NEW failed, failed = SetStatus(db, n, "Failed")
  PROVE  /\ failed \in Instances /\ SomeNodeFailed(failed) /\ failed.version = db.version
         /\ failed.saga = db.saga
         /\ LET inst == [failed EXCEPT !.status = "Failed"]
            IN Truthful(inst, faults) /\ inst.version = db.version
<1> DEFINE ns == [db.nodes[n] EXCEPT !.st = "Failed"]
           inst == [failed EXCEPT !.status = "Failed"]
<1>1. db \in Instances /\ "Failed" \in NodeStatus /\ (db.saga.on => Compensable # {})
  BY StoredFacts DEF NodeStatus
<1>2. /\ failed \in Instances /\ failed.version = db.version /\ failed.saga = db.saga /\ ns.st = "Failed"
      /\ \A m \in Nodes : failed.nodes[m] = IF m = n THEN ns ELSE db.nodes[m]
  BY <1>1, SetStatusFields
<1> HIDE DEF ns
<1>3. SomeNodeFailed(failed)
  BY <1>2 DEF SomeNodeFailed, Status
<1>4. /\ inst.status = "Failed" /\ inst.version = failed.version /\ inst.saga = failed.saga
      /\ inst.nodes = failed.nodes
  BY <1>2 DEF Instances
<1> HIDE DEF inst
<1>5. Truthful(inst, faults)
  BY <1>1, <1>2, <1>3, <1>4 DEF Truthful, SomeNodeFailed, Status
<1> QED BY <1>2, <1>3, <1>4, <1>5 DEF inst

LEMMA OutcomeReject ==
  ASSUME IInv, OutcomeInv, ~RacingStart, RejectNode PROVE OutcomeInv'
<1>1. PICK n \in Nodes :
        Begin("reject", [SetStatus(db, n, "Failed") EXCEPT !.status = "Failed"], {}, <<"save">>, NoMsg)
  BY DEF RejectNode
<1>2. CanLock /\ db' = db /\ faults' = faults /\ ~is_terminal(db)
  BY DEF RejectNode
<1> DEFINE failed == SetStatus(db, n, "Failed")
           inst == [failed EXCEPT !.status = "Failed"]
<1>3. Truthful(inst, faults) /\ inst.version = db.version
  BY StoredFails
<1>4. <<"save">> \in EndStacks
  BY DEF EndStacks
<1>5. Begin("reject", inst, {}, <<"save">>, NoMsg)
  BY <1>1
<1> HIDE DEF inst
<1> QED BY <1>2, <1>3, <1>4, <1>5, OutcomeBeginEnd

\* A compensation is confirmed or fails, or an answer comes too late.  Only an instance
\* that was cancelled while it compensated changes its status here after its end.
LEMMA OutcomeCompensationResult ==
  ASSUME IInv, OutcomeInv, ~RacingStart, CanLock, NEW m \in results, db' = db,
         CompensationResult(m) \/ LateResult(m)
  PROVE  OutcomeInv'
<1> DEFINE counted == [db EXCEPT !.saga.done = @ \cup {m.node}]
<1>1. /\ db \in Instances /\ Truthful(db, faults) /\ (db.saga.on => SomeNodeFailed(db) /\ Compensable # {})
  BY StoredFacts
<1>2. /\ counted.nodes = db.nodes /\ counted.version = db.version /\ counted.status = db.status
      /\ counted.saga.on = db.saga.on
  BY <1>1 DEF Instances, Sagas
<1>3. \A inst \in {db, counted} :
        /\ EndCompensation(inst).nodes = db.nodes /\ EndCompensation(inst).version = db.version
        /\ EndCompensation(inst).status = "Failed" /\ ~EndCompensation(inst).saga.on
  BY <1>1 DEF EndCompensation, Instances, Sagas
<1>4. /\ \/ Begin("result", db, {}, <<"ack">>, m)
         \/ db.saga.on /\ Begin("result", EndCompensation(db), {}, <<"save", "ack">>, m)
         \/ db.saga.on /\ Begin("result", EndCompensation(counted), {}, <<"save", "ack">>, m)
         \/ Begin("result", counted, {}, <<"save", "comp", "ack">>, m)
      /\ faults' = faults
  BY DEF CompensationResult, LateResult, IsCompensationResult
<1> HIDE DEF counted
<1>5. ASSUME NEW inst, NEW k \in EndStacks, Begin("result", inst, {}, k, m),
             inst.nodes = db.nodes, inst.version = db.version, inst.status = db.status,
             inst.saga.on = db.saga.on
      PROVE  OutcomeInv'
  <2>1. /\ AllNodesTerminal(inst) <=> AllNodesTerminal(db)
        /\ SomeNodeFailed(inst) <=> SomeNodeFailed(db)
        /\ SameOutcome(inst, db)
    BY <1>5 DEF AllNodesTerminal, SomeNodeFailed, SameOutcome, Status
  <2>2. Truthful(inst, faults) /\ (is_terminal(db) => is_terminal(inst))
    BY <1>1, <1>5, <2>1 DEF Truthful, is_terminal
  <2> QED BY <1>4, <1>5, <2>1, <2>2, OutcomeBeginEnd
<1>6. ASSUME db.saga.on, NEW inst, NEW k \in EndStacks, Begin("result", inst, {}, k, m),
             inst.nodes = db.nodes, inst.version = db.version, inst.status = "Failed", ~inst.saga.on
      PROVE  OutcomeInv'
  <2>1. Truthful(inst, faults) /\ is_terminal(inst)
    BY <1>1, <1>6 DEF Truthful, is_terminal, InstanceTerminal, SomeNodeFailed, Status
  <2>2. is_terminal(db) /\ NoCancelledSaga => db.status = "Failed"
    BY <1>1, <1>6 DEF Truthful, is_terminal, InstanceTerminal, NoCancelledSaga
  <2>3. is_terminal(db) /\ NoCancelledSaga => SameOutcome(inst, db)
    BY <1>6, <2>2 DEF SameOutcome, Status
  <2> QED BY <1>4, <1>6, <2>1, <2>3, OutcomeBeginEnd
<1>7. {<<"ack">>, <<"save", "ack">>, <<"save", "comp", "ack">>} \subseteq EndStacks
  BY DEF EndStacks
<1>8. CASE Begin("result", db, {}, <<"ack">>, m)
  BY <1>5, <1>7, <1>8
<1>9. CASE db.saga.on /\ Begin("result", EndCompensation(db), {}, <<"save", "ack">>, m)
  BY <1>3, <1>6, <1>7, <1>9
<1>10. CASE db.saga.on /\ Begin("result", EndCompensation(counted), {}, <<"save", "ack">>, m)
  BY <1>3, <1>6, <1>7, <1>10
<1>11. CASE Begin("result", counted, {}, <<"save", "comp", "ack">>, m)
  BY <1>2, <1>5, <1>7, <1>11
<1> QED BY <1>4, <1>8, <1>9, <1>10, <1>11

LEMMA OutcomeErrorResult ==
  ASSUME IInv, OutcomeInv, ~RacingStart, CanLock, NEW m \in results, db' = db, ErrorResult(m)
  PROVE  OutcomeInv'
<1> DEFINE ns == [st |-> "Queued", att |-> m.att + 1, started |-> FALSE]
           retried == SetNode(db, m.node, ns)
           failed == SetStatus(db, m.node, "Failed")
           ended == [failed EXCEPT !.status = "Failed"]
           begun == BeginCompensation(failed)
<1>1. /\ m.node \in Nodes /\ m.att \in Nat /\ Status(db, m.node) = "Queued" /\ ~is_terminal(db)
  BY DEF IInv, TypeOK, Results, ErrorResult, ResultExpected
<1>2. /\ \/ Begin("result", retried, {}, <<"save", "sleep">>, m)
         \/ HasCompensation(failed) /\ Begin("result", begun, {}, <<"save", "comp", "ack">>, m)
         \/ Begin("result", ended, {}, <<"save", "ack">>, m)
      /\ faults' = faults
  BY DEF ErrorResult
<1>3. db \in Instances /\ db.status = "Running" /\ (db.saga.on => SomeNodeFailed(db) /\ Compensable # {})
  BY <1>1, StoredFacts
<1>4. ns \in NodeStates
  BY <1>1 DEF NodeStates, NodeStatus
<1>5. /\ failed \in Instances /\ SomeNodeFailed(failed) /\ failed.version = db.version
      /\ Truthful(ended, faults) /\ ended.version = db.version
  BY <1>1, StoredFails
<1> HIDE DEF failed, ns
<1>6. /\ begun.nodes = failed.nodes /\ begun.version = failed.version /\ begun.status = "Running"
  BY <1>5 DEF BeginCompensation, Instances
<1>7. /\ retried.version = db.version /\ retried.status = db.status /\ retried.saga = db.saga
      /\ \A n \in Nodes : retried.nodes[n] = IF n = m.node THEN ns ELSE db.nodes[n]
  BY <1>1, <1>3, <1>4, SetNodeFields
<1> HIDE DEF retried, ended, begun
<1>8. /\ <<"save", "sleep">> \in GoStacks /\ <<"save", "sleep">> # <<"dispatch", "finish", "save", "ack">>
      /\ {<<"save", "ack">>, <<"save", "comp", "ack">>} \subseteq EndStacks
  BY DEF EndStacks, GoStacks
<1>9. CASE Begin("result", retried, {}, <<"save", "sleep">>, m)
  <2>1. retried.saga.on => SomeNodeFailed(retried) /\ Compensable # {}
    BY <1>1, <1>3, <1>7, FailedStays
  <2> QED BY <1>1, <1>2, <1>3, <1>7, <1>8, <1>9, <2>1, OutcomeBeginGo
<1>10. CASE HasCompensation(failed) /\ Begin("result", begun, {}, <<"save", "comp", "ack">>, m)
  <2>1. Truthful(begun, faults)
    BY <1>5, <1>6, <1>10 DEF Truthful, SomeNodeFailed, Status, HasCompensation
  <2> QED BY <1>1, <1>2, <1>5, <1>6, <1>8, <1>10, <2>1, OutcomeBeginEnd
<1>11. CASE Begin("result", ended, {}, <<"save", "ack">>, m)
  BY <1>1, <1>2, <1>5, <1>8, <1>11, OutcomeBeginEnd
<1> QED BY <1>2, <1>9, <1>10, <1>11

LEMMA OutcomeSuccessResult ==
  ASSUME IInv, OutcomeInv, ~RacingStart, CanLock, NEW m \in results, db' = db, SuccessResult(m)
  PROVE  OutcomeInv'
<1> DEFINE completed == SetStatus(db, m.node, "Completed")
           answered == [completed EXCEPT !.outs[m.node] = m.out]
           inst == CascadeSkips(answered)
           over == [completed EXCEPT !.status = "Failed"]
           ns == [db.nodes[m.node] EXCEPT !.st = "Completed"]
           k == <<"dispatch", "finish", "save", "ack">>
<1>1. /\ m.node \in Nodes /\ m.out \in Outputs \cup {"none"} /\ Status(db, m.node) = "Queued"
      /\ ~is_terminal(db) /\ "Completed" \in NodeStatus
  BY DEF IInv, TypeOK, Results, SuccessResult, ResultExpected, NodeStatus
<1>2. \/ Begin("result", inst, ReadyNodes(inst), k, m) /\ faults' = faults
      \/ Begin("result", over, {}, <<"save", "ack">>, m) /\ Fault("budget")
  BY DEF SuccessResult
<1>3. db \in Instances /\ db.status = "Running" /\ (db.saga.on => SomeNodeFailed(db) /\ Compensable # {})
  BY <1>1, StoredFacts
<1>4. /\ completed \in Instances /\ completed.version = db.version /\ completed.status = db.status
      /\ completed.saga = db.saga
      /\ \A n \in Nodes : completed.nodes[n] = IF n = m.node THEN ns ELSE db.nodes[n]
  BY <1>1, <1>3, SetStatusFields
<1> HIDE DEF completed, ns
<1>5. db.saga.on => SomeNodeFailed(completed)
  BY <1>1, <1>3, <1>4, FailedStays
<1>6. /\ answered \in Instances /\ answered.nodes = completed.nodes /\ answered.saga = completed.saga
      /\ answered.version = db.version /\ answered.status = db.status
  BY <1>1, <1>4 DEF Instances
<1>7. over.nodes = completed.nodes /\ over.saga = completed.saga /\ over.version = db.version
      /\ over.status = "Failed"
  BY <1>4 DEF Instances
<1> HIDE DEF answered, over
<1>8. SomeNodeFailed(completed) => SomeNodeFailed(answered) /\ SomeNodeFailed(over)
  BY <1>6, <1>7 DEF SomeNodeFailed, Status
<1>9. /\ inst.version = answered.version /\ inst.status = answered.status /\ inst.saga = answered.saga
      /\ SameEnds(inst, answered)
  BY <1>6, CascadeEnds
<1> HIDE DEF inst
<1>10. inst.saga.on => SomeNodeFailed(inst) /\ Compensable # {}
  BY <1>3, <1>4, <1>5, <1>6, <1>8, <1>9, SameEndsFailed
<1>11. k \in GoStacks /\ <<"save", "ack">> \in EndStacks
  BY DEF EndStacks, GoStacks
<1> HIDE DEF k
<1>12. CASE Begin("result", inst, ReadyNodes(inst), k, m) /\ faults' = faults
  BY <1>1, <1>3, <1>6, <1>9, <1>10, <1>11, <1>12, OutcomeBeginGo
<1>13. CASE Begin("result", over, {}, <<"save", "ack">>, m) /\ Fault("budget")
  <2>1. faults' > 0
    BY <1>13, FaultGrows
  <2>2. Truthful(over, faults')
    BY <1>3, <1>4, <1>5, <1>7, <1>8, <2>1 DEF Truthful
  <2> QED BY <1>1, <1>7, <1>11, <1>13, <2>2, OutcomeBeginEnd
<1> QED BY <1>2, <1>12, <1>13

LEMMA OutcomeHandleResult == ASSUME IInv, OutcomeInv, ~RacingStart, HandleResult PROVE OutcomeInv'
<1>1. PICK m \in results : \/ CompensationResult(m) \/ LateResult(m)
                           \/ ErrorResult(m) \/ SuccessResult(m)
  BY DEF HandleResult
<1>2. CanLock /\ db' = db
  BY DEF HandleResult
<1> QED BY <1>1, <1>2, OutcomeCompensationResult, OutcomeErrorResult, OutcomeSuccessResult

LEMMA OutcomeRetryDispatch == ASSUME IInv, OutcomeInv, ~RacingStart, RetryDispatch PROVE OutcomeInv'
<1>1. PICK m \in sleeping :
        \/ ~is_terminal(db) /\ Begin("retry", db, {m.node}, <<"dispatch", "ack">>, m)
        \/ Begin("retry", db, {}, <<"ack">>, m)
  BY DEF RetryDispatch
<1>2. CanLock /\ db' = db /\ faults' = faults
  BY DEF RetryDispatch
<1>3. /\ Truthful(db, faults) /\ (~is_terminal(db) => db.status = "Running")
      /\ db.saga.on => SomeNodeFailed(db) /\ Compensable # {}
  BY StoredFacts
<1>4. /\ <<"dispatch", "ack">> \in GoStacks /\ <<"dispatch", "ack">> # <<"dispatch", "finish", "save", "ack">>
      /\ <<"ack">> \in EndStacks
  BY DEF EndStacks, GoStacks
<1>5. SameOutcome(db, db)
  BY DEF SameOutcome
<1>6. CASE ~is_terminal(db) /\ Begin("retry", db, {m.node}, <<"dispatch", "ack">>, m)
  BY <1>2, <1>3, <1>4, <1>6, OutcomeBeginGo
<1>7. CASE Begin("retry", db, {}, <<"ack">>, m)
  BY <1>2, <1>3, <1>4, <1>5, <1>7, OutcomeBeginEnd
<1> QED BY <1>1, <1>6, <1>7

-----------------------------------------------------------------------------
(* Start, crash, recovery and the workers keep the outcome. *)

LEMMA OutcomeUnchanged ==
  ASSUME IInv, OutcomeInv, db' = db, proc' = proc, faults' = faults \/ (\E kind : Fault(kind))
  PROVE  OutcomeInv'
<1>1. faults \in Nat /\ faults' \in Nat /\ faults' >= faults
  BY StoredFacts, FaultGrows
<1>2. /\ \A inst : Truthful(inst, faults) => Truthful(inst, faults')
      /\ \A r, stored : TruthfulOp(r, stored, faults) => TruthfulOp(r, stored, faults')
  BY <1>1, TruthfulGrows
<1> QED BY <1>2 DEF OutcomeInv, Active

LEMMA NewTruthful ==
  ASSUME NEW f, NEW inst, inst.status = "Running", inst.saga = NoSaga
  PROVE  Truthful(inst, f) /\ ~is_terminal(inst)
  BY DEF Truthful, NoSaga, is_terminal, InstanceTerminal

LEMMA OutcomeStartWorkflow == ASSUME IInv, CalmInv, OutcomeInv, StartWorkflow PROVE OutcomeInv'
<1> DEFINE inst(fired) == CompleteAtStart(NewInstance, fired)
           k(fired) == IF fired = {} THEN <<"dispatch", "finish", "save">>
                       ELSE <<"dispatch", "ready", "dispatch", "finish", "save">>
           r(fired) == [Idle EXCEPT !.op = "start", !.inst = inst(fired),
                                    !.todo = EntryActions, !.k = k(fired)]
<1>1. PICK fired \in SUBSET Triggers : Continue("start", r(fired))
  BY DEF StartWorkflow
<1>2. Settled(k(fired)) /\ ~Has(k(fired), {"dispatchError", "refetch"})
  <2>1. LET s == <<"dispatch", "finish", "save">>
        IN Settled(s) /\ ~Has(s, {"dispatchError", "refetch"})
    BY DEF Settled, Has
  <2>2. LET s == <<"dispatch", "ready", "dispatch", "finish", "save">>
        IN Settled(s) /\ ~Has(s, {"dispatchError", "refetch"})
    BY DEF Settled, Has
  <2> QED BY <2>1, <2>2
<1>3. /\ NewInstance \in Instances /\ NewInstance.status = "Running" /\ NewInstance.saga = NoSaga
      /\ NewInstance.version = 1 /\ \A n \in Nodes : Status(NewInstance, n) = "Pending"
  BY NewInstanceOK DEF NewInstance, Status
<1>4. /\ inst(fired).status = "Running" /\ inst(fired).saga = NoSaga /\ inst(fired).version = 1
      /\ \A n \in Nodes : n \notin Capabilities \cup fired => inst(fired).nodes[n] = NewInstance.nodes[n]
      /\ \A n \in Capabilities \cup fired : n \in Nodes => Status(inst(fired), n) = "Completed"
  <2>1. \A n \in Nodes : NewInstance.nodes[n] \in NodeStates
    BY <1>3, InstanceFields
  <2>2. \A n \in Nodes : [NewInstance.nodes[n] EXCEPT !.st = "Completed", !.started = TRUE].st = "Completed"
    BY <2>1 DEF NodeStates
  <2> QED BY <1>3, <2>2 DEF CompleteAtStart, Instances, Status
<1>5. Idle \in Operations
  BY IdleOK DEF GoodOp
<1> HIDE DEF inst, k
<1>6. r(fired).k = k(fired) /\ r(fired).inst = inst(fired) /\ r(fired).op = "start"
  BY <1>5 DEF Operations
<1> HIDE DEF r
<1>7. db' = NewInstance /\ faults' = faults /\ ~Exists
  BY DEF StartWorkflow
<1>8. /\ ~SomeNodeFailed(inst(fired))
      /\ \A n \in Nodes : Status(inst(fired), n) = "Completed" => n \in Triggers \cup Capabilities
  <2>1. \A n \in Nodes : \/ n \in Capabilities \cup fired /\ Status(inst(fired), n) = "Completed"
                         \/ Status(inst(fired), n) = "Pending"
    BY <1>3, <1>4 DEF Status
  <2> QED BY <2>1 DEF SomeNodeFailed
<1>9. Truthful(db', faults') /\ ~is_terminal(db')
  BY <1>3, <1>7, NewTruthful
<1>10. TruthfulOp(r(fired), db', faults')
  BY <1>2, <1>3, <1>4, <1>6, <1>7, <1>8, <1>9, RunningOp DEF NoSaga
<1>11. /\ \A o \in Procs : ~Active(o)
       /\ proc \in [Procs -> Operations] /\ "start" \in Procs
  BY <1>7 DEF CalmInv, Procs, IInv, TypeOK
<1> QED BY <1>1, <1>9, <1>10, <1>11, OutcomeStep

LEMMA OutcomeStartAborts == ASSUME CalmInv, StartAborts PROVE OutcomeInv'
<1>1. db' = NewInstance /\ ~Exists /\ proc' = proc
  BY DEF StartAborts
<1>2. \A o \in Procs : ~Active(o)'
  BY <1>1 DEF CalmInv, Procs, Active
<1>3. Truthful(db', faults')
  BY <1>1, NewTruthful DEF NewInstance
<1> QED BY <1>2, <1>3 DEF OutcomeInv

LEMMA OutcomeCrash == ASSUME IInv, OutcomeInv, Crash PROVE OutcomeInv'
<1>1. proc' = [p \in Procs |-> Idle] /\ db' = db /\ \E kind : Fault(kind)
  BY DEF Crash
<1>2. \A o \in Procs : ~Active(o)'
  BY <1>1 DEF Active, Idle
<1>3. Truthful(db', faults')
  <2>1. Truthful(db, faults)
    BY DEF OutcomeInv
  <2> QED BY <1>1, <2>1, FaultGrows, TruthfulGrows
<1> QED BY <1>2, <1>3 DEF OutcomeInv

LEMMA OutcomeResume == ASSUME IInv, OutcomeInv, ~RacingStart, Resume PROVE OutcomeInv'
<1> DEFINE k == <<"save", "ready", "dispatch", "save">>
<1>1. /\ CanLock /\ db' = db /\ faults' = faults
      /\ \/ proc' = proc
         \/ Begin("resume", db, {}, <<"comp", "save">>, NoMsg)
         \/ ~is_terminal(db) /\ ~db.saga.on /\ Begin("resume", Reset(db), {}, k, NoMsg)
  BY DEF Resume
<1>2. db \in Instances /\ Truthful(db, faults) /\ (~is_terminal(db) => db.status = "Running")
  BY StoredFacts
<1>3. k \in GoStacks /\ k # <<"dispatch", "finish", "save", "ack">> /\ <<"comp", "save">> \in EndStacks
  BY DEF EndStacks, GoStacks
<1>4. Reset(db).status = db.status /\ Reset(db).saga = db.saga /\ Reset(db).version = db.version
  BY <1>2 DEF Reset, Instances
<1>5. SameOutcome(db, db)
  BY DEF SameOutcome
<1> HIDE DEF k
<1>6. CASE proc' = proc
  BY <1>1, <1>6, OutcomeUnchanged
<1>7. CASE Begin("resume", db, {}, <<"comp", "save">>, NoMsg)
  BY <1>1, <1>2, <1>3, <1>5, <1>7, OutcomeBeginEnd
<1>8. CASE ~is_terminal(db) /\ ~db.saga.on /\ Begin("resume", Reset(db), {}, k, NoMsg)
  BY <1>1, <1>2, <1>3, <1>4, <1>8, OutcomeBeginGo
<1> QED BY <1>1, <1>6, <1>7, <1>8

LEMMA OutcomeInit == Init => OutcomeInv
<1> SUFFICES ASSUME Init PROVE OutcomeInv
  OBVIOUS
<1>1. db.status = "Running" /\ db.saga = NoSaga
  BY DEF Init, NewInstance
<1>2. \A p \in Procs : ~Active(p)
  BY DEF Init, Active, Idle
<1> QED BY <1>1, <1>2, NewTruthful DEF OutcomeInv

LEMMA OutcomeEngineStep ==
  ASSUME IInv, CalmInv, OutcomeInv, ActionsOnly, NEW p \in Procs, EngineStep(p) PROVE OutcomeInv'
  BY OutcomeGate, OutcomeQueueNode, OutcomeDispatchFails, OutcomePublish, OutcomeDispatchDone,
     OutcomeDispatchError, OutcomeDispatchErrorLost, OutcomeFindReady, OutcomeFinish, OutcomeSave,
     OutcomeSaveConflict, OutcomeSaveError, OutcomeRefetch, OutcomeRefetchError, OutcomeGiveUp,
     OutcomeSleep, OutcomeAck, OutcomeCompensate DEF EngineStep

LEMMA OutcomeNext ==
  ~RacingStart /\ ActionsOnly /\ IInv /\ CalmInv /\ OutcomeInv /\ [Next]_vars => OutcomeInv'
<1> SUFFICES ASSUME ~RacingStart, ActionsOnly, IInv, CalmInv, OutcomeInv, [Next]_vars PROVE OutcomeInv'
  OBVIOUS
<1>1. CASE UNCHANGED vars
  BY <1>1, OutcomeUnchanged DEF vars
<1>2. CASE ListRunning
  BY <1>2, OutcomeUnchanged DEF ListRunning
<1>3. CASE Execute
  <2>1. db' = db /\ proc' = proc /\ (faults' = faults \/ \E kind : Fault(kind))
    BY <1>3 DEF Execute
  <2> QED BY <2>1, OutcomeUnchanged
<1>4. CASE Next
  BY <1>2, <1>3, <1>4, OutcomeStartWorkflow, OutcomeStartAborts, OutcomeEngineStep,
     OutcomeHandleResult, OutcomeRetryDispatch, OutcomeCancel, OutcomeApprove, OutcomeReject,
     OutcomeCrash, OutcomeResume DEF Next
<1> QED BY <1>1, <1>4

LEMMA OutcomeInvAlways == ~RacingStart /\ ActionsOnly /\ Spec => []OutcomeInv
<1> SUFFICES ASSUME ~RacingStart, ActionsOnly PROVE Spec => []OutcomeInv
  OBVIOUS
<1>1. IInv /\ CalmInv /\ OutcomeInv /\ [Next]_vars => OutcomeInv'
  BY OutcomeNext
<1>2. Spec => []CalmInv
  BY CalmInvAlways
<1> QED BY <1>1, <1>2, OutcomeInit, IInvAlways, PTL DEF Spec

\* While nothing runs beside start_workflow, the stored status tells the truth, after
\* whatever saves, merges, crashes and compensations: an instance is Completed only with
\* every node over and none failed, and Failed only if a node failed or something else
\* went wrong.  Every copy an operation works on says so too, which is why any of them
\* may be saved.
THEOREM StatusMeansOutcomeCalm == ~RacingStart /\ ActionsOnly /\ Spec => []StatusMeansOutcome
<1>1. OutcomeInv => StatusMeansOutcome
  BY DEF OutcomeInv, Truthful, StatusMeansOutcome
<1> QED BY <1>1, OutcomeInvAlways, PTL

-----------------------------------------------------------------------------
(* The engine implements the life cycle. *)

LEMMA MovesFollow ==
  /\ DOMAIN Lifecycle!Moves = NodeStatus
  /\ \A old, new \in NodeStatus : Follows(old, new) => new \in {old} \cup Lifecycle!Moves[old]
<1>1. /\ DOMAIN Lifecycle!Moves = NodeStatus
      /\ Lifecycle!Moves["Pending"] = {"Queued", "WaitingApproval", "Completed", "Failed", "Skipped", "Cancelled"}
      /\ Lifecycle!Moves["Queued"] = {"Pending", "Completed", "Failed", "Cancelled"}
      /\ Lifecycle!Moves["WaitingApproval"] = {"Queued", "Failed", "Cancelled"}
  BY DEF Lifecycle!Moves, Lifecycle!Over, NodeStatus
<1>2. \A old, new \in NodeStatus : Follows(old, new) =>
        \/ new = old
        \/ old = "Pending" /\ new \in Lifecycle!Moves["Pending"]
        \/ old = "Queued" /\ new \in Lifecycle!Moves["Queued"]
        \/ old = "WaitingApproval" /\ new \in Lifecycle!Moves["WaitingApproval"]
  BY <1>1 DEF Follows, NodeStatus
<1> QED BY <1>1, <1>2

\* How a step changes the stored record.
LEMMA StoreSteps ==
  ASSUME IInv, CalmInv, OutcomeInv, [Next]_vars
  PROVE  \/ db' = db
         \/ ~Exists /\ db' = NewInstance
         \/ /\ Exists /\ Exists' /\ (is_terminal(db) /\ NoCancelledSaga => SameOutcome(db', db))
            /\ \A n \in Nodes : Follows(Status(db, n), Status(db', n))
<1>1. CASE StartWorkflow \/ StartAborts
  BY <1>1 DEF StartWorkflow, StartAborts
<1>2. ASSUME NEW p \in Procs, Save(p)
      PROVE  /\ Exists /\ Exists' /\ (is_terminal(db) /\ NoCancelledSaga => SameOutcome(db', db))
             /\ \A n \in Nodes : Follows(Status(db, n), Status(db', n))
  <2> DEFINE r == proc[p]
  <2>1. At(p, "save") /\ db' = Bumped(r.inst) /\ db.version = r.inst.version
    BY <1>2 DEF Save, SaveWins
  <2>2. /\ r.inst \in Instances /\ Exists /\ Ahead(r.inst, db)
        /\ is_terminal(db) /\ NoCancelledSaga => SameOutcome(r.inst, db)
    BY <2>1, Facts, CalmFacts, OutcomeFacts
  <2>3. /\ db'.nodes = r.inst.nodes /\ db'.status = r.inst.status
        /\ db'.version = r.inst.version + 1 /\ r.inst.version \in Nat
    BY <2>1, <2>2, BumpedFields
  <2>4. Exists'
    BY <2>3 DEF Exists
  <2> QED BY <2>2, <2>3, <2>4 DEF SameOutcome, Ahead, Status
<1>3. ASSUME NEW p \in Procs, GiveUp(p)
      PROVE  \/ db' = db
             \/ /\ Exists /\ Exists' /\ (is_terminal(db) /\ NoCancelledSaga => SameOutcome(db', db))
                /\ \A n \in Nodes : Follows(Status(db, n), Status(db', n))
  <2> DEFINE failed == [db EXCEPT !.status = "Failed"]
  <2>1. At(p, "refetch") /\ (db' = db \/ (~is_terminal(db) /\ db' = Bumped(failed)))
    BY <1>3 DEF GiveUp
  <2>2. db \in Instances /\ Exists
    BY <2>1, Facts, CalmFacts
  <2>3. failed \in Instances /\ failed.nodes = db.nodes
    BY <2>2 DEF Instances, InstanceStatus
  <2> HIDE DEF failed
  <2>4. /\ Bumped(failed).nodes = db.nodes /\ Bumped(failed).version > 0
    BY <2>3, BumpedFields
  <2> QED BY <2>1, <2>2, <2>4 DEF Exists, Follows, Status
<1>4. ASSUME NEW p \in Procs, EngineStep(p), ~Save(p), ~GiveUp(p) PROVE db' = db
  BY <1>4 DEF EngineStep, Gate, QueueNode, DispatchFails, Publish, DispatchDone, DispatchError,
              DispatchErrorLost, FindReady, Finish, SaveConflict, SaveError, Refetch, RefetchError,
              Sleep, Ack, Compensate
<1>5. CASE HandleResult \/ RetryDispatch \/ CancelInstance \/ ApproveNode \/ RejectNode
           \/ Crash \/ ListRunning \/ Resume \/ Execute \/ UNCHANGED vars
  BY <1>5 DEF HandleResult, RetryDispatch, CancelInstance, ApproveNode, RejectNode, Crash,
              ListRunning, Resume, Execute, vars
<1> QED BY <1>1, <1>2, <1>3, <1>4, <1>5 DEF Next

\* One step of the engine is one step of the life cycle, or none.
LEMMA LifecycleStep ==
  ASSUME IInv, CalmInv, OutcomeInv, IInv', OutcomeInv', NoCancelledSaga, [Next]_vars
  PROVE  [Lifecycle!Next]_(Lifecycle!vars)
<1>1. \A n \in Nodes : Status(db, n) \in NodeStatus /\ Status(db', n) \in NodeStatus
  <2>1. db \in Instances /\ db' \in Instances
    BY DEF IInv, TypeOK
  <2> QED BY <2>1, InstanceFields DEF NodeStates, Status
<1>2. CASE db' = db
  <2>1. UNCHANGED Lifecycle!vars
    BY <1>2 DEF Lifecycle!vars, Exists, Status
  <2> QED BY <2>1
<1>3. CASE ~Exists /\ db' = NewInstance
  <2>1. db.nodes = NewInstance.nodes
    BY <1>3 DEF CalmInv
  <2>2. Exists' /\ db'.status = "Running" /\ db'.nodes = db.nodes
    BY <1>3, <2>1, NewSound DEF Exists, NewInstance
  <2>3. Lifecycle!Create
    BY <1>3, <2>2 DEF Lifecycle!Create, Status
  <2> QED BY <2>3 DEF Lifecycle!Next
<1>4. CASE /\ Exists /\ Exists' /\ (is_terminal(db) /\ NoCancelledSaga => SameOutcome(db', db))
           /\ \A n \in Nodes : Follows(Status(db, n), Status(db', n))
  <2>1. CASE is_terminal(db)
    <3>1. SameOutcome(db', db)
      BY <1>4, <2>1
    <3>2. UNCHANGED Lifecycle!vars
      BY <1>4, <3>1 DEF Lifecycle!vars, SameOutcome
    <3> QED BY <3>2
  <2>2. CASE ~is_terminal(db)
    <3>1. db.status = "Running"
      BY <2>2, StoredFacts
    <3>2. /\ db'.status \in {"Running", "Completed", "Failed", "Cancelled"}
          /\ db'.status = "Completed" => \A n \in Nodes : Status(db', n) \in NodeTerminal \ {"Failed"}
          /\ db'.status = "Cancelled" => \A n \in Nodes : Status(db', n) \in NodeTerminal
      <4>1. db' \in Instances /\ Truthful(db', faults')
        BY DEF IInv, TypeOK, OutcomeInv
      <4>2. db'.status \in InstanceStatus
        BY <4>1, InstanceFields
      <4> QED BY <4>1, <4>2 DEF Truthful, InstanceStatus, AllNodesTerminal, SomeNodeFailed
    <3>3. \A n \in Nodes : Status(db', n) \in {Status(db, n)} \cup Lifecycle!Moves[Status(db, n)]
      BY <1>1, <1>4, MovesFollow
    <3>4. [n \in Nodes |-> Status(db', n)] \in [Nodes -> DOMAIN Lifecycle!Moves]
      BY <1>1, MovesFollow
    <3>5. Lifecycle!Advance
      BY <1>4, <3>1, <3>2, <3>3, <3>4 DEF Lifecycle!Advance, Lifecycle!Over, NodeTerminal
    <3> QED BY <3>5 DEF Lifecycle!Next
  <2> QED BY <2>1, <2>2
<1> QED BY <1>2, <1>3, <1>4, StoreSteps

\* ... and every change of the store is a step of the life cycle: nodes move along it and
\* never back, the instance ends for a reason, and then nothing of it changes any more
\* (an operation that begins after the end, or goes on past it, has the same outcome in
\* its copy).
THEOREM ImplementsLifecycleCalm ==
  ~RacingStart /\ ActionsOnly /\ NoCancelledSaga /\ Spec => ImplementsLifecycle
<1> SUFFICES ASSUME ~RacingStart, ActionsOnly, NoCancelledSaga PROVE Spec => ImplementsLifecycle
  OBVIOUS
<1>1. Init => Lifecycle!Init
  BY DEF Init, Lifecycle!Init, Exists, NewInstance, Status
<1>2. IInv /\ CalmInv /\ OutcomeInv /\ IInv' /\ OutcomeInv' /\ [Next]_vars => [Lifecycle!Next]_(Lifecycle!vars)
  BY LifecycleStep
<1>3. Spec => []CalmInv
  BY CalmInvAlways
<1>4. Spec => []OutcomeInv
  BY OutcomeInvAlways
<1> QED BY <1>1, <1>2, <1>3, <1>4, IInvAlways, PTL DEF Spec, ImplementsLifecycle, Lifecycle!Spec

-----------------------------------------------------------------------------
(* Compensation of a workflow whose actions run one at a time. *)

Actions == Nodes \ (Triggers \cup Capabilities)
Pos(n) == Position(ExecutionOrder, n)

\* Every action but the first has an edge from the action before it, whatever other
\* edges and conditions there are: no two of them run at the same time.
OneAtATime ==
  \A n \in Actions :
    \/ \A m \in Actions : ~(Pos(m) < Pos(n))
    \/ \E e \in Incoming(n) :
         /\ e.src \in Actions /\ Pos(e.src) < Pos(n)
         /\ \A m \in Actions : Pos(m) < Pos(n) => Pos(m) <= Pos(e.src)

Waits(inst, n) == Status(inst, n) \in {"Queued", "WaitingApproval"}

\* A node leaves Pending when what it depends on is over.
Ordered(inst) ==
  /\ \A n \in Nodes : Status(inst, n) # "Pending" =>
       \A e \in Incoming(n) : Status(inst, e.src) \in NodeTerminal
  /\ \A n \in Nodes : Waits(inst, n) => n \in Actions

UndoneIn(n, answers) == \E m \in answers : m.node = n /\ m.undo /\ m.ok
NoSagaYet(inst) == inst.saga.plan = {} /\ ~inst.saga.on

\* A plan is all there is to undo, and stays so because nothing else goes on beside it;
\* what is done of it was confirmed, and it ends when all of it is, or one has failed.
SagaOK(inst, answers) ==
  /\ inst.saga.done \subseteq inst.saga.plan
  /\ \A n \in inst.saga.done : UndoneIn(n, answers)
  /\ ~NoSagaYet(inst) =>
       inst.saga.plan = CompensationPlan(inst) /\ \A n \in Nodes : ~Waits(inst, n)
  /\ ~NoSagaYet(inst) /\ ~inst.saga.on =>
       /\ is_terminal(inst)
       /\ inst.saga.done = inst.saga.plan \/ \E m \in answers : m.undo /\ ~m.ok

\* The compensations in flight, as a record sees them.
UndoOK(inst, ts, answers) ==
  \A t \in ts : t.undo =>
    /\ t.node \in inst.saga.plan
    /\ \A n \in inst.saga.plan : Pos(n) > Pos(t.node) => UndoneIn(n, answers)

RecordOK(inst, ts, answers) == Ordered(inst) /\ SagaOK(inst, answers) /\ UndoOK(inst, ts, answers)

\* What is left to do of an operation: a compensation is sent right after a save.
CompStacks == {<<"save", "comp", "ack">>, <<"comp", "ack">>, <<"comp", "save">>}
StackOK(k) == ~Has(k, {"refetch", "dispatchError"}) /\ (Has(k, {"comp"}) => k \in CompStacks)
Moving == {"dispatch", "publish", "ready", "finish"}

\* An operation in progress: nothing is dispatched once there is a plan, and what is
\* sent as a compensation is from the plan that is stored.
FreshOp(r, stored, ts, answers) ==
  /\ r.inst.version = stored.version
  /\ StackOK(r.k) /\ RecordOK(r.inst, ts, answers)
  /\ r.todo \subseteq Actions
  /\ r.todo # {} \/ Has(r.k, Moving) => NoSagaYet(r.inst) /\ NoSagaYet(stored)
  /\ Head(r.k) = "comp" => r.inst.saga = stored.saga /\ r.inst.nodes = stored.nodes

\* A node that could not be dispatched: the stored record knows of no failure yet.
ErringOp(r, stored) ==
  /\ r.k = <<"dispatchError">>
  /\ NoSagaYet(r.inst) /\ NoSagaYet(stored) /\ Ordered(r.inst)
  /\ r.inst.version >= stored.version /\ Waits(r.inst, FirstDefined(r.todo))

\* What is left to do then: without a plan, with one, and when that one has been lost.
ErrorRests == {<<"finish", "save">>, <<"save", "ack">>, <<"save">>}
PlanRests == {<<"save", "comp", "finish", "save">>, <<"save", "comp", "save", "ack">>,
              <<"save", "comp", "save">>}
LostRests == {<<"comp", "finish", "save">>, <<"comp", "save", "ack">>, <<"comp", "save">>}
LagStacks == ErrorRests \cup PlanRests

\* The version has run ahead of the stored one: the copy, with its plan, cannot be saved
\* as it is.
LaggingOp(r, stored) ==
  /\ r.inst.version > stored.version
  /\ NeedsMerge(r.inst, stored) /\ Ordered(r.inst) /\ NoSagaYet(stored) /\ r.todo = {}
  /\ r.k \in LagStacks \/ (Head(r.k) = "refetch" /\ Tail(r.k) \in LagStacks)

\* A merge has taken the stored record's saga, which is none.
MergedOp(r, stored) ==
  /\ r.inst.version = stored.version
  /\ r.inst.saga = stored.saga /\ Ordered(r.inst) /\ NoSagaYet(stored) /\ r.todo = {}
  /\ r.k \in PlanRests \cup LostRests

SagaOp(r, stored, ts, answers) ==
  \/ FreshOp(r, stored, ts, answers)
  \/ ErringOp(r, stored) \/ LaggingOp(r, stored) \/ MergedOp(r, stored)

SagaInv ==
  /\ RecordOK(db, tasks, produced)
  /\ \A p \in Procs : Active(p) => SagaOp(proc[p], db, tasks, produced)

-----------------------------------------------------------------------------
(* Lemmas about positions and records. *)

LEMMA PosFacts ==
  ASSUME NEW n \in Nodes
  PROVE  Pos(n) \in Nat /\ ExecutionOrder[Pos(n)] = n
<1>1. \E i \in DOMAIN ExecutionOrder : ExecutionOrder[i] = n
  BY WorkflowAssumption
<1>2. Pos(n) \in DOMAIN ExecutionOrder /\ ExecutionOrder[Pos(n)] = n
  BY <1>1 DEF Pos, Position
<1>3. DOMAIN ExecutionOrder = 1..Len(ExecutionOrder)
  BY WorkflowAssumption
<1> QED BY <1>2, <1>3

\* Behind an action that runs or waits every action is pending.
LEMMA RestPending ==
  ASSUME OneAtATime, NEW inst, Ordered(inst), NEW a \in Actions, Waits(inst, a),
         NEW b \in Actions, Status(inst, b) # "Pending", Pos(a) < Pos(b)
  PROVE  FALSE
<1> DEFINE S == {x \in Actions : Pos(a) < Pos(x) /\ Status(inst, x) # "Pending"}
           T == {Pos(x) : x \in S}
<1>1. \A x \in Actions : x \in Nodes /\ Pos(x) \in Nat
  BY PosFacts DEF Actions
<1>2. T \in SUBSET Nat /\ T # {}
  BY <1>1
<1>3. PICK i \in T : \A y \in T : i <= y
  BY <1>2, LeastExists
<1>4. PICK x \in S : i = Pos(x)
  BY <1>3
<1>5. PICK e \in Incoming(x) : /\ e.src \in Actions /\ Pos(e.src) < Pos(x)
                               /\ \A m \in Actions : Pos(m) < Pos(x) => Pos(m) <= Pos(e.src)
  BY <1>4 DEF OneAtATime
<1>6. Status(inst, e.src) \in NodeTerminal
  BY <1>1, <1>4, <1>5 DEF Ordered
<1>7. Pos(a) <= Pos(e.src)
  BY <1>4, <1>5
<1>8. CASE Pos(a) = Pos(e.src)
  <2>1. a = e.src
    BY <1>1, <1>5, <1>8, PosFacts
  <2> QED BY <1>6, <2>1 DEF Waits, NodeTerminal
<1>9. CASE Pos(a) # Pos(e.src)
  <2>1. Pos(a) < Pos(e.src)
    BY <1>1, <1>5, <1>7, <1>9
  <2>2. e.src \in S
    BY <1>5, <1>6, <2>1 DEF NodeTerminal
  <2>3. Pos(x) <= Pos(e.src)
    BY <1>3, <1>4, <2>2
  <2> QED BY <1>1, <1>4, <1>5, <2>3
<1> QED BY <1>8, <1>9

LEMMA OneWaits ==
  ASSUME OneAtATime, NEW inst, Ordered(inst), NEW a \in Nodes, NEW b \in Nodes,
         Waits(inst, a), Waits(inst, b)
  PROVE  a = b
<1>1. a \in Actions /\ b \in Actions /\ Status(inst, a) # "Pending" /\ Status(inst, b) # "Pending"
  BY DEF Ordered, Waits
<1>2. ~(Pos(a) < Pos(b)) /\ ~(Pos(b) < Pos(a))
  BY <1>1, RestPending
<1>3. Pos(a) = Pos(b)
  BY <1>2, PosFacts
<1> QED BY <1>3, PosFacts

LEMMA WaitsNoSaga ==
  ASSUME NEW inst, NEW answers, SagaOK(inst, answers), NEW n \in Nodes, Waits(inst, n)
  PROVE  NoSagaYet(inst)
  BY DEF SagaOK

\* Answers are never taken back.
LEMMA RecordGrows ==
  ASSUME NEW inst, NEW ts, NEW more, NEW answers, NEW others, RecordOK(inst, ts, answers),
         \A t \in more : t.undo => t \in ts, answers \subseteq others
  PROVE  RecordOK(inst, more, others)
<1>1. \A n : UndoneIn(n, answers) => UndoneIn(n, others)
  BY DEF UndoneIn
<1>2. SagaOK(inst, others)
  BY <1>1 DEF RecordOK, SagaOK
<1>3. UndoOK(inst, more, others)
  BY <1>1 DEF RecordOK, UndoOK
<1> QED BY <1>2, <1>3 DEF RecordOK

LEMMA SameStatuses ==
  ASSUME NEW old, NEW new, \A n \in Nodes : Status(new, n) = Status(old, n)
  PROVE  /\ Ordered(old) => Ordered(new)
         /\ \A n \in Nodes : Waits(new, n) <=> Waits(old, n)
         /\ CompensationPlan(new) = CompensationPlan(old)
<1>1. \A n \in Nodes : Waits(new, n) <=> Waits(old, n)
  BY DEF Waits
<1>2. CompensationPlan(new) = CompensationPlan(old)
  BY WorkflowAssumption DEF CompensationPlan
<1>3. Ordered(old) => Ordered(new)
  BY <1>1, IncomingIn DEF Ordered
<1> QED BY <1>1, <1>2, <1>3

\* The same nodes and the same saga.
LEMMA RecordSame ==
  ASSUME NEW old, NEW new, NEW ts, NEW answers, RecordOK(old, ts, answers),
         new.nodes = old.nodes, new.saga = old.saga,
         NoSagaYet(old) \/ (is_terminal(old) => is_terminal(new))
  PROVE  RecordOK(new, ts, answers)
<1>1. \A n \in Nodes : Status(new, n) = Status(old, n)
  BY DEF Status
<1>2. /\ Ordered(old) => Ordered(new)
      /\ \A n \in Nodes : Waits(new, n) <=> Waits(old, n)
      /\ CompensationPlan(new) = CompensationPlan(old)
  BY <1>1, SameStatuses
<1>3. NoSagaYet(new) <=> NoSagaYet(old)
  BY DEF NoSagaYet
<1>4. SagaOK(new, answers)
  BY <1>2, <1>3 DEF RecordOK, SagaOK
<1> QED BY <1>2, <1>4 DEF RecordOK, UndoOK

\* Before there is a saga only the order of the nodes matters.
LEMMA RecordMoves ==
  ASSUME NEW old, NEW new, NEW ts, NEW answers, RecordOK(old, ts, answers),
         NoSagaYet(old), new.saga = old.saga, Ordered(new)
  PROVE  RecordOK(new, ts, answers) /\ NoSagaYet(new)
<1>1. NoSagaYet(new)
  BY DEF NoSagaYet
<1>2. SagaOK(new, answers) /\ UndoOK(new, ts, answers)
  BY <1>1 DEF RecordOK, SagaOK, UndoOK
<1> QED BY <1>1, <1>2 DEF RecordOK

\* One node that was not over moves on.
LEMMA OrderedMove ==
  ASSUME NEW old, NEW new, NEW n \in Nodes, Ordered(old), Status(old, n) \notin NodeTerminal,
         \A m \in Nodes : m # n => new.nodes[m] = old.nodes[m],
         Status(new, n) # "Pending",
         Status(old, n) = "Pending" => \A e \in Incoming(n) : Status(old, e.src) \in NodeTerminal,
         Waits(new, n) => n \in Actions
  PROVE  Ordered(new)
<1>1. \A m \in Nodes : m # n => Status(new, m) = Status(old, m)
  BY DEF Status
<1>2. \A e \in Incoming(n) : Status(old, e.src) \in NodeTerminal
  BY DEF Ordered
<1>3. ASSUME NEW x \in Nodes, Status(new, x) # "Pending", NEW e \in Incoming(x)
      PROVE  Status(new, e.src) \in NodeTerminal
  <2>1. Status(old, e.src) \in NodeTerminal
    BY <1>1, <1>2, <1>3 DEF Ordered
  <2>2. e.src \in Nodes
    BY <1>3, IncomingIn
  <2> QED BY <1>1, <2>1, <2>2
<1>4. \A m \in Nodes : Waits(new, m) => m \in Actions
  BY <1>1 DEF Ordered, Waits
<1> QED BY <1>3, <1>4 DEF Ordered

LEMMA OrderedCascade ==
  ASSUME NEW inst \in Instances, Ordered(inst)
  PROVE  Ordered(CascadeSkips(inst))
<1> DEFINE new == CascadeSkips(inst)
           S == Skipped(inst)
<1>1. new.nodes = [m \in Nodes |-> IF m \in S THEN [inst.nodes[m] EXCEPT !.st = "Skipped"]
                                   ELSE inst.nodes[m]]
  BY DEF CascadeSkips, Instances
<1>2. \A m \in Nodes : [inst.nodes[m] EXCEPT !.st = "Skipped"].st = "Skipped"
  BY InstanceFields DEF NodeStates
<1>3. \A m \in Nodes : Status(new, m) = IF m \in S THEN "Skipped" ELSE Status(inst, m)
  BY <1>1, <1>2 DEF Status
<1>4. S = Justified(inst, S)
  BY SkippedJustified
<1> HIDE DEF new, S
<1>5. ASSUME NEW x \in Nodes, Status(new, x) # "Pending", NEW e \in Incoming(x)
      PROVE  Status(new, e.src) \in NodeTerminal
  <2>1. e.src \in S \/ Status(inst, e.src) \in NodeTerminal
    <3>1. CASE x \in S
      BY <1>4, <1>5, <3>1 DEF Justified
    <3>2. CASE x \notin S
      BY <1>3, <1>5, <3>2 DEF Ordered
    <3> QED BY <3>1, <3>2
  <2>2. e.src \in Nodes
    BY <1>5, IncomingIn
  <2> QED BY <1>3, <2>1, <2>2 DEF NodeTerminal
<1>6. \A m \in Nodes : Waits(new, m) => m \in Actions
  BY <1>3 DEF Ordered, Waits
<1> QED BY <1>5, <1>6 DEF Ordered, new

LEMMA OrderedReset ==
  ASSUME NEW inst \in Instances, Ordered(inst)
  PROVE  Ordered(Reset(inst))
<1> DEFINE new == Reset(inst)
           again(m) == [inst.nodes[m] EXCEPT !.st = "Pending", !.att = inst.nodes[m].att + 1]
<1>1. \A m \in Nodes : again(m).st = "Pending"
  BY InstanceFields, NodeUpdates
<1>2. new.nodes = [m \in Nodes |-> IF inst.nodes[m].st = "Queued" THEN again(m) ELSE inst.nodes[m]]
  BY DEF Reset, Instances, Status
<1> HIDE DEF again, new
<1>3. \A m \in Nodes : Status(new, m) = IF Status(inst, m) = "Queued" THEN "Pending" ELSE Status(inst, m)
  BY <1>1, <1>2 DEF Status
<1>4. \A x \in Nodes : Status(new, x) # "Pending" =>
        \A e \in Incoming(x) : Status(new, e.src) \in NodeTerminal
  BY <1>3, IncomingIn DEF Ordered, NodeTerminal
<1>5. \A m \in Nodes : Waits(new, m) => m \in Actions
  BY <1>3 DEF Ordered, Waits
<1> QED BY <1>4, <1>5 DEF Ordered, new

\* A ready node is an action whose turn it is.
LEMMA ReadyActions ==
  ASSUME NEW inst
  PROVE  ReadyNodes(inst) \subseteq Actions
<1> SUFFICES ASSUME NEW n \in ReadyNodes(inst) PROVE n \in Actions
  OBVIOUS
<1>1. n \in Nodes /\ \E e \in Incoming(n) : TRUE
  BY DEF ReadyNodes, IsReady
<1>2. PICK e \in Edges : e.dst = n
  BY <1>1 DEF Incoming
<1>3. {e.src, e.dst} \cap Capabilities = {} /\ e.dst \notin Triggers
  BY <1>2, WorkflowAssumption
<1> QED BY <1>1, <1>2, <1>3 DEF Actions

\* The one action that ran has failed, and everything that completed is to be undone.
LEMMA SagaBegins ==
  ASSUME OneAtATime, NEW inst \in Instances, NEW ts, NEW answers, RecordOK(inst, ts, answers),
         NEW n \in Nodes, Waits(inst, n)
  PROVE  LET failed == SetStatus(inst, n, "Failed")
         IN RecordOK(BeginCompensation(failed), ts, answers)
<1> DEFINE failed == SetStatus(inst, n, "Failed")
           begun == BeginCompensation(failed)
<1>0. "Failed" \in NodeStatus
  BY DEF NodeStatus
<1>1. NoSagaYet(inst)
  BY WaitsNoSaga DEF RecordOK
<1>2. /\ failed \in Instances /\ failed.saga = inst.saga
      /\ \A m \in Nodes : m # n => failed.nodes[m] = inst.nodes[m]
      /\ Status(failed, n) = "Failed"
  <2> DEFINE ns == [inst.nodes[n] EXCEPT !.st = "Failed"]
  <2>1. /\ failed \in Instances /\ failed.saga = inst.saga /\ ns.st = "Failed"
        /\ \A m \in Nodes : failed.nodes[m] = IF m = n THEN ns ELSE inst.nodes[m]
    BY <1>0, SetStatusFields
  <2> HIDE DEF failed, ns
  <2> QED BY <2>1 DEF Status
<1> HIDE DEF failed
<1>3. Ordered(failed)
  BY <1>2, OrderedMove DEF RecordOK, Waits, NodeTerminal
<1>4. \A m \in Nodes : ~Waits(failed, m)
  BY <1>2, OneWaits DEF RecordOK, Waits, Status
<1>5. /\ begun.nodes = failed.nodes
      /\ begun.saga = [on |-> TRUE, plan |-> CompensationPlan(failed), done |-> {}]
  BY <1>2 DEF BeginCompensation, Instances
<1>6. begun.saga.on /\ begun.saga.plan = CompensationPlan(failed) /\ begun.saga.done = {}
  BY <1>5
<1> HIDE DEF begun
<1>7. /\ Ordered(begun) /\ CompensationPlan(begun) = CompensationPlan(failed)
      /\ \A m \in Nodes : ~Waits(begun, m)
  BY <1>3, <1>4, <1>5, SameStatuses DEF Status
<1>8. SagaOK(begun, answers)
  BY <1>6, <1>7 DEF SagaOK
<1>9. UndoOK(begun, ts, answers)
  BY <1>1 DEF RecordOK, UndoOK, NoSagaYet
<1> QED BY <1>7, <1>8, <1>9 DEF RecordOK, begun, failed

-----------------------------------------------------------------------------
(* Lemmas about stacks and operations. *)

LEMMA CompTail ==
  ASSUME NEW k \in CompStacks
  PROVE  /\ Has(Tail(k), {"comp"}) => Tail(k) \in CompStacks
         /\ Tail(k) # << >> /\ Head(Tail(k)) = "comp" => Head(k) = "save"
         /\ ~Has(k, Moving) /\ ~Has(k, {"refetch", "dispatchError"})
<1>1. CASE k = <<"save", "comp", "ack">>
  <2>1. Tail(k) = <<"comp", "ack">> /\ Head(k) = "save"
    BY <1>1
  <2> QED BY <1>1, <2>1 DEF CompStacks, Has, Moving
<1>2. CASE k = <<"comp", "ack">>
  <2>1. Tail(k) = <<"ack">>
    BY <1>2
  <2> QED BY <1>2, <2>1 DEF Has, Moving
<1>3. CASE k = <<"comp", "save">>
  <2>1. Tail(k) = <<"save">>
    BY <1>3
  <2> QED BY <1>3, <2>1 DEF Has, Moving
<1> QED BY <1>1, <1>2, <1>3 DEF CompStacks

LEMMA StackTail ==
  ASSUME NEW k \in Seq(Labels), k # << >>, StackOK(k)
  PROVE  /\ StackOK(Tail(k))
         /\ Tail(k) # << >> /\ Head(Tail(k)) = "comp" => Head(k) = "save"
<1>1. \A labels : Has(Tail(k), labels) => Has(k, labels)
  BY HasTail
<1>2. Tail(k) \in Seq(Labels)
  BY HeadTailProperties
<1>3. Tail(k) # << >> /\ Head(Tail(k)) = "comp" => Has(Tail(k), {"comp"})
  BY <1>2, HasHead
<1>4. CASE Has(k, {"comp"})
  BY <1>1, <1>4, CompTail DEF StackOK
<1>5. CASE ~Has(k, {"comp"})
  BY <1>1, <1>3, <1>5 DEF StackOK
<1> QED BY <1>4, <1>5

LEMMA SagaStacks ==
  /\ \A k \in EndStacks : StackOK(k) /\ ~Has(k, Moving) /\ (Head(k) = "comp" => k = <<"comp", "save">>)
  /\ \A k \in GoStacks : StackOK(k) /\ Head(k) # "comp"
  /\ \A k \in {<<"dispatch", "finish", "save">>, <<"dispatch", "ready", "dispatch", "finish", "save">>} :
       StackOK(k) /\ Head(k) # "comp"
<1>1. \A a \in {"ack", "save"} : LET k == <<a>> IN StackOK(k) /\ ~Has(k, Moving) /\ Head(k) # "comp"
  BY DEF StackOK, Has, Moving
<1>2. LET k == <<"save", "ack">> IN StackOK(k) /\ ~Has(k, Moving) /\ Head(k) # "comp"
  BY DEF StackOK, Has, Moving
<1>3. LET k == <<"save", "comp", "ack">> IN StackOK(k) /\ ~Has(k, Moving) /\ Head(k) # "comp"
  <2> DEFINE k == <<"save", "comp", "ack">>
  <2>1. k \in CompStacks /\ Head(k) # "comp"
    BY DEF CompStacks
  <2> QED BY <2>1, CompTail DEF StackOK
<1>4. LET k == <<"comp", "save">> IN StackOK(k) /\ ~Has(k, Moving)
  <2> DEFINE k == <<"comp", "save">>
  <2>1. k \in CompStacks
    BY DEF CompStacks
  <2> QED BY <2>1, CompTail DEF StackOK
<1>5. \A a \in {"save", "dispatch"} : \A b \in {"sleep", "ack", "save"} :
        StackOK(<<a, b>>) /\ Head(<<a, b>>) # "comp"
  BY DEF StackOK, Has
<1>6. LET k == <<"dispatch", "finish", "save", "ack">> IN StackOK(k) /\ Head(k) # "comp"
  BY DEF StackOK, Has
<1>7. LET k == <<"save", "ready", "dispatch", "save">> IN StackOK(k) /\ Head(k) # "comp"
  BY DEF StackOK, Has
<1>8. LET k == <<"dispatch", "finish", "save">> IN StackOK(k) /\ Head(k) # "comp"
  BY DEF StackOK, Has
<1>9. LET k == <<"dispatch", "ready", "dispatch", "finish", "save">> IN StackOK(k) /\ Head(k) # "comp"
  BY DEF StackOK, Has
<1>10. \A k \in EndStacks : StackOK(k) /\ ~Has(k, Moving) /\ (Head(k) = "comp" => k = <<"comp", "save">>)
  BY <1>1, <1>2, <1>3, <1>4 DEF EndStacks
<1>11. \A k \in GoStacks : StackOK(k) /\ Head(k) # "comp"
  BY <1>5, <1>6, <1>7 DEF GoStacks
<1> QED BY <1>8, <1>9, <1>10, <1>11

LEMMA SagaStep ==
  ASSUME SagaInv, proc \in [Procs -> Operations], NEW p \in Procs, NEW q, Continue(p, q),
         \A o \in Procs \ {p} : ~Active(o),
         q.k # << >> => SagaOp(q, db', tasks', produced'), RecordOK(db', tasks', produced')
  PROVE  SagaInv'
<1> DEFINE s == IF q.k = << >> THEN Idle ELSE q
<1>1. proc' = [proc EXCEPT ![p] = s]
  BY DEF Continue
<1>2. Idle.k = << >>
  BY DEF Idle
<1>3. \A o \in Procs : proc'[o] = IF o = p THEN s ELSE proc[o]
  BY <1>1
<1>4. \A o \in Procs : Active(o)' => o = p /\ proc'[o] = q /\ q.k # << >>
  BY <1>2, <1>3 DEF Active
<1>5. (\A o \in Procs : Active(o) => SagaOp(proc[o], db, tasks, produced))'
  BY <1>4
<1> QED BY <1>5 DEF SagaInv

\* A step that touches neither the store nor the bus.
LEMMA SagaLocal ==
  ASSUME IInv, CalmInv, SagaInv, NEW p \in Procs, NEW label, At(p, label), NEW q, Continue(p, q),
         UNCHANGED <<db, tasks, produced>>, q.k # << >> => SagaOp(q, db, tasks, produced)
  PROVE  SagaInv'
<1>1. \A o \in Procs \ {p} : ~Active(o)
  BY CalmFacts
<1>2. proc \in [Procs -> Operations] /\ RecordOK(db, tasks, produced)
  BY DEF IInv, TypeOK, SagaInv
<1> QED BY <1>1, <1>2, SagaStep

LEMMA PairPair ==
  ASSUME NEW S, NEW a \in S, NEW b \in S, NEW c \in S, NEW d \in S
  PROVE  <<a, b>> \o <<c, d>> = <<a, b, c, d>>
<1> DEFINE s == <<a, b>> \o <<c, d>>
           t == <<a, b, c, d>>
<1>1. /\ <<a, b>> \in Seq(S) /\ <<c, d>> \in Seq(S) /\ t \in Seq(S)
      /\ Len(<<a, b>>) = 2 /\ Len(<<c, d>>) = 2 /\ Len(t) = 4
  OBVIOUS
<1>2. /\ s \in Seq(S) /\ Len(s) = 4
      /\ \A i \in 1..4 : s[i] = IF i <= 2 THEN <<a, b>>[i] ELSE <<c, d>>[i - 2]
  BY <1>1, ConcatProperties
<1>3. s[1] = a /\ s[2] = b /\ s[3] = c /\ s[4] = d
  BY <1>2
<1> HIDE DEF s
<1>4. \A i \in 1..4 : i = 1 \/ i = 2 \/ i = 3 \/ i = 4
  OBVIOUS
<1>5. \A i \in 1..4 : s[i] = t[i]
  BY <1>3, <1>4
<1> HIDE DEF t
<1>6. s = t
  BY <1>1, <1>2, <1>5, SeqEqual
<1> QED BY <1>6 DEF s, t

LEMMA PairOne ==
  ASSUME NEW S, NEW a \in S, NEW b \in S, NEW c \in S
  PROVE  <<a, b>> \o <<c>> = <<a, b, c>>
<1> DEFINE s == <<a, b>> \o <<c>>
           t == <<a, b, c>>
<1>1. /\ <<a, b>> \in Seq(S) /\ <<c>> \in Seq(S) /\ t \in Seq(S)
      /\ Len(<<a, b>>) = 2 /\ Len(<<c>>) = 1 /\ Len(t) = 3
  OBVIOUS
<1>2. /\ s \in Seq(S) /\ Len(s) = 3
      /\ \A i \in 1..3 : s[i] = IF i <= 2 THEN <<a, b>>[i] ELSE <<c>>[i - 2]
  BY <1>1, ConcatProperties
<1>3. s[1] = a /\ s[2] = b /\ s[3] = c
  BY <1>2
<1> HIDE DEF s
<1>4. \A i \in 1..3 : i = 1 \/ i = 2 \/ i = 3
  OBVIOUS
<1>5. \A i \in 1..3 : s[i] = t[i]
  BY <1>3, <1>4
<1> HIDE DEF t
<1>6. s = t
  BY <1>1, <1>2, <1>5, SeqEqual
<1> QED BY <1>6 DEF s, t

LEMMA ErrorHeads ==
  /\ \A k \in ErrorRests : k \in Seq(Labels) /\ k # << >> /\ Head(k) \in {"finish", "save"}
                           /\ <<"save", "comp">> \o k \in PlanRests
  /\ \A k \in PlanRests : Head(k) = "save" /\ k[2] = "comp" /\ Tail(k) \in LostRests
  /\ \A k \in LostRests : Head(k) = "comp" /\ Tail(k) \in ErrorRests
<1>1. {"save", "comp", "finish", "ack"} \subseteq Labels
  BY DEF Labels
<1>2. /\ <<"finish", "save">> \in Seq(Labels) /\ <<"save", "ack">> \in Seq(Labels) /\ <<"save">> \in Seq(Labels)
      /\ <<"finish", "save">> # << >> /\ <<"save", "ack">> # << >> /\ <<"save">> # << >>
      /\ Head(<<"finish", "save">>) = "finish" /\ Head(<<"save", "ack">>) = "save" /\ Head(<<"save">>) = "save"
  BY <1>1
<1>3. /\ <<"save", "comp">> \o <<"finish", "save">> = <<"save", "comp", "finish", "save">>
      /\ <<"save", "comp">> \o <<"save", "ack">> = <<"save", "comp", "save", "ack">>
      /\ <<"save", "comp">> \o <<"save">> = <<"save", "comp", "save">>
  BY <1>1, PairPair, PairOne
<1>4. LET k == <<"save", "comp", "finish", "save">>
      IN Head(k) = "save" /\ k[2] = "comp" /\ Tail(k) = <<"comp", "finish", "save">>
  OBVIOUS
<1>5. LET k == <<"save", "comp", "save", "ack">>
      IN Head(k) = "save" /\ k[2] = "comp" /\ Tail(k) = <<"comp", "save", "ack">>
  OBVIOUS
<1>6. LET k == <<"save", "comp", "save">>
      IN Head(k) = "save" /\ k[2] = "comp" /\ Tail(k) = <<"comp", "save">>
  OBVIOUS
<1>7. LET k == <<"comp", "finish", "save">> IN Head(k) = "comp" /\ Tail(k) = <<"finish", "save">>
  OBVIOUS
<1>8. LET k == <<"comp", "save", "ack">> IN Head(k) = "comp" /\ Tail(k) = <<"save", "ack">>
  OBVIOUS
<1>9. LET k == <<"comp", "save">> IN Head(k) = "comp" /\ Tail(k) = <<"save">>
  OBVIOUS
<1>10. \A k \in ErrorRests : k \in Seq(Labels) /\ k # << >> /\ Head(k) \in {"finish", "save"}
                             /\ <<"save", "comp">> \o k \in PlanRests
  BY <1>2, <1>3, Zenon DEF ErrorRests, PlanRests
<1>11. \A k \in PlanRests : Head(k) = "save" /\ k[2] = "comp" /\ Tail(k) \in LostRests
  BY <1>4, <1>5, <1>6, Zenon DEF PlanRests, LostRests
<1>12. \A k \in LostRests : Head(k) = "comp" /\ Tail(k) \in ErrorRests
  BY <1>7, <1>8, <1>9, Zenon DEF LostRests, ErrorRests
<1> QED BY <1>10, <1>11, <1>12

LEMMA ErrorRestsOK ==
  ASSUME NEW k \in ErrorRests
  PROVE  StackOK(k) /\ Head(k) # "comp"
<1>1. StackOK(<<"finish", "save">>) /\ StackOK(<<"save", "ack">>) /\ StackOK(<<"save">>)
  BY DEF StackOK, Has
<1> QED BY <1>1, ErrorHeads DEF ErrorRests

\* What an operation does next tells what it is.
LEMMA SagaKinds ==
  ASSUME IInv, CalmInv, SagaInv, NEW p \in Procs, NEW label, At(p, label)
  PROVE  /\ RecordOK(db, tasks, produced)
         /\ \/ FreshOp(proc[p], db, tasks, produced) /\ label \notin {"refetch", "dispatchError"}
            \/ ErringOp(proc[p], db) /\ label = "dispatchError"
            \/ LaggingOp(proc[p], db) /\ label \in {"finish", "save", "refetch"}
            \/ MergedOp(proc[p], db) /\ label \in {"save", "comp"}
<1> DEFINE r == proc[p]
<1>1. r.k \in Seq(Labels) /\ r.k # << >> /\ Head(r.k) = label
  BY AtLabel, Facts
<1>2. RecordOK(db, tasks, produced) /\ SagaOp(r, db, tasks, produced)
  BY CalmFacts DEF SagaInv
<1>3. FreshOp(r, db, tasks, produced) => label \notin {"refetch", "dispatchError"}
  BY <1>1, HasHead DEF FreshOp, StackOK
<1>4. ErringOp(r, db) => label = "dispatchError"
  BY <1>1 DEF ErringOp
<1>5. LaggingOp(r, db) => label \in {"finish", "save", "refetch"}
  BY <1>1, ErrorHeads DEF LaggingOp, LagStacks
<1>6. MergedOp(r, db) => label \in {"save", "comp"}
  BY <1>1, ErrorHeads DEF MergedOp
<1> QED BY <1>2, <1>3, <1>4, <1>5, <1>6 DEF SagaOp

\* What is known of an operation in progress that has met no error when it takes a step.
LEMMA SagaFacts ==
  ASSUME IInv, CalmInv, SagaInv, NEW p \in Procs, NEW label, At(p, label),
         label \in {"dispatch", "publish", "ready", "sleep", "ack"} \/ FreshOp(proc[p], db, tasks, produced)
  PROVE  /\ RecordOK(db, tasks, produced) /\ FreshOp(proc[p], db, tasks, produced)
         /\ RecordOK(proc[p].inst, tasks, produced) /\ proc[p].inst.version = db.version
         /\ StackOK(proc[p].k) /\ StackOK(Tail(proc[p].k))
         /\ label # "save" /\ Tail(proc[p].k) # << >> => Head(Tail(proc[p].k)) # "comp"
         /\ proc[p].todo # {} \/ label \in Moving => NoSagaYet(proc[p].inst) /\ NoSagaYet(db)
         /\ proc[p].todo \subseteq Actions
<1>1. proc[p].k \in Seq(Labels) /\ proc[p].k # << >> /\ Head(proc[p].k) = label
  BY AtLabel, Facts
<1>2. RecordOK(db, tasks, produced) /\ FreshOp(proc[p], db, tasks, produced)
  BY SagaKinds
<1>3. StackOK(proc[p].k)
  BY <1>2 DEF FreshOp
<1>4. /\ StackOK(Tail(proc[p].k))
      /\ label # "save" /\ Tail(proc[p].k) # << >> => Head(Tail(proc[p].k)) # "comp"
  BY <1>1, <1>3, StackTail
<1>5. label \in Moving => Has(proc[p].k, Moving)
  BY <1>1, HasHead
<1> QED BY <1>2, <1>3, <1>4, <1>5 DEF FreshOp

\* A step of an operation that dispatches, before there is a saga.
LEMMA SagaDispatch ==
  ASSUME IInv, CalmInv, SagaInv, NEW p \in Procs, NEW label \in Moving, At(p, label), NEW q,
         Continue(p, q), UNCHANGED <<db, tasks, produced>>, StackOK(q.k), Head(q.k) # "comp" \/ q.k = << >>,
         q.inst.saga = proc[p].inst.saga, q.inst.version = proc[p].inst.version,
         Ordered(q.inst), q.todo \subseteq Actions,
         label \in {"dispatch", "publish", "ready", "sleep", "ack"} \/ FreshOp(proc[p], db, tasks, produced)
  PROVE  SagaInv'
<1>1. /\ RecordOK(proc[p].inst, tasks, produced) /\ NoSagaYet(proc[p].inst) /\ NoSagaYet(db)
      /\ proc[p].inst.version = db.version
  BY SagaFacts
<1>2. RecordOK(q.inst, tasks, produced) /\ NoSagaYet(q.inst)
  BY <1>1, RecordMoves
<1>3. q.k # << >> => FreshOp(q, db, tasks, produced)
  BY <1>1, <1>2 DEF FreshOp
<1> QED BY <1>3, SagaLocal DEF SagaOp

-----------------------------------------------------------------------------
(* Dispatching keeps the saga invariant. *)

\* The node that is dispatched next is moved on.
LEMMA DispatchOrdered ==
  ASSUME IInv, CalmInv, SagaInv, NEW p \in Procs, At(p, "dispatch"), proc[p].todo # {},
         NEW ns \in NodeStates, ns.st \in {"Queued", "WaitingApproval"}
  PROVE  LET n == FirstDefined(proc[p].todo)
             new == SetNode(proc[p].inst, n, ns)
         IN /\ Ordered(new) /\ new.saga = proc[p].inst.saga /\ new.version = proc[p].inst.version
<1> DEFINE r == proc[p]
           n == FirstDefined(r.todo)
           new == SetNode(r.inst, n, ns)
<1>1. n \in Nodes /\ n \in r.todo /\ r.inst \in Instances
  BY Facts, FirstDefinedIn
<1>2. Status(r.inst, n) \notin NodeTerminal /\ Turn(r.inst, n) /\ n \in Actions
  BY <1>1, CalmFacts, SagaFacts
<1>3. Ordered(r.inst)
  BY SagaFacts DEF RecordOK
<1> HIDE DEF n
<1>4. /\ new.saga = r.inst.saga /\ new.version = r.inst.version
      /\ \A m \in Nodes : new.nodes[m] = IF m = n THEN ns ELSE r.inst.nodes[m]
  BY <1>1, SetNodeFields
<1> HIDE DEF new
<1>5. Status(new, n) # "Pending" /\ \A m \in Nodes : m # n => new.nodes[m] = r.inst.nodes[m]
  BY <1>1, <1>4 DEF Status
<1>6. Ordered(new)
  BY <1>1, <1>2, <1>3, <1>5, OrderedMove DEF Turn
<1> QED BY <1>4, <1>6 DEF new, n

LEMMA SagaGate == ASSUME IInv, CalmInv, SagaInv, NEW p \in Procs, Gate(p) PROVE SagaInv'
<1> DEFINE r == proc[p]
           n == FirstDefined(r.todo)
           ns == WaitingNode(r.inst.nodes[n])
           new == SetNode(r.inst, n, ns)
           q == [r EXCEPT !.todo = @ \ {n},
                          !.inst = SetNode(@, n, WaitingNode(@.nodes[n]))]
<1>1. /\ At(p, "dispatch") /\ r.todo # {} /\ Continue(p, q) /\ UNCHANGED <<db, tasks, produced>>
  BY DEF Gate, bus
<1>2. q.inst = new /\ q.k = r.k /\ q.todo = r.todo \ {n}
  BY Facts DEF Operations
<1>3. ns \in NodeStates /\ ns.st = "WaitingApproval"
  BY <1>1, Facts, FirstDefinedIn, InstanceFields, NodeUpdates
<1> HIDE DEF ns
<1>4. Ordered(new) /\ new.saga = r.inst.saga /\ new.version = r.inst.version
  BY <1>1, <1>3, DispatchOrdered
<1> HIDE DEF q, new
<1>5. StackOK(r.k) /\ Head(r.k) # "comp" /\ r.todo \subseteq Actions /\ "dispatch" \in Moving
  BY <1>1, SagaFacts, AtLabel DEF Moving
<1> QED BY <1>1, <1>2, <1>4, <1>5, SagaDispatch

LEMMA SagaQueueNode == ASSUME IInv, CalmInv, SagaInv, NEW p \in Procs, QueueNode(p) PROVE SagaInv'
<1> DEFINE r == proc[p]
           n == FirstDefined(r.todo)
           ns == QueuedNode(r.inst.nodes[n])
           new == SetNode(r.inst, n, ns)
           q == [r EXCEPT !.k = <<"save", "publish">> \o @,
                          !.inst = SetNode(@, n, QueuedNode(@.nodes[n])),
                          !.att = QueuedNode(r.inst.nodes[n]).att]
<1>1. /\ At(p, "dispatch") /\ r.todo # {} /\ Continue(p, q) /\ UNCHANGED <<db, tasks, produced>>
  BY DEF QueueNode, bus
<1>2. q.inst = new /\ q.k = <<"save", "publish">> \o r.k /\ q.todo = r.todo
  BY Facts DEF Operations
<1>3. ns \in NodeStates /\ ns.st = "Queued"
  BY <1>1, Facts, FirstDefinedIn, InstanceFields, NodeUpdates
<1> HIDE DEF ns
<1>4. Ordered(new) /\ new.saga = r.inst.saga /\ new.version = r.inst.version
  BY <1>1, <1>3, DispatchOrdered
<1> HIDE DEF q, new
<1>5. /\ StackOK(r.k) /\ r.todo \subseteq Actions /\ "dispatch" \in Moving
      /\ r.k \in Seq(Labels) /\ r.k # << >> /\ Head(r.k) = "dispatch"
  BY <1>1, SagaFacts, AtLabel, Facts DEF Moving
<1>6. ~Has(r.k, {"comp"})
  <2>1. Has(r.k, Moving)
    BY <1>5, HasHead
  <2> QED BY <1>5, <2>1, CompTail DEF StackOK
<1>7. "save" \in Labels /\ "publish" \in Labels
  BY DEF Labels
<1>8. StackOK(q.k)
  <2>1. ~Has(q.k, {"comp"}) /\ ~Has(q.k, {"refetch", "dispatchError"})
    BY <1>2, <1>5, <1>6, <1>7, SilentPush DEF StackOK
  <2> QED BY <2>1 DEF StackOK
<1>9. Head(q.k) # "comp"
  <2>1. <<"save", "publish">> \in Seq(Labels) /\ Len(<<"save", "publish">>) = 2
    BY <1>7
  <2>2. (<<"save", "publish">> \o r.k)[1] = "save"
    BY <1>5, <2>1, ConcatProperties
  <2> QED BY <1>2, <2>2
<1> QED BY <1>1, <1>2, <1>4, <1>5, <1>8, <1>9, SagaDispatch

LEMMA SagaDispatchDone == ASSUME IInv, CalmInv, SagaInv, NEW p \in Procs, DispatchDone(p) PROVE SagaInv'
<1> DEFINE r == proc[p]
           q == Pop(r)
<1>1. At(p, "dispatch") /\ Continue(p, q) /\ UNCHANGED <<db, tasks, produced>>
  BY DEF DispatchDone, bus
<1>2. q.inst = r.inst /\ q.k = Tail(r.k) /\ q.todo = r.todo
  BY <1>1, Facts, AtLabel DEF Operations, Pop
<1> HIDE DEF q
<1>3. /\ Head(q.k) # "comp" \/ q.k = << >>
      /\ r.todo \subseteq Actions /\ "dispatch" \in Moving
  BY <1>1, <1>2, SagaFacts DEF Moving
<1>4. Ordered(r.inst)
  BY <1>1, SagaFacts DEF RecordOK
<1>5. StackOK(q.k)
  BY <1>1, <1>2, SagaFacts
<1> QED BY <1>1, <1>2, <1>3, <1>4, <1>5, SagaDispatch

LEMMA SagaFindReady == ASSUME IInv, CalmInv, SagaInv, NEW p \in Procs, FindReady(p) PROVE SagaInv'
<1> DEFINE r == proc[p]
           inst == CascadeSkips(r.inst)
           q == [Pop(r) EXCEPT !.inst = inst, !.todo = ReadyNodes(inst)]
<1>1. /\ At(p, "ready") /\ UNCHANGED <<db, tasks, produced>>
      /\ Continue(p, q) \/ Continue(p, Abort(q))
  BY DEF FindReady, bus
<1>2. /\ r \in Operations /\ r.k \in Seq(Labels) /\ r.k # << >> /\ Tail(r.k) \in Seq(Labels)
      /\ inst \in Instances /\ ReadyNodes(inst) \in SUBSET Nodes /\ ReadyNodes(inst) \subseteq Actions
  BY <1>1, Facts, AtLabel, CascadeOnward, ReadyNodesIn, ReadyActions
<1>3. inst.version = r.inst.version /\ inst.saga = r.inst.saga
  BY Facts, CascadeEnds
<1>4. Ordered(inst)
  BY <1>1, Facts, SagaFacts, OrderedCascade DEF RecordOK
<1> HIDE DEF inst
<1>5. q.inst = inst /\ q.k = Tail(r.k) /\ q.todo = ReadyNodes(inst) /\ q \in Operations
  BY <1>2 DEF Operations, Pop
<1> HIDE DEF q
<1>6. StackOK(q.k) /\ (Head(q.k) # "comp" \/ q.k = << >>) /\ "ready" \in Moving
  <2>1. StackOK(Tail(r.k)) /\ (Head(Tail(r.k)) # "comp" \/ Tail(r.k) = << >>)
    BY <1>1, SagaFacts
  <2> QED BY <1>5, <2>1 DEF Moving
<1>7. CASE Continue(p, q)
  BY <1>1, <1>2, <1>3, <1>4, <1>5, <1>6, <1>7, SagaDispatch
<1>8. CASE Continue(p, Abort(q))
  <2>1. Abort(q).k = << >>
    BY <1>5, AbortEnds
  <2> QED BY <1>1, <1>8, <2>1, SagaLocal
<1> QED BY <1>1, <1>7, <1>8

LEMMA SagaFinish == ASSUME IInv, CalmInv, SagaInv, NEW p \in Procs, Finish(p) PROVE SagaInv'
<1> DEFINE r == proc[p]
           inst == Finished(r)
           q == [Pop(r) EXCEPT !.inst = inst]
<1>1. At(p, "finish") /\ UNCHANGED <<db, tasks, produced>> /\ Continue(p, q)
  BY DEF Finish, bus
<1>2. /\ r \in Operations /\ r.k \in Seq(Labels) /\ r.k # << >> /\ Tail(r.k) \in Seq(Labels)
      /\ r.inst \in Instances
  BY <1>1, Facts, AtLabel
<1>3. q.inst = inst /\ q.k = Tail(r.k) /\ q.todo = r.todo
  BY <1>2 DEF Operations, Pop
<1>4. inst.nodes = r.inst.nodes /\ inst.saga = r.inst.saga /\ inst.version = r.inst.version
  BY <1>2 DEF Finished, Instances
<1> HIDE DEF inst, q
<1>5. \A n \in Nodes : Status(inst, n) = Status(r.inst, n)
  BY <1>4 DEF Status
<1>6. CASE FreshOp(r, db, tasks, produced)
  <2>1. Ordered(inst)
    BY <1>1, <1>5, <1>6, SagaFacts, SameStatuses DEF RecordOK
  <2>2. /\ StackOK(q.k) /\ (Head(q.k) # "comp" \/ q.k = << >>) /\ "finish" \in Moving
        /\ r.todo \subseteq Actions
    BY <1>1, <1>3, <1>6, SagaFacts DEF Moving
  <2> QED BY <1>1, <1>3, <1>4, <1>6, <2>1, <2>2, SagaDispatch
<1>7. CASE LaggingOp(r, db)
  <2>1. Ordered(inst) /\ NeedsMerge(inst, db)
    BY <1>5, <1>7, SameStatuses DEF LaggingOp, NeedsMerge
  <2>2. q.k = <<"save">> /\ <<"save">> \in LagStacks
    <3>1. Head(r.k) = "finish"
      BY <1>1 DEF At
    <3>2. r.k = <<"finish", "save">>
      BY <1>7, <3>1, ErrorHeads DEF LaggingOp, LagStacks, ErrorRests
    <3> QED BY <1>3, <3>2 DEF LagStacks, ErrorRests
  <2>3. LaggingOp(q, db)
    BY <1>3, <1>4, <1>7, <2>1, <2>2 DEF LaggingOp
  <2> QED BY <1>1, <2>3, SagaLocal DEF SagaOp
<1> QED BY <1>1, <1>6, <1>7, SagaKinds

\* An operation that goes on with the same copy, whatever the bus took.
LEMMA SagaOn ==
  ASSUME IInv, CalmInv, SagaInv, NEW p \in Procs, NEW label, At(p, label), label # "save",
         NEW q, Continue(p, q), db' = db, produced' = produced,
         q.inst = proc[p].inst, q.k = Tail(proc[p].k), q.todo \subseteq proc[p].todo,
         RecordOK(db, tasks', produced), RecordOK(proc[p].inst, tasks', produced),
         label \in {"dispatch", "publish", "ready", "sleep", "ack"} \/ FreshOp(proc[p], db, tasks, produced)
  PROVE  SagaInv'
<1>1. /\ FreshOp(proc[p], db, tasks, produced) /\ StackOK(q.k)
      /\ q.k # << >> => Head(q.k) # "comp"
  BY SagaFacts
<1>2. Has(q.k, Moving) => Has(proc[p].k, Moving)
  BY HasTail, Facts, AtLabel
<1>3. q.k # << >> => FreshOp(q, db', tasks', produced')
  BY <1>1, <1>2 DEF FreshOp
<1>4. \A o \in Procs \ {p} : ~Active(o)
  BY CalmFacts
<1>5. proc \in [Procs -> Operations] /\ RecordOK(db', tasks', produced')
  BY DEF IInv, TypeOK
<1> QED BY <1>3, <1>4, <1>5, SagaStep DEF SagaOp

LEMMA SagaPublish == ASSUME IInv, CalmInv, SagaInv, NEW p \in Procs, Publish(p) PROVE SagaInv'
<1> DEFINE r == proc[p]
           n == FirstDefined(r.todo)
           t == [node |-> n, att |-> r.att, undo |-> FALSE]
           q == [Pop(r) EXCEPT !.todo = @ \ {n}]
           erring == [r EXCEPT !.k = <<"dispatchError">>]
<1>1. /\ At(p, "publish") /\ db' = db /\ produced' = produced
      /\ \/ tasks' = tasks \cup {t} /\ Continue(p, q)
         \/ tasks' = tasks /\ Continue(p, erring)
  BY DEF Publish
<1>2. /\ q.inst = r.inst /\ q.k = Tail(r.k) /\ q.todo = r.todo \ {n}
      /\ erring.inst = r.inst /\ erring.k = <<"dispatchError">> /\ erring.todo = r.todo
  BY <1>1, Facts, AtLabel DEF Operations, Pop
<1> HIDE DEF q, erring
<1>3. /\ RecordOK(db, tasks, produced) /\ RecordOK(r.inst, tasks, produced)
      /\ NoSagaYet(r.inst) /\ NoSagaYet(db) /\ r.inst.version = db.version
  BY <1>1, SagaFacts DEF Moving
<1>4. CASE tasks' = tasks \cup {t} /\ Continue(p, q)
  <2>1. \A x \in tasks' : x.undo => x \in tasks
    BY <1>4
  <2>2. RecordOK(db, tasks', produced) /\ RecordOK(r.inst, tasks', produced)
    BY <1>3, <2>1, RecordGrows
  <2> QED BY <1>1, <1>2, <1>4, <2>2, SagaOn
<1>5. CASE tasks' = tasks /\ Continue(p, erring)
  <2>1. Status(r.inst, n) = "Queued"
    <3>1. Alone(r, db, produced) /\ Has(r.k, {"publish"})
      BY <1>1, CalmFacts, AtLabel, Facts, HasHead DEF CalmInv
    <3> QED BY <3>1 DEF Alone
  <2>2. r.inst.version \in Nat
    BY Facts, InstanceFields
  <2>3. ErringOp(erring, db)
    BY <1>2, <1>3, <2>1, <2>2 DEF ErringOp, Waits, RecordOK
  <2> QED BY <1>1, <1>5, <2>3, SagaLocal DEF SagaOp
<1> QED BY <1>1, <1>4, <1>5

LEMMA SagaSleep == ASSUME IInv, CalmInv, SagaInv, NEW p \in Procs, Sleep(p) PROVE SagaInv'
<1>1. At(p, "sleep") /\ Continue(p, Pop(proc[p])) /\ UNCHANGED <<db, tasks, produced>>
  BY DEF Sleep, bus
<1>2. /\ Pop(proc[p]).k = Tail(proc[p].k) /\ Pop(proc[p]).inst = proc[p].inst
      /\ Pop(proc[p]).todo = proc[p].todo
  BY <1>1, Facts, AtLabel DEF Operations, Pop
<1> QED BY <1>1, <1>2, SagaFacts, SagaOn

LEMMA SagaAck == ASSUME IInv, CalmInv, SagaInv, NEW p \in Procs, Ack(p) PROVE SagaInv'
<1>1. At(p, "ack") /\ Continue(p, Pop(proc[p])) /\ UNCHANGED <<db, tasks, produced>>
  BY DEF Ack
<1>2. /\ Pop(proc[p]).k = Tail(proc[p].k) /\ Pop(proc[p]).inst = proc[p].inst
      /\ Pop(proc[p]).todo = proc[p].todo
  BY <1>1, Facts, AtLabel DEF Operations, Pop
<1> QED BY <1>1, <1>2, SagaFacts, SagaOn

LEMMA SagaSave == ASSUME IInv, CalmInv, SagaInv, NEW p \in Procs, Save(p) PROVE SagaInv'
<1> DEFINE r == proc[p]
           q == [Pop(r) EXCEPT !.inst = Bumped(@), !.try = 0]
<1>1. /\ At(p, "save") /\ Continue(p, q) /\ db' = Bumped(r.inst) /\ tasks' = tasks /\ produced' = produced
  BY DEF Save, bus
<1>2. /\ r \in Operations /\ r.k \in Seq(Labels) /\ r.k # << >> /\ Tail(r.k) \in Seq(Labels)
      /\ r.inst \in Instances
  BY <1>1, Facts, AtLabel
<1>3. q.inst = db' /\ q.k = Tail(r.k) /\ q.todo = r.todo
  BY <1>1, <1>2 DEF Operations, Pop
<1>4. db'.nodes = r.inst.nodes /\ db'.status = r.inst.status /\ db'.saga = r.inst.saga
  BY <1>1, <1>2, BumpedFields
<1> HIDE DEF q
<1>5. proc \in [Procs -> Operations] /\ \A o \in Procs \ {p} : ~Active(o)
  BY <1>1, CalmFacts DEF IInv, TypeOK
<1>6. CASE FreshOp(r, db, tasks, produced)
  <2>1. RecordOK(r.inst, tasks, produced) /\ StackOK(q.k)
    BY <1>1, <1>3, <1>6, SagaFacts
  <2>2. RecordOK(db', tasks', produced') /\ (NoSagaYet(r.inst) => NoSagaYet(db'))
    BY <1>1, <1>4, <2>1, RecordSame DEF is_terminal, NoSagaYet
  <2>3. Has(q.k, Moving) => Has(r.k, Moving)
    BY <1>2, <1>3, HasTail
  <2>4. FreshOp(q, db', tasks', produced')
    BY <1>3, <1>6, <2>1, <2>2, <2>3 DEF FreshOp
  <2> QED BY <1>1, <1>5, <2>2, <2>4, SagaStep DEF SagaOp
<1>7. CASE MergedOp(r, db)
  <2>1. Ordered(db')
    BY <1>4, <1>7, SameStatuses DEF MergedOp, Status
  <2>2. RecordOK(db', tasks', produced') /\ NoSagaYet(db')
    BY <1>1, <1>4, <1>7, <2>1, SagaKinds, RecordMoves DEF MergedOp
  <2>3. Head(r.k) = "save"
    BY <1>1 DEF At
  <2>4. q.k \in LostRests
    BY <1>3, <1>7, <2>3, ErrorHeads DEF MergedOp
  <2>5. MergedOp(q, db')
    BY <1>3, <1>7, <2>1, <2>2, <2>4 DEF MergedOp
  <2> QED BY <1>1, <1>5, <2>2, <2>5, SagaStep DEF SagaOp
<1>8. ~LaggingOp(r, db)
  <2>1. db.version = r.inst.version /\ r.inst.version \in Nat
    BY <1>2, InstanceFields DEF Save, SaveWins
  <2> QED BY <2>1 DEF LaggingOp
<1> QED BY <1>1, <1>6, <1>7, <1>8, SagaKinds

-----------------------------------------------------------------------------
(* Compensations are sent, and end. *)

\* A plan of which all is done, or of which a compensation failed, ends.
LEMMA SagaEnds ==
  ASSUME NEW inst \in Instances, NEW ts, NEW answers, RecordOK(inst, ts, answers), inst.saga.on,
         AllCompensated(inst.saga) \/ \E m \in answers : m.undo /\ ~m.ok
  PROVE  LET new == EndCompensation(inst)
         IN RecordOK(new, ts, answers) /\ new.version = inst.version
<1> DEFINE new == EndCompensation(inst)
<1>1. /\ new.nodes = inst.nodes /\ new.version = inst.version /\ new.status = "Failed"
      /\ ~new.saga.on /\ new.saga.plan = inst.saga.plan /\ new.saga.done = inst.saga.done
  BY DEF EndCompensation, Instances, Sagas
<1> HIDE DEF new
<1>2. \A n \in Nodes : Status(new, n) = Status(inst, n)
  BY <1>1 DEF Status
<1>3. /\ Ordered(inst) => Ordered(new)
      /\ \A n \in Nodes : Waits(new, n) <=> Waits(inst, n)
      /\ CompensationPlan(new) = CompensationPlan(inst)
  BY <1>2, SameStatuses
<1>4. is_terminal(new) /\ ~NoSagaYet(inst)
  BY <1>1 DEF is_terminal, InstanceTerminal, NoSagaYet
<1>5. SagaOK(new, answers)
  BY <1>1, <1>3, <1>4 DEF RecordOK, SagaOK, AllCompensated
<1>6. UndoOK(new, ts, answers)
  BY <1>1 DEF RecordOK, UndoOK
<1> QED BY <1>1, <1>3, <1>5, <1>6 DEF RecordOK, new

\* The compensation sent next has everything that ran after it confirmed.
LEMMA NextUndone ==
  ASSUME NEW inst \in Instances, NEW answers, SagaOK(inst, answers), PendingCompensations(inst) # {},
         NEW n \in inst.saga.plan, Pos(n) > Pos(NextCompensation(inst))
  PROVE  UndoneIn(n, answers)
<1> DEFINE S == PendingCompensations(inst)
<1>1. S \in SUBSET Nodes /\ n \in Nodes
  BY InstanceFields DEF PendingCompensations
<1>2. /\ NextCompensation(inst) \in S
      /\ \A m \in S : Pos(m) <= Pos(NextCompensation(inst))
  BY <1>1, LastExecutedIn DEF NextCompensation, Pos
<1>3. n \notin S
  BY <1>1, <1>2, PosFacts
<1> QED BY <1>3 DEF PendingCompensations, SagaOK

LEMMA SagaCompensateNext ==
  ASSUME IInv, CalmInv, SagaInv, NEW p \in Procs, Compensate(p), FreshOp(proc[p], db, tasks, produced)
  PROVE  SagaInv'
<1> DEFINE r == proc[p]
           over == r.inst.saga.on /\ PendingCompensations(r.inst) = {}
           ended == [Pop(r) EXCEPT !.inst = EndCompensation(@)]
           new == EndCompensation(r.inst)
           undo == [node |-> NextCompensation(r.inst), att |-> 1, undo |-> TRUE]
<1>1. /\ At(p, "comp") /\ Continue(p, IF over THEN ended ELSE Pop(r)) /\ db' = db /\ produced' = produced
      /\ tasks' = tasks \/ (PendingCompensations(r.inst) # {} /\ ~over /\ tasks' = tasks \cup {undo})
  BY DEF Compensate
<1>2. /\ r \in Operations /\ r.k \in Seq(Labels) /\ r.k # << >> /\ Tail(r.k) \in Seq(Labels)
      /\ r.inst \in Instances /\ Head(r.k) = "comp"
  BY <1>1, Facts, AtLabel
<1>3. Pop(r).k = Tail(r.k) /\ Pop(r).inst = r.inst /\ Pop(r).todo = r.todo
  BY <1>2 DEF Operations, Pop
<1>4. /\ FreshOp(r, db, tasks, produced) /\ RecordOK(r.inst, tasks, produced) /\ RecordOK(db, tasks, produced)
      /\ StackOK(Tail(r.k)) /\ (Tail(r.k) # << >> => Head(Tail(r.k)) # "comp")
  BY <1>1, SagaFacts
<1>5. CASE ~over
  <2>1. r.inst.saga = db.saga
    BY <1>2, <1>4 DEF FreshOp
  <2>2. UndoOK(r.inst, tasks', produced)
    <3>1. CASE tasks' = tasks
      BY <1>4, <3>1 DEF RecordOK
    <3>2. CASE PendingCompensations(r.inst) # {} /\ tasks' = tasks \cup {undo}
      <4>1. NextCompensation(r.inst) \in r.inst.saga.plan
        <5>1. PendingCompensations(r.inst) \in SUBSET Nodes
          BY <1>2, InstanceFields DEF PendingCompensations
        <5>2. NextCompensation(r.inst) \in PendingCompensations(r.inst)
          BY <3>2, <5>1, LastExecutedIn DEF NextCompensation
        <5> QED BY <5>2 DEF PendingCompensations
      <4>2. \A n \in r.inst.saga.plan : Pos(n) > Pos(NextCompensation(r.inst)) => UndoneIn(n, produced)
        BY <1>2, <1>4, <3>2, NextUndone DEF RecordOK
      <4>3. undo.node = NextCompensation(r.inst)
        OBVIOUS
      <4>4. UndoOK(r.inst, tasks, produced)
        BY <1>4 DEF RecordOK
      <4> HIDE DEF undo
      <4> QED BY <3>2, <4>1, <4>2, <4>3, <4>4 DEF UndoOK
    <3> QED BY <1>1, <3>1, <3>2
  <2>3. RecordOK(r.inst, tasks', produced)
    BY <1>4, <2>2 DEF RecordOK
  <2>4. RecordOK(db, tasks', produced)
    BY <1>4, <2>1, <2>2 DEF RecordOK, UndoOK
  <2> QED BY <1>1, <1>3, <1>5, <2>3, <2>4, SagaOn
<1>6. CASE over
  <2>1. ended.k = Tail(r.k) /\ ended.inst = new /\ ended.todo = r.todo
    BY <1>2 DEF Operations, Pop
  <2>2. AllCompensated(r.inst.saga)
    BY <1>4, <1>6 DEF RecordOK, SagaOK, PendingCompensations, AllCompensated
  <2>3. RecordOK(new, tasks, produced) /\ new.version = r.inst.version
    BY <1>2, <1>4, <1>6, <2>2, SagaEnds
  <2> HIDE DEF ended, new
  <2>4. r.todo = {} /\ ~Has(r.k, Moving)
    BY <1>4, <1>6 DEF FreshOp, NoSagaYet
  <2>5. ~Has(ended.k, Moving)
    BY <1>2, <2>1, <2>4, HasTail
  <2>6. ended.k # << >> => FreshOp(ended, db, tasks, produced)
    BY <1>4, <2>1, <2>3, <2>4, <2>5 DEF FreshOp
  <2>7. UNCHANGED <<db, tasks, produced>>
    BY <1>1, <1>6
  <2> QED BY <1>1, <1>6, <2>6, <2>7, SagaLocal DEF SagaOp
<1> QED BY <1>5, <1>6

\* Without a plan nothing is sent.
LEMMA SagaCompensateLost ==
  ASSUME IInv, CalmInv, SagaInv, NEW p \in Procs, Compensate(p), MergedOp(proc[p], db)
  PROVE  SagaInv'
<1> DEFINE r == proc[p]
<1>1. NoSagaYet(db) /\ r.inst.saga = db.saga /\ r.todo = {} /\ Ordered(r.inst)
  BY DEF MergedOp
<1>2. At(p, "comp") /\ Continue(p, Pop(r)) /\ UNCHANGED <<db, tasks, produced>>
  BY <1>1 DEF Compensate, NoSagaYet
<1>3. Pop(r).k = Tail(r.k) /\ Pop(r).inst = r.inst /\ Pop(r).todo = r.todo
  BY <1>2, Facts, AtLabel DEF Operations, Pop
<1>4. Tail(r.k) \in ErrorRests
  <2>1. Head(r.k) = "comp"
    BY <1>2 DEF At
  <2> QED BY <2>1, ErrorHeads DEF MergedOp
<1>5. StackOK(Tail(r.k)) /\ Head(Tail(r.k)) # "comp"
  BY <1>4, ErrorRestsOK
<1>6. RecordOK(r.inst, tasks, produced) /\ NoSagaYet(r.inst)
  BY <1>1, <1>2, SagaKinds, RecordMoves
<1>7. FreshOp(Pop(r), db, tasks, produced)
  BY <1>1, <1>3, <1>5, <1>6 DEF FreshOp, MergedOp
<1> QED BY <1>2, <1>7, SagaLocal DEF SagaOp

LEMMA SagaCompensate == ASSUME IInv, CalmInv, SagaInv, NEW p \in Procs, Compensate(p) PROVE SagaInv'
<1>1. At(p, "comp")
  BY DEF Compensate
<1> QED BY <1>1, SagaKinds, SagaCompensateNext, SagaCompensateLost

-----------------------------------------------------------------------------
(* Operations that begin keep the saga invariant. *)

LEMMA SagaBegin ==
  ASSUME IInv, SagaInv, ~RacingStart, CanLock, NEW op, NEW inst, NEW todo, NEW k, NEW msg,
         Begin(op, inst, todo, k, msg), UNCHANGED <<db, tasks, produced>>,
         inst.version = db.version, RecordOK(inst, tasks, produced), StackOK(k), todo \subseteq Actions,
         todo # {} \/ Has(k, Moving) => NoSagaYet(inst) /\ NoSagaYet(db), Head(k) = "comp" => inst = db
  PROVE  SagaInv'
<1> DEFINE q == [op |-> op, k |-> k, inst |-> inst, todo |-> todo,
                 att |-> 1, try |-> 0, msg |-> msg]
<1>1. q.k = k /\ q.inst = inst /\ q.todo = todo /\ Continue("locked", q)
  BY DEF Begin
<1> HIDE DEF q
<1>2. FreshOp(q, db', tasks', produced')
  BY <1>1 DEF FreshOp
<1>3. RecordOK(db', tasks', produced')
  BY DEF SagaInv
<1>4. /\ proc \in [Procs -> Operations] /\ "locked" \in Procs
      /\ \A o \in Procs \ {"locked"} : ~Active(o)
  BY DEF IInv, TypeOK, Procs, CanLock, Idle, Active
<1> QED BY <1>1, <1>2, <1>3, <1>4, SagaStep DEF SagaOp

\* ... to save, to acknowledge or to compensate.
LEMMA SagaBeginEnd ==
  ASSUME IInv, SagaInv, ~RacingStart, CanLock, NEW op, NEW inst, NEW k \in EndStacks, NEW msg,
         Begin(op, inst, {}, k, msg), UNCHANGED <<db, tasks, produced>>,
         inst.version = db.version, RecordOK(inst, tasks, produced), k = <<"comp", "save">> => inst = db
  PROVE  SagaInv'
  BY SagaStacks, SagaBegin

\* ... or to go on, before there is a saga.
LEMMA SagaBeginGo ==
  ASSUME IInv, SagaInv, ~RacingStart, CanLock, NEW op, NEW inst, NEW todo, NEW k \in GoStacks, NEW msg,
         Begin(op, inst, todo, k, msg), UNCHANGED <<db, tasks, produced>>,
         inst.version = db.version, inst.saga = db.saga, NoSagaYet(db), Ordered(inst), todo \subseteq Actions
  PROVE  SagaInv'
<1>1. RecordOK(inst, tasks, produced) /\ NoSagaYet(inst)
  BY RecordMoves DEF SagaInv
<1> QED BY <1>1, SagaStacks, SagaBegin

LEMMA SagaStored ==
  ASSUME IInv, SagaInv
  PROVE  /\ db \in Instances /\ RecordOK(db, tasks, produced) /\ Ordered(db) /\ SagaOK(db, produced)
         /\ ~is_terminal(db) /\ ~db.saga.on => NoSagaYet(db)
         /\ \A n \in Nodes : Waits(db, n) => NoSagaYet(db) /\ n \in Actions
<1>1. db \in Instances /\ RecordOK(db, tasks, produced) /\ Ordered(db) /\ SagaOK(db, produced)
  BY DEF IInv, TypeOK, SagaInv, RecordOK
<1> QED BY <1>1, WaitsNoSaga DEF SagaOK, Ordered

\* A node of the stored record that runs or waits moves on.
LEMMA StoredMoves ==
  ASSUME IInv, SagaInv, NEW n \in Nodes, Waits(db, n), NEW st \in NodeStatus, st # "Pending"
  PROVE  LET new == SetStatus(db, n, st)
         IN /\ new \in Instances /\ new.version = db.version /\ new.saga = db.saga /\ Ordered(new)
            /\ NoSagaYet(db) /\ n \in Actions
<1> DEFINE new == SetStatus(db, n, st)
           ns == [db.nodes[n] EXCEPT !.st = st]
<1>1. db \in Instances /\ Ordered(db) /\ NoSagaYet(db) /\ n \in Actions
  BY SagaStored
<1>2. /\ new \in Instances /\ new.version = db.version /\ new.saga = db.saga /\ ns.st = st
      /\ \A m \in Nodes : new.nodes[m] = IF m = n THEN ns ELSE db.nodes[m]
  BY <1>1, SetStatusFields
<1> HIDE DEF new, ns
<1>3. Status(new, n) # "Pending" /\ \A m \in Nodes : m # n => new.nodes[m] = db.nodes[m]
  BY <1>2 DEF Status
<1>4. Status(db, n) \notin NodeTerminal /\ Status(db, n) # "Pending"
  BY DEF Waits, NodeTerminal
<1>5. Ordered(new)
  BY <1>1, <1>3, <1>4, OrderedMove
<1> QED BY <1>1, <1>2, <1>5 DEF new

LEMMA SagaCancel == ASSUME IInv, SagaInv, ~RacingStart, CancelInstance PROVE SagaInv'
<1> DEFINE inst == [db EXCEPT !.status = "Cancelled", !.nodes = CancelledNodes(db)]
<1>1. /\ CanLock /\ Begin("cancel", inst, {}, <<"save">>, NoMsg) /\ UNCHANGED <<db, tasks, produced>>
      /\ ~is_terminal(db)
  BY DEF CancelInstance, bus
<1>2. db \in Instances /\ RecordOK(db, tasks, produced)
  BY SagaStored
<1>3. /\ inst.nodes = CancelledNodes(db) /\ inst.status = "Cancelled" /\ inst.saga = db.saga
      /\ inst.version = db.version
  BY <1>2 DEF Instances
<1> HIDE DEF inst
<1>4. \A m \in Nodes : db.nodes[m] \in NodeStates /\ [db.nodes[m] EXCEPT !.st = "Cancelled"].st = "Cancelled"
  BY <1>2, InstanceFields DEF NodeStates
<1>5. \A m \in Nodes : /\ Status(inst, m) \in NodeTerminal
                       /\ Status(db, m) = "Completed" <=> Status(inst, m) = "Completed"
  BY <1>3, <1>4 DEF CancelledNodes, Status, NodeTerminal
<1>6. (\A m \in Nodes : ~Waits(inst, m)) /\ CompensationPlan(inst) = CompensationPlan(db)
  BY <1>5, WorkflowAssumption DEF Waits, NodeTerminal, CompensationPlan
<1>7. Ordered(inst)
  BY <1>5, <1>6, IncomingIn DEF Ordered
<1>8. is_terminal(inst) /\ (NoSagaYet(inst) <=> NoSagaYet(db))
  BY <1>3 DEF is_terminal, InstanceTerminal, NoSagaYet
<1>9. SagaOK(inst, produced) /\ UndoOK(inst, tasks, produced)
  BY <1>2, <1>3, <1>6, <1>8 DEF RecordOK, SagaOK, UndoOK
<1>10. RecordOK(inst, tasks, produced)
  BY <1>7, <1>9 DEF RecordOK
<1>11. <<"save">> \in EndStacks /\ <<"save">> # <<"comp", "save">>
  BY DEF EndStacks
<1> QED BY <1>1, <1>3, <1>10, <1>11, SagaBeginEnd

LEMMA SagaApprove == ASSUME IInv, SagaInv, ~RacingStart, ApproveNode PROVE SagaInv'
<1>1. PICK n \in Nodes :
        /\ Status(db, n) = "WaitingApproval"
        /\ Begin("approve", SetStatus(db, n, "Queued"), {n}, <<"dispatch", "save">>, NoMsg)
  BY DEF ApproveNode
<1>2. CanLock /\ UNCHANGED <<db, tasks, produced>>
  BY DEF ApproveNode, bus
<1> DEFINE inst == SetStatus(db, n, "Queued")
<1>3. Waits(db, n) /\ "Queued" \in NodeStatus
  BY <1>1 DEF Waits, NodeStatus
<1>4. /\ inst.version = db.version /\ inst.saga = db.saga /\ Ordered(inst) /\ NoSagaYet(db) /\ n \in Actions
  BY <1>3, StoredMoves
<1>5. Begin("approve", inst, {n}, <<"dispatch", "save">>, NoMsg)
  BY <1>1
<1> HIDE DEF inst
<1>6. <<"dispatch", "save">> \in GoStacks /\ {n} \subseteq Actions
  BY <1>4 DEF GoStacks
<1> QED BY <1>2, <1>4, <1>5, <1>6, SagaBeginGo

\* The stored instance fails or ends with a node that ran or waited.
LEMMA StoredFailsEarly ==
  ASSUME IInv, SagaInv, NEW inst \in Instances, inst.saga = db.saga, Ordered(inst), NoSagaYet(db)
  PROVE  LET new == [inst EXCEPT !.status = "Failed"]
         IN RecordOK(new, tasks, produced) /\ new.version = inst.version
<1> DEFINE new == [inst EXCEPT !.status = "Failed"]
<1>1. new.nodes = inst.nodes /\ new.saga = inst.saga /\ new.version = inst.version
  BY DEF Instances
<1> HIDE DEF new
<1>2. Ordered(new)
  BY <1>1, SameStatuses DEF Status
<1> QED BY <1>1, <1>2, SagaStored, RecordMoves DEF new

LEMMA SagaReject == ASSUME IInv, SagaInv, ~RacingStart, RejectNode PROVE SagaInv'
<1>1. PICK n \in Nodes :
        /\ Status(db, n) = "WaitingApproval"
        /\ Begin("reject", [SetStatus(db, n, "Failed") EXCEPT !.status = "Failed"], {}, <<"save">>, NoMsg)
  BY DEF RejectNode
<1>2. CanLock /\ UNCHANGED <<db, tasks, produced>>
  BY DEF RejectNode, bus
<1> DEFINE failed == SetStatus(db, n, "Failed")
           inst == [failed EXCEPT !.status = "Failed"]
<1>3. Waits(db, n) /\ "Failed" \in NodeStatus
  BY <1>1 DEF Waits, NodeStatus
<1>4. /\ failed \in Instances /\ failed.version = db.version /\ failed.saga = db.saga
      /\ Ordered(failed) /\ NoSagaYet(db)
  BY <1>3, StoredMoves
<1>5. Begin("reject", inst, {}, <<"save">>, NoMsg)
  BY <1>1
<1> HIDE DEF failed
<1>6. RecordOK(inst, tasks, produced) /\ inst.version = db.version
  BY <1>4, StoredFailsEarly
<1> HIDE DEF inst
<1>7. <<"save">> \in EndStacks /\ <<"save">> # <<"comp", "save">>
  BY DEF EndStacks
<1> QED BY <1>2, <1>5, <1>6, <1>7, SagaBeginEnd

\* A confirmed compensation is counted.
LEMMA SagaCounts ==
  ASSUME NEW inst \in Instances, NEW ts, NEW answers, RecordOK(inst, ts, answers),
         NEW n \in inst.saga.plan, UndoneIn(n, answers), inst.saga.on
  PROVE  LET new == [inst EXCEPT !.saga.done = @ \cup {n}]
         IN RecordOK(new, ts, answers) /\ new.version = inst.version /\ new \in Instances /\ new.saga.on
<1> DEFINE new == [inst EXCEPT !.saga.done = @ \cup {n}]
<1>1. n \in Nodes
  BY InstanceFields
<1>2. /\ new.nodes = inst.nodes /\ new.version = inst.version /\ new.status = inst.status
      /\ new.saga.on = inst.saga.on /\ new.saga.plan = inst.saga.plan
      /\ new.saga.done = inst.saga.done \cup {n} /\ new \in Instances
  BY <1>1 DEF Instances, Sagas
<1> HIDE DEF new
<1>3. \A x \in Nodes : Status(new, x) = Status(inst, x)
  BY <1>2 DEF Status
<1>4. /\ Ordered(inst) => Ordered(new)
      /\ \A x \in Nodes : Waits(new, x) <=> Waits(inst, x)
      /\ CompensationPlan(new) = CompensationPlan(inst)
  BY <1>3, SameStatuses
<1>5. ~NoSagaYet(inst)
  BY DEF NoSagaYet
<1>6. SagaOK(new, answers)
  BY <1>2, <1>4, <1>5 DEF RecordOK, SagaOK
<1>7. UndoOK(new, ts, answers)
  BY <1>2 DEF RecordOK, UndoOK
<1> QED BY <1>2, <1>4, <1>6, <1>7 DEF RecordOK, new

LEMMA SagaCompensationResult ==
  ASSUME IInv, SagaInv, ~RacingStart, CanLock, NEW m \in results, UNCHANGED <<db, tasks, produced>>,
         CompensationResult(m) \/ LateResult(m)
  PROVE  SagaInv'
<1> DEFINE counted == [db EXCEPT !.saga.done = @ \cup {m.node}]
<1>1. \/ Begin("result", db, {}, <<"ack">>, m)
      \/ /\ db.saga.on /\ m.undo /\ ~m.ok
         /\ Begin("result", EndCompensation(db), {}, <<"save", "ack">>, m)
      \/ /\ db.saga.on /\ m.undo /\ m.ok /\ m.node \in db.saga.plan /\ AllCompensated(counted.saga)
         /\ Begin("result", EndCompensation(counted), {}, <<"save", "ack">>, m)
      \/ /\ db.saga.on /\ m.undo /\ m.ok /\ m.node \in db.saga.plan
         /\ Begin("result", counted, {}, <<"save", "comp", "ack">>, m)
  BY DEF CompensationResult, LateResult, IsCompensationResult
<1>2. db \in Instances /\ RecordOK(db, tasks, produced) /\ m \in produced
  BY SagaStored DEF IInv
<1>3. {<<"ack">>, <<"save", "ack">>, <<"save", "comp", "ack">>} \subseteq EndStacks
  BY DEF EndStacks
<1>4. /\ <<"ack">> # <<"comp", "save">> /\ <<"save", "ack">> # <<"comp", "save">>
      /\ <<"save", "comp", "ack">> # <<"comp", "save">>
  OBVIOUS
<1>5. ASSUME db.saga.on, m.undo, m.ok, m.node \in db.saga.plan
      PROVE  /\ RecordOK(counted, tasks, produced) /\ counted.version = db.version
             /\ counted \in Instances /\ counted.saga.on
  BY <1>2, <1>5, SagaCounts DEF UndoneIn
<1> HIDE DEF counted
<1>6. CASE Begin("result", db, {}, <<"ack">>, m)
  BY <1>2, <1>3, <1>4, <1>6, SagaBeginEnd
<1>7. CASE /\ db.saga.on /\ m.undo /\ ~m.ok
           /\ Begin("result", EndCompensation(db), {}, <<"save", "ack">>, m)
  <2>1. RecordOK(EndCompensation(db), tasks, produced) /\ EndCompensation(db).version = db.version
    BY <1>2, <1>7, SagaEnds
  <2> QED BY <1>3, <1>4, <1>7, <2>1, SagaBeginEnd
<1>8. CASE /\ db.saga.on /\ m.undo /\ m.ok /\ m.node \in db.saga.plan /\ AllCompensated(counted.saga)
           /\ Begin("result", EndCompensation(counted), {}, <<"save", "ack">>, m)
  <2>1. RecordOK(EndCompensation(counted), tasks, produced) /\ EndCompensation(counted).version = db.version
    BY <1>5, <1>8, SagaEnds
  <2> QED BY <1>3, <1>4, <1>8, <2>1, SagaBeginEnd
<1>9. CASE /\ db.saga.on /\ m.undo /\ m.ok /\ m.node \in db.saga.plan
           /\ Begin("result", counted, {}, <<"save", "comp", "ack">>, m)
  BY <1>3, <1>4, <1>5, <1>9, SagaBeginEnd
<1> QED BY <1>1, <1>6, <1>7, <1>8, <1>9

LEMMA SagaErrorResult ==
  ASSUME OneAtATime, IInv, SagaInv, ~RacingStart, CanLock, NEW m \in results,
         UNCHANGED <<db, tasks, produced>>, ErrorResult(m)
  PROVE  SagaInv'
<1> DEFINE ns == [st |-> "Queued", att |-> m.att + 1, started |-> FALSE]
           retried == SetNode(db, m.node, ns)
           failed == SetStatus(db, m.node, "Failed")
           ended == [failed EXCEPT !.status = "Failed"]
           begun == BeginCompensation(failed)
<1>1. /\ m.node \in Nodes /\ m.att \in Nat /\ Waits(db, m.node) /\ "Failed" \in NodeStatus
  BY DEF IInv, TypeOK, Results, ErrorResult, ResultExpected, Waits, NodeStatus
<1>2. \/ Begin("result", retried, {}, <<"save", "sleep">>, m)
      \/ Begin("result", begun, {}, <<"save", "comp", "ack">>, m)
      \/ Begin("result", ended, {}, <<"save", "ack">>, m)
  BY DEF ErrorResult
<1>3. /\ db \in Instances /\ RecordOK(db, tasks, produced) /\ Ordered(db)
      /\ NoSagaYet(db) /\ m.node \in Actions
  BY <1>1, SagaStored
<1>4. ns \in NodeStates /\ ns.st = "Queued"
  BY <1>1 DEF NodeStates, NodeStatus
<1>5. /\ failed \in Instances /\ failed.version = db.version /\ failed.saga = db.saga /\ Ordered(failed)
  BY <1>1, StoredMoves
<1>6. RecordOK(begun, tasks, produced)
  BY <1>1, <1>3, SagaBegins
<1> HIDE DEF failed, ns
<1>7. begun.version = db.version
  BY <1>5 DEF BeginCompensation, Instances
<1>8. RecordOK(ended, tasks, produced) /\ ended.version = db.version
  BY <1>3, <1>5, StoredFailsEarly
<1>9. /\ retried.version = db.version /\ retried.saga = db.saga
      /\ \A n \in Nodes : retried.nodes[n] = IF n = m.node THEN ns ELSE db.nodes[n]
  BY <1>1, <1>3, <1>4, SetNodeFields
<1> HIDE DEF retried, ended, begun
<1>10. Ordered(retried)
  <2>1. Status(retried, m.node) = "Queued" /\ \A n \in Nodes : n # m.node => retried.nodes[n] = db.nodes[n]
    BY <1>1, <1>4, <1>9 DEF Status
  <2>2. Status(db, m.node) \notin NodeTerminal /\ Status(db, m.node) # "Pending"
    BY <1>1 DEF Waits, NodeTerminal
  <2> QED BY <1>1, <1>3, <2>1, <2>2, OrderedMove
<1>11. /\ <<"save", "sleep">> \in GoStacks /\ {} \subseteq Actions
       /\ {<<"save", "ack">>, <<"save", "comp", "ack">>} \subseteq EndStacks
       /\ <<"save", "ack">> # <<"comp", "save">> /\ <<"save", "comp", "ack">> # <<"comp", "save">>
  BY DEF EndStacks, GoStacks
<1>12. CASE Begin("result", retried, {}, <<"save", "sleep">>, m)
  BY <1>3, <1>9, <1>10, <1>11, <1>12, SagaBeginGo
<1>13. CASE Begin("result", begun, {}, <<"save", "comp", "ack">>, m)
  BY <1>6, <1>7, <1>11, <1>13, SagaBeginEnd
<1>14. CASE Begin("result", ended, {}, <<"save", "ack">>, m)
  BY <1>8, <1>11, <1>14, SagaBeginEnd
<1> QED BY <1>2, <1>12, <1>13, <1>14

LEMMA SagaSuccessResult ==
  ASSUME IInv, SagaInv, ~RacingStart, CanLock, NEW m \in results, UNCHANGED <<db, tasks, produced>>,
         SuccessResult(m)
  PROVE  SagaInv'
<1> DEFINE completed == SetStatus(db, m.node, "Completed")
           answered == [completed EXCEPT !.outs[m.node] = m.out]
           inst == CascadeSkips(answered)
           over == [completed EXCEPT !.status = "Failed"]
           k == <<"dispatch", "finish", "save", "ack">>
<1>1. /\ m.node \in Nodes /\ m.out \in Outputs \cup {"none"} /\ Waits(db, m.node)
      /\ "Completed" \in NodeStatus
  BY DEF IInv, TypeOK, Results, SuccessResult, ResultExpected, NodeStatus, Waits
<1>2. \/ Begin("result", inst, ReadyNodes(inst), k, m)
      \/ Begin("result", over, {}, <<"save", "ack">>, m)
  BY DEF SuccessResult
<1>3. /\ completed \in Instances /\ completed.version = db.version /\ completed.saga = db.saga
      /\ Ordered(completed) /\ NoSagaYet(db)
  BY <1>1, StoredMoves
<1> HIDE DEF completed
<1>4. /\ answered \in Instances /\ answered.nodes = completed.nodes /\ answered.saga = completed.saga
      /\ answered.version = completed.version
  BY <1>1, <1>3 DEF Instances
<1>5. RecordOK(over, tasks, produced) /\ over.version = db.version
  BY <1>3, StoredFailsEarly
<1> HIDE DEF answered, over
<1>6. Ordered(answered)
  BY <1>3, <1>4, SameStatuses DEF Status
<1>7. inst.version = answered.version /\ inst.saga = answered.saga /\ Ordered(inst)
  BY <1>4, <1>6, CascadeEnds, OrderedCascade
<1> HIDE DEF inst
<1>8. /\ k \in GoStacks /\ <<"save", "ack">> \in EndStacks /\ <<"save", "ack">> # <<"comp", "save">>
      /\ ReadyNodes(inst) \subseteq Actions
  BY ReadyActions DEF EndStacks, GoStacks
<1> HIDE DEF k
<1>9. CASE Begin("result", inst, ReadyNodes(inst), k, m)
  BY <1>3, <1>4, <1>7, <1>8, <1>9, SagaBeginGo
<1>10. CASE Begin("result", over, {}, <<"save", "ack">>, m)
  BY <1>5, <1>8, <1>10, SagaBeginEnd
<1> QED BY <1>2, <1>9, <1>10

LEMMA SagaHandleResult ==
  ASSUME OneAtATime, IInv, SagaInv, ~RacingStart, HandleResult PROVE SagaInv'
<1>1. PICK m \in results : \/ CompensationResult(m) \/ LateResult(m)
                           \/ ErrorResult(m) \/ SuccessResult(m)
  BY DEF HandleResult
<1>2. CanLock /\ UNCHANGED <<db, tasks, produced>>
  BY DEF HandleResult, bus
<1> QED BY <1>1, <1>2, SagaCompensationResult, SagaErrorResult, SagaSuccessResult

LEMMA SagaRetryDispatch == ASSUME IInv, SagaInv, ~RacingStart, RetryDispatch PROVE SagaInv'
<1>1. PICK m \in sleeping :
        \/ Status(db, m.node) = "Queued" /\ Begin("retry", db, {m.node}, <<"dispatch", "ack">>, m)
        \/ Begin("retry", db, {}, <<"ack">>, m)
  BY DEF RetryDispatch
<1>2. CanLock /\ UNCHANGED <<db, tasks, produced>>
  BY DEF RetryDispatch, bus
<1>3. m.node \in Nodes
  BY DEF IInv, TypeOK, Results
<1>4. RecordOK(db, tasks, produced) /\ Ordered(db)
  BY SagaStored
<1>5. <<"dispatch", "ack">> \in GoStacks /\ <<"ack">> \in EndStacks /\ <<"ack">> # <<"comp", "save">>
  BY DEF EndStacks, GoStacks
<1>6. CASE Status(db, m.node) = "Queued" /\ Begin("retry", db, {m.node}, <<"dispatch", "ack">>, m)
  <2>1. NoSagaYet(db) /\ {m.node} \subseteq Actions
    BY <1>3, <1>6, SagaStored DEF Waits
  <2> QED BY <1>2, <1>4, <1>5, <1>6, <2>1, SagaBeginGo
<1>7. CASE Begin("retry", db, {}, <<"ack">>, m)
  BY <1>2, <1>4, <1>5, <1>7, SagaBeginEnd
<1> QED BY <1>1, <1>6, <1>7

-----------------------------------------------------------------------------
(* Start, crash, recovery and the workers keep the saga invariant. *)

LEMMA NewRecord ==
  ASSUME NEW inst, NEW ts, NEW answers, inst.saga = NoSaga, Ordered(inst), \A t \in ts : ~t.undo
  PROVE  RecordOK(inst, ts, answers) /\ NoSagaYet(inst)
<1>1. NoSagaYet(inst) /\ inst.saga.done = {} /\ inst.saga.plan = {}
  BY DEF NoSagaYet, NoSaga
<1> QED BY <1>1 DEF RecordOK, SagaOK, UndoOK

LEMMA SagaStartWorkflow == ASSUME IInv, CalmInv, SagaInv, StartWorkflow PROVE SagaInv'
<1> DEFINE inst(fired) == CompleteAtStart(NewInstance, fired)
           k(fired) == IF fired = {} THEN <<"dispatch", "finish", "save">>
                       ELSE <<"dispatch", "ready", "dispatch", "finish", "save">>
           r(fired) == [Idle EXCEPT !.op = "start", !.inst = inst(fired),
                                    !.todo = EntryActions, !.k = k(fired)]
<1>1. PICK fired \in SUBSET Triggers : Continue("start", r(fired))
  BY DEF StartWorkflow
<1>2. StackOK(k(fired)) /\ Head(k(fired)) # "comp"
  BY SagaStacks
<1>3. /\ NewInstance \in Instances /\ NewInstance.saga = NoSaga
      /\ NewInstance.version = 1 /\ \A n \in Nodes : Status(NewInstance, n) = "Pending"
  BY NewInstanceOK DEF NewInstance, Status
<1>4. /\ inst(fired).saga = NoSaga /\ inst(fired).version = 1
      /\ \A n \in Nodes : n \notin Capabilities \cup fired => inst(fired).nodes[n] = NewInstance.nodes[n]
      /\ \A n \in Capabilities \cup fired : n \in Nodes => Status(inst(fired), n) = "Completed"
  <2>1. \A n \in Nodes : NewInstance.nodes[n] \in NodeStates
    BY <1>3, InstanceFields
  <2>2. \A n \in Nodes : [NewInstance.nodes[n] EXCEPT !.st = "Completed", !.started = TRUE].st = "Completed"
    BY <2>1 DEF NodeStates
  <2> QED BY <1>3, <2>2 DEF CompleteAtStart, Instances, Status
<1>5. Idle \in Operations
  BY IdleOK DEF GoodOp
<1> HIDE DEF inst, k
<1>6. r(fired).k = k(fired) /\ r(fired).inst = inst(fired) /\ r(fired).todo = EntryActions
  BY <1>5 DEF Operations
<1> HIDE DEF r
<1>7. db' = NewInstance /\ ~Exists /\ tasks' = tasks /\ tasks = {}
  BY DEF StartWorkflow, bus, CalmInv
<1>8. \A n \in Nodes : \/ n \in Capabilities \cup fired /\ Status(inst(fired), n) = "Completed"
                       \/ Status(inst(fired), n) = "Pending"
  BY <1>3, <1>4 DEF Status
<1>9. \A n \in Capabilities \cup fired : Incoming(n) = {}
  BY WorkflowAssumption DEF Incoming
<1>10. Ordered(inst(fired)) /\ Ordered(NewInstance)
  BY <1>3, <1>8, <1>9 DEF Ordered, Waits
<1>11. /\ RecordOK(inst(fired), tasks', produced') /\ NoSagaYet(inst(fired))
       /\ RecordOK(db', tasks', produced') /\ NoSagaYet(db')
  BY <1>3, <1>4, <1>7, <1>10, NewRecord
<1>12. EntryActions \subseteq Actions
  BY DEF EntryActions, Actions
<1>13. FreshOp(r(fired), db', tasks', produced')
  BY <1>2, <1>3, <1>4, <1>6, <1>7, <1>11, <1>12 DEF FreshOp
<1>14. /\ \A o \in Procs : ~Active(o)
       /\ proc \in [Procs -> Operations] /\ "start" \in Procs
  BY <1>7 DEF CalmInv, Procs, IInv, TypeOK
<1> QED BY <1>1, <1>11, <1>13, <1>14, SagaStep DEF SagaOp

LEMMA SagaStartAborts == ASSUME CalmInv, StartAborts PROVE SagaInv'
<1>1. db' = NewInstance /\ ~Exists /\ proc' = proc /\ tasks' = tasks /\ tasks = {}
  BY DEF StartAborts, bus, CalmInv
<1>2. \A o \in Procs : ~Active(o)'
  BY <1>1 DEF CalmInv, Procs, Active
<1>3. NewInstance.saga = NoSaga /\ \A n \in Nodes : Status(NewInstance, n) = "Pending"
  BY DEF NewInstance, Status
<1>4. Ordered(NewInstance)
  BY <1>3 DEF Ordered, Waits
<1>5. RecordOK(db', tasks', produced')
  BY <1>1, <1>3, <1>4, NewRecord
<1> QED BY <1>2, <1>5 DEF SagaInv

LEMMA SagaCrash == ASSUME SagaInv, Crash PROVE SagaInv'
<1>1. proc' = [p \in Procs |-> Idle] /\ UNCHANGED <<db, tasks, produced>>
  BY DEF Crash, bus
<1>2. \A o \in Procs : ~Active(o)'
  BY <1>1 DEF Active, Idle
<1>3. RecordOK(db', tasks', produced')
  BY <1>1 DEF SagaInv
<1> QED BY <1>2, <1>3 DEF SagaInv

\* Answers come in, and tasks go.
LEMMA SagaGrows ==
  ASSUME SagaInv, db' = db, proc' = proc, tasks' \subseteq tasks, produced \subseteq produced'
  PROVE  SagaInv'
<1>1. \A inst : RecordOK(inst, tasks, produced) => RecordOK(inst, tasks', produced')
  BY RecordGrows
<1>2. RecordOK(db', tasks', produced')
  BY <1>1 DEF SagaInv
<1>3. \A p \in Procs : Active(p)' => SagaOp(proc'[p], db', tasks', produced')
  <2> SUFFICES ASSUME NEW p \in Procs, Active(p)' PROVE SagaOp(proc'[p], db', tasks', produced')
    OBVIOUS
  <2>1. SagaOp(proc[p], db, tasks, produced)
    BY DEF SagaInv, Active
  <2>2. FreshOp(proc[p], db, tasks, produced) => FreshOp(proc[p], db, tasks', produced')
    BY <1>1 DEF FreshOp
  <2> QED BY <2>1, <2>2 DEF SagaOp
<1> QED BY <1>2, <1>3 DEF SagaInv

LEMMA SagaResume == ASSUME IInv, SagaInv, ~RacingStart, Resume PROVE SagaInv'
<1> DEFINE k == <<"save", "ready", "dispatch", "save">>
<1>1. /\ CanLock /\ UNCHANGED <<db, tasks, produced>>
      /\ \/ proc' = proc
         \/ Begin("resume", db, {}, <<"comp", "save">>, NoMsg)
         \/ ~is_terminal(db) /\ ~db.saga.on /\ Begin("resume", Reset(db), {}, k, NoMsg)
  BY DEF Resume, bus
<1>2. /\ db \in Instances /\ RecordOK(db, tasks, produced) /\ Ordered(db)
      /\ ~is_terminal(db) /\ ~db.saga.on => NoSagaYet(db)
  BY SagaStored
<1>3. k \in GoStacks /\ <<"comp", "save">> \in EndStacks /\ {} \subseteq Actions
  BY DEF EndStacks, GoStacks
<1>4. Reset(db).saga = db.saga /\ Reset(db).version = db.version
  BY <1>2 DEF Reset, Instances
<1>5. Ordered(Reset(db))
  BY <1>2, OrderedReset
<1> HIDE DEF k
<1>6. CASE proc' = proc
  BY <1>1, <1>6, SagaGrows
<1>7. CASE Begin("resume", db, {}, <<"comp", "save">>, NoMsg)
  BY <1>1, <1>2, <1>3, <1>7, SagaBeginEnd
<1>8. CASE ~is_terminal(db) /\ ~db.saga.on /\ Begin("resume", Reset(db), {}, k, NoMsg)
  BY <1>1, <1>2, <1>3, <1>4, <1>5, <1>8, SagaBeginGo
<1> QED BY <1>1, <1>6, <1>7, <1>8

LEMMA SagaInit == Init => SagaInv
<1> SUFFICES ASSUME Init PROVE SagaInv
  OBVIOUS
<1>1. db.saga = NoSaga /\ \A n \in Nodes : Status(db, n) = "Pending"
  BY DEF Init, NewInstance, Status
<1>2. Ordered(db) /\ tasks = {}
  BY <1>1 DEF Ordered, Waits, Init
<1>3. RecordOK(db, tasks, produced)
  BY <1>1, <1>2, NewRecord
<1>4. \A p \in Procs : ~Active(p)
  BY DEF Init, Active, Idle
<1> QED BY <1>3, <1>4 DEF SagaInv

-----------------------------------------------------------------------------
(* Errors keep the saga invariant: what they fail to store is lost. *)

LEMMA SagaDispatchFails == ASSUME IInv, CalmInv, SagaInv, NEW p \in Procs, DispatchFails(p) PROVE SagaInv'
<1> DEFINE r == proc[p]
           n == FirstDefined(r.todo)
           ns == IF Gated(r.inst, n) THEN WaitingNode(r.inst.nodes[n]) ELSE QueuedNode(r.inst.nodes[n])
           new == SetNode(r.inst, n, ns)
           q == [r EXCEPT !.k = <<"dispatchError">>,
                          !.inst = SetNode(@, n, IF Gated(@, n) THEN WaitingNode(@.nodes[n])
                                                 ELSE QueuedNode(@.nodes[n]))]
<1>1. At(p, "dispatch") /\ r.todo # {} /\ Continue(p, q) /\ UNCHANGED <<db, tasks, produced>>
  BY DEF DispatchFails, bus
<1>2. q.inst = new /\ q.k = <<"dispatchError">> /\ q.todo = r.todo
  BY Facts DEF Operations
<1>3. n \in Nodes /\ r.inst \in Instances
  BY <1>1, Facts, FirstDefinedIn
<1>4. ns \in NodeStates /\ ns.st \in {"Queued", "WaitingApproval"}
  BY <1>3, InstanceFields, NodeUpdates
<1> HIDE DEF ns
<1>5. Ordered(new) /\ new.saga = r.inst.saga /\ new.version = r.inst.version
  BY <1>1, <1>4, DispatchOrdered
<1>6. Waits(new, n)
  <2>1. new.nodes[n] = ns
    BY <1>3, <1>4, SetNodeFields
  <2> QED BY <1>4, <2>1 DEF Waits, Status
<1> HIDE DEF q, new
<1>7. NoSagaYet(r.inst) /\ NoSagaYet(db) /\ r.inst.version = db.version /\ r.inst.version \in Nat
  BY <1>1, <1>3, SagaFacts, InstanceFields
<1>8. ErringOp(q, db)
  BY <1>2, <1>5, <1>6, <1>7 DEF ErringOp, NoSagaYet
<1> QED BY <1>1, <1>8, SagaLocal DEF SagaOp

\* mark_node_dispatch_failed
LEMMA DispatchFailed ==
  ASSUME NEW inst \in Instances
  PROVE  LET failed == [inst EXCEPT !.status = "Failed", !.version = @ + 1]
         IN failed \in Instances /\ failed.nodes = inst.nodes /\ failed.version = inst.version + 1
<1>1. inst.version + 1 \in Nat
  BY InstanceFields
<1> QED BY <1>1 DEF Instances, InstanceStatus

\* The node is failed in the copy; the stored record still has it running.
LEMMA SagaDispatchError == ASSUME IInv, CalmInv, SagaInv, NEW p \in Procs, DispatchError(p) PROVE SagaInv'
<1> DEFINE r == proc[p]
           n == FirstDefined(r.todo)
           one == SetStatus(r.inst, n, "Failed")
           failed == [one EXCEPT !.status = "Failed", !.version = @ + 1]
           saga == HasCompensation(failed)
           inst == IF saga THEN BeginCompensation(failed) ELSE CascadeSkips(failed)
           rest == CASE r.op = "start" -> <<"finish", "save">>
                     [] r.op \in {"result", "retry"} -> <<"save", "ack">>
                     [] OTHER -> <<"save">>
           k == IF saga THEN <<"save", "comp">> \o rest ELSE rest
           q == [r EXCEPT !.todo = {}, !.inst = inst, !.k = k]
<1>1. At(p, "dispatchError") /\ Continue(p, q) /\ UNCHANGED <<db, tasks, produced>>
  BY DEF DispatchError, bus
<1>2. q.k = k /\ q.inst = inst /\ q.todo = {}
  BY Facts DEF Operations
<1> HIDE DEF q
<1>3. rest \in ErrorRests
  BY DEF ErrorRests
<1>4. k \in LagStacks
  <2> HIDE DEF rest
  <2> QED BY <1>3, ErrorHeads DEF LagStacks
<1> HIDE DEF k
<1>5. /\ ErringOp(r, db) /\ n \in Nodes /\ r.inst \in Instances /\ db \in Instances
      /\ Ahead(r.inst, db) /\ "Failed" \in NodeStatus
  BY <1>1, SagaKinds, CalmFacts, Facts, FirstDefinedIn DEF NodeStatus
<1>6. Waits(r.inst, n) /\ Ordered(r.inst) /\ NoSagaYet(db) /\ r.inst.version >= db.version
  BY <1>5 DEF ErringOp
<1> HIDE DEF n
<1>7. Status(db, n) \notin NodeTerminal
  BY <1>5, <1>6 DEF Ahead, Follows, Waits, NodeTerminal
<1>8. /\ one \in Instances /\ one.version = r.inst.version /\ Status(one, n) = "Failed" /\ Ordered(one)
  <2> DEFINE ns == [r.inst.nodes[n] EXCEPT !.st = "Failed"]
  <2>1. /\ one \in Instances /\ one.version = r.inst.version /\ ns.st = "Failed"
        /\ \A m \in Nodes : one.nodes[m] = IF m = n THEN ns ELSE r.inst.nodes[m]
    BY <1>5, SetStatusFields
  <2> HIDE DEF one, ns
  <2>2. Status(one, n) = "Failed" /\ \A m \in Nodes : m # n => one.nodes[m] = r.inst.nodes[m]
    BY <1>5, <2>1 DEF Status
  <2>3. Ordered(one)
    BY <1>5, <1>6, <2>2, OrderedMove DEF Waits, NodeTerminal
  <2> QED BY <2>1, <2>2, <2>3
<1> HIDE DEF one
<1>9. failed \in Instances /\ failed.nodes = one.nodes /\ failed.version = r.inst.version + 1
  BY <1>8, DispatchFailed
<1> HIDE DEF failed
<1>10. Status(failed, n) = "Failed" /\ Ordered(failed)
  BY <1>8, <1>9, SameStatuses DEF Status
<1>11. Ordered(inst) /\ Status(inst, n) = "Failed" /\ inst.version = r.inst.version + 1
  <2>1. CASE saga
    <3>1. inst.nodes = failed.nodes /\ inst.version = failed.version
      BY <1>9, <2>1 DEF BeginCompensation, Instances
    <3> HIDE DEF inst
    <3> QED BY <1>9, <1>10, <3>1, SameStatuses DEF Status
  <2>2. CASE ~saga
    <3>1. /\ CascadeSkips(failed).version = failed.version /\ SameEnds(CascadeSkips(failed), failed)
          /\ Ordered(CascadeSkips(failed))
      BY <1>9, <1>10, CascadeEnds, OrderedCascade
    <3> QED BY <1>5, <1>9, <1>10, <2>2, <3>1 DEF SameEnds
  <2> QED BY <2>1, <2>2
<1> HIDE DEF inst
<1>12. NeedsMerge(inst, db)
  BY <1>5, <1>7, <1>11 DEF NeedsMerge, NodeTerminal
<1>13. inst.version > db.version
  <2>1. r.inst.version \in Nat /\ db.version \in Nat
    BY <1>5, InstanceFields
  <2> QED BY <1>6, <1>11, <2>1
<1>14. LaggingOp(q, db)
  BY <1>2, <1>4, <1>6, <1>11, <1>12, <1>13 DEF LaggingOp
<1> QED BY <1>1, <1>14, SagaLocal DEF SagaOp

\* An operation that ends.
LEMMA SagaOver ==
  ASSUME IInv, CalmInv, SagaInv, NEW p \in Procs, NEW label, At(p, label), NEW q, Continue(p, q),
         q.k = << >>, UNCHANGED <<db, tasks, produced>>
  PROVE  SagaInv'
  BY SagaLocal

LEMMA SagaDispatchErrorLost ==
  ASSUME IInv, CalmInv, SagaInv, NEW p \in Procs, DispatchErrorLost(p) PROVE SagaInv'
<1>1. /\ At(p, "dispatchError") /\ Continue(p, Abort(proc[p])) /\ Abort(proc[p]).k = << >>
      /\ UNCHANGED <<db, tasks, produced>>
  BY Facts, AbortEnds DEF DispatchErrorLost, bus
<1> QED BY <1>1, SagaOver

LEMMA SagaSaveConflict == ASSUME IInv, CalmInv, SagaInv, NEW p \in Procs, SaveConflict(p) PROVE SagaInv'
<1> DEFINE r == proc[p]
           q == [r EXCEPT !.inst = Bumped(@), !.k = <<"refetch">> \o @]
<1>1. /\ At(p, "save") /\ Continue(p, q) /\ UNCHANGED <<db, tasks, produced>>
      /\ db.version # r.inst.version
  BY DEF SaveConflict, SaveWins, bus
<1>2. /\ r.k \in Seq(Labels) /\ r.k # << >> /\ r.inst \in Instances /\ db \in Instances
      /\ Head(r.k) = "save"
  BY <1>1, Facts, AtLabel
<1>3. q.inst = Bumped(r.inst) /\ q.k = <<"refetch">> \o r.k /\ q.todo = r.todo
  BY Facts DEF Operations
<1> HIDE DEF q
<1>4. q.inst.nodes = r.inst.nodes /\ q.inst.version = r.inst.version + 1 /\ r.inst.version \in Nat
  BY <1>2, <1>3, BumpedFields
<1>5. LaggingOp(r, db)
  BY <1>1, SagaKinds DEF FreshOp, MergedOp
<1>6. r.k \in LagStacks
  BY <1>2, <1>5 DEF LaggingOp
<1>7. Head(q.k) = "refetch" /\ Tail(q.k) = r.k
  <2>1. <<"refetch">> \in Seq(Labels) /\ Len(<<"refetch">>) = 1
    BY DEF Labels
  <2>2. (<<"refetch">> \o r.k)[1] = "refetch"
    BY <1>2, <2>1, ConcatProperties
  <2> QED BY <1>2, <1>3, <2>2, RefetchPush
<1>8. \A n \in Nodes : Status(q.inst, n) = Status(r.inst, n)
  BY <1>4 DEF Status
<1>9. Ordered(q.inst) /\ NeedsMerge(q.inst, db)
  BY <1>5, <1>8, SameStatuses DEF LaggingOp, NeedsMerge
<1>10. q.inst.version > db.version
  <2>1. r.inst.version > db.version /\ db.version \in Nat
    BY <1>2, <1>5, InstanceFields DEF LaggingOp
  <2> QED BY <1>4, <2>1
<1>11. LaggingOp(q, db)
  BY <1>3, <1>5, <1>6, <1>7, <1>9, <1>10 DEF LaggingOp
<1> QED BY <1>1, <1>11, SagaLocal DEF SagaOp

LEMMA SagaSaveError == ASSUME IInv, CalmInv, SagaInv, NEW p \in Procs, SaveError(p) PROVE SagaInv'
<1> DEFINE r == proc[p]
           q == [SaveFailed(r) EXCEPT !.inst = Bumped(@)]
<1>1. At(p, "save") /\ Continue(p, q) /\ UNCHANGED <<db, tasks, produced>>
  BY DEF SaveError, bus
<1>2. /\ r.k \in Seq(Labels) /\ r.k # << >> /\ r.inst \in Instances /\ r \in Operations
      /\ Alone(r, db, produced)
  BY <1>1, Facts DEF At, CalmInv, Active
<1>3. CASE Len(r.k) > 1 /\ r.k[2] = "publish"
  <2>1. q.k = <<"dispatchError">> /\ q.inst = Bumped(r.inst) /\ q.todo = r.todo
    BY <1>2, <1>3 DEF Operations, SaveFailed
  <2> HIDE DEF q
  <2>2. 2 \in DOMAIN r.k
    BY <1>2, <1>3, LenProperties
  <2>3. Has(r.k, {"publish"}) /\ Has(r.k, Moving) /\ Dispatching(r.k)
    BY <1>3, <2>2 DEF Has, Moving, Dispatching
  <2>4. Status(r.inst, FirstDefined(r.todo)) = "Queued" /\ r.inst.version = db.version
    BY <1>2, <2>3 DEF Alone
  <2>5. q.inst.nodes = r.inst.nodes /\ q.inst.saga = r.inst.saga
        /\ q.inst.version = r.inst.version + 1 /\ r.inst.version \in Nat
    BY <1>2, <2>1, BumpedFields
  <2>6. FreshOp(r, db, tasks, produced)
    <3>1. ~LaggingOp(r, db)
      BY <2>4, <2>5 DEF LaggingOp
    <3>2. ~MergedOp(r, db)
      BY <1>1, <1>3, ErrorHeads DEF MergedOp, At
    <3> QED BY <1>1, <3>1, <3>2, SagaKinds
  <2>7. NoSagaYet(r.inst) /\ NoSagaYet(db) /\ Ordered(r.inst)
    BY <2>3, <2>6 DEF FreshOp, RecordOK
  <2>8. NoSagaYet(q.inst) /\ Ordered(q.inst) /\ Waits(q.inst, FirstDefined(q.todo))
    BY <2>1, <2>4, <2>5, <2>7, SameStatuses DEF NoSagaYet, Status, Waits
  <2>9. q.inst.version >= db.version
    BY <2>4, <2>5
  <2>10. ErringOp(q, db)
    BY <2>1, <2>7, <2>8, <2>9 DEF ErringOp
  <2> QED BY <1>1, <2>10, SagaLocal DEF SagaOp
<1>4. CASE ~(Len(r.k) > 1 /\ r.k[2] = "publish")
  <2>1. q.k = << >>
    BY <1>2, <1>4 DEF Operations, SaveFailed, Abort
  <2> QED BY <1>1, <2>1, SagaOver
<1> QED BY <1>3, <1>4

LEMMA OrderedMerge ==
  ASSUME NEW loc \in Instances, NEW fresh \in Instances, Ordered(loc), Ordered(fresh),
         Ahead(loc, fresh)
  PROVE  Ordered(Merge(loc, fresh))
<1> DEFINE new == Merge(loc, fresh)
           take(n) == \/ Status(loc, n) \in NodeTerminal /\ Status(fresh, n) \notin NodeTerminal
                      \/ Status(loc, n) = "Queued" /\ Status(fresh, n) = "Pending"
<1>1. \A n \in Nodes : new.nodes[n] = IF take(n) THEN loc.nodes[n] ELSE fresh.nodes[n]
  BY DEF Merge, Instances
<1> HIDE DEF new
<1>2. \A n \in Nodes : Status(new, n) = IF take(n) THEN Status(loc, n) ELSE Status(fresh, n)
  BY <1>1 DEF Status
<1>3. \A n \in Nodes : Status(fresh, n) \in NodeTerminal => Status(loc, n) = Status(fresh, n)
  BY AheadKeeps DEF Keeps
<1>4. \A n \in Nodes : Status(loc, n) \in NodeTerminal => Status(new, n) \in NodeTerminal
  BY <1>2
<1>5. ASSUME NEW n \in Nodes, Status(new, n) # "Pending", NEW e \in Incoming(n)
      PROVE  Status(new, e.src) \in NodeTerminal
  <2>1. Status(loc, e.src) \in NodeTerminal
    <3>1. CASE take(n)
      BY <1>2, <1>5, <3>1 DEF Ordered
    <3>2. CASE ~take(n)
      <4>1. Status(fresh, e.src) \in NodeTerminal
        BY <1>2, <1>5, <3>2 DEF Ordered
      <4> QED BY <1>3, <1>5, <4>1, IncomingIn
    <3> QED BY <3>1, <3>2
  <2> QED BY <1>4, <1>5, <2>1, IncomingIn
<1>6. \A n \in Nodes : Waits(new, n) => Waits(loc, n) \/ Waits(fresh, n)
  BY <1>2 DEF Waits
<1> QED BY <1>5, <1>6 DEF Ordered, new

LEMMA SagaRefetch == ASSUME IInv, CalmInv, SagaInv, NEW p \in Procs, Refetch(p) PROVE SagaInv'
<1> DEFINE r == proc[p]
           new == Merge(r.inst, db)
           q == [Pop(r) EXCEPT !.inst = Merge(@, db), !.try = @ + 1]
<1>1. At(p, "refetch")
  BY DEF Refetch
<1>2. /\ LaggingOp(r, db) /\ Head(r.k) = "refetch" /\ RecordOK(db, tasks, produced)
  BY <1>1, SagaKinds DEF At
<1>3. Continue(p, q) /\ UNCHANGED <<db, tasks, produced>>
  BY <1>2 DEF Refetch, bus, LaggingOp
<1>4. /\ r \in Operations /\ r.k \in Seq(Labels) /\ r.k # << >> /\ Tail(r.k) \in Seq(Labels)
      /\ r.inst \in Instances /\ db \in Instances /\ Ahead(r.inst, db)
  BY <1>1, Facts, AtLabel, CalmFacts
<1>5. q.k = Tail(r.k) /\ q.inst = new /\ q.todo = r.todo
  BY <1>4 DEF Operations, Pop
<1> HIDE DEF q
<1>6. new.saga = db.saga /\ new.version = db.version
  BY <1>4 DEF Merge, Instances
<1>7. Ordered(new)
  BY <1>2, <1>4, OrderedMerge DEF LaggingOp, RecordOK
<1> HIDE DEF new
<1>8. RecordOK(new, tasks, produced) /\ NoSagaYet(new) /\ NoSagaYet(db) /\ r.todo = {}
  BY <1>2, <1>6, <1>7, RecordMoves DEF LaggingOp
<1>9. Tail(r.k) \in LagStacks
  <2>1. r.k \notin LagStacks
    BY <1>2, ErrorHeads DEF LagStacks
  <2> QED BY <1>2, <2>1 DEF LaggingOp
<1>10. CASE Tail(r.k) \in ErrorRests
  <2>1. StackOK(Tail(r.k)) /\ Head(Tail(r.k)) # "comp"
    BY <1>10, ErrorRestsOK
  <2>2. FreshOp(q, db, tasks, produced)
    BY <1>5, <1>6, <1>8, <2>1 DEF FreshOp
  <2> QED BY <1>1, <1>3, <2>2, SagaLocal DEF SagaOp
<1>11. CASE Tail(r.k) \in PlanRests
  <2>1. MergedOp(q, db)
    BY <1>5, <1>6, <1>7, <1>8, <1>11 DEF MergedOp
  <2> QED BY <1>1, <1>3, <2>1, SagaLocal DEF SagaOp
<1> QED BY <1>9, <1>10, <1>11 DEF LagStacks

LEMMA SagaRefetchError == ASSUME IInv, CalmInv, SagaInv, NEW p \in Procs, RefetchError(p) PROVE SagaInv'
<1>1. At(p, "refetch") /\ Continue(p, SaveFailed(Pop(proc[p]))) /\ UNCHANGED <<db, tasks, produced>>
  BY DEF RefetchError, bus
<1> QED BY <1>1, RefetchEnds, SagaOver

LEMMA SagaGiveUp == ASSUME IInv, CalmInv, SagaInv, NEW p \in Procs, GiveUp(p) PROVE SagaInv'
<1> DEFINE failed == [db EXCEPT !.status = "Failed"]
<1>1. /\ At(p, "refetch") /\ Continue(p, SaveFailed(Pop(proc[p])))
      /\ tasks' = tasks /\ produced' = produced /\ db' \in {db, Bumped(failed)}
  BY DEF GiveUp, bus
<1>2. SaveFailed(Pop(proc[p])).k = << >>
  BY <1>1, RefetchEnds
<1>3. RecordOK(db, tasks, produced) /\ NoSagaYet(db) /\ \A o \in Procs \ {p} : ~Active(o)
  BY <1>1, SagaKinds, CalmFacts DEF LaggingOp
<1>4. failed \in Instances /\ failed.nodes = db.nodes /\ failed.saga = db.saga
  BY Facts DEF Instances, InstanceStatus
<1> HIDE DEF failed
<1>5. Bumped(failed).nodes = db.nodes /\ Bumped(failed).saga = db.saga
  BY <1>4, BumpedFields
<1>6. RecordOK(db', tasks', produced')
  <2>1. CASE db' = Bumped(failed)
    <3>1. Ordered(db')
      BY <1>3, <1>5, <2>1, SameStatuses DEF RecordOK, Status
    <3> QED BY <1>1, <1>3, <1>5, <2>1, <3>1, RecordMoves
  <2> QED BY <1>1, <1>3, <2>1
<1>7. proc \in [Procs -> Operations]
  BY DEF IInv, TypeOK
<1> QED BY <1>1, <1>2, <1>3, <1>6, <1>7, SagaStep

LEMMA SagaEngineStep ==
  ASSUME IInv, CalmInv, SagaInv, NEW p \in Procs, EngineStep(p) PROVE SagaInv'
  BY SagaGate, SagaQueueNode, SagaPublish, SagaDispatchDone, SagaFindReady, SagaFinish, SagaSave,
     SagaSleep, SagaAck, SagaCompensate, SagaDispatchFails, SagaDispatchError, SagaDispatchErrorLost,
     SagaSaveConflict, SagaSaveError, SagaRefetch, SagaRefetchError, SagaGiveUp DEF EngineStep

LEMMA SagaNext ==
  ASSUME ~RacingStart, OneAtATime, IInv, CalmInv, SagaInv, [Next]_vars
  PROVE  SagaInv'
<1>1. CASE UNCHANGED vars
  BY <1>1, SagaGrows DEF vars
<1>2. CASE ListRunning
  BY <1>2, SagaGrows DEF ListRunning, bus
<1>3. CASE Execute
  <2>1. db' = db /\ proc' = proc /\ tasks' \subseteq tasks /\ produced \subseteq produced'
    BY <1>3 DEF Execute
  <2> QED BY <2>1, SagaGrows
<1>4. CASE Next
  BY <1>2, <1>3, <1>4, SagaStartWorkflow, SagaStartAborts, SagaEngineStep, SagaHandleResult, SagaRetryDispatch,
     SagaCancel, SagaApprove, SagaReject, SagaCrash, SagaResume DEF Next
<1> QED BY <1>1, <1>4

LEMMA SagaInvAlways == ~RacingStart /\ OneAtATime /\ Spec => []SagaInv
<1> SUFFICES ASSUME ~RacingStart, OneAtATime PROVE Spec => []SagaInv
  OBVIOUS
<1>1. IInv /\ CalmInv /\ SagaInv /\ [Next]_vars => SagaInv'
  BY SagaNext
<1>2. Spec => []CalmInv
  BY CalmInvAlways
<1> QED BY <1>1, <1>2, SagaInit, IInvAlways, PTL DEF Spec

\* Compensations run last executed first: for every workflow whose actions run one at a
\* time, with any edges and conditions between them, and any number of crashes, duplicated
\* deliveries, retries, approvals, cancellations, exceeded budgets and errors of the store,
\* of the bus and of a dispatch, a compensation in flight is for a completed node of the
\* stored plan, and what the plan has behind it was confirmed by a worker.
THEOREM UndoInReverseOrderCalm ==
  ~RacingStart /\ OneAtATime /\ Spec => []UndoInReverseOrder
<1>1. SagaInv => UndoInReverseOrder
  <2> SUFFICES ASSUME SagaInv, NEW t \in tasks, t.undo
               PROVE  /\ t.node \in db.saga.plan /\ Status(db, t.node) = "Completed"
                      /\ \A n \in db.saga.plan :
                           Position(ExecutionOrder, n) > Position(ExecutionOrder, t.node) => Undone(n)
    BY DEF UndoInReverseOrder
  <2>1. SagaOK(db, produced) /\ UndoOK(db, tasks, produced)
    BY DEF SagaInv, RecordOK
  <2>2. /\ t.node \in db.saga.plan
        /\ \A n \in db.saga.plan : Pos(n) > Pos(t.node) => UndoneIn(n, produced)
    BY <2>1 DEF UndoOK
  <2>3. db.saga.plan = CompensationPlan(db)
    BY <2>1, <2>2 DEF SagaOK, NoSagaYet
  <2> QED BY <2>2, <2>3 DEF Pos, UndoneIn, Undone, CompensationPlan
<1> QED BY <1>1, SagaInvAlways, PTL

\* A rollback is complete: under the same conditions, a plan is all that had completed
\* and nothing completes beside it, so that when it ends without a failed compensation
\* every completed node that has a compensation was compensated.
THEOREM RollbackCompleteCalm ==
  ~RacingStart /\ OneAtATime /\ Spec => []RollbackComplete
<1>1. SagaInv => RollbackComplete
  <2> SUFFICES ASSUME SagaInv, db.saga.plan # {}, ~db.saga.on, ~UndoFailed,
                      NEW n \in Compensable, Status(db, n) = "Completed"
               PROVE  Undone(n)
    BY DEF RollbackComplete
  <2>1. SagaOK(db, produced) /\ ~NoSagaYet(db)
    BY DEF SagaInv, RecordOK, NoSagaYet
  <2>2. db.saga.done = db.saga.plan /\ db.saga.plan = CompensationPlan(db)
    BY <2>1 DEF SagaOK, UndoFailed
  <2>3. n \in db.saga.done
    BY <2>2 DEF CompensationPlan
  <2> QED BY <2>1, <2>3 DEF SagaOK, UndoneIn, Undone
<1> QED BY <1>1, SagaInvAlways, PTL

=============================================================================
