---------------------------- MODULE EngineProofs ----------------------------
(***************************************************************************)
(* For every workflow, every set of flaky nodes, every environment and any  *)
(* number of faults, with or without the race between start_workflow and    *)
(* the other operations: the engine's state is well formed, and a node that *)
(* the store calls completed rests on the answer of a worker to the very    *)
(* attempt the store names.                                                 *)
(***************************************************************************)
EXTENDS Engine, SequenceTheorems, WellFoundedInduction, TLAPS

\* OutcomeOfThisAttempt for any copy of the instance and any set of answers.
Rests(inst, answers) ==
  \A n \in Nodes \ (Triggers \cup Capabilities) :
    Status(inst, n) = "Completed" =>
      \E m \in answers : /\ m.node = n /\ ~m.undo /\ m.ok
                         /\ m.att = inst.nodes[n].att

\* In a stack k of things to do, with nodes todo and result msg: a task is published
\* for a node that is still to be dispatched, and the handler of a result goes to
\* sleep, right after a save; what a conflict interrupts is a save.
Place(k, todo, msg) ==
  \A i \in DOMAIN k :
    /\ k[i] = "publish" => todo # {}
    /\ k[i] = "sleep" => msg \in Results
    /\ k[i] \in {"publish", "sleep"} =>
         \A j \in DOMAIN k : j < i => k[j] \in {"save", "refetch"}
    /\ k[i] = "refetch" => i = 1 /\ 2 \in DOMAIN k

GoodOp(r, answers) ==
  r \in Operations /\ Rests(r.inst, answers) /\ Place(r.k, r.todo, r.msg)

\* The inductive invariant.  What the store says is only as good as the copies that
\* operations in progress are about to save, and the answers they act on.
IInv ==
  /\ TypeOK
  /\ Rests(db, produced)
  /\ \A p \in Procs : GoodOp(proc[p], produced)
  /\ results \subseteq produced

-----------------------------------------------------------------------------
(* Lemmas about instance records. *)

\* An update that completes no node, and renumbers no completed one, keeps Rests.
LEMMA RestsKept ==
  ASSUME NEW old, NEW new, NEW answers, Rests(old, answers),
         \A n \in Nodes : new.nodes[n].st = "Completed" =>
           old.nodes[n].st = "Completed" /\ new.nodes[n].att = old.nodes[n].att
  PROVE  Rests(new, answers)
  BY DEF Rests, Status

LEMMA RestsGrows ==
  ASSUME NEW inst, NEW fewer, NEW more, Rests(inst, fewer), fewer \subseteq more
  PROVE  Rests(inst, more)
  BY DEF Rests

LEMMA SetNodeOK ==
  ASSUME NEW inst \in Instances, NEW n \in Nodes, NEW ns \in NodeStates, NEW answers,
         Rests(inst, answers), ns.st # "Completed"
  PROVE  SetNode(inst, n, ns) \in Instances /\ Rests(SetNode(inst, n, ns), answers)
<1>1. SetNode(inst, n, ns) \in Instances
  BY DEF SetNode, Instances
<1>2. \A m \in Nodes : SetNode(inst, n, ns).nodes[m] = IF m = n THEN ns ELSE inst.nodes[m]
  BY DEF SetNode, Instances
<1> QED BY <1>1, <1>2, RestsKept

LEMMA SetStatusOK ==
  ASSUME NEW inst \in Instances, NEW n, NEW st \in NodeStatus \ {"Completed"}, NEW answers,
         Rests(inst, answers)
  PROVE  SetStatus(inst, n, st) \in Instances /\ Rests(SetStatus(inst, n, st), answers)
<1>0. \A m \in Nodes : inst.nodes[m] \in NodeStates
  BY DEF Instances
<1>1. SetStatus(inst, n, st).nodes =
        [m \in Nodes |-> IF m = n THEN [inst.nodes[m] EXCEPT !.st = st] ELSE inst.nodes[m]]
  BY DEF SetStatus, Instances
<1>2. \A m \in Nodes : [inst.nodes[m] EXCEPT !.st = st] \in NodeStates
  BY <1>0 DEF NodeStates
<1>3. SetStatus(inst, n, st).nodes \in [Nodes -> NodeStates]
  BY <1>0, <1>1, <1>2
<1>4. SetStatus(inst, n, st) \in Instances
  BY <1>3 DEF SetStatus, Instances
<1>5. \A m \in Nodes : SetStatus(inst, n, st).nodes[m].st = "Completed" =>
        inst.nodes[m].st = "Completed" /\ SetStatus(inst, n, st).nodes[m].att = inst.nodes[m].att
  BY <1>0, <1>1 DEF NodeStates
<1> QED BY <1>4, <1>5, RestsKept

\* Changing anything but the node states keeps Rests.
LEMMA RestsSameNodes ==
  ASSUME NEW old, NEW new, NEW answers, Rests(old, answers), new.nodes = old.nodes
  PROVE  Rests(new, answers)
  BY RestsKept

LEMMA CascadeOK ==
  ASSUME NEW inst \in Instances, NEW answers, Rests(inst, answers)
  PROVE  CascadeSkips(inst) \in Instances /\ Rests(CascadeSkips(inst), answers)
<1> DEFINE new == CascadeSkips(inst)
<1>0. \A m \in Nodes : inst.nodes[m] \in NodeStates
  BY DEF Instances
<1>1. new.nodes = [m \in Nodes |-> IF m \in Skipped(inst)
                                   THEN [inst.nodes[m] EXCEPT !.st = "Skipped"]
                                   ELSE inst.nodes[m]]
  BY DEF CascadeSkips, Instances
<1>2. \A m \in Nodes : [inst.nodes[m] EXCEPT !.st = "Skipped"] \in NodeStates
  BY <1>0 DEF NodeStates, NodeStatus
<1>3. new.nodes \in [Nodes -> NodeStates]
  BY <1>0, <1>1, <1>2
<1>4. new \in Instances
  BY <1>3 DEF CascadeSkips, Instances
<1>5. \A m \in Nodes : new.nodes[m].st = "Completed" =>
        inst.nodes[m].st = "Completed" /\ new.nodes[m].att = inst.nodes[m].att
  BY <1>0, <1>1 DEF NodeStates
<1> QED BY <1>4, <1>5, RestsKept

LEMMA NewInstanceOK ==
  ASSUME NEW answers
  PROVE  NewInstance \in Instances /\ Rests(NewInstance, answers)
  BY DEF NewInstance, Instances, NodeStates, NodeStatus, InstanceStatus, Sagas, NoSaga,
         Rests, Status

\* The result of replacing the status, the saga or the version.
LEMMA OtherFieldsOK ==
  ASSUME NEW inst \in Instances, NEW answers, Rests(inst, answers),
         NEW st \in InstanceStatus, NEW v \in Nat, NEW saga \in Sagas
  PROVE  LET new == [inst EXCEPT !.status = st, !.version = v, !.saga = saga]
         IN new \in Instances /\ Rests(new, answers)
<1> DEFINE new == [inst EXCEPT !.status = st, !.version = v, !.saga = saga]
<1>1. new \in Instances /\ new.nodes = inst.nodes
  BY DEF Instances
<1> QED BY <1>1, RestsSameNodes

LEMMA InstanceFields ==
  ASSUME NEW inst \in Instances
  PROVE  /\ inst.status \in InstanceStatus /\ inst.version \in Nat
         /\ inst.saga \in Sagas
         /\ inst.saga.plan \subseteq Nodes /\ inst.saga.done \subseteq Nodes
         /\ inst.nodes \in [Nodes -> NodeStates]
         /\ \A n \in Nodes : inst.nodes[n] \in NodeStates
         /\ inst.outs \in [Nodes -> Outputs \cup {"none"}]
  BY DEF Instances, Sagas

LEMMA BumpedOK ==
  ASSUME NEW inst \in Instances, NEW answers, Rests(inst, answers)
  PROVE  Bumped(inst) \in Instances /\ Rests(Bumped(inst), answers)
<1>1. Bumped(inst) \in Instances /\ Bumped(inst).nodes = inst.nodes
  BY InstanceFields DEF Bumped, Instances
<1> QED BY <1>1, RestsSameNodes

\* ... of setting the status alone ...
LEMMA StatusOK ==
  ASSUME NEW inst \in Instances, NEW answers, Rests(inst, answers),
         NEW st \in InstanceStatus
  PROVE  LET new == [inst EXCEPT !.status = st]
         IN new \in Instances /\ Rests(new, answers)
<1> DEFINE new == [inst EXCEPT !.status = st]
<1>1. new \in Instances /\ new.nodes = inst.nodes
  BY DEF Instances
<1> QED BY <1>1, RestsSameNodes

LEMMA CompensationOK ==
  ASSUME NEW inst \in Instances, NEW answers, Rests(inst, answers)
  PROVE  /\ BeginCompensation(inst) \in Instances /\ Rests(BeginCompensation(inst), answers)
         /\ EndCompensation(inst) \in Instances /\ Rests(EndCompensation(inst), answers)
<1>1. CompensationPlan(inst) \subseteq Nodes
  BY WorkflowAssumption DEF CompensationPlan
<1>2. BeginCompensation(inst) \in Instances /\ BeginCompensation(inst).nodes = inst.nodes
  BY <1>1 DEF BeginCompensation, Instances, Sagas, InstanceStatus
<1>3. [inst.saga EXCEPT !.on = FALSE] \in Sagas
  BY InstanceFields DEF Sagas
<1>4. EndCompensation(inst) \in Instances /\ EndCompensation(inst).nodes = inst.nodes
  BY <1>3 DEF EndCompensation, Instances, InstanceStatus
<1> QED BY <1>2, <1>4, RestsSameNodes

\* The node states that updates put in place.
LEMMA NodeUpdates ==
  ASSUME NEW ns \in NodeStates
  PROVE  /\ [ns EXCEPT !.st = "Completed", !.started = TRUE] \in NodeStates
         /\ [ns EXCEPT !.st = "Pending", !.att = ns.att + 1] \in NodeStates
         /\ [ns EXCEPT !.st = "Pending", !.att = ns.att + 1].st = "Pending"
         /\ WaitingNode(ns) \in NodeStates /\ WaitingNode(ns).st = "WaitingApproval"
         /\ QueuedNode(ns) \in NodeStates /\ QueuedNode(ns).st = "Queued"
         /\ QueuedNode(ns).att \in Nat \ {0}
<1>1. ns.st \in NodeStatus /\ ns.att \in Nat /\ ns.started \in BOOLEAN
  BY DEF NodeStates
<1>2. [ns EXCEPT !.st = "Completed", !.started = TRUE] \in NodeStates
  BY DEF NodeStates, NodeStatus
<1>3. /\ [ns EXCEPT !.st = "Pending", !.att = ns.att + 1] \in NodeStates
      /\ [ns EXCEPT !.st = "Pending", !.att = ns.att + 1].st = "Pending"
  <2>1. ns.att + 1 \in Nat
    BY <1>1
  <2>2. \A a \in Nat : /\ [ns EXCEPT !.st = "Pending", !.att = a] \in NodeStates
                       /\ [ns EXCEPT !.st = "Pending", !.att = a].st = "Pending"
    BY DEF NodeStates, NodeStatus
  <2> QED BY <2>1, <2>2
<1>4. WaitingNode(ns) \in NodeStates /\ WaitingNode(ns).st = "WaitingApproval"
  BY DEF NodeStates, NodeStatus, WaitingNode
<1>5. /\ QueuedNode(ns) \in NodeStates /\ QueuedNode(ns).st = "Queued"
      /\ QueuedNode(ns).att \in Nat \ {0}
  BY <1>1 DEF NodeStates, NodeStatus, QueuedNode
<1> QED BY <1>2, <1>3, <1>4, <1>5

\* A trigger or a capability is completed without an answer of a worker.
LEMMA CompleteAtStartOK ==
  ASSUME NEW inst \in Instances, NEW fired \in SUBSET Triggers, NEW answers,
         Rests(inst, answers)
  PROVE  /\ CompleteAtStart(inst, fired) \in Instances
         /\ Rests(CompleteAtStart(inst, fired), answers)
<1> DEFINE new == CompleteAtStart(inst, fired)
<1>1. \A m \in Nodes :
        [inst.nodes[m] EXCEPT !.st = "Completed", !.started = TRUE] \in NodeStates
  BY InstanceFields, NodeUpdates
<1>2. /\ new.nodes = [m \in Nodes |->
            IF m \in Capabilities \cup fired
            THEN [inst.nodes[m] EXCEPT !.st = "Completed", !.started = TRUE]
            ELSE inst.nodes[m]]
      /\ new.outs = [m \in Nodes |-> IF m \in Capabilities \cup fired
                                      THEN "yes" ELSE inst.outs[m]]
  BY DEF CompleteAtStart, Instances
<1>3. new.nodes \in [Nodes -> NodeStates]
  <2>1. \A m \in Nodes : inst.nodes[m] \in NodeStates
    BY InstanceFields
  <2> QED BY <1>1, <1>2, <2>1
<1>4. new.outs \in [Nodes -> Outputs \cup {"none"}]
  <2>1. \A m \in Nodes : inst.outs[m] \in Outputs \cup {"none"}
    BY InstanceFields
  <2>2. "yes" \in Outputs \cup {"none"}
    BY DEF Outputs
  <2> QED BY <1>2, <2>1, <2>2
<1>6. new \in Instances
  BY <1>3, <1>4 DEF CompleteAtStart, Instances
<1>5. \A m \in Nodes \ (Triggers \cup Capabilities) : new.nodes[m] = inst.nodes[m]
  BY <1>2
<1> QED BY <1>5, <1>6 DEF Rests, Status

\* A merge takes each node from one of the two records.
LEMMA MergeOK ==
  ASSUME NEW loc \in Instances, NEW fresh \in Instances, NEW answers,
         Rests(loc, answers), Rests(fresh, answers)
  PROVE  Merge(loc, fresh) \in Instances /\ Rests(Merge(loc, fresh), answers)
<1> DEFINE new == Merge(loc, fresh)
<1>1. /\ new.nodes \in [Nodes -> NodeStates]
      /\ \A n \in Nodes : new.nodes[n] \in {loc.nodes[n], fresh.nodes[n]}
      /\ new.outs \in [Nodes -> Outputs \cup {"none"}]
      /\ new.version = fresh.version /\ new.saga = fresh.saga
  BY InstanceFields DEF Merge, Instances
<1>2. MergeInstanceStatus(fresh.status, loc.status) \in InstanceStatus
  BY DEF MergeInstanceStatus, InstanceStatus
<1>3. new \in Instances
  BY <1>1, <1>2, InstanceFields DEF Merge, Instances
<1>4. Rests(new, answers)
  BY <1>1 DEF Rests, Status
<1> QED BY <1>3, <1>4

LEMMA ResetOK ==
  ASSUME NEW inst \in Instances, NEW answers, Rests(inst, answers)
  PROVE  Reset(inst) \in Instances /\ Rests(Reset(inst), answers)
<1> DEFINE again(m) == [inst.nodes[m] EXCEPT !.st = "Pending", !.att = inst.nodes[m].att + 1]
<1>1. \A m \in Nodes : again(m) \in NodeStates /\ again(m).st = "Pending"
  BY InstanceFields, NodeUpdates
<1>2. Reset(inst).nodes = [m \in Nodes |-> IF inst.nodes[m].st = "Queued" THEN again(m)
                                           ELSE inst.nodes[m]]
  BY DEF Reset, Instances, Status
<1> HIDE DEF again
<1>3. Reset(inst).nodes \in [Nodes -> NodeStates]
  BY <1>1, <1>2, InstanceFields
<1>4. Reset(inst) \in Instances
  BY <1>3 DEF Reset, Instances
<1>5. \A m \in Nodes : Reset(inst).nodes[m].st = "Completed" =>
        Reset(inst).nodes[m] = inst.nodes[m]
  BY <1>1, <1>2
<1> QED BY <1>4, <1>5, RestsKept

LEMMA CancelledOK ==
  ASSUME NEW inst \in Instances, NEW answers, Rests(inst, answers)
  PROVE  LET new == [inst EXCEPT !.status = "Cancelled", !.nodes = CancelledNodes(inst)]
         IN new \in Instances /\ Rests(new, answers)
<1> DEFINE new == [inst EXCEPT !.status = "Cancelled", !.nodes = CancelledNodes(inst)]
<1>1. \A m \in Nodes : /\ [inst.nodes[m] EXCEPT !.st = "Cancelled"] \in NodeStates
                       /\ [inst.nodes[m] EXCEPT !.st = "Cancelled"].st = "Cancelled"
  BY InstanceFields DEF NodeStates, NodeStatus
<1>2. /\ CancelledNodes(inst) \in [Nodes -> NodeStates]
      /\ \A m \in Nodes : CancelledNodes(inst)[m].st = "Completed" =>
           CancelledNodes(inst)[m] = inst.nodes[m]
  BY <1>1, InstanceFields DEF CancelledNodes
<1>3. new \in Instances /\ new.nodes = CancelledNodes(inst)
  BY <1>2 DEF Instances, InstanceStatus
<1>4. Rests(new, answers)
  BY <1>2, <1>3 DEF Rests, Status
<1> QED BY <1>3, <1>4

LEMMA FinishedOK ==
  ASSUME NEW r \in Operations, NEW answers, Rests(r.inst, answers)
  PROVE  Finished(r) \in Instances /\ Rests(Finished(r), answers)
<1>1. r.inst \in Instances
  BY DEF Operations
<1> QED BY <1>1, StatusOK DEF Finished, InstanceStatus

-----------------------------------------------------------------------------
(* The first and the last of a set of nodes exist. *)

LEMMA LeastExists ==
  ASSUME NEW T \in SUBSET Nat, T # {}
  PROVE  \E x \in T : \A y \in T : x <= y
<1>1. PICK x \in T : \A y \in T : ~(<<y, x>> \in OpToRel(<, Nat))
  BY NatLessThanWellFounded, WFMin
<1>2. \A y \in T : ~(y < x)
  BY <1>1 DEF OpToRel
<1> QED BY <1>2

LEMMA FirstDefinedIn ==
  ASSUME NEW S \in SUBSET Nodes, S # {}
  PROVE  FirstDefined(S) \in S
<1>1. \A n \in S : Position(NodeSeq, n) \in Nat
  <2> TAKE n \in S
  <2>1. \E i \in DOMAIN NodeSeq : NodeSeq[i] = n
    BY DEF Nodes
  <2>2. Position(NodeSeq, n) \in DOMAIN NodeSeq
    BY <2>1 DEF Position
  <2>3. DOMAIN NodeSeq = 1..Len(NodeSeq)
    BY WorkflowAssumption
  <2> QED BY <2>2, <2>3
<1> DEFINE T == {Position(NodeSeq, n) : n \in S}
<1>2. T \in SUBSET Nat /\ T # {}
  BY <1>1
<1>3. PICK x \in T : \A y \in T : x <= y
  BY <1>2, LeastExists
<1>4. PICK n \in S : x = Position(NodeSeq, n)
  BY <1>3
<1>5. \A m \in S : Position(NodeSeq, n) <= Position(NodeSeq, m)
  BY <1>3, <1>4
<1> QED BY <1>5 DEF FirstDefined

LEMMA LastExecutedIn ==
  ASSUME NEW S \in SUBSET Nodes, S # {}
  PROVE  /\ LastExecuted(S) \in S
         /\ \A m \in S : Position(ExecutionOrder, m) <= Position(ExecutionOrder, LastExecuted(S))
<1> DEFINE pos(n) == Position(ExecutionOrder, n)
           L == Len(ExecutionOrder)
<1>0. L \in Nat /\ DOMAIN ExecutionOrder = 1..L
  BY WorkflowAssumption
<1>1. \A n \in S : pos(n) \in 1..L
  <2> TAKE n \in S
  <2>1. \E i \in DOMAIN ExecutionOrder : ExecutionOrder[i] = n
    BY WorkflowAssumption
  <2>2. pos(n) \in DOMAIN ExecutionOrder
    BY <2>1 DEF Position
  <2> QED BY <2>2, <1>0
<1> HIDE DEF pos, L
<1> DEFINE T == {L - pos(n) : n \in S}
<1>2. T \in SUBSET Nat /\ T # {}
  BY <1>0, <1>1
<1>3. PICK x \in T : \A y \in T : x <= y
  BY <1>2, LeastExists
<1>4. PICK n \in S : x = L - pos(n)
  BY <1>3
<1>5. \A m \in S : L - pos(n) <= L - pos(m)
  BY <1>3, <1>4
<1>6. \A m \in S : pos(m) <= pos(n)
  BY <1>0, <1>1, <1>5
<1> QED BY <1>6 DEF LastExecuted, pos

-----------------------------------------------------------------------------
(* The stack of things to do. *)

Plain(k) == \A i \in DOMAIN k : k[i] \notin {"publish", "sleep", "refetch"}

LEMMA PlainPlace ==
  ASSUME NEW k, NEW todo, NEW msg, Plain(k)
  PROVE  Place(k, todo, msg)
  BY DEF Plain, Place

LEMMA TailPlace ==
  ASSUME NEW k \in Seq(Labels), k # << >>, NEW todo, NEW msg, Place(k, todo, msg)
  PROVE  Tail(k) \in Seq(Labels) /\ Place(Tail(k), todo, msg)
<1>1. /\ Tail(k) \in Seq(Labels) /\ Len(Tail(k)) = Len(k) - 1 /\ Len(k) \in Nat
      /\ \A i \in 1..Len(Tail(k)) : Tail(k)[i] = k[i + 1]
  BY HeadTailProperties
<1>2. \A i \in 1..Len(Tail(k)) : i + 1 \in 1..Len(k)
  BY <1>1
<1> QED BY <1>1, <1>2 DEF Place

\* Below anything but a save there is neither.
LEMMA TailPlain ==
  ASSUME NEW k \in Seq(Labels), k # << >>, NEW todo, NEW msg, Place(k, todo, msg),
         Head(k) \notin {"save", "refetch"}
  PROVE  /\ Tail(k) \in Seq(Labels) /\ Plain(Tail(k))
         /\ Head(k) \notin {"publish", "sleep"} => Plain(k)
<1>1. /\ Tail(k) \in Seq(Labels) /\ Len(Tail(k)) = Len(k) - 1 /\ Len(k) \in Nat
      /\ \A i \in 1..Len(Tail(k)) : Tail(k)[i] = k[i + 1]
      /\ k[1] = Head(k) /\ Len(k) >= 1 /\ DOMAIN k = 1..Len(k)
  BY HeadTailProperties
<1>2. \A i \in 2..Len(k) : k[i] \notin {"publish", "sleep", "refetch"}
  BY <1>1 DEF Place
<1> QED BY <1>1, <1>2 DEF Plain

LEMMA TailLeft ==
  ASSUME NEW k \in Seq(Labels), 2 \in 1..Len(k)
  PROVE  Tail(k) # << >>
<1>1. k # << >>
  OBVIOUS
<1>2. 1 \in DOMAIN Tail(k)
  <2>1. Tail(k) \in Seq(Labels) /\ Len(Tail(k)) = Len(k) - 1 /\ Len(k) \in Nat
    BY <1>1, HeadTailProperties
  <2>2. DOMAIN Tail(k) = 1..Len(Tail(k))
    BY <2>1, LenProperties
  <2>3. 1 \in 1..(Len(k) - 1)
    BY <2>1
  <2> QED BY <2>1, <2>2, <2>3, Zenon
<1>3. DOMAIN << >> = {}
  OBVIOUS
<1> QED BY <1>2, <1>3, Zenon

LEMMA PushSaveAndPublish ==
  ASSUME NEW k \in Seq(Labels), Plain(k), NEW todo, todo # {}, NEW msg
  PROVE  /\ <<"save", "publish">> \o k \in Seq(Labels)
         /\ Place(<<"save", "publish">> \o k, todo, msg)
<1>1. <<"save", "publish">> \in Seq(Labels) /\ Len(<<"save", "publish">>) = 2
  BY DEF Labels
<1>2. /\ <<"save", "publish">> \o k \in Seq(Labels)
      /\ Len(<<"save", "publish">> \o k) = 2 + Len(k)
      /\ \A i \in 1..(2 + Len(k)) : (<<"save", "publish">> \o k)[i] =
           IF i <= 2 THEN <<"save", "publish">>[i] ELSE k[i - 2]
  BY <1>1, ConcatProperties
<1>3. \A i \in 1..(2 + Len(k)) : i > 2 => i - 2 \in DOMAIN k
  BY LenProperties
<1>4. \A i \in 1..(2 + Len(k)) : /\ (<<"save", "publish">> \o k)[i] = "publish" => i = 2
                                 /\ (<<"save", "publish">> \o k)[i] \notin {"sleep", "refetch"}
  BY <1>2, <1>3 DEF Plain
<1>5. (<<"save", "publish">> \o k)[1] = "save"
  BY <1>2
<1>6. DOMAIN (<<"save", "publish">> \o k) = 1..(2 + Len(k))
  BY <1>2
<1>7. \A j \in 1..(2 + Len(k)) : j < 2 => j = 1
  BY LenProperties
<1> QED BY <1>2, <1>4, <1>5, <1>6, <1>7 DEF Place

LEMMA PushRefetch ==
  ASSUME NEW k \in Seq(Labels), NEW todo, NEW msg, Place(k, todo, msg), k # << >>, Head(k) = "save"
  PROVE  <<"refetch">> \o k \in Seq(Labels) /\ Place(<<"refetch">> \o k, todo, msg)
<1>1. <<"refetch">> \in Seq(Labels) /\ Len(<<"refetch">>) = 1
  BY DEF Labels
<1>2. /\ <<"refetch">> \o k \in Seq(Labels)
      /\ Len(<<"refetch">> \o k) = 1 + Len(k)
      /\ \A i \in 1..(1 + Len(k)) : (<<"refetch">> \o k)[i] =
           IF i <= 1 THEN "refetch" ELSE k[i - 1]
  BY <1>1, ConcatProperties
<1>3. \A i \in 1..(1 + Len(k)) : i > 1 => i - 1 \in DOMAIN k
  BY LenProperties
<1>4. DOMAIN (<<"refetch">> \o k) = 1..(1 + Len(k))
  BY <1>2
<1>5. Len(k) >= 1 /\ k[1] = "save" /\ DOMAIN k = 1..Len(k) /\ Len(k) \in Nat
  BY HeadTailProperties
<1>6. \A i \in DOMAIN k : k[i] # "refetch"
  BY <1>5 DEF Place
<1> QED BY <1>2, <1>3, <1>4, <1>5, <1>6 DEF Place

-----------------------------------------------------------------------------
(* Operations in progress. *)

LEMMA OpFields ==
  ASSUME NEW r \in Operations
  PROVE  /\ r.op \in Ops /\ r.k \in Seq(Labels) /\ r.inst \in Instances
         /\ r.todo \in SUBSET Nodes /\ r.att \in Nat \ {0} /\ r.try \in Nat
         /\ r.msg \in Results \cup {NoMsg}
  BY DEF Operations

LEMMA IdleOK == ASSUME NEW answers PROVE GoodOp(Idle, answers)
<1>1. Idle \in Operations /\ Idle.inst = NewInstance /\ Idle.k = << >>
  BY NewInstanceOK DEF Idle, Operations, Ops
<1> QED BY <1>1, NewInstanceOK DEF GoodOp, Place

LEMMA ContinueOK ==
  ASSUME NEW answers, proc \in [Procs -> Operations],
         \A q \in Procs : GoodOp(proc[q], answers),
         NEW p \in Procs, NEW r, GoodOp(r, answers), Continue(p, r)
  PROVE  /\ proc' \in [Procs -> Operations]
         /\ \A q \in Procs : GoodOp(proc'[q], answers)
<1>1. GoodOp(IF r.k = << >> THEN Idle ELSE r, answers)
  BY IdleOK
<1> DEFINE s == IF r.k = << >> THEN Idle ELSE r
<1>2. proc' = [proc EXCEPT ![p] = s]
  BY DEF Continue
<1>3. s \in Operations /\ GoodOp(s, answers)
  BY <1>1 DEF GoodOp
<1> HIDE DEF s
<1> QED BY <1>2, <1>3

\* A step of one operation that touches neither the store nor the bus.
LEMMA LocalStep ==
  ASSUME IInv, NEW p \in Procs, NEW r, GoodOp(r, produced), Continue(p, r),
         UNCHANGED <<bus, db, sleeping, boot>>, faults' \in 0..MaxFaults
  PROVE  IInv'
<1>1. /\ proc' \in [Procs -> Operations]
      /\ \A q \in Procs : GoodOp(proc'[q], produced)
  BY ContinueOK DEF IInv, TypeOK
<1>2. tasks' = tasks /\ results' = results /\ produced' = produced
  BY DEF bus
<1>3. TypeOK'
  BY <1>1, <1>2 DEF IInv, TypeOK
<1> QED BY <1>1, <1>2, <1>3 DEF IInv

\* A fault is counted.
LEMMA FaultOK ==
  ASSUME TypeOK, NEW kind, Fault(kind)
  PROVE  faults' \in 0..MaxFaults
  BY EngineAssumption DEF TypeOK, Fault

\* The facts about process p that every step starts from.
LEMMA Facts ==
  ASSUME IInv, NEW p \in Procs
  PROVE  /\ proc[p] \in Operations
         /\ Rests(proc[p].inst, produced) /\ Place(proc[p].k, proc[p].todo, proc[p].msg)
         /\ proc[p].op \in Ops /\ proc[p].k \in Seq(Labels) /\ proc[p].inst \in Instances
         /\ proc[p].todo \in SUBSET Nodes /\ proc[p].att \in Nat \ {0}
         /\ proc[p].try \in Nat /\ proc[p].msg \in Results \cup {NoMsg}
         /\ faults \in 0..MaxFaults /\ db \in Instances /\ Rests(db, produced)
<1>1. proc[p] \in Operations
  BY DEF IInv, GoodOp
<1> QED BY <1>1, OpFields DEF IInv, GoodOp, TypeOK

-----------------------------------------------------------------------------
(* The steps of dispatch_node. *)

\* Where a step starts: the top of the stack and, below it, what TailPlain says.
LEMMA AtLabel ==
  ASSUME IInv, NEW p \in Procs, NEW label, At(p, label)
  PROVE  /\ proc[p].k # << >> /\ Head(proc[p].k) = label
         /\ Tail(proc[p].k) \in Seq(Labels) /\ Place(Tail(proc[p].k), proc[p].todo, proc[p].msg)
         /\ label \notin {"save", "refetch"} => Plain(Tail(proc[p].k))
         /\ label \notin {"save", "refetch", "publish", "sleep"} => Plain(proc[p].k)
<1>1. proc[p].k # << >> /\ Head(proc[p].k) = label
  BY DEF At
<1> QED BY <1>1, Facts, TailPlace, TailPlain

LEMMA GateOK == ASSUME IInv, NEW p \in Procs, Gate(p) PROVE IInv'
<1> DEFINE r == proc[p]
           n == FirstDefined(r.todo)
           inst == SetNode(r.inst, n, WaitingNode(r.inst.nodes[n]))
           q == [r EXCEPT !.todo = @ \ {n},
                          !.inst = SetNode(@, n, WaitingNode(@.nodes[n]))]
<1>1. n \in Nodes
  BY Facts, FirstDefinedIn DEF Gate
<1>2. inst \in Instances /\ Rests(inst, produced)
  BY <1>1, Facts, InstanceFields, NodeUpdates, SetNodeOK
<1>3. Plain(r.k)
  BY AtLabel DEF Gate
<1>4. q \in Operations /\ q.k = r.k /\ q.inst = inst
  BY <1>2, Facts DEF Operations
<1>5. GoodOp(q, produced)
  BY <1>2, <1>3, <1>4, PlainPlace DEF GoodOp
<1>6. Continue(p, q) /\ UNCHANGED <<bus, db, sleeping, boot>> /\ faults' = faults
  BY DEF Gate
<1> QED BY <1>5, <1>6, Facts, LocalStep

LEMMA QueueNodeOK == ASSUME IInv, NEW p \in Procs, QueueNode(p) PROVE IInv'
<1> DEFINE r == proc[p]
           n == FirstDefined(r.todo)
           inst == SetNode(r.inst, n, QueuedNode(r.inst.nodes[n]))
           q == [r EXCEPT !.k = <<"save", "publish">> \o @,
                          !.inst = SetNode(@, n, QueuedNode(@.nodes[n])),
                          !.att = QueuedNode(r.inst.nodes[n]).att]
<1>1. n \in Nodes /\ r.todo # {}
  BY Facts, FirstDefinedIn DEF QueueNode
<1>2. /\ inst \in Instances /\ Rests(inst, produced)
      /\ QueuedNode(r.inst.nodes[n]).att \in Nat \ {0}
  <2>1. r.inst \in Instances /\ Rests(r.inst, produced) /\ r.inst.nodes[n] \in NodeStates
    BY <1>1, Facts, InstanceFields
  <2>2. /\ QueuedNode(r.inst.nodes[n]) \in NodeStates
        /\ QueuedNode(r.inst.nodes[n]).st = "Queued"
        /\ QueuedNode(r.inst.nodes[n]).att \in Nat \ {0}
    BY <2>1, NodeUpdates
  <2> QED BY <1>1, <2>1, <2>2, SetNodeOK
<1>3. Plain(r.k)
  BY AtLabel DEF QueueNode
<1>4. /\ <<"save", "publish">> \o r.k \in Seq(Labels)
      /\ Place(<<"save", "publish">> \o r.k, r.todo, r.msg)
  BY <1>1, <1>3, Facts, PushSaveAndPublish
<1>5. /\ q \in Operations /\ q.k = <<"save", "publish">> \o r.k
      /\ q.inst = inst /\ q.todo = r.todo /\ q.msg = r.msg
  BY <1>2, <1>4, Facts DEF Operations
<1>6. GoodOp(q, produced)
  BY <1>2, <1>4, <1>5 DEF GoodOp
<1>7. Continue(p, q) /\ UNCHANGED <<bus, db, sleeping, boot>> /\ faults' = faults
  BY DEF QueueNode
<1> QED BY <1>6, <1>7, Facts, LocalStep

\* A stack of labels written out in an action is plain, if none of the three is named.
Quiet == Labels \ {"publish", "sleep", "refetch"}

LEMMA Stack0 == << >> \in Seq(Labels) /\ Plain(<< >>)
  BY DEF Plain

LEMMA Stack1 ==
  ASSUME NEW a \in Quiet
  PROVE  <<a>> \in Seq(Labels) /\ Plain(<<a>>)
  BY DEF Plain, Quiet

LEMMA Stack2 ==
  ASSUME NEW a \in Quiet, NEW b \in Quiet
  PROVE  <<a, b>> \in Seq(Labels) /\ Plain(<<a, b>>)
  BY DEF Plain, Quiet

LEMMA Stack3 ==
  ASSUME NEW a \in Quiet, NEW b \in Quiet, NEW c \in Quiet
  PROVE  <<a, b, c>> \in Seq(Labels) /\ Plain(<<a, b, c>>)
  BY DEF Plain, Quiet

LEMMA Stack4 ==
  ASSUME NEW a \in Quiet, NEW b \in Quiet, NEW c \in Quiet, NEW d \in Quiet
  PROVE  <<a, b, c, d>> \in Seq(Labels) /\ Plain(<<a, b, c, d>>)
  BY DEF Plain, Quiet

LEMMA Stack5 ==
  ASSUME NEW a \in Quiet, NEW b \in Quiet, NEW c \in Quiet, NEW d \in Quiet, NEW e \in Quiet
  PROVE  <<a, b, c, d, e>> \in Seq(Labels) /\ Plain(<<a, b, c, d, e>>)
  BY DEF Plain, Quiet

LEMMA QuietLabels ==
  {"dispatch", "dispatchError", "ready", "finish", "save", "ack", "comp"} \subseteq Quiet
  BY DEF Quiet, Labels

LEMMA DispatchFailsOK == ASSUME IInv, NEW p \in Procs, DispatchFails(p) PROVE IInv'
<1> DEFINE r == proc[p]
           n == FirstDefined(r.todo)
           ns == IF Gated(r.inst, n) THEN WaitingNode(r.inst.nodes[n])
                                     ELSE QueuedNode(r.inst.nodes[n])
           q == [r EXCEPT !.k = <<"dispatchError">>,
                          !.inst = SetNode(@, n, IF Gated(@, n)
                                                 THEN WaitingNode(@.nodes[n])
                                                 ELSE QueuedNode(@.nodes[n]))]
<1>1. n \in Nodes
  BY Facts, FirstDefinedIn DEF DispatchFails
<1>2. ns \in NodeStates /\ ns.st # "Completed"
  BY <1>1, Facts, InstanceFields, NodeUpdates
<1> HIDE DEF ns
<1>3. SetNode(r.inst, n, ns) \in Instances /\ Rests(SetNode(r.inst, n, ns), produced)
  BY <1>1, <1>2, Facts, SetNodeOK
<1>4. <<"dispatchError">> \in Seq(Labels) /\ Plain(<<"dispatchError">>)
  BY Stack1, QuietLabels
<1>5. /\ q = [r EXCEPT !.k = <<"dispatchError">>, !.inst = SetNode(r.inst, n, ns)]
  BY DEF ns
<1>6. q \in Operations /\ q.k = <<"dispatchError">> /\ q.inst = SetNode(r.inst, n, ns)
  BY <1>3, <1>4, <1>5, Facts DEF Operations
<1>7. GoodOp(q, produced)
  BY <1>3, <1>4, <1>6, PlainPlace DEF GoodOp
<1>8. Continue(p, q) /\ UNCHANGED <<bus, db, sleeping, boot>> /\ Fault("resolve")
  BY DEF DispatchFails
<1>9. faults' \in 0..MaxFaults
  BY <1>8, FaultOK DEF IInv
<1> QED BY <1>7, <1>8, <1>9, LocalStep

\* A good operation stays good when its stack is replaced by one without publish.
LEMMA ReplaceStack ==
  ASSUME NEW r, NEW answers, GoodOp(r, answers), NEW k \in Seq(Labels), Plain(k)
  PROVE  GoodOp([r EXCEPT !.k = k], answers)
<1>1. /\ [r EXCEPT !.k = k] \in Operations /\ [r EXCEPT !.k = k].k = k
      /\ [r EXCEPT !.k = k].inst = r.inst
  BY DEF Operations, GoodOp
<1> QED BY <1>1, PlainPlace DEF GoodOp

LEMMA AbortOK ==
  ASSUME NEW r, NEW answers, GoodOp(r, answers)
  PROVE  GoodOp(Abort(r), answers)
  BY ReplaceStack, Stack0 DEF Abort

LEMMA PopOK ==
  ASSUME NEW r, NEW answers, GoodOp(r, answers), r.k # << >>
  PROVE  /\ GoodOp(Pop(r), answers)
         /\ Pop(r).k = Tail(r.k) /\ Pop(r).inst = r.inst /\ Pop(r).todo = r.todo
         /\ Pop(r).op = r.op /\ Pop(r).msg = r.msg /\ Pop(r).try = r.try
<1>1. r \in Operations /\ r.k \in Seq(Labels) /\ Place(r.k, r.todo, r.msg)
  BY OpFields DEF GoodOp
<1>2. Tail(r.k) \in Seq(Labels) /\ Place(Tail(r.k), r.todo, r.msg)
  BY <1>1, TailPlace
<1>3. /\ Pop(r) \in Operations
      /\ Pop(r).k = Tail(r.k) /\ Pop(r).inst = r.inst /\ Pop(r).todo = r.todo
      /\ Pop(r).op = r.op /\ Pop(r).msg = r.msg /\ Pop(r).try = r.try
  BY <1>1, <1>2 DEF Operations, Pop
<1> QED BY <1>2, <1>3 DEF GoodOp

\* ... or its copy of the instance by another good one.
LEMMA ReplaceInst ==
  ASSUME NEW r, NEW answers, GoodOp(r, answers), NEW inst \in Instances,
         Rests(inst, answers)
  PROVE  /\ GoodOp([r EXCEPT !.inst = inst], answers)
         /\ [r EXCEPT !.inst = inst].k = r.k
<1>1. /\ [r EXCEPT !.inst = inst] \in Operations /\ [r EXCEPT !.inst = inst].k = r.k
      /\ [r EXCEPT !.inst = inst].inst = inst /\ [r EXCEPT !.inst = inst].todo = r.todo
      /\ [r EXCEPT !.inst = inst].msg = r.msg
  BY DEF Operations, GoodOp
<1> QED BY <1>1 DEF GoodOp

LEMMA ReplaceTry ==
  ASSUME NEW r, NEW answers, GoodOp(r, answers), NEW t \in Nat
  PROVE  GoodOp([r EXCEPT !.try = t], answers)
<1>1. /\ [r EXCEPT !.try = t] \in Operations /\ [r EXCEPT !.try = t].k = r.k
      /\ [r EXCEPT !.try = t].inst = r.inst /\ [r EXCEPT !.try = t].todo = r.todo
      /\ [r EXCEPT !.try = t].msg = r.msg
  BY DEF Operations, GoodOp
<1> QED BY <1>1 DEF GoodOp

\* A change of the nodes to dispatch, when nothing is about to be published.
LEMMA ReplaceTodo ==
  ASSUME NEW r, NEW answers, GoodOp(r, answers), Plain(r.k), NEW todo \in SUBSET Nodes
  PROVE  GoodOp([r EXCEPT !.todo = todo], answers)
<1>1. /\ [r EXCEPT !.todo = todo] \in Operations /\ [r EXCEPT !.todo = todo].k = r.k
      /\ [r EXCEPT !.todo = todo].inst = r.inst
  BY DEF Operations, GoodOp
<1> QED BY <1>1, PlainPlace DEF GoodOp

LEMMA PublishOK == ASSUME IInv, NEW p \in Procs, Publish(p) PROVE IInv'
<1> DEFINE r == proc[p]
           n == FirstDefined(r.todo)
           task == [node |-> n, att |-> r.att, undo |-> FALSE]
<1>1. r.k # << >> /\ Head(r.k) = "publish" /\ Plain(Tail(r.k))
  BY AtLabel DEF Publish
<1>2. r.todo # {}
  <2>1. Len(r.k) >= 1 /\ 1 \in DOMAIN r.k /\ r.k[1] = "publish"
    BY <1>1, Facts, HeadTailProperties
  <2> QED BY <2>1, Facts DEF Place
<1>3. n \in Nodes
  BY <1>2, Facts, FirstDefinedIn
<1>4. GoodOp(r, produced)
  BY DEF IInv
<1>5. db' = db /\ results' = results /\ produced' = produced /\ sleeping' = sleeping
      /\ boot' = boot
  BY DEF Publish
<1>6. CASE /\ tasks' = tasks \cup {task} /\ UNCHANGED faults
           /\ Continue(p, [Pop(r) EXCEPT !.todo = @ \ {n}])
  <2>1. GoodOp([Pop(r) EXCEPT !.todo = @ \ {n}], produced)
    BY <1>1, <1>4, Facts, PopOK, ReplaceTodo
  <2>2. /\ proc' \in [Procs -> Operations]
        /\ \A q \in Procs : GoodOp(proc'[q], produced)
    BY <1>6, <2>1, ContinueOK DEF IInv, TypeOK
  <2>3. task \in Tasks
    BY <1>3, Facts DEF Tasks
  <2>4. TypeOK'
    BY <1>5, <1>6, <2>2, <2>3 DEF IInv, TypeOK
  <2> QED BY <1>5, <2>2, <2>4 DEF IInv
<1>7. CASE /\ Fault("bus") /\ UNCHANGED tasks
           /\ Continue(p, [r EXCEPT !.k = <<"dispatchError">>])
  <2>1. <<"dispatchError">> \in Seq(Labels) /\ Plain(<<"dispatchError">>)
    BY Stack1, QuietLabels
  <2>2. GoodOp([r EXCEPT !.k = <<"dispatchError">>], produced)
    BY <1>4, <2>1, ReplaceStack
  <2>3. faults' \in 0..MaxFaults
    BY <1>7, FaultOK DEF IInv
  <2> QED BY <1>5, <1>7, <2>2, <2>3, LocalStep DEF bus
<1> QED BY <1>6, <1>7 DEF Publish

LEMMA DispatchDoneOK == ASSUME IInv, NEW p \in Procs, DispatchDone(p) PROVE IInv'
<1>1. proc[p].k # << >> /\ GoodOp(proc[p], produced)
  BY AtLabel DEF DispatchDone, IInv
<1>2. GoodOp(Pop(proc[p]), produced)
  BY <1>1, PopOK
<1> QED BY <1>2, Facts, LocalStep DEF DispatchDone

LEMMA DispatchErrorLostOK == ASSUME IInv, NEW p \in Procs, DispatchErrorLost(p) PROVE IInv'
<1>1. GoodOp(Abort(proc[p]), produced)
  BY AbortOK DEF IInv
<1>2. faults' \in 0..MaxFaults
  BY FaultOK DEF IInv, DispatchErrorLost
<1> QED BY <1>1, <1>2, LocalStep DEF DispatchErrorLost

LEMMA ConcatPlain ==
  ASSUME NEW k1 \in Seq(Labels), NEW k2 \in Seq(Labels), Plain(k1), Plain(k2)
  PROVE  k1 \o k2 \in Seq(Labels) /\ Plain(k1 \o k2)
<1>1. /\ k1 \o k2 \in Seq(Labels) /\ Len(k1 \o k2) = Len(k1) + Len(k2)
      /\ \A i \in 1..(Len(k1) + Len(k2)) :
           (k1 \o k2)[i] = IF i <= Len(k1) THEN k1[i] ELSE k2[i - Len(k1)]
  BY ConcatProperties
<1>2. \A i \in 1..(Len(k1) + Len(k2)) :
        IF i <= Len(k1) THEN i \in DOMAIN k1 ELSE i - Len(k1) \in DOMAIN k2
  BY LenProperties
<1>3. DOMAIN (k1 \o k2) = 1..(Len(k1) + Len(k2))
  BY <1>1
<1> QED BY <1>1, <1>2, <1>3 DEF Plain

LEMMA DispatchErrorOK == ASSUME IInv, NEW p \in Procs, DispatchError(p) PROVE IInv'
<1> DEFINE r == proc[p]
           f == SetStatus(r.inst, FirstDefined(r.todo), "Failed")
           failed == [f EXCEPT !.status = "Failed", !.version = @ + 1]
           saga == HasCompensation(failed)
           rest == CASE r.op = "start" -> <<"finish", "save">>
                     [] r.op \in {"result", "retry"} -> <<"save", "ack">>
                     [] OTHER -> <<"save">>
           inst == IF saga THEN BeginCompensation(failed) ELSE CascadeSkips(failed)
           k == IF saga THEN <<"save", "comp">> \o rest ELSE rest
           q == [r EXCEPT !.todo = {}, !.inst = inst, !.k = k]
<1>1. f \in Instances /\ Rests(f, produced)
  BY Facts, SetStatusOK DEF NodeStatus
<1>2. failed \in Instances /\ Rests(failed, produced)
  <2>1. f.version + 1 \in Nat
    BY <1>1, InstanceFields
  <2>2. failed \in Instances /\ failed.nodes = f.nodes
    BY <1>1, <2>1 DEF Instances, InstanceStatus
  <2> QED BY <1>1, <2>2, RestsSameNodes
<1>3. inst \in Instances /\ Rests(inst, produced)
  BY <1>2, CompensationOK, CascadeOK
<1>4. rest \in Seq(Labels) /\ Plain(rest)
  BY Stack1, Stack2, QuietLabels
<1>5. k \in Seq(Labels) /\ Plain(k)
  <2>1. <<"save", "comp">> \in Seq(Labels) /\ Plain(<<"save", "comp">>)
    BY Stack2, QuietLabels
  <2> QED BY <1>4, <2>1, ConcatPlain
<1>6. Continue(p, q) /\ UNCHANGED <<bus, db, sleeping, boot>> /\ faults' = faults
  BY DEF DispatchError
<1> HIDE DEF inst, k
<1>7. q \in Operations /\ q.k = k /\ q.inst = inst
  BY <1>3, <1>5, Facts DEF Operations
<1>8. GoodOp(q, produced)
  BY <1>3, <1>5, <1>7, PlainPlace DEF GoodOp
<1> QED BY <1>6, <1>8, Facts, LocalStep

LEMMA ReadyNodesIn == ASSUME NEW inst PROVE ReadyNodes(inst) \in SUBSET Nodes
  BY DEF ReadyNodes

LEMMA FindReadyOK == ASSUME IInv, NEW p \in Procs, FindReady(p) PROVE IInv'
<1> DEFINE r == proc[p]
           inst == CascadeSkips(r.inst)
           q == [Pop(r) EXCEPT !.inst = inst, !.todo = ReadyNodes(inst)]
<1>1. GoodOp(r, produced) /\ r.k # << >> /\ Plain(Tail(r.k))
  BY AtLabel DEF FindReady, IInv
<1>2. inst \in Instances /\ Rests(inst, produced) /\ ReadyNodes(inst) \in SUBSET Nodes
  BY Facts, CascadeOK, ReadyNodesIn
<1>3. GoodOp(Pop(r), produced) /\ Pop(r).k = Tail(r.k)
  BY <1>1, PopOK
<1> HIDE DEF inst
<1>4. q \in Operations /\ q.k = Tail(r.k) /\ q.inst = inst
  BY <1>2, <1>3 DEF GoodOp, Operations
<1>5. GoodOp(q, produced) /\ GoodOp(Abort(q), produced)
  BY <1>1, <1>2, <1>4, PlainPlace, AbortOK DEF GoodOp
<1>6. /\ Continue(p, IF r.op = "resume" /\ q.todo = {} THEN Abort(q) ELSE q)
      /\ UNCHANGED <<bus, db, sleeping, boot>> /\ faults' = faults
  BY DEF FindReady, inst
<1>7. GoodOp(IF r.op = "resume" /\ q.todo = {} THEN Abort(q) ELSE q, produced)
  BY <1>5
<1> QED BY <1>6, <1>7, Facts, LocalStep

LEMMA FinishOK == ASSUME IInv, NEW p \in Procs, Finish(p) PROVE IInv'
<1>1. GoodOp(proc[p], produced) /\ proc[p].k # << >>
  BY AtLabel DEF Finish, IInv
<1>2. Finished(proc[p]) \in Instances /\ Rests(Finished(proc[p]), produced)
  BY Facts, FinishedOK
<1>3. GoodOp([Pop(proc[p]) EXCEPT !.inst = Finished(proc[p])], produced)
  BY <1>1, <1>2, PopOK, ReplaceInst
<1> QED BY <1>3, Facts, LocalStep DEF Finish

-----------------------------------------------------------------------------
(* The steps of save_instance. *)

LEMMA SaveOK == ASSUME IInv, NEW p \in Procs, Save(p) PROVE IInv'
<1> DEFINE r == proc[p]
           q == [Pop(r) EXCEPT !.inst = Bumped(@), !.try = 0]
<1>1. GoodOp(r, produced) /\ r.k # << >>
  BY AtLabel DEF Save, IInv
<1>2. Bumped(r.inst) \in Instances /\ Rests(Bumped(r.inst), produced)
  BY Facts, BumpedOK
<1>3. GoodOp(Pop(r), produced) /\ Pop(r).inst = r.inst
  BY <1>1, PopOK
<1>4. /\ q \in Operations /\ q.k = Pop(r).k /\ q.inst = Bumped(r.inst) /\ q.todo = Pop(r).todo
      /\ q.msg = Pop(r).msg
  BY <1>2, <1>3 DEF GoodOp, Operations
<1>5. GoodOp(q, produced)
  BY <1>2, <1>3, <1>4 DEF GoodOp
<1>6. /\ Continue(p, q) /\ db' = Bumped(r.inst)
      /\ UNCHANGED <<bus, sleeping, boot, faults>>
  BY DEF Save
<1>7. /\ proc' \in [Procs -> Operations]
      /\ \A s \in Procs : GoodOp(proc'[s], produced)
  BY <1>5, <1>6, ContinueOK DEF IInv, TypeOK
<1>8. TypeOK'
  BY <1>2, <1>6, <1>7 DEF IInv, TypeOK, bus
<1> QED BY <1>2, <1>6, <1>7, <1>8 DEF IInv, bus

LEMMA SaveConflictOK == ASSUME IInv, NEW p \in Procs, SaveConflict(p) PROVE IInv'
<1> DEFINE r == proc[p]
           q == [r EXCEPT !.inst = Bumped(@), !.k = <<"refetch">> \o @]
<1>1. Bumped(r.inst) \in Instances /\ Rests(Bumped(r.inst), produced)
  BY Facts, BumpedOK
<1>2. <<"refetch">> \o r.k \in Seq(Labels) /\ Place(<<"refetch">> \o r.k, r.todo, r.msg)
  BY Facts, AtLabel, PushRefetch DEF SaveConflict
<1>3. /\ q \in Operations /\ q.k = <<"refetch">> \o r.k /\ q.inst = Bumped(r.inst)
      /\ q.todo = r.todo /\ q.msg = r.msg
  BY <1>1, <1>2, Facts DEF Operations
<1>4. GoodOp(q, produced)
  BY <1>1, <1>2, <1>3 DEF GoodOp
<1> QED BY <1>4, Facts, LocalStep DEF SaveConflict

LEMMA SaveFailedOK ==
  ASSUME NEW r, NEW answers, GoodOp(r, answers)
  PROVE  GoodOp(SaveFailed(r), answers) /\ SaveFailed(r).inst = r.inst
<1> DEFINE q == [r EXCEPT !.k = <<"dispatchError">>, !.try = 0]
<1>1. <<"dispatchError">> \in Seq(Labels) /\ Plain(<<"dispatchError">>)
  BY Stack1, QuietLabels
<1>2. q \in Operations /\ q.k = <<"dispatchError">> /\ q.inst = r.inst
  BY <1>1 DEF GoodOp, Operations
<1>3. GoodOp(q, answers)
  BY <1>1, <1>2, PlainPlace DEF GoodOp
<1>4. Abort(r).inst = r.inst
  BY DEF Abort, GoodOp, Operations
<1> QED BY <1>2, <1>3, <1>4, AbortOK DEF SaveFailed

LEMMA SaveErrorOK == ASSUME IInv, NEW p \in Procs, SaveError(p) PROVE IInv'
<1> DEFINE s == SaveFailed(proc[p])
           q == [s EXCEPT !.inst = Bumped(@)]
<1>1. GoodOp(s, produced) /\ s.inst = proc[p].inst
  BY SaveFailedOK DEF IInv
<1>2. Bumped(s.inst) \in Instances /\ Rests(Bumped(s.inst), produced)
  BY <1>1, Facts, BumpedOK
<1>3. Continue(p, q) /\ UNCHANGED <<bus, db, sleeping, boot>> /\ Fault("store")
  BY DEF SaveError
<1> HIDE DEF s
<1>4. GoodOp(q, produced)
  BY <1>1, <1>2, ReplaceInst
<1>5. faults' \in 0..MaxFaults
  BY <1>3, FaultOK DEF IInv
<1> QED BY <1>3, <1>4, <1>5, LocalStep

LEMMA RefetchOK == ASSUME IInv, NEW p \in Procs, Refetch(p) PROVE IInv'
<1> DEFINE r == proc[p]
           merged == [Pop(r) EXCEPT !.inst = Merge(@, db), !.try = @ + 1]
           asIs == [Pop(Pop(r)) EXCEPT !.try = 0]
<1>1. GoodOp(r, produced) /\ r.k # << >>
  BY AtLabel DEF Refetch, IInv
<1>2. /\ GoodOp(Pop(r), produced) /\ Pop(r).inst = r.inst /\ Pop(r).try = r.try
      /\ Pop(r).k = Tail(r.k)
  BY <1>1, PopOK
<1>3. Merge(r.inst, db) \in Instances /\ Rests(Merge(r.inst, db), produced)
  BY Facts, MergeOK
<1>4. GoodOp(merged, produced)
  <2>1. r.try + 1 \in Nat
    BY Facts
  <2>2. /\ merged \in Operations /\ merged.k = Pop(r).k /\ merged.todo = Pop(r).todo
        /\ merged.msg = Pop(r).msg
        /\ merged.inst = Merge(r.inst, db)
    BY <1>2, <1>3, <2>1 DEF GoodOp, Operations
  <2> QED BY <1>2, <1>3, <2>2 DEF GoodOp
<1>5. GoodOp(asIs, produced)
  <2>1. Head(r.k) = "refetch"
    BY AtLabel DEF Refetch
  <2>2. 1 \in DOMAIN r.k /\ r.k[1] = "refetch" /\ DOMAIN r.k = 1..Len(r.k)
    BY <1>1, <2>1, Facts, HeadTailProperties
  <2>3. 2 \in 1..Len(r.k)
    BY <2>2, Facts DEF Place
  <2>4. Tail(r.k) # << >>
    BY <2>3, Facts, TailLeft
  <2>5. Pop(r).k # << >>
    BY <1>2, <2>4, Zenon
  <2> QED BY <1>2, <2>5, PopOK, ReplaceTry
<1>6. /\ Continue(p, IF NeedsMerge(r.inst, db) THEN merged ELSE asIs)
      /\ UNCHANGED <<bus, db, sleeping, boot>> /\ faults' = faults
  BY DEF Refetch
<1> QED BY <1>4, <1>5, <1>6, Facts, LocalStep

LEMMA RefetchErrorOK == ASSUME IInv, NEW p \in Procs, RefetchError(p) PROVE IInv'
<1>1. GoodOp(proc[p], produced) /\ proc[p].k # << >>
  BY AtLabel DEF RefetchError, IInv
<1>2. GoodOp(SaveFailed(Pop(proc[p])), produced)
  BY <1>1, PopOK, SaveFailedOK
<1>3. faults' \in 0..MaxFaults
  BY FaultOK DEF IInv, RefetchError
<1> QED BY <1>2, <1>3, LocalStep DEF RefetchError

LEMMA GiveUpOK == ASSUME IInv, NEW p \in Procs, GiveUp(p) PROVE IInv'
<1>1. GoodOp(proc[p], produced) /\ proc[p].k # << >>
  BY AtLabel DEF GiveUp, IInv
<1>2. GoodOp(SaveFailed(Pop(proc[p])), produced)
  BY <1>1, PopOK, SaveFailedOK
<1>3. /\ Bumped([db EXCEPT !.status = "Failed"]) \in Instances
      /\ Rests(Bumped([db EXCEPT !.status = "Failed"]), produced)
  BY Facts, StatusOK, BumpedOK DEF InstanceStatus
<1>4. db' \in Instances /\ Rests(db', produced)
  BY <1>3, Facts DEF GiveUp
<1>5. /\ proc' \in [Procs -> Operations]
      /\ \A s \in Procs : GoodOp(proc'[s], produced)
  BY <1>2, ContinueOK DEF IInv, TypeOK, GiveUp
<1>6. UNCHANGED <<bus, sleeping, boot, faults>>
  BY DEF GiveUp
<1>7. TypeOK'
  BY <1>4, <1>5, <1>6 DEF IInv, TypeOK, bus
<1> QED BY <1>4, <1>5, <1>6, <1>7 DEF IInv, bus

-----------------------------------------------------------------------------
(* The operations that take the mutex. *)

LEMMA BeginOK ==
  ASSUME IInv, NEW op \in Ops, NEW inst \in Instances, Rests(inst, produced),
         NEW todo \in SUBSET Nodes, NEW k \in Seq(Labels),
         NEW msg \in Results \cup {NoMsg}, Place(k, todo, msg), Begin(op, inst, todo, k, msg)
  PROVE  /\ proc' \in [Procs -> Operations]
         /\ \A s \in Procs : GoodOp(proc'[s], produced)
<1> DEFINE r == [op |-> op, k |-> k, inst |-> inst, todo |-> todo, att |-> 1,
                 try |-> 0, msg |-> msg]
<1>1. r \in Operations /\ r.inst = inst /\ r.k = k /\ r.todo = todo /\ r.msg = msg
  BY DEF Operations
<1>2. GoodOp(r, produced)
  BY <1>1 DEF GoodOp
<1>3. Continue("locked", r) /\ "locked" \in Procs
  BY DEF Begin, Procs
<1> QED BY <1>2, <1>3, ContinueOK DEF IInv, TypeOK

\* An operation begins; nothing else changes, or a message is dropped.
LEMMA BeginStep ==
  ASSUME IInv, proc' \in [Procs -> Operations],
         \A s \in Procs : GoodOp(proc'[s], produced),
         UNCHANGED <<bus, db>>, sleeping' \subseteq Results,
         boot' \in {"list", "resume", "up"}, faults' \in 0..MaxFaults
  PROVE  IInv'
<1>1. TypeOK'
  BY DEF IInv, TypeOK, bus
<1> QED BY <1>1 DEF IInv, bus

\* A retry: the node stays queued, as the next attempt.
LEMMA RetriedOK ==
  ASSUME IInv, NEW m \in results
  PROVE  LET retried == SetNode(db, m.node, [st |-> "Queued", att |-> m.att + 1, started |-> FALSE])
         IN retried \in Instances /\ Rests(retried, produced)
<1> DEFINE ns == [st |-> "Queued", att |-> m.att + 1, started |-> FALSE]
<1>1. m \in Results /\ m.att \in Nat /\ m.node \in Nodes
  BY DEF IInv, TypeOK, Results
<1>2. ns \in NodeStates /\ ns.st # "Completed"
  BY <1>1 DEF NodeStates, NodeStatus
<1> HIDE DEF ns
<1>3. db \in Instances /\ Rests(db, produced)
  BY DEF IInv, TypeOK
<1>4. SetNode(db, m.node, ns) \in Instances /\ Rests(SetNode(db, m.node, ns), produced)
  BY <1>1, <1>2, <1>3, SetNodeOK
<1> QED BY <1>4 DEF ns

\* The heart of the argument: a node is completed on the answer to its own attempt.
LEMMA CompletedOK ==
  ASSUME IInv, NEW m \in results, ResultExpected(db, m), m.ok
  PROVE  LET completed == SetStatus(db, m.node, "Completed")
             inst == [completed EXCEPT !.outs[m.node] = m.out]
         IN /\ completed \in Instances /\ Rests(completed, produced)
            /\ inst \in Instances /\ Rests(inst, produced)
<1> DEFINE completed == SetStatus(db, m.node, "Completed")
           inst == [completed EXCEPT !.outs[m.node] = m.out]
<1>1. /\ m \in Results /\ m \in produced /\ m.node \in Nodes
      /\ m.out \in Outputs \cup {"none"} /\ db \in Instances
  BY DEF IInv, TypeOK, Results
<1>2. \A n \in Nodes : db.nodes[n] \in NodeStates
  BY <1>1, InstanceFields
<1>3. completed.nodes = [n \in Nodes |-> IF n = m.node
                                         THEN [db.nodes[n] EXCEPT !.st = "Completed"]
                                         ELSE db.nodes[n]]
  BY <1>1 DEF SetStatus, Instances
<1>4. \A n \in Nodes : /\ [db.nodes[n] EXCEPT !.st = "Completed"] \in NodeStates
                       /\ [db.nodes[n] EXCEPT !.st = "Completed"].att = db.nodes[n].att
  BY <1>2 DEF NodeStates, NodeStatus
<1>5. completed.nodes \in [Nodes -> NodeStates]
  BY <1>2, <1>3, <1>4
<1>6. completed \in Instances
  BY <1>1, <1>5 DEF SetStatus, Instances
<1>7. Rests(completed, produced)
  <2> SUFFICES ASSUME NEW n \in Nodes \ (Triggers \cup Capabilities),
                      completed.nodes[n].st = "Completed"
               PROVE  \E a \in produced : /\ a.node = n /\ ~a.undo /\ a.ok
                                          /\ a.att = completed.nodes[n].att
    BY DEF Rests, Status
  <2>1. CASE n = m.node
    <3>1. m.att = completed.nodes[n].att
      BY <1>3, <1>4, <2>1 DEF ResultExpected
    <3>2. ~m.undo
      BY DEF ResultExpected
    <3> QED BY <1>1, <2>1, <3>1, <3>2
  <2>2. CASE n # m.node
    <3>1. completed.nodes[n] = db.nodes[n]
      BY <1>3, <2>2
    <3> QED BY <3>1 DEF IInv, Rests, Status
  <2> QED BY <2>1, <2>2
<1> HIDE DEF completed
<1>8. inst \in Instances /\ inst.nodes = completed.nodes
  BY <1>1, <1>6 DEF Instances
<1>9. Rests(inst, produced)
  BY <1>7, <1>8, RestsSameNodes
<1> QED BY <1>6, <1>7, <1>8, <1>9 DEF completed

LEMMA HandleResultOK == ASSUME IInv, HandleResult PROVE IInv'
<1> DEFINE ProcOK == /\ proc' \in [Procs -> Operations]
                     /\ \A s \in Procs : GoodOp(proc'[s], produced)
                     /\ faults' \in 0..MaxFaults
<1>0. SUFFICES ProcOK
  <2>1. UNCHANGED <<bus, db>> /\ sleeping' = sleeping /\ boot' = boot
    BY DEF HandleResult
  <2> QED BY <2>1, BeginStep DEF IInv, TypeOK
<1>1. PICK m \in results : \/ CompensationResult(m) \/ LateResult(m)
                           \/ ErrorResult(m) \/ SuccessResult(m)
  BY DEF HandleResult
<1>2. /\ m \in Results /\ m \in Results \cup {NoMsg} /\ m.node \in Nodes
      /\ db \in Instances /\ Rests(db, produced) /\ faults \in 0..MaxFaults
      /\ "result" \in Ops /\ {} \in SUBSET Nodes
  BY DEF IInv, TypeOK, Results, Ops
<1>3. /\ <<"ack">> \in Seq(Labels) /\ Place(<<"ack">>, {}, m)
      /\ <<"save", "ack">> \in Seq(Labels) /\ Place(<<"save", "ack">>, {}, m)
      /\ <<"save", "sleep">> \in Seq(Labels) /\ Place(<<"save", "sleep">>, {}, m)
      /\ <<"save", "comp", "ack">> \in Seq(Labels) /\ Place(<<"save", "comp", "ack">>, {}, m)
  <2>1. <<"save", "sleep">> \in Seq(Labels) /\ Place(<<"save", "sleep">>, {}, m)
    BY <1>2 DEF Place, Labels
  <2> QED BY <2>1, Stack1, Stack2, Stack3, QuietLabels, PlainPlace
<1>4. CASE CompensationResult(m)
  <2> DEFINE counted == [db EXCEPT !.saga.done = @ \cup {m.node}]
  <2>1. [db.saga EXCEPT !.done = @ \cup {m.node}] \in Sagas
    BY <1>2, InstanceFields DEF Sagas
  <2>2. counted \in Instances /\ counted.nodes = db.nodes
    BY <1>2, <2>1 DEF Instances
  <2>3. Rests(counted, produced)
    BY <1>2, <2>2, RestsSameNodes
  <2>4. \/ Begin("result", db, {}, <<"ack">>, m)
        \/ Begin("result", EndCompensation(db), {}, <<"save", "ack">>, m)
        \/ Begin("result", EndCompensation(counted), {}, <<"save", "ack">>, m)
        \/ Begin("result", counted, {}, <<"save", "comp", "ack">>, m)
    BY <1>4 DEF CompensationResult
  <2> HIDE DEF counted
  <2>5. faults' = faults
    BY <1>4 DEF CompensationResult
  <2>6. /\ EndCompensation(db) \in Instances /\ Rests(EndCompensation(db), produced)
        /\ EndCompensation(counted) \in Instances /\ Rests(EndCompensation(counted), produced)
    BY <1>2, <2>2, <2>3, CompensationOK
  <2>7. CASE Begin("result", db, {}, <<"ack">>, m)
    BY <1>2, <1>3, <2>5, <2>7, BeginOK
  <2>8. CASE Begin("result", EndCompensation(db), {}, <<"save", "ack">>, m)
    BY <1>2, <1>3, <2>5, <2>6, <2>8, BeginOK
  <2>9. CASE Begin("result", EndCompensation(counted), {}, <<"save", "ack">>, m)
    BY <1>2, <1>3, <2>5, <2>6, <2>9, BeginOK
  <2>10. CASE Begin("result", counted, {}, <<"save", "comp", "ack">>, m)
    BY <1>2, <1>3, <2>2, <2>3, <2>5, <2>10, BeginOK
  <2> QED BY <2>4, <2>7, <2>8, <2>9, <2>10
<1>5. CASE LateResult(m)
  BY <1>2, <1>3, <1>5, BeginOK DEF LateResult
<1>6. CASE ErrorResult(m)
  <2> DEFINE retried == SetNode(db, m.node, [st |-> "Queued", att |-> m.att + 1, started |-> FALSE])
             failed == SetStatus(db, m.node, "Failed")
             ended == [failed EXCEPT !.status = "Failed"]
  <2>1. retried \in Instances /\ Rests(retried, produced)
    BY RetriedOK
  <2>2. failed \in Instances /\ Rests(failed, produced)
    BY <1>2, SetStatusOK DEF NodeStatus
  <2>3. \/ Begin("result", retried, {}, <<"save", "sleep">>, m)
        \/ Begin("result", BeginCompensation(failed), {}, <<"save", "comp", "ack">>, m)
        \/ Begin("result", ended, {}, <<"save", "ack">>, m)
    BY <1>6 DEF ErrorResult
  <2>4. faults' = faults
    BY <1>6 DEF ErrorResult
  <2> HIDE DEF retried, failed
  <2>5. ended \in Instances /\ Rests(ended, produced)
    BY <2>2, StatusOK DEF InstanceStatus
  <2>6. BeginCompensation(failed) \in Instances /\ Rests(BeginCompensation(failed), produced)
    BY <2>2, CompensationOK
  <2> HIDE DEF ended
  <2>7. CASE Begin("result", retried, {}, <<"save", "sleep">>, m)
    BY <1>2, <1>3, <2>1, <2>4, <2>7, BeginOK
  <2>8. CASE Begin("result", BeginCompensation(failed), {}, <<"save", "comp", "ack">>, m)
    BY <1>2, <1>3, <2>4, <2>6, <2>8, BeginOK
  <2>9. CASE Begin("result", ended, {}, <<"save", "ack">>, m)
    BY <1>2, <1>3, <2>4, <2>5, <2>9, BeginOK
  <2> QED BY <2>3, <2>7, <2>8, <2>9
<1>7. CASE SuccessResult(m)
  <2> DEFINE completed == SetStatus(db, m.node, "Completed")
             inst == CascadeSkips([completed EXCEPT !.outs[m.node] = m.out])
             over == [completed EXCEPT !.status = "Failed"]
             k == <<"dispatch", "finish", "save", "ack">>
  <2>1. /\ completed \in Instances /\ Rests(completed, produced)
        /\ inst \in Instances /\ Rests(inst, produced)
    BY <1>7, CompletedOK, CascadeOK DEF SuccessResult
  <2>2. over \in Instances /\ Rests(over, produced)
    BY <2>1, StatusOK DEF InstanceStatus
  <2>3. k \in Seq(Labels) /\ Place(k, ReadyNodes(inst), m)
    BY Stack4, QuietLabels, PlainPlace
  <2>4. \/ Begin("result", inst, ReadyNodes(inst), k, m) /\ faults' = faults
        \/ Fault("budget") /\ Begin("result", over, {}, <<"save", "ack">>, m)
    BY <1>7 DEF SuccessResult
  <2> HIDE DEF inst, over, k
  <2>5. CASE Begin("result", inst, ReadyNodes(inst), k, m) /\ faults' = faults
    BY <1>2, <2>1, <2>3, <2>5, ReadyNodesIn, BeginOK
  <2>6. CASE Fault("budget") /\ Begin("result", over, {}, <<"save", "ack">>, m)
    <3>1. faults' \in 0..MaxFaults
      BY <2>6, FaultOK DEF IInv
    <3> QED BY <1>2, <1>3, <2>2, <2>6, <3>1, BeginOK
  <2> QED BY <2>4, <2>5, <2>6
<1> QED BY <1>1, <1>4, <1>5, <1>6, <1>7

\* A good operation and any messages that are dropped or kept.
LEMMA PopStep ==
  ASSUME IInv, NEW p \in Procs, NEW label, At(p, label), Continue(p, Pop(proc[p]))
  PROVE  /\ proc' \in [Procs -> Operations]
         /\ \A s \in Procs : GoodOp(proc'[s], produced)
<1>1. GoodOp(proc[p], produced) /\ proc[p].k # << >>
  BY AtLabel DEF IInv
<1>2. GoodOp(Pop(proc[p]), produced)
  BY <1>1, PopOK
<1> QED BY <1>2, ContinueOK DEF IInv, TypeOK

\* Only the result of a worker is ever put to sleep.
LEMMA SleepOK == ASSUME IInv, NEW p \in Procs, Sleep(p) PROVE IInv'
<1>1. /\ proc' \in [Procs -> Operations]
      /\ \A s \in Procs : GoodOp(proc'[s], produced)
  BY PopStep DEF Sleep
<1>2. proc[p].msg \in Results
  <2>1. proc[p].k # << >> /\ Head(proc[p].k) = "sleep"
    BY AtLabel DEF Sleep
  <2>2. 1 \in DOMAIN proc[p].k /\ proc[p].k[1] = "sleep"
    BY <2>1, Facts, HeadTailProperties
  <2> QED BY <2>2, Facts DEF Place
<1>3. sleeping' \subseteq Results
  BY <1>2 DEF Sleep, IInv, TypeOK
<1> QED BY <1>1, <1>3, BeginStep DEF Sleep, IInv, TypeOK

LEMMA RetryDispatchOK == ASSUME IInv, RetryDispatch PROVE IInv'
<1>1. PICK m \in sleeping :
        /\ sleeping' = sleeping \ {m}
        /\ \/ Begin("retry", db, {m.node}, <<"dispatch", "ack">>, m)
           \/ Begin("retry", db, {}, <<"ack">>, m)
  BY DEF RetryDispatch
<1>2. /\ m \in Results \cup {NoMsg} /\ m.node \in Nodes /\ "retry" \in Ops
      /\ db \in Instances /\ Rests(db, produced)
      /\ {m.node} \in SUBSET Nodes /\ {} \in SUBSET Nodes
  BY DEF IInv, TypeOK, Results, Ops
<1>3. /\ <<"ack">> \in Seq(Labels) /\ Place(<<"ack">>, {}, m)
      /\ <<"dispatch", "ack">> \in Seq(Labels) /\ Place(<<"dispatch", "ack">>, {m.node}, m)
  BY Stack1, Stack2, QuietLabels, PlainPlace
<1>4. /\ proc' \in [Procs -> Operations]
      /\ \A s \in Procs : GoodOp(proc'[s], produced)
  <2>1. CASE Begin("retry", db, {m.node}, <<"dispatch", "ack">>, m)
    BY <1>2, <1>3, <2>1, BeginOK
  <2>2. CASE Begin("retry", db, {}, <<"ack">>, m)
    BY <1>2, <1>3, <2>2, BeginOK
  <2> QED BY <1>1, <2>1, <2>2
<1>5. UNCHANGED <<bus, db>> /\ boot' = boot /\ faults' = faults
  BY DEF RetryDispatch
<1> QED BY <1>1, <1>4, <1>5, BeginStep DEF IInv, TypeOK

LEMMA AckOK == ASSUME IInv, NEW p \in Procs, Ack(p) PROVE IInv'
<1>1. /\ proc' \in [Procs -> Operations]
      /\ \A s \in Procs : GoodOp(proc'[s], produced)
  BY PopStep DEF Ack
<1>2. results' \subseteq results
  BY DEF Ack
<1>3. faults' \in 0..MaxFaults
  BY FaultOK DEF Ack, IInv, TypeOK
<1>4. db' = db /\ tasks' = tasks /\ produced' = produced /\ sleeping' = sleeping
      /\ boot' = boot
  BY DEF Ack
<1>5. TypeOK'
  BY <1>1, <1>2, <1>3, <1>4 DEF IInv, TypeOK
<1> QED BY <1>1, <1>2, <1>4, <1>5 DEF IInv

LEMMA CompensateOK == ASSUME IInv, NEW p \in Procs, Compensate(p) PROVE IInv'
<1> DEFINE r == proc[p]
           pending == PendingCompensations(r.inst)
           undo == [node |-> NextCompensation(r.inst), att |-> 1, undo |-> TRUE]
           q == [Pop(r) EXCEPT !.inst = EndCompensation(@)]
<1>1. GoodOp(r, produced) /\ r.k # << >>
  BY AtLabel DEF Compensate, IInv
<1>2. GoodOp(Pop(r), produced) /\ Pop(r).inst = r.inst
  BY <1>1, PopOK
<1>3. GoodOp(q, produced)
  BY <1>2, Facts, CompensationOK, ReplaceInst
<1>4. /\ proc' \in [Procs -> Operations]
      /\ \A s \in Procs : GoodOp(proc'[s], produced)
  <2>1. Continue(p, q) \/ Continue(p, Pop(r))
    BY DEF Compensate
  <2>2. CASE Continue(p, q)
    BY <1>3, <2>2, ContinueOK DEF IInv, TypeOK
  <2>3. CASE Continue(p, Pop(r))
    BY <1>2, <2>3, ContinueOK DEF IInv, TypeOK
  <2> QED BY <2>1, <2>2, <2>3
<1>5. tasks' \subseteq Tasks
  <2>1. CASE pending # {}
    <3>1. pending \in SUBSET Nodes
      BY Facts, InstanceFields DEF PendingCompensations
    <3>2. NextCompensation(r.inst) \in Nodes
      BY <2>1, <3>1, LastExecutedIn DEF NextCompensation
    <3>3. undo \in Tasks
      BY <3>2 DEF Tasks
    <3> QED BY <3>3 DEF Compensate, IInv, TypeOK
  <2>2. CASE pending = {}
    BY <2>2 DEF Compensate, IInv, TypeOK
  <2> QED BY <2>1, <2>2
<1>6. faults' \in 0..MaxFaults
  BY FaultOK DEF Compensate, IInv, TypeOK
<1>7. db' = db /\ results' = results /\ produced' = produced /\ sleeping' = sleeping
      /\ boot' = boot
  BY DEF Compensate
<1>8. TypeOK'
  BY <1>4, <1>5, <1>6, <1>7 DEF IInv, TypeOK
<1> QED BY <1>4, <1>7, <1>8 DEF IInv

LEMMA CancelInstanceOK == ASSUME IInv, CancelInstance PROVE IInv'
<1> DEFINE inst == [db EXCEPT !.status = "Cancelled", !.nodes = CancelledNodes(db)]
<1>1. inst \in Instances /\ Rests(inst, produced)
  BY CancelledOK DEF IInv, TypeOK
<1>2. Begin("cancel", inst, {}, <<"save">>, NoMsg) /\ UNCHANGED <<bus, db, sleeping, boot, faults>>
  BY DEF CancelInstance
<1> HIDE DEF inst
<1>3. <<"save">> \in Seq(Labels) /\ Place(<<"save">>, {}, NoMsg)
  BY Stack1, QuietLabels, PlainPlace
<1>4. "cancel" \in Ops /\ NoMsg \in Results \cup {NoMsg} /\ {} \in SUBSET Nodes
  BY DEF Ops
<1>5. /\ proc' \in [Procs -> Operations]
      /\ \A s \in Procs : GoodOp(proc'[s], produced)
  BY <1>1, <1>2, <1>3, <1>4, BeginOK
<1> QED BY <1>2, <1>5, BeginStep DEF IInv, TypeOK

LEMMA ApproveNodeOK == ASSUME IInv, ApproveNode PROVE IInv'
<1>1. PICK n \in Nodes :
        Begin("approve", SetStatus(db, n, "Queued"), {n}, <<"dispatch", "save">>, NoMsg)
  BY DEF ApproveNode
<1>2. SetStatus(db, n, "Queued") \in Instances /\ Rests(SetStatus(db, n, "Queued"), produced)
  BY SetStatusOK DEF IInv, TypeOK, NodeStatus
<1>3. <<"dispatch", "save">> \in Seq(Labels) /\ Place(<<"dispatch", "save">>, {n}, NoMsg)
  BY Stack2, QuietLabels, PlainPlace
<1>4. "approve" \in Ops /\ NoMsg \in Results \cup {NoMsg} /\ {n} \in SUBSET Nodes
  BY DEF Ops
<1>5. /\ proc' \in [Procs -> Operations]
      /\ \A s \in Procs : GoodOp(proc'[s], produced)
  BY <1>1, <1>2, <1>3, <1>4, BeginOK
<1> QED BY <1>5, BeginStep DEF IInv, TypeOK, ApproveNode

LEMMA RejectNodeOK == ASSUME IInv, RejectNode PROVE IInv'
<1> DEFINE inst(n) == [SetStatus(db, n, "Failed") EXCEPT !.status = "Failed"]
<1>1. PICK n \in Nodes : Begin("reject", inst(n), {}, <<"save">>, NoMsg)
  BY DEF RejectNode
<1>2. SetStatus(db, n, "Failed") \in Instances /\ Rests(SetStatus(db, n, "Failed"), produced)
  BY SetStatusOK DEF IInv, TypeOK, NodeStatus
<1>3. inst(n) \in Instances /\ Rests(inst(n), produced)
  BY <1>2, StatusOK DEF InstanceStatus
<1> HIDE DEF inst
<1>4. <<"save">> \in Seq(Labels) /\ Place(<<"save">>, {}, NoMsg)
  BY Stack1, QuietLabels, PlainPlace
<1>5. "reject" \in Ops /\ NoMsg \in Results \cup {NoMsg} /\ {} \in SUBSET Nodes
  BY DEF Ops
<1>6. /\ proc' \in [Procs -> Operations]
      /\ \A s \in Procs : GoodOp(proc'[s], produced)
  BY <1>1, <1>3, <1>4, <1>5, BeginOK
<1> QED BY <1>6, BeginStep DEF IInv, TypeOK, RejectNode

-----------------------------------------------------------------------------
(* Start, crash, recovery and the workers. *)

LEMMA StartWorkflowOK == ASSUME IInv, StartWorkflow PROVE IInv'
<1> DEFINE inst(fired) == CompleteAtStart(NewInstance, fired)
           k(fired) == IF fired = {} THEN <<"dispatch", "finish", "save">>
                       ELSE <<"dispatch", "ready", "dispatch", "finish", "save">>
           r(fired) == [Idle EXCEPT !.op = "start", !.inst = inst(fired),
                                    !.todo = EntryActions, !.k = k(fired)]
<1>1. PICK fired \in SUBSET Triggers : Continue("start", r(fired))
  BY DEF StartWorkflow
<1>2. inst(fired) \in Instances /\ Rests(inst(fired), produced)
  BY NewInstanceOK, CompleteAtStartOK
<1>3. k(fired) \in Seq(Labels) /\ Plain(k(fired))
  BY Stack3, Stack5, QuietLabels
<1>4. EntryActions \in SUBSET Nodes /\ "start" \in Ops /\ "start" \in Procs
  BY DEF EntryActions, Ops, Procs
<1>5. Idle \in Operations
  BY IdleOK DEF GoodOp
<1> HIDE DEF inst, k
<1>6. r(fired) \in Operations /\ r(fired).k = k(fired) /\ r(fired).inst = inst(fired)
  BY <1>2, <1>3, <1>4, <1>5 DEF Operations
<1>7. GoodOp(r(fired), produced)
  BY <1>2, <1>3, <1>6, PlainPlace DEF GoodOp
<1> HIDE DEF r
<1>8. /\ proc' \in [Procs -> Operations]
      /\ \A s \in Procs : GoodOp(proc'[s], produced)
  BY <1>1, <1>4, <1>7, ContinueOK DEF IInv, TypeOK
<1>9. /\ db' = NewInstance /\ tasks' = tasks /\ results' = results /\ produced' = produced
      /\ sleeping' = sleeping /\ boot' = boot /\ faults' = faults
  BY DEF StartWorkflow, bus
<1>10. db' \in Instances /\ Rests(db', produced)
  BY <1>9, NewInstanceOK
<1>11. TypeOK'
  BY <1>8, <1>9, <1>10 DEF IInv, TypeOK
<1> QED BY <1>8, <1>9, <1>10, <1>11 DEF IInv

LEMMA StartAbortsOK == ASSUME IInv, StartAborts PROVE IInv'
<1>1. /\ db' = NewInstance /\ tasks' = tasks /\ results' = results /\ produced' = produced
      /\ sleeping' = sleeping /\ boot' = boot /\ proc' = proc
  BY DEF StartAborts, bus
<1>2. db' \in Instances /\ Rests(db', produced)
  BY <1>1, NewInstanceOK
<1>3. faults' \in 0..MaxFaults
  BY FaultOK DEF IInv, StartAborts
<1>4. TypeOK'
  BY <1>1, <1>2, <1>3 DEF IInv, TypeOK
<1> QED BY <1>1, <1>2, <1>4 DEF IInv

LEMMA CrashOK == ASSUME IInv, Crash PROVE IInv'
<1>1. /\ proc' = [p \in Procs |-> Idle] /\ sleeping' = {} /\ boot' = "list"
      /\ UNCHANGED <<bus, db>>
  BY DEF Crash
<1>2. /\ proc' \in [Procs -> Operations]
      /\ \A s \in Procs : GoodOp(proc'[s], produced)
  BY <1>1, IdleOK DEF GoodOp
<1>3. faults' \in 0..MaxFaults
  BY FaultOK DEF IInv, Crash
<1> QED BY <1>1, <1>2, <1>3, BeginStep

LEMMA ListRunningOK == ASSUME IInv, ListRunning PROVE IInv'
  BY BeginStep DEF ListRunning, IInv, TypeOK

LEMMA ResumeOK == ASSUME IInv, Resume PROVE IInv'
<1>1. /\ "resume" \in Ops /\ NoMsg \in Results \cup {NoMsg} /\ {} \in SUBSET Nodes
      /\ db \in Instances /\ Rests(db, produced)
  BY DEF Ops, IInv, TypeOK
<1>2. Reset(db) \in Instances /\ Rests(Reset(db), produced)
  BY <1>1, ResetOK
<1>3. /\ <<"comp", "save">> \in Seq(Labels) /\ Place(<<"comp", "save">>, {}, NoMsg)
      /\ <<"save", "ready", "dispatch", "save">> \in Seq(Labels)
      /\ Place(<<"save", "ready", "dispatch", "save">>, {}, NoMsg)
  BY Stack2, Stack4, QuietLabels, PlainPlace
<1>4. /\ proc' \in [Procs -> Operations]
      /\ \A s \in Procs : GoodOp(proc'[s], produced)
  <2>1. CASE proc' = proc
    BY <2>1 DEF IInv, TypeOK
  <2>2. CASE Begin("resume", db, {}, <<"comp", "save">>, NoMsg)
    BY <1>1, <1>3, <2>2, BeginOK
  <2>3. CASE Begin("resume", Reset(db), {}, <<"save", "ready", "dispatch", "save">>, NoMsg)
    BY <1>1, <1>2, <1>3, <2>3, BeginOK
  <2> QED BY <2>1, <2>2, <2>3 DEF Resume
<1>5. UNCHANGED <<bus, db>> /\ sleeping' = sleeping /\ boot' = "up" /\ faults' = faults
  BY DEF Resume
<1> QED BY <1>4, <1>5, BeginStep DEF IInv, TypeOK

LEMMA ExecuteOK == ASSUME IInv, Execute PROVE IInv'
<1> DEFINE answer(t, ok, out) == [node |-> t.node, att |-> t.att, undo |-> t.undo, ok |-> ok,
                                  out |-> IF ok THEN out ELSE "none"]
<1>1. PICK t \in tasks, ok \in BOOLEAN, out \in Outputs :
        /\ results' = results \cup {answer(t, ok, out)}
        /\ produced' = produced \cup {answer(t, ok, out)}
        /\ \/ tasks' = tasks \ {t} /\ faults' = faults
           \/ tasks' = tasks /\ Fault("dup")
  BY ZenonT(30) DEF Execute, answer
<1>2. answer(t, ok, out) \in Results
  BY DEF IInv, TypeOK, Tasks, Results
<1>3. db' = db /\ proc' = proc /\ sleeping' = sleeping /\ boot' = boot
  BY DEF Execute
<1>4. faults' \in 0..MaxFaults
  BY <1>1, FaultOK DEF IInv, TypeOK
<1> HIDE DEF answer
<1>5. TypeOK'
  BY <1>1, <1>2, <1>3, <1>4 DEF IInv, TypeOK
<1>6. produced \subseteq produced'
  BY <1>1
<1>7. Rests(db', produced')
  BY <1>3, <1>6, RestsGrows DEF IInv
<1>8. \A p \in Procs : GoodOp(proc'[p], produced')
  BY <1>3, <1>6, RestsGrows DEF IInv, GoodOp
<1> QED BY <1>1, <1>5, <1>7, <1>8 DEF IInv

-----------------------------------------------------------------------------
(* The theorems. *)

LEMMA InitOK == Init => IInv
<1> SUFFICES ASSUME Init PROVE IInv
  OBVIOUS
<1>1. db \in Instances /\ db.nodes = NewInstance.nodes
  BY NewInstanceOK DEF Init, Instances
<1>2. Rests(db, produced)
  BY <1>1, NewInstanceOK, RestsSameNodes
<1>3. proc \in [Procs -> Operations] /\ \A p \in Procs : GoodOp(proc[p], produced)
  BY IdleOK DEF Init, GoodOp
<1>4. TypeOK
  BY <1>1, <1>3, EngineAssumption DEF Init, TypeOK
<1> QED BY <1>2, <1>3, <1>4 DEF IInv, Init

LEMMA EngineStepOK == ASSUME IInv, NEW p \in Procs, EngineStep(p) PROVE IInv'
  BY GateOK, QueueNodeOK, DispatchFailsOK, PublishOK, DispatchDoneOK, DispatchErrorOK,
     DispatchErrorLostOK, FindReadyOK, FinishOK, SaveOK, SaveConflictOK, SaveErrorOK,
     RefetchOK, RefetchErrorOK, GiveUpOK, SleepOK, AckOK, CompensateOK DEF EngineStep

LEMMA NextOK == IInv /\ [Next]_vars => IInv'
<1> SUFFICES ASSUME IInv, [Next]_vars PROVE IInv'
  OBVIOUS
<1>1. CASE Next
  BY <1>1, StartWorkflowOK, StartAbortsOK, EngineStepOK, HandleResultOK, RetryDispatchOK,
     CancelInstanceOK, ApproveNodeOK, RejectNodeOK, CrashOK, ListRunningOK, ResumeOK,
     ExecuteOK DEF Next
<1>2. CASE UNCHANGED vars
  BY <1>2 DEF vars, IInv, TypeOK
<1> QED BY <1>1, <1>2

LEMMA IInvAlways == Spec => []IInv
  BY InitOK, NextOK, PTL DEF Spec

\* The engine's state is well formed in every run: in particular a task on the bus
\* names a node of the workflow and an attempt of at least 1 (dispatch_node).
THEOREM TypeOKAlways == Spec => []TypeOK
<1>1. IInv => TypeOK
  BY DEF IInv
<1> QED BY <1>1, IInvAlways, PTL

\* A node the store calls completed was completed by a worker's answer to the attempt
\* the store names: no retry, restart, merge, redelivery or race between
\* start_workflow and handle_node_result ever lets an answer to another attempt count.
THEOREM OutcomeOfThisAttemptAlways == Spec => []OutcomeOfThisAttempt
<1>1. IInv => OutcomeOfThisAttempt
  BY DEF IInv, OutcomeOfThisAttempt, Rests, Succeeded
<1> QED BY <1>1, IInvAlways, PTL

=============================================================================
