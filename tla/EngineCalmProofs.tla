---------------------------- MODULE EngineCalmProofs ----------------------------
(***************************************************************************)
(* The engine in a calm start (~RacingStart: no other operation runs while  *)
(* start_workflow does).  Then one operation at a time works on the stored  *)
(* record, and its copy can be related to the record: it is ahead of it.    *)
(* For every workflow, any number of faults, crashes, retries and           *)
(* approvals: a task on the bus is known to the store, and no node is sent  *)
(* to a worker before its turn.                                             *)
(***************************************************************************)
EXTENDS EngineProofs

\* What may become of a node's status between two saves.
Follows(old, new) ==
  \/ new = old
  \/ old = "Pending"
  \/ old = "Queued" /\ new \in {"Pending", "Completed", "Failed", "Cancelled"}
  \/ old = "WaitingApproval" /\ new \in {"Queued", "Failed", "Cancelled"}

\* A node state of a later attempt, or of the same one and not pending again.
Later(new, old) ==
  \/ new.att > old.att
  \/ new.att = old.att /\ (new.st = "Pending" => old.st = "Pending")

\* A local copy is ahead of the stored record: to save it takes no outcome back.
Ahead(inst, stored) ==
  \A n \in Nodes :
    /\ Later(inst.nodes[n], stored.nodes[n])
    /\ Follows(Status(stored, n), Status(inst, n))
    /\ Status(stored, n) \in NodeTerminal => inst.outs[n] = stored.outs[n]

\* It is the turn of node n.
Turn(inst, n) ==
  /\ \A e \in Incoming(n) : Status(inst, e.src) \in NodeTerminal
  /\ Incoming(n) # {} => \E e \in Incoming(n) : Live(inst, e)

\* Node n completed with an answer of a worker, and its output is that of the answer
\* (or was never set: a budget that is exceeded fails the instance first).
Answered(inst, n, answers) ==
  \E m \in answers : /\ m.node = n /\ ~m.undo /\ m.ok
                     /\ m.out = inst.outs[n] \/ inst.outs[n] = "none"

\* Nodes are queued, or wait for an approval, when it is their turn, and outputs are
\* those of answers.
Sound(inst, answers) ==
  /\ \A n \in Nodes : Status(inst, n) \in {"Queued", "WaitingApproval"} => Turn(inst, n)
  /\ \A n \in Nodes \ (Triggers \cup Capabilities) :
       Status(inst, n) = "Completed" => Answered(inst, n, answers)
  /\ \A n \in Nodes : inst.outs[n] # "none" => Status(inst, n) = "Completed"

\* A node that the store has as queued and the copy as pending again: a restart.
IsReset(inst, stored, n) == Status(stored, n) = "Queued" /\ Status(inst, n) = "Pending"

Has(k, labels) == \E i \in DOMAIN k : k[i] \in labels
Dispatching(k) == Has(k, {"dispatch", "publish", "ready"})

\* An operation in progress, alone with the stored record.  A restart saves before it
\* does anything else.  While an operation dispatches its version is the stored one,
\* and the task that it publishes is for the attempt that it saved.
Alone(r, stored, answers) ==
  /\ Sound(r.inst, answers) /\ Ahead(r.inst, stored)
  /\ (\E n \in Nodes : IsReset(r.inst, stored, n)) =>
       Head(r.k) = "save" /\ r.inst.version = stored.version
  /\ \A n \in r.todo : Status(r.inst, n) \notin NodeTerminal /\ Turn(r.inst, n)
  /\ Dispatching(r.k) =>
       /\ r.inst.version = stored.version /\ Head(r.k) # "refetch"
       /\ \A n \in r.todo : Status(r.inst, n) \in {"Pending", "Queued"}
  /\ Has(r.k, {"publish"}) =>
       /\ Status(r.inst, FirstDefined(r.todo)) = "Queued"
       /\ r.inst.nodes[FirstDefined(r.todo)].att = r.att
       /\ \A n \in Nodes : ~IsReset(r.inst, stored, n)
  /\ Head(r.k) = "publish" => r.inst.nodes = stored.nodes
  /\ Has(r.k, {"dispatchError"}) => r.k = <<"dispatchError">> /\ r.todo # {}

Active(p) == proc[p].k # << >>

\* The invariant of a calm start: one operation at a time, the stored record and the
\* copy of the operation in progress both sound, and the copy ahead.
CalmInv ==
  /\ ~(Active("start") /\ Active("locked"))
  /\ ~Exists => /\ ~Active("start") /\ ~Active("locked") /\ tasks = {}
                /\ db.nodes = NewInstance.nodes /\ db.outs = NewInstance.outs
  /\ Sound(db, produced)
  /\ \A p \in Procs : Active(p) => Alone(proc[p], db, produced)
  /\ PersistedBeforePublished /\ RunsInOrder

-----------------------------------------------------------------------------
(* Lemmas about records. *)

\* What is over stays over.
Keeps(new, old) ==
  \A n \in Nodes : Status(old, n) \in NodeTerminal =>
    Status(new, n) = Status(old, n) /\ new.outs[n] = old.outs[n]

LEMMA IncomingIn ==
  ASSUME NEW n, NEW e \in Incoming(n)
  PROVE  e.src \in Nodes /\ e.dst = n /\ e.cond \in Conditions /\ e.src \notin Capabilities
  BY WorkflowAssumption DEF Incoming

LEMMA TurnKept ==
  ASSUME NEW old, NEW new, NEW n, Turn(old, n), Keeps(new, old)
  PROVE  Turn(new, n)
<1>1. \A e \in Incoming(n) : Status(new, e.src) \in NodeTerminal
  BY IncomingIn DEF Turn, Keeps
<1>2. \A e \in Incoming(n) : Live(old, e) => Live(new, e)
  BY IncomingIn DEF Live, Keeps, NodeTerminal
<1> QED BY <1>1, <1>2 DEF Turn

LEMMA AheadKeeps ==
  ASSUME NEW new, NEW old, Ahead(new, old)
  PROVE  Keeps(new, old)
  BY DEF Ahead, Keeps, Follows, NodeTerminal

LEMMA AheadSelf ==
  ASSUME NEW inst \in Instances
  PROVE  Ahead(inst, inst) /\ \A n \in Nodes : ~IsReset(inst, inst, n)
<1>1. \A n \in Nodes : inst.nodes[n].att \in Nat
  BY InstanceFields DEF NodeStates
<1>2. Ahead(inst, inst)
  BY <1>1 DEF Ahead, Later, Follows
<1> QED BY <1>2 DEF IsReset

LEMMA SoundGrows ==
  ASSUME NEW inst, NEW fewer, NEW more, Sound(inst, fewer), fewer \subseteq more
  PROVE  Sound(inst, more)
<1>1. \A n : Answered(inst, n, fewer) => Answered(inst, n, more)
  BY DEF Answered
<1> QED BY <1>1 DEF Sound

\* Sound and Ahead are about node states and outputs.
LEMMA SameNodes ==
  ASSUME NEW old, NEW new, new.nodes = old.nodes, new.outs = old.outs
  PROVE  /\ \A answers : Sound(old, answers) => Sound(new, answers)
         /\ \A stored : Ahead(old, stored) => Ahead(new, stored)
         /\ \A stored : Ahead(stored, old) => Ahead(stored, new)
         /\ \A n : Turn(old, n) => Turn(new, n)
         /\ \A n : Status(new, n) = Status(old, n)
<1>1. \A n : Status(new, n) = Status(old, n)
  BY DEF Status
<1>2. \A e : Live(new, e) <=> Live(old, e)
  BY <1>1 DEF Live
<1>3. \A n : Turn(old, n) => Turn(new, n)
  BY <1>1, <1>2 DEF Turn
<1>4. \A n, answers : Answered(old, n, answers) => Answered(new, n, answers)
  BY DEF Answered
<1>5. \A answers : Sound(old, answers) => Sound(new, answers)
  BY <1>1, <1>3, <1>4 DEF Sound
<1>6. \A stored : Ahead(old, stored) => Ahead(new, stored)
  BY <1>1 DEF Ahead
<1>7. \A stored : Ahead(stored, old) => Ahead(stored, new)
  BY <1>1 DEF Ahead
<1> QED BY <1>1, <1>3, <1>5, <1>6, <1>7

\* How an operation may change the state of a node that is not over, other than by
\* completing it.
Onward(new, old) ==
  \/ new = old
  \/ /\ old.st \in {"Pending", "Queued", "WaitingApproval"} /\ new.att = old.att
     /\ new.st \in {"Failed", "Cancelled"}
  \/ /\ old.st = "Pending" /\ new.att = old.att
     /\ new.st \in {"WaitingApproval", "Skipped"}
  \/ /\ old.st \in {"Pending", "Queued", "WaitingApproval"} /\ new.att >= old.att
     /\ new.st = "Queued"

LEMMA OnwardAhead ==
  ASSUME NEW old \in Instances, NEW new \in Instances, NEW stored \in Instances,
         Ahead(old, stored), new.outs = old.outs,
         \A n \in Nodes : Onward(new.nodes[n], old.nodes[n]) /\ ~IsReset(old, stored, n)
  PROVE  Ahead(new, stored) /\ \A n \in Nodes : ~IsReset(new, stored, n)
<1>0. \A n \in Nodes : /\ old.nodes[n].att \in Nat /\ new.nodes[n].att \in Nat
                       /\ stored.nodes[n].att \in Nat
  BY InstanceFields DEF NodeStates
<1>1. \A n \in Nodes : Later(new.nodes[n], stored.nodes[n])
  <2> TAKE n \in Nodes
  <2>1. Later(old.nodes[n], stored.nodes[n]) /\ Onward(new.nodes[n], old.nodes[n])
    BY DEF Ahead
  <2> QED BY <1>0, <2>1 DEF Later, Onward
<1>2. \A n \in Nodes : Follows(Status(stored, n), Status(new, n))
  <2> TAKE n \in Nodes
  <2>1. /\ Follows(Status(stored, n), Status(old, n)) /\ Onward(new.nodes[n], old.nodes[n])
        /\ ~IsReset(old, stored, n)
    BY DEF Ahead
  <2> QED BY <2>1, Zenon DEF Follows, Onward, IsReset, Status
<1>3. \A n \in Nodes : ~IsReset(new, stored, n)
  BY DEF IsReset, Onward, Status
<1> QED BY <1>1, <1>2, <1>3 DEF Ahead

LEMMA OnwardSound ==
  ASSUME NEW old, NEW new, NEW answers, Sound(old, answers), new.outs = old.outs,
         \A n \in Nodes : Onward(new.nodes[n], old.nodes[n]),
         \A n \in Nodes : new.nodes[n].st \in {"Queued", "WaitingApproval"} =>
                            old.nodes[n].st \in {"Queued", "WaitingApproval"} \/ Turn(old, n)
  PROVE  Sound(new, answers) /\ Keeps(new, old)
<1>1. Keeps(new, old)
  BY DEF Keeps, Onward, Status, NodeTerminal
<1>2. \A n \in Nodes : Status(new, n) \in {"Queued", "WaitingApproval"} => Turn(new, n)
  BY <1>1, TurnKept DEF Sound, Status
<1>3. \A n \in Nodes : Status(new, n) = "Completed" => Status(old, n) = "Completed"
  BY DEF Onward, Status
<1>4. \A n \in Nodes : Answered(old, n, answers) => Answered(new, n, answers)
  BY DEF Answered
<1>5. \A n \in Nodes : new.outs[n] # "none" => Status(new, n) = "Completed"
  BY <1>1 DEF Sound, Keeps, NodeTerminal
<1> QED BY <1>1, <1>2, <1>3, <1>4, <1>5 DEF Sound

\* The set that the cascade skips exists (the largest one that justifies itself), and
\* so the nodes in it are pending.
Justified(inst, S) ==
  {n \in Nodes :
     /\ Status(inst, n) = "Pending"
     /\ Incoming(n) # {}
     /\ \A e \in Incoming(n) : /\ ~Live(inst, e)
                               /\ \/ e.src \in S
                                  \/ Status(inst, e.src) \in NodeTerminal}

LEMMA SkippedJustified ==
  ASSUME NEW inst
  PROVE  Skipped(inst) = Justified(inst, Skipped(inst)) /\ Skipped(inst) \subseteq Nodes
<1> DEFINE U == UNION {S \in SUBSET Nodes : S \subseteq Justified(inst, S)}
<1>1. \A S, T : S \subseteq T => Justified(inst, S) \subseteq Justified(inst, T)
  BY DEF Justified
<1>2. U \in SUBSET Nodes
  OBVIOUS
<1>3. U \subseteq Justified(inst, U)
  <2> SUFFICES ASSUME NEW n \in U PROVE n \in Justified(inst, U)
    OBVIOUS
  <2>1. PICK S \in SUBSET Nodes : S \subseteq Justified(inst, S) /\ n \in S
    OBVIOUS
  <2>2. S \subseteq U
    BY <2>1
  <2> HIDE DEF U
  <2> QED BY <1>1, <2>1, <2>2
<1>4. Justified(inst, U) \subseteq U
  <2>1. Justified(inst, U) \in SUBSET Nodes
    BY DEF Justified
  <2>2. Justified(inst, U) \subseteq Justified(inst, Justified(inst, U))
    BY <1>1, <1>3
  <2> QED BY <2>1, <2>2
<1> HIDE DEF U
<1>5. \E S \in SUBSET Nodes : S = Justified(inst, S)
  BY <1>2, <1>3, <1>4
<1>6. Skipped(inst) = CHOOSE S \in SUBSET Nodes : S = Justified(inst, S)
  BY DEF Skipped, Justified
<1> QED BY <1>5, <1>6

LEMMA CascadeOnward ==
  ASSUME NEW inst \in Instances
  PROVE  /\ CascadeSkips(inst) \in Instances
         /\ CascadeSkips(inst).outs = inst.outs
         /\ CascadeSkips(inst).version = inst.version
         /\ CascadeSkips(inst).status = inst.status /\ CascadeSkips(inst).saga = inst.saga
         /\ \A n \in Nodes : /\ Onward(CascadeSkips(inst).nodes[n], inst.nodes[n])
                             /\ CascadeSkips(inst).nodes[n].st \in {"Queued", "WaitingApproval", "Failed"} =>
                                  CascadeSkips(inst).nodes[n] = inst.nodes[n]
<1> DEFINE new == CascadeSkips(inst)
<1>1. new.nodes = [m \in Nodes |-> IF m \in Skipped(inst)
                                   THEN [inst.nodes[m] EXCEPT !.st = "Skipped"]
                                   ELSE inst.nodes[m]]
  BY DEF CascadeSkips, Instances
<1>2. \A m \in Nodes : /\ [inst.nodes[m] EXCEPT !.st = "Skipped"].st = "Skipped"
                       /\ [inst.nodes[m] EXCEPT !.st = "Skipped"].att = inst.nodes[m].att
                       /\ [inst.nodes[m] EXCEPT !.st = "Skipped"] \in NodeStates
  BY InstanceFields DEF NodeStates, NodeStatus
<1>3. \A m \in Skipped(inst) : inst.nodes[m].st = "Pending"
  BY SkippedJustified DEF Justified, Status
<1>4. \A n \in Nodes : /\ Onward(new.nodes[n], inst.nodes[n])
                       /\ new.nodes[n].st \in {"Queued", "WaitingApproval", "Failed"} =>
                            new.nodes[n] = inst.nodes[n]
  BY <1>1, <1>2, <1>3, Zenon DEF Onward
<1>5. new.nodes \in [Nodes -> NodeStates]
  BY <1>1, <1>2, InstanceFields
<1>6. /\ new \in Instances /\ new.outs = inst.outs /\ new.version = inst.version
      /\ new.status = inst.status /\ new.saga = inst.saga
  BY <1>5 DEF CascadeSkips, Instances
<1> QED BY <1>4, <1>6

LEMMA ReadyTurn ==
  ASSUME NEW inst, NEW n \in ReadyNodes(inst)
  PROVE  n \in Nodes /\ Status(inst, n) = "Pending" /\ Turn(inst, n)
  BY DEF ReadyNodes, IsReady, Turn

-----------------------------------------------------------------------------
(* Lemmas about stacks and operations. *)

LEMMA HasHead ==
  ASSUME NEW k \in Seq(Labels), k # << >>, NEW labels, Head(k) \in labels
  PROVE  Has(k, labels)
<1>1. 1 \in DOMAIN k /\ k[1] = Head(k)
  BY HeadTailProperties
<1> QED BY <1>1 DEF Has

LEMMA HasTail ==
  ASSUME NEW k \in Seq(Labels), k # << >>, NEW labels, Has(Tail(k), labels)
  PROVE  Has(k, labels)
<1>1. /\ Tail(k) \in Seq(Labels) /\ Len(Tail(k)) = Len(k) - 1 /\ Len(k) \in Nat
      /\ \A i \in 1..Len(Tail(k)) : Tail(k)[i] = k[i + 1]
  BY HeadTailProperties
<1>2. DOMAIN Tail(k) = 1..Len(Tail(k)) /\ DOMAIN k = 1..Len(k)
  BY <1>1, LenProperties
<1>3. PICK i \in 1..Len(Tail(k)) : Tail(k)[i] \in labels
  BY <1>2 DEF Has
<1>4. i + 1 \in DOMAIN k /\ k[i + 1] \in labels
  BY <1>1, <1>2, <1>3
<1> QED BY <1>4 DEF Has

LEMMA HasRefetch ==
  ASSUME NEW k \in Seq(Labels), NEW labels, "refetch" \notin labels, Has(<<"refetch">> \o k, labels)
  PROVE  Has(k, labels)
<1>1. <<"refetch">> \in Seq(Labels) /\ Len(<<"refetch">>) = 1
  BY DEF Labels
<1>2. /\ Len(<<"refetch">> \o k) = 1 + Len(k) /\ <<"refetch">> \o k \in Seq(Labels)
      /\ \A i \in 1..(1 + Len(k)) : (<<"refetch">> \o k)[i] = IF i <= 1 THEN "refetch" ELSE k[i - 1]
  BY <1>1, ConcatProperties
<1>3. DOMAIN (<<"refetch">> \o k) = 1..(1 + Len(k)) /\ DOMAIN k = 1..Len(k) /\ Len(k) \in Nat
  BY <1>2, LenProperties
<1>4. PICK i \in 1..(1 + Len(k)) : (<<"refetch">> \o k)[i] \in labels
  BY <1>3 DEF Has
<1>5. i > 1 /\ i - 1 \in DOMAIN k /\ k[i - 1] \in labels
  BY <1>2, <1>3, <1>4
<1> QED BY <1>5 DEF Has

\* Stacks that neither dispatch nor publish.
LEMMA Silent ==
  ASSUME NEW labels, {"save", "ack", "comp", "finish", "sleep", "dispatchError"} \cap labels = {}
  PROVE  /\ ~Has(<<"save">>, labels) /\ ~Has(<<"ack">>, labels) /\ ~Has(<<"dispatchError">>, labels)
         /\ ~Has(<<"save", "ack">>, labels) /\ ~Has(<<"save", "sleep">>, labels)
         /\ ~Has(<<"finish", "save">>, labels) /\ ~Has(<<"comp", "save">>, labels)
         /\ ~Has(<<"save", "comp", "ack">>, labels)
<1>1. \A a \in {"save", "ack", "dispatchError"} : ~Has(<<a>>, labels)
  BY DEF Has
<1>2. \A a \in {"save", "finish", "comp"}, b \in {"ack", "sleep", "save"} : ~Has(<<a, b>>, labels)
  BY DEF Has
<1>3. ~Has(<<"save", "comp", "ack">>, labels)
  BY DEF Has
<1> QED BY <1>1, <1>2, <1>3

LEMMA SilentPush ==
  ASSUME NEW k \in Seq(Labels), NEW a \in Labels, NEW b \in Labels, NEW labels,
         a \notin labels, b \notin labels, ~Has(k, labels)
  PROVE  ~Has(<<a, b>> \o k, labels)
<1>1. <<a, b>> \in Seq(Labels) /\ Len(<<a, b>>) = 2
  OBVIOUS
<1>2. /\ Len(<<a, b>> \o k) = 2 + Len(k) /\ <<a, b>> \o k \in Seq(Labels)
      /\ \A i \in 1..(2 + Len(k)) :
           (<<a, b>> \o k)[i] = IF i <= 2 THEN <<a, b>>[i] ELSE k[i - 2]
  BY <1>1, ConcatProperties
<1>3. /\ DOMAIN (<<a, b>> \o k) = 1..(2 + Len(k))
      /\ DOMAIN k = 1..Len(k) /\ Len(k) \in Nat
  BY <1>2, LenProperties
<1>4. SUFFICES ASSUME NEW i \in 1..(2 + Len(k)), (<<a, b>> \o k)[i] \in labels PROVE FALSE
  BY <1>3 DEF Has
<1>5. i > 2
  <2>1. i <= 2 => (<<a, b>> \o k)[i] \in {a, b}
    BY <1>2, <1>4
  <2> QED BY <1>4, <2>1, <1>3
<1>6. i - 2 \in DOMAIN k /\ k[i - 2] \in labels
  BY <1>2, <1>3, <1>4, <1>5
<1> QED BY <1>6 DEF Has

\* An operation that is not about to publish, and does not restart anything.
LEMMA AloneIf ==
  ASSUME NEW q, NEW stored, NEW answers, q.k \in Seq(Labels), q.k # << >>,
         Sound(q.inst, answers), Ahead(q.inst, stored),
         \A n \in Nodes : ~IsReset(q.inst, stored, n),
         \A n \in q.todo : Status(q.inst, n) \notin NodeTerminal /\ Turn(q.inst, n),
         Has(q.k, {"dispatchError"}) => q.k = <<"dispatchError">> /\ q.todo # {},
         Dispatching(q.k) => /\ q.inst.version = stored.version /\ Plain(q.k)
                             /\ \A n \in q.todo : Status(q.inst, n) \in {"Pending", "Queued"}
  PROVE  Alone(q, stored, answers)
<1>1. ASSUME Has(q.k, {"publish"}) PROVE Dispatching(q.k)
  BY <1>1 DEF Has, Dispatching
<1>2. Plain(q.k) => ~Has(q.k, {"publish"}) /\ Head(q.k) # "refetch"
  <2>1. 1 \in DOMAIN q.k /\ q.k[1] = Head(q.k)
    BY HeadTailProperties
  <2> QED BY <2>1 DEF Plain, Has
<1>3. ~Has(q.k, {"publish"})
  BY <1>1, <1>2
<1>4. Head(q.k) # "publish"
  BY <1>3, HasHead
<1> QED BY <1>2, <1>3, <1>4 DEF Alone

\* A step of the one operation in progress, or of one that starts.
LEMMA CalmStep ==
  ASSUME CalmInv, proc \in [Procs -> Operations], NEW p \in Procs, NEW q, Continue(p, q),
         \A o \in Procs \ {p} : ~Active(o),
         q.k # << >> => Alone(q, db', produced'), Exists', Sound(db, produced)',
         PersistedBeforePublished', RunsInOrder'
  PROVE  CalmInv'
<1> DEFINE s == IF q.k = << >> THEN Idle ELSE q
<1>1. proc' = [proc EXCEPT ![p] = s]
  BY DEF Continue
<1>2. Idle.k = << >>
  BY DEF Idle
<1>3. \A o \in Procs : proc'[o] = IF o = p THEN s ELSE proc[o]
  BY <1>1
<1>4. \A o \in Procs : Active(o)' => o = p /\ proc'[o] = q /\ q.k # << >>
  BY <1>2, <1>3 DEF Active
<1>5. ~(Active("start") /\ Active("locked"))'
  BY <1>4 DEF Procs
<1>6. (\A o \in Procs : Active(o) => Alone(proc[o], db, produced))'
  BY <1>4
<1> QED BY <1>5, <1>6 DEF CalmInv

\* The same, when the step touches neither the store nor the bus.
LEMMA CalmLocal ==
  ASSUME CalmInv, IInv, NEW p \in Procs, NEW q, Continue(p, q), Active(p),
         q.k # << >> => Alone(q, db, produced),
         UNCHANGED <<db, tasks, produced>>
  PROVE  CalmInv'
<1>1. \A o \in Procs \ {p} : ~Active(o)
  BY DEF CalmInv, Procs
<1>2. Exists /\ Exists'
  BY DEF CalmInv, Exists, Procs
<1>3. q.k # << >> => Alone(q, db', produced')
  OBVIOUS
<1>4. Sound(db, produced)' /\ PersistedBeforePublished' /\ RunsInOrder'
  BY DEF CalmInv, PersistedBeforePublished, RunsInOrder, Succeeded, Status
<1>5. proc \in [Procs -> Operations]
  BY DEF IInv, TypeOK
<1> QED BY <1>1, <1>2, <1>3, <1>4, <1>5, CalmStep

\* What is known of the operation in progress when it takes a step.
LEMMA CalmFacts ==
  ASSUME IInv, CalmInv, NEW p \in Procs, NEW label, At(p, label)
  PROVE  /\ Active(p) /\ Exists /\ \A o \in Procs \ {p} : ~Active(o)
         /\ Sound(proc[p].inst, produced) /\ Ahead(proc[p].inst, db)
         /\ label # "save" => \A n \in Nodes : ~IsReset(proc[p].inst, db, n)
         /\ \A n \in proc[p].todo : /\ Status(proc[p].inst, n) \notin NodeTerminal
                                    /\ Turn(proc[p].inst, n) /\ n \in Nodes
         /\ label \in {"dispatch", "publish", "ready"} => Dispatching(proc[p].k)
         /\ Dispatching(proc[p].k) =>
              /\ proc[p].inst.version = db.version /\ label # "refetch"
              /\ \A n \in proc[p].todo : Status(proc[p].inst, n) \in {"Pending", "Queued"}
         /\ IF label = "dispatchError" THEN proc[p].todo # {} ELSE ~Has(proc[p].k, {"dispatchError"})
<1>1. Active(p) /\ Head(proc[p].k) = label
  BY DEF At, Active
<1>2. Exists /\ \A o \in Procs \ {p} : ~Active(o)
  BY <1>1 DEF CalmInv, Procs
<1>3. Alone(proc[p], db, produced)
  BY <1>1 DEF CalmInv
<1>4. label \in {"dispatch", "publish", "ready"} => Dispatching(proc[p].k)
  BY <1>1, Facts, HasHead DEF Active, Dispatching
<1>5. proc[p].todo \in SUBSET Nodes
  BY Facts
<1>6. IF label = "dispatchError" THEN proc[p].todo # {} ELSE ~Has(proc[p].k, {"dispatchError"})
  <2>1. label = "dispatchError" => Has(proc[p].k, {"dispatchError"})
    BY <1>1, Facts, HasHead DEF Active
  <2>2. Head(<<"dispatchError">>) = "dispatchError"
    OBVIOUS
  <2> QED BY <1>1, <1>3, <2>1, <2>2 DEF Alone
<1> QED BY <1>1, <1>2, <1>3, <1>4, <1>5, <1>6 DEF Alone

LEMMA SetNodeFields ==
  ASSUME NEW inst \in Instances, NEW n \in Nodes, NEW ns \in NodeStates
  PROVE  /\ SetNode(inst, n, ns) \in Instances /\ SetNode(inst, n, ns).outs = inst.outs
         /\ SetNode(inst, n, ns).version = inst.version
         /\ SetNode(inst, n, ns).status = inst.status /\ SetNode(inst, n, ns).saga = inst.saga
         /\ \A m \in Nodes : SetNode(inst, n, ns).nodes[m] = IF m = n THEN ns ELSE inst.nodes[m]
  BY DEF SetNode, Instances

LEMMA SetStatusFields ==
  ASSUME NEW inst \in Instances, NEW n \in Nodes, NEW st \in NodeStatus
  PROVE  LET new == SetStatus(inst, n, st)
             ns == [inst.nodes[n] EXCEPT !.st = st]
         IN /\ new \in Instances /\ new.outs = inst.outs /\ new.version = inst.version
            /\ new.status = inst.status /\ new.saga = inst.saga
            /\ \A m \in Nodes : new.nodes[m] = IF m = n THEN ns ELSE inst.nodes[m]
            /\ ns \in NodeStates /\ ns.st = st /\ ns.att = inst.nodes[n].att
<1> DEFINE ns == [inst.nodes[n] EXCEPT !.st = st]
<1>1. ns \in NodeStates /\ ns.st = st /\ ns.att = inst.nodes[n].att
  BY InstanceFields DEF NodeStates
<1>2. SetStatus(inst, n, st) = SetNode(inst, n, ns)
  BY DEF SetStatus, SetNode, Instances
<1> QED BY <1>1, <1>2, SetNodeFields

LEMMA AllOnward ==
  ASSUME NEW inst \in Instances, NEW new \in Instances, NEW stored \in Instances, NEW answers,
         new.outs = inst.outs, Sound(inst, answers), Ahead(inst, stored),
         \A m \in Nodes : ~IsReset(inst, stored, m),
         \A m \in Nodes : Onward(new.nodes[m], inst.nodes[m]),
         \A m \in Nodes : new.nodes[m].st \in {"Queued", "WaitingApproval"} =>
                            inst.nodes[m].st \in {"Queued", "WaitingApproval"} \/ Turn(inst, m)
  PROVE  /\ Sound(new, answers) /\ Ahead(new, stored) /\ Keeps(new, inst)
         /\ \A m \in Nodes : ~IsReset(new, stored, m)
  BY OnwardSound, OnwardAhead

-----------------------------------------------------------------------------
(* Dispatching, in a calm start. *)

LEMMA CalmGate == ASSUME IInv, CalmInv, NEW p \in Procs, Gate(p) PROVE CalmInv'
<1> DEFINE r == proc[p]
           n == FirstDefined(r.todo)
           ns == WaitingNode(r.inst.nodes[n])
           q == [r EXCEPT !.todo = @ \ {n},
                          !.inst = SetNode(@, n, WaitingNode(@.nodes[n]))]
<1>0. At(p, "dispatch") /\ r.todo # {} /\ Gated(r.inst, n) /\ Continue(p, q)
  BY DEF Gate
<1>1. n \in Nodes /\ n \in r.todo
  BY <1>0, Facts, FirstDefinedIn
<1>2. Status(r.inst, n) = "Pending" /\ Turn(r.inst, n)
  BY <1>0, <1>1, CalmFacts DEF Gated
<1>3. r.inst \in Instances /\ r.inst.nodes[n] \in NodeStates /\ db \in Instances
  BY <1>1, Facts, InstanceFields
<1>4. ns \in NodeStates /\ ns.st = "WaitingApproval" /\ ns.att = r.inst.nodes[n].att
  BY <1>3 DEF WaitingNode, NodeStates, NodeStatus
<1> DEFINE new == SetNode(r.inst, n, ns)
<1>5. q.inst = new /\ q.k = r.k /\ q.todo = r.todo \ {n}
  BY Facts DEF Operations
<1> HIDE DEF ns, q, n
<1>6. /\ new \in Instances /\ new.outs = r.inst.outs /\ new.version = r.inst.version
      /\ \A m \in Nodes : new.nodes[m] = IF m = n THEN ns ELSE r.inst.nodes[m]
  <2>1. r.inst \in Instances /\ n \in Nodes /\ ns \in NodeStates
    BY <1>1, <1>3, <1>4
  <2> QED BY ONLY <2>1, SetNodeFields
<1> HIDE DEF new
<1>7. /\ \A m \in Nodes : Onward(new.nodes[m], r.inst.nodes[m])
      /\ \A m \in Nodes : new.nodes[m].st \in {"Queued", "WaitingApproval"} =>
                           r.inst.nodes[m].st \in {"Queued", "WaitingApproval"} \/ Turn(r.inst, m)
  <2>1. Onward(ns, r.inst.nodes[n])
    BY <1>2, <1>4 DEF Onward, Status
  <2>2. \A m \in Nodes : m # n => Onward(new.nodes[m], r.inst.nodes[m])
    BY <1>6 DEF Onward
  <2> QED BY <1>2, <1>6, <2>1, <2>2
<1>8. /\ Sound(new, produced) /\ Ahead(new, db) /\ Keeps(new, r.inst)
      /\ \A m \in Nodes : ~IsReset(new, db, m)
  <2>1. /\ Sound(r.inst, produced) /\ Ahead(r.inst, db)
        /\ \A m \in Nodes : ~IsReset(r.inst, db, m)
    BY <1>0, CalmFacts
  <2> QED BY <1>3, <1>6, <1>7, <2>1, AllOnward
<1>9. \A m \in q.todo : /\ Status(new, m) = Status(r.inst, m) /\ Turn(new, m)
                        /\ Status(new, m) \in {"Pending", "Queued"}
                        /\ Status(new, m) \notin NodeTerminal
  BY <1>0, <1>5, <1>6, <1>8, CalmFacts, TurnKept DEF Status
<1>10. Alone(q, db, produced)
  BY <1>0, <1>5, <1>6, <1>8, <1>9, AloneIf, CalmFacts, AtLabel, Facts
<1> QED BY <1>0, <1>10, CalmFacts, CalmLocal DEF Gate, bus

LEMMA CalmQueueNode == ASSUME IInv, CalmInv, NEW p \in Procs, QueueNode(p) PROVE CalmInv'
<1> DEFINE r == proc[p]
           n == FirstDefined(r.todo)
           ns == QueuedNode(r.inst.nodes[n])
           q == [r EXCEPT !.k = <<"save", "publish">> \o @,
                          !.inst = SetNode(@, n, QueuedNode(@.nodes[n])),
                          !.att = QueuedNode(r.inst.nodes[n]).att]
<1>0. At(p, "dispatch") /\ r.todo # {} /\ ~Gated(r.inst, n) /\ Continue(p, q)
  BY DEF QueueNode
<1>1. n \in Nodes /\ n \in r.todo
  BY <1>0, Facts, FirstDefinedIn
<1>2. Status(r.inst, n) \in {"Pending", "Queued"} /\ Turn(r.inst, n)
  BY <1>0, <1>1, CalmFacts
<1>3. r.inst \in Instances /\ r.inst.nodes[n] \in NodeStates /\ db \in Instances
  BY <1>1, Facts, InstanceFields
<1>4. ns \in NodeStates /\ ns.st = "Queued" /\ ns.att >= r.inst.nodes[n].att /\ ns.att \in Nat
  <2>1. r.inst.nodes[n].att \in Nat
    BY <1>3 DEF NodeStates
  <2> QED BY <1>3, <2>1 DEF QueuedNode, NodeStates, NodeStatus
<1> DEFINE new == SetNode(r.inst, n, ns)
<1>5. q.inst = new /\ q.k = <<"save", "publish">> \o r.k /\ q.todo = r.todo /\ q.att = ns.att
  BY Facts DEF Operations
<1> HIDE DEF ns, q, n
<1>6. /\ new \in Instances /\ new.outs = r.inst.outs /\ new.version = r.inst.version
      /\ \A m \in Nodes : new.nodes[m] = IF m = n THEN ns ELSE r.inst.nodes[m]
  <2>1. r.inst \in Instances /\ n \in Nodes /\ ns \in NodeStates
    BY <1>1, <1>3, <1>4
  <2> QED BY ONLY <2>1, SetNodeFields
<1> HIDE DEF new
<1>7. /\ \A m \in Nodes : Onward(new.nodes[m], r.inst.nodes[m])
      /\ \A m \in Nodes : new.nodes[m].st \in {"Queued", "WaitingApproval"} =>
                           r.inst.nodes[m].st \in {"Queued", "WaitingApproval"} \/ Turn(r.inst, m)
  <2>1. Onward(ns, r.inst.nodes[n])
    BY <1>2, <1>4 DEF Onward, Status
  <2>2. \A m \in Nodes : m # n => Onward(new.nodes[m], r.inst.nodes[m])
    BY <1>6 DEF Onward
  <2> QED BY <1>2, <1>6, <2>1, <2>2
<1>8. /\ Sound(new, produced) /\ Ahead(new, db) /\ Keeps(new, r.inst)
      /\ \A m \in Nodes : ~IsReset(new, db, m)
  <2>1. /\ Sound(r.inst, produced) /\ Ahead(r.inst, db)
        /\ \A m \in Nodes : ~IsReset(r.inst, db, m)
    BY <1>0, CalmFacts
  <2> QED BY <1>3, <1>6, <1>7, <2>1, AllOnward
<1>9. \A m \in q.todo : /\ Turn(new, m) /\ Status(new, m) \in {"Pending", "Queued"}
                        /\ Status(new, m) \notin NodeTerminal
  <2>1. \A m \in r.todo : m \in Nodes /\ Status(r.inst, m) \in {"Pending", "Queued"} /\ Turn(r.inst, m)
    BY <1>0, CalmFacts
  <2>2. \A m \in r.todo : Status(new, m) \in {"Pending", "Queued"}
    BY <1>4, <1>6, <2>1 DEF Status
  <2> QED BY <1>5, <1>8, <2>1, <2>2, TurnKept DEF NodeTerminal
<1>10. Head(q.k) = "save" /\ q.k # << >>
  <2>1. <<"save", "publish">> \in Seq(Labels) /\ r.k \in Seq(Labels)
    BY Facts DEF Labels
  <2>2. /\ q.k \in Seq(Labels) /\ Len(q.k) = 2 + Len(r.k) /\ Len(r.k) \in Nat
        /\ q.k[1] = <<"save", "publish">>[1]
    BY <1>5, <2>1, ConcatProperties
  <2> QED BY <2>2, HeadTailProperties
<1>11. new.version = db.version
  BY <1>0, <1>6, CalmFacts
<1>12. Status(new, n) = "Queued" /\ new.nodes[n].att = q.att
  BY <1>1, <1>4, <1>5, <1>6 DEF Status
<1>13. Alone(q, db, produced)
  <2>1. FirstDefined(q.todo) = n
    BY <1>5 DEF n
  <2>2. ~Has(q.k, {"dispatchError"})
    <3>1. ~Has(r.k, {"dispatchError"}) /\ r.k \in Seq(Labels)
      BY <1>0, CalmFacts, Facts
    <3>2. "save" \in Labels /\ "publish" \in Labels
      BY DEF Labels
    <3> QED BY <1>5, <3>1, <3>2, SilentPush
  <2> QED BY <1>5, <1>8, <1>9, <1>10, <1>11, <1>12, <2>1, <2>2 DEF Alone
<1> QED BY <1>0, <1>13, CalmFacts, CalmLocal DEF QueueNode, bus

\* A new state of one node.
LEMMA OneNode ==
  ASSUME NEW inst, NEW new, NEW n \in Nodes, NEW ns, Onward(ns, inst.nodes[n]),
         \A m \in Nodes : new.nodes[m] = IF m = n THEN ns ELSE inst.nodes[m],
         ns.st \in {"Queued", "WaitingApproval"} => Turn(inst, n)
  PROVE  /\ \A m \in Nodes : Onward(new.nodes[m], inst.nodes[m])
         /\ \A m \in Nodes : new.nodes[m].st \in {"Queued", "WaitingApproval"} =>
                              inst.nodes[m].st \in {"Queued", "WaitingApproval"} \/ Turn(inst, m)
<1>1. \A m \in Nodes : m # n => Onward(new.nodes[m], inst.nodes[m])
  BY DEF Onward
<1> QED BY <1>1

LEMMA CalmDispatchFails == ASSUME IInv, CalmInv, NEW p \in Procs, DispatchFails(p) PROVE CalmInv'
<1> DEFINE r == proc[p]
           n == FirstDefined(r.todo)
           ns == IF Gated(r.inst, n) THEN WaitingNode(r.inst.nodes[n])
                                     ELSE QueuedNode(r.inst.nodes[n])
           q == [r EXCEPT !.k = <<"dispatchError">>,
                          !.inst = SetNode(@, n, IF Gated(@, n)
                                                 THEN WaitingNode(@.nodes[n])
                                                 ELSE QueuedNode(@.nodes[n]))]
           new == SetNode(r.inst, n, ns)
<1>0. At(p, "dispatch") /\ r.todo # {} /\ Continue(p, q)
  BY DEF DispatchFails
<1>1. n \in Nodes /\ n \in r.todo
  BY <1>0, Facts, FirstDefinedIn
<1>2. Status(r.inst, n) \in {"Pending", "Queued"} /\ Turn(r.inst, n)
  BY <1>0, <1>1, CalmFacts
<1>3. r.inst \in Instances /\ r.inst.nodes[n] \in NodeStates /\ db \in Instances
  BY <1>1, Facts, InstanceFields
<1>4. ns \in NodeStates /\ Onward(ns, r.inst.nodes[n]) /\ ns.st \in {"Queued", "WaitingApproval"}
  <2>1. r.inst.nodes[n].att \in Nat
    BY <1>3 DEF NodeStates
  <2>2. CASE Gated(r.inst, n)
    <3>1. /\ WaitingNode(r.inst.nodes[n]) \in NodeStates
          /\ WaitingNode(r.inst.nodes[n]).st = "WaitingApproval"
          /\ WaitingNode(r.inst.nodes[n]).att = r.inst.nodes[n].att
      BY <1>3 DEF WaitingNode, NodeStates, NodeStatus
    <3>2. r.inst.nodes[n].st = "Pending"
      BY <1>2, <2>2 DEF Gated, Status
    <3> QED BY <2>2, <3>1, <3>2 DEF Onward
  <2>3. CASE ~Gated(r.inst, n)
    <3>1. /\ QueuedNode(r.inst.nodes[n]) \in NodeStates
          /\ QueuedNode(r.inst.nodes[n]).st = "Queued"
          /\ QueuedNode(r.inst.nodes[n]).att >= r.inst.nodes[n].att
      BY <1>3, <2>1 DEF QueuedNode, NodeStates, NodeStatus
    <3>2. r.inst.nodes[n].st \in {"Pending", "Queued"}
      BY <1>2 DEF Status
    <3> QED BY <2>3, <3>1, <3>2 DEF Onward
  <2> QED BY <2>2, <2>3
<1>5. q.inst = new /\ q.k = <<"dispatchError">> /\ q.todo = r.todo
  BY Facts DEF Operations
<1>6. q.k \in Seq(Labels) /\ q.k # << >>
  BY <1>5, Stack1, QuietLabels
<1> HIDE DEF ns, q, n
<1>7. /\ new \in Instances /\ new.outs = r.inst.outs /\ new.version = r.inst.version
      /\ \A m \in Nodes : new.nodes[m] = IF m = n THEN ns ELSE r.inst.nodes[m]
  <2>1. r.inst \in Instances /\ n \in Nodes /\ ns \in NodeStates
    BY <1>1, <1>3, <1>4
  <2> QED BY ONLY <2>1, SetNodeFields
<1> HIDE DEF new
<1>8. /\ \A m \in Nodes : Onward(new.nodes[m], r.inst.nodes[m])
      /\ \A m \in Nodes : new.nodes[m].st \in {"Queued", "WaitingApproval"} =>
                           r.inst.nodes[m].st \in {"Queued", "WaitingApproval"} \/ Turn(r.inst, m)
  <2>1. /\ n \in Nodes /\ Onward(ns, r.inst.nodes[n]) /\ Turn(r.inst, n)
        /\ \A m \in Nodes : new.nodes[m] = IF m = n THEN ns ELSE r.inst.nodes[m]
    BY <1>1, <1>2, <1>4, <1>7
  <2> QED BY ONLY <2>1, OneNode
<1>9. /\ Sound(new, produced) /\ Ahead(new, db) /\ Keeps(new, r.inst)
      /\ \A m \in Nodes : ~IsReset(new, db, m)
  <2>1. /\ Sound(r.inst, produced) /\ Ahead(r.inst, db)
        /\ \A m \in Nodes : ~IsReset(r.inst, db, m)
    BY <1>0, CalmFacts
  <2> QED BY <1>3, <1>7, <1>8, <2>1, AllOnward
<1>10. \A m \in q.todo : Turn(new, m) /\ Status(new, m) \notin NodeTerminal
  <2>1. \A m \in r.todo : m \in Nodes /\ Status(r.inst, m) \in {"Pending", "Queued"} /\ Turn(r.inst, m)
    BY <1>0, CalmFacts
  <2>2. \A m \in r.todo : Status(new, m) \in {"Pending", "Queued", "WaitingApproval"}
    BY <1>4, <1>7, <2>1 DEF Status
  <2> QED BY <1>5, <1>9, <2>1, <2>2, TurnKept DEF NodeTerminal
<1>11. ~Dispatching(q.k)
  BY <1>5, Silent DEF Dispatching
<1>12. Alone(q, db, produced)
  BY <1>0, <1>5, <1>6, <1>9, <1>10, <1>11, AloneIf
<1> QED BY <1>0, <1>12, CalmFacts, CalmLocal DEF DispatchFails, bus

\* An operation goes on to what is left, with the same node states.
LEMMA AlonePop ==
  ASSUME IInv, CalmInv, NEW p \in Procs, NEW label, At(p, label), label \notin {"save", "refetch"},
         NEW q, q.k = Tail(proc[p].k), q.k # << >>, q.inst.nodes = proc[p].inst.nodes,
         q.inst.outs = proc[p].inst.outs, q.inst.version = proc[p].inst.version,
         q.todo \subseteq proc[p].todo
  PROVE  Alone(q, db, produced)
<1>1. q.k \in Seq(Labels) /\ Plain(q.k)
  BY AtLabel
<1>2. \A labels : Has(q.k, labels) => Has(proc[p].k, labels)
  BY Facts, HasTail DEF At
<1>3. /\ Sound(q.inst, produced) /\ Ahead(q.inst, db)
      /\ \A n : Turn(proc[p].inst, n) => Turn(q.inst, n)
      /\ \A n : Status(q.inst, n) = Status(proc[p].inst, n)
  BY CalmFacts, SameNodes
<1>4. \A n \in Nodes : ~IsReset(q.inst, db, n)
  BY <1>3, CalmFacts DEF IsReset
<1>5. \A n \in q.todo : Status(q.inst, n) \notin NodeTerminal /\ Turn(q.inst, n)
  BY <1>3, CalmFacts
<1>6. Dispatching(q.k) => /\ q.inst.version = db.version
                          /\ \A n \in q.todo : Status(q.inst, n) \in {"Pending", "Queued"}
  BY <1>2, <1>3, CalmFacts DEF Dispatching
<1>7. ~Has(q.k, {"dispatchError"})
  <2>1. CASE label # "dispatchError"
    BY <1>2, <2>1, CalmFacts
  <2>2. CASE label = "dispatchError"
    <3>1. Alone(proc[p], db, produced) /\ Has(proc[p].k, {"dispatchError"})
      BY <2>2, Facts, HasHead DEF CalmInv, Active, At
    <3>2. proc[p].k = <<"dispatchError">>
      BY <3>1 DEF Alone
    <3>3. Tail(<<"dispatchError">>) = << >>
      OBVIOUS
    <3> QED BY <3>2, <3>3
  <2> QED BY <2>1, <2>2
<1> QED BY <1>1, <1>3, <1>4, <1>5, <1>6, <1>7, AloneIf

\* A live edge rests on the answer of its source.
LEMMA LiveAnswered ==
  ASSUME NEW inst, Sound(inst, produced), NEW n, NEW e \in Incoming(n), Live(inst, e)
  PROVE  e.src \in Triggers \/ \E m \in Succeeded(e.src) : e.cond \in {"always", m.out}
<1>1. e.src \in Nodes /\ e.src \notin Capabilities /\ e.cond \in {"always", "yes", "no"}
  BY IncomingIn DEF Conditions, Outputs
<1>2. SUFFICES ASSUME e.src \notin Triggers
               PROVE  \E m \in Succeeded(e.src) : e.cond \in {"always", m.out}
  OBVIOUS
<1>3. Answered(inst, e.src, produced) /\ e.cond \in {"always", inst.outs[e.src]}
  BY <1>1, <1>2 DEF Sound, Live
<1>4. PICK m \in produced : /\ m.node = e.src /\ ~m.undo /\ m.ok
                            /\ m.out = inst.outs[e.src] \/ inst.outs[e.src] = "none"
  BY <1>3 DEF Answered
<1>5. e.cond \in {"always", m.out}
  BY <1>1, <1>3, <1>4
<1> QED BY <1>4, <1>5 DEF Succeeded

LEMMA CalmPublish == ASSUME IInv, CalmInv, NEW p \in Procs, Publish(p) PROVE CalmInv'
<1> DEFINE r == proc[p]
           n == FirstDefined(r.todo)
           task == [node |-> n, att |-> r.att, undo |-> FALSE]
<1>0. At(p, "publish") /\ r.k \in Seq(Labels) /\ r.k # << >> /\ Head(r.k) = "publish"
  BY Facts DEF Publish, At
<1>1. r.todo # {}
  <2>1. 1 \in DOMAIN r.k /\ r.k[1] = "publish"
    BY <1>0, HeadTailProperties
  <2> QED BY <2>1, Facts DEF Place
<1>2. n \in Nodes /\ n \in r.todo
  BY <1>1, Facts, FirstDefinedIn
<1>3. /\ Status(r.inst, n) = "Queued" /\ r.inst.nodes[n].att = r.att
      /\ r.inst.nodes = db.nodes /\ \A m \in Nodes : ~IsReset(r.inst, db, m)
  <2>1. Alone(r, db, produced) /\ Has(r.k, {"publish"})
    BY <1>0, HasHead DEF CalmInv, Active, At
  <2> QED BY <1>0, <2>1 DEF Alone
<1> HIDE DEF n
<1>4. CASE /\ tasks' = tasks \cup {task}
           /\ Continue(p, [Pop(r) EXCEPT !.todo = @ \ {n}])
           /\ UNCHANGED <<db, produced>>
  <2> DEFINE q == [Pop(r) EXCEPT !.todo = @ \ {n}]
  <2>1. q.k = Tail(r.k) /\ q.inst = r.inst /\ q.todo = r.todo \ {n}
    <3>1. r \in Operations
      BY Facts
    <3>2. Tail(r.k) \in Seq(Labels)
      BY <1>0, AtLabel
    <3> QED BY <3>1, <3>2 DEF Pop, Operations
  <2> HIDE DEF q
  <2>2. q.k # << >> => Alone(q, db, produced)
    BY <1>0, <2>1, AlonePop
  <2>3. Turn(r.inst, n) /\ Sound(r.inst, produced)
    BY <1>0, <1>2, CalmFacts
  <2>4. PersistedBeforePublished'
    <3> SUFFICES ASSUME NEW t \in tasks', ~t.undo
                 PROVE  \/ t.att < db.nodes[t.node].att
                        \/ t.att = db.nodes[t.node].att /\ Status(db, t.node) # "Pending"
      BY <1>4 DEF PersistedBeforePublished, Status
    <3>1. CASE t \in tasks
      BY <3>1 DEF CalmInv, PersistedBeforePublished
    <3>2. CASE t = task
      BY <1>3, <3>2 DEF Status
    <3> QED BY <1>4, <3>1, <3>2
  <2>5. RunsInOrder'
    <3> SUFFICES ASSUME NEW t \in tasks', ~t.undo, Incoming(t.node) # {}
                 PROVE  /\ \A e \in Incoming(t.node) : Status(db, e.src) \in NodeTerminal
                        /\ \E e \in Incoming(t.node) :
                             \/ e.src \in Triggers
                             \/ \E m \in Succeeded(e.src) : e.cond \in {"always", m.out}
      BY <1>4 DEF RunsInOrder, Status, Succeeded
    <3>1. CASE t \in tasks
      BY <3>1 DEF CalmInv, RunsInOrder
    <3>2. CASE t = task
      <4>1. t.node = n
        BY <3>2
      <4>2. \A e \in Incoming(n) : Status(db, e.src) \in NodeTerminal
        BY <1>3, <2>3 DEF Turn, Status
      <4>3. PICK e \in Incoming(n) : Live(r.inst, e)
        BY <2>3, <4>1 DEF Turn
      <4> QED BY <2>3, <4>1, <4>2, <4>3, LiveAnswered
    <3> QED BY <1>4, <3>1, <3>2
  <2>6. Exists' /\ Sound(db, produced)' /\ \A o \in Procs \ {p} : ~Active(o)
    <3>1. Exists /\ Sound(db, produced) /\ \A o \in Procs \ {p} : ~Active(o)
      BY <1>0, CalmFacts DEF CalmInv
    <3> QED BY <1>4, <3>1 DEF Exists
  <2>7. Continue(p, q) /\ db' = db /\ produced' = produced
    BY <1>4 DEF q
  <2>8. proc \in [Procs -> Operations] /\ (q.k # << >> => Alone(q, db', produced'))
    BY <2>2, <2>7 DEF IInv, TypeOK
  <2> QED BY <2>4, <2>5, <2>6, <2>7, <2>8, CalmStep
<1>5. CASE Continue(p, [r EXCEPT !.k = <<"dispatchError">>]) /\ UNCHANGED <<db, tasks, produced>>
  <2> DEFINE q == [r EXCEPT !.k = <<"dispatchError">>]
  <2>1. q.k = <<"dispatchError">> /\ q.inst = r.inst /\ q.todo = r.todo
    BY Facts DEF Operations
  <2>2. q.k \in Seq(Labels) /\ q.k # << >>
    BY <2>1, Stack1, QuietLabels
  <2> HIDE DEF q
  <2>3. ~Dispatching(q.k)
    BY <2>1, Silent DEF Dispatching
  <2>4. Alone(q, db, produced)
    BY <1>0, <1>1, <2>1, <2>2, <2>3, AloneIf, CalmFacts
  <2> QED BY <1>0, <1>5, <2>4, CalmFacts, CalmLocal DEF q
<1> QED BY <1>4, <1>5 DEF Publish, n

LEMMA CalmDispatchDone == ASSUME IInv, CalmInv, NEW p \in Procs, DispatchDone(p) PROVE CalmInv'
<1>0. At(p, "dispatch") /\ Continue(p, Pop(proc[p])) /\ UNCHANGED <<db, tasks, produced>>
  BY DEF DispatchDone, bus
<1>1. Pop(proc[p]).k = Tail(proc[p].k) /\ Pop(proc[p]).inst = proc[p].inst /\ Pop(proc[p]).todo = proc[p].todo
  BY <1>0, PopOK DEF IInv, At
<1>2. Pop(proc[p]).k # << >> => Alone(Pop(proc[p]), db, produced)
  BY <1>0, <1>1, AlonePop
<1> QED BY <1>0, <1>2, CalmFacts, CalmLocal

\* An operation that ends.
LEMMA CalmEnds ==
  ASSUME IInv, CalmInv, NEW p \in Procs, NEW label, At(p, label), NEW q, Continue(p, q), q.k = << >>,
         UNCHANGED <<db, tasks, produced>>
  PROVE  CalmInv'
  BY CalmFacts, CalmLocal

LEMMA AbortEnds == ASSUME NEW r \in Operations PROVE Abort(r).k = << >>
  BY DEF Abort, Operations

LEMMA CalmDispatchErrorLost ==
  ASSUME IInv, CalmInv, NEW p \in Procs, DispatchErrorLost(p) PROVE CalmInv'
<1>1. /\ At(p, "dispatchError") /\ Continue(p, Abort(proc[p])) /\ Abort(proc[p]).k = << >>
      /\ UNCHANGED <<db, tasks, produced>>
  BY Facts, AbortEnds DEF DispatchErrorLost, bus
<1> QED BY <1>1, CalmEnds

\* Skipping what is not needed.
LEMMA CascadeSound ==
  ASSUME NEW inst \in Instances, NEW stored \in Instances, NEW answers,
         Sound(inst, answers), Ahead(inst, stored), \A n \in Nodes : ~IsReset(inst, stored, n)
  PROVE  LET new == CascadeSkips(inst)
         IN /\ Sound(new, answers) /\ Ahead(new, stored) /\ Keeps(new, inst)
            /\ \A n \in Nodes : ~IsReset(new, stored, n)
<1> DEFINE new == CascadeSkips(inst)
<1>1. /\ new \in Instances /\ new.outs = inst.outs
      /\ \A n \in Nodes : /\ Onward(new.nodes[n], inst.nodes[n])
                          /\ new.nodes[n].st \in {"Queued", "WaitingApproval", "Failed"} =>
                               new.nodes[n] = inst.nodes[n]
  BY CascadeOnward
<1> HIDE DEF new
<1>2. \A m \in Nodes : new.nodes[m].st \in {"Queued", "WaitingApproval"} =>
                         inst.nodes[m].st \in {"Queued", "WaitingApproval"} \/ Turn(inst, m)
  BY <1>1
<1>3. /\ Sound(new, answers) /\ Ahead(new, stored) /\ Keeps(new, inst)
      /\ \A n \in Nodes : ~IsReset(new, stored, n)
  BY <1>1, <1>2, AllOnward
<1> QED BY <1>3 DEF new

LEMMA CalmFindReady == ASSUME IInv, CalmInv, NEW p \in Procs, FindReady(p) PROVE CalmInv'
<1> DEFINE r == proc[p]
           inst == CascadeSkips(r.inst)
           q == [Pop(r) EXCEPT !.inst = inst, !.todo = ReadyNodes(inst)]
           s == IF r.op = "resume" /\ q.todo = {} THEN Abort(q) ELSE q
<1>0. At(p, "ready") /\ Continue(p, s) /\ UNCHANGED <<db, tasks, produced>>
  BY DEF FindReady, bus
<1>1. r.inst \in Instances /\ db \in Instances /\ inst \in Instances /\ inst.version = r.inst.version
  BY Facts, CascadeOnward
<1> HIDE DEF inst
<1>2. q \in Operations /\ q.k = Tail(r.k) /\ q.inst = inst /\ q.todo = ReadyNodes(inst)
  <2>1. Tail(r.k) \in Seq(Labels) /\ ReadyNodes(inst) \in SUBSET Nodes /\ r \in Operations
    BY <1>0, AtLabel, Facts, ReadyNodesIn
  <2> QED BY <1>1, <2>1 DEF Operations, Pop
<1>3. Abort(q).k = << >>
  BY <1>2, AbortEnds
<1> HIDE DEF q
<1>4. q.k # << >> => Alone(q, db, produced)
  <2> SUFFICES ASSUME q.k # << >> PROVE Alone(q, db, produced)
    OBVIOUS
  <2>1. /\ Sound(r.inst, produced) /\ Ahead(r.inst, db)
        /\ \A n \in Nodes : ~IsReset(r.inst, db, n)
    BY <1>0, CalmFacts
  <2>2. /\ Sound(inst, produced) /\ Ahead(inst, db)
        /\ \A n \in Nodes : ~IsReset(inst, db, n)
    BY <1>1, <2>1, CascadeSound DEF inst
  <2>3. \A n \in q.todo : Status(inst, n) = "Pending" /\ Turn(inst, n)
    BY <1>2, ReadyTurn
  <2>4. Plain(q.k) /\ q.k \in Seq(Labels)
    BY <1>0, <1>2, AtLabel
  <2>5. ~Has(q.k, {"dispatchError"})
    <3>1. ~Has(r.k, {"dispatchError"}) /\ r.k \in Seq(Labels) /\ r.k # << >>
      BY <1>0, CalmFacts, Facts DEF At
    <3> QED BY <1>2, <3>1, HasTail
  <2>6. inst.version = db.version
    BY <1>0, <1>1, CalmFacts
  <2>7. "Pending" \notin NodeTerminal
    BY DEF NodeTerminal
  <2> QED BY <1>2, <2>2, <2>3, <2>4, <2>5, <2>6, <2>7, AloneIf
<1>5. s.k # << >> => s = q
  BY <1>3
<1> HIDE DEF s
<1> QED BY <1>0, <1>4, <1>5, CalmFacts, CalmLocal

LEMMA CalmFinish == ASSUME IInv, CalmInv, NEW p \in Procs, Finish(p) PROVE CalmInv'
<1> DEFINE r == proc[p]
           q == [Pop(r) EXCEPT !.inst = Finished(r)]
<1>0. At(p, "finish") /\ Continue(p, q) /\ UNCHANGED <<db, tasks, produced>>
  BY DEF Finish, bus
<1>1. /\ Finished(r).nodes = r.inst.nodes /\ Finished(r).outs = r.inst.outs
      /\ Finished(r).version = r.inst.version
  BY Facts DEF Finished, Instances
<1>2. q.k = Tail(r.k) /\ q.inst = Finished(r) /\ q.todo = r.todo
  <2>1. Tail(r.k) \in Seq(Labels) /\ r \in Operations
    BY <1>0, AtLabel, Facts
  <2> QED BY <2>1 DEF Operations, Pop
<1> HIDE DEF q
<1>3. q.k # << >> => Alone(q, db, produced)
  BY <1>0, <1>1, <1>2, AlonePop
<1> QED BY <1>0, <1>3, CalmFacts, CalmLocal

LEMMA CalmSleep == ASSUME IInv, CalmInv, NEW p \in Procs, Sleep(p) PROVE CalmInv'
<1>0. At(p, "sleep") /\ Continue(p, Pop(proc[p])) /\ UNCHANGED <<db, tasks, produced>>
  BY DEF Sleep, bus
<1>1. Pop(proc[p]).k = Tail(proc[p].k) /\ Pop(proc[p]).inst = proc[p].inst /\ Pop(proc[p]).todo = proc[p].todo
  BY <1>0, PopOK DEF IInv, At
<1>2. Pop(proc[p]).k # << >> => Alone(Pop(proc[p]), db, produced)
  BY <1>0, <1>1, AlonePop
<1> QED BY <1>0, <1>2, CalmFacts, CalmLocal

LEMMA CalmAck == ASSUME IInv, CalmInv, NEW p \in Procs, Ack(p) PROVE CalmInv'
<1>0. At(p, "ack") /\ Continue(p, Pop(proc[p])) /\ UNCHANGED <<db, tasks, produced>>
  BY DEF Ack
<1>1. Pop(proc[p]).k = Tail(proc[p].k) /\ Pop(proc[p]).inst = proc[p].inst /\ Pop(proc[p]).todo = proc[p].todo
  BY <1>0, PopOK DEF IInv, At
<1>2. Pop(proc[p]).k # << >> => Alone(Pop(proc[p]), db, produced)
  BY <1>0, <1>1, AlonePop
<1> QED BY <1>0, <1>2, CalmFacts, CalmLocal

\* Tasks of compensations are of no interest here.
LEMMA CalmCompensate == ASSUME IInv, CalmInv, NEW p \in Procs, Compensate(p) PROVE CalmInv'
<1> DEFINE r == proc[p]
           q == IF r.inst.saga.on /\ PendingCompensations(r.inst) = {}
                THEN [Pop(r) EXCEPT !.inst = EndCompensation(@)] ELSE Pop(r)
<1>0. /\ At(p, "comp") /\ Continue(p, q) /\ db' = db /\ produced' = produced
      /\ \A t \in tasks' : ~t.undo => t \in tasks
  BY DEF Compensate
<1>1. /\ EndCompensation(r.inst).nodes = r.inst.nodes /\ EndCompensation(r.inst).outs = r.inst.outs
      /\ EndCompensation(r.inst).version = r.inst.version
  BY Facts DEF EndCompensation, Instances
<1>2. /\ q.k = Tail(r.k) /\ q.todo = r.todo /\ q.inst.nodes = r.inst.nodes
      /\ q.inst.outs = r.inst.outs /\ q.inst.version = r.inst.version
  <2>1. Tail(r.k) \in Seq(Labels) /\ r \in Operations
    BY <1>0, AtLabel, Facts
  <2> QED BY <1>1, <2>1 DEF Operations, Pop
<1> HIDE DEF q
<1>3. q.k # << >> => Alone(q, db, produced)
  BY <1>0, <1>2, AlonePop
<1>4. Sound(db, produced)' /\ PersistedBeforePublished' /\ RunsInOrder'
  BY <1>0 DEF CalmInv, PersistedBeforePublished, RunsInOrder, Succeeded, Status
<1>5. Exists' /\ \A o \in Procs \ {p} : ~Active(o)
  <2>1. Exists /\ \A o \in Procs \ {p} : ~Active(o)
    BY <1>0, CalmFacts
  <2> QED BY <1>0, <2>1 DEF Exists
<1>6. proc \in [Procs -> Operations] /\ (q.k # << >> => Alone(q, db', produced'))
  BY <1>0, <1>3 DEF IInv, TypeOK
<1> QED BY <1>0, <1>4, <1>5, <1>6, CalmStep

LEMMA SameReset ==
  ASSUME NEW old, NEW new, NEW stored, new.nodes = old.nodes,
         \A n \in Nodes : ~IsReset(old, stored, n)
  PROVE  \A n \in Nodes : ~IsReset(new, stored, n)
  BY DEF IsReset, Status

\* What is left to do after a dispatch error.
LEMMA ErrorRest ==
  ASSUME NEW rest \in {<<"finish", "save">>, <<"save", "ack">>, <<"save">>}
  PROVE  /\ rest \in Seq(Labels) /\ rest # << >>
         /\ <<"save", "comp">> \o rest \in Seq(Labels) /\ <<"save", "comp">> \o rest # << >>
         /\ \A k \in {rest, <<"save", "comp">> \o rest} :
              ~Dispatching(k) /\ ~Has(k, {"dispatchError"})
<1>1. rest \in Seq(Labels) /\ rest # << >>
  <2>1. \A a, b \in {"finish", "save", "ack"} : <<a, b>> \in Seq(Labels) /\ <<a, b>> # << >>
    BY DEF Labels
  <2>2. <<"save">> \in Seq(Labels) /\ <<"save">> # << >>
    BY DEF Labels
  <2> QED BY <2>1, <2>2
<1>2. "save" \in Labels /\ "comp" \in Labels
  BY DEF Labels
<1>3. \A labels \in {{"dispatchError"}, {"dispatch", "publish", "ready"}} :
        ~Has(rest, labels)
  <2>1. ~Has(rest, {"dispatch", "publish", "ready"})
    BY Silent
  <2>2. ~Has(rest, {"dispatchError"})
    <3>1. \A a, b \in {"finish", "save", "ack"} : ~Has(<<a, b>>, {"dispatchError"})
      BY DEF Has
    <3>2. ~Has(<<"save">>, {"dispatchError"})
      BY DEF Has
    <3> QED BY <3>1, <3>2
  <2> QED BY <2>1, <2>2
<1>4. \A labels \in {{"dispatchError"}, {"dispatch", "publish", "ready"}} :
        ~Has(<<"save", "comp">> \o rest, labels)
  BY <1>1, <1>2, <1>3, SilentPush
<1>5. <<"save", "comp">> \in Seq(Labels) /\ Len(<<"save", "comp">>) = 2
  BY <1>2
<1>6. /\ <<"save", "comp">> \o rest \in Seq(Labels)
      /\ Len(<<"save", "comp">> \o rest) = 2 + Len(rest) /\ Len(rest) \in Nat
  BY <1>1, <1>5, ConcatProperties, LenProperties
<1>7. <<"save", "comp">> \o rest # << >>
  BY <1>6
<1> QED BY <1>1, <1>3, <1>4, <1>6, <1>7 DEF Dispatching

LEMMA CalmDispatchError == ASSUME IInv, CalmInv, NEW p \in Procs, DispatchError(p) PROVE CalmInv'
<1> DEFINE r == proc[p]
           n == FirstDefined(r.todo)
           failed == [SetStatus(r.inst, n, "Failed") EXCEPT !.status = "Failed", !.version = @ + 1]
           saga == HasCompensation(failed)
           inst == IF saga THEN BeginCompensation(failed) ELSE CascadeSkips(failed)
           rest == CASE r.op = "start" -> <<"finish", "save">>
                     [] r.op \in {"result", "retry"} -> <<"save", "ack">>
                     [] OTHER -> <<"save">>
           k == IF saga THEN <<"save", "comp">> \o rest ELSE rest
           q == [r EXCEPT !.todo = {}, !.inst = inst, !.k = k]
<1>0. At(p, "dispatchError") /\ Continue(p, q) /\ UNCHANGED <<db, tasks, produced>>
  BY DEF DispatchError, bus
<1>1. n \in Nodes /\ Status(r.inst, n) \notin NodeTerminal
  BY <1>0, CalmFacts, Facts, FirstDefinedIn
<1>2. r.inst \in Instances /\ db \in Instances /\ r.inst.nodes[n].st \in NodeStatus
  BY <1>1, Facts, InstanceFields DEF NodeStates
<1>3. q.k = k /\ q.inst = inst /\ q.todo = {}
  BY Facts DEF Operations
<1> HIDE DEF q
<1>4. rest \in {<<"finish", "save">>, <<"save", "ack">>, <<"save">>}
  OBVIOUS
<1> HIDE DEF rest, n
<1>5. /\ k \in Seq(Labels) /\ k # << >> /\ ~Dispatching(k) /\ ~Has(k, {"dispatchError"})
  BY <1>4, ErrorRest
<1> DEFINE one == SetStatus(r.inst, n, "Failed")
<1>6. /\ one \in Instances /\ one.outs = r.inst.outs
      /\ \A m \in Nodes : Onward(one.nodes[m], r.inst.nodes[m])
      /\ \A m \in Nodes : one.nodes[m].st \in {"Queued", "WaitingApproval"} =>
                           r.inst.nodes[m].st \in {"Queued", "WaitingApproval"} \/ Turn(r.inst, m)
  <2> DEFINE ns == [r.inst.nodes[n] EXCEPT !.st = "Failed"]
  <2>0. "Failed" \in NodeStatus
    BY DEF NodeStatus
  <2>1. /\ one \in Instances /\ one.outs = r.inst.outs
        /\ \A m \in Nodes : one.nodes[m] = IF m = n THEN ns ELSE r.inst.nodes[m]
        /\ ns.st = "Failed" /\ ns.att = r.inst.nodes[n].att
    BY <1>1, <1>2, <2>0, SetStatusFields
  <2> HIDE DEF ns, one
  <2>2. Onward(ns, r.inst.nodes[n])
    BY <1>1, <1>2, <2>1 DEF Onward, Status, NodeTerminal, NodeStatus
  <2>3. \A m \in Nodes : m # n => Onward(one.nodes[m], r.inst.nodes[m])
    BY <2>1 DEF Onward
  <2> QED BY <2>1, <2>2, <2>3
<1>7. /\ Sound(one, produced) /\ Ahead(one, db)
      /\ \A m \in Nodes : ~IsReset(one, db, m)
  <2>1. /\ Sound(r.inst, produced) /\ Ahead(r.inst, db)
        /\ \A m \in Nodes : ~IsReset(r.inst, db, m)
    BY <1>0, CalmFacts
  <2> HIDE DEF one
  <2> QED BY <1>2, <1>6, <2>1, AllOnward
<1>8. failed \in Instances /\ failed.nodes = one.nodes /\ failed.outs = one.outs
  <2> HIDE DEF one
  <2>1. one \in Instances /\ one.version + 1 \in Nat
    BY <1>6, InstanceFields
  <2>2. failed = [one EXCEPT !.status = "Failed", !.version = one.version + 1]
    BY DEF one
  <2> QED BY ONLY <2>1, <2>2 DEF Instances, InstanceStatus
<1> HIDE DEF one, failed
<1>9. /\ Sound(failed, produced) /\ Ahead(failed, db)
      /\ \A m \in Nodes : ~IsReset(failed, db, m)
  BY <1>7, <1>8, SameNodes, SameReset
<1>10. /\ Sound(inst, produced) /\ Ahead(inst, db)
       /\ \A m \in Nodes : ~IsReset(inst, db, m)
  <2>1. CASE saga
    <3>1. inst.nodes = failed.nodes /\ inst.outs = failed.outs
      BY <1>8, <2>1 DEF BeginCompensation, Instances
    <3> HIDE DEF inst
    <3> QED BY <1>9, <3>1, SameNodes, SameReset
  <2>2. CASE ~saga
    BY <1>2, <1>8, <1>9, <2>2, CascadeSound
  <2> QED BY <2>1, <2>2
<1> HIDE DEF inst, k
<1>11. Alone(q, db, produced)
  BY <1>3, <1>5, <1>10, AloneIf
<1> QED BY <1>0, <1>11, CalmFacts, CalmLocal

-----------------------------------------------------------------------------
(* Saving, in a calm start. *)

\* To store a record that is ahead takes nothing back from the tasks in flight.
LEMMA StoreAhead ==
  ASSUME IInv, NEW new \in Instances, Ahead(new, db), db'.nodes = new.nodes,
         \A t \in tasks' : ~t.undo => t \in tasks, produced' = produced,
         PersistedBeforePublished, RunsInOrder
  PROVE  PersistedBeforePublished' /\ RunsInOrder'
<1>1. \A n \in Nodes : new.nodes[n].att \in Nat /\ db.nodes[n].att \in Nat
  BY InstanceFields DEF IInv, TypeOK, NodeStates
<1>2. \A t \in tasks : t.node \in Nodes /\ t.att \in Nat
  BY DEF IInv, TypeOK, Tasks
<1>3. PersistedBeforePublished'
  <2> SUFFICES ASSUME NEW t \in tasks', ~t.undo
               PROVE  \/ t.att < new.nodes[t.node].att
                      \/ t.att = new.nodes[t.node].att /\ new.nodes[t.node].st # "Pending"
    BY DEF PersistedBeforePublished, Status
  <2>1. \/ t.att < db.nodes[t.node].att
        \/ t.att = db.nodes[t.node].att /\ db.nodes[t.node].st # "Pending"
    BY DEF PersistedBeforePublished, Status
  <2>2. Later(new.nodes[t.node], db.nodes[t.node]) /\ t.node \in Nodes /\ t.att \in Nat
    BY <1>2 DEF Ahead
  <2> QED BY <1>1, <2>1, <2>2 DEF Later
<1>4. \A n \in Nodes : Status(db, n) \in NodeTerminal => Status(db, n)' \in NodeTerminal
  BY AheadKeeps DEF Keeps, Status
<1>5. RunsInOrder'
  <2>1. \A n : Succeeded(n)' = Succeeded(n)
    BY DEF Succeeded
  <2>2. \A n : \A e \in Incoming(n) : e.src \in Nodes
    BY IncomingIn
  <2> QED BY <1>4, <2>1, <2>2 DEF RunsInOrder, Status
<1> QED BY <1>3, <1>5

LEMMA TailNoRefetch ==
  ASSUME NEW k \in Seq(Labels), k # << >>, Tail(k) # << >>, NEW todo, NEW msg, Place(k, todo, msg)
  PROVE  Head(Tail(k)) # "refetch"
<1>1. /\ Tail(k) \in Seq(Labels) /\ Len(Tail(k)) = Len(k) - 1 /\ Len(k) \in Nat
      /\ \A i \in 1..Len(Tail(k)) : Tail(k)[i] = k[i + 1]
  BY HeadTailProperties
<1>2. Head(Tail(k)) = Tail(k)[1] /\ Len(Tail(k)) >= 1
  BY <1>1, HeadTailProperties
<1>3. 2 \in DOMAIN k /\ Head(Tail(k)) = k[2]
  BY <1>1, <1>2, LenProperties
<1> QED BY <1>3 DEF Place

LEMMA CalmSave == ASSUME IInv, CalmInv, NEW p \in Procs, Save(p) PROVE CalmInv'
<1> DEFINE r == proc[p]
           q == [Pop(r) EXCEPT !.inst = Bumped(@), !.try = 0]
<1>0. /\ At(p, "save") /\ Continue(p, q) /\ db' = Bumped(r.inst) /\ tasks' = tasks /\ produced' = produced
  BY DEF Save, bus
<1>1. /\ r.inst \in Instances /\ Bumped(r.inst) \in Instances /\ Bumped(r.inst).nodes = r.inst.nodes
      /\ Bumped(r.inst).outs = r.inst.outs /\ Bumped(r.inst).version = r.inst.version + 1
      /\ r.inst.version \in Nat
  BY Facts, InstanceFields DEF Bumped, Instances
<1>2. q.k = Tail(r.k) /\ q.inst = db' /\ q.todo = r.todo /\ q.att = r.att
  <2>1. Tail(r.k) \in Seq(Labels) /\ r \in Operations
    BY <1>0, AtLabel, Facts
  <2> QED BY <1>0, <2>1 DEF Operations, Pop
<1> HIDE DEF q
<1>3. /\ Sound(r.inst, produced) /\ Ahead(r.inst, db) /\ Exists
      /\ \A o \in Procs \ {p} : ~Active(o)
      /\ PersistedBeforePublished /\ RunsInOrder
  BY <1>0, CalmFacts DEF CalmInv
<1>4. PersistedBeforePublished' /\ RunsInOrder'
  BY <1>0, <1>1, <1>3, StoreAhead
<1>5. /\ Sound(db', produced') /\ \A n : Turn(r.inst, n) => Turn(db', n)
      /\ \A n : db'.nodes[n] = r.inst.nodes[n]
  BY <1>0, <1>1, <1>3, SameNodes
<1>6. Ahead(db', db') /\ \A n \in Nodes : ~IsReset(db', db', n)
  BY <1>0, <1>1, AheadSelf
<1>7. Exists'
  BY <1>0, <1>1 DEF Exists
<1>8. ASSUME q.k # << >> PROVE Alone(q, db', produced')
  <2>1. Alone(r, db, produced) /\ r.k \in Seq(Labels) /\ r.k # << >> /\ Place(r.k, r.todo, r.msg)
    BY <1>0, Facts DEF CalmInv, Active, At
  <2>2. \A labels : Has(q.k, labels) => Has(r.k, labels)
    BY <1>2, <2>1, HasTail
  <2>3. Head(q.k) # "refetch"
    BY <1>2, <1>8, <2>1, TailNoRefetch
  <2>4. /\ \A n \in q.todo : Status(q.inst, n) \notin NodeTerminal /\ Turn(q.inst, n)
        /\ Dispatching(q.k) => \A n \in q.todo : Status(q.inst, n) \in {"Pending", "Queued"}
    BY <1>2, <1>5, <2>1, <2>2 DEF Alone, Status, Dispatching
  <2>5. Has(q.k, {"publish"}) =>
          /\ Status(q.inst, FirstDefined(q.todo)) = "Queued"
          /\ q.inst.nodes[FirstDefined(q.todo)].att = q.att
    BY <1>2, <1>5, <2>1, <2>2 DEF Alone, Status
  <2>6. ~Has(q.k, {"dispatchError"})
    BY <1>0, <2>2, CalmFacts
  <2> QED BY <1>2, <1>5, <1>6, <2>3, <2>4, <2>5, <2>6 DEF Alone
<1>9. proc \in [Procs -> Operations] /\ Sound(db, produced)'
  BY <1>5 DEF IInv, TypeOK
<1> QED BY <1>0, <1>3, <1>4, <1>7, <1>8, <1>9, CalmStep

LEMMA BumpedFields ==
  ASSUME NEW inst \in Instances
  PROVE  /\ Bumped(inst) \in Instances /\ Bumped(inst).nodes = inst.nodes
         /\ Bumped(inst).outs = inst.outs /\ Bumped(inst).version = inst.version + 1
         /\ Bumped(inst).status = inst.status /\ Bumped(inst).saga = inst.saga
         /\ inst.version \in Nat
  BY InstanceFields DEF Bumped, Instances

LEMMA CalmSaveConflict == ASSUME IInv, CalmInv, NEW p \in Procs, SaveConflict(p) PROVE CalmInv'
<1> DEFINE r == proc[p]
           q == [r EXCEPT !.inst = Bumped(@), !.k = <<"refetch">> \o @]
<1>0. At(p, "save") /\ Continue(p, q) /\ UNCHANGED <<db, tasks, produced>> /\ db.version # r.inst.version
  BY DEF SaveConflict, SaveWins, bus
<1>1. r.k \in Seq(Labels) /\ r.k # << >> /\ r.inst \in Instances /\ Alone(r, db, produced)
  BY <1>0, Facts DEF At, CalmInv, Active
<1>2. <<"refetch">> \o r.k \in Seq(Labels) /\ <<"refetch">> \o r.k # << >>
  <2>1. <<"refetch">> \o r.k \in Seq(Labels)
    BY <1>0, <1>1, Facts, PushRefetch DEF At
  <2>2. Len(<<"refetch">> \o r.k) = 1 + Len(r.k) /\ Len(r.k) \in Nat
    <3>1. <<"refetch">> \in Seq(Labels) /\ Len(<<"refetch">>) = 1
      BY DEF Labels
    <3> QED BY <1>1, <3>1, ConcatProperties, LenProperties
  <2> QED BY <2>1, <2>2
<1>3. q.k = <<"refetch">> \o r.k /\ q.inst = Bumped(r.inst) /\ q.todo = r.todo
  BY <1>1, <1>2, Facts DEF Operations
<1> HIDE DEF q
<1>4. ~Dispatching(q.k) /\ ~Has(q.k, {"dispatchError"})
  <2>1. ~Dispatching(r.k) /\ ~Has(r.k, {"dispatchError"})
    BY <1>0, CalmFacts
  <2>2. \A labels : "refetch" \notin labels /\ Has(q.k, labels) => Has(r.k, labels)
    BY <1>1, <1>3, HasRefetch
  <2> QED BY <2>1, <2>2 DEF Dispatching
<1>5. /\ Sound(r.inst, produced) /\ Ahead(r.inst, db)
      /\ \A n \in r.todo : Status(r.inst, n) \notin NodeTerminal /\ Turn(r.inst, n)
      /\ \A n \in Nodes : ~IsReset(r.inst, db, n)
  BY <1>0, <1>1 DEF Alone
<1>6. q.inst.nodes = r.inst.nodes /\ q.inst.outs = r.inst.outs
  BY <1>1, <1>3, BumpedFields
<1>7. /\ Sound(q.inst, produced) /\ Ahead(q.inst, db)
      /\ \A n \in q.todo : Status(q.inst, n) \notin NodeTerminal /\ Turn(q.inst, n)
      /\ \A n \in Nodes : ~IsReset(q.inst, db, n)
  BY <1>3, <1>5, <1>6, SameNodes, SameReset
<1>8. Alone(q, db, produced)
  BY <1>2, <1>3, <1>4, <1>7, AloneIf
<1> QED BY <1>0, <1>8, CalmFacts, CalmLocal

LEMMA CalmSaveError == ASSUME IInv, CalmInv, NEW p \in Procs, SaveError(p) PROVE CalmInv'
<1> DEFINE r == proc[p]
           q == [SaveFailed(r) EXCEPT !.inst = Bumped(@)]
<1>0. At(p, "save") /\ Continue(p, q) /\ UNCHANGED <<db, tasks, produced>>
  BY DEF SaveError, bus
<1>1. /\ r.k \in Seq(Labels) /\ r.k # << >> /\ r.inst \in Instances /\ Alone(r, db, produced)
      /\ r \in Operations /\ Place(r.k, r.todo, r.msg)
  BY <1>0, Facts DEF At, CalmInv, Active
<1>2. CASE Len(r.k) > 1 /\ r.k[2] = "publish"
  <2>1. q.k = <<"dispatchError">> /\ q.inst = Bumped(r.inst) /\ q.todo = r.todo
    BY <1>1, <1>2 DEF Operations, SaveFailed
  <2> HIDE DEF q
  <2>2. 2 \in DOMAIN r.k
    BY <1>1, <1>2, LenProperties
  <2>3. Has(r.k, {"publish"}) /\ r.todo # {}
    BY <1>1, <1>2, <2>2 DEF Has, Place
  <2>4. /\ Sound(r.inst, produced) /\ Ahead(r.inst, db)
        /\ \A n \in r.todo : Status(r.inst, n) \notin NodeTerminal /\ Turn(r.inst, n)
        /\ \A n \in Nodes : ~IsReset(r.inst, db, n)
    BY <1>1, <2>3 DEF Alone
  <2>5. q.inst.nodes = r.inst.nodes /\ q.inst.outs = r.inst.outs
    BY <1>1, <2>1, BumpedFields
  <2>6. /\ Sound(q.inst, produced) /\ Ahead(q.inst, db)
        /\ \A n \in q.todo : Status(q.inst, n) \notin NodeTerminal /\ Turn(q.inst, n)
        /\ \A n \in Nodes : ~IsReset(q.inst, db, n)
    BY <2>1, <2>4, <2>5, SameNodes, SameReset
  <2>7. ~Dispatching(q.k) /\ q.k \in Seq(Labels) /\ q.k # << >>
    BY <2>1, Silent, Stack1, QuietLabels DEF Dispatching
  <2>8. Alone(q, db, produced)
    BY <2>1, <2>3, <2>6, <2>7, AloneIf
  <2> QED BY <1>0, <2>8, CalmFacts, CalmLocal
<1>3. CASE ~(Len(r.k) > 1 /\ r.k[2] = "publish")
  <2>1. q.k = << >>
    BY <1>1, <1>3 DEF Operations, SaveFailed, Abort
  <2> QED BY <1>0, <2>1, CalmEnds
<1> QED BY <1>2, <1>3

\* A merge of a copy that is ahead with the record that it is ahead of.
LEMMA MergeSound ==
  ASSUME NEW loc \in Instances, NEW fresh \in Instances, NEW answers,
         Sound(loc, answers), Sound(fresh, answers), Ahead(loc, fresh),
         \A n \in Nodes : ~IsReset(loc, fresh, n)
  PROVE  /\ Sound(Merge(loc, fresh), answers) /\ Ahead(Merge(loc, fresh), fresh)
         /\ \A n \in Nodes : ~IsReset(Merge(loc, fresh), fresh, n)
         /\ Keeps(Merge(loc, fresh), loc)
         /\ \A n \in Nodes : Status(loc, n) \notin NodeTerminal =>
              Status(Merge(loc, fresh), n) \notin NodeTerminal
<1> DEFINE new == Merge(loc, fresh)
           take(n) == \/ Status(loc, n) \in NodeTerminal /\ Status(fresh, n) \notin NodeTerminal
                      \/ Status(loc, n) = "Queued" /\ Status(fresh, n) = "Pending"
<1>1. \A n \in Nodes : /\ new.nodes[n] = IF take(n) THEN loc.nodes[n] ELSE fresh.nodes[n]
                       /\ new.outs[n] = IF fresh.outs[n] = "none" THEN loc.outs[n] ELSE fresh.outs[n]
  BY DEF Merge, Instances
<1> HIDE DEF new
<1>2. \A n \in Nodes : Status(fresh, n) \in NodeTerminal =>
                         Status(loc, n) = Status(fresh, n) /\ loc.outs[n] = fresh.outs[n]
  BY AheadKeeps DEF Keeps
<1>3. \A n \in Nodes : new.outs[n] = loc.outs[n]
  <2>1. \A n \in Nodes : fresh.outs[n] # "none" => Status(fresh, n) \in NodeTerminal
    BY DEF Sound, NodeTerminal
  <2> QED BY <1>1, <1>2, <2>1
<1>4. \A n \in Nodes : Status(new, n) = IF take(n) THEN Status(loc, n) ELSE Status(fresh, n)
  BY <1>1 DEF Status
<1>5. Keeps(new, loc)
  BY <1>2, <1>3, <1>4 DEF Keeps
<1>6. \A n \in Nodes : Status(loc, n) \notin NodeTerminal => Status(new, n) \notin NodeTerminal
  BY <1>2, <1>4
<1>7. Sound(new, answers)
  <2>1. \A n \in Nodes : Status(new, n) \in {"Queued", "WaitingApproval"} => Turn(new, n)
    <3> SUFFICES ASSUME NEW n \in Nodes, Status(new, n) \in {"Queued", "WaitingApproval"}
                 PROVE  Turn(loc, n)
      BY <1>5, TurnKept
    <3>1. CASE take(n)
      BY <1>4, <3>1 DEF Sound
    <3>2. CASE ~take(n)
      BY <1>4, <3>2, AheadKeeps, TurnKept DEF Sound
    <3> QED BY <3>1, <3>2
  <2>2. \A n \in Nodes : Status(new, n) = "Completed" => Status(loc, n) = "Completed"
    BY <1>2, <1>4 DEF NodeTerminal
  <2>3. \A n \in Nodes : Answered(loc, n, answers) => Answered(new, n, answers)
    BY <1>3 DEF Answered
  <2>4. \A n \in Nodes : new.outs[n] # "none" => Status(new, n) = "Completed"
    BY <1>3, <1>5 DEF Sound, Keeps, NodeTerminal
  <2> QED BY <2>1, <2>2, <2>3, <2>4 DEF Sound
<1>8. \A n \in Nodes : fresh.nodes[n].att \in Nat
  BY InstanceFields DEF NodeStates
<1>9. Ahead(new, fresh)
  <2> SUFFICES ASSUME NEW n \in Nodes
               PROVE  /\ Later(new.nodes[n], fresh.nodes[n])
                      /\ Follows(Status(fresh, n), Status(new, n))
                      /\ Status(fresh, n) \in NodeTerminal => new.outs[n] = fresh.outs[n]
    BY DEF Ahead
  <2>1. Later(new.nodes[n], fresh.nodes[n])
    BY <1>1, <1>8 DEF Ahead, Later
  <2>2. Follows(Status(fresh, n), Status(new, n))
    BY <1>4 DEF Ahead, Follows
  <2> QED BY <1>2, <1>3, <2>1, <2>2
<1>10. \A n \in Nodes : ~IsReset(new, fresh, n)
  BY <1>4 DEF IsReset
<1> QED BY <1>5, <1>6, <1>7, <1>9, <1>10 DEF new

LEMMA CalmRefetch == ASSUME IInv, CalmInv, NEW p \in Procs, Refetch(p) PROVE CalmInv'
<1> DEFINE r == proc[p]
           merged == [Pop(r) EXCEPT !.inst = Merge(@, db), !.try = @ + 1]
           asIs == [Pop(Pop(r)) EXCEPT !.try = 0]
<1>0. /\ At(p, "refetch") /\ UNCHANGED <<db, tasks, produced>>
      /\ Continue(p, IF NeedsMerge(r.inst, db) THEN merged ELSE asIs)
  BY DEF Refetch, bus
<1>1. /\ r.k \in Seq(Labels) /\ r.k # << >> /\ r.inst \in Instances /\ db \in Instances
      /\ r \in Operations /\ Tail(r.k) \in Seq(Labels) /\ Tail(r.k) # << >>
  <2>1. /\ r.k \in Seq(Labels) /\ r.k # << >> /\ r.inst \in Instances /\ db \in Instances
        /\ r \in Operations /\ Place(r.k, r.todo, r.msg) /\ Head(r.k) = "refetch"
    BY <1>0, Facts DEF At
  <2>2. 1 \in DOMAIN r.k /\ r.k[1] = "refetch" /\ DOMAIN r.k = 1..Len(r.k)
    BY <2>1, HeadTailProperties
  <2>3. 2 \in 1..Len(r.k)
    BY <2>1, <2>2 DEF Place
  <2> QED BY <2>1, <2>3, TailLeft, HeadTailProperties
<1>2. \A labels : Has(Tail(r.k), labels) => Has(r.k, labels)
  BY <1>1, HasTail
<1>3. ~Dispatching(r.k) /\ ~Has(r.k, {"dispatchError"})
  BY <1>0, CalmFacts
<1>4. /\ Sound(r.inst, produced) /\ Sound(db, produced) /\ Ahead(r.inst, db)
      /\ \A n \in r.todo : n \in Nodes /\ Status(r.inst, n) \notin NodeTerminal /\ Turn(r.inst, n)
      /\ \A n \in Nodes : ~IsReset(r.inst, db, n)
  BY <1>0, CalmFacts DEF CalmInv
<1>5. CASE NeedsMerge(r.inst, db)
  <2> DEFINE new == Merge(r.inst, db)
  <2>1. merged.k = Tail(r.k) /\ merged.inst = new /\ merged.todo = r.todo
    BY <1>1 DEF Operations, Pop
  <2> HIDE DEF merged
  <2>2. /\ Sound(new, produced) /\ Ahead(new, db) /\ Keeps(new, r.inst)
        /\ \A n \in Nodes : ~IsReset(new, db, n)
        /\ \A n \in Nodes : Status(r.inst, n) \notin NodeTerminal => Status(new, n) \notin NodeTerminal
    BY <1>1, <1>4, MergeSound
  <2> HIDE DEF new
  <2>3. \A n \in merged.todo : Status(new, n) \notin NodeTerminal /\ Turn(new, n)
    BY <1>4, <2>1, <2>2, TurnKept
  <2>4. ~Dispatching(merged.k) /\ ~Has(merged.k, {"dispatchError"})
    BY <1>2, <1>3, <2>1 DEF Dispatching
  <2>5. Alone(merged, db, produced)
    BY <1>1, <2>1, <2>2, <2>3, <2>4, AloneIf
  <2> QED BY <1>0, <1>5, <2>5, CalmFacts, CalmLocal
<1>6. CASE ~NeedsMerge(r.inst, db)
  <2>1. asIs.k = Tail(Tail(r.k)) /\ asIs.inst = r.inst /\ asIs.todo = r.todo
    BY <1>1 DEF Operations, Pop
  <2> HIDE DEF asIs
  <2>2. asIs.k \in Seq(Labels)
    BY <1>1, <2>1, HeadTailProperties
  <2>3. ~Dispatching(asIs.k) /\ ~Has(asIs.k, {"dispatchError"})
    BY <1>1, <1>2, <1>3, <2>1, HasTail DEF Dispatching
  <2>4. asIs.k # << >> => Alone(asIs, db, produced)
    BY <1>4, <2>1, <2>2, <2>3, AloneIf
  <2> QED BY <1>0, <1>6, <2>4, CalmFacts, CalmLocal
<1> QED BY <1>5, <1>6

\* A save that fails for good, outside of a dispatch, ends the operation.
LEMMA RefetchEnds ==
  ASSUME IInv, CalmInv, NEW p \in Procs, At(p, "refetch")
  PROVE  SaveFailed(Pop(proc[p])).k = << >>
<1> DEFINE r == proc[p]
<1>1. /\ r.k \in Seq(Labels) /\ r.k # << >> /\ r \in Operations /\ ~Has(r.k, {"publish"})
      /\ Tail(r.k) \in Seq(Labels)
  <2>1. ~Dispatching(r.k)
    BY CalmFacts
  <2>2. ~Has(r.k, {"publish"})
    BY <2>1 DEF Dispatching, Has
  <2> QED BY <2>2, Facts, AtLabel DEF At
<1>2. Pop(r) \in Operations /\ Pop(r).k = Tail(r.k)
  BY <1>1 DEF Pop, Operations
<1>3. ~Has(Tail(r.k), {"publish"})
  BY <1>1, HasTail
<1>4. ~(Len(Tail(r.k)) > 1 /\ Tail(r.k)[2] = "publish")
  <2>1. DOMAIN Tail(r.k) = 1..Len(Tail(r.k)) /\ Len(Tail(r.k)) \in Nat
    BY <1>1, LenProperties
  <2>2. Len(Tail(r.k)) > 1 => 2 \in DOMAIN Tail(r.k)
    BY <2>1
  <2> QED BY <1>3, <2>2, Zenon DEF Has
<1> QED BY <1>2, <1>4, AbortEnds DEF SaveFailed

LEMMA CalmRefetchError == ASSUME IInv, CalmInv, NEW p \in Procs, RefetchError(p) PROVE CalmInv'
<1>1. At(p, "refetch") /\ Continue(p, SaveFailed(Pop(proc[p]))) /\ UNCHANGED <<db, tasks, produced>>
  BY DEF RefetchError, bus
<1> QED BY <1>1, RefetchEnds, CalmEnds

LEMMA CalmGiveUp == ASSUME IInv, CalmInv, NEW p \in Procs, GiveUp(p) PROVE CalmInv'
<1>1. /\ At(p, "refetch") /\ Continue(p, SaveFailed(Pop(proc[p])))
      /\ tasks' = tasks /\ produced' = produced
      /\ db' \in {db, Bumped([db EXCEPT !.status = "Failed"])}
  BY DEF GiveUp, bus
<1>2. SaveFailed(Pop(proc[p])).k = << >>
  BY <1>1, RefetchEnds
<1>3. /\ db'.nodes = db.nodes /\ db'.outs = db.outs /\ db \in Instances
      /\ db'.version \in {db.version, db.version + 1}
  <2>1. db \in Instances /\ db.version \in Nat
    BY Facts, InstanceFields
  <2>2. /\ [db EXCEPT !.status = "Failed"].nodes = db.nodes
        /\ [db EXCEPT !.status = "Failed"].outs = db.outs
        /\ [db EXCEPT !.status = "Failed"].version = db.version
        /\ [db EXCEPT !.status = "Failed"] \in Instances
    BY <2>1 DEF Instances, InstanceStatus
  <2> DEFINE failed == [db EXCEPT !.status = "Failed"]
  <2> HIDE DEF failed
  <2>3. /\ Bumped(failed).nodes = db.nodes /\ Bumped(failed).outs = db.outs
        /\ Bumped(failed).version = db.version + 1
    BY <2>2, BumpedFields DEF failed
  <2> QED BY <1>1, <2>1, <2>3 DEF failed
<1>4. /\ Exists /\ Sound(db, produced) /\ \A o \in Procs \ {p} : ~Active(o)
      /\ PersistedBeforePublished /\ RunsInOrder
  BY <1>1, CalmFacts DEF CalmInv
<1>5. Sound(db, produced)'
  BY <1>1, <1>3, <1>4, SameNodes
<1>6. Exists'
  <2>1. db.version \in Nat
    BY <1>3, InstanceFields
  <2> QED BY <1>3, <1>4, <2>1 DEF Exists
<1>7. PersistedBeforePublished' /\ RunsInOrder'
  BY <1>1, <1>3, <1>4, AheadSelf, StoreAhead
<1>8. proc \in [Procs -> Operations]
  BY DEF IInv, TypeOK
<1> QED BY <1>1, <1>2, <1>4, <1>5, <1>6, <1>7, <1>8, CalmStep

-----------------------------------------------------------------------------
(* Operations that begin, in a calm start. *)

SilentStacks == {<<"ack">>, <<"save">>, <<"save", "ack">>, <<"save", "sleep">>, <<"comp", "save">>,
                 <<"save", "comp", "ack">>}
DispatchStacks == {<<"dispatch", "ack">>, <<"dispatch", "save">>,
                   <<"dispatch", "finish", "save", "ack">>}

LEMMA BeginStacks ==
  /\ \A k \in SilentStacks : k \in Seq(Labels) /\ k # << >> /\ ~Has(k, {"dispatchError"}) /\ ~Dispatching(k)
  /\ \A k \in DispatchStacks : k \in Seq(Labels) /\ k # << >> /\ ~Has(k, {"dispatchError"}) /\ Plain(k)
<1>1. \A k \in SilentStacks : ~Dispatching(k)
  BY Silent DEF SilentStacks, Dispatching
<1>2. \A a \in {"ack", "save"} : <<a>> \in Seq(Labels) /\ <<a>> # << >> /\ ~Has(<<a>>, {"dispatchError"})
  BY DEF Labels, Has
<1>3. \A a, b \in {"ack", "save", "sleep", "comp", "dispatch"} :
        <<a, b>> \in Seq(Labels) /\ <<a, b>> # << >> /\ ~Has(<<a, b>>, {"dispatchError"})
  BY DEF Labels, Has
<1>4. /\ <<"save", "comp", "ack">> \in Seq(Labels) /\ <<"save", "comp", "ack">> # << >>
      /\ ~Has(<<"save", "comp", "ack">>, {"dispatchError"})
  BY DEF Labels, Has
<1>5. \A k \in SilentStacks : k \in Seq(Labels) /\ k # << >> /\ ~Has(k, {"dispatchError"})
  BY <1>2, <1>3, <1>4 DEF SilentStacks
<1>6. /\ <<"dispatch", "finish", "save", "ack">> \in Seq(Labels)
      /\ <<"dispatch", "finish", "save", "ack">> # << >>
      /\ ~Has(<<"dispatch", "finish", "save", "ack">>, {"dispatchError"})
  BY DEF Labels, Has
<1>7. \A k \in DispatchStacks : Plain(k)
  BY Stack2, Stack4, QuietLabels DEF DispatchStacks
<1> QED BY <1>1, <1>3, <1>5, <1>6, <1>7 DEF DispatchStacks

LEMMA CalmBegin ==
  ASSUME IInv, CalmInv, ~RacingStart, CanLock, NEW op, NEW inst, NEW todo,
         NEW k \in SilentStacks \cup DispatchStacks, NEW msg,
         Begin(op, inst, todo, k, msg), UNCHANGED <<db, tasks, produced>>,
         Sound(inst, produced), Ahead(inst, db), \A n \in Nodes : ~IsReset(inst, db, n),
         \A n \in todo : Status(inst, n) \in {"Pending", "Queued"} /\ Turn(inst, n),
         k \in DispatchStacks => inst.version = db.version
  PROVE  CalmInv'
<1> DEFINE q == [op |-> op, k |-> k, inst |-> inst, todo |-> todo,
                 att |-> 1, try |-> 0, msg |-> msg]
<1>1. q.k = k /\ q.inst = inst /\ q.todo = todo /\ Continue("locked", q)
  BY DEF Begin
<1> HIDE DEF q
<1>2. /\ k \in Seq(Labels) /\ k # << >> /\ ~Has(k, {"dispatchError"})
      /\ Dispatching(k) => Plain(k) /\ k \in DispatchStacks
  BY BeginStacks
<1>3. \A n \in todo : Status(inst, n) \notin NodeTerminal
  BY DEF NodeTerminal
<1>4. Alone(q, db', produced')
  BY <1>1, <1>2, <1>3, AloneIf
<1>5. /\ Exists' /\ Sound(db, produced)' /\ PersistedBeforePublished' /\ RunsInOrder'
      /\ \A o \in Procs \ {"locked"} : ~Active(o)
  <2>1. proc["start"].k = << >> /\ Exists
    BY DEF CanLock, Idle
  <2> QED BY <2>1 DEF CalmInv, PersistedBeforePublished, RunsInOrder, Succeeded, Status, Exists,
                      Procs, Active
<1>6. proc \in [Procs -> Operations] /\ "locked" \in Procs
  BY DEF IInv, TypeOK, Procs
<1> QED BY <1>1, <1>4, <1>5, <1>6, CalmStep

\* An operation begins with the stored record, as far as nodes go.
LEMMA StoredItself ==
  ASSUME IInv, CalmInv, NEW inst, inst.nodes = db.nodes, inst.outs = db.outs
  PROVE  /\ Sound(inst, produced) /\ Ahead(inst, db) /\ \A n \in Nodes : ~IsReset(inst, db, n)
<1>1. db \in Instances /\ Sound(db, produced)
  BY DEF IInv, TypeOK, CalmInv
<1>2. Ahead(db, db) /\ \A n \in Nodes : ~IsReset(db, db, n)
  BY <1>1, AheadSelf
<1> QED BY <1>1, <1>2, SameNodes, SameReset

\* ... or with one node that moved on.
LEMMA StoredOnward ==
  ASSUME IInv, CalmInv, NEW inst \in Instances, inst.outs = db.outs,
         \A m \in Nodes : Onward(inst.nodes[m], db.nodes[m]),
         \A m \in Nodes : inst.nodes[m].st \in {"Queued", "WaitingApproval"} =>
                            db.nodes[m].st \in {"Queued", "WaitingApproval"} \/ Turn(db, m)
  PROVE  /\ Sound(inst, produced) /\ Ahead(inst, db) /\ \A n \in Nodes : ~IsReset(inst, db, n)
         /\ Keeps(inst, db)
<1>1. db \in Instances /\ Sound(db, produced)
  BY DEF IInv, TypeOK, CalmInv
<1>2. Ahead(db, db) /\ \A n \in Nodes : ~IsReset(db, db, n)
  BY <1>1, AheadSelf
<1> QED BY <1>1, <1>2, AllOnward

\* One node of the stored record moves on, in status alone.
LEMMA StoredStatus ==
  ASSUME IInv, CalmInv, NEW n \in Nodes, NEW st \in {"Failed", "Queued"},
         Status(db, n) \in {"Queued", "WaitingApproval"}
  PROVE  LET inst == SetStatus(db, n, st)
         IN /\ inst \in Instances /\ Sound(inst, produced) /\ Ahead(inst, db)
            /\ \A m \in Nodes : ~IsReset(inst, db, m)
            /\ Status(inst, n) = st /\ Turn(inst, n) /\ inst.version = db.version
<1> DEFINE inst == SetStatus(db, n, st)
           ns == [db.nodes[n] EXCEPT !.st = st]
<1>1. db \in Instances /\ Sound(db, produced) /\ st \in NodeStatus
  BY DEF IInv, TypeOK, CalmInv, NodeStatus
<1>2. /\ inst \in Instances /\ inst.outs = db.outs /\ inst.version = db.version
      /\ \A m \in Nodes : inst.nodes[m] = IF m = n THEN ns ELSE db.nodes[m]
      /\ ns.st = st /\ ns.att = db.nodes[n].att
  BY <1>1, SetStatusFields
<1>3. db.nodes[n].att \in Nat
  BY <1>1, InstanceFields DEF NodeStates
<1> HIDE DEF inst, ns
<1>4. Onward(ns, db.nodes[n])
  BY <1>2, <1>3 DEF Onward, Status
<1>5. \A m \in Nodes : m # n => Onward(inst.nodes[m], db.nodes[m])
  BY <1>2 DEF Onward
<1>6. /\ \A m \in Nodes : Onward(inst.nodes[m], db.nodes[m])
      /\ \A m \in Nodes : inst.nodes[m].st \in {"Queued", "WaitingApproval"} =>
                           db.nodes[m].st \in {"Queued", "WaitingApproval"} \/ Turn(db, m)
  BY <1>2, <1>4, <1>5 DEF Status
<1>7. /\ Sound(inst, produced) /\ Ahead(inst, db) /\ \A m \in Nodes : ~IsReset(inst, db, m)
      /\ Keeps(inst, db)
  BY <1>2, <1>6, StoredOnward
<1>8. Turn(inst, n)
  BY <1>1, <1>7, TurnKept DEF Sound
<1>9. Status(inst, n) = st
  BY <1>2 DEF Status
<1> QED BY <1>2, <1>7, <1>8, <1>9 DEF inst

LEMMA CalmCancel == ASSUME IInv, CalmInv, ~RacingStart, CancelInstance PROVE CalmInv'
<1> DEFINE inst == [db EXCEPT !.status = "Cancelled", !.nodes = CancelledNodes(db)]
<1>1. /\ CanLock /\ Begin("cancel", inst, {}, <<"save">>, NoMsg) /\ UNCHANGED <<db, tasks, produced>>
  BY DEF CancelInstance, bus
<1>2. db \in Instances /\ Rests(db, produced)
  BY DEF IInv, TypeOK
<1>3. inst \in Instances /\ inst.outs = db.outs /\ inst.nodes = CancelledNodes(db)
  BY <1>2, CancelledOK DEF Instances
<1> HIDE DEF inst
<1>4. \A m \in Nodes : /\ [db.nodes[m] EXCEPT !.st = "Cancelled"].st = "Cancelled"
                       /\ [db.nodes[m] EXCEPT !.st = "Cancelled"].att = db.nodes[m].att
                       /\ db.nodes[m].st \in NodeStatus
  BY <1>2, InstanceFields DEF NodeStates
<1>5. \A m \in Nodes : inst.nodes[m] = IF db.nodes[m].st \in NodeTerminal THEN db.nodes[m]
                                       ELSE [db.nodes[m] EXCEPT !.st = "Cancelled"]
  BY <1>3 DEF CancelledNodes, Status
<1>6. \A m \in Nodes : /\ Onward(inst.nodes[m], db.nodes[m])
                       /\ inst.nodes[m].st \in {"Failed", "Completed", "Skipped", "Cancelled"}
  BY <1>4, <1>5 DEF Onward, NodeTerminal, NodeStatus
<1>7. /\ Sound(inst, produced) /\ Ahead(inst, db) /\ \A m \in Nodes : ~IsReset(inst, db, m)
  BY <1>3, <1>6, StoredOnward
<1>8. <<"save">> \in SilentStacks /\ <<"save">> \notin DispatchStacks
  BY DEF SilentStacks, DispatchStacks
<1> QED BY <1>1, <1>7, <1>8, CalmBegin

LEMMA CalmApprove == ASSUME IInv, CalmInv, ~RacingStart, ApproveNode PROVE CalmInv'
<1>1. PICK n \in Nodes :
        /\ Status(db, n) = "WaitingApproval"
        /\ Begin("approve", SetStatus(db, n, "Queued"), {n}, <<"dispatch", "save">>, NoMsg)
  BY DEF ApproveNode
<1>2. CanLock /\ UNCHANGED <<db, tasks, produced>>
  BY DEF ApproveNode, bus
<1> DEFINE inst == SetStatus(db, n, "Queued")
<1>3. /\ Sound(inst, produced) /\ Ahead(inst, db) /\ \A m \in Nodes : ~IsReset(inst, db, m)
      /\ Status(inst, n) = "Queued" /\ Turn(inst, n) /\ inst.version = db.version
  BY <1>1, StoredStatus
<1>4. <<"dispatch", "save">> \in DispatchStacks
  BY DEF DispatchStacks
<1> QED BY <1>1, <1>2, <1>3, <1>4, CalmBegin

LEMMA CalmReject == ASSUME IInv, CalmInv, ~RacingStart, RejectNode PROVE CalmInv'
<1>1. PICK n \in Nodes :
        /\ Status(db, n) = "WaitingApproval"
        /\ Begin("reject", [SetStatus(db, n, "Failed") EXCEPT !.status = "Failed"],
                 {}, <<"save">>, NoMsg)
  BY DEF RejectNode
<1>2. CanLock /\ UNCHANGED <<db, tasks, produced>>
  BY DEF RejectNode, bus
<1> DEFINE one == SetStatus(db, n, "Failed")
           inst == [one EXCEPT !.status = "Failed"]
<1>3. /\ Sound(one, produced) /\ Ahead(one, db) /\ \A m \in Nodes : ~IsReset(one, db, m)
      /\ one \in Instances
  BY <1>1, StoredStatus
<1> HIDE DEF one
<1>4. inst.nodes = one.nodes /\ inst.outs = one.outs
  BY <1>3 DEF Instances
<1>5. /\ Sound(inst, produced) /\ Ahead(inst, db) /\ \A m \in Nodes : ~IsReset(inst, db, m)
  BY <1>3, <1>4, SameNodes, SameReset
<1>6. <<"save">> \in SilentStacks /\ <<"save">> \notin DispatchStacks
  BY DEF SilentStacks, DispatchStacks
<1>7. Begin("reject", inst, {}, <<"save">>, NoMsg)
  BY <1>1 DEF one
<1> HIDE DEF inst
<1> QED BY <1>2, <1>5, <1>6, <1>7, CalmBegin

\* A node completes on the answer of a worker; its output is kept, or the budget is
\* exceeded and it is not.
LEMMA CompletedSound ==
  ASSUME IInv, CalmInv, NEW m \in results, ResultExpected(db, m), m.ok, NEW inst \in Instances,
         NEW ns, ns.st = "Completed", ns.att = db.nodes[m.node].att,
         \A n \in Nodes : inst.nodes[n] = IF n = m.node THEN ns ELSE db.nodes[n],
         \A n \in Nodes : n # m.node => inst.outs[n] = db.outs[n],
         inst.outs[m.node] \in {m.out, db.outs[m.node]}
  PROVE  /\ Sound(inst, produced) /\ Ahead(inst, db) /\ \A n \in Nodes : ~IsReset(inst, db, n)
<1>1. /\ m \in produced /\ m.node \in Nodes /\ ~m.undo /\ db.nodes[m.node].st = "Queued"
      /\ Sound(db, produced) /\ db \in Instances
  BY DEF IInv, TypeOK, Results, ResultExpected, Status, CalmInv
<1>2. db.outs[m.node] = "none"
  BY <1>1 DEF Sound, Status
<1>3. Ahead(inst, db)
  <2>1. \A n \in Nodes : db.nodes[n].att \in Nat
    BY <1>1, InstanceFields DEF NodeStates
  <2>2. \A n \in Nodes : Later(inst.nodes[n], db.nodes[n])
    BY <1>1, <2>1 DEF Later
  <2>3. \A n \in Nodes : Follows(Status(db, n), Status(inst, n))
    BY <1>1 DEF Follows, Status
  <2>4. \A n \in Nodes : Status(db, n) \in NodeTerminal => inst.outs[n] = db.outs[n]
    BY <1>1 DEF Status, NodeTerminal
  <2> QED BY <2>2, <2>3, <2>4 DEF Ahead
<1>4. Keeps(inst, db)
  BY <1>3, AheadKeeps
<1>5. \A n \in Nodes : Status(inst, n) \in {"Queued", "WaitingApproval"} => Turn(inst, n)
  <2>1. \A n \in Nodes : Status(inst, n) \in {"Queued", "WaitingApproval"} =>
                           Status(db, n) \in {"Queued", "WaitingApproval"}
    BY DEF Status
  <2>2. \A n \in Nodes : Turn(db, n) => Turn(inst, n)
    BY <1>4, TurnKept
  <2> QED BY <1>1, <2>1, <2>2 DEF Sound
<1>6. \A n \in Nodes \ (Triggers \cup Capabilities) :
        Status(inst, n) = "Completed" => Answered(inst, n, produced)
  <2> SUFFICES ASSUME NEW n \in Nodes \ (Triggers \cup Capabilities), Status(inst, n) = "Completed"
               PROVE  Answered(inst, n, produced)
    OBVIOUS
  <2>1. CASE n = m.node
    BY <1>1, <1>2, <2>1 DEF Answered
  <2>2. CASE n # m.node
    <3>1. Status(db, n) = "Completed" /\ inst.outs[n] = db.outs[n]
      BY <2>2 DEF Status
    <3>2. Answered(db, n, produced)
      BY <1>1, <3>1 DEF Sound
    <3> QED BY <3>1, <3>2 DEF Answered
  <2> QED BY <2>1, <2>2
<1>7. \A n \in Nodes : inst.outs[n] # "none" => Status(inst, n) = "Completed"
  BY <1>1 DEF Sound, Status
<1>8. \A n \in Nodes : ~IsReset(inst, db, n)
  BY DEF IsReset, Status
<1> QED BY <1>3, <1>5, <1>6, <1>7, <1>8 DEF Sound

LEMMA CalmCompensationResult ==
  ASSUME IInv, CalmInv, ~RacingStart, CanLock, NEW m \in results, UNCHANGED <<db, tasks, produced>>,
         CompensationResult(m) \/ LateResult(m)
  PROVE  CalmInv'
<1> DEFINE counted == [db EXCEPT !.saga.done = @ \cup {m.node}]
<1>1. db \in Instances
  BY DEF IInv, TypeOK
<1>2. /\ counted.nodes = db.nodes /\ counted.outs = db.outs
      /\ EndCompensation(counted).nodes = db.nodes /\ EndCompensation(counted).outs = db.outs
      /\ EndCompensation(db).nodes = db.nodes /\ EndCompensation(db).outs = db.outs
  BY <1>1 DEF EndCompensation, Instances
<1>3. \/ Begin("result", db, {}, <<"ack">>, m)
      \/ Begin("result", EndCompensation(db), {}, <<"save", "ack">>, m)
      \/ Begin("result", EndCompensation(counted), {}, <<"save", "ack">>, m)
      \/ Begin("result", counted, {}, <<"save", "comp", "ack">>, m)
  BY DEF CompensationResult, LateResult
<1> HIDE DEF counted
<1>4. ASSUME NEW inst, NEW k \in SilentStacks \ DispatchStacks, Begin("result", inst, {}, k, m),
             inst.nodes = db.nodes, inst.outs = db.outs
      PROVE  CalmInv'
  BY <1>4, StoredItself, CalmBegin
<1>5. {<<"ack">>, <<"save", "ack">>, <<"save", "comp", "ack">>} \subseteq SilentStacks \ DispatchStacks
  BY DEF SilentStacks, DispatchStacks
<1>6. CASE Begin("result", db, {}, <<"ack">>, m)
  BY <1>4, <1>5, <1>6
<1>7. CASE Begin("result", EndCompensation(db), {}, <<"save", "ack">>, m)
  BY <1>2, <1>4, <1>5, <1>7
<1>8. CASE Begin("result", EndCompensation(counted), {}, <<"save", "ack">>, m)
  BY <1>2, <1>4, <1>5, <1>8
<1>9. CASE Begin("result", counted, {}, <<"save", "comp", "ack">>, m)
  BY <1>2, <1>4, <1>5, <1>9
<1> QED BY <1>3, <1>6, <1>7, <1>8, <1>9

LEMMA CalmErrorResult ==
  ASSUME IInv, CalmInv, ~RacingStart, CanLock, NEW m \in results, UNCHANGED <<db, tasks, produced>>,
         ErrorResult(m)
  PROVE  CalmInv'
<1> DEFINE ns == [st |-> "Queued", att |-> m.att + 1, started |-> FALSE]
           retried == SetNode(db, m.node, ns)
           failed == SetStatus(db, m.node, "Failed")
           ended == [failed EXCEPT !.status = "Failed"]
<1>1. /\ m.node \in Nodes /\ db \in Instances /\ m.att \in Nat /\ db.nodes[m.node].att = m.att
      /\ db.nodes[m.node].st = "Queued" /\ Sound(db, produced)
  BY DEF IInv, TypeOK, Results, ErrorResult, ResultExpected, Status, CalmInv
<1>2. \/ Begin("result", retried, {}, <<"save", "sleep">>, m)
      \/ Begin("result", BeginCompensation(failed), {}, <<"save", "comp", "ack">>, m)
      \/ Begin("result", ended, {}, <<"save", "ack">>, m)
  BY DEF ErrorResult
<1>3. /\ Sound(failed, produced) /\ Ahead(failed, db) /\ \A n \in Nodes : ~IsReset(failed, db, n)
      /\ failed \in Instances
  BY <1>1, StoredStatus DEF Status
<1>4. ns \in NodeStates /\ ns.st = "Queued" /\ ns.att = m.att + 1
  BY <1>1 DEF NodeStates, NodeStatus
<1> HIDE DEF failed, ns
<1>5. /\ ended.nodes = failed.nodes /\ ended.outs = failed.outs
      /\ BeginCompensation(failed).nodes = failed.nodes
      /\ BeginCompensation(failed).outs = failed.outs
  BY <1>3 DEF BeginCompensation, Instances
<1>6. /\ retried \in Instances /\ retried.outs = db.outs
      /\ \A n \in Nodes : retried.nodes[n] = IF n = m.node THEN ns ELSE db.nodes[n]
  BY <1>1, <1>4, SetNodeFields
<1> HIDE DEF retried, ended
<1>7. Sound(retried, produced) /\ Ahead(retried, db) /\ \A n \in Nodes : ~IsReset(retried, db, n)
  <2>1. /\ m.node \in Nodes /\ Onward(ns, db.nodes[m.node]) /\ Turn(db, m.node)
        /\ \A n \in Nodes : retried.nodes[n] = IF n = m.node THEN ns ELSE db.nodes[n]
    <3>1. Onward(ns, db.nodes[m.node])
      BY <1>1, <1>4 DEF Onward
    <3>2. Turn(db, m.node)
      BY <1>1 DEF Sound, Status
    <3> QED BY <1>1, <1>6, <3>1, <3>2
  <2>2. /\ \A n \in Nodes : Onward(retried.nodes[n], db.nodes[n])
        /\ \A n \in Nodes : retried.nodes[n].st \in {"Queued", "WaitingApproval"} =>
                             db.nodes[n].st \in {"Queued", "WaitingApproval"} \/ Turn(db, n)
    BY ONLY SMTT(30), <2>1, OneNode
  <2> QED BY <1>6, <2>2, StoredOnward
<1>8. ASSUME NEW inst, NEW k \in SilentStacks \ DispatchStacks, Begin("result", inst, {}, k, m),
             Sound(inst, produced), Ahead(inst, db), \A n \in Nodes : ~IsReset(inst, db, n)
      PROVE  CalmInv'
  BY <1>8, CalmBegin
<1>9. {<<"save", "sleep">>, <<"save", "ack">>, <<"save", "comp", "ack">>}
        \subseteq SilentStacks \ DispatchStacks
  BY DEF SilentStacks, DispatchStacks
<1>10. /\ Sound(ended, produced) /\ Ahead(ended, db) /\ \A n \in Nodes : ~IsReset(ended, db, n)
       /\ Sound(BeginCompensation(failed), produced) /\ Ahead(BeginCompensation(failed), db)
       /\ \A n \in Nodes : ~IsReset(BeginCompensation(failed), db, n)
  BY <1>3, <1>5, SameNodes, SameReset
<1>11. CASE Begin("result", retried, {}, <<"save", "sleep">>, m)
  BY <1>7, <1>8, <1>9, <1>11
<1>12. CASE Begin("result", BeginCompensation(failed), {}, <<"save", "comp", "ack">>, m)
  BY <1>8, <1>9, <1>10, <1>12
<1>13. CASE Begin("result", ended, {}, <<"save", "ack">>, m)
  BY <1>8, <1>9, <1>10, <1>13
<1> QED BY <1>2, <1>11, <1>12, <1>13

LEMMA CalmSuccessResult ==
  ASSUME IInv, CalmInv, ~RacingStart, CanLock, NEW m \in results, UNCHANGED <<db, tasks, produced>>,
         SuccessResult(m)
  PROVE  CalmInv'
<1> DEFINE completed == SetStatus(db, m.node, "Completed")
           answered == [completed EXCEPT !.outs[m.node] = m.out]
           inst == CascadeSkips(answered)
           over == [completed EXCEPT !.status = "Failed"]
           ns == [db.nodes[m.node] EXCEPT !.st = "Completed"]
<1>1. /\ m.node \in Nodes /\ db \in Instances /\ m.out \in Outputs \cup {"none"}
      /\ ResultExpected(db, m) /\ m.ok /\ "Completed" \in NodeStatus
  BY DEF IInv, TypeOK, Results, SuccessResult, NodeStatus
<1>2. \/ Begin("result", inst, ReadyNodes(inst), <<"dispatch", "finish", "save", "ack">>, m)
      \/ Begin("result", over, {}, <<"save", "ack">>, m)
  BY DEF SuccessResult
<1>3. /\ completed \in Instances /\ completed.outs = db.outs /\ completed.version = db.version
      /\ \A n \in Nodes : completed.nodes[n] = IF n = m.node THEN ns ELSE db.nodes[n]
      /\ ns.st = "Completed" /\ ns.att = db.nodes[m.node].att
  BY <1>1, SetStatusFields
<1> HIDE DEF completed, ns
<1>4. /\ answered \in Instances /\ answered.nodes = completed.nodes
      /\ answered.version = db.version /\ answered.outs[m.node] = m.out
      /\ \A n \in Nodes : n # m.node => answered.outs[n] = db.outs[n]
  BY <1>1, <1>3 DEF Instances
<1>5. over \in Instances /\ over.nodes = completed.nodes /\ over.outs = db.outs
  BY <1>3 DEF Instances, InstanceStatus
<1> HIDE DEF answered, over
<1>6. Sound(over, produced) /\ Ahead(over, db) /\ \A n \in Nodes : ~IsReset(over, db, n)
  <2>1. /\ over \in Instances /\ ns.st = "Completed" /\ ns.att = db.nodes[m.node].att
        /\ \A n \in Nodes : over.nodes[n] = IF n = m.node THEN ns ELSE db.nodes[n]
        /\ \A n \in Nodes : n # m.node => over.outs[n] = db.outs[n]
        /\ over.outs[m.node] \in {m.out, db.outs[m.node]}
    BY <1>3, <1>5
  <2> QED BY <1>1, <2>1, CompletedSound
<1>7. Sound(answered, produced) /\ Ahead(answered, db) /\ \A n \in Nodes : ~IsReset(answered, db, n)
  <2>1. /\ answered \in Instances /\ ns.st = "Completed" /\ ns.att = db.nodes[m.node].att
        /\ \A n \in Nodes : answered.nodes[n] = IF n = m.node THEN ns ELSE db.nodes[n]
        /\ \A n \in Nodes : n # m.node => answered.outs[n] = db.outs[n]
        /\ answered.outs[m.node] \in {m.out, db.outs[m.node]}
    BY <1>3, <1>4
  <2> QED BY <1>1, <2>1, CompletedSound
<1>8. /\ Sound(inst, produced) /\ Ahead(inst, db) /\ \A n \in Nodes : ~IsReset(inst, db, n)
      /\ inst.version = db.version
  BY <1>1, <1>4, <1>7, CascadeSound, CascadeOnward
<1> HIDE DEF inst
<1>9. \A n \in ReadyNodes(inst) : Status(inst, n) \in {"Pending", "Queued"} /\ Turn(inst, n)
  BY ReadyTurn
<1>10. /\ <<"dispatch", "finish", "save", "ack">> \in DispatchStacks
       /\ <<"save", "ack">> \in SilentStacks /\ <<"save", "ack">> \notin DispatchStacks
  BY DEF SilentStacks, DispatchStacks
<1>11. CASE Begin("result", inst, ReadyNodes(inst), <<"dispatch", "finish", "save", "ack">>, m)
  BY <1>8, <1>9, <1>10, <1>11, CalmBegin
<1>12. CASE Begin("result", over, {}, <<"save", "ack">>, m)
  BY <1>6, <1>10, <1>12, CalmBegin
<1> QED BY <1>2, <1>11, <1>12

LEMMA CalmHandleResult == ASSUME IInv, CalmInv, ~RacingStart, HandleResult PROVE CalmInv'
<1>1. PICK m \in results : \/ CompensationResult(m) \/ LateResult(m)
                           \/ ErrorResult(m) \/ SuccessResult(m)
  BY DEF HandleResult
<1>2. CanLock /\ UNCHANGED <<db, tasks, produced>>
  BY DEF HandleResult, bus
<1> QED BY <1>1, <1>2, CalmCompensationResult, CalmErrorResult, CalmSuccessResult

LEMMA CalmRetryDispatch == ASSUME IInv, CalmInv, ~RacingStart, RetryDispatch PROVE CalmInv'
<1>1. PICK m \in sleeping :
        \/ /\ Status(db, m.node) = "Queued"
           /\ Begin("retry", db, {m.node}, <<"dispatch", "ack">>, m)
        \/ Begin("retry", db, {}, <<"ack">>, m)
  BY DEF RetryDispatch
<1>2. CanLock /\ UNCHANGED <<db, tasks, produced>> /\ m.node \in Nodes /\ Sound(db, produced)
  BY DEF RetryDispatch, bus, IInv, TypeOK, Results, CalmInv
<1>3. Ahead(db, db) /\ \A n \in Nodes : ~IsReset(db, db, n)
  BY StoredItself
<1>4. /\ <<"dispatch", "ack">> \in DispatchStacks
      /\ <<"ack">> \in SilentStacks /\ <<"ack">> \notin DispatchStacks
  BY DEF SilentStacks, DispatchStacks
<1>5. CASE /\ Status(db, m.node) = "Queued"
           /\ Begin("retry", db, {m.node}, <<"dispatch", "ack">>, m)
  <2>1. Turn(db, m.node)
    BY <1>2, <1>5 DEF Sound
  <2> QED BY <1>2, <1>3, <1>4, <1>5, <2>1, CalmBegin
<1>6. CASE Begin("retry", db, {}, <<"ack">>, m)
  BY <1>2, <1>3, <1>4, <1>6, CalmBegin
<1> QED BY <1>1, <1>5, <1>6

-----------------------------------------------------------------------------
(* Start, crash, recovery and the workers, in a calm start. *)

LEMMA CalmUnchanged ==
  ASSUME CalmInv, UNCHANGED <<db, proc, tasks, produced>> PROVE CalmInv'
  BY DEF CalmInv, Exists, Active, PersistedBeforePublished, RunsInOrder, Succeeded, Status

\* With no task on the bus there is nothing to say of tasks.
LEMMA NoTasks ==
  ASSUME tasks' = {} PROVE PersistedBeforePublished' /\ RunsInOrder'
  BY DEF PersistedBeforePublished, RunsInOrder

LEMMA NewSound ==
  ASSUME NEW answers
  PROVE  Sound(NewInstance, answers) /\ NewInstance.version = 1
<1>1. /\ NewInstance.version = 1
      /\ \A n \in Nodes : NewInstance.nodes[n].st = "Pending" /\ NewInstance.outs[n] = "none"
  BY DEF NewInstance
<1> QED BY <1>1 DEF Sound, Status

LEMMA StartedSound ==
  ASSUME NEW answers, NEW fired \in SUBSET Triggers
  PROVE  LET inst == CompleteAtStart(NewInstance, fired)
         IN /\ Sound(inst, answers) /\ Ahead(inst, NewInstance) /\ inst.version = 1
            /\ \A n \in Nodes : ~IsReset(inst, NewInstance, n)
            /\ \A n \in EntryActions : Status(inst, n) = "Pending" /\ Turn(inst, n)
<1> DEFINE inst == CompleteAtStart(NewInstance, fired)
           done == [[st |-> "Pending", att |-> 0, started |-> FALSE] EXCEPT
                      !.st = "Completed", !.started = TRUE]
<1>1. done.st = "Completed" /\ done.att = 0
  OBVIOUS
<1> HIDE DEF done
<1>2. /\ \A n \in Nodes : NewInstance.nodes[n] = [st |-> "Pending", att |-> 0, started |-> FALSE]
      /\ \A n \in Nodes : NewInstance.outs[n] = "none"
      /\ NewInstance \in Instances /\ NewInstance.version = 1
  BY NewInstanceOK DEF NewInstance
<1>3. /\ inst.nodes = [n \in Nodes |-> IF n \in Capabilities \cup fired
                                       THEN [NewInstance.nodes[n] EXCEPT !.st = "Completed",
                                                                         !.started = TRUE]
                                       ELSE NewInstance.nodes[n]]
      /\ inst.outs = [n \in Nodes |-> IF n \in Capabilities \cup fired THEN "yes"
                                      ELSE NewInstance.outs[n]]
      /\ inst.version = NewInstance.version
  BY <1>2 DEF CompleteAtStart, Instances
<1>4. \A n \in Nodes :
        IF n \in Capabilities \cup fired THEN inst.nodes[n] = done /\ inst.outs[n] = "yes"
        ELSE inst.nodes[n] = NewInstance.nodes[n] /\ inst.outs[n] = "none"
  BY <1>2, <1>3 DEF done
<1>5. \A n \in Nodes : NewInstance.nodes[n].st = "Pending" /\ NewInstance.nodes[n].att = 0
  BY <1>2
<1> HIDE DEF inst
<1>6. Sound(inst, answers)
  BY <1>1, <1>4, <1>5 DEF Sound, Status
<1>7. Ahead(inst, NewInstance)
  <2>1. \A n \in Nodes : Later(inst.nodes[n], NewInstance.nodes[n])
    BY <1>1, <1>4, <1>5 DEF Later
  <2>2. \A n \in Nodes : Follows(Status(NewInstance, n), Status(inst, n))
    BY <1>5 DEF Follows, Status
  <2> QED BY <1>5, <2>1, <2>2 DEF Ahead, Status, NodeTerminal
<1>8. \A n \in Nodes : ~IsReset(inst, NewInstance, n)
  BY <1>5 DEF IsReset, Status
<1>9. \A n \in EntryActions : Status(inst, n) = "Pending" /\ Turn(inst, n)
  BY <1>4, <1>5 DEF EntryActions, Turn, Status
<1> QED BY <1>2, <1>3, <1>6, <1>7, <1>8, <1>9 DEF inst

LEMMA StartStacks ==
  \A k \in {<<"dispatch", "finish", "save">>, <<"dispatch", "ready", "dispatch", "finish", "save">>} :
    k \in Seq(Labels) /\ k # << >> /\ Plain(k) /\ ~Has(k, {"dispatchError"})
<1>1. ~Has(<<"dispatch", "finish", "save">>, {"dispatchError"})
  BY DEF Has
<1>2. ~Has(<<"dispatch", "ready", "dispatch", "finish", "save">>, {"dispatchError"})
  BY DEF Has
<1>3. <<"dispatch", "finish", "save">> # << >>
  OBVIOUS
<1>4. <<"dispatch", "ready", "dispatch", "finish", "save">> # << >>
  OBVIOUS
<1>5. <<"dispatch", "finish", "save">> \in Seq(Labels) /\ Plain(<<"dispatch", "finish", "save">>)
  BY Stack3, QuietLabels
<1>6. /\ <<"dispatch", "ready", "dispatch", "finish", "save">> \in Seq(Labels)
      /\ Plain(<<"dispatch", "ready", "dispatch", "finish", "save">>)
  BY Stack5, QuietLabels
<1> QED BY <1>1, <1>2, <1>3, <1>4, <1>5, <1>6

LEMMA CalmStartWorkflow == ASSUME IInv, CalmInv, StartWorkflow PROVE CalmInv'
<1> DEFINE inst(fired) == CompleteAtStart(NewInstance, fired)
           k(fired) == IF fired = {} THEN <<"dispatch", "finish", "save">>
                       ELSE <<"dispatch", "ready", "dispatch", "finish", "save">>
           r(fired) == [Idle EXCEPT !.op = "start", !.inst = inst(fired),
                                    !.todo = EntryActions, !.k = k(fired)]
<1>1. PICK fired \in SUBSET Triggers : Continue("start", r(fired))
  BY DEF StartWorkflow
<1>2. /\ k(fired) \in Seq(Labels) /\ k(fired) # << >> /\ Plain(k(fired))
      /\ ~Has(k(fired), {"dispatchError"})
  BY StartStacks
<1>3. /\ Sound(inst(fired), produced) /\ Ahead(inst(fired), NewInstance) /\ inst(fired).version = 1
      /\ \A n \in Nodes : ~IsReset(inst(fired), NewInstance, n)
      /\ \A n \in EntryActions : Status(inst(fired), n) = "Pending" /\ Turn(inst(fired), n)
  BY StartedSound
<1>4. Idle \in Operations
  BY IdleOK DEF GoodOp
<1> HIDE DEF inst, k
<1>5. /\ r(fired).k = k(fired) /\ r(fired).inst = inst(fired)
      /\ r(fired).todo = EntryActions
  BY <1>4 DEF Operations
<1> HIDE DEF r
<1>6. Alone(r(fired), NewInstance, produced)
  BY <1>2, <1>3, <1>5, NewSound, AloneIf DEF NodeTerminal
<1>7. /\ db' = NewInstance /\ tasks' = tasks /\ produced' = produced /\ ~Exists
  BY DEF StartWorkflow, bus
<1>8. tasks = {} /\ \A o \in Procs : ~Active(o)
  BY <1>7 DEF CalmInv, Procs
<1>9. Exists' /\ Sound(db, produced)' /\ PersistedBeforePublished' /\ RunsInOrder'
  BY <1>7, <1>8, NewSound, NoTasks DEF Exists
<1>10. proc \in [Procs -> Operations] /\ "start" \in Procs
  BY DEF IInv, TypeOK, Procs
<1> QED BY <1>1, <1>6, <1>7, <1>8, <1>9, <1>10, CalmStep

LEMMA CalmStartAborts == ASSUME IInv, CalmInv, StartAborts PROVE CalmInv'
<1>1. /\ db' = NewInstance /\ tasks' = tasks /\ produced' = produced /\ ~Exists /\ proc' = proc
  BY DEF StartAborts, bus
<1>2. tasks = {} /\ \A o \in Procs : ~Active(o)
  BY <1>1 DEF CalmInv, Procs
<1>3. Exists' /\ Sound(db, produced)' /\ PersistedBeforePublished' /\ RunsInOrder'
  BY <1>1, <1>2, NewSound, NoTasks DEF Exists
<1>4. \A o \in Procs : ~Active(o)'
  BY <1>1, <1>2 DEF Active
<1> QED BY <1>3, <1>4 DEF CalmInv, Procs

LEMMA CalmCrash == ASSUME IInv, CalmInv, Crash PROVE CalmInv'
<1>1. /\ proc' = [p \in Procs |-> Idle] /\ UNCHANGED <<db, tasks, produced>> /\ Exists
  BY DEF Crash, bus
<1>2. \A o \in Procs : ~Active(o)'
  BY <1>1 DEF Active, Idle
<1>3. Exists' /\ Sound(db, produced)' /\ PersistedBeforePublished' /\ RunsInOrder'
  BY <1>1 DEF CalmInv, PersistedBeforePublished, RunsInOrder, Succeeded, Status, Exists
<1> QED BY <1>2, <1>3 DEF CalmInv, Procs

\* A restart puts the nodes in flight back, as a new attempt, and saves that first.
LEMMA ResetSound ==
  ASSUME NEW inst \in Instances, NEW answers, Sound(inst, answers)
  PROVE  /\ Sound(Reset(inst), answers) /\ Ahead(Reset(inst), inst)
         /\ Reset(inst).version = inst.version
<1> DEFINE again(n) == [inst.nodes[n] EXCEPT !.st = "Pending", !.att = inst.nodes[n].att + 1]
           new == Reset(inst)
<1>1. \A n \in Nodes : inst.nodes[n] \in NodeStates /\ inst.nodes[n].att \in Nat
  BY InstanceFields DEF NodeStates
<1>2. \A n \in Nodes : again(n).st = "Pending" /\ again(n).att = inst.nodes[n].att + 1
  BY <1>1 DEF NodeStates
<1>3. new.nodes = [n \in Nodes |-> IF inst.nodes[n].st = "Queued" THEN again(n)
                                   ELSE inst.nodes[n]]
  BY DEF Reset, Instances, Status
<1>4. new.outs = inst.outs /\ new.version = inst.version
  BY DEF Reset, Instances
<1> HIDE DEF again, new
<1>5. \A n \in Nodes : new.nodes[n] = IF inst.nodes[n].st = "Queued" THEN again(n) ELSE inst.nodes[n]
  BY <1>3
<1>6. Ahead(new, inst)
  <2>1. \A n \in Nodes : Later(new.nodes[n], inst.nodes[n])
    BY <1>1, <1>2, <1>5 DEF Later
  <2>2. \A n \in Nodes : Follows(Status(inst, n), Status(new, n))
    BY <1>2, <1>5 DEF Follows, Status
  <2> QED BY <1>4, <2>1, <2>2 DEF Ahead
<1>7. Keeps(new, inst)
  BY <1>6, AheadKeeps
<1>8. \A n \in Nodes : Status(new, n) # "Pending" => Status(new, n) = Status(inst, n)
  BY <1>2, <1>5 DEF Status
<1>9. \A n \in Nodes : Status(new, n) \in {"Queued", "WaitingApproval"} => Turn(new, n)
  <2>1. \A n \in Nodes : Turn(inst, n) => Turn(new, n)
    BY <1>7, TurnKept
  <2> QED BY <1>8, <2>1 DEF Sound
<1>10. \A n \in Nodes \ (Triggers \cup Capabilities) :
         Status(new, n) = "Completed" => Answered(new, n, answers)
  BY <1>4, <1>8 DEF Sound, Answered
<1>11. \A n \in Nodes : new.outs[n] # "none" => Status(new, n) = "Completed"
  BY <1>4, <1>7 DEF Sound, Keeps, NodeTerminal
<1> QED BY <1>4, <1>6, <1>9, <1>10, <1>11 DEF Sound, new

LEMMA ResumeStack ==
  LET k == <<"save", "ready", "dispatch", "save">>
  IN k # << >> /\ Head(k) = "save" /\ ~Has(k, {"publish"}) /\ ~Has(k, {"dispatchError"})
  BY DEF Has

LEMMA CalmResume == ASSUME IInv, CalmInv, ~RacingStart, Resume PROVE CalmInv'
<1> DEFINE k == <<"save", "ready", "dispatch", "save">>
           q == [op |-> "resume", k |-> k, inst |-> Reset(db), todo |-> {},
                 att |-> 1, try |-> 0, msg |-> NoMsg]
<1>1. /\ CanLock /\ UNCHANGED <<db, tasks, produced>>
      /\ \/ proc' = proc
         \/ Begin("resume", db, {}, <<"comp", "save">>, NoMsg)
         \/ Begin("resume", Reset(db), {}, k, NoMsg)
  BY DEF Resume, bus
<1>2. CASE proc' = proc
  BY <1>1, <1>2, CalmUnchanged
<1>3. CASE Begin("resume", db, {}, <<"comp", "save">>, NoMsg)
  <2>1. <<"comp", "save">> \in SilentStacks /\ <<"comp", "save">> \notin DispatchStacks
    BY DEF SilentStacks, DispatchStacks
  <2>2. Sound(db, produced) /\ Ahead(db, db) /\ \A n \in Nodes : ~IsReset(db, db, n)
    BY StoredItself
  <2> QED BY <1>1, <1>3, <2>1, <2>2, CalmBegin
<1>4. CASE Begin("resume", Reset(db), {}, k, NoMsg)
  <2>1. q.k = k /\ q.inst = Reset(db) /\ q.todo = {} /\ Continue("locked", q)
    BY <1>4 DEF Begin
  <2>2. k # << >> /\ Head(k) = "save" /\ ~Has(k, {"publish"}) /\ ~Has(k, {"dispatchError"})
    BY ResumeStack
  <2> HIDE DEF q, k
  <2>3. db \in Instances /\ Sound(db, produced)
    BY DEF IInv, TypeOK, CalmInv
  <2>4. Sound(Reset(db), produced) /\ Ahead(Reset(db), db) /\ Reset(db).version = db.version
    BY <2>3, ResetSound
  <2>5. Alone(q, db', produced')
    BY <1>1, <2>1, <2>2, <2>4 DEF Alone
  <2>6. /\ Exists' /\ Sound(db, produced)' /\ PersistedBeforePublished' /\ RunsInOrder'
        /\ \A o \in Procs \ {"locked"} : ~Active(o)
    <3>1. proc["start"].k = << >> /\ Exists
      BY <1>1 DEF CanLock, Idle
    <3> QED BY <1>1, <3>1 DEF CalmInv, PersistedBeforePublished, RunsInOrder, Succeeded, Status,
                              Exists, Procs, Active
  <2>7. proc \in [Procs -> Operations] /\ "locked" \in Procs
    BY DEF IInv, TypeOK, Procs
  <2> QED BY <2>1, <2>5, <2>6, <2>7, CalmStep
<1> QED BY <1>1, <1>2, <1>3, <1>4

LEMMA CalmExecute == ASSUME IInv, CalmInv, Execute PROVE CalmInv'
<1>1. /\ db' = db /\ proc' = proc /\ produced \subseteq produced' /\ tasks' \subseteq tasks
  BY DEF Execute
<1>2. Sound(db, produced)'
  BY <1>1, SoundGrows DEF CalmInv
<1>3. (\A p \in Procs : Active(p) => Alone(proc[p], db, produced))'
  <2> SUFFICES ASSUME NEW p \in Procs, Active(p) PROVE Alone(proc[p], db, produced')
    BY <1>1 DEF Active
  <2>1. Alone(proc[p], db, produced)
    BY DEF CalmInv
  <2>2. Sound(proc[p].inst, produced')
    BY <1>1, <2>1, SoundGrows DEF Alone
  <2> QED BY <2>1, <2>2 DEF Alone
<1>4. PersistedBeforePublished'
  BY <1>1 DEF CalmInv, PersistedBeforePublished, Status
<1>5. RunsInOrder'
  <2>1. \A n : Succeeded(n) \subseteq Succeeded(n)'
    BY <1>1 DEF Succeeded
  <2> QED BY <1>1, <2>1 DEF CalmInv, RunsInOrder, Status
<1>6. (~Exists => /\ ~Active("start") /\ ~Active("locked") /\ tasks = {}
                  /\ db.nodes = NewInstance.nodes /\ db.outs = NewInstance.outs)'
  BY <1>1 DEF CalmInv, Exists, Active
<1>7. ~(Active("start") /\ Active("locked"))'
  BY <1>1 DEF CalmInv, Active
<1> QED BY <1>2, <1>3, <1>4, <1>5, <1>6, <1>7 DEF CalmInv

-----------------------------------------------------------------------------
(* The theorems of a calm start. *)

LEMMA CalmInit == Init => CalmInv
<1> SUFFICES ASSUME Init PROVE CalmInv
  OBVIOUS
<1>1. db.nodes = NewInstance.nodes /\ db.outs = NewInstance.outs
  BY DEF Init, NewInstance
<1>2. Sound(db, produced)
  BY <1>1, NewSound, SameNodes
<1>3. \A p \in Procs : ~Active(p)
  BY DEF Init, Active, Idle
<1>4. tasks = {} /\ PersistedBeforePublished /\ RunsInOrder
  BY DEF Init, PersistedBeforePublished, RunsInOrder
<1> QED BY <1>1, <1>2, <1>3, <1>4 DEF CalmInv, Procs

LEMMA CalmEngineStep == ASSUME IInv, CalmInv, NEW p \in Procs, EngineStep(p) PROVE CalmInv'
  BY CalmGate, CalmQueueNode, CalmDispatchFails, CalmPublish, CalmDispatchDone, CalmDispatchError,
     CalmDispatchErrorLost, CalmFindReady, CalmFinish, CalmSave, CalmSaveConflict, CalmSaveError,
     CalmRefetch, CalmRefetchError, CalmGiveUp, CalmSleep, CalmAck, CalmCompensate DEF EngineStep

LEMMA CalmNext == ~RacingStart /\ IInv /\ CalmInv /\ [Next]_vars => CalmInv'
<1> SUFFICES ASSUME ~RacingStart, IInv, CalmInv, [Next]_vars PROVE CalmInv'
  OBVIOUS
<1>1. CASE UNCHANGED vars
  BY <1>1, CalmUnchanged DEF vars
<1>2. CASE ListRunning
  BY <1>2, CalmUnchanged DEF ListRunning, bus
<1>3. CASE Next
  BY <1>2, <1>3, CalmStartWorkflow, CalmStartAborts, CalmEngineStep, CalmHandleResult,
     CalmRetryDispatch, CalmCancel, CalmApprove, CalmReject, CalmCrash, CalmResume,
     CalmExecute DEF Next
<1> QED BY <1>1, <1>3

LEMMA CalmInvAlways == ~RacingStart /\ Spec => []CalmInv
<1> SUFFICES ASSUME ~RacingStart PROVE Spec => []CalmInv
  OBVIOUS
<1>1. IInv /\ CalmInv /\ [Next]_vars => CalmInv'
  BY CalmNext
<1> QED BY <1>1, CalmInit, IInvAlways, PTL DEF Spec

\* While nothing runs beside start_workflow, a task on the bus is one the store knows:
\* dispatch_node saves first, and no save, merge or restart after that takes the
\* attempt back.
THEOREM PersistedBeforePublishedCalm == ~RacingStart /\ Spec => []PersistedBeforePublished
<1>1. CalmInv => PersistedBeforePublished
  BY DEF CalmInv
<1> QED BY <1>1, CalmInvAlways, PTL

\* ... and no node is sent to a worker before its turn: every predecessor is over in
\* the store for good, and one really completed with an output its edge accepts.
THEOREM RunsInOrderCalm == ~RacingStart /\ Spec => []RunsInOrder
<1>1. CalmInv => RunsInOrder
  BY DEF CalmInv
<1> QED BY <1>1, CalmInvAlways, PTL

=============================================================================
