---------------------------- MODULE GovernanceProofs ----------------------------
(***************************************************************************)
(* Who may change what.  For any number of editors, approvers, change       *)
(* requests and requests in progress at the same time: what a merge makes   *)
(* live was approved as it is, and no update or edit discards what was      *)
(* stored after it had read.  For any number of servers, users, updates and *)
(* failures and any policies callers send: what a server grants was stored, *)
(* and as long as nobody has given the administration away, every server    *)
(* admits somebody to it.  For any lists and policies: a caller is shown    *)
(* what the policy lets him see, all of it and nothing else.                *)
(***************************************************************************)
EXTENDS Authoring, AccessControl, Queries, FiniteSetTheorems, SequenceTheorems, TLAPS

(***************************************************************************)
(* Authoring                                                                *)
(***************************************************************************)
\* Somebody other than the author approved definition d for change request c.
ApprovedAs(c, d) == \E a \in approvals : a.cr = c /\ a.def = d /\ a.author # a.by

Proposal == [def : Defs, json : Int]

\* A stored change request: an approved one has an approval that no merge has used.
RecordOK(c) ==
  /\ cr[c] \in ChangeRequest
  /\ Live
  /\ cr[c].status = "approved" => ApprovedAs(c, cr[c].def) /\ balance[c] >= 1

\* An update of the workflow in progress: while the workflow it has read lives, its
\* version does not go back.
SaveOK(q) ==
  /\ q.def \in Defs /\ q.at \in Int /\ q.life \in Nat /\ q.seen \in [version : Int, def : Defs]
  /\ q.life <= row.life
  /\ Live /\ q.life = row.life => q.at <= row.version

\* A handler at work on its copy of a change request.
CopyOK(q) ==
  /\ q.cr \in CRs /\ q.copy \in ChangeRequest /\ q.new \in Proposal
  /\ q.op \in {"update", "submit", "approve", "reject"} => q.copy.status \in {"draft", "open"}
  /\ q.op = "approve" => q.copy.author # q.by
  /\ q.op = "merge" => ApprovedAs(q.cr, q.copy.def)

RequestOK(q) ==
  /\ q.op \in {"none", "save"} \cup Ops
  /\ q.op = "none" => q = Idle
  /\ q.op = "save" => SaveOK(q)
  /\ q.op \in Ops => CopyOK(q)

Shape ==
  /\ row \in [version : Int, def : Defs, json : Int, life : Nat]
  /\ cr = [c \in CRs |-> cr[c]] /\ req = [s \in Slots |-> req[s]]
  /\ balance \in [CRs -> Int] /\ overwrites \subseteq [ahead : BOOLEAN, reborn : BOOLEAN]
  /\ comments \subseteq [id : Comments, cr : CRs, resolved : BOOLEAN]

\* The inductive invariant.
AInv ==
  /\ Shape
  /\ \A c \in CRs : cr[c] # None => RecordOK(c)
  /\ \A s \in Slots : RequestOK(req[s])
  /\ MergedWasApproved /\ NothingLost

\* A step keeps the workflow and does not take its version back, or ends its life.
RowGrows ==
  /\ row.life <= row'.life
  /\ Live' /\ row'.life = row.life => Live /\ row.version <= row'.version

--------------------------------------------------------------------------------
\* The invariant holds when there is no workflow yet.
LEMMA InitAInv == Init => AInv
<1> SUFFICES ASSUME Init PROVE AInv
  OBVIOUS
<1>1. Shape /\ ~Live
  BY DEF Init, Shape, Live
<1>2. MergedWasApproved /\ NothingLost
  BY DEF Init, MergedWasApproved, NothingLost, NoLostUpdate, CommentsKept
<1>3. /\ \A s \in Slots : req[s] = Idle /\ RequestOK(req[s])
      /\ \A c \in CRs : cr[c] = None
  BY DEF Init, RequestOK, Idle, Ops
<1> QED BY <1>1, <1>2, <1>3 DEF AInv

\* A request in progress is not disturbed when the row's version grows, or the
\* workflow is deleted or created anew, and approvals are added.
LEMMA RequestKept ==
  ASSUME NEW q, RequestOK(q), Shape, Shape', approvals \subseteq approvals',
         RowGrows
  PROVE  RequestOK(q)'
<1>1. q.op = "save" => SaveOK(q)'
  BY DEF RequestOK, SaveOK, Shape, RowGrows
<1>2. q.op \in Ops => CopyOK(q)'
  BY DEF RequestOK, CopyOK, Shape, Live, ApprovedAs, ChangeRequest, Proposal
<1> QED BY <1>1, <1>2 DEF RequestOK

\* The slots of the other requests, and the one of the request that goes on.
LEMMA RequestsKept ==
  ASSUME AInv, Shape', approvals \subseteq approvals',
         RowGrows,
         NEW s, \A t \in Slots \ {s} : req'[t] = req[t],
         s \in Slots => RequestOK(req[s])'
  PROVE  \A t \in Slots : RequestOK(req[t])'
<1> TAKE t \in Slots
<1>1. RequestOK(req[t]) /\ Shape
  BY DEF AInv
<1>2. CASE t = s
  BY <1>2
<1>3. CASE t # s
  <2>1. req'[t] = req[t]
    BY <1>3
  <2>2. \A x : RequestOK(x) => RequestOK(x)'
    BY <1>1, RequestKept
  <2> QED BY <1>1, <2>1, <2>2 DEF RequestOK, SaveOK, CopyOK
<1> QED BY <1>2, <1>3

\* A step that leaves the reviews and the comments as they are.
LEMMA NothingReviewed ==
  ASSUME AInv, UNCHANGED <<Reviews, overwrites, posted>>,
         {x.id : x \in comments} \subseteq {x.id : x \in comments'}
  PROVE  MergedWasApproved' /\ NothingLost'
  BY DEF AInv, Reviews, MergedWasApproved, NothingLost, NoLostUpdate, CommentsKept

--------------------------------------------------------------------------------
(* Workflows *)

LEMMA CreateWorkflowOK == ASSUME AInv, NEW d \in Defs, CreateWorkflow(d) PROVE AInv'
<1>1. Shape' /\ RowGrows
  BY DEF AInv, Shape, CreateWorkflow, Live, RowGrows, History, Reviews
<1>2. \A t \in Slots : RequestOK(req[t])'
  <2>1. \A t \in Slots : RequestOK(req[t]) /\ req'[t] = req[t]
    BY DEF AInv, CreateWorkflow
  <2>2. approvals \subseteq approvals' /\ Shape
    BY DEF AInv, CreateWorkflow, History, Reviews
  <2>3. \A x : RequestOK(x) => RequestOK(x)'
    BY <1>1, <2>2, RequestKept
  <2> QED BY <2>1, <2>3 DEF RequestOK, SaveOK, CopyOK
<1>3. \A c \in CRs : cr'[c] = None
  BY DEF AInv, CreateWorkflow, RecordOK
<1>4. MergedWasApproved' /\ NothingLost'
  BY NothingReviewed DEF CreateWorkflow, History
<1> QED BY <1>1, <1>2, <1>3, <1>4 DEF AInv

\* A step of the request in slot s that touches nothing but its own record.
LEMMA LocalStep ==
  ASSUME AInv, NEW s \in Slots, NEW q, req' = [req EXCEPT ![s] = q],
         UNCHANGED <<row, cr, comments, History>>, RequestOK(req[s])'
  PROVE  AInv'
<1>1. Shape'
  BY DEF AInv, Shape, History, Reviews
<1>2. /\ \A t \in Slots \ {s} : req'[t] = req[t]
      /\ approvals' = approvals /\ row.version \in Int /\ row.life \in Nat
  BY DEF AInv, Shape, History, Reviews
<1>3. \A t \in Slots : RequestOK(req[t])'
  <2>1. RowGrows
    BY <1>2 DEF RowGrows, Live
  <2> QED BY <1>1, <1>2, <2>1, RequestsKept
<1>4. \A c \in CRs : cr'[c] # None => RecordOK(c)'
  BY DEF AInv, RecordOK, Live, ApprovedAs, History, Reviews
<1>5. MergedWasApproved' /\ NothingLost'
  BY NothingReviewed DEF History
<1> QED BY <1>1, <1>3, <1>4, <1>5 DEF AInv, Live

\* A request in progress is an update of the workflow or one of a change request.
LEMMA InProgress ==
  ASSUME AInv, NEW s \in Slots, req[s].op # "none"
  PROVE  req[s].op \in {"save"} \cup Ops
  BY DEF AInv, RequestOK, Idle

\* The request in slot s is answered.
LEMMA Answered ==
  ASSUME AInv, NEW s \in Slots, req' = [req EXCEPT ![s] = Idle]
  PROVE  RequestOK(req[s])'
<1>1. req'[s] = Idle
  BY DEF AInv, Shape
<1> QED BY <1>1 DEF RequestOK, Idle, Ops

\* A read starts from the row as it is.
LEMMA UpdateReadOK ==
  ASSUME AInv, NEW s \in Slots, NEW d \in Defs, UpdateRead(s, d) PROVE AInv'
<1> DEFINE q == [op |-> "save", step |-> "snapshot", def |-> d,
                 seen |-> get_workflow, at |-> row.version, life |-> row.life]
<1>1. /\ req' = [req EXCEPT ![s] = q] /\ Live
      /\ UNCHANGED <<row, versions, cr, comments, History>>
  BY DEF UpdateRead
<1>2. req'[s] = q
  BY <1>1 DEF AInv, Shape
<1>3. RequestOK(req[s])'
  BY <1>1, <1>2 DEF AInv, Shape, RequestOK, SaveOK, get_workflow, Live, Ops
<1> HIDE DEF q
<1> QED BY <1>1, <1>3, LocalStep

LEMMA UpdateSnapshotOK == ASSUME AInv, NEW s \in Slots, UpdateSnapshot(s) PROVE AInv'
<1>0. /\ req[s].op = "save" /\ SaveOK(req[s])
      /\ UNCHANGED <<row, cr, comments, History>>
  BY InProgress DEF UpdateSnapshot, AInv, RequestOK
<1>1. CASE req' = [req EXCEPT ![s] = Idle]
  <2>1. RequestOK(req[s])'
    BY <1>1, Answered
  <2> QED BY <1>0, <1>1, <2>1, LocalStep
<1>2. CASE req' = [req EXCEPT ![s].step = "write"]
  <2> DEFINE q == [req[s] EXCEPT !.step = "write"]
  <2>1. req' = [req EXCEPT ![s] = q] /\ req'[s] = q
    BY <1>2 DEF AInv, Shape
  <2>2. /\ q.op = req[s].op /\ q.def = req[s].def /\ q.seen = req[s].seen
        /\ q.at = req[s].at /\ q.life = req[s].life
    OBVIOUS
  <2>3. RequestOK(req[s])'
    BY <1>0, <2>1, <2>2 DEF RequestOK, SaveOK, Ops, Live
  <2> HIDE DEF q
  <2> QED BY <1>0, <2>1, <2>3, LocalStep
<1> QED BY <1>1, <1>2 DEF UpdateSnapshot

\* The version guard: when the same workflow has another version than the one that
\* was read, its version has grown to the one inside the definition that was read.
LEMMA OverwriteOK ==
  ASSUME Shape, NEW q, SaveOK(q), UpdateMatches(q), NEW o \in Overwrite(q)
  PROVE  o \in [ahead : BOOLEAN, reborn : BOOLEAN] /\ (o.ahead \/ o.reborn)
<1>1. o = [ahead |-> q.seen.version > q.at, reborn |-> row.life # q.life]
  BY DEF Overwrite
<1>2. ~(row.life = q.life /\ row.version = q.at)
  BY DEF Overwrite
<1>3. row.life = q.life => q.seen.version > q.at
  BY <1>2 DEF UpdateMatches, SaveOK, Shape
<1>4. o.ahead = (q.seen.version > q.at) /\ o.reborn = (row.life # q.life)
  BY <1>1
<1>5. (q.seen.version > q.at) \in BOOLEAN /\ (row.life # q.life) \in BOOLEAN
  OBVIOUS
<1> QED BY <1>1, <1>3, <1>4, <1>5

\* A row whose version, definition and json are written, field by field.
LEMMA RowWritten ==
  ASSUME NEW r \in [version : Int, def : Defs, json : Int, life : Nat],
         NEW v, NEW d, NEW j
  PROVE  [r EXCEPT !.version = v, !.def = d, !.json = j]
           = [version |-> v, def |-> d, json |-> j, life |-> r.life]
<1>1. r = [version |-> r.version, def |-> r.def, json |-> r.json, life |-> r.life]
  OBVIOUS
<1>2. PICK r1 : r1 = [r EXCEPT !.version = v]
  OBVIOUS
<1>3. r1 = [version |-> v, def |-> r.def, json |-> r.json, life |-> r.life]
  BY <1>1, <1>2
<1>4. PICK r2 : r2 = [r1 EXCEPT !.def = d]
  OBVIOUS
<1>5. r2 = [version |-> v, def |-> d, json |-> r.json, life |-> r.life]
  BY <1>3, <1>4
<1>6. [r2 EXCEPT !.json = j] = [version |-> v, def |-> d, json |-> j, life |-> r.life]
  BY <1>5
<1>7. [r2 EXCEPT !.json = j] = [r EXCEPT !.version = v, !.def = d, !.json = j]
  BY <1>2, <1>4
<1> QED BY <1>6, <1>7

LEMMA UpdateWriteOK == ASSUME AInv, NEW s \in Slots, UpdateWrite(s) PROVE AInv'
<1> DEFINE q == req[s]
<1>0. /\ q.op = "save" /\ SaveOK(q) /\ req' = [req EXCEPT ![s] = Idle]
      /\ UNCHANGED <<cr, comments, Reviews, posted>>
  BY InProgress DEF UpdateWrite, AInv, RequestOK
<1>1. RequestOK(req[s])'
  BY <1>0, Answered
<1>2. CASE ~UpdateMatches(q)
  <2>1. UNCHANGED <<row, cr, comments, History>>
    BY <1>0, <1>2 DEF UpdateWrite, History
  <2> QED BY <1>0, <1>1, <2>1, LocalStep
<1>3. CASE UpdateMatches(q)
  <2>1. /\ row' = [version |-> row.version + 1, def |-> q.def, json |-> row.version + 1,
                    life |-> row.life]
        /\ row.version \in Int /\ row.life \in Nat /\ Live
    <3>1. row \in [version : Int, def : Defs, json : Int, life : Nat]
      BY DEF AInv, Shape
    <3>2. /\ Live /\ q.seen.version = row.version
          /\ row' = [row EXCEPT !.version = q.seen.version + 1, !.def = q.def,
                               !.json = q.seen.version + 1]
      BY <1>3 DEF UpdateWrite, UpdateMatches
    <3> QED BY <3>1, <3>2, RowWritten
  <2>6. overwrites' = overwrites \cup Overwrite(q)
    BY <1>3 DEF UpdateWrite
  <2>7. \A o \in Overwrite(q) : o \in [ahead : BOOLEAN, reborn : BOOLEAN] /\ (o.ahead \/ o.reborn)
    BY <1>0, <1>3, OverwriteOK DEF AInv
  <2>8. overwrites' \subseteq [ahead : BOOLEAN, reborn : BOOLEAN]
    BY <2>6, <2>7 DEF AInv, Shape
  <2>2. Shape' /\ Live' /\ RowGrows
    BY <1>0, <2>1, <2>8 DEF AInv, Shape, Reviews, SaveOK, Live, RowGrows
  <2>3. \A t \in Slots : RequestOK(req[t])'
    <3>1. /\ \A t \in Slots \ {s} : req'[t] = req[t]
          /\ approvals' = approvals
      BY <1>0 DEF AInv, Shape, Reviews
    <3> QED BY <1>1, <2>2, <3>1, RequestsKept
  <2>4. \A c \in CRs : cr'[c] # None => RecordOK(c)'
    BY <1>0, <2>1, <2>2 DEF AInv, RecordOK, ApprovedAs, Reviews, ChangeRequest
  <2>5. MergedWasApproved' /\ NothingLost'
    BY <1>0, <2>6, <2>7 DEF AInv, Reviews, MergedWasApproved, NothingLost, NoLostUpdate, CommentsKept
  <2> QED BY <2>2, <2>3, <2>4, <2>5 DEF AInv
<1> QED BY <1>2, <1>3

LEMMA DeleteWorkflowOK == ASSUME AInv, DeleteWorkflow PROVE AInv'
<1>1. Shape' /\ ~Live' /\ RowGrows
  BY DEF AInv, Shape, DeleteWorkflow, Live, RowGrows, Reviews
<1>2. \A t \in Slots : RequestOK(req[t])'
  <2>1. \A t \in Slots : RequestOK(req[t]) /\ req'[t] = req[t]
    BY DEF AInv, DeleteWorkflow
  <2>2. approvals \subseteq approvals' /\ Shape
    BY DEF AInv, DeleteWorkflow, Reviews
  <2>3. \A x : RequestOK(x) => RequestOK(x)'
    BY <1>1, <2>2, RequestKept
  <2> QED BY <2>1, <2>3 DEF RequestOK, SaveOK, CopyOK
<1>3. \A c \in CRs : cr'[c] = None
  BY DEF DeleteWorkflow
<1>4. MergedWasApproved' /\ NothingLost'
  BY DEF AInv, DeleteWorkflow, Reviews, MergedWasApproved, NothingLost, NoLostUpdate, CommentsKept
<1> QED BY <1>1, <1>2, <1>3, <1>4 DEF AInv

--------------------------------------------------------------------------------
(* Change requests *)

\* What a client may propose.
LEMMA ProposalsOK == ASSUME NEW p \in Proposals PROVE p \in Proposal
  BY AuthoringAssumption DEF Proposals, Proposal

LEMMA CreateChangeRequestOK ==
  ASSUME AInv, NEW c \in CRs, NEW u \in Reviewers, NEW p \in Proposals,
         NEW base \in Versions, CreateChangeRequest(c, u, p, base)
  PROVE  AInv'
<1> DEFINE x == [status |-> "draft", def |-> p.def, json |-> p.json, author |-> u, base |-> base]
<1>1. /\ cr' = [cr EXCEPT ![c] = x] /\ Live
      /\ UNCHANGED <<row, comments, req, History>>
  BY DEF CreateChangeRequest, create_change_request
<1>2. x \in ChangeRequest /\ x.status = "draft"
  BY ProposalsOK, AuthoringAssumption DEF ChangeRequest, Status, Proposal
<1>3. \A d \in CRs : cr'[d] = IF d = c THEN x ELSE cr[d]
  BY <1>1 DEF AInv, Shape
<1> HIDE DEF x
<1>4. Shape'
  BY <1>1 DEF AInv, Shape, History, Reviews
<1>5. \A d \in CRs : cr'[d] # None => RecordOK(d)'
  BY <1>1, <1>2, <1>3 DEF AInv, RecordOK, Live, ApprovedAs, History, Reviews
<1>6. \A t \in Slots : RequestOK(req[t])'
  BY <1>1 DEF AInv, RequestOK, SaveOK, CopyOK, Live, ApprovedAs, History, Reviews
<1>7. MergedWasApproved' /\ NothingLost'
  BY <1>1, NothingReviewed DEF History
<1> QED BY <1>1, <1>4, <1>5, <1>6, <1>7 DEF AInv, Live

\* What a handler has checked on the copy it works on.
LEMMA ReadChangeRequestOK ==
  ASSUME AInv, NEW s \in Slots, NEW c \in CRs, NEW op \in Ops, NEW u \in Reviewers,
         NEW p \in Proposals \cup {Current(c)}, ReadChangeRequest(s, c, op, u, p)
  PROVE  AInv'
<1> DEFINE q == [op |-> op, cr |-> c, copy |-> cr[c], new |-> p, by |-> u,
                 step |-> IF op = "rebase" THEN "compare" ELSE "write"]
<1>1. /\ req' = [req EXCEPT ![s] = q] /\ Allowed(op, cr[c], u) /\ RecordOK(c)
      /\ UNCHANGED <<row, cr, comments, History>> /\ cr[c] # None
  BY DEF ReadChangeRequest, AInv
<1>2. p \in Proposal
  <2>1. Current(c) \in Proposal
    BY <1>1 DEF Current, RecordOK, ChangeRequest, Proposal
  <2> QED BY <2>1, ProposalsOK
<1>3. req'[s] = q
  BY <1>1 DEF AInv, Shape
<1>4. /\ op \in {"update", "submit", "approve", "reject"} => cr[c].status \in {"draft", "open"}
      /\ op = "approve" => cr[c].author # u
      /\ op = "merge" => cr[c].status = "approved"
  BY <1>1 DEF Allowed, Updatable, Submittable, Approvable, Rejectable, Mergeable, NotSelf
<1>5. RequestOK(req[s])'
  <2>1. CopyOK(q)'
    BY <1>1, <1>2, <1>4 DEF CopyOK, RecordOK, Live, ApprovedAs, History, Reviews
  <2>2. q.op = op /\ op \notin {"none", "save"}
    BY DEF Ops
  <2> QED BY <1>1, <1>3, <2>1, <2>2 DEF RequestOK, CopyOK
<1> HIDE DEF q
<1> QED BY <1>1, <1>5, LocalStep

LEMMA CompareOK == ASSUME AInv, NEW s \in Slots, Compare(s) PROVE AInv'
<1>0. /\ req[s].op = "rebase" /\ CopyOK(req[s])
      /\ UNCHANGED <<row, cr, comments, History>>
  BY InProgress DEF Compare, AInv, RequestOK, Ops
<1>1. CASE req' = [req EXCEPT ![s] = Idle]
  <2>1. RequestOK(req[s])'
    BY <1>1, Answered
  <2> QED BY <1>0, <1>1, <2>1, LocalStep
<1>2. CASE req' = [req EXCEPT ![s].step = "write"]
  <2> DEFINE q == [req[s] EXCEPT !.step = "write"]
  <2>1. req' = [req EXCEPT ![s] = q] /\ req'[s] = q
    BY <1>2 DEF AInv, Shape
  <2>2. /\ q.op = req[s].op /\ q.cr = req[s].cr /\ q.copy = req[s].copy
        /\ q.new = req[s].new /\ q.by = req[s].by
    OBVIOUS
  <2>3. RequestOK(req[s])'
    BY <1>0, <2>1, <2>2 DEF RequestOK, CopyOK, Ops, Live, ApprovedAs, History, Reviews
  <2> HIDE DEF q
  <2> QED BY <1>0, <2>1, <2>3, LocalStep
<1> QED BY <1>1, <1>2 DEF Compare

\* The record a handler stores is well formed, and approved only when it approves.
LEMMA WrittenOK ==
  ASSUME NEW q, CopyOK(q), q.op \in Ops \ {"merge"}
  PROVE  /\ Written(q) \in ChangeRequest
         /\ Written(q).status = "approved" => q.op = "approve" /\ Written(q).def = q.copy.def
<1>1. CASE q.op = "update"
  BY <1>1 DEF CopyOK, Written, ChangeRequest, Proposal
<1>2. CASE q.op \in {"submit", "approve", "reject"}
  BY <1>2 DEF CopyOK, Written, ChangeRequest, Status
<1>3. CASE q.op = "rebase"
  BY <1>3 DEF CopyOK, Written, ChangeRequest, Status
<1> QED BY <1>1, <1>2, <1>3 DEF Ops

LEMMA WriteChangeRequestOK == ASSUME AInv, NEW s \in Slots, WriteChangeRequest(s) PROVE AInv'
<1> PICK q : q = req[s]
  OBVIOUS
<1> DEFINE c == q.cr
<1>0. /\ q.op \in Ops \ {"merge"} /\ CopyOK(q) /\ c \in CRs
      /\ req' = [req EXCEPT ![s] = Idle] /\ UNCHANGED <<row, overwrites, posted>>
  BY InProgress DEF WriteChangeRequest, AInv, RequestOK, Ops, CopyOK
<1>1. RequestOK(req[s])'
  BY <1>0, Answered
<1>2. CASE cr[c] = None
  <2>1. UNCHANGED <<row, cr, comments, History>>
    BY <1>0, <1>2 DEF WriteChangeRequest, History
  <2> QED BY <1>0, <1>1, <2>1, LocalStep
<1>3. CASE cr[c] # None
  <2>1. /\ cr' = [cr EXCEPT ![c] = Written(q)] /\ comments' = comments /\ merges' = merges
        /\ \/ /\ q.op = "approve"
              /\ approvals' = approvals \cup {[cr |-> c, def |-> q.copy.def,
                                              author |-> q.copy.author, by |-> q.by]}
              /\ balance' = [balance EXCEPT ![c] = @ + 1]
           \/ q.op # "approve" /\ UNCHANGED <<approvals, balance>>
    BY <1>3 DEF WriteChangeRequest, CommentsAfterStore
  <2>2. /\ approvals \subseteq approvals' /\ balance' \in [CRs -> Int]
        /\ \A d \in CRs : balance[d] <= balance'[d]
        /\ q.op = "approve" => balance'[c] = balance[c] + 1
    BY <1>0, <2>1 DEF AInv, Shape
  <2>3. q.op = "approve" => ApprovedAs(c, q.copy.def)'
    <3> DEFINE a == [cr |-> c, def |-> q.copy.def, author |-> q.copy.author, by |-> q.by]
    <3>1. a.cr = c /\ a.def = q.copy.def /\ a.author = q.copy.author /\ a.by = q.by
      OBVIOUS
    <3>2. q.op = "approve" => a \in approvals' /\ q.copy.author # q.by
      BY <1>0, <2>1 DEF CopyOK
    <3> HIDE DEF a
    <3> QED BY <3>1, <3>2 DEF ApprovedAs
  <2>4. Shape'
    BY <1>0, <2>1, <2>2 DEF AInv, Shape
  <2>5. \A t \in Slots : RequestOK(req[t])'
    <3>1. \A t \in Slots \ {s} : req'[t] = req[t]
      BY <1>0 DEF AInv, Shape
    <3>2. RowGrows
      BY <1>0 DEF AInv, Shape, Live, RowGrows
    <3> QED BY <1>1, <2>2, <2>4, <3>1, <3>2, RequestsKept
  <2>6. \A d \in CRs : balance[d] >= 0 /\ balance[d] \in Int
    BY DEF AInv, MergedWasApproved, Shape
  <2>7. ASSUME NEW d \in CRs, cr'[d] # None PROVE RecordOK(d)'
    <3>1. CASE d = c
      <4>1. cr'[c] = Written(q) /\ Live
        BY <1>0, <1>3, <2>1 DEF AInv, Shape, RecordOK
      <4>2. Written(q).status = "approved" => ApprovedAs(c, Written(q).def)' /\ balance'[c] >= 1
        BY <1>0, <2>2, <2>3, <2>6, WrittenOK DEF ApprovedAs
      <4> QED BY <1>0, <3>1, <4>1, <4>2, WrittenOK DEF RecordOK, Live, ApprovedAs
    <3>2. CASE d # c
      <4>1. cr'[d] = cr[d] /\ RecordOK(d)
        BY <2>1, <2>7, <3>2 DEF AInv, Shape
      <4>2. balance[d] >= 1 => balance'[d] >= 1
        BY <2>2, <2>6
      <4> QED BY <1>0, <2>2, <4>1, <4>2 DEF RecordOK, Live, ApprovedAs
    <3> QED BY <3>1, <3>2
  <2>8. MergedWasApproved'
    <3>1. \A d \in CRs : balance'[d] >= 0
      BY <2>2, <2>6
    <3> QED BY <2>1, <2>2, <3>1 DEF AInv, MergedWasApproved
  <2>9. NothingLost'
    BY <1>0, <2>1 DEF AInv, NothingLost, NoLostUpdate, CommentsKept
  <2> QED BY <1>0, <2>4, <2>5, <2>7, <2>8, <2>9 DEF AInv, Live
<1> QED BY <1>2, <1>3

\* Inside the transaction the request is still approved: the approval is there, in the
\* form that goes live, and this merge uses it up.
LEMMA MergeWriteOK == ASSUME AInv, NEW s \in Slots, MergeWrite(s) PROVE AInv'
<1> PICK q : q = req[s]
  OBVIOUS
<1> DEFINE c == q.cr
<1>0. /\ q.op = "merge" /\ CopyOK(q) /\ c \in CRs
      /\ req' = [req EXCEPT ![s] = Idle] /\ UNCHANGED <<comments, approvals, overwrites, posted>>
  BY InProgress DEF MergeWrite, AInv, RequestOK, Ops, CopyOK
<1>1. RequestOK(req[s])'
  BY <1>0, Answered
<1>2. CASE ~MergeStillApproved(q)
  <2>1. UNCHANGED <<row, cr, comments, History>>
    BY <1>0, <1>2 DEF MergeWrite, History, Reviews
  <2> QED BY <1>0, <1>1, <2>1, LocalStep
<1>3. CASE MergeStillApproved(q)
  <2>1. /\ row' = [row EXCEPT !.version = @ + 1, !.def = q.copy.def, !.json = q.copy.json]
        /\ cr' = [cr EXCEPT ![c].status = "merged"]
        /\ merges' = merges \cup {[cr |-> c, def |-> q.copy.def]}
        /\ balance' = [balance EXCEPT ![c] = @ - 1]
        /\ Live /\ RecordOK(c) /\ cr[c].status = "approved"
    BY <1>0, <1>3 DEF MergeWrite, MergeStillApproved, AInv
  <2>2. RowGrows /\ Live' /\ row' \in [version : Int, def : Defs, json : Int, life : Nat]
    <3>1. /\ row.version \in Int /\ row.life \in Nat /\ q.copy.def \in Defs /\ q.copy.json \in Int
          /\ row' = [version |-> row.version + 1, def |-> q.copy.def, json |-> q.copy.json,
                     life |-> row.life]
      <4>1. row \in [version : Int, def : Defs, json : Int, life : Nat]
        BY DEF AInv, Shape
      <4>2. q.copy.def \in Defs /\ q.copy.json \in Int
        BY <1>0 DEF CopyOK, ChangeRequest
      <4> QED BY <2>1, <4>1, <4>2, RowWritten
    <3>2. /\ row'.version = row.version + 1 /\ row'.life = row.life
          /\ row' \in [version : Int, def : Defs, json : Int, life : Nat]
      BY <3>1
    <3>3. row.version > 0 /\ row'.version > 0
      BY <2>1, <3>1, <3>2 DEF Live
    <3> QED BY <3>1, <3>2, <3>3 DEF Live, RowGrows
  <2>3. /\ balance' \in [CRs -> Int]
        /\ \A d \in CRs : balance'[d] >= 0 /\ (d # c => balance'[d] = balance[d])
    <3>1. balance \in [CRs -> Int] /\ \A d \in CRs : balance[d] >= 0
      BY DEF AInv, Shape, MergedWasApproved
    <3>2. balance[c] >= 1
      BY <2>1 DEF RecordOK, ApprovedAs
    <3>3. balance'[c] = balance[c] - 1 /\ \A d \in CRs : d # c => balance'[d] = balance[d]
      BY <1>0, <2>1, <3>1
    <3>4. balance' \in [CRs -> Int]
      BY <1>0, <2>1, <3>1
    <3>5. balance[c] \in Int
      BY <1>0, <3>1
    <3>6. balance'[c] >= 0
      BY <3>2, <3>3, <3>5
    <3> QED BY <3>1, <3>3, <3>4, <3>6
  <2>4. Shape'
    BY <1>0, <2>1, <2>2, <2>3 DEF AInv, Shape
  <2>5. \A t \in Slots : RequestOK(req[t])'
    <3>1. \A t \in Slots \ {s} : req'[t] = req[t]
      BY <1>0 DEF AInv, Shape
    <3> QED BY <1>0, <1>1, <2>1, <2>2, <2>4, <3>1, RequestsKept
  <2>6. ASSUME NEW d \in CRs, cr'[d] # None PROVE RecordOK(d)'
    <3>1. CASE d = c
      <4>1. cr'[c] = [cr[c] EXCEPT !.status = "merged"]
        BY <1>0, <2>1 DEF AInv, Shape
      <4>2. /\ [cr[c] EXCEPT !.status = "merged"] \in ChangeRequest
            /\ [cr[c] EXCEPT !.status = "merged"].status = "merged"
        BY <2>1, <2>2 DEF RecordOK, ChangeRequest, Status
      <4> QED BY <2>2, <3>1, <4>1, <4>2 DEF RecordOK
    <3>2. CASE d # c
      <4>1. cr'[d] = cr[d] /\ RecordOK(d) /\ balance'[d] = balance[d]
        BY <2>1, <2>3, <2>6, <3>2 DEF AInv, Shape
      <4> QED BY <1>0, <2>2, <4>1 DEF RecordOK, ApprovedAs
    <3> QED BY <3>1, <3>2
  <2>7. MergedWasApproved'
    <3>1. ASSUME NEW m \in merges'
          PROVE  \E a \in approvals' : a.cr = m.cr /\ a.def = m.def /\ a.author # a.by
      <4>1. CASE m \in merges
        BY <1>0, <4>1 DEF AInv, MergedWasApproved
      <4>2. CASE m = [cr |-> c, def |-> q.copy.def]
        BY <1>0, <4>2 DEF CopyOK, ApprovedAs
      <4> QED BY <2>1, <4>1, <4>2
    <3> QED BY <2>3, <3>1 DEF MergedWasApproved
  <2>8. NothingLost'
    BY <1>0 DEF AInv, NothingLost, NoLostUpdate, CommentsKept
  <2> QED BY <2>2, <2>4, <2>5, <2>6, <2>7, <2>8 DEF AInv
<1> QED BY <1>2, <1>3

\* Comments do not touch what is reviewed.
LEMMA CommentStep ==
  ASSUME AInv, UNCHANGED <<row, cr, req, Reviews, overwrites>>, CommentsKept',
         comments' \subseteq [id : Comments, cr : CRs, resolved : BOOLEAN]
  PROVE  AInv'
<1>1. Shape'
  BY DEF AInv, Shape, Reviews
<1>2. \A t \in Slots : RequestOK(req[t])'
  BY DEF AInv, RequestOK, SaveOK, CopyOK, Live, ApprovedAs, Reviews
<1>3. \A d \in CRs : cr'[d] # None => RecordOK(d)'
  BY DEF AInv, RecordOK, Live, ApprovedAs, Reviews
<1>4. MergedWasApproved' /\ NothingLost'
  BY DEF AInv, MergedWasApproved, NothingLost, NoLostUpdate, Reviews
<1> QED BY <1>1, <1>2, <1>3, <1>4 DEF AInv, Live

LEMMA AddCommentOK ==
  ASSUME AInv, NEW c \in CRs, NEW k \in Comments, AddComment(c, k) PROVE AInv'
<1> DEFINE x == [id |-> k, cr |-> c, resolved |-> FALSE]
<1>1. comments' = comments \cup {x} /\ x.id = k /\ x \in [id : Comments, cr : CRs, resolved : BOOLEAN]
  BY DEF AddComment, add_comment
<1> HIDE DEF x
<1>2. CommentsKept'
  BY <1>1 DEF AInv, AddComment, NothingLost, CommentsKept
<1> QED BY <1>1, <1>2, CommentStep DEF AInv, Shape, AddComment

LEMMA ResolveCommentOK == ASSUME AInv, NEW x \in comments, ResolveComment(x) PROVE AInv'
<1> DEFINE y == [x EXCEPT !.resolved = TRUE]
<1>1. /\ y \in [id : Comments, cr : CRs, resolved : BOOLEAN] /\ y.id = x.id
      /\ comments' = (comments \ {x}) \cup {y}
  BY DEF AInv, Shape, ResolveComment, resolve_comment
<1> HIDE DEF y
<1>2. CommentsKept'
  BY <1>1 DEF AInv, ResolveComment, NothingLost, CommentsKept, History
<1> QED BY <1>1, <1>2, CommentStep DEF AInv, Shape, ResolveComment, History

--------------------------------------------------------------------------------
\* Every step keeps the invariant.
LEMMA NextAInv == AInv /\ [Next]_vars => AInv'
<1> SUFFICES ASSUME AInv, [Next]_vars PROVE AInv'
  OBVIOUS
<1>1. CASE \E d \in Defs : CreateWorkflow(d)
  BY <1>1, CreateWorkflowOK
<1>2. CASE DeleteWorkflow
  BY <1>2, DeleteWorkflowOK
<1>3. ASSUME NEW s \in Slots,
             \/ \E d \in Defs : UpdateRead(s, d)
             \/ UpdateSnapshot(s) \/ UpdateWrite(s)
      PROVE  AInv'
  BY <1>3, UpdateReadOK, UpdateSnapshotOK, UpdateWriteOK
<1>4. ASSUME NEW s \in Slots, NEW c \in CRs, NEW op \in Ops, NEW u \in Reviewers,
             NEW p \in Proposals \cup {Current(c)}, ReadChangeRequest(s, c, op, u, p)
      PROVE  AInv'
  BY <1>4, ReadChangeRequestOK
<1>5. ASSUME NEW s \in Slots, Compare(s) \/ WriteChangeRequest(s) \/ MergeWrite(s)
      PROVE  AInv'
  BY <1>5, CompareOK, WriteChangeRequestOK, MergeWriteOK
<1>6. ASSUME NEW c \in CRs, NEW u \in Reviewers, NEW p \in Proposals,
             NEW base \in Versions, CreateChangeRequest(c, u, p, base)
      PROVE  AInv'
  BY <1>6, CreateChangeRequestOK
<1>7. CASE \E c \in CRs, k \in Comments : AddComment(c, k)
  BY <1>7, AddCommentOK
<1>8. CASE \E x \in comments : ResolveComment(x)
  BY <1>8, ResolveCommentOK
<1>9. CASE UNCHANGED vars
  <2>1. CommentsKept' /\ comments' \subseteq [id : Comments, cr : CRs, resolved : BOOLEAN]
    BY <1>9 DEF vars, AInv, Shape, NothingLost, CommentsKept
  <2> QED BY <1>9, <2>1, CommentStep DEF vars, Reviews
<1> QED BY <1>1, <1>2, <1>3, <1>4, <1>5, <1>6, <1>7, <1>8, <1>9 DEF Next

LEMMA AInvAlways == Spec => []AInv
  BY InitAInv, NextAInv, PTL DEF Spec

\* What a merge made live had been approved, in exactly that form, by somebody other
\* than the author, and no approval serves two merges: update, submit, approve, reject,
\* rebase and merge handlers decide on copies that may be stale when they write, but
\* merge_change_request looks at the status again in its transaction, and a record
\* only becomes approved together with the definition its approver had read.
THEOREM MergedWasApprovedAlways == Spec => []MergedWasApproved
<1>1. AInv => MergedWasApproved
  BY DEF AInv
<1> QED BY <1>1, AInvAlways, PTL

\* Neither an update of the workflow nor an edit of a change request discards what was
\* stored after it had read: update_workflow compares versions in the UPDATE, and comments
\* are rows of their own.  The two exceptions are those of NoLostUpdate: a version a
\* client has proposed ahead of its row, and a workflow created again under its old id.
THEOREM NothingLostAlways == Spec => []NothingLost
<1>1. AInv => NothingLost
  BY DEF AInv
<1> QED BY <1>1, AInvAlways, PTL

(***************************************************************************)
(* AccessControl                                                            *)
(***************************************************************************)
\* Two policies that decide alike
Agree(p, q) == p.roles = q.roles /\ p.bindings = q.bindings

\* Roles under which "admin" is an administrator, unless there are none at all
RolesSound(roles) == DOMAIN roles = {} \/ ("admin" \in DOMAIN roles /\ "admin" \in roles["admin"])

\* Bindings that put somebody in charge of everything, unless nobody is bound
BindingsSound(bs) == bs = {} \/ \E b \in bs : b.subject \in Users /\ b.scope = <<>> /\ b.role = "admin"

PolicySound(p) == RolesSound(p.roles) /\ (~waived => BindingsSound(p.bindings))

\* A load between its two queries has the roles of the stored policy, until a save
\* overtakes it.
Reading(l) ==
  /\ l = [step |-> "bindings", roles |-> l.roles, late |-> l.late] /\ l.late \in BOOLEAN
  /\ ~l.late => l.roles = stored.roles
  /\ RolesSound(l.roles)

\* A load that no save overtook has a policy that was in the database.
Loaded(l) ==
  /\ l = [step |-> "loaded", late |-> l.late, policy |-> l.policy] /\ l.late \in BOOLEAN
  /\ ~l.late => \E p \in everStored : Agree(l.policy, p)
  /\ PolicySound(l.policy)

\* What is to be published has been saved.
Updating(r) ==
  /\ r = [step |-> r.step, policy |-> r.policy] /\ r.step \in {"save", "publish"}
  /\ validate_update(r.policy)
  /\ r.step = "publish" => r.policy \in everStored /\ PolicySound(r.policy)

LoadOK(s) == load[s] = NoLoad \/ Reading(load[s]) \/ Loaded(load[s])
UpdateOK(s) == update[s] = NoLoad \/ Updating(update[s])

HeldOK(s) ==
  Serving(s) => /\ PolicySound(held[s])
                /\ s \notin mixed => held[s].bindings = {} \/ \E p \in everStored : Agree(held[s], p)

\* The inductive invariant
PInv ==
  /\ held = [s \in Servers |-> held[s]] /\ load = [s \in Servers |-> load[s]]
  /\ update = [s \in Servers |-> update[s]] /\ waived \in BOOLEAN
  /\ stored \in everStored /\ PolicySound(stored)
  /\ \A s \in Servers : LoadOK(s) /\ UpdateOK(s) /\ HeldOK(s)

(***************************************************************************)
(* Policies                                                                *)
(***************************************************************************)
\* In a policy that validate_update accepts only the built-in role grants "admin".
LEMMA OnlyBuiltinAdmin ==
  ASSUME NEW p, validate_update(p)
  PROVE  /\ RolesSound(p.roles)
         /\ \A r : RoleGrants(p, r, "admin") => r = "admin"
<1>1. /\ DOMAIN BuiltinRoles = {"viewer", "admin"} /\ BuiltinRoles["viewer"] = {"view"}
      /\ BuiltinRoles["admin"] = {"view", "execute", "admin"}
  BY DEF BuiltinRoles, Permissions
<1>2. RolesSound(p.roles)
  BY <1>1 DEF validate_update, RolesSound
<1>3. ASSUME NEW r, RoleGrants(p, r, "admin") PROVE r = "admin"
  BY <1>1, <1>3 DEF validate_update, RoleGrants
<1> QED BY <1>2, <1>3

LEMMA InChargeSound ==
  ASSUME NEW p, validate_update(p), NEW u \in Users, GlobalAdmin(p, u)
  PROVE  BindingsSound(p.bindings)
  BY OnlyBuiltinAdmin DEF GlobalAdmin, BindingsSound

LEMMA DefaultsSound == PolicySound(with_defaults) /\ with_defaults.bindings = {}
<1>1. RolesSound(BuiltinRoles)
  BY DEF RolesSound, BuiltinRoles, Permissions
<1> QED BY <1>1 DEF PolicySound, with_defaults, BindingsSound

LEMMA EmptySound == PolicySound(EmptyPolicy) /\ EmptyPolicy.bindings = {}
<1>1. RolesSound([r \in {} |-> {}])
  BY DEF RolesSound
<1> QED BY <1>1 DEF PolicySound, EmptyPolicy, BindingsSound

LEMMA GlobalCovers == ASSUME NEW t PROVE IsPrefix(<<>>, <<t>>)
  BY DEF IsPrefix

(***************************************************************************)
(* Steps                                                                   *)
(***************************************************************************)
\* A server that does nothing keeps its part of the invariant when others do, unless
\* they save a policy.
LEMMA OthersKeep ==
  ASSUME PInv, NEW t \in Servers, load'[t] = load[t], update'[t] = update[t], held'[t] = held[t],
         t \in mixed <=> t \in mixed', UNCHANGED <<stored, everStored, waived>>
  PROVE  LoadOK(t)' /\ UpdateOK(t)' /\ HeldOK(t)'
<1>1. LoadOK(t)'
  BY DEF PInv, LoadOK, Reading, Loaded, PolicySound
<1>2. UpdateOK(t)'
  BY DEF PInv, UpdateOK, Updating, PolicySound
<1>3. HeldOK(t)'
  BY DEF PInv, HeldOK, Serving, PolicySound
<1> QED BY <1>1, <1>2, <1>3

\* A step of one server that does not change the database
LEMMA ServerStep ==
  ASSUME PInv, NEW s \in Servers, LoadOK(s)', UpdateOK(s)', HeldOK(s)',
         held' = [t \in Servers |-> held'[t]], load' = [t \in Servers |-> load'[t]],
         update' = [t \in Servers |-> update'[t]],
         \A t \in Servers \ {s} : /\ load'[t] = load[t] /\ update'[t] = update[t] /\ held'[t] = held[t]
                                  /\ t \in mixed <=> t \in mixed',
         UNCHANGED <<stored, everStored, waived>>
  PROVE  PInv'
<1>1. \A t \in Servers : LoadOK(t)' /\ UpdateOK(t)' /\ HeldOK(t)'
  BY OthersKeep
<1>2. waived' \in BOOLEAN /\ stored' \in everStored' /\ PolicySound(stored)'
  BY DEF PInv, PolicySound
<1> QED BY <1>1, <1>2 DEF PInv

LEMMA InitPInv == AccessInit => PInv
<1> SUFFICES ASSUME AccessInit PROVE PInv
  OBVIOUS
<1>1. PolicySound(stored)
  <2>1. CASE stored = EmptyPolicy
    BY <2>1, EmptySound
  <2>2. CASE stored # EmptyPolicy
    <3>1. validate_update(stored) /\ \E u \in Users : GlobalAdmin(stored, u)
      BY <2>2 DEF AccessInit
    <3> QED BY <3>1, OnlyBuiltinAdmin, InChargeSound DEF PolicySound
  <2> QED BY <2>1, <2>2
<1>2. \A s \in Servers : held[s] = Down /\ load[s] = NoLoad /\ update[s] = NoLoad
  BY DEF AccessInit
<1> QED BY <1>1, <1>2 DEF AccessInit, PInv, LoadOK, UpdateOK, HeldOK, Serving

LEMMA UpdatePolicyOK ==
  ASSUME PInv, NEW s \in Servers, NEW u \in Users, NEW p \in Policies, UpdatePolicy(s, u, p)
  PROVE  PInv'
<1>1. update'[s] = [step |-> "save", policy |-> p] /\ validate_update(p)
  BY DEF UpdatePolicy, PInv
<1>2. UpdateOK(s)'
  BY <1>1 DEF UpdateOK, Updating, validate_update
<1>3. LoadOK(s)' /\ HeldOK(s)'
  BY DEF UpdatePolicy, PInv, LoadOK, HeldOK, Reading, Loaded, PolicySound, Serving
<1> QED BY <1>2, <1>3, ServerStep DEF UpdatePolicy, PInv

\* A save makes every load late that is between its queries, and adds to what was
\* stored; what it leaves to be published has somebody in charge unless that is waived.
LEMMA SavePolicyOK == ASSUME PInv, NEW s \in Servers, SavePolicy(s) PROVE PInv'
<1> PICK p : p = update[s].policy
  OBVIOUS
<1>1. /\ update[s].step = "save" /\ update[s] = [step |-> "save", policy |-> p] /\ validate_update(p)
  BY DEF SavePolicy, PInv, UpdateOK, Updating, NoLoad
<1>2. /\ update' = [update EXCEPT ![s].step = "publish"]
      /\ stored' = p /\ everStored' = everStored \cup {p}
      /\ waived' = (waived \/ ~ \E u \in Users : GlobalAdmin(p, u))
      /\ UNCHANGED <<held, mixed>>
  BY DEF SavePolicy
<1>3. waived' \in BOOLEAN /\ (waived => waived')
  BY <1>2 DEF PInv
<1>4. PolicySound(p)'
  BY <1>1, <1>2, OnlyBuiltinAdmin, InChargeSound DEF PolicySound
<1>5. ASSUME NEW q, PolicySound(q) PROVE (RolesSound(q.roles) /\ (~waived' => BindingsSound(q.bindings)))
  BY <1>3, <1>5 DEF PolicySound
<1>6. ASSUME NEW t \in Servers PROVE LoadOK(t)'
  <2>1. CASE load[t].step = "bindings"
    <3>1. Reading(load[t])
      BY <2>1 DEF PInv, LoadOK, NoLoad, Loaded
    <3>2. load'[t] = [step |-> "bindings", roles |-> load[t].roles, late |-> TRUE]
      BY <2>1, <3>1 DEF SavePolicy, Reading
    <3> QED BY <3>1, <3>2 DEF LoadOK, Reading
  <2>2. CASE load[t].step # "bindings"
    <3>1. load'[t] = load[t]
      BY <2>2 DEF SavePolicy
    <3>2. load[t] = NoLoad \/ Loaded(load[t])
      BY <2>2 DEF PInv, LoadOK, Reading
    <3>3. CASE load[t] = NoLoad
      BY <3>1, <3>3 DEF LoadOK
    <3>4. CASE Loaded(load[t])
      BY <1>2, <1>5, <3>1, <3>4 DEF LoadOK, Loaded, PolicySound
    <3> QED BY <3>2, <3>3, <3>4
  <2> QED BY <2>1, <2>2
<1>7. ASSUME NEW t \in Servers PROVE UpdateOK(t)'
  <2>1. CASE t = s
    <3>1. update'[s] = [step |-> "publish", policy |-> p]
      BY <1>1, <1>2 DEF PInv
    <3> QED BY <1>1, <1>2, <1>4, <2>1, <3>1 DEF UpdateOK, Updating, validate_update, PolicySound
  <2>2. CASE t # s
    <3>1. update'[t] = update[t]
      BY <1>2, <2>2 DEF PInv
    <3> QED BY <1>2, <1>5, <3>1 DEF PInv, UpdateOK, Updating, PolicySound
  <2> QED BY <2>1, <2>2
<1>8. ASSUME NEW t \in Servers PROVE HeldOK(t)'
  BY <1>2, <1>5 DEF PInv, HeldOK, Serving, PolicySound
<1>9. load' = [t \in Servers |-> load'[t]] /\ update' = [t \in Servers |-> update'[t]]
  BY <1>2 DEF SavePolicy, PInv
<1> QED BY <1>2, <1>3, <1>4, <1>6, <1>7, <1>8, <1>9 DEF PInv

LEMMA SaveFailsOK == ASSUME PInv, NEW s \in Servers, SaveFails(s) PROVE PInv'
<1>1. LoadOK(s)' /\ HeldOK(s)' /\ UpdateOK(s)'
  BY DEF SaveFails, PInv, LoadOK, HeldOK, UpdateOK, Reading, Loaded, PolicySound, Serving
<1> QED BY <1>1, ServerStep DEF SaveFails, PInv

LEMMA PublishPolicyOK == ASSUME PInv, NEW s \in Servers, PublishPolicy(s) PROVE PInv'
<1>1. update[s].policy \in everStored /\ PolicySound(update[s].policy)
  BY DEF PublishPolicy, PInv, UpdateOK, Updating, NoLoad
<1>2. held'[s] = update[s].policy /\ update'[s] = NoLoad /\ load'[s] = load[s]
  BY DEF PublishPolicy, PInv
<1>3. HeldOK(s)'
  BY <1>1, <1>2 DEF PublishPolicy, HeldOK, PolicySound, Agree
<1>4. LoadOK(s)' /\ UpdateOK(s)'
  BY <1>2 DEF PublishPolicy, PInv, LoadOK, UpdateOK, Reading, Loaded, PolicySound
<1> QED BY <1>3, <1>4, ServerStep DEF PublishPolicy, PInv

LEMMA ReadRolesOK == ASSUME PInv, NEW s \in Servers, ReadRoles(s) PROVE PInv'
<1>1. load'[s] = [step |-> "bindings", roles |-> stored.roles, late |-> FALSE]
  BY DEF ReadRoles, PInv
<1>2. LoadOK(s)'
  BY <1>1 DEF ReadRoles, PInv, LoadOK, Reading, PolicySound
<1>3. HeldOK(s)' /\ UpdateOK(s)'
  BY DEF ReadRoles, PInv, HeldOK, UpdateOK, Updating, PolicySound, Serving
<1> QED BY <1>2, <1>3, ServerStep DEF ReadRoles, PInv

LEMMA ReadBindingsOK == ASSUME PInv, NEW s \in Servers, ReadBindings(s) PROVE PInv'
<1>1. Reading(load[s])
  BY DEF ReadBindings, PInv, LoadOK, Loaded, NoLoad
<1>2. load'[s] = [step |-> "loaded", late |-> load[s].late,
                  policy |-> [roles |-> load[s].roles, bindings |-> stored.bindings]]
  BY DEF ReadBindings, PInv
<1>3. Loaded(load[s])'
  <2>1. ~load[s].late => Agree([roles |-> load[s].roles, bindings |-> stored.bindings], stored)
    BY <1>1 DEF Reading, Agree
  <2>2. PolicySound([roles |-> load[s].roles, bindings |-> stored.bindings])
    BY <1>1 DEF PInv, PolicySound, Reading
  <2> QED BY <1>1, <1>2, <2>1, <2>2 DEF ReadBindings, PInv, Loaded, Reading, PolicySound
<1>4. HeldOK(s)' /\ UpdateOK(s)'
  BY DEF ReadBindings, PInv, HeldOK, UpdateOK, Updating, PolicySound, Serving
<1> QED BY <1>3, <1>4, ServerStep DEF ReadBindings, PInv, LoadOK

LEMMA AdoptOK == ASSUME PInv, NEW s \in Servers, Adopt(s) PROVE PInv'
<1>1. Loaded(load[s])
  BY DEF Adopt, PInv, LoadOK, Reading, NoLoad
<1>2. held'[s] = Adopted(s, load[s].policy) /\ load'[s] = NoLoad /\ update'[s] = update[s]
  BY DEF Adopt, PInv
<1>3. held'[s] \in {load[s].policy, with_defaults, NoPolicy}
  BY <1>2 DEF Adopted
<1>4. HeldOK(s)'
  <2>1. CASE held'[s] = load[s].policy
    BY <1>1, <2>1 DEF Adopt, HeldOK, Loaded, PolicySound
  <2>2. CASE held'[s] = with_defaults
    BY <2>2, DefaultsSound DEF Adopt, HeldOK, PolicySound
  <2>3. CASE held'[s] = NoPolicy
    BY <2>3 DEF HeldOK, Serving
  <2> QED BY <1>3, <2>1, <2>2, <2>3
<1>5. LoadOK(s)' /\ UpdateOK(s)'
  BY <1>2 DEF Adopt, PInv, LoadOK, UpdateOK, Updating, PolicySound
<1> QED BY <1>4, <1>5, ServerStep DEF Adopt, PInv

LEMMA LoadFailsOK == ASSUME PInv, NEW s \in Servers, LoadFails(s) PROVE PInv'
<1>1. load'[s] = NoLoad /\ held'[s] = (IF held[s] = Down THEN with_defaults ELSE held[s])
  BY DEF LoadFails, PInv
<1>2. HeldOK(s)'
  <2>1. CASE held[s] = Down
    BY <1>1, <2>1, DefaultsSound DEF LoadFails, HeldOK, PolicySound
  <2>2. CASE held[s] # Down
    BY <1>1, <2>2 DEF LoadFails, PInv, HeldOK, Serving, PolicySound
  <2> QED BY <2>1, <2>2
<1>3. LoadOK(s)' /\ UpdateOK(s)'
  BY <1>1 DEF LoadFails, PInv, LoadOK, UpdateOK, Updating, PolicySound
<1> QED BY <1>2, <1>3, ServerStep DEF LoadFails, PInv

LEMMA RestartAccessOK == ASSUME PInv, NEW s \in Servers, RestartAccess(s) PROVE PInv'
<1>1. LoadOK(s)' /\ UpdateOK(s)' /\ HeldOK(s)'
  BY DEF RestartAccess, PInv, LoadOK, UpdateOK, HeldOK, Serving
<1> QED BY <1>1, ServerStep DEF RestartAccess, PInv

LEMMA NextPInv == PInv /\ [AccessNext]_accessVars => PInv'
<1> SUFFICES ASSUME PInv, [AccessNext]_accessVars PROVE PInv'
  OBVIOUS
<1>1. CASE UNCHANGED accessVars
  <2>1. \A t \in Servers : LoadOK(t)' /\ UpdateOK(t)' /\ HeldOK(t)'
    BY <1>1, OthersKeep DEF accessVars
  <2> QED BY <1>1, <2>1 DEF accessVars, PInv, PolicySound
<1>2. CASE AccessNext
  BY <1>2, UpdatePolicyOK, SavePolicyOK, SaveFailsOK, PublishPolicyOK, ReadRolesOK, ReadBindingsOK,
     AdoptOK, LoadFailsOK, RestartAccessOK DEF AccessNext, AccessStep
<1> QED BY <1>1, <1>2

LEMMA PInvAlways == AccessSpec => []PInv
  BY InitPInv, NextPInv, PTL DEF AccessSpec

(***************************************************************************)
(* Theorems                                                                *)
(***************************************************************************)
\* What a server lets a user do, some policy that was in the database lets that user
\* do: update_rbac_policy publishes only what it has saved, and a load that no save
\* overtook has the roles and the bindings of one stored policy.
THEOREM GrantsWereStoredAlways == AccessSpec => []GrantsWereStored
<1>1. PInv => GrantsWereStored
  <2> SUFFICES ASSUME PInv, NEW s \in Servers, Serving(s), s \notin mixed,
                      NEW u \in Users, NEW perm \in Permissions, NEW t \in Targets,
                      has_permission(held[s], u, perm, t)
               PROVE  \E p \in everStored : has_permission(p, u, perm, t)
    BY DEF GrantsWereStored
  <2>1. held[s].bindings # {}
    BY DEF has_permission
  <2>2. PICK p \in everStored : Agree(held[s], p)
    BY <2>1 DEF PInv, HeldOK
  <2> QED BY <2>2 DEF has_permission, RoleGrants, Agree
<1> QED BY <1>1, PInvAlways, PTL

\* As long as the bootstrap administrator has not given it away, every server whose
\* policy binds anybody admits somebody to change the policy, even one that mixes the
\* roles of one policy with the bindings of another: validate_update reserves "admin"
\* to the built-in role of that name, so the two always fit.
THEOREM SomeoneInChargeAlways == AccessSpec => []SomeoneInCharge
<1>1. PInv => SomeoneInCharge
  <2> SUFFICES ASSUME PInv, ~waived, NEW s \in Servers, Serving(s), held[s].bindings # {},
                      DOMAIN held[s].roles # {}
               PROVE  \E u \in Users : check_permission(s, u, "admin", <<"*">>)
    BY DEF SomeoneInCharge
  <2>1. PolicySound(held[s])
    BY DEF PInv, HeldOK
  <2>2. PICK b \in held[s].bindings : b.subject \in Users /\ b.scope = <<>> /\ b.role = "admin"
    BY <2>1 DEF PolicySound, BindingsSound
  <2>3. RoleGrants(held[s], b.role, "admin")
    BY <2>1, <2>2 DEF PolicySound, RolesSound, RoleGrants
  <2>4. has_permission(held[s], b.subject, "admin", <<"*">>)
    BY <2>2, <2>3, GlobalCovers DEF has_permission
  <2> QED BY <2>2, <2>4 DEF check_permission
<1> QED BY <1>1, PInvAlways, PTL

(***************************************************************************)
(* Queries                                                                 *)
(***************************************************************************)
\* A row of the list that lies at the place `offset` or after it
StillToCome(w) ==
  \E i \in Visible(table, grants) : table[i] = w /\ Place(Visible(table, grants), i) >= walk.offset

AskOK(a) ==
  a # NoAsk => /\ a = [k \in DOMAIN a |-> a[k]] /\ DOMAIN a = {"step", "route", "grants"}
               /\ may(a.route.permission, a.route.scope, a.grants)

QueriesInv ==
  /\ table \in Seq(Listed)
  /\ walk = [k \in DOMAIN walk |-> walk[k]]
  /\ DOMAIN walk = {"offset", "limit", "shown", "lasting", "disturbed"}
  /\ walk.offset \in Nat \cup {NoOffset} /\ walk.disturbed \in BOOLEAN
  /\ walk.offset # NoOffset => walk.limit \in PageLimits
  /\ ~walk.disturbed =>
       IF walk.offset = NoOffset THEN walk.lasting \subseteq walk.shown
       ELSE \A w \in walk.lasting \ walk.shown : StillToCome(w)
  /\ AskOK(ask) /\ NothingOutOfScope

LEMMA PlaceIsNat ==
  ASSUME NEW rows \in Seq(Listed), NEW list, list \subseteq DOMAIN rows, NEW i \in DOMAIN rows
  PROVE  /\ IsFiniteSet(list) /\ IsFiniteSet({j \in list : j < i})
         /\ Place(list, i) \in Nat /\ Cardinality(list) \in Nat
         /\ i \in list => Place(list, i) < Cardinality(list)
<1> DEFINE before == {j \in list : j < i}
<1>1. IsFiniteSet(list)
  BY FS_Interval, FS_Subset
<1>2. IsFiniteSet(before) /\ Cardinality(before) <= Cardinality(list)
  BY <1>1, FS_Subset
<1>3. Cardinality(before) \in Nat /\ Cardinality(list) \in Nat
  BY <1>1, <1>2, FS_CardinalityType
<1>4. i \in list => Cardinality(before) < Cardinality(list)
  <2> SUFFICES ASSUME i \in list PROVE Cardinality(before) # Cardinality(list)
    BY <1>2, <1>3
  <2>1. before # list /\ before \subseteq list
    BY DEF before
  <2> QED
    BY <2>1, <1>1, FS_Subset
<1> QED
  BY <1>1, <1>2, <1>3, <1>4 DEF Place

\* In the table itself the place of a row is its index, counted from 0.
LEMMA PlaceInTable ==
  ASSUME NEW rows \in Seq(Listed), NEW i \in DOMAIN rows
  PROVE  Place(DOMAIN rows, i) = i - 1
<1>1. {j \in DOMAIN rows : j < i} = 1..(i - 1)
  OBVIOUS
<1> QED
  <2>1. i \in Nat \ {0}
    OBVIOUS
  <2>2. Cardinality(1..(i - 1)) = i - 1
    <3>1. 1 \in Int /\ i - 1 \in Int
      BY <2>1
    <3>2. Cardinality(1..(i - 1)) = IF 1 > i - 1 THEN 0 ELSE (i - 1) - 1 + 1
      BY <3>1, FS_Interval, Zenon
    <3> QED
      BY <2>1, <3>2
  <2> QED
    BY <1>1, <2>2 DEF Place

LEMMA QueriesInvInit == QueriesInit => QueriesInv
<1> SUFFICES ASSUME QueriesInit PROVE QueriesInv
  OBVIOUS
<1>1. walk = NoWalk /\ table = <<>> /\ ask = NoAsk /\ shownObject = NoAsk
  BY DEF QueriesInit
<1>2. table \in Seq(Listed)
  BY <1>1
<1> QED
  BY <1>1, <1>2 DEF QueriesInv, NoWalk, AskOK, NothingOutOfScope

\* A row in front of the others takes none of them back.
LEMMA PlaceAfterInsert ==
  ASSUME QueriesInv, NEW x \in Listed, NEW i \in Visible(table, grants)
  PROVE  LET new == <<x>> \o table IN
         /\ i + 1 \in Visible(new, grants) /\ new[i + 1] = table[i]
         /\ Place(Visible(new, grants), i + 1) >= Place(Visible(table, grants), i)
<1> DEFINE new == <<x>> \o table
           old == {j \in Visible(table, grants) : j < i}
           now == {j \in Visible(new, grants) : j < i + 1}
           f == [j \in old |-> j + 1]
<1>1. table \in Seq(Listed) /\ new \in Seq(Listed) /\ Len(new) = Len(table) + 1
  BY DEF QueriesInv
<1>2. \A j \in DOMAIN table : j + 1 \in DOMAIN new /\ new[j + 1] = table[j]
  BY <1>1
<1>3. \A j \in Visible(table, grants) : j \in Nat /\ j + 1 \in Visible(new, grants)
  BY <1>1, <1>2 DEF Visible
<1>4. f \in Injection(old, now)
  <2>1. f \in [old -> now]
    BY <1>3
  <2>2. \A a, b \in old : f[a] = f[b] => a = b
    BY <1>3
  <2> QED
    BY <2>1, <2>2 DEF Injection, IsInjective
<1>5. /\ IsFiniteSet(now) /\ Place(Visible(table, grants), i) \in Nat
      /\ Place(Visible(new, grants), i + 1) \in Nat
  <2>1. i \in DOMAIN table /\ i + 1 \in DOMAIN new /\ Visible(table, grants) \subseteq DOMAIN table
        /\ Visible(new, grants) \subseteq DOMAIN new
    BY <1>2 DEF Visible
  <2> QED
    BY <2>1, <1>1, PlaceIsNat
<1>6. Cardinality(old) <= Cardinality(now)
  BY <1>4, <1>5, FS_Injection
<1> HIDE DEF f
<1> QED
  BY <1>2, <1>3, <1>5, <1>6 DEF Place, Visible

\* What a caller who may view everything sees is the table.
LEMMA AllVisible ==
  ASSUME may("View", "*", grants) PROVE Visible(table, grants) = DOMAIN table
  BY DEF may, Visible

\* A page holds the rows at its places, and the caller stops only when there is no
\* row at a later place.
LEMMA PageFacts ==
  ASSUME QueriesInv, walk.offset # NoOffset, NEW i \in Visible(table, grants),
         Place(Visible(table, grants), i) >= walk.offset
  PROVE  LET got == list_visible(walk.offset, walk.limit)
             beyond == walk.offset + walk.limit
         IN IF i \in got.page THEN TRUE
            ELSE Place(Visible(table, grants), i) >= beyond /\ beyond < got.total
<1> DEFINE visible == Visible(table, grants)
           place == Place(visible, i)
           beyond == walk.offset + walk.limit
<1>1. walk.offset \in Nat /\ walk.limit \in Nat \ {0}
  BY QueriesAssumption DEF QueriesInv
<1>2. place \in Nat /\ Cardinality(visible) \in Nat /\ place < Cardinality(visible)
  <2>1. visible \subseteq DOMAIN table /\ i \in DOMAIN table /\ table \in Seq(Listed)
    BY DEF Visible, QueriesInv
  <2> QED
    BY <2>1, PlaceIsNat
<1>3. CASE may("View", "*", grants)
  <2>1. visible = DOMAIN table
    BY <1>3, AllVisible
  <2>2. table \in Seq(Listed) /\ i \in 1..Len(table) /\ DOMAIN table = 1..Len(table) /\ Len(table) \in Nat
    BY <2>1 DEF QueriesInv
  <2>3. \A j \in DOMAIN table : Place(DOMAIN table, j) = j - 1
    BY <2>2, PlaceInTable
  <2> DEFINE page == {j \in DOMAIN table : walk.offset <= j - 1 /\ j - 1 < beyond}
  <2>4. paginate(DOMAIN table, walk.offset, walk.limit) = page
    BY <2>3 DEF paginate
  <2>5. list_visible(walk.offset, walk.limit) = [page |-> page, total |-> IF page = {} THEN 0 ELSE Len(table)]
    BY <1>3, <2>4 DEF list_visible, StoreList
  <2>6. walk.offset <= i - 1
    BY <2>1, <2>2, <2>3
  <2>7. walk.offset + 1 \in page
    BY <2>6, <2>2, <1>1
  <2>8. i \notin page => place >= beyond /\ beyond < Len(table)
    BY <2>6, <2>2, <1>1, <2>1, <2>3
  <2> HIDE DEF page
  <2> QED
    BY <2>5, <2>7, <2>8
<1>4. CASE ~may("View", "*", grants)
  <2>1. list_visible(walk.offset, walk.limit)
          = [page |-> paginate(visible, walk.offset, walk.limit), total |-> Cardinality(visible)]
    BY <1>4 DEF list_visible
  <2>2. i \notin paginate(visible, walk.offset, walk.limit) => place >= beyond
    BY <1>1, <1>2 DEF paginate
  <2> QED
    BY <2>1, <2>2, <1>1, <1>2
<1> QED
  BY <1>3, <1>4

LEMMA StillThere ==
  ASSUME table' = table, grants' = grants, walk' = walk
  PROVE  \A w : StillToCome(w)' <=> StillToCome(w)
<1>1. Visible(table, grants)' = Visible(table, grants)
  BY DEF Visible, may
<1> QED
  BY <1>1 DEF StillToCome, Place

LEMMA StartWalkStep ==
  ASSUME QueriesInv, NEW limit \in PageLimits, StartWalk(limit) PROVE QueriesInv'
<1>1. walk' = [offset |-> 0, limit |-> limit, shown |-> {}, lasting |-> RowsAt(Visible(table, grants)),
               disturbed |-> FALSE]
  BY DEF StartWalk, NoWalk
<1>2. \A w \in walk'.lasting : StillToCome(w)'
  <2> SUFFICES ASSUME NEW i \in Visible(table, grants)
               PROVE  Place(Visible(table, grants), i) >= 0
    <3>1. walk'.offset = 0 /\ walk'.lasting = RowsAt(Visible(table, grants)) /\ table' = table
          /\ Visible(table, grants)' = Visible(table, grants)
      BY <1>1 DEF StartWalk, Visible, may
    <3> QED
      BY <3>1 DEF StillToCome, RowsAt, Place
  <2>1. i \in DOMAIN table /\ Visible(table, grants) \subseteq DOMAIN table /\ table \in Seq(Listed)
    BY DEF Visible, QueriesInv
  <2>2. Place(Visible(table, grants), i) \in Nat
    BY <2>1, PlaceIsNat
  <2> QED
    BY <2>2
<1>3. table' = table /\ ask' = ask /\ shownObject' = NoAsk
  BY DEF StartWalk
<1>4. 0 # NoOffset
  BY QueriesAssumption
<1>5. /\ walk'.offset = 0 /\ walk'.limit = limit /\ walk'.disturbed = FALSE
      /\ walk' = [k \in DOMAIN walk' |-> walk'[k]]
      /\ DOMAIN walk' = {"offset", "limit", "shown", "lasting", "disturbed"}
  BY <1>1
<1>6. ~walk'.disturbed => IF walk'.offset = NoOffset THEN walk'.lasting \subseteq walk'.shown
                          ELSE \A w \in walk'.lasting \ walk'.shown : StillToCome(w)'
  BY <1>2, <1>4, <1>5
<1>7. AskOK(ask') /\ NothingOutOfScope' /\ table' \in Seq(Listed)
  BY <1>3 DEF QueriesInv, NothingOutOfScope, NoAsk
<1>8. walk'.offset \in Nat \cup {NoOffset} /\ (walk'.offset # NoOffset => walk'.limit \in PageLimits)
  <2>1. walk'.offset = 0 /\ walk'.limit = limit
    BY <1>5
  <2> QED
    BY <2>1
<1>9. walk'.disturbed \in BOOLEAN
  BY <1>5, Zenon
<1> QED
  BY <1>5, <1>6, <1>7, <1>8, <1>9 DEF QueriesInv, AskOK

LEMMA NextPageStep ==
  ASSUME QueriesInv, NextPage PROVE QueriesInv'
<1> DEFINE got == list_visible(walk.offset, walk.limit)
           beyond == walk.offset + walk.limit
           more == beyond < got.total
           all == walk.shown \cup RowsAt(got.page)
<1>1. walk' = [walk EXCEPT !.offset = IF more THEN beyond ELSE NoOffset, !.shown = all]
  <2>1. CASE more
    BY <2>1 DEF NextPage
  <2>2. CASE ~more
    BY <2>2 DEF NextPage
  <2> QED
    BY <2>1, <2>2
<1>2. walk.offset \in Nat /\ walk.limit \in Nat \ {0} /\ beyond \in Nat /\ walk.offset # NoOffset
  BY QueriesAssumption DEF QueriesInv, NextPage
<1>3. /\ walk'.offset = IF more THEN beyond ELSE NoOffset
      /\ walk'.shown = all /\ walk'.limit = walk.limit /\ walk'.lasting = walk.lasting
      /\ walk'.disturbed = walk.disturbed
      /\ walk' = [k \in DOMAIN walk' |-> walk'[k]]
      /\ DOMAIN walk' = {"offset", "limit", "shown", "lasting", "disturbed"}
  BY <1>1 DEF QueriesInv
<1>4. ASSUME ~walk.disturbed, NEW w \in walk.lasting, w \notin all
      PROVE  more /\ StillToCome(w)'
  <2>1. StillToCome(w)
    BY <1>4, <1>2 DEF QueriesInv
  <2>2. PICK i \in Visible(table, grants) :
          table[i] = w /\ Place(Visible(table, grants), i) >= walk.offset
    BY <2>1 DEF StillToCome
  <2>3. i \notin got.page
    BY <2>2, <1>4 DEF RowsAt
  <2>4. Place(Visible(table, grants), i) >= beyond /\ more
    BY <2>2, <2>3, <1>2, PageFacts
  <2> HIDE DEF more
  <2>5. table' = table /\ grants' = grants /\ walk'.offset = beyond
    BY <2>4, <1>3 DEF NextPage
  <2>6. Visible(table, grants)' = Visible(table, grants)
        /\ \A j : Place(Visible(table, grants), j)' = Place(Visible(table, grants), j)
    BY <2>5 DEF Visible, may, Place
  <2> HIDE DEF beyond
  <2> QED
    BY <2>2, <2>4, <2>5, <2>6 DEF StillToCome
<1> HIDE DEF more, all, got
<1>5. table' = table /\ ask' = ask /\ shownObject' = shownObject
  BY DEF NextPage
<1>6. walk'.offset \in Nat \cup {NoOffset} /\ (walk'.offset # NoOffset => walk'.limit \in PageLimits)
      /\ walk'.disturbed \in BOOLEAN
  BY <1>2, <1>3 DEF QueriesInv
<1>7. ~walk'.disturbed => IF walk'.offset = NoOffset THEN walk'.lasting \subseteq walk'.shown
                          ELSE \A w \in walk'.lasting \ walk'.shown : StillToCome(w)'
  BY <1>3, <1>4, <1>2, QueriesAssumption
<1> QED
  BY <1>3, <1>5, <1>6, <1>7 DEF QueriesInv, AskOK, NothingOutOfScope

\* Changes by others keep a walk whose rows have not moved up.
LEMMA ChangedStep ==
  ASSUME QueriesInv, NEW newRows \in Seq(Listed), NEW newGrants, Changed(newRows, newGrants),
         \/ newGrants # grants
         \/ Len(newRows) < Len(table)
         \/ newGrants = grants /\ \E x \in Listed : newRows = <<x>> \o table
  PROVE  QueriesInv'
<1>1. PICK kept : /\ kept \subseteq walk.lasting
                  /\ walk' = [walk EXCEPT !.lasting = kept,
                               !.disturbed = @ \/ newGrants # grants \/ Len(newRows) < Len(table)]
  BY DEF Changed
<1>2. /\ walk'.offset = walk.offset /\ walk'.limit = walk.limit /\ walk'.shown = walk.shown
      /\ walk'.lasting = kept
      /\ walk'.disturbed = (walk.disturbed \/ newGrants # grants \/ Len(newRows) < Len(table))
      /\ walk' = [k \in DOMAIN walk' |-> walk'[k]]
      /\ DOMAIN walk' = {"offset", "limit", "shown", "lasting", "disturbed"}
  BY <1>1, Zenon DEF QueriesInv
<1>3. table' = newRows /\ grants' = newGrants /\ ask' = ask /\ shownObject' = shownObject
  BY DEF Changed
<1>4. walk'.disturbed \in BOOLEAN /\ walk'.offset \in Nat \cup {NoOffset}
      /\ (walk'.offset # NoOffset => walk'.limit \in PageLimits)
  BY <1>2 DEF QueriesInv
<1>5. ASSUME ~walk'.disturbed, walk.offset # NoOffset, NEW w \in kept, w \notin walk.shown
      PROVE  StillToCome(w)'
  <2>1. PICK x \in Listed : newGrants = grants /\ newRows = <<x>> \o table
    BY <1>2, <1>5
  <2>2. StillToCome(w)
    BY <1>1, <1>2, <1>5 DEF QueriesInv
  <2>3. PICK i \in Visible(table, grants) :
          table[i] = w /\ Place(Visible(table, grants), i) >= walk.offset
    BY <2>2 DEF StillToCome
  <2>4. /\ i + 1 \in Visible(newRows, grants) /\ newRows[i + 1] = w
        /\ Place(Visible(newRows, grants), i + 1) >= Place(Visible(table, grants), i)
    BY <2>1, <2>3, PlaceAfterInsert
  <2>5. Place(Visible(table, grants), i) \in Nat /\ walk.offset \in Nat
        /\ Place(Visible(newRows, grants), i + 1) \in Nat
    <3>1. table \in Seq(Listed) /\ i \in DOMAIN table /\ Visible(table, grants) \subseteq DOMAIN table
          /\ Visible(newRows, grants) \subseteq DOMAIN newRows /\ i + 1 \in DOMAIN newRows
      BY <2>4 DEF QueriesInv, Visible
    <3> QED
      BY <3>1, <1>5, PlaceIsNat DEF QueriesInv
  <2>6. Place(Visible(newRows, grants), i + 1) >= walk.offset
    BY <2>3, <2>4, <2>5
  <2>7. Visible(table, grants)' = Visible(newRows, grants)
    BY <1>3, <2>1 DEF Visible, may
  <2>8. \E j \in Visible(table, grants)' :
           table'[j] = w /\ Place(Visible(newRows, grants), j) >= walk'.offset
    BY <2>4, <2>6, <2>7, <1>2, <1>3
  <2> QED
    BY <2>8, <2>7 DEF StillToCome, Place
<1>6. ~walk'.disturbed => IF walk'.offset = NoOffset THEN walk'.lasting \subseteq walk'.shown
                          ELSE \A w \in walk'.lasting \ walk'.shown : StillToCome(w)'
  BY <1>1, <1>2, <1>5 DEF QueriesInv
<1> QED
  BY <1>2, <1>3, <1>4, <1>6 DEF QueriesInv, AskOK, NothingOutOfScope

LEMMA CheckRouteStep ==
  ASSUME QueriesInv, NEW route, CheckRoute(route) PROVE QueriesInv'
<1>1. AskOK(ask')
  BY DEF CheckRoute, AskOK, may
<1>2. walk' = NoWalk /\ shownObject' = NoAsk /\ table' = table
  BY DEF CheckRoute
<1> QED
  BY <1>1, <1>2 DEF QueriesInv, NoWalk, NothingOutOfScope, AskOK, may

LEMMA FetchObjectStep ==
  ASSUME QueriesInv, FetchObject PROVE QueriesInv'
<1>1. ask # NoAsk
  BY DEF FetchObject, NoAsk
<1>2. NothingOutOfScope'
  <2>1. CASE Found(ask.route)
    <3>1. shownObject' = [ask EXCEPT !.step = "served"]
      BY <2>1 DEF FetchObject
    <3>2. shownObject'.route = ask.route /\ shownObject'.grants = ask.grants
      BY <3>1, <1>1 DEF QueriesInv, AskOK
    <3> QED
      BY <3>2, <2>1, <1>1 DEF QueriesInv, AskOK, NothingOutOfScope, Found, may
  <2>2. CASE ~Found(ask.route)
    BY <2>2 DEF FetchObject, QueriesInv, NothingOutOfScope, may
  <2> QED
    BY <2>1, <2>2
<1>3. table' = table /\ walk' = walk /\ grants' = grants /\ ask' = NoAsk
  BY DEF FetchObject
<1>4. \A w : StillToCome(w)' <=> StillToCome(w)
  BY <1>3, StillThere
<1> QED
  BY <1>2, <1>3, <1>4 DEF QueriesInv, AskOK

LEMMA QueriesInvStep ==
  ASSUME QueriesInv, [QueriesNext]_queryVars PROVE QueriesInv'
<1>1. ASSUME NEW w \in Listed, create_row(w) PROVE QueriesInv'
  <2>1. <<w>> \o table \in Seq(Listed)
    BY DEF QueriesInv
  <2> QED
    BY <1>1, <2>1, ChangedStep DEF create_row
<1>2. ASSUME NEW w \in Listed, delete_row(w) PROVE QueriesInv'
  <2>1. PICK i \in DOMAIN table : Changed(RemoveAt(table, i), grants)
    BY <1>2 DEF delete_row
  <2>2. RemoveAt(table, i) \in Seq(Listed) /\ Len(RemoveAt(table, i)) < Len(table)
    <3>1. table \in Seq(Listed) /\ i \in 1..Len(table) /\ Len(table) \in Nat
      BY DEF QueriesInv
    <3>2. /\ SubSeq(table, 1, i - 1) \in Seq(Listed) /\ Len(SubSeq(table, 1, i - 1)) = i - 1
          /\ SubSeq(table, i + 1, Len(table)) \in Seq(Listed)
          /\ Len(SubSeq(table, i + 1, Len(table))) = Len(table) - i
      BY <3>1
    <3> QED
      BY <3>1, <3>2 DEF RemoveAt
  <2> QED
    BY <2>1, <2>2, ChangedStep
<1>3. ASSUME NEW given, SetGrants(given) PROVE QueriesInv'
  BY <1>3, ChangedStep DEF SetGrants, QueriesInv
<1>4. CASE UNCHANGED queryVars
  <2>1. table' = table /\ grants' = grants /\ walk' = walk /\ ask' = ask /\ shownObject' = shownObject
    BY <1>4 DEF queryVars
  <2>2. \A w : StillToCome(w)' <=> StillToCome(w)
    BY <2>1, StillThere
  <2> QED
    BY <2>1, <2>2 DEF QueriesInv, AskOK, NothingOutOfScope
<1> QED
  BY <1>1, <1>2, <1>3, <1>4, StartWalkStep, NextPageStep, CheckRouteStep, FetchObjectStep DEF QueriesNext

\* For any table, policy, page size and number of changes by others: a caller who pages
\* through list_workflows or list_instances to the end has been shown every row that was
\* there and visible all the while, unless rows moved up, and a read of one object
\* returns only what the permission that was checked covers.
THEOREM ShownIffVisibleAlways == QueriesSpec => []ShownIffVisible
<1>1. QueriesInv => ShownIffVisible
  BY DEF QueriesInv, ShownIffVisible, WalkShowsAll, NothingOutOfScope
<1> QED
  BY <1>1, QueriesInvInit, QueriesInvStep, PTL DEF QueriesSpec
==================================================================================
