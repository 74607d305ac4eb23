------------------------------- MODULE Authoring -------------------------------
(***************************************************************************)
(* How the definition of one workflow changes: the HTTP handlers that      *)
(* create, update and delete a workflow and that take a change request     *)
(* from draft to merge (orbflow-httpapi/src/handlers.rs), the engine's     *)
(* update_workflow, and the PostgreSQL store they write to.                *)
(*                                                                         *)
(* No handler holds a lock: it reads a record, decides on the copy it has  *)
(* read, and writes.  Each database transaction is one action; between the *)
(* actions of one request those of another may happen.  A client may       *)
(* create the workflow again under the id of a deleted one, and sends      *)
(* whatever version it likes inside a proposed definition.                 *)
(***************************************************************************)
EXTENDS Integers, FiniteSets

CONSTANTS
  Defs,         \* definitions a client may send
  CRs,          \* ids of change requests
  Versions,     \* versions a client may send: 0 where it sends none
  Comments,     \* ids of review comments
  Editors,      \* users with Permission::Edit on the workflow
  Approvers,    \* users with Permission::Approve
  Slots,        \* requests that may be in progress at the same time
  MaxRequests,  \* bound: requests served after the first creation of the workflow
  None          \* no record

Reviewers == Editors \cup Approvers

ASSUME AuthoringAssumption ==
  /\ MaxRequests \in Nat /\ Versions \subseteq Int
  /\ None \notin Defs /\ None \notin CRs /\ None \notin Reviewers

VARIABLES
  row,        \* row of workflows: [version, def, json, life], version 0: there is none;
              \* json is the "version" inside the definition column, life counts the
              \* creations under this id (history)
  versions,   \* workflow_versions: set of [version, def], unique by version
  cr,         \* change_requests by id, None when there is no row
  issued,     \* ids of change requests so far: each is a new UUID
  comments,   \* review_comments: set of [id, cr, resolved]
  req,        \* the request in progress in each slot
  served,     \* requests begun so far
  approvals,  \* history: [cr, def, author, by] of every approval stored
  merges,     \* history: [cr, def] of every merge
  balance,    \* history: approvals stored minus merges, per change request
  overwrites, \* history: updates that replaced a definition they had not read:
              \* set of [ahead, reborn]
  posted      \* history: ids of comments of change requests that still exist

vars == <<row, versions, cr, issued, comments, req, served, approvals, merges, balance,
          overwrites, posted>>

Status == {"draft", "open", "approved", "rejected", "merged"}
ChangeRequest == [status : Status, def : Defs, json : Int, author : Reviewers, base : Int]
Live == row.version > 0
Idle == [op |-> "none"]
Ops == {"update", "submit", "approve", "reject", "rebase", "merge"}

\* What get_workflow returns: the columns of the row fill in only the fields
\* the stored JSON lacks, and the JSON always has a version.
get_workflow == [version |-> row.json, def |-> row.def]

Init ==
  /\ row \in [version : {0}, def : Defs, json : {0}, life : {0}]
  /\ versions = {} /\ comments = {} /\ posted = {} /\ issued = {}
  /\ cr = [c \in CRs |-> None]
  /\ req = [s \in Slots |-> Idle]
  /\ served = 0
  /\ approvals = {} /\ merges = {}
  /\ balance = [c \in CRs |-> 0]
  /\ overwrites = {}

Serve == served < MaxRequests /\ served' = served + 1
Reviews == <<approvals, merges, balance>>
History == <<Reviews, overwrites, posted>>

(***************************************************************************)
(* Workflows                                                               *)
(***************************************************************************)
\* create_workflow: the engine sets version 1 and the whole record is stored.  The
\* client may have chosen the id.
CreateWorkflow(d) ==
  /\ ~Live
  /\ row' = [version |-> 1, def |-> d, json |-> 1, life |-> row.life + 1]
  /\ IF row.life = 0 THEN UNCHANGED served ELSE Serve
  /\ UNCHANGED <<versions, cr, issued, comments, req, History>>

\* ON CONFLICT (workflow_id, version) DO NOTHING
Snapshot(v, d) ==
  IF \E x \in versions : x.version = v THEN versions
  ELSE versions \cup {[version |-> v, def |-> d]}

\* update_workflow of the engine, first step: the existing record is read.
UpdateRead(s, d) ==
  /\ req[s] = Idle /\ Live
  /\ Serve
  /\ req' = [req EXCEPT ![s] = [op |-> "save", step |-> "snapshot", def |-> d,
                                seen |-> get_workflow, at |-> row.version,
                                life |-> row.life]]
  /\ UNCHANGED <<row, versions, cr, issued, comments, History>>

\* Second step: what was read is stored as a snapshot, in its own transaction.
UpdateSnapshot(s) ==
  /\ req[s].op = "save" /\ req[s].step = "snapshot"
  /\ IF Live
     THEN /\ versions' = Snapshot(req[s].seen.version, req[s].seen.def)
          /\ req' = [req EXCEPT ![s].step = "write"]
     ELSE versions' = versions /\ req' = [req EXCEPT ![s] = Idle]
  /\ UNCHANGED <<row, cr, issued, comments, served, History>>

UpdateUnguarded(q) == Live
\* UPDATE ... WHERE version = the version read
UpdateMatches(q) == Live /\ row.version = q.seen.version

\* The row is not the one that was read: the definition read may have claimed a version
\* that its row had not reached, or the workflow was created anew since.
Overwrite(q) ==
  IF row.life = q.life /\ row.version = q.at THEN {}
  ELSE {[ahead |-> q.seen.version > q.at, reborn |-> row.life # q.life]}

\* Third step: snapshot of the stored row and the guarded update, one transaction.
UpdateWrite(s) ==
  LET q == req[s] IN
  /\ q.op = "save" /\ q.step = "write"
  /\ req' = [req EXCEPT ![s] = Idle]
  /\ IF UpdateMatches(q)
     THEN /\ versions' = Snapshot(row.version, row.def)
          /\ row' = [row EXCEPT !.version = q.seen.version + 1, !.def = q.def,
                                !.json = q.seen.version + 1]
          /\ overwrites' = overwrites \cup Overwrite(q)
     ELSE UNCHANGED <<versions, row, overwrites>>
  /\ UNCHANGED <<cr, issued, comments, served, Reviews, posted>>

\* delete_workflow; foreign keys delete the versions, requests and comments.
DeleteWorkflow ==
  /\ Live
  /\ row' = [row EXCEPT !.version = 0]
  /\ versions' = {} /\ comments' = {} /\ posted' = {}
  /\ cr' = [c \in CRs |-> None]
  /\ Serve
  /\ UNCHANGED <<req, issued, Reviews, overwrites>>

(***************************************************************************)
(* Change requests                                                         *)
(***************************************************************************)
\* normalize_change_request_definition parses what the client sends as a workflow and
\* keeps the version in it, 0 where there is none.
Proposals == [def : Defs, json : Versions]

\* INSERT INTO change_requests
create_change_request(c, x) == [cr EXCEPT ![c] = x]

\* create_change_request; base_version is the client's, and must be at least 1.
CreateChangeRequest(c, u, p, base) ==
  /\ u \in Editors /\ c \notin issued
  /\ Live /\ base >= 1
  /\ cr' = create_change_request(c, [status |-> "draft", def |-> p.def, json |-> p.json,
                                     author |-> u, base |-> base])
  /\ issued' = issued \cup {c}
  /\ Serve
  /\ UNCHANGED <<row, versions, comments, req, History>>

NotSelf(x, u) == x.author # u
UpdatableUnmerged(x, u) == u \in Editors /\ x.status \in {"draft", "open", "approved"}
\* The status conditions of the handlers, checked on the copy they have read.
Updatable(x, u) == u \in Editors /\ x.status \in {"draft", "open"}
Submittable(x, u) == u \in Editors /\ x.status = "draft"
Approvable(x, u) == u \in Approvers /\ x.status = "open" /\ NotSelf(x, u)
Rejectable(x, u) == u \in Approvers /\ x.status = "open" /\ NotSelf(x, u)
Rebasable(x, u) == u \in Editors /\ x.status \notin {"merged", "rejected"}
Mergeable(x, u) == u \in Editors /\ x.status = "approved"

Allowed(op, x, u) ==
  CASE op = "update"  -> Updatable(x, u)
    [] op = "submit"  -> Submittable(x, u)
    [] op = "approve" -> Approvable(x, u)
    [] op = "reject"  -> Rejectable(x, u)
    [] op = "rebase"  -> Rebasable(x, u)
    [] op = "merge"   -> Mergeable(x, u)

\* The record a handler writes: the copy it has read, with the fields it changes.
\* rebase also sets base_version, but update_change_request does not store it.
Written(q) ==
  CASE q.op = "update"  -> [q.copy EXCEPT !.def = q.new.def, !.json = q.new.json]
    [] q.op = "submit"  -> [q.copy EXCEPT !.status = "open"]
    [] q.op = "approve" -> [q.copy EXCEPT !.status = "approved"]
    [] q.op = "reject"  -> [q.copy EXCEPT !.status = "rejected"]
    [] q.op = "rebase"  -> [q.copy EXCEPT !.status = IF @ = "approved" THEN "open" ELSE @]

\* The definition a change request already has.
Current(c) == IF cr[c] = None THEN [def |-> row.def, json |-> 0]
              ELSE [def |-> cr[c].def, json |-> cr[c].json]

\* A handler reads the change request and checks permission and status.
ReadChangeRequest(s, c, op, u, p) ==
  /\ req[s] = Idle /\ cr[c] # None
  /\ Allowed(op, cr[c], u)
  /\ op = "update" \/ p = Current(c)
  /\ Serve
  /\ req' = [req EXCEPT ![s] = [op |-> op, cr |-> c, copy |-> cr[c], new |-> p, by |-> u,
                                step |-> IF op = "rebase" THEN "compare" ELSE "write"]]
  /\ UNCHANGED <<row, versions, cr, issued, comments, History>>

\* rebase_change_request goes on when the base is not the workflow's version.
Compare(s) ==
  /\ req[s].op = "rebase" /\ req[s].step = "compare"
  /\ req' = IF Live /\ req[s].copy.base # get_workflow.version
            THEN [req EXCEPT ![s].step = "write"] ELSE [req EXCEPT ![s] = Idle]
  /\ UNCHANGED <<row, versions, cr, issued, comments, served, History>>

\* What a store that keeps the comments inside the record would do.
CommentsDropped(q) == {x \in comments : x.cr # q.cr}
\* Comments are rows of their own: writing a change request leaves them alone.
CommentsAfterStore(q) == comments

\* update_change_request of the store; no row is left after a deletion.
WriteChangeRequest(s) ==
  LET q == req[s] IN
  /\ q.op \in Ops \ {"merge"} /\ q.step = "write"
  /\ req' = [req EXCEPT ![s] = Idle]
  /\ IF cr[q.cr] = None
     THEN UNCHANGED <<cr, comments, Reviews>>
     ELSE /\ cr' = [cr EXCEPT ![q.cr] = Written(q)]
          /\ comments' = CommentsAfterStore(q)
          /\ IF q.op = "approve"
             THEN /\ approvals' = approvals \cup {[cr |-> q.cr, def |-> q.copy.def,
                                                  author |-> q.copy.author, by |-> q.by]}
                  /\ balance' = [balance EXCEPT ![q.cr] = @ + 1]
             ELSE UNCHANGED <<approvals, balance>>
          /\ UNCHANGED merges
  /\ UNCHANGED <<row, versions, issued, served, overwrites, posted>>

MergeUnchecked(q) == Live /\ cr[q.cr] # None
\* Inside the transaction the row must still be approved.
MergeStillApproved(q) == Live /\ cr[q.cr] # None /\ cr[q.cr].status = "approved"

\* merge_change_request of the store: the copy's definition goes live, version + 1.
MergeWrite(s) ==
  LET q == req[s] IN
  /\ q.op = "merge"
  /\ req' = [req EXCEPT ![s] = Idle]
  /\ IF MergeStillApproved(q)
     THEN /\ row' = [row EXCEPT !.version = @ + 1, !.def = q.copy.def, !.json = q.copy.json]
          /\ versions' = Snapshot(row.version + 1, q.copy.def)
          /\ cr' = [cr EXCEPT ![q.cr].status = "merged"]
          /\ merges' = merges \cup {[cr |-> q.cr, def |-> q.copy.def]}
          /\ balance' = [balance EXCEPT ![q.cr] = @ - 1]
     ELSE UNCHANGED <<row, versions, cr, merges, balance>>
  /\ UNCHANGED <<issued, comments, served, approvals, overwrites, posted>>

\* INSERT INTO and UPDATE review_comments
add_comment(c, k) == comments \cup {[id |-> k, cr |-> c, resolved |-> FALSE]}
resolve_comment(x) == (comments \ {x}) \cup {[x EXCEPT !.resolved = TRUE]}

\* add_cr_comment, resolve_cr_comment: any status.
AddComment(c, k) ==
  /\ cr[c] # None /\ \A x \in comments : x.id # k
  /\ comments' = add_comment(c, k)
  /\ posted' = posted \cup {k}
  /\ Serve
  /\ UNCHANGED <<row, versions, cr, issued, req, Reviews, overwrites>>

ResolveComment(x) ==
  /\ comments' = resolve_comment(x)
  /\ Serve
  /\ UNCHANGED <<row, versions, cr, issued, req, History>>

Next ==
  \/ \E d \in Defs : CreateWorkflow(d)
  \/ DeleteWorkflow
  \/ \E s \in Slots :
       \/ \E d \in Defs : UpdateRead(s, d)
       \/ UpdateSnapshot(s)
       \/ UpdateWrite(s)
       \/ \E c \in CRs, op \in Ops, u \in Reviewers :
            \E p \in Proposals \cup {Current(c)} : ReadChangeRequest(s, c, op, u, p)
       \/ Compare(s)
       \/ WriteChangeRequest(s)
       \/ MergeWrite(s)
  \/ \E c \in CRs, u \in Reviewers, p \in Proposals, base \in Versions :
       CreateChangeRequest(c, u, p, base)
  \/ \E c \in CRs, k \in Comments : AddComment(c, k)
  \/ \E x \in comments : ResolveComment(x)

Spec == Init /\ [][Next]_vars

(***************************************************************************)
(* Properties                                                              *)
(***************************************************************************)
\* What a merge made live had been approved, in exactly that form, by somebody
\* other than the author of the change request, whatever edits, rebases, approvals
\* and merges were in progress at the same time; and two merge requests cannot both
\* use one approval: a change request is merged at most as often as approved.
MergedWasApproved ==
  /\ \A m \in merges : \E a \in approvals : a.cr = m.cr /\ a.def = m.def /\ a.author # a.by
  /\ \A c \in CRs : balance[c] >= 0

\* update_workflow replaces only the definition it has read: of two updates, or an
\* update and a merge, that overlap, the second is refused.  The check compares the
\* version in the definition that was read with the one of the row, so it takes
\* another definition for the one it has read in two cases only: a merged request
\* had proposed a version ahead of its row, or the workflow was deleted and created
\* again under the same id meanwhile.
NoLostUpdate == \A o \in overwrites : o.ahead \/ o.reborn

\* A comment is there until its change request is deleted, also when an edit that
\* read the change request before the comment was posted is stored after it.
CommentsKept == posted \subseteq {x.id : x \in comments}

\* What a client was told is stored is not lost to a request that read before it.
NothingLost == NoLostUpdate /\ CommentsKept
================================================================================
