------------------------------- MODULE AuditTrail ------------------------------
(***************************************************************************)
(* The events of one instance, each stored with a hash over itself and the *)
(* hash before it.  Several operations append at the same time, each in a  *)
(* transaction that locks the instance's row; an append that fails is only *)
(* logged.  Later, rows may be damaged behind the system's back.           *)
(*                                                                         *)
(* A hash is the term of what it was computed from.                        *)
(***************************************************************************)
EXTENDS Naturals, Sequences, SequencesExt, Merkle

CONSTANTS
  Appenders,   \* operations that record an event of this instance
  NoAppend,    \* nobody has the row lock
  MaxEvents    \* bound: events that are recorded

GENESIS_HASH == <<>>
compute_event_hash(data, prev) == <<data, prev>>

\* The JSON of an event has numbers in digits or with an exponent; the column of
\* type JSONB gives every number back in digits.
Forms == {"digits", "exponent"}
ReadBack(data) == [data EXCEPT !.form = "digits"]

VARIABLES
  rows,        \* table events: sequence of [data, event_hash, prev_hash]
  append,      \* each appender: [step, data, prev]
  rowLock,     \* the transaction that has the instance's row locked
  events,      \* number of events so far
  rewritten,   \* history: a row came back in another form than was hashed
  damage       \* history: "none", "lost_end" or "inside"

auditVars == <<rows, append, rowLock, events, rewritten, damage>>

Row(data, prev) ==
  [data |-> ReadBack(data), event_hash |-> compute_event_hash(data, prev), prev_hash |-> prev]

\* create_instance_tx has stored the instance and its first event.
AuditInit ==
  /\ \E f \in Forms : /\ rows = <<Row([id |-> 0, form |-> f], GENESIS_HASH)>>
                      /\ rewritten = (f = "exponent")
  /\ append = [a \in Appenders |-> [step |-> "idle"]]
  /\ rowLock = NoAppend /\ events = 1 /\ damage = "none"

(***************************************************************************)
(* append_event                                                            *)
(***************************************************************************)
RowLockIgnored == TRUE
\* SELECT ... FOR UPDATE waits for the transaction that has the row.
RowLockFree == rowLock = NoAppend

AppendBegin(a, form) ==
  /\ append[a].step = "idle" /\ events < MaxEvents
  /\ RowLockFree /\ rowLock' = a
  /\ append' = [append EXCEPT ![a] = [step |-> "locked", data |-> [id |-> events, form |-> form]]]
  /\ events' = events + 1
  /\ UNCHANGED <<rows, rewritten, damage>>

AppendRead(a) ==
  /\ append[a].step = "locked"
  /\ append' = [append EXCEPT ![a] = [step |-> "read", data |-> append[a].data,
       prev |-> IF rows = <<>> THEN GENESIS_HASH ELSE Last(rows).event_hash]]
  /\ UNCHANGED <<rows, rowLock, events, rewritten, damage>>

Done(a) == /\ append' = [append EXCEPT ![a] = [step |-> "idle"]]
           /\ rowLock' = IF rowLock = a THEN NoAppend ELSE rowLock

AppendCommit(a) ==
  /\ append[a].step = "read" /\ Done(a)
  /\ rows' = Append(rows, Row(append[a].data, append[a].prev))
  /\ rewritten' = (rewritten \/ append[a].data.form = "exponent")
  /\ UNCHANGED <<events, damage>>

\* The transaction rolls back and the caller goes on without the event.
AppendFails(a) ==
  /\ append[a].step # "idle" /\ Done(a)
  /\ UNCHANGED <<rows, events, rewritten, damage>>

(***************************************************************************)
(* Damage, once: an event changed, two events exchanged, or events lost     *)
(***************************************************************************)
Damaged(how) == damage = "none" /\ damage' = how /\ UNCHANGED <<append, rowLock, events, rewritten>>

Change(i) == /\ Damaged("inside")
             /\ rows' = [rows EXCEPT ![i].data.id = MaxEvents]
Exchange(i, j) == /\ i < j /\ Damaged("inside")
                  /\ rows' = [rows EXCEPT ![i] = rows[j], ![j] = rows[i]]
Lose(i, j) ==
  /\ i <= j /\ Damaged(IF j = Len(rows) THEN "lost_end" ELSE "inside")
  /\ rows' = SubSeq(rows, 1, i - 1) \o SubSeq(rows, j + 1, Len(rows))

AuditNext ==
  \/ \E a \in Appenders : \/ \E form \in Forms : AppendBegin(a, form)
                          \/ AppendRead(a) \/ AppendCommit(a) \/ AppendFails(a)
  \/ \E i, j \in DOMAIN rows : Exchange(i, j) \/ Lose(i, j)
  \/ \E i \in DOMAIN rows : Change(i)

AuditSpec == AuditInit /\ [][AuditNext]_auditVars

(***************************************************************************)
(* The audit endpoints                                                     *)
(***************************************************************************)
\* load_audit_records numbers the records in the order of the rows.
load_audit_records == [i \in DOMAIN rows |-> rows[i] @@ ("seq" :> i - 1)]

verify_record(r) == r.event_hash = compute_event_hash(r.data, r.prev_hash)

LinkUnchecked(records, i) == TRUE
\* Each record names the hash of the record before it.
LinkOK(records, i) ==
  records[i].prev_hash = IF i = 1 THEN GENESIS_HASH ELSE records[i - 1].event_hash

verify_chain(records) ==
  \A i \in DOMAIN records : verify_record(records[i]) /\ LinkOK(records, i) /\ records[i].seq = i - 1

\* get_audit_proof
Hashes == [i \in DOMAIN rows |-> rows[i].event_hash]
ProofHolds(i, leaf) ==
  LET tree == Layers(Hashes) IN verify_proof(leaf, proof(tree, i - 1), root(tree))

(***************************************************************************)
(* Properties                                                              *)
(***************************************************************************)
\* However the appends interleave and whichever of them fail, the trail of an
\* instance verifies until it is damaged.  (Unless an event holds a number that
\* the database writes in another form.)
UntouchedVerifies ==
  damage = "none" /\ ~rewritten => verify_chain(load_audit_records)

\* An event that was changed, moved or taken out from between others is noticed,
\* also after more events were appended.
DamageNoticed == damage = "inside" => ~verify_chain(load_audit_records)

\* The proof for an event holds for that event, and for no other event.
ProofsHold == \A i, j \in DOMAIN rows : ProofHolds(i, rows[j].event_hash) <=> i = j

\* The audit endpoints tell the truth about the trail: intact when it is, broken
\* when it was broken inside, and a proof for each event.
TrailSpeaksTruth == UntouchedVerifies /\ DamageNoticed /\ ProofsHold
================================================================================
