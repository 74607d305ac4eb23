------------------------------ MODULE RequestProofs ------------------------------
(***************************************************************************)
(* What overlapping requests may not do, for any number of them: lose or   *)
(* leak a secret, start a workflow twice within a window, overdraw a       *)
(* budget, lose track of a plugin that is installed or runs.               *)
(***************************************************************************)
EXTENDS Credentials, HttpApi, Budgets, Plugins, SequenceTheorems, TLAPS

(***************************************************************************)
(* Credentials                                                             *)
(***************************************************************************)
IsRecord(c) ==
  c = [id |-> c.id, owner |-> c.owner, type |-> c.type, data |-> c.data, tier |-> c.tier, policy |-> c.policy]

\* Ids are handed out in order, so an edit of a deleted credential never meets the
\* one that was created after it.
EditOK(e) ==
  edit[e] # Nothing =>
    /\ edit[e] = [record |-> edit[e].record, typed |-> edit[e].typed] /\ IsRecord(edit[e].record)
    /\ edit[e].record.id \in Nat /\ edit[e].record.id < credentialRequests

\* An edit of the credential that no other edit overlaps
Edits1(e) == edit[e] # Nothing /\ credential # Nothing /\ edit[e].record.id = credential.id

\* What such an edit is going to write has the secret that is going to be the one
\* last given.
WillKeep(e) ==
  /\ edit[e].typed = Mask /\ given \in Secrets => SecretIn(edit[e].record.data) = given
  /\ edit[e].typed \in Secrets => SecretIn(edit[e].record.data) = edit[e].typed
  /\ edit[e].typed \in {Mask, Nothing} \cup Secrets

CredentialInv ==
  /\ credentialRequests \in Nat /\ crossed \in BOOLEAN /\ edit = [e \in Edits |-> edit[e]]
  /\ credential # Nothing => IsRecord(credential) /\ credential.id \in Nat /\ credential.id < credentialRequests
  /\ \A e \in Edits : EditOK(e)
  /\ ~crossed => /\ \A e, o \in Edits : Edits1(e) /\ Edits1(o) => e = o
                 /\ \A e \in Edits : Edits1(e) => WillKeep(e)
  /\ LastGivenSecretKept /\ SecretsTravelOnlyRaw

LEMMA SummaryHasNoSecret ==
  ASSUME NEW c, IsRecord(c)
  PROVE  /\ SecretIn(CredentialSummary(c).data) = Nothing
         /\ CredentialSummary(c).owner = c.owner /\ CredentialSummary(c).policy = c.policy
<1>1. /\ CredentialSummary(c).data = [k \in {} |-> "u"]
      /\ CredentialSummary(c).owner = c.owner /\ CredentialSummary(c).policy = c.policy
  BY DEF CredentialSummary, IsRecord
<1>2. DOMAIN [k \in {} |-> "u"] = {}
  OBVIOUS
<1> QED BY <1>1, <1>2 DEF SecretIn

\* An answer over HTTP carries no secret.
LEMMA AnswerHarmless ==
  ASSUME SecretsTravelOnlyRaw, NEW u, NEW c, IsRecord(c), Answer(u, c)
  PROVE  SecretsTravelOnlyRaw'
<1>1. sent' = sent \cup {Message("answer", u, CredentialSummary(c))}
  BY DEF Answer
<1>2. Message("answer", u, CredentialSummary(c)).secret = Nothing
  BY SummaryHasNoSecret DEF Message
<1> QED BY <1>1, <1>2 DEF SecretsTravelOnlyRaw

LEMMA InitCredentialInv == CredentialsInit => CredentialInv
<1> SUFFICES ASSUME CredentialsInit PROVE CredentialInv
  OBVIOUS
<1>1. \A e \in Edits : edit[e] = Nothing
  BY DEF CredentialsInit
<1> QED BY <1>1 DEF CredentialsInit, CredentialInv, EditOK, Edits1, LastGivenSecretKept, SecretsTravelOnlyRaw

\* Steps that only send something
LEMMA SendsOnly ==
  ASSUME CredentialInv, UNCHANGED <<credential, edit, credentialRequests, given, crossed>>,
         SecretsTravelOnlyRaw'
  PROVE  CredentialInv'
  BY DEF CredentialInv, EditOK, Edits1, WillKeep, LastGivenSecretKept

LEMMA ReadsOK ==
  ASSUME CredentialInv, NEW u \in Owners, ReadCredential(u) \/ ListCredentials(u)
  PROVE  CredentialInv'
<1>1. UNCHANGED <<credential, edit, credentialRequests, given, crossed>>
  BY DEF ReadCredential, ListCredentials
<1>2. CASE ReadCredential(u)
  <2>1. credential # Nothing /\ IsRecord(credential) /\ Answer(u, credential)
    BY <1>2 DEF ReadCredential, get_credential_for_owner, CredentialInv
  <2> QED BY <1>1, <2>1, AnswerHarmless, SendsOnly DEF CredentialInv
<1>3. CASE ListCredentials(u)
  <2>1. \A c \in list_credentials_for_owner(u) : IsRecord(c)
    BY DEF list_credentials_for_owner, CredentialInv
  <2>2. \A c \in list_credentials_for_owner(u) : Message("answer", u, CredentialSummary(c)).secret = Nothing
    BY <2>1, SummaryHasNoSecret DEF Message
  <2>3. SecretsTravelOnlyRaw'
    BY <1>3, <2>2 DEF ListCredentials, CredentialInv, SecretsTravelOnlyRaw
  <2> QED BY <1>1, <2>3, SendsOnly
<1> QED BY <1>2, <1>3

\* Only a record whose own policy lists raw access goes out with its secret.
LEMMA DispatchOK == ASSUME CredentialInv, NEW u \in Owners, Dispatch(u) PROVE CredentialInv'
<1> PICK m : m = Message("task", u, Published(credential))
  OBVIOUS
<1>1. /\ credential # Nothing /\ IsRecord(credential) /\ credential.owner = u
      /\ TierAllowed(credential) /\ sent' = sent \cup {m}
      /\ UNCHANGED <<credential, edit, credentialRequests, given, crossed>>
  BY DEF Dispatch, get_credential_for_owner, CredentialInv
<1>2. m.secret # Nothing => m.as = "task" /\ m.to = m.owner /\ m.policy # Nothing /\ "raw" \in m.policy
  <2>1. CASE credential.tier = "raw"
    BY <1>1, <2>1 DEF Published, Message, TierAllowed
  <2>2. CASE credential.tier # "raw"
    BY <1>1, <2>2, SummaryHasNoSecret DEF Published, Message
  <2> QED BY <2>1, <2>2
<1>3. SecretsTravelOnlyRaw'
  BY <1>1, <1>2 DEF CredentialInv, SecretsTravelOnlyRaw
<1> QED BY <1>1, <1>3, SendsOnly

LEMMA CreateCredentialOK ==
  ASSUME CredentialInv, NEW u, NEW t, NEW data, NEW tier, NEW policy,
         CreateCredential(u, t, data, tier, policy)
  PROVE  CredentialInv'
<1>1. /\ credential' = [id |-> credentialRequests, owner |-> u, type |-> t, data |-> data,
                        tier |-> tier, policy |-> policy]
      /\ credentialRequests' = credentialRequests + 1 /\ credentialRequests \in Nat
      /\ given' = SecretIn(data) /\ crossed' = FALSE /\ edit' = edit /\ Answer(u, credential')
  BY DEF CreateCredential, CredentialRequest, CredentialInv
<1>2. IsRecord(credential') /\ credential'.id = credentialRequests /\ credential'.data = data
  BY <1>1 DEF IsRecord
<1>3. credential'.id \in Nat /\ credential'.id < credentialRequests'
  BY <1>1, <1>2
<1>4. \A e \in Edits : EditOK(e)' /\ ~Edits1(e)'
  <2>1. ASSUME NEW e \in Edits PROVE EditOK(e)' /\ ~Edits1(e)'
    <3>1. edit[e] # Nothing => edit[e].record.id \in Nat /\ edit[e].record.id < credentialRequests
      BY DEF CredentialInv, EditOK
    <3>2. EditOK(e)'
      BY <1>1, <3>1 DEF CredentialInv, EditOK
    <3> QED BY <1>1, <1>2, <3>1, <3>2 DEF Edits1
  <2> QED BY <2>1
<1>5. SecretsTravelOnlyRaw'
  BY <1>1, <1>2, AnswerHarmless DEF CredentialInv
<1>6. LastGivenSecretKept'
  BY <1>1, <1>2 DEF LastGivenSecretKept
<1>7. edit' = [e \in Edits |-> edit'[e]]
  BY <1>1 DEF CredentialInv
<1>8. credentialRequests' \in Nat
  BY <1>1
<1>9. IsRecord(credential)'
  BY <1>2 DEF IsRecord
<1>10. crossed' \in BOOLEAN
  BY <1>1
<1> QED BY <1>3, <1>4, <1>5, <1>6, <1>7, <1>8, <1>9, <1>10 DEF CredentialInv

LEMMA FieldsGiven == \A d \in FieldMaps : "secret" \in DOMAIN d => d["secret"] \in Secrets \cup {Mask} /\ d["secret"] # Nothing
<1>1. ASSUME NEW d \in FieldMaps, "secret" \in DOMAIN d PROVE d["secret"] \in Secrets \cup {Mask}
  BY <1>1 DEF FieldMaps
<1> QED BY <1>1, CredentialsAssumption

\* A secret that is sent in full is taken over, one that is masked or left out stays:
\* where the type has no schema, because the stored record has that field.
LEMMA MergeKeeps ==
  ASSUME NEW old, NEW new \in FieldMaps, NEW t \in CredentialTypes, new # Nothing
  PROVE  /\ SecretIn(new) \in Secrets => SecretIn(merge_credential_data(old, new, t)) = SecretIn(new)
         /\ SecretIn(new) \in {Mask, Nothing} /\ SecretIn(old) \in Secrets =>
              SecretIn(merge_credential_data(old, new, t)) = SecretIn(old)
<1> USE CredentialsAssumption
<1> DEFINE Protected(k) == IF t = "known" THEN k \in secret_keys(t) ELSE k \in DOMAIN old
           taken == {k \in DOMAIN new : ~(Protected(k) /\ new[k] = Mask)}
           merged == [k \in DOMAIN old \cup taken |-> IF k \in taken THEN new[k] ELSE old[k]]
<1>1. merge_credential_data(old, new, t) = merged
  BY DEF merge_credential_data
<1>2. ASSUME SecretIn(new) \in Secrets PROVE SecretIn(merged) = SecretIn(new)
  <2>1. "secret" \in DOMAIN new /\ new["secret"] = SecretIn(new) /\ new["secret"] # Mask
    BY <1>2 DEF SecretIn
  <2>2. "secret" \in taken
    BY <2>1
  <2> QED BY <2>1, <2>2 DEF SecretIn
<1>3. ASSUME SecretIn(new) \in {Mask, Nothing}, SecretIn(old) \in Secrets PROVE SecretIn(merged) = SecretIn(old)
  <2>1. "secret" \in DOMAIN old /\ old["secret"] = SecretIn(old)
    BY <1>3 DEF SecretIn
  <2>2. Protected("secret")
    BY <2>1 DEF secret_keys
  <2>3. CASE "secret" \notin DOMAIN new
    BY <2>1, <2>3 DEF SecretIn
  <2>4. CASE "secret" \in DOMAIN new /\ new["secret"] = Mask
    <3>1. "secret" \notin taken
      BY <2>2, <2>4
    <3> QED BY <2>1, <3>1 DEF SecretIn
  <2>5. "secret" \in DOMAIN new => new["secret"] # Nothing
    BY FieldsGiven
  <2> QED BY <1>3, <2>3, <2>4, <2>5 DEF SecretIn
<1> QED BY <1>1, <1>2, <1>3

LEMMA EditReadOK ==
  ASSUME CredentialInv, NEW e \in Edits, NEW u \in Owners, NEW t \in CredentialTypes,
         NEW data \in FieldMaps \cup {Nothing}, EditRead(e, u, t, data)
  PROVE  CredentialInv'
<1> PICK record : record = [credential EXCEPT !.type = t,
      !.data = IF t # credential.type THEN data ELSE merge_credential_data(@, data, t)]
  OBVIOUS
<1> PICK typed : typed = (IF data # Nothing /\ SecretIn(data) \in Secrets THEN SecretIn(data)
                          ELSE IF t = credential.type THEN Mask ELSE Nothing)
  OBVIOUS
<1>1. /\ edit[e] = Nothing /\ credential # Nothing /\ IsRecord(credential)
      /\ credential.id \in Nat /\ credential.id < credentialRequests /\ credentialRequests \in Nat
      /\ credentialRequests' = credentialRequests + 1
      /\ edit' = [edit EXCEPT ![e] = [record |-> record, typed |-> typed]]
      /\ UNCHANGED <<credential, sent, given>>
      /\ t # credential.type =>
           data \notin {Nothing, [k \in {} |-> "u"]} /\ \A k \in DOMAIN data : data[k] # Mask
  BY DEF EditRead, CredentialRequest, get_credential_for_owner, CredentialInv
<1>2. crossed' = (crossed \/ \E o \in Edits : edit[o] # Nothing /\ edit[o].record.id = credential.id)
  BY DEF EditRead
<1>3. crossed' \in BOOLEAN /\ (crossed => crossed')
  BY <1>2 DEF CredentialInv
<1>4. edit'[e] = [record |-> record, typed |-> typed] /\ \A o \in Edits \ {e} : edit'[o] = edit[o]
  BY <1>1 DEF CredentialInv
<1>5. /\ IsRecord(record) /\ record.id = credential.id
      /\ record.data = IF t # credential.type THEN data ELSE merge_credential_data(credential.data, data, t)
  BY <1>1 DEF IsRecord
<1>6. ASSUME NEW o \in Edits PROVE EditOK(o)'
  <2>1. CASE o = e
    <3>1. record.id \in Nat /\ record.id < credentialRequests'
      BY <1>1, <1>5
    <3> QED BY <1>4, <1>5, <2>1, <3>1 DEF EditOK, IsRecord
  <2>2. CASE o # e
    <3>1. edit'[o] = edit[o] /\ EditOK(o)
      BY <1>4, <2>2 DEF CredentialInv
    <3>2. edit[o] # Nothing => edit[o].record.id < credentialRequests'
      BY <1>1, <3>1 DEF EditOK
    <3> QED BY <3>1, <3>2 DEF EditOK, IsRecord
  <2> QED BY <2>1, <2>2
<1>7. ASSUME ~crossed', NEW o \in Edits, Edits1(o)' PROVE o = e
  BY <1>1, <1>2, <1>4, <1>7 DEF Edits1
<1>8. ASSUME ~crossed' PROVE WillKeep(e)'
  <2>1. given \in Secrets => SecretIn(credential.data) = given
    BY <1>1, <1>3, <1>8 DEF CredentialInv, LastGivenSecretKept
  <2>2. SecretIn(data) \in Secrets \cup {Mask, Nothing} \/ data = Nothing
    BY FieldsGiven DEF SecretIn
  <2> SUFFICES /\ typed = Mask /\ given \in Secrets => SecretIn(record.data) = given
               /\ typed \in Secrets => SecretIn(record.data) = typed
               /\ typed \in {Mask, Nothing} \cup Secrets
    <3>1. edit'[e].typed = typed /\ edit'[e].record = record /\ given' = given
      BY <1>1, <1>4
    <3> QED BY <3>1 DEF WillKeep
  <2> USE CredentialsAssumption
  <2> HIDE DEF Mask
  <2>3. CASE t # credential.type
    <3>1. data # Nothing /\ record.data = data
      BY <1>1, <1>5, <2>3
    <3>2. CASE SecretIn(data) \in Secrets
      <4>1. typed = SecretIn(data)
        BY <3>1, <3>2
      <4> QED BY <3>1, <3>2, <4>1
    <3>3. CASE SecretIn(data) \notin Secrets
      <4>1. typed = Nothing
        BY <2>3, <3>3
      <4> QED BY <4>1
    <3> QED BY <3>2, <3>3
  <2>4. CASE t = credential.type /\ data = Nothing
    <3>1. record.data = credential.data /\ typed = Mask
      BY <1>5, <2>4 DEF merge_credential_data
    <3> QED BY <2>1, <3>1
  <2>5. CASE t = credential.type /\ data # Nothing
    <3>1. record.data = merge_credential_data(credential.data, data, t) /\ data \in FieldMaps
      BY <1>5, <2>5
    <3>2. CASE SecretIn(data) \in Secrets
      <4>1. typed = SecretIn(data)
        BY <2>5, <3>2
      <4>2. SecretIn(merge_credential_data(credential.data, data, t)) = SecretIn(data)
        <5> PICK old : old = credential.data
          OBVIOUS
        <5>1. data \in FieldMaps /\ data # Nothing /\ t \in CredentialTypes
          BY <2>5, <3>1
        <5> HIDE DEF SecretIn, merge_credential_data
        <5>2. SecretIn(data) \in Secrets => SecretIn(merge_credential_data(old, data, t)) = SecretIn(data)
          BY ONLY <5>1, MergeKeeps
        <5> QED BY <3>2, <5>2
      <4>3. SecretIn(record.data) = SecretIn(data)
        BY <3>1, <4>2
      <4> QED BY <3>2, <4>1, <4>3
    <3>3. CASE SecretIn(data) \notin Secrets
      <4>1. typed = Mask
        BY <2>5, <3>3
      <4>2. given \in Secrets => SecretIn(record.data) = given
        BY <2>1, <2>2, <2>5, <3>1, <3>3, MergeKeeps
      <4> QED BY <4>1, <4>2
    <3> QED BY <3>2, <3>3
  <2> QED BY <2>3, <2>4, <2>5
<1>9. LastGivenSecretKept' /\ SecretsTravelOnlyRaw'
  BY <1>1, <1>3 DEF CredentialInv, LastGivenSecretKept, SecretsTravelOnlyRaw
<1>10. credentialRequests' \in Nat /\ credential'.id < credentialRequests'
  BY <1>1
<1>11. edit' = [o \in Edits |-> edit'[o]]
  BY <1>1 DEF CredentialInv
<1>12. IsRecord(credential)' /\ credential'.id \in Nat
  BY <1>1 DEF IsRecord
<1>13. ~crossed' => /\ \A d, o \in Edits : Edits1(d)' /\ Edits1(o)' => d = o
                    /\ \A d \in Edits : Edits1(d)' => WillKeep(d)'
  BY <1>7, <1>8
<1> QED BY <1>3, <1>6, <1>9, <1>10, <1>11, <1>12, <1>13 DEF CredentialInv

LEMMA EditWriteOK == ASSUME CredentialInv, NEW e \in Edits, EditWrite(e) PROVE CredentialInv'
<1> PICK record : record = edit[e].record
  OBVIOUS
<1>1. /\ edit[e] # Nothing /\ EditOK(e) /\ edit' = [edit EXCEPT ![e] = Nothing]
      /\ UNCHANGED <<credentialRequests, crossed>>
      /\ edit'[e] = Nothing /\ \A o \in Edits \ {e} : edit'[o] = edit[o]
  BY DEF EditWrite, CredentialInv
<1>2. \A o \in Edits : EditOK(o)'
  BY <1>1 DEF CredentialInv, EditOK, IsRecord
<1>3. edit' = [o \in Edits |-> edit'[o]]
  BY <1>1 DEF CredentialInv
<1>4. CASE ~(credential # Nothing /\ credential.id = record.id /\ credential.owner = record.owner)
  <2>1. UNCHANGED <<credential, given, sent>>
    BY <1>4 DEF EditWrite
  <2>2. \A o \in Edits : Edits1(o)' => Edits1(o) /\ o # e
    BY <1>1, <2>1 DEF Edits1
  <2>3. \A o \in Edits : Edits1(o)' /\ WillKeep(o) => WillKeep(o)'
    BY <1>1, <2>1, <2>2 DEF WillKeep
  <2>4. LastGivenSecretKept' /\ SecretsTravelOnlyRaw'
    BY <1>1, <2>1 DEF CredentialInv, LastGivenSecretKept, SecretsTravelOnlyRaw
  <2>5. credential' # Nothing => IsRecord(credential)' /\ credential'.id \in Nat /\ credential'.id < credentialRequests'
    BY <1>1, <2>1 DEF CredentialInv, IsRecord
  <2> QED BY <1>1, <1>2, <1>3, <2>2, <2>3, <2>4, <2>5 DEF CredentialInv
<1>5. CASE credential # Nothing /\ credential.id = record.id /\ credential.owner = record.owner
  <2>1. /\ credential' = record /\ Answer(credential.owner, record) /\ IsRecord(record)
        /\ given' = IF edit[e].typed = Mask THEN given ELSE edit[e].typed
    BY <1>1, <1>5 DEF EditWrite, EditOK
  <2>2. Edits1(e)
    BY <1>1, <1>5 DEF Edits1
  <2>3. ~crossed => \A o \in Edits : ~Edits1(o)'
    <3>1. \A o \in Edits : Edits1(o)' => Edits1(o) /\ o # e
      BY <1>1, <1>5, <2>1 DEF Edits1
    <3> QED BY <2>2, <3>1 DEF CredentialInv
  <2>4. LastGivenSecretKept'
    <3> SUFFICES ASSUME credential' # Nothing, given' \in Secrets, ~crossed
                 PROVE  SecretIn(record.data) = given'
      BY <1>1, <2>1 DEF LastGivenSecretKept
    <3>1. WillKeep(e)
      BY <2>2 DEF CredentialInv
    <3> QED BY <2>1, <3>1, CredentialsAssumption DEF WillKeep
  <2>5. SecretsTravelOnlyRaw'
    BY <2>1, AnswerHarmless DEF CredentialInv
  <2>6. IsRecord(credential)' /\ credential'.id \in Nat /\ credential'.id < credentialRequests'
    BY <1>1, <2>1 DEF EditOK, IsRecord
  <2> QED BY <1>1, <1>2, <1>3, <2>3, <2>4, <2>5, <2>6 DEF CredentialInv
<1> QED BY <1>4, <1>5

LEMMA DeleteCredentialOK == ASSUME CredentialInv, NEW u \in Owners, DeleteCredential(u) PROVE CredentialInv'
<1>1. /\ credential' = Nothing /\ credentialRequests' = credentialRequests + 1 /\ credentialRequests \in Nat
      /\ UNCHANGED <<edit, sent, crossed>>
  BY DEF DeleteCredential, CredentialRequest, CredentialInv
<1>2. \A e \in Edits : EditOK(e)'
  <2>1. ASSUME NEW e \in Edits PROVE EditOK(e)'
    <3>1. edit[e] # Nothing => edit[e].record.id \in Nat /\ edit[e].record.id < credentialRequests'
      BY <1>1 DEF CredentialInv, EditOK
    <3> QED BY <1>1, <3>1 DEF CredentialInv, EditOK, IsRecord
  <2> QED BY <2>1
<1>3. \A e \in Edits : ~Edits1(e)'
  BY <1>1 DEF Edits1
<1>4. credentialRequests' \in Nat
  BY <1>1
<1> QED BY <1>1, <1>2, <1>3, <1>4 DEF CredentialInv, LastGivenSecretKept, SecretsTravelOnlyRaw

LEMMA NextCredentialInv == CredentialInv /\ [CredentialsNext]_credentialVars => CredentialInv'
<1> SUFFICES ASSUME CredentialInv, [CredentialsNext]_credentialVars PROVE CredentialInv'
  OBVIOUS
<1>1. CASE UNCHANGED credentialVars
  BY <1>1, SendsOnly DEF credentialVars, CredentialInv, SecretsTravelOnlyRaw
<1>2. CASE CredentialsNext
  BY <1>2, CreateCredentialOK, EditReadOK, EditWriteOK, DeleteCredentialOK, DispatchOK, ReadsOK
     DEF CredentialsNext
<1> QED BY <1>1, <1>2

LEMMA CredentialInvAlways == CredentialsSpec => []CredentialInv
  BY InitCredentialInv, NextCredentialInv, PTL DEF CredentialsSpec

\* The stored secret is the one its owner last typed in, unless two edits overlapped:
\* merge_credential_data leaves a masked secret as it is, a change of type needs data
\* without masks, and the write meets the record the edit had read or none.
THEOREM LastGivenSecretKeptAlways == CredentialsSpec => []LastGivenSecretKept
<1>1. CredentialInv => LastGivenSecretKept
  BY DEF CredentialInv
<1> QED BY <1>1, CredentialInvAlways, PTL

\* A secret travels only in a task of its owner, and only where the credential's own
\* policy lists raw access; no answer over HTTP has it.
THEOREM SecretsTravelOnlyRawAlways == CredentialsSpec => []SecretsTravelOnlyRaw
<1>1. CredentialInv => SecretsTravelOnlyRaw
  BY DEF CredentialInv
<1> QED BY <1>1, CredentialInvAlways, PTL

(***************************************************************************)
(* The limiter of starts                                                   *)
(***************************************************************************)
W == START_RATE_LIMIT_WINDOW
CheckSteps == {"sweep", "look", "insert"}
PastStarts(w) == {i \in DOMAIN starts : starts[i].workflow = w}

\* A request has all its fields, and one that is being checked is a start of a
\* workflow, at a time that has come.
RequestOK(r) ==
  /\ request[r].step # "none" =>
       /\ request[r] = [step |-> request[r].step, path |-> request[r].path, token |-> request[r].token,
                        workflow |-> request[r].workflow, now |-> request[r].now]
       /\ request[r].path = "start" => request[r].workflow \in Startable
  /\ request[r].step \in CheckSteps =>
       /\ request[r].workflow \in Startable
       /\ request[r].now \in Nat /\ request[r].now <= time

\* The map knows the last start of a workflow, or the last one is two windows ago.
EntryOK(w) ==
  /\ last_start[w] # NoTime => \A i \in PastStarts(w) : starts[i].at <= last_start[w]
  /\ last_start[w] = NoTime => \A i \in PastStarts(w) : starts[i].at + 2 * W <= time

\* A check that is alone with its workflow: before the look-up the entry is not in its
\* future, or there is none and every start is a window ago; after it every start is.
CheckOK(w, r) ==
  LET now == request[r].now
      Apart == \A i \in PastStarts(w) : starts[i].at + W <= now
  IN /\ request[r].step \in {"sweep", "look"} => IF last_start[w] = NoTime THEN Apart ELSE last_start[w] <= now
     /\ request[r].step = "insert" => Apart

CheckedAlone(w) ==
  w \notin racing =>
    /\ EntryOK(w)
    /\ \A r, o \in BeingChecked(w) : r = o
    /\ \A r \in BeingChecked(w) : CheckOK(w, r)

HttpTypes ==
  /\ time \in Nat
  /\ starts \in Seq([workflow : Startable, at : Nat])
  /\ last_start \in [Startable -> Nat \cup {NoTime}]
  /\ \A w \in Startable : last_start[w] # NoTime => last_start[w] <= time
  /\ request = [r \in HttpRequests |-> request[r]]
  /\ \A r \in HttpRequests : RequestOK(r)

HttpInv == HttpTypes /\ (\A w \in Startable : CheckedAlone(w)) /\ StartsSpaced

LEMMA InitHttpInv == HttpInit => HttpInv
<1> SUFFICES ASSUME HttpInit PROVE HttpInv
  OBVIOUS
<1>1. \A r \in HttpRequests : request[r].step = "none"
  BY DEF HttpInit
<1>2. starts = <<>> /\ DOMAIN starts = {} /\ \A w : PastStarts(w) = {}
  BY DEF HttpInit, PastStarts
<1>3. HttpTypes
  BY <1>1, <1>2 DEF HttpInit, HttpTypes, RequestOK, CheckSteps
<1>4. \A w : BeingChecked(w) = {}
  BY <1>1 DEF BeingChecked
<1> QED BY <1>2, <1>3, <1>4 DEF HttpInv, CheckedAlone, EntryOK, StartsSpaced

LEMMA StartTimes ==
  ASSUME HttpTypes
  PROVE  \A i \in DOMAIN starts : starts[i].workflow \in Startable /\ starts[i].at \in Nat
<1> DEFINE S == [workflow : Startable, at : Nat]
<1>1. \A i \in DOMAIN starts : starts[i] \in S
  <2>1. starts \in Seq(S)
    BY DEF HttpTypes
  <2> HIDE DEF S
  <2> QED BY <2>1, ElementOfSeq, LenProperties
<1> QED BY <1>1

\* What a step does to requests that are not being checked is no concern of the
\* limiter, nor is the passing of time.
LEMMA LimiterUnconcerned ==
  ASSUME HttpInv, time' \in Nat, time <= time', UNCHANGED <<last_start, starts, racing>>,
         request' = [r \in HttpRequests |-> request'[r]],
         \A r \in HttpRequests : \/ request'[r] = request[r]
                                 \/ request'[r].step \notin CheckSteps /\ RequestOK(r)'
  PROVE  HttpInv'
<1>1. \A r \in HttpRequests : RequestOK(r)'
  <2> SUFFICES ASSUME NEW r \in HttpRequests, request'[r] = request[r] PROVE RequestOK(r)'
    OBVIOUS
  <2>1. RequestOK(r) /\ time \in Nat
    BY DEF HttpInv, HttpTypes
  <2>2. request[r].step \in CheckSteps => request[r].now <= time'
    BY <2>1 DEF RequestOK
  <2> QED BY <2>1, <2>2 DEF RequestOK
<1>2. \A w \in Startable : last_start[w] # NoTime => last_start[w] <= time'
  BY DEF HttpInv, HttpTypes
<1>3. HttpTypes'
  BY <1>1, <1>2 DEF HttpInv, HttpTypes
<1>4. ASSUME NEW w \in Startable PROVE CheckedAlone(w)'
  <2> SUFFICES ASSUME w \notin racing
               PROVE  /\ EntryOK(w)' /\ \A r, o \in BeingChecked(w)' : r = o
                      /\ \A r \in BeingChecked(w)' : CheckOK(w, r)'
    BY DEF CheckedAlone
  <2>1. CheckedAlone(w) /\ EntryOK(w)
    BY DEF HttpInv, CheckedAlone
  <2>2. PastStarts(w)' = PastStarts(w) /\ \A i \in PastStarts(w) : starts[i].at \in Nat
    BY StartTimes DEF PastStarts, HttpInv
  <2>3. EntryOK(w)'
    BY <2>1, <2>2, HttpAssumption DEF EntryOK, HttpInv, HttpTypes, W
  <2>4. ASSUME NEW r \in BeingChecked(w)' PROVE r \in BeingChecked(w) /\ request'[r] = request[r]
    BY DEF BeingChecked, CheckSteps
  <2>5. \A r \in BeingChecked(w)' : CheckOK(w, r) => CheckOK(w, r)'
    BY <2>2, <2>4 DEF CheckOK
  <2> QED BY <2>1, <2>3, <2>4, <2>5 DEF CheckedAlone
<1>5. StartsSpaced'
  BY DEF HttpInv, StartsSpaced
<1> QED BY <1>3, <1>4, <1>5 DEF HttpInv

\* A request that goes on outside of the check, or is answered.
LEMMA GoesElsewhere ==
  ASSUME HttpInv, NEW r \in HttpRequests, NEW step, request[r].step # "none", step \notin CheckSteps,
         request' = [request EXCEPT ![r].step = step],
         UNCHANGED <<time, last_start, starts, racing>>
  PROVE  HttpInv'
<1>1. RequestOK(r) /\ request = [o \in HttpRequests |-> request[o]] /\ time \in Nat
  BY DEF HttpInv, HttpTypes
<1>2. request'[r] = [request[r] EXCEPT !.step = step] /\ \A o \in HttpRequests \ {r} : request'[o] = request[o]
  BY <1>1
<1>3. request'[r] = [step |-> step, path |-> request[r].path, token |-> request[r].token,
                     workflow |-> request[r].workflow, now |-> request[r].now]
  BY <1>1, <1>2 DEF RequestOK
<1>4. RequestOK(r)' /\ request'[r].step \notin CheckSteps
  BY <1>1, <1>3 DEF RequestOK
<1>5. request' = [o \in HttpRequests |-> request'[o]] /\ time <= time'
  BY <1>1
<1> QED BY <1>1, <1>2, <1>4, <1>5, LimiterUnconcerned

LEMMA ArriveOK ==
  ASSUME HttpInv, NEW r \in HttpRequests, NEW path \in HttpPaths, NEW token \in BOOLEAN,
         NEW w \in Startable \cup {NoTime}, Arrive(r, path, token, w)
  PROVE  HttpInv'
<1>1. request = [o \in HttpRequests |-> request[o]] /\ time \in Nat
  BY DEF HttpInv, HttpTypes
<1>2. /\ request' = [request EXCEPT ![r] =
           [step |-> "auth", path |-> path, token |-> token, workflow |-> w, now |-> NoTime]]
      /\ UNCHANGED <<time, last_start, starts, racing>> /\ (path = "start" => w \in Startable)
  BY DEF Arrive
<1>3. /\ request'[r] = [step |-> "auth", path |-> path, token |-> token, workflow |-> w, now |-> NoTime]
      /\ \A o \in HttpRequests \ {r} : request'[o] = request[o]
      /\ request' = [o \in HttpRequests |-> request'[o]]
  BY <1>1, <1>2
<1>4. request'[r].step \notin CheckSteps /\ RequestOK(r)'
  BY <1>2, <1>3 DEF RequestOK, CheckSteps
<1>5. time <= time'
  BY <1>1, <1>2
<1> QED BY <1>1, <1>2, <1>3, <1>4, <1>5, LimiterUnconcerned

LEMMA LeaveHttpOK == ASSUME HttpInv, NEW r \in HttpRequests, LeaveHttp(r) PROVE HttpInv'
<1>1. request = [o \in HttpRequests |-> request[o]] /\ time \in Nat
  BY DEF HttpInv, HttpTypes
<1>2. request' = [request EXCEPT ![r] = [step |-> "none"]] /\ UNCHANGED <<time, last_start, starts, racing>>
  BY DEF LeaveHttp
<1>3. /\ request'[r] = [step |-> "none"] /\ \A o \in HttpRequests \ {r} : request'[o] = request[o]
      /\ request' = [o \in HttpRequests |-> request'[o]]
  BY <1>1, <1>2
<1>4. request'[r].step \notin CheckSteps /\ RequestOK(r)'
  BY <1>3 DEF RequestOK, CheckSteps
<1>5. time <= time'
  BY <1>1, <1>2
<1> QED BY <1>1, <1>2, <1>3, <1>4, <1>5, LimiterUnconcerned

LEMMA TimePassesOK == ASSUME HttpInv, TimePasses PROVE HttpInv'
<1>1. time' \in Nat /\ time <= time' /\ request' = [o \in HttpRequests |-> request'[o]]
  BY DEF TimePasses, HttpInv, HttpTypes
<1>2. UNCHANGED <<request, last_start, starts, racing>>
  BY DEF TimePasses
<1> QED BY <1>1, <1>2, LimiterUnconcerned

LEMMA OutsideOfCheckOK ==
  ASSUME HttpInv, NEW r \in HttpRequests,
         \/ auth_middleware(r) \/ RouteRequest(r) \/ HttpForbidden(r)
         \/ \E status \in {200, 404} : HandleOther(r, status)
         \/ \E outcome \in DOMAIN EngineErrors : EngineAnswers(r, outcome)
  PROVE  HttpInv'
<1>1. request[r].step # "none" /\ UNCHANGED <<time, last_start, starts, racing>>
  BY DEF auth_middleware, RouteRequest, HttpForbidden, HandleOther, EngineAnswers
<1>2. \E step \in {"route", "handler", "out"} : request' = [request EXCEPT ![r].step = step]
  BY DEF auth_middleware, RouteRequest, HttpForbidden, HandleOther, EngineAnswers, Goes, Answers
<1> QED BY <1>1, <1>2, GoesElsewhere DEF CheckSteps

LEMMA CheckBeginsOK == ASSUME HttpInv, NEW r \in HttpRequests, CheckBegins(r) PROVE HttpInv'
<1> PICK v : v = request[r].workflow
  OBVIOUS
<1>1. /\ request[r].step = "handler" /\ request[r].path = "start"
      /\ request' = [request EXCEPT ![r].step = "sweep", ![r].now = time]
      /\ racing' = IF BeingChecked(v) = {} THEN racing ELSE racing \cup {v}
      /\ UNCHANGED <<time, last_start, starts>>
  BY DEF CheckBegins
<1>2. RequestOK(r) /\ request = [o \in HttpRequests |-> request[o]] /\ time \in Nat /\ v \in Startable
  BY <1>1 DEF HttpInv, HttpTypes, RequestOK
<1>3. /\ request'[r] = [step |-> "sweep", path |-> "start", token |-> request[r].token, workflow |-> v, now |-> time]
      /\ \A o \in HttpRequests \ {r} : request'[o] = request[o]
      /\ request' = [o \in HttpRequests |-> request'[o]]
  BY <1>1, <1>2 DEF RequestOK
<1>4. HttpTypes'
  <2>1. ASSUME NEW o \in HttpRequests PROVE RequestOK(o)'
    <3>1. CASE o = r
      BY <1>1, <1>2, <1>3, <3>1 DEF RequestOK
    <3>2. CASE o # r
      BY <1>1, <1>3, <3>2 DEF RequestOK, HttpInv, HttpTypes
    <3> QED BY <3>1, <3>2
  <2> QED BY <1>1, <1>3, <2>1 DEF HttpInv, HttpTypes
<1>5. ASSUME NEW w \in Startable, w \notin racing' PROVE CheckedAlone(w)'
  <2>1. w \notin racing /\ CheckedAlone(w) /\ EntryOK(w) /\ (w = v => BeingChecked(w) = {})
    BY <1>1, <1>5 DEF HttpInv, CheckedAlone
  <2>2. EntryOK(w)' /\ PastStarts(w)' = PastStarts(w)
    BY <1>1, <2>1 DEF EntryOK, PastStarts
  <2>3. CASE w = v
    <3>1. \A o \in BeingChecked(w)' : o = r
      BY <1>3, <2>1, <2>3 DEF BeingChecked
    <3>2. \A i \in PastStarts(w) : starts[i].at \in Nat
      BY StartTimes DEF HttpInv, PastStarts
    <3>3. last_start[w] = NoTime => \A i \in PastStarts(w) : starts[i].at + W <= time
      BY <1>2, <2>1, <3>2, HttpAssumption DEF EntryOK, W
    <3>4. last_start[w] # NoTime => last_start[w] <= time
      BY DEF HttpInv, HttpTypes
    <3>5. CheckOK(w, r)'
      <4>1. request'[r].step = "sweep" /\ request'[r].now = time /\ last_start'[w] = last_start[w]
        BY <1>1, <1>3
      <4> QED BY <1>1, <2>2, <3>3, <3>4, <4>1 DEF CheckOK
    <3> QED BY <2>2, <3>1, <3>5 DEF CheckedAlone
  <2>4. CASE w # v
    <3>1. \A o \in BeingChecked(w)' : o \in BeingChecked(w) /\ request'[o] = request[o]
      BY <1>3, <2>4 DEF BeingChecked
    <3>2. \A o \in BeingChecked(w)' : CheckOK(w, o)'
      BY <1>1, <2>1, <2>2, <3>1 DEF CheckOK, CheckedAlone
    <3> QED BY <2>1, <2>2, <3>1, <3>2 DEF CheckedAlone
  <2> QED BY <2>3, <2>4
<1>6. StartsSpaced'
  <2>1. racing \subseteq racing'
    BY <1>1
  <2> QED BY <1>1, <2>1 DEF HttpInv, StartsSpaced
<1> QED BY <1>4, <1>5, <1>6 DEF HttpInv, CheckedAlone

\* A sweep takes away only entries that are two windows older than its time.
LEMMA SweepsOldOnly ==
  ASSUME HttpInv, NEW r \in HttpRequests, SweepStarts(r), NEW w \in Startable
  PROVE  \/ last_start'[w] = last_start[w]
         \/ /\ last_start[w] # NoTime /\ last_start'[w] = NoTime
            /\ last_start[w] + 2 * W <= request[r].now
<1>1. request[r].now \in Nat /\ last_start[w] \in Nat \cup {NoTime} /\ last_start = [x \in Startable |-> last_start[x]]
  BY DEF SweepStarts, HttpInv, HttpTypes, RequestOK, CheckSteps
<1>2. \/ last_start' = last_start
      \/ last_start' = [x \in Startable |->
            IF RecentStart(last_start[x], request[r].now, 2 * W) THEN last_start[x] ELSE NoTime]
  BY DEF SweepStarts, Retained, W
<1>3. last_start'[w] = last_start[w] \/
        (last_start'[w] = NoTime /\ ~RecentStart(last_start[w], request[r].now, 2 * W))
  BY <1>2
<1>4. ASSUME ~RecentStart(last_start[w], request[r].now, 2 * W), last_start[w] # NoTime
      PROVE  last_start[w] + 2 * W <= request[r].now
  <2>1. ~(last_start[w] > request[r].now) /\ ~(request[r].now - last_start[w] < 2 * W)
    BY <1>4 DEF RecentStart
  <2>2. last_start[w] \in Nat /\ W \in Nat
    BY <1>1, <1>4, HttpAssumption DEF W
  <2> QED BY <1>1, <2>1, <2>2
<1> QED BY <1>3, <1>4

LEMMA SweepStartsOK == ASSUME HttpInv, NEW r \in HttpRequests, SweepStarts(r) PROVE HttpInv'
<1>1. /\ request[r].step = "sweep" /\ request' = [request EXCEPT ![r].step = "look"]
      /\ racing' = racing \cup {w \in Startable : last_start[w] # last_start'[w] /\ BeingChecked(w) \ {r} # {}}
      /\ UNCHANGED <<time, starts>>
  BY DEF SweepStarts, Goes
<1>2. /\ RequestOK(r) /\ request = [o \in HttpRequests |-> request[o]] /\ time \in Nat
      /\ request[r].now \in Nat /\ request[r].now <= time
  BY <1>1 DEF HttpInv, HttpTypes, RequestOK, CheckSteps
<1>3. /\ request'[r] = [step |-> "look", path |-> request[r].path, token |-> request[r].token,
                        workflow |-> request[r].workflow, now |-> request[r].now]
      /\ \A o \in HttpRequests \ {r} : request'[o] = request[o]
      /\ request' = [o \in HttpRequests |-> request'[o]]
  BY <1>1, <1>2 DEF RequestOK
<1>4. HttpTypes'
  <2>1. ASSUME NEW o \in HttpRequests PROVE RequestOK(o)'
    <3>1. CASE o = r
      BY <1>1, <1>2, <1>3, <3>1 DEF RequestOK, CheckSteps
    <3>2. CASE o # r
      BY <1>1, <1>3, <3>2 DEF RequestOK, HttpInv, HttpTypes
    <3> QED BY <3>1, <3>2
  <2>2. last_start' = [w \in Startable |-> last_start'[w]]
    BY DEF SweepStarts, Retained, HttpInv, HttpTypes
  <2>3. \A w \in Startable : /\ last_start'[w] \in Nat \cup {NoTime}
                             /\ last_start'[w] # NoTime => last_start'[w] <= time
    BY SweepsOldOnly DEF HttpInv, HttpTypes
  <2>4. last_start' \in [Startable -> Nat \cup {NoTime}]
    BY <2>2, <2>3
  <2> QED BY <1>1, <1>3, <2>1, <2>3, <2>4 DEF HttpInv, HttpTypes
<1>5. ASSUME NEW w \in Startable, w \notin racing' PROVE CheckedAlone(w)'
  <2>1. w \notin racing /\ CheckedAlone(w) /\ (last_start[w] = last_start'[w] \/ BeingChecked(w) \subseteq {r})
    BY <1>1, <1>5 DEF HttpInv
  <2>2. /\ EntryOK(w) /\ \A o \in BeingChecked(w) : CheckOK(w, o)
        /\ \A d, o \in BeingChecked(w) : d = o
    BY <2>1 DEF CheckedAlone
  <2>3. PastStarts(w)' = PastStarts(w) /\ \A i \in PastStarts(w) : starts[i].at \in Nat
    BY <1>1, StartTimes DEF HttpInv, PastStarts
  <2>4. /\ BeingChecked(w)' = BeingChecked(w)
        /\ \A o \in BeingChecked(w) : o \in HttpRequests /\ request'[o].now = request[o].now
        /\ \A o \in BeingChecked(w) : o # r => request'[o] = request[o]
    BY <1>1, <1>3 DEF BeingChecked
  <2>5. CASE last_start'[w] = last_start[w]
    <3>1. EntryOK(w)'
      BY <1>1, <2>2, <2>3, <2>5 DEF EntryOK
    <3>2. ASSUME NEW o \in BeingChecked(w) PROVE CheckOK(w, o)'
      BY <1>1, <1>3, <2>2, <2>3, <2>4, <2>5 DEF CheckOK
    <3> QED BY <2>2, <2>4, <3>1, <3>2 DEF CheckedAlone
  <2>6. CASE last_start'[w] # last_start[w]
    <3>1. last_start[w] # NoTime /\ last_start'[w] = NoTime /\ last_start[w] + 2 * W <= request[r].now
      BY <2>6, SweepsOldOnly
    <3>2. last_start[w] \in Nat /\ W \in Nat
      BY <3>1, HttpAssumption DEF HttpInv, HttpTypes, W
    <3>3. \A i \in PastStarts(w) : starts[i].at <= last_start[w]
      BY <2>2, <3>1 DEF EntryOK
    <3>4. \A i \in PastStarts(w) : starts[i].at + 2 * W <= time /\ starts[i].at + W <= request[r].now
      BY <1>2, <2>3, <3>1, <3>2, <3>3
    <3>5. EntryOK(w)'
      BY <1>1, <2>3, <3>1, <3>4 DEF EntryOK
    <3>6. \A o \in BeingChecked(w) : o = r
      BY <2>1, <2>6
    <3>7. CheckOK(w, r)'
      BY <1>1, <1>3, <2>3, <3>1, <3>4 DEF CheckOK
    <3> QED BY <2>2, <2>4, <3>5, <3>6, <3>7 DEF CheckedAlone
  <2> QED BY <2>5, <2>6
<1>6. StartsSpaced'
  <2>1. racing \subseteq racing'
    BY <1>1
  <2> QED BY <1>1, <2>1 DEF HttpInv, StartsSpaced
<1> QED BY <1>4, <1>5, <1>6 DEF HttpInv, CheckedAlone

LEMMA LookUpStartOK == ASSUME HttpInv, NEW r \in HttpRequests, LookUpStart(r) PROVE HttpInv'
<1> PICK v : v = request[r].workflow
  OBVIOUS
<1>1. request[r].step = "look" /\ UNCHANGED <<time, last_start, starts, racing>>
  BY DEF LookUpStart
<1>2. CASE request' = [request EXCEPT ![r].step = "out"]
  <2>1. "out" \notin CheckSteps /\ request[r].step # "none"
    BY <1>1 DEF CheckSteps
  <2> QED BY <1>1, <1>2, <2>1, GoesElsewhere
<1>3. CASE /\ request' = [request EXCEPT ![r].step = "insert"]
           /\ ~RecentStart(last_start[v], request[r].now, W)
  <2>1. /\ RequestOK(r) /\ request = [o \in HttpRequests |-> request[o]] /\ time \in Nat
        /\ request[r].now \in Nat /\ request[r].now <= time /\ v \in Startable
    BY <1>1 DEF HttpInv, HttpTypes, RequestOK, CheckSteps
  <2>2. /\ request'[r] = [step |-> "insert", path |-> request[r].path, token |-> request[r].token,
                          workflow |-> v, now |-> request[r].now]
        /\ \A o \in HttpRequests \ {r} : request'[o] = request[o]
        /\ request' = [o \in HttpRequests |-> request'[o]]
    BY <1>1, <1>3, <2>1 DEF RequestOK
  <2>3. HttpTypes'
    <3>1. ASSUME NEW o \in HttpRequests PROVE RequestOK(o)'
      <4>1. CASE o = r
        BY <1>1, <2>1, <2>2, <4>1 DEF RequestOK, CheckSteps
      <4>2. CASE o # r
        BY <1>1, <2>2, <4>2 DEF RequestOK, HttpInv, HttpTypes
      <4> QED BY <4>1, <4>2
    <3> QED BY <1>1, <2>2, <3>1 DEF HttpInv, HttpTypes
  <2>4. ASSUME NEW w \in Startable, w \notin racing PROVE CheckedAlone(w)'
    <3>1. /\ EntryOK(w) /\ \A o \in BeingChecked(w) : CheckOK(w, o)
          /\ \A d, o \in BeingChecked(w) : d = o
      BY <2>4 DEF HttpInv, CheckedAlone
    <3>2. PastStarts(w)' = PastStarts(w) /\ \A i \in PastStarts(w) : starts[i].at \in Nat
      BY <1>1, StartTimes DEF HttpInv, PastStarts
    <3>3. BeingChecked(w)' = BeingChecked(w)
      BY <1>1, <2>2 DEF BeingChecked
    <3>4. EntryOK(w)'
      BY <1>1, <3>1, <3>2 DEF EntryOK
    <3>5. ASSUME NEW o \in BeingChecked(w), o # r PROVE CheckOK(w, o)'
      BY <1>1, <2>2, <3>1, <3>2, <3>5 DEF CheckOK, BeingChecked
    <3>6. ASSUME r \in BeingChecked(w) PROVE CheckOK(w, r)'
      <4>1. w = v /\ CheckOK(w, r)
        BY <3>1, <3>6 DEF BeingChecked
      <4>2. CASE last_start[w] = NoTime
        <5>1. \A i \in PastStarts(w) : starts[i].at + W <= request[r].now
          BY <1>1, <4>1, <4>2 DEF CheckOK
        <5>2. request'[r].step = "insert" /\ request'[r].now = request[r].now
          BY <2>2
        <5> QED BY <1>1, <3>2, <5>1, <5>2 DEF CheckOK
      <4>3. CASE last_start[w] # NoTime
        <5>1. last_start[w] \in Nat /\ W \in Nat
          BY <4>3, HttpAssumption DEF HttpInv, HttpTypes, W
        <5>2. ~(request[r].now - last_start[w] < W)
          BY <1>3, <4>1, <4>3 DEF RecentStart
        <5>3. \A i \in PastStarts(w) : starts[i].at <= last_start[w]
          BY <3>1, <4>3 DEF EntryOK
        <5>4. \A i \in PastStarts(w) : starts[i].at + W <= request[r].now
          BY <2>1, <3>2, <5>1, <5>2, <5>3
        <5>5. request'[r].step = "insert" /\ request'[r].now = request[r].now
          BY <2>2
        <5> QED BY <1>1, <3>2, <5>4, <5>5 DEF CheckOK
      <4> QED BY <4>2, <4>3
    <3> QED BY <3>1, <3>3, <3>4, <3>5, <3>6 DEF CheckedAlone
  <2>5. StartsSpaced'
    BY <1>1 DEF HttpInv, StartsSpaced
  <2> QED BY <1>1, <2>3, <2>4, <2>5 DEF HttpInv, CheckedAlone
<1> QED BY <1>2, <1>3 DEF LookUpStart, Goes, Answers, W

LEMMA InsertStartOK == ASSUME HttpInv, NEW r \in HttpRequests, InsertStart(r) PROVE HttpInv'
<1> DEFINE S == [workflow : Startable, at : Nat]
<1> PICK v, now : v = request[r].workflow /\ now = request[r].now
  OBVIOUS
<1> PICK n : n = Len(starts) + 1
  OBVIOUS
<1>1. /\ request[r].step = "insert" /\ request' = [request EXCEPT ![r].step = "engine"]
      /\ last_start' = [last_start EXCEPT ![v] = now]
      /\ starts' = Append(starts, [workflow |-> v, at |-> now])
      /\ UNCHANGED <<time, racing>>
  BY DEF InsertStart, Goes
<1>2. /\ RequestOK(r) /\ request = [o \in HttpRequests |-> request[o]] /\ time \in Nat
      /\ now \in Nat /\ now <= time /\ v \in Startable
      /\ last_start \in [Startable -> Nat \cup {NoTime}] /\ starts \in Seq(S)
  BY <1>1 DEF HttpInv, HttpTypes, RequestOK, CheckSteps
<1>3. /\ request'[r] = [step |-> "engine", path |-> request[r].path, token |-> request[r].token,
                        workflow |-> v, now |-> now]
      /\ \A o \in HttpRequests \ {r} : request'[o] = request[o]
      /\ request' = [o \in HttpRequests |-> request'[o]]
  BY <1>1, <1>2 DEF RequestOK
<1>4. last_start'[v] = now /\ \A w \in Startable \ {v} : last_start'[w] = last_start[w]
  BY <1>1, <1>2
<1>5. /\ starts' \in Seq(S) /\ n \notin DOMAIN starts /\ DOMAIN starts' = DOMAIN starts \cup {n}
      /\ \A i \in DOMAIN starts : starts'[i] = starts[i] /\ i < n
      /\ starts'[n] = [workflow |-> v, at |-> now]
  <2>1. [workflow |-> v, at |-> now] \in S
    BY <1>2
  <2> HIDE DEF S
  <2>2. Len(starts) \in Nat /\ DOMAIN starts = 1 .. Len(starts)
    BY <1>2, LenProperties
  <2> QED BY <1>1, <1>2, <2>1, <2>2, AppendProperties
<1>6. HttpTypes'
  <2>1. ASSUME NEW o \in HttpRequests PROVE RequestOK(o)'
    <3>1. CASE o = r
      BY <1>1, <1>2, <1>3, <3>1 DEF RequestOK, CheckSteps
    <3>2. CASE o # r
      BY <1>1, <1>3, <3>2 DEF RequestOK, HttpInv, HttpTypes
    <3> QED BY <3>1, <3>2
  <2>2. last_start' \in [Startable -> Nat \cup {NoTime}]
    BY <1>1, <1>2
  <2>3. \A w \in Startable : last_start'[w] # NoTime => last_start'[w] <= time
    BY <1>2, <1>4 DEF HttpInv, HttpTypes
  <2> QED BY <1>1, <1>2, <1>3, <1>5, <2>1, <2>2, <2>3 DEF HttpTypes
<1>7. /\ \A i \in DOMAIN starts : starts[i].workflow \in Startable /\ starts[i].at \in Nat
      /\ W \in Nat
  BY StartTimes, HttpAssumption DEF HttpInv, W
<1>8. ASSUME v \notin racing
      PROVE  /\ \A i \in PastStarts(v) : starts[i].at + W <= now
             /\ \A o \in BeingChecked(v) : o = r
  <2>1. r \in BeingChecked(v)
    BY <1>1 DEF BeingChecked
  <2>2. CheckOK(v, r) /\ \A o \in BeingChecked(v) : o = r
    BY <1>2, <1>8, <2>1 DEF HttpInv, CheckedAlone
  <2> QED BY <1>1, <2>2 DEF CheckOK
<1>9. ASSUME NEW w \in Startable, w \notin racing PROVE CheckedAlone(w)'
  <2>1. CASE w = v
    <3>1. BeingChecked(w)' = {}
      BY <1>3, <1>8, <1>9, <2>1 DEF BeingChecked
    <3>2. \A i \in PastStarts(w)' : i \in PastStarts(w) \/ i = n
      BY <1>5 DEF PastStarts
    <3>3. \A i \in PastStarts(w)' : starts'[i].at <= now
      <4>1. starts'[n].at <= now
        BY <1>2, <1>5
      <4>2. \A i \in PastStarts(w) : starts'[i].at <= now
        BY <1>2, <1>5, <1>7, <1>8, <1>9, <2>1 DEF PastStarts
      <4> QED BY <3>2, <4>1, <4>2
    <3>4. EntryOK(w)'
      BY <1>2, <1>4, <2>1, <3>3, HttpAssumption DEF EntryOK
    <3> QED BY <3>1, <3>4 DEF CheckedAlone
  <2>2. CASE w # v
    <3>1. /\ EntryOK(w) /\ \A o \in BeingChecked(w) : CheckOK(w, o)
          /\ \A d, o \in BeingChecked(w) : d = o
      BY <1>9 DEF HttpInv, CheckedAlone
    <3>2. PastStarts(w)' = PastStarts(w) /\ \A i \in PastStarts(w) : starts'[i] = starts[i]
      BY <1>5, <2>2 DEF PastStarts
    <3>3. /\ BeingChecked(w)' \subseteq BeingChecked(w)
          /\ \A o \in BeingChecked(w)' : request'[o] = request[o]
      BY <1>3, <2>2 DEF BeingChecked
    <3>4. EntryOK(w)' /\ last_start'[w] = last_start[w]
      BY <1>1, <1>4, <2>2, <3>1, <3>2 DEF EntryOK
    <3>5. \A o \in BeingChecked(w)' : CheckOK(w, o)'
      BY <3>1, <3>2, <3>3, <3>4 DEF CheckOK
    <3> QED BY <3>1, <3>3, <3>4, <3>5 DEF CheckedAlone
  <2> QED BY <2>1, <2>2
<1>10. StartsSpaced'
  <2> SUFFICES ASSUME NEW i \in DOMAIN starts', NEW j \in DOMAIN starts', i < j,
                      starts'[i].workflow = starts'[j].workflow, starts'[i].workflow \notin racing
               PROVE  starts'[j].at - starts'[i].at >= START_RATE_LIMIT_WINDOW
    BY <1>1 DEF StartsSpaced
  <2>1. n \in Nat /\ DOMAIN starts \subseteq Nat
    <3> HIDE DEF S
    <3> QED BY <1>2, LenProperties
  <2>2. i \in DOMAIN starts
    BY <1>5, <2>1
  <2>3. CASE j \in DOMAIN starts
    BY <1>5, <2>2, <2>3 DEF HttpInv, StartsSpaced
  <2>4. CASE j = n
    <3>1. starts[i].workflow = v /\ v \notin racing /\ starts'[i] = starts[i] /\ starts'[j].at = now
      BY <1>5, <2>2, <2>4
    <3>2. starts[i].at + W <= now
      BY <1>8, <2>2, <3>1 DEF PastStarts
    <3> QED BY <1>2, <1>7, <2>2, <3>1, <3>2 DEF W
  <2> QED BY <1>5, <2>3, <2>4
<1> QED BY <1>1, <1>6, <1>9, <1>10 DEF HttpInv, CheckedAlone

LEMMA NextHttpInv == HttpInv /\ [HttpNext]_httpVars => HttpInv'
<1> SUFFICES ASSUME HttpInv, [HttpNext]_httpVars PROVE HttpInv'
  OBVIOUS
<1>1. CASE UNCHANGED httpVars
  <2>1. time' \in Nat /\ time <= time' /\ request' = [r \in HttpRequests |-> request'[r]]
    BY <1>1 DEF httpVars, HttpInv, HttpTypes
  <2> QED BY <1>1, <2>1, LimiterUnconcerned DEF httpVars
<1>2. CASE HttpNext
  BY <1>2, TimePassesOK, ArriveOK, OutsideOfCheckOK, CheckBeginsOK, SweepStartsOK, LookUpStartOK,
     InsertStartOK, LeaveHttpOK DEF HttpNext
<1> QED BY <1>1, <1>2

\* Two admitted starts of a workflow are a window apart, however many workflows and
\* requests there are and wherever a sweep falls, as long as no two checks of that
\* workflow overlap and no sweep of another request takes its entry during one.
THEOREM StartsSpacedAlways == HttpSpec => []StartsSpaced
<1>1. HttpInv => StartsSpaced
  BY DEF HttpInv
<1> QED BY <1>1, InitHttpInv, NextHttpInv, PTL DEF HttpSpec

(***************************************************************************)
(* Budgets                                                                 *)
(***************************************************************************)
IsBudget(x) ==
  /\ x = [k \in DOMAIN x |-> x[k]]
  /\ DOMAIN x = {"workflow", "period", "limit", "current", "reset_at"}
  /\ x.limit \in Nat /\ x.current \in Nat

IsRun(x) ==
  x.state # "new" => /\ x = [k \in DOMAIN x |-> x[k]] /\ DOMAIN x = {"state", "workflow", "cost"}
                     /\ x.cost \in Nat

RunsOK == run = [r \in Runs |-> run[r]] /\ \A r \in Runs : IsRun(run[r])

\* The copy that an update is going to write is compared with its limit only then.
BudgetInv ==
  /\ budget = [b \in BudgetIds |-> budget[b]]
  /\ \A b \in Existing : IsBudget(budget[b])
  /\ editing # NoBudget => editing.id \in BudgetIds /\ IsBudget(editing.record)
  /\ RunsOK /\ NeverOverdrawn

LEMMA InitBudgetInv == BudgetsInit => BudgetInv
<1> SUFFICES ASSUME BudgetsInit PROVE BudgetInv
  OBVIOUS
<1>1. ASSUME NEW b \in Existing PROVE IsBudget(budget[b]) /\ budget[b].current <= budget[b].limit
  <2>1. b \in BudgetIds /\ budget[b] # NoBudget
    BY <1>1 DEF Existing
  <2>2. PICK w \in Workflows \cup {NoBudget}, p \in Periods, l \in Limits :
          budget[b] = [workflow |-> w, period |-> p, limit |-> l, current |-> 0, reset_at |-> p]
    BY <2>1 DEF BudgetsInit
  <2> QED BY <2>2, BudgetsAssumption DEF IsBudget
<1>2. NeverOverdrawn
  BY <1>1 DEF NeverOverdrawn
<1>3. RunsOK
  BY DEF BudgetsInit, RunsOK, IsRun
<1> QED BY <1>1, <1>2, <1>3 DEF BudgetsInit, BudgetInv

\* Rolling over keeps the limit, and with it the promise.
LEMMA RolledOverFacts ==
  ASSUME NEW x, IsBudget(x)
  PROVE  /\ IsBudget(RolledOver(x)) /\ RolledOver(x).limit = x.limit
         /\ x.current <= x.limit => RolledOver(x).current <= RolledOver(x).limit
<1>1. CASE x.reset_at > today
  BY <1>1 DEF RolledOver
<1>2. CASE ~(x.reset_at > today)
  <2> DEFINE r == next_reset_after(x.reset_at, x.period)
             y == [x EXCEPT !.current = 0, !.reset_at = r]
  <2>1. RolledOver(x) = y
    BY <1>2 DEF RolledOver
  <2> HIDE DEF r
  <2>2. IsBudget(y) /\ y.limit = x.limit /\ y.current = 0
    BY DEF IsBudget
  <2>3. 0 <= x.limit
    BY DEF IsBudget
  <2> QED BY <2>1, <2>2, <2>3
<1> QED BY <1>1, <1>2

\* A transaction that leaves every budget it covers well formed and within its limit,
\* if it was before, and no other one changed.
LEMMA Transaction ==
  ASSUME BudgetInv, UNCHANGED <<editing, unsure>>, RunsOK', NEW C \in SUBSET Existing, NEW f,
         budget' = [b \in BudgetIds |-> IF b \in C THEN f[b] ELSE budget[b]],
         \A b \in C : IsBudget(f[b]) /\ (budget[b].current <= budget[b].limit => f[b].current <= f[b].limit)
  PROVE  BudgetInv'
<1>1. ASSUME NEW b \in Existing'
      PROVE  IsBudget(budget'[b]) /\ (b \notin unsure => budget'[b].current <= budget'[b].limit)
  <2>1. b \in BudgetIds /\ budget'[b] # NoBudget
    BY <1>1 DEF Existing
  <2>2. CASE b \in C
    BY <2>1, <2>2 DEF BudgetInv, NeverOverdrawn
  <2>3. CASE b \notin C
    BY <2>1, <2>3 DEF BudgetInv, NeverOverdrawn, Existing
  <2> QED BY <2>2, <2>3
<1> QED BY <1>1 DEF BudgetInv, NeverOverdrawn

LEMMA CoveringExists == ASSUME NEW w PROVE Covering(w) \subseteq Existing
  BY DEF Covering

\* A run moves on to x.
LEMMA RunMoves ==
  ASSUME BudgetInv, NEW r \in Runs, NEW x, IsRun(x), run' = [run EXCEPT ![r] = x]
  PROVE  RunsOK'
  BY DEF BudgetInv, RunsOK

LEMMA RunEnds ==
  ASSUME BudgetInv, NEW r \in Runs, run[r].state = "recording",
         run' = [run EXCEPT ![r].state = "done", ![r].cost = 0]
  PROVE  RunsOK' /\ run[r].cost \in Nat
<1> DEFINE x == [run[r] EXCEPT !.state = "done", !.cost = 0]
<1>1. IsRun(run[r])
  BY DEF BudgetInv, RunsOK
<1>2. IsRun(x)
  BY <1>1 DEF IsRun
<1>3. run' = [run EXCEPT ![r] = x]
  OBVIOUS
<1> HIDE DEF x
<1> QED BY <1>1, <1>2, <1>3, RunMoves DEF IsRun

LEMMA StartRunBudgets == ASSUME BudgetInv, NEW r \in Runs, NEW w, StartRun(r, w) PROVE BudgetInv'
<1> DEFINE f == [b \in BudgetIds |-> RolledOver(budget[b])]
<1>1. budget' = [b \in BudgetIds |-> IF b \in Covering(w) THEN f[b] ELSE budget[b]]
  BY DEF StartRun, CheckedBudgets
<1>2. \A b \in Covering(w) : IsBudget(f[b]) /\ (budget[b].current <= budget[b].limit => f[b].current <= f[b].limit)
  BY CoveringExists, RolledOverFacts DEF BudgetInv, Existing
<1>3. UNCHANGED <<editing, unsure>>
  BY DEF StartRun
<1>4. RunsOK'
  <2> DEFINE x == [state |-> IF Admits(CheckedBudgets(w), w) THEN "running" ELSE "refused",
                   workflow |-> w, cost |-> 0]
  <2>1. IsRun(x)
    BY DEF IsRun
  <2>2. run' = [run EXCEPT ![r] = x]
    BY DEF StartRun
  <2> HIDE DEF x
  <2> QED BY <2>1, <2>2, RunMoves
<1> HIDE DEF f
<1> QED BY <1>1, <1>2, <1>3, <1>4, CoveringExists, Transaction

LEMMA RecordCostBudgets == ASSUME BudgetInv, NEW r \in Runs, RecordCost(r) PROVE BudgetInv'
<1> DEFINE w == run[r].workflow
           cost == run[r].cost
           bs == CheckedBudgets(w)
           f == [b \in BudgetIds |-> [bs[b] EXCEPT !.current = @ + cost]]
<1>0. UNCHANGED <<editing, unsure>> /\ RunsOK' /\ cost \in Nat
  BY RunEnds DEF RecordCost
<1>1. CASE Fits(bs, w, cost)
  <2>1. budget' = [b \in BudgetIds |-> IF b \in Covering(w) THEN f[b] ELSE budget[b]]
    BY <1>1 DEF RecordCost
  <2>2. ASSUME NEW b \in Covering(w) PROVE IsBudget(f[b]) /\ f[b].current <= f[b].limit
    <3>1. b \in BudgetIds /\ IsBudget(budget[b]) /\ bs[b] = RolledOver(budget[b])
      BY <2>2, CoveringExists DEF BudgetInv, Existing, CheckedBudgets
    <3>2. IsBudget(bs[b]) /\ bs[b].current + cost <= bs[b].limit
      BY <1>1, <2>2, <3>1, RolledOverFacts DEF Fits
    <3> HIDE DEF bs, cost
    <3>3. f[b] = [bs[b] EXCEPT !.current = bs[b].current + cost]
      BY <3>1, <3>2 DEF IsBudget
    <3> HIDE DEF f
    <3>4. /\ f[b].current = bs[b].current + cost /\ f[b].limit = bs[b].limit
          /\ DOMAIN f[b] = DOMAIN bs[b] /\ f[b] = [k \in DOMAIN f[b] |-> f[b][k]]
      BY <3>2, <3>3 DEF IsBudget
    <3>5. f[b].current \in Nat /\ f[b].limit \in Nat
      BY <1>0, <3>2, <3>4 DEF IsBudget
    <3> QED BY <3>2, <3>4, <3>5 DEF IsBudget
  <2> HIDE DEF f
  <2> QED BY <1>0, <2>1, <2>2, CoveringExists, Transaction
<1>2. CASE ~Fits(bs, w, cost)
  BY <1>0, <1>2 DEF RecordCost, BudgetInv, NeverOverdrawn, Existing
<1> QED BY <1>1, <1>2

LEMMA WriteBudgetBudgets == ASSUME BudgetInv, WriteBudget PROVE BudgetInv'
<1> DEFINE i == editing.id
           new == editing.record
<1>1. editing' = NoBudget /\ i \in BudgetIds /\ IsBudget(new)
  BY DEF BudgetInv, WriteBudget
<1>2. CASE budget[i] = NoBudget
  BY <1>1, <1>2 DEF WriteBudget, BudgetInv, NeverOverdrawn, Existing, RunsOK
<1>3. CASE budget[i] # NoBudget
  <2>1. /\ budget' = [budget EXCEPT ![i] = new] /\ unsure \subseteq unsure'
        /\ new.current > new.limit => i \in unsure'
    BY <1>3 DEF WriteBudget
  <2> HIDE DEF new, i
  <2>2. ASSUME NEW b \in Existing'
        PROVE  IsBudget(budget'[b]) /\ (b \notin unsure' => budget'[b].current <= budget'[b].limit)
    <3>1. b \in BudgetIds /\ budget'[b] # NoBudget
      BY <2>2 DEF Existing
    <3>2. CASE b = i
      BY <1>1, <2>1, <3>1, <3>2 DEF BudgetInv, IsBudget
    <3>3. CASE b # i
      BY <2>1, <3>1, <3>3 DEF BudgetInv, NeverOverdrawn, Existing
    <3> QED BY <3>2, <3>3
  <2>3. budget' = [b \in BudgetIds |-> budget'[b]]
    BY <2>1 DEF BudgetInv
  <2>4. RunsOK'
    BY DEF BudgetInv, RunsOK, WriteBudget
  <2> QED BY <1>1, <2>2, <2>3, <2>4 DEF BudgetInv, NeverOverdrawn
<1> QED BY <1>2, <1>3

LEMMA EndpointsBudgets ==
  ASSUME BudgetInv, NEW b \in BudgetIds, NEW w, NEW p, NEW l \in Limits,
         CreateBudget(b, w, p, l) \/ ReadBudget(b, w, p, l)
  PROVE  BudgetInv'
<1>0. RunsOK'
  BY DEF BudgetInv, RunsOK, CreateBudget, ReadBudget
<1>1. CASE CreateBudget(b, w, p, l)
  <2> DEFINE x == [workflow |-> w, period |-> p, limit |-> l, current |-> 0, reset_at |-> today + p]
  <2>1. IsBudget(x) /\ x.current <= x.limit
    BY BudgetsAssumption DEF IsBudget
  <2>2. budget' = [budget EXCEPT ![b] = x] /\ unsure' = unsure \ {b} /\ editing' = editing
    BY <1>1 DEF CreateBudget
  <2> HIDE DEF x
  <2>3. ASSUME NEW k \in Existing'
        PROVE  IsBudget(budget'[k]) /\ (k \notin unsure' => budget'[k].current <= budget'[k].limit)
    <3>1. k \in BudgetIds /\ budget'[k] # NoBudget
      BY <2>3 DEF Existing
    <3>2. CASE k = b
      BY <2>1, <2>2, <3>2 DEF BudgetInv
    <3>3. CASE k # b
      BY <2>2, <3>1, <3>3 DEF BudgetInv, NeverOverdrawn, Existing
    <3> QED BY <3>2, <3>3
  <2>4. budget' = [k \in BudgetIds |-> budget'[k]]
    BY <2>2 DEF BudgetInv
  <2> QED BY <1>0, <2>2, <2>3, <2>4 DEF BudgetInv, NeverOverdrawn
<1>2. CASE ReadBudget(b, w, p, l)
  <2> DEFINE x == Updated(budget[b], w, p, l)
  <2>1. IsBudget(budget[b])
    BY <1>2 DEF BudgetInv, ReadBudget, Existing
  <2>2. IsBudget(x)
    BY <2>1, BudgetsAssumption DEF IsBudget, Updated
  <2>3. editing'.id = b /\ editing'.record = x /\ UNCHANGED <<budget, unsure>>
    BY <1>2 DEF ReadBudget
  <2> HIDE DEF x
  <2> QED BY <1>0, <2>2, <2>3 DEF BudgetInv, NeverOverdrawn, Existing
<1> QED BY <1>1, <1>2

LEMMA NextBudgetInv == BudgetInv /\ [BudgetsNext]_budgetVars => BudgetInv'
<1> SUFFICES ASSUME BudgetInv, [BudgetsNext]_budgetVars PROVE BudgetInv'
  OBVIOUS
<1>1. ASSUME UNCHANGED <<budget, editing, unsure>>, RunsOK' PROVE BudgetInv'
  BY <1>1 DEF BudgetInv, NeverOverdrawn, Existing
<1>2. CASE Day \/ UNCHANGED budgetVars
  BY <1>1, <1>2 DEF Day, budgetVars, BudgetInv, RunsOK
<1>3. ASSUME NEW r \in Runs, NEW cost \in Costs, CompleteRun(r, cost) PROVE BudgetInv'
  <2> DEFINE room == Cardinality({o \in Runs : run[o].state = "recording"}) < MaxWrites
             x == [run[r] EXCEPT !.state = IF cost > 0 /\ room THEN "recording" ELSE "done",
                                 !.cost = IF room THEN cost ELSE 0]
  <2>1. run' = [run EXCEPT ![r] = x] /\ run[r].state = "running" /\ UNCHANGED <<budget, editing, unsure>>
    BY <1>3 DEF CompleteRun
  <2>2. IsRun(run[r])
    BY DEF BudgetInv, RunsOK
  <2> HIDE DEF room
  <2>3. IsRun(x)
    BY <2>1, <2>2, BudgetsAssumption DEF IsRun
  <2> HIDE DEF x
  <2> QED BY <1>1, <2>1, <2>3, RunMoves
<1>4. ASSUME NEW r \in Runs, RecordFails(r) PROVE BudgetInv'
  BY <1>1, <1>4, RunEnds DEF RecordFails
<1>5. ASSUME NEW b \in BudgetIds, DeleteBudget(b) PROVE BudgetInv'
  <2>1. budget' = [budget EXCEPT ![b] = NoBudget] /\ UNCHANGED <<editing, unsure, run>>
    BY <1>5 DEF DeleteBudget
  <2>2. \A k \in Existing' : k \in Existing /\ budget'[k] = budget[k]
    BY <2>1 DEF BudgetInv, Existing
  <2>3. budget' = [k \in BudgetIds |-> budget'[k]] /\ RunsOK'
    BY <2>1 DEF BudgetInv, RunsOK
  <2> QED BY <2>1, <2>2, <2>3 DEF BudgetInv, NeverOverdrawn
<1> QED
  BY <1>2, <1>3, <1>4, <1>5, EndpointsBudgets, WriteBudgetBudgets, StartRunBudgets, RecordCostBudgets
     DEF BudgetsNext

\* When a budget's period began, and what was added to it since
Timed(x) ==
  /\ x.period \in Nat \ {0} /\ x.reset_at \in Nat
  /\ x.period <= x.reset_at /\ x.reset_at - x.period <= today

\* Nothing has been added after the period whose end the budget shows, so a budget that
\* rolls over late starts again from nothing.
Accounts(x, added) ==
  /\ x.current = added[MaxDays + 1] - added[x.reset_at - x.period]
  /\ \A d \in 0..(MaxDays + 1) : d >= x.reset_at => added[d] = added[MaxDays + 1]

Added == [0..(MaxDays + 1) -> Nat]

\* The record an update is going to write goes on from the one it has read, or starts
\* a new period.
UpdateOK(old, new) ==
  /\ Timed(old) /\ Timed(new)
  /\ \/ new.period = old.period /\ new.current = old.current /\ new.reset_at = old.reset_at
     \/ new.period = old.period /\ new.current = 0 /\ old.reset_at <= new.reset_at - new.period
     \/ new.period # old.period /\ new.current = 0

LedgerOK ==
  /\ today \in 0..MaxDays
  /\ ledger \in [BudgetIds -> Added]
  /\ \A b \in BudgetIds : \A d \in 0..(MaxDays + 1) : d > today => ledger[b][d] = ledger[b][MaxDays + 1]

AmountInv ==
  /\ LedgerOK
  /\ \A b \in Existing : Timed(budget[b])
  /\ \A b \in Existing \ unsure : Accounts(budget[b], ledger[b])
  /\ editing # NoBudget => UpdateOK(editing.old, editing.record)

LEMMA DivFacts ==
  ASSUME NEW x \in Nat, NEW p \in Nat \ {0}
  PROVE  /\ x \div p \in Nat /\ p * (x \div p) <= x /\ x < p * (x \div p) + p
         /\ p * ((x \div p) + 1) = p * (x \div p) + p /\ p * (x \div p) \in Nat
  OBVIOUS

\* next_reset_after: the end of the period in which today lies.
LEMMA NextReset ==
  ASSUME NEW reset_at \in Nat, NEW period \in Nat \ {0}, today \in Nat, reset_at <= today
  PROVE  LET r == next_reset_after(reset_at, period) IN
         /\ r \in Nat /\ today < r /\ r - period <= today /\ reset_at <= r - period /\ period <= r
<1> DEFINE x == today - reset_at
           q == x \div period
<1>1. x \in Nat /\ reset_at + x = today
  OBVIOUS
<1> HIDE DEF x
<1>2. /\ q \in Nat /\ period * q <= x /\ x < period * q + period /\ period * (q + 1) = period * q + period
      /\ period * q \in Nat
  BY <1>1, DivFacts
<1>3. next_reset_after(reset_at, period) = reset_at + period * (q + 1)
  BY DEF next_reset_after, x
<1> HIDE DEF q
<1> DEFINE m == period * q
<1>4. m \in Nat /\ m <= x /\ x < m + period /\ next_reset_after(reset_at, period) = reset_at + (m + period)
  BY <1>2, <1>3
<1> HIDE DEF m
<1> QED
  BY <1>1, <1>4

LEMMA RolledOverAccounts ==
  ASSUME NEW x, IsBudget(x), Timed(x), today \in 0..MaxDays, NEW added \in Added
  PROVE  /\ Timed(RolledOver(x)) /\ today < RolledOver(x).reset_at
         /\ Accounts(x, added) => Accounts(RolledOver(x), added)
<1>0. today \in Nat /\ MaxDays \in Nat
  BY BudgetsAssumption
<1>1. CASE x.reset_at > today
  BY <1>0, <1>1 DEF RolledOver, Timed
<1>2. CASE ~(x.reset_at > today)
  <2> DEFINE r == next_reset_after(x.reset_at, x.period)
             y == [x EXCEPT !.current = 0, !.reset_at = r]
  <2>1. RolledOver(x) = y
    BY <1>2 DEF RolledOver
  <2>2. r \in Nat /\ today < r /\ r - x.period <= today /\ x.reset_at <= r - x.period /\ x.period <= r
    BY <1>0, <1>2, NextReset DEF Timed
  <2> HIDE DEF r
  <2>3. y.current = 0 /\ y.reset_at = r /\ y.period = x.period
    BY DEF IsBudget
  <2> HIDE DEF y
  <2>4. Timed(y) /\ today < y.reset_at
    BY <2>2, <2>3 DEF Timed
  <2>5. ASSUME Accounts(x, added) PROVE Accounts(y, added)
    <3>1. r - x.period \in 0..(MaxDays + 1) /\ r - x.period >= x.reset_at /\ r >= x.reset_at
      BY <2>2, <1>0 DEF Timed
    <3>2. added[r - x.period] = added[MaxDays + 1]
      BY <3>1, <2>5 DEF Accounts
    <3>3. added[MaxDays + 1] \in Nat
      BY <1>0 DEF Added
    <3>4. \A d \in 0..(MaxDays + 1) : d >= r => d >= x.reset_at
      BY <2>2, <3>1, <1>0 DEF Timed
    <3> QED
      BY <2>3, <3>2, <3>3, <3>4, <2>5 DEF Accounts
  <2> QED
    BY <2>1, <2>4, <2>5
<1> QED
  BY <1>1, <1>2

LEMMA NothingAccounts ==
  ASSUME NEW x, x.current = 0, Timed(x), today \in 0..MaxDays
  PROVE  NothingAdded \in Added /\ Accounts(x, NothingAdded)
<1>1. today \in Nat /\ MaxDays \in Nat
  BY BudgetsAssumption
<1>2. x.reset_at - x.period \in 0..(MaxDays + 1) /\ MaxDays + 1 \in 0..(MaxDays + 1)
  BY <1>1 DEF Timed
<1> QED
  BY <1>1, <1>2 DEF Accounts, NothingAdded, Added

LEMMA InitAmountInv == BudgetsInit => AmountInv
<1> SUFFICES ASSUME BudgetsInit PROVE AmountInv
  OBVIOUS
<1>1. today = 0 /\ today \in 0..MaxDays /\ editing = NoBudget /\ ledger = [b \in BudgetIds |-> NothingAdded]
  BY BudgetsAssumption DEF BudgetsInit
<1>2. NothingAdded \in Added /\ \A d \in 0..(MaxDays + 1) : NothingAdded[d] = 0
  BY DEF NothingAdded, Added
<1>3. LedgerOK
  BY <1>1, <1>2, BudgetsAssumption DEF LedgerOK
<1>4. ASSUME NEW b \in Existing PROVE Timed(budget[b]) /\ Accounts(budget[b], ledger[b])
  <2>1. b \in BudgetIds /\ budget[b] # NoBudget
    BY DEF Existing
  <2>2. PICK w \in Workflows \cup {NoBudget}, p \in Periods, l \in Limits :
          budget[b] = [workflow |-> w, period |-> p, limit |-> l, current |-> 0, reset_at |-> p]
    BY <2>1 DEF BudgetsInit
  <2>3. Timed(budget[b]) /\ budget[b].current = 0
    BY <2>2, <1>1, BudgetsAssumption DEF Timed
  <2> QED
    BY <1>1, <2>1, <2>3, NothingAccounts
<1> QED
  BY <1>1, <1>3, <1>4 DEF AmountInv

LEMMA AmountsUnchanged ==
  ASSUME AmountInv, UNCHANGED <<today, budget, editing, unsure, ledger>> PROVE AmountInv'
  BY DEF AmountInv, LedgerOK, Timed, UpdateOK, Existing

LEMMA UpdateUnchanged ==
  ASSUME AmountInv, UNCHANGED <<today, editing>>
  PROVE  editing' # NoBudget => UpdateOK(editing.old, editing.record)'
  BY DEF AmountInv, Timed, UpdateOK

LEMMA StartRunAmounts ==
  ASSUME BudgetInv, AmountInv, NEW r, NEW w, StartRun(r, w) PROVE AmountInv'
<1>1. /\ budget' = [b \in BudgetIds |-> IF b \in Covering(w) THEN RolledOver(budget[b]) ELSE budget[b]]
      /\ UNCHANGED <<today, editing, ledger, unsure>>
  BY DEF StartRun, CheckedBudgets
<1>2. ASSUME NEW b \in Existing'
      PROVE  Timed(budget'[b]) /\ (b \notin unsure => Accounts(budget'[b], ledger[b]))
  <2>1. b \in BudgetIds /\ budget'[b] # NoBudget
    BY DEF Existing
  <2>2. CASE b \in Covering(w)
    <3>1. b \in Existing /\ budget'[b] = RolledOver(budget[b]) /\ IsBudget(budget[b]) /\ Timed(budget[b])
          /\ ledger[b] \in Added
      BY <1>1, <2>1, <2>2, CoveringExists DEF BudgetInv, AmountInv, LedgerOK
    <3> QED
      BY <3>1, RolledOverAccounts DEF AmountInv, LedgerOK
  <2>3. CASE b \notin Covering(w)
    BY <1>1, <2>1, <2>3 DEF AmountInv, Existing
  <2> QED
    BY <2>2, <2>3
<1>3. LedgerOK'
  BY <1>1 DEF AmountInv, LedgerOK
<1>4. \A b \in Existing' : Timed(budget[b])'
  BY <1>1, <1>2 DEF Timed
<1> QED
  BY <1>1, <1>2, <1>3, <1>4, UpdateUnchanged DEF AmountInv

LEMMA AddedAccounts ==
  ASSUME NEW x, IsBudget(x), Timed(x), today \in 0..MaxDays, today < x.reset_at,
         NEW added \in Added, Accounts(x, added), NEW cost \in Nat
  PROVE  Accounts([x EXCEPT !.current = @ + cost], AddedToday(added, cost))
<1> DEFINE y == [x EXCEPT !.current = @ + cost]
           new == AddedToday(added, cost)
<1>1. today \in Nat /\ MaxDays \in Nat
  BY BudgetsAssumption
<1>2. y.current = x.current + cost /\ y.reset_at = x.reset_at /\ y.period = x.period
  BY DEF IsBudget
<1> HIDE DEF y
<1>3. \A d \in 0..(MaxDays + 1) : new[d] = IF d > today THEN added[d] + cost ELSE added[d]
  BY DEF AddedToday
<1> HIDE DEF new
<1>4. \A d \in 0..(MaxDays + 1) : added[d] \in Nat
  BY DEF Added
<1>5. MaxDays + 1 \in 0..(MaxDays + 1) /\ MaxDays + 1 > today
      /\ x.reset_at - x.period \in 0..(MaxDays + 1) /\ ~(x.reset_at - x.period > today)
  BY <1>1 DEF Timed
<1>6. new[MaxDays + 1] = added[MaxDays + 1] + cost /\ new[x.reset_at - x.period] = added[x.reset_at - x.period]
  BY <1>3, <1>5
<1>7. y.current = new[MaxDays + 1] - new[y.reset_at - y.period]
  BY <1>2, <1>4, <1>5, <1>6 DEF Accounts
<1>8. ASSUME NEW d \in 0..(MaxDays + 1), d >= y.reset_at PROVE new[d] = new[MaxDays + 1]
  <2>1. d > today
    BY <1>1, <1>2, <1>8 DEF Timed
  <2>2. added[d] = added[MaxDays + 1]
    BY <1>2, <1>8 DEF Accounts
  <2> QED
    BY <1>3, <1>6, <2>1, <2>2
<1>9. Accounts(y, new)
  BY <1>7, <1>8 DEF Accounts
<1> QED
  BY <1>9 DEF y, new

LEMMA AddedLedger ==
  ASSUME NEW added \in Added, NEW cost \in Nat, today \in 0..MaxDays,
         \A d \in 0..(MaxDays + 1) : d > today => added[d] = added[MaxDays + 1]
  PROVE  /\ AddedToday(added, cost) \in Added
         /\ \A d \in 0..(MaxDays + 1) :
              d > today => AddedToday(added, cost)[d] = AddedToday(added, cost)[MaxDays + 1]
<1> DEFINE new == AddedToday(added, cost)
<1>1. today \in Nat /\ MaxDays \in Nat /\ MaxDays + 1 \in 0..(MaxDays + 1) /\ MaxDays + 1 > today
  BY BudgetsAssumption
<1>2. \A d \in 0..(MaxDays + 1) : new[d] = (IF d > today THEN added[d] + cost ELSE added[d]) /\ added[d] \in Nat
  BY DEF AddedToday, Added
<1>3. \A d \in 0..(MaxDays + 1) : new[d] \in Nat
  BY <1>2
<1>4. new \in Added
  BY <1>3 DEF AddedToday, Added
<1> HIDE DEF new
<1> QED
  BY <1>1, <1>2, <1>4 DEF new

LEMMA RecordCostAmounts ==
  ASSUME BudgetInv, AmountInv, NEW r \in Runs, RecordCost(r) PROVE AmountInv'
<1> DEFINE w == run[r].workflow
           cost == run[r].cost
           bs == CheckedBudgets(w)
<1>0. UNCHANGED <<today, editing, unsure>> /\ cost \in Nat
  BY RunEnds DEF RecordCost
<1>1. CASE Fits(bs, w, cost)
  <2>1. /\ budget' = [b \in BudgetIds |-> IF b \in Covering(w) THEN [bs[b] EXCEPT !.current = @ + cost] ELSE budget[b]]
        /\ ledger' = [b \in BudgetIds |-> IF b \in Covering(w) THEN AddedToday(ledger[b], cost) ELSE ledger[b]]
    BY <1>1 DEF RecordCost
  <2>2. \A b \in Covering(w) : b \in BudgetIds /\ bs[b] = RolledOver(budget[b])
    BY DEF CheckedBudgets, Covering, Existing
  <2> HIDE DEF bs, w, cost
  <2>3. LedgerOK'
    <3>1. \A b \in BudgetIds : ledger[b] \in Added
      BY DEF AmountInv, LedgerOK
    <3>2. \A b \in BudgetIds : AddedToday(ledger[b], cost) \in Added
             /\ \A d \in 0..(MaxDays + 1) :
                  d > today => AddedToday(ledger[b], cost)[d] = AddedToday(ledger[b], cost)[MaxDays + 1]
      BY <3>1, <1>0, AddedLedger DEF AmountInv, LedgerOK
    <3>3. ledger' \in [BudgetIds -> Added]
      BY <2>1, <3>1, <3>2
    <3>4. \A b \in BudgetIds : \A d \in 0..(MaxDays + 1) : d > today => ledger'[b][d] = ledger'[b][MaxDays + 1]
      BY <2>1, <3>2 DEF AmountInv, LedgerOK
    <3> QED
      BY <1>0, <3>3, <3>4 DEF AmountInv, LedgerOK
  <2>4. ASSUME NEW b \in Existing'
        PROVE  Timed(budget'[b]) /\ (b \notin unsure => Accounts(budget'[b], ledger'[b]))
    <3>1. b \in BudgetIds /\ budget'[b] # NoBudget
      BY DEF Existing
    <3>2. CASE b \in Covering(w)
      <4> DEFINE x == RolledOver(budget[b])
                 y == [x EXCEPT !.current = @ + cost]
      <4>1. b \in Existing /\ IsBudget(budget[b]) /\ Timed(budget[b]) /\ ledger[b] \in Added /\ today \in 0..MaxDays
        BY <3>2, CoveringExists DEF BudgetInv, AmountInv, LedgerOK, Existing
      <4>2. budget'[b] = y /\ ledger'[b] = AddedToday(ledger[b], cost)
        BY <2>1, <2>2, <3>1, <3>2
      <4>3. IsBudget(x) /\ Timed(x) /\ today < x.reset_at /\ (Accounts(budget[b], ledger[b]) => Accounts(x, ledger[b]))
        BY <4>1, RolledOverFacts, RolledOverAccounts
      <4> HIDE DEF x
      <4>4. Timed(y)
        <5>1. y.reset_at = x.reset_at /\ y.period = x.period
          BY <4>3 DEF IsBudget
        <5> HIDE DEF y
        <5> QED
          BY <4>3, <5>1 DEF Timed
      <4>5. b \notin unsure => Accounts(y, ledger'[b])
        BY <4>1, <4>2, <4>3, <1>0, AddedAccounts DEF AmountInv
      <4> QED
        BY <4>2, <4>4, <4>5
    <3>3. CASE b \notin Covering(w)
      BY <2>1, <3>1, <3>3 DEF AmountInv, Existing
    <3> QED
      BY <3>2, <3>3
  <2> QED
    <3>1. \A b \in Existing' : Timed(budget[b])'
      BY <1>0, <2>4 DEF Timed
    <3> QED
      BY <1>0, <2>3, <2>4, <3>1, UpdateUnchanged DEF AmountInv
<1>2. CASE ~Fits(bs, w, cost)
  <2>1. UNCHANGED <<budget, ledger>>
    BY <1>2 DEF RecordCost
  <2> QED
    BY <1>0, <2>1, AmountsUnchanged
<1> QED
  BY <1>1, <1>2

LEMMA CreateBudgetAmounts ==
  ASSUME BudgetInv, AmountInv, NEW b \in BudgetIds, NEW w, NEW p \in Periods, NEW l, CreateBudget(b, w, p, l)
  PROVE  AmountInv'
<1> DEFINE x == [workflow |-> w, period |-> p, limit |-> l, current |-> 0, reset_at |-> today + p]
<1>1. /\ budget' = [budget EXCEPT ![b] = x] /\ ledger' = [ledger EXCEPT ![b] = NothingAdded]
      /\ unsure' = unsure \ {b} /\ UNCHANGED <<today, editing>>
  BY DEF CreateBudget
<1>2. today \in 0..MaxDays /\ today \in Nat
  BY BudgetsAssumption DEF AmountInv, LedgerOK
<1>3. Timed(x) /\ x.current = 0
  BY <1>2, BudgetsAssumption DEF Timed
<1> HIDE DEF x
<1>4. NothingAdded \in Added /\ Accounts(x, NothingAdded) /\ \A d \in 0..(MaxDays + 1) : NothingAdded[d] = 0
  BY <1>2, <1>3, NothingAccounts DEF NothingAdded
<1>5. LedgerOK'
  BY <1>1, <1>2, <1>4, BudgetsAssumption DEF AmountInv, LedgerOK
<1>6. ASSUME NEW k \in Existing'
      PROVE  Timed(budget'[k]) /\ (k \notin unsure' => Accounts(budget'[k], ledger'[k]))
  <2>1. k \in BudgetIds /\ budget'[k] # NoBudget
    BY DEF Existing
  <2>2. CASE k = b
    BY <1>1, <1>3, <1>4, <2>1, <2>2 DEF BudgetInv, AmountInv, LedgerOK
  <2>3. CASE k # b
    BY <1>1, <2>1, <2>3 DEF BudgetInv, AmountInv, LedgerOK, Existing
  <2> QED
    BY <2>2, <2>3
<1> QED
  BY <1>1, <1>5, <1>6 DEF AmountInv, UpdateOK, Timed

LEMMA ReadBudgetAmounts ==
  ASSUME BudgetInv, AmountInv, NEW b \in BudgetIds, NEW w, NEW p \in Periods, NEW l, ReadBudget(b, w, p, l)
  PROVE  AmountInv'
<1> DEFINE old == budget[b]
           new == Updated(old, w, p, l)
<1>1. /\ editing'.old = old /\ editing'.record = new /\ UNCHANGED <<today, budget, ledger, unsure>>
      /\ b \in Existing
  BY DEF ReadBudget, Existing
<1>2. Timed(old) /\ today \in Nat /\ p \in Nat \ {0}
  BY <1>1, BudgetsAssumption DEF AmountInv, LedgerOK
<1>3. /\ new.period = p
      /\ new.current = IF p # old.period \/ old.reset_at <= today THEN 0 ELSE old.current
      /\ new.reset_at = IF p # old.period THEN today + p
                        ELSE IF old.reset_at <= today THEN next_reset_after(old.reset_at, p)
                        ELSE old.reset_at
  BY DEF Updated
<1> HIDE DEF old, new
<1>4. UpdateOK(old, new)
  <2>1. CASE p # old.period
    BY <1>2, <1>3, <2>1 DEF UpdateOK, Timed
  <2>2. CASE p = old.period /\ old.reset_at <= today
    <3> DEFINE n == next_reset_after(old.reset_at, p)
    <3>1. n \in Nat /\ today < n /\ n - p <= today /\ old.reset_at <= n - p /\ p <= n
      BY <1>2, <2>2, NextReset DEF Timed
    <3>2. new.reset_at = n /\ new.current = 0 /\ new.period = p
      BY <1>3, <2>2
    <3> HIDE DEF n
    <3> QED
      BY <1>2, <2>2, <3>1, <3>2 DEF UpdateOK, Timed
  <2>3. CASE p = old.period /\ ~(old.reset_at <= today)
    BY <1>2, <1>3, <2>3 DEF UpdateOK, Timed
  <2> QED
    BY <2>1, <2>2, <2>3
<1>5. UpdateOK(editing.old, editing.record)'
  BY <1>1, <1>4 DEF UpdateOK, Timed
<1>6. LedgerOK' /\ \A k \in Existing' : Timed(budget[k])'
  BY <1>1 DEF AmountInv, LedgerOK, Timed, Existing
<1> QED
  BY <1>1, <1>5, <1>6 DEF AmountInv, Existing

LEMMA UpdatedAccounts ==
  ASSUME NEW old, NEW new, UpdateOK(old, new), new.period = old.period, today \in 0..MaxDays,
         NEW added \in Added, Accounts(old, added)
  PROVE  Accounts(new, added)
<1>0. today \in Nat /\ MaxDays \in Nat
  BY BudgetsAssumption
<1>1. CASE new.current = old.current /\ new.reset_at = old.reset_at
  BY <1>1 DEF Accounts
<1>2. CASE new.current = 0 /\ old.reset_at <= new.reset_at - new.period
  <2>1. new.reset_at - new.period \in 0..(MaxDays + 1) /\ new.reset_at - new.period >= old.reset_at
        /\ new.reset_at >= old.reset_at
    BY <1>0, <1>2 DEF UpdateOK, Timed
  <2>2. added[new.reset_at - new.period] = added[MaxDays + 1] /\ added[MaxDays + 1] \in Nat
    BY <1>0, <2>1 DEF Accounts, Added
  <2>3. \A d \in 0..(MaxDays + 1) : d >= new.reset_at => d >= old.reset_at
    BY <1>0, <2>1 DEF UpdateOK, Timed
  <2> QED
    BY <1>2, <2>2, <2>3 DEF Accounts
<1> QED
  BY <1>1, <1>2 DEF UpdateOK

LEMMA WriteBudgetAmounts == ASSUME BudgetInv, AmountInv, WriteBudget PROVE AmountInv'
<1> DEFINE i == editing.id
           new == editing.record
           old == editing.old
<1>1. /\ editing # NoBudget /\ editing' = NoBudget /\ today' = today /\ i \in BudgetIds
      /\ UpdateOK(old, new) /\ today \in 0..MaxDays
  BY DEF BudgetInv, AmountInv, LedgerOK, WriteBudget
<1>2. CASE budget[i] = NoBudget
  BY <1>1, <1>2 DEF WriteBudget, AmountInv, LedgerOK, Timed, Existing
<1>3. CASE budget[i] # NoBudget
  <2> DEFINE L == IF new.period = old.period THEN ledger[i] ELSE NothingAdded
  <2>1. /\ budget' = [budget EXCEPT ![i] = new] /\ ledger' = [ledger EXCEPT ![i] = L]
        /\ unsure \subseteq unsure' /\ (i \notin unsure' => budget[i] = old)
    BY <1>3 DEF WriteBudget
  <2> HIDE DEF new, i, old
  <2>2. ledger[i] \in Added /\ \A d \in 0..(MaxDays + 1) : d > today => ledger[i][d] = ledger[i][MaxDays + 1]
    BY <1>1 DEF AmountInv, LedgerOK
  <2>3. NothingAdded \in Added /\ \A d \in 0..(MaxDays + 1) : NothingAdded[d] = 0
    BY DEF NothingAdded, Added
  <2>4. L \in Added /\ \A d \in 0..(MaxDays + 1) : d > today => L[d] = L[MaxDays + 1]
    BY <2>2, <2>3, BudgetsAssumption
  <2>5. i \notin unsure' => Accounts(new, L)
    <3> SUFFICES ASSUME i \notin unsure' PROVE Accounts(new, L)
      OBVIOUS
    <3>1. i \in Existing \ unsure /\ budget[i] = old
      BY <1>1, <1>3, <2>1 DEF Existing
    <3>2. Accounts(old, ledger[i])
      BY <3>1 DEF AmountInv
    <3>3. CASE new.period = old.period
      BY <1>1, <2>2, <3>2, <3>3, UpdatedAccounts
    <3>4. CASE new.period # old.period
      BY <1>1, <3>4, NothingAccounts DEF UpdateOK
    <3> QED
      BY <3>3, <3>4
  <2> HIDE DEF L
  <2>6. LedgerOK'
    BY <1>1, <2>1, <2>4 DEF AmountInv, LedgerOK
  <2>7. ASSUME NEW k \in Existing'
        PROVE  Timed(budget'[k]) /\ (k \notin unsure' => Accounts(budget'[k], ledger'[k]))
    <3>1. k \in BudgetIds /\ budget'[k] # NoBudget
      BY DEF Existing
    <3>2. CASE k = i
      BY <1>1, <2>1, <2>5, <3>1, <3>2 DEF BudgetInv, AmountInv, LedgerOK, UpdateOK
    <3>3. CASE k # i
      BY <2>1, <3>1, <3>3 DEF BudgetInv, AmountInv, LedgerOK, Existing
    <3> QED
      BY <3>2, <3>3
  <2> QED
    BY <1>1, <2>6, <2>7 DEF AmountInv, Timed
<1> QED
  BY <1>2, <1>3

LEMMA NextAmountInv == BudgetInv /\ AmountInv /\ [BudgetsNext]_budgetVars => AmountInv'
<1> SUFFICES ASSUME BudgetInv, AmountInv, [BudgetsNext]_budgetVars PROVE AmountInv'
  OBVIOUS
<1>2. ASSUME Day PROVE AmountInv'
  <2>1. today' = today + 1 /\ today' \in 0..MaxDays /\ UNCHANGED <<budget, editing, unsure, ledger>> /\ today \in Nat
    BY <1>2, BudgetsAssumption DEF Day, AmountInv, LedgerOK
  <2>2. \A d \in 0..(MaxDays + 1) : d > today' => d > today
    BY <2>1
  <2>3. LedgerOK'
    BY <2>1, <2>2 DEF AmountInv, LedgerOK
  <2>4. ASSUME NEW x, Timed(x) PROVE Timed(x)'
    BY <2>1, <2>4 DEF Timed
  <2>5. \A b \in Existing' : Timed(budget[b])'
    BY <2>1, <2>4 DEF AmountInv, Existing, Timed
  <2>6. editing # NoBudget => UpdateOK(editing.old, editing.record)'
    BY <2>1, <2>4 DEF AmountInv, UpdateOK, Timed
  <2> QED
    BY <2>1, <2>3, <2>5, <2>6 DEF AmountInv, Existing
<1>3. ASSUME NEW b \in BudgetIds, DeleteBudget(b) PROVE AmountInv'
  <2>1. budget' = [budget EXCEPT ![b] = NoBudget] /\ UNCHANGED <<today, editing, unsure, ledger>>
    BY <1>3 DEF DeleteBudget
  <2>2. \A k \in Existing' : k \in Existing /\ budget'[k] = budget[k]
    BY <2>1 DEF BudgetInv, Existing
  <2> QED
    BY <2>1, <2>2 DEF AmountInv, LedgerOK, Timed, UpdateOK
<1>4. ASSUME NEW r \in Runs, NEW cost \in Costs, CompleteRun(r, cost) PROVE AmountInv'
  BY <1>4, AmountsUnchanged DEF CompleteRun, RecordFails
<1>5. CASE UNCHANGED budgetVars
  BY <1>5, AmountsUnchanged DEF budgetVars
<1>6. ASSUME NEW r \in Runs, RecordFails(r) PROVE AmountInv'
  BY <1>6, AmountsUnchanged DEF RecordFails
<1> QED
  BY <1>2, <1>3, <1>4, <1>5, <1>6, CreateBudgetAmounts, ReadBudgetAmounts, WriteBudgetAmounts, StartRunAmounts,
     RecordCostAmounts DEF BudgetsNext

\* The amount a budget shows is what was added to it in the current period, and it is
\* never more than the limit, for any days, periods and costs, however late somebody
\* looks at the budget: next_reset_after skips whole periods, so a cost lies in the
\* period that is shown or before it.  Excepted is a budget that an update set back.
THEOREM BudgetsAddUpAlways == BudgetsSpec => []BudgetsAddUp
<1>1. BudgetInv /\ AmountInv => BudgetsAddUp
  <2> SUFFICES ASSUME BudgetInv, AmountInv, NEW b \in Existing \ unsure
               PROVE  budget[b].current = ledger[b][today + 1] - ledger[b][budget[b].reset_at - budget[b].period]
    BY DEF BudgetsAddUp, AmountIsThisPeriods, BudgetInv
  <2>1. today + 1 \in 0..(MaxDays + 1) /\ today + 1 > today /\ b \in BudgetIds
    BY BudgetsAssumption DEF AmountInv, LedgerOK, Existing
  <2> QED
    BY <2>1 DEF AmountInv, LedgerOK, Accounts
<1> QED
  BY <1>1, InitBudgetInv, NextBudgetInv, InitAmountInv, NextAmountInv, PTL DEF BudgetsSpec

(***************************************************************************)
(* Plugins                                                                 *)
(***************************************************************************)
IsManager(x) ==
  x = [k \in DOMAIN x |-> x[k]] /\ DOMAIN x = {"pc", "job", "left", "manifests", "managed"}

InstallSteps == {"extracted", "removed", "renamed", "writing", "written"}
IsInstallRequest(q) ==
  \/ q = Idle
  \/ /\ q = [op |-> q.op, step |-> q.step, name |-> q.name] /\ q.name \in Names
     /\ \/ q.op = "install" /\ q.step \in InstallSteps
        \/ q.op = "uninstall" /\ q.step \in {"checked", "removed"}

PluginTypes ==
  /\ disk \in [Names -> {"absent", "torn", "whole"}] /\ tmp \subseteq Names /\ signals \in Nat
  /\ req = [s \in Slots |-> req[s]] /\ \A s \in Slots : IsInstallRequest(req[s])
  /\ mg = [m \in Managers |-> mg[m]] /\ \A m \in Managers : IsManager(mg[m])

\* What a request that is alone with its plugin has made of the directory.
DirectoryAt(q, d) ==
  /\ q.op = "install" => /\ q.step = "removed" => d = "absent"
                         /\ q.step = "writing" => d = "torn"
                         /\ q.step \in {"renamed", "written"} => d = "whole"
  /\ q.op = "uninstall" => (q.step = "removed" <=> d = "absent")

HandledAlone(n) ==
  n \notin overlap =>
    /\ \A s, o \in Working(n) : s = o
    /\ \A s \in Working(n) : DirectoryAt(req[s], disk[n])
    /\ Working(n) = {} /\ disk[n] = "whole" => n \in schemas

\* From its scan on a worker knows what is installed, or has a signal to handle, or lost one.
Scanned ==
  mg["worker"].pc \in {"spawn", "free"} /\ signals = 0 /\ ~missed =>
    \A n \in Names \ overlap : disk[n] = "whole" /\ Working(n) = {} => n \in mg["worker"].manifests

InstallInv ==
  PluginTypes /\ (\A n \in Names : HandledAlone(n)) /\ Scanned /\ TmpOnlyWhileInstalling

\* A worker starts a plugin at most once between two scans, on one port.
OneEntryEach(w) ==
  /\ \A e, f \in w.left \cup w.managed : e.name = f.name => e = f
  /\ \A e \in w.left \cup w.managed : e.name \in Names
  /\ w.pc # "spawn" => w.left = {}
  /\ w.pc \in {"down", "scan"} => w.managed = {}

IsEntry(e) == e = [name |-> e.name, port |-> e.port]
IsProcess(p) == p = [by |-> p.by, name |-> p.name, port |-> p.port]

ProcessTypes ==
  /\ mg = [m \in Managers |-> mg[m]] /\ tmp \subseteq Names
  /\ \A m \in Managers : IsManager(mg[m]) /\ \A e \in mg[m].left \cup mg[m].managed : IsEntry(e)
  /\ \A p \in procs : IsProcess(p)

\* Every process that answered is called where it listened then, also when it has ended:
\* only a registration of executors changes an address.
AllRouted == \A p \in heard : exec[p.name] = p.port

ProcessInv == ProcessTypes /\ OneEntryEach(mg["worker"]) /\ NoLostProcess /\ AllRouted

LEMMA IdleIsRequest == IsInstallRequest(Idle)
  BY DEF IsInstallRequest

LEMMA ReqFacts ==
  ASSUME NEW q, IsInstallRequest(q)
  PROVE  /\ q.op = "none" <=> q = Idle
         /\ q # Idle => q = [op |-> q.op, step |-> q.step, name |-> q.name] /\ q.name \in Names
  BY DEF IsInstallRequest, Idle, InstallSteps

\* A step of the request in slot s about plugin n, which ends with it (q = Idle) or goes
\* on as q, and leaves the directory as d.
Moves(s, q, n, d) ==
  /\ req[s].op # "none" /\ req[s].name = n /\ IsInstallRequest(q) /\ (q = Idle \/ q.name = n)
  /\ req' = [req EXCEPT ![s] = q] /\ disk' = [disk EXCEPT ![n] = d] /\ overlap' = overlap /\ mg' = mg
  /\ \A k \in Names \ {n} : k \in schemas' <=> k \in schemas
  /\ signals' \in Nat /\ (signals' = 0 => signals = 0) /\ (missed => missed')
  /\ tmp' \subseteq tmp
  /\ n \in tmp' => \/ q # Idle /\ q.op = "install" /\ q.step \in {"extracted", "removed"}
                   \/ \E o \in Working(n) \ {s} : req[o].op = "install" /\ req[o].step \in {"extracted", "removed"}
  /\ n \notin overlap => IF q = Idle THEN /\ d = "whole" => n \in schemas'
                                          /\ d # "whole" \/ signals' # 0 \/ missed'
                          ELSE DirectoryAt(q, d)

LEMMA RequestStep ==
  ASSUME InstallInv, NEW s \in Slots, NEW q, NEW n \in Names, NEW d \in {"absent", "torn", "whole"},
         Moves(s, q, n, d)
  PROVE  InstallInv'
<1> USE DEF Moves
<1>1. PluginTypes
  BY DEF InstallInv
<1>2. PluginTypes'
  BY <1>1 DEF PluginTypes
<1>3. /\ \A o \in Slots \ {s} : req'[o] = req[o]
      /\ req'[s] = q /\ disk'[n] = d /\ \A k \in Names \ {n} : disk'[k] = disk[k]
  BY <1>1 DEF PluginTypes
<1>4. q.op = "none" <=> q = Idle
  BY ReqFacts
<1>5. \A k : k # n => Working(k)' = Working(k)
  BY <1>3, <1>4 DEF Working, Idle
<1>6. s \in Working(n) /\ Working(n)' = IF q = Idle THEN Working(n) \ {s} ELSE Working(n)
  <2>1. s \in Working(n)
    BY DEF Working
  <2>2. CASE q = Idle
    BY <1>3, <1>4, <2>2 DEF Working
  <2>3. CASE q # Idle
    BY <1>3, <1>4, <2>3 DEF Working
  <2> QED BY <2>1, <2>2, <2>3
<1>7. ASSUME NEW k \in Names PROVE HandledAlone(k)'
  <2>0. HandledAlone(k)
    BY <1>7 DEF InstallInv
  <2>1. CASE k # n
    <3>1. s \notin Working(k)
      BY <2>1 DEF Working
    <3>2. \A o \in Working(k) : o \in Slots /\ req'[o] = req[o]
      BY <1>3, <3>1 DEF Working
    <3>3. disk'[k] = disk[k] /\ (k \in schemas' <=> k \in schemas)
      BY <1>3, <1>7, <2>1
    <3> QED BY <2>0, <2>1, <1>5, <3>2, <3>3 DEF HandledAlone, DirectoryAt
  <2>2. CASE k = n /\ n \notin overlap
    <3>1. Working(n) = {s}
      BY <1>6, <2>0, <2>2 DEF HandledAlone
    <3>2. CASE q = Idle
      BY <1>3, <1>6, <2>2, <3>1, <3>2 DEF HandledAlone
    <3>3. CASE q # Idle
      <4>1. Working(n)' = {s}
        BY <1>6, <3>1, <3>3
      <4>2. DirectoryAt(req'[s], disk'[n])
        BY <1>3, <2>2, <3>3
      <4> QED BY <2>2, <4>1, <4>2 DEF HandledAlone
    <3> QED BY <3>2, <3>3
  <2>3. CASE k = n /\ n \in overlap
    BY <2>3 DEF HandledAlone
  <2> QED BY <2>1, <2>2, <2>3
<1>8. Scanned'
  <2> SUFFICES ASSUME mg'["worker"].pc \in {"spawn", "free"}, signals' = 0, ~missed',
                      NEW k \in Names \ overlap, disk'[k] = "whole", Working(k)' = {}
               PROVE  k \in mg["worker"].manifests
    BY DEF Scanned
  <2>1. k # n
    <3> SUFFICES ASSUME k = n PROVE FALSE
      OBVIOUS
    <3>1. q = Idle
      BY <1>6
    <3> QED BY <1>3, <3>1
  <2> QED BY <1>3, <1>5, <2>1 DEF InstallInv, Scanned
<1>9. TmpOnlyWhileInstalling'
  <2> SUFFICES ASSUME NEW k \in tmp'
               PROVE  \E o \in Working(k)' : req'[o].op = "install" /\ req'[o].step \in {"extracted", "removed"}
    BY DEF TmpOnlyWhileInstalling
  <2>1. CASE k # n
    <3>1. PICK o \in Working(k) : req[o].op = "install" /\ req[o].step \in {"extracted", "removed"}
      BY DEF InstallInv, TmpOnlyWhileInstalling
    <3>2. o \in Slots \ {s}
      BY <2>1, <3>1 DEF Working
    <3> QED BY <1>3, <1>5, <2>1, <3>1, <3>2
  <2>2. CASE k = n
    <3>1. CASE q # Idle /\ q.op = "install" /\ q.step \in {"extracted", "removed"}
      BY <1>3, <1>6, <2>2, <3>1
    <3>2. CASE \E o \in Working(n) \ {s} : req[o].op = "install" /\ req[o].step \in {"extracted", "removed"}
      <4>1. PICK o \in Working(n) \ {s} : req[o].op = "install" /\ req[o].step \in {"extracted", "removed"}
        BY <3>2
      <4>2. o \in Slots \ {s}
        BY <4>1 DEF Working
      <4> QED BY <1>3, <1>6, <2>2, <4>1, <4>2
    <3> QED BY <2>2, <3>1, <3>2
  <2> QED BY <2>1, <2>2
<1> QED BY <1>2, <1>7, <1>8, <1>9 DEF InstallInv

\* What a step of a process manager leaves alone.
LEMMA ManagerStep ==
  ASSUME InstallInv, UNCHANGED <<disk, tmp, schemas, req, overlap>>, signals' \in Nat,
         mg' = [m \in Managers |-> mg'[m]], \A m \in Managers : IsManager(mg'[m]),
         mg'["worker"].pc \in {"spawn", "free"} /\ signals' = 0 /\ ~missed' =>
           \/ \A n \in Names : disk[n] = "whole" => n \in mg'["worker"].manifests
           \/ /\ mg["worker"].pc \in {"spawn", "free"} /\ signals = 0 /\ ~missed
              /\ mg'["worker"].manifests = mg["worker"].manifests
  PROVE  InstallInv'
<1>1. \A n : Working(n)' = Working(n)
  BY DEF Working
<1>2. PluginTypes'
  BY DEF InstallInv, PluginTypes
<1>3. \A n \in Names : HandledAlone(n)'
  BY <1>1 DEF InstallInv, HandledAlone, DirectoryAt
<1>4. Scanned'
  BY <1>1 DEF InstallInv, Scanned
<1>5. TmpOnlyWhileInstalling'
  BY <1>1 DEF InstallInv, TmpOnlyWhileInstalling
<1> QED BY <1>2, <1>3, <1>4, <1>5 DEF InstallInv

LEMMA InitInstallInv == Init => InstallInv
<1> SUFFICES ASSUME Init PROVE InstallInv
  OBVIOUS
<1>1. \A n : Working(n) = {}
  BY DEF Init, Working, Idle
<1>2. PluginTypes
  <2>1. /\ mg = [m \in Managers |-> mg[m]]
        /\ mg["server"] = [Free EXCEPT !.manifests = schemas] /\ mg["worker"] = Down
    BY DEF Init, Managers
  <2>2. \A m \in Managers : IsManager(mg[m])
    BY <2>1 DEF Managers, IsManager, Free, Down
  <2>3. \A s \in Slots : IsInstallRequest(req[s])
    BY DEF Init, IsInstallRequest
  <2> QED BY <2>1, <2>2, <2>3 DEF Init, PluginTypes
<1>3. \A n \in Names : HandledAlone(n)
  BY <1>1 DEF HandledAlone, Init
<1>4. Scanned
  <2>1. mg["worker"] = Down
    BY DEF Init, Managers
  <2> QED BY <2>1 DEF Scanned, Down
<1>5. TmpOnlyWhileInstalling
  BY DEF Init, TmpOnlyWhileInstalling
<1> QED BY <1>2, <1>3, <1>4, <1>5 DEF InstallInv

\* A request that arrives for a plugin that others work on no longer counts as alone.
LEMMA RequestArrives ==
  ASSUME InstallInv, NEW s \in Slots, NEW n \in Names, NEW op, NEW step,
         Request(s, n, op, step), UNCHANGED <<disk, schemas, signals, mg, missed>>,
         \/ op = "install" /\ step = "extracted" /\ tmp' = tmp \cup {n}
         \/ op = "uninstall" /\ step = "checked" /\ tmp' = tmp /\ disk[n] # "absent"
  PROVE  InstallInv'
<1> DEFINE q == [op |-> op, step |-> step, name |-> n]
<1>1. PluginTypes /\ req[s] = Idle /\ req' = [req EXCEPT ![s] = q]
  BY DEF InstallInv, Request
<1>2. IsInstallRequest(q) /\ q.op # "none" /\ q.name = n
  BY DEF IsInstallRequest, InstallSteps
<1>3. req'[s] = q /\ \A o \in Slots \ {s} : req'[o] = req[o]
  BY <1>1 DEF PluginTypes
<1>4. \A k : s \notin Working(k)
  BY <1>1 DEF Working, Idle
<1> HIDE DEF q
<1>5. Working(n)' = Working(n) \cup {s} /\ \A k : k # n => Working(k)' = Working(k)
  BY <1>2, <1>3, <1>4 DEF Working
<1>6. \A k : \A o \in Working(k) : o \in Slots \ {s} /\ req'[o] = req[o]
  BY <1>3, <1>4 DEF Working
<1>7. PluginTypes'
  BY <1>1, <1>2 DEF PluginTypes
<1>8. overlap' = (IF Working(n) = {} THEN overlap ELSE overlap \cup {n})
  BY DEF Request
<1>9. ASSUME NEW k \in Names PROVE HandledAlone(k)'
  <2>0. HandledAlone(k)
    BY <1>9 DEF InstallInv
  <2>1. CASE k # n
    BY <2>0, <2>1, <1>5, <1>6, <1>8 DEF HandledAlone
  <2>2. CASE k = n /\ Working(n) = {}
    <3>1. Working(n)' = {s}
      BY <1>5, <2>2
    <3>2. DirectoryAt(req'[s], disk'[n])
      BY <1>3 DEF DirectoryAt, q
    <3> QED BY <2>2, <3>1, <3>2 DEF HandledAlone
  <2>3. CASE k = n /\ Working(n) # {}
    BY <2>3, <1>8 DEF HandledAlone
  <2> QED BY <2>1, <2>2, <2>3
<1>10. Scanned'
  BY <1>5, <1>8 DEF InstallInv, Scanned
<1>11. TmpOnlyWhileInstalling'
  <2> SUFFICES ASSUME NEW k \in tmp'
               PROVE  \E o \in Working(k)' : req'[o].op = "install" /\ req'[o].step \in {"extracted", "removed"}
    BY DEF TmpOnlyWhileInstalling
  <2>1. CASE k \in tmp
    <3>1. PICK o \in Working(k) : req[o].op = "install" /\ req[o].step \in {"extracted", "removed"}
      BY <2>1 DEF InstallInv, TmpOnlyWhileInstalling
    <3> QED BY <1>5, <1>6, <3>1
  <2>2. CASE k \notin tmp
    <3>1. op = "install" /\ step = "extracted" /\ k = n
      BY <2>2
    <3>2. s \in Working(n)' /\ req'[s].op = "install" /\ req'[s].step = "extracted"
      BY <1>3, <1>5, <3>1 DEF q
    <3> QED BY <3>1, <3>2
  <2> QED BY <2>1, <2>2
<1> QED BY <1>7, <1>9, <1>10, <1>11 DEF InstallInv

\* A request in progress, and the record it is moved to.
LEMMA InProgress ==
  ASSUME InstallInv, NEW s \in Slots, NEW op \in {"install", "uninstall"}, NEW step, At(s, op, step)
  PROVE  /\ req[s] = [op |-> op, step |-> step, name |-> req[s].name] /\ req[s].name \in Names
         /\ req[s].op # "none" /\ s \in Working(req[s].name)
         /\ disk[req[s].name] \in {"absent", "torn", "whole"}
         /\ req[s].name \notin overlap => DirectoryAt(req[s], disk[req[s].name])
         /\ \A new : To(s, new) => req' = [req EXCEPT ![s] = [op |-> op, step |-> new, name |-> req[s].name]]
<1>1. PluginTypes /\ IsInstallRequest(req[s])
  BY DEF InstallInv, PluginTypes
<1>2. req[s].op = op /\ req[s].step = step /\ req[s] # Idle
  BY DEF At, Idle
<1>3. /\ req[s] = [op |-> op, step |-> step, name |-> req[s].name] /\ req[s].name \in Names
      /\ req[s].op # "none"
  BY <1>1, <1>2, ReqFacts
<1>4. s \in Working(req[s].name)
  BY <1>3 DEF Working
<1>5. disk[req[s].name] \in {"absent", "torn", "whole"}
  BY <1>1, <1>3 DEF PluginTypes
<1>6. req[s].name \notin overlap => DirectoryAt(req[s], disk[req[s].name])
  BY <1>3, <1>4 DEF InstallInv, HandledAlone
<1>7. ASSUME NEW new, To(s, new)
      PROVE  req' = [req EXCEPT ![s] = [op |-> op, step |-> new, name |-> req[s].name]]
  <2>1. [req[s] EXCEPT !.step = new] = [op |-> op, step |-> new, name |-> req[s].name]
    BY <1>3
  <2>2. req' = [req EXCEPT ![s] = [req[s] EXCEPT !.step = new]]
    BY <1>7 DEF To
  <2> QED BY <2>1, <2>2
<1> QED BY <1>3, <1>4, <1>5, <1>6, <1>7

LEMMA RemoveOldInstalls == ASSUME InstallInv, NEW s \in Slots, RemoveOld(s) PROVE InstallInv'
<1> DEFINE n == req[s].name
           q == [op |-> "install", step |-> "removed", name |-> n]
<1>1. At(s, "install", "extracted") /\ To(s, "removed")
  BY DEF RemoveOld
<1>2. n \in Names /\ req[s].op # "none" /\ req' = [req EXCEPT ![s] = q]
  BY <1>1, InProgress
<1>3. IsInstallRequest(q) /\ q # Idle /\ q.name = n
  BY <1>2 DEF IsInstallRequest, InstallSteps, Idle
<1>4. DirectoryAt(q, "absent")
  BY DEF DirectoryAt
<1>5. signals \in Nat
  BY DEF InstallInv, PluginTypes
<1>10. Moves(s, q, n, "absent")
  BY <1>2, <1>3, <1>4, <1>5, IdleIsRequest DEF Moves, RemoveOld
<1> QED BY <1>2, <1>10, RequestStep

LEMMA RenameNewInstalls == ASSUME InstallInv, NEW s \in Slots, RenameNew(s) PROVE InstallInv'
<1> DEFINE n == req[s].name
           q == [op |-> "install", step |-> "renamed", name |-> n]
<1>1. At(s, "install", "removed")
  BY DEF RenameNew
<1>2. /\ n \in Names /\ req[s].op # "none" /\ (To(s, "renamed") => req' = [req EXCEPT ![s] = q])
      /\ disk[n] \in {"absent", "torn", "whole"}
      /\ n \notin overlap => DirectoryAt(req[s], disk[n])
  BY <1>1, InProgress
<1>3. IsInstallRequest(q) /\ q # Idle /\ q.name = n
  BY <1>2 DEF IsInstallRequest, InstallSteps, Idle
<1>4. n \in tmp' => \E o \in Working(n) \ {s} : req[o].op = "install" /\ req[o].step \in {"extracted", "removed"}
  BY DEF RenameNew
<1>5. signals \in Nat /\ tmp' \subseteq tmp /\ disk = [disk EXCEPT ![n] = disk[n]]
  BY DEF InstallInv, PluginTypes, RenameNew
<1>6. CASE disk[n] = "absent"
  <2>1. DirectoryAt(q, "whole")
    BY DEF DirectoryAt
  <2>10. Moves(s, q, n, "whole")
    BY <1>2, <1>3, <1>4, <1>5, <1>6, <2>1, IdleIsRequest DEF Moves, RenameNew
  <2> QED BY <1>2, <2>10, RequestStep
<1>7. CASE disk[n] # "absent"
  <2>1. n \in overlap
    BY <1>1, <1>2, <1>7 DEF At, DirectoryAt
  <2>2. disk' = [disk EXCEPT ![n] = disk[n]] /\ req' = [req EXCEPT ![s] = Idle]
    BY <1>5, <1>7 DEF RenameNew, Ends
  <2>10. Moves(s, Idle, n, disk[n])
    BY <1>2, <1>3, <1>4, <1>5, <2>1, <2>2, IdleIsRequest DEF Moves, RenameNew
  <2> QED BY <1>2, <2>10, RequestStep
<1> QED BY <1>6, <1>7

LEMMA WriteManifestInstalls == ASSUME InstallInv, NEW s \in Slots, WriteManifest(s) PROVE InstallInv'
<1> DEFINE n == req[s].name
           q == [op |-> "install", step |-> "writing", name |-> n]
<1>1. At(s, "install", "renamed")
  BY DEF WriteManifest
<1>2. /\ n \in Names /\ req[s].op # "none" /\ (To(s, "writing") => req' = [req EXCEPT ![s] = q])
      /\ disk[n] \in {"absent", "torn", "whole"}
      /\ n \notin overlap => DirectoryAt(req[s], disk[n])
  BY <1>1, InProgress
<1>3. IsInstallRequest(q) /\ q # Idle /\ q.name = n
  BY <1>2 DEF IsInstallRequest, InstallSteps, Idle
<1>4. n \in tmp => \E o \in Working(n) \ {s} : req[o].op = "install" /\ req[o].step \in {"extracted", "removed"}
  BY <1>1 DEF InstallInv, TmpOnlyWhileInstalling, At
<1>5. signals \in Nat /\ disk = [disk EXCEPT ![n] = disk[n]]
  BY DEF InstallInv, PluginTypes
<1>6. CASE disk[n] # "absent"
  <2>1. DirectoryAt(q, "torn")
    BY DEF DirectoryAt
  <2>10. Moves(s, q, n, "torn")
    BY <1>2, <1>3, <1>4, <1>5, <1>6, <2>1, IdleIsRequest DEF Moves, WriteManifest
  <2> QED BY <1>2, <2>10, RequestStep
<1>7. CASE disk[n] = "absent"
  <2>1. n \in overlap
    BY <1>1, <1>2, <1>7 DEF At, DirectoryAt
  <2>2. disk' = [disk EXCEPT ![n] = disk[n]] /\ req' = [req EXCEPT ![s] = Idle]
    BY <1>5, <1>7 DEF WriteManifest, Ends
  <2>10. Moves(s, Idle, n, disk[n])
    BY <1>2, <1>3, <1>4, <1>5, <2>1, <2>2, IdleIsRequest DEF Moves, WriteManifest
  <2> QED BY <1>2, <2>10, RequestStep
<1> QED BY <1>6, <1>7

LEMMA ManifestWrittenInstalls == ASSUME InstallInv, NEW s \in Slots, ManifestWritten(s) PROVE InstallInv'
<1> DEFINE n == req[s].name
           q == [op |-> "install", step |-> "written", name |-> n]
           d == IF disk[n] = "torn" THEN "whole" ELSE disk[n]
<1>1. At(s, "install", "writing") /\ To(s, "written")
  BY DEF ManifestWritten
<1>2. /\ n \in Names /\ req[s].op # "none" /\ req' = [req EXCEPT ![s] = q]
      /\ d \in {"absent", "torn", "whole"}
      /\ n \notin overlap => DirectoryAt(req[s], disk[n])
  BY <1>1, InProgress
<1>3. IsInstallRequest(q) /\ q # Idle /\ q.name = n
  BY <1>2 DEF IsInstallRequest, InstallSteps, Idle
<1>4. n \in tmp => \E o \in Working(n) \ {s} : req[o].op = "install" /\ req[o].step \in {"extracted", "removed"}
  BY <1>1 DEF InstallInv, TmpOnlyWhileInstalling, At
<1>5. signals \in Nat /\ disk' = [disk EXCEPT ![n] = d]
  BY DEF InstallInv, PluginTypes, ManifestWritten
<1>6. n \notin overlap => DirectoryAt(q, d)
  BY <1>1, <1>2 DEF At, DirectoryAt
<1> HIDE DEF d
<1>10. Moves(s, q, n, d)
  BY <1>2, <1>3, <1>4, <1>5, <1>6, IdleIsRequest DEF Moves, ManifestWritten
<1> QED BY <1>2, <1>10, RequestStep

LEMMA RegisterSchemasInstalls == ASSUME InstallInv, NEW s \in Slots, RegisterSchemas(s) PROVE InstallInv'
<1> DEFINE n == req[s].name
<1>1. At(s, "install", "written") /\ req' = [req EXCEPT ![s] = Idle]
  BY DEF RegisterSchemas, Ends
<1>2. /\ n \in Names /\ req[s].op # "none" /\ disk[n] \in {"absent", "torn", "whole"}
      /\ n \notin overlap => DirectoryAt(req[s], disk[n])
  BY <1>1, InProgress
<1>3. IsInstallRequest(Idle)
  BY IdleIsRequest
<1>4. n \in tmp => \E o \in Working(n) \ {s} : req[o].op = "install" /\ req[o].step \in {"extracted", "removed"}
  BY <1>1 DEF InstallInv, TmpOnlyWhileInstalling, At
<1>5. signals \in Nat /\ disk' = [disk EXCEPT ![n] = disk[n]]
  BY DEF InstallInv, PluginTypes, RegisterSchemas
<1>6. signals' \in Nat /\ (signals' = 0 => signals = 0) /\ (missed => missed') /\ (signals' # 0 \/ missed')
  BY <1>5 DEF RegisterSchemas, Signal
<1>7. n \notin overlap => disk[n] = "whole"
  BY <1>1, <1>2 DEF At, DirectoryAt
<1>10. Moves(s, Idle, n, disk[n])
  BY <1>1, <1>2, <1>3, <1>4, <1>5, <1>6, <1>7, IdleIsRequest DEF Moves, RegisterSchemas
<1> QED BY <1>2, <1>10, RequestStep

LEMMA RemoveDirectoryInstalls == ASSUME InstallInv, NEW s \in Slots, RemoveDirectory(s) PROVE InstallInv'
<1> DEFINE n == req[s].name
           q == [op |-> "uninstall", step |-> "removed", name |-> n]
<1>1. At(s, "uninstall", "checked")
  BY DEF RemoveDirectory
<1>2. /\ n \in Names /\ req[s].op # "none" /\ (To(s, "removed") => req' = [req EXCEPT ![s] = q])
      /\ n \notin overlap => DirectoryAt(req[s], disk[n])
  BY <1>1, InProgress
<1>3. IsInstallRequest(q) /\ q # Idle /\ q.name = n
  BY <1>2 DEF IsInstallRequest, InstallSteps, Idle
<1>4. n \in tmp => \E o \in Working(n) \ {s} : req[o].op = "install" /\ req[o].step \in {"extracted", "removed"}
  BY <1>1 DEF InstallInv, TmpOnlyWhileInstalling, At
<1>5. signals \in Nat
  BY DEF InstallInv, PluginTypes
<1>6. DirectoryAt(q, "absent")
  BY DEF DirectoryAt
<1>7. disk[n] = "absent" => n \in overlap
  BY <1>1, <1>2 DEF At, DirectoryAt
<1>8. CASE disk[n] # "absent"
  <2>1. Moves(s, q, n, "absent")
    BY <1>2, <1>3, <1>4, <1>5, <1>6, <1>8, IdleIsRequest DEF Moves, RemoveDirectory
  <2> QED BY <1>2, <2>1, RequestStep
<1>9. CASE disk[n] = "absent"
  <2>1. req' = [req EXCEPT ![s] = Idle]
    BY <1>9 DEF RemoveDirectory, Ends
  <2>10. Moves(s, Idle, n, "absent")
    BY <1>2, <1>3, <1>4, <1>5, <1>7, <1>9, <2>1, IdleIsRequest DEF Moves, RemoveDirectory
  <2> QED BY <1>2, <2>10, RequestStep
<1> QED BY <1>8, <1>9

LEMMA EndUninstallInstalls == ASSUME InstallInv, NEW s \in Slots, EndUninstall(s) PROVE InstallInv'
<1> DEFINE n == req[s].name
<1>1. At(s, "uninstall", "removed") /\ req' = [req EXCEPT ![s] = Idle]
  BY DEF EndUninstall, Ends
<1>2. /\ n \in Names /\ req[s].op # "none" /\ disk[n] \in {"absent", "torn", "whole"}
      /\ n \notin overlap => DirectoryAt(req[s], disk[n])
  BY <1>1, InProgress
<1>3. IsInstallRequest(Idle)
  BY IdleIsRequest
<1>4. n \in tmp => \E o \in Working(n) \ {s} : req[o].op = "install" /\ req[o].step \in {"extracted", "removed"}
  BY <1>1 DEF InstallInv, TmpOnlyWhileInstalling, At
<1>5. signals \in Nat /\ disk' = [disk EXCEPT ![n] = disk[n]]
  BY DEF InstallInv, PluginTypes, EndUninstall
<1>6. n \notin overlap => disk[n] = "absent"
  BY <1>1, <1>2 DEF At, DirectoryAt
<1>10. Moves(s, Idle, n, disk[n])
  BY <1>1, <1>2, <1>3, <1>4, <1>5, <1>6, IdleIsRequest DEF Moves, EndUninstall
<1> QED BY <1>2, <1>10, RequestStep

\* One manager changes, to x.
LEMMA ManagerTypes ==
  ASSUME mg = [m \in Managers |-> mg[m]], \A m \in Managers : IsManager(mg[m]), NEW m \in Managers, NEW x,
         IsManager(x), mg' = [mg EXCEPT ![m] = x]
  PROVE  /\ mg' = [k \in Managers |-> mg'[k]] /\ \A k \in Managers : IsManager(mg'[k])
         /\ mg'[m] = x /\ \A k \in Managers \ {m} : mg'[k] = mg[k]
<1>1. mg'[m] = x /\ \A k \in Managers \ {m} : mg'[k] = mg[k]
  OBVIOUS
<1> QED BY <1>1

\* The actions of the managers, as the records they leave.
KilledBy(m) == [mg[m] EXCEPT !.pc = "scan", !.managed = {}]
ScannedBy(m, found, ports) == [mg[m] EXCEPT !.pc = "spawn", !.manifests = found, !.left = ports]
SpawnedBy(m, e) == [mg[m] EXCEPT !.left = @ \ {e}, !.managed = @ \cup {e}]
GivenUpBy(m, e) == [mg[m] EXCEPT !.left = @ \ {e}]
FreedBy(m) == [mg[m] EXCEPT !.pc = "free", !.job = "none"]
ReloadedBy(m) == [mg[m] EXCEPT !.pc = "kill", !.job = "reload"]
FailedBy(m) == [mg[m] EXCEPT !.pc = "spawn", !.left = {}]
StoppedBy(name) == [mg["server"] EXCEPT !.managed = {e \in @ : e.name # name}]
StartedBy(name) == [mg["server"] EXCEPT !.pc = "spawn", !.job = "start",
                                        !.left = {[name |-> name, port |-> DefaultPort[name]]}]

\* Only Scan changes what a manager has found, and only a scan leaves kill and scan; one
\* of the worker's that fails is noted.
LEMMA KeepsManifests ==
  ASSUME InstallInv, NEW m \in Managers, NEW x, IsManager(x), mg' = [mg EXCEPT ![m] = x],
         UNCHANGED <<disk, tmp, schemas, req, overlap, signals>>, missed => missed',
         m = "worker" /\ ~missed' => x.manifests = mg[m].manifests /\
                                     (x.pc \in {"spawn", "free"} => mg[m].pc \in {"spawn", "free"})
  PROVE  InstallInv'
<1>1. PluginTypes
  BY DEF InstallInv
<1>2. /\ mg' = [k \in Managers |-> mg'[k]] /\ \A k \in Managers : IsManager(mg'[k])
      /\ mg'[m] = x /\ \A k \in Managers \ {m} : mg'[k] = mg[k]
  BY <1>1, ManagerTypes DEF PluginTypes
<1>3. "worker" \in Managers
  BY DEF Managers
<1>4. CASE m = "worker"
  BY <1>1, <1>2, <1>4, ManagerStep DEF PluginTypes
<1>5. CASE m # "worker"
  <2>1. mg'["worker"] = mg["worker"]
    BY <1>2, <1>3, <1>5
  <2> QED BY <1>1, <1>2, <2>1, ManagerStep DEF PluginTypes
<1> QED BY <1>4, <1>5

LEMMA ManagersInstall ==
  ASSUME InstallInv, NEW m \in Managers
  PROVE  /\ KillAll(m) => InstallInv'
         /\ Scan(m) => InstallInv'
         /\ ScanFails(m) => InstallInv'
         /\ \A e : SpawnSucceeds(m, e) \/ SpawnFails(m, e) => InstallInv'
<1>0. IsManager(mg[m]) /\ PluginTypes
  BY DEF InstallInv, PluginTypes
<1>1. ASSUME KillAll(m) PROVE InstallInv'
  <2>1. mg' = [mg EXCEPT ![m] = KilledBy(m)]
    BY <1>1 DEF KillAll, KilledBy
  <2>2. IsManager(KilledBy(m)) /\ KilledBy(m).manifests = mg[m].manifests /\ KilledBy(m).pc = "scan"
    BY <1>0 DEF IsManager, KilledBy
  <2> QED BY <1>1, <2>1, <2>2, KeepsManifests DEF KillAll
<1>2. ASSUME Scan(m) PROVE InstallInv'
  <2>1. PICK found \in Scans :
          mg' = [mg EXCEPT ![m] = ScannedBy(m, found, Ports(found, IF mg[m].job = "startup" THEN YamlPort ELSE NoPorts))]
    BY <1>2 DEF Scan, ScannedBy
  <2> DEFINE x == ScannedBy(m, found, Ports(found, IF mg[m].job = "startup" THEN YamlPort ELSE NoPorts))
  <2>2. IsManager(x) /\ x.manifests = found /\ x.pc = "spawn"
    BY <1>0 DEF IsManager, ScannedBy
  <2>3. \A n \in Names : disk[n] = "whole" => n \in found
    BY DEF Scans
  <2> HIDE DEF x
  <2>4. CASE m = "server"
    BY <1>2, <2>1, <2>2, <2>4, KeepsManifests DEF Scan, x
  <2>5. CASE m = "worker"
    <3>1. /\ mg' = [k \in Managers |-> mg'[k]] /\ \A k \in Managers : IsManager(mg'[k])
          /\ mg'[m] = x
      BY <1>0, <2>1, <2>2, ManagerTypes DEF PluginTypes, x
    <3> QED BY <1>0, <1>2, <2>2, <2>3, <2>5, <3>1, ManagerStep DEF PluginTypes, Scan
  <2> QED BY <2>4, <2>5 DEF Managers
<1>3. ASSUME NEW e, SpawnSucceeds(m, e) PROVE InstallInv'
  <2>1. mg' = [mg EXCEPT ![m] = SpawnedBy(m, e)]
    BY <1>3 DEF SpawnSucceeds, SpawnedBy
  <2>2. /\ IsManager(SpawnedBy(m, e)) /\ SpawnedBy(m, e).manifests = mg[m].manifests
        /\ SpawnedBy(m, e).pc = mg[m].pc
    BY <1>0 DEF IsManager, SpawnedBy
  <2> QED BY <1>3, <2>1, <2>2, KeepsManifests DEF SpawnSucceeds
<1>4. ASSUME NEW e, SpawnFails(m, e) PROVE InstallInv'
  <2>1. mg' = [mg EXCEPT ![m] = GivenUpBy(m, e)]
    BY <1>4 DEF SpawnFails, GivenUpBy
  <2>2. /\ IsManager(GivenUpBy(m, e)) /\ GivenUpBy(m, e).manifests = mg[m].manifests
        /\ GivenUpBy(m, e).pc = mg[m].pc
    BY <1>0 DEF IsManager, GivenUpBy
  <2> QED BY <1>4, <2>1, <2>2, KeepsManifests DEF SpawnFails
<1>5. ASSUME ScanFails(m) PROVE InstallInv'
  <2>1. mg' = [mg EXCEPT ![m] = FailedBy(m)]
    BY <1>5 DEF ScanFails, FailedBy
  <2>2. IsManager(FailedBy(m))
    BY <1>0 DEF IsManager, FailedBy
  <2>3. (missed => missed') /\ (m = "worker" => missed')
    BY <1>5 DEF ScanFails
  <2> QED BY <1>5, <2>1, <2>2, <2>3, KeepsManifests DEF ScanFails
<1> QED BY <1>1, <1>2, <1>3, <1>4, <1>5

LEMMA ServerInstalls ==
  ASSUME InstallInv, SpawnDone \/ ServerReloads \/ ServerStarts \/ ServerStops PROVE InstallInv'
<1> DEFINE j == Head(queue)
<1>0. IsManager(mg["server"]) /\ PluginTypes /\ "server" \in Managers
  BY DEF InstallInv, PluginTypes, Managers
<1>1. CASE SpawnDone
  <2>1. mg' = [mg EXCEPT !["server"] = FreedBy("server")]
    BY <1>1 DEF SpawnDone, FreedBy
  <2>2. IsManager(FreedBy("server"))
    BY <1>0 DEF IsManager, FreedBy
  <2> QED BY <1>0, <1>1, <2>1, <2>2, KeepsManifests DEF SpawnDone
<1>2. CASE ServerReloads
  <2>1. mg' = [mg EXCEPT !["server"] = ReloadedBy("server")]
    BY <1>2 DEF ServerReloads, ReloadedBy
  <2>2. IsManager(ReloadedBy("server"))
    BY <1>0 DEF IsManager, ReloadedBy
  <2> QED BY <1>0, <1>2, <2>1, <2>2, KeepsManifests DEF ServerReloads
<1>3. CASE ServerStarts
  <2>1. mg' = [mg EXCEPT !["server"] = StartedBy(j.name)] \/ mg' = mg
    BY <1>3 DEF ServerStarts, StartedBy
  <2>2. IsManager(StartedBy(j.name))
    BY <1>0 DEF IsManager, StartedBy
  <2>3. mg = [mg EXCEPT !["server"] = mg["server"]]
    BY <1>0 DEF PluginTypes
  <2> HIDE DEF j
  <2> QED BY <1>0, <1>3, <2>1, <2>2, <2>3, KeepsManifests DEF ServerStarts
<1>4. CASE ServerStops
  <2>1. mg' = [mg EXCEPT !["server"] = StoppedBy(j.name)]
    BY <1>4 DEF ServerStops, StoppedBy
  <2>2. IsManager(StoppedBy(j.name))
    BY <1>0 DEF IsManager, StoppedBy
  <2> HIDE DEF j
  <2> QED BY <1>0, <1>4, <2>1, <2>2, KeepsManifests DEF ServerStops
<1> QED BY <1>1, <1>2, <1>3, <1>4

LEMMA RestartServerInstalls == ASSUME InstallInv, RestartServer PROVE InstallInv'
<1>0. PluginTypes /\ "server" \in Managers /\ "worker" \in Managers
  BY DEF InstallInv, Managers
<1>1. \A n : Working(n)' = {}
  BY DEF RestartServer, Working, Idle
<1>2. \A n \in Names : n \notin overlap' => n \notin overlap /\ Working(n) = {}
  <2> SUFFICES ASSUME NEW n \in Names, n \notin overlap' PROVE n \notin overlap /\ Working(n) = {}
    OBVIOUS
  <2>1. overlap' = overlap \cup {req[s].name : s \in {t \in Slots : req[t].op # "none"}}
    BY DEF RestartServer
  <2> QED BY <2>1 DEF Working
<1>3. PluginTypes'
  <2> DEFINE x == [Free EXCEPT !.manifests = schemas']
  <2>1. IsManager(x)
    BY DEF IsManager, Free, Down
  <2>2. mg' = [mg EXCEPT !["server"] = x]
    BY DEF RestartServer
  <2> HIDE DEF x
  <2>3. mg' = [k \in Managers |-> mg'[k]] /\ \A k \in Managers : IsManager(mg'[k])
    BY <1>0, <2>1, <2>2, ManagerTypes DEF PluginTypes
  <2>4. req' = [s \in Slots |-> req'[s]] /\ \A s \in Slots : IsInstallRequest(req'[s])
    BY IdleIsRequest DEF RestartServer
  <2>5. disk' = disk /\ signals' = signals /\ tmp' = {}
    BY DEF RestartServer, CleanupPartialInstalls
  <2> QED BY <1>0, <2>3, <2>4, <2>5 DEF PluginTypes
<1>4. ASSUME NEW n \in Names PROVE HandledAlone(n)'
  <2>1. schemas' = {k \in Names : disk[k] = "whole"} /\ disk' = disk
    BY DEF RestartServer
  <2> QED BY <1>1, <1>4, <2>1 DEF HandledAlone
<1>5. Scanned'
  <2>1. mg'["worker"] = mg["worker"]
    BY <1>0 DEF RestartServer, PluginTypes
  <2>2. disk' = disk /\ signals' = signals /\ missed' = missed
    BY DEF RestartServer
  <2> QED BY <1>2, <2>1, <2>2 DEF Scanned, InstallInv
<1>6. TmpOnlyWhileInstalling'
  BY DEF RestartServer, CleanupPartialInstalls, TmpOnlyWhileInstalling
<1> QED BY <1>3, <1>4, <1>5, <1>6 DEF InstallInv

LEMMA WorkerInstalls ==
  ASSUME InstallInv, StartWorker \/ ReloadWorker \/ ReloadFails \/ WorkerRegisters \/ StopWorker PROVE InstallInv'
<1>0. IsManager(mg["worker"]) /\ PluginTypes /\ "worker" \in Managers
  BY DEF InstallInv, PluginTypes, Managers
<1>1. CASE StartWorker
  <2> DEFINE x == [Down EXCEPT !.pc = "scan", !.job = "startup"]
  <2>1. IsManager(x) /\ x.pc = "scan" /\ mg' = [mg EXCEPT !["worker"] = x]
    BY <1>1 DEF StartWorker, Down, IsManager
  <2> HIDE DEF x
  <2>2. /\ mg' = [k \in Managers |-> mg'[k]] /\ \A k \in Managers : IsManager(mg'[k])
        /\ mg'["worker"] = x
    BY <1>0, <2>1, ManagerTypes DEF PluginTypes
  <2>3. UNCHANGED <<disk, tmp, schemas, req, signals, overlap>>
    BY <1>1 DEF StartWorker
  <2>4. \A n : Working(n)' = Working(n)
    BY <2>3 DEF Working
  <2>5. PluginTypes'
    BY <1>0, <2>2, <2>3 DEF PluginTypes
  <2>6. \A n \in Names : HandledAlone(n)'
    BY <2>3, <2>4 DEF InstallInv, HandledAlone
  <2>7. Scanned'
    BY <2>1, <2>2 DEF Scanned
  <2>8. TmpOnlyWhileInstalling'
    BY <2>3, <2>4 DEF InstallInv, TmpOnlyWhileInstalling
  <2> QED BY <2>5, <2>6, <2>7, <2>8 DEF InstallInv
<1>2. CASE ReloadWorker
  <2>1. mg' = [mg EXCEPT !["worker"] = ReloadedBy("worker")]
    BY <1>2 DEF ReloadWorker, ReloadedBy
  <2>2. IsManager(ReloadedBy("worker")) /\ ReloadedBy("worker").pc = "kill"
    BY <1>0 DEF IsManager, ReloadedBy
  <2>3. /\ mg' = [k \in Managers |-> mg'[k]] /\ \A k \in Managers : IsManager(mg'[k])
        /\ mg'["worker"] = ReloadedBy("worker")
    BY <1>0, <2>1, <2>2, ManagerTypes DEF PluginTypes
  <2>4. signals' \in Nat
    BY <1>0, <1>2 DEF PluginTypes, ReloadWorker
  <2> QED BY <1>2, <2>2, <2>3, <2>4, ManagerStep DEF ReloadWorker
<1>3. CASE WorkerRegisters
  <2>1. mg' = [mg EXCEPT !["worker"] = FreedBy("worker")] /\ mg["worker"].pc = "spawn"
    BY <1>3 DEF WorkerRegisters, FreedBy
  <2>2. IsManager(FreedBy("worker")) /\ FreedBy("worker").manifests = mg["worker"].manifests
    BY <1>0 DEF IsManager, FreedBy
  <2> QED BY <1>0, <1>3, <2>1, <2>2, KeepsManifests DEF WorkerRegisters
<1>4. CASE StopWorker
  <2>1. IsManager(Down) /\ Down.pc = "down" /\ mg' = [mg EXCEPT !["worker"] = Down]
    BY <1>4 DEF StopWorker, Down, IsManager
  <2>2. /\ mg' = [k \in Managers |-> mg'[k]] /\ \A k \in Managers : IsManager(mg'[k])
        /\ mg'["worker"] = Down
    BY <1>0, <2>1, ManagerTypes DEF PluginTypes
  <2> QED BY <1>4, <2>1, <2>2, ManagerStep DEF StopWorker
<1>5. CASE ReloadFails
  <2>1. mg' = mg /\ missed' /\ signals' \in Nat
    BY <1>0, <1>5 DEF PluginTypes, ReloadFails
  <2> QED BY <1>0, <1>5, <2>1, ManagerStep DEF PluginTypes, ReloadFails
<1> QED BY <1>1, <1>2, <1>3, <1>4, <1>5

\* Every step keeps what is known of installed plugins.
LEMMA NextInstallInv == InstallInv /\ [Next]_vars => InstallInv'
<1> SUFFICES ASSUME InstallInv, [Next]_vars PROVE InstallInv'
  OBVIOUS
<1>0. PluginTypes
  BY DEF InstallInv
<1>1. ASSUME NEW s \in Slots, NEW n \in Names, Install(s, n) \/ Uninstall(s, n) PROVE InstallInv'
  <2>1. CASE Install(s, n)
    BY <2>1, RequestArrives DEF Install
  <2>2. CASE Uninstall(s, n)
    BY <2>2, RequestArrives DEF Uninstall
  <2> QED BY <1>1, <2>1, <2>2
<1>2. ASSUME NEW s \in Slots, Step(s) PROVE InstallInv'
  BY <1>2, RemoveOldInstalls, RenameNewInstalls, WriteManifestInstalls, ManifestWrittenInstalls,
     RegisterSchemasInstalls, RemoveDirectoryInstalls, EndUninstallInstalls DEF Step
<1>3. ASSUME UNCHANGED <<disk, tmp, schemas, req, signals, mg, overlap, missed>> PROVE InstallInv'
  BY <1>0, <1>3, ManagerStep DEF PluginTypes
<1>4. ASSUME NEW job, Call(job) PROVE InstallInv'
  BY <1>3, <1>4 DEF Call
<1>5. ASSUME NEW p, PluginDies(p) PROVE InstallInv'
  BY <1>3, <1>5 DEF PluginDies
<1>6. CASE UNCHANGED vars
  BY <1>3, <1>6 DEF vars
<1> QED
  BY <1>1, <1>2, <1>4, <1>5, <1>6, ManagersInstall, ServerInstalls, RestartServerInstalls, WorkerInstalls
     DEF Next

LEMMA InitProcessInv == Init => ProcessInv
<1> SUFFICES ASSUME Init PROVE ProcessInv
  OBVIOUS
<1>1. /\ mg = [m \in Managers |-> mg[m]]
      /\ mg["server"] = [Free EXCEPT !.manifests = schemas] /\ mg["worker"] = Down
  BY DEF Init, Managers
<1>2. \A m \in Managers : IsManager(mg[m]) /\ mg[m].left = {} /\ mg[m].managed = {}
  <2>1. IsManager(mg["worker"]) /\ mg["worker"].left = {} /\ mg["worker"].managed = {}
    BY <1>1 DEF IsManager, Down
  <2>2. IsManager(mg["server"]) /\ mg["server"].left = {} /\ mg["server"].managed = {}
    BY <1>1 DEF IsManager, Free, Down
  <2> QED BY <2>1, <2>2 DEF Managers
<1> QED
  BY <1>1, <1>2 DEF Init, ProcessInv, ProcessTypes, OneEntryEach, NoLostProcess, AllRouted, Managers

\* A step of manager m, whose record becomes x.
LEMMA ProcessStep ==
  ASSUME ProcessInv, NEW m \in Managers, NEW x, IsManager(x), mg' = [mg EXCEPT ![m] = x], tmp' \subseteq Names,
         \A e \in x.left \cup x.managed : IsEntry(e),
         m = "worker" => OneEntryEach(x),
         \A p \in procs' : /\ IsProcess(p)
                           /\ p.by \in Managers \ {m} => p \in procs
                           /\ p.by = m => [name |-> p.name, port |-> p.port] \in x.managed,
         UNCHANGED <<exec, heard>> \/ AllRouted'
  PROVE  ProcessInv'
<1>0. ProcessTypes /\ NoLostProcess /\ "worker" \in Managers
  BY DEF ProcessInv, Managers
<1>1. /\ mg' = [k \in Managers |-> mg'[k]] /\ \A k \in Managers : IsManager(mg'[k])
      /\ mg'[m] = x /\ \A k \in Managers \ {m} : mg'[k] = mg[k]
  BY <1>0, ManagerTypes DEF ProcessTypes
<1>2. ProcessTypes'
  BY <1>0, <1>1 DEF ProcessTypes
<1>3. OneEntryEach(mg'["worker"])
  BY <1>0, <1>1 DEF ProcessInv
<1>4. NoLostProcess'
  BY <1>0, <1>1 DEF NoLostProcess
<1>5. AllRouted'
  BY DEF ProcessInv, AllRouted
<1> QED BY <1>2, <1>3, <1>4, <1>5 DEF ProcessInv

\* Steps that leave processes, managers and executors alone.
LEMMA RequestsKeepProcesses ==
  ASSUME ProcessInv, UNCHANGED <<mg, procs, exec, heard>>, tmp' \subseteq Names
  PROVE  ProcessInv'
  BY DEF ProcessInv, ProcessTypes, NoLostProcess, AllRouted

LEMMA KillAllProcesses == ASSUME ProcessInv, NEW m \in Managers, KillAll(m) PROVE ProcessInv'
<1>0. ProcessTypes /\ IsManager(mg[m]) /\ OneEntryEach(mg["worker"])
  BY DEF ProcessInv, ProcessTypes
<1>1. mg' = [mg EXCEPT ![m] = KilledBy(m)]
  BY DEF KillAll, KilledBy
<1>2. /\ IsManager(KilledBy(m)) /\ KilledBy(m).left = mg[m].left /\ KilledBy(m).managed = {}
      /\ KilledBy(m).pc = "scan"
  BY <1>0 DEF IsManager, KilledBy
<1>3. m = "worker" => OneEntryEach(KilledBy(m))
  BY <1>0, <1>2 DEF OneEntryEach, KillAll
<1>4. UNCHANGED <<exec, heard>>
  BY DEF KillAll
<1>5. \A p \in procs' : p \in procs /\ p.by # m /\ IsProcess(p)
  BY <1>0 DEF KillAll, ProcessTypes
<1>6. tmp' \subseteq Names /\ \A e \in KilledBy(m).left \cup KilledBy(m).managed : IsEntry(e)
  BY <1>0, <1>2 DEF KillAll, ProcessTypes
<1> QED BY <1>1, <1>2, <1>3, <1>4, <1>5, <1>6, ProcessStep

LEMMA ScanProcesses == ASSUME ProcessInv, NEW m \in Managers, Scan(m) PROVE ProcessInv'
<1>0. ProcessTypes /\ IsManager(mg[m]) /\ OneEntryEach(mg["worker"]) /\ NoLostProcess
  BY DEF ProcessInv, ProcessTypes
<1> DEFINE fixed == IF mg[m].job = "startup" THEN YamlPort ELSE NoPorts
<1>1. PICK found \in Scans : mg' = [mg EXCEPT ![m] = ScannedBy(m, found, Ports(found, fixed))]
  BY DEF Scan, ScannedBy
<1> DEFINE x == ScannedBy(m, found, Ports(found, fixed))
<1>2. /\ IsManager(x) /\ x.left = Ports(found, fixed) /\ x.managed = mg[m].managed /\ x.pc = "spawn"
  BY <1>0 DEF IsManager, ScannedBy
<1>3. found \subseteq Names
  BY <1>0 DEF Scans, ProcessTypes
<1>4. \A e \in Ports(found, fixed) : IsEntry(e) /\ e.name \in found /\ e.port = PortOf(e.name, found, fixed)
  BY DEF Ports, IsEntry
<1> HIDE DEF x, fixed
<1>5. m = "worker" => OneEntryEach(x)
  <2> SUFFICES ASSUME m = "worker" PROVE OneEntryEach(x)
    OBVIOUS
  <2>1. x.managed = {}
    BY <1>0, <1>2 DEF OneEntryEach, Scan
  <2>2. \A e, f \in Ports(found, fixed) : e.name = f.name => e = f
    BY <1>4 DEF IsEntry
  <2> QED BY <1>2, <1>3, <1>4, <2>1, <2>2 DEF OneEntryEach
<1>6. UNCHANGED <<exec, heard>>
  BY DEF Scan
<1>7. \A p \in procs' : /\ p \in procs /\ IsProcess(p)
                        /\ p.by = m => [name |-> p.name, port |-> p.port] \in x.managed
  <2>1. procs' = procs
    BY DEF Scan
  <2> QED BY <1>0, <1>2, <2>1 DEF ProcessTypes, NoLostProcess
<1>8. tmp' \subseteq Names /\ \A e \in x.left \cup x.managed : IsEntry(e)
  BY <1>0, <1>2, <1>4 DEF Scan, ProcessTypes
<1>9. mg' = [mg EXCEPT ![m] = x]
  BY <1>1 DEF x
<1> QED BY <1>2, <1>5, <1>6, <1>7, <1>8, <1>9, ProcessStep

LEMMA ScanFailsProcesses == ASSUME ProcessInv, NEW m \in Managers, ScanFails(m) PROVE ProcessInv'
<1>0. ProcessTypes /\ IsManager(mg[m]) /\ OneEntryEach(mg["worker"]) /\ NoLostProcess
  BY DEF ProcessInv, ProcessTypes
<1> DEFINE x == FailedBy(m)
<1>1. mg' = [mg EXCEPT ![m] = x] /\ UNCHANGED <<tmp, procs, exec, heard>>
  BY DEF ScanFails, FailedBy
<1>2. IsManager(x) /\ x.left = {} /\ x.managed = mg[m].managed /\ x.pc = "spawn"
  BY <1>0 DEF IsManager, FailedBy
<1> HIDE DEF x
<1>3. m = "worker" => OneEntryEach(x)
  BY <1>0, <1>2 DEF OneEntryEach
<1>4. \A p \in procs' : /\ p \in procs /\ IsProcess(p)
                        /\ p.by = m => [name |-> p.name, port |-> p.port] \in x.managed
  BY <1>0, <1>1, <1>2 DEF ProcessTypes, NoLostProcess
<1>5. tmp' \subseteq Names /\ \A e \in x.left \cup x.managed : IsEntry(e)
  BY <1>0, <1>1, <1>2 DEF ProcessTypes
<1> QED BY <1>1, <1>2, <1>3, <1>4, <1>5, ProcessStep

LEMMA SpawnSucceedsProcesses ==
  ASSUME ProcessInv, NEW m \in Managers, NEW e \in mg[m].left, SpawnSucceeds(m, e) PROVE ProcessInv'
<1>0. /\ ProcessTypes /\ IsManager(mg[m]) /\ OneEntryEach(mg["worker"]) /\ NoLostProcess
      /\ mg[m].pc = "spawn"
  BY DEF ProcessInv, ProcessTypes, SpawnSucceeds
<1> DEFINE x == SpawnedBy(m, e)
<1>1. mg' = [mg EXCEPT ![m] = x]
  BY DEF SpawnSucceeds, SpawnedBy
<1>2. /\ IsManager(x) /\ x.left = mg[m].left \ {e} /\ x.managed = mg[m].managed \cup {e}
      /\ x.pc = mg[m].pc
  BY <1>0 DEF IsManager, SpawnedBy
<1> HIDE DEF x
<1>3. \A k \in x.left \cup x.managed : k \in mg[m].left \cup mg[m].managed
  BY <1>2
<1>4. m = "worker" => OneEntryEach(x)
  BY <1>0, <1>2, <1>3 DEF OneEntryEach
<1>5. IsEntry(e) /\ \A k \in x.left \cup x.managed : IsEntry(k)
  BY <1>0, <1>3 DEF ProcessTypes
<1> DEFINE new == [by |-> m, name |-> e.name, port |-> e.port]
<1>6. procs' \subseteq procs \cup {new} /\ IsProcess(new) /\ [name |-> new.name, port |-> new.port] = e /\ new.by = m
  BY <1>5 DEF SpawnSucceeds, Binds, IsProcess, IsEntry
<1> HIDE DEF new
<1>7. \A p \in procs' : /\ IsProcess(p)
                        /\ p.by \in Managers \ {m} => p \in procs
                        /\ p.by = m => [name |-> p.name, port |-> p.port] \in x.managed
  <2> SUFFICES ASSUME NEW p \in procs'
               PROVE  /\ IsProcess(p)
                      /\ p.by \in Managers \ {m} => p \in procs
                      /\ p.by = m => [name |-> p.name, port |-> p.port] \in x.managed
    OBVIOUS
  <2>1. CASE p \in procs
    BY <1>0, <1>2, <2>1 DEF ProcessTypes, NoLostProcess
  <2>2. CASE p = new
    BY <1>2, <1>6, <2>2
  <2> QED BY <1>6, <2>1, <2>2
<1>8. UNCHANGED <<exec, heard>>
  BY DEF SpawnSucceeds
<1>9. tmp' \subseteq Names
  BY <1>0 DEF ProcessTypes, SpawnSucceeds
<1> QED BY <1>1, <1>2, <1>4, <1>5, <1>7, <1>8, <1>9, ProcessStep

LEMMA SpawnFailsProcesses ==
  ASSUME ProcessInv, NEW m \in Managers, NEW e \in mg[m].left, SpawnFails(m, e) PROVE ProcessInv'
<1>0. /\ ProcessTypes /\ IsManager(mg[m]) /\ OneEntryEach(mg["worker"]) /\ NoLostProcess
      /\ mg[m].pc = "spawn"
  BY DEF ProcessInv, ProcessTypes, SpawnFails
<1> DEFINE x == GivenUpBy(m, e)
<1>1. mg' = [mg EXCEPT ![m] = x]
  BY DEF SpawnFails, GivenUpBy
<1>2. /\ IsManager(x) /\ x.left = mg[m].left \ {e} /\ x.managed = mg[m].managed
      /\ x.pc = mg[m].pc
  BY <1>0 DEF IsManager, GivenUpBy
<1> HIDE DEF x
<1>3. \A k \in x.left \cup x.managed : k \in mg[m].left \cup mg[m].managed
  BY <1>2
<1>4. m = "worker" => OneEntryEach(x)
  BY <1>0, <1>2, <1>3 DEF OneEntryEach
<1>5. \A k \in x.left \cup x.managed : IsEntry(k)
  BY <1>0, <1>3 DEF ProcessTypes
<1>6. UNCHANGED <<tmp, procs, exec, heard>>
  BY DEF SpawnFails
<1>7. \A p \in procs' : /\ p \in procs /\ IsProcess(p)
                        /\ p.by = m => [name |-> p.name, port |-> p.port] \in x.managed
  BY <1>0, <1>2, <1>6 DEF ProcessTypes, NoLostProcess
<1>8. tmp' \subseteq Names
  BY <1>0, <1>6 DEF ProcessTypes
<1> QED BY <1>1, <1>2, <1>4, <1>5, <1>6, <1>7, <1>8, ProcessStep

\* A step of the server's manager that starts nothing.
LEMMA ServerProcesses ==
  ASSUME ProcessInv, SpawnDone \/ ServerReloads \/ ServerStarts \/ ServerStops PROVE ProcessInv'
<1> DEFINE j == Head(queue)
<1>0. /\ ProcessTypes /\ IsManager(mg["server"]) /\ NoLostProcess /\ "server" \in Managers
      /\ "worker" \in Managers
  BY DEF ProcessInv, ProcessTypes, Managers
<1>1. ASSUME NEW x, IsManager(x), mg' = [mg EXCEPT !["server"] = x], UNCHANGED <<tmp, exec, heard>>,
             procs' \subseteq procs, \A e \in x.left \cup x.managed : IsEntry(e),
             \A p \in procs' : p.by = "server" => [name |-> p.name, port |-> p.port] \in x.managed
      PROVE  ProcessInv'
  <2>1. tmp' \subseteq Names /\ \A p \in procs' : IsProcess(p) /\ p \in procs
    BY <1>0, <1>1 DEF ProcessTypes
  <2> QED BY <1>0, <1>1, <2>1, ProcessStep
<1>2. CASE SpawnDone
  <2>1. mg' = [mg EXCEPT !["server"] = FreedBy("server")]
    BY <1>2 DEF SpawnDone, FreedBy
  <2>2. /\ IsManager(FreedBy("server")) /\ FreedBy("server").left = mg["server"].left
        /\ FreedBy("server").managed = mg["server"].managed
    BY <1>0 DEF IsManager, FreedBy
  <2> QED BY <1>0, <1>1, <1>2, <2>1, <2>2 DEF SpawnDone, ProcessTypes, NoLostProcess
<1>3. CASE ServerReloads
  <2>1. mg' = [mg EXCEPT !["server"] = ReloadedBy("server")]
    BY <1>3 DEF ServerReloads, ReloadedBy
  <2>2. /\ IsManager(ReloadedBy("server")) /\ ReloadedBy("server").left = mg["server"].left
        /\ ReloadedBy("server").managed = mg["server"].managed
    BY <1>0 DEF IsManager, ReloadedBy
  <2>3. UNCHANGED <<tmp, procs, exec, heard>>
    BY <1>3 DEF ServerReloads
  <2>4. \A e \in ReloadedBy("server").left \cup ReloadedBy("server").managed : IsEntry(e)
    BY <1>0, <2>2 DEF ProcessTypes
  <2>5. \A p \in procs : p.by = "server" => [name |-> p.name, port |-> p.port] \in ReloadedBy("server").managed
    BY <1>0, <2>2 DEF NoLostProcess
  <2> QED BY <1>1, <2>1, <2>2, <2>3, <2>4, <2>5
<1>4. CASE ServerStarts
  <2>1. mg' = [mg EXCEPT !["server"] = StartedBy(j.name)] \/ mg' = mg
    BY <1>4 DEF ServerStarts, StartedBy
  <2>2. /\ IsManager(StartedBy(j.name))
        /\ StartedBy(j.name).left = {[name |-> j.name, port |-> DefaultPort[j.name]]}
        /\ StartedBy(j.name).managed = mg["server"].managed
    BY <1>0 DEF IsManager, StartedBy
  <2>3. IsEntry([name |-> j.name, port |-> DefaultPort[j.name]])
    BY DEF IsEntry
  <2> HIDE DEF j
  <2>4. CASE mg' = [mg EXCEPT !["server"] = StartedBy(j.name)]
    <3>1. UNCHANGED <<tmp, procs, exec, heard>>
      BY <1>4 DEF ServerStarts
    <3>2. \A e \in StartedBy(j.name).left \cup StartedBy(j.name).managed : IsEntry(e)
      BY <1>0, <2>2, <2>3 DEF ProcessTypes
    <3>3. \A p \in procs : p.by = "server" => [name |-> p.name, port |-> p.port] \in StartedBy(j.name).managed
      BY <1>0, <2>2 DEF NoLostProcess
    <3> QED BY <1>1, <2>2, <2>4, <3>1, <3>2, <3>3
  <2>5. CASE mg' = mg
    BY <1>0, <1>4, <2>5, RequestsKeepProcesses DEF ServerStarts, ProcessTypes
  <2> QED BY <2>1, <2>4, <2>5
<1>5. CASE ServerStops
  <2>1. mg' = [mg EXCEPT !["server"] = StoppedBy(j.name)]
    BY <1>5 DEF ServerStops, StoppedBy
  <2>2. /\ IsManager(StoppedBy(j.name)) /\ StoppedBy(j.name).left = mg["server"].left
        /\ StoppedBy(j.name).managed = {e \in mg["server"].managed : e.name # j.name}
    BY <1>0 DEF IsManager, StoppedBy
  <2>3. procs' \subseteq procs /\ \A p \in procs' : p.by = "server" => p.name # j.name
    BY <1>5 DEF ServerStops
  <2> HIDE DEF j
  <2>4. \A p \in procs' : p.by = "server" => [name |-> p.name, port |-> p.port] \in StoppedBy(j.name).managed
    BY <1>0, <2>2, <2>3 DEF NoLostProcess
  <2>5. \A e \in StoppedBy(j.name).left \cup StoppedBy(j.name).managed : IsEntry(e)
    BY <1>0, <2>2 DEF ProcessTypes
  <2> QED BY <1>1, <1>5, <2>1, <2>2, <2>3, <2>4, <2>5 DEF ServerStops
<1> QED BY <1>2, <1>3, <1>4, <1>5

\* What survives the end of its manager is nobody's.
LEMMA OrphanFacts ==
  ASSUME ProcessTypes, NEW m \in Managers, NEW new \in Orphans(m)
  PROVE  \A p \in new : IsProcess(p) /\ p.by # m /\ (p.by \in Managers => p \in procs)
                        /\ (p \in procs \/ \E q \in procs : q.by = m)
<1> SUFFICES ASSUME NEW p \in new
             PROVE  IsProcess(p) /\ p.by # m /\ (p.by \in Managers => p \in procs)
                    /\ (p \in procs \/ \E q \in procs : q.by = m)
  OBVIOUS
<1>1. PICK kept \in SUBSET {q \in procs : q.by = m} :
        new = {q \in procs : q.by # m} \cup {[q EXCEPT !.by = "nobody"] : q \in kept}
  BY DEF Orphans
<1>2. CASE p \in procs /\ p.by # m
  BY <1>2 DEF ProcessTypes
<1>3. CASE p \in {[q EXCEPT !.by = "nobody"] : q \in kept}
  <2>1. PICK q \in kept : p = [q EXCEPT !.by = "nobody"]
    BY <1>3
  <2>2. IsProcess(q) /\ q.by = m /\ q \in procs
    BY <2>1, <1>1 DEF ProcessTypes
  <2>3. p = [by |-> "nobody", name |-> q.name, port |-> q.port]
    BY <2>1, <2>2 DEF IsProcess
  <2> QED BY <2>2, <2>3 DEF IsProcess, Managers
<1> QED BY <1>1, <1>2, <1>3

LEMMA RestartServerProcesses == ASSUME ProcessInv, RestartServer PROVE ProcessInv'
<1>0. /\ ProcessTypes /\ "server" \in Managers /\ "worker" \in Managers
  BY DEF ProcessInv, Managers
<1> DEFINE x == [Free EXCEPT !.manifests = schemas']
<1>1. mg' = [mg EXCEPT !["server"] = x]
  BY DEF RestartServer
<1>2. IsManager(x) /\ x.left = {} /\ x.managed = {}
  BY DEF IsManager, Free, Down
<1> HIDE DEF x
<1>3. procs' \in Orphans("server") /\ UNCHANGED <<exec, heard>> /\ tmp' = {}
  BY DEF RestartServer, CleanupPartialInstalls
<1>4. \A p \in procs' : IsProcess(p) /\ p.by # "server" /\ (p.by \in Managers => p \in procs)
                        /\ (p \in procs \/ \E q \in procs : q.by = "server")
  BY <1>0, <1>3, OrphanFacts
<1> QED BY <1>0, <1>1, <1>2, <1>3, <1>4, ProcessStep

\* The executors that are registered are those of the processes that answer.
LEMMA RegisterProcesses == ASSUME ProcessInv, WorkerRegisters PROVE ProcessInv'
<1>0. /\ ProcessTypes /\ IsManager(mg["worker"]) /\ OneEntryEach(mg["worker"]) /\ NoLostProcess
      /\ "worker" \in Managers
  BY DEF ProcessInv, ProcessTypes, Managers
<1> DEFINE x == FreedBy("worker")
<1>1. mg' = [mg EXCEPT !["worker"] = x]
  BY DEF WorkerRegisters, FreedBy
<1>2. IsManager(x) /\ x.left = {} /\ x.managed = mg["worker"].managed /\ x.pc = "free"
  BY <1>0 DEF IsManager, FreedBy, WorkerRegisters
<1> HIDE DEF x
<1>3. OneEntryEach(x)
  BY <1>0, <1>2 DEF OneEntryEach
<1>4. UNCHANGED <<tmp, procs>>
  BY DEF WorkerRegisters
<1>5. \A p \in procs' : /\ p \in procs /\ IsProcess(p)
                        /\ p.by = "worker" => [name |-> p.name, port |-> p.port] \in x.managed
  BY <1>0, <1>2, <1>4 DEF ProcessTypes, NoLostProcess
<1>6. AllRouted'
  <2> SUFFICES ASSUME NEW p \in heard' PROVE exec'[p.name] = p.port
    BY DEF AllRouted
  <2>1. PICK answering \in Replies :
          /\ \A n \in Names : exec'[n] \in RegisterGrpc(n, answering)
          /\ heard' = IF \A q \in procs : q.by = "worker" THEN answering ELSE {}
    BY DEF WorkerRegisters
  <2>2. p \in answering /\ answering \subseteq procs /\ \A q \in procs : q.by = "worker"
    BY <2>1 DEF Replies
  <2>3. \A q \in procs : [name |-> q.name, port |-> q.port] \in mg["worker"].managed
    BY <2>2, <1>0 DEF NoLostProcess
  <2>4. p.name \in Names
    <3>1. [name |-> p.name, port |-> p.port].name \in Names
      BY <1>0, <2>2, <2>3 DEF OneEntryEach
    <3> QED BY <3>1
  <2>5. p.port \in Answering(p.name, answering)
    BY <2>2 DEF Answering
  <2>6. ASSUME NEW a \in Answering(p.name, answering) PROVE a = p.port
    <3>1. PICK q \in answering : q.port = a /\ q.name = p.name
      BY <2>6 DEF Answering
    <3>2. [name |-> p.name, port |-> p.port] = [name |-> q.name, port |-> q.port]
      BY <1>0, <2>2, <2>3, <3>1 DEF OneEntryEach
    <3> QED BY <3>1, <3>2
  <2>7. exec'[p.name] \in RegisterGrpc(p.name, answering)
    BY <2>1, <2>4
  <2> QED BY <2>5, <2>6, <2>7 DEF RegisterGrpc
<1>7. tmp' \subseteq Names /\ \A e \in x.left \cup x.managed : IsEntry(e)
  BY <1>0, <1>2, <1>4 DEF ProcessTypes
<1> QED BY <1>0, <1>1, <1>2, <1>3, <1>5, <1>6, <1>7, ProcessStep

LEMMA WorkerProcesses == ASSUME ProcessInv, StartWorker \/ ReloadWorker \/ StopWorker PROVE ProcessInv'
<1>0. /\ ProcessTypes /\ IsManager(mg["worker"]) /\ OneEntryEach(mg["worker"]) /\ NoLostProcess
      /\ "worker" \in Managers
  BY DEF ProcessInv, ProcessTypes, Managers
<1>1. ASSUME NEW x, IsManager(x), mg' = [mg EXCEPT !["worker"] = x], tmp' = tmp,
             OneEntryEach(x), x.left = {}, x.managed \subseteq mg["worker"].managed,
             UNCHANGED <<exec, heard>> \/ heard' = {},
             \A p \in procs' : IsProcess(p) /\ (p.by \in Managers \ {"worker"} => p \in procs)
                               /\ (p.by = "worker" => [name |-> p.name, port |-> p.port] \in x.managed)
      PROVE  ProcessInv'
  <2>1. UNCHANGED <<exec, heard>> \/ AllRouted'
    BY <1>1 DEF AllRouted
  <2>2. tmp' \subseteq Names /\ \A e \in x.left \cup x.managed : IsEntry(e)
    BY <1>0, <1>1 DEF ProcessTypes
  <2> QED BY <1>0, <1>1, <2>1, <2>2, ProcessStep
<1>2. CASE StartWorker
  <2> DEFINE x == [Down EXCEPT !.pc = "scan", !.job = "startup"]
  <2>1. /\ IsManager(x) /\ x.pc = "scan" /\ x.left = {} /\ x.managed = {}
        /\ mg' = [mg EXCEPT !["worker"] = x]
    BY <1>2 DEF StartWorker, Down, IsManager
  <2> HIDE DEF x
  <2>2. OneEntryEach(x)
    BY <2>1 DEF OneEntryEach
  <2>3. mg["worker"].managed = {}
    BY <1>0, <1>2 DEF OneEntryEach, StartWorker
  <2>4. \A p \in procs : p.by # "worker" /\ IsProcess(p)
    BY <1>0, <2>3 DEF NoLostProcess, ProcessTypes
  <2> QED BY <1>1, <1>2, <2>1, <2>2, <2>4 DEF StartWorker
<1>3. CASE ReloadWorker
  <2> DEFINE x == ReloadedBy("worker")
  <2>1. mg' = [mg EXCEPT !["worker"] = x] /\ mg["worker"].pc = "free"
    BY <1>3 DEF ReloadWorker, ReloadedBy
  <2>2. IsManager(x) /\ x.pc = "kill" /\ x.left = mg["worker"].left /\ x.managed = mg["worker"].managed
    BY <1>0 DEF IsManager, ReloadedBy
  <2> HIDE DEF x
  <2>3. OneEntryEach(x) /\ x.left = {}
    BY <1>0, <2>1, <2>2 DEF OneEntryEach
  <2>4. \A p \in procs : IsProcess(p) /\ (p.by = "worker" => [name |-> p.name, port |-> p.port] \in x.managed)
    BY <1>0, <2>2 DEF NoLostProcess, ProcessTypes
  <2> QED BY <1>1, <1>3, <2>1, <2>2, <2>3, <2>4 DEF ReloadWorker
<1>4. CASE StopWorker
  <2>1. /\ IsManager(Down) /\ Down.pc = "down" /\ Down.left = {} /\ Down.managed = {}
        /\ mg' = [mg EXCEPT !["worker"] = Down] /\ procs' \in Orphans("worker") /\ tmp' = tmp
        /\ heard' = {}
    BY <1>4 DEF StopWorker, Down, IsManager
  <2>2. OneEntryEach(Down)
    BY <2>1 DEF OneEntryEach
  <2>3. \A p \in procs' : IsProcess(p) /\ p.by # "worker" /\ (p.by \in Managers => p \in procs)
    BY <1>0, <2>1, OrphanFacts
  <2> QED BY <1>1, <2>1, <2>2, <2>3
<1> QED BY <1>2, <1>3, <1>4

\* Every step keeps what is known of running plugins.
LEMMA NextProcessInv == ProcessInv /\ InstallInv' /\ [Next]_vars => ProcessInv'
<1> SUFFICES ASSUME ProcessInv, InstallInv', [Next]_vars PROVE ProcessInv'
  OBVIOUS
<1>0. tmp' \subseteq Names
  BY DEF InstallInv, PluginTypes
<1>1. ASSUME NEW s \in Slots, NEW n \in Names, Install(s, n) \/ Uninstall(s, n) PROVE ProcessInv'
  BY <1>0, <1>1, RequestsKeepProcesses DEF Install, Uninstall
<1>2. ASSUME NEW s \in Slots, Step(s) PROVE ProcessInv'
  BY <1>0, <1>2, RequestsKeepProcesses DEF Step, RemoveOld, RenameNew, WriteManifest, ManifestWritten,
     RegisterSchemas, RemoveDirectory, EndUninstall
<1>3. ASSUME NEW job, Call(job) PROVE ProcessInv'
  BY <1>0, <1>3, RequestsKeepProcesses DEF Call
<1>4. ASSUME NEW p \in procs, PluginDies(p) PROVE ProcessInv'
  <2>1. UNCHANGED <<tmp, mg, exec, heard>> /\ procs' \subseteq procs
    BY <1>4 DEF PluginDies
  <2> QED BY <2>1 DEF ProcessInv, ProcessTypes, NoLostProcess, AllRouted
<1>5. ASSUME NEW m \in Managers, NEW e \in mg[m].left, SpawnSucceeds(m, e) \/ SpawnFails(m, e) PROVE ProcessInv'
  BY <1>5, SpawnSucceedsProcesses, SpawnFailsProcesses
<1>6. ASSUME NEW m \in Managers, KillAll(m) \/ Scan(m) \/ ScanFails(m) PROVE ProcessInv'
  BY <1>6, KillAllProcesses, ScanProcesses, ScanFailsProcesses
<1>7. CASE UNCHANGED vars
  BY <1>0, <1>7, RequestsKeepProcesses DEF vars
<1>8. CASE ReloadFails
  BY <1>0, <1>8, RequestsKeepProcesses DEF ReloadFails
<1> QED
  BY <1>1, <1>2, <1>3, <1>4, <1>5, <1>6, <1>7, <1>8, ServerProcesses, RestartServerProcesses, RegisterProcesses,
     WorkerProcesses DEF Next

\* A plugin whose install is over is offered, and a worker that has handled its signals,
\* and lost none, has scanned it; no partial install stays behind.  For any number of
\* plugins, overlapping requests, failing scans, restarts and faults: register_plugin_schemas
\* and the reload signal come last, and a scan that misses the directory is followed by
\* another.  (A plugin that was removed goes on being offered: no theorem can say more.)
THEOREM InstalledIsKnownAlways == Spec => []InstalledIsKnown
<1>1. InstallInv => InstalledIsKnown
  <2> SUFFICES ASSUME InstallInv PROVE InstalledIsKnown
    OBVIOUS
  <2>1. NoInstallMissed
    BY DEF InstallInv, Scanned, NoInstallMissed, Ready
  <2>2. InstalledIsOffered
    BY DEF InstallInv, HandledAlone, InstalledIsOffered
  <2> QED BY <2>1, <2>2 DEF InstallInv, InstalledIsKnown
<1> QED BY <1>1, InitInstallInv, NextInstallInv, PTL DEF Spec

\* A plugin that runs can be found by the manager that started it, whatever starts failed,
\* processes died and managers restarted: the registry forgets an entry only with its
\* process.  And a process that told the worker its schemas at the last registration is the
\* one its executor calls, for any ports, fixed ones that collide with numbered ones too,
\* and whoever failed to answer: at a name one address at most answers, because a manager
\* starts a plugin once between two scans.
THEOREM RunningIsReachableAlways == Spec => []RunningIsReachable
<1>1. ProcessInv => RunningIsReachable
  <2> SUFFICES ASSUME ProcessInv PROVE RunningIsReachable
    OBVIOUS
  <2>1. RunningIsRouted
    BY DEF ProcessInv, AllRouted, RunningIsRouted
  <2> QED BY <2>1 DEF ProcessInv, RunningIsReachable
<1> QED BY <1>1, InitInstallInv, NextInstallInv, InitProcessInv, NextProcessInv, PTL DEF Spec
==================================================================================
