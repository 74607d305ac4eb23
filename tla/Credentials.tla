------------------------------ MODULE Credentials ------------------------------
(***************************************************************************)
(* Credentials: their owners edit them over HTTP while the engine puts     *)
(* them into the tasks it dispatches.  An edit reads the record, merges    *)
(* the request into it and writes the whole record back; the browser never *)
(* has a secret and sends a mask in its place.                             *)
(*                                                                         *)
(* A credential has the fields "secret" and "url"; a type is "known" (a    *)
(* schema says that "secret" is a password) or "custom".                   *)
(***************************************************************************)
EXTENDS Naturals

CONSTANTS
  Owners,
  Secrets,    \* values of the field "secret"
  Edits,      \* edits that may be in progress at the same time
  MaxCredentialRequests,  \* bound: creations, edits and deletions
  Nothing     \* no credential, no data, no value

Mask == "masked"   \* any placeholder that is_redacted_secret_value knows

\* A placeholder is never taken for a secret.
ASSUME CredentialsAssumption == Mask \notin Secrets /\ Nothing \notin Secrets \cup {Mask}

CredentialTypes == {"known", "custom"}
AccessTiers == {"proxy", "scoped_token", "raw"}
secret_keys(t) == IF t = "known" THEN {"secret"} ELSE {}

\* Field maps: with or without a secret, with or without a url
FieldMaps == [{"secret"} -> Secrets \cup {Mask}] \cup [{"url"} -> {"u"}] \cup [{} -> {"u"}]
             \cup {[k \in {"secret", "url"} |-> IF k = "url" THEN "u" ELSE v] : v \in Secrets \cup {Mask}}
SecretIn(data) == IF "secret" \in DOMAIN data THEN data["secret"] ELSE Nothing

VARIABLES
  credential,   \* the stored credential
  edit,         \* edits in progress: [record, typed], typed being the secret in
                \* the request, or Mask when the request leaves it alone
  sent,         \* what was made of the credential: set of [as, to, owner, secret, policy],
                \* as a "task" of a run or as an "answer" over HTTP
  credentialRequests,
  given,        \* history: the secret that was last given in full
  crossed       \* history: two edits of this credential overlapped

credentialVars == <<credential, edit, sent, credentialRequests, given, crossed>>

CredentialsInit ==
  /\ credential = Nothing /\ edit = [e \in Edits |-> Nothing] /\ sent = {}
  /\ credentialRequests = 0 /\ given = Nothing /\ crossed = FALSE

CredentialRequest == /\ credentialRequests < MaxCredentialRequests
                     /\ credentialRequests' = credentialRequests + 1

\* get_credential_for_owner: a record of somebody else is not found.
get_credential_for_owner(u) == IF credential # Nothing /\ credential.owner = u THEN credential ELSE Nothing

WholeRecord(c) == c
\* CredentialSummary: what an answer shows of a record.
CredentialSummary(c) == [c EXCEPT !.data = [k \in {} |-> "u"]]

Message(as, u, c) == [as |-> as, to |-> u, owner |-> c.owner, secret |-> SecretIn(c.data), policy |-> c.policy]
\* write_data of the credential, after a creation, a read or an edit
Answer(u, c) == sent' = sent \cup {Message("answer", u, CredentialSummary(c))}

\* get_credential, and list_credentials, which has one entry at most.
ReadCredential(u) ==
  /\ get_credential_for_owner(u) # Nothing /\ Answer(u, get_credential_for_owner(u))
  /\ UNCHANGED <<credential, edit, credentialRequests, given, crossed>>

list_credentials_for_owner(u) == {c \in {credential} \ {Nothing} : c.owner = u}
ListCredentials(u) ==
  /\ sent' = sent \cup {Message("answer", u, CredentialSummary(c)) : c \in list_credentials_for_owner(u)}
  /\ UNCHANGED <<credential, edit, credentialRequests, given, crossed>>

\* create_credential: under a fresh id, owned by the caller; a policy is a set of
\* tiers.
CreateCredential(u, t, data, tier, policy) ==
  /\ credential = Nothing /\ CredentialRequest
  /\ credential' = [id |-> credentialRequests, owner |-> u, type |-> t, data |-> data, tier |-> tier, policy |-> policy]
  /\ given' = SecretIn(data) /\ Answer(u, credential')
  /\ crossed' = FALSE /\ UNCHANGED edit

MergeEverything(old, new, t) == IF new = Nothing THEN old ELSE
  [k \in DOMAIN old \cup DOMAIN new |-> IF k \in DOMAIN new THEN new[k] ELSE old[k]]
\* merge_credential_data: a mask leaves a secret as it is, where the type's
\* schema or else the stored record tells that there is one.
merge_credential_data(old, new, t) ==
  LET Protected(k) == IF t = "known" THEN k \in secret_keys(t) ELSE k \in DOMAIN old
      taken == {k \in DOMAIN new : ~(Protected(k) /\ new[k] = Mask)}
  IN IF new = Nothing THEN old
     ELSE [k \in DOMAIN old \cup taken |-> IF k \in taken THEN new[k] ELSE old[k]]

\* update_credential, until the record it is going to write is complete: a new
\* type needs data without masks.
EditRead(e, u, t, data) ==
  /\ edit[e] = Nothing /\ CredentialRequest
  /\ get_credential_for_owner(u) # Nothing
  /\ t # credential.type =>
       data \notin {Nothing, [k \in {} |-> "u"]} /\ \A k \in DOMAIN data : data[k] # Mask
  /\ edit' = [edit EXCEPT ![e] =
       [record |-> [credential EXCEPT !.type = t,
          !.data = IF t # credential.type THEN data ELSE merge_credential_data(@, data, t)],
        typed |-> IF data # Nothing /\ SecretIn(data) \in Secrets THEN SecretIn(data)
                  ELSE IF t = credential.type THEN Mask ELSE Nothing]]
  /\ crossed' = (crossed \/ \E o \in Edits : edit[o] # Nothing /\ edit[o].record.id = credential.id)
  /\ UNCHANGED <<credential, sent, given>>

\* PgStore::update_credential: a row that is still there and has the same owner
EditWrite(e) ==
  /\ edit[e] # Nothing /\ edit' = [edit EXCEPT ![e] = Nothing]
  /\ IF credential # Nothing /\ credential.id = edit[e].record.id /\ credential.owner = edit[e].record.owner
     THEN /\ credential' = edit[e].record /\ Answer(credential.owner, credential')
          /\ given' = IF edit[e].typed = Mask THEN given ELSE edit[e].typed
     ELSE UNCHANGED <<credential, given, sent>>
  /\ UNCHANGED <<credentialRequests, crossed>>

DeleteCredential(u) ==
  /\ CredentialRequest /\ credential # Nothing /\ credential.owner = u
  /\ credential' = Nothing /\ given' = Nothing
  /\ UNCHANGED <<edit, sent, crossed>>

(***************************************************************************)
(* Use of the credential in a task of a run                                *)
(***************************************************************************)
TierUnchecked(c) == TRUE
\* resolve_credentials_deduped: only proxy needs no explicit policy.
TierAllowed(c) ==
  /\ c.policy = Nothing => c.tier = "proxy"
  /\ c.policy # Nothing => c.tier \in c.policy

\* validate_credential_execution_tier
HasSecretMaterial(c) ==
  IF c.type = "known" THEN SecretIn(c.data) # Nothing ELSE DOMAIN c.data # {}
Executable(c) == c.tier = "raw" \/ (c.tier = "proxy" /\ ~HasSecretMaterial(c))

\* What of the secret is left in the task: fields of other tiers become null.
Published(c) == IF c.tier = "raw" THEN c ELSE CredentialSummary(c)

\* dispatch_node for a run of user u; a run that may not have the credential
\* fails instead.
Dispatch(u) ==
  /\ get_credential_for_owner(u) # Nothing
  /\ TierAllowed(credential) /\ Executable(credential)
  /\ sent' = sent \cup {Message("task", u, Published(credential))}
  /\ UNCHANGED <<credential, edit, credentialRequests, given, crossed>>

CredentialsNext ==
  \/ \E u \in Owners, t \in CredentialTypes, data \in FieldMaps, tier \in AccessTiers,
        policy \in {Nothing, {"proxy"}, {"proxy", "raw"}} : CreateCredential(u, t, data, tier, policy)
  \/ \E e \in Edits, u \in Owners, t \in CredentialTypes, data \in FieldMaps \cup {Nothing} :
        EditRead(e, u, t, data)
  \/ \E e \in Edits : EditWrite(e)
  \/ \E u \in Owners : DeleteCredential(u) \/ Dispatch(u) \/ ReadCredential(u) \/ ListCredentials(u)

CredentialsSpec == CredentialsInit /\ [][CredentialsNext]_credentialVars

(***************************************************************************)
(* Properties                                                              *)
(***************************************************************************)
\* The stored secret is the one its owner last typed in: edits that send masks,
\* change the type there and back, or change only the url do not alter it.
\* Edits that overlap may bring an old secret back.
LastGivenSecretKept ==
  credential # Nothing /\ given \in Secrets /\ ~crossed => SecretIn(credential.data) = given

\* A secret travels only in a task of the credential's owner, and only when the
\* credential's own policy lists raw access; no answer over HTTP has it.
SecretsTravelOnlyRaw ==
  \A m \in sent : m.secret # Nothing =>
    m.as = "task" /\ m.to = m.owner /\ m.policy # Nothing /\ "raw" \in m.policy
================================================================================
