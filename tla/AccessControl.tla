----------------------------- MODULE AccessControl -----------------------------
(***************************************************************************)
(* The access control policy: one copy in the database, one in the memory  *)
(* of each server, which decides there who may do what.  An update checks  *)
(* the caller against the memory, replaces the stored policy in one        *)
(* transaction and then the memory; every 30 seconds a server loads the    *)
(* policy again, in two queries, and replaces its memory with the result.  *)
(*                                                                         *)
(* A scope is the path it covers: <<>> is global, <<w>> a workflow, <<w, n>>*)
(* a node.  Of the four built-in roles two are kept.                       *)
(***************************************************************************)
EXTENDS Naturals, Sequences, SequencesExt

CONSTANTS
  Servers,
  Users,
  Bootstrap,   \* user of ORBFLOW_BOOTSTRAP_ADMIN
  Policies,    \* policies that callers send
  NoPolicy,    \* memory of a server without access control
  Down,        \* memory of a server that is starting
  MaxUpdates,  \* bound: updates
  MaxOutages   \* bound: failed queries and restarts

Permissions == {"view", "execute", "admin"}
BuiltinRoles == [viewer |-> {"view"}, admin |-> Permissions]

VARIABLES
  auth,      \* an auth token is configured
  stored,    \* the policy in the database
  held,      \* the policy in each server's memory
  load,      \* each server's load in progress
  update,    \* each server's update in progress
  updates, outages,
  everStored, \* history: policies that were ever in the database
  mixed,     \* history: servers whose memory came from a load that a save overtook
  waived     \* history: the bootstrap administrator stored a policy that leaves
             \* nobody in charge of policies

accessVars == <<auth, stored, held, load, update, updates, outages, everStored, mixed, waived>>

EmptyPolicy == [roles |-> [r \in {} |-> {}], bindings |-> {}]
with_defaults == [roles |-> BuiltinRoles, bindings |-> {}]
NoLoad == [step |-> "none"]

Outage == outages < MaxOutages /\ outages' = outages + 1

(***************************************************************************)
(* Decisions                                                               *)
(***************************************************************************)
\* get_role, and whether the role has the permission
RoleGrants(p, role, perm) == role \in DOMAIN p.roles /\ perm \in p.roles[role]

\* RbacPolicy::has_permission: any binding whose scope covers the target will do.
has_permission(p, u, perm, target) ==
  \E b \in p.bindings : b.subject = u /\ IsPrefix(b.scope, target) /\ RoleGrants(p, b.role, perm)

has_admin_binding(p) == \E b \in p.bindings : RoleGrants(p, b.role, "admin")

AdminRoleAllowed(p) ==
  /\ \A r \in DOMAIN BuiltinRoles : r \in DOMAIN p.roles /\ p.roles[r] = BuiltinRoles[r]
  /\ \A r \in DOMAIN p.roles : p.roles[r] # {}
  /\ \A b \in p.bindings : b.role \in DOMAIN p.roles
\* RbacPolicy::validate_update
validate_update(p) ==
  /\ \A r \in DOMAIN BuiltinRoles : r \in DOMAIN p.roles /\ p.roles[r] = BuiltinRoles[r]
  /\ \A r \in DOMAIN p.roles \ DOMAIN BuiltinRoles : "admin" \notin p.roles[r]
  /\ \A r \in DOMAIN p.roles : p.roles[r] # {}
  /\ \A b \in p.bindings : b.role \in DOMAIN p.roles

\* check_permission of the HTTP middleware
check_permission(s, u, perm, target) ==
  \/ held[s] = NoPolicy
  \/ held[s].bindings = {} /\ u = Bootstrap
  \/ held[s].bindings # {} /\ has_permission(held[s], u, perm, target)

\* The last check of update_rbac_policy, which spares the bootstrap administrator
GlobalAdmin(p, u) == \E b \in p.bindings : b.subject = u /\ b.scope = <<>> /\ RoleGrants(p, b.role, "admin")
caller_retains_admin(p, u) == u = Bootstrap \/ GlobalAdmin(p, u)

(***************************************************************************)
(* update_rbac_policy                                                      *)
(***************************************************************************)
Serving(s) == held[s] \notin {NoPolicy, Down}

UpdatePolicy(s, u, p) ==
  /\ update[s].step = "none" /\ updates < MaxUpdates
  /\ Serving(s) /\ check_permission(s, u, "admin", <<"*">>)
  /\ has_admin_binding(p) /\ validate_update(p) /\ caller_retains_admin(p, u)
  /\ update' = [update EXCEPT ![s] = [step |-> "save", policy |-> p]]
  /\ updates' = updates + 1
  /\ UNCHANGED <<auth, stored, held, load, outages, everStored, mixed, waived>>

\* rbac_save_policy: bindings and roles are deleted and inserted in one transaction.
SavePolicy(s) ==
  LET p == update[s].policy IN
  /\ update[s].step = "save" /\ update' = [update EXCEPT ![s].step = "publish"]
  /\ stored' = p /\ everStored' = everStored \cup {p}
  /\ waived' = (waived \/ ~ \E u \in Users : GlobalAdmin(p, u))
  /\ load' = [t \in Servers |-> IF load[t].step = "bindings" THEN [load[t] EXCEPT !.late = TRUE] ELSE load[t]]
  /\ UNCHANGED <<auth, held, updates, outages, mixed>>

SaveFailsUnnoticed(s) ==
  /\ update[s].step = "save" /\ Outage
  /\ update' = [update EXCEPT ![s].step = "publish"]
  /\ UNCHANGED <<auth, stored, held, load, updates, everStored, mixed, waived>>
\* The transaction is rolled back and the caller gets an error.
SaveFails(s) ==
  /\ update[s].step = "save" /\ Outage
  /\ update' = [update EXCEPT ![s] = NoLoad]
  /\ UNCHANGED <<auth, stored, held, load, updates, everStored, mixed, waived>>

PublishPolicy(s) ==
  /\ update[s].step = "publish" /\ update' = [update EXCEPT ![s] = NoLoad]
  /\ held' = [held EXCEPT ![s] = update[s].policy] /\ mixed' = mixed \ {s}
  /\ UNCHANGED <<auth, stored, load, updates, outages, everStored, waived>>

(***************************************************************************)
(* setup_rbac, and the task it leaves behind                               *)
(***************************************************************************)
ReadRoles(s) ==
  /\ held[s] # NoPolicy /\ load[s].step = "none"
  /\ load' = [load EXCEPT ![s] = [step |-> "bindings", roles |-> stored.roles, late |-> FALSE]]
  /\ UNCHANGED <<auth, stored, held, update, updates, outages, everStored, mixed, waived>>

ReadBindings(s) ==
  /\ load[s].step = "bindings"
  /\ load' = [load EXCEPT ![s] = [step |-> "loaded", late |-> load[s].late,
                                  policy |-> [roles |-> load[s].roles, bindings |-> stored.bindings]]]
  /\ UNCHANGED <<auth, stored, held, update, updates, outages, everStored, mixed, waived>>

\* What a server does with a loaded policy: an empty store counts as no access
\* control only when a server starts without authentication.
Adopted(s, p) ==
  CASE p # EmptyPolicy -> p
    [] p = EmptyPolicy /\ auth -> with_defaults
    [] p = EmptyPolicy /\ ~auth /\ held[s] = Down -> NoPolicy
    [] OTHER -> p

AdoptAtStart(s) ==
  /\ load[s].step = "loaded" /\ load' = [load EXCEPT ![s] = NoLoad]
  /\ held' = IF held[s] = Down THEN [held EXCEPT ![s] = Adopted(s, load[s].policy)] ELSE held
  /\ mixed' = IF load[s].late THEN mixed \cup {s} ELSE mixed \ {s}
  /\ UNCHANGED <<auth, stored, update, updates, outages, everStored, waived>>
Adopt(s) ==
  /\ load[s].step = "loaded" /\ load' = [load EXCEPT ![s] = NoLoad]
  /\ held' = [held EXCEPT ![s] = Adopted(s, load[s].policy)]
  /\ mixed' = IF load[s].late THEN mixed \cup {s} ELSE mixed \ {s}
  /\ UNCHANGED <<auth, stored, update, updates, outages, everStored, waived>>

\* A query fails: a server that starts takes the defaults, another one keeps
\* the policy it has.
LoadFails(s) ==
  /\ load[s].step = "bindings" /\ Outage /\ load' = [load EXCEPT ![s] = NoLoad]
  /\ held' = [held EXCEPT ![s] = IF @ = Down THEN with_defaults ELSE @]
  /\ UNCHANGED <<auth, stored, update, updates, everStored, mixed, waived>>

RestartAccess(s) ==
  /\ held[s] # Down /\ Outage
  /\ held' = [held EXCEPT ![s] = Down] /\ mixed' = mixed \ {s}
  /\ load' = [load EXCEPT ![s] = NoLoad] /\ update' = [update EXCEPT ![s] = NoLoad]
  /\ UNCHANGED <<auth, stored, updates, everStored, waived>>

AccessInit ==
  /\ stored \in {p \in Policies : validate_update(p) /\ \E u \in Users : GlobalAdmin(p, u)} \cup {EmptyPolicy}
  /\ auth \in (IF stored = EmptyPolicy THEN BOOLEAN ELSE {TRUE})  \* all that it is read for
  /\ held = [s \in Servers |-> Down]
  /\ load = [s \in Servers |-> NoLoad] /\ update = [s \in Servers |-> NoLoad]
  /\ updates = 0 /\ outages = 0
  /\ everStored = {stored} /\ mixed = {} /\ waived = FALSE

AccessStep(s) == \/ SavePolicy(s) \/ PublishPolicy(s) \/ ReadRoles(s) \/ ReadBindings(s) \/ Adopt(s)

AccessNext ==
  \E s \in Servers :
    \/ \E u \in Users, p \in Policies : UpdatePolicy(s, u, p)
    \/ AccessStep(s) \/ SaveFails(s) \/ LoadFails(s) \/ RestartAccess(s)

\* The interval of 30 seconds always comes round, and a request that has been
\* admitted is carried out.
AccessFairness == \A s \in Servers : WF_accessVars(AccessStep(s))

AccessSpec == AccessInit /\ [][AccessNext]_accessVars /\ AccessFairness

(***************************************************************************)
(* Properties                                                              *)
(***************************************************************************)
Targets == {<<"*">>, <<"w">>, <<"w", "n">>}

\* What a server lets a user do is what some policy that was once in the
\* database lets that user do: neither an update whose save failed nor a
\* restart gives anything more.  Excepted is a memory filled by a load whose
\* two queries a save fell between.
GrantsWereStored ==
  \A s \in Servers : Serving(s) /\ s \notin mixed =>
    \A u \in Users, perm \in Permissions, t \in Targets :
      has_permission(held[s], u, perm, t) => \E p \in everStored : has_permission(p, u, perm, t)

\* As long as the bootstrap administrator has not given it away, every server
\* whose policy binds anybody admits somebody to change the policy, even when
\* its memory mixes the roles of one policy with the bindings of another.  (Only
\* the first policy of all can meet a memory that has loaded no roles yet.)
SomeoneInCharge ==
  ~waived => \A s \in Servers : Serving(s) /\ held[s].bindings # {} /\ DOMAIN held[s].roles # {} =>
               \E u \in Users : check_permission(s, u, "admin", <<"*">>)

\* When updates and outages end, every server that has access control comes to
\* hold the stored policy and keeps it, whatever updates and loads overlapped.
ServersAgree ==
  (\E s \in Servers : held[s] # Down) ~>
    [](\A s \in Servers : held[s] \in {NoPolicy, stored} \cup (IF stored = EmptyPolicy THEN {with_defaults} ELSE {}))
================================================================================
