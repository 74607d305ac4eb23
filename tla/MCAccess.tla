------------------------------- MODULE MCAccess --------------------------------
\* Policies for TLC: a global administrator and a custom role; the other user as
\* administrator; a custom role with Admin; an administrator of one workflow.
EXTENDS AccessControl

Bind(u, r, sc) == [subject |-> u, role |-> r, scope |-> sc]
With(r, perms) == [x \in {"viewer", "admin", r} |-> IF x = r THEN perms ELSE BuiltinRoles[x]]
MCPolicies == {
  [roles |-> With("ops", {"execute"}), bindings |-> {Bind("ann", "admin", <<>>)}],
  [roles |-> With("ops", {"view"}), bindings |-> {Bind("bob", "admin", <<>>), Bind("ann", "ops", <<"w">>)}],
  [roles |-> With("ops", {"admin"}), bindings |-> {Bind("bob", "ops", <<>>)}],
  [roles |-> BuiltinRoles, bindings |-> {Bind("bob", "admin", <<"w">>)}]}
================================================================================
