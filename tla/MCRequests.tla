----------------------------- MODULE MCRequests -----------------------------
(***************************************************************************)
(* What requests do to stored records, part by part: definitions and       *)
(* change requests, credentials, budgets, the audit trail, access control, *)
(* lists and reads, the HTTP layers and the JSON-RPC server.  In the code  *)
(* they meet only in tables and limiters of their own, so each runs while  *)
(* the others stay as they are.                                            *)
(***************************************************************************)
EXTENDS Authoring, Credentials, Budgets, AuditTrail, MCAccess, Queries, HttpApi, RpcServer

VARIABLE part   \* the one that runs

SomeDef == CHOOSE d \in Defs : TRUE
RequestsInit ==
  /\ part \in {"authoring", "credentials", "budgets", "audit", "access", "queries", "http", "rpc"}
  /\ \/ part = "budgets"
     \/ part # "budgets" /\ budget = [b \in BudgetIds |-> NoBudget]
  /\ \/ part = "access"
     \/ part # "access" /\ stored = EmptyPolicy /\ auth = TRUE
  /\ Init /\ CredentialsInit /\ BudgetsInit /\ AuditInit /\ AccessInit /\ QueriesInit /\ HttpInit /\ RpcInit
  /\ part # "authoring" => row.def = SomeDef
  /\ part # "audit" => ~rewritten

AuthoringPart == part = "authoring" /\ Next
  /\ UNCHANGED <<part, credentialVars, budgetVars, auditVars, accessVars, queryVars, httpVars, rpcVars>>
CredentialsPart == part = "credentials" /\ CredentialsNext
  /\ UNCHANGED <<part, vars, budgetVars, auditVars, accessVars, queryVars, httpVars, rpcVars>>
BudgetsPart == part = "budgets" /\ BudgetsNext
  /\ UNCHANGED <<part, vars, credentialVars, auditVars, accessVars, queryVars, httpVars, rpcVars>>
AuditPart == part = "audit" /\ AuditNext
  /\ UNCHANGED <<part, vars, credentialVars, budgetVars, accessVars, queryVars, httpVars, rpcVars>>
AccessPart == part = "access" /\ AccessNext
  /\ UNCHANGED <<part, vars, credentialVars, budgetVars, auditVars, queryVars, httpVars, rpcVars>>
QueriesPart == part = "queries" /\ QueriesNext
  /\ UNCHANGED <<part, vars, credentialVars, budgetVars, auditVars, accessVars, httpVars, rpcVars>>
HttpPart == part = "http" /\ HttpNext
  /\ UNCHANGED <<part, vars, credentialVars, budgetVars, auditVars, accessVars, queryVars, rpcVars>>
RpcPart == part = "rpc" /\ RpcNext
  /\ UNCHANGED <<part, vars, credentialVars, budgetVars, auditVars, accessVars, queryVars, httpVars>>

RequestsNext ==
  \/ AuthoringPart \/ CredentialsPart \/ BudgetsPart \/ AuditPart
  \/ AccessPart \/ QueriesPart \/ HttpPart \/ RpcPart

RequestsSpec ==
  RequestsInit /\ [][RequestsNext]_<<part, vars, credentialVars, budgetVars, auditVars,
                                    accessVars, queryVars, httpVars, rpcVars>>
=============================================================================
