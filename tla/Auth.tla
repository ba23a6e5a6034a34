-------------------------------- MODULE Auth --------------------------------
(***************************************************************************)
(* Who may do what (python/urp/auth.py): a token stands for a principal,   *)
(* which has a tenant, "*" for all of them, and roles; a role has          *)
(* permissions; a request needs one, which its method and path decide.     *)
(*                                                                         *)
(* A path is the sequence of its segments after /v1, with "{id}" for an    *)
(* identifier.                                                             *)
(***************************************************************************)
EXTENDS Common, Sequences

CONSTANT Principal  \* what each configured token stands for: [tenant, roles]

(* from_env: a token has a tenant.                                         *)
ASSUME PrincipalAssumption == \A token \in DOMAIN Principal : Principal[token].tenant # None

Reading == {"work_unit:read", "manifest:read"}
Working == {"work_unit:write", "cache:use", "object:read", "object:write", "auth:self"}
Reporting == {"ledger:query", "reports:read", "observability:read"}

(* role_permissions: "*" are all of them.                                  *)
Permissions(role) ==
  CASE role = "admin" -> {"*"}
    [] role = "operator" ->
         Reading \cup Working \cup Reporting
           \cup {"manifest:rehydrate", "manifest:sensitive", "policy:evaluate",
                 "scheduler:submit", "approval:read"}
    [] role = "viewer" -> Reading \cup Reporting \cup {"auth:self"}
    [] role = "developer" ->
         Reading \cup Working \cup {"manifest:rehydrate", "manifest:sensitive"}
    [] role = "gateway" -> (Working \cup {"manifest:read"})
    [] OTHER -> {}

(* A tenant that is None is not compared.                                  *)
MayActFor(principal, tenant) == tenant = None \/ principal.tenant \in {tenant, "*"}

Allowed(principal, action, tenant) ==
  /\ MayActFor(principal, tenant)
  /\ \E role \in principal.roles : {"*", action} \cap Permissions(role) # {}

(* bearer_token and authenticate.                                          *)
Authentic(token) == token \in DOMAIN Principal

(* action_for_request, by the method and the prefixes of the path.         *)
Area(path) == Head(path)

(* Mutant of ActionForRequest: the method is not looked at.                *)
ActionForPath(method, path) ==
  CASE Area(path) = "approvals" -> "approval:read"
    [] Area(path) = "plugins" -> "plugin:read"
    [] Area(path) \in {"work-units", "plans"} -> "work_unit:read"
    [] Area(path) = "manifests" -> "manifest:read"
    [] Area(path) = "s3" -> "object:write"
    [] Area(path) = "scheduler" -> "reports:read"
    [] OTHER -> "auth:self"

ActionForRequest(method, path) ==
  LET reads == method = "GET"
      last == path[Len(path)]
  IN  CASE Area(path) \in {"admin", "kms"} -> "admin:manage"
        [] path = <<"auth", "check">> -> "auth:self"
        [] Area(path) = "approvals" -> IF reads THEN "approval:read" ELSE "approval:manage"
        [] Area(path) = "plugins" -> IF reads THEN "plugin:read" ELSE "plugin:manage"
        [] Area(path) = "policies" ->
             IF Len(path) = 1 \/ path[2] # "bundles" THEN "policy:evaluate"
             ELSE IF reads THEN "policy:read" ELSE "policy:manage"
        [] Area(path) = "ledger" -> "ledger:query"
        [] Area(path) = "manifests" ->
             IF last = "rehydrate" THEN "manifest:rehydrate" ELSE "manifest:read"
        [] Area(path) \in {"work-units", "plans"} ->
             IF reads THEN "work_unit:read" ELSE "work_unit:write"
        [] Area(path) = "s3" ->
             IF path = <<"s3", "objects", "delete">> THEN "object:delete"
             ELSE IF last \in {"get", "head", "range", "list"} THEN "object:read"
             ELSE "object:write"
        [] Area(path) \in {"cache", "chat", "completions", "embeddings", "models"} -> "cache:use"
        [] Area(path) = "scheduler" -> IF reads THEN "reports:read" ELSE "scheduler:submit"
        [] Area(path) = "reports" -> "reports:read"
        [] Area(path) \in {"traces", "logs", "routes"} -> "observability:read"
        [] OTHER -> "admin:manage"

(* current_tenant: None for a principal that may act for all.              *)
TenantOf(principal) == IF principal.tenant = "*" THEN None ELSE principal.tenant
=============================================================================
