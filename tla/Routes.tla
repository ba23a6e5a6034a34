------------------------------- MODULE Routes -------------------------------
(***************************************************************************)
(* The two HTTP front ends: the services of python/urp/service_runtime.py, *)
(* each with some of the routes, and python/urp/api.py, which has all of   *)
(* them.  A request is authorized for the tenant it names, and then does   *)
(* one operation.                                                          *)
(***************************************************************************)
EXTENDS Auth

(* Operations.  Those done "elsewhere" belong to other modules (PolicyStore, *)
(* KeyStore, Recovery, Gateway, AnswerCache, Multipart) or change nothing. *)
Do(operation) == [does |-> operation, kind |-> "none"]
List(kind) == [does |-> "list", kind |-> kind]
Read(kind) == [does |-> "read", kind |-> kind]
Elsewhere == Do("elsewhere")

UnitRoutes == {
  <<"POST", <<"work-units">>, Do("create")>>,
  <<"GET", <<"work-units">>, List("unit")>>,
  <<"GET", <<"work-units", "{id}">>, Read("unit")>>,
  <<"POST", <<"work-units", "{id}", "plan">>, Do("plan stored")>>,
  <<"POST", <<"work-units", "{id}", "execute">>, Do("execute stored")>>,
  <<"POST", <<"plans">>, Do("plan")>>,
  <<"GET", <<"plans">>, List("plan")>>,
  <<"GET", <<"plans", "{id}">>, Read("plan")>> }

WorkRoutes == {
  <<"POST", <<"work-units", "plan">>, Do("plan")>>,
  <<"POST", <<"work-units", "execute">>, Do("execute")>>,
  <<"POST", <<"benchmarks", "run">>, Elsewhere>> }

ManifestRoutes == {
  <<"GET", <<"manifests">>, List("manifest")>>,
  <<"GET", <<"manifests", "explore">>, List("manifest")>>,
  <<"GET", <<"manifests", "{id}">>, Read("manifest")>>,
  <<"POST", <<"manifests", "export">>, List("manifest")>>,
  <<"POST", <<"manifests", "{id}", "rehydrate">>, Read("content")>>,
  <<"POST", <<"ledger", "query">>, List("event")>>,
  <<"GET", <<"ledger", "stream">>, List("event")>> }

ReportRoutes ==
  {<<"GET", path, List("event")>> : path \in {<<"reports", "savings">>, <<"reports", "dashboard">>}}
  \cup {<<"POST", path, Elsewhere>> :
          path \in {<<"traces", "query">>, <<"logs", "query">>, <<"auth", "check">>}}
  \cup {<<"GET", <<"routes", "feedback">>, Elsewhere>>}

PolicyRoutes ==
  {<<"POST", <<"policies">> \o path, Elsewhere>> :
     path \in {<<"evaluate">>, <<"validate">>, <<"bundles">>, <<"bundles", "{id}", "rollback">>,
               <<"bundles", "{id}", "reload">>}}
  \cup {<<"GET", <<"policies", "bundles">>, Elsewhere>>}

ApprovalRoutes == {
  <<"POST", <<"approvals">>, Do("issue")>>,
  <<"GET", <<"approvals">>, List("approval")>>,
  <<"GET", <<"approvals", "{id}">>, Read("approval")>> }

AdministrationRoutes ==
  {<<"POST", <<"plugins", "register">>, Do("register")>>}
  \cup {<<"POST", path, Elsewhere>> :
          path \in {<<"kms", "keys">>, <<"admin", "backup">>, <<"admin", "restore">>}}
  \cup {<<"GET", path, Elsewhere>> :
          path \in {<<"plugins">>, <<"adapters", "conformance">>, <<"conformance", "ai">>,
                    <<"admin", "readiness">>, <<"platforms">>, <<"platforms", "readiness">>,
                    <<"platforms", "matrix">>}}

CacheRoutes ==
  {<<"POST", <<"cache">> \o path, Elsewhere>> :
     path \in {<<"exact", "lookup">>, <<"semantic", "lookup">>, <<"store">>}}

ObjectRoutes ==
  {<<"POST", <<"s3", "objects">>, Do("put")>>,
   <<"POST", <<"s3", "objects", "delete">>, Do("delete")>>,
   <<"POST", <<"s3", "objects", "list">>, List("object")>>}
  \cup {<<"POST", <<"s3", "objects", path>>, Read("object")>> : path \in {"head", "get", "range"}}
  \cup {<<"POST", <<"s3", "multipart", path>>, Elsewhere>> :
          path \in {"create", "part", "complete", "abort"}}

SchedulerRoutes == {
  <<"POST", <<"scheduler", "submit">>, Do("submit")>>,
  <<"GET", <<"scheduler", "jobs">>, List("job")>> }

ModelRoutes ==
  {<<"GET", <<"models">>, Elsewhere>>}
  \cup {<<"POST", path, Elsewhere>> :
          path \in {<<"chat", "completions">>, <<"completions">>, <<"embeddings">>}}

ControlPlaneRoutes ==
  UnitRoutes \cup WorkRoutes \cup ManifestRoutes \cup ReportRoutes \cup PolicyRoutes
    \cup ApprovalRoutes \cup AdministrationRoutes \cup CacheRoutes

Front == {"control-plane", "worker", "gateway-s3", "scheduler", "gateway-ai", "api"}

(* Which routes a front end answers, by method.                            *)
RoutesOf(front) ==
  CASE front = "control-plane" -> ControlPlaneRoutes
    [] front = "worker" -> WorkRoutes
    [] front = "gateway-s3" -> ObjectRoutes
    [] front = "scheduler" -> SchedulerRoutes
    [] front = "gateway-ai" -> ModelRoutes
    [] front = "api" -> ControlPlaneRoutes \cup ObjectRoutes \cup SchedulerRoutes \cup ModelRoutes

OperationsAt(q) == {route[3] : route \in {r \in RoutesOf(q.front) : r[1] = q.method /\ r[2] = q.path}}

(* The tenant a request names, for which it is authorized.  A service      *)
(* looks into the query of a GET, the API into that of any request.        *)
Or(a, b) == IF a # None THEN a ELSE b

TenantNamed(q) ==
  IF q.method = "GET" THEN Or(q.query, q.header)
  ELSE IF q.front = "api" THEN Or(q.body, Or(q.urp, Or(q.query, q.header)))
  ELSE Or(q.body, Or(q.urp, q.header))

(* Mutant of MayUse: the tenant is not compared.                           *)
MayUseByRole(q) == Allowed(Principal[q.token], ActionForRequest(q.method, q.path), None)

(* require.                                                                *)
MayUse(q) == Allowed(Principal[q.token], ActionForRequest(q.method, q.path), TenantNamed(q))

(* The status a request is refused with, 200 when it is not.               *)
Admission(q) ==
  IF q.large THEN 413
  ELSE IF ~Authentic(q.token) THEN 401
  ELSE IF ~MayUse(q) THEN 403
  ELSE IF OperationsAt(q) = {} THEN 404
  ELSE 200

(* _payload_tenant: the tenant of the S3 adapter.                          *)
PayloadTenant(q) == Or(q.body, Or(TenantOf(Principal[q.token]), "local"))

(* A missing member of the body is a KeyError, which the API does not      *)
(* handle.                                                                 *)
MemberMissing(q) == IF q.front = "api" THEN 500 ELSE 404
=============================================================================
