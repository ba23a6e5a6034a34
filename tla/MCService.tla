----------------------------- MODULE MCService -----------------------------
(* The front ends with two handler threads, three requests and the roles   *)
(* of two tenants.                                                         *)
EXTENDS Service, TLC

CONSTANTS d1, d2, t1, t2

MCPrincipal ==
  "dev" :> [tenant |-> "acme", roles |-> {"developer"}]
    @@ "boss" :> [tenant |-> "acme", roles |-> {"admin"}]
    @@ "ops" :> [tenant |-> "zen", roles |-> {"operator", "viewer"}]
    @@ "root" :> [tenant |-> "*", roles |-> {"admin"}]

MCDemand == {d1, d2}

Of(token, front, method, path) ==
  [token |-> token, front |-> front, method |-> method, path |-> path,
   header |-> None, query |-> None, body |-> None, urp |-> None, inner |-> None,
   large |-> FALSE, hold |-> FALSE, mode |-> "enforce", ttl |-> 1, approves |-> d1,
   allowDelete |-> FALSE, redacted |-> FALSE]

Writes == {
  [Of("dev", "control-plane", "POST", <<"work-units">>) EXCEPT !.body = "acme", !.hold = TRUE],
  Of("dev", "api", "POST", <<"work-units">>),
  [Of("root", "api", "POST", <<"work-units">>) EXCEPT !.body = "zen"],
  [Of("ops", "api", "POST", <<"work-units", "{id}", "plan">>) EXCEPT !.header = "zen"],
  [Of("boss", "control-plane", "POST", <<"work-units", "{id}", "execute">>) EXCEPT !.mode = "observe"],
  [Of("ops", "worker", "POST", <<"work-units", "execute">>) EXCEPT !.body = "zen", !.mode = "shadow"],
  [Of("dev", "gateway-s3", "POST", <<"s3", "objects">>) EXCEPT !.hold = TRUE, !.urp = "acme"],
  [Of("root", "control-plane", "POST", <<"approvals">>) EXCEPT !.body = "zen"],
  Of("boss", "api", "POST", <<"approvals">>),
  [Of("root", "api", "POST", <<"approvals">>) EXCEPT !.body = "acme", !.ttl = 2],
  Of("ops", "control-plane", "POST", <<"approvals">>),
  Of("boss", "control-plane", "POST", <<"plugins", "register">>),
  [Of("root", "api", "POST", <<"plugins", "register">>) EXCEPT !.inner = "zen"],
  Of("ops", "scheduler", "POST", <<"scheduler", "submit">>),
  [Of("ops", "api", "POST", <<"scheduler", "submit">>) EXCEPT !.body = "zen"],
  [Of("boss", "gateway-s3", "POST", <<"s3", "objects", "delete">>) EXCEPT !.allowDelete = TRUE],
  [Of("root", "api", "POST", <<"s3", "objects", "delete">>) EXCEPT !.body = "zen", !.allowDelete = TRUE],
  Of("boss", "api", "POST", <<"s3", "objects", "delete">>) }

Reads == {
  [Of("dev", "control-plane", "GET", <<"work-units">>) EXCEPT !.query = "zen"],
  Of("dev", "api", "GET", <<"work-units">>),
  Of("ops", "control-plane", "GET", <<"manifests">>),
  [Of("root", "api", "GET", <<"manifests", "{id}">>) EXCEPT !.redacted = TRUE],
  [Of("root", "control-plane", "POST", <<"ledger", "query">>) EXCEPT !.body = "acme"],
  Of("dev", "gateway-s3", "POST", <<"s3", "objects", "get">>),
  Of("root", "gateway-s3", "POST", <<"s3", "objects", "list">>),
  Of("ops", "scheduler", "GET", <<"scheduler", "jobs">>),
  Of("ops", "api", "GET", <<"approvals">>),
  [Of("dev", "api", "POST", <<"manifests", "{id}", "rehydrate">>) EXCEPT !.large = TRUE],
  Of("nobody", "api", "GET", <<"models">>),
  Of("root", "worker", "GET", <<"platforms">>),
  Of("root", "api", "GET", <<"platforms">>) }

MCRequest == Writes \cup Reads

MCSymmetry == Permutations(Thread)
=============================================================================
