------------------------------- MODULE Service -------------------------------
(***************************************************************************)
(* The HTTP front ends over one state directory (python/urp/api.py,        *)
(* service_runtime.py), and the stores their handlers write to: work       *)
(* units, plans, manifests, approvals, scheduler jobs and plugins.  A      *)
(* handler is a sequence of calls, each with a critical section of its     *)
(* own; every store compares the tenant of what it writes or reads with    *)
(* that of the principal bound to the thread.                              *)
(*                                                                         *)
(* What a plan is (Planner), how an object is stored and what else its run *)
(* tells the ledger (Execute), and the ledger's order (Ledger) are not     *)
(* repeated here.                                                          *)
(***************************************************************************)
EXTENDS Routes, Integers

CONSTANTS
  Thread,      \* handler threads
  Request,     \* the requests that may arrive
  Demand,      \* the approvals a policy may demand: [contract, bundle]
  MaxRecords,  \* bound: how many records are stored
  MaxRequests, \* bound: how many requests arrive
  MaxTime      \* bound: the last tick of the clock

ASSUME ServiceAssumption ==
  /\ MaxRecords \in Nat /\ MaxRequests \in Nat /\ MaxTime \in Nat
  /\ None \notin Demand
  /\ \A q \in Request : q.front \in Front /\ (q.method = "GET" => q.body = None)

Id == 1..MaxRecords

VARIABLES
  calls,    \* what each thread handles, or has answered
  records,  \* the files of the stores
  ledger,   \* the set of its events
  lost,     \* history: events never written because their call ended before
  requests, \* counts the requests
  clock     \* the time approvals are compared with

vars == <<calls, records, ledger, lost, requests, clock>>

Init ==
  /\ calls = [t \in Thread |-> None]
  /\ records = [id \in Id |-> None]
  /\ ledger = {} /\ lost = {}
  /\ requests = 0 /\ clock = 0

Stored == {id \in Id : records[id] # None}
Exists(id, kind) == id \in Id /\ records[id] # None /\ records[id].kind = kind

Busy(t) == calls[t] # None /\ calls[t].at # "answered"
At(t, stage) == calls[t] # None /\ calls[t].at = stage
Caller(t) == Principal[calls[t].q.token]

(* The answer: its status, and whom it tells of the records of a tenant,   *)
(* with or without what is redacted.                                       *)
Response(status, told) == [at |-> "answered", status |-> status, told |-> told]

Answer(t, status) == calls' = [calls EXCEPT ![t] = Response(status, {})]
Go(t, stage) == calls' = [calls EXCEPT ![t].at = stage]

(* _enforce_tenant, _enforce_plan_tenant, _enforce_request_tenant and the  *)
(* same comparison in the ledger, the scheduler and the approval store.    *)
Bound(t, tenant) == TenantOf(Caller(t)) \in {None, tenant}
-----------------------------------------------------------------------------
(* A request arrives, is authorized, and its body is taken apart.  ref is  *)
(* the identifier in it, of the record it is about or of an approval; 0 is *)
(* one that is missing or unknown.                                         *)
UnitOf(q, ref) == [tenant |-> q.body, hold |-> q.hold, approval |-> ref, id |-> 0]

(* put_object: a tag may hold the object, nothing names an approval.       *)
ObjectUnit(q) == [tenant |-> PayloadTenant(q), hold |-> q.hold, approval |-> 0, id |-> 0]

ApprovalTenant(q) == Or(q.body, TenantOf(Principal[q.token]))

Begin(q, ref, stage, unit) ==
  [at |-> stage, q |-> q, ref |-> ref, unit |-> unit, demand |-> None, read |-> None,
   event |-> None, then |-> "answer"]

Handle(q, ref, operation) ==
  LET does == operation.does
      refuse(status) == Response(status, {})
  IN  CASE does \in {"create", "plan", "execute"} ->
             IF q.body = None
               THEN refuse(MemberMissing(q))
               ELSE Begin(q, ref, IF does = "create" THEN "put unit"
                                  ELSE IF does = "plan" THEN "put plan" ELSE "admit",
                          UnitOf(q, ref))
        [] does \in {"plan stored", "execute stored"} -> Begin(q, ref, does, None)
        [] does = "put" -> Begin(q, 0, "admit", ObjectUnit(q))
        [] does = "issue" ->
             IF ApprovalTenant(q) = None \/ q.ttl \notin 1..MaxTime
               THEN refuse(400)
               ELSE Begin(q, ref, "issue", None)
        [] does = "register" -> Begin(q, 0, "register", None)
        [] does = "submit" -> Begin(q, 0, "submit", None)
        [] does = "delete" -> Begin(q, ref, "delete", None)
        [] does = "list" -> [Begin(q, 0, "list", None) EXCEPT !.read = operation.kind]
        [] does = "read" -> [Begin(q, ref, "read", None) EXCEPT !.read = operation.kind]
        [] OTHER -> refuse(200)

Arrive(t, q, ref) ==
  /\ ~Busy(t) /\ requests < MaxRequests
  /\ requests' = requests + 1
  /\ IF Admission(q) # 200
       THEN calls' = [calls EXCEPT ![t] = Response(Admission(q), {})]
       ELSE \E operation \in OperationsAt(q) :
              calls' = [calls EXCEPT ![t] = Handle(q, ref, operation)]
  /\ UNCHANGED <<records, ledger, lost, clock>>
-----------------------------------------------------------------------------
(* A store writes a new record; then the call has an event to append, or   *)
(* ends.                                                                   *)
Insert(id, record) ==
  /\ records[id] = None /\ \A other \in 1..(id - 1) : records[other] # None
  /\ records' = [records EXCEPT ![id] = record]

Event(t, type, tenant, about) ==
  [type |-> type, tenant |-> tenant, about |-> about, by |-> calls[t].q.token]

ThenAppend(t, event, then) ==
  calls' = [calls EXCEPT ![t] = [@ EXCEPT !.at = "append", !.event = event, !.then = then]]

(* put of a work unit, a plan, a manifest or an approval.                  *)
Put(t, record, type, then) ==
  /\ IF Bound(t, record.tenant)
       THEN \E id \in Id :
              Insert(id, record) /\ ThenAppend(t, Event(t, type, record.tenant, id), then)
       ELSE Answer(t, 403) /\ UNCHANGED records
  /\ UNCHANGED <<ledger, lost, requests, clock>>

(* append of the ledger: another tenant's event is refused.                *)
AppendEvent(t) ==
  /\ At(t, "append")
  /\ IF Bound(t, calls[t].event.tenant)
       THEN /\ ledger' = ledger \cup {calls[t].event}
            /\ IF calls[t].then = "answer" THEN Answer(t, 200)
               ELSE IF calls[t].then = "deny" THEN Answer(t, 403)
               ELSE Go(t, calls[t].then)
       ELSE Answer(t, 403) /\ UNCHANGED ledger
  /\ UNCHANGED <<records, lost, requests, clock>>

(* create_work_unit: the store, then work_unit.created.                    *)
PutUnit(t) ==
  /\ At(t, "put unit")
  /\ Put(t, [kind |-> "unit", tenant |-> calls[t].unit.tenant, by |-> calls[t].q.token,
             hold |-> calls[t].unit.hold, approval |-> calls[t].unit.approval],
         "work_unit.created", "answer")

(* The work unit store's get, for the routes of stored units.              *)
LoadUnit(t) ==
  /\ At(t, "plan stored") \/ At(t, "execute stored")
  /\ LET id == calls[t].ref
     IN  IF ~Exists(id, "unit") THEN Answer(t, 404)
         ELSE IF ~Bound(t, records[id].tenant) THEN Answer(t, 403)
         ELSE calls' = [calls EXCEPT ![t] =
                [@ EXCEPT !.unit = [tenant |-> records[id].tenant, hold |-> records[id].hold,
                                    approval |-> records[id].approval, id |-> id],
                          !.at = IF calls[t].at = "plan stored" THEN "put plan" ELSE "admit"]]
  /\ UNCHANGED <<records, ledger, lost, requests, clock>>

(* store_plan_with_audit, for planning or within an execution.             *)
Executing(t) == calls[t].demand # None

PutPlan(t) ==
  /\ At(t, "put plan")
  /\ Put(t, [kind |-> "plan", tenant |-> calls[t].unit.tenant, by |-> calls[t].q.token],
         "plan.created", IF Executing(t) THEN "put manifest" ELSE "answer")
-----------------------------------------------------------------------------
(* Execution.                                                              *)

(* Mutant of Verified: the tenant is not compared.                         *)
VerifiedForAnyTenant(unit, demand) ==
  /\ Exists(unit.approval, "approval")
  /\ LET approval == records[unit.approval]
     IN  /\ approval.until > clock
         /\ approval.unit \in {0, unit.id}
         /\ approval.demand = demand

(* ApprovalStore.verify.                                                   *)
Verified(unit, demand) ==
  /\ Exists(unit.approval, "approval")
  /\ LET approval == records[unit.approval]
     IN  /\ approval.until > clock
         /\ approval.tenant = unit.tenant
         /\ approval.unit \in {0, unit.id}
         /\ approval.demand = demand

(* _require_policy_approval, whatever the policy in force demands now.     *)
Admit(t, demand) ==
  /\ At(t, "admit")
  /\ LET unit == calls[t].unit
     IN  IF demand = "nothing" \/ Verified(unit, demand)
           THEN calls' = [calls EXCEPT ![t] =
                  [@ EXCEPT !.at = "put plan", !.demand = [approval |-> demand, at |-> clock]]]
         ELSE IF unit.approval = 0
           THEN ThenAppend(t, Event(t, "policy.denied", unit.tenant, 0), "deny")
         ELSE Answer(t, 403)
  /\ UNCHANGED <<records, ledger, lost, requests, clock>>

(* What the lineage of a manifest says of a legal hold: that of an         *)
(* observation is empty.                                                   *)
LineageHold(mode, unit) == unit.hold /\ mode # "observe"

ModeOf(q) == IF q.front = "gateway-s3" \/ q.path = <<"s3", "objects">> THEN "enforce" ELSE q.mode

(* The manifest; held is a history of what its unit says.                  *)
PutManifest(t) ==
  /\ At(t, "put manifest")
  /\ LET unit == calls[t].unit
         mode == ModeOf(calls[t].q)
     IN  Put(t, [kind |-> "manifest", tenant |-> unit.tenant, by |-> calls[t].q.token,
                 hold |-> LineageHold(mode, unit), held |-> unit.hold, unit |-> unit.id,
                 approval |-> unit.approval, demand |-> calls[t].demand,
                 state |-> IF mode = "observe" THEN "planned"
                           ELSE IF mode = "shadow" THEN "superseded" ELSE "active"],
             "manifest.written", "answer")
-----------------------------------------------------------------------------
(* Mutant of Issue: the handler appends no event.                          *)
IssueUnheard(t) ==
  /\ At(t, "issue")
  /\ LET q == calls[t].q
     IN  IF Bound(t, ApprovalTenant(q))
           THEN (\E id \in Id :
                   Insert(id, [kind |-> "approval", tenant |-> ApprovalTenant(q), by |-> q.token,
                               demand |-> q.approves, unit |-> calls[t].ref,
                               until |-> clock + q.ttl]))
                /\ Answer(t, 200)
           ELSE Answer(t, 403) /\ UNCHANGED records
  /\ UNCHANGED <<ledger, lost, requests, clock>>

(* ApprovalStore.issue, then approval.issued.                              *)
Issue(t) ==
  /\ At(t, "issue")
  /\ LET q == calls[t].q
     IN  Put(t, [kind |-> "approval", tenant |-> ApprovalTenant(q), by |-> q.token,
                 demand |-> q.approves, unit |-> calls[t].ref, until |-> clock + q.ttl],
             "approval.issued", "answer")

Replace(id, record) ==
  /\ Exists(id, record.kind)
  /\ records' = [records EXCEPT ![id] = record]

(* PluginRegistry.register: the descriptor, in place of one that has the   *)
(* same name, belongs to nobody, its event to the tenant the descriptor    *)
(* names, which the request need not.                                      *)
Register(t) ==
  /\ At(t, "register")
  /\ LET named == Or(calls[t].q.inner, "system")
         plugin == [kind |-> "plugin", tenant |-> "*", by |-> calls[t].q.token]
     IN  \E id \in Id :
           /\ Insert(id, plugin) \/ Replace(id, plugin)
           /\ ThenAppend(t, Event(t, "plugin.registered", named, id), "answer")
  /\ UNCHANGED <<ledger, lost, requests, clock>>

(* SchedulerStore.submit; a job without a tenant is that of "local".       *)
Submit(t) ==
  /\ At(t, "submit")
  /\ LET tenant == Or(calls[t].q.body, "local")
     IN  IF Bound(t, tenant)
           THEN (\E id \in Id :
                   Insert(id, [kind |-> "job", tenant |-> tenant, by |-> calls[t].q.token]))
                /\ Answer(t, 200)
           ELSE Answer(t, 403) /\ UNCHANGED records
  /\ UNCHANGED <<ledger, lost, requests, clock>>
-----------------------------------------------------------------------------
(* Mutant of Kept: a hold does not keep it.                                *)
KeptUnlessAllowed(record, q) == ~q.allowDelete

(* What delete_object refuses to delete.                                   *)
Kept(record, q) == record.hold \/ ~q.allowDelete

(* delete_object reads the manifest ...                                    *)
LoadDoomed(t) ==
  /\ At(t, "delete")
  /\ LET id == calls[t].ref
     IN  IF ~Exists(id, "manifest") THEN Answer(t, 404)
         ELSE IF ~Bound(t, records[id].tenant) \/ records[id].tenant # PayloadTenant(calls[t].q)
           THEN Answer(t, 403)
         ELSE IF Kept(records[id], calls[t].q)
           THEN ThenAppend(t, Event(t, "s3.delete.denied", records[id].tenant, id), "answer")
         ELSE calls' = [calls EXCEPT ![t] = [@ EXCEPT !.at = "tombstone", !.read = records[id]]]
  /\ UNCHANGED <<records, ledger, lost, requests, clock>>

(* ... and later stores what it read as a tombstone.                       *)
PutTombstone(t) ==
  /\ At(t, "tombstone")
  /\ LET id == calls[t].ref
     IN  /\ records' = [records EXCEPT ![id] = [calls[t].read EXCEPT !.state = "tombstoned"]]
         /\ ThenAppend(t, Event(t, "s3.delete.tombstoned", calls[t].read.tenant, id), "answer")
  /\ UNCHANGED <<ledger, lost, requests, clock>>
-----------------------------------------------------------------------------
(* Reads.  Manifests are told in clear to those who may see them so.       *)
InClear(q, tenant) ==
  ~q.redacted /\ Allowed(Principal[q.token], "manifest:sensitive", tenant)

Tell(t, kind, tenants) ==
  LET q == calls[t].q
  IN  calls' = [calls EXCEPT ![t] = Response(200,
        {[token |-> q.token, tenant |-> tenant,
          clear |-> kind = "manifest" /\ InClear(q, tenant)] : tenant \in tenants})]

KindRead(kind) == IF kind \in {"content", "object"} THEN "manifest" ELSE kind

ReadRecord(t) ==
  /\ At(t, "read")
  /\ LET kind == calls[t].read
         id == calls[t].ref
     IN  IF ~Exists(id, KindRead(kind)) THEN Answer(t, 404)
         ELSE IF ~Bound(t, records[id].tenant) THEN Answer(t, 403)
         ELSE IF kind = "object" /\ records[id].tenant # PayloadTenant(calls[t].q)
           THEN Answer(t, 403)
         ELSE Tell(t, kind, {records[id].tenant})
  /\ UNCHANGED <<records, ledger, lost, requests, clock>>

(* Which of the stored tenants a list shows: those of the principal, and   *)
(* of them what is asked for; the tenant asked for replaces that of the    *)
(* principal where units and approvals are listed.                         *)
Asked(q) == IF q.method = "GET" THEN q.query ELSE q.body

Listed(t, kind, tenant) ==
  LET q == calls[t].q
  IN  CASE kind \in {"unit", "approval"} ->
             Or(Asked(q), TenantOf(Caller(t))) \in {None, tenant}
        [] kind \in {"manifest", "event"} -> Bound(t, tenant) /\ Asked(q) \in {None, tenant}
        [] kind \in {"plan", "job"} -> Bound(t, tenant)
        [] OTHER -> tenant = PayloadTenant(q)

ListRecords(t) ==
  /\ At(t, "list")
  /\ LET kind == calls[t].read
         stored == IF kind = "event"
                     THEN {event.tenant : event \in ledger}
                     ELSE {records[id].tenant : id \in {i \in Id : Exists(i, KindRead(kind))}}
     IN  Tell(t, kind, {tenant \in stored : Listed(t, kind, tenant)})
  /\ UNCHANGED <<records, ledger, lost, requests, clock>>
-----------------------------------------------------------------------------
(* A call ends early: its process dies.                                    *)
CutShort(t) ==
  /\ Busy(t)
  /\ lost' = IF At(t, "append") THEN lost \cup {calls[t].event} ELSE lost
  /\ calls' = [calls EXCEPT ![t] = None]
  /\ UNCHANGED <<records, ledger, requests, clock>>

Tick ==
  /\ clock < MaxTime
  /\ clock' = clock + 1
  /\ UNCHANGED <<calls, records, ledger, lost, requests>>

Step(t) ==
  \/ AppendEvent(t) \/ PutUnit(t) \/ LoadUnit(t) \/ PutPlan(t)
  \/ (\E demand \in Demand \cup {"nothing"} : Admit(t, demand)) \/ PutManifest(t)
  \/ Issue(t) \/ Register(t) \/ Submit(t)
  \/ LoadDoomed(t) \/ PutTombstone(t) \/ ReadRecord(t) \/ ListRecords(t)

Next ==
  \/ \E t \in Thread :
       \/ (\E q \in Request, ref \in Stored \cup {0} : Arrive(t, q, ref))
       \/ Step(t) \/ CutShort(t)
  \/ Tick

Spec == Init /\ [][Next]_vars
-----------------------------------------------------------------------------
(* The records, events and answers of a tenant are its own: a principal    *)
(* bound to one writes no other's, and is told of no other's.  The route   *)
(* compares the tenant the request names; every store, which may find      *)
(* another one in a stored unit or in no body at all, compares again.      *)
Isolated ==
  /\ \A id \in Stored :
       records[id].kind # "plugin" => MayActFor(Principal[records[id].by], records[id].tenant)
  /\ \A event \in ledger : MayActFor(Principal[event.by], event.tenant)
  /\ \A t \in Thread : At(t, "answered") =>
       \A told \in calls[t].told : MayActFor(Principal[told.token], told.tenant)

Has(token, action) == Allowed(Principal[token], action, None)

(* Whoever wrote a record, caused an event or is told a manifest in clear  *)
(* has a role for it, whichever path and front end the request took.       *)
Entitled ==
  /\ \A id \in Stored :
       LET may(action) == Has(records[id].by, action)
       IN  CASE records[id].kind \in {"unit", "plan"} ->
                  may("work_unit:write") \/ may("object:write")
             [] records[id].kind = "manifest" -> may("work_unit:write") \/ may("object:write")
             [] records[id].kind = "approval" -> may("approval:manage")
             [] records[id].kind = "plugin" -> may("plugin:manage")
             [] records[id].kind = "job" -> may("scheduler:submit")
  /\ \A event \in ledger :
       event.type \in {"s3.delete.denied", "s3.delete.tombstoned"} => Has(event.by, "object:delete")
  /\ \A t \in Thread : At(t, "answered") =>
       \A told \in calls[t].told : told.clear => Has(told.token, "manifest:sensitive")

EventOf(kind) ==
  CASE kind = "unit" -> "work_unit.created"
    [] kind = "plan" -> "plan.created"
    [] kind = "manifest" -> "manifest.written"
    [] kind = "approval" -> "approval.issued"
    [] kind = "plugin" -> "plugin.registered"

(* The events there are: written, lost, and still to be written.           *)
Pending == {calls[t].event : t \in {s \in Thread : At(s, "append")}}
Caused == ledger \cup lost \cup Pending

(* Who caused the events of a type about a record.                         *)
Tellers(id, type) == {event.by : event \in {e \in Caused : e.about = id /\ e.type = type}}

(* A record is stored before its event is appended, in two critical        *)
(* sections, most often by the handler and not by the store.  Only a call  *)
(* that dies between the two leaves a record of which the ledger does not  *)
(* tell that this caller wrote it, or a plugin whose descriptor names a    *)
(* tenant that is not that of the administrator; a plugin registered again *)
(* is told of again.  And the ledger tells of no record that is not there. *)
RecordsAudited ==
  /\ \A id \in Stored :
       LET record == records[id]
       IN  /\ \/ record.kind = "job"
              \/ record.by \in Tellers(id, EventOf(record.kind))
              \/ record.kind = "plugin" /\ TenantOf(Principal[record.by]) # None
           /\ record.kind = "manifest" /\ record.state = "tombstoned" =>
                Tellers(id, "s3.delete.tombstoned") # {}
  /\ \A event \in ledger : event.about # 0 =>
       /\ event.about \in Stored
       /\ records[event.about].kind # "plugin" => records[event.about].tenant = event.tenant
       /\ event.type = "s3.delete.tombstoned" => records[event.about].state = "tombstoned"

(* What the policy in force demanded an approval for is stored only under  *)
(* an approval of the same tenant, contract and bundle, for any unit or    *)
(* for that one, which had not expired when it was compared, however long  *)
(* the execution took after that and however often the approval was used.  *)
ApprovedStored ==
  \A id \in Stored :
    LET record == records[id]
    IN  record.kind = "manifest" /\ record.demand.approval # "nothing" =>
          /\ Exists(record.approval, "approval")
          /\ LET approval == records[record.approval]
             IN  /\ approval.demand = record.demand.approval
                 /\ approval.tenant = record.tenant
                 /\ approval.unit \in {0, record.unit}
                 /\ record.demand.at < approval.until

(* A record stays as it is, but for a manifest whose lineage has no legal  *)
(* hold, which becomes a tombstone and stays one: what delete_object read  *)
(* before is not undone by what it writes (adapters.py:219-253).  And a    *)
(* plugin that is registered again under its name is replaced, by a plugin *)
(* (plugins.py:56-58).                                                     *)
ManifestsKept ==
  [][\A id \in Stored :
       \/ records'[id] = records[id]
       \/ /\ records[id].kind = "manifest" /\ ~records[id].hold
          /\ records'[id] = [records[id] EXCEPT !.state = "tombstoned"]
       \/ records[id].kind = "plugin" /\ records'[id].kind = "plugin"]_vars

(* A manifest of a work unit under legal hold is not tombstoned.           *)
HoldBlocksTombstone ==
  \A id \in Stored :
    records[id].kind = "manifest" /\ records[id].held => records[id].state # "tombstoned"
=============================================================================
