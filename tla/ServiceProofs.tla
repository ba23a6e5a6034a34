---------------------------- MODULE ServiceProofs ----------------------------
(***************************************************************************)
(* For any principals, requests, demands and number of handler threads:    *)
(* tenants are isolated, what is stored stays, is audited and has the      *)
(* approval that was demanded, and whoever writes has a role for it.       *)
(*                                                                         *)
(* The argument: from its admission to its answer a call keeps the request *)
(* it was admitted with, and so the tenant the request names is one its    *)
(* principal may act for; an event that is to be appended is its own; and  *)
(* a manifest that is to become a tombstone was written by one who might.  *)
(* Whatever else a call reads or writes is compared by Bound, or chosen    *)
(* for the tenant that is named (IInv).  What a call has read goes on      *)
(* being true of the files, which only evolve (SInv); and where a call is  *)
(* tells which permission its path needed (RoleInv).                       *)
(***************************************************************************)
EXTENDS Service, TLAPS

CallFields == {"at", "q", "ref", "unit", "demand", "read", "event", "then"}

(* A record, also one that was read, is that of its writer's tenant.       *)
Shaped(record) == {"kind", "tenant", "by"} \subseteq DOMAIN record
Own(record) ==
  /\ Shaped(record)
  /\ record.kind # "plugin" => MayActFor(Principal[record.by], record.tenant)

Admitted(q) ==
  /\ q.token \in DOMAIN Principal
  /\ MayActFor(Principal[q.token], TenantNamed(q))
  /\ q.method = "GET" => q.body = None

UnderWay(call) ==
  /\ DOMAIN call = CallFields
  /\ Admitted(call.q)
  /\ call.at = "append" => call.event.by = call.q.token
  /\ call.at = "tombstone" => Own(call.read)
  /\ call.then \in {"answer", "deny", "put manifest"}

OwnAnswer(call) == \A told \in call.told : MayActFor(Principal[told.token], told.tenant)

CallOK(call) ==
  call # None => IF call.at = "answered" THEN OwnAnswer(call) ELSE UnderWay(call)

Records == \A id \in Stored : Own(records[id])
Events == \A event \in ledger : MayActFor(Principal[event.by], event.tenant)

IInv ==
  /\ DOMAIN calls = Thread /\ DOMAIN records = Id
  /\ \A t \in Thread : CallOK(calls[t])
  /\ Records /\ Events

-----------------------------------------------------------------------------
(* The comparison of the stores is as strict as that of the route.         *)
LEMMA BoundActs ==
  ASSUME NEW t, NEW tenant, Caller(t).tenant # None, Bound(t, tenant)
  PROVE  MayActFor(Caller(t), tenant)
  BY DEF Bound, MayActFor, TenantOf

(* A call that only changes its own thread keeps every other call.         *)
LEMMA OneCall ==
  ASSUME IInv, NEW t \in Thread, NEW call, calls' = [calls EXCEPT ![t] = call], CallOK(call)
  PROVE  DOMAIN calls' = Thread /\ \A s \in Thread : CallOK(calls'[s])
  BY DEF IInv

LEMMA AnswerOK ==
  ASSUME NEW status
  PROVE  CallOK(Response(status, {}))
  BY DEF CallOK, Response, OwnAnswer

(* What an admitted request's tenant is, as far as the handlers look.      *)
LEMMA AskedActs ==
  ASSUME NEW q, Admitted(q), Asked(q) # None
  PROVE  MayActFor(Principal[q.token], Asked(q))
  BY DEF Admitted, Asked, TenantNamed, Or

LEMMA PayloadActs ==
  ASSUME PrincipalAssumption, NEW q, Admitted(q)
  PROVE  MayActFor(Principal[q.token], PayloadTenant(q))
  <1>0. q.body # None => TenantNamed(q) = q.body
    BY DEF Admitted, TenantNamed, Or
  <1>1. CASE q.body # None
    BY <1>0, <1>1 DEF Admitted, PayloadTenant, Or
  <1>2. CASE q.body = None
    BY <1>2 DEF PayloadTenant, Or, TenantOf, MayActFor, Admitted, PrincipalAssumption
  <1> QED BY <1>1, <1>2

LEMMA ListedActs ==
  ASSUME PrincipalAssumption, NEW t, Admitted(calls[t].q), NEW kind, NEW tenant,
         Listed(t, kind, tenant)
  PROVE  MayActFor(Caller(t), tenant)
  <1>1. Caller(t).tenant # None
    BY DEF Caller, Admitted, PrincipalAssumption
  <1>2. CASE kind \in {"unit", "approval"}
    <2>1. CASE Asked(calls[t].q) # None
      BY <1>2, <2>1, AskedActs DEF Listed, Or, Caller
    <2>2. CASE Asked(calls[t].q) = None
      BY <1>1, <1>2, <2>2 DEF Listed, Or, TenantOf, MayActFor
    <2> QED BY <2>1, <2>2
  <1>3. CASE kind \in {"manifest", "event", "plan", "job"}
    BY <1>1, <1>3, BoundActs DEF Listed
  <1>4. CASE kind \notin {"unit", "approval", "manifest", "event", "plan", "job"}
    BY <1>4, PayloadActs DEF Listed, Caller
  <1> QED BY <1>2, <1>3, <1>4
-----------------------------------------------------------------------------
(* The steps, one by one; each also keeps what it does not touch.          *)
Kept0 == DOMAIN calls' = Thread /\ \A s \in Thread : CallOK(calls'[s])

LEMMA Answers ==
  ASSUME IInv, NEW t \in Thread, NEW status, Answer(t, status)
  PROVE  Kept0
  BY OneCall, AnswerOK DEF Answer, Kept0

LEMMA Arrives ==
  ASSUME IInv, ServiceAssumption, NEW t \in Thread, NEW q \in Request, NEW ref, Arrive(t, q, ref)
  PROVE  Kept0
  <1>1. CASE Admission(q) # 200
    BY <1>1, OneCall, AnswerOK DEF Arrive, Kept0
  <1>2. CASE Admission(q) = 200
    <2>1. Admitted(q)
      BY <1>2 DEF Admission, Admitted, Authentic, MayUse, Allowed, ServiceAssumption
    <2>2. PICK operation \in OperationsAt(q) :
            calls' = [calls EXCEPT ![t] = Handle(q, ref, operation)]
      BY <1>2 DEF Arrive
    <2>3. ASSUME NEW r, NEW stage, stage \notin {"answered", "append", "tombstone"}, NEW unit
          PROVE  CallOK(Begin(q, r, stage, unit))
      BY <2>1, <2>3 DEF CallOK, UnderWay, Begin, CallFields
    <2>4. ASSUME NEW r, NEW stage, stage \notin {"answered", "append", "tombstone"}, NEW unit, NEW read
          PROVE  CallOK([Begin(q, r, stage, unit) EXCEPT !.read = read])
      BY <2>1, <2>4 DEF CallOK, UnderWay, Begin, CallFields
    <2> DEFINE does == operation.does
               unit == UnitOf(q, ref)
    <2>5. CASE does \in {"create", "plan", "execute"}
      <3>1. CallOK(Begin(q, ref, "put unit", unit)) /\ CallOK(Begin(q, ref, "put plan", unit))
            /\ CallOK(Begin(q, ref, "admit", unit))
        BY <2>3
      <3>2. \/ Handle(q, ref, operation) = Response(MemberMissing(q), {})
            \/ Handle(q, ref, operation) = Begin(q, ref, "put unit", unit)
            \/ Handle(q, ref, operation) = Begin(q, ref, "put plan", unit)
            \/ Handle(q, ref, operation) = Begin(q, ref, "admit", unit)
        BY <2>5 DEF Handle
      <3>3. CallOK(Handle(q, ref, operation))
        BY <3>1, <3>2, AnswerOK
      <3> QED BY <2>2, <3>3, OneCall DEF Kept0
    <2>6. CASE does \in {"plan stored", "execute stored"}
      <3>1. CallOK(Begin(q, ref, does, None))
        BY <2>3, <2>6
      <3>2. Handle(q, ref, operation) = Begin(q, ref, does, None)
        BY <2>6 DEF Handle
      <3> QED BY <2>2, <3>1, <3>2, OneCall DEF Kept0
    <2>7. CASE does \in {"put", "issue", "register", "submit", "delete"}
      <3>1. /\ CallOK(Begin(q, 0, "admit", ObjectUnit(q))) /\ CallOK(Begin(q, ref, "issue", None))
            /\ CallOK(Begin(q, 0, "register", None)) /\ CallOK(Begin(q, 0, "submit", None))
            /\ CallOK(Begin(q, ref, "delete", None)) /\ CallOK(Response(400, {}))
        BY <2>3, AnswerOK
      <3>2. \/ Handle(q, ref, operation) = Begin(q, 0, "admit", ObjectUnit(q))
            \/ Handle(q, ref, operation) = Begin(q, ref, "issue", None)
            \/ Handle(q, ref, operation) = Begin(q, 0, "register", None)
            \/ Handle(q, ref, operation) = Begin(q, 0, "submit", None)
            \/ Handle(q, ref, operation) = Begin(q, ref, "delete", None)
            \/ Handle(q, ref, operation) = Response(400, {})
        <4>1. CASE does \in {"put", "register", "submit", "delete"}
          BY <4>1 DEF Handle
        <4>2. CASE does = "issue"
          BY <4>2 DEF Handle
        <4> QED BY <2>7, <4>1, <4>2
      <3>3. CallOK(Handle(q, ref, operation))
        BY <3>1, <3>2
      <3> QED BY <2>2, <3>3, OneCall DEF Kept0
    <2>8. CASE does \in {"list", "read"}
      <3>1. /\ CallOK([Begin(q, 0, "list", None) EXCEPT !.read = operation.kind])
            /\ CallOK([Begin(q, ref, "read", None) EXCEPT !.read = operation.kind])
        BY <2>4
      <3>2. \/ Handle(q, ref, operation) = [Begin(q, 0, "list", None) EXCEPT !.read = operation.kind]
            \/ Handle(q, ref, operation) = [Begin(q, ref, "read", None) EXCEPT !.read = operation.kind]
        BY <2>8 DEF Handle
      <3>3. CallOK(Handle(q, ref, operation))
        BY <3>1, <3>2
      <3> QED BY <2>2, <3>3, OneCall DEF Kept0
    <2>9. CASE does \notin {"create", "plan", "execute", "plan stored", "execute stored", "put",
                            "issue", "register", "submit", "delete", "list", "read"}
      <3>1. Handle(q, ref, operation) = Response(200, {})
        BY <2>9 DEF Handle
      <3> QED BY <2>2, <3>1, AnswerOK, OneCall DEF Kept0
    <2> QED BY <2>5, <2>6, <2>7, <2>8, <2>9
  <1> QED BY <1>1, <1>2

(* A stored record is its writer's, and the others stay.                   *)
LEMMA Inserts ==
  ASSUME IInv, NEW id \in Id, NEW record, Own(record),
         Insert(id, record) \/ Replace(id, record)
  PROVE  DOMAIN records' = Id /\ Records'
  BY DEF IInv, Insert, Replace, Records, Stored, Own

LEMMA Appends ==
  ASSUME IInv, NEW t \in Thread, UnderWay(calls[t]), calls[t].at # "answered",
         NEW event, event.by = calls[t].q.token,
         NEW then \in {"answer", "deny", "put manifest"}, ThenAppend(t, event, then)
  PROVE  Kept0
  <1> DEFINE call == [calls[t] EXCEPT !.at = "append", !.event = event, !.then = then]
  <1>1. CallOK(call)
    BY DEF UnderWay, CallFields, CallOK
  <1>2. calls' = [calls EXCEPT ![t] = call]
    BY DEF ThenAppend
  <1> QED BY <1>1, <1>2, OneCall DEF Kept0

LEMMA Goes ==
  ASSUME IInv, NEW t \in Thread, UnderWay(calls[t]), NEW stage,
         stage \notin {"answered", "append", "tombstone"}, Go(t, stage)
  PROVE  Kept0
  <1> DEFINE call == [calls[t] EXCEPT !.at = stage]
  <1>1. CallOK(call)
    BY DEF UnderWay, CallFields, CallOK
  <1>2. calls' = [calls EXCEPT ![t] = call]
    BY DEF Go
  <1> QED BY <1>1, <1>2, OneCall DEF Kept0

(* A call under way, and what follows from it for its principal.           *)
LEMMA CallUnderWay ==
  ASSUME IInv, NEW t \in Thread, Busy(t)
  PROVE  UnderWay(calls[t]) /\ Admitted(calls[t].q) /\ calls[t].at # "answered"
  BY DEF IInv, CallOK, Busy, UnderWay

LEMMA BusyActs ==
  ASSUME IInv, PrincipalAssumption, NEW t \in Thread, Busy(t), NEW tenant, Bound(t, tenant)
  PROVE  MayActFor(Caller(t), tenant)
  <1>1. Caller(t).tenant # None
    BY CallUnderWay DEF Caller, Admitted, PrincipalAssumption
  <1> QED BY <1>1, BoundActs

LEMMA Puts ==
  ASSUME IInv, PrincipalAssumption, NEW t \in Thread, Busy(t),
         NEW record, record.by = calls[t].q.token, Shaped(record), NEW type,
         NEW then \in {"answer", "deny", "put manifest"}, Put(t, record, type, then)
  PROVE  IInv'
  <1>1. UnderWay(calls[t]) /\ calls[t].at # "answered"
    BY CallUnderWay
  <1>2. CASE Bound(t, record.tenant)
    <2>1. PICK id \in Id : Insert(id, record)
                           /\ ThenAppend(t, Event(t, type, record.tenant, id), then)
      BY <1>2 DEF Put
    <2>2. Own(record)
      BY <1>2, BusyActs DEF Own, Caller
    <2>3. DOMAIN records' = Id /\ Records'
      BY <2>1, <2>2, Inserts
    <2>4. Event(t, type, record.tenant, id).by = calls[t].q.token
      BY DEF Event
    <2>5. Kept0
      BY <1>1, <2>1, <2>4, Appends
    <2> QED BY <2>3, <2>5 DEF IInv, Kept0, Put, Events
  <1>3. CASE ~Bound(t, record.tenant)
    <2>1. Answer(t, 403)
      BY <1>3 DEF Put
    <2>2. Kept0
      BY <2>1, Answers
    <2> QED BY <1>3, <2>2 DEF IInv, Kept0, Put, Events, Records, Stored
  <1> QED BY <1>2, <1>3
-----------------------------------------------------------------------------
(* A step that only changes calls keeps the rest of the invariant.         *)
LEMMA CallsOnly ==
  ASSUME IInv, Kept0, UNCHANGED <<records, ledger>>
  PROVE  IInv'
  BY DEF IInv, Kept0, Records, Events, Stored

LEMMA AppendStep ==
  ASSUME IInv, PrincipalAssumption, NEW t \in Thread, AppendEvent(t)
  PROVE  IInv'
  <1>1. Busy(t) /\ calls[t].at = "append"
    BY DEF AppendEvent, At, Busy
  <1>2. UnderWay(calls[t]) /\ calls[t].event.by = calls[t].q.token
    BY <1>1, CallUnderWay DEF UnderWay
  <1>3. CASE Bound(t, calls[t].event.tenant)
    <2>1. Kept0
      <3>1. \/ Answer(t, 200) \/ Answer(t, 403)
            \/ calls[t].then = "put manifest" /\ Go(t, "put manifest")
        BY <1>2, <1>3 DEF AppendEvent, UnderWay
      <3>2. CASE Go(t, "put manifest")
        BY <1>2, <3>2, Goes
      <3> QED BY <3>1, <3>2, Answers
    <2>2. MayActFor(Principal[calls[t].event.by], calls[t].event.tenant)
      BY <1>1, <1>2, <1>3, BusyActs DEF Caller
    <2>3. ledger' = ledger \cup {calls[t].event} /\ UNCHANGED records
      BY <1>3 DEF AppendEvent
    <2> QED BY <2>1, <2>2, <2>3 DEF IInv, Kept0, Records, Events, Stored
  <1>4. CASE ~Bound(t, calls[t].event.tenant)
    BY <1>4, Answers, CallsOnly DEF AppendEvent
  <1> QED BY <1>3, <1>4

LEMMA PutUnitStep ==
  ASSUME IInv, PrincipalAssumption, NEW t \in Thread, PutUnit(t)
  PROVE  IInv'
  <1> DEFINE record == [kind |-> "unit", tenant |-> calls[t].unit.tenant, by |-> calls[t].q.token,
                        hold |-> calls[t].unit.hold, approval |-> calls[t].unit.approval]
  <1>1. Busy(t) /\ record.by = calls[t].q.token /\ Shaped(record)
    BY DEF PutUnit, At, Busy, Shaped
  <1>2. Put(t, record, "work_unit.created", "answer")
    BY DEF PutUnit
  <1> HIDE DEF record
  <1> QED BY <1>1, <1>2, Puts

LEMMA PutPlanStep ==
  ASSUME IInv, PrincipalAssumption, NEW t \in Thread, PutPlan(t)
  PROVE  IInv'
  <1> DEFINE record == [kind |-> "plan", tenant |-> calls[t].unit.tenant, by |-> calls[t].q.token]
             then == IF Executing(t) THEN "put manifest" ELSE "answer"
  <1>1. /\ Busy(t) /\ record.by = calls[t].q.token /\ Shaped(record)
        /\ then \in {"answer", "deny", "put manifest"}
    BY DEF PutPlan, At, Busy, Shaped
  <1>2. Put(t, record, "plan.created", then)
    BY DEF PutPlan
  <1> HIDE DEF record, then
  <1> QED BY <1>1, <1>2, Puts

LEMMA PutManifestStep ==
  ASSUME IInv, PrincipalAssumption, NEW t \in Thread, PutManifest(t)
  PROVE  IInv'
  <1>1. PICK record : record.by = calls[t].q.token /\ Shaped(record)
                       /\ Put(t, record, "manifest.written", "answer")
    <2> DEFINE unit == calls[t].unit
               mode == ModeOf(calls[t].q)
               record == [kind |-> "manifest", tenant |-> unit.tenant, by |-> calls[t].q.token,
                          hold |-> LineageHold(mode, unit), held |-> unit.hold, unit |-> unit.id,
                          approval |-> unit.approval, demand |-> calls[t].demand,
                          state |-> IF mode = "observe" THEN "planned"
                                    ELSE IF mode = "shadow" THEN "superseded" ELSE "active"]
    <2>1. record.by = calls[t].q.token /\ Shaped(record)
      BY DEF Shaped
    <2>2. Put(t, record, "manifest.written", "answer")
      BY DEF PutManifest
    <2> HIDE DEF record
    <2> QED BY <2>1, <2>2
  <1>2. Busy(t)
    BY DEF PutManifest, At, Busy
  <1> QED BY <1>1, <1>2, Puts

LEMMA IssueStep ==
  ASSUME IInv, PrincipalAssumption, NEW t \in Thread, Issue(t)
  PROVE  IInv'
  <1>1. PICK record : record.by = calls[t].q.token /\ Shaped(record)
                       /\ Put(t, record, "approval.issued", "answer")
    <2> DEFINE q == calls[t].q
               record == [kind |-> "approval", tenant |-> ApprovalTenant(q), by |-> q.token,
                          demand |-> q.approves, unit |-> calls[t].ref, until |-> clock + q.ttl]
    <2>1. record.by = calls[t].q.token /\ Shaped(record)
      BY DEF Shaped
    <2>2. Put(t, record, "approval.issued", "answer")
      BY DEF Issue
    <2> HIDE DEF record
    <2> QED BY <2>1, <2>2
  <1>2. Busy(t)
    BY DEF Issue, At, Busy
  <1> QED BY <1>1, <1>2, Puts

LEMMA LoadUnitStep ==
  ASSUME IInv, PrincipalAssumption, NEW t \in Thread, LoadUnit(t)
  PROVE  IInv'
  <1>1. UnderWay(calls[t]) /\ UNCHANGED <<records, ledger>>
    BY CallUnderWay DEF LoadUnit, At, Busy
  <1>2. CASE Answer(t, 404) \/ Answer(t, 403)
    BY <1>1, <1>2, Answers, CallsOnly
  <1>3. CASE \E unit, stage :
              /\ stage \in {"put plan", "admit"}
              /\ calls' = [calls EXCEPT ![t] = [@ EXCEPT !.unit = unit, !.at = stage]]
    <2>1. PICK unit, stage :
            /\ stage \in {"put plan", "admit"}
            /\ calls' = [calls EXCEPT ![t] = [calls[t] EXCEPT !.unit = unit, !.at = stage]]
      BY <1>3
    <2>2. CallOK([calls[t] EXCEPT !.unit = unit, !.at = stage])
      BY <1>1, <2>1 DEF UnderWay, CallFields, CallOK
    <2>3. Kept0
      BY <2>1, <2>2, OneCall DEF Kept0
    <2> QED BY <1>1, <2>3, CallsOnly
  <1>4. Answer(t, 404) \/ Answer(t, 403)
        \/ \E unit, stage :
              /\ stage \in {"put plan", "admit"}
              /\ calls' = [calls EXCEPT ![t] = [@ EXCEPT !.unit = unit, !.at = stage]]
    BY DEF LoadUnit
  <1> QED BY <1>2, <1>3, <1>4

LEMMA AdmitStep ==
  ASSUME IInv, PrincipalAssumption, NEW t \in Thread, NEW demand, Admit(t, demand)
  PROVE  IInv'
  <1>1. UnderWay(calls[t]) /\ calls[t].at = "admit" /\ UNCHANGED <<records, ledger>>
    BY CallUnderWay DEF Admit, At, Busy
  <1> DEFINE call == [calls[t] EXCEPT !.at = "put plan",
                                      !.demand = [approval |-> demand, at |-> clock]]
             event == Event(t, "policy.denied", calls[t].unit.tenant, 0)
  <1>2. \/ calls' = [calls EXCEPT ![t] = call]
        \/ ThenAppend(t, event, "deny")
        \/ Answer(t, 403)
    BY DEF Admit
  <1>3. CallOK(call)
    BY <1>1 DEF UnderWay, CallFields, CallOK
  <1>4. event.by = calls[t].q.token
    BY DEF Event
  <1> HIDE DEF call, event
  <1>5. Kept0
    <2>1. CASE calls' = [calls EXCEPT ![t] = call]
      BY <1>3, <2>1, OneCall DEF Kept0
    <2>2. CASE ThenAppend(t, event, "deny")
      BY <1>1, <1>4, <2>2, Appends
    <2> QED BY <1>2, <2>1, <2>2, Answers
  <1> QED BY <1>1, <1>5, CallsOnly

LEMMA RegisterStep ==
  ASSUME IInv, PrincipalAssumption, NEW t \in Thread, Register(t)
  PROVE  IInv'
  <1> DEFINE record == [kind |-> "plugin", tenant |-> "*", by |-> calls[t].q.token]
             event(id) == Event(t, "plugin.registered", Or(calls[t].q.inner, "system"), id)
  <1>1. UnderWay(calls[t]) /\ calls[t].at # "answered" /\ UNCHANGED ledger
    BY CallUnderWay DEF Register, At, Busy
  <1>2. PICK id \in Id : /\ Insert(id, record) \/ Replace(id, record)
                         /\ ThenAppend(t, event(id), "answer")
    BY DEF Register
  <1>3. Own(record) /\ event(id).by = calls[t].q.token
    BY DEF Own, Event, Shaped
  <1> HIDE DEF record, event
  <1>4. DOMAIN records' = Id /\ Records'
    BY <1>2, <1>3, Inserts
  <1>5. Kept0
    BY <1>1, <1>2, <1>3, Appends
  <1> QED BY <1>1, <1>4, <1>5 DEF IInv, Kept0, Events

LEMMA SubmitStep ==
  ASSUME IInv, PrincipalAssumption, NEW t \in Thread, Submit(t)
  PROVE  IInv'
  <1> DEFINE tenant == Or(calls[t].q.body, "local")
             record == [kind |-> "job", tenant |-> tenant, by |-> calls[t].q.token]
  <1>1. Busy(t) /\ UNCHANGED ledger
    BY DEF Submit, At, Busy
  <1>2. CASE Bound(t, tenant)
    <2>1. PICK id \in Id : Insert(id, record)
      BY <1>2 DEF Submit
    <2>2. Own(record)
      BY <1>1, <1>2, BusyActs DEF Own, Caller, Shaped
    <2>3. Answer(t, 200)
      BY <1>2 DEF Submit
    <2>4. Kept0
      BY <2>3, Answers
    <2> HIDE DEF record
    <2>5. DOMAIN records' = Id /\ Records'
      BY <2>1, <2>2, Inserts
    <2> QED BY <1>1, <2>4, <2>5 DEF IInv, Kept0, Events
  <1>3. CASE ~Bound(t, tenant)
    BY <1>1, <1>3, Answers, CallsOnly DEF Submit
  <1> QED BY <1>2, <1>3

LEMMA LoadDoomedStep ==
  ASSUME IInv, PrincipalAssumption, NEW t \in Thread, LoadDoomed(t)
  PROVE  IInv'
  <1> DEFINE id == calls[t].ref
             call == [calls[t] EXCEPT !.at = "tombstone", !.read = records[id]]
             event == Event(t, "s3.delete.denied", records[id].tenant, id)
  <1>1. UnderWay(calls[t]) /\ calls[t].at # "answered" /\ UNCHANGED <<records, ledger>>
    BY CallUnderWay DEF LoadDoomed, At, Busy
  <1>2. \/ Answer(t, 404) \/ Answer(t, 403)
        \/ ThenAppend(t, event, "answer")
        \/ id \in Stored /\ calls' = [calls EXCEPT ![t] = call]
    BY DEF LoadDoomed, Exists, Stored
  <1>3. id \in Stored => CallOK(call)
    BY <1>1 DEF UnderWay, CallFields, CallOK, IInv, Records
  <1>4. event.by = calls[t].q.token
    BY DEF Event
  <1> HIDE DEF call, event, id
  <1>5. Kept0
    <2>1. CASE id \in Stored /\ calls' = [calls EXCEPT ![t] = call]
      BY <1>3, <2>1, OneCall DEF Kept0
    <2>2. CASE ThenAppend(t, event, "answer")
      BY <1>1, <1>4, <2>2, Appends
    <2> QED BY <1>2, <2>1, <2>2, Answers
  <1> QED BY <1>1, <1>5, CallsOnly

LEMMA PutTombstoneStep ==
  ASSUME IInv, PrincipalAssumption, NEW t \in Thread, PutTombstone(t)
  PROVE  IInv'
  <1> DEFINE id == calls[t].ref
             doomed == [calls[t].read EXCEPT !.state = "tombstoned"]
             event == Event(t, "s3.delete.tombstoned", calls[t].read.tenant, id)
  <1>1. UnderWay(calls[t]) /\ calls[t].at = "tombstone" /\ UNCHANGED ledger
    BY CallUnderWay DEF PutTombstone, At, Busy
  <1>2. records' = [records EXCEPT ![id] = doomed] /\ ThenAppend(t, event, "answer")
    BY DEF PutTombstone
  <1>3. Own(doomed)
    BY <1>1 DEF UnderWay, Own, Shaped
  <1>4. event.by = calls[t].q.token
    BY DEF Event
  <1> HIDE DEF doomed, event, id
  <1>5. DOMAIN records' = Id /\ Records'
    BY <1>2, <1>3 DEF IInv, Records, Stored
  <1>6. Kept0
    BY <1>1, <1>2, <1>4, Appends
  <1> QED BY <1>1, <1>5, <1>6 DEF IInv, Kept0, Events

(* What a reader is told.                                                  *)
LEMMA Tells ==
  ASSUME IInv, NEW t \in Thread, NEW kind, NEW tenants,
         \A tenant \in tenants : MayActFor(Caller(t), tenant), Tell(t, kind, tenants)
  PROVE  Kept0
  <1> DEFINE told == {[token |-> calls[t].q.token, tenant |-> tenant,
                       clear |-> kind = "manifest" /\ InClear(calls[t].q, tenant)] : tenant \in tenants}
  <1>1. \A row \in told : MayActFor(Principal[row.token], row.tenant)
    BY DEF Caller
  <1>2. calls' = [calls EXCEPT ![t] = Response(200, told)]
    BY DEF Tell
  <1> HIDE DEF told
  <1>3. CallOK(Response(200, told))
    BY <1>1 DEF CallOK, Response, OwnAnswer
  <1> QED BY <1>2, <1>3, OneCall DEF Kept0

LEMMA ReadStep ==
  ASSUME IInv, PrincipalAssumption, NEW t \in Thread, ReadRecord(t)
  PROVE  IInv'
  <1>1. Busy(t) /\ UNCHANGED <<records, ledger>>
    BY DEF ReadRecord, At, Busy
  <1>2. CASE Bound(t, records[calls[t].ref].tenant)
             /\ Tell(t, calls[t].read, {records[calls[t].ref].tenant})
    BY <1>1, <1>2, BusyActs, Tells, CallsOnly
  <1>3. CASE Answer(t, 404) \/ Answer(t, 403)
    BY <1>1, <1>3, Answers, CallsOnly
  <1> QED BY <1>2, <1>3 DEF ReadRecord

LEMMA ListStep ==
  ASSUME IInv, PrincipalAssumption, NEW t \in Thread, ListRecords(t)
  PROVE  IInv'
  <1>1. Busy(t) /\ UNCHANGED <<records, ledger>>
    BY DEF ListRecords, At, Busy
  <1>2. Admitted(calls[t].q)
    BY <1>1, CallUnderWay
  <1>3. PICK stored : Tell(t, calls[t].read, {tenant \in stored : Listed(t, calls[t].read, tenant)})
    BY DEF ListRecords
  <1>4. \A tenant \in {x \in stored : Listed(t, calls[t].read, x)} : MayActFor(Caller(t), tenant)
    BY <1>2, ListedActs
  <1> QED BY <1>1, <1>3, <1>4, Tells, CallsOnly

LEMMA CutStep ==
  ASSUME IInv, NEW t \in Thread, CutShort(t)
  PROVE  IInv'
  <1>1. CallOK(None)
    BY DEF CallOK
  <1> QED BY <1>1, OneCall, CallsOnly DEF CutShort, Kept0
-----------------------------------------------------------------------------
LEMMA Initially == Init => IInv
  BY DEF Init, IInv, CallOK, Records, Events, Stored

LEMMA Steps ==
  ASSUME PrincipalAssumption, ServiceAssumption, IInv, [Next]_vars
  PROVE  IInv'
  <1>1. ASSUME NEW t \in Thread, Step(t)
        PROVE  IInv'
    BY <1>1, AppendStep, PutUnitStep, LoadUnitStep, PutPlanStep, AdmitStep, PutManifestStep,
       IssueStep, RegisterStep, SubmitStep, LoadDoomedStep, PutTombstoneStep, ReadStep, ListStep
       DEF Step
  <1>2. ASSUME NEW t \in Thread, NEW q \in Request, NEW ref, Arrive(t, q, ref)
        PROVE  IInv'
    BY <1>2, Arrives, CallsOnly DEF Arrive
  <1>3. ASSUME NEW t \in Thread, CutShort(t)
        PROVE  IInv'
    BY <1>3, CutStep
  <1>4. CASE Tick \/ UNCHANGED vars
    BY <1>4 DEF Tick, vars, IInv, Records, Events, Stored
  <1> QED BY <1>1, <1>2, <1>3, <1>4 DEF Next

(* Whatever the requests, the records, events and answers of one tenant    *)
(* are kept from the principals of the others.                             *)
THEOREM TenantsIsolated == Spec => []Isolated
  <1>1. Init => IInv
    BY Initially
  <1>2. IInv /\ [Next]_vars => IInv'
    BY PrincipalAssumption, ServiceAssumption, Steps
  <1>3. IInv => Isolated
    BY DEF IInv, Isolated, Records, Events, CallOK, OwnAnswer, Own, At
  <1> QED BY <1>1, <1>2, <1>3, PTL DEF Spec
-----------------------------------------------------------------------------
(* From here on: what is stored stays, is audited, and is approved where   *)
(* the policy demanded it.  None, which stands for a file that is missing  *)
(* and for a thread at rest, is taken to be neither a file nor a call.     *)
NoneIsNoRecord == \A r : "kind" \in DOMAIN r \/ "at" \in DOMAIN r => r # None

Tombstone(r) == [r EXCEPT !.state = "tombstoned"]

Kinds == {"unit", "plan", "manifest", "approval", "plugin", "job"}

Whole(r) ==
  /\ Shaped(r) /\ r.kind \in Kinds
  /\ r.kind = "manifest" => {"hold", "state", "unit", "approval", "demand"} \subseteq DOMAIN r

In(id, files) == id \in Id /\ files[id] # None

(* From one state of the files to a later one: no record goes, and none    *)
(* changes but a manifest without a hold, into its tombstone, and a plugin *)
(* into another one.                                                       *)
Evolves(files, later) ==
  \A id \in Id : In(id, files) =>
    /\ In(id, later)
    /\ \/ later[id] = files[id]
       \/ files[id].kind = "manifest" /\ ~files[id].hold /\ later[id] = Tombstone(files[id])
       \/ files[id].kind = "plugin" /\ later[id].kind = "plugin"

(* A demand for an approval is met by what the files have under id.        *)
Met(demand, id, tenant, unit, files) ==
  demand.approval # "nothing" =>
    /\ In(id, files) /\ files[id].kind = "approval"
    /\ files[id].demand = demand.approval /\ files[id].tenant = tenant
    /\ files[id].unit \in {0, unit} /\ demand.at < files[id].until

(* An event tells of a record that is there.                               *)
Tells0(event, files) ==
  event.about # 0 =>
    /\ In(event.about, files)
    /\ files[event.about].kind # "plugin" => files[event.about].tenant = event.tenant
    /\ event.type = "s3.delete.tombstoned" =>
         files[event.about].kind = "manifest" /\ files[event.about].state = "tombstoned"

BoundTo(token, tenant) == TenantOf(Principal[token]) \in {None, tenant}

(* What delete_object has read is what is there, tombstoned or not.        *)
Dooms(call, files) ==
  call.at = "tombstone" =>
    /\ In(call.ref, files) /\ files[call.ref] \in {call.read, Tombstone(call.read)}
    /\ Whole(call.read) /\ call.read.kind = "manifest" /\ ~call.read.hold
    /\ BoundTo(call.q.token, call.read.tenant)

(* An execution goes on with its approval.                                 *)
Cleared(call, files) ==
  /\ call.at \in {"plan stored", "execute stored"} => call.demand = None
  /\ call.at = "put manifest" \/ (call.at = "append" /\ call.then = "put manifest") =>
       call.demand # None
  /\ call.demand # None =>
       Met(call.demand, call.unit.approval, call.unit.tenant, call.unit.id, files)

(* Only the event of a plugin may be one that the ledger refuses.          *)
Announces(call, files) ==
  call.at = "append" =>
    /\ Tells0(call.event, files)
    /\ call.event.about # 0 =>
         IF call.event.type = "plugin.registered"
           THEN files[call.event.about].kind = "plugin"
           ELSE BoundTo(call.q.token, call.event.tenant)

Sound(call, files) ==
  call # None /\ call.at # "answered" =>
    Dooms(call, files) /\ Cleared(call, files) /\ Announces(call, files)

(* An event about r names the one who wrote it last.                       *)
Audited(id, r, events) ==
  /\ \/ r.kind = "job"
     \/ \E event \in events :
          event.about = id /\ event.type = EventOf(r.kind) /\ event.by = r.by
     \/ r.kind = "plugin" /\ TenantOf(Principal[r.by]) # None
  /\ r.kind = "manifest" /\ r.state = "tombstoned" =>
       \E event \in events : event.about = id /\ event.type = "s3.delete.tombstoned"

Approved(r, files) == r.kind = "manifest" => Met(r.demand, r.approval, r.tenant, r.unit, files)

FilesInv == \A id \in Stored : Whole(records[id]) /\ Approved(records[id], records)
SoundInv == \A t \in Thread : Sound(calls[t], records)
LedgerInv == \A event \in ledger : Tells0(event, records)
AuditInv == \A id \in Stored : Audited(id, records[id], Caused)

SInv == FilesInv /\ SoundInv /\ LedgerInv /\ AuditInv
-----------------------------------------------------------------------------
(* A tombstone is a tombstone, and otherwise what it was.                  *)
LEMMA TombstoneFields ==
  ASSUME NEW r, Whole(r), r.kind = "manifest"
  PROVE  /\ DOMAIN Tombstone(r) = DOMAIN r
         /\ Tombstone(r).kind = r.kind /\ Tombstone(r).tenant = r.tenant
         /\ Tombstone(r).by = r.by /\ Tombstone(r).hold = r.hold
         /\ Tombstone(r).unit = r.unit /\ Tombstone(r).approval = r.approval
         /\ Tombstone(r).demand = r.demand /\ Tombstone(r).state = "tombstoned"
         /\ Whole(Tombstone(r)) /\ Tombstone(Tombstone(r)) = Tombstone(r)
  BY DEF Tombstone, Whole, Shaped, Kinds

LEMMA MetStays ==
  ASSUME NEW files, NEW later, Evolves(files, later),
         NEW demand, NEW id, NEW tenant, NEW unit, Met(demand, id, tenant, unit, files)
  PROVE  Met(demand, id, tenant, unit, later)
  BY DEF Evolves, Met, In

LEMMA TellsStays ==
  ASSUME NEW files, NEW later, Evolves(files, later),
         \A id \in Id : In(id, files) => Whole(files[id]),
         NEW event, Tells0(event, files)
  PROVE  Tells0(event, later)
  <1> SUFFICES ASSUME event.about # 0 PROVE Tells0(event, later)
    BY DEF Tells0
  <1> DEFINE id == event.about
  <1>1. In(id, files) /\ Whole(files[id]) /\ In(id, later)
    BY DEF Tells0, Evolves, In
  <1>2. CASE later[id] = files[id]
    BY <1>1, <1>2 DEF Tells0
  <1>3. CASE files[id].kind = "manifest" /\ later[id] = Tombstone(files[id])
    BY <1>1, <1>3, TombstoneFields DEF Tells0
  <1>4. CASE files[id].kind = "plugin" /\ later[id].kind = "plugin"
    BY <1>1, <1>4 DEF Tells0
  <1> QED
    BY <1>1, <1>2, <1>3, <1>4 DEF Evolves, In

LEMMA SoundStays ==
  ASSUME NEW files, NEW later, Evolves(files, later),
         \A id \in Id : In(id, files) => Whole(files[id]),
         NEW call, Sound(call, files)
  PROVE  Sound(call, later)
  <1> SUFFICES ASSUME call # None, call.at # "answered" PROVE Sound(call, later)
    BY DEF Sound
  <1>1. Dooms(call, later)
    <2> SUFFICES ASSUME call.at = "tombstone" PROVE Dooms(call, later)
      BY DEF Dooms
    <2>1. /\ In(call.ref, files) /\ files[call.ref] \in {call.read, Tombstone(call.read)}
          /\ Whole(call.read) /\ call.read.kind = "manifest" /\ ~call.read.hold
          /\ BoundTo(call.q.token, call.read.tenant)
      BY DEF Sound, Dooms
    <2>2. In(call.ref, later)
          /\ later[call.ref] \in {files[call.ref], Tombstone(files[call.ref])}
      BY <2>1, TombstoneFields DEF Evolves, In
    <2>3. later[call.ref] \in {call.read, Tombstone(call.read)}
      BY <2>1, <2>2, TombstoneFields
    <2> QED BY <2>1, <2>2, <2>3 DEF Dooms
  <1>2. Cleared(call, later)
    <2>1. Cleared(call, files)
      BY DEF Sound
    <2>2. ASSUME call.demand # None
          PROVE  Met(call.demand, call.unit.approval, call.unit.tenant, call.unit.id, later)
      <3>1. Met(call.demand, call.unit.approval, call.unit.tenant, call.unit.id, files)
        BY <2>1, <2>2 DEF Cleared
      <3> QED BY <3>1, MetStays
    <2> QED BY <2>1, <2>2 DEF Cleared
  <1>3. Announces(call, later)
    <2> SUFFICES ASSUME call.at = "append" PROVE Announces(call, later)
      BY DEF Announces
    <2>1. Announces(call, files) /\ Tells0(call.event, files)
      BY DEF Sound, Announces
    <2>2. Tells0(call.event, later)
      BY <2>1, TellsStays
    <2>3. ASSUME call.event.about # 0, files[call.event.about].kind = "plugin"
          PROVE  later[call.event.about].kind = "plugin"
      BY <2>1, <2>3 DEF Tells0, Evolves, In
    <2> QED BY <2>1, <2>2, <2>3 DEF Announces
  <1> QED BY <1>1, <1>2, <1>3 DEF Sound
-----------------------------------------------------------------------------
(* What one call does to the files leaves what the others rest on.         *)
LEMMA OthersSound ==
  ASSUME IInv, SInv, Evolves(records, records'), NEW t \in Thread, NEW call,
         calls' = [calls EXCEPT ![t] = call], Sound(call, records')
  PROVE  SoundInv'
  <1>1. \A id \in Id : In(id, records) => Whole(records[id])
    BY DEF SInv, FilesInv, In, Stored
  <1>2. \A s \in Thread : Sound(calls[s], records')
    BY <1>1, SoundStays DEF SInv, SoundInv
  <1> QED BY <1>2 DEF SoundInv, IInv

LEMMA LedgerStays ==
  ASSUME SInv, Evolves(records, records')
  PROVE  \A event \in ledger : Tells0(event, records')
  BY TellsStays DEF SInv, LedgerInv, FilesInv, In, Stored

LEMMA Unchanged == ASSUME records' = records PROVE Evolves(records, records')
  BY DEF Evolves

(* Events stay when a call that has none to append goes on.                *)
LEMMA CausedGrows ==
  ASSUME IInv, NEW t \in Thread, ~At(t, "append"), NEW call, calls' = [calls EXCEPT ![t] = call],
         UNCHANGED <<ledger, lost>>
  PROVE  /\ Caused \subseteq Caused'
         /\ call # None /\ call.at = "append" => call.event \in Caused'
  <1>1. \A s \in Thread : At(s, "append") => At(s, "append")' /\ calls'[s].event = calls[s].event
    BY DEF At, IInv
  <1>2. call # None /\ call.at = "append" => At(t, "append")' /\ calls'[t].event = call.event
    BY DEF At, IInv
  <1> QED BY <1>1, <1>2 DEF Caused, Pending

LEMMA AuditedStays ==
  ASSUME NEW id, NEW r, NEW events, NEW more, events \subseteq more, Audited(id, r, events)
  PROVE  Audited(id, r, more)
  BY DEF Audited

(* A call that goes on without storing anything.                           *)
LEMMA Goes0 ==
  ASSUME IInv, SInv, NEW t \in Thread, ~At(t, "append"), NEW call,
         calls' = [calls EXCEPT ![t] = call], Sound(call, records),
         UNCHANGED <<records, ledger, lost>>
  PROVE  SInv'
  <1>1. SoundInv'
    BY OthersSound, Unchanged
  <1>2. FilesInv' /\ LedgerInv'
    BY DEF SInv, FilesInv, LedgerInv, Stored
  <1>3. AuditInv'
    BY CausedGrows, AuditedStays DEF SInv, AuditInv, Stored
  <1> QED BY <1>1, <1>2, <1>3 DEF SInv

LEMMA Answers0 ==
  ASSUME IInv, SInv, NEW t \in Thread, ~At(t, "append"), NEW status, Answer(t, status),
         UNCHANGED <<records, ledger, lost>>
  PROVE  SInv'
  <1>1. Sound(Response(status, {}), records)
    BY DEF Sound, Response
  <1> QED BY <1>1, Goes0 DEF Answer

LEMMA InsertEvolves ==
  ASSUME IInv, NEW id \in Id, NEW r, Insert(id, r)
  PROVE  /\ Evolves(records, records') /\ records'[id] = r /\ records[id] = None
         /\ \A other \in Id : other # id => records'[other] = records[other]
  BY DEF IInv, Insert, Evolves, In

(* A plugin takes the place of another one.                                *)
LEMMA ReplaceEvolves ==
  ASSUME NoneIsNoRecord, IInv, NEW id \in Id, NEW r, Shaped(r), r.kind = "plugin", Replace(id, r)
  PROVE  /\ Evolves(records, records') /\ records'[id] = r
         /\ \A other \in Id : other # id => records'[other] = records[other]
  <1>1. r # None
    BY DEF NoneIsNoRecord, Shaped
  <1>2. /\ records'[id] = r /\ records[id].kind = "plugin"
        /\ \A other \in Id : other # id => records'[other] = records[other]
    BY DEF IInv, Replace, Exists
  <1> QED BY <1>1, <1>2 DEF Evolves, In

(* A call that stores a record and goes on to append its event.            *)
LEMMA Stores ==
  ASSUME IInv, SInv, NEW t \in Thread, ~At(t, "append"), NEW id \in Id, NEW r,
         Evolves(records, records'), records'[id] = r,
         \A other \in Id : other # id => records'[other] = records[other],
         Whole(r), Approved(r, records), r.kind = "manifest" => r.state # "tombstoned",
         NEW call, calls' = [calls EXCEPT ![t] = call], Sound(call, records'),
         \/ r.kind = "job"
         \/ /\ call # None /\ call.at = "append"
            /\ call.event.about = id /\ call.event.type = EventOf(r.kind) /\ call.event.by = r.by,
         UNCHANGED <<ledger, lost>>
  PROVE  SInv'
  <1>1. SoundInv'
    BY OthersSound
  <1>2. LedgerInv'
    BY LedgerStays DEF LedgerInv
  <1>3. FilesInv'
    <2>1. Approved(r, records')
      BY MetStays DEF Approved
    <2>2. \A other \in Stored : Whole(records[other]) /\ Approved(records[other], records')
      BY MetStays DEF SInv, FilesInv, Approved
    <2> QED BY <2>1, <2>2 DEF FilesInv, Stored
  <1>4. AuditInv'
    <2>1. \A other \in Stored : Audited(other, records[other], Caused')
      BY CausedGrows, AuditedStays DEF SInv, AuditInv
    <2>2. Audited(id, r, Caused')
      BY CausedGrows DEF Audited
    <2> QED BY <2>1, <2>2 DEF AuditInv, Stored
  <1> QED BY <1>1, <1>2, <1>3, <1>4 DEF SInv

(* A Put of a record of a kind that is announced as such.                  *)
LEMMA PutSound ==
  ASSUME NoneIsNoRecord, IInv, SInv, NEW t \in Thread, Busy(t), ~At(t, "append"), ~At(t, "tombstone"),
         NEW r, Whole(r), r.kind \in Kinds \ {"plugin", "job"}, Approved(r, records),
         r.by = calls[t].q.token,
         r.kind = "manifest" => r.state # "tombstoned",
         NEW then \in {"answer", "put manifest"},
         then = "put manifest" => calls[t].demand # None,
         Put(t, r, EventOf(r.kind), then), UNCHANGED lost
  PROVE  SInv'
  <1>1. CASE ~Bound(t, r.tenant)
    BY <1>1, Answers0 DEF Put
  <1>2. CASE Bound(t, r.tenant)
    <2>1. PICK id \in Id : Insert(id, r) /\ ThenAppend(t, Event(t, EventOf(r.kind), r.tenant, id), then)
      BY <1>2 DEF Put
    <2> DEFINE event == Event(t, EventOf(r.kind), r.tenant, id)
               call == [calls[t] EXCEPT !.at = "append", !.event = event, !.then = then]
    <2>2. /\ event.about = id /\ event.type = EventOf(r.kind) /\ event.tenant = r.tenant
          /\ event.by = r.by
          /\ event.type \notin {"plugin.registered", "s3.delete.tombstoned"}
      BY DEF Event, EventOf, Kinds
    <2>3. /\ Evolves(records, records') /\ records'[id] = r
          /\ \A other \in Id : other # id => records'[other] = records[other]
      BY <2>1, InsertEvolves
    <2>4. In(id, records')
      BY <2>3 DEF In, NoneIsNoRecord, Whole, Shaped
    <2>5. UnderWay(calls[t]) /\ calls[t].at # "answered" /\ calls[t] # None
      BY CallUnderWay DEF Busy
    <2> HIDE DEF event
    <2>6. /\ call.at = "append" /\ call.event = event /\ call.then = then /\ call.q = calls[t].q
          /\ call.demand = calls[t].demand /\ call.unit = calls[t].unit /\ "at" \in DOMAIN call
      BY <2>5 DEF UnderWay, CallFields
    <2>7. calls' = [calls EXCEPT ![t] = call]
      BY <2>1 DEF ThenAppend, event
    <2> HIDE DEF call
    <2>8. Sound(calls[t], records')
      BY <2>3, SoundStays DEF SInv, SoundInv, FilesInv, In, Stored
    <2>9. Cleared(call, records')
      BY <2>5, <2>6, <2>8 DEF Sound, Cleared
    <2>10. Announces(call, records')
      BY <1>2, <2>2, <2>3, <2>4, <2>6 DEF Announces, Tells0, BoundTo, Bound, Caller
    <2>11. Sound(call, records')
      BY <2>6, <2>9, <2>10 DEF Sound, Dooms
    <2>12. call # None
      BY <2>6 DEF NoneIsNoRecord
    <2> QED BY <2>2, <2>3, <2>6, <2>7, <2>11, <2>12, Stores DEF Put
  <1> QED BY <1>1, <1>2
-----------------------------------------------------------------------------
LEMMA StoreSteps ==
  ASSUME NoneIsNoRecord, IInv, SInv, NEW t \in Thread, PutUnit(t) \/ PutPlan(t) \/ Issue(t)
  PROVE  SInv'
  <1>1. CASE PutUnit(t)
    <2> DEFINE r == [kind |-> "unit", tenant |-> calls[t].unit.tenant, by |-> calls[t].q.token,
                     hold |-> calls[t].unit.hold, approval |-> calls[t].unit.approval]
    <2>1. Whole(r) /\ r.kind = "unit" /\ r.by = calls[t].q.token /\ Approved(r, records)
      BY DEF Whole, Shaped, Kinds, Approved
    <2>2. /\ Put(t, r, EventOf("unit"), "answer") /\ UNCHANGED lost
          /\ Busy(t) /\ ~At(t, "append") /\ ~At(t, "tombstone")
      BY <1>1 DEF PutUnit, Put, EventOf, At, Busy
    <2> HIDE DEF r
    <2> QED BY <2>1, <2>2, PutSound DEF Kinds
  <1>2. CASE PutPlan(t)
    <2> DEFINE r == [kind |-> "plan", tenant |-> calls[t].unit.tenant, by |-> calls[t].q.token]
               then == IF Executing(t) THEN "put manifest" ELSE "answer"
    <2>1. Whole(r) /\ r.kind = "plan" /\ r.by = calls[t].q.token /\ Approved(r, records)
      BY DEF Whole, Shaped, Kinds, Approved
    <2>2. /\ Put(t, r, EventOf("plan"), then) /\ UNCHANGED lost
          /\ Busy(t) /\ ~At(t, "append") /\ ~At(t, "tombstone")
      BY <1>2 DEF PutPlan, Put, EventOf, At, Busy
    <2>3. then \in {"answer", "put manifest"} /\ (then = "put manifest" => calls[t].demand # None)
      BY DEF Executing
    <2> HIDE DEF r, then
    <2> QED BY <2>1, <2>2, <2>3, PutSound DEF Kinds
  <1>3. CASE Issue(t)
    <2> DEFINE q == calls[t].q
               r == [kind |-> "approval", tenant |-> ApprovalTenant(q), by |-> q.token,
                     demand |-> q.approves, unit |-> calls[t].ref, until |-> clock + q.ttl]
    <2>1. Whole(r) /\ r.kind = "approval" /\ r.by = calls[t].q.token /\ Approved(r, records)
      BY DEF Whole, Shaped, Kinds, Approved
    <2>2. /\ Put(t, r, EventOf("approval"), "answer") /\ UNCHANGED lost
          /\ Busy(t) /\ ~At(t, "append") /\ ~At(t, "tombstone")
      BY <1>3 DEF Issue, Put, EventOf, At, Busy
    <2> HIDE DEF r
    <2> QED BY <2>1, <2>2, PutSound DEF Kinds
  <1> QED BY <1>1, <1>2, <1>3

LEMMA ManifestStored ==
  ASSUME NoneIsNoRecord, IInv, SInv, NEW t \in Thread, PutManifest(t)
  PROVE  SInv'
  <1> DEFINE unit == calls[t].unit
             mode == ModeOf(calls[t].q)
             r == [kind |-> "manifest", tenant |-> unit.tenant, by |-> calls[t].q.token,
                   hold |-> LineageHold(mode, unit), held |-> unit.hold, unit |-> unit.id,
                   approval |-> unit.approval, demand |-> calls[t].demand,
                   state |-> IF mode = "observe" THEN "planned"
                             ELSE IF mode = "shadow" THEN "superseded" ELSE "active"]
  <1>1. Whole(r) /\ r.kind = "manifest" /\ r.by = calls[t].q.token /\ r.state # "tombstoned"
    BY DEF Whole, Shaped, Kinds
  <1>2. /\ Put(t, r, EventOf("manifest"), "answer") /\ UNCHANGED lost
        /\ Busy(t) /\ ~At(t, "append") /\ ~At(t, "tombstone") /\ calls[t].at = "put manifest"
    BY DEF PutManifest, Put, EventOf, At, Busy
  <1>3. Met(calls[t].demand, unit.approval, unit.tenant, unit.id, records)
    BY <1>2 DEF SInv, SoundInv, Sound, Cleared, Busy
  <1>4. Approved(r, records)
    BY <1>3 DEF Approved
  <1> HIDE DEF r
  <1> QED BY <1>1, <1>2, <1>4, PutSound DEF Kinds

(* A plugin, a new one or one in place of another.  Its event, another     *)
(* tenant's, may be refused; it is on its way.                             *)
LEMMA PluginStored ==
  ASSUME NoneIsNoRecord, IInv, SInv, NEW t \in Thread, Register(t)
  PROVE  SInv'
  <1> DEFINE r == [kind |-> "plugin", tenant |-> "*", by |-> calls[t].q.token]
  <1>1. PICK id \in Id : /\ Insert(id, r) \/ Replace(id, r)
                         /\ ThenAppend(t, Event(t, "plugin.registered",
                                                Or(calls[t].q.inner, "system"), id), "answer")
    BY DEF Register
  <1> DEFINE event == Event(t, "plugin.registered", Or(calls[t].q.inner, "system"), id)
             call == [calls[t] EXCEPT !.at = "append", !.event = event, !.then = "answer"]
  <1>2. /\ Busy(t) /\ ~At(t, "append") /\ calls[t] # None /\ UNCHANGED <<ledger, lost>>
        /\ UnderWay(calls[t]) /\ calls[t].at # "answered"
    BY CallUnderWay DEF Register, At, Busy
  <1>3. Whole(r) /\ r.kind = "plugin" /\ r.by = calls[t].q.token /\ Approved(r, records)
    BY DEF Whole, Shaped, Kinds, Approved
  <1>4. /\ event.about = id /\ event.by = calls[t].q.token
        /\ event.type = "plugin.registered" /\ EventOf("plugin") = event.type
    BY DEF Event, EventOf
  <1> HIDE DEF r, event
  <1>5. /\ call.at = "append" /\ call.event = event /\ call.then = "answer" /\ call.q = calls[t].q
        /\ call.demand = calls[t].demand /\ call.unit = calls[t].unit /\ "at" \in DOMAIN call
    BY <1>2 DEF UnderWay, CallFields
  <1>6. calls' = [calls EXCEPT ![t] = call]
    BY <1>1 DEF ThenAppend, event
  <1> HIDE DEF call
  <1>7. /\ Evolves(records, records') /\ records'[id] = r
        /\ \A other \in Id : other # id => records'[other] = records[other]
    BY <1>1, <1>3, InsertEvolves, ReplaceEvolves DEF Whole
  <1>8. In(id, records')
    BY <1>3, <1>7 DEF In, NoneIsNoRecord, Whole, Shaped
  <1>9. Sound(calls[t], records')
    BY <1>7, SoundStays DEF SInv, SoundInv, FilesInv, In, Stored
  <1>10. Cleared(call, records')
    BY <1>2, <1>5, <1>9 DEF Sound, Cleared
  <1>11. Announces(call, records')
    BY <1>3, <1>4, <1>5, <1>7, <1>8 DEF Announces, Tells0
  <1>12. Sound(call, records') /\ call # None
    BY <1>5, <1>10, <1>11 DEF Sound, Dooms, NoneIsNoRecord
  <1>13. /\ call.at = "append" /\ call.event.about = id /\ call.event.type = EventOf(r.kind)
         /\ call.event.by = r.by /\ r.kind # "manifest"
    BY <1>3, <1>4, <1>5
  <1> QED BY <1>2, <1>3, <1>6, <1>7, <1>12, <1>13, Stores

LEMMA JobStored ==
  ASSUME IInv, SInv, NEW t \in Thread, Submit(t)
  PROVE  SInv'
  <1> DEFINE tenant == Or(calls[t].q.body, "local")
             r == [kind |-> "job", tenant |-> tenant, by |-> calls[t].q.token]
  <1>1. ~At(t, "append") /\ UNCHANGED <<ledger, lost>>
    BY DEF Submit, At
  <1>2. CASE Bound(t, tenant)
    <2>1. PICK id \in Id : Insert(id, r)
      BY <1>2 DEF Submit
    <2>2. calls' = [calls EXCEPT ![t] = Response(200, {})] /\ Sound(Response(200, {}), records')
      BY <1>2 DEF Submit, Answer, Sound, Response
    <2>3. Whole(r) /\ r.kind = "job" /\ Approved(r, records)
      BY DEF Whole, Shaped, Kinds, Approved
    <2> HIDE DEF r
    <2>4. /\ Evolves(records, records') /\ records'[id] = r
          /\ \A other \in Id : other # id => records'[other] = records[other]
      BY <2>1, InsertEvolves
    <2> QED BY <1>1, <2>2, <2>3, <2>4, Stores
  <1>3. CASE ~Bound(t, tenant)
    BY <1>1, <1>3, Answers0 DEF Submit
  <1> QED BY <1>2, <1>3
-----------------------------------------------------------------------------
LEMMA ArrivalSound ==
  ASSUME IInv, SInv, NEW t \in Thread, NEW q, NEW ref, Arrive(t, q, ref)
  PROVE  SInv'
  <1>1. PICK call : calls' = [calls EXCEPT ![t] = call] /\ Sound(call, records)
    <2>1. ASSUME NEW r, NEW unit,
                 NEW stage \in {"put unit", "put plan", "admit", "plan stored", "execute stored",
                                "issue", "register", "submit", "delete"}
          PROVE  Sound(Begin(q, r, stage, unit), records)
      BY DEF Sound, Begin, Dooms, Cleared, Announces
    <2>2. ASSUME NEW r, NEW stage \in {"list", "read"}, NEW read
          PROVE  Sound([Begin(q, r, stage, None) EXCEPT !.read = read], records)
      BY DEF Sound, Begin, Dooms, Cleared, Announces
    <2>3. \A status : Sound(Response(status, {}), records)
      BY DEF Sound, Response
    <2>4. ASSUME NEW operation PROVE Sound(Handle(q, ref, operation), records)
      <3> DEFINE does == operation.does
                 call == Handle(q, ref, operation)
      <3>1. CASE does \in {"create", "plan", "execute"}
        <4>1. \/ call = Response(MemberMissing(q), {})
              \/ \E stage \in {"put unit", "put plan", "admit"} : call = Begin(q, ref, stage, UnitOf(q, ref))
          BY <3>1 DEF Handle
        <4> QED BY <2>1, <2>3, <4>1
      <3>2. CASE does \in {"plan stored", "execute stored"}
        <4>1. call = Begin(q, ref, does, None)
          BY <3>2 DEF Handle
        <4> QED BY <2>1, <3>2, <4>1
      <3>3. CASE does \in {"put", "issue", "register", "submit", "delete"}
        <4>1. CASE does = "put"
          <5>1. call = Begin(q, 0, "admit", ObjectUnit(q))
            BY <4>1 DEF Handle
          <5> QED BY <2>1, <5>1
        <4>2. CASE does = "issue"
          <5>1. call = Response(400, {}) \/ call = Begin(q, ref, "issue", None)
            BY <4>2 DEF Handle
          <5> QED BY <2>1, <2>3, <5>1
        <4>3. CASE does = "register"
          <5>1. call = Begin(q, 0, "register", None)
            BY <4>3 DEF Handle
          <5> QED BY <2>1, <5>1
        <4>4. CASE does = "submit"
          <5>1. call = Begin(q, 0, "submit", None)
            BY <4>4 DEF Handle
          <5> QED BY <2>1, <5>1
        <4>5. CASE does = "delete"
          <5>1. call = Begin(q, ref, "delete", None)
            BY <4>5 DEF Handle
          <5> QED BY <2>1, <5>1
        <4> QED BY <3>3, <4>1, <4>2, <4>3, <4>4, <4>5
      <3>4. CASE does \in {"list", "read"}
        <4>1. \/ call = [Begin(q, 0, "list", None) EXCEPT !.read = operation.kind]
              \/ call = [Begin(q, ref, "read", None) EXCEPT !.read = operation.kind]
          BY <3>4 DEF Handle
        <4>2. /\ Sound([Begin(q, 0, "list", None) EXCEPT !.read = operation.kind], records)
              /\ Sound([Begin(q, ref, "read", None) EXCEPT !.read = operation.kind], records)
          BY <2>2
        <4> QED BY <4>1, <4>2
      <3>5. CASE does \notin {"create", "plan", "execute", "plan stored", "execute stored", "put",
                             "issue", "register", "submit", "delete", "list", "read"}
        <4>1. call = Response(200, {})
          BY <3>5 DEF Handle
        <4> QED BY <2>3, <4>1
      <3> QED BY <3>1, <3>2, <3>3, <3>4, <3>5
    <2>5. CASE Admission(q) # 200
      BY <2>3, <2>5 DEF Arrive
    <2>6. CASE Admission(q) = 200
      BY <2>4, <2>6 DEF Arrive
    <2> QED BY <2>5, <2>6
  <1>2. ~At(t, "append") /\ UNCHANGED <<records, ledger, lost>>
    BY DEF Arrive, At, Busy
  <1> QED BY <1>1, <1>2, Goes0

LEMMA UnitLoaded ==
  ASSUME IInv, SInv, NEW t \in Thread, LoadUnit(t)
  PROVE  SInv'
  <1>1. /\ ~At(t, "append") /\ UNCHANGED <<records, ledger, lost>>
        /\ UnderWay(calls[t]) /\ calls[t].at \in {"plan stored", "execute stored"}
        /\ calls[t] # None /\ calls[t].at # "answered"
    BY CallUnderWay DEF LoadUnit, At, Busy
  <1>2. calls[t].demand = None
    BY <1>1 DEF SInv, SoundInv, Sound, Cleared
  <1>3. CASE Answer(t, 404) \/ Answer(t, 403)
    BY <1>1, <1>3, Answers0
  <1>4. ASSUME NEW unit, NEW stage \in {"put plan", "admit"},
               calls' = [calls EXCEPT ![t] = [calls[t] EXCEPT !.unit = unit, !.at = stage]]
        PROVE  SInv'
    <2> DEFINE call == [calls[t] EXCEPT !.unit = unit, !.at = stage]
    <2>1. call.at = stage /\ call.demand = None
      BY <1>1, <1>2 DEF UnderWay, CallFields
    <2>2. calls' = [calls EXCEPT ![t] = call]
      BY <1>4
    <2> HIDE DEF call
    <2>3. Sound(call, records)
      BY <2>1 DEF Sound, Dooms, Cleared, Announces
    <2> QED BY <1>1, <2>2, <2>3, Goes0
  <1>5. Answer(t, 404) \/ Answer(t, 403)
        \/ \E unit, stage :
              /\ stage \in {"put plan", "admit"}
              /\ calls' = [calls EXCEPT ![t] = [calls[t] EXCEPT !.unit = unit, !.at = stage]]
    BY DEF LoadUnit
  <1> QED BY <1>3, <1>4, <1>5

(* What the approval says when it is compared is what the execution keeps. *)
LEMMA UnitAdmitted ==
  ASSUME NoneIsNoRecord, IInv, SInv, NEW t \in Thread, NEW demand, Admit(t, demand)
  PROVE  SInv'
  <1> DEFINE unit == calls[t].unit
             cleared == [approval |-> demand, at |-> clock]
             call == [calls[t] EXCEPT !.at = "put plan", !.demand = cleared]
             event == Event(t, "policy.denied", unit.tenant, 0)
             denied == [calls[t] EXCEPT !.at = "append", !.event = event, !.then = "deny"]
  <1>1. /\ ~At(t, "append") /\ UNCHANGED <<records, ledger, lost>>
        /\ UnderWay(calls[t]) /\ calls[t].at = "admit"
        /\ calls[t] # None /\ calls[t].at # "answered"
    BY CallUnderWay DEF Admit, At, Busy
  <1>2. CASE demand = "nothing" \/ Verified(unit, demand)
    <2>1. calls' = [calls EXCEPT ![t] = call]
      BY <1>2 DEF Admit
    <2>2. Met(cleared, unit.approval, unit.tenant, unit.id, records)
      BY <1>2 DEF Met, Verified, Exists, In
    <2>3. call.at = "put plan" /\ call.demand = cleared /\ call.unit = unit
      BY <1>1 DEF UnderWay, CallFields
    <2> HIDE DEF call
    <2>4. Sound(call, records)
      BY <2>2, <2>3 DEF Sound, Dooms, Cleared, Announces
    <2> QED BY <1>1, <2>1, <2>4, Goes0
  <1>3. CASE ~(demand = "nothing" \/ Verified(unit, demand)) /\ unit.approval = 0
    <2>1. calls' = [calls EXCEPT ![t] = denied]
      BY <1>3 DEF Admit, ThenAppend
    <2>2. /\ denied.at = "append" /\ denied.event.about = 0 /\ denied.then = "deny"
          /\ denied.demand = calls[t].demand /\ denied.unit = unit
      BY <1>1 DEF UnderWay, CallFields, Event
    <2> HIDE DEF denied
    <2>3. Cleared(calls[t], records)
      BY <1>1 DEF SInv, SoundInv, Sound
    <2>4. Sound(denied, records)
      BY <2>2, <2>3 DEF Sound, Dooms, Cleared, Announces, Tells0
    <2> QED BY <1>1, <2>1, <2>4, Goes0
  <1>4. CASE ~(demand = "nothing" \/ Verified(unit, demand)) /\ unit.approval # 0
    BY <1>1, <1>4, Answers0 DEF Admit
  <1> QED BY <1>2, <1>3, <1>4

LEMMA DoomedLoaded ==
  ASSUME NoneIsNoRecord, IInv, SInv, NEW t \in Thread, LoadDoomed(t)
  PROVE  SInv'
  <1> DEFINE id == calls[t].ref
             r == records[id]
             call == [calls[t] EXCEPT !.at = "tombstone", !.read = r]
             event == Event(t, "s3.delete.denied", r.tenant, id)
             denied == [calls[t] EXCEPT !.at = "append", !.event = event, !.then = "answer"]
  <1>1. /\ ~At(t, "append") /\ UNCHANGED <<records, ledger, lost>>
        /\ UnderWay(calls[t]) /\ calls[t] # None /\ calls[t].at # "answered"
        /\ Cleared(calls[t], records)
    BY CallUnderWay DEF LoadDoomed, At, Busy, SInv, SoundInv, Sound
  <1>2. CASE Answer(t, 404) \/ Answer(t, 403)
    BY <1>1, <1>2, Answers0
  <1>3. ASSUME Exists(id, "manifest"), Bound(t, r.tenant)
        PROVE  /\ In(id, records) /\ Whole(r) /\ r.kind = "manifest" /\ BoundTo(calls[t].q.token, r.tenant)
    BY <1>3 DEF Exists, In, SInv, FilesInv, Stored, Bound, BoundTo, Caller
  <1>4. ASSUME Exists(id, "manifest"), Bound(t, r.tenant), ~r.hold, calls' = [calls EXCEPT ![t] = call]
        PROVE  SInv'
    <2>1. /\ call.at = "tombstone" /\ call.read = r /\ call.ref = id /\ call.q = calls[t].q
          /\ call.demand = calls[t].demand /\ call.unit = calls[t].unit
      BY <1>1 DEF UnderWay, CallFields
    <2>2. calls' = [calls EXCEPT ![t] = call]
      BY <1>4
    <2> HIDE DEF call
    <2>3. Dooms(call, records)
      BY <1>3, <1>4, <2>1 DEF Dooms
    <2>4. Sound(call, records)
      BY <1>1, <2>1, <2>3 DEF Sound, Cleared, Announces
    <2> QED BY <1>1, <2>2, <2>4, Goes0
  <1>5. ASSUME Exists(id, "manifest"), Bound(t, r.tenant), calls' = [calls EXCEPT ![t] = denied]
        PROVE  SInv'
    <2>1. /\ denied.at = "append" /\ denied.event = event /\ denied.then = "answer"
          /\ denied.q = calls[t].q /\ denied.demand = calls[t].demand /\ denied.unit = calls[t].unit
      BY <1>1 DEF UnderWay, CallFields
    <2>2. event.about = id /\ event.tenant = r.tenant /\ event.type = "s3.delete.denied"
      BY DEF Event
    <2>3. calls' = [calls EXCEPT ![t] = denied]
      BY <1>5
    <2> HIDE DEF denied, event
    <2>4. Announces(denied, records)
      BY <1>3, <1>5, <2>1, <2>2 DEF Announces, Tells0
    <2>5. Sound(denied, records)
      BY <1>1, <2>1, <2>4 DEF Sound, Cleared, Dooms
    <2> QED BY <1>1, <2>3, <2>5, Goes0
  <1>6. \/ Answer(t, 404) \/ Answer(t, 403)
        \/ /\ Exists(id, "manifest") /\ Bound(t, r.tenant)
           /\ calls' = [calls EXCEPT ![t] = denied] \/ (~r.hold /\ calls' = [calls EXCEPT ![t] = call])
    BY DEF LoadDoomed, Kept, ThenAppend
  <1> QED BY <1>2, <1>4, <1>5, <1>6

(* Only the manifest that was read becomes a tombstone, or is one already. *)
LEMMA TombstoneEvolves ==
  ASSUME NoneIsNoRecord, IInv, SInv, NEW t \in Thread, PutTombstone(t)
  PROVE  LET id == calls[t].ref
         IN  /\ In(id, records) /\ Whole(records[id]) /\ records[id].kind = "manifest"
             /\ Whole(calls[t].read) /\ calls[t].read.kind = "manifest"
             /\ BoundTo(calls[t].q.token, calls[t].read.tenant)
             /\ records'[id] = Tombstone(records[id]) /\ records'[id] = Tombstone(calls[t].read)
             /\ \A other \in Id : other # id => records'[other] = records[other]
             /\ Evolves(records, records')
  <1> DEFINE id == calls[t].ref
             read == calls[t].read
  <1>1. calls[t] # None /\ calls[t].at = "tombstone"
    BY DEF PutTombstone, At
  <1>2. Dooms(calls[t], records)
    BY <1>1 DEF SInv, SoundInv, Sound
  <1>3. /\ In(id, records) /\ records[id] \in {read, Tombstone(read)}
        /\ Whole(read) /\ read.kind = "manifest" /\ ~read.hold
        /\ BoundTo(calls[t].q.token, read.tenant)
    BY <1>1, <1>2 DEF Dooms
  <1>4. records' = [records EXCEPT ![id] = Tombstone(read)]
    BY DEF PutTombstone, Tombstone
  <1>5. /\ Whole(records[id]) /\ records[id].kind = "manifest" /\ ~records[id].hold
        /\ Tombstone(records[id]) = Tombstone(read) /\ Whole(Tombstone(read))
    BY <1>3, TombstoneFields
  <1>6. Tombstone(read) # None
    BY <1>5 DEF NoneIsNoRecord, Whole, Shaped
  <1>7. /\ records'[id] = Tombstone(read)
        /\ \A other \in Id : other # id => records'[other] = records[other]
    BY <1>3, <1>4 DEF In, IInv
  <1>8. Evolves(records, records')
    BY <1>5, <1>6, <1>7 DEF Evolves, In
  <1> QED BY <1>3, <1>5, <1>7, <1>8

LEMMA TombstoneStored ==
  ASSUME NoneIsNoRecord, IInv, SInv, NEW t \in Thread, PutTombstone(t)
  PROVE  SInv'
  <1> DEFINE id == calls[t].ref
             read == calls[t].read
             event == Event(t, "s3.delete.tombstoned", read.tenant, id)
             call == [calls[t] EXCEPT !.at = "append", !.event = event, !.then = "answer"]
  <1>1. /\ In(id, records) /\ Whole(records[id]) /\ records[id].kind = "manifest"
        /\ Whole(read) /\ read.kind = "manifest" /\ BoundTo(calls[t].q.token, read.tenant)
        /\ records'[id] = Tombstone(records[id]) /\ records'[id] = Tombstone(read)
        /\ \A other \in Id : other # id => records'[other] = records[other]
        /\ Evolves(records, records')
    BY TombstoneEvolves
  <1>2. /\ ~At(t, "append") /\ UNCHANGED <<ledger, lost>>
        /\ UnderWay(calls[t]) /\ calls[t] # None /\ calls[t].at # "answered"
    BY CallUnderWay DEF PutTombstone, At, Busy
  <1>3. calls' = [calls EXCEPT ![t] = call]
    BY DEF PutTombstone, ThenAppend
  <1>4. event.about = id /\ event.tenant = read.tenant /\ event.type = "s3.delete.tombstoned"
    BY DEF Event
  <1>5. /\ call.at = "append" /\ call.event = event /\ call.then = "answer" /\ call.q = calls[t].q
        /\ call.demand = calls[t].demand /\ call.unit = calls[t].unit /\ "at" \in DOMAIN call
    BY <1>2 DEF UnderWay, CallFields
  <1> HIDE DEF call, event
  <1>6. call # None
    BY <1>5 DEF NoneIsNoRecord
  <1>7. Sound(calls[t], records')
    BY <1>1, SoundStays DEF SInv, SoundInv, FilesInv, In, Stored
  <1>8. Announces(call, records')
    <2>1. /\ In(id, records') /\ records'[id].tenant = read.tenant
          /\ records'[id].kind = "manifest" /\ records'[id].state = "tombstoned"
      BY <1>1, TombstoneFields DEF Evolves, In
    <2> QED BY <1>1, <1>4, <1>5, <2>1 DEF Announces, Tells0
  <1>9. Sound(call, records')
    BY <1>2, <1>5, <1>7, <1>8 DEF Sound, Cleared, Dooms
  <1>10. SoundInv'
    BY <1>1, <1>3, <1>9, OthersSound
  <1>11. LedgerInv'
    BY <1>1, <1>2, LedgerStays DEF LedgerInv
  <1>12. FilesInv'
    <2>1. Whole(records'[id])
      BY <1>1, TombstoneFields
    <2>2. Approved(records'[id], records)
      <3>1. Approved(records[id], records)
        BY <1>1 DEF SInv, FilesInv, Stored, In
      <3>2. LET r == Tombstone(records[id])
            IN  /\ r.demand = records[id].demand /\ r.approval = records[id].approval
                /\ r.tenant = records[id].tenant /\ r.unit = records[id].unit
        BY <1>1, TombstoneFields
      <3> QED BY <1>1, <3>1, <3>2 DEF Approved
    <2>3. Approved(records'[id], records')
      BY <1>1, <2>2, MetStays DEF Approved
    <2>4. \A other \in Stored : Whole(records[other]) /\ Approved(records[other], records')
      BY <1>1, MetStays DEF SInv, FilesInv, Approved
    <2> QED BY <1>1, <2>1, <2>3, <2>4 DEF FilesInv, Stored
  <1>13. AuditInv'
    <2>1. Caused \subseteq Caused' /\ event \in Caused'
      BY <1>2, <1>3, <1>5, <1>6, CausedGrows
    <2>2. \A other \in Stored : Audited(other, records[other], Caused')
      BY <2>1, AuditedStays DEF SInv, AuditInv
    <2>3. Audited(id, records'[id], Caused')
      <3>1. Audited(id, records[id], Caused')
        BY <1>1, <2>2 DEF In, Stored
      <3>2. /\ Tombstone(records[id]).kind = records[id].kind
            /\ Tombstone(records[id]).by = records[id].by
        BY <1>1, TombstoneFields
      <3>3. records'[id].kind = records[id].kind /\ records'[id].by = records[id].by
        BY <1>1, <3>2
      <3> QED BY <1>1, <1>4, <2>1, <3>1, <3>3 DEF Audited
    <2> QED BY <1>1, <2>2, <2>3 DEF AuditInv, Stored
  <1> QED BY <1>10, <1>11, <1>12, <1>13 DEF SInv
-----------------------------------------------------------------------------
(* An event reaches the ledger, or is that of a plugin and refused.        *)
LEMMA EventAppended ==
  ASSUME IInv, SInv, NEW t \in Thread, AppendEvent(t)
  PROVE  SInv'
  <1> DEFINE event == calls[t].event
  <1>1. /\ calls[t] # None /\ calls[t].at = "append" /\ UNCHANGED <<records, lost>>
        /\ UnderWay(calls[t])
    BY CallUnderWay DEF AppendEvent, At, Busy
  <1>2. Sound(calls[t], records) /\ Cleared(calls[t], records) /\ Announces(calls[t], records)
    BY <1>1 DEF SInv, SoundInv, Sound
  <1>3. PICK call : calls' = [calls EXCEPT ![t] = call] /\ Sound(call, records) /\ ~(call # None /\ call.at = "append")
    <2>1. CASE \E status : Answer(t, status)
      <3>1. \A status : Sound(Response(status, {}), records) /\ Response(status, {}).at # "append"
        BY DEF Sound, Response
      <3>2. PICK status : calls' = [calls EXCEPT ![t] = Response(status, {})]
        BY <2>1 DEF Answer
      <3> DEFINE call == Response(status, {})
      <3>3. calls' = [calls EXCEPT ![t] = call] /\ Sound(call, records) /\ call.at # "append"
        BY <3>1, <3>2
      <3> HIDE DEF call
      <3> QED BY <3>3
    <2>2. CASE Go(t, "put manifest") /\ calls[t].then = "put manifest"
      <3> DEFINE call == [calls[t] EXCEPT !.at = "put manifest"]
      <3>1. /\ call.at = "put manifest" /\ call.demand = calls[t].demand /\ call.unit = calls[t].unit
        BY <1>1 DEF UnderWay, CallFields
      <3>2. calls' = [calls EXCEPT ![t] = call]
        BY <2>2 DEF Go
      <3> HIDE DEF call
      <3>3. Sound(call, records)
        BY <1>1, <1>2, <2>2, <3>1 DEF Sound, Cleared, Dooms, Announces
      <3> QED BY <3>1, <3>2, <3>3
    <2> QED BY <1>1, <2>1, <2>2 DEF AppendEvent, UnderWay
  <1>4. SoundInv'
    BY <1>1, <1>3, OthersSound, Unchanged
  <1>5. FilesInv'
    BY <1>1 DEF SInv, FilesInv, Stored
  <1>6. \A other \in Thread \ {t} : At(other, "append") => At(other, "append")' /\ calls'[other].event = calls[other].event
    BY <1>3 DEF At, IInv
  <1>7. Pending \subseteq Pending' \cup {event}
    BY <1>6 DEF Pending
  <1>8. CASE Bound(t, event.tenant)
    <2>1. ledger' = ledger \cup {event}
      BY <1>8 DEF AppendEvent
    <2>2. LedgerInv'
      BY <1>1, <1>2, <2>1 DEF SInv, LedgerInv, Announces
    <2>3. Caused \subseteq Caused'
      BY <1>1, <1>7, <2>1 DEF Caused
    <2>4. AuditInv'
      BY <1>1, <2>3, AuditedStays DEF SInv, AuditInv, Stored
    <2> QED BY <1>4, <1>5, <2>2, <2>4 DEF SInv
  <1>9. CASE ~Bound(t, event.tenant)
    <2>1. ledger' = ledger
      BY <1>9 DEF AppendEvent
    <2>2. LedgerInv'
      BY <1>1, <2>1 DEF SInv, LedgerInv
    <2>3. Caused \subseteq Caused' \cup {event}
      BY <1>1, <1>7, <2>1 DEF Caused
    <2>4. ASSUME NEW id \in Stored, event.about = id
          PROVE  /\ event.type = "plugin.registered" /\ records[id].kind = "plugin"
                 /\ TenantOf(Principal[event.by]) # None
      <3>1. id # 0
        BY ServiceAssumption DEF Stored, Id
      <3>2. event.type = "plugin.registered"
        BY <1>1, <1>2, <1>9, <2>4, <3>1 DEF Announces, Bound, BoundTo, Caller
      <3>3. records[id].kind = "plugin" /\ event.by = calls[t].q.token
        BY <1>1, <1>2, <2>4, <3>1, <3>2 DEF Announces, UnderWay
      <3> QED BY <1>9, <3>2, <3>3 DEF Bound, Caller
    <2>5. ASSUME NEW id \in Stored PROVE Audited(id, records[id], Caused')
      <3>1. Audited(id, records[id], Caused)
        BY DEF SInv, AuditInv
      <3>2. CASE event.about = id /\ event.by = records[id].by
        <4>1. /\ event.type = "plugin.registered" /\ records[id].kind = "plugin"
              /\ TenantOf(Principal[records[id].by]) # None
          BY <2>4, <3>2
        <4> QED BY <4>1 DEF Audited
      <3>3. CASE event.about = id /\ event.by # records[id].by
        <4>1. records[id].kind = "plugin"
          BY <2>4, <3>3
        <4> QED BY <2>3, <3>1, <3>3, <4>1 DEF Audited
      <3>4. CASE event.about # id
        BY <2>3, <3>1, <3>4 DEF Audited
      <3> QED BY <3>2, <3>3, <3>4
    <2>6. AuditInv'
      BY <1>1, <2>5 DEF AuditInv, Stored
    <2> QED BY <1>4, <1>5, <2>2, <2>6 DEF SInv
  <1> QED BY <1>8, <1>9

LEMMA RecordsTold ==
  ASSUME IInv, SInv, NEW t \in Thread, ReadRecord(t) \/ ListRecords(t)
  PROVE  SInv'
  <1>1. ~At(t, "append") /\ UNCHANGED <<records, ledger, lost>>
    BY DEF ReadRecord, ListRecords, At
  <1>2. ASSUME NEW kind, NEW tenants, Tell(t, kind, tenants) PROVE SInv'
    <2> DEFINE told == {[token |-> calls[t].q.token, tenant |-> tenant,
                         clear |-> kind = "manifest" /\ InClear(calls[t].q, tenant)] : tenant \in tenants}
    <2>1. calls' = [calls EXCEPT ![t] = Response(200, told)]
      BY <1>2 DEF Tell
    <2> HIDE DEF told
    <2>2. Sound(Response(200, told), records)
      BY DEF Sound, Response
    <2> QED BY <1>1, <2>1, <2>2, Goes0
  <1>3. CASE Answer(t, 404) \/ Answer(t, 403)
    BY <1>1, <1>3, Answers0
  <1>4. CASE \E kind, tenants : Tell(t, kind, tenants)
    BY <1>2, <1>4
  <1> QED BY <1>3, <1>4 DEF ReadRecord, ListRecords

(* A call that dies takes its event along, which is remembered as lost.    *)
LEMMA CallCut ==
  ASSUME IInv, SInv, NEW t \in Thread, CutShort(t)
  PROVE  SInv'
  <1>1. /\ calls' = [calls EXCEPT ![t] = None] /\ UNCHANGED <<records, ledger>>
        /\ lost' = IF At(t, "append") THEN lost \cup {calls[t].event} ELSE lost
    BY DEF CutShort
  <1>2. SoundInv'
    <2>1. Sound(None, records')
      BY DEF Sound
    <2> QED BY <1>1, <2>1, OthersSound, Unchanged
  <1>3. FilesInv' /\ LedgerInv'
    BY <1>1 DEF SInv, FilesInv, LedgerInv, Stored
  <1>4. \A s \in Thread \ {t} : At(s, "append") => At(s, "append")' /\ calls'[s].event = calls[s].event
    BY <1>1 DEF At, IInv
  <1>5. Caused \subseteq Caused'
    <2>1. At(t, "append") => calls[t].event \in lost'
      BY <1>1
    <2>2. Pending \subseteq Pending' \cup lost'
      BY <1>4, <2>1 DEF Pending
    <2>3. ledger' = ledger /\ lost \subseteq lost'
      BY <1>1
    <2> QED BY <2>2, <2>3 DEF Caused
  <1>6. AuditInv'
    BY <1>1, <1>5, AuditedStays DEF SInv, AuditInv, Stored
  <1> QED BY <1>2, <1>3, <1>6 DEF SInv

LEMMA SoundSteps ==
  ASSUME NoneIsNoRecord, IInv, SInv, [Next]_vars
  PROVE  SInv'
  <1>1. ASSUME NEW t \in Thread, Step(t)
        PROVE  SInv'
    BY <1>1, EventAppended, StoreSteps, UnitLoaded, UnitAdmitted, ManifestStored, PluginStored,
       JobStored, DoomedLoaded, TombstoneStored, RecordsTold DEF Step
  <1>2. ASSUME NEW t \in Thread, NEW q \in Request, NEW ref, Arrive(t, q, ref)
        PROVE  SInv'
    BY <1>2, ArrivalSound
  <1>3. ASSUME NEW t \in Thread, CutShort(t)
        PROVE  SInv'
    BY <1>3, CallCut
  <1>4. CASE Tick \/ UNCHANGED vars
    BY <1>4 DEF Tick, vars, SInv, FilesInv, SoundInv, LedgerInv, AuditInv, Stored, Caused, Pending, At
  <1> QED BY <1>1, <1>2, <1>3, <1>4 DEF Next

(* No step changes the files otherwise.                                    *)
LEMMA FilesEvolve ==
  ASSUME NoneIsNoRecord, IInv, SInv, [Next]_vars
  PROVE  Evolves(records, records')
  <1>1. ASSUME NEW id \in Id, NEW r, Insert(id, r) PROVE Evolves(records, records')
    BY <1>1, InsertEvolves
  <1>2. ASSUME NEW t \in Thread, PutTombstone(t) PROVE Evolves(records, records')
    BY <1>2, TombstoneEvolves
  <1>3. ASSUME NEW t \in Thread, NEW r, NEW type, NEW then, Put(t, r, type, then)
        PROVE  Evolves(records, records')
    BY <1>1, <1>3, Unchanged DEF Put
  <1>4. ASSUME NEW t \in Thread, Step(t) PROVE Evolves(records, records')
    <2>1. CASE PutUnit(t) \/ PutPlan(t) \/ PutManifest(t) \/ Issue(t)
      BY <1>3, <2>1 DEF PutUnit, PutPlan, PutManifest, Issue
    <2>2. CASE Submit(t)
      BY <1>1, <2>2, Unchanged DEF Submit
    <2>3. CASE Register(t)
      <3> DEFINE r == [kind |-> "plugin", tenant |-> "*", by |-> calls[t].q.token]
      <3>1. Shaped(r) /\ r.kind = "plugin"
        BY DEF Shaped
      <3>2. PICK id \in Id : Insert(id, r) \/ Replace(id, r)
        BY <2>3 DEF Register
      <3> HIDE DEF r
      <3> QED BY <1>1, <3>1, <3>2, ReplaceEvolves
    <2>4. CASE AppendEvent(t) \/ LoadUnit(t) \/ (\E demand : Admit(t, demand)) \/ LoadDoomed(t)
               \/ ReadRecord(t) \/ ListRecords(t)
      BY <2>4, Unchanged DEF AppendEvent, LoadUnit, Admit, LoadDoomed, ReadRecord, ListRecords
    <2> QED BY <1>2, <1>4, <2>1, <2>2, <2>3, <2>4 DEF Step
  <1>5. ASSUME NEW t \in Thread, NEW q, NEW ref, Arrive(t, q, ref) \/ CutShort(t)
        PROVE  Evolves(records, records')
    BY <1>5, Unchanged DEF Arrive, CutShort
  <1>6. CASE Tick \/ UNCHANGED vars
    BY <1>6, Unchanged DEF Tick, vars
  <1> QED BY <1>4, <1>5, <1>6 DEF Next

LEMMA SoundInitially == Init => SInv
  <1> SUFFICES ASSUME Init PROVE SInv
    OBVIOUS
  <1>1. Stored = {} /\ ledger = {}
    BY DEF Init, Stored
  <1>2. SoundInv
    BY DEF Init, SoundInv, Sound
  <1> QED BY <1>1, <1>2 DEF SInv, FilesInv, LedgerInv, AuditInv

THEOREM ServiceInvariance ==
  ASSUME NoneIsNoRecord
  PROVE  Spec => [](IInv /\ SInv)
  <1>1. Init => IInv /\ SInv
    BY Initially, SoundInitially
  <1>2. IInv /\ SInv /\ [Next]_vars => (IInv /\ SInv)'
    BY NoneIsNoRecord, PrincipalAssumption, ServiceAssumption, Steps, SoundSteps
  <1> QED BY <1>1, <1>2, PTL DEF Spec

(* Only a call that dies between the two, or a plugin for another tenant,  *)
(* leaves a record the ledger does not tell of, and the ledger tells of no *)
(* record that is not there.                                               *)
THEOREM RecordsAlwaysAudited ==
  ASSUME NoneIsNoRecord
  PROVE  Spec => []RecordsAudited
  <1>1. IInv /\ SInv => RecordsAudited
    <2> SUFFICES ASSUME IInv, SInv PROVE RecordsAudited
      OBVIOUS
    <2>1. ASSUME NEW id, NEW type, NEW event \in Caused, event.about = id, event.type = type
          PROVE  event.by \in Tellers(id, type)
      BY <2>1 DEF Tellers
    <2>2. ASSUME NEW id \in Stored
          PROVE  /\ \/ records[id].kind = "job"
                    \/ records[id].by \in Tellers(id, EventOf(records[id].kind))
                    \/ records[id].kind = "plugin" /\ TenantOf(Principal[records[id].by]) # None
                 /\ records[id].kind = "manifest" /\ records[id].state = "tombstoned" =>
                      Tellers(id, "s3.delete.tombstoned") # {}
      BY <2>1 DEF SInv, AuditInv, Audited
    <2>3. ASSUME NEW event \in ledger, event.about # 0
          PROVE  /\ event.about \in Stored
                 /\ records[event.about].kind # "plugin" => records[event.about].tenant = event.tenant
                 /\ event.type = "s3.delete.tombstoned" => records[event.about].state = "tombstoned"
      BY <2>3 DEF SInv, LedgerInv, Tells0, In, Stored
    <2> QED BY <2>2, <2>3 DEF RecordsAudited
  <1> QED BY <1>1, ServiceInvariance, PTL

(* What a policy demanded an approval for is stored under one that was     *)
(* valid for it when it was compared.                                      *)
THEOREM AlwaysApprovedStored ==
  ASSUME NoneIsNoRecord
  PROVE  Spec => []ApprovedStored
  <1>1. IInv /\ SInv => ApprovedStored
    BY DEF SInv, FilesInv, Approved, Met, ApprovedStored, Exists, In
  <1> QED BY <1>1, ServiceInvariance, PTL

(* No record changes but a manifest without a hold, into its tombstone,    *)
(* however many deletions have read it before, and a plugin that is        *)
(* registered again under its name, into a plugin.                         *)
THEOREM ManifestsAlwaysKept ==
  ASSUME NoneIsNoRecord
  PROVE  Spec => ManifestsKept
  <1> DEFINE Changes ==
        \A id \in Stored :
          \/ records'[id] = records[id]
          \/ /\ records[id].kind = "manifest" /\ ~records[id].hold
             /\ records'[id] = [records[id] EXCEPT !.state = "tombstoned"]
          \/ records[id].kind = "plugin" /\ records'[id].kind = "plugin"
  <1>1. IInv /\ SInv /\ [Next]_vars => [Changes]_vars
    BY NoneIsNoRecord, FilesEvolve DEF Evolves, In, Stored, Tombstone
  <1>2. ManifestsKept <=> [][Changes]_vars
    BY DEF ManifestsKept
  <1> HIDE DEF Changes
  <1> QED BY <1>1, <1>2, ServiceInvariance, PTL DEF Spec
-----------------------------------------------------------------------------
(* From here on: whoever writes has a role for it.  The routes say what a  *)
(* path does; the permission is that of its prefix, whatever the front end.*)
Writes(token) == Has(token, "work_unit:write") \/ Has(token, "object:write")

UnitDeeds == {"create", "plan", "execute", "plan stored", "execute stored"}

(* What a path that does a thing looks like.                               *)
Routed(route) ==
  LET does == route[3].does
  IN  /\ does \in UnitDeeds => route[1] = "POST" /\ Head(route[2]) \in {"work-units", "plans"}
      /\ does = "put" => route[2] = <<"s3", "objects">>
      /\ does = "issue" => route[1] = "POST" /\ route[2] = <<"approvals">>
      /\ does = "register" => route[1] = "POST" /\ route[2] = <<"plugins", "register">>
      /\ does = "submit" => route[1] = "POST" /\ route[2] = <<"scheduler", "submit">>
      /\ does = "delete" => route[2] = <<"s3", "objects", "delete">>

LEMMA RoutedOther ==
  ASSUME NEW method, NEW path, NEW kind
  PROVE  /\ Routed(<<method, path, List(kind)>>)
         /\ Routed(<<method, path, Read(kind)>>)
         /\ Routed(<<method, path, Elsewhere>>)
  <1>1. Routed(<<method, path, List(kind)>>)
    BY DEF Routed, UnitDeeds, List
  <1>2. Routed(<<method, path, Read(kind)>>)
    BY DEF Routed, UnitDeeds, Read
  <1>3. Routed(<<method, path, Elsewhere>>)
    BY DEF Routed, UnitDeeds, Elsewhere, Do
  <1> QED BY <1>1, <1>2, <1>3

LEMMA RoutedDeed ==
  ASSUME NEW path, Head(path) \in {"work-units", "plans"}, NEW does \in UnitDeeds
  PROVE  Routed(<<"POST", path, Do(does)>>)
  BY DEF Routed, UnitDeeds, Do

LEMMA RoutesRouted ==
  ASSUME NEW front \in Front, NEW route \in RoutesOf(front)
  PROVE  Routed(route)
  <1>1. \A r \in UnitRoutes : Routed(r)
    <2>1. Routed(<<"POST", <<"work-units">>, Do("create")>>)
      BY DEF Routed, UnitDeeds, Do
    <2>2. Routed(<<"POST", <<"work-units", "{id}", "plan">>, Do("plan stored")>>)
      <3> DEFINE path == <<"work-units", "{id}", "plan">>
      <3>1. Head(path) = "work-units"
        OBVIOUS
      <3> HIDE DEF path
      <3>2. Routed(<<"POST", path, Do("plan stored")>>)
        BY <3>1 DEF Routed, UnitDeeds, Do
      <3> QED BY <3>2 DEF path
    <2>3. Routed(<<"POST", <<"work-units", "{id}", "execute">>, Do("execute stored")>>)
      <3> DEFINE path == <<"work-units", "{id}", "execute">>
      <3>1. Head(path) = "work-units"
        OBVIOUS
      <3> HIDE DEF path
      <3>2. Routed(<<"POST", path, Do("execute stored")>>)
        BY <3>1 DEF Routed, UnitDeeds, Do
      <3> QED BY <3>2 DEF path
    <2>4. Routed(<<"POST", <<"plans">>, Do("plan")>>)
      BY DEF Routed, UnitDeeds, Do
    <2> QED BY <2>1, <2>2, <2>3, <2>4, RoutedOther, Zenon DEF UnitRoutes
  <1>2. \A r \in WorkRoutes : Routed(r)
    <2>1. Routed(<<"POST", <<"work-units", "plan">>, Do("plan")>>)
      BY DEF Routed, UnitDeeds, Do
    <2>2. Routed(<<"POST", <<"work-units", "execute">>, Do("execute")>>)
      BY DEF Routed, UnitDeeds, Do
    <2> QED BY <2>1, <2>2, RoutedOther, Zenon DEF WorkRoutes
  <1>3. \A r \in ManifestRoutes \cup ReportRoutes \cup PolicyRoutes \cup CacheRoutes \cup ModelRoutes : Routed(r)
    BY RoutedOther, Zenon DEF ManifestRoutes, ReportRoutes, PolicyRoutes, CacheRoutes, ModelRoutes
  <1>4. \A r \in ApprovalRoutes \cup AdministrationRoutes : Routed(r)
    <2>1. Routed(<<"POST", <<"approvals">>, Do("issue")>>)
      BY DEF Routed, UnitDeeds, Do
    <2>2. Routed(<<"POST", <<"plugins", "register">>, Do("register")>>)
      BY DEF Routed, UnitDeeds, Do
    <2> QED BY <2>1, <2>2, RoutedOther, Zenon DEF ApprovalRoutes, AdministrationRoutes
  <1>5. \A r \in ObjectRoutes : Routed(r)
    <2>1. Routed(<<"POST", <<"s3", "objects">>, Do("put")>>)
      BY DEF Routed, UnitDeeds, Do
    <2>2. Routed(<<"POST", <<"s3", "objects", "delete">>, Do("delete")>>)
      BY DEF Routed, UnitDeeds, Do
    <2> QED BY <2>1, <2>2, RoutedOther, Zenon DEF ObjectRoutes
  <1>6. \A r \in SchedulerRoutes : Routed(r)
    <2>1. Routed(<<"POST", <<"scheduler", "submit">>, Do("submit")>>)
      BY DEF Routed, UnitDeeds, Do
    <2> QED BY <2>1, RoutedOther, Zenon DEF SchedulerRoutes
  <1> QED BY <1>1, <1>2, <1>3, <1>4, <1>5, <1>6 DEF RoutesOf, ControlPlaneRoutes, Front

(* The permission such a request needed.                                   *)
Deed(does, token) ==
  /\ does \in UnitDeeds \cup {"put"} => Writes(token)
  /\ does = "issue" => Has(token, "approval:manage")
  /\ does = "register" => Has(token, "plugin:manage")
  /\ does = "submit" => Has(token, "scheduler:submit")
  /\ does = "delete" => Has(token, "object:delete")

LEMMA AdmittedDeed ==
  ASSUME ServiceAssumption, NEW q \in Request, Admission(q) = 200, NEW operation \in OperationsAt(q)
  PROVE  Deed(operation.does, q.token)
  <1> DEFINE does == operation.does
  <1>1. Has(q.token, ActionForRequest(q.method, q.path))
    BY DEF Admission, MayUse, Allowed, Has, MayActFor
  <1>2. PICK route \in RoutesOf(q.front) : route[1] = q.method /\ route[2] = q.path /\ route[3] = operation
    BY DEF OperationsAt
  <1>3. Routed(route)
    BY <1>2, RoutesRouted DEF ServiceAssumption
  <1>4. CASE does \in UnitDeeds
    <2>1. q.method = "POST" /\ Head(q.path) \in {"work-units", "plans"}
      BY <1>2, <1>3, <1>4 DEF Routed
    <2>2. q.path \notin {<<"auth", "check">>, <<"s3", "objects", "delete">>}
      BY <2>1
    <2>3. ActionForRequest(q.method, q.path) = "work_unit:write"
      BY <2>1, <2>2 DEF ActionForRequest, Area
    <2>4. Writes(q.token)
      BY <1>1, <2>3 DEF Writes
    <2>5. does \notin {"issue", "register", "submit", "delete"}
      BY <1>4 DEF UnitDeeds
    <2> QED BY <2>4, <2>5 DEF Deed
  <1>5. CASE does = "put"
    <2>1. q.path = <<"s3", "objects">>
      BY <1>2, <1>3, <1>5 DEF Routed
    <2>2. ActionForRequest(q.method, q.path) = "object:write"
      BY <2>1 DEF ActionForRequest, Area
    <2> QED BY <1>1, <1>5, <2>2 DEF Deed, Writes
  <1>6. CASE does = "issue"
    <2>1. q.method = "POST" /\ q.path = <<"approvals">>
      BY <1>2, <1>3, <1>6 DEF Routed
    <2>2. ActionForRequest(q.method, q.path) = "approval:manage"
      BY <2>1 DEF ActionForRequest, Area
    <2> QED BY <1>1, <1>6, <2>2 DEF Deed, UnitDeeds
  <1>7. CASE does = "register"
    <2>1. q.method = "POST" /\ q.path = <<"plugins", "register">>
      BY <1>2, <1>3, <1>7 DEF Routed
    <2>2. ActionForRequest(q.method, q.path) = "plugin:manage"
      BY <2>1 DEF ActionForRequest, Area
    <2> QED BY <1>1, <1>7, <2>2 DEF Deed, UnitDeeds
  <1>8. CASE does = "submit"
    <2>1. q.method = "POST" /\ q.path = <<"scheduler", "submit">>
      BY <1>2, <1>3, <1>8 DEF Routed
    <2>2. /\ Head(q.path) = "scheduler"
          /\ q.path \notin {<<"auth", "check">>, <<"s3", "objects", "delete">>}
      BY <2>1
    <2>3. q.method = "POST"
      BY <2>1
    <2>4. ActionForRequest(q.method, q.path) = "scheduler:submit"
      BY <2>2, <2>3 DEF ActionForRequest, Area
    <2> QED BY <1>1, <1>8, <2>4 DEF Deed, UnitDeeds
  <1>9. CASE does = "delete"
    <2>1. q.path = <<"s3", "objects", "delete">>
      BY <1>2, <1>3, <1>9 DEF Routed
    <2>2. Head(q.path) = "s3"
      BY <2>1
    <2>3. q.path # <<"auth", "check">>
      BY <2>2
    <2>4. ActionForRequest(q.method, q.path) = "object:delete"
      BY <2>1, <2>2, <2>3 DEF ActionForRequest, Area
    <2>5. Has(q.token, "object:delete")
      BY <1>1, <2>4
    <2> QED BY <1>9, <2>5 DEF Deed, UnitDeeds
  <1> QED BY <1>4, <1>5, <1>6, <1>7, <1>8, <1>9 DEF Deed
-----------------------------------------------------------------------------
(* What a call may do further on follows from where it is.                 *)
WritingStages ==
  {"put unit", "plan stored", "execute stored", "admit", "put plan", "put manifest"}

EntitledEvent(event) ==
  event.type \in {"s3.delete.denied", "s3.delete.tombstoned"} => Has(event.by, "object:delete")

EntitledRecord(r) ==
  /\ r.kind \in {"unit", "plan", "manifest"} => Writes(r.by)
  /\ r.kind = "approval" => Has(r.by, "approval:manage")
  /\ r.kind = "plugin" => Has(r.by, "plugin:manage")
  /\ r.kind = "job" => Has(r.by, "scheduler:submit")

EntitledAnswer(call) == \A told \in call.told : told.clear => Has(told.token, "manifest:sensitive")

EntitledCall(call) ==
  LET may(action) == Has(call.q.token, action)
  IN  /\ call.at \in WritingStages => Writes(call.q.token)
      /\ call.at = "issue" => may("approval:manage")
      /\ call.at = "register" => may("plugin:manage")
      /\ call.at = "submit" => may("scheduler:submit")
      /\ call.at \in {"delete", "tombstone"} => may("object:delete")
      /\ call.at = "append" =>
           EntitledEvent(call.event) /\ (call.then = "put manifest" => Writes(call.q.token))

RoleOK(call) ==
  call # None => IF call.at = "answered" THEN EntitledAnswer(call) ELSE EntitledCall(call)

RoleInv ==
  /\ \A t \in Thread : RoleOK(calls[t])
  /\ \A id \in Stored : EntitledRecord(records[id])
  /\ \A event \in ledger : EntitledEvent(event)

(* What a single call changes, once the files and the ledger are seen to.  *)
LEMMA OneRole ==
  ASSUME IInv, RoleInv, NEW t \in Thread, NEW call, calls' = [calls EXCEPT ![t] = call], RoleOK(call)
  PROVE  \A s \in Thread : RoleOK(calls'[s])
  BY DEF IInv, RoleInv

LEMMA RoleAnswered ==
  ASSUME NEW status
  PROVE  RoleOK(Response(status, {}))
  BY DEF RoleOK, Response, EntitledAnswer

LEMMA RolesElsewhere ==
  ASSUME RoleInv, UNCHANGED <<records, ledger>>, \A s \in Thread : RoleOK(calls'[s])
  PROVE  RoleInv'
  BY DEF RoleInv, Stored

LEMMA RoleAnswers ==
  ASSUME IInv, RoleInv, NEW t \in Thread, NEW status, Answer(t, status)
  PROVE  \A s \in Thread : RoleOK(calls'[s])
  BY OneRole, RoleAnswered DEF Answer

LEMMA RoleAppends ==
  ASSUME IInv, RoleInv, NEW t \in Thread, Busy(t), NEW event, EntitledEvent(event),
         NEW then, then = "put manifest" => Writes(calls[t].q.token), ThenAppend(t, event, then)
  PROVE  \A s \in Thread : RoleOK(calls'[s])
  <1> DEFINE call == [calls[t] EXCEPT !.at = "append", !.event = event, !.then = then]
  <1>1. UnderWay(calls[t])
    BY CallUnderWay
  <1>2. /\ call.at = "append" /\ call.event = event /\ call.then = then
        /\ call.q = calls[t].q
    BY <1>1 DEF UnderWay, CallFields
  <1>3. calls' = [calls EXCEPT ![t] = call]
    BY DEF ThenAppend
  <1> HIDE DEF call
  <1>4. RoleOK(call)
    BY <1>2 DEF RoleOK, EntitledCall, WritingStages
  <1> QED BY <1>3, <1>4, OneRole

LEMMA RoleInserts ==
  ASSUME IInv, RoleInv, NEW id \in Id, NEW r, EntitledRecord(r), Insert(id, r) \/ Replace(id, r)
  PROVE  \A other \in Stored' : EntitledRecord(records'[other])
  BY DEF RoleInv, Stored, IInv, Insert, Replace

LEMMA RolePuts ==
  ASSUME IInv, RoleInv, NEW t \in Thread, Busy(t), NEW r, EntitledRecord(r), NEW type,
         type \notin {"s3.delete.denied", "s3.delete.tombstoned"},
         NEW then, then = "put manifest" => Writes(calls[t].q.token), Put(t, r, type, then)
  PROVE  RoleInv'
  <1>1. CASE Bound(t, r.tenant)
    <2>1. PICK id \in Id : Insert(id, r) /\ ThenAppend(t, Event(t, type, r.tenant, id), then)
      BY <1>1 DEF Put
    <2>2. EntitledEvent(Event(t, type, r.tenant, id))
      BY DEF EntitledEvent, Event
    <2>3. \A s \in Thread : RoleOK(calls'[s])
      BY <2>1, <2>2, RoleAppends
    <2>4. \A other \in Stored' : EntitledRecord(records'[other])
      BY <2>1, RoleInserts
    <2> QED BY <2>3, <2>4 DEF RoleInv, Put
  <1>2. CASE ~Bound(t, r.tenant)
    BY <1>2, RoleAnswers, RolesElsewhere DEF Put
  <1> QED BY <1>1, <1>2
-----------------------------------------------------------------------------
LEMMA RoleArrives ==
  ASSUME ServiceAssumption, IInv, RoleInv, NEW t \in Thread, NEW q \in Request, NEW ref,
         Arrive(t, q, ref)
  PROVE  RoleInv'
  <1>1. CASE Admission(q) # 200
    BY <1>1, OneRole, RoleAnswered, RolesElsewhere DEF Arrive
  <1>2. CASE Admission(q) = 200
    <2>1. PICK operation \in OperationsAt(q) :
            calls' = [calls EXCEPT ![t] = Handle(q, ref, operation)]
      BY <1>2 DEF Arrive
    <2> DEFINE does == operation.does
               call == Handle(q, ref, operation)
    <2>2. Deed(does, q.token)
      BY <1>2, AdmittedDeed
    <2>3. ASSUME NEW r, NEW stage \in WritingStages, NEW unit, Writes(q.token)
          PROVE  RoleOK(Begin(q, r, stage, unit))
      BY <2>3 DEF RoleOK, EntitledCall, Begin, WritingStages
    <2>4. ASSUME NEW r, NEW stage \in {"list", "read"}, NEW read
          PROVE  RoleOK([Begin(q, r, stage, None) EXCEPT !.read = read])
      BY DEF RoleOK, EntitledCall, Begin, WritingStages
    <2>5. ASSUME does \in UnitDeeds PROVE RoleOK(call)
      <3>1. Writes(q.token)
        BY <2>2, <2>5 DEF Deed
      <3>2. CASE does \in {"create", "plan", "execute"}
        <4>1. \/ call = Response(MemberMissing(q), {})
              \/ \E stage \in {"put unit", "put plan", "admit"} :
                   call = Begin(q, ref, stage, UnitOf(q, ref))
          BY <3>2 DEF Handle
        <4> QED BY <2>3, <3>1, <4>1, RoleAnswered DEF WritingStages
      <3>3. CASE does \in {"plan stored", "execute stored"}
        <4>1. call = Begin(q, ref, does, None)
          BY <3>3 DEF Handle
        <4> QED BY <2>3, <3>1, <3>3, <4>1 DEF WritingStages
      <3> QED BY <2>5, <3>2, <3>3 DEF UnitDeeds
    <2>6. ASSUME does = "put" PROVE RoleOK(call)
      <3>1. call = Begin(q, 0, "admit", ObjectUnit(q))
        BY <2>6 DEF Handle
      <3>2. Writes(q.token)
        BY <2>2, <2>6 DEF Deed
      <3> QED BY <2>3, <3>1, <3>2 DEF WritingStages
    <2>7. ASSUME does = "issue" PROVE RoleOK(call)
      <3>1. call = Response(400, {}) \/ call = Begin(q, ref, "issue", None)
        BY <2>7 DEF Handle
      <3>2. RoleOK(Begin(q, ref, "issue", None))
        BY <2>2, <2>7 DEF Deed, RoleOK, EntitledCall, Begin, WritingStages
      <3> QED BY <3>1, <3>2, RoleAnswered
    <2>8. ASSUME does = "register" PROVE RoleOK(call)
      <3>1. call = Begin(q, 0, "register", None)
        BY <2>8 DEF Handle
      <3>2. RoleOK(Begin(q, 0, "register", None))
        BY <2>2, <2>8 DEF Deed, RoleOK, EntitledCall, Begin, WritingStages
      <3> QED BY <3>1, <3>2
    <2>9. ASSUME does = "submit" PROVE RoleOK(call)
      <3>1. call = Begin(q, 0, "submit", None)
        BY <2>9 DEF Handle
      <3>2. RoleOK(Begin(q, 0, "submit", None))
        BY <2>2, <2>9 DEF Deed, RoleOK, EntitledCall, Begin, WritingStages
      <3> QED BY <3>1, <3>2
    <2>10. ASSUME does = "delete" PROVE RoleOK(call)
      <3>1. call = Begin(q, ref, "delete", None)
        BY <2>10 DEF Handle
      <3>2. RoleOK(Begin(q, ref, "delete", None))
        BY <2>2, <2>10 DEF Deed, RoleOK, EntitledCall, Begin, WritingStages
      <3> QED BY <3>1, <3>2
    <2>11. ASSUME does \in {"list", "read"} PROVE RoleOK(call)
      <3>1. \/ call = [Begin(q, 0, "list", None) EXCEPT !.read = operation.kind]
            \/ call = [Begin(q, ref, "read", None) EXCEPT !.read = operation.kind]
        BY <2>11 DEF Handle
      <3>2. /\ RoleOK([Begin(q, 0, "list", None) EXCEPT !.read = operation.kind])
            /\ RoleOK([Begin(q, ref, "read", None) EXCEPT !.read = operation.kind])
        BY <2>4
      <3> QED BY <3>1, <3>2
    <2>12. ASSUME does \notin UnitDeeds \cup
                    {"put", "issue", "register", "submit", "delete", "list", "read"}
           PROVE  RoleOK(call)
      <3>1. call = Response(200, {})
        BY <2>12 DEF Handle, UnitDeeds
      <3> QED BY <3>1, RoleAnswered
    <2>13. RoleOK(call)
      BY <2>5, <2>6, <2>7, <2>8, <2>9, <2>10, <2>11, <2>12
    <2> QED BY <2>1, <2>13, OneRole, RolesElsewhere DEF Arrive
  <1> QED BY <1>1, <1>2

LEMMA RoleStores ==
  ASSUME IInv, RoleInv, NEW t \in Thread,
         PutUnit(t) \/ PutPlan(t) \/ PutManifest(t) \/ Issue(t)
  PROVE  RoleInv'
  <1>1. Busy(t) /\ calls[t] # None /\ calls[t].at # "answered" /\ EntitledCall(calls[t])
    BY DEF RoleInv, RoleOK, PutUnit, PutPlan, PutManifest, Issue, At, Busy
  <1>2. CASE PutUnit(t)
    <2>1. Writes(calls[t].q.token)
      BY <1>1, <1>2 DEF PutUnit, At, EntitledCall, WritingStages
    <2>2. PICK r : r.kind = "unit" /\ r.by = calls[t].q.token /\ Put(t, r, "work_unit.created", "answer")
      BY <1>2 DEF PutUnit
    <2>3. EntitledRecord(r)
      BY <2>1, <2>2 DEF EntitledRecord
    <2> QED BY <1>1, <2>2, <2>3, RolePuts
  <1>3. CASE PutPlan(t)
    <2>1. Writes(calls[t].q.token)
      BY <1>1, <1>3 DEF PutPlan, At, EntitledCall, WritingStages
    <2>2. PICK r, then : r.kind = "plan" /\ r.by = calls[t].q.token /\ Put(t, r, "plan.created", then)
      BY <1>3 DEF PutPlan
    <2>3. EntitledRecord(r)
      BY <2>1, <2>2 DEF EntitledRecord
    <2> QED BY <1>1, <2>1, <2>2, <2>3, RolePuts
  <1>4. CASE PutManifest(t)
    <2>1. Writes(calls[t].q.token)
      BY <1>1, <1>4 DEF PutManifest, At, EntitledCall, WritingStages
    <2>2. PICK r : r.kind = "manifest" /\ r.by = calls[t].q.token /\ Put(t, r, "manifest.written", "answer")
      BY <1>4 DEF PutManifest
    <2>3. EntitledRecord(r)
      BY <2>1, <2>2 DEF EntitledRecord
    <2> QED BY <1>1, <2>2, <2>3, RolePuts
  <1>5. CASE Issue(t)
    <2>1. Has(calls[t].q.token, "approval:manage")
      BY <1>1, <1>5 DEF Issue, At, EntitledCall
    <2>2. PICK r : r.kind = "approval" /\ r.by = calls[t].q.token /\ Put(t, r, "approval.issued", "answer")
      BY <1>5 DEF Issue
    <2>3. EntitledRecord(r)
      BY <2>1, <2>2 DEF EntitledRecord
    <2> QED BY <1>1, <2>2, <2>3, RolePuts
  <1> QED BY <1>2, <1>3, <1>4, <1>5

LEMMA RoleRegisters ==
  ASSUME IInv, RoleInv, NEW t \in Thread, Register(t)
  PROVE  RoleInv'
  <1> DEFINE r == [kind |-> "plugin", tenant |-> "*", by |-> calls[t].q.token]
  <1>1. PICK id \in Id : /\ Insert(id, r) \/ Replace(id, r)
                         /\ ThenAppend(t, Event(t, "plugin.registered",
                                                Or(calls[t].q.inner, "system"), id), "answer")
    BY DEF Register
  <1> DEFINE event == Event(t, "plugin.registered", Or(calls[t].q.inner, "system"), id)
  <1>2. Busy(t) /\ Has(calls[t].q.token, "plugin:manage") /\ ledger' = ledger
    BY DEF Register, At, Busy, RoleInv, RoleOK, EntitledCall
  <1>3. EntitledRecord(r) /\ EntitledEvent(event)
    BY <1>2 DEF EntitledRecord, EntitledEvent, Event
  <1>4. ThenAppend(t, event, "answer")
    BY <1>1
  <1> HIDE DEF r, event
  <1>5. \A s \in Thread : RoleOK(calls'[s])
    BY <1>2, <1>3, <1>4, RoleAppends
  <1>6. \A other \in Stored' : EntitledRecord(records'[other])
    BY <1>1, <1>3, RoleInserts
  <1> QED BY <1>2, <1>5, <1>6 DEF RoleInv

LEMMA RoleSubmits ==
  ASSUME IInv, RoleInv, NEW t \in Thread, Submit(t)
  PROVE  RoleInv'
  <1> DEFINE tenant == Or(calls[t].q.body, "local")
             r == [kind |-> "job", tenant |-> tenant, by |-> calls[t].q.token]
  <1>1. Busy(t) /\ Has(calls[t].q.token, "scheduler:submit") /\ ledger' = ledger
    BY DEF Submit, At, Busy, RoleInv, RoleOK, EntitledCall
  <1>2. EntitledRecord(r)
    BY <1>1 DEF EntitledRecord
  <1>3. CASE ~Bound(t, tenant)
    BY <1>3, RoleAnswers, RolesElsewhere DEF Submit
  <1>4. CASE Bound(t, tenant)
    <2>1. PICK id \in Id : Insert(id, r) /\ Answer(t, 200)
      BY <1>4 DEF Submit
    <2> HIDE DEF r
    <2>2. \A s \in Thread : RoleOK(calls'[s])
      BY <2>1, RoleAnswers
    <2>3. \A other \in Stored' : EntitledRecord(records'[other])
      BY <1>2, <2>1, RoleInserts
    <2> QED BY <1>1, <2>2, <2>3 DEF RoleInv
  <1> QED BY <1>3, <1>4

LEMMA RoleEventAppended ==
  ASSUME IInv, RoleInv, NEW t \in Thread, AppendEvent(t)
  PROVE  RoleInv'
  <1>1. /\ Busy(t) /\ calls[t].at = "append" /\ calls[t] # None /\ UNCHANGED records
        /\ EntitledCall(calls[t]) /\ EntitledEvent(calls[t].event)
    BY DEF AppendEvent, At, Busy, RoleInv, RoleOK, EntitledCall
  <1>2. UnderWay(calls[t])
    BY <1>1, CallUnderWay
  <1>3. \A event \in ledger' : EntitledEvent(event)
    BY <1>1 DEF AppendEvent, RoleInv
  <1>4. ASSUME Answer(t, 200) \/ Answer(t, 403)
        PROVE  \A s \in Thread : RoleOK(calls'[s])
    BY <1>4, RoleAnswers
  <1>5. ASSUME calls[t].then = "put manifest", Go(t, "put manifest")
        PROVE  \A s \in Thread : RoleOK(calls'[s])
    <2> DEFINE call == [calls[t] EXCEPT !.at = "put manifest"]
    <2>1. call.at = "put manifest" /\ call.q = calls[t].q
      BY <1>2 DEF UnderWay, CallFields
    <2>2. calls' = [calls EXCEPT ![t] = call]
      BY <1>5 DEF Go
    <2> HIDE DEF call
    <2>3. RoleOK(call)
      BY <1>1, <1>5, <2>1 DEF RoleOK, EntitledCall, WritingStages
    <2> QED BY <2>2, <2>3, OneRole
  <1>6. \/ Answer(t, 200) \/ Answer(t, 403)
        \/ calls[t].then = "put manifest" /\ Go(t, "put manifest")
    BY <1>2 DEF AppendEvent, UnderWay
  <1>7. \A s \in Thread : RoleOK(calls'[s])
    BY <1>4, <1>5, <1>6
  <1> QED BY <1>1, <1>3, <1>7 DEF RoleInv, Stored

LEMMA RoleUnitLoaded ==
  ASSUME IInv, RoleInv, NEW t \in Thread, LoadUnit(t)
  PROVE  RoleInv'
  <1>1. /\ Busy(t) /\ calls[t] # None /\ calls[t].at # "answered" /\ Writes(calls[t].q.token)
        /\ UNCHANGED <<records, ledger>>
    BY DEF LoadUnit, At, Busy, RoleInv, RoleOK, EntitledCall, WritingStages
  <1>2. UnderWay(calls[t])
    BY <1>1, CallUnderWay
  <1>3. CASE Answer(t, 404) \/ Answer(t, 403)
    BY <1>1, <1>3, RoleAnswers, RolesElsewhere
  <1>4. ASSUME NEW unit, NEW stage \in {"put plan", "admit"},
               calls' = [calls EXCEPT ![t] = [@ EXCEPT !.unit = unit, !.at = stage]]
        PROVE  RoleInv'
    <2> DEFINE call == [calls[t] EXCEPT !.unit = unit, !.at = stage]
    <2>1. call.at = stage /\ call.q = calls[t].q
      BY <1>2 DEF UnderWay, CallFields
    <2>2. calls' = [calls EXCEPT ![t] = call]
      BY <1>4
    <2> HIDE DEF call
    <2>3. RoleOK(call)
      BY <1>1, <2>1 DEF RoleOK, EntitledCall, WritingStages
    <2> QED BY <1>1, <2>2, <2>3, OneRole, RolesElsewhere
  <1>5. \/ Answer(t, 404) \/ Answer(t, 403)
        \/ \E unit, stage : /\ stage \in {"put plan", "admit"}
                            /\ calls' = [calls EXCEPT ![t] = [@ EXCEPT !.unit = unit, !.at = stage]]
    BY DEF LoadUnit
  <1> QED BY <1>3, <1>4, <1>5

LEMMA RoleAdmitted ==
  ASSUME IInv, RoleInv, NEW t \in Thread, NEW demand, Admit(t, demand)
  PROVE  RoleInv'
  <1>1. /\ Busy(t) /\ calls[t] # None /\ calls[t].at # "answered" /\ Writes(calls[t].q.token)
        /\ UNCHANGED <<records, ledger>>
    BY DEF Admit, At, Busy, RoleInv, RoleOK, EntitledCall, WritingStages
  <1>2. UnderWay(calls[t])
    BY <1>1, CallUnderWay
  <1>3. CASE Answer(t, 403)
    BY <1>1, <1>3, RoleAnswers, RolesElsewhere
  <1> DEFINE call == [calls[t] EXCEPT !.at = "put plan",
                                      !.demand = [approval |-> demand, at |-> clock]]
             event == Event(t, "policy.denied", calls[t].unit.tenant, 0)
  <1>4. CASE calls' = [calls EXCEPT ![t] = call]
    <2>1. call.at = "put plan" /\ call.q = calls[t].q
      BY <1>2 DEF UnderWay, CallFields
    <2> HIDE DEF call
    <2>2. RoleOK(call)
      BY <1>1, <2>1 DEF RoleOK, EntitledCall, WritingStages
    <2> QED BY <1>1, <1>4, <2>2, OneRole, RolesElsewhere
  <1>5. CASE ThenAppend(t, event, "deny")
    <2>1. EntitledEvent(event)
      BY DEF EntitledEvent, Event
    <2> QED BY <1>1, <1>5, <2>1, RoleAppends, RolesElsewhere
  <1> QED BY <1>3, <1>4, <1>5 DEF Admit

LEMMA RoleDoomed ==
  ASSUME IInv, RoleInv, NEW t \in Thread, LoadDoomed(t)
  PROVE  RoleInv'
  <1>1. /\ Busy(t) /\ calls[t] # None /\ calls[t].at # "answered"
        /\ Has(calls[t].q.token, "object:delete") /\ UNCHANGED <<records, ledger>>
    BY DEF LoadDoomed, At, Busy, RoleInv, RoleOK, EntitledCall
  <1>2. UnderWay(calls[t])
    BY <1>1, CallUnderWay
  <1>3. CASE Answer(t, 404) \/ Answer(t, 403)
    BY <1>1, <1>3, RoleAnswers, RolesElsewhere
  <1> DEFINE record == records[calls[t].ref]
             event == Event(t, "s3.delete.denied", record.tenant, calls[t].ref)
             call == [calls[t] EXCEPT !.at = "tombstone", !.read = record]
  <1>4. CASE ThenAppend(t, event, "answer")
    <2>1. EntitledEvent(event)
      BY <1>1 DEF EntitledEvent, Event
    <2> HIDE DEF event
    <2> QED BY <1>1, <1>4, <2>1, RoleAppends, RolesElsewhere
  <1>5. CASE calls' = [calls EXCEPT ![t] = call]
    <2>1. call.at = "tombstone" /\ call.q = calls[t].q
      BY <1>2 DEF UnderWay, CallFields
    <2> HIDE DEF call
    <2>2. RoleOK(call)
      BY <1>1, <2>1 DEF RoleOK, EntitledCall, WritingStages
    <2> QED BY <1>1, <1>5, <2>2, OneRole, RolesElsewhere
  <1> QED BY <1>3, <1>4, <1>5 DEF LoadDoomed

LEMMA RoleTombstone ==
  ASSUME NoneIsNoRecord, IInv, SInv, RoleInv, NEW t \in Thread, PutTombstone(t)
  PROVE  RoleInv'
  <1>1. /\ Busy(t) /\ calls[t] # None /\ calls[t].at # "answered"
        /\ Has(calls[t].q.token, "object:delete") /\ ledger' = ledger
    BY DEF PutTombstone, At, Busy, RoleInv, RoleOK, EntitledCall
  <1>2. /\ Evolves(records, records')
        /\ \A other \in Id : other # calls[t].ref => records'[other] = records[other]
        /\ In(calls[t].ref, records)
    BY <1>1, TombstoneEvolves DEF PutTombstone, IInv, SInv, SoundInv, Sound, Dooms, At
  <1>3. ASSUME NEW id \in Stored' PROVE EntitledRecord(records'[id])
    <2>1. id \in Id /\ In(id, records)
      BY <1>2 DEF Stored, In
    <2>2. EntitledRecord(records[id]) /\ Whole(records[id])
      BY <2>1 DEF RoleInv, Stored, In, SInv, FilesInv
    <2>3. \/ records'[id] = records[id]
          \/ records[id].kind = "manifest" /\ records'[id] = Tombstone(records[id])
      BY <1>1, <1>2, <2>1, TombstoneEvolves
    <2> QED BY <2>2, <2>3, TombstoneFields DEF EntitledRecord
  <1> DEFINE event == Event(t, "s3.delete.tombstoned", calls[t].read.tenant, calls[t].ref)
  <1>4. EntitledEvent(event) /\ ThenAppend(t, event, "answer")
    BY <1>1 DEF EntitledEvent, Event, PutTombstone
  <1> HIDE DEF event
  <1>5. \A s \in Thread : RoleOK(calls'[s])
    BY <1>1, <1>4, RoleAppends
  <1> QED BY <1>1, <1>3, <1>5 DEF RoleInv

LEMMA RoleTells ==
  ASSUME IInv, RoleInv, NEW t \in Thread, ReadRecord(t) \/ ListRecords(t)
  PROVE  RoleInv'
  <1>1. UNCHANGED <<records, ledger>>
    BY DEF ReadRecord, ListRecords
  <1>2. CASE Answer(t, 404) \/ Answer(t, 403)
    BY <1>1, <1>2, RoleAnswers, RolesElsewhere
  <1>3. ASSUME NEW kind, NEW tenants, Tell(t, kind, tenants)
        PROVE  RoleInv'
    <2> DEFINE q == calls[t].q
               told == {[token |-> q.token, tenant |-> tenant,
                         clear |-> kind = "manifest" /\ InClear(q, tenant)] : tenant \in tenants}
    <2>1. \A row \in told : row.clear => Has(row.token, "manifest:sensitive")
      <3>1. ASSUME NEW tenant, InClear(q, tenant) PROVE Has(q.token, "manifest:sensitive")
        BY <3>1 DEF InClear, Has, Allowed, MayActFor
      <3>2. ASSUME NEW tenant \in tenants, NEW row, row.clear, row.token = q.token,
                   row.clear = (kind = "manifest" /\ InClear(q, tenant))
            PROVE  Has(row.token, "manifest:sensitive")
        BY <3>1, <3>2
      <3> QED BY <3>2
    <2>2. calls' = [calls EXCEPT ![t] = Response(200, told)]
      BY <1>3 DEF Tell
    <2> HIDE DEF told
    <2>3. RoleOK(Response(200, told))
      BY <2>1 DEF RoleOK, Response, EntitledAnswer
    <2> QED BY <1>1, <2>2, <2>3, OneRole, RolesElsewhere
  <1> QED BY <1>2, <1>3 DEF ReadRecord, ListRecords

LEMMA RoleSteps ==
  ASSUME NoneIsNoRecord, ServiceAssumption, IInv, SInv, RoleInv, [Next]_vars
  PROVE  RoleInv'
  <1>1. ASSUME NEW t \in Thread, Step(t)
        PROVE  RoleInv'
    BY <1>1, RoleEventAppended, RoleStores, RoleUnitLoaded, RoleAdmitted, RoleRegisters,
       RoleSubmits, RoleDoomed, RoleTombstone, RoleTells DEF Step
  <1>2. ASSUME NEW t \in Thread, NEW q \in Request, NEW ref, Arrive(t, q, ref)
        PROVE  RoleInv'
    BY <1>2, RoleArrives
  <1>3. ASSUME NEW t \in Thread, CutShort(t)
        PROVE  RoleInv'
    <2>1. RoleOK(None)
      BY DEF RoleOK
    <2> QED BY <1>3, <2>1, OneRole, RolesElsewhere DEF CutShort
  <1>4. CASE Tick \/ UNCHANGED vars
    BY <1>4 DEF Tick, vars, RoleInv, Stored
  <1> QED BY <1>1, <1>2, <1>3, <1>4 DEF Next

(* Whichever path and front end a request took, whoever wrote a record,    *)
(* deleted an object or is told a manifest in clear has a role for it.     *)
THEOREM AlwaysEntitled ==
  ASSUME NoneIsNoRecord
  PROVE  Spec => []Entitled
  <1>1. Init => RoleInv
    BY DEF Init, RoleInv, RoleOK, Stored
  <1>2. (IInv /\ SInv) /\ RoleInv /\ [Next]_vars => RoleInv'
    BY NoneIsNoRecord, ServiceAssumption, RoleSteps
  <1>3. (IInv /\ SInv) /\ RoleInv => Entitled
    <2> SUFFICES ASSUME IInv, SInv, RoleInv PROVE Entitled
      OBVIOUS
    <2>1. ASSUME NEW id \in Stored
          PROVE  records[id].kind \in Kinds /\ EntitledRecord(records[id])
      BY DEF RoleInv, SInv, FilesInv, Whole
    <2>2. ASSUME NEW t \in Thread, At(t, "answered"), NEW told \in calls[t].told, told.clear
          PROVE  Has(told.token, "manifest:sensitive")
      BY <2>2 DEF RoleInv, RoleOK, EntitledAnswer, At
    <2>3. \A event \in ledger :
            event.type \in {"s3.delete.denied", "s3.delete.tombstoned"} => Has(event.by, "object:delete")
      BY DEF RoleInv, EntitledEvent
    <2> QED BY <2>1, <2>2, <2>3 DEF Entitled, EntitledRecord, Kinds, Writes
  <1> QED BY <1>1, <1>2, <1>3, ServiceInvariance, PTL DEF Spec
=============================================================================
