---------------------------- MODULE GatewayProofs ----------------------------
(***************************************************************************)
(* For any requests, answers, policies and number of handlers: what the    *)
(* caches hold and what is served from them was answered to a unit that    *)
(* verified it under its own policy.                                       *)
(*                                                                         *)
(* The argument: once a handler has put a row into a cache it changes      *)
(* neither its answer nor its request nor its policy any more, so that it  *)
(* vouches for the row as long as the row, or a copy of it, exists.        *)
(*                                                                         *)
(* Two more results rest on the same invariant: a row that could still be  *)
(* served is not deleted by who read it (DropInv), and a unit's trail and  *)
(* records agree at each label of its handler (StoryInv).                  *)
(***************************************************************************)
EXTENDS Gateway, SequenceTheorems, TLAPS

Early == {"idle", "receive", "evaluate", "plan", "planned"}
Asking == {"lookup", "drop", "search", "call", "fallback", "retry", "refuse", "keep"}
Answered == {"keepSemantic", "miss", "routed", "feedback"}
Final == {"verify", "written", "served", "over"}
Pc == Early \cup Asking \cup Answered \cup {"hit", "accept"} \cup Final

Found == [row : Row, at : 0..MaxTime]

(* What a handler has behind it at each label.                             *)
UnitOK(u) ==
  /\ pc[u] # "idle" => query[u] \in Query /\ under[u] \in Policy
  /\ pc[u] \in Early \cup Asking \cup Answered => outcome[u] = "miss"
  /\ pc[u] = "planned" => u \in plans
  /\ pc[u] \in Asking \cup Answered => u \in plans /\ "plan.created" \in ToSet(trail[u])
  /\ pc[u] # "over" => "verifier.failed" \notin ToSet(trail[u])
  /\ pc[u] = "keepSemantic" => MeetsRequirements(u)
  /\ outcome[u] # "miss" => hit[u] \in Found
UnitInv == \A u \in Unit : UnitOK(u)

(* Who put a row into a cache is past it.                                  *)
Past(row) == row.by # None => pc[row.by] \in Answered \cup Final
PastInv ==
  /\ \A q \in Query : exact[q] # None => Past(exact[q])
  /\ \A k \in Topic : semantic[k] # None => Past(semantic[k])
  /\ \A u \in Unit : outcome[u] # "miss" => Past(hit[u].row)

IInv == TypeOK /\ UnitInv /\ PastInv /\ RowsVouched /\ HitsFaithful

(* The steps of one handler.                                               *)
Act(u) == Step(u) \/ Stop(u) \/ \E q \in Query, m \in Mode : Begin(u, q, m)

(* Nothing of unit u changes.                                              *)
Same(u) ==
  /\ pc'[u] = pc[u] /\ query'[u] = query[u] /\ under'[u] = under[u] /\ mode'[u] = mode[u]
  /\ answer'[u] = answer[u] /\ outcome'[u] = outcome[u] /\ hit'[u] = hit[u]
  /\ trail'[u] = trail[u] /\ manifests'[u] = manifests[u]
  /\ u \in plans' <=> u \in plans
  /\ u \in stopped' <=> u \in stopped
-----------------------------------------------------------------------------
LEMMA AppendType ==
  ASSUME NEW S, NEW s \in Seq(S), NEW e \in S
  PROVE  Append(s, e) \in Seq(S) /\ ToSet(Append(s, e)) = ToSet(s) \cup {e}
  <1>1. /\ Append(s, e) \in Seq(S) /\ Len(Append(s, e)) = Len(s) + 1
        /\ \A i \in 1..Len(s) : Append(s, e)[i] = s[i]
        /\ Append(s, e)[Len(s) + 1] = e
    OBVIOUS
  <1>2. DOMAIN Append(s, e) = DOMAIN s \cup {Len(s) + 1} /\ DOMAIN s = 1..Len(s)
    BY <1>1
  <1> QED
    BY <1>1, <1>2 DEF ToSet

LEMMA EmptyType == ASSUME NEW S PROVE << >> \in Seq(S) /\ ToSet(<< >>) = {}
  BY DEF ToSet

(* A query and its topic.                                                  *)
LEMMA QueryType ==
  ASSUME NEW q \in Query
  PROVE  /\ q # None /\ q.ttl \in Nat /\ q.threshold \in Nat /\ q.sources \in Sources
         /\ TopicOf(q) \in Topic
         /\ TopicOf(q).namespace = q.namespace /\ TopicOf(q).text = q.text
         /\ TopicOf(q).sources = q.sources
  BY QueryAssumption, NoneAssumption DEF Sources, Topic, TopicOf

LEMMA RowType ==
  ASSUME CacheTypeOK, NEW a \in Answer, NEW s \in Sources, NEW ttl \in Nat, NEW by \in Unit \cup {None}
  PROVE  /\ NewRow(a, s, ttl, by) \in Row
         /\ NewRow(a, s, ttl, by).answer = a /\ NewRow(a, s, ttl, by).sources = s
         /\ NewRow(a, s, ttl, by).by = by
         /\ NewRow(a, s, ttl, by).expires - NewRow(a, s, ttl, by).created = ttl
  BY BoundAssumption DEF CacheTypeOK, NewRow, Row, Expiry

LEMMA NextCases ==
  ASSUME [Next]_vars
  PROVE  \/ \E u \in Unit : Act(u)
         \/ /\ UNCHANGED <<pc, evaluated, reply, records, stopped>>
            /\ UNCHANGED <<active, cacheVars>> \/ Environment
               \/ \E p \in Policy : active' = p /\ UNCHANGED cacheVars
  BY DEF Next, Act, Environment, Activate, vars

(* A handler's step is the business of that handler.                       *)
LEMMA Others ==
  ASSUME TypeOK, NEW u \in Unit, Act(u), NEW v \in Unit, v # u
  PROVE  Same(v)
  <1> USE DEF Same, TypeOK, Goto, Quit, evaluated, reply, records
  <1>1. CASE \E q \in Query, m \in Mode : Begin(u, q, m)
    BY <1>1 DEF Begin
  <1>2. CASE Stop(u)
    BY <1>2 DEF Stop
  <1>3. CASE Receive(u) \/ Evaluate(u) \/ PlanCreated(u) \/ ExactHit(u) \/ SemanticHit(u)
             \/ FallbackInvoked(u) \/ Miss(u) \/ Routed(u) \/ ManifestWritten(u)
    BY <1>3 DEF Receive, Evaluate, PlanCreated, ExactHit, SemanticHit, FallbackInvoked, Miss, Routed,
                ManifestWritten, AuditStep, Audit
  <1>4. CASE StorePlan(u) \/ LookUpMiss(u) \/ Drop(u) \/ SearchMiss(u) \/ Refuse(u)
             \/ (\E k \in Topic : Purge(u, k)) \/ RequirementFails(u)
    BY <1>4 DEF StorePlan, LookUpMiss, Drop, SearchMiss, Refuse, Audit, Purge, RequirementFails
  <1>5. CASE LookUpHit(u) \/ LookUpStale(u) \/ SearchHit(u)
    BY <1>5 DEF LookUpHit, LookUpStale, SearchHit, Take
  <1>6. CASE Call(u) \/ CallFallback(u)
    BY <1>6 DEF Call, CallFallback, Ask
  <1>7. CASE KeepExact(u) \/ KeepSemantic(u) \/ RecordFeedback(u) \/ StoreManifest(u)
    BY <1>7 DEF KeepExact, KeepSemantic, RecordFeedback, StoreManifest
  <1> QED
    BY <1>1, <1>2, <1>3, <1>4, <1>5, <1>6, <1>7 DEF Act, Step
-----------------------------------------------------------------------------
(* The audit steps, with what they record and where they go on.            *)
AuditsAs(u, e, to) ==
  /\ trail' = [trail EXCEPT ![u] = Append(@, e)] /\ pc' = [pc EXCEPT ![u] = to]
  /\ UNCHANGED <<cacheVars, active, evaluated, reply, plans, feedback, manifests, stopped>>
  /\ \/ pc[u] = "receive" /\ to = "evaluate"
     \/ pc[u] = "evaluate" /\ to = "plan"
     \/ pc[u] = "planned" /\ to = "lookup" /\ e = "plan.created"
     \/ pc[u] \in {"hit", "accept"} /\ to = "verify"
     \/ pc[u] = "fallback" /\ to = "retry"
     \/ pc[u] = "miss" /\ to = "routed" /\ e = "cache.exact.miss"
     \/ pc[u] = "routed" /\ to = "feedback"
     \/ pc[u] = "written" /\ to = "served"
Audits(u) == \E e \in Event \ {"verifier.failed"}, to \in Pc : AuditsAs(u, e, to)

LEMMA AuditCases ==
  ASSUME NEW u \in Unit,
         \/ Receive(u) \/ Evaluate(u) \/ PlanCreated(u) \/ ExactHit(u) \/ SemanticHit(u)
         \/ FallbackInvoked(u) \/ Miss(u) \/ Routed(u) \/ ManifestWritten(u)
  PROVE  Audits(u)
  <1>0. /\ {"evaluate", "plan", "lookup", "verify", "retry", "routed", "feedback", "served"} \subseteq Pc
        /\ {"work_unit.received", "policy.evaluated", "plan.created", "cache.exact.hit",
             "ai.semantic_cache.accepted", "ai.fallback.invoked", "cache.exact.miss",
             "ai.model.routed", "manifest.written"} \subseteq Event \ {"verifier.failed"}
    BY DEF Event, Pc, Early, Asking, Answered, Final
  <1> USE DEF AuditStep, Audit, Goto, AuditsAs
  <1>1. CASE Receive(u)
    <2>1. AuditsAs(u, "work_unit.received", "evaluate")
      BY <1>1 DEF Receive
    <2> QED
      BY <1>0, <2>1 DEF Audits
  <1>2. CASE Evaluate(u)
    <2>1. AuditsAs(u, "policy.evaluated", "plan")
      BY <1>2 DEF Evaluate
    <2> QED
      BY <1>0, <2>1 DEF Audits
  <1>3. CASE PlanCreated(u)
    <2>1. AuditsAs(u, "plan.created", "lookup")
      BY <1>3 DEF PlanCreated
    <2> QED
      BY <1>0, <2>1 DEF Audits
  <1>4. CASE ExactHit(u)
    <2>1. AuditsAs(u, "cache.exact.hit", "verify")
      BY <1>4 DEF ExactHit
    <2> QED
      BY <1>0, <2>1 DEF Audits
  <1>5. CASE SemanticHit(u)
    <2>1. AuditsAs(u, "ai.semantic_cache.accepted", "verify")
      BY <1>5 DEF SemanticHit
    <2> QED
      BY <1>0, <2>1 DEF Audits
  <1>6. CASE FallbackInvoked(u)
    <2>1. AuditsAs(u, "ai.fallback.invoked", "retry")
      BY <1>6 DEF FallbackInvoked
    <2> QED
      BY <1>0, <2>1 DEF Audits
  <1>7. CASE Miss(u)
    <2>1. AuditsAs(u, "cache.exact.miss", "routed")
      BY <1>7 DEF Miss
    <2> QED
      BY <1>0, <2>1 DEF Audits
  <1>8. CASE Routed(u)
    <2>1. AuditsAs(u, "ai.model.routed", "feedback")
      BY <1>8 DEF Routed
    <2> QED
      BY <1>0, <2>1 DEF Audits
  <1>9. CASE ManifestWritten(u)
    <2>1. AuditsAs(u, "manifest.written", "served")
      BY <1>9 DEF ManifestWritten
    <2> QED
      BY <1>0, <2>1 DEF Audits
  <1> QED
    BY <1>1, <1>2, <1>3, <1>4, <1>5, <1>6, <1>7, <1>8, <1>9

(* The rows a handler reads and writes.                                    *)
LEMMA OwnRowType ==
  ASSUME TypeOK, UnitInv, NEW u \in Unit, pc[u] # "idle", answer[u] \in Accepted
  PROVE  OwnRow(u) \in Row
  BY QueryType, RowType, AnswerAssumption DEF TypeOK, UnitInv, UnitOK, OwnRow

LEMMA ClientRowType ==
  ASSUME CacheTypeOK, NEW v \in ClientValue
  PROVE  /\ v.query \in Query
         /\ NewRow(v.answer, v.sources, v.ttl, None) \in Row
         /\ NewRow(v.answer, v.sources, v.ttl, None).by = None
  BY ClientAssumption, RowType DEF Sources

LEMMA TypeStep == TypeOK /\ UnitInv /\ [Next]_vars => TypeOK'
  <1> SUFFICES ASSUME TypeOK, UnitInv, [Next]_vars PROVE TypeOK'
    OBVIOUS
  <1> USE DEF TypeOK, Found, Goto, Quit, evaluated, reply, records, cacheVars, CacheTypeOK
  <1>1. ASSUME NEW u \in Unit, NEW q \in Query, NEW m \in Mode, Begin(u, q, m) PROVE TypeOK'
    <2>1. /\ query' \in [Unit -> Query \cup {None}] /\ mode' \in [Unit -> Mode]
          /\ under' \in [Unit -> Policy \cup {None}]
      BY <1>1 DEF Begin
    <2>2. /\ UNCHANGED <<cacheVars, active, reply, records>>
          /\ (pc' = [pc EXCEPT ![u] = "over"] /\ stopped' = stopped \cup {u})
               \/ (pc' = [pc EXCEPT ![u] = "receive"] /\ stopped' = stopped)
      BY <1>1 DEF Begin
    <2>3. stopped' \subseteq Unit
      BY <2>2
    <2>4. pc \in [Unit -> Pc] /\ "over" \in Pc /\ "receive" \in Pc
      BY DEF Pc, Early, Asking, Answered, Final
    <2>5. pc' \in [Unit -> Pc]
      <3> HIDE DEF TypeOK, Pc
      <3> QED
        BY <2>2, <2>4
    <2> HIDE DEF Found
    <2> QED
      BY <2>1, <2>2, <2>3, <2>5 DEF Pc, Early, Asking, Answered, Final
  <1>2. ASSUME NEW u \in Unit, Stop(u) PROVE TypeOK'
    BY <1>2 DEF Stop
  <1>3. ASSUME NEW u \in Unit, Audits(u) PROVE TypeOK'
    <2>1. PICK e \in Event \ {"verifier.failed"}, to \in Pc : AuditsAs(u, e, to)
      BY <1>3 DEF Audits
    <2>2. trail' \in [Unit -> Seq(Event)]
      BY <2>1, AppendType DEF AuditsAs
    <2> QED
      BY <2>1, <2>2 DEF AuditsAs, Pc, Early, Asking, Answered, Final
  <1>4. ASSUME NEW u \in Unit, StorePlan(u) PROVE TypeOK'
    BY <1>4 DEF StorePlan
  <1>5. ASSUME NEW u \in Unit, LookUpMiss(u) PROVE TypeOK'
    BY <1>5 DEF LookUpMiss
  <1>6. ASSUME NEW u \in Unit, LookUpHit(u) \/ LookUpStale(u) PROVE TypeOK'
    <2>1. query[u] \in Query /\ exact[query[u]] \in Row
      BY <1>6 DEF LookUpHit, LookUpStale, Gets, MatchesExactly, UnitInv, UnitOK
    <2>2. [row |-> exact[query[u]], at |-> now] \in Found /\ exact[query[u]].answer \in Answer
      BY <2>1 DEF Row
    <2>3. CASE LookUpHit(u)
      <3>1. hit' \in [Unit -> Found \cup {None}] /\ answer' \in [Unit -> Answer \cup {None}]
            /\ outcome' \in [Unit -> Outcome]
        BY <2>2, <2>3 DEF LookUpHit, Take, Outcome
      <3> QED
        BY <2>3, <3>1 DEF LookUpHit
    <2>4. CASE LookUpStale(u)
      BY <2>2, <2>4 DEF LookUpStale
    <2> QED
      BY <1>6, <2>3, <2>4
  <1>7. ASSUME NEW u \in Unit, Drop(u) PROVE TypeOK'
    BY <1>7 DEF Drop, DeleteExact
  <1>8. ASSUME NEW u \in Unit, SearchHit(u) PROVE TypeOK'
    <2>1. PICK k \in Best(query[u]) : Take(u, semantic[k], "semantic_hit")
      BY <1>8 DEF SearchHit
    <2>2. k \in Topic /\ semantic[k] \in Row
      BY <2>1 DEF Best, Candidates, InScope
    <2>3. [row |-> semantic[k], at |-> now] \in Found /\ semantic[k].answer \in Answer
      BY <2>2 DEF Row
    <2>4. hit' \in [Unit -> Found \cup {None}] /\ answer' \in [Unit -> Answer \cup {None}]
          /\ outcome' \in [Unit -> Outcome]
      BY <2>1, <2>3 DEF Take, Outcome
    <2>5. ExpiredRows(query[u]) \subseteq Topic
      BY DEF ExpiredRows, InScope
    <2> QED
      BY <1>8, <2>4, <2>5 DEF SearchHit
  <1>9. ASSUME NEW u \in Unit, SearchMiss(u) PROVE TypeOK'
    <2>1. ExpiredRows(query[u]) \subseteq Topic
      BY DEF ExpiredRows, InScope
    <2> QED
      BY <1>9, <2>1 DEF SearchMiss
  <1>10. ASSUME NEW u \in Unit, NEW k \in Topic, Purge(u, k) PROVE TypeOK'
    BY <1>10 DEF Purge, DeleteSemantic
  <1>11. ASSUME NEW u \in Unit, Call(u) \/ CallFallback(u) PROVE TypeOK'
    <2>1. query[u] \in Query
      BY <1>11 DEF Call, CallFallback, Ask, UnitInv, UnitOK
    <2>2. CanAnswer(query[u]) \subseteq Answer
      BY <2>1, ProviderAssumption
    <2>3. CASE Call(u)
      BY <2>2, <2>3 DEF Call, Ask
    <2>4. CASE CallFallback(u)
      BY <2>2, <2>4 DEF CallFallback, Ask
    <2> QED
      BY <1>11, <2>3, <2>4
  <1>12. ASSUME NEW u \in Unit, Refuse(u) PROVE TypeOK'
    <2>1. trail' \in [Unit -> Seq(Event)]
      BY <1>12, AppendType DEF Refuse, Audit, Event
    <2> QED
      BY <1>12, <2>1 DEF Refuse
  <1>13. ASSUME NEW u \in Unit, RequirementFails(u) PROVE TypeOK'
    BY <1>13 DEF RequirementFails
  <1>14. ASSUME NEW u \in Unit, KeepExact(u) PROVE TypeOK'
    <2>1. OwnRow(u) \in Row
      BY <1>14, OwnRowType DEF KeepExact, MayKeep, MeetsRequirements
    <2>2. exact' \in [Query -> Row \cup {None}]
      BY <1>14, <2>1 DEF KeepExact, PutExact
    <2> QED
      BY <1>14, <2>2 DEF KeepExact
  <1>15. ASSUME NEW u \in Unit, KeepSemantic(u) PROVE TypeOK'
    <2>1. OwnRow(u) \in Row
      BY <1>15, OwnRowType DEF KeepSemantic, UnitInv, UnitOK, MeetsRequirements
    <2>2. semantic' \in [Topic -> Row \cup {None}]
      BY <1>15, <2>1 DEF KeepSemantic, PutSemantic
    <2> QED
      BY <1>15, <2>2 DEF KeepSemantic
  <1>16. ASSUME NEW u \in Unit, RecordFeedback(u) PROVE TypeOK'
    BY <1>16 DEF RecordFeedback
  <1>17. ASSUME NEW u \in Unit, StoreManifest(u) PROVE TypeOK'
    <2>1. manifests' \in [Unit -> Manifest \cup {None}]
      BY <1>17 DEF StoreManifest, Manifest, FallbackUsed
    <2> QED
      BY <1>17, <2>1 DEF StoreManifest
  <1>18. CASE Environment /\ UNCHANGED <<pc, evaluated, reply, records, stopped>>
    <2>1. CASE Tick
      BY <1>18, <2>1, BoundAssumption DEF Tick, Environment
    <2>2. ASSUME NEW v \in ClientValue, StoreByClient(v) PROVE TypeOK'
      <3>1. exact' \in [Query -> Row \cup {None}]
        BY <2>2, ClientRowType DEF StoreByClient, PutExact
      <3> QED
        BY <1>18, <2>2, <3>1, BoundAssumption DEF StoreByClient, Environment
    <2> QED
      BY <1>18, <2>1, <2>2 DEF Environment
  <1>19. CASE UNCHANGED vars
    BY <1>19 DEF vars
  <1>20. ASSUME NEW p \in Policy, Activate(p) PROVE TypeOK'
    BY <1>20 DEF Activate
  <1>21. ASSUME NEW u \in Unit, Act(u) PROVE TypeOK'
    BY <1>1, <1>2, <1>3, <1>4, <1>5, <1>6, <1>7, <1>8, <1>9, <1>10, <1>11, <1>12, <1>13, <1>14,
       <1>15, <1>16, <1>17, <1>21, AuditCases DEF Act, Step
  <1> QED
    BY <1>18, <1>19, <1>20, <1>21 DEF Next, Act, Environment
-----------------------------------------------------------------------------
LEMMA SameRequirements ==
  ASSUME NEW u, query'[u] = query[u], under'[u] = under[u], answer'[u] = answer[u]
  PROVE  MeetsRequirements(u)' <=> MeetsRequirements(u)
  BY DEF MeetsRequirements, Required

(* A step of one handler, or of none.                                      *)
LEMMA OneActs ==
  ASSUME TypeOK, [Next]_vars, NEW u \in Unit
  PROVE  Same(u) \/ Act(u)
  <1>1. CASE UNCHANGED <<pc, evaluated, reply, records, stopped>>
    BY <1>1 DEF Same, evaluated, reply, records
  <1>2. CASE \E v \in Unit : Act(v)
    BY <1>2, Others
  <1> QED
    BY <1>1, <1>2, NextCases

(* What a handler has behind it when it has taken a step.                  *)
LEMMA UnitStep == IInv /\ [Next]_vars => UnitInv'
  <1> SUFFICES ASSUME IInv, [Next]_vars, NEW u \in Unit PROVE UnitOK(u)'
    BY DEF UnitInv
  <1> TypeOK /\ UnitOK(u)
    BY DEF IInv, UnitInv
  <1> USE DEF UnitOK, TypeOK, Goto, Quit, evaluated, reply, records, Early, Asking, Answered
  <1>1. CASE Same(u)
    <2>1. MeetsRequirements(u)' <=> MeetsRequirements(u)
      BY <1>1, SameRequirements DEF Same
    <2> QED
      BY <1>1, <2>1 DEF Same
  <1>2. ASSUME NEW q \in Query, NEW m \in Mode, Begin(u, q, m) PROVE UnitOK(u)'
    BY <1>2 DEF Begin
  <1>3. CASE Stop(u)
    BY <1>3 DEF Stop
  <1>4. CASE Audits(u)
    <2>1. PICK e \in Event \ {"verifier.failed"}, to \in Pc : AuditsAs(u, e, to)
      BY <1>4 DEF Audits
    <2>2. trail'[u] = Append(trail[u], e)
      BY <2>1 DEF AuditsAs
    <2>3. ToSet(trail'[u]) = ToSet(trail[u]) \cup {e}
      BY <2>2, AppendType
    <2> QED
      BY <2>1, <2>3 DEF AuditsAs
  <1>5. CASE StorePlan(u)
    BY <1>5 DEF StorePlan
  <1>6. CASE LookUpMiss(u)
    BY <1>6 DEF LookUpMiss
  <1>7. CASE LookUpHit(u)
    <2>1. query[u] \in Query /\ exact[query[u]] \in Row
      BY <1>7 DEF LookUpHit, Gets, MatchesExactly, CacheTypeOK
    <2>2. [row |-> exact[query[u]], at |-> now] \in Found
      BY <2>1 DEF Found, CacheTypeOK
    <2>3. hit'[u] \in Found
      BY <1>7, <2>2 DEF LookUpHit, Take
    <2> QED
      BY <1>7, <2>3 DEF LookUpHit, Take
  <1>8. CASE LookUpStale(u)
    BY <1>8 DEF LookUpStale
  <1>9. CASE Drop(u)
    BY <1>9 DEF Drop
  <1>10. CASE SearchHit(u)
    <2>1. PICK k \in Best(query[u]) : Take(u, semantic[k], "semantic_hit")
      BY <1>10 DEF SearchHit
    <2>2. k \in Topic /\ semantic[k] \in Row
      BY <2>1 DEF Best, Candidates, InScope, CacheTypeOK
    <2>3. hit'[u] \in Found
      BY <2>1, <2>2 DEF Take, Found, CacheTypeOK
    <2> QED
      BY <1>10, <2>3 DEF SearchHit
  <1>11. CASE SearchMiss(u)
    BY <1>11 DEF SearchMiss
  <1>12. ASSUME NEW k \in Topic, Purge(u, k) PROVE UnitOK(u)'
    <2>1. MeetsRequirements(u)' <=> MeetsRequirements(u)
      BY <1>12, SameRequirements DEF Purge
    <2> QED
      BY <1>12, <2>1 DEF Purge
  <1>13. CASE Call(u)
    BY <1>13 DEF Call, Ask
  <1>14. CASE CallFallback(u)
    BY <1>14 DEF CallFallback, Ask
  <1>15. CASE Refuse(u)
    BY <1>15 DEF Refuse
  <1>16. CASE RequirementFails(u)
    BY <1>16 DEF RequirementFails
  <1>17. CASE KeepExact(u)
    <2>1. MeetsRequirements(u)' <=> MeetsRequirements(u)
      BY <1>17, SameRequirements DEF KeepExact
    <2> QED
      BY <1>17, <2>1 DEF KeepExact, MayKeep
  <1>18. CASE KeepSemantic(u)
    BY <1>18 DEF KeepSemantic
  <1>19. CASE RecordFeedback(u)
    BY <1>19 DEF RecordFeedback
  <1>20. CASE StoreManifest(u)
    BY <1>20 DEF StoreManifest
  <1> QED
    BY <1>1, <1>2, <1>3, <1>4, <1>5, <1>6, <1>7, <1>8, <1>9, <1>10, <1>11, <1>12, <1>13, <1>14,
       <1>15, <1>16, <1>17, <1>18, <1>19, <1>20, OneActs, AuditCases DEF Act, Step

(* A unit that vouches for a row does so for good.                         *)
LEMMA Standing ==
  ASSUME IInv, [Next]_vars, NEW u \in Unit, NEW row,
         Vouches(u, row), pc[u] \in Answered \cup Final
  PROVE  Vouches(u, row)' /\ pc'[u] \in Answered \cup Final /\ query'[u] = query[u]
  <1> TypeOK
    BY DEF IInv
  <1> DEFINE Kept == /\ pc'[u] \in Answered \cup Final
                     /\ query'[u] = query[u] /\ under'[u] = under[u]
                     /\ answer'[u] = answer[u] /\ outcome'[u] = outcome[u]
                     /\ u \in plans => u \in plans'
                     /\ ToSet(trail[u]) \subseteq ToSet(trail'[u])
                     /\ "verifier.failed" \in ToSet(trail'[u]) => "verifier.failed" \in ToSet(trail[u])
                     /\ u \in stopped => u \in stopped'
                     /\ pc[u] \in {"keepSemantic", "miss"} =>
                          \/ pc'[u] \in {"keepSemantic", "miss"} \/ u \in stopped'
                          \/ "cache.exact.miss" \in ToSet(trail'[u])
  <1>1. Kept
    <2> USE DEF TypeOK, Goto, Quit, evaluated, reply, records, Answered, Final
    <2>1. CASE Same(u)
      BY <2>1 DEF Same
    <2>2. CASE Audits(u)
      <3>1. PICK e \in Event \ {"verifier.failed"}, to \in Pc : AuditsAs(u, e, to)
        BY <2>2 DEF Audits
      <3>2. trail'[u] = Append(trail[u], e)
        BY <3>1 DEF AuditsAs
      <3>3. ToSet(trail'[u]) = ToSet(trail[u]) \cup {e}
        BY <3>2, AppendType
      <3> QED
        BY <3>1, <3>3 DEF AuditsAs
    <2>3. CASE Stop(u)
      BY <2>3 DEF Stop
    <2>4. CASE RequirementFails(u)
      BY <2>4 DEF RequirementFails
    <2>5. CASE KeepSemantic(u) \/ RecordFeedback(u) \/ StoreManifest(u)
      BY <2>5 DEF KeepSemantic, RecordFeedback, StoreManifest
    <2>6. ASSUME NEW k \in Topic, Purge(u, k) PROVE Kept
      BY <2>6 DEF Purge
    <2>7. /\ ~StorePlan(u) /\ ~LookUpMiss(u) /\ ~LookUpHit(u) /\ ~LookUpStale(u) /\ ~Drop(u)
          /\ ~SearchHit(u) /\ ~SearchMiss(u) /\ ~Call(u) /\ ~CallFallback(u) /\ ~Refuse(u)
          /\ ~KeepExact(u) /\ ~\E q \in Query, m \in Mode : Begin(u, q, m)
      BY DEF StorePlan, LookUpMiss, LookUpHit, LookUpStale, Drop, SearchHit, SearchMiss, Call,
             CallFallback, Ask, Refuse, KeepExact, Begin
    <2> QED
      BY <2>1, <2>2, <2>3, <2>4, <2>5, <2>6, <2>7, OneActs, AuditCases DEF Act, Step
  <1>2. MeetsRequirements(u)' <=> MeetsRequirements(u)
    BY <1>1, SameRequirements
  <1> QED
    BY <1>1, <1>2 DEF Vouches
-----------------------------------------------------------------------------
(* Where the rows of the tables come from.                                 *)
LEMMA ExactCases ==
  ASSUME IInv, [Next]_vars, NEW q \in Query, exact'[q] # None
  PROVE  \/ exact'[q] = exact[q]
         \/ exact'[q].by = None
         \/ \E u \in Unit : KeepExact(u) /\ q = query[u] /\ exact'[q] = OwnRow(u)
  <1> TypeOK /\ CacheTypeOK
    BY DEF IInv, TypeOK
  <1> USE DEF CacheTypeOK, cacheVars
  <1>1. ASSUME NEW u \in Unit, KeepExact(u)
        PROVE  exact'[q] = exact[q] \/ (q = query[u] /\ exact'[q] = OwnRow(u))
    BY <1>1 DEF KeepExact, PutExact
  <1>2. ASSUME NEW u \in Unit, Drop(u) PROVE exact'[q] = exact[q]
    BY <1>2 DEF Drop, DeleteExact
  <1>3. ASSUME NEW u \in Unit, Act(u), ~KeepExact(u), ~Drop(u) PROVE exact' = exact
    <2> USE <1>3
    <2>1. CASE Audits(u)
      BY <2>1 DEF Audits, AuditsAs
    <2>2. CASE (\E n \in Query, m \in Mode : Begin(u, n, m)) \/ Stop(u)
      BY <2>2 DEF Begin, Stop
    <2>3. CASE StorePlan(u) \/ LookUpMiss(u) \/ LookUpHit(u) \/ LookUpStale(u)
      BY <2>3 DEF StorePlan, LookUpMiss, LookUpHit, LookUpStale
    <2>4. CASE SearchHit(u) \/ SearchMiss(u) \/ (\E k \in Topic : Purge(u, k))
      BY <2>4 DEF SearchHit, SearchMiss, Purge
    <2>5. CASE Call(u) \/ CallFallback(u) \/ Refuse(u) \/ RequirementFails(u)
      BY <2>5 DEF Call, CallFallback, Ask, Refuse, RequirementFails
    <2>6. CASE KeepSemantic(u) \/ RecordFeedback(u) \/ StoreManifest(u)
      BY <2>6 DEF KeepSemantic, RecordFeedback, StoreManifest
    <2> QED
      BY <2>1, <2>2, <2>3, <2>4, <2>5, <2>6, AuditCases DEF Act, Step
  <1>4. CASE Environment
    <2>1. ASSUME NEW v \in ClientValue, StoreByClient(v)
          PROVE  exact'[q] = exact[q] \/ exact'[q].by = None
      BY <2>1, ClientRowType DEF StoreByClient, PutExact
    <2> QED
      BY <1>4, <2>1 DEF Environment, Tick
  <1> QED
    BY <1>1, <1>2, <1>3, <1>4, NextCases

LEMMA SemanticCases ==
  ASSUME IInv, [Next]_vars, NEW k \in Topic, semantic'[k] # None
  PROVE  \/ semantic'[k] = semantic[k]
         \/ \E u \in Unit : KeepSemantic(u) /\ k = TopicOf(query[u]) /\ semantic'[k] = OwnRow(u)
  <1> TypeOK /\ CacheTypeOK
    BY DEF IInv, TypeOK
  <1> USE DEF CacheTypeOK, cacheVars
  <1>1. ASSUME NEW u \in Unit, KeepSemantic(u)
        PROVE  semantic'[k] = semantic[k] \/ (k = TopicOf(query[u]) /\ semantic'[k] = OwnRow(u))
    BY <1>1 DEF KeepSemantic, PutSemantic
  <1>2. ASSUME NEW u \in Unit, NEW l \in Topic, Purge(u, l) PROVE semantic'[k] = semantic[k]
    BY <1>2 DEF Purge, DeleteSemantic
  <1>3. ASSUME NEW u \in Unit, Act(u), ~KeepSemantic(u), ~\E l \in Topic : Purge(u, l)
        PROVE  semantic' = semantic
    <2> USE <1>3
    <2>1. CASE Audits(u)
      BY <2>1 DEF Audits, AuditsAs
    <2>2. CASE (\E n \in Query, m \in Mode : Begin(u, n, m)) \/ Stop(u)
      BY <2>2 DEF Begin, Stop
    <2>3. CASE StorePlan(u) \/ LookUpMiss(u) \/ LookUpHit(u) \/ LookUpStale(u)
      BY <2>3 DEF StorePlan, LookUpMiss, LookUpHit, LookUpStale
    <2>4. CASE SearchHit(u) \/ SearchMiss(u) \/ Drop(u)
      BY <2>4 DEF SearchHit, SearchMiss, Drop
    <2>5. CASE Call(u) \/ CallFallback(u) \/ Refuse(u) \/ RequirementFails(u)
      BY <2>5 DEF Call, CallFallback, Ask, Refuse, RequirementFails
    <2>6. CASE KeepExact(u) \/ RecordFeedback(u) \/ StoreManifest(u)
      BY <2>6 DEF KeepExact, RecordFeedback, StoreManifest
    <2> QED
      BY <2>1, <2>2, <2>3, <2>4, <2>5, <2>6, AuditCases DEF Act, Step
  <1>4. CASE Environment
    BY <1>4 DEF Environment, Tick, StoreByClient
  <1> QED
    BY <1>1, <1>2, <1>3, <1>4, NextCases

(* The row a handler puts into a table is one it vouches for.              *)
LEMMA OwnVouched ==
  ASSUME IInv, NEW u \in Unit, KeepExact(u) \/ KeepSemantic(u), NEW row, row = OwnRow(u)
  PROVE  /\ row.by = u /\ Vouches(u, row)' /\ pc'[u] \in Answered \cup Final
         /\ query'[u] = query[u] /\ query[u] \in Query
  <1> TypeOK /\ UnitOK(u)
    BY DEF IInv, UnitInv
  <1> USE DEF TypeOK, UnitOK, Goto, evaluated, reply, records, Early, Asking, Answered, Final
  <1>1. /\ query'[u] = query[u] /\ under'[u] = under[u] /\ answer'[u] = answer[u]
        /\ outcome'[u] = "miss" /\ plans' = plans /\ trail' = trail
        /\ pc'[u] \in {"keepSemantic", "miss"} /\ pc[u] \in {"keep", "keepSemantic"}
        /\ MeetsRequirements(u)
    BY DEF KeepExact, KeepSemantic, MayKeep
  <1>2. MeetsRequirements(u)'
    BY <1>1, SameRequirements
  <1>3. query[u] \in Query /\ answer[u] \in Answer
    BY <1>1, AnswerAssumption DEF MeetsRequirements
  <1>4. /\ row.answer = answer[u] /\ row.sources = query[u].sources /\ row.by = u
        /\ row.expires - row.created = query[u].ttl
    BY <1>3, QueryType, RowType DEF OwnRow
  <1>5. u \in plans /\ "plan.created" \in ToSet(trail[u]) /\ "verifier.failed" \notin ToSet(trail[u])
    BY <1>1
  <1> QED
    BY <1>1, <1>2, <1>3, <1>4, <1>5 DEF Vouches

LEMMA RowsStep ==
  IInv /\ [Next]_vars =>
    /\ RowsVouched'
    /\ (\A q \in Query : exact[q] # None => Past(exact[q]))'
    /\ (\A k \in Topic : semantic[k] # None => Past(semantic[k]))'
  <1> SUFFICES ASSUME IInv, [Next]_vars
      PROVE  /\ RowsVouched'
             /\ (\A q \in Query : exact[q] # None => Past(exact[q]))'
             /\ (\A k \in Topic : semantic[k] # None => Past(semantic[k]))'
    OBVIOUS
  <1> TypeOK /\ CacheTypeOK /\ PastInv /\ RowsVouched
    BY DEF IInv, TypeOK
  <1>1. ASSUME NEW q \in Query, NEW row, row = exact'[q], row # None, row.by # None
        PROVE  /\ Vouches(row.by, row)' /\ query'[row.by] = q
               /\ pc'[row.by] \in Answered \cup Final
    <2>1. CASE row = exact[q]
      <3>1. row.by \in Unit
        BY <1>1, <2>1 DEF CacheTypeOK, Row
      <3>2. Vouches(row.by, row) /\ query[row.by] = q /\ pc[row.by] \in Answered \cup Final
        BY <1>1, <2>1 DEF RowsVouched, PastInv, Past
      <3> QED
        BY <3>1, <3>2, Standing
    <2>2. CASE \E u \in Unit : KeepExact(u) /\ q = query[u] /\ row = OwnRow(u)
      BY <2>2, OwnVouched
    <2> QED
      BY <1>1, <2>1, <2>2, ExactCases
  <1>2. ASSUME NEW k \in Topic, NEW row, row = semantic'[k], row # None
        PROVE  /\ row.by # None /\ Vouches(row.by, row)' /\ TopicOf(query'[row.by]) = k
               /\ pc'[row.by] \in Answered \cup Final
    <2>1. CASE row = semantic[k]
      <3>1. row.by # None /\ row.by \in Unit
        BY <1>2, <2>1 DEF CacheTypeOK, Row, RowsVouched
      <3>2. /\ Vouches(row.by, row) /\ TopicOf(query[row.by]) = k
            /\ pc[row.by] \in Answered \cup Final
        BY <1>2, <2>1, <3>1 DEF RowsVouched, PastInv, Past
      <3> QED
        BY <3>1, <3>2, Standing
    <2>2. CASE \E u \in Unit : KeepSemantic(u) /\ k = TopicOf(query[u]) /\ row = OwnRow(u)
      BY <2>2, OwnVouched, NoneAssumption
    <2> QED
      BY <1>2, <2>1, <2>2, SemanticCases
  <1>3. (\A q \in Query : exact[q] # None /\ exact[q].by # None =>
           Vouches(exact[q].by, exact[q]) /\ query[exact[q].by] = q)'
    <2> SUFFICES ASSUME NEW q \in Query, exact'[q] # None, exact'[q].by # None
                 PROVE  (Vouches(exact[q].by, exact[q]) /\ query[exact[q].by] = q)'
      OBVIOUS
    <2>1. PICK row : row = exact'[q]
      OBVIOUS
    <2>2. Vouches(row.by, row)' /\ query'[row.by] = q
      BY <1>1, <2>1
    <2> QED
      BY <2>1, <2>2 DEF Vouches, MeetsRequirements, Required
  <1>4. (\A k \in Topic : semantic[k] # None =>
           /\ semantic[k].by # None
           /\ Vouches(semantic[k].by, semantic[k]) /\ TopicOf(query[semantic[k].by]) = k)'
    <2> SUFFICES ASSUME NEW k \in Topic, semantic'[k] # None
                 PROVE  (/\ semantic[k].by # None
                         /\ Vouches(semantic[k].by, semantic[k])
                         /\ TopicOf(query[semantic[k].by]) = k)'
      OBVIOUS
    <2>1. PICK row : row = semantic'[k]
      OBVIOUS
    <2>2. row.by # None /\ Vouches(row.by, row)' /\ TopicOf(query'[row.by]) = k
      BY <1>2, <2>1
    <2> QED
      BY <2>1, <2>2 DEF Vouches, MeetsRequirements, Required, TopicOf
  <1> QED
    BY <1>1, <1>2, <1>3, <1>4 DEF Past, RowsVouched
-----------------------------------------------------------------------------
(* What HitsFaithful says of one hit: the row that was read, and when.     *)
Faithful(u, row, at) ==
  /\ answer[u] = row.answer /\ row.sources = query[u].sources
  /\ at < row.expires
  /\ query[u].kind = "chat" => row.answer \in Accepted
  /\ row.by # None =>
       /\ Vouches(row.by, row)
       /\ at - row.created < query[row.by].ttl
  /\ outcome[u] = "exact_hit" /\ row.by # None => query[row.by] = query[u]
  /\ outcome[u] = "semantic_hit" =>
       /\ row.by # None /\ query[row.by].namespace = query[u].namespace
       /\ Score(query[u].text, query[row.by].text) >= query[u].threshold

LEMMA HitCases ==
  ASSUME IInv, [Next]_vars, NEW u \in Unit, outcome'[u] # "miss"
  PROVE  \/ /\ outcome[u] # "miss" /\ outcome'[u] = outcome[u] /\ hit'[u] = hit[u]
            /\ answer'[u] = answer[u] /\ query'[u] = query[u]
         \/ LookUpHit(u)
         \/ SearchHit(u)
  <1> TypeOK /\ UnitOK(u)
    BY DEF IInv, UnitInv
  <1> USE DEF TypeOK, UnitOK, evaluated, reply, records, Early, Asking, Answered, Goto, Quit
  <1>1. CASE Same(u)
    BY <1>1 DEF Same
  <1>2. CASE Audits(u)
    BY <1>2 DEF Audits, AuditsAs
  <1>3. CASE Stop(u) \/ RequirementFails(u) \/ StoreManifest(u)
    BY <1>3 DEF Stop, RequirementFails, StoreManifest
  <1>4. ASSUME NEW k \in Topic, Purge(u, k)
        PROVE  /\ outcome'[u] = outcome[u] /\ hit'[u] = hit[u]
               /\ answer'[u] = answer[u] /\ query'[u] = query[u]
    BY <1>4 DEF Purge
  <1>5. CASE (\E q \in Query, m \in Mode : Begin(u, q, m)) \/ StorePlan(u) \/ LookUpMiss(u)
             \/ LookUpStale(u) \/ Drop(u) \/ SearchMiss(u)
    BY <1>5 DEF Begin, StorePlan, LookUpMiss, LookUpStale, Drop, SearchMiss
  <1>6. CASE Call(u) \/ CallFallback(u) \/ Refuse(u)
    BY <1>6 DEF Call, CallFallback, Ask, Refuse
  <1>7. CASE KeepExact(u) \/ KeepSemantic(u) \/ RecordFeedback(u)
    BY <1>7 DEF KeepExact, KeepSemantic, RecordFeedback
  <1> QED
    BY <1>1, <1>2, <1>3, <1>4, <1>5, <1>6, <1>7, OneActs, AuditCases DEF Act, Step

(* A hit is faithful when it is made, and stays so.                        *)
LEMMA HitMade ==
  ASSUME IInv, NEW u \in Unit, LookUpHit(u) \/ SearchHit(u), [Next]_vars,
         NEW row, row = hit'[u].row, NEW at, at = hit'[u].at
  PROVE  Faithful(u, row, at)' /\ Past(row)'
  <1> TypeOK /\ CacheTypeOK /\ UnitOK(u) /\ RowsVouched /\ PastInv
    BY DEF IInv, TypeOK, UnitInv
  <1>1. query[u] \in Query /\ query' = query /\ at = now /\ answer'[u] = row.answer
    BY DEF LookUpHit, SearchHit, Take, UnitOK, TypeOK, evaluated
  <1>2. at \in Int
    BY <1>1 DEF CacheTypeOK
  <1>3. CASE LookUpHit(u)
    <2>1. row = exact[query[u]] /\ row \in Row /\ outcome'[u] = "exact_hit"
      BY <1>1, <1>3 DEF LookUpHit, Take, Gets, MatchesExactly, CacheTypeOK, TypeOK
    <2>2. row.sources = query[u].sources /\ at < row.expires
      BY <1>1, <1>2, <1>3, <2>1 DEF LookUpHit, Gets, MatchesExactly, SameSources, Expired, Row
    <2>3. query[u].kind = "chat" => row.answer \in Accepted
      BY <1>3, <2>1 DEF LookUpHit, Rejects
    <2>4. ASSUME row.by # None
          PROVE  /\ Vouches(row.by, row)' /\ query[row.by] = query[u]
                 /\ pc'[row.by] \in Answered \cup Final
                 /\ at - row.created < query[row.by].ttl
      <3>1. row.by \in Unit /\ row # None
        BY <1>3, <2>1, <2>4 DEF Row, LookUpHit, Gets, MatchesExactly
      <3>2. /\ Vouches(row.by, row) /\ query[row.by] = query[u]
            /\ pc[row.by] \in Answered \cup Final
        BY <1>1, <2>1, <2>4, <3>1 DEF RowsVouched, PastInv, Past
      <3>3. row.expires - row.created = query[row.by].ttl
        BY <3>2 DEF Vouches
      <3>4. row.expires \in Int /\ row.created \in Int
        BY <2>1 DEF Row
      <3> QED
        BY <1>2, <2>2, <3>1, <3>2, <3>3, <3>4, Standing
    <2> QED
      BY <1>1, <2>1, <2>2, <2>3, <2>4 DEF Faithful, Past
  <1>4. CASE SearchHit(u)
    <2>1. PICK k \in Best(query[u]) : Take(u, semantic[k], "semantic_hit")
      BY <1>4 DEF SearchHit
    <2>2. /\ k \in Topic /\ semantic[k] # None /\ k.namespace = query[u].namespace
          /\ ~Expired(semantic[k]) /\ SameSources(semantic[k], query[u])
          /\ Score(query[u].text, k.text) >= query[u].threshold
      BY <2>1 DEF Best, Candidates, ExpiredRows, InScope
    <2>3. row = semantic[k] /\ row \in Row /\ outcome'[u] = "semantic_hit"
      BY <2>1, <2>2 DEF Take, CacheTypeOK, TypeOK
    <2>4. row.sources = query[u].sources /\ at < row.expires
      BY <1>1, <1>2, <2>2, <2>3 DEF SameSources, Expired, Row
    <2>5. row.by # None /\ row.by \in Unit
      BY <2>2, <2>3 DEF RowsVouched, Row
    <2>6. Vouches(row.by, row) /\ TopicOf(query[row.by]) = k /\ pc[row.by] \in Answered \cup Final
      BY <2>2, <2>3, <2>5 DEF RowsVouched, PastInv, Past
    <2>7. row.answer \in Accepted /\ row.expires - row.created = query[row.by].ttl
      BY <2>6 DEF Vouches, MeetsRequirements
    <2>8. row.expires \in Int /\ row.created \in Int
      BY <2>3 DEF Row
    <2>9. query[row.by].namespace = k.namespace /\ query[row.by].text = k.text
      BY <2>6 DEF TopicOf
    <2>10. Vouches(row.by, row)' /\ pc'[row.by] \in Answered \cup Final
      BY <2>5, <2>6, Standing
    <2>11. at - row.created < query[row.by].ttl
      BY <1>2, <2>4, <2>7, <2>8
    <2> QED
      BY <1>1, <2>2, <2>3, <2>4, <2>5, <2>7, <2>9, <2>10, <2>11 DEF Faithful, Past
  <1> QED
    BY <1>3, <1>4

LEMMA HitStays ==
  ASSUME IInv, [Next]_vars, NEW u \in Unit, outcome[u] # "miss",
         outcome'[u] = outcome[u], hit'[u] = hit[u], answer'[u] = answer[u], query'[u] = query[u],
         NEW row, row = hit'[u].row, NEW at, at = hit'[u].at
  PROVE  Faithful(u, row, at)' /\ Past(row)'
  <1>1. Faithful(u, row, at) /\ Past(row)
    BY DEF IInv, HitsFaithful, Faithful, PastInv
  <1>2. row.by \in Unit \cup {None}
    BY DEF IInv, UnitInv, UnitOK, Found, Row
  <1>3. ASSUME row.by # None
        PROVE  /\ Vouches(row.by, row)' /\ pc'[row.by] \in Answered \cup Final
               /\ query'[row.by] = query[row.by]
    BY <1>1, <1>2, <1>3, Standing DEF Faithful, Past
  <1> QED
    BY <1>1, <1>3 DEF Faithful, Past

LEMMA HitsStep ==
  IInv /\ [Next]_vars =>
    HitsFaithful' /\ (\A u \in Unit : outcome[u] # "miss" => Past(hit[u].row))'
  <1> SUFFICES ASSUME IInv, [Next]_vars, NEW u \in Unit, outcome'[u] # "miss"
               PROVE  Faithful(u, hit[u].row, hit[u].at)' /\ Past(hit[u].row)'
    BY DEF HitsFaithful, Faithful
  <1>1. PICK row : row = hit'[u].row
    OBVIOUS
  <1>2. PICK at : at = hit'[u].at
    OBVIOUS
  <1>3. Faithful(u, row, at)' /\ Past(row)'
    BY <1>1, <1>2, HitCases, HitMade, HitStays
  <1> QED
    BY <1>1, <1>2, <1>3 DEF Faithful, Past, Vouches, MeetsRequirements, Required
-----------------------------------------------------------------------------
LEMMA InitInv == Init => IInv
  <1> SUFFICES ASSUME Init PROVE IInv
    OBVIOUS
  <1> USE DEF Init, CacheInit
  <1>1. TypeOK
    BY BoundAssumption, EmptyType DEF TypeOK, CacheTypeOK, Mode, Outcome
  <1>2. UnitInv
    BY EmptyType DEF UnitInv, UnitOK, Early, Asking, Answered
  <1>3. PastInv /\ RowsVouched /\ HitsFaithful
    BY DEF PastInv, RowsVouched, HitsFaithful
  <1> QED
    BY <1>1, <1>2, <1>3 DEF IInv

LEMMA StepInv == IInv /\ [Next]_vars => IInv'
  BY TypeStep, UnitStep, RowsStep, HitsStep DEF IInv, PastInv

(* The invariant of the argument above, for every instance.                *)
THEOREM Invariance == Spec => []IInv
  BY InitInv, StepInv, PTL DEF Spec

(* Every variable has its type.                                            *)
THEOREM TypeCorrect == Spec => []TypeOK
  <1>1. IInv => TypeOK
    BY DEF IInv
  <1> QED
    BY <1>1, Invariance, PTL

(* No handler puts an answer into a cache that the verifiers its policy    *)
(* demands did not accept.                                                 *)
THEOREM AlwaysRowsVouched == Spec => []RowsVouched
  <1>1. IInv => RowsVouched
    BY DEF IInv
  <1> QED
    BY <1>1, Invariance, PTL

(* Every answer from a cache is one that somebody stands for, and is young *)
(* enough, whatever the handlers, clients and the clock do meanwhile.      *)
THEOREM HitsAlwaysFaithful == Spec => []HitsFaithful
  <1>1. IInv => HitsFaithful
    BY DEF IInv
  <1> QED
    BY <1>1, Invariance, PTL

-----------------------------------------------------------------------------
(* A handler that is about to delete a row has read one that could not be  *)
(* served: it had expired, or its verifier rejects it.                     *)
Unservable(row) == row.expires <= now \/ row.answer \notin Accepted

DropInv ==
  \A u \in Unit : pc[u] = "drop" => hit[u] \in Found /\ Unservable(hit[u].row)

LEMMA ClockAdvances == CacheTypeOK /\ [Next]_vars => now' \in Int /\ now <= now'
  <1> SUFFICES ASSUME CacheTypeOK, [Next]_vars PROVE now' \in Int /\ now <= now'
    OBVIOUS
  <1> USE DEF CacheTypeOK, cacheVars
  <1>1. ASSUME NEW u \in Unit, Step(u) PROVE now' = now
    <2> USE <1>1
    <2>1. CASE Audits(u)
      BY <2>1 DEF Audits, AuditsAs
    <2>2. CASE StorePlan(u) \/ LookUpMiss(u) \/ LookUpHit(u) \/ LookUpStale(u) \/ Drop(u)
               \/ SearchHit(u) \/ SearchMiss(u) \/ \E k \in Topic : Purge(u, k)
      BY <2>2 DEF StorePlan, LookUpMiss, LookUpHit, LookUpStale, Drop, SearchHit, SearchMiss, Purge
    <2>3. CASE Call(u) \/ CallFallback(u) \/ Refuse(u) \/ RequirementFails(u)
               \/ KeepExact(u) \/ KeepSemantic(u) \/ RecordFeedback(u) \/ StoreManifest(u)
      BY <2>3 DEF Call, CallFallback, Ask, Refuse, RequirementFails, KeepExact, KeepSemantic,
                  RecordFeedback, StoreManifest
    <2> QED
      BY <2>1, <2>2, <2>3, AuditCases DEF Step
  <1>2. ASSUME NEW u \in Unit, Act(u) PROVE now' = now
    BY <1>1, <1>2 DEF Act, Stop, Begin
  <1>3. CASE Environment
    BY <1>3 DEF Environment, Tick, StoreByClient
  <1> QED
    BY <1>2, <1>3, NextCases

(* What could not be served when it was read can never be served again.    *)
LEMMA DropStep == IInv /\ DropInv /\ [Next]_vars => DropInv'
  <1> SUFFICES ASSUME IInv, DropInv, [Next]_vars, NEW u \in Unit, pc'[u] = "drop"
               PROVE  hit'[u] \in Found /\ Unservable(hit[u].row)'
    BY DEF DropInv
  <1> TypeOK /\ CacheTypeOK /\ UnitOK(u)
    BY DEF IInv, UnitInv, TypeOK
  <1> USE DEF TypeOK, Goto, Quit, evaluated, reply, records
  <1>1. (pc[u] = "drop" /\ hit'[u] = hit[u]) \/ LookUpStale(u)
    <2>1. CASE Same(u)
      BY <2>1 DEF Same
    <2>2. CASE Audits(u)
      BY <2>2 DEF Audits, AuditsAs
    <2>3. ASSUME NEW k \in Topic, Purge(u, k) PROVE pc[u] = "drop" /\ hit'[u] = hit[u]
      BY <2>3 DEF Purge
    <2>4. CASE (\E q \in Query, m \in Mode : Begin(u, q, m)) \/ Stop(u) \/ StorePlan(u)
               \/ LookUpMiss(u) \/ LookUpHit(u) \/ Drop(u) \/ SearchHit(u) \/ SearchMiss(u)
      BY <2>4 DEF Begin, Stop, StorePlan, LookUpMiss, LookUpHit, Drop, SearchHit, SearchMiss
    <2>5. CASE Call(u) \/ CallFallback(u) \/ Refuse(u) \/ RequirementFails(u)
               \/ KeepExact(u) \/ KeepSemantic(u) \/ RecordFeedback(u) \/ StoreManifest(u)
      BY <2>5 DEF Call, CallFallback, Ask, Refuse, RequirementFails, KeepExact, KeepSemantic,
                  RecordFeedback, StoreManifest
    <2> QED
      BY <2>1, <2>2, <2>3, <2>4, <2>5, OneActs, AuditCases DEF Act, Step
  <1>2. CASE pc[u] = "drop" /\ hit'[u] = hit[u]
    <2>1. hit[u] \in Found /\ Unservable(hit[u].row) /\ hit[u].row.expires \in Int
      BY <1>2 DEF DropInv, Found, Row
    <2>2. now \in Int /\ now' \in Int /\ now <= now'
      BY ClockAdvances DEF CacheTypeOK
    <2> QED
      BY <1>2, <2>1, <2>2 DEF Unservable
  <1>3. CASE LookUpStale(u)
    <2>1. query[u] \in Query /\ exact[query[u]] \in Row
      BY <1>3 DEF LookUpStale, MatchesExactly, CacheTypeOK, UnitOK
    <2>2. hit'[u] = [row |-> exact[query[u]], at |-> now] /\ now' = now
      BY <1>3 DEF LookUpStale, cacheVars
    <2>3. hit'[u] \in Found
      BY <2>1, <2>2 DEF Found, CacheTypeOK
    <2>4. Expired(exact[query[u]]) \/ exact[query[u]].answer \notin Accepted
      BY <1>3 DEF LookUpStale, Rejects
    <2> QED
      BY <2>2, <2>3, <2>4 DEF Unservable, Expired
  <1> QED
    BY <1>1, <1>2, <1>3

(* A row disappears from the exact cache only by a handler's delete.       *)
LEMMA ExactGone ==
  ASSUME IInv, [Next]_vars, NEW q \in Query, exact[q] # None, exact'[q] = None
  PROVE  \E u \in Unit : pc[u] = "drop" /\ query[u] = q
  <1> TypeOK /\ CacheTypeOK
    BY DEF IInv, TypeOK
  <1> USE DEF CacheTypeOK, cacheVars
  <1>1. ASSUME NEW u \in Unit, KeepExact(u) PROVE FALSE
    <2>1. OwnRow(u) \in Row
      <3>1. answer[u] \in Accepted /\ pc[u] # "idle"
        BY <1>1 DEF KeepExact, MayKeep, MeetsRequirements
      <3> QED
        BY <3>1, OwnRowType DEF IInv
    <2> QED
      BY RowAssumption, <1>1, <2>1 DEF KeepExact, PutExact
  <1>2. ASSUME NEW u \in Unit, Drop(u) PROVE pc[u] = "drop" /\ query[u] = q
    BY <1>2 DEF Drop, DeleteExact
  <1>3. ASSUME NEW v \in ClientValue, StoreByClient(v) PROVE FALSE
    BY RowAssumption, <1>3, ClientRowType DEF StoreByClient, PutExact
  <1>4. ASSUME NEW u \in Unit, Act(u), ~KeepExact(u), ~Drop(u) PROVE exact' = exact
    <2> USE <1>4
    <2>1. CASE Audits(u)
      BY <2>1 DEF Audits, AuditsAs
    <2>2. CASE (\E n \in Query, m \in Mode : Begin(u, n, m)) \/ Stop(u)
      BY <2>2 DEF Begin, Stop
    <2>3. CASE StorePlan(u) \/ LookUpMiss(u) \/ LookUpHit(u) \/ LookUpStale(u)
      BY <2>3 DEF StorePlan, LookUpMiss, LookUpHit, LookUpStale
    <2>4. CASE SearchHit(u) \/ SearchMiss(u) \/ \E k \in Topic : Purge(u, k)
      BY <2>4 DEF SearchHit, SearchMiss, Purge
    <2>5. CASE Call(u) \/ CallFallback(u) \/ Refuse(u) \/ RequirementFails(u)
      BY <2>5 DEF Call, CallFallback, Ask, Refuse, RequirementFails
    <2>6. CASE KeepSemantic(u) \/ RecordFeedback(u) \/ StoreManifest(u)
      BY <2>6 DEF KeepSemantic, RecordFeedback, StoreManifest
    <2> QED
      BY <2>1, <2>2, <2>3, <2>4, <2>5, <2>6, AuditCases DEF Act, Step
  <1>5. CASE Environment
    BY <1>3, <1>5 DEF Environment, Tick
  <1> QED
    BY <1>1, <1>2, <1>4, <1>5, NextCases

(* An answer that could still be served is deleted from the exact cache    *)
(* only where a handler had read another one under its key.                *)
THEOREM FreshRowsAlwaysKept == Spec => FreshRowsKept
  <1> DEFINE Kept ==
        \A q \in Query :
          LET row == exact[q]
          IN row # None /\ row.expires > now /\ row.answer \in Accepted /\ exact'[q] = None =>
               \E u \in Unit : pc[u] = "drop" /\ query[u] = q /\ hit[u].row # row
  <1>1. Init => DropInv
    BY DEF Init, DropInv
  <1>2. IInv /\ DropInv /\ [Next]_vars => [Kept]_vars
    <2> SUFFICES ASSUME IInv, DropInv, [Next]_vars, NEW q \in Query, exact[q] # None,
                        exact[q].expires > now, exact[q].answer \in Accepted, exact'[q] = None
                 PROVE  \E u \in Unit : pc[u] = "drop" /\ query[u] = q /\ hit[u].row # exact[q]
      OBVIOUS
    <2>1. PICK u \in Unit : pc[u] = "drop" /\ query[u] = q
      BY ExactGone
    <2>2. exact[q].expires \in Int /\ now \in Int
      BY DEF IInv, TypeOK, CacheTypeOK, Row
    <2>3. Unservable(hit[u].row)
      BY <2>1 DEF DropInv
    <2> QED
      BY <2>1, <2>2, <2>3 DEF Unservable
  <1> QED
    BY Invariance, DropStep, <1>1, <1>2, PTL DEF Spec, FreshRowsKept

-----------------------------------------------------------------------------
(* What the ledger has of a unit at each label, event by event.            *)
Opens(s) ==
  s[1] = "work_unit.received" /\ s[2] = "policy.evaluated" /\ s[3] = "plan.created"

(* The events of a request that missed the caches, without and with the    *)
(* fallback, as far as n.                                                  *)
Missed(s, n) ==
  /\ Opens(s)
  /\ \/ /\ Len(s) = n
        /\ n > 3 => s[4] = "cache.exact.miss"
        /\ n > 4 => s[5] = "ai.model.routed"
     \/ /\ Len(s) = n + 1 /\ s[4] = "ai.fallback.invoked"
        /\ n > 3 => s[5] = "cache.exact.miss"
        /\ n > 4 => s[6] = "ai.model.routed"

(* All of its events but the manifest's.                                   *)
Accounted(s, result) ==
  CASE result = "exact_hit" -> Opens(s) /\ Len(s) = 4 /\ s[4] = "cache.exact.hit"
    [] result = "semantic_hit" -> Opens(s) /\ Len(s) = 4 /\ s[4] = "ai.semantic_cache.accepted"
    [] OTHER -> Missed(s, 5)

Looking == {"lookup", "drop", "search", "call", "fallback", "hit", "accept"}

StoryOK(u) ==
  LET s == trail[u]
  IN /\ pc[u] \in {"idle", "receive"} => Len(s) = 0
     /\ pc[u] = "evaluate" => Len(s) = 1 /\ s[1] = "work_unit.received"
     /\ pc[u] \in {"plan", "planned"} =>
          Len(s) = 2 /\ s[1] = "work_unit.received" /\ s[2] = "policy.evaluated"
     /\ pc[u] \in Looking => Opens(s) /\ Len(s) = 3
     /\ pc[u] = "retry" => Opens(s) /\ Len(s) = 4 /\ s[4] = "ai.fallback.invoked"
     /\ pc[u] \in {"keep", "keepSemantic", "miss"} => Missed(s, 3)
     /\ pc[u] = "routed" => Missed(s, 4)
     /\ pc[u] = "feedback" => Missed(s, 5)
     /\ pc[u] \in {"verify", "written"} => Accounted(s, outcome[u])
     /\ pc[u] = "served" => s = ServedTrail(u)

(* What the other stores have of it.                                       *)
RecordsOK(u) ==
  /\ pc[u] = "hit" => outcome[u] = "exact_hit"
  /\ pc[u] = "accept" => outcome[u] = "semantic_hit"
  /\ outcome[u] # "miss" => mode[u] = "enforce"
  /\ pc[u] \in {"hit", "accept", "verify", "written", "served"} => u \in plans
  /\ pc[u] \notin {"verify", "written", "served", "over"} => u \notin feedback
  /\ pc[u] \in {"verify", "written", "served"} => (outcome[u] = "miss" <=> u \in feedback)
  /\ pc[u] \in {"written", "served"} =>
       /\ manifests[u] # None /\ manifests[u].cache = outcome[u]
       /\ manifests[u].fallback = FallbackUsed(u)

StoryInv == \A u \in Unit : StoryOK(u) /\ RecordsOK(u)

LEMMA SequencesEqual ==
  ASSUME NEW S, NEW s \in Seq(S), NEW t \in Seq(S), Len(s) = Len(t),
         \A i \in 1..Len(s) : s[i] = t[i]
  PROVE  s = t
  OBVIOUS

(* An event more: what was there stays where it is.                        *)
LEMMA AppendPlaces ==
  ASSUME NEW s \in Seq(Event), NEW e \in Event, NEW t, t = Append(s, e)
  PROVE  /\ t \in Seq(Event) /\ Len(t) = Len(s) + 1 /\ t[Len(s) + 1] = e
         /\ \A i \in 1..Len(s) : t[i] = s[i]
  OBVIOUS

(* Only the step of a unit touches its feedback.                           *)
LEMMA OthersFeedback ==
  ASSUME TypeOK, [Next]_vars, NEW u \in Unit
  PROVE  (Same(u) /\ (u \in feedback' <=> u \in feedback)) \/ Act(u)
  <1>1. ASSUME NEW v \in Unit, v # u, Act(v) PROVE u \in feedback' <=> u \in feedback
    <2> USE <1>1 DEF records
    <2>1. CASE Audits(v)
      BY <2>1 DEF Audits, AuditsAs
    <2>2. CASE (\E q \in Query, m \in Mode : Begin(v, q, m)) \/ Stop(v) \/ StorePlan(v)
               \/ LookUpMiss(v) \/ LookUpHit(v) \/ LookUpStale(v) \/ Drop(v)
      BY <2>2 DEF Begin, Stop, StorePlan, LookUpMiss, LookUpHit, LookUpStale, Drop
    <2>3. CASE SearchHit(v) \/ SearchMiss(v) \/ (\E k \in Topic : Purge(v, k)) \/ Call(v)
               \/ CallFallback(v) \/ Refuse(v) \/ RequirementFails(v)
      BY <2>3 DEF SearchHit, SearchMiss, Purge, Call, CallFallback, Ask, Refuse, RequirementFails
    <2>4. CASE KeepExact(v) \/ KeepSemantic(v) \/ RecordFeedback(v) \/ StoreManifest(v)
      BY <2>4 DEF KeepExact, KeepSemantic, RecordFeedback, StoreManifest
    <2> QED
      BY <2>1, <2>2, <2>3, <2>4, AuditCases DEF Act, Step
  <1>2. CASE UNCHANGED <<pc, evaluated, reply, records, stopped>>
    BY <1>2 DEF Same, evaluated, reply, records
  <1> QED
    BY <1>1, <1>2, Others, NextCases

(* Whether the fallback was used is told by the trail alone.               *)
LEMMA FallbackTold ==
  ASSUME TypeOK, NEW u \in Unit, NEW s, s = trail[u], Opens(s)
  PROVE  /\ Len(s) = 4 /\ s[4] \in {"cache.exact.hit", "ai.semantic_cache.accepted"} =>
              ~FallbackUsed(u)
         /\ Len(s) = 5 /\ s[4] = "cache.exact.miss" /\ s[5] = "ai.model.routed" => ~FallbackUsed(u)
         /\ Len(s) = 6 /\ s[4] = "ai.fallback.invoked" => FallbackUsed(u)
  <1>1. s \in Seq(Event) /\ DOMAIN s = 1..Len(s)
    BY DEF TypeOK
  <1>2. FallbackUsed(u) <=> \E i \in 1..Len(s) : s[i] = "ai.fallback.invoked"
    BY <1>1 DEF FallbackUsed, ToSet
  <1>3. CASE Len(s) = 4
    BY <1>2, <1>3 DEF Opens
  <1>4. CASE Len(s) = 5
    BY <1>2, <1>4 DEF Opens
  <1>5. CASE Len(s) = 6
    BY <1>2, <1>5 DEF Opens
  <1> QED
    BY <1>3, <1>4, <1>5

(* A trail that opens a request and goes on with m, and then the manifest. *)
LEMMA TrailEnds ==
  ASSUME NEW m \in Seq(Event), NEW s \in Seq(Event), Opens(s), Len(s) = 3 + Len(m),
         \A i \in 1..Len(m) : s[3 + i] = m[i]
  PROVE  Append(s, "manifest.written")
           = <<"work_unit.received", "policy.evaluated", "plan.created">> \o m \o <<"manifest.written">>
  <1> DEFINE open == <<"work_unit.received", "policy.evaluated", "plan.created">>
             end == <<"manifest.written">>
  <1>1. /\ open \in Seq(Event) /\ Len(open) = 3 /\ end \in Seq(Event) /\ Len(end) = 1
        /\ open[1] = s[1] /\ open[2] = s[2] /\ open[3] = s[3] /\ end[1] = "manifest.written"
    BY DEF Event, Opens
  <1>2. "manifest.written" \in Event
    BY DEF Event
  <1> HIDE DEF open, end
  <1>3. /\ open \o m \in Seq(Event) /\ Len(open \o m) = 3 + Len(m)
        /\ \A i \in 1..3 + Len(m) : (open \o m)[i] = s[i]
    <2>1. /\ open \o m \in Seq(Event) /\ Len(open \o m) = 3 + Len(m)
          /\ \A i \in 1..3 + Len(m) : (open \o m)[i] = IF i <= 3 THEN open[i] ELSE m[i - 3]
      <3>1. /\ open \o m \in Seq(Event) /\ Len(open \o m) = Len(open) + Len(m)
            /\ \A i \in 1..Len(open) + Len(m) :
                 (open \o m)[i] = IF i <= Len(open) THEN open[i] ELSE m[i - Len(open)]
        BY <1>1, ConcatProperties
      <3> QED
        BY <1>1, <3>1
    <2>2. \A i \in 1..3 + Len(m) : ~(i <= 3) => i - 3 \in 1..Len(m) /\ 3 + (i - 3) = i
      OBVIOUS
    <2>3. \A i \in 1..3 + Len(m) : i <= 3 => i = 1 \/ i = 2 \/ i = 3
      OBVIOUS
    <2> QED
      BY <1>1, <2>1, <2>2, <2>3
  <1>4. open \o m = s
    BY <1>3, SequencesEqual
  <1>5. Append(s, "manifest.written") = s \o end
    <2>1. /\ s \o end \in Seq(Event) /\ Len(s \o end) = Len(s) + 1
          /\ \A i \in 1..Len(s) + 1 : (s \o end)[i] = IF i <= Len(s) THEN s[i] ELSE end[i - Len(s)]
      <3>1. /\ s \o end \in Seq(Event) /\ Len(s \o end) = Len(s) + Len(end)
            /\ \A i \in 1..Len(s) + Len(end) :
                 (s \o end)[i] = IF i <= Len(s) THEN s[i] ELSE end[i - Len(s)]
        BY <1>1, ConcatProperties
      <3> QED
        BY <1>1, <3>1
    <2>2. PICK t : t = Append(s, "manifest.written")
      OBVIOUS
    <2>3. /\ t \in Seq(Event) /\ Len(t) = Len(s) + 1 /\ t[Len(s) + 1] = "manifest.written"
          /\ \A i \in 1..Len(s) : t[i] = s[i]
      BY <1>2, <2>2, AppendPlaces
    <2>4. (s \o end)[Len(s) + 1] = "manifest.written" /\ \A i \in 1..Len(s) : (s \o end)[i] = s[i]
      BY <1>1, <2>1
    <2>5. \A i \in 1..Len(s) + 1 : i \in 1..Len(s) \/ i = Len(s) + 1
      OBVIOUS
    <2>6. \A i \in 1..Len(t) : t[i] = (s \o end)[i]
      BY <2>3, <2>4, <2>5
    <2> QED
      BY <2>1, <2>2, <2>3, <2>6, SequencesEqual
  <1> QED
    BY <1>4, <1>5 DEF open, end

(* With the manifest's event the trail is what ServedAccounted expects.    *)
LEMMA ServedTrailEnds ==
  ASSUME TypeOK, NEW u \in Unit, Accounted(trail[u], outcome[u])
  PROVE  Append(trail[u], "manifest.written") =
           <<"work_unit.received", "policy.evaluated", "plan.created">>
             \o (CASE outcome[u] = "exact_hit" -> <<"cache.exact.hit">>
                   [] outcome[u] = "semantic_hit" -> <<"ai.semantic_cache.accepted">>
                   [] FallbackUsed(u) -> <<"ai.fallback.invoked", "cache.exact.miss", "ai.model.routed">>
                   [] OTHER -> <<"cache.exact.miss", "ai.model.routed">>)
             \o <<"manifest.written">>
  <1> DEFINE s == trail[u]
             open == <<"work_unit.received", "policy.evaluated", "plan.created">>
             end == <<"manifest.written">>
             middle == CASE outcome[u] = "exact_hit" -> <<"cache.exact.hit">>
                         [] outcome[u] = "semantic_hit" -> <<"ai.semantic_cache.accepted">>
                         [] FallbackUsed(u) ->
                              <<"ai.fallback.invoked", "cache.exact.miss", "ai.model.routed">>
                         [] OTHER -> <<"cache.exact.miss", "ai.model.routed">>
  <1>1. s \in Seq(Event) /\ Opens(s) /\ outcome[u] \in {"miss", "exact_hit", "semantic_hit"}
    BY DEF TypeOK, Accounted, Missed, Outcome
  <1>2. /\ middle \in Seq(Event) /\ Len(s) = 3 + Len(middle)
        /\ \A i \in 1..Len(middle) : s[3 + i] = middle[i]
    <2>1. CASE outcome[u] = "exact_hit"
      <3>1. Len(s) = 4 /\ s[4] = "cache.exact.hit"
        BY <2>1 DEF Accounted
      <3>2. middle = <<"cache.exact.hit">>
        <4>1. ~FallbackUsed(u)
          BY <1>1, <3>1, FallbackTold
        <4> QED
          BY <2>1, <4>1
      <3> HIDE DEF middle
      <3> QED
        BY <3>1, <3>2 DEF Event
    <2>2. CASE outcome[u] = "semantic_hit"
      <3>1. Len(s) = 4 /\ s[4] = "ai.semantic_cache.accepted"
        BY <2>2 DEF Accounted
      <3>2. middle = <<"ai.semantic_cache.accepted">>
        <4>1. ~FallbackUsed(u)
          BY <1>1, <3>1, FallbackTold
        <4> QED
          BY <2>2, <4>1
      <3> HIDE DEF middle
      <3> QED
        BY <3>1, <3>2 DEF Event
    <2>3. CASE outcome[u] = "miss"
      <3>1. Missed(s, 5)
        BY <2>3 DEF Accounted
      <3>2. CASE Len(s) = 5
        <4>1. s[4] = "cache.exact.miss" /\ s[5] = "ai.model.routed"
          BY <3>1, <3>2 DEF Missed
        <4>2. ~FallbackUsed(u)
          BY <1>1, <3>2, <4>1, FallbackTold
        <4>3. middle = <<"cache.exact.miss", "ai.model.routed">>
          BY <2>3, <4>2
        <4> HIDE DEF middle
        <4> QED
          BY <3>2, <4>1, <4>3 DEF Event
      <3>3. CASE Len(s) = 6
        <4>1. /\ s[4] = "ai.fallback.invoked" /\ s[5] = "cache.exact.miss"
              /\ s[6] = "ai.model.routed"
          BY <3>1, <3>3 DEF Missed
        <4>2. FallbackUsed(u)
          BY <1>1, <3>3, <4>1, FallbackTold
        <4>3. middle = <<"ai.fallback.invoked", "cache.exact.miss", "ai.model.routed">>
          BY <2>3, <4>2
        <4> HIDE DEF middle
        <4> QED
          BY <3>3, <4>1, <4>3 DEF Event
      <3> QED
        BY <3>1, <3>2, <3>3 DEF Missed
    <2> QED
      BY <1>1, <2>1, <2>2, <2>3
  <1> HIDE DEF middle
  <1>3. Append(s, "manifest.written") = open \o middle \o end
    BY <1>1, <1>2, TrailEnds
  <1> QED
    BY <1>3 DEF middle

(* A unit of which nothing changes that this account is about.             *)
LEMMA SameStory ==
  ASSUME TypeOK, NEW u \in Unit, StoryOK(u), RecordsOK(u),
         pc'[u] = pc[u], outcome'[u] = outcome[u], mode'[u] = mode[u], trail'[u] = trail[u],
         manifests'[u] = manifests[u], u \in plans' <=> u \in plans,
         u \in feedback' <=> u \in feedback
  PROVE  StoryOK(u)' /\ RecordsOK(u)'
  <1>1. FallbackUsed(u)' = FallbackUsed(u)
    BY DEF FallbackUsed
  <1>2. ServedTrail(u)' = ServedTrail(u)
    BY <1>1 DEF ServedTrail
  <1>3. StoryOK(u)'
    BY <1>2 DEF StoryOK
  <1>4. RecordsOK(u)'
    BY <1>1 DEF RecordsOK
  <1> QED
    BY <1>3, <1>4

(* A step that adds nothing to the trail.                                  *)
LEMMA QuietStory ==
  ASSUME TypeOK, UnitInv, NEW u \in Unit, StoryOK(u), trail'[u] = trail[u],
         \/ pc[u] = "idle" /\ pc'[u] = "receive"
         \/ pc[u] = "plan" /\ pc'[u] = "planned"
         \/ pc[u] \in Looking /\ pc'[u] \in Looking \cup {"keep"}
         \/ pc[u] = "retry" /\ pc'[u] \in {"keep", "refuse"}
         \/ pc[u] \in {"keep", "keepSemantic"} /\ pc'[u] \in {"keepSemantic", "miss"}
         \/ pc[u] = "feedback" /\ pc'[u] = "verify" /\ outcome'[u] = "miss"
         \/ pc[u] = "verify" /\ pc'[u] = "written" /\ outcome'[u] = outcome[u]
         \/ pc'[u] = "over"
  PROVE  StoryOK(u)'
  BY DEF StoryOK, Looking, Missed, Accounted

(* What goes on a trail that has opened has opened as well.                *)
LEMMA MissedOpens ==
  ASSUME NEW s, Len(s) \in Nat, NEW n \in {3, 4}, Missed(s, n),
         NEW t, \A i \in 1..Len(s) : t[i] = s[i]
  PROVE  Opens(t) /\ Len(s) >= 3
  <1>1. Opens(s) /\ Len(s) >= 3
    BY DEF Missed
  <1>2. t[1] = s[1] /\ t[2] = s[2] /\ t[3] = s[3]
    BY <1>1
  <1> QED
    BY <1>1, <1>2 DEF Opens

(* A step that adds an event.                                              *)
LEMMA AuditStory ==
  ASSUME TypeOK, NEW u \in Unit, StoryOK(u), NEW e \in Event,
         trail' = [trail EXCEPT ![u] = Append(@, e)],
         \/ pc[u] = "receive" /\ e = "work_unit.received" /\ pc'[u] = "evaluate"
         \/ pc[u] = "evaluate" /\ e = "policy.evaluated" /\ pc'[u] = "plan"
         \/ pc[u] = "planned" /\ e = "plan.created" /\ pc'[u] = "lookup"
         \/ pc[u] = "fallback" /\ e = "ai.fallback.invoked" /\ pc'[u] = "retry"
         \/ pc[u] = "miss" /\ e = "cache.exact.miss" /\ pc'[u] = "routed"
         \/ pc[u] = "routed" /\ e = "ai.model.routed" /\ pc'[u] = "feedback"
         \/ pc[u] = "hit" /\ e = "cache.exact.hit" /\ pc'[u] = "verify"
            /\ outcome'[u] = "exact_hit"
         \/ pc[u] = "accept" /\ e = "ai.semantic_cache.accepted" /\ pc'[u] = "verify"
            /\ outcome'[u] = "semantic_hit"
         \/ pc'[u] = "over"
  PROVE  StoryOK(u)'
  <1>1. PICK s \in Seq(Event) : s = trail[u]
    BY DEF TypeOK
  <1>2. PICK t : t = trail'[u]
    OBVIOUS
  <1>3. /\ t \in Seq(Event) /\ Len(t) = Len(s) + 1 /\ t[Len(s) + 1] = e
        /\ \A i \in 1..Len(s) : t[i] = s[i]
    BY <1>1, <1>2, AppendPlaces DEF TypeOK
  <1>4. Len(s) \in Nat
    BY <1>1
  <1>5. CASE pc[u] = "receive" /\ e = "work_unit.received" /\ pc'[u] = "evaluate"
    BY <1>1, <1>2, <1>3, <1>4, <1>5 DEF StoryOK, Looking
  <1>6. CASE pc[u] = "evaluate" /\ e = "policy.evaluated" /\ pc'[u] = "plan"
    BY <1>1, <1>2, <1>3, <1>4, <1>6 DEF StoryOK, Looking
  <1>7. CASE pc[u] = "planned" /\ e = "plan.created" /\ pc'[u] = "lookup"
    <2>1. Len(s) = 2 /\ s[1] = "work_unit.received" /\ s[2] = "policy.evaluated"
      BY <1>1, <1>7 DEF StoryOK
    <2>2. Opens(t) /\ Len(t) = 3
      BY <1>3, <1>7, <2>1 DEF Opens
    <2> QED
      BY <1>2, <1>7, <2>2 DEF StoryOK, Looking
  <1>8. CASE pc[u] = "fallback" /\ e = "ai.fallback.invoked" /\ pc'[u] = "retry"
    <2>1. Opens(s) /\ Len(s) = 3
      BY <1>1, <1>8 DEF StoryOK, Looking
    <2>2. Opens(t) /\ Len(t) = 4 /\ t[4] = "ai.fallback.invoked"
      BY <1>3, <1>8, <2>1 DEF Opens
    <2> QED
      BY <1>2, <1>8, <2>2 DEF StoryOK, Looking
  <1>9. CASE pc[u] = "miss" /\ e = "cache.exact.miss" /\ pc'[u] = "routed"
    <2>1. Missed(s, 3)
      BY <1>1, <1>9 DEF StoryOK
    <2>2. Opens(t) /\ Len(s) >= 3
      BY <1>3, <1>4, <2>1, MissedOpens
    <2>3. Missed(t, 4)
      <3>1. CASE Len(s) = 3
        <4>1. Opens(t) /\ Len(t) = 4 /\ t[4] = "cache.exact.miss"
          BY <1>3, <1>9, <2>2, <3>1
        <4> QED
          BY <4>1 DEF Missed, Opens
      <3>2. CASE Len(s) = 4 /\ s[4] = "ai.fallback.invoked"
        <4>1. Opens(t) /\ Len(t) = 5 /\ t[4] = "ai.fallback.invoked" /\ t[5] = "cache.exact.miss"
          BY <1>3, <1>9, <2>2, <3>2
        <4> QED
          BY <4>1 DEF Missed, Opens
      <3> QED
        BY <2>1, <3>1, <3>2 DEF Missed
    <2> QED
      BY <1>2, <1>9, <2>3 DEF StoryOK, Looking
  <1>10. CASE pc[u] = "routed" /\ e = "ai.model.routed" /\ pc'[u] = "feedback"
    <2>1. Missed(s, 4)
      BY <1>1, <1>10 DEF StoryOK
    <2>2. Opens(t) /\ Len(s) >= 3
      BY <1>3, <1>4, <2>1, MissedOpens
    <2>3. Missed(t, 5)
      <3>1. CASE Len(s) = 4 /\ s[4] = "cache.exact.miss"
        <4>1. /\ Opens(t) /\ Len(t) = 5
              /\ t[4] = "cache.exact.miss" /\ t[5] = "ai.model.routed"
          BY <1>3, <1>10, <2>2, <3>1
        <4> QED
          BY <4>1 DEF Missed, Opens
      <3>2. CASE Len(s) = 5 /\ s[4] = "ai.fallback.invoked" /\ s[5] = "cache.exact.miss"
        <4>1. /\ Opens(t) /\ Len(t) = 6
              /\ t[4] = "ai.fallback.invoked" /\ t[5] = "cache.exact.miss" /\ t[6] = "ai.model.routed"
          BY <1>3, <1>10, <2>2, <3>2
        <4> QED
          BY <4>1 DEF Missed, Opens
      <3> QED
        BY <2>1, <3>1, <3>2 DEF Missed
    <2> QED
      BY <1>2, <1>10, <2>3 DEF StoryOK, Looking
  <1>11. CASE pc[u] = "hit" /\ e = "cache.exact.hit" /\ pc'[u] = "verify"
              /\ outcome'[u] = "exact_hit"
    <2>1. Opens(s) /\ Len(s) = 3
      BY <1>1, <1>11 DEF StoryOK, Looking
    <2>2. Opens(t) /\ Len(t) = 4 /\ t[4] = "cache.exact.hit"
      BY <1>3, <1>11, <2>1 DEF Opens
    <2>3. Accounted(t, "exact_hit")
      BY <2>2 DEF Accounted
    <2> QED
      BY <1>2, <1>11, <2>3 DEF StoryOK, Looking
  <1>12. CASE pc[u] = "accept" /\ e = "ai.semantic_cache.accepted" /\ pc'[u] = "verify"
              /\ outcome'[u] = "semantic_hit"
    <2>1. Opens(s) /\ Len(s) = 3
      BY <1>1, <1>12 DEF StoryOK, Looking
    <2>2. Opens(t) /\ Len(t) = 4 /\ t[4] = "ai.semantic_cache.accepted"
      BY <1>3, <1>12, <2>1 DEF Opens
    <2>3. Accounted(t, "semantic_hit")
      BY <2>2 DEF Accounted
    <2> QED
      BY <1>2, <1>12, <2>3 DEF StoryOK, Looking
  <1>13. CASE pc'[u] = "over"
    BY <1>13 DEF StoryOK, Looking
  <1> QED
    BY <1>5, <1>6, <1>7, <1>8, <1>9, <1>10, <1>11, <1>12, <1>13

(* Each step of a unit keeps the account of it.                            *)
LEMMA StoryStep == IInv /\ StoryInv /\ [Next]_vars => StoryInv'
  <1> SUFFICES ASSUME IInv, StoryInv, [Next]_vars, NEW u \in Unit
               PROVE  StoryOK(u)' /\ RecordsOK(u)'
    BY DEF StoryInv
  <1> TypeOK /\ UnitInv /\ UnitOK(u) /\ StoryOK(u) /\ RecordsOK(u)
    BY DEF IInv, UnitInv, StoryInv
  <1>0. /\ pc \in [Unit -> Pc] /\ outcome \in [Unit -> Outcome] /\ mode \in [Unit -> Mode]
        /\ plans \subseteq Unit /\ trail \in [Unit -> Seq(Event)]
        /\ manifests \in [Unit -> Manifest \cup {None}] /\ feedback \subseteq Unit
    BY DEF TypeOK, Pc, Early, Asking, Answered, Final
  <1> USE DEF Goto, Quit, evaluated, reply, records
  <1>1. CASE Same(u) /\ (u \in feedback' <=> u \in feedback)
    BY <1>1, SameStory DEF Same
  <1>2. ASSUME NEW q \in Query, NEW m \in Mode, Begin(u, q, m)
        PROVE  StoryOK(u)' /\ RecordsOK(u)'
    <2>1. StoryOK(u)'
      BY <1>0, <1>2, QuietStory DEF Begin
    <2>2. outcome'[u] = "miss" /\ pc'[u] \in {"receive", "over"} /\ u \notin feedback'
      BY <1>0, <1>2 DEF Begin, UnitOK, RecordsOK, Early
    <2> QED
      BY <2>1, <2>2 DEF RecordsOK
  <1>3. CASE Stop(u) \/ RequirementFails(u)
    <2>1. StoryOK(u)'
      BY <1>0, <1>3, QuietStory DEF Stop, RequirementFails
    <2>2. /\ pc'[u] = "over" /\ outcome'[u] = outcome[u] /\ mode'[u] = mode[u]
      BY <1>0, <1>3 DEF Stop, RequirementFails
    <2> QED
      BY <2>1, <2>2 DEF RecordsOK
  <1>4. CASE \/ Receive(u) \/ Evaluate(u) \/ PlanCreated(u) \/ FallbackInvoked(u)
             \/ Miss(u) \/ Routed(u)
    <2>1. StoryOK(u)'
      BY <1>0, <1>4, AuditStory
         DEF Receive, Evaluate, PlanCreated, FallbackInvoked, Miss, Routed, AuditStep, Audit, Event
    <2>2. /\ pc[u] \in {"receive", "evaluate", "planned", "fallback", "miss", "routed"}
          /\ pc'[u] \in {"evaluate", "plan", "lookup", "retry", "routed", "feedback"}
          /\ outcome' = outcome /\ mode' = mode /\ feedback' = feedback
      BY <1>0, <1>4
         DEF Receive, Evaluate, PlanCreated, FallbackInvoked, Miss, Routed, AuditStep
    <2> QED
      BY <2>1, <2>2 DEF RecordsOK
  <1>5. CASE ExactHit(u) \/ SemanticHit(u)
    <2>1. StoryOK(u)'
      BY <1>0, <1>5, AuditStory DEF ExactHit, SemanticHit, AuditStep, Audit, Event, RecordsOK
    <2>2. /\ pc[u] \in {"hit", "accept"} /\ pc'[u] = "verify"
          /\ outcome' = outcome /\ mode' = mode /\ feedback' = feedback /\ plans' = plans
      BY <1>0, <1>5 DEF ExactHit, SemanticHit, AuditStep
    <2> QED
      BY <2>1, <2>2 DEF RecordsOK
  <1>6. CASE ManifestWritten(u)
    <2>1. /\ pc[u] = "written" /\ pc'[u] = "served" /\ outcome' = outcome /\ mode' = mode
          /\ feedback' = feedback /\ plans' = plans /\ manifests' = manifests
          /\ trail'[u] = Append(trail[u], "manifest.written")
      BY <1>0, <1>6 DEF ManifestWritten, AuditStep, Audit
    <2>2. FallbackUsed(u)' <=> FallbackUsed(u)
      <3>1. ToSet(trail'[u]) = ToSet(trail[u]) \cup {"manifest.written"}
        BY <1>0, <2>1, AppendType DEF Event
      <3> QED
        BY <3>1 DEF FallbackUsed
    <2>3. FallbackUsed(u)' = FallbackUsed(u)
      BY <2>2 DEF FallbackUsed
    <2>4. Accounted(trail[u], outcome[u])
      BY <2>1 DEF StoryOK
    <2>5. trail'[u] = ServedTrail(u)'
      BY <2>1, <2>3, <2>4, ServedTrailEnds DEF ServedTrail
    <2>6. StoryOK(u)'
      BY <2>1, <2>5 DEF StoryOK, Looking
    <2> QED
      BY <2>1, <2>3, <2>6 DEF RecordsOK
  <1>7. CASE StorePlan(u) \/ LookUpMiss(u) \/ LookUpStale(u) \/ Drop(u) \/ SearchMiss(u)
             \/ Call(u) \/ CallFallback(u) \/ KeepExact(u) \/ KeepSemantic(u)
    <2>1. /\ trail'[u] = trail[u] /\ outcome' = outcome /\ mode' = mode /\ feedback' = feedback
          /\ \/ pc[u] = "plan" /\ pc'[u] = "planned"
             \/ pc[u] \in Looking /\ pc'[u] \in {"search", "drop", "call", "keep", "fallback"}
             \/ pc[u] = "retry" /\ pc'[u] \in {"keep", "refuse"}
             \/ pc[u] \in {"keep", "keepSemantic"} /\ pc'[u] \in {"keepSemantic", "miss"}
      BY <1>0, <1>7
         DEF StorePlan, LookUpMiss, LookUpStale, Drop, SearchMiss, Call, CallFallback, Ask,
             KeepExact, KeepSemantic, Looking
    <2>2. StoryOK(u)'
      BY <2>1, QuietStory DEF Looking
    <2> QED
      BY <2>1, <2>2 DEF RecordsOK, Looking
  <1>8. CASE LookUpHit(u) \/ SearchHit(u)
    <2>1. /\ trail'[u] = trail[u] /\ mode' = mode /\ feedback' = feedback /\ plans' = plans
          /\ pc[u] \in {"lookup", "search"} /\ mode[u] = "enforce"
          /\ \/ pc'[u] = "hit" /\ outcome'[u] = "exact_hit"
             \/ pc'[u] = "accept" /\ outcome'[u] = "semantic_hit"
      BY <1>0, <1>8 DEF LookUpHit, SearchHit, Take, SemanticEnabled, May
    <2>2. StoryOK(u)'
      BY <2>1, QuietStory DEF Looking
    <2>3. u \in plans
      BY <2>1 DEF UnitOK, Asking
    <2> QED
      BY <2>1, <2>2, <2>3 DEF RecordsOK
  <1>9. ASSUME NEW k \in Topic, Purge(u, k) PROVE StoryOK(u)' /\ RecordsOK(u)'
    BY <1>9, SameStory DEF Purge
  <1>10. CASE Refuse(u)
    <2>1. StoryOK(u)'
      BY <1>0, <1>10, AuditStory DEF Refuse, Audit, Event
    <2>2. pc'[u] = "over" /\ outcome' = outcome /\ mode' = mode
      BY <1>0, <1>10 DEF Refuse
    <2> QED
      BY <2>1, <2>2 DEF RecordsOK
  <1>11. CASE RecordFeedback(u)
    <2>1. /\ trail'[u] = trail[u] /\ pc[u] = "feedback" /\ pc'[u] = "verify"
          /\ outcome' = outcome /\ mode' = mode /\ plans' = plans /\ u \in feedback'
      BY <1>0, <1>11 DEF RecordFeedback
    <2>2. outcome[u] = "miss" /\ u \in plans
      BY <2>1 DEF UnitOK, Answered
    <2>3. StoryOK(u)'
      BY <2>1, <2>2, QuietStory
    <2> QED
      BY <2>1, <2>2, <2>3 DEF RecordsOK
  <1>12. CASE StoreManifest(u)
    <2>1. /\ trail' = trail /\ pc[u] = "verify" /\ pc'[u] = "written"
          /\ outcome' = outcome /\ mode' = mode /\ plans' = plans /\ feedback' = feedback
          /\ manifests'[u] = [state |-> IF mode[u] = "enforce" THEN "active" ELSE "planned",
                              cache |-> outcome[u], fallback |-> FallbackUsed(u)]
      BY <1>0, <1>12 DEF StoreManifest
    <2>2. StoryOK(u)'
      BY <2>1, QuietStory
    <2>3. FallbackUsed(u)' = FallbackUsed(u)
      BY <2>1 DEF FallbackUsed
    <2>4. manifests'[u].cache = outcome[u] /\ manifests'[u].fallback = FallbackUsed(u)
      BY <2>1
    <2>5. manifests'[u] # None
      <3>1. PICK used \in BOOLEAN : used = FallbackUsed(u)
        <4>1. FallbackUsed(u) \in BOOLEAN
          BY DEF FallbackUsed
        <4> QED
          BY <4>1
      <3>2. PICK state \in {"active", "planned"} :
              state = IF mode[u] = "enforce" THEN "active" ELSE "planned"
        OBVIOUS
      <3>3. [state |-> state, cache |-> outcome[u], fallback |-> used] \in Manifest
        BY <1>0 DEF Manifest
      <3> QED
        BY <2>1, <3>1, <3>2, <3>3, ManifestAssumption
    <2> QED
      BY <2>1, <2>2, <2>3, <2>4, <2>5 DEF RecordsOK
  <1> QED
    BY <1>1, <1>2, <1>3, <1>4, <1>5, <1>6, <1>7, <1>8, <1>9, <1>10, <1>11, <1>12, OthersFeedback
       DEF Act, Step

(* Nobody gets an answer that plan store, ledger, feedback and manifest    *)
(* store do not account for, in agreement.                                 *)
THEOREM AlwaysServedAccounted == Spec => []ServedAccounted
  <1>1. Init => StoryInv
    <2> SUFFICES ASSUME Init, NEW u \in Unit PROVE StoryOK(u) /\ RecordsOK(u)
      BY DEF StoryInv
    <2> QED
      BY DEF Init, StoryOK, RecordsOK, Looking
  <1>2. StoryInv /\ IInv => ServedAccounted
    <2> SUFFICES ASSUME StoryInv, IInv, NEW u \in Unit, pc[u] = "served"
                 PROVE  /\ u \in plans /\ trail[u] = ServedTrail(u)
                        /\ manifests[u] # None /\ manifests[u].cache = outcome[u]
                        /\ manifests[u].fallback = FallbackUsed(u)
                        /\ outcome[u] = "miss" <=> u \in feedback
                        /\ mode[u] # "enforce" => outcome[u] = "miss"
      BY DEF ServedAccounted
    <2>1. StoryOK(u) /\ RecordsOK(u)
      BY DEF StoryInv
    <2> QED
      BY <2>1 DEF StoryOK, RecordsOK
  <1> QED
    BY Invariance, StoryStep, <1>1, <1>2, PTL DEF Spec
=============================================================================
