------------------------------ MODULE Gateway ------------------------------
(***************************************************************************)
(* The AI gateway (python/urp/ai_gateway.py): handle_chat_completion and   *)
(* handle_embeddings serve requests from the exact cache, the semantic     *)
(* cache or a provider, verify every answer, fall back once, and record    *)
(* each work unit in plan store, ledger, route feedback and manifest store *)
(* (handle_completion is handle_chat_completion of one message).           *)
(*                                                                         *)
(* Handlers run in threads of several processes, over tables that          *)
(* AnswerCache describes, while operators activate policies, clients store *)
(* values and time passes.  Every step may be the last of its handler.     *)
(***************************************************************************)
EXTENDS AnswerCache, Sequences, SequencesExt

CONSTANTS
  CanAnswer(_), \* what the provider may answer to a query
  Submitted,    \* the requests that are made, each with its mode
  Policy,       \* policy bundles
  Allows,       \* the optional actions a policy allows
  Demands,      \* the verifiers a policy demands beyond the one of the kind
  Gated,        \* the policies that demand an approval
  Cited         \* the answers with a citation

(* "shadow" is "observe" with manifests in state "superseded".             *)
Mode == {"enforce", "observe"}
Optional == {"exact_cache_lookup", "semantic_cache_lookup", "cache_store"}
Supported(kind) ==
  {"fallback_available", "freshness_check", "source_fingerprint_match", "source_consistency"}
    \cup IF kind = "chat" THEN {"non_empty_text", "answer_citation_check"} ELSE {"embedding_shape"}

ASSUME PolicyAssumption ==
  /\ Allows \in [Policy -> SUBSET Optional]
  /\ Gated \subseteq Policy /\ None \notin Policy
ASSUME ProviderAssumption == \A q \in Query : CanAnswer(q) \subseteq Answer

VARIABLES
  active,    \* the active policy bundle
  pc,        \* where each unit is in its handler
  query,     \* the request of each unit
  mode,      \* "enforce" or "observe"
  under,     \* the policy each unit was evaluated under
  answer,    \* response
  outcome,   \* cache_result
  hit,       \* the cache row it read, and when
  due,       \* the semantic rows it is about to delete
  trail,     \* the ledger's events of each unit
  plans,     \* the units whose plan is in the plan store
  feedback,  \* the units in route_feedback.jsonl
  manifests, \* the compute manifest of each unit
  stopped    \* history: the units that raised or died

evaluated == <<query, mode, under>>
reply == <<answer, outcome, hit, due>>
records == <<trail, plans, feedback, manifests>>
vars == <<cacheVars, active, pc, evaluated, reply, records, stopped>>

Init ==
  /\ CacheInit
  /\ active \in Policy
  /\ pc = [u \in Unit |-> "idle"]
  /\ query = [u \in Unit |-> None]
  /\ mode = [u \in Unit |-> "enforce"]
  /\ under = [u \in Unit |-> None]
  /\ answer = [u \in Unit |-> None]
  /\ outcome = [u \in Unit |-> "miss"]
  /\ hit = [u \in Unit |-> None]
  /\ due = [u \in Unit |-> {}]
  /\ trail = [u \in Unit |-> << >>]
  /\ plans = {} /\ feedback = {} /\ stopped = {}
  /\ manifests = [u \in Unit |-> None]

Goto(u, label) == pc' = [pc EXCEPT ![u] = label]
Audit(u, event) == trail' = [trail EXCEPT ![u] = Append(@, event)]

(* The handler raises, or its process dies.                                *)
Quit(u) == Goto(u, "over") /\ stopped' = stopped \cup {u}

(* Mutant of May: the mode is not asked.                                   *)
MayInAnyMode(u, action) == query[u].ttl > 0 /\ action \in Allows[under[u]]

(* An optional action of the plan that is really taken.                    *)
May(u, action) == mode[u] = "enforce" /\ query[u].ttl > 0 /\ action \in Allows[under[u]]
SemanticEnabled(u) ==
  /\ query[u].kind = "chat" /\ query[u].semantic
  /\ May(u, "semantic_cache_lookup")

Required(u) ==
  Demands[under[u]] \cup {IF query[u].kind = "chat" THEN "non_empty_text" ELSE "embedding_shape"}

(* _verify_required_ai_verifiers, _verify_required_embedding_verifiers:    *)
(* of the supported names only these two are ever checked.                 *)
MeetsRequirements(u) ==
  /\ Required(u) \subseteq Supported(query[u].kind)
  /\ answer[u] \in Accepted
  /\ "answer_citation_check" \in Required(u) /\ query[u].sources # {} => answer[u] \in Cited
-----------------------------------------------------------------------------
(* resolve_active_policy_bundle, evaluate_policy, plan_work_unit and       *)
(* _require_ai_approval, which raises without an event.                    *)
Begin(u, q, m) ==
  /\ pc[u] = "idle"
  /\ query' = [query EXCEPT ![u] = q]
  /\ mode' = [mode EXCEPT ![u] = m]
  /\ under' = [under EXCEPT ![u] = active]
  /\ IF active \in Gated /\ ~q.approved
       THEN Quit(u)
       ELSE Goto(u, "receive") /\ UNCHANGED stopped
  /\ UNCHANGED <<cacheVars, active, reply, records>>

(* A step whose whole effect is a ledger event.                            *)
AuditStep(u, from, event, to) ==
  /\ pc[u] = from
  /\ Audit(u, event)
  /\ Goto(u, to)
  /\ UNCHANGED <<cacheVars, active, evaluated, reply, plans, feedback, manifests, stopped>>

Receive(u) == AuditStep(u, "receive", "work_unit.received", "evaluate")
Evaluate(u) == AuditStep(u, "evaluate", "policy.evaluated", "plan")

StorePlan(u) ==
  /\ pc[u] = "plan"
  /\ plans' = plans \cup {u}
  /\ Goto(u, "planned")
  /\ UNCHANGED <<cacheVars, active, evaluated, reply, trail, feedback, manifests, stopped>>

PlanCreated(u) == AuditStep(u, "planned", "plan.created", "lookup")

(* A chat answer is verified when it is read from the cache; an embedding  *)
(* is not.                                                                 *)
Rejects(u, row) == query[u].kind = "chat" /\ row.answer \notin Accepted

Take(u, row, how) ==
  /\ answer' = [answer EXCEPT ![u] = row.answer]
  /\ outcome' = [outcome EXCEPT ![u] = how]
  /\ hit' = [hit EXCEPT ![u] = [row |-> row, at |-> now]]

(* URPCache.get finds nothing to answer from.                              *)
LookUpMiss(u) ==
  /\ pc[u] = "lookup"
  /\ ~May(u, "exact_cache_lookup") \/ ~MatchesExactly(exact[query[u]], query[u])
  /\ Goto(u, "search")
  /\ UNCHANGED <<cacheVars, active, evaluated, reply, records, stopped>>

LookUpHit(u) ==
  /\ pc[u] = "lookup" /\ May(u, "exact_cache_lookup")
  /\ Gets(exact[query[u]], query[u]) /\ ~Rejects(u, exact[query[u]])
  /\ Take(u, exact[query[u]], "exact_hit")
  /\ Goto(u, "hit")
  /\ UNCHANGED <<cacheVars, active, evaluated, due, records, stopped>>

(* The row has expired, or is rejected: it is deleted by its key, and in   *)
(* another transaction than the one it was read in.                        *)
LookUpStale(u) ==
  /\ pc[u] = "lookup" /\ May(u, "exact_cache_lookup")
  /\ MatchesExactly(exact[query[u]], query[u])
  /\ Expired(exact[query[u]]) \/ Rejects(u, exact[query[u]])
  /\ hit' = [hit EXCEPT ![u] = [row |-> exact[query[u]], at |-> now]]
  /\ Goto(u, "drop")
  /\ UNCHANGED <<cacheVars, active, evaluated, answer, outcome, due, records, stopped>>

Drop(u) ==
  /\ pc[u] = "drop"
  /\ DeleteExact(query[u])
  /\ hit' = [hit EXCEPT ![u] = None]
  /\ Goto(u, "search")
  /\ UNCHANGED <<semantic, now, stores, active, evaluated, answer, outcome, due, records, stopped>>

ExactHit(u) == AuditStep(u, "hit", "cache.exact.hit", "verify")

(* SemanticCache.lookup_hit reads all rows at once, deletes those that have *)
(* expired one by one, and takes the best of the others.  (It would delete *)
(* that one if it were rejected: only accepted answers get there.)         *)
SearchHit(u) ==
  /\ pc[u] = "search" /\ SemanticEnabled(u)
  /\ \E k \in Best(query[u]) : Take(u, semantic[k], "semantic_hit")
  /\ due' = [due EXCEPT ![u] = ExpiredRows(query[u])]
  /\ Goto(u, "accept")
  /\ UNCHANGED <<cacheVars, active, evaluated, records, stopped>>

SearchMiss(u) ==
  /\ pc[u] = "search" /\ (SemanticEnabled(u) => Candidates(query[u]) = {})
  /\ due' = [due EXCEPT ![u] = IF SemanticEnabled(u) THEN ExpiredRows(query[u]) ELSE {}]
  /\ Goto(u, "call")
  /\ UNCHANGED <<cacheVars, active, evaluated, answer, outcome, hit, records, stopped>>

Purge(u, k) ==
  /\ k \in due[u]
  /\ DeleteSemantic(k)
  /\ due' = [due EXCEPT ![u] = @ \ {k}]
  /\ UNCHANGED <<exact, now, stores, active, pc, evaluated, answer, outcome, hit, records, stopped>>

SemanticHit(u) ==
  due[u] = {} /\ AuditStep(u, "accept", "ai.semantic_cache.accepted", "verify")

(* provider.chat, or the local embedding vectors.                          *)
Ask(u, from, accepted, rejected) ==
  /\ pc[u] = from /\ due[u] = {}
  /\ \E a \in CanAnswer(query[u]) :
       /\ answer' = [answer EXCEPT ![u] = a]
       /\ Goto(u, IF a \in Accepted THEN accepted ELSE rejected)
  /\ UNCHANGED <<cacheVars, active, evaluated, outcome, hit, due, records, stopped>>

Call(u) == Ask(u, "call", "keep", "fallback")
FallbackInvoked(u) == AuditStep(u, "fallback", "ai.fallback.invoked", "retry")
CallFallback(u) == Ask(u, "retry", "keep", "refuse")

(* Rejected again: an event, then verifier_failed is raised.               *)
Refuse(u) ==
  /\ pc[u] = "refuse"
  /\ Audit(u, "verifier.failed")
  /\ Quit(u)
  /\ UNCHANGED <<cacheVars, active, evaluated, reply, plans, feedback, manifests>>

(* A verifier the policy demands fails: raised without an event, after the *)
(* provider answered or after the hit was recorded.                        *)
RequirementFails(u) ==
  /\ pc[u] \in {"keep", "verify"} /\ ~MeetsRequirements(u)
  /\ Quit(u)
  /\ UNCHANGED <<cacheVars, active, evaluated, reply, records>>

(* Mutant of MayKeep: only the verifier of the kind.                       *)
AcceptedOnly(u) == answer[u] \in Accepted

MayKeep(u) == MeetsRequirements(u)

OwnRow(u) == NewRow(answer[u], query[u].sources, query[u].ttl, u)

KeepExact(u) ==
  /\ pc[u] = "keep" /\ MayKeep(u)
  /\ IF May(u, "cache_store") THEN PutExact(query[u], OwnRow(u)) ELSE UNCHANGED exact
  /\ Goto(u, "keepSemantic")
  /\ UNCHANGED <<semantic, now, stores, active, evaluated, reply, records, stopped>>

(* Storing for semantic reuse asks for the lookup to be allowed, not for   *)
(* "cache_store".                                                          *)
KeepSemantic(u) ==
  /\ pc[u] = "keepSemantic"
  /\ IF SemanticEnabled(u) THEN PutSemantic(query[u], OwnRow(u)) ELSE UNCHANGED semantic
  /\ Goto(u, "miss")
  /\ UNCHANGED <<exact, now, stores, active, evaluated, reply, records, stopped>>

Miss(u) == AuditStep(u, "miss", "cache.exact.miss", "routed")
Routed(u) == AuditStep(u, "routed", "ai.model.routed", "feedback")

RecordFeedback(u) ==
  /\ pc[u] = "feedback"
  /\ feedback' = feedback \cup {u}
  /\ Goto(u, "verify")
  /\ UNCHANGED <<cacheVars, active, evaluated, reply, trail, plans, manifests, stopped>>

FallbackUsed(u) == "ai.fallback.invoked" \in ToSet(trail[u])

(* The final verification, then the manifest is stored.                    *)
StoreManifest(u) ==
  /\ pc[u] = "verify" /\ MeetsRequirements(u)
  /\ manifests' = [manifests EXCEPT ![u] =
                     [state |-> IF mode[u] = "enforce" THEN "active" ELSE "planned",
                      cache |-> outcome[u], fallback |-> FallbackUsed(u)]]
  /\ Goto(u, "written")
  /\ UNCHANGED <<cacheVars, active, evaluated, reply, trail, plans, feedback, stopped>>

ManifestWritten(u) == AuditStep(u, "written", "manifest.written", "served")

(* Before any step that remains.                                           *)
Stop(u) ==
  /\ pc[u] \notin {"idle", "served", "over"}
  /\ Quit(u)
  /\ due' = [due EXCEPT ![u] = {}]
  /\ UNCHANGED <<cacheVars, active, evaluated, answer, outcome, hit, records>>

Step(u) ==
  \/ Receive(u) \/ Evaluate(u) \/ StorePlan(u) \/ PlanCreated(u)
  \/ LookUpMiss(u) \/ LookUpHit(u) \/ LookUpStale(u) \/ Drop(u) \/ ExactHit(u)
  \/ SearchHit(u) \/ SearchMiss(u) \/ SemanticHit(u) \/ \E k \in Topic : Purge(u, k)
  \/ Call(u) \/ FallbackInvoked(u) \/ CallFallback(u) \/ Refuse(u) \/ RequirementFails(u)
  \/ KeepExact(u) \/ KeepSemantic(u) \/ Miss(u) \/ Routed(u) \/ RecordFeedback(u)
  \/ StoreManifest(u) \/ ManifestWritten(u)

(* PolicyStore's business: here another policy becomes active.             *)
Activate(p) ==
  /\ active' = p /\ p # active
  /\ UNCHANGED <<cacheVars, pc, evaluated, reply, records, stopped>>

Environment ==
  /\ \/ Tick
     \/ \E v \in ClientValue : StoreByClient(v)
  /\ UNCHANGED <<active, pc, evaluated, reply, records, stopped>>

Next ==
  \/ \E u \in Unit :
       Step(u) \/ Stop(u) \/ \E q \in Query, m \in Mode : <<q, m>> \in Submitted /\ Begin(u, q, m)
  \/ \E p \in Policy : Activate(p)
  \/ Environment

Spec == Init /\ [][Next]_vars
-----------------------------------------------------------------------------
Event == {"work_unit.received", "policy.evaluated", "plan.created", "cache.exact.hit",
          "ai.semantic_cache.accepted", "ai.fallback.invoked", "verifier.failed",
          "cache.exact.miss", "ai.model.routed", "manifest.written"}
Outcome == {"miss", "exact_hit", "semantic_hit"}
Manifest == [state : {"active", "planned"}, cache : Outcome, fallback : BOOLEAN]
ASSUME ManifestAssumption == None \notin Manifest

(* Every variable has its type.                                            *)
TypeOK ==
  /\ CacheTypeOK
  /\ active \in Policy
  /\ pc \in [Unit -> {"idle", "receive", "evaluate", "plan", "planned", "lookup", "hit", "drop",
                      "search", "accept", "call", "fallback", "retry", "refuse", "keep",
                      "keepSemantic", "miss", "routed", "feedback", "verify", "written",
                      "served", "over"}]
  /\ query \in [Unit -> Query \cup {None}]
  /\ mode \in [Unit -> Mode]
  /\ under \in [Unit -> Policy \cup {None}]
  /\ answer \in [Unit -> Answer \cup {None}]
  /\ outcome \in [Unit -> Outcome]
  /\ hit \in [Unit -> [row : Row, at : 0..MaxTime] \cup {None}]
  /\ due \in [Unit -> SUBSET Topic]
  /\ trail \in [Unit -> Seq(Event)]
  /\ plans \subseteq Unit /\ feedback \subseteq Unit /\ stopped \subseteq Unit
  /\ manifests \in [Unit -> Manifest \cup {None}]

(* What unit u may be behind: an answer its provider gave, verified as its *)
(* own policy demands, while the plan was on record.  The ledger has its   *)
(* cache.exact.miss, unless u is about to write it or was cut short.       *)
Vouches(u, row) ==
  /\ row.answer = answer[u] /\ outcome[u] = "miss" /\ MeetsRequirements(u)
  /\ row.sources = query[u].sources
  /\ row.expires - row.created = query[u].ttl
  /\ u \in plans /\ "plan.created" \in ToSet(trail[u])
  /\ "verifier.failed" \notin ToSet(trail[u])
  /\ \/ "cache.exact.miss" \in ToSet(trail[u])
     \/ u \in stopped \/ pc[u] \in {"keepSemantic", "miss"}

(* Every row a handler put into a cache is such an answer, whatever became *)
(* of the handler: a rejected answer, and one that a client stored, never  *)
(* gets from a handler into either table.                                  *)
RowsVouched ==
  /\ \A q \in Query : exact[q] # None /\ exact[q].by # None =>
       Vouches(exact[q].by, exact[q]) /\ query[exact[q].by] = q
  /\ \A k \in Topic : semantic[k] # None =>
       /\ semantic[k].by # None
       /\ Vouches(semantic[k].by, semantic[k]) /\ TopicOf(query[semantic[k].by]) = k

(* A request answered from a cache gets what a unit with the same sources  *)
(* was answered and vouches for, younger than the ttl it was stored with;  *)
(* an exact hit comes from an identical request, a semantic one from the   *)
(* same scope and a text that is similar enough.  Concurrent overwriting,  *)
(* deletion and expiry do not change that.                                 *)
HitsFaithful ==
  \A u \in Unit : outcome[u] # "miss" =>
    LET row == hit[u].row
        source == query[row.by]
    IN /\ answer[u] = row.answer /\ row.sources = query[u].sources
       /\ hit[u].at < row.expires
       /\ query[u].kind = "chat" => row.answer \in Accepted
       /\ row.by # None =>
            /\ Vouches(row.by, row)
            /\ hit[u].at - row.created < source.ttl
       /\ outcome[u] = "exact_hit" /\ row.by # None => source = query[u]
       /\ outcome[u] = "semantic_hit" =>
            /\ row.by # None /\ source.namespace = query[u].namespace
            /\ Score(query[u].text, source.text) >= query[u].threshold

(* What the ledger tells of a request that was served by this outcome.     *)
ServedTrail(u) ==
  <<"work_unit.received", "policy.evaluated", "plan.created">>
    \o (CASE outcome[u] = "exact_hit" -> <<"cache.exact.hit">>
          [] outcome[u] = "semantic_hit" -> <<"ai.semantic_cache.accepted">>
          [] FallbackUsed(u) -> <<"ai.fallback.invoked", "cache.exact.miss", "ai.model.routed">>
          [] OTHER -> <<"cache.exact.miss", "ai.model.routed">>)
    \o <<"manifest.written">>

(* Nobody gets an answer before plan, ledger and manifest store account    *)
(* for it, and they agree about where it came from.                        *)
ServedAccounted ==
  \A u \in Unit : pc[u] = "served" =>
    /\ u \in plans /\ trail[u] = ServedTrail(u)
    /\ manifests[u] # None /\ manifests[u].cache = outcome[u]
    /\ manifests[u].fallback = FallbackUsed(u)
    /\ outcome[u] = "miss" <=> u \in feedback
    /\ mode[u] # "enforce" => outcome[u] = "miss"

(* An answer that could still be served is deleted from the exact cache    *)
(* only by a handler that read another row under its key: one that expired *)
(* or was rejected, and was replaced before the delete.                    *)
FreshRowsKept ==
  [][\A q \in Query :
       LET row == exact[q]
       IN row # None /\ row.expires > now /\ row.answer \in Accepted /\ exact'[q] = None =>
            \E u \in Unit : pc[u] = "drop" /\ query[u] = q /\ hit[u].row # row]_vars

(* An exact hit comes from the cache of the policy it is served under:     *)
(* "Safe when: ... same policy" (docs/04, Exact prompt cache).             *)
HitUnderSamePolicy ==
  \A u \in Unit : outcome[u] = "exact_hit" /\ hit[u].row.by # None =>
    under[hit[u].row.by] = under[u]
=============================================================================
