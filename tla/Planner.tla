------------------------------ MODULE Planner ------------------------------
(***************************************************************************)
(* plan_work_unit (python/urp/planner.py) with the classification of the   *)
(* payload (classifier.py) and the registry of actions                     *)
(* (action_registry.py).  Pure operators; a plan is the sequence of its    *)
(* actions' types, and Refused stands for a ValueError.                    *)
(***************************************************************************)
EXTENDS Policy

CONSTANT Refused

PlanMode == {"observe", "shadow", "enforce"}

(* A payload: its size, whether it starts with the magic number of a       *)
(* compressed format, and whether its entropy is 7.85 bits per byte or     *)
(* more (which takes at least 231 bytes).                                  *)
LikelyEncrypted(payload) == payload.size >= 256 /\ payload.random /\ ~payload.magic
LikelyCompressible(payload) == payload.size > 0 /\ ~payload.random /\ ~payload.magic
-----------------------------------------------------------------------------
ExactContract == {"exact_bytes", "exact_logical", "bounded_approx", "semantic"}

ByteAction ==
  {"hash", "content_defined_chunk", "fixed_chunk", "dedupe_same_tenant", "zstd",
   "dedupe_only_or_exact_store", "store_exact_ciphertext", "store_exact_bytes", "manifest",
   "verify_restore", "rehydrate"}
AIAction ==
  {"normalize_prompt", "exact_cache_lookup", "context_compile", "tool_first_attempt",
   "model_route", "verify", "cache_store", "compute_manifest"}

(* default_action_registry: the contracts an action supports; none when    *)
(* nobody registered it.                                                   *)
SupportedContracts(action) ==
  CASE action \in ByteAction -> ExactContract
    [] action \in AIAction -> {"semantic", "exact_bytes", "exact_logical"}
    [] action \in {"semantic_cache_lookup", "semantic_summary"} -> {"semantic"}
    [] action = "approximate_quantization" -> {"bounded_approx"}
    [] action = "delete" -> {"tombstone"}
    [] OTHER -> {}

(* validate_plan_actions; the list of denied actions it is given is empty  *)
(* in every call, _filter_actions having removed them.                     *)
Validated(contract, plan) == \A i \in DOMAIN plan : contract \in SupportedContracts(plan[i])
-----------------------------------------------------------------------------
Framework == {"hash", "manifest", "verify", "verify_restore", "compute_manifest"}
Storing == {"content_defined_chunk", "fixed_chunk", "store_exact_ciphertext", "store_exact_bytes"}

EmbeddingActions ==
  <<"normalize_prompt", "exact_cache_lookup", "model_route", "verify", "cache_store",
    "compute_manifest">>
PromptActions ==
  <<"normalize_prompt", "exact_cache_lookup", "semantic_cache_lookup", "context_compile",
    "tool_first_attempt", "model_route", "verify", "cache_store", "compute_manifest">>
DataActions(payload) ==
  <<"hash",
    IF LikelyEncrypted(payload) THEN "store_exact_ciphertext" ELSE "content_defined_chunk",
    IF LikelyCompressible(payload) THEN "zstd" ELSE "dedupe_only_or_exact_store",
    "manifest", "verify_restore">>

Candidates(unit) ==
  CASE unit.kind = "embedding_request" -> EmbeddingActions
    [] unit.kind = "prompt_request" -> PromptActions
    [] OTHER -> DataActions(unit.payload)

(* The name an action is allowed by in mode "shadow" is made by adding     *)
(* "_shadow" to its type, so of the names that policies use only           *)
(* model_route_shadow has an effect, and semantic_cache_shadow none.       *)
Kept(action, decision, mode) ==
  /\ action \notin decision.denied
  /\ \/ action \in Framework \cup decision.allowed
     \/ /\ mode = "shadow" /\ action = "model_route"
        /\ "model_route_shadow" \in decision.allowed

(* _filter_actions raises for a safety action the policy denies.           *)
DeniesSafety(unit, decision) ==
  ToSet(Candidates(unit)) \cap Framework \cap decision.denied # {}
Filtered(unit, decision, mode) ==
  LET actions == Candidates(unit)
      kept == InOrder(Len(actions), {i \in DOMAIN actions : Kept(actions[i], decision, mode)})
  IN  [k \in DOMAIN kept |-> actions[kept[k]]]

(* A data plan that stores nothing gets the fallback, whether or not the   *)
(* policy denies it.                                                       *)
WithStorage(unit, plan) ==
  IF unit.kind \in {"embedding_request", "prompt_request"} \/ ToSet(plan) \cap Storing # {}
    THEN plan
    ELSE InsertAt(plan, 2, "store_exact_bytes")

PlanWorkUnit(unit, decision, mode) ==
  LET plan == WithStorage(unit, Filtered(unit, decision, mode))
  IN  IF DeniesSafety(unit, decision) \/ ~Validated(decision.contract, plan)
        THEN Refused ELSE plan
=============================================================================
