------------------------------- MODULE Policy -------------------------------
(***************************************************************************)
(* evaluate_policy (python/urp/policy.py): from a work unit and a policy   *)
(* bundle, the contract of the unit, the actions it may and may not be     *)
(* given, and the verifiers and the approval it needs.  Pure operators.    *)
(*                                                                         *)
(* A bundle is one that validate_policy_bundle accepts: it has defaults    *)
(* with a contract, and every rule has a match and a contract.  Lists      *)
(* whose order nobody reads are sets.                                      *)
(***************************************************************************)
EXTENDS Common, Loops, FiniteSets, SequencesExt

Contract ==
  {"exact_bytes", "exact_logical", "bounded_approx", "semantic", "derived", "tombstone"}

Strictness ==
  [exact_bytes |-> 0, exact_logical |-> 1, bounded_approx |-> 2, semantic |-> 3,
   derived |-> 4, tombstone |-> 5]

(* Mutant of Stricter: the laxer of the two.                               *)
Laxer(left, right) == IF Strictness[left] >= Strictness[right] THEN left ELSE right

Stricter(left, right) == IF Strictness[left] <= Strictness[right] THEN left ELSE right

(* What Stricter leaves of some contracts, in whatever order.              *)
Strictest(contracts) ==
  CHOOSE contract \in contracts : \A other \in contracts : Stricter(contract, other) = contract

Text == {"prompt_request", "completion_response"}
AI == Text \cup {"embedding_request"}

Requested(unit) ==
  CASE unit.requested # None -> unit.requested
    [] unit.requested = None /\ unit.kind \in AI -> "semantic"
    [] OTHER -> "exact_bytes"

ExactActions ==
  {"hash", "content_defined_chunk", "dedupe_same_tenant", "zstd", "manifest", "verify_restore"}
AnswerVerifier(unit) ==
  IF unit.kind = "embedding_request" THEN "embedding_shape" ELSE "non_empty_text"
EveryModel == {"tiny", "small", "medium", "frontier"}

Decision(contract, allowed, denied, matched, verifiers) ==
  [contract |-> contract, allowed |-> allowed, denied |-> denied, matched |-> matched,
   verifiers |-> verifiers, models |-> EveryModel, approval |-> FALSE]

(* Nothing in a bundle, nor an approval it demands, is looked at.          *)
HeldDecision ==
  Decision("exact_bytes", ExactActions,
           {"semantic_cache", "semantic_cache_lookup", "semantic_summary", "lossy_transcode",
            "delete", "tombstone"},
           {"legal_hold"}, {"sha256_restore"})

(* Without a bundle.                                                       *)
DefaultDecision(unit) ==
  IF unit.kind \in AI /\ Requested(unit) = "semantic"
    THEN LET reuse == IF unit.semanticCache /\ unit.kind \in Text
                        THEN {"semantic_cache_lookup"} ELSE {}
         IN  Decision("semantic",
               {"normalize_prompt", "exact_cache_lookup", "model_route", "verify",
                "cache_store", "compute_manifest"}
                 \cup reuse \cup IF unit.kind \in Text THEN {"context_compile"} ELSE {},
               ({"cross_tenant_cache", "semantic_summary", "lossy_transcode", "delete",
                 "semantic_cache_lookup"}) \ reuse,
               {"ai_request_default"}, {AnswerVerifier(unit)})
    ELSE Decision(Requested(unit), ExactActions \cup {"fixed_chunk"},
           {"semantic_cache", "semantic_cache_lookup", "semantic_summary", "lossy_transcode",
            "cross_tenant_dedupe", "delete"},
           {"global_default"}, {"sha256_restore"})

(* _baseline_policy_controls.                                              *)
BaselineAllowed(unit) ==
  IF unit.kind \in AI THEN {"normalize_prompt", "verify", "compute_manifest"}
                      ELSE ExactActions \cup {"fixed_chunk"}
BaselineDenied(unit) ==
  {"cross_tenant_cache", "cross_tenant_dedupe", "semantic_summary", "lossy_transcode", "delete"}
    \cup IF unit.kind \in Text THEN {} ELSE {"semantic_cache_lookup"}
BaselineVerifier(unit) ==
  IF unit.kind \in AI THEN AnswerVerifier(unit) ELSE "sha256_restore"

Alias ==
  [exact_cache |-> {"exact_cache_lookup", "cache_store"},
   context_dedupe |-> {"context_compile"},
   semantic_cache_enforce |-> {"semantic_cache_lookup"},
   distillation_enforce |-> {"distillation"}]
CanonicalActions(names) ==
  UNION {IF name \in DOMAIN Alias THEN Alias[name] ELSE {name} : name \in names}

(* A match names some of the fields kind, namespace, tenant and tags.      *)
Matches(unit, match) ==
  \A key \in DOMAIN match :
    IF key = "tags"
      THEN \A tag \in DOMAIN match.tags :
             tag \in DOMAIN unit.tags /\ unit.tags[tag] = match.tags[tag]
      ELSE unit[key] = match[key]

(* The positions of the rules that match a unit.                           *)
MatchedRules(unit, bundle) == {i \in DOMAIN bundle.rules : Matches(unit, bundle.rules[i].match)}

(* The contract that was requested is not asked once a rule or the         *)
(* defaults name one.                                                      *)
BundleContract(rules, bundle) ==
  IF rules = {} THEN bundle.contract ELSE Strictest({rule.contract : rule \in rules})

(* What the defaults deny on top.                                          *)
ByDefaultDenied(bundle, contract, explicit) ==
  (IF bundle.semanticReduction = "deny"
        /\ (contract # "semantic" \/ "semantic_cache_lookup" \notin explicit)
     THEN {"semantic_cache_lookup", "semantic_summary"} ELSE {})
  \cup (IF bundle.approximateReduction = "deny" /\ contract # "bounded_approx"
          THEN {"approximate_quantization"} ELSE {})

(* The last matching rule that has a list of models overrides the others.  *)
Models(matched, bundle) ==
  LET listing == {i \in matched : bundle.rules[i].models # {}}
  IN  IF listing = {} THEN bundle.models ELSE bundle.rules[Max(listing)].models

EvaluateBundle(unit, bundle) ==
  LET matched == MatchedRules(unit, bundle)
      rules == {bundle.rules[i] : i \in matched}
      contract == BundleContract(rules, bundle)
      explicit == UNION {CanonicalActions(rule.allow) : rule \in rules}
      denied == BaselineDenied(unit) \cup ByDefaultDenied(bundle, contract, explicit)
                  \cup UNION {CanonicalActions(rule.deny) : rule \in rules}
  IN  [contract |-> contract,
       allowed |-> (BaselineAllowed(unit) \cup explicit) \ denied,
       denied |-> denied,
       matched |-> {"defaults"} \cup {rule.name : rule \in rules},
       verifiers |-> {BaselineVerifier(unit)} \cup UNION {rule.verifiers : rule \in rules},
       models |-> Models(matched, bundle),
       approval |-> \E rule \in rules : rule.requiresApproval]

EvaluatePolicy(unit, bundle) ==
  CASE unit.legalHold -> HeldDecision
    [] ~unit.legalHold /\ bundle = None -> DefaultDecision(unit)
    [] OTHER -> EvaluateBundle(unit, bundle)
=============================================================================
