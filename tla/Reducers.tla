------------------------------ MODULE Reducers ------------------------------
(***************************************************************************)
(* The advanced reducers (python/urp/advanced.py), the reduction of        *)
(* training data (python/urp/training.py) and the grouping of small files  *)
(* (python/urp/lakehouse.py).  A reducer is off until the kind and the     *)
(* contract of a unit, a flag of its policy context and an accepted        *)
(* verification all speak for it.  Pure operators.                         *)
(***************************************************************************)
EXTENDS Policy

(* required_contract, required_verifier and eligible_kinds; the flag of a  *)
(* reducer has its name here, and no reducer is on by default.             *)
Reducer(contract, verifier, kinds) == [contract |-> contract, verifier |-> verifier, kinds |-> kinds]

ReducerSpecs ==
  [semantic_cache |->
     Reducer("semantic", "source_fingerprint_match", {"prompt_request", "rag_context_pack"}),
   bounded_approximation |->
     Reducer("bounded_approx", "error_bound",
          {"media_asset", "metric_series", "vector_index_segment"}),
   lakehouse_optimizer |->
     Reducer("exact_logical", "snapshot_equivalence",
          {"table_snapshot", "table_row_group", "structured_file"}),
   training_reducer |-> Reducer("semantic", "dataset_lineage", {"training_dataset", "fine_tune_job"}),
   checkpoint_delta |->
     Reducer("exact_bytes", "sha256_restore", {"model_checkpoint", "backup_snapshot"}),
   distillation |->
     Reducer("semantic", "eval_regression_gate",
          {"prompt_request", "evaluation_job", "synthetic_data_job"})]

(* _effective_contract: not the default that policy.py gives these kinds.  *)
EffectiveContract(unit) ==
  CASE unit.requested # None -> unit.requested
    [] unit.requested = None
         /\ unit.kind \in {"prompt_request", "completion_response", "training_dataset"}
       -> "semantic"
    [] OTHER -> "exact_bytes"

Flagged(unit, name) ==
  IF name = "semantic_cache" THEN unit.semanticCache ELSE name \in unit.flags

(* The verifications that come with a unit: [verifier, verdict].  The last *)
(* one of a verifier replaces those before it.                             *)
Verification(results, verifier) ==
  LET last == SelectLastInSeq(results, LAMBDA r : r.verifier = verifier)
  IN  IF last = 0 THEN "missing" ELSE results[last].verdict

(* _policy_gate: the first condition that is not met is the reason.        *)
EvaluateReducer(unit, name, results) ==
  LET spec == ReducerSpecs[name]
      verification == Verification(results, spec.verifier)
      reasons ==
        [kind_not_eligible |-> unit.kind \notin spec.kinds,
         contract_not_eligible |-> EffectiveContract(unit) # spec.contract,
         policy_flag_required |-> ~Flagged(unit, name),
         accepted_verification_required |-> verification = "missing",
         verifier_failed |-> verification = "rejected"]
      order == <<"kind_not_eligible", "contract_not_eligible", "policy_flag_required",
                 "accepted_verification_required", "verifier_failed">>
      first == SelectInSeq(order, LAMBDA reason : reasons[reason])
  IN  IF first = 0 THEN "policy_and_verifier_accepted" ELSE order[first]

(* dedupe_training_samples: samples have ids, their positions here, and    *)
(* are the same when their words are.                                      *)
FirstSeen(words, i) == Min({j \in 1..i : words[j] = words[i]})

DedupeSamples(words) ==
  LET unique == {i \in DOMAIN words : FirstSeen(words, i) = i}
  IN  [unique |-> InOrder(Len(words), unique),
       duplicate |-> [i \in DOMAIN words \ unique |-> FirstSeen(words, i)]]

(* Mutant of SmallFiles: empty files are counted as well.                  *)
SmallOrEmpty(table, partition, target) ==
  {i \in DOMAIN table : table[i].partition = partition /\ table[i].size < target}

SmallFiles(table, partition, target) ==
  {i \in DOMAIN table : /\ table[i].partition = partition
                        /\ 0 < table[i].size /\ table[i].size < target}

Column(table, field) == [i \in DOMAIN table |-> table[i][field]]

(* recommend_compaction (python/urp/lakehouse.py): for each partition with *)
(* enough small files, one group of all of them.                           *)
RecommendCompaction(table, target, least) ==
  LET small(p) == SmallFiles(table, p, target)
      grouped == {p \in {table[i].partition : i \in DOMAIN table} :
                    small(p) # {} /\ Cardinality(small(p)) >= least}
  IN  [p \in grouped |->
         [inputs |-> small(p), size |-> SumAt(Column(table, "size"), small(p)),
          rows |-> SumAt(Column(table, "rows"), small(p)),
          avoided |-> Cardinality(small(p)) - 1]]
=============================================================================
