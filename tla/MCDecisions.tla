---------------------------- MODULE MCDecisions ----------------------------
(***************************************************************************)
(* Units of every kind of treatment against bundles of up to two rules;    *)
(* jobs at the borders of every comparison; every range of objects of up   *)
(* to five bytes.                                                          *)
(***************************************************************************)
EXTENDS Decisions

NewUnit(kind, namespace, requested, hold, reuse, payload) ==
  [kind |-> kind, namespace |-> namespace, tenant |-> "acme", requested |-> requested,
   legalHold |-> hold, semanticCache |-> reuse, payload |-> payload,
   flags |-> {}, tags |-> [class |-> "ledger"]]

Payload(size, random, magic) == [size |-> size, random |-> random, magic |-> magic]
Plain == Payload(300, FALSE, FALSE)

MCUnit ==
  {NewUnit(kind, "default", requested, hold, FALSE, Plain) :
     kind \in {"byte_object", "prompt_request", "embedding_request"},
     requested \in {None, "exact_bytes", "semantic", "bounded_approx", "derived"},
     hold \in BOOLEAN}
  \cup {NewUnit("byte_object", "team", None, FALSE, FALSE, p) :
          p \in {Payload(0, FALSE, FALSE), Payload(255, TRUE, FALSE),
                 Payload(256, TRUE, FALSE), Payload(256, TRUE, TRUE)}}
  \cup {NewUnit(kind, "team", None, FALSE, TRUE, Plain) : kind \in AI}

Rule(name, match, contract, allow, deny) ==
  [name |-> name, match |-> match, contract |-> contract, allow |-> allow, deny |-> deny,
   verifiers |-> {}, models |-> {}, requiresApproval |-> FALSE]

MCRule == {
  Rule("any-exact", << >>, "exact_bytes", {"zstd"}, {}),
  Rule("any-logical", << >>, "exact_logical", {"context_dedupe", "model_route"}, {"zstd"}),
  [Rule("prompt", [kind |-> "prompt_request"], "semantic",
        {"exact_cache", "semantic_cache_enforce", "model_route"}, {})
     EXCEPT !.verifiers = {"freshness_check"}, !.models = {"small"}],
  [Rule("shadow", [namespace |-> "default"], "semantic",
        {"exact_cache", "model_route_shadow"}, {"semantic_cache_enforce", "model_route"})
     EXCEPT !.requiresApproval = TRUE],
  Rule("ledger", [tags |-> [class |-> "ledger"], tenant |-> "acme"], "exact_bytes", {},
       {"content_defined_chunk", "store_exact_bytes"}),
  Rule("approximate", [namespace |-> "team"], "bounded_approx", {"approximate_quantization"}, {}),
  Rule("expire", [kind |-> "byte_object"], "tombstone", {"delete"}, {}),
  Rule("unverified", << >>, "semantic", {}, {"verify_restore", "compute_manifest"}) }

MCBundle ==
  {None} \cup
  [contract : {"exact_bytes", "semantic"}, semanticReduction : {"allow", "deny"},
   approximateReduction : {"deny"}, models : {EveryModel},
   rules : {<< >>} \cup {<<r>> : r \in MCRule} \cup (MCRule \X MCRule)]

MCJob ==
  [deadline : {None, -1, 0, 59, 60, 120, 121, 180, 181, 960, 961}, runtime : {-1, 0, 60},
   carbon : {None, 80, 81, 101}, maxShift : {None, -1, 0, 60, 120, 86400, 86401},
   forced : BOOLEAN]

(* Every boundary set, and one chunk at most that is lost or unlisted.     *)
MCRangeRead ==
  {[fixed |-> fixed, size |-> size, min |-> IF fixed THEN 1 ELSE 2, max |-> 3,
    boundaries |-> boundaries, lost |-> lost, unlisted |-> unlisted,
    start |-> start, end |-> end] :
     fixed \in BOOLEAN, size \in {0, 1, 3, 5}, boundaries \in SUBSET (2..4),
     lost \in {{}, {0}, {3}}, unlisted \in {{}, {2}},
     start \in -1..5, end \in 0..6}

(* Every reducer with units of kinds it takes and not, every contract, and *)
(* up to two verifications.                                                *)
MCVerifier == {"source_fingerprint_match", "dataset_lineage"}
MCResult == [verifier : MCVerifier, verdict : {"accepted", "rejected"}]
MCResults == UNION {[1..n -> MCResult] : n \in 0..2}
             \cup {<<[verifier |-> ReducerSpecs[name].verifier, verdict |-> "accepted"]>> :
                     name \in DOMAIN ReducerSpecs}
MCReduction ==
  [name : DOMAIN ReducerSpecs, results : MCResults,
   unit : {[NewUnit(kind, "default", requested, hold, on, Plain)
             EXCEPT !.flags = IF on THEN DOMAIN ReducerSpecs ELSE {}] :
             kind \in {"prompt_request", "rag_context_pack", "training_dataset",
                       "model_checkpoint", "structured_file", "metric_series"},
             requested \in {None, "exact_bytes", "exact_logical", "semantic", "bounded_approx"},
             hold \in BOOLEAN, on \in BOOLEAN}]

MCSamples == UNION {[1..n -> {"a", "b", "c"}] : n \in 0..4}

(* Up to four messages; two of the same words may differ in white space.   *)
MCMessage == [role : {"system", "tool", "user"}, words : {"a", "b"}, tokens : {1, 2}]
MCPrompt ==
  [messages : UNION {[1..n -> MCMessage] : n \in 0..3}, max : -1..4]
  \cup [messages : {m \in [1..4 -> MCMessage] : \A i \in 1..4 : m[i].role = "system"},
        max : {3, 4}]

MCRouting ==
  [risky : BOOLEAN, easy : BOOLEAN, requested : {"auto", "large"},
   models : UNION {{m \in [1..n -> EveryModel] : IsInjective(m)} : n \in 1..4}]

(* Up to three files of two partitions: empty, small, large.               *)
MCFile == [partition : {"p", "q"}, size : {0, 1, 2, 3}, rows : {1, 2}]
MCTable ==
  [files : UNION {[1..n -> MCFile] : n \in 0..2}, target : {3}, least : {1, 2}]
  \cup [files : [1..4 -> {f \in MCFile : f.rows = 1 /\ f.size \in {0, 1, 3}}], target : {3},
        least : {2, 3}]

(* Rates at both ends and within, amounts at zero and below.               *)
MCScenario ==
  LET plain == [storage |-> 2, storageRate |-> 1, storagePrice |-> 1, transfer |-> 1,
                transferRate |-> 2, transferPrice |-> 2, requests |-> 3, input |-> 2,
                output |-> 1, hitRate |-> 1, coverage |-> 3, contextRate |-> 2,
                inputPrice |-> 1, outputPrice |-> 2, operating |-> 1, implementation |-> 5,
                horizon |-> 2, energy |-> None, carbon |-> None]
  IN  {[plain EXCEPT !.hitRate = hit, !.coverage = cover, !.contextRate = context,
                     !.operating = cost, !.implementation = invested, !.horizon = months] :
         hit \in {0, 1, 4, 5}, cover \in {0, 3, 4}, context \in {2, 4}, cost \in {0, 1, 9},
         invested \in {-1, 0, 5}, months \in {0, 1, 2}}
      \cup {[plain EXCEPT !.storageRate = rate, !.requests = requests, !.energy = energy,
                          !.carbon = carbon] :
              rate \in {-1, 0, 4}, requests \in {0, 3}, energy \in {None, -1, 2},
              carbon \in {None, 0, 1}}
=============================================================================
