----------------------------- MODULE Decisions -----------------------------
(***************************************************************************)
(* The pure algorithms of the repository, each asked one question: which   *)
(* policy and plan a work unit gets (Policy, Planner), when a flexible job *)
(* runs (Scheduler), which bytes a range of a chunked object is (Ranges),  *)
(* which reducers are on, which samples a training set keeps and which     *)
(* files of a table are joined (Reducers), what a prompt is sent with and  *)
(* to which model (Requests), and what is saved by it all (Impact).        *)
(***************************************************************************)
EXTENDS Planner, Reducers

CONSTANTS
  Unit,     \* the work units that are planned
  Bundle,   \* the policy bundles, None among them
  Job,      \* the flexible jobs that are scheduled
  RangeRead,\* the objects that are chunked and the ranges read of them
  Reduction,\* the units a reducer is asked for, with their verifications
  Samples,  \* the training sets, as the texts of their samples
  Table,    \* the files of tables, with the sizes that make groups of them
  Scenario, \* the scenarios whose savings are estimated
  Prompt,   \* the messages of a request and the limit on its context
  Routing   \* the tasks that are routed, with the models allowed

(* The times of a job are whole numbers of seconds.                        *)
ASSUME JobAssumption ==
  /\ None \notin Int
  /\ \A job \in Job :
       /\ job.deadline \in Int \cup {None} /\ job.maxShift \in Int \cup {None}
       /\ job.runtime \in Int

(* content_defined_chunks refuses other sizes of chunks.                   *)
ASSUME RangeAssumption ==
  /\ None \notin Seq(Int)
  /\ \A read \in RangeRead :
       /\ read.size \in Nat /\ read.max \in Nat /\ read.min \in 1..read.max
       /\ read.start \in Int /\ read.end \in Int

S == INSTANCE Scheduler WITH Invalid <- Refused
R == INSTANCE Ranges WITH Missing <- None
Q == INSTANCE Requests
V == INSTANCE Impact

ASSUME PromptAssumption ==
  \A p \in Prompt : p.max \in Int /\ p.messages \in Seq([role : STRING, words : STRING, tokens : Nat])

ASSUME RoutingAssumption ==
  \A task \in Routing : task.models \in Seq(EveryModel) \ {<< >>}

ASSUME UnitAssumption ==
  /\ Refused \notin Seq(ByteAction \cup AIAction \cup {"semantic_cache_lookup"})
  /\ \A unit \in Unit : unit.requested \in Contract \cup {None} /\ unit.legalHold \in BOOLEAN

(* Bundles that are valid; an empty list of models stands for every model. *)
ASSUME BundleAssumption ==
  \A bundle \in Bundle \ {None} :
    /\ bundle.contract \in Contract /\ bundle.models # {}
    /\ Len(bundle.rules) \in Nat /\ DOMAIN bundle.rules = 1..Len(bundle.rules)
    /\ \A i \in DOMAIN bundle.rules : bundle.rules[i].contract \in Contract

ASSUME ReductionAssumption ==
  \A asked \in Reduction :
    /\ asked.name \in DOMAIN ReducerSpecs
    /\ asked.results \in Seq([verifier : STRING, verdict : {"accepted", "rejected"}])

ASSUME SampleAssumption == \A words \in Samples : words \in Seq(STRING)

ASSUME TableAssumption ==
  \A table \in Table :
    /\ table.files \in Seq([partition : STRING, size : Nat, rows : Nat])
    /\ table.target \in Int /\ table.least \in Int

(* Amounts are whole numbers; which of them make sense the code checks.    *)
ASSUME ScenarioAssumption ==
  /\ None \notin [of : Int, by : Int]
  /\ Scenario \subseteq
       [storage : Int, storageRate : Int, storagePrice : Int, transfer : Int, transferRate : Int,
        transferPrice : Int, requests : Int, input : Int, output : Int, hitRate : Int,
        coverage : Int, contextRate : Int, inputPrice : Int, outputPrice : Int, operating : Int,
        implementation : Int, horizon : Int, energy : Int \cup {None}, carbon : Int \cup {None}]

VARIABLES
  question, \* [about, ...]
  decision, \* the decision on a unit, None before it is made
  answer    \* None before it is given

decisionVars == <<question, decision, answer>>

DecisionInit ==
  /\ \/ \E u \in Unit, b \in Bundle, m \in PlanMode :
          question = [about |-> "unit", unit |-> u, bundle |-> b, mode |-> m]
     \/ \E j \in Job : question = [about |-> "job", job |-> j]
     \/ \E r \in RangeRead : question = [about |-> "range", read |-> r]
     \/ \E r \in Reduction : question = [about |-> "reducer", asked |-> r]
     \/ \E w \in Samples : question = [about |-> "samples", words |-> w]
     \/ \E t \in Table : question = [about |-> "table", table |-> t]
     \/ \E s \in Scenario : question = [about |-> "impact", scenario |-> s]
     \/ \E p \in Prompt : question = [about |-> "prompt", messages |-> p.messages, max |-> p.max]
     \/ \E r \in Routing : question = [about |-> "route", task |-> r]
  /\ decision = None
  /\ answer = None

DecideUnit ==
  /\ question.about = "unit" /\ decision = None
  /\ decision' = EvaluatePolicy(question.unit, question.bundle)
  /\ UNCHANGED <<question, answer>>

PlanUnit ==
  /\ question.about = "unit" /\ decision # None /\ answer = None
  /\ answer' = PlanWorkUnit(question.unit, decision, question.mode)
  /\ UNCHANGED <<question, decision>>

Answer(subject, value) ==
  /\ question.about = subject /\ answer = None
  /\ answer' = value
  /\ UNCHANGED <<question, decision>>

DecideJob == Answer("job", S!ScheduleJob(question.job))

(* The segments that execution puts into a manifest: one per chunk, with   *)
(* what the chunk store still gives for it.                                *)
ChunksOf(read) ==
  IF read.fixed
    THEN R!FixedChunks(read.size, read.max)
    ELSE R!ContentDefinedChunks(read.size, read.min, read.max, read.boundaries)

Stored(span, lost) ==
  [from |-> span.from, to |-> span.to,
   data |-> IF span.from \in lost THEN None ELSE R!Bytes(span.from, span.to)]

ManifestOf(read) ==
  LET chunks == ChunksOf(read)
      listed == {i \in DOMAIN chunks : chunks[i].from \notin read.unlisted}
  IN  [size |-> read.size, count |-> Len(chunks),
       segments |-> [i \in listed |-> Stored(chunks[i], read.lost)]]

AnswerRange ==
  Answer("range",
    R!ReadRange(ManifestOf(question.read), question.read.start, question.read.end))

DecideReducer ==
  Answer("reducer",
    EvaluateReducer(question.asked.unit, question.asked.name, question.asked.results))

ReduceSamples == Answer("samples", DedupeSamples(question.words))

GroupFiles ==
  Answer("table",
    RecommendCompaction(question.table.files, question.table.target, question.table.least))

EstimateImpact == Answer("impact", V!ModelImpact(question.scenario))

PreparePrompt ==
  Answer("prompt", [context |-> Q!CompileContext(question.messages, question.max),
                    sent |-> Q!CompileMessages(question.messages, question.max)])

RoutePrompt ==
  Answer("route",
    LET task == question.task
    IN  [routed |-> Q!RouteModel(task.risky, task.easy, task.models),
         fallback |-> Q!FallbackModel(task.models),
         baseline |-> Q!BaselineModel(task.requested, task.models)])

DecisionNext ==
  \/ DecideUnit \/ PlanUnit \/ DecideJob \/ AnswerRange
  \/ DecideReducer \/ ReduceSamples \/ GroupFiles \/ EstimateImpact
  \/ PreparePrompt \/ RoutePrompt

DecisionSpec == DecisionInit /\ [][DecisionNext]_decisionVars
-----------------------------------------------------------------------------
Decided == question.about = "unit" /\ decision # None
Answered(subject) == question.about = subject /\ answer # None

(* Of the rules that match a unit the strictest contract wins, and a       *)
(* denial wins over every allow, in whatever order the rules stand; what   *)
(* is allowed is in the baseline or named by a matching rule; and a legal  *)
(* hold wins over all of them (policy.py:120-178).                         *)
MostRestrictiveWins ==
  Decided =>
    LET unit == question.unit
        rules == IF question.bundle = None THEN {}
                   ELSE {rule \in ToSet(question.bundle.rules) : Matches(unit, rule.match)}
    IN  /\ unit.legalHold =>
             decision.contract = "exact_bytes" /\ "delete" \notin decision.allowed
        /\ ~unit.legalHold => \A rule \in rules :
             /\ Strictness[decision.contract] <= Strictness[rule.contract]
             /\ CanonicalActions(rule.deny) \cap decision.allowed = {}
             /\ rule.verifiers \subseteq decision.verifiers
             /\ rule.requiresApproval => decision.approval
        /\ ~unit.legalHold /\ rules # {} =>
             /\ \E rule \in rules : decision.contract = rule.contract
             /\ decision.allowed \subseteq
                  BaselineAllowed(unit) \cup UNION {CanonicalActions(rule.allow) : rule \in rules}
             /\ decision.models # {}
             /\ question.bundle.semanticReduction = "deny" /\ decision.contract # "semantic" =>
                  "semantic_cache_lookup" \notin decision.allowed

(* A plan records and verifies what it does, stores the bytes when it is   *)
(* about data, has only actions that support the contract, and none that   *)
(* the policy denies but the exact fallback (planner.py:93-95, 208-223).   *)
PlanKeepsPolicy ==
  Answered("unit") /\ answer # Refused =>
    /\ \A i \in DOMAIN answer :
         /\ decision.contract \in SupportedContracts(answer[i])
         /\ answer[i] \in decision.denied => answer[i] = "store_exact_bytes"
    /\ \/ {"verify", "compute_manifest"} \subseteq ToSet(answer)
       \/ {"hash", "manifest", "verify_restore"} \subseteq ToSet(answer)
            /\ ToSet(answer) \cap Storing # {}
    /\ IsInjective(answer)

(* A unit is refused only because the policy denies a safety action, the   *)
(* contract deletes or derives data, the contract of an AI request is an   *)
(* approximation, or an action that changes answers is allowed for a unit  *)
(* whose contract is exact (planner.py:22-97, action_registry.py:36-45).   *)
RefusalsExplained ==
  Answered("unit") =>
    (answer = Refused <=>
      \/ \E action \in Framework :
           action \in decision.denied /\ action \in ToSet(Candidates(question.unit))
      \/ decision.contract \in {"derived", "tombstone"}
      \/ /\ question.unit.kind \in {"prompt_request", "embedding_request"}
         /\ decision.contract = "bounded_approx"
      \/ /\ question.unit.kind = "prompt_request"
         /\ decision.contract # "semantic"
         /\ "semantic_cache_lookup" \in decision.allowed)

(* A reducer is on only for the contract that the policy gives the unit    *)
(* and after a verification that none rejected later; and the semantic     *)
(* cache of a prompt is on exactly when the policy allows the lookup and   *)
(* the sources matched.  Two exceptions the code makes: a reducer does not *)
(* look for a legal hold, and takes a training set for semantic where the  *)
(* policy keeps it exact (advanced.py:237-275, 307-312, policy.py:69-117). *)
ReducersAgree ==
  Answered("reducer") =>
    LET unit == question.asked.unit
        results == question.asked.results
        spec == ReducerSpecs[question.asked.name]
        policy == EvaluatePolicy(unit, None)
        enabled == answer = "policy_and_verifier_accepted"
        verified == \E i \in DOMAIN results :
                      /\ results[i] = [verifier |-> spec.verifier, verdict |-> "accepted"]
                      /\ \A j \in DOMAIN results :
                           results[j] = [verifier |-> spec.verifier, verdict |-> "rejected"] => j < i
    IN  /\ enabled => verified
        /\ enabled /\ ~unit.legalHold
             /\ ~(unit.kind = "training_dataset" /\ unit.requested = None) =>
             policy.contract = spec.contract
        /\ question.asked.name = "semantic_cache" /\ unit.kind = "prompt_request"
             /\ ~unit.legalHold =>
             (enabled <=> "semantic_cache_lookup" \in policy.allowed /\ verified)

(* A reduced training set keeps, in their order, one sample of each text   *)
(* up to white space, and the map leads from every other sample to it      *)
(* (training.py:40-55).                                                    *)
SamplesKept ==
  Answered("samples") =>
    LET kept == ToSet(answer.unique)
    IN  /\ kept \cup DOMAIN answer.duplicate = DOMAIN question.words
        /\ kept \cap DOMAIN answer.duplicate = {}
        /\ \A i, j \in kept : question.words[i] = question.words[j] => i = j
        /\ \A i \in DOMAIN answer.duplicate :
             /\ answer.duplicate[i] \in kept /\ answer.duplicate[i] < i
             /\ question.words[answer.duplicate[i]] = question.words[i]
        /\ \A i \in 1..(Len(answer.unique) - 1) : answer.unique[i] < answer.unique[i + 1]

(* The table when the groups are joined: the first file of each becomes    *)
(* the new one, and the others are empty.                                  *)
Joined(table, groups) ==
  [i \in DOMAIN table |->
     LET own == table[i].partition
     IN  IF own \notin DOMAIN groups \/ i \notin groups[own].inputs
           THEN table[i]
           ELSE LET first == i = Min(groups[own].inputs)
                IN  [partition |-> own, size |-> IF first THEN groups[own].size ELSE 0,
                     rows |-> IF first THEN groups[own].rows ELSE 0]]

(* Joining the files of a table as recommended keeps the rows and bytes of *)
(* each partition, saves the files it promises, leaves empty and large     *)
(* files alone, and leaves nothing to recommend, unless groups of one file *)
(* are asked for (lakehouse.py:62-89).                                     *)
FilesJoined ==
  Answered("table") =>
    LET table == question.table.files
        joined == Joined(table, answer)
        Files(p) == {i \in DOMAIN table : table[i].partition = p}
        Filled(files, p) == {i \in Files(p) : files[i].size > 0}
    IN  /\ \A i \in DOMAIN table :
             LET own == table[i].partition
             IN  /\ \A field \in {"size", "rows"} :
                      SumAt(Column(joined, field), Files(own)) = SumAt(Column(table, field), Files(own))
                 /\ Cardinality(Filled(joined, own)) = Cardinality(Filled(table, own))
                      - IF own \in DOMAIN answer THEN answer[own].avoided ELSE 0
                 /\ table[i].size \notin 1..(question.table.target - 1) => joined[i] = table[i]
        /\ question.table.least >= 2 =>
             DOMAIN RecommendCompaction(joined, question.table.target, question.table.least) = {}

(* Samples and files are reduced without a loss.                           *)
ReductionsLossless == SamplesKept /\ FilesJoined

(* An estimate never saves more than there was, saves no token twice, so   *)
(* that a better cache never lowers it, pays back within the horizon       *)
(* exactly when the horizon's value is not negative, and claims energy and *)
(* carbon only from measurements (impact.py:138-202).                      *)
ImpactHonest ==
  Answered("impact") /\ answer # Refused =>
    LET s == question.scenario
    IN  /\ answer.gross \in 0..answer.baseline
        /\ answer.input <= V!Scale * s.requests * s.input
        /\ answer.output <= V!Scale * s.requests * s.output
        /\ \A better \in s.hitRate..V!Quarters :
             answer.gross <= V!ModelImpact([s EXCEPT !.hitRate = better]).gross
        /\ answer.return # None =>
             (answer.value >= 0 <=>
                answer.payback # None /\ answer.payback.of <= s.horizon * answer.payback.by)
        /\ answer.carbon # None => answer.energy # None /\ s.energy # None

(* Every decision is sound: the strictest rule wins, plans keep to it,     *)
(* units without one are refused for a reason, the reducers do what the    *)
(* policy and the verifications say and lose nothing, and estimates        *)
(* promise no more than that saves.                                        *)
DecisionsSound ==
  /\ MostRestrictiveWins /\ PlanKeepsPolicy /\ RefusalsExplained /\ ReducersAgree
  /\ ReductionsLossless /\ ImpactHonest

(* A job that is deferred still ends before its deadline, at most a day    *)
(* later, and no job that is forced or interactive is ever deferred        *)
(* (scheduler.py:91-106).                                                  *)
DeferralMeetsDeadline ==
  Answered("job") /\ answer # Refused =>
    LET job == question.job
    IN  ~answer.runNow =>
          /\ answer.shift \in 0..S!LongestShift
          /\ ~job.forced
          /\ job.deadline # None =>
               answer.shift + job.runtime < job.deadline /\ job.deadline > 120

(* The chunks of an object follow one another without a gap and are no     *)
(* larger than the maximum; only the last may be smaller than the minimum  *)
(* (chunking.py:29-72).                                                    *)
ChunksTile ==
  question.about = "range" =>
    LET read == question.read
        chunks == ChunksOf(read)
        n == Len(chunks)
    IN  /\ n = 0 <=> read.size = 0
        /\ n > 0 => chunks[1].from = 0 /\ chunks[n].to = read.size
        /\ \A i \in 1..n : chunks[i].to - chunks[i].from \in 1..read.max
        /\ \A i \in 1..(n - 1) : /\ chunks[i].to = chunks[i + 1].from
                                 /\ chunks[i].to - chunks[i].from >= read.min

(* A read of a range gives exactly the bytes asked for, as far as the      *)
(* object goes, or is refused; and it is refused only for a range that is  *)
(* none, or because one of its bytes is in a chunk that is lost or not     *)
(* listed (executor.py:283-325).                                           *)
ReadExact ==
  Answered("range") =>
    LET read == question.read
        end == R!Shorter(read.end, read.size)
        spoilt == \E i \in DOMAIN ChunksOf(read) :
                    LET span == ChunksOf(read)[i]
                    IN  /\ span.from \in read.lost \cup read.unlisted
                        /\ \E byte \in span.from..(span.to - 1) :
                             read.start <= byte /\ byte < end
    IN  IF read.end < read.start \/ read.start < 0 \/ spoilt
          THEN answer = Refused
          ELSE answer = R!Bytes(read.start, IF end < read.start THEN read.start ELSE end)

(* Whatever way an object is cut, a range of it is read exactly.           *)
RangesExact == ChunksTile /\ ReadExact

(* The tokens of the messages at some positions.                           *)
Tokens(messages, positions) == SumAt(Column(messages, "tokens"), positions)

(* The context of a prompt stays in its limit, says nothing twice, leaves  *)
(* out only what is said before or does not fit, and takes no message of   *)
(* the conversation away; compiling what is sent again changes nothing     *)
(* (context.py:45-85).                                                     *)
ContextCompiled ==
  Answered("prompt") =>
    LET messages == question.messages
        kept == answer.context.kept
        again == [i \in DOMAIN answer.sent |-> messages[answer.sent[i]]]
    IN  /\ answer.context.tokens = Tokens(messages, kept)
        /\ kept = {} \/ Tokens(messages, kept) <= question.max
        /\ \A i, j \in kept : Q!Fingerprint(messages[i]) = Q!Fingerprint(messages[j]) => i = j
        /\ \A i \in DOMAIN messages :
             \/ i \in ToSet(answer.sent)
             \/ /\ messages[i].role \in Q!ContextRole
                /\ \/ \E j \in kept : j < i /\ Q!Fingerprint(messages[j]) = Q!Fingerprint(messages[i])
                   \/ Tokens(messages, {j \in kept : j < i}) + messages[i].tokens > question.max
        /\ \A i \in 1..(Len(answer.sent) - 1) : answer.sent[i] < answer.sent[i + 1]
        /\ Len(Q!CompileMessages(again, question.max)) = Len(again)

Strength == [tiny |-> 1, small |-> 2, medium |-> 3, frontier |-> 4]

(* A prompt is routed to a model of the policy and falls back to one; a    *)
(* high-risk one to the strongest, and a fallback is never weaker than the *)
(* route, if the policy lists its models from weak to strong; only a model *)
(* that the request itself names may be none of them                       *)
(* (ai_router.py:20-45, ai_gateway.py:316, 337, 942-952).                  *)
RoutesAllowed ==
  Answered("route") =>
    LET task == question.task
        models == task.models
        ordered == \A i, j \in DOMAIN models : i < j => Strength[models[i]] < Strength[models[j]]
    IN  /\ {answer.routed, answer.fallback} \subseteq ToSet(models)
        /\ answer.baseline \in ToSet(models) \cup {task.requested}
        /\ ordered => /\ Strength[answer.routed] <= Strength[answer.fallback]
                      /\ task.risky => \A m \in ToSet(models) : Strength[m] <= Strength[answer.routed]

(* What the gateway sends, and to which model.                             *)
RequestsPrepared == ContextCompiled /\ RoutesAllowed
=============================================================================
