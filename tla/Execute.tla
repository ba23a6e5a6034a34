------------------------------ MODULE Execute ------------------------------
(***************************************************************************)
(* execute_exact_object (python/urp/executor.py): threads run work units   *)
(* over one state directory, each through policy, plan, chunk store,       *)
(* verification and manifest, with a ledger event after each of them.      *)
(*                                                                         *)
(* Every step may be the last of its run: it raises (the file system or    *)
(* the ledger refuses it) or the process dies.  What the files hold stays. *)
(* The order of ledger events of different runs is the business of module  *)
(* Ledger; here each run has the trail ledger.query would show for it.     *)
(***************************************************************************)
EXTENDS ChunkStore, FiniteSets, SequencesExt

CONSTANTS
  Request,      \* the work units submitted (see RequestAssumption)
  Namespace,    \* (tenant, namespace) pairs
  ShadowOf(_),  \* "shadow-<namespace>", which may be a namespace in use
  Chunk,        \* chunk digests
  Compressible, \* the chunks that compression makes smaller
  MaxRuns       \* bound: how many executions are begun

Mode == {"observe", "shadow", "enforce"}

(* A work unit: its payload as the chunks the plan's chunker cuts it into, *)
(* whether the plan has the "zstd" action, whether it comes through        *)
(* execute_mock_adapter, and whether the policy wants an approval the work *)
(* unit does not bring.                                                    *)
ASSUME RequestAssumption ==
  Request \subseteq [mode : Mode, namespace : Namespace, chunks : Seq(Chunk),
                     compress : BOOLEAN, adapter : BOOLEAN, approvalMissing : BOOLEAN]
ASSUME KeyAssumption ==
  \A n \in Namespace, c \in Chunk :
    {[namespace |-> n, chunk |-> c], [namespace |-> ShadowOf(n), chunk |-> c]} \subseteq Key
ASSUME RunsAssumption == MaxRuns \in Nat /\ Compressible \subseteq Chunk /\ None \notin Request

Run == 1..MaxRuns

VARIABLES
  pc,        \* where each thread is in execute_exact_object
  run,       \* the run of each thread, 0 when it has none
  request,   \* the work unit of each run, None before it begins
  trail,     \* the ledger's events of each run
  plans,     \* the runs whose plan is in the plan store
  manifests, \* the manifest of each run, None before it is stored
  stopped    \* history: the runs that raised or died

control == <<pc, run, request>>
records == <<trail, plans, manifests>>
vars == <<storeVars, control, records, stopped>>

Init ==
  /\ StoreInit
  /\ pc = [t \in Thread |-> "idle"]
  /\ run = [t \in Thread |-> 0]
  /\ request = [r \in Run |-> None]
  /\ trail = [r \in Run |-> << >>]
  /\ plans = {}
  /\ manifests = [r \in Run |-> None]
  /\ stopped = {}

Goto(t, label) == pc' = [pc EXCEPT ![t] = label]
My(t) == request[run[t]]

Event == {"policy.denied", "work_unit.received", "policy.evaluated", "plan.created",
          "action.executed", "manifest.written", "adapter.mock.executed"}

(* ledger.append succeeds.                                                 *)
Audit(t, event) == trail' = [trail EXCEPT ![run[t]] = Append(@, event)]

(* storage_namespace.                                                      *)
StorageNamespace(q) == IF q.mode = "enforce" THEN q.namespace ELSE ShadowOf(q.namespace)

(* The segment put_chunk makes of a new chunk: "zstd" in action_names and  *)
(* a result that is smaller, or the chunk as it is.                        *)
NewSegment(t, q, c) ==
  [key |-> [namespace |-> StorageNamespace(q), chunk |-> c],
   codec |-> IF q.compress /\ c \in Compressible THEN Library[t] ELSE "raw"]
-----------------------------------------------------------------------------
Begin(t, q) ==
  /\ pc[t] = "idle"
  /\ \E r \in Run :
       /\ request[r] = None /\ \A s \in 1..(r - 1) : request[s] # None
       /\ run' = [run EXCEPT ![t] = r]
       /\ request' = [request EXCEPT ![r] = q]
  /\ Goto(t, "open")
  /\ UNCHANGED <<storeVars, records, stopped>>

FirstStep(q) == IF q.approvalMissing THEN "deny" ELSE "receive"

(* LocalChunkStore is constructed first, then the policy is evaluated.     *)
StoreOpened(t) ==
  /\ pc[t] = "open" /\ storePc[t] = "open"
  /\ Goto(t, FirstStep(My(t)))
  /\ UNCHANGED <<storeVars, run, request, records, stopped>>

(* The run is over; the thread is free.                                    *)
Finish(t) ==
  /\ LeaveStore(t)
  /\ Goto(t, "idle")
  /\ run' = [run EXCEPT ![t] = 0]
  /\ UNCHANGED request

(* _require_policy_approval: an event, then policy_denied is raised.       *)
Deny(t) ==
  /\ pc[t] = "deny"
  /\ Audit(t, "policy.denied")
  /\ stopped' = stopped \cup {run[t]}
  /\ Finish(t)
  /\ UNCHANGED <<plans, manifests>>

(* A step whose whole effect is a ledger event.                            *)
AuditStep(t, from, event, to) ==
  /\ pc[t] = from
  /\ Audit(t, event)
  /\ Goto(t, to)
  /\ UNCHANGED <<storeVars, run, request, plans, manifests, stopped>>

Receive(t) == AuditStep(t, "receive", "work_unit.received", "evaluate")
Evaluate(t) == AuditStep(t, "evaluate", "policy.evaluated", "plan")

(* store_plan_with_audit: the plan store, then the ledger.                 *)
StorePlan(t) ==
  /\ pc[t] = "plan"
  /\ plans' = plans \cup {run[t]}
  /\ Goto(t, "planned")
  /\ UNCHANGED <<storeVars, run, request, trail, manifests, stopped>>

PlanCreated(t) ==
  AuditStep(t, "planned", "plan.created", IF My(t).mode = "observe" THEN "manifest" ELSE "put")

PutChunks(t) ==
  /\ pc[t] = "put"
  /\ BeginPutChunks(t, [i \in DOMAIN My(t).chunks |-> NewSegment(t, My(t), My(t).chunks[i])])
  /\ Goto(t, "store")
  /\ UNCHANGED <<run, request, records, stopped>>

(* The steps of the chunk store, in a run.                                 *)
InStore(t) ==
  /\ pc[t] \in {"open", "store"}
  /\ StoreStep(t)
  /\ UNCHANGED <<control, records, stopped>>

ChunkUnreadable(t) ==
  /\ pc[t] = "store" /\ Unreadable(t)
  /\ stopped' = stopped \cup {run[t]}
  /\ Finish(t)
  /\ UNCHANGED records

ChunksStored(t) ==
  /\ pc[t] = "store" /\ AllStored(t)
  /\ Goto(t, "audit")
  /\ UNCHANGED <<storeVars, run, request, records, stopped>>

Executed(r) == Cardinality({i \in DOMAIN trail[r] : trail[r][i] = "action.executed"})

(* One action.executed event per segment.                                  *)
EventsDue(t) == Len(stored[t])

ActionExecuted(t) ==
  /\ pc[t] = "audit" /\ Executed(run[t]) < EventsDue(t)
  /\ AuditStep(t, "audit", "action.executed", "audit")

Restores(t) ==
  \A i \in DOMAIN stored[t] : Decodes(stored[t][i]) /\ MayDecode(t, stored[t][i].codec)

(* chunk_store.rehydrate reads every segment back, and raises when one     *)
(* does not have the digest it is stored under.  (Segments that all have   *)
(* their digests make up the payload, so verify_sha256 accepts.)           *)
Verify(t) ==
  /\ pc[t] = "audit" /\ Executed(run[t]) = EventsDue(t)
  /\ IF Restores(t)
       THEN Goto(t, "manifest") /\ UNCHANGED <<storeVars, run, request, stopped>>
       ELSE Finish(t) /\ stopped' = stopped \cup {run[t]}
  /\ UNCHANGED records

ManifestState(q) ==
  CASE q.mode = "observe" -> "planned" [] q.mode = "shadow" -> "superseded" [] OTHER -> "active"

(* Mutant of AfterManifest: observing ends with the manifest.              *)
AfterManifestIfObserving(t) == IF My(t).mode = "observe" THEN "end" ELSE "written"

AfterManifest(t) == "written"

StoreManifest(t) ==
  /\ pc[t] = "manifest"
  /\ manifests' = [manifests EXCEPT ![run[t]] =
                     [state |-> ManifestState(My(t)), segments |-> stored[t]]]
  /\ Goto(t, AfterManifest(t))
  /\ UNCHANGED <<storeVars, run, request, trail, plans, stopped>>

ManifestWritten(t) ==
  AuditStep(t, "written", "manifest.written",
            IF My(t).adapter /\ My(t).mode # "observe" THEN "adapter" ELSE "end")

AdapterExecuted(t) == AuditStep(t, "adapter", "adapter.mock.executed", "end")

Return(t) ==
  /\ pc[t] = "end"
  /\ Finish(t)
  /\ UNCHANGED <<records, stopped>>

(* An exception or a crash before the next step.                           *)
Stop(t) ==
  /\ pc[t] \notin {"idle", "end"}
  /\ stopped' = stopped \cup {run[t]}
  /\ Finish(t)
  /\ UNCHANGED records

Step(t) ==
  \/ StoreOpened(t) \/ Deny(t) \/ Receive(t) \/ Evaluate(t) \/ StorePlan(t) \/ PlanCreated(t)
  \/ PutChunks(t) \/ InStore(t) \/ ChunkUnreadable(t) \/ ChunksStored(t)
  \/ ActionExecuted(t) \/ Verify(t) \/ StoreManifest(t) \/ ManifestWritten(t)
  \/ AdapterExecuted(t) \/ Return(t)

Next == \E t \in Thread : (\E q \in Request : Begin(t, q)) \/ Step(t) \/ Stop(t)

Spec == Init /\ [][Next]_vars

(* A thread in a run is scheduled again and again; nothing obliges anybody *)
(* to submit a work unit.                                                  *)
FairSpec == Spec /\ \A t \in Thread : WF_vars(Step(t))
-----------------------------------------------------------------------------
Manifest == [state : {"planned", "superseded", "active"}, segments : Seq(Segment)]

(* Every variable has its type.                                            *)
TypeOK ==
  /\ StoreTypeOK
  /\ pc \in [Thread -> {"idle", "open", "deny", "receive", "evaluate", "plan", "planned", "put",
                        "store", "audit", "manifest", "written", "adapter", "end"}]
  /\ run \in [Thread -> 0..MaxRuns]
  /\ request \in [Run -> Request \cup {None}]
  /\ trail \in [Run -> Seq(Event)]
  /\ plans \subseteq Run /\ stopped \subseteq Run
  /\ manifests \in [Run -> Manifest \cup {None}]

(* What rehydrate_manifest gives for the manifest of run r.                *)
Rehydrated(r) ==
  LET m == manifests[r]
  IN IF m = None \/ m.state = "planned" THEN None
     ELSE [i \in DOMAIN m.segments |->
             IF Decodes(m.segments[i]) THEN m.segments[i].key.chunk ELSE "corrupt"]

(* Stored objects stay what was submitted, whatever is stored after them   *)
(* by processes with other codecs, and wherever runs stop.                 *)
Objects == INSTANCE ObjectStore
  WITH Body <- {q.chunks : q \in Request}, Nothing <- None,
       object <- [r \in Run |-> Rehydrated(r)]
ImplementsObjectStore == Objects!ObjectSpec

(* ... and what is stored is the body of that very request.                *)
ManifestsFaithful ==
  \A r \in Run : Rehydrated(r) # None => Rehydrated(r) = request[r].chunks

(* Nothing is in the manifest store that the plan store and the ledger do  *)
(* not account for, in the order the work was done.                        *)
AuditedBeforeManifest ==
  \A r \in Run : manifests[r] # None =>
    /\ r \in plans
    /\ IsPrefix(<<"work_unit.received", "policy.evaluated", "plan.created">>
                  \o [i \in DOMAIN manifests[r].segments |-> "action.executed"],
                trail[r])

(* A manifest without its manifest.written event belongs to a run that is  *)
(* about to write it, or that was stopped in between.                      *)
ManifestAudited ==
  \A r \in Run : manifests[r] # None /\ "manifest.written" \notin ToSet(trail[r]) =>
    r \in stopped \/ \E t \in Thread : run[t] = r /\ pc[t] = "written"

(* The ledger and the plan store tell of a manifest what led to it, and,   *)
(* once its run has ended, that it was written.                            *)
AuditTrailComplete == AuditedBeforeManifest /\ ManifestAudited

(* Observing stores no chunk and a denied work unit leaves nothing but its *)
(* denial: the index has only chunks of work units that were allowed to    *)
(* be stored.                                                              *)
OnlyAllowedStored ==
  \A k \in Key : chunkFile[k] # None =>
    \E r \in Run : /\ request[r] # None /\ request[r].mode # "observe"
                   /\ ~request[r].approvalMissing
                   /\ k.namespace = StorageNamespace(request[r])
                   /\ k.chunk \in ToSet(request[r].chunks)
                   /\ "plan.created" \in ToSet(trail[r])

(* Every run ends: the store's lock is never left behind by a run that     *)
(* stopped, and no thread waits for it for ever.                           *)
RunsEnd == \A t \in Thread : pc[t] # "idle" ~> pc[t] = "idle"
=============================================================================
