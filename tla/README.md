# TLA+ models of URP

URP (`python/urp`) runs *work units* (objects, AI calls, checkpoints) through
policy, planning, a content-addressed store and a hash-chained ledger.  All of
its durable state is files below one state directory (the ledger may be a
PostgreSQL table instead).  Threads of one process and several processes work on
that directory at once; they meet only in the files and in advisory locks
(`storage.file_lock`: a process-wide re-entrant thread lock inside a shared or
exclusive `flock`).  What is hard about it, and what these modules are about, is
what several such threads do to the files between them, and what a step that
fails or never comes leaves behind.

Modules are in this directory; `PROJECT.json` lists runs, mutants, theorems,
hazards and, for every definition, the source lines it stands for.

## 1. Inventory

State is on disk unless noted.  "Hard" names the behaviour a test hardly reaches.

| component (source) | state | operations | hard | correct when |
|---|---|---|---|---|
| event ledger (`ledger.py`, `contracts.py`) | `ledger.jsonl`, one event per line, each with its predecessor's hash | `append`, `read`, `query`, `verify_chain`, `export_jsonl` | appends of several processes; writes cut short; fsync that fails after the write | the chain is never broken; what was acknowledged is never silently missing; reads only extend |
| PostgreSQL ledger (`postgres.py`) | a table; an advisory lock per transaction | `append`, `read` | sequence numbers are drawn before rows commit; connections lost around the commit | the same, and no damage at all |
| file locks, atomic writes (`storage.py`) | lock files, one thread lock per path (memory) | `file_lock`, `atomic_write_*`, `append_json_line`, `resolve_under` | release on every exit; rename; a short write | mutual exclusion, no half-written file |
| chunk store (`chunk_store.py`) | `chunks/…`, one `index.json` for all tenants | `put_chunk(s)`, `read_stored`, `rehydrate` | file and index are two writes; processes with different codecs | an indexed chunk can be decoded, the index loses nothing |
| exact executor (`executor.py`) | none of its own | `execute_exact_object`, `execute_mock_adapter`, `rehydrate_manifest(_range)` | fourteen steps, any of which can be the last | stored objects stay what was submitted; nothing is stored that plan, policy and ledger do not account for |
| manifest, plan, work unit stores (`manifest_store.py`, `plan_store.py`, `work_unit_store.py`) | one JSON file each (or SQLite) | `put`, `get`, `list`, look-ups | order relative to ledger events; whose tenant is compared with which | nobody reads or writes another tenant's records |
| approvals (`approval_store.py`) | one signed file per approval | `issue`, `get`, `list`, `verify` | expiry between check and use; use by several units | no execution without an approval that was valid when it was compared |
| policy store (`policy_store.py`) | `policies/<name>/<version>.json`, `active.json` for all names | `publish`, `rollback`, `reload`, `active`, `get`, `list` | read-modify-write of `active.json`; audit after the change | the active version can be loaded; names do not undo each other; the ledger tells which version is in force |
| S3 adapter, multipart (`adapters.py`) | `tmp/multipart/<id>/`: `meta.json`, parts, lock file | `create_…`, `upload_part`, `complete_…`, `abort_…` | the lock file is deleted with the directory; completion fails after its manifest | the object is the parts that were acknowledged; one completion at a time |
| S3 adapter, objects (`adapters.py`) | manifests | `put_object`, `get_object`, `range_read`, `head_object`, `list_objects`, `delete_object` | the tombstone is a read and a later write of the manifest | deletes are denied by default and under legal hold, a tombstone is audited and stays |
| POSIX adapter (`adapters.py`) | files of a directory tree | `put_file`, `execute_file`, `rehydrate_file`, `stat` | existence, write, stat, read and execution are not one step | what is in a file is recorded |
| edge sync (`edge_sync.py`) | `edge_sync_cursor.json`, the sink's ledger | `pending`, `sync`, sinks' `accept` | timeouts while the sink goes on; retries; several processes | no gap, no swap; the cursor never passes what the sink lacks |
| disaster recovery (`disaster_recovery.py`) | archives; the whole state directory | `export_state`, `import_state` (replace or merge) | files that change while they are copied; a crash between two renames | a backup restores to states the files were in; a restore does not lose the state |
| response cache (`cache.py`, `cache_verification.py`), semantic cache (`semantic_cache.py`) | `cache/cache.sqlite3` or memory | `put`, `get`, `delete`, `purge_expired`; `store`, `lookup_hit` | expiry against replacement | an answer is of the same tenant, namespace and sources, verified and fresh |
| AI gateway (`ai_gateway.py`, `ai_router.py`, `context.py`) | route feedback | `handle_chat_completion`, `handle_completion`, `handle_embeddings` | caches, provider, ledger, manifest in sequence | nothing uncacheable is cached, every answer is audited, the context fits its limit |
| checkpoints (`checkpoints.py`) | `checkpoints/`: bases, blocks, manifests | `put_base`, `put_delta`, `read` | bases replaced under deltas; a delta that names itself, directly or through others, as its base | a read gives what was put |
| keys (`kms.py`) | `kms_master.key`, `kms_keys.json` | `create_key`, `get_key`, `encrypt`, `decrypt` | key creation by two processes | what was encrypted can be decrypted |
| policy evaluation (`policy.py`), planner (`planner.py`, `classifier.py`, `action_registry.py`), scheduler (`scheduler.py`), reducers (`advanced.py`, `training.py`, `lakehouse.py`, `impact.py`), ranges (`chunking.py`, `executor.py`) | a log of scheduled jobs | pure decisions | order of rules; boundaries | deny wins; plans hold only allowed actions; deadlines are kept; a range is its bytes; what is told to be saved is |
| operator (`operator.py`) | status, resources of the cluster | `run`, `reconcile` | one failing resource ends the pass | every resource is reconciled |
| HTTP service (`api.py`, `service_runtime.py`, `auth.py`) | none of its own; a principal bound to each thread | routes on two front ends | a stored unit of another tenant; a record and its event are two writes | a tenant's records are its own; roles, approvals and audit hold on every path |
| CLI, tooling, observability, live adapters, Rust crates, Go and TypeScript clients | see `PROJECT.json` | | | drive the components above or format their data |

Interactions: the service and the adapters call the gateway and the executor;
these evaluate a policy taken from the policy store, make and store a plan, use
the chunk store and the manifest store, and append to the ledger after each of
these steps.  No transaction spans two stores: a step that is the last of its
call leaves the ones before it done.  Edge sync and disaster recovery read the
files of all of them from the side.

## 2. Modules

| module | what it is |
|---|---|
| `EventLog` | abstract specification: what a ledger promises (one ordered log, damage is detected) |
| `Ledger`, `LedgerProofs` | `JSONLLedger` and its file, implements `EventLog`; theorems |
| `Database` | `PostgresLedger` and its table, implements an `EventLog` that is never damaged |
| `ObjectStore` | abstract specification: an object, once stored, never changes |
| `ChunkStore` | `LocalChunkStore`: state and steps of a thread inside the store |
| `Execute`, `ExecuteProofs` | `execute_exact_object` over `ChunkStore`, plan store, manifest store and ledger trail; implements `ObjectStore`; theorems |
| `PolicyStore` | publish, rollback, reload and resolve |
| `Multipart`, `MultipartProofs` | one multipart upload and its lock file; theorems |
| `EdgeSync`, `EdgeSyncProofs` | `DelayedLedgerSync` and its sink, over `EventLog` (which `Ledger` implements); theorems |
| `AnswerCache` | the exact and the semantic cache: tables, clock, storing clients |
| `Gateway`, `GatewayProofs` | `handle_chat_completion` and `handle_embeddings` over `AnswerCache`, provider, ledger trail, plan, feedback and manifest stores; theorems |
| `Auth` | tokens, principals, roles, permissions, the tenant a request names |
| `Routes` | the routes of both front ends: which operation and which permission each has |
| `Service`, `ServiceProofs` | the handlers over the stores of units, plans, manifests, approvals, jobs and plugins, with the ledger's events; theorems |
| `Policy`, `Planner`, `Reducers`, `Scheduler`, `Ranges`, `Requests`, `Impact` | the pure decisions, as operators |
| `Loops` | two loops they share: a filter and a sum, position by position |
| `Decisions` | one state machine that asks each of them one question |
| `PolicyProofs` | theorems about `PolicyStore` and about all the pure decisions, as `Decisions` asks them |
| `Recovery`, `Checkpoints`, `KeyStore`, `Operator`, `Posix` | the local tools |
| `OperationsProofs` | theorems about `Database`, `KeyStore`, `Operator`, `Posix`, `Recovery` and `Checkpoints` |
| `Common` | the constant `None` of the modules that are composed in `MCOperations` |
| `MC*` | constants of the runs |

Every module keeps the same shape: a step of the model is one access to shared
state (a file read, a file replaced, a lock taken, a statement sent), so that all
interleavings the locks permit happen; a critical section whose only shared
access is a single read or replacement is a single step.  A step that may fail
has the failure as another disjunct (`Stop`, `WriteFails`, ...): the call raises
or the process dies, its locals and locks are gone, and the files keep what they
have.

**Ledger.**  `file` is the sequence of lines; a line is an event with its hash,
an event glued to a torn piece, or junk.  Buffered write, flush and fsync of
`append` are separate: a write puts the line down with its newline, without it,
or a part of it; after that `append` returns or raises.  Readers and writers
hold `file_lock` in shared or exclusive mode (`MayShare`, `MayExclude`),
including the in-process lock that makes even two readers of one process wait.
A hash is an abstract injective value; that a chain of SHA-256 detects edits is
taken for granted, that appends keep the chain is what is checked.

**Database.**  A transaction is four statements: the advisory lock, the last
row's hash, the insert, which draws a number that is never given back, and the
commit.  A row is seen when it is committed.  A connection may be lost at each of
them, and after the commit, so that the caller is told nothing.

**ChunkStore, Execute.**  A body is a sequence of chunks; a chunk's file is the
codec its bytes are under.  Threads have codec libraries of their own (the
`zstandard` package is optional), so a chunk written by one process may be
unreadable for another.  `Execute` has one action for each of the file accesses
and ledger events of `execute_exact_object`, in its order.  The policy's
decision, the plan's compression and the presence of a required approval are
inputs.  `trail` is what `ledger.query` shows for a run.

**PolicyStore.**  `publish` writes the record in one critical section and
`active.json` in a second one, `rollback` loads the record without the lock,
and both append their event last.  `raced` and `cut` are history variables:
names whose changes overlapped, and names whose change stopped before its event.

**Multipart.**  The lock file has an identity (`lockFile`, `handle`), because
clean-up unlinks it while other clients may have it open.  `complete` is two
critical sections with `put_object` in between, and its error handler a third.
Any access of a call to the directory may raise (`Raise`), in that handler and
in the middle of clean-up too, and a write may raise when its file is replaced
already (`RaiseWritten`).  `cutShort` is a history variable: a completion died or
raised where nothing opens the upload again.

**EdgeSync.**  The receipt and the caller are separate: `AcceptEvent` goes on
for a batch whose caller has timed out, died or begun another call.

**AnswerCache, Gateway.**  Handlers build their own `URPCache` and
`SemanticCache`, so the locks inside these order nothing between requests; a
step is one SQLite transaction, and reading a row, deciding about it and
deleting it by key are different steps.  A row carries a history field `by`, the
work unit it comes from, that the table does not have: the properties relate
what is served to the request it was first answered for.  A request is its
scope, text, source fingerprints and cache options; what a provider may answer,
how similar two texts are and which answers pass the verifiers are inputs.
A policy is what it allows, demands and whether it asks for an approval.
`Gateway` has one action for each cache access, ledger event and store, in the
order of the two handlers, which differ in four places: embeddings have no
semantic cache, are not verified when they are read from the cache, have other
verifiers, and compute their vectors locally.  "shadow" differs from "observe"
only in a label of the manifest.  An exact look-up by a client
(`/v1/cache/exact/lookup`) does to the table what a unit does that stops after
it (`Drop`), so it is no action of its own.

**Auth, Routes, Service.**  `Routes` is the union of both front ends' tables; a
path is its segments, so that a prefix test and an equality test in the source
match the same requests here.  A request names a tenant in up to five places
(header, query, body, the `urp` block, the nested unit), and `Asked` is the one
the code takes.  A handler thread is admitted (token, permission, tenant) and
then runs its operation as a sequence of store accesses and ledger appends; the
tenant bound to the thread is compared again at each.  `records` are all stores
at once, `ledger` is the set of events (their order is `Ledger`'s subject).  A
record is new, but for the tombstone of a manifest and for a plugin, whose
descriptor may have the name of one that is there and replaces it.
Requests whose operation belongs to another module are answered without effect.

**Decisions.** `Policy`, `Planner`, `Reducers`, `Scheduler`, `Ranges`,
`Requests` and `Impact` translate pure functions into operators; loops that
carry state are recursive functions over their steps (`Picked`, `Sums`,
`Scanned`, `Read`, `Joined`, `Compiled`, `Sent`). What the code leaves to the
order of a union or a maximum (the rules that match a unit, the strictest
contract) is a set. Fractions are scaled to whole numbers (`Impact` counts rates
in quarters). `Decisions` keeps one question and its answer in its state, so
that TLC asks each question of the sets in `MCDecisions` and the properties
compare the answer with what the decision is for, not with the way it is
computed.

**Recovery.**  The service goes on writing while an export digests and copies
file after file, and recreates the directory when an import has moved it away.
An import stages, moves the state aside, moves the new one in and, when that
fails, moves the old one back; any rename may fail and any process may die.  The
paths an export includes are a sequence of sets of files (`Area`), one for each
entry of `INCLUDED_STATE_PATHS`.

**Checkpoints, KeyStore, Operator, Posix.**  Each has one action for each
critical section, request or file access of its class.  What a checkpoint stores
is a sequence of bytes, cut into blocks as the code does it, since a delta is
rebuilt by joining blocks of two contents.  A read calls itself for the base of
a delta, so each call has a number of reads that the stack of its caller has
room for (`Room`; one less inside `put_delta`), and raises when it would exceed
it.  Identifiers of checkpoints may be used again; the master key file may be lost; users edit
resources while the operator's pass goes on; workers of the POSIX adapter share
its files and no lock.

## 3. Runs

| run | configuration | bounds | what it shows |
|---|---|---|---|
| `ledger` | `MCLedger.cfg` | 2 processes, 3 threads, 3 events | the chain holds, nothing acknowledged is silently lost, `EventLog` is implemented |
| `multipart` | `MCMultipart.cfg` | 2 clients, 2 parts, 4 calls | parts, completion, clean-up and lock file; every call ends |
| `multipart_one_manifest` | `MCMultipartOneManifest.cfg` | same | counterexample: two manifests of one upload |
| `execute` | `MCExecute.cfg` | 2 processes with different codecs, 7 requests over all modes, 2 runs sharing chunks | manifests, plans, chunks, ledger agree; `ObjectStore` is implemented; every run ends |
| `policy_store` | `MCPolicyStore.cfg` | 2 clients, 2 names, 2 versions, 4 calls | active versions load, survive and are told by the ledger |
| `policy_audit` | `MCPolicyStoreAudit.cfg` | same | counterexample: an active version the ledger does not know |
| `edge_sync` | `MCEdgeSync.cfg` | 2 clients, 4 events, batches of 2, 4 calls | order, cursor, duplicates |
| `gateway` | `MCGateway.cfg` | 2 work units, 3 requests, 2 policies, 2 instants, 1 value stored by a client | rows, hits, records of a served request, deletions |
| `gateway_policy` | `MCGatewayPolicy.cfg` | same | counterexample: an exact hit from another policy |
| `service` | `MCService.cfg` | 2 threads, 3 requests, 4 records, 1 tick, 4 principals of two tenants and of `*` | isolation, roles, approvals, audit, tombstones |
| `service_hold` | `MCServiceHold.cfg` | same | counterexample: a manifest under legal hold becomes a tombstone |
| `operations` | `MCOperations.cfg` | see below | decisions, recovery, checkpoints, keys, operator, PostgreSQL ledger, POSIX adapter |

`operations` composes parts that share no state: its initial states choose one
part that runs while the others rest, so that the state space is the sum of
theirs.  The bounds are: the questions of `MCDecisions` (units of every kind of
treatment against bundles of up to two rules, jobs at the borders of every
comparison, every range of objects of up to five bytes, tables of up to four
files, scenarios with rates and amounts at both ends); 1 write, 2 exports,
2 imports of one process and 1 fault over four files in two areas; 2 threads,
2 checkpoints, contents of 2 and of 3 blocks, 3 puts and room for 1 or for 2
nested reads; 3 callers, 2 keys, 3 masters and 1 loss; 2 resources, 2 edits and 2
failures; 2 connections and 3 events; 2 workers, 2 files, 2 contents and 3 calls.
In the state space that results every action of each part is taken.

Why the bounds are enough.  Every conflict in this code is between two holders
of the same file, so two threads show it; the ledger has a third so that a
thread of the same process and one of another can meet it at once, and so has
the key store: one caller finds no master key, a second writes one, a third
opens what was wrapped.  Two versions and two names distinguish "the other name"
and "the version before".  Two runs in `execute` are: one whose chunk file is
left unindexed or under another codec, and one that finds it or stores it again;
three runs on a shared chunk, with the same outcome, are covered by the
proofs.  Four calls in `multipart` are two parts, a completion and whatever
disturbs it; in `edge_sync` a call, its retry, and the same for the next batch.
In `gateway` one unit fills a cache and the other reads, replaces or deletes; one
tick expires what has a ttl of 1 and not what has a ttl of 2; the client's values
are a blank one under a chat key, one with other fingerprints, and one of the
wrong shape under an embedding key.  In `service` three requests are: one that
stores a unit, an approval or a manifest, one that uses it from another tenant or
role or at another instant, and one that deletes or lists what came of it.
Of two checkpoints one is a base and the other a delta on it, which is within the
room of one reader and not of another; a third put makes it a circle or replaces
the base under the delta.  Longer chains are covered by the proofs.
`edge_sync`, `gateway` and `service` use symmetry (of clients, units, threads)
and check no liveness.

Fairness.  `multipart` and `execute` state that a call ends (`CallsEnd`,
`RunsEnd`) under weak fairness of each thread's `Step`: a thread that can take
its next step is scheduled again.  Weak is enough though threads wait for
locks, because calls are bounded in these models and a lock that is free stays
free when nobody else comes.  Nothing is assumed of beginnings, failures or
crashes.  `Operator` states that a valid resource is reconciled unless one
listed before it is invalid (`ResourcesConverge`) under weak fairness of the
operator's own loop, which `run` repeats for ever; edits and failures are bounded
in number and not fair.  The other runs check safety only.

`CHECK_DEADLOCK FALSE` is set where a bounded number of calls, runs, requests or
questions ends; the `ledger` run checks deadlock.

Properties that are conjunctions of named parts (`PartsKept`, `CompletionOwned`,
`ManifestsFaithful`, `AuditTrailComplete`, `BackupsRestore`, `RequestsPrepared`,
`RangesExact`, `DecisionsSound`: contract, plan, refusal and reducers of a unit,
training samples, tables and estimates; ...) group what one component promises.  The
type invariants that TLAPS proves (section 4) are not checked again by TLC;
`ReadsExtend` and `CursorDelivered` are proved, and were checked by TLC while the
proofs were written.

### Findings

1. **One upload, two manifests** (`multipart_one_manifest`, `adapters.py:163`).
   `complete_multipart_upload` opens the upload again after any exception of
   `put_object`, also one raised after the manifest was stored.
   `docs/08_IMPLEMENTATION_BLUEPRINT_CODEX.md:552`: "multipart uploads produce
   one manifest;".  That document calls itself a historical build specification
   (lines 3-5).
2. **Policy changes without audit** (`policy_audit`, `policy_store.py:31`).
   `active.json` is replaced before the event is appended; a failure in between
   leaves the change in force.  `docs/08…:359`: "policies cannot be changed
   without audit."; `docs/07_APIS_SCHEMAS_PROTOCOLS.md:291`: "Policy publishing
   should require authorization and should produce ledger events.".
3. **The exact cache forgets the policy** (`gateway_policy`,
   `ai_gateway.py:226`).  The exact key holds the request with its own options,
   not the policy in force, so an answer that was verified under one policy is
   served under the next.  `docs/04_REDUCTION_AND_AI_ALGORITHMS.md:379-383`:
   "Safe when: ... - same policy;".  The required verifiers run again on a hit
   (`ai_gateway.py:387`), so what a new policy rejects is not served; but the
   row is not deleted, and the request fails until it expires.
4. **A tombstone under legal hold** (`service_hold`, `executor.py:370`).  The
   manifest of a unit executed in mode "observe" has no lineage, and
   `delete_object` looks for a hold only there (`adapters.py:222`).
   `docs/06_POLICY_SECURITY_COMPLIANCE.md:341-346`: "Legal hold must block: -
   deletion; - tombstoning;".

Things the models show that no run is spent on:

- Ledger: a write that is cut short leaves bytes without a newline; there is no
  recovery, and every read raises from then on, acknowledged events included.
- Multipart: when the exception handler of `complete_multipart_upload` raises
  (`adapters.py:164-168`; the disk that made `put_object` fail may still be
  full), or clean-up does before `meta.json` is unlinked (266-276), the upload
  stays in "completing" while the process lives on, and every later call refuses it.
- Gateway: storing for semantic reuse asks for `semantic_cache_lookup` to be
  allowed and not for `cache_store`; `freshness_check`, `source_consistency` and
  `fallback_available` may be required and are never evaluated; a model that the
  request names is not compared with the policy's list when `model_route` is not
  applied (`ai_gateway.py:316`); high-risk routing takes the last of the list,
  the strongest only when the list is ordered; context messages over the limit
  are dropped, system messages among them.
- Policy: the contract a unit requests is ignored when a bundle is in force
  (`policy.py:131-138`, against `docs/03:219-229`); the fallback to
  `store_exact_bytes` is planned even when it is denied (`docs/08:425`: "action cannot run if
  not allowed by contract and policy."); in mode
  shadow the name check lets `model_route_shadow` through and never
  `semantic_cache_shadow`.
- Reducers: legal holds are not looked at; the default contract differs from the
  policy's for training data; the reducer of `rag_context_pack` may be on while
  the policy's default denies the look-up; four of six reducer actions are not in
  the registry.  From a duplicate map the samples of a training set can be
  restored up to white space and not in their order, whereas `training.py:29`
  speaks of reconstructing the original order.
- Service: an administrator bound to a tenant registers a plugin or publishes a
  policy that is stored while its event, of tenant "system", is refused;
  approvals are verified and never consumed; the lists of units and approvals
  are those of the tenant asked for, which the route alone compares.
- Recovery: two faults in one import can leave no state directory; imports of one
  process that overlap share the name of the directory they move aside.
- Checkpoints: putting an identifier again can make deltas refer to each other in
  a circle, which a read meets as a recursion error; and without that, a chain may
  be too long.  `read` nests one call for each manifest (`checkpoints.py:67`) and
  `put_delta` adds to a chain of any length it can read itself.  Called from the
  same depth of the stack, `read` has room for whatever `put_delta` put, whose own
  frame takes the place of the new delta's; called from further down it raises,
  although every file is whole.  `docs/04_REDUCTION_AND_AI_ALGORITHMS.md:126`
  asks to "Avoid long delta chains without compaction."; nothing in the code
  avoids or compacts them.
- POSIX: `put_file` without overwrite may replace a file that was created after
  it looked; `stat` and `read` may see different contents.
- `append_json_line` may write a part of a line without an error
  (`storage.py:77`).

## 4. Proofs

Each proof module shows, for every value of the constants the module's
assumptions allow, that an inductive invariant holds and what follows from it.

`LedgerProofs` proves, for any threads, processes, events and hash function,
that `TypeOK`, `ChainIntact`, `NoSilentLoss` and `ReadsExtend` hold, and that
`Ledger` implements `EventLog` (`LedgerImplementsLog`).  None but
the first is inductive.  The invariant adds who may be inside the lock together
with whom, that a thread in `append` knows the hash of the file's last line for
as long as it holds the lock, that the file is a chain of whole lines with at
most a damaged end, and that every acknowledged event is in the file or the file
is unreadable.  The refinement needs in addition that an event on its way to the
file is not in it yet and is no other thread's (`FreshInv`).  Since a writer only
starts on a readable file, a write either adds its whole line, which is one event at the
end of the log, or damages the last line, which is `Damage` (`WriteEffect`).

`OperationsProofs` has one part per module.  It proves `TableIntact` and that
`Database` implements `EventLog`
(`TableImplementsLog`), for any connections and events.  The advisory lock has at
most one holder, from its statement to the commit (`HolderInv`); so the hash the
holder has read is that of the last row and the number it draws is above all there are
(`WriterInv`, `RowsInv`), and an event belongs to one connection until it is in
the table (`EntryInv`).  It follows that the order of
the numbers is the order of the commits, and that each commit extends the log at
its end, which is the refinement.  `KeysOpen` holds for any callers and keys: the
shared lock of `get_key` keeps `create_key` out, so what `create_key` has read is
what is there when it writes, and a caller who found no master key cannot be
replacing one that a key in the file is still wrapped with (`KeyLockInv`,
`KeyCopyInv`).  `StatusHonest` holds for any number of resources, edits and
failures: a pass sees only specifications no newer than what users have
written since (`GenerationInv`), and has applied what is before its place in the
list (`PassInv`).  `FilesAccounted` holds for any files, bytes and processes:
whoever replaced a file last goes on to record it and, until somebody overtakes
it, finds its own bytes there (`BytesInv`, `SeesOwn`).  `MergeKeepsFiles` holds
for any files, areas, exports and imports: the file a merge is about to write was
missing when it looked, so it is missing still or was made since (`MergeInv`).
`KeysOpen` and `FilesAccounted` rest on one hypothesis about the value `None`, which
stands for a thread at rest: it is no call (`NoneIsNoCall`).

`BackupsRestore` holds for any files, included paths, writes, exports and imports.
An archive is faithful because of what an export under way has, of every file
nobody touched since it began: the file is listed once its area is behind, and
what is digested and copied of it is what it was then (`ExportInv`, `BackupInv`).
The state survives one fault because of what holds before any and after one
(`SurvivalInv`).  Before: no directory was made anew, imports do not share the
name under which they move the state aside, and when the state directory is not
there, an import has it aside and is about to move a new one in (`FaultlessInv`).
After: a directory was made anew or names were shared, never both; and when the
state directory is missing or made anew, an import is still about to move it
aside or another in, or a whole one is kept aside that no import is about to
remove (`FaultInv`).

`CheckpointsReadBack` holds for any block size, contents, threads, number of puts
and length of chains.  That a read gives only what was put under its identifier
needs no more than what each manifest that was read says of itself (`GivenInv`).
That it fails for nobody whose chain was there and within the room of its stack is
claimed while no identifier was used twice, and rests on four things: who puts is
alone with its files, which have no manifest yet (`OwnInv`); what a manifest names
is there and is what its delta was made from (`FilesInv`, `WriteInv`); so the
manifests a read has collected still stand, each a delta to the next
(`FollowInv`); and they are the first of those that led to a base when the read
began (`WayInv`).  Where that way is not at its end there is a manifest next, and
its length is within the room, so the read meets neither a missing file nor the
limit before the base (`NextOnWay`).  That a delta and the content it was made
from give back the content (`RebuiltWell`) is arithmetic about blocks: each block but
the last is whole, so what is joined before block i is the first (i - 1) *
BlockSize bytes of the content, and what the base has beyond it is cut off.

`MultipartProofs` proves `TypeOK`, `PartsKept`, `CompletionOwned` and
`DuplicatesNeedLateFailure` for any clients, parts and number of calls.  The lock
excludes only as long as there is a `meta.json`: until then every open handle is
of the lock file that is there (`LockInv`), and afterwards a call that gets a
lock finds nothing to do.  Inside the lock what a client has read is what is
there (`CopyInv`).  A completion is alone from its claim to its end, without the
lock in between, because the status it wrote keeps every other call out
(`CompletionInv`, `StageInv`); an upload is in "completing" without such a call
only after one that died, or raised in the handler that opens the upload again,
in clean-up or while its claim was synced (`cutShort`).  Parts in the course of an upload are in doubt for
everybody, and the others are recorded (`PartsInv`).  `CountInv` bounds the
objects: one fewer while the upload may still be completed.

`PolicyProofs` proves `TypeOK`, `ActiveResolvable`, `NamesStayActive` and
`AuditTellsActive` for any clients, names, versions and number of calls. The
invariant adds that whoever is between reading and replacing `active.json` holds
the lock and has a copy equal to the file (`LockInv`, `CopyInv`), that a
thread's call names a real name and version from the step on that uses them
(`CallInv`), and that a version about to become active has its record
(`RecordInv`). For the ledger it adds that a name whose changes have neither
overlapped nor been cut off has at most one change between the file and its
event, that the file has that change's version, and that without one the
ledger's last change is the file's (`ToldInv`).

The same module proves what the pure algorithms compute, for every input and not
only those of `MCDecisions`: `DecisionsSound` with its parts
`ReductionsLossless` and `ImpactHonest`, `DeferralMeetsDeadline`, `RangesExact`
and `RequestsPrepared`. `AnswerInv` says that a question stays the one that was
asked and that its answer is what the algorithm gives; the rest is about the
algorithms. `DeferralMeetsDeadline` is arithmetic on the comparisons of
`schedule_job`. `RangesExact` and `RequestsPrepared` are about loops. The model
has each loop as a recursive function over the number of steps, and two lemmas
replace the induction theorems the prover cannot use: `UpTo` (a set that holds 0
and with each number below N its successor holds all up to N, by a least
counterexample) and `Iterated` (from a first state and a next one there is the
sequence of the first N states, which is what makes the recursive function
defined). The loop invariants are: what `content_defined_chunks` has cut before
each byte follows on without a gap and within the limits (`ChunksOfTiled`); what
`rehydrate_manifest_range` has joined when the bytes before a point are read is
the part of the range before that point; what `compile_context` has kept of the
messages up to each position holds all that fits and nothing twice; and what
`compile_openai_messages` sends of them keeps its order, and all of it when it
is compiled again.

`DecisionsSound` follows the decision into the plan.  A contract's strictness is a
number of its own, so the least of those that match belongs to a rule that
matches (`StrictestIs`); with it `BundleDecides` says what a bundle makes of a
unit, and what a legal hold leaves of that.  A plan is the candidates of the unit
with the denied ones taken out and the safety actions put back: `FilteredIs` and
`InsertedIs` say which actions are in it, and that none is twice, whatever the
order of the list; `SupportedBy` compares the registry's contracts with the
decision's, and `PlanIs` joins them into the exact condition for a refusal.
`VerificationIs` and `EnabledIs` turn the reducer's scan for its latest verdict
into "one accepted and none rejected later".

`ReductionsLossless` is about sums.  `InOrder` and `SumAt` are the last values of
recursive functions, so each fact about them is a step lemma and `UpTo`: the
positions picked are those wanted and ascend; a sum splits over disjoint sets of
positions (`SumOfUnion`) and depends on nothing but the values there
(`SumsEqual`).  Joining moves the sizes and rows of a group to its first file, so
the sum over the partition stays; and what is left of a group is one file, too
few for another group of two (`NothingLeft`), which is where
the property's `least >= 2` is needed.  `ImpactHonest` is arithmetic with two
facts at its heart: the share of tokens that are not sent is between none and all, and
grows with the cache's hit rate whatever the coverage and the saved context are.
Both are proved over the at most five values each rate has, since products of
unknowns are beyond the solver.

`EdgeSyncProofs` proves `TypeOK`, `DeliveredInOrder`, `CursorDelivered`,
`CursorAdvances` and `DuplicatesNeedCut` for any clients, events, batch limit
and number of calls. A batch is the piece of the ledger right after the cursor,
so what precedes one of its events in the ledger is at the sink or before it in
the batch (`BatchInv`), and remains so whenever the sink gets to it, since
neither the past of the ledger nor that of the sink changes (`Distinct`,
`Known`). The cursor advances because the batch of the one call that is inside
the lock lies after it (`LockInv`, `AheadInv`), and names a delivered event
because that call has seen its whole batch accepted (`SentInv`, `AcceptedInv`).
Until a call is cut off, what has arrived is behind the cursor or in the batch
that is waited for (`ReachInv`), so a new batch is new to the sink, and only the
call that waits has anything left to be accepted (`OpenInv`).

`ExecuteProofs` proves every safety property of the `execute` run, for any
threads, codec libraries, requests and number of runs.  For the store: whoever
writes a chunk has the lock from its reading of `index.json` to its replacement,
so its copy is the index and the chunk it writes is not in it (`LockInv`,
`CopyInv`), the file is there before the entry (`FileInv`), and no index entry
ever changes.  For the runs: each thread has a run of its own (`RunInv`), what
it has stored and what it has still to store make up the request (`ProgressInv`)
and stays indexed (`StoredInv`), the trail is as long as its place in the
program says (`AuditInv`), and only what was allowed is on its way (`AllowedInv`).
From `ManifestInv`, that a manifest covers its request with indexed segments,
follows that `Execute` implements `ObjectStore`: each step stores one whole
object or leaves all objects as they are.

`GatewayProofs` proves `TypeOK`, `RowsVouched`, `HitsFaithful`,
`ServedAccounted` and `FreshRowsKept` for any requests, answers, similarity,
policies and number of handlers.  The invariant adds what a handler has behind
it at each label (`UnitInv`) and that whoever put a row into a cache is past the
label where it did (`PastInv`).  From there on no step changes its request,
policy or answer (`Standing`), so it keeps vouching for the row and for every
copy another handler has read, however long ago that was and whatever has
happened to the table since.  `StoryInv` says, label by
label, which events a handler has in its trail, and with which plan, feedback and
manifest; no other handler touches them, and at the last label they are the
trail, feedback and manifest that `ServedAccounted` asks for.  A handler about to
delete a row has read one that had expired or was rejected (`DropInv`), which the
clock never takes back; so a row that could be served is not the one it read.

`ServiceProofs` proves every property of the `service` run for any principals,
requests, demands and number of handler threads.  `IInv`: from its admission to
its answer a call keeps the request it was admitted with, so the tenant that
request names stays one its principal may act for; records and events belong to
tenants their author may act for; an event that is still to be appended is the
call's own; and a manifest on its way to become a tombstone was written by one who
might write it.  `SInv`: the files only evolve (`Evolves`): no record goes, and none
changes but a manifest without a hold, into its tombstone, and a plugin that is
registered again, into another descriptor.  So what `delete_object`
has read is what is there when it writes, tombstoned or not (`Dooms`); an execution
keeps the approval it was compared with (`Cleared`); and an event on its way tells
of a record that is there, and only that of a plugin may still be refused
(`Announces`), so the event of whoever wrote a record last is written, lost with
its call, or on its way (`AuditInv`).  `RoleInv`: the label of a call tells which permission its
path needed, whichever front end it came to (`RoutesRouted`, `AdmittedDeed`), and
so whoever writes has a role for it.  All but `Isolated` rest on one hypothesis
about the value `None`, which stands for a missing file and an idle thread: it is
neither a file nor a call (`NoneIsNoRecord`).

Only model-checked: liveness.  `CallsEnd`, `RunsEnd` and `ResourcesConverge` hold
under fairness, which is outside what the prover handles.  Every safety property
that a passing run checks is a theorem.

The assumptions are those the modules declare for their constants: `None` is
no value of the data, bounds are natural numbers, requests have their fields,
hashes are distinct, a configured token has a tenant; the files have an order in
which a directory is listed and at least one path is included
(`RecoveryAssumption`); contents are sequences of bytes (`CheckpointAssumption`);
times and sizes are integers, a chunk may have at least one byte and at most as
many as its maximum, which is what the code checks before it cuts
(`JobAssumption`, `RangeAssumption`); messages have tokens counted in natural numbers
and a policy names at least one model (`PromptAssumption`, `RoutingAssumption`);
a unit and the rules of a bundle ask for contracts that exist, as `contracts.py` and
the loader of bundles require (`UnitAssumption`, `BundleAssumption`); a reducer that
is asked for is one of `REDUCER_SPECS` and a verification accepts or rejects
(`ReductionAssumption`); files have sizes and rows that are natural numbers, while
the sizes asked of a compaction and the amounts of a scenario are any integers,
since the code itself refuses those that make no sense (`TableAssumption`,
`ScenarioAssumption`).
TLC evaluates them in the runs that extend the modules.

## 5. Not modelled

- Formatting, JSON encoding, hashing, compression, signatures and encryption
  themselves; wall-clock time except the clocks of `AnswerCache` and `Service`.
- `purge_expired` of the response cache, which nothing calls, and the cache
  tables in memory, which the service does not use.  The branch of `lookup_hit`
  that deletes a rejected best match cannot be reached: only accepted answers are
  stored there, and the verifier is the same.
- The SQLite and PostgreSQL back ends of the manifest store, which keep the same
  contract in single statements; the loading of a plugin's Python module;
  archives that no export made.
- Prompt units that the service executes pass through the gateway; `Service`
  keeps the record such a unit leaves, and `Gateway` models the path, but no run
  composes the two.
- Platform profiles and live cloud adapters (thin clients of external stores),
  observability, command line, release and benchmark tooling, the Rust crates
  (small pure functions the Python code does not call), and the Go and
  TypeScript clients: no protocol state of their own.

## 6. Plan

The parts of the plan that were carried out are the modules above, from the
ledger outwards.  What is left:

1. A composition of `Service` with `Gateway` and `PolicyStore`, in which a policy
   changes between the admission of a request and its execution.
