---------------------------- MODULE ExecuteProofs ----------------------------
(***************************************************************************)
(* For any threads, codecs, requests and number of runs: the index of the  *)
(* chunk store tells the truth about the chunk files and loses nothing.    *)
(*                                                                         *)
(* The writer of a chunk has the lock from its reading of index.json to    *)
(* its replacement, and stores only a chunk that is not in the index; so   *)
(* nobody needs the file it replaces.                                      *)
(***************************************************************************)
EXTENDS Execute, FiniteSetTheorems, TLAPS

Writing == {"file", "index"}

(* Who stores a chunk has the lock.                                        *)
LockInv == \A t \in Thread : storePc[t] \in Writing <=> holder = t

(* Who has an open store finds an index.                                   *)
OpenInv == \A t \in Thread : storePc[t] \in {"open", "put"} \cup Writing => index # None

(* The copy of the index a writer has is the index, without its chunk.     *)
CopyInv ==
  \A t \in Thread : storePc[t] \in Writing =>
    todo[t] # << >> /\ copy[t] = index /\ index[Head(todo[t]).key] = None

(* The chunk file is written before the index names it.                    *)
FileInv ==
  \A t \in Thread : storePc[t] = "index" =>
    chunkFile[Head(todo[t]).key] = Head(todo[t]).codec

StoreInv == StoreTypeOK /\ LockInv /\ OpenInv /\ CopyInv /\ FileInv /\ IndexedOnDisk

(* What a run can do to the store.                                         *)
StoreMove(t) ==
  \/ StoreStep(t)
  \/ \E segments \in Seq(Segment) : BeginPutChunks(t, segments)
  \/ LeaveStore(t)
-----------------------------------------------------------------------------
(* Sequences of work, in the terms the steps use them.                     *)
LEMMA HeadAndTail ==
  ASSUME NEW S, NEW s \in Seq(S), s # << >>
  PROVE  /\ Head(s) \in S /\ Tail(s) \in Seq(S)
         /\ Len(s) > 0 /\ Len(Tail(s)) = Len(s) - 1
         /\ Head(s) = s[1]
         /\ \A i \in 1..Len(Tail(s)) : Tail(s)[i] = s[i + 1]
  OBVIOUS

LEMMA EmptyIsSeq == ASSUME NEW S PROVE << >> \in Seq(S)
  OBVIOUS

LEMMA AppendIsSeq ==
  ASSUME NEW S, NEW s \in Seq(S), NEW e \in S PROVE Append(s, e) \in Seq(S)
  OBVIOUS

LEMMA WorkProperties ==
  ASSUME StoreTypeOK, NEW t \in Thread, todo[t] # << >>
  PROVE  /\ Head(todo[t]) \in Segment
         /\ Head(todo[t]).key \in Key /\ Head(todo[t]).codec \in Codec
         /\ Tail(todo[t]) \in Seq(Segment)
  <1>1. todo[t] \in Seq(Segment)
    BY DEF StoreTypeOK
  <1>2. Head(todo[t]) \in Segment /\ Tail(todo[t]) \in Seq(Segment)
    BY <1>1, HeadAndTail
  <1> QED
    BY <1>2 DEF Segment

(* An entry of the index, as put_chunk returns it.                         *)
LEMMA NoEntriesType == NoEntries \in Entries
  BY DEF NoEntries, Entries

LEMMA KnownEntry ==
  ASSUME StoreTypeOK, NEW k \in Key, Known(k), index # None
  PROVE  /\ index \in Entries /\ index[k] \in Codec
         /\ [key |-> k, codec |-> index[k]] \in Segment
  BY DEF StoreTypeOK, Known, Entries, Segment

LEMMA StoreTypeStep ==
  ASSUME StoreInv, NEW t \in Thread, StoreMove(t)
  PROVE  StoreTypeOK'
  <1> USE DEF StoreInv, StoreTypeOK, StoreGoto, storeFiles
  <1>1. CASE OpenStore(t)
    BY <1>1 DEF OpenStore
  <1>2. CASE CreateIndex(t)
    <2>1. IndexToCreate \in Entries
      BY NoEntriesType DEF IndexToCreate
    <2> QED
      BY <1>2, <2>1 DEF CreateIndex
  <1>3. CASE DedupeHit(t)
    <2> DEFINE k == Head(todo[t]).key
               entry == [key |-> k, codec |-> index[k]]
    <2>1. /\ todo[t] \in Seq(Segment) /\ todo[t] # << >> /\ storePc[t] = "put"
          /\ Known(k) /\ Stored(t, entry)
      BY <1>3 DEF DedupeHit
    <2>2. k \in Key /\ Tail(todo[t]) \in Seq(Segment)
      BY <2>1, WorkProperties
    <2>3. entry \in Segment
      BY <2>1, <2>2, KnownEntry DEF OpenInv
    <2>4. stored' \in [Thread -> Seq(Segment)] /\ todo' \in [Thread -> Seq(Segment)]
      BY <2>1, <2>2, <2>3, AppendIsSeq DEF Stored
    <2> QED
      BY <1>3, <2>1, <2>4 DEF DedupeHit, Stored
  <1>4. CASE BeginStore(t)
    <2>1. index \in Entries
      BY <1>4 DEF BeginStore, OpenInv
    <2> QED
      BY <1>4, <2>1 DEF BeginStore
  <1>5. CASE WriteChunkFile(t)
    <2>1. Head(todo[t]).key \in Key /\ Head(todo[t]).codec \in Codec
      BY <1>5, WorkProperties DEF WriteChunkFile, CopyInv, Writing
    <2> QED
      BY <1>5, <2>1 DEF WriteChunkFile, Entries
  <1>6. CASE WriteIndex(t)
    <2>1. todo[t] # << >>
      BY <1>6 DEF WriteIndex, CopyInv, Writing
    <2>2. Head(todo[t]) \in Segment /\ Tail(todo[t]) \in Seq(Segment)
      BY <2>1, WorkProperties
    <2>3. index' \in Entries
      BY <1>6, <2>1, WorkProperties DEF WriteIndex, Entries
    <2>4. stored' \in [Thread -> Seq(Segment)] /\ todo' \in [Thread -> Seq(Segment)]
      BY <1>6, <2>2, AppendIsSeq DEF WriteIndex, Stored
    <2>5. copy' \in [Thread -> Entries] /\ holder' \in Thread \cup {None}
      BY <1>6, NoEntriesType DEF WriteIndex, Unlocked
    <2> QED
      BY <1>6, <2>3, <2>4, <2>5 DEF WriteIndex, Stored
  <1>7. ASSUME NEW segments \in Seq(Segment), BeginPutChunks(t, segments) PROVE StoreTypeOK'
    BY <1>7 DEF BeginPutChunks
  <1>8. CASE LeaveStore(t)
    BY <1>8, EmptyIsSeq, NoEntriesType DEF LeaveStore
  <1> QED
    BY <1>1, <1>2, <1>3, <1>4, <1>5, <1>6, <1>7, <1>8 DEF StoreMove, StoreStep

LEMMA LockStep ==
  ASSUME StoreInv, NEW t \in Thread, StoreMove(t)
  PROVE  LockInv' /\ OpenInv'
  <1> USE StoreNoneAssumption
      DEF StoreInv, StoreTypeOK, LockInv, OpenInv, Writing, StoreGoto, storeFiles
  <1>1. CASE OpenStore(t)
    BY <1>1 DEF OpenStore
  <1>2. CASE CreateIndex(t)
    <2>1. IndexToCreate # None
      BY NoEntriesType DEF IndexToCreate
    <2> QED
      BY <1>2, <2>1 DEF CreateIndex
  <1>3. CASE DedupeHit(t)
    BY <1>3 DEF DedupeHit, Stored
  <1>4. CASE BeginStore(t)
    BY <1>4 DEF BeginStore, MayEnter
  <1>5. CASE WriteChunkFile(t)
    BY <1>5 DEF WriteChunkFile
  <1>6. CASE WriteIndex(t)
    <2>1. index' \in Entries
      BY <1>6, WorkProperties DEF WriteIndex, CopyInv, Entries
    <2>2. index' # None /\ holder = t /\ holder' = None
      BY <1>6, <2>1 DEF WriteIndex, Unlocked
    <2> QED
      BY <1>6, <2>2 DEF WriteIndex, Stored
  <1>7. ASSUME NEW segments \in Seq(Segment), BeginPutChunks(t, segments)
        PROVE  LockInv' /\ OpenInv'
    BY <1>7 DEF BeginPutChunks
  <1>8. CASE LeaveStore(t)
    BY <1>8 DEF LeaveStore
  <1> QED
    BY <1>1, <1>2, <1>3, <1>4, <1>5, <1>6, <1>7, <1>8 DEF StoreMove, StoreStep

(* A thread outside the lock finds no work of a writer changed by it.      *)
LEMMA CopyStep ==
  ASSUME StoreInv, NEW t \in Thread, StoreMove(t)
  PROVE  CopyInv' /\ FileInv' /\ IndexedOnDisk'
  <1> USE StoreNoneAssumption
      DEF StoreInv, StoreTypeOK, LockInv, OpenInv, CopyInv, FileInv, IndexedOnDisk, Entry,
          Writing, StoreGoto, storeFiles
  <1>1. CASE OpenStore(t)
    BY <1>1 DEF OpenStore
  <1>2. CASE CreateIndex(t)
    BY <1>2 DEF CreateIndex, IndexToCreate, NoEntries
  <1>3. CASE DedupeHit(t)
    BY <1>3 DEF DedupeHit, Stored
  <1>4. CASE BeginStore(t)
    BY <1>4, WorkProperties DEF BeginStore, Known, MayEnter
  <1>5. CASE WriteChunkFile(t)
    BY <1>5, WorkProperties DEF WriteChunkFile, Entries
  <1>6. CASE WriteIndex(t)
    <2> DEFINE s == Head(todo[t])
    <2>1. /\ holder = t /\ todo[t] # << >> /\ copy[t] = index /\ index \in Entries
          /\ chunkFile[s.key] = s.codec /\ index # None
      BY <1>6 DEF WriteIndex
    <2>2. s.key \in Key /\ s.codec \in Codec
      BY <2>1, WorkProperties
    <2>3. index' = [index EXCEPT ![s.key] = s.codec] /\ chunkFile' = chunkFile
      BY <1>6, <2>1 DEF WriteIndex
    <2>4. \A u \in Thread : storePc'[u] \notin Writing
      <3>1. storePc' = [storePc EXCEPT ![t] = "put"]
        BY <1>6 DEF WriteIndex, Stored
      <3> QED BY <2>1, <3>1
    <2>5. CopyInv' /\ FileInv'
      BY <2>4
    <2>6. \A k \in Key : index'[k] = IF k = s.key THEN s.codec ELSE index[k]
      BY <2>1, <2>2, <2>3 DEF Entries
    <2>7. \A k \in Key : index[k] # None => chunkFile[k] = index[k]
      BY <2>1
    <2> HIDE DEF s
    <2>8. IndexedOnDisk'
      BY <2>1, <2>3, <2>6, <2>7
    <2> QED BY <2>5, <2>8
  <1>7. ASSUME NEW segments \in Seq(Segment), BeginPutChunks(t, segments)
        PROVE  CopyInv' /\ FileInv' /\ IndexedOnDisk'
    BY <1>7 DEF BeginPutChunks
  <1>8. CASE LeaveStore(t)
    BY <1>8 DEF LeaveStore
  <1> QED
    BY <1>1, <1>2, <1>3, <1>4, <1>5, <1>6, <1>7, <1>8 DEF StoreMove, StoreStep
-----------------------------------------------------------------------------
(* The runs: what a step of Next is to the store.                          *)
LEMMA NewSegmentType ==
  ASSUME NEW t \in Thread, NEW q \in Request, NEW c \in Chunk
  PROVE  NewSegment(t, q, c) \in Segment
  <1>1. q.namespace \in Namespace /\ q.mode \in Mode
    BY RequestAssumption
  <1>2. [namespace |-> StorageNamespace(q), chunk |-> c] \in Key
    BY <1>1, KeyAssumption DEF StorageNamespace
  <1>3. (IF q.compress /\ c \in Compressible THEN Library[t] ELSE "raw") \in Codec
    BY LibraryAssumption DEF Codec
  <1> QED
    BY <1>2, <1>3 DEF NewSegment, Segment

(* Every thread in a run has one of its own.                               *)
RunInv ==
  /\ \A t \in Thread : pc[t] # "idle" => run[t] \in Run /\ request[run[t]] \in Request
  /\ \A t, u \in Thread : pc[t] # "idle" /\ pc[u] # "idle" /\ run[t] = run[u] => t = u

LEMMA RequestChunks ==
  ASSUME RunInv, NEW t \in Thread, pc[t] # "idle"
  PROVE  /\ run[t] \in Run /\ My(t) \in Request /\ My(t).chunks \in Seq(Chunk)
         /\ [i \in DOMAIN My(t).chunks |-> NewSegment(t, My(t), My(t).chunks[i])] \in Seq(Segment)
  <1>1. run[t] \in Run /\ My(t) \in Request
    BY DEF RunInv, My
  <1>2. My(t).chunks \in Seq(Chunk)
    BY <1>1, RequestAssumption
  <1>3. \A i \in DOMAIN My(t).chunks : NewSegment(t, My(t), My(t).chunks[i]) \in Segment
    BY <1>1, <1>2, NewSegmentType
  <1> QED
    BY <1>1, <1>2, <1>3

LEMMA StoreCases ==
  ASSUME RunInv, [Next]_vars
  PROVE  UNCHANGED storeVars \/ \E t \in Thread : StoreMove(t)
  <1>1. ASSUME NEW t \in Thread, PutChunks(t) PROVE StoreMove(t)
    BY <1>1, RequestChunks DEF PutChunks, StoreMove
  <1>2. ASSUME NEW t \in Thread, Step(t) \/ Stop(t) PROVE UNCHANGED storeVars \/ StoreMove(t)
    BY <1>1, <1>2 DEF Step, Stop, StoreMove, StoreOpened, Deny, Receive, Evaluate, StorePlan,
       PlanCreated, InStore, ChunkUnreadable, ChunksStored, ActionExecuted, Verify,
       StoreManifest, ManifestWritten, AdapterExecuted, Return, Finish, AuditStep
  <1>3. ASSUME NEW t \in Thread, NEW q \in Request, Begin(t, q) PROVE UNCHANGED storeVars
    BY <1>3 DEF Begin
  <1> QED
    BY <1>2, <1>3 DEF Next, vars

LEMMA StoreInvStep ==
  ASSUME StoreInv, RunInv, [Next]_vars
  PROVE  StoreInv'
  <1>1. CASE UNCHANGED storeVars
    BY <1>1 DEF storeVars, storeFiles, StoreInv, StoreTypeOK, LockInv, OpenInv, CopyInv, FileInv,
       IndexedOnDisk, Entry
  <1>2. CASE \E t \in Thread : StoreMove(t)
    BY <1>2, StoreTypeStep, LockStep, CopyStep DEF StoreInv
  <1> QED
    BY <1>1, <1>2, StoreCases

(* What a step is to the thread's place in execute_exact_object.           *)
Labels == {"idle", "open", "deny", "receive", "evaluate", "plan", "planned", "put",
           "store", "audit", "manifest", "written", "adapter", "end"}

Moves(t) ==
  /\ pc[t] # "idle"
  /\ \E label \in Labels \ {"idle"} :
       /\ Goto(t, label)
       /\ pc[t] \in {"written", "adapter", "end"} => label \in {"adapter", "end"}
  /\ UNCHANGED <<run, request>>

Ends(t) == pc[t] # "idle" /\ Finish(t)

LEMMA ControlCases ==
  ASSUME [Next]_vars
  PROVE  \/ UNCHANGED control
         \/ \E t \in Thread : (\E q \in Request : Begin(t, q)) \/ Moves(t) \/ Ends(t)
  <1>1. ASSUME NEW t \in Thread, Step(t) PROVE UNCHANGED control \/ Moves(t) \/ Ends(t)
    <2> USE DEF Moves, Labels
    <2>2. CASE StoreOpened(t)
      BY <2>2 DEF StoreOpened, FirstStep
    <2>3. CASE Deny(t) \/ ChunkUnreadable(t) \/ Return(t)
      BY <2>3 DEF Deny, ChunkUnreadable, Return, Ends
    <2>4. CASE Receive(t) \/ Evaluate(t) \/ PlanCreated(t) \/ ActionExecuted(t)
               \/ ManifestWritten(t) \/ AdapterExecuted(t)
      BY <2>4 DEF Receive, Evaluate, PlanCreated, ActionExecuted, ManifestWritten,
         AdapterExecuted, AuditStep
    <2>5. CASE StorePlan(t) \/ PutChunks(t) \/ ChunksStored(t) \/ StoreManifest(t)
      BY <2>5 DEF StorePlan, PutChunks, ChunksStored, StoreManifest, AfterManifest
    <2>6. CASE InStore(t)
      BY <2>6 DEF InStore
    <2>7. CASE Verify(t)
      BY <2>7 DEF Verify, Ends
    <2> QED
      BY <1>1, <2>2, <2>3, <2>4, <2>5, <2>6, <2>7 DEF Step
  <1>2. ASSUME NEW t \in Thread, Stop(t) PROVE Ends(t)
    BY <1>2 DEF Stop, Ends
  <1> QED
    BY <1>1, <1>2 DEF Next, vars, control

LEMMA RunStep ==
  ASSUME TypeOK, RunInv, [Next]_vars
  PROVE  /\ RunInv'
         /\ pc' \in [Thread -> Labels] /\ run' \in [Thread -> 0..MaxRuns]
         /\ request' \in [Run -> Request \cup {None}]
  <1> USE RunsAssumption DEF TypeOK, RunInv, Run, Goto, Labels
  <1>1. CASE UNCHANGED control
    BY <1>1 DEF control
  <1>2. ASSUME NEW t \in Thread, NEW q \in Request, Begin(t, q)
        PROVE  /\ RunInv'
               /\ pc' \in [Thread -> Labels] /\ run' \in [Thread -> 0..MaxRuns]
               /\ request' \in [Run -> Request \cup {None}]
    <2>1. PICK r \in Run : /\ request[r] = None
                           /\ run' = [run EXCEPT ![t] = r]
                           /\ request' = [request EXCEPT ![r] = q]
      BY <1>2 DEF Begin
    <2>2. \A u \in Thread : pc[u] # "idle" => run[u] # r
      BY <2>1
    <2> QED
      BY <1>2, <2>1, <2>2 DEF Begin
  <1>3. ASSUME NEW t \in Thread, Moves(t)
        PROVE  /\ RunInv'
               /\ pc' \in [Thread -> Labels] /\ run' \in [Thread -> 0..MaxRuns]
               /\ request' \in [Run -> Request \cup {None}]
    BY <1>3 DEF Moves
  <1>4. ASSUME NEW t \in Thread, Ends(t)
        PROVE  /\ RunInv'
               /\ pc' \in [Thread -> Labels] /\ run' \in [Thread -> 0..MaxRuns]
               /\ request' \in [Run -> Request \cup {None}]
    <2>1. /\ pc' = [pc EXCEPT ![t] = "idle"] /\ run' = [run EXCEPT ![t] = 0]
          /\ request' = request
      BY <1>4 DEF Ends, Finish
    <2>2. \A u \in Thread : pc'[u] # "idle" => u # t /\ pc'[u] = pc[u] /\ run'[u] = run[u]
      BY <2>1
    <2> QED
      BY <2>1, <2>2
  <1> QED
    BY <1>1, <1>2, <1>3, <1>4, ControlCases

(* The records only grow, and by whole entries.                            *)
LEMMA RecordsStep ==
  ASSUME TypeOK, RunInv, [Next]_vars
  PROVE  /\ trail' \in [Run -> Seq(Event)]
         /\ plans' \subseteq Run /\ stopped' \subseteq Run
         /\ manifests' \in [Run -> Manifest \cup {None}]
  <1> USE DEF TypeOK, Event
  <1>1. ASSUME NEW t \in Thread, NEW event \in Event, pc[t] # "idle", Audit(t, event)
        PROVE  trail' \in [Run -> Seq(Event)]
    <2>1. run[t] \in Run /\ trail[run[t]] \in Seq(Event)
      BY <1>1 DEF RunInv
    <2>2. Append(trail[run[t]], event) \in Seq(Event)
      BY <1>1, <2>1, AppendIsSeq
    <2> QED
      BY <1>1, <2>2 DEF Audit
  <1>2. ASSUME NEW t \in Thread, Step(t)
        PROVE  /\ trail' \in [Run -> Seq(Event)]
               /\ plans' \subseteq Run /\ stopped' \subseteq Run
               /\ manifests' \in [Run -> Manifest \cup {None}]
    <2>1. CASE Receive(t) \/ Evaluate(t) \/ PlanCreated(t) \/ ActionExecuted(t)
               \/ ManifestWritten(t) \/ AdapterExecuted(t)
      BY <1>1, <2>1 DEF Receive, Evaluate, PlanCreated, ActionExecuted, ManifestWritten,
         AdapterExecuted, AuditStep
    <2>2. CASE Deny(t)
      BY <1>1, <2>2 DEF Deny, RunInv
    <2>3. CASE StoreManifest(t)
      <3>1. run[t] \in Run /\ My(t) \in Request
        BY <2>3 DEF StoreManifest, RunInv, My
      <3>2. ManifestState(My(t)) \in {"planned", "superseded", "active"}
        BY <3>1, RequestAssumption DEF ManifestState, Mode
      <3>3. [state |-> ManifestState(My(t)), segments |-> stored[t]] \in Manifest
        BY <3>2 DEF Manifest, StoreTypeOK
      <3> QED
        BY <2>3, <3>1, <3>3 DEF StoreManifest
    <2>4. CASE StorePlan(t)
      BY <2>4 DEF StorePlan, RunInv
    <2>5. CASE ChunkUnreadable(t) \/ Verify(t)
      BY <2>5 DEF ChunkUnreadable, Verify, records, RunInv
    <2>6. CASE StoreOpened(t) \/ PutChunks(t) \/ InStore(t) \/ ChunksStored(t) \/ Return(t)
      BY <2>6 DEF StoreOpened, PutChunks, InStore, ChunksStored, Return, records
    <2> QED
      BY <1>2, <2>1, <2>2, <2>3, <2>4, <2>5, <2>6 DEF Step
  <1>3. ASSUME NEW t \in Thread, Stop(t)
        PROVE  UNCHANGED records /\ stopped' \subseteq Run
    BY <1>3 DEF Stop, RunInv
  <1> QED
    BY <1>2, <1>3 DEF Next, vars, Begin, records

LEMMA TypeStep ==
  ASSUME TypeOK, StoreInv, RunInv, [Next]_vars
  PROVE  TypeOK'
  BY StoreInvStep, RunStep, RecordsStep DEF TypeOK, StoreInv, Labels
-----------------------------------------------------------------------------
(* What the index says of a chunk it says for ever.                        *)
LEMMA EntryStays ==
  ASSUME StoreInv, RunInv, [Next]_vars, NEW k \in Key, Entry(k) # None
  PROVE  Entry(k)' = Entry(k)
  <1> USE DEF StoreInv, StoreTypeOK, Entry, StoreGoto, storeFiles
  <1>1. CASE UNCHANGED storeVars
    BY <1>1 DEF storeVars
  <1>2. ASSUME NEW t \in Thread, StoreMove(t) PROVE Entry(k)' = Entry(k)
    <2>1. CASE CreateIndex(t)
      BY <2>1 DEF CreateIndex, IndexToCreate
    <2>2. CASE WriteIndex(t)
      <3>1. /\ todo[t] # << >> /\ copy[t] = index /\ index[Head(todo[t]).key] = None
        BY <2>2 DEF WriteIndex, CopyInv, Writing
      <3>2. index' \in Entries
        BY <2>2, <3>1, WorkProperties DEF WriteIndex, Entries
      <3>3. index' # None /\ index'[k] = index[k] /\ index # None
        BY <2>2, <3>1, <3>2, WorkProperties, StoreNoneAssumption DEF WriteIndex, Entries
      <3> QED
        BY <3>3
    <2> QED
      BY <1>2, <2>1, <2>2 DEF StoreMove, StoreStep, OpenStore, DedupeHit, BeginStore,
         WriteChunkFile, BeginPutChunks, LeaveStore
  <1> QED
    BY <1>1, <1>2, StoreCases

(* These segments can be read back, now and later.                         *)
Indexed(segments) ==
  \A i \in DOMAIN segments : Entry(segments[i].key) = segments[i].codec

LEMMA IndexedStays ==
  ASSUME StoreInv, RunInv, [Next]_vars, NEW segments \in Seq(Segment), Indexed(segments)
  PROVE  Indexed(segments)'
  <1> SUFFICES ASSUME NEW i \in DOMAIN segments
               PROVE  Entry(segments[i].key)' = segments[i].codec
    BY DEF Indexed
  <1>1. segments[i] \in Segment
    OBVIOUS
  <1>2. segments[i].key \in Key /\ segments[i].codec \in Codec
    BY <1>1 DEF Segment
  <1>3. Entry(segments[i].key) = segments[i].codec
    BY DEF Indexed
  <1> QED
    BY <1>2, <1>3, EntryStays, StoreNoneAssumption

LEMMA IndexedAppend ==
  ASSUME NEW segments \in Seq(Segment), Indexed(segments),
         NEW segment \in Segment, Entry(segment.key) = segment.codec
  PROVE  Indexed(Append(segments, segment))
  BY DEF Indexed

(* Done and still to do are the chunks of the request.                     *)
Covers(done, left, chunks) ==
  /\ Len(done) + Len(left) = Len(chunks)
  /\ \A i \in 1..Len(done) : done[i].key.chunk = chunks[i]
  /\ \A i \in 1..Len(left) : left[i].key.chunk = chunks[Len(done) + i]

LEMMA CoversNext ==
  ASSUME NEW done \in Seq(Segment), NEW left \in Seq(Segment), left # << >>,
         NEW chunks \in Seq(Chunk), Covers(done, left, chunks),
         NEW segment \in Segment, segment.key = Head(left).key
  PROVE  Covers(Append(done, segment), Tail(left), chunks)
  <1>1. /\ Len(left) > 0 /\ Len(Tail(left)) = Len(left) - 1 /\ Head(left) = left[1]
        /\ \A i \in 1..Len(Tail(left)) : Tail(left)[i] = left[i + 1]
    BY HeadAndTail
  <1>2. /\ Len(Append(done, segment)) = Len(done) + 1
        /\ Append(done, segment)[Len(done) + 1] = segment
        /\ \A i \in 1..Len(done) : Append(done, segment)[i] = done[i]
    OBVIOUS
  <1>3. segment.key.chunk = chunks[Len(done) + 1]
    BY <1>1 DEF Covers
  <1> QED
    BY <1>1, <1>2, <1>3 DEF Covers

(* What a run has stored is indexed; all of it is its request's.           *)
StoredInv == \A t \in Thread : Indexed(stored[t])

Unstarted == {"idle", "open", "deny", "receive", "evaluate", "plan", "planned", "put"}

Progress(t, q) ==
  /\ pc[t] = "idle" => storePc[t] = "out"
  /\ pc[t] = "open" => storePc[t] \in {"out", "create", "open"}
  /\ pc[t] \in Unstarted => stored[t] = << >>
  /\ pc[t] = "store" => Covers(stored[t], todo[t], q.chunks)
  /\ pc[t] = "audit" => Covers(stored[t], << >>, q.chunks)
  /\ pc[t] = "manifest" /\ q.mode # "observe" => Covers(stored[t], << >>, q.chunks)

ProgressInv == \A t \in Thread : Progress(t, My(t))

(* What one step of the store stores is in the index after it.             *)
LEMMA StoredStep ==
  ASSUME StoreInv, RunInv, StoredInv, [Next]_vars
  PROVE  StoredInv'
  <1>1. ASSUME NEW u \in Thread, stored'[u] = stored[u] PROVE Indexed(stored[u])'
    <2>1. PICK segments \in Seq(Segment) : segments = stored[u]
      BY DEF StoreInv, StoreTypeOK
    <2>2. Indexed(segments)
      BY <2>1 DEF StoredInv
    <2>3. Indexed(segments)'
      BY <2>2, IndexedStays
    <2> QED
      BY <1>1, <2>1, <2>3 DEF Indexed
  <1>2. ASSUME NEW u \in Thread, stored'[u] = << >> PROVE Indexed(stored[u])'
    BY <1>2 DEF Indexed
  <1>3. ASSUME NEW u \in Thread, NEW segment \in Segment,
               stored'[u] = Append(stored[u], segment), Entry(segment.key)' = segment.codec
        PROVE  Indexed(stored[u])'
    <2>1. PICK segments \in Seq(Segment) : segments = stored[u]
      BY DEF StoreInv, StoreTypeOK
    <2>2. Indexed(segments)'
      BY <2>1, IndexedStays DEF StoredInv
    <2> QED
      BY <1>3, <2>1, <2>2 DEF Indexed
  <1>4. CASE UNCHANGED stored
    BY <1>1, <1>4 DEF StoredInv
  <1>5. ASSUME NEW t \in Thread, StoreMove(t) PROVE StoredInv'
    <2> SUFFICES ASSUME NEW u \in Thread PROVE Indexed(stored[u])'
      BY DEF StoredInv
    <2> USE DEF StoreInv, StoreTypeOK
    <2>1. CASE DedupeHit(t)
      <3> DEFINE k == Head(todo[t]).key
                 entry == [key |-> k, codec |-> index[k]]
      <3>1. /\ stored' = [stored EXCEPT ![t] = Append(@, entry)]
            /\ storePc[t] = "put" /\ todo[t] # << >> /\ Known(k) /\ index' = index
        BY <2>1 DEF DedupeHit, Stored, storeFiles
      <3>2. k \in Key /\ index # None
        BY <3>1, WorkProperties DEF OpenInv
      <3>3. entry \in Segment /\ index[entry.key] = entry.codec
        BY <3>1, <3>2, KnownEntry
      <3>4. PICK segment \in Segment : segment = entry
        BY <3>3
      <3>5. Entry(segment.key)' = segment.codec
        BY <3>1, <3>2, <3>3, <3>4 DEF Entry
      <3>6. stored'[t] = Append(stored[t], segment) /\ \A v \in Thread : v # t => stored'[v] = stored[v]
        BY <3>1, <3>4
      <3> QED
        BY <3>5, <3>6, <1>1, <1>3
    <2>2. CASE WriteIndex(t)
      <3>1. /\ todo[t] # << >> /\ copy[t] = index
            /\ index' = [copy[t] EXCEPT ![Head(todo[t]).key] = Head(todo[t]).codec]
            /\ stored' = [stored EXCEPT ![t] = Append(@, Head(todo[t]))]
        BY <2>2 DEF WriteIndex, Stored, CopyInv, Writing
      <3>2. PICK segment \in Segment : segment = Head(todo[t])
        BY <3>1, WorkProperties
      <3>3. segment.key \in Key /\ segment.codec \in Codec
        BY DEF Segment
      <3>4. index'[segment.key] = segment.codec /\ index' \in Entries
        BY <3>1, <3>2, <3>3 DEF Entries
      <3>5. Entry(segment.key)' = segment.codec
        BY <3>4, StoreNoneAssumption DEF Entry
      <3>6. stored'[t] = Append(stored[t], segment) /\ \A v \in Thread : v # t => stored'[v] = stored[v]
        BY <3>1, <3>2
      <3> QED
        BY <3>5, <3>6, <1>1, <1>3
    <2>3. CASE LeaveStore(t)
      BY <2>3, <1>1, <1>2 DEF LeaveStore
    <2> QED
      BY <1>4, <1>5, <2>1, <2>2, <2>3 DEF StoreMove, StoreStep, OpenStore, CreateIndex,
         BeginStore, WriteChunkFile, BeginPutChunks, StoredInv
  <1> QED
    BY <1>4, <1>5, StoreCases DEF storeVars

(* A step of one thread is no step of the others.                          *)
Untouched(u) ==
  /\ storePc'[u] = storePc[u] /\ stored'[u] = stored[u] /\ todo'[u] = todo[u]
  /\ pc'[u] = pc[u] /\ run'[u] = run[u]
  /\ pc[u] # "idle" => request'[run[u]] = request[run[u]]

LEMMA OthersUntouched ==
  ASSUME TypeOK, RunInv, NEW t \in Thread, (\E q \in Request : Begin(t, q)) \/ Step(t) \/ Stop(t),
         NEW u \in Thread, u # t
  PROVE  Untouched(u)
  <1> USE DEF TypeOK, StoreTypeOK, Untouched, Goto, StoreGoto, storeVars, storeFiles
  <1>1. ASSUME NEW q \in Request, Begin(t, q) PROVE Untouched(u)
    BY <1>1, RunsAssumption DEF Begin, RunInv
  <1>2. CASE Stop(t)
    BY <1>2 DEF Stop, Finish, LeaveStore
  <1>3. ASSUME NEW segments, BeginPutChunks(t, segments)
        PROVE  storePc'[u] = storePc[u] /\ stored'[u] = stored[u] /\ todo'[u] = todo[u]
    BY <1>3 DEF BeginPutChunks
  <1>4. CASE Step(t)
    <2>1. CASE InStore(t)
      BY <2>1 DEF InStore, StoreStep, OpenStore, CreateIndex, DedupeHit, BeginStore, Stored,
         WriteChunkFile, WriteIndex, control
    <2>2. CASE PutChunks(t)
      BY <2>2, <1>3 DEF PutChunks
    <2>3. CASE Deny(t) \/ ChunkUnreadable(t) \/ Verify(t) \/ Return(t)
      BY <2>3 DEF Deny, ChunkUnreadable, Verify, Return, Finish, LeaveStore
    <2>4. CASE Receive(t) \/ Evaluate(t) \/ PlanCreated(t) \/ ActionExecuted(t)
               \/ ManifestWritten(t) \/ AdapterExecuted(t)
      BY <2>4 DEF Receive, Evaluate, PlanCreated, ActionExecuted, ManifestWritten,
         AdapterExecuted, AuditStep
    <2>5. CASE StoreOpened(t) \/ StorePlan(t) \/ ChunksStored(t) \/ StoreManifest(t)
      BY <2>5 DEF StoreOpened, StorePlan, ChunksStored, StoreManifest
    <2> QED
      BY <1>4, <2>1, <2>2, <2>3, <2>4, <2>5 DEF Step
  <1> QED
    BY <1>1, <1>2, <1>4

(* Each thread's own steps take it from one stage to the next.             *)
LEMMA ProgressStep ==
  ASSUME TypeOK, StoreInv, RunInv, ProgressInv, [Next]_vars
  PROVE  ProgressInv'
  <1> USE DEF TypeOK, StoreTypeOK, Unstarted
  <1>1. ASSUME NEW u \in Thread, Untouched(u) PROVE Progress(u, My(u))'
    BY <1>1 DEF ProgressInv, Progress, Untouched, My
  <1>2. CASE UNCHANGED vars
    BY <1>2 DEF vars, storeVars, control, ProgressInv, Progress, My
  <1>3. ASSUME NEW t \in Thread, NEW q \in Request, Begin(t, q) PROVE Progress(t, My(t))'
    BY <1>3 DEF Begin, Goto, storeVars, ProgressInv, Progress
  <1>4. ASSUME NEW t \in Thread, Finish(t) PROVE Progress(t, My(t))'
    BY <1>4 DEF Finish, LeaveStore, Goto, Progress
  <1>5. ASSUME NEW t \in Thread, Step(t) PROVE Progress(t, My(t))'
    <2> USE DEF Goto, StoreGoto, storeVars, storeFiles, control
    <2>0. pc[t] # "idle" => My(t) \in Request /\ My(t).chunks \in Seq(Chunk)
      BY RequestChunks
    <2>1. CASE InStore(t)
      <3>1. My(t)' = My(t)
        BY <2>1 DEF InStore, My
      <3>2. CASE pc[t] = "open"
        BY <2>1, <3>2 DEF InStore, ProgressInv, Progress, StoreStep, OpenStore, CreateIndex,
           DedupeHit, BeginStore, WriteChunkFile, WriteIndex
      <3>3. CASE pc[t] = "store"
        <4>1. Covers(stored[t], todo[t], My(t).chunks) /\ pc'[t] = "store"
          BY <2>1, <3>3 DEF InStore, ProgressInv, Progress
        <4>2. Covers(stored'[t], todo'[t], My(t).chunks)
          <5>1. CASE DedupeHit(t)
            <6>1. PICK segment \in Segment :
                    /\ segment.key = Head(todo[t]).key /\ todo[t] # << >>
                    /\ stored'[t] = Append(stored[t], segment) /\ todo'[t] = Tail(todo[t])
              BY <5>1, KnownEntry, WorkProperties
                 DEF DedupeHit, Stored, StoreInv, OpenInv
            <6> QED
              BY <2>0, <3>3, <4>1, <6>1, CoversNext
          <5>2. CASE WriteIndex(t)
            <6>1. /\ todo[t] # << >> /\ Head(todo[t]) \in Segment
                  /\ stored'[t] = Append(stored[t], Head(todo[t])) /\ todo'[t] = Tail(todo[t])
              BY <5>2, WorkProperties DEF WriteIndex, Stored, StoreInv, CopyInv, Writing
            <6> QED
              BY <2>0, <3>3, <4>1, <6>1, CoversNext
          <5> QED
            BY <2>1, <4>1, <5>1, <5>2 DEF InStore, StoreStep, OpenStore, CreateIndex, BeginStore,
               WriteChunkFile
        <4> QED
          BY <3>1, <4>1, <4>2 DEF Progress
      <3> QED
        BY <2>1, <3>2, <3>3 DEF InStore
    <2>2. CASE PutChunks(t)
      <3> DEFINE segments == [i \in DOMAIN My(t).chunks |-> NewSegment(t, My(t), My(t).chunks[i])]
      <3>1. /\ stored'[t] = << >> /\ todo'[t] = segments /\ pc'[t] = "store"
            /\ My(t)' = My(t) /\ My(t).chunks \in Seq(Chunk)
        BY <2>0, <2>2 DEF PutChunks, BeginPutChunks, My, ProgressInv, Progress
      <3>2. Covers(<< >>, segments, My(t).chunks)
        BY <3>1 DEF Covers, NewSegment
      <3> QED
        BY <3>1, <3>2 DEF Progress
    <2>3. CASE ChunksStored(t)
      <3>1. /\ Covers(stored[t], << >>, My(t).chunks) /\ My(t)' = My(t)
            /\ stored'[t] = stored[t] /\ pc'[t] = "audit"
        BY <2>3 DEF ChunksStored, AllStored, ProgressInv, Progress, My
      <3> QED
        BY <3>1 DEF Progress
    <2>4. CASE Verify(t) \/ Deny(t) \/ ChunkUnreadable(t) \/ Return(t)
      <3>1. CASE Finish(t)
        BY <3>1, <1>4
      <3>2. CASE pc[t] = "audit" /\ pc' = [pc EXCEPT ![t] = "manifest"] /\ UNCHANGED <<storeVars, run, request>>
        BY <3>2 DEF ProgressInv, Progress, My
      <3> QED
        BY <2>4, <3>1, <3>2 DEF Verify, Deny, ChunkUnreadable, Return
    <2>5. CASE Receive(t) \/ Evaluate(t) \/ PlanCreated(t) \/ ActionExecuted(t)
               \/ ManifestWritten(t) \/ AdapterExecuted(t)
      BY <2>5 DEF Receive, Evaluate, PlanCreated, ActionExecuted, ManifestWritten,
         AdapterExecuted, AuditStep, ProgressInv, Progress, My
    <2>6. CASE StoreOpened(t) \/ StorePlan(t) \/ StoreManifest(t)
      BY <2>6 DEF StoreOpened, FirstStep, StorePlan, StoreManifest, AfterManifest, ProgressInv,
         Progress, My
    <2> QED
      BY <1>5, <2>1, <2>2, <2>3, <2>4, <2>5, <2>6 DEF Step
  <1>6. ASSUME NEW t \in Thread, Stop(t) PROVE Progress(t, My(t))'
    BY <1>4, <1>6 DEF Stop
  <1>7. ASSUME NEW t \in Thread, (\E q \in Request : Begin(t, q)) \/ Step(t) \/ Stop(t)
        PROVE  ProgressInv'
    BY <1>1, <1>3, <1>5, <1>6, <1>7, OthersUntouched DEF ProgressInv
  <1> QED
    BY <1>2, <1>7 DEF Next
-----------------------------------------------------------------------------
(* A manifest that can be rehydrated.                                      *)
Rehydratable(r) == manifests[r] # None /\ manifests[r].state # "planned"

(* A run stores its manifest once, with the segments it has stored.        *)
ManifestInv ==
  /\ \A r \in Run : request[r] = None => manifests[r] = None
  /\ \A t \in Thread : pc[t] \in Labels \ {"idle", "written", "adapter", "end"} =>
       manifests[run[t]] = None
  /\ \A r \in Run : Rehydratable(r) =>
       /\ request[r] \in Request
       /\ manifests[r].segments \in Seq(Segment)
       /\ Covers(manifests[r].segments, << >>, request[r].chunks)
       /\ Indexed(manifests[r].segments)

(* Only StoreManifest touches a manifest.                                  *)
LEMMA ManifestCases ==
  ASSUME [Next]_vars
  PROVE  UNCHANGED manifests \/ \E t \in Thread : StoreManifest(t)
  BY DEF Next, vars, records, Begin, Step, Stop, StoreOpened, Deny, Receive, Evaluate, StorePlan,
     PlanCreated, PutChunks, InStore, ChunkUnreadable, ChunksStored, ActionExecuted, Verify,
     ManifestWritten, AdapterExecuted, Return, AuditStep

(* A request, once made, is that of its run for ever.                      *)
LEMMA RequestStays ==
  ASSUME TypeOK, [Next]_vars, NEW r \in Run, request[r] # None
  PROVE  request'[r] = request[r]
  BY ControlCases DEF TypeOK, control, Begin, Moves, Ends, Finish

LEMMA ManifestStep ==
  ASSUME TypeOK, StoreInv, RunInv, StoredInv, ProgressInv, ManifestInv, [Next]_vars
  PROVE  ManifestInv'
  <1> USE RunsAssumption DEF TypeOK, Labels
  <1>1. \A r \in Run : manifests'[r] = manifests[r] /\ Rehydratable(r) =>
          /\ request'[r] \in Request
          /\ manifests'[r].segments \in Seq(Segment)
          /\ Covers(manifests'[r].segments, << >>, request'[r].chunks)
          /\ Indexed(manifests[r].segments)'
    <2> SUFFICES ASSUME NEW r \in Run, manifests'[r] = manifests[r], Rehydratable(r)
                 PROVE  /\ request'[r] \in Request
                        /\ manifests'[r].segments \in Seq(Segment)
                        /\ Covers(manifests'[r].segments, << >>, request'[r].chunks)
                        /\ Indexed(manifests[r].segments)'
      OBVIOUS
    <2>1. PICK segments \in Seq(Segment) : segments = manifests[r].segments
      BY DEF ManifestInv
    <2>2. request[r] \in Request /\ Covers(segments, << >>, request[r].chunks) /\ Indexed(segments)
      BY <2>1 DEF ManifestInv
    <2>3. request'[r] = request[r] /\ Indexed(segments)'
      BY <2>2, RequestStays, IndexedStays
    <2> QED
      BY <2>1, <2>2, <2>3 DEF Indexed
  <1>2. ASSUME NEW t \in Thread, StoreManifest(t) PROVE ManifestInv'
    <2>1. run[t] \in Run /\ My(t) \in Request /\ My(t).mode \in Mode
      BY <1>2, RequestChunks, RequestAssumption DEF StoreManifest
    <2>2. /\ UNCHANGED <<run, request, index, stored>> /\ pc' = [pc EXCEPT ![t] = "written"]
          /\ manifests' = [manifests EXCEPT ![run[t]] =
                             [state |-> ManifestState(My(t)), segments |-> stored[t]]]
      BY <1>2 DEF StoreManifest, AfterManifest, Goto, storeVars, storeFiles
    <2>3. My(t).mode # "observe" => Covers(stored[t], << >>, My(t).chunks)
      BY <1>2 DEF StoreManifest, ProgressInv, Progress
    <2>4. stored[t] \in Seq(Segment) /\ Indexed(stored[t])
      BY DEF StoreInv, StoreTypeOK, StoredInv
    <2>5. ManifestState(My(t)) # "planned" => My(t).mode # "observe"
      BY <2>1 DEF ManifestState, Mode
    <2>6. \A u \in Thread : pc'[u] \in Labels \ {"idle", "written", "adapter", "end"} =>
            manifests'[run'[u]] = None
      <3> SUFFICES ASSUME NEW u \in Thread,
                          pc'[u] \in Labels \ {"idle", "written", "adapter", "end"}
                   PROVE  manifests'[run'[u]] = None
        OBVIOUS
      <3>1. u # t /\ pc'[u] = pc[u] /\ run'[u] = run[u]
        BY <2>2
      <3>2. run[u] # run[t] /\ run[u] \in Run /\ manifests[run[u]] = None
        BY <1>2, <3>1 DEF ManifestInv, RunInv, StoreManifest
      <3> QED
        BY <2>2, <3>1, <3>2
    <2>7. \A r \in Run : request'[r] = None => manifests'[r] = None
      BY <2>1, <2>2 DEF ManifestInv, My
    <2>8. ASSUME NEW r \in Run, Rehydratable(r)', r # run[t]
          PROVE  /\ request'[r] \in Request
                 /\ manifests'[r].segments \in Seq(Segment)
                 /\ Covers(manifests'[r].segments, << >>, request'[r].chunks)
                 /\ Indexed(manifests[r].segments)'
      BY <1>1, <2>2, <2>8 DEF Rehydratable
    <2>9. ASSUME Rehydratable(run[t])', NEW r \in Run, r = run[t]
          PROVE  /\ request'[r] \in Request
                 /\ manifests'[r].segments \in Seq(Segment)
                 /\ Covers(manifests'[r].segments, << >>, request'[r].chunks)
                 /\ Indexed(manifests[r].segments)'
      BY <2>1, <2>2, <2>3, <2>4, <2>5, <2>9 DEF Rehydratable, My, Indexed, Entry
    <2> QED
      BY <2>1, <2>2, <2>6, <2>7, <2>8, <2>9 DEF ManifestInv
  <1>3. CASE UNCHANGED manifests
    <2>1. \A r \in Run : request'[r] = None => manifests'[r] = None
      BY <1>3, RequestStays DEF ManifestInv
    <2>2. \A r \in Run : Rehydratable(r)' => Rehydratable(r)
      BY <1>3 DEF Rehydratable
    <2>3. \A u \in Thread : pc'[u] \in Labels \ {"idle", "written", "adapter", "end"} =>
            manifests'[run'[u]] = None
      <3>1. CASE UNCHANGED control
        BY <1>3, <3>1 DEF control, ManifestInv
      <3>2. ASSUME NEW t \in Thread, NEW q \in Request, Begin(t, q)
            PROVE  \A u \in Thread : pc'[u] \in Labels \ {"idle", "written", "adapter", "end"} =>
                     manifests'[run'[u]] = None
        BY <1>3, <3>2 DEF Begin, Goto, ManifestInv
      <3>3. ASSUME NEW t \in Thread, Ends(t)
            PROVE  \A u \in Thread : pc'[u] \in Labels \ {"idle", "written", "adapter", "end"} =>
                     manifests'[run'[u]] = None
        BY <1>3, <3>3 DEF Ends, Finish, Goto, ManifestInv
      <3>4. ASSUME NEW t \in Thread, Moves(t)
            PROVE  \A u \in Thread : pc'[u] \in Labels \ {"idle", "written", "adapter", "end"} =>
                     manifests'[run'[u]] = None
        BY <1>3, <3>4 DEF Moves, Goto, ManifestInv
      <3> QED
        BY <3>1, <3>2, <3>3, <3>4, ControlCases
    <2> QED
      BY <1>1, <1>3, <2>1, <2>2, <2>3 DEF ManifestInv
  <1> QED
    BY <1>2, <1>3, ManifestCases
-----------------------------------------------------------------------------
(* A manifest without its event.                                           *)
LEMMA ManifestAuditedStep ==
  ASSUME TypeOK, RunInv, ManifestAudited, [Next]_vars
  PROVE  ManifestAudited'
  <1> USE DEF TypeOK
  <1> DEFINE Quiet(r) == r \in stopped \/ \E t \in Thread : run[t] = r /\ pc[t] = "written"
  <1> SUFFICES ASSUME NEW r \in Run, manifests'[r] # None,
                      "manifest.written" \notin ToSet(trail'[r])
               PROVE  Quiet(r)'
    BY DEF ManifestAudited
  <1>1. ASSUME NEW t \in Thread, StoreManifest(t), r = run[t] PROVE Quiet(r)'
    BY <1>1 DEF StoreManifest, AfterManifest, Goto
  <1>2. ASSUME NEW t \in Thread, NEW event \in Event, Audit(t, event), pc[t] # "idle"
        PROVE  /\ ToSet(trail[r]) \subseteq ToSet(trail'[r])
               /\ r = run[t] => event # "manifest.written"
    <2>1. run[t] \in Run /\ trail[r] \in Seq(Event)
      BY <1>2 DEF RunInv
    <2>2. CASE r = run[t]
      <3>1. trail'[r] = Append(trail[r], event)
        BY <1>2, <2>1, <2>2 DEF Audit
      <3>2. \A i \in DOMAIN trail[r] : i \in DOMAIN trail'[r] /\ trail'[r][i] = trail[r][i]
        BY <2>1, <3>1
      <3>3. Len(trail[r]) + 1 \in DOMAIN trail'[r] /\ trail'[r][Len(trail[r]) + 1] = event
        BY <2>1, <3>1
      <3> QED
        BY <3>2, <3>3 DEF ToSet
    <2>3. CASE r # run[t]
      BY <1>2, <2>3 DEF Audit
    <2> QED
      BY <2>2, <2>3
  <1>3. ASSUME manifests'[r] = manifests[r], ToSet(trail[r]) \subseteq ToSet(trail'[r])
        PROVE  Quiet(r)
    BY <1>3 DEF ManifestAudited
  <1>4. CASE UNCHANGED vars
    BY <1>3, <1>4 DEF vars, records, control
  <1>5. ASSUME NEW t \in Thread, NEW q \in Request, Begin(t, q) PROVE Quiet(r)'
    BY <1>3, <1>5 DEF Begin, records, Goto
  <1>6. ASSUME NEW t \in Thread, Stop(t) PROVE Quiet(r)'
    BY <1>3, <1>6 DEF Stop, records, Finish, Goto
  <1>7. ASSUME NEW t \in Thread, Step(t) PROVE Quiet(r)'
    <2> USE DEF Goto, Event
    <2>1. CASE StoreManifest(t)
      <3>1. CASE r # run[t]
        BY <1>3, <2>1, <3>1 DEF StoreManifest
      <3> QED
        BY <1>1, <2>1, <3>1 DEF StoreManifest
    <2>2. CASE Receive(t) \/ Evaluate(t) \/ PlanCreated(t) \/ ActionExecuted(t) \/ AdapterExecuted(t)
      BY <1>2, <1>3, <2>2 DEF Receive, Evaluate, PlanCreated, ActionExecuted, AdapterExecuted, AuditStep
    <2>3. CASE ManifestWritten(t)
      BY <1>2, <1>3, <2>3 DEF ManifestWritten, AuditStep
    <2>4. CASE Deny(t)
      BY <1>2, <1>3, <2>4 DEF Deny, Finish
    <2>5. CASE ChunkUnreadable(t) \/ Verify(t) \/ Return(t)
      BY <1>3, <2>5 DEF ChunkUnreadable, Verify, Return, Finish, records
    <2>6. CASE StoreOpened(t) \/ StorePlan(t) \/ PutChunks(t) \/ InStore(t) \/ ChunksStored(t)
      BY <1>3, <2>6 DEF StoreOpened, StorePlan, PutChunks, InStore, ChunksStored, records, control
    <2> QED
      BY <1>7, <2>1, <2>2, <2>3, <2>4, <2>5, <2>6 DEF Step
  <1> QED
    BY <1>4, <1>5, <1>6, <1>7 DEF Next
-----------------------------------------------------------------------------
(* The trail a run that is allowed to store leaves, event by event.        *)
EventAt(i) ==
  CASE i = 1 -> "work_unit.received" [] i = 2 -> "policy.evaluated" [] i = 3 -> "plan.created"
    [] OTHER -> "action.executed"

Begins(r, n) == n <= Len(trail[r]) /\ \A i \in 1..n : trail[r][i] = EventAt(i)
Exactly(r, n) == n = Len(trail[r]) /\ \A i \in 1..n : trail[r][i] = EventAt(i)

(* How far the trail of t's run is.                                        *)
Trailed(t, r) ==
  /\ pc[t] \in {"open", "deny", "receive"} => Exactly(r, 0)
  /\ pc[t] = "evaluate" => Exactly(r, 1)
  /\ pc[t] \in {"plan", "planned"} => Exactly(r, 2)
  /\ pc[t] \in {"put", "store"} => Exactly(r, 3)
  /\ pc[t] = "audit" => \E k \in 0..Len(stored[t]) : Exactly(r, 3 + k)
  /\ pc[t] = "manifest" => Exactly(r, 3 + Len(stored[t]))
  /\ pc[t] \in {"planned", "put", "store", "audit", "manifest"} => r \in plans

AuditInv ==
  /\ \A r \in Run : request[r] = None => Exactly(r, 0)
  /\ \A t \in Thread : pc[t] # "idle" => Trailed(t, run[t])
  /\ \A r \in Run : manifests[r] # None =>
       r \in plans /\ Begins(r, 3 + Len(manifests[r].segments))

LEMMA ExactlyNext ==
  ASSUME TypeOK, NEW t \in Thread, NEW r \in Run, r = run[t], NEW n \in Nat, Exactly(r, n),
         NEW event, event = EventAt(n + 1), Audit(t, event)
  PROVE  Exactly(r, n + 1)'
  <1>1. trail[r] \in Seq(Event) /\ trail'[r] = Append(trail[r], event)
    BY DEF TypeOK, Audit
  <1>2. /\ Len(trail'[r]) = n + 1 /\ trail'[r][n + 1] = event
        /\ \A i \in 1..n : trail'[r][i] = trail[r][i]
    BY <1>1 DEF Exactly
  <1> QED
    BY <1>2 DEF Exactly, EventAt

LEMMA ExecutedCount ==
  ASSUME NEW r \in Run, NEW k \in Nat, trail[r] \in Seq(Event), Exactly(r, 3 + k)
  PROVE  Executed(r) = k
  <1>1. DOMAIN trail[r] = 1..(3 + k)
    BY DEF Exactly
  <1>2. {i \in DOMAIN trail[r] : trail[r][i] = "action.executed"} = 4..(3 + k)
    BY <1>1 DEF Exactly, EventAt
  <1>3. Cardinality(4..(3 + k)) = k
    <2>1. CASE k = 0
      BY <2>1, FS_Interval
    <2>2. CASE k > 0
      BY <2>2, FS_Interval
    <2> QED
      BY <2>1, <2>2
  <1> QED
    BY <1>2, <1>3 DEF Executed

(* Trails grow at their ends only.                                         *)
LEMMA TrailOf ==
  ASSUME NEW t \in Thread, (\E q \in Request : Begin(t, q)) \/ Step(t) \/ Stop(t)
  PROVE  /\ plans \subseteq plans'
         /\ UNCHANGED trail \/ (pc[t] # "idle" /\ \E event \in Event : Audit(t, event))
  BY DEF records, Begin, Step, Stop, StoreOpened, Deny, Receive, Evaluate, StorePlan,
     PlanCreated, PutChunks, InStore, ChunkUnreadable, ChunksStored, ActionExecuted, Verify,
     StoreManifest, ManifestWritten, AdapterExecuted, Return, AuditStep, Event

LEMMA TrailCases ==
  ASSUME [Next]_vars
  PROVE  /\ plans \subseteq plans'
         /\ \/ UNCHANGED trail
            \/ \E t \in Thread : pc[t] # "idle" /\ \E event \in Event : Audit(t, event)
  BY TrailOf DEF Next, vars, records

LEMMA BeginsStays ==
  ASSUME TypeOK, [Next]_vars, NEW r \in Run, NEW n \in Nat, Begins(r, n)
  PROVE  Begins(r, n)'
  <1>1. trail[r] \in Seq(Event)
    BY DEF TypeOK
  <1>2. trail'[r] = trail[r] \/ \E event \in Event : trail'[r] = Append(trail[r], event)
    BY TrailCases DEF TypeOK, Audit
  <1> QED
    BY <1>1, <1>2 DEF Begins

(* The threads that do not make the step.                                  *)
LEMMA OthersTrailed ==
  ASSUME TypeOK, RunInv, AuditInv, NEW t \in Thread,
         (\E q \in Request : Begin(t, q)) \/ Step(t) \/ Stop(t),
         NEW u \in Thread, u # t, pc'[u] # "idle"
  PROVE  Trailed(u, run[u])'
  <1>1. Untouched(u)
    BY OthersUntouched
  <1>2. run[u] \in Run /\ run'[u] = run[u] /\ pc'[u] = pc[u] /\ stored'[u] = stored[u]
    BY <1>1 DEF Untouched, RunInv
  <1>3. trail'[run[u]] = trail[run[u]] /\ plans \subseteq plans'
    <2>1. pc[t] # "idle" => run[t] # run[u]
      BY <1>2 DEF RunInv
    <2>2. UNCHANGED trail \/ (pc[t] # "idle" /\ \E event \in Event : Audit(t, event))
      BY TrailOf
    <2> QED
      BY <1>2, <2>1, <2>2, TrailOf DEF TypeOK, Audit
  <1> QED
    BY <1>2, <1>3 DEF AuditInv, Trailed, Exactly

LEMMA OwnRun ==
  ASSUME TypeOK, NEW t \in Thread, Step(t), pc'[t] # "idle"
  PROVE  run'[t] = run[t]
  BY DEF TypeOK, Goto, control, Step, StoreOpened, Deny, Receive, Evaluate, StorePlan, PlanCreated,
     PutChunks, InStore, ChunkUnreadable, ChunksStored, ActionExecuted, Verify, StoreManifest,
     ManifestWritten, AdapterExecuted, Return, AuditStep, Finish

LEMMA AuditStepTrailed ==
  ASSUME TypeOK, StoreInv, RunInv, ProgressInv, AuditInv, NEW t \in Thread, Step(t), pc'[t] # "idle"
  PROVE  Trailed(t, run[t])'
  <1> USE DEF Goto
  <1>0. pc[t] # "idle" /\ run[t] \in Run /\ Trailed(t, run[t]) /\ stored[t] \in Seq(Segment)
    BY DEF Step, StoreOpened, Deny, Receive, Evaluate, StorePlan, PlanCreated, PutChunks, InStore,
       ChunkUnreadable, ChunksStored, ActionExecuted, Verify, StoreManifest, ManifestWritten,
       AdapterExecuted, Return, AuditStep, RunInv, AuditInv, StoreInv, StoreTypeOK
  <1>1. PICK r \in Run : r = run[t]
    BY <1>0
  <1> SUFFICES ASSUME run'[t] = r PROVE Trailed(t, r)'
    <2>1. run'[t] = r
      BY <1>1, OwnRun
    <2> QED
      BY <2>1 DEF Trailed, Exactly
  <1>2. CASE StoreOpened(t)
    BY <1>0, <1>1, <1>2 DEF StoreOpened, FirstStep, Trailed, Exactly, records
  <1>3. CASE Receive(t)
    <2>1. Exactly(r, 0) /\ Audit(t, "work_unit.received") /\ pc'[t] = "evaluate"
      BY <1>0, <1>1, <1>3 DEF Receive, AuditStep, Trailed, TypeOK
    <2>2. Exactly(r, 0 + 1)'
      BY <1>1, <2>1, ExactlyNext DEF EventAt
    <2> QED
      BY <2>1, <2>2 DEF Trailed
  <1>4. CASE Evaluate(t)
    <2>1. Exactly(r, 1) /\ Audit(t, "policy.evaluated") /\ pc'[t] = "plan"
      BY <1>0, <1>1, <1>4 DEF Evaluate, AuditStep, Trailed, TypeOK
    <2>2. Exactly(r, 1 + 1)'
      BY <1>1, <2>1, ExactlyNext DEF EventAt
    <2> QED
      BY <2>1, <2>2 DEF Trailed
  <1>5. CASE StorePlan(t)
    BY <1>0, <1>1, <1>5 DEF StorePlan, Trailed, Exactly, TypeOK
  <1>6. CASE PlanCreated(t)
    <2>1. /\ Exactly(r, 2) /\ Audit(t, "plan.created") /\ r \in plans /\ plans' = plans
          /\ stored'[t] = << >> /\ pc'[t] \in {"manifest", "put"}
      BY <1>0, <1>1, <1>6
         DEF PlanCreated, AuditStep, Trailed, TypeOK, ProgressInv, Progress, Unstarted, storeVars
    <2>2. Exactly(r, 2 + 1)'
      BY <1>1, <2>1, ExactlyNext DEF EventAt
    <2> QED
      BY <2>1, <2>2 DEF Trailed
  <1>7. CASE PutChunks(t) \/ InStore(t)
    BY <1>0, <1>1, <1>7 DEF PutChunks, InStore, Trailed, Exactly, records, control, TypeOK
  <1>8. CASE ChunksStored(t)
    <2>1. /\ Exactly(r, 3 + 0)' /\ r \in plans' /\ pc'[t] = "audit"
          /\ stored'[t] \in Seq(Segment) /\ 0 \in 0..Len(stored'[t])
      BY <1>0, <1>1, <1>8 DEF ChunksStored, Trailed, Exactly, records, storeVars, TypeOK
    <2> QED
      BY <2>1 DEF Trailed
  <1>9. CASE ActionExecuted(t)
    <2>1. /\ Audit(t, "action.executed") /\ Executed(r) < Len(stored[t]) /\ r \in plans'
          /\ stored'[t] = stored[t] /\ pc'[t] = "audit"
      BY <1>0, <1>1, <1>9 DEF ActionExecuted, AuditStep, EventsDue, Trailed, TypeOK, storeVars
    <2>2. PICK k \in 0..Len(stored[t]) : Exactly(r, 3 + k)
      BY <1>0, <1>1, <1>9 DEF ActionExecuted, Trailed
    <2>3. k < Len(stored[t])
      BY <1>1, <2>1, <2>2, ExecutedCount DEF TypeOK
    <2>4. Exactly(r, 3 + k + 1)'
      BY <1>1, <2>1, <2>2, ExactlyNext DEF EventAt
    <2>5. k + 1 \in 0..Len(stored'[t]) /\ 3 + k + 1 = 3 + (k + 1)
      BY <1>0, <2>1, <2>3
    <2> QED
      BY <2>1, <2>4, <2>5 DEF Trailed
  <1>10. CASE Verify(t)
    <2>1. /\ Executed(r) = Len(stored[t]) /\ UNCHANGED records
          /\ stored'[t] = stored[t] /\ pc'[t] = "manifest" /\ pc[t] = "audit"
      BY <1>0, <1>1, <1>10 DEF Verify, EventsDue, Finish, TypeOK, storeVars
    <2>2. PICK k \in 0..Len(stored[t]) : Exactly(r, 3 + k)
      BY <1>0, <1>1, <2>1 DEF Trailed
    <2>3. k = Len(stored[t])
      BY <1>1, <2>1, <2>2, ExecutedCount DEF TypeOK
    <2> QED
      BY <1>0, <1>1, <2>1, <2>2, <2>3 DEF Trailed, Exactly, records
  <1>11. CASE StoreManifest(t) \/ ManifestWritten(t) \/ AdapterExecuted(t)
    BY <1>0, <1>11 DEF StoreManifest, AfterManifest, ManifestWritten, AdapterExecuted, AuditStep,
       Trailed, TypeOK
  <1>12. CASE Deny(t) \/ ChunkUnreadable(t) \/ Return(t)
    BY <1>12 DEF Deny, ChunkUnreadable, Return, Finish, TypeOK
  <1> QED
    BY <1>2, <1>3, <1>4, <1>5, <1>6, <1>7, <1>8, <1>9, <1>10, <1>11, <1>12 DEF Step

LEMMA AuditInvStep ==
  ASSUME TypeOK, StoreInv, RunInv, ProgressInv, ManifestInv, AuditInv, [Next]_vars
  PROVE  AuditInv'
  <1>1. ASSUME NEW r \in Run, request'[r] = None PROVE Exactly(r, 0)'
    <2>1. request[r] = None
      BY <1>1, RequestStays
    <2>2. trail[r] \in Seq(Event) /\ Len(trail[r]) = 0
      BY <2>1 DEF AuditInv, Exactly, TypeOK
    <2>3. trail'[r] = trail[r]
      <3>1. ASSUME NEW t \in Thread, pc[t] # "idle" PROVE run[t] # r
        BY <2>1, <3>1, RunsAssumption DEF RunInv
      <3> QED
        BY <3>1, TrailCases DEF TypeOK, Audit
    <2> QED
      BY <2>2, <2>3 DEF Exactly
  <1>2. ASSUME NEW u \in Thread, pc'[u] # "idle" PROVE Trailed(u, run[u])'
    <2>1. CASE UNCHANGED vars
      BY <1>2, <2>1 DEF vars, storeVars, control, records, AuditInv, Trailed, Exactly
    <2>2. ASSUME NEW t \in Thread, (\E q \in Request : Begin(t, q)) \/ Step(t) \/ Stop(t), u # t
          PROVE  Trailed(u, run[u])'
      BY <1>2, <2>2, OthersTrailed
    <2>3. ASSUME NEW q \in Request, Begin(u, q) PROVE Trailed(u, run[u])'
      <3>1. PICK r \in Run : request[r] = None /\ run' = [run EXCEPT ![u] = r]
        BY <2>3 DEF Begin
      <3>2. Exactly(r, 0) /\ trail' = trail /\ pc'[u] = "open" /\ run'[u] = r
        BY <2>3, <3>1 DEF Begin, records, AuditInv, Goto, TypeOK
      <3> QED
        BY <3>2 DEF Trailed, Exactly
    <2>4. CASE Step(u)
      BY <1>2, <2>4, AuditStepTrailed
    <2>5. CASE Stop(u)
      BY <1>2, <2>5 DEF Stop, Finish, Goto, TypeOK
    <2> QED
      BY <2>1, <2>2, <2>3, <2>4, <2>5 DEF Next
  <1>3. ASSUME NEW r \in Run, manifests'[r] # None
        PROVE  r \in plans' /\ Begins(r, 3 + Len(manifests[r].segments))'
    <2>1. CASE manifests'[r] = manifests[r]
      <3>1. manifests[r] \in Manifest /\ r \in plans /\ Begins(r, 3 + Len(manifests[r].segments))
        BY <1>3, <2>1 DEF AuditInv, TypeOK
      <3>2. PICK n \in Nat : n = 3 + Len(manifests[r].segments)
        BY <3>1 DEF Manifest
      <3>3. Begins(r, n)'
        BY <3>1, <3>2, BeginsStays
      <3> QED
        BY <2>1, <3>1, <3>2, <3>3, TrailCases DEF Begins
    <2>2. ASSUME NEW t \in Thread, StoreManifest(t), r = run[t]
          PROVE  r \in plans' /\ Begins(r, 3 + Len(manifests[r].segments))'
      <3>1. /\ manifests'[r].segments = stored[t] /\ UNCHANGED <<trail, plans>>
            /\ pc[t] = "manifest"
        BY <2>2 DEF StoreManifest, TypeOK
      <3>2. r \in plans /\ Exactly(r, 3 + Len(stored[t]))
        BY <2>2, <3>1 DEF AuditInv, Trailed
      <3> QED
        BY <3>1, <3>2 DEF Exactly, Begins, StoreInv, StoreTypeOK
    <2> QED
      BY <2>1, <2>2, ManifestCases DEF StoreManifest, TypeOK
  <1> QED
    BY <1>1, <1>2, <1>3 DEF AuditInv

LEMMA AuditedImplied ==
  ASSUME TypeOK, AuditInv PROVE AuditedBeforeManifest
  <1> SUFFICES ASSUME NEW r \in Run, manifests[r] # None
               PROVE  /\ r \in plans
                      /\ IsPrefix(<<"work_unit.received", "policy.evaluated", "plan.created">>
                                    \o [i \in DOMAIN manifests[r].segments |-> "action.executed"],
                                  trail[r])
    BY DEF AuditedBeforeManifest
  <1> DEFINE segments == manifests[r].segments
             opening == <<"work_unit.received", "policy.evaluated", "plan.created">>
             all == opening \o [i \in DOMAIN segments |-> "action.executed"]
  <1>1. r \in plans /\ Begins(r, 3 + Len(segments)) /\ segments \in Seq(Segment)
    BY DEF AuditInv, TypeOK, Manifest
  <1>2. PICK n \in Nat : n = Len(segments) /\ DOMAIN segments = 1..n
    BY <1>1
  <1>3. opening \in Seq(Event) /\ [i \in 1..n |-> "action.executed"] \in Seq(Event)
    BY DEF Event
  <1>4. /\ all \in Seq(Event) /\ Len(all) = 3 + n
        /\ \A i \in 1..(3 + n) : all[i] = EventAt(i)
    BY <1>2, <1>3 DEF EventAt
  <1>5. trail[r] \in Seq(Event) /\ 3 + n <= Len(trail[r]) /\ \A i \in 1..(3 + n) : trail[r][i] = EventAt(i)
    BY <1>1, <1>2 DEF TypeOK, Begins
  <1> HIDE DEF all
  <1>6. SubSeq(all, 1, 3 + n) = SubSeq(trail[r], 1, 3 + n)
    BY <1>4, <1>5
  <1>7. IsPrefix(all, trail[r])
    BY <1>4, <1>5, <1>6 DEF IsPrefix
  <1> QED
    BY <1>1, <1>7 DEF all
-----------------------------------------------------------------------------
(* What is on its way into the store has been allowed in.                  *)
Allowed(t, q) ==
  /\ pc[t] \notin {"idle", "open", "deny"} => ~q.approvalMissing
  /\ pc[t] \in {"put", "store"} => q.mode # "observe"
  /\ pc[t] = "store" => \A i \in DOMAIN todo[t] :
       /\ todo[t][i].key.namespace = StorageNamespace(q)
       /\ todo[t][i].key.chunk \in ToSet(q.chunks)

AllowedInv == \A t \in Thread : Allowed(t, My(t))

LEMMA AllowedStep ==
  ASSUME TypeOK, StoreInv, RunInv, ProgressInv, AllowedInv, [Next]_vars
  PROVE  AllowedInv'
  <1> USE DEF TypeOK, StoreTypeOK, Goto
  <1>1. ASSUME NEW u \in Thread, Untouched(u) PROVE Allowed(u, My(u))'
    BY <1>1 DEF AllowedInv, Allowed, Untouched, My
  <1>2. CASE UNCHANGED vars
    BY <1>2 DEF vars, storeVars, control, AllowedInv, Allowed, My
  <1>3. ASSUME NEW t \in Thread, NEW q \in Request, Begin(t, q) PROVE Allowed(t, My(t))'
    BY <1>3 DEF Begin, Allowed
  <1>4. ASSUME NEW t \in Thread, Finish(t) PROVE Allowed(t, My(t))'
    BY <1>4 DEF Finish, Allowed
  <1>5. ASSUME NEW t \in Thread, Step(t) PROVE Allowed(t, My(t))'
    <2>1. CASE InStore(t)
      <3>1. My(t)' = My(t) /\ pc' = pc
        BY <2>1 DEF InStore, My, control
      <3>2. CASE todo'[t] = todo[t]
        BY <3>1, <3>2 DEF AllowedInv, Allowed
      <3>3. CASE todo[t] # << >> /\ todo'[t] = Tail(todo[t])
        <4>1. \A i \in DOMAIN todo'[t] : i + 1 \in DOMAIN todo[t] /\ todo'[t][i] = todo[t][i + 1]
          <5>1. todo[t] \in Seq(Segment)
            OBVIOUS
          <5>2. /\ Len(Tail(todo[t])) = Len(todo[t]) - 1 /\ Tail(todo[t]) \in Seq(Segment)
                /\ \A i \in 1..Len(Tail(todo[t])) : Tail(todo[t])[i] = todo[t][i + 1]
            BY <3>3, <5>1, HeadAndTail
          <5> QED
            BY <3>3, <5>1, <5>2
        <4> QED
          BY <3>1, <4>1 DEF AllowedInv, Allowed
      <3>4. todo'[t] = todo[t] \/ (todo[t] # << >> /\ todo'[t] = Tail(todo[t]))
        BY <2>1 DEF InStore, StoreStep, OpenStore, CreateIndex, DedupeHit, BeginStore, Stored,
           WriteChunkFile, WriteIndex, StoreInv, CopyInv, Writing
      <3> QED
        BY <3>2, <3>3, <3>4
    <2>2. CASE PutChunks(t)
      <3>1. /\ My(t)' = My(t) /\ My(t).chunks \in Seq(Chunk) /\ pc'[t] = "store"
            /\ todo'[t] = [i \in DOMAIN My(t).chunks |-> NewSegment(t, My(t), My(t).chunks[i])]
        BY <2>2, RequestChunks DEF PutChunks, BeginPutChunks, My
      <3>2. \A i \in DOMAIN todo'[t] :
              /\ todo'[t][i].key.namespace = StorageNamespace(My(t))
              /\ todo'[t][i].key.chunk \in ToSet(My(t).chunks)
        BY <3>1 DEF NewSegment, ToSet
      <3>3. ~My(t).approvalMissing /\ My(t).mode # "observe"
        BY <2>2 DEF PutChunks, AllowedInv, Allowed
      <3> QED
        BY <3>1, <3>2, <3>3 DEF Allowed
    <2>3. CASE Deny(t) \/ ChunkUnreadable(t) \/ Return(t)
      BY <1>4, <2>3 DEF Deny, ChunkUnreadable, Return
    <2>4. CASE Verify(t)
      <3>1. CASE Finish(t)
        BY <1>4, <3>1
      <3>2. CASE pc'[t] = "manifest" /\ pc[t] = "audit" /\ UNCHANGED <<run, request>>
        BY <3>2 DEF AllowedInv, Allowed, My
      <3> QED
        BY <2>4, <3>1, <3>2 DEF Verify
    <2>5. CASE Receive(t) \/ Evaluate(t) \/ PlanCreated(t) \/ ActionExecuted(t)
               \/ ManifestWritten(t) \/ AdapterExecuted(t)
      BY <2>5 DEF Receive, Evaluate, PlanCreated, ActionExecuted, ManifestWritten,
         AdapterExecuted, AuditStep, AllowedInv, Allowed, My
    <2>6. CASE StoreOpened(t) \/ StorePlan(t) \/ ChunksStored(t) \/ StoreManifest(t)
      BY <2>6 DEF StoreOpened, FirstStep, StorePlan, ChunksStored, StoreManifest, AfterManifest,
         AllowedInv, Allowed, My
    <2> QED
      BY <1>5, <2>1, <2>2, <2>3, <2>4, <2>5, <2>6 DEF Step
  <1>6. ASSUME NEW t \in Thread, (\E q \in Request : Begin(t, q)) \/ Step(t) \/ Stop(t)
        PROVE  AllowedInv'
    BY <1>1, <1>3, <1>4, <1>5, <1>6, OthersUntouched DEF AllowedInv, Stop
  <1> QED
    BY <1>2, <1>6 DEF Next

(* Only WriteChunkFile touches a chunk file.                               *)
LEMMA FileCases ==
  ASSUME [Next]_vars
  PROVE  UNCHANGED chunkFile \/ \E t \in Thread : InStore(t) /\ WriteChunkFile(t)
  <1>1. ASSUME NEW t \in Thread, Step(t)
        PROVE  UNCHANGED chunkFile \/ (InStore(t) /\ WriteChunkFile(t))
    <2>1. CASE InStore(t)
      BY <2>1 DEF InStore, StoreStep, OpenStore, CreateIndex, DedupeHit, BeginStore, WriteIndex, storeFiles
    <2> QED
      BY <1>1, <2>1 DEF Step, StoreOpened, Deny, Receive, Evaluate, StorePlan, PlanCreated, PutChunks,
         BeginPutChunks, ChunkUnreadable, ChunksStored, ActionExecuted, Verify, StoreManifest,
         ManifestWritten, AdapterExecuted, Return, AuditStep, Finish, LeaveStore, storeVars, storeFiles
  <1> QED
    BY <1>1 DEF Next, Begin, Stop, Finish, LeaveStore, vars, storeVars, storeFiles

LEMMA OnlyAllowedStep ==
  ASSUME TypeOK, StoreInv, RunInv, ProgressInv, AuditInv, AllowedInv, OnlyAllowedStored, [Next]_vars
  PROVE  OnlyAllowedStored'
  <1> USE DEF TypeOK
  <1> DEFINE Source(k, r) ==
        /\ request[r] # None /\ request[r].mode # "observe" /\ ~request[r].approvalMissing
        /\ k.namespace = StorageNamespace(request[r])
        /\ k.chunk \in ToSet(request[r].chunks)
        /\ "plan.created" \in ToSet(trail[r])
  <1>1. ASSUME NEW k \in Key, NEW r \in Run, Source(k, r) PROVE Source(k, r)'
    <2>1. request'[r] = request[r]
      BY <1>1, RequestStays
    <2>2. trail[r] \in Seq(Event) /\ (trail'[r] = trail[r] \/ \E event \in Event : trail'[r] = Append(trail[r], event))
      BY TrailCases DEF Audit
    <2>3. ToSet(trail[r]) \subseteq ToSet(trail'[r])
      BY <2>2 DEF ToSet
    <2> QED
      BY <1>1, <2>1, <2>3
  <1>2. ASSUME NEW t \in Thread, WriteChunkFile(t), pc[t] = "store", UNCHANGED <<request, trail>>,
               NEW k \in Key, chunkFile'[k] # chunkFile[k]
        PROVE  Source(k, run[t])
    <2>1. todo[t] \in Seq(Segment) /\ todo[t] # << >> /\ k = Head(todo[t]).key
      BY <1>2, WorkProperties DEF WriteChunkFile, StoreInv, StoreTypeOK, CopyInv, Writing, Entries
    <2>2. 1 \in DOMAIN todo[t] /\ Head(todo[t]) = todo[t][1]
      BY <2>1
    <2>3. /\ k.namespace = StorageNamespace(My(t)) /\ k.chunk \in ToSet(My(t).chunks)
          /\ My(t).mode # "observe" /\ ~My(t).approvalMissing
      BY <1>2, <2>1, <2>2 DEF AllowedInv, Allowed
    <2>4. Exactly(run[t], 3)
      BY <1>2 DEF AuditInv, Trailed
    <2>5. trail[run[t]] \in Seq(Event) /\ My(t) # None
      BY <1>2, RunsAssumption DEF RunInv, My
    <2>6. "plan.created" \in ToSet(trail[run[t]])
      BY <2>4, <2>5 DEF Exactly, EventAt, ToSet
    <2> QED
      BY <2>3, <2>5, <2>6 DEF My
  <1>3. ASSUME NEW k \in Key, chunkFile'[k] # chunkFile[k]
        PROVE  \E r \in Run : Source(k, r)
    <2>1. PICK t \in Thread : InStore(t) /\ WriteChunkFile(t)
      BY <1>3, FileCases
    <2>2. pc[t] = "store"
      BY <2>1 DEF InStore, WriteChunkFile, ProgressInv, Progress
    <2>3. Source(k, run[t]) /\ run[t] \in Run
      BY <1>2, <1>3, <2>1, <2>2 DEF InStore, control, records, RunInv
    <2> QED
      BY <2>3
  <1>4. ASSUME NEW k \in Key, chunkFile'[k] # None PROVE \E r \in Run : Source(k, r)
    <2>1. CASE chunkFile'[k] = chunkFile[k]
      BY <1>4, <2>1 DEF OnlyAllowedStored
    <2> QED
      BY <2>1, <1>3
  <1> QED
    BY <1>1, <1>4 DEF OnlyAllowedStored
-----------------------------------------------------------------------------
IInv ==
  /\ TypeOK /\ StoreInv /\ RunInv
  /\ StoredInv /\ ProgressInv /\ ManifestInv
  /\ AuditInv /\ ManifestAudited
  /\ AllowedInv /\ OnlyAllowedStored

(* The invariant of any number of runs over the store.                     *)
THEOREM Invariance == Spec => []IInv
  <1>1. Init => IInv
    <2> SUFFICES ASSUME Init PROVE IInv
      OBVIOUS
    <2> USE RunsAssumption, StoreNoneAssumption DEF Init, StoreInit
    <2>1. StoreInv
      BY EmptyIsSeq, NoEntriesType
         DEF StoreInv, StoreTypeOK, LockInv, OpenInv, CopyInv, FileInv, IndexedOnDisk, Entry, Writing
    <2>2. TypeOK
      BY <2>1, EmptyIsSeq DEF TypeOK, StoreInv, Run
    <2>3. RunInv /\ StoredInv /\ ProgressInv /\ AllowedInv
      BY DEF RunInv, StoredInv, Indexed, ProgressInv, Progress, AllowedInv, Allowed
    <2>4. ManifestInv /\ ManifestAudited /\ OnlyAllowedStored
      BY DEF ManifestInv, Rehydratable, ManifestAudited, OnlyAllowedStored, NoEntries
    <2>5. AuditInv
      BY DEF AuditInv, Exactly
    <2> QED
      BY <2>1, <2>2, <2>3, <2>4, <2>5 DEF IInv
  <1>2. IInv /\ [Next]_vars => IInv'
    BY StoreInvStep, RunStep, TypeStep, StoredStep, ProgressStep, ManifestStep, AuditInvStep,
       ManifestAuditedStep, AllowedStep, OnlyAllowedStep DEF IInv
  <1> QED
    BY <1>1, <1>2, PTL DEF Spec

(* Type correctness for all constants.                                     *)
THEOREM TypeCorrect == Spec => []TypeOK
  BY Invariance, PTL DEF IInv

(* Whoever stores chunks, with whatever codec, and wherever they stop: an  *)
(* entry of index.json names a file with those bytes.                      *)
THEOREM AlwaysIndexedOnDisk == Spec => []IndexedOnDisk
  <1>1. IInv => IndexedOnDisk
    BY DEF IInv, StoreInv
  <1> QED
    BY <1>1, Invariance, PTL

(* No update of index.json loses or changes the entry of another.          *)
THEOREM IndexAlwaysGrows == Spec => IndexGrows
  <1>1. IInv /\ [Next]_vars => [\A k \in Key : Entry(k) # None => Entry(k)' = Entry(k)]_index
    BY EntryStays DEF IInv
  <1> QED
    BY <1>1, Invariance, PTL DEF Spec, IndexGrows

(* The ledger and the plan store account for every manifest.               *)
THEOREM AlwaysAuditedBeforeManifest == Spec => []AuditedBeforeManifest
  BY Invariance, AuditedImplied, PTL DEF IInv

(* A manifest whose own event is missing is that of a run that was cut     *)
(* short, or is about to write it.                                         *)
THEOREM AlwaysManifestAudited == Spec => []ManifestAudited
  BY Invariance, PTL DEF IInv

(* Both together, which is what the runs check.                            *)
THEOREM AuditTrailAlwaysComplete == Spec => []AuditTrailComplete
  BY AlwaysAuditedBeforeManifest, AlwaysManifestAudited, PTL DEF AuditTrailComplete

(* No chunk of an observed or denied work unit reaches the store.          *)
THEOREM AlwaysOnlyAllowedStored == Spec => []OnlyAllowedStored
  BY Invariance, PTL DEF IInv
-----------------------------------------------------------------------------
(* What can be rehydrated is the body of the request.                      *)
BodiesFaithful == \A r \in Run : Rehydratable(r) => Rehydrated(r) = request[r].chunks

LEMMA RehydratedBody == IInv => BodiesFaithful
  <1> SUFFICES ASSUME IInv, NEW r \in Run, Rehydratable(r)
               PROVE  Rehydrated(r) = request[r].chunks
    BY DEF BodiesFaithful
  <1> DEFINE segments == manifests[r].segments
             chunks == request[r].chunks
  <1>1. /\ request[r] \in Request /\ segments \in Seq(Segment)
        /\ Covers(segments, << >>, chunks) /\ Indexed(segments)
    BY DEF IInv, ManifestInv
  <1>2. chunks \in Seq(Chunk) /\ Len(segments) = Len(chunks)
    BY <1>1, RequestAssumption DEF Covers
  <1>3. \A i \in DOMAIN segments : Decodes(segments[i]) /\ segments[i].key.chunk = chunks[i]
    <2> TAKE i \in DOMAIN segments
    <2>1. segments[i] \in Segment /\ Entry(segments[i].key) = segments[i].codec
      BY <1>1 DEF Indexed
    <2>2. segments[i].key \in Key /\ segments[i].codec # None
      BY <2>1, StoreNoneAssumption DEF Segment
    <2>3. Decodes(segments[i])
      BY <2>1, <2>2 DEF Decodes, IndexedOnDisk, IInv, StoreInv
    <2>4. segments[i].key.chunk = chunks[i]
      BY <1>1 DEF Covers
    <2> QED
      BY <2>3, <2>4
  <1>4. [i \in DOMAIN segments |->
           IF Decodes(segments[i]) THEN segments[i].key.chunk ELSE "corrupt"] = chunks
    BY <1>1, <1>2, <1>3
  <1> QED
    BY <1>4 DEF Rehydrated, Rehydratable

LEMMA NotRehydrated ==
  ASSUME NEW r \in Run, ~Rehydratable(r) PROVE Rehydrated(r) = None
  BY DEF Rehydrated, Rehydratable

(* What is stored is the request's body, bit by bit.                       *)
THEOREM ManifestsAlwaysFaithful == Spec => []ManifestsFaithful
  <1>1. IInv => ManifestsFaithful
    BY RehydratedBody, NotRehydrated DEF BodiesFaithful, ManifestsFaithful
  <1> QED
    BY <1>1, Invariance, PTL

(* Objects appear at once and whole, and never change: the executor, its   *)
(* chunk store and its manifest store implement ObjectStore.               *)
THEOREM Implementation == Spec => ImplementsObjectStore
  <1> DEFINE Bodies == {q.chunks : q \in Request}
             objects == [r \in Run |-> Rehydrated(r)]
  <1>1. Init => objects = [r \in Run |-> None]
    BY DEF Init, Rehydrated
  <1>2. IInv /\ BodiesFaithful /\ BodiesFaithful' /\ [Next]_vars
          => [\E r \in Run, body \in Bodies : Objects!StoreObject(r, body)]_objects
    <2> SUFFICES ASSUME IInv, BodiesFaithful, BodiesFaithful', [Next]_vars
                 PROVE  (\E r \in Run, body \in Bodies : Objects!StoreObject(r, body)) \/ UNCHANGED objects
      OBVIOUS
    <2>1. ASSUME NEW r \in Run, manifests'[r] = manifests[r] PROVE Rehydrated(r)' = Rehydrated(r)
      <3>1. CASE Rehydratable(r)
        <4>1. Rehydratable(r)' /\ request[r] # None
          BY <2>1, <3>1, RunsAssumption DEF Rehydratable, IInv, ManifestInv
        <4>2. request'[r] = request[r]
          BY <4>1, RequestStays DEF IInv
        <4>3. Rehydrated(r)' = request'[r].chunks
          BY <4>1 DEF BodiesFaithful
        <4> QED
          BY <3>1, <4>2, <4>3 DEF BodiesFaithful
      <3>2. CASE ~Rehydratable(r)
        <4>1. ~Rehydratable(r)'
          BY <2>1, <3>2 DEF Rehydratable
        <4> QED
          BY <2>1, <3>2, <4>1 DEF Rehydrated, Rehydratable
      <3> QED
        BY <3>1, <3>2
    <2>2. CASE UNCHANGED manifests
      BY <2>1, <2>2
    <2>3. ASSUME NEW t \in Thread, StoreManifest(t)
          PROVE  (\E r \in Run, body \in Bodies : Objects!StoreObject(r, body)) \/ UNCHANGED objects
      <3>1. PICK r \in Run : /\ r = run[t] /\ request[r] \in Request /\ manifests[r] = None
                             /\ \A s \in Run : s # r => manifests'[s] = manifests[s]
                             /\ request' = request
        BY <2>3 DEF StoreManifest, IInv, RunInv, ManifestInv, Labels, TypeOK
      <3>2. Rehydrated(r) = None /\ \A s \in Run : s # r => Rehydrated(s)' = Rehydrated(s)
        BY <2>1, <3>1 DEF Rehydrated
      <3>3. CASE Rehydratable(r)'
        <4>1. Rehydrated(r)' = request[r].chunks /\ request[r].chunks \in Bodies
          <5>1. Rehydrated(r)' = request'[r].chunks
            BY <3>3 DEF BodiesFaithful
          <5> QED
            BY <3>1, <5>1
        <4>2. Objects!StoreObject(r, request[r].chunks)
          BY <3>2, <4>1 DEF Objects!StoreObject
        <4> QED
          BY <4>1, <4>2
      <3>4. CASE ~Rehydratable(r)'
        <4>1. Rehydrated(r)' = None
          BY <3>4 DEF Rehydrated, Rehydratable
        <4> QED
          BY <3>2, <4>1
      <3> QED
        BY <3>3, <3>4
    <2> QED
      BY <2>2, <2>3, ManifestCases
  <1> QED
    BY <1>1, <1>2, RehydratedBody, Invariance, PTL DEF Spec, ImplementsObjectStore, Objects!ObjectSpec
==============================================================================
