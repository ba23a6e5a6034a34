----------------------------- MODULE ChunkStore -----------------------------
(***************************************************************************)
(* LocalChunkStore (python/urp/chunk_store.py): chunks deduplicated by     *)
(* (tenant, namespace, digest), one file per chunk and one index.json over *)
(* all of them.  put_chunk runs under the store's file_lock; the reads of  *)
(* rehydrate take no lock.                                                 *)
(*                                                                         *)
(* The module has the state and the steps of the store's methods; the      *)
(* threads that call them are in Execute.                                  *)
(***************************************************************************)
EXTENDS Naturals, Sequences

CONSTANTS
  Thread,   \* the threads that use the store
  Key,      \* (tenant, namespace, digest); names the chunk's file too
  Library,  \* the codec of each thread's ZstdLikePlugin: "zstd" or "zlib"
  None      \* no file, no entry, nobody

Codec == {"raw", "zlib", "zstd"}

ASSUME LibraryAssumption == Library \in [Thread -> {"zlib", "zstd"}]

(* A stored chunk as manifests record it.  The bytes of a chunk file are   *)
(* those of its key under a codec, so the codec stands for the file.       *)
Segment == [key : Key, codec : Codec]
Entries == [Key -> Codec \cup {None}]
NoEntries == [k \in Key |-> None]

ASSUME StoreNoneAssumption == None \notin Codec /\ None \notin Thread /\ None \notin Entries

VARIABLES
  index,      \* index.json; None until the first LocalChunkStore creates it
  chunkFile,  \* the chunk files
  holder,     \* the thread inside file_lock(.chunk-store.lock)
  storePc,    \* where each thread is in the store
  todo,       \* what put_chunks has still to store
  copy,       \* the index as put_chunk has read it
  stored      \* what put_chunks has stored so far

storeFiles == <<index, chunkFile>>
storeVars == <<storeFiles, holder, storePc, todo, copy, stored>>

StoreInit ==
  /\ index = None /\ chunkFile = NoEntries
  /\ holder = None
  /\ storePc = [t \in Thread |-> "out"]
  /\ todo = [t \in Thread |-> << >>]
  /\ copy = [t \in Thread |-> NoEntries]
  /\ stored = [t \in Thread |-> << >>]

StoreGoto(t, label) == storePc' = [storePc EXCEPT ![t] = label]

(* Mutant of MayEnter: the lock is not waited for.                         *)
EnterAnyway(t) == TRUE

MayEnter(t) == holder = None

(* read_stored: the file decodes with the segment's codec to the bytes its *)
(* digest names; zstd needs the optional library.                          *)
Decodes(segment) == chunkFile[segment.key] = segment.codec
MayDecode(t, codec) == codec = "zstd" => Library[t] = "zstd"
-----------------------------------------------------------------------------
(* LocalChunkStore(root): an index that exists is left alone.              *)
OpenStore(t) ==
  /\ storePc[t] = "out"
  /\ StoreGoto(t, IF index = None THEN "create" ELSE "open")
  /\ UNCHANGED <<storeFiles, holder, todo, copy, stored>>

IndexToCreate == IF index = None THEN NoEntries ELSE index

CreateIndex(t) ==
  /\ storePc[t] = "create" /\ MayEnter(t)
  /\ index' = IndexToCreate
  /\ StoreGoto(t, "open")
  /\ UNCHANGED <<chunkFile, holder, todo, copy, stored>>

BeginPutChunks(t, segments) ==
  /\ storePc[t] = "open"
  /\ todo' = [todo EXCEPT ![t] = segments]
  /\ StoreGoto(t, "put")
  /\ UNCHANGED <<storeFiles, holder, copy, stored>>

(* put_chunk returns `segment`, the lock released.                         *)
Stored(t, segment) ==
  /\ stored' = [stored EXCEPT ![t] = Append(@, segment)]
  /\ todo' = [todo EXCEPT ![t] = Tail(@)]
  /\ StoreGoto(t, "put")

(* Mutant of Known: no chunk is looked up.                                 *)
NeverKnown(k) == FALSE

Known(k) == chunkFile[k] # None /\ index[k] # None

(* put_chunk takes the lock and reads the index.  A chunk that is there    *)
(* already is read back and its entry returned, whatever codec this call   *)
(* would have used.                                                        *)
DedupeHit(t) ==
  /\ storePc[t] = "put" /\ todo[t] # << >> /\ MayEnter(t)
  /\ LET k == Head(todo[t]).key
         entry == [key |-> k, codec |-> index[k]]
     IN /\ Known(k) /\ Decodes(entry) /\ MayDecode(t, entry.codec)
        /\ Stored(t, entry)
  /\ UNCHANGED <<storeFiles, holder, copy>>

BeginStore(t) ==
  /\ storePc[t] = "put" /\ todo[t] # << >> /\ MayEnter(t)
  /\ ~Known(Head(todo[t]).key)
  /\ holder' = t
  /\ copy' = [copy EXCEPT ![t] = index]
  /\ StoreGoto(t, "file")
  /\ UNCHANGED <<storeFiles, todo, stored>>

WriteChunkFile(t) ==
  /\ storePc[t] = "file"
  /\ chunkFile' = [chunkFile EXCEPT ![Head(todo[t]).key] = Head(todo[t]).codec]
  /\ StoreGoto(t, "index")
  /\ UNCHANGED <<index, holder, todo, copy, stored>>

(* Mutant of Unlocked: the lock is kept when the chunk is stored.          *)
StillLocked(t) == holder

Unlocked(t) == IF holder = t THEN None ELSE holder

WriteIndex(t) ==
  /\ storePc[t] = "index"
  /\ index' = [copy[t] EXCEPT ![Head(todo[t]).key] = Head(todo[t]).codec]
  /\ holder' = Unlocked(t)
  /\ copy' = [copy EXCEPT ![t] = NoEntries]
  /\ Stored(t, Head(todo[t]))
  /\ UNCHANGED chunkFile

(* put_chunks has returned all it was given.                               *)
AllStored(t) == storePc[t] = "put" /\ todo[t] = << >>

(* The existing file of the chunk cannot be read back by this process.     *)
Unreadable(t) ==
  /\ storePc[t] = "put" /\ todo[t] # << >> /\ MayEnter(t)
  /\ LET k == Head(todo[t]).key
     IN Known(k) /\ ~(chunkFile[k] = index[k] /\ MayDecode(t, index[k]))

(* t's call ends: by returning, an exception or the death of the process.  *)
LeaveStore(t) ==
  /\ holder' = IF holder = t THEN None ELSE holder
  /\ storePc' = [storePc EXCEPT ![t] = "out"]
  /\ todo' = [todo EXCEPT ![t] = << >>]
  /\ copy' = [copy EXCEPT ![t] = NoEntries]
  /\ stored' = [stored EXCEPT ![t] = << >>]
  /\ UNCHANGED storeFiles

(* The steps a thread takes inside the store.                              *)
StoreStep(t) ==
  \/ OpenStore(t) \/ CreateIndex(t)
  \/ DedupeHit(t) \/ BeginStore(t) \/ WriteChunkFile(t) \/ WriteIndex(t)
-----------------------------------------------------------------------------
StoreTypeOK ==
  /\ index \in Entries \cup {None}
  /\ chunkFile \in Entries
  /\ holder \in Thread \cup {None}
  /\ storePc \in [Thread -> {"out", "create", "open", "put", "file", "index"}]
  /\ todo \in [Thread -> Seq(Segment)]
  /\ copy \in [Thread -> Entries]
  /\ stored \in [Thread -> Seq(Segment)]

Entry(k) == IF index = None THEN None ELSE index[k]

(* The index never points to a chunk file that is missing or holds other   *)
(* bytes than the entry says: a dedupe hit can always be decoded.          *)
IndexedOnDisk == \A k \in Key : Entry(k) # None => chunkFile[k] = Entry(k)

(* An entry of the index is never lost nor changed: put_chunk's read-      *)
(* modify-write of the one index file, and its creation by several         *)
(* processes, lose nothing.                                                *)
IndexGrows ==
  [][\A k \in Key : Entry(k) # None => Entry(k)' = Entry(k)]_index
=============================================================================
