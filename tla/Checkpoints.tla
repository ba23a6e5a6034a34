---------------------------- MODULE Checkpoints ----------------------------
(***************************************************************************)
(* CheckpointDeltaStore (python/urp/checkpoints.py): a checkpoint is a     *)
(* base file or the blocks in which it differs from another checkpoint,    *)
(* and a manifest that is written after them.  Each file is replaced in a  *)
(* critical section of its own, files but manifests are read without the   *)
(* lock, and an identifier may be used again.                              *)
(***************************************************************************)
EXTENDS Common, Integers, Sequences, SequencesExt

CONSTANTS
  Checkpoint, \* checkpoint identifiers
  Content,    \* the data that is stored, sequences of bytes
  BlockSize,  \* of the store
  Client,     \* the threads that use the store
  Room,       \* how many reads may nest: Python's recursion limit less what called
  MaxPuts     \* bound: how many checkpoints are put

ASSUME CheckpointAssumption ==
  /\ BlockSize \in Nat \ {0} /\ Room \subseteq Nat \ {0} /\ MaxPuts \in Nat
  /\ Content \subseteq Seq(Int) /\ None \notin Content

VARIABLES
  baseFile,  \* <id>.base
  blockFile, \* <id>.block.<index>
  manifest,  \* <id>.json; a digest stands as the data it is of
  client,    \* the call each client is in
  result,    \* history: what the read that ended with this step came to
  puts,      \* history: the data put under each identifier
  putCount,  \* counts the puts
  reused     \* history: an identifier has been put twice

history == <<puts, putCount, reused>>
checkpointVars == <<baseFile, blockFile, manifest, client, result, history>>

CheckpointInit ==
  /\ baseFile = [c \in Checkpoint |-> None]
  /\ blockFile = << >>
  /\ manifest = [c \in Checkpoint |-> None]
  /\ client = [p \in Client |-> None]
  /\ result = None
  /\ puts = [c \in Checkpoint |-> {}]
  /\ putCount = 0 /\ reused = FALSE

(* fixed_chunks.                                                           *)
BlockOf(data, i) ==
  SubSeq(data, (i - 1) * BlockSize + 1,
         IF i * BlockSize < Len(data) THEN i * BlockSize ELSE Len(data))
Blocks(data) ==
  [i \in 1..((Len(data) + BlockSize - 1) \div BlockSize) |-> BlockOf(data, i)]

Changed(base, data) ==
  {i \in DOMAIN Blocks(data) : i \notin DOMAIN Blocks(base) \/ Blocks(base)[i] # Blocks(data)[i]}

Set(p, call) == client' = [client EXCEPT ![p] = call]

(* A read of id goes through the manifests of way and ends at a base, ...   *)
LeadsToBase(id, way, n) ==
  /\ way[1] = id
  /\ \A i \in 1..n : manifest[way[i]] # None
  /\ \A i \in 1..(n - 1) : manifest[way[i]].kind = "delta" /\ manifest[way[i]].base = way[i + 1]
  /\ manifest[way[n]].kind = "base"

(* ... and nests no more calls than there is room for.                     *)
ReadsWithin(id, room) ==
  \E n \in 1..room : \E way \in [1..n -> Checkpoint] : LeadsToBase(id, way, n)

(* A read returns, or any call raises; sure: the manifests were there at its *)
(* start, with room to follow them, and no identifier has been used twice  *)
(* by its end.                                                             *)
End(p, outcome) ==
  /\ Set(p, None)
  /\ result' = [id |-> client[p].id, value |-> outcome, sure |-> client[p].visible /\ ~reused]
-----------------------------------------------------------------------------
(* put_delta is a call around the reads it makes: it leaves them one less. *)
Begin(p, op, id, base, data, room) ==
  /\ client[p] = None
  /\ Set(p, [op |-> op, id |-> id, base |-> base, data |-> data, chain |-> << >>,
             next |-> IF op = "delta" THEN base ELSE id, got |-> None, todo |-> {},
             room |-> room, visible |-> op = "read" /\ ReadsWithin(id, room)])
  /\ result' = None /\ UNCHANGED <<baseFile, blockFile, manifest>>

BeginRead(p, id, room) == Begin(p, "read", id, id, << >>, room) /\ UNCHANGED history

BeginPut(p, op, id, base, data, room) ==
  /\ putCount < MaxPuts
  /\ Begin(p, op, id, base, data, room)
  /\ puts' = [puts EXCEPT ![id] = @ \cup {data}]
  /\ putCount' = putCount + 1
  /\ reused' = (reused \/ puts[id] # {})

WriteBase(p) ==
  /\ client[p] # None /\ client[p].op = "base"
  /\ baseFile' = [baseFile EXCEPT ![client[p].id] = client[p].data]
  /\ Set(p, [client[p] EXCEPT !.op = "publish base"])
  /\ result' = None /\ UNCHANGED <<blockFile, manifest, history>>

(* read: get_manifest of a checkpoint, then of its base, and so on, in a   *)
(* nested call for each.                                                   *)
Reading(p) == client[p] # None /\ client[p].op \in {"read", "delta"} /\ client[p].got = None

Followed(p) ==
  LET chain == client[p].chain
  IN  chain # << >> /\ Last(chain).kind = "base"

ReadManifest(p) ==
  /\ Reading(p) /\ ~Followed(p)
  /\ LET id == client[p].next
     IN  IF manifest[id] = None \/ Len(client[p].chain) = client[p].room
           THEN End(p, None)
           ELSE /\ Set(p, [client[p] EXCEPT !.chain = Append(@, manifest[id]),
                                            !.next = manifest[id].base])
                /\ result' = None
  /\ UNCHANGED <<baseFile, blockFile, manifest, history>>

ReadBase(p) ==
  /\ Reading(p) /\ Followed(p)
  /\ LET m == Last(client[p].chain)
     IN  IF baseFile[m.base] # m.data
           THEN End(p, None)
           ELSE /\ Set(p, [client[p] EXCEPT !.chain = Front(@), !.got = m.data])
                /\ result' = None
  /\ UNCHANGED <<baseFile, blockFile, manifest, history>>

(* Mutant of Restored: the checksum of the whole is not compared.          *)
RestoredAnyhow(m, data) == data

Restored(m, data) == IF data = m.data THEN data ELSE None

(* What a delta makes of its base, None when a checksum does not match.    *)
Rebuilt(m, base) ==
  LET block(i) == IF i \in m.changed THEN blockFile[<<m.id, i>>]
                  ELSE IF i \in DOMAIN Blocks(base) THEN Blocks(base)[i] ELSE << >>
      count == IF Len(Blocks(base)) > m.count THEN Len(Blocks(base)) ELSE m.count
      whole == FlattenSeq([i \in 1..count |-> block(i)])
  IN  IF \E i \in m.changed : blockFile[<<m.id, i>>] # BlockOf(m.data, i)
        THEN None
        ELSE Restored(m, SubSeq(whole, 1, IF Len(whole) < Len(m.data) THEN Len(whole)
                                                                      ELSE Len(m.data)))

Applying(p) ==
  client[p] # None /\ client[p].op \in {"read", "delta"} /\ client[p].got # None

(* The blocks of a delta are read together: as each has to have its digest *)
(* in the manifest, reading them one after the other gives the same.       *)
ApplyDelta(p) ==
  /\ Applying(p) /\ client[p].chain # << >>
  /\ LET data == Rebuilt(Last(client[p].chain), client[p].got)
     IN  IF data = None
           THEN End(p, None)
           ELSE /\ Set(p, [client[p] EXCEPT !.chain = Front(@), !.got = data])
                /\ result' = None
  /\ UNCHANGED <<baseFile, blockFile, manifest, history>>

ReturnRead(p) ==
  /\ Applying(p) /\ client[p].chain = << >> /\ client[p].op = "read"
  /\ End(p, client[p].got)
  /\ UNCHANGED <<baseFile, blockFile, manifest, history>>

CompareBlocks(p) ==
  /\ Applying(p) /\ client[p].chain = << >> /\ client[p].op = "delta"
  /\ Set(p, [client[p] EXCEPT !.op = "blocks", 
                             !.todo = Changed(client[p].got, client[p].data)])
  /\ result' = None /\ UNCHANGED <<baseFile, blockFile, manifest, history>>

WriteBlock(p) ==
  /\ client[p] # None /\ client[p].op = "blocks" /\ client[p].todo # {}
  /\ LET i == CHOOSE i \in client[p].todo : \A j \in client[p].todo : i <= j
         ref == <<client[p].id, i>>
     IN  /\ blockFile' = [r \in DOMAIN blockFile \cup {ref} |->
                            IF r = ref THEN BlockOf(client[p].data, i) ELSE blockFile[r]]
         /\ Set(p, [client[p] EXCEPT !.todo = @ \ {i}])
  /\ result' = None /\ UNCHANGED <<baseFile, manifest, history>>

NewManifest(call) ==
  IF call.op = "publish base"
    THEN [kind |-> "base", id |-> call.id, base |-> call.id, data |-> call.data]
    ELSE [kind |-> "delta", id |-> call.id, base |-> call.base, data |-> call.data,
          changed |-> Changed(call.got, call.data), count |-> Len(Blocks(call.data))]

WriteManifest(p) ==
  /\ client[p] # None
  /\ \/ client[p].op = "publish base"
     \/ client[p].op = "blocks" /\ client[p].todo = {}
  /\ manifest' = [manifest EXCEPT ![client[p].id] = NewManifest(client[p])]
  /\ Set(p, None)
  /\ result' = None /\ UNCHANGED <<baseFile, blockFile, history>>

(* The death of a reader changes nothing.                                  *)
ClientDies(p) ==
  /\ client[p] # None /\ client[p].op # "read"
  /\ Set(p, None)
  /\ result' = None /\ UNCHANGED <<baseFile, blockFile, manifest, history>>

CheckpointNext ==
  \E p \in Client :
    \/ \E c \in Checkpoint, room \in Room : BeginRead(p, c, room)
    \/ \E c \in Checkpoint, d \in Content : BeginPut(p, "base", c, c, d, 0)
    \/ \E c, b \in Checkpoint, d \in Content, room \in Room :
         BeginPut(p, "delta", c, b, d, room - 1)
    \/ WriteBase(p) \/ ReadManifest(p) \/ ReadBase(p) \/ ApplyDelta(p) \/ ReturnRead(p)
    \/ CompareBlocks(p) \/ WriteBlock(p) \/ WriteManifest(p) \/ ClientDies(p)

CheckpointSpec == CheckpointInit /\ [][CheckpointNext]_checkpointVars
-----------------------------------------------------------------------------
(* A read gives only data that was put under its identifier, whatever is   *)
(* put over it or over its base meanwhile; and as long as no identifier is *)
(* used twice, a checkpoint whose manifests lead to a base within as many  *)
(* nested calls as the reader's stack has room for (checkpoints.py:67) is  *)
(* read, whoever died while putting what (checkpoints.py:21-79).           *)
CheckpointsReadBack ==
  result # None =>
    /\ result.value # None => result.value \in puts[result.id]
    /\ result.sure => result.value # None
=============================================================================
