------------------------------ MODULE Multipart ------------------------------
(***************************************************************************)
(* One multipart upload of the local S3 adapter (python/urp/adapters.py,   *)
(* LocalS3Adapter): upload_part, complete_multipart_upload and             *)
(* abort_multipart_upload called by several clients, each a thread of a    *)
(* process of its own, over the upload's directory                         *)
(*                                                                         *)
(*     tmp/multipart/<upload_id>/                                          *)
(*        meta.json  part-<n>.bin ...  .multipart.lock                     *)
(*                                                                         *)
(* Two threads of one process are serialised further by file_lock's        *)
(* RLock; their behaviours are among those modelled here.                  *)
(*                                                                         *)
(* The lock file is one of the files clean-up deletes, so it has an        *)
(* identity: a client locks the inode it opened, which may be unlinked by  *)
(* the time it gets the lock.                                              *)
(***************************************************************************)
EXTENDS Naturals, Sequences, FiniteSets

CONSTANTS
  Client,    \* the callers of the adapter
  PartNo,    \* the part numbers of the upload
  None,      \* no part, no file, no meta.json
  MaxCalls  \* bound: how many calls are made on the upload

ASSUME BoundAssumption == MaxCalls \in Nat

(* The bodies uploaded: the k-th call, when it uploads, brings body k.  A  *)
(* body stands for its SHA-256 as well.                                    *)
Content == 1..MaxCalls

Ops == {"upload", "complete", "abort"}
Parts == [PartNo -> Content \cup {None}]
NoParts == [n \in PartNo |-> None]
Meta == [status : {"open", "completing"}, parts : Parts]

ASSUME NoneAssumption == None \notin Content /\ None \notin Meta

VARIABLES
  meta,      \* meta.json: status and the recorded parts; None when absent
  file,      \* the part files
  dir,       \* the upload's directory exists
  lockFile,  \* the inode .multipart.lock names; 0 when absent
  inodes,    \* how many lock files were ever created
  handle,    \* the lock inode each client has opened; 0 for none
  locked,    \* the clients that hold the flock of their inode
  pc,        \* where each client is in its call
  op,        \* what it is doing: a call, or a later phase of "complete"
  part,      \* the part an upload_part call writes: [number, body]
  local,     \* the meta.json a client has read
  objects,   \* the manifests put_object has stored, as the joined parts
  calls,     \* how many calls were made
  acked,     \* history: the body of each part's last finished upload_part
  expect,    \* history: acked as it was when a client called complete
  lateFailures, \* history: completions that failed after their manifest was stored
  cutShort   \* history: a completion died, or raised where it does not open the upload again

disk == <<meta, file, dir, lockFile, inodes>>
lock == <<handle, locked>>
history == <<acked, expect, lateFailures, cutShort>>
vars == <<disk, lock, pc, op, part, local, objects, calls, history>>

Init ==
  /\ meta = [status |-> "open", parts |-> NoParts]   \* create_multipart_upload
  /\ file = NoParts
  /\ dir = TRUE /\ lockFile = 0 /\ inodes = 0
  /\ handle = [c \in Client |-> 0] /\ locked = {}
  /\ pc = [c \in Client |-> "idle"]
  /\ op = [c \in Client |-> "none"]
  /\ part = [c \in Client |-> None]
  /\ local = [c \in Client |-> None]
  /\ objects = << >>
  /\ calls = 0
  /\ acked = NoParts
  /\ expect = [c \in Client |-> NoParts]
  /\ lateFailures = 0 /\ cutShort = FALSE

Goto(c, label) == pc' = [pc EXCEPT ![c] = label]

(* c's call returns or raises; its locals and its lock are gone.           *)
Leave(c) ==
  /\ Goto(c, "idle")
  /\ op' = [op EXCEPT ![c] = "none"]
  /\ part' = [part EXCEPT ![c] = None]
  /\ local' = [local EXCEPT ![c] = None]
  /\ handle' = [handle EXCEPT ![c] = 0]
  /\ locked' = locked \ {c}
  /\ expect' = [expect EXCEPT ![c] = NoParts]

(* Mutant of Unlock: the lock is held for the rest of the call.            *)
KeepLock(c) == UNCHANGED lock

Unlock(c) ==
  /\ handle' = [handle EXCEPT ![c] = 0]
  /\ locked' = locked \ {c}

(* The clients that have claimed the upload and not finished with it.      *)
Completing(c) == pc[c] # "idle" /\ (op[c] \in {"put", "reopen", "cleanup"})
-----------------------------------------------------------------------------
(* The calls.  The directory is looked for before the lock is taken; a     *)
(* call that does not find it changes nothing (abort then reports success).*)

CallUpload(c, n) ==
  /\ pc[c] = "idle" /\ dir /\ calls < MaxCalls
  /\ calls' = calls + 1
  /\ op' = [op EXCEPT ![c] = "upload"]
  /\ part' = [part EXCEPT ![c] = [number |-> n, body |-> calls + 1]]
  /\ Goto(c, "open")
  \* from here on part n is in doubt: its old or its new body is correct
  /\ acked' = [acked EXCEPT ![n] = None]
  /\ expect' = [d \in Client |-> [expect[d] EXCEPT ![n] = None]]
  /\ UNCHANGED <<disk, lock, local, objects, lateFailures, cutShort>>

CallComplete(c) ==
  /\ pc[c] = "idle" /\ dir /\ calls < MaxCalls
  /\ calls' = calls + 1
  /\ op' = [op EXCEPT ![c] = "complete"]
  /\ Goto(c, "open")
  /\ expect' = [expect EXCEPT ![c] = acked]
  /\ UNCHANGED <<disk, lock, part, local, objects, acked, lateFailures, cutShort>>

CallAbort(c) ==
  /\ pc[c] = "idle" /\ dir /\ calls < MaxCalls
  /\ calls' = calls + 1
  /\ op' = [op EXCEPT ![c] = "abort"]
  /\ Goto(c, "open")
  /\ UNCHANGED <<disk, lock, part, local, objects, history>>

-----------------------------------------------------------------------------
(* file_lock(root / ".multipart.lock"): the directory is made if it is     *)
(* missing and the lock file is opened, created if it is missing ...       *)
OpenLock(c) ==
  /\ pc[c] = "open"
  /\ dir' = TRUE
  /\ IF lockFile = 0
       THEN inodes' = inodes + 1 /\ lockFile' = inodes + 1
       ELSE UNCHANGED <<inodes, lockFile>>
  /\ handle' = [handle EXCEPT ![c] = lockFile']
  /\ Goto(c, "wait")
  /\ UNCHANGED <<meta, file, locked, op, part, local, objects, calls, history>>

(* Mutant of MayLock: nobody waits.                                        *)
IgnoreLock(c) == TRUE

MayLock(c) == \A d \in locked : handle[d] # handle[c]

(* ... then that inode is locked and meta.json is read.                    *)
Lock(c) ==
  /\ pc[c] = "wait" /\ MayLock(c)
  /\ locked' = locked \cup {c}
  /\ local' = [local EXCEPT ![c] = meta]
  /\ Goto(c, "locked")
  /\ UNCHANGED <<disk, handle, op, part, objects, calls, history>>

HasStatus(m, status) == m # None /\ m.status = status

(* What _remove_multipart expects of the upload it is asked to remove.     *)
ExpectedStatus(c) == IF op[c] = "cleanup" THEN "completing" ELSE "open"

(* complete: at least one part, and every recorded part is on disk with    *)
(* the recorded digest.                                                    *)
PartsVerified(m) ==
  /\ m.parts # NoParts
  /\ \A n \in PartNo : m.parts[n] # None => file[n] = m.parts[n]

(* Mutant of MayComplete: the status is not looked at.                     *)
MayCompleteAgain(m) == m # None /\ PartsVerified(m)

MayComplete(m) == HasStatus(m, "open") /\ PartsVerified(m)

(* meta.json is missing, belongs to an upload in another state, or the     *)
(* parts do not verify: the call raises.                                   *)
Reject(c) ==
  /\ pc[c] = "locked"
  /\ CASE op[c] = "upload" -> ~HasStatus(local[c], "open")
       [] op[c] = "complete" -> ~MayComplete(local[c])
       [] op[c] \in {"abort", "cleanup"} -> ~HasStatus(local[c], ExpectedStatus(c))
       [] op[c] = "reopen" -> local[c] = None
  /\ Leave(c)
  /\ UNCHANGED <<disk, objects, calls, acked, lateFailures, cutShort>>

-----------------------------------------------------------------------------
(* upload_part: the part file is replaced, then meta.json.                 *)
WritePart(c) ==
  /\ pc[c] = "locked" /\ op[c] = "upload" /\ HasStatus(local[c], "open")
  /\ file' = [file EXCEPT ![part[c].number] = part[c].body]
  /\ Goto(c, "part")
  /\ UNCHANGED <<meta, dir, lockFile, inodes, lock, op, part, local, objects, calls, history>>

(* Mutant of Recorded: "parts" starts from nothing each time.              *)
RecordedAlone(m, p) == [m EXCEPT !.parts = [NoParts EXCEPT ![p.number] = p.body]]

Recorded(m, p) == [m EXCEPT !.parts[p.number] = p.body]

RecordPart(c) ==
  /\ pc[c] = "part"
  /\ meta' = Recorded(local[c], part[c])
  /\ acked' = [acked EXCEPT ![part[c].number] =
                 IF \E d \in Client \ {c} : /\ op[d] = "upload"
                                            /\ part[d].number = part[c].number
                   THEN None ELSE part[c].body]
  /\ Leave(c)
  /\ UNCHANGED <<file, dir, lockFile, inodes, objects, calls, lateFailures, cutShort>>

(* Mutant of Claimed: the status stays as it is.                           *)
Unclaimed(m) == m

Claimed(m) == [m EXCEPT !.status = "completing"]

(* complete_multipart_upload: the status moves to "completing", the joined *)
(* body stays in memory and the lock is released.                          *)
ClaimCompletion(c) ==
  /\ pc[c] = "locked" /\ op[c] = "complete" /\ MayComplete(local[c])
  /\ meta' = Claimed(local[c])
  /\ op' = [op EXCEPT ![c] = "put"]
  /\ Goto(c, "put")
  /\ Unlock(c)
  /\ UNCHANGED <<file, dir, lockFile, inodes, part, local, objects, calls, history>>

(* put_object executes the work unit.  Its manifest is stored ...          *)
StoreObject(c) ==
  /\ pc[c] = "put"
  /\ objects' = Append(objects, local[c].parts)
  /\ Goto(c, "stored")
  /\ UNCHANGED <<disk, lock, op, part, local, calls, history>>

(* ... and the ledger event after it is appended: clean-up may begin.      *)
AuditObject(c) ==
  /\ pc[c] = "stored"
  /\ op' = [op EXCEPT ![c] = "cleanup"]
  /\ Goto(c, "open")
  /\ UNCHANGED <<disk, lock, part, local, objects, calls, history>>

AfterFailure == "reopen"

(* put_object raises, before its manifest is stored (policy, chunk store,  *)
(* manifest store, ledger) or after it (the last ledger append).           *)
PutFails(c) ==
  /\ pc[c] \in {"put", "stored"}
  /\ lateFailures' = lateFailures + (IF pc[c] = "stored" THEN 1 ELSE 0)
  /\ op' = [op EXCEPT ![c] = AfterFailure]
  /\ Goto(c, "open")
  /\ UNCHANGED <<disk, lock, part, local, objects, calls, acked, expect, cutShort>>

Reopened(m) == [m EXCEPT !.status = "open"]

(* The exception handler of complete: the upload is open again.            *)
Reopen(c) ==
  /\ pc[c] = "locked" /\ op[c] = "reopen" /\ local[c] # None
  /\ meta' = Reopened(local[c])
  /\ Leave(c)
  /\ UNCHANGED <<file, dir, lockFile, inodes, objects, calls, acked, lateFailures, cutShort>>

-----------------------------------------------------------------------------
(* _remove_multipart: under the lock every file but the lock file is       *)
(* unlinked, one by one in directory order ...                             *)
BeginRemoval(c) ==
  /\ pc[c] = "locked" /\ op[c] \in {"abort", "cleanup"}
  /\ HasStatus(local[c], ExpectedStatus(c))
  /\ Goto(c, "unlink")
  /\ UNCHANGED <<disk, lock, op, part, local, objects, calls, history>>

UnlinkMeta(c) ==
  /\ pc[c] = "unlink" /\ meta # None
  /\ meta' = None
  /\ UNCHANGED <<file, dir, lockFile, inodes, lock, pc, op, part, local, objects, calls, history>>

UnlinkPart(c, n) ==
  /\ pc[c] = "unlink" /\ file[n] # None
  /\ file' = [file EXCEPT ![n] = None]
  /\ UNCHANGED <<meta, dir, lockFile, inodes, lock, pc, op, part, local, objects, calls, history>>

(* ... then the lock is released ...                                       *)
UnlockRemoved(c) ==
  /\ pc[c] = "unlink" /\ meta = None /\ file = NoParts
  /\ Unlock(c)
  /\ Goto(c, "rmlock")
  /\ UNCHANGED <<disk, op, part, local, objects, calls, history>>

(* ... and only after that the lock file is unlinked ...                   *)
UnlinkLock(c) ==
  /\ pc[c] = "rmlock"
  /\ lockFile' = 0
  /\ Goto(c, "rmdir")
  /\ UNCHANGED <<meta, file, dir, inodes, lock, op, part, local, objects, calls, history>>

(* ... and the directory removed.  rmdir raises when another client has    *)
(* created the lock file anew in between.                                  *)
RemoveDir(c) ==
  /\ pc[c] = "rmdir"
  /\ dir' = (lockFile # 0)
  /\ Leave(c)
  /\ UNCHANGED <<meta, file, lockFile, inodes, objects, calls, acked, lateFailures, cutShort>>

-----------------------------------------------------------------------------
(* A call ends before its time; completing says whether it was under way   *)
(* with a completion.                                                      *)
EndEarly(c, completing) ==
  /\ Leave(c)
  /\ cutShort' = (cutShort \/ completing)
  /\ UNCHANGED <<dir, lockFile, inodes, objects, calls, acked, lateFailures>>

(* The client's process dies: the kernel closes its lock handle.           *)
Crash(c) ==
  /\ pc[c] # "idle"
  /\ EndEarly(c, Completing(c))
  /\ UNCHANGED <<meta, file>>

(* Opening the lock file, reading, writing or unlinking raises, on a full  *)
(* disk for one, also in the exception handler of complete and in the      *)
(* middle of _remove_multipart: no other handler catches it.               *)
Raise(c) ==
  /\ pc[c] \notin {"idle", "put", "stored"}
  /\ EndEarly(c, Completing(c))
  /\ UNCHANGED <<meta, file>>

(* A write raises when the file is replaced already: the directory is not  *)
(* synced.  (Where complete opens the upload again, that changes nothing.) *)
RaiseWritten(c) ==
  \/ /\ pc[c] = "locked" /\ op[c] = "upload" /\ HasStatus(local[c], "open")
     /\ file' = [file EXCEPT ![part[c].number] = part[c].body]
     /\ EndEarly(c, FALSE)
     /\ UNCHANGED meta
  \/ /\ pc[c] = "part"
     /\ meta' = Recorded(local[c], part[c])
     /\ EndEarly(c, FALSE)
     /\ UNCHANGED file
  \/ /\ pc[c] = "locked" /\ op[c] = "complete" /\ MayComplete(local[c])
     /\ meta' = Claimed(local[c])
     /\ EndEarly(c, TRUE)
     /\ UNCHANGED file

(* One client's own steps.                                                 *)
Step(c) ==
  \/ OpenLock(c) \/ Lock(c) \/ Reject(c)
  \/ WritePart(c) \/ RecordPart(c)
  \/ ClaimCompletion(c) \/ StoreObject(c) \/ AuditObject(c) \/ PutFails(c) \/ Reopen(c)
  \/ BeginRemoval(c) \/ UnlinkMeta(c) \/ (\E n \in PartNo : UnlinkPart(c, n))
  \/ UnlockRemoved(c) \/ UnlinkLock(c) \/ RemoveDir(c)

Next ==
  \E c \in Client :
    \/ \E n \in PartNo : CallUpload(c, n)
    \/ CallComplete(c) \/ CallAbort(c)
    \/ Step(c)
    \/ Crash(c) \/ Raise(c) \/ RaiseWritten(c)

Spec == Init /\ [][Next]_vars

(* A thread inside a call is scheduled again and again until it leaves;    *)
(* nothing obliges a client to call, a process to die or a write to fail.  *)
FairSpec == Spec /\ \A c \in Client : WF_vars(Step(c))
-----------------------------------------------------------------------------
Label == {"idle", "open", "wait", "locked", "part", "put", "stored", "unlink", "rmlock", "rmdir"}

(* Every variable has its type.                                            *)
TypeOK ==
  /\ meta \in Meta \cup {None}
  /\ file \in Parts
  /\ dir \in BOOLEAN
  /\ inodes \in Nat /\ lockFile \in 0..inodes
  /\ handle \in [Client -> 0..inodes] /\ locked \subseteq Client
  /\ pc \in [Client -> Label]
  /\ op \in [Client -> Ops \cup {"none", "put", "reopen", "cleanup"}]
  /\ part \in [Client -> [number : PartNo, body : Content] \cup {None}]
  /\ local \in [Client -> Meta \cup {None}]
  /\ objects \in Seq(Parts)
  /\ calls \in 0..MaxCalls
  /\ acked \in Parts /\ expect \in [Client -> Parts]
  /\ lateFailures \in Nat /\ cutShort \in BOOLEAN

Removing == {c \in Client : pc[c] = "unlink"}

(* An acknowledged part is not lost to another client's read-modify-write  *)
(* of meta.json: as long as there is a meta.json, it records the part.     *)
AckedPartsRecorded ==
  \A n \in PartNo :
    acked[n] # None /\ meta # None => meta.parts[n] = acked[n]

(* The body that complete stores has every part that was acknowledged      *)
(* before the call and not uploaded again since.                           *)
CompletedBodyCurrent ==
  \A c \in Client : pc[c] \in {"put", "stored"} =>
    \A n \in PartNo : expect[c][n] # None => local[c].parts[n] = expect[c][n]

(* A part whose upload was acknowledged is recorded, and is in the body of *)
(* every completion that was called after it (adapters.py:113-172).        *)
PartsKept == AckedPartsRecorded /\ CompletedBodyCurrent

(* Two calls never complete the same upload at the same time, and no call  *)
(* removes the parts while another one is completing.                      *)
ExclusiveCompletion ==
  \A c, d \in Client : c # d /\ Completing(c) => ~Completing(d) /\ d \notin Removing

(* Races, rejections and a put_object that fails never strand an upload in *)
(* "completing": somebody is still completing it, or a completion died or  *)
(* raised a second time, out of the handler that opens the upload again or *)
(* out of clean-up, or while the claim was synced (adapters.py:153-172,    *)
(* 266-278).                                                               *)
CompletingHasOwner ==
  HasStatus(meta, "completing") => cutShort \/ \E c \in Client : Completing(c)

(* Parts are deleted by complete only when their object is stored.         *)
PartsOutliveCompletion ==
  \A c \in Removing : op[c] = "cleanup" => objects # << >>

(* A completion belongs to one call until that ends or is cut short, and   *)
(* takes the parts with it only when the object is there.                  *)
CompletionOwned == ExclusiveCompletion /\ CompletingHasOwner /\ PartsOutliveCompletion

(* A failed put_object is the only way one upload leads to more than one   *)
(* stored object: retries and races alone never duplicate it.              *)
DuplicatesNeedLateFailure == Len(objects) <= 1 + lateFailures

(* Every call ends, whatever the other clients do: no path through the     *)
(* lock files leaves a client waiting for ever.                            *)
CallsEnd == \A c \in Client : pc[c] # "idle" ~> pc[c] = "idle"

(* docs/08: "multipart uploads produce one manifest".                      *)
OneManifest == Len(objects) <= 1
=============================================================================
