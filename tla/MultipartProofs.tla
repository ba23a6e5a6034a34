-------------------------- MODULE MultipartProofs --------------------------
(***************************************************************************)
(* Theorems about Multipart: parts are kept, a completion has one owner,   *)
(* and only late failures duplicate an object, for any clients, parts and  *)
(* number of calls.                                                        *)
(***************************************************************************)
EXTENDS Multipart, TLAPS

(* While there is a meta.json every open handle is of the lock file that   *)
(* is there, so that the holders of a lock exclude each other; a handle of *)
(* a lock file that was unlinked finds no meta.json any more.              *)
LockInv ==
  /\ \A c \in Client : c \in locked <=> pc[c] \in {"locked", "part", "unlink"}
  /\ \A c \in Client : pc[c] \in {"wait", "locked", "part", "unlink"} => handle[c] # 0
  /\ \A c, d \in locked : handle[c] = handle[d] => c = d
  /\ meta # None => \A c \in Client : handle[c] \in {0, lockFile}

(* Inside the lock what a client has read is what is there.                *)
CopyInv == \A c \in Client : pc[c] \in {"locked", "part"} => local[c] = meta

(* What a client does at each place.                                       *)
StageInv ==
  \A c \in Client :
    /\ pc[c] = "idle" => op[c] = "none"
    /\ pc[c] = "part" => op[c] = "upload" /\ HasStatus(local[c], "open")
    /\ pc[c] \in {"put", "stored"} <=> op[c] = "put"
    /\ op[c] = "put" => local[c] # None
    /\ pc[c] \in {"unlink", "rmlock", "rmdir"} => op[c] \in {"abort", "cleanup"}
    /\ pc[c] \in {"rmlock", "rmdir"} => meta = None
    /\ op[c] = "upload" => part[c] \in [number : PartNo, body : Content]
    /\ op[c] = "cleanup" \/ pc[c] = "stored" => objects # << >>

(* Whoever completes is alone, and the upload is there until it removes it.*)
UploadClaimed ==
  \A c \in Client : Completing(c) =>
    /\ meta # None => meta.status = "completing"
    /\ pc[c] \notin {"unlink", "rmlock", "rmdir"} => meta # None

CompletionInv == ExclusiveCompletion /\ UploadClaimed /\ CompletingHasOwner

(* Parts that are being uploaded are in doubt for everybody; the others    *)
(* are in meta.json as they were acknowledged.                             *)
InDoubt ==
  \A d \in Client : op[d] = "upload" =>
    /\ acked[part[d].number] = None
    /\ \A c \in Client : expect[c][part[d].number] = None

ExpectedRecorded ==
  \A c \in Client, n \in PartNo :
    expect[c][n] # None /\ meta # None => meta.parts[n] = expect[c][n]

PartsInv == InDoubt /\ ExpectedRecorded /\ AckedPartsRecorded /\ CompletedBodyCurrent

(* As long as the upload may still be completed, each object that is there *)
(* was followed by a failure.                                              *)
CountInv ==
  /\ Len(objects) <= 1 + lateFailures
  /\ HasStatus(meta, "open") => Len(objects) <= lateFailures
  /\ \A c \in Client : pc[c] = "put" \/ op[c] = "reopen" => Len(objects) <= lateFailures

IInv == TypeOK /\ LockInv /\ CopyInv /\ StageInv /\ CompletionInv /\ PartsInv /\ CountInv
-----------------------------------------------------------------------------
(* Whoever is inside the lock while there is a meta.json is alone.         *)
LEMMA Alone ==
  ASSUME TypeOK, LockInv, meta # None, NEW c \in locked, NEW d \in locked
  PROVE  c = d
  BY DEF TypeOK, LockInv

(* A lock is given back, and meta.json and its lock file stay or are gone. *)
LEMMA GivesBack ==
  ASSUME TypeOK, LockInv, NEW c \in Client, NEW label,
         label \notin {"wait", "locked", "part", "unlink"},
         pc' = [pc EXCEPT ![c] = label],
         handle' = [handle EXCEPT ![c] = 0],
         locked' = locked \ {c},
         meta' # None => meta # None /\ lockFile' = lockFile
  PROVE  LockInv'
  <1>1. \A d \in Client : handle'[d] = IF d = c THEN 0 ELSE handle[d]
    BY DEF TypeOK
  <1>2. \A d \in Client : pc'[d] = IF d = c THEN label ELSE pc[d]
    BY DEF TypeOK
  <1>3. \A d \in Client : d \in locked' <=> pc'[d] \in {"locked", "part", "unlink"}
    BY <1>2 DEF LockInv
  <1>4. \A d \in Client : pc'[d] \in {"wait", "locked", "part", "unlink"} => handle'[d] # 0
    BY <1>1, <1>2 DEF LockInv
  <1>5. \A d, e \in locked' : handle'[d] = handle'[e] => d = e
    BY <1>1 DEF LockInv, TypeOK
  <1>6. meta' # None => \A d \in Client : handle'[d] \in {0, lockFile'}
    BY <1>1 DEF LockInv
  <1> QED BY <1>3, <1>4, <1>5, <1>6 DEF LockInv

(* What upload_part, the claim of a completion and its reversal write.     *)
LEMMA MetaWritten ==
  ASSUME TypeOK, StageInv, NEW c \in Client
  PROVE  /\ pc[c] = "part" =>
              /\ local[c] \in Meta
              /\ part[c] \in [number : PartNo, body : Content]
              /\ local[c].status = "open"
              /\ Recorded(local[c], part[c]) \in Meta
              /\ Recorded(local[c], part[c]).status = "open"
              /\ \A n \in PartNo : Recorded(local[c], part[c]).parts[n] =
                   IF n = part[c].number THEN part[c].body ELSE local[c].parts[n]
         /\ local[c] # None =>
              /\ local[c] \in Meta
              /\ Claimed(local[c]) = [status |-> "completing", parts |-> local[c].parts]
              /\ Reopened(local[c]) = [status |-> "open", parts |-> local[c].parts]
  <1>1. local[c] # None => local[c] \in Meta
    BY DEF TypeOK
  <1>2. local[c] # None =>
          /\ Claimed(local[c]) = [status |-> "completing", parts |-> local[c].parts]
          /\ Reopened(local[c]) = [status |-> "open", parts |-> local[c].parts]
    BY <1>1 DEF Claimed, Reopened, Meta
  <1>3. ASSUME pc[c] = "part"
        PROVE  /\ local[c] \in Meta
               /\ part[c] \in [number : PartNo, body : Content]
               /\ local[c].status = "open"
    BY <1>3 DEF StageInv, TypeOK, HasStatus, Meta
  <1>4. ASSUME pc[c] = "part"
        PROVE  /\ Recorded(local[c], part[c]) \in Meta
               /\ Recorded(local[c], part[c]).status = "open"
               /\ \A n \in PartNo : Recorded(local[c], part[c]).parts[n] =
                    IF n = part[c].number THEN part[c].body ELSE local[c].parts[n]
    BY <1>3, <1>4 DEF Recorded, Parts, Meta
  <1> QED BY <1>1, <1>2, <1>3, <1>4

LEMMA StatusWritten ==
  ASSUME NEW m \in Meta
  PROVE  /\ Claimed(m) \in Meta /\ Claimed(m).status = "completing" /\ Claimed(m).parts = m.parts
         /\ Reopened(m) \in Meta /\ Reopened(m).status = "open" /\ Reopened(m).parts = m.parts
  BY DEF Meta, Claimed, Reopened

(* A call that ends changes nothing of the others'.                        *)
LEMMA Leaves ==
  ASSUME TypeOK, NEW c \in Client, Leave(c)
  PROVE  \A d \in Client :
           /\ pc'[d] = IF d = c THEN "idle" ELSE pc[d]
           /\ op'[d] = IF d = c THEN "none" ELSE op[d]
           /\ part'[d] = IF d = c THEN None ELSE part[d]
           /\ local'[d] = IF d = c THEN None ELSE local[d]
           /\ expect'[d] = IF d = c THEN NoParts ELSE expect[d]
  BY DEF TypeOK, Leave, Goto

LEMMA LeavesOthers ==
  ASSUME TypeOK, CompletionInv, NEW c \in Client, Leave(c),
         meta' = meta \/ \A d \in Client : Completing(d) => d = c
  PROVE  /\ \A d \in Client : Completing(d)' <=> d # c /\ Completing(d)
         /\ ExclusiveCompletion' /\ UploadClaimed'
  <1>1. \A d \in Client : Completing(d)' <=> d # c /\ Completing(d)
    BY Leaves DEF Completing
  <1>2. \A d \in Client : d \in Removing' => d \in Removing
    BY Leaves DEF Removing
  <1>3. ExclusiveCompletion'
    BY <1>1, <1>2 DEF ExclusiveCompletion, CompletionInv
  <1>4. UploadClaimed'
    BY <1>1, Leaves DEF UploadClaimed, CompletionInv
  <1> QED BY <1>1, <1>3, <1>4

(* A step within a completion, that lets everybody go on where they are.   *)
LEMMA CompletionGoesOn ==
  ASSUME TypeOK, CompletionInv, NEW c \in Client, Completing(c), Completing(c)',
         NEW label, NEW phase, label \notin {"unlink", "rmlock", "rmdir"},
         pc[c] \notin {"unlink", "rmlock", "rmdir"},
         pc' = [pc EXCEPT ![c] = label], op' = [op EXCEPT ![c] = phase], meta' = meta
  PROVE  CompletionInv' \/ cutShort' # cutShort
  <1>1. \A d \in Client : /\ d # c => pc'[d] = pc[d] /\ op'[d] = op[d]
                          /\ pc'[c] = label
    BY DEF TypeOK
  <1>2. \A d \in Client : Completing(d)' <=> Completing(d)
    BY <1>1 DEF Completing
  <1>3. \A d \in Client : d \in Removing' => d \in Removing
    BY <1>1 DEF Removing
  <1>4. ExclusiveCompletion'
    BY <1>2, <1>3 DEF ExclusiveCompletion, CompletionInv
  <1>5. UploadClaimed'
    BY <1>1, <1>2 DEF UploadClaimed, CompletionInv
  <1>6. cutShort' = cutShort => CompletingHasOwner'
    BY <1>2 DEF CompletingHasOwner, CompletionInv, HasStatus
  <1> QED BY <1>4, <1>5, <1>6 DEF CompletionInv

(* A call that ends leaves the parts as they are recorded.                 *)
LEMMA LeavesParts ==
  ASSUME TypeOK, StageInv, PartsInv, NEW c \in Client, Leave(c), acked' = acked,
         meta' # None => meta # None /\ meta'.parts = meta.parts
  PROVE  PartsInv'
  <1>1. InDoubt'
    BY Leaves DEF PartsInv, InDoubt, NoParts, StageInv
  <1>2. ExpectedRecorded'
    BY Leaves DEF PartsInv, ExpectedRecorded, NoParts
  <1>3. AckedPartsRecorded'
    BY DEF PartsInv, AckedPartsRecorded
  <1>4. CompletedBodyCurrent'
    BY Leaves DEF PartsInv, CompletedBodyCurrent
  <1> QED BY <1>1, <1>2, <1>3, <1>4 DEF PartsInv
(* A call that is cut short takes nothing with it but its claim.           *)
LEMMA EndsEarly ==
  ASSUME NEW c \in Client, Crash(c) \/ Raise(c)
  PROVE  /\ Leave(c)
         /\ UNCHANGED <<meta, file, dir, lockFile, inodes, objects, calls, acked, lateFailures>>
         /\ cutShort' = (cutShort \/ Completing(c)) /\ cutShort' \in BOOLEAN
  BY DEF Crash, Raise, EndEarly

(* What is there when a write raises that took effect: the part file, the  *)
(* recorded part or the claim, in an upload that was open.                 *)
LEMMA WrittenEarly ==
  ASSUME TypeOK, LockInv, CopyInv, StageInv, NEW c \in Client, RaiseWritten(c)
  PROVE  /\ Leave(c) /\ c \in locked
         /\ UNCHANGED <<dir, lockFile, inodes, objects, calls, acked, lateFailures>>
         /\ meta \in Meta /\ meta # None /\ meta.status = "open"
         /\ file' \in Parts /\ meta' \in Meta /\ cutShort' \in BOOLEAN
         /\ \/ meta' = meta /\ cutShort' = cutShort
            \/ /\ op[c] = "upload" /\ part[c].number \in PartNo
               /\ meta'.status = "open" /\ cutShort' = cutShort
               /\ \A n \in PartNo : n # part[c].number => meta'.parts[n] = meta.parts[n]
            \/ meta'.status = "completing" /\ meta'.parts = meta.parts /\ cutShort'
  <1>1. CASE /\ pc[c] = "locked" /\ op[c] = "upload" /\ HasStatus(local[c], "open")
             /\ file' = [file EXCEPT ![part[c].number] = part[c].body]
             /\ EndEarly(c, FALSE) /\ UNCHANGED meta
    BY <1>1 DEF EndEarly, HasStatus, CopyInv, LockInv, StageInv, TypeOK, Parts
  <1>2. CASE /\ pc[c] = "part" /\ meta' = Recorded(local[c], part[c])
             /\ EndEarly(c, FALSE) /\ UNCHANGED file
    BY <1>2, MetaWritten DEF EndEarly, HasStatus, CopyInv, LockInv, StageInv, TypeOK
  <1>3. CASE /\ pc[c] = "locked" /\ op[c] = "complete" /\ MayComplete(local[c])
             /\ meta' = Claimed(local[c])
             /\ EndEarly(c, TRUE) /\ UNCHANGED file
    <2>1. local[c] = meta /\ meta \in Meta /\ HasStatus(meta, "open") /\ c \in locked
      BY <1>3 DEF MayComplete, HasStatus, CopyInv, LockInv, TypeOK
    <2> QED BY <1>3, <2>1, StatusWritten DEF EndEarly, HasStatus, TypeOK
  <1> QED BY <1>1, <1>2, <1>3 DEF RaiseWritten
-----------------------------------------------------------------------------
(* Every step keeps the types.                                             *)
LEMMA TypeStep ==
  ASSUME TypeOK, LockInv, CopyInv, StageInv, [Next]_vars
  PROVE  TypeOK'
  <1> USE BoundAssumption DEF TypeOK, Ops, NoParts, Parts, Label, Goto, Leave, Unlock,
      disk, lock, history
  <1>1. CASE UNCHANGED vars BY <1>1 DEF vars
  <1>2. ASSUME NEW c \in Client, NEW n \in PartNo, CallUpload(c, n) PROVE TypeOK'
    BY <1>2 DEF CallUpload, Content, Parts
  <1>3. ASSUME NEW c \in Client, CallComplete(c) PROVE TypeOK'
    BY <1>3 DEF CallComplete, Parts
  <1>4. ASSUME NEW c \in Client, CallAbort(c) PROVE TypeOK'
    BY <1>4 DEF CallAbort
  <1>5. ASSUME NEW c \in Client, OpenLock(c) PROVE TypeOK'
    BY <1>5 DEF OpenLock
  <1>6. ASSUME NEW c \in Client, Lock(c) PROVE TypeOK'
    BY <1>6 DEF Lock
  <1>7. ASSUME NEW c \in Client, Reject(c) PROVE TypeOK'
    BY <1>7 DEF Reject
  <1>8. ASSUME NEW c \in Client, WritePart(c) PROVE TypeOK'
    BY <1>8 DEF WritePart, StageInv, Parts
  <1>9. ASSUME NEW c \in Client, RecordPart(c) PROVE TypeOK'
    BY <1>9, MetaWritten DEF RecordPart, StageInv, Meta
  <1>10. ASSUME NEW c \in Client, ClaimCompletion(c) PROVE TypeOK'
    BY <1>10, MetaWritten, NoneAssumption DEF ClaimCompletion, MayComplete, HasStatus, Meta
  <1>11. ASSUME NEW c \in Client, StoreObject(c) PROVE TypeOK'
    BY <1>11, NoneAssumption DEF StoreObject, StageInv, Meta
  <1>12. ASSUME NEW c \in Client, AuditObject(c) PROVE TypeOK'
    BY <1>12 DEF AuditObject
  <1>13. ASSUME NEW c \in Client, PutFails(c) PROVE TypeOK'
    BY <1>13 DEF PutFails, AfterFailure
  <1>14. ASSUME NEW c \in Client, Reopen(c) PROVE TypeOK'
    BY <1>14, MetaWritten, NoneAssumption DEF Reopen, Meta
  <1>15. ASSUME NEW c \in Client, BeginRemoval(c) PROVE TypeOK'
    BY <1>15 DEF BeginRemoval
  <1>16. ASSUME NEW c \in Client, UnlinkMeta(c) PROVE TypeOK'
    BY <1>16 DEF UnlinkMeta
  <1>17. ASSUME NEW c \in Client, NEW n \in PartNo, UnlinkPart(c, n) PROVE TypeOK'
    BY <1>17 DEF UnlinkPart, Parts
  <1>18. ASSUME NEW c \in Client, UnlockRemoved(c) PROVE TypeOK'
    BY <1>18 DEF UnlockRemoved
  <1>19. ASSUME NEW c \in Client, UnlinkLock(c) PROVE TypeOK'
    BY <1>19 DEF UnlinkLock
  <1>20. ASSUME NEW c \in Client, RemoveDir(c) PROVE TypeOK'
    BY <1>20 DEF RemoveDir
  <1>21. ASSUME NEW c \in Client, Crash(c) \/ Raise(c) PROVE TypeOK'
    <2>1. /\ Leave(c) /\ cutShort' \in BOOLEAN
          /\ UNCHANGED <<meta, file, dir, lockFile, inodes, objects, calls, acked, lateFailures>>
      BY <1>21, EndsEarly
    <2> QED BY <2>1
  <1>22. ASSUME NEW c \in Client, RaiseWritten(c) PROVE TypeOK'
    <2>1. /\ Leave(c) /\ file' \in Parts /\ meta' \in Meta /\ cutShort' \in BOOLEAN
          /\ UNCHANGED <<dir, lockFile, inodes, objects, calls, acked, lateFailures>>
      BY <1>22, WrittenEarly DEF LockInv, CopyInv
    <2> QED BY <2>1
  <1> QED BY <1>1, <1>2, <1>3, <1>4, <1>5, <1>6, <1>7, <1>8, <1>9, <1>10, <1>11, <1>12,
      <1>13, <1>14, <1>15, <1>16, <1>17, <1>18, <1>19, <1>20, <1>21, <1>22 DEF Next, Step

(* Every step keeps the holders of a lock apart.                           *)
LEMMA LockStep ==
  ASSUME TypeOK, LockInv, StageInv, CopyInv, [Next]_vars
  PROVE  LockInv'
  <1> USE DEF Goto, Leave, Unlock, disk, lock, history
  <1>1. CASE UNCHANGED vars BY <1>1 DEF vars, LockInv
  <1>2. ASSUME NEW c \in Client, NEW n \in PartNo, CallUpload(c, n) PROVE LockInv'
    BY <1>2 DEF CallUpload, LockInv, TypeOK
  <1>3. ASSUME NEW c \in Client, CallComplete(c) PROVE LockInv'
    BY <1>3 DEF CallComplete, LockInv, TypeOK
  <1>4. ASSUME NEW c \in Client, CallAbort(c) PROVE LockInv'
    BY <1>4 DEF CallAbort, LockInv, TypeOK
  <1>5. ASSUME NEW c \in Client, OpenLock(c) PROVE LockInv'
    BY <1>5 DEF OpenLock, LockInv, TypeOK
  <1>6. ASSUME NEW c \in Client, Lock(c) PROVE LockInv'
    BY <1>6 DEF Lock, MayLock, LockInv, TypeOK
  <1>7. ASSUME NEW c \in Client, Reject(c) PROVE LockInv'
    BY <1>7, GivesBack DEF Reject
  <1>8. ASSUME NEW c \in Client, WritePart(c) PROVE LockInv'
    BY <1>8 DEF WritePart, LockInv, TypeOK
  <1>9. ASSUME NEW c \in Client, RecordPart(c) PROVE LockInv'
    <2>1. meta # None /\ lockFile' = lockFile /\ Leave(c)
      BY <1>9 DEF RecordPart, CopyInv, StageInv, HasStatus
    <2> QED BY <2>1, GivesBack
  <1>10. ASSUME NEW c \in Client, ClaimCompletion(c) PROVE LockInv'
    BY <1>10, GivesBack, NoneAssumption DEF ClaimCompletion, CopyInv, MayComplete, HasStatus
  <1>11. ASSUME NEW c \in Client, StoreObject(c) PROVE LockInv'
    BY <1>11 DEF StoreObject, LockInv, TypeOK
  <1>12. ASSUME NEW c \in Client, AuditObject(c) PROVE LockInv'
    BY <1>12 DEF AuditObject, LockInv, TypeOK
  <1>13. ASSUME NEW c \in Client, PutFails(c) PROVE LockInv'
    BY <1>13 DEF PutFails, LockInv, TypeOK
  <1>14. ASSUME NEW c \in Client, Reopen(c) PROVE LockInv'
    BY <1>14, GivesBack DEF Reopen, CopyInv
  <1>15. ASSUME NEW c \in Client, BeginRemoval(c) PROVE LockInv'
    BY <1>15 DEF BeginRemoval, LockInv, TypeOK
  <1>16. ASSUME NEW c \in Client, UnlinkMeta(c) PROVE LockInv'
    BY <1>16 DEF UnlinkMeta, LockInv, TypeOK
  <1>17. ASSUME NEW c \in Client, NEW n \in PartNo, UnlinkPart(c, n) PROVE LockInv'
    BY <1>17 DEF UnlinkPart, LockInv, TypeOK
  <1>18. ASSUME NEW c \in Client, UnlockRemoved(c) PROVE LockInv'
    BY <1>18, GivesBack DEF UnlockRemoved
  <1>19. ASSUME NEW c \in Client, UnlinkLock(c) PROVE LockInv'
    BY <1>19 DEF UnlinkLock, StageInv, LockInv, TypeOK
  <1>20. ASSUME NEW c \in Client, RemoveDir(c) PROVE LockInv'
    BY <1>20, GivesBack DEF RemoveDir
  <1>21. ASSUME NEW c \in Client, Crash(c) \/ Raise(c) PROVE LockInv'
    BY <1>21, EndsEarly, GivesBack
  <1>22. ASSUME NEW c \in Client, RaiseWritten(c) PROVE LockInv'
    BY <1>22, WrittenEarly, GivesBack
  <1> QED BY <1>1, <1>2, <1>3, <1>4, <1>5, <1>6, <1>7, <1>8, <1>9, <1>10, <1>11, <1>12,
      <1>13, <1>14, <1>15, <1>16, <1>17, <1>18, <1>19, <1>20, <1>21, <1>22 DEF Next, Step

(* What is read inside the lock stays what is there.                       *)
LEMMA CopyStep ==
  ASSUME TypeOK, LockInv, CopyInv, StageInv, [Next]_vars
  PROVE  CopyInv'
  <1> USE DEF TypeOK, LockInv, CopyInv, Goto, Leave, Unlock, disk, lock, history
  <1>1. CASE UNCHANGED vars BY <1>1 DEF vars
  <1>2. ASSUME NEW c \in Client, NEW n \in PartNo, CallUpload(c, n) PROVE CopyInv'
    BY <1>2 DEF CallUpload
  <1>3. ASSUME NEW c \in Client, CallComplete(c) PROVE CopyInv'
    BY <1>3 DEF CallComplete
  <1>4. ASSUME NEW c \in Client, CallAbort(c) PROVE CopyInv'
    BY <1>4 DEF CallAbort
  <1>5. ASSUME NEW c \in Client, OpenLock(c) PROVE CopyInv'
    BY <1>5 DEF OpenLock
  <1>6. ASSUME NEW c \in Client, Lock(c) PROVE CopyInv'
    BY <1>6 DEF Lock
  <1>7. ASSUME NEW c \in Client, Reject(c) PROVE CopyInv'
    BY <1>7 DEF Reject
  <1>8. ASSUME NEW c \in Client, WritePart(c) PROVE CopyInv'
    BY <1>8 DEF WritePart
  <1>9. ASSUME NEW c \in Client, RecordPart(c) PROVE CopyInv'
    BY <1>9, Alone, NoneAssumption DEF RecordPart, StageInv, HasStatus
  <1>10. ASSUME NEW c \in Client, ClaimCompletion(c) PROVE CopyInv'
    BY <1>10, Alone DEF ClaimCompletion, MayComplete, HasStatus
  <1>11. ASSUME NEW c \in Client, StoreObject(c) PROVE CopyInv'
    BY <1>11 DEF StoreObject
  <1>12. ASSUME NEW c \in Client, AuditObject(c) PROVE CopyInv'
    BY <1>12 DEF AuditObject
  <1>13. ASSUME NEW c \in Client, PutFails(c) PROVE CopyInv'
    BY <1>13 DEF PutFails
  <1>14. ASSUME NEW c \in Client, Reopen(c) PROVE CopyInv'
    BY <1>14 DEF Reopen
  <1>15. ASSUME NEW c \in Client, BeginRemoval(c) PROVE CopyInv'
    BY <1>15 DEF BeginRemoval
  <1>16. ASSUME NEW c \in Client, UnlinkMeta(c) PROVE CopyInv'
    <2>1. c \in locked /\ pc[c] = "unlink" /\ meta # None /\ UNCHANGED <<pc, local>>
      BY <1>16 DEF UnlinkMeta
    <2>2. ASSUME NEW d \in Client, pc[d] \in {"locked", "part"} PROVE FALSE
      BY <2>1, <2>2, Alone
    <2> QED BY <2>1, <2>2
  <1>17. ASSUME NEW c \in Client, NEW n \in PartNo, UnlinkPart(c, n) PROVE CopyInv'
    BY <1>17 DEF UnlinkPart
  <1>18. ASSUME NEW c \in Client, UnlockRemoved(c) PROVE CopyInv'
    BY <1>18 DEF UnlockRemoved
  <1>19. ASSUME NEW c \in Client, UnlinkLock(c) PROVE CopyInv'
    BY <1>19 DEF UnlinkLock
  <1>20. ASSUME NEW c \in Client, RemoveDir(c) PROVE CopyInv'
    BY <1>20 DEF RemoveDir
  <1>21. ASSUME NEW c \in Client, Crash(c) \/ Raise(c) PROVE CopyInv'
    BY <1>21, EndsEarly
  <1>22. ASSUME NEW c \in Client, RaiseWritten(c) PROVE CopyInv'
    BY <1>22, WrittenEarly, Alone
  <1> QED BY <1>1, <1>2, <1>3, <1>4, <1>5, <1>6, <1>7, <1>8, <1>9, <1>10, <1>11, <1>12,
      <1>13, <1>14, <1>15, <1>16, <1>17, <1>18, <1>19, <1>20, <1>21, <1>22 DEF Next, Step

(* Every step leads to a place its operation has.                          *)
LEMMA StageStep ==
  ASSUME TypeOK, LockInv, CopyInv, StageInv, [Next]_vars
  PROVE  StageInv'
  <1> USE DEF StageInv, HasStatus, Goto, Leave, Unlock, disk, lock, history
  <1>1. CASE UNCHANGED vars BY <1>1 DEF vars
  <1>2. ASSUME NEW c \in Client, NEW n \in PartNo, CallUpload(c, n) PROVE StageInv'
    BY <1>2, BoundAssumption DEF CallUpload, TypeOK, Label, Content
  <1>3. ASSUME NEW c \in Client, CallComplete(c) PROVE StageInv'
    BY <1>3 DEF CallComplete, TypeOK, Label
  <1>4. ASSUME NEW c \in Client, CallAbort(c) PROVE StageInv'
    BY <1>4 DEF CallAbort, TypeOK, Label
  <1>5. ASSUME NEW c \in Client, OpenLock(c) PROVE StageInv'
    BY <1>5 DEF OpenLock, TypeOK, Label
  <1>6. ASSUME NEW c \in Client, Lock(c) PROVE StageInv'
    BY <1>6 DEF Lock, TypeOK, Label
  <1>7. ASSUME NEW c \in Client, Reject(c) PROVE StageInv'
    BY <1>7 DEF Reject, TypeOK, Label
  <1>8. ASSUME NEW c \in Client, WritePart(c) PROVE StageInv'
    BY <1>8 DEF WritePart, TypeOK, Label
  <1>9. ASSUME NEW c \in Client, RecordPart(c) PROVE StageInv'
    BY <1>9, Alone, MetaWritten DEF RecordPart, TypeOK, LockInv, CopyInv
  <1>10. ASSUME NEW c \in Client, ClaimCompletion(c) PROVE StageInv'
    BY <1>10, Alone DEF ClaimCompletion, MayComplete, TypeOK, LockInv, CopyInv
  <1>11. ASSUME NEW c \in Client, StoreObject(c) PROVE StageInv'
    BY <1>11 DEF StoreObject, TypeOK, Label
  <1>12. ASSUME NEW c \in Client, AuditObject(c) PROVE StageInv'
    BY <1>12 DEF AuditObject, TypeOK, Label
  <1>13. ASSUME NEW c \in Client, PutFails(c) PROVE StageInv'
    BY <1>13 DEF PutFails, AfterFailure, TypeOK, Label
  <1>14. ASSUME NEW c \in Client, Reopen(c) PROVE StageInv'
    BY <1>14, Alone DEF Reopen, TypeOK, LockInv, CopyInv
  <1>15. ASSUME NEW c \in Client, BeginRemoval(c) PROVE StageInv'
    BY <1>15 DEF BeginRemoval, TypeOK, Label
  <1>16. ASSUME NEW c \in Client, UnlinkMeta(c) PROVE StageInv'
    BY <1>16 DEF UnlinkMeta, TypeOK, Label
  <1>17. ASSUME NEW c \in Client, NEW n \in PartNo, UnlinkPart(c, n) PROVE StageInv'
    BY <1>17 DEF UnlinkPart, TypeOK, Label
  <1>18. ASSUME NEW c \in Client, UnlockRemoved(c) PROVE StageInv'
    BY <1>18 DEF UnlockRemoved, TypeOK, Label
  <1>19. ASSUME NEW c \in Client, UnlinkLock(c) PROVE StageInv'
    BY <1>19 DEF UnlinkLock, TypeOK, Label
  <1>20. ASSUME NEW c \in Client, RemoveDir(c) PROVE StageInv'
    BY <1>20 DEF RemoveDir, TypeOK, Label
  <1>21. ASSUME NEW c \in Client, Crash(c) \/ Raise(c) PROVE StageInv'
    BY <1>21, EndsEarly DEF TypeOK, Label
  <1>22. ASSUME NEW c \in Client, RaiseWritten(c) PROVE StageInv'
    BY <1>22, WrittenEarly DEF TypeOK, Label
  <1> QED BY <1>1, <1>2, <1>3, <1>4, <1>5, <1>6, <1>7, <1>8, <1>9, <1>10, <1>11, <1>12,
      <1>13, <1>14, <1>15, <1>16, <1>17, <1>18, <1>19, <1>20, <1>21, <1>22 DEF Next, Step

(* A claim is made by one call at a time and stays its own.                *)
LEMMA CompletionStep ==
  ASSUME TypeOK, LockInv, CopyInv, StageInv, CompletionInv, [Next]_vars
  PROVE  CompletionInv'
  <1>1. ASSUME NEW c \in Client, Reject(c) PROVE CompletionInv'
    <2>1. ~Completing(c)
      BY <1>1, NoneAssumption DEF Reject, CopyInv, StageInv, CompletionInv, UploadClaimed,
          Completing, HasStatus, ExpectedStatus
    <2>2. meta' = meta /\ cutShort' = cutShort /\ Leave(c)
      BY <1>1 DEF Reject, disk
    <2> QED BY <2>1, <2>2, LeavesOthers DEF CompletionInv, CompletingHasOwner, HasStatus
  <1>2. ASSUME NEW c \in Client, RecordPart(c) PROVE CompletionInv'
    <2>1. Leave(c) /\ HasStatus(meta, "open") /\ HasStatus(meta', "open")
      BY <1>2, MetaWritten, NoneAssumption DEF RecordPart, CopyInv, StageInv, HasStatus
    <2>2. \A d \in Client : ~Completing(d)
      BY <2>1 DEF CompletionInv, UploadClaimed, HasStatus
    <2> QED BY <2>1, <2>2, LeavesOthers DEF CompletionInv, CompletingHasOwner, HasStatus
  <1>3. ASSUME NEW c \in Client, ClaimCompletion(c) PROVE CompletionInv'
    <2>1. HasStatus(meta, "open") /\ HasStatus(meta', "completing") /\ c \in locked
      BY <1>3, MetaWritten, NoneAssumption
      DEF ClaimCompletion, MayComplete, CopyInv, HasStatus, Meta, TypeOK, LockInv
    <2>2. \A d \in Client : ~Completing(d)
      BY <2>1 DEF CompletionInv, UploadClaimed, HasStatus
    <2>3. \A d \in Client \ {c} : pc[d] # "unlink"
      BY <2>1, Alone DEF HasStatus, LockInv
    <2>4. \A d \in Client : /\ d # c => pc'[d] = pc[d] /\ op'[d] = op[d]
                            /\ pc'[c] = "put" /\ op'[c] = "put"
      BY <1>3 DEF ClaimCompletion, TypeOK, Goto
    <2>5. \A d \in Client : Completing(d)' <=> d = c
      BY <2>2, <2>4 DEF Completing
    <2>6. ExclusiveCompletion'
      BY <2>3, <2>4, <2>5 DEF ExclusiveCompletion, Removing
    <2>7. UploadClaimed'
      BY <2>1, <2>5 DEF UploadClaimed, HasStatus
    <2>8. CompletingHasOwner'
      BY <2>5 DEF CompletingHasOwner
    <2> QED BY <2>6, <2>7, <2>8 DEF CompletionInv
  <1>4. ASSUME NEW c \in Client, AuditObject(c) PROVE CompletionInv'
    BY <1>4, CompletionGoesOn DEF AuditObject, AfterFailure, Completing, StageInv, TypeOK,
        Goto, disk, history
  <1>5. ASSUME NEW c \in Client, PutFails(c) PROVE CompletionInv'
    BY <1>5, CompletionGoesOn DEF PutFails, AfterFailure, Completing, StageInv, TypeOK,
        Goto, disk, history
  <1>6. ASSUME NEW c \in Client, Reopen(c) PROVE CompletionInv'
    <2>1. Completing(c) /\ Leave(c) /\ HasStatus(meta', "open")
      BY <1>6, MetaWritten, NoneAssumption DEF Reopen, Completing, HasStatus, Meta, TypeOK
    <2>2. \A d \in Client : Completing(d) => d = c
      BY <2>1 DEF CompletionInv, ExclusiveCompletion
    <2> QED BY <2>1, <2>2, LeavesOthers DEF CompletionInv, CompletingHasOwner, HasStatus
  <1>7. ASSUME NEW c \in Client, BeginRemoval(c) PROVE CompletionInv'
    <2>1. HasStatus(meta, ExpectedStatus(c)) /\ op[c] \in {"abort", "cleanup"} /\ pc[c] = "locked"
      BY <1>7 DEF BeginRemoval, CopyInv
    <2>2. \A d \in Client : /\ Completing(d)' <=> Completing(d)
                            /\ d # c => pc'[d] = pc[d]
      BY <1>7 DEF BeginRemoval, Completing, TypeOK, Goto
    <2>3. meta' = meta /\ cutShort' = cutShort /\ pc'[c] = "unlink"
      BY <1>7 DEF BeginRemoval, TypeOK, Goto, disk, history
    <2>4. \A d \in Client \ {c} : ~Completing(d)
      <3>1. CASE op[c] = "abort"
        BY <2>1, <3>1 DEF CompletionInv, UploadClaimed, HasStatus, ExpectedStatus
      <3>2. CASE op[c] = "cleanup"
        BY <2>1, <3>2 DEF CompletionInv, ExclusiveCompletion, Completing
      <3> QED BY <2>1, <3>1, <3>2
    <2>5. ExclusiveCompletion'
      BY <2>2, <2>4 DEF CompletionInv, ExclusiveCompletion, Removing
    <2>6. UploadClaimed'
      BY <2>2, <2>3 DEF CompletionInv, UploadClaimed
    <2>7. CompletingHasOwner'
      BY <2>2, <2>3 DEF CompletionInv, CompletingHasOwner, HasStatus
    <2> QED BY <2>5, <2>6, <2>7 DEF CompletionInv
  <1>8. ASSUME NEW c \in Client, RemoveDir(c) PROVE CompletionInv'
    <2>1. meta' = meta /\ Leave(c) /\ meta = None
      BY <1>8 DEF RemoveDir, StageInv
    <2> QED BY <2>1, LeavesOthers DEF CompletionInv, CompletingHasOwner, HasStatus
  <1> USE DEF CompletionInv, UploadClaimed, ExclusiveCompletion, CompletingHasOwner,
      Completing, Removing, HasStatus, TypeOK, Goto, Leave, Unlock, disk, lock, history
  <1>9. CASE UNCHANGED vars BY <1>9 DEF vars
  <1>10. ASSUME NEW c \in Client, NEW n \in PartNo, CallUpload(c, n) PROVE CompletionInv'
    BY <1>10 DEF CallUpload
  <1>11. ASSUME NEW c \in Client, CallComplete(c) PROVE CompletionInv'
    BY <1>11 DEF CallComplete
  <1>12. ASSUME NEW c \in Client, CallAbort(c) PROVE CompletionInv'
    BY <1>12 DEF CallAbort
  <1>13. ASSUME NEW c \in Client, OpenLock(c) PROVE CompletionInv'
    BY <1>13 DEF OpenLock
  <1>14. ASSUME NEW c \in Client, Lock(c) PROVE CompletionInv'
    BY <1>14 DEF Lock
  <1>15. ASSUME NEW c \in Client, WritePart(c) PROVE CompletionInv'
    BY <1>15 DEF WritePart
  <1>16. ASSUME NEW c \in Client, StoreObject(c) PROVE CompletionInv'
    BY <1>16 DEF StoreObject
  <1>17. ASSUME NEW c \in Client, UnlinkMeta(c) PROVE CompletionInv'
    BY <1>17 DEF UnlinkMeta
  <1>18. ASSUME NEW c \in Client, NEW n \in PartNo, UnlinkPart(c, n) PROVE CompletionInv'
    BY <1>18 DEF UnlinkPart
  <1>19. ASSUME NEW c \in Client, UnlockRemoved(c) PROVE CompletionInv'
    BY <1>19 DEF UnlockRemoved
  <1>20. ASSUME NEW c \in Client, UnlinkLock(c) PROVE CompletionInv'
    BY <1>20 DEF UnlinkLock
  <1>21. ASSUME NEW c \in Client, Crash(c) \/ Raise(c) PROVE CompletionInv'
    <2>1. Leave(c) /\ meta' = meta /\ cutShort' = (cutShort \/ Completing(c))
      BY <1>21, EndsEarly
    <2>2. /\ ExclusiveCompletion' /\ UploadClaimed'
          /\ \A d \in Client : Completing(d)' <=> d # c /\ Completing(d)
      BY <2>1, LeavesOthers
    <2>3. CompletingHasOwner'
      BY <2>1, <2>2 DEF CompletionInv, CompletingHasOwner, HasStatus
    <2> QED BY <2>2, <2>3 DEF CompletionInv
  <1>22. ASSUME NEW c \in Client, RaiseWritten(c) PROVE CompletionInv'
    <2>1. /\ Leave(c) /\ meta # None /\ meta.status = "open"
          /\ HasStatus(meta', "completing") => cutShort'
      BY <1>22, WrittenEarly DEF HasStatus
    <2>2. \A d \in Client : ~Completing(d)
      BY <2>1 DEF CompletionInv, UploadClaimed
    <2>3. ExclusiveCompletion' /\ UploadClaimed'
      BY <2>1, <2>2, LeavesOthers
    <2> QED BY <2>1, <2>3 DEF CompletionInv, CompletingHasOwner
  <1> QED BY <1>1, <1>2, <1>3, <1>4, <1>5, <1>6, <1>7, <1>8, <1>9, <1>10, <1>11, <1>12,
      <1>13, <1>14, <1>15, <1>16, <1>17, <1>18, <1>19, <1>20, <1>21, <1>22 DEF Next, Step

(* A part is recorded once its upload is acknowledged, and stays.          *)
LEMMA PartsStep ==
  ASSUME TypeOK, LockInv, CopyInv, StageInv, PartsInv, [Next]_vars
  PROVE  PartsInv'
  <1>1. ASSUME NEW c \in Client, NEW n \in PartNo, CallUpload(c, n) PROVE PartsInv'
    <2>1. /\ \A m \in PartNo : acked'[m] = IF m = n THEN None ELSE acked[m]
          /\ \A d \in Client, m \in PartNo : expect'[d][m] = IF m = n THEN None ELSE expect[d][m]
          /\ \A d \in Client \ {c} : op'[d] = op[d] /\ part'[d] = part[d] /\ pc'[d] = pc[d]
          /\ part'[c].number = n /\ pc'[c] = "open" /\ meta' = meta /\ local' = local
      BY <1>1 DEF CallUpload, TypeOK, Parts, Goto, disk
    <2>2. \A d \in Client : op[d] = "upload" => part[d].number \in PartNo
      BY DEF StageInv
    <2>3. InDoubt' BY <2>1, <2>2 DEF PartsInv, InDoubt
    <2>4. ExpectedRecorded' BY <2>1 DEF PartsInv, ExpectedRecorded
    <2>5. AckedPartsRecorded' BY <2>1 DEF PartsInv, AckedPartsRecorded
    <2>6. CompletedBodyCurrent' BY <2>1 DEF PartsInv, CompletedBodyCurrent
    <2> QED BY <2>3, <2>4, <2>5, <2>6 DEF PartsInv
  <1>2. ASSUME NEW c \in Client, Reject(c) PROVE PartsInv'
    BY <1>2, LeavesParts DEF Reject, disk, history
  <1>3. ASSUME NEW c \in Client, RecordPart(c) PROVE PartsInv'
    <2> DEFINE n == part[c].number
    <2>1. /\ meta = local[c] /\ meta # None /\ op[c] = "upload" /\ n \in PartNo
          /\ \A m \in PartNo : meta'.parts[m] = IF m = n THEN part[c].body ELSE meta.parts[m]
      <3>1. /\ local[c] = meta /\ meta # None /\ pc[c] = "part" /\ op[c] = "upload"
            /\ meta' = Recorded(local[c], part[c])
        BY <1>3 DEF RecordPart, CopyInv, StageInv, HasStatus
      <3> QED BY <3>1, MetaWritten
    <2>2. /\ \A m \in PartNo : m # n => acked'[m] = acked[m]
          /\ acked'[n] = None \/ acked'[n] = part[c].body
          /\ (\E d \in Client \ {c} : op[d] = "upload" /\ part[d].number = n) => acked'[n] = None
      BY <1>3, <2>1 DEF RecordPart, TypeOK, Parts
    <2>3. \A d \in Client : expect[d][n] = None
      BY <2>1 DEF PartsInv, InDoubt
    <2>4. \A d \in Client : op[d] = "upload" => part[d].number \in PartNo
      BY DEF StageInv
    <2>5. Leave(c)
      BY <1>3 DEF RecordPart
    <2>6. InDoubt'
      BY <2>2, <2>4, <2>5, Leaves DEF PartsInv, InDoubt, NoParts
    <2>7. ExpectedRecorded'
      BY <2>1, <2>3, <2>5, Leaves DEF PartsInv, ExpectedRecorded, NoParts
    <2>8. AckedPartsRecorded'
      BY <2>1, <2>2 DEF PartsInv, AckedPartsRecorded
    <2>9. CompletedBodyCurrent'
      BY <2>5, Leaves DEF PartsInv, CompletedBodyCurrent
    <2> QED BY <2>6, <2>7, <2>8, <2>9 DEF PartsInv
  <1>4. ASSUME NEW c \in Client, ClaimCompletion(c) PROVE PartsInv'
    <2>1. meta # None /\ meta'.parts = meta.parts /\ local[c] = meta
      <3>1. local[c] = meta /\ meta # None /\ meta \in Meta /\ meta' = Claimed(meta)
        BY <1>4 DEF ClaimCompletion, MayComplete, HasStatus, CopyInv, TypeOK
      <3> QED BY <3>1, StatusWritten
    <2>2. /\ \A d \in Client : op'[d] = "upload" => op[d] = "upload"
          /\ \A d \in Client : pc'[d] \in {"put", "stored"} => pc[d] \in {"put", "stored"} \/ d = c
          /\ part' = part /\ local' = local /\ acked' = acked /\ expect' = expect
      BY <1>4 DEF ClaimCompletion, Goto, TypeOK, history
    <2>3. InDoubt' BY <2>2 DEF PartsInv, InDoubt
    <2>4. ExpectedRecorded' BY <2>1, <2>2 DEF PartsInv, ExpectedRecorded
    <2>5. AckedPartsRecorded' BY <2>1, <2>2 DEF PartsInv, AckedPartsRecorded
    <2>6. CompletedBodyCurrent' BY <2>1, <2>2 DEF PartsInv, CompletedBodyCurrent, ExpectedRecorded
    <2> QED BY <2>3, <2>4, <2>5, <2>6 DEF PartsInv
  <1>5. ASSUME NEW c \in Client, Reopen(c) PROVE PartsInv'
    <2>1. meta # None /\ meta'.parts = meta.parts /\ acked' = acked /\ Leave(c)
      <3>1. local[c] = meta /\ meta # None /\ meta \in Meta
            /\ meta' = Reopened(meta) /\ acked' = acked /\ Leave(c)
        BY <1>5 DEF Reopen, CopyInv, TypeOK
      <3> QED BY <3>1, StatusWritten
    <2> QED BY <2>1, LeavesParts
  <1>6. ASSUME NEW c \in Client, RemoveDir(c) PROVE PartsInv'
    BY <1>6, LeavesParts DEF RemoveDir, disk, history
  <1>7. ASSUME NEW c \in Client, Crash(c) \/ Raise(c) PROVE PartsInv'
    BY <1>7, EndsEarly, LeavesParts
  <1>22. ASSUME NEW c \in Client, RaiseWritten(c) PROVE PartsInv'
    <2>1. Leave(c) /\ acked' = acked /\ meta # None
      BY <1>22, WrittenEarly
    <2>2. CASE meta'.parts = meta.parts
      BY <2>1, <2>2, LeavesParts
    <2>3. CASE /\ op[c] = "upload" /\ part[c].number \in PartNo
               /\ \A n \in PartNo : n # part[c].number => meta'.parts[n] = meta.parts[n]
      <3>1. acked[part[c].number] = None /\ \A d \in Client : expect[d][part[c].number] = None
        BY <2>3 DEF PartsInv, InDoubt
      <3>2. InDoubt'
        BY <2>1, Leaves DEF PartsInv, InDoubt, NoParts, StageInv
      <3>3. ExpectedRecorded'
        BY <2>1, <2>3, <3>1, Leaves DEF PartsInv, ExpectedRecorded, NoParts
      <3>4. AckedPartsRecorded'
        BY <2>1, <2>3, <3>1 DEF PartsInv, AckedPartsRecorded
      <3>5. CompletedBodyCurrent'
        BY <2>1, Leaves DEF PartsInv, CompletedBodyCurrent
      <3> QED BY <3>2, <3>3, <3>4, <3>5 DEF PartsInv
    <2> QED BY <1>22, <2>2, <2>3, WrittenEarly
  <1> USE DEF PartsInv, InDoubt, ExpectedRecorded, AckedPartsRecorded,
      CompletedBodyCurrent, AfterFailure, TypeOK, Goto, Leave, Unlock, disk, lock, history
  <1>8. CASE UNCHANGED vars BY <1>8 DEF vars
  <1>9. ASSUME NEW c \in Client, CallComplete(c) PROVE PartsInv'
    BY <1>9 DEF CallComplete
  <1>10. ASSUME NEW c \in Client, CallAbort(c) PROVE PartsInv'
    BY <1>10 DEF CallAbort
  <1>11. ASSUME NEW c \in Client, OpenLock(c) PROVE PartsInv'
    BY <1>11 DEF OpenLock
  <1>12. ASSUME NEW c \in Client, Lock(c) PROVE PartsInv'
    BY <1>12 DEF Lock
  <1>13. ASSUME NEW c \in Client, WritePart(c) PROVE PartsInv'
    BY <1>13 DEF WritePart
  <1>14. ASSUME NEW c \in Client, StoreObject(c) PROVE PartsInv'
    BY <1>14 DEF StoreObject
  <1>15. ASSUME NEW c \in Client, AuditObject(c) PROVE PartsInv'
    BY <1>15 DEF AuditObject
  <1>16. ASSUME NEW c \in Client, PutFails(c) PROVE PartsInv'
    BY <1>16 DEF PutFails
  <1>17. ASSUME NEW c \in Client, BeginRemoval(c) PROVE PartsInv'
    BY <1>17 DEF BeginRemoval
  <1>18. ASSUME NEW c \in Client, UnlinkMeta(c) PROVE PartsInv'
    BY <1>18 DEF UnlinkMeta
  <1>19. ASSUME NEW c \in Client, NEW n \in PartNo, UnlinkPart(c, n) PROVE PartsInv'
    BY <1>19 DEF UnlinkPart
  <1>20. ASSUME NEW c \in Client, UnlockRemoved(c) PROVE PartsInv'
    BY <1>20 DEF UnlockRemoved
  <1>21. ASSUME NEW c \in Client, UnlinkLock(c) PROVE PartsInv'
    BY <1>21 DEF UnlinkLock
  <1> QED BY <1>1, <1>2, <1>3, <1>4, <1>5, <1>6, <1>7, <1>8, <1>9, <1>10, <1>11, <1>12,
      <1>13, <1>14, <1>15, <1>16, <1>17, <1>18, <1>19, <1>20, <1>21, <1>22 DEF Next, Step

(* An object is stored once for each claim.                                *)
LEMMA CountStep ==
  ASSUME TypeOK, LockInv, CopyInv, StageInv, CompletionInv, CountInv, [Next]_vars
  PROVE  CountInv'
  <1>1. ASSUME NEW c \in Client, RecordPart(c) PROVE CountInv'
    <2>1. /\ HasStatus(meta, "open")
          /\ objects' = objects /\ lateFailures' = lateFailures
      BY <1>1 DEF RecordPart, StageInv, CopyInv
    <2> QED BY <2>1 DEF CountInv
  <1>2. ASSUME NEW c \in Client, ClaimCompletion(c) PROVE CountInv'
    <2>1. /\ HasStatus(meta, "open") /\ ~HasStatus(meta', "open")
          /\ objects' = objects /\ lateFailures' = lateFailures
      <3>1. /\ HasStatus(meta, "open") /\ meta \in Meta
            /\ meta' = Claimed(meta)
        BY <1>2 DEF ClaimCompletion, MayComplete, HasStatus, CopyInv, TypeOK
      <3>2. objects' = objects /\ lateFailures' = lateFailures
        BY <1>2 DEF ClaimCompletion, history
      <3> QED BY <3>1, <3>2, StatusWritten DEF HasStatus
    <2> QED BY <2>1 DEF CountInv
  <1>3. ASSUME NEW c \in Client, StoreObject(c) PROVE CountInv'
    <2>1. /\ pc[c] = "put" /\ Completing(c)
          /\ objects' = Append(objects, local[c].parts)
          /\ \A d \in Client \ {c} : pc'[d] = pc[d]
          /\ pc'[c] = "stored" /\ op' = op /\ op[c] = "put"
          /\ meta' = meta /\ lateFailures' = lateFailures
      BY <1>3 DEF StoreObject, Goto, TypeOK, StageInv, Completing, disk, history
    <2>2. Len(objects') = Len(objects) + 1 /\ Len(objects) <= lateFailures /\ lateFailures \in Nat
      BY <2>1 DEF TypeOK, CountInv
    <2>3. ~HasStatus(meta', "open")
      BY <2>1 DEF CompletionInv, UploadClaimed, HasStatus
    <2>4. \A d \in Client : ~(pc'[d] = "put" \/ op'[d] = "reopen")
      <3>1. \A d \in Client \ {c} : ~Completing(d)
        BY <2>1 DEF CompletionInv, ExclusiveCompletion
      <3> QED BY <2>1, <3>1 DEF StageInv, Completing
    <2> QED BY <2>1, <2>2, <2>3, <2>4 DEF CountInv, TypeOK
  <1> USE DEF CountInv, HasStatus, TypeOK, Goto, Leave, Unlock, disk, lock, history
  <1>4. CASE UNCHANGED vars BY <1>4 DEF vars
  <1>5. ASSUME NEW c \in Client, NEW n \in PartNo, CallUpload(c, n) PROVE CountInv'
    BY <1>5 DEF CallUpload
  <1>6. ASSUME NEW c \in Client, CallComplete(c) PROVE CountInv'
    BY <1>6 DEF CallComplete
  <1>7. ASSUME NEW c \in Client, CallAbort(c) PROVE CountInv'
    BY <1>7 DEF CallAbort
  <1>8. ASSUME NEW c \in Client, OpenLock(c) PROVE CountInv'
    BY <1>8 DEF OpenLock
  <1>9. ASSUME NEW c \in Client, Lock(c) PROVE CountInv'
    BY <1>9 DEF Lock
  <1>10. ASSUME NEW c \in Client, Reject(c) PROVE CountInv'
    BY <1>10 DEF Reject
  <1>11. ASSUME NEW c \in Client, WritePart(c) PROVE CountInv'
    BY <1>11 DEF WritePart
  <1>12. ASSUME NEW c \in Client, AuditObject(c) PROVE CountInv'
    BY <1>12 DEF AuditObject
  <1>13. ASSUME NEW c \in Client, PutFails(c) PROVE CountInv'
    BY <1>13 DEF PutFails
  <1>14. ASSUME NEW c \in Client, Reopen(c) PROVE CountInv'
    BY <1>14 DEF Reopen
  <1>15. ASSUME NEW c \in Client, BeginRemoval(c) PROVE CountInv'
    BY <1>15 DEF BeginRemoval
  <1>16. ASSUME NEW c \in Client, UnlinkMeta(c) PROVE CountInv'
    BY <1>16 DEF UnlinkMeta
  <1>17. ASSUME NEW c \in Client, NEW n \in PartNo, UnlinkPart(c, n) PROVE CountInv'
    BY <1>17 DEF UnlinkPart
  <1>18. ASSUME NEW c \in Client, UnlockRemoved(c) PROVE CountInv'
    BY <1>18 DEF UnlockRemoved
  <1>19. ASSUME NEW c \in Client, UnlinkLock(c) PROVE CountInv'
    BY <1>19 DEF UnlinkLock
  <1>20. ASSUME NEW c \in Client, RemoveDir(c) PROVE CountInv'
    BY <1>20 DEF RemoveDir
  <1>21. ASSUME NEW c \in Client, Crash(c) \/ Raise(c) PROVE CountInv'
    BY <1>21, EndsEarly
  <1>22. ASSUME NEW c \in Client, RaiseWritten(c) PROVE CountInv'
    BY <1>22, WrittenEarly
  <1> QED BY <1>1, <1>2, <1>3, <1>4, <1>5, <1>6, <1>7, <1>8, <1>9, <1>10, <1>11, <1>12,
      <1>13, <1>14, <1>15, <1>16, <1>17, <1>18, <1>19, <1>20, <1>21, <1>22 DEF Next, Step

-----------------------------------------------------------------------------
LEMMA InitIInv == Init => IInv
  <1> SUFFICES ASSUME Init PROVE IInv
    OBVIOUS
  <1> USE DEF Init
  <1>1. NoParts \in Parts /\ \A n \in PartNo : NoParts[n] = None
    BY DEF NoParts, Parts
  <1>2. TypeOK
    <2>1. meta \in Meta /\ file \in Parts /\ acked \in Parts /\ expect \in [Client -> Parts]
      BY <1>1 DEF Meta
    <2>2. pc \in [Client -> Label] /\ op \in [Client -> Ops \cup {"none"}]
      BY DEF Label
    <2>3. handle \in [Client -> 0..inodes] /\ lockFile \in 0..inodes /\ inodes \in Nat
      OBVIOUS
    <2>4. objects \in Seq(Parts) /\ calls \in 0..MaxCalls
      BY BoundAssumption
    <2> QED BY <2>1, <2>2, <2>3, <2>4 DEF TypeOK
  <1>3. LockInv /\ CopyInv /\ StageInv BY DEF LockInv, CopyInv, StageInv
  <1>4. CompletionInv
    BY DEF CompletionInv, UploadClaimed, ExclusiveCompletion, CompletingHasOwner, Completing,
           HasStatus
  <1>5. PartsInv
    BY <1>1 DEF PartsInv, InDoubt, ExpectedRecorded, AckedPartsRecorded, CompletedBodyCurrent
  <1>6. CountInv BY DEF CountInv
  <1> QED BY <1>2, <1>3, <1>4, <1>5, <1>6 DEF IInv

LEMMA StepIInv == IInv /\ [Next]_vars => IInv'
  <1> SUFFICES ASSUME IInv, [Next]_vars PROVE IInv'
    OBVIOUS
  <1> QED
    BY TypeStep, LockStep, CopyStep, StageStep, CompletionStep, PartsStep, CountStep DEF IInv

(* The inductive invariant holds in every reachable state.                 *)
THEOREM Invariance == Spec => []IInv
  BY InitIInv, StepIInv, PTL DEF Spec

(* Every variable keeps its type.                                          *)
THEOREM TypeCorrect == Spec => []TypeOK
  <1>1. IInv => TypeOK BY DEF IInv
  <1> QED BY <1>1, Invariance, PTL

(* An acknowledged part stays in meta.json, and is in the body of every    *)
(* completion called after it (adapters.py:113-172): the copy of meta.json *)
(* a call rewrites is never stale.                                         *)
THEOREM PartsAlwaysKept == Spec => []PartsKept
  <1>1. IInv => PartsKept BY DEF IInv, PartsInv, PartsKept
  <1> QED BY <1>1, Invariance, PTL

(* A completion is one call's own until that ends, its process dies or it  *)
(* raises outside put_object, in the handler that opens the upload again   *)
(* or in clean-up (adapters.py:164-168, 266-278): races, rejections and    *)
(* failures of put_object never leave an upload in "completing" without    *)
(* one.  And it removes the parts only when the object is there.           *)
THEOREM CompletionAlwaysOwned == Spec => []CompletionOwned
  <1>1. IInv => PartsOutliveCompletion
    BY DEF IInv, StageInv, PartsOutliveCompletion, Removing
  <1>2. IInv => CompletionOwned
    BY <1>1 DEF IInv, CompletionInv, CompletionOwned
  <1> QED BY <1>2, Invariance, PTL

(* However many calls race and retry, a second object is stored only after *)
(* a put_object that failed when its manifest was there.                   *)
THEOREM DuplicatesAlwaysNeedLateFailure == Spec => []DuplicatesNeedLateFailure
  <1>1. IInv => DuplicatesNeedLateFailure
    BY DEF IInv, CountInv, DuplicatesNeedLateFailure
  <1> QED BY <1>1, Invariance, PTL
=============================================================================
