------------------------------ MODULE Recovery ------------------------------
(***************************************************************************)
(* Backup and restore of a state directory                                 *)
(* (python/urp/disaster_recovery.py).  export_state lists the files of     *)
(* each included path, then digests and copies one after the other, under  *)
(* a lock that only exports take; import_state verifies an archive into a  *)
(* staging directory and moves it in place of the state, or merges it.     *)
(* Meanwhile the service goes on writing, and recreates the directory when *)
(* it misses it (init_state).  Any process may die anywhere.               *)
(*                                                                         *)
(* An archive is one that an export made: names, signature and limits of   *)
(* archives from elsewhere are not modelled.                               *)
(***************************************************************************)
EXTENDS Common, Integers, Sequences, SequencesExt

CONSTANTS
  Path,      \* the files a state directory may have
  Sorted,    \* the files in the order of their names
  Area,      \* INCLUDED_STATE_PATHS: a sequence of sets of files, in that order
  Fleeting,  \* the temporary files of atomic_write_bytes in included paths
  Import,    \* the calls of import_state
  Pid(_),    \* the process id of an import, which may be that of an earlier one
  MaxWrites, \* bound: how often the service writes
  MaxExports, \* bound: how many exports are begun
  MaxFaults  \* bound: how many faults are made to happen

Included == UNION ToSet(Area)

(* sorted: of some files, the first in the order of their names.           *)
First(files) == Sorted[SelectInSeq(Sorted, LAMBDA f : f \in files)]

(* A file is the number of the write that made it, 0 when there is none.   *)
Files == [Path -> 0..(MaxWrites + 1)]
NoFiles == [f \in Path |-> 0]

(* A directory: its files and, as a history, where it comes from.          *)
Directory == [from : {"service", "restore", "nowhere"}, files : Files]

ASSUME RecoveryAssumption ==
  /\ Sorted \in Seq(Path) /\ ToSet(Sorted) = Path
  /\ Area \in Seq(SUBSET Path) /\ Area # << >>
  /\ Fleeting \subseteq Path /\ MaxWrites \in Nat /\ MaxExports \in Nat /\ MaxFaults \in Nat
  /\ None \notin Directory

VARIABLES
  live,     \* the state directory, None when it does not exist
  previous, \* .<state>.pre-restore-<pid>, of each process id
  writes,   \* counts the writes
  exporter, \* where export_state is, and what it has listed and copied
  archive,  \* the archive: what export_state published last
  exports,  \* counts the exports
  importer, \* where each import is
  staging,  \* the staging directory of each import
  faults    \* history: crashes, failed renames, recreations of the directory,
            \* imports begun while another of the same process is under way

recoveryVars == <<live, previous, writes, exporter, archive, exports, importer,
                  staging, faults>>

AtRest == [at |-> "rest"]

RecoveryInit ==
  /\ live = [from |-> "service", files |-> [f \in Path |-> IF f \in Fleeting THEN 0 ELSE 1]]
  /\ previous = [pid \in {Pid(i) : i \in Import} |-> None]
  /\ writes = 1
  /\ exporter = AtRest /\ archive = None /\ exports = 0
  /\ importer = [i \in Import |-> AtRest]
  /\ staging = [i \in Import |-> None]
  /\ faults = 0

Exists(f) == live # None /\ live.files[f] # 0

Fault == faults < MaxFaults /\ faults' = faults + 1
-----------------------------------------------------------------------------
(* The service.  What happens to the state while an export is under way is *)
(* remembered in exporter.touched, as a history.                           *)
Touch(touched) ==
  exporter' = IF exporter = AtRest THEN AtRest
                                   ELSE [exporter EXCEPT !.touched = @ \cup touched]

ServiceWrites(f) ==
  /\ live # None /\ writes <= MaxWrites
  /\ writes' = writes + 1
  /\ live' = [live EXCEPT !.files[f] = writes + 1]
  /\ Touch({f})
  /\ UNCHANGED <<exports, previous, archive, importer, staging, faults>>

(* A temporary file is renamed.                                            *)
FleetingEnds(f) ==
  /\ f \in Fleeting /\ Exists(f)
  /\ live' = [live EXCEPT !.files[f] = 0]
  /\ Touch({f})
  /\ UNCHANGED <<exports, previous, writes, archive, importer, staging, faults>>

(* init_state, or the mkdir of a lock or of an atomic write.               *)
Recreate ==
  /\ live = None
  /\ live' = [from |-> "nowhere", files |-> NoFiles]
  /\ Fault
  /\ UNCHANGED <<exports, previous, writes, exporter, archive, importer, staging>>
-----------------------------------------------------------------------------
(* export_state.                                                           *)
BeginExport ==
  /\ exporter = AtRest /\ live # None /\ exports < MaxExports
  /\ exports' = exports + 1
  /\ exporter' = [at |-> "list", area |-> 1, listed |-> {}, digest |-> NoFiles,
                  copied |-> NoFiles, start |-> live.files, touched |-> {}]
  /\ UNCHANGED <<live, previous, writes, archive, importer, staging, faults>>

(* Mutant of Listed: the first file of an area is left out.                *)
ListedButFirst(area) == {f \in area : Exists(f) /\ f # First(area)}

Listed(area) == {f \in area : Exists(f)}

(* _state_files: the files of one included path.                           *)
ListArea ==
  /\ exporter.at = "list"
  /\ exporter' = [exporter EXCEPT !.area = @ + 1,
                                  !.listed = @ \cup Listed(Area[exporter.area]),
                                  !.at = IF exporter.area = Len(Area) THEN "digest" ELSE "list"]
  /\ UNCHANGED <<exports, live, previous, writes, archive, importer, staging, faults>>

(* The files left to copy, which is done in their order.                   *)
Remaining == {f \in exporter.listed : exporter.copied[f] = 0}

DigestFile ==
  /\ exporter.at = "digest" /\ Remaining # {} /\ Exists(First(Remaining))
  /\ exporter' = [exporter EXCEPT !.digest[First(Remaining)] = live.files[First(Remaining)],
                                  !.at = "copy"]
  /\ UNCHANGED <<exports, live, previous, writes, archive, importer, staging, faults>>

CopyFile ==
  /\ exporter.at = "copy" /\ Exists(First(Remaining))
  /\ exporter' = [exporter EXCEPT !.copied[First(Remaining)] = live.files[First(Remaining)],
                                  !.at = "digest"]
  /\ UNCHANGED <<exports, live, previous, writes, archive, importer, staging, faults>>

(* The archive is renamed into place.                                      *)
Publish ==
  /\ exporter.at = "digest" /\ Remaining = {}
  /\ archive' = [digest |-> exporter.digest, files |-> exporter.copied,
                 start |-> exporter.start, touched |-> exporter.touched]
  /\ exporter' = AtRest
  /\ UNCHANGED <<exports, live, previous, writes, importer, staging, faults>>

(* A listed file is gone: FileNotFoundError.                               *)
ExportFails ==
  /\ exporter.at \in {"digest", "copy"} /\ Remaining # {} /\ ~Exists(First(Remaining))
  /\ exporter' = AtRest
  /\ UNCHANGED <<exports, live, previous, writes, archive, importer, staging, faults>>
-----------------------------------------------------------------------------
(* import_state.                                                           *)
Busy(i) == importer[i].at \notin {"rest", "over"}
GoOn(i, label) == importer' = [importer EXCEPT ![i] = [@ EXCEPT !.at = label]]

(* The call ends; TemporaryDirectory removes what is left of the staging.  *)
EndImport(i) ==
  /\ importer' = [importer EXCEPT ![i] = [at |-> "over"]]
  /\ staging' = [staging EXCEPT ![i] = None]

Verified == archive.digest = archive.files

(* _extract_verified: the archive is read whole before the state is        *)
(* touched.                                                                *)
BeginImport(i, replace) ==
  /\ importer[i].at = "rest" /\ archive # None
  /\ IF Verified
       THEN /\ importer' = [importer EXCEPT ![i] =
                 [at |-> IF replace THEN "clear" ELSE "merge", began |-> writes, done |-> {}]]
            /\ staging' = [staging EXCEPT ![i] = [from |-> "restore", files |-> archive.files]]
       ELSE EndImport(i)
  /\ IF \E j \in Import : Busy(j) /\ Pid(j) = Pid(i) THEN Fault ELSE UNCHANGED faults
  /\ UNCHANGED <<exports, live, previous, writes, exporter, archive>>

(* _replace_state: what an earlier import of this process id left goes.    *)
ClearPrevious(i) ==
  /\ importer[i].at = "clear"
  /\ previous' = [previous EXCEPT ![Pid(i)] = None]
  /\ GoOn(i, "away")
  /\ UNCHANGED <<exports, live, writes, exporter, archive, staging, faults>>

(* Mutant of KeptAside: the old state is removed, not renamed.                  *)
Removed(directory) == None

KeptAside(directory) == directory

MoveAway(i) ==
  /\ importer[i].at = "away" /\ (live # None => previous[Pid(i)] = None)
  /\ IF live # None
       THEN /\ previous' = [previous EXCEPT ![Pid(i)] = KeptAside(live)]
            /\ live' = None
            /\ Touch(Path)
       ELSE UNCHANGED <<previous, live, exporter>>
  /\ GoOn(i, "in")
  /\ UNCHANGED <<exports, writes, archive, staging, faults>>

(* An import of the same process has kept a state aside meanwhile, and a   *)
(* directory with files in it is not renamed over.                         *)
MoveAwayBlocked(i) ==
  /\ importer[i].at = "away" /\ live # None /\ previous[Pid(i)] # None
  /\ EndImport(i)
  /\ UNCHANGED <<exports, live, previous, writes, exporter, archive, faults>>

MoveIn(i) ==
  /\ importer[i].at = "in" /\ live = None
  /\ live' = staging[i]
  /\ staging' = [staging EXCEPT ![i] = None]
  /\ Touch(Path)
  /\ GoOn(i, "drop")
  /\ UNCHANGED <<exports, previous, writes, archive, faults>>

(* The rename fails because the state has been recreated meanwhile, which  *)
(* then stays, and with it the old state under its other name ...          *)
MoveInBlocked(i) ==
  /\ importer[i].at = "in" /\ live # None
  /\ EndImport(i)
  /\ UNCHANGED <<exports, live, previous, writes, exporter, archive, faults>>

PutBack(i) ==
  IF previous[Pid(i)] # None
    THEN live' = previous[Pid(i)] /\ previous' = [previous EXCEPT ![Pid(i)] = None]
    ELSE UNCHANGED <<live, previous>>

(* ... or for a reason of its own, and the old state comes back.           *)
MoveInFails(i) ==
  /\ importer[i].at = "in" /\ live = None
  /\ PutBack(i)
  /\ Touch(Path)
  /\ EndImport(i)
  /\ Fault
  /\ UNCHANGED <<exports, writes, archive>>

DropPrevious(i) ==
  /\ importer[i].at = "drop"
  /\ previous' = [previous EXCEPT ![Pid(i)] = None]
  /\ EndImport(i)
  /\ UNCHANGED <<exports, live, writes, exporter, archive, faults>>

(* _merge_state, one file at a time in the order of their names.           *)
Unmerged(files, done) == {f \in Included : files[f] # 0 /\ f \notin done}
ToMerge(i) == Unmerged(staging[i].files, importer[i].done)

(* Mutant of SkipsExisting: a file that differs is replaced.               *)
SkipsEqual(i, f) == Exists(f) /\ live.files[f] = staging[i].files[f]

SkipsExisting(i, f) == Exists(f)

MergeFile(i) ==
  /\ importer[i].at = "merge"
  /\ IF ToMerge(i) = {}
       THEN EndImport(i)
       ELSE LET f == First(ToMerge(i))
            IN  IF SkipsExisting(i, f)
                  THEN IF live.files[f] = staging[i].files[f]
                         THEN /\ importer' = [importer EXCEPT ![i].done = @ \cup {f}]
                              /\ UNCHANGED staging
                         ELSE EndImport(i)
                  ELSE GoOn(i, "write") /\ UNCHANGED staging
  /\ UNCHANGED <<exports, live, previous, writes, exporter, archive, faults>>

(* The file was missing when it was looked for; it is written now, and the *)
(* directory made if that is missing too.                                  *)
WriteMerged(i) ==
  /\ importer[i].at = "write"
  /\ LET f == First(ToMerge(i))
         directory == IF live = None THEN [from |-> "nowhere", files |-> NoFiles] ELSE live
     IN  /\ live' = [directory EXCEPT !.files[f] = staging[i].files[f]]
         /\ importer' = [importer EXCEPT ![i].at = "merge", ![i].done = @ \cup {f}]
         /\ Touch({f})
  /\ faults' = IF live = None THEN faults + 1 ELSE faults
  /\ UNCHANGED <<exports, previous, writes, archive, staging>>

(* The process of an import dies; its staging directory is orphaned.       *)
ImportDies(i) ==
  /\ Busy(i)
  /\ EndImport(i)
  /\ Fault
  /\ UNCHANGED <<exports, live, previous, writes, exporter, archive>>

RecoveryNext ==
  \/ \E f \in Path : ServiceWrites(f) \/ FleetingEnds(f)
  \/ Recreate
  \/ BeginExport \/ ListArea \/ DigestFile \/ CopyFile \/ Publish \/ ExportFails
  \/ \E i \in Import :
       \/ \E replace \in BOOLEAN : BeginImport(i, replace)
       \/ ClearPrevious(i) \/ MoveAway(i) \/ MoveAwayBlocked(i)
       \/ MoveIn(i) \/ MoveInBlocked(i) \/ MoveInFails(i)
       \/ DropPrevious(i) \/ MergeFile(i) \/ WriteMerged(i) \/ ImportDies(i)

RecoverySpec == RecoveryInit /\ [][RecoveryNext]_recoveryVars
-----------------------------------------------------------------------------
(* A backup made while the service writes has, unchanged, every included   *)
(* file that was there when it began and that nobody touched meanwhile;    *)
(* and one made while nothing happens can be restored and is exactly the   *)
(* included part of the state (disaster_recovery.py:54-72, 160-171).       *)
BackupFaithful ==
  archive # None =>
    /\ \A f \in Included \ archive.touched :
         archive.files[f] = archive.start[f] /\ archive.digest[f] = archive.start[f]
    /\ \A f \in Path \ Included : archive.files[f] = 0
    /\ archive.touched = {} => Verified

(* One fault does not lose the state: the service's directory or a         *)
(* restored one is on disk, or about to be moved in, whether an import     *)
(* dies, the rename fails, the service recreates the directory in between, *)
(* or two imports of one process overlap (disaster_recovery.py:131-145).   *)
Whole(directory) == directory # None /\ directory.from # "nowhere"
StateSurvives ==
  faults <= 1 =>
    \/ Whole(live)
    \/ \E pid \in DOMAIN previous : Whole(previous[pid])
    \/ \E i \in Import : Busy(i) /\ staging[i] # None

(* What was backed up can be restored, and restoring never loses what was  *)
(* there: a backup is faithful, and the state survives a fault of an       *)
(* import.                                                                 *)
BackupsRestore == BackupFaithful /\ StateSurvives

(* The only import there is merges over nothing the service had: it        *)
(* changes a file that exists only if the service made that one after the  *)
(* merge began (disaster_recovery.py:148-157).                             *)
OnlyImport(i) == \A j \in Import \ {i} : importer[j].at = "rest"

MergeKeepsFiles ==
  [][\A i \in Import : importer[i].at = "write" /\ OnlyImport(i) /\ importer'[i] # importer[i] =>
       \A f \in Path : Exists(f) /\ live'.files[f] # live.files[f] =>
                         live.files[f] > importer[i].began]_recoveryVars
=============================================================================
