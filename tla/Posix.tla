-------------------------------- MODULE Posix --------------------------------
(***************************************************************************)
(* The POSIX adapter (python/urp/adapters.py, POSIXAdapter): files that    *)
(* are written in place and recorded in manifests.                         *)
(*                                                                         *)
(* put_file looks whether the file exists, replaces it atomically, and     *)
(* then records it as execute_file does: stat, read, execute.  Nothing is  *)
(* locked over these steps.  rehydrate_file writes the bytes of a manifest *)
(* back, and records nothing.  Calls of different workers interleave and   *)
(* are cut short anywhere.  Execution itself is the module Execute; here   *)
(* it stores a manifest in one step or the call is cut short.              *)
(***************************************************************************)
EXTENDS Common, Naturals

CONSTANTS
  Worker,        \* the threads and processes that use the adapter
  File,          \* the paths
  Datum,         \* the contents
  MaxFileCalls   \* bound: calls that are made

VARIABLES
  files,     \* the content of each path, None where there is no file
  filed,     \* the manifests: what stat told and what was read, of a path
  calls,     \* the call of each worker, None at rest
  begun,      \* how many calls were made
  returned,  \* history: the put_file calls that returned
  cutShort   \* history: what calls wrote that ended before they recorded it

posixVars == <<files, filed, calls, begun, returned, cutShort>>

(* A call: what it writes, how far it is, what it has seen of its path,    *)
(* and whether another call replaced its file before it had read it.       *)
NewCall(do, at, path, data, overwrite) ==
  [do |-> do, at |-> at, path |-> path, data |-> data, overwrite |-> overwrite,
   stated |-> None, read |-> None, overtaken |-> FALSE]

PosixInit ==
  /\ files = [f \in File |-> None]
  /\ filed = {}
  /\ calls = [w \in Worker |-> None]
  /\ begun = 0
  /\ returned = {} /\ cutShort = {}

Call(w, call) ==
  /\ calls[w] = None /\ begun < MaxFileCalls
  /\ begun' = begun + 1
  /\ calls' = [calls EXCEPT ![w] = call]
  /\ UNCHANGED <<files, filed, returned, cutShort>>

(* put_file, and write_file, which is the same.                            *)
PutFile(w, f, d, overwrite) == Call(w, NewCall("put", "check", f, d, overwrite))

ExecuteFile(w, f) == Call(w, NewCall("execute", "stat", f, None, TRUE))

(* read_file gives the bytes of a manifest that is stored.                 *)
RehydrateFile(w, m, f, overwrite) ==
  Call(w, NewCall("rehydrate", "check", f, m.data, overwrite))

Reached(w, at) == calls[w] # None /\ calls[w].at = at

(* FileExistsError ends the call.                                          *)
CheckExists(w) ==
  /\ Reached(w, "check")
  /\ calls' = IF files[calls[w].path] # None /\ ~calls[w].overwrite
                THEN [calls EXCEPT ![w] = None]
                ELSE [calls EXCEPT ![w].at = "write"]
  /\ UNCHANGED <<files, filed, begun, returned, cutShort>>

(* Mutant of Recorded: a file that was there before is not recorded again. *)
RecordedIfNew(call) == call.do = "put" /\ files[call.path] = None

(* Whether the call goes on to record what it wrote.                       *)
Recorded(call) == call.do = "put"

(* atomic_write_bytes; another call that has not read this path yet will   *)
(* find these bytes.                                                       *)
ReplaceFile(w) ==
  /\ Reached(w, "write")
  /\ LET call == calls[w]
         Overtakes(v) == v # w /\ calls[v] # None /\ calls[v].path = call.path
                           /\ calls[v].at \in {"stat", "read"}
     IN  /\ files' = [files EXCEPT ![call.path] = call.data]
         /\ calls' = [v \in Worker |->
              CASE v = w -> IF Recorded(call) THEN [call EXCEPT !.at = "stat"] ELSE None
                [] Overtakes(v) -> [calls[v] EXCEPT !.overtaken = TRUE]
                [] OTHER -> calls[v]]
  /\ UNCHANGED <<filed, begun, returned, cutShort>>

(* _work_unit_for_path; stat raises where there is no file.                *)
StatFile(w) ==
  /\ Reached(w, "stat")
  /\ LET found == files[calls[w].path]
     IN  calls' = IF found = None
                    THEN [calls EXCEPT ![w] = None]
                    ELSE [calls EXCEPT ![w].at = "read", ![w].stated = found]
  /\ UNCHANGED <<files, filed, begun, returned, cutShort>>

ReadBytes(w) ==
  /\ Reached(w, "read")
  /\ calls' = [calls EXCEPT ![w].at = "execute", ![w].read = files[calls[w].path]]
  /\ UNCHANGED <<files, filed, begun, returned, cutShort>>

ExecuteRead(w) ==
  /\ Reached(w, "execute")
  /\ LET call == calls[w]
         manifest == [path |-> call.path, stated |-> call.stated, data |-> call.read]
     IN  /\ filed' = filed \cup {manifest}
         /\ returned' = IF call.do # "put" THEN returned
              ELSE returned \cup
                     {[data |-> call.data, manifest |-> manifest, overtaken |-> call.overtaken]}
  /\ calls' = [calls EXCEPT ![w] = None]
  /\ UNCHANGED <<files, begun, cutShort>>

(* The process dies, a write fails, or the execution is refused.           *)
CutShort(w) ==
  /\ calls[w] # None
  /\ cutShort' = IF calls[w].do = "put" /\ calls[w].at \in {"stat", "read", "execute"}
                   THEN cutShort \cup {calls[w].data} ELSE cutShort
  /\ calls' = [calls EXCEPT ![w] = None]
  /\ UNCHANGED <<files, filed, begun, returned>>

PosixNext ==
  \E w \in Worker :
    \/ \E f \in File, overwrite \in BOOLEAN :
         \/ \E d \in Datum : PutFile(w, f, d, overwrite)
         \/ \E m \in filed : RehydrateFile(w, m, f, overwrite)
    \/ \E f \in File : ExecuteFile(w, f)
    \/ CheckExists(w) \/ ReplaceFile(w)
    \/ StatFile(w) \/ ReadBytes(w) \/ ExecuteRead(w)
    \/ CutShort(w)

PosixSpec == PosixInit /\ [][PosixNext]_posixVars
-----------------------------------------------------------------------------
(* However calls overlap, the bytes in a file are the bytes of a manifest  *)
(* (of it, or of a file that holds the same), unless a call that wrote     *)
(* them is still to record the file or was cut short; and a put_file that  *)
(* returned recorded its own bytes under what stat tells of them, unless   *)
(* another call replaced them first (adapters.py:304-309, 358-374).        *)
FilesAccounted ==
  /\ \A f \in File : files[f] # None =>
       \/ \E m \in filed : m.data = files[f]
       \/ files[f] \in cutShort
       \/ \E w \in Worker : /\ calls[w] # None /\ calls[w].path = f
                            /\ \/ calls[w].at \in {"stat", "read"} /\ calls[w].do = "put"
                               \/ calls[w].at = "execute" /\ calls[w].read = files[f]
  /\ \A r \in returned :
       ~r.overtaken => r.manifest.data = r.data /\ r.manifest.stated = r.data
=============================================================================
