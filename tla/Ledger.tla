------------------------------- MODULE Ledger -------------------------------
(***************************************************************************)
(* The hash-chained JSONL ledger (python/urp/ledger.py, JSONLLedger) as    *)
(* used by several threads of several processes over one file.             *)
(*                                                                         *)
(* A line of the file is an event with the hash of the line before it and  *)
(* its own hash.  `append` reads the last line and writes the next one     *)
(* under an exclusive file_lock (storage.py); reads take the shared lock.  *)
(* A write can stop half way, by an error of the file system or because    *)
(* the process dies: the file then ends in bytes with no newline.          *)
(***************************************************************************)
EXTENDS Naturals, Sequences

CONSTANTS
  Thread,       \* the threads that use the ledger
  Process,      \* the processes they run in
  ProcOf,       \* the process of each thread
  Event,        \* the events submitted; event ids are fresh uuids
  HashValue,    \* the values of event_hash
  NoHash,       \* prev_hash of the first line (None in the code)
  Hash(_, _),   \* Hash(prev, e): SHA-256 over event e with prev_hash filled in
  Junk,         \* a line that json.loads rejects
  Empty,        \* the file ends in a newline (or is empty)
  None          \* a thread between calls

ASSUME ProcAssumption == ProcOf \in [Thread -> Process]
ASSUME HashAssumption ==
  /\ NoHash \notin HashValue
  /\ \A p \in HashValue \cup {NoHash}, e \in Event : Hash(p, e) \in HashValue
ASSUME MarkerAssumption == None \notin Event /\ Junk # Empty

PrevHash == HashValue \cup {NoHash}
Record == [event : Event, prev : PrevHash, hash : HashValue]

ASSUME RecordAssumption == Junk \notin Record /\ Empty \notin Record

VARIABLES
  lines,      \* the newline-terminated lines of the file
  tail,       \* what follows the last newline
  exclusive,  \* the threads inside file_lock(path)
  shared,     \* the threads inside file_lock(path, exclusive=False)
  pc,         \* where each thread is in a ledger call
  event,      \* the event a thread is appending
  prev,       \* the last hash a thread read, used for the line it writes
  submitted,  \* history: the events ever passed to append
  acked,      \* history: the events whose append returned
  seen        \* history: what the latest successful read returned

file == <<lines, tail>>
vars == <<lines, tail, exclusive, shared, pc, event, prev, submitted, acked, seen>>

(* Mutant of Content: a reader that skips the lines it cannot parse.       *)
ParsableContent ==
  SelectSeq(IF tail = Empty THEN lines ELSE Append(lines, tail), LAMBDA l : l # Junk)

(* The lines _read_unlocked iterates over: an unterminated last line is    *)
(* a line like any other.                                                  *)
Content == IF tail = Empty THEN lines ELSE Append(lines, tail)

Readable == \A i \in 1..Len(Content) : Content[i] # Junk

(* What json.loads makes of two writes on one line.                        *)
Glue(before, bytes) == IF before = Empty THEN bytes ELSE Junk

LastParses == Content # << >> => Content[Len(Content)] # Junk

(* _last_event_unlocked: the hash the next line has to point to.           *)
LastHash == IF Content = << >> THEN NoHash ELSE Content[Len(Content)].hash

(* LedgerEvent.with_chain_hash.                                            *)
Chained(e, p) == [event |-> e, prev |-> p, hash |-> Hash(p, e)]

EventLine(t) == Chained(event[t], prev[t])

Events(s) == [i \in 1..Len(s) |-> s[i].event]

(* verify_chain: each line points to the one before it and its own hash    *)
(* can be recomputed.                                                      *)
VerifyChain(s) ==
  \A i \in 1..Len(s) :
    /\ s[i].prev = IF i = 1 THEN NoHash ELSE s[i - 1].hash
    /\ s[i].hash = Hash(s[i].prev, s[i].event)
-----------------------------------------------------------------------------
Init ==
  /\ lines = << >> /\ tail = Empty
  /\ exclusive = {} /\ shared = {}
  /\ pc = [t \in Thread |-> "idle"]
  /\ event = [t \in Thread |-> None]
  /\ prev = [t \in Thread |-> NoHash]
  /\ submitted = {} /\ acked = {}
  /\ seen = << >>

Goto(t, label) == pc' = [pc EXCEPT ![t] = label]

(* file_lock admits a thread through the process-wide RLock, then through  *)
(* flock on the lock file: two threads of one process exclude each other   *)
(* even when both only read.                                               *)
MayShare(t) ==
  /\ exclusive = {}
  /\ \A u \in shared : ProcOf[u] # ProcOf[t]

(* Mutant of MayExclude: no fcntl, only the lock between threads is left.  *)
ExcludesOwnProcess(t) == \A u \in exclusive \cup shared : ProcOf[u] # ProcOf[t]

MayExclude(t) == exclusive \cup shared = {}

(* append is called with a fresh event.                                    *)
BeginAppend(t, e) ==
  /\ pc[t] = "idle" /\ e \notin submitted
  /\ event' = [event EXCEPT ![t] = e]
  /\ submitted' = submitted \cup {e}
  /\ Goto(t, "lock")
  /\ UNCHANGED <<file, exclusive, shared, prev, acked, seen>>

LockToAppend(t) ==
  /\ pc[t] = "lock" /\ MayExclude(t)
  /\ exclusive' = exclusive \cup {t}
  /\ Goto(t, "chain")
  /\ UNCHANGED <<file, shared, event, prev, submitted, acked, seen>>

(* The last line parses: its hash becomes the prev_hash of the new line.   *)
ReadLastEvent(t) ==
  /\ pc[t] = "chain"
  /\ LastParses
  /\ prev' = [prev EXCEPT ![t] = LastHash]
  /\ Goto(t, "write")
  /\ UNCHANGED <<file, exclusive, shared, event, submitted, acked, seen>>

(* t's call ends, and its locals with it.                                  *)
Forget(t) ==
  /\ event' = [event EXCEPT ![t] = None]
  /\ prev' = [prev EXCEPT ![t] = NoHash]
  /\ Goto(t, "idle")

(* Leaving `append` by an exception, the lock released.                    *)
RaiseFromAppend(t) ==
  /\ exclusive' = exclusive \ {t}
  /\ Forget(t)
  /\ UNCHANGED <<shared, submitted, acked, seen>>

(* The last line does not parse: json.loads raises.                        *)
LastEventUnparsable(t) ==
  /\ pc[t] = "chain"
  /\ ~LastParses
  /\ UNCHANGED file
  /\ RaiseFromAppend(t)

(* Mutant of AppendedLines: the file is opened with mode "w".              *)
Overwritten(t) == <<EventLine(t)>>

(* open(path, "a").write: at the end of the file, wherever that is.        *)
AppendedLines(t) == Append(lines, Glue(tail, EventLine(t)))

WriteLine(t) ==
  /\ pc[t] = "write"
  /\ lines' = AppendedLines(t)
  /\ tail' = Empty
  /\ Goto(t, "written")
  /\ UNCHANGED <<exclusive, shared, event, prev, submitted, acked, seen>>

(* What an interrupted write of t's line leaves behind: nothing, a part of *)
(* the JSON text, or all of it without the newline.                        *)
PartialWrite(t) ==
  /\ UNCHANGED lines
  /\ tail' \in {tail, Junk, Glue(tail, EventLine(t))}

(* Mutant of WriteFails: after a failed fsync the append is tried again.   *)
WriteRetried(t) ==
  \/ /\ pc[t] = "write" /\ PartialWrite(t)
     /\ RaiseFromAppend(t)
  \/ /\ pc[t] = "written"
     /\ Goto(t, "chain")
     /\ UNCHANGED <<file, exclusive, shared, event, prev, submitted, acked, seen>>

(* The file system refuses the write (or the fsync after it), and the      *)
(* caller gets the OSError.                                                *)
WriteFails(t) ==
  /\ \/ pc[t] = "write" /\ PartialWrite(t)
     \/ pc[t] = "written" /\ UNCHANGED file
  /\ RaiseFromAppend(t)

(* fsync returned: the lock is released and the caller has its event.      *)
EndAppend(t) ==
  /\ pc[t] = "written"
  /\ exclusive' = exclusive \ {t}
  /\ acked' = acked \cup {event[t]}
  /\ Forget(t)
  /\ UNCHANGED <<file, shared, submitted, seen>>

LockToRead(t) ==
  /\ pc[t] = "idle" /\ MayShare(t)
  /\ shared' = shared \cup {t}
  /\ Goto(t, "read")
  /\ UNCHANGED <<file, exclusive, event, prev, submitted, acked, seen>>

(* read (and query, verify_chain on top of it): every line or an error.    *)
ReadAll(t) ==
  /\ pc[t] = "read"
  /\ shared' = shared \ {t}
  /\ seen' = IF Readable THEN Events(Content) ELSE seen
  /\ Goto(t, "idle")
  /\ UNCHANGED <<file, exclusive, event, prev, submitted, acked>>

(* A process dies: its threads lose their calls, the kernel drops its      *)
(* locks, and a write in progress stays as far as it got.                  *)
Crash(p) ==
  LET dead == {t \in Thread : ProcOf[t] = p}
      busy == {t \in dead : pc[t] # "idle"}
  IN /\ busy # {}
     /\ \/ UNCHANGED file
        \/ \E t \in dead : pc[t] = "write" /\ PartialWrite(t)
     /\ exclusive' = exclusive \ dead
     /\ shared' = shared \ dead
     /\ pc' = [t \in Thread |-> IF t \in dead THEN "idle" ELSE pc[t]]
     /\ event' = [t \in Thread |-> IF t \in dead THEN None ELSE event[t]]
     /\ prev' = [t \in Thread |-> IF t \in dead THEN NoHash ELSE prev[t]]
     /\ UNCHANGED <<submitted, acked, seen>>

Next ==
  \/ \E t \in Thread :
       \/ \E e \in Event : BeginAppend(t, e)
       \/ LockToAppend(t)
       \/ ReadLastEvent(t)
       \/ LastEventUnparsable(t)
       \/ WriteLine(t)
       \/ WriteFails(t)
       \/ EndAppend(t)
       \/ LockToRead(t)
       \/ ReadAll(t)
  \/ \E p \in Process : Crash(p)

Spec == Init /\ [][Next]_vars
-----------------------------------------------------------------------------
Label == {"idle", "lock", "chain", "write", "written", "read"}

(* Every variable has its type (the values of JSONLLedger's fields and     *)
(* locals).                                                                *)
TypeOK ==
  /\ lines \in Seq(Record \cup {Junk})
  /\ tail \in Record \cup {Junk, Empty}
  /\ exclusive \subseteq Thread /\ shared \subseteq Thread
  /\ pc \in [Thread -> Label]
  /\ event \in [Thread -> Event \cup {None}]
  /\ prev \in [Thread -> PrevHash]
  /\ submitted \subseteq Event /\ acked \subseteq Event
  /\ seen \in Seq(Event)

(* ledger.verify_chain never reports a broken chain, whatever the threads  *)
(* interleave and wherever they crash: a ledger that can be read at all    *)
(* has an intact chain.                                                    *)
ChainIntact == Readable => VerifyChain(Content)

(* No acknowledged event disappears unnoticed: while read() succeeds, it   *)
(* returns every event whose append has returned.                          *)
NoSilentLoss ==
  Readable => \A e \in acked : \E i \in 1..Len(Content) : Content[i].event = e

(* What a successful read returns extends what any earlier successful read *)
(* returned: nobody sees the audit trail shrink or change.                 *)
ReadsExtend == [][ /\ Len(seen) <= Len(seen')
                   /\ SubSeq(seen', 1, Len(seen)) = seen ]_seen

(* The log of events this file stands for: the lines before the damage.    *)
GoodLines == IF Readable THEN Len(Content)
             ELSE (CHOOSE i \in 1..Len(Content) :
                     /\ Content[i] = Junk
                     /\ \A j \in 1..(i - 1) : Content[j] # Junk) - 1

Abstract == INSTANCE EventLog
  WITH log <- Events(SubSeq(Content, 1, GoodLines)),
       damaged <- ~Readable

(* JSONLLedger implements the totally ordered log its callers rely on.     *)
ImplementsEventLog == Abstract!LogSpec

=============================================================================
