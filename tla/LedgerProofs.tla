---------------------------- MODULE LedgerProofs ----------------------------
(***************************************************************************)
(* Proofs about the JSONL ledger for any threads, processes, events and    *)
(* hash function: type correctness, the intact chain, that no acknowledged *)
(* event is silently lost, and that the file implements an EventLog.       *)
(***************************************************************************)
EXTENDS Ledger, TLAPS

Critical == {"chain", "write", "written"}

(* The exclusive lock is held by the threads between "chain" and the end   *)
(* of append, at most one at a time.                                       *)
LockInv ==
  /\ \A t \in Thread : t \in exclusive <=> pc[t] \in Critical
  /\ \A t, u \in exclusive : t = u

(* A damaged line is the last thing in the file: append refuses to follow  *)
(* it.                                                                     *)
DamageInv ==
  \A i \in 1..Len(lines) : lines[i] = Junk => i = Len(lines) /\ tail = Empty

Links(r, before) == r.prev = before /\ r.hash = Hash(r.prev, r.event)

(* Every parsable line points to the line before it.                       *)
ChainInv ==
  /\ \A i \in 1..Len(lines) :
       lines[i] # Junk => Links(lines[i], IF i = 1 THEN NoHash ELSE lines[i - 1].hash)
  /\ tail \in Record =>
       Links(tail, IF lines = << >> THEN NoHash ELSE lines[Len(lines)].hash)

(* The hash a writer is about to use is still the hash of the last line.   *)
WriterInv ==
  \A t \in Thread : /\ pc[t] = "write" => LastParses /\ prev[t] = LastHash
                    /\ pc[t] \in Critical \cup {"lock"} => event[t] \in Event

IInv == TypeOK /\ LockInv /\ DamageInv /\ ChainInv /\ WriterInv

-----------------------------------------------------------------------------
(* Chaining an event to a known hash gives a ledger record.                *)
LEMMA ChainedType ==
  ASSUME NEW e \in Event, NEW p \in PrevHash
  PROVE  /\ Chained(e, p) \in Record
         /\ Links(Chained(e, p), p)
         /\ Chained(e, p).event = e
  BY HashAssumption DEF Chained, Record, PrevHash, Links

(* The content of a well-typed file is a sequence of lines.                *)
LEMMA ContentType ==
  ASSUME lines \in Seq(Record \cup {Junk}), tail \in Record \cup {Junk, Empty}
  PROVE  /\ Content \in Seq(Record \cup {Junk})
         /\ tail = Empty => Content = lines
         /\ tail # Empty => /\ Len(Content) = Len(lines) + 1
                            /\ Content[Len(Content)] = tail
                            /\ \A i \in 1..Len(lines) : Content[i] = lines[i]
  BY DEF Content

(* A parsable last line has a hash that fits the prev_hash field.          *)
LEMMA LastHashType == TypeOK /\ LastParses => LastHash \in PrevHash
  <1> SUFFICES ASSUME TypeOK, LastParses PROVE LastHash \in PrevHash
    OBVIOUS
  <1>1. Content \in Seq(Record \cup {Junk})
    BY ContentType DEF TypeOK
  <1>2. CASE Content = << >>
    BY <1>2 DEF LastHash, PrevHash
  <1>3. CASE Content # << >>
    <2>1. Content[Len(Content)] \in Record
      BY <1>1, <1>3 DEF LastParses
    <2> QED BY <2>1, <1>3 DEF LastHash, PrevHash, Record
  <1> QED BY <1>2, <1>3

-----------------------------------------------------------------------------
(* An interrupted write leaves the complete lines as they were.            *)
LEMMA PartialWriteType ==
  ASSUME TypeOK, NEW t \in Thread, event[t] \in Event, PartialWrite(t)
  PROVE  lines' = lines /\ tail' \in Record \cup {Junk, Empty}
  <1>1. EventLine(t) \in Record
    BY ChainedType DEF EventLine, TypeOK
  <1> QED BY <1>1 DEF PartialWrite, Glue, TypeOK

(* Type correctness is preserved by every step.                            *)
LEMMA TypeStep == TypeOK /\ WriterInv /\ [Next]_vars => TypeOK'
  <1> SUFFICES ASSUME TypeOK, WriterInv, [Next]_vars PROVE TypeOK'
    OBVIOUS
  <1> USE DEF Label, Critical, file
  <1>1. ASSUME NEW t \in Thread, NEW e \in Event, BeginAppend(t, e) PROVE TypeOK'
    BY <1>1 DEF TypeOK, BeginAppend, Goto
  <1>2. ASSUME NEW t \in Thread, LockToAppend(t) PROVE TypeOK'
    BY <1>2 DEF TypeOK, LockToAppend, Goto
  <1>3. ASSUME NEW t \in Thread, ReadLastEvent(t) PROVE TypeOK'
    BY <1>3, LastHashType DEF TypeOK, ReadLastEvent, Goto
  <1>4. ASSUME NEW t \in Thread, LastEventUnparsable(t) PROVE TypeOK'
    BY <1>4 DEF TypeOK, LastEventUnparsable, RaiseFromAppend, Forget, Goto, PrevHash
  <1>5. ASSUME NEW t \in Thread, WriteLine(t) PROVE TypeOK'
    <2>1. Glue(tail, EventLine(t)) \in Record \cup {Junk}
      BY <1>5, ChainedType DEF TypeOK, WriterInv, WriteLine, AppendedLines, EventLine, Glue
    <2> QED BY <1>5, <2>1 DEF TypeOK, WriteLine, AppendedLines, Goto
  <1>6. ASSUME NEW t \in Thread, WriteFails(t) PROVE TypeOK'
    <2>1. lines' = lines /\ tail' \in Record \cup {Junk, Empty}
      BY <1>6, PartialWriteType DEF TypeOK, WriteFails, WriterInv
    <2> QED BY <1>6, <2>1 DEF TypeOK, WriteFails, RaiseFromAppend, Forget, Goto, PrevHash
  <1>7. ASSUME NEW t \in Thread, EndAppend(t) PROVE TypeOK'
    BY <1>7 DEF TypeOK, EndAppend, Forget, Goto, WriterInv, PrevHash
  <1>8. ASSUME NEW t \in Thread, LockToRead(t) PROVE TypeOK'
    BY <1>8 DEF TypeOK, LockToRead, Goto
  <1>9. ASSUME NEW t \in Thread, ReadAll(t) PROVE TypeOK'
    <2>1. Readable => Events(Content) \in Seq(Event)
      BY ContentType DEF TypeOK, Readable, Events, Record
    <2> QED BY <1>9, <2>1 DEF TypeOK, ReadAll, Goto
  <1>10. ASSUME NEW p \in Process, Crash(p) PROVE TypeOK'
    <2>1. lines' = lines /\ tail' \in Record \cup {Junk, Empty}
      BY <1>10, PartialWriteType DEF TypeOK, Crash, WriterInv
    <2> QED BY <1>10, <2>1 DEF TypeOK, Crash, PrevHash
  <1>11. CASE UNCHANGED vars
    BY <1>11 DEF TypeOK, vars
  <1> QED BY <1>1, <1>2, <1>3, <1>4, <1>5, <1>6, <1>7, <1>8, <1>9, <1>10, <1>11 DEF Next

-----------------------------------------------------------------------------
(* Mutual exclusion of the writers is preserved: the lock is free when it  *)
(* is taken, and it is released with the call that held it.                *)
LEMMA LockStep == TypeOK /\ LockInv /\ [Next]_vars => LockInv'
  <1> SUFFICES ASSUME TypeOK, LockInv, [Next]_vars PROVE LockInv'
    OBVIOUS
  <1> USE DEF LockInv, Critical, TypeOK, Goto
  <1>1. ASSUME NEW t \in Thread, NEW e \in Event, BeginAppend(t, e) PROVE LockInv'
    BY <1>1 DEF BeginAppend
  <1>2. ASSUME NEW t \in Thread, LockToAppend(t) PROVE LockInv'
    BY <1>2 DEF LockToAppend, MayExclude
  <1>3. ASSUME NEW t \in Thread, ReadLastEvent(t) PROVE LockInv'
    BY <1>3 DEF ReadLastEvent
  <1>4. ASSUME NEW t \in Thread, LastEventUnparsable(t) PROVE LockInv'
    BY <1>4 DEF LastEventUnparsable, RaiseFromAppend, Forget
  <1>5. ASSUME NEW t \in Thread, WriteLine(t) PROVE LockInv'
    BY <1>5 DEF WriteLine, AppendedLines
  <1>6. ASSUME NEW t \in Thread, WriteFails(t) PROVE LockInv'
    BY <1>6 DEF WriteFails, RaiseFromAppend, Forget
  <1>7. ASSUME NEW t \in Thread, EndAppend(t) PROVE LockInv'
    BY <1>7 DEF EndAppend, Forget
  <1>8. ASSUME NEW t \in Thread, LockToRead(t) PROVE LockInv'
    BY <1>8 DEF LockToRead
  <1>9. ASSUME NEW t \in Thread, ReadAll(t) PROVE LockInv'
    BY <1>9 DEF ReadAll
  <1>10. ASSUME NEW p \in Process, Crash(p) PROVE LockInv'
    BY <1>10 DEF Crash
  <1>11. CASE UNCHANGED vars
    BY <1>11 DEF vars
  <1> QED BY <1>1, <1>2, <1>3, <1>4, <1>5, <1>6, <1>7, <1>8, <1>9, <1>10, <1>11 DEF Next

(* The file changes only by a whole or a partial write of the thread that  *)
(* is about to write.                                                      *)
LEMMA FileStep ==
  ASSUME [Next]_vars
  PROVE  \/ UNCHANGED file
         \/ \E t \in Thread : WriteLine(t)
         \/ \E t \in Thread : pc[t] = "write" /\ PartialWrite(t)
  <1> USE DEF file
  <1>1. ASSUME NEW t \in Thread, WriteFails(t)
        PROVE  UNCHANGED file \/ (pc[t] = "write" /\ PartialWrite(t))
    BY <1>1 DEF WriteFails
  <1>2. ASSUME NEW p \in Process, Crash(p)
        PROVE  UNCHANGED file \/ \E t \in Thread : pc[t] = "write" /\ PartialWrite(t)
    BY <1>2 DEF Crash
  <1>3. ASSUME NEW t \in Thread,
               \/ \E e \in Event : BeginAppend(t, e)
               \/ LockToAppend(t) \/ ReadLastEvent(t) \/ LastEventUnparsable(t)
               \/ EndAppend(t) \/ LockToRead(t) \/ ReadAll(t)
        PROVE  UNCHANGED file
    BY <1>3 DEF BeginAppend, LockToAppend, ReadLastEvent, LastEventUnparsable,
                EndAppend, LockToRead, ReadAll
  <1>4. CASE UNCHANGED vars
    BY <1>4 DEF vars
  <1> QED BY <1>1, <1>2, <1>3, <1>4 DEF Next

(* A line that is written after a parsable last line continues the chain.  *)
LEMMA EventLineLinks ==
  ASSUME TypeOK, WriterInv, NEW t \in Thread, pc[t] = "write"
  PROVE  /\ EventLine(t) \in Record
         /\ Links(EventLine(t), LastHash)
         /\ EventLine(t).event = event[t]
         /\ LastParses
  BY ChainedType DEF EventLine, WriterInv, TypeOK, Critical

(* Damage stays at the end of the file.                                    *)
LEMMA DamageStep == IInv /\ [Next]_vars => DamageInv'
  <1> SUFFICES ASSUME IInv, [Next]_vars PROVE DamageInv'
    OBVIOUS
  <1> USE DEF IInv, TypeOK, DamageInv, file
  <1>1. CASE UNCHANGED file
    BY <1>1
  <1>2. ASSUME NEW t \in Thread, WriteLine(t) PROVE DamageInv'
    <2>1. LastParses /\ tail # Junk
      BY <1>2, EventLineLinks, ContentType, MarkerAssumption DEF WriteLine, AppendedLines, LastParses
    <2>2. \A i \in 1..Len(lines) : lines[i] # Junk
      BY <2>1, ContentType DEF LastParses
    <2> QED BY <1>2, <2>2 DEF WriteLine, AppendedLines
  <1>3. ASSUME NEW t \in Thread, pc[t] = "write", PartialWrite(t) PROVE DamageInv'
    <2>1. LastParses
      BY <1>3, EventLineLinks
    <2>2. \A i \in 1..Len(lines) : lines[i] # Junk
      BY <2>1, ContentType, MarkerAssumption DEF LastParses
    <2> QED BY <1>3, <2>2 DEF PartialWrite
  <1> QED BY <1>1, <1>2, <1>3, FileStep

(* Every parsable line keeps pointing to the line before it.               *)
LEMMA ChainStep == IInv /\ [Next]_vars => ChainInv'
  <1> SUFFICES ASSUME IInv, [Next]_vars PROVE ChainInv'
    OBVIOUS
  <1> USE DEF IInv, TypeOK, ChainInv, file
  <1>1. CASE UNCHANGED file
    BY <1>1
  <1>2. ASSUME NEW t \in Thread, pc[t] = "write"
        PROVE  tail = Empty =>
                 Links(EventLine(t), IF lines = << >> THEN NoHash ELSE lines[Len(lines)].hash)
    BY <1>2, EventLineLinks, ContentType DEF LastHash
  <1>3. ASSUME NEW t \in Thread, WriteLine(t) PROVE ChainInv'
    <2>1. EventLine(t) \in Record
      BY <1>3, EventLineLinks DEF WriteLine, AppendedLines
    <2>2. tail' = Empty
      BY <1>3 DEF WriteLine, AppendedLines
    <2>3. CASE tail = Empty
      <3>1. lines' = Append(lines, EventLine(t))
        BY <1>3, <2>3 DEF WriteLine, AppendedLines, Glue
      <3>2. Links(EventLine(t), IF lines = << >> THEN NoHash ELSE lines[Len(lines)].hash)
        BY <1>2, <1>3, <2>3 DEF WriteLine, AppendedLines
      <3> QED BY <2>1, <2>2, <3>1, <3>2, RecordAssumption
    <2>4. CASE tail # Empty
      <3>1. lines' = Append(lines, Junk)
        BY <1>3, <2>4 DEF WriteLine, AppendedLines, Glue
      <3> QED BY <2>2, <3>1, RecordAssumption
    <2> QED BY <2>3, <2>4
  <1>4. ASSUME NEW t \in Thread, pc[t] = "write", PartialWrite(t) PROVE ChainInv'
    <2>1. EventLine(t) \in Record
      BY <1>4, EventLineLinks
    <2> QED BY <1>2, <1>4, <2>1, RecordAssumption DEF PartialWrite, Glue
  <1> QED BY <1>1, <1>3, <1>4, FileStep

(* While a writer holds a hash, nobody else changes the file.              *)
LEMMA WriterStep == IInv /\ [Next]_vars => WriterInv'
  <1> SUFFICES ASSUME IInv, [Next]_vars PROVE WriterInv'
    OBVIOUS
  <1> USE DEF IInv, TypeOK, LockInv, WriterInv, Critical, Goto
  <1>0. file' = file => LastHash' = LastHash /\ LastParses' = LastParses
    BY DEF file, LastHash, LastParses, Content
  <1>1. ASSUME NEW t \in Thread, NEW e \in Event, BeginAppend(t, e) PROVE WriterInv'
    BY <1>1, <1>0 DEF BeginAppend
  <1>2. ASSUME NEW t \in Thread, LockToAppend(t) PROVE WriterInv'
    BY <1>2, <1>0 DEF LockToAppend
  <1>3. ASSUME NEW t \in Thread, ReadLastEvent(t) PROVE WriterInv'
    BY <1>3, <1>0 DEF ReadLastEvent
  <1>4. ASSUME NEW t \in Thread, LastEventUnparsable(t) PROVE WriterInv'
    BY <1>4, <1>0 DEF LastEventUnparsable, RaiseFromAppend, Forget
  <1>5. ASSUME NEW t \in Thread, WriteLine(t) PROVE WriterInv'
    BY <1>5 DEF WriteLine, AppendedLines
  <1>6. ASSUME NEW t \in Thread, WriteFails(t) PROVE WriterInv'
    BY <1>6 DEF WriteFails, RaiseFromAppend, Forget
  <1>7. ASSUME NEW t \in Thread, EndAppend(t) PROVE WriterInv'
    BY <1>7, <1>0 DEF EndAppend, Forget
  <1>8. ASSUME NEW t \in Thread, LockToRead(t) PROVE WriterInv'
    BY <1>8, <1>0 DEF LockToRead
  <1>9. ASSUME NEW t \in Thread, ReadAll(t) PROVE WriterInv'
    BY <1>9, <1>0 DEF ReadAll
  <1>10. ASSUME NEW p \in Process, Crash(p) PROVE WriterInv'
    BY <1>10, <1>0 DEF Crash
  <1>11. CASE UNCHANGED vars
    BY <1>11, <1>0 DEF vars, file
  <1> QED BY <1>1, <1>2, <1>3, <1>4, <1>5, <1>6, <1>7, <1>8, <1>9, <1>10, <1>11 DEF Next

-----------------------------------------------------------------------------
(* The empty ledger satisfies the invariant ...                            *)
LEMMA InitIInv == Init => IInv
  BY MarkerAssumption, RecordAssumption DEF Init, IInv, TypeOK, LockInv, DamageInv, ChainInv,
     WriterInv, Critical, Label, PrevHash

(* ... and every step of every thread, and every crash, keeps it.          *)
THEOREM Invariance == Spec => []IInv
  <1>1. IInv /\ [Next]_vars => IInv'
    BY TypeStep, LockStep, DamageStep, ChainStep, WriterStep DEF IInv
  <1> QED BY InitIInv, <1>1, PTL DEF Spec

(* The ledger's variables always have their types.                         *)
THEOREM TypeCorrect == Spec => []TypeOK
  <1>1. IInv => TypeOK
    BY DEF IInv
  <1> QED BY Invariance, <1>1, PTL

(* Whatever the threads, processes, crashes and failed writes: a ledger    *)
(* that can be read has an intact hash chain.                              *)
THEOREM ChainAlwaysIntact == Spec => []ChainIntact
  <1>1. IInv => ChainIntact
    <2> SUFFICES ASSUME IInv, Readable, NEW i \in 1..Len(Content)
                 PROVE  Links(Content[i], IF i = 1 THEN NoHash ELSE Content[i - 1].hash)
      BY DEF ChainIntact, VerifyChain, Links
    <2> USE DEF IInv, TypeOK, ChainInv
    <2>1. Content[i] # Junk
      BY DEF Readable
    <2>2. CASE tail = Empty
      BY <2>1, <2>2, ContentType
    <2>3. CASE tail # Empty
      <3>1. CASE i = Len(Content)
        BY <2>1, <2>3, <3>1, ContentType
      <3>2. CASE i # Len(Content)
        <4>1. /\ i \in 1..Len(lines) /\ Content[i] = lines[i]
              /\ i # 1 => Content[i - 1] = lines[i - 1]
          BY <2>3, <3>2, ContentType
        <4> QED BY <2>1, <4>1
      <3> QED BY <3>1, <3>2
    <2> QED BY <2>2, <2>3
  <1> QED BY Invariance, <1>1, PTL

-----------------------------------------------------------------------------
(* A step that leaves the ledger readable found it readable, and only adds *)
(* lines at its end.                                                       *)
LEMMA ContentGrows ==
  ASSUME IInv, [Next]_vars, Readable'
  PROVE  /\ Readable
         /\ Len(Content) <= Len(Content')
         /\ \A i \in 1..Len(Content) : Content'[i] = Content[i]
  <1> USE DEF IInv, TypeOK, file
  <1>1. CASE UNCHANGED file
    BY <1>1, ContentType DEF Content, Readable
  <1>2. ASSUME NEW t \in Thread, WriteLine(t)
        PROVE  Content' = Append(Content, EventLine(t))
    <2>1. Content' = lines' /\ lines' = Append(lines, Glue(tail, EventLine(t)))
      BY <1>2 DEF WriteLine, AppendedLines, Content
    <2>2. tail = Empty
      <3> SUFFICES ASSUME tail # Empty PROVE FALSE
        OBVIOUS
      <3>1. Content'[Len(lines) + 1] = Junk /\ Len(Content') = Len(lines) + 1
        BY <2>1 DEF Glue
      <3> QED BY <3>1 DEF Readable
    <2> QED BY <2>1, <2>2 DEF Glue, Content
  <1>3. ASSUME NEW t \in Thread, pc[t] = "write", PartialWrite(t)
        PROVE  Content' = Content \/ Content' = Append(Content, EventLine(t))
    <2>1. tail' # Junk
      <3> SUFFICES ASSUME tail' = Junk PROVE FALSE
        OBVIOUS
      <3>1. Content' = Append(lines, Junk)
        BY <1>3, MarkerAssumption DEF Content, PartialWrite
      <3> QED BY <3>1 DEF Readable
    <2>2. CASE tail' = tail
      BY <1>3, <2>2 DEF Content, PartialWrite
    <2>3. CASE tail = Empty /\ tail' = EventLine(t)
      <3>1. tail' # Empty
        BY <1>3, <2>3, EventLineLinks, RecordAssumption
      <3> QED BY <1>3, <2>3, <3>1 DEF Content, PartialWrite
    <2> QED BY <1>3, <2>1, <2>2, <2>3 DEF PartialWrite, Glue
  <1>4. ASSUME NEW t \in Thread, Content' = Append(Content, EventLine(t))
        PROVE  /\ Readable
               /\ Len(Content) <= Len(Content')
               /\ \A i \in 1..Len(Content) : Content'[i] = Content[i]
    BY <1>4, ContentType DEF Readable
  <1>5. CASE Content' = Content
    BY <1>5, ContentType DEF Readable
  <1> QED BY <1>1, <1>2, <1>3, <1>4, <1>5, FileStep

(* Events whose line is in the file although append has not returned yet   *)
(* count as well: only so is the property inductive.                       *)
Written == acked \cup {event[t] : t \in {u \in Thread : pc[u] = "written"}}

InContent(e) == \E i \in 1..Len(Content) : Content[i].event = e

DurableInv == Readable => \A e \in Written : InContent(e)

(* A line once written stays in a ledger that can still be read.           *)
LEMMA DurableStep == IInv /\ DurableInv /\ [Next]_vars => DurableInv'
  <1> SUFFICES ASSUME IInv, DurableInv, [Next]_vars, Readable', NEW e \in Written'
               PROVE  InContent(e)'
    BY DEF DurableInv
  <1>1. ASSUME e \in Written PROVE InContent(e)'
    <2>1. PICK i \in 1..Len(Content) : Content[i].event = e
      BY <1>1, ContentGrows DEF DurableInv, InContent
    <2>2. i \in 1..Len(Content)' /\ Content'[i].event = e
      BY <2>1, ContentGrows, ContentType DEF IInv, TypeOK
    <2> QED BY <2>2 DEF InContent
  <1>2. ASSUME NEW t \in Thread, WriteLine(t), e = event[t] PROVE InContent(e)'
    <2>1. lines' = Append(lines, Glue(tail, EventLine(t))) /\ Content' = lines'
      BY <1>2 DEF WriteLine, AppendedLines, Content
    <2>2. Content'[Len(lines) + 1] = Glue(tail, EventLine(t)) /\ Len(Content)' = Len(lines) + 1
      BY <2>1 DEF IInv, TypeOK
    <2>3. Glue(tail, EventLine(t)) = EventLine(t)
      BY <2>2 DEF Readable, Glue, IInv, TypeOK
    <2>4. EventLine(t).event = e
      BY <1>2, EventLineLinks DEF IInv, WriteLine, AppendedLines
    <2> QED BY <2>2, <2>3, <2>4 DEF InContent, IInv, TypeOK
  <1>3. e \in Written \/ \E t \in Thread : WriteLine(t) /\ e = event[t]
    <2> USE DEF Written, IInv, TypeOK, Goto
    <2>1. ASSUME NEW t \in Thread, NEW x \in Event, BeginAppend(t, x) PROVE e \in Written
      BY <2>1 DEF BeginAppend
    <2>2. ASSUME NEW t \in Thread, LockToAppend(t) PROVE e \in Written
      BY <2>2 DEF LockToAppend
    <2>3. ASSUME NEW t \in Thread, ReadLastEvent(t) PROVE e \in Written
      BY <2>3 DEF ReadLastEvent
    <2>4. ASSUME NEW t \in Thread, LastEventUnparsable(t) PROVE e \in Written
      BY <2>4 DEF LastEventUnparsable, RaiseFromAppend, Forget
    <2>5. ASSUME NEW t \in Thread, WriteLine(t) PROVE e \in Written \/ e = event[t]
      BY <2>5 DEF WriteLine, AppendedLines
    <2>6. ASSUME NEW t \in Thread, WriteFails(t) PROVE e \in Written
      BY <2>6 DEF WriteFails, RaiseFromAppend, Forget
    <2>7. ASSUME NEW t \in Thread, EndAppend(t) PROVE e \in Written
      BY <2>7 DEF EndAppend, Forget
    <2>8. ASSUME NEW t \in Thread, LockToRead(t) PROVE e \in Written
      BY <2>8 DEF LockToRead
    <2>9. ASSUME NEW t \in Thread, ReadAll(t) PROVE e \in Written
      BY <2>9 DEF ReadAll
    <2>10. ASSUME NEW p \in Process, Crash(p) PROVE e \in Written
      BY <2>10 DEF Crash
    <2>11. CASE UNCHANGED vars
      BY <2>11 DEF vars
    <2> QED BY <2>1, <2>2, <2>3, <2>4, <2>5, <2>6, <2>7, <2>8, <2>9, <2>10, <2>11 DEF Next
  <1> QED BY <1>1, <1>2, <1>3

(* An acknowledged event is in every successful read of the ledger: events *)
(* are lost only together with the readability of the whole file.          *)
THEOREM NeverSilentlyLost == Spec => []NoSilentLoss
  <1>1. Init => DurableInv
    BY DEF Init, DurableInv, Written
  <1>2. DurableInv => NoSilentLoss
    BY DEF DurableInv, Written, InContent, NoSilentLoss
  <1> QED BY Invariance, DurableStep, <1>1, <1>2, PTL DEF Spec

-----------------------------------------------------------------------------
IsPrefixOf(s, u) == Len(s) <= Len(u) /\ SubSeq(u, 1, Len(s)) = s

SeenInv == Readable => /\ Len(seen) <= Len(Content)
                       /\ \A i \in 1..Len(seen) : seen[i] = Content[i].event

(* Only a read changes what readers have seen, and it shows the content.   *)
LEMMA SeenStep ==
  ASSUME [Next]_vars
  PROVE  seen' = seen \/ (UNCHANGED file /\ Readable /\ seen' = Events(Content))
  BY DEF Next, vars, file, BeginAppend, LockToAppend, ReadLastEvent, LastEventUnparsable,
         RaiseFromAppend, Forget, WriteLine, AppendedLines, WriteFails, EndAppend, LockToRead, ReadAll, Crash

(* What was read stays a prefix of what can be read.                       *)
LEMMA SeenPreserved == IInv /\ SeenInv /\ [Next]_vars => SeenInv'
  <1> SUFFICES ASSUME IInv, SeenInv, [Next]_vars, Readable'
               PROVE  /\ Len(seen') <= Len(Content')
                      /\ \A i \in 1..Len(seen') : seen'[i] = Content'[i].event
    BY DEF SeenInv
  <1> USE DEF IInv, TypeOK
  <1>1. CASE seen' = seen
    <2>1. /\ Readable /\ Len(Content) <= Len(Content')
          /\ \A i \in 1..Len(Content) : Content'[i] = Content[i]
      BY ContentGrows
    <2>2. Len(Content) \in Nat /\ Len(Content') \in Nat /\ Len(seen) \in Nat
      BY ContentType
    <2>3. /\ Len(seen) <= Len(Content)
          /\ \A i \in 1..Len(seen) : seen[i] = Content[i].event
      BY <2>1 DEF SeenInv
    <2> QED BY <1>1, <2>1, <2>2, <2>3
  <1>2. CASE UNCHANGED file /\ seen' = Events(Content)
    <2>1. Content' = Content
      BY <1>2 DEF file, Content
    <2> QED BY <1>2, <2>1, ContentType DEF Events
  <1> QED BY <1>1, <1>2, SeenStep

(* No reader ever sees an audit trail that contradicts an earlier one.     *)
THEOREM ReadsAlwaysExtend == Spec => ReadsExtend
  <1>1. Init => SeenInv
    BY DEF Init, SeenInv
  <1>2. IInv /\ SeenInv /\ [Next]_vars
          => [Len(seen) <= Len(seen') /\ SubSeq(seen', 1, Len(seen)) = seen]_seen
    <2> SUFFICES ASSUME IInv, SeenInv, Readable, seen' = Events(Content)
                 PROVE  Len(seen) <= Len(seen') /\ SubSeq(seen', 1, Len(seen)) = seen
      BY SeenStep
    <2>1. seen' \in Seq(Event) /\ Len(seen) <= Len(seen')
      BY ContentType DEF SeenInv, Events, IInv, TypeOK, Readable, Record
    <2>2. \A i \in 1..Len(seen) : seen'[i] = seen[i]
      BY ContentType DEF SeenInv, Events, IInv, TypeOK
    <2> QED BY <2>1, <2>2 DEF IInv, TypeOK
  <1> QED BY Invariance, SeenPreserved, <1>1, <1>2, PTL DEF Spec, ReadsExtend

-----------------------------------------------------------------------------
(* The refinement: the log of events is the part of the file before its    *)
(* damage.  An event is only ever written once, which takes an invariant   *)
(* of its own: what is on its way to the file is not in it yet.            *)
Unwritten == {"lock", "chain", "write"}

Logged(e) == \E i \in 1..Len(Content) : Content[i] # Junk /\ Content[i].event = e

FreshInv ==
  /\ \A e \in Event : Logged(e) => e \in submitted
  /\ \A t \in Thread : pc[t] \in Unwritten => event[t] \in submitted /\ ~Logged(event[t])
  /\ \A t, u \in Thread :
       pc[t] \in Unwritten /\ pc[u] \in Unwritten /\ event[t] = event[u] => t = u

(* Chaining takes the event of the line from the writer: a write, whole or *)
(* partial, adds at most that event to the file.                           *)
LEMMA WriteLogs ==
  ASSUME IInv, NEW t \in Thread, pc[t] = "write",
         WriteLine(t) \/ PartialWrite(t), NEW e \in Event, Logged(e)'
  PROVE  Logged(e) \/ e = event[t]
  <1> USE DEF IInv, TypeOK
  <1>1. EventLine(t) \in Record /\ EventLine(t).event = event[t]
    BY EventLineLinks
  <1>2. PICK i \in 1..Len(Content') : Content'[i] # Junk /\ Content'[i].event = e
    BY DEF Logged
  <1>3. \/ Content' = Content
        \/ \E r \in {Junk, tail, EventLine(t)} : Content' = Append(lines, r) /\ r # Empty
    BY <1>1, RecordAssumption, MarkerAssumption
       DEF Content, WriteLine, AppendedLines, PartialWrite, Glue
  <1>4. CASE Content' = Content
    BY <1>2, <1>4 DEF Logged
  <1>5. ASSUME NEW r \in {Junk, tail, EventLine(t)}, Content' = Append(lines, r), r # Empty
        PROVE  Logged(e) \/ e = event[t]
    <2>1. CASE i \in 1..Len(lines)
      <3>1. Content'[i] = lines[i]
        BY <1>5, <2>1
      <3>2. i \in 1..Len(Content) /\ Content[i] = lines[i]
        BY <2>1, ContentType
      <3> QED BY <1>2, <3>1, <3>2 DEF Logged
    <2>2. CASE i \notin 1..Len(lines)
      <3>1. Content'[i] = r
        BY <1>2, <1>5, <2>2
      <3>2. CASE r = EventLine(t)
        BY <1>1, <1>2, <3>1, <3>2
      <3>3. CASE r = tail
        <4>1. tail # Empty /\ tail # Junk /\ tail.event = e
          BY <1>2, <1>5, <3>1, <3>3
        <4>2. Len(Content) \in 1..Len(Content) /\ Content[Len(Content)] = tail
          BY <4>1, ContentType
        <4> QED BY <4>1, <4>2 DEF Logged
      <3> QED BY <1>2, <1>5, <3>1, <3>2, <3>3
    <2> QED BY <2>1, <2>2
  <1> QED BY <1>3, <1>4, <1>5

(* A file that does not change holds the same events.                      *)
LEMMA SameFileLogs == UNCHANGED file => \A e : Logged(e)' = Logged(e)
  BY DEF file, Logged, Content

(* Every step keeps the events on their way apart from those in the file.  *)
LEMMA FreshStep == IInv /\ FreshInv /\ [Next]_vars => FreshInv'
  <1> SUFFICES ASSUME IInv, FreshInv, [Next]_vars PROVE FreshInv'
    OBVIOUS
  <1> USE DEF FreshInv, IInv, TypeOK, Unwritten, Goto, file
  <1>a. \A t \in Thread : pc[t] \in Unwritten \cup {"written"} => event[t] \in Event
    BY DEF WriterInv, Critical
  <1>b. ASSUME NEW t \in Thread, pc[t] = "write", WriteLine(t) \/ PartialWrite(t)
        PROVE  \A e \in Event : Logged(e)' => Logged(e) \/ e = event[t]
    BY <1>b, WriteLogs
  <1>1. ASSUME NEW t \in Thread, NEW e \in Event, BeginAppend(t, e) PROVE FreshInv'
    BY <1>1, <1>a, SameFileLogs DEF BeginAppend
  <1>2. ASSUME NEW t \in Thread, LockToAppend(t) PROVE FreshInv'
    BY <1>2, <1>a, SameFileLogs DEF LockToAppend
  <1>3. ASSUME NEW t \in Thread, ReadLastEvent(t) PROVE FreshInv'
    BY <1>3, <1>a, SameFileLogs DEF ReadLastEvent
  <1>4. ASSUME NEW t \in Thread, LastEventUnparsable(t) PROVE FreshInv'
    BY <1>4, <1>a, SameFileLogs DEF LastEventUnparsable, RaiseFromAppend, Forget
  <1>5. ASSUME NEW t \in Thread, WriteLine(t) PROVE FreshInv'
    <2>1. \A e \in Event : Logged(e)' => Logged(e) \/ e = event[t]
      BY <1>5, <1>b DEF WriteLine
    <2> QED BY <1>5, <1>a, <2>1 DEF WriteLine
  <1>6. ASSUME NEW t \in Thread, WriteFails(t) PROVE FreshInv'
    <2>1. CASE UNCHANGED file
      BY <1>6, <1>a, <2>1, SameFileLogs DEF WriteFails, RaiseFromAppend, Forget
    <2>2. CASE pc[t] = "write" /\ PartialWrite(t)
      <3>1. \A e \in Event : Logged(e)' => Logged(e) \/ e = event[t]
        BY <2>2, <1>b
      <3> QED BY <1>6, <1>a, <2>2, <3>1 DEF WriteFails, RaiseFromAppend, Forget
    <2> QED BY <1>6, <2>1, <2>2 DEF WriteFails
  <1>7. ASSUME NEW t \in Thread, EndAppend(t) PROVE FreshInv'
    BY <1>7, <1>a, SameFileLogs DEF EndAppend, Forget
  <1>8. ASSUME NEW t \in Thread, LockToRead(t) PROVE FreshInv'
    BY <1>8, <1>a, SameFileLogs DEF LockToRead
  <1>9. ASSUME NEW t \in Thread, ReadAll(t) PROVE FreshInv'
    BY <1>9, <1>a, SameFileLogs DEF ReadAll
  <1>10. ASSUME NEW p \in Process, Crash(p) PROVE FreshInv'
    <2>1. CASE UNCHANGED file
      BY <1>10, <1>a, <2>1, SameFileLogs DEF Crash
    <2>2. ASSUME NEW t \in Thread, ProcOf[t] = p, pc[t] = "write", PartialWrite(t)
          PROVE  FreshInv'
      <3>1. \A e \in Event : Logged(e)' => Logged(e) \/ e = event[t]
        BY <2>2, <1>b
      <3> QED BY <1>10, <1>a, <2>2, <3>1 DEF Crash
    <2> QED BY <1>10, <2>1, <2>2 DEF Crash
  <1>11. CASE UNCHANGED vars
    BY <1>11, <1>a, SameFileLogs DEF vars
  <1> QED BY <1>1, <1>2, <1>3, <1>4, <1>5, <1>6, <1>7, <1>8, <1>9, <1>10, <1>11 DEF Next

(* No event waits for two appends, or is appended when it is in the file.  *)
LEMMA AlwaysFresh == Spec => []FreshInv
  <1>1. Init => FreshInv
    BY DEF Init, FreshInv, Unwritten, Logged, Content
  <1> QED BY Invariance, FreshStep, <1>1, PTL DEF Spec

-----------------------------------------------------------------------------
(* Events reads off the events of parsable lines, one for each.            *)
LEMMA EventsType ==
  ASSUME NEW s \in Seq(Record)
  PROVE  /\ Events(s) \in Seq(Event)
         /\ Len(Events(s)) = Len(s)
         /\ \A i \in 1..Len(s) : Events(s)[i] = s[i].event
  <1>1. \A i \in 1..Len(s) : s[i].event \in Event
    <2>1. \A r \in Record : r.event \in Event
      BY DEF Record
    <2> QED BY <2>1
  <1>2. Events(s) \in [1..Len(s) -> Event] /\ Len(s) \in Nat
    BY <1>1 DEF Events
  <1>3. \A i \in 1..Len(s) : Events(s)[i] = s[i].event
    BY DEF Events
  <1>4. Events(s) \in Seq(Event)
    BY <1>2
  <1>5. DOMAIN Events(s) = 1..Len(s)
    BY <1>2
  <1> QED BY <1>2, <1>3, <1>4, <1>5

(* A line more is an event more.                                           *)
LEMMA EventsAppend ==
  ASSUME NEW s \in Seq(Record), NEW r \in Record
  PROVE  Events(Append(s, r)) = Append(Events(s), r.event)
  <1>1. Append(s, r) \in Seq(Record) /\ r.event \in Event
    BY DEF Record
  <1>2. /\ Len(Append(s, r)) = Len(s) + 1 /\ Append(s, r)[Len(s) + 1] = r
        /\ \A i \in 1..Len(s) : Append(s, r)[i] = s[i]
    OBVIOUS
  <1>3. /\ Events(s) \in Seq(Event) /\ Len(Events(s)) = Len(s)
        /\ \A i \in 1..Len(s) : Events(s)[i] = s[i].event
    BY EventsType
  <1>4. /\ Events(Append(s, r)) \in Seq(Event) /\ Len(Events(Append(s, r))) = Len(s) + 1
        /\ \A i \in 1..Len(s) + 1 : Events(Append(s, r))[i] = Append(s, r)[i].event
    BY <1>1, <1>2, EventsType
  <1>5. /\ Append(Events(s), r.event) \in Seq(Event)
        /\ Len(Append(Events(s), r.event)) = Len(s) + 1
        /\ \A i \in 1..Len(s) : Append(Events(s), r.event)[i] = s[i].event
        /\ Append(Events(s), r.event)[Len(s) + 1] = r.event
    BY <1>1, <1>3
  <1>6. \A i \in 1..Len(s) + 1 : Events(Append(s, r))[i] = Append(Events(s), r.event)[i]
    BY <1>2, <1>4, <1>5
  <1> HIDE DEF Events
  <1> QED BY <1>4, <1>5, <1>6

FirstJunk(c) ==
  CHOOSE i \in 1..Len(c) : c[i] = Junk /\ \A j \in 1..(i - 1) : c[j] # Junk

(* Where one damaged line ends a file, it is the first one.                *)
LEMMA JunkLast ==
  ASSUME NEW s \in Seq(Record), NEW c, c = Append(s, Junk)
  PROVE  FirstJunk(c) = Len(s) + 1 /\ SubSeq(c, 1, FirstJunk(c) - 1) = s
  <1>1. /\ c \in Seq(Record \cup {Junk})
        /\ Len(c) = Len(s) + 1 /\ c[Len(s) + 1] = Junk
        /\ \A j \in 1..Len(s) : c[j] = s[j] /\ c[j] # Junk
    BY RecordAssumption
  <1>2. Len(s) + 1 \in 1..Len(c) /\ \A j \in 1..(Len(s) + 1 - 1) : c[j] # Junk
    BY <1>1
  <1>3. \A i \in 1..Len(c) :
          c[i] = Junk /\ (\A j \in 1..(i - 1) : c[j] # Junk) => i = Len(s) + 1
    BY <1>1
  <1>4. FirstJunk(c) = Len(s) + 1
    BY <1>1, <1>2, <1>3 DEF FirstJunk
  <1>5. Len(SubSeq(c, 1, Len(s))) = Len(s) /\ \A j \in 1..Len(s) : SubSeq(c, 1, Len(s))[j] = s[j]
    BY <1>1
  <1>6. SubSeq(c, 1, Len(s)) = s
    BY <1>1, <1>5
  <1> QED BY <1>4, <1>6

LogOfFile == Events(SubSeq(Content, 1, GoodLines))

(* A readable file stands for all its events ...                           *)
LEMMA ReadableLog ==
  ASSUME Content \in Seq(Record \cup {Junk}), Readable
  PROVE  Content \in Seq(Record) /\ LogOfFile = Events(Content)
  <1>1. Content \in Seq(Record)
    BY DEF Readable
  <1>2. GoodLines = Len(Content) /\ SubSeq(Content, 1, Len(Content)) = Content
    BY DEF GoodLines
  <1> QED BY <1>1, <1>2 DEF LogOfFile

(* ... and before a write begins, the file is readable: a damaged file has *)
(* a damaged last line, and append refuses to follow it.                   *)
LEMMA WriterReads ==
  ASSUME IInv, NEW t \in Thread, pc[t] = "write"
  PROVE  /\ Readable
         /\ \A i \in 1..Len(lines) : lines[i] # Junk
         /\ lines \in Seq(Record) /\ tail \in Record \cup {Empty}
  <1> USE DEF IInv, TypeOK
  <1>1. LastParses
    BY EventLineLinks
  <1>2. CASE tail = Empty
    <2>1. \A i \in 1..Len(lines) : lines[i] # Junk
      BY <1>1, <1>2, ContentType DEF LastParses, DamageInv
    <2> QED BY <1>2, <2>1, ContentType DEF Readable
  <1>3. CASE tail # Empty
    <2>1. (\A i \in 1..Len(lines) : lines[i] # Junk) /\ tail # Junk
      BY <1>1, <1>3, ContentType DEF LastParses, DamageInv
    <2>2. /\ Len(Content) = Len(lines) + 1 /\ Content[Len(lines) + 1] = tail
          /\ \A i \in 1..Len(lines) : Content[i] = lines[i]
      BY <1>3, ContentType
    <2>3. Readable
      BY <2>1, <2>2 DEF Readable
    <2>4. lines \in Seq(Record)
      BY <2>1
    <2> QED BY <2>1, <2>3, <2>4
  <1> QED BY <1>2, <1>3

(* A write, whole or partial, does one of four things to the content.      *)
LEMMA WriteEffect ==
  ASSUME IInv, NEW t \in Thread, pc[t] = "write", WriteLine(t) \/ PartialWrite(t)
  PROVE  \/ Content' = Content
         \/ Content' = Append(Content, EventLine(t))
         \/ Content' = Append(Content, Junk)
         \/ tail # Empty /\ Content' = Append(lines, Junk)
  <1> USE DEF IInv, TypeOK
  <1>1. EventLine(t) \in Record
    BY EventLineLinks
  <1>2. CASE WriteLine(t)
    BY <1>2 DEF WriteLine, AppendedLines, Glue, Content
  <1>3. CASE PartialWrite(t)
    BY <1>1, <1>3, RecordAssumption, MarkerAssumption DEF PartialWrite, Glue, Content
  <1> QED BY <1>2, <1>3

(* A step of the ledger is a step of the abstract log or leaves it alone:  *)
(* a whole line is an event, an interrupted one is damage.                 *)
LEMMA LogStep == IInv /\ FreshInv /\ [Next]_vars => [Abstract!LogNext]_(Abstract!logVars)
  <1> SUFFICES ASSUME IInv, FreshInv, [Next]_vars
               PROVE  [Abstract!LogNext]_(Abstract!logVars)
    OBVIOUS
  <1> USE DEF IInv, TypeOK
  <1>0. Content \in Seq(Record \cup {Junk})
    BY ContentType
  <1>1. ASSUME Content' = Content
        PROVE  LogOfFile' = LogOfFile /\ Readable' = Readable
    BY <1>1 DEF LogOfFile, GoodLines, Readable
  <1>2. CASE UNCHANGED file
    <2>1. Content' = Content
      BY <1>2 DEF file, Content
    <2>2. LogOfFile' = LogOfFile /\ Readable' = Readable
      BY <1>1, <2>1
    <2>3. CASE seen' = seen
      BY <2>2, <2>3 DEF Abstract!logVars, LogOfFile
    <2>4. CASE Readable /\ seen' = Events(Content)
      <3>1. LogOfFile = Events(Content)
        BY <1>0, <2>4, ReadableLog
      <3>2. Abstract!ReadLog
        BY <2>2, <2>4, <3>1 DEF Abstract!ReadLog, LogOfFile
      <3> QED BY <3>2 DEF Abstract!LogNext
    <2> QED BY <2>3, <2>4, SeenStep
  <1>3. ASSUME NEW t \in Thread, pc[t] = "write", WriteLine(t) \/ PartialWrite(t), seen' = seen
        PROVE  [Abstract!LogNext]_(Abstract!logVars)
    <2>1. /\ Readable /\ lines \in Seq(Record) /\ tail \in Record \cup {Empty}
          /\ Content \in Seq(Record) /\ LogOfFile = Events(Content)
      BY <1>0, <1>3, WriterReads, ReadableLog
    <2>2. EventLine(t) \in Record /\ EventLine(t).event = event[t] /\ event[t] \in Event
      BY <1>3, EventLineLinks DEF WriterInv, Critical
    <2>3. CASE Content' = Content
      BY <1>1, <1>3, <2>3 DEF Abstract!logVars, LogOfFile
    <2>4. CASE Content' = Append(Content, EventLine(t))
      <3>1. Content' \in Seq(Record)
        BY <2>1, <2>2, <2>4
      <3>2. Readable'
        BY <3>1, RecordAssumption DEF Readable
      <3>3. LogOfFile' = Events(Content')
        <4>1. GoodLines' = Len(Content')
          BY <3>2 DEF GoodLines
        <4>2. SubSeq(Content', 1, Len(Content')) = Content'
          BY <3>1
        <4> QED BY <4>1, <4>2 DEF LogOfFile, Events
      <3>4. LogOfFile' = Append(LogOfFile, event[t])
        BY <2>1, <2>2, <2>4, <3>3, EventsAppend
      <3>5. \A i \in DOMAIN LogOfFile : LogOfFile[i] # event[t]
        <4>1. ~Logged(event[t])
          BY <1>3 DEF FreshInv, Unwritten
        <4>2. /\ LogOfFile \in Seq(Event) /\ Len(LogOfFile) = Len(Content)
              /\ \A i \in 1..Len(Content) : LogOfFile[i] = Content[i].event
          BY <2>1, EventsType
        <4>3. DOMAIN LogOfFile = 1..Len(Content)
          BY <4>2
        <4>4. \A i \in 1..Len(Content) : Content[i] # Junk
          BY <2>1 DEF Readable
        <4> QED BY <4>1, <4>2, <4>3, <4>4 DEF Logged
      <3>6. Abstract!AppendEvent(event[t])
        BY <1>3, <2>1, <3>2, <3>4, <3>5
           DEF Abstract!AppendEvent, Abstract!EventsOf, LogOfFile
      <3> QED BY <2>2, <3>6 DEF Abstract!LogNext
    <2>5. ASSUME NEW s \in Seq(Record), Content' = Append(s, Junk)
          PROVE  ~Readable' /\ LogOfFile' = Events(s)
      <3>1. Content'[Len(s) + 1] = Junk /\ Len(Content') = Len(s) + 1
        BY <2>5
      <3>2. ~Readable'
        BY <3>1 DEF Readable
      <3>3. GoodLines' = FirstJunk(Content') - 1
        BY <3>2 DEF GoodLines, FirstJunk
      <3>4. SubSeq(Content', 1, GoodLines') = s
        BY <2>5, <3>3, JunkLast
      <3> QED BY <3>2, <3>4 DEF LogOfFile, Events
    <2>6. CASE Content' = Append(Content, Junk)
      <3>1. Abstract!Damage
        BY <1>3, <2>1, <2>5, <2>6 DEF Abstract!Damage, LogOfFile
      <3> QED BY <3>1 DEF Abstract!LogNext
    <2>7. CASE tail # Empty /\ Content' = Append(lines, Junk)
      <3>1. Content = Append(lines, tail) /\ tail \in Record
        BY <2>1, <2>7 DEF Content
      <3>2. LogOfFile = Append(Events(lines), tail.event)
        BY <2>1, <3>1, EventsAppend
      <3>3. Events(lines) \in Seq(Event) /\ tail.event \in Event
        BY <2>1, <3>1, EventsType DEF Record
      <3>4. LogOfFile # << >> /\ Events(lines) = SubSeq(LogOfFile, 1, Len(LogOfFile) - 1)
        BY <3>2, <3>3
      <3>5. ~Readable' /\ LogOfFile' = Events(lines)
        BY <2>1, <2>5, <2>7
      <3>6. Abstract!Damage
        BY <1>3, <2>1, <3>4, <3>5 DEF Abstract!Damage, LogOfFile
      <3> QED BY <3>6 DEF Abstract!LogNext
    <2> QED BY <1>3, <2>3, <2>4, <2>6, <2>7, WriteEffect
  <1>4. CASE seen' = seen /\ \E t \in Thread : WriteLine(t)
    BY <1>3, <1>4 DEF WriteLine
  <1>5. CASE seen' = seen /\ \E t \in Thread : pc[t] = "write" /\ PartialWrite(t)
    BY <1>3, <1>5
  <1> QED BY <1>2, <1>4, <1>5, FileStep, SeenStep

(* The JSONL file is the totally ordered log its callers rely on: each     *)
(* event enters once and at the end, a read returns all of it, and what an *)
(* interrupted write destroys is reported and never hidden.                *)
THEOREM LedgerImplementsLog == Spec => ImplementsEventLog
  <1>1. Init => Abstract!LogInit
    <2> SUFFICES ASSUME Init PROVE Abstract!LogInit
      OBVIOUS
    <2>1. Content = << >> /\ Readable
      BY DEF Init, Content, Readable
    <2>2. SubSeq(Content, 1, GoodLines) = << >>
      BY <2>1 DEF GoodLines
    <2>3. Events(SubSeq(Content, 1, GoodLines)) = << >>
      <3>1. Events(<< >>) \in Seq(Event) /\ Len(Events(<< >>)) = 0
        <4>1. << >> \in Seq(Record) /\ Len(<< >>) = 0
          OBVIOUS
        <4> QED BY <4>1, EventsType
      <3>2. Events(<< >>) = << >>
        BY <3>1
      <3> QED BY <2>2, <3>2
    <2> QED BY <2>1, <2>3 DEF Init, Abstract!LogInit
  <1> QED BY Invariance, AlwaysFresh, LogStep, <1>1, PTL
          DEF Spec, ImplementsEventLog, Abstract!LogSpec

=============================================================================
