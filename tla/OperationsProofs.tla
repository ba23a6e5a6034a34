--------------------------- MODULE OperationsProofs ---------------------------
(***************************************************************************)
(* Proofs about six parts that run beside the service, each for any value  *)
(* of its constants:                                                       *)
(*   - the ledger in PostgreSQL: its rows are one intact chain that holds  *)
(*     what callers were told of, and it implements the abstract event     *)
(*     log (the advisory lock makes sequence numbers follow the commits);  *)
(*   - the key store: what was sealed stays readable;                      *)
(*   - the operator: a status never claims what was not reconciled;        *)
(*   - the objects of the POSIX adapter: a file has a record of its own or *)
(*     a writer that will still make one;                                  *)
(*   - backups: an archive is faithful to what nobody touched meanwhile,   *)
(*     a restore loses no state to one fault, and a merge overwrites only  *)
(*     files written since;                                                *)
(*   - delta checkpoints: a read gives what was put, and fails for nobody  *)
(*     who reads what was published, within the room of its stack, while   *)
(*     no identifier is used twice.                                        *)
(***************************************************************************)
EXTENDS Database, KeyStore, Operator, Posix, Recovery, Checkpoints, SequenceTheorems,
        WellFoundedInduction, TLAPS

Statement == {"none", "lock", "last", "insert", "commit"}

DatabaseTypeOK ==
  /\ rows \in Seq(DatabaseRow) /\ drawn \in Nat
  /\ holders \subseteq Session
  /\ statement \in [Session -> Statement]
  /\ entry \in [Session -> Entry \cup {None}]
  /\ selected \in [Session -> HashOrNone]
  /\ inserted \in [Session -> DatabaseRow \cup {None}]
  /\ sent \subseteq Entry /\ told \subseteq Entry
  /\ shown \in Seq(Entry)

(* The advisory lock is held from the second statement on, by one.         *)
HolderInv ==
  /\ \A s \in Session : s \in holders <=> statement[s] \in {"last", "insert", "commit"}
  /\ \A s, t \in holders : s = t

(* Rows hold events that were sent, under numbers that were drawn.         *)
RowsInv ==
  \A i \in DOMAIN rows : rows[i].event \in sent /\ rows[i].sequence <= drawn

(* An event that is being appended is in no row and in one transaction.    *)
EntryInv ==
  \A s \in Session : statement[s] # "none" =>
    /\ entry[s] \in sent
    /\ \A i \in DOMAIN rows : rows[i].event # entry[s]
    /\ \A t \in Session : statement[t] # "none" /\ entry[t] = entry[s] => t = s

(* What a transaction has read and inserted continues the table.           *)
WriterInv ==
  \A s \in Session :
    /\ statement[s] = "insert" => selected[s] = LastLink(rows)
    /\ statement[s] = "commit" =>
         /\ inserted[s] \in DatabaseRow
         /\ inserted[s].event = entry[s]
         /\ inserted[s].prev = LastLink(rows)
         /\ inserted[s].hash = Link(LastLink(rows), entry[s])
         /\ inserted[s].sequence <= drawn
         /\ \A i \in DOMAIN rows : rows[i].sequence < inserted[s].sequence

DatabaseInv == DatabaseTypeOK /\ HolderInv /\ RowsInv /\ EntryInv /\ WriterInv /\ TableIntact
-----------------------------------------------------------------------------
LEMMA LastLinkType ==
  ASSUME rows \in Seq(DatabaseRow) PROVE LastLink(rows) \in HashOrNone
  <1>1. CASE rows = << >>
    BY <1>1 DEF LastLink, HashOrNone
  <1>2. CASE rows # << >>
    <2>1. rows[Len(rows)] \in DatabaseRow
      BY <1>2
    <2>2. \A r \in DatabaseRow : r.hash \in HashId
      BY DEF DatabaseRow
    <2> QED
      BY <1>2, <2>1, <2>2 DEF LastLink, HashOrNone
  <1> QED
    BY <1>1, <1>2

LEMMA RowType ==
  ASSUME rows \in Seq(DatabaseRow)
  PROVE  /\ Len(rows) \in Nat /\ DOMAIN rows = 1..Len(rows)
         /\ \A i \in DOMAIN rows : rows[i].event \in Entry /\ rows[i].sequence \in Nat
  <1>1. \A i \in DOMAIN rows : rows[i] \in DatabaseRow
    OBVIOUS
  <1>2. \A r \in DatabaseRow : r.event \in Entry /\ r.sequence \in Nat
    BY DEF DatabaseRow
  <1> QED
    BY <1>1, <1>2

(* A row with a higher number than all others is read after them.          *)
LEMMA LaterRowIsLast ==
  ASSUME rows \in Seq(DatabaseRow), NEW row \in DatabaseRow,
         \A i \in DOMAIN rows : rows[i].sequence < row.sequence
  PROVE  WithRow(row) = Append(rows, row)
  <1>1. Before(row) = Len(rows)
    <2> DEFINE P(n) == \A i \in DOMAIN rows : rows[i].sequence < row.sequence <=> i <= n
    <2>1. DOMAIN rows = 1..Len(rows) /\ Len(rows) \in Nat
      OBVIOUS
    <2>2. Len(rows) \in 0..Len(rows) /\ P(Len(rows))
      BY <2>1
    <2>3. ASSUME NEW n \in 0..Len(rows), P(n) PROVE n = Len(rows)
      <3>1. CASE Len(rows) = 0
        BY <2>1, <3>1
      <3>2. CASE Len(rows) # 0
        <4>1. Len(rows) \in DOMAIN rows
          BY <2>1, <3>2
        <4>2. Len(rows) <= n
          BY <2>3, <4>1
        <4>3. n \in Nat /\ n <= Len(rows)
          BY <2>1, <2>3
        <4>4. \A a, b \in Nat : a <= b /\ b <= a => a = b
          OBVIOUS
        <4> QED
          BY <2>1, <4>2, <4>3, <4>4
      <3> QED
        BY <3>1, <3>2
    <2> HIDE DEF P
    <2>4. (CHOOSE n \in 0..Len(rows) : P(n)) = Len(rows)
      BY <2>2, <2>3
    <2> QED
      BY <2>4 DEF Before, P
  <1>2. SubSeq(rows, 1, Len(rows)) = rows /\ SubSeq(rows, Len(rows) + 1, Len(rows)) = << >>
    OBVIOUS
  <1>3. WithRow(row) = rows \o <<row>> \o << >>
    BY <1>1, <1>2 DEF WithRow
  <1>4. Append(rows, row) \in Seq(DatabaseRow) /\ Append(rows, row) = rows \o <<row>>
    OBVIOUS
  <1>5. \A q \in Seq(DatabaseRow) : q \o << >> = q
    OBVIOUS
  <1> QED
    BY <1>3, <1>4, <1>5

LEMMA CommitAppends ==
  ASSUME DatabaseInv, NEW s \in Session, statement[s] = "commit"
  PROVE  /\ WithRow(inserted[s]) = Append(rows, inserted[s])
         /\ inserted[s] \in DatabaseRow
  <1>1. inserted[s] \in DatabaseRow /\ rows \in Seq(DatabaseRow)
        /\ \A i \in DOMAIN rows : rows[i].sequence < inserted[s].sequence
    BY DEF DatabaseInv, WriterInv, DatabaseTypeOK
  <1> QED
    BY <1>1, LaterRowIsLast

LEMMA InitInv == DatabaseInit => DatabaseInv
  BY DEF DatabaseInit, DatabaseInv, DatabaseTypeOK, HolderInv, RowsInv, EntryInv, WriterInv,
         TableIntact, Linked, Statement, HashOrNone
-----------------------------------------------------------------------------
(* A transaction that ends leaves the lock to nobody and the others alone. *)
LEMMA RollBackInv ==
  ASSUME DatabaseInv, NEW s \in Session, RollBack(s) PROVE DatabaseInv'
  <1> USE DEF DatabaseInv, RollBack, EndTransaction, NextStatement
  <1>1. DatabaseTypeOK' BY DEF DatabaseTypeOK, Statement, HashOrNone
  <1>2. HolderInv' BY DEF DatabaseTypeOK, HolderInv
  <1>3. RowsInv' BY DEF RowsInv
  <1>4. EntryInv' BY DEF DatabaseTypeOK, EntryInv
  <1>5. WriterInv' BY DEF DatabaseTypeOK, WriterInv, LastLink
  <1>6. TableIntact' BY DEF TableIntact, Linked
  <1> QED BY <1>1, <1>2, <1>3, <1>4, <1>5, <1>6

LEMMA BeginInv ==
  ASSUME DatabaseInv, NEW s \in Session, NEW e \in Entry, BeginTransaction(s, e)
  PROVE  DatabaseInv'
  <1> USE DEF DatabaseInv, BeginTransaction, NextStatement
  <1>1. DatabaseTypeOK' BY DEF DatabaseTypeOK, Statement
  <1>2. HolderInv' BY DEF DatabaseTypeOK, HolderInv
  <1>3. RowsInv' BY DEF RowsInv
  <1>4. EntryInv' BY DEF DatabaseTypeOK, EntryInv, RowsInv
  <1>5. WriterInv' BY DEF DatabaseTypeOK, WriterInv, LastLink
  <1>6. TableIntact' BY DEF TableIntact, Linked
  <1> QED BY <1>1, <1>2, <1>3, <1>4, <1>5, <1>6

LEMMA LockInv ==
  ASSUME DatabaseInv, NEW s \in Session, TakeAdvisoryLock(s) PROVE DatabaseInv'
  <1> USE DEF DatabaseInv, TakeAdvisoryLock, NextStatement
  <1>1. DatabaseTypeOK' BY DEF DatabaseTypeOK, Statement
  <1>2. HolderInv' BY DEF DatabaseTypeOK, HolderInv
  <1>3. RowsInv' BY DEF RowsInv
  <1>4. EntryInv' BY DEF DatabaseTypeOK, EntryInv
  <1>5. WriterInv' BY DEF DatabaseTypeOK, WriterInv, LastLink
  <1>6. TableIntact' BY DEF TableIntact, Linked
  <1> QED BY <1>1, <1>2, <1>3, <1>4, <1>5, <1>6

LEMMA SelectLastInv ==
  ASSUME DatabaseInv, NEW s \in Session, SelectLast(s) PROVE DatabaseInv'
  <1> USE DEF DatabaseInv, SelectLast, NextStatement
  <1>1. DatabaseTypeOK' BY LastLinkType DEF DatabaseTypeOK, Statement
  <1>2. HolderInv' BY DEF DatabaseTypeOK, HolderInv
  <1>3. RowsInv' BY DEF RowsInv
  <1>4. EntryInv' BY DEF DatabaseTypeOK, EntryInv
  <1>5. WriterInv' BY DEF DatabaseTypeOK, WriterInv, LastLink
  <1>6. TableIntact' BY DEF TableIntact, Linked
  <1> QED BY <1>1, <1>2, <1>3, <1>4, <1>5, <1>6

LEMMA InsertInv ==
  ASSUME DatabaseInv, NEW s \in Session, InsertRow(s) PROVE DatabaseInv'
  <1> DEFINE row == [sequence |-> drawn + 1, event |-> entry[s], prev |-> selected[s],
                     hash |-> Link(selected[s], entry[s])]
  <1> USE DEF DatabaseInv, InsertRow, NextStatement, StillHeld
  <1>1. /\ entry[s] \in Entry /\ selected[s] \in HashOrNone /\ drawn \in Nat
        /\ selected[s] = LastLink(rows)
    BY DEF DatabaseTypeOK, EntryInv, WriterInv
  <1>2. row \in DatabaseRow
    BY <1>1, LinkAssumption DEF DatabaseRow, HashOrNone
  <1>3. DatabaseTypeOK' BY <1>2 DEF DatabaseTypeOK, Statement
  <1>4. HolderInv' BY DEF DatabaseTypeOK, HolderInv
  <1>5. RowsInv'
    <2>1. \A i \in DOMAIN rows : rows[i].sequence \in Nat
      BY RowType DEF DatabaseTypeOK
    <2> QED BY <1>1, <2>1 DEF RowsInv
  <1>6. EntryInv' BY DEF DatabaseTypeOK, EntryInv
  <1>7. WriterInv'
    <2> SUFFICES ASSUME NEW t \in Session
                 PROVE  /\ statement'[t] = "insert" => selected'[t] = LastLink(rows')
                        /\ statement'[t] = "commit" =>
                             /\ inserted'[t] \in DatabaseRow
                             /\ inserted'[t].event = entry'[t]
                             /\ inserted'[t].prev = LastLink(rows')
                             /\ inserted'[t].hash = Link(LastLink(rows'), entry'[t])
                             /\ inserted'[t].sequence <= drawn'
                             /\ \A i \in DOMAIN rows' : rows'[i].sequence < inserted'[t].sequence
      BY DEF WriterInv
    <2>1. CASE t = s
      <3>1. statement'[t] = "commit" /\ inserted'[t] = row /\ rows' = rows /\ entry' = entry
        BY <2>1 DEF DatabaseTypeOK
      <3>2. \A i \in DOMAIN rows : rows[i].sequence \in Nat /\ rows[i].sequence <= drawn
        BY RowType DEF RowsInv, DatabaseTypeOK
      <3> QED BY <1>1, <1>2, <2>1, <3>1, <3>2
    <2>2. CASE t # s
      <3>1. t \notin holders
        BY <2>2 DEF HolderInv, DatabaseTypeOK
      <3> QED BY <2>2, <3>1 DEF HolderInv, DatabaseTypeOK
    <2> QED BY <2>1, <2>2
  <1>8. TableIntact' BY DEF TableIntact, Linked
  <1> QED BY <1>3, <1>4, <1>5, <1>6, <1>7, <1>8

LEMMA CommitInv ==
  ASSUME DatabaseInv, NEW s \in Session, Commit(s) PROVE DatabaseInv'
  <1> USE DEF DatabaseInv, Commit, EndTransaction, NextStatement
  <1>1. /\ rows' = Append(rows, inserted[s]) /\ inserted[s] \in DatabaseRow
        /\ rows \in Seq(DatabaseRow)
    BY CommitAppends DEF DatabaseTypeOK
  <1>2. /\ DOMAIN rows' = 1..(Len(rows) + 1) /\ DOMAIN rows = 1..Len(rows)
        /\ rows'[Len(rows) + 1] = inserted[s]
        /\ \A i \in 1..Len(rows) : rows'[i] = rows[i]
    BY <1>1
  <1>3. /\ inserted[s].event = entry[s] /\ entry[s] \in sent
        /\ inserted[s].prev = LastLink(rows)
        /\ inserted[s].hash = Link(LastLink(rows), entry[s])
        /\ inserted[s].sequence <= drawn
    BY DEF WriterInv, EntryInv
  <1>4. DatabaseTypeOK'
    BY <1>1, <1>3 DEF DatabaseTypeOK, Statement, HashOrNone
  <1>5. HolderInv' BY DEF DatabaseTypeOK, HolderInv
  <1>6. RowsInv' BY <1>2, <1>3 DEF RowsInv
  <1>7. EntryInv'
    BY <1>2, <1>3 DEF DatabaseTypeOK, EntryInv
  <1>8. WriterInv'
    <2>1. \A t \in Session : statement'[t] \notin {"insert", "commit"}
      BY DEF HolderInv, DatabaseTypeOK
    <2> QED BY <2>1 DEF WriterInv
  <1>9. TableIntact'
    <2>1. Linked(rows)'
      BY <1>1, <1>2, <1>3 DEF TableIntact, Linked, LastLink
    <2>2. \A e \in told' : \E i \in DOMAIN rows' : rows'[i].event = e
      BY <1>2, <1>3 DEF TableIntact, DatabaseTypeOK
    <2> QED BY <2>1, <2>2 DEF TableIntact
  <1> QED BY <1>4, <1>5, <1>6, <1>7, <1>8, <1>9

LEMMA SelectAllInv ==
  ASSUME DatabaseInv, SelectAll PROVE DatabaseInv'
  <1> USE DEF DatabaseInv, SelectAll
  <1>1. EntriesOf(rows) \in Seq(Entry)
    <2>1. EntriesOf(rows) \in [1..Len(rows) -> Entry] /\ Len(rows) \in Nat
      BY RowType DEF DatabaseTypeOK, EntriesOf
    <2> QED BY <2>1
  <1>2. DatabaseTypeOK' BY <1>1 DEF DatabaseTypeOK
  <1>3. (HolderInv /\ RowsInv /\ EntryInv /\ WriterInv /\ TableIntact)'
    BY DEF HolderInv, RowsInv, EntryInv, WriterInv, LastLink, TableIntact, Linked
  <1> QED BY <1>2, <1>3

(* The invariant holds in every state of every behaviour.                  *)
LEMMA InvariantHolds == DatabaseSpec => []DatabaseInv
  <1>1. DatabaseInv /\ [DatabaseNext]_databaseVars => DatabaseInv'
    <2>1. DatabaseInv /\ DatabaseNext => DatabaseInv'
      BY RollBackInv, BeginInv, LockInv, SelectLastInv, InsertInv, CommitInv, SelectAllInv
      DEF DatabaseNext
    <2>2. DatabaseInv /\ UNCHANGED databaseVars => DatabaseInv'
      BY DEF databaseVars, DatabaseInv, DatabaseTypeOK, HolderInv, RowsInv, EntryInv, WriterInv,
             TableIntact, Linked, LastLink
    <2> QED BY <2>1, <2>2
  <1> QED BY <1>1, InitInv, PTL DEF DatabaseSpec
-----------------------------------------------------------------------------
(* verify_chain of PostgresLedger never reports a broken chain, and no     *)
(* event whose append returned is missing (postgres.py:141-169, 221-229).  *)
THEOREM TableAlwaysIntact == DatabaseSpec => []TableIntact
  <1>1. DatabaseInv => TableIntact
    BY DEF DatabaseInv
  <1> QED BY <1>1, InvariantHolds, PTL

(* Committing a row appends its event to what a reader gets.               *)
LEMMA CommitIsAppend ==
  ASSUME DatabaseInv, NEW s \in Session, Commit(s)
  PROVE  TableLog!AppendEvent(entry[s]) /\ entry[s] \in Entry
  <1>1. /\ rows' = Append(rows, inserted[s]) /\ rows \in Seq(DatabaseRow)
        /\ inserted[s] \in DatabaseRow
    BY CommitAppends DEF Commit, DatabaseInv, DatabaseTypeOK
  <1>2. /\ inserted[s].event = entry[s] /\ entry[s] \in Entry
        /\ \A i \in DOMAIN rows : rows[i].event # entry[s]
    BY DEF DatabaseInv, WriterInv, EntryInv, DatabaseTypeOK, Commit
  <1>3. EntriesOf(rows') = Append(EntriesOf(rows), entry[s])
    BY <1>1, <1>2 DEF EntriesOf
  <1>4. entry[s] \notin TableLog!EventsOf(EntriesOf(rows))
    BY <1>2 DEF TableLog!EventsOf, EntriesOf
  <1>5. shown' = shown
    BY DEF Commit
  <1> QED
    BY <1>2, <1>3, <1>4, <1>5 DEF TableLog!AppendEvent

(* PostgresLedger implements the totally ordered log, without its damage.  *)
THEOREM TableImplementsLog == DatabaseSpec => TableImplementsEventLog
  <1>1. DatabaseInit => TableLog!LogInit
    BY DEF DatabaseInit, TableLog!LogInit, EntriesOf
  <1>2. DatabaseInv /\ [DatabaseNext]_databaseVars => [TableLog!LogNext]_(TableLog!logVars)
    <2> SUFFICES ASSUME DatabaseInv, [DatabaseNext]_databaseVars
                 PROVE  [TableLog!LogNext]_(TableLog!logVars)
      OBVIOUS
    <2>1. CASE \E s \in Session : Commit(s)
      BY <2>1, CommitIsAppend DEF TableLog!LogNext
    <2>2. CASE SelectAll
      BY <2>2 DEF SelectAll, TableLog!LogNext, TableLog!ReadLog
    <2>3. CASE UNCHANGED databaseVars
      BY <2>3 DEF databaseVars, TableLog!logVars
    <2>4. CASE \E s \in Session :
                 \/ \E e \in Entry : BeginTransaction(s, e)
                 \/ TakeAdvisoryLock(s) \/ SelectLast(s) \/ InsertRow(s) \/ RollBack(s)
      BY <2>4 DEF BeginTransaction, TakeAdvisoryLock, SelectLast, InsertRow, RollBack,
                  TableLog!logVars
    <2> QED BY <2>1, <2>2, <2>3, <2>4 DEF DatabaseNext
  <1> QED
    BY <1>1, <1>2, InvariantHolds, PTL
    DEF DatabaseSpec, TableImplementsEventLog, TableLog!LogSpec
-----------------------------------------------------------------------------
(* The key store.  A call is a record with a label, and None, which stands *)
(* for a thread at rest, is not.                                           *)
NoneIsNoCall == \A r : "at" \in DOMAIN r => r # None

Calling(t, does, label) ==
  caller[t] # None /\ caller[t].does = does /\ caller[t].at = label

KeyCallOK(call) ==
  call # None =>
    /\ DOMAIN call = {"does", "at", "key", "with", "copy"} /\ call.key \in KeyId
    /\ call.does \in {"create", "get"} /\ (call.at = "write" => call.does = "create")

KeyTypeOK ==
  /\ masters \in Nat /\ master \in 0..masters /\ losses \in Nat
  /\ DOMAIN keys = KeyId /\ DOMAIN made = KeyId /\ DOMAIN caller = Caller
  /\ \A t \in Caller : KeyCallOK(caller[t])

(* create_key has the lock alone.                                          *)
KeyLockInv ==
  \A t, u \in Caller : Inside(t, "create") /\ t # u => ~Inside(u, "create") /\ ~Inside(u, "get")

(* What create_key has read is what is there; whoever found no master key  *)
(* replaces none that a key was wrapped with.                              *)
KeyCopyInv ==
  \A t \in Caller :
    /\ Calling(t, "create", "write") =>
         caller[t].copy = keys /\ caller[t].with = master /\ master # 0
    /\ At(t, "make") => \A k \in KeyId : made[k] # None => made[k] < losses

KeptKeys ==
  \A k \in KeyId : made[k] # None =>
    /\ keys[k] # 0 /\ made[k] \in Nat /\ made[k] <= losses
    /\ made[k] = losses => keys[k] = master

KeyInv == KeyTypeOK /\ KeyLockInv /\ KeyCopyInv /\ KeptKeys

(* A call that only moves on, inside the lock or out of it.                *)
LEMMA KeyMoves ==
  ASSUME NoneIsNoCall, KeyInv, NEW t \in Caller, caller[t] # None, caller[t].at # "lock",
         NEW label, label \notin {"lock", "write"},
         label = "make" => master = 0, Proceed(t, label),
         UNCHANGED <<keys, master, masters, made, losses>>
  PROVE  KeyInv'
  <1> DEFINE call == [caller[t] EXCEPT !.at = label]
  <1>1. /\ DOMAIN call = {"does", "at", "key", "with", "copy"} /\ call.at = label
        /\ call.does = caller[t].does /\ call.key = caller[t].key
    BY DEF KeyInv, KeyTypeOK, KeyCallOK
  <1>2. caller' = [caller EXCEPT ![t] = call]
    BY DEF Proceed
  <1> HIDE DEF call
  <1>3. call # None
    BY <1>1 DEF NoneIsNoCall
  <1>4. KeyTypeOK'
    BY <1>1, <1>2 DEF KeyInv, KeyTypeOK, KeyCallOK
  <1>5. KeyLockInv'
    BY <1>1, <1>2, <1>3 DEF KeyInv, KeyLockInv, Inside, KeyTypeOK
  <1>6. KeyCopyInv'
    BY <1>1, <1>2, <1>3 DEF KeyInv, KeyCopyInv, KeyTypeOK, KeptKeys, Calling, At
  <1>7. KeptKeys'
    BY DEF KeyInv, KeptKeys
  <1> QED BY <1>4, <1>5, <1>6, <1>7 DEF KeyInv

(* A call that ends, wherever it was.                                      *)
LEMMA KeyCallEnds ==
  ASSUME KeyInv, NEW t \in Caller, caller' = [caller EXCEPT ![t] = None],
         UNCHANGED <<keys, master, masters, made, losses>>
  PROVE  KeyInv'
  <1>1. KeyTypeOK'
    BY DEF KeyInv, KeyTypeOK, KeyCallOK
  <1>2. KeyLockInv'
    BY DEF KeyInv, KeyLockInv, Inside, KeyTypeOK
  <1>3. KeyCopyInv'
    BY DEF KeyInv, KeyCopyInv, KeyTypeOK, Calling, At
  <1> QED BY <1>1, <1>2, <1>3 DEF KeyInv, KeptKeys

LEMMA KeyCallBegins ==
  ASSUME NoneIsNoCall, KeyInv, NEW t \in Caller, caller[t] = None, NEW k \in KeyId,
         NEW does \in {"create", "get"},
         caller' = [caller EXCEPT ![t] = [does |-> does, at |-> "lock", key |-> k, with |-> 0,
                                          copy |-> keys]],
         UNCHANGED <<keys, master, masters, made, losses>>
  PROVE  KeyInv'
  <1>1. KeyTypeOK'
    BY DEF KeyInv, KeyTypeOK, KeyCallOK
  <1>2. KeyLockInv'
    BY DEF KeyInv, KeyLockInv, Inside, KeyTypeOK
  <1>3. KeyCopyInv'
    BY DEF KeyInv, KeyCopyInv, KeyTypeOK, Calling, At
  <1> QED BY <1>1, <1>2, <1>3 DEF KeyInv, KeptKeys

LEMMA KeyLockEntered ==
  ASSUME NoneIsNoCall, KeyInv, NEW t \in Caller, EnterLock(t)
  PROVE  KeyInv'
  <1> DEFINE label == IF caller[t].does = "get" THEN "find" ELSE "look"
             call == [caller[t] EXCEPT !.at = label]
  <1>1. /\ DOMAIN call = {"does", "at", "key", "with", "copy"} /\ call.at = label
        /\ call.does = caller[t].does /\ call.key = caller[t].key /\ call.does \in {"create", "get"}
    BY DEF KeyInv, KeyTypeOK, KeyCallOK, EnterLock, At
  <1>2. caller' = [caller EXCEPT ![t] = call]
    BY DEF EnterLock, Proceed
  <1>3. /\ \A u \in Caller : ~Inside(u, "create")
        /\ call.does = "create" => \A u \in Caller : ~Inside(u, "get")
    BY <1>1 DEF EnterLock, MayLock
  <1>4. label \in {"find", "look"}
    OBVIOUS
  <1> HIDE DEF call, label
  <1>5. call # None
    BY <1>1 DEF NoneIsNoCall
  <1>6. KeyTypeOK'
    <2>1. KeyCallOK(call)
      BY <1>1, <1>4 DEF KeyInv, KeyTypeOK, KeyCallOK, EnterLock, At
    <2> QED BY <1>2, <2>1 DEF KeyInv, KeyTypeOK, EnterLock
  <1>7. KeyLockInv'
    BY <1>1, <1>2, <1>3, <1>4 DEF KeyInv, KeyLockInv, Inside, KeyTypeOK
  <1>8. KeyCopyInv'
    BY <1>1, <1>2, <1>4 DEF KeyInv, KeyCopyInv, KeyTypeOK, Calling, At, EnterLock
  <1> QED BY <1>6, <1>7, <1>8 DEF KeyInv, KeptKeys, EnterLock

(* Others may have made a master key since; no key was wrapped with it.    *)
LEMMA MasterMade ==
  ASSUME NoneIsNoCall, KeyInv, NEW t \in Caller, MakeMaster(t)
  PROVE  KeyInv'
  <1> DEFINE call == [caller[t] EXCEPT !.at = "read"]
  <1>1. /\ DOMAIN call = {"does", "at", "key", "with", "copy"} /\ call.at = "read"
        /\ call.does = caller[t].does /\ call.key = caller[t].key
        /\ caller[t] # None /\ caller[t].at = "make" /\ call.does \in {"create", "get"}
    BY DEF KeyInv, KeyTypeOK, KeyCallOK, MakeMaster, At
  <1>2. caller' = [caller EXCEPT ![t] = call]
    BY DEF MakeMaster, Proceed
  <1> HIDE DEF call
  <1>3. call # None
    BY <1>1 DEF NoneIsNoCall
  <1>4. KeyTypeOK'
    BY <1>1, <1>2 DEF KeyInv, KeyTypeOK, KeyCallOK, MakeMaster
  <1>5. KeyLockInv'
    BY <1>1, <1>2, <1>3 DEF KeyInv, KeyLockInv, Inside, KeyTypeOK
  <1>6. \A u \in Caller : ~Calling(u, "create", "write")
    BY <1>1 DEF KeyInv, KeyLockInv, Inside, Calling
  <1>7. \A k \in KeyId : made[k] # None => made[k] < losses
    BY <1>1 DEF KeyInv, KeyCopyInv, At
  <1>8. KeyCopyInv'
    BY <1>1, <1>2, <1>6, <1>7 DEF KeyInv, KeyCopyInv, KeyTypeOK, Calling, At, MakeMaster
  <1>9. KeptKeys'
    BY <1>7 DEF KeyInv, KeptKeys, MakeMaster, KeyTypeOK
  <1> QED BY <1>4, <1>5, <1>8, <1>9 DEF KeyInv

LEMMA MasterRead ==
  ASSUME NoneIsNoCall, KeyInv, NEW t \in Caller, ReadMaster(t)
  PROVE  KeyInv'
  <1>1. CASE caller[t].does = "get"
    BY <1>1, KeyCallEnds DEF ReadMaster
  <1>2. CASE caller[t].does # "get"
    <2> DEFINE call == [caller[t] EXCEPT !.at = "write", !.with = master, !.copy = keys]
    <2>1. /\ DOMAIN call = {"does", "at", "key", "with", "copy"} /\ call.at = "write"
          /\ call.does = "create" /\ call.key = caller[t].key /\ call.with = master
          /\ call.copy = keys /\ caller[t] # None /\ caller[t].at = "read"
          /\ caller[t].does = "create"
      BY <1>2 DEF KeyInv, KeyTypeOK, KeyCallOK, ReadMaster, At
    <2>2. caller' = [caller EXCEPT ![t] = call]
      BY <1>2 DEF ReadMaster
    <2> HIDE DEF call
    <2>3. call # None
      BY <2>1 DEF NoneIsNoCall
    <2>4. KeyTypeOK'
      BY <2>1, <2>2 DEF KeyInv, KeyTypeOK, KeyCallOK, ReadMaster
    <2>5. KeyLockInv'
      BY <2>1, <2>2, <2>3 DEF KeyInv, KeyLockInv, Inside, KeyTypeOK
    <2>6. KeyCopyInv'
      BY <2>1, <2>2 DEF KeyInv, KeyCopyInv, KeyTypeOK, Calling, At, ReadMaster
    <2> QED BY <2>4, <2>5, <2>6 DEF KeyInv, KeptKeys, ReadMaster
  <1> QED BY <1>1, <1>2

(* The key is written; nobody else is inside the lock.                     *)
LEMMA KeysWritten ==
  ASSUME NoneIsNoCall, KeyInv, NEW t \in Caller, WriteKeys(t)
  PROVE  KeyInv'
  <1>1. /\ caller[t] # None /\ caller[t].at = "write" /\ caller[t].does = "create"
        /\ caller[t].copy = keys /\ caller[t].with = master /\ master # 0
        /\ caller[t].key \in KeyId
    BY DEF WriteKeys, At, Calling, KeyInv, KeyCopyInv, KeyTypeOK, KeyCallOK
  <1>2. \A u \in Caller : u # t => ~At(u, "make") /\ ~Calling(u, "create", "write")
    <2> SUFFICES ASSUME NEW u \in Caller, u # t, At(u, "make") \/ Calling(u, "create", "write")
                 PROVE  FALSE
      OBVIOUS
    <2>1. Inside(t, "create")
      BY <1>1 DEF Inside
    <2>2. Inside(u, "create") \/ Inside(u, "get")
      BY DEF At, Calling, Inside, KeyInv, KeyTypeOK, KeyCallOK
    <2> QED BY <2>1, <2>2 DEF KeyInv, KeyLockInv
  <1>3. KeyTypeOK'
    BY <1>1 DEF KeyInv, KeyTypeOK, KeyCallOK, WriteKeys
  <1>4. KeyLockInv'
    BY DEF KeyInv, KeyLockInv, Inside, KeyTypeOK, WriteKeys
  <1>5. KeyCopyInv'
    BY <1>2 DEF KeyInv, KeyCopyInv, KeyTypeOK, Calling, At, WriteKeys
  <1>6. KeptKeys'
    BY <1>1 DEF KeyInv, KeptKeys, KeyTypeOK, WriteKeys
  <1> QED BY <1>3, <1>4, <1>5, <1>6 DEF KeyInv

LEMMA MasterLost ==
  ASSUME KeyInv, LoseMaster
  PROVE  KeyInv'
  <1>1. KeyTypeOK' /\ KeyLockInv'
    BY DEF KeyInv, KeyTypeOK, KeyCallOK, KeyLockInv, Inside, LoseMaster
  <1>2. KeyCopyInv'
    BY DEF KeyInv, KeyCopyInv, KeptKeys, KeyTypeOK, Calling, At, Inside, LoseMaster
  <1>3. KeptKeys'
    BY DEF KeyInv, KeptKeys, KeyTypeOK, LoseMaster
  <1> QED BY <1>1, <1>2, <1>3 DEF KeyInv

(* Every key that create_key returned can be unwrapped as long as nobody   *)
(* loses the master key file (kms.py:45-71, 94-106).                       *)
THEOREM KeysAlwaysOpen ==
  ASSUME NoneIsNoCall
  PROVE  KeySpec => []KeysOpen
  <1>1. KeyInit => KeyInv
    <2> SUFFICES ASSUME KeyInit PROVE KeyInv
      OBVIOUS
    <2>1. KeyTypeOK /\ KeyLockInv /\ KeyCopyInv /\ KeptKeys
      BY DEF KeyInit, KeyTypeOK, KeyCallOK, KeyLockInv, Inside, KeyCopyInv, KeptKeys, Calling, At
    <2> QED BY <2>1 DEF KeyInv
  <1>2. KeyInv /\ [KeyNext]_keyVars => KeyInv'
    <2> SUFFICES ASSUME KeyInv, [KeyNext]_keyVars PROVE KeyInv'
      OBVIOUS
    <2>1. ASSUME NEW t \in Caller, CallCreate(t) PROVE KeyInv'
      BY <2>1, NoneIsNoCall, KeyCallBegins DEF CallCreate
    <2>2. ASSUME NEW t \in Caller, NEW k \in KeyId, CallGet(t, k) PROVE KeyInv'
      BY <2>2, NoneIsNoCall, KeyCallBegins DEF CallGet
    <2>3. ASSUME NEW t \in Caller, FindKey(t) \/ LookForMaster(t) PROVE KeyInv'
      <3>1. caller[t] # None /\ caller[t].at \in {"find", "look"}
        BY <2>3 DEF FindKey, LookForMaster, At
      <3>2. CASE caller' = [caller EXCEPT ![t] = None]
        BY <2>3, <3>2, KeyCallEnds DEF FindKey, LookForMaster
      <3>3. CASE \E label \in {"look", "make", "read"} :
                   Proceed(t, label) /\ (label = "make" => master = 0)
        BY <2>3, <3>1, <3>3, NoneIsNoCall, KeyMoves DEF FindKey, LookForMaster
      <3> QED BY <2>3, <3>2, <3>3 DEF FindKey, LookForMaster
    <2>4. ASSUME NEW t \in Caller, MasterGone(t) \/ CallerDies(t) PROVE KeyInv'
      BY <2>4, KeyCallEnds DEF MasterGone, CallerDies
    <2>5. CASE UNCHANGED keyVars
      BY <2>5 DEF keyVars, KeyInv, KeyTypeOK, KeyLockInv, KeyCopyInv, KeptKeys, Inside, Calling, At
    <2> QED
      BY <2>1, <2>2, <2>3, <2>4, <2>5, NoneIsNoCall, KeyLockEntered, MasterMade, MasterRead,
         KeysWritten, MasterLost DEF KeyNext
  <1>3. KeyInv => KeysOpen
    BY DEF KeyInv, KeptKeys, KeysOpen
  <1> QED BY <1>1, <1>2, <1>3, PTL DEF KeySpec
-----------------------------------------------------------------------------
(* The operator.  A pass only ever sees older specifications than there    *)
(* are, and applies no older one than an earlier pass.                     *)
Steps == {"asleep", "validate", "deployment", "service", "status", "ended"}

OperatorTypeOK ==
  /\ at \in [resource : 0..(Count + 1), step : Steps]
  /\ DOMAIN spec = Resource /\ DOMAIN listed = Resource
  /\ DOMAIN deployment = Resource /\ DOMAIN service = Resource /\ DOMAIN observed = Resource
  /\ \A r \in Resource :
       /\ DOMAIN spec[r] = {"generation", "valid"}
       /\ spec[r].generation \in Nat /\ listed[r].generation \in Nat
       /\ deployment[r] \in Nat /\ service[r] \in Nat /\ observed[r] \in Nat

GenerationInv ==
  \A r \in Resource :
    /\ listed[r].generation <= spec[r].generation
    /\ observed[r] <= deployment[r] /\ observed[r] <= service[r]
    /\ observed[r] <= listed[r].generation

(* What the pass has done to the resource it is at, and to those before.   *)
PassInv ==
  /\ at.step = "asleep" => at.resource = 0
  /\ at.resource \in Resource =>
       /\ at.step \in {"deployment", "service", "status"} => listed[at.resource].valid
       /\ at.step \in {"service", "status"} =>
            deployment[at.resource] = listed[at.resource].generation
       /\ at.step = "status" => service[at.resource] = listed[at.resource].generation
  /\ \A r \in Resource :
       r < at.resource => listed[r].valid /\ observed[r] = listed[r].generation
  /\ ready /\ at = Asleep =>
       \A r \in Resource : listed[r].valid /\ observed[r] = listed[r].generation

OperatorInv == OperatorTypeOK /\ GenerationInv /\ PassInv

(* A pass that ends without having applied everything says so.             *)
LEMMA PassAborted ==
  ASSUME OperatorAssumption, OperatorInv, AbortPass, UNCHANGED <<users, cluster, listed>>
  PROVE  OperatorInv'
  <1>1. at' = [resource |-> 0, step |-> "asleep"] /\ ready' = FALSE
    BY DEF AbortPass, Asleep
  <1>2. OperatorTypeOK'
    <2>1. at' \in [resource : 0..(Count + 1), step : Steps]
      BY <1>1 DEF Steps, OperatorAssumption
    <2> QED BY <2>1 DEF OperatorInv, OperatorTypeOK, users, cluster
  <1>3. GenerationInv'
    BY DEF OperatorInv, GenerationInv, users, cluster
  <1>4. PassInv'
    BY <1>1 DEF PassInv, Resource
  <1> QED BY <1>2, <1>3, <1>4 DEF OperatorInv

LEMMA StepAdvanced ==
  ASSUME OperatorAssumption, OperatorInv, Validate \/ ApplyDeployment \/ ApplyService
  PROVE  OperatorInv'
  <1>1. CASE Validate
    <2>1. OperatorTypeOK'
      BY <1>1 DEF OperatorInv, OperatorTypeOK, Validate, Advance, Steps, users, cluster
    <2>2. GenerationInv'
      BY <1>1 DEF OperatorInv, GenerationInv, Validate, users, cluster
    <2>3. PassInv'
      BY <1>1 DEF OperatorInv, OperatorTypeOK, PassInv, Validate, Doing, Advance, users, cluster, Asleep
    <2> QED BY <2>1, <2>2, <2>3 DEF OperatorInv
  <1>2. CASE ApplyDeployment
    <2>1. OperatorTypeOK'
      BY <1>2 DEF OperatorInv, OperatorTypeOK, ApplyDeployment, DesiredDeployment, Doing, Advance,
                  Steps, users
    <2>2. GenerationInv'
      BY <1>2 DEF OperatorInv, OperatorTypeOK, GenerationInv, ApplyDeployment, DesiredDeployment,
                  Doing, users
    <2>3. PassInv'
      BY <1>2 DEF OperatorInv, OperatorTypeOK, PassInv, ApplyDeployment, DesiredDeployment, Doing,
                  Advance, users, Asleep
    <2> QED BY <2>1, <2>2, <2>3 DEF OperatorInv
  <1>3. CASE ApplyService
    <2>1. OperatorTypeOK'
      BY <1>3 DEF OperatorInv, OperatorTypeOK, ApplyService, DesiredService, Doing, Advance,
                  Steps, users
    <2>2. GenerationInv'
      BY <1>3 DEF OperatorInv, OperatorTypeOK, GenerationInv, ApplyService, DesiredService,
                  Doing, users
    <2>3. PassInv'
      BY <1>3 DEF OperatorInv, OperatorTypeOK, PassInv, ApplyService, DesiredService, Doing,
                  Advance, users, Asleep
    <2> QED BY <2>1, <2>2, <2>3 DEF OperatorInv
  <1> QED BY <1>1, <1>2, <1>3

LEMMA StatusPatched ==
  ASSUME OperatorAssumption, OperatorInv, PatchStatus
  PROVE  OperatorInv'
  <1> DEFINE r == at.resource
  <1>1. /\ r \in Resource /\ at.step = "status" /\ observed' = [observed EXCEPT ![r] = listed[r].generation]
        /\ UNCHANGED <<spec, deployment, service, listed, ready>>
    BY DEF PatchStatus, ObservedGeneration, Doing, users
  <1>2. at' = [resource |-> r + 1, step |-> "validate"]
    BY DEF PatchStatus
  <1>3. r \in Nat /\ r + 1 \in 0..(Count + 1)
    BY <1>1 DEF Resource, OperatorAssumption
  <1>4. /\ listed[r].valid /\ deployment[r] = listed[r].generation /\ service[r] = listed[r].generation
        /\ \A s \in Resource : s < r => listed[s].valid /\ observed[s] = listed[s].generation
        /\ DOMAIN observed = Resource /\ listed[r].generation \in Nat
    BY <1>1 DEF OperatorInv, OperatorTypeOK, PassInv
  <1> HIDE DEF r
  <1>5. OperatorTypeOK'
    <2>1. at' \in [resource : 0..(Count + 1), step : Steps]
      BY <1>2, <1>3 DEF Steps
    <2> QED BY <1>1, <1>4, <2>1 DEF OperatorInv, OperatorTypeOK
  <1>6. GenerationInv'
    BY <1>1, <1>4 DEF OperatorInv, OperatorTypeOK, GenerationInv
  <1>7. PassInv'
    <2>1. \A s \in Resource : s < r + 1 => listed[s].valid /\ observed'[s] = listed[s].generation
      BY <1>1, <1>3, <1>4 DEF Resource, OperatorAssumption
    <2> QED BY <1>1, <1>2, <1>3, <2>1 DEF PassInv, Asleep
  <1> QED BY <1>5, <1>6, <1>7 DEF OperatorInv

LEMMA PassesMeet ==
  ASSUME OperatorAssumption, OperatorInv, ListResources \/ EndPass
  PROVE  OperatorInv'
  <1>1. CASE ListResources
    <2>1. OperatorTypeOK'
      BY <1>1 DEF OperatorInv, OperatorTypeOK, ListResources, Steps, users, cluster, Resource,
                  OperatorAssumption
    <2>2. GenerationInv'
      <3> SUFFICES ASSUME NEW r \in Resource
                   PROVE  spec[r].generation <= spec[r].generation /\ observed[r] <= spec[r].generation
        BY <1>1 DEF OperatorInv, GenerationInv, ListResources, users, cluster
      <3> QED BY DEF OperatorInv, OperatorTypeOK, GenerationInv
    <2>3. PassInv'
      BY <1>1 DEF ListResources, PassInv, Asleep, Resource
    <2> QED BY <2>1, <2>2, <2>3 DEF OperatorInv
  <1>2. CASE EndPass
    BY <1>2 DEF OperatorInv, OperatorTypeOK, GenerationInv, PassInv, EndPass, Asleep, Steps, users,
                cluster, Resource, OperatorAssumption
  <1> QED BY <1>1, <1>2

LEMMA SpecEdited ==
  ASSUME OperatorInv, NEW r \in Resource, NEW v \in BOOLEAN, Edit(r, v)
  PROVE  OperatorInv'
  <1>1. /\ DOMAIN spec' = Resource /\ spec[r].generation \in Nat
        /\ spec'[r] = [generation |-> spec[r].generation + 1, valid |-> v]
        /\ \A s \in Resource : s # r => spec'[s] = spec[s]
    BY DEF Edit, OperatorInv, OperatorTypeOK
  <1>2. OperatorTypeOK'
    BY <1>1 DEF Edit, OperatorInv, OperatorTypeOK, cluster
  <1>3. GenerationInv'
    BY <1>1 DEF Edit, OperatorInv, OperatorTypeOK, GenerationInv, cluster
  <1>4. PassInv'
    BY DEF Edit, OperatorInv, PassInv, cluster
  <1> QED BY <1>2, <1>3, <1>4 DEF OperatorInv

(* A status never runs ahead of what was applied, and ready means that the *)
(* last pass applied all it had listed (operator.py:71-83, 106-129).       *)
THEOREM StatusAlwaysHonest == OperatorSpec => []StatusHonest
  <1>1. OperatorInit => OperatorInv
    <2> SUFFICES ASSUME OperatorInit PROVE OperatorInv
      OBVIOUS
    <2>1. \A r \in Resource : \E v \in BOOLEAN : spec[r] = [generation |-> 1, valid |-> v]
      BY DEF OperatorInit
    <2>2. OperatorTypeOK /\ GenerationInv
      BY <2>1, OperatorAssumption DEF OperatorInit, OperatorTypeOK, GenerationInv, Asleep, Steps,
                                      OperatorAssumption
    <2>3. PassInv
      BY DEF OperatorInit, PassInv, Asleep, Resource
    <2> QED BY <2>2, <2>3 DEF OperatorInv
  <1>2. OperatorInv /\ [OperatorNext]_operatorVars => OperatorInv'
    <2> SUFFICES ASSUME OperatorInv, [OperatorNext]_operatorVars PROVE OperatorInv'
      OBVIOUS
    <2>1. CASE OperatorLoop
      BY <2>1, OperatorAssumption, PassesMeet, StepAdvanced, StatusPatched, PassAborted
         DEF OperatorLoop, Invalid
    <2>2. CASE RequestFails \/ Restart
      BY <2>2, OperatorAssumption, PassAborted DEF RequestFails, Restart, AbortPass
    <2>3. CASE \E r \in Resource, v \in BOOLEAN : Edit(r, v)
      BY <2>3, SpecEdited
    <2>4. CASE UNCHANGED operatorVars
      BY <2>4 DEF operatorVars, OperatorInv, OperatorTypeOK, GenerationInv, PassInv
    <2> QED BY <2>1, <2>2, <2>3, <2>4 DEF OperatorNext
  <1>3. OperatorInv => StatusHonest
    BY DEF OperatorInv, GenerationInv, PassInv, StatusHonest
  <1> QED BY <1>1, <1>2, <1>3, PTL DEF OperatorSpec
-----------------------------------------------------------------------------
(* The POSIX adapter.  The bytes of a file are those of one call, the last *)
(* that replaced it, which goes on to record them.                         *)
CallKeys ==
  {"do", "at", "path", "data", "overwrite", "stated", "read", "overtaken"}

PosixCallOK(call) ==
  call # None =>
    /\ DOMAIN call = CallKeys /\ call.path \in File
    /\ call.at \in {"check", "write", "stat", "read", "execute"}
    /\ call.do = "execute" => call.at \notin {"check", "write"}
    /\ call.do = "rehydrate" => \E m \in filed : m.data = call.data
    /\ call.do \in {"put", "execute", "rehydrate"}
    /\ call.do = "rehydrate" => call.at \in {"check", "write"}

(* A put_file that nobody overtook finds what it wrote.                    *)
SeesOwn(call) ==
  call # None /\ call.do = "put" /\ ~call.overtaken =>
    /\ call.at \in {"stat", "read"} => files[call.path] = call.data
    /\ call.at \in {"read", "execute"} => call.stated = call.data
    /\ call.at = "execute" => call.read = call.data

WriterOf(w, f) ==
  /\ calls[w] # None /\ calls[w].path = f /\ calls[w].do = "put" /\ calls[w].data = files[f]
  /\ calls[w].at \in {"stat", "read", "execute"}
  /\ calls[w].at = "execute" => calls[w].read = files[f]

BytesInv ==
  \A f \in File : files[f] # None =>
    \/ \E m \in filed : m.data = files[f]
    \/ files[f] \in cutShort
    \/ \E w \in Worker : WriterOf(w, f)

ReturnedInv ==
  \A r \in returned : ~r.overtaken => r.manifest.data = r.data /\ r.manifest.stated = r.data

PosixInv ==
  /\ DOMAIN files = File /\ DOMAIN calls = Worker
  /\ \A w \in Worker : PosixCallOK(calls[w]) /\ SeesOwn(calls[w])
  /\ BytesInv /\ ReturnedInv

(* A call that changes nothing but itself, and goes on being the writer of *)
(* what it was the writer of.                                              *)
LEMMA PosixCallMoves ==
  ASSUME PosixInv, NEW w \in Worker, NEW call, calls' = [calls EXCEPT ![w] = call],
         PosixCallOK(call), SeesOwn(call),
         \A f \in File : WriterOf(w, f) /\ files[f] # None =>
           /\ call # None /\ call.path = f /\ call.do = "put" /\ call.data = files[f]
           /\ call.at \in {"stat", "read", "execute"}
           /\ call.at = "execute" => call.read = files[f],
         UNCHANGED <<files, filed, returned, cutShort>>
  PROVE  PosixInv'
  <1>1. \A v \in Worker : (PosixCallOK(calls[v]) /\ SeesOwn(calls[v]))'
    BY DEF PosixInv, PosixCallOK, SeesOwn
  <1>2. BytesInv'
    BY DEF PosixInv, BytesInv, WriterOf
  <1> QED BY <1>1, <1>2 DEF PosixInv, ReturnedInv

LEMMA PosixCalled ==
  ASSUME NoneIsNoCall, PosixInv, NEW w \in Worker, NEW f \in File, NEW d, NEW overwrite,
         NEW do, NEW label, Call(w, NewCall(do, label, f, d, overwrite)),
         \/ do = "put" /\ label = "check"
         \/ do = "execute" /\ label = "stat"
         \/ do = "rehydrate" /\ label = "check" /\ \E m \in filed : m.data = d
  PROVE  PosixInv'
  <1> DEFINE call == NewCall(do, label, f, d, overwrite)
  <1>1. PosixCallOK(call) /\ SeesOwn(call)
    BY DEF PosixCallOK, SeesOwn, NewCall, CallKeys
  <1>2. \A g \in File : ~WriterOf(w, g)
    BY DEF WriterOf, Call
  <1>3. calls' = [calls EXCEPT ![w] = call] /\ UNCHANGED <<files, filed, returned, cutShort>>
    BY DEF Call
  <1> HIDE DEF call
  <1> QED BY <1>1, <1>2, <1>3, PosixCallMoves

(* A call that ends without having written its file.                       *)
LEMMA PosixCallEnds ==
  ASSUME PosixInv, NEW w \in Worker, calls' = [calls EXCEPT ![w] = None],
         \A f \in File : files[f] # None => ~WriterOf(w, f),
         UNCHANGED <<files, filed, returned, cutShort>>
  PROVE  PosixInv'
  <1>1. PosixCallOK(None) /\ SeesOwn(None)
    BY DEF PosixCallOK, SeesOwn
  <1> QED BY <1>1, PosixCallMoves

LEMMA ExistenceChecked ==
  ASSUME NoneIsNoCall, PosixInv, NEW w \in Worker, CheckExists(w)
  PROVE  PosixInv'
  <1>1. /\ calls[w] # None /\ calls[w].at = "check" /\ PosixCallOK(calls[w])
        /\ UNCHANGED <<files, filed, returned, cutShort>>
    BY DEF CheckExists, Reached, PosixInv
  <1>2. \A f \in File : ~WriterOf(w, f)
    BY <1>1 DEF WriterOf
  <1>3. CASE calls' = [calls EXCEPT ![w] = None]
    BY <1>1, <1>2, <1>3, PosixCallEnds
  <1> DEFINE call == [calls[w] EXCEPT !.at = "write"]
  <1>4. CASE calls' = [calls EXCEPT ![w] = call]
    <2>1. PosixCallOK(call) /\ SeesOwn(call)
      BY <1>1 DEF PosixCallOK, SeesOwn, CallKeys
    <2> HIDE DEF call
    <2> QED BY <1>1, <1>2, <1>4, <2>1, PosixCallMoves
  <1> QED BY <1>3, <1>4 DEF CheckExists

(* The file is the call's now, and no longer that of another.              *)
LEMMA FileReplaced ==
  ASSUME NoneIsNoCall, PosixInv, NEW w \in Worker, ReplaceFile(w)
  PROVE  PosixInv'
  <1> DEFINE call == calls[w]
             path == call.path
             Overtakes(v) == v # w /\ calls[v] # None /\ calls[v].path = path
                               /\ calls[v].at \in {"stat", "read"}
             goesOn == [call EXCEPT !.at = "stat"]
  <1>1. /\ call # None /\ call.at = "write" /\ PosixCallOK(call) /\ path \in File
        /\ files' = [files EXCEPT ![path] = call.data]
        /\ UNCHANGED <<filed, returned, cutShort>>
    BY DEF ReplaceFile, Reached, PosixInv, PosixCallOK
  <1>2. /\ DOMAIN calls' = Worker
        /\ calls'[w] = IF call.do = "put" THEN goesOn ELSE None
        /\ \A v \in Worker \ {w} :
             calls'[v] = IF Overtakes(v) THEN [calls[v] EXCEPT !.overtaken = TRUE] ELSE calls[v]
    BY DEF ReplaceFile, Recorded
  <1>3. /\ DOMAIN goesOn = CallKeys /\ goesOn.at = "stat" /\ goesOn.path = path
        /\ goesOn.do = call.do /\ goesOn.data = call.data /\ goesOn # None
    BY <1>1 DEF PosixCallOK, CallKeys, NoneIsNoCall
  <1>4. \A v \in Worker : calls[v] # None =>
          LET later == [calls[v] EXCEPT !.overtaken = TRUE]
          IN  /\ DOMAIN later = CallKeys /\ later.at = calls[v].at /\ later.path = calls[v].path
              /\ later.do = calls[v].do /\ later.data = calls[v].data
              /\ later.read = calls[v].read /\ later.stated = calls[v].stated
              /\ later.overtaken = TRUE /\ later # None
    BY DEF PosixInv, PosixCallOK, CallKeys, NoneIsNoCall
  <1>5. /\ DOMAIN files' = File /\ files'[path] = call.data
        /\ \A f \in File : f # path => files'[f] = files[f]
    BY <1>1 DEF PosixInv
  <1> HIDE DEF goesOn
  <1>6. \A v \in Worker : (PosixCallOK(calls[v]))'
    <2>1. (PosixCallOK(calls[w]))'
      BY <1>1, <1>2, <1>3 DEF PosixCallOK
    <2>2. ASSUME NEW v \in Worker \ {w} PROVE (PosixCallOK(calls[v]))'
      <3>1. PosixCallOK(calls[v])
        BY DEF PosixInv
      <3>2. CASE Overtakes(v)
        <4> DEFINE later == [calls[v] EXCEPT !.overtaken = TRUE]
        <4>1. /\ DOMAIN later = CallKeys /\ later.at = calls[v].at /\ later.path = calls[v].path
              /\ later.do = calls[v].do /\ later.data = calls[v].data
          BY <1>4, <3>2
        <4>2. calls'[v] = later
          BY <1>2, <3>2
        <4> HIDE DEF later
        <4> QED BY <1>1, <3>1, <3>2, <4>1, <4>2 DEF PosixCallOK
      <3>3. CASE ~Overtakes(v)
        BY <1>1, <1>2, <3>1, <3>3 DEF PosixCallOK
      <3> QED BY <3>2, <3>3
    <2> QED BY <2>1, <2>2
  <1>7. \A v \in Worker : (SeesOwn(calls[v]))'
    <2>1. (SeesOwn(calls[w]))'
      BY <1>2, <1>3, <1>5 DEF SeesOwn
    <2>2. ASSUME NEW v \in Worker \ {w} PROVE (SeesOwn(calls[v]))'
      <3>1. CASE Overtakes(v)
        BY <1>2, <1>4, <3>1 DEF SeesOwn
      <3>2. CASE ~Overtakes(v)
        BY <1>2, <1>5, <3>2 DEF PosixInv, PosixCallOK, SeesOwn
      <3> QED BY <3>1, <3>2
    <2> QED BY <2>1, <2>2
  <1>8. BytesInv'
    <2> SUFFICES ASSUME NEW f \in File, files'[f] # None
                 PROVE  \/ \E m \in filed : m.data = files'[f]
                        \/ files'[f] \in cutShort
                        \/ \E v \in Worker : WriterOf(v, f)'
      BY <1>1 DEF BytesInv
    <2>1. CASE f = path /\ call.do = "put"
      <3>1. WriterOf(w, f)'
        BY <1>2, <1>3, <1>5, <2>1 DEF WriterOf
      <3> QED BY <3>1
    <2>2. CASE f = path /\ call.do # "put"
      BY <1>1, <1>5, <2>2 DEF PosixCallOK
    <2>3. CASE f # path
      <3>1. ASSUME NEW v \in Worker, WriterOf(v, f) PROVE WriterOf(v, f)'
        BY <1>1, <1>2, <1>5, <2>3, <3>1 DEF WriterOf
      <3> QED BY <1>5, <2>3, <3>1 DEF PosixInv, BytesInv
    <2> QED BY <2>1, <2>2, <2>3
  <1> QED BY <1>1, <1>2, <1>5, <1>6, <1>7, <1>8 DEF PosixInv, ReturnedInv

LEMMA FileSeen ==
  ASSUME NoneIsNoCall, PosixInv, NEW w \in Worker, StatFile(w) \/ ReadBytes(w)
  PROVE  PosixInv'
  <1> DEFINE found == files[calls[w].path]
             stats == [calls[w] EXCEPT !.at = "read", !.stated = found]
             reads == [calls[w] EXCEPT !.at = "execute", !.read = found]
  <1>1. /\ calls[w] # None /\ calls[w].at \in {"stat", "read"} /\ PosixCallOK(calls[w])
        /\ SeesOwn(calls[w]) /\ UNCHANGED <<files, filed, returned, cutShort>>
    BY DEF StatFile, ReadBytes, Reached, PosixInv
  <1>2. CASE calls' = [calls EXCEPT ![w] = None] /\ found = None
    BY <1>1, <1>2, PosixCallEnds DEF WriterOf
  <1>3. CASE StatFile(w) /\ calls' = [calls EXCEPT ![w] = stats]
    <2>1. calls[w].at = "stat"
      BY <1>3 DEF StatFile, Reached
    <2>2. /\ DOMAIN stats = CallKeys /\ stats.at = "read" /\ stats.path = calls[w].path
          /\ stats.do = calls[w].do /\ stats.data = calls[w].data /\ stats.stated = found
          /\ stats.overtaken = calls[w].overtaken /\ stats # None
      BY <1>1 DEF PosixCallOK, CallKeys, NoneIsNoCall
    <2> HIDE DEF stats
    <2>3. PosixCallOK(stats) /\ SeesOwn(stats)
      BY <1>1, <2>1, <2>2 DEF PosixCallOK, SeesOwn
    <2>4. ASSUME NEW f \in File, WriterOf(w, f)
          PROVE  /\ stats.path = f /\ stats.do = "put" /\ stats.data = files[f]
                 /\ stats.at = "read"
      BY <2>2, <2>4 DEF WriterOf
    <2> QED BY <1>1, <1>3, <2>2, <2>3, <2>4, PosixCallMoves
  <1>4. CASE ReadBytes(w) /\ calls' = [calls EXCEPT ![w] = reads]
    <2>1. calls[w].at = "read"
      BY <1>4 DEF ReadBytes, Reached
    <2>2. /\ DOMAIN reads = CallKeys /\ reads.at = "execute" /\ reads.path = calls[w].path
          /\ reads.do = calls[w].do /\ reads.data = calls[w].data /\ reads.read = found
          /\ reads.stated = calls[w].stated /\ reads.overtaken = calls[w].overtaken /\ reads # None
      BY <1>1 DEF PosixCallOK, CallKeys, NoneIsNoCall
    <2> HIDE DEF reads
    <2>3. PosixCallOK(reads) /\ SeesOwn(reads)
      BY <1>1, <2>1, <2>2 DEF PosixCallOK, SeesOwn
    <2>4. ASSUME NEW f \in File, WriterOf(w, f)
          PROVE  /\ reads.path = f /\ reads.do = "put" /\ reads.data = files[f]
                 /\ reads.at = "execute" /\ reads.read = files[f]
      BY <2>2, <2>4 DEF WriterOf
    <2> QED BY <1>1, <1>4, <2>2, <2>3, <2>4, PosixCallMoves
  <1> QED BY <1>2, <1>3, <1>4 DEF StatFile, ReadBytes

(* The manifest is stored, with what the call has read.                    *)
LEMMA ReadExecuted ==
  ASSUME PosixInv, NEW w \in Worker, ExecuteRead(w)
  PROVE  PosixInv'
  <1> DEFINE call == calls[w]
             row == [path |-> call.path, stated |-> call.stated, data |-> call.read]
  <1>1. /\ call # None /\ call.at = "execute" /\ SeesOwn(call)
        /\ calls' = [calls EXCEPT ![w] = None] /\ UNCHANGED <<files, cutShort>>
        /\ filed' = filed \cup {row}
    BY DEF ExecuteRead, Reached, PosixInv
  <1>2. \A v \in Worker : (PosixCallOK(calls[v]) /\ SeesOwn(calls[v]))'
    BY <1>1 DEF PosixInv, PosixCallOK, SeesOwn
  <1>3. BytesInv'
    <2>1. ASSUME NEW f \in File, WriterOf(w, f) PROVE row.data = files[f]
      BY <1>1, <2>1 DEF WriterOf
    <2> HIDE DEF row
    <2> QED BY <1>1, <2>1 DEF PosixInv, BytesInv, WriterOf
  <1>4. ReturnedInv'
    BY <1>1 DEF ExecuteRead, PosixInv, ReturnedInv, SeesOwn
  <1> QED BY <1>1, <1>2, <1>3, <1>4 DEF PosixInv

LEMMA PosixCutShort ==
  ASSUME PosixInv, NEW w \in Worker, CutShort(w)
  PROVE  PosixInv'
  <1>1. \A v \in Worker : (PosixCallOK(calls[v]) /\ SeesOwn(calls[v]))'
    BY DEF PosixInv, PosixCallOK, SeesOwn, CutShort
  <1>2. BytesInv'
    <2>1. cutShort \subseteq cutShort' /\ UNCHANGED <<files, filed>>
      BY DEF CutShort
    <2>2. ASSUME NEW f \in File, WriterOf(w, f) PROVE files[f] \in cutShort'
      BY <2>2 DEF WriterOf, CutShort
    <2>3. ASSUME NEW f \in File, NEW v \in Worker, v # w, WriterOf(v, f) PROVE WriterOf(v, f)'
      BY <2>3 DEF WriterOf, CutShort, PosixInv
    <2> QED BY <2>1, <2>2, <2>3 DEF PosixInv, BytesInv
  <1> QED BY <1>1, <1>2 DEF PosixInv, ReturnedInv, CutShort

(* However calls overlap, the bytes of a file are recorded unless their    *)
(* call was cut short or is under way, and a put_file that nobody overtook *)
(* recorded its own (adapters.py:304-309, 358-374).                        *)
THEOREM FilesAlwaysAccounted ==
  ASSUME NoneIsNoCall
  PROVE  PosixSpec => []FilesAccounted
  <1>1. PosixInit => PosixInv
    BY DEF PosixInit, PosixInv, PosixCallOK, SeesOwn, BytesInv, ReturnedInv
  <1>2. PosixInv /\ [PosixNext]_posixVars => PosixInv'
    <2> SUFFICES ASSUME PosixInv, [PosixNext]_posixVars PROVE PosixInv'
      OBVIOUS
    <2>1. ASSUME NEW w \in Worker, NEW f \in File, NEW d \in Datum, NEW overwrite \in BOOLEAN,
                 PutFile(w, f, d, overwrite)
          PROVE  PosixInv'
      BY <2>1, NoneIsNoCall, PosixCalled DEF PutFile
    <2>2. ASSUME NEW w \in Worker, NEW f \in File, NEW m \in filed, NEW overwrite \in BOOLEAN,
                 RehydrateFile(w, m, f, overwrite)
          PROVE  PosixInv'
      BY <2>2, NoneIsNoCall, PosixCalled DEF RehydrateFile
    <2>3. ASSUME NEW w \in Worker, NEW f \in File, ExecuteFile(w, f)
          PROVE  PosixInv'
      BY <2>3, NoneIsNoCall, PosixCalled DEF ExecuteFile
    <2>4. CASE UNCHANGED posixVars
      BY <2>4 DEF posixVars, PosixInv, PosixCallOK, SeesOwn, BytesInv, WriterOf, ReturnedInv
    <2> QED
      BY <2>1, <2>2, <2>3, <2>4, NoneIsNoCall, ExistenceChecked, FileReplaced, FileSeen,
         ReadExecuted, PosixCutShort DEF PosixNext
  <1>3. PosixInv => FilesAccounted
    BY DEF PosixInv, BytesInv, ReturnedInv, WriterOf, FilesAccounted
  <1> QED BY <1>1, <1>2, <1>3, PTL DEF PosixSpec
-----------------------------------------------------------------------------
(* Backup and restore.  Where an import has a staging directory.           *)
Staged == {"clear", "away", "in", "merge", "write"}

ImporterOK(i) ==
  /\ importer[i].at \in {"rest", "over", "drop"} \cup Staged
  /\ Busy(i) => /\ DOMAIN importer[i] = {"at", "began", "done"}
                /\ importer[i].began \in Nat /\ importer[i].began <= writes
  /\ IF importer[i].at \in Staged THEN staging[i] \in Directory /\ staging[i].from = "restore"
                                  ELSE staging[i] = None

ExportKeys == {"at", "area", "listed", "digest", "copied", "start", "touched"}

ExporterOK ==
  exporter = AtRest \/
    /\ DOMAIN exporter = ExportKeys /\ exporter.at \in {"list", "digest", "copy"}
    /\ exporter.digest \in Files /\ exporter.copied \in Files /\ exporter.start \in Files

RecoveryTypeOK ==
  /\ writes \in 1..(MaxWrites + 1) /\ faults \in Nat
  /\ live \in Directory \cup {None}
  /\ previous \in [{Pid(i) : i \in Import} -> Directory \cup {None}]
  /\ DOMAIN staging = Import /\ DOMAIN importer = Import /\ \A i \in Import : ImporterOK(i)
  /\ archive # None => archive.files \in Files
  /\ ExporterOK

(* The file that is about to be merged is missing, or newer than the merge. *)
MergeInv ==
  \A i \in Import : importer[i].at = "write" /\ OnlyImport(i) =>
    \A f \in Path : f = First(ToMerge(i)) /\ Exists(f) => live.files[f] > importer[i].began

RecoveryInv == RecoveryTypeOK /\ MergeInv

LEMMA SameMerge ==
  ASSUME NEW i \in Import, staging'[i] = staging[i], importer'[i] = importer[i]
  PROVE  ToMerge(i)' = ToMerge(i)
  BY DEF ToMerge

LEMMA Touches ==
  ASSUME RecoveryTypeOK, NEW touched, Touch(touched)
  PROVE  ExporterOK'
  BY DEF RecoveryTypeOK, ExporterOK, Touch, ExportKeys, AtRest

LEMMA NoFilesType == NoFiles \in Files
  BY RecoveryAssumption DEF NoFiles, Files

LEMMA DirectoryThere == \A d \in Directory : d # None
  BY RecoveryAssumption

(* What a step of the service does to the directory.                       *)
LEMMA ServiceStep ==
  ASSUME RecoveryTypeOK, NEW f \in Path, ServiceWrites(f) \/ FleetingEnds(f)
  PROVE  /\ live \in Directory /\ live' \in Directory /\ live'.from = live.from
         /\ \A g \in Path : live'.files[g] = live.files[g] \/ (g = f /\ live'.files[g] \in {0, writes + 1})
         /\ UNCHANGED <<previous, archive, importer, staging, faults>> /\ Touch({f})
         /\ writes' \in 1..(MaxWrites + 1) /\ writes <= writes'
  <1>1. CASE ServiceWrites(f)
    <2>1. live \in Directory /\ live' = [live EXCEPT !.files[f] = writes + 1]
      BY <1>1 DEF ServiceWrites, RecoveryTypeOK
    <2>2. writes + 1 \in 0..(MaxWrites + 1) /\ writes' = writes + 1 /\ writes \in 1..(MaxWrites + 1)
      BY <1>1, RecoveryAssumption DEF ServiceWrites, RecoveryTypeOK
    <2>3. /\ live' \in Directory /\ live'.from = live.from
          /\ \A g \in Path : live'.files[g] = IF g = f THEN writes + 1 ELSE live.files[g]
      BY <2>1, <2>2 DEF Directory, Files
    <2>4. writes' \in 1..(MaxWrites + 1) /\ writes <= writes'
      BY <2>2, RecoveryAssumption
    <2> QED BY <1>1, <2>1, <2>3, <2>4 DEF ServiceWrites
  <1>2. CASE FleetingEnds(f)
    <2>1. live \in Directory /\ live' = [live EXCEPT !.files[f] = 0]
      BY <1>2 DEF FleetingEnds, Exists, RecoveryTypeOK
    <2>2. 0 \in 0..(MaxWrites + 1) /\ writes' = writes /\ writes \in 1..(MaxWrites + 1)
      BY <1>2, RecoveryAssumption DEF FleetingEnds, RecoveryTypeOK
    <2>3. /\ live' \in Directory /\ live'.from = live.from
          /\ \A g \in Path : live'.files[g] = IF g = f THEN 0 ELSE live.files[g]
      BY <2>1, <2>2 DEF Directory, Files
    <2>4. writes' \in 1..(MaxWrites + 1) /\ writes <= writes'
      BY <2>2
    <2> QED BY <1>2, <2>1, <2>3, <2>4 DEF FleetingEnds
  <1> QED BY <1>1, <1>2

(* What a step of an import does to the directories and to itself.         *)
LEMMA ImportStep ==
  ASSUME RecoveryTypeOK, NEW i \in Import, NEW label, GoOn(i, label), Busy(i), writes' = writes,
         label \in Staged \cup {"drop"},
         \/ label \in Staged /\ importer[i].at \in Staged /\ staging' = staging
         \/ label = "drop" /\ staging' = [staging EXCEPT ![i] = None]
  PROVE  /\ DOMAIN importer' = Import /\ DOMAIN staging' = Import /\ \A j \in Import : ImporterOK(j)'
         /\ \A j \in Import : j # i => importer'[j] = importer[j] /\ staging'[j] = staging[j]
         /\ importer'[i].at = label /\ importer'[i].began = importer[i].began
         /\ importer'[i].done = importer[i].done
  <1>1. /\ DOMAIN importer' = Import /\ DOMAIN staging' = Import
        /\ \A j \in Import : j # i => importer'[j] = importer[j] /\ staging'[j] = staging[j]
        /\ importer'[i] = [importer[i] EXCEPT !.at = label]
    BY DEF RecoveryTypeOK, GoOn
  <1>2. DOMAIN importer[i] = {"at", "began", "done"}
    BY DEF RecoveryTypeOK, ImporterOK
  <1>3. /\ importer'[i].at = label /\ importer'[i].began = importer[i].began
        /\ importer'[i].done = importer[i].done /\ DOMAIN importer'[i] = {"at", "began", "done"}
    BY <1>1, <1>2
  <1>4. ImporterOK(i)'
    <2>1. importer[i].began \in Nat /\ importer[i].began <= writes
      BY DEF RecoveryTypeOK, ImporterOK
    <2>2. IF label \in Staged THEN staging'[i] \in Directory /\ staging'[i].from = "restore"
                              ELSE staging'[i] = None
      <3>1. CASE label \in Staged /\ importer[i].at \in Staged /\ staging' = staging
        BY <3>1 DEF RecoveryTypeOK, ImporterOK
      <3>2. CASE label = "drop" /\ staging' = [staging EXCEPT ![i] = None]
        BY <3>2 DEF RecoveryTypeOK, Staged
      <3> QED BY <3>1, <3>2
    <2> QED BY <1>3, <2>1, <2>2 DEF ImporterOK
  <1>5. ASSUME NEW j \in Import, j # i PROVE ImporterOK(j)'
    BY <1>1, <1>5 DEF RecoveryTypeOK, ImporterOK, Busy
  <1> QED BY <1>1, <1>3, <1>4, <1>5

LEMMA ImportEnds ==
  ASSUME RecoveryTypeOK, NEW i \in Import, EndImport(i), writes' = writes
  PROVE  /\ DOMAIN importer' = Import /\ DOMAIN staging' = Import /\ \A j \in Import : ImporterOK(j)'
         /\ \A j \in Import : j # i => importer'[j] = importer[j] /\ staging'[j] = staging[j]
         /\ importer'[i].at = "over" /\ staging'[i] = None
  <1>1. /\ DOMAIN importer' = Import /\ DOMAIN staging' = Import
        /\ \A j \in Import : j # i => importer'[j] = importer[j] /\ staging'[j] = staging[j]
        /\ importer'[i].at = "over" /\ staging'[i] = None
    BY DEF RecoveryTypeOK, EndImport
  <1>2. ASSUME NEW j \in Import PROVE ImporterOK(j)'
    BY <1>1 DEF RecoveryTypeOK, ImporterOK, Busy, Staged
  <1> QED BY <1>1, <1>2

(* A step of another import: the one that merges is not the only one.      *)
LEMMA OthersMerge ==
  ASSUME MergeInv, NEW i \in Import, importer'[i].at \notin {"rest", "write"},
         \A j \in Import : j # i => importer'[j] = importer[j]
  PROVE  MergeInv'
  BY DEF MergeInv, OnlyImport

(* A step of the service or of an export: what the service makes is new.   *)
LEMMA MergeStays ==
  ASSUME RecoveryInv, UNCHANGED <<importer, staging>>,
         \A f \in Path : Exists(f)' =>
           (live'.files[f] = live.files[f] /\ Exists(f)) \/ live'.files[f] = writes + 1
  PROVE  MergeInv'
  <1> SUFFICES ASSUME NEW i \in Import, importer[i].at = "write", OnlyImport(i),
                      NEW f \in Path, f = First(ToMerge(i)), Exists(f)'
               PROVE  live'.files[f] > importer[i].began
    BY SameMerge DEF MergeInv, OnlyImport
  <1>1. CASE live'.files[f] = live.files[f] /\ Exists(f)
    BY <1>1 DEF RecoveryInv, MergeInv
  <1>2. CASE live'.files[f] = writes + 1
    BY <1>2 DEF RecoveryInv, RecoveryTypeOK, ImporterOK, Busy
  <1> QED BY <1>1, <1>2

LEMMA ServiceGoesOn ==
  ASSUME RecoveryInv, NEW f \in Path, ServiceWrites(f) \/ FleetingEnds(f)
  PROVE  RecoveryInv'
  <1>1. RecoveryTypeOK
    BY DEF RecoveryInv
  <1>2. /\ live \in Directory /\ live' \in Directory
        /\ \A g \in Path : live'.files[g] = live.files[g] \/ (g = f /\ live'.files[g] \in {0, writes + 1})
        /\ UNCHANGED <<previous, archive, importer, staging, faults>> /\ Touch({f})
        /\ writes' \in 1..(MaxWrites + 1) /\ writes <= writes'
    BY <1>1, ServiceStep
  <1>3. MergeInv'
    BY <1>2, MergeStays, DirectoryThere DEF Exists
  <1>4. ASSUME NEW j \in Import PROVE ImporterOK(j)'
    BY <1>1, <1>2 DEF RecoveryTypeOK, ImporterOK, Busy
  <1>5. ExporterOK'
    BY <1>1, <1>2, Touches
  <1> QED BY <1>1, <1>2, <1>3, <1>4, <1>5 DEF RecoveryInv, RecoveryTypeOK

LEMMA Recreated ==
  ASSUME RecoveryInv, Recreate
  PROVE  RecoveryInv'
  <1>1. live' = [from |-> "nowhere", files |-> NoFiles] /\ \A f \in Path : ~Exists(f)'
    BY DEF Recreate, Exists, NoFiles
  <1>2. MergeInv'
    BY <1>1, MergeStays DEF Recreate
  <1>3. live' \in Directory
    BY <1>1, NoFilesType DEF Directory
  <1>4. faults' \in Nat
    BY DEF Recreate, Fault, RecoveryInv, RecoveryTypeOK
  <1>5. ASSUME NEW j \in Import PROVE ImporterOK(j)'
    BY DEF Recreate, RecoveryInv, RecoveryTypeOK, ImporterOK, Busy
  <1> QED BY <1>2, <1>3, <1>4, <1>5 DEF Recreate, RecoveryInv, RecoveryTypeOK, ExporterOK

LEMMA ExportGoesOn ==
  ASSUME RecoveryInv,
         BeginExport \/ ListArea \/ DigestFile \/ CopyFile \/ Publish \/ ExportFails
  PROVE  RecoveryInv'
  <1>1. UNCHANGED <<live, previous, writes, importer, staging, faults>>
    BY DEF BeginExport, ListArea, DigestFile, CopyFile, Publish, ExportFails
  <1>2. MergeInv'
    BY <1>1, MergeStays DEF Exists
  <1>3. ExporterOK' /\ (archive # None => archive.files \in Files)'
    <2>1. ExporterOK /\ (archive # None => archive.files \in Files) /\ live \in Directory \cup {None}
      BY DEF RecoveryInv, RecoveryTypeOK
    <2>2. exporter.at \in {"list", "digest", "copy"} =>
            /\ DOMAIN exporter = ExportKeys
            /\ exporter.digest \in Files /\ exporter.copied \in Files /\ exporter.start \in Files
      BY <2>1 DEF ExporterOK, AtRest
    <2>3. \A f : Exists(f) => live \in Directory /\ live.files \in Files
      BY <2>1 DEF Exists, Directory
    <2>4. CASE BeginExport
      <3>1. live.files \in Files
        BY <2>1, <2>4 DEF BeginExport, Directory
      <3>2. /\ DOMAIN exporter' = ExportKeys /\ exporter'.at = "list" /\ archive' = archive
            /\ exporter'.digest = NoFiles /\ exporter'.copied = NoFiles /\ exporter'.start = live.files
        BY <2>4 DEF BeginExport, ExportKeys
      <3> QED BY <2>1, <3>1, <3>2, NoFilesType DEF ExporterOK
    <2>5. CASE ListArea
      <3>1. /\ DOMAIN exporter' = ExportKeys /\ exporter'.at \in {"list", "digest"}
            /\ exporter'.digest = exporter.digest /\ exporter'.copied = exporter.copied
            /\ exporter'.start = exporter.start /\ archive' = archive
        BY <2>2, <2>5 DEF ListArea, ExportKeys
      <3> QED BY <2>1, <2>2, <2>5, <3>1 DEF ExporterOK, ListArea
    <2>6. CASE DigestFile
      <3> DEFINE f == First(Remaining)
      <3>1. /\ DOMAIN exporter' = ExportKeys /\ exporter'.at = "copy"
            /\ exporter'.digest = [exporter.digest EXCEPT ![f] = live.files[f]]
            /\ exporter'.copied = exporter.copied
            /\ exporter'.start = exporter.start /\ archive' = archive
        BY <2>2, <2>6 DEF DigestFile, ExportKeys
      <3>2. live.files \in Files /\ exporter.at = "digest"
        BY <2>3, <2>6 DEF DigestFile
      <3> HIDE DEF f
      <3>3. exporter'.digest \in Files
        BY <2>2, <3>1, <3>2 DEF Files
      <3> QED BY <2>1, <2>2, <3>1, <3>2, <3>3 DEF ExporterOK
    <2>7. CASE CopyFile
      <3> DEFINE f == First(Remaining)
      <3>1. /\ DOMAIN exporter' = ExportKeys /\ exporter'.at = "digest"
            /\ exporter'.copied = [exporter.copied EXCEPT ![f] = live.files[f]]
            /\ exporter'.digest = exporter.digest
            /\ exporter'.start = exporter.start /\ archive' = archive
        BY <2>2, <2>7 DEF CopyFile, ExportKeys
      <3>2. live.files \in Files /\ exporter.at = "copy"
        BY <2>3, <2>7 DEF CopyFile
      <3> HIDE DEF f
      <3>3. exporter'.copied \in Files
        BY <2>2, <3>1, <3>2 DEF Files
      <3> QED BY <2>1, <2>2, <3>1, <3>2, <3>3 DEF ExporterOK
    <2>8. CASE Publish
      BY <2>1, <2>2, <2>8 DEF Publish, ExporterOK, AtRest
    <2>9. CASE ExportFails
      BY <2>1, <2>9 DEF ExportFails, ExporterOK, AtRest
    <2> QED BY <2>4, <2>5, <2>6, <2>7, <2>8, <2>9
  <1>4. ASSUME NEW j \in Import PROVE ImporterOK(j)'
    BY <1>1 DEF RecoveryInv, RecoveryTypeOK, ImporterOK, Busy
  <1> QED BY <1>1, <1>2, <1>3, <1>4 DEF RecoveryInv, RecoveryTypeOK

-----------------------------------------------------------------------------
LEMMA ImportBegins ==
  ASSUME RecoveryInv, NEW i \in Import, NEW replace \in BOOLEAN, BeginImport(i, replace)
  PROVE  RecoveryInv'
  <1>1. /\ UNCHANGED <<live, previous, writes, exporter, archive>> /\ archive # None
        /\ RecoveryTypeOK /\ faults' \in Nat
    BY DEF BeginImport, Fault, RecoveryInv, RecoveryTypeOK
  <1>2. CASE Verified
    <2> DEFINE call == [at |-> IF replace THEN "clear" ELSE "merge", began |-> writes, done |-> {}]
               directory == [from |-> "restore", files |-> archive.files]
    <2>1. importer' = [importer EXCEPT ![i] = call] /\ staging' = [staging EXCEPT ![i] = directory]
      BY <1>2 DEF BeginImport
    <2>2. /\ DOMAIN call = {"at", "began", "done"} /\ call.began = writes
          /\ call.at \in Staged /\ call.at # "write"
      BY DEF Staged
    <2>3. directory \in Directory /\ directory.from = "restore"
      BY <1>1 DEF Directory, RecoveryTypeOK
    <2> HIDE DEF call, directory
    <2>4. /\ DOMAIN importer' = Import /\ DOMAIN staging' = Import
          /\ importer'[i] = call /\ staging'[i] = directory
          /\ \A j \in Import : j # i => importer'[j] = importer[j] /\ staging'[j] = staging[j]
      BY <1>1, <2>1 DEF RecoveryTypeOK
    <2>5. MergeInv'
      BY <2>2, <2>4, OthersMerge DEF RecoveryInv, Staged
    <2>6. ASSUME NEW j \in Import PROVE ImporterOK(j)'
      <3>1. CASE j = i
        BY <1>1, <2>2, <2>3, <2>4, <3>1 DEF RecoveryTypeOK, ImporterOK
      <3>2. CASE j # i
        BY <1>1, <2>4, <3>2 DEF RecoveryTypeOK, ImporterOK, Busy
      <3> QED BY <3>1, <3>2
    <2> QED BY <1>1, <2>4, <2>5, <2>6 DEF RecoveryInv, RecoveryTypeOK, ExporterOK
  <1>3. CASE ~Verified
    <2>1. EndImport(i)
      BY <1>3 DEF BeginImport
    <2>2. MergeInv'
      BY <1>1, <2>1, ImportEnds, OthersMerge DEF RecoveryInv
    <2> QED BY <1>1, <2>1, <2>2, ImportEnds DEF RecoveryInv, RecoveryTypeOK, ExporterOK
  <1> QED BY <1>2, <1>3

(* A step of an import that ends, or goes on anywhere but to write a file. *)
LEMMA ImportSteps ==
  ASSUME RecoveryInv, NEW i \in Import, Busy(i), writes' = writes, archive' = archive,
         \/ EndImport(i)
         \/ importer[i].at \in Staged /\ staging' = staging
              /\ \E label \in {"away", "in"} : GoOn(i, label)
         \/ GoOn(i, "drop") /\ staging' = [staging EXCEPT ![i] = None],
         live' \in Directory \cup {None}, ExporterOK', faults' \in Nat,
         previous' \in [{Pid(j) : j \in Import} -> Directory \cup {None}]
  PROVE  RecoveryInv'
  <1>1. CASE EndImport(i)
    <2>1. MergeInv'
      BY <1>1, ImportEnds, OthersMerge DEF RecoveryInv
    <2> QED BY <1>1, <2>1, ImportEnds DEF RecoveryInv, RecoveryTypeOK
  <1>2. ASSUME NEW label \in {"away", "in", "drop"}, GoOn(i, label),
               \/ label \in Staged /\ importer[i].at \in Staged /\ staging' = staging
               \/ label = "drop" /\ staging' = [staging EXCEPT ![i] = None]
        PROVE  RecoveryInv'
    <2>1. RecoveryTypeOK /\ label \in Staged \cup {"drop"}
      BY DEF RecoveryInv, Staged
    <2>2. /\ DOMAIN importer' = Import /\ DOMAIN staging' = Import /\ \A j \in Import : ImporterOK(j)'
          /\ \A j \in Import : j # i => importer'[j] = importer[j]
          /\ importer'[i].at = label
      BY <1>2, <2>1, ImportStep
    <2>3. MergeInv'
      BY <1>2, <2>2, OthersMerge DEF RecoveryInv
    <2> QED BY <2>1, <2>2, <2>3 DEF RecoveryInv, RecoveryTypeOK
  <1> QED BY <1>1, <1>2 DEF Staged

LEMMA ReplacementSteps ==
  ASSUME RecoveryInv, NEW i \in Import,
         \/ ClearPrevious(i) \/ MoveAway(i) \/ MoveAwayBlocked(i) \/ MoveIn(i) \/ MoveInBlocked(i)
         \/ MoveInFails(i) \/ DropPrevious(i) \/ ImportDies(i)
  PROVE  RecoveryInv'
  <1> USE DEF RecoveryInv
  <1>1. /\ Busy(i) /\ writes' = writes /\ archive' = archive
        /\ \/ EndImport(i)
           \/ importer[i].at \in Staged /\ staging' = staging
                /\ \E label \in {"away", "in"} : GoOn(i, label)
           \/ GoOn(i, "drop") /\ staging' = [staging EXCEPT ![i] = None]
    BY DEF ClearPrevious, MoveAway, MoveAwayBlocked, MoveIn, MoveInBlocked, MoveInFails,
           DropPrevious, ImportDies, Busy, Staged
  <1>2. ExporterOK'
    <2>1. UNCHANGED exporter \/ \E touched : Touch(touched)
      BY DEF ClearPrevious, MoveAway, MoveAwayBlocked, MoveIn, MoveInBlocked, MoveInFails,
             DropPrevious, ImportDies
    <2> QED BY <2>1, Touches DEF RecoveryTypeOK, ExporterOK
  <1>3. faults' \in Nat
    BY DEF ClearPrevious, MoveAway, MoveAwayBlocked, MoveIn, MoveInBlocked, MoveInFails, Fault,
           DropPrevious, ImportDies, RecoveryTypeOK
  <1>4. /\ Pid(i) \in {Pid(j) : j \in Import} /\ live \in Directory \cup {None}
        /\ previous \in [{Pid(j) : j \in Import} -> Directory \cup {None}]
    BY DEF RecoveryTypeOK
  <1>5. /\ live' \in {live, None, previous[Pid(i)]} \/ MoveIn(i)
        /\ \/ previous' = previous
           \/ \E d \in {None, live} : previous' = [previous EXCEPT ![Pid(i)] = d]
    BY DEF ClearPrevious, MoveAway, MoveAwayBlocked, KeptAside, MoveIn, MoveInBlocked, MoveInFails,
           PutBack, DropPrevious, ImportDies
  <1>6. MoveIn(i) => live' \in Directory
    BY DEF MoveIn, RecoveryTypeOK, ImporterOK, Staged
  <1>7. live' \in Directory \cup {None} /\ previous' \in [{Pid(j) : j \in Import} -> Directory \cup {None}]
    BY <1>4, <1>5, <1>6
  <1> QED BY <1>1, <1>2, <1>3, <1>7, ImportSteps

(* The merge looks for a file, which may make it the next to write.        *)
LEMMA FileMerged ==
  ASSUME RecoveryInv, NEW i \in Import, MergeFile(i)
  PROVE  RecoveryInv'
  <1>1. /\ Busy(i) /\ UNCHANGED <<live, previous, writes, exporter, archive, faults>>
        /\ importer[i].at = "merge" /\ RecoveryTypeOK
    BY DEF MergeFile, Busy, RecoveryInv
  <1>2. CASE EndImport(i)
    BY <1>1, <1>2, ImportSteps DEF RecoveryInv, RecoveryTypeOK, ExporterOK
  <1>3. CASE /\ importer' = [importer EXCEPT ![i].done = @ \cup {First(ToMerge(i))}]
             /\ UNCHANGED staging
    <2>1. /\ importer'[i].at = "merge" /\ \A j \in Import : j # i => importer'[j] = importer[j]
          /\ DOMAIN importer' = Import /\ \A j \in Import : ImporterOK(j)'
      BY <1>1, <1>3 DEF RecoveryTypeOK, ImporterOK, Busy
    <2>2. MergeInv'
      BY <2>1, OthersMerge DEF RecoveryInv
    <2> QED BY <1>1, <1>3, <2>1, <2>2 DEF RecoveryInv, RecoveryTypeOK, ExporterOK
  <1>4. CASE ~Exists(First(ToMerge(i))) /\ GoOn(i, "write") /\ UNCHANGED staging
    <2>1. /\ DOMAIN importer' = Import /\ \A j \in Import : ImporterOK(j)'
          /\ \A j \in Import : j # i => importer'[j] = importer[j]
          /\ importer'[i].at = "write" /\ importer'[i].done = importer[i].done
      BY <1>1, <1>4, ImportStep DEF Staged
    <2>2. ToMerge(i)' = ToMerge(i)
      BY <1>4, <2>1 DEF ToMerge
    <2>3. ~Exists(First(ToMerge(i)))'
      BY <1>1, <1>4, <2>2 DEF Exists
    <2>4. MergeInv'
      <3>1. ASSUME NEW j \in Import, j # i PROVE ~OnlyImport(j)'
        BY <2>1, <3>1 DEF OnlyImport
      <3> QED BY <2>3, <3>1 DEF MergeInv
    <2> QED BY <1>1, <1>4, <2>1, <2>4 DEF RecoveryInv, RecoveryTypeOK, ExporterOK
  <1> QED BY <1>2, <1>3, <1>4 DEF MergeFile, SkipsExisting

(* What writing a merged file does to the directory.                       *)
LEMMA WriteStep ==
  ASSUME RecoveryTypeOK, NEW i \in Import, WriteMerged(i)
  PROVE  /\ live' \in Directory
         /\ IF live = None THEN live'.from = "nowhere" ELSE live'.from = live.from
         /\ Touch({First(ToMerge(i))})
         /\ \A g \in Path : g # First(ToMerge(i)) /\ live # None => live'.files[g] = live.files[g]
  <1> DEFINE f == First(ToMerge(i))
             directory == IF live = None THEN [from |-> "nowhere", files |-> NoFiles] ELSE live
  <1>1. live' = [directory EXCEPT !.files[f] = staging[i].files[f]] /\ Touch({f})
    BY DEF WriteMerged
  <1>2. /\ directory \in Directory
        /\ IF live = None THEN directory.from = "nowhere" ELSE directory = live
    BY NoFilesType DEF RecoveryTypeOK, Directory
  <1>3. staging[i].files \in Files
    BY DEF WriteMerged, RecoveryTypeOK, ImporterOK, Staged, Directory
  <1> HIDE DEF f, directory
  <1>4. /\ live' \in Directory /\ live'.from = directory.from
        /\ \A g \in Path : g # f => live'.files[g] = directory.files[g]
    BY <1>1, <1>2, <1>3 DEF Directory, Files
  <1> QED BY <1>1, <1>2, <1>4 DEF f

LEMMA MergedWritten ==
  ASSUME RecoveryInv, NEW i \in Import, WriteMerged(i)
  PROVE  RecoveryInv'
  <1> DEFINE f == First(ToMerge(i))
  <1>1. /\ UNCHANGED <<previous, writes, archive, staging>> /\ importer[i].at = "write"
        /\ importer' = [importer EXCEPT ![i].at = "merge", ![i].done = @ \cup {f}]
        /\ RecoveryTypeOK /\ faults' \in Nat
    BY DEF WriteMerged, RecoveryInv, RecoveryTypeOK
  <1> HIDE DEF f
  <1>2. /\ importer'[i].at = "merge" /\ \A j \in Import : j # i => importer'[j] = importer[j]
        /\ DOMAIN importer' = Import /\ \A j \in Import : ImporterOK(j)'
    BY <1>1 DEF RecoveryTypeOK, ImporterOK, Busy, Staged
  <1>3. MergeInv'
    BY <1>2, OthersMerge DEF RecoveryInv
  <1>4. live' \in Directory /\ ExporterOK'
    BY <1>1, WriteStep, Touches
  <1> QED BY <1>1, <1>2, <1>3, <1>4 DEF RecoveryInv, RecoveryTypeOK

LEMMA RecoveryInvariance == RecoverySpec => []RecoveryInv
  <1>1. RecoveryInit => RecoveryInv
    <2> SUFFICES ASSUME RecoveryInit PROVE RecoveryInv
      OBVIOUS
    <2>1. live \in Directory /\ writes \in 1..(MaxWrites + 1)
      BY RecoveryAssumption DEF RecoveryInit, Directory, Files
    <2>2. RecoveryTypeOK
      BY <2>1 DEF RecoveryInit, RecoveryTypeOK, ImporterOK, ExporterOK, AtRest, Busy, Staged
    <2>3. MergeInv
      BY DEF RecoveryInit, MergeInv, AtRest
    <2> QED BY <2>2, <2>3 DEF RecoveryInv
  <1>2. RecoveryInv /\ [RecoveryNext]_recoveryVars => RecoveryInv'
    <2> SUFFICES ASSUME RecoveryInv, [RecoveryNext]_recoveryVars PROVE RecoveryInv'
      OBVIOUS
    <2>1. CASE UNCHANGED recoveryVars
      <3>1. RecoveryTypeOK'
        BY <2>1 DEF recoveryVars, RecoveryInv, RecoveryTypeOK, ImporterOK, ExporterOK, Busy
      <3>2. MergeInv'
        BY <2>1, MergeStays DEF recoveryVars, Exists
      <3> QED BY <3>1, <3>2 DEF RecoveryInv
    <2> QED
      BY <2>1, ServiceGoesOn, Recreated, ExportGoesOn, ImportBegins, ReplacementSteps, FileMerged,
         MergedWritten DEF RecoveryNext
  <1> QED BY <1>1, <1>2, PTL DEF RecoverySpec

(* A merge that is the only import changes a file that exists only if the  *)
(* service made that one since (disaster_recovery.py:148-157).             *)
THEOREM MergesAlwaysKeepFiles == RecoverySpec => MergeKeepsFiles
  <1> DEFINE Merges ==
        \A i \in Import : importer[i].at = "write" /\ OnlyImport(i) /\ importer'[i] # importer[i] =>
          \A f \in Path : Exists(f) /\ live'.files[f] # live.files[f] =>
                            live.files[f] > importer[i].began
  <1>1. RecoveryInv /\ [RecoveryNext]_recoveryVars => [Merges]_recoveryVars
    <2> SUFFICES ASSUME RecoveryInv, RecoveryNext, NEW i \in Import, importer[i].at = "write",
                        OnlyImport(i), importer'[i] # importer[i], NEW f \in Path, Exists(f),
                        live'.files[f] # live.files[f]
                 PROVE  live.files[f] > importer[i].began
      BY DEF recoveryVars
    <2>1. WriteMerged(i) \/ ImportDies(i)
      <3>1. ASSUME NEW j \in Import, j # i PROVE importer[j].at = "rest"
        BY <3>1 DEF OnlyImport
      <3>2. ASSUME NEW j \in Import, NEW replace \in BOOLEAN, BeginImport(j, replace) PROVE FALSE
        BY <3>2 DEF BeginImport, EndImport
      <3>3. ASSUME NEW j \in Import,
                   ClearPrevious(j) \/ MoveAway(j) \/ MoveAwayBlocked(j) \/ MoveIn(j) \/ MoveInBlocked(j) \/ MoveInFails(j)
                     \/ DropPrevious(j) \/ MergeFile(j)
            PROVE  FALSE
        BY <3>1, <3>3 DEF ClearPrevious, MoveAway, MoveAwayBlocked, MoveIn, MoveInBlocked, MoveInFails, DropPrevious,
                          MergeFile
      <3>4. ASSUME NEW j \in Import, WriteMerged(j) \/ ImportDies(j) PROVE j = i
        BY <3>1, <3>4 DEF WriteMerged, ImportDies, Busy
      <3>5. ~(\E g \in Path : ServiceWrites(g) \/ FleetingEnds(g))
        BY DEF ServiceWrites, FleetingEnds
      <3>6. ~(Recreate \/ BeginExport \/ ListArea \/ DigestFile \/ CopyFile \/ Publish \/ ExportFails)
        BY DEF Recreate, BeginExport, ListArea, DigestFile, CopyFile, Publish, ExportFails
      <3> QED BY <3>2, <3>3, <3>4, <3>5, <3>6 DEF RecoveryNext
    <2>2. WriteMerged(i)
      BY <2>1 DEF ImportDies
    <2>3. DOMAIN live = {"from", "files"} /\ DOMAIN live.files = Path /\ live # None
      BY DEF Exists, RecoveryInv, RecoveryTypeOK, Directory, Files
    <2>4. f = First(ToMerge(i))
      BY <2>2, <2>3 DEF WriteMerged
    <2> QED BY <2>4 DEF RecoveryInv, MergeInv
  <1>2. MergeKeepsFiles <=> [][Merges]_recoveryVars
    BY DEF MergeKeepsFiles
  <1> HIDE DEF Merges
  <1> QED BY <1>1, <1>2, RecoveryInvariance, PTL DEF RecoverySpec

-----------------------------------------------------------------------------
(* The state survives a fault.  Busy imports of different processes ...     *)
Alone == \A i, j \in Import : Busy(i) /\ Busy(j) /\ Pid(i) = Pid(j) => i = j

(* ... that have cleared what an earlier import kept aside.                *)
Cleared == \A i \in Import : importer[i].at = "away" => previous[Pid(i)] = None

(* No directory is one that was made anew.                                 *)
NoneMadeAnew ==
  /\ live = None \/ Whole(live)
  /\ \A i \in Import : previous[Pid(i)] = None \/ Whole(previous[Pid(i)])

(* A state is kept aside, and no import is about to remove it.             *)
KeptBy(i) ==
  Whole(previous[Pid(i)]) /\ \A j \in Import : importer[j].at = "drop" => Pid(j) # Pid(i)
SomeKept == \E i \in Import : KeptBy(i)

ComesIn(labels) == \E i \in Import : importer[i].at \in labels

(* Without a fault the state is there, or with the import that moved it.   *)
FaultlessInv ==
  faults = 0 =>
    /\ NoneMadeAnew /\ Alone /\ Cleared
    /\ live = None => \E i \in Import : importer[i].at = "in" /\ previous[Pid(i)] # None

FaultInv ==
  faults = 1 =>
    /\ NoneMadeAnew \/ (Alone /\ Cleared)
    /\ live = None => ComesIn({"away", "in"}) \/ SomeKept
    /\ live # None /\ ~Whole(live) => ComesIn({"away"}) \/ SomeKept

SurvivalInv == FaultlessInv /\ FaultInv

LEMMA SurvivalSuffices ==
  ASSUME RecoveryTypeOK, SurvivalInv PROVE StateSurvives
  <1> SUFFICES ASSUME faults <= 1, ~Whole(live)
               PROVE  \/ \E pid \in DOMAIN previous : Whole(previous[pid])
                      \/ \E i \in Import : Busy(i) /\ staging[i] # None
    BY DEF StateSurvives
  <1>1. /\ \A i \in Import : Pid(i) \in DOMAIN previous
        /\ \A i \in Import : importer[i].at \in {"away", "in"} => Busy(i) /\ staging[i] # None
    BY DirectoryThere DEF RecoveryTypeOK, ImporterOK, Staged, Busy
  <1>2. CASE faults = 0
    BY <1>1, <1>2 DEF SurvivalInv, FaultlessInv, NoneMadeAnew
  <1>3. CASE faults = 1
    BY <1>1, <1>3 DEF SurvivalInv, FaultInv, ComesIn, SomeKept, KeptBy
  <1> QED BY <1>2, <1>3 DEF RecoveryTypeOK

(* A step that leaves the replacements and what they keep as they are.     *)
LEMMA SurvivesElsewhere ==
  ASSUME SurvivalInv, UNCHANGED <<previous, faults>>,
         \A i \in Import : \/ importer'[i].at = importer[i].at
                          \/ {importer[i].at, importer'[i].at} \subseteq {"merge", "write"},
         (live' = None) <=> (live = None), Whole(live)' <=> Whole(live)
  PROVE  SurvivalInv'
  <1>1. /\ NoneMadeAnew => NoneMadeAnew'
        /\ Alone => Alone'
        /\ Cleared => Cleared'
    BY DEF NoneMadeAnew, Alone, Cleared, Busy, Whole
  <1>2. FaultlessInv'
    BY <1>1 DEF SurvivalInv, FaultlessInv
  <1>3. /\ SomeKept => SomeKept'
        /\ \A labels \in {{"away"}, {"away", "in"}} : ComesIn(labels) => ComesIn(labels)'
    BY DEF SomeKept, KeptBy, ComesIn, Whole
  <1>4. FaultInv'
    BY <1>1, <1>3 DEF SurvivalInv, FaultInv
  <1> QED BY <1>2, <1>4 DEF SurvivalInv

(* The state directory is made anew, by the service or by a merge.         *)
LEMMA SurvivesRecreation ==
  ASSUME RecoveryTypeOK, SurvivalInv, live = None, live' # None, faults' = faults + 1,
         previous' = previous,
         \A i \in Import : importer'[i].at = importer[i].at \/
                             (importer[i].at = "write" /\ importer'[i].at = "merge")
  PROVE  SurvivalInv'
  <1>1. faults \in Nat
    BY DEF RecoveryTypeOK
  <1>2. CASE faults = 0
    <2>1. Alone /\ Cleared /\ NoneMadeAnew
      BY <1>2 DEF SurvivalInv, FaultlessInv
    <2>2. Alone' /\ Cleared'
      BY <2>1 DEF Alone, Cleared, Busy
    <2>3. PICK i \in Import : importer[i].at = "in" /\ previous[Pid(i)] # None
      BY <1>2 DEF SurvivalInv, FaultlessInv
    <2>4. KeptBy(i)'
      <3>1. Whole(previous[Pid(i)])'
        BY <2>1, <2>3 DEF NoneMadeAnew, Whole
      <3>2. ASSUME NEW j \in Import, importer'[j].at = "drop", Pid(j) = Pid(i) PROVE FALSE
        BY <2>1, <2>3, <3>2 DEF Alone, Busy
      <3> QED BY <3>1, <3>2 DEF KeptBy
    <2> QED BY <1>2, <2>2, <2>4 DEF SurvivalInv, FaultlessInv, FaultInv, SomeKept
  <1>3. CASE faults # 0
    BY <1>1, <1>3 DEF SurvivalInv, FaultlessInv, FaultInv
  <1> QED BY <1>2, <1>3

(* An import ends that kept nothing that is needed: it does not replace,   *)
(* or the state is there, or it moved nothing.                             *)
LEMMA SurvivesEnd ==
  ASSUME RecoveryTypeOK, SurvivalInv, NEW i \in Import, EndImport(i), UNCHANGED <<live, previous, faults>>,
         \/ importer[i].at \in {"rest", "clear", "merge", "write"}
         \/ importer[i].at \in {"away", "in"} /\ live # None /\ (importer[i].at = "away" => previous[Pid(i)] # None)
  PROVE  SurvivalInv'
  <1>1. /\ \A j \in Import : j # i => importer'[j] = importer[j]
        /\ importer'[i].at = "over"
    BY ImportEnds DEF RecoveryTypeOK, EndImport
  <1>2. /\ NoneMadeAnew => NoneMadeAnew'
        /\ Alone => Alone'
        /\ Cleared => Cleared'
    BY <1>1 DEF NoneMadeAnew, Alone, Cleared, Busy, Whole
  <1>3. FaultlessInv'
    BY <1>1, <1>2 DEF SurvivalInv, FaultlessInv
  <1>4. SomeKept => SomeKept'
    BY <1>1 DEF SomeKept, KeptBy, Whole
  <1>5. FaultInv'
    <2> SUFFICES ASSUME faults = 1 PROVE FaultInv'
      BY DEF FaultInv
    <2>1. NoneMadeAnew' \/ (Alone' /\ Cleared')
      BY <1>2 DEF SurvivalInv, FaultInv
    <2>2. live = None => ComesIn({"away", "in"})' \/ SomeKept'
      BY <1>1, <1>4 DEF SurvivalInv, FaultInv, ComesIn
    <2>3. live # None /\ ~Whole(live) => ComesIn({"away"})' \/ SomeKept'
      BY <1>1, <1>4 DEF SurvivalInv, FaultInv, ComesIn, Cleared, NoneMadeAnew
    <2> QED BY <2>1, <2>2, <2>3 DEF FaultInv, Whole
  <1> QED BY <1>3, <1>5 DEF SurvivalInv

LEMMA SurvivesBegin ==
  ASSUME RecoveryTypeOK, SurvivalInv, NEW i \in Import, NEW replace \in BOOLEAN, BeginImport(i, replace)
  PROVE  SurvivalInv'
  <1>1. /\ UNCHANGED <<live, previous>> /\ importer[i].at = "rest"
        /\ \A j \in Import : j # i => importer'[j] = importer[j]
        /\ importer'[i].at \in {"clear", "merge", "over"}
    BY DEF BeginImport, EndImport, RecoveryTypeOK
  <1>2. /\ NoneMadeAnew => NoneMadeAnew'
        /\ Cleared => Cleared'
        /\ SomeKept => SomeKept'
        /\ \A labels \in {{"away"}, {"away", "in"}} : ComesIn(labels) => ComesIn(labels)'
    BY <1>1 DEF NoneMadeAnew, Cleared, SomeKept, KeptBy, ComesIn, Whole
  <1>3. live = None /\ (\E j \in Import : importer[j].at = "in" /\ previous[Pid(j)] # None) =>
          \E j \in Import : importer'[j].at = "in" /\ previous'[Pid(j)] # None
    BY <1>1
  <1>4. CASE \E j \in Import : Busy(j) /\ Pid(j) = Pid(i)
    <2>1. faults' = faults + 1 /\ faults \in Nat
      BY <1>4 DEF BeginImport, Fault, RecoveryTypeOK
    <2>2. CASE faults = 0
      <3>1. /\ NoneMadeAnew' /\ (live = None \/ Whole(live))
            /\ live = None => ComesIn({"away", "in"})
        BY <1>2, <2>2 DEF SurvivalInv, FaultlessInv, NoneMadeAnew, ComesIn
      <3> QED BY <1>1, <1>2, <2>1, <2>2, <3>1 DEF SurvivalInv, FaultlessInv, FaultInv, Whole
    <2>3. CASE faults # 0
      BY <2>1, <2>3 DEF SurvivalInv, FaultlessInv, FaultInv
    <2> QED BY <2>2, <2>3
  <1>5. CASE ~(\E j \in Import : Busy(j) /\ Pid(j) = Pid(i))
    <2>1. faults' = faults
      BY <1>5 DEF BeginImport
    <2>2. Alone => Alone'
      BY <1>1, <1>5 DEF Alone, Busy
    <2>3. FaultlessInv'
      BY <1>1, <1>2, <1>3, <2>1, <2>2 DEF SurvivalInv, FaultlessInv
    <2>4. FaultInv'
      BY <1>1, <1>2, <2>1, <2>2 DEF SurvivalInv, FaultInv, Whole
    <2> QED BY <2>3, <2>4 DEF SurvivalInv
  <1> QED BY <1>4, <1>5

(* What a step of a replacement does to the labels and to what is kept.    *)
LEMMA Relabelled ==
  ASSUME RecoveryTypeOK, NEW i \in Import, NEW label, GoOn(i, label), Busy(i)
  PROVE  importer'[i].at = label /\ \A j \in Import : j # i => importer'[j] = importer[j]
  <1>1. importer' = [importer EXCEPT ![i] = [@ EXCEPT !.at = label]] /\ DOMAIN importer = Import
    BY DEF GoOn, RecoveryTypeOK
  <1>2. "at" \in DOMAIN importer[i]
    BY DEF RecoveryTypeOK, ImporterOK, Busy
  <1> QED BY <1>1, <1>2

LEMMA KeptAt ==
  ASSUME RecoveryTypeOK, NEW i \in Import, NEW d, previous' = [previous EXCEPT ![Pid(i)] = d]
  PROVE  \A j \in Import : previous'[Pid(j)] = IF Pid(j) = Pid(i) THEN d ELSE previous[Pid(j)]
  BY DEF RecoveryTypeOK

LEMMA SurvivesClear ==
  ASSUME RecoveryTypeOK, SurvivalInv, NEW i \in Import, ClearPrevious(i)
  PROVE  SurvivalInv'
  <1>1. /\ UNCHANGED <<live, faults>> /\ importer[i].at = "clear" /\ importer'[i].at = "away"
        /\ \A j \in Import : j # i => importer'[j] = importer[j]
    BY Relabelled DEF ClearPrevious, RecoveryTypeOK, ImporterOK, Busy
  <1>2. \A j \in Import : previous'[Pid(j)] = IF Pid(j) = Pid(i) THEN None ELSE previous[Pid(j)]
    BY KeptAt DEF ClearPrevious
  <1>3. /\ NoneMadeAnew => NoneMadeAnew'
        /\ Alone => Alone'
        /\ Cleared => Cleared'
    BY <1>1, <1>2 DEF NoneMadeAnew, Alone, Cleared, Busy, Whole
  <1>4. FaultlessInv'
    <2> SUFFICES ASSUME faults = 0, live = None, NoneMadeAnew, Alone, Cleared
                 PROVE  \E j \in Import : importer'[j].at = "in" /\ previous'[Pid(j)] # None
      BY <1>1, <1>3 DEF SurvivalInv, FaultlessInv
    <2>1. PICK j \in Import : importer[j].at = "in" /\ previous[Pid(j)] # None
      BY DEF SurvivalInv, FaultlessInv
    <2>2. Pid(j) # Pid(i)
      BY <1>1, <2>1 DEF Alone, Busy
    <2> QED BY <1>1, <1>2, <2>1, <2>2
  <1>5. FaultInv'
    <2>1. ComesIn({"away", "in"})' /\ ComesIn({"away"})'
      BY <1>1 DEF ComesIn
    <2> QED BY <1>1, <1>3, <2>1 DEF SurvivalInv, FaultInv
  <1> QED BY <1>4, <1>5 DEF SurvivalInv

LEMMA SurvivesAway ==
  ASSUME RecoveryTypeOK, SurvivalInv, NEW i \in Import, MoveAway(i)
  PROVE  SurvivalInv'
  <1>1. /\ UNCHANGED faults /\ importer[i].at = "away" /\ importer'[i].at = "in"
        /\ \A j \in Import : j # i => importer'[j] = importer[j]
    BY Relabelled DEF MoveAway, RecoveryTypeOK, ImporterOK, Busy
  <1>2. /\ live' = None /\ ComesIn({"away", "in"})'
        /\ live # None => previous[Pid(i)] = None
        /\ \A j \in Import : previous'[Pid(j)] = IF Pid(j) = Pid(i) /\ live # None THEN live
                                                                     ELSE previous[Pid(j)]
    BY <1>1, KeptAt DEF MoveAway, KeptAside, ComesIn
  <1>3. NoneMadeAnew => NoneMadeAnew'
    BY <1>2 DEF NoneMadeAnew, Whole
  <1>4. Alone => Alone'
    BY <1>1 DEF Alone, Busy
  <1>5. Alone /\ Cleared => Cleared'
    BY <1>1, <1>2 DEF Alone, Cleared, Busy
  <1>6. FaultlessInv'
    <2> SUFFICES ASSUME faults = 0, NoneMadeAnew, Alone, Cleared
                 PROVE  \E j \in Import : importer'[j].at = "in" /\ previous'[Pid(j)] # None
      BY <1>1, <1>3, <1>4, <1>5 DEF SurvivalInv, FaultlessInv
    <2>1. CASE live # None
      BY <1>1, <1>2, <2>1
    <2>2. CASE live = None
      <3>1. PICK j \in Import : importer[j].at = "in" /\ previous[Pid(j)] # None
        BY <2>2 DEF SurvivalInv, FaultlessInv
      <3> QED BY <1>1, <1>2, <2>2, <3>1
    <2> QED BY <2>1, <2>2
  <1>7. FaultInv'
    BY <1>1, <1>2, <1>3, <1>4, <1>5 DEF SurvivalInv, FaultInv
  <1> QED BY <1>6, <1>7 DEF SurvivalInv

LEMMA SurvivesIn ==
  ASSUME RecoveryTypeOK, SurvivalInv, NEW i \in Import, MoveIn(i)
  PROVE  SurvivalInv'
  <1>1. /\ UNCHANGED <<previous, faults>> /\ importer[i].at = "in" /\ importer'[i].at = "drop"
        /\ \A j \in Import : j # i => importer'[j] = importer[j]
    BY Relabelled DEF MoveIn, RecoveryTypeOK, ImporterOK, Busy
  <1>2. live' # None /\ Whole(live)'
    BY DirectoryThere DEF MoveIn, RecoveryTypeOK, ImporterOK, Staged, Whole
  <1>3. /\ NoneMadeAnew => NoneMadeAnew'
        /\ Alone => Alone'
        /\ Cleared => Cleared'
    BY <1>1, <1>2 DEF NoneMadeAnew, Alone, Cleared, Busy, Whole
  <1> QED BY <1>1, <1>2, <1>3 DEF SurvivalInv, FaultlessInv, FaultInv, Whole

LEMMA SurvivesFailure ==
  ASSUME RecoveryTypeOK, SurvivalInv, NEW i \in Import, MoveInFails(i)
  PROVE  SurvivalInv'
  <1>1. /\ importer[i].at = "in" /\ live = None /\ faults' = faults + 1 /\ faults \in Nat
        /\ \A j \in Import : j # i => importer'[j] = importer[j]
    BY DEF MoveInFails, Fault, EndImport, RecoveryTypeOK
  <1>2. CASE faults # 0
    BY <1>1, <1>2 DEF SurvivalInv, FaultlessInv, FaultInv
  <1>3. CASE faults = 0
    <2>1. NoneMadeAnew
      BY <1>3 DEF SurvivalInv, FaultlessInv
    <2>2. PICK j \in Import : importer[j].at = "in" /\ previous[Pid(j)] # None
      BY <1>1, <1>3 DEF SurvivalInv, FaultlessInv
    <2>3. CASE previous[Pid(i)] # None
      <3>1. /\ live' = previous[Pid(i)]
            /\ \A k \in Import : previous'[Pid(k)] = IF Pid(k) = Pid(i) THEN None ELSE previous[Pid(k)]
        BY <2>3, KeptAt DEF MoveInFails, PutBack
      <3>2. NoneMadeAnew' /\ live' # None /\ Whole(live)'
        BY <2>1, <2>3, <3>1 DEF NoneMadeAnew, Whole
      <3> QED BY <1>1, <1>3, <3>2 DEF SurvivalInv, FaultlessInv, FaultInv, Whole
    <2>4. CASE previous[Pid(i)] = None
      <3>1. UNCHANGED <<live, previous>> /\ j # i
        BY <2>2, <2>4 DEF MoveInFails, PutBack
      <3>2. NoneMadeAnew' /\ ComesIn({"away", "in"})'
        BY <1>1, <2>1, <2>2, <3>1 DEF NoneMadeAnew, ComesIn, Whole
      <3> QED BY <1>1, <1>3, <3>1, <3>2 DEF SurvivalInv, FaultlessInv, FaultInv
    <2> QED BY <2>3, <2>4
  <1> QED BY <1>2, <1>3

LEMMA SurvivesDrop ==
  ASSUME RecoveryTypeOK, SurvivalInv, NEW i \in Import, DropPrevious(i)
  PROVE  SurvivalInv'
  <1>1. /\ UNCHANGED <<live, faults>> /\ importer[i].at = "drop" /\ importer'[i].at = "over"
        /\ \A j \in Import : j # i => importer'[j] = importer[j]
    BY ImportEnds DEF DropPrevious, RecoveryTypeOK
  <1>2. \A j \in Import : previous'[Pid(j)] = IF Pid(j) = Pid(i) THEN None ELSE previous[Pid(j)]
    BY KeptAt DEF DropPrevious
  <1>3. /\ NoneMadeAnew => NoneMadeAnew'
        /\ Alone => Alone'
        /\ Cleared => Cleared'
    BY <1>1, <1>2 DEF NoneMadeAnew, Alone, Cleared, Busy, Whole
  <1>4. FaultlessInv'
    <2> SUFFICES ASSUME faults = 0, live = None, Alone
                 PROVE  \E j \in Import : importer'[j].at = "in" /\ previous'[Pid(j)] # None
      BY <1>1, <1>3 DEF SurvivalInv, FaultlessInv
    <2>1. PICK j \in Import : importer[j].at = "in" /\ previous[Pid(j)] # None
      BY DEF SurvivalInv, FaultlessInv
    <2>2. Pid(j) # Pid(i)
      BY <1>1, <2>1 DEF Alone, Busy
    <2> QED BY <1>1, <1>2, <2>1, <2>2
  <1>5. /\ SomeKept => SomeKept'
        /\ \A labels \in {{"away"}, {"away", "in"}} : ComesIn(labels) => ComesIn(labels)'
    BY <1>1, <1>2 DEF SomeKept, KeptBy, ComesIn, Whole
  <1>6. FaultInv'
    BY <1>1, <1>3, <1>5 DEF SurvivalInv, FaultInv, Whole
  <1> QED BY <1>4, <1>6 DEF SurvivalInv

LEMMA SurvivesDeath ==
  ASSUME RecoveryTypeOK, SurvivalInv, NEW i \in Import, ImportDies(i)
  PROVE  SurvivalInv'
  <1>1. /\ UNCHANGED <<live, previous>> /\ faults' = faults + 1 /\ faults \in Nat
        /\ Busy(i) /\ importer'[i].at = "over"
        /\ \A j \in Import : j # i => importer'[j] = importer[j]
    BY ImportEnds DEF ImportDies, Fault, RecoveryTypeOK
  <1>2. CASE faults # 0
    BY <1>1, <1>2 DEF SurvivalInv, FaultlessInv, FaultInv
  <1>3. CASE faults = 0
    <2>1. NoneMadeAnew /\ Alone
      BY <1>3 DEF SurvivalInv, FaultlessInv
    <2>2. NoneMadeAnew' /\ (live # None => Whole(live))
      BY <1>1, <2>1 DEF NoneMadeAnew, Whole
    <2>3. ASSUME live = None PROVE ComesIn({"away", "in"})' \/ SomeKept'
      <3>1. PICK j \in Import : importer[j].at = "in" /\ previous[Pid(j)] # None
        BY <1>3, <2>3 DEF SurvivalInv, FaultlessInv
      <3>2. CASE j # i
        BY <1>1, <3>1, <3>2 DEF ComesIn
      <3>3. CASE j = i
        <4>1. Whole(previous[Pid(i)])'
          BY <1>1, <2>1, <3>1, <3>3 DEF NoneMadeAnew, Whole
        <4>2. ASSUME NEW k \in Import, importer'[k].at = "drop", Pid(k) = Pid(i) PROVE FALSE
          BY <1>1, <2>1, <4>2 DEF Alone, Busy
        <4> QED BY <4>1, <4>2 DEF SomeKept, KeptBy
      <3> QED BY <3>2, <3>3
    <2> QED BY <1>1, <1>3, <2>2, <2>3 DEF SurvivalInv, FaultlessInv, FaultInv, Whole
  <1> QED BY <1>2, <1>3

LEMMA SurvivesMerge ==
  ASSUME RecoveryTypeOK, SurvivalInv, NEW i \in Import, MergeFile(i) \/ WriteMerged(i)
  PROVE  SurvivalInv'
  <1>1. CASE MergeFile(i) /\ EndImport(i)
    BY <1>1, SurvivesEnd DEF MergeFile
  <1>2. CASE MergeFile(i) /\ ~EndImport(i)
    <2>1. /\ UNCHANGED <<live, previous, faults>> /\ importer[i].at = "merge" /\ Busy(i)
          /\ \/ importer' = [importer EXCEPT ![i].done = @ \cup {First(ToMerge(i))}]
             \/ GoOn(i, "write")
      BY <1>2 DEF MergeFile, Busy
    <2>2. /\ importer'[i].at \in {"merge", "write"}
          /\ \A j \in Import : j # i => importer'[j].at = importer[j].at
      BY <2>1, Relabelled DEF RecoveryTypeOK, ImporterOK
    <2> QED BY <2>1, <2>2, SurvivesElsewhere DEF Whole
  <1>3. CASE WriteMerged(i)
    <2>1. /\ importer[i].at = "write" /\ previous' = previous
          /\ faults' = IF live = None THEN faults + 1 ELSE faults
          /\ importer' = [importer EXCEPT ![i].at = "merge", ![i].done = @ \cup {First(ToMerge(i))}]
      BY <1>3 DEF WriteMerged
    <2>2. importer'[i].at = "merge" /\ \A j \in Import : j # i => importer'[j].at = importer[j].at
      BY <2>1 DEF RecoveryTypeOK, ImporterOK, Busy
    <2>3. /\ live' # None
          /\ live # None => live'.from = live.from
      BY <1>3, WriteStep, DirectoryThere
    <2>4. CASE live = None
      BY <2>1, <2>2, <2>3, <2>4, SurvivesRecreation
    <2>5. CASE live # None
      BY <2>1, <2>2, <2>3, <2>5, SurvivesElsewhere DEF Whole
    <2> QED BY <2>4, <2>5
  <1> QED BY <1>1, <1>2, <1>3

LEMMA SurvivalInvariance == RecoverySpec => []SurvivalInv
  <1>1. RecoveryInit => SurvivalInv
    <2> SUFFICES ASSUME RecoveryInit PROVE SurvivalInv
      OBVIOUS
    <2>1. live \in Directory /\ live.from = "service"
      BY RecoveryAssumption DEF RecoveryInit, Directory, Files
    <2>2. Whole(live) /\ \A i \in Import : previous[Pid(i)] = None /\ ~Busy(i)
      BY <2>1, DirectoryThere DEF RecoveryInit, AtRest, Busy, Whole
    <2>3. NoneMadeAnew /\ Alone /\ Cleared
      BY <2>2 DEF NoneMadeAnew, Alone, Cleared
    <2> QED BY <2>2, <2>3 DEF RecoveryInit, SurvivalInv, FaultlessInv, FaultInv, Whole
  <1>2. RecoveryTypeOK /\ SurvivalInv /\ [RecoveryNext]_recoveryVars => SurvivalInv'
    <2> SUFFICES ASSUME RecoveryTypeOK, SurvivalInv, [RecoveryNext]_recoveryVars PROVE SurvivalInv'
      OBVIOUS
    <2>1. CASE UNCHANGED recoveryVars
      BY <2>1, SurvivesElsewhere DEF recoveryVars, Whole
    <2>2. ASSUME NEW f \in Path, ServiceWrites(f) \/ FleetingEnds(f) PROVE SurvivalInv'
      BY <2>2, ServiceStep, SurvivesElsewhere, DirectoryThere DEF Whole
    <2>3. CASE Recreate
      <3>1. live = None /\ live' \in Directory /\ faults' = faults + 1 /\ UNCHANGED <<previous, importer>>
        BY <2>3, NoFilesType DEF Recreate, Fault, Directory
      <3> QED BY <3>1, SurvivesRecreation, DirectoryThere
    <2>4. CASE BeginExport \/ ListArea \/ DigestFile \/ CopyFile \/ Publish \/ ExportFails
      <3>1. UNCHANGED <<live, previous, importer, faults>>
        BY <2>4 DEF BeginExport, ListArea, DigestFile, CopyFile, Publish, ExportFails
      <3> QED BY <3>1, SurvivesElsewhere DEF Whole
    <2>5. ASSUME NEW i \in Import, MoveAwayBlocked(i) PROVE SurvivalInv'
      BY <2>5, SurvivesEnd DEF MoveAwayBlocked
    <2>6. ASSUME NEW i \in Import, MoveInBlocked(i) PROVE SurvivalInv'
      BY <2>6, SurvivesEnd DEF MoveInBlocked
    <2> QED
      BY <2>1, <2>2, <2>3, <2>4, <2>5, <2>6, SurvivesBegin, SurvivesClear, SurvivesAway, SurvivesIn,
         SurvivesFailure, SurvivesDrop, SurvivesDeath, SurvivesMerge DEF RecoveryNext
  <1>3. RecoveryInv => RecoveryTypeOK
    BY DEF RecoveryInv
  <1> QED BY <1>1, <1>2, <1>3, RecoveryInvariance, PTL DEF RecoverySpec

-----------------------------------------------------------------------------
(* A backup is faithful.  What an export has listed and copied so far: of  *)
(* a file nobody touched since it began, what it was then.                 *)
UntouchedOK(f) ==
  /\ live # None /\ live.files[f] = exporter.start[f]
  /\ exporter.digest[f] \in {0, exporter.start[f]}
  /\ exporter.copied[f] \in {0, exporter.digest[f]}
  /\ f \in exporter.listed => exporter.start[f] # 0
  /\ \A k \in DOMAIN Area : k < exporter.area /\ f \in Area[k] /\ exporter.start[f] # 0
       => f \in exporter.listed

ExportProgress ==
  /\ exporter.area \in Nat \ {0} /\ exporter.listed \subseteq Included
  /\ exporter.at = "list" => exporter.area <= Len(Area)
  /\ exporter.at # "list" => exporter.area > Len(Area)
  /\ \A f \in Path \ exporter.listed : exporter.digest[f] = 0 /\ exporter.copied[f] = 0
  /\ exporter.at = "copy" => Remaining # {} /\ exporter.digest[First(Remaining)] # 0

ExportInv ==
  exporter # AtRest => ExportProgress /\ \A f \in Path \ exporter.touched : UntouchedOK(f)

BackupInv == ExportInv /\ BackupFaithful

(* A set of natural numbers has a least one.                               *)
LEMMA LeastNumber ==
  ASSUME NEW T, T \subseteq Nat, T # {}
  PROVE  \E n \in T : \A m \in T : n <= m
  <1> DEFINE Less == {p \in Nat \X Nat : p[1] < p[2]}
  <1>1. OpToRel(<, Nat) = Less
    BY DEF OpToRel
  <1>2. IsWellFoundedOn(Less, Nat)
    BY <1>1, NatLessThanWellFounded
  <1>3. \A m, n \in Nat : <<m, n>> \in Less <=> m < n
    OBVIOUS
  <1> HIDE DEF Less
  <1>4. PICK n \in T : \A m \in T : ~(<<m, n>> \in Less)
    BY <1>2, WFMin
  <1>5. ASSUME NEW m \in T PROVE n <= m
    <2>1. m \in Nat /\ n \in Nat /\ ~(<<m, n>> \in Less)
      BY <1>4, <1>5
    <2>2. ~(m < n)
      BY <1>3, <2>1
    <2> QED BY <2>1, <2>2
  <1> QED
    BY <1>5

LEMMA FirstIsOne ==
  ASSUME NEW S, S \subseteq Path, S # {}
  PROVE  First(S) \in S
  <1> DEFINE I == {k \in 1..Len(Sorted) : Sorted[k] \in S}
  <1>1. Sorted \in Seq(Path) /\ I # {} /\ I \subseteq Nat
    BY RecoveryAssumption DEF ToSet
  <1>2. PICK n \in I : \A m \in I : n <= m
    BY <1>1, LeastNumber
  <1>3. SelectInSeq(Sorted, LAMBDA f : f \in S) \in I
    BY <1>1, <1>2 DEF SelectInSeq, Min
  <1> QED
    BY <1>3 DEF First

LEMMA AreaFacts ==
  /\ Len(Area) \in Nat \ {0} /\ DOMAIN Area = 1..Len(Area)
  /\ \A k \in DOMAIN Area : Area[k] \subseteq Included
  /\ Included \subseteq Path
  /\ \A f \in Included : \E k \in DOMAIN Area : f \in Area[k]
  BY RecoveryAssumption DEF Included, ToSet

LEMMA ExporterFields ==
  ASSUME RecoveryTypeOK, exporter # AtRest
  PROVE  /\ DOMAIN exporter = ExportKeys /\ exporter.at \in {"list", "digest", "copy"}
         /\ exporter.digest \in Files /\ exporter.copied \in Files /\ exporter.start \in Files
  BY DEF RecoveryTypeOK, ExporterOK

LEMMA NextToCopy ==
  ASSUME RecoveryTypeOK, exporter # AtRest, ExportProgress, Remaining # {}
  PROVE  /\ First(Remaining) \in Path /\ First(Remaining) \in exporter.listed
         /\ exporter.copied[First(Remaining)] = 0
  <1>1. Remaining \subseteq Path
    BY AreaFacts DEF ExportProgress, Remaining
  <1>2. First(Remaining) \in Remaining
    BY <1>1, FirstIsOne
  <1> QED BY <1>1, <1>2 DEF Remaining

(* A step beside an export, which tells what it touches.                   *)
LEMMA BackupBeside ==
  ASSUME RecoveryTypeOK, BackupInv, archive' = archive, NEW touched, Touch(touched),
         \A f \in Path \ touched : live # None => live' # None /\ live'.files[f] = live.files[f]
  PROVE  BackupInv'
  <1>1. CASE exporter = AtRest
    BY <1>1 DEF BackupInv, BackupFaithful, ExportInv, Touch, Verified
  <1>2. CASE exporter # AtRest
    <2>1. DOMAIN exporter = ExportKeys
      BY <1>2, ExporterFields
    <2>2. exporter' = [exporter EXCEPT !.touched = @ \cup touched]
      BY <1>2 DEF Touch
    <2>3. /\ exporter'.at = exporter.at /\ exporter'.area = exporter.area
          /\ exporter'.listed = exporter.listed /\ exporter'.digest = exporter.digest
          /\ exporter'.copied = exporter.copied /\ exporter'.start = exporter.start
          /\ exporter'.touched = exporter.touched \cup touched
      BY <2>1, <2>2 DEF ExportKeys
    <2>4. ExportProgress'
      <3>1. Remaining' = Remaining
        BY <2>3 DEF Remaining
      <3> QED BY <1>2, <2>3, <3>1 DEF BackupInv, ExportInv, ExportProgress
    <2>5. ASSUME NEW f \in Path \ exporter'.touched PROVE UntouchedOK(f)'
      <3>1. f \in Path \ exporter.touched /\ f \in Path \ touched
        BY <2>3, <2>5
      <3> QED BY <1>2, <2>3, <3>1 DEF BackupInv, ExportInv, UntouchedOK
    <2> QED BY <2>4, <2>5 DEF BackupInv, BackupFaithful, ExportInv, Verified
  <1> QED BY <1>1, <1>2

(* Most steps of an import, and those that an archive does not see.        *)
LEMMA BackupElsewhere ==
  ASSUME BackupInv, UNCHANGED <<archive, exporter, live>>
  PROVE  BackupInv'
  <1>1. Remaining' = Remaining
    BY DEF Remaining
  <1>2. ExportInv'
    BY <1>1 DEF BackupInv, ExportInv, ExportProgress, UntouchedOK
  <1> QED BY <1>2 DEF BackupInv, BackupFaithful, Verified

LEMMA BackupBegins ==
  ASSUME RecoveryTypeOK, BackupInv, BeginExport
  PROVE  BackupInv'
  <1>1. /\ UNCHANGED <<archive, live>> /\ live # None /\ exporter'.at = "list" /\ exporter'.area = 1
        /\ exporter'.listed = {} /\ exporter'.digest = NoFiles /\ exporter'.copied = NoFiles
        /\ exporter'.start = live.files
    BY DEF BeginExport
  <1>2. \A f \in Path : NoFiles[f] = 0
    BY DEF NoFiles
  <1>3. ExportProgress'
    BY <1>1, <1>2, AreaFacts DEF ExportProgress
  <1>4. ASSUME NEW f \in Path PROVE UntouchedOK(f)'
    <2>1. \A k \in DOMAIN Area : ~(k < 1)
      BY AreaFacts
    <2> QED BY <1>1, <1>2, <2>1 DEF UntouchedOK
  <1> QED BY <1>1, <1>3, <1>4 DEF BackupInv, ExportInv, BackupFaithful, Verified

LEMMA AreaListed ==
  ASSUME RecoveryTypeOK, BackupInv, ListArea
  PROVE  BackupInv'
  <1> DEFINE k == exporter.area
             found == Listed(Area[k])
  <1>1. exporter # AtRest /\ exporter.at = "list" /\ UNCHANGED <<archive, live>>
    BY DEF ListArea, AtRest
  <1>2. ExportProgress /\ \A f \in Path \ exporter.touched : UntouchedOK(f)
    BY <1>1 DEF BackupInv, ExportInv
  <1>3. /\ exporter'.area = k + 1 /\ exporter'.listed = exporter.listed \cup found
        /\ exporter'.at = IF k = Len(Area) THEN "digest" ELSE "list"
        /\ exporter'.digest = exporter.digest /\ exporter'.copied = exporter.copied
        /\ exporter'.start = exporter.start /\ exporter'.touched = exporter.touched
    BY <1>1, ExporterFields DEF ListArea, ExportKeys
  <1>4. k \in DOMAIN Area /\ k \in Nat \ {0} /\ k <= Len(Area)
    BY <1>1, <1>2, AreaFacts DEF ExportProgress
  <1>5. /\ found \subseteq Included
        /\ \A f \in found : live # None /\ live.files[f] # 0
        /\ \A f \in Area[k] : live # None /\ live.files[f] # 0 => f \in found
    BY <1>4, AreaFacts DEF Listed, Exists
  <1> HIDE DEF k, found
  <1>6. ExportProgress'
    <2>1. exporter'.area \in Nat \ {0} /\ exporter'.listed \subseteq Included
      BY <1>2, <1>3, <1>4, <1>5 DEF ExportProgress
    <2>2. /\ exporter'.at = "list" => exporter'.area <= Len(Area)
          /\ exporter'.at # "list" => exporter'.area > Len(Area)
          /\ exporter'.at # "copy"
      BY <1>3, <1>4, AreaFacts
    <2>3. \A f \in Path \ exporter'.listed : exporter'.digest[f] = 0 /\ exporter'.copied[f] = 0
      BY <1>2, <1>3 DEF ExportProgress
    <2> QED BY <2>1, <2>2, <2>3 DEF ExportProgress
  <1>7. ASSUME NEW f \in Path \ exporter.touched PROVE UntouchedOK(f)'
    <2>1. UntouchedOK(f)
      BY <1>2, <1>7
    <2>2. f \in exporter'.listed => exporter'.start[f] # 0
      BY <1>3, <1>5, <2>1 DEF UntouchedOK
    <2>3. ASSUME NEW l \in DOMAIN Area, l < k + 1, f \in Area[l], exporter.start[f] # 0
          PROVE  f \in exporter'.listed
      <3>1. CASE l < k
        BY <1>3, <2>1, <2>3, <3>1 DEF UntouchedOK, k
      <3>2. CASE l = k
        BY <1>3, <1>5, <2>1, <2>3, <3>2 DEF UntouchedOK
      <3> QED BY <1>4, <2>3, <3>1, <3>2, AreaFacts
    <2> QED BY <1>1, <1>3, <2>1, <2>2, <2>3 DEF UntouchedOK
  <1> QED BY <1>1, <1>3, <1>6, <1>7 DEF BackupInv, ExportInv, BackupFaithful, Verified

LEMMA FileDigested ==
  ASSUME RecoveryTypeOK, BackupInv, DigestFile
  PROVE  BackupInv'
  <1> DEFINE next == First(Remaining)
  <1>1. /\ exporter # AtRest /\ exporter.at = "digest" /\ UNCHANGED <<archive, live>>
        /\ Remaining # {} /\ live.files[next] # 0
    BY DEF DigestFile, AtRest, Exists
  <1>2. ExportProgress /\ \A f \in Path \ exporter.touched : UntouchedOK(f)
    BY <1>1 DEF BackupInv, ExportInv
  <1>3. next \in Path /\ next \in exporter.listed /\ exporter.copied[next] = 0
    BY <1>1, <1>2, NextToCopy
  <1>4. /\ exporter'.area = exporter.area /\ exporter'.listed = exporter.listed
        /\ exporter'.at = "copy" /\ exporter'.copied = exporter.copied
        /\ exporter'.digest = [exporter.digest EXCEPT ![next] = live.files[next]]
        /\ exporter'.start = exporter.start /\ exporter'.touched = exporter.touched
    BY <1>1, ExporterFields DEF DigestFile, ExportKeys
  <1>5. Remaining' = Remaining
    BY <1>4 DEF Remaining
  <1>6. exporter.digest \in Files
    BY <1>1, ExporterFields
  <1> HIDE DEF next
  <1>7. \A f \in Path : exporter'.digest[f] = IF f = next THEN live.files[f] ELSE exporter.digest[f]
    BY <1>4, <1>6 DEF Files
  <1>8. ExportProgress'
    <2>1. First(Remaining') = next
      BY <1>5 DEF next
    <2> QED BY <1>1, <1>2, <1>3, <1>4, <1>5, <1>7, <2>1 DEF ExportProgress
  <1>9. ASSUME NEW f \in Path \ exporter.touched PROVE UntouchedOK(f)'
    <2>1. UntouchedOK(f)
      BY <1>2, <1>9
    <2> QED BY <1>1, <1>3, <1>4, <1>7, <2>1 DEF UntouchedOK
  <1> QED BY <1>1, <1>4, <1>8, <1>9 DEF BackupInv, ExportInv, BackupFaithful, Verified

LEMMA FileCopied ==
  ASSUME RecoveryTypeOK, BackupInv, CopyFile
  PROVE  BackupInv'
  <1> DEFINE next == First(Remaining)
  <1>1. /\ exporter # AtRest /\ exporter.at = "copy" /\ UNCHANGED <<archive, live>>
        /\ live.files[next] # 0
    BY DEF CopyFile, AtRest, Exists
  <1>2. ExportProgress /\ \A f \in Path \ exporter.touched : UntouchedOK(f)
    BY <1>1 DEF BackupInv, ExportInv
  <1>3. /\ next \in Path /\ next \in exporter.listed /\ exporter.copied[next] = 0
        /\ exporter.digest[next] # 0
    BY <1>1, <1>2, NextToCopy DEF ExportProgress
  <1>4. /\ exporter'.area = exporter.area /\ exporter'.listed = exporter.listed
        /\ exporter'.at = "digest" /\ exporter'.digest = exporter.digest
        /\ exporter'.copied = [exporter.copied EXCEPT ![next] = live.files[next]]
        /\ exporter'.start = exporter.start /\ exporter'.touched = exporter.touched
    BY <1>1, ExporterFields DEF CopyFile, ExportKeys
  <1>5. exporter.copied \in Files
    BY <1>1, ExporterFields
  <1> HIDE DEF next
  <1>6. \A f \in Path : exporter'.copied[f] = IF f = next THEN live.files[f] ELSE exporter.copied[f]
    BY <1>4, <1>5 DEF Files
  <1>7. ExportProgress'
    BY <1>1, <1>2, <1>3, <1>4, <1>6 DEF ExportProgress
  <1>8. ASSUME NEW f \in Path \ exporter.touched PROVE UntouchedOK(f)'
    <2>1. UntouchedOK(f)
      BY <1>2, <1>8
    <2> QED BY <1>1, <1>3, <1>4, <1>6, <2>1 DEF UntouchedOK
  <1> QED BY <1>1, <1>4, <1>7, <1>8 DEF BackupInv, ExportInv, BackupFaithful, Verified

LEMMA Published ==
  ASSUME RecoveryTypeOK, BackupInv, Publish
  PROVE  BackupInv'
  <1>1. /\ exporter # AtRest /\ exporter.at = "digest" /\ Remaining = {} /\ exporter' = AtRest
    BY DEF Publish, AtRest
  <1>2. ExportProgress /\ \A f \in Path \ exporter.touched : UntouchedOK(f)
    BY <1>1 DEF BackupInv, ExportInv
  <1>3. exporter.digest \in Files /\ exporter.copied \in Files
    BY <1>1, ExporterFields
  <1>4. ASSUME NEW f \in Included \ exporter.touched
        PROVE  exporter.copied[f] = exporter.start[f] /\ exporter.digest[f] = exporter.start[f]
    <2>1. f \in Path /\ UntouchedOK(f)
      BY <1>2, <1>4, AreaFacts
    <2>2. CASE exporter.start[f] = 0
      BY <2>1, <2>2 DEF UntouchedOK
    <2>3. CASE exporter.start[f] # 0
      <3>1. PICK k \in DOMAIN Area : f \in Area[k]
        BY <1>4, AreaFacts
      <3>2. k < exporter.area
        BY <1>1, <1>2, <3>1, AreaFacts DEF ExportProgress
      <3>3. f \in exporter.listed
        BY <2>1, <2>3, <3>1, <3>2 DEF UntouchedOK
      <3>4. exporter.copied[f] # 0
        BY <1>1, <3>3 DEF Remaining
      <3> QED BY <2>1, <3>4 DEF UntouchedOK
    <2> QED BY <2>2, <2>3
  <1>5. \A f \in Path \ Included : exporter.copied[f] = 0 /\ exporter.digest[f] = 0
    BY <1>2 DEF ExportProgress
  <1>6. ASSUME exporter.touched = {} PROVE exporter.digest = exporter.copied
    <2>1. \A f \in Path : exporter.digest[f] = exporter.copied[f]
      BY <1>4, <1>5, <1>6
    <2> QED BY <1>3, <2>1 DEF Files
  <1>7. /\ archive'.digest = exporter.digest /\ archive'.files = exporter.copied
        /\ archive'.start = exporter.start /\ archive'.touched = exporter.touched
    BY DEF Publish
  <1>8. BackupFaithful'
    BY <1>4, <1>5, <1>6, <1>7 DEF BackupFaithful, Verified
  <1> QED BY <1>1, <1>8 DEF BackupInv, ExportInv

LEMMA BackupInvariance == RecoverySpec => []BackupInv
  <1>1. RecoveryInit => BackupInv
    BY DEF RecoveryInit, BackupInv, ExportInv, BackupFaithful
  <1>2. RecoveryTypeOK /\ BackupInv /\ [RecoveryNext]_recoveryVars => BackupInv'
    <2> SUFFICES ASSUME RecoveryTypeOK, BackupInv, [RecoveryNext]_recoveryVars PROVE BackupInv'
      OBVIOUS
    <2>1. CASE UNCHANGED recoveryVars
      BY <2>1, BackupElsewhere DEF recoveryVars
    <2>2. ASSUME NEW f \in Path, ServiceWrites(f) \/ FleetingEnds(f) PROVE BackupInv'
      <3>1. /\ Touch({f}) /\ archive' = archive /\ live' # None
            /\ \A g \in Path \ {f} : live'.files[g] = live.files[g]
        BY <2>2, ServiceStep, DirectoryThere
      <3> QED BY <3>1, BackupBeside
    <2>3. CASE Recreate
      <3>1. exporter # AtRest => \A f \in Path : f \in exporter.touched
        BY <2>3 DEF Recreate, BackupInv, ExportInv, UntouchedOK
      <3>2. UNCHANGED <<exporter, archive>> /\ Remaining' = Remaining
        BY <2>3 DEF Recreate, Remaining
      <3>3. ExportInv'
        BY <3>1, <3>2 DEF BackupInv, ExportInv, ExportProgress
      <3> QED BY <3>2, <3>3 DEF BackupInv, BackupFaithful, Verified
    <2>4. CASE ExportFails
      BY <2>4 DEF ExportFails, BackupInv, ExportInv, BackupFaithful, Verified
    <2>5. ASSUME NEW i \in Import, NEW replace \in BOOLEAN, BeginImport(i, replace) PROVE BackupInv'
      BY <2>5, BackupElsewhere DEF BeginImport
    <2>6. ASSUME NEW i \in Import,
                 ClearPrevious(i) \/ MoveAwayBlocked(i) \/ MoveInBlocked(i) \/ DropPrevious(i)
                   \/ MergeFile(i) \/ ImportDies(i)
          PROVE  BackupInv'
      BY <2>6, BackupElsewhere
         DEF ClearPrevious, MoveAwayBlocked, MoveInBlocked, DropPrevious, MergeFile, ImportDies
    <2>7. ASSUME NEW i \in Import, MoveAway(i) PROVE BackupInv'
      <3>1. CASE live # None
        <4>1. Touch(Path) /\ archive' = archive /\ \A f \in Path \ Path : FALSE
          BY <2>7, <3>1 DEF MoveAway
        <4> QED BY <4>1, BackupBeside
      <3>2. CASE live = None
        BY <2>7, <3>2, BackupElsewhere DEF MoveAway
      <3> QED BY <3>1, <3>2
    <2>8. ASSUME NEW i \in Import, MoveIn(i) \/ MoveInFails(i) PROVE BackupInv'
      <3>1. Touch(Path) /\ archive' = archive /\ \A f \in Path \ Path : FALSE
        BY <2>8 DEF MoveIn, MoveInFails
      <3> QED BY <3>1, BackupBeside
    <2>9. ASSUME NEW i \in Import, WriteMerged(i) PROVE BackupInv'
      <3> DEFINE next == First(ToMerge(i))
      <3>1. /\ Touch({next}) /\ archive' = archive /\ live' # None
            /\ \A f \in Path \ {next} : live # None => live'.files[f] = live.files[f]
        BY <2>9, WriteStep, DirectoryThere DEF WriteMerged
      <3> HIDE DEF next
      <3> QED BY <3>1, BackupBeside
    <2> QED
      BY <2>1, <2>2, <2>3, <2>4, <2>5, <2>6, <2>7, <2>8, <2>9, BackupBegins, AreaListed, FileDigested,
         FileCopied, Published DEF RecoveryNext
  <1>3. RecoveryInv => RecoveryTypeOK
    BY DEF RecoveryInv
  <1> QED BY <1>1, <1>2, <1>3, RecoveryInvariance, PTL DEF RecoverySpec

(* A backup made while the service writes is faithful to every file that   *)
(* nobody touched meanwhile, and the state survives a fault of an import:  *)
(* one that dies, a rename that fails, a directory made anew in between,   *)
(* or two imports of one process that overlap                              *)
(* (disaster_recovery.py:54-72, 131-145, 160-171).                         *)
THEOREM BackupsAlwaysRestore == RecoverySpec => []BackupsRestore
  <1>1. RecoveryTypeOK /\ SurvivalInv /\ BackupInv => BackupsRestore
    BY SurvivalSuffices DEF BackupInv, BackupsRestore
  <1>2. RecoveryInv => RecoveryTypeOK
    BY DEF RecoveryInv
  <1> QED BY <1>1, <1>2, RecoveryInvariance, SurvivalInvariance, BackupInvariance, PTL
-----------------------------------------------------------------------------
(***************************************************************************)
(* Checkpoints.  A delta is rebuilt from its base and the blocks in which  *)
(* it differs: first what joining blocks gives, then the calls of the      *)
(* store as abstract steps, then the invariant.                            *)
(***************************************************************************)

(* Induction: a set that has 1 and the successor of each of its members    *)
(* below N has everything from 1 to N.                                     *)
LEMMA FromOne ==
  ASSUME NEW N \in Nat, NEW set, 1 \in set, \A i \in 2..N : i - 1 \in set => i \in set
  PROVE  1..N \subseteq set
  <1> SUFFICES ASSUME 1..N \ set # {} PROVE FALSE
    OBVIOUS
  <1>1. PICK k \in 1..N \ set : \A j \in 1..N \ set : ~(j < k)
    <2>1. 1..N \ set \subseteq Nat
      OBVIOUS
    <2>2. PICK k \in 1..N \ set : \A j \in 1..N \ set : k <= j
      BY <2>1, LeastNumber
    <2> QED BY <2>1, <2>2
  <1>2. k # 1 /\ k \in Nat
    BY <1>1
  <1>3. k - 1 \in 1..N /\ k - 1 < k /\ k \in 2..N
    BY <1>1, <1>2
  <1>4. k - 1 \in set
    BY <1>1, <1>3
  <1> QED BY <1>1, <1>3, <1>4

(* The sequences of a sequence are joined one after another.               *)
Joins(f, seqs) ==
  /\ f[1] = seqs[1]
  /\ \A i \in 2..Len(seqs) : f[i] = f[i - 1] \o seqs[i]
  /\ FlattenSeq(seqs) = f[Len(seqs)]

LEMMA Flattened ==
  ASSUME NEW seqs \in Seq(Seq(Int)), Len(seqs) > 0
  PROVE  \E f : Joins(f, seqs)
  <1> DEFINE n == Len(seqs)
             Runs(f, k) == f[1] = seqs[1] /\ \A i \in 2..k : f[i] = f[i - 1] \o seqs[i]
             Defined == {k \in 1..n : \E f \in [1..k -> Seq(Int)] : Runs(f, k)}
  <1>1. n \in Nat /\ n > 0 /\ \A i \in 1..n : seqs[i] \in Seq(Int)
    OBVIOUS
  <1> HIDE DEF n
  <1>2. 1 \in Defined
    <2>1. 1 \in 1..n /\ seqs[1] \in Seq(Int)
      BY <1>1
    <2>2. [i \in 1..1 |-> seqs[1]] \in [1..1 -> Seq(Int)] /\ Runs([i \in 1..1 |-> seqs[1]], 1)
      BY <2>1
    <2>3. \E f \in [1..1 -> Seq(Int)] : Runs(f, 1)
      BY <2>2
    <2> QED BY <2>1, <2>3
  <1>3. ASSUME NEW k \in 2..n, k - 1 \in Defined PROVE k \in Defined
    <2>1. k \in 1..n /\ k - 1 \in 1..(k - 1)
      BY <1>1
    <2>2. PICK f \in [1..(k - 1) -> Seq(Int)] : Runs(f, k - 1)
      BY <1>3
    <2>3. f[k - 1] \in Seq(Int) /\ seqs[k] \in Seq(Int)
      BY <1>1, <2>1, <2>2
    <2> DEFINE more == f[k - 1] \o seqs[k]
               g == [i \in 1..k |-> IF i = k THEN more ELSE f[i]]
    <2>4. more \in Seq(Int)
      BY <2>3, ConcatProperties
    <2>5. \A i \in 1..k : i = k \/ i \in 1..(k - 1)
      BY <2>1
    <2>6. g \in [1..k -> Seq(Int)]
      <3> HIDE DEF more
      <3> QED BY <2>2, <2>4, <2>5
    <2>7. Runs(g, k)
      <3>1. g[1] = f[1] /\ g[k] = more
        <4>1. 1 \in 1..k /\ 1 # k /\ k \in 1..k
          BY <1>1
        <4> HIDE DEF more
        <4> QED BY <4>1
      <3>2. ASSUME NEW i \in 2..k PROVE g[i] = g[i - 1] \o seqs[i]
        <4>1. i - 1 \in 1..(k - 1) /\ g[i - 1] = f[i - 1]
          BY <2>1
        <4>2. CASE i = k
          BY <3>1, <4>1, <4>2
        <4>3. CASE i # k
          <5>1. i \in 2..(k - 1) /\ i \in 1..k
            BY <4>3, <2>1
          <5>2. g[i] = f[i]
            BY <4>3, <5>1
          <5> QED BY <2>2, <4>1, <5>1, <5>2
        <4> QED BY <4>2, <4>3
      <3> QED BY <2>2, <3>1, <3>2
    <2>8. \E h \in [1..k -> Seq(Int)] : Runs(h, k)
      BY <2>6, <2>7
    <2> QED BY <2>1, <2>8
  <1>4. n \in Defined
    <2> HIDE DEF Defined
    <2>1. 1..n \subseteq Defined
      BY <1>1, <1>2, <1>3, FromOne
    <2>2. n \in 1..n
      BY <1>1
    <2> QED BY <2>1, <2>2
  <1>5. PICK f \in [1..n -> Seq(Int)] : Runs(f, n)
    BY <1>4
  <1> DEFINE Body(s) == [i \in 1..n |-> IF i = 1 THEN seqs[i] ELSE s[i - 1] \o seqs[i]]
  <1>6. f = Body(f)
    <2>1. \A i \in 1..n : f[i] = IF i = 1 THEN seqs[i] ELSE f[i - 1] \o seqs[i]
      <3> TAKE i \in 1..n
      <3>1. i = 1 \/ i \in 2..n
        BY <1>1
      <3> QED BY <1>5, <3>1
    <2> QED BY <1>5, <2>1
  <1> DEFINE g == CHOOSE s : s = Body(s)
  <1>7. FlattenSeq(seqs) = g[n]
    <2>1. Len(seqs) # 0
      BY <1>1 DEF n
    <2> QED BY <2>1 DEF FlattenSeq, n
  <1>8. g = Body(g)
    <2> HIDE DEF Body
    <2> QED BY <1>6
  <1> HIDE DEF g
  <1>9. \A i \in 1..n : g[i] = IF i = 1 THEN seqs[i] ELSE g[i - 1] \o seqs[i]
    BY <1>8
  <1>10. Joins(g, seqs)
    <2>1. g[1] = seqs[1]
      BY <1>1, <1>9
    <2>2. \A i \in 2..n : g[i] = g[i - 1] \o seqs[i]
      <3> TAKE i \in 2..n
      <3>1. i \in 1..n /\ i # 1
        BY <1>1
      <3> QED BY <1>9, <3>1
    <2> QED BY <1>7, <2>1, <2>2 DEF Joins, n
  <1> QED BY <1>10

(* The end of a block, and how many there are.                             *)
EndOf(data, i) == IF i * BlockSize < Len(data) THEN i * BlockSize ELSE Len(data)

LEMMA BlockCount ==
  ASSUME NEW length \in Nat, NEW size \in Nat \ {0}
  PROVE  LET n == (length + size - 1) \div size
         IN  n \in Nat /\ length <= n * size /\ n * size < length + size
  OBVIOUS

LEMMA BlockEnds ==
  ASSUME NEW data \in Seq(Int)
  PROVE  LET n == Len(Blocks(data))
         IN  /\ n \in Nat /\ DOMAIN Blocks(data) = 1..n /\ (n = 0 => Len(data) = 0)
             /\ \A i \in 1..n : Blocks(data)[i] = BlockOf(data, i)
             /\ \A i \in Nat \ {0} :
                  /\ i * BlockSize \in Nat /\ (i - 1) * BlockSize \in Nat
                  /\ i * BlockSize = (i - 1) * BlockSize + BlockSize
                  /\ i <= n => (i - 1) * BlockSize < Len(data)
                  /\ i >= n => i * BlockSize >= Len(data)
  <1> DEFINE B == BlockSize
             L == Len(data)
             N == (L + B - 1) \div B
  <1>1. B \in Nat \ {0} /\ L \in Nat
    BY CheckpointAssumption
  <1>2. N \in Nat /\ L <= N * B /\ N * B < L + B
    BY <1>1, BlockCount
  <1>3. Len(Blocks(data)) = N /\ DOMAIN Blocks(data) = 1..N
        /\ \A i \in 1..N : Blocks(data)[i] = BlockOf(data, i)
    BY <1>2 DEF Blocks
  <1> HIDE DEF B, L, N
  <1>4. ASSUME NEW i \in Nat \ {0}
        PROVE  /\ i * B \in Nat /\ (i - 1) * B \in Nat /\ i * B = (i - 1) * B + B
               /\ i <= N => (i - 1) * B < L
               /\ i >= N => i * B >= L
    <2>1. i * B \in Nat /\ (i - 1) * B \in Nat /\ i * B = (i - 1) * B + B
      BY <1>1
    <2>2. ASSUME i <= N PROVE (i - 1) * B < L
      <3>1. i * B <= N * B
        BY <1>1, <1>2, <2>2
      <3> QED BY <1>1, <1>2, <2>1, <3>1
    <2>3. ASSUME i >= N PROVE i * B >= L
      <3>1. N * B <= i * B
        BY <1>1, <1>2, <2>3
      <3> QED BY <1>1, <1>2, <2>1, <3>1
    <2> QED BY <2>1, <2>2, <2>3
  <1>5. N = 0 => L = 0
    BY <1>1, <1>2
  <1> QED BY <1>2, <1>3, <1>4, <1>5 DEF B, L

(* Joining blocks that begin with those of some data gives the data, and   *)
(* maybe more: after each, what is joined begins the data.                 *)
LEMMA BlocksJoin ==
  ASSUME NEW data \in Seq(Int), NEW seqs \in Seq(Seq(Int)),
         Len(Blocks(data)) <= Len(seqs),
         \A i \in 1..Len(Blocks(data)) : seqs[i] = BlockOf(data, i)
  PROVE  LET whole == FlattenSeq(seqs)
         IN  /\ whole \in Seq(Int) /\ Len(data) <= Len(whole)
             /\ \A k \in 1..Len(data) : whole[k] = data[k]
  <1> DEFINE n == Len(Blocks(data))
             m == Len(seqs)
             L == Len(data)
             Prefix(w, e) == w \in Seq(Int) /\ e <= Len(w) /\ \A k \in 1..e : w[k] = data[k]
  <1>1. /\ n \in Nat /\ m \in Nat /\ L \in Nat /\ n <= m
        /\ \A i \in 1..n : seqs[i] = BlockOf(data, i)
        /\ \A i \in 1..m : seqs[i] \in Seq(Int)
        /\ \A i \in 1..L : data[i] \in Int
    BY BlockEnds
  <1>2. \A i \in Nat \ {0} :
          /\ i * BlockSize \in Nat /\ (i - 1) * BlockSize \in Nat
          /\ i * BlockSize = (i - 1) * BlockSize + BlockSize
          /\ i <= n => (i - 1) * BlockSize < L
          /\ i >= n => i * BlockSize >= L
    BY BlockEnds
  <1>3. BlockSize \in Nat \ {0}
    BY CheckpointAssumption
  <1>4. \A i \in Nat \ {0} : EndOf(data, i) \in 0..L /\ (i >= n => EndOf(data, i) = L)
    BY <1>1, <1>2 DEF EndOf
  <1>5. ASSUME NEW i \in 1..n
        PROVE  LET a == (i - 1) * BlockSize
                   b == EndOf(data, i)
               IN  /\ BlockOf(data, i) \in Seq(Int) /\ a \in Nat /\ b \in Nat /\ a <= b /\ b <= L
                   /\ Len(BlockOf(data, i)) = b - a
                   /\ \A k \in 1..(b - a) : BlockOf(data, i)[k] = data[a + k]
    <2> DEFINE a == (i - 1) * BlockSize
               b == EndOf(data, i)
    <2>1. a \in Nat /\ b \in Nat /\ a < b /\ b <= L
      BY <1>1, <1>2, <1>3 DEF EndOf
    <2>2. BlockOf(data, i) = SubSeq(data, a + 1, b)
      BY DEF BlockOf, EndOf
    <2> HIDE DEF a, b
    <2>3. BlockOf(data, i) = [k \in 1..(b - a) |-> data[a + k]]
      <3>1. \A k \in 1..(b - a) : (a + 1) + k - 1 = a + k
        BY <2>1
      <3>2. b - (a + 1) + 1 = b - a
        BY <2>1
      <3>3. SubSeq(data, a + 1, b) = [k \in 1..(b - (a + 1) + 1) |-> data[(a + 1) + k - 1]]
        BY <2>1 DEF SubSeq
      <3> QED BY <2>2, <3>1, <3>2, <3>3
    <2>4. \A k \in 1..(b - a) : data[a + k] \in Int
      BY <1>1, <2>1
    <2>5. b - a \in Nat
      BY <2>1
    <2>6. BlockOf(data, i) \in Seq(Int) /\ Len(BlockOf(data, i)) = b - a
      <3>1. \A k \in (a + 1)..b : data[k] \in Int
        BY <1>1, <2>1
      <3>2. a + 1 \in Int /\ b \in Int /\ a + 1 <= b /\ b - (a + 1) + 1 = b - a
        BY <2>1
      <3> QED BY <2>2, <3>1, <3>2, SubSeqProperties
    <2>7. \A k \in 1..(b - a) : BlockOf(data, i)[k] = data[a + k]
      BY <2>3
    <2>8. /\ BlockOf(data, i) \in Seq(Int) /\ a \in Nat /\ b \in Nat /\ a <= b /\ b <= L
          /\ Len(BlockOf(data, i)) = b - a
          /\ \A k \in 1..(b - a) : BlockOf(data, i)[k] = data[a + k]
      <3>1. a <= b
        BY <2>1
      <3> QED BY <2>1, <2>6, <2>7, <3>1
    <2> QED BY <2>8 DEF a, b
  <1>8. n = 0 => L = 0
    BY BlockEnds
  <1> HIDE DEF n, m, L
  <1>6. CASE m = 0
    <2>1. FlattenSeq(seqs) = seqs /\ seqs = << >>
      BY <1>6 DEF FlattenSeq, m
    <2>2. L = 0
      BY <1>1, <1>6, <1>8
    <2> QED BY <2>1, <2>2 DEF L
  <1>7. CASE m > 0
    <2>1. PICK f : Joins(f, seqs)
      BY <1>7, Flattened DEF m
    <2>2. /\ f[1] = seqs[1] /\ \A i \in 2..m : f[i] = f[i - 1] \o seqs[i]
          /\ FlattenSeq(seqs) = f[m]
      BY <2>1 DEF Joins, m
    <2> DEFINE Well(i) == /\ Prefix(f[i], EndOf(data, i))
                          /\ i <= n => Len(f[i]) = EndOf(data, i)
               set == {i \in 1..m : Well(i)}
    <2>3. 1 \in set
      <3>1. seqs[1] \in Seq(Int) /\ 1 \in 1..m
        BY <1>1, <1>7
      <3>2. CASE 1 \in 1..n
        <4>1. (1 - 1) * BlockSize = 0
          BY <1>3
        <4>2. f[1] = BlockOf(data, 1)
          BY <1>1, <2>2, <3>2
        <4>3. LET b == EndOf(data, 1)
              IN  /\ f[1] \in Seq(Int) /\ b \in Nat /\ Len(f[1]) = b - 0
                  /\ \A k \in 1..(b - 0) : f[1][k] = data[0 + k]
          BY <1>5, <3>2, <4>1, <4>2
        <4>4. Well(1)
          BY <1>1, <1>4, <4>3
        <4> QED BY <3>1, <4>4
      <3>3. CASE 1 \notin 1..n
        <4>1. n = 0
          BY <1>1, <3>3
        <4>2. L = 0
          BY <1>8, <4>1
        <4>3. EndOf(data, 1) = 0
          BY <1>4, <4>1, <4>2
        <4>4. Len(f[1]) \in Nat /\ f[1] \in Seq(Int)
          BY <2>2, <3>1
        <4>5. Well(1)
          BY <4>1, <4>3, <4>4
        <4> QED BY <3>1, <4>5
      <3> QED BY <3>2, <3>3
    <2>4. ASSUME NEW i \in 2..m, i - 1 \in set PROVE i \in set
      <3> DEFINE before == f[i - 1]
                 a == (i - 1) * BlockSize
                 e == EndOf(data, i - 1)
                 b == EndOf(data, i)
      <3>1. Well(i - 1) /\ i \in 1..m /\ i - 1 \in Nat \ {0} /\ i \in Nat \ {0}
        <4> HIDE DEF Well
        <4> QED BY <1>1, <2>4
      <3>2. f[i] = before \o seqs[i] /\ before \in Seq(Int) /\ seqs[i] \in Seq(Int)
        BY <1>1, <2>2, <3>1
      <3> HIDE DEF before
      <3>3. /\ f[i] \in Seq(Int) /\ Len(f[i]) = Len(before) + Len(seqs[i])
            /\ \A k \in 1..Len(f[i]) : f[i][k] = IF k <= Len(before) THEN before[k]
                                                 ELSE seqs[i][k - Len(before)]
        BY <3>2, ConcatProperties
      <3>4. Len(before) \in Nat /\ Len(seqs[i]) \in Nat
        BY <3>2
      <3>5. CASE i <= n
        <4>1. i \in 1..n /\ i - 1 <= n
          BY <1>1, <3>1, <3>5
        <4>2. a < L
          BY <1>2, <3>1, <3>5
        <4>3. e = a
          BY <4>2 DEF EndOf, L
        <4>4. Len(before) = a /\ \A k \in 1..a : before[k] = data[k]
          BY <3>1, <4>1, <4>3 DEF before
        <4>5. /\ a \in Nat /\ b \in Nat /\ a <= b /\ b <= L /\ Len(seqs[i]) = b - a
              /\ \A k \in 1..(b - a) : seqs[i][k] = data[a + k]
          BY <1>1, <1>5, <4>1
        <4> HIDE DEF a, b, e
        <4>6. Len(f[i]) = b
          BY <3>3, <4>4, <4>5
        <4>7. \A k \in 1..b : f[i][k] = data[k]
          <5> TAKE k \in 1..b
          <5>1. CASE k <= a
            <6>1. k \in 1..Len(f[i]) /\ k <= Len(before) /\ k \in 1..a
              BY <4>4, <4>5, <4>6, <5>1
            <6>2. f[i][k] = before[k]
              BY <3>3, <6>1
            <6> QED BY <4>4, <6>1, <6>2
          <5>2. CASE ~(k <= a)
            <6>1. k - a \in 1..(b - a) /\ a + (k - a) = k
              BY <4>5, <5>2
            <6> QED BY <3>3, <4>4, <4>5, <4>6, <5>2, <6>1
          <5> QED BY <5>1, <5>2
        <4>8. b <= b
          BY <4>5
        <4>9. Well(i)
          BY <3>3, <4>6, <4>7, <4>8 DEF b
        <4> QED BY <3>1, <4>9
      <3>6. CASE ~(i <= n)
        <4>1. i - 1 >= n /\ i >= n
          BY <1>1, <3>1, <3>6
        <4>2. e = L /\ b = L
          BY <1>4, <3>1, <4>1
        <4>3. L <= Len(before) /\ \A k \in 1..L : before[k] = data[k]
          BY <3>1, <4>2 DEF before
        <4> HIDE DEF a, b, e
        <4>4. L <= Len(f[i])
          BY <1>1, <3>3, <3>4, <4>3
        <4>5. \A k \in 1..L : f[i][k] = data[k]
          <5> TAKE k \in 1..L
          <5>1. k \in 1..Len(f[i]) /\ k <= Len(before)
            BY <1>1, <3>3, <3>4, <4>3, <4>4
          <5> QED BY <3>3, <4>3, <5>1
        <4>6. Well(i)
          BY <3>3, <3>6, <4>2, <4>4, <4>5 DEF b
        <4> QED BY <3>1, <4>6
      <3> QED BY <3>5, <3>6
    <2>5. Well(m)
      <3> HIDE DEF set
      <3>1. 1..m \subseteq set
        BY <1>1, <2>3, <2>4, FromOne
      <3>2. m \in set
        BY <1>1, <1>7, <3>1
      <3> QED BY <3>2 DEF set
    <2>6. EndOf(data, m) = L
      BY <1>1, <1>4, <1>7
    <2> QED BY <2>2, <2>5, <2>6 DEF L
  <1> QED BY <1>1, <1>6, <1>7

(* What a delta makes of the base it was made from is the data.            *)
LEMMA RebuiltWell ==
  ASSUME NEW m, NEW base \in Content, m.data \in Content,
         m.changed = Changed(base, m.data), m.count = Len(Blocks(m.data)),
         \A i \in m.changed : blockFile[<<m.id, i>>] = BlockOf(m.data, i)
  PROVE  Rebuilt(m, base) = m.data
  <1> DEFINE data == m.data
             block(i) == IF i \in m.changed THEN blockFile[<<m.id, i>>]
                         ELSE IF i \in DOMAIN Blocks(base) THEN Blocks(base)[i] ELSE << >>
             count == IF Len(Blocks(base)) > m.count THEN Len(Blocks(base)) ELSE m.count
             seqs == [i \in 1..count |-> block(i)]
             whole == FlattenSeq(seqs)
             n == Len(Blocks(data))
  <1>1. base \in Seq(Int) /\ data \in Seq(Int)
    BY CheckpointAssumption
  <1>2. /\ n \in Nat /\ DOMAIN Blocks(data) = 1..n
        /\ \A i \in 1..n : Blocks(data)[i] = BlockOf(data, i)
    BY <1>1, BlockEnds
  <1>3. /\ Len(Blocks(base)) \in Nat /\ DOMAIN Blocks(base) = 1..Len(Blocks(base))
        /\ \A i \in 1..Len(Blocks(base)) : Blocks(base)[i] = BlockOf(base, i)
    BY <1>1, BlockEnds
  <1>4. ASSUME NEW d \in Seq(Int), NEW i \in Nat \ {0} PROVE BlockOf(d, i) \in Seq(Int)
    <2>1. (i - 1) * BlockSize \in Nat /\ i * BlockSize \in Nat
      BY <1>4, BlockEnds
    <2>2. EndOf(d, i) \in Nat /\ EndOf(d, i) <= Len(d)
      BY <2>1 DEF EndOf
    <2>3. BlockOf(d, i) = SubSeq(d, (i - 1) * BlockSize + 1, EndOf(d, i))
      BY DEF BlockOf, EndOf
    <2> HIDE DEF BlockOf
    <2> QED BY <2>1, <2>2, <2>3, SubSeqProperties
  <1>5. m.changed \subseteq 1..n
    BY <1>2 DEF Changed
  <1>6. \A i \in 1..n : block(i) = BlockOf(data, i)
    <2> TAKE i \in 1..n
    <2>1. CASE i \in m.changed
      BY <2>1
    <2>2. CASE i \notin m.changed
      <3>1. i \in DOMAIN Blocks(base) /\ Blocks(base)[i] = Blocks(data)[i]
        BY <1>2, <2>2 DEF Changed
      <3> QED BY <1>2, <2>2, <3>1
    <2> QED BY <2>1, <2>2
  <1>7. \A i \in Nat \ {0} : block(i) \in Seq(Int)
    <2> TAKE i \in Nat \ {0}
    <2>4. BlockOf(data, i) \in Seq(Int) /\ BlockOf(base, i) \in Seq(Int)
      BY <1>1, <1>4
    <2>1. CASE i \in m.changed
      BY <2>1, <2>4
    <2>2. CASE i \notin m.changed /\ i \in DOMAIN Blocks(base)
      BY <1>3, <2>2, <2>4
    <2>3. CASE i \notin m.changed /\ i \notin DOMAIN Blocks(base)
      BY <2>3
    <2> QED BY <2>1, <2>2, <2>3
  <1>8. count \in Nat /\ n <= count
    BY <1>2, <1>3
  <1>9. seqs \in Seq(Seq(Int)) /\ Len(seqs) = count /\ \A i \in 1..count : seqs[i] = block(i)
    <2> HIDE DEF block, count
    <2> QED BY <1>7, <1>8
  <1>10. \A i \in 1..n : seqs[i] = BlockOf(data, i)
    <2>1. \A i \in 1..n : i \in 1..count
      BY <1>2, <1>8
    <2> HIDE DEF seqs, block, count
    <2> QED BY <1>6, <1>9, <2>1
  <1>11. /\ whole \in Seq(Int) /\ Len(data) <= Len(whole)
         /\ \A k \in 1..Len(data) : whole[k] = data[k]
    <2> HIDE DEF seqs, count
    <2>1. Len(Blocks(data)) <= Len(seqs)
      BY <1>8, <1>9
    <2> QED BY <1>1, <1>9, <1>10, <2>1, BlocksJoin
  <1>12. SubSeq(whole, 1, Len(data)) = data
    <2> HIDE DEF whole, data
    <2>1. Len(data) \in Nat /\ Len(whole) \in Nat
      BY <1>1, <1>11
    <2>2. SubSeq(whole, 1, Len(data)) = [k \in 1..Len(data) |-> whole[k]]
      <3>1. Len(data) - 1 + 1 = Len(data) /\ \A k \in 1..Len(data) : 1 + k - 1 = k
        BY <2>1
      <3>2. SubSeq(whole, 1, Len(data)) = [k \in 1..(Len(data) - 1 + 1) |-> whole[1 + k - 1]]
        BY <2>1 DEF SubSeq
      <3> QED BY <3>1, <3>2
    <2>3. data = [k \in 1..Len(data) |-> data[k]]
      BY <1>1
    <2> QED BY <1>11, <2>2, <2>3
  <1>13. (IF Len(whole) < Len(data) THEN Len(whole) ELSE Len(data)) = Len(data)
    BY <1>1, <1>11
  <1>14. ~ \E i \in m.changed : blockFile[<<m.id, i>>] # BlockOf(m.data, i)
    OBVIOUS
  <1>15. Rebuilt(m, base) = Restored(m, SubSeq(whole, 1, Len(data)))
    <2>1. Rebuilt(m, base) = Restored(m, SubSeq(whole, 1, IF Len(whole) < Len(data) THEN Len(whole) ELSE Len(data)))
      BY <1>14 DEF Rebuilt
    <2> QED BY <1>13, <2>1
  <1> HIDE DEF whole
  <1> QED BY <1>12, <1>15 DEF Restored

Manifest ==
  [kind : {"base"}, id : Checkpoint, base : Checkpoint, data : Content]
    \cup [kind : {"delta"}, id : Checkpoint, base : Checkpoint, data : Content,
          changed : SUBSET Nat, count : Nat]
StoreOp == {"read", "base", "publish base", "delta", "blocks"}
StoreCall ==
  [op : StoreOp, id : Checkpoint, base : Checkpoint, data : Content \cup {<< >>},
   chain : Seq(Manifest), next : Checkpoint, got : Content \cup {None}, todo : SUBSET Nat,
   room : Nat, visible : BOOLEAN]

CheckpointTypeOK ==
  /\ DOMAIN baseFile = Checkpoint
  /\ manifest \in [Checkpoint -> Manifest \cup {None}]
  /\ client \in [Client -> StoreCall \cup {None}]
  /\ puts \in [Checkpoint -> SUBSET Content] /\ putCount \in 0..MaxPuts /\ reused \in BOOLEAN

HasManifest(c) == manifest[c] # None
InCall(p) == client[p] # None
Putting(p) == InCall(p) /\ client[p].op # "read"
Follows(p) == InCall(p) /\ client[p].op \in {"read", "delta"}
StartOf(call) == IF call.op = "delta" THEN call.base ELSE call.id

(* What a step makes of a call, and how a step leaves the rest alone.      *)
Updated(new, old, op, chain, next, got, todo) ==
  /\ new \in StoreCall
  /\ new.op = op /\ new.chain = chain /\ new.next = next /\ new.got = got /\ new.todo = todo
  /\ new.id = old.id /\ new.base = old.base /\ new.data = old.data
  /\ new.room = old.room /\ new.visible = old.visible

After(p, op, chain, next, got, todo) ==
  /\ client' = [client EXCEPT ![p] = client'[p]]
  /\ Updated(client'[p], client[p], op, chain, next, got, todo)

Ends(p) ==
  client' = [client EXCEPT ![p] = None] /\ UNCHANGED <<baseFile, blockFile, manifest, history>>

Begins(p, op, c, b, d) ==
  LET new == client'[p]
  IN  /\ client' = [client EXCEPT ![p] = new]
      /\ new \in StoreCall
      /\ new.op = op /\ new.id = c /\ new.base = b /\ new.data = d
      /\ new.chain = << >> /\ new.got = None /\ new.todo = {} /\ new.next = StartOf(new)
      /\ new.visible <=> op = "read" /\ ReadsWithin(c, new.room)
      /\ UNCHANGED <<baseFile, blockFile, manifest>>

Counts(c, d) ==
  /\ putCount < MaxPuts
  /\ puts' = [puts EXCEPT ![c] = @ \cup {d}]
  /\ putCount' = putCount + 1
  /\ reused' = (reused \/ puts[c] # {})

Extends(p) ==
  LET call == client[p]
  IN  /\ InCall(p) /\ call.op \in {"read", "delta"} /\ call.got = None
      /\ ~(call.chain # << >> /\ Last(call.chain).kind = "base")
      /\ HasManifest(call.next)
      /\ After(p, call.op, Append(call.chain, manifest[call.next]), manifest[call.next].base,
               None, call.todo)
      /\ UNCHANGED <<baseFile, blockFile, manifest, history>>

Shortens(p) ==
  LET call == client[p]
  IN  /\ InCall(p) /\ call.op \in {"read", "delta"} /\ call.chain # << >>
      /\ \/ call.got = None /\ Last(call.chain).kind = "base"
         \/ call.got # None
      /\ After(p, call.op, Front(call.chain), call.next, Last(call.chain).data, call.todo)
      /\ UNCHANGED <<baseFile, blockFile, manifest, history>>

Compares(p) ==
  LET call == client[p]
  IN  /\ InCall(p) /\ call.op = "delta" /\ call.got # None /\ call.chain = << >>
      /\ After(p, "blocks", call.chain, call.next, call.got, Changed(call.got, call.data))
      /\ UNCHANGED <<baseFile, blockFile, manifest, history>>

WritesBase(p) ==
  LET call == client[p]
  IN  /\ InCall(p) /\ call.op = "base"
      /\ After(p, "publish base", call.chain, call.next, call.got, call.todo)
      /\ baseFile' = [baseFile EXCEPT ![call.id] = call.data]
      /\ UNCHANGED <<blockFile, manifest, history>>

WritesBlock(p) ==
  LET call == client[p]
  IN  /\ InCall(p) /\ call.op = "blocks"
      /\ \E i \in call.todo :
           /\ After(p, "blocks", call.chain, call.next, call.got, call.todo \ {i})
           /\ blockFile' = [r \in DOMAIN blockFile \cup {<<call.id, i>>} |->
                              IF r = <<call.id, i>> THEN BlockOf(call.data, i) ELSE blockFile[r]]
      /\ UNCHANGED <<baseFile, manifest, history>>

Publishes(p) ==
  LET call == client[p]
  IN  /\ InCall(p)
      /\ \/ call.op = "publish base"
         \/ call.op = "blocks" /\ call.todo = {}
      /\ manifest' = [manifest EXCEPT ![call.id] = NewManifest(call)]
      /\ client' = [client EXCEPT ![p] = None]
      /\ UNCHANGED <<baseFile, blockFile, history>>

(* Each step of a client is one of these.                                  *)
StepOf(p) ==
  \/ Ends(p) \/ Extends(p) \/ Shortens(p) \/ Compares(p)
  \/ WritesBase(p) \/ WritesBlock(p) \/ Publishes(p)
  \/ \E c \in Checkpoint : Begins(p, "read", c, c, << >>) /\ UNCHANGED history
  \/ \E op \in {"base", "delta"} : \E c, b \in Checkpoint, d \in Content :
       /\ op = "base" => b = c
       /\ Begins(p, op, c, b, d) /\ Counts(c, d)

ReadStep == \E p \in Client : StepOf(p)

LEMMA SequenceEnds ==
  ASSUME NEW s \in Seq(Manifest), s # << >>
  PROVE  /\ Len(s) \in Nat /\ Len(s) > 0
         /\ Last(s) = s[Len(s)] /\ Last(s) \in Manifest
         /\ Front(s) \in Seq(Manifest) /\ Len(Front(s)) = Len(s) - 1
         /\ \A i \in 1..(Len(s) - 1) : Front(s)[i] = s[i]
  <1>1. Len(s) \in Nat /\ Len(s) > 0
    BY EmptySeq
  <1>2. Last(s) = s[Len(s)]
    BY DEF Last
  <1>3. Front(s) = SubSeq(s, 1, Len(s) - 1)
    BY DEF Front
  <1>4. \A i \in 1..(Len(s) - 1) : s[i] \in Manifest
    BY <1>1
  <1>5. 1 \in Int /\ Len(s) - 1 \in Int /\ \A i \in 1..(Len(s) - 1) : 1 + i - 1 = i
    BY <1>1
  <1>6. /\ Front(s) \in Seq(Manifest)
        /\ Len(Front(s)) = IF 1 <= Len(s) - 1 THEN Len(s) - 1 - 1 + 1 ELSE 0
        /\ \A i \in 1..(Len(s) - 1 - 1 + 1) : Front(s)[i] = s[1 + i - 1]
    BY <1>3, <1>4, <1>5, SubSeqProperties
  <1>7. Last(s) \in Manifest
    BY <1>1, <1>2
  <1>8. Len(s) - 1 - 1 + 1 = Len(s) - 1
    BY <1>1
  <1>9. Len(Front(s)) = Len(s) - 1
    <2>1. CASE 1 <= Len(s) - 1
      BY <1>6, <1>8, <2>1
    <2>2. CASE ~(1 <= Len(s) - 1)
      <3>1. Len(Front(s)) = 0
        BY <1>6, <2>2
      <3>2. \A n \in Nat : n > 0 /\ ~(1 <= n - 1) => n - 1 = 0
        OBVIOUS
      <3>3. Len(s) - 1 = 0
        BY <1>1, <2>2, <3>2
      <3> QED BY <3>1, <3>3
    <2> QED BY <2>1, <2>2
  <1>10. \A i \in 1..(Len(s) - 1) : Front(s)[i] = s[i]
    <2> TAKE i \in 1..(Len(s) - 1)
    <2>1. Front(s)[i] = s[1 + i - 1] /\ 1 + i - 1 = i
      BY <1>5, <1>6, <1>8
    <2> QED BY <2>1
  <1> QED BY <1>1, <1>2, <1>6, <1>7, <1>9, <1>10

LEMMA OpUpdated ==
  ASSUME NEW r \in StoreCall, NEW op \in StoreOp,
         NEW s, s = [r EXCEPT !.op = op]
  PROVE  Updated(s, r, op, r.chain, r.next, r.got, r.todo)
  <1> DEFINE Chains == Seq(Manifest)
             Gots == Content \cup {None}
             Datas == Content \cup {<< >>}
             Todos == SUBSET Nat
  <1>1. op \in StoreOp
    OBVIOUS
  <1>2. StoreCall = [op : StoreOp, id : Checkpoint, base : Checkpoint, data : Datas, chain : Chains,
                next : Checkpoint, got : Gots, todo : Todos, room : Nat, visible : BOOLEAN]
    BY DEF StoreCall
  <1> HIDE DEF Chains, Gots, Datas, Todos
  <1> QED BY <1>1, <1>2 DEF Updated

LEMMA TodoUpdated ==
  ASSUME NEW r \in StoreCall, NEW todo \in SUBSET Nat,
         NEW s, s = [r EXCEPT !.todo = todo]
  PROVE  Updated(s, r, r.op, r.chain, r.next, r.got, todo)
  <1> DEFINE Chains == Seq(Manifest)
             Gots == Content \cup {None}
             Datas == Content \cup {<< >>}
             Todos == SUBSET Nat
  <1>1. todo \in Todos
    OBVIOUS
  <1>2. StoreCall = [op : StoreOp, id : Checkpoint, base : Checkpoint, data : Datas, chain : Chains,
                next : Checkpoint, got : Gots, todo : Todos, room : Nat, visible : BOOLEAN]
    BY DEF StoreCall
  <1> HIDE DEF Chains, Gots, Datas, Todos
  <1> QED BY <1>1, <1>2 DEF Updated

LEMMA OpTodoUpdated ==
  ASSUME NEW r \in StoreCall, NEW op \in StoreOp, NEW todo \in SUBSET Nat,
         NEW s, s = [r EXCEPT !.op = op, !.todo = todo]
  PROVE  Updated(s, r, op, r.chain, r.next, r.got, todo)
  <1> DEFINE Chains == Seq(Manifest)
             Gots == Content \cup {None}
             Datas == Content \cup {<< >>}
             Todos == SUBSET Nat
  <1>1. todo \in Todos
    OBVIOUS
  <1>2. StoreCall = [op : StoreOp, id : Checkpoint, base : Checkpoint, data : Datas, chain : Chains,
                next : Checkpoint, got : Gots, todo : Todos, room : Nat, visible : BOOLEAN]
    BY DEF StoreCall
  <1> HIDE DEF Chains, Gots, Datas, Todos
  <1> QED BY <1>1, <1>2 DEF Updated

LEMMA ChainNextUpdated ==
  ASSUME NEW r \in StoreCall, NEW chain \in Seq(Manifest), NEW next \in Checkpoint,
         NEW s, s = [r EXCEPT !.chain = chain, !.next = next]
  PROVE  Updated(s, r, r.op, chain, next, r.got, r.todo)
  <1> DEFINE Chains == Seq(Manifest)
             Gots == Content \cup {None}
             Datas == Content \cup {<< >>}
             Todos == SUBSET Nat
  <1>1. chain \in Chains
    OBVIOUS
  <1>2. StoreCall = [op : StoreOp, id : Checkpoint, base : Checkpoint, data : Datas, chain : Chains,
                next : Checkpoint, got : Gots, todo : Todos, room : Nat, visible : BOOLEAN]
    BY DEF StoreCall
  <1> HIDE DEF Chains, Gots, Datas, Todos
  <1> QED BY <1>1, <1>2 DEF Updated

LEMMA ChainGotUpdated ==
  ASSUME NEW r \in StoreCall, NEW chain \in Seq(Manifest), NEW got \in Content \cup {None},
         NEW s, s = [r EXCEPT !.chain = chain, !.got = got]
  PROVE  Updated(s, r, r.op, chain, r.next, got, r.todo)
  <1> DEFINE Chains == Seq(Manifest)
             Gots == Content \cup {None}
             Datas == Content \cup {<< >>}
             Todos == SUBSET Nat
  <1>1. chain \in Chains /\ got \in Gots
    OBVIOUS
  <1>2. StoreCall = [op : StoreOp, id : Checkpoint, base : Checkpoint, data : Datas, chain : Chains,
                next : Checkpoint, got : Gots, todo : Todos, room : Nat, visible : BOOLEAN]
    BY DEF StoreCall
  <1> HIDE DEF Chains, Gots, Datas, Todos
  <1> QED BY <1>1, <1>2 DEF Updated

LEMMA ReadStepCases ==
  ASSUME CheckpointTypeOK, [CheckpointNext]_checkpointVars
  PROVE  ReadStep \/ UNCHANGED <<baseFile, blockFile, manifest, client, history>>
  <1> SUFFICES ASSUME CheckpointNext PROVE ReadStep
    BY DEF checkpointVars
  <1> USE DEF history
  <1>1. ASSUME NEW p \in Client, NEW c \in Checkpoint, NEW b \in Checkpoint,
               NEW d \in Content \cup {<< >>}, NEW op \in {"read", "base", "delta"},
               NEW room \in Nat, Begin(p, op, c, b, d, room)
        PROVE  Begins(p, op, c, b, d)
    <2> DEFINE sees == op = "read" /\ ReadsWithin(c, room)
               new == [op |-> op, id |-> c, base |-> b, data |-> d, chain |-> << >>,
                       next |-> IF op = "delta" THEN b ELSE c, got |-> None, todo |-> {},
                       room |-> room, visible |-> sees]
    <2>1. client' = [client EXCEPT ![p] = new]
      BY <1>1 DEF Begin, Set
    <2>2. client'[p] = new
      BY <2>1 DEF CheckpointTypeOK
    <2>3. new \in StoreCall
      <3> DEFINE Chains == Seq(Manifest)
                 Datas == Content \cup {<< >>}
                 Todos == SUBSET Nat
      <3>1. << >> \in Chains /\ d \in Datas /\ {} \in Todos /\ sees \in BOOLEAN
        OBVIOUS
      <3>2. StoreCall = [op : StoreOp, id : Checkpoint, base : Checkpoint, data : Datas, chain : Chains,
                    next : Checkpoint, got : Content \cup {None}, todo : Todos, room : Nat,
                    visible : BOOLEAN]
        BY DEF StoreCall
      <3>3. op \in StoreOp
        BY DEF StoreOp
      <3> HIDE DEF Chains, Datas, Todos, sees
      <3> QED BY <3>1, <3>2, <3>3
    <2>4. UNCHANGED <<baseFile, blockFile, manifest>>
      BY <1>1 DEF Begin
    <2>5. /\ new.op = op /\ new.id = c /\ new.base = b /\ new.data = d
          /\ new.chain = << >> /\ new.got = None /\ new.todo = {}
          /\ new.next = IF op = "delta" THEN b ELSE c
          /\ new.room = room /\ new.visible = sees
      OBVIOUS
    <2> HIDE DEF new
    <2>6. new.next = StartOf(new)
      BY <2>5 DEF StartOf
    <2> QED BY <2>1, <2>2, <2>3, <2>4, <2>5, <2>6 DEF Begins
  <1>2. ASSUME NEW p \in Client, NEW c \in Checkpoint, NEW room \in Nat, BeginRead(p, c, room)
        PROVE  ReadStep
    <2>1. Begins(p, "read", c, c, << >>) /\ UNCHANGED history
      BY <1>1, <1>2 DEF BeginRead
    <2> QED BY <2>1 DEF ReadStep, StepOf
  <1>3. ASSUME NEW p \in Client, NEW op \in {"base", "delta"},
               NEW c \in Checkpoint, NEW b \in Checkpoint, NEW d \in Content, NEW room \in Nat,
               op = "base" => b = c, BeginPut(p, op, c, b, d, room)
        PROVE  ReadStep
    <2>1. Begins(p, op, c, b, d) /\ Counts(c, d)
      BY <1>1, <1>3 DEF BeginPut, Counts
    <2> QED BY <1>3, <2>1 DEF ReadStep, StepOf
  <1>4. ASSUME NEW p \in Client, client[p] # None PROVE client[p] \in StoreCall
    BY <1>4 DEF CheckpointTypeOK
  <1>5. ASSUME NEW p \in Client, NEW new, Set(p, new) PROVE client' = [client EXCEPT ![p] = new] /\ client'[p] = new
    BY <1>5 DEF Set, CheckpointTypeOK
  <1>6. ASSUME NEW p \in Client, WriteBase(p) PROVE ReadStep
    <2>1. client[p] \in StoreCall /\ client'[p] = [client[p] EXCEPT !.op = "publish base"]
          /\ client' = [client EXCEPT ![p] = client'[p]]
      BY <1>4, <1>5, <1>6 DEF WriteBase
    <2>2. WritesBase(p)
      BY <1>6, <2>1, OpUpdated DEF WriteBase, WritesBase, After, StoreOp, InCall
    <2> QED BY <2>2 DEF ReadStep, StepOf
  <1>7. ASSUME NEW p \in Client, ReadManifest(p) PROVE ReadStep
    <2> DEFINE call == client[p]
               next == call.next
    <2>1. /\ InCall(p) /\ call \in StoreCall /\ call.op \in {"read", "delta"} /\ call.got = None
          /\ ~(call.chain # << >> /\ Last(call.chain).kind = "base")
      BY <1>4, <1>7 DEF ReadManifest, Reading, Followed, InCall
    <2>2. CASE manifest[next] = None \/ Len(call.chain) = call.room
      <3>1. Ends(p)
        BY <1>7, <2>2 DEF ReadManifest, End, Set, Ends
      <3> QED BY <3>1 DEF ReadStep, StepOf
    <2>3. CASE ~(manifest[next] = None \/ Len(call.chain) = call.room)
      <3>1. /\ client'[p] = [call EXCEPT !.chain = Append(@, manifest[next]),
                                         !.next = manifest[next].base]
            /\ client' = [client EXCEPT ![p] = client'[p]]
            /\ UNCHANGED <<baseFile, blockFile, manifest, history>>
        BY <1>5, <1>7, <2>3 DEF ReadManifest
      <3>2. next \in Checkpoint /\ call.chain \in Seq(Manifest)
        BY <2>1 DEF StoreCall
      <3>3. manifest[next] \in Manifest
        BY <2>3, <3>2 DEF CheckpointTypeOK
      <3>4. manifest[next].base \in Checkpoint
        BY <3>3 DEF Manifest
      <3>5. Append(call.chain, manifest[next]) \in Seq(Manifest)
        BY <3>2, <3>3
      <3>6. client'[p] = [call EXCEPT !.chain = Append(call.chain, manifest[next]),
                                      !.next = manifest[next].base]
        BY <2>1, <3>1 DEF StoreCall
      <3> DEFINE more == Append(call.chain, manifest[next])
                 onto == manifest[next].base
      <3>7. After(p, call.op, more, onto, None, call.todo)
        <4> HIDE DEF more, onto
        <4> QED BY <2>1, <3>1, <3>4, <3>5, <3>6, ChainNextUpdated DEF After, more, onto
      <3>8. Extends(p)
        BY <2>1, <2>3, <3>1, <3>7 DEF Extends, HasManifest
      <3> QED BY <3>8 DEF ReadStep, StepOf
    <2> QED BY <2>2, <2>3
  <1>8. ASSUME NEW p \in Client, InCall(p), client[p].op \in {"read", "delta"},
               client[p].chain # << >>,
               \/ client[p].got = None /\ Last(client[p].chain).kind = "base"
               \/ client[p].got # None,
               Set(p, [client[p] EXCEPT !.chain = Front(@), !.got = Last(client[p].chain).data]),
               UNCHANGED <<baseFile, blockFile, manifest, history>>
        PROVE  ReadStep
    <2> DEFINE call == client[p]
               front == Front(call.chain)
               data == Last(call.chain).data
    <2>1. call \in StoreCall
      BY <1>4, <1>8 DEF InCall
    <2>2. call.chain \in Seq(Manifest)
      BY <2>1 DEF StoreCall
    <2>3. front \in Seq(Manifest) /\ Last(call.chain) \in Manifest
      BY <1>8, <2>2, SequenceEnds
    <2>4. data \in Content
      BY <2>3 DEF Manifest
    <2>5. client' = [client EXCEPT ![p] = client'[p]]
          /\ client'[p] = [call EXCEPT !.chain = Front(@), !.got = data]
      BY <1>5, <1>8
    <2>6. client'[p] = [call EXCEPT !.chain = front, !.got = data]
      BY <2>1, <2>5 DEF StoreCall
    <2>7. After(p, call.op, front, call.next, data, call.todo)
      <3> HIDE DEF front, data
      <3> QED BY <2>1, <2>3, <2>4, <2>5, <2>6, ChainGotUpdated DEF After
    <2>8. Shortens(p)
      BY <1>8, <2>7 DEF Shortens
    <2> QED BY <2>8 DEF ReadStep, StepOf
  <1>9. ASSUME NEW p \in Client, ReadBase(p) PROVE ReadStep
    <2>1. CASE baseFile[Last(client[p].chain).base] # Last(client[p].chain).data
      <3>1. Ends(p)
        BY <1>9, <2>1 DEF ReadBase, End, Set, Ends
      <3> QED BY <3>1 DEF ReadStep, StepOf
    <2>2. CASE ~(baseFile[Last(client[p].chain).base] # Last(client[p].chain).data)
      <3>1. /\ Set(p, [client[p] EXCEPT !.chain = Front(@), !.got = Last(client[p].chain).data])
            /\ UNCHANGED <<baseFile, blockFile, manifest, history>>
        BY <1>9, <2>2 DEF ReadBase
      <3>2. /\ InCall(p) /\ client[p].op \in {"read", "delta"} /\ client[p].chain # << >>
            /\ client[p].got = None /\ Last(client[p].chain).kind = "base"
        BY <1>9 DEF ReadBase, Reading, Followed, InCall
      <3> QED BY <1>8, <3>1, <3>2
    <2> QED BY <2>1, <2>2
  <1>10. ASSUME NEW p \in Client, ApplyDelta(p) PROVE ReadStep
    <2> DEFINE m == Last(client[p].chain)
               data == Rebuilt(m, client[p].got)
    <2>1. /\ InCall(p) /\ client[p].op \in {"read", "delta"} /\ client[p].chain # << >>
          /\ client[p].got # None
      BY <1>10 DEF ApplyDelta, Applying, InCall
    <2>2. CASE data = None
      <3>1. Ends(p)
        BY <1>10, <2>2 DEF ApplyDelta, End, Set, Ends
      <3> QED BY <3>1 DEF ReadStep, StepOf
    <2>3. CASE data # None
      <3>1. /\ Set(p, [client[p] EXCEPT !.chain = Front(@), !.got = data])
            /\ UNCHANGED <<baseFile, blockFile, manifest, history>>
        BY <1>10, <2>3 DEF ApplyDelta
      <3>2. data = m.data
        BY <2>3 DEF Rebuilt, Restored
      <3> HIDE DEF data
      <3> QED BY <1>8, <2>1, <3>1, <3>2
    <2> QED BY <2>2, <2>3
  <1>11. ASSUME NEW p \in Client, ReturnRead(p) \/ ClientDies(p) PROVE ReadStep
    <2>1. Ends(p)
      BY <1>11 DEF ReturnRead, ClientDies, End, Set, Ends
    <2> QED BY <2>1 DEF ReadStep, StepOf
  <1>12. ASSUME NEW p \in Client, CompareBlocks(p) PROVE ReadStep
    <2> DEFINE call == client[p]
               changed == Changed(call.got, call.data)
    <2>1. /\ InCall(p) /\ call \in StoreCall /\ call.op = "delta" /\ call.got # None /\ call.chain = << >>
      BY <1>4, <1>12 DEF CompareBlocks, Applying, InCall
    <2>2. client'[p] = [call EXCEPT !.op = "blocks", !.todo = changed]
          /\ client' = [client EXCEPT ![p] = client'[p]]
      BY <1>5, <1>12 DEF CompareBlocks
    <2>3. changed \in SUBSET Nat
      <3>1. call.data \in Seq(Int)
        <4>1. call.data \in Content \cup {<< >>} /\ << >> \in Seq(Int)
          BY <2>1 DEF StoreCall
        <4> QED BY <4>1, CheckpointAssumption
      <3> QED BY <3>1, BlockEnds DEF Changed
    <2>4. After(p, "blocks", call.chain, call.next, call.got, changed)
      <3> HIDE DEF changed
      <3> QED BY <2>1, <2>2, <2>3, OpTodoUpdated DEF After, StoreOp
    <2>5. Compares(p)
      BY <1>12, <2>1, <2>4 DEF CompareBlocks, Compares
    <2> QED BY <2>5 DEF ReadStep, StepOf
  <1>13. ASSUME NEW p \in Client, WriteBlock(p) PROVE ReadStep
    <2> DEFINE call == client[p]
               i == CHOOSE i \in call.todo : \A j \in call.todo : i <= j
    <2>1. /\ InCall(p) /\ call \in StoreCall /\ call.op = "blocks" /\ call.todo # {}
      BY <1>4, <1>13 DEF WriteBlock, InCall
    <2>2. call.todo \in SUBSET Nat
      BY <2>1 DEF StoreCall
    <2>3. i \in call.todo
      <3>1. \E k \in call.todo : \A j \in call.todo : k <= j
        BY <2>1, <2>2, LeastNumber
      <3> QED BY <3>1
    <2>4. /\ client'[p] = [call EXCEPT !.todo = @ \ {i}]
          /\ client' = [client EXCEPT ![p] = client'[p]]
          /\ blockFile' = [r \in DOMAIN blockFile \cup {<<call.id, i>>} |->
                              IF r = <<call.id, i>> THEN BlockOf(call.data, i) ELSE blockFile[r]]
          /\ UNCHANGED <<baseFile, manifest, history>>
      BY <1>5, <1>13 DEF WriteBlock
    <2> HIDE DEF i
    <2> DEFINE rest == call.todo \ {i}
    <2>5. client'[p] = [call EXCEPT !.todo = rest] /\ rest \in SUBSET Nat
      BY <2>1, <2>2, <2>4 DEF StoreCall
    <2>6. After(p, "blocks", call.chain, call.next, call.got, rest)
      <3> HIDE DEF rest
      <3>1. rest \in SUBSET Nat /\ client'[p] = [call EXCEPT !.todo = rest] /\ call.op = "blocks"
        BY <2>1, <2>5
      <3> HIDE DEF rest
      <3>2. Updated(client'[p], call, call.op, call.chain, call.next, call.got, rest)
        BY <2>1, <3>1, TodoUpdated
      <3> QED BY <2>4, <3>1, <3>2 DEF After
    <2>7. WritesBlock(p)
      BY <2>1, <2>3, <2>4, <2>6 DEF WritesBlock
    <2> QED BY <2>7 DEF ReadStep, StepOf
  <1>14. ASSUME NEW p \in Client, WriteManifest(p) PROVE ReadStep
    <2>1. Publishes(p)
      BY <1>5, <1>14 DEF WriteManifest, Publishes, InCall
    <2> QED BY <2>1 DEF ReadStep, StepOf
  <1>15. 0 \in Nat /\ \A room \in Room : room \in Nat /\ room - 1 \in Nat
    BY CheckpointAssumption
  <1> QED BY <1>2, <1>3, <1>6, <1>7, <1>9, <1>10, <1>11, <1>12, <1>13, <1>14, <1>15 DEF CheckpointNext

(* What a thread has read was put under the identifiers it asked for.      *)
GivenFile(c, m, put) ==
  m # None =>
    /\ m.id = c /\ m.data \in put[c]
    /\ m.kind = "base" => m.base = c

GivenPut(call, put) ==
  /\ call.data \in put[call.id]
  /\ call.op \in {"base", "publish base"} => call.base = call.id
  /\ call.op = "blocks" => call.got # None

GivenChain(call, put) ==
  LET chain == call.chain
  IN  /\ \A i \in 1..Len(chain) : chain[i].data \in put[chain[i].id]
      /\ Len(chain) > 0 => chain[1].id = StartOf(call)
      /\ Len(chain) = 0 /\ call.got = None => call.next = StartOf(call)
      /\ Len(chain) = 0 /\ call.got # None => call.got \in put[StartOf(call)]

GivenInv ==
  /\ \A c \in Checkpoint : GivenFile(c, manifest[c], puts)
  /\ \A q \in Client : Putting(q) => GivenPut(client[q], puts)
  /\ \A q \in Client : Follows(q) => GivenChain(client[q], puts)

LEMMA PutsGrow ==
  ASSUME CheckpointTypeOK, NEW p \in Client, StepOf(p)
  PROVE  \A c \in Checkpoint : puts[c] \subseteq puts'[c]
  <1>1. CASE UNCHANGED history
    BY <1>1 DEF history
  <1>2. ASSUME NEW c \in Checkpoint, NEW d \in Content, Counts(c, d)
        PROVE  \A e \in Checkpoint : puts[e] \subseteq puts'[e]
    <2>1. \A e \in Checkpoint : puts'[e] = IF e = c THEN puts[e] \cup {d} ELSE puts[e]
      BY <1>2 DEF Counts, CheckpointTypeOK
    <2> QED BY <2>1
  <1> QED BY <1>1, <1>2 DEF StepOf, Ends, Extends, Shortens, Compares, WritesBase, WritesBlock, Publishes

LEMMA OthersStand ==
  ASSUME CheckpointTypeOK, NEW p \in Client, StepOf(p)
  PROVE  \A q \in Client : q # p => client'[q] = client[q]
  BY DEF StepOf, CheckpointTypeOK, Ends, Extends, Shortens, Compares, WritesBase, WritesBlock,
         Publishes, Begins, After

LEMMA CallsMatch ==
  ASSUME CheckpointTypeOK, NEW p \in Client, InCall(p)
  PROVE  /\ client[p] \in StoreCall /\ client[p].op \in StoreOp
         /\ client[p].id \in Checkpoint /\ client[p].base \in Checkpoint /\ client[p].next \in Checkpoint
         /\ client[p].chain \in Seq(Manifest) /\ StartOf(client[p]) \in Checkpoint
         /\ client[p].room \in Nat
  BY DEF CheckpointTypeOK, InCall, StoreCall, StartOf

LEMMA ManifestsMatch ==
  ASSUME NEW m \in Manifest
  PROVE  m.kind \in {"base", "delta"} /\ m.id \in Checkpoint /\ m.base \in Checkpoint /\ m.data \in Content
  BY DEF Manifest

(* A manifest that is written is one, of what was put.                     *)
LEMMA NewManifestMatches ==
  ASSUME CheckpointTypeOK, GivenInv, NEW p \in Client, Publishes(p)
  PROVE  LET m == NewManifest(client[p])
         IN  m \in Manifest /\ GivenFile(client[p].id, m, puts)
  <1> DEFINE call == client[p]
  <1>1. InCall(p) /\ call.op \in {"publish base", "blocks"} /\ call.id \in Checkpoint
        /\ call.base \in Checkpoint
    BY CallsMatch DEF Publishes
  <1>2. GivenPut(call, puts)
    BY <1>1 DEF GivenInv, Putting
  <1>3. call.data \in Content /\ call.data \in puts[call.id]
    BY <1>1, <1>2 DEF GivenPut, CheckpointTypeOK
  <1>4. call.data \in Seq(Int)
    BY <1>3, CheckpointAssumption
  <1> DEFINE changed == Changed(call.got, call.data)
             count == Len(Blocks(call.data))
  <1>5. changed \in SUBSET Nat /\ count \in Nat
    BY <1>4, BlockEnds DEF Changed
  <1>6. CASE call.op = "publish base"
    BY <1>1, <1>2, <1>3, <1>6 DEF NewManifest, Manifest, GivenFile, GivenPut
  <1>7. CASE call.op = "blocks"
    <2> HIDE DEF changed, count
    <2>1. NewManifest(call) = [kind |-> "delta", id |-> call.id, base |-> call.base,
                               data |-> call.data, changed |-> changed, count |-> count]
      BY <1>7 DEF NewManifest, changed, count
    <2>2. NewManifest(call) \in Manifest
      <3> DEFINE Sets == SUBSET Nat
      <3>1. changed \in Sets
        BY <1>5
      <3>2. [kind : {"delta"}, id : Checkpoint, base : Checkpoint, data : Content,
             changed : Sets, count : Nat] \subseteq Manifest
        BY DEF Manifest
      <3> HIDE DEF Sets
      <3>3. NewManifest(call) \in [kind : {"delta"}, id : Checkpoint, base : Checkpoint,
                                   data : Content, changed : Sets, count : Nat]
        <4>1. /\ call.id \in Checkpoint /\ call.base \in Checkpoint /\ call.data \in Content
              /\ changed \in Sets /\ count \in Nat /\ "delta" \in {"delta"}
          BY <1>1, <1>3, <1>5, <3>1
        <4> HIDE DEF call
        <4> QED BY <2>1, <4>1
      <3> QED BY <3>2, <3>3
    <2>3. GivenFile(call.id, NewManifest(call), puts)
      BY <1>3, <2>1 DEF GivenFile
    <2> QED BY <2>2, <2>3
  <1> QED BY <1>1, <1>6, <1>7

LEMMA TypesPreserved ==
  ASSUME CheckpointTypeOK, GivenInv, NEW p \in Client, StepOf(p)
  PROVE  CheckpointTypeOK'
  <1>1. client' \in [Client -> StoreCall \cup {None}]
    <2>1. client' = [client EXCEPT ![p] = client'[p]] /\ client'[p] \in StoreCall \cup {None}
      BY DEF StepOf, CheckpointTypeOK, Ends, Extends, Shortens, Compares, WritesBase, WritesBlock,
             Publishes, Begins, After, Updated
    <2> QED BY <2>1 DEF CheckpointTypeOK
  <1>2. DOMAIN baseFile' = Checkpoint
    BY DEF StepOf, CheckpointTypeOK, Ends, Extends, Shortens, Compares, WritesBase, WritesBlock,
           Publishes, Begins
  <1>3. manifest' \in [Checkpoint -> Manifest \cup {None}]
    <2>1. CASE Publishes(p)
      <3>1. NewManifest(client[p]) \in Manifest
        BY <2>1, NewManifestMatches
      <3>2. client[p].id \in Checkpoint
        BY <2>1, CallsMatch DEF Publishes
      <3> QED BY <2>1, <3>1, <3>2 DEF Publishes, CheckpointTypeOK
    <2>2. CASE ~Publishes(p)
      BY <2>2 DEF StepOf, CheckpointTypeOK, Ends, Extends, Shortens, Compares, WritesBase, WritesBlock,
                  Begins
    <2> QED BY <2>1, <2>2
  <1>4. /\ puts' \in [Checkpoint -> SUBSET Content] /\ putCount' \in 0..MaxPuts
        /\ reused' \in BOOLEAN
    <2>1. CASE UNCHANGED history
      BY <2>1 DEF CheckpointTypeOK, history
    <2>2. ASSUME NEW c \in Checkpoint, NEW d \in Content, Counts(c, d)
          PROVE  /\ puts' \in [Checkpoint -> SUBSET Content] /\ putCount' \in 0..MaxPuts
                 /\ reused' \in BOOLEAN
      BY <2>2, CheckpointAssumption DEF CheckpointTypeOK, Counts
    <2> QED BY <2>1, <2>2 DEF StepOf, Ends, Extends, Shortens, Compares, WritesBase, WritesBlock, Publishes
  <1> QED BY <1>1, <1>2, <1>3, <1>4 DEF CheckpointTypeOK

LEMMA GivenPreserved ==
  ASSUME CheckpointTypeOK, GivenInv, NEW p \in Client, StepOf(p)
  PROVE  GivenInv'
  <1>1. \A c \in Checkpoint : puts[c] \subseteq puts'[c]
    BY PutsGrow
  <1>2. \A c \in Checkpoint : GivenFile(c, manifest'[c], puts')
    <2> TAKE c \in Checkpoint
    <2>1. GivenFile(c, manifest'[c], puts)
      <3>1. GivenFile(c, manifest[c], puts)
        BY DEF GivenInv
      <3>2. CASE Publishes(p)
        <4>1. GivenFile(client[p].id, NewManifest(client[p]), puts)
          BY <3>2, NewManifestMatches
        <4> QED BY <3>1, <3>2, <4>1 DEF Publishes, CheckpointTypeOK
      <3>3. CASE ~Publishes(p)
        BY <3>1, <3>3 DEF StepOf, Ends, Extends, Shortens, Compares, WritesBase, WritesBlock, Begins
      <3> QED BY <3>2, <3>3
    <2> QED BY <1>1, <2>1 DEF GivenFile
  <1>3. ASSUME NEW q \in Client, Putting(q)' PROVE GivenPut(client'[q], puts')
    <2>1. ASSUME Putting(q), client'[q].data = client[q].data, client'[q].id = client[q].id,
                 client'[q].base = client[q].base,
                 client'[q].op \in {"base", "publish base"} => client[q].op \in {"base", "publish base"},
                 client'[q].op = "blocks" => client'[q].got # None
          PROVE  GivenPut(client'[q], puts')
      <3>1. client[q].id \in Checkpoint /\ GivenPut(client[q], puts)
        BY <2>1, CallsMatch DEF Putting, GivenInv
      <3> QED BY <1>1, <2>1, <3>1 DEF GivenPut
    <2>2. CASE q # p
      <3>1. client'[q] = client[q]
        BY <2>2, OthersStand
      <3>2. Putting(q) /\ GivenPut(client[q], puts)
        BY <1>3, <3>1 DEF Putting, InCall, GivenInv
      <3> QED BY <2>1, <3>1, <3>2 DEF GivenPut
    <2>3. CASE q = p
      <3>1. CASE Ends(p) \/ Publishes(p)
        BY <1>3, <2>3, <3>1 DEF Ends, Publishes, Putting, InCall, CheckpointTypeOK
      <3>2. CASE Extends(p) \/ Shortens(p)
        <4>1. /\ client'[p].op = client[p].op /\ client[p].op \in {"read", "delta"} /\ InCall(p)
              /\ client'[p].data = client[p].data /\ client'[p].id = client[p].id
              /\ client'[p].base = client[p].base
          BY <3>2 DEF Extends, Shortens, After, Updated
        <4> QED BY <1>3, <2>1, <2>3, <4>1 DEF Putting
      <3>3. CASE Compares(p) \/ WritesBase(p) \/ WritesBlock(p)
        <4>1. /\ Putting(p) /\ GivenPut(client[p], puts)
          BY <3>3 DEF Compares, WritesBase, WritesBlock, Putting, GivenInv
        <4>2. CASE Compares(p)
          BY <2>1, <2>3, <4>1, <4>2 DEF Compares, After, Updated
        <4>3. CASE WritesBase(p)
          BY <2>1, <2>3, <4>1, <4>3 DEF WritesBase, After, Updated
        <4>4. CASE WritesBlock(p)
          BY <2>1, <2>3, <4>1, <4>4 DEF WritesBlock, After, Updated, GivenPut
        <4> QED BY <3>3, <4>2, <4>3, <4>4
      <3>4. ASSUME NEW c \in Checkpoint, Begins(p, "read", c, c, << >>) PROVE FALSE
        BY <1>3, <2>3, <3>4 DEF Begins, Putting
      <3>5. ASSUME NEW op \in {"base", "delta"}, NEW c \in Checkpoint, NEW b \in Checkpoint,
                   NEW d \in Content, op = "base" => b = c, Begins(p, op, c, b, d), Counts(c, d)
            PROVE  GivenPut(client'[p], puts')
        <4>1. d \in puts'[c]
          BY <3>5 DEF Counts, CheckpointTypeOK
        <4> QED BY <3>5, <4>1 DEF Begins, GivenPut
      <3> QED BY <2>3, <3>1, <3>2, <3>3, <3>4, <3>5 DEF StepOf
    <2> QED BY <2>2, <2>3
  <1>4. ASSUME NEW q \in Client, Follows(q)' PROVE GivenChain(client'[q], puts')
    <2>1. ASSUME NEW call, call \in StoreCall, GivenChain(call, puts)
          PROVE  GivenChain(call, puts')
      <3>1. call.chain \in Seq(Manifest) /\ StartOf(call) \in Checkpoint
        BY <2>1 DEF StoreCall, StartOf
      <3>2. \A i \in 1..Len(call.chain) : call.chain[i].id \in Checkpoint
        BY <3>1, ManifestsMatch
      <3> QED BY <1>1, <2>1, <3>1, <3>2 DEF GivenChain
    <2>2. CASE q # p
      <3>1. client'[q] = client[q]
        BY <2>2, OthersStand
      <3>2. Follows(q) /\ InCall(q) /\ GivenChain(client[q], puts)
        BY <1>4, <3>1 DEF Follows, InCall, GivenInv
      <3> QED BY <2>1, <3>1, <3>2, CallsMatch
    <2>3. CASE q = p
      <3> DEFINE call == client[p]
                 new == client'[p]
                 chain == call.chain
                 n == Len(chain)
      <3>1. CASE Ends(p) \/ Publishes(p)
        BY <1>4, <2>3, <3>1 DEF Ends, Publishes, Follows, InCall, CheckpointTypeOK
      <3>2. CASE Extends(p)
        <4>1. InCall(p) /\ Follows(p) /\ GivenChain(call, puts)
          BY <3>2 DEF Extends, Follows, GivenInv
        <4>2. call.next \in Checkpoint /\ chain \in Seq(Manifest) /\ n \in Nat
          BY <4>1, CallsMatch
        <4> DEFINE m == manifest[call.next]
        <4>3. /\ m \in Manifest /\ m.id = call.next /\ m.data \in puts[call.next]
          BY <3>2, <4>2 DEF Extends, HasManifest, GivenInv, GivenFile, CheckpointTypeOK
        <4>4. /\ new \in StoreCall /\ new.op = call.op /\ new.id = call.id /\ new.base = call.base
              /\ new.chain = Append(chain, m) /\ new.got = None /\ call.got = None
          BY <3>2 DEF Extends, After, Updated
        <4>5. StartOf(new) = StartOf(call)
          BY <4>4 DEF StartOf
        <4> HIDE DEF m
        <4>6. /\ Len(new.chain) = n + 1 /\ new.chain[n + 1] = m
              /\ \A i \in 1..n : new.chain[i] = chain[i]
          BY <4>2, <4>3, <4>4
        <4>7. \A i \in 1..(n + 1) : new.chain[i].data \in puts[new.chain[i].id]
          <5> TAKE i \in 1..(n + 1)
          <5>1. CASE i = n + 1
            BY <4>3, <4>6, <5>1
          <5>2. CASE i # n + 1
            <6>1. i \in 1..n
              BY <4>2, <5>2
            <6> QED BY <4>1, <4>6, <6>1 DEF GivenChain
          <5> QED BY <5>1, <5>2
        <4>8. new.chain[1].id = StartOf(new)
          <5>1. CASE n = 0
            BY <4>1, <4>3, <4>4, <4>5, <4>6, <5>1 DEF GivenChain
          <5>2. CASE n # 0
            <6>1. n > 0 /\ 1 \in 1..n
              BY <4>2, <5>2
            <6> QED BY <4>1, <4>5, <4>6, <6>1 DEF GivenChain
          <5> QED BY <5>1, <5>2
        <4>9. n + 1 > 0
          BY <4>2
        <4>10. GivenChain(new, puts)
          BY <4>6, <4>7, <4>8, <4>9 DEF GivenChain
        <4> QED BY <2>1, <2>3, <4>4, <4>10
      <3>3. CASE Shortens(p)
        <4>1. InCall(p) /\ Follows(p) /\ GivenChain(call, puts) /\ chain # << >>
          BY <3>3 DEF Shortens, Follows, GivenInv
        <4>2. chain \in Seq(Manifest)
          BY <4>1, CallsMatch
        <4>3. /\ n \in Nat /\ n > 0 /\ Last(chain) = chain[n] /\ Last(chain) \in Manifest
              /\ Len(Front(chain)) = n - 1
              /\ \A i \in 1..(n - 1) : Front(chain)[i] = chain[i]
          BY <4>1, <4>2, SequenceEnds
        <4>4. /\ new \in StoreCall /\ new.op = call.op /\ new.id = call.id /\ new.base = call.base
              /\ new.chain = Front(chain) /\ new.got = chain[n].data
          BY <3>3, <4>3 DEF Shortens, After, Updated
        <4>5. new.got # None
          BY <4>3, <4>4, ManifestsMatch, CheckpointAssumption
        <4>6. StartOf(new) = StartOf(call)
          BY <4>4 DEF StartOf
        <4>7. \A i \in 1..(n - 1) : i \in 1..n /\ new.chain[i] = chain[i]
          BY <4>3, <4>4
        <4>8. n - 1 > 0 => 1 \in 1..(n - 1)
          BY <4>3
        <4>9. n - 1 = 0 => n = 1 /\ 1 \in 1..n
          BY <4>3
        <4>10. GivenChain(new, puts)
          <5>1. \A i \in 1..(n - 1) : new.chain[i].data \in puts[new.chain[i].id]
            BY <4>1, <4>7 DEF GivenChain
          <5>2. n - 1 > 0 => new.chain[1].id = StartOf(new)
            BY <4>1, <4>3, <4>6, <4>7, <4>8 DEF GivenChain
          <5>3. n - 1 = 0 => new.got \in puts[StartOf(new)]
            BY <4>1, <4>3, <4>4, <4>6, <4>9 DEF GivenChain
          <5>4. Len(new.chain) = n - 1
            BY <4>3, <4>4
          <5> QED BY <4>5, <5>1, <5>2, <5>3, <5>4 DEF GivenChain
        <4> QED BY <2>1, <2>3, <4>4, <4>10
      <3>4. CASE Compares(p) \/ WritesBase(p) \/ WritesBlock(p)
        BY <1>4, <2>3, <3>4 DEF Compares, WritesBase, WritesBlock, After, Updated, Follows
      <3>5. ASSUME NEW op, NEW c, NEW b, NEW d, Begins(p, op, c, b, d) PROVE GivenChain(new, puts')
        <4>1. new.chain = << >> /\ new.got = None /\ new.next = StartOf(new)
          BY <3>5 DEF Begins
        <4>2. Len(new.chain) = 0 /\ 1..0 = {}
          BY <4>1
        <4> QED BY <4>1, <4>2 DEF GivenChain
      <3> QED BY <2>3, <3>1, <3>2, <3>3, <3>4, <3>5 DEF StepOf
    <2> QED BY <2>2, <2>3
  <1> QED BY <1>2, <1>3, <1>4 DEF GivenInv

(* As long as no identifier is used twice, one that is being put has no    *)
(* manifest, and one thread puts it.                                       *)
OwnInv ==
  \A q \in Client : Putting(q) =>
    /\ ~HasManifest(client[q].id)
    /\ \A r \in Client : Putting(r) /\ client[r].id = client[q].id => r = q

HasBlocks(blocks, id, changed, data) ==
  \A i \in changed : <<id, i>> \in DOMAIN blocks /\ blocks[<<id, i>>] = BlockOf(data, i)

(* ... what a manifest names is there, ...                                 *)
Standing(c, m, manifests, bases, blocks) ==
  /\ m.kind = "base" => bases[c] = m.data
  /\ m.kind = "delta" =>
       /\ manifests[m.base] # None
       /\ m.changed = Changed(manifests[m.base].data, m.data)
       /\ m.count = Len(Blocks(m.data))
       /\ HasBlocks(blocks, c, m.changed, m.data)

FilesInv ==
  \A c \in Checkpoint : HasManifest(c) => Standing(c, manifest[c], manifest, baseFile, blockFile)

(* ... a thread that writes knows its base and has what it wrote, ...      *)
Written(call, manifests, bases, blocks) ==
  /\ call.op = "publish base" => bases[call.id] = call.data
  /\ call.op = "blocks" =>
       LET changed == Changed(call.got, call.data)
       IN  /\ manifests[call.base] # None /\ call.got = manifests[call.base].data
           /\ call.todo \subseteq changed
           /\ HasBlocks(blocks, call.id, changed \ call.todo, call.data)

WriteInv == \A q \in Client : Putting(q) => Written(client[q], manifest, baseFile, blockFile)

(* ... and a thread that reads has manifests that still stand, each but    *)
(* the last of a delta to the next.                                        *)
Links(chain, manifests) ==
  /\ \A i \in 1..Len(chain) : manifests[chain[i].id] # None /\ manifests[chain[i].id] = chain[i]
  /\ \A i \in 1..(Len(chain) - 1) : chain[i].kind = "delta" /\ chain[i + 1].id = chain[i].base

NearestRead(call) == IF Len(call.chain) = 0 THEN StartOf(call) ELSE call.chain[Len(call.chain)].base

Current(call, manifests) ==
  LET n == Len(call.chain)
  IN  /\ Links(call.chain, manifests)
      /\ call.got = None /\ n > 0 => call.next = call.chain[n].base
      /\ call.got # None => /\ n > 0 => call.chain[n].kind = "delta"
                            /\ manifests[NearestRead(call)] # None
                            /\ call.got = manifests[NearestRead(call)].data

FollowInv == \A q \in Client : Follows(q) => Current(client[q], manifest)

(* ... and one that began where its way to a base was there goes that way. *)
OnWay(call, way, n) ==
  call.got = None => /\ Len(call.chain) <= n
                     /\ \A i \in 1..Len(call.chain) : call.chain[i].id = way[i]

Guided(call) ==
  /\ call.op = "read"
  /\ \E n \in 1..call.room : \E way \in [1..n -> Checkpoint] :
       LeadsToBase(call.id, way, n) /\ OnWay(call, way, n)

WayInv == \A q \in Client : Follows(q) /\ client[q].visible => Guided(client[q])

ReadsInv ==
  /\ CheckpointTypeOK /\ GivenInv
  /\ ~reused => OwnInv /\ FilesInv /\ WriteInv /\ FollowInv /\ WayInv

(* The only file a step changes is of the checkpoint its client puts.      *)
LEMMA OthersKept ==
  ASSUME CheckpointTypeOK, NEW p \in Client, StepOf(p),
         NEW c \in Checkpoint, ~(Putting(p) /\ client[p].id = c)
  PROVE  /\ manifest'[c] = manifest[c] /\ baseFile'[c] = baseFile[c]
         /\ \A i \in Nat : <<c, i>> \in DOMAIN blockFile =>
              <<c, i>> \in DOMAIN blockFile' /\ blockFile'[<<c, i>>] = blockFile[<<c, i>>]
  <1>1. CASE WritesBase(p)
    BY <1>1 DEF WritesBase, Putting, CheckpointTypeOK
  <1>2. CASE Publishes(p)
    BY <1>2 DEF Publishes, Putting, CheckpointTypeOK
  <1>3. CASE WritesBlock(p)
    <2>1. client[p].id # c
      BY <1>3 DEF WritesBlock, Putting
    <2>2. UNCHANGED <<manifest, baseFile>>
      BY <1>3 DEF WritesBlock
    <2>3. PICK i \in client[p].todo :
            blockFile' = [r \in DOMAIN blockFile \cup {<<client[p].id, i>>} |->
                            IF r = <<client[p].id, i>> THEN BlockOf(client[p].data, i) ELSE blockFile[r]]
      BY <1>3 DEF WritesBlock
    <2>4. \A j \in Nat : <<c, j>> # <<client[p].id, i>>
      BY <2>1
    <2> QED BY <2>2, <2>3, <2>4
  <1>4. CASE UNCHANGED <<manifest, baseFile, blockFile>>
    BY <1>4
  <1> QED BY <1>1, <1>2, <1>3, <1>4 DEF StepOf, Ends, Extends, Shortens, Compares, Begins

LEMMA FilesKept ==
  ASSUME CheckpointTypeOK, OwnInv, NEW p \in Client, StepOf(p), NEW c \in Checkpoint, HasManifest(c)
  PROVE  /\ manifest'[c] = manifest[c] /\ baseFile'[c] = baseFile[c]
         /\ \A i \in Nat : <<c, i>> \in DOMAIN blockFile =>
              <<c, i>> \in DOMAIN blockFile' /\ blockFile'[<<c, i>>] = blockFile[<<c, i>>]
  <1>1. ~(Putting(p) /\ client[p].id = c)
    BY DEF OwnInv
  <1> QED BY <1>1, OthersKept

LEMMA BlocksKept ==
  ASSUME NEW blocks, NEW more, NEW c, NEW changed \in SUBSET Nat, NEW data,
         HasBlocks(blocks, c, changed, data),
         \A i \in Nat : <<c, i>> \in DOMAIN blocks =>
           <<c, i>> \in DOMAIN more /\ more[<<c, i>>] = blocks[<<c, i>>]
  PROVE  HasBlocks(more, c, changed, data)
  BY DEF HasBlocks

(* A thread that puts under an identifier used once: nobody else does.     *)
LEMMA BeginsAlone ==
  ASSUME CheckpointTypeOK, GivenInv, NEW p \in Client, NEW op \in {"base", "delta"},
         NEW c \in Checkpoint, NEW b, NEW d, Begins(p, op, c, b, d), Counts(c, d), ~reused'
  PROVE  ~HasManifest(c) /\ \A q \in Client : Putting(q) => client[q].id # c
  <1>1. puts[c] = {}
    BY DEF Counts
  <1> QED BY <1>1 DEF GivenInv, GivenFile, GivenPut, HasManifest

LEMMA OwnPreserved ==
  ASSUME CheckpointTypeOK, GivenInv, OwnInv, NEW p \in Client, StepOf(p), ~reused'
  PROVE  OwnInv'
  <1>1. \A q \in Client : q # p => client'[q] = client[q]
    BY OthersStand
  <1>2. CASE ~Putting(p)'
    <2>1. \A q \in Client : Putting(q)' => q # p /\ Putting(q) /\ client'[q] = client[q]
      BY <1>1, <1>2 DEF Putting, InCall
    <2>2. ASSUME NEW q \in Client, Putting(q)' PROVE ~HasManifest(client[q].id)'
      <3>1. Putting(q) /\ q # p /\ client[q].id \in Checkpoint
        BY <2>1, <2>2, CallsMatch DEF Putting
      <3>2. ~(Putting(p) /\ client[p].id = client[q].id)
        BY <3>1 DEF OwnInv
      <3>3. manifest'[client[q].id] = manifest[client[q].id]
        BY <3>1, <3>2, OthersKept
      <3>4. ~HasManifest(client[q].id)
        BY <3>1 DEF OwnInv
      <3> QED BY <2>1, <2>2, <3>3, <3>4 DEF HasManifest
    <2> QED BY <2>1, <2>2 DEF OwnInv, HasManifest
  <1>3. CASE Putting(p)'
    <2>1. UNCHANGED manifest
      BY <1>3 DEF StepOf, Ends, Extends, Shortens, Compares, WritesBase, WritesBlock, Publishes, Begins,
                  Putting, InCall, CheckpointTypeOK
    <2>2. CASE Putting(p) /\ client'[p].id = client[p].id
      <3>1. \A q \in Client : Putting(q)' => Putting(q) /\ client'[q].id = client[q].id
        BY <1>1, <2>2 DEF Putting, InCall
      <3> QED BY <2>1, <3>1 DEF OwnInv, HasManifest
    <2>3. ASSUME NEW op \in {"base", "delta"}, NEW c \in Checkpoint, NEW b \in Checkpoint,
                 NEW d \in Content, Begins(p, op, c, b, d), Counts(c, d)
          PROVE  OwnInv'
      <3>1. ~HasManifest(c) /\ \A q \in Client : Putting(q) => client[q].id # c
        BY <2>3, BeginsAlone
      <3>2. client'[p].id = c
        BY <2>3 DEF Begins
      <3>3. \A q \in Client : Putting(q)' /\ q # p => Putting(q) /\ client'[q].id = client[q].id
        BY <1>1 DEF Putting, InCall
      <3> QED BY <2>1, <3>1, <3>2, <3>3 DEF OwnInv, HasManifest
    <2>4. CASE Extends(p) \/ Shortens(p) \/ Compares(p) \/ WritesBase(p) \/ WritesBlock(p)
      BY <1>3, <2>2, <2>4 DEF Extends, Shortens, Compares, WritesBase, WritesBlock, After, Updated, Putting
    <2>5. ASSUME NEW c \in Checkpoint, Begins(p, "read", c, c, << >>) PROVE FALSE
      BY <1>3, <2>5 DEF Begins, Putting
    <2>6. ~(Ends(p) \/ Publishes(p))
      BY <1>3 DEF Ends, Publishes, Putting, InCall, CheckpointTypeOK
    <2> QED BY <2>3, <2>4, <2>5, <2>6 DEF StepOf
  <1> QED BY <1>2, <1>3

LEMMA FilesPreserved ==
  ASSUME CheckpointTypeOK, GivenInv, OwnInv, FilesInv, WriteInv, NEW p \in Client, StepOf(p)
  PROVE  FilesInv'
  <1> SUFFICES ASSUME NEW c \in Checkpoint, HasManifest(c)'
               PROVE  Standing(c, manifest'[c], manifest', baseFile', blockFile')
    BY DEF FilesInv
  <1>1. CASE HasManifest(c)
    <2> DEFINE m == manifest[c]
    <2>1. Standing(c, m, manifest, baseFile, blockFile)
      BY <1>1 DEF FilesInv
    <2>2. m \in Manifest
      BY <1>1 DEF CheckpointTypeOK, HasManifest
    <2>3. manifest'[c] = m /\ baseFile'[c] = baseFile[c]
      BY <1>1, FilesKept
    <2>4. CASE m.kind = "delta"
      <3>1. m.base \in Checkpoint /\ m.changed \in SUBSET Nat
        BY <2>2, <2>4 DEF Manifest
      <3>2. HasManifest(m.base)
        BY <2>1, <2>4 DEF Standing, HasManifest
      <3>3. manifest'[m.base] = manifest[m.base]
        BY <3>1, <3>2, FilesKept
      <3>4. HasBlocks(blockFile, c, m.changed, m.data)
        BY <2>1, <2>4 DEF Standing
      <3>5. \A i \in Nat : <<c, i>> \in DOMAIN blockFile =>
              <<c, i>> \in DOMAIN blockFile' /\ blockFile'[<<c, i>>] = blockFile[<<c, i>>]
        BY <1>1, FilesKept
      <3>6. HasBlocks(blockFile', c, m.changed, m.data)
        BY <3>1, <3>4, <3>5, BlocksKept
      <3> QED BY <2>1, <2>3, <2>4, <3>2, <3>3, <3>6 DEF Standing, HasManifest
    <2>5. CASE m.kind # "delta"
      BY <2>1, <2>3, <2>5 DEF Standing
    <2> QED BY <2>4, <2>5
  <1>2. CASE ~HasManifest(c)
    <2> DEFINE call == client[p]
    <2>1. Publishes(p) /\ call.id = c /\ manifest' = [manifest EXCEPT ![c] = NewManifest(call)]
          /\ UNCHANGED <<baseFile, blockFile>>
      BY <1>2 DEF StepOf, Ends, Extends, Shortens, Compares, WritesBase, WritesBlock, Publishes, Begins,
                  HasManifest, CheckpointTypeOK
    <2>2. manifest'[c] = NewManifest(call)
      BY <2>1 DEF CheckpointTypeOK
    <2>3. Putting(p) /\ Written(call, manifest, baseFile, blockFile)
      BY <2>1 DEF Publishes, Putting, WriteInv
    <2>4. CASE call.op = "publish base"
      <3>1. manifest'[c].kind = "base" /\ manifest'[c].data = call.data
        <4>1. NewManifest(call) = [kind |-> "base", id |-> call.id, base |-> call.id,
                                   data |-> call.data]
          BY <2>4 DEF NewManifest
        <4> QED BY <2>2, <4>1
      <3> QED BY <2>1, <2>3, <2>4, <3>1 DEF Standing, Written
    <2>5. CASE call.op = "blocks" /\ call.todo = {}
      <3> DEFINE changed == Changed(call.got, call.data)
                 count == Len(Blocks(call.data))
      <3>1. /\ manifest'[c].kind = "delta" /\ manifest'[c].base = call.base
            /\ manifest'[c].data = call.data /\ manifest'[c].changed = changed
            /\ manifest'[c].count = count
        BY <2>2, <2>5 DEF NewManifest
      <3>2. /\ HasManifest(call.base) /\ call.got = manifest[call.base].data
            /\ HasBlocks(blockFile, c, changed \ {}, call.data)
        BY <2>1, <2>3, <2>5 DEF Written, HasManifest
      <3>3. call.base # c
        BY <1>2, <3>2
      <3>4. manifest'[call.base] = manifest[call.base]
        <4>1. call.base \in Checkpoint
          BY <2>3, CallsMatch DEF Putting
        <4> QED BY <2>1, <3>3, <4>1 DEF CheckpointTypeOK
      <3>5. changed \ {} = changed
        OBVIOUS
      <3> HIDE DEF changed, count
      <3>6. HasBlocks(blockFile', c, changed, call.data)
        BY <2>1, <3>2, <3>5
      <3> QED BY <3>1, <3>2, <3>4, <3>6 DEF Standing, HasManifest, changed, count
    <2> QED BY <2>1, <2>4, <2>5 DEF Publishes
  <1> QED BY <1>1, <1>2

LEMMA WritePreserved ==
  ASSUME CheckpointTypeOK, OwnInv, FilesInv, WriteInv, FollowInv, NEW p \in Client, StepOf(p)
  PROVE  WriteInv'
  <1> SUFFICES ASSUME NEW q \in Client, Putting(q)'
               PROVE  Written(client'[q], manifest', baseFile', blockFile')
    BY DEF WriteInv
  <1>1. CASE q # p
    <2> DEFINE call == client[q]
               changed == Changed(call.got, call.data)
    <2>1. client'[q] = call /\ Putting(q) /\ call.id \in Checkpoint /\ call.base \in Checkpoint
          /\ call \in StoreCall
      BY <1>1, OthersStand, CallsMatch DEF Putting, InCall
    <2>2. Written(call, manifest, baseFile, blockFile)
      BY <2>1 DEF WriteInv
    <2>3. ~(Putting(p) /\ client[p].id = call.id)
      BY <1>1, <2>1 DEF OwnInv
    <2>4. /\ baseFile'[call.id] = baseFile[call.id]
          /\ \A i \in Nat : <<call.id, i>> \in DOMAIN blockFile =>
              <<call.id, i>> \in DOMAIN blockFile' /\ blockFile'[<<call.id, i>>] = blockFile[<<call.id, i>>]
      BY <2>1, <2>3, OthersKept
    <2>5. CASE call.op = "blocks"
      <3>1. HasManifest(call.base) /\ HasBlocks(blockFile, call.id, changed \ call.todo, call.data)
        BY <2>2, <2>5 DEF Written, HasManifest
      <3>2. manifest'[call.base] = manifest[call.base]
        BY <2>1, <3>1, FilesKept
      <3>3. call.data \in Seq(Int)
        <4>1. call.data \in Content \cup {<< >>} /\ << >> \in Seq(Int)
          BY <2>1 DEF StoreCall
        <4> QED BY <4>1, CheckpointAssumption
      <3>4. changed \ call.todo \in SUBSET Nat
        BY <3>3, BlockEnds DEF Changed
      <3>5. HasBlocks(blockFile', call.id, changed \ call.todo, call.data)
        <4> DEFINE done == changed \ call.todo
        <4> HIDE DEF done
        <4>1. done \in SUBSET Nat /\ HasBlocks(blockFile, call.id, done, call.data)
          BY <3>1, <3>4 DEF done
        <4>2. HasBlocks(blockFile', call.id, done, call.data)
          BY <2>4, <4>1, BlocksKept
        <4> QED BY <4>2 DEF done
      <3> QED BY <2>1, <2>2, <2>5, <3>2, <3>5 DEF Written
    <2>6. CASE call.op # "blocks"
      BY <2>1, <2>2, <2>4, <2>6 DEF Written
    <2> QED BY <2>5, <2>6
  <1>2. CASE q = p
    <2> DEFINE call == client[p]
               new == client'[p]
    <2>1. CASE Compares(p)
      <3> DEFINE changed == Changed(call.got, call.data)
      <3>1. /\ Follows(p) /\ call.op = "delta" /\ call.got # None /\ call.chain = << >>
            /\ UNCHANGED <<baseFile, blockFile, manifest>>
        BY <2>1 DEF Compares, Follows
      <3>2. /\ new.op = "blocks" /\ new.got = call.got /\ new.todo = changed
            /\ new.base = call.base /\ new.data = call.data /\ new.id = call.id
        BY <2>1 DEF Compares, After, Updated
      <3>3. Current(call, manifest) /\ NearestRead(call) = call.base
        BY <3>1 DEF FollowInv, NearestRead, StartOf
      <3>4. manifest[call.base] # None /\ call.got = manifest[call.base].data
        BY <3>1, <3>3 DEF Current
      <3> HIDE DEF changed
      <3>5. HasBlocks(blockFile, call.id, changed \ changed, call.data)
        BY DEF HasBlocks
      <3> QED BY <1>2, <3>1, <3>2, <3>4, <3>5 DEF Written, changed
    <2>2. CASE WritesBase(p)
      <3>1. /\ new.op = "publish base" /\ new.id = call.id /\ new.data = call.data
            /\ baseFile' = [baseFile EXCEPT ![call.id] = call.data] /\ call.id \in Checkpoint
        BY <2>2, CallsMatch DEF WritesBase, After, Updated
      <3> QED BY <1>2, <3>1 DEF Written, CheckpointTypeOK
    <2>3. CASE WritesBlock(p)
      <3> DEFINE changed == Changed(call.got, call.data)
      <3>1. Written(call, manifest, baseFile, blockFile) /\ call.op = "blocks" /\ UNCHANGED manifest
        BY <2>3 DEF WritesBlock, WriteInv, Putting
      <3>2. PICK i \in call.todo :
              /\ new.op = "blocks" /\ new.got = call.got /\ new.todo = call.todo \ {i}
              /\ new.base = call.base /\ new.data = call.data /\ new.id = call.id
              /\ blockFile' = [r \in DOMAIN blockFile \cup {<<call.id, i>>} |->
                                 IF r = <<call.id, i>> THEN BlockOf(call.data, i) ELSE blockFile[r]]
        BY <2>3 DEF WritesBlock, After, Updated
      <3>3. /\ manifest[call.base] # None /\ call.got = manifest[call.base].data
            /\ call.todo \subseteq changed
            /\ HasBlocks(blockFile, call.id, changed \ call.todo, call.data)
        BY <3>1 DEF Written
      <3> HIDE DEF changed
      <3>4. HasBlocks(blockFile', call.id, changed \ (call.todo \ {i}), call.data)
        <4> SUFFICES ASSUME NEW j \in changed \ (call.todo \ {i})
                     PROVE  /\ <<call.id, j>> \in DOMAIN blockFile'
                            /\ blockFile'[<<call.id, j>>] = BlockOf(call.data, j)
          BY DEF HasBlocks
        <4>1. CASE j = i
          BY <3>2, <4>1
        <4>2. CASE j # i
          <5>1. j \in changed \ call.todo /\ <<call.id, j>> # <<call.id, i>>
            BY <4>2
          <5>2. /\ <<call.id, j>> \in DOMAIN blockFile
                /\ blockFile[<<call.id, j>>] = BlockOf(call.data, j)
            BY <3>3, <5>1 DEF HasBlocks
          <5> QED BY <3>2, <5>1, <5>2
        <4> QED BY <4>1, <4>2
      <3>5. call.todo \ {i} \subseteq changed
        BY <3>3
      <3> QED BY <1>2, <3>1, <3>2, <3>3, <3>4, <3>5 DEF Written, changed
    <2>4. CASE Extends(p) \/ Shortens(p)
      BY <1>2, <2>4 DEF Extends, Shortens, After, Updated, Written
    <2>5. ASSUME NEW op \in {"read", "base", "delta"}, NEW c, NEW b, NEW d, Begins(p, op, c, b, d)
          PROVE  Written(new, manifest', baseFile', blockFile')
      BY <2>5 DEF Begins, Written
    <2>6. ~(Ends(p) \/ Publishes(p))
      BY <1>2 DEF Ends, Publishes, Putting, InCall, CheckpointTypeOK
    <2> QED BY <1>2, <2>1, <2>2, <2>3, <2>4, <2>5, <2>6 DEF StepOf
  <1> QED BY <1>1, <1>2

(* A call goes on seeing what was published.                               *)
LEMMA CurrentKept ==
  ASSUME CheckpointTypeOK, OwnInv, NEW p \in Client, StepOf(p), NEW call \in StoreCall,
         Current(call, manifest)
  PROVE  Current(call, manifest')
  <1>1. \A c \in Checkpoint : manifest[c] # None => manifest'[c] = manifest[c]
    BY FilesKept DEF HasManifest
  <1>2. call.chain \in Seq(Manifest) /\ call.id \in Checkpoint /\ StartOf(call) \in Checkpoint
    BY DEF StoreCall, StartOf
  <1>3. \A i \in 1..Len(call.chain) : call.chain[i] \in Manifest
    BY <1>2
  <1>4. \A i \in 1..Len(call.chain) : call.chain[i].id \in Checkpoint /\ call.chain[i].base \in Checkpoint
    BY <1>3, ManifestsMatch
  <1>5. Links(call.chain, manifest')
    BY <1>1, <1>4 DEF Current, Links
  <1>6. NearestRead(call) \in Checkpoint
    <2>1. CASE Len(call.chain) = 0
      BY <1>2, <2>1 DEF NearestRead
    <2>2. CASE Len(call.chain) # 0
      <3>1. Len(call.chain) \in 1..Len(call.chain)
        BY <1>2, <2>2
      <3> QED BY <1>4, <2>2, <3>1 DEF NearestRead
    <2> QED BY <2>1, <2>2
  <1> QED BY <1>1, <1>2, <1>5, <1>6 DEF Current

LEMMA FollowPreserved ==
  ASSUME CheckpointTypeOK, GivenInv, OwnInv, FilesInv, FollowInv, NEW p \in Client, StepOf(p)
  PROVE  FollowInv'
  <1> SUFFICES ASSUME NEW q \in Client, Follows(q)' PROVE Current(client'[q], manifest')
    BY DEF FollowInv
  <1>1. CASE q # p
    <2>1. client'[q] = client[q] /\ Follows(q) /\ client[q] \in StoreCall
      BY <1>1, OthersStand, CallsMatch DEF Follows, InCall
    <2> QED BY <2>1, CurrentKept DEF FollowInv
  <1>2. CASE q = p
    <2> DEFINE call == client[p]
               new == client'[p]
               chain == call.chain
               n == Len(chain)
    <2>1. CASE Extends(p)
      <3> DEFINE m == manifest[call.next]
      <3>1. Follows(p) /\ Current(call, manifest) /\ UNCHANGED manifest
        BY <2>1 DEF Extends, Follows, FollowInv
      <3>2. chain \in Seq(Manifest) /\ n \in Nat /\ call.next \in Checkpoint
        BY <3>1, CallsMatch DEF Follows
      <3>3. m # None /\ m \in Manifest /\ m.id = call.next
        BY <2>1, <3>2 DEF Extends, HasManifest, GivenInv, GivenFile, CheckpointTypeOK
      <3>4. /\ new.op = call.op /\ new.id = call.id /\ new.visible = call.visible
            /\ new.chain = Append(chain, m) /\ new.next = m.base /\ new.got = None /\ call.got = None
        BY <2>1 DEF Extends, After, Updated
      <3>5. n > 0 => chain[n].kind = "delta" /\ call.next = chain[n].base
        <4>1. ASSUME n > 0 PROVE chain # << >> /\ Last(chain) = chain[n] /\ chain[n] \in Manifest
          <5>1. chain # << >>
            BY <4>1, EmptySeq
          <5> QED BY <3>2, <5>1, SequenceEnds
        <4>2. ~(chain # << >> /\ Last(chain).kind = "base")
          BY <2>1 DEF Extends
        <4> QED BY <3>1, <3>4, <4>1, <4>2, ManifestsMatch DEF Current
      <3> HIDE DEF m
      <3>6. /\ Len(new.chain) = n + 1 /\ new.chain[n + 1] = m
            /\ \A i \in 1..n : new.chain[i] = chain[i]
        BY <3>2, <3>3, <3>4
      <3>7. Links(new.chain, manifest)
        <4>1. \A i \in 1..(n + 1) : manifest[new.chain[i].id] # None /\ manifest[new.chain[i].id] = new.chain[i]
          <5> TAKE i \in 1..(n + 1)
          <5>1. CASE i = n + 1
            BY <3>3, <3>6, <5>1 DEF m
          <5>2. CASE i # n + 1
            <6>1. i \in 1..n
              BY <3>2, <5>2
            <6> QED BY <3>1, <3>6, <6>1 DEF Current, Links
          <5> QED BY <5>1, <5>2
        <4>2. \A i \in 1..n : new.chain[i].kind = "delta" /\ new.chain[i + 1].id = new.chain[i].base
          <5> TAKE i \in 1..n
          <5>1. CASE i = n
            <6>1. n > 0
              BY <3>2
            <6> QED BY <3>3, <3>5, <3>6, <5>1, <6>1
          <5>2. CASE i # n
            <6>1. i \in 1..(n - 1) /\ i + 1 \in 1..n
              BY <3>2, <5>2
            <6> QED BY <3>1, <3>6, <6>1 DEF Current, Links
          <5> QED BY <5>1, <5>2
        <4>3. Len(new.chain) = n + 1 /\ Len(new.chain) - 1 = n
          BY <3>2, <3>6
        <4> HIDE DEF new, n
        <4> QED BY <4>1, <4>2, <4>3 DEF Links
      <3>9. new.next = new.chain[Len(new.chain)].base
        BY <3>4, <3>6
      <3>10. Current(new, manifest)
        BY <3>4, <3>7, <3>9 DEF Current
      <3> QED BY <1>2, <3>1, <3>10
    <2>2. CASE Shortens(p)
      <3>1. Follows(p) /\ Current(call, manifest) /\ UNCHANGED manifest /\ chain # << >>
            /\ GivenChain(call, puts)
        BY <2>2 DEF Shortens, Follows, FollowInv, GivenInv
      <3>2. chain \in Seq(Manifest)
        BY <3>1, CallsMatch DEF Follows
      <3>3. /\ n \in Nat /\ n > 0 /\ Last(chain) = chain[n] /\ Last(chain) \in Manifest
            /\ Len(Front(chain)) = n - 1
            /\ \A i \in 1..(n - 1) : Front(chain)[i] = chain[i]
        BY <3>1, <3>2, SequenceEnds
      <3>4. /\ new.op = call.op /\ new.id = call.id /\ new.base = call.base
            /\ new.visible = call.visible
            /\ new.chain = Front(chain) /\ new.got = chain[n].data
        BY <2>2, <3>3 DEF Shortens, After, Updated
      <3>5. new.got # None
        BY <3>3, <3>4, ManifestsMatch, CheckpointAssumption
      <3>6. Len(new.chain) = n - 1 /\ \A i \in 1..(n - 1) : new.chain[i] = chain[i]
        BY <3>3, <3>4
      <3>7. /\ \A i \in 1..n : manifest[chain[i].id] # None /\ manifest[chain[i].id] = chain[i]
            /\ \A i \in 1..(n - 1) : chain[i].kind = "delta" /\ chain[i + 1].id = chain[i].base
        BY <3>1 DEF Current, Links
      <3>8. Links(new.chain, manifest)
        <4>1. \A i \in 1..(n - 1) : i \in 1..n
          BY <3>3
        <4>2. \A i \in 1..(n - 1 - 1) : i \in 1..(n - 1) /\ i + 1 \in 1..(n - 1)
          BY <3>3
        <4>3. \A i \in 1..(n - 1) :
                manifest[new.chain[i].id] # None /\ manifest[new.chain[i].id] = new.chain[i]
          BY <3>6, <3>7, <4>1
        <4>4. \A i \in 1..(n - 1 - 1) :
                new.chain[i].kind = "delta" /\ new.chain[i + 1].id = new.chain[i].base
          BY <3>6, <3>7, <4>2
        <4> QED BY <3>6, <4>3, <4>4 DEF Links
      <3>9. NearestRead(new) = chain[n].id /\ (n - 1 > 0 => new.chain[n - 1].kind = "delta")
        <4>1. CASE n = 1
          <5>1. Len(new.chain) = 0 /\ Len(chain) > 0
            BY <3>3, <3>6, <4>1
          <5>2. chain[1].id = StartOf(call) /\ StartOf(new) = StartOf(call)
            BY <3>1, <3>4, <5>1 DEF GivenChain, StartOf
          <5> QED BY <4>1, <5>1, <5>2 DEF NearestRead
        <4>2. CASE n # 1
          <5>1. n - 1 \in 1..(n - 1) /\ n - 1 + 1 = n /\ n - 1 # 0
            <6>1. \A k \in Nat : k > 0 /\ k # 1 => k - 1 \in 1..(k - 1) /\ k - 1 + 1 = k /\ k - 1 # 0
              OBVIOUS
            <6> QED BY <3>3, <4>2, <6>1
          <5>2. new.chain[n - 1] = chain[n - 1] /\ chain[n - 1].kind = "delta"
                /\ chain[n].id = chain[n - 1].base
            BY <3>6, <3>7, <5>1
          <5> QED BY <3>6, <5>1, <5>2 DEF NearestRead
        <4> QED BY <4>1, <4>2
      <3>10. manifest[chain[n].id] # None /\ manifest[chain[n].id] = chain[n]
        <4>1. n \in 1..n
          BY <3>3
        <4> QED BY <3>7, <4>1
      <3>12. Current(new, manifest)
        BY <3>4, <3>5, <3>6, <3>8, <3>9, <3>10 DEF Current
      <3> QED BY <1>2, <3>1, <3>12
    <2>3. CASE Compares(p) \/ WritesBase(p) \/ WritesBlock(p)
      BY <1>2, <2>3 DEF Compares, WritesBase, WritesBlock, After, Updated, Follows
    <2>4. ASSUME NEW op, NEW c \in Checkpoint, NEW b, NEW d, Begins(p, op, c, b, d)
          PROVE  Current(new, manifest')
      <3>1. /\ new.chain = << >> /\ new.got = None /\ new.op = op /\ new.id = c
            /\ UNCHANGED manifest
        BY <2>4 DEF Begins
      <3>2. Len(new.chain) = 0 /\ Links(new.chain, manifest)
        BY <3>1 DEF Links
      <3> QED BY <3>1, <3>2 DEF Current, HasManifest
    <2>5. ~(Ends(p) \/ Publishes(p))
      BY <1>2 DEF Ends, Publishes, Follows, InCall, CheckpointTypeOK
    <2> QED BY <1>2, <2>1, <2>2, <2>3, <2>4, <2>5 DEF StepOf
  <1> QED BY <1>1, <1>2

(* Where a read goes on: its way is not at its end, and has a manifest next. *)
LEMMA OnwardOnWay ==
  ASSUME CheckpointTypeOK, GivenInv, FollowInv, NEW p \in Client, Follows(p), client[p].op = "read",
         client[p].got = None, ~Followed(p), NEW n \in Nat \ {0}, NEW way \in [1..n -> Checkpoint],
         LeadsToBase(client[p].id, way, n), OnWay(client[p], way, n)
  PROVE  LET k == Len(client[p].chain)
         IN  k \in Nat /\ k < n /\ client[p].next = way[k + 1] /\ HasManifest(client[p].next)
  <1> DEFINE call == client[p]
             chain == call.chain
             k == Len(chain)
  <1>1. chain \in Seq(Manifest) /\ k \in Nat /\ InCall(p)
    BY CallsMatch DEF Follows
  <1>2. k <= n /\ \A i \in 1..k : chain[i].id = way[i]
    BY DEF OnWay
  <1>3. Current(call, manifest) /\ GivenChain(call, puts)
    BY DEF FollowInv, GivenInv
  <1>4. CASE k = 0
    <2>1. call.next = call.id
      BY <1>3, <1>4 DEF GivenChain, StartOf
    <2>2. 0 < n /\ 0 + 1 = 1 /\ 1 \in 1..n
      OBVIOUS
    <2> QED BY <1>4, <2>1, <2>2 DEF LeadsToBase, HasManifest
  <1>5. CASE k # 0
    <2>1. k > 0 /\ k \in 1..k /\ k \in 1..n
      BY <1>1, <1>2, <1>5
    <2>2. chain # << >>
      BY <2>1
    <2>3. Last(chain) = chain[k] /\ chain[k] \in Manifest
      BY <1>1, <2>2, SequenceEnds
    <2>4. chain[k].kind = "delta"
      BY <2>2, <2>3, ManifestsMatch DEF Followed
    <2>5. manifest[way[k]] = chain[k] /\ call.next = chain[k].base
      BY <1>2, <1>3, <2>1 DEF Current, Links
    <2>6. k # n
      BY <2>4, <2>5 DEF LeadsToBase
    <2>7. k < n /\ k \in 1..(n - 1) /\ k + 1 \in 1..n
      BY <1>2, <2>1, <2>6
    <2> QED BY <1>1, <2>5, <2>7 DEF LeadsToBase, HasManifest
  <1> QED BY <1>1, <1>4, <1>5

LEMMA NextOnWay ==
  ASSUME CheckpointTypeOK, GivenInv, FollowInv, NEW p \in Client, Follows(p), Guided(client[p]),
         client[p].got = None, ~Followed(p)
  PROVE  Len(client[p].chain) < client[p].room /\ HasManifest(client[p].next)
  <1>1. client[p].op = "read" /\ client[p].room \in Nat
    BY CallsMatch DEF Guided, Follows
  <1>2. PICK n \in 1..client[p].room : \E way \in [1..n -> Checkpoint] :
               LeadsToBase(client[p].id, way, n) /\ OnWay(client[p], way, n)
    BY DEF Guided
  <1>3. n \in Nat \ {0} /\ n <= client[p].room
    BY <1>1, <1>2
  <1>4. Len(client[p].chain) \in Nat /\ Len(client[p].chain) < n /\ HasManifest(client[p].next)
    BY <1>1, <1>2, <1>3, OnwardOnWay
  <1> QED BY <1>1, <1>3, <1>4

(* What a way goes through stays.                                          *)
LEMMA WaysKept ==
  ASSUME CheckpointTypeOK, OwnInv, NEW p \in Client, StepOf(p), NEW c \in Checkpoint,
         NEW n \in Nat \ {0}, NEW way \in [1..n -> Checkpoint], LeadsToBase(c, way, n)
  PROVE  LeadsToBase(c, way, n)'
  <1>1. \A i \in 1..n : way[i] \in Checkpoint /\ HasManifest(way[i])
    BY DEF LeadsToBase, HasManifest
  <1>2. \A i \in 1..n : manifest'[way[i]] = manifest[way[i]]
    BY <1>1, FilesKept
  <1>3. n \in 1..n /\ \A i \in 1..(n - 1) : i \in 1..n
    OBVIOUS
  <1> QED BY <1>2, <1>3 DEF LeadsToBase

LEMMA WayPreserved ==
  ASSUME CheckpointTypeOK, GivenInv, OwnInv, FollowInv, WayInv, NEW p \in Client, StepOf(p)
  PROVE  WayInv'
  <1> SUFFICES ASSUME NEW q \in Client, Follows(q)', client'[q].visible
               PROVE  Guided(client[q])'
    BY DEF WayInv
  <1> DEFINE call == client[q]
             new == client'[q]
  <1>1. ASSUME Follows(q), call.visible, new.op = call.op, new.id = call.id, new.room = call.room,
               NEW n \in 1..call.room, NEW way \in [1..n -> Checkpoint],
               LeadsToBase(call.id, way, n), OnWay(new, way, n)
        PROVE  Guided(client[q])'
    <2>1. call.id \in Checkpoint /\ call.room \in Nat /\ n \in Nat \ {0}
      BY <1>1, CallsMatch DEF Follows
    <2>2. LeadsToBase(call.id, way, n)'
      BY <1>1, <2>1, WaysKept
    <2>3. call.op = "read"
      BY <1>1 DEF WayInv, Guided
    <2> QED BY <1>1, <2>2, <2>3 DEF Guided, LeadsToBase, OnWay
  <1>2. ASSUME Follows(q), call.visible
        PROVE  /\ call.op = "read" /\ call.room \in Nat
               /\ \E n \in 1..call.room : \E way \in [1..n -> Checkpoint] :
                    LeadsToBase(call.id, way, n) /\ OnWay(call, way, n)
    BY <1>2, CallsMatch DEF WayInv, Guided, Follows
  <1>3. CASE q # p
    <2>1. new = call /\ Follows(q) /\ call.visible
      BY <1>3, OthersStand DEF Follows, InCall
    <2> QED BY <1>1, <1>2, <2>1
  <1>4. CASE q = p
    <2>1. CASE Extends(p)
      <3>1. /\ Follows(q) /\ call.visible /\ new.op = call.op /\ new.id = call.id
            /\ new.room = call.room /\ call.got = None /\ ~Followed(q)
            /\ new.chain = Append(call.chain, manifest[call.next])
        BY <1>4, <2>1 DEF Extends, After, Updated, Follows, Followed
      <3>2. PICK n \in 1..call.room : \E way \in [1..n -> Checkpoint] :
                   LeadsToBase(call.id, way, n) /\ OnWay(call, way, n)
        BY <1>2, <3>1
      <3>3. PICK way \in [1..n -> Checkpoint] :
                   LeadsToBase(call.id, way, n) /\ OnWay(call, way, n)
        BY <3>2
      <3> DEFINE k == Len(call.chain)
                 m == manifest[call.next]
      <3>4. n \in Nat \ {0} /\ call.op = "read"
        BY <1>2, <3>1
      <3>5. k \in Nat /\ k < n /\ call.next = way[k + 1] /\ HasManifest(call.next)
        BY <3>1, <3>3, <3>4, OnwardOnWay
      <3>6. call.next \in Checkpoint /\ call.chain \in Seq(Manifest)
        BY <3>1, CallsMatch DEF Follows
      <3>7. m \in Manifest /\ m.id = call.next
        BY <3>5, <3>6 DEF HasManifest, GivenInv, GivenFile, CheckpointTypeOK
      <3> HIDE DEF m
      <3>8. /\ Len(new.chain) = k + 1 /\ new.chain[k + 1] = m
            /\ \A i \in 1..k : new.chain[i] = call.chain[i]
        BY <3>1, <3>6, <3>7 DEF m
      <3>9. OnWay(new, way, n)
        <4>1. \A i \in 1..(k + 1) : new.chain[i].id = way[i]
          <5> TAKE i \in 1..(k + 1)
          <5>1. CASE i = k + 1
            BY <3>5, <3>7, <3>8, <5>1
          <5>2. CASE i # k + 1
            <6>1. i \in 1..k
              BY <3>5, <5>2
            <6> QED BY <3>1, <3>3, <3>8, <6>1 DEF OnWay
          <5> QED BY <5>1, <5>2
        <4>2. k + 1 <= n
          BY <3>4, <3>5
        <4> QED BY <3>8, <4>1, <4>2 DEF OnWay
      <3> QED BY <1>1, <3>1, <3>3, <3>9
    <2>2. CASE Shortens(p)
      <3>1. /\ Follows(q) /\ call.visible /\ new.op = call.op /\ new.id = call.id
            /\ new.room = call.room /\ call.chain # << >> /\ new.got = Last(call.chain).data
        BY <1>4, <2>2 DEF Shortens, After, Updated, Follows
      <3>2. new.got # None
        <4>1. call.chain \in Seq(Manifest)
          BY <3>1, CallsMatch DEF Follows
        <4>2. Last(call.chain).data \in Content
          BY <3>1, <4>1, SequenceEnds, ManifestsMatch
        <4> QED BY <3>1, <4>2, CheckpointAssumption
      <3> QED BY <1>1, <1>2, <3>1, <3>2 DEF OnWay
    <2>3. CASE Compares(p) \/ WritesBase(p) \/ WritesBlock(p)
      BY <1>4, <2>3 DEF Compares, WritesBase, WritesBlock, After, Updated, Follows
    <2>4. ASSUME NEW op, NEW c \in Checkpoint, NEW b, NEW d, Begins(p, op, c, b, d)
          PROVE  Guided(client[q])'
      <3>1. /\ new.chain = << >> /\ new.got = None /\ new.op = "read" /\ new.id = c
            /\ ReadsWithin(c, new.room) /\ UNCHANGED manifest
        BY <1>4, <2>4 DEF Begins
      <3>2. Len(new.chain) = 0 /\ new.room \in Nat
        BY <1>4, <2>4, <3>1 DEF Begins, StoreCall
      <3>3. PICK n \in 1..new.room : \E way \in [1..n -> Checkpoint] : LeadsToBase(c, way, n)
        BY <3>1 DEF ReadsWithin
      <3>4. PICK way \in [1..n -> Checkpoint] : LeadsToBase(c, way, n)
        BY <3>3
      <3>5. OnWay(new, way, n)
        BY <3>2, <3>3 DEF OnWay
      <3>6. LeadsToBase(c, way, n)'
        BY <3>1, <3>4 DEF LeadsToBase
      <3> QED BY <3>1, <3>5, <3>6 DEF Guided, LeadsToBase, OnWay
    <2>5. ~(Ends(p) \/ Publishes(p))
      BY <1>4 DEF Ends, Publishes, Follows, InCall, CheckpointTypeOK
    <2> QED BY <1>4, <2>1, <2>2, <2>3, <2>4, <2>5 DEF StepOf
  <1> QED BY <1>3, <1>4

LEMMA ReadsStart == CheckpointInit => ReadsInv
  <1> SUFFICES ASSUME CheckpointInit PROVE ReadsInv
    OBVIOUS
  <1>1. CheckpointTypeOK
    <2>1. 0 \in 0..MaxPuts
      BY CheckpointAssumption
    <2>2. \A c \in Checkpoint : {} \in SUBSET Content
      OBVIOUS
    <2>3. manifest \in [Checkpoint -> Manifest \cup {None}]
      BY DEF CheckpointInit
    <2>4. client \in [Client -> StoreCall \cup {None}]
      BY DEF CheckpointInit
    <2>5. puts \in [Checkpoint -> SUBSET Content]
      BY <2>2 DEF CheckpointInit
    <2> QED BY <2>1, <2>3, <2>4, <2>5 DEF CheckpointInit, CheckpointTypeOK
  <1>2. (\A c \in Checkpoint : ~HasManifest(c)) /\ (\A q \in Client : ~InCall(q))
    BY DEF CheckpointInit, HasManifest, InCall
  <1>3. GivenInv
    BY <1>2 DEF GivenInv, GivenFile, HasManifest, Putting, Follows
  <1>4. OwnInv /\ FilesInv /\ WriteInv /\ FollowInv /\ WayInv
    BY <1>2 DEF OwnInv, FilesInv, WriteInv, FollowInv, WayInv, Putting, Follows
  <1> QED BY <1>1, <1>3, <1>4 DEF ReadsInv

LEMMA ReadsPreserved ==
  ASSUME ReadsInv, [CheckpointNext]_checkpointVars
  PROVE  ReadsInv'
  <1>1. CASE UNCHANGED <<baseFile, blockFile, manifest, client, history>>
    <2>1. CheckpointTypeOK' /\ GivenInv'
      BY <1>1 DEF ReadsInv, CheckpointTypeOK, GivenInv, history, Putting, Follows, InCall
    <2>2. ASSUME ~reused' PROVE (OwnInv /\ FilesInv /\ WriteInv /\ FollowInv /\ WayInv)'
      BY <1>1, <2>2 DEF ReadsInv, OwnInv, FilesInv, WriteInv, FollowInv, WayInv, Guided, LeadsToBase,
                        history, Putting, Follows, InCall, HasManifest
    <2> QED BY <2>1, <2>2 DEF ReadsInv
  <1>2. ASSUME NEW p \in Client, StepOf(p) PROVE ReadsInv'
    <2>1. CheckpointTypeOK' /\ GivenInv'
      BY <1>2, TypesPreserved, GivenPreserved DEF ReadsInv
    <2>2. ASSUME ~reused' PROVE (OwnInv /\ FilesInv /\ WriteInv /\ FollowInv /\ WayInv)'
      <3>1. ~reused
        BY <1>2, <2>2 DEF StepOf, Ends, Extends, Shortens, Compares, WritesBase, WritesBlock, Publishes,
                          Counts, history, ReadsInv, CheckpointTypeOK
      <3>2. OwnInv'
        BY <1>2, <2>2, <3>1, OwnPreserved DEF ReadsInv
      <3>3. FilesInv'
        BY <1>2, <3>1, FilesPreserved DEF ReadsInv
      <3>4. WriteInv'
        BY <1>2, <3>1, WritePreserved DEF ReadsInv
      <3>5. FollowInv'
        BY <1>2, <3>1, FollowPreserved DEF ReadsInv
      <3>6. WayInv'
        BY <1>2, <3>1, WayPreserved DEF ReadsInv
      <3> QED BY <3>2, <3>3, <3>4, <3>5, <3>6
    <2> QED BY <2>1, <2>2 DEF ReadsInv
  <1>3. CheckpointTypeOK
    BY DEF ReadsInv
  <1> QED BY <1>1, <1>2, <1>3, ReadStepCases DEF ReadStep

ResultInv == CheckpointsReadBack /\ (result # None => result.id \in Checkpoint)

LEMMA ResultCleared ==
  ASSUME result' = None
  PROVE  ResultInv'
  BY DEF ResultInv, CheckpointsReadBack

LEMMA ReadEnds ==
  ASSUME ReadsInv, NEW p \in Client, InCall(p), NEW outcome, End(p, outcome), UNCHANGED history,
         outcome # None => outcome \in puts[client[p].id],
         client[p].visible /\ ~reused => outcome # None
  PROVE  ResultInv'
  <1> DEFINE sure == client[p].visible /\ ~reused
             id == client[p].id
  <1>1. result' = [id |-> id, value |-> outcome, sure |-> client[p].visible /\ ~reused]
    BY DEF End
  <1>2. reused' = reused /\ puts' = puts
    BY DEF history
  <1>3. id \in Checkpoint
    BY CallsMatch DEF ReadsInv
  <1>4. result'.id = id /\ result'.value = outcome /\ (result'.sure <=> client[p].visible /\ ~reused)
    BY <1>1, <1>2
  <1> QED BY <1>2, <1>3, <1>4 DEF ResultInv, CheckpointsReadBack

(* What a call that reads knows of the manifest it is at.                  *)
LEMMA LastStands ==
  ASSUME ReadsInv, ~reused, NEW p \in Client, Follows(p), client[p].chain # << >>
  PROVE  LET m == Last(client[p].chain)
         IN  /\ m = client[p].chain[Len(client[p].chain)] /\ Len(client[p].chain) > 0
             /\ m \in Manifest /\ manifest[m.id] = m /\ HasManifest(m.id)
             /\ Standing(m.id, m, manifest, baseFile, blockFile)
             /\ m.kind = "base" => m.base = m.id
  <1> DEFINE chain == client[p].chain
             n == Len(chain)
             m == Last(chain)
  <1>1. chain \in Seq(Manifest)
    BY CallsMatch DEF ReadsInv, Follows
  <1>2. n > 0 /\ m = chain[n] /\ m \in Manifest /\ n \in 1..n
    BY <1>1, SequenceEnds
  <1>3. Links(chain, manifest)
    BY DEF ReadsInv, FollowInv, Current
  <1>4. manifest[m.id] = m /\ HasManifest(m.id)
    BY <1>2, <1>3 DEF Links, HasManifest
  <1>5. m.id \in Checkpoint
    BY <1>2, ManifestsMatch
  <1>6. Standing(m.id, m, manifest, baseFile, blockFile)
    BY <1>4, <1>5 DEF ReadsInv, FilesInv
  <1>7. m.kind = "base" => m.base = m.id
    BY <1>4, <1>5 DEF ReadsInv, GivenInv, GivenFile, HasManifest
  <1> QED BY <1>2, <1>4, <1>6, <1>7

LEMMA ReadManifestEnds ==
  ASSUME ReadsInv, ResultInv, NEW p \in Client, ReadManifest(p)
  PROVE  ResultInv'
  <1> DEFINE call == client[p]
             chain == call.chain
             n == Len(chain)
  <1>1. InCall(p) /\ Follows(p) /\ Reading(p) /\ ~Followed(p) /\ call.got = None /\ UNCHANGED history
    BY DEF ReadManifest, Reading, Follows, InCall
  <1>2. CASE manifest[call.next] = None \/ n = call.room
    <2>1. End(p, None)
      BY <1>2 DEF ReadManifest
    <2>2. ASSUME call.visible, ~reused PROVE FALSE
      <3>1. Current(call, manifest) /\ GivenChain(call, puts) /\ Guided(call)
        BY <1>1, <2>2 DEF ReadsInv, FollowInv, GivenInv, WayInv
      <3>2. n < call.room /\ HasManifest(call.next)
        BY <1>1, <2>2, <3>1, NextOnWay DEF ReadsInv
      <3>3. n \in Nat /\ call.room \in Nat
        BY <1>1, CallsMatch DEF ReadsInv
      <3> QED BY <1>2, <3>2, <3>3 DEF HasManifest
    <2> QED BY <1>1, <2>1, <2>2, ReadEnds
  <1>3. CASE ~(manifest[call.next] = None \/ n = call.room)
    <2>1. result' = None
      BY <1>3 DEF ReadManifest
    <2> QED BY <2>1, ResultCleared
  <1> QED BY <1>2, <1>3

LEMMA ReadBaseEnds ==
  ASSUME ReadsInv, ResultInv, NEW p \in Client, ReadBase(p)
  PROVE  ResultInv'
  <1> DEFINE call == client[p]
             m == Last(call.chain)
  <1>1. /\ InCall(p) /\ Follows(p) /\ call.chain # << >> /\ m.kind = "base" /\ UNCHANGED history
    BY DEF ReadBase, Reading, Followed, Follows, InCall
  <1>2. CASE baseFile[m.base] # m.data
    <2>1. End(p, None)
      BY <1>2 DEF ReadBase
    <2>2. ASSUME ~reused PROVE FALSE
      <3>1. Standing(m.id, m, manifest, baseFile, blockFile) /\ m.base = m.id
        BY <1>1, <2>2, LastStands
      <3> QED BY <1>1, <1>2, <3>1 DEF Standing
    <2> QED BY <1>1, <2>1, <2>2, ReadEnds
  <1>3. CASE ~(baseFile[m.base] # m.data)
    <2>1. result' = None
      BY <1>3 DEF ReadBase
    <2> QED BY <2>1, ResultCleared
  <1> QED BY <1>2, <1>3

LEMMA ApplyDeltaEnds ==
  ASSUME ReadsInv, ResultInv, NEW p \in Client, ApplyDelta(p)
  PROVE  ResultInv'
  <1> DEFINE call == client[p]
             m == Last(call.chain)
             data == Rebuilt(m, call.got)
  <1>1. /\ InCall(p) /\ Follows(p) /\ call.chain # << >> /\ call.got # None /\ UNCHANGED history
    BY DEF ApplyDelta, Applying, Follows, InCall
  <1>2. CASE data = None
    <2>1. End(p, None)
      BY <1>2 DEF ApplyDelta
    <2>2. ASSUME ~reused PROVE FALSE
      <3>1. /\ m = call.chain[Len(call.chain)] /\ Len(call.chain) > 0 /\ m \in Manifest
            /\ Standing(m.id, m, manifest, baseFile, blockFile)
        BY <1>1, <2>2, LastStands
      <3>2. Current(call, manifest)
        BY <1>1, <2>2 DEF ReadsInv, FollowInv
      <3>3. NearestRead(call) = m.base
        <4>1. Len(call.chain) # 0
          BY <3>1
        <4> QED BY <3>1, <4>1 DEF NearestRead
      <3>4. m.kind = "delta" /\ HasManifest(m.base) /\ call.got = manifest[m.base].data
        BY <1>1, <3>1, <3>2, <3>3 DEF Current, HasManifest
      <3>5. /\ m.data \in Content /\ m.base \in Checkpoint
        BY <3>1, ManifestsMatch
      <3>6. call.got \in Content
        <4>1. manifest[m.base] \in Manifest
          BY <3>4, <3>5 DEF ReadsInv, CheckpointTypeOK, HasManifest
        <4> QED BY <3>4, <4>1, ManifestsMatch
      <3>7. /\ m.changed = Changed(call.got, m.data) /\ m.count = Len(Blocks(m.data))
            /\ \A i \in m.changed : blockFile[<<m.id, i>>] = BlockOf(m.data, i)
        BY <3>1, <3>4 DEF Standing, HasBlocks
      <3> HIDE DEF m
      <3>8. Rebuilt(m, call.got) = m.data
        BY <3>5, <3>6, <3>7, RebuiltWell
      <3>9. m.data # None
        BY <3>5, CheckpointAssumption
      <3> QED BY <1>2, <3>8, <3>9 DEF m
    <2> QED BY <1>1, <2>1, <2>2, ReadEnds
  <1>3. CASE data # None
    <2>1. result' = None
      BY <1>3 DEF ApplyDelta
    <2> QED BY <2>1, ResultCleared
  <1> QED BY <1>2, <1>3

LEMMA ReturnReadEnds ==
  ASSUME ReadsInv, ResultInv, NEW p \in Client, ReturnRead(p)
  PROVE  ResultInv'
  <1> DEFINE call == client[p]
  <1>1. /\ InCall(p) /\ Follows(p) /\ call.chain = << >> /\ call.got # None /\ call.op = "read"
        /\ UNCHANGED history /\ End(p, call.got)
    BY DEF ReturnRead, Applying, Follows, InCall
  <1>2. Len(call.chain) = 0
    BY <1>1
  <1>3. call.got \in puts[call.id]
    BY <1>1, <1>2 DEF ReadsInv, GivenInv, GivenChain, StartOf
  <1> QED BY <1>1, <1>3, ReadEnds

LEMMA ResultPreserved ==
  ASSUME ReadsInv, ResultInv, [CheckpointNext]_checkpointVars
  PROVE  ResultInv'
  <1>1. CASE UNCHANGED checkpointVars
    BY <1>1 DEF checkpointVars, history, ResultInv, CheckpointsReadBack
  <1>2. ASSUME NEW p \in Client,
               ReadManifest(p) \/ ReadBase(p) \/ ApplyDelta(p) \/ ReturnRead(p)
        PROVE  ResultInv'
    BY <1>2, ReadManifestEnds, ReadBaseEnds, ApplyDeltaEnds, ReturnReadEnds
  <1>3. ASSUME NEW p \in Client, NEW c \in Checkpoint, NEW room, BeginRead(p, c, room)
        PROVE  result' = None
    BY <1>3 DEF BeginRead, Begin
  <1>4. ASSUME NEW p \in Client, NEW op, NEW c \in Checkpoint, NEW b \in Checkpoint, NEW d \in Content,
               NEW room, BeginPut(p, op, c, b, d, room)
        PROVE  result' = None
    BY <1>4 DEF BeginPut, Begin
  <1>5. ASSUME NEW p \in Client,
               \/ WriteBase(p) \/ CompareBlocks(p) \/ WriteBlock(p) \/ WriteManifest(p)
               \/ ClientDies(p)
        PROVE  result' = None
    BY <1>5 DEF WriteBase, CompareBlocks, WriteBlock, WriteManifest, ClientDies
  <1> QED BY <1>1, <1>2, <1>3, <1>4, <1>5, ResultCleared DEF CheckpointNext

(* CheckpointDeltaStore (checkpoints.py:21-79), for every block size, every content, *)
(* any number of threads and puts, and chains of any length: a read gives only data  *)
(* that was put under its identifier; and while no identifier is used twice, a       *)
(* checkpoint whose manifests led to a base when its read began, within as many      *)
(* nested calls as the reader's stack had room for, is read back whole.              *)
THEOREM CheckpointsAlwaysReadBack == CheckpointSpec => []CheckpointsReadBack
  <1>1. CheckpointInit => ReadsInv /\ ResultInv
    BY ReadsStart DEF CheckpointInit, ResultInv, CheckpointsReadBack
  <1>2. (ReadsInv /\ ResultInv) /\ [CheckpointNext]_checkpointVars => (ReadsInv /\ ResultInv)'
    BY ReadsPreserved, ResultPreserved
  <1>3. ReadsInv /\ ResultInv => CheckpointsReadBack
    BY DEF ResultInv
  <1> QED BY <1>1, <1>2, <1>3, PTL DEF CheckpointSpec
=============================================================================
