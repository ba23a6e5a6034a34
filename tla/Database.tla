------------------------------ MODULE Database ------------------------------
(***************************************************************************)
(* The ledger in PostgreSQL (python/urp/postgres.py, PostgresLedger),      *)
(* which replaces the JSONL file when URP_LEDGER_STORE names a database.   *)
(*                                                                         *)
(* append is one transaction: it takes an advisory lock that lives as long *)
(* as the transaction, reads the hash of the row with the highest sequence *)
(* number, inserts the next row and commits.  A sequence number is drawn   *)
(* at the insert and never returned; a row is seen once it is committed.   *)
(* Connections are lost anywhere, also after the commit and before its     *)
(* answer.  A statement sees what is committed when it starts.             *)
(***************************************************************************)
EXTENDS Common, Naturals, Sequences

CONSTANTS
  Session,     \* the connections that use the table
  Entry,       \* the events that are submitted, each with a fresh id
  HashId,      \* the values of event_hash
  NoLink,      \* prev_hash of the first row
  Link(_, _)   \* Link(previous, e): the hash of e chained to it

ASSUME LinkAssumption ==
  /\ NoLink \notin HashId
  /\ \A h \in HashId \cup {NoLink}, e \in Entry : Link(h, e) \in HashId
ASSUME EntryAssumption == None \notin Entry

VARIABLES
  rows,     \* the committed rows, ORDER BY sequence
  drawn,    \* the sequence number drawn last
  holders,  \* the transactions that hold the advisory lock
  statement,\* the next statement of each transaction
  entry,    \* the event it appends
  selected, \* the hash it read of the last row
  inserted, \* its row, not committed yet
  sent,     \* history: the events given to append
  told,     \* history: the events whose append returned
  shown     \* history: what the latest read returned

databaseVars ==
  <<rows, drawn, holders, statement, entry, selected, inserted, sent, told, shown>>

HashOrNone == HashId \cup {NoLink}
DatabaseRow == [sequence : Nat, event : Entry, prev : HashOrNone, hash : HashId]

EntriesOf(table) == [i \in DOMAIN table |-> table[i].event]

LastLink(table) == IF table = << >> THEN NoLink ELSE table[Len(table)].hash

(* verify_chain.                                                           *)
Linked(table) ==
  \A i \in DOMAIN table :
    /\ table[i].prev = IF i = 1 THEN NoLink ELSE table[i - 1].hash
    /\ table[i].hash = Link(table[i].prev, table[i].event)
-----------------------------------------------------------------------------
DatabaseInit ==
  /\ rows = << >> /\ drawn = 0 /\ holders = {}
  /\ statement = [s \in Session |-> "none"]
  /\ entry = [s \in Session |-> None]
  /\ selected = [s \in Session |-> NoLink]
  /\ inserted = [s \in Session |-> None]
  /\ sent = {} /\ told = {} /\ shown = << >>

NextStatement(s, next) == statement' = [statement EXCEPT ![s] = next]

BeginTransaction(s, e) ==
  /\ statement[s] = "none" /\ e \notin sent
  /\ entry' = [entry EXCEPT ![s] = e]
  /\ sent' = sent \cup {e}
  /\ NextStatement(s, "lock")
  /\ UNCHANGED <<rows, drawn, holders, selected, inserted, told, shown>>

(* pg_advisory_xact_lock waits for the transaction that holds it.          *)
TakeAdvisoryLock(s) ==
  /\ statement[s] = "lock" /\ holders = {}
  /\ holders' = {s}
  /\ NextStatement(s, "last")
  /\ UNCHANGED <<rows, drawn, entry, selected, inserted, sent, told, shown>>

SelectLast(s) ==
  /\ statement[s] = "last"
  /\ selected' = [selected EXCEPT ![s] = LastLink(rows)]
  /\ NextStatement(s, "insert")
  /\ UNCHANGED <<rows, drawn, holders, entry, inserted, sent, told, shown>>

(* Mutant of StillHeld: the lock is given back after the insert.           *)
GivenBack(s) == holders \ {s}

(* The lock belongs to the transaction, not to the statement.              *)
StillHeld(s) == holders

InsertRow(s) ==
  /\ statement[s] = "insert"
  /\ drawn' = drawn + 1
  /\ inserted' = [inserted EXCEPT ![s] =
       [sequence |-> drawn + 1, event |-> entry[s], prev |-> selected[s],
        hash |-> Link(selected[s], entry[s])]]
  /\ holders' = StillHeld(s)
  /\ NextStatement(s, "commit")
  /\ UNCHANGED <<rows, entry, selected, sent, told, shown>>

(* The transaction is over: its lock, its row and its locals are gone.     *)
EndTransaction(s) ==
  /\ holders' = holders \ {s}
  /\ inserted' = [inserted EXCEPT ![s] = None]
  /\ entry' = [entry EXCEPT ![s] = None]
  /\ selected' = [selected EXCEPT ![s] = NoLink]
  /\ NextStatement(s, "none")

(* How many rows a reader finds before a new one.                          *)
Before(row) ==
  CHOOSE n \in 0..Len(rows) :
    \A i \in DOMAIN rows : rows[i].sequence < row.sequence <=> i <= n

WithRow(row) ==
  SubSeq(rows, 1, Before(row)) \o <<row>> \o SubSeq(rows, Before(row) + 1, Len(rows))

(* The row is in the table; whether the caller hears of it or not.         *)
Commit(s) ==
  /\ statement[s] = "commit"
  /\ rows' = WithRow(inserted[s])
  /\ told' \in {told, told \cup {entry[s]}}
  /\ EndTransaction(s)
  /\ UNCHANGED <<drawn, sent, shown>>

(* A statement fails or the connection is lost.                            *)
RollBack(s) ==
  /\ statement[s] # "none"
  /\ EndTransaction(s)
  /\ UNCHANGED <<rows, drawn, sent, told, shown>>

(* read, of a caller that is bound to no tenant: one statement.            *)
SelectAll ==
  /\ shown' = EntriesOf(rows)
  /\ UNCHANGED <<rows, drawn, holders, statement, entry, selected, inserted, sent, told>>

DatabaseNext ==
  \/ \E s \in Session :
       \/ \E e \in Entry : BeginTransaction(s, e)
       \/ TakeAdvisoryLock(s) \/ SelectLast(s) \/ InsertRow(s) \/ Commit(s) \/ RollBack(s)
  \/ SelectAll

DatabaseSpec == DatabaseInit /\ [][DatabaseNext]_databaseVars
-----------------------------------------------------------------------------
(* However transactions overlap and wherever they end, the rows in the     *)
(* order of their numbers are one intact chain (verify_chain), and every   *)
(* event a caller was told of is among them (postgres.py:141-169).         *)
TableIntact ==
  /\ Linked(rows)
  /\ \A e \in told : \E i \in DOMAIN rows : rows[i].event = e

(* The table is the log its callers rely on, one that is never damaged:    *)
(* it grows at its end only, in the order of the sequence numbers, and a   *)
(* reader gets all of it.                                                  *)
TableLog == INSTANCE EventLog
  WITH Event <- Entry, log <- EntriesOf(rows), damaged <- FALSE, seen <- shown

TableImplementsEventLog == TableLog!LogSpec
=============================================================================
