------------------------------ MODULE EdgeSync ------------------------------
(***************************************************************************)
(* DelayedLedgerSync (python/urp/edge_sync.py): an edge site ships the     *)
(* events of its ledger to a sink, batch by batch, and keeps a cursor file *)
(* with the last event the sink has acknowledged.                          *)
(*                                                                         *)
(* The site's ledger is the abstract EventLog, which module Ledger         *)
(* implements: other threads append to it, and an interrupted write may    *)
(* damage it, at any time.  The sink (LocalLedgerSink, behind HTTP or not) *)
(* appends a batch event by event.  Its work and the caller's wait for the *)
(* receipt are separate: a caller may time out or die while the sink goes  *)
(* on, and the sink may stop half way.                                     *)
(***************************************************************************)
EXTENDS EventLog, FiniteSets, SequencesExt

CONSTANTS
  Client,   \* the threads that call sync for the site
  None,     \* no event, nobody
  Limit,    \* sync's limit: how many events a batch may have
  MaxCalls  \* bound: how many sync calls are made

ASSUME NoneAssumption == None \notin Event /\ None \notin Client
ASSUME LimitAssumption == Limit \in Nat \ {0} /\ MaxCalls \in Nat

Call == 1..MaxCalls

VARIABLES
  cursor,    \* the event in edge_sync_cursor.json, None before the first sync
  holder,    \* the thread inside file_lock(.edge-sync.lock)
  pc,        \* where each thread is in sync
  call,      \* the call each thread is in, 0 for none
  calls,     \* how many calls were made
  batch,     \* what each call has sent to the sink
  accepted,  \* how many events of each batch the sink has appended
  remote,    \* the source events in the sink's ledger, oldest first
  cut        \* history: a call ended between sending and its cursor

site == <<cursor, holder, pc, call, calls>>
sink == <<batch, accepted, remote>>
vars == <<logVars, site, sink, cut>>

Init ==
  /\ LogInit
  /\ cursor = None /\ holder = None
  /\ pc = [c \in Client |-> "idle"]
  /\ call = [c \in Client |-> 0]
  /\ calls = 0
  /\ batch = [n \in Call |-> << >>]
  /\ accepted = [n \in Call |-> 0]
  /\ remote = << >>
  /\ cut = FALSE

Goto(c, label) == pc' = [pc EXCEPT ![c] = label]

(* Mutant of MayEnter: syncs of one site do not wait for each other.       *)
EnterAnyway == TRUE

MayEnter == holder = None

(* sync returns, raises or dies: the lock is released.                     *)
Leave(c) ==
  /\ Goto(c, "idle")
  /\ call' = [call EXCEPT ![c] = 0]
  /\ holder' = IF holder = c THEN None ELSE holder

(* Where the cursor is in the ledger; 0 when there is none yet.            *)
Position(s) == IF cursor = None THEN 0 ELSE CHOOSE i \in 0..Len(s) : i > 0 /\ s[i] = cursor

(* Mutants of Unsent: the cursor's event again; one event too far.         *)
UnsentAgain(s) == SubSeq(s, IF cursor = None THEN 1 ELSE Position(s), Len(s))
UnsentSkipping(s) == SubSeq(s, IF cursor = None THEN 1 ELSE Position(s) + 2, Len(s))

(* pending: the events after the cursor ...                                *)
Unsent(s) == SubSeq(s, Position(s) + 1, Len(s))

(* ... as many as a batch may have.                                        *)
Pending(s) == SubSeq(Unsent(s), 1, IF Len(Unsent(s)) < Limit THEN Len(Unsent(s)) ELSE Limit)

CursorKnown == cursor # None => cursor \in EventsOf(log)
-----------------------------------------------------------------------------
Begin(c) ==
  /\ pc[c] = "idle" /\ calls < MaxCalls
  /\ calls' = calls + 1
  /\ call' = [call EXCEPT ![c] = calls + 1]
  /\ Goto(c, "lock")
  /\ UNCHANGED <<logVars, cursor, holder, sink, cut>>

Lock(c) ==
  /\ pc[c] = "lock" /\ MayEnter
  /\ holder' = c
  /\ Goto(c, "verify")
  /\ UNCHANGED <<logVars, cursor, call, calls, sink, cut>>

(* pending verifies the chain in one critical section of the ledger and    *)
(* reads the events in the next one.                                       *)
VerifyChain(c) ==
  /\ pc[c] = "verify" /\ ~damaged
  /\ Goto(c, "read")
  /\ UNCHANGED <<logVars, cursor, holder, call, calls, sink, cut>>

(* The events are read, and the batch goes to the sink.                    *)
SendBatch(c) ==
  /\ pc[c] = "read" /\ ReadLog /\ CursorKnown
  /\ Pending(log) # << >>
  /\ batch' = [batch EXCEPT ![call[c]] = Pending(log)]
  /\ Goto(c, "await")
  /\ UNCHANGED <<cursor, holder, call, calls, accepted, remote, cut>>

NothingToSend(c) ==
  /\ pc[c] = "read" /\ ReadLog /\ CursorKnown
  /\ Pending(log) = << >>
  /\ Leave(c)
  /\ UNCHANGED <<cursor, calls, sink, cut>>

(* A ledger that cannot be read, or that has lost the cursor's event.      *)
LedgerUnusable(c) ==
  /\ pc[c] \in {"verify", "read"}
  /\ damaged \/ ~CursorKnown
  /\ Leave(c)
  /\ UNCHANGED <<logVars, cursor, calls, sink, cut>>

(* LocalLedgerSink.accept: the next event of a batch.  (Each is chained to *)
(* the one before it: the batch is a piece of a chain that was verified.)  *)
AcceptEvent(n) ==
  /\ accepted[n] < Len(batch[n])
  /\ remote' = Append(remote, batch[n][accepted[n] + 1])
  /\ accepted' = [accepted EXCEPT ![n] = @ + 1]
  /\ UNCHANGED <<logVars, site, batch, cut>>

(* The receipt names the last event of the batch.                          *)
CompleteReceipt(c) == accepted[call[c]] = Len(batch[call[c]])

ReceiptChecked(c) ==
  /\ pc[c] = "await" /\ CompleteReceipt(c)
  /\ Goto(c, "write")
  /\ UNCHANGED <<logVars, cursor, holder, call, calls, sink, cut>>

WriteCursor(c) ==
  /\ pc[c] = "write"
  /\ cursor' = Last(batch[call[c]])
  /\ Leave(c)
  /\ UNCHANGED <<logVars, calls, sink, cut>>

(* The call raises (a receipt of less than the batch, a timeout of the     *)
(* HTTP request, a cursor file that cannot be written) or its process dies.*)
Stop(c) ==
  /\ pc[c] # "idle"
  /\ cut' = (cut \/ pc[c] \in {"await", "write"})
  /\ Leave(c)
  /\ UNCHANGED <<logVars, cursor, calls, sink>>

(* The other users of the site's ledger.                                   *)
SiteLedger ==
  /\ (\E e \in Event : AppendEvent(e)) \/ Damage
  /\ UNCHANGED <<site, sink, cut>>

Next ==
  \/ \E c \in Client :
       \/ Begin(c) \/ Lock(c) \/ VerifyChain(c)
       \/ SendBatch(c) \/ NothingToSend(c) \/ LedgerUnusable(c)
       \/ ReceiptChecked(c) \/ WriteCursor(c) \/ Stop(c)
  \/ \E n \in Call : AcceptEvent(n)
  \/ SiteLedger

Spec == Init /\ [][Next]_vars
-----------------------------------------------------------------------------
(* Every variable has its type; a batch is never longer than the limit.    *)
TypeOK ==
  /\ log \in Seq(Event) /\ damaged \in BOOLEAN /\ seen \in Seq(Event)
  /\ cursor \in Event \cup {None}
  /\ holder \in Client \cup {None}
  /\ pc \in [Client -> {"idle", "lock", "verify", "read", "await", "write"}]
  /\ call \in [Client -> 0..MaxCalls] /\ calls \in 0..MaxCalls
  /\ batch \in [Call -> Seq(Event)] /\ \A n \in Call : Len(batch[n]) <= Limit
  /\ accepted \in [Call -> 0..Limit] /\ \A n \in Call : accepted[n] <= Len(batch[n])
  /\ remote \in Seq(Event)
  /\ cut \in BOOLEAN

(* The events a site recorded before e (all it still has, when damage has  *)
(* destroyed e).                                                           *)
Before(l, e) == {l[j] : j \in {k \in DOMAIN l : \A i \in 1..k : l[i] # e}}
Earlier(e) == Before(log, e)

(* Batches of timed-out calls, retries and the sink's own failures never   *)
(* leave a gap or swap two events: when an event reaches the sink, all     *)
(* events before it have been there already.                               *)
DeliveredInOrder ==
  \A i \in DOMAIN remote : Earlier(remote[i]) \subseteq {remote[m] : m \in 1..(i - 1)}

(* The cursor never passes an event the sink does not have: what a restart *)
(* skips is safe.                                                          *)
CursorDelivered == cursor # None => Earlier(cursor) \cup {cursor} \subseteq ToSet(remote)

(* The cursor only moves forward, with several threads syncing one site.   *)
CursorAdvances == [][cursor # None => cursor \in Earlier(cursor')]_cursor

(* The sink gets an event twice only after a call that ended between       *)
(* sending its batch and writing its cursor.                               *)
DuplicatesNeedCut == ~cut => Len(remote) = Cardinality(ToSet(remote))
=============================================================================
