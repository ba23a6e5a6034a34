---------------------------- MODULE EdgeSyncProofs ----------------------------
(***************************************************************************)
(* For any clients, events, batch limit and number of calls: the sink gets *)
(* a site's events without a gap or a swap, the cursor only names events   *)
(* the sink has and only moves forward, and no event arrives twice unless  *)
(* a call ended between sending its batch and writing its cursor.          *)
(*                                                                         *)
(* A batch is a piece of the ledger that starts right after the cursor.    *)
(* What lies before one of its events is therefore at the sink already or  *)
(* earlier in the batch (BatchInv), and stays so however late the sink     *)
(* gets to it, because neither the ledger's past nor the sink's changes.   *)
(***************************************************************************)
EXTENDS EdgeSync, SequenceTheorems, FiniteSetTheorems, TLAPS

(* The threads inside the lock of the site.                                *)
Inside == {"verify", "read", "await", "write"}

LockInv == \A c \in Client : pc[c] \in Inside <=> holder = c

(* Every thread in sync has a call of its own.                             *)
CallInv ==
  /\ \A c \in Client : pc[c] # "idle" => call[c] \in 1..calls
  /\ \A c, d \in Client : pc[c] # "idle" /\ pc[d] # "idle" /\ call[c] = call[d] => c = d

(* A call has no batch before it sends one.                                *)
FreshInv ==
  /\ \A n \in Call : n > calls => batch[n] = << >>
  /\ \A c \in Client : pc[c] \in {"lock", "verify", "read"} => batch[call[c]] = << >>

(* A call that waits has sent something; one that writes the cursor has    *)
(* seen all of it accepted.                                                *)
SentInv ==
  /\ \A c \in Client : pc[c] \in {"await", "write"} => batch[call[c]] # << >>
  /\ \A c \in Client : pc[c] = "write" => accepted[call[c]] = Len(batch[call[c]])

ControlInv == LockInv /\ CallInv /\ FreshInv /\ SentInv

(* No event is twice in the ledger.                                        *)
Distinct == \A i, j \in DOMAIN log : log[i] = log[j] => i = j

(* What was sent and what has arrived is in the ledger, as long as that is *)
(* whole.                                                                  *)
Known ==
  ~damaged =>
    /\ \A n \in Call : \A k \in DOMAIN batch[n] : batch[n][k] \in EventsOf(log)
    /\ \A i \in DOMAIN remote : remote[i] \in EventsOf(log)

(* What precedes an event of a batch is at the sink or before it in the    *)
(* batch.                                                                  *)
BatchInv ==
  \A n \in Call : \A k \in DOMAIN batch[n] :
    Earlier(batch[n][k]) \subseteq ToSet(remote) \cup {batch[n][m] : m \in 1..(k - 1)}

AcceptedInv == \A n \in Call : \A k \in 1..accepted[n] : batch[n][k] \in ToSet(remote)

(* The batch of the call that will write the cursor lies after the cursor. *)
AheadInv ==
  cursor # None =>
    \A c \in Client : pc[c] \in {"await", "write"} =>
      \A k \in DOMAIN batch[call[c]] : cursor \in Earlier(batch[call[c]][k])

IInv ==
  /\ TypeOK /\ ControlInv
  /\ Distinct /\ Known /\ BatchInv /\ AcceptedInv /\ AheadInv
  /\ DeliveredInOrder /\ CursorDelivered
-----------------------------------------------------------------------------
(* The log step of another user of the site's ledger, in detail.           *)
LEMMA SiteLedgerCases ==
  ASSUME TypeOK, SiteLedger
  PROVE  /\ ~damaged
         /\ UNCHANGED <<site, sink, cut>>
         /\ \/ \E e \in Event : e \notin EventsOf(log) /\ log' = Append(log, e) /\ damaged' = damaged
            \/ log' = log /\ damaged'
            \/ log # << >> /\ log' = SubSeq(log, 1, Len(log) - 1) /\ damaged'
  BY DEF SiteLedger, AppendEvent, Damage

(* A piece of a sequence.                                                  *)
LEMMA PieceProperties ==
  ASSUME NEW S, NEW s \in Seq(S), NEW m \in Nat \ {0}, NEW n \in Nat, n <= Len(s), m <= n + 1
  PROVE  /\ SubSeq(s, m, n) \in Seq(S)
         /\ Len(SubSeq(s, m, n)) = n - m + 1
         /\ \A i \in 1..(n - m + 1) : SubSeq(s, m, n)[i] = s[m + i - 1]
  OBVIOUS

(* A sequence without its last element.                                    *)
LEMMA FrontProperties ==
  ASSUME NEW S, NEW s \in Seq(S), s # << >>
  PROVE  /\ SubSeq(s, 1, Len(s) - 1) \in Seq(S)
         /\ Len(SubSeq(s, 1, Len(s) - 1)) = Len(s) - 1
         /\ \A i \in 1..(Len(s) - 1) : SubSeq(s, 1, Len(s) - 1)[i] = s[i]
  <1> DEFINE n == Len(s) - 1
  <1>1. n \in Nat /\ n <= Len(s) /\ 1 <= n + 1
    BY EmptySeq
  <1>2. /\ SubSeq(s, 1, n) \in Seq(S)
        /\ Len(SubSeq(s, 1, n)) = n - 1 + 1
        /\ \A i \in 1..(n - 1 + 1) : SubSeq(s, 1, n)[i] = s[1 + i - 1]
    <2> HIDE DEF n
    <2> QED
      BY <1>1, PieceProperties
  <1>3. n - 1 + 1 = n /\ \A i \in 1..n : 1 + i - 1 = i
    BY <1>1
  <1> HIDE DEF n
  <1>4. /\ SubSeq(s, 1, n) \in Seq(S)
        /\ Len(SubSeq(s, 1, n)) = n
        /\ \A i \in 1..n : SubSeq(s, 1, n)[i] = s[i]
    BY <1>1, <1>2, <1>3
  <1> QED
    BY <1>4 DEF n

(* The places before the only one that has b.                              *)
LEMMA PlacesBefore ==
  ASSUME NEW s, NEW n \in Nat, NEW b, NEW i \in Nat \ {0},
         \A m \in 1..n : s[m] = b <=> m = i
  PROVE  \A k \in 1..n : (\A m \in 1..k : s[m] # b) <=> k \in 1..(i - 1)
  OBVIOUS

(* What precedes an event of the ledger.                                   *)
LEMMA EarlierOfElement ==
  ASSUME log \in Seq(Event), Distinct, NEW i \in DOMAIN log
  PROVE  Before(log, log[i]) = {log[j] : j \in 1..(i - 1)}
  <1>1. \A k \in DOMAIN log : (\A m \in 1..k : log[m] # log[i]) <=> k \in 1..(i - 1)
    <2>1. /\ Len(log) \in Nat /\ DOMAIN log = 1..Len(log) /\ i \in Nat \ {0}
          /\ \A m \in 1..Len(log) : log[m] = log[i] <=> m = i
      BY DEF Distinct
    <2> QED
      BY <2>1, PlacesBefore
  <1>2. 1..(i - 1) \subseteq DOMAIN log
    OBVIOUS
  <1> QED
    BY <1>1, <1>2 DEF Before

(* Nothing is inserted before an event of the ledger, nor taken away.      *)
LEMMA EarlierStable ==
  ASSUME TypeOK, Distinct, SiteLedger, NEW b \in EventsOf(log)
  PROVE  Before(log', b) = Before(log, b)
  <1> log \in Seq(Event)
    BY DEF TypeOK
  <1>1. PICK i \in DOMAIN log : b = log[i]
    BY DEF EventsOf
  <1>2. Before(log, b) = {log[j] : j \in 1..(i - 1)}
    BY <1>1, EarlierOfElement
  <1>3. CASE \E e \in Event : e \notin EventsOf(log) /\ log' = Append(log, e)
    <2>1. \A k \in DOMAIN log' : (\A m \in 1..k : log'[m] # b) <=> k \in 1..(i - 1)
      <3>1. PICK e \in Event : e \notin EventsOf(log) /\ log' = Append(log, e)
        BY <1>3
      <3>2. /\ Len(log) \in Nat /\ i \in 1..Len(log) /\ DOMAIN log' = 1..(Len(log) + 1)
            /\ log'[Len(log) + 1] = e /\ \A m \in 1..Len(log) : log'[m] = log[m]
        BY <3>1
      <3>3. e # b
        BY <1>1, <3>1 DEF EventsOf
      <3>4. \A m \in 1..Len(log) : log[m] = b <=> m = i
        BY <1>1, <3>2 DEF Distinct
      <3>5. \A m \in 1..(Len(log) + 1) : log'[m] = b <=> m = i
        BY <3>2, <3>3, <3>4
      <3> HIDE DEF EventsOf
      <3> QED
        BY <3>2, <3>5, PlacesBefore
    <2>2. \A k \in 1..(i - 1) : k \in DOMAIN log' /\ log'[k] = log[k]
      BY <1>3
    <2> QED
      BY <1>2, <2>1, <2>2 DEF Before
  <1>4. CASE log' = log
    BY <1>4 DEF Before
  <1>5. CASE log # << >> /\ log' = SubSeq(log, 1, Len(log) - 1)
    <2>1. /\ log' \in Seq(Event) /\ Len(log') = Len(log) - 1
          /\ \A k \in 1..(Len(log) - 1) : log'[k] = log[k]
      BY <1>5, FrontProperties
    <2>2. \A k \in DOMAIN log' : (\A m \in 1..k : log'[m] # b) <=> k \in 1..(i - 1)
      <3>1. /\ Len(log') \in Nat /\ i \in Nat \ {0} /\ DOMAIN log' = 1..Len(log')
            /\ \A m \in 1..Len(log') : m \in DOMAIN log /\ log'[m] = log[m]
        BY <2>1
      <3>2. \A m \in 1..Len(log') : log'[m] = b <=> m = i
        BY <1>1, <3>1 DEF Distinct
      <3> QED
        BY <3>1, <3>2, PlacesBefore
    <2>3. \A k \in 1..(i - 1) : k \in DOMAIN log' /\ log'[k] = log[k]
      BY <2>1
    <2> QED
      BY <1>2, <2>2, <2>3 DEF Before
  <1> QED
    BY <1>3, <1>4, <1>5, SiteLedgerCases
-----------------------------------------------------------------------------
(* Where the cursor is in a ledger that has its event.                     *)
LEMMA PositionProperties ==
  ASSUME TypeOK, CursorKnown
  PROVE  /\ Position(log) \in 0..Len(log)
         /\ cursor # None => Position(log) > 0 /\ log[Position(log)] = cursor
         /\ cursor = None => Position(log) = 0
  <1>1. CASE cursor = None
    BY <1>1 DEF TypeOK, Position
  <1>2. CASE cursor # None
    <2>1. \E i \in 0..Len(log) : i > 0 /\ log[i] = cursor
      BY <1>2 DEF TypeOK, CursorKnown, EventsOf
    <2> QED
      BY <1>2, <2>1 DEF Position
  <1> QED
    BY <1>1, <1>2

(* A batch is a piece of the ledger, from right after the cursor on.       *)
LEMMA PendingProperties ==
  ASSUME TypeOK, CursorKnown
  PROVE  /\ Pending(log) \in Seq(Event)
         /\ Len(Pending(log)) \in 0..Limit
         /\ Len(Pending(log)) <= Len(log) - Position(log)
         /\ \A k \in 1..Len(Pending(log)) : Pending(log)[k] = log[Position(log) + k]
  <1> DEFINE p == Position(log)
             u == Unsent(log)
             l == IF Len(u) < Limit THEN Len(u) ELSE Limit
  <1>1. log \in Seq(Event) /\ p \in 0..Len(log) /\ Len(log) \in Nat
    BY PositionProperties DEF TypeOK
  <1> HIDE DEF p
  <1>2. u = SubSeq(log, p + 1, Len(log))
    BY DEF Unsent, p
  <1>3. p + 1 \in Nat \ {0} /\ p + 1 <= Len(log) + 1 /\ Len(log) - (p + 1) + 1 = Len(log) - p
    BY <1>1
  <1>4. /\ u \in Seq(Event) /\ Len(u) = Len(log) - p
        /\ \A k \in 1..(Len(log) - p) : u[k] = log[p + 1 + k - 1]
    BY <1>1, <1>2, <1>3, PieceProperties
  <1> HIDE DEF u
  <1>5. /\ l \in Nat /\ l <= Len(u) /\ l <= Limit /\ 1 <= l + 1 /\ l - 1 + 1 = l
    BY <1>1, <1>4, LimitAssumption
  <1>6. Pending(log) = SubSeq(u, 1, l)
    BY DEF Pending, u
  <1> HIDE DEF l
  <1>7. /\ Pending(log) \in Seq(Event) /\ Len(Pending(log)) = l
        /\ \A k \in 1..l : Pending(log)[k] = u[1 + k - 1]
    BY <1>4, <1>5, <1>6, PieceProperties
  <1>8. \A k \in 1..l : 1 + k - 1 = k /\ k \in 1..(Len(log) - p) /\ p + 1 + k - 1 = p + k
    BY <1>1, <1>4, <1>5
  <1>9. \A k \in 1..l : Pending(log)[k] = log[p + k]
    BY <1>4, <1>7, <1>8
  <1> QED
    BY <1>1, <1>4, <1>5, <1>7, <1>9, LimitAssumption DEF p

(* The steps that only move a thread in sync.                              *)
Move(c) ==
  \/ Begin(c) \/ Lock(c) \/ VerifyChain(c) \/ NothingToSend(c) \/ LedgerUnusable(c)
  \/ ReceiptChecked(c) \/ Stop(c)

(* What they leave alone.                                                  *)
LEMMA MoveFrame ==
  ASSUME NEW c \in Client, Move(c)
  PROVE  UNCHANGED <<log, damaged, cursor, batch, accepted, remote>>
  BY DEF Move, Begin, Lock, VerifyChain, NothingToSend, LedgerUnusable, ReceiptChecked, Stop,
         ReadLog, logVars, sink

(* The cases of Next.                                                      *)
LEMMA NextCases ==
  ASSUME [Next]_vars
  PROVE  \/ \E c \in Client : Move(c) \/ SendBatch(c) \/ WriteCursor(c)
         \/ \E n \in Call : AcceptEvent(n)
         \/ SiteLedger
         \/ UNCHANGED vars
  BY DEF Next, Move

(* Types survive every step.                                               *)
LEMMA TypeStep == TypeOK /\ ControlInv /\ [Next]_vars => TypeOK'
  <1> SUFFICES ASSUME TypeOK, ControlInv, [Next]_vars PROVE TypeOK'
    OBVIOUS
  <1> USE NoneAssumption, LimitAssumption
  <1>1. ASSUME NEW c \in Client, Begin(c) PROVE TypeOK'
    BY <1>1 DEF TypeOK, Begin, Goto, logVars, sink
  <1>2. ASSUME NEW c \in Client, Lock(c) PROVE TypeOK'
    BY <1>2 DEF TypeOK, Lock, Goto, logVars, sink
  <1>3. ASSUME NEW c \in Client, VerifyChain(c) PROVE TypeOK'
    BY <1>3 DEF TypeOK, VerifyChain, Goto, logVars, sink
  <1>4. ASSUME NEW c \in Client, NothingToSend(c) PROVE TypeOK'
    BY <1>4 DEF TypeOK, NothingToSend, ReadLog, Leave, Goto, sink
  <1>5. ASSUME NEW c \in Client, LedgerUnusable(c) PROVE TypeOK'
    BY <1>5 DEF TypeOK, LedgerUnusable, Leave, Goto, logVars, sink
  <1>6. ASSUME NEW c \in Client, ReceiptChecked(c) PROVE TypeOK'
    BY <1>6 DEF TypeOK, ReceiptChecked, Goto, logVars, sink
  <1>7. ASSUME NEW c \in Client, Stop(c) PROVE TypeOK'
    BY <1>7 DEF TypeOK, Stop, Leave, Goto, logVars, sink
  <1>8. ASSUME NEW c \in Client, SendBatch(c) PROVE TypeOK'
    <2>1. call[c] \in Call /\ accepted[call[c]] = 0
      BY <1>8 DEF SendBatch, TypeOK, ControlInv, CallInv, FreshInv, Call
    <2>2. Pending(log) \in Seq(Event) /\ Len(Pending(log)) \in 0..Limit
      BY <1>8, PendingProperties DEF SendBatch
    <2> HIDE DEF Call
    <2> QED
      BY <1>8, <2>1, <2>2 DEF TypeOK, SendBatch, ReadLog, Goto
  <1>9. ASSUME NEW c \in Client, WriteCursor(c) PROVE TypeOK'
    <2>1. call[c] \in Call
      BY <1>9 DEF WriteCursor, TypeOK, ControlInv, CallInv, Call
    <2>2. cursor' \in Event
      BY <1>9, <2>1, EmptySeq DEF WriteCursor, TypeOK, ControlInv, SentInv, Last
    <2> QED
      BY <1>9, <2>2 DEF TypeOK, WriteCursor, Leave, Goto, logVars, sink
  <1>10. ASSUME NEW n \in Call, AcceptEvent(n) PROVE TypeOK'
    BY <1>10 DEF TypeOK, AcceptEvent, logVars, site
  <1>11. ASSUME SiteLedger PROVE TypeOK'
    <2>1. log' \in Seq(Event)
      <3>1. log \in Seq(Event) /\ \A e \in Event : Append(log, e) \in Seq(Event)
        BY DEF TypeOK
      <3>2. log # << >> => SubSeq(log, 1, Len(log) - 1) \in Seq(Event)
        BY <3>1, FrontProperties
      <3>3. \/ log' = log \/ \E e \in Event : log' = Append(log, e)
            \/ log # << >> /\ log' = SubSeq(log, 1, Len(log) - 1)
        BY <1>11, SiteLedgerCases
      <3> QED
        BY <3>1, <3>2, <3>3
    <2>2. damaged' \in BOOLEAN /\ UNCHANGED <<seen, site, sink, cut>>
      BY <1>11 DEF SiteLedger, AppendEvent, Damage, TypeOK
    <2> QED
      BY <2>1, <2>2 DEF TypeOK, site, sink
  <1>12. ASSUME UNCHANGED vars PROVE TypeOK'
    BY <1>12 DEF TypeOK, vars, logVars, site, sink
  <1> QED
    BY NextCases, <1>1, <1>2, <1>3, <1>4, <1>5, <1>6, <1>7, <1>8, <1>9, <1>10, <1>11, <1>12 DEF Move

(* Locks, calls and what each call has sent.                               *)
LEMMA ControlStep == TypeOK /\ ControlInv /\ [Next]_vars => ControlInv'
  <1> SUFFICES ASSUME TypeOK, ControlInv, [Next]_vars PROVE ControlInv'
    OBVIOUS
  <1> USE NoneAssumption, LimitAssumption DEF ControlInv, LockInv, CallInv, FreshInv, SentInv, Inside, TypeOK
  <1>1. ASSUME NEW c \in Client, Begin(c) PROVE ControlInv'
    <2>1. /\ pc[c] = "idle" /\ pc' = [pc EXCEPT ![c] = "lock"]
          /\ calls + 1 \in Call /\ calls' = calls + 1
          /\ call' = [call EXCEPT ![c] = calls + 1]
          /\ UNCHANGED <<holder, batch, accepted>>
      BY <1>1 DEF Begin, Goto, sink, Call
    <2>2. LockInv'
      BY <2>1
    <2>3. CallInv'
      <3>1. \A d \in Client : pc'[d] # "idle" => call'[d] \in 1..calls'
        BY <2>1
      <3>2. \A d \in Client : d # c => pc'[d] = pc[d] /\ call'[d] = call[d]
        BY <2>1
      <3>3. \A d \in Client : d # c /\ pc'[d] # "idle" => call'[d] # calls + 1
        BY <2>1, <3>2
      <3> QED
        BY <2>1, <3>1, <3>2, <3>3
    <2>4. FreshInv'
      <3>1. \A n \in Call : n > calls => batch[n] = << >>
        OBVIOUS
      <3>2. batch[calls + 1] = << >>
        BY <2>1, <3>1
      <3>3. \A n \in Call : n > calls' => batch'[n] = << >>
        BY <2>1, <3>1 DEF Call
      <3>4. ASSUME NEW d \in Client, pc'[d] \in {"lock", "verify", "read"}
            PROVE  batch'[call'[d]] = << >>
        <4>1. CASE d = c
          BY <2>1, <3>2, <4>1
        <4>2. CASE d # c
          BY <2>1, <3>4, <4>2
        <4> QED
          BY <4>1, <4>2
      <3> QED
        BY <3>3, <3>4
    <2>5. SentInv'
      BY <2>1
    <2> QED
      BY <2>2, <2>3, <2>4, <2>5
  <1>2. ASSUME NEW c \in Client, Lock(c) PROVE ControlInv'
    BY <1>2 DEF Lock, MayEnter, Goto, sink
  <1>3. ASSUME NEW c \in Client, VerifyChain(c) PROVE ControlInv'
    BY <1>3 DEF VerifyChain, Goto, sink
  <1>4. ASSUME NEW c \in Client, NothingToSend(c) \/ LedgerUnusable(c) \/ Stop(c) PROVE ControlInv'
    <2>1. /\ Leave(c) /\ pc[c] # "idle"
          /\ UNCHANGED <<calls, batch, accepted>>
      BY <1>4 DEF NothingToSend, LedgerUnusable, Stop, sink
    <2> QED
      BY <2>1 DEF Leave, Goto
  <1>5. ASSUME NEW c \in Client, ReceiptChecked(c) PROVE ControlInv'
    BY <1>5 DEF ReceiptChecked, CompleteReceipt, Goto, sink
  <1>6. ASSUME NEW c \in Client, SendBatch(c) PROVE ControlInv'
    <2>1. call[c] \in Call /\ call[c] \in 1..calls
      BY <1>6 DEF SendBatch, Call
    <2>2. /\ pc[c] = "read" /\ pc' = [pc EXCEPT ![c] = "await"]
          /\ Pending(log) # << >>
          /\ batch' = [batch EXCEPT ![call[c]] = Pending(log)]
          /\ UNCHANGED <<holder, call, calls, accepted>>
      BY <1>6 DEF SendBatch, Goto
    <2>3. \A d \in Client : d # c /\ pc[d] # "idle" => call[d] # call[c]
      BY <2>2
    <2>4. LockInv' /\ CallInv'
      BY <2>2
    <2> HIDE DEF Call
    <2>5. FreshInv'
      BY <2>1, <2>2, <2>3
    <2>6. SentInv'
      BY <2>1, <2>2, <2>3
    <2> QED
      BY <2>4, <2>5, <2>6
  <1>7. ASSUME NEW c \in Client, WriteCursor(c) PROVE ControlInv'
    BY <1>7 DEF WriteCursor, Leave, Goto, sink
  <1>8. ASSUME NEW n \in Call, AcceptEvent(n) PROVE ControlInv'
    BY <1>8 DEF AcceptEvent, site
  <1>9. ASSUME SiteLedger PROVE ControlInv'
    BY <1>9 DEF SiteLedger, site, sink
  <1>10. ASSUME UNCHANGED vars PROVE ControlInv'
    BY <1>10 DEF vars, site, sink
  <1> HIDE DEF ControlInv, TypeOK
  <1> QED
    BY NextCases, <1>1, <1>2, <1>3, <1>4, <1>5, <1>6, <1>7, <1>8, <1>9, <1>10 DEF Move
-----------------------------------------------------------------------------
(* The ledger keeps its events apart.                                      *)
LEMMA DistinctStep == TypeOK /\ Distinct /\ [Next]_vars => Distinct'
  <1> SUFFICES ASSUME TypeOK, Distinct, [Next]_vars PROVE Distinct'
    OBVIOUS
  <1>1. CASE SiteLedger
    <2> log \in Seq(Event)
      BY DEF TypeOK
    <2>1. CASE \E e \in Event : e \notin EventsOf(log) /\ log' = Append(log, e)
      BY <2>1 DEF Distinct, EventsOf
    <2>2. CASE log' = log
      BY <2>2 DEF Distinct
    <2>3. CASE log # << >> /\ log' = SubSeq(log, 1, Len(log) - 1)
      <3>1. /\ log' \in Seq(Event) /\ Len(log') = Len(log) - 1
            /\ \A i \in 1..(Len(log) - 1) : log'[i] = log[i]
        BY <2>3, FrontProperties
      <3>2. \A i \in DOMAIN log' : i \in DOMAIN log /\ log'[i] = log[i]
        BY <3>1
      <3> QED
        BY <3>2 DEF Distinct
    <2> QED
      BY <1>1, <2>1, <2>2, <2>3, SiteLedgerCases
  <1>2. CASE log' = log
    BY <1>2 DEF Distinct
  <1>3. SiteLedger \/ log' = log
    BY NextCases, MoveFrame DEF SendBatch, ReadLog, WriteCursor, AcceptEvent, vars, logVars
  <1> QED
    BY <1>1, <1>2, <1>3

(* A step of the site's ledger takes no event away unless it damages it,   *)
(* and changes nothing else.                                               *)
LEMMA KnownStep == TypeOK /\ ControlInv /\ Known /\ [Next]_vars => Known'
  <1> SUFFICES ASSUME TypeOK, ControlInv, Known, [Next]_vars PROVE Known'
    OBVIOUS
  <1>1. ASSUME UNCHANGED <<log, damaged, batch, remote>> PROVE Known'
    BY <1>1 DEF Known
  <1>2. ASSUME NEW c \in Client, SendBatch(c) PROVE Known'
    <2>1. /\ UNCHANGED <<log, damaged, remote>> /\ CursorKnown
          /\ batch' = [batch EXCEPT ![call[c]] = Pending(log)]
      BY <1>2 DEF SendBatch, ReadLog
    <2>2. \A k \in DOMAIN Pending(log) : Pending(log)[k] \in EventsOf(log)
      <3>1. Position(log) \in 0..Len(log) /\ log \in Seq(Event)
        BY <2>1, PositionProperties DEF TypeOK
      <3>2. \A k \in 1..Len(Pending(log)) :
              Position(log) + k \in DOMAIN log /\ Pending(log)[k] = log[Position(log) + k]
        BY <2>1, <3>1, PendingProperties
      <3> QED
        BY <2>1, <3>2, PendingProperties DEF EventsOf
    <2> QED
      BY <2>1, <2>2 DEF Known, TypeOK
  <1>3. ASSUME NEW n \in Call, AcceptEvent(n) PROVE Known'
    <2>1. /\ UNCHANGED <<log, damaged, batch>>
          /\ accepted[n] + 1 \in DOMAIN batch[n] /\ batch[n][accepted[n] + 1] \in Event
          /\ remote' = Append(remote, batch[n][accepted[n] + 1])
      BY <1>3 DEF AcceptEvent, logVars, TypeOK
    <2> QED
      BY <2>1 DEF Known, TypeOK
  <1>4. ASSUME SiteLedger PROVE Known'
    <2>1. CASE \E e \in Event : log' = Append(log, e) /\ damaged' = damaged
      <3>1. EventsOf(log) \subseteq EventsOf(log)'
        <4>1. PICK e \in Event : log' = Append(log, e)
          BY <2>1
        <4>2. \A i \in DOMAIN log : i \in DOMAIN log' /\ log'[i] = log[i]
          BY <4>1 DEF TypeOK
        <4> QED
          BY <4>2 DEF EventsOf
      <3> QED
        BY <1>4, <2>1, <3>1, SiteLedgerCases DEF Known, sink
    <2>2. CASE damaged'
      BY <2>2 DEF Known
    <2> QED
      BY <1>4, <2>1, <2>2, SiteLedgerCases
  <1> QED
    BY NextCases, MoveFrame, <1>1, <1>2, <1>3, <1>4
       DEF WriteCursor, vars, logVars, sink
-----------------------------------------------------------------------------
(* What precedes an event the ledger had, or has lost to damage, can only  *)
(* change while the ledger is whole and grows: never for events it has.    *)
LEMMA EarlierSame ==
  ASSUME TypeOK, Distinct, [Next]_vars, NEW b, ~damaged => b \in EventsOf(log)
  PROVE  Before(log', b) = Before(log, b)
  <1>1. CASE SiteLedger
    BY <1>1, EarlierStable, SiteLedgerCases
  <1>2. CASE log' = log
    BY <1>2
  <1>3. SiteLedger \/ log' = log
    BY NextCases, MoveFrame DEF SendBatch, ReadLog, WriteCursor, AcceptEvent, vars, logVars
  <1> QED
    BY <1>1, <1>2, <1>3

(* The steps that leave the sink and the batches alone.                    *)
Quiet == UNCHANGED <<batch, accepted, remote>>

LEMMA QuietCases ==
  ASSUME [Next]_vars
  PROVE  \/ Quiet
         \/ \E c \in Client : SendBatch(c)
         \/ \E n \in Call : AcceptEvent(n)
  BY NextCases, MoveFrame DEF WriteCursor, SiteLedger, vars, sink, Quiet

(* AcceptEvent, in detail.                                                 *)
LEMMA AcceptCases ==
  ASSUME TypeOK, NEW n \in Call, AcceptEvent(n)
  PROVE  LET k == accepted[n] + 1
         IN /\ k \in DOMAIN batch[n] /\ batch[n][k] \in Event
            /\ accepted' = [accepted EXCEPT ![n] = k]
            /\ remote' = Append(remote, batch[n][k])
            /\ remote' \in Seq(Event) /\ Len(remote') = Len(remote) + 1
            /\ remote'[Len(remote) + 1] = batch[n][k]
            /\ \A i \in DOMAIN remote : i \in DOMAIN remote' /\ remote'[i] = remote[i]
            /\ ToSet(remote)' = ToSet(remote) \cup {batch[n][k]}
            /\ UNCHANGED <<log, damaged, cursor, batch, pc, call>>
  <1>1. accepted[n] \in Nat /\ accepted[n] + 1 \in DOMAIN batch[n] /\ batch[n][accepted[n] + 1] \in Event
    BY DEF AcceptEvent, TypeOK
  <1>2. /\ accepted' = [accepted EXCEPT ![n] = accepted[n] + 1]
        /\ remote' = Append(remote, batch[n][accepted[n] + 1])
        /\ UNCHANGED <<log, damaged, cursor, batch, pc, call>>
    BY DEF AcceptEvent, logVars, site
  <1>3. /\ remote' \in Seq(Event) /\ Len(remote') = Len(remote) + 1
        /\ remote'[Len(remote) + 1] = batch[n][accepted[n] + 1]
        /\ \A i \in DOMAIN remote : i \in DOMAIN remote' /\ remote'[i] = remote[i]
    BY <1>1, <1>2 DEF TypeOK
  <1>4. DOMAIN remote' = DOMAIN remote \cup {Len(remote) + 1}
    BY <1>1, <1>2 DEF TypeOK
  <1>5. ToSet(remote)' = ToSet(remote) \cup {batch[n][accepted[n] + 1]}
    BY <1>3, <1>4 DEF ToSet
  <1> QED
    BY <1>1, <1>2, <1>3, <1>5

(* What has been accepted of a batch is at the sink.                       *)
LEMMA AcceptedStep ==
  TypeOK /\ ControlInv /\ AcceptedInv /\ [Next]_vars => AcceptedInv'
  <1> SUFFICES ASSUME TypeOK, ControlInv, AcceptedInv, [Next]_vars PROVE AcceptedInv'
    OBVIOUS
  <1>1. CASE Quiet
    BY <1>1 DEF AcceptedInv, Quiet
  <1>2. ASSUME NEW c \in Client, SendBatch(c) PROVE AcceptedInv'
    <2>1. /\ call[c] \in Call /\ batch[call[c]] = << >>
          /\ batch' = [batch EXCEPT ![call[c]] = Pending(log)]
          /\ UNCHANGED <<accepted, remote>>
      BY <1>2 DEF SendBatch, ControlInv, CallInv, FreshInv, TypeOK, Call
    <2>2. accepted[call[c]] = 0
      BY <2>1 DEF TypeOK
    <2> QED
      BY <2>1, <2>2 DEF AcceptedInv, TypeOK
  <1>3. ASSUME NEW n \in Call, AcceptEvent(n) PROVE AcceptedInv'
    <2>1. /\ accepted[n] \in Nat
          /\ accepted' = [accepted EXCEPT ![n] = accepted[n] + 1]
          /\ ToSet(remote)' = ToSet(remote) \cup {batch[n][accepted[n] + 1]}
          /\ batch' = batch
      BY <1>3, AcceptCases DEF TypeOK
    <2> QED
      BY <2>1 DEF AcceptedInv, TypeOK
  <1> QED
    BY <1>1, <1>2, <1>3, QuietCases

(* A batch that is sent starts where the sink's events end.                *)
LEMMA BatchSent ==
  ASSUME TypeOK, Distinct, CursorDelivered, CursorKnown, NEW k \in DOMAIN Pending(log)
  PROVE  /\ Earlier(Pending(log)[k]) \subseteq ToSet(remote) \cup {Pending(log)[m] : m \in 1..(k - 1)}
         /\ cursor # None => cursor \in Earlier(Pending(log)[k])
  <1> DEFINE p == Position(log)
             b == Pending(log)
  <1>1. /\ log \in Seq(Event) /\ p \in 0..Len(log) /\ b \in Seq(Event) /\ k \in 1..Len(b)
        /\ Len(b) <= Len(log) - p
        /\ \A m \in 1..Len(b) : b[m] = log[p + m]
    BY PositionProperties, PendingProperties DEF TypeOK
  <1>2. cursor # None => p > 0 /\ log[p] = cursor
    BY PositionProperties
  <1>3. cursor = None => p = 0
    BY PositionProperties
  <1> HIDE DEF p, b
  <1>4. p + k \in DOMAIN log /\ b[k] = log[p + k]
    BY <1>1
  <1>5. Before(log, b[k]) = {log[j] : j \in 1..(p + k - 1)}
    BY <1>1, <1>4, EarlierOfElement
  <1>6. \A j \in 1..p : log[j] \in ToSet(remote)
    <2>1. CASE cursor = None
      BY <1>3, <2>1
    <2>2. CASE cursor # None
      <3>1. Before(log, log[p]) = {log[j] : j \in 1..(p - 1)}
        BY <1>1, <1>2, <2>2, EarlierOfElement
      <3>2. Before(log, log[p]) \cup {log[p]} \subseteq ToSet(remote)
        BY <1>2, <2>2 DEF CursorDelivered, Earlier
      <3>3. \A j \in 1..p : j \in 1..(p - 1) \/ j = p
        BY <1>1
      <3> QED
        BY <3>1, <3>2, <3>3
    <2> QED
      BY <2>1, <2>2
  <1>7. \A j \in 1..(p + k - 1) : j \in 1..p \/ (j - p \in 1..(k - 1) /\ log[j] = b[j - p])
    BY <1>1
  <1>8. Earlier(b[k]) \subseteq ToSet(remote) \cup {b[m] : m \in 1..(k - 1)}
    BY <1>5, <1>6, <1>7 DEF Earlier
  <1>9. cursor # None => cursor \in Earlier(b[k])
    BY <1>1, <1>2, <1>5 DEF Earlier
  <1> QED
    BY <1>8, <1>9 DEF b

(* The sink's events stay.                                                 *)
LEMMA RemoteGrows ==
  ASSUME TypeOK, [Next]_vars
  PROVE  ToSet(remote) \subseteq ToSet(remote')
  <1>1. ASSUME NEW n \in Call, AcceptEvent(n) PROVE ToSet(remote) \subseteq ToSet(remote')
    BY <1>1, AcceptCases
  <1>2. ASSUME remote' = remote PROVE ToSet(remote) \subseteq ToSet(remote')
    BY <1>2
  <1> QED
    BY <1>1, <1>2, QuietCases DEF Quiet, SendBatch

(* The events a batch has, and what precedes them, stay the same.          *)
LEMMA OldBatch ==
  ASSUME TypeOK, Distinct, Known, BatchInv, [Next]_vars,
         NEW n \in Call, batch'[n] = batch[n], NEW k \in DOMAIN batch[n]
  PROVE  /\ Before(log', batch[n][k]) = Before(log, batch[n][k])
         /\ Before(log', batch[n][k]) \subseteq ToSet(remote') \cup {batch[n][m] : m \in 1..(k - 1)}
  <1>1. Before(log', batch[n][k]) = Before(log, batch[n][k])
    BY EarlierSame DEF Known
  <1>2. Before(log, batch[n][k]) \subseteq ToSet(remote) \cup {batch[n][m] : m \in 1..(k - 1)}
    BY DEF BatchInv, Earlier
  <1> QED
    BY <1>1, <1>2, RemoteGrows

(* What precedes an event of a batch is at the sink or earlier in it.      *)
LEMMA BatchStep ==
  TypeOK /\ ControlInv /\ Distinct /\ Known /\ BatchInv /\ CursorDelivered /\ [Next]_vars => BatchInv'
  <1> SUFFICES ASSUME TypeOK, ControlInv, Distinct, Known, BatchInv, CursorDelivered, [Next]_vars,
                      NEW n \in Call, NEW k \in DOMAIN batch'[n]
               PROVE  Before(log', batch'[n][k]) \subseteq
                        ToSet(remote') \cup {batch'[n][m] : m \in 1..(k - 1)}
    BY DEF BatchInv, Earlier
  <1>1. CASE batch'[n] = batch[n]
    BY <1>1, OldBatch
  <1>2. ASSUME NEW c \in Client, SendBatch(c), n = call[c]
        PROVE  Before(log', batch'[n][k]) \subseteq
                 ToSet(remote') \cup {batch'[n][m] : m \in 1..(k - 1)}
    <2>1. UNCHANGED <<log, remote>> /\ CursorKnown /\ batch'[n] = Pending(log)
      BY <1>2 DEF SendBatch, ReadLog, TypeOK
    <2> QED
      BY <2>1, BatchSent DEF Earlier
  <1>3. batch'[n] = batch[n] \/ \E c \in Client : SendBatch(c) /\ n = call[c]
    <2>1. ASSUME NEW c \in Client, SendBatch(c), n # call[c] PROVE batch'[n] = batch[n]
      BY <2>1 DEF SendBatch, TypeOK
    <2>2. ASSUME NEW m \in Call, AcceptEvent(m) PROVE batch' = batch
      BY <2>2 DEF AcceptEvent
    <2> QED
      BY <2>1, <2>2, QuietCases DEF Quiet
  <1> QED
    BY <1>1, <1>2, <1>3

(* The cursor is behind the batch that will move it: whoever writes it     *)
(* holds the lock, and leaves it with the batch delivered.                 *)
LEMMA AheadStep ==
  IInv /\ [Next]_vars => AheadInv'
  <1> SUFFICES ASSUME IInv, [Next]_vars,
                      cursor' # None, NEW c \in Client, pc'[c] \in {"await", "write"},
                      NEW k \in DOMAIN batch'[call'[c]]
               PROVE  cursor' \in Before(log', batch'[call'[c]][k])
    BY DEF AheadInv, Earlier
  <1> TypeOK /\ ControlInv /\ Distinct /\ Known /\ BatchInv /\ AheadInv /\ CursorDelivered
    BY DEF IInv
  <1>1. ASSUME NEW d \in Client, WriteCursor(d) PROVE FALSE
    BY <1>1 DEF WriteCursor, Leave, Goto, ControlInv, LockInv, Inside, TypeOK
  <1>2. CASE SendBatch(c)
    <2>1. /\ UNCHANGED <<log, cursor, call>> /\ CursorKnown
          /\ call[c] \in Call /\ batch'[call[c]] = Pending(log)
      BY <1>2 DEF SendBatch, ReadLog, TypeOK, ControlInv, CallInv, Call
    <2> QED
      BY <2>1, BatchSent DEF Earlier
  <1>3. ASSUME ~SendBatch(c)
        PROVE  /\ cursor' = cursor /\ pc[c] \in {"await", "write"}
               /\ call'[c] = call[c] /\ call[c] \in Call
               /\ batch'[call[c]] = batch[call[c]]
    <2>1. call'[c] = call[c] /\ pc[c] \in {"await", "write"} /\ cursor' = cursor
      <3>1. ASSUME NEW d \in Client, Move(d)
            PROVE  call'[c] = call[c] /\ pc[c] \in {"await", "write"} /\ cursor' = cursor
        BY <3>1 DEF Move, Begin, Lock, VerifyChain, NothingToSend, LedgerUnusable, ReceiptChecked,
                    Stop, Leave, Goto, TypeOK
      <3>2. ASSUME NEW d \in Client, SendBatch(d)
            PROVE  FALSE
        BY <1>3, <3>2 DEF SendBatch, Goto, TypeOK, ControlInv, LockInv, Inside
      <3>3. ASSUME NEW n \in Call, AcceptEvent(n)
            PROVE  call'[c] = call[c] /\ pc[c] \in {"await", "write"} /\ cursor' = cursor
        BY <3>3 DEF AcceptEvent, site
      <3>4. ASSUME SiteLedger \/ UNCHANGED vars
            PROVE  call'[c] = call[c] /\ pc[c] \in {"await", "write"} /\ cursor' = cursor
        BY <3>4 DEF SiteLedger, vars, site
      <3> QED
        BY <1>1, <3>1, <3>2, <3>3, <3>4, NextCases
    <2>2. call[c] \in Call
      BY <2>1 DEF ControlInv, CallInv, TypeOK, Call
    <2>3. ASSUME NEW d \in Client, SendBatch(d) PROVE batch'[call[c]] = batch[call[c]]
      BY <1>3, <2>1, <2>3 DEF SendBatch, TypeOK, ControlInv, LockInv, Inside
    <2>4. ASSUME NEW n \in Call, AcceptEvent(n) PROVE batch' = batch
      BY <2>4 DEF AcceptEvent
    <2> QED
      BY <2>1, <2>2, <2>3, <2>4, QuietCases DEF Quiet
  <1>4. CASE ~SendBatch(c)
    <2>1. cursor \in Before(log, batch[call[c]][k])
      BY <1>3, <1>4 DEF AheadInv, Earlier
    <2>2. Before(log', batch[call[c]][k]) = Before(log, batch[call[c]][k])
      BY <1>3, <1>4, OldBatch
    <2> QED
      BY <1>3, <1>4, <2>1, <2>2
  <1> QED
    BY <1>2, <1>4

(* An event that arrives finds all that precedes it.                       *)
LEMMA DeliveredStep == IInv /\ [Next]_vars => DeliveredInOrder'
  <1> SUFFICES ASSUME IInv, [Next]_vars, NEW i \in DOMAIN remote'
               PROVE  Before(log', remote'[i]) \subseteq {remote'[m] : m \in 1..(i - 1)}
    BY DEF DeliveredInOrder, Earlier
  <1> TypeOK /\ Distinct /\ Known /\ BatchInv /\ AcceptedInv /\ DeliveredInOrder
    BY DEF IInv
  <1>1. ASSUME i \in DOMAIN remote, remote'[i] = remote[i],
               \A m \in DOMAIN remote : remote'[m] = remote[m]
        PROVE  Before(log', remote'[i]) \subseteq {remote'[m] : m \in 1..(i - 1)}
    <2>1. Before(log', remote[i]) = Before(log, remote[i])
      BY <1>1, EarlierSame DEF Known
    <2>2. Before(log, remote[i]) \subseteq {remote[m] : m \in 1..(i - 1)}
      BY <1>1 DEF DeliveredInOrder, Earlier
    <2>3. \A m \in 1..(i - 1) : m \in DOMAIN remote
      BY <1>1 DEF TypeOK
    <2> QED
      BY <1>1, <2>1, <2>2, <2>3
  <1>2. ASSUME NEW n \in Call, AcceptEvent(n)
        PROVE  Before(log', remote'[i]) \subseteq {remote'[m] : m \in 1..(i - 1)}
    <2> DEFINE k == accepted[n] + 1
    <2>1. /\ k \in DOMAIN batch[n] /\ batch' = batch
          /\ remote' \in Seq(Event) /\ Len(remote') = Len(remote) + 1
          /\ remote'[Len(remote) + 1] = batch[n][k]
          /\ \A m \in DOMAIN remote : m \in DOMAIN remote' /\ remote'[m] = remote[m]
      BY <1>2, AcceptCases
    <2>2. CASE i \in DOMAIN remote
      BY <1>1, <2>1, <2>2
    <2>3. CASE i = Len(remote) + 1
      <3>1. Before(log', batch[n][k]) = Before(log, batch[n][k])
        BY <2>1, EarlierSame DEF Known
      <3>2. Before(log, batch[n][k]) \subseteq ToSet(remote) \cup {batch[n][m] : m \in 1..(k - 1)}
        BY <2>1 DEF BatchInv, Earlier
      <3>3. \A m \in 1..(k - 1) : batch[n][m] \in ToSet(remote)
        BY DEF AcceptedInv, TypeOK
      <3>4. ToSet(remote) \subseteq {remote'[m] : m \in 1..(i - 1)}
        BY <2>1, <2>3 DEF ToSet, TypeOK
      <3> QED
        BY <2>1, <2>3, <3>1, <3>2, <3>3, <3>4
    <2>4. i \in DOMAIN remote \/ i = Len(remote) + 1
      BY <2>1 DEF TypeOK
    <2> QED
      BY <2>2, <2>3, <2>4
  <1>3. CASE remote' = remote
    BY <1>1, <1>3
  <1> QED
    BY <1>2, <1>3, QuietCases DEF Quiet, SendBatch

(* A cursor that is written names the last event of a batch that has been  *)
(* delivered.                                                              *)
LEMMA CursorWritten ==
  ASSUME IInv, NEW c \in Client, WriteCursor(c)
  PROVE  /\ Before(log, cursor') \cup {cursor'} \subseteq ToSet(remote)
         /\ cursor # None => cursor \in Before(log, cursor')
  <1> TypeOK /\ ControlInv /\ BatchInv /\ AcceptedInv /\ AheadInv
    BY DEF IInv
  <1> DEFINE b == batch[call[c]]
             k == Len(b)
  <1>1. call[c] \in Call /\ pc[c] = "write"
    BY DEF WriteCursor, ControlInv, CallInv, TypeOK, Call
  <1>2. b \in Seq(Event) /\ b # << >> /\ accepted[call[c]] = k
    BY <1>1 DEF ControlInv, SentInv, TypeOK
  <1>3. k \in DOMAIN b /\ cursor' = b[k]
    BY <1>2, EmptySeq DEF WriteCursor, Last
  <1>4. \A m \in 1..k : b[m] \in ToSet(remote)
    BY <1>1, <1>2 DEF AcceptedInv
  <1>5. Before(log, b[k]) \subseteq ToSet(remote) \cup {b[m] : m \in 1..(k - 1)}
    BY <1>1, <1>3 DEF BatchInv, Earlier
  <1>6. \A m \in 1..(k - 1) : m \in 1..k
    BY <1>2, <1>3
  <1>7. Before(log, b[k]) \cup {b[k]} \subseteq ToSet(remote)
    BY <1>2, <1>3, <1>4, <1>5, <1>6
  <1>8. cursor # None => cursor \in Before(log, b[k])
    BY <1>1, <1>3 DEF AheadInv, Earlier
  <1> QED
    BY <1>3, <1>7, <1>8

(* The cursor changes by being written, with the ledger as it is.          *)
LEMMA CursorCases ==
  ASSUME [Next]_vars
  PROVE  cursor' = cursor \/ \E c \in Client : WriteCursor(c) /\ UNCHANGED <<log, remote>>
  BY NextCases, MoveFrame DEF SendBatch, WriteCursor, AcceptEvent, SiteLedger, vars, logVars, site, sink

(* The cursor stays over delivered events.                                 *)
LEMMA CursorStep == IInv /\ [Next]_vars => CursorDelivered'
  <1> SUFFICES ASSUME IInv, [Next]_vars, cursor' # None
               PROVE  Before(log', cursor') \cup {cursor'} \subseteq ToSet(remote')
    BY DEF CursorDelivered, Earlier
  <1> TypeOK /\ Distinct /\ Known /\ CursorDelivered
    BY DEF IInv
  <1>1. CASE cursor' = cursor
    <2>1. Before(log, cursor) \cup {cursor} \subseteq ToSet(remote)
      BY <1>1 DEF CursorDelivered, Earlier
    <2>2. ~damaged => cursor \in EventsOf(log)
      BY <2>1 DEF Known, ToSet
    <2> QED
      BY <1>1, <2>1, <2>2, EarlierSame, RemoteGrows
  <1>2. CASE \E c \in Client : WriteCursor(c) /\ UNCHANGED <<log, remote>>
    BY <1>2, CursorWritten
  <1> QED
    BY <1>1, <1>2, CursorCases
-----------------------------------------------------------------------------
(* The inductive invariant holds in every reachable state.                 *)
THEOREM Invariance == Spec => []IInv
  <1>1. Init => IInv
    <2> SUFFICES ASSUME Init PROVE IInv
      OBVIOUS
    <2>1. /\ log = << >> /\ remote = << >> /\ cursor = None /\ ~damaged
          /\ \A c \in Client : pc[c] = "idle" /\ holder # c
          /\ \A n \in Call : batch[n] = << >> /\ accepted[n] = 0
      BY NoneAssumption DEF Init, LogInit
    <2>2. TypeOK
      <3>1. << >> \in Seq(Event) /\ Len(<< >>) = 0
        BY EmptySeq
      <3>2. /\ log \in Seq(Event) /\ seen \in Seq(Event) /\ remote \in Seq(Event)
            /\ batch \in [Call -> Seq(Event)] /\ damaged \in BOOLEAN /\ cut \in BOOLEAN
        BY <3>1 DEF Init, LogInit
      <3>3. /\ cursor \in Event \cup {None} /\ holder \in Client \cup {None}
            /\ pc \in [Client -> {"idle", "lock", "verify", "read", "await", "write"}]
            /\ call \in [Client -> 0..MaxCalls] /\ calls \in 0..MaxCalls
            /\ accepted \in [Call -> 0..Limit]
        BY LimitAssumption DEF Init
      <3>4. \A n \in Call : Len(batch[n]) <= Limit /\ accepted[n] <= Len(batch[n])
        BY <2>1, <3>1, LimitAssumption
      <3> QED
        BY <3>2, <3>3, <3>4 DEF TypeOK
    <2>3. ControlInv
      BY <2>1 DEF ControlInv, LockInv, CallInv, FreshInv, SentInv, Inside
    <2>4. Distinct /\ Known /\ BatchInv /\ AcceptedInv
      BY <2>1 DEF Distinct, Known, BatchInv, AcceptedInv
    <2>5. AheadInv /\ DeliveredInOrder /\ CursorDelivered
      BY <2>1 DEF AheadInv, DeliveredInOrder, CursorDelivered
    <2> QED
      BY <2>2, <2>3, <2>4, <2>5 DEF IInv
  <1>2. IInv /\ [Next]_vars => IInv'
    BY TypeStep, ControlStep, DistinctStep, KnownStep, BatchStep, AcceptedStep, AheadStep,
       DeliveredStep, CursorStep DEF IInv
  <1> QED
    BY <1>1, <1>2, PTL DEF Spec

(* Type correctness for all constants.                                     *)
THEOREM TypeCorrect == Spec => []TypeOK
  BY Invariance, PTL DEF IInv

(* No gap and no swap: when an event reaches the sink, all events the site *)
(* recorded before it have been there already.                             *)
THEOREM AlwaysDeliveredInOrder == Spec => []DeliveredInOrder
  BY Invariance, PTL DEF IInv

(* The cursor never passes an event the sink does not have.                *)
THEOREM CursorAlwaysDelivered == Spec => []CursorDelivered
  BY Invariance, PTL DEF IInv

(* No call, however late, moves the cursor back.                           *)
THEOREM CursorAlwaysAdvances == Spec => CursorAdvances
  <1>1. IInv /\ [Next]_vars => [cursor # None => cursor \in Earlier(cursor')]_cursor
    BY CursorCases, CursorWritten DEF Earlier
  <1> QED
    BY <1>1, Invariance, PTL DEF Spec, CursorAdvances
-----------------------------------------------------------------------------
(* From here on: the sink gets an event twice only after a cut.  Until     *)
(* then only the call that waits for a receipt has anything left to be     *)
(* accepted, and none of that has arrived (OpenInv), because all that has  *)
(* arrived is behind the cursor or in the batch of that call (ReachInv).   *)

(* A batch has its events in the order of the ledger.                      *)
OrderInv ==
  \A n \in Call : \A m, k \in DOMAIN batch[n] : m < k => batch[n][m] \in Earlier(batch[n][k])

Waiting(c) == pc[c] \in {"await", "write"}

Passed(e) == cursor # None /\ (e = cursor \/ e \in Earlier(cursor))

ReachInv ==
  ~cut => \A e \in ToSet(remote) :
            Passed(e) \/ \E c \in Client : Waiting(c) /\ e \in ToSet(batch[call[c]])

OpenInv ==
  ~cut => \A n \in Call : accepted[n] < Len(batch[n]) =>
            /\ \E c \in Client : pc[c] = "await" /\ call[c] = n
            /\ \A k \in DOMAIN batch[n] : k > accepted[n] => batch[n][k] \notin ToSet(remote)

OnceInv == ~cut => IsFiniteSet(ToSet(remote)) /\ Len(remote) = Cardinality(ToSet(remote))

SendInv == OrderInv /\ ReachInv /\ OpenInv /\ OnceInv

(* No event precedes itself, and what precedes is ordered.                 *)
LEMMA BeforeOrders ==
  ASSUME NEW l \in Seq(Event), NEW a, NEW b, NEW e
  PROVE  /\ e \notin Before(l, e)
         /\ a \in Before(l, b) /\ b \in Before(l, e) => a \in Before(l, e)
  <1>1. e \notin Before(l, e)
    BY DEF Before
  <1>2. ASSUME a \in Before(l, b), b \in Before(l, e) PROVE a \in Before(l, e)
    <2>1. PICK j \in DOMAIN l : a = l[j] /\ \A i \in 1..j : l[i] # b
      BY <1>2 DEF Before
    <2>2. PICK q \in DOMAIN l : b = l[q] /\ \A i \in 1..q : l[i] # e
      BY <1>2 DEF Before
    <2>3. \A i \in 1..j : i \in 1..q
      BY <2>1, <2>2
    <2> QED
      BY <2>1, <2>2, <2>3 DEF Before
  <1> QED
    BY <1>1, <1>2

(* No two calls wait for a receipt.                                        *)
LEMMA OneWaits ==
  ASSUME ControlInv, NoneAssumption, NEW c \in Client, NEW d \in Client,
         Waiting(c), pc[d] \in Inside
  PROVE  c = d
  BY DEF Waiting, ControlInv, LockInv, Inside

(* A batch that is sent is in order, and new behind the cursor.            *)
LEMMA OrderSent ==
  ASSUME TypeOK, Distinct, CursorKnown, NEW k \in DOMAIN Pending(log)
  PROVE  /\ \A m \in DOMAIN Pending(log) : m < k => Pending(log)[m] \in Earlier(Pending(log)[k])
         /\ ~Passed(Pending(log)[k])
  <1> DEFINE p == Position(log)
             b == Pending(log)
  <1>1. /\ log \in Seq(Event) /\ p \in 0..Len(log) /\ b \in Seq(Event) /\ k \in 1..Len(b)
        /\ Len(b) <= Len(log) - p
        /\ \A m \in 1..Len(b) : b[m] = log[p + m]
    <2>1. log \in Seq(Event) /\ p \in 0..Len(log)
      BY PositionProperties DEF TypeOK
    <2>2. /\ b \in Seq(Event) /\ Len(b) <= Len(log) - p
          /\ \A m \in 1..Len(b) : b[m] = log[p + m]
      BY PendingProperties
    <2> HIDE DEF p, b
    <2>3. k \in 1..Len(b)
      BY <2>2 DEF b
    <2> QED
      BY <2>1, <2>2, <2>3
  <1>2. cursor # None => p > 0 /\ log[p] = cursor
    BY PositionProperties
  <1> HIDE DEF p, b
  <1>3. p + k \in DOMAIN log /\ b[k] = log[p + k]
    BY <1>1
  <1>4. Before(log, b[k]) = {log[j] : j \in 1..(p + k - 1)}
    BY <1>1, <1>3, EarlierOfElement
  <1>5. ASSUME NEW m \in DOMAIN b, m < k PROVE b[m] \in Before(log, b[k])
    <2>1. p \in Nat /\ k \in Nat /\ m \in 1..Len(b) /\ Len(b) \in Nat
      BY <1>1
    <2>2. p + m \in 1..(p + k - 1)
      BY <1>5, <2>1
    <2>3. b[m] = log[p + m]
      BY <1>1, <2>1
    <2> QED
      BY <1>4, <2>2, <2>3
  <1>6. ASSUME cursor # None PROVE b[k] # cursor /\ b[k] \notin Before(log, cursor)
    <2>1. Before(log, cursor) = {log[j] : j \in 1..(p - 1)} /\ p \in DOMAIN log
      BY <1>1, <1>2, <1>6, EarlierOfElement
    <2>2. \A j \in 1..p : j \in DOMAIN log /\ j # p + k
      BY <1>1
    <2>3. \A j \in 1..p : log[j] # b[k]
      BY <1>3, <2>2 DEF Distinct
    <2>4. p \in 1..p /\ \A j \in 1..(p - 1) : j \in 1..p
      BY <1>1, <1>2, <1>6
    <2> QED
      BY <1>2, <1>6, <2>1, <2>3, <2>4
  <1> QED
    BY <1>5, <1>6 DEF b, Earlier, Passed

LEMMA OrderStep == IInv /\ OrderInv /\ [Next]_vars => OrderInv'
  <1> SUFFICES ASSUME IInv, OrderInv, [Next]_vars, NEW n \in Call,
                      NEW m \in DOMAIN batch'[n], NEW k \in DOMAIN batch'[n], m < k
               PROVE  batch'[n][m] \in Before(log', batch'[n][k])
    BY DEF OrderInv, Earlier
  <1> TypeOK /\ Distinct /\ Known /\ BatchInv
    BY DEF IInv
  <1>1. CASE batch'[n] = batch[n]
    <2>1. Before(log', batch[n][k]) = Before(log, batch[n][k])
      BY <1>1, OldBatch
    <2>2. batch[n][m] \in Before(log, batch[n][k])
      BY <1>1 DEF OrderInv, Earlier
    <2> QED
      BY <1>1, <2>1, <2>2
  <1>2. ASSUME NEW c \in Client, SendBatch(c), n = call[c]
        PROVE  batch'[n][m] \in Before(log', batch'[n][k])
    <2>1. log' = log /\ CursorKnown /\ batch'[n] = Pending(log)
      BY <1>2 DEF SendBatch, ReadLog, TypeOK
    <2> QED
      BY <2>1, OrderSent DEF Earlier
  <1>3. batch'[n] = batch[n] \/ \E c \in Client : SendBatch(c) /\ n = call[c]
    <2>1. ASSUME NEW c \in Client, SendBatch(c), n # call[c] PROVE batch'[n] = batch[n]
      BY <2>1 DEF SendBatch, TypeOK
    <2>2. ASSUME NEW q \in Call, AcceptEvent(q) PROVE batch' = batch
      BY <2>2 DEF AcceptEvent
    <2> QED
      BY <2>1, <2>2, QuietCases DEF Quiet
  <1> QED
    BY <1>1, <1>2, <1>3

(* A cut is remembered.                                                    *)
LEMMA CutStays ==
  ASSUME [Next]_vars, TypeOK
  PROVE  cut => cut'
  BY DEF Next, Begin, Lock, VerifyChain, SendBatch, NothingToSend, LedgerUnusable, ReceiptChecked,
         WriteCursor, Stop, AcceptEvent, SiteLedger, vars, TypeOK

(* Whoever waits goes on waiting, or there is a cut.                       *)
LEMMA WaitingStays ==
  ASSUME TypeOK, ControlInv, ~cut', NEW c \in Client, Move(c), NEW d \in Client, Waiting(d)
  PROVE  /\ Waiting(d)' /\ call'[d] = call[d]
         /\ pc[d] = "await" /\ accepted[call[d]] < Len(batch[call[d]]) => pc'[d] = "await"
  <1>1. pc \in [Client -> {"idle", "lock", "verify", "read", "await", "write"}]
        /\ call \in [Client -> 0..MaxCalls]
    BY DEF TypeOK
  <1>2. CASE d # c
    BY <1>1, <1>2 DEF Move, Begin, Lock, VerifyChain, NothingToSend, LedgerUnusable, ReceiptChecked,
                      Stop, Leave, Goto, Waiting
  <1>3. CASE d = c
    <2>1. ReceiptChecked(c)
      BY <1>3 DEF Move, Begin, Lock, VerifyChain, NothingToSend, LedgerUnusable, Stop, Waiting
    <2>2. accepted[call[c]] = Len(batch[call[c]])
      BY <2>1 DEF ReceiptChecked, CompleteReceipt
    <2>3. call[c] \in Call /\ accepted[call[c]] \in Nat
      BY <2>1 DEF ReceiptChecked, ControlInv, CallInv, TypeOK, Call
    <2>4. ~(accepted[call[c]] < Len(batch[call[c]]))
      BY <2>2, <2>3
    <2> QED
      BY <1>1, <1>3, <2>1, <2>4 DEF ReceiptChecked, Goto, Waiting
  <1> QED
    BY <1>2, <1>3

(* What has arrived is behind the cursor or in the batch that is waited    *)
(* for.                                                                    *)
LEMMA ReachStep ==
  IInv /\ OrderInv /\ ReachInv /\ OpenInv /\ [Next]_vars => ReachInv'
  <1> SUFFICES ASSUME IInv, OrderInv, ReachInv, OpenInv, [Next]_vars, ~cut', NEW e \in ToSet(remote')
               PROVE  \/ Passed(e)'
                      \/ \E c \in Client : Waiting(c)' /\ e \in ToSet(batch'[call'[c]])
    BY DEF ReachInv
  <1> TypeOK /\ ControlInv /\ Distinct /\ Known /\ CursorDelivered
    BY DEF IInv
  <1> USE NoneAssumption
  <1>1. ~cut
    BY CutStays
  <1>2. ASSUME e \in ToSet(remote), Passed(e), cursor' = cursor PROVE Passed(e)'
    <2>1. ~damaged => cursor \in EventsOf(log)
      BY <1>2 DEF Passed, CursorDelivered, Known, ToSet
    <2>2. Before(log', cursor) = Before(log, cursor)
      BY <2>1, EarlierSame
    <2> QED
      BY <1>2, <2>2 DEF Passed, Earlier
  <1>3. ASSUME NEW c \in Client, Move(c)
        PROVE  \/ Passed(e)'
               \/ \E d \in Client : Waiting(d)' /\ e \in ToSet(batch'[call'[d]])
    <2>1. UNCHANGED <<cursor, batch, remote>>
      BY <1>3, MoveFrame
    <2>2. CASE Passed(e)
      BY <1>2, <2>1, <2>2
    <2>3. CASE \E d \in Client : Waiting(d) /\ e \in ToSet(batch[call[d]])
      <3>1. PICK d \in Client : Waiting(d) /\ e \in ToSet(batch[call[d]])
        BY <2>3
      <3>2. Waiting(d)' /\ call'[d] = call[d]
        BY <1>3, <3>1, WaitingStays
      <3> QED
        BY <2>1, <3>1, <3>2
    <2> QED
      BY <1>1, <2>1, <2>2, <2>3 DEF ReachInv
  <1>4. ASSUME NEW c \in Client, SendBatch(c) PROVE Passed(e)'
    <2>1. UNCHANGED <<cursor, remote>> /\ pc[c] = "read"
      BY <1>4 DEF SendBatch
    <2>2. \A d \in Client : ~Waiting(d)
      BY <2>1, OneWaits DEF Waiting, Inside
    <2> QED
      BY <1>1, <1>2, <2>1, <2>2 DEF ReachInv
  <1>5. ASSUME NEW c \in Client, WriteCursor(c) PROVE Passed(e)'
    <2> DEFINE b == batch[call[c]]
    <2>1. /\ call[c] \in Call /\ pc[c] = "write" /\ cursor' = Last(b)
          /\ UNCHANGED <<log, remote>>
      BY <1>5 DEF WriteCursor, ControlInv, CallInv, TypeOK, Call, logVars, sink
    <2>2. b \in Seq(Event) /\ b # << >> /\ cursor' = b[Len(b)] /\ Len(b) \in DOMAIN b
      BY <2>1, EmptySeq DEF ControlInv, SentInv, TypeOK, Last
    <2>3. cursor' # None
      BY <2>2
    <2>4. CASE Passed(e)
      <3>1. cursor \in Before(log, cursor')
        BY <1>5, <2>4, CursorWritten DEF Passed
      <3>2. e \in Before(log, cursor')
        BY <2>4, <3>1, BeforeOrders DEF Passed, Earlier, TypeOK
      <3> QED
        BY <2>1, <2>3, <3>2 DEF Passed, Earlier
    <2>5. CASE \E d \in Client : Waiting(d) /\ e \in ToSet(batch[call[d]])
      <3>1. e \in ToSet(b)
        BY <2>1, <2>5, OneWaits DEF Inside
      <3>2. PICK k \in DOMAIN b : e = b[k]
        BY <3>1 DEF ToSet
      <3>3. k = Len(b) \/ k < Len(b)
        BY <2>2
      <3>4. k < Len(b) => e \in Before(log, b[Len(b)])
        BY <2>1, <2>2, <3>2 DEF OrderInv, Earlier
      <3> QED
        BY <2>1, <2>2, <2>3, <3>2, <3>3, <3>4 DEF Passed, Earlier
    <2> QED
      BY <1>1, <2>1, <2>4, <2>5 DEF ReachInv
  <1>6. ASSUME NEW n \in Call, AcceptEvent(n)
        PROVE  \/ Passed(e)'
               \/ \E d \in Client : Waiting(d)' /\ e \in ToSet(batch'[call'[d]])
    <2> DEFINE k == accepted[n] + 1
    <2>1. /\ k \in DOMAIN batch[n] /\ ToSet(remote') = ToSet(remote) \cup {batch[n][k]}
          /\ UNCHANGED <<cursor, batch, pc, call>>
      BY <1>6, AcceptCases
    <2>2. CASE e \in ToSet(remote)
      BY <1>1, <1>2, <2>1, <2>2 DEF ReachInv, Waiting
    <2>3. CASE e = batch[n][k]
      <3>1. PICK c \in Client : pc[c] = "await" /\ call[c] = n
        BY <1>1, <1>6 DEF OpenInv, AcceptEvent
      <3> QED
        BY <2>1, <2>3, <3>1 DEF Waiting, ToSet
    <2> QED
      BY <2>1, <2>2, <2>3
  <1>7. ASSUME SiteLedger \/ UNCHANGED vars
        PROVE  \/ Passed(e)'
               \/ \E d \in Client : Waiting(d)' /\ e \in ToSet(batch'[call'[d]])
    <2>1. UNCHANGED <<cursor, pc, call, batch, remote>>
      BY <1>7 DEF SiteLedger, vars, site, sink
    <2> QED
      BY <1>1, <1>2, <2>1 DEF ReachInv, Waiting
  <1> QED
    BY <1>3, <1>4, <1>5, <1>6, <1>7, NextCases

(* Nothing is left to be accepted but new events of the batch that is      *)
(* waited for.                                                             *)
LEMMA OpenStep ==
  IInv /\ OrderInv /\ ReachInv /\ OpenInv /\ [Next]_vars => OpenInv'
  <1> SUFFICES ASSUME IInv, OrderInv, ReachInv, OpenInv, [Next]_vars, ~cut',
                      NEW n \in Call, accepted'[n] < Len(batch'[n])
               PROVE  /\ \E c \in Client : pc'[c] = "await" /\ call'[c] = n
                      /\ \A k \in DOMAIN batch'[n] :
                           k > accepted'[n] => batch'[n][k] \notin ToSet(remote')
    BY DEF OpenInv
  <1> TypeOK /\ ControlInv /\ Distinct
    BY DEF IInv
  <1> USE NoneAssumption
  <1> DEFINE Goal == /\ \E c \in Client : pc'[c] = "await" /\ call'[c] = n
                     /\ \A k \in DOMAIN batch'[n] :
                          k > accepted'[n] => batch'[n][k] \notin ToSet(remote')
  <1>1. ~cut
    BY CutStays
  <1>2. ASSUME Quiet,
               \A d \in Client : pc[d] = "await" /\ call[d] = n => pc'[d] = "await" /\ call'[d] = n
        PROVE  Goal
    BY <1>1, <1>2 DEF OpenInv, Quiet
  <1>3. ASSUME NEW c \in Client, Move(c) PROVE Goal
    <2>1. Quiet
      BY <1>3, MoveFrame DEF Quiet
    <2>2. accepted[n] < Len(batch[n])
      BY <2>1 DEF Quiet
    <2>3. \A d \in Client : pc[d] = "await" /\ call[d] = n => pc'[d] = "await" /\ call'[d] = n
      BY <1>3, <2>2, WaitingStays DEF Waiting
    <2> QED
      BY <1>2, <2>1, <2>3
  <1>4. ASSUME NEW c \in Client, WriteCursor(c) PROVE Goal
    <2>1. Quiet
      BY <1>4 DEF WriteCursor, sink, Quiet
    <2>2. \A d \in Client : pc[d] = "await" /\ call[d] = n => pc'[d] = "await" /\ call'[d] = n
      BY <1>4 DEF WriteCursor, Leave, Goto, TypeOK
    <2> QED
      BY <1>2, <2>1, <2>2
  <1>5. ASSUME SiteLedger \/ UNCHANGED vars PROVE Goal
    BY <1>2, <1>5 DEF SiteLedger, vars, site, sink, Quiet
  <1>6. ASSUME NEW c \in Client, SendBatch(c) PROVE Goal
    <2>1. /\ pc[c] = "read" /\ pc'[c] = "await" /\ call' = call /\ call[c] \in Call
          /\ batch' = [batch EXCEPT ![call[c]] = Pending(log)] /\ CursorKnown
          /\ UNCHANGED <<accepted, remote>>
      BY <1>6 DEF SendBatch, Goto, TypeOK, ControlInv, CallInv, Call
    <2>2. \A d \in Client : ~Waiting(d)
      BY <2>1, OneWaits DEF Waiting, Inside
    <2>3. n = call[c]
      <3> SUFFICES ASSUME n # call[c] PROVE FALSE
        OBVIOUS
      <3>1. batch'[n] = batch[n]
        BY <2>1 DEF TypeOK
      <3> QED
        BY <1>1, <2>1, <2>2, <3>1 DEF OpenInv, Waiting
    <2>4. batch'[n] = Pending(log)
      BY <2>1, <2>3 DEF TypeOK
    <2>5. \A e \in ToSet(remote) : Passed(e)
      BY <1>1, <2>2 DEF ReachInv
    <2>6. \A k \in DOMAIN Pending(log) : ~Passed(Pending(log)[k])
      BY <2>1, OrderSent
    <2> QED
      BY <2>1, <2>3, <2>4, <2>5, <2>6
  <1>7. ASSUME NEW m \in Call, AcceptEvent(m) PROVE Goal
    <2> DEFINE a == accepted[m] + 1
    <2>1. /\ a \in DOMAIN batch[m] /\ accepted' = [accepted EXCEPT ![m] = a]
          /\ ToSet(remote') = ToSet(remote) \cup {batch[m][a]}
          /\ UNCHANGED <<batch, pc, call>>
      BY <1>7, AcceptCases
    <2>2. accepted[m] < Len(batch[m])
      BY <1>7 DEF AcceptEvent
    <2>3. PICK d \in Client : pc[d] = "await" /\ call[d] = m
      BY <1>1, <2>2 DEF OpenInv
    <2>4. n = m
      <3> SUFFICES ASSUME n # m PROVE FALSE
        OBVIOUS
      <3>1. accepted[n] < Len(batch[n])
        BY <2>1 DEF TypeOK
      <3>2. PICK c \in Client : pc[c] = "await" /\ call[c] = n
        BY <1>1, <3>1 DEF OpenInv
      <3>3. c = d
        BY <2>3, <3>2, OneWaits DEF Waiting, Inside
      <3> QED
        BY <2>3, <3>2, <3>3
    <2>5. accepted'[n] = a /\ accepted[n] \in Nat
      BY <2>1, <2>4 DEF TypeOK
    <2>6. batch[n] \in Seq(Event)
      BY DEF TypeOK
    <2>7. ASSUME NEW k \in DOMAIN batch[n], k > a PROVE batch[n][k] \notin ToSet(remote')
      <3>1. batch[n][k] \notin ToSet(remote)
        BY <1>1, <2>2, <2>4, <2>5, <2>6, <2>7 DEF OpenInv
      <3>2. batch[n][a] \in Before(log, batch[n][k])
        BY <2>1, <2>4, <2>7 DEF OrderInv, Earlier
      <3>3. batch[n][k] # batch[n][a]
        BY <3>2, BeforeOrders DEF TypeOK
      <3> QED
        BY <2>1, <2>4, <3>1, <3>3
    <2> HIDE DEF a
    <2> QED
      BY <2>1, <2>3, <2>4, <2>5, <2>7
  <1> QED
    BY <1>3, <1>4, <1>5, <1>6, <1>7, NextCases

(* So what arrives is new.                                                 *)
LEMMA OnceStep == IInv /\ OpenInv /\ OnceInv /\ [Next]_vars => OnceInv'
  <1> SUFFICES ASSUME IInv, OpenInv, OnceInv, [Next]_vars, ~cut'
               PROVE  IsFiniteSet(ToSet(remote')) /\ Len(remote') = Cardinality(ToSet(remote'))
    BY DEF OnceInv
  <1> TypeOK
    BY DEF IInv
  <1>1. ~cut
    BY CutStays
  <1>2. ASSUME NEW n \in Call, AcceptEvent(n)
        PROVE  IsFiniteSet(ToSet(remote')) /\ Len(remote') = Cardinality(ToSet(remote'))
    <2> DEFINE e == batch[n][accepted[n] + 1]
    <2>1. /\ accepted[n] + 1 \in DOMAIN batch[n] /\ Len(remote') = Len(remote) + 1
          /\ ToSet(remote') = ToSet(remote) \cup {e}
      BY <1>2, AcceptCases
    <2>2. accepted[n] \in Nat /\ accepted[n] < Len(batch[n])
      BY <1>2 DEF AcceptEvent, TypeOK
    <2>3. e \notin ToSet(remote)
      BY <1>1, <2>1, <2>2 DEF OpenInv
    <2> HIDE DEF e
    <2>4. IsFiniteSet(ToSet(remote)) /\ Len(remote) = Cardinality(ToSet(remote))
      BY <1>1 DEF OnceInv
    <2> QED
      BY <2>1, <2>3, <2>4, FS_AddElement
  <1>3. CASE remote' = remote
    BY <1>1, <1>3 DEF OnceInv
  <1> QED
    BY <1>2, <1>3, QuietCases DEF Quiet, SendBatch

(* An event is twice at the sink only after a call that ended between its  *)
(* batch and its cursor: the sink's pace, damage to the ledger and calls   *)
(* that stop earlier send nothing again.                                   *)
THEOREM DuplicatesAlwaysNeedCut == Spec => []DuplicatesNeedCut
  <1>1. Init => SendInv
    <2> SUFFICES ASSUME Init PROVE SendInv
      OBVIOUS
    <2>1. remote = << >> /\ \A n \in Call : batch[n] = << >> /\ accepted[n] = 0
      BY DEF Init
    <2>2. ToSet(remote) = {} /\ Len(remote) = 0
      BY <2>1 DEF ToSet
    <2>3. OrderInv /\ ReachInv /\ OpenInv
      BY <2>1, <2>2 DEF OrderInv, ReachInv, OpenInv
    <2>4. OnceInv
      BY <2>2, FS_EmptySet DEF OnceInv
    <2> QED
      BY <2>3, <2>4 DEF SendInv
  <1>2. IInv /\ SendInv /\ [Next]_vars => SendInv'
    BY OrderStep, ReachStep, OpenStep, OnceStep DEF SendInv
  <1>3. SendInv => DuplicatesNeedCut
    BY DEF SendInv, OnceInv, DuplicatesNeedCut
  <1> QED
    BY <1>1, <1>2, <1>3, Invariance, PTL DEF Spec
=============================================================================
