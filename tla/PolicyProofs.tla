----------------------------- MODULE PolicyProofs -----------------------------
(***************************************************************************)
(* The policy store and the pure algorithms.                               *)
(*                                                                         *)
(* The policy store, for any clients, names and versions: the version that *)
(* active.json gives for a name can be loaded, a name never loses its      *)
(* active version, and the ledger tells which version that is (ToldInv).   *)
(* The first two rest on the two critical sections of a change: the record *)
(* a client is about to activate is published (RecordInv), and what a      *)
(* client has read of active.json is still what it holds when the client   *)
(* replaces it (CopyInv), because the lock is held in between (LockInv).   *)
(*                                                                         *)
(* The algorithms, for any input: a deferred job meets its deadline, a     *)
(* range of a chunked object is read exactly, what is sent of a prompt is  *)
(* what its limit allows, reductions of samples and tables lose nothing,   *)
(* an estimate saves no token twice, and the decision on a unit keeps its  *)
(* contract.  A loop of the code is a recursive function over its steps;   *)
(* UpTo and Iterated, induction and recursion up to a number, are what is  *)
(* needed to reason about one.                                             *)
(***************************************************************************)
EXTENDS PolicyStore, Decisions, SequenceTheorems, FiniteSetTheorems, WellFoundedInduction, TLAPS

(* A client between reading and replacing active.json, and only it, holds  *)
(* the lock.                                                               *)
LockInv == \A c \in Client : pc[c] = "write" <=> holder = c

CopyInv == \A c \in Client : pc[c] = "write" => copy[c] = active

(* What a call knows of its name and version at each point.                *)
CallInv ==
  \A c \in Client :
    /\ pc[c] # "idle" => call[c].name \in Name
    /\ pc[c] \notin {"idle", "read"} => call[c].version \in Version
    /\ pc[c] = "record" => call[c].op = "publish"
    /\ pc[c] \in {"activate", "write"} => call[c].op \in {"publish", "rollback"}
    /\ pc[c] = "audit" => call[c].op \in {"publish", "rollback", "reload"}
    /\ pc[c] = "read" => call[c].op \in {"reload", "resolve"}
    /\ pc[c] = "get" => call[c].op \in {"rollback", "reload", "resolve"}

RecordInv == \A c \in Client : pc[c] \in {"activate", "write"} => HasRecord(c)

IInv == TypeOK /\ LockInv /\ CopyInv /\ CallInv /\ RecordInv /\ ActiveResolvable
-----------------------------------------------------------------------------
Ops == {"publish", "rollback", "reload", "resolve"}

(* The cases of Next.                                                      *)
LEMMA NextCases ==
  ASSUME [Next]_vars
  PROVE  \/ \E c \in Client, op \in Ops, n \in Name, v \in Version \cup {None} :
              /\ op \in {"publish", "rollback"} => v \in Version
              /\ Begin(c, op, n, v)
         \/ \E c \in Client : Step(c) \/ Stop(c)
         \/ UNCHANGED vars
  BY DEF Next, Ops

(* Where each kind of call starts.                                         *)
LEMMA FirstStepCases ==
  ASSUME NEW op \in Ops
  PROVE  \/ op = "publish" /\ FirstStep(op) = "record"
         \/ op = "rollback" /\ FirstStep(op) = "get"
         \/ op \in {"reload", "resolve"} /\ FirstStep(op) = "read"
  BY DEF FirstStep, Ops

(* Types survive every step; CallInv supplies the names and versions.      *)
LEMMA TypeStep == TypeOK /\ CallInv /\ [Next]_vars => TypeOK'
  <1> SUFFICES ASSUME TypeOK, CallInv, [Next]_vars PROVE TypeOK'
    OBVIOUS
  <1> USE DEF TypeOK
  <1>1. ASSUME NEW c \in Client, NEW op \in Ops, NEW n \in Name, NEW v \in Version \cup {None},
               Begin(c, op, n, v)
        PROVE  TypeOK'
    <2>1. FirstStep(op) \in {"record", "get", "read"}
      BY FirstStepCases
    <2>2. calls' \in 0..MaxCalls
      BY <1>1, BoundAssumption DEF Begin
    <2> QED BY <1>1, <2>1, <2>2 DEF Begin, Goto, files, Ops
  <1>2. ASSUME NEW c \in Client, WriteRecord(c) PROVE TypeOK'
    <2>1. <<call[c].name, call[c].version>> \in Name \X Version
      BY <1>2 DEF WriteRecord, CallInv
    <2>2. published' \subseteq Name \X Version
      BY <1>2, <2>1 DEF WriteRecord
    <2> QED BY <1>2, <2>2 DEF WriteRecord, Goto
  <1>3. ASSUME NEW c \in Client, ReadActive(c) PROVE TypeOK'
    <2>1. call[c].name \in Name
      BY <1>3 DEF ReadActive, CallInv
    <2>2. call' \in [Client -> [op : {"none", "publish", "rollback", "reload", "resolve"},
                              name : Name \cup {None}, version : Version \cup {None}]]
      <3>1. active[call[c].name] \in Version \cup {None}
        BY <2>1
      <3>2. call' = [call EXCEPT ![c].version = active[call[c].name]]
        BY <1>3 DEF ReadActive
      <3> DEFINE Calls == [op : {"none", "publish", "rollback", "reload", "resolve"},
                           name : Name \cup {None}, version : Version \cup {None}]
      <3>3. call \in [Client -> Calls] /\ c \in Client
        OBVIOUS
      <3>4. [call[c] EXCEPT !.version = active[call[c].name]] \in Calls
        <4>1. ASSUME NEW k \in Calls, NEW v \in Version \cup {None}
              PROVE  [k EXCEPT !.version = v] \in Calls
          OBVIOUS
        <4>2. call[c] \in Calls
          BY <3>3
        <4> HIDE DEF Calls
        <4> QED BY <3>1, <4>1, <4>2
      <3> HIDE DEF Calls
      <3>5. call' \in [Client -> Calls]
        BY <3>2, <3>3, <3>4
      <3> QED BY <3>5 DEF Calls
    <2> QED BY <1>3, <2>2 DEF ReadActive, Goto, files
  <1>4. ASSUME NEW c \in Client, NoneActive(c) PROVE TypeOK'
    BY <1>4 DEF NoneActive, Leave, Goto, NoCall, NothingActive, files
  <1>5. ASSUME NEW c \in Client, GetRecord(c) PROVE TypeOK'
    BY <1>5 DEF GetRecord, Goto, files
  <1>6. ASSUME NEW c \in Client, NoRecord(c) PROVE TypeOK'
    BY <1>6 DEF NoRecord, Leave, Goto, NoCall, NothingActive, files
  <1>7. ASSUME NEW c \in Client, LoadActive(c) PROVE TypeOK'
    BY <1>7 DEF LoadActive, Goto, files
  <1>8. ASSUME NEW c \in Client, WriteActive(c) PROVE TypeOK'
    BY <1>8 DEF WriteActive, Goto, CallInv, NothingActive
  <1>9. ASSUME NEW c \in Client, AppendAudit(c) PROVE TypeOK'
    <2> DEFINE Events == [op : {"publish", "rollback", "reload"}, version : Version]
    <2>1. AuditEvent(c) \in Seq(Events)
      BY <1>9 DEF AppendAudit, AuditEvent, CallInv
    <2>2. trail[call[c].name] \o AuditEvent(c) \in Seq(Events)
      <3> HIDE DEF Events
      <3>1. trail[call[c].name] \in Seq(Events)
        BY <1>9 DEF AppendAudit, CallInv, Events
      <3> QED BY <2>1, <3>1
    <2>3. trail' \in [Name -> Seq(Events)]
      BY <1>9, <2>2 DEF AppendAudit, CallInv
    <2> QED BY <1>9, <2>3 DEF AppendAudit, Leave, Goto, NoCall, NothingActive, files
  <1>10. ASSUME NEW c \in Client, Return(c) PROVE TypeOK'
    BY <1>10 DEF Return, Leave, Goto, NoCall, NothingActive, files
  <1>11. ASSUME NEW c \in Client, Stop(c) PROVE TypeOK'
    BY <1>11 DEF Stop, Leave, Goto, NoCall, NothingActive, files, CallInv, Changing
  <1>12. CASE UNCHANGED vars
    BY <1>12 DEF vars, files
  <1> QED BY NextCases, <1>1, <1>2, <1>3, <1>4, <1>5, <1>6, <1>7, <1>8, <1>9, <1>10, <1>11, <1>12
          DEF Step

(* Calls know their name and version where they need them.                 *)
LEMMA CallStep == TypeOK /\ CallInv /\ [Next]_vars => CallInv'
  <1> SUFFICES ASSUME TypeOK, CallInv, [Next]_vars, NEW d \in Client
               PROVE  CallInv!(d)'
    BY DEF CallInv
  <1> USE DEF TypeOK, CallInv, Goto, Leave
  <1>1. ASSUME NEW c \in Client, NEW op \in Ops, NEW n \in Name, NEW v \in Version \cup {None},
               op \in {"publish", "rollback"} => v \in Version,
               Begin(c, op, n, v)
        PROVE  CallInv!(d)'
    BY <1>1, FirstStepCases DEF Begin
  <1>2. ASSUME NEW c \in Client, Step(c) PROVE CallInv!(d)'
    <2>1. CASE WriteRecord(c) BY <2>1 DEF WriteRecord
    <2>2. CASE ReadActive(c) BY <2>2 DEF ReadActive
    <2>3. CASE NoneActive(c) \/ NoRecord(c) \/ AppendAudit(c) \/ Return(c)
      BY <2>3 DEF NoneActive, NoRecord, AppendAudit, Return
    <2>4. CASE GetRecord(c) BY <2>4 DEF GetRecord
    <2>5. CASE LoadActive(c) \/ WriteActive(c) BY <2>5 DEF LoadActive, WriteActive
    <2> QED BY <1>2, <2>1, <2>2, <2>3, <2>4, <2>5 DEF Step
  <1>3. ASSUME NEW c \in Client, Stop(c) PROVE CallInv!(d)'
    BY <1>3 DEF Stop
  <1>4. CASE UNCHANGED vars
    BY <1>4 DEF vars
  <1> QED BY NextCases, <1>1, <1>2, <1>3, <1>4

(* The lock is held by the client that is replacing active.json, whose     *)
(* copy is current.                                                        *)
LEMMA LockStep ==
  TypeOK /\ LockInv /\ CopyInv /\ [Next]_vars => LockInv' /\ CopyInv'
  <1> SUFFICES ASSUME TypeOK, LockInv, CopyInv, [Next]_vars
               PROVE  LockInv' /\ CopyInv'
    OBVIOUS
  <1> USE DEF TypeOK, LockInv, CopyInv, Goto, Leave, files
  <1>1. ASSUME NEW c \in Client, NEW op \in Ops, NEW n \in Name, NEW v \in Version \cup {None},
               Begin(c, op, n, v)
        PROVE  LockInv' /\ CopyInv'
    BY <1>1, FirstStepCases DEF Begin
  <1>2. ASSUME NEW c \in Client,
               \/ WriteRecord(c) \/ ReadActive(c) \/ NoneActive(c) \/ GetRecord(c) \/ NoRecord(c)
               \/ AppendAudit(c) \/ Return(c)
        PROVE  LockInv' /\ CopyInv'
    <2>1. pc[c] # "write" /\ pc'[c] # "write" /\ active' = active
      BY <1>2 DEF WriteRecord, ReadActive, NoneActive, GetRecord, NoRecord, AppendAudit, Return
    <2>2. \A d \in Client : d # c => pc'[d] = pc[d] /\ copy'[d] = copy[d]
      BY <1>2 DEF WriteRecord, ReadActive, NoneActive, GetRecord, NoRecord, AppendAudit, Return
    <2>3. holder' = holder
      BY <1>2, <2>1
         DEF WriteRecord, ReadActive, NoneActive, GetRecord, NoRecord, AppendAudit, Return
    <2> QED BY <2>1, <2>2, <2>3
  <1>3. ASSUME NEW c \in Client, LoadActive(c) PROVE LockInv' /\ CopyInv'
    BY <1>3, NoneAssumption DEF LoadActive, MayEnter
  <1>4. ASSUME NEW c \in Client, WriteActive(c) PROVE LockInv' /\ CopyInv'
    BY <1>4, NoneAssumption DEF WriteActive
  <1>5. ASSUME NEW c \in Client, Stop(c) PROVE LockInv' /\ CopyInv'
    BY <1>5, NoneAssumption DEF Stop
  <1>6. CASE UNCHANGED vars
    BY <1>6 DEF vars
  <1> QED BY NextCases, <1>1, <1>2, <1>3, <1>4, <1>5, <1>6 DEF Step

(* What is about to become active, and what is active, is published.       *)
LEMMA RecordStep == IInv /\ [Next]_vars => RecordInv' /\ ActiveResolvable'
  <1> SUFFICES ASSUME IInv, [Next]_vars PROVE RecordInv' /\ ActiveResolvable'
    OBVIOUS
  <1> USE DEF IInv, TypeOK, RecordInv, ActiveResolvable, HasRecord, Goto, Leave, files
  <1>1. ASSUME NEW c \in Client, NEW op \in Ops, NEW n \in Name, NEW v \in Version \cup {None},
               Begin(c, op, n, v)
        PROVE  RecordInv' /\ ActiveResolvable'
    BY <1>1, FirstStepCases DEF Begin
  <1>2. ASSUME NEW c \in Client,
               \/ WriteRecord(c) \/ ReadActive(c) \/ NoneActive(c) \/ GetRecord(c) \/ NoRecord(c)
               \/ LoadActive(c) \/ AppendAudit(c) \/ Return(c)
        PROVE  RecordInv' /\ ActiveResolvable'
    BY <1>2 DEF WriteRecord, ReadActive, NoneActive, GetRecord, NoRecord, LoadActive,
                AppendAudit, Return
  <1>3. ASSUME NEW c \in Client, WriteActive(c) PROVE RecordInv' /\ ActiveResolvable'
    BY <1>3 DEF WriteActive, CopyInv
  <1>4. ASSUME NEW c \in Client, Stop(c) PROVE RecordInv' /\ ActiveResolvable'
    BY <1>4 DEF Stop
  <1>5. CASE UNCHANGED vars
    BY <1>5 DEF vars
  <1> QED BY NextCases, <1>1, <1>2, <1>3, <1>4, <1>5 DEF Step

(* The empty store satisfies the invariant ...                             *)
LEMMA InitIInv == Init => IInv
  BY NoneAssumption, BoundAssumption
  DEF Init, IInv, TypeOK, LockInv, CopyInv, CallInv, RecordInv, ActiveResolvable, NothingActive,
      NoCall

(* ... and every step of every client keeps it.                            *)
THEOREM Invariance == Spec => []IInv
  <1>1. IInv /\ [Next]_vars => IInv'
    BY TypeStep, CallStep, LockStep, RecordStep DEF IInv
  <1> QED BY InitIInv, <1>1, PTL DEF Spec

(* The variables of the policy store always have their types.              *)
THEOREM TypeCorrect == Spec => []TypeOK
  <1>1. IInv => TypeOK
    BY DEF IInv
  <1> QED BY Invariance, <1>1, PTL

(* Whatever clients publish and roll back, and wherever they stop: the     *)
(* version active.json gives for a name can be loaded.                     *)
THEOREM ActiveAlwaysResolvable == Spec => []ActiveResolvable
  <1>1. IInv => ActiveResolvable
    BY DEF IInv
  <1> QED BY Invariance, <1>1, PTL

(* No change of one name, nor an interrupted change, leaves another name   *)
(* without its active version.                                             *)
THEOREM NamesAlwaysStayActive == Spec => NamesStayActive
  <1> DEFINE Others == \A n \in Name : active[n] # None => active'[n] # None
  <1>1. IInv /\ [Next]_vars => [Others]_active
    <2> SUFFICES ASSUME IInv, [Next]_vars, active' # active PROVE Others
      OBVIOUS
    <2>1. PICK c \in Client : WriteActive(c)
      BY NextCases
      DEF Begin, Step, WriteRecord, ReadActive, NoneActive, GetRecord, NoRecord, LoadActive,
          AppendAudit, Return, Stop, vars, files
    <2>2. copy[c] = active /\ call[c].version # None
      BY <2>1, NoneAssumption DEF IInv, CopyInv, CallInv, WriteActive
    <2> QED BY <2>1, <2>2 DEF WriteActive, IInv, TypeOK
  <1> QED BY Invariance, <1>1, PTL DEF Spec, NamesStayActive
-----------------------------------------------------------------------------
(* What the ledger tells of a name whose changes neither overlapped nor    *)
(* stopped before their event: at most one change is between its file and  *)
(* its event, and then it is the one that is active.                       *)
Told(n) ==
  /\ \A c, d \in Client : Changing(c, n) /\ Changing(d, n) => c = d
  /\ \A c \in Client : Changing(c, n) => active[n] = call[c].version
  /\ ~(\E c \in Client : Changing(c, n)) => active[n] = LastChange(n)

(* Among the changes the ledger has of a name, one is the last.            *)
HasLast(n) == Changes(n) # {} => \E i \in Changes(n) : \A j \in Changes(n) : j <= i

ToldInv == \A n \in Name : HasLast(n) /\ (n \notin raced \cup cut => Told(n))

PolicyEvent == [op : {"publish", "rollback", "reload"}, version : Version]

(* The last change in the ledger is the last event that is no reload.      *)
LEMMA LastChangeStep ==
  ASSUME TypeOK, NEW n \in Name, HasLast(n), NEW e \in PolicyEvent,
         trail'[n] = Append(trail[n], e)
  PROVE  /\ HasLast(n)'
         /\ LastChange(n)' = IF e.op = "reload" THEN LastChange(n) ELSE e.version
  <1> DEFINE Latest == Len(trail[n]) + 1
  <1>1. /\ trail[n] \in Seq(PolicyEvent) /\ Len(trail[n]) \in Nat
        /\ DOMAIN trail[n] = 1..Len(trail[n]) /\ DOMAIN trail'[n] = 1..Latest
        /\ trail'[n][Latest] = e
        /\ \A i \in 1..Len(trail[n]) : trail'[n][i] = trail[n][i]
    <2>1. trail[n] \in Seq(PolicyEvent)
      BY DEF TypeOK, PolicyEvent
    <2> QED BY <2>1
  <1>2. CASE e.op = "reload"
    <2>1. Changes(n)' = Changes(n)
      BY <1>1, <1>2 DEF Changes
    <2>2. ASSUME Changes(n) # {} PROVE LastChange(n)' = LastChange(n)
      <3> DEFINE m == CHOOSE i \in Changes(n) : \A j \in Changes(n) : j <= i
      <3>1. \E i \in Changes(n) : \A j \in Changes(n) : j <= i
        BY <2>2 DEF HasLast
      <3>2. m \in Changes(n)
        BY <3>1
      <3>3. m \in 1..Len(trail[n])
        BY <1>1, <3>2 DEF Changes
      <3>4. LastChange(n) = trail[n][m].version
        BY <2>2 DEF LastChange
      <3>5. LastChange(n)' = trail'[n][m].version
        BY <2>1, <2>2 DEF LastChange
      <3> QED BY <1>1, <3>3, <3>4, <3>5
    <2> QED BY <1>2, <2>1, <2>2 DEF LastChange, HasLast
  <1>3. CASE e.op # "reload"
    <2>1. Latest \in Changes(n)' /\ \A j \in Changes(n)' : j \in 1..Latest
      BY <1>1, <1>3 DEF Changes
    <2>2. (CHOOSE i \in Changes(n)' : \A j \in Changes(n)' : j <= i) = Latest
      <3>1. \A i \in Changes(n)' : (\A j \in Changes(n)' : j <= i) => i = Latest
        BY <1>1, <2>1
      <3>2. \A j \in Changes(n)' : j <= Latest
        BY <1>1, <2>1
      <3> HIDE DEF Latest
      <3> QED BY <2>1, <3>1, <3>2
    <2>3. HasLast(n)'
      BY <1>1, <2>1 DEF HasLast
    <2> QED BY <1>1, <1>3, <2>1, <2>2, <2>3 DEF LastChange
  <1> QED BY <1>2, <1>3

(* Where the ledger does not change, neither does what it tells.           *)
LEMMA SameTrail ==
  ASSUME NEW n \in Name, trail'[n] = trail[n]
  PROVE  LastChange(n)' = LastChange(n) /\ (HasLast(n)' <=> HasLast(n))
  BY DEF LastChange, Changes, HasLast

(* A change is told when its event is appended, and until then it is the   *)
(* only one, or the name counts as raced; one that stops is cut.           *)
LEMMA ToldStep == IInv /\ ToldInv /\ [Next]_vars => ToldInv'
  <1> SUFFICES ASSUME IInv, ToldInv, [Next]_vars, NEW n \in Name
               PROVE  HasLast(n)' /\ (n \notin raced' \cup cut' => Told(n)')
    BY DEF ToldInv
  <1> USE DEF IInv, TypeOK, Goto, Leave, files
  <1>0. HasLast(n) /\ (n \notin raced \cup cut => Told(n))
    BY DEF ToldInv
  <1>1. ASSUME trail' = trail, active' = active,
               n \notin raced' \cup cut' => n \notin raced \cup cut,
               n \notin raced' \cup cut' =>
                 \A c \in Client : /\ (Changing(c, n)' <=> Changing(c, n))
                                   /\ Changing(c, n) => call'[c].version = call[c].version
        PROVE  HasLast(n)' /\ (n \notin raced' \cup cut' => Told(n)')
    <2>1. HasLast(n)' /\ LastChange(n)' = LastChange(n) /\ active'[n] = active[n]
      BY <1>0, <1>1, SameTrail
    <2>2. ASSUME n \notin raced' \cup cut' PROVE Told(n)'
      <3>1. Told(n)
        BY <1>0, <1>1, <2>2
      <3>2. \A c \in Client : /\ (Changing(c, n)' <=> Changing(c, n))
                              /\ Changing(c, n) => call'[c].version = call[c].version
        BY <1>1, <2>2
      <3> QED BY <2>1, <3>1, <3>2 DEF Told
    <2> QED BY <2>1, <2>2
  <1>2. ASSUME NEW c \in Client, NEW op \in Ops, NEW m \in Name, NEW v \in Version \cup {None},
               Begin(c, op, m, v)
        PROVE  HasLast(n)' /\ (n \notin raced' \cup cut' => Told(n)')
    BY <1>1, <1>2, FirstStepCases DEF Begin, Changing
  <1>3. ASSUME NEW c \in Client,
               \/ WriteRecord(c) \/ ReadActive(c) \/ NoneActive(c) \/ NoRecord(c)
               \/ LoadActive(c) \/ Return(c)
        PROVE  HasLast(n)' /\ (n \notin raced' \cup cut' => Told(n)')
    BY <1>1, <1>3 DEF WriteRecord, ReadActive, NoneActive, NoRecord, LoadActive, Return, Changing
  <1>4. ASSUME NEW c \in Client, GetRecord(c)
        PROVE  HasLast(n)' /\ (n \notin raced' \cup cut' => Told(n)')
    BY <1>1, <1>4 DEF GetRecord, Changing
  <1>5. ASSUME NEW c \in Client, WriteActive(c)
        PROVE  HasLast(n)' /\ (n \notin raced' \cup cut' => Told(n)')
    <2>1. /\ copy[c] = active /\ call[c].name \in Name /\ call[c].version \in Version
          /\ call[c].op \in {"publish", "rollback"}
      BY <1>5 DEF WriteActive, CopyInv, CallInv
    <2>2. CASE n = call[c].name
      <3> SUFFICES ASSUME n \notin raced' \cup cut' PROVE HasLast(n)' /\ Told(n)'
        BY <1>0, <1>5, SameTrail DEF WriteActive
      <3>1. ~(\E d \in Client : Changing(d, n))
        BY <1>5, <2>2 DEF WriteActive
      <3>2. \A d \in Client : Changing(d, n)' <=> d = c
        BY <1>5, <2>1, <2>2, <3>1 DEF WriteActive, Changing
      <3>3. active'[n] = call'[c].version
        BY <1>5, <2>1, <2>2 DEF WriteActive
      <3> QED BY <1>0, <1>5, <3>2, <3>3, SameTrail DEF WriteActive, Told
    <2>3. CASE n # call[c].name
      <3>1. active'[n] = active[n]
        BY <1>5, <2>1, <2>3 DEF WriteActive
      <3>2. \A d \in Client : (Changing(d, n)' <=> Changing(d, n))
        BY <1>5, <2>3 DEF WriteActive, Changing
      <3> QED BY <1>0, <1>5, <3>1, <3>2, SameTrail DEF WriteActive, Told
    <2> QED BY <2>2, <2>3
  <1>6. ASSUME NEW c \in Client, AppendAudit(c)
        PROVE  HasLast(n)' /\ (n \notin raced' \cup cut' => Told(n)')
    <2>1. /\ call[c].name \in Name /\ call[c].version \in Version
          /\ call[c].op \in {"publish", "rollback", "reload"}
      BY <1>6 DEF AppendAudit, CallInv
    <2>2. CASE n # call[c].name
      <3>1. \A d \in Client : (Changing(d, n)' <=> Changing(d, n)) /\ (Changing(d, n) => d # c)
        BY <1>6, <2>2 DEF AppendAudit, Changing
      <3> QED BY <1>0, <1>6, <2>2, <3>1, SameTrail DEF AppendAudit, Told
    <2>3. CASE n = call[c].name
      <3> DEFINE e == [op |-> call[c].op, version |-> call[c].version]
      <3>1. trail'[n] = Append(trail[n], e) /\ e \in PolicyEvent
        <4>1. e \in PolicyEvent
          BY <2>1 DEF PolicyEvent
        <4>2. trail'[n] = trail[n] \o <<e>>
          BY <1>6, <2>3 DEF AppendAudit, AuditEvent
        <4>3. trail[n] \in Seq(PolicyEvent)
          BY DEF PolicyEvent
        <4> QED BY <4>1, <4>2, <4>3
      <3>2. /\ HasLast(n)'
            /\ LastChange(n)' = IF call[c].op = "reload" THEN LastChange(n) ELSE call[c].version
        BY <1>0, <3>1, LastChangeStep
      <3>3. \A d \in Client : Changing(d, n)' <=> Changing(d, n) /\ d # c
        BY <1>6, <2>1 DEF AppendAudit, Changing
      <3>4. \A d \in Client : d # c => call'[d] = call[d]
        BY <1>6 DEF AppendAudit
      <3>5. Changing(c, n) <=> call[c].op # "reload"
        BY <1>6, <2>1, <2>3 DEF AppendAudit, Changing
      <3> QED BY <1>0, <1>6, <3>2, <3>3, <3>4, <3>5 DEF AppendAudit, Told
    <2> QED BY <2>2, <2>3
  <1>7. ASSUME NEW c \in Client, Stop(c)
        PROVE  HasLast(n)' /\ (n \notin raced' \cup cut' => Told(n)')
    <2> SUFFICES ASSUME n \notin raced' \cup cut'
                 PROVE  /\ n \notin raced \cup cut
                        /\ \A d \in Client : /\ (Changing(d, n)' <=> Changing(d, n))
                                             /\ Changing(d, n) => call'[d].version = call[d].version
      BY <1>1, <1>7 DEF Stop
    <2>1. ~Changing(c, n) /\ n \notin raced \cup cut
      BY <1>7 DEF Stop, Changing
    <2> QED BY <1>7, <2>1 DEF Stop, Changing
  <1>8. CASE UNCHANGED vars
    BY <1>1, <1>8 DEF vars, Changing
  <1> QED BY NextCases, <1>2, <1>3, <1>4, <1>5, <1>6, <1>7, <1>8 DEF Step

(* Of a name whose changes neither overlapped nor stopped half way, the    *)
(* last change in the ledger is the active version.                        *)
THEOREM AuditAlwaysTellsActive == Spec => []AuditTellsActive
  <1>1. Init => ToldInv
    BY DEF Init, ToldInv, HasLast, Told, Changes, Changing, LastChange, NothingActive
  <1>2. ToldInv => AuditTellsActive
    BY DEF ToldInv, Told, AuditTellsActive
  <1> QED BY Invariance, ToldStep, <1>1, <1>2, PTL DEF Spec
-----------------------------------------------------------------------------
(* Induction: a set that has 0 and the successor of each of its members    *)
(* below N has everything up to N.                                         *)
LEMMA UpTo ==
  ASSUME NEW N \in Nat, NEW Good, 0 \in Good, \A i \in 1..N : i - 1 \in Good => i \in Good
  PROVE  0..N \subseteq Good
  <1> SUFFICES ASSUME 0..N \ Good # {} PROVE FALSE
    OBVIOUS
  <1>1. PICK k \in 0..N \ Good : \A j \in 0..N \ Good : ~(j < k)
    <2>1. IsWellFoundedOn(OpToRel(<, Nat), Nat)
      BY NatLessThanWellFounded
    <2>2. 0..N \ Good \subseteq Nat
      OBVIOUS
    <2>3. PICK k \in 0..N \ Good : \A j \in 0..N \ Good : <<j, k>> \notin OpToRel(<, Nat)
      BY <2>1, <2>2, WFMin
    <2>4. \A j \in 0..N \ Good : j < k => <<j, k>> \in OpToRel(<, Nat)
      BY <2>2, <2>3 DEF OpToRel
    <2> QED BY <2>3, <2>4
  <1>2. k # 0 /\ k \in Nat
    BY <1>1
  <1>3. k - 1 \in 0..N /\ k - 1 < k /\ k \in 1..N
    BY <1>1, <1>2
  <1>4. k - 1 \in Good
    BY <1>1, <1>3
  <1> QED BY <1>1, <1>3, <1>4

Runs(f, first, step, N) == f[0] = first /\ \A i \in 1..N : f[i] = step[<<f[i - 1], i>>]

(* Recursion: a loop that runs N times has been in some state after each.  *)
LEMMA Iterated ==
  ASSUME NEW N \in Nat, NEW Space, NEW first \in Space, NEW step \in [Space \X (1..N) -> Space]
  PROVE  \E f \in [0..N -> Space] : Runs(f, first, step, N)
  <1> DEFINE Good == {k \in 0..N : \E f \in [0..k -> Space] : Runs(f, first, step, k)}
  <1>1. 0 \in Good
    <2>1. [i \in 0..0 |-> first] \in [0..0 -> Space] /\ Runs([i \in 0..0 |-> first], first, step, 0)
      BY DEF Runs
    <2>2. \E f \in [0..0 -> Space] : Runs(f, first, step, 0)
      BY <2>1
    <2>3. 0 \in 0..N
      OBVIOUS
    <2> QED BY <2>2, <2>3
  <1>2. ASSUME NEW k \in 1..N, k - 1 \in Good PROVE k \in Good
    <2>1. PICK f \in [0..(k - 1) -> Space] : Runs(f, first, step, k - 1)
      BY <1>2
    <2> DEFINE g == [i \in 0..k |-> IF i = k THEN step[<<f[k - 1], k>>] ELSE f[i]]
    <2>2. f[k - 1] \in Space /\ k - 1 \in 0..(k - 1) /\ k \in 0..N
      BY <2>1
    <2>3. step[<<f[k - 1], k>>] \in Space
      BY <2>2
    <2>4. g \in [0..k -> Space]
      BY <2>1, <2>3
    <2>5. \A i \in 0..(k - 1) : g[i] = f[i]
      OBVIOUS
    <2>6. g[k] = step[<<f[k - 1], k>>]
      OBVIOUS
    <2>7. Runs(g, first, step, k)
      <3>1. g[0] = first
        BY <2>1, <2>5 DEF Runs
      <3>2. ASSUME NEW i \in 1..k PROVE g[i] = step[<<g[i - 1], i>>]
        <4>1. i - 1 \in 0..(k - 1) /\ g[i - 1] = f[i - 1]
          BY <2>5
        <4>2. CASE i = k
          BY <4>1, <4>2, <2>6
        <4>3. CASE i # k
          <5>1. i \in 1..(k - 1) /\ i \in 0..(k - 1)
            BY <4>3
          <5> QED BY <5>1, <4>1, <2>1, <2>5 DEF Runs
        <4> QED BY <4>2, <4>3
      <3> QED BY <3>1, <3>2 DEF Runs
    <2> QED BY <2>2, <2>4, <2>7
  <1>3. N \in Good
    <2> HIDE DEF Good
    <2>1. 0..N \subseteq Good
      BY <1>1, <1>2, UpTo
    <2> QED BY <2>1
  <1> QED BY <1>3
(* What Picked and Sums are after each step.                               *)
LEMMA PickedSteps ==
  ASSUME NEW n \in Nat, NEW wanted
  PROVE  LET f == Picked(n, wanted)
         IN  /\ f \in [0..n -> Seq(Int)]
             /\ f[0] = << >>
             /\ \A i \in 1..n : f[i] = IF i \in wanted THEN Append(f[i - 1], i) ELSE f[i - 1]
  <1> DEFINE Space == Seq(Int)
             Then(v, i) == IF i \in wanted THEN Append(v, i) ELSE v
             step == [p \in Space \X (1..n) |-> Then(p[1], p[2])]
             first == << >>
  <1>1. ASSUME NEW v \in Space, NEW i \in 1..n PROVE Then(v, i) \in Space
    BY DEF Then
  <1>2. first \in Space /\ n \in Nat
    OBVIOUS
  <1> HIDE DEF Then, Space, first
  <1>3. step \in [Space \X (1..n) -> Space]
    BY <1>1
  <1>4. \A v \in Space, i \in 1..n : step[<<v, i>>] = Then(v, i)
    OBVIOUS
  <1> HIDE DEF step
  <1>5. PICK f \in [0..n -> Space] : Runs(f, first, step, n)
    BY <1>2, <1>3, Iterated
  <1>6. ASSUME NEW i \in 1..n PROVE f[i] = Then(f[i - 1], i)
    <2>1. i - 1 \in 0..n /\ f[i - 1] \in Space
      BY <1>2, <1>5
    <2>2. f[i] = step[<<f[i - 1], i>>]
      BY <1>5 DEF Runs
    <2> QED BY <2>1, <2>2, <1>4
  <1> DEFINE Body(s) == [i \in 0..n |-> IF i = 0 THEN first ELSE Then(s[i - 1], i)]
  <1>7. f = Body(f)
    <2>1. \A i \in 0..n : f[i] = IF i = 0 THEN first ELSE Then(f[i - 1], i)
      BY <1>2, <1>5, <1>6 DEF Runs
    <2> QED BY <1>5, <2>1
  <1> DEFINE g == Picked(n, wanted)
  <1>8. g = CHOOSE s : s = Body(s)
    BY DEF Picked, first, Then
  <1>9. g = Body(g)
    <2> HIDE DEF Body, g
    <2> QED BY <1>7, <1>8
  <1> HIDE DEF g
  <1>10. g[0] = first /\ \A i \in 1..n : g[i] = Then(g[i - 1], i)
    BY <1>2, <1>9
  <1>11. g \in [0..n -> Space]
    <2> DEFINE Good == {i \in 0..n : g[i] \in Space}
    <2>1. 0 \in Good
      BY <1>2, <1>10
    <2>2. \A i \in 1..n : i - 1 \in Good => i \in Good
      BY <1>1, <1>2, <1>10
    <2> HIDE DEF Good
    <2>3. 0..n \subseteq Good
      BY <1>2, <2>1, <2>2, UpTo
    <2>4. \A i \in 0..n : g[i] \in Space
      BY <2>3 DEF Good
    <2> QED BY <2>4, <1>9
  <1> QED BY <1>10, <1>11 DEF Then, first, Space, g

(* The sums of some values, a step at a time.                              *)
LEMMA SumsSteps ==
  ASSUME NEW values \in Seq(Nat), NEW positions
  PROVE  LET n == Len(values)
             f == Sums(values, positions)
         IN  /\ f \in [0..n -> Nat]
             /\ f[0] = 0
             /\ \A i \in 1..n :
                  f[i] = IF i \in positions THEN f[i - 1] + values[i] ELSE f[i - 1]
  <1> DEFINE n == Len(values)
             Space == Nat
             Then(v, i) == IF i \in positions THEN v + values[i] ELSE v
             step == [p \in Space \X (1..n) |-> Then(p[1], p[2])]
             first == 0
  <1>1. ASSUME NEW v \in Space, NEW i \in 1..n PROVE Then(v, i) \in Space
    BY values[i] \in Nat
  <1>2. first \in Space /\ n \in Nat
    OBVIOUS
  <1> HIDE DEF Then, Space, first, n
  <1>3. step \in [Space \X (1..n) -> Space]
    BY <1>1
  <1>4. \A v \in Space, i \in 1..n : step[<<v, i>>] = Then(v, i)
    OBVIOUS
  <1> HIDE DEF step
  <1>5. PICK f \in [0..n -> Space] : Runs(f, first, step, n)
    BY <1>2, <1>3, Iterated
  <1>6. ASSUME NEW i \in 1..n PROVE f[i] = Then(f[i - 1], i)
    <2>1. i - 1 \in 0..n /\ f[i - 1] \in Space
      BY <1>2, <1>5
    <2>2. f[i] = step[<<f[i - 1], i>>]
      BY <1>5 DEF Runs
    <2> QED BY <2>1, <2>2, <1>4
  <1> DEFINE Body(s) == [i \in 0..n |-> IF i = 0 THEN first ELSE Then(s[i - 1], i)]
  <1>7. f = Body(f)
    <2>1. \A i \in 0..n : f[i] = IF i = 0 THEN first ELSE Then(f[i - 1], i)
      BY <1>2, <1>5, <1>6 DEF Runs
    <2> QED BY <1>5, <2>1
  <1> DEFINE g == Sums(values, positions)
  <1>8. g = CHOOSE s : s = Body(s)
    BY DEF Sums, first, Then, n
  <1>9. g = Body(g)
    <2> HIDE DEF Body, g
    <2> QED BY <1>7, <1>8
  <1> HIDE DEF g
  <1>10. g[0] = first /\ \A i \in 1..n : g[i] = Then(g[i - 1], i)
    BY <1>2, <1>9
  <1>11. g \in [0..n -> Space]
    <2> DEFINE Good == {i \in 0..n : g[i] \in Space}
    <2>1. 0 \in Good
      BY <1>2, <1>10
    <2>2. \A i \in 1..n : i - 1 \in Good => i \in Good
      BY <1>1, <1>2, <1>10
    <2> HIDE DEF Good
    <2>3. 0..n \subseteq Good
      BY <1>2, <2>1, <2>2, UpTo
    <2>4. \A i \in 0..n : g[i] \in Space
      BY <2>3 DEF Good
    <2> QED BY <2>4, <1>9
  <1> QED BY <1>10, <1>11 DEF Then, first, Space, n, g
-----------------------------------------------------------------------------
Spans == [from : Nat, to : Nat]

(* Chunks that follow one another from 0 to an end, none of them empty or  *)
(* larger than it may be.                                                  *)
Tiled(chunks, end, most) ==
  /\ chunks \in Seq(Spans)
  /\ Len(chunks) = 0 <=> end = 0
  /\ Len(chunks) > 0 => chunks[1].from = 0 /\ chunks[Len(chunks)].to = end
  /\ \A i \in 1..Len(chunks) : chunks[i].to - chunks[i].from \in 1..most
  /\ \A i \in 1..(Len(chunks) - 1) : chunks[i].to = chunks[i + 1].from

(* The first k of them are not smaller than they may be.                   *)
Large(chunks, k, least) == \A i \in 1..k : chunks[i].to - chunks[i].from >= least

(* One more chunk after chunks that follow one another.                    *)
LEMMA TileAppended ==
  ASSUME NEW chunks, NEW start \in Nat, NEW end \in Nat, NEW most \in Nat,
         Tiled(chunks, start, most), end - start \in 1..most
  PROVE  LET more == Append(chunks, R!Span(start, end))
         IN  /\ Tiled(more, end, most) /\ Len(more) = Len(chunks) + 1
             /\ more[Len(more)] = R!Span(start, end)
             /\ \A i \in 1..Len(chunks) : more[i] = chunks[i]
  <1> DEFINE more == Append(chunks, R!Span(start, end))
             n == Len(chunks)
  <1>1. chunks \in Seq(Spans) /\ R!Span(start, end) \in Spans
    BY DEF Tiled, Spans, R!Span
  <1>2. more \in Seq(Spans) /\ Len(more) = n + 1 /\ n \in Nat
    BY <1>1
  <1>3. more[n + 1] = R!Span(start, end) /\ \A i \in 1..n : more[i] = chunks[i]
    BY <1>1
  <1>4. more[n + 1].from = start /\ more[n + 1].to = end
    BY <1>3 DEF R!Span
  <1> HIDE DEF more
  <1>5. more[1].from = 0
    <2>1. CASE n = 0
      BY <2>1, <1>4 DEF Tiled
    <2>2. CASE n > 0
      BY <2>2, <1>2, <1>3 DEF Tiled
    <2> QED BY <2>1, <2>2, <1>2
  <1>6. ASSUME NEW i \in 1..(n + 1) PROVE more[i].to - more[i].from \in 1..most
    <2>1. CASE i = n + 1
      BY <2>1, <1>4
    <2>2. CASE i # n + 1
      <3>1. i \in 1..n
        BY <2>2, <1>2
      <3> QED BY <3>1, <1>3 DEF Tiled
    <2> QED BY <2>1, <2>2
  <1>7. ASSUME NEW i \in 1..n PROVE more[i].to = more[i + 1].from
    <2>1. CASE i = n
      BY <2>1, <1>2, <1>3, <1>4 DEF Tiled
    <2>2. CASE i # n
      <3>1. i \in 1..(n - 1) /\ i + 1 \in 1..n
        BY <2>2, <1>2
      <3> QED BY <3>1, <1>3 DEF Tiled
    <2> QED BY <2>1, <2>2
  <1>8. end # 0 /\ Len(more) # 0 /\ more[Len(more)].to = end /\ Len(more) - 1 = n
    BY <1>2, <1>4
  <1>9. Tiled(more, end, most)
    <2>1. \A i \in 1..Len(more) : more[i].to - more[i].from \in 1..most
      BY <1>6, <1>2
    <2>2. \A i \in 1..(Len(more) - 1) : more[i].to = more[i + 1].from
      BY <1>7, <1>8
    <2> QED BY <1>2, <1>5, <1>8, <2>1, <2>2 DEF Tiled
  <1> QED BY <1>2, <1>3, <1>9 DEF more

(* The loop of content_defined_chunks is a recursion that is defined.      *)
LEMMA ScannedSteps ==
  ASSUME NEW length \in Nat, NEW least, NEW most, NEW boundaries
  PROVE  LET scanned == R!Scanned(length, least, most, boundaries)
         IN  /\ scanned[0] = [start |-> 0, chunks |-> << >>]
             /\ \A i \in 1..length :
                  scanned[i] = IF R!MustCut(i, i - scanned[i - 1].start, least, most, boundaries)
                                 THEN [start |-> i,
                                       chunks |-> Append(scanned[i - 1].chunks,
                                                         R!Span(scanned[i - 1].start, i))]
                                 ELSE scanned[i - 1]
  <1> DEFINE Space == [start : Nat, chunks : Seq(Spans)]
             Then(v, i) == IF R!MustCut(i, i - v.start, least, most, boundaries)
                             THEN [start |-> i, chunks |-> Append(v.chunks, R!Span(v.start, i))]
                             ELSE v
             step == [p \in Space \X (1..length) |-> Then(p[1], p[2])]
             first == [start |-> 0, chunks |-> << >>]
  <1>1. ASSUME NEW v \in Space, NEW i \in 1..length PROVE Then(v, i) \in Space
    <2>1. R!Span(v.start, i) \in Spans
      BY DEF R!Span, Spans
    <2>2. Append(v.chunks, R!Span(v.start, i)) \in Seq(Spans)
      BY <2>1
    <2> QED BY <2>2
  <1>2. first \in Space
    OBVIOUS
  <1> HIDE DEF Then, Space, first
  <1>3. step \in [Space \X (1..length) -> Space]
    BY <1>1
  <1>4. \A v \in Space, i \in 1..length : step[<<v, i>>] = Then(v, i)
    OBVIOUS
  <1> HIDE DEF step
  <1>5. PICK f \in [0..length -> Space] : Runs(f, first, step, length)
    BY <1>2, <1>3, Iterated
  <1>6. ASSUME NEW i \in 1..length PROVE f[i] = Then(f[i - 1], i)
    <2>1. i - 1 \in 0..length /\ f[i - 1] \in Space
      BY <1>5
    <2>2. f[i] = step[<<f[i - 1], i>>]
      BY <1>5 DEF Runs
    <2> QED BY <2>1, <2>2, <1>4
  <1> DEFINE Body(s) == [i \in 0..length |-> IF i = 0 THEN first ELSE Then(s[i - 1], i)]
  <1>7. f = Body(f)
    <2>1. \A i \in 0..length : f[i] = IF i = 0 THEN first ELSE Then(f[i - 1], i)
      BY <1>5, <1>6 DEF Runs
    <2> QED BY <1>5, <2>1
  <1>8. R!Scanned(length, least, most, boundaries) = CHOOSE s : s = Body(s)
    BY DEF R!Scanned, first, Then
  <1> DEFINE scanned == R!Scanned(length, least, most, boundaries)
  <1>9. scanned = Body(scanned)
    <2> HIDE DEF Body
    <2> QED BY <1>7, <1>8
  <1> HIDE DEF scanned
  <1>10. scanned[0] = first /\ \A i \in 1..length : scanned[i] = Then(scanned[i - 1], i)
    BY <1>9
  <1> QED BY <1>10 DEF Then, first, scanned

(* Chunks cut where the content asks for it, by induction over the bytes   *)
(* that are scanned (content_defined_chunks).                              *)
LEMMA ContentChunks ==
  ASSUME NEW length \in Nat, NEW most \in Nat, NEW least \in 1..most, NEW boundaries
  PROVE  LET chunks == R!ContentDefinedChunks(length, least, most, boundaries)
         IN  Tiled(chunks, length, most) /\ Large(chunks, Len(chunks) - 1, least)
  <1> DEFINE scanned == R!Scanned(length, least, most, boundaries)
             Fair(v, i) == /\ v.start \in 0..i /\ i - v.start < most
                           /\ Tiled(v.chunks, v.start, most)
                           /\ Large(v.chunks, Len(v.chunks), least)
             Cut(v, i) == [start |-> i, chunks |-> Append(v.chunks, R!Span(v.start, i))]
             Good == {i \in 0..length : Fair(scanned[i], i)}
  <1>1. /\ scanned[0] = [start |-> 0, chunks |-> << >>]
        /\ \A i \in 1..length :
             scanned[i] = IF R!MustCut(i, i - scanned[i - 1].start, least, most, boundaries)
                            THEN Cut(scanned[i - 1], i) ELSE scanned[i - 1]
    BY ScannedSteps
  <1> HIDE DEF scanned
  <1>2. 0 \in Good
    <2>1. scanned[0].start = 0 /\ scanned[0].chunks = << >>
      BY <1>1
    <2>2. Tiled(<< >>, 0, most) /\ Large(<< >>, Len(<< >>), least)
      BY DEF Tiled, Large
    <2> QED BY <2>1, <2>2
  <1>3. ASSUME NEW i \in 1..length, i - 1 \in Good PROVE i \in Good
    <2> DEFINE v == scanned[i - 1]
               size == i - v.start
    <2>1. Fair(v, i - 1)
      BY <1>3
    <2> HIDE DEF v
    <2>2. v.start \in Nat /\ i \in Nat /\ size \in 1..most /\ i \in 0..length
      BY <2>1
    <2>3. CASE R!MustCut(i, size, least, most, boundaries)
      <3>1. scanned[i] = Cut(v, i) /\ size >= least
        BY <2>3, <1>1 DEF v, R!MustCut
      <3> DEFINE more == Append(v.chunks, R!Span(v.start, i))
      <3>2. scanned[i].start = i /\ scanned[i].chunks = more
        BY <3>1
      <3>3. /\ Tiled(more, i, most) /\ Len(more) = Len(v.chunks) + 1
            /\ more[Len(more)] = R!Span(v.start, i)
            /\ \A j \in 1..Len(v.chunks) : more[j] = v.chunks[j]
        BY <2>1, <2>2, TileAppended
      <3>4. Large(more, Len(more), least)
        <4> HIDE DEF more
        <4>1. Len(v.chunks) \in Nat
          BY <2>1 DEF Tiled
        <4>2. more[Len(more)].from = v.start /\ more[Len(more)].to = i
          BY <3>3 DEF R!Span
        <4>3. \A j \in 1..Len(v.chunks) : more[j].to - more[j].from >= least
          BY <2>1, <3>3 DEF Large
        <4>4. \A j \in 1..Len(more) : j = Len(more) \/ j \in 1..Len(v.chunks)
          BY <4>1, <3>3
        <4> QED BY <3>1, <4>2, <4>3, <4>4 DEF Large
      <3>5. i \in 0..i /\ i - i < most
        BY <2>2
      <3> HIDE DEF more
      <3>6. Fair(scanned[i], i)
        BY <3>2, <3>3, <3>4, <3>5
      <3> QED BY <2>2, <3>6
    <2>4. CASE ~R!MustCut(i, size, least, most, boundaries)
      <3>1. scanned[i] = v /\ (~(size >= least) \/ ~(size >= most))
        BY <2>4, <1>1 DEF v, R!MustCut
      <3>2. v.start \in 0..i /\ i - v.start < most
        <4> HIDE DEF Fair
        <4>1. least \in Nat /\ least <= most /\ size < most
          BY <2>2, <3>1
        <4>2. v.start \in 0..(i - 1)
          BY <2>1 DEF Fair
        <4> QED BY <2>2, <4>1, <4>2
      <3> QED BY <2>1, <2>2, <3>1, <3>2
    <2> QED BY <2>3, <2>4
  <1>4. Fair(scanned[length], length)
    <2> HIDE DEF Good
    <2>1. length \in Good
      BY <1>2, <1>3, UpTo
    <2> QED BY <2>1 DEF Good
  <1> DEFINE end == scanned[length]
             chunks == IF end.start < length
                         THEN Append(end.chunks, R!Span(end.start, length)) ELSE end.chunks
  <1>5. R!ContentDefinedChunks(length, least, most, boundaries) = chunks
    BY DEF R!ContentDefinedChunks, scanned
  <1> HIDE DEF end
  <1>6. Fair(end, length)
    BY <1>4 DEF end
  <1>7. Len(end.chunks) \in Nat
    BY <1>6 DEF Tiled
  <1>8. CASE end.start < length
    <2>1. length - end.start \in 1..most /\ end.start \in Nat
      BY <1>6, <1>8
    <2>2. /\ Tiled(chunks, length, most) /\ Len(chunks) = Len(end.chunks) + 1
          /\ \A j \in 1..Len(end.chunks) : chunks[j] = end.chunks[j]
      BY <1>6, <1>8, <2>1, TileAppended
    <2>3. Large(chunks, Len(chunks) - 1, least)
      <3> HIDE DEF chunks
      <3>1. Len(chunks) - 1 = Len(end.chunks)
        BY <1>7, <2>2
      <3> QED BY <3>1, <1>6, <2>2 DEF Large
    <2> QED BY <1>5, <2>2, <2>3
  <1>9. CASE ~(end.start < length)
    <2>1. end.start = length /\ chunks = end.chunks
      BY <1>6, <1>9
    <2>2. \A j \in 1..(Len(end.chunks) - 1) : j \in 1..Len(end.chunks)
      BY <1>7
    <2> QED BY <1>5, <1>6, <2>1, <2>2 DEF Large
  <1> QED BY <1>8, <1>9

(* A multiple of a size is not below another of as many.                   *)
LEMMA Multiples ==
  ASSUME NEW a \in Nat, NEW b \in Nat, NEW size \in Nat, a <= b
  PROVE  a * size <= b * size /\ a * size \in Nat
  OBVIOUS

(* Rounding up to whole chunks.                                            *)
LEMMA Rounded ==
  ASSUME NEW length \in Nat, NEW size \in Nat \ {0}
  PROVE  LET n == (length + size - 1) \div size
         IN  n \in Nat /\ length <= n * size /\ n * size < length + size
  OBVIOUS

(* Chunks of a fixed size (fixed_chunks).                                  *)
LEMMA FixedSizeChunks ==
  ASSUME NEW length \in Nat, NEW size \in Nat \ {0}
  PROVE  LET chunks == R!FixedChunks(length, size)
         IN  Tiled(chunks, length, size) /\ Large(chunks, Len(chunks) - 1, size)
  <1> DEFINE n == (length + size - 1) \div size
             chunks == [i \in 1..n |-> R!Span((i - 1) * size, R!Shorter(i * size, length))]
  <1>1. n \in Nat /\ length <= n * size /\ n * size < length + size
    BY Rounded
  <1>2. R!FixedChunks(length, size) = chunks
    BY DEF R!FixedChunks
  <1> HIDE DEF n
  <1>3. ASSUME NEW i \in 1..n
        PROVE  /\ (i - 1) * size \in Nat /\ i * size \in Nat /\ i * size = (i - 1) * size + size
               /\ (i - 1) * size < length /\ (i < n => i * size < length)
    <2>1. i \in Nat /\ i - 1 \in Nat /\ i <= n /\ n - 1 \in Nat /\ i - 1 <= n - 1
      BY <1>1
    <2>2. (i - 1) * size \in Nat /\ (i - 1) * size <= (n - 1) * size
      BY <2>1, Multiples
    <2>3. (n - 1) * size + size = n * size /\ i * size = (i - 1) * size + size
      BY <1>1, <2>1
    <2>4. i * size \in Nat
      BY <2>1, Multiples
    <2>5. (n - 1) * size < length
      <3>1. (n - 1) * size \in Nat /\ n * size \in Nat
        BY <1>1, <2>1, Multiples
      <3> QED BY <1>1, <2>3, <3>1
    <2>6. (n - 1) * size \in Nat
      BY <2>1, Multiples
    <2>7. i < n => i * size <= (n - 1) * size
      <3> SUFFICES ASSUME i < n PROVE i * size <= (n - 1) * size
        OBVIOUS
      <3>1. i <= n - 1
        BY <2>1, <1>1
      <3> QED BY <2>1, <3>1, Multiples
    <2> QED BY <2>2, <2>3, <2>4, <2>5, <2>6, <2>7
  <1>4. ASSUME NEW i \in 1..n
        PROVE  /\ chunks[i] \in Spans /\ chunks[i].from = (i - 1) * size
               /\ chunks[i].to - chunks[i].from \in 1..size
               /\ i < n => chunks[i].to = i * size
               /\ i = n => chunks[i].to = length
    <2>1. chunks[i] = R!Span((i - 1) * size, R!Shorter(i * size, length))
      OBVIOUS
    <2>2. /\ chunks[i].from = (i - 1) * size /\ chunks[i].to = R!Shorter(i * size, length)
          /\ chunks[i] = [from |-> (i - 1) * size, to |-> R!Shorter(i * size, length)]
      BY <2>1 DEF R!Span
    <2> HIDE DEF chunks
    <2> DEFINE from == (i - 1) * size
               to == i * size
    <2>3. from \in Nat /\ to \in Nat /\ to = from + size /\ from < length /\ (i < n => to < length)
      BY <1>3
    <2>4. i = n => length <= to
      BY <1>1
    <2> HIDE DEF from, to
    <2>5. /\ R!Shorter(to, length) \in Nat /\ R!Shorter(to, length) - from \in 1..size
          /\ i < n => R!Shorter(to, length) = to
          /\ i = n => R!Shorter(to, length) = length
      BY <2>3, <2>4 DEF R!Shorter
    <2>6. chunks[i] \in Spans
      BY <2>2, <2>3, <2>5 DEF Spans, from, to
    <2> QED BY <2>2, <2>5, <2>6 DEF from, to
  <1>5. Len(chunks) = n /\ DOMAIN chunks = 1..n
    BY <1>1
  <1>6. chunks \in Seq(Spans)
    <2>1. \A i \in 1..n : chunks[i] \in Spans
      BY <1>4
    <2>2. chunks = [i \in 1..n |-> chunks[i]]
      OBVIOUS
    <2> HIDE DEF chunks
    <2> QED BY <1>1, <2>1, <2>2
  <1> HIDE DEF chunks
  <1>7. ASSUME n > 0 PROVE chunks[1].from = 0 /\ chunks[n].to = length /\ length # 0
    <2>1. 1 \in 1..n /\ n \in 1..n
      BY <1>1, <1>7
    <2>2. chunks[1].from = (1 - 1) * size
      BY <2>1, <1>4
    <2>3. (1 - 1) * size = 0
      OBVIOUS
    <2>4. (n - 1) * size \in Nat /\ (n - 1) * size < length
      BY <2>1, <1>3
    <2> QED BY <2>1, <2>2, <2>3, <2>4, <1>4
  <1>8. ASSUME n = 0 PROVE length = 0
    <2>1. 0 * size = 0
      OBVIOUS
    <2> QED BY <2>1, <1>1, <1>8
  <1>9. ASSUME NEW i \in 1..(n - 1)
        PROVE  chunks[i].to = chunks[i + 1].from /\ chunks[i].to - chunks[i].from >= size
    <2>1. i \in 1..n /\ i + 1 \in 1..n /\ i < n /\ (i + 1) - 1 = i
      BY <1>1
    <2>2. chunks[i].to = i * size /\ chunks[i + 1].from = i * size
      BY <2>1, <1>4
    <2>3. chunks[i].from = (i - 1) * size /\ i * size = (i - 1) * size + size
            /\ (i - 1) * size \in Nat
      BY <2>1, <1>3, <1>4
    <2> DEFINE from == (i - 1) * size
    <2> HIDE DEF from
    <2>4. chunks[i].to = from + size /\ chunks[i].from = from /\ from \in Nat
      BY <2>2, <2>3 DEF from
    <2>5. (from + size) - from >= size
      BY <2>4
    <2> QED BY <2>2, <2>4, <2>5
  <1>10. Tiled(chunks, length, size)
    <2>1. Len(chunks) = 0 <=> length = 0
      BY <1>1, <1>5, <1>7, <1>8
    <2>2. Len(chunks) > 0 => chunks[1].from = 0 /\ chunks[Len(chunks)].to = length
      BY <1>5, <1>7
    <2>3. \A i \in 1..Len(chunks) : chunks[i].to - chunks[i].from \in 1..size
      BY <1>4, <1>5
    <2>4. \A i \in 1..(Len(chunks) - 1) : chunks[i].to = chunks[i + 1].from
      BY <1>5, <1>9
    <2> QED BY <1>6, <2>1, <2>2, <2>3, <2>4 DEF Tiled
  <1>11. Large(chunks, Len(chunks) - 1, size)
    BY <1>5, <1>9 DEF Large
  <1> QED BY <1>2, <1>10, <1>11

(* Either way of cutting an object.                                        *)
LEMMA ChunksOfTiled ==
  ASSUME NEW read \in RangeRead
  PROVE  /\ Tiled(ChunksOf(read), read.size, read.max)
         /\ Large(ChunksOf(read), Len(ChunksOf(read)) - 1, read.min)
  <1>1. /\ read.size \in Nat /\ read.max \in Nat \ {0} /\ read.min \in 1..read.max
    BY RangeAssumption
  <1>2. CASE read.fixed
    <2> DEFINE chunks == R!FixedChunks(read.size, read.max)
    <2>1. Tiled(chunks, read.size, read.max) /\ Large(chunks, Len(chunks) - 1, read.max)
      BY <1>1, FixedSizeChunks
    <2>2. ChunksOf(read) = chunks
      BY <1>2 DEF ChunksOf
    <2> HIDE DEF chunks
    <2>3. chunks \in Seq(Spans) /\ \A s \in Spans : s.to \in Int /\ s.from \in Int
      BY <2>1 DEF Tiled, Spans
    <2>5. \A i \in 1..(Len(chunks) - 1) : chunks[i].to \in Int /\ chunks[i].from \in Int
      <3> TAKE i \in 1..(Len(chunks) - 1)
      <3>1. chunks[i] \in Spans
        BY <2>3
      <3> QED BY <2>3, <3>1
    <2>4. Large(chunks, Len(chunks) - 1, read.min)
      BY <1>1, <2>1, <2>5 DEF Large
    <2> QED BY <2>1, <2>2, <2>4
  <1>3. CASE ~read.fixed
    <2>1. ChunksOf(read) = R!ContentDefinedChunks(read.size, read.min, read.max, read.boundaries)
      BY <1>3 DEF ChunksOf
    <2> QED BY <1>1, <2>1, ContentChunks
  <1> QED BY <1>2, <1>3

(* ChunksTile of one question.                                             *)
LEMMA ChunksTileOne ==
  ASSUME question.about = "range" => question.read \in RangeRead
  PROVE  ChunksTile
  <1> SUFFICES ASSUME question.about = "range" PROVE ChunksTile
    BY DEF ChunksTile
  <1> DEFINE read == question.read
             chunks == ChunksOf(read)
             n == Len(chunks)
  <1>1. Tiled(chunks, read.size, read.max) /\ Large(chunks, n - 1, read.min)
    BY ChunksOfTiled
  <1>2. read.size \in Nat
    BY RangeAssumption
  <1> HIDE DEF chunks, read
  <1>3. /\ n = 0 <=> read.size = 0
        /\ n > 0 => chunks[1].from = 0 /\ chunks[n].to = read.size
        /\ \A i \in 1..n : chunks[i].to - chunks[i].from \in 1..read.max
        /\ \A i \in 1..(n - 1) : /\ chunks[i].to = chunks[i + 1].from
                                 /\ chunks[i].to - chunks[i].from >= read.min
    BY <1>1 DEF Tiled, Large
  <1> QED BY <1>3 DEF ChunksTile, chunks, read
-----------------------------------------------------------------------------
(* The bytes of a span, one by one, joined, and a piece of them.           *)
LEMMA BytesAre ==
  ASSUME NEW a \in Int, NEW b \in Int, a <= b
  PROVE  /\ R!Bytes(a, b) \in Seq(Int) /\ Len(R!Bytes(a, b)) = b - a
         /\ \A i \in 1..(b - a) : R!Bytes(a, b)[i] = a + i - 1
  <1>1. b - a \in Nat /\ \A i \in 1..(b - a) : a + i - 1 \in Int
    OBVIOUS
  <1> QED BY <1>1 DEF R!Bytes

LEMMA BytesJoined ==
  ASSUME NEW a \in Int, NEW b \in Int, NEW c \in Int, a <= b, b <= c
  PROVE  R!Bytes(a, b) \o R!Bytes(b, c) = R!Bytes(a, c)
  <1> DEFINE left == R!Bytes(a, b)
             right == R!Bytes(b, c)
             whole == R!Bytes(a, c)
  <1>1. /\ left \in Seq(Int) /\ Len(left) = b - a /\ \A i \in 1..(b - a) : left[i] = a + i - 1
        /\ right \in Seq(Int) /\ Len(right) = c - b /\ \A i \in 1..(c - b) : right[i] = b + i - 1
        /\ whole \in Seq(Int) /\ Len(whole) = c - a /\ \A i \in 1..(c - a) : whole[i] = a + i - 1
    <2>1. left \in Seq(Int) /\ Len(left) = b - a /\ \A i \in 1..(b - a) : left[i] = a + i - 1
      BY BytesAre
    <2>2. right \in Seq(Int) /\ Len(right) = c - b /\ \A i \in 1..(c - b) : right[i] = b + i - 1
      BY BytesAre
    <2>4. a <= c
      OBVIOUS
    <2>3. whole \in Seq(Int) /\ Len(whole) = c - a /\ \A i \in 1..(c - a) : whole[i] = a + i - 1
      BY <2>4, BytesAre
    <2> HIDE DEF left, right, whole
    <2> QED BY <2>1, <2>2, <2>3
  <1> HIDE DEF left, right, whole
  <1>2. left \o right \in Seq(Int) /\ Len(left \o right) = Len(whole)
    BY <1>1
  <1>4. \A i \in 1..Len(whole) :
          (left \o right)[i] = IF i <= b - a THEN left[i] ELSE right[i - (b - a)]
    <2>1. \A i \in 1..(Len(left) + Len(right)) :
            (left \o right)[i] = IF i <= Len(left) THEN left[i] ELSE right[i - Len(left)]
      BY <1>1, ConcatProperties
    <2>2. Len(left) + Len(right) = Len(whole)
      BY <1>1
    <2> QED BY <1>1, <2>1, <2>2
  <1>3. ASSUME NEW i \in 1..Len(whole) PROVE (left \o right)[i] = whole[i]
    <2>1. CASE i <= b - a
      <3>1. (left \o right)[i] = left[i] /\ i \in 1..(b - a)
        BY <1>1, <1>4, <2>1
      <3> QED BY <3>1, <1>1
    <2>2. CASE i > b - a
      <3>1. (left \o right)[i] = right[i - (b - a)] /\ i - (b - a) \in 1..(c - b)
        BY <1>1, <1>4, <2>2
      <3>2. right[i - (b - a)] = b + (i - (b - a)) - 1
        BY <3>1, <1>1
      <3> QED BY <3>1, <3>2, <1>1
    <2>3. i <= b - a \/ i > b - a
      BY <1>1
    <2> QED BY <2>1, <2>2, <2>3
  <1> QED BY <1>1, <1>2, <1>3, SeqEqual DEF left, right, whole

LEMMA PieceOfBytes ==
  ASSUME NEW s, NEW from \in Int, NEW to \in Int, NEW start \in Int, NEW end \in Int,
         s.from = from, s.to = to, s.data = R!Bytes(from, to), from < to, start < end,
         start < to, from < end
  PROVE  R!Piece(s, start, end) = R!Bytes(R!Later(start, from), R!Shorter(end, to))
  <1> DEFINE m == R!Later(start, from) - from + 1
             n == R!Shorter(end, to) - from
             data == R!Bytes(from, to)
             some == R!Bytes(R!Later(start, from), R!Shorter(end, to))
  <1>1. /\ R!Later(start, from) \in from..(to - 1) /\ R!Shorter(end, to) \in (from + 1)..to
        /\ R!Later(start, from) <= R!Shorter(end, to)
    BY DEF R!Later, R!Shorter
  <1>2. /\ data \in Seq(Int) /\ Len(data) = to - from
        /\ \A i \in 1..(to - from) : data[i] = from + i - 1
    <2>1. from <= to
      OBVIOUS
    <2> QED BY <2>1, BytesAre
  <1>3. /\ some \in Seq(Int) /\ Len(some) = n - m + 1
        /\ \A i \in 1..(n - m + 1) : some[i] = from + m - 1 + i - 1
    <2> DEFINE a == R!Later(start, from)
               b == R!Shorter(end, to)
    <2>1. a \in Int /\ b \in Int /\ a <= b
      BY <1>1
    <2>2. /\ R!Bytes(a, b) \in Seq(Int) /\ Len(R!Bytes(a, b)) = b - a
          /\ \A i \in 1..(b - a) : R!Bytes(a, b)[i] = a + i - 1
      BY <2>1, BytesAre
    <2> HIDE DEF a, b
    <2>3. b - a = (b - from) - (a - from + 1) + 1 /\ \A i \in Int : a + i - 1 = from + (a - from + 1) - 1 + i - 1
      BY <2>1
    <2> QED BY <2>2, <2>3 DEF a, b
  <1>4. R!Piece(s, start, end) = SubSeq(data, m, n)
    BY DEF R!Piece
  <1>5. m \in 1..Len(data) /\ n \in 1..Len(data) /\ m <= n + 1 /\ m \in Int /\ n \in Int
    <2> DEFINE a == R!Later(start, from)
               b == R!Shorter(end, to)
    <2>1. a \in from..(to - 1) /\ b \in (from + 1)..to /\ a <= b /\ Len(data) = to - from
      BY <1>1, <1>2
    <2> HIDE DEF a, b, data
    <2>2. /\ a - from + 1 \in 1..Len(data) /\ b - from \in 1..Len(data)
          /\ a - from + 1 <= b - from + 1
      BY <2>1
    <2> QED BY <2>1, <2>2 DEF a, b
  <1> HIDE DEF m, n, data, some
  <1>6. /\ SubSeq(data, m, n) \in Seq(Int) /\ Len(SubSeq(data, m, n)) = n - m + 1
        /\ \A i \in 1..(n - m + 1) : SubSeq(data, m, n)[i] = data[m + i - 1]
    <2>1. \A i \in m..n : data[i] \in Int
      <3> TAKE i \in m..n
      <3>1. i \in 1..Len(data)
        BY <1>5
      <3> QED BY <3>1, <1>2
    <2>2. m <= n \/ m = n + 1
      BY <1>5
    <2>3. /\ SubSeq(data, m, n) \in Seq(Int)
          /\ Len(SubSeq(data, m, n)) = IF m <= n THEN n - m + 1 ELSE 0
          /\ \A i \in 1..(n - m + 1) : SubSeq(data, m, n)[i] = data[m + i - 1]
      BY <1>5, <2>1, SubSeqProperties
    <2> QED BY <1>5, <2>2, <2>3
  <1>7. \A i \in 1..(n - m + 1) : data[m + i - 1] = some[i]
    <2> TAKE i \in 1..(n - m + 1)
    <2>1. m + i - 1 \in 1..(to - from)
      BY <1>2, <1>5
    <2> QED BY <2>1, <1>2, <1>3, <1>5
  <1>8. SubSeq(data, m, n) = some
    BY <1>3, <1>6, <1>7, SeqEqual
  <1> QED BY <1>4, <1>8 DEF some

(* The loop of rehydrate_manifest_range is a recursion that is defined.    *)
Joins(f, manifest, start, end) ==
  /\ f \in [0..manifest.count -> Seq(Int)]
  /\ f[0] = << >>
  /\ \A i \in 1..manifest.count :
       f[i] = IF i \in R!Read(manifest, start, end)
                THEN f[i - 1] \o R!Piece(manifest.segments[i], start, end)
                ELSE f[i - 1]
  /\ R!Joined(manifest, start, end) = f[manifest.count]

LEMMA JoinedSteps ==
  ASSUME NEW manifest, manifest.count \in Nat, NEW start, NEW end,
         \A i \in R!Read(manifest, start, end) :
           R!Piece(manifest.segments[i], start, end) \in Seq(Int)
  PROVE  \E f : Joins(f, manifest, start, end)
  <1> DEFINE count == manifest.count
             Space == Seq(Int)
             Then(v, i) == IF i \in R!Read(manifest, start, end)
                             THEN v \o R!Piece(manifest.segments[i], start, end)
                             ELSE v
             step == [p \in Space \X (1..count) |-> Then(p[1], p[2])]
             first == << >>
  <1>1. ASSUME NEW v \in Space, NEW i \in 1..count PROVE Then(v, i) \in Space
    <2>1. CASE i \in R!Read(manifest, start, end)
      <3>1. R!Piece(manifest.segments[i], start, end) \in Space
        BY <2>1
      <3> QED BY <2>1, <3>1, ConcatProperties
    <2>2. CASE i \notin R!Read(manifest, start, end)
      BY <2>2
    <2> QED BY <2>1, <2>2
  <1>2. first \in Space
    OBVIOUS
  <1> HIDE DEF Then, Space, first, count
  <1>3. step \in [Space \X (1..count) -> Space]
    BY <1>1
  <1>4. \A v \in Space, i \in 1..count : step[<<v, i>>] = Then(v, i)
    OBVIOUS
  <1> HIDE DEF step
  <1>10. count \in Nat
    BY DEF count
  <1>5. PICK f \in [0..count -> Space] : Runs(f, first, step, count)
    BY <1>2, <1>3, <1>10, Iterated
  <1>6. ASSUME NEW i \in 1..count PROVE f[i] = Then(f[i - 1], i)
    <2>1. i - 1 \in 0..count /\ f[i - 1] \in Space
      BY <1>5, <1>10
    <2>2. f[i] = step[<<f[i - 1], i>>]
      BY <1>5 DEF Runs
    <2> QED BY <2>1, <2>2, <1>4
  <1> DEFINE Body(s) == [i \in 0..count |-> IF i = 0 THEN first ELSE Then(s[i - 1], i)]
  <1>7. f = Body(f)
    <2>1. \A i \in 0..count : f[i] = IF i = 0 THEN first ELSE Then(f[i - 1], i)
      BY <1>5, <1>6, <1>10 DEF Runs
    <2> QED BY <1>5, <2>1
  <1> DEFINE g == CHOOSE s : s = Body(s)
  <1>8. R!Joined(manifest, start, end) = g[count]
    BY DEF R!Joined, first, Then, count
  <1>9. g = Body(g)
    <2> HIDE DEF Body
    <2> QED BY <1>7
  <1> HIDE DEF g
  <1>11. g[0] = first /\ \A i \in 1..count : g[i] = Then(g[i - 1], i)
    BY <1>9, <1>10
  <1>12. g \in [0..count -> Space]
    <2> DEFINE Good == {i \in 0..count : g[i] \in Space}
    <2>1. 0 \in Good
      BY <1>2, <1>10, <1>11
    <2>2. \A i \in 1..count : i - 1 \in Good => i \in Good
      BY <1>1, <1>10, <1>11
    <2> HIDE DEF Good
    <2>3. 0..count \subseteq Good
      BY <1>10, <2>1, <2>2, UpTo
    <2>4. \A i \in 0..count : g[i] \in Space
      BY <2>3 DEF Good
    <2> QED BY <2>4, <1>9
  <1>13. Joins(g, manifest, start, end)
    BY <1>8, <1>11, <1>12 DEF Joins, Then, first, count, Space
  <1> QED BY <1>13

(* Where reading stands when the bytes before at are read.                 *)
Reach(at, start, end) == IF at <= start THEN start ELSE IF at >= end THEN end ELSE at

(* The pieces of segments that follow one another join up to the bytes of  *)
(* the range as far as the segments reach.                                 *)
LEMMA JoinedWhole ==
  ASSUME NEW read \in RangeRead, NEW start \in Nat, NEW end \in Nat,
         start < end, end <= read.size,
         \A i \in DOMAIN ChunksOf(read) :
           R!Overlapping(ChunksOf(read)[i], start, end) =>
             ChunksOf(read)[i].from \notin read.lost \ read.unlisted
  PROVE  LET joined == R!Joined(ManifestOf(read), start, end)
             gap == \E i \in DOMAIN ChunksOf(read) :
                      /\ ChunksOf(read)[i].from \in read.unlisted
                      /\ R!Overlapping(ChunksOf(read)[i], start, end)
         IN  /\ gap => Len(joined) # end - start
             /\ ~gap => joined = R!Bytes(start, end)
  <1> DEFINE chunks == ChunksOf(read)
             n == Len(chunks)
             manifest == ManifestOf(read)
             Missed(i) == /\ chunks[i].from \in read.unlisted
                          /\ R!Overlapping(chunks[i], start, end)
             Gap(k) == \E i \in 1..k : Missed(i)
             At(k) == IF k = 0 THEN 0 ELSE chunks[k].to
  <1>1. Tiled(chunks, read.size, read.max) /\ read.size \in Nat /\ read.max \in Nat
    BY ChunksOfTiled, RangeAssumption
  <1>2. /\ chunks \in Seq(Spans) /\ n \in Nat /\ DOMAIN chunks = 1..n
        /\ manifest.count = n
        /\ DOMAIN manifest.segments = {i \in 1..n : chunks[i].from \notin read.unlisted}
        /\ \A i \in DOMAIN manifest.segments :
             manifest.segments[i] = Stored(chunks[i], read.lost)
    BY <1>1 DEF Tiled, ManifestOf
  <1> HIDE DEF chunks, manifest
  <1>3. ASSUME NEW i \in 1..n
        PROVE  /\ chunks[i].from \in Nat /\ chunks[i].to \in Nat /\ chunks[i].from < chunks[i].to
               /\ chunks[i].from = At(i - 1) /\ chunks[i].to = At(i)
    <2>1. chunks[i] \in Spans /\ chunks[i].to - chunks[i].from \in 1..read.max
      BY <1>1, <1>2 DEF Tiled
    <2>2. chunks[i].from \in Nat /\ chunks[i].to \in Nat /\ chunks[i].from < chunks[i].to
      BY <1>1, <2>1 DEF Spans
    <2>3. CASE i = 1
      BY <1>1, <1>2, <2>2, <2>3 DEF Tiled
    <2>4. CASE i # 1
      <3>1. i - 1 \in 1..(n - 1) /\ (i - 1) + 1 = i
        BY <1>2, <2>4
      <3>2. chunks[i - 1].to = chunks[i].from
        BY <1>1, <3>1 DEF Tiled
      <3> QED BY <2>2, <3>1, <3>2
    <2> QED BY <2>3, <2>4
  <1>4. ASSUME NEW i \in 1..n
        PROVE  i \in R!Read(manifest, start, end) <=>
                 R!Overlapping(chunks[i], start, end) /\ ~Missed(i)
    <2>1. i \in R!Read(manifest, start, end) <=>
            /\ i \in DOMAIN manifest.segments
            /\ R!Overlapping(manifest.segments[i], start, end)
      BY DEF R!Read
    <2>2. i \in DOMAIN manifest.segments <=> chunks[i].from \notin read.unlisted
      BY <1>2
    <2>3. ASSUME i \in DOMAIN manifest.segments
          PROVE  R!Overlapping(manifest.segments[i], start, end) <=> R!Overlapping(chunks[i], start, end)
      <3>1. manifest.segments[i] = Stored(chunks[i], read.lost)
        BY <1>2, <2>3
      <3>2. /\ manifest.segments[i].from = chunks[i].from
            /\ manifest.segments[i].to = chunks[i].to
        BY <3>1 DEF Stored
      <3> QED BY <3>2 DEF R!Overlapping
    <2> QED BY <2>1, <2>2, <2>3
  <1>5. ASSUME NEW i \in R!Read(manifest, start, end)
        PROVE  /\ i \in 1..n
               /\ R!Piece(manifest.segments[i], start, end)
                    = R!Bytes(R!Later(start, chunks[i].from), R!Shorter(end, chunks[i].to))
    <2>1. i \in 1..n /\ i \in DOMAIN manifest.segments
      BY <1>2 DEF R!Read
    <2>2. R!Overlapping(chunks[i], start, end) /\ chunks[i].from \notin read.lost
      BY <1>2, <1>4, <2>1 DEF chunks
    <2>3. /\ manifest.segments[i].from = chunks[i].from /\ manifest.segments[i].to = chunks[i].to
          /\ manifest.segments[i].data = R!Bytes(chunks[i].from, chunks[i].to)
      <3>1. manifest.segments[i] = Stored(chunks[i], read.lost)
        BY <1>2, <2>1
      <3> QED BY <2>2, <3>1 DEF Stored
    <2>4. start < chunks[i].to /\ chunks[i].from < end
      BY <1>3, <2>1, <2>2 DEF R!Overlapping
    <2> QED BY <1>3, <2>1, <2>3, <2>4, PieceOfBytes
  <1>6. ASSUME NEW i \in R!Read(manifest, start, end)
        PROVE  R!Piece(manifest.segments[i], start, end) \in Seq(Int)
    <2> DEFINE a == R!Later(start, chunks[i].from)
               b == R!Shorter(end, chunks[i].to)
    <2>1. a \in Int /\ b \in Int /\ a <= b
      <3>1. i \in 1..n /\ R!Overlapping(chunks[i], start, end)
        BY <1>4, <1>5
      <3> QED BY <1>3, <3>1 DEF R!Later, R!Shorter, R!Overlapping
    <2> HIDE DEF a, b
    <2>2. R!Bytes(a, b) \in Seq(Int)
      BY <2>1, BytesAre
    <2> QED BY <1>5, <2>2 DEF a, b
  <1>7. PICK f \in [0..n -> Seq(Int)] :
          /\ f[0] = << >>
          /\ \A i \in 1..n :
               f[i] = IF i \in R!Read(manifest, start, end)
                        THEN f[i - 1] \o R!Piece(manifest.segments[i], start, end)
                        ELSE f[i - 1]
          /\ R!Joined(manifest, start, end) = f[n]
    <2>1. manifest.count = n /\ manifest.count \in Nat
      BY <1>2
    <2>2. PICK f : Joins(f, manifest, start, end)
      BY <1>6, <2>1, JoinedSteps
    <2> QED BY <2>1, <2>2 DEF Joins
  <1> DEFINE Reached(k) == Reach(At(k), start, end)
             Right(k) == /\ Len(f[k]) <= Reached(k) - start
                         /\ Gap(k) => Len(f[k]) < Reached(k) - start
                         /\ ~Gap(k) => f[k] = R!Bytes(start, Reached(k))
             Good == {k \in 0..n : Right(k)}
  <1>8. 0 \in Good
    <2>1. Reached(0) = start /\ ~Gap(0)
      BY DEF Reach
    <2>2. R!Bytes(start, start) = << >> /\ Len(<< >>) = 0
      BY DEF R!Bytes
    <2>3. start - start = 0
      OBVIOUS
    <2> QED BY <1>2, <1>7, <2>1, <2>2, <2>3
  <1>9. ASSUME NEW i \in 1..n, i - 1 \in Good PROVE i \in Good
    <2> DEFINE from == chunks[i].from
               to == chunks[i].to
               before == Reached(i - 1)
               after == Reached(i)
    <2>1. from \in Nat /\ to \in Nat /\ from < to
      BY <1>3
    <2>2. before = Reach(from, start, end) /\ after = Reach(to, start, end)
      BY <1>3
    <2>3. Right(i - 1) /\ i \in 0..n
      BY <1>9
    <2>4. before \in Nat /\ after \in Nat /\ start <= before /\ before <= after
      BY <2>1, <2>2 DEF Reach
    <2>5. Gap(i) <=> Gap(i - 1) \/ Missed(i)
      <3>1. \A k \in 1..i : k = i \/ k \in 1..(i - 1)
        BY <1>2
      <3>2. \A k \in 1..(i - 1) : k \in 1..i
        BY <1>2
      <3>3. i \in 1..i
        BY <1>2
      <3> HIDE DEF Missed
      <3> QED BY <3>1, <3>2, <3>3
    <2>6. f[i - 1] \in Seq(Int) /\ f[i] \in Seq(Int)
      <3>1. i - 1 \in 0..n /\ i \in 0..n
        BY <1>2
      <3> QED BY <1>7, <3>1
    <2>7. Len(f[i - 1]) \in Nat
      BY <2>6
    <2> HIDE DEF Gap, from, to
    <2>8. CASE ~R!Overlapping(chunks[i], start, end)
      <3>1. f[i] = f[i - 1]
        BY <1>4, <1>7, <2>8
      <3>2. before = after
        BY <2>1, <2>2, <2>8 DEF Reach, R!Overlapping, from, to
      <3>3. ~Missed(i)
        BY <2>8
      <3> HIDE DEF Missed, before, after
      <3>4. Right(i)
        BY <2>3, <2>5, <3>1, <3>2, <3>3 DEF before, after
      <3> QED BY <2>3, <3>4
    <2>9. ASSUME R!Overlapping(chunks[i], start, end)
          PROVE  before < after /\ before = R!Later(start, from) /\ after = R!Shorter(end, to)
      <3>1. start < to /\ from < end
        BY <2>1, <2>9 DEF R!Overlapping, from, to
      <3> QED BY <2>1, <2>2, <3>1 DEF Reach, R!Later, R!Shorter
    <2>10. CASE R!Overlapping(chunks[i], start, end) /\ Missed(i)
      <3>1. f[i] = f[i - 1] /\ Gap(i)
        BY <1>4, <1>7, <2>5, <2>10
      <3>2. Len(f[i]) <= before - start /\ before < after
        BY <2>3, <2>9, <2>10, <3>1
      <3> HIDE DEF before, after
      <3>3. Len(f[i]) < after - start
        BY <2>4, <2>7, <3>1, <3>2
      <3>4. Right(i)
        BY <2>4, <2>7, <3>1, <3>3 DEF after
      <3> QED BY <2>3, <3>4
    <2>11. CASE R!Overlapping(chunks[i], start, end) /\ ~Missed(i)
      <3>1. i \in R!Read(manifest, start, end)
        BY <1>4, <2>11
      <3>2. f[i] = f[i - 1] \o R!Bytes(before, after)
        BY <1>5, <1>7, <2>9, <2>11, <3>1 DEF from, to
      <3> HIDE DEF before, after
      <3>10. before \in Int /\ after \in Int /\ start \in Int
        BY <2>4
      <3>3. R!Bytes(before, after) \in Seq(Int) /\ Len(R!Bytes(before, after)) = after - before
        BY <2>4, <3>10, BytesAre
      <3>4. Len(f[i]) = Len(f[i - 1]) + (after - before)
        <4> DEFINE more == R!Bytes(before, after)
        <4> HIDE DEF more
        <4>1. more \in Seq(Int) /\ Len(more) = after - before /\ f[i] = f[i - 1] \o more
          BY <3>2, <3>3 DEF more
        <4> DEFINE less == f[i - 1]
        <4>2. less \in Seq(Int)
          BY <2>6
        <4> HIDE DEF less
        <4>3. Len(less \o more) = Len(less) + Len(more)
          <5>1. more \in Seq(Int)
            BY <4>1
          <5> QED BY <4>2, <5>1, ConcatProperties
        <4> QED BY <4>1, <4>3 DEF less
      <3>5. Gap(i) <=> Gap(i - 1)
        BY <2>5, <2>11
      <3>6. Len(f[i]) <= after - start
        BY <2>3, <2>4, <2>7, <3>4 DEF before
      <3>7. Gap(i) => Len(f[i]) < after - start
        BY <2>3, <2>4, <2>7, <3>4, <3>5 DEF before
      <3>8. ASSUME ~Gap(i) PROVE f[i] = R!Bytes(start, after)
        <4>1. f[i - 1] = R!Bytes(start, before)
          BY <2>3, <3>5, <3>8 DEF before
        <4>2. start <= before /\ before <= after
          BY <2>4
        <4>3. R!Bytes(start, before) \o R!Bytes(before, after) = R!Bytes(start, after)
          BY <3>10, <4>2, BytesJoined
        <4> QED BY <3>2, <4>1, <4>3
      <3>9. Right(i)
        BY <3>6, <3>7, <3>8 DEF after
      <3> QED BY <2>3, <3>9
    <2> QED BY <2>8, <2>10, <2>11
  <1>10. Right(n)
    <2> HIDE DEF Good
    <2>1. 0..n \subseteq Good
      BY <1>2, <1>8, <1>9, UpTo
    <2>2. n \in Good
      BY <1>2, <2>1
    <2> QED BY <2>2 DEF Good
  <1>11. Reached(n) = end
    <2>1. n # 0
      BY <1>1 DEF Tiled
    <2>2. At(n) = read.size
      BY <1>1, <1>2, <2>1 DEF Tiled
    <2> QED BY <1>1, <2>2 DEF Reach
  <1>12. (\E i \in DOMAIN chunks : Missed(i)) <=> Gap(n)
    BY <1>2
  <1>13. Len(f[n]) \in Nat
    BY <1>2, <1>7
  <1> HIDE DEF Gap, Reached
  <1>14. Gap(n) => Len(f[n]) # end - start
    BY <1>10, <1>11, <1>13
  <1> QED BY <1>7, <1>10, <1>11, <1>12, <1>14 DEF chunks, manifest

(* What a read of a range comes to, by what became of the chunks it needs. *)
LEMMA ReadRangeExact ==
  ASSUME NEW read \in RangeRead
  PROVE  LET end == R!Shorter(read.end, read.size)
             answered == R!ReadRange(ManifestOf(read), read.start, read.end)
             spoilt == \E i \in DOMAIN ChunksOf(read) :
                         LET span == ChunksOf(read)[i]
                         IN  /\ span.from \in read.lost \cup read.unlisted
                             /\ \E byte \in span.from..(span.to - 1) :
                                  read.start <= byte /\ byte < end
         IN  IF read.end < read.start \/ read.start < 0 \/ spoilt
               THEN answered = Refused
               ELSE answered = R!Bytes(read.start, IF end < read.start THEN read.start ELSE end)
  <1> DEFINE end == R!Shorter(read.end, read.size)
             start == read.start
             manifest == ManifestOf(read)
             answered == R!ReadRange(manifest, start, read.end)
             chunks == ChunksOf(read)
             Spoilt(i) == /\ chunks[i].from \in read.lost \cup read.unlisted
                          /\ \E byte \in chunks[i].from..(chunks[i].to - 1) :
                               start <= byte /\ byte < end
             Unread == \E i \in R!Read(manifest, start, end) : R!Broken(manifest.segments[i])
  <1>1. start \in Int /\ read.end \in Int /\ read.size \in Nat /\ read.max \in Nat
    BY RangeAssumption
  <1>2. end \in Int /\ end <= read.size /\ manifest.size = read.size
    BY <1>1 DEF R!Shorter, ManifestOf
  <1>3. Tiled(chunks, read.size, read.max)
    BY ChunksOfTiled
  <1>4. answered = IF start < 0 \/ read.end < start THEN Refused
                   ELSE IF start >= end THEN << >>
                   ELSE IF Unread THEN Refused
                   ELSE IF Len(R!Joined(manifest, start, end)) # end - start THEN Refused
                   ELSE R!Joined(manifest, start, end)
    BY <1>2 DEF R!ReadRange
  <1> HIDE DEF answered, end, start, chunks, manifest, Unread
  <1>5. CASE start < 0 \/ read.end < start
    BY <1>4, <1>5 DEF answered, start, manifest
  <1>6. CASE ~(start < 0 \/ read.end < start) /\ start >= end
    <2>1. answered = << >>
      BY <1>4, <1>6
    <2>2. ~\E i \in DOMAIN chunks : Spoilt(i)
      <3> SUFFICES ASSUME NEW i \in DOMAIN chunks, Spoilt(i) PROVE FALSE
        OBVIOUS
      <3>1. PICK byte \in chunks[i].from..(chunks[i].to - 1) : start <= byte /\ byte < end
        OBVIOUS
      <3>2. chunks[i] \in Spans
        BY <1>3 DEF Tiled
      <3>3. byte \in Int
        BY <3>2 DEF Spans
      <3> QED BY <1>1, <1>2, <1>6, <3>1, <3>3
    <2>3. R!Bytes(start, IF end < start THEN start ELSE end) = << >>
      <3>1. (IF end < start THEN start ELSE end) = start
        BY <1>1, <1>2, <1>6
      <3>2. R!Bytes(start, start) = << >>
        BY <1>1 DEF R!Bytes
      <3> QED BY <3>1, <3>2
    <2> QED BY <1>6, <2>1, <2>2, <2>3 DEF answered, end, start, chunks, manifest
  <1>7. CASE ~(start < 0 \/ read.end < start) /\ start < end
    <2>1. start \in Nat /\ end \in Nat /\ ~(start >= end)
      BY <1>1, <1>2, <1>7
    <2>5. answered = IF Unread \/ Len(R!Joined(manifest, start, end)) # end - start
                       THEN Refused ELSE R!Joined(manifest, start, end)
      BY <1>4, <1>7, <2>1
    <2>2. ASSUME NEW i \in DOMAIN chunks
          PROVE  /\ chunks[i].from \in Nat /\ chunks[i].to \in Nat /\ chunks[i].from < chunks[i].to
                 /\ Spoilt(i) <=> /\ chunks[i].from \in read.lost \cup read.unlisted
                                  /\ R!Overlapping(chunks[i], start, end)
      <3>1. chunks[i] \in Spans /\ chunks[i].to - chunks[i].from \in 1..read.max
        BY <1>3 DEF Tiled
      <3>2. chunks[i].from \in Nat /\ chunks[i].to \in Nat /\ chunks[i].from < chunks[i].to
        BY <1>1, <3>1 DEF Spans
      <3> DEFINE from == chunks[i].from
                 to == chunks[i].to
                 some == IF from < start THEN start ELSE from
      <3>3. from \in Nat /\ to \in Nat /\ from < to
        BY <3>2
      <3> HIDE DEF from, to
      <3>4. (\E byte \in from..(to - 1) : start <= byte /\ byte < end) <=> to > start /\ from < end
        <4>1. ASSUME NEW byte \in from..(to - 1), start <= byte, byte < end
              PROVE  to > start /\ from < end
          BY <2>1, <3>3, <4>1
        <4>2. ASSUME to > start, from < end
              PROVE  some \in from..(to - 1) /\ start <= some /\ some < end
          BY <1>7, <2>1, <3>3, <4>2
        <4> HIDE DEF some
        <4> QED BY <4>1, <4>2
      <3> QED BY <3>2, <3>4 DEF R!Overlapping, from, to
    <2>3. CASE \E i \in DOMAIN chunks :
                 /\ R!Overlapping(chunks[i], start, end)
                 /\ chunks[i].from \in read.lost \ read.unlisted
      <3>1. PICK i \in DOMAIN chunks : /\ R!Overlapping(chunks[i], start, end)
                                       /\ chunks[i].from \in read.lost \ read.unlisted
        BY <2>3
      <3>2. i \in DOMAIN manifest.segments /\ manifest.segments[i] = Stored(chunks[i], read.lost)
        BY <3>1 DEF manifest, chunks, ManifestOf
      <3>3. i \in R!Read(manifest, start, end) /\ R!Broken(manifest.segments[i])
        BY <3>1, <3>2 DEF R!Read, R!Broken, R!Overlapping, Stored
      <3>4. answered = Refused
        BY <2>5, <3>3 DEF Unread
      <3>5. Spoilt(i)
        BY <2>2, <3>1
      <3> QED BY <3>4, <3>5 DEF answered, end, start, chunks, manifest
    <2>4. CASE \A i \in DOMAIN chunks :
                 R!Overlapping(chunks[i], start, end) => chunks[i].from \notin read.lost \ read.unlisted
      <3> DEFINE gap == \E i \in DOMAIN chunks :
                          /\ chunks[i].from \in read.unlisted
                          /\ R!Overlapping(chunks[i], start, end)
                 joined == R!Joined(manifest, start, end)
      <3>1. /\ gap => Len(joined) # end - start
            /\ ~gap => joined = R!Bytes(start, end)
        BY <1>2, <1>7, <2>1, <2>4, JoinedWhole DEF chunks, manifest
      <3>2. ~Unread
        <4> SUFFICES ASSUME NEW i \in R!Read(manifest, start, end) PROVE ~R!Broken(manifest.segments[i])
          BY DEF Unread
        <4>1. i \in DOMAIN manifest.segments /\ R!Overlapping(manifest.segments[i], start, end)
          BY DEF R!Read
        <4>2. /\ i \in DOMAIN chunks /\ chunks[i].from \notin read.unlisted
              /\ manifest.segments[i] = Stored(chunks[i], read.lost)
          BY <4>1 DEF manifest, chunks, ManifestOf
        <4>3. R!Overlapping(chunks[i], start, end)
          BY <4>1, <4>2 DEF R!Overlapping, Stored
        <4>4. /\ manifest.segments[i].data = R!Bytes(chunks[i].from, chunks[i].to)
              /\ manifest.segments[i].from = chunks[i].from /\ manifest.segments[i].to = chunks[i].to
          BY <2>4, <4>2, <4>3 DEF Stored
        <4> DEFINE data == R!Bytes(chunks[i].from, chunks[i].to)
        <4>5. data \in Seq(Int) /\ Len(data) = chunks[i].to - chunks[i].from
          <5>1. /\ chunks[i].from \in Int /\ chunks[i].to \in Int
                /\ chunks[i].from <= chunks[i].to
            BY <2>2, <4>2
          <5> QED BY <5>1, BytesAre
        <4> HIDE DEF data
        <4> QED BY <4>4, <4>5, RangeAssumption DEF R!Broken, data
      <3>3. gap <=> \E i \in DOMAIN chunks : Spoilt(i)
        <4> HIDE DEF Spoilt
        <4> QED BY <2>2, <2>4
      <3>4. CASE gap
        <4>1. answered = Refused
          BY <2>5, <3>1, <3>4
        <4> QED BY <3>3, <3>4, <4>1 DEF answered, end, start, chunks, manifest
      <3>5. CASE ~gap
        <4>1. joined = R!Bytes(start, end) /\ Len(R!Bytes(start, end)) = end - start
          <5>1. start \in Int /\ end \in Int /\ start <= end
            BY <1>7, <2>1
          <5> QED BY <3>1, <3>5, <5>1, BytesAre
        <4>2. answered = R!Bytes(start, end)
          BY <2>5, <3>2, <4>1
        <4>3. (IF end < start THEN start ELSE end) = end
          BY <1>7, <2>1
        <4> QED BY <1>7, <3>3, <3>5, <4>2, <4>3 DEF answered, end, start, chunks, manifest
      <3> QED BY <3>4, <3>5
    <2> QED BY <2>3, <2>4
  <1>8. start < end \/ start >= end
    BY <1>1, <1>2
  <1> QED BY <1>5, <1>6, <1>7, <1>8
-----------------------------------------------------------------------------
(* What schedule_job has checked of a job that it defers.                  *)
LEMMA ShiftInTime ==
  ASSUME NEW j \in Job, S!ScheduleJob(j) # Refused, ~S!ScheduleJob(j).runNow
  PROVE  LET answered == S!ScheduleJob(j)
         IN  /\ answered.shift \in 0..S!LongestShift /\ ~j.forced
             /\ j.deadline # None =>
                  answered.shift + j.runtime < j.deadline /\ j.deadline > 120
  <1>1. S!ValidJob(j) /\ ~j.forced
    BY DEF S!ScheduleJob, S!RunNow
  <1>2. /\ S!ScheduleJob(j) = S!Defer(S!MaxShift(j))
        /\ S!MaxShift(j) \in 0..S!LongestShift /\ ~S!ShiftMisses(j)
    BY <1>1 DEF S!ScheduleJob, S!RunNow
  <1>3. S!ScheduleJob(j).shift = S!MaxShift(j)
    BY <1>2 DEF S!Defer
  <1>4. ASSUME j.deadline # None
        PROVE  S!MaxShift(j) + j.runtime < j.deadline /\ j.deadline > 120
    <2>1. j.deadline \in Int /\ j.runtime \in Int /\ S!MaxShift(j) \in Int
      BY <1>2, <1>4, JobAssumption
    <2>2. ~(j.deadline <= S!Longer(120, j.runtime + S!MaxShift(j)))
      BY <1>2, <1>4 DEF S!ShiftMisses, S!HasDeadline
    <2> HIDE DEF S!MaxShift
    <2> QED BY <2>1, <2>2 DEF S!Longer
  <1> QED BY <1>1, <1>2, <1>3, <1>4
-----------------------------------------------------------------------------
Message == [role : STRING, words : STRING, tokens : Nat]

(* The loops of compile_context, of compile_openai_messages and of a sum of*)
(* tokens are recursions that are defined.                                 *)
LEMMA CompiledSteps ==
  ASSUME NEW messages \in Seq(Message), NEW max \in Int
  PROVE  LET n == Len(messages)
             f == Q!Compiled(messages, max)
         IN  /\ f \in [0..n -> [kept : SUBSET (1..n), tokens : Nat]]
             /\ f[0] = [kept |-> {}, tokens |-> 0]
             /\ \A i \in 1..n :
                  f[i] = IF \/ messages[i].role \notin Q!ContextRole
                            \/ Q!Repeats(messages, f[i - 1].kept, i)
                            \/ ~Q!Fits(f[i - 1].tokens, messages[i], max)
                           THEN f[i - 1]
                           ELSE [kept |-> f[i - 1].kept \cup {i},
                                 tokens |-> f[i - 1].tokens + messages[i].tokens]
  <1> DEFINE n == Len(messages)
             Space == [kept : SUBSET (1..n), tokens : Nat]
             Then(v, i) == IF \/ messages[i].role \notin Q!ContextRole
                              \/ Q!Repeats(messages, v.kept, i)
                              \/ ~Q!Fits(v.tokens, messages[i], max)
                             THEN v
                             ELSE [kept |-> v.kept \cup {i},
                                   tokens |-> v.tokens + messages[i].tokens]
             step == [p \in Space \X (1..n) |-> Then(p[1], p[2])]
             first == [kept |-> {}, tokens |-> 0]
  <1>1. ASSUME NEW v \in Space, NEW i \in 1..n PROVE Then(v, i) \in Space
    <2>1. messages[i] \in Message
      OBVIOUS
    <2>2. messages[i].tokens \in Nat
      BY <2>1 DEF Message
    <2>3. v.kept \cup {i} \in SUBSET (1..n) /\ v.tokens + messages[i].tokens \in Nat
      BY <2>2
    <2> QED BY <2>3
  <1>2. first \in Space /\ n \in Nat
    OBVIOUS
  <1> HIDE DEF Then, Space, first, n
  <1>3. step \in [Space \X (1..n) -> Space]
    BY <1>1
  <1>4. \A v \in Space, i \in 1..n : step[<<v, i>>] = Then(v, i)
    OBVIOUS
  <1> HIDE DEF step
  <1>5. PICK f \in [0..n -> Space] : Runs(f, first, step, n)
    BY <1>2, <1>3, Iterated
  <1>6. ASSUME NEW i \in 1..n PROVE f[i] = Then(f[i - 1], i)
    <2>1. i - 1 \in 0..n /\ f[i - 1] \in Space
      BY <1>2, <1>5
    <2>2. f[i] = step[<<f[i - 1], i>>]
      BY <1>5 DEF Runs
    <2> QED BY <2>1, <2>2, <1>4
  <1> DEFINE Body(s) == [i \in 0..n |-> IF i = 0 THEN first ELSE Then(s[i - 1], i)]
  <1>7. f = Body(f)
    <2>1. \A i \in 0..n : f[i] = IF i = 0 THEN first ELSE Then(f[i - 1], i)
      BY <1>2, <1>5, <1>6 DEF Runs
    <2> QED BY <1>5, <2>1
  <1> DEFINE g == Q!Compiled(messages, max)
  <1>8. g = CHOOSE s : s = Body(s)
    BY DEF Q!Compiled, first, Then, n
  <1>9. g = Body(g)
    <2> HIDE DEF Body, g
    <2> QED BY <1>7, <1>8
  <1> HIDE DEF g
  <1>10. g[0] = first /\ \A i \in 1..n : g[i] = Then(g[i - 1], i)
    BY <1>2, <1>9
  <1>11. g \in [0..n -> Space]
    <2> DEFINE Good == {i \in 0..n : g[i] \in Space}
    <2>1. 0 \in Good
      BY <1>2, <1>10
    <2>2. \A i \in 1..n : i - 1 \in Good => i \in Good
      BY <1>1, <1>2, <1>10
    <2> HIDE DEF Good
    <2>3. 0..n \subseteq Good
      BY <1>2, <2>1, <2>2, UpTo
    <2>4. \A i \in 0..n : g[i] \in Space
      BY <2>3 DEF Good
    <2> QED BY <2>4, <1>9
  <1> QED BY <1>10, <1>11 DEF Then, first, Space, n, g

LEMMA SentSteps ==
  ASSUME NEW messages \in Seq(Message), NEW kept
  PROVE  LET n == Len(messages)
             f == Q!Sent(messages, kept)
         IN  /\ f \in [0..n -> Seq(Int)]
             /\ f[0] = << >>
             /\ \A i \in 1..n :
                  f[i] = IF messages[i].role \in Q!ContextRole /\ i \notin kept
                           THEN f[i - 1] ELSE Append(f[i - 1], i)
  <1> DEFINE n == Len(messages)
             sent == {i \in DOMAIN messages : messages[i].role \notin Q!ContextRole \/ i \in kept}
  <1>1. n \in Nat /\ DOMAIN messages = 1..n
    OBVIOUS
  <1>2. Q!Sent(messages, kept) = Picked(n, sent)
    BY DEF Q!Sent, Q!Picked, Picked
  <1>3. \A i \in 1..n : i \in sent <=> ~(messages[i].role \in Q!ContextRole /\ i \notin kept)
    BY <1>1
  <1> HIDE DEF n, sent
  <1>4. LET f == Picked(n, sent)
        IN  /\ f \in [0..n -> Seq(Int)]
            /\ f[0] = << >>
            /\ \A i \in 1..n : f[i] = IF i \in sent THEN Append(f[i - 1], i) ELSE f[i - 1]
    BY <1>1, PickedSteps
  <1> QED BY <1>2, <1>3, <1>4 DEF n

Totals(messages, positions) == Sums(Column(messages, "tokens"), positions)

LEMMA TotalsSteps ==
  ASSUME NEW messages \in Seq(Message), NEW positions
  PROVE  LET n == Len(messages)
             f == Totals(messages, positions)
         IN  /\ f \in [0..n -> Nat]
             /\ f[0] = 0
             /\ \A i \in 1..n :
                  f[i] = IF i \in positions THEN f[i - 1] + messages[i].tokens ELSE f[i - 1]
  <1> DEFINE n == Len(messages)
             tokens == Column(messages, "tokens")
  <1>1. tokens \in Seq(Nat) /\ Len(tokens) = n /\ \A i \in 1..n : tokens[i] = messages[i].tokens
    <2>1. \A i \in 1..n : messages[i] \in Message
      OBVIOUS
    <2>2. \A i \in 1..n : messages[i].tokens \in Nat
      BY <2>1 DEF Message
    <2>3. tokens = [i \in 1..n |-> messages[i].tokens]
      BY DEF Column
    <2>4. tokens \in [1..n -> Nat] /\ n \in Nat
      BY <2>2, <2>3
    <2> HIDE DEF n, tokens
    <2> QED BY <2>3, <2>4
  <1> QED BY <1>1, SumsSteps DEF Totals

LEMMA TokensAreTotals ==
  ASSUME NEW messages \in Seq(Message), NEW positions
  PROVE  Tokens(messages, positions) = Totals(messages, positions)[Len(messages)]
  <1>1. Len(Column(messages, "tokens")) = Len(messages)
    BY DEF Column
  <1> QED BY <1>1 DEF Tokens, SumAt, Totals

(* The messages of a prompt before a position are treated before it.       *)
LEMMA KeptInOrder ==
  ASSUME NEW messages \in Seq(Message), NEW max \in Int
  PROVE  LET n == Len(messages)
             f == Q!Compiled(messages, max)
         IN  \A k \in 0..n : \A i \in 0..k : f[i].kept = f[k].kept \cap (1..i)
  <1> DEFINE n == Len(messages)
             f == Q!Compiled(messages, max)
             Before(k) == \A i \in 0..k : f[i].kept = f[k].kept \cap (1..i)
             Good == {k \in 0..n : Before(k)}
  <1>1. /\ f[0].kept = {}
        /\ \A i \in 1..n : f[i].kept = f[i - 1].kept \/ f[i].kept = f[i - 1].kept \cup {i}
        /\ n \in Nat
    <2> DEFINE Left(i) == \/ messages[i].role \notin Q!ContextRole
                          \/ Q!Repeats(messages, f[i - 1].kept, i)
                          \/ ~Q!Fits(f[i - 1].tokens, messages[i], max)
    <2>1. /\ n \in Nat /\ f[0] = [kept |-> {}, tokens |-> 0]
          /\ \A i \in 1..n : f[i] = IF Left(i) THEN f[i - 1]
                                    ELSE [kept |-> f[i - 1].kept \cup {i},
                                          tokens |-> f[i - 1].tokens + messages[i].tokens]
      BY CompiledSteps
    <2> HIDE DEF n, f, Left
    <2>2. ASSUME NEW i \in 1..n
          PROVE  f[i].kept = f[i - 1].kept \/ f[i].kept = f[i - 1].kept \cup {i}
      <3>1. \/ f[i] = f[i - 1]
            \/ f[i] = [kept |-> f[i - 1].kept \cup {i},
                       tokens |-> f[i - 1].tokens + messages[i].tokens]
        BY <2>1
      <3> QED BY <3>1
    <2> QED BY <2>1, <2>2
  <1> HIDE DEF n, f
  <1>2. 0 \in Good
    <2>1. \A i \in 0..0 : i = 0
      OBVIOUS
    <2> QED BY <1>1, <2>1
  <1>3. ASSUME NEW k \in 1..n, k - 1 \in Good PROVE k \in Good
    <2>1. Before(k - 1) /\ k - 1 \in 0..(k - 1) /\ k \in 0..n
      BY <1>1, <1>3
    <2>2. f[k - 1].kept \subseteq 1..(k - 1)
      BY <2>1
    <2>3. f[k].kept = f[k - 1].kept \/ f[k].kept = f[k - 1].kept \cup {k}
      BY <1>1
    <2>4. f[k].kept \subseteq 1..k /\ f[k].kept \cap (1..(k - 1)) = f[k - 1].kept
      BY <1>1, <2>2, <2>3
    <2>5. ASSUME NEW i \in 0..k PROVE f[i].kept = f[k].kept \cap (1..i)
      <3>1. CASE i = k
        BY <2>4, <3>1
      <3>2. CASE i # k
        <4>1. i \in 0..(k - 1) /\ (1..i) \subseteq 1..(k - 1)
          BY <1>1, <3>2
        <4>2. f[i].kept = f[k - 1].kept \cap (1..i)
          BY <2>1, <4>1
        <4> QED BY <2>4, <4>1, <4>2
      <3> QED BY <3>1, <3>2
    <2> QED BY <2>1, <2>5
  <1> HIDE DEF Good
  <1>4. 0..n \subseteq Good
    BY <1>1, <1>2, <1>3, UpTo
  <1> QED BY <1>4 DEF Good, n, f

(* What holds of what is kept of the messages up to each position.         *)
LEMMA KeptWell ==
  ASSUME NEW messages \in Seq(Message), NEW max \in Int
  PROVE  LET n == Len(messages)
             f == Q!Compiled(messages, max)
         IN  \A i \in 0..n :
               /\ f[i].kept = {} \/ f[i].tokens <= max
               /\ \A j, k \in f[i].kept :
                    Q!Fingerprint(messages[j]) = Q!Fingerprint(messages[k]) => j = k
               /\ \A j \in f[i].kept : messages[j].role \in Q!ContextRole
               /\ f[i].tokens = Totals(messages, f[n].kept)[i]
  <1> DEFINE n == Len(messages)
             f == Q!Compiled(messages, max)
             K == f[n].kept
             t == Totals(messages, K)
             Left(i) == \/ messages[i].role \notin Q!ContextRole
                        \/ Q!Repeats(messages, f[i - 1].kept, i)
                        \/ ~Q!Fits(f[i - 1].tokens, messages[i], max)
             Well(i) == /\ f[i].kept = {} \/ f[i].tokens <= max
                        /\ \A j, k \in f[i].kept :
                             Q!Fingerprint(messages[j]) = Q!Fingerprint(messages[k]) => j = k
                        /\ \A j \in f[i].kept : messages[j].role \in Q!ContextRole
                        /\ f[i].tokens = t[i]
             Good == {i \in 0..n : Well(i)}
  <1>1. /\ n \in Nat /\ f[0] = [kept |-> {}, tokens |-> 0]
        /\ \A i \in 1..n : f[i] = IF Left(i) THEN f[i - 1]
                                  ELSE [kept |-> f[i - 1].kept \cup {i},
                                        tokens |-> f[i - 1].tokens + messages[i].tokens]
    BY CompiledSteps
  <1>2. /\ t[0] = 0
        /\ \A i \in 1..n : t[i] = IF i \in K THEN t[i - 1] + messages[i].tokens ELSE t[i - 1]
    BY TotalsSteps
  <1>3. \A i \in 0..n : f[i].kept = K \cap (1..i)
    <2>1. n \in 0..n
      BY <1>1
    <2> QED BY <2>1, KeptInOrder
  <1> HIDE DEF n, f, K, t
  <1>4. 0 \in Good
    BY <1>1, <1>2
  <1>5. ASSUME NEW i \in 1..n, i - 1 \in Good PROVE i \in Good
    <2>1. Well(i - 1) /\ i \in 0..n /\ i - 1 \in 0..n /\ i \in 1..i /\ i \notin 1..(i - 1)
      BY <1>1, <1>5
    <2>2. i \notin f[i - 1].kept /\ (i \in K <=> i \in f[i].kept)
      BY <1>3, <2>1
    <2>3. CASE Left(i)
      <3>1. f[i] = f[i - 1]
        BY <1>1, <2>3
      <3>2. t[i] = t[i - 1]
        BY <1>2, <2>2, <3>1
      <3> QED BY <2>1, <3>1, <3>2
    <2>4. CASE ~Left(i)
      <3>1. /\ f[i].kept = f[i - 1].kept \cup {i}
            /\ f[i].tokens = f[i - 1].tokens + messages[i].tokens
        <4> HIDE DEF Left
        <4>1. f[i] = [kept |-> f[i - 1].kept \cup {i},
                      tokens |-> f[i - 1].tokens + messages[i].tokens]
          BY <1>1, <2>4
        <4> QED BY <4>1
      <3>2. t[i] = t[i - 1] + messages[i].tokens
        BY <1>2, <2>2, <3>1
      <3>3. f[i].tokens = t[i]
        BY <2>1, <3>1, <3>2
      <3>4. f[i].tokens <= max
        BY <2>4, <3>1 DEF Q!Fits
      <3>5. \A j, k \in f[i].kept :
              Q!Fingerprint(messages[j]) = Q!Fingerprint(messages[k]) => j = k
        BY <2>1, <2>4, <3>1 DEF Q!Repeats
      <3>6. \A j \in f[i].kept : messages[j].role \in Q!ContextRole
        BY <2>1, <2>4, <3>1
      <3> QED BY <2>1, <3>3, <3>4, <3>5, <3>6
    <2> QED BY <2>3, <2>4
  <1> HIDE DEF Good
  <1>6. 0..n \subseteq Good
    BY <1>1, <1>4, <1>5, UpTo
  <1> QED BY <1>6 DEF Good, n, f, K, t

(* The tokens of the positions before another are those counted up to it.  *)
LEMMA TokensBefore ==
  ASSUME NEW messages \in Seq(Message), NEW positions, NEW at \in 1..Len(messages)
  PROVE  Tokens(messages, {j \in positions : j < at}) = Totals(messages, positions)[at - 1]
  <1> DEFINE n == Len(messages)
             some == {j \in positions : j < at}
             u == Totals(messages, some)
             t == Totals(messages, positions)
             Same(k) == u[k] = t[IF k < at THEN k ELSE at - 1]
             Good == {k \in 0..n : Same(k)}
  <1>1. /\ n \in Nat /\ t[0] = 0
        /\ \A i \in 1..n : t[i] = IF i \in positions THEN t[i - 1] + messages[i].tokens ELSE t[i - 1]
    BY TotalsSteps
  <1>2. /\ u[0] = 0
        /\ \A i \in 1..n : u[i] = IF i \in some THEN u[i - 1] + messages[i].tokens ELSE u[i - 1]
    BY TotalsSteps
  <1>3. Tokens(messages, some) = u[n]
    BY TokensAreTotals
  <1>4. at \in 1..n
    OBVIOUS
  <1> HIDE DEF n, u, t
  <1>5. 0 \in Good
    BY <1>1, <1>2, <1>4
  <1>6. ASSUME NEW k \in 1..n, k - 1 \in Good PROVE k \in Good
    <2>1. u[k - 1] = t[IF k - 1 < at THEN k - 1 ELSE at - 1] /\ k \in 0..n
      BY <1>1, <1>6
    <2>2. CASE k < at
      <3>1. u[k - 1] = t[k - 1]
        BY <1>1, <1>4, <2>1, <2>2
      <3>2. k \in some <=> k \in positions
        BY <2>2
      <3>3. u[k] = t[k]
        BY <1>1, <1>2, <3>1, <3>2
      <3> QED BY <2>1, <2>2, <3>3
    <2>3. CASE ~(k < at)
      <3>1. k \notin some
        BY <2>3
      <3>2. u[k - 1] = t[at - 1]
        <4>1. k - 1 < at => k - 1 = at - 1
          BY <1>1, <1>4, <2>3
        <4> QED BY <2>1, <4>1
      <3>3. u[k] = t[at - 1]
        BY <1>2, <3>1, <3>2
      <3> QED BY <2>1, <2>3, <3>3
    <2> QED BY <2>2, <2>3
  <1> HIDE DEF Good
  <1>7. n \in Good
    <2>1. 0..n \subseteq Good
      BY <1>1, <1>5, <1>6, UpTo
    <2> QED BY <1>1, <2>1
  <1>8. ~(n < at)
    BY <1>1, <1>4
  <1> QED BY <1>3, <1>7, <1>8 DEF Good, t
-----------------------------------------------------------------------------
Goes(messages, kept, i) == messages[i].role \notin Q!ContextRole \/ i \in kept

(* What is sent of the messages up to each position: in their order, all   *)
(* that goes and no more.                                                  *)
LEMMA SentWell ==
  ASSUME NEW messages \in Seq(Message), NEW kept
  PROVE  LET n == Len(messages)
             f == Q!Sent(messages, kept)
         IN  \A k \in 0..n :
               /\ f[k] \in Seq(1..k)
               /\ \A i \in 1..k : Goes(messages, kept, i) => i \in ToSet(f[k])
               /\ \A j \in 1..Len(f[k]) : Goes(messages, kept, f[k][j])
               /\ \A j \in 1..(Len(f[k]) - 1) : f[k][j] < f[k][j + 1]
  <1> DEFINE n == Len(messages)
             f == Q!Sent(messages, kept)
             Well(k) == /\ f[k] \in Seq(1..k)
                        /\ \A i \in 1..k : Goes(messages, kept, i) => i \in ToSet(f[k])
                        /\ \A j \in 1..Len(f[k]) : Goes(messages, kept, f[k][j])
                        /\ \A j \in 1..(Len(f[k]) - 1) : f[k][j] < f[k][j + 1]
             Good == {k \in 0..n : Well(k)}
  <1>1. /\ n \in Nat /\ f[0] = << >>
        /\ \A i \in 1..n : f[i] = IF messages[i].role \in Q!ContextRole /\ i \notin kept
                                  THEN f[i - 1] ELSE Append(f[i - 1], i)
    BY SentSteps
  <1> HIDE DEF n, f
  <1>2. 0 \in Good
    <2>1. Len(<< >>) = 0 /\ << >> \in Seq(1..0) /\ 1..0 = {} /\ 1..(0 - 1) = {}
      OBVIOUS
    <2>2. Well(0)
      BY <1>1, <2>1
    <2> HIDE DEF Well
    <2> QED BY <1>1, <2>2
  <1>3. ASSUME NEW k \in 1..n, k - 1 \in Good PROVE k \in Good
    <2>1. Well(k - 1) /\ k \in 0..n
      <3> HIDE DEF Well
      <3> QED BY <1>1, <1>3
    <2> DEFINE before == f[k - 1]
               m == Len(before)
    <2>2. before \in Seq(1..(k - 1)) /\ m \in Nat
      BY <2>1
    <2>3. \A i \in 1..k : i = k \/ i \in 1..(k - 1)
      BY <1>1
    <2>4. CASE ~Goes(messages, kept, k)
      <3>1. f[k] = before
        BY <1>1, <2>4 DEF Goes
      <3> HIDE DEF before
      <3>2. before \in Seq(1..k)
        <4>1. (1..(k - 1)) \subseteq 1..k
          BY <1>1
        <4> QED BY <2>2, <4>1
      <3> QED BY <2>1, <2>3, <2>4, <3>1, <3>2 DEF before
    <2>5. CASE Goes(messages, kept, k)
      <3>1. f[k] = Append(before, k)
        BY <1>1, <2>5 DEF Goes
      <3> HIDE DEF before
      <3>2. before \in Seq(1..k)
        <4>1. (1..(k - 1)) \subseteq 1..k
          BY <1>1
        <4> QED BY <2>2, <4>1
      <3>3. k \in 1..k
        BY <1>1
      <3>4. /\ f[k] \in Seq(1..k) /\ Len(f[k]) = m + 1
            /\ f[k][m + 1] = k /\ \A j \in 1..m : f[k][j] = before[j]
        BY <3>1, <3>2, <3>3
      <3>5. DOMAIN before = 1..m /\ DOMAIN f[k] = 1..(m + 1)
        BY <2>2, <3>4
      <3>6. ASSUME NEW i \in 1..k, Goes(messages, kept, i) PROVE i \in ToSet(f[k])
        <4>1. CASE i = k
          <5>1. m + 1 \in DOMAIN f[k]
            BY <2>2, <3>5
          <5> QED BY <3>4, <4>1, <5>1 DEF ToSet
        <4>2. CASE i # k
          <5>1. i \in ToSet(before)
            BY <2>1, <2>3, <3>6, <4>2 DEF before
          <5>2. PICK j \in 1..m : before[j] = i
            BY <3>5, <5>1 DEF ToSet
          <5>3. j \in 1..(m + 1)
            BY <2>2
          <5>4. j \in DOMAIN f[k] /\ f[k][j] = i
            BY <3>4, <3>5, <5>2, <5>3
          <5> QED BY <5>4 DEF ToSet
        <4> QED BY <4>1, <4>2
      <3>7. ASSUME NEW j \in 1..Len(f[k]) PROVE Goes(messages, kept, f[k][j])
        <4>1. CASE j = m + 1
          BY <2>5, <3>4, <4>1
        <4>2. CASE j # m + 1
          <5>1. j \in 1..m
            BY <2>2, <3>4, <4>2
          <5> QED BY <2>1, <3>4, <5>1 DEF before
        <4> QED BY <4>1, <4>2
      <3>8. ASSUME NEW j \in 1..(Len(f[k]) - 1) PROVE f[k][j] < f[k][j + 1]
        <4>1. j \in 1..m
          BY <2>2, <3>4
        <4>2. CASE j = m
          <5>1. before[m] \in 1..(k - 1)
            BY <2>2, <4>1, <4>2
          <5> QED BY <1>1, <3>4, <4>1, <4>2, <5>1
        <4>3. CASE j # m
          <5>1. j \in 1..(m - 1) /\ j + 1 \in 1..m
            BY <2>2, <4>1, <4>3
          <5> QED BY <2>1, <3>4, <4>1, <5>1 DEF before
        <4> QED BY <4>2, <4>3
      <3>9. Well(k)
        BY <3>4, <3>6, <3>7, <3>8
      <3> QED BY <2>1, <3>9
    <2> QED BY <2>4, <2>5
  <1> HIDE DEF Good
  <1>4. 0..n \subseteq Good
    BY <1>1, <1>2, <1>3, UpTo
  <1> QED BY <1>4 DEF Good, n, f

Grows(f, n) ==
  \A k \in 0..n : \A i \in 0..k :
    Len(f[i]) <= Len(f[k]) /\ \A j \in 1..Len(f[i]) : f[k][j] = f[i][j]

(* What is sent of some messages begins what is sent of more.              *)
LEMMA SentGrows ==
  ASSUME NEW messages \in Seq(Message), NEW kept
  PROVE  Grows(Q!Sent(messages, kept), Len(messages))
  <1> DEFINE n == Len(messages)
             f == Q!Sent(messages, kept)
             Extends(k, i) == Len(f[i]) <= Len(f[k]) /\ \A j \in 1..Len(f[i]) : f[k][j] = f[i][j]
             Good == {k \in 0..n : \A i \in 0..k : Extends(k, i)}
  <1>1. /\ n \in Nat /\ f \in [0..n -> Seq(Int)]
        /\ \A i \in 1..n : f[i] = f[i - 1] \/ f[i] = Append(f[i - 1], i)
    <2>1. /\ n \in Nat /\ f \in [0..n -> Seq(Int)]
          /\ \A i \in 1..n : f[i] = IF messages[i].role \in Q!ContextRole /\ i \notin kept
                                    THEN f[i - 1] ELSE Append(f[i - 1], i)
      BY SentSteps
    <2> HIDE DEF n, f
    <2> QED BY <2>1
  <1> HIDE DEF n, f
  <1>2. ASSUME NEW k \in 0..n PROVE Extends(k, k) /\ Len(f[k]) \in Nat
    <2>1. Len(f[k]) \in Nat
      BY <1>1
    <2> QED BY <2>1
  <1>3. 0 \in Good
    <2>1. \A i \in 0..0 : i = 0
      OBVIOUS
    <2>2. 0 \in 0..n
      BY <1>1
    <2> HIDE DEF Extends
    <2> QED BY <1>2, <2>1, <2>2
  <1>4. ASSUME NEW k \in 1..n, k - 1 \in Good PROVE k \in Good
    <2>1. k \in 0..n /\ k - 1 \in 0..n /\ \A i \in 0..k : i = k \/ i \in 0..(k - 1)
      BY <1>1
    <2>2. Len(f[k - 1]) <= Len(f[k]) /\ \A j \in 1..Len(f[k - 1]) : f[k][j] = f[k - 1][j]
      <3>1. CASE f[k] = f[k - 1]
        BY <1>2, <2>1, <3>1
      <3>2. CASE f[k] = Append(f[k - 1], k)
        <4>1. f[k - 1] \in Seq(Int) /\ k \in Int
          BY <1>1, <2>1
        <4> QED BY <3>2, <4>1
      <3> QED BY <1>1, <3>1, <3>2
    <2>3. ASSUME NEW i \in 0..(k - 1) PROVE Extends(k, i)
      <3>1. Extends(k - 1, i)
        <4> HIDE DEF Extends
        <4> QED BY <1>4
      <3>2. i \in 0..n
        BY <1>1
      <3>3. Len(f[i]) \in Nat /\ Len(f[k - 1]) \in Nat /\ Len(f[k]) \in Nat
        BY <1>2, <2>1, <3>2
      <3>4. \A j \in 1..Len(f[i]) : j \in 1..Len(f[k - 1])
        BY <3>1, <3>3
      <3> QED BY <2>2, <3>1, <3>3, <3>4
    <2> HIDE DEF Extends
    <2>4. \A i \in 0..k : Extends(k, i)
      BY <1>2, <2>1, <2>3
    <2> QED BY <2>1, <2>4
  <1> HIDE DEF Good
  <1>5. 0..n \subseteq Good
    BY <1>1, <1>3, <1>4, UpTo
  <1>6. \A k \in 0..n : \A i \in 0..k : Extends(k, i)
    BY <1>5 DEF Good
  <1>7. Grows(f, n)
    BY <1>6 DEF Grows
  <1> QED BY <1>7 DEF n, f

(* What is sent keeps all of it when it is compiled again.                 *)
LEMMA SentAgain ==
  ASSUME NEW messages \in Seq(Message), NEW max \in Int
  PROVE  LET sent == Q!CompileMessages(messages, max)
             again == [i \in DOMAIN sent |-> messages[sent[i]]]
         IN  Len(Q!CompileMessages(again, max)) = Len(again)
  <1> DEFINE n == Len(messages)
             c == Q!Compiled(messages, max)
             K == c[n].kept
             s == Q!Sent(messages, K)
             sent == s[n]
             again == [i \in DOMAIN sent |-> messages[sent[i]]]
             c2 == Q!Compiled(again, max)
             Left(i) == \/ messages[i].role \notin Q!ContextRole
                        \/ Q!Repeats(messages, c[i - 1].kept, i)
                        \/ ~Q!Fits(c[i - 1].tokens, messages[i], max)
             Left2(i) == \/ again[i].role \notin Q!ContextRole
                         \/ Q!Repeats(again, c2[i - 1].kept, i)
                         \/ ~Q!Fits(c2[i - 1].tokens, again[i], max)
  <1>1. Q!CompileMessages(messages, max) = sent
    BY DEF Q!CompileMessages, Q!CompileContext
  <1>2. /\ n \in Nat /\ c[0] = [kept |-> {}, tokens |-> 0]
        /\ \A i \in 1..n : c[i] = IF Left(i) THEN c[i - 1]
                                  ELSE [kept |-> c[i - 1].kept \cup {i},
                                        tokens |-> c[i - 1].tokens + messages[i].tokens]
    BY CompiledSteps
  <1>3. \A i \in 0..n : c[i].kept = K \cap (1..i)
    <2>1. n \in 0..n
      BY <1>2
    <2> QED BY <2>1, KeptInOrder
  <1>4. /\ s[0] = << >> /\ s \in [0..n -> Seq(Int)]
        /\ \A i \in 1..n : s[i] = IF messages[i].role \in Q!ContextRole /\ i \notin K
                                  THEN s[i - 1] ELSE Append(s[i - 1], i)
    BY SentSteps
  <1>5. \A k \in 0..n : s[k] \in Seq(1..k) /\ \A j \in 1..Len(s[k]) : Goes(messages, K, s[k][j])
    BY SentWell
  <1>6. \A i \in 0..n : Len(s[i]) <= Len(sent) /\ \A j \in 1..Len(s[i]) : sent[j] = s[i][j]
    <2>1. Grows(s, n)
      BY SentGrows
    <2>2. n \in 0..n
      BY <1>2
    <2> HIDE DEF n, s
    <2> QED BY <2>1, <2>2 DEF Grows
  <1>7. sent \in Seq(1..n) /\ Len(sent) \in Nat /\ DOMAIN sent = 1..Len(sent)
    BY <1>2, <1>5
  <1>21. \A j \in 1..Len(sent) : sent[j] \in 1..n
    BY <1>7
  <1>8. again \in Seq(Message) /\ Len(again) = Len(sent)
    <2>1. \A j \in 1..Len(sent) : messages[sent[j]] \in Message
      <3> TAKE j \in 1..Len(sent)
      <3>1. sent[j] \in 1..n
        BY <1>7
      <3> QED BY <3>1
    <2>2. again = [j \in 1..Len(sent) |-> messages[sent[j]]]
      BY <1>7
    <2> HIDE DEF sent, again
    <2> QED BY <1>7, <2>1, <2>2
  <1>9. \A j \in 1..Len(sent) : again[j] = messages[sent[j]]
    BY <1>7
  <1>10. /\ c2[0] = [kept |-> {}, tokens |-> 0]
         /\ \A i \in 1..Len(again) :
              c2[i] = IF Left2(i) THEN c2[i - 1]
                      ELSE [kept |-> c2[i - 1].kept \cup {i},
                            tokens |-> c2[i - 1].tokens + again[i].tokens]
    <2> HIDE DEF again
    <2> QED BY <1>8, CompiledSteps
  <1>11. \A i \in 1..n : messages[i] \in Message
    OBVIOUS
  <1> HIDE DEF n, c, K, s, again, c2
  <1> DEFINE m(i) == Len(s[i])
             Alike(i) == /\ c2[m(i)].tokens = c[i].tokens
                         /\ c2[m(i)].kept = {j \in 1..m(i) : sent[j] \in c[i].kept}
             Good == {i \in 0..n : Alike(i)}
  <1>12. 0 \in Good
    <2>1. m(0) = 0 /\ 1..0 = {}
      BY <1>4
    <2>2. Alike(0)
      BY <1>2, <1>10, <2>1
    <2> HIDE DEF Alike
    <2> QED BY <1>2, <2>2
  <1>13. ASSUME NEW i \in 1..n, i - 1 \in Good PROVE i \in Good
    <2>1. Alike(i - 1) /\ i \in 0..n /\ i - 1 \in 0..n
      <3> HIDE DEF Alike
      <3> QED BY <1>2, <1>13
    <2>2. c[i - 1].kept \subseteq 1..(i - 1) /\ i \notin 1..(i - 1)
      BY <1>2, <1>3, <2>1
    <2>3. i \in c[i].kept <=> i \in K
      <3>1. i \in 1..i
        BY <1>2
      <3> QED BY <1>3, <2>1, <3>1
    <2>4. CASE messages[i].role \in Q!ContextRole /\ i \notin K
      <3>1. s[i] = s[i - 1]
        BY <1>4, <2>4
      <3>2. c[i] = c[i - 1]
        <4>1. c[i] = c[i - 1] \/ c[i] = [kept |-> c[i - 1].kept \cup {i},
                                       tokens |-> c[i - 1].tokens + messages[i].tokens]
          BY <1>2
        <4>2. i \notin c[i].kept
          BY <2>3, <2>4
        <4> QED BY <4>1, <4>2
      <3>3. Alike(i)
        BY <2>1, <3>1, <3>2
      <3> HIDE DEF Alike
      <3> QED BY <2>1, <3>3
    <2>5. CASE ~(messages[i].role \in Q!ContextRole /\ i \notin K)
      <3> DEFINE k == m(i)
      <3>1. s[i] = Append(s[i - 1], i) /\ s[i - 1] \in Seq(1..(i - 1))
        BY <1>4, <1>5, <2>1, <2>5
      <3>2. m(i - 1) \in Nat /\ k = m(i - 1) + 1 /\ s[i][k] = i
        BY <3>1
      <3>3. k \in 1..Len(sent) /\ sent[k] = i /\ k - 1 = m(i - 1)
        <4>1. m(i) <= Len(sent) /\ \A j \in 1..m(i) : sent[j] = s[i][j]
          BY <1>6, <2>1
        <4>2. k \in 1..m(i)
          BY <3>2
        <4> QED BY <1>7, <3>2, <4>1, <4>2
      <3>4. again[k] = messages[i]
        BY <1>9, <3>3
      <3>5. \A j \in 1..(k - 1) : sent[j] \in 1..(i - 1)
        <4> TAKE j \in 1..(k - 1)
        <4>1. j \in 1..m(i - 1)
          BY <3>3
        <4>2. sent[j] = s[i - 1][j]
          BY <1>6, <2>1, <4>1
        <4> QED BY <3>1, <4>1, <4>2
      <3>6. \A j \in 1..k : j = k \/ j \in 1..(k - 1)
        BY <3>2
      <3>7. k \in 1..k /\ k \notin 1..(k - 1) /\ \A j \in 1..(k - 1) : j \in 1..k
        BY <3>2
      <3>8. /\ c2[k - 1].tokens = c[i - 1].tokens
            /\ c2[k - 1].kept = {j \in 1..(k - 1) : sent[j] \in c[i - 1].kept}
        BY <2>1, <3>3
      <3>9. c2[k] = IF Left2(k) THEN c2[k - 1]
                    ELSE [kept |-> c2[k - 1].kept \cup {k},
                          tokens |-> c2[k - 1].tokens + again[k].tokens]
        BY <1>8, <1>10, <3>3
      <3>10. c[i] = IF Left(i) THEN c[i - 1]
                    ELSE [kept |-> c[i - 1].kept \cup {i},
                          tokens |-> c[i - 1].tokens + messages[i].tokens]
        BY <1>2
      <3> HIDE DEF k, m
      <3>11. CASE messages[i].role \notin Q!ContextRole
        <4>1. c2[k] = c2[k - 1] /\ c[i] = c[i - 1]
          BY <3>4, <3>9, <3>10, <3>11
        <4>2. {j \in 1..(k - 1) : sent[j] \in c[i - 1].kept} = {j \in 1..k : sent[j] \in c[i - 1].kept}
          BY <2>2, <3>3, <3>6, <3>7
        <4>3. c2[k].tokens = c[i].tokens /\ c2[k].kept = {j \in 1..k : sent[j] \in c[i].kept}
          BY <3>8, <4>1, <4>2
        <4> QED BY <2>1, <4>3 DEF k
      <3>12. CASE messages[i].role \in Q!ContextRole
        <4>1. i \in c[i].kept
          BY <2>3, <2>5, <3>12
        <4>2. ~Left(i)
          <5> HIDE DEF Left
          <5> QED BY <2>2, <3>10, <4>1
        <4>3. ~Q!Repeats(again, c2[k - 1].kept, k)
          <5> SUFFICES ASSUME NEW j \in c2[k - 1].kept,
                              Q!Fingerprint(again[j]) = Q!Fingerprint(again[k])
                       PROVE  FALSE
            BY DEF Q!Repeats
          <5>1. j \in 1..(k - 1) /\ sent[j] \in c[i - 1].kept
            BY <3>8
          <5>2. again[j] = messages[sent[j]]
            <6>1. j \in 1..Len(sent)
              BY <1>7, <3>3, <5>1
            <6> QED BY <1>9, <6>1
          <5>3. Q!Repeats(messages, c[i - 1].kept, i)
            BY <3>4, <5>1, <5>2 DEF Q!Repeats
          <5> QED BY <4>2, <5>3
        <4>4. ~Left2(k)
          BY <3>4, <3>8, <4>2, <4>3
        <4> HIDE DEF Left, Left2
        <4>5. /\ c[i] = [kept |-> c[i - 1].kept \cup {i},
                         tokens |-> c[i - 1].tokens + messages[i].tokens]
              /\ c2[k] = [kept |-> c2[k - 1].kept \cup {k},
                          tokens |-> c2[k - 1].tokens + again[k].tokens]
          BY <3>9, <3>10, <4>2, <4>4
        <4>6. c2[k].tokens = c[i].tokens
          BY <3>4, <3>8, <4>5
        <4>7. /\ c[i].kept = c[i - 1].kept \cup {i} /\ c2[k].kept = c2[k - 1].kept \cup {k}
          BY <4>5
        <4>8. c2[k].kept = {j \in 1..k : sent[j] \in c[i].kept}
          <5>1. ASSUME NEW j \in 1..(k - 1)
                PROVE  sent[j] \in c[i].kept <=> sent[j] \in c[i - 1].kept
            BY <2>2, <3>5, <4>7
          <5> QED BY <3>3, <3>6, <3>7, <3>8, <4>1, <4>7, <5>1
        <4> QED BY <2>1, <4>6, <4>8 DEF k
      <3> QED BY <3>11, <3>12
    <2> QED BY <2>4, <2>5
  <1>14. Alike(n)
    <2> HIDE DEF Good
    <2>1. 0..n \subseteq Good
      BY <1>2, <1>12, <1>13, UpTo
    <2>2. n \in Good
      BY <1>2, <2>1
    <2> QED BY <2>2 DEF Good
  <1> DEFINE N == Len(again)
             K2 == c2[N].kept
             s2 == Q!Sent(again, K2)
             Longs == {i \in 0..N : Len(s2[i]) = i /\ s2[i] \in Seq(Int)}
  <1>15. \A j \in 1..N : ~(again[j].role \in Q!ContextRole /\ j \notin K2)
    <2> TAKE j \in 1..N
    <2>1. j \in 1..Len(sent) /\ again[j] = messages[sent[j]] /\ sent[j] \in 1..n
      <3>1. j \in 1..Len(sent)
        BY <1>8
      <3> QED BY <1>9, <1>21, <3>1
    <2>2. Goes(messages, K, sent[j])
      <3>1. n \in 0..n
        BY <1>2
      <3> QED BY <1>5, <2>1, <3>1
    <2>3. K2 = {i \in 1..Len(sent) : sent[i] \in K}
      BY <1>8, <1>14 DEF K
    <2> QED BY <2>1, <2>2, <2>3 DEF Goes
  <1>16. /\ s2[0] = << >> /\ N \in Nat
         /\ \A i \in 1..N : s2[i] = IF again[i].role \in Q!ContextRole /\ i \notin K2
                                    THEN s2[i - 1] ELSE Append(s2[i - 1], i)
    BY <1>8, SentSteps
  <1>17. Q!CompileMessages(again, max) = s2[N]
    BY DEF Q!CompileMessages, Q!CompileContext, c2
  <1> HIDE DEF N, K2, s2
  <1>18. 0 \in Longs
    <2>1. Len(<< >>) = 0 /\ << >> \in Seq(Int) /\ 0 \in 0..N
      BY <1>16
    <2> QED BY <1>16, <2>1
  <1>19. ASSUME NEW i \in 1..N, i - 1 \in Longs PROVE i \in Longs
    <2>1. s2[i] = Append(s2[i - 1], i)
      BY <1>15, <1>16
    <2>2. s2[i - 1] \in Seq(Int) /\ Len(s2[i - 1]) = i - 1 /\ i \in Int /\ i \in 0..N
      BY <1>16, <1>19
    <2>3. s2[i] \in Seq(Int) /\ Len(s2[i]) = (i - 1) + 1
      BY <2>1, <2>2
    <2> QED BY <2>2, <2>3
  <1>20. Len(s2[N]) = N
    <2> HIDE DEF Longs
    <2>1. 0..N \subseteq Longs
      BY <1>16, <1>18, <1>19, UpTo
    <2>2. N \in Longs
      BY <1>16, <2>1
    <2> QED BY <2>2 DEF Longs
  <1> QED BY <1>1, <1>17, <1>20 DEF N, again, s

(* A question stays the one that was asked, and what is answered is what   *)
(* the algorithm it is about gives.                                        *)
UnitInv ==
  question.about = "unit" =>
    /\ question.unit \in Unit /\ question.bundle \in Bundle /\ question.mode \in PlanMode
    /\ decision # None => decision = EvaluatePolicy(question.unit, question.bundle)
    /\ answer # None => /\ decision # None
                        /\ answer = PlanWorkUnit(question.unit, decision, question.mode)
JobInv ==
  question.about = "job" =>
    question.job \in Job /\ (answer # None => answer = S!ScheduleJob(question.job))
RangeInv ==
  question.about = "range" =>
    /\ question.read \in RangeRead
    /\ answer # None =>
         answer = R!ReadRange(ManifestOf(question.read), question.read.start, question.read.end)
PromptInv ==
  question.about = "prompt" =>
    /\ \E p \in Prompt : question.messages = p.messages /\ question.max = p.max
    /\ answer # None =>
         answer = [context |-> Q!CompileContext(question.messages, question.max),
                   sent |-> Q!CompileMessages(question.messages, question.max)]
RouteInv ==
  question.about = "route" =>
    LET task == question.task
    IN  /\ task \in Routing
        /\ answer # None =>
             answer = [routed |-> Q!RouteModel(task.risky, task.easy, task.models),
                       fallback |-> Q!FallbackModel(task.models),
                       baseline |-> Q!BaselineModel(task.requested, task.models)]
ImpactInv ==
  question.about = "impact" =>
    question.scenario \in Scenario /\ (answer # None => answer = V!ModelImpact(question.scenario))
ReductionInv ==
  /\ question.about = "reducer" =>
       LET asked == question.asked
       IN  /\ asked \in Reduction
           /\ answer # None => answer = EvaluateReducer(asked.unit, asked.name, asked.results)
  /\ question.about = "samples" =>
       question.words \in Samples /\ (answer # None => answer = DedupeSamples(question.words))
  /\ question.about = "table" =>
       LET table == question.table
       IN  /\ table \in Table
           /\ answer # None => answer = RecommendCompaction(table.files, table.target, table.least)
AnswerInv ==
  UnitInv /\ JobInv /\ RangeInv /\ PromptInv /\ RouteInv /\ ImpactInv /\ ReductionInv

(* Each answer is given once, and the question stays.                      *)
LEMMA AnswerInitially ==
  ASSUME DecisionInit
  PROVE  AnswerInv
  <1>1. decision = None /\ answer = None
    BY DEF DecisionInit
  <1>2. CASE \E u \in Unit, b \in Bundle, m \in PlanMode :
               question = [about |-> "unit", unit |-> u, bundle |-> b, mode |-> m]
    BY <1>1, <1>2 DEF AnswerInv, UnitInv, JobInv, RangeInv, PromptInv, RouteInv, ImpactInv,
           ReductionInv
  <1>3. CASE \E p \in Prompt :
               question = [about |-> "prompt", messages |-> p.messages, max |-> p.max]
    BY <1>1, <1>3 DEF AnswerInv, UnitInv, JobInv, RangeInv, PromptInv, RouteInv, ImpactInv,
           ReductionInv
  <1>4. CASE \/ \E j \in Job : question = [about |-> "job", job |-> j]
             \/ \E r \in RangeRead : question = [about |-> "range", read |-> r]
             \/ \E r \in Reduction : question = [about |-> "reducer", asked |-> r]
    BY <1>1, <1>4 DEF AnswerInv, UnitInv, JobInv, RangeInv, PromptInv, RouteInv, ImpactInv,
           ReductionInv
  <1>5. CASE \/ \E w \in Samples : question = [about |-> "samples", words |-> w]
             \/ \E t \in Table : question = [about |-> "table", table |-> t]
    BY <1>1, <1>5 DEF AnswerInv, UnitInv, JobInv, RangeInv, PromptInv, RouteInv, ImpactInv,
           ReductionInv
  <1>6. CASE \/ \E s \in Scenario : question = [about |-> "impact", scenario |-> s]
             \/ \E r \in Routing : question = [about |-> "route", task |-> r]
    BY <1>1, <1>6 DEF AnswerInv, UnitInv, JobInv, RangeInv, PromptInv, RouteInv, ImpactInv,
           ReductionInv
  <1> QED BY <1>2, <1>3, <1>4, <1>5, <1>6 DEF DecisionInit

LEMMA AnswerStep ==
  ASSUME AnswerInv, [DecisionNext]_decisionVars
  PROVE  AnswerInv'
  <1>1. CASE DecideUnit
    BY <1>1 DEF DecideUnit, AnswerInv, UnitInv, JobInv, RangeInv, PromptInv, RouteInv,
           ImpactInv, ReductionInv
  <1>2. CASE PlanUnit
    BY <1>2 DEF PlanUnit, AnswerInv, UnitInv, JobInv, RangeInv, PromptInv, RouteInv,
           ImpactInv, ReductionInv
  <1>3. CASE DecideJob
    BY <1>3 DEF DecideJob, Answer, AnswerInv, UnitInv, JobInv, RangeInv, PromptInv, RouteInv,
           ImpactInv, ReductionInv
  <1>4. CASE AnswerRange
    BY <1>4 DEF AnswerRange, Answer, AnswerInv, UnitInv, JobInv, RangeInv, PromptInv, RouteInv,
           ImpactInv, ReductionInv
  <1>5. CASE DecideReducer
    BY <1>5 DEF DecideReducer, Answer, AnswerInv, UnitInv, JobInv, RangeInv, PromptInv, RouteInv,
           ImpactInv, ReductionInv
  <1>6. CASE ReduceSamples
    BY <1>6 DEF ReduceSamples, Answer, AnswerInv, UnitInv, JobInv, RangeInv, PromptInv, RouteInv,
           ImpactInv, ReductionInv
  <1>7. CASE GroupFiles
    BY <1>7 DEF GroupFiles, Answer, AnswerInv, UnitInv, JobInv, RangeInv, PromptInv, RouteInv,
           ImpactInv, ReductionInv
  <1>8. CASE EstimateImpact
    BY <1>8 DEF EstimateImpact, Answer, AnswerInv, UnitInv, JobInv, RangeInv, PromptInv, RouteInv,
           ImpactInv, ReductionInv
  <1>9. CASE PreparePrompt
    BY <1>9 DEF PreparePrompt, Answer, AnswerInv, UnitInv, JobInv, RangeInv, PromptInv, RouteInv,
           ImpactInv, ReductionInv
  <1>10. CASE RoutePrompt
    BY <1>10 DEF RoutePrompt, Answer, AnswerInv, UnitInv, JobInv, RangeInv, PromptInv, RouteInv,
           ImpactInv, ReductionInv
  <1>11. CASE UNCHANGED decisionVars
    BY <1>11 DEF decisionVars, AnswerInv, UnitInv, JobInv, RangeInv, PromptInv, RouteInv,
           ImpactInv, ReductionInv
  <1> QED BY <1>1, <1>2, <1>3, <1>4, <1>5, <1>6, <1>7, <1>8, <1>9, <1>10, <1>11 DEF DecisionNext

THEOREM AnswersStand == DecisionSpec => []AnswerInv
  <1>1. AnswerInv /\ [DecisionNext]_decisionVars => AnswerInv'
    BY AnswerStep
  <1> QED BY <1>1, AnswerInitially, PTL DEF DecisionSpec

(* A job that is deferred ends before its deadline, is deferred by a day   *)
(* at most, and is neither forced nor interactive (scheduler.py:91-106).   *)
THEOREM DeferralsMeetDeadlines == DecisionSpec => []DeferralMeetsDeadline
  <1>1. JobInv => DeferralMeetsDeadline
    BY ShiftInTime DEF JobInv, DeferralMeetsDeadline, Answered
  <1>2. AnswerInv => JobInv
    BY DEF AnswerInv
  <1> QED BY <1>1, <1>2, AnswersStand, PTL

(* However an object is cut, its chunks follow one another without a gap   *)
(* and keep their limits, and a read of a range of it gives exactly those  *)
(* bytes, or is refused because one of them is in a chunk that is gone     *)
(* (chunking.py:29-72, executor.py:283-325).                               *)
THEOREM RangesAlwaysExact == DecisionSpec => []RangesExact
  <1>1. RangeInv => ChunksTile
    BY ChunksTileOne DEF RangeInv
  <1>2. RangeInv => ReadExact
    <2> SUFFICES ASSUME RangeInv, Answered("range") PROVE ReadExact
      BY DEF ReadExact
    <2> DEFINE read == question.read
    <2>1. read \in RangeRead /\ answer = R!ReadRange(ManifestOf(read), read.start, read.end)
      BY DEF RangeInv, Answered
    <2> HIDE DEF read
    <2> QED BY <2>1, ReadRangeExact DEF ReadExact, read
  <1>3. AnswerInv => RangeInv
    BY DEF AnswerInv
  <1>4. AnswerInv => RangesExact
    BY <1>1, <1>2, <1>3 DEF RangesExact
  <1> QED BY <1>4, AnswersStand, PTL

(* What compile_context keeps, and what it leaves out and why.             *)
LEMMA ContextWell ==
  ASSUME NEW messages \in Seq(Message), NEW max \in Int
  PROVE  LET context == Q!CompileContext(messages, max)
             kept == context.kept
         IN  /\ context.tokens = Tokens(messages, kept)
             /\ kept = {} \/ context.tokens <= max
             /\ \A i, j \in kept : Q!Fingerprint(messages[i]) = Q!Fingerprint(messages[j]) => i = j
             /\ \A i \in 1..Len(messages) :
                  \/ Goes(messages, kept, i)
                  \/ \E j \in kept : j < i /\ Q!Fingerprint(messages[j]) = Q!Fingerprint(messages[i])
                  \/ Tokens(messages, {j \in kept : j < i}) + messages[i].tokens > max
  <1> DEFINE n == Len(messages)
             f == Q!Compiled(messages, max)
             K == f[n].kept
             Left(i) == \/ messages[i].role \notin Q!ContextRole
                        \/ Q!Repeats(messages, f[i - 1].kept, i)
                        \/ ~Q!Fits(f[i - 1].tokens, messages[i], max)
  <1>1. /\ n \in Nat /\ f[0] = [kept |-> {}, tokens |-> 0]
        /\ \A i \in 1..n : f[i] = IF Left(i) THEN f[i - 1]
                                  ELSE [kept |-> f[i - 1].kept \cup {i},
                                        tokens |-> f[i - 1].tokens + messages[i].tokens]
    BY CompiledSteps
  <1>11. f \in [0..n -> [kept : SUBSET (1..n), tokens : Nat]]
    BY CompiledSteps
  <1>2. n \in 0..n
    BY <1>1
  <1>3. \A i \in 0..n : f[i].kept = K \cap (1..i)
    BY <1>2, KeptInOrder
  <1>4. /\ \A i \in 0..n : f[i].tokens = Totals(messages, K)[i]
        /\ K = {} \/ f[n].tokens <= max
        /\ \A j, k \in K : Q!Fingerprint(messages[j]) = Q!Fingerprint(messages[k]) => j = k
    BY <1>2, KeptWell
  <1>5. Q!CompileContext(messages, max) = f[n]
    BY DEF Q!CompileContext
  <1>6. Tokens(messages, K) = Totals(messages, K)[n]
    BY TokensAreTotals
  <1>7. \A i \in 1..n : messages[i] \in Message
    OBVIOUS
  <1>8. \A i \in 1..n : Tokens(messages, {j \in K : j < i}) = Totals(messages, K)[i - 1]
    BY TokensBefore
  <1> HIDE DEF n, f, K, Left
  <1>9. ASSUME NEW i \in 1..n, ~Goes(messages, K, i)
        PROVE  \/ \E j \in K : j < i /\ Q!Fingerprint(messages[j]) = Q!Fingerprint(messages[i])
               \/ Tokens(messages, {j \in K : j < i}) + messages[i].tokens > max
    <2>1. i - 1 \in 0..n /\ i \in 0..n /\ i \in 1..i
      BY <1>1
    <2>2. i \notin f[i].kept
      BY <1>3, <1>9, <2>1 DEF Goes
    <2>3. Left(i)
      <3>1. f[i] = [kept |-> f[i - 1].kept \cup {i},
                    tokens |-> f[i - 1].tokens + messages[i].tokens] => i \in f[i].kept
        OBVIOUS
      <3> QED BY <1>1, <2>2, <3>1
    <2>4. CASE Q!Repeats(messages, f[i - 1].kept, i)
      <3>1. PICK j \in f[i - 1].kept : Q!Fingerprint(messages[j]) = Q!Fingerprint(messages[i])
        BY <2>4 DEF Q!Repeats
      <3>2. j \in K /\ j \in 1..(i - 1)
        BY <1>3, <2>1, <3>1
      <3>3. j < i
        BY <1>1, <3>2
      <3> QED BY <3>1, <3>2, <3>3
    <2>5. CASE ~Q!Fits(f[i - 1].tokens, messages[i], max)
      <3>1. f[i - 1].tokens = Tokens(messages, {j \in K : j < i})
        BY <1>4, <1>8, <2>1
      <3>2. f[i - 1].tokens \in Nat
        BY <1>11, <2>1
      <3>3. messages[i].tokens \in Nat
        BY <1>7 DEF Message
      <3>4. ~(f[i - 1].tokens + messages[i].tokens <= max)
        BY <2>5 DEF Q!Fits
      <3>5. f[i - 1].tokens + messages[i].tokens > max
        BY <3>2, <3>3, <3>4
      <3> QED BY <3>1, <3>5
    <2> QED BY <1>9, <2>3, <2>4, <2>5 DEF Left, Goes
  <1>10. f[n].tokens = Tokens(messages, K)
    BY <1>2, <1>4, <1>6
  <1> QED BY <1>4, <1>5, <1>9, <1>10 DEF n, K

(* ContextCompiled and RoutesAllowed of one question.                      *)
LEMMA ContextCompiledOne ==
  ASSUME PromptInv, Answered("prompt")
  PROVE  ContextCompiled
  <1> DEFINE messages == question.messages
             max == question.max
             kept == answer.context.kept
             sent == answer.sent
             n == Len(messages)
             again == [i \in DOMAIN sent |-> messages[sent[i]]]
  <1>1. messages \in Seq(Message) /\ max \in Int
    BY PromptAssumption DEF PromptInv, Answered, Message
  <1>2. answer = [context |-> Q!CompileContext(messages, max),
                  sent |-> Q!CompileMessages(messages, max)]
    BY DEF PromptInv, Answered
  <1>3. answer.context = Q!CompileContext(messages, max) /\ sent = Q!CompileMessages(messages, max)
    BY <1>2
  <1>4. sent = Q!Sent(messages, kept)[n]
    BY <1>3 DEF Q!CompileMessages
  <1> HIDE DEF messages, max, sent
  <1>5. n \in Nat /\ n \in 0..n /\ DOMAIN messages = 1..n
    BY <1>1
  <1>6. /\ sent \in Seq(1..n)
        /\ \A i \in 1..n : Goes(messages, kept, i) => i \in ToSet(sent)
        /\ \A j \in 1..(Len(sent) - 1) : sent[j] < sent[j + 1]
    <2> HIDE DEF kept
    <2> QED BY <1>1, <1>4, <1>5, SentWell
  <1>7. Len(Q!CompileMessages(again, max)) = Len(again)
    BY <1>1, <1>3, SentAgain
  <1>8. /\ answer.context.tokens = Tokens(messages, kept)
        /\ kept = {} \/ answer.context.tokens <= max
        /\ \A i, j \in kept : Q!Fingerprint(messages[i]) = Q!Fingerprint(messages[j]) => i = j
        /\ \A i \in 1..n :
             \/ Goes(messages, kept, i)
             \/ \E j \in kept : j < i /\ Q!Fingerprint(messages[j]) = Q!Fingerprint(messages[i])
             \/ Tokens(messages, {j \in kept : j < i}) + messages[i].tokens > max
    BY <1>1, <1>3, ContextWell
  <1> HIDE DEF n, kept, again
  <1>9. ASSUME NEW i \in DOMAIN messages, i \notin ToSet(sent)
        PROVE  /\ messages[i].role \in Q!ContextRole
               /\ \/ \E j \in kept : j < i /\ Q!Fingerprint(messages[j]) = Q!Fingerprint(messages[i])
                  \/ Tokens(messages, {j \in kept : j < i}) + messages[i].tokens > max
    <2>1. i \in 1..n /\ ~Goes(messages, kept, i)
      BY <1>5, <1>6, <1>9
    <2> QED BY <1>8, <2>1 DEF Goes
  <1>10. kept = {} \/ Tokens(messages, kept) <= max
    BY <1>8
  <1> QED BY <1>6, <1>7, <1>8, <1>9, <1>10 DEF ContextCompiled, messages, max, sent, kept, again

LEMMA RoutesAllowedOne ==
  ASSUME RouteInv, Answered("route")
  PROVE  RoutesAllowed
  <1> DEFINE task == question.task
             models == task.models
             n == Len(models)
             ordered == \A i, j \in DOMAIN models : i < j => Strength[models[i]] < Strength[models[j]]
  <1>1. /\ task \in Routing
        /\ answer = [routed |-> Q!RouteModel(task.risky, task.easy, models),
                     fallback |-> Q!FallbackModel(models),
                     baseline |-> Q!BaselineModel(task.requested, models)]
    BY DEF RouteInv, Answered
  <1>2. models \in Seq(EveryModel) \ {<< >>}
    BY <1>1, RoutingAssumption
  <1> HIDE DEF task, models
  <1>3. /\ n \in Nat \ {0} /\ DOMAIN models = 1..n
        /\ Head(models) = models[1] /\ Last(models) = models[n]
        /\ \A i \in 1..n : models[i] \in EveryModel
    BY <1>2 DEF Last
  <1> HIDE DEF n
  <1>4. ToSet(models) = {models[i] : i \in 1..n}
    BY <1>3 DEF ToSet
  <1>5. 1 \in 1..n /\ n \in 1..n
    BY <1>3
  <1>6. Head(models) \in ToSet(models) /\ Last(models) \in ToSet(models)
    BY <1>3, <1>4, <1>5
  <1>7. /\ answer.routed = Q!RouteModel(task.risky, task.easy, models)
        /\ answer.fallback = Q!FallbackModel(models)
        /\ answer.baseline = Q!BaselineModel(task.requested, models)
    BY <1>1
  <1>13. Q!ToSet(models) = ToSet(models) /\ Q!Last(models) = Last(models)
    BY DEF Q!ToSet, ToSet, Q!Last, Last
  <1>8. {answer.routed, answer.fallback} \subseteq ToSet(models)
    BY <1>6, <1>7, <1>13 DEF Q!RouteModel, Q!FallbackModel, Q!Named
  <1>9. answer.baseline \in ToSet(models) \cup {task.requested}
    BY <1>6, <1>7, <1>13 DEF Q!BaselineModel, Q!FallbackModel, Q!Named
  <1>10. ASSUME ordered, NEW m \in ToSet(models)
         PROVE  Strength[m] <= Strength[answer.fallback]
    <2>1. \A k \in EveryModel : Strength[k] \in 1..4 /\ Strength[k] <= Strength["frontier"]
      BY DEF EveryModel, Strength
    <2>2. PICK i \in 1..n : m = models[i]
      BY <1>4
    <2>3. m \in EveryModel /\ Last(models) \in EveryModel
      BY <1>3, <1>5, <2>2
    <2>4. Strength[m] <= Strength[Last(models)]
      <3>1. CASE i = n
        BY <1>3, <2>1, <2>2, <2>3, <3>1
      <3>2. CASE i # n
        <4>1. i < n
          BY <1>3, <3>2
        <4>2. Strength[models[i]] < Strength[models[n]]
          BY <1>3, <1>5, <1>10, <4>1
        <4> QED BY <1>3, <2>1, <2>2, <2>3, <4>2
      <3> QED BY <3>1, <3>2
    <2>5. answer.fallback = "frontier" \/ answer.fallback = Last(models)
      BY <1>7, <1>13 DEF Q!FallbackModel, Q!Named
    <2> QED BY <2>1, <2>3, <2>4, <2>5
  <1>11. task.risky => answer.routed = answer.fallback
    BY <1>7 DEF Q!RouteModel, Q!FallbackModel
  <1>12. ordered => /\ Strength[answer.routed] <= Strength[answer.fallback]
                    /\ task.risky => \A m \in ToSet(models) : Strength[m] <= Strength[answer.routed]
    BY <1>8, <1>10, <1>11
  <1> QED BY <1>8, <1>9, <1>12 DEF RoutesAllowed, task, models

(* The context of a prompt stays in its limit, says nothing twice, leaves  *)
(* out only what is said before or does not fit, and compiling what is     *)
(* sent again changes nothing; and a prompt is routed to a model of the    *)
(* policy, a risky one to the strongest (context.py:45-85,                 *)
(* ai_router.py:20-45, ai_gateway.py:316, 337, 942-952).                   *)
THEOREM RequestsAlwaysPrepared == DecisionSpec => []RequestsPrepared
  <1>1. PromptInv => ContextCompiled
    BY ContextCompiledOne DEF ContextCompiled
  <1>2. RouteInv => RoutesAllowed
    BY RoutesAllowedOne DEF RoutesAllowed
  <1>3. AnswerInv => RequestsPrepared
    BY <1>1, <1>2 DEF AnswerInv, RequestsPrepared
  <1> QED BY <1>3, AnswersStand, PTL
-----------------------------------------------------------------------------
(* Some numbers between two bounds have a least and a greatest.            *)
LEMMA LeastAndGreatest ==
  ASSUME NEW n \in Nat, NEW X \in SUBSET (1..n), X # {}
  PROVE  /\ Min(X) \in X /\ \A y \in X : Min(X) <= y
         /\ Max(X) \in X /\ \A y \in X : Max(X) >= y
  <1>1. PICK x \in X : \A y \in X : x <= y
    <2>1. IsWellFoundedOn(OpToRel(<, Nat), Nat)
      BY NatLessThanWellFounded
    <2>2. X \subseteq Nat
      OBVIOUS
    <2>3. PICK x \in X : \A y \in X : <<y, x>> \notin OpToRel(<, Nat)
      BY <2>1, <2>2, WFMin
    <2>4. \A y \in X : ~(y < x)
      BY <2>2, <2>3 DEF OpToRel
    <2> QED BY <2>2, <2>4
  <1>2. PICK z \in X : \A y \in X : z >= y
    <2> DEFINE Below == {k \in 0..n : ~(\A y \in X : y <= k)}
               Bounds == {k \in 0..n : \A y \in X : y <= k}
    <2>1. CASE 0 \in Bounds
      BY <2>1
    <2>2. CASE \E k \in 1..n : k - 1 \notin Bounds /\ k \in Bounds
      <3>1. PICK k \in 1..n : k - 1 \notin Bounds /\ k \in Bounds
        BY <2>2
      <3>2. PICK y \in X : ~(y <= k - 1)
        BY <3>1
      <3>3. y = k
        BY <3>1, <3>2
      <3> QED BY <3>1, <3>2, <3>3
    <2>3. CASE 0 \in Below /\ \A k \in 1..n : k - 1 \in Below => k \in Below
      <3> HIDE DEF Below
      <3>1. n \in Below
        <4>1. 0..n \subseteq Below
          BY <2>3, UpTo
        <4> QED BY <4>1
      <3> QED BY <3>1 DEF Below
    <2> QED BY <2>1, <2>2, <2>3
  <1> QED BY <1>1, <1>2 DEF Min, Max

(* A filter keeps the positions it wants, and their order.                 *)
LEMMA PickedWell ==
  ASSUME NEW n \in Nat, NEW wanted
  PROVE  LET f == InOrder(n, wanted)
         IN  /\ f \in Seq(1..n)
             /\ ToSet(f) = wanted \cap (1..n)
             /\ \A j, k \in 1..Len(f) : j < k => f[j] < f[k]
  <1> DEFINE f == Picked(n, wanted)
             Well(k) == /\ f[k] \in Seq(1..k)
                        /\ ToSet(f[k]) = wanted \cap (1..k)
                        /\ \A i, j \in 1..Len(f[k]) : i < j => f[k][i] < f[k][j]
             Good == {k \in 0..n : Well(k)}
  <1>1. /\ f[0] = << >>
        /\ \A i \in 1..n : f[i] = IF i \in wanted THEN Append(f[i - 1], i) ELSE f[i - 1]
    BY PickedSteps
  <1> HIDE DEF f
  <1>2. 0 \in Good
    <2>1. f[0] \in Seq(1..0) /\ Len(f[0]) = 0 /\ DOMAIN f[0] = {}
      BY <1>1
    <2>2. ToSet(f[0]) = {}
      BY <2>1 DEF ToSet
    <2>3. 0 \in 0..n /\ wanted \cap (1..0) = {}
      OBVIOUS
    <2> QED BY <2>1, <2>2, <2>3
  <1>3. ASSUME NEW k \in 1..n, k - 1 \in Good PROVE k \in Good
    <2> DEFINE s == f[k - 1]
               m == Len(s)
    <2>1. /\ s \in Seq(1..(k - 1)) /\ ToSet(s) = wanted \cap (1..(k - 1))
          /\ \A i, j \in 1..m : i < j => s[i] < s[j]
          /\ k \in 0..n /\ k \in 1..k /\ 1..k = 1..(k - 1) \cup {k} /\ k \notin 1..(k - 1)
      BY <1>3
    <2> HIDE DEF s
    <2>2. m \in Nat /\ DOMAIN s = 1..m /\ \A i \in 1..m : s[i] \in 1..(k - 1)
      BY <2>1
    <2>3. CASE k \notin wanted
      <3>1. f[k] = s
        BY <1>1, <2>3 DEF s
      <3>2. s \in Seq(1..k)
        <4>1. s \in [1..m -> 1..k]
          BY <2>1, <2>2
        <4> QED BY <2>2, <4>1
      <3>3. ToSet(s) = wanted \cap (1..k)
        BY <2>1, <2>3
      <3> QED BY <2>1, <3>1, <3>2, <3>3
    <2>4. CASE k \in wanted
      <3> DEFINE t == Append(s, k)
      <3>1. f[k] = t
        BY <1>1, <2>4 DEF s
      <3>2. /\ Len(t) = m + 1 /\ t[m + 1] = k /\ \A i \in 1..m : t[i] = s[i]
            /\ DOMAIN t = 1..(m + 1) /\ 1..(m + 1) = 1..m \cup {m + 1}
        BY <2>1, <2>2
      <3> HIDE DEF t, m
      <3>3. t \in Seq(1..k)
        <4>1. t \in Seq(Int)
          BY <2>1 DEF t
        <4>2. \A i \in 1..(m + 1) : t[i] \in 1..k
          BY <2>1, <2>2, <3>2
        <4>3. t = [i \in 1..(m + 1) |-> t[i]]
          BY <3>2, <4>1
        <4>4. t \in [1..(m + 1) -> 1..k] /\ m + 1 \in Nat
          BY <2>2, <4>2, <4>3
        <4> QED BY <4>4
      <3>4. ToSet(t) = wanted \cap (1..k)
        <4>1. ToSet(t) = {t[i] : i \in 1..m \cup {m + 1}}
          BY <3>2 DEF ToSet
        <4>2. ToSet(s) = {s[i] : i \in 1..m}
          BY <2>2 DEF ToSet
        <4>3. ToSet(t) = ToSet(s) \cup {k}
          BY <3>2, <4>1, <4>2
        <4> QED BY <2>1, <2>4, <4>3
      <3>5. ASSUME NEW i \in 1..Len(t), NEW j \in 1..Len(t), i < j PROVE t[i] < t[j]
        <4>1. i \in 1..m
          BY <2>2, <3>2, <3>5
        <4>2. CASE j \in 1..m
          BY <2>1, <3>2, <3>5, <4>1, <4>2 DEF m
        <4>3. CASE j = m + 1
          BY <2>2, <3>2, <4>1, <4>3
        <4> QED BY <3>2, <4>2, <4>3
      <3> QED BY <2>1, <3>1, <3>3, <3>4, <3>5
    <2> QED BY <2>3, <2>4
  <1> HIDE DEF Good
  <1>4. n \in Good
    <2>1. 0..n \subseteq Good
      BY <1>2, <1>3, UpTo
    <2> QED BY <2>1
  <1> QED BY <1>4 DEF Good, f, InOrder

(* Which samples are kept, and which is kept for another.                  *)
LEMMA SeenFirst ==
  ASSUME NEW words \in Seq(STRING), NEW i \in 1..Len(words)
  PROVE  LET first == FirstSeen(words, i)
         IN  /\ first \in 1..i /\ words[first] = words[i]
             /\ \A j \in 1..i : words[j] = words[i] => first <= j
             /\ FirstSeen(words, first) = first
  <1> DEFINE n == Len(words)
             Alike(k) == {j \in 1..k : words[j] = words[k]}
  <1>1. n \in Nat
    OBVIOUS
  <1>2. ASSUME NEW k \in 1..n
        PROVE  FirstSeen(words, k) \in Alike(k) /\ \A y \in Alike(k) : FirstSeen(words, k) <= y
    <2>1. Alike(k) \in SUBSET (1..n) /\ k \in Alike(k)
      BY <1>1
    <2> HIDE DEF n
    <2> QED BY <1>1, <2>1, LeastAndGreatest DEF FirstSeen
  <1> DEFINE first == FirstSeen(words, i)
  <1>3. first \in 1..i /\ words[first] = words[i] /\ \A y \in Alike(i) : first <= y
    BY <1>2
  <1> HIDE DEF first
  <1>4. first \in 1..n
    BY <1>3
  <1>5. FirstSeen(words, first) = first
    <2>1. FirstSeen(words, first) \in Alike(first)
      BY <1>2, <1>4
    <2>2. FirstSeen(words, first) \in Alike(i)
      BY <1>3, <1>4, <2>1
    <2>3. first <= FirstSeen(words, first)
      BY <1>3, <2>2
    <2> QED BY <1>4, <2>1, <2>3
  <1> QED BY <1>3, <1>5 DEF first

(* SamplesKept of one training set.                                        *)
LEMMA SamplesKeptOne ==
  ASSUME ReductionInv, Answered("samples")
  PROVE  SamplesKept
  <1> DEFINE words == question.words
             n == Len(words)
             unique == {i \in DOMAIN words : FirstSeen(words, i) = i}
             kept == ToSet(answer.unique)
  <1>1. words \in Seq(STRING)
    BY SampleAssumption DEF ReductionInv, Answered
  <1>2. answer = [unique |-> InOrder(n, unique),
                  duplicate |-> [i \in DOMAIN words \ unique |-> FirstSeen(words, i)]]
    BY DEF ReductionInv, Answered, DedupeSamples
  <1> HIDE DEF words
  <1>3. n \in Nat /\ DOMAIN words = 1..n
    BY <1>1
  <1>4. answer.unique = InOrder(n, unique)
    BY <1>2
  <1>5. /\ answer.duplicate = [i \in DOMAIN words \ unique |-> FirstSeen(words, i)]
        /\ DOMAIN answer.duplicate = DOMAIN words \ unique
    BY <1>2
  <1>6. /\ answer.unique \in Seq(1..n) /\ kept = unique
        /\ \A j, k \in 1..Len(answer.unique) : j < k => answer.unique[j] < answer.unique[k]
    <2>1. unique \cap (1..n) = unique
      BY <1>3
    <2> HIDE DEF unique
    <2> QED BY <1>3, <1>4, <2>1, PickedWell
  <1> HIDE DEF kept, n
  <1>7. kept \cup DOMAIN answer.duplicate = DOMAIN words /\ kept \cap DOMAIN answer.duplicate = {}
    BY <1>5, <1>6
  <1>8. ASSUME NEW i \in kept, NEW j \in kept, words[i] = words[j] PROVE i = j
    <2>1. i \in 1..n /\ j \in 1..n /\ FirstSeen(words, i) = i /\ FirstSeen(words, j) = j
      BY <1>3, <1>6
    <2>2. \A k \in 1..i : words[k] = words[i] => i <= k
      BY <1>1, <2>1, SeenFirst DEF n
    <2>3. \A k \in 1..j : words[k] = words[j] => j <= k
      BY <1>1, <2>1, SeenFirst DEF n
    <2>4. CASE i <= j
      BY <1>8, <2>1, <2>3, <2>4
    <2>5. CASE j <= i
      BY <1>8, <2>1, <2>2, <2>5
    <2> QED BY <2>1, <2>4, <2>5
  <1>9. ASSUME NEW i \in DOMAIN answer.duplicate
        PROVE  /\ answer.duplicate[i] \in kept /\ answer.duplicate[i] < i
               /\ words[answer.duplicate[i]] = words[i]
    <2> DEFINE first == FirstSeen(words, i)
    <2>1. i \in 1..n /\ i \notin unique /\ answer.duplicate[i] = first
      BY <1>3, <1>5
    <2>2. first \in 1..i /\ words[first] = words[i] /\ FirstSeen(words, first) = first
      BY <1>1, <2>1, SeenFirst DEF n
    <2>3. first # i
      BY <1>3, <2>1
    <2> HIDE DEF first
    <2>4. first \in 1..n /\ first < i
      BY <1>3, <2>1, <2>2, <2>3
    <2>5. first \in kept
      BY <1>3, <1>6, <2>2, <2>4
    <2> QED BY <2>1, <2>2, <2>4, <2>5
  <1>10. ASSUME NEW i \in 1..(Len(answer.unique) - 1)
         PROVE  answer.unique[i] < answer.unique[i + 1]
    <2>1. Len(answer.unique) \in Nat
      BY <1>6
    <2>2. i \in 1..Len(answer.unique) /\ i + 1 \in 1..Len(answer.unique) /\ i < i + 1
      BY <2>1
    <2> QED BY <1>6, <2>2
  <1> QED BY <1>7, <1>8, <1>9, <1>10 DEF SamplesKept, words, kept

(* A function that adds the values at some positions, one after another.   *)
Adds(f, n, v, X) ==
  /\ f \in [0..n -> Nat] /\ f[0] = 0 /\ SumAt(v, X) = f[n]
  /\ \A i \in 1..n : f[i] = IF i \in X THEN f[i - 1] + v[i] ELSE f[i - 1]

(* The sums of some values, as a function that adds them.                  *)
LEMMA SumsOver ==
  ASSUME NEW n \in Nat, NEW v \in [1..n -> Nat], NEW X
  PROVE  Adds(Sums(v, X), n, v, X)
  <1>1. v \in Seq(Nat) /\ Len(v) = n
    OBVIOUS
  <1> QED BY <1>1, SumsSteps DEF SumAt, Adds

(* Two sums are equal if each position adds the same to both.              *)
SameTerms(n, v, X, w, Y) ==
  /\ n \in Nat /\ v \in [1..n -> Nat] /\ w \in [1..n -> Nat]
  /\ \A i \in 1..n : (IF i \in X THEN v[i] ELSE 0) = IF i \in Y THEN w[i] ELSE 0

LEMMA SumsEqual ==
  ASSUME NEW n, NEW v, NEW w, NEW X, NEW Y, SameTerms(n, v, X, w, Y)
  PROVE  SumAt(v, X) = SumAt(w, Y)
  <1> DEFINE f == Sums(v, X)
             g == Sums(w, Y)
             Good == {k \in 0..n : f[k] = g[k]}
  <1>1. n \in Nat /\ v \in [1..n -> Nat] /\ w \in [1..n -> Nat]
    BY DEF SameTerms
  <1>2. Adds(f, n, v, X)
    BY <1>1, SumsOver
  <1>3. Adds(g, n, w, Y)
    BY <1>1, SumsOver
  <1> HIDE DEF f, g
  <1> USE DEF Adds, SameTerms
  <1>5. 0 \in Good
    BY <1>1, <1>2, <1>3
  <1>6. ASSUME NEW k \in 1..n, k - 1 \in Good PROVE k \in Good
    <2>1. f[k - 1] = g[k - 1] /\ k \in 0..n /\ k - 1 \in 0..n /\ f[k - 1] \in Nat
      BY <1>1, <1>2, <1>6
    <2>2. f[k] = f[k - 1] + IF k \in X THEN v[k] ELSE 0
      BY <1>1, <1>2, <2>1
    <2>3. g[k] = g[k - 1] + IF k \in Y THEN w[k] ELSE 0
      BY <1>1, <1>3, <2>1
    <2> QED BY <2>1, <2>2, <2>3
  <1> HIDE DEF Good
  <1>7. n \in Good
    <2>1. 0..n \subseteq Good
      BY <1>1, <1>5, <1>6, UpTo
    <2> QED BY <1>1, <2>1
  <1> QED BY <1>2, <1>3, <1>7 DEF Good

(* A sum over two disjoint sets of positions is that of their sums.        *)
LEMMA SumOfUnion ==
  ASSUME NEW n \in Nat, NEW v \in [1..n -> Nat], NEW X, NEW Y, X \cap Y = {}
  PROVE  /\ SumAt(v, X \cup Y) = SumAt(v, X) + SumAt(v, Y)
         /\ SumAt(v, X) \in Nat /\ SumAt(v, Y) \in Nat
  <1> DEFINE f == Sums(v, X)
             g == Sums(v, Y)
             h == Sums(v, X \cup Y)
             Good == {k \in 0..n : h[k] = f[k] + g[k]}
  <1>2. Adds(f, n, v, X)
    BY SumsOver
  <1>3. Adds(g, n, v, Y)
    BY SumsOver
  <1>4. Adds(h, n, v, X \cup Y)
    BY SumsOver
  <1> HIDE DEF f, g, h
  <1> USE DEF Adds
  <1>6. 0 \in Good
    BY <1>2, <1>3, <1>4
  <1>7. ASSUME NEW k \in 1..n, k - 1 \in Good PROVE k \in Good
    <2>1. /\ h[k - 1] = f[k - 1] + g[k - 1] /\ k \in 0..n /\ k - 1 \in 0..n
          /\ f[k - 1] \in Nat /\ g[k - 1] \in Nat /\ v[k] \in Nat
      BY <1>2, <1>3, <1>7
    <2>2. h[k] = f[k] + g[k]
      <3>1. CASE k \in X
        <4>1. k \notin Y
          BY <3>1
        <4> QED BY <1>2, <1>3, <1>4, <2>1, <3>1, <4>1
      <3>2. CASE k \in Y
        <4>1. k \notin X
          BY <3>2
        <4> QED BY <1>2, <1>3, <1>4, <2>1, <3>2, <4>1
      <3>3. CASE k \notin X /\ k \notin Y
        BY <1>2, <1>3, <1>4, <2>1, <3>3
      <3> QED BY <3>1, <3>2, <3>3
    <2> QED BY <2>1, <2>2
  <1> HIDE DEF Good
  <1>8. n \in Good
    <2>1. 0..n \subseteq Good
      BY <1>6, <1>7, UpTo
    <2> QED BY <2>1
  <1>9. f[n] \in Nat /\ g[n] \in Nat
    BY <1>2, <1>3
  <1> QED BY <1>2, <1>3, <1>4, <1>8, <1>9 DEF Good

(* A sum over one position is the value there.                             *)
LEMMA SumOfOne ==
  ASSUME NEW n \in Nat, NEW v \in [1..n -> Nat], NEW i \in 1..n
  PROVE  SumAt(v, {i}) = v[i]
  <1> DEFINE f == Sums(v, {i})
             Good == {k \in 0..n : f[k] = IF k < i THEN 0 ELSE v[i]}
  <1>2. Adds(f, n, v, {i})
    BY SumsOver
  <1> HIDE DEF f
  <1> USE DEF Adds
  <1>4. 0 \in Good
    BY <1>2
  <1>5. ASSUME NEW k \in 1..n, k - 1 \in Good PROVE k \in Good
    <2>1. f[k - 1] = (IF k - 1 < i THEN 0 ELSE v[i]) /\ k \in 0..n /\ v[i] \in Nat
      BY <1>5
    <2>2. CASE k = i
      <3>1. f[k - 1] = 0 /\ f[k] = f[k - 1] + v[i]
        BY <1>2, <2>1, <2>2
      <3> QED BY <2>1, <2>2, <3>1
    <2>3. CASE k # i
      <3>1. f[k] = f[k - 1] /\ (k < i <=> k - 1 < i)
        BY <1>2, <2>3
      <3> QED BY <2>1, <3>1
    <2> QED BY <2>2, <2>3
  <1> HIDE DEF Good
  <1>6. n \in Good
    <2>1. 0..n \subseteq Good
      BY <1>4, <1>5, UpTo
    <2> QED BY <2>1
  <1>7. ~(n < i)
    OBVIOUS
  <1> QED BY <1>2, <1>6, <1>7 DEF Good

FileOf == [partition : STRING, size : Nat, rows : Nat]

(* The columns of a table that are added up.                               *)
LEMMA ColumnOfFiles ==
  ASSUME NEW table \in Seq(FileOf), NEW field \in {"size", "rows"}
  PROVE  /\ Column(table, field) \in [1..Len(table) -> Nat]
         /\ \A i \in 1..Len(table) :
              /\ field = "size" => Column(table, field)[i] = table[i].size
              /\ field = "rows" => Column(table, field)[i] = table[i].rows
  <1>1. DOMAIN table = 1..Len(table) /\ \A i \in 1..Len(table) : table[i] \in FileOf
    OBVIOUS
  <1>2. CASE field = "size"
    <2>1. Column(table, field) = [i \in 1..Len(table) |-> table[i].size]
      BY <1>1, <1>2 DEF Column
    <2>2. \A i \in 1..Len(table) : table[i].size \in Nat
      BY <1>1 DEF FileOf
    <2> QED BY <1>2, <2>1, <2>2
  <1>3. CASE field = "rows"
    <2>1. Column(table, field) = [i \in 1..Len(table) |-> table[i].rows]
      BY <1>1, <1>3 DEF Column
    <2>2. \A i \in 1..Len(table) : table[i].rows \in Nat
      BY <1>1 DEF FileOf
    <2> QED BY <1>3, <2>1, <2>2
  <1> QED BY <1>2, <1>3

(* What recommend_compaction gives of each partition.                      *)
LEMMA GroupsAre ==
  ASSUME NEW table \in Seq(FileOf), NEW target \in Int, NEW least \in Int, NEW p
  PROVE  LET groups == RecommendCompaction(table, target, least)
             small == SmallFiles(table, p, target)
         IN  /\ p \in DOMAIN groups <=>
                  small # {} /\ Cardinality(small) >= least
             /\ p \in DOMAIN groups =>
                  /\ groups[p].inputs = small
                  /\ groups[p].size = SumAt(Column(table, "size"), small)
                  /\ groups[p].rows = SumAt(Column(table, "rows"), small)
                  /\ groups[p].avoided = Cardinality(small) - 1
  <1> DEFINE small(q) == SmallFiles(table, q, target)
             grouped == {q \in {table[i].partition : i \in DOMAIN table} :
                           small(q) # {} /\ Cardinality(small(q)) >= least}
             group(q) == [inputs |-> small(q), size |-> SumAt(Column(table, "size"), small(q)),
                          rows |-> SumAt(Column(table, "rows"), small(q)),
                          avoided |-> Cardinality(small(q)) - 1]
  <1>1. RecommendCompaction(table, target, least) = [q \in grouped |-> group(q)]
    BY DEF RecommendCompaction
  <1>2. p \in grouped <=> small(p) # {} /\ Cardinality(small(p)) >= least
    BY DEF SmallFiles
  <1>3. /\ group(p).inputs = small(p) /\ group(p).size = SumAt(Column(table, "size"), small(p))
        /\ group(p).rows = SumAt(Column(table, "rows"), small(p))
        /\ group(p).avoided = Cardinality(small(p)) - 1
    OBVIOUS
  <1> HIDE DEF group, grouped
  <1>4. LET groups == RecommendCompaction(table, target, least)
        IN  /\ p \in DOMAIN groups <=> p \in grouped
            /\ p \in DOMAIN groups => groups[p] = group(p)
    BY <1>1
  <1> QED BY <1>2, <1>3, <1>4

(* The small files of a partition, and what a group of them adds up to.    *)
LEMMA SmallOnes ==
  ASSUME NEW table \in Seq(FileOf), NEW target \in Int, NEW p
  PROVE  LET small == SmallFiles(table, p, target)
         IN  /\ small \in SUBSET (1..Len(table)) /\ IsFiniteSet(small) /\ Cardinality(small) \in Nat
             /\ \A i \in 1..Len(table) :
                  i \in small <=> table[i].partition = p /\ table[i].size \in 1..(target - 1)
             /\ \A field \in {"size", "rows"} : SumAt(Column(table, field), small) \in Nat
             /\ small # {} => SumAt(Column(table, "size"), small) > 0
  <1> DEFINE small == SmallFiles(table, p, target)
             n == Len(table)
  <1>1. n \in Nat /\ DOMAIN table = 1..n /\ \A i \in 1..n : table[i] \in FileOf
    OBVIOUS
  <1>2. \A i \in 1..n : i \in small <=> table[i].partition = p /\ table[i].size \in 1..(target - 1)
    <2>1. \A i \in 1..n : table[i].size \in Nat
      BY <1>1 DEF FileOf
    <2> QED BY <1>1, <2>1 DEF SmallFiles
  <1>3. small \in SUBSET (1..n)
    BY <1>1 DEF SmallFiles
  <1> HIDE DEF small
  <1>4. IsFiniteSet(small) /\ Cardinality(small) \in Nat
    <2>1. IsFiniteSet(1..n)
      BY <1>1, FS_Interval
    <2>2. IsFiniteSet(small)
      BY <1>3, <2>1, FS_Subset
    <2> QED BY <2>2, FS_CardinalityType
  <1>5. ASSUME NEW field \in {"size", "rows"} PROVE SumAt(Column(table, field), small) \in Nat
    <2>1. Column(table, field) \in [1..n -> Nat]
      BY ColumnOfFiles
    <2>2. small \cap {} = {}
      OBVIOUS
    <2> HIDE DEF n
    <2> QED BY <1>1, <2>1, <2>2, SumOfUnion
  <1>6. ASSUME small # {} PROVE SumAt(Column(table, "size"), small) > 0
    <2> DEFINE v == Column(table, "size")
    <2>1. PICK i \in small : TRUE
      BY <1>6
    <2>2. i \in 1..n /\ table[i].size > 0
      BY <1>2, <1>3, <2>1
    <2>3. v \in [1..n -> Nat] /\ v[i] = table[i].size
      BY <2>2, ColumnOfFiles
    <2> HIDE DEF v, n
    <2>4. SumAt(v, {i}) = v[i]
      BY <1>1, <2>2, <2>3, SumOfOne
    <2>5. small = {i} \cup (small \ {i}) /\ {i} \cap (small \ {i}) = {}
      BY <2>1
    <2>6. /\ SumAt(v, {i} \cup (small \ {i})) = SumAt(v, {i}) + SumAt(v, small \ {i})
          /\ SumAt(v, small \ {i}) \in Nat
      BY <1>1, <2>3, <2>5, SumOfUnion
    <2>7. v[i] \in Nat /\ v[i] > 0
      BY <2>2, <2>3
    <2>8. SumAt(v, small) > 0
      <3> DEFINE rest == small \ {i}
                 a == SumAt(v, {i})
                 b == SumAt(v, rest)
      <3>1. SumAt(v, small) = SumAt(v, {i} \cup rest)
        BY <2>5
      <3>2. SumAt(v, {i} \cup rest) = a + b /\ b \in Nat /\ a \in Nat /\ a > 0
        BY <2>4, <2>6, <2>7
      <3> HIDE DEF a, b
      <3>3. a + b > 0
        BY <3>2
      <3> QED BY <3>1, <3>2, <3>3
    <2> QED BY <2>8 DEF v
  <1> QED BY <1>2, <1>3, <1>4, <1>5, <1>6 DEF small, n

(* What a file becomes when the groups of a table are joined.              *)
FileJoined(i, old, new, small, groups) ==
  LET p == old.partition
  IN  /\ new.partition = p
      /\ p \notin DOMAIN groups \/ i \notin small => new = old
      /\ p \in DOMAIN groups /\ i \in small =>
           /\ new.size = IF i = Min(small) THEN groups[p].size ELSE 0
           /\ new.rows = IF i = Min(small) THEN groups[p].rows ELSE 0

(* Every file of a table becomes one of these.                             *)
LEMMA JoinedIs ==
  ASSUME NEW table \in Seq(FileOf), NEW target \in Int, NEW least \in Int
  PROVE  LET groups == RecommendCompaction(table, target, least)
             joined == Joined(table, groups)
         IN  /\ joined \in Seq(FileOf) /\ Len(joined) = Len(table)
             /\ \A i \in 1..Len(table) :
                  FileJoined(i, table[i], joined[i], SmallFiles(table, table[i].partition, target),
                             groups)
  <1> DEFINE n == Len(table)
             groups == RecommendCompaction(table, target, least)
             Small(p) == SmallFiles(table, p, target)
             New(p, first) == [partition |-> p, size |-> IF first THEN groups[p].size ELSE 0,
                               rows |-> IF first THEN groups[p].rows ELSE 0]
             Becomes(i) == LET p == table[i].partition
                           IN  IF p \notin DOMAIN groups \/ i \notin groups[p].inputs
                                 THEN table[i] ELSE New(p, i = Min(groups[p].inputs))
  <1>1. n \in Nat /\ DOMAIN table = 1..n /\ \A i \in 1..n : table[i] \in FileOf
    OBVIOUS
  <1>2. Joined(table, groups) = [i \in 1..n |-> Becomes(i)]
    BY <1>1 DEF Joined
  <1>3. \A p \in DOMAIN groups :
          /\ groups[p].inputs = Small(p)
          /\ groups[p].size = SumAt(Column(table, "size"), Small(p))
          /\ groups[p].rows = SumAt(Column(table, "rows"), Small(p))
    BY GroupsAre
  <1>4. \A p : /\ SumAt(Column(table, "size"), Small(p)) \in Nat
               /\ SumAt(Column(table, "rows"), Small(p)) \in Nat
    BY SmallOnes
  <1> HIDE DEF groups, n
  <1>5. ASSUME NEW i \in 1..n
        PROVE  /\ Becomes(i) \in FileOf
               /\ FileJoined(i, table[i], Becomes(i), Small(table[i].partition), groups)
    <2> DEFINE p == table[i].partition
               first == i = Min(Small(p))
    <2>1. table[i] \in FileOf /\ p \in STRING
      BY <1>1 DEF FileOf
    <2> HIDE DEF p
    <2>2. CASE p \notin DOMAIN groups \/ i \notin Small(p)
      <3>1. Becomes(i) = table[i]
        BY <1>3, <2>2 DEF p
      <3> HIDE DEF Becomes
      <3> HIDE DEF Small
      <3> QED BY <2>1, <2>2, <3>1 DEF p, FileJoined
    <2>3. CASE p \in DOMAIN groups /\ i \in Small(p)
      <3>1. Becomes(i) = New(p, first)
        BY <1>3, <2>3 DEF p
      <3>2. groups[p].size \in Nat /\ groups[p].rows \in Nat
        BY <1>3, <1>4, <2>3
      <3>3. /\ New(p, first).partition = p /\ New(p, first).size = (IF first THEN groups[p].size ELSE 0)
            /\ New(p, first).rows = IF first THEN groups[p].rows ELSE 0
        OBVIOUS
      <3>4. New(p, first) \in FileOf
        BY <2>1, <3>2 DEF FileOf
      <3> HIDE DEF Becomes, New
      <3>5. /\ Becomes(i).size = IF first THEN groups[p].size ELSE 0
            /\ Becomes(i).rows = IF first THEN groups[p].rows ELSE 0
        BY <3>1, <3>3
      <3>6. Becomes(i) \in FileOf /\ Becomes(i).partition = p
        BY <3>1, <3>3, <3>4
      <3> HIDE DEF Small
      <3> QED BY <2>3, <3>5, <3>6 DEF p, first, FileJoined
    <2> QED BY <2>2, <2>3
  <1> DEFINE joined == Joined(table, groups)
  <1>6. \A i \in 1..n : Becomes(i) \in FileOf
    BY <1>5
  <1>7. joined = [i \in 1..n |-> Becomes(i)]
    BY <1>2
  <1> HIDE DEF Becomes, joined
  <1>8. joined \in [1..n -> FileOf] /\ \A i \in 1..n : joined[i] = Becomes(i)
    BY <1>6, <1>7
  <1>9. joined \in Seq(FileOf) /\ Len(joined) = n
    BY <1>1, <1>8
  <1> HIDE DEF Small
  <1> QED BY <1>5, <1>8, <1>9 DEF n, groups, joined, Small

(* The files of a partition, and those of them that are not empty before   *)
(* and after the groups are joined.                                        *)
FilesOf(table, p) == {i \in DOMAIN table : table[i].partition = p}
FilledOf(table, now, p) == {i \in FilesOf(table, p) : now[i].size > 0}

(* Joining keeps the bytes and rows of each partition.                     *)
LEMMA JoinedKeeps ==
  ASSUME NEW table \in Seq(FileOf), NEW target \in Int, NEW least \in Int, NEW p,
         NEW field \in {"size", "rows"}
  PROVE  LET joined == Joined(table, RecommendCompaction(table, target, least))
         IN  SumAt(Column(joined, field), FilesOf(table, p))
               = SumAt(Column(table, field), FilesOf(table, p))
  <1> DEFINE n == Len(table)
             groups == RecommendCompaction(table, target, least)
             joined == Joined(table, groups)
             own == {i \in DOMAIN table : table[i].partition = p}
             small == SmallFiles(table, p, target)
             m == Min(small)
             v == Column(table, field)
             w == Column(joined, field)
  <1>1. n \in Nat /\ DOMAIN table = 1..n
    OBVIOUS
  <1>2. joined \in Seq(FileOf) /\ Len(joined) = n
    BY JoinedIs
  <1>3. v \in [1..n -> Nat]
    BY ColumnOfFiles
  <1>4. w \in [1..n -> Nat]
    <2> HIDE DEF joined, n
    <2> QED BY <1>2, ColumnOfFiles
  <1>5. /\ small \in SUBSET (1..n)
        /\ \A i \in 1..n : i \in small => table[i].partition = p
        /\ SumAt(v, small) \in Nat
    BY SmallOnes
  <1>6. ASSUME NEW i \in own, p \notin DOMAIN groups \/ i \notin small PROVE w[i] = v[i]
    <2>1. i \in 1..n /\ table[i].partition = p
      BY <1>1
    <2>2. joined[i] = table[i]
      <3>1. FileJoined(i, table[i], joined[i], SmallFiles(table, table[i].partition, target), groups)
        BY <2>1, JoinedIs
      <3> HIDE DEF joined, groups, small
      <3> QED BY <1>6, <2>1, <3>1 DEF FileJoined, small
    <2> HIDE DEF joined, n
    <2>3. w[i] = v[i]
      <3>1. /\ field = "size" => w[i] = joined[i].size
            /\ field = "rows" => w[i] = joined[i].rows
        BY <1>2, <2>1, ColumnOfFiles
      <3>2. /\ field = "size" => v[i] = table[i].size
            /\ field = "rows" => v[i] = table[i].rows
        BY <2>1, ColumnOfFiles DEF n
      <3> QED BY <2>2, <3>1, <3>2
    <2> QED BY <2>3
  <1>7. CASE p \notin DOMAIN groups
    <2>1. SameTerms(n, w, own, v, own)
      BY <1>1, <1>3, <1>4, <1>6, <1>7 DEF SameTerms
    <2> HIDE DEF n, v, w, own
    <2>2. SumAt(w, own) = SumAt(v, own)
      BY <2>1, SumsEqual
    <2> QED BY <2>2 DEF v, w, own, FilesOf
  <1>8. CASE p \in DOMAIN groups
    <2> DEFINE rest == own \ small
               total == SumAt(v, small)
    <2>1. small # {}
      BY <1>8, GroupsAre
    <2>2. m \in small /\ m \in 1..n
      <3> HIDE DEF small, n
      <3> QED BY <1>1, <1>5, <2>1, LeastAndGreatest
    <2>3. ASSUME NEW i \in small PROVE w[i] = IF i = m THEN total ELSE 0
      <3>1. i \in 1..n /\ table[i].partition = p
        BY <1>5
      <3>2. /\ joined[i].size = IF i = m THEN groups[p].size ELSE 0
            /\ joined[i].rows = IF i = m THEN groups[p].rows ELSE 0
        <4>1. FileJoined(i, table[i], joined[i], SmallFiles(table, table[i].partition, target),
                         groups)
          BY <3>1, JoinedIs
        <4> HIDE DEF joined, groups, small
        <4> QED BY <1>8, <2>3, <3>1, <4>1 DEF FileJoined, small
      <3>3. /\ groups[p].size = SumAt(Column(table, "size"), small)
            /\ groups[p].rows = SumAt(Column(table, "rows"), small)
        BY <1>8, GroupsAre
      <3> HIDE DEF joined, n, groups, small, m
      <3>4. /\ field = "size" => w[i] = joined[i].size
            /\ field = "rows" => w[i] = joined[i].rows
        BY <1>2, <3>1, ColumnOfFiles
      <3> QED BY <3>2, <3>3, <3>4
    <2>4. ASSUME NEW i \in rest PROVE w[i] = v[i]
      <3>1. i \in own /\ i \notin small
        OBVIOUS
      <3> QED BY <1>6, <3>1
    <2>5. own = rest \cup small /\ rest \cap small = {}
      <3>1. small \subseteq own
        BY <1>1, <1>5
      <3> HIDE DEF small, own
      <3> QED BY <3>1
    <2> HIDE DEF n, v, w, own, small, rest, m, total
    <2>6. SumAt(w, rest) = SumAt(v, rest)
      <3>1. SameTerms(n, w, rest, v, rest)
        BY <1>1, <1>3, <1>4, <2>4 DEF SameTerms
      <3> QED BY <3>1, SumsEqual
    <2>7. SumAt(w, small) = SumAt(w, {m})
      <3>1. SameTerms(n, w, small, w, {m})
        BY <1>1, <1>4, <2>2, <2>3 DEF SameTerms
      <3> QED BY <3>1, SumsEqual
    <2>8. SumAt(w, {m}) = w[m] /\ w[m] = total
      BY <1>1, <1>4, <2>2, <2>3, SumOfOne
    <2>9. /\ SumAt(w, own) = SumAt(w, rest) + SumAt(w, small)
          /\ SumAt(v, own) = SumAt(v, rest) + SumAt(v, small)
      BY <1>1, <1>3, <1>4, <2>5, SumOfUnion
    <2>10. SumAt(w, own) = SumAt(v, own)
      BY <2>6, <2>7, <2>8, <2>9 DEF total
    <2> QED BY <2>10 DEF v, w, own, FilesOf
  <1> QED BY <1>7, <1>8

(* Joining saves as many files as it promises, counting no empty one.      *)
LEMMA JoinedCounts ==
  ASSUME NEW table \in Seq(FileOf), NEW target \in Int, NEW least \in Int, NEW p
  PROVE  LET groups == RecommendCompaction(table, target, least)
             joined == Joined(table, groups)
         IN  Cardinality(FilledOf(table, joined, p)) = Cardinality(FilledOf(table, table, p))
                   - IF p \in DOMAIN groups THEN groups[p].avoided ELSE 0
  <1> DEFINE n == Len(table)
             groups == RecommendCompaction(table, target, least)
             joined == Joined(table, groups)
             own == {i \in DOMAIN table : table[i].partition = p}
             small == SmallFiles(table, p, target)
             m == Min(small)
             filled == {i \in own : table[i].size > 0}
             after == {i \in own : joined[i].size > 0}
  <1>1. n \in Nat /\ DOMAIN table = 1..n
    OBVIOUS
  <1>2. /\ small \in SUBSET (1..n) /\ IsFiniteSet(small) /\ Cardinality(small) \in Nat
        /\ \A i \in 1..n :
             i \in small <=> table[i].partition = p /\ table[i].size \in 1..(target - 1)
        /\ small # {} => SumAt(Column(table, "size"), small) > 0
    BY SmallOnes
  <1>3. \A i \in own : i \in 1..n /\ table[i].partition = p
    BY <1>1
  <1>4. ASSUME NEW i \in own
        PROVE  /\ p \notin DOMAIN groups \/ i \notin small => joined[i] = table[i]
               /\ p \in DOMAIN groups /\ i \in small =>
                    joined[i].size = IF i = m THEN groups[p].size ELSE 0
    <2>1. i \in 1..n /\ table[i].partition = p
      BY <1>3
    <2>2. FileJoined(i, table[i], joined[i], SmallFiles(table, table[i].partition, target), groups)
      BY <2>1, JoinedIs
    <2> HIDE DEF joined, groups, small
    <2> QED BY <2>1, <2>2 DEF FileJoined, small
  <1>5. IsFiniteSet(filled) /\ Cardinality(filled) \in Nat
    <2>1. IsFiniteSet(1..n) /\ filled \subseteq 1..n
      BY <1>1, FS_Interval
    <2> HIDE DEF filled
    <2>2. IsFiniteSet(filled)
      BY <2>1, FS_Subset
    <2> QED BY <2>2, FS_CardinalityType
  <1>6. CASE p \notin DOMAIN groups
    <2>1. after = filled
      BY <1>4, <1>6
    <2> HIDE DEF after, filled
    <2>2. Cardinality(after) = Cardinality(filled) - 0
      BY <1>5, <2>1
    <2> QED BY <1>6, <2>2 DEF after, filled, own, FilledOf, FilesOf
  <1>7. CASE p \in DOMAIN groups
    <2>1. /\ small # {} /\ groups[p].avoided = Cardinality(small) - 1
          /\ groups[p].size = SumAt(Column(table, "size"), small)
      BY <1>7, GroupsAre
    <2>2. m \in small
      <3> HIDE DEF small, n
      <3> QED BY <1>1, <1>2, <2>1, LeastAndGreatest
    <2>3. \A i \in small : joined[i].size = IF i = m THEN groups[p].size ELSE 0
      <3>1. \A i \in small : i \in own
        BY <1>1, <1>2
      <3> HIDE DEF joined, groups, small, own
      <3> QED BY <1>4, <1>7, <3>1
    <2>4. small \subseteq filled
      <3>1. ASSUME NEW i \in small PROVE i \in filled
        <4>1. i \in 1..n /\ table[i].partition = p /\ table[i].size \in 1..(target - 1)
          BY <1>2
        <4> QED BY <1>1, <4>1
      <3> QED BY <3>1
    <2>5. after = (filled \ small) \cup {m}
      <3>1. ASSUME NEW i \in own PROVE i \in after <=> i \in (filled \ small) \cup {m}
        <4>1. CASE i \in small
          <5>1. groups[p].size > 0
            BY <1>2, <2>1
          <5> HIDE DEF joined, groups, small, m
          <5>2. joined[i].size > 0 <=> i = m
            BY <2>3, <4>1, <5>1
          <5> QED BY <4>1, <5>2
        <4>2. CASE i \notin small
          <5>1. joined[i] = table[i] /\ i # m
            BY <1>4, <2>2, <4>2
          <5> HIDE DEF joined, groups, small, m
          <5> QED BY <4>2, <5>1
        <4> QED BY <4>1, <4>2
      <3>2. after \subseteq own /\ (filled \ small) \cup {m} \subseteq own
        BY <2>2, <2>4
      <3> HIDE DEF after, filled, small, own, m
      <3> QED BY <3>1, <3>2
    <2> HIDE DEF after, filled, small, m, groups
    <2>6. /\ IsFiniteSet(filled \ small)
          /\ Cardinality(filled \ small) = Cardinality(filled) - Cardinality(small)
      <3>1. filled \cap small = small
        BY <2>4
      <3> QED BY <1>5, <3>1, FS_Difference
    <2>7. Cardinality((filled \ small) \cup {m}) = Cardinality(filled \ small) + 1
      <3>1. m \notin filled \ small
        BY <2>2
      <3> QED BY <2>6, <3>1, FS_AddElement
    <2>8. Cardinality(after) = Cardinality(filled) - groups[p].avoided
      <3>1. Cardinality(after) = Cardinality(filled) - Cardinality(small) + 1
        BY <2>5, <2>6, <2>7
      <3> QED BY <1>2, <1>5, <2>1, <3>1
    <2> QED BY <1>7, <2>8 DEF after, filled, groups, own, FilledOf, FilesOf
  <1> QED BY <1>6, <1>7

(* Nothing is left to join, unless groups of one file are asked for.       *)
LEMMA NothingLeft ==
  ASSUME NEW table \in Seq(FileOf), NEW target \in Int, NEW least \in Int, least >= 2
  PROVE  LET joined == Joined(table, RecommendCompaction(table, target, least))
         IN  DOMAIN RecommendCompaction(joined, target, least) = {}
  <1> DEFINE n == Len(table)
             groups == RecommendCompaction(table, target, least)
             joined == Joined(table, groups)
             again == RecommendCompaction(joined, target, least)
  <1> SUFFICES ASSUME NEW p \in DOMAIN again PROVE FALSE
    OBVIOUS
  <1> DEFINE small == SmallFiles(table, p, target)
             left == SmallFiles(joined, p, target)
             m == Min(small)
  <1>1. joined \in Seq(FileOf) /\ Len(joined) = n
    BY JoinedIs
  <1>2. ASSUME NEW i \in 1..n, table[i].partition = p
        PROVE  /\ p \notin DOMAIN groups \/ i \notin small => joined[i] = table[i]
               /\ p \in DOMAIN groups /\ i \in small =>
                    joined[i].size = IF i = m THEN groups[p].size ELSE 0
    <2>1. FileJoined(i, table[i], joined[i], SmallFiles(table, table[i].partition, target), groups)
      BY JoinedIs
    <2> HIDE DEF joined, groups, small
    <2> QED BY <1>2, <2>1 DEF FileJoined, small
  <1>3. \A i \in 1..n : joined[i].partition = table[i].partition
    <2>1. ASSUME NEW i \in 1..n
          PROVE  FileJoined(i, table[i], joined[i],
                            SmallFiles(table, table[i].partition, target), groups)
      BY JoinedIs
    <2> HIDE DEF joined, groups
    <2> QED BY <2>1 DEF FileJoined
  <1>4. p \in DOMAIN groups <=> small # {} /\ Cardinality(small) >= least
    BY GroupsAre
  <1>5. small \in SUBSET (1..n)
        /\ \A i \in 1..n : i \in small <=> table[i].partition = p /\ table[i].size \in 1..(target - 1)
    BY SmallOnes
  <1> HIDE DEF small, m, groups, joined
  <1>6. left # {} /\ Cardinality(left) >= least
    BY <1>1, GroupsAre
  <1>7. left \in SUBSET (1..n)
        /\ \A i \in 1..n : i \in left <=> joined[i].partition = p /\ joined[i].size \in 1..(target - 1)
    BY <1>1, SmallOnes
  <1> HIDE DEF left, n
  <1>8. CASE p \notin DOMAIN groups
    <2>1. left = small
      <3>1. \A i \in 1..n : i \in left <=> i \in small
        BY <1>2, <1>3, <1>5, <1>7, <1>8
      <3> QED BY <1>5, <1>7, <3>1
    <2> QED BY <1>4, <1>6, <1>8, <2>1
  <1>9. CASE p \in DOMAIN groups
    <2>1. ASSUME NEW i \in left PROVE i = m
      <3>1. i \in 1..n /\ table[i].partition = p /\ joined[i].size \in 1..(target - 1)
        BY <1>3, <1>7
      <3>2. i \in small
        BY <1>2, <1>5, <3>1
      <3>3. joined[i].size # 0
        BY <3>1
      <3> QED BY <1>2, <1>9, <3>1, <3>2, <3>3
    <2>2. left \subseteq {m} /\ IsFiniteSet({m}) /\ Cardinality({m}) = 1
      BY <2>1, FS_Singleton
    <2>3. Cardinality(left) <= 1 /\ Cardinality(left) \in Nat
      BY <2>2, FS_Subset, FS_CardinalityType
    <2> QED BY <1>6, <2>3
  <1> QED BY <1>8, <1>9

(* FilesJoined of one table.                                               *)
LEMMA FilesJoinedOne ==
  ASSUME ReductionInv, Answered("table")
  PROVE  FilesJoined
  <1> DEFINE table == question.table.files
             target == question.table.target
             least == question.table.least
             joined == Joined(table, answer)
  <1>1. /\ table \in Seq(FileOf) /\ target \in Int /\ least \in Int
        /\ answer = RecommendCompaction(table, target, least)
    BY TableAssumption DEF ReductionInv, Answered, FileOf
  <1> HIDE DEF table, target, least
  <1>2. ASSUME NEW p, NEW field \in {"size", "rows"}
        PROVE  SumAt(Column(joined, field), FilesOf(table, p))
                 = SumAt(Column(table, field), FilesOf(table, p))
    BY <1>1, JoinedKeeps
  <1>3. ASSUME NEW p
        PROVE  Cardinality(FilledOf(table, joined, p)) = Cardinality(FilledOf(table, table, p))
                 - IF p \in DOMAIN answer THEN answer[p].avoided ELSE 0
    BY <1>1, JoinedCounts
  <1>4. ASSUME NEW i \in DOMAIN table, table[i].size \notin 1..(target - 1)
        PROVE  joined[i] = table[i]
    <2> DEFINE small == SmallFiles(table, table[i].partition, target)
    <2>1. i \in 1..Len(table)
      BY <1>1
    <2>2. FileJoined(i, table[i], joined[i], small, answer)
      BY <1>1, <2>1, JoinedIs
    <2>3. i \notin small
      BY <1>1, <1>4, <2>1, SmallOnes
    <2> HIDE DEF small, joined
    <2> QED BY <2>2, <2>3 DEF FileJoined
  <1>5. least >= 2 => DOMAIN RecommendCompaction(joined, target, least) = {}
    BY <1>1, NothingLeft
  <1> HIDE DEF joined
  <1> QED BY <1>2, <1>3, <1>4, <1>5 DEF FilesJoined, FilesOf, FilledOf, table, target, least, joined

(* A reduced training set keeps one sample of each text, and joining the   *)
(* files of a table keeps its rows and bytes (training.py:40-55,           *)
(* lakehouse.py:62-89).                                                    *)
THEOREM ReductionsAlwaysLossless == DecisionSpec => []ReductionsLossless
  <1>1. AnswerInv => SamplesKept
    BY SamplesKeptOne DEF AnswerInv, SamplesKept
  <1>2. AnswerInv => FilesJoined
    BY FilesJoinedOne DEF AnswerInv, FilesJoined
  <1>3. AnswerInv => ReductionsLossless
    BY <1>1, <1>2 DEF ReductionsLossless
  <1> QED BY <1>3, AnswersStand, PTL
-----------------------------------------------------------------------------
(* Products of natural numbers.                                            *)
LEMMA TimesMore ==
  ASSUME NEW a \in Nat, NEW f \in Nat, NEW g \in Nat, f <= g
  PROVE  a * f \in Nat /\ a * g \in Nat /\ a * f <= a * g
  OBVIOUS

(* A product of natural numbers is one.                                    *)
LEMMA Times == ASSUME NEW a \in Nat, NEW b \in Nat PROVE a * b \in Nat
  OBVIOUS

(* Of each token, how many sixty-fourths the cache and the context         *)
(* compiler save together.                                                 *)
TokenRate(h, c, x) == 16 * h + (4 - h) * (c * x)

(* It is at most one, and a better cache never lowers it.                  *)
LEMMA TokenRateGrows ==
  ASSUME NEW h \in 0..4, NEW c \in 0..4, NEW x \in 0..4
  PROVE  /\ TokenRate(h, c, x) \in 0..64
         /\ \A b \in h..4 : TokenRate(h, c, x) <= TokenRate(b, c, x)
  <1> DEFINE k == c * x
  <1>1. k \in 0..16
    <2>1. CASE c = 0
      BY <2>1
    <2>2. CASE c = 1
      BY <2>2
    <2>3. CASE c = 2
      BY <2>3
    <2>4. CASE c = 3
      BY <2>4
    <2>5. CASE c = 4
      BY <2>5
    <2> QED BY <2>1, <2>2, <2>3, <2>4, <2>5
  <1>2. \A b \in 0..4 : TokenRate(b, c, x) = 16 * b + (4 - b) * k
    BY DEF TokenRate
  <1> HIDE DEF k
  <1>3. \A b \in 0..4 : \/ b = 0 /\ TokenRate(b, c, x) = 4 * k
                        \/ b = 1 /\ TokenRate(b, c, x) = 16 + 3 * k
                        \/ b = 2 /\ TokenRate(b, c, x) = 32 + 2 * k
                        \/ b = 3 /\ TokenRate(b, c, x) = 48 + k
                        \/ b = 4 /\ TokenRate(b, c, x) = 64
    BY <1>1, <1>2
  <1> QED BY <1>1, <1>3

(* The scenarios of ScenarioAssumption.                                    *)
Amounts ==
  [storage : Int, storageRate : Int, storagePrice : Int, transfer : Int, transferRate : Int,
   transferPrice : Int, requests : Int, input : Int, output : Int, hitRate : Int,
   coverage : Int, contextRate : Int, inputPrice : Int, outputPrice : Int, operating : Int,
   implementation : Int, horizon : Int, energy : Int \cup {None}, carbon : Int \cup {None}]

(* What ImpactScenario.validate leaves of the amounts of a scenario.       *)
LEMMA AmountsAre ==
  ASSUME NEW s \in Amounts, V!ValidScenario(s)
  PROVE  /\ s.storage \in Nat /\ s.storagePrice \in Nat /\ s.transfer \in Nat
         /\ s.transferPrice \in Nat /\ s.input \in Nat /\ s.output \in Nat
         /\ s.inputPrice \in Nat /\ s.outputPrice \in Nat /\ s.operating \in Nat
         /\ s.implementation \in Nat /\ s.requests \in Nat
         /\ s.storageRate \in 0..4 /\ s.transferRate \in 0..4 /\ s.hitRate \in 0..4
         /\ s.coverage \in 0..4 /\ s.contextRate \in 0..4 /\ s.horizon \in Nat /\ s.horizon > 0
         /\ s.energy \in Nat \cup {None} /\ s.carbon \in Nat \cup {None}
         /\ s.carbon # None => s.energy # None
  <1>1. /\ s.storage \in Int /\ s.storagePrice \in Int /\ s.transfer \in Int
        /\ s.transferPrice \in Int /\ s.input \in Int /\ s.output \in Int
        /\ s.inputPrice \in Int /\ s.outputPrice \in Int /\ s.operating \in Int
        /\ s.implementation \in Int /\ s.requests \in Int
        /\ s.storageRate \in Int /\ s.transferRate \in Int /\ s.hitRate \in Int
        /\ s.coverage \in Int /\ s.contextRate \in Int /\ s.horizon \in Int
        /\ s.energy \in Int \cup {None} /\ s.carbon \in Int \cup {None}
    BY DEF Amounts
  <1>2. /\ s.storage >= 0 /\ s.storagePrice >= 0 /\ s.transfer >= 0
        /\ s.transferPrice >= 0 /\ s.input >= 0 /\ s.output >= 0
        /\ s.inputPrice >= 0 /\ s.outputPrice >= 0 /\ s.operating >= 0
        /\ s.implementation >= 0 /\ s.requests >= 0
    BY DEF V!ValidScenario
  <1>3. /\ 0 <= s.storageRate /\ s.storageRate <= 4 /\ 0 <= s.transferRate /\ s.transferRate <= 4
        /\ 0 <= s.hitRate /\ s.hitRate <= 4 /\ 0 <= s.coverage /\ s.coverage <= 4
        /\ 0 <= s.contextRate /\ s.contextRate <= 4
    BY DEF V!ValidScenario, V!Quarters
  <1>4. /\ s.horizon > 0 /\ (s.energy = None \/ s.energy >= 0) /\ (s.carbon = None \/ s.carbon >= 0)
        /\ s.carbon # None => s.energy # None
    BY DEF V!ValidScenario
  <1> QED BY <1>1, <1>2, <1>3, <1>4

(* What is spent on storage, transfer and the tokens of either direction.  *)
Spent(s) ==
  [storage |-> s.storage * s.storagePrice, transfer |-> s.transfer * s.transferPrice,
   input |-> (s.requests * s.input) * s.inputPrice,
   output |-> (s.requests * s.output) * s.outputPrice]

(* An estimate in terms of what is spent.                                  *)
Estimate(s, a) ==
  LET spent == Spent(s)
      rate == TokenRate(s.hitRate, s.coverage, s.contextRate)
  IN  /\ a.input = (s.requests * s.input) * rate
      /\ a.output = (s.requests * s.output) * (16 * s.hitRate)
      /\ a.baseline = 64 * spent.storage + 64 * spent.transfer + 64 * spent.input + 64 * spent.output
      /\ a.gross = spent.storage * (16 * s.storageRate) + spent.transfer * (16 * s.transferRate)
                     + spent.input * rate + spent.output * (16 * s.hitRate)

(* model_impact gives that estimate.                                       *)
LEMMA EstimateIs ==
  ASSUME NEW s \in Amounts, V!ValidScenario(s)
  PROVE  Estimate(s, V!ModelImpact(s))
  <1> DEFINE q == s.requests
             i == s.input
             o == s.output
             h == s.hitRate
             c == s.coverage
             x == s.contextRate
             spent == Spent(s)
             rate == TokenRate(h, c, x)
             input == V!CachedTokens(s, i) + V!ContextTokens(s)
             output == V!CachedTokens(s, o)
             stored == V!Saved(s.storage, s.storageRate, s.storagePrice)
             moved == V!Saved(s.transfer, s.transferRate, s.transferPrice)
             total == V!Scale * (s.storage * s.storagePrice + s.transfer * s.transferPrice
                             + q * (i * s.inputPrice + o * s.outputPrice))
             a == V!ModelImpact(s)
  <1>1. /\ s.storage \in Nat /\ s.storagePrice \in Nat /\ s.transfer \in Nat
        /\ s.transferPrice \in Nat /\ i \in Nat /\ o \in Nat
        /\ s.inputPrice \in Nat /\ s.outputPrice \in Nat /\ q \in Nat
        /\ s.storageRate \in 0..4 /\ s.transferRate \in 0..4 /\ h \in 0..4 /\ c \in 0..4 /\ x \in 0..4
    BY AmountsAre
  <1>2. /\ a.input = input /\ a.output = output /\ a.baseline = total
        /\ a.gross = stored + moved + input * s.inputPrice + output * s.outputPrice
    BY DEF V!ModelImpact
  <1>3. /\ spent.storage = s.storage * s.storagePrice /\ spent.transfer = s.transfer * s.transferPrice
        /\ spent.input = (q * i) * s.inputPrice /\ spent.output = (q * o) * s.outputPrice
    BY DEF Spent
  <1> HIDE DEF a, spent
  <1>4. input = (q * i) * rate
    <2>1. input = ((q * h) * i) * 4 * 4 + (((q * 4 - q * h) * c) * i) * x
      BY DEF V!CachedTokens, V!ContextTokens, V!CallsAvoided, V!Uncached, V!Quarters
    <2> HIDE DEF input, q, i, h, c, x
    <2> QED BY <1>1, <2>1 DEF TokenRate
  <1>5. output = (q * o) * (16 * h)
    <2>1. output = ((q * h) * o) * 4 * 4
      BY DEF V!CachedTokens, V!CallsAvoided, V!Quarters
    <2> HIDE DEF output, q, o, h
    <2> QED BY <1>1, <2>1
  <1>6. /\ stored = spent.storage * (16 * s.storageRate)
        /\ moved = spent.transfer * (16 * s.transferRate)
    <2>1. /\ stored = s.storage * s.storageRate * s.storagePrice * 4 * 4
          /\ moved = s.transfer * s.transferRate * s.transferPrice * 4 * 4
      BY DEF V!Saved, V!Quarters
    <2> HIDE DEF stored, moved
    <2> QED BY <1>1, <1>3, <2>1
  <1>7. total = 64 * spent.storage + 64 * spent.transfer + 64 * spent.input + 64 * spent.output
    <2>1. total = 64 * (s.storage * s.storagePrice + s.transfer * s.transferPrice
                             + q * (i * s.inputPrice + o * s.outputPrice))
      BY DEF V!Scale, V!Quarters
    <2> HIDE DEF total
    <2> QED BY <1>1, <1>3, <2>1
  <1>8. /\ input * s.inputPrice = spent.input * rate
        /\ output * s.outputPrice = spent.output * (16 * h)
    <2>1. rate \in Nat
      <3> HIDE DEF h, c, x
      <3>1. TokenRate(h, c, x) \in 0..64
        BY <1>1, TokenRateGrows
      <3> QED BY <3>1
    <2> HIDE DEF input, output, rate, q, i, o, h
    <2> QED BY <1>1, <1>3, <1>4, <1>5, <2>1
  <1> HIDE DEF input, output, stored, moved, total
  <1> QED BY <1>2, <1>4, <1>5, <1>6, <1>7, <1>8 DEF Estimate, spent, rate, a

(* What is spent is a natural number.                                      *)
LEMMA SpentIs ==
  ASSUME NEW s \in Amounts, V!ValidScenario(s)
  PROVE  /\ Spent(s).storage \in Nat /\ Spent(s).transfer \in Nat
         /\ Spent(s).input \in Nat /\ Spent(s).output \in Nat
         /\ s.requests * s.input \in Nat /\ s.requests * s.output \in Nat
  <1>1. /\ s.storage \in Nat /\ s.storagePrice \in Nat /\ s.transfer \in Nat
        /\ s.transferPrice \in Nat /\ s.input \in Nat /\ s.output \in Nat
        /\ s.inputPrice \in Nat /\ s.outputPrice \in Nat /\ s.requests \in Nat
    BY AmountsAre
  <1>2. s.requests * s.input \in Nat /\ s.requests * s.output \in Nat
    BY <1>1, Times
  <1>3. /\ s.storage * s.storagePrice \in Nat /\ s.transfer * s.transferPrice \in Nat
        /\ (s.requests * s.input) * s.inputPrice \in Nat
        /\ (s.requests * s.output) * s.outputPrice \in Nat
    BY <1>1, <1>2, Times
  <1> QED BY <1>2, <1>3 DEF Spent

(* No estimate saves more than is spent.                                   *)
LEMMA NeverTooMuch ==
  ASSUME NEW s \in Amounts, V!ValidScenario(s)
  PROVE  LET a == V!ModelImpact(s)
         IN  /\ a.gross \in 0..a.baseline
             /\ a.input <= 64 * (s.requests * s.input)
             /\ a.output <= 64 * (s.requests * s.output)
  <1> DEFINE a == V!ModelImpact(s)
             rate == TokenRate(s.hitRate, s.coverage, s.contextRate)
             spent == Spent(s)
             A == spent.storage
             B == spent.transfer
             C == spent.input
             D == spent.output
             i == s.requests * s.input
             o == s.requests * s.output
             sr == 16 * s.storageRate
             tr == 16 * s.transferRate
             h == 16 * s.hitRate
  <1>1. A \in Nat /\ B \in Nat /\ C \in Nat /\ D \in Nat /\ i \in Nat /\ o \in Nat
    BY SpentIs
  <1>2. /\ a.input = i * rate /\ a.output = o * h
        /\ a.baseline = 64 * A + 64 * B + 64 * C + 64 * D
        /\ a.gross = A * sr + B * tr + C * rate + D * h
    BY EstimateIs DEF Estimate
  <1>3. sr \in 0..64 /\ tr \in 0..64 /\ h \in 0..64 /\ rate \in 0..64
    <2>1. /\ s.storageRate \in 0..4 /\ s.transferRate \in 0..4 /\ s.hitRate \in 0..4
          /\ s.coverage \in 0..4 /\ s.contextRate \in 0..4
      BY AmountsAre
    <2>2. rate \in 0..64
      BY <2>1, TokenRateGrows
    <2> QED BY <2>1, <2>2
  <1> HIDE DEF a, rate, spent, i, o, sr, tr, h
  <1>4. ASSUME NEW m \in Nat, NEW r \in 0..64
        PROVE  m * r \in Nat /\ m * r <= 64 * m
    <2>1. m * r \in Nat /\ m * r <= m * 64
      BY TimesMore
    <2> QED BY <2>1
  <1> HIDE DEF A, B, C, D
  <1>5. /\ A * sr \in Nat /\ A * sr <= 64 * A /\ B * tr \in Nat /\ B * tr <= 64 * B
        /\ C * rate \in Nat /\ C * rate <= 64 * C /\ D * h \in Nat /\ D * h <= 64 * D
        /\ i * rate <= 64 * i /\ o * h <= 64 * o
    BY <1>1, <1>3, <1>4
  <1> DEFINE Ar == A * sr
             Br == B * tr
             Cr == C * rate
             Dr == D * h
  <1>6. Ar + Br + Cr + Dr \in 0..(64 * A + 64 * B + 64 * C + 64 * D)
    <2>1. /\ Ar \in Nat /\ Br \in Nat /\ Cr \in Nat /\ Dr \in Nat
          /\ Ar <= 64 * A /\ Br <= 64 * B /\ Cr <= 64 * C /\ Dr <= 64 * D
      BY <1>5
    <2> HIDE DEF Ar, Br, Cr, Dr
    <2> QED BY <1>1, <2>1
  <1> QED BY <1>2, <1>5, <1>6 DEF a, i, o

(* An estimate with a better cache is no lower.                            *)
LEMMA BetterSavesMore ==
  ASSUME NEW s \in Amounts, V!ValidScenario(s), NEW better \in s.hitRate..4
  PROVE  V!ModelImpact(s).gross <= V!ModelImpact([s EXCEPT !.hitRate = better]).gross
  <1> DEFINE t == [s EXCEPT !.hitRate = better]
             rate == TokenRate(s.hitRate, s.coverage, s.contextRate)
             more == TokenRate(better, s.coverage, s.contextRate)
             sr == 16 * s.storageRate
             tr == 16 * s.transferRate
             A == Spent(s).storage
             B == Spent(s).transfer
             C == Spent(s).input
             D == Spent(s).output
             g == 16 * s.hitRate
             h == 16 * better
  <1>1. /\ s.storageRate \in 0..4 /\ s.transferRate \in 0..4 /\ s.hitRate \in 0..4
        /\ s.coverage \in 0..4 /\ s.contextRate \in 0..4
    BY AmountsAre
  <1>2. better \in 0..4 /\ s.hitRate <= better
    BY <1>1
  <1>3. /\ t \in Amounts /\ t.hitRate = better
        /\ t.storage = s.storage /\ t.storageRate = s.storageRate /\ t.storagePrice = s.storagePrice
        /\ t.transfer = s.transfer /\ t.transferRate = s.transferRate
        /\ t.transferPrice = s.transferPrice /\ t.requests = s.requests /\ t.input = s.input
        /\ t.output = s.output /\ t.coverage = s.coverage /\ t.contextRate = s.contextRate
        /\ t.inputPrice = s.inputPrice /\ t.outputPrice = s.outputPrice
        /\ t.operating = s.operating /\ t.implementation = s.implementation
        /\ t.horizon = s.horizon /\ t.energy = s.energy /\ t.carbon = s.carbon
    BY <1>2 DEF Amounts
  <1> HIDE DEF t
  <1>4. V!ValidScenario(t)
    BY <1>2, <1>3 DEF V!ValidScenario, V!Quarters
  <1>5. Spent(t) = Spent(s)
    BY <1>3 DEF Spent
  <1>6. V!ModelImpact(s).gross = A * sr + B * tr + C * rate + D * g
    BY EstimateIs DEF Estimate
  <1>7. V!ModelImpact(t).gross = A * sr + B * tr + C * more + D * h
    <2>1. Estimate(t, V!ModelImpact(t))
      BY <1>3, <1>4, EstimateIs
    <2> QED BY <1>3, <1>5, <2>1 DEF Estimate
  <1>8. rate \in Nat /\ more \in Nat /\ rate <= more /\ g \in Nat /\ h \in Nat /\ g <= h
    <2>1. rate \in 0..64 /\ rate <= more
      BY <1>1, TokenRateGrows
    <2>2. more \in 0..64
      BY <1>1, <1>2, TokenRateGrows
    <2> HIDE DEF rate, more
    <2> QED BY <1>1, <1>2, <2>1, <2>2
  <1>9. A \in Nat /\ B \in Nat /\ C \in Nat /\ D \in Nat /\ sr \in Nat /\ tr \in Nat
    BY <1>1, SpentIs
  <1> HIDE DEF A, B, C, D, sr, tr, g, h, rate, more
  <1> DEFINE Ar == A * sr
             Br == B * tr
  <1>10. Ar \in Nat /\ Br \in Nat
    BY <1>9, Times
  <1> DEFINE C1 == C * rate
             C2 == C * more
             D1 == D * g
             D2 == D * h
  <1>11. C1 \in Nat /\ C2 \in Nat /\ C1 <= C2 /\ D1 \in Nat /\ D2 \in Nat /\ D1 <= D2
    BY <1>8, <1>9, TimesMore
  <1>12. Ar + Br + C1 + D1 <= Ar + Br + C2 + D2
    <2> HIDE DEF Ar, Br, C1, C2, D1, D2
    <2> QED BY <1>10, <1>11
  <1> QED BY <1>6, <1>7, <1>12 DEF t

(* What is invested comes back within the horizon exactly when its value   *)
(* is not negative.                                                        *)
LEMMA PaysBack ==
  ASSUME NEW net \in Int, NEW horizon \in Nat, horizon > 0, NEW invested \in Nat, invested > 0
  PROVE  net * horizon - invested >= 0 <=> net > 0 /\ invested <= horizon * net
  <1> DEFINE m == net * horizon
  <1>1. m \in Int /\ horizon * net = m
    OBVIOUS
  <1>2. CASE net > 0
    <2> HIDE DEF m
    <2> QED BY <1>1, <1>2
  <1>3. CASE ~(net > 0)
    <2>1. m <= 0
      <3>1. -net \in Nat /\ (-net) * horizon \in Nat
        BY <1>3
      <3>2. (-net) * horizon = -m
        OBVIOUS
      <3> QED BY <1>1, <3>1, <3>2
    <2> HIDE DEF m
    <2>2. ~(m - invested >= 0)
      BY <1>1, <2>1
    <2> QED BY <1>3, <2>2 DEF m
  <1> QED BY <1>2, <1>3

(* The payback and the value of an estimate agree.                         *)
LEMMA EstimatePaysBack ==
  ASSUME NEW s \in Amounts, V!ValidScenario(s)
  PROVE  LET a == V!ModelImpact(s)
         IN  a.return # None =>
               (a.value >= 0 <=> a.payback # None /\ a.payback.of <= s.horizon * a.payback.by)
  <1> DEFINE a == V!ModelImpact(s)
             net == a.net
             invested == V!Scale * s.implementation
  <1>1. invested \in Nat /\ s.horizon \in Nat /\ s.horizon > 0
    <2>1. s.implementation \in Nat
      BY AmountsAre
    <2> QED BY <2>1, AmountsAre DEF V!Scale, V!Quarters
  <1>2. /\ a.net = a.gross - V!Scale * s.operating
        /\ a.value = a.net * s.horizon - invested
        /\ a.payback = IF a.net > 0 THEN [of |-> invested, by |-> a.net] ELSE None
        /\ a.return = IF invested > 0 THEN [of |-> a.value, by |-> invested] ELSE None
    BY DEF V!ModelImpact
  <1>3. net \in Int
    <2>1. a.gross \in Int
      <3>1. a.gross \in 0..a.baseline
        BY NeverTooMuch
      <3> HIDE DEF a
      <3> QED BY <3>1
    <2>2. V!Scale * s.operating \in Int
      <3>1. s.operating \in Nat
        BY AmountsAre
      <3> QED BY <3>1 DEF V!Scale, V!Quarters
    <2> HIDE DEF a
    <2> QED BY <1>2, <2>1, <2>2
  <1> HIDE DEF a, net, invested
  <1>4. SUFFICES ASSUME a.return # None
                 PROVE  a.value >= 0 <=> a.payback # None /\ a.payback.of <= s.horizon * a.payback.by
    BY DEF a
  <1>5. invested > 0
    BY <1>2, <1>4
  <1>6. a.value >= 0 <=> net > 0 /\ invested <= s.horizon * net
    BY <1>1, <1>2, <1>3, <1>5, PaysBack DEF net
  <1>7. CASE net > 0
    <2>1. a.payback = [of |-> invested, by |-> net]
      BY <1>2, <1>7 DEF net
    <2>2. a.payback \in [of : Int, by : Int]
      BY <1>1, <1>3, <2>1
    <2>3. a.payback # None
      BY <2>2, ScenarioAssumption
    <2>4. a.payback.of = invested /\ a.payback.by = net
      BY <2>1
    <2> QED BY <1>6, <1>7, <2>3, <2>4
  <1>8. CASE ~(net > 0)
    <2>1. a.payback = None
      BY <1>2, <1>8 DEF net
    <2> QED BY <1>6, <1>8, <2>1
  <1> QED BY <1>7, <1>8

(* Carbon is estimated only where energy was measured.                     *)
LEMMA EstimateMeasured ==
  ASSUME NEW s \in Amounts, V!ValidScenario(s), V!ModelImpact(s).carbon # None
  PROVE  V!ModelImpact(s).energy # None /\ s.energy # None
  <1> DEFINE a == V!ModelImpact(s)
  <1>1. /\ a.carbon = IF s.carbon = None THEN None
                        ELSE V!CallsAvoided(s) * s.energy * s.carbon
        /\ a.energy = IF s.energy = None THEN None ELSE V!CallsAvoided(s) * s.energy
    BY DEF V!ModelImpact
  <1> HIDE DEF a
  <1>2. s.carbon # None
    BY <1>1 DEF a
  <1>3. s.energy # None /\ s.energy \in Nat
    BY <1>2, AmountsAre
  <1>4. V!CallsAvoided(s) \in Nat
    <2>1. s.requests \in Nat /\ s.hitRate \in Nat
      BY AmountsAre
    <2> QED BY <2>1, Times DEF V!CallsAvoided
  <1>5. V!CallsAvoided(s) * s.energy \in Nat
    BY <1>3, <1>4, Times
  <1>6. a.energy = V!CallsAvoided(s) * s.energy
    BY <1>1, <1>3
  <1>7. a.energy \in Int
    BY <1>5, <1>6
  <1> QED BY <1>3, <1>7, JobAssumption DEF a

(* No estimate saves more than there was or a token twice, a better cache  *)
(* never lowers one, and investments that pay back are those of value      *)
(* (impact.py:138-202).                                                    *)
THEOREM ImpactAlwaysHonest == DecisionSpec => []ImpactHonest
  <1>1. ASSUME ImpactInv, Answered("impact"), answer # Refused PROVE ImpactHonest
    <2> DEFINE s == question.scenario
    <2>1. s \in Amounts /\ answer = V!ModelImpact(s)
      BY <1>1, ScenarioAssumption DEF ImpactInv, Answered, Amounts
    <2>2. V!ValidScenario(s)
      BY <1>1, <2>1 DEF V!ModelImpact
    <2> HIDE DEF s
    <2>3. V!Scale = 64 /\ V!Quarters = 4
      BY DEF V!Scale, V!Quarters
    <2>4. /\ answer.gross \in 0..answer.baseline
          /\ answer.input <= 64 * (s.requests * s.input)
          /\ answer.output <= 64 * (s.requests * s.output)
      BY <2>1, <2>2, NeverTooMuch
    <2>5. /\ answer.input <= V!Scale * s.requests * s.input
          /\ answer.output <= V!Scale * s.requests * s.output
      <3>1. s.requests \in Nat /\ s.input \in Nat /\ s.output \in Nat
        BY <2>1, <2>2, AmountsAre
      <3>2. /\ V!Scale * s.requests * s.input = 64 * (s.requests * s.input)
            /\ V!Scale * s.requests * s.output = 64 * (s.requests * s.output)
        BY <2>3, <3>1
      <3> QED BY <2>4, <3>2
    <2>6. \A better \in s.hitRate..V!Quarters :
            answer.gross <= V!ModelImpact([s EXCEPT !.hitRate = better]).gross
      BY <2>1, <2>2, <2>3, BetterSavesMore
    <2>7. answer.return # None =>
            (answer.value >= 0 <=>
               answer.payback # None /\ answer.payback.of <= s.horizon * answer.payback.by)
      BY <2>1, <2>2, EstimatePaysBack
    <2>8. answer.carbon # None => answer.energy # None /\ s.energy # None
      BY <2>1, <2>2, EstimateMeasured
    <2> QED BY <2>4, <2>5, <2>6, <2>7, <2>8 DEF ImpactHonest, s
  <1>2. AnswerInv => ImpactHonest
    BY <1>1 DEF AnswerInv, ImpactHonest
  <1> QED BY <1>2, AnswersStand, PTL
-----------------------------------------------------------------------------
(* The strictest of some contracts is one of them.                         *)
LEMMA StrictestIs ==
  ASSUME NEW contracts \in SUBSET Contract, contracts # {}
  PROVE  /\ Strictest(contracts) \in contracts
         /\ \A other \in contracts : Strictness[Strictest(contracts)] <= Strictness[other]
  <1> DEFINE Ranks == {Strictness[c] + 1 : c \in contracts}
  <1>1. \A c \in Contract : Strictness[c] \in 0..5
    BY DEF Contract, Strictness
  <1> HIDE DEF Strictness
  <1>2. Ranks \in SUBSET (1..6) /\ Ranks # {}
    BY <1>1
  <1>3. Min(Ranks) \in Ranks /\ \A y \in Ranks : Min(Ranks) <= y
    <2> HIDE DEF Ranks
    <2> QED BY <1>2, LeastAndGreatest
  <1>4. PICK c \in contracts : \A other \in contracts : Strictness[c] <= Strictness[other]
    <2>1. PICK c \in contracts : Min(Ranks) = Strictness[c] + 1
      BY <1>3
    <2>2. ASSUME NEW other \in contracts PROVE Strictness[c] <= Strictness[other]
      <3>1. Strictness[c] + 1 <= Strictness[other] + 1
        BY <1>3, <2>1
      <3> QED BY <1>1, <3>1
    <2> QED BY <2>2
  <1>5. \E x \in contracts : \A other \in contracts : Stricter(x, other) = x
    BY <1>4 DEF Stricter
  <1>6. /\ Strictest(contracts) \in contracts
        /\ \A other \in contracts : Stricter(Strictest(contracts), other) = Strictest(contracts)
    BY <1>5 DEF Strictest
  <1>7. ASSUME NEW other \in contracts
        PROVE  Strictness[Strictest(contracts)] <= Strictness[other]
    <2> DEFINE x == Strictest(contracts)
    <2>1. Stricter(x, other) = x /\ Strictness[x] \in Int /\ Strictness[other] \in Int
      BY <1>1, <1>6
    <2> HIDE DEF x
    <2>2. Strictness[x] <= Strictness[other]
      BY <2>1 DEF Stricter
    <2> QED BY <2>2 DEF x
  <1> QED BY <1>6, <1>7

(* A bundle that can be used, and its rules that match a unit.             *)
Usable(bundle) ==
  /\ bundle.contract \in Contract /\ bundle.models # {}
  /\ Len(bundle.rules) \in Nat /\ DOMAIN bundle.rules = 1..Len(bundle.rules)
  /\ \A i \in DOMAIN bundle.rules : bundle.rules[i].contract \in Contract

RulesFor(unit, bundle) == {bundle.rules[i] : i \in MatchedRules(unit, bundle)}

(* Some model may be used, whatever rules match.                           *)
LEMMA ModelsNamed ==
  ASSUME NEW unit, NEW bundle, Usable(bundle)
  PROVE  Models(MatchedRules(unit, bundle), bundle) # {}
  <1> DEFINE n == Len(bundle.rules)
             listing == {i \in MatchedRules(unit, bundle) : bundle.rules[i].models # {}}
  <1>1. n \in Nat /\ listing \in SUBSET (1..n)
    BY DEF Usable, MatchedRules
  <1>2. CASE listing = {}
    BY <1>2 DEF Models, Usable
  <1>3. CASE listing # {}
    <2>1. Max(listing) \in listing
      <3> HIDE DEF n, listing
      <3> QED BY <1>1, <1>3, LeastAndGreatest
    <2>2. bundle.rules[Max(listing)].models # {}
      <3> DEFINE i == Max(listing)
      <3>1. i \in listing
        BY <2>1
      <3> HIDE DEF i
      <3> QED BY <3>1 DEF i
    <2>3. Models(MatchedRules(unit, bundle), bundle) = bundle.rules[Max(listing)].models
      BY <1>3 DEF Models
    <2> QED BY <2>2, <2>3
  <1> QED BY <1>2, <1>3

(* The contract a bundle gives is the strictest of the matching rules'.    *)
LEMMA BundleContractIs ==
  ASSUME NEW unit, NEW bundle, Usable(bundle)
  PROVE  LET rules == RulesFor(unit, bundle)
             contract == BundleContract(rules, bundle)
         IN  /\ contract \in Contract
             /\ \A rule \in rules : Strictness[contract] <= Strictness[rule.contract]
             /\ rules # {} => \E rule \in rules : contract = rule.contract
  <1> DEFINE rules == RulesFor(unit, bundle)
             contracts == {rule.contract : rule \in rules}
  <1>1. contracts \in SUBSET Contract
    BY DEF RulesFor, MatchedRules, Usable
  <1> HIDE DEF rules
  <1>2. CASE rules = {}
    BY <1>2 DEF BundleContract, Usable, rules
  <1>3. CASE rules # {}
    <2>1. BundleContract(rules, bundle) = Strictest(contracts)
      BY <1>3 DEF BundleContract
    <2>2. contracts # {}
      BY <1>3
    <2> HIDE DEF contracts
    <2>3. /\ Strictest(contracts) \in contracts
          /\ \A other \in contracts : Strictness[Strictest(contracts)] <= Strictness[other]
      BY <1>1, <2>2, StrictestIs
    <2> QED BY <1>1, <2>1, <2>3 DEF contracts, rules
  <1> QED BY <1>2, <1>3

(* MostRestrictiveWins of one bundle.                                      *)
LEMMA BundleDecides ==
  ASSUME NEW unit, NEW bundle, Usable(bundle)
  PROVE  LET rules == RulesFor(unit, bundle)
             made == EvaluateBundle(unit, bundle)
         IN  /\ made.contract \in Contract /\ made.models # {}
             /\ made.allowed \cap made.denied = {}
             /\ \A rule \in rules :
                  /\ Strictness[made.contract] <= Strictness[rule.contract]
                  /\ CanonicalActions(rule.deny) \cap made.allowed = {}
                  /\ rule.verifiers \subseteq made.verifiers
                  /\ rule.requiresApproval => made.approval
             /\ rules # {} => \E rule \in rules : made.contract = rule.contract
             /\ made.allowed \subseteq
                  BaselineAllowed(unit) \cup UNION {CanonicalActions(rule.allow) : rule \in rules}
             /\ bundle.semanticReduction = "deny" /\ made.contract # "semantic" =>
                  "semantic_cache_lookup" \notin made.allowed
  <1> DEFINE rules == RulesFor(unit, bundle)
             made == EvaluateBundle(unit, bundle)
             contract == BundleContract(rules, bundle)
             explicit == UNION {CanonicalActions(rule.allow) : rule \in rules}
             default == ByDefaultDenied(bundle, contract, explicit)
             refused == UNION {CanonicalActions(rule.deny) : rule \in rules}
             denied == BaselineDenied(unit) \cup default \cup refused
  <1>1. /\ made.contract = contract
        /\ made.allowed = (BaselineAllowed(unit) \cup explicit) \ denied
        /\ made.denied = denied
        /\ made.verifiers = {BaselineVerifier(unit)} \cup UNION {rule.verifiers : rule \in rules}
        /\ made.models = Models(MatchedRules(unit, bundle), bundle)
        /\ made.approval <=> \E rule \in rules : rule.requiresApproval
    BY DEF EvaluateBundle, RulesFor
  <1>2. /\ contract \in Contract
        /\ \A rule \in rules : Strictness[contract] <= Strictness[rule.contract]
        /\ rules # {} => \E rule \in rules : contract = rule.contract
    BY BundleContractIs
  <1>3. made.models # {}
    BY <1>1, ModelsNamed
  <1>4. bundle.semanticReduction = "deny" /\ contract # "semantic" =>
          "semantic_cache_lookup" \in default
    BY DEF ByDefaultDenied
  <1> HIDE DEF made, contract, default, rules
  <1>5. \A rule \in rules : CanonicalActions(rule.deny) \subseteq refused
    OBVIOUS
  <1> HIDE DEF refused
  <1>6. \A rule \in rules : CanonicalActions(rule.deny) \cap made.allowed = {}
    BY <1>1, <1>5
  <1>7. \A rule \in rules : rule.verifiers \subseteq made.verifiers
    BY <1>1
  <1>8. \A rule \in rules : rule.requiresApproval => made.approval
    BY <1>1
  <1>9. /\ made.allowed \cap made.denied = {}
        /\ made.allowed \subseteq BaselineAllowed(unit) \cup explicit
    BY <1>1
  <1>10. bundle.semanticReduction = "deny" /\ made.contract # "semantic" =>
           "semantic_cache_lookup" \notin made.allowed
    BY <1>1, <1>4
  <1> QED BY <1>1, <1>2, <1>3, <1>6, <1>7, <1>8, <1>9, <1>10 DEF made, rules

(* Every decision has a contract and never allows what it denies.          *)
LEMMA DecisionWell ==
  ASSUME NEW unit \in Unit, NEW bundle \in Bundle
  PROVE  LET made == EvaluatePolicy(unit, bundle)
         IN  made.contract \in Contract /\ made.allowed \cap made.denied = {}
  <1> DEFINE made == EvaluatePolicy(unit, bundle)
  <1>1. unit.requested \in Contract \cup {None} /\ unit.legalHold \in BOOLEAN
    BY UnitAssumption
  <1>2. CASE unit.legalHold
    <2>1. made = HeldDecision
      BY <1>2 DEF EvaluatePolicy
    <2> HIDE DEF made
    <2> QED BY <2>1 DEF HeldDecision, Decision, Contract, ExactActions, made
  <1>3. CASE ~unit.legalHold /\ bundle = None
    <2>1. made = DefaultDecision(unit)
      BY <1>3 DEF EvaluatePolicy
    <2>2. Requested(unit) \in Contract
      BY <1>1 DEF Requested, Contract
    <2> DEFINE reuse == IF unit.semanticCache /\ unit.kind \in Text
                        THEN {"semantic_cache_lookup"} ELSE {}
               known == {"normalize_prompt", "exact_cache_lookup", "model_route", "verify",
                         "cache_store", "compute_manifest"}
               context == IF unit.kind \in Text THEN {"context_compile"} ELSE {}
               denied == {"cross_tenant_cache", "semantic_summary", "lossy_transcode", "delete",
                          "semantic_cache_lookup"}
    <2> HIDE DEF made
    <2>3. CASE unit.kind \in AI /\ Requested(unit) = "semantic"
      <3>1. /\ made.contract = "semantic" /\ made.allowed = known \cup reuse \cup context
            /\ made.denied = denied \ reuse
        BY <2>1, <2>3 DEF DefaultDecision, Decision
      <3>2. known \cap denied = {} /\ context \cap denied = {}
        OBVIOUS
      <3> HIDE DEF known, reuse, context, denied
      <3>3. made.allowed \cap made.denied = {}
        BY <3>1, <3>2
      <3> QED BY <3>1, <3>3 DEF Contract, made
    <2>4. CASE ~(unit.kind \in AI /\ Requested(unit) = "semantic")
      <3>1. /\ made.contract = Requested(unit) /\ made.allowed = ExactActions \cup {"fixed_chunk"}
            /\ made.denied = {"semantic_cache", "semantic_cache_lookup", "semantic_summary",
                              "lossy_transcode", "cross_tenant_dedupe", "delete"}
        BY <2>1, <2>4 DEF DefaultDecision, Decision
      <3>2. made.allowed \cap made.denied = {}
        BY <3>1 DEF ExactActions
      <3> QED BY <2>2, <3>1, <3>2 DEF made
    <2> QED BY <2>3, <2>4
  <1>4. CASE ~unit.legalHold /\ bundle # None
    <2>1. made = EvaluateBundle(unit, bundle)
      BY <1>4 DEF EvaluatePolicy
    <2>2. Usable(bundle)
      BY <1>4, BundleAssumption DEF Usable
    <2> HIDE DEF made
    <2> QED BY <2>1, <2>2, BundleDecides DEF made
  <1> QED BY <1>1, <1>2, <1>3, <1>4

(* MostRestrictiveWins of one unit.                                        *)
LEMMA MostRestrictiveWinsOne ==
  ASSUME UnitInv
  PROVE  MostRestrictiveWins
  <1> SUFFICES ASSUME Decided PROVE MostRestrictiveWins
    BY DEF MostRestrictiveWins
  <1> DEFINE unit == question.unit
             bundle == question.bundle
             rules == IF bundle = None THEN {}
                        ELSE {rule \in ToSet(bundle.rules) : Matches(unit, rule.match)}
  <1>1. unit \in Unit /\ bundle \in Bundle /\ decision = EvaluatePolicy(unit, bundle)
    BY DEF UnitInv, Decided
  <1> HIDE DEF unit, bundle
  <1>2. unit.legalHold \in BOOLEAN
    BY <1>1, UnitAssumption
  <1>3. CASE unit.legalHold
    <2>1. decision = HeldDecision
      BY <1>1, <1>3 DEF EvaluatePolicy
    <2>2. decision.contract = "exact_bytes" /\ "delete" \notin decision.allowed
      BY <2>1 DEF HeldDecision, Decision, ExactActions
    <2> QED BY <1>3, <2>2 DEF MostRestrictiveWins, unit, bundle
  <1>4. CASE ~unit.legalHold /\ bundle = None
    BY <1>4 DEF MostRestrictiveWins, unit, bundle
  <1>5. CASE ~unit.legalHold /\ bundle # None
    <2>1. decision = EvaluateBundle(unit, bundle)
      BY <1>1, <1>5 DEF EvaluatePolicy
    <2>2. Usable(bundle)
      BY <1>1, <1>5, BundleAssumption DEF Usable
    <2>3. RulesFor(unit, bundle) = rules
      BY <1>5 DEF RulesFor, MatchedRules, ToSet
    <2> DEFINE found == RulesFor(unit, bundle)
    <2>4. /\ decision.models # {}
          /\ \A rule \in found :
               /\ Strictness[decision.contract] <= Strictness[rule.contract]
               /\ CanonicalActions(rule.deny) \cap decision.allowed = {}
               /\ rule.verifiers \subseteq decision.verifiers
               /\ rule.requiresApproval => decision.approval
          /\ found # {} => \E rule \in found : decision.contract = rule.contract
          /\ decision.allowed \subseteq
               BaselineAllowed(unit) \cup UNION {CanonicalActions(rule.allow) : rule \in found}
          /\ bundle.semanticReduction = "deny" /\ decision.contract # "semantic" =>
               "semantic_cache_lookup" \notin decision.allowed
      BY <2>1, <2>2, BundleDecides
    <2> HIDE DEF found, rules
    <2>5. found = rules
      BY <2>3 DEF found
    <2>6. /\ \A rule \in rules :
               /\ Strictness[decision.contract] <= Strictness[rule.contract]
               /\ CanonicalActions(rule.deny) \cap decision.allowed = {}
               /\ rule.verifiers \subseteq decision.verifiers
               /\ rule.requiresApproval => decision.approval
          /\ rules # {} => \E rule \in rules : decision.contract = rule.contract
          /\ decision.allowed \subseteq
               BaselineAllowed(unit) \cup UNION {CanonicalActions(rule.allow) : rule \in rules}
      BY <2>4, <2>5
    <2> QED BY <1>5, <2>4, <2>6 DEF MostRestrictiveWins, unit, bundle, rules
  <1> QED BY <1>2, <1>3, <1>4, <1>5

(* Lists of the lengths that follow.                                       *)
LEMMA ListsOf ==
  ASSUME NEW X
  PROVE  /\ \A a \in X : <<a>> \in Seq(X)
         /\ \A a, b, c, d, e \in X : <<a, b, c, d, e>> \in Seq(X)
         /\ \A a, b, c, d, e, f \in X : <<a, b, c, d, e, f>> \in Seq(X)
         /\ \A a, b, c, d, e, f, g, h, i \in X : <<a, b, c, d, e, f, g, h, i>> \in Seq(X)
  <1>1. \A a \in X : <<a>> \in Seq(X)
    OBVIOUS
  <1>2. \A a, b, c, d, e \in X : <<a, b, c, d, e>> \in Seq(X)
    OBVIOUS
  <1>3. \A a, b, c, d, e, f \in X : <<a, b, c, d, e, f>> \in Seq(X)
    OBVIOUS
  <1>4. \A a, b, c, d, e, f, g, h, i \in X : <<a, b, c, d, e, f, g, h, i>> \in Seq(X)
    OBVIOUS
  <1> QED BY <1>1, <1>2, <1>3, <1>4

(* The actions a plan is made from, each of them once.                     *)
IsPrompt(unit) == unit.kind = "prompt_request"
IsEmbedding(unit) == unit.kind = "embedding_request"
IsData(unit) == ~IsPrompt(unit) /\ ~IsEmbedding(unit)

ActionsOf(unit) == ToSet(Candidates(unit))

Known == ByteAction \cup AIAction \cup {"semantic_cache_lookup"}

(* They are those of the unit's kind, its safety actions among them.       *)
LEMMA CandidatesAre ==
  ASSUME NEW unit
  PROVE  /\ Candidates(unit) \in Seq(Known) /\ IsInjective(Candidates(unit))
         /\ IsEmbedding(unit) => /\ ActionsOf(unit) \subseteq AIAction
                                 /\ {"verify", "compute_manifest"} \subseteq ActionsOf(unit)
         /\ IsPrompt(unit) =>
              /\ ActionsOf(unit) \subseteq AIAction \cup {"semantic_cache_lookup"}
              /\ {"verify", "compute_manifest", "semantic_cache_lookup"} \subseteq ActionsOf(unit)
         /\ IsData(unit) =>
              /\ ActionsOf(unit) \subseteq ByteAction \ {"store_exact_bytes"}
              /\ {"hash", "manifest", "verify_restore"} \subseteq ActionsOf(unit)
  <1> DEFINE a == Candidates(unit)
  <1>1. CASE IsEmbedding(unit)
    <2>1. a = EmbeddingActions
      BY <1>1 DEF Candidates, IsEmbedding
    <2>2. /\ EmbeddingActions \in Seq(Known) /\ DOMAIN EmbeddingActions = 1..6
          /\ ToSet(EmbeddingActions)
               = {"normalize_prompt", "exact_cache_lookup", "model_route", "verify",
                  "cache_store", "compute_manifest"}
      <3>1. EmbeddingActions \in Seq(Known)
        BY ListsOf DEF EmbeddingActions, Known, AIAction
      <3>2. DOMAIN EmbeddingActions = 1..6
        BY DEF EmbeddingActions
      <3>3. \A i \in 1..6 :
              EmbeddingActions[i]
                \in {"normalize_prompt", "exact_cache_lookup", "model_route", "verify",
                     "cache_store", "compute_manifest"}
        BY DEF EmbeddingActions
      <3>4. /\ EmbeddingActions[1] = "normalize_prompt" /\ EmbeddingActions[2] = "exact_cache_lookup"
            /\ EmbeddingActions[3] = "model_route" /\ EmbeddingActions[4] = "verify"
            /\ EmbeddingActions[5] = "cache_store" /\ EmbeddingActions[6] = "compute_manifest"
        BY DEF EmbeddingActions
      <3>5. ToSet(EmbeddingActions) = {EmbeddingActions[i] : i \in 1..6}
        BY <3>2 DEF ToSet
      <3> QED BY <3>1, <3>2, <3>3, <3>4, <3>5
    <2>3. IsInjective(EmbeddingActions)
      BY <2>2 DEF EmbeddingActions, IsInjective
    <2> HIDE DEF a
    <2>4. ActionsOf(unit) = ToSet(EmbeddingActions)
      BY <2>1 DEF ActionsOf, a
    <2>5. ~IsPrompt(unit) /\ ~IsData(unit)
      BY <1>1 DEF IsPrompt, IsEmbedding, IsData
    <2> QED BY <1>1, <2>1, <2>2, <2>3, <2>4, <2>5 DEF AIAction, a
  <1>2. CASE IsPrompt(unit)
    <2>1. a = PromptActions
      BY <1>2 DEF Candidates, IsPrompt
    <2>2. /\ PromptActions \in Seq(Known) /\ DOMAIN PromptActions = 1..9
          /\ ToSet(PromptActions)
               = {"normalize_prompt", "exact_cache_lookup", "semantic_cache_lookup",
                  "context_compile", "tool_first_attempt", "model_route", "verify",
                  "cache_store", "compute_manifest"}
      <3>1. PromptActions \in Seq(Known)
        BY ListsOf DEF PromptActions, Known, AIAction
      <3>2. DOMAIN PromptActions = 1..9
        BY DEF PromptActions
      <3>3. \A i \in 1..9 :
              PromptActions[i]
                \in {"normalize_prompt", "exact_cache_lookup", "semantic_cache_lookup",
                     "context_compile", "tool_first_attempt", "model_route", "verify",
                     "cache_store", "compute_manifest"}
        BY DEF PromptActions
      <3>4. /\ PromptActions[1] = "normalize_prompt" /\ PromptActions[2] = "exact_cache_lookup"
            /\ PromptActions[3] = "semantic_cache_lookup" /\ PromptActions[4] = "context_compile"
            /\ PromptActions[5] = "tool_first_attempt" /\ PromptActions[6] = "model_route"
            /\ PromptActions[7] = "verify" /\ PromptActions[8] = "cache_store"
            /\ PromptActions[9] = "compute_manifest"
        BY DEF PromptActions
      <3>5. ToSet(PromptActions) = {PromptActions[i] : i \in 1..9}
        BY <3>2 DEF ToSet
      <3> QED BY <3>1, <3>2, <3>3, <3>4, <3>5
    <2>3. IsInjective(PromptActions)
      BY <2>2 DEF PromptActions, IsInjective
    <2> HIDE DEF a
    <2>4. ActionsOf(unit) = ToSet(PromptActions)
      BY <2>1 DEF ActionsOf, a
    <2>5. ~IsEmbedding(unit) /\ ~IsData(unit)
      BY <1>2 DEF IsPrompt, IsEmbedding, IsData
    <2> QED BY <1>2, <2>1, <2>2, <2>3, <2>4, <2>5 DEF AIAction, a
  <1>3. CASE IsData(unit)
    <2> DEFINE x == IF LikelyEncrypted(unit.payload)
                      THEN "store_exact_ciphertext" ELSE "content_defined_chunk"
               y == IF LikelyCompressible(unit.payload)
                      THEN "zstd" ELSE "dedupe_only_or_exact_store"
               data == <<"hash", x, y, "manifest", "verify_restore">>
    <2>1. a = data
      BY <1>3 DEF Candidates, DataActions, IsPrompt, IsEmbedding, IsData
    <2>2. x \in {"store_exact_ciphertext", "content_defined_chunk"}
          /\ y \in {"zstd", "dedupe_only_or_exact_store"}
      OBVIOUS
    <2> HIDE DEF x, y
    <2>3. /\ data \in Seq(Known) /\ DOMAIN data = 1..5
          /\ ToSet(data) = {"hash", x, y, "manifest", "verify_restore"}
      <3>1. {"hash", x, y, "manifest", "verify_restore"} \subseteq Known
        BY <2>2 DEF Known, ByteAction
      <3>2. data \in Seq(Known)
        BY <3>1, ListsOf
      <3>3. DOMAIN data = 1..5
        OBVIOUS
      <3>4. /\ data[1] = "hash" /\ data[2] = x /\ data[3] = y /\ data[4] = "manifest"
            /\ data[5] = "verify_restore"
        OBVIOUS
      <3>5. \A i \in 1..5 : data[i] \in {"hash", x, y, "manifest", "verify_restore"}
        OBVIOUS
      <3>6. ToSet(data) = {data[i] : i \in 1..5}
        BY <3>3 DEF ToSet
      <3> HIDE DEF data
      <3> QED BY <3>2, <3>3, <3>4, <3>5, <3>6
    <2>4. IsInjective(data)
      BY <2>2, <2>3 DEF IsInjective
    <2> HIDE DEF a, data
    <2>5. ActionsOf(unit) = ToSet(data)
      BY <2>1 DEF ActionsOf, a
    <2>6. ToSet(data) \subseteq ByteAction \ {"store_exact_bytes"}
      BY <2>2, <2>3 DEF ByteAction
    <2>7. {"hash", "manifest", "verify_restore"} \subseteq ToSet(data)
      BY <2>3
    <2>8. ~IsEmbedding(unit) /\ ~IsPrompt(unit)
      BY <1>3 DEF IsData
    <2> QED BY <2>1, <2>3, <2>4, <2>5, <2>6, <2>7, <2>8 DEF a
  <1> QED BY <1>1, <1>2, <1>3 DEF IsData

(* What _filter_actions keeps of them, in their order.                     *)
LEMMA FilteredIs ==
  ASSUME NEW unit, NEW made, NEW mode
  PROVE  LET plan == Filtered(unit, made, mode)
         IN  /\ plan \in Seq(Known) /\ IsInjective(plan)
             /\ \A x : x \in ToSet(plan) <=> x \in ActionsOf(unit) /\ Kept(x, made, mode)
  <1> DEFINE actions == Candidates(unit)
             n == Len(actions)
             wanted == {i \in DOMAIN actions : Kept(actions[i], made, mode)}
             kept == InOrder(n, wanted)
             m == Len(kept)
             plan == Filtered(unit, made, mode)
  <1>1. actions \in Seq(Known) /\ IsInjective(actions)
    BY CandidatesAre
  <1>2. plan = [k \in DOMAIN kept |-> actions[kept[k]]]
    BY DEF Filtered
  <1>3. ActionsOf(unit) = ToSet(actions)
    BY DEF ActionsOf
  <1> HIDE DEF actions, plan
  <1>4. n \in Nat /\ DOMAIN actions = 1..n /\ \A i \in 1..n : actions[i] \in Known
    BY <1>1
  <1>5. wanted \cap (1..n) = wanted
    BY <1>4
  <1>6. /\ kept \in Seq(1..n) /\ ToSet(kept) = wanted
        /\ \A j, k \in 1..m : j < k => kept[j] < kept[k]
    <2> HIDE DEF wanted, n
    <2> QED BY <1>4, <1>5, PickedWell
  <1> HIDE DEF kept
  <1>7. m \in Nat /\ DOMAIN kept = 1..m /\ \A k \in 1..m : kept[k] \in 1..n /\ kept[k] \in wanted
    <2>1. m \in Nat /\ DOMAIN kept = 1..m /\ \A k \in 1..m : kept[k] \in 1..n
      BY <1>6
    <2>2. \A k \in 1..m : kept[k] \in ToSet(kept)
      BY <2>1 DEF ToSet
    <2> HIDE DEF wanted, m
    <2> QED BY <1>6, <2>1, <2>2
  <1> HIDE DEF m, n
  <1>8. DOMAIN plan = 1..m /\ \A k \in 1..m : plan[k] = actions[kept[k]]
    BY <1>2, <1>7
  <1>9. plan \in Seq(Known)
    <2>1. plan = [k \in 1..m |-> actions[kept[k]]]
      BY <1>2, <1>7
    <2>2. \A k \in 1..m : actions[kept[k]] \in Known
      BY <1>4, <1>7
    <2>3. plan \in [1..m -> Known]
      BY <2>1, <2>2
    <2> QED BY <1>7, <2>3
  <1>10. IsInjective(plan)
    <2>1. ASSUME NEW j \in 1..m, NEW k \in 1..m, plan[j] = plan[k] PROVE j = k
      <3>1. kept[j] = kept[k]
        <4>1. kept[j] \in DOMAIN actions /\ kept[k] \in DOMAIN actions
          BY <1>4, <1>7
        <4>2. actions[kept[j]] = actions[kept[k]]
          BY <1>8, <2>1
        <4> QED BY <1>1, <4>1, <4>2 DEF IsInjective
      <3>2. kept[j] \in 1..n /\ kept[k] \in 1..n
        BY <1>7
      <3>3. ~(j < k) /\ ~(k < j)
        BY <1>4, <1>6, <3>1, <3>2 DEF m
      <3> QED BY <1>7, <3>3
    <2> QED BY <1>8, <2>1 DEF IsInjective
  <1>11. ASSUME NEW x PROVE x \in ToSet(plan) <=> x \in ToSet(actions) /\ Kept(x, made, mode)
    <2>1. ASSUME x \in ToSet(plan) PROVE x \in ToSet(actions) /\ Kept(x, made, mode)
      <3>1. PICK k \in 1..m : x = plan[k]
        BY <1>8, <2>1 DEF ToSet
      <3>2. kept[k] \in DOMAIN actions /\ kept[k] \in wanted /\ x = actions[kept[k]]
        BY <1>4, <1>7, <1>8, <3>1
      <3>3. Kept(actions[kept[k]], made, mode)
        BY <3>2
      <3> HIDE DEF wanted
      <3> QED BY <3>2, <3>3 DEF ToSet
    <2>2. ASSUME x \in ToSet(actions), Kept(x, made, mode) PROVE x \in ToSet(plan)
      <3>1. PICK i \in DOMAIN actions : x = actions[i]
        BY <2>2 DEF ToSet
      <3>2. i \in wanted
        BY <2>2, <3>1
      <3> HIDE DEF wanted
      <3>3. i \in ToSet(kept)
        BY <1>6, <3>2
      <3>4. PICK k \in 1..m : i = kept[k]
        BY <1>7, <3>3 DEF ToSet
      <3> QED BY <1>8, <3>1, <3>4 DEF ToSet
    <2> QED BY <2>1, <2>2
  <1> QED BY <1>3, <1>9, <1>10, <1>11 DEF plan

(* A plan into which the fallback is put.                                  *)
LEMMA InsertedIs ==
  ASSUME NEW X, NEW plan \in Seq(X), IsInjective(plan), Len(plan) > 0,
         NEW x \in X, x \notin ToSet(plan)
  PROVE  LET longer == InsertAt(plan, 2, x)
         IN  /\ longer \in Seq(X) /\ IsInjective(longer)
             /\ ToSet(longer) = ToSet(plan) \cup {x}
  <1> DEFINE n == Len(plan)
             longer == InsertAt(plan, 2, x)
  <1>1. n \in Nat /\ n > 0 /\ DOMAIN plan = 1..n /\ \A i \in 1..n : plan[i] \in X
    OBVIOUS
  <1>2. longer = SubSeq(plan, 1, 1) \o <<x>> \o SubSeq(plan, 2, n)
    BY DEF InsertAt
  <1>3. /\ longer \in Seq(X) /\ Len(longer) = n + 1
        /\ longer[1] = plan[1] /\ longer[2] = x
        /\ \A i \in 3..(n + 1) : longer[i] = plan[i - 1]
    <2> DEFINE a == SubSeq(plan, 1, 1)
               b == SubSeq(plan, 2, n)
               one == <<x>>
               c == a \o one
    <2>1. a \in Seq(X) /\ Len(a) = 1 /\ a[1] = plan[1]
      BY <1>1
    <2>2. b \in Seq(X) /\ Len(b) = n - 1 /\ \A i \in 1..(n - 1) : b[i] = plan[i + 1]
      BY <1>1
    <2>3. one \in Seq(X) /\ Len(one) = 1 /\ one[1] = x
      BY ListsOf
    <2>4. longer = c \o b
      BY <1>2
    <2> HIDE DEF a, b, n, one, longer
    <2>5. /\ c \in Seq(X) /\ Len(c) = 1 + 1
          /\ \A i \in 1..(1 + 1) : c[i] = IF i <= 1 THEN a[i] ELSE one[i - 1]
      BY <2>1, <2>3, ConcatProperties
    <2> HIDE DEF c
    <2>6. Len(c) = 2 /\ c[1] = plan[1] /\ c[2] = x
      BY <2>1, <2>3, <2>5
    <2>7. /\ longer \in Seq(X) /\ Len(longer) = Len(c) + Len(b)
          /\ \A i \in 1..(Len(c) + Len(b)) :
               longer[i] = IF i <= Len(c) THEN c[i] ELSE b[i - Len(c)]
      BY <2>2, <2>4, <2>5, ConcatProperties
    <2>8. \A i \in 1..(n + 1) : longer[i] = IF i <= 2 THEN c[i] ELSE b[i - 2]
      BY <1>1, <2>2, <2>6, <2>7
    <2>9. ASSUME NEW i \in 3..(n + 1) PROVE longer[i] = plan[i - 1]
      <3>1. i - 2 \in 1..(n - 1) /\ i - 2 + 1 = i - 1 /\ i \in 1..(n + 1) /\ ~(i <= 2)
        BY <1>1
      <3>2. longer[i] = b[i - 2]
        BY <2>8, <3>1
      <3> QED BY <2>2, <3>1, <3>2
    <2>10. longer[1] = c[1] /\ longer[2] = c[2]
      BY <1>1, <2>8
    <2>11. Len(longer) = n + 1
      BY <1>1, <2>2, <2>6, <2>7
    <2> QED BY <2>6, <2>7, <2>9, <2>10, <2>11
  <1> HIDE DEF longer, n
  <1>4. DOMAIN longer = 1..(n + 1)
    BY <1>3
  <1>5. \A i \in 1..n : plan[i] # x
    BY <1>1 DEF ToSet
  <1>6. ASSUME NEW i \in 1..(n + 1), i # 2
        PROVE  \E k \in 1..n : longer[i] = plan[k] /\ k = IF i = 1 THEN 1 ELSE i - 1
    <2>1. CASE i = 1
      BY <1>1, <1>3, <2>1
    <2>2. CASE i \in 3..(n + 1)
      BY <1>1, <1>3, <2>2
    <2> QED BY <1>1, <1>6, <2>1, <2>2
  <1>7. IsInjective(longer)
    <2>1. ASSUME NEW i \in 1..(n + 1), NEW j \in 1..(n + 1), longer[i] = longer[j] PROVE i = j
      <3>1. CASE i = 2 \/ j = 2
        <4>1. ASSUME NEW k \in 1..(n + 1), k # 2 PROVE longer[k] # x
          <5>1. PICK l \in 1..n : longer[k] = plan[l]
            BY <1>6, <4>1
          <5> QED BY <1>5, <5>1
        <4> QED BY <1>3, <2>1, <3>1, <4>1
      <3>2. CASE i # 2 /\ j # 2
        <4>1. PICK k \in 1..n : longer[i] = plan[k] /\ k = IF i = 1 THEN 1 ELSE i - 1
          BY <1>6, <3>2
        <4>2. PICK l \in 1..n : longer[j] = plan[l] /\ l = IF j = 1 THEN 1 ELSE j - 1
          BY <1>6, <3>2
        <4>3. k = l
          BY <1>1, <2>1, <4>1, <4>2 DEF IsInjective
        <4> QED BY <1>1, <3>2, <4>1, <4>2, <4>3
      <3> QED BY <3>1, <3>2
    <2> QED BY <1>4, <2>1 DEF IsInjective
  <1>8. ToSet(longer) = ToSet(plan) \cup {x}
    <2>1. ASSUME NEW i \in 1..(n + 1) PROVE longer[i] \in ToSet(plan) \cup {x}
      <3>1. CASE i = 2
        BY <1>3, <3>1
      <3>2. CASE i # 2
        BY <1>1, <1>6, <3>2 DEF ToSet
      <3> QED BY <3>1, <3>2
    <2>2. ToSet(longer) = {longer[i] : i \in 1..(n + 1)}
      BY <1>4 DEF ToSet
    <2>3. ASSUME NEW k \in 1..n PROVE plan[k] \in ToSet(longer)
      <3>1. CASE k = 1
        BY <1>1, <1>3, <1>4, <3>1 DEF ToSet
      <3>2. CASE k # 1
        <4>1. k + 1 \in 3..(n + 1) /\ k + 1 - 1 = k /\ k + 1 \in 1..(n + 1)
          BY <1>1, <3>2
        <4>2. longer[k + 1] = plan[k]
          BY <1>3, <4>1
        <4> QED BY <1>4, <4>1, <4>2 DEF ToSet
      <3> QED BY <3>1, <3>2
    <2>4. ToSet(plan) = {plan[k] : k \in 1..n}
      BY <1>1 DEF ToSet
    <2>5. 2 \in 1..(n + 1)
      BY <1>1
    <2>6. x \in ToSet(longer)
      BY <1>3, <2>2, <2>5
    <2> QED BY <2>1, <2>2, <2>3, <2>4, <2>6
  <1> QED BY <1>3, <1>7, <1>8 DEF longer

(* A plan whose safety actions the policy does not deny.                   *)
PlanIs(unit, made, mode, plan) ==
  /\ plan \in Seq(Known) /\ IsInjective(plan)
  /\ \A x \in ToSet(plan) : \/ x \in ActionsOf(unit) /\ Kept(x, made, mode)
                            \/ x = "store_exact_bytes" /\ IsData(unit)
  /\ \A x \in ActionsOf(unit) : Kept(x, made, mode) => x \in ToSet(plan)
  /\ IsData(unit) => ToSet(plan) \cap Storing # {}

(* A plan with its storage action is such a plan.                          *)
LEMMA PlanMade ==
  ASSUME NEW unit, NEW made, NEW mode, ~DeniesSafety(unit, made)
  PROVE  PlanIs(unit, made, mode, WithStorage(unit, Filtered(unit, made, mode)))
  <1> DEFINE short == Filtered(unit, made, mode)
             plan == WithStorage(unit, short)
  <1>1. /\ short \in Seq(Known) /\ IsInjective(short)
        /\ \A x : x \in ToSet(short) <=> x \in ActionsOf(unit) /\ Kept(x, made, mode)
    BY FilteredIs
  <1> HIDE DEF short
  <1>2. CASE ~IsData(unit)
    <2>1. plan = short
      BY <1>2 DEF WithStorage, IsData, IsPrompt, IsEmbedding
    <2> QED BY <1>1, <1>2, <2>1 DEF PlanIs, short
  <1>3. CASE IsData(unit) /\ ToSet(short) \cap Storing # {}
    <2>1. plan = short
      BY <1>3 DEF WithStorage
    <2> QED BY <1>1, <1>3, <2>1 DEF PlanIs, short
  <1>4. CASE IsData(unit) /\ ToSet(short) \cap Storing = {}
    <2> DEFINE x == "store_exact_bytes"
    <2>1. plan = InsertAt(short, 2, x)
      BY <1>4 DEF WithStorage, IsData, IsPrompt, IsEmbedding
    <2>2. x \in Storing /\ x \in Known
      BY DEF Storing, Known, ByteAction
    <2>3. x \notin ToSet(short)
      BY <1>4, <2>2
    <2>4. "hash" \in ToSet(short)
      <3>1. "hash" \in ActionsOf(unit)
        BY <1>4, CandidatesAre
      <3>2. "hash" \notin made.denied
        BY <3>1 DEF DeniesSafety, Framework, ActionsOf
      <3>3. Kept("hash", made, mode)
        BY <3>2 DEF Kept, Framework
      <3> QED BY <1>1, <3>1, <3>3
    <2>5. Len(short) > 0
      <3>1. PICK i \in DOMAIN short : short[i] = "hash"
        BY <2>4 DEF ToSet
      <3> QED BY <1>1, <3>1
    <2> HIDE DEF x, plan
    <2>6. plan \in Seq(Known) /\ IsInjective(plan) /\ ToSet(plan) = ToSet(short) \cup {x}
      BY <1>1, <2>1, <2>2, <2>3, <2>5, InsertedIs
    <2> HIDE DEF Storing
    <2> QED BY <1>1, <1>4, <2>2, <2>6 DEF PlanIs, short, plan, x
  <1> QED BY <1>2, <1>3, <1>4

(* The safety actions of a unit are in its plan.                           *)
LEMMA SafetyKept ==
  ASSUME NEW unit, NEW made, NEW mode, NEW plan, PlanIs(unit, made, mode, plan),
         ~DeniesSafety(unit, made)
  PROVE  /\ ~IsData(unit) => {"verify", "compute_manifest"} \subseteq ToSet(plan)
         /\ IsData(unit) => {"hash", "manifest", "verify_restore"} \subseteq ToSet(plan)
  <1>1. ASSUME NEW x \in Framework, x \in ActionsOf(unit) PROVE x \in ToSet(plan)
    <2>1. x \notin made.denied
      BY <1>1 DEF DeniesSafety, ActionsOf
    <2>2. Kept(x, made, mode)
      BY <2>1 DEF Kept
    <2> QED BY <1>1, <2>2 DEF PlanIs
  <1>2. {"hash", "manifest", "verify", "verify_restore", "compute_manifest"} \subseteq Framework
    BY DEF Framework
  <1>3. ~IsData(unit) => {"verify", "compute_manifest"} \subseteq ActionsOf(unit)
    BY CandidatesAre DEF IsData
  <1>4. IsData(unit) => {"hash", "manifest", "verify_restore"} \subseteq ActionsOf(unit)
    BY CandidatesAre
  <1> QED BY <1>1, <1>2, <1>3, <1>4

(* Which contracts the actions of a plan support.                          *)
LEMMA SupportedBy ==
  /\ \A x \in ByteAction : SupportedContracts(x) = ExactContract
  /\ \A x \in AIAction : SupportedContracts(x) = {"semantic", "exact_bytes", "exact_logical"}
  /\ SupportedContracts("semantic_cache_lookup") = {"semantic"}
  <1> DEFINE others == {"semantic_cache_lookup", "semantic_summary", "approximate_quantization",
                        "delete"}
  <1>1. ByteAction \cap AIAction = {} /\ ByteAction \cap others = {} /\ AIAction \cap others = {}
    <2>1. ByteAction \cap AIAction = {}
      BY DEF AIAction, ByteAction
    <2>2. ByteAction \cap others = {}
      BY DEF ByteAction
    <2>3. AIAction \cap others = {}
      BY DEF AIAction
    <2> QED BY <2>1, <2>2, <2>3
  <1> HIDE DEF AIAction, ByteAction
  <1>2. ASSUME NEW x \in ByteAction PROVE SupportedContracts(x) = ExactContract
    <2>1. x \notin AIAction /\ x \notin others
      BY <1>1
    <2>2. /\ x \notin {"semantic_cache_lookup", "semantic_summary"}
          /\ x # "approximate_quantization" /\ x # "delete"
      BY <2>1
    <2> QED BY <2>1, <2>2 DEF SupportedContracts
  <1>3. ASSUME NEW x \in AIAction
        PROVE  SupportedContracts(x) = {"semantic", "exact_bytes", "exact_logical"}
    <2>1. x \notin ByteAction /\ x \notin others
      BY <1>1
    <2>2. /\ x \notin {"semantic_cache_lookup", "semantic_summary"}
          /\ x # "approximate_quantization" /\ x # "delete"
      BY <2>1
    <2> QED BY <2>1, <2>2 DEF SupportedContracts
  <1>4. SupportedContracts("semantic_cache_lookup") = {"semantic"}
    <2>1. "semantic_cache_lookup" \in others
      OBVIOUS
    <2>2. "semantic_cache_lookup" \notin ByteAction /\ "semantic_cache_lookup" \notin AIAction
      BY <1>1, <2>1
    <2> QED BY <2>2 DEF SupportedContracts
  <1> QED BY <1>2, <1>3, <1>4

(* PlanKeepsPolicy of one plan.                                            *)
LEMMA PlanKeepsPolicyOne ==
  ASSUME UnitInv
  PROVE  PlanKeepsPolicy
  <1> SUFFICES ASSUME Answered("unit"), answer # Refused PROVE PlanKeepsPolicy
    BY DEF PlanKeepsPolicy
  <1> DEFINE unit == question.unit
             mode == question.mode
             plan == WithStorage(unit, Filtered(unit, decision, mode))
  <1>1. answer = PlanWorkUnit(unit, decision, mode)
    BY DEF UnitInv, Answered
  <1>2. ~DeniesSafety(unit, decision) /\ Validated(decision.contract, plan) /\ answer = plan
    BY <1>1 DEF PlanWorkUnit
  <1> HIDE DEF unit, mode, plan
  <1>3. PlanIs(unit, decision, mode, plan)
    BY <1>2, PlanMade DEF plan
  <1>4. \A i \in DOMAIN plan : decision.contract \in SupportedContracts(plan[i])
    BY <1>2 DEF Validated
  <1>5. ASSUME NEW i \in DOMAIN plan, plan[i] \in decision.denied PROVE plan[i] = "store_exact_bytes"
    <2>1. plan[i] \in ToSet(plan)
      BY DEF ToSet
    <2> QED BY <1>3, <1>5, <2>1 DEF PlanIs, Kept
  <1>6. \/ {"verify", "compute_manifest"} \subseteq ToSet(plan)
        \/ {"hash", "manifest", "verify_restore"} \subseteq ToSet(plan)
             /\ ToSet(plan) \cap Storing # {}
    BY <1>2, <1>3, SafetyKept DEF PlanIs
  <1>7. IsInjective(plan)
    BY <1>3 DEF PlanIs
  <1> QED BY <1>2, <1>4, <1>5, <1>6, <1>7 DEF PlanKeepsPolicy

(* RefusalsExplained of one unit.                                          *)
LEMMA RefusalsExplainedOne ==
  ASSUME UnitInv
  PROVE  RefusalsExplained
  <1> SUFFICES ASSUME Answered("unit") PROVE RefusalsExplained
    BY DEF RefusalsExplained
  <1> DEFINE unit == question.unit
             mode == question.mode
             plan == WithStorage(unit, Filtered(unit, decision, mode))
             contract == decision.contract
             denies == \E action \in Framework :
                         action \in decision.denied /\ action \in ToSet(Candidates(unit))
             lookup == "semantic_cache_lookup"
  <1>1. /\ answer = PlanWorkUnit(unit, decision, mode)
        /\ contract \in Contract /\ decision.allowed \cap decision.denied = {}
    BY DecisionWell DEF UnitInv, Answered
  <1> HIDE DEF unit, mode
  <1>2. denies <=> DeniesSafety(unit, decision)
    BY DEF DeniesSafety
  <1>3. DeniesSafety(unit, decision) => answer = Refused
    BY <1>1 DEF PlanWorkUnit
  <1>4. ASSUME ~DeniesSafety(unit, decision)
        PROVE  answer = Refused <=>
                 \/ contract \in {"derived", "tombstone"}
                 \/ ~IsData(unit) /\ contract = "bounded_approx"
                 \/ IsPrompt(unit) /\ contract # "semantic" /\ lookup \in decision.allowed
    <2>1. PlanIs(unit, decision, mode, plan)
      BY <1>4, PlanMade
    <2>2. answer = IF Validated(contract, plan) THEN plan ELSE Refused
      BY <1>1, <1>4 DEF PlanWorkUnit
    <2> HIDE DEF plan
    <2>3. plan # Refused
      BY <2>1, UnitAssumption DEF PlanIs, Known
    <2>4. answer = Refused <=> \E x \in ToSet(plan) : contract \notin SupportedContracts(x)
      BY <2>2, <2>3 DEF Validated, ToSet
    <2> HIDE DEF contract
    <2>5. CASE contract \in {"derived", "tombstone"}
      <3>1. CASE IsData(unit)
        <4>1. "hash" \in ToSet(plan)
          BY <1>4, <2>1, <3>1, SafetyKept
        <4>2. SupportedContracts("hash") = ExactContract
          BY SupportedBy DEF ByteAction
        <4>3. contract \notin ExactContract
          BY <2>5 DEF ExactContract
        <4> QED BY <2>4, <2>5, <4>1, <4>2, <4>3
      <3>2. CASE ~IsData(unit)
        <4>1. "verify" \in ToSet(plan)
          BY <1>4, <2>1, <3>2, SafetyKept
        <4>2. SupportedContracts("verify") = {"semantic", "exact_bytes", "exact_logical"}
          BY SupportedBy DEF AIAction
        <4>3. contract \notin {"semantic", "exact_bytes", "exact_logical"}
          BY <2>5
        <4> QED BY <2>4, <2>5, <4>1, <4>2, <4>3
      <3> QED BY <3>1, <3>2
    <2>6. CASE contract \notin {"derived", "tombstone"}
      <3>1. contract \in ExactContract
        BY <1>1, <2>6 DEF Contract, ExactContract
      <3>2. CASE IsData(unit)
        <4>1. \A x \in ToSet(plan) : x \in ByteAction
          <5>1. "store_exact_bytes" \in ByteAction
            BY DEF ByteAction
          <5> QED BY <2>1, <3>2, <5>1, CandidatesAre DEF PlanIs
        <4>2. \A x \in ToSet(plan) : contract \in SupportedContracts(x)
          BY <3>1, <4>1, SupportedBy
        <4> QED BY <2>4, <2>6, <3>2, <4>2 DEF IsData
      <3>3. CASE ~IsData(unit)
        <4>1. \A x \in ToSet(plan) : x \in ActionsOf(unit) /\ Kept(x, decision, mode)
          BY <2>1, <3>3 DEF PlanIs
        <4>2. "verify" \in ToSet(plan)
          BY <1>4, <2>1, <3>3, SafetyKept
        <4>3. SupportedContracts("verify") = {"semantic", "exact_bytes", "exact_logical"}
          BY SupportedBy DEF AIAction
        <4>4. CASE contract = "bounded_approx"
          BY <2>4, <3>3, <4>2, <4>3, <4>4
        <4>5. CASE contract # "bounded_approx"
          <5>1. contract \in {"semantic", "exact_bytes", "exact_logical"}
            BY <3>1, <4>5 DEF ExactContract
          <5>2. ASSUME NEW x \in ToSet(plan), contract \notin SupportedContracts(x)
                PROVE  x = lookup /\ IsPrompt(unit) /\ contract # "semantic"
                         /\ lookup \in decision.allowed
            <6>1. x \notin AIAction
              BY <5>1, <5>2, SupportedBy
            <6>2. x = lookup /\ IsPrompt(unit)
              BY <3>3, <4>1, <6>1, CandidatesAre DEF IsData
            <6>3. contract # "semantic"
              BY <5>2, <6>2, SupportedBy
            <6>4. x \in Framework \cup decision.allowed \/ x = "model_route"
              BY <4>1 DEF Kept
            <6>5. lookup \notin Framework /\ lookup # "model_route"
              BY DEF Framework
            <6> QED BY <6>2, <6>3, <6>4, <6>5
          <5>3. ASSUME IsPrompt(unit), contract # "semantic", lookup \in decision.allowed
                PROVE  \E x \in ToSet(plan) : contract \notin SupportedContracts(x)
            <6>1. lookup \in ActionsOf(unit)
              BY <5>3, CandidatesAre
            <6>2. Kept(lookup, decision, mode)
              BY <1>1, <5>3 DEF Kept
            <6>3. lookup \in ToSet(plan)
              BY <2>1, <6>1, <6>2 DEF PlanIs
            <6> QED BY <5>3, <6>3, SupportedBy
          <5> QED BY <2>4, <2>6, <4>5, <5>2, <5>3
        <4> QED BY <4>4, <4>5
      <3> QED BY <3>2, <3>3
    <2> QED BY <2>5, <2>6
  <1> HIDE DEF denies, contract
  <1>5. answer = Refused <=>
          \/ denies
          \/ contract \in {"derived", "tombstone"}
          \/ ~IsData(unit) /\ contract = "bounded_approx"
          \/ IsPrompt(unit) /\ contract # "semantic" /\ lookup \in decision.allowed
    BY <1>2, <1>3, <1>4
  <1>6. /\ unit.kind \in {"prompt_request", "embedding_request"} <=> ~IsData(unit)
        /\ unit.kind = "prompt_request" <=> IsPrompt(unit)
    BY DEF IsData, IsPrompt, IsEmbedding
  <1> QED BY <1>5, <1>6 DEF RefusalsExplained, unit, contract, denies

(* The last verification of a verifier decides.                            *)
Verdicts == [verifier : STRING, verdict : {"accepted", "rejected"}]

Verified(results, verifier) ==
  \E i \in DOMAIN results :
    /\ results[i] = [verifier |-> verifier, verdict |-> "accepted"]
    /\ \A j \in DOMAIN results :
         results[j] = [verifier |-> verifier, verdict |-> "rejected"] => j < i

(* A reducer is given that last verdict.                                   *)
LEMMA VerificationIs ==
  ASSUME NEW results \in Seq(Verdicts), NEW verifier
  PROVE  /\ Verification(results, verifier) \in {"missing", "accepted", "rejected"}
         /\ Verification(results, verifier) = "accepted" <=> Verified(results, verifier)
  <1> DEFINE n == Len(results)
             own == {i \in 1..n : results[i].verifier = verifier}
             last == Max(own)
  <1>1. n \in Nat /\ DOMAIN results = 1..n /\ \A i \in 1..n : results[i] \in Verdicts
    OBVIOUS
  <1>2. \A i \in 1..n : /\ results[i].verdict \in {"accepted", "rejected"}
                        /\ \A verdict : results[i] = [verifier |-> verifier, verdict |-> verdict]
                             <=> i \in own /\ results[i].verdict = verdict
    BY <1>1 DEF Verdicts
  <1>3. own \in SUBSET (1..n)
    OBVIOUS
  <1>4. Verification(results, verifier) = IF own = {} THEN "missing" ELSE results[last].verdict
    <2>1. SelectLastInSeq(results, LAMBDA r : r.verifier = verifier) = IF own # {} THEN last ELSE 0
      BY DEF SelectLastInSeq
    <2>2. own # {} => last # 0
      <3>1. own # {} => last \in own
        <4> HIDE DEF n, own
        <4> QED BY <1>1, <1>3, LeastAndGreatest
      <3> QED BY <3>1
    <2> HIDE DEF last, own, n
    <2> QED BY <2>1, <2>2 DEF Verification
  <1> HIDE DEF own, n
  <1>5. CASE own = {}
    <2>1. Verification(results, verifier) = "missing"
      BY <1>4, <1>5
    <2>2. ~Verified(results, verifier)
      BY <1>1, <1>2, <1>5 DEF Verified
    <2> QED BY <2>1, <2>2
  <1>6. CASE own # {}
    <2>1. last \in own /\ \A y \in own : last >= y
      BY <1>1, <1>3, <1>6, LeastAndGreatest
    <2> HIDE DEF last
    <2>2. last \in 1..n /\ Verification(results, verifier) = results[last].verdict
      BY <1>3, <1>4, <1>6, <2>1
    <2>3. ASSUME results[last].verdict = "accepted" PROVE Verified(results, verifier)
      <3>1. results[last] = [verifier |-> verifier, verdict |-> "accepted"]
        BY <1>2, <2>1, <2>2, <2>3
      <3>2. ASSUME NEW j \in 1..n, results[j] = [verifier |-> verifier, verdict |-> "rejected"]
            PROVE  j < last
        <4>1. j \in own /\ results[j].verdict = "rejected"
          BY <1>2, <3>2
        <4>2. j # last /\ last >= j
          BY <2>1, <2>3, <4>1
        <4> QED BY <1>1, <2>2, <4>2
      <3> QED BY <1>1, <2>2, <3>1, <3>2 DEF Verified
    <2>4. ASSUME Verified(results, verifier) PROVE results[last].verdict = "accepted"
      <3>1. PICK i \in 1..n :
              /\ results[i] = [verifier |-> verifier, verdict |-> "accepted"]
              /\ \A j \in 1..n :
                   results[j] = [verifier |-> verifier, verdict |-> "rejected"] => j < i
        BY <1>1, <2>4 DEF Verified
      <3>2. i \in own /\ last >= i
        BY <1>2, <2>1, <3>1
      <3>3. ~(last < i)
        BY <1>1, <2>2, <3>2
      <3>4. results[last].verdict # "rejected"
        BY <1>2, <2>1, <2>2, <3>1, <3>3
      <3> QED BY <1>2, <2>2, <3>4
    <2> QED BY <1>2, <2>2, <2>3, <2>4
  <1> QED BY <1>5, <1>6

(* A reducer is on when nothing speaks against it.                         *)
LEMMA EnabledIs ==
  ASSUME NEW unit, NEW name, NEW results \in Seq(Verdicts)
  PROVE  LET spec == ReducerSpecs[name]
         IN  EvaluateReducer(unit, name, results) = "policy_and_verifier_accepted" <=>
               /\ unit.kind \in spec.kinds
               /\ EffectiveContract(unit) = spec.contract
               /\ Flagged(unit, name)
               /\ Verified(results, spec.verifier)
  <1> DEFINE spec == ReducerSpecs[name]
             verification == Verification(results, spec.verifier)
             kind == unit.kind \notin spec.kinds
             contract == EffectiveContract(unit) # spec.contract
             flag == ~Flagged(unit, name)
             missing == verification = "missing"
             rejected == verification = "rejected"
             reasons == [kind_not_eligible |-> kind, contract_not_eligible |-> contract,
                         policy_flag_required |-> flag,
                         accepted_verification_required |-> missing, verifier_failed |-> rejected]
             order == <<"kind_not_eligible", "contract_not_eligible", "policy_flag_required",
                        "accepted_verification_required", "verifier_failed">>
             met == {i \in 1..Len(order) : reasons[order[i]]}
             first == IF met # {} THEN Min(met) ELSE 0
             answered == EvaluateReducer(unit, name, results)
  <1>1. answered = IF first = 0 THEN "policy_and_verifier_accepted" ELSE order[first]
    BY DEF EvaluateReducer, SelectInSeq
  <1>2. verification \in {"missing", "accepted", "rejected"}
        /\ (verification = "accepted" <=> Verified(results, spec.verifier))
    BY VerificationIs
  <1> HIDE DEF answered, spec, verification
  <1>3. met = {} <=> ~kind /\ ~contract /\ ~flag /\ ~missing /\ ~rejected
    <2> HIDE DEF kind, contract, flag, missing, rejected
    <2>1. /\ reasons[order[1]] <=> kind
          /\ reasons[order[2]] <=> contract
          /\ reasons[order[3]] <=> flag
          /\ reasons[order[4]] <=> missing
          /\ reasons[order[5]] <=> rejected
      OBVIOUS
    <2>2. 1..Len(order) = {1, 2, 3, 4, 5}
      OBVIOUS
    <2> HIDE DEF reasons, order
    <2> QED BY <2>1, <2>2
  <1>4. met \in SUBSET (1..5)
    OBVIOUS
  <1> HIDE DEF met
  <1>5. CASE met = {}
    <2>1. answered = "policy_and_verifier_accepted"
      BY <1>1, <1>5
    <2> QED BY <1>2, <1>3, <1>5, <2>1 DEF answered, spec
  <1>6. CASE met # {}
    <2>1. Min(met) \in 1..5
      BY <1>4, <1>6, LeastAndGreatest
    <2>2. first \in 1..5
      BY <1>6, <2>1
    <2> HIDE DEF first
    <2>3. answered = order[first]
      BY <1>1, <2>2
    <2>4. answered # "policy_and_verifier_accepted"
      BY <2>2, <2>3
    <2> QED BY <1>2, <1>3, <1>6, <2>4 DEF answered, spec
  <1> QED BY <1>5, <1>6

(* The policy without a bundle, and the contract a reducer takes.          *)
LEMMA DefaultIs ==
  ASSUME NEW unit, ~unit.legalHold
  PROVE  LET made == EvaluatePolicy(unit, None)
         IN  /\ made.contract = Requested(unit)
             /\ unit.kind = "prompt_request" =>
                  ("semantic_cache_lookup" \in made.allowed
                     <=> Requested(unit) = "semantic" /\ unit.semanticCache)
  <1> DEFINE made == EvaluatePolicy(unit, None)
             lookup == "semantic_cache_lookup"
             reuse == IF unit.semanticCache /\ unit.kind \in Text THEN {lookup} ELSE {}
             known == {"normalize_prompt", "exact_cache_lookup", "model_route", "verify",
                       "cache_store", "compute_manifest"}
             context == IF unit.kind \in Text THEN {"context_compile"} ELSE {}
  <1>1. made = DefaultDecision(unit)
    BY DEF EvaluatePolicy
  <1> HIDE DEF made
  <1>2. CASE unit.kind \in AI /\ Requested(unit) = "semantic"
    <2>1. made.contract = "semantic" /\ made.allowed = known \cup reuse \cup context
      BY <1>1, <1>2 DEF DefaultDecision, Decision
    <2>2. lookup \notin known /\ lookup \notin context
      OBVIOUS
    <2> HIDE DEF known, context
    <2>3. unit.kind = "prompt_request" => (lookup \in reuse <=> unit.semanticCache)
      BY DEF Text
    <2> HIDE DEF reuse
    <2> QED BY <1>2, <2>1, <2>2, <2>3 DEF made
  <1>3. CASE ~(unit.kind \in AI /\ Requested(unit) = "semantic")
    <2>1. made.contract = Requested(unit) /\ made.allowed = ExactActions \cup {"fixed_chunk"}
      BY <1>1, <1>3 DEF DefaultDecision, Decision
    <2>2. lookup \notin made.allowed
      BY <2>1 DEF ExactActions
    <2>3. unit.kind = "prompt_request" => unit.kind \in AI
      BY DEF AI, Text
    <2> QED BY <1>3, <2>1, <2>2, <2>3 DEF made
  <1> QED BY <1>2, <1>3

(* No reducer takes an embedding or a completion.                          *)
LEMMA KindsTaken ==
  /\ \A name \in DOMAIN ReducerSpecs :
       /\ "embedding_request" \notin ReducerSpecs[name].kinds
       /\ "completion_response" \notin ReducerSpecs[name].kinds
  /\ "prompt_request" \in ReducerSpecs["semantic_cache"].kinds
  /\ ReducerSpecs["semantic_cache"].contract = "semantic"
  BY DEF ReducerSpecs, Reducer

(* Reducers and policy give a unit one contract, but for two kinds.        *)
LEMMA EffectiveIs ==
  ASSUME NEW unit, unit.kind # "embedding_request",
         ~(unit.kind = "training_dataset" /\ unit.requested = None)
  PROVE  EffectiveContract(unit) = Requested(unit)
  <1>1. CASE unit.requested # None
    BY <1>1 DEF EffectiveContract, Requested
  <1>2. CASE unit.requested = None /\ unit.kind \in Text
    <2>1. EffectiveContract(unit) = "semantic"
      BY <1>2 DEF EffectiveContract, Text
    <2>2. Requested(unit) = "semantic"
      BY <1>2 DEF Requested, AI
    <2> QED BY <2>1, <2>2
  <1>3. CASE unit.requested = None /\ unit.kind \notin Text
    <2>1. EffectiveContract(unit) = "exact_bytes"
      BY <1>3 DEF EffectiveContract, Text
    <2>2. Requested(unit) = "exact_bytes"
      BY <1>3 DEF Requested, AI
    <2> QED BY <2>1, <2>2
  <1> QED BY <1>1, <1>2, <1>3

(* ReducersAgree of one unit.                                              *)
LEMMA ReducersAgreeOne ==
  ASSUME ReductionInv
  PROVE  ReducersAgree
  <1> SUFFICES ASSUME Answered("reducer") PROVE ReducersAgree
    BY DEF ReducersAgree
  <1> DEFINE unit == question.asked.unit
             name == question.asked.name
             results == question.asked.results
             spec == ReducerSpecs[name]
             policy == EvaluatePolicy(unit, None)
             enabled == answer = "policy_and_verifier_accepted"
             verified == Verified(results, spec.verifier)
  <1>1. /\ answer = EvaluateReducer(unit, name, results)
        /\ name \in DOMAIN ReducerSpecs /\ results \in Seq(Verdicts)
    BY ReductionAssumption DEF ReductionInv, Answered, Verdicts
  <1> HIDE DEF unit, name, results
  <1>2. enabled <=> /\ unit.kind \in spec.kinds
                    /\ EffectiveContract(unit) = spec.contract
                    /\ Flagged(unit, name)
                    /\ verified
    BY <1>1, EnabledIs
  <1> HIDE DEF enabled, verified
  <1>3. ASSUME enabled, ~unit.legalHold,
               ~(unit.kind = "training_dataset" /\ unit.requested = None)
        PROVE  policy.contract = spec.contract
    <2>1. unit.kind # "embedding_request"
      BY <1>1, <1>2, <1>3, KindsTaken
    <2>2. EffectiveContract(unit) = Requested(unit)
      BY <1>3, <2>1, EffectiveIs
    <2> QED BY <1>2, <1>3, <2>2, DefaultIs
  <1>4. ASSUME name = "semantic_cache", unit.kind = "prompt_request", ~unit.legalHold
        PROVE  enabled <=> "semantic_cache_lookup" \in policy.allowed /\ verified
    <2>1. EffectiveContract(unit) = Requested(unit)
      BY <1>4, EffectiveIs
    <2>2. Flagged(unit, name) <=> unit.semanticCache
      BY <1>4 DEF Flagged
    <2>3. unit.kind \in spec.kinds /\ spec.contract = "semantic"
      BY <1>4, KindsTaken
    <2>4. "semantic_cache_lookup" \in policy.allowed
            <=> Requested(unit) = "semantic" /\ unit.semanticCache
      BY <1>4, DefaultIs
    <2> QED BY <1>2, <2>1, <2>2, <2>3, <2>4
  <1> HIDE DEF policy, spec
  <1>5. enabled => verified
    BY <1>2
  <1> QED BY <1>3, <1>4, <1>5
          DEF ReducersAgree, enabled, verified, Verified, policy, spec, unit, name, results

(* Every decision keeps the contract of its unit: the strictest rule wins, *)
(* a plan keeps to the policy, a refusal has a reason, and the reducers    *)
(* agree with the policy and the verifications (policy.py:69-178,          *)
(* planner.py:22-97, advanced.py:237-275); reductions lose nothing, and    *)
(* estimates are honest.                                                   *)
THEOREM DecisionsAlwaysSound == DecisionSpec => []DecisionsSound
  <1>1. UnitInv => MostRestrictiveWins /\ PlanKeepsPolicy /\ RefusalsExplained
    BY MostRestrictiveWinsOne, PlanKeepsPolicyOne, RefusalsExplainedOne
  <1>2. ReductionInv => ReducersAgree
    BY ReducersAgreeOne
  <1>3. AnswerInv =>
          MostRestrictiveWins /\ PlanKeepsPolicy /\ RefusalsExplained /\ ReducersAgree
    BY <1>1, <1>2 DEF AnswerInv
  <1>4. MostRestrictiveWins /\ PlanKeepsPolicy /\ RefusalsExplained /\ ReducersAgree
          /\ ReductionsLossless /\ ImpactHonest => DecisionsSound
    BY DEF DecisionsSound
  <1> QED BY <1>3, <1>4, AnswersStand, ReductionsAlwaysLossless, ImpactAlwaysHonest, PTL
=============================================================================
