----------------------------- MODULE PolicyStore -----------------------------
(***************************************************************************)
(* PolicyBundleStore (python/urp/policy_store.py): published bundles, one  *)
(* file per name and version, and active.json with the active version of   *)
(* each name.  publish and rollback change them in separate critical       *)
(* sections and append their ledger event last; executions resolve the     *)
(* active bundle meanwhile.                                                *)
(*                                                                         *)
(* A client is a thread of some process.  Any of its steps may be its      *)
(* call's last: it raises, or the process dies.                            *)
(***************************************************************************)
EXTENDS Common, Naturals, Sequences

CONSTANTS
  Client,    \* the threads that use the store
  Name,      \* policy names
  Version,   \* versions of a name
  MaxCalls   \* bound: how many calls are made

ASSUME NoneAssumption == None \notin Version /\ None \notin Client
ASSUME BoundAssumption == MaxCalls \in Nat

VARIABLES
  published, \* the (name, version) pairs that have a record file
  active,    \* active.json: the active version of each name
  holder,    \* who is inside file_lock(.policy.lock) with it exclusive
  pc,        \* where each client is in its call
  call,      \* [op, name, version] of each client's call
  copy,      \* active.json as a client has read it
  trail,     \* the policy events of each name in the ledger, oldest first
  calls,     \* how many calls were made
  raced,     \* history: names whose changes overlapped
  cut        \* history: names with a change that stopped before its event

files == <<published, active>>
vars == <<files, holder, pc, call, copy, trail, calls, raced, cut>>

NoCall == [op |-> "none", name |-> None, version |-> None]
NothingActive == [n \in Name |-> None]

Init ==
  /\ published = {} /\ active = NothingActive
  /\ holder = None
  /\ pc = [c \in Client |-> "idle"]
  /\ call = [c \in Client |-> NoCall]
  /\ copy = [c \in Client |-> NothingActive]
  /\ trail = [n \in Name |-> << >>]
  /\ calls = 0 /\ raced = {} /\ cut = {}

Goto(c, label) == pc' = [pc EXCEPT ![c] = label]

(* Mutant of MayEnter: no lock.                                            *)
EnterAnyway(c) == TRUE

MayEnter(c) == holder = None

(* Returning, raising or dying: the locals and the lock are gone.          *)
Leave(c) ==
  /\ Goto(c, "idle")
  /\ call' = [call EXCEPT ![c] = NoCall]
  /\ copy' = [copy EXCEPT ![c] = NothingActive]
  /\ holder' = IF holder = c THEN None ELSE holder

(* Mutant of FirstStep: rollback does not load the record.                 *)
RollbackUnseen(op) ==
  CASE op = "publish" -> "record" [] op = "rollback" -> "activate" [] OTHER -> "read"

FirstStep(op) ==
  CASE op = "publish" -> "record" [] op = "rollback" -> "get" [] OTHER -> "read"

(* reload and an execution's resolve_active_policy_bundle take their       *)
(* version from active.json.                                               *)
Begin(c, op, n, v) ==
  /\ pc[c] = "idle" /\ calls < MaxCalls
  /\ calls' = calls + 1
  /\ call' = [call EXCEPT ![c] = [op |-> op, name |-> n, version |-> v]]
  /\ Goto(c, FirstStep(op))
  /\ UNCHANGED <<files, holder, copy, trail, raced, cut>>

(* publish: the record file, in a critical section of its own.             *)
WriteRecord(c) ==
  /\ pc[c] = "record" /\ MayEnter(c)
  /\ published' = published \cup {<<call[c].name, call[c].version>>}
  /\ Goto(c, "activate")
  /\ UNCHANGED <<active, holder, call, copy, trail, calls, raced, cut>>

(* reload, resolve: the version active.json gives for the name, in a       *)
(* shared critical section.  An execution looks at active.json twice; the  *)
(* first look only asks whether the name is there.                         *)
ReadActive(c) ==
  /\ pc[c] = "read" /\ MayEnter(c) /\ active[call[c].name] # None
  /\ call' = [call EXCEPT ![c].version = active[call[c].name]]
  /\ Goto(c, "get")
  /\ UNCHANGED <<files, holder, copy, trail, calls, raced, cut>>

(* The name has no active version: KeyError for reload, no bundle for an   *)
(* execution.                                                              *)
NoneActive(c) ==
  /\ pc[c] = "read" /\ MayEnter(c) /\ active[call[c].name] = None
  /\ Leave(c)
  /\ UNCHANGED <<files, trail, calls, raced, cut>>

HasRecord(c) == <<call[c].name, call[c].version>> \in published

(* get: the record file, read without the lock.                            *)
GetRecord(c) ==
  /\ pc[c] = "get" /\ HasRecord(c)
  /\ Goto(c, CASE call[c].op = "rollback" -> "activate"
               [] call[c].op = "reload" -> "audit"
               [] OTHER -> "end")
  /\ UNCHANGED <<files, holder, call, copy, trail, calls, raced, cut>>

NoRecord(c) ==
  /\ pc[c] = "get" /\ ~HasRecord(c)
  /\ Leave(c)
  /\ UNCHANGED <<files, trail, calls, raced, cut>>

(* _write_active: under the lock, active.json is read ...                  *)
LoadActive(c) ==
  /\ pc[c] = "activate" /\ MayEnter(c)
  /\ holder' = c
  /\ copy' = [copy EXCEPT ![c] = active]
  /\ Goto(c, "write")
  /\ UNCHANGED <<files, call, trail, calls, raced, cut>>

(* c has changed the active version of n and not yet told the ledger.      *)
Changing(c, n) ==
  pc[c] = "audit" /\ call[c].name = n /\ call[c].op \in {"publish", "rollback"}

(* ... and replaced, and the lock released.                                *)
WriteActive(c) ==
  /\ pc[c] = "write"
  /\ active' = [copy[c] EXCEPT ![call[c].name] = call[c].version]
  /\ raced' = raced \cup {n \in {call[c].name} : \E d \in Client : Changing(d, n)}
  /\ holder' = IF holder = c THEN None ELSE holder
  /\ copy' = [copy EXCEPT ![c] = NothingActive]
  /\ Goto(c, "audit")
  /\ UNCHANGED <<published, call, trail, calls, cut>>

(* Mutant of AuditEvent: a rollback leaves no event.                       *)
AuditPublishOnly(c) ==
  IF call[c].op = "rollback" THEN << >> ELSE <<[op |-> call[c].op, version |-> call[c].version]>>

(* policy.bundle.published, .rolled_back or .reloaded.                     *)
AuditEvent(c) == <<[op |-> call[c].op, version |-> call[c].version]>>

AppendAudit(c) ==
  /\ pc[c] = "audit"
  /\ trail' = [trail EXCEPT ![call[c].name] = @ \o AuditEvent(c)]
  /\ Leave(c)
  /\ UNCHANGED <<files, calls, raced, cut>>

Return(c) ==
  /\ pc[c] = "end"
  /\ Leave(c)
  /\ UNCHANGED <<files, trail, calls, raced, cut>>

(* An exception or a crash before the next step.                           *)
Stop(c) ==
  /\ pc[c] \notin {"idle", "end"}
  /\ cut' = cut \cup {n \in {call[c].name} : Changing(c, n)}
  /\ Leave(c)
  /\ UNCHANGED <<files, trail, calls, raced>>

Step(c) ==
  \/ WriteRecord(c) \/ ReadActive(c) \/ NoneActive(c) \/ GetRecord(c) \/ NoRecord(c)
  \/ LoadActive(c) \/ WriteActive(c) \/ AppendAudit(c) \/ Return(c)

Next ==
  \E c \in Client :
    \/ \E n \in Name :
         \/ \E op \in {"publish", "rollback"}, v \in Version : Begin(c, op, n, v)
         \/ \E op \in {"reload", "resolve"} : Begin(c, op, n, None)
    \/ Step(c)
    \/ Stop(c)

Spec == Init /\ [][Next]_vars
-----------------------------------------------------------------------------
(* Every variable has its type.                                            *)
TypeOK ==
  /\ published \subseteq Name \X Version
  /\ active \in [Name -> Version \cup {None}]
  /\ holder \in Client \cup {None}
  /\ pc \in [Client -> {"idle", "record", "activate", "read", "get", "write", "audit", "end"}]
  /\ call \in [Client -> [op : {"none", "publish", "rollback", "reload", "resolve"},
                          name : Name \cup {None}, version : Version \cup {None}]]
  /\ copy \in [Client -> [Name -> Version \cup {None}]]
  /\ trail \in [Name -> Seq([op : {"publish", "rollback", "reload"}, version : Version])]
  /\ calls \in 0..MaxCalls
  /\ raced \subseteq Name /\ cut \subseteq Name

(* What active.json points to can be loaded, at every moment of a publish  *)
(* or a rollback: an execution that finds its policy active gets a bundle. *)
ActiveResolvable == \A n \in Name : active[n] # None => <<n, active[n]>> \in published

(* Changes of different names do not undo each other: once a name has an   *)
(* active version it always has one.                                       *)
NamesStayActive == [][\A n \in Name : active[n] # None => active'[n] # None]_active

Changes(n) == {i \in DOMAIN trail[n] : trail[n][i].op # "reload"}

(* The version the last change in the ledger made active.                  *)
LastChange(n) ==
  IF Changes(n) = {} THEN None
  ELSE trail[n][CHOOSE i \in Changes(n) : \A j \in Changes(n) : j <= i].version

(* The ledger tells which version is active, except while a change is      *)
(* under way, after a change that stopped before its event, and for a name *)
(* whose changes overlapped.                                               *)
AuditTellsActive ==
  \A n \in Name : n \notin raced \cup cut /\ ~(\E c \in Client : Changing(c, n)) =>
    active[n] = LastChange(n)

(* docs/08: "policies cannot be changed without audit".  When no change is *)
(* under way, the active version is one that the ledger has recorded.      *)
ChangesAudited ==
  \A n \in Name : active[n] # None /\ ~(\E c \in Client : Changing(c, n)) =>
    \E i \in DOMAIN trail[n] : trail[n][i].version = active[n]
=============================================================================
