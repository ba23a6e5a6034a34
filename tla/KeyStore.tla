------------------------------ MODULE KeyStore ------------------------------
(***************************************************************************)
(* LocalKMS (python/urp/kms.py): data keys in kms_keys.json, each wrapped  *)
(* by the master key in kms_master.key.  create_key holds the lock alone,  *)
(* get_key shares it; either makes a master key when it finds none.        *)
(* Operators may lose the master key file.  The variant with               *)
(* URP_LOCAL_KMS_MASTER_KEY has no such file and no such race.             *)
(***************************************************************************)
EXTENDS Common, Integers

CONSTANTS
  Caller,     \* the threads that use the store
  MaxKeys,    \* bound: how many keys are created
  MaxMasters, \* bound: how many master keys are made
  MaxLosses   \* bound: how often the master key file is lost

ASSUME KeyStoreAssumption == MaxKeys \in Nat /\ MaxMasters \in Nat /\ MaxLosses \in Nat

VARIABLES
  keys,    \* kms_keys.json: the master that wraps each key, 0 when there is no such key
  master,  \* kms_master.key, 0 when it is missing
  masters, \* counts the master keys made
  caller,  \* the call each thread is in
  made,    \* history: the keys create_key has returned, and the losses by then
  losses   \* counts the losses of the master key file

keyVars == <<keys, master, masters, caller, made, losses>>

KeyId == 1..MaxKeys

KeyInit ==
  /\ keys = [k \in KeyId |-> 0]
  /\ master = 0 /\ masters = 0
  /\ caller = [t \in Caller |-> None]
  /\ made = [k \in KeyId |-> None]
  /\ losses = 0

Inside(t, operation) == caller[t] # None /\ caller[t].does = operation /\ caller[t].at # "lock"

(* Mutant of MayLock: get_key takes no lock.                               *)
MayLockOnlyToCreate(t) ==
  caller[t].does = "create" => \A u \in Caller : ~Inside(u, "create")

(* file_lock: create_key exclusively, get_key shared.                      *)
MayLock(t) ==
  /\ \A u \in Caller : ~Inside(u, "create")
  /\ caller[t].does = "create" => \A u \in Caller : ~Inside(u, "get")

At(t, label) == caller[t] # None /\ caller[t].at = label
Proceed(t, label) == caller' = [caller EXCEPT ![t].at = label]
-----------------------------------------------------------------------------
CallCreate(t) ==
  /\ caller[t] = None
  /\ \E k \in KeyId :
       /\ keys[k] = 0 /\ made[k] = None /\ \A u \in Caller : caller[u] # None => caller[u].key # k
       /\ caller' = [caller EXCEPT ![t] = [does |-> "create", at |-> "lock", key |-> k, with |-> 0,
                                           copy |-> keys]]
  /\ UNCHANGED <<keys, master, masters, made, losses>>

(* get_key, for encrypt or decrypt.                                        *)
CallGet(t, k) ==
  /\ caller[t] = None
  /\ caller' = [caller EXCEPT ![t] = [does |-> "get", at |-> "lock", key |-> k, with |-> 0,
                                      copy |-> keys]]
  /\ UNCHANGED <<keys, master, masters, made, losses>>

EnterLock(t) ==
  /\ At(t, "lock") /\ MayLock(t)
  /\ Proceed(t, IF caller[t].does = "get" THEN "find" ELSE "look")
  /\ UNCHANGED <<keys, master, masters, made, losses>>

(* get_key reads the wrapped key first; an unknown one raises.             *)
FindKey(t) ==
  /\ At(t, "find")
  /\ IF keys[caller[t].key] = 0
       THEN caller' = [caller EXCEPT ![t] = None]
       ELSE Proceed(t, "look")
  /\ UNCHANGED <<keys, master, masters, made, losses>>

(* _master_key_unlocked.                                                   *)
LookForMaster(t) ==
  /\ At(t, "look")
  /\ Proceed(t, IF master = 0 THEN "make" ELSE "read")
  /\ UNCHANGED <<keys, master, masters, made, losses>>

MakeMaster(t) ==
  /\ At(t, "make") /\ masters < MaxMasters
  /\ masters' = masters + 1
  /\ master' = masters + 1
  /\ Proceed(t, "read")
  /\ UNCHANGED <<keys, made, losses>>

(* With the master key get_key unwraps the data key, or raises, and ends;  *)
(* create_key wraps the new key and reads the others.                      *)
ReadMaster(t) ==
  /\ At(t, "read") /\ master # 0
  /\ caller' = [caller EXCEPT ![t] =
       IF caller[t].does = "get"
         THEN None
         ELSE [@ EXCEPT !.at = "write", !.with = master, !.copy = keys]]
  /\ UNCHANGED <<keys, master, masters, made, losses>>

(* The master key vanished between the look and the read.                  *)
MasterGone(t) ==
  /\ At(t, "read") /\ master = 0
  /\ caller' = [caller EXCEPT ![t] = None]
  /\ UNCHANGED <<keys, master, masters, made, losses>>

WriteKeys(t) ==
  /\ At(t, "write")
  /\ keys' = [caller[t].copy EXCEPT ![caller[t].key] = caller[t].with]
  /\ made' = [made EXCEPT ![caller[t].key] = losses]
  /\ caller' = [caller EXCEPT ![t] = None]
  /\ UNCHANGED <<master, masters, losses>>

CallerDies(t) ==
  /\ caller[t] # None
  /\ caller' = [caller EXCEPT ![t] = None]
  /\ UNCHANGED <<keys, master, masters, made, losses>>

(* Not while a key is being created: such a key is lost with it.           *)
LoseMaster ==
  /\ master # 0 /\ losses < MaxLosses
  /\ \A t \in Caller : ~Inside(t, "create")
  /\ master' = 0
  /\ losses' = losses + 1
  /\ UNCHANGED <<keys, masters, caller, made>>

KeyNext ==
  \/ \E t \in Caller :
       \/ CallCreate(t) \/ (\E k \in KeyId : CallGet(t, k)) \/ EnterLock(t) \/ FindKey(t)
       \/ LookForMaster(t) \/ MakeMaster(t) \/ ReadMaster(t) \/ MasterGone(t)
       \/ WriteKeys(t) \/ CallerDies(t)
  \/ LoseMaster

KeySpec == KeyInit /\ [][KeyNext]_keyVars
-----------------------------------------------------------------------------
(* Every key that create_key returned stays in the file, and can be        *)
(* unwrapped as long as the master key file is not lost after it: nobody   *)
(* who misses the file may replace the one it was wrapped with             *)
(* (kms.py:45-71, 94-106).                                                 *)
KeysOpen ==
  \A k \in KeyId : made[k] # None =>
    /\ keys[k] # 0
    /\ made[k] = losses => keys[k] = master
=============================================================================
