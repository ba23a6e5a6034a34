----------------------------- MODULE ObjectStore -----------------------------
(***************************************************************************)
(* What execute_exact_object promises about the objects it stores: an      *)
(* object appears at once and whole, and from then on its manifest can be  *)
(* rehydrated to the bytes that were submitted.                            *)
(***************************************************************************)
CONSTANTS
  Run,     \* the executions; each stores at most one object
  Body,    \* what can be submitted
  Nothing  \* no object

VARIABLE object  \* what rehydrating the manifest of each run gives

StoreObject(r, body) ==
  /\ object[r] = Nothing
  /\ object' = [object EXCEPT ![r] = body]

ObjectSpec ==
  /\ object = [r \in Run |-> Nothing]
  /\ [][\E r \in Run, body \in Body : StoreObject(r, body)]_object
=============================================================================
