------------------------------ MODULE Operator ------------------------------
(***************************************************************************)
(* URPOperator (python/urp/operator.py): a loop that lists the             *)
(* URPControlPlane resources and, one after the other, applies the         *)
(* deployment and the service of each and patches its status.  A resource  *)
(* that cannot be reconciled, or a request that fails, ends the pass.      *)
(* Users edit the resources meanwhile; the operator may be restarted.      *)
(***************************************************************************)
EXTENDS Common, Integers

CONSTANTS
  Count,      \* how many resources there are; the API lists them in one order
  MaxEdits,   \* bound: how often a specification is edited
  MaxFailures \* bound: how many requests fail, or passes are cut by a restart

ASSUME OperatorAssumption == Count \in Nat /\ MaxEdits \in Nat /\ MaxFailures \in Nat

Resource == 1..Count

(* A specification: its generation and whether reconcile accepts it        *)
(* (replicas from 1 to 20, a known mode).                                  *)
Specification == [generation : 1..(MaxEdits + 1), valid : BOOLEAN]

VARIABLES
  spec,       \* of each resource
  deployment, \* the generation the deployment of each resource was applied from; 0: none
  service,    \* the same of its service
  observed,   \* status.observedGeneration
  at,         \* where the loop is: a resource and a step, or asleep
  listed,     \* the specifications the pass works on
  ready,      \* what /readyz says
  edits, failures \* count the edits and the failures

operatorVars ==
  <<spec, deployment, service, observed, at, listed, ready, edits, failures>>

Asleep == [resource |-> 0, step |-> "asleep"]

OperatorInit ==
  /\ spec \in [Resource -> {[generation |-> 1, valid |-> v] : v \in BOOLEAN}]
  /\ deployment = [r \in Resource |-> 0]
  /\ service = [r \in Resource |-> 0]
  /\ observed = [r \in Resource |-> 0]
  /\ at = Asleep /\ listed = spec
  /\ ready = FALSE
  /\ edits = 0 /\ failures = 0

cluster == <<deployment, service, observed>>
users == <<spec, edits>>

ListResources ==
  /\ at = Asleep
  /\ listed' = spec
  /\ at' = [resource |-> 1, step |-> "validate"]
  /\ UNCHANGED <<users, cluster, ready, failures>>

Doing(step) == at.step = step /\ at.resource \in Resource
Advance(step) == at' = [at EXCEPT !.step = step]

Validate ==
  /\ Doing("validate") /\ listed[at.resource].valid
  /\ Advance("deployment")
  /\ UNCHANGED <<users, cluster, listed, ready, failures>>

(* Another: the exception ends the loop.                                   *)
EndLoop == at' = [resource |-> 0, step |-> "ended"] /\ ready' = FALSE

(* The exception is caught by run.                                         *)
AbortPass == at' = Asleep /\ ready' = FALSE

Invalid ==
  /\ Doing("validate") /\ ~listed[at.resource].valid
  /\ AbortPass
  /\ UNCHANGED <<users, cluster, listed, failures>>

(* The Deployment and the Service that are built from a resource have what *)
(* its specification has: the generation stands for both.                  *)
DesiredDeployment == listed[at.resource].generation
DesiredService == listed[at.resource].generation

ApplyDeployment ==
  /\ Doing("deployment")
  /\ deployment' = [deployment EXCEPT ![at.resource] = DesiredDeployment]
  /\ Advance("service")
  /\ UNCHANGED <<users, service, observed, listed, ready, failures>>

ApplyService ==
  /\ Doing("service")
  /\ service' = [service EXCEPT ![at.resource] = DesiredService]
  /\ Advance("status")
  /\ UNCHANGED <<users, deployment, observed, listed, ready, failures>>

(* Mutant of ObservedGeneration: the generation the resource has by now.   *)
CurrentGeneration == spec[at.resource].generation

ObservedGeneration == listed[at.resource].generation

PatchStatus ==
  /\ Doing("status")
  /\ observed' = [observed EXCEPT ![at.resource] = ObservedGeneration]
  /\ at' = [resource |-> at.resource + 1, step |-> "validate"]
  /\ UNCHANGED <<users, deployment, service, listed, ready, failures>>

EndPass ==
  /\ at.resource = Count + 1
  /\ ready' = TRUE
  /\ at' = Asleep
  /\ UNCHANGED <<users, cluster, listed, failures>>

(* The API refuses a request or does not answer.                           *)
RequestFails ==
  /\ failures < MaxFailures /\ at.step # "validate"
  /\ failures' = failures + 1
  /\ AbortPass
  /\ UNCHANGED <<users, cluster, listed>>

(* A new process starts, not ready.                                        *)
Restart ==
  /\ failures < MaxFailures
  /\ failures' = failures + 1
  /\ at' = Asleep /\ ready' = FALSE
  /\ UNCHANGED <<users, cluster, listed>>

Edit(r, valid) ==
  /\ edits < MaxEdits
  /\ edits' = edits + 1
  /\ spec' = [spec EXCEPT ![r] = [generation |-> @.generation + 1, valid |-> valid]]
  /\ UNCHANGED <<cluster, at, listed, ready, failures>>

(* The steps of the loop.                                                  *)
OperatorLoop ==
  \/ ListResources \/ Validate \/ Invalid \/ ApplyDeployment \/ ApplyService
  \/ PatchStatus \/ EndPass

OperatorNext ==
  \/ OperatorLoop \/ RequestFails \/ Restart
  \/ \E r \in Resource, v \in BOOLEAN : Edit(r, v)

(* The loop never waits for anything but its timer.                        *)
OperatorSpec == OperatorInit /\ [][OperatorNext]_operatorVars /\ WF_operatorVars(OperatorLoop)
-----------------------------------------------------------------------------
(* A status never names a generation whose deployment and service have not *)
(* been applied; and an operator that says it is ready after a pass has    *)
(* applied every resource as that pass saw it, none of them unacceptable   *)
(* (operator.py:71-83, 106-129).                                           *)
StatusHonest ==
  /\ \A r \in Resource : observed[r] <= deployment[r] /\ observed[r] <= service[r]
  /\ ready /\ at = Asleep =>
       \A r \in Resource : listed[r].valid /\ observed[r] = listed[r].generation

(* Once the users leave it and the resources listed before it alone, a     *)
(* valid resource is applied as they left it, provided those before it are *)
(* valid as well: one that is not keeps all that follow it waiting         *)
(* (operator.py:75-76).                                                    *)
Converged(r) ==
  /\ deployment[r] = spec[r].generation
  /\ service[r] = spec[r].generation
  /\ observed[r] = spec[r].generation

ResourcesConverge ==
  \A r \in Resource :
    []<>(\/ Converged(r)
         \/ \E s \in 1..r : ~spec[s].valid)
=============================================================================
