---------------------------- MODULE MCOperations ----------------------------
(***************************************************************************)
(* The parts of the system that share no state in this project, checked in *)
(* one run: an initial state chooses the part that runs, the others rest.  *)
(* The operator rests where it has converged, so that the liveness         *)
(* property speaks of the part that runs.                                  *)
(***************************************************************************)
EXTENDS MCDecisions, Recovery, Checkpoints, KeyStore, Operator, Database, Posix

VARIABLE part

operationsVars ==
  <<part, decisionVars, recoveryVars, checkpointVars, keyVars, operatorVars, databaseVars,
    posixVars>>

MCSorted == <<"chunk", "chunk.tmp", "cursor", "ledger">>
MCArea == <<{"chunk", "chunk.tmp"}, {"ledger"}>>
MCPid(i) == 1
MCHash == 1..255
MCContent == {<<1, 2, 1>>, <<1, 2, 2, 2, 1>>}
MCLink(h, e) == (4 * h + e) % 256

DecisionRest == question = [about |-> "nothing"] /\ decision = None /\ answer = None

OperatorRest ==
  /\ spec = [r \in Resource |-> [generation |-> 1, valid |-> TRUE]]
  /\ deployment = [r \in Resource |-> 1] /\ service = deployment /\ observed = deployment
  /\ at = Asleep /\ listed = spec /\ ready = TRUE
  /\ edits = 0 /\ failures = 0

OperationsInit ==
  /\ part \in {"decisions", "recovery", "checkpoints", "keys", "operator", "database",
               "posix"}
  /\ IF part = "decisions" THEN DecisionInit ELSE DecisionRest
  /\ RecoveryInit /\ CheckpointInit /\ KeyInit /\ DatabaseInit /\ PosixInit
  /\ IF part = "operator" THEN OperatorInit ELSE OperatorRest

Decide ==
  /\ part = "decisions" /\ DecisionNext
  /\ UNCHANGED <<part, recoveryVars, checkpointVars, keyVars, operatorVars, databaseVars, posixVars>>
Recover ==
  /\ part = "recovery" /\ RecoveryNext
  /\ UNCHANGED <<part, decisionVars, checkpointVars, keyVars, operatorVars, databaseVars, posixVars>>
Checkpointing ==
  /\ part = "checkpoints" /\ CheckpointNext
  /\ UNCHANGED <<part, decisionVars, recoveryVars, keyVars, operatorVars, databaseVars, posixVars>>
KeepKeys ==
  /\ part = "keys" /\ KeyNext
  /\ UNCHANGED <<part, decisionVars, recoveryVars, checkpointVars, operatorVars, databaseVars, posixVars>>
Operate ==
  /\ part = "operator" /\ OperatorNext
  /\ UNCHANGED <<part, decisionVars, recoveryVars, checkpointVars, keyVars, databaseVars, posixVars>>
UseDatabase ==
  /\ part = "database" /\ DatabaseNext
  /\ UNCHANGED <<part, decisionVars, recoveryVars, checkpointVars, keyVars, operatorVars, posixVars>>
UseFiles ==
  /\ part = "posix" /\ PosixNext
  /\ UNCHANGED <<part, decisionVars, recoveryVars, checkpointVars, keyVars, operatorVars, databaseVars>>

OperationsNext ==
  Decide \/ Recover \/ Checkpointing \/ KeepKeys \/ Operate \/ UseDatabase \/ UseFiles

(* The only fairness is that of the operator's loop, as in OperatorSpec.   *)
OperationsSpec ==
  /\ OperationsInit /\ [][OperationsNext]_operationsVars
  /\ WF_operatorVars(part = "operator" /\ OperatorLoop
       /\ UNCHANGED <<part, decisionVars, recoveryVars, checkpointVars, keyVars, databaseVars,
                      posixVars>>)
=============================================================================
