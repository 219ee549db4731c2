----------------------------- MODULE OperationPlans -----------------------------
(***************************************************************************)
(* internal/compiler/operations.go: the plan of one CDC operation.         *)
(***************************************************************************)
EXTENDS ChangeCapture

operationMutatesPlan(action) == action # Unset /\ action \notin ReadOnlyActions
operationDestructivePlan(action) == operationDestructive(action)

Classified ==
  [restartConnector |-> {"UpdateConnectorConfig", "ChangeTableFilters",
                         "RotateDatabaseCredentials", "RotateStreamCredentials"},
   restartWorker |-> {"ScaleWorker", "UpgradeWorker", "RestartWorker"},
   replacement |-> {"MoveConnector"},
   destructive |-> {"ResetOffsets", "DeleteConnector", "DeleteCDCInstance", "Delete"},
   noop |-> {"Inspect", "InspectOffsets", "VerifyConnector", "ValidateConnectivity"}]
operationClassification(action) ==
  IF \E c \in DOMAIN Classified : action \in Classified[c]
    THEN CHOOSE c \in DOMAIN Classified : action \in Classified[c]
    ELSE "in-place"

operationRecovery(action) ==
  CASE action = "ResetOffsets" -> <<"export-offsets", "restore-offsets">>
    [] action = "MoveConnector" -> <<"capture-source-offsets", "rollback-connector-placement">>
    [] OTHER -> <<"verify-no-unexpected-mutation">>

\* That of the CDC instance the target names.
operationProviderInstance(op, resources, instances) ==
  LET runtime == {i \in instances : i.id = operationCDCInstance(op, resources)} IN
  IF runtime = {} THEN NoId ELSE (CHOOSE i \in runtime : TRUE).provider

operationPlan(op, resources, instances) ==
  LET action == ValOf(op, "action")
      explicit == RefId(op, "providerInstanceRef")
  IN [id |-> op.id, target |-> RefId(op, "targetRef"), action |-> action,
      key |-> ValOf(op, "idempotencyKey"), parameters |-> ValOf(op, "parameters"),
      provider |-> IF explicit # NoId THEN explicit
                   ELSE operationProviderInstance(op, resources, instances),
      mutates |-> operationMutatesPlan(action), destructive |-> operationDestructivePlan(action),
      approvalRequired |-> operationDestructivePlan(action) \/ ValOf(op, "approvalRequired") = "true",
      approved |-> ValOf(op, "approved") = "true",
      classification |-> operationClassification(action), recovery |-> operationRecovery(action)]
=============================================================================
