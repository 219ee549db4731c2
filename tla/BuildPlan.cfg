CONSTANTS
  Inputs <- MCInputs
  target = "compose"
SPECIFICATION Spec
INVARIANTS TypeOK CapturesConnected OperationsSound PlanServed BundleWired
