CONSTANTS
  Inputs <- MCProduction
  target = "compose"
SPECIFICATION Spec
INVARIANT ProductionImmutable
