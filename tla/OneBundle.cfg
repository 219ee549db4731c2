CONSTANTS
  Inputs <- MCBrokers
  target = "compose"
SPECIFICATION Spec
INVARIANT OneBundle
