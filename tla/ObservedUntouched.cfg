CONSTANTS
  Inputs <- MCObserved
  target = "compose"
SPECIFICATION Spec
INVARIANT ObservedUntouched
