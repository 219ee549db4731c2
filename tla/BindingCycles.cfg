CONSTANTS
  Nodes = {1, 2, 3, 4}
  Inputs <- MCInputs
SPECIFICATION Spec
INVARIANTS
  TypeOK
  CycleReported
  NoFalseCycle
PROPERTY Termination
