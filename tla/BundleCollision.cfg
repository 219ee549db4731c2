CONSTANTS
  Paths <- MCPaths
  PathRank <- MCPathRank
  Payloads <- MCTwoBindings
  Runs = 1
  Inits = 0
SPECIFICATION Spec
INVARIANT ChecksumsHold
