CONSTANTS
  Paths <- MCPaths
  PathRank <- MCPathRank
  Payloads <- MCPayloads
  Runs = 2
  Inits = 2
SPECIFICATION Spec
INVARIANTS
  TypeOK
  SuccessComplete
  ChecksumsHold
  ChecksumsDetect
PROPERTY OthersKept
