CONSTANTS
  Modulus = 64
  Multiplier <- MCMultiplier
  Modes <- MCModes
  Rank <- MCRank
  DefinedIn <- MCDefinedIn
  Words <- MCWords
  Inputs <- MCInputs
SPECIFICATION Spec
INVARIANTS
  TypeOK
  ExclusiveBinding
  BoundFits
  SufficientCapacity
  NoLeakedVolume
  ClaimsAnswered
PROPERTY ImplementsBinding
