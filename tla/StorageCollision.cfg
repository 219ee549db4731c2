CONSTANTS
  Modulus = 64
  Multiplier <- MCMultiplier
  Modes <- MCModes
  Rank <- MCRank
  DefinedIn <- MCDefinedIn
  Words <- MCWords
  Inputs <- MCCollisions
SPECIFICATION Spec
INVARIANT ExclusiveBinding
