CONSTANTS
  N = 3
  Rank <- MCRank
  Unhashable = {}
  D = 3
  DocOf <- MCDocOf
SPECIFICATION Spec
INVARIANTS
  TypeOK
  BundleComplete
  AnswerExplained
  PassesHonest
  FaultsReported
PROPERTIES
  PassSettledOnce
  CancelPreventsBundle
  ImplementsContract
