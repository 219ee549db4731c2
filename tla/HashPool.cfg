CONSTANTS
  N = 4
  Rank <- MCRank
  Unhashable <- MCUnhashable
  Procs = 3
SPECIFICATION Spec
INVARIANTS
  TypeOK
  EachJobOnce
  ResultsNeverBlock
  NoSendOnClosed
  CompleteUnlessCancelled
PROPERTIES
  CancelStopsProducer
  ImplementsContract
