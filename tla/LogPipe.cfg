CONSTANTS
  Writers <- MCWriters
  StdioCap = 2
  PipeCap = 1
  MaxMessages = 5
SPECIFICATION FairSpec
INVARIANTS
  NothingDropped
  CompleteAtEnd
PROPERTIES
  ChildEnds
  LoggingReturns
