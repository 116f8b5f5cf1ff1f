CONSTANTS
  Readers <- MCReaders
  Data <- MCData
  MaxInserts = 3
SPECIFICATION Spec
INVARIANTS
  TypeOK
  InOrderOnce
  NothingLost
  Reclaimed
PROPERTIES
  NoDataMeansCaughtUp
  ImplementsLog
