CONSTANTS
  Readers <- MCReaders
  Data <- MCData
  Addr <- MCAddr
  Writer = "w"
  NULL = "NULL"
  MaxInserts = 3
SPECIFICATION FairSpec
INVARIANTS
  NoUseAfterFree
  ListIntact
  NoLeak
PROPERTIES
  CallsReturn
  ImplementsSBuffer
