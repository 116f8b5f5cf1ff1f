CONSTANTS
  Cells <- MCCells
  Keys <- MCKeys
  Indexes <- MCIndexes
  NULL = NULL
  FREED = FREED
SPECIFICATION Spec
INVARIANTS
  ListIntact
PROPERTIES
  ImplementsContract
