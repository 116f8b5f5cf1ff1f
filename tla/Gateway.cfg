CONSTANTS
  Data <- MCData
  MaxInserts = 2
  Tries = 2
SPECIFICATION Spec
INVARIANTS
  LeaversHaveAll
  QuietAtBarrier
  TableHoldsReadings
  LossBounded
PROPERTIES
  RowsKept
