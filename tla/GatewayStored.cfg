CONSTANTS
  Data <- MCOneReading
  MaxInserts = 1
  Tries = 3
SPECIFICATION Spec
INVARIANT AllStored
