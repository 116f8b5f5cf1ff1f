CONSTANTS
  Data <- MCOneReading
  MaxInserts = 1
  Tries = 2
SPECIFICATION FairSpec
PROPERTIES
  Delivered
  Terminates
