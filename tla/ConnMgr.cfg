CONSTANTS
  Sensors <- MCSensors
  Measurements = 2
SPECIFICATION FairSpec
CONSTRAINT MCScope
INVARIANTS
  AlignedIfCalm
PROPERTIES
  LiveKeptIfCalm
  GoneRemovedIfCalm
