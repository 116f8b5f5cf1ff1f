CONSTANTS
  Nodes <- MCNodes
  SERVER = "server"
  Loops <- MCLoops
  MaxPending = 1
  JUNK = JUNK
SPECIFICATION Spec
INVARIANTS
  Accounted
  FramedIfWhole
  AbortsExplained
