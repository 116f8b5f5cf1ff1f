CONSTANTS
  JUNK = JUNK
  Readers <- MCReaders
  File <- MCFile
  Sensors <- MCSensors
  Measurements = 1
  MaxConn = 2
  Rows <- MCRows
  Old = "old row"
  Maps <- MCMaps
  DataFiles <- MCDataFiles
  Rooms <- MCRooms
  Ids <- MCIds
  Values <- MCValues
  Times <- MCTimes
  Length = 2
  MinTemp = 12
  MaxTemp = 28
  MaxReadings = 5
SPECIFICATION LabsSpec
CONSTRAINT MCScope
INVARIANTS
  Lab9Files
  Lab8Fds
  Lab7Log
  Lab6Averages
PROPERTIES
  Lab9Ends
  Lab8GoneRemoved
  Lab7ChildEnds
