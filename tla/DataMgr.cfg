CONSTANTS
  Maps <- MCMaps
  Rooms <- MCRooms
  Ids <- MCIds
  Values <- MCValues
  Times <- MCTimes
  Length = 3
  MinTemp = 12
  MaxTemp = 28
  MaxReadings = 5
  JUNK = JUNK
SPECIFICATION Spec
INVARIANTS
  MapLoaded
  FollowsReadings
PROPERTIES
  AlarmsExact
