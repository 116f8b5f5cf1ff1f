CONSTANTS
  Sensors <- MCSensors
  Measurements = 1
SPECIFICATION Spec
PROPERTY LiveNeverDropped
