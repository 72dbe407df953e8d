SPECIFICATION Spec
CONSTANTS
  Bounds <- MCStaleBounds
  MaxFaults = 1
  Limit = 4
CHECK_DEADLOCK FALSE
PROPERTY ReplayPassesOldPauses
