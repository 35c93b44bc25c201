SPECIFICATION MCSpec

CONSTANTS
  Depth = 2
  MaxTries = 2
  MaxFixes = 5
  MaxDrops = 0

PROPERTIES
  Recovers

CHECK_DEADLOCK FALSE
