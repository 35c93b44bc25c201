SPECIFICATION MCSpec

CONSTANTS
  Depth = 2
  MaxTries = 2
  MaxFixes = 5
  MaxDrops = 3

INVARIANTS
  KeepsNewest
  OneConnection

PROPERTIES
  ImplementsStream
  RecoversInPlace
  FixesArrive

CHECK_DEADLOCK FALSE
