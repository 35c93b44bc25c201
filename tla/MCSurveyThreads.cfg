SPECIFICATION Spec
CONSTANTS
  Gauges <- MCGauges
  Spatial <- MCSpatial
  Refs <- MCRefs
  Min2D = 2
  Min3D = 3
  MaxNodes = 3
  Rounds = 2
  MaxSession = 3
INVARIANTS
  CommandIsWhole
  ReportIsOfOneResult
  StoreTellsFlash
