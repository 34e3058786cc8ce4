CONSTANTS
  DAY = 2
  YearDays = 3
  None = None
  Areas <- MCAreas
  MIN_TOW_GROUP_SAMPLE = 1
  MIN_VEHICLE_SAMPLE = 1
  Records <- MCRecords
  Addresses = {"D1", "D2", "D3"}
  CANONICAL_TYPES <- MCTypes
  Followed = "Sign"
  MIN_CALLS = 1
  MaxSnapshots = 4
  Windows = {1, 3, 5}
  TruePoint <- MCTruePoint
  TrueArea <- MCTrueArea
SPECIFICATION Spec
INVARIANTS
  TypeOK
  RecencyWindowExact
  ServedAsRetained
  BlocksCountTheListed
  PlacedWhereItIs
  FiguresReconcile
  ThesisNeedsASample
  LastDeparture
PROPERTY AsOfIsStable
