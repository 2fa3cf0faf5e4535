\* Requests on one path, one at a time or two at once.
SPECIFICATION FairSpec
CONSTANTS
  Workers <- TwoWorkers
  Cells <- CellsForTwo
  NoCell = NoCell
  Second = 3
  Quantity = 3
INVARIANTS TypeOK OvershootBounded
PROPERTIES LimiterReopens ImplementsFixedWindow
