\* Two requests fail at one node of an http route.
SPECIFICATION FairSpec
CONSTANTS
  Workers <- TwoWorkers
  Cells <- CellsForTwo
  NoCell = NoCell
  Second = 1
  Quantity = 2
  Attempts = 2
  RouteType = "http"
  MaxErrors = 6
INVARIANTS TypeOK ErrorsBounded
PROPERTIES BreakerRecloses ImplementsBreaker
