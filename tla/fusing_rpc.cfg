\* One request at a time on an rpc route.
SPECIFICATION Spec
CONSTANTS
  Workers <- OneWorker
  Cells <- CellsForOne
  NoCell = NoCell
  Second = 2
  Quantity = 2
  Attempts = 2
  RouteType = "rpc"
  MaxErrors = 6
PROPERTIES TripsAtQuantity
