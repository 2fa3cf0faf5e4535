\* Nodes only join, first in place, then by a reallocation, one address twice.
SPECIFICATION Spec
CONSTANTS
  a1 = a1
  a2 = a2
  c1 = c1
  c2 = c2
  NoAddr = NoAddr
  Calls = {c1, c2}
  Addrs = {a1, a2}
  Portless = {}
  Boot <- OneNode
  BootCap = 2
  Churn = {"addNode"}
  Requests <- ProperCalls
  Attempts = 2
  MaxNodes = 3
SYMMETRY CallSymmetry
INVARIANTS NoPanic ServedByChosen WaitingIsInFlight
