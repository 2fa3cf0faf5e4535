\* The balancer picks a loaded node although an idle one is there.
SPECIFICATION Spec
CONSTANTS
  a1 = a1
  a2 = a2
  c1 = c1
  c2 = c2
  NoAddr = NoAddr
  Calls = {c1, c2}
  Addrs = {a1, a2}
  Portless = {}
  Boot <- TwoNodes
  BootCap = 2
  Churn = {}
  Requests <- HttpCalls
  Attempts = 1
  MaxNodes = 2
PROPERTIES SelectsLeastWaiting
