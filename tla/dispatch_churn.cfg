\* Nodes join and leave; CallRpc is pointed at an http route, a2 lacks its ports.
SPECIFICATION FairSpec
CONSTANTS
  a1 = a1
  a2 = a2
  c1 = c1
  c2 = c2
  NoAddr = NoAddr
  Calls = {c1}
  Addrs = {a1, a2}
  Portless = {a2}
  Boot <- TwoNodes
  BootCap = 2
  Churn = {"addNode", "delNode"}
  Requests <- MixedCalls
  Attempts = 3
  MaxNodes = 3
INVARIANTS TypeOK GaugeCountsPanics
PROPERTIES DeleteRemovesAll NoRetryAfterFinalOutcome RequestsEnd
