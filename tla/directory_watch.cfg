\* Two servers and a malformed key; gaps, failed lists, panics and cancelled
\* watches.
SPECIFICATION FairSpec
CONSTANTS
  Servers <- TwoServers
  Strangers <- OneStranger
  MaxChanges = 6
INVARIANTS TypeOK OnlyBehind
PROPERTIES ViewConverges
