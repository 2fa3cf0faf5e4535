\* Edits one at a time, nothing fails.
SPECIFICATION FairSpec
CONSTANTS
  Nodes = {n1, n2}
  Services = {s1, s2}
  Tail = Tail
  Overlapping = FALSE
  CallMayFail = FALSE
  DiskMayFail = FALSE
  MaxEdits = 3
  MaxCalls = 3
INVARIANTS SettledFilesAgree
PROPERTIES SyncSettles
