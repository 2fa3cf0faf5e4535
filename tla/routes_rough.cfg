\* Overlapping edits; calls fail, are repeated and come late; disks fail.
SPECIFICATION Spec
CONSTANTS
  Nodes = {n1, n2}
  Services = {s1, s2}
  Tail = Tail
  Overlapping = TRUE
  CallMayFail = TRUE
  DiskMayFail = TRUE
  MaxEdits = 2
  MaxCalls = 2
SYMMETRY Symmetry
INVARIANTS TypeOK NoChangeMissed
