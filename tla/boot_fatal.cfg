SPECIFICATION Spec
CONSTANTS
  Atoms <- TextAtoms
  Custom <- CustomNames
  Configs <- GoodAndFaulty
  Servers <- OtherServers
INVARIANT FatalIsReported
