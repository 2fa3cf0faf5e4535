\* Every way a boot can go, with one other service, one whose name is taken
\* apart wrongly, and a key of another program in the directory.
SPECIFICATION FairSpec
CONSTANTS
  Atoms <- TextAtoms
  Custom <- CustomNames
  Configs <- GoodAndFaulty
  Servers <- OtherServers
INVARIANTS TypeOK InstancesFound ListensReady PanicsOnlyOnBadInput
           EntriesAreServers RacesAtFirstNodes
PROPERTIES BootEnds KeyExpires RegisteredServes
