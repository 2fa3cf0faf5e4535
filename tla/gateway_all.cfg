\* One request through any gateway and service, two attempts, one request
\* sent again, two changes of the node list.
SPECIFICATION FairSpec
CONSTANTS
  Attempts = 2
  Keys <- TwoKeys
  NoKey = "none"
  Cases <- GatewayCases
  MaxMoves = 2
  MaxAgain = 1
INVARIANTS TypeOK AnsweredOnce KeyedOnly OneTrace MeansWhatItSays
PROPERTIES ImplementsRemoteCall RequestEnds
CHECK_DEADLOCK FALSE
