SPECIFICATION FairSpec
CONSTANTS
  Order <- MCOrder
  Src = 1
  NumBis = 2
  SrcCode = 1
  Code <- MCCode
  Credits = 2
  MaxQueue = 0
  MaxStarts = 2
  MaxStops = 1
  MaxUpdates = 1
  MaxSdus = 2
  MaxLeaves = 1
  RestartUnseen = FALSE
CHECK_DEADLOCK FALSE
INVARIANTS ReceiversTold AppInformed DeliveredInOrder
PROPERTY Joins
