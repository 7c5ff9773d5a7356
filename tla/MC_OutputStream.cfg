SPECIFICATION FairSpec
CONSTANTS
  NoOne = NoOne
  Methods = {"udp", "sock", "http", "func"}
  Limit = 4
  Batch = 2
  MaxPush = 3
  MaxPackets = 6
  MaxStarts = 2
INVARIANTS
  SentInOrder
  BatchStaysPut
PROPERTIES
  
  StopReturns
CHECK_DEADLOCK FALSE
