SPECIFICATION FairSpec
CONSTANTS
  NumTuners = 2
  ScanMin = 1
  ScanMax = 2
  Methods = {"speed", "redundancy", "both", "partial"}
INVARIANTS
  
  
  ScanLeavesNothing

  
CHECK_DEADLOCK FALSE
