SPECIFICATION FairSpec
CONSTANTS
  Conns = {"c1", "c2"}

  
PROPERTIES
  HungUpIsClosed
  
CHECK_DEADLOCK FALSE
