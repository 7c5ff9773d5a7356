SPECIFICATION FairSpec
CONSTANTS
  w = w
  r = r
  a = a
  b = b
  NoThread = NoThread
  Junk = Junk
  Threads <- MCThreads
  Values <- MCValues
  Capacities <- MCCapacities
  MaxAsk <- MCMaxAsk
INVARIANTS
  WindowInv
PROPERTIES
  ImplementsFifo
  WriteReturns
