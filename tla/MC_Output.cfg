SPECIFICATION FairSpec
CONSTANTS
  Urls = {url}
  Sockets = {sock}
  Callbacks = {func}
  MaxTargets = 2
  MaxThreads = 2

  
  
PROPERTY
  DeadIsReclaimed
