SPECIFICATION FeedingSpec
CONSTANTS
  Kinds = {"file", "udp", "tcp", "pull"}
  Fds = {3, 4, 5}
  MaxReaders = 4
  MaxStarts = 3
  Size = 2
  Packets = 3
INVARIANTS
  OneReader
  NothingLeaks
  QuietAfterStop
  NoByteTwice
  AllPassedOn
PROPERTIES
  StopReturns
  LoopReturns
\* The owner stops, the loop ends.
CHECK_DEADLOCK FALSE
