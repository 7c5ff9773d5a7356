SPECIFICATION FairSpec
CONSTANTS
  Parsers = {feed1}
  Muxes <- AllMuxes
  Selections = {{}, {1}, {2}, {1, 2}}
  MaxChanges = 2
INVARIANTS
  StreamsPass
  ReadyIsDecoded
  AttachedIsFiltered
PROPERTY
  EventuallyReady
