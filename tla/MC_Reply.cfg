SPECIFICATION Spec
CONSTANTS
  Configs <- SomeConfigs
  Muxes <- TwoMuxes
  Channels <- TheChannels
  Events <- TheEvents
  MaxItems = 3
INVARIANTS
  WellFormed
  NoneTwice
  Coherent
