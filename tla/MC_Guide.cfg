SPECIFICATION FairGuideSpec
CONSTANTS
  Sdts <- TwoSdts
  LastX = 1
  MaxVersion = 1
  Guides <- TwoGuides
  Shows <- FourShows
  LastEit = 1
  MaxEitVersion = 0
  MaxTunes = 1
  Settings <- AllOptions
\* A stream that does not change leaves the parser nothing new.
CHECK_DEADLOCK FALSE
INVARIANTS
  Filed
PROPERTIES
  DumpedWhole
  
  GuideGathered
