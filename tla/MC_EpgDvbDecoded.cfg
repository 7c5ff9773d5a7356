SPECIFICATION GuideSpec
CONSTANTS
  Sdts <- TwoSdts
  LastX = 1
  MaxVersion = 1
  Guides <- OneGuide
  Shows <- SameNumber
  LastEit = 0
  MaxEitVersion = 0
  MaxTunes = 0
  Settings <- WithTexts
INVARIANT
  AlreadyDecoded
CHECK_DEADLOCK FALSE
