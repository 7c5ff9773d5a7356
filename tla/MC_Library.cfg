SPECIFICATION LibrarySpec
CONSTANTS
  o1 = o1
  o2 = o2
  a1 = a1
  a2 = a2
  k1 = k1
  k2 = k2
  p1 = p1
  p2 = p2
  Objects <- TwoObjects
  Arrays <- TwoArrays
  Keys <- TwoKeys
  MaxValues = 3
  Parsers <- TwoParsers
  Streams <- ThreeStreams
  MaxNodes = 8
SYMMETRY Symmetry
\* The values are bounded by MaxValues.
CHECK_DEADLOCK FALSE
INVARIANTS
  Sound
  TreeIsWhole
  OnePerKey
  InStep
PROPERTY
  CopiesApart
