SPECIFICATION Spec
CONSTANTS
  SIDE_LEDS = 1
  TOP_LEDS = 2
  PADDING = 1
  DEPTH = 3
  Threads = 13
  Images <- MCImages
  Junk <- MCJunk
INVARIANTS
  MeasuresItsPiece
