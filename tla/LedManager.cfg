SPECIFICATION FairSpec
CONSTANTS
  p1 = p1
  p2 = p2
  Lit = {p1, p2}
  Black = Black
  Glow = Glow
  Endless = Endless
  LeftOn = {p1, Black, Glow}
  Durations = {0, 2}
  MaxQueued = 1
  MaxErrors = 1
CHECK_DEADLOCK FALSE
INVARIANTS
  TypeOK
  OnlyBlackRunsAhead
PROPERTIES
  KeepsPromise
  FadesEnd
  GoesDark
