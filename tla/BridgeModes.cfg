SPECIFICATION FairSpec
CONSTANTS
  c1 = c1
  c2 = c2
  Clients = {c1, c2}
  Requests <- AnyRequest
  Timeouts = {0, 5}
  NoTimeout = NoTimeout
  Faults = {}
  MaxFrames = 0
  MaxWaylandEvents = 3
  MaxRequests = 3
  MaxQueued = 1
  MaxLedEvents = 0
  MaxSignals = 0
CHECK_DEADLOCK FALSE
INVARIANTS
  EffectiveIdle
  ManualModeOwned
  HandOverFlags
  InhibitWillEnd
  NoClientPictureLeft
PROPERTIES
  TimedInhibitEnds
