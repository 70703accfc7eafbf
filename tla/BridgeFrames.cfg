SPECIFICATION FairSpec
CONSTANTS
  c1 = c1
  c2 = c2
  Clients = {c1}
  Requests <- WakingRequests
  Timeouts = {0, 5}
  NoTimeout = NoTimeout
  Faults = {"record", "submit", "readback", "import", "capture"}
  MaxFrames = 2
  MaxWaylandEvents = 1
  MaxRequests = 1
  MaxQueued = 1
  MaxLedEvents = 1
  MaxSignals = 1
CHECK_DEADLOCK FALSE
INVARIANTS
  TypeOK
  FrameLoopAlive
  StagesMatchStarts
PROPERTIES
  FramesKeepComing
