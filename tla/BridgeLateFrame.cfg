SPECIFICATION Spec
CONSTANTS
  c1 = c1
  c2 = c2
  Clients = {c1}
  Requests <- NoRequest
  Timeouts = {0, 5}
  NoTimeout = NoTimeout
  Faults = {}
  MaxFrames = 1
  MaxWaylandEvents = 1
  MaxRequests = 0
  MaxQueued = 1
  MaxLedEvents = 0
  MaxSignals = 0
CHECK_DEADLOCK FALSE
INVARIANT
  IdleStripDark
