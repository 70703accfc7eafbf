SPECIFICATION Spec
CONSTANTS
  Listeners = {l1}
  Next_rx = next_rx
  Cap = 2
  MaxAsked = 2
  MaxCalls = 1
CHECK_DEADLOCK FALSE
INVARIANT
  NoneMeansClosed
