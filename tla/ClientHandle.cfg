SPECIFICATION FairSpec
CONSTANTS
  Listeners = {l1}
  Next_rx = next_rx
  Cap = 2
  MaxAsked = 2
  MaxCalls = 2
CHECK_DEADLOCK FALSE
INVARIANTS
  TypeOK
PROPERTIES
  ImplementsMailbox
  CancelReleases
