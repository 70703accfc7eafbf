SPECIFICATION FairSpec
CONSTANTS
  Menu <- MCMenu
  MaxAsked = 2
  MaxMeddled = 1
CHECK_DEADLOCK FALSE
INVARIANTS
  TypeOK
  ViewIsCurrent
  InhibitLeftBehind
PROPERTIES
  RequestsSettle
  ModeReleased
