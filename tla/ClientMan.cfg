SPECIFICATION FairSpec
CONSTANTS
  c1 = c1
  c2 = c2
  a1 = a1
  a2 = a2
  Conns = {c1, c2}
  Addrs = {a1, a2}
  Ports <- MCPorts
  None = None
  MaxSaid <- MCMaxSaid
  Faulty = {c1}
  Room = 1
  MAGIC <- MCMagic
  LengthBytes = 2
  Base = 3
  Messages <- MCMessages
CHECK_DEADLOCK FALSE
INVARIANTS
  TypeOK
  NoPhantomClient
  AnswersGoHome
  NobodyCutOff
PROPERTIES
  ImplementsVisits
  StopCompletes
