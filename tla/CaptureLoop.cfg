SPECIFICATION FairSpec
CONSTANTS
  o1 = o1
  o2 = o2
  Outputs <- MCOutputs
  Size <- MCSize
  Manager = Manager
  Dmabuf = Dmabuf
  None = None
  Frames = {1, 2, 3, 4, 5}
  Copies = {1, 2, 3}
  Faults = {"device", "gbm", "create", "capture"}
  Startup <- MCStartup
  HotPlugged <- MCHotPlugged
  MaxEvents = 1
  MaxResumes = 1
CHECK_DEADLOCK FALSE
INVARIANTS
  TypeOK
  ConnectionKept
  BufferIsImported
PROPERTIES
  CapturesKeepComing
