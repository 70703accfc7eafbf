SPECIFICATION FairSpec
CONSTANTS
  Bytes <- Line
  Magic <- LineMagic
  Zero = "a"
  Declared <- LineDeclared
  StateBytes = 4
  BytesPerLed = 2
  Record <- LineRecord
  Payloads <- LinePayloads
  FullLen = "full"
  Noise <- LineNoise
  Chatter <- LineChatter
  FeedbackBytes <- LineFeedbackBytes
  FeedbackMagic <- LineFeedbackMagic
  RecordLen = 4
  RxBufferLen = 20
  Chunks = {2, 3}
  MaxWaiting = 1
  MaxWrites = 3
CHECK_DEADLOCK FALSE
INVARIANTS
  TypeOK
  BufferNeverFull
  ClockRunsForHeader
  RecoversAfterDamage
  EveryRecordCounted
PROPERTIES
  InnerLoopEnds
