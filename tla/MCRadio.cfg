SPECIFICATION FairSpec
CONSTANTS
  Clients = {c1, c2}
  BufferFrames = 3
  SleepFrames = 4
  MaxPeriod = 2
  QueueLimit = 2
  MaxRecordings = 2
INVARIANTS TypeOK InsideBuffers ResultComplete HearsOneRecording
PROPERTY EveryQueuedPlayed
CHECK_DEADLOCK FALSE
