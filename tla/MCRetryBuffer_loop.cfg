SPECIFICATION FairSpec
CONSTANTS
  Capacity = 2
  InitialRetry = 1
  MaxRetry = 4
  MaxBuffering = 5
  ChannelCapacity = 1
  SinkReopens = TRUE
  MaxPushes = 4
CHECK_DEADLOCK FALSE
INVARIANTS
  WakesInTime
  Conservation
PROPERTIES
  RefinesLossyQueue
  FlushEnds
  Shutdown
