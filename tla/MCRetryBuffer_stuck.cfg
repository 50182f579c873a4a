SPECIFICATION FairSpec
CONSTANTS
  Capacity = 2
  InitialRetry = 1
  MaxRetry = 4
  MaxBuffering = 3
  ChannelCapacity = 1
  SinkReopens = TRUE
  MaxPushes = 2
CHECK_DEADLOCK FALSE
PROPERTY
  ExpiredRecordsLeave
