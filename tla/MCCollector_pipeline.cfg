SPECIFICATION FairSpec
CONSTANTS
  Certs = {c1, c2}
  Capacity = 1
  InCapacity = 1
  OutCapacity = 1
  Retention = 0
  MaxTime = 2
  MaxCrashes = 1
  MaxFailures = 1
INVARIANTS CachedIsStored NewOnce
PROPERTIES ObservedIsForwarded ShutdownEnds
CHECK_DEADLOCK FALSE
