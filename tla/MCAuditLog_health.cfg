SPECIFICATION AuditSpec
CONSTANTS
  Decisions = {d1, d2}
  AuditRetention = 1
  AuditTime = 0
  MaxFaults = 2
  MaxProbes = 0
INVARIANTS HealthFollowsLastWrite
CHECK_DEADLOCK FALSE
