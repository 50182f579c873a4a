SPECIFICATION FairSpec
CONSTANTS
  Callers = {a1, a2}
  MaxRetries = 2
  MaxPolls = 1
  MaxCalls = 2
  MaxFaults = 1
INVARIANTS OneAccount TornByFaultOnly OkMeansIssued
PROPERTY CallsReturn
CHECK_DEADLOCK FALSE
