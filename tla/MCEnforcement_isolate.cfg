SPECIFICATION EnforcementSpec
CONSTANTS
  Writers = {w1}
  Hosts = {h1, h2}
  Certs <- MCCerts
  Sha <- MCSha
  Prefix <- MCPrefix
  Pinned <- MCPinned
  MaxSeverity = 1
  MaxEntries = 2
  MapSize = 2
  MaxTotal = 6
  MaxRetries = 1
INVARIANT IsolatedIsDropped
CHECK_DEADLOCK FALSE
