SPECIFICATION ServicesSpec
CONSTANTS
  Fps = {"a", "b", "c"}
  Minute = 2
  StaleMinutes = 1
  MaxRefreshes = 2
  MaxRestarts = 1
  MaxInventoryFaults = 1
  InventoryTime = 4
  Decisions = {d1, d2}
  AuditRetention = 0
  MaxFaults = 1
  MaxProbes = 1
  AuditTime = 1
  Certs = {c1}
  Severities = {"low"}
  Limit = 1
  Horizon = 1
  Retention = 0
  StorageTime = 1
  MaxCalls = 5
  MaxQueued = 2
  Recorders = {r1, r2}
  Configurations = {{}, {"statsd"}, {"prometheus", "webhooks"}}
  NumEndpoints = 2
  RetryMax = 2
  MaxEvents = 2
  MaxTicks = 1
  Sources <- MCSources
  Manifests <- MCManifests
  Configs <- MCConfigs
INVARIANTS NeverMissing FreshIsRecent ChainComplete DeliveredOrExhausted NothingUnsent DashboardMissesNothing
PROPERTY DaemonStopsWhenAsked
CHECK_DEADLOCK FALSE
