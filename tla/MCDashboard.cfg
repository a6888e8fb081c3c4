SPECIFICATION MCSpec
CONSTANTS
  Interval = 2
  Ttl = 1
  CollectTtl = 2
  ThroughCache = FALSE
  MaxLate = 2
  MaxGather = 2
  MaxAge = 6
  OPERATION_COOLDOWN = 2
  StopWait = 2
  ScriptTicks = 1
  ServiceTicks = 2
  RestartTicks = 2
  MaxLaunches = 2
  MaxRecordings = 1
  MaxFaults = 1
  MaxRestarts = 1
  Alerts = {a1, a2}
  Clients = {c1}
  MaxTroubles = 1
  NoList = NoList
INVARIANTS
  TypesOK
  ServedIsRecent
  OneLaunch
  StoppedMeansStopped
  PushedIsDurable
PROPERTIES
  BroadcastsGoOn
  RecordingIsShown
  BoardFollowsStore
