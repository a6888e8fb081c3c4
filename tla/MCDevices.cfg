SPECIFICATION MCSpec
CONSTANTS
  Checkers = {c1, c2}
  Expected = {n1}
  Topics = {t1}
  Rates = {"absent", "bad", "good"}
  Free = Free
  Readers = {r1, r2}
  Kind = "camera"
  MaxLogs = 1
  MaxUnits = 3
  MaxHistory = 1
  StaleAfter = 1
  MinInterval = 2
  MaxWaiting = 2
INVARIANTS TypesOK NothingSkipped
PROPERTIES Ros2StatusSettles CameraSilenceIsNoticed TelemetryComesBack PushesGoOn
