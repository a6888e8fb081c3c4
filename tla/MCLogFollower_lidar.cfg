SPECIFICATION Spec
CONSTANTS
  Readers = {r1}
  Kind = "lidar"
  MaxLogs = 2
  MaxUnits = 4
  MaxHistory = 2
  StaleAfter = 2
PROPERTY SilenceIsNoticed
