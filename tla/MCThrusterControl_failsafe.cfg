SPECIFICATION Spec
CONSTANTS
    Side <- OneSide
    ESC_MIN = 0
    ESC_MID = 4
    ESC_MAX = 8
    WIFI_MAX_STEP_US = 5
    DECAY_STEP_US = 1
    ESC_NEUTRAL_SNAP_US = 1
    UDP_TIMEOUT_MS = 2
    WIFI_GRACE_MS = 1
    JETSON_ONLINE_TIMEOUT_MS = 2
    MIN_CMD_INTERVAL_MS = 1
    RC_FAILSAFE_MS = 1
    SETUP_MS = 3
    AgeMax = 5
    MaxIteration = 3
    Wraps = FALSE
    RawCommands = {0, 4, 8, 9}
    RcLevels = {0, 4, 7}
PROPERTIES
    FailsafeWhenWritten
