SPECIFICATION LinkSpec
CONSTANTS
    Side <- OneSide
    ESC_MIN = 0
    ESC_MID = 2
    ESC_MAX = 4
    WIFI_MAX_STEP_US = 3
    DECAY_STEP_US = 1
    ESC_NEUTRAL_SNAP_US = 1
    UDP_TIMEOUT_MS = 2
    WIFI_GRACE_MS = 0
    JETSON_ONLINE_TIMEOUT_MS = 2
    MIN_CMD_INTERVAL_MS = 1
    RC_FAILSAFE_MS = 1
    SETUP_MS = 4
    AgeMax = 4
    MaxIteration = 1
    Wraps = FALSE
    RawCommands = {2, 4}
    RcLevels = {2}
    NONE = NONE
    RECONNECT_DELAY = 1
    MAX_RECONNECT_DELAY = 1
    BACKOFF_EXPONENT_MAX = 1
    STOP_SUPPRESSION = 1
    ThrustAgeMax = 5
PROPERTY SuppressedMeansStopped
