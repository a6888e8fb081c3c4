SPECIFICATION MCSpec
CONSTANTS
    Side <- OneSide
    ESC_MIN = 0
    ESC_MID = 4
    ESC_MAX = 8
    WIFI_MAX_STEP_US = 5
    DECAY_STEP_US = 1
    ESC_NEUTRAL_SNAP_US = 1
    UDP_TIMEOUT_MS = 2
    WIFI_GRACE_MS = 1
    JETSON_ONLINE_TIMEOUT_MS = 2
    MIN_CMD_INTERVAL_MS = 1
    RC_FAILSAFE_MS = 1
    SETUP_MS = 3
    AgeMax = 8
    MaxIteration = 2
    Wraps = FALSE
    RawCommands = {0, 4, 8, 9}
    RcLevels = {0, 4, 7}
    MAX_WIFI_NETWORKS = 4
    Configured = {0, 1, 3}
    WIFI_CHECK_INTERVAL_MS = 1
    WIFI_RECONNECT_DELAY_MS = 2
    WIFI_CONNECT_ATTEMPT_TIMEOUT_MS = 2
    WIFI_UDP_START_DELAY_MS = 2
    UDP_START_RETRY_INTERVAL_MS = 3
    MAX_RECONNECT_ATTEMPTS = 2
    WifiAgeMax = 3
    MaxFaults = 4
    Widths = {1320, 1550, 1700, 2050}
    GearModes = {TRUE, FALSE}
    RcAgeMax = 5
INVARIANTS
    CommandImpliesPing
    ThrustEnds
    TypesOK
    NoHalfOpenSockets
    KnowsItsNetwork
    RcTypeOK
PROPERTIES
    ThrustHasSource
    ControlIsGranted
    WifiSlewLimited
    SilenceStops
    ScanIsComplete
    LinkComesBack
    SilentChannelIsNeutral
    ThrustFollowsStick
    SettlesNearGear
