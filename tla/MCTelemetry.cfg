SPECIFICATION MCSpec
CONSTANTS
    HEARTBEAT_INTERVAL_MS = 20
    STATUS_SEND_INTERVAL_MS = 2
    FLOW_SEND_INTERVAL_MS = 4
    DHT_SEND_INTERVAL_MS = 25
    MONITOR_PACKET_INTERVAL_MS = 7
    JETSON_ONLINE_TIMEOUT_MS = 4
    MaxSendIteration = 1
    Slack <- SlackOf
    FLOW_CALC_INTERVAL_MS = 2
    FLOW_ESTIMATE_BIN_COUNT = 5
    MaxIteration = 3
    MaxChanges = 3
    AgeMax = 22
INVARIANTS
    TypesOK
    SentOnTime
    RollingIsWindowSum
    EstimateFollowsFlow
