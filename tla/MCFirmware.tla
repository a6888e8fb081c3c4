---------------------------- MODULE MCFirmware ----------------------------
(***************************************************************************)
(* ThrusterControl, WifiLink and RcChannel for TLC.  They look at one      *)
(* loop() from three sides and share no state, so a behavior explores one  *)
(* of them: `part` says which, and the others keep their initial states.   *)
(* In ThrusterControl pulses are scaled to 0 .. 8 with neutral 4; a        *)
(* timeout of 2 units, a grace of 1.                                       *)
(***************************************************************************)
EXTENDS ThrusterControl

CONSTANTS
    MAX_WIFI_NETWORKS, Configured, WIFI_CHECK_INTERVAL_MS,
    WIFI_RECONNECT_DELAY_MS, WIFI_CONNECT_ATTEMPT_TIMEOUT_MS,
    WIFI_UDP_START_DELAY_MS, UDP_START_RETRY_INTERVAL_MS,
    MAX_RECONNECT_ATTEMPTS, WifiAgeMax, MaxFaults,
    Widths, GearModes, RcAgeMax

VARIABLES
    part,
    checkAge, cachedWifiConnected, currentNetworkIndex, attempt, cycle,
    reconnectInProgress, reconnectAttemptCount, disconnectAge, connectedAge,
    udpStartAge, linkUdp, sockets, target, radio, up, faults, order,
    gearMode, rcPc, sampleAge, pulse, captured, captureAge, updateAge,
    motionLatched, offcenterFrames, rcAvg

wifiVars == <<checkAge, cachedWifiConnected, currentNetworkIndex, attempt,
              cycle, reconnectInProgress, reconnectAttemptCount,
              disconnectAge, connectedAge, udpStartAge, linkUdp, sockets,
              target, radio, up, faults, order>>

rcVars == <<gearMode, rcPc, sampleAge, pulse, captured, captureAge, updateAge,
            motionLatched, offcenterFrames, rcAvg>>

Wifi == INSTANCE WifiLink WITH udpServersStarted <- linkUdp, AgeMax <- WifiAgeMax

Rc == INSTANCE RcChannel WITH pc <- rcPc, AgeMax <- RcAgeMax

ASSUME WifiConstants == Wifi!NetworkAssumption /\ Wifi!LinkTimeAssumption

ASSUME RcConstants == Rc!RcAssumption

OneSide  == {"L"}

\* What only one part tells apart has one value in the others.
MCInit ==
    /\ part \in {"control", "wifi", "rc"}
    /\ Init /\ Wifi!Init /\ Rc!Init
    /\ part # "wifi" => up = {}
    /\ part # "rc" => gearMode

MCNext ==
    /\ UNCHANGED part
    /\ \/ part = "control" /\ Next /\ UNCHANGED <<wifiVars, rcVars>>
       \/ part = "wifi" /\ Wifi!Next /\ UNCHANGED <<vars, rcVars>>
       \/ part = "rc" /\ Rc!Next /\ UNCHANGED <<vars, wifiVars>>

\* The fairness of each part, for its own behaviors.
ControlFairness ==
    LET On(A) == part = "control" /\ A IN WF_vars(On(LoopStep)) /\ SF_vars(On(Elapse))

WifiFairness ==
    LET On(A) == part = "wifi" /\ A
    IN  /\ WF_wifiVars(On(Wifi!Elapse)) /\ WF_wifiVars(On(Wifi!CheckWiFiStatus))
        /\ SF_wifiVars(On(Wifi!Associate))
        /\ WF_wifiVars(On(Wifi!LinkDrops /\ radio \notin up))

RcFairness ==
    LET On(A) == part = "rc" /\ A
    IN  WF_rcVars(On(Rc!ReadClocks)) /\ WF_rcVars(On(Rc!ReadCapture))

MCSpec ==
    /\ MCInit /\ [][MCNext]_<<part, vars, wifiVars, rcVars>>
    /\ ControlFairness /\ WifiFairness /\ RcFairness

\* The types of control loop and link; WifiLink's invariants and properties,
\* under names of their own: the sockets and the network they belong to, a
\* whole scan, and the way back.
TypesOK           == TypeOK /\ Wifi!TypeOK
NoHalfOpenSockets == Wifi!NoHalfOpenSockets
KnowsItsNetwork   == Wifi!KnowsItsNetwork
ScanIsComplete    == Wifi!ScanIsComplete
LinkComesBack     == part = "wifi" => Wifi!LinkComesBack

\* The properties of an RC channel: its types, when silence is neutral, which
\* way the output moves, and where a held stick brings it.
RcTypeOK               == Rc!TypeOK
SilentChannelIsNeutral == Rc!SilentChannelIsNeutral
ThrustFollowsStick     == Rc!ThrustFollowsStick
SettlesNearGear        == Rc!SettlesNearGear
=============================================================================
