----------------------------- MODULE WifiLink -----------------------------
(***************************************************************************)
(* The WiFi side of the Arduino firmware: checkWiFiStatus(), the background *)
(* state machine that scans the configured networks, and the two UDP       *)
(* sockets (commands and heartbeat) it opens once a network is joined.     *)
(*                                                                         *)
(* One call of checkWiFiStatus is one action.  Stamps are ages, as in      *)
(* ThrusterControl: NONE is the stamp 0, which the code uses for "not      *)
(* set", and an age stops at AgeMax, above every timeout.  WiFi.begin()    *)
(* blocks; the time it takes is time that passes before the next call.     *)
(*                                                                         *)
(* Environment: the access points that are up, the radio, which joins or   *)
(* loses the network it was last told to join, the outcome of the sockets' *)
(* begin(), and the failing send that makes markUdpTransportFailure close  *)
(* the sockets.  All its disturbances together are at most MaxFaults.      *)
(***************************************************************************)
EXTENDS Integers, Sequences, FiniteSets, FiniteSetsExt

CONSTANTS
    MAX_WIFI_NETWORKS,      \* length of wifiNetworks[]
    Configured,             \* its entries that have an SSID
    WIFI_CHECK_INTERVAL_MS, WIFI_RECONNECT_DELAY_MS,
    WIFI_CONNECT_ATTEMPT_TIMEOUT_MS, WIFI_UDP_START_DELAY_MS,
    UDP_START_RETRY_INTERVAL_MS, MAX_RECONNECT_ATTEMPTS,
    AgeMax, MaxFaults

\* What the constants must satisfy.
NetworkAssumption ==
    /\ MAX_WIFI_NETWORKS \in Nat \ {0}
    /\ Configured \subseteq 0 .. MAX_WIFI_NETWORKS - 1

LinkTimeAssumption ==
    /\ AgeMax \in Nat /\ MaxFaults \in Nat
    /\ MAX_RECONNECT_ATTEMPTS \in Nat \ {0}
    /\ {WIFI_CHECK_INTERVAL_MS, WIFI_RECONNECT_DELAY_MS,
        WIFI_CONNECT_ATTEMPT_TIMEOUT_MS, WIFI_UDP_START_DELAY_MS,
        UDP_START_RETRY_INTERVAL_MS} \subseteq 1 .. AgeMax

VARIABLES
    checkAge,               \* age of lastWifiCheckMs
    cachedWifiConnected,    \* WiFi.status() at the last check
    currentNetworkIndex,
    attempt,                \* wifiAttempt{Active, Start, NetworkIndex}
    cycle,                  \* wifiCycleStartIndex, wifiNetworksTriedThisCycle
    reconnectInProgress,
    reconnectAttemptCount,
    disconnectAge,          \* age of lastWifiDisconnectMs
    connectedAge,           \* age of wifiConnectedAtMs
    udpStartAge,            \* age of lastUdpStartAttemptMs
    udpServersStarted,
    sockets,                \* the sockets that hold a handle
    target, radio, up,      \* environment: network asked for, joined; in range
    faults,                 \* disturbances so far
    order                   \* history: the networks tried in this cycle

vars == <<checkAge, cachedWifiConnected, currentNetworkIndex, attempt, cycle,
          reconnectInProgress, reconnectAttemptCount, disconnectAge,
          connectedAge, udpStartAge, udpServersStarted, sockets, target, radio,
          up, faults, order>>

servers == <<connectedAge, udpStartAge, udpServersStarted, sockets>>
scan    == <<currentNetworkIndex, attempt, cycle, reconnectInProgress,
             reconnectAttemptCount, disconnectAge, order>>
air     == <<target, radio, up>>

NONE    == -1
Index   == 0 .. MAX_WIFI_NETWORKS - 1
Stamp   == {NONE} \cup 0 .. AgeMax
Socket  == {"data", "heartbeat"}

TypeOK ==
    /\ checkAge \in 0 .. AgeMax
    /\ cachedWifiConnected \in BOOLEAN
    /\ currentNetworkIndex \in {NONE} \cup Index
    /\ attempt \in [active : BOOLEAN, age : 0 .. AgeMax,
                    index : {NONE} \cup Index]
    /\ cycle \in [start : {NONE} \cup Index,
                  tried : 0 .. Cardinality(Configured)]
    /\ reconnectInProgress \in BOOLEAN
    /\ reconnectAttemptCount \in 0 .. MAX_RECONNECT_ATTEMPTS - 1
    /\ {disconnectAge, connectedAge, udpStartAge} \subseteq Stamp
    /\ udpServersStarted \in BOOLEAN
    /\ sockets \subseteq Socket
    /\ target \in {NONE} \cup Configured /\ radio \in {NONE} \cup Configured
    /\ up \subseteq Configured
    /\ faults \in 0 .. MaxFaults
    /\ order \in Seq(Configured)

-----------------------------------------------------------------------------
(* The networks. *)

FindFirstConfiguredWifiNetwork ==
    IF Configured = {} THEN NONE ELSE Min(Configured)

Mutant_FindNext(startAfter) == FindFirstConfiguredWifiNetwork

\* The next configured entry after startAfter, around the end of the table.
FindNextConfiguredWifiNetwork(startAfter) ==
    LET At(offset) == (startAfter + offset + MAX_WIFI_NETWORKS)
                         % MAX_WIFI_NETWORKS
        Hits == {o \in 1 .. MAX_WIFI_NETWORKS : At(o) \in Configured}
    IN  IF Hits = {} THEN NONE ELSE At(Min(Hits))

NoAttempt == [active |-> FALSE, age |-> 0, index |-> NONE]
NoCycle   == [start |-> NONE, tried |-> 0]

-----------------------------------------------------------------------------
(* The sockets. *)

\* What stopUdpServers leaves open.
StopUdpServers == {}

Mutant_AfterFailedBegin(opened) == opened

\* A failed start closes the socket that did open: begin() of a socket that
\* holds a handle returns 0 for ever.
AfterFailedBegin(opened) == StopUdpServers

\* `held` is how long the link has been seen up.
EnsureUdpServersStarted(held) ==
    /\ connectedAge' = held
    /\ IF \/ udpServersStarted
          \/ held < WIFI_UDP_START_DELAY_MS
          \/ /\ udpStartAge # NONE
             /\ udpStartAge < UDP_START_RETRY_INTERVAL_MS
       THEN UNCHANGED <<udpServersStarted, sockets, udpStartAge, faults>>
       ELSE \E ok \in SUBSET Socket :
              LET opened == ok \ StopUdpServers IN
              IF opened = Socket
              THEN /\ udpServersStarted' = TRUE
                   /\ sockets' = Socket
                   /\ udpStartAge' = NONE
                   /\ UNCHANGED faults
              ELSE /\ faults < MaxFaults
                   /\ faults' = faults + 1
                   /\ udpServersStarted' = FALSE
                   /\ sockets' = AfterFailedBegin(opened)
                   /\ udpStartAge' = 0

\* markUdpTransportFailure: a send of the loop failed.
SendFails ==
    /\ udpServersStarted /\ cachedWifiConnected
    /\ faults < MaxFaults
    /\ faults' = faults + 1
    /\ udpServersStarted' = FALSE
    /\ sockets' = StopUdpServers
    /\ udpStartAge' = NONE
    /\ UNCHANGED <<checkAge, cachedWifiConnected, scan, connectedAge, air>>

-----------------------------------------------------------------------------
(* checkWiFiStatus. *)

Mutant_Attributed == currentNetworkIndex

\* The network that a link seen up belongs to.
Attributed == IF attempt.active THEN attempt.index ELSE currentNetworkIndex

LinkUp ==
    /\ radio # NONE
    /\ cachedWifiConnected' = TRUE
    /\ currentNetworkIndex' = Attributed
    /\ attempt' = NoAttempt /\ cycle' = NoCycle /\ order' = << >>
    /\ reconnectInProgress' = FALSE
    /\ reconnectAttemptCount' = 0
    /\ disconnectAge' = NONE
    /\ EnsureUdpServersStarted(IF connectedAge = NONE THEN 0 ELSE connectedAge)
    /\ UNCHANGED air

\* startNextWifiAttempt's choice, after `tried` networks of the cycle.
NextIndex(tried, last, start) ==
    IF tried = 0 THEN start ELSE FindNextConfiguredWifiNetwork(last)

Mutant_MoreToTry(tried) == tried + 1 < Cardinality(Configured)

MoreToTry(tried) == tried < Cardinality(Configured)

\* startWifiAttempt: leave the network, ask for the next one.
StartWifiAttempt(index, start, tried) ==
    /\ attempt' = [active |-> TRUE, age |-> 0, index |-> index]
    /\ cycle' = [start |-> start, tried |-> tried]
    /\ reconnectInProgress' = TRUE
    /\ order' = Append(IF tried = 0 THEN << >> ELSE order, index)
    /\ target' = index /\ radio' = NONE
    /\ UNCHANGED reconnectAttemptCount

Mutant_CyclesFailed == reconnectAttemptCount + 1

\* The count of failed scans, which starts again at MAX_RECONNECT_ATTEMPTS.
CyclesFailed ==
    IF reconnectAttemptCount + 1 >= MAX_RECONNECT_ATTEMPTS THEN 0
    ELSE reconnectAttemptCount + 1

FinishWifiReconnectCycle ==
    /\ reconnectInProgress' = FALSE
    /\ attempt' = NoAttempt /\ cycle' = NoCycle
    /\ reconnectAttemptCount' = CyclesFailed
    /\ disconnectAge' = 0
    /\ UNCHANGED order

\* How long the link has been seen down.
DownFor == IF disconnectAge = NONE THEN 0 ELSE disconnectAge

AttemptPending ==
    /\ attempt.active /\ attempt.age < WIFI_CONNECT_ATTEMPT_TIMEOUT_MS
    /\ disconnectAge' = DownFor
    /\ UNCHANGED <<currentNetworkIndex, attempt, cycle, reconnectInProgress,
                   reconnectAttemptCount, order, target, radio>>

AttemptTimedOut ==
    /\ attempt.active /\ attempt.age >= WIFI_CONNECT_ATTEMPT_TIMEOUT_MS
    /\ UNCHANGED currentNetworkIndex
    /\ IF MoreToTry(cycle.tried + 1)
       THEN /\ disconnectAge' = DownFor
            /\ StartWifiAttempt(
                 NextIndex(cycle.tried + 1, attempt.index, cycle.start),
                 cycle.start, cycle.tried + 1)
       ELSE /\ target' = NONE /\ radio' = NONE
            /\ FinishWifiReconnectCycle

AwaitReconnectDelay ==
    /\ ~attempt.active /\ ~reconnectInProgress
    /\ DownFor < WIFI_RECONNECT_DELAY_MS
    /\ disconnectAge' = DownFor
    /\ UNCHANGED <<currentNetworkIndex, attempt, cycle, reconnectInProgress,
                   reconnectAttemptCount, order, target, radio>>

CycleStart ==
    IF currentNetworkIndex \in Configured THEN currentNetworkIndex
    ELSE FindFirstConfiguredWifiNetwork

\* beginWifiReconnectCycle, and its first attempt.
BeginWifiReconnectCycle ==
    /\ ~attempt.active
    /\ reconnectInProgress \/ DownFor >= WIFI_RECONNECT_DELAY_MS
    /\ IF MoreToTry(0)
       THEN /\ StartWifiAttempt(CycleStart, CycleStart, 0)
            /\ disconnectAge' = DownFor
            /\ UNCHANGED currentNetworkIndex
       ELSE /\ FinishWifiReconnectCycle
            /\ currentNetworkIndex' = NONE
            /\ UNCHANGED <<target, radio>>

LinkDown ==
    /\ radio = NONE
    /\ cachedWifiConnected' = FALSE
    /\ udpServersStarted' = FALSE /\ sockets' = StopUdpServers
    /\ connectedAge' = NONE /\ udpStartAge' = NONE
    /\ AttemptPending \/ AttemptTimedOut
         \/ AwaitReconnectDelay \/ BeginWifiReconnectCycle
    /\ UNCHANGED <<up, faults>>

CheckWiFiStatus ==
    /\ checkAge >= WIFI_CHECK_INTERVAL_MS
    /\ checkAge' = 0
    /\ LinkUp \/ LinkDown

-----------------------------------------------------------------------------
(* Environment. *)

Older(s) == IF s = NONE \/ s = AgeMax THEN s ELSE s + 1

Elapse ==
    /\ checkAge' = Older(checkAge)
    /\ disconnectAge' = Older(disconnectAge)
    /\ connectedAge' = Older(connectedAge)
    /\ udpStartAge' = Older(udpStartAge)
    /\ attempt' = IF attempt.active
                  THEN [attempt EXCEPT !.age = Older(@)] ELSE attempt
    /\ UNCHANGED <<cachedWifiConnected, currentNetworkIndex, cycle,
                   reconnectInProgress, reconnectAttemptCount, order,
                   udpServersStarted, sockets, air, faults>>

\* The radio joins the network it was last told to join, at once or later.
Associate ==
    /\ radio = NONE /\ target \in up
    /\ radio' = target
    /\ UNCHANGED <<checkAge, cachedWifiConnected, scan, servers, target, up,
                   faults>>

\* It loses a network that went away; losing one in range is a disturbance.
LinkDrops ==
    /\ radio # NONE
    /\ IF radio \in up
       THEN faults < MaxFaults /\ faults' = faults + 1
       ELSE UNCHANGED faults
    /\ radio' = NONE
    /\ UNCHANGED <<checkAge, cachedWifiConnected, scan, servers, target, up>>

NetworksChange ==
    /\ faults < MaxFaults
    /\ faults' = faults + 1
    /\ up' \in SUBSET Configured \ {up}
    /\ UNCHANGED <<checkAge, cachedWifiConnected, scan, servers, target, radio>>

Environment == Elapse \/ Associate \/ LinkDrops \/ NetworksChange

-----------------------------------------------------------------------------
\* The state setup() leaves: the first attempt is under way.
Init ==
    /\ checkAge = AgeMax
    /\ cachedWifiConnected = FALSE
    /\ currentNetworkIndex = NONE
    /\ LET first == FindFirstConfiguredWifiNetwork IN
       IF Configured = {}
       THEN /\ attempt = NoAttempt /\ cycle = NoCycle /\ order = << >>
            /\ reconnectInProgress = FALSE
            /\ disconnectAge = NONE
       ELSE /\ attempt = [active |-> TRUE, age |-> 0, index |-> first]
            /\ cycle = [start |-> first, tried |-> 0] /\ order = <<first>>
            /\ reconnectInProgress = TRUE
            /\ disconnectAge = 0
    /\ reconnectAttemptCount = 0
    /\ connectedAge = NONE /\ udpStartAge = NONE
    /\ udpServersStarted = FALSE /\ sockets = {}
    /\ target = attempt.index /\ radio = NONE
    /\ up \in SUBSET Configured
    /\ faults = 0

Next == CheckWiFiStatus \/ SendFails \/ Environment

Spec == Init /\ [][Next]_vars

\* The loop keeps calling checkWiFiStatus and time passes.  WiFi.begin()
\* blocks until the network is joined or the attempt times out, so a network
\* in range that is asked for again and again is joined in the end.
FairSpec ==
    /\ Spec
    /\ WF_vars(Elapse) /\ WF_vars(CheckWiFiStatus)
    /\ SF_vars(Associate) /\ WF_vars(LinkDrops /\ radio \notin up)

-----------------------------------------------------------------------------
(* Properties. *)

\* Both sockets are open or both closed, and the flag the rest of the loop
\* reads says which (the comment at .ino:1281 explains why a half-open pair
\* could never be repaired).  They are open only while the last check saw the
\* link up.
NoHalfOpenSockets ==
    /\ sockets = IF udpServersStarted THEN Socket ELSE {}
    /\ udpServersStarted => cachedWifiConnected

\* Once the sockets are up, the network the code believes it is on, where the
\* next scan will start, is the one the radio joined.
KnowsItsNetwork ==
    udpServersStarted /\ radio # NONE => currentNetworkIndex = radio

\* A scan that gives up has tried every configured network exactly once,
\* wherever in the table it started.
ScanIsComplete ==
    [][ reconnectInProgress /\ ~reconnectInProgress' /\ ~cachedWifiConnected'
        => /\ {order[i] : i \in DOMAIN order} = Configured
           /\ Len(order) = Cardinality(Configured) ]_vars

\* When the disturbances are over and some network is in range, the firmware
\* ends up with its sockets open and keeps them: no combination of lost links,
\* half-opened sockets and failed sends leaves it without a way back.
LinkComesBack == <>[](up # {}) => <>[]udpServersStarted

=============================================================================
