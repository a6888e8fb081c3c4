------------------------- MODULE ThrusterControl -------------------------
(***************************************************************************)
(* The control loop of the Arduino firmware, Arduino/thruster_and_speed.ino: *)
(* one iteration of loop() reads the RC receiver, runs the WiFi state      *)
(* machine, reads one command packet and one heartbeat packet, decides who *)
(* drives the two ESCs (determineControlMode), writes the ESC pulses       *)
(* (updateThrusters) and sends at most one telemetry packet.               *)
(*                                                                         *)
(* Time.  The code stores millis() in unsigned longs and compares          *)
(* now - stamp with a timeout.  A stamp is represented here by that        *)
(* difference, its age.  Elapse makes every age one unit older; with       *)
(* Wraps = FALSE the ages stop at AgeMax (no comparison of the code tells  *)
(* larger ages apart), with Wraps = TRUE they return to 0 after AgeMax,    *)
(* which is the unsigned subtraction of a 32-bit millis() when             *)
(* AgeMax = 2^32 - 1.  Elapse may happen up to MaxIteration times in an    *)
(* iteration: WiFi.begin() alone blocks one for about ten seconds, longer  *)
(* than every timeout.                                                     *)
(*                                                                         *)
(* Environment: the packets the sockets deliver, the state checkWiFiStatus *)
(* leaves the sockets in (module WifiLink), and the level the RC pipeline  *)
(* computes while its channel is alive (module RcChannel).                 *)
(***************************************************************************)
EXTENDS Integers

CONSTANTS
    Side,                       \* the two ESC channels, {"L", "R"}
    ESC_MIN, ESC_MID, ESC_MAX,  \* pulse range and neutral pulse
    WIFI_MAX_STEP_US,           \* ramp limit of one WiFi command
    DECAY_STEP_US,              \* decay of one iteration in the grace period
    ESC_NEUTRAL_SNAP_US,        \* outputs this close to neutral are neutral
    UDP_TIMEOUT_MS, WIFI_GRACE_MS, JETSON_ONLINE_TIMEOUT_MS,
    MIN_CMD_INTERVAL_MS,        \* C commands closer than this are dropped
    RC_FAILSAFE_MS,
    SETUP_MS,                   \* uptime when loop() first runs
    AgeMax, Wraps,              \* representation of millis() stamps, above
    MaxIteration,               \* longest iteration of loop()
    RawCommands,                \* pulses a C command may carry, per side
    RcLevels                    \* outputs of the RC pipeline

ASSUME PulseAssumption ==
    /\ ESC_MIN \in Int /\ ESC_MID \in Int /\ ESC_MAX \in Int
    /\ ESC_MIN < ESC_MID /\ ESC_MID < ESC_MAX
    /\ DECAY_STEP_US \in Nat /\ ESC_NEUTRAL_SNAP_US \in Nat
    /\ DECAY_STEP_US <= ESC_NEUTRAL_SNAP_US
    /\ ESC_MIN <= ESC_MID - ESC_NEUTRAL_SNAP_US
    /\ ESC_MID + ESC_NEUTRAL_SNAP_US <= ESC_MAX
    /\ WIFI_MAX_STEP_US \in Nat
    /\ RawCommands \subseteq Int
    /\ RcLevels \subseteq ESC_MIN .. ESC_MAX

ASSUME TimeAssumption ==
    /\ UDP_TIMEOUT_MS \in Nat /\ WIFI_GRACE_MS \in Nat
    /\ JETSON_ONLINE_TIMEOUT_MS \in Nat
    /\ MIN_CMD_INTERVAL_MS \in Nat \ {0}
    /\ RC_FAILSAFE_MS \in Nat
    /\ AgeMax \in Nat /\ Wraps \in BOOLEAN
    /\ UDP_TIMEOUT_MS + WIFI_GRACE_MS + 1 < AgeMax
    /\ JETSON_ONLINE_TIMEOUT_MS < AgeMax
    /\ MaxIteration \in 1 .. AgeMax - 1
    /\ SETUP_MS \in 0 .. AgeMax
    /\ RC_FAILSAFE_MS < SETUP_MS

VARIABLES
    stage,              \* what loop() does next
    loopAge,            \* age of loop()'s local `now`
    udpServersStarted,
    everPinged,         \* lastJetsonPingMs > 0
    pingAge,            \* age of lastJetsonPingMs
    haveWifiCmd,
    cmdAge,             \* age of lastWifiCmdMs and lastWifiCommandSentMs,
                        \* stamped around one sscanf: one instant here
    wifiOut,            \* wifiOutL/R; wifiAvgL/R always equals it
    rcAge,              \* age of lastRcUpdateL/R
    rcOut,              \* rcOutL/R
    currentMode,        \* 0 = RC, 1 = WiFi
    current             \* currentLeftUs, currentRightUs: the ESC pulses

vars == <<stage, loopAge, udpServersStarted, everPinged, pingAge, haveWifiCmd,
          cmdAge, wifiOut, rcAge, rcOut, currentMode, current>>

Stage == {"rc", "wifi", "udp", "ping", "control", "send"}
Pulse == ESC_MIN .. ESC_MAX
Age   == 0 .. AgeMax

\* The ages, the link state and the values each action may leave alone.
clocks  == <<loopAge, pingAge, cmdAge, rcAge>>
jetson  == <<everPinged, haveWifiCmd, wifiOut>>
outputs == <<currentMode, current>>

TypeOK ==
    /\ stage \in Stage
    /\ loopAge \in 0 .. MaxIteration
    /\ udpServersStarted \in BOOLEAN
    /\ everPinged \in BOOLEAN
    /\ pingAge \in Age
    /\ haveWifiCmd \in BOOLEAN
    /\ cmdAge \in Age
    /\ wifiOut \in [Side -> Pulse]
    /\ rcAge \in [Side -> Age]
    /\ rcOut \in [Side -> Pulse]
    /\ currentMode \in {0, 1}
    /\ current \in [Side -> Pulse]

-----------------------------------------------------------------------------
(* Arithmetic of the pulses. *)

Mutant_Constrain(x, lo, hi) == x

Constrain(x, lo, hi) == IF x < lo THEN lo ELSE IF x > hi THEN hi ELSE x

Mutant_StepLimit(from, target) == target

\* One filtered and ramp-limited step from `from` to `target`; the WiFi
\* filter coefficient is 100 %, so only the ramp limit is left of it.
StepLimit(from, target) ==
    from + Constrain(target - from, -WIFI_MAX_STEP_US, WIFI_MAX_STEP_US)

Mutant_Decay(p) == p - DECAY_STEP_US

\* One iteration of the soft decay toward neutral.
Decay(p) ==
    IF p > ESC_MID THEN p - DECAY_STEP_US
    ELSE IF p < ESC_MID THEN p + DECAY_STEP_US
    ELSE p

SnapEscToNeutral(p) ==
    IF p - ESC_MID <= ESC_NEUTRAL_SNAP_US /\ ESC_MID - p <= ESC_NEUTRAL_SNAP_US
    THEN ESC_MID
    ELSE Constrain(p, ESC_MIN, ESC_MAX)

-----------------------------------------------------------------------------
(* The tests of the code on its stamps. *)

IsJetsonOnline == everPinged /\ pingAge < JETSON_ONLINE_TIMEOUT_MS

Mutant_UdpActive == haveWifiCmd

UdpActive == haveWifiCmd /\ cmdAge < UDP_TIMEOUT_MS

\* Not active, and the command is younger than timeout + grace.
InGrace ==
    /\ haveWifiCmd
    /\ ~UdpActive
    /\ cmdAge <= UDP_TIMEOUT_MS + WIFI_GRACE_MS

-----------------------------------------------------------------------------

\* setup() holds both ESCs at neutral before the first iteration.
Init ==
    /\ stage = "rc"
    /\ loopAge = 0
    /\ udpServersStarted = FALSE
    /\ everPinged = FALSE
    /\ pingAge = SETUP_MS
    /\ haveWifiCmd = FALSE
    /\ cmdAge = SETUP_MS
    /\ wifiOut = [s \in Side |-> ESC_MID]
    /\ rcAge = [s \in Side |-> SETUP_MS]
    /\ rcOut = [s \in Side |-> ESC_MID]
    /\ currentMode = 0
    /\ current = [s \in Side |-> ESC_MID]

Older(a) == IF a < AgeMax THEN a + 1 ELSE IF Wraps THEN 0 ELSE a

\* millis() advances while the loop is in a call that can block: the RC and
\* sensor reads, the WiFi modem, the sockets.  determineControlMode and
\* updateThrusters follow the last packet read at once.
Elapse ==
    /\ stage # "control"
    /\ loopAge < MaxIteration
    /\ loopAge' = loopAge + 1
    /\ pingAge' = Older(pingAge)
    /\ cmdAge' = Older(cmdAge)
    /\ rcAge' = [s \in Side |-> Older(rcAge[s])]
    /\ UNCHANGED <<stage, udpServersStarted, jetson, rcOut, outputs>>

Mutant_RcLevel(s, level, age) == level

\* rcOut after one run of the pipeline: neutral once the channel is silent
\* for longer than the failsafe time.
RcLevel(s, level, age) == IF age > RC_FAILSAFE_MS THEN ESC_MID ELSE level

\* Stage 1 of loop(): readRcInputs.  A fresh, valid pulse refreshes the
\* stamp of its channel; otherwise the filter falls back toward neutral.
ReadRcInputs ==
    /\ stage = "rc"
    /\ loopAge' = 0
    /\ \E fresh \in [Side -> BOOLEAN], level \in [Side -> RcLevels] :
          /\ rcAge' = [s \in Side |-> IF fresh[s] THEN 0 ELSE rcAge[s]]
          /\ rcOut' = [s \in Side |-> RcLevel(s, level[s], rcAge'[s])]
    /\ stage' = "wifi"
    /\ UNCHANGED <<udpServersStarted, pingAge, cmdAge, jetson, outputs>>

\* Stage 2: checkWiFiStatus opens the sockets, closes them or leaves them.
\* The packets are read only while they are open.
CheckWiFiStatus ==
    /\ stage = "wifi"
    /\ udpServersStarted' \in BOOLEAN
    /\ stage' = IF udpServersStarted' THEN "udp" ELSE "control"
    /\ UNCHANGED <<clocks, jetson, rcOut, outputs>>

\* Stage 4: readUdpCommands, when no packet waits or it holds no complete
\* well-formed C command.
NoUdpCommand ==
    /\ stage = "udp"
    /\ stage' = "ping"
    /\ UNCHANGED <<clocks, udpServersStarted, jetson, rcOut, outputs>>

\* A C command that comes too soon after the last accepted one is dropped.
\* No time passes inside a packet, so of the commands of one packet only the
\* first can be accepted.
DropUdpCommand ==
    /\ stage = "udp"
    /\ cmdAge < MIN_CMD_INTERVAL_MS
    /\ stage' = "ping"
    /\ UNCHANGED <<clocks, udpServersStarted, jetson, rcOut, outputs>>

Mutant_AcceptUdpCommand(cmd) ==
    /\ stage = "udp"
    /\ cmdAge >= MIN_CMD_INTERVAL_MS
    /\ wifiOut' = [s \in Side |->
                     StepLimit(wifiOut[s], Constrain(cmd[s], ESC_MIN, ESC_MAX))]
    /\ haveWifiCmd' = TRUE
    /\ cmdAge' = 0
    /\ stage' = "ping"
    /\ UNCHANGED <<loopAge, udpServersStarted, everPinged, pingAge, rcAge,
                   rcOut, outputs>>

Mutant_UnmarkedUdpCommand(cmd) ==
    /\ stage = "udp"
    /\ cmdAge >= MIN_CMD_INTERVAL_MS
    /\ wifiOut' = [s \in Side |->
                     StepLimit(wifiOut[s], Constrain(cmd[s], ESC_MIN, ESC_MAX))]
    /\ everPinged' = TRUE
    /\ cmdAge' = 0
    /\ pingAge' = 0
    /\ stage' = "ping"
    /\ UNCHANGED <<loopAge, udpServersStarted, haveWifiCmd, rcAge, rcOut,
                   outputs>>

\* An accepted C command: constrained, ramp-limited from the previous WiFi
\* output, and stamped; a command also counts as a sign of life.
AcceptUdpCommand(cmd) ==
    /\ stage = "udp"
    /\ cmdAge >= MIN_CMD_INTERVAL_MS
    /\ wifiOut' = [s \in Side |->
                     StepLimit(wifiOut[s], Constrain(cmd[s], ESC_MIN, ESC_MAX))]
    /\ haveWifiCmd' = TRUE
    /\ everPinged' = TRUE
    /\ cmdAge' = 0
    /\ pingAge' = 0
    /\ stage' = "ping"
    /\ UNCHANGED <<loopAge, udpServersStarted, rcAge, rcOut, outputs>>

ReadUdpCommands ==
    \/ NoUdpCommand
    \/ DropUdpCommand
    \/ \E cmd \in [Side -> RawCommands] : AcceptUdpCommand(cmd)

\* readHeartbeatPing: a PING (or P) of another host refreshes the stamp,
\* anything else, the node's own broadcast included, does not.
ReadHeartbeatPing ==
    /\ stage = "ping"
    /\ \/ /\ everPinged' = TRUE
          /\ pingAge' = 0
       \/ UNCHANGED <<everPinged, pingAge>>
    /\ stage' = "control"
    /\ UNCHANGED <<loopAge, udpServersStarted, haveWifiCmd, cmdAge, wifiOut,
                   rcAge, rcOut, outputs>>

-----------------------------------------------------------------------------
(* Stages 6 and 7: determineControlMode, then updateThrusters. *)

UpdateThrusters(pulse) ==
    current' = [s \in Side |-> SnapEscToNeutral(pulse[s])]

\* The Jetson is silent: RC drives, the WiFi state follows it and the last
\* command is forgotten.
JetsonOffline ==
    /\ ~IsJetsonOnline
    /\ currentMode' = 0
    /\ UpdateThrusters(rcOut)
    /\ wifiOut' = rcOut
    /\ haveWifiCmd' = FALSE

\* A recent command: WiFi drives.
WifiDrives ==
    /\ IsJetsonOnline
    /\ UdpActive
    /\ currentMode' = 1
    /\ UpdateThrusters(wifiOut)
    /\ UNCHANGED <<wifiOut, haveWifiCmd>>

\* The command timed out but the grace period runs: decay toward neutral.
GraceDecay ==
    /\ IsJetsonOnline
    /\ InGrace
    /\ currentMode' = 1
    /\ wifiOut' = [s \in Side |-> Decay(wifiOut[s])]
    /\ UpdateThrusters(wifiOut')
    /\ UNCHANGED haveWifiCmd

\* No command, or one older than timeout + grace: RC drives.
RcFallback ==
    /\ IsJetsonOnline
    /\ ~UdpActive
    /\ ~InGrace
    /\ currentMode' = 0
    /\ UpdateThrusters(rcOut)
    /\ UNCHANGED <<wifiOut, haveWifiCmd>>

ControlOutputs ==
    /\ stage = "control"
    /\ JetsonOffline \/ WifiDrives \/ GraceDecay \/ RcFallback
    /\ stage' = "send"
    /\ UNCHANGED <<clocks, udpServersStarted, everPinged, rcOut>>

\* Stages 8 to 12: telemetry.  A failed send stops the sockets.
SendTelemetry ==
    /\ stage = "send"
    /\ udpServersStarted' \in {udpServersStarted, FALSE}
    /\ stage' = "rc"
    /\ UNCHANGED <<clocks, jetson, rcOut, outputs>>

LoopStep ==
    \/ ReadRcInputs
    \/ CheckWiFiStatus
    \/ ReadUdpCommands
    \/ ReadHeartbeatPing
    \/ ControlOutputs
    \/ SendTelemetry

Next == Elapse \/ LoopStep

Spec == Init /\ [][Next]_vars

\* loop() is called for ever, and every iteration takes time.
FairSpec == Spec /\ WF_vars(LoopStep) /\ SF_vars(Elapse)

-----------------------------------------------------------------------------
(* Properties. *)

\* The ESCs are driven away from neutral only on behalf of a live source: a
\* C command no older than timeout + grace, or an RC channel that was alive
\* when this iteration read it.  (README: neutral failsafe if both are
\* unavailable.)
ThrustHasSource ==
    [][ControlOutputs =>
         \A s \in Side :
            current'[s] # ESC_MID =>
               \/ haveWifiCmd' /\ cmdAge <= UDP_TIMEOUT_MS + WIFI_GRACE_MS
               \/ rcAge[s] <= RC_FAILSAFE_MS + loopAge]_vars

\* A failsafe that takes a bounded time, at every instant and not only when the
\* ESCs are written: thrust outlives the last command by the timeout and the
\* grace, and the last RC reading that was accepted as fresh by the failsafe
\* time, and by the rest of one iteration of loop() and the whole of the next,
\* in which the pulse stays as it was written.  (The receiver's last pulse may
\* be another failsafe time older than that reading: see RcChannel.)
ThrustEnds ==
    \A s \in Side : current[s] # ESC_MID =>
        \/ cmdAge <= UDP_TIMEOUT_MS + WIFI_GRACE_MS + 2 * MaxIteration
        \/ rcAge[s] <= RC_FAILSAFE_MS + 2 * MaxIteration

\* Once RC drives, WiFi regains control only through a command accepted in
\* this very iteration: a PING that arrives after a silence never revives an
\* old command.
RegrantOnlyByCommand ==
    [][ControlOutputs /\ currentMode = 0 /\ currentMode' = 1
         => haveWifiCmd /\ cmdAge <= loopAge]_vars

Between(a, x, b) == (a <= x /\ x <= b) \/ (b <= x /\ x <= a)

\* While WiFi drives without a fresh command, each iteration brings every ESC
\* nearer to neutral and never through it to the other direction of thrust.
GraceOnlySlows ==
    [][ControlOutputs /\ currentMode = 1 /\ currentMode' = 1
         /\ cmdAge >= UDP_TIMEOUT_MS /\ cmdAge > loopAge
         => \A s \in Side : Between(ESC_MID, current'[s], current[s])]_vars

Near(x, y, d) == x - y <= d /\ y - x <= d

\* While WiFi keeps driving, no iteration moves an ESC by more than the ramp
\* limit (and the snap to neutral).
WifiSlewLimited ==
    [][ControlOutputs /\ currentMode = 1 /\ currentMode' = 1
         => \A s \in Side : Near(current'[s], current[s],
                                 WIFI_MAX_STEP_US + ESC_NEUTRAL_SNAP_US)]_vars

\* The Jetson's last sign of life is never older than the command in force,
\* so a command outlives the link by nothing.
CommandImpliesPing == haveWifiCmd => everPinged /\ pingAge <= cmdAge

AcceptedCommand == \E cmd \in [Side -> RawCommands] : AcceptUdpCommand(cmd)
RcPulse == stage = "rc" /\ stage' = "wifi" /\ \E s \in Side : rcAge'[s] = 0

\* When commands and accepted RC readings have ceased for good, the ESCs end at neutral
\* and stay there, even if the PINGs go on.
SilenceStops ==
    <>[][~AcceptedCommand /\ ~RcPulse]_vars
        => <>[](\A s \in Side : current[s] = ESC_MID)

\* What an iteration decides is what the abstract module allows: the holder
\* of control changes only for a command that is new or over, and thrust is
\* never without one that asks for it, although loop() works in stages between
\* which packets arrive and time passes, and remembers outputs of its own.
Authority ==
    INSTANCE ControlAuthority WITH
        Neutral <- ESC_MID,
        CommandLife <- UDP_TIMEOUT_MS, GraceLife <- WIFI_GRACE_MS,
        LinkLife <- JETSON_ONLINE_TIMEOUT_MS, StickLife <- RC_FAILSAFE_MS,
        MaxSlew <- WIFI_MAX_STEP_US + ESC_NEUTRAL_SNAP_US,
        deciding <- stage = "control",
        driver <- IF currentMode = 1 THEN "wifi" ELSE "rc",
        thrust <- current,
        commanded <- haveWifiCmd, commandAge <- cmdAge,
        recent <- cmdAge <= loopAge,
        stick <- rcOut, silence <- rcAge

ControlIsGranted == Authority!Spec

-----------------------------------------------------------------------------
(* A claim of a document that the code does not keep. *)

\* README: "Neutral failsafe (if both unavailable)", judged when the ESCs are
\* written.
FailsafeWhenWritten ==
    [][ControlOutputs =>
         \A s \in Side :
            current'[s] # ESC_MID =>
               \/ haveWifiCmd' /\ cmdAge <= UDP_TIMEOUT_MS + WIFI_GRACE_MS
               \/ rcAge[s] <= RC_FAILSAFE_MS]_vars
=============================================================================
