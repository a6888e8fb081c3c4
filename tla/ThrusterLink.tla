--------------------------- MODULE ThrusterLink ---------------------------
(***************************************************************************)
(* The command path from the ROS 2 node to the ESCs: CommandSender, the    *)
(* UDP packets in flight, and the control loop of the firmware             *)
(* (ThrusterControl).  The environment of ThrusterControl is now concrete: *)
(* the packets it reads are those the node sent and the network did not    *)
(* lose.                                                                   *)
(*                                                                         *)
(* A packet is lost, or waits in the Arduino's socket until the loop reads *)
(* it, one packet of each kind per iteration; packets may overtake each    *)
(* other, and of equal packets that wait together all but one are lost.    *)
(* Packets to closed sockets are lost, and closing the sockets loses the   *)
(* ones that wait.                                                         *)
(***************************************************************************)
EXTENDS ThrusterControl

CONSTANTS
    NONE, RECONNECT_DELAY, MAX_RECONNECT_DELAY, BACKOFF_EXPONENT_MAX,
    STOP_SUPPRESSION,
    ThrustAgeMax    \* bound: above every age compared

VARIABLES
    up, bound, failures, retryIn, lastSent, lastWasStop, stopAge,
    commands,       \* the command packets waiting at port 8888
    pingWaits,      \* a PING waits at port 8889
    onWire,         \* history: the last command any process of the node sent
    thrustAge       \* history: time since a packet that asks for thrust was
                    \* sent or on its way

Commands == [Side -> RawCommands]
STOP     == [s \in Side |-> ESC_MID]

Node == INSTANCE CommandSender

ASSUME LinkAssumption ==
    /\ Node!SenderAssumption
    /\ ThrustAgeMax \in Nat

\* One WiFi command reaches neutral from anywhere (500 and 400 in the code).
ASSUME RampAssumption ==
    /\ WIFI_MAX_STEP_US >= ESC_MAX - ESC_MID
    /\ WIFI_MAX_STEP_US >= ESC_MID - ESC_MIN

nodeVars == <<up, bound, failures, retryIn, lastSent, lastWasStop, stopAge>>
network  == <<commands, pingWaits>>
history  == <<onWire, thrustAge>>
linkVars == <<vars, nodeVars, network, history>>

LinkInit ==
    /\ Init
    /\ Node!Init
    /\ commands = {}
    /\ pingWaits = FALSE
    /\ onWire = NONE
    /\ thrustAge = ThrustAgeMax

-----------------------------------------------------------------------------
(* The node and the network. *)

\* A packet reaches the open socket of the Arduino.
Arrives(cmd) ==
    /\ udpServersStarted
    /\ commands' = commands \cup {cmd}

Lost == UNCHANGED commands

\* The sender's thread has put a command on the wire.
Transmitted(cmd) ==
    /\ Arrives(cmd) \/ Lost
    /\ onWire' = cmd
    /\ thrustAge' = IF cmd = STOP THEN thrustAge ELSE 0
    /\ UNCHANGED <<vars, pingWaits>>

Transmit(cmd) == Node!CommandSent(cmd) /\ Transmitted(cmd)

\* A command that does not leave the node.
Withheld(cmd) ==
    /\ Node!CommandDropped \/ Node!StopSuppressed(cmd) \/ Node!SendFailed(cmd)
    /\ UNCHANGED <<vars, network, history>>

HandleCommand(cmd) == Transmit(cmd) \/ Withheld(cmd)

Ping ==
    /\ Node!PingSent
    /\ pingWaits' \in {pingWaits, udpServersStarted}
    /\ UNCHANGED <<vars, commands, history>>

Bind ==
    /\ Node!AttemptConnect
    /\ UNCHANGED <<vars, network, history>>

\* The node shuts down, with a last stop if its sockets are bound.
NodeShutsDown ==
    /\ Node!Ends
    /\ (bound /\ Arrives(STOP)) \/ Lost
    /\ onWire' = IF bound THEN STOP ELSE onWire
    /\ UNCHANGED <<vars, pingWaits, thrustAge>>

NodeCrashes ==
    /\ Node!Ends
    /\ UNCHANGED <<vars, network, history>>

NodeStarts ==
    /\ Node!Starts
    /\ UNCHANGED <<vars, network, history>>

-----------------------------------------------------------------------------
(* The Arduino. *)

\* Time passes for both ends.
LinkElapse ==
    /\ Elapse
    /\ Node!Elapse
    /\ thrustAge' = IF commands \ {STOP} # {} THEN 0
                    ELSE IF thrustAge < ThrustAgeMax THEN thrustAge + 1
                    ELSE thrustAge
    /\ UNCHANGED <<network, onWire>>

ReadCommand ==
    /\ \/ /\ commands = {}
          /\ NoUdpCommand
          /\ UNCHANGED commands
       \/ \E cmd \in commands :
             /\ DropUdpCommand \/ AcceptUdpCommand(cmd)
             /\ commands' = commands \ {cmd}
    /\ UNCHANGED <<nodeVars, pingWaits, history>>

ReadPing ==
    /\ ReadHeartbeatPing
    /\ pingAge' = IF pingWaits THEN 0 ELSE pingAge
    /\ everPinged' = (everPinged \/ pingWaits)
    /\ pingWaits' = FALSE
    /\ UNCHANGED <<nodeVars, commands, history>>

\* The RC transmitter is off, so that all thrust is the node's doing.
RcSilent == ReadRcInputs /\ rcAge' = rcAge

\* The iteration's other steps.  Some close the sockets.
OtherStep ==
    /\ RcSilent \/ CheckWiFiStatus \/ ControlOutputs \/ SendTelemetry
    /\ commands' = IF udpServersStarted' THEN commands ELSE {}
    /\ pingWaits' = (pingWaits /\ udpServersStarted')
    /\ UNCHANGED <<nodeVars, history>>

LinkLoopStep == ReadCommand \/ ReadPing \/ OtherStep

LinkNext ==
    \/ \E cmd \in Commands : HandleCommand(cmd)
    \/ Ping \/ Bind
    \/ NodeShutsDown \/ NodeCrashes \/ NodeStarts
    \/ LinkElapse \/ LinkLoopStep

LinkSpec == LinkInit /\ [][LinkNext]_linkVars

\* The loop of the firmware runs and time passes.
LinkFairSpec == LinkSpec /\ WF_linkVars(LinkLoopStep) /\ SF_linkVars(LinkElapse)

-----------------------------------------------------------------------------
(* Properties. *)

LinkTypeOK ==
    /\ TypeOK
    /\ Node!TypeOK
    /\ commands \in SUBSET Commands
    /\ pingWaits \in BOOLEAN
    /\ onWire \in Commands \cup {NONE}
    /\ thrustAge \in 0 .. ThrustAgeMax

\* What the node remembers having sent last is what it sent last, also after
\* sends that failed, lost connections and restarts: a stop is left out only
\* when no packet that asks for thrust went out since the last stop.
SuppressionFollowsWire ==
    [][\A cmd \in Commands : Node!StopSuppressed(cmd) => onWire = STOP]_linkVars

\* A packet waits out the iteration in progress, is in force until timeout
\* and grace are over, and then the next iteration has to reach its outputs.
ThrustHorizon == UDP_TIMEOUT_MS + WIFI_GRACE_MS + 2 * MaxIteration

\* However packets are lost or overtake each other, stops are left out, or the
\* node crashes: an ESC is driven only on behalf of a request for thrust that
\* was under way at most the horizon ago.
ThrustNeedsRequest ==
    currentMode = 1 /\ (\E s \in Side : current[s] # ESC_MID)
        => thrustAge <= ThrustHorizon

\* From some time on the sockets stay open, the node sends nothing but cmd,
\* and again and again such a packet arrives.
KeepsAsking(cmd) ==
    /\ <>[]udpServersStarted
    /\ <>[][~Node!Ends /\ \A c \in Commands : Transmit(c) => c = cmd]_linkVars
    /\ []<><<Transmit(cmd) /\ cmd \in commands'>>_linkVars

\* A command that is repeated is obeyed in spite of losses and of the rate
\* limit.
CommandArrives ==
    \A cmd \in Commands :
        KeepsAsking(cmd) => []<>(currentMode = 1 /\ current = cmd)

-----------------------------------------------------------------------------
(* A claim of a log message that the code does not keep. *)

\* "Thruster already in stop state, command suppressed": when a stop is left
\* out and no packet is on its way, no thrust command is in force.
SuppressedMeansStopped ==
    [][Node!StopSuppressed(STOP) /\ commands = {}
         => ~haveWifiCmd \/ wifiOut = STOP]_linkVars
=============================================================================
