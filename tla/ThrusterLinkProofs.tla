------------------------ MODULE ThrusterLinkProofs ------------------------
(***************************************************************************)
(* Theorems about ThrusterLink.  The firmware inside the composition is    *)
(* ThrusterControl, so the theorems about it hold of the composition; what *)
(* the node remembers having sent is what it sent; and no thrust without a *)
(* recent request for it, for every loss pattern, every timeout and every  *)
(* set of channels.  Where time is compared, Wraps = FALSE is assumed.     *)
(***************************************************************************)
EXTENDS ThrusterLink, ThrusterControlProofs

\* Only packets that the node can send wait at the Arduino.
CommandsTyped == commands \subseteq Commands

\* What the node remembers of its last packet is true of the wire.
SentOnWire ==
    /\ lastSent = STOP => onWire = STOP
    /\ lastWasStop => lastSent = STOP

\* The RC transmitter stays silent.
RcOff == \A s \in Side : rcAge[s] > RC_FAILSAFE_MS /\ rcOut[s] = ESC_MID

\* A waiting request for thrust counts as being made now.
WaitingIsRecent == commands \ {STOP} # {} => thrustAge = 0

\* The WiFi output is off neutral only after a request as old as the command.
WifiOutputRequested == wifiOut # STOP /\ cmdAge < AgeMax => thrustAge <= cmdAge

\* Age of the request behind the ESC pulses at each stage of an iteration.
PulseRequested ==
    currentMode = 1 /\ (\E s \in Side : current[s] # ESC_MID) =>
        thrustAge <= UDP_TIMEOUT_MS + WIFI_GRACE_MS + loopAge
                       + (IF stage \in {"send", "rc"} THEN 0 ELSE MaxIteration)

RequestInv ==
    /\ RcOff
    /\ thrustAge \in 0 .. ThrustAgeMax
    /\ WaitingIsRecent
    /\ WifiOutputRequested
    /\ PulseRequested

-----------------------------------------------------------------------------
(* The composition implements the control loop. *)

\* A stop is a command, and no command is "none".
LEMMA StopIsCommand == STOP \in Commands /\ NONE # STOP
BY LinkAssumption DEF Node!SenderAssumption

\* The steps of the node and the network leave the firmware alone.
NodeStep ==
    \/ \E cmd \in Commands : HandleCommand(cmd)
    \/ Ping \/ Bind \/ NodeShutsDown \/ NodeCrashes \/ NodeStarts

\* What the node and the network do leaves the firmware's state alone.
LEMMA NodeStepKeepsFirmware ==
    ASSUME NodeStep \/ UNCHANGED linkVars
    PROVE  UNCHANGED vars
BY DEF NodeStep, HandleCommand, Transmit, Transmitted, Withheld, Ping, Bind,
   NodeShutsDown, NodeCrashes, NodeStarts, linkVars

\* What is under way to the firmware is a command.
LEMMA CommandsTypedAlways == LinkSpec => []CommandsTyped
<1>1. LinkInit => CommandsTyped
  BY DEF LinkInit, CommandsTyped
<1>2. ASSUME CommandsTyped, [LinkNext]_linkVars PROVE CommandsTyped'
  <2> USE <1>2 DEF CommandsTyped
  <2>1. ASSUME NEW cmd \in Commands, HandleCommand(cmd) PROVE CommandsTyped'
    BY <2>1 DEF HandleCommand, Transmit, Transmitted, Arrives, Lost, Withheld,
       network
  <2>2. CASE NodeShutsDown
    BY <2>2, StopIsCommand DEF NodeShutsDown, Arrives, Lost
  <2>3. CASE ReadCommand
    BY <2>3 DEF ReadCommand
  <2>4. CASE OtherStep
    BY <2>4 DEF OtherStep
  <2>5. CASE \/ Ping \/ Bind \/ NodeCrashes \/ NodeStarts \/ LinkElapse
             \/ ReadPing \/ UNCHANGED linkVars
    BY <2>5 DEF Ping, Bind, NodeCrashes, NodeStarts, LinkElapse, ReadPing,
       network, linkVars
  <2>6. QED
    BY <2>1, <2>2, <2>3, <2>4, <2>5 DEF LinkNext, LinkLoopStep
<1>3. QED
  BY <1>1, <1>2, PTL DEF LinkSpec

\* Every step of the composition is one of the control loop, or leaves it alone.
LEMMA StepImplements ==
    ASSUME CommandsTyped, [LinkNext]_linkVars
    PROVE  [Next]_vars
<1>1. CASE NodeStep \/ UNCHANGED linkVars
  BY <1>1, NodeStepKeepsFirmware
<1>2. CASE LinkElapse
  BY <1>2 DEF LinkElapse, Next
<1>3. CASE ReadCommand
  <2>1. CASE NoUdpCommand \/ DropUdpCommand
    BY <2>1 DEF Next, LoopStep, ReadUdpCommands
  <2>2. ASSUME NEW cmd \in commands, AcceptUdpCommand(cmd) PROVE Next
    <3>1. cmd \in [Side -> RawCommands]
      BY <2>2 DEF CommandsTyped, Commands
    <3>2. QED
      BY <2>2, <3>1 DEF Next, LoopStep, ReadUdpCommands
  <2>3. QED
    BY <1>3, <2>1, <2>2 DEF ReadCommand
<1>4. CASE ReadPing
  BY <1>4 DEF ReadPing, Next, LoopStep
<1>5. CASE OtherStep
  BY <1>5 DEF OtherStep, RcSilent, Next, LoopStep
<1>6. QED
  BY <1>1, <1>2, <1>3, <1>4, <1>5 DEF NodeStep, LinkNext, LinkLoopStep

\* The firmware that receives what the node sends over the lossy network
\* behaves as ThrusterControl allows: its theorems hold of the composition.
THEOREM LinkImplementsControl == LinkSpec => Spec
<1>1. LinkInit => Init
  BY DEF LinkInit
<1>2. ASSUME CommandsTyped, [LinkNext]_linkVars PROVE [Next]_vars
  BY <1>2, StepImplements
<1>3. QED
  BY <1>1, <1>2, CommandsTypedAlways, PTL DEF LinkSpec, Spec

-----------------------------------------------------------------------------
(* What the node remembers. *)

\* A stop that the node remembers as its last packet is the last on the wire.
LEMMA SentOnWireAlways == LinkSpec => []SentOnWire
<1>1. LinkInit => SentOnWire
  BY StopIsCommand DEF LinkInit, Node!Init, SentOnWire
<1>2. ASSUME SentOnWire, [LinkNext]_linkVars PROVE SentOnWire'
  <2> USE <1>2, StopIsCommand DEF SentOnWire
  <2>1. ASSUME NEW cmd \in Commands, Transmit(cmd) PROVE SentOnWire'
    BY <2>1 DEF Transmit, Transmitted, Node!CommandSent
  <2>2. ASSUME NEW cmd \in Commands, Withheld(cmd) PROVE SentOnWire'
    BY <2>2 DEF Withheld, Node!CommandDropped, Node!StopSuppressed,
       Node!SendFailed, Node!vars, history
  <2>3. CASE Ping \/ Bind
    BY <2>3 DEF Ping, Bind, Node!PingSent, Node!AttemptConnect, Node!vars,
       history
  <2>4. CASE NodeShutsDown \/ NodeCrashes \/ NodeStarts
    BY <2>4 DEF NodeShutsDown, NodeCrashes, NodeStarts, Node!Ends, Node!Starts,
       history
  <2>5. CASE LinkElapse
    BY <2>5 DEF LinkElapse, Node!Elapse
  <2>6. CASE LinkLoopStep \/ UNCHANGED linkVars
    BY <2>6 DEF LinkLoopStep, ReadCommand, ReadPing, OtherStep, nodeVars,
       history, linkVars
  <2>7. QED
    BY <2>1, <2>2, <2>3, <2>4, <2>5, <2>6 DEF LinkNext, HandleCommand
<1>3. QED
  BY <1>1, <1>2, PTL DEF LinkSpec

\* A stop is left out only when the last packet on the wire was a stop.
THEOREM SuppressionFollowsWireAlways == LinkSpec => SuppressionFollowsWire
<1>1. ASSUME SentOnWire, NEW cmd \in Commands, Node!StopSuppressed(cmd)
      PROVE  onWire = STOP
  BY <1>1 DEF SentOnWire, Node!StopSuppressed, Node!Suppressed
<1>2. SentOnWire => \A cmd \in Commands : Node!StopSuppressed(cmd) => onWire = STOP
  BY <1>1
<1>3. QED
  BY <1>2, SentOnWireAlways, PTL DEF SuppressionFollowsWire

-----------------------------------------------------------------------------
(* No thrust without a request: RequestInv is kept by every step.  TypeOK,   *)
(* which LinkImplementsControl carries over, gives the variables their types.*)

\* Time makes every age one older, the request's unless a packet waits.
LEMMA RequestInvElapse ==
    ASSUME ~Wraps, TypeOK, RequestInv, LinkElapse
    PROVE  RequestInv'
<1>1. /\ cmdAge \in Age /\ loopAge \in 0 .. MaxIteration
      /\ cmdAge' = Older(cmdAge)
      /\ loopAge' = loopAge + 1 /\ stage' = stage
      /\ UNCHANGED <<wifiOut, rcOut, currentMode, current, commands>>
      /\ \A s \in Side : rcAge[s] \in Age /\ rcAge'[s] = Older(rcAge[s])
  BY DEF TypeOK, LinkElapse, Elapse, jetson, outputs, network
<1>2. /\ thrustAge' \in 0 .. ThrustAgeMax
      /\ thrustAge' <= thrustAge + 1
      /\ commands \ {STOP} # {} => thrustAge' = 0
  BY LinkAssumption DEF RequestInv, LinkElapse
<1>3. RcOff'
  <2>1. ASSUME NEW s \in Side PROVE rcAge'[s] > RC_FAILSAFE_MS
    BY <1>1, OlderGrows, TimeAssumption DEF RequestInv, RcOff, Age
  <2>2. QED
    BY <2>1, <1>1 DEF RequestInv, RcOff
<1>4. WaitingIsRecent'
  BY <1>1, <1>2 DEF WaitingIsRecent, STOP
<1>5. WifiOutputRequested'
  <2>1. wifiOut # STOP /\ cmdAge < AgeMax => thrustAge <= cmdAge
    BY DEF RequestInv, WifiOutputRequested
  <2>2. cmdAge' < AgeMax => cmdAge < AgeMax /\ cmdAge' = cmdAge + 1
    BY <1>1, TimeAssumption DEF Older, Age
  <2>3. thrustAge \in Int /\ thrustAge' \in Int /\ cmdAge \in Int
    BY <1>1, <1>2, LinkAssumption, TimeAssumption DEF RequestInv, Age
  <2>4. wifiOut' # STOP' => wifiOut # STOP
    BY <1>1 DEF STOP
  <2>5. QED
    BY <1>2, <2>1, <2>2, <2>3, <2>4 DEF WifiOutputRequested
<1>6. PulseRequested'
  <2>1. thrustAge \in Int /\ thrustAge' \in Int
    BY <1>2, LinkAssumption DEF RequestInv
  <2> DEFINE Rest == IF stage \in {"send", "rc"} THEN 0 ELSE MaxIteration
  <2>2. currentMode = 1 /\ (\E s \in Side : current[s] # ESC_MID) =>
           thrustAge <= UDP_TIMEOUT_MS + WIFI_GRACE_MS + loopAge + Rest
    BY DEF RequestInv, PulseRequested
  <2>3. Rest \in Int /\ Rest' = Rest
    BY <1>1, TimeAssumption
  <2> HIDE DEF Rest
  <2>4. currentMode' = 1 /\ (\E s \in Side : current'[s] # ESC_MID) =>
           thrustAge' <= UDP_TIMEOUT_MS + WIFI_GRACE_MS + loopAge' + Rest'
    BY <1>1, <1>2, <2>1, <2>2, <2>3, TimeAssumption
  <2>5. QED
    BY <2>4 DEF PulseRequested, Rest
<1>7. QED
  BY <1>2, <1>3, <1>4, <1>5, <1>6 DEF RequestInv

\* A request that is sent is as recent as can be.
LEMMA RequestInvNode ==
    ASSUME TypeOK, RequestInv, NodeStep
    PROVE  RequestInv'
<1>1. UNCHANGED vars
  BY NodeStepKeepsFirmware
<1>2. /\ thrustAge' = thrustAge \/ thrustAge' = 0
      /\ commands' \subseteq commands \cup {STOP} \/ thrustAge' = 0
  <2>1. ASSUME NEW cmd \in Commands, HandleCommand(cmd)
        PROVE  /\ thrustAge' = thrustAge \/ thrustAge' = 0
               /\ commands' \subseteq commands \cup {STOP} \/ thrustAge' = 0
    BY <2>1 DEF HandleCommand, Transmit, Transmitted, Arrives, Lost, Withheld,
       network, history
  <2>2. CASE NodeShutsDown
    BY <2>2 DEF NodeShutsDown, Arrives, Lost
  <2>3. CASE Ping \/ Bind \/ NodeCrashes \/ NodeStarts
    BY <2>3 DEF Ping, Bind, NodeCrashes, NodeStarts, network, history
  <2>4. QED
    BY <2>1, <2>2, <2>3 DEF NodeStep
<1>3. thrustAge' \in 0 .. ThrustAgeMax /\ thrustAge' <= thrustAge
  BY <1>2, LinkAssumption DEF RequestInv
<1>4. WaitingIsRecent'
  BY <1>2 DEF RequestInv, WaitingIsRecent, STOP
<1>5. RcOff'
  BY <1>1 DEF RequestInv, RcOff, vars
<1>6. WifiOutputRequested'
  <2>1. wifiOut # STOP /\ cmdAge < AgeMax => thrustAge <= cmdAge
    BY DEF RequestInv, WifiOutputRequested
  <2>2. thrustAge \in Int /\ cmdAge \in Int
    BY LinkAssumption, TimeAssumption DEF RequestInv, TypeOK, Age
  <2>3. wifiOut # STOP /\ cmdAge < AgeMax => thrustAge' <= cmdAge
    BY <1>3, <2>1, <2>2, LinkAssumption
  <2>4. QED
    BY <1>1, <2>3 DEF WifiOutputRequested, vars, STOP
<1>7. PulseRequested'
  <2> DEFINE Limit == UDP_TIMEOUT_MS + WIFI_GRACE_MS + loopAge
                        + (IF stage \in {"send", "rc"} THEN 0 ELSE MaxIteration)
  <2>1. currentMode = 1 /\ (\E s \in Side : current[s] # ESC_MID)
           => thrustAge <= Limit
    BY DEF RequestInv, PulseRequested
  <2>2. thrustAge \in Int /\ Limit \in Int
    BY LinkAssumption, TimeAssumption DEF RequestInv, TypeOK
  <2>3. Limit' = Limit
    BY <1>1 DEF vars
  <2> HIDE DEF Limit
  <2>4. currentMode = 1 /\ (\E s \in Side : current[s] # ESC_MID)
           => thrustAge' <= Limit
    BY <1>3, <2>1, <2>2, LinkAssumption
  <2>5. currentMode' = 1 /\ (\E s \in Side : current'[s] # ESC_MID)
           => thrustAge' <= Limit'
    BY <1>1, <2>3, <2>4 DEF vars
  <2>6. QED
    BY <2>5 DEF PulseRequested, Limit
<1>8. QED
  BY <1>3, <1>4, <1>5, <1>6, <1>7 DEF RequestInv

\* A stop brings the WiFi output to neutral, whatever it was.
LEMMA StopStops ==
    ASSUME NEW from \in Pulse
    PROVE  StepLimit(from, Constrain(ESC_MID, ESC_MIN, ESC_MAX)) = ESC_MID
BY PulseAssumption, RampAssumption DEF Pulse, StepLimit, Constrain

\* A stage between two others of one iteration takes over their limit.
LEMMA RequestInvReads ==
    ASSUME TypeOK, CommandsTyped, RequestInv, ReadCommand \/ ReadPing
    PROVE  RequestInv'
<1>1. /\ stage \notin {"send", "rc"} /\ stage' \notin {"send", "rc"}
      /\ UNCHANGED <<loopAge, rcAge, rcOut, currentMode, current, thrustAge>>
      /\ commands' \subseteq commands
  BY DEF ReadCommand, NoUdpCommand, DropUdpCommand, AcceptUdpCommand, ReadPing,
     ReadHeartbeatPing, clocks, outputs, history
<1>2. RcOff'
  BY <1>1 DEF RequestInv, RcOff
<1>3. WaitingIsRecent'
  BY <1>1 DEF RequestInv, WaitingIsRecent, STOP
<1>4. WifiOutputRequested'
  <2>1. CASE UNCHANGED <<wifiOut, cmdAge>>
    BY <1>1, <2>1 DEF RequestInv, WifiOutputRequested, STOP
  <2>2. ASSUME NEW cmd \in commands, AcceptUdpCommand(cmd)
        PROVE  WifiOutputRequested'
    <3>1. CASE cmd = STOP
      <4>1. ASSUME NEW s \in Side PROVE wifiOut'[s] = ESC_MID
        <5>1. wifiOut[s] \in Pulse /\ cmd[s] = ESC_MID
          BY <3>1 DEF TypeOK, STOP
        <5>2. wifiOut'[s] =
                StepLimit(wifiOut[s], Constrain(cmd[s], ESC_MIN, ESC_MAX))
          BY <2>2 DEF AcceptUdpCommand
        <5>3. QED
          BY <5>1, <5>2, StopStops
      <4>2. wifiOut' = [s \in Side |-> wifiOut'[s]]
        BY <2>2 DEF AcceptUdpCommand
      <4>3. wifiOut' = STOP
        BY <4>1, <4>2 DEF STOP
      <4>4. QED
        BY <4>3 DEF WifiOutputRequested, STOP
    <3>2. CASE cmd # STOP
      <4>1. thrustAge = 0
        BY <3>2 DEF RequestInv, WaitingIsRecent
      <4>2. cmdAge' = 0
        BY <2>2 DEF AcceptUdpCommand
      <4>3. QED
        BY <1>1, <4>1, <4>2 DEF WifiOutputRequested
    <3>3. QED
      BY <3>1, <3>2
  <2>3. QED
    BY <2>1, <2>2 DEF ReadCommand, NoUdpCommand, DropUdpCommand, ReadPing,
       ReadHeartbeatPing, clocks, jetson
<1>5. PulseRequested'
  BY <1>1 DEF RequestInv, PulseRequested
<1>6. QED
  BY <1>1, <1>2, <1>3, <1>4, <1>5 DEF RequestInv

\* The outputs are written for a request within timeout and grace, and the
\* next iteration inherits them.
LEMMA RequestInvOther ==
    ASSUME TypeOK, RequestInv, OtherStep
    PROVE  RequestInv'
<1>1. /\ UNCHANGED <<thrustAge, rcAge, cmdAge>>
      /\ commands' = commands \/ commands' = {}
  BY DEF OtherStep, RcSilent, ReadRcInputs, CheckWiFiStatus, ControlOutputs,
     SendTelemetry, clocks, history
<1>2. /\ thrustAge \in 0 .. ThrustAgeMax /\ cmdAge \in Age
      /\ loopAge \in 0 .. MaxIteration /\ rcOut \in [Side -> Pulse]
      /\ wifiOut \in [Side -> Pulse]
  BY DEF TypeOK, RequestInv
<1>3. WaitingIsRecent'
  BY <1>1 DEF RequestInv, WaitingIsRecent, STOP
<1>4. RcOff'
  <2>1. CASE ReadRcInputs
    <3>1. PICK fresh \in [Side -> BOOLEAN], level \in [Side -> RcLevels] :
             rcOut' = [s \in Side |-> RcLevel(s, level[s], rcAge'[s])]
      BY <2>1 DEF ReadRcInputs
    <3>2. ASSUME NEW s \in Side
          PROVE  rcAge'[s] > RC_FAILSAFE_MS /\ rcOut'[s] = ESC_MID
      BY <1>1, <3>1 DEF RequestInv, RcOff, RcLevel
    <3>3. QED
      BY <3>2 DEF RcOff
  <2>2. CASE CheckWiFiStatus \/ ControlOutputs \/ SendTelemetry
    <3>1. UNCHANGED rcOut
      BY <2>2 DEF CheckWiFiStatus, ControlOutputs, SendTelemetry
    <3>2. QED
      BY <1>1, <3>1 DEF RequestInv, RcOff
  <2>3. QED
    BY <2>1, <2>2 DEF OtherStep, RcSilent
<1>5. wifiOut' # STOP => wifiOut # STOP
  <2>1. CASE ControlOutputs /\ JetsonOffline
    <3>1. rcOut = [s \in Side |-> rcOut[s]]
      BY <1>2
    <3>2. wifiOut' = STOP
      BY <2>1, <3>1 DEF JetsonOffline, RequestInv, RcOff, STOP
    <3>3. QED
      BY <3>2
  <2>2. CASE ControlOutputs /\ GraceDecay
    <3>1. SUFFICES ASSUME wifiOut = STOP PROVE wifiOut' = STOP
      OBVIOUS
    <3>2. wifiOut' = [s \in Side |-> Decay(wifiOut[s])]
      BY <2>2 DEF GraceDecay
    <3>3. Decay(ESC_MID) = ESC_MID
      BY PulseAssumption DEF Decay
    <3>4. \A s \in Side : Decay(wifiOut[s]) = ESC_MID
      BY <3>1, <3>3 DEF STOP
    <3>5. QED
      BY <3>2, <3>4 DEF STOP
  <2>3. CASE UNCHANGED wifiOut
    BY <2>3
  <2>4. QED
    BY <2>1, <2>2, <2>3 DEF OtherStep, RcSilent, ReadRcInputs, CheckWiFiStatus,
       ControlOutputs, WifiDrives, RcFallback, SendTelemetry, jetson
<1>6. WifiOutputRequested'
  BY <1>1, <1>5 DEF RequestInv, WifiOutputRequested, STOP
<1>7. PulseRequested'
  <2>1. CASE ReadRcInputs
    <3>1. stage = "rc" /\ loopAge' = 0 /\ UNCHANGED <<currentMode, current>>
      BY <2>1 DEF ReadRcInputs, outputs
    <3>2. currentMode = 1 /\ (\E s \in Side : current[s] # ESC_MID)
             => thrustAge <= UDP_TIMEOUT_MS + WIFI_GRACE_MS + loopAge
      BY <3>1, <1>2, TimeAssumption DEF RequestInv, PulseRequested
    <3>3. stage' = "wifi"
      BY <2>1 DEF ReadRcInputs
    <3>4. QED
      BY <1>1, <1>2, <3>1, <3>2, <3>3, TimeAssumption, LinkAssumption
         DEF PulseRequested
  <2>2. CASE CheckWiFiStatus
    BY <1>1, <2>2 DEF CheckWiFiStatus, RequestInv, PulseRequested, clocks,
       outputs
  <2>3. CASE SendTelemetry
    BY <1>1, <2>3 DEF SendTelemetry, RequestInv, PulseRequested, clocks, outputs
  <2>4. CASE ControlOutputs
    <3>1. CASE JetsonOffline \/ RcFallback
      BY <3>1 DEF JetsonOffline, RcFallback, PulseRequested
    <3>2. CASE WifiDrives \/ GraceDecay
      <4> SUFFICES ASSUME NEW s \in Side, current'[s] # ESC_MID
                   PROVE  thrustAge <= UDP_TIMEOUT_MS + WIFI_GRACE_MS + loopAge
        BY <1>1, <1>2, <2>4, TimeAssumption
           DEF ControlOutputs, PulseRequested, clocks
      <4>1. wifiOut'[s] # ESC_MID
        <5>1. current'[s] = SnapEscToNeutral(wifiOut'[s])
          BY <3>2 DEF WifiDrives, GraceDecay, UpdateThrusters
        <5>2. SnapEscToNeutral(ESC_MID) = ESC_MID
          BY PulseAssumption DEF SnapEscToNeutral
        <5>3. QED
          BY <5>1, <5>2
      <4>2. wifiOut # STOP
        BY <1>5, <4>1 DEF STOP
      <4>3. cmdAge <= UDP_TIMEOUT_MS + WIFI_GRACE_MS
        BY <1>2, <3>2, TimeAssumption DEF WifiDrives, GraceDecay, UdpActive,
           InGrace, Age
      <4>4. thrustAge <= cmdAge
        BY <1>2, <4>2, <4>3, TimeAssumption
           DEF RequestInv, WifiOutputRequested, Age
      <4>5. QED
        BY <1>2, <4>3, <4>4, TimeAssumption, LinkAssumption DEF Age
    <3>3. QED
      BY <2>4, <3>1, <3>2, ControlCases
  <2>5. QED
    BY <2>1, <2>2, <2>3, <2>4 DEF OtherStep, RcSilent
<1>8. QED
  BY <1>1, <1>2, <1>3, <1>4, <1>6, <1>7 DEF RequestInv

\* The invariant behind ThrustNeedsRequest.
THEOREM RequestInvariant == ~Wraps => (LinkSpec => []RequestInv)
<1> SUFFICES ASSUME ~Wraps PROVE LinkSpec => []RequestInv
  OBVIOUS
<1>1. ASSUME LinkInit PROVE RequestInv
  <2>1. RcOff
    BY <1>1, TimeAssumption DEF LinkInit, Init, RcOff
  <2>2. thrustAge \in 0 .. ThrustAgeMax
    BY <1>1, LinkAssumption DEF LinkInit
  <2>3. WaitingIsRecent /\ WifiOutputRequested /\ PulseRequested
    BY <1>1 DEF LinkInit, Init, WaitingIsRecent, WifiOutputRequested,
       PulseRequested, STOP
  <2>4. QED
    BY <2>1, <2>2, <2>3 DEF RequestInv
<1>2. ASSUME TypeOK, CommandsTyped, RequestInv, [LinkNext]_linkVars
      PROVE  RequestInv'
  <2>1. CASE UNCHANGED linkVars
    BY <1>2, <2>1 DEF linkVars, vars, network, history, RequestInv, RcOff,
       WaitingIsRecent, WifiOutputRequested, PulseRequested, STOP
  <2>2. QED
    BY <1>2, <2>1, RequestInvElapse, RequestInvNode, RequestInvReads,
       RequestInvOther DEF NodeStep, LinkNext, LinkLoopStep
<1>3. QED
  BY <1>1, <1>2, TypeCorrect, LinkImplementsControl, CommandsTypedAlways, PTL
     DEF LinkSpec

\* An ESC that WiFi drives off neutral was asked to, at most the horizon ago:
\* lost, overtaking and suppressed packets and a dead node included.
THEOREM ThrustNeedsRequestAlways == ~Wraps => (LinkSpec => []ThrustNeedsRequest)
<1> SUFFICES ASSUME ~Wraps PROVE LinkSpec => []ThrustNeedsRequest
  OBVIOUS
<1>1. ASSUME TypeOK, RequestInv PROVE ThrustNeedsRequest
  <2>1. loopAge \in 0 .. MaxIteration /\ thrustAge \in Int
    BY <1>1, LinkAssumption DEF TypeOK, RequestInv
  <2>2. QED
    BY <1>1, <2>1, TimeAssumption
       DEF RequestInv, PulseRequested, ThrustNeedsRequest, ThrustHorizon
<1>2. QED
  BY <1>1, RequestInvariant, TypeCorrect, LinkImplementsControl, PTL

\* The neutral failsafe and the other theorems hold of the composition.
THEOREM LinkThrustHasSource == ~Wraps => (LinkSpec => ThrustHasSource)
BY LinkImplementsControl, ThrustAlwaysHasSource

\* So is every decision of the firmware one that ControlAuthority allows,
\* whatever the node sends and the network does to it.
THEOREM LinkControlIsGranted == ~Wraps => (LinkSpec => ControlIsGranted)
<1>1. RampReachesNeutral
  BY RampAssumption DEF RampReachesNeutral
<1>2. QED
  BY <1>1, LinkImplementsControl, ControlIsGrantedAlways

-----------------------------------------------------------------------------
(* Types of the composition *)

\* The factor of the backoff is a natural number, of which the provers have no
\* facts: they know nothing of powers.
PowersAreNumbers == \A n \in 0 .. BACKOFF_EXPONENT_MAX : 2 ^ n \in Nat

\* The smaller of two numbers is one of them.
LEMMA MinOfTwo ==
    ASSUME NEW a \in Int, NEW b \in Int
    PROVE  Node!Min({a, b}) \in {a, b} /\ Node!Min({a, b}) <= a /\ Node!Min({a, b}) <= b
<1> DEFINE IsMin(x) == \A y \in {a, b} : x <= y
<1>1. \E x \in {a, b} : IsMin(x)
  <2>1. CASE a <= b
    BY <2>1
  <2>2. CASE b <= a
    BY <2>2
  <2>3. QED
    BY <2>1, <2>2
<1>2. Node!Min({a, b}) = CHOOSE x \in {a, b} : IsMin(x)
  BY DEF Node!Min
<1>3. Node!Min({a, b}) \in {a, b} /\ IsMin(Node!Min({a, b}))
  <2> HIDE DEF IsMin
  <2>1. QED
    BY <1>1, <1>2
<1>4. QED
  BY <1>3

\* The delay of the backoff lies between no wait and the longest one.
LEMMA BackoffBounded ==
    ASSUME PowersAreNumbers, failures \in 0 .. BACKOFF_EXPONENT_MAX
    PROVE  Node!BackoffDelay \in 0 .. MAX_RECONNECT_DELAY
<1>1. PICK p \in Nat : p = 2 ^ failures
  BY DEF PowersAreNumbers
<1>2. RECONNECT_DELAY \in Nat /\ MAX_RECONNECT_DELAY \in Nat
  BY LinkAssumption DEF Node!SenderAssumption
<1>3. PICK d \in Nat : d = RECONNECT_DELAY * p
  BY <1>1, <1>2
<1>4. Node!BackoffDelay = Node!Min({d, MAX_RECONNECT_DELAY})
  BY <1>1, <1>3 DEF Node!BackoffDelay
<1>5. PICK m \in Nat : m = MAX_RECONNECT_DELAY
  BY <1>2
<1>6. Node!Min({d, m}) \in {d, m} /\ Node!Min({d, m}) <= m
  <2>1. d \in Int /\ m \in Int
    OBVIOUS
  <2>2. QED
    BY ONLY <2>1, MinOfTwo, Zenon
<1>7. Node!Min({d, m}) \in 0 .. m
  BY <1>6
<1>8. QED
  BY <1>4, <1>5, <1>7

\* The variables that LinkTypeOK adds to the firmware's.
NodeTyped == Node!TypeOK
NetworkTyped ==
    /\ pingWaits \in BOOLEAN
    /\ onWire \in Commands \cup {NONE}
    /\ thrustAge \in 0 .. ThrustAgeMax

\* Every step keeps the node's types: backoff, stamps and the socket's state.
LEMMA NodeTypedStep ==
    ASSUME PowersAreNumbers, NodeTyped, [LinkNext]_linkVars
    PROVE  NodeTyped'
<1> USE DEF NodeTyped, Node!TypeOK
<1>1. /\ RECONNECT_DELAY \in Nat /\ MAX_RECONNECT_DELAY \in Nat
      /\ BACKOFF_EXPONENT_MAX \in Nat /\ STOP_SUPPRESSION \in Nat
  BY LinkAssumption DEF Node!SenderAssumption
<1>2. ASSUME NEW cmd \in Commands, Node!CommandSent(cmd) \/ Node!SendFailed(cmd)
      PROVE  NodeTyped'
  <2>1. CASE Node!CommandSent(cmd)
    <3>1. stopAge' \in 0 .. STOP_SUPPRESSION
      BY <1>1, <2>1 DEF Node!CommandSent
    <3>2. /\ lastSent' \in Commands \cup {NONE} /\ lastWasStop' \in BOOLEAN
          /\ UNCHANGED <<up, bound, failures, retryIn>>
      BY <2>1 DEF Node!CommandSent
    <3>3. QED
      BY <3>1, <3>2
  <2>2. CASE Node!SendFailed(cmd)
    <3>1. 0 \in 0 .. MAX_RECONNECT_DELAY
      BY <1>1
    <3>2. QED
      BY <2>2, <3>1 DEF Node!SendFailed
  <2>3. QED
    BY <1>2, <2>1, <2>2
<1>3. CASE Node!AttemptConnect
  <2>1. retryIn' \in 0 .. MAX_RECONNECT_DELAY
    BY <1>3, BackoffBounded DEF Node!AttemptConnect
  <2>2. Node!Min({failures + 1, BACKOFF_EXPONENT_MAX}) \in 0 .. BACKOFF_EXPONENT_MAX
    BY <1>1, MinOfTwo
  <2>3. failures' \in 0 .. BACKOFF_EXPONENT_MAX
    <3>1. failures' = 0 \/ failures' = Node!Min({failures + 1, BACKOFF_EXPONENT_MAX})
      BY <1>3 DEF Node!AttemptConnect
    <3>2. QED
      BY <1>1, <2>2, <3>1
  <2>4. /\ up' = up /\ bound' \in BOOLEAN /\ stopAge' = stopAge
        /\ lastSent' \in Commands \cup {NONE} /\ lastWasStop' \in BOOLEAN
    BY <1>3 DEF Node!AttemptConnect
  <2>5. QED
    BY <2>1, <2>3, <2>4
<1>4. CASE Node!Ends
  BY <1>4 DEF Node!Ends
<1>5. CASE Node!Starts
  <2>1. /\ up' \in BOOLEAN /\ bound' \in BOOLEAN /\ lastSent' \in Commands \cup {NONE}
        /\ lastWasStop' \in BOOLEAN
    BY <1>5 DEF Node!Starts
  <2>2. failures' = 0 /\ retryIn' = 0 /\ stopAge' = STOP_SUPPRESSION
    BY <1>5 DEF Node!Starts
  <2>3. /\ failures' \in 0 .. BACKOFF_EXPONENT_MAX /\ retryIn' \in 0 .. MAX_RECONNECT_DELAY
        /\ stopAge' \in 0 .. STOP_SUPPRESSION
    BY <1>1, <2>2
  <2>4. QED
    BY <2>1, <2>3
<1>6. CASE Node!Elapse
  BY <1>1, <1>6 DEF Node!Elapse
<1>7. CASE UNCHANGED nodeVars
  BY <1>7 DEF nodeVars
<1>8. QED
  <2>1. ASSUME NEW cmd \in Commands, HandleCommand(cmd)
        PROVE  NodeTyped'
    BY <1>2, <1>7, <2>1 DEF HandleCommand, Transmit, Withheld, Node!CommandDropped,
       Node!StopSuppressed, Node!vars, nodeVars
  <2>2. CASE Ping
    BY <1>7, <2>2 DEF Ping, Node!PingSent, Node!vars, nodeVars
  <2>3. CASE Bind \/ NodeShutsDown \/ NodeCrashes \/ NodeStarts \/ LinkElapse
    BY <1>3, <1>4, <1>5, <1>6, <2>3
       DEF Bind, NodeShutsDown, NodeCrashes, NodeStarts, LinkElapse
  <2>4. CASE LinkLoopStep \/ UNCHANGED linkVars
    BY <1>7, <2>4 DEF LinkLoopStep, ReadCommand, ReadPing, OtherStep, linkVars, nodeVars
  <2>5. QED
    BY <2>1, <2>2, <2>3, <2>4 DEF LinkNext

\* Every step keeps the types of what is under way and of the age of thrust.
LEMMA NetworkTypedStep ==
    ASSUME TypeOK, TypeOK', NetworkTyped, [LinkNext]_linkVars
    PROVE  NetworkTyped'
<1> USE DEF NetworkTyped
<1>1. ThrustAgeMax \in Nat /\ udpServersStarted \in BOOLEAN /\ udpServersStarted' \in BOOLEAN
  BY LinkAssumption DEF TypeOK
<1>2. ASSUME NEW cmd \in Commands, HandleCommand(cmd)
      PROVE  NetworkTyped'
  BY <1>1, <1>2 DEF HandleCommand, Transmit, Transmitted, Withheld, network, history
<1>3. CASE Ping
  BY <1>1, <1>3 DEF Ping, history
<1>4. CASE NodeShutsDown
  BY <1>4, StopIsCommand DEF NodeShutsDown
<1>5. CASE LinkElapse
  BY <1>1, <1>5 DEF LinkElapse, network
<1>6. CASE ReadPing
  BY <1>6 DEF ReadPing, history
<1>7. CASE OtherStep
  BY <1>1, <1>7 DEF OtherStep, history
<1>8. CASE Bind \/ NodeCrashes \/ NodeStarts \/ ReadCommand \/ UNCHANGED linkVars
  BY <1>8 DEF Bind, NodeCrashes, NodeStarts, ReadCommand, network, history, linkVars
<1>9. QED
  BY <1>2, <1>3, <1>4, <1>5, <1>6, <1>7, <1>8 DEF LinkNext, LinkLoopStep

\* Every variable of the composition keeps its type, the delay of the backoff
\* (attemptConnect) its bound.
THEOREM LinkTypeCorrect == PowersAreNumbers => (LinkSpec => []LinkTypeOK)
<1> SUFFICES ASSUME PowersAreNumbers PROVE LinkSpec => []LinkTypeOK
  OBVIOUS
<1>1. ASSUME LinkInit PROVE NodeTyped /\ NetworkTyped
  <2>1. /\ MAX_RECONNECT_DELAY \in Nat /\ BACKOFF_EXPONENT_MAX \in Nat
        /\ STOP_SUPPRESSION \in Nat /\ ThrustAgeMax \in Nat
    BY LinkAssumption DEF Node!SenderAssumption
  <2>2. failures = 0 /\ retryIn = 0 /\ stopAge = STOP_SUPPRESSION /\ thrustAge = ThrustAgeMax
    BY <1>1 DEF LinkInit, Node!Init
  <2>3. /\ failures \in 0 .. BACKOFF_EXPONENT_MAX /\ retryIn \in 0 .. MAX_RECONNECT_DELAY
        /\ stopAge \in 0 .. STOP_SUPPRESSION /\ thrustAge \in 0 .. ThrustAgeMax
    BY <2>1, <2>2
  <2>4. /\ up \in BOOLEAN /\ bound \in BOOLEAN /\ lastWasStop \in BOOLEAN
        /\ lastSent \in Commands \cup {NONE} /\ pingWaits \in BOOLEAN
        /\ onWire \in Commands \cup {NONE}
    BY <1>1 DEF LinkInit, Node!Init
  <2>5. QED
    BY <2>3, <2>4 DEF NodeTyped, NetworkTyped, Node!TypeOK
<1>2. ASSUME TypeOK, TypeOK', NodeTyped, NetworkTyped, [LinkNext]_linkVars
      PROVE  NodeTyped' /\ NetworkTyped'
  BY <1>2, NodeTypedStep, NetworkTypedStep
<1>3. ASSUME TypeOK, CommandsTyped, NodeTyped, NetworkTyped PROVE LinkTypeOK
  BY <1>3 DEF CommandsTyped, NodeTyped, NetworkTyped, LinkTypeOK
<1>4. QED
  BY <1>1, <1>2, <1>3, TypeCorrect, LinkImplementsControl, CommandsTypedAlways, PTL
     DEF LinkSpec
=============================================================================
