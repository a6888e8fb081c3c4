---------------------- MODULE ThrusterControlProofs ----------------------
(***************************************************************************)
(* Theorems about ThrusterControl, for every set of channels, every pulse  *)
(* range and every timeout that satisfy the assumptions of the module.     *)
(* Type correctness needs no restriction on time; the others assume        *)
(* Wraps = FALSE, an uptime shorter than one period of millis().           *)
(***************************************************************************)
EXTENDS ThrusterControl, TLAPS

\* A channel whose pulse is off neutral was alive when this iteration read it.
RcNeutralWhenSilent ==
    \A s \in Side : rcOut[s] # ESC_MID => rcAge[s] <= RC_FAILSAFE_MS + loopAge

\* A command was accepted by this iteration and not yet acted upon.
FreshCommand == stage \in {"ping", "control"} /\ cmdAge <= loopAge

\* While RC drives, the command remembered is beyond the grace period.
RevokedStaysOld ==
    currentMode = 0 /\ haveWifiCmd =>
        cmdAge > UDP_TIMEOUT_MS + WIFI_GRACE_MS \/ FreshCommand

\* While WiFi drives, the ESCs carry the WiFi output.
WifiOutputTracked ==
    currentMode = 1 =>
        FreshCommand \/ \A s \in Side : current[s] = SnapEscToNeutral(wifiOut[s])

IInv ==
    /\ TypeOK
    /\ CommandImpliesPing
    /\ RcNeutralWhenSilent
    /\ RevokedStaysOld
    /\ WifiOutputTracked

-----------------------------------------------------------------------------

\* The pulse helpers stay inside the ESC range.
LEMMA PulseTypes ==
    /\ \A x \in Int : Constrain(x, ESC_MIN, ESC_MAX) \in Pulse
    /\ \A from, target \in Pulse : StepLimit(from, target) \in Pulse
    /\ \A p \in Pulse : Decay(p) \in Pulse
    /\ \A p \in Pulse : SnapEscToNeutral(p) \in Pulse
<1> USE PulseAssumption DEF Pulse, Constrain
<1>1. \A x \in Int : Constrain(x, ESC_MIN, ESC_MAX) \in Pulse
  OBVIOUS
<1>2. \A from, target \in Pulse : StepLimit(from, target) \in Pulse
  BY DEF StepLimit
<1>3. \A p \in Pulse : Decay(p) \in Pulse
  BY DEF Decay
<1>4. \A p \in Pulse : SnapEscToNeutral(p) \in Pulse
  BY DEF SnapEscToNeutral
<1>5. QED
  BY <1>1, <1>2, <1>3, <1>4

\* The types hold at power-on.
LEMMA TypesAtStart ==
    ASSUME Init
    PROVE  TypeOK
<1>1. ESC_MID \in Pulse /\ SETUP_MS \in Age /\ 0 \in 0 .. MaxIteration
  BY PulseAssumption, TimeAssumption DEF Pulse, Age
<1>2. QED
  BY <1>1 DEF Init, TypeOK, Stage

\* Every step keeps the types.
LEMMA TypesStep ==
    ASSUME TypeOK, [Next]_vars
    PROVE  TypeOK'
<1> USE PulseAssumption, TimeAssumption DEF TypeOK
<1>1. CASE Elapse
  BY <1>1 DEF Elapse, Older, Age, jetson, outputs
<1>2. CASE ReadRcInputs
  <2>1. PICK fresh \in [Side -> BOOLEAN], level \in [Side -> RcLevels] :
          /\ rcAge' = [s \in Side |-> IF fresh[s] THEN 0 ELSE rcAge[s]]
          /\ rcOut' = [s \in Side |-> RcLevel(s, level[s], rcAge'[s])]
    BY <1>2 DEF ReadRcInputs
  <2>2. rcAge' \in [Side -> Age]
    BY <2>1 DEF Age
  <2>3. rcOut' \in [Side -> Pulse]
    <3>1. ASSUME NEW s \in Side
          PROVE  RcLevel(s, level[s], rcAge'[s]) \in Pulse
      <4>1. level[s] \in RcLevels
        BY <3>1
      <4>2. level[s] \in Pulse
        BY <4>1 DEF Pulse
      <4>3. ESC_MID \in Pulse
        BY DEF Pulse
      <4>4. rcAge'[s] \in Age
        BY <2>2, <3>1
      <4>5. QED
        BY <4>2, <4>3, <4>4 DEF RcLevel, Age
    <3>2. QED
      BY <2>1, <3>1
  <2>4. QED
    BY <1>2, <2>2, <2>3 DEF ReadRcInputs, Stage, Age, jetson, outputs
<1>3. CASE CheckWiFiStatus
  BY <1>3 DEF CheckWiFiStatus, Stage, clocks, jetson, outputs
<1>4. CASE NoUdpCommand \/ DropUdpCommand
  BY <1>4 DEF NoUdpCommand, DropUdpCommand, Stage, clocks, jetson, outputs
<1>5. ASSUME NEW cmd \in [Side -> RawCommands], AcceptUdpCommand(cmd)
      PROVE  TypeOK'
  <2>1. wifiOut' \in [Side -> Pulse]
    <3>1. ASSUME NEW s \in Side
          PROVE  StepLimit(wifiOut[s], Constrain(cmd[s], ESC_MIN, ESC_MAX))
                    \in Pulse
      <4>1. cmd[s] \in Int /\ wifiOut[s] \in Pulse
        BY <1>5, <3>1
      <4>2. Constrain(cmd[s], ESC_MIN, ESC_MAX) \in Pulse
        BY <4>1, PulseTypes
      <4>3. QED
        BY <4>1, <4>2, PulseTypes
    <3>2. QED
      BY <1>5, <3>1 DEF AcceptUdpCommand
  <2>2. 0 \in Age /\ TRUE \in BOOLEAN
    BY DEF Age
  <2>3. stage' \in Stage /\ cmdAge' \in Age /\ pingAge' \in Age
    BY <1>5, <2>2 DEF AcceptUdpCommand, Stage
  <2>4. haveWifiCmd' \in BOOLEAN /\ everPinged' \in BOOLEAN
    BY <1>5 DEF AcceptUdpCommand
  <2>5. UNCHANGED <<loopAge, udpServersStarted, rcAge, rcOut, currentMode,
                    current>>
    BY <1>5 DEF AcceptUdpCommand, outputs
  <2>6. QED
    BY <2>1, <2>3, <2>4, <2>5
<1>6. CASE ReadHeartbeatPing
  <2>1. everPinged' \in BOOLEAN
    BY <1>6 DEF ReadHeartbeatPing
  <2>2. pingAge' \in Age
    BY <1>6 DEF ReadHeartbeatPing, Age
  <2>3. QED
    BY <1>6, <2>1, <2>2 DEF ReadHeartbeatPing, Stage, outputs
<1>7. CASE ControlOutputs
  <2>1. ASSUME NEW pulse \in [Side -> Pulse], UpdateThrusters(pulse)
        PROVE  current' \in [Side -> Pulse]
    BY <2>1, PulseTypes DEF UpdateThrusters
  <2>2. CASE JetsonOffline
    BY <1>7, <2>1, <2>2 DEF JetsonOffline, ControlOutputs, Stage, clocks
  <2>3. CASE WifiDrives
    BY <1>7, <2>1, <2>3 DEF WifiDrives, ControlOutputs, Stage, clocks
  <2>4. CASE GraceDecay
    <3>1. wifiOut' \in [Side -> Pulse]
      BY <2>4, PulseTypes DEF GraceDecay
    <3>2. QED
      BY <1>7, <2>1, <2>4, <3>1 DEF GraceDecay, ControlOutputs, Stage, clocks
  <2>5. CASE RcFallback
    BY <1>7, <2>1, <2>5 DEF RcFallback, ControlOutputs, Stage, clocks
  <2>6. QED
    BY <1>7, <2>2, <2>3, <2>4, <2>5 DEF ControlOutputs
<1>8. CASE SendTelemetry
  BY <1>8 DEF SendTelemetry, Stage, clocks, jetson, outputs
<1>9. CASE UNCHANGED vars
  BY <1>9 DEF vars
<1>10. QED
  BY <1>1, <1>2, <1>3, <1>4, <1>5, <1>6, <1>7, <1>8, <1>9
     DEF Next, LoopStep, ReadUdpCommands

\* Every variable keeps its type: the ESCs never leave their pulse range.
THEOREM TypeCorrect == Spec => []TypeOK
<1>1. Init => TypeOK
  BY TypesAtStart
<1>2. TypeOK /\ [Next]_vars => TypeOK'
  BY TypesStep
<1>3. QED
  BY <1>1, <1>2, PTL DEF Spec

-----------------------------------------------------------------------------

\* Without wrap-around an age only grows, by at most one.
LEMMA OlderGrows ==
    ASSUME ~Wraps, NEW a \in Age
    PROVE  Older(a) \in Age /\ a <= Older(a) /\ Older(a) <= a + 1
BY TimeAssumption DEF Older, Age

\* Growing together keeps the order of two ages.
LEMMA OlderMonotone ==
    ASSUME ~Wraps, NEW a \in Age, NEW b \in Age, a <= b
    PROVE  Older(a) <= Older(b)
BY TimeAssumption DEF Older, Age

\* Every step keeps the last sign of life as recent as the command.
LEMMA CommandImpliesPingStep ==
    ASSUME ~Wraps, TypeOK, CommandImpliesPing, [Next]_vars
    PROVE  CommandImpliesPing'
<1> USE DEF CommandImpliesPing
<1>1. CASE Elapse
  <2>1. pingAge \in Age /\ cmdAge \in Age
    BY DEF TypeOK
  <2>2. pingAge <= cmdAge => Older(pingAge) <= Older(cmdAge)
    BY <2>1, OlderMonotone
  <2>3. QED
    BY <1>1, <2>2 DEF Elapse, jetson
<1>2. ASSUME NEW cmd \in [Side -> RawCommands], AcceptUdpCommand(cmd)
      PROVE  CommandImpliesPing'
  BY <1>2 DEF AcceptUdpCommand
<1>3. CASE ReadHeartbeatPing
  <2>1. CASE UNCHANGED <<everPinged, pingAge>>
    BY <1>3, <2>1 DEF ReadHeartbeatPing
  <2>2. CASE everPinged' = TRUE /\ pingAge' = 0
    <3>1. cmdAge' = cmdAge /\ 0 <= cmdAge
      BY <1>3 DEF ReadHeartbeatPing, TypeOK, Age
    <3>2. QED
      BY <2>2, <3>1
  <2>3. QED
    BY <1>3, <2>1, <2>2 DEF ReadHeartbeatPing
<1>4. CASE ControlOutputs
  BY <1>4 DEF ControlOutputs, JetsonOffline, WifiDrives, GraceDecay,
     RcFallback, clocks
<1>5. CASE \/ ReadRcInputs \/ CheckWiFiStatus \/ NoUdpCommand
           \/ DropUdpCommand \/ SendTelemetry \/ UNCHANGED vars
  BY <1>5 DEF ReadRcInputs, CheckWiFiStatus, NoUdpCommand, DropUdpCommand,
     SendTelemetry, vars, clocks, jetson
<1>6. QED
  BY <1>1, <1>2, <1>3, <1>4, <1>5 DEF Next, LoopStep, ReadUdpCommands

\* Every step keeps a silent channel's output neutral.
LEMMA RcNeutralWhenSilentStep ==
    ASSUME ~Wraps, TypeOK, RcNeutralWhenSilent, [Next]_vars
    PROVE  RcNeutralWhenSilent'
<1> USE DEF RcNeutralWhenSilent
<1>1. CASE Elapse
  <2>1. ASSUME NEW s \in Side, rcOut'[s] # ESC_MID
        PROVE  rcAge'[s] <= RC_FAILSAFE_MS + loopAge'
    <3>1. rcAge[s] <= RC_FAILSAFE_MS + loopAge
      BY <1>1, <2>1 DEF Elapse
    <3>2. rcAge[s] \in Age /\ Older(rcAge[s]) <= rcAge[s] + 1
      BY OlderGrows DEF TypeOK
    <3>3. rcAge'[s] = Older(rcAge[s]) /\ loopAge' = loopAge + 1
      BY <1>1 DEF Elapse
    <3>4. Older(rcAge[s]) \in Age /\ loopAge \in Int
      BY <3>2, OlderGrows, TimeAssumption DEF TypeOK
    <3>5. QED
      BY <3>1, <3>2, <3>3, <3>4, TimeAssumption DEF Age
  <2>2. QED
    BY <2>1
<1>2. CASE ReadRcInputs
  <2>1. PICK fresh \in [Side -> BOOLEAN], level \in [Side -> RcLevels] :
          /\ rcAge' = [s \in Side |-> IF fresh[s] THEN 0 ELSE rcAge[s]]
          /\ rcOut' = [s \in Side |-> RcLevel(s, level[s], rcAge'[s])]
    BY <1>2 DEF ReadRcInputs
  <2>2. ASSUME NEW s \in Side, rcOut'[s] # ESC_MID
        PROVE  rcAge'[s] <= RC_FAILSAFE_MS + loopAge'
    <3>1. rcAge'[s] \in Age
      BY <2>1 , TimeAssumption DEF TypeOK, Age
    <3>2. ~(rcAge'[s] > RC_FAILSAFE_MS)
      BY <2>1, <2>2 DEF RcLevel
    <3>3. loopAge' = 0
      BY <1>2 DEF ReadRcInputs
    <3>4. QED
      BY <3>1, <3>2, <3>3, TimeAssumption DEF Age
  <2>3. QED
    BY <2>2
<1>3. ASSUME NEW cmd \in [Side -> RawCommands], AcceptUdpCommand(cmd)
      PROVE  RcNeutralWhenSilent'
  BY <1>3 DEF AcceptUdpCommand
<1>4. CASE \/ CheckWiFiStatus \/ NoUdpCommand \/ DropUdpCommand
           \/ ReadHeartbeatPing \/ ControlOutputs \/ SendTelemetry
           \/ UNCHANGED vars
  BY <1>4 DEF CheckWiFiStatus, NoUdpCommand, DropUdpCommand,
     ReadHeartbeatPing, ControlOutputs, SendTelemetry, vars, clocks
<1>5. QED
  BY <1>1, <1>2, <1>3, <1>4 DEF Next, LoopStep, ReadUdpCommands

\* The control step, one case per branch of determineControlMode.
LEMMA ControlCases ==
    ASSUME ControlOutputs
    PROVE  JetsonOffline \/ WifiDrives \/ GraceDecay \/ RcFallback
BY DEF ControlOutputs

\* Every step keeps the command beyond the grace period while RC drives.
LEMMA RevokedStaysOldStep ==
    ASSUME ~Wraps, TypeOK, RevokedStaysOld, [Next]_vars
    PROVE  RevokedStaysOld'
<1> USE DEF RevokedStaysOld, FreshCommand
<1>1. CASE Elapse
  <2> SUFFICES ASSUME currentMode = 0, haveWifiCmd
               PROVE  \/ cmdAge' > UDP_TIMEOUT_MS + WIFI_GRACE_MS
                      \/ stage \in {"ping", "control"} /\ cmdAge' <= loopAge'
    BY <1>1 DEF Elapse, jetson, outputs
  <2>1. cmdAge' = Older(cmdAge) /\ loopAge' = loopAge + 1
    BY <1>1 DEF Elapse
  <2>2. cmdAge \in Age /\ loopAge \in 0 .. MaxIteration
    BY DEF TypeOK
  <2>3. /\ Older(cmdAge) \in Age
        /\ cmdAge <= Older(cmdAge)
        /\ Older(cmdAge) <= cmdAge + 1
    BY <2>2, OlderGrows
  <2>4. CASE cmdAge > UDP_TIMEOUT_MS + WIFI_GRACE_MS
    BY <2>1, <2>2, <2>3, <2>4, TimeAssumption DEF Age
  <2>5. CASE FreshCommand
    BY <2>1, <2>2, <2>3, <2>5, TimeAssumption DEF Age
  <2>6. QED
    BY <2>4, <2>5
<1>2. ASSUME NEW cmd \in [Side -> RawCommands], AcceptUdpCommand(cmd)
      PROVE  RevokedStaysOld'
  <2>1. stage' = "ping" /\ cmdAge' = 0 /\ loopAge' = loopAge
    BY <1>2 DEF AcceptUdpCommand
  <2>2. 0 <= loopAge
    BY TimeAssumption DEF TypeOK
  <2>3. QED
    BY <2>1, <2>2
<1>3. CASE ReadHeartbeatPing
  BY <1>3 DEF ReadHeartbeatPing, outputs
<1>4. CASE ControlOutputs
  <2>1. cmdAge \in Age
    BY DEF TypeOK
  <2>2. CASE JetsonOffline
    BY <2>2 DEF JetsonOffline
  <2>3. CASE WifiDrives \/ GraceDecay
    BY <2>3 DEF WifiDrives, GraceDecay
  <2>4. CASE RcFallback
    <3>1. haveWifiCmd' = haveWifiCmd /\ cmdAge' = cmdAge
      BY <1>4, <2>4 DEF ControlOutputs, RcFallback, clocks
    <3>2. haveWifiCmd => ~(cmdAge <= UDP_TIMEOUT_MS + WIFI_GRACE_MS)
      BY <2>4 DEF RcFallback, InGrace
    <3>3. QED
      BY <2>1, <3>1, <3>2, TimeAssumption DEF Age
  <2>5. QED
    BY <1>4, ControlCases, <2>2, <2>3, <2>4
<1>5. CASE \/ ReadRcInputs \/ CheckWiFiStatus \/ NoUdpCommand
           \/ DropUdpCommand \/ SendTelemetry \/ UNCHANGED vars
  BY <1>5 DEF ReadRcInputs, CheckWiFiStatus, NoUdpCommand, DropUdpCommand,
     SendTelemetry, vars, clocks, jetson, outputs
<1>6. QED
  BY <1>1, <1>2, <1>3, <1>4, <1>5 DEF Next, LoopStep, ReadUdpCommands

\* Every step keeps the ESCs at the WiFi output while WiFi drives.
LEMMA WifiOutputTrackedStep ==
    ASSUME ~Wraps, TypeOK, WifiOutputTracked, [Next]_vars
    PROVE  WifiOutputTracked'
<1> USE DEF WifiOutputTracked, FreshCommand
<1>1. CASE Elapse
  <2> SUFFICES ASSUME currentMode = 1, FreshCommand
               PROVE  FreshCommand'
    BY <1>1 DEF Elapse, jetson, outputs
  <2>1. cmdAge' = Older(cmdAge) /\ loopAge' = loopAge + 1
    BY <1>1 DEF Elapse
  <2>2. cmdAge \in Age /\ loopAge \in 0 .. MaxIteration
    BY DEF TypeOK
  <2>3. Older(cmdAge) \in Age /\ Older(cmdAge) <= cmdAge + 1
    BY <2>2, OlderGrows
  <2>4. cmdAge' <= loopAge'
    BY <2>1, <2>2, <2>3, TimeAssumption DEF Age
  <2>5. QED
    BY <1>1, <2>4 DEF Elapse
<1>2. ASSUME NEW cmd \in [Side -> RawCommands], AcceptUdpCommand(cmd)
      PROVE  WifiOutputTracked'
  <2>1. stage' = "ping" /\ cmdAge' = 0 /\ loopAge' = loopAge
    BY <1>2 DEF AcceptUdpCommand
  <2>2. 0 <= loopAge
    BY TimeAssumption DEF TypeOK
  <2>3. QED
    BY <2>1, <2>2
<1>3. CASE ReadHeartbeatPing
  BY <1>3 DEF ReadHeartbeatPing, outputs
<1>4. CASE ControlOutputs
  <2>1. CASE JetsonOffline \/ RcFallback
    BY <2>1 DEF JetsonOffline, RcFallback
  <2>2. CASE WifiDrives
    BY <2>2 DEF WifiDrives, UpdateThrusters
  <2>3. CASE GraceDecay
    BY <2>3 DEF GraceDecay, UpdateThrusters
  <2>4. QED
    BY <1>4, ControlCases, <2>1, <2>2, <2>3
<1>5. CASE \/ ReadRcInputs \/ CheckWiFiStatus \/ NoUdpCommand
           \/ DropUdpCommand \/ SendTelemetry \/ UNCHANGED vars
  BY <1>5 DEF ReadRcInputs, CheckWiFiStatus, NoUdpCommand, DropUdpCommand,
     SendTelemetry, vars, clocks, jetson, outputs
<1>6. QED
  BY <1>1, <1>2, <1>3, <1>4, <1>5 DEF Next, LoopStep, ReadUdpCommands

-----------------------------------------------------------------------------

\* The four strengthened facts hold together in every reachable state.
THEOREM InductiveInvariant == ~Wraps => (Spec => []IInv)
<1> SUFFICES ASSUME ~Wraps PROVE Spec => []IInv
  OBVIOUS
<1>1. Init => CommandImpliesPing /\ RcNeutralWhenSilent /\ RevokedStaysOld
                /\ WifiOutputTracked
  BY DEF Init, CommandImpliesPing, RcNeutralWhenSilent, RevokedStaysOld,
     WifiOutputTracked
<1>2. ASSUME TypeOK, IInv, [Next]_vars
      PROVE  /\ CommandImpliesPing' /\ RcNeutralWhenSilent'
             /\ RevokedStaysOld' /\ WifiOutputTracked'
  BY <1>2, CommandImpliesPingStep, RcNeutralWhenSilentStep,
     RevokedStaysOldStep, WifiOutputTrackedStep DEF IInv
<1>3. QED
  BY <1>1, <1>2, TypeCorrect, PTL DEF Spec, IInv

\* The Jetson's last sign of life is never older than the command in force.
THEOREM CommandImpliesPingAlways == ~Wraps => (Spec => []CommandImpliesPing)
BY InductiveInvariant, PTL DEF IInv

\* Thrust that is decided has a source in time.
LEMMA DecisionHasSource ==
    ASSUME IInv, ControlOutputs, NEW s \in Side, current'[s] # ESC_MID
    PROVE  \/ haveWifiCmd' /\ cmdAge <= UDP_TIMEOUT_MS + WIFI_GRACE_MS
           \/ rcAge[s] <= RC_FAILSAFE_MS + loopAge
<1>1. CASE JetsonOffline \/ RcFallback
  <2>1. current'[s] = SnapEscToNeutral(rcOut[s])
    BY <1>1 DEF JetsonOffline, RcFallback, UpdateThrusters
  <2>2. rcOut[s] \in Int
    BY PulseAssumption DEF IInv, TypeOK, Pulse
  <2>3. rcOut[s] # ESC_MID
    BY <2>1, <2>2, PulseAssumption DEF SnapEscToNeutral
  <2>4. QED
    BY <2>3 DEF IInv, RcNeutralWhenSilent
<1>2. CASE WifiDrives
  <2>1. haveWifiCmd' /\ cmdAge < UDP_TIMEOUT_MS
    BY <1>2 DEF WifiDrives, UdpActive
  <2>2. cmdAge \in Age
    BY DEF IInv, TypeOK
  <2>3. QED
    BY <2>1, <2>2, TimeAssumption DEF Age
<1>3. CASE GraceDecay
  BY <1>3 DEF GraceDecay, InGrace
<1>4. QED
  BY ControlCases, <1>1, <1>2, <1>3

\* No thrust without a live source, the README's neutral failsafe.
THEOREM ThrustAlwaysHasSource == ~Wraps => (Spec => ThrustHasSource)
<1> SUFFICES ASSUME ~Wraps PROVE Spec => ThrustHasSource
  OBVIOUS
<1>1. ASSUME IInv, ControlOutputs
      PROVE  \A s \in Side :
                current'[s] # ESC_MID =>
                   \/ haveWifiCmd' /\ cmdAge <= UDP_TIMEOUT_MS + WIFI_GRACE_MS
                   \/ rcAge[s] <= RC_FAILSAFE_MS + loopAge
  BY <1>1, DecisionHasSource
<1>2. QED
  BY <1>1, InductiveInvariant, PTL DEF ThrustHasSource

\* What the ESCs carry was decided in this iteration or, before the decision, in
\* the one before it: its source has aged by no more than that.
SourceAges ==
    \A s \in Side : current[s] # ESC_MID =>
        IF stage \in {"send", "rc"}
        THEN \/ cmdAge <= UDP_TIMEOUT_MS + WIFI_GRACE_MS + loopAge
             \/ rcAge[s] <= RC_FAILSAFE_MS + loopAge
        ELSE \/ cmdAge <= UDP_TIMEOUT_MS + WIFI_GRACE_MS + MaxIteration + loopAge
             \/ rcAge[s] <= RC_FAILSAFE_MS + MaxIteration + loopAge

\* Every step keeps the source of what the ESCs carry within its age.
LEMMA SourceAgesStep ==
    ASSUME ~Wraps, IInv, SourceAges, [Next]_vars
    PROVE  SourceAges'
<1> DEFINE life == UDP_TIMEOUT_MS + WIFI_GRACE_MS
<1>1. /\ cmdAge \in Nat /\ \A s \in Side : rcAge[s] \in Nat
      /\ loopAge \in 0 .. MaxIteration
      /\ life \in Nat /\ RC_FAILSAFE_MS \in Nat /\ MaxIteration \in Nat
  BY TimeAssumption DEF IInv, TypeOK, Age
<1> HIDE DEF life
<1>2. ASSUME NEW s \in Side, current'[s] # ESC_MID
      PROVE  IF stage' \in {"send", "rc"}
             THEN cmdAge' <= life + loopAge' \/ rcAge'[s] <= RC_FAILSAFE_MS + loopAge'
             ELSE \/ cmdAge' <= life + MaxIteration + loopAge'
                  \/ rcAge'[s] <= RC_FAILSAFE_MS + MaxIteration + loopAge'
  <2>1. ASSUME current'[s] = current[s]
        PROVE  IF stage \in {"send", "rc"}
               THEN cmdAge <= life + loopAge \/ rcAge[s] <= RC_FAILSAFE_MS + loopAge
               ELSE \/ cmdAge <= life + MaxIteration + loopAge
                    \/ rcAge[s] <= RC_FAILSAFE_MS + MaxIteration + loopAge
    BY <1>2, <2>1 DEF SourceAges, life
  <2>2. CASE Elapse
    <3>1. /\ stage' = stage /\ current' = current /\ loopAge' = loopAge + 1
          /\ cmdAge' = Older(cmdAge) /\ rcAge'[s] = Older(rcAge[s])
      BY <2>2 DEF Elapse, outputs
    <3>2. cmdAge \in Age /\ rcAge[s] \in Age
      BY DEF IInv, TypeOK
    <3>3. /\ Older(cmdAge) \in Nat /\ Older(cmdAge) <= cmdAge + 1
          /\ Older(rcAge[s]) \in Nat /\ Older(rcAge[s]) <= rcAge[s] + 1
      BY <3>2, OlderGrows, TimeAssumption DEF Age
    <3>4. CASE stage \in {"send", "rc"}
      BY <1>1, <2>1, <3>1, <3>3, <3>4
    <3>5. CASE stage \notin {"send", "rc"}
      BY <1>1, <2>1, <3>1, <3>3, <3>5
    <3>6. QED
      BY <3>4, <3>5
  <2>3. CASE ReadRcInputs
    <3>1. /\ stage = "rc" /\ stage' = "wifi" /\ current' = current
          /\ loopAge' = 0 /\ cmdAge' = cmdAge
          /\ rcAge'[s] = 0 \/ rcAge'[s] = rcAge[s]
      BY <2>3 DEF ReadRcInputs, outputs
    <3>2. cmdAge <= life + loopAge \/ rcAge[s] <= RC_FAILSAFE_MS + loopAge
      BY <2>1, <3>1
    <3>3. \/ cmdAge' <= life + MaxIteration + loopAge'
          \/ rcAge'[s] <= RC_FAILSAFE_MS + MaxIteration + loopAge'
      BY <1>1, <3>1, <3>2
    <3>4. QED
      BY <3>1, <3>3
  <2>4. CASE \/ CheckWiFiStatus \/ NoUdpCommand \/ DropUdpCommand \/ ReadHeartbeatPing
    <3>1. /\ stage \in {"wifi", "udp", "ping"} /\ stage' \in {"udp", "ping", "control"}
          /\ current' = current /\ loopAge' = loopAge
          /\ cmdAge' = cmdAge /\ rcAge' = rcAge
      BY <2>4 DEF CheckWiFiStatus, NoUdpCommand, DropUdpCommand, ReadHeartbeatPing,
         clocks, outputs
    <3>2. QED
      BY <2>1, <3>1
  <2>5. ASSUME NEW cmd \in [Side -> RawCommands], AcceptUdpCommand(cmd)
        PROVE  stage' = "ping" /\ cmdAge' <= life + MaxIteration + loopAge'
    <3>1. stage' = "ping" /\ cmdAge' = 0 /\ loopAge' = loopAge
      BY <2>5 DEF AcceptUdpCommand
    <3>2. 0 <= life + MaxIteration + loopAge
      BY <1>1
    <3>3. QED
      BY <3>1, <3>2
  <2>6. CASE ControlOutputs
    <3>1. cmdAge <= life \/ rcAge[s] <= RC_FAILSAFE_MS + loopAge
      BY <1>2, <2>6, DecisionHasSource DEF life
    <3>2. stage' = "send" /\ UNCHANGED <<cmdAge, rcAge, loopAge>>
      BY <2>6 DEF ControlOutputs, clocks
    <3>3. cmdAge' <= life + loopAge' \/ rcAge'[s] <= RC_FAILSAFE_MS + loopAge'
      BY <1>1, <3>1, <3>2
    <3>4. QED
      BY <3>2, <3>3
  <2>7. CASE SendTelemetry
    <3>1. /\ stage = "send" /\ stage' = "rc" /\ current' = current
          /\ UNCHANGED <<loopAge, cmdAge, rcAge>>
      BY <2>7 DEF SendTelemetry, clocks, outputs
    <3>2. QED
      BY <2>1, <3>1
  <2>8. CASE UNCHANGED vars
    BY <2>1, <2>8 DEF vars
  <2>9. QED
    BY <2>2, <2>3, <2>4, <2>5, <2>6, <2>7, <2>8 DEF Next, LoopStep, ReadUdpCommands
<1>3. QED
  BY <1>2 DEF SourceAges, life

\* Thrust ends in time: by two iterations after the last command is over and
\* the last accepted RC reading is too old, both ESCs are at neutral.
THEOREM ThrustEndsAlways == ~Wraps => (Spec => []ThrustEnds)
<1> SUFFICES ASSUME ~Wraps PROVE Spec => []ThrustEnds
  OBVIOUS
<1>1. Init => SourceAges
  BY DEF Init, SourceAges
<1>2. IInv /\ SourceAges /\ [Next]_vars => SourceAges'
  BY SourceAgesStep
<1>3. ASSUME IInv, SourceAges PROVE ThrustEnds
  <2>1. /\ cmdAge \in Nat /\ \A s \in Side : rcAge[s] \in Nat
        /\ loopAge \in 0 .. MaxIteration
        /\ UDP_TIMEOUT_MS \in Nat /\ WIFI_GRACE_MS \in Nat /\ RC_FAILSAFE_MS \in Nat
        /\ MaxIteration \in Nat
    BY <1>3, TimeAssumption DEF IInv, TypeOK, Age
  <2>2. QED
    BY <1>3, <2>1 DEF SourceAges, ThrustEnds
<1>4. QED
  BY <1>1, <1>2, <1>3, InductiveInvariant, PTL DEF Spec

\* After RC has taken over, only a new command returns control to WiFi.
THEOREM RegrantOnlyByCommandAlways == ~Wraps => (Spec => RegrantOnlyByCommand)
<1> SUFFICES ASSUME ~Wraps PROVE Spec => RegrantOnlyByCommand
  OBVIOUS
<1>1. ASSUME IInv, ControlOutputs, currentMode = 0, currentMode' = 1
      PROVE  haveWifiCmd /\ cmdAge <= loopAge
  <2>1. WifiDrives \/ GraceDecay
    BY <1>1, ControlCases DEF JetsonOffline, RcFallback
  <2>2. cmdAge \in Age
    BY <1>1 DEF IInv, TypeOK
  <2>3. haveWifiCmd
    BY <2>1 DEF WifiDrives, GraceDecay, UdpActive, InGrace
  <2>4. cmdAge < UDP_TIMEOUT_MS \/ cmdAge <= UDP_TIMEOUT_MS + WIFI_GRACE_MS
    BY <2>1 DEF WifiDrives, GraceDecay, UdpActive, InGrace
  <2>5. ~(cmdAge > UDP_TIMEOUT_MS + WIFI_GRACE_MS)
    BY <2>2, <2>4, TimeAssumption DEF Age
  <2>6. QED
    BY <1>1, <2>3, <2>5 DEF IInv, RevokedStaysOld, FreshCommand
<1>2. QED
  BY <1>1, InductiveInvariant, PTL DEF RegrantOnlyByCommand

\* Decaying before snapping never carries a pulse through neutral.
LEMMA DecaySlows ==
    ASSUME NEW p \in Pulse
    PROVE  Between(ESC_MID, SnapEscToNeutral(Decay(p)), SnapEscToNeutral(p))
BY PulseAssumption DEF Pulse, Between, SnapEscToNeutral, Decay, Constrain

\* In the grace period the ESCs only approach neutral.
THEOREM GraceOnlySlowsAlways == ~Wraps => (Spec => GraceOnlySlows)
<1> SUFFICES ASSUME ~Wraps PROVE Spec => GraceOnlySlows
  OBVIOUS
<1>1. ASSUME IInv, ControlOutputs, currentMode = 1, currentMode' = 1,
             cmdAge >= UDP_TIMEOUT_MS, cmdAge > loopAge, NEW s \in Side
      PROVE  Between(ESC_MID, current'[s], current[s])
  <2>1. cmdAge \in Age /\ loopAge \in Int /\ wifiOut[s] \in Pulse
    BY <1>1, TimeAssumption DEF IInv, TypeOK
  <2>2. current[s] = SnapEscToNeutral(wifiOut[s])
    BY <1>1, <2>1, TimeAssumption DEF IInv, WifiOutputTracked, FreshCommand, Age
  <2>3. GraceDecay
    <3>1. ~(cmdAge < UDP_TIMEOUT_MS)
      BY <1>1, <2>1, TimeAssumption DEF Age
    <3>2. QED
      BY <1>1, <3>1, ControlCases DEF JetsonOffline, WifiDrives, RcFallback,
         UdpActive
  <2>4. current'[s] = SnapEscToNeutral(Decay(wifiOut[s]))
    BY <2>3 DEF GraceDecay, UpdateThrusters
  <2>5. QED
    BY <2>1, <2>2, <2>4, DecaySlows
<1>2. ASSUME IInv, ControlOutputs, currentMode = 1, currentMode' = 1,
             cmdAge >= UDP_TIMEOUT_MS, cmdAge > loopAge
      PROVE  \A s \in Side : Between(ESC_MID, current'[s], current[s])
  BY <1>1, <1>2
<1>3. QED
  BY <1>2, InductiveInvariant, PTL DEF GraceOnlySlows

-----------------------------------------------------------------------------
(* The ramp.  Neither time nor its wrap-around plays a part in it.          *)

\* While WiFi drives, the ESCs carry the WiFi output, or one that the command
\* accepted in this iteration has moved by one ramp step since.
OneStepPending ==
    currentMode = 1 =>
        \A s \in Side : \E p \in Pulse :
            /\ current[s] = SnapEscToNeutral(p)
            /\ \/ wifiOut[s] = p
               \/ stage \in {"ping", "control"} /\ Near(wifiOut[s], p, WIFI_MAX_STEP_US)

\* The ramp limit reaches neutral from anywhere (500 and 400 in the code).
RampReachesNeutral ==
    /\ WIFI_MAX_STEP_US >= ESC_MAX - ESC_MID
    /\ WIFI_MAX_STEP_US >= ESC_MID - ESC_MIN

\* The step limit moves a pulse by at most WIFI_MAX_STEP_US.
LEMMA StepLimitIsNear ==
    ASSUME NEW from \in Pulse, NEW target \in Pulse
    PROVE  Near(StepLimit(from, target), from, WIFI_MAX_STEP_US)
BY PulseAssumption DEF Pulse, Near, StepLimit, Constrain

\* The snap to neutral may add to a step, but not more than its own width.
LEMMA SnapIsNear ==
    ASSUME RampReachesNeutral, NEW p \in Pulse, NEW q \in Pulse,
           Near(q, p, WIFI_MAX_STEP_US)
    PROVE  /\ Near(SnapEscToNeutral(q), SnapEscToNeutral(p),
                   WIFI_MAX_STEP_US + ESC_NEUTRAL_SNAP_US)
           /\ Near(SnapEscToNeutral(Decay(q)), SnapEscToNeutral(p),
                   WIFI_MAX_STEP_US + ESC_NEUTRAL_SNAP_US)
<1> USE PulseAssumption DEF Pulse, Near, SnapEscToNeutral, Constrain, RampReachesNeutral
<1>1. Near(SnapEscToNeutral(q), SnapEscToNeutral(p),
           WIFI_MAX_STEP_US + ESC_NEUTRAL_SNAP_US)
  OBVIOUS
<1>2. Near(SnapEscToNeutral(Decay(q)), SnapEscToNeutral(p),
           WIFI_MAX_STEP_US + ESC_NEUTRAL_SNAP_US)
  BY DEF Decay
<1> QED BY <1>1, <1>2

\* Every step keeps at most one ramp step between the ESCs and the WiFi output.
LEMMA OneStepPendingStep ==
    ASSUME TypeOK, OneStepPending, [Next]_vars
    PROVE  OneStepPending'
<1>1. CASE Elapse \/ ReadHeartbeatPing
  BY <1>1 DEF OneStepPending, Elapse, ReadHeartbeatPing, jetson, outputs
<1>2. ASSUME NEW cmd \in [Side -> RawCommands], AcceptUdpCommand(cmd)
      PROVE  OneStepPending'
  <2> SUFFICES ASSUME currentMode = 1, NEW s \in Side
               PROVE  \E p \in Pulse :
                        /\ current[s] = SnapEscToNeutral(p)
                        /\ Near(wifiOut'[s], p, WIFI_MAX_STEP_US)
    BY <1>2 DEF OneStepPending, AcceptUdpCommand, outputs
  <2>1. wifiOut[s] \in Pulse /\ current[s] = SnapEscToNeutral(wifiOut[s])
    BY <1>2 DEF TypeOK, OneStepPending, AcceptUdpCommand
  <2>2. Constrain(cmd[s], ESC_MIN, ESC_MAX) \in Pulse
    BY PulseAssumption, PulseTypes
  <2>3. wifiOut'[s] = StepLimit(wifiOut[s], Constrain(cmd[s], ESC_MIN, ESC_MAX))
    BY <1>2 DEF AcceptUdpCommand
  <2> QED BY <2>1, <2>2, <2>3, StepLimitIsNear
<1>3. CASE ControlOutputs
  <2>1. CASE JetsonOffline \/ RcFallback
    BY <2>1 DEF OneStepPending, JetsonOffline, RcFallback
  <2>2. CASE WifiDrives \/ GraceDecay
    <3>1. \A s \in Side : wifiOut'[s] \in Pulse
      BY <2>2, PulseTypes DEF TypeOK, WifiDrives, GraceDecay
    <3>2. \A s \in Side : current'[s] = SnapEscToNeutral(wifiOut'[s])
      BY <2>2 DEF WifiDrives, GraceDecay, UpdateThrusters
    <3> QED BY <3>1, <3>2 DEF OneStepPending
  <2> QED BY <1>3, <2>1, <2>2, ControlCases
<1>4. CASE \/ ReadRcInputs \/ CheckWiFiStatus \/ NoUdpCommand
           \/ DropUdpCommand \/ SendTelemetry \/ UNCHANGED vars
  <2>1. UNCHANGED <<wifiOut, currentMode, current>>
    BY <1>4 DEF ReadRcInputs, CheckWiFiStatus, NoUdpCommand, DropUdpCommand,
       SendTelemetry, vars, jetson, outputs
  <2>2. stage \notin {"ping", "control"} \/ stage' = stage
    BY <1>4 DEF ReadRcInputs, CheckWiFiStatus, NoUdpCommand, DropUdpCommand,
       SendTelemetry, vars
  <2> QED BY <2>1, <2>2 DEF OneStepPending
<1>5. QED
  BY <1>1, <1>2, <1>3, <1>4 DEF Next, LoopStep, ReadUdpCommands

\* A decision of WiFi keeps to the ramp: neither a command, nor the decay, nor
\* both in a slow iteration, in which the command has timed out when it is
\* acted upon, moves an ESC any further.
LEMMA DecisionIsNear ==
    ASSUME RampReachesNeutral, TypeOK, OneStepPending, ControlOutputs,
           currentMode = 1, currentMode' = 1, NEW s \in Side
    PROVE  Near(current'[s], current[s], WIFI_MAX_STEP_US + ESC_NEUTRAL_SNAP_US)
<1>1. PICK p \in Pulse : /\ current[s] = SnapEscToNeutral(p)
                         /\ wifiOut[s] = p \/ Near(wifiOut[s], p, WIFI_MAX_STEP_US)
  BY DEF OneStepPending
<1>2. wifiOut[s] \in Pulse
  BY DEF TypeOK
<1>3. Near(wifiOut[s], p, WIFI_MAX_STEP_US)
  BY <1>1, <1>2, PulseAssumption DEF Near, Pulse
<1>4. \/ current'[s] = SnapEscToNeutral(wifiOut[s])
      \/ current'[s] = SnapEscToNeutral(Decay(wifiOut[s]))
  BY ControlCases DEF JetsonOffline, WifiDrives, GraceDecay, RcFallback,
     UpdateThrusters
<1> QED BY <1>1, <1>2, <1>3, <1>4, SnapIsNear

\* No step is pending at power-on.
LEMMA NothingPendingAtStart ==
    ASSUME Init
    PROVE  OneStepPending
<1>1. currentMode # 1
  BY DEF Init
<1> QED BY <1>1 DEF OneStepPending

\* While WiFi keeps driving, no iteration moves an ESC by more than the ramp
\* limit and the snap to neutral.
THEOREM WifiSlewLimitedAlways == RampReachesNeutral => (Spec => WifiSlewLimited)
<1> SUFFICES ASSUME RampReachesNeutral PROVE Spec => WifiSlewLimited
  OBVIOUS
<1>1. Init => OneStepPending
  BY NothingPendingAtStart
<1>2. TypeOK /\ OneStepPending /\ [Next]_vars => OneStepPending'
  BY OneStepPendingStep
<1>3. TypeOK /\ OneStepPending =>
        (ControlOutputs /\ currentMode = 1 /\ currentMode' = 1
           => \A s \in Side : Near(current'[s], current[s],
                                   WIFI_MAX_STEP_US + ESC_NEUTRAL_SNAP_US))
  BY DecisionIsNear
<1>4. QED
  BY <1>1, <1>2, <1>3, TypeCorrect, PTL DEF Spec, WifiSlewLimited

-----------------------------------------------------------------------------
(* The abstract specification of who drives.                               *)

\* What the inputs of a decision rest on, apart from the output itself.
LEMMA InputStepIsAllowed ==
    ASSUME ~Wraps, IInv, Next, ~ControlOutputs
    PROVE  Authority!Next \/ UNCHANGED Authority!vars
<1> USE DEF Authority!vars, Authority!inputs
<1>1. CASE Elapse
  <2>1. /\ cmdAge \in Age /\ loopAge \in Int /\ loopAge < MaxIteration
        /\ loopAge' = loopAge + 1
        /\ cmdAge' = Older(cmdAge)
    BY <1>1, TimeAssumption DEF Elapse, IInv, TypeOK
  <2>2. /\ cmdAge' \in {cmdAge, cmdAge + 1}
        /\ (cmdAge <= loopAge)' = (cmdAge <= loopAge)
    BY <2>1, TimeAssumption DEF Older, Age
  <2>3. \A s \in Side : rcAge'[s] \in {rcAge[s], rcAge[s] + 1}
    BY <1>1 DEF Elapse, Older, IInv, TypeOK
  <2>4. stage # "control" /\ UNCHANGED <<stage, currentMode, current, haveWifiCmd, rcOut>>
    BY <1>1 DEF Elapse, jetson, outputs
  <2> QED BY <2>2, <2>3, <2>4 DEF Authority!Next, Authority!Tick
<1>2. CASE ReadRcInputs
  <2>1. /\ stage = "rc" /\ stage' = "wifi" /\ loopAge' = 0
        /\ UNCHANGED <<currentMode, current, haveWifiCmd, cmdAge>>
    BY <1>2 DEF ReadRcInputs, jetson, outputs
  <2>2. cmdAge' <= loopAge' => cmdAge <= loopAge
    BY <2>1, TimeAssumption DEF IInv, TypeOK, Age
  <2>3. \A s \in Side : /\ rcAge'[s] \in {rcAge[s], 0}
                        /\ rcOut'[s] # ESC_MID => rcAge'[s] <= RC_FAILSAFE_MS
    BY <1>2, TimeAssumption DEF ReadRcInputs, RcLevel, IInv, TypeOK, Age
  <2> QED BY <2>1, <2>2, <2>3 DEF Authority!Next, Authority!ReadSticks
<1>3. CASE AcceptedCommand
  <2>1. /\ stage = "udp" /\ stage' = "ping" /\ haveWifiCmd' /\ cmdAge' = 0
        /\ UNCHANGED <<loopAge, currentMode, current, rcOut, rcAge>>
    BY <1>3 DEF AcceptedCommand, AcceptUdpCommand, outputs
  <2>2. cmdAge' <= loopAge'
    BY <2>1, TimeAssumption DEF IInv, TypeOK
  <2> QED BY <2>1, <2>2 DEF Authority!Next, Authority!Command
<1>4. CASE \/ CheckWiFiStatus \/ NoUdpCommand \/ DropUdpCommand
           \/ ReadHeartbeatPing \/ SendTelemetry
  <2>1. UNCHANGED <<loopAge, cmdAge, currentMode, current, haveWifiCmd, rcOut, rcAge>>
    BY <1>4 DEF CheckWiFiStatus, NoUdpCommand, DropUdpCommand, ReadHeartbeatPing,
       SendTelemetry, clocks, jetson, outputs
  <2>2. stage # "control"
    BY <1>4 DEF CheckWiFiStatus, NoUdpCommand, DropUdpCommand, ReadHeartbeatPing,
       SendTelemetry
  <2> QED BY <2>1, <2>2 DEF Authority!Next, Authority!InputsRead
<1> QED
  BY <1>1, <1>2, <1>3, <1>4 DEF Next, LoopStep, ReadUdpCommands, AcceptedCommand

\* Every branch of determineControlMode is a decision that may be made.
LEMMA DecisionIsAllowed ==
    ASSUME RampReachesNeutral, IInv, IInv', OneStepPending, ControlOutputs
    PROVE  Authority!Decide
<1> USE DEF Authority!inputs
<1>0. /\ stage = "control" /\ stage' = "send"
      /\ UNCHANGED <<loopAge, cmdAge, rcOut, rcAge>>
      /\ cmdAge \in Age /\ loopAge \in Int
      /\ current' \in [Side -> Pulse] /\ currentMode \in {0, 1}
  BY TimeAssumption DEF ControlOutputs, clocks, IInv, TypeOK
<1>1. CASE JetsonOffline \/ RcFallback
  <2>1. haveWifiCmd => \/ cmdAge > UDP_TIMEOUT_MS + WIFI_GRACE_MS
                       \/ cmdAge >= JETSON_ONLINE_TIMEOUT_MS
    <3>1. JETSON_ONLINE_TIMEOUT_MS \in Nat /\ pingAge \in Nat /\ cmdAge \in Nat
      BY <1>0, TimeAssumption DEF IInv, TypeOK, Age
    <3>2. CASE JetsonOffline
      <4>1. haveWifiCmd => ~(pingAge < JETSON_ONLINE_TIMEOUT_MS) /\ pingAge <= cmdAge
        BY <3>2 DEF JetsonOffline, IsJetsonOnline, IInv, CommandImpliesPing
      <4> QED BY <3>1, <4>1
    <3>3. CASE RcFallback
      <4>1. haveWifiCmd => ~(cmdAge <= UDP_TIMEOUT_MS + WIFI_GRACE_MS)
        BY <3>3 DEF RcFallback, InGrace
      <4> QED BY <3>1, <4>1, TimeAssumption
    <3> QED BY <1>1, <3>2, <3>3
  <2>2. \A s \in Side : current'[s] \in {rcOut[s], ESC_MID}
    BY <1>1, PulseAssumption DEF JetsonOffline, RcFallback, UpdateThrusters,
       SnapEscToNeutral, Constrain, IInv, TypeOK, Pulse
  <2>3. currentMode' = 0 /\ (haveWifiCmd' => haveWifiCmd)
    BY <1>1 DEF JetsonOffline, RcFallback
  <2> QED BY <1>0, <2>1, <2>2, <2>3 DEF Authority!Decide, Authority!FollowSticks
<1>2. CASE WifiDrives \/ GraceDecay
  <2>1. /\ currentMode' = 1 /\ haveWifiCmd /\ UNCHANGED haveWifiCmd
        /\ cmdAge <= UDP_TIMEOUT_MS + WIFI_GRACE_MS
    BY <1>0, <1>2, TimeAssumption DEF WifiDrives, GraceDecay, UdpActive, InGrace, Age
  <2>2. currentMode = 1 => \A s \in Side :
           Near(current'[s], current[s], WIFI_MAX_STEP_US + ESC_NEUTRAL_SNAP_US)
    BY <2>1, DecisionIsNear DEF IInv
  <2>3. CASE cmdAge <= loopAge
    BY <1>0, <2>1, <2>2, <2>3 DEF Authority!Decide, Authority!FollowCommand,
       Authority!Near, Near
  <2>4. CASE ~(cmdAge <= loopAge)
    <3>1. /\ currentMode = 1
          /\ \A s \in Side : current[s] = SnapEscToNeutral(wifiOut[s])
      BY <1>0, <2>1, <2>4, TimeAssumption DEF IInv, RevokedStaysOld, WifiOutputTracked,
         FreshCommand, Age
    <3>2. CASE WifiDrives
      <4>1. current' = current
        BY <3>1, <3>2 DEF WifiDrives, UpdateThrusters, IInv, TypeOK
      <4> QED BY <1>0, <2>1, <3>1, <3>2, <4>1 DEF WifiDrives, UdpActive,
                 Authority!Decide, Authority!KeepThrust
    <3>3. CASE GraceDecay
      <4>1. cmdAge \in UDP_TIMEOUT_MS .. UDP_TIMEOUT_MS + WIFI_GRACE_MS
        BY <1>0, <2>1, <3>3, TimeAssumption DEF GraceDecay, InGrace, UdpActive, Age
      <4>2. \A s \in Side : Between(ESC_MID, current'[s], current[s])
        BY <3>1, <3>3, DecaySlows DEF GraceDecay, UpdateThrusters, IInv, TypeOK
      <4>3. \A s \in Side : Authority!TowardNeutral(current[s], current'[s])
        BY <4>2 DEF Between, Authority!TowardNeutral
      <4> QED BY <1>0, <2>1, <2>2, <3>1, <4>1, <4>3 DEF Authority!Decide,
                 Authority!SlowDown, Authority!Near, Near
    <3> QED BY <1>2, <3>2, <3>3
  <2> QED BY <2>3, <2>4
<1> QED BY <1>1, <1>2, ControlCases

\* The control loop implements the abstract specification of who drives: its
\* stages, blocked calls and remembered outputs show in no decision.
THEOREM ControlIsGrantedAlways ==
    ASSUME ~Wraps, RampReachesNeutral
    PROVE  Spec => ControlIsGranted
<1>1. Init => Authority!Init
  BY TimeAssumption DEF Init, Authority!Init, Authority!AtNeutral
<1>2. Init => OneStepPending
  BY NothingPendingAtStart
<1>3. IInv /\ OneStepPending /\ [Next]_vars => OneStepPending'
  BY OneStepPendingStep DEF IInv
<1>4. IInv /\ IInv' /\ OneStepPending /\ [Next]_vars => [Authority!Next]_Authority!vars
  <2>1. CASE UNCHANGED vars
    BY <2>1 DEF vars, Authority!vars
  <2>2. CASE ControlOutputs
    BY <2>2, DecisionIsAllowed DEF Authority!Next
  <2>3. CASE Next /\ ~ControlOutputs
    BY <2>3, InputStepIsAllowed
  <2> QED BY <2>1, <2>2, <2>3
<1>5. QED
  BY <1>1, <1>2, <1>3, <1>4, InductiveInvariant, PTL DEF Spec, ControlIsGranted, Authority!Spec
=============================================================================
