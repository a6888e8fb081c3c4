------------------------ MODULE SensorMonitorProofs ------------------------
(***************************************************************************)
(* Theorems about SensorMonitor, for any number of threads that share a    *)
(* monitor without a lock, whatever the sensor, the probes and the         *)
(* verdicts: a device that comes and goes does not flood the alert store,  *)
(* every kind of sensor has a status to show in every case, and a card     *)
(* that shows what the device is goes on to show it.                       *)
(***************************************************************************)
EXTENDS SensorMonitor, FiniteSetTheorems, TLAPS

\* The threads that have found an alert due and not yet recorded it.
AboutToAlert == {c \in Checkers : pc[c] = "alert"}

\* Whoever will still record an alert in this cooldown was about to when it
\* began: each thread is counted once, before or after its alert.
EachAlertsOnce ==
  /\ alerts \in Nat /\ pc \in [Checkers -> {"idle", "lost", "alert", "reached", "card"}]
  /\ cooling => alerts + Cardinality(AboutToAlert) <= Cardinality(Checkers)
  /\ ~cooling => alerts = 0

\* The threads that share a monitor can be counted, and so can any of them.
LEMMA CheckersCounted ==
  ASSUME NEW S \in SUBSET Checkers
  PROVE  /\ IsFiniteSet(S) /\ Cardinality(S) \in Nat
         /\ Cardinality(Checkers) \in Nat /\ Cardinality(S) <= Cardinality(Checkers)
BY CheckersAssumption, FS_Subset, FS_CardinalityType

\* A thread that does not come to be about to alert changes the count only
\* downwards.
LEMMA FewerToAlert ==
  ASSUME NEW S \in SUBSET Checkers, NEW T \in SUBSET S
  PROVE  Cardinality(T) <= Cardinality(S)
BY CheckersCounted, FS_Subset

\* Every step keeps the count of alerts and of threads about to raise one.
LEMMA AlertsStep ==
  ASSUME EachAlertsOnce, [Next]_vars
  PROVE  EachAlertsOnce'
<1> DEFINE N == Cardinality(Checkers)
           due == Cardinality(AboutToAlert)
<1>0. /\ N \in Nat /\ due \in Nat /\ due <= N
      /\ AboutToAlert \in SUBSET Checkers /\ AboutToAlert' \in SUBSET Checkers
      /\ due' \in Nat
  BY CheckersCounted DEF AboutToAlert
\* Steps that leave this part alone, and those of a thread whose part of the
\* check begins or ends with no alert.
<1>1. ASSUME UNCHANGED <<cooling, alerts>>, AboutToAlert' \subseteq AboutToAlert,
             pc' \in [Checkers -> {"idle", "lost", "alert", "reached", "card"}]
      PROVE  EachAlertsOnce'
  <2>1. due' <= due BY <1>0, <1>1, FewerToAlert
  <2> QED BY <1>0, <1>1, <2>1 DEF EachAlertsOnce
<1>2. CASE CooldownEnds
  BY <1>2 DEF EachAlertsOnce, CooldownEnds
<1>3. CASE \/ Settle \/ GraceEnds \/ DataAges \/ MessageArrives \/ ProbeOnly
           \/ UNCHANGED vars
  <2>1. UNCHANGED <<cooling, alerts, pc>>
    BY <1>3 DEF Settle, GraceEnds, DataAges, MessageArrives, ProbeOnly, vars
  <2> QED BY <1>1, <2>1 DEF EachAlertsOnce, AboutToAlert
<1>4. ASSUME NEW c \in Checkers, Probe(c) \/ Judge(c) \/ JudgeBattery(c)
             \/ CheckRaises(c) \/ Card(c)
      PROVE  EachAlertsOnce'
  <2>1. /\ UNCHANGED <<cooling, alerts>>
        /\ \E label \in {"lost", "reached", "card", "idle"} : pc' = [pc EXCEPT ![c] = label]
    BY <1>4 DEF Probe, Judge, JudgeBattery, Judged, CheckRaises, Card
  <2>2. AboutToAlert' \subseteq AboutToAlert
    BY <2>1 DEF EachAlertsOnce, AboutToAlert
  <2>3. pc' \in [Checkers -> {"idle", "lost", "alert", "reached", "card"}]
    BY <2>1 DEF EachAlertsOnce
  <2> QED BY <1>1, <2>1, <2>2, <2>3
\* Only outside a cooldown does a thread come to be about to alert.
<1>5. ASSUME NEW c \in Checkers, Lost(c) PROVE EachAlertsOnce'
  <2>1. CASE cooling
    <3>1. pc' = [pc EXCEPT ![c] = "card"] /\ UNCHANGED <<cooling, alerts>>
      BY <1>5, <2>1 DEF Lost
    <3>2. AboutToAlert' \subseteq AboutToAlert
      BY <3>1 DEF EachAlertsOnce, AboutToAlert
    <3> QED BY <1>1, <3>1, <3>2 DEF EachAlertsOnce
  <2>2. CASE ~cooling
    BY <1>5, <2>2 DEF Lost, EachAlertsOnce
  <2> QED BY <2>1, <2>2
<1>6. ASSUME NEW c \in Checkers, Alert(c) PROVE EachAlertsOnce'
  <2>1. c \in AboutToAlert /\ AboutToAlert' = AboutToAlert \ {c}
    BY <1>6 DEF Alert, EachAlertsOnce, AboutToAlert
  <2>2. due' = due - 1
    BY <1>0, <2>1, CheckersCounted, FS_RemoveElement
  <2>3. cooling' = TRUE /\ alerts' = alerts + 1
    BY <1>6 DEF Alert
  <2>4. pc' \in [Checkers -> {"idle", "lost", "alert", "reached", "card"}]
    BY <1>6 DEF Alert, EachAlertsOnce
  <2> QED BY <1>0, <2>2, <2>3, <2>4 DEF EachAlertsOnce
<1> QED
  BY <1>2, <1>3, <1>4, <1>5, <1>6 DEF Next, Check

\* Within one cooldown every thread records at most one disconnection, however
\* the threads interleave between the check of the stamp and the stamp itself.
THEOREM AlertsPerCooldownAlways == Spec => []AlertsPerCooldown
<1>1. Init => EachAlertsOnce
  BY DEF Init, EachAlertsOnce
<1>2. EachAlertsOnce /\ [Next]_vars => EachAlertsOnce'
  BY AlertsStep
<1>3. EachAlertsOnce => AlertsPerCooldown
  <2>1. /\ Cardinality(Checkers) \in Nat /\ Cardinality(AboutToAlert) \in Nat
    BY CheckersCounted DEF AboutToAlert
  <2> QED BY <2>1 DEF EachAlertsOnce, AlertsPerCooldown
<1> QED BY <1>1, <1>2, <1>3, PTL DEF Spec
-----------------------------------------------------------------------------
(* Types *)

\* The status levels, one by one.
LEMMA StatusLevels ==
  StatusLevel = {"critical", "disconnected", "warning", "unknown", "stopped", "connected", "ok"}
BY DEF StatusLevel, STATUS_PRIORITY

\* What a probe leaves in the memory is one, and what it says a boolean; the
\* memory counts failures no further than one beyond max_consecutive_failures.
LEMMA MemoryStays ==
  ASSUME NEW m \in Memory, NEW answered \in BOOLEAN
  PROVE  /\ ProbeResult(m, answered).memory \in Memory
         /\ ProbeResult(m, answered).reachable \in BOOLEAN
<1>1. m.failures \in 0..MaxFailures + 1 /\ m.graced \in BOOLEAN /\ MaxFailures \in Nat
  BY SensorsAssumption DEF Memory
<1>2. (IF m.failures > MaxFailures THEN m.failures ELSE m.failures + 1) \in 0..MaxFailures + 1
  BY <1>1
<1>3. AfterProbe(m, answered) \in Memory
  <2>1. CASE answered
    <3>1. 0 \in 0..MaxFailures + 1
      BY <1>1
    <3> QED BY <2>1, <3>1 DEF AfterProbe, Memory
  <2>2. CASE ~answered
    <3> DEFINE n == IF m.failures > MaxFailures THEN m.failures ELSE m.failures + 1
    <3>1. AfterProbe(m, answered) = [m EXCEPT !.failures = n]
      BY <2>2 DEF AfterProbe
    <3>2. n \in 0..MaxFailures + 1
      BY <1>2
    <3> HIDE DEF n
    <3> QED BY <3>1, <3>2 DEF Memory
  <2> QED BY <2>1, <2>2
<1> QED BY <1>1, <1>3 DEF ProbeResult, Cached

\* The answers of a probe, whichever the sensor.
LEMMA ProbeTyped ==
  ASSUME mem \in Memory, kind \in Kinds, NEW o \in ProbeObs
  PROVE  ProbeStep(o).memory \in Memory /\ ProbeStep(o).reachable \in BOOLEAN
<1>1. o.quick \in BOOLEAN /\ o.ping \in BOOLEAN
  BY DEF ProbeObs
<1>2. /\ Lidar!Connectivity(mem, o) = ProbeResult(mem, o.quick \/ o.ping)
      /\ Cam!Connectivity(mem, o) = ProbeResult(mem, o.quick \/ o.ping)
      /\ Small!UliConnectivity(mem, o) = ProbeResult(mem, o.ping)
      /\ Arduino!Connectivity(mem, o) = ProbeResult(mem, o.ping)
  BY DEF Lidar!Connectivity, Lidar!ProbeResult, Lidar!AfterProbe, Lidar!Cached,
         Cam!Connectivity, Cam!ProbeResult, Cam!AfterProbe, Cam!Cached,
         Small!UliConnectivity, Small!ProbeResult, Small!AfterProbe, Small!Cached,
         Arduino!Connectivity, Arduino!ProbeResult, Arduino!AfterProbe, Arduino!Cached,
         ProbeResult, AfterProbe, Cached
<1>3. CASE kind \in {"navi_lidar", "camera"}
  <2>1. ProbeStep(o) = ProbeResult(mem, o.quick \/ o.ping)
    BY <1>2, <1>3, Zenon DEF ProbeStep
  <2> QED BY <1>1, <2>1, MemoryStays
<1>4. CASE kind \in {"uli_lidar", "thruster"}
  <2>1. ProbeStep(o) = ProbeResult(mem, o.ping)
    BY <1>2, <1>4, Zenon DEF ProbeStep
  <2> QED BY <1>1, <2>1, MemoryStays
<1>5. CASE kind = "imu"
  <2>1. ProbeStep(o) = [memory |-> mem, reachable |-> o.quick]
    BY <1>5, Zenon DEF ProbeStep, Small!SerialConnected
  <2> QED BY <1>1, <2>1
<1>6. CASE kind = "pi5_sensors"
  <2>1. ProbeStep(o) = [memory |-> mem, reachable |-> o.ping]
    BY <1>6, Zenon DEF ProbeStep
  <2> QED BY <1>1, <2>1
<1>7. CASE kind = "battery"
  <2>1. ProbeStep(o) = [memory |-> mem, reachable |-> o.quick]
    BY <1>7, Zenon DEF ProbeStep
  <2> QED BY <1>1, <2>1
<1> QED BY <1>3, <1>4, <1>5, <1>6, <1>7, SensorsAssumption

\* Every verdict that a monitor comes to is a status level.
LEMMA VerdictsTyped ==
  ASSUME NEW k \in Kinds \ {"battery"}, NEW r, NEW g, NEW flag
  PROVE  Verdicts(k, r, g, flag) \subseteq StatusLevel
<1> USE StatusLevels
<1>1. CASE k = "navi_lidar"
  <2>1. \A log : Lidar!Verdict(g, log) \in {"connected", "ok", "critical", "warning"}
    BY Zenon DEF Lidar!Verdict
  <2>2. Verdicts(k, r, g, flag) = {Lidar!Verdict(g, log) : log \in LidarLogs(r)}
    BY <1>1, Zenon DEF Verdicts
  <2> QED BY <2>1, <2>2
<1>2. CASE k = "camera"
  <2>1. \A log : Cam!Verdict(g, log) \in {"connected", "ok", "critical", "warning"}
    BY Zenon DEF Cam!Verdict
  <2>2. Verdicts(k, r, g, flag) = {Cam!Verdict(g, log) : log \in CameraLogs(r)}
    BY <1>2, Zenon DEF Verdicts
  <2> QED BY <2>1, <2>2
<1>3. CASE k = "uli_lidar"
  <2>1. Verdicts(k, r, g, flag) = {Small!UliVerdict(loses) : loses \in Losses(r)}
    BY <1>3, Zenon DEF Verdicts
  <2> QED BY <2>1 DEF Small!UliVerdict
<1>4. CASE k = "pi5_sensors"
  <2>1. \A o, mqtt : Small!Pi5Verdict(o, mqtt) \in {"disconnected", "ok", "connected"}
    BY Zenon DEF Small!Pi5Verdict
  <2>2. Verdicts(k, r, g, flag) = {Small!Pi5Verdict([ping |-> TRUE], IF flag THEN {"ups"} ELSE {})}
    BY <1>4, Zenon DEF Verdicts
  <2> QED BY <2>1, <2>2
<1>5. CASE k = "imu"
  <2>1. Small!ImuVerdict(g, flag) \in {"connected", "ok", "warning"}
    BY Zenon DEF Small!ImuVerdict
  <2>2. Verdicts(k, r, g, flag) = {Small!ImuVerdict(g, flag)}
    BY <1>5, Zenon DEF Verdicts
  <2> QED BY <2>1, <2>2
<1>6. CASE k = "thruster"
  <2>1. Arduino!Verdict(g, flag) \in {"connected", "ok", "warning"}
    BY Zenon DEF Arduino!Verdict
  <2>2. Verdicts(k, r, g, flag) = {Arduino!Verdict(g, flag)}
    BY <1>6, Zenon DEF Verdicts
  <2> QED BY <2>1, <2>2
<1> QED BY <1>1, <1>2, <1>3, <1>4, <1>5, <1>6, SensorsAssumption

\* What is said of a topic is one of three words.
LEMMA TopicWords ==
  ASSUME NEW k, NEW g, NEW voltages
  PROVE  TopicMetric(k, g, voltages) \in {"yes", "no", "unknown"}
<1>1. \A b : YesNo(b) \in {"yes", "no"}
  BY DEF YesNo
<1> QED BY <1>1, Zenon DEF TopicMetric

\* The judgements of a kind are pairs of a verdict and a word for its topic.
LEMMA JudgementsTyped ==
  ASSUME kind \in Kinds \ {"battery"}, regime \in Regimes \cup {"any"}, NEW flag \in BOOLEAN,
         NEW j \in Judgements[kind][regime][flag]
  PROVE  j[1] \in StatusLevel /\ j[2] \in {"yes", "no", "unknown"}
<1>1. PICK k \in Kinds \ {"battery"} : k = kind
  OBVIOUS
<1>2. PICK r \in Regimes \cup {"any"} : r = regime
  OBVIOUS
<1> DEFINE Pairs(x, y, f) ==
      UNION {{<<v, TopicMetric(x, g, "none")>> : v \in Verdicts(x, y, g, f)} : g \in Graphs(y)}
<1>3. Judgements = [x \in Kinds \ {"battery"} |->
                      [y \in Regimes \cup {"any"} |-> [f \in BOOLEAN |-> Pairs(x, y, f)]]]
  BY DEF Judgements
<1> HIDE DEF Pairs
<1>4. Judgements[k][r][flag] = Pairs(k, r, flag)
  BY <1>3
<1>5. j \in Pairs(k, r, flag)
  BY <1>1, <1>2, <1>4
<1>6. PICK g \in Graphs(r) : \E v \in Verdicts(k, r, g, flag) : j = <<v, TopicMetric(k, g, "none")>>
  BY <1>5 DEF Pairs
<1>7. PICK v \in Verdicts(k, r, g, flag) : j = <<v, TopicMetric(k, g, "none")>>
  BY <1>6
<1>8. v \in StatusLevel
  BY VerdictsTyped
<1>9. TopicMetric(k, g, "none") \in {"yes", "no", "unknown"}
  BY TopicWords
<1> QED BY <1>7, <1>8, <1>9

\* The status on a card is a status level.
LEMMA CardTyped ==
  ASSUME NEW k, NEW status \in StatusLevel \cup {"none"}, NEW connected, NEW node, NEW topic
  PROVE  FinalStatus(k, Summary(status), connected, node, topic) \in StatusLevel
<1>1. Summary(status) \in StatusLevel
  BY StatusLevels DEF Summary
<1>2. {"ok", "connected", "disconnected"} \subseteq StatusLevel
  BY StatusLevels
<1> QED BY <1>1, <1>2, Zenon DEF FinalStatus

\* What is probed in any regime is an observation of the two tests.
LEMMA ProbesObserved == Probes \subseteq ProbeObs
<1>1. /\ {[quick |-> FALSE, ping |-> FALSE]} \subseteq ProbeObs
      /\ {[quick |-> TRUE, ping |-> TRUE]} \subseteq ProbeObs
  BY DEF ProbeObs
<1>2. CASE regime = "any"
  BY <1>2, Zenon DEF Probes
<1>3. CASE regime = "gone"
  BY <1>1, <1>3, Zenon DEF Probes
<1>4. CASE regime # "any" /\ regime # "gone"
  BY <1>1, <1>4, Zenon DEF Probes
<1> QED BY <1>2, <1>3, <1>4

\* A probe, the alert and the end of a check that raised keep the types.
LEMMA TypeStepProbe ==
  ASSUME TypeOK, NEW c \in Checkers, Probe(c) \/ Lost(c) \/ Alert(c) \/ CheckRaises(c)
  PROVE  TypeOK'
<1> USE DEF TypeOK, own
<1>1. CASE Probe(c)
  <2>1. PICK o \in Probes :
          /\ mem' = ProbeStep(o).memory
          /\ reach' = [reach EXCEPT ![c] = ReachWord(o, ProbeStep(o).reachable)]
          /\ \E label \in {"lost", "reached"} : pc' = [pc EXCEPT ![c] = label]
    BY <1>1 DEF Probe
  <2>2. o \in ProbeObs
    BY <2>1, ProbesObserved
  <2>3. mem' \in Memory
    BY <2>1, <2>2, ProbeTyped
  <2>4. ReachWord(o, ProbeStep(o).reachable) \in Connections
    BY Zenon DEF ReachWord, Connections
  <2> QED BY <1>1, <2>1, <2>3, <2>4 DEF Probe
<1>2. CASE Lost(c)
  BY <1>2, StatusLevels DEF Lost
<1>3. CASE Alert(c)
  <2>1. alerts' \in Nat
    <3>1. alerts \in Nat
      OBVIOUS
    <3>2. alerts' = alerts + 1
      BY <1>3 DEF Alert
    <3> HIDE DEF TypeOK
    <3> QED BY <3>1, <3>2
  <2>2. last' \in StatusLevel \cup {"none"}
    BY <1>3, StatusLevels DEF Alert
  <2>3. /\ pc' = [pc EXCEPT ![c] = "card"] /\ cooling' = TRUE /\ was' = FALSE
        /\ UNCHANGED <<kind, regime, mem, side, own, card>>
    BY <1>3 DEF Alert
  <2> QED BY <2>1, <2>2, <2>3
<1>4. CASE CheckRaises(c)
  BY <1>4, StatusLevels DEF CheckRaises, Forget, ErrorStatus, Connections
<1> QED BY <1>1, <1>2, <1>3, <1>4

\* The verdict and the card keep the types.
LEMMA TypeStepJudge ==
  ASSUME TypeOK, NEW c \in Checkers, Judge(c) \/ JudgeBattery(c) \/ Card(c)
  PROVE  TypeOK'
<1> USE DEF TypeOK, own
<1>1. CASE Judge(c)
  <2>1. PICK heard \in Heard(regime) :
          LET beat == Arduino!Heartbeat(mem, heard)
              flag == CASE kind = "thruster" -> beat.reachable
                        [] kind = "imu" -> side.done
                        [] OTHER -> side.mqtt # {}
          IN /\ kind # "battery" /\ Judged(c)
             /\ mem' = IF kind = "thruster" THEN beat.memory ELSE mem
             /\ \E j \in Judgements[kind][regime][flag] :
                  /\ last' = j[1] /\ topics' = [topics EXCEPT ![c] = j[2]]
                  /\ side' = [side EXCEPT !.done = @ \/ (kind = "imu" /\ j[2] = "yes")]
    BY <1>1 DEF Judge
  <2> DEFINE beat == Arduino!Heartbeat(mem, heard)
             flag == CASE kind = "thruster" -> beat.reachable
                       [] kind = "imu" -> side.done
                       [] OTHER -> side.mqtt # {}
  <2>2. heard \in BOOLEAN
    BY <2>1, Zenon DEF Heard
  <2>3. beat = ProbeResult(mem, heard)
    BY DEF Arduino!Heartbeat, Arduino!ProbeResult, Arduino!AfterProbe, Arduino!Cached,
           ProbeResult, AfterProbe, Cached
  <2>4. beat.memory \in Memory /\ beat.reachable \in BOOLEAN
    BY <2>2, <2>3, MemoryStays
  <2>5. side.done \in BOOLEAN
    BY DEF Side
  <2>6. flag \in BOOLEAN
    <3>1. (side.mqtt # {}) \in BOOLEAN
      OBVIOUS
    <3> HIDE DEF beat
    <3> QED BY <2>4, <2>5, <3>1, Zenon
  <2> HIDE DEF flag, beat
  <2>7. PICK j \in Judgements[kind][regime][flag] :
          /\ last' = j[1] /\ topics' = [topics EXCEPT ![c] = j[2]]
          /\ side' = [side EXCEPT !.done = @ \/ (kind = "imu" /\ j[2] = "yes")]
    BY <2>1 DEF flag, beat
  <2>8. kind \in Kinds \ {"battery"} /\ Judged(c) /\ mem' = IF kind = "thruster" THEN beat.memory ELSE mem
    BY <2>1 DEF beat
  <2>9. j[1] \in StatusLevel /\ j[2] \in {"yes", "no", "unknown"}
    BY <2>6, <2>7, <2>8, JudgementsTyped
  <2>10. mem' \in Memory
    BY <2>4, <2>8
  <2>11. side' \in Side
    <3> DEFINE b == side.done \/ (kind = "imu" /\ j[2] = "yes")
    <3>1. b \in BOOLEAN /\ side' = [side EXCEPT !.done = b]
      BY <2>7
    <3> HIDE DEF b
    <3> QED BY <3>1 DEF Side
  <2>12. topics' \in [Checkers -> {"yes", "no", "unknown"}]
    BY <2>7, <2>9
  <2> QED BY <2>7, <2>8, <2>9, <2>10, <2>11, <2>12 DEF Judged
<1>2. CASE JudgeBattery(c)
  <2>1. PICK g \in BatteryGraphs[regime] :
          LET voltages == IF GraphUsable(g)
                          THEN Battery!ReadBatteryData(side.voltages, side.throttled, g)
                          ELSE side.voltages
              i2c == IF reach[c] = "--" THEN "unknown" ELSE "connected"
          IN /\ kind = "battery" /\ Judged(c)
             /\ side' = [side EXCEPT !.voltages = voltages,
                                     !.throttled = @ \/ (GraphUsable(g) /\ side.voltages # "fresh")]
             /\ last' = Battery!Verdict(i2c, g, voltages)
             /\ topics' = [topics EXCEPT ![c] = TopicMetric(kind, g, voltages)]
             /\ UNCHANGED mem
    BY <1>2 DEF JudgeBattery
  <2> DEFINE voltages == IF GraphUsable(g)
                         THEN Battery!ReadBatteryData(side.voltages, side.throttled, g)
                         ELSE side.voltages
             i2c == IF reach[c] = "--" THEN "unknown" ELSE "connected"
             b == side.throttled \/ (GraphUsable(g) /\ side.voltages # "fresh")
  <2>2. side.voltages \in {"none", "fresh", "old"} /\ b \in BOOLEAN
    BY DEF Side
  <2>3. Battery!ReadBatteryData(side.voltages, side.throttled, g) \in {"none", "fresh", "old"}
    BY <2>2, Zenon DEF Battery!ReadBatteryData
  <2>4. voltages \in {"none", "fresh", "old"}
    BY <2>2, <2>3
  <2>5. \A x : Battery!Verdict(x, g, voltages) \in {"connected", "stopped", "ok", "disconnected"}
    BY Zenon DEF Battery!Verdict
  <2>6. TopicMetric(kind, g, voltages) \in {"yes", "no", "unknown"}
    BY TopicWords
  <2> HIDE DEF voltages, i2c, b
  <2>7. /\ Judged(c) /\ mem' = mem
        /\ side' = [side EXCEPT !.voltages = voltages, !.throttled = b]
        /\ last' = Battery!Verdict(i2c, g, voltages)
        /\ topics' = [topics EXCEPT ![c] = TopicMetric(kind, g, voltages)]
    BY <2>1 DEF voltages, i2c, b
  <2>8. side' \in Side
    BY <2>2, <2>4, <2>7 DEF Side
  <2>9. last' \in StatusLevel
    BY <2>5, <2>7, StatusLevels
  <2>10. topics' \in [Checkers -> {"yes", "no", "unknown"}]
    BY <2>6, <2>7
  <2> QED BY <2>7, <2>8, <2>9, <2>10 DEF Judged
<1>3. CASE Card(c)
  <2>1. card' \in StatusLevel
    BY <1>3, CardTyped DEF Card
  <2> QED BY <1>3, <2>1 DEF Card, Forget, Connections
<1> QED BY <1>1, <1>2, <1>3

\* Time, the world and the other threads keep the types.
LEMMA TypeStepWorld ==
  ASSUME TypeOK, \/ Settle \/ GraceEnds \/ CooldownEnds \/ DataAges \/ MessageArrives
                 \/ ProbeOnly \/ UNCHANGED vars
  PROVE  TypeOK'
<1> USE DEF TypeOK, own
<1>1. CASE Settle
  BY <1>1 DEF Settle
<1>2. CASE GraceEnds
  BY <1>2 DEF GraceEnds, Memory
<1>3. CASE CooldownEnds
  BY <1>3 DEF CooldownEnds
<1>4. CASE DataAges
  <2>1. /\ [side EXCEPT !.throttled = FALSE] \in Side
        /\ [side EXCEPT !.voltages = IF @ = "fresh" THEN "old" ELSE @] \in Side
    BY DEF Side
  <2> QED BY <1>4, <2>1 DEF DataAges
<1>5. CASE MessageArrives
  <2>1. \A p : /\ Small!OnMeasurements(side.mqtt, p) \in SUBSET {"quality", "ups"}
               /\ Small!OnUpsStatus(side.mqtt, p) \in SUBSET {"quality", "ups"}
    BY DEF Side, Small!OnMeasurements, Small!OnUpsStatus
  <2>2. \A p : /\ [side EXCEPT !.mqtt = Small!OnMeasurements(@, p)] \in Side
               /\ [side EXCEPT !.mqtt = Small!OnUpsStatus(@, p)] \in Side
    BY <2>1 DEF Side
  <2> QED BY <1>5, <2>2 DEF MessageArrives
<1>6. CASE ProbeOnly
  <2>1. PICK o \in Probes : mem' = ProbeStep(o).memory
    BY <1>6 DEF ProbeOnly
  <2>2. o \in ProbeObs
    BY <2>1, ProbesObserved
  <2> QED BY <1>6, <2>1, <2>2, ProbeTyped DEF ProbeOnly
<1>7. CASE UNCHANGED vars
  BY <1>7 DEF vars
<1> QED BY <1>1, <1>2, <1>3, <1>4, <1>5, <1>6, <1>7

\* Every verdict and every card is a status level, every kind of sensor has an
\* answer in every case, and the count of failures stays bounded, whatever is
\* observed and however threads share the monitor.
THEOREM TypeCorrect == Spec => []TypeOK
<1>1. Init => TypeOK
  <2> SUFFICES ASSUME Init
               PROVE  TypeOK
    OBVIOUS
  <2>1. mem \in Memory
    BY SensorsAssumption DEF Init, NoMemory, Memory
  <2>2. side \in Side
    BY DEF Init, Side
  <2> QED BY <2>1, <2>2 DEF Init, TypeOK, Connections
<1>2. TypeOK /\ [Next]_vars => TypeOK'
  BY TypeStepProbe, TypeStepJudge, TypeStepWorld DEF Next, Check
<1> QED BY <1>1, <1>2, PTL DEF Spec
-----------------------------------------------------------------------------
(* What is settled stays settled *)

\* A device that is gone: the grace period of its last answer is over, no thread
\* is under way with the word of an answered probe, and the card tells of it.
GoneForGood ==
  /\ regime = "gone" /\ ~mem.graced /\ card = "disconnected"
  /\ \A c \in Checkers :
       pc[c] # "idle" => pc[c] # "reached" /\ reach[c] = "Disconnected"

\* What makes a monitor's verdict good: data of the Pi 5 or of the battery has
\* come in, the others judge what they observe.
DataSeen ==
  /\ kind = "pi5_sensors" => side.mqtt # {}
  /\ kind = "battery" => side.voltages # "none"

\* A device that is well: so say the last verdict and the card, and no thread is
\* under way with anything else.
WellForGood ==
  /\ regime = "healthy" /\ DataSeen /\ last = "ok" /\ card = "ok"
  /\ \A c \in Checkers :
       /\ pc[c] # "idle" => pc[c] \in {"reached", "card"} /\ reach[c] = "Connected"
       /\ pc[c] = "card" /\ kind \in Promoted => topics[c] = "yes"

\* A probe that nobody answers is not overlooked when the grace period is over,
\* and does not renew it; one that is answered is believed.
LEMMA ProbeBelieved ==
  ASSUME mem \in Memory, kind \in Kinds
  PROVE  /\ ~mem.graced => LET p == ProbeStep([quick |-> FALSE, ping |-> FALSE])
                           IN  p.reachable = FALSE /\ p.memory.graced = FALSE
         /\ ProbeStep([quick |-> TRUE, ping |-> TRUE]).reachable = TRUE
<1> DEFINE none == [quick |-> FALSE, ping |-> FALSE]
           both == [quick |-> TRUE, ping |-> TRUE]
<1>1. /\ ~mem.graced => /\ ProbeResult(mem, FALSE).reachable = FALSE
                        /\ ProbeResult(mem, FALSE).memory.graced = FALSE
      /\ ProbeResult(mem, TRUE).reachable = TRUE
  BY DEF ProbeResult, AfterProbe, Cached, Memory
<1>2. ASSUME NEW o
      PROVE  /\ Lidar!Connectivity(mem, o) = ProbeResult(mem, o.quick \/ o.ping)
             /\ Cam!Connectivity(mem, o) = ProbeResult(mem, o.quick \/ o.ping)
             /\ Small!UliConnectivity(mem, o) = ProbeResult(mem, o.ping)
             /\ Arduino!Connectivity(mem, o) = ProbeResult(mem, o.ping)
  BY DEF Lidar!Connectivity, Lidar!ProbeResult, Lidar!AfterProbe, Lidar!Cached,
         Cam!Connectivity, Cam!ProbeResult, Cam!AfterProbe, Cam!Cached,
         Small!UliConnectivity, Small!ProbeResult, Small!AfterProbe, Small!Cached,
         Arduino!Connectivity, Arduino!ProbeResult, Arduino!AfterProbe, Arduino!Cached,
         ProbeResult, AfterProbe, Cached
<1>3. none.ping = FALSE /\ both.ping = TRUE /\ none.quick = FALSE /\ both.quick = TRUE
  OBVIOUS
<1> HIDE DEF none, both
<1>4. CASE kind \in {"navi_lidar", "camera", "uli_lidar", "thruster"}
  <2>1. (none.quick \/ none.ping) = FALSE /\ (both.quick \/ both.ping) = TRUE
    BY <1>3
  <2>2. ASSUME NEW o, NEW b, (o.quick \/ o.ping) = b, o.ping = b
        PROVE  ProbeStep(o) = ProbeResult(mem, b)
    BY <1>2, <1>4, <2>2, Zenon DEF ProbeStep
  <2>3. ProbeStep(none) = ProbeResult(mem, FALSE) /\ ProbeStep(both) = ProbeResult(mem, TRUE)
    BY <1>3, <2>1, <2>2
  <2> QED BY <1>1, <2>3 DEF none, both
<1>5. CASE kind \in {"imu", "pi5_sensors", "battery"}
  <2>1. \A o \in {none, both} : ProbeStep(o) = [memory |-> mem, reachable |-> o.ping]
    <3>1. kind = "imu" => \A o : ProbeStep(o) = [memory |-> mem, reachable |-> o.quick]
      BY Zenon DEF ProbeStep, Small!SerialConnected
    <3>2. kind = "pi5_sensors" => \A o : ProbeStep(o) = [memory |-> mem, reachable |-> o.ping]
      BY Zenon DEF ProbeStep
    <3>3. kind = "battery" => \A o : ProbeStep(o) = [memory |-> mem, reachable |-> o.quick]
      BY Zenon DEF ProbeStep
    <3> QED BY <1>3, <1>5, <3>1, <3>2, <3>3
  <2> QED BY <1>3, <2>1, SensorsAssumption DEF none, both, Memory
<1> QED BY <1>4, <1>5, SensorsAssumption

\* No step of any thread brings a device that is gone back to its card.
LEMMA GoneStep ==
  ASSUME TypeOK, GoneForGood, [Next]_vars
  PROVE  GoneForGood'
<1> USE DEF TypeOK, GoneForGood
<1>1. Probes = {[quick |-> FALSE, ping |-> FALSE]}
  BY Zenon DEF Probes
<1>2. ASSUME NEW o \in Probes
      PROVE  ProbeStep(o).reachable = FALSE /\ ProbeStep(o).memory.graced = FALSE
  BY <1>1, <1>2, ProbeBelieved
<1>3. CASE Settle \/ GraceEnds \/ CooldownEnds \/ DataAges \/ MessageArrives
  BY <1>3 DEF Settle, GraceEnds, CooldownEnds, DataAges, MessageArrives, own
<1>4. CASE ProbeOnly
  BY <1>2, <1>4 DEF ProbeOnly, own
<1>5. ASSUME NEW c \in Checkers, Probe(c)
      PROVE  GoneForGood'
  <2>1. PICK o \in Probes :
          LET word == ReachWord(o, ProbeStep(o).reachable)
          IN /\ mem' = ProbeStep(o).memory
             /\ reach' = [reach EXCEPT ![c] = word]
             /\ pc' = [pc EXCEPT ![c] = IF word = "Disconnected" THEN "lost" ELSE "reached"]
    BY <1>5 DEF Probe
  <2>2. ReachWord(o, FALSE) = "Disconnected"
    BY DEF ReachWord
  <2>3. ReachWord(o, ProbeStep(o).reachable) = "Disconnected"
    BY <1>2, <2>2
  <2>4. /\ mem'.graced = FALSE
        /\ reach' = [reach EXCEPT ![c] = "Disconnected"] /\ pc' = [pc EXCEPT ![c] = "lost"]
    BY <1>2, <2>1, <2>3
  <2> QED BY <1>5, <2>4 DEF Probe
<1>6. ASSUME NEW c \in Checkers, Lost(c) \/ Alert(c)
      PROVE  GoneForGood'
  BY <1>6 DEF Lost, Alert, own
<1>7. ASSUME NEW c \in Checkers, Judge(c) \/ JudgeBattery(c) \/ CheckRaises(c)
      PROVE  FALSE
  <2>1. pc[c] = "reached"
    BY <1>7, Zenon DEF Judge, JudgeBattery, Judged, CheckRaises
  <2> QED BY <2>1
<1>8. ASSUME NEW c \in Checkers, Card(c)
      PROVE  GoneForGood'
  <2>1. reach[c] = "Disconnected" /\ pc' = [pc EXCEPT ![c] = "idle"]
    BY <1>8 DEF Card
  <2>2. \A summary, node, topic : FinalStatus(kind, summary, "Disconnected", node, topic) = "disconnected"
    BY Zenon DEF FinalStatus
  <2>3. card' = "disconnected"
    BY <1>8, <2>1, <2>2 DEF Card
  <2>4. UNCHANGED <<regime, mem>> /\ reach' = [reach EXCEPT ![c] = "--"]
    BY <1>8 DEF Card, Forget
  <2> QED BY <2>1, <2>3, <2>4
<1>9. CASE UNCHANGED vars
  BY <1>9 DEF vars, own
<1> QED BY <1>3, <1>4, <1>5, <1>6, <1>7, <1>8, <1>9 DEF Next, Check

\* Once the grace period is over and the checks under way at that moment are done,
\* a device that is gone stays disconnected on its card, whatever the threads
\* that share the monitor do: CardSettles without the time it takes.
THEOREM GoneStaysDisconnected ==
  Spec => [](GoneForGood => [](card = "disconnected"))
<1>1. TypeOK /\ GoneForGood /\ [Next]_vars => GoneForGood'
  BY GoneStep
<1>2. GoneForGood => card = "disconnected"
  BY DEF GoneForGood
<1> QED BY <1>1, <1>2, TypeCorrect, PTL DEF Spec

\* What is observed of a device that is well: one graph, and logs without a
\* finding.
LEMMA WellObserved ==
  /\ Graphs("healthy") = {AllWell}
  /\ \A log \in LidarLogs("healthy") : Lidar!LogStatus(log) = "ok"
  /\ \A log \in CameraLogs("healthy") : Cam!LogStatus(log) = "ok"
  /\ Losses("healthy") = {FALSE} /\ Heard("healthy") = {TRUE}
<1>1. Lidar!Worst({}) = "ok" /\ Cam!Worst({}) = "ok"
  BY DEF Lidar!Worst, Cam!Worst, Lidar!get_higher_priority_status,
         Cam!get_higher_priority_status, Lidar!STATUS_PRIORITY, Cam!STATUS_PRIORITY
<1>2. ASSUME NEW log \in LidarLogs("healthy")
      PROVE  Lidar!LogStatus(log) = "ok"
  <2>1. log = [frames |-> TRUE, freq |-> "good", points |-> "good", stale |-> FALSE]
    BY <1>2, Zenon DEF LidarLogs
  <2>2. Lidar!LogStatus(log) = Lidar!Worst({} \cup {})
    BY <2>1 DEF Lidar!LogStatus
  <2> QED BY <1>1, <2>2
<1>3. ASSUME NEW log \in CameraLogs("healthy")
      PROVE  Cam!LogStatus(log) = "ok"
  <2>1. log = [frames |-> TRUE, freq |-> "good", incomplete |-> "none",
               errors |-> FALSE, slow |-> FALSE, stale |-> FALSE]
    BY <1>3, Zenon DEF CameraLogs
  <2>2. Cam!LogStatus(log) = Cam!Worst({} \cup {})
    BY <2>1 DEF Cam!LogStatus
  <2> QED BY <1>1, <2>2
<1>4. Heard("healthy") = {TRUE}
  BY Zenon DEF Heard
<1> QED BY <1>2, <1>3, <1>4 DEF Graphs, Losses

\* All that a monitor can come to for a device that is well, once it has heard
\* of it, is ok with an available topic.
LEMMA WellJudged ==
  ASSUME RclpyAvailable = TRUE, kind \in Kinds \ {"battery"}, regime = "healthy",
         regime \in Regimes \cup {"any"}, NEW flag \in BOOLEAN,
         kind \in {"thruster", "pi5_sensors"} => flag,
         NEW j \in Judgements[kind][regime][flag]
  PROVE  j[1] = "ok" /\ (kind \in Promoted => j[2] = "yes")
<1>1. PICK k \in Kinds \ {"battery"} : k = kind
  OBVIOUS
<1>2. PICK r \in Regimes \cup {"any"} : r = regime
  OBVIOUS
<1> DEFINE Pairs(x, y, f) ==
      UNION {{<<v, TopicMetric(x, g, "none")>> : v \in Verdicts(x, y, g, f)} : g \in Graphs(y)}
<1>3. Judgements = [x \in Kinds \ {"battery"} |->
                      [y \in Regimes \cup {"any"} |-> [f \in BOOLEAN |-> Pairs(x, y, f)]]]
  BY DEF Judgements
<1> HIDE DEF Pairs
<1>4. Judgements[k][r][flag] = Pairs(k, r, flag)
  BY <1>3
<1>5. j \in Pairs(k, "healthy", flag)
  BY <1>1, <1>2, <1>4
<1>6. PICK v \in Verdicts(k, "healthy", AllWell, flag) : j = <<v, TopicMetric(k, AllWell, "none")>>
  BY <1>5, WellObserved DEF Pairs
<1>7. AllWell.ros = TRUE
  BY DEF AllWell
<1>8. /\ Lidar!TopicAvailable(AllWell) = TRUE /\ Cam!TopicAvailable(AllWell) = TRUE
      /\ Small!ImuTopicAvailable(AllWell) = TRUE /\ Arduino!TopicAvailable(AllWell) = TRUE
      /\ Small!Verify(AllWell) = TRUE
  BY DEF AllWell, Lidar!TopicAvailable, Cam!TopicAvailable, Small!ImuTopicAvailable,
         Arduino!TopicAvailable, Small!Verify, Lidar!GraphUsable, Cam!GraphUsable,
         Small!GraphUsable, Arduino!GraphUsable
<1>9. YesNo(TRUE) = "yes"
  BY DEF YesNo
<1>10. CASE k = "navi_lidar"
  <2>1. \E log \in LidarLogs("healthy") : v = Lidar!Verdict(AllWell, log)
    BY <1>6, <1>10, Zenon DEF Verdicts
  <2>2. v = "ok"
    BY <1>7, <1>8, <2>1, WellObserved, Zenon DEF Lidar!Verdict
  <2>3. TopicMetric(k, AllWell, "none") = "yes"
    BY <1>7, <1>8, <1>9, <1>10, Zenon DEF TopicMetric
  <2> QED BY <1>6, <2>2, <2>3
<1>11. CASE k = "camera"
  <2>1. \E log \in CameraLogs("healthy") : v = Cam!Verdict(AllWell, log)
    BY <1>6, <1>11, Zenon DEF Verdicts
  <2>2. v = "ok"
    BY <1>7, <1>8, <2>1, WellObserved, Zenon DEF Cam!Verdict
  <2>3. TopicMetric(k, AllWell, "none") = "yes"
    BY <1>7, <1>8, <1>9, <1>11, Zenon DEF TopicMetric
  <2> QED BY <1>6, <2>2, <2>3
<1>12. CASE k = "imu"
  <2>1. v = Small!ImuVerdict(AllWell, flag)
    BY <1>6, <1>12, Zenon DEF Verdicts
  <2>2. v = "ok"
    BY <1>7, <1>8, <2>1, Zenon DEF Small!ImuVerdict
  <2>3. TopicMetric(k, AllWell, "none") = "yes"
    BY <1>7, <1>8, <1>9, <1>12, Zenon DEF TopicMetric
  <2> QED BY <1>6, <2>2, <2>3
<1>13. CASE k = "thruster"
  <2>1. v = Arduino!Verdict(AllWell, flag)
    BY <1>6, <1>13, Zenon DEF Verdicts
  <2>2. v = "ok"
    BY <1>1, <1>7, <1>8, <1>13, <2>1, Zenon DEF Arduino!Verdict
  <2>3. TopicMetric(k, AllWell, "none") = "yes"
    BY <1>7, <1>8, <1>9, <1>13, Zenon DEF TopicMetric
  <2> QED BY <1>6, <2>2, <2>3
<1>14. CASE k = "uli_lidar"
  <2>1. \E loses \in Losses("healthy") : v = Small!UliVerdict(loses)
    BY <1>6, <1>14, Zenon DEF Verdicts
  <2>2. v = "ok"
    BY <2>1, WellObserved DEF Small!UliVerdict
  <2> QED BY <1>1, <1>6, <1>14, <2>2 DEF Promoted
<1>15. CASE k = "pi5_sensors"
  <2>1. v = Small!Pi5Verdict([ping |-> TRUE], IF flag THEN {"ups"} ELSE {})
    BY <1>6, <1>15, Zenon DEF Verdicts
  <2>2. v = Small!Pi5Verdict([ping |-> TRUE], {"ups"})
    BY <1>1, <1>15, <2>1
  <2>3. [ping |-> TRUE].ping = TRUE /\ {"ups"} # {}
    OBVIOUS
  <2>4. v = "ok"
    BY <2>2, <2>3, Zenon DEF Small!Pi5Verdict
  <2> QED BY <1>1, <1>6, <1>15, <2>4 DEF Promoted
<1> QED BY <1>1, <1>10, <1>11, <1>12, <1>13, <1>14, <1>15, SensorsAssumption

\* No step of any thread takes a device that is well off its card.
LEMMA WellStep ==
  ASSUME RclpyAvailable = TRUE, TypeOK, WellForGood, [Next]_vars
  PROVE  WellForGood'
<1> USE DEF TypeOK, WellForGood
<1>1. Probes = {[quick |-> TRUE, ping |-> TRUE]}
  BY Zenon DEF Probes
<1>2. CASE Settle \/ GraceEnds \/ CooldownEnds
  BY <1>2 DEF Settle, GraceEnds, CooldownEnds, own, DataSeen
<1>3. CASE DataAges
  <2>1. side'.mqtt = side.mqtt /\ (side.voltages # "none" => side'.voltages # "none")
    BY <1>3 DEF DataAges, Side
  <2> QED BY <1>3, <2>1 DEF DataAges, own, DataSeen
<1>4. CASE MessageArrives
  <2>1. side.mqtt \subseteq side'.mqtt /\ side'.voltages = side.voltages
    BY <1>4 DEF MessageArrives, Side, Small!OnMeasurements, Small!OnUpsStatus
  <2> QED BY <1>4, <2>1 DEF MessageArrives, own, DataSeen
<1>5. CASE ProbeOnly
  BY <1>5 DEF ProbeOnly, own, DataSeen
<1>6. ASSUME NEW c \in Checkers, Probe(c)
      PROVE  WellForGood'
  <2>1. PICK o \in Probes :
          LET word == ReachWord(o, ProbeStep(o).reachable)
          IN /\ mem' = ProbeStep(o).memory
             /\ reach' = [reach EXCEPT ![c] = word]
             /\ pc' = [pc EXCEPT ![c] = IF word = "Disconnected" THEN "lost" ELSE "reached"]
    BY <1>6 DEF Probe
  <2>2. ReachWord(o, TRUE) = "Connected"
    BY DEF ReachWord
  <2>3. ReachWord(o, ProbeStep(o).reachable) = "Connected"
    BY <1>1, <2>2, ProbeBelieved
  <2>4. /\ reach' = [reach EXCEPT ![c] = "Connected"] /\ pc' = [pc EXCEPT ![c] = "reached"]
    BY <2>1, <2>3
  <2> QED BY <1>6, <2>4 DEF Probe, DataSeen
<1>7. ASSUME NEW c \in Checkers, Lost(c) \/ Alert(c) \/ CheckRaises(c)
      PROVE  FALSE
  <2>1. pc[c] \in {"lost", "alert"} \/ regime = "any"
    BY <1>7 DEF Lost, Alert, CheckRaises
  <2> QED BY <2>1
<1>8. ASSUME NEW c \in Checkers, Judge(c)
      PROVE  WellForGood'
  <2>1. PICK heard \in Heard(regime) :
          LET beat == Arduino!Heartbeat(mem, heard)
              flag == CASE kind = "thruster" -> beat.reachable
                        [] kind = "imu" -> side.done
                        [] OTHER -> side.mqtt # {}
          IN /\ kind # "battery" /\ Judged(c)
             /\ \E j \in Judgements[kind][regime][flag] :
                  /\ last' = j[1] /\ topics' = [topics EXCEPT ![c] = j[2]]
                  /\ side' = [side EXCEPT !.done = @ \/ (kind = "imu" /\ j[2] = "yes")]
    BY <1>8 DEF Judge
  <2> DEFINE flag == CASE kind = "thruster" -> Arduino!Heartbeat(mem, heard).reachable
                       [] kind = "imu" -> side.done
                       [] OTHER -> side.mqtt # {}
  <2>2. Arduino!Heartbeat(mem, heard).reachable = TRUE
    BY <2>1, WellObserved DEF Arduino!Heartbeat, Arduino!ProbeResult
  <2>3. /\ kind = "thruster" => flag = TRUE
        /\ kind = "imu" => flag = side.done
        /\ kind \notin {"thruster", "imu"} => flag = (side.mqtt # {})
    BY <2>2, Zenon
  <2>4. flag \in BOOLEAN /\ (kind \in {"thruster", "pi5_sensors"} => flag)
    BY <2>3 DEF Side, DataSeen
  <2>5. PICK j \in Judgements[kind][regime][flag] :
          /\ last' = j[1] /\ topics' = [topics EXCEPT ![c] = j[2]]
          /\ side' = [side EXCEPT !.done = @ \/ (kind = "imu" /\ j[2] = "yes")]
    BY <2>1
  <2> HIDE DEF flag
  <2>6. j[1] = "ok" /\ (kind \in Promoted => j[2] = "yes")
    BY <2>1, <2>4, <2>5, WellJudged
  <2>7. side'.mqtt = side.mqtt /\ side'.voltages = side.voltages
    BY <2>5 DEF Side
  <2>8. pc' = [pc EXCEPT ![c] = "card"] /\ UNCHANGED <<kind, regime, reach, card>> /\ pc[c] = "reached"
    BY <2>1 DEF Judged
  <2> QED BY <2>5, <2>6, <2>7, <2>8 DEF DataSeen
<1>9. ASSUME NEW c \in Checkers, JudgeBattery(c)
      PROVE  WellForGood'
  <2> DEFINE Read(g) == IF GraphUsable(g)
                        THEN Battery!ReadBatteryData(side.voltages, side.throttled, g)
                        ELSE side.voltages
             i2c == IF reach[c] = "--" THEN "unknown" ELSE "connected"
  <2>1. PICK g \in BatteryGraphs[regime] :
          /\ kind = "battery" /\ Judged(c)
          /\ side' = [side EXCEPT !.voltages = Read(g),
                         !.throttled = side.throttled \/ (GraphUsable(g) /\ side.voltages # "fresh")]
          /\ last' = Battery!Verdict(i2c, g, Read(g))
    BY <1>9, Zenon DEF JudgeBattery
  <2> DEFINE voltages == Read(g)
  <2>2. g = AllWell
    BY <2>1, WellObserved DEF BatteryGraphs
  <2>3. voltages # "none"
    <3>1. side.voltages # "none"
      BY <2>1 DEF DataSeen
    <3>2. Battery!ReadBatteryData(side.voltages, side.throttled, g) \in {"fresh", side.voltages}
      BY Zenon DEF Battery!ReadBatteryData
    <3> QED BY <3>1, <3>2
  <2>4. g.ros = TRUE /\ Battery!GraphUsable(g) = TRUE /\ g.topic = TRUE
    BY <2>2 DEF AllWell, Battery!GraphUsable
  <2> HIDE DEF voltages, i2c
  <2>5. Battery!DataAvailable(g, voltages) = TRUE
    BY <2>3, <2>4 DEF Battery!DataAvailable, Battery!HasValidVoltageData
  <2>6. Battery!Verdict(i2c, g, voltages) = "ok"
    BY <2>4, <2>5, Zenon DEF Battery!Verdict
  <2>7. last' = "ok" /\ side'.voltages # "none" /\ kind = "battery"
    BY <2>1, <2>3, <2>6 DEF Side, voltages, i2c
  <2>8. pc' = [pc EXCEPT ![c] = "card"] /\ UNCHANGED <<kind, regime, reach, card>> /\ pc[c] = "reached"
    BY <2>1 DEF Judged
  <2> QED BY <2>7, <2>8 DEF DataSeen, Promoted
<1>10. ASSUME NEW c \in Checkers, Card(c)
      PROVE  WellForGood'
  <2>1. reach[c] = "Connected" /\ pc' = [pc EXCEPT ![c] = "idle"] /\ reach' = [reach EXCEPT ![c] = "--"]
        /\ topics' = [topics EXCEPT ![c] = "unknown"] /\ pc[c] = "card"
    BY <1>10 DEF Card, Forget
  <2>2. PICK g \in CardGraphs[regime] :
          card' = FinalStatus(kind, Summary(last), reach[c], NodeOnCard(g),
                              TopicOnCard(kind, topics[c], g))
    BY <1>10 DEF Card
  <2>3. g = AllWell
    BY <2>2, WellObserved DEF CardGraphs
  <2>4. NodeOnCard(g) = "yes" /\ Summary(last) = "ok" /\ g.ros = TRUE /\ YesNo(g.topic \/ g.shell) = "yes"
    BY <2>3 DEF NodeOnCard, Summary, AllWell, YesNo
  <2>5. CASE kind \in Promoted
    <3>1. topics[c] = "yes" /\ kind \notin {"uli_lidar", "pi5_sensors"}
      BY <2>1, <2>5 DEF Promoted
    <3>2. TopicOnCard(kind, topics[c], g) = "yes"
      BY <2>4, <3>1, Zenon DEF TopicOnCard
    <3> QED BY <1>10, <2>1, <2>2, <2>4, <2>5, <3>2, Zenon DEF FinalStatus, Card, DataSeen
  <2>6. CASE kind \notin Promoted
    BY <1>10, <2>1, <2>2, <2>4, <2>6, Zenon DEF FinalStatus, Card, DataSeen
  <2> QED BY <2>5, <2>6
<1>11. CASE UNCHANGED vars
  BY <1>11 DEF vars, own, DataSeen
<1> QED BY <1>2, <1>3, <1>4, <1>5, <1>6, <1>7, <1>8, <1>9, <1>10, <1>11 DEF Next, Check

\* A device that is well stays ok on its card, for every kind of sensor, when
\* rclpy is installed: without it no topic is available and the best that a card
\* of a sensor with topics says is connected.
THEOREM WellStaysOk ==
  RclpyAvailable => (Spec => [](WellForGood => [](card = "ok")))
<1> SUFFICES ASSUME RclpyAvailable PROVE Spec => [](WellForGood => [](card = "ok"))
  OBVIOUS
<1>1. TypeOK /\ WellForGood /\ [Next]_vars => WellForGood'
  BY WellStep, SensorsAssumption
<1>2. WellForGood => card = "ok"
  BY DEF WellForGood
<1> QED BY <1>1, <1>2, TypeCorrect, PTL DEF Spec
=============================================================================
