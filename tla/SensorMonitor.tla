---------------------------- MODULE SensorMonitor ----------------------------
(***************************************************************************)
(* A sensor's monitor at work: several threads of the dashboard call its   *)
(* check() and build the sensor's card, another one probes it every second *)
(* for the connectivity channel, and all of them share the monitor's       *)
(* fields without a lock.  `kind` says which sensor it is, `regime` how    *)
(* the world behaves: at first it may do anything, later it may settle.    *)
(***************************************************************************)
EXTENDS SensorCards

CONSTANTS
  Checkers,  \* threads that build cards at the same time
  Kinds,     \* the sensors explored
  Regimes    \* the settled worlds explored

ASSUME CheckersAssumption == IsFiniteSet(Checkers)
ASSUME SensorsAssumption ==
  /\ MaxFailures \in Nat /\ RclpyAvailable \in BOOLEAN
  /\ Kinds \subseteq {"navi_lidar", "camera", "uli_lidar", "thruster", "imu",
                     "pi5_sensors", "battery"}

Lidar == INSTANCE NaviLidar
Cam == INSTANCE Camera
Small == INSTANCE SmallSensors
Arduino == INSTANCE ThrusterSensor
Battery == INSTANCE BatterySensor

VARIABLES
  kind, regime,
  mem,       \* _last_successful_connection and _consecutive_failures
  was,       \* _was_connected
  cooling,   \* less than _alert_cooldown since the last disconnection alert
  alerts,    \* disconnection alerts recorded since the cooldown was last over
  side,      \* what single kinds remember: see Side
  pc,        \* pc[c]: "idle" | "lost" | "alert" | "reached" | "card"
  reach,     \* reach[c]: connectivity according to c's own check
  topics,    \* topics[c]: topic availability according to c's own check
  last,      \* last_result.status, "none" before the first check
  card       \* status of the card sent last, "none" before the first

vars == <<kind, regime, mem, was, cooling, alerts, side, pc, reach, topics, last, card>>
own == <<reach, topics>>

Side == [done : BOOLEAN,                          \* imu: _data_check_done
         voltages : {"none", "fresh", "old"},     \* battery: _latest_voltages
         throttled : BOOLEAN,                     \* battery: read just tried
         mqtt : SUBSET {"quality", "ups"}]        \* pi5: data received so far

Connections == {"Connected", "Disconnected", "--"}

TypeOK ==
  /\ kind \in Kinds /\ regime \in Regimes \cup {"any"}
  /\ mem \in Memory /\ was \in BOOLEAN /\ cooling \in BOOLEAN
  /\ alerts \in Nat /\ side \in Side
  /\ pc \in [Checkers -> {"idle", "lost", "alert", "reached", "card"}]
  /\ reach \in [Checkers -> Connections] /\ topics \in [Checkers -> {"yes", "no", "unknown"}]
  /\ last \in StatusLevel \cup {"none"} /\ card \in StatusLevel \cup {"none"}

Init ==
  /\ kind \in Kinds /\ regime = "any"
  /\ mem = NoMemory /\ was = TRUE /\ cooling = FALSE /\ alerts = 0
  /\ side = [done |-> FALSE, voltages |-> "none", throttled |-> FALSE, mqtt |-> {}]
  /\ pc = [c \in Checkers |-> "idle"] /\ reach = [c \in Checkers |-> "--"]
  /\ topics = [c \in Checkers |-> "unknown"]
  /\ last = "none" /\ card = "none"
-----------------------------------------------------------------------------
(* What can be observed in each regime *)

Probes ==
  CASE regime = "any" -> ProbeObs
    [] regime = "gone" -> {[quick |-> FALSE, ping |-> FALSE]}
    [] OTHER -> {[quick |-> TRUE, ping |-> TRUE]}

AllWell == [ros |-> TRUE, raises |-> FALSE, topic |-> TRUE, node |-> TRUE,
            shell |-> TRUE, publisher |-> TRUE, data |-> TRUE]
Graphs(r) == IF r \in {"any", "gone"} THEN GraphObs ELSE {AllWell}

\* What of the graph makes a difference to the battery, and to a card.
BatteryGraphs == [r \in Regimes \cup {"any"} |-> {g \in Graphs(r) : g.node /\ g.shell /\ g.publisher}]
CardGraphs == [r \in Regimes \cup {"any"} |->
  {g \in Graphs(r) : ~g.raises /\ g.shell = g.topic /\ g.publisher /\ g.data}]

LidarLogs(r) ==
  CASE r \in {"any", "gone"} -> Lidar!LogObs
    [] r = "poor" -> {[frames |-> TRUE, freq |-> "severe", points |-> "good", stale |-> FALSE]}
    [] OTHER -> {[frames |-> TRUE, freq |-> "good", points |-> "good", stale |-> FALSE]}
CameraLogs(r) ==
  CASE r \in {"any", "gone"} -> Cam!LogObs
    [] r = "poor" -> {[frames |-> TRUE, freq |-> "severe", incomplete |-> "many",
                            errors |-> FALSE, slow |-> FALSE, stale |-> FALSE]}
    [] OTHER -> {[frames |-> TRUE, freq |-> "good", incomplete |-> "none",
                  errors |-> FALSE, slow |-> FALSE, stale |-> FALSE]}

Heard(r) == CASE r = "any" -> BOOLEAN [] r = "gone" -> {FALSE} [] OTHER -> {TRUE}
Losses(r) == IF r \in {"any", "gone"} THEN BOOLEAN ELSE {FALSE}
-----------------------------------------------------------------------------
(* Time and the world *)

Settle ==
  /\ regime = "any" /\ regime' \in Regimes
  /\ UNCHANGED <<kind, mem, was, cooling, alerts, side, pc, own, last, card>>

GraceEnds ==
  /\ mem.graced /\ mem' = [mem EXCEPT !.graced = FALSE]
  /\ UNCHANGED <<kind, regime, was, cooling, alerts, side, pc, own, last, card>>

CooldownEnds ==
  /\ cooling /\ cooling' = FALSE /\ alerts' = 0
  /\ UNCHANGED <<kind, regime, mem, was, side, pc, own, last, card>>

\* The stored voltages become old; the battery may be read again.
DataAges ==
  /\ side' \in {[side EXCEPT !.throttled = FALSE],
                [side EXCEPT !.voltages = IF @ = "fresh" THEN "old" ELSE @]}
  /\ side' # side
  /\ UNCHANGED <<kind, regime, mem, was, cooling, alerts, pc, own, last, card>>

\* A message of the Pi 5 arrives, on the MQTT client's thread.
MessageArrives ==
  /\ kind = "pi5_sensors"
  /\ \E p \in Small!PayloadKinds :
       side' \in {[side EXCEPT !.mqtt = Small!OnMeasurements(@, p)],
                  [side EXCEPT !.mqtt = Small!OnUpsStatus(@, p)]}
  /\ side' # side
  /\ UNCHANGED <<kind, regime, mem, was, cooling, alerts, pc, own, last, card>>
-----------------------------------------------------------------------------
(* check(), and the card made of it *)

\* What a probe leaves in the shared memory, and what it says.
ProbeStep(o) ==
  CASE kind = "navi_lidar" -> Lidar!Connectivity(mem, o)
    [] kind = "camera" -> Cam!Connectivity(mem, o)
    [] kind = "uli_lidar" -> Small!UliConnectivity(mem, o)
    [] kind = "thruster" -> Arduino!Connectivity(mem, o)
    [] kind = "imu" -> [memory |-> mem, reachable |-> Small!SerialConnected(o)]
    [] kind = "pi5_sensors" -> [memory |-> mem, reachable |-> o.ping]
    [] kind = "battery" -> [memory |-> mem, reachable |-> o.quick]

\* The bus of the battery may be impossible to probe.
ReachWord(o, r) ==
  CASE r -> "Connected"
    [] ~r /\ kind = "battery" /\ o.ping /\ regime = "any" -> "--"
    [] OTHER -> "Disconnected"

Probe(c) ==
  /\ pc[c] = "idle"
  /\ \E o \in Probes :
       LET p == ProbeStep(o)
           word == ReachWord(o, p.reachable)
       IN /\ mem' = p.memory
          /\ reach' = [reach EXCEPT ![c] = word]
          /\ pc' = [pc EXCEPT ![c] = IF word = "Disconnected" THEN "lost" ELSE "reached"]
  /\ UNCHANGED <<kind, regime, was, cooling, alerts, side, topics, last, card>>

\* _collect_connectivity_sync(): a probe of the connectivity channel changes
\* the memory that check() decides with.
ProbeOnly ==
  /\ \E o \in Probes : mem' = ProbeStep(o).memory
  /\ UNCHANGED <<kind, regime, was, cooling, alerts, side, pc, own, last, card>>

\* Unreachable: an alert is due at the transition, but not within the cooldown
\* of the previous one.  Two threads may both find it due.
Lost(c) ==
  /\ pc[c] = "lost"
  /\ IF was /\ ~cooling /\ kind # "pi5_sensors"
     THEN pc' = [pc EXCEPT ![c] = "alert"] /\ UNCHANGED <<was, last>>
     ELSE pc' = [pc EXCEPT ![c] = "card"] /\ was' = FALSE /\ last' = "disconnected"
  /\ UNCHANGED <<kind, regime, mem, cooling, alerts, side, own, card>>

\* Mutant: the time of the alert is not remembered.
Mutant_Alert(c) ==
  /\ pc[c] = "alert" /\ pc' = [pc EXCEPT ![c] = "card"]
  /\ alerts' = alerts + 1 /\ was' = FALSE /\ last' = "disconnected"
  /\ UNCHANGED <<kind, regime, mem, cooling, side, own, card>>

\* _record_alert() and the stamps; that storing failed is only logged.
Alert(c) ==
  /\ pc[c] = "alert" /\ pc' = [pc EXCEPT ![c] = "card"]
  /\ alerts' = alerts + 1 /\ cooling' = TRUE /\ was' = FALSE /\ last' = "disconnected"
  /\ UNCHANGED <<kind, regime, mem, side, own, card>>

TopicMetric(k, g, voltages) ==
  CASE ~g.ros -> "unknown"
    [] g.ros /\ k = "navi_lidar" -> YesNo(Lidar!TopicAvailable(g))
    [] g.ros /\ k = "camera" -> YesNo(Cam!TopicAvailable(g))
    [] g.ros /\ k = "imu" -> YesNo(Small!ImuTopicAvailable(g))
    [] g.ros /\ k = "thruster" -> YesNo(Arduino!TopicAvailable(g))
    [] g.ros /\ k = "battery" -> YesNo(Battery!DataAvailable(g, voltages))
    [] OTHER -> "unknown"

\* The verdicts, with the topic metric that goes with them, that the rest of
\* check() can come to in a regime.  `flag` is the heartbeat's result for the
\* thruster, _data_check_done for the IMU, and a message seen for the Pi 5.
Verdicts(k, r, g, flag) ==
  CASE k = "navi_lidar" -> {Lidar!Verdict(g, log) : log \in LidarLogs(r)}
    [] k = "camera" -> {Cam!Verdict(g, log) : log \in CameraLogs(r)}
    [] k = "uli_lidar" -> {Small!UliVerdict(loses) : loses \in Losses(r)}
    [] k = "pi5_sensors" -> {Small!Pi5Verdict([ping |-> TRUE], IF flag THEN {"ups"} ELSE {})}
    [] k = "imu" -> {Small!ImuVerdict(g, flag)}
    [] k = "thruster" -> {Arduino!Verdict(g, flag)}
Judgements ==
  [k \in Kinds \ {"battery"} |-> [r \in Regimes \cup {"any"} |-> [flag \in BOOLEAN |->
     UNION {{<<v, TopicMetric(k, g, "none")>> : v \in Verdicts(k, r, g, flag)} : g \in Graphs(r)}]]]

\* The rest of check() for a device that was reached.
Judged(c) ==
  /\ pc[c] = "reached" /\ pc' = [pc EXCEPT ![c] = "card"]
  /\ was' = (was \/ reach[c] = "Connected")
  /\ UNCHANGED <<kind, regime, cooling, alerts, reach, card>>

Judge(c) ==
  \E heard \in Heard(regime) :
    LET beat == Arduino!Heartbeat(mem, heard)
        flag == CASE kind = "thruster" -> beat.reachable
                  [] kind = "imu" -> side.done
                  [] OTHER -> side.mqtt # {}
    IN /\ kind # "battery" /\ Judged(c)
       /\ mem' = IF kind = "thruster" THEN beat.memory ELSE mem
       /\ \E j \in Judgements[kind][regime][flag] :
            /\ last' = j[1] /\ topics' = [topics EXCEPT ![c] = j[2]]
            /\ side' = [side EXCEPT !.done = @ \/ (kind = "imu" /\ j[2] = "yes")]

JudgeBattery(c) ==
  \E g \in BatteryGraphs[regime] :
    LET voltages == IF GraphUsable(g)
                    THEN Battery!ReadBatteryData(side.voltages, side.throttled, g)
                    ELSE side.voltages
        i2c == IF reach[c] = "--" THEN "unknown" ELSE "connected"
    IN /\ kind = "battery" /\ Judged(c)
       /\ side' = [side EXCEPT !.voltages = voltages,
                               !.throttled = @ \/ (GraphUsable(g) /\ side.voltages # "fresh")]
       /\ last' = Battery!Verdict(i2c, g, voltages)
       /\ topics' = [topics EXCEPT ![c] = TopicMetric(kind, g, voltages)]
       /\ UNCHANGED mem

Forget(c) ==
  /\ reach' = [reach EXCEPT ![c] = "--"] /\ topics' = [topics EXCEPT ![c] = "unknown"]

\* check() raises: the lidar's log parser has no frequency to return when the
\* device's clock went back within its frames.
CheckRaises(c) ==
  /\ kind = "navi_lidar" /\ regime = "any" /\ pc[c] = "reached"
  /\ pc' = [pc EXCEPT ![c] = "idle"] /\ was' = TRUE
  /\ card' = ErrorStatus /\ Forget(c)
  /\ UNCHANGED <<kind, regime, mem, cooling, alerts, side, last>>

\* _build_sensor_result() after check(): by now the summary may tell the
\* result of another thread's check.
Card(c) ==
  /\ pc[c] = "card" /\ pc' = [pc EXCEPT ![c] = "idle"]
  /\ \E g \in CardGraphs[regime] :
       card' = FinalStatus(kind, Summary(last), reach[c], NodeOnCard(g),
                           TopicOnCard(kind, topics[c], g))
  /\ Forget(c)
  /\ UNCHANGED <<kind, regime, mem, was, cooling, alerts, side, last>>

Check(c) ==
  \/ Probe(c) \/ Lost(c) \/ Alert(c) \/ Judge(c) \/ JudgeBattery(c) \/ CheckRaises(c) \/ Card(c)

Next ==
  \/ Settle \/ GraceEnds \/ CooldownEnds \/ DataAges \/ MessageArrives \/ ProbeOnly
  \/ \E c \in Checkers : Check(c)

\* The channel's loop and the requests call check() again and again, time
\* passes, and a device that is well sends its messages.
Fairness ==
  /\ \A c \in Checkers : WF_vars(Check(c))
  /\ WF_vars(GraceEnds) /\ WF_vars(MessageArrives) /\ SF_vars(DataAges /\ side.throttled /\ ~side'.throttled)

Spec == Init /\ [][Next]_vars /\ Fairness
-----------------------------------------------------------------------------
(* The card follows the device in the end: a device that is gone for good    *)
(* is and stays disconnected on it, whatever the grace period, the failures  *)
(* counted by other threads and the verdicts under way at that moment; one   *)
(* that is well for good is and stays ok.                                    *)
CardSettles ==
  /\ <>[](regime = "gone") => <>[](card = "disconnected")
  /\ <>[](regime = "healthy") => <>[](card = "ok")

(* A flapping device does not flood the alert store: within one cooldown     *)
(* every thread records at most one disconnection (the check of the stamp    *)
(* and the stamp itself are not one step, so one in total is not promised).  *)
AlertsPerCooldown == alerts <= Cardinality(Checkers)

(* "3. Data quality issues? -> WARNING / CRITICAL" (camera.py:67,            *)
(* navi_lidar.py:74): bad data for good is not shown as ok.  It fails: the   *)
(* promotion replaces every status.                                          *)
QualityIsShown == <>[](regime = "poor") => <>[](card # "ok")
=============================================================================
