# Formal model of MSS

MSS drives an uncrewed surface vessel. An Arduino (UNO R4 WiFi) drives two
thrusters (ESCs) from an RC receiver or from commands of a Jetson; on the Jetson
ROS 2 nodes carry those commands and the telemetry, and a web dashboard watches
the sensors and starts and stops the rest. The modules of this directory model
two halves of it in TLA+: the path of a command from the ROS topic to the ESC
pulse, and the dashboard from its sources (sensors, logs, ROS graph, MQTT) to the
browsers. They are model-checked with TLC, and the safety properties of both
halves are proved with TLAPS. Paths below are relative to `src/`; `diagnostics/`
is `ros2_diagnostic/diagnostics/`.

## Inventory

| Component | State it keeps | Operations | Correct when |
|---|---|---|---|
| Control loop, `Arduino/thruster_and_speed.ino` | stamps of command, PING, RC; WiFi output; mode; ESC pulses | read command, read PING, decide, write ESCs, send | thrust only for a live source; RC and WiFi hand over once; silence ends at neutral |
| RC input (same file) | captured pulse, hysteresis, filter | interrupt, `readRcInputs` | a silent channel goes to neutral; thrust follows a confirmed stick |
| WiFi link (same file) | attempt, scan cycle, sockets | `checkWiFiStatus`, send failure | no half-open sockets; every network is tried; the link comes back |
| Telemetry (same file) | stamps and rotation of five tasks | `serviceOneUdpSendTask` | no task starves |
| Flow meter (same file) | window of bins, rolling sum | poll, calculate | sum = window; the estimate follows the flow |
| Thruster node, `ros2_ws/.../thruster_wifi_node.cpp` | sockets, backoff, last command sent; online state | command, timer, PING timer, shutdown | a stop is left out only when the thrusters are stopped |
| Alert store, `ros2_diagnostic/alerts.py` | rows with a status, one SQLite connection | add, resolve, ignore, list | what a user was told is durable; every browser comes to show the active alerts |
| Caches and broadcasts, `ros2_diagnostic/main.py` | entries with stamps, previous states, connections | collectors, broadcaster loops, full state, REST calls | what is served is recent; broadcasts go on |
| ROS 2 control, `diagnostics/ros2_control.py` | cooldown stamps | start, stop, check | at most one launch; a stop that succeeded stopped everything |
| Recorder control, `diagnostics/rosbag_controller.py` | cooldown stamps, bag path | start, stop, check | a recording that goes on is shown |
| Sensor monitors, `diagnostics/sensor_monitor/*` | memory of the connection, last verdict, last alert, samples | `check()`, probes, MQTT and UDP callbacks | the card settles on what the device is; alerts come once |
| Sensor cards, `main.py` | none | `_build_sensor_result` | the verdict reaches the card |
| ROS 2 monitor and helper, `diagnostics/ros2_monitor.py`, `ros2_helper.py` | last verdict; node, subscriptions, locks | `check()`, spin thread | the verdict follows the system; a check returns |
| Log parsers, `diagnostics/*_log_parser.py` | position, last records, cached statistics | `get_statistics()` | no record is skipped; silence is noticed |
| MQTT client, `diagnostics/mqtt_client.py` | connected, topics, callbacks | connect, subscribe, callbacks | every registered topic is subscribed after every connect |
| Browser client, `static/js` | copy of the state | apply update, reconnect | equals the server's state in the end |
| Event log, serial node, battery and PTP publishers, scripts, launch files | rows, last sample | append, publish, start-up | - |

### How they interact

The topic `thruster_cmd_pwm` is published outside this repository. The node turns
each message into a UDP packet to the Arduino's port 8888 and sends a PING to
8889 periodically. The Arduino reads one packet of each kind per iteration of
`loop()`, decides who drives, writes the ESCs, and sends heartbeat, status, flow,
DHT and monitor packets back, over UDP or an MQTT broker.

The dashboard is one process: an event loop (requests, one broadcaster task per
channel, a compatibility loop that broadcasts differences), executor threads (the
`check()` of every sensor, several at a time), the thread of the MQTT library, UDP
listeners, and the spin thread of the ROS helper. The threads share the monitors,
their log parsers, the helper, the cache and the alert store, mostly without locks.
A monitor that finds its device gone stores an alert, whose callback is pushed
to the browsers by the event loop.

### What is hard

* Nothing confirms a command: packets are lost, reordered and rate-limited, while
  the node leaves out stops it believes redundant.
* The Arduino has one thread, and `WiFi.begin()` blocks it for about ten seconds,
  longer than every timeout. The loop's `now` and its RC values are then old.
* All timing is unsigned subtraction of `millis()`: stamps newer than `now`
  underflow, and stamps older than 49.7 days wrap; those of `micros()` after 71.6
  minutes.
* The capture interrupt falls between the statements of `readRcInputs`.
* Links, sockets and sends fail one by one; the node and the Arduino restart.
* In the dashboard: state that is read before an `await` and used after it; grace
  periods, failure counts and alert stamps shared by threads; caches that are
  filled by several parties; service calls and process scans that time out after
  they took effect; a broker and drivers that come and go.

`PROJECT.json` lists each hazard at its line, with the properties that cover it.

## Modules

| Module | Models | Actions and the code they stand for |
|---|---|---|
| `ThrusterControl` | `loop()` as a pipeline of stages | `ReadRcInputs`, `CheckWiFiStatus`, `ReadUdpCommands`, `ReadHeartbeatPing`, `ControlOutputs` (`determineControlMode`, with one disjunct per branch, and `updateThrusters`), `SendTelemetry`, `Elapse` |
| `ControlAuthority` | what `loop()` promises about who drives, abstractly | `Command`, `ReadSticks`, `InputsRead`, `Decide`, `Tick` |
| `RcChannel` | one channel of `readRcInputs` | `onRightChange` (interrupt), `ReadClocks`, `ReadCapture`, `Elapse` |
| `WifiLink` | `checkWiFiStatus` | `CheckWiFiStatus` (one disjunct per branch), `SendFails`, and the environment `Associate`, `LinkDrops`, `NetworksChange` |
| `TelemetryScheduler` | `serviceOneUdpSendTask` | `StartIteration` (its length, whether the Jetson is heard and when), `ServiceOneUdpSendTask` (send, skip or fail) |
| `FlowMeter` | `pollFlowSensor`, `calculateFlowData` | `PollFlowSensor`, `CompleteBin` (one turn of its loop), and the iteration around them |
| `CommandSender` | the outgoing half of the node over UDP | `AttemptConnect`, the outcomes of `handleCommand` (`CommandDropped`, `StopSuppressed`, `CommandSent`, `SendFailed`), `PingSent`, `Ends`, `Starts` |
| `ThrusterLink` | node + network + firmware | each action conjoins one of `CommandSender` or `ThrusterControl` with what it does to the packets in flight |
| `AlertPipeline` | `alerts.py`, the three ways of `main.py` to the browsers | `Insert`, `Commit`, `Notify` (`add_alert`), `PushStart`, `PushSend`, `CloseOne`, `CloseAll`, `DiffCollect`, `DiffSend`, `Join`, `FullRead`, `FullSend`, `Leave`, `Shutdown`, `Restart` |
| `ChannelCache` | one cache entry, its loop and its readers | `LoopWake`, `LoopCollected`, `LoopSend`, `LoopFails`; the full state of a browser in `ReadCached`, `ReadMissed`, `ReadCollected`, `ReadFails`, `SendFullState`; `Invalidate` |
| `ProcessControl` | both controllers and the processes outside | `Start...`, `Stop...`, `CheckStatus`, `Record...`, `End...`, `Down`, `Up`; outside `ScriptLaunches`, `LaunchEnds`, `RecorderServes` |
| `SensorBase` | what all monitors share | operators: status priority, memory of the connection |
| `NaviLidar`, `Camera`, `SmallSensors` (ULI, IMU, Pi 5), `ThrusterSensor`, `BatterySensor` | what each monitor makes of what it observes | operators: connectivity, topics, log, verdict |
| `SensorCards` | `_build_sensor_result` | operators: promotion, node and topic of a card |
| `SensorMonitor` | threads that use one monitor | `Probe`, `Lost`, `Alert`, `Judge`, `JudgeBattery`, `CheckRaises`, `Card`, `ProbeOnly`, `MessageArrives` |
| `Ros2Monitor` | `ROS2Monitor.check()` and `ROS2Helper` | `CheckRunning`, `CheckNodes`, `CheckTopics`, `CheckRates...`, `EnsureMonitoring`, `TakeLock`; the helper's `HelperStarts`, `SpinTakesLock`, `SpinRecords`, `SpinEnds` |
| `LogFollower` | both log parsers, used by threads | `OpenLog`, `ReadLines`, `KeepPosition`, `Parse`, `Answer`; outside `NewLog`, `DriverWrites` |
| `ThrusterFeed` | MQTT client, callbacks, throttled push | `Connect`, `ConnectRaises`, `AddCallback`, `Subscribe`, `OnConnect`, `OnDisconnect`, `OnStatus`, `OnSystemOnline`, `OnPi5`, `OnDatagram`, `Broadcast`; `Schedule` and `TakePush` are the queue of the event loop |
| `ThrusterControlProofs`, `ThrusterLinkProofs` | theorems about one module each | |
| `RcChannelProofs`, `FirmwareProofs` | theorems about `RcChannel` and about `WifiLink`, as `MCFirmware` holds them | |
| `TelemetryProofs`, `DashboardProofs`, `DevicesProofs` | theorems about the modules that the `MC` module of that name holds | |
| `SensorMonitorProofs` | theorems about `SensorMonitor` | |
| `MC*` | the instances TLC checks | |

`SensorMonitor` EXTENDS `SensorCards`, which EXTENDS `SensorBase`, and INSTANCEs
the modules of the single monitors. `ThrusterLink` EXTENDS `ThrusterControl`
and INSTANCEs `CommandSender`. `ThrusterControl` INSTANCEs `ControlAuthority` with
its refinement mapping: the stage `control` is the decision, the ESC pulses are the
thrust, and a command is recent that is younger than the loop's `now`. The PINGs,
the sockets, the stages and the WiFi output (what a command has asked for
and no ESC shows yet) are hidden by it. `MCFirmware`, `MCTelemetry`, `MCDashboard` and
`MCDevices` hold two or three modules that share no state: each EXTENDS one of
them, INSTANCEs the others, and a behavior chooses one with `part` and leaves the
variables of the others alone. This explores each as by itself, and each part
has its own fairness. The proof modules extend these, so that a theorem and a
run name the same property.

**Time.** In the firmware's modules a stamp `t` is represented by its age, `now - t`,
the only thing the code computes from it. `Elapse` makes all ages one unit older.
Ages of `millis()` stop at a bound above everything they are compared with, so the
modules speak of uptimes below 49.7 days; `ThrusterControl` with `Wraps = TRUE` lets
them return to zero, which is what unsigned subtraction does. The stamp of a
captured RC pulse is one of `micros()`, which wraps every 71.6 minutes: its age
always returns to zero, after `AgeMax` units. The local `now` of `loop()` is an age too (`loopAge`), so code
that compares a stamp with an old `now` is modelled as such. `ChannelCache`,
`ProcessControl`, `LogFollower` and `ThrusterFeed` have ages with a `Tick`;
`SensorMonitor` and `Ros2Monitor` need to know of a time only whether it is over,
and have an action by which it becomes so.

**Abstractions.** Pulse values are small integers around neutral in
`ThrusterControl`, real microseconds in `RcChannel`. The two ESC channels share
only the decision who drives, so the model is parameterised by `Side` and one
channel is checked; the proofs hold for any set of channels. `CheckWiFiStatus` of
`ThrusterControl` opens or closes the sockets at will, and the RC pipeline
yields any level while the channel is alive: both are more than `WifiLink` and
`RcChannel` allow. A packet carries one complete command or none; the line
buffer of `readUdpCommands` is left out. In `ThrusterLink` the waiting packets
form a set, so they are reordered at will, and of equal packets all but one are
lost. An alert is its id and its status, "resolved" and "ignored" being one. A
log is a number of half records, so that a read can end inside one. What a monitor
observes is a record of booleans (it answers the quick probe, the topic exists,
...); the statistics of a log are the ranges that the thresholds tell apart.

## Runs

| Run | Question | Bounds |
|---|---|---|
| `firmware` | Who may drive the ESC (`ControlIsGranted`: the loop implements `ControlAuthority`), how fast it moves, that silence ends at neutral and by when (`ThrustEnds`); sockets consistent, scans complete, the link comes back; silence, direction and convergence of one RC channel in both builds | pulses 0..8, timeout 2, grace 1, iterations up to 2 units, so that a timeout passes within one, as within `WiFi.begin()`; ages up to 8, above the 7 units of `ThrustEnds`, so that it could fail (with an iteration less in its bound it does); raw commands include one out of range. Three networks in a table of four with a hole, so that scans wrap around; four disturbances. Four RC widths: one per direction, one inside the hysteresis gap, one invalid; the real filter constants; failsafe time 1 and `micros()` modulo 6, so that a silent channel is judged stale, cleared, and revived by the wrap-around |
| `telemetry` | No task gives way for longer than its slack and the turns it loses; the flow window is exact and its estimate follows the flow | the real ratios of the intervals, iterations of 50 ms; the Jetson is heard before or after `now` in any iteration; the slacks are the least that hold; five bins, three changes, iterations longer than a bin |
| `link` | Thrust needs a recent request; stops are left out rightly; repeated commands are obeyed | commands stop and thrust; grace 0 (the grace period is `firmware`'s), stop suppression time 0, so that its test is always due |
| `dashboard` | One launch, stops that stop, recordings that are shown; data that is recent, broadcasts that go on; alerts that are durable and reach the browser | two launches, one recording, one failing scan, one restart; a lifetime of 1 against an interval of 2, two ticks of lateness of the loop and of waiting of a full state; two alerts, one browser, one crash or failed read |
| `sensors` | The card settles, alerts come once | all seven sensors; two checking threads and the connectivity probe; every observation until the world settles |
| `devices` | The ROS status settles; no record of a log is skipped and a silent camera is noticed; telemetry comes back and is pushed | two checking threads, one node, one topic in three configurations; two readers, one log of one whole and one torn record; two monitors on one MQTT client, two pushes waiting for the event loop; the UDP port is bound, and since no datagram has to come this includes what can happen when it is taken |
| `control_failsafe`, `rc_stale`, `link_stop`, `ros_hang`, `sensors_quality`, `log_silence` | What comments and documents say and the code does not do | as above, `log_silence` with two logs; each ends with a counterexample |

Two of everything that competes is enough for the races in question: each is
between a pair of threads, an old and a new value, or one party and the world.
Every property of a passing run is broken by at least one mutant of the model that
stands for a plausible bug (`PROJECT.json`, "mutants"; the definitions named
`Mutant_...` are used nowhere else). Properties that speak of one part of a composed
module bear the name they have in that part.

### What the counterexamples show

1. `control_failsafe`: an RC value read before the WiFi check is written to the
   ESC after it, when the RC signal has been gone for seconds. `ThrustHasSource`
   is what does hold: the source was alive when the iteration read it.
2. `link_stop`: a lost or rate-limited stop is never repeated; the thrust command
   stays in force until its timeout.
3. `ros_hang`: `get_all_frequencies()` waits for the lock it holds. Only the
   configuration, which disables topic details, keeps the dashboard from it.
4. `sensors_quality`: WARNING and CRITICAL for bad data never reach the card while
   node and topic exist.
5. `log_silence`: a lidar driver that stopped logging never counts as stale.
6. `rc_stale`: the stamp of the last captured pulse is never cleared, so a dead
   channel's last width counts as fresh again for the failsafe time after every
   71.6 minutes. Held off center it is confirmed as motion and moves the output.
   `SilentChannelIsNeutral` is what does hold: outside the two failsafe times after
   a wrap-around the output is neutral. `readRcInputs` says "stale widths must not
   keep RC alive forever" (`.ino:649`).

### Observed on the way, not among the runs

* With `Wraps = TRUE` a command revives 49.7 days later, because
  `haveWifiCmd` is not cleared while PINGs continue (`.ino:1143`).
* When RC has driven while the Jetson stayed online, the next WiFi command is
  ramped from the old WiFi value (`.ino:1165`), and the ESC jumps.
* One RC frame read by two iterations counts as two consecutive frames
  (`.ino:447`).
* A packet read after `now` was taken makes the Jetson look offline for the rest of
  the iteration (`.ino:347`). Commands are accepted every 20 ms and documented at 50 Hz
  (`Arduino/README.md:42`, `88`): when one is stamped later than `now` in every
  iteration, no status, flow, DHT or monitor packet is sent at all, only heartbeats.
* A full state takes what is fresh in the caches first and then waits for the slowest
  of the missing channels (`main.py:503-561`): its hits, too, are older by that wait
  when they are sent.
* Each pushed status carries its own payload. When several wait for the event loop,
  the throttle sends the oldest and drops the newer ones behind it
  (`main.py:680-712`), so the browsers can be shown statuses that lag behind.
* An alert that is pushed and closed between two runs of the compatibility loop leaves no
  difference to broadcast: it stays on the board until the next change or
  reconnect. It is outside the premise of `BoardFollowsStore`.
* A process that may not be signalled is skipped by a stop, which answers success
  (`ros2_control.py:199-226`); the model has no such process.
* With `ThroughCache = TRUE`, the channels "ros2" and "time", `ServedIsRecent` fails:
  cached data is stored again under a new stamp (`main.py:1743`, `1757`). With the
  shipped interval and age of 1 s each, the time is refreshed only by jitter.
* With a `ScriptTicks` above the cooldown `OneLaunch` fails: a start script that
  needs longer than two seconds to reach `ros2 launch` can be started twice.
* A ROS helper that failed to start is never tried again, and no shell command
  stands in for it (`ros2_helper.py:461`): the status stays a warning.
* A monitor whose MQTT `connect()` raised never listens, and a client made before
  the exception is later taken for a good one (`mqtt_client.py:55`).
* In a log that replaces another one everything before the old position is
  skipped (`lidar_log_parser.py:112`).

### Fairness

* `ThrusterControl!FairSpec`, `LinkFairSpec`: the Arduino core calls `loop()` for
  ever and none of its calls blocks for ever (weak fairness of the loop's step);
  every iteration takes time (strong fairness of `Elapse`, which the control stage
  disables for a moment). Nothing is assumed of the node, of the network or of
  the RC receiver; `CommandArrives` has as its hypothesis that some packets arrive.
* `RcChannel!FairSpec`, in the run `RcFairness`: `loop()` keeps calling `readRcInputs`.
* `WifiLink!FairSpec`: `loop()` keeps calling `checkWiFiStatus`; a network in range
  that is asked for again and again is joined in the end, because `WiFi.begin()`
  blocks until it is or the attempt is over; a radio notices that its
  network is gone. The number of disturbances is bounded, so they end.
* `AlertPipeline`: asyncio runs every task that is ready, a thread inside
  `add_alert` goes on, a stopping process ends. No user and no browser has to act.
* `ChannelCache`: time passes, the loop's task gets its turns, a full state whose parts
  are there is sent, and the loop's collecting does not fail every time (strong
  fairness, since a failure takes the collection away).
* `ProcessControl`: time passes, a request that can go on does, a script reaches its
  `ros2 launch`; the status collector gets the lock between requests (strong
  fairness, since each request takes it away).
* `SensorMonitor`: the channel's loop calls `check()` again and again, the grace
  period ends, a device that is well sends messages, and the battery is read again
  after its minimal interval. Failing, settling and the end of the alert's
  cooldown need not happen.
* `Ros2Monitor`: threads run and `check()` is called again and again; the helper's
  spin thread runs until it ends. The outside is free.
* `LogFollower`: time passes and the readers keep asking; drivers need not write.
* `ThrusterFeed`: the threads run, the event loop takes the pushes that wait in their
  order, and publishers keep publishing. That the broker
  stays reachable is a hypothesis of the properties, not of the specification.

## Proofs

The proofs hold for every value of the constants that satisfies the named
assumptions of the module concerned, so for any number of channels, networks, bins,
threads, alerts and records, for any timeouts, and without the bounds of the
runs. Each safety property follows from an inductive invariant; the following says
what had to be added to the property, and why.

**`ThrusterControlProofs`**

* `TypeCorrect`: no ESC pulse leaves its range. Needs nothing about wrap-around,
  and neither does `WifiSlewLimitedAlways`: no iteration moves an ESC that WiFi drives
  by more than the ramp step and the snap to neutral, if the ramp reaches neutral
  from anywhere (`RampReachesNeutral`, 500 against 400 microseconds in the code).
* `InductiveInvariant`, under `~Wraps` (an uptime below 49.7 days; with wrapping ages TLC
  finds `RegrantOnlyByCommand` violated, so the assumption is needed). The properties are not inductive: that
  RC regains control only once needs to know that a command remembered while RC
  drives is either beyond its grace period or was accepted in this iteration
  (`RevokedStaysOld`); that the decay never crosses neutral needs to know that the
  ESCs carry the WiFi output while WiFi drives (`WifiOutputTracked`); that
  thrust has a source needs to know that the output of a channel off neutral
  was computed from a live one (`RcNeutralWhenSilent`).
* From it `CommandImpliesPingAlways`, `ThrustAlwaysHasSource`,
  `RegrantOnlyByCommandAlways` and `GraceOnlySlowsAlways`. (`RegrantOnlyByCommand`
  and `GraceOnlySlows` are no properties of a run of their own, since
  `ControlIsGranted` demands them of `FollowCommand` and `SlowDown`.)
* `ThrustEndsAlways`, under `~Wraps`, is the failsafe as a deadline: at every instant,
  not only when the ESCs are written, a pulse off neutral has a source that was over
  less than two iterations ago: a command, or the last RC reading that was accepted as
  fresh (the receiver's last pulse may be another failsafe time older than that
  reading). One iteration is the age of the decision, the other
  the time until the next one. `SourceAges` says per stage how old the source of a
  pulse can be, in terms of the age of the iteration (`loopAge`).
* `ControlIsGrantedAlways`: every step of the loop is a step of `ControlAuthority` or
  leaves it alone, under `~Wraps` and `RampReachesNeutral`. That RC may take over only when
  the command is over or its sender silent rests on `CommandImpliesPing`; that an
  old command never takes over, on `RevokedStaysOld`; that without a new command the
  thrust stays or slows down, on `WifiOutputTracked`; that it changes at the rate of
  the ramp, on `OneStepPending` (at most one step of the ramp lies between the
  ESCs and the WiFi output).

**`ThrusterLinkProofs`**

* `LinkImplementsControl`: every step of the composition is a step of
  `ThrusterControl` or leaves it alone. Its theorems hold of the composition,
  `LinkThrustHasSource` and `LinkControlIsGranted` for two.
* `SuppressionFollowsWireAlways`: by the invariant that the remembered last
  packet is the last one on the wire, and that `last_command_was_stop_`
  implies that it was a stop. It also follows that the second test of
  `handleCommand`, the one with the three seconds, never decides anything.
* `ThrustNeedsRequestAlways`, under `~Wraps` and `RampAssumption` (the same as
  `RampReachesNeutral`). Its
  invariant `RequestInv` follows a request through the system: a waiting
  packet counts as a request made now; a WiFi output off neutral is no older
  than the request behind it; and at each stage of an iteration the ESC pulses
  are no older than the timeout, the grace period and the time the loop has
  still to run.
* `LinkTypeCorrect`: the type invariant, with the backoff delay below its maximum.
  Its hypothesis `PowersAreNumbers` says that a power of two is a natural number,
  which follows by an induction that the provers cannot make.

**`RcChannelProofs`**, for both builds and any pulse widths. `TypeCorrect` rests on what
the table of gears, the linear mapping and the filter return. A channel was updated
at most a failsafe time after the pulse that updated it, or so long ago that the
failsafe acts (`UpdatedInTime`); from this `SilentChannelIsNeutralAlways`, with no
assumption on where the interrupt falls and none on the uptime: `micros()` wraps
after any number of units above two failsafe times (`RcAssumption`). A wrap-around makes
the last pulse of a silent channel young again, and the theorem says that the
output is neutral whenever that age is above two failsafe times, so a revived channel is
held to the same bound as one that has just fallen silent.
`ThrustFollowsStickAlways` is an action property of the hysteresis and the filter.
`ApproachesTargetAlways` is what convergence rests on: a reading moves the output
nearer to the gear (or to neutral), never past it, and rests only within the
rounding of the filter, three microseconds (`FilterApproaches`).

**`FirmwareProofs`**, for any table of networks with any holes.

* `WifiInvariant` adds two things to the types and the paired sockets. The radio
  is on the network it was last told to join, which is the one of the attempt, or
  between attempts the one the code has noted (`OnTarget`). And while a scan goes on, the
  networks tried stand in the order of their distance from its start around
  the table, and every configured one that is no further than the current one
  has been tried (`Sweeps`).
* From it `SocketsNeverHalfOpen`, `KnowsItsNetworkAlways` and `ScanIsCompleteAlways`: a
  scan that gives up has tried each configured network exactly once. The last
  one counts: as many tries as networks, no network twice, so no network is left.
* `FirmwareTypesCorrect`: the types of control loop and WiFi link together.

**`TelemetryProofs`**, for windows of any number of bins, under `FlowAssumption`.

* `RollingIsWindowSumAlways`: one subtraction and one addition per bin keep the sum of
  the window, which the model computes by folding over the set of bins. The
  lemmas show that the fold is a sum taken an element at a time, and that such
  a sum does not depend on the order.
* `EstimateFollowsFlowAlways` needs to know how old a change counted in a bin can be,
  by the place of the bin in the ring (`CountsAreYoung`), how far the calculation lags
  behind the clock (`Behind`), and that the last change is counted somewhere or has
  left the window (`LastChangeCounts`).
* `TypeCorrect` says among other things that no count goes below zero, where the code's unsigned
  integers would wrap. `TelemetryTypesCorrect`: the scheduler's types too.
* `SentOnTimeAlways`: how long a due packet gives way to others never exceeds its slack,
  after what it lost itself is taken off, for all constants that pass the test
  `Schedulable`. Nothing is assumed of when the Jetson is heard: an iteration in which
  it is heard after `now` is lost to all packets but the heartbeat, while the packets
  it competes with become due; so the time lost in such iterations is taken off
  (`Waited`), and without that no bound would hold. The proof keeps an account (`Account`)
  per task: the time it has given way, scaled, plus weights for the ages of its rivals,
  plus the cost of a packet for every turn of the rotation still ahead (`Load`). A packet
  of a rival restarts the rival's age, and the weight of its interval pays for
  it; an iteration adds at most the cost of one packet and one that is lost adds
  nothing (`Balanced`). So the account stays below its `Limit`, which the slack
  covers (`InBalance`, `WaitInv`). `Schedulable` asks for one account per task that
  balances. Without such a test no bound holds: a flow interval of three
  iterations would starve the status packet.
* `ShippedIntervalsOnTime`: the intervals of the sketch pass the test, with the weights
  of `ShippedAccount`. With iterations of up to 50 ms a flow packet never gives way, DHT
  and monitor packets do for at most 290 ms, a heartbeat for 340 ms and a status
  packet for 370 ms, beyond the turns they lost; a heartbeat loses none. The 50 ms are a
  hypothesis: the sketch measures no iteration, and none that joins a network is so short.

**`DashboardProofs`**

* `PushedIsDurableAlways`: an alert that is queued for a push, sent or received is
  in the database file (`SentIsDurable`), because an insertion comes before the
  thread tells anyone (`WrittenFirst`) and a crash empties the queues.
* `ServedIsRecentAlways`, under `~ThroughCache` (a channel collected anew in every
  cycle; TLC refutes it for the two that are not): what a browser is sent is no older than
  the lifetime of an entry and twice the time a full state waits for its slowest part.
  An entry's data is older than its stamp by at most one such wait, that of the full
  state that stored it (`StampTellsAge`); what a full state holds of an entry that it
  found fresh grows older by its own (`HeldIsRecent`). TLC refutes a smaller bound.
* `OneLaunchAlways` and `StoppedMeansStoppedAlways`, under `PromptScript` (a script
  launches within the cooldown, the wait of a stop and a restart of the dashboard;
  without it TLC finds two launches). `ControlInv` counts launches and scripts together
  and knows no script to be younger than a request that waits.
* `ServerTypesCorrect` needs neither of the two assumptions.

**`SensorMonitorProofs`**, for any number of threads. `AlertsPerCooldownAlways`: nothing
guards the stamp of the last alert, but once it is set no thread comes to be about to
raise another, so alerts raised and threads about to raise one are together
no more than the threads (`EachAlertsOnce`). `TypeCorrect` follows every verdict of the seven monitors to the card.
Two theorems give the part of `CardSettles` that needs no fairness. `GoneStaysDisconnected`:
once the grace period is over and no check under way knows better (`GoneForGood`),
a device that is gone stays disconnected on its card. `WellStaysOk`, with
`RclpyAvailable`: a device that is well, that was seen to be and whose card says so
(`WellForGood`) stays ok, for all seven kinds. The work is in the verdicts: whatever such
a device may show, each monitor comes to the same one (`WellJudged`, `ProbeBelieved`).

**`DevicesProofs`**, for any number of threads, logs and records.

* `NothingSkippedAlways`: every record before a position that is stored, or from which
  some thread has begun to read, was parsed, is in the hands of a thread that has yet
  to parse it, or was cut by the end of a read (`FirstLogReached`). It needs no
  lock: a thread that stores an old position only makes records be read again.
* `TypeCorrect` (the history never exceeds `max_history`), and `DeviceTypesCorrect`
  for log parsers, ROS 2 monitor and MQTT client together.
* `SubscribedWhileUpAlways`: while the connection is up, each topic that the constructor of
  a monitor has registered is subscribed and has its callback. A topic is in
  the client's list before anything is asked of the broker, and `_on_connect` asks for all
  of the list (`NoTopicLost`), so a request lost with a connection is repeated.
* `StatusStaysAlways`, if there are nodes and topics to expect: once the recorded status is
  that of the system, no check by any thread, by subscription or by shell, changes
  it before the system does. `KnownHealthy` and `KnownDown` add to the recorded status
  what the checks under way have found so far.

The provers have no induction over data. Where a proof needs it, for sums over a
set, the least element of a set, or the size of a set, it takes a minimal
counterexample, from the library's theorem that the finite subsets of a set are
well-founded by inclusion (`LeastElement`, `MinimalSubset`).

Only model-checked:

* liveness, that is everything that depends on fairness, which the provers do not
  reach: `SilenceStops`, `SettlesNearGear`, `LinkComesBack`, `CommandArrives`, and of
  the dashboard and the devices `BroadcastsGoOn`, `RecordingIsShown`,
  `BoardFollowsStore`, `CardSettles`, `Ros2StatusSettles`, `CameraSilenceIsNoticed`,
  `TelemetryComesBack` and `PushesGoOn`. What can be said without fairness is
  proved for five of them: `ThrustEnds` gives `SilenceStops` its deadline,
  `ApproachesTarget` is the step of `SettlesNearGear`, `SubscribedWhileUp` that of
  `TelemetryComesBack`, `StatusStays` and the two theorems on cards are the stability of
  `Ros2StatusSettles` and `CardSettles`;
* that the slacks of the run `telemetry` are the least possible (TLC refutes
  `SentOnTime` for smaller ones). The analysis of `SentOnTimeAlways` counts as if all
  that can delay a packet came together, so its bounds are larger (but flow data's).

## Plan

The path of the commands and the dashboard exist. What is left matters less
to the vessel: the node's telemetry (`onTimer`,
`pollSocket`, `handleMqttMessages` with the queue that the MQTT library's thread
fills), and the limit on browser connections.

## Not modelled

* The serial node: no launch file starts it. The MQTT variant of the WiFi node
  and its telemetry: see the plan.
* The sensor drivers, the DHT and LED code, the battery and PTP publishers: they
  keep a last sample, which nothing of the control logic reads.
* `scripts/send_zda_pin8.py`, `calib.py` and the other scripts, the launch files:
  run by hand or once at boot, sequential, pure input and output.
* In the dashboard: the event log, pages that only read files, the limit on
  connections and the subscriptions, the differences of the single cards, alerts
  on data quality, the clean-up of old alerts, and of the browser everything
  but its list of alerts.
