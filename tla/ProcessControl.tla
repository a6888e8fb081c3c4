--------------------------- MODULE ProcessControl ---------------------------
(***************************************************************************)
(* The dashboard's control of ROS 2 (ros2_control.py) and of the recorder  *)
(* (rosbag_controller.py).  The start, stop and recording requests are     *)
(* handled on the event loop's thread, which each of them blocks until it  *)
(* has its answer; the status of the recorder is read in threads.          *)
(*                                                                         *)
(* The processes are not the dashboard's own: run_ros2_all.sh works for a  *)
(* while before it executes `ros2 launch`, the only thing of it that a     *)
(* scan of the process table recognises, and `ros2 bag record` belongs to  *)
(* a recorder node that ROS 2 launched and that answers two services.      *)
(***************************************************************************)
EXTENDS FiniteSets, Integers

CONSTANTS
  OPERATION_COOLDOWN, \* ticks; ros2_control.py and rosbag_controller.py agree
  StopWait,           \* ticks a stop waits between SIGTERM and SIGKILL
  ScriptTicks,        \* ticks within which the script executes `ros2 launch`
  ServiceTicks,       \* service_timeout_sec, in ticks
  RestartTicks,       \* ticks a restart of the dashboard takes at least
  MaxLaunches,        \* bound: scripts started
  MaxRecordings,      \* bound: recordings started
  MaxFaults,          \* bound: scans and operations that fail
  MaxRestarts         \* bound: restarts of the dashboard

ASSUME ControlAssumption ==
  /\ OPERATION_COOLDOWN \in Nat /\ StopWait \in Nat /\ ScriptTicks \in Nat
  /\ ServiceTicks \in Nat /\ RestartTicks \in Nat
  /\ MaxLaunches \in Nat /\ MaxRecordings \in Nat
  /\ MaxFaults \in Nat /\ MaxRestarts \in Nat

\* The script executes `ros2 launch` before a cooldown, the wait of a stop or
\* a restart of the dashboard is over.
PromptScript ==
  /\ ScriptTicks < OPERATION_COOLDOWN
  /\ ScriptTicks < StopWait
  /\ ScriptTicks < RestartTicks

VARIABLES
  scripts,     \* ages of the scripts that have not yet executed ros2 launch
  launches,    \* running `ros2 launch` processes
  recording,   \* number of the running recording, 0 when there is none
  asked,       \* the service call the recorder node has not yet served
  request,     \* what the event loop's thread is doing
  elapsed,     \* ticks since the request began to wait
  sinceStart, sinceStop,       \* ages of ROS2Controller's operation times
  sinceRecord, sinceRecordEnd, \* ages of RosbagController's
  currentBag,  \* number of the recording _current_bag_path belongs to, or 0
  answer,      \* how the last request was answered
  wanted,      \* ghost: the last start or stop of ROS 2 that was answered
  launched, recorded, faults, restarts

outside == <<scripts, launches, recording, asked>>
rosTimes == <<sinceStart, sinceStop>>
bagTimes == <<sinceRecord, sinceRecordEnd>>
waiting == <<request, elapsed>>
bounds == <<launched, recorded, restarts>>
vars == <<outside, waiting, rosTimes, bagTimes, currentBag, answer, wanted, bounds, faults>>

LongAgo == OPERATION_COOLDOWN
Older(age) == IF age < LongAgo THEN age + 1 ELSE age
InCooldown(age) == age < OPERATION_COOLDOWN

TypeOK ==
  /\ scripts \in SUBSET (0..ScriptTicks) /\ launches \in 0..MaxLaunches
  /\ recording \in 0..MaxRecordings /\ currentBag \in 0..MaxRecordings
  /\ asked \in {"none", "start", "stop"}
  /\ request \in {"idle", "stopping", "recording", "ending", "down"}
  /\ elapsed \in Nat
  /\ {sinceStart, sinceStop, sinceRecord, sinceRecordEnd} \subseteq 0..LongAgo
  /\ answer \in {"ok", "refused", "failed"}
  /\ wanted \in {"nothing", "ros2", "stopped"}
  /\ launched \in 0..MaxLaunches /\ recorded \in 0..MaxRecordings
  /\ faults \in 0..MaxFaults /\ restarts \in 0..MaxRestarts

Init ==
  /\ scripts = {} /\ launches = 0 /\ recording = 0 /\ asked = "none"
  /\ request = "idle" /\ elapsed = 0
  /\ sinceStart = LongAgo /\ sinceStop = LongAgo
  /\ sinceRecord = LongAgo /\ sinceRecordEnd = LongAgo
  /\ currentBag = 0 /\ answer = "ok" /\ wanted = "nothing"
  /\ launched = 0 /\ recorded = 0 /\ faults = 0 /\ restarts = 0

Answer(how) == answer' = how
Fault == faults < MaxFaults /\ faults' = faults + 1
-----------------------------------------------------------------------------
(* Time and the processes outside *)

\* How long a request may wait; ScriptTicks bounds the age of a script.
WaitEnds ==
  CASE request = "idle" -> FALSE
    [] request = "stopping" -> elapsed >= StopWait
    [] request = "down" -> elapsed >= RestartTicks
    [] OTHER -> elapsed >= ServiceTicks

Tick ==
  /\ ScriptTicks \notin scripts /\ ~WaitEnds
  /\ scripts' = {age + 1 : age \in scripts}
  /\ elapsed' = IF request = "idle" THEN 0 ELSE elapsed + 1
  /\ sinceStart' = Older(sinceStart) /\ sinceStop' = Older(sinceStop)
  /\ sinceRecord' = Older(sinceRecord) /\ sinceRecordEnd' = Older(sinceRecordEnd)
  /\ UNCHANGED <<launches, recording, asked, request, currentBag, answer, wanted, bounds, faults>>

OutsideOnly ==
  UNCHANGED <<waiting, rosTimes, bagTimes, currentBag, answer, wanted, launched, restarts, faults>>

ScriptLaunches ==
  /\ \E age \in scripts : scripts' = scripts \ {age}
  /\ launches' = launches + 1
  /\ UNCHANGED <<recording, asked, recorded>> /\ OutsideOnly

\* `ros2 launch` ends; with the last one the recorder node, which may leave
\* its `ros2 bag record` behind.
LaunchGone(left, bag) ==
  /\ launches' = left
  /\ recording' = bag /\ bag \in {0, recording}
  /\ asked' = IF left = 0 THEN "none" ELSE asked

LaunchEnds ==
  /\ launches > 0
  /\ \E bag \in {0, recording} : LaunchGone(launches - 1, bag)
  /\ UNCHANGED <<scripts, recorded>> /\ OutsideOnly

\* The recorder node serves the call in its own time, or refuses it.
RecorderServes ==
  /\ asked # "none" /\ asked' = "none"
  /\ \/ UNCHANGED <<recording, recorded>>
     \/ asked = "stop" /\ recording' = 0 /\ UNCHANGED recorded
     \/ /\ asked = "start" /\ recording = 0 /\ recorded < MaxRecordings
        /\ recorded' = recorded + 1 /\ recording' = recorded + 1
  /\ UNCHANGED <<scripts, launches>> /\ OutsideOnly
-----------------------------------------------------------------------------
(* ROS2Controller *)

\* check_running(): any `ros2 launch` of the machine; a scan that raises
\* counts as not running.
CheckRunning(running) ==
  \/ running = (launches > 0) /\ UNCHANGED faults
  \/ ~running /\ launches > 0 /\ Fault

StartRefused ==
  /\ request = "idle" /\ InCooldown(sinceStart)
  /\ Answer("refused")
  /\ UNCHANGED <<outside, waiting, rosTimes, bagTimes, currentBag, wanted, bounds, faults>>

StartAlready ==
  /\ request = "idle" /\ ~InCooldown(sinceStart) /\ CheckRunning(TRUE)
  /\ Answer("ok") /\ sinceStart' = 0
  /\ UNCHANGED <<outside, waiting, sinceStop, bagTimes, currentBag, wanted, bounds>>

\* Mutant: nothing keeps a second start from following the first.
Mutant_Start ==
  /\ request = "idle" /\ launched < MaxLaunches /\ CheckRunning(FALSE)
  /\ scripts' = scripts \cup {0} /\ launched' = launched + 1
  /\ Answer("ok") /\ sinceStart' = 0 /\ wanted' = "ros2"
  /\ UNCHANGED <<launches, recording, asked, waiting, sinceStop, bagTimes, currentBag, recorded, restarts>>

Start ==
  /\ request = "idle" /\ ~InCooldown(sinceStart) /\ launched < MaxLaunches
  /\ CheckRunning(FALSE)
  /\ scripts' = scripts \cup {0} /\ launched' = launched + 1
  /\ Answer("ok") /\ sinceStart' = 0 /\ wanted' = "ros2"
  /\ UNCHANGED <<launches, recording, asked, waiting, sinceStop, bagTimes, currentBag, recorded, restarts>>

\* Opening the log file or executing the script raises.
StartFails ==
  /\ request = "idle" /\ ~InCooldown(sinceStart) /\ launches = 0 /\ Fault
  /\ Answer("failed") /\ sinceStart' = LongAgo
  /\ UNCHANGED <<outside, waiting, sinceStop, bagTimes, currentBag, wanted, bounds>>

StopRefused ==
  /\ request = "idle" /\ InCooldown(sinceStop)
  /\ Answer("refused")
  /\ UNCHANGED <<outside, waiting, rosTimes, bagTimes, currentBag, wanted, bounds, faults>>

\* SIGTERM for every process of ROS 2 that is visible; some do not obey.
\* The script itself matches none of the patterns.
StopTerminates ==
  /\ request = "idle" /\ ~InCooldown(sinceStop)
  /\ request' = "stopping" /\ elapsed' = 0 /\ sinceStop' = 0
  /\ \E left \in 0..launches, bag \in {0, recording} : LaunchGone(left, bag)
  /\ UNCHANGED <<scripts, sinceStart, bagTimes, currentBag, answer, wanted, bounds, faults>>

\* Mutant: SIGKILL is not sent, as if nothing had come up meanwhile.
Mutant_StopKills ==
  /\ request = "stopping" /\ WaitEnds
  /\ request' = "idle" /\ elapsed' = 0 /\ Answer("ok") /\ wanted' = "stopped"
  /\ UNCHANGED <<outside, rosTimes, bagTimes, currentBag, bounds, faults>>

StopKills ==
  /\ request = "stopping" /\ WaitEnds
  /\ LaunchGone(0, 0)
  /\ request' = "idle" /\ elapsed' = 0 /\ Answer("ok") /\ wanted' = "stopped"
  /\ UNCHANGED <<scripts, rosTimes, bagTimes, currentBag, bounds, faults>>

\* A scan raised: what it has not reached goes on.
StopFails ==
  /\ request = "stopping" /\ WaitEnds /\ Fault
  /\ request' = "idle" /\ elapsed' = 0 /\ Answer("failed") /\ sinceStop' = LongAgo
  /\ UNCHANGED <<outside, sinceStart, bagTimes, currentBag, wanted, bounds>>
-----------------------------------------------------------------------------
(* RosbagController.  Without a visible ROS 2 the route refuses to record,  *)
(* and changes nothing.                                                     *)

\* _check_recording_process(): a pgrep that takes too long counts as "no".
Scan(found) ==
  \/ found = (recording # 0) /\ UNCHANGED faults
  \/ ~found /\ recording # 0 /\ Fault

StatusOnly ==
  UNCHANGED <<outside, waiting, rosTimes, bagTimes, answer, wanted, bounds>>

\* Mutant: the path is only ever forgotten by a status.
Mutant_CheckStatus ==
  /\ request \notin {"recording", "ending", "down"}
  /\ \/ Scan(TRUE) /\ UNCHANGED currentBag
     \/ Scan(FALSE) /\ currentBag' = 0
  /\ StatusOnly

\* check_status(), in a thread; it waits for the lock that a request holds.
CheckStatus ==
  /\ request \notin {"recording", "ending", "down"}
  /\ \/ Scan(TRUE) /\ currentBag' = IF currentBag = 0 THEN recording ELSE currentBag
     \/ Scan(FALSE) /\ currentBag' = 0
  /\ StatusOnly

RecordRefused ==
  /\ request = "idle" /\ launches > 0 /\ InCooldown(sinceRecord)
  /\ Answer("refused")
  /\ UNCHANGED <<outside, waiting, rosTimes, bagTimes, currentBag, wanted, bounds, faults>>

RecordAlready ==
  /\ request = "idle" /\ launches > 0 /\ ~InCooldown(sinceRecord) /\ Scan(TRUE)
  /\ Answer("ok") /\ sinceRecord' = 0
  /\ UNCHANGED <<outside, waiting, rosTimes, sinceRecordEnd, currentBag, wanted, bounds>>

RecordCalls ==
  /\ request = "idle" /\ launches > 0 /\ ~InCooldown(sinceRecord) /\ Scan(FALSE)
  /\ request' = "recording" /\ elapsed' = 0 /\ asked' = "start" /\ sinceRecord' = 0
  /\ UNCHANGED <<scripts, launches, recording, rosTimes, sinceRecordEnd, currentBag, answer, wanted, bounds>>

\* _call_start_service(): the node has answered, or the call times out
\* although the node may yet serve it.
RecordAnswered ==
  /\ request = "recording" /\ (asked = "none" \/ WaitEnds)
  /\ request' = "idle" /\ elapsed' = 0
  /\ IF asked = "none" /\ recording # 0
     THEN currentBag' = recording /\ Answer("ok") /\ UNCHANGED sinceRecord
     ELSE Answer("failed") /\ sinceRecord' = LongAgo /\ UNCHANGED currentBag
  /\ UNCHANGED <<outside, rosTimes, sinceRecordEnd, wanted, bounds, faults>>

EndRefused ==
  /\ request = "idle" /\ InCooldown(sinceRecordEnd)
  /\ Answer("refused")
  /\ UNCHANGED <<outside, waiting, rosTimes, bagTimes, currentBag, wanted, bounds, faults>>

EndAlready ==
  /\ request = "idle" /\ ~InCooldown(sinceRecordEnd) /\ Scan(FALSE)
  /\ Answer("ok") /\ sinceRecordEnd' = 0
  /\ UNCHANGED <<outside, waiting, rosTimes, sinceRecord, currentBag, wanted, bounds>>

\* Without a recorder node the call finds no service and times out.
EndCalls ==
  /\ request = "idle" /\ ~InCooldown(sinceRecordEnd) /\ Scan(TRUE)
  /\ request' = "ending" /\ elapsed' = 0 /\ sinceRecordEnd' = 0
  /\ asked' = IF launches > 0 THEN "stop" ELSE "none"
  /\ UNCHANGED <<scripts, launches, recording, rosTimes, sinceRecord, currentBag, answer, wanted, bounds>>

EndAnswered ==
  /\ request = "ending" /\ (asked = "none" \/ WaitEnds)
  /\ request' = "idle" /\ elapsed' = 0
  /\ IF asked = "none" /\ recording = 0
     THEN currentBag' = 0 /\ Answer("ok") /\ UNCHANGED sinceRecordEnd
     ELSE Answer("failed") /\ sinceRecordEnd' = LongAgo /\ UNCHANGED currentBag
  /\ UNCHANGED <<outside, rosTimes, sinceRecord, wanted, bounds, faults>>
-----------------------------------------------------------------------------
(* The dashboard ends, by a crash or after a shutdown, whose stop of ROS 2  *)
(* is the same as a user's; the next process knows nothing of this one's    *)
(* operations.                                                              *)
Down ==
  /\ request # "down" /\ restarts < MaxRestarts
  /\ request' = "down" /\ elapsed' = 0 /\ restarts' = restarts + 1
  /\ UNCHANGED <<outside, rosTimes, bagTimes, currentBag, answer, wanted, launched, recorded, faults>>

Up ==
  /\ request = "down" /\ WaitEnds
  /\ request' = "idle" /\ elapsed' = 0
  /\ sinceStart' = LongAgo /\ sinceStop' = LongAgo
  /\ sinceRecord' = LongAgo /\ sinceRecordEnd' = LongAgo
  /\ currentBag' = 0
  /\ UNCHANGED <<outside, answer, wanted, bounds, faults>>

Next ==
  \/ Tick \/ ScriptLaunches \/ LaunchEnds \/ RecorderServes
  \/ StartRefused \/ StartAlready \/ Start \/ StartFails
  \/ StopRefused \/ StopTerminates \/ StopKills \/ StopFails
  \/ CheckStatus
  \/ RecordRefused \/ RecordAlready \/ RecordCalls \/ RecordAnswered
  \/ EndRefused \/ EndAlready \/ EndCalls \/ EndAnswered
  \/ Down \/ Up

\* Time passes, a request that can go on does, and the collectors of the
\* status get the lock between requests.
Fairness ==
  /\ WF_vars(Tick) /\ WF_vars(ScriptLaunches)
  /\ WF_vars(StopKills) /\ WF_vars(RecordAnswered) /\ WF_vars(EndAnswered) /\ WF_vars(Up)
  /\ SF_vars(CheckStatus)

Spec == Init /\ [][Next]_vars /\ Fairness
-----------------------------------------------------------------------------
(* Whatever requests users send, however often, and over restarts of the    *)
(* dashboard, ROS 2 is launched at most once at a time ("idempotent         *)
(* operation", ros2_control.py:86): a second start finds the first one's    *)
(* cooldown or its `ros2 launch`.  Holds when a script launches within the  *)
(* cooldown, as long as no scan fails; not for a slower script.             *)
OneLaunch == faults = 0 => Cardinality(scripts) + launches <= 1

(* When a stop was answered with success, nothing of ROS 2 runs until the   *)
(* next start, also what came up while the stop waited.                     *)
StoppedMeansStopped ==
  wanted = "stopped" /\ request # "stopping" => launches = 0 /\ recording = 0 /\ asked = "none"

(* A recording that goes on is shown with a path, even if its start was     *)
(* reported as a failure, the dashboard restarted, or a scan failed.        *)
RecordingIsShown == (recording # 0) ~> (currentBag # 0 \/ recording = 0)
=============================================================================
