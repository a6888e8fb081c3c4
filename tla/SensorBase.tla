----------------------------- MODULE SensorBase -----------------------------
(***************************************************************************)
(* What the sensor monitors share (diagnostics/base.py and the parts every *)
(* diagnostics/sensor_monitor/*.py repeats): status levels and their       *)
(* priority, the memory of the connection with its grace period, and what  *)
(* a monitor can observe.  Every monitor has a module of its own that says *)
(* what it makes of the observations; SensorMonitor puts them to use.      *)
(***************************************************************************)
EXTENDS FiniteSets, Integers

CONSTANTS
  MaxFailures,    \* max_consecutive_failures
  RclpyAvailable  \* rclpy is installed where the dashboard runs

\* STATUS_PRIORITY: the lower, the more severe.
STATUS_PRIORITY == [s \in {"critical", "disconnected", "warning", "unknown",
                           "stopped", "connected", "ok"} |->
    CASE s = "critical" -> 0 [] s = "disconnected" -> 1 [] s = "warning" -> 2
      [] s \in {"unknown", "stopped"} -> 3 [] s = "connected" -> 4 [] s = "ok" -> 5]
StatusLevel == DOMAIN STATUS_PRIORITY

get_higher_priority_status(s1, s2) ==
  IF STATUS_PRIORITY[s1] < STATUS_PRIORITY[s2] THEN s1 ELSE s2

\* The status of several findings, which starts from OK.
Worst(levels) ==
  CHOOSE s \in levels \cup {"ok"} :
    \A t \in levels \cup {"ok"} : get_higher_priority_status(t, s) = s
-----------------------------------------------------------------------------
(* The memory of the connection: _consecutive_failures, and whether         *)
(* _last_successful_connection is set and less than the grace period ago.   *)

Memory == [failures : 0..MaxFailures + 1, graced : BOOLEAN]
NoMemory == [failures |-> 0, graced |-> FALSE]

\* Mutant: the time of the last success is set before the probe is judged.
Mutant_AfterProbe(m, answered) == [failures |-> 0, graced |-> TRUE]

AfterProbe(m, answered) ==
  IF answered THEN [failures |-> 0, graced |-> TRUE]
  ELSE [m EXCEPT !.failures = IF @ > MaxFailures THEN @ ELSE @ + 1]

\* A probe that fails is overlooked within the grace period, unless too many
\* did in a row.
Cached(m) == m.graced /\ m.failures <= MaxFailures

\* What a probe leaves behind and what it reports.
ProbeResult(m, answered) ==
  LET after == AfterProbe(m, answered)
  IN [memory |-> after, reachable |-> answered \/ Cached(after)]
-----------------------------------------------------------------------------
(* What there is to observe.  `quick` is the answer to the probe that is     *)
(* tried first (TCP, ARP, the device file, the bus), `ping` that to a ping.  *)

ProbeObs == [quick : BOOLEAN, ping : BOOLEAN]

\* The ROS graph: ROS runs, the helper raises, it lists the topic and a node
\* of the sensor, `ros2` commands list the topic, the topic has a publisher,
\* and messages arrive on it.
GraphObs == [ros : BOOLEAN, raises : BOOLEAN, topic : BOOLEAN, node : BOOLEAN,
             shell : BOOLEAN, publisher : BOOLEAN, data : BOOLEAN]

\* The part of _check_topics() that all monitors with topics begin with.
GraphUsable(g) == RclpyAvailable /\ g.ros /\ ~g.raises

\* get_diagnostic_summary(): every status has a word and a colour of its own,
\* before the first check the word is 'stopped'.
Summary(last) == IF last = "none" THEN "stopped" ELSE last
=============================================================================
