----------------------------- MODULE SensorCards -----------------------------
(***************************************************************************)
(* How the dashboard (main.py) makes the card of a sensor from the result  *)
(* of its monitor's check(), the monitor's summary and a second look at    *)
(* the ROS graph.  Answers that may be missing are "yes", "no", "unknown". *)
(***************************************************************************)
EXTENDS SensorBase

\* SENSOR_DEFS: the sensors whose status is raised when ROS looks alive.
Promoted == {"navi_lidar", "camera", "imu", "thruster"}

YesNo(b) == IF b THEN "yes" ELSE "no"

\* _is_ros2_running() and _get_topic_available(): the monitor's own answer
\* counts where check() got as far as the topics.  The thruster's is stored
\* under a name that is not looked for, so the ROS monitor, the helper and
\* the shell are asked.
TopicOnCard(kind, metric, g) ==
  CASE metric = "unknown" \/ kind \in {"uli_lidar", "pi5_sensors"} -> "unknown"
    [] metric # "unknown" /\ kind # "thruster" -> metric
    [] OTHER -> IF g.ros THEN YesNo(g.topic \/ g.shell) ELSE "unknown"

\* _get_node_available(): shell, ROS monitor, helper, and the shell again.
NodeOnCard(g) == IF g.ros THEN YesNo(g.node) ELSE "unknown"

\* _build_sensor_result(): the end of it.  `summary` is what the monitor's
\* last_result says by then, `connected` comes from this thread's own check.
FinalStatus(kind, summary, connected, node, topic) ==
  CASE kind \in Promoted /\ connected = "Connected" /\ node = "yes" ->
         IF topic = "yes" THEN "ok" ELSE "connected"
    [] OTHER -> IF connected = "Disconnected" THEN "disconnected" ELSE summary

\* Mutant: a word that is no status level.
Mutant_ErrorStatus == "error"

\* _error_sensor_result(): check() raised.
ErrorStatus == "unknown"
=============================================================================
