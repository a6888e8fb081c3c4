------------------------------ MODULE NaviLidar ------------------------------
(***************************************************************************)
(* sensor_monitor/navi_lidar.py: the Hesai lidar, reached over TCP or by   *)
(* ping, publishing point clouds, logging every frame.                     *)
(***************************************************************************)
EXTENDS SensorBase

\* What LidarLogParser's statistics are compared with: frequencies and point
\* counts by halves of the minimum (below half, below the minimum, enough).
LogObs == [frames : BOOLEAN, freq : {"none", "severe", "low", "good"},
           points : {"severe", "low", "good"}, stale : BOOLEAN]

\* _check_connectivity(): TCP first, ping as fallback.
Connectivity(m, o) == ProbeResult(m, o.quick \/ o.ping)

\* _get_topic_publisher_count(): `ros2 topic info`, 0 when it fails.
TopicPublisherCount(g) == IF g.publisher /\ g.shell THEN 1 ELSE 0

\* _check_topics(): when the helper finds neither topic nor node the shell is
\* asked.  A node and publishers make the difference between OK and WARNING
\* in a result nobody reads: the topic counts as available without them.
TopicsStatus(g) ==
  LET topic == g.topic \/ (~g.node /\ g.shell)
  IN CASE ~GraphUsable(g) -> "stopped"
       [] topic /\ g.node /\ TopicPublisherCount(g) > 0 -> "ok"
       [] OTHER -> "warning"
TopicAvailable(g) == GraphUsable(g) /\ (g.topic \/ (~g.node /\ g.shell))

\* _check_lidar_log_data().  Its alerts, one per kind and cooldown, decide
\* nothing and are left out.
LogStatus(log) ==
  IF ~log.frames THEN "connected"
  ELSE Worst((IF log.freq = "severe" \/ log.points = "severe" THEN {"critical"} ELSE {})
             \cup (IF log.freq = "low" \/ log.points = "low" \/ log.stale
                   THEN {"warning"} ELSE {}))

\* check() once the lidar is reachable: data quality counts only while the
\* topic is available, and a log without frames is no issue.
Verdict(g, log) ==
  CASE ~g.ros -> "connected"
    [] g.ros /\ ~TopicAvailable(g) -> "connected"
    [] OTHER -> IF LogStatus(log) \in {"critical", "warning"} THEN LogStatus(log) ELSE "ok"
=============================================================================
