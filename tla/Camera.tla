------------------------------- MODULE Camera -------------------------------
(***************************************************************************)
(* sensor_monitor/camera.py: the GigE camera, probed by ARP or ping,       *)
(* publishing images, logging a report every few seconds.                  *)
(***************************************************************************)
EXTENDS SensorBase

\* The latest report: the lifetime frequency ("high" above 150 %), the share
\* of incomplete frames, errors on the network interface, latency, age.  The
\* parser's queue_dropped is always 0, so the queue's branches are dead.
LogObs == [frames : BOOLEAN, freq : {"none", "severe", "low", "good", "high"},
           incomplete : {"none", "some", "many"}, errors : BOOLEAN,
           slow : BOOLEAN, stale : BOOLEAN]

\* _check_connectivity(): ARP first, ping as fallback.
Connectivity(m, o) == ProbeResult(m, o.quick \/ o.ping)

\* _check_topics(): as for the lidar, without asking the shell for topics.
TopicAvailable(g) == GraphUsable(g) /\ g.topic

\* _check_camera_log_data()
LogStatus(log) ==
  IF ~log.frames THEN "connected"
  ELSE Worst((IF log.freq = "severe" \/ log.incomplete = "many" \/ log.errors
              THEN {"critical"} ELSE {})
             \cup (IF log.freq \in {"low", "high"} \/ log.incomplete # "none"
                      \/ log.slow \/ log.stale THEN {"warning"} ELSE {}))

\* check() once the camera is reachable
Verdict(g, log) ==
  CASE ~g.ros -> "connected"
    [] g.ros /\ ~TopicAvailable(g) -> "connected"
    [] OTHER -> IF LogStatus(log) \in {"critical", "warning"} THEN LogStatus(log) ELSE "ok"
=============================================================================
