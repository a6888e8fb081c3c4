--------------------------- MODULE ThrusterSensor ---------------------------
(***************************************************************************)
(* sensor_monitor/thruster.py: the Arduino, pinged, and heard on a UDP     *)
(* port or over MQTT.  Ping and heartbeat keep one memory between them.    *)
(***************************************************************************)
EXTENDS SensorBase

\* _check_connectivity(): ping only.
Connectivity(m, o) == ProbeResult(m, o.ping)

\* _check_udp_heartbeat(): a heartbeat is late by udp_timeout; then the grace
\* period of the shared memory applies, which the ping just renewed.
Heartbeat(m, heard) == ProbeResult(m, heard)

\* _check_topics(): a node makes no difference to `available`.
TopicAvailable(g) == GraphUsable(g) /\ g.topic

\* check() once a ping was answered; `online` is the heartbeat's result.
Verdict(g, online) ==
  CASE ~g.ros -> "connected"
    [] g.ros /\ ~online -> "warning"
    [] OTHER -> IF TopicAvailable(g) THEN "ok" ELSE "connected"
=============================================================================
