---------------------------- MODULE SmallSensors ----------------------------
(***************************************************************************)
(* The monitors without topics: uli_lidar.py, which only pings, and        *)
(* pi5_sensors.py, which pings and listens to MQTT; and imu.py, which      *)
(* looks for a device file and verifies its topic once.                    *)
(***************************************************************************)
EXTENDS SensorBase

\* UliLidarDiagnostic._check_connectivity() and check(): a ping of several
\* packets may lose some of them.
UliConnectivity(m, o) == ProbeResult(m, o.ping)
UliVerdict(losesPackets) == IF losesPackets THEN "warning" ELSE "ok"

\* _on_mqtt_measurements() and _parse_measurements_payload(): a payload with
\* known fields, flat or nested, replaces what was known and its time; any
\* other payload leaves both.
PayloadKinds == {"flat", "nested", "unknown"}
OnMeasurements(mqtt, payload) ==
  IF payload = "unknown" THEN mqtt ELSE mqtt \cup {"quality"}
\* _on_mqtt_ups_status(): every payload that is a dictionary counts.
OnUpsStatus(mqtt, payload) ==
  IF payload = "unknown" THEN mqtt ELSE mqtt \cup {"ups"}

\* Pi5SensorsDiagnostic.check(): the ping decides, with no grace period; data
\* that has become stale is as good as fresh.
Pi5Verdict(o, mqtt) ==
  CASE ~o.ping -> "disconnected"
    [] o.ping /\ mqtt # {} -> "ok"
    [] OTHER -> "connected"

\* IMUDiagnostic._check_serial_connection(): a device file that exists counts
\* as connected, readable or not; there is no grace period.
SerialConnected(o) == o.quick

\* IMUDiagnostic._check_topics(): no publisher is asked for.
ImuTopicAvailable(g) == GraphUsable(g) /\ g.topic

\* _verify_data_once(): within three seconds a message arrives or none does.
\* Either way the check is done for the life of the process.
Verify(g) == RclpyAvailable /\ g.data

\* IMUDiagnostic.check() once the port is there; `done` is _data_check_done.
\* Later checks take the data for verified, whatever the first one found.
ImuVerdict(g, done) ==
  CASE ~g.ros -> "connected"
    [] g.ros /\ ~ImuTopicAvailable(g) -> "connected"
    [] OTHER -> IF done \/ Verify(g) THEN "ok" ELSE "warning"
=============================================================================
