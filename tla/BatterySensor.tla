---------------------------- MODULE BatterySensor ----------------------------
(***************************************************************************)
(* sensor_monitor/battery.py: an ADC on the I2C bus, probed directly, and  *)
(* the voltages its node publishes, read one message at a time.            *)
(***************************************************************************)
EXTENDS SensorBase

\* _check_i2c_connection(): TRUE, FALSE, or unknown where neither smbus nor
\* i2cget is installed.  No grace period: one failed read is a disconnection.
I2cStates == {"connected", "disconnected", "unknown"}

\* _read_battery_data(): data not older than the fresh window is returned as
\* it is, reading is tried at most once per interval, by rclpy and then by the
\* shell; when all fails the old voltages are returned, whatever their age.
\* `voltages` is "none", "fresh" or "old".
ReadBatteryData(voltages, throttled, g) ==
  CASE voltages = "fresh" -> "fresh"
    [] voltages # "fresh" /\ throttled -> voltages
    [] OTHER -> IF g.data THEN "fresh" ELSE voltages

\* _has_valid_voltage_data()
HasValidVoltageData(voltages) == voltages # "none"

\* _check_topics_and_read_data(): the node makes no difference.
DataAvailable(g, voltages) == GraphUsable(g) /\ g.topic /\ HasValidVoltageData(voltages)

\* check() unless the bus says "disconnected"
Verdict(i2c, g, voltages) ==
  CASE ~g.ros -> IF i2c = "connected" THEN "connected" ELSE "stopped"
    [] g.ros /\ DataAvailable(g, voltages) -> "ok"
    [] OTHER -> IF i2c = "connected" THEN "connected" ELSE "disconnected"
=============================================================================
