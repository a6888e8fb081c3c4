--------------------------- MODULE MCTelemetry ----------------------------
(***************************************************************************)
(* FlowMeter and TelemetryScheduler for TLC.  The two share nothing but    *)
(* the iterations of loop(), so a run explores one or the other: `part`    *)
(* says which, and the other keeps its initial state.  Scheduler times are *)
(* in units of 50 ms; flow times in units of 100 ms.                       *)
(***************************************************************************)
EXTENDS FlowMeter

CONSTANTS HEARTBEAT_INTERVAL_MS, STATUS_SEND_INTERVAL_MS, FLOW_SEND_INTERVAL_MS,
          DHT_SEND_INTERVAL_MS, MONITOR_PACKET_INTERVAL_MS,
          JETSON_ONLINE_TIMEOUT_MS, MaxSendIteration, Slack

VARIABLES part, pc, age, nextUdpSendTask, nextMonitorPacketType,
          udpServersStarted, pingAge, late

Sched == INSTANCE TelemetryScheduler WITH MaxIteration <- MaxSendIteration

ASSUME TelemetryConstants == FlowAssumption /\ Sched!SchedulerAssumption

\* The smallest slacks that hold.
SlackOf == [t \in 0 .. 4 |->
    CASE t = 0 -> 3     \* heartbeat
      [] t = 1 -> 5     \* status
      [] t = 2 -> 0     \* flow
      [] t = 3 -> 3     \* DHT
      [] t = 4 -> 3]    \* monitor

schedVars == <<pc, age, nextUdpSendTask, nextMonitorPacketType,
               udpServersStarted, pingAge, late>>

MCInit ==
    /\ Init
    /\ Sched!Init
    /\ part \in {"scheduler", "flow"}
    /\ part = "scheduler" => calcAge = WINDOW

MCNext ==
    /\ UNCHANGED part
    /\ \/ part = "scheduler" /\ Sched!Next /\ UNCHANGED vars
       \/ part = "flow" /\ Next /\ UNCHANGED schedVars

MCSpec == MCInit /\ [][MCNext]_<<vars, schedVars, part>>

\* The types of the variables of both parts; the scheduler's invariant, under
\* a name of its own.
TypesOK    == TypeOK /\ Sched!TypeOK
SentOnTime == Sched!SentOnTime
=============================================================================
