------------------------ MODULE TelemetryScheduler ------------------------
(***************************************************************************)
(* The outbound traffic of the Arduino firmware: serviceOneUdpSendTask     *)
(* sends at most one packet in an iteration of loop(), flow data first,    *)
(* the other tasks in rotation.  Every send is stamped with, and every     *)
(* interval measured from, the time `now` at which the iteration started.  *)
(*                                                                         *)
(* Stamps are ages at that time.  A PING or command read in the iteration  *)
(* itself is stamped later than `now`: its age is negative, and because    *)
(* the code subtracts unsigned numbers isJetsonOnline(now) is then false.  *)
(* Such an iteration is lost to every task but the heartbeat, and nothing  *)
(* keeps the Jetson from being heard in each one.                          *)
(*                                                                         *)
(* Environment: how long iterations take, when the Jetson is heard, and    *)
(* the sockets, opened by checkWiFiStatus (module WifiLink) and closed by  *)
(* it or by a failing send.                                                *)
(***************************************************************************)
EXTENDS Integers, FiniteSetsExt

CONSTANTS
    HEARTBEAT_INTERVAL_MS, STATUS_SEND_INTERVAL_MS, FLOW_SEND_INTERVAL_MS,
    DHT_SEND_INTERVAL_MS, MONITOR_PACKET_INTERVAL_MS,
    JETSON_ONLINE_TIMEOUT_MS,
    MaxIteration,   \* longest iteration of loop()
    Slack           \* how long a due packet may give way, per task

Task == 0 .. 4
HEARTBEAT == 0
STATUS    == 1
FLOW      == 2
DHT       == 3
MONITOR   == 4
MONITOR_PACKET_COUNT == 3

Interval == [t \in Task |->
    CASE t = HEARTBEAT -> HEARTBEAT_INTERVAL_MS
      [] t = STATUS    -> STATUS_SEND_INTERVAL_MS
      [] t = FLOW      -> FLOW_SEND_INTERVAL_MS
      [] t = DHT       -> DHT_SEND_INTERVAL_MS
      [] t = MONITOR   -> MONITOR_PACKET_INTERVAL_MS]

\* What the constants must satisfy.
SchedulerAssumption ==
    /\ \A t \in Task : Interval[t] \in Nat \ {0}
    /\ JETSON_ONLINE_TIMEOUT_MS \in Nat \ {0}
    /\ MaxIteration \in Nat \ {0}
    /\ Slack \in [Task -> Nat]

VARIABLES
    pc,                     \* "start" or "send" of an iteration
    age,                    \* age of the last...SendMs stamp of each task
    nextUdpSendTask,
    nextMonitorPacketType,
    udpServersStarted,
    pingAge,                \* age of lastJetsonPingMs, OLD when it timed out
    late                    \* history: how long each due task gave way to
                            \* others, less the time lost to the subtraction

vars == <<pc, age, nextUdpSendTask, nextMonitorPacketType, udpServersStarted,
          pingAge, late>>

OLD == JETSON_ONLINE_TIMEOUT_MS

\* isJetsonOnline(now), with the unsigned subtraction.
IsJetsonOnline == 0 <= pingAge /\ pingAge < JETSON_ONLINE_TIMEOUT_MS

\* What it is meant to say.
JetsonHeard == pingAge < JETSON_ONLINE_TIMEOUT_MS

Due(t) == age[t] >= Interval[t]

\* The tests of the send functions.  The broadcast heartbeat goes out whether
\* the Jetson is online or not.
Sendable(t) == Due(t) /\ (t = HEARTBEAT \/ IsJetsonOnline)

Mutant_Chosen ==
    IF Sendable(FLOW) THEN FLOW
    ELSE Min({t \in Task : Sendable(t)})

\* Flow first, else the first sendable task from nextUdpSendTask on.
Chosen ==
    IF Sendable(FLOW) THEN FLOW
    ELSE LET At(offset) == (nextUdpSendTask + offset) % 5
         IN  At(Min({o \in 0 .. 4 : Sendable(At(o))}))

CapAge(t, a) == IF a > Interval[t] THEN Interval[t] ELSE a

-----------------------------------------------------------------------------

Init ==
    /\ pc = "start"
    /\ age = [t \in Task |-> Interval[t]]
    /\ nextUdpSendTask = HEARTBEAT
    /\ nextMonitorPacketType = 0
    /\ udpServersStarted = FALSE
    /\ pingAge = OLD
    /\ late = [t \in Task |-> 0]

\* Task t stays due after an iteration of length d, the sockets are open and
\* the Jetson was heard lately: it gave way to another packet in an iteration
\* that could have sent it, or the iteration was lost to it.
Waited(t, d) ==
    IF t = HEARTBEAT \/ IsJetsonOnline THEN late[t] + d
    ELSE IF late[t] > d THEN late[t] - d ELSE 0

\* An iteration starts `d` after the last one, checkWiFiStatus may open or
\* close the sockets, and the Jetson may be heard `heard` after the start.
StartIteration(d, heard) ==
    /\ pc = "start"
    /\ pc' = "send"
    /\ age' = [t \in Task |-> CapAge(t, age[t] + d)]
    /\ udpServersStarted' \in BOOLEAN
    /\ \/ pingAge' = IF pingAge + d > OLD THEN OLD ELSE pingAge + d
       \/ udpServersStarted' /\ pingAge' = -heard
    /\ late' = [t \in Task |->
                  IF Due(t) /\ udpServersStarted /\ (t = HEARTBEAT \/ JetsonHeard)
                  THEN Waited(t, d) ELSE 0]
    /\ UNCHANGED <<nextUdpSendTask, nextMonitorPacketType>>

Mutant_Rotate(t) == t + 1

Rotate(t) == (t + 1) % 5

Sent(t) ==
    /\ age' = [age EXCEPT ![t] = 0]
    /\ late' = [late EXCEPT ![t] = 0]
    /\ nextUdpSendTask' = Rotate(t)
    /\ nextMonitorPacketType' =
         IF t = MONITOR THEN (nextMonitorPacketType + 1) % MONITOR_PACKET_COUNT
         ELSE nextMonitorPacketType
    /\ UNCHANGED udpServersStarted

\* markUdpTransportFailure: nothing is stamped, the sockets are closed and
\* the rest of the iteration sends nothing.
SendFails ==
    /\ udpServersStarted' = FALSE
    /\ UNCHANGED <<age, late, nextUdpSendTask, nextMonitorPacketType>>

ServiceOneUdpSendTask ==
    /\ pc = "send"
    /\ pc' = "start"
    /\ IF udpServersStarted /\ \E t \in Task : Sendable(t)
       THEN Sent(Chosen) \/ SendFails
       ELSE UNCHANGED <<age, late, nextUdpSendTask, nextMonitorPacketType,
                        udpServersStarted>>
    /\ UNCHANGED pingAge

Next ==
    \/ \E d \in 1 .. MaxIteration, heard \in 0 .. 1 : StartIteration(d, heard)
    \/ ServiceOneUdpSendTask

Spec == Init /\ [][Next]_vars

-----------------------------------------------------------------------------
(* Properties. *)

TypeOK ==
    /\ pc \in {"start", "send"}
    /\ age \in [Task -> Nat] /\ \A t \in Task : age[t] <= Interval[t]
    /\ nextUdpSendTask \in Task
    /\ nextMonitorPacketType \in 0 .. MONITOR_PACKET_COUNT - 1
    /\ udpServersStarted \in BOOLEAN
    /\ pingAge \in -1 .. OLD
    /\ late \in [Task -> Nat]

\* A packet that is due gives way to others for at most the slack of its task
\* longer than its own turns are lost to the unsigned subtraction, whatever else
\* is due: flow data overtakes the others at every chance and each flow packet
\* restarts the rotation behind it, yet while no turns are lost no task starves.
\* (Time during which the sockets are closed or the Jetson is silent does not
\* count.  A Jetson that is heard after `now` in every iteration loses every
\* turn: then only heartbeats are sent, and no bound holds.)
SentOnTime == \A t \in Task : late[t] <= Slack[t]

=============================================================================
