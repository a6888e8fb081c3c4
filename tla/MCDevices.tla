----------------------------- MODULE MCDevices -----------------------------
(***************************************************************************)
(* LogFollower, Ros2Monitor and ThrusterFeed, the dashboard's sources of   *)
(* information, for TLC.  They share no state, so a behavior explores one  *)
(* of them: `part` says which, and the others keep their initial states.   *)
(***************************************************************************)
EXTENDS LogFollower

CONSTANTS Checkers, Expected, Topics, Rates, Free, MinInterval, MaxWaiting

VARIABLES part,
          config, running, nodes, rate, answers, helper, lock, monitored, heard,
          checkPc, status, last,
          broker, up, session, client, loop, connected, topics, callbacks, buildPc,
          todo, socket, online, fresh, bridge, sincePush, shown, older, newer

rosVars == <<config, running, nodes, rate, answers, helper, lock, monitored, heard,
             checkPc, status, last>>
feedVars == <<broker, up, session, client, loop, connected, topics, callbacks, buildPc,
              todo, socket, online, fresh, bridge, sincePush, shown, older, newer>>

Ros == INSTANCE Ros2Monitor WITH pc <- checkPc
Feed == INSTANCE ThrusterFeed WITH pc <- buildPc

ASSUME DeviceConstants ==
  /\ LogAssumption /\ Rates \subseteq Ros!RateNames
  /\ MinInterval \in Nat /\ MaxWaiting \in Nat

\* What only one part tells apart has one value in the others.  The port is
\* bound: without a listener a behavior is one in which no datagram comes.
MCInit ==
  /\ part \in {"ros2", "log", "feed"} /\ Init /\ Ros!Init /\ Feed!Init
  /\ part # "ros2" => config.details /\ config.rclpy
  /\ part # "feed" => broker
  /\ socket

MCNext ==
  /\ UNCHANGED part
  /\ \/ part = "ros2" /\ Ros!Next /\ UNCHANGED <<vars, feedVars>>
     \/ part = "log" /\ Next /\ UNCHANGED <<rosVars, feedVars>>
     \/ part = "feed" /\ Feed!Next /\ UNCHANGED <<vars, rosVars>>

\* The fairness of each part, for its own behaviors.
RosFairness ==
  LET On(A) == part = "ros2" /\ A IN
  /\ WF_rosVars(On(Ros!HelperStarts)) /\ WF_rosVars(On(Ros!SpinTakesLock))
  /\ WF_rosVars(On(Ros!SpinRecords)) /\ WF_rosVars(On(Ros!WindowPasses))
  /\ \A c \in Checkers : WF_rosVars(On(Ros!Check(c)))

LogFairness ==
  LET On(A) == part = "log" /\ A IN
  /\ WF_vars(On(Tick))
  /\ \A r \in Readers : WF_vars(On(GetStatistics(r)))

FeedFairness ==
  LET On(A) == part = "feed" /\ A IN
  /\ \A m \in Feed!Monitors :
       /\ WF_feedVars(On(Feed!Connect(m))) /\ WF_feedVars(On(Feed!AddCallback(m)))
       /\ WF_feedVars(On(Feed!Subscribe(m)))
  /\ WF_feedVars(On(Feed!Library)) /\ WF_feedVars(On(Feed!RegisterBridge))
  /\ WF_feedVars(On(Feed!Broadcast)) /\ WF_feedVars(On(Feed!Tick))
  /\ WF_feedVars(On(Feed!OnStatus(TRUE))) /\ WF_feedVars(On(Feed!OnPi5))
  /\ WF_feedVars(On(Feed!DataTimesOut))

MCSpec ==
  /\ MCInit /\ [][MCNext]_<<part, vars, rosVars, feedVars>>
  /\ RosFairness /\ LogFairness /\ FeedFairness

\* The parts' invariants and properties, for their own behaviors: the types
\* of all variables; the recorded status of ROS; when a log's readers notice
\* its silence; the telemetry and its pushes.
TypesOK == TypeOK /\ Ros!TypeOK /\ Feed!TypeOK
Ros2StatusSettles == part = "ros2" => Ros!StatusSettles
CameraSilenceIsNoticed == part = "log" => SilenceIsNoticed
TelemetryComesBack == part = "feed" => Feed!TelemetryComesBack
PushesGoOn == part = "feed" => Feed!PushesGoOn
=============================================================================
