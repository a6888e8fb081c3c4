----------------------------- MODULE Ros2Monitor -----------------------------
(***************************************************************************)
(* ROS2Monitor.check() (ros2_monitor.py) and the ROS2Helper it shares with *)
(* every other monitor (ros2_helper.py): is ROS running, are the expected  *)
(* nodes there, are there topics, do the topics come at their rate.  The   *)
(* collector thread and the request threads run check() concurrently; the  *)
(* helper's spin thread counts messages under the helper's topic lock.     *)
(***************************************************************************)
EXTENDS FiniteSets, Integers

CONSTANTS
  Checkers,  \* threads that call check()
  Expected,  \* EXPECTED_NODES
  Topics,    \* topics with an expected frequency
  Rates,     \* what a topic may do: a subset of RateNames with "absent"
  Free       \* the lock's holder when nobody holds it

VARIABLES
  config,    \* the settings of this process
  running,   \* a ROS 2 process is in the process table
  nodes,     \* expected nodes that are up
  rate,      \* rate[t]: how topic t is published
  answers,   \* `ros2 ...` commands come back in time
  helper,    \* the singleton ROS2Helper: "none" | "ready" | "failed", or
             \* "deaf": ready for its callers, but its spin thread has ended
  lock,      \* holder of ROS2Helper._topic_lock
  monitored, \* topics with a frequency subscription
  heard,     \* subscribed topics with enough recent time stamps
  pc,        \* pc[c]: the part of check() thread c is in
  status,    \* status[c]: overall_status so far
  last       \* last_result.status, "none" before the first check

vars == <<config, running, nodes, rate, answers, helper, lock, monitored, heard,
          pc, status, last>>
world == <<running, nodes, rate, answers>>
helperState == <<helper, lock, monitored, heard>>
checks == <<pc, status, last>>

RateNames == {"absent", "silent", "bad", "slow", "good"}
Config == [rclpy : BOOLEAN,    \* RCLPY_AVAILABLE
           details : BOOLEAN,  \* enable_topic_details
           monitoring : BOOLEAN, \* enable_rclpy_monitoring
           fallback : BOOLEAN] \* fallback_to_shell
\* The settings explored: without rclpy; as shipped (details disabled); with
\* the details enabled.
Configs == {
  [rclpy |-> FALSE, details |-> TRUE, monitoring |-> TRUE, fallback |-> TRUE],
  [rclpy |-> TRUE, details |-> FALSE, monitoring |-> TRUE, fallback |-> TRUE],
  [rclpy |-> TRUE, details |-> TRUE, monitoring |-> TRUE, fallback |-> TRUE]}
Spin == "spin"

\* The order that max(..., key=[UNKNOWN, OK, WARNING, CRITICAL].index) uses.
Severity == [s \in {"unknown", "ok", "warning", "critical"} |->
    CASE s = "unknown" -> 0 [] s = "ok" -> 1 [] s = "warning" -> 2 [] s = "critical" -> 3]
Worse(a, b) == IF Severity[b] > Severity[a] THEN b ELSE a

TypeOK ==
  /\ config \in Config /\ running \in BOOLEAN /\ nodes \subseteq Expected
  /\ rate \in [Topics -> RateNames] /\ answers \in BOOLEAN
  /\ helper \in {"none", "ready", "failed", "deaf"} /\ lock \in Checkers \cup {Spin, Free}
  /\ monitored \subseteq Topics /\ heard \subseteq monitored
  /\ pc \in [Checkers -> {"idle", "nodes", "topics", "rates", "ensure", "all", "one"}]
  /\ status \in [Checkers -> DOMAIN Severity] /\ last \in DOMAIN Severity \cup {"none"}

Init ==
  /\ config \in Configs /\ running = FALSE /\ nodes = {} /\ answers = TRUE
  /\ rate = [t \in Topics |-> "absent"]
  /\ helper = "none" /\ lock = Free /\ monitored = {} /\ heard = {}
  /\ pc = [c \in Checkers |-> "idle"] /\ status = [c \in Checkers |-> "unknown"]
  /\ last = "none"
-----------------------------------------------------------------------------
(* What happens outside *)

RosStartsOrStops == running' = ~running /\ UNCHANGED <<config, nodes, rate, answers, helperState, checks>>

NodesChange ==
  /\ nodes' \in SUBSET Expected
  /\ UNCHANGED <<config, running, rate, answers, helperState, checks>>

RateChanges ==
  /\ \E t \in Topics, r \in Rates : rate' = [rate EXCEPT ![t] = r]
  /\ UNCHANGED <<config, running, nodes, answers, helperState, checks>>

CommandsStallOrRecover ==
  /\ answers' = ~answers
  /\ UNCHANGED <<config, running, nodes, rate, helperState, checks>>

\* The recent time stamps leave the window of a topic no longer heard.
WindowPasses ==
  /\ \E t \in heard :
       /\ helper = "deaf" \/ rate[t] \in {"absent", "silent"}
       /\ heard' = heard \ {t}
  /\ UNCHANGED <<config, world, helper, lock, monitored, checks>>
-----------------------------------------------------------------------------
(* The helper *)

\* get_ros2_helper() and start(): called once, by whoever comes first.
\* rclpy.init() or the node's constructor may raise; nothing tries again.
HelperStarts ==
  /\ config.rclpy /\ helper = "none"
  /\ \E c \in Checkers : pc[c] \in {"nodes", "topics", "rates"}
  /\ helper' \in {"ready", "failed"}
  /\ UNCHANGED <<config, world, lock, monitored, heard, checks>>

\* _spin() hands a message to _on_message_received(), which needs the lock.
SpinTakesLock ==
  /\ helper = "ready"
  /\ \E t \in monitored \ heard : rate[t] \in {"bad", "slow", "good"}
  /\ lock = Free /\ lock' = Spin
  /\ UNCHANGED <<config, world, helper, monitored, heard, checks>>

SpinRecords ==
  /\ lock = Spin /\ lock' = Free
  /\ heard' = heard \cup {t \in monitored : rate[t] \in {"bad", "slow", "good"}}
  /\ UNCHANGED <<config, world, helper, monitored, checks>>

\* Any exception of spin_once() ends the spin thread for good (sensor threads
\* spin their own nodes on the same global executor); is_ready() stays true.
SpinEnds ==
  /\ helper = "ready" /\ lock # Spin /\ helper' = "deaf"
  /\ UNCHANGED <<config, world, lock, monitored, heard, checks>>
-----------------------------------------------------------------------------
(* check(), one step for each thing it asks *)

At(c, label) == pc[c] = label
Go(c, label) == pc' = [pc EXCEPT ![c] = label]
Ready == helper \in {"ready", "deaf"}
HelperSettled == ~config.rclpy \/ helper # "none"

\* What `node list` and `topic list` say, through the helper when rclpy is
\* installed (its get_node_names() ends at the shell command in every case,
\* its topics come from the graph) and through the shell when it is not.
NodesSeen ==
  IF (config.rclpy => Ready) /\ answers THEN nodes ELSE {}
TopicsSeen ==
  IF IF config.rclpy THEN Ready ELSE answers
  THEN {t \in Topics : rate[t] # "absent"} ELSE {}

\* _check_nodes(): nothing seen is a warning; expected nodes all missing is
\* critical, some missing a warning.  A process that is up while none of the
\* expected nodes is shows as other nodes being listed or none.
NodeStatus(seen, others) ==
  IF seen = {} THEN IF others THEN "critical" ELSE "warning"
  ELSE IF seen # Expected THEN "warning" ELSE "ok"

\* Mutant: the early return forgets to store the verdict.
Mutant_CheckRunning(c) ==
  /\ At(c, "idle") /\ running /\ Go(c, "nodes")
  /\ UNCHANGED <<config, world, helperState, status, last>>

\* _check_ros2_running() is a scan of the process table; check() returns at
\* once when nothing is found.
CheckRunning(c) ==
  /\ At(c, "idle")
  /\ IF running
     THEN Go(c, "nodes") /\ UNCHANGED last
     ELSE last' = "critical" /\ UNCHANGED pc
  /\ UNCHANGED <<config, world, helperState, status>>

CheckNodes(c) ==
  /\ At(c, "nodes") /\ HelperSettled
  /\ \E others \in BOOLEAN : status' = [status EXCEPT ![c] = NodeStatus(NodesSeen, others)]
  /\ Go(c, "topics")
  /\ UNCHANGED <<config, world, helperState, last>>

CheckTopics(c) ==
  /\ At(c, "topics") /\ HelperSettled
  /\ status' = [status EXCEPT ![c] = Worse(@, IF TopicsSeen = {} THEN "warning" ELSE "ok")]
  /\ Go(c, "rates")
  /\ UNCHANGED <<config, world, helperState, last>>

\* The end of check(): the verdict is stored, whatever another thread stored
\* in the meantime.
Report(c, worst) ==
  /\ last' = Worse(status[c], worst) /\ Go(c, "idle")
  /\ status' = [status EXCEPT ![c] = "unknown"]

\* A rate counts from 90 % on as good, from 70 % on as slow.  A topic whose
\* rate cannot be measured has none, and is left out.
RateStatus(measured) ==
  IF \E t \in measured : rate[t] = "bad" THEN "critical"
  ELSE IF \E t \in measured : rate[t] = "slow" THEN "warning" ELSE "ok"

UsesHelper == config.rclpy /\ config.monitoring /\ Ready

\* _check_frequencies() when it does not use the helper's subscriptions
CheckRates(c) ==
  /\ At(c, "rates") /\ HelperSettled /\ ~(config.details /\ UsesHelper)
  /\ Report(c, IF config.details /\ config.fallback
               THEN RateStatus(IF answers THEN {t \in Topics : rate[t] # "silent"} ELSE {})
               ELSE "unknown")
  /\ UNCHANGED <<config, world, helperState>>

CheckRatesByHelper(c) ==
  /\ At(c, "rates") /\ config.details /\ UsesHelper
  /\ Go(c, "ensure")
  /\ UNCHANGED <<config, world, helperState, status, last>>

\* _ensure_frequency_monitoring(): a subscription for each topic that exists;
\* start_frequency_monitor() takes the lock and gives it back.
EnsureMonitoring(c) ==
  /\ At(c, "ensure") /\ lock = Free
  /\ monitored' = monitored \cup {t \in Topics : rate[t] # "absent"}
  /\ Go(c, "all")
  /\ UNCHANGED <<config, world, helper, lock, heard, status, last>>

\* _topic_lock is a threading.Lock: nobody can take it twice.
\* get_all_frequencies() takes the lock ("all") and, for each topic it knows,
\* calls get_frequency(), which takes it again ("one").
TakeLock(c) ==
  /\ pc[c] \in {"all", "one"} /\ lock = Free
  /\ IF At(c, "all") /\ monitored # {}
     THEN lock' = c /\ Go(c, "one") /\ UNCHANGED <<status, last>>
     ELSE lock' = Free /\ Report(c, RateStatus(heard))
  /\ UNCHANGED <<config, world, helper, monitored, heard>>

Check(c) ==
  \/ CheckRunning(c) \/ CheckNodes(c) \/ CheckTopics(c) \/ CheckRates(c)
  \/ CheckRatesByHelper(c) \/ EnsureMonitoring(c) \/ TakeLock(c)

Next ==
  \/ RosStartsOrStops \/ NodesChange \/ RateChanges \/ CommandsStallOrRecover
  \/ WindowPasses \/ HelperStarts \/ SpinTakesLock \/ SpinRecords \/ SpinEnds
  \/ \E c \in Checkers : Check(c)

\* Threads run, and the callers of check() call it again and again.
Fairness ==
  /\ WF_vars(HelperStarts) /\ WF_vars(SpinTakesLock) /\ WF_vars(SpinRecords)
  /\ WF_vars(WindowPasses)
  /\ \A c \in Checkers : WF_vars(Check(c))

Spec == Init /\ [][Next]_vars /\ Fairness
-----------------------------------------------------------------------------
Healthy ==
  running /\ answers /\ nodes = Expected /\ \A t \in Topics : rate[t] = "good"

\* The two ways in which the code leaves the verdict behind for good.
HelperLost == helper = "failed"
MayHang == config.rclpy /\ config.monitoring /\ config.details

(* The recorded status follows the system: when everything is up and stays  *)
(* up it becomes and stays ok, and when ROS is gone it becomes and stays    *)
(* critical, whatever checks were under way in other threads at the change  *)
(* and whichever of them stores its verdict last.  Except for a helper that *)
(* failed to start, for which no shell command stands in, and for the       *)
(* frequency check through the helper, see CheckReturns.                    *)
StatusSettles ==
  /\ <>[]Healthy => \/ <>[](last \in {"ok"}) \/ <>[]HelperLost \/ MayHang
  /\ <>[]~running => <>[](last = "critical") \/ MayHang

(* A check that was begun ends ("Get frequencies for all monitored topics", *)
(* ros2_helper.py:335).  It fails: get_all_frequencies() holds the lock     *)
(* that get_frequency() waits for.                                          *)
CheckReturns == \A c \in Checkers : pc[c] # "idle" ~> pc[c] = "idle"
=============================================================================
