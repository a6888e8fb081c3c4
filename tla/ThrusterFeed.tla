---------------------------- MODULE ThrusterFeed ----------------------------
(***************************************************************************)
(* How telemetry reaches the dashboard: the MqttClient that the monitors   *)
(* share (mqtt_client.py), the UDP and MQTT listeners of the thruster      *)
(* monitor (thruster.py), and the throttled push to the browsers           *)
(* (main.py).  The monitors are built in threads of their own; the         *)
(* callbacks run in the MQTT library's thread, pushes in the event loop.   *)
(*                                                                         *)
(* The topics: "status" stands for the three data topics of the thruster   *)
(* controller (thruster, flow, dht), which are alike; "system" is its      *)
(* online and offline notice; "pi5" stands for those of the Pi 5.          *)
(***************************************************************************)
EXTENDS Integers

CONSTANTS
  MinInterval,  \* _THRUSTER_MQTT_MIN_INTERVAL, in ticks
  MaxWaiting    \* bound: pushes waiting for the event loop

VARIABLES
  broker,    \* the broker is up and reachable
  up,        \* the library's connection to it
  session,   \* topics subscribed on this connection
  client,    \* _client is not None
  loop,      \* loop_start() was reached: the library's thread runs
  connected, \* _connected
  topics,    \* _subscribed_topics
  callbacks, \* topics with a callback
  pc,        \* pc[m]: what monitor m does: "new" | "ready" | "adding" | "gave_up"
  todo,      \* todo[m]: topics it has still to subscribe
  socket,    \* the UDP port is bound and the listener runs
  online,    \* _last_udp_receive is within the heartbeat timeout
  fresh,     \* data whose stamp is within the timeout
  bridge,    \* set_mqtt_data_callback() was called
  sincePush, \* age of _thruster_mqtt_last_broadcast["status"]
  shown,     \* the browsers were pushed the status last marked, or a later one
  older,     \* pushes waiting for the event loop, of statuses before that
             \* one or, when it was shown, before the next to be marked
  newer      \* those behind them, of the marked status and later ones

vars == <<broker, up, session, client, loop, connected, topics, callbacks, pc,
          todo, socket, online, fresh, bridge, sincePush, shown, older, newer>>
library == <<up, session, client, loop, connected, topics>>
builders == <<callbacks, pc, todo, socket>>
data == <<online, fresh>>
waiting == <<shown, older, newer>>
push == <<bridge, sincePush, waiting>>

Monitors == {"thruster", "pi5"}
TopicsOf == [m \in Monitors |-> IF m = "thruster" THEN {"status", "system"} ELSE {"pi5"}]
AllTopics == UNION {TopicsOf[m] : m \in Monitors}

WaitingOK ==
  /\ shown \in BOOLEAN /\ (shown => newer = 0)
  /\ older \in 0 .. MaxWaiting /\ newer \in 0 .. MaxWaiting /\ older + newer <= MaxWaiting

TypeOK ==
  /\ broker \in BOOLEAN /\ up \in BOOLEAN /\ client \in BOOLEAN /\ loop \in BOOLEAN
  /\ connected \in BOOLEAN /\ socket \in BOOLEAN /\ online \in BOOLEAN
  /\ bridge \in BOOLEAN /\ WaitingOK
  /\ session \subseteq AllTopics /\ topics \subseteq AllTopics /\ callbacks \subseteq AllTopics
  /\ pc \in [Monitors -> {"new", "ready", "adding", "gave_up"}]
  /\ todo \in [Monitors -> SUBSET AllTopics]
  /\ fresh \subseteq {"status", "pi5"} /\ sincePush \in 0 .. MinInterval

\* The port may be taken by the thruster node: then there is no listener.
Init ==
  /\ broker \in BOOLEAN /\ up = FALSE /\ session = {}
  /\ client = FALSE /\ loop = FALSE /\ connected = FALSE /\ topics = {}
  /\ callbacks = {} /\ pc = [m \in Monitors |-> "new"]
  /\ todo = [m \in Monitors |-> {}] /\ socket \in BOOLEAN
  /\ online = FALSE /\ fresh = {}
  /\ bridge = FALSE /\ sincePush = MinInterval /\ shown = FALSE /\ older = 0 /\ newer = 0
-----------------------------------------------------------------------------
(* The monitors' constructors *)

\* _init_mqtt_listener(): connect() returns at once; a client that exists is
\* taken as good.
Connect(m) ==
  /\ pc[m] = "new"
  /\ client' = TRUE /\ loop' = (IF client THEN loop ELSE TRUE)
  /\ pc' = [pc EXCEPT ![m] = "ready"] /\ todo' = [todo EXCEPT ![m] = TopicsOf[m]]
  /\ UNCHANGED <<broker, up, session, connected, topics, callbacks, socket, data, push>>

\* connect() caught an exception, before or after it had made the client.
\* The monitor does not try again.
ConnectRaises(m) ==
  /\ pc[m] = "new" /\ ~client /\ client' \in BOOLEAN
  /\ pc' = [pc EXCEPT ![m] = "gave_up"]
  /\ UNCHANGED <<broker, up, session, loop, connected, topics, callbacks, todo, socket,
                 data, push>>

\* subscribe(), before the lock: the callback is registered.
AddCallback(m) ==
  /\ pc[m] = "ready" /\ pc' = [pc EXCEPT ![m] = "adding"]
  /\ \E t \in todo[m] : callbacks' = callbacks \cup {t}
  /\ UNCHANGED <<broker, library, todo, socket, data, push>>

\* subscribe(), under the lock: a request to the broker if there is a
\* connection and the topic is new, which is lost when the connection has
\* broken and _on_disconnect() has not run yet; a note for later otherwise.
Subscribe(m) ==
  /\ pc[m] = "adding" /\ pc' = [pc EXCEPT ![m] = "ready"]
  /\ \E t \in callbacks \cap todo[m] :
       /\ todo' = [todo EXCEPT ![m] = @ \ {t}]
       /\ topics' = topics \cup {t}
       /\ session' = IF connected /\ t \notin topics /\ up THEN session \cup {t} ELSE session
  /\ UNCHANGED <<broker, up, client, loop, connected, callbacks, socket, data, push>>
-----------------------------------------------------------------------------
(* The library's thread *)

\* Mutant: what was subscribed once is not subscribed again.
Mutant_OnConnect ==
  /\ loop /\ broker /\ ~up /\ ~connected
  /\ up' = TRUE /\ connected' = TRUE
  /\ session' = callbacks \ topics /\ topics' = topics \cup callbacks
  /\ UNCHANGED <<broker, client, loop, builders, data, push>>

\* A connection is made and _on_connect() subscribes, under the lock, every
\* topic noted or with a callback.  (One that is refused changes nothing.)
OnConnect ==
  /\ loop /\ broker /\ ~up /\ ~connected
  /\ up' = TRUE /\ connected' = TRUE
  /\ session' = topics \cup callbacks /\ topics' = topics \cup callbacks
  /\ UNCHANGED <<broker, client, loop, builders, data, push>>

LinkBreaks ==
  /\ up /\ up' = FALSE /\ session' = {}
  /\ UNCHANGED <<broker, client, loop, connected, topics, builders, data, push>>

\* _on_disconnect() runs without the lock.
OnDisconnect ==
  /\ connected /\ ~up /\ connected' = FALSE
  /\ UNCHANGED <<broker, up, session, client, loop, topics, builders, data, push>>

BrokerChanges ==
  /\ broker' = ~broker /\ UNCHANGED <<library, builders, data, push>>

\* schedule_thruster_mqtt_broadcast(): each push carries the status it was
\* made of, behind those that wait.  Once the marked status was shown, any
\* later one may be marked: what holds of it holds of each.
Schedule ==
  /\ older + newer < MaxWaiting
  /\ \/ ~shown /\ newer' = newer + 1 /\ UNCHANGED <<shown, older>>
     \/ shown /\ older' = older + 1 /\ UNCHANGED <<shown, newer>>
     \/ shown /\ shown' = FALSE /\ newer' = 1 /\ UNCHANGED older

\* _on_mqtt_thruster_status() and its likes: any payload renews the time of
\* the last reception, one that cannot be used is then dropped.
OnStatus(usable) ==
  /\ up /\ "status" \in session \cap callbacks
  /\ online' = TRUE
  /\ fresh' = IF usable THEN fresh \cup {"status"} ELSE fresh
  /\ IF usable /\ bridge THEN Schedule ELSE UNCHANGED waiting
  /\ UNCHANGED <<broker, library, builders, bridge, sincePush>>

\* _on_mqtt_system_online(): the offline notice is only logged.
OnSystemOnline(state) ==
  /\ up /\ "system" \in session \cap callbacks
  /\ online' = (online \/ state = "online")
  /\ UNCHANGED <<broker, library, builders, fresh, push>>

\* Pi5SensorsDiagnostic._on_mqtt_measurements() and _on_mqtt_ups_status().
OnPi5 ==
  /\ up /\ "pi5" \in session \cap callbacks
  /\ fresh' = fresh \cup {"pi5"}
  /\ UNCHANGED <<broker, library, builders, online, push>>

\* _udp_listen_loop(): any datagram of the controller is a sign of life; S, F
\* and D messages that parse are data.  Nothing is pushed.
OnDatagram(kind) ==
  /\ socket /\ online' = TRUE
  /\ fresh' = IF kind = "status" THEN fresh \cup {"status"} ELSE fresh
  /\ UNCHANGED <<broker, library, builders, push>>
-----------------------------------------------------------------------------
(* The event loop and the clock *)

\* background_init() connects the monitor to the browsers.
RegisterBridge ==
  /\ ~bridge /\ pc["thruster"] # "new" /\ bridge' = TRUE
  /\ UNCHANGED <<broker, library, builders, data, sincePush, waiting>>

\* The push that has waited longest is sent or dropped.
TakePush(sends) ==
  \/ /\ older > 0 /\ older' = older - 1
     /\ UNCHANGED <<shown, newer>>
  \/ /\ older = 0 /\ newer > 0 /\ sends
     /\ shown' = TRUE /\ older' = newer - 1 /\ newer' = 0
  \/ /\ older = 0 /\ newer > 0 /\ ~sends
     /\ newer' = newer - 1 /\ UNCHANGED <<shown, older>>

\* Mutant: the stamp is renewed by the pushes that are dropped, too.
Mutant_Broadcast ==
  /\ TakePush(sincePush = MinInterval) /\ sincePush' = 0
  /\ UNCHANGED <<broker, library, builders, data, bridge>>

\* broadcast_thruster_mqtt(): a push too soon after the last one is dropped.
Broadcast ==
  /\ TakePush(sincePush = MinInterval)
  /\ sincePush' = IF sincePush = MinInterval THEN 0 ELSE sincePush
  /\ UNCHANGED <<broker, library, builders, data, bridge>>

Tick ==
  /\ sincePush < MinInterval /\ sincePush' = sincePush + 1
  /\ UNCHANGED <<broker, library, builders, data, bridge, waiting>>

\* Stamps pass the timeouts.
HeartbeatTimesOut ==
  /\ online /\ online' = FALSE
  /\ UNCHANGED <<broker, library, builders, fresh, push>>

DataTimesOut ==
  /\ \E t \in fresh : fresh' = fresh \ {t}
  /\ UNCHANGED <<broker, library, builders, online, push>>

Library == OnConnect \/ OnDisconnect

Next ==
  \/ \E m \in Monitors : Connect(m) \/ ConnectRaises(m) \/ AddCallback(m) \/ Subscribe(m)
  \/ OnConnect \/ LinkBreaks \/ OnDisconnect \/ BrokerChanges
  \/ \E u \in BOOLEAN : OnStatus(u)
  \/ \E s \in {"online", "offline"} : OnSystemOnline(s)
  \/ \E k \in {"status", "heartbeat"} : OnDatagram(k)
  \/ OnPi5 \/ RegisterBridge \/ Broadcast \/ Tick \/ HeartbeatTimesOut \/ DataTimesOut

\* The threads run, the stamps grow old, and the controller and the Pi 5 keep
\* publishing.
Fairness ==
  /\ \A m \in Monitors : WF_vars(Connect(m)) /\ WF_vars(AddCallback(m)) /\ WF_vars(Subscribe(m))
  /\ WF_vars(Library) /\ WF_vars(RegisterBridge) /\ WF_vars(Broadcast) /\ WF_vars(Tick)
  /\ WF_vars(OnStatus(TRUE)) /\ WF_vars(OnPi5) /\ WF_vars(DataTimesOut)

Spec == Init /\ [][Next]_vars /\ Fairness
-----------------------------------------------------------------------------
Listening(m) == [](pc[m] # "gave_up") /\ <>[]loop
LinkHolds == <>[]broker /\ <>[][~LinkBreaks]_vars

(* Once the broker stays reachable, the telemetry of every monitor comes in *)
(* again and again: whatever order the constructors, the connections and    *)
(* the interruptions came in, no topic stays unsubscribed.  Except for a    *)
(* monitor whose connect() raised, and for all when the library's thread    *)
(* was never started behind a client that exists.                           *)
TelemetryComesBack ==
  LinkHolds => /\ Listening("thruster") => []<>("status" \in fresh)
               /\ Listening("pi5") => []<>("pi5" \in fresh)

(* And of every status that is pushed, the browsers get to see that one or  *)
(* a later one, and statuses go on to be pushed: however many wait for the  *)
(* event loop, and although the throttle may send an old one and drop the   *)
(* newer ones behind it, the data on show never stays behind for good.      *)
PushesGoOn == LinkHolds /\ Listening("thruster") => []<>shown
=============================================================================
