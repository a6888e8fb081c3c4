--------------------------- MODULE AlertPipeline ---------------------------
(***************************************************************************)
(* The way of an alert: from the monitor thread that raises it, through    *)
(* the SQLite store (alerts.py), to the browsers, which learn of it in     *)
(* three ways (main.py): the push of the new alert, the difference that    *)
(* the compatibility loop broadcasts, and the full state a browser gets    *)
(* when it connects.  Every await is a point where other steps happen, and *)
(* monitor threads run between any two steps.                              *)
(*                                                                         *)
(* The store has one connection: its uncommitted rows are seen by every    *)
(* reader of the process, a commit publishes all of them, and a crash      *)
(* takes them back.                                                        *)
(***************************************************************************)
EXTENDS FiniteSets, Naturals

CONSTANTS
  Alerts,      \* alert ids
  Clients,     \* browsers
  MaxTroubles, \* bound: ends of the process and failed reads of the store
  NoEntry      \* "nothing yet", told apart from every list

\* What the constants must satisfy.
AlertAssumption == MaxTroubles \in Nat

\* "closed" stands for "resolved" and "ignored", which readers treat alike.
Status == {"none", "active", "closed"}

VARIABLES
  row,      \* status of each alert as the connection sees it
  durable,  \* status of each alert in the database file
  adding,   \* how far add_alert() has come for each alert
  server,   \* "warming" | "serving" | "stopping"
  queued,   \* alerts whose broadcast_alert() is scheduled
  pushTo,   \* the clients a running broadcast_alert() has still to send to
  prev,     \* _prev_state["alerts"]: what the last difference was made from
  diffTo,   \* the clients that difference has still to be sent to
  phase,    \* "out" | "joined" | "ready", per client
  full,     \* alerts collected for the client's full_state
  listed,   \* alerts in the client's latestState.alerts, from lists
  pushed,   \* and those from pushes, which carry no id
  troubles  \* ends of the process and failed reads so far

storeVars == <<row, durable, adding>>
pushVars == <<queued, pushTo>>
loopVars == <<prev, diffTo>>
clientVars == <<phase, full, listed, pushed>>
vars == <<storeVars, server, pushVars, loopVars, clientVars, troubles>>

Lists == (SUBSET Alerts) \cup {NoEntry}

TypeOK ==
  /\ row \in [Alerts -> Status] /\ durable \in [Alerts -> Status]
  /\ adding \in [Alerts -> {"idle", "inserted", "committed", "done"}]
  /\ server \in {"warming", "serving", "stopping"}
  /\ queued \in SUBSET Alerts
  /\ pushTo \in [Alerts -> SUBSET Clients]
  /\ prev \in Lists /\ diffTo \in SUBSET Clients
  /\ phase \in [Clients -> {"out", "joined", "ready"}]
  /\ full \in [Clients -> Lists]
  /\ listed \in [Clients -> SUBSET Alerts] /\ pushed \in [Clients -> SUBSET Alerts]
  /\ troubles \in 0..MaxTroubles

ActiveAlerts == {a \in Alerts : row[a] = "active"}
Connected == {c \in Clients : phase[c] # "out"}
LastBroadcast == IF prev = NoEntry THEN {} ELSE prev

Init ==
  /\ row = [a \in Alerts |-> "none"] /\ durable = row
  /\ adding = [a \in Alerts |-> "idle"]
  /\ server = "warming"
  /\ queued = {} /\ pushTo = [a \in Alerts |-> {}]
  /\ prev = NoEntry /\ diffTo = {}
  /\ phase = [c \in Clients |-> "out"] /\ full = [c \in Clients |-> NoEntry]
  /\ listed = [c \in Clients |-> {}] /\ pushed = [c \in Clients |-> {}]
  /\ troubles = 0
-----------------------------------------------------------------------------
(* add_alert(), in the thread of a monitor *)

Insert(a) ==
  /\ adding[a] = "idle" /\ row[a] = "none"
  /\ row' = [row EXCEPT ![a] = "active"]
  /\ adding' = [adding EXCEPT ![a] = "inserted"]
  /\ UNCHANGED <<durable, server, pushVars, loopVars, clientVars, troubles>>

Commit(a) ==
  /\ adding[a] = "inserted"
  /\ durable' = row
  /\ adding' = [adding EXCEPT ![a] = "committed"]
  /\ UNCHANGED <<row, server, pushVars, loopVars, clientVars, troubles>>

\* Mutant: the callback runs between INSERT and commit.
Mutant_Notify(a) ==
  /\ adding[a] = "inserted"
  /\ adding' = [adding EXCEPT ![a] = "done"]
  /\ queued' = IF server = "serving" THEN queued \cup {a} ELSE queued
  /\ UNCHANGED <<row, durable, server, pushTo, loopVars, clientVars, troubles>>

\* The callback exists only after the warm-up, and is skipped once the
\* application loop is gone.
Notify(a) ==
  /\ adding[a] = "committed"
  /\ adding' = [adding EXCEPT ![a] = "done"]
  /\ queued' = IF server = "serving" THEN queued \cup {a} ELSE queued
  /\ UNCHANGED <<row, durable, server, pushTo, loopVars, clientVars, troubles>>
-----------------------------------------------------------------------------
(* Requests of the users: each is one UPDATE and its commit on the loop's   *)
(* thread.  Resolving or ignoring one alert does not look at the status     *)
(* its row has.                                                             *)

Rewrite(newRow) ==
  /\ row' = newRow /\ durable' = newRow
  /\ UNCHANGED <<adding, server, pushVars, loopVars, clientVars, troubles>>

CloseOne(a) ==
  /\ row[a] # "none"
  /\ Rewrite([row EXCEPT ![a] = "closed"])

CloseAll ==
  Rewrite([a \in Alerts |-> IF row[a] = "active" THEN "closed" ELSE row[a]])
-----------------------------------------------------------------------------
(* broadcast_alert(), a task of the event loop *)

PushStart(a) ==
  /\ a \in queued
  /\ queued' = queued \ {a}
  /\ pushTo' = [pushTo EXCEPT ![a] = Connected]
  /\ UNCHANGED <<storeVars, server, loopVars, clientVars, troubles>>

\* A send to a client that has gone raises and is ignored.
PushSend(a, c) ==
  /\ c \in pushTo[a]
  /\ pushTo' = [pushTo EXCEPT ![a] = @ \ {c}]
  /\ pushed' = IF phase[c] = "out" THEN pushed ELSE [pushed EXCEPT ![c] = @ \cup {a}]
  /\ UNCHANGED <<storeVars, server, queued, loopVars, phase, full, listed, troubles>>
-----------------------------------------------------------------------------
(* _legacy_state_update_loop() *)

\* collect_active_alerts() answers a failed read with an empty list.
CollectActiveAlerts(result, failed) ==
  \/ result = ActiveAlerts /\ ~failed
  \/ result = {} /\ failed /\ troubles < MaxTroubles

\* Mutant: alerts that have disappeared are not looked for.
Mutant_OnlyAdditions(result) == prev = NoEntry \/ ~(result \subseteq LastBroadcast)

\* calculate_state_diff() on the "alerts" key: a list is replaced as a whole.
Changed(result) == prev = NoEntry \/ result # prev

DiffCollect ==
  /\ server # "stopping" /\ diffTo = {}
  /\ \E result \in SUBSET Alerts, failed \in BOOLEAN :
       /\ CollectActiveAlerts(result, failed)
       /\ troubles' = IF failed THEN troubles + 1 ELSE troubles
       /\ Changed(result)
       /\ prev' = result /\ diffTo' = Connected
  /\ UNCHANGED <<storeVars, server, pushVars, clientVars>>

DiffSend(c) ==
  /\ c \in diffTo
  /\ diffTo' = diffTo \ {c}
  /\ IF phase[c] = "out" THEN UNCHANGED <<listed, pushed>>
     ELSE /\ listed' = [listed EXCEPT ![c] = prev]
          /\ pushed' = [pushed EXCEPT ![c] = {}]
  /\ UNCHANGED <<storeVars, server, pushVars, prev, phase, full, troubles>>
-----------------------------------------------------------------------------
(* A browser connects: it is a target of broadcasts from the moment it is   *)
(* accepted; its full state is collected in threads and sent when the       *)
(* slowest part is there.                                                   *)

Join(c) ==
  /\ phase[c] = "out" /\ server # "stopping"
  /\ phase' = [phase EXCEPT ![c] = "joined"]
  /\ UNCHANGED <<storeVars, server, pushVars, loopVars, full, listed, pushed, troubles>>

\* A list taken from the cache is one that was read before the browser came.
FullRead(c) ==
  /\ server # "stopping" /\ phase[c] # "ready" /\ full[c] = NoEntry
  /\ \E result \in SUBSET Alerts, failed \in BOOLEAN :
       /\ CollectActiveAlerts(result, failed)
       /\ troubles' = IF failed THEN troubles + 1 ELSE troubles
       /\ full' = [full EXCEPT ![c] = result]
  /\ UNCHANGED <<storeVars, server, pushVars, loopVars, phase, listed, pushed>>

FullSend(c) ==
  /\ phase[c] = "joined" /\ full[c] # NoEntry
  /\ listed' = [listed EXCEPT ![c] = full[c]]
  /\ pushed' = [pushed EXCEPT ![c] = {}]
  /\ phase' = [phase EXCEPT ![c] = "ready"]
  /\ full' = [full EXCEPT ![c] = NoEntry]
  /\ UNCHANGED <<storeVars, server, pushVars, loopVars, troubles>>

Leave(c) ==
  /\ phase[c] # "out"
  /\ phase' = [phase EXCEPT ![c] = "out"]
  /\ full' = [full EXCEPT ![c] = NoEntry]
  /\ UNCHANGED <<storeVars, server, pushVars, loopVars, listed, pushed, troubles>>
-----------------------------------------------------------------------------
(* Life of the server process *)

BackgroundInit ==
  /\ server = "warming"
  /\ server' = "serving"
  /\ UNCHANGED <<storeVars, pushVars, loopVars, clientVars, troubles>>

\* The sockets are closed and every task is cancelled; monitor threads go on.
Disconnected ==
  /\ queued' = {} /\ pushTo' = [a \in Alerts |-> {}] /\ diffTo' = {}
  /\ phase' = [c \in Clients |-> "out"] /\ full' = [c \in Clients |-> NoEntry]

Shutdown ==
  /\ server # "stopping" /\ troubles < MaxTroubles
  /\ server' = "stopping" /\ Disconnected
  /\ UNCHANGED <<storeVars, prev, listed, pushed, troubles>>

\* The process ends, after a shutdown or by a crash, and is started again.
Restart ==
  /\ troubles < MaxTroubles
  /\ troubles' = troubles + 1
  /\ row' = durable
  /\ adding' = [a \in Alerts |-> IF durable[a] = "none" THEN "idle" ELSE "done"]
  /\ server' = "warming" /\ Disconnected
  /\ prev' = NoEntry
  /\ UNCHANGED <<durable, listed, pushed>>

Next ==
  \/ \E a \in Alerts : Insert(a) \/ Commit(a) \/ Notify(a) \/ PushStart(a)
  \/ \E a \in Alerts, c \in Clients : PushSend(a, c)
  \/ (\E a \in Alerts : CloseOne(a)) \/ CloseAll
  \/ DiffCollect \/ \E c \in Clients : DiffSend(c)
  \/ \E c \in Clients : Join(c) \/ FullRead(c) \/ FullSend(c) \/ Leave(c)
  \/ BackgroundInit \/ Shutdown \/ Restart

\* The event loop runs every task that is ready, and a stopping process ends.
Fairness ==
  /\ WF_vars(DiffCollect)
  /\ \A c \in Clients : WF_vars(DiffSend(c)) /\ WF_vars(FullRead(c)) /\ WF_vars(FullSend(c))
  /\ \A a \in Alerts : WF_vars(Notify(a)) /\ WF_vars(Commit(a))
  /\ WF_vars(BackgroundInit) /\ WF_vars(server = "stopping" /\ Restart)

Spec == Init /\ [][Next]_vars /\ Fairness
-----------------------------------------------------------------------------
\* What a browser shows.
Shows(c, a) == a \in listed[c] \cup pushed[c]

(* An alert a browser was pushed is in the database file: no crash of the   *)
(* server takes back what a user was told (add_alert commits before it      *)
(* calls the callback; reads of the list have no such promise).             *)
PushedIsDurable ==
  \A a \in Alerts :
    a \in queued \/ (\E c \in Clients : a \in pushed[c]) => durable[a] # "none"

(* When the last broadcast and the store disagree about an alert, every     *)
(* browser that has its full state comes to show the alert as the store has *)
(* it: an active one appears, also when it was raised during the warm-up,   *)
(* when nothing is pushed, or when a failed read of the store has emptied   *)
(* everybody's list; a closed one leaves the lists, although nothing tells  *)
(* the browsers of the request that closed it.                              *)
BoardFollowsStore ==
  \A a \in Alerts, c \in Clients :
    (phase[c] = "ready" /\ (row[a] = "active") # (a \in LastBroadcast))
      ~> (phase[c] # "ready" \/ (row[a] = "active") = Shows(c, a))
=============================================================================
