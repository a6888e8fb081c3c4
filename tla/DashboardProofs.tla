-------------------------- MODULE DashboardProofs --------------------------
(***************************************************************************)
(* Theorems about the dashboard's server, each about one part and for all  *)
(* values of its constants: what a browser was pushed is in the database   *)
(* file (AlertPipeline); what it is sent was taken from the system not     *)
(* long ago (ChannelCache); ROS 2 is launched once, and a stop that was    *)
(* answered with success has stopped it (ProcessControl).                  *)
(***************************************************************************)
EXTENDS MCDashboard, FiniteSetTheorems, FunctionTheorems, TLAPS

-----------------------------------------------------------------------------
(* AlertPipeline *)

\* A row is written before it is committed, and committed before anything is
\* queued for the browsers.
WrittenFirst ==
  \A a \in Alerts :
    /\ adding[a] # "idle" => row[a] # "none"
    /\ adding[a] \in {"committed", "done"} => durable[a] # "none"
    /\ durable[a] # "none" => row[a] # "none"

\* What is on its way to a browser, or there, is durable.
SentIsDurable ==
  \A a \in Alerts :
    \/ a \in queued \/ pushTo[a] # {} \/ \E c \in Clients : a \in pushed[c]
    => durable[a] # "none"

AlertInv ==
  /\ Alert!TypeOK
  /\ WrittenFirst
  /\ SentIsDurable
  /\ diffTo # {} => prev \in SUBSET Alerts

\* The server starts with an empty store and no browser.
LEMMA AlertInit ==
  ASSUME Alert!AlertAssumption, Alert!Init
  PROVE  AlertInv
<1>1. Alert!TypeOK
  <2>1. row \in [Alerts -> Alert!Status] /\ durable \in [Alerts -> Alert!Status]
    BY DEF Alert!Init, Alert!Status
  <2>2. /\ adding \in [Alerts -> {"idle", "inserted", "committed", "done"}]
        /\ server \in {"warming", "serving", "stopping"}
        /\ queued \in SUBSET Alerts /\ pushTo \in [Alerts -> SUBSET Clients]
    BY DEF Alert!Init
  <2>3. prev \in Alert!Lists /\ diffTo \in SUBSET Clients
    BY DEF Alert!Init, Alert!Lists
  <2>4. /\ phase \in [Clients -> {"out", "joined", "ready"}]
        /\ full \in [Clients -> Alert!Lists]
        /\ listed \in [Clients -> SUBSET Alerts] /\ pushed \in [Clients -> SUBSET Alerts]
    BY DEF Alert!Init, Alert!Lists
  <2>5. troubles \in 0..MaxTroubles
    BY DEF Alert!Init, Alert!AlertAssumption
  <2> QED BY <2>1, <2>2, <2>3, <2>4, <2>5 DEF Alert!TypeOK
<1>2. WrittenFirst BY DEF Alert!Init, WrittenFirst
<1>3. SentIsDurable
  <2>1. queued = {} /\ \A a \in Alerts : pushTo[a] = {}
    BY DEF Alert!Init
  <2>2. \A c \in Clients : pushed[c] = {}
    BY DEF Alert!Init
  <2> QED BY <2>1, <2>2 DEF SentIsDurable
<1> QED BY <1>1, <1>2, <1>3 DEF AlertInv, Alert!Init

\* Every operation on alerts, and a restart, keeps the invariant.
LEMMA AlertStep ==
  ASSUME Alert!AlertAssumption, AlertInv, [Alert!Next]_Alert!vars
  PROVE  AlertInv'
<1> USE DEF Alert!vars, Alert!storeVars, Alert!pushVars, Alert!loopVars, Alert!clientVars
<1>0. /\ Alert!TypeOK /\ WrittenFirst /\ SentIsDurable
      /\ diffTo # {} => prev \in SUBSET Alerts
  BY DEF AlertInv
<1>1. ASSUME NEW a \in Alerts, Alert!Insert(a) PROVE AlertInv'
  <2>1. Alert!TypeOK'
    BY <1>0, <1>1 DEF Alert!TypeOK, Alert!Status, Alert!Lists, Alert!AlertAssumption,
           Alert!Insert
  <2>2. WrittenFirst'
    BY <1>0, <1>1 DEF Alert!TypeOK, Alert!Status, WrittenFirst, Alert!Insert
  <2>3. SentIsDurable'
    BY <1>0, <1>1 DEF SentIsDurable, Alert!Insert
  <2>4. (diffTo # {} => prev \in SUBSET Alerts)'
    BY <1>0, <1>1 DEF Alert!Insert
  <2> QED BY <2>1, <2>2, <2>3, <2>4 DEF AlertInv
<1>2. ASSUME NEW a \in Alerts, Alert!Commit(a) PROVE AlertInv'
  <2>1. Alert!TypeOK'
    BY <1>0, <1>2 DEF Alert!TypeOK, Alert!Status, Alert!Lists, Alert!AlertAssumption,
           Alert!Commit
  <2>2. WrittenFirst'
    BY <1>0, <1>2 DEF Alert!TypeOK, Alert!Status, WrittenFirst, Alert!Commit
  <2>3. SentIsDurable'
    BY <1>0, <1>2 DEF Alert!TypeOK, Alert!Status, WrittenFirst, SentIsDurable, Alert!Commit
  <2>4. (diffTo # {} => prev \in SUBSET Alerts)'
    BY <1>0, <1>2 DEF Alert!Commit
  <2> QED BY <2>1, <2>2, <2>3, <2>4 DEF AlertInv
<1>3. ASSUME NEW a \in Alerts, Alert!Notify(a) PROVE AlertInv'
  <2>1. Alert!TypeOK'
    BY <1>0, <1>3 DEF Alert!TypeOK, Alert!Status, Alert!Lists, Alert!AlertAssumption,
           Alert!Notify
  <2>2. WrittenFirst'
    BY <1>0, <1>3 DEF Alert!TypeOK, Alert!Status, WrittenFirst, Alert!Notify
  <2>3. SentIsDurable'
    BY <1>0, <1>3 DEF Alert!TypeOK, Alert!Status, WrittenFirst, SentIsDurable, Alert!Notify
  <2>4. (diffTo # {} => prev \in SUBSET Alerts)'
    BY <1>0, <1>3 DEF Alert!Notify
  <2> QED BY <2>1, <2>2, <2>3, <2>4 DEF AlertInv
<1>4. ASSUME NEW a \in Alerts, Alert!PushStart(a) PROVE AlertInv'
  <2>1. Alert!TypeOK'
    BY <1>0, <1>4 DEF Alert!TypeOK, Alert!Status, Alert!Lists, Alert!AlertAssumption,
           Alert!PushStart, Alert!Connected
  <2>2. WrittenFirst'
    BY <1>0, <1>4 DEF WrittenFirst, Alert!PushStart
  <2>3. SentIsDurable'
    BY <1>0, <1>4 DEF Alert!TypeOK, Alert!Status, WrittenFirst, SentIsDurable, Alert!PushStart
  <2>4. (diffTo # {} => prev \in SUBSET Alerts)'
    BY <1>0, <1>4 DEF Alert!PushStart
  <2> QED BY <2>1, <2>2, <2>3, <2>4 DEF AlertInv
<1>5. ASSUME NEW a \in Alerts, NEW c \in Clients, Alert!PushSend(a, c) PROVE AlertInv'
  <2>1. Alert!TypeOK'
    BY <1>0, <1>5 DEF Alert!TypeOK, Alert!Status, Alert!Lists, Alert!AlertAssumption,
           Alert!PushSend
  <2>2. WrittenFirst'
    BY <1>0, <1>5 DEF WrittenFirst, Alert!PushSend
  <2>3. SentIsDurable'
    BY <1>0, <1>5 DEF Alert!TypeOK, Alert!Status, WrittenFirst, SentIsDurable, Alert!PushSend
  <2>4. (diffTo # {} => prev \in SUBSET Alerts)'
    BY <1>0, <1>5 DEF Alert!PushSend
  <2> QED BY <2>1, <2>2, <2>3, <2>4 DEF AlertInv
<1>6. ASSUME NEW a \in Alerts, Alert!CloseOne(a) PROVE AlertInv'
  <2>1. Alert!TypeOK'
    BY <1>0, <1>6 DEF Alert!TypeOK, Alert!Status, Alert!Lists, Alert!AlertAssumption,
           Alert!CloseOne, Alert!Rewrite
  <2>2. WrittenFirst'
    BY <1>0, <1>6 DEF Alert!TypeOK, Alert!Status, WrittenFirst, Alert!CloseOne, Alert!Rewrite
  <2>3. SentIsDurable'
    BY <1>0, <1>6 DEF Alert!TypeOK, Alert!Status, WrittenFirst, SentIsDurable, Alert!CloseOne, Alert!Rewrite
  <2>4. (diffTo # {} => prev \in SUBSET Alerts)'
    BY <1>0, <1>6 DEF Alert!CloseOne, Alert!Rewrite
  <2> QED BY <2>1, <2>2, <2>3, <2>4 DEF AlertInv
<1>7. CASE Alert!CloseAll
  <2>1. Alert!TypeOK'
    BY <1>0, <1>7 DEF Alert!TypeOK, Alert!Status, Alert!Lists, Alert!AlertAssumption,
           Alert!CloseAll, Alert!Rewrite
  <2>2. WrittenFirst'
    BY <1>0, <1>7 DEF Alert!TypeOK, Alert!Status, WrittenFirst, Alert!CloseAll, Alert!Rewrite
  <2>3. SentIsDurable'
    BY <1>0, <1>7 DEF SentIsDurable, WrittenFirst, Alert!CloseAll, Alert!Rewrite
  <2>4. (diffTo # {} => prev \in SUBSET Alerts)'
    BY <1>0, <1>7 DEF Alert!CloseAll, Alert!Rewrite
  <2> QED BY <2>1, <2>2, <2>3, <2>4 DEF AlertInv
<1>8. CASE Alert!DiffCollect
  <2>1. Alert!TypeOK'
    BY <1>0, <1>8 DEF Alert!TypeOK, Alert!Status, Alert!Lists, Alert!AlertAssumption,
           Alert!DiffCollect, Alert!Connected, Alert!CollectActiveAlerts
  <2>2. WrittenFirst'
    BY <1>0, <1>8 DEF WrittenFirst, Alert!DiffCollect
  <2>3. SentIsDurable'
    BY <1>0, <1>8 DEF SentIsDurable, Alert!DiffCollect
  <2>4. (diffTo # {} => prev \in SUBSET Alerts)'
    BY <1>0, <1>8 DEF Alert!DiffCollect, Alert!Connected, Alert!CollectActiveAlerts
  <2> QED BY <2>1, <2>2, <2>3, <2>4 DEF AlertInv
<1>9. ASSUME NEW c \in Clients, Alert!DiffSend(c) PROVE AlertInv'
  <2>1. Alert!TypeOK'
    BY <1>0, <1>9 DEF Alert!TypeOK, Alert!Status, Alert!Lists, Alert!AlertAssumption,
           Alert!DiffSend
  <2>2. WrittenFirst'
    BY <1>0, <1>9 DEF WrittenFirst, Alert!DiffSend
  <2>3. SentIsDurable'
    BY <1>0, <1>9 DEF Alert!TypeOK, Alert!Status, WrittenFirst, SentIsDurable, Alert!DiffSend
  <2>4. (diffTo # {} => prev \in SUBSET Alerts)'
    BY <1>0, <1>9 DEF Alert!DiffSend
  <2> QED BY <2>1, <2>2, <2>3, <2>4 DEF AlertInv
<1>10. ASSUME NEW c \in Clients, Alert!Join(c) PROVE AlertInv'
  <2>1. Alert!TypeOK'
    BY <1>0, <1>10 DEF Alert!TypeOK, Alert!Status, Alert!Lists, Alert!AlertAssumption,
           Alert!Join
  <2>2. WrittenFirst'
    BY <1>0, <1>10 DEF WrittenFirst, Alert!Join
  <2>3. SentIsDurable'
    BY <1>0, <1>10 DEF SentIsDurable, Alert!Join
  <2>4. (diffTo # {} => prev \in SUBSET Alerts)'
    BY <1>0, <1>10 DEF Alert!Join
  <2> QED BY <2>1, <2>2, <2>3, <2>4 DEF AlertInv
<1>11. ASSUME NEW c \in Clients, Alert!FullRead(c) PROVE AlertInv'
  <2>1. Alert!TypeOK'
    BY <1>0, <1>11 DEF Alert!TypeOK, Alert!Status, Alert!Lists, Alert!AlertAssumption,
           Alert!FullRead, Alert!CollectActiveAlerts
  <2>2. WrittenFirst'
    BY <1>0, <1>11 DEF WrittenFirst, Alert!FullRead
  <2>3. SentIsDurable'
    BY <1>0, <1>11 DEF SentIsDurable, Alert!FullRead, Alert!CollectActiveAlerts
  <2>4. (diffTo # {} => prev \in SUBSET Alerts)'
    BY <1>0, <1>11 DEF Alert!FullRead, Alert!CollectActiveAlerts
  <2> QED BY <2>1, <2>2, <2>3, <2>4 DEF AlertInv
<1>12. ASSUME NEW c \in Clients, Alert!FullSend(c) PROVE AlertInv'
  <2>1. Alert!TypeOK'
    BY <1>0, <1>12 DEF Alert!TypeOK, Alert!Status, Alert!Lists, Alert!AlertAssumption,
           Alert!FullSend
  <2>2. WrittenFirst'
    BY <1>0, <1>12 DEF WrittenFirst, Alert!FullSend
  <2>3. SentIsDurable'
    BY <1>0, <1>12 DEF Alert!TypeOK, Alert!Status, WrittenFirst, SentIsDurable, Alert!FullSend
  <2>4. (diffTo # {} => prev \in SUBSET Alerts)'
    BY <1>0, <1>12 DEF Alert!FullSend
  <2> QED BY <2>1, <2>2, <2>3, <2>4 DEF AlertInv
<1>13. ASSUME NEW c \in Clients, Alert!Leave(c) PROVE AlertInv'
  <2>1. Alert!TypeOK'
    BY <1>0, <1>13 DEF Alert!TypeOK, Alert!Status, Alert!Lists, Alert!AlertAssumption,
           Alert!Leave
  <2>2. WrittenFirst'
    BY <1>0, <1>13 DEF WrittenFirst, Alert!Leave
  <2>3. SentIsDurable'
    BY <1>0, <1>13 DEF SentIsDurable, Alert!Leave
  <2>4. (diffTo # {} => prev \in SUBSET Alerts)'
    BY <1>0, <1>13 DEF Alert!Leave
  <2> QED BY <2>1, <2>2, <2>3, <2>4 DEF AlertInv
<1>14. CASE Alert!BackgroundInit
  <2>1. Alert!TypeOK'
    BY <1>0, <1>14 DEF Alert!TypeOK, Alert!Status, Alert!Lists, Alert!AlertAssumption,
           Alert!BackgroundInit
  <2>2. WrittenFirst'
    BY <1>0, <1>14 DEF WrittenFirst, Alert!BackgroundInit
  <2>3. SentIsDurable'
    BY <1>0, <1>14 DEF SentIsDurable, Alert!BackgroundInit
  <2>4. (diffTo # {} => prev \in SUBSET Alerts)'
    BY <1>0, <1>14 DEF Alert!BackgroundInit
  <2> QED BY <2>1, <2>2, <2>3, <2>4 DEF AlertInv
<1>15. CASE Alert!Shutdown
  <2>1. Alert!TypeOK'
    BY <1>0, <1>15 DEF Alert!TypeOK, Alert!Status, Alert!Lists, Alert!AlertAssumption,
           Alert!Shutdown, Alert!Disconnected
  <2>2. WrittenFirst'
    BY <1>0, <1>15 DEF WrittenFirst, Alert!Shutdown
  <2>3. SentIsDurable'
    BY <1>0, <1>15 DEF SentIsDurable, Alert!Shutdown, Alert!Disconnected
  <2>4. (diffTo # {} => prev \in SUBSET Alerts)'
    BY <1>0, <1>15 DEF Alert!Shutdown, Alert!Disconnected
  <2> QED BY <2>1, <2>2, <2>3, <2>4 DEF AlertInv
<1>16. CASE Alert!Restart
  <2>1. Alert!TypeOK'
    BY <1>0, <1>16 DEF Alert!TypeOK, Alert!Status, Alert!Lists, Alert!AlertAssumption,
           Alert!Restart, Alert!Disconnected
  <2>2. WrittenFirst'
    BY <1>0, <1>16 DEF Alert!TypeOK, Alert!Status, WrittenFirst, Alert!Restart, Alert!Disconnected
  <2>3. SentIsDurable'
    BY <1>0, <1>16 DEF Alert!TypeOK, Alert!Status, WrittenFirst, SentIsDurable, Alert!Restart, Alert!Disconnected
  <2>4. (diffTo # {} => prev \in SUBSET Alerts)'
    BY <1>0, <1>16 DEF Alert!Restart, Alert!Disconnected
  <2> QED BY <2>1, <2>2, <2>3, <2>4 DEF AlertInv
<1>17. CASE UNCHANGED Alert!vars
  BY <1>0, <1>17 DEF AlertInv, Alert!TypeOK, WrittenFirst, SentIsDurable
<1> QED
  BY <1>1, <1>2, <1>3, <1>4, <1>5, <1>6, <1>7, <1>8, <1>9, <1>10, <1>11, <1>12, <1>13, <1>14,
     <1>15, <1>16, <1>17 DEF Alert!Next

\* The invariant behind the theorems about alerts.
THEOREM AlertInvariant ==
  ASSUME Alert!AlertAssumption
  PROVE  Alert!Spec => []AlertInv
<1>1. Alert!Init => AlertInv BY AlertInit
<1>2. AlertInv /\ [Alert!Next]_Alert!vars => AlertInv' BY AlertStep
<1> QED BY <1>1, <1>2, PTL DEF Alert!Spec

\* The types of the alert store's, the broadcasts' and the browsers' state.
THEOREM AlertTypeCorrect ==
  ASSUME Alert!AlertAssumption
  PROVE  Alert!Spec => []Alert!TypeOK
<1>1. AlertInv => Alert!TypeOK BY DEF AlertInv
<1> QED BY <1>1, AlertInvariant, PTL

\* What a browser was pushed is in the database file, however the threads of
\* the monitors, the event loop and restarts of the server interleave.
THEOREM PushedIsDurableAlways ==
  ASSUME Alert!AlertAssumption
  PROVE  Alert!Spec => []PushedIsDurable
<1>1. AlertInv => PushedIsDurable
  BY DEF AlertInv, SentIsDurable, PushedIsDurable, Alert!PushedIsDurable
<1> QED BY <1>1, AlertInvariant, PTL

-----------------------------------------------------------------------------
(* ChannelCache, of a channel that is collected anew in every cycle *)

\* Data is stamped when it is stored, which is after it was taken, by no more
\* than a full state holds its parts.
StampTellsAge == stampAge <= MaxAge => dataAge <= stampAge + MaxGather

\* What a full state holds has aged with it: from nothing when it collected
\* the data itself, else from what a fresh entry may have been.
HeldIsRecent ==
  /\ reader = "collected" => held <= gathering
  /\ reader = "hit" => held <= Ttl + MaxGather + gathering

\* A cycle begins when its time has come.
CycleIsDue == loop # "sleep" => wait <= 0

CacheInv ==
  Cache!TypeOK /\ StampTellsAge /\ HeldIsRecent /\ CycleIsDue /\ Cache!ServedIsRecent

\* A step of time, of the loop or of a reader keeps the invariant.
LEMMA CacheStep ==
  ASSUME Cache!CacheAssumption, ~ThroughCache, CacheInv, [Cache!Next]_Cache!vars
  PROVE  CacheInv'
<1> USE DEF Cache!vars, Cache!entry, Cache!loopState, Cache!readerState,
            Cache!NoEntry, Cache!Ages, Cache!Fresh, Cache!Store, Cache!CacheAssumption
<1> USE DEF CacheInv, Cache!TypeOK, StampTellsAge, HeldIsRecent, CycleIsDue, Cache!ServedIsRecent
<1>1. CASE Cache!Tick
  BY <1>1 DEF Cache!Tick, Cache!Older
<1>2. CASE Cache!LoopWake
  BY <1>2 DEF Cache!LoopWake
<1>3. CASE Cache!LoopCollected
  BY <1>3 DEF Cache!LoopCollected
<1>4. CASE Cache!LoopSend
  BY <1>4 DEF Cache!LoopSend, Cache!NextRun
<1>5. CASE Cache!LoopFails
  BY <1>5 DEF Cache!LoopFails, Cache!NextRun
<1>6. CASE Cache!ReadCached
  BY <1>6 DEF Cache!ReadCached, Cache!Read
<1>7. CASE Cache!ReadMissed
  BY <1>7 DEF Cache!ReadMissed, Cache!Read
<1>8. CASE Cache!ReadCollected
  BY <1>8 DEF Cache!ReadCollected
<1>9. CASE Cache!SendFullState
  BY <1>9 DEF Cache!SendFullState
<1>10. CASE Cache!Invalidate
  BY <1>10 DEF Cache!Invalidate
<1>11. CASE Cache!ReadFails
  BY <1>11 DEF Cache!ReadFails
<1>12. CASE UNCHANGED Cache!vars
  BY <1>12
<1> QED
  BY <1>1, <1>2, <1>3, <1>4, <1>5, <1>6, <1>7, <1>8, <1>9, <1>10, <1>11, <1>12 DEF Cache!Next

\* The invariant behind the age of what is served.
THEOREM CacheInvariant ==
  ASSUME Cache!CacheAssumption, ~ThroughCache
  PROVE  Cache!Spec => []CacheInv
<1>1. Cache!Init => CacheInv
  BY DEF Cache!CacheAssumption, Cache!Init, Cache!NoEntry, Cache!Ages, Cache!TypeOK,
         CacheInv, StampTellsAge, HeldIsRecent, CycleIsDue, Cache!ServedIsRecent
<1>2. CacheInv /\ [Cache!Next]_Cache!vars => CacheInv' BY CacheStep
<1> QED BY <1>1, <1>2, PTL DEF Cache!Spec

\* What a browser is sent of a channel that is collected anew in every cycle
\* was taken at most the lifetime of an entry and twice the wait of a full
\* state ago: the wait of the one that stored the entry, and of the one that
\* found it fresh.  The entry's other readers and writers add nothing.
THEOREM ServedIsRecentAlways ==
  ASSUME Cache!CacheAssumption, ~ThroughCache
  PROVE  Cache!Spec => []ServedIsRecent
<1>1. CacheInv => ServedIsRecent BY DEF CacheInv, ServedIsRecent
<1> QED BY <1>1, CacheInvariant, PTL

-----------------------------------------------------------------------------
(* ProcessControl *)

\* Every script that is under way or has executed `ros2 launch` was counted.
LaunchesCounted == Cardinality(scripts) + launches <= launched

\* No script is started while a request waits.
ScriptsOlderThanWait == request # "idle" => \A age \in scripts : elapsed <= age

ControlInv == TypeOK /\ LaunchesCounted /\ ScriptsOlderThanWait

\* A script that is under way keeps a second start waiting.
StartsApart ==
  faults = 0 =>
    /\ Cardinality(scripts) + launches <= 1
    /\ \A age \in scripts : sinceStart <= age

\* After a stop nothing is left, and nothing that could come up.
NothingLeft ==
  wanted = "stopped" => scripts = {} /\ launches = 0 /\ recording = 0 /\ asked = "none"

\* Ages are bounded, so a set of them is finite.
LEMMA AgesFinite ==
  ASSUME NEW S \in SUBSET (0..ScriptTicks)
  PROVE  /\ IsFiniteSet(S) /\ Cardinality(S) \in Nat
         /\ \A age \in S : age \in Nat /\ age <= ScriptTicks
<1>1. 0 \in Int /\ ScriptTicks \in Int BY ControlAssumption
<1>2. IsFiniteSet(0..ScriptTicks) BY ONLY <1>1, FS_Interval
<1>3. IsFiniteSet(S) BY ONLY <1>2, S \in SUBSET (0..ScriptTicks), FS_Subset
<1>4. Cardinality(S) \in Nat BY ONLY <1>3, FS_CardinalityType
<1>5. \A age \in S : age \in Nat /\ age <= ScriptTicks BY ControlAssumption
<1> QED BY <1>3, <1>4, <1>5

\* Scripts grow older together: time starts none.
LEMMA ScriptsAge ==
  ASSUME TypeOK, scripts' = {age + 1 : age \in scripts}
  PROVE  Cardinality(scripts') <= Cardinality(scripts)
<1> DEFINE f == [age \in scripts |-> age + 1]
           T == {age + 1 : age \in scripts}
<1>1. f \in [scripts -> T] OBVIOUS
<1>2. \A t \in T : \E age \in scripts : f[age] = t OBVIOUS
<1>3. f \in Surjection(scripts, T) BY <1>1, <1>2, Fun_IsSurj
<1>4. IsFiniteSet(scripts) BY AgesFinite DEF TypeOK
<1> HIDE DEF f, T
<1>5. Cardinality(T) <= Cardinality(scripts) BY ONLY <1>3, <1>4, FS_Surjection
<1> QED BY <1>5 DEF T

\* Nothing runs at first.
LEMMA ControlInit ==
  ASSUME Init
  PROVE  ControlInv /\ StartsApart /\ NothingLeft
<1>1. Cardinality({}) = 0 BY FS_EmptySet
<1> QED
  BY <1>1, ControlAssumption
  DEF Init, ControlInv, TypeOK, LongAgo, LaunchesCounted, ScriptsOlderThanWait,
      StartsApart, NothingLeft

\* Every request and every process outside keeps the invariant.
LEMMA ControlStep ==
  ASSUME ControlInv, [Next]_vars
  PROVE  ControlInv'
<1> USE ControlAssumption
    DEF vars, outside, waiting, rosTimes, bagTimes, bounds
<1>0. TypeOK /\ LaunchesCounted /\ ScriptsOlderThanWait BY DEF ControlInv
<1>f. /\ IsFiniteSet(scripts) /\ Cardinality(scripts) \in Nat
      /\ \A age \in scripts : age \in Nat /\ age <= ScriptTicks
  BY <1>0, AgesFinite DEF TypeOK
<1>1. CASE Tick
  <2>1. TypeOK'
    BY <1>0, <1>f, <1>1 DEF TypeOK, LongAgo, Tick, Older, WaitEnds
  <2>2. LaunchesCounted'
    <3>1. Cardinality(scripts') <= Cardinality(scripts)
      BY <1>0, <1>1, ScriptsAge DEF Tick
    <3>2. UNCHANGED <<launches, launched>> BY <1>1 DEF Tick
    <3>3. scripts' \in SUBSET (0..ScriptTicks) BY <2>1 DEF TypeOK
    <3>4. Cardinality(scripts') \in Nat BY <3>3, AgesFinite
    <3> QED BY <1>0, <1>f, <3>1, <3>2, <3>4 DEF TypeOK, LaunchesCounted
  <2>3. ScriptsOlderThanWait'
    BY <1>0, <1>f, <1>1 DEF TypeOK, ScriptsOlderThanWait, Tick
  <2> QED BY <2>1, <2>2, <2>3 DEF ControlInv
<1>2. CASE ScriptLaunches
  <2>0. Cardinality(scripts') = Cardinality(scripts) - 1
    <3>1. PICK age \in scripts : scripts' = scripts \ {age}
      BY <1>2 DEF ScriptLaunches
    <3>2. Cardinality(scripts \ {age}) = Cardinality(scripts) - 1
      BY <1>f, FS_RemoveElement
    <3> QED BY <3>1, <3>2
  <2>2. LaunchesCounted'
    BY <1>0, <1>f, <1>2, <2>0 DEF TypeOK, LaunchesCounted, ScriptLaunches, OutsideOnly
  <2>1. TypeOK'
    <3>1. scripts # {} BY <1>2 DEF ScriptLaunches
    <3>2. Cardinality(scripts) # 0 BY ONLY <1>f, <3>1, FS_EmptySet
    <3>3. launches' \in 0..MaxLaunches
      BY <1>0, <1>f, <1>2, <3>2 DEF TypeOK, LaunchesCounted, ScriptLaunches
    <3> QED BY <1>0, <1>2, <3>3 DEF TypeOK, ScriptLaunches, OutsideOnly
  <2>3. ScriptsOlderThanWait'
    BY <1>0, <1>2 DEF ScriptsOlderThanWait, ScriptLaunches, OutsideOnly
  <2> QED BY <2>1, <2>2, <2>3 DEF ControlInv
<1>3. CASE LaunchEnds
  <2>1. TypeOK'
    BY <1>0, <1>3 DEF TypeOK, LongAgo, LaunchEnds, LaunchGone, OutsideOnly
  <2>2. LaunchesCounted'
    BY <1>0, <1>f, <1>3 DEF TypeOK, LaunchesCounted, LaunchEnds, LaunchGone, OutsideOnly
  <2>3. ScriptsOlderThanWait'
    BY <1>0, <1>3 DEF ScriptsOlderThanWait, LaunchEnds, OutsideOnly
  <2> QED BY <2>1, <2>2, <2>3 DEF ControlInv
<1>4. CASE RecorderServes
  <2>1. TypeOK'
    BY <1>0, <1>4 DEF TypeOK, LongAgo, RecorderServes, OutsideOnly
  <2>2. LaunchesCounted'
    BY <1>0, <1>4 DEF LaunchesCounted, RecorderServes, OutsideOnly
  <2>3. ScriptsOlderThanWait'
    BY <1>0, <1>4 DEF ScriptsOlderThanWait, RecorderServes, OutsideOnly
  <2> QED BY <2>1, <2>2, <2>3 DEF ControlInv
<1>5. CASE StartRefused
  <2>1. TypeOK'
    BY <1>0, <1>5 DEF TypeOK, LongAgo, StartRefused, Answer
  <2>2. LaunchesCounted'
    BY <1>0, <1>5 DEF LaunchesCounted, StartRefused
  <2>3. ScriptsOlderThanWait'
    BY <1>0, <1>5 DEF ScriptsOlderThanWait, StartRefused
  <2> QED BY <2>1, <2>2, <2>3 DEF ControlInv
<1>6. CASE StartAlready
  <2>1. TypeOK'
    BY <1>0, <1>6 DEF TypeOK, LongAgo, StartAlready, Answer, CheckRunning, Fault
  <2>2. LaunchesCounted'
    BY <1>0, <1>6 DEF LaunchesCounted, StartAlready
  <2>3. ScriptsOlderThanWait'
    BY <1>0, <1>6 DEF ScriptsOlderThanWait, StartAlready
  <2> QED BY <2>1, <2>2, <2>3 DEF ControlInv
<1>7. CASE Start
  <2>1. TypeOK'
    BY <1>0, <1>7 DEF TypeOK, LongAgo, Start, Answer, CheckRunning, Fault
  <2>2. LaunchesCounted'
    <3>1. /\ scripts' = scripts \cup {0} /\ launched' = launched + 1
          /\ UNCHANGED launches
      BY <1>7 DEF Start
    <3>2. Cardinality(scripts \cup {0}) <= Cardinality(scripts) + 1
      BY <1>f, FS_AddElement
    <3>3. scripts' \in SUBSET (0..ScriptTicks) BY <2>1 DEF TypeOK
    <3>4. Cardinality(scripts') \in Nat BY <3>3, AgesFinite
    <3> QED BY <1>0, <1>f, <3>1, <3>2, <3>4 DEF TypeOK, LaunchesCounted
  <2>3. ScriptsOlderThanWait'
    BY <1>0, <1>7 DEF ScriptsOlderThanWait, Start
  <2> QED BY <2>1, <2>2, <2>3 DEF ControlInv
<1>8. CASE StartFails
  <2>1. TypeOK'
    BY <1>0, <1>8 DEF TypeOK, LongAgo, StartFails, Answer, Fault
  <2>2. LaunchesCounted'
    BY <1>0, <1>8 DEF LaunchesCounted, StartFails
  <2>3. ScriptsOlderThanWait'
    BY <1>0, <1>8 DEF ScriptsOlderThanWait, StartFails
  <2> QED BY <2>1, <2>2, <2>3 DEF ControlInv
<1>9. CASE StopRefused
  <2>1. TypeOK'
    BY <1>0, <1>9 DEF TypeOK, LongAgo, StopRefused, Answer
  <2>2. LaunchesCounted'
    BY <1>0, <1>9 DEF LaunchesCounted, StopRefused
  <2>3. ScriptsOlderThanWait'
    BY <1>0, <1>9 DEF ScriptsOlderThanWait, StopRefused
  <2> QED BY <2>1, <2>2, <2>3 DEF ControlInv
<1>10. CASE StopTerminates
  <2>1. TypeOK'
    BY <1>0, <1>10 DEF TypeOK, LongAgo, StopTerminates, LaunchGone
  <2>2. LaunchesCounted'
    BY <1>0, <1>f, <1>10 DEF TypeOK, LaunchesCounted, StopTerminates, LaunchGone
  <2>3. ScriptsOlderThanWait'
    BY <1>0, <1>f, <1>10 DEF ScriptsOlderThanWait, StopTerminates
  <2> QED BY <2>1, <2>2, <2>3 DEF ControlInv
<1>11. CASE StopKills
  <2>1. TypeOK'
    BY <1>0, <1>11 DEF TypeOK, LongAgo, StopKills, LaunchGone, Answer
  <2>2. LaunchesCounted'
    BY <1>0, <1>f, <1>11 DEF TypeOK, LaunchesCounted, StopKills, LaunchGone
  <2>3. ScriptsOlderThanWait'
    BY <1>0, <1>11 DEF ScriptsOlderThanWait, StopKills
  <2> QED BY <2>1, <2>2, <2>3 DEF ControlInv
<1>12. CASE StopFails
  <2>1. TypeOK'
    BY <1>0, <1>12 DEF TypeOK, LongAgo, StopFails, Answer, Fault
  <2>2. LaunchesCounted'
    BY <1>0, <1>12 DEF LaunchesCounted, StopFails
  <2>3. ScriptsOlderThanWait'
    BY <1>0, <1>12 DEF ScriptsOlderThanWait, StopFails
  <2> QED BY <2>1, <2>2, <2>3 DEF ControlInv
<1>13. CASE CheckStatus
  <2>1. TypeOK'
    BY <1>0, <1>13 DEF TypeOK, LongAgo, CheckStatus, Scan, Fault, StatusOnly
  <2>2. LaunchesCounted'
    BY <1>0, <1>13 DEF LaunchesCounted, CheckStatus, StatusOnly
  <2>3. ScriptsOlderThanWait'
    BY <1>0, <1>13 DEF ScriptsOlderThanWait, CheckStatus, StatusOnly
  <2> QED BY <2>1, <2>2, <2>3 DEF ControlInv
<1>14. CASE RecordRefused
  <2>1. TypeOK'
    BY <1>0, <1>14 DEF TypeOK, LongAgo, RecordRefused, Answer
  <2>2. LaunchesCounted'
    BY <1>0, <1>14 DEF LaunchesCounted, RecordRefused
  <2>3. ScriptsOlderThanWait'
    BY <1>0, <1>14 DEF ScriptsOlderThanWait, RecordRefused
  <2> QED BY <2>1, <2>2, <2>3 DEF ControlInv
<1>15. CASE RecordAlready
  <2>1. TypeOK'
    BY <1>0, <1>15 DEF TypeOK, LongAgo, RecordAlready, Answer, Scan, Fault
  <2>2. LaunchesCounted'
    BY <1>0, <1>15 DEF LaunchesCounted, RecordAlready
  <2>3. ScriptsOlderThanWait'
    BY <1>0, <1>15 DEF ScriptsOlderThanWait, RecordAlready
  <2> QED BY <2>1, <2>2, <2>3 DEF ControlInv
<1>16. CASE RecordCalls
  <2>1. TypeOK'
    BY <1>0, <1>16 DEF TypeOK, LongAgo, RecordCalls, Scan, Fault
  <2>2. LaunchesCounted'
    BY <1>0, <1>16 DEF LaunchesCounted, RecordCalls
  <2>3. ScriptsOlderThanWait'
    BY <1>0, <1>f, <1>16 DEF ScriptsOlderThanWait, RecordCalls
  <2> QED BY <2>1, <2>2, <2>3 DEF ControlInv
<1>17. CASE RecordAnswered
  <2>1. TypeOK'
    BY <1>0, <1>17 DEF TypeOK, LongAgo, RecordAnswered, Answer
  <2>2. LaunchesCounted'
    BY <1>0, <1>17 DEF LaunchesCounted, RecordAnswered
  <2>3. ScriptsOlderThanWait'
    BY <1>0, <1>17 DEF ScriptsOlderThanWait, RecordAnswered
  <2> QED BY <2>1, <2>2, <2>3 DEF ControlInv
<1>18. CASE EndRefused
  <2>1. TypeOK'
    BY <1>0, <1>18 DEF TypeOK, LongAgo, EndRefused, Answer
  <2>2. LaunchesCounted'
    BY <1>0, <1>18 DEF LaunchesCounted, EndRefused
  <2>3. ScriptsOlderThanWait'
    BY <1>0, <1>18 DEF ScriptsOlderThanWait, EndRefused
  <2> QED BY <2>1, <2>2, <2>3 DEF ControlInv
<1>19. CASE EndAlready
  <2>1. TypeOK'
    BY <1>0, <1>19 DEF TypeOK, LongAgo, EndAlready, Answer, Scan, Fault
  <2>2. LaunchesCounted'
    BY <1>0, <1>19 DEF LaunchesCounted, EndAlready
  <2>3. ScriptsOlderThanWait'
    BY <1>0, <1>19 DEF ScriptsOlderThanWait, EndAlready
  <2> QED BY <2>1, <2>2, <2>3 DEF ControlInv
<1>20. CASE EndCalls
  <2>1. TypeOK'
    BY <1>0, <1>20 DEF TypeOK, LongAgo, EndCalls, Scan, Fault
  <2>2. LaunchesCounted'
    BY <1>0, <1>20 DEF LaunchesCounted, EndCalls
  <2>3. ScriptsOlderThanWait'
    BY <1>0, <1>f, <1>20 DEF ScriptsOlderThanWait, EndCalls
  <2> QED BY <2>1, <2>2, <2>3 DEF ControlInv
<1>21. CASE EndAnswered
  <2>1. TypeOK'
    BY <1>0, <1>21 DEF TypeOK, LongAgo, EndAnswered, Answer
  <2>2. LaunchesCounted'
    BY <1>0, <1>21 DEF LaunchesCounted, EndAnswered
  <2>3. ScriptsOlderThanWait'
    BY <1>0, <1>21 DEF ScriptsOlderThanWait, EndAnswered
  <2> QED BY <2>1, <2>2, <2>3 DEF ControlInv
<1>22. CASE Down
  <2>1. TypeOK'
    BY <1>0, <1>22 DEF TypeOK, LongAgo, Down
  <2>2. LaunchesCounted'
    BY <1>0, <1>22 DEF LaunchesCounted, Down
  <2>3. ScriptsOlderThanWait'
    BY <1>0, <1>f, <1>22 DEF ScriptsOlderThanWait, Down
  <2> QED BY <2>1, <2>2, <2>3 DEF ControlInv
<1>23. CASE Up
  <2>1. TypeOK'
    BY <1>0, <1>23 DEF TypeOK, LongAgo, Up
  <2>2. LaunchesCounted'
    BY <1>0, <1>23 DEF LaunchesCounted, Up
  <2>3. ScriptsOlderThanWait'
    BY <1>0, <1>23 DEF ScriptsOlderThanWait, Up
  <2> QED BY <2>1, <2>2, <2>3 DEF ControlInv
<1>24. CASE UNCHANGED vars
  BY <1>0, <1>24 DEF ControlInv, TypeOK, LaunchesCounted, ScriptsOlderThanWait
<1> QED
  BY <1>1, <1>2, <1>3, <1>4, <1>5, <1>6, <1>7, <1>8, <1>9, <1>10, <1>11, <1>12, <1>13, <1>14,
     <1>15, <1>16, <1>17, <1>18, <1>19, <1>20, <1>21, <1>22, <1>23, <1>24 DEF Next

\* A start that is still under way is younger than the cooldown.
LEMMA StartsApartStep ==
  ASSUME PromptScript, ControlInv, StartsApart, [Next]_vars
  PROVE  StartsApart'
<1> USE ControlAssumption DEF vars, outside, waiting, rosTimes, bagTimes, bounds
<1>0. TypeOK /\ LaunchesCounted /\ ScriptsOlderThanWait BY DEF ControlInv
<1>f. /\ IsFiniteSet(scripts) /\ Cardinality(scripts) \in Nat
      /\ \A age \in scripts : age \in Nat /\ age <= ScriptTicks
  BY <1>0, AgesFinite DEF TypeOK
<1>1. CASE Tick
  <2>1. Cardinality(scripts') <= Cardinality(scripts)
    BY <1>0, <1>1, ScriptsAge DEF Tick
  <2>2. scripts' \in SUBSET (0..ScriptTicks)
    BY <1>0, <1>f, <1>1 DEF TypeOK, Tick
  <2>3. Cardinality(scripts') \in Nat BY <2>2, AgesFinite
  <2>4. faults' = 0 => Cardinality(scripts') + launches' <= 1
    BY <1>0, <1>f, <1>1, <2>1, <2>3 DEF TypeOK, StartsApart, Tick
  <2>5. faults' = 0 => \A age \in scripts' : sinceStart' <= age
    BY <1>0, <1>f, <1>1 DEF TypeOK, StartsApart, Tick, Older, LongAgo
  <2> QED BY <2>4, <2>5 DEF StartsApart
<1>2. CASE ScriptLaunches
  <2>1. PICK age \in scripts : scripts' = scripts \ {age}
    BY <1>2 DEF ScriptLaunches
  <2>2. Cardinality(scripts \ {age}) = Cardinality(scripts) - 1
    BY <1>f, FS_RemoveElement
  <2>3. launches' = launches + 1 /\ UNCHANGED <<sinceStart, faults>>
    BY <1>2 DEF ScriptLaunches, OutsideOnly
  <2> QED BY <1>0, <1>f, <2>1, <2>2, <2>3 DEF TypeOK, StartsApart
<1>3. CASE LaunchEnds
  BY <1>0, <1>f, <1>3 DEF TypeOK, StartsApart, LaunchEnds, LaunchGone, OutsideOnly
<1>4. CASE StopTerminates \/ StopKills
  <2>1. launches' \in 0..launches /\ UNCHANGED <<scripts, sinceStart, faults>>
    BY <1>0, <1>4 DEF TypeOK, StopTerminates, StopKills, LaunchGone
  <2> QED BY <1>0, <1>f, <2>1 DEF TypeOK, StartsApart
<1>5. CASE StartAlready
  BY <1>0, <1>f, <1>5 DEF TypeOK, StartsApart, StartAlready, CheckRunning, Fault
\* No script is left that could come up beside the new one.
<1>6. CASE Start
  <2>1. SUFFICES ASSUME faults' = 0 PROVE StartsApart'
    BY DEF StartsApart
  <2>2. faults = 0 /\ launches = 0
    BY <1>0, <1>6, <2>1 DEF TypeOK, Start, CheckRunning, Fault
  <2>3. scripts = {}
    BY <1>0, <1>f, <1>6, <2>2 DEF TypeOK, StartsApart, PromptScript, Start, InCooldown
  <2>4. scripts' = {0} /\ launches' = 0 /\ sinceStart' = 0
    BY <1>6, <2>2, <2>3 DEF Start
  <2>5. Cardinality({0}) = 1 BY FS_Singleton
  <2> QED BY <2>4, <2>5 DEF StartsApart
<1>7. CASE StartFails
  BY <1>0, <1>7 DEF TypeOK, StartsApart, StartFails, Fault
\* Nor does a restart of the dashboard forget one.
<1>8. CASE Up
  <2>1. scripts = {}
    BY <1>0, <1>f, <1>8 DEF TypeOK, ScriptsOlderThanWait, PromptScript, Up, WaitEnds
  <2> QED BY <1>8, <2>1 DEF StartsApart, Up
<1>9. CASE RecorderServes
  BY <1>9 DEF StartsApart, RecorderServes, OutsideOnly
<1>10. CASE
         \/ StartRefused \/ StopRefused \/ StopFails \/ CheckStatus
         \/ RecordRefused \/ RecordAlready \/ RecordCalls \/ RecordAnswered
         \/ EndRefused \/ EndAlready \/ EndCalls \/ EndAnswered \/ Down
  <2>1. UNCHANGED <<scripts, launches, sinceStart>> /\ (faults' = 0 => faults = 0)
    BY <1>0, <1>10 DEF TypeOK, StartRefused, StopRefused, StopFails,
               CheckStatus, RecordRefused, RecordAlready, RecordCalls,
               RecordAnswered, EndRefused, EndAlready, EndCalls, EndAnswered,
               Down, StatusOnly, Scan, Fault
  <2> QED BY <2>1 DEF StartsApart
<1>11. CASE UNCHANGED vars
  BY <1>11 DEF StartsApart
<1> QED
  BY <1>1, <1>2, <1>3, <1>4, <1>5, <1>6, <1>7, <1>8, <1>9, <1>10, <1>11 DEF Next

\* What a stop waited for is all that could still come up.
LEMMA NothingLeftStep ==
  ASSUME PromptScript, ControlInv, NothingLeft, [Next]_vars
  PROVE  NothingLeft'
<1> USE ControlAssumption DEF vars, outside, waiting, rosTimes, bagTimes, bounds
<1>0. TypeOK /\ LaunchesCounted /\ ScriptsOlderThanWait BY DEF ControlInv
<1>f. \A age \in scripts : age \in Nat /\ age <= ScriptTicks
  BY <1>0, AgesFinite DEF TypeOK
<1>1. CASE Tick
  BY <1>1 DEF NothingLeft, Tick
<1>2. CASE ScriptLaunches \/ LaunchEnds \/ RecorderServes
  BY <1>0, <1>2
  DEF TypeOK, NothingLeft, ScriptLaunches, LaunchEnds, LaunchGone, RecorderServes, OutsideOnly
<1>3. CASE Start
  BY <1>3 DEF NothingLeft, Start
<1>4. CASE StopTerminates
  BY <1>0, <1>4 DEF TypeOK, NothingLeft, StopTerminates, LaunchGone
\* A script that was under way when the stop began has launched by now.
<1>5. CASE StopKills
  <2>1. scripts = {}
    BY <1>0, <1>f, <1>5
    DEF TypeOK, ScriptsOlderThanWait, PromptScript, StopKills, WaitEnds
  <2> QED BY <1>5, <2>1 DEF NothingLeft, StopKills, LaunchGone
<1>6. CASE RecordCalls \/ EndCalls
  BY <1>0, <1>6 DEF TypeOK, NothingLeft, RecordCalls, EndCalls, Scan
<1>7. CASE
        \/ StartRefused \/ StartAlready \/ StartFails \/ StopRefused
        \/ StopFails \/ CheckStatus \/ RecordRefused \/ RecordAlready
        \/ RecordAnswered \/ EndRefused \/ EndAlready \/ EndAnswered \/ Down
        \/ Up
  <2>1. UNCHANGED <<outside, wanted>>
    BY <1>7 DEF StartRefused, StartAlready, StartFails, StopRefused, StopFails,
               CheckStatus, RecordRefused, RecordAlready, RecordAnswered,
               EndRefused, EndAlready, EndAnswered, Down, Up, StatusOnly
  <2> QED BY <2>1 DEF NothingLeft
<1>8. CASE UNCHANGED vars
  BY <1>8 DEF NothingLeft
<1> QED
  BY <1>1, <1>2, <1>3, <1>4, <1>5, <1>6, <1>7, <1>8 DEF Next

\* The invariant behind the theorems about starts and stops.
THEOREM ControlInvariant == Spec => []ControlInv
<1>1. Init => ControlInv BY ControlInit
<1>2. ControlInv /\ [Next]_vars => ControlInv' BY ControlStep
<1> QED BY <1>1, <1>2, PTL DEF Spec

\* The types of the state of the control of ROS 2 and of the recorder; among
\* them, that no more is launched than was started.
THEOREM ControlTypeCorrect == Spec => []TypeOK
<1>1. ControlInv => TypeOK BY DEF ControlInv
<1> QED BY <1>1, ControlInvariant, PTL

\* As long as a script launches within the cooldown, the wait of a stop and a
\* restart of the dashboard, ROS 2 is launched at most once at a time.
THEOREM OneLaunchAlways ==
  ASSUME PromptScript
  PROVE  Spec => []OneLaunch
<1>1. Init => StartsApart BY ControlInit
<1>2. ControlInv /\ StartsApart /\ [Next]_vars => StartsApart' BY StartsApartStep
<1>3. StartsApart => OneLaunch BY DEF StartsApart, OneLaunch
<1> QED BY <1>1, <1>2, <1>3, ControlInvariant, PTL DEF Spec

\* Under the same assumption, a stop that was answered with success has left
\* nothing of ROS 2 until the next start, also not what came up meanwhile.
THEOREM StoppedMeansStoppedAlways ==
  ASSUME PromptScript
  PROVE  Spec => []StoppedMeansStopped
<1>1. Init => NothingLeft BY ControlInit
<1>2. ControlInv /\ NothingLeft /\ [Next]_vars => NothingLeft' BY NothingLeftStep
<1>3. NothingLeft => StoppedMeansStopped BY DEF NothingLeft, StoppedMeansStopped
<1> QED BY <1>1, <1>2, <1>3, ControlInvariant, PTL DEF Spec

-----------------------------------------------------------------------------
(* The server as a whole *)

\* The types of an entry and its loop, also of a channel that is collected
\* through the cache.
LEMMA CacheTypedStep ==
  ASSUME Cache!CacheAssumption, Cache!TypeOK, CycleIsDue, [Cache!Next]_Cache!vars
  PROVE  Cache!TypeOK' /\ CycleIsDue'
<1> USE DEF Cache!vars, Cache!entry, Cache!loopState, Cache!readerState,
            Cache!NoEntry, Cache!Ages, Cache!Fresh, Cache!Store, Cache!CacheAssumption
<1> USE DEF Cache!TypeOK, CycleIsDue
<1>1. CASE Cache!Tick
  BY <1>1 DEF Cache!Tick, Cache!Older
<1>2. CASE Cache!LoopWake \/ Cache!LoopCollected
  BY <1>2 DEF Cache!LoopWake, Cache!LoopCollected
<1>3. CASE Cache!LoopSend \/ Cache!LoopFails
  BY <1>3 DEF Cache!LoopSend, Cache!LoopFails, Cache!NextRun
<1>4. CASE Cache!ReadCached \/ Cache!ReadMissed
  BY <1>4 DEF Cache!ReadCached, Cache!ReadMissed, Cache!Read
<1>5. CASE Cache!ReadCollected \/ Cache!ReadFails \/ Cache!SendFullState
  BY <1>5 DEF Cache!ReadCollected, Cache!ReadFails, Cache!SendFullState
<1>6. CASE Cache!Invalidate \/ UNCHANGED Cache!vars
  BY <1>6 DEF Cache!Invalidate
<1> QED BY <1>1, <1>2, <1>3, <1>4, <1>5, <1>6 DEF Cache!Next

ServerInv == ControlInv /\ Cache!TypeOK /\ CycleIsDue /\ AlertInv

\* Whichever part a behavior explores, all variables of the server keep their
\* types, with no assumption beyond those on the constants.
THEOREM ServerTypesCorrect == MCSpec => []TypesOK
<1> USE DashboardConstants
<1>1. MCInit => ServerInv
  <2>1. Cache!Init => Cache!TypeOK /\ CycleIsDue
    BY DEF Cache!CacheAssumption, Cache!Init, Cache!NoEntry, Cache!Ages, Cache!TypeOK, CycleIsDue
  <2> QED BY <2>1, ControlInit, AlertInit DEF MCInit, ServerInv
<1>2. ServerInv /\ [MCNext]_<<part, vars, cacheVars, alertVars>> => ServerInv'
  <2> SUFFICES ASSUME ServerInv, [MCNext]_<<part, vars, cacheVars, alertVars>>
               PROVE  ServerInv'
    OBVIOUS
  <2>1. /\ UNCHANGED cacheVars => UNCHANGED Cache!vars
        /\ UNCHANGED alertVars => UNCHANGED Alert!vars
    BY DEF cacheVars, Cache!vars, alertVars, Alert!vars, Alert!storeVars, Alert!pushVars,
           Alert!loopVars, Alert!clientVars
  <2>2. [Next]_vars /\ [Cache!Next]_Cache!vars /\ [Alert!Next]_Alert!vars
    BY <2>1 DEF MCNext
  <2>3. ControlInv'
    BY <2>2, ControlStep DEF ServerInv
  <2>4. Cache!TypeOK' /\ CycleIsDue'
    BY <2>2, CacheTypedStep DEF ServerInv
  <2>5. AlertInv'
    BY <2>2, AlertStep DEF ServerInv
  <2> QED BY <2>3, <2>4, <2>5 DEF ServerInv
<1>3. ServerInv => TypesOK
  BY DEF ServerInv, TypesOK, ControlInv, AlertInv
<1> QED BY <1>1, <1>2, <1>3, PTL DEF MCSpec
=============================================================================
