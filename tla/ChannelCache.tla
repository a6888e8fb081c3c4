---------------------------- MODULE ChannelCache ----------------------------
(***************************************************************************)
(* One time-stamped cache entry of the dashboard (main.py) and everything  *)
(* that reads and fills it: the channel's broadcaster loop, the full state *)
(* of a connecting browser and the compatibility loop.  An entry has the   *)
(* age of its stamp, which decides whether it is used, and the age of its  *)
(* data, which is what a reader gets.  Some channels are collected anew in *)
(* every cycle; "ros2" and "time" are collected through the cache itself,  *)
(* and the result is stored again with a new stamp.                        *)
(***************************************************************************)
EXTENDS Integers

CONSTANTS
  Interval,     \* ticks between two cycles of the channel's loop
  Ttl,          \* cache_ttl of the channel, for the full state
  CollectTtl,   \* max_age with which the cached collectors read the entry
  ThroughCache, \* the channel is collected through the cache
  MaxLate,      \* bound: ticks a cycle may be late or its collection may take
  MaxGather,    \* bound: ticks a full state waits for its slowest part
  MaxAge        \* bound: ages are counted up to here

\* What the constants must satisfy.
CacheAssumption ==
  /\ Interval \in Nat /\ Ttl \in Nat /\ CollectTtl \in Nat
  /\ ThroughCache \in BOOLEAN
  /\ MaxLate \in Nat /\ MaxGather \in Nat /\ MaxAge \in Nat

VARIABLES
  stampAge,   \* ticks since the entry was stamped, or NoEntry
  dataAge,    \* ticks since its data was taken
  loop,       \* "sleep" | "collect" | "send" | "stopped"
  wait,       \* ticks until the loop's next_run, negative when it is late
  busy,       \* ticks the loop's collection in progress has taken
  reader,     \* a full state in the making: "idle" | "hit", the entry was
              \* fresh | "collect" | "collected"
  gathering,  \* ticks it has waited for its slowest part
  held,       \* age of the data it holds of this channel
  served      \* age that data had when a browser's message was made of it

vars == <<stampAge, dataAge, loop, wait, busy, reader, gathering, held, served>>
entry == <<stampAge, dataAge>>
loopState == <<loop, wait, busy>>
readerState == <<reader, gathering, held>>

NoEntry == MaxAge + 1
Ages == 0..MaxAge + 1
Older(age) == IF age > MaxAge THEN age ELSE age + 1

TypeOK ==
  /\ stampAge \in Ages /\ dataAge \in Ages /\ held \in Ages /\ served \in Ages
  /\ loop \in {"sleep", "collect", "send"} /\ reader \in {"idle", "hit", "collect", "collected"}
  /\ gathering \in 0..MaxGather
  /\ wait \in -MaxLate..Interval /\ busy \in 0..MaxLate

Init ==
  /\ stampAge = NoEntry /\ dataAge = NoEntry
  /\ loop = "sleep" /\ wait = 0 /\ busy = 0
  /\ reader = "idle" /\ gathering = 0 /\ held = 0 /\ served = 0

Mutant_Fresh(maxAge) == stampAge # NoEntry

\* _cache_get(): an entry is used as long as its stamp is not older than max_age.
Fresh(maxAge) == stampAge <= MaxAge /\ stampAge <= maxAge

\* _cache_set(): the stamp is the time of the store, whatever the data's age.
Store(age) == stampAge' = 0 /\ dataAge' = age
-----------------------------------------------------------------------------
(* Time passes for everything; the bounds say for how long a step may wait. *)
Tick ==
  /\ wait > -MaxLate /\ (loop = "collect" => busy < MaxLate)
  /\ (reader # "idle" => gathering < MaxGather)
  /\ stampAge' = Older(stampAge) /\ dataAge' = Older(dataAge)
  /\ gathering' = IF reader # "idle" THEN gathering + 1 ELSE gathering
  /\ held' = IF reader \in {"hit", "collected"} THEN Older(held) ELSE held
  /\ wait' = wait - 1
  /\ busy' = IF loop = "collect" THEN busy + 1 ELSE 0
  /\ UNCHANGED <<loop, reader, served>>
-----------------------------------------------------------------------------
(* _channel_broadcaster_loop() and _collect_channel_data() *)

\* A cached collector that finds the entry fresh returns the old data, and
\* _collect_channel_data() stores it again: it does not know where its data
\* comes from.
LoopWake ==
  /\ loop = "sleep" /\ wait <= 0
  /\ IF ThroughCache /\ Fresh(CollectTtl)
     THEN loop' = "send" /\ Store(dataAge) /\ served' = dataAge
     ELSE loop' = "collect" /\ UNCHANGED <<entry, served>>
  /\ busy' = 0
  /\ UNCHANGED <<wait, readerState>>

LoopCollected ==
  /\ loop = "collect"
  /\ loop' = "send" /\ Store(0) /\ served' = 0
  /\ UNCHANGED <<wait, busy, readerState>>

\* A loop that has fallen behind does not catch up on the cycles it missed.
NextRun == IF wait + Interval < 0 THEN Interval ELSE wait + Interval

LoopSend ==
  /\ loop = "send"
  /\ loop' = "sleep" /\ wait' = NextRun
  /\ UNCHANGED <<entry, busy, readerState, served>>

\* Mutant: an exception ends the task of the loop.
Mutant_LoopFails ==
  /\ loop = "collect"
  /\ loop' = "stopped"
  /\ UNCHANGED <<entry, wait, busy, readerState, served>>

\* Collecting raised: the loop logs it and goes on with the next cycle.
LoopFails ==
  /\ loop = "collect"
  /\ loop' = "sleep" /\ wait' = NextRun
  /\ UNCHANGED <<entry, busy, readerState, served>>
-----------------------------------------------------------------------------
(* send_full_state(): the entry if it is fresh; else the channel is         *)
(* collected in a thread.  Either way the data is held until the slowest    *)
(* missing channel of the full state is there; what was collected is then   *)
(* stored, with the stamp of that moment, and all of it sent.               *)

Read(to) ==
  /\ reader = "idle"
  /\ reader' = to /\ gathering' = 0
  /\ UNCHANGED <<entry, loopState, served>>

ReadCached == Fresh(Ttl) /\ Read("hit") /\ held' = dataAge

ReadMissed ==
  /\ ~Fresh(Ttl)
  /\ IF ThroughCache /\ Fresh(CollectTtl)
     THEN Read("collected") /\ held' = dataAge
     ELSE Read("collect") /\ held' = 0

\* The cached collectors store what they collect themselves, too.
ReadCollected ==
  /\ reader = "collect"
  /\ reader' = "collected" /\ held' = 0
  /\ IF ThroughCache THEN Store(0) ELSE UNCHANGED entry
  /\ UNCHANGED <<loopState, gathering, served>>

\* Collecting raised: the full state has an empty value for the channel.
ReadFails ==
  /\ reader = "collect"
  /\ reader' = "idle" /\ gathering' = 0
  /\ UNCHANGED <<entry, loopState, held, served>>

SendFullState ==
  /\ reader \in {"hit", "collected"}
  /\ reader' = "idle" /\ gathering' = 0 /\ held' = 0
  /\ served' = held
  /\ IF reader = "collected" THEN Store(held) ELSE UNCHANGED entry
  /\ UNCHANGED loopState

\* invalidate_cache_pattern(), by a request of the tools page
Invalidate ==
  /\ stampAge # NoEntry
  /\ stampAge' = NoEntry /\ dataAge' = NoEntry
  /\ UNCHANGED <<loopState, readerState, served>>

Next ==
  \/ Tick \/ LoopWake \/ LoopCollected \/ LoopSend \/ LoopFails
  \/ ReadCached \/ ReadMissed \/ ReadCollected \/ ReadFails \/ SendFullState
  \/ Invalidate

\* Time passes, the loop's task gets its turns, a thread's result is picked
\* up, and collecting does not fail every time.
Fairness ==
  /\ WF_vars(Tick) /\ WF_vars(LoopWake) /\ SF_vars(LoopCollected) /\ WF_vars(LoopSend)
  /\ WF_vars(ReadCollected) /\ WF_vars(SendFullState)

Spec == Init /\ [][Next]_vars /\ Fairness
-----------------------------------------------------------------------------
(* What a browser is sent was taken from the system at most the lifetime of *)
(* an entry ago, plus twice the time a full state holds its parts: once for *)
(* the full state that stored the entry, after its own wait, and once for   *)
(* the one that found it fresh and waits with it.  Entries filled late, by  *)
(* whom ever, never add up to more.  Holds for the channels that are        *)
(* collected anew in every cycle; with ThroughCache it fails, as data that  *)
(* is stored again becomes young again and is never replaced                *)
(* (config.yaml:273, "System/PHC time refresh interval").                   *)
ServedIsRecent == served <= Ttl + 2 * MaxGather

(* The channel's broadcasts never end: not after a cycle that failed, not   *)
(* after one that came late, and not when other readers fill the entry.     *)
BroadcastsGoOn == []<><<LoopSend>>_vars
=============================================================================
