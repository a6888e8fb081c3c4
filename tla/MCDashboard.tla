---------------------------- MODULE MCDashboard ----------------------------
(***************************************************************************)
(* ProcessControl, ChannelCache and AlertPipeline, the dashboard's server, *)
(* for TLC.  They share no state, so a behavior explores one of them:      *)
(* `part` says which, and the others keep their initial states.            *)
(***************************************************************************)
EXTENDS ProcessControl

CONSTANTS Interval, Ttl, CollectTtl, ThroughCache, MaxLate, MaxGather, MaxAge,
          Alerts, Clients, MaxTroubles, NoList

VARIABLES part,
          stampAge, dataAge, loop, wait, busy, reader, gathering, held, served,
          row, durable, adding, server, queued, pushTo, prev, diffTo, phase,
          full, listed, pushed, troubles

cacheVars == <<stampAge, dataAge, loop, wait, busy, reader, gathering, held, served>>
alertVars == <<row, durable, adding, server, queued, pushTo, prev, diffTo, phase,
               full, listed, pushed, troubles>>

Cache == INSTANCE ChannelCache
Alert == INSTANCE AlertPipeline WITH NoEntry <- NoList

ASSUME DashboardConstants == Cache!CacheAssumption /\ Alert!AlertAssumption

MCInit == part \in {"control", "cache", "alerts"} /\ Init /\ Cache!Init /\ Alert!Init

MCNext ==
  /\ UNCHANGED part
  /\ \/ part = "control" /\ Next /\ UNCHANGED <<cacheVars, alertVars>>
     \/ part = "cache" /\ Cache!Next /\ UNCHANGED <<vars, alertVars>>
     \/ part = "alerts" /\ Alert!Next /\ UNCHANGED <<vars, cacheVars>>

\* The fairness of each part, for its own behaviors.
ControlFairness ==
  LET On(A) == part = "control" /\ A IN
  /\ WF_vars(On(Tick)) /\ WF_vars(On(ScriptLaunches)) /\ WF_vars(On(StopKills))
  /\ WF_vars(On(RecordAnswered)) /\ WF_vars(On(EndAnswered)) /\ WF_vars(On(Up))
  /\ SF_vars(On(CheckStatus))

CacheFairness ==
  LET On(A) == part = "cache" /\ A IN
  /\ WF_cacheVars(On(Cache!Tick)) /\ WF_cacheVars(On(Cache!LoopWake))
  /\ SF_cacheVars(On(Cache!LoopCollected))
  /\ WF_cacheVars(On(Cache!LoopSend)) /\ WF_cacheVars(On(Cache!ReadCollected))
  /\ WF_cacheVars(On(Cache!SendFullState))

AlertFairness ==
  LET On(A) == part = "alerts" /\ A IN
  /\ WF_alertVars(On(Alert!DiffCollect))
  /\ \A c \in Clients :
       /\ WF_alertVars(On(Alert!DiffSend(c))) /\ WF_alertVars(On(Alert!FullRead(c)))
       /\ WF_alertVars(On(Alert!FullSend(c)))
  /\ \A a \in Alerts :
       WF_alertVars(On(Alert!Notify(a))) /\ WF_alertVars(On(Alert!Commit(a)))
  /\ WF_alertVars(On(Alert!BackgroundInit))
  /\ WF_alertVars(On(server = "stopping" /\ Alert!Restart))

MCSpec ==
  /\ MCInit /\ [][MCNext]_<<part, vars, cacheVars, alertVars>>
  /\ ControlFairness /\ CacheFairness /\ AlertFairness

\* The parts' invariants and properties, under names of their own: the types
\* of all variables; the age of what is served and a channel's cycles; what
\* browsers were told of alerts and what they show.
TypesOK == TypeOK /\ Cache!TypeOK /\ Alert!TypeOK
ServedIsRecent == Cache!ServedIsRecent
BroadcastsGoOn == part = "cache" => Cache!BroadcastsGoOn
PushedIsDurable == Alert!PushedIsDurable
BoardFollowsStore == part = "alerts" => Alert!BoardFollowsStore
=============================================================================
