---------------------------- MODULE FlowMeter -----------------------------
(***************************************************************************)
(* The flow meter of the Arduino firmware: pollFlowSensor counts the level *)
(* changes of the sensor pin that loop() happens to see, and               *)
(* calculateFlowData moves the count, one bin for every interval that has  *)
(* passed, through a circular window of the last second.  Frequency, flow, *)
(* velocity and litres are fixed multiples of flowRollingChangeCount and   *)
(* flowTotalChangeCount and are left out.                                  *)
(*                                                                         *)
(* An iteration of loop() polls, works for up to MaxIteration, polls       *)
(* again, and then calculates with the time at which it started.           *)
(***************************************************************************)
EXTENDS Integers, FiniteSetsExt

CONSTANTS
    FLOW_CALC_INTERVAL_MS, FLOW_ESTIMATE_BIN_COUNT,
    MaxIteration,   \* longest iteration of loop()
    MaxChanges,     \* bound: changes of a run
    AgeMax          \* bound: above every age compared

\* What the constants must satisfy.
FlowAssumption ==
    /\ FLOW_CALC_INTERVAL_MS \in Nat \ {0}
    /\ FLOW_ESTIMATE_BIN_COUNT \in Nat \ {0}
    /\ MaxIteration \in Nat /\ MaxChanges \in Nat /\ AgeMax \in Nat
    /\ AgeMax > (FLOW_ESTIMATE_BIN_COUNT + 2) * FLOW_CALC_INTERVAL_MS
                  + 2 * MaxIteration

VARIABLES
    stage,                  \* "poll", "calculate", "rest" of the iteration
    loopAge,                \* age of loop()'s local `now`
    calcAge,                \* age of lastFlowCalcMs
    glitch,                 \* less than FLOW_GLITCH_FILTER_US since the edge
    flowChangeCount, flowRollingChangeCount, flowTotalChangeCount,
    flowWindowChanges, flowWindowIndex, flowWindowBinsFilled,
    changeAge,              \* history: age of the last counted change
    early                   \* history: it was seen in the first iteration

vars == <<stage, loopAge, calcAge, glitch, flowChangeCount,
          flowRollingChangeCount, flowTotalChangeCount, flowWindowChanges,
          flowWindowIndex, flowWindowBinsFilled, changeAge, early>>

seen == <<changeAge, early>>

window == <<flowRollingChangeCount, flowWindowChanges, flowWindowIndex,
            flowWindowBinsFilled>>

Bin    == 0 .. FLOW_ESTIMATE_BIN_COUNT - 1
WINDOW == FLOW_ESTIMATE_BIN_COUNT * FLOW_CALC_INTERVAL_MS

\* setup() takes the stamp, then holds the ESCs at neutral for two seconds and
\* starts WiFi, so the first iteration is at least a window behind.
Init ==
    /\ stage = "poll"
    /\ loopAge = 0
    /\ calcAge \in WINDOW .. WINDOW + FLOW_CALC_INTERVAL_MS
    /\ glitch = FALSE
    /\ flowChangeCount = 0
    /\ flowRollingChangeCount = 0
    /\ flowTotalChangeCount = 0
    /\ flowWindowChanges = [b \in Bin |-> 0]
    /\ flowWindowIndex = 0
    /\ flowWindowBinsFilled = 0
    /\ changeAge = AgeMax /\ early = FALSE

Elapse ==
    /\ stage # "calculate"
    /\ loopAge < MaxIteration
    /\ loopAge' = loopAge + 1
    /\ calcAge' = calcAge + 1
    /\ glitch' = FALSE
    /\ changeAge' = IF changeAge < AgeMax THEN changeAge + 1 ELSE AgeMax
    /\ UNCHANGED <<stage, flowChangeCount, flowTotalChangeCount, window, early>>

\* pollFlowSensor sees another level.  A change too soon after the last
\* counted one is taken back.
PollFlowSensor ==
    /\ stage # "calculate"
    /\ ~glitch
    /\ flowTotalChangeCount < MaxChanges
    /\ flowChangeCount' = flowChangeCount + 1
    /\ flowTotalChangeCount' = flowTotalChangeCount + 1
    /\ glitch' = TRUE
    /\ changeAge' = 0 /\ early' = (flowWindowBinsFilled = 0)
    /\ UNCHANGED <<stage, loopAge, calcAge, window>>

BeginCalculation ==
    /\ stage = "poll"
    /\ stage' = "calculate"
    /\ UNCHANGED <<loopAge, calcAge, glitch, flowChangeCount,
                   flowTotalChangeCount, window, seen>>

Mutant_NextBin(i) == i

NextBin(i) == (i + 1) % FLOW_ESTIMATE_BIN_COUNT

Mutant_WithBin(count) == flowRollingChangeCount + count

\* The rolling sum once the oldest bin has been replaced by `count`.
WithBin(count) ==
    flowRollingChangeCount - flowWindowChanges[flowWindowIndex] + count

\* One turn of calculateFlowData's while loop.
CompleteBin ==
    /\ stage = "calculate"
    /\ calcAge - loopAge >= FLOW_CALC_INTERVAL_MS
    /\ flowChangeCount' = 0
    /\ flowRollingChangeCount' = WithBin(flowChangeCount)
    /\ flowWindowChanges' =
         [flowWindowChanges EXCEPT ![flowWindowIndex] = flowChangeCount]
    /\ flowWindowIndex' = NextBin(flowWindowIndex)
    /\ flowWindowBinsFilled' =
         Min({flowWindowBinsFilled + 1, FLOW_ESTIMATE_BIN_COUNT})
    /\ calcAge' = calcAge - FLOW_CALC_INTERVAL_MS
    /\ UNCHANGED <<stage, loopAge, glitch, flowTotalChangeCount, seen>>

\* The while loop is done: telemetry, the DHT sensors, a last poll.
EndCalculation ==
    /\ stage = "calculate"
    /\ calcAge - loopAge < FLOW_CALC_INTERVAL_MS
    /\ stage' = "rest"
    /\ UNCHANGED <<loopAge, calcAge, glitch, flowChangeCount,
                   flowTotalChangeCount, window, seen>>

\* loop() is called again and reads `now`.
StartIteration ==
    /\ stage = "rest"
    /\ stage' = "poll"
    /\ loopAge' = 0
    /\ UNCHANGED <<calcAge, glitch, flowChangeCount, flowTotalChangeCount,
                   window, seen>>

Next ==
    \/ Elapse
    \/ PollFlowSensor
    \/ BeginCalculation
    \/ CompleteBin
    \/ EndCalculation
    \/ StartIteration

Spec == Init /\ [][Next]_vars

-----------------------------------------------------------------------------
(* Properties. *)

TypeOK ==
    /\ stage \in {"poll", "calculate", "rest"}
    /\ loopAge \in 0 .. MaxIteration
    /\ calcAge \in Nat
    /\ glitch \in BOOLEAN
    /\ flowChangeCount \in 0 .. MaxChanges
    /\ flowRollingChangeCount \in 0 .. MaxChanges
    /\ flowTotalChangeCount \in 0 .. MaxChanges
    /\ flowWindowChanges \in [Bin -> 0 .. MaxChanges]
    /\ flowWindowIndex \in Bin
    /\ flowWindowBinsFilled \in 0 .. FLOW_ESTIMATE_BIN_COUNT
    /\ changeAge \in 0 .. AgeMax
    /\ early \in BOOLEAN

\* The incremental sum is the sum of the window, so the unsigned subtraction
\* of the oldest bin never goes below zero.
RollingIsWindowSum ==
    flowRollingChangeCount =
        MapThenSumSet(LAMBDA b : flowWindowChanges[b], Bin)

\* calculateFlowData has caught up.
Calculated == stage = "calculate" /\ calcAge - loopAge < FLOW_CALC_INTERVAL_MS

\* The estimate follows the flow.  Flow that stopped is reported as stopped: a
\* second, an interval and an iteration after the last change it is zero.  And
\* a change counts for the second it should, up to the iterations that delay
\* its poll and its calculation (and save the first iteration after boot,
\* which flushes the whole window).
EstimateFollowsFlow ==
    Calculated =>
        /\ changeAge >= WINDOW + FLOW_CALC_INTERVAL_MS + MaxIteration
             => flowRollingChangeCount = 0 /\ flowChangeCount = 0
        /\ ~early /\ changeAge + 2 * MaxIteration < WINDOW
             => flowRollingChangeCount + flowChangeCount > 0
=============================================================================
