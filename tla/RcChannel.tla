---------------------------- MODULE RcChannel ----------------------------
(***************************************************************************)
(* One channel of the RC receiver in Arduino/thruster_and_speed.ino: the   *)
(* pin-change interrupt that captures a pulse width (onRightChange, the    *)
(* left channel is identical) and readRcInputs, which turns the last       *)
(* captured width into an ESC pulse: freshness, neutral hysteresis, gear   *)
(* (or linear) mapping, low-pass filter, ramp limit, failsafe.  Pulse      *)
(* widths are the real microseconds of the code.                           *)
(*                                                                         *)
(* readRcInputs reads the clocks first and copies the captured pulse in a  *)
(* critical section afterwards, so it is two steps and the interrupt may   *)
(* fall between them.  Stamps are represented by their ages, as in         *)
(* ThrusterControl; here one unit is a coarse fraction of the 200 ms       *)
(* timeout.  micros() has 32 bits and the stamp of a pulse is never        *)
(* cleared: AgeMax + 1 units stand for the 71.6 minutes after which the    *)
(* age of the last pulse is small again.                                   *)
(***************************************************************************)
EXTENDS Integers, FiniteSetsExt

CONSTANTS
    Widths,          \* pulse widths the receiver may emit
    RC_FAILSAFE_MS,  \* also RC_SIGNAL_TIMEOUT_US, in the unit of the ages
    AgeMax,          \* the greatest age micros() can tell
    GearModes        \* values of ENABLE_GEAR_MODE, a constant of the build

\* What the constants must satisfy.
RcAssumption ==
    /\ Widths \subseteq Nat
    /\ RC_FAILSAFE_MS \in Nat \ {0}
    /\ AgeMax \in Nat /\ 2 * RC_FAILSAFE_MS + 2 < AgeMax
    /\ GearModes \subseteq BOOLEAN

VARIABLES
    gearMode,         \* ENABLE_GEAR_MODE of this build; never changes
    pc,               \* "clock": about to read the clocks; "capture": after
    sampleAge,        \* age of the clocks read by this call
    pulse,            \* rPulseMicros
    captured,         \* rPulseCapturedAtUs > 0
    captureAge,       \* age of rPulseCapturedAtUs, modulo AgeMax + 1
    updateAge,        \* age of lastRcUpdateR, LONG_AGO when it is greater
    motionLatched,    \* rcMotionLatchedR
    offcenterFrames,  \* rcOffcenterFramesR
    rcAvg             \* rcAvgR; rcOutR always equals it between calls

vars == <<gearMode, pc, sampleAge, pulse, captured, captureAge, updateAge,
          motionLatched, offcenterFrames, rcAvg>>

capture == <<pulse, captured, captureAge>>
motion  == <<updateAge, motionLatched, offcenterFrames, rcAvg>>

-----------------------------------------------------------------------------
(* Constants of the code. *)

RX_VALID_MIN == 950
RX_VALID_MAX == 2000
EscMin == 1100   \* ESC_MIN, ESC_MID and ESC_MAX, which ThrusterControl scales
EscMid == 1500
EscMax == 1900
DEADBAND_US == 40
RC_EXIT_NEUTRAL_DEADBAND_US == 70
RC_RETURN_NEUTRAL_DEADBAND_US == 45
RC_OFFCENTER_CONFIRM_FRAMES == 2
RC_FILTER_ALPHA == 25
RC_MAX_STEP_US == 15
GEAR_VALUES == <<1100, 1200, 1300, 1400, 1500, 1600, 1700, 1800, 1900>>
GEAR_THRESHOLDS == <<1056, 1167, 1278, 1389, 1500, 1611, 1722, 1833>>

\* Past the failsafe time for every reading under way.
LONG_AGO == RC_FAILSAFE_MS + 2

Valid(w) == RX_VALID_MIN <= w /\ w <= RX_VALID_MAX
Distance(x, y) == IF x < y THEN y - x ELSE x - y
Constrain(x, lo, hi) == IF x < lo THEN lo ELSE IF x > hi THEN hi ELSE x

-----------------------------------------------------------------------------
(* The pipeline. *)

Mutant_MapToGear(w) ==
    LET above == {i \in 1 .. 8 : w < GEAR_THRESHOLDS[i]}
    IN  IF ~Valid(w) THEN EscMid
        ELSE IF above = {} THEN GEAR_VALUES[9]
        ELSE GEAR_VALUES[Min(above)]

\* The gear of a width: the value of the first threshold above it.
MapToGear(w) ==
    LET above == {i \in 1 .. 8 : w < GEAR_THRESHOLDS[i]}
    IN  IF ~Valid(w) \/ Distance(w, EscMid) <= DEADBAND_US THEN EscMid
        ELSE IF above = {} THEN GEAR_VALUES[9]
        ELSE GEAR_VALUES[Min(above)]

\* Arduino's map() from the receiver's range to the ESC range.
MapLinearToEsc(w) ==
    IF ~Valid(w) \/ Distance(w, EscMid) <= DEADBAND_US THEN EscMid
    ELSE Constrain(((w - RX_VALID_MIN) * (EscMax - EscMin))
                      \div (RX_VALID_MAX - RX_VALID_MIN) + EscMin,
                   EscMin, EscMax)

MapToEsc(w) == IF gearMode THEN MapToGear(w) ELSE MapLinearToEsc(w)

Shaped(latched, frames, out) ==
    [latched |-> latched, frames |-> frames, out |-> out]

Mutant_Hysteresis(w, latched, frames) ==
    LET offset == Distance(w, EscMid)
    IN  IF w = 0 THEN Shaped(FALSE, 0, 0)
        ELSE IF offset <= RC_EXIT_NEUTRAL_DEADBAND_US
             THEN Shaped(FALSE, 0, EscMid)
        ELSE IF frames + 1 < RC_OFFCENTER_CONFIRM_FRAMES
             THEN Shaped(FALSE, frames, EscMid)
        ELSE Shaped(TRUE, RC_OFFCENTER_CONFIRM_FRAMES, w)

\* applyRcNeutralHysteresis: motion starts after two off-center readings in a
\* row and ends when the stick is back near the center or the signal is lost.
Hysteresis(w, latched, frames) ==
    LET offset == Distance(w, EscMid)
    IN  IF w = 0 THEN Shaped(FALSE, 0, 0)
        ELSE IF latched /\ offset <= RC_RETURN_NEUTRAL_DEADBAND_US
             THEN Shaped(FALSE, 0, EscMid)
        ELSE IF latched THEN Shaped(TRUE, frames, w)
        ELSE IF offset <= RC_EXIT_NEUTRAL_DEADBAND_US
             THEN Shaped(FALSE, 0, EscMid)
        ELSE IF frames + 1 < RC_OFFCENTER_CONFIRM_FRAMES
             THEN Shaped(FALSE, frames + 1, EscMid)
        ELSE Shaped(TRUE, RC_OFFCENTER_CONFIRM_FRAMES, w)

Mutant_FilterStep(avg, out) ==
    LET filtered == (avg * (100 - RC_FILTER_ALPHA) + out * RC_FILTER_ALPHA) \div 75
    IN  avg + Constrain(filtered - avg, -RC_MAX_STEP_US, RC_MAX_STEP_US)

\* Low-pass filter, then ramp limit; integer division as in C++ (all operands
\* are positive).
FilterStep(avg, out) ==
    LET filtered == (avg * (100 - RC_FILTER_ALPHA) + out * RC_FILTER_ALPHA) \div 100
    IN  avg + Constrain(filtered - avg, -RC_MAX_STEP_US, RC_MAX_STEP_US)

-----------------------------------------------------------------------------

Init ==
    /\ gearMode \in GearModes
    /\ pc = "clock"
    /\ sampleAge = 0
    /\ pulse = 0
    /\ captured = FALSE
    /\ captureAge = AgeMax
    /\ updateAge = LONG_AGO
    /\ motionLatched = FALSE
    /\ offcenterFrames = 0
    /\ rcAvg = EscMid

\* Time passes; the two statements between the clocks and the critical
\* section take less than two units.  The stamp of the last update is in
\* milliseconds: its own wrap-around, after 49.7 days without a pulse, finds
\* the output at neutral already and leaves it there, so its age just stops.
Elapse ==
    /\ pc = "capture" => sampleAge = 0
    /\ sampleAge' = IF pc = "capture" THEN 1 ELSE 0
    /\ captureAge' = IF captureAge < AgeMax THEN captureAge + 1 ELSE 0
    /\ updateAge' = IF updateAge < LONG_AGO THEN updateAge + 1 ELSE LONG_AGO
    /\ UNCHANGED <<gearMode, pc, pulse, captured, motionLatched, offcenterFrames, rcAvg>>

OffCenter(w) == Distance(w, EscMid) > RC_EXIT_NEUTRAL_DEADBAND_US

\* A complete pulse: the interrupt of its falling edge stores the width and
\* the time, if the width is a valid one.
onRightChange(w) ==
    /\ Valid(w)
    /\ pulse' = w
    /\ captured' = TRUE
    /\ captureAge' = 0
    /\ UNCHANGED <<gearMode, pc, sampleAge, motion>>

\* readRcInputs, first statements: millis() and micros() are read.
ReadClocks ==
    /\ pc = "clock"
    /\ pc' = "capture"
    /\ sampleAge' = 0
    /\ UNCHANGED <<gearMode, capture, motion>>

Mutant_Fresh == captured /\ Valid(pulse)

\* nowUs - captureRUs <= timeout, unsigned: a pulse captured after the clocks
\* were read gives a huge difference.
Fresh ==
    /\ captured
    /\ sampleAge <= captureAge
    /\ captureAge - sampleAge <= RC_FAILSAFE_MS

\* The rest of readRcInputs, from the critical section on.
ReadCapture ==
    LET shaped == Hysteresis(IF Fresh THEN pulse ELSE 0,
                             motionLatched, offcenterFrames)
        silent == IF Fresh THEN 0 ELSE updateAge - sampleAge
    IN  /\ pc = "capture"
        /\ pc' = "clock"
        /\ sampleAge' = 0
        /\ motionLatched' = shaped.latched
        /\ offcenterFrames' = shaped.frames
        /\ updateAge' = IF Fresh THEN sampleAge ELSE updateAge
        /\ rcAvg' = IF silent > RC_FAILSAFE_MS THEN EscMid
                    ELSE FilterStep(rcAvg, MapToEsc(shaped.out))
        /\ UNCHANGED <<gearMode, pulse, captured, captureAge>>

Next ==
    \/ Elapse
    \/ \E w \in Widths : onRightChange(w)
    \/ ReadClocks
    \/ ReadCapture

Spec == Init /\ [][Next]_vars

\* The loop keeps calling readRcInputs.
FairSpec == Spec /\ WF_vars(ReadClocks) /\ WF_vars(ReadCapture)

-----------------------------------------------------------------------------
(* Properties. *)

TypeOK ==
    /\ gearMode \in GearModes
    /\ pc \in {"clock", "capture"}
    /\ sampleAge \in {0, 1}
    /\ pulse \in {0} \cup Widths
    /\ captured \in BOOLEAN
    /\ captureAge \in 0 .. AgeMax
    /\ updateAge \in 0 .. LONG_AGO
    /\ motionLatched \in BOOLEAN
    /\ offcenterFrames \in 0 .. RC_OFFCENTER_CONFIRM_FRAMES
    /\ rcAvg \in EscMin .. EscMax

\* A channel whose last pulse is older than twice the failsafe time, as
\* micros() tells it, is at neutral after the next reading: one timeout until
\* the pulse counts as stale, one more until the failsafe clears the filter.
\* As micros() tells it: a channel that stays silent can leave neutral again
\* for the two timeouts after each wrap-around, and at no other time.
SilentChannelIsNeutral ==
    [][ReadCapture /\ captureAge > 2 * RC_FAILSAFE_MS + sampleAge
         => rcAvg' = EscMid]_vars

\* Thrust grows only in the direction of a stick whose motion is confirmed:
\* readings of neutral, of lost signals, or one off-center reading only bring
\* the output back.
ThrustFollowsStick ==
    [][/\ rcAvg' > rcAvg /\ rcAvg' > EscMid => motionLatched' /\ pulse > EscMid
       /\ rcAvg' < rcAvg /\ rcAvg' < EscMid => motionLatched' /\ pulse < EscMid]_vars

\* A stick held at w while every reading finds it fresh.
HeldAt(w) == <>[](pulse = w) /\ <>[][ReadCapture => Fresh]_vars

\* A steady stick brings the output to its gear, up to the rounding of the
\* integer filter (three microseconds), whatever the earlier motion was.
SettlesNearGear ==
    \A w \in {x \in Widths : Valid(x) /\ OffCenter(x)} :
        HeldAt(w) => <>[](Distance(rcAvg, MapToEsc(w)) <= 3)

=============================================================================
