-------------------------- MODULE RcChannelProofs --------------------------
(***************************************************************************)
(* Theorems about RcChannel, for every set of pulse widths, every failsafe *)
(* time, every period of micros() and both builds: a silent channel        *)
(* returns to neutral in time, also after a wrap-around has revived its    *)
(* last pulse, the output moves away from neutral only with the stick, and *)
(* every reading brings it nearer to where the stick stands.               *)
(***************************************************************************)
EXTENDS MCFirmware, TLAPS

\* A channel was updated at most a timeout after the pulse that updated it.
UpdatedInTime == updateAge = Rc!LONG_AGO \/ captureAge <= updateAge + RC_FAILSAFE_MS

IInv == Rc!TypeOK /\ UpdatedInTime

-----------------------------------------------------------------------------
(* The pipeline. *)

\* The table of gears, as comparisons.
LEMMA GearTable ==
    ASSUME NEW w \in Nat, Rc!Valid(w), Rc!Distance(w, Rc!EscMid) > Rc!DEADBAND_US
    PROVE  Rc!MapToGear(w) =
             IF w < 1056 THEN 1100 ELSE IF w < 1167 THEN 1200
             ELSE IF w < 1278 THEN 1300 ELSE IF w < 1389 THEN 1400
             ELSE IF w < 1500 THEN 1500 ELSE IF w < 1611 THEN 1600
             ELSE IF w < 1722 THEN 1700 ELSE IF w < 1833 THEN 1800 ELSE 1900
<1> DEFINE above == {i \in 1 .. 8 : w < Rc!GEAR_THRESHOLDS[i]}
           least == IF w < 1056 THEN 1 ELSE IF w < 1167 THEN 2
                    ELSE IF w < 1278 THEN 3 ELSE IF w < 1389 THEN 4
                    ELSE IF w < 1500 THEN 5 ELSE IF w < 1611 THEN 6
                    ELSE IF w < 1722 THEN 7 ELSE 8
<1>1. Rc!MapToGear(w) = IF above = {} THEN Rc!GEAR_VALUES[9] ELSE Rc!GEAR_VALUES[Rc!Min(above)]
  BY DEF Rc!MapToGear, Rc!DEADBAND_US, Rc!Distance, Rc!EscMid
<1>2. CASE w >= 1833
  <2>1. above = {}
    BY <1>2 DEF Rc!GEAR_THRESHOLDS
  <2>2. QED
    BY <1>1, <1>2, <2>1 DEF Rc!GEAR_VALUES
<1>3. CASE w < 1833
  <2>1. least \in above /\ \A i \in above : least <= i
    BY <1>3 DEF Rc!GEAR_THRESHOLDS
  <2>2. Rc!Min(above) = least
    BY <2>1 DEF Rc!Min
  <2>3. QED
    BY <1>1, <1>3, <2>1, <2>2 DEF Rc!GEAR_VALUES
<1>4. QED
  BY <1>2, <1>3

\* Either build maps a stick to its own side of neutral.
LEMMA MapSides ==
    ASSUME Rc!TypeOK, NEW w \in Nat
    PROVE  /\ Rc!MapToEsc(w) \in Rc!EscMin .. Rc!EscMax
           /\ ~Rc!Valid(w) \/ w = Rc!EscMid => Rc!MapToEsc(w) = Rc!EscMid
           /\ w >= Rc!EscMid => Rc!MapToEsc(w) >= Rc!EscMid \/ ~Rc!Valid(w)
           /\ w <= Rc!EscMid => Rc!MapToEsc(w) <= Rc!EscMid
<1> USE DEF Rc!EscMin, Rc!EscMid, Rc!EscMax, Rc!RX_VALID_MIN, Rc!RX_VALID_MAX, Rc!Valid,
            Rc!Distance, Rc!DEADBAND_US
<1>1. CASE ~Rc!Valid(w) \/ Rc!Distance(w, Rc!EscMid) <= Rc!DEADBAND_US
  BY <1>1 DEF Rc!MapToEsc, Rc!MapToGear, Rc!MapLinearToEsc
<1>2. CASE Rc!Valid(w) /\ Rc!Distance(w, Rc!EscMid) > Rc!DEADBAND_US /\ gearMode
  BY <1>2, GearTable DEF Rc!MapToEsc
<1>3. CASE Rc!Valid(w) /\ Rc!Distance(w, Rc!EscMid) > Rc!DEADBAND_US /\ ~gearMode
  BY <1>3 DEF Rc!MapToEsc, Rc!MapLinearToEsc, Rc!Constrain
<1>4. QED
  BY <1>1, <1>2, <1>3

\* The filter moves towards its target and never past it.
LEMMA FilterBetween ==
    ASSUME NEW avg \in Rc!EscMin .. Rc!EscMax, NEW out \in Rc!EscMin .. Rc!EscMax
    PROVE  /\ Rc!FilterStep(avg, out) \in Rc!EscMin .. Rc!EscMax
           /\ out >= avg => Rc!FilterStep(avg, out) \in avg .. out
           /\ out <= avg => Rc!FilterStep(avg, out) \in out .. avg
BY DEF Rc!FilterStep, Rc!Constrain, Rc!RC_FILTER_ALPHA, Rc!RC_MAX_STEP_US, Rc!EscMin, Rc!EscMax

\* Each step of the filter comes nearer to its target, until the rounding of the
\* integer division holds it at most three microseconds away.
LEMMA FilterApproaches ==
    ASSUME NEW avg \in Rc!EscMin .. Rc!EscMax, NEW out \in Rc!EscMin .. Rc!EscMax
    PROVE  \/ Rc!Distance(Rc!FilterStep(avg, out), out) < Rc!Distance(avg, out)
           \/ Rc!Distance(Rc!FilterStep(avg, out), out) <= 3
BY DEF Rc!FilterStep, Rc!Constrain, Rc!Distance, Rc!RC_FILTER_ALPHA, Rc!RC_MAX_STEP_US,
       Rc!EscMin, Rc!EscMax

\* Motion that is not confirmed asks for neutral or nothing; confirmed motion
\* asks for the width itself.
LEMMA ShapedOutput ==
    ASSUME NEW w \in Nat, NEW latched \in BOOLEAN,
           NEW frames \in 0 .. Rc!RC_OFFCENTER_CONFIRM_FRAMES
    PROVE  LET s == Rc!Hysteresis(w, latched, frames) IN
           /\ s.latched \in BOOLEAN
           /\ s.frames \in 0 .. Rc!RC_OFFCENTER_CONFIRM_FRAMES
           /\ s.latched => s.out = w
           /\ ~s.latched => s.out \in {0, Rc!EscMid}
BY DEF Rc!Hysteresis, Rc!Shaped, Rc!RC_OFFCENTER_CONFIRM_FRAMES, Rc!Distance, Rc!EscMid,
       Rc!RC_EXIT_NEUTRAL_DEADBAND_US, Rc!RC_RETURN_NEUTRAL_DEADBAND_US

\* What a reading makes of the channel.
LEMMA ReadingOutput ==
    ASSUME Rc!TypeOK, Rc!ReadCapture
    PROVE  /\ motionLatched' \in BOOLEAN
           /\ offcenterFrames' \in 0 .. Rc!RC_OFFCENTER_CONFIRM_FRAMES
           /\ rcAvg' \in Rc!EscMin .. Rc!EscMax
           /\ rcAvg' > rcAvg /\ rcAvg' > Rc!EscMid => motionLatched' /\ pulse > Rc!EscMid
           /\ rcAvg' < rcAvg /\ rcAvg' < Rc!EscMid => motionLatched' /\ pulse < Rc!EscMid
<1> DEFINE w == IF Rc!Fresh THEN pulse ELSE 0
           shaped == Rc!Hysteresis(w, motionLatched, offcenterFrames)
           goal == Rc!MapToEsc(shaped.out)
<1>1. w \in Nat /\ pulse \in Nat /\ rcAvg \in Rc!EscMin .. Rc!EscMax
  BY RcConstants DEF Rc!RcAssumption, Rc!TypeOK
<1>2. /\ shaped.latched \in BOOLEAN
      /\ shaped.frames \in 0 .. Rc!RC_OFFCENTER_CONFIRM_FRAMES
      /\ shaped.latched => shaped.out = w
      /\ ~shaped.latched => shaped.out \in {0, Rc!EscMid}
  BY <1>1, ShapedOutput DEF Rc!TypeOK
<1>3. /\ motionLatched' = shaped.latched
      /\ offcenterFrames' = shaped.frames
      /\ rcAvg' = Rc!EscMid \/ rcAvg' = Rc!FilterStep(rcAvg, goal)
  BY DEF Rc!ReadCapture
<1>4. shaped.out \in Nat
  BY <1>1, <1>2 DEF Rc!EscMid
<1>5. /\ goal \in Rc!EscMin .. Rc!EscMax
      /\ ~shaped.latched => goal = Rc!EscMid
      /\ w <= Rc!EscMid => goal <= Rc!EscMid
      /\ w >= Rc!EscMid => goal >= Rc!EscMid
  BY <1>1, <1>2, <1>4, MapSides DEF Rc!EscMid, Rc!Valid, Rc!RX_VALID_MIN
<1>6. ~shaped.latched \/ w = pulse \/ w = 0
  OBVIOUS
<1>7. ~Rc!Fresh => ~shaped.latched
  BY DEF Rc!Hysteresis, Rc!Shaped
<1>8. CASE rcAvg' = Rc!EscMid
  BY <1>2, <1>3, <1>8 DEF Rc!EscMin, Rc!EscMid, Rc!EscMax
<1>9. CASE rcAvg' = Rc!FilterStep(rcAvg, goal)
  <2> HIDE DEF shaped, goal
  <2>1. /\ rcAvg' \in Rc!EscMin .. Rc!EscMax
        /\ goal >= rcAvg => rcAvg' \in rcAvg .. goal
        /\ goal <= rcAvg => rcAvg' \in goal .. rcAvg
    BY <1>1, <1>5, <1>9, FilterBetween
  <2>2. ~motionLatched' => goal = Rc!EscMid
    BY <1>3, <1>5
  <2>3. motionLatched' => w = pulse
    BY <1>3, <1>7
  <2> HIDE DEF w
  <2>4. w <= Rc!EscMid => goal <= Rc!EscMid
    BY <1>5
  <2>5. w >= Rc!EscMid => goal >= Rc!EscMid
    BY <1>5
  <2>6. w \in Nat /\ rcAvg \in Rc!EscMin .. Rc!EscMax /\ goal \in Rc!EscMin .. Rc!EscMax
    BY <1>1, <1>5
  <2>7. rcAvg' > rcAvg /\ rcAvg' > Rc!EscMid => motionLatched' /\ pulse > Rc!EscMid
    BY <2>1, <2>2, <2>3, <2>4, <2>6 DEF Rc!EscMin, Rc!EscMid, Rc!EscMax
  <2>8. rcAvg' < rcAvg /\ rcAvg' < Rc!EscMid => motionLatched' /\ pulse < Rc!EscMid
    BY <2>1, <2>2, <2>3, <2>5, <2>6 DEF Rc!EscMin, Rc!EscMid, Rc!EscMax
  <2>9. QED
    BY <1>2, <1>3, <2>1, <2>7, <2>8
<1>10. QED
  BY <1>3, <1>8, <1>9

-----------------------------------------------------------------------------
(* The theorems. *)

\* The invariant holds at power-on.
LEMMA IInvInit == MCInit => IInv
<1> SUFFICES ASSUME Rc!Init PROVE IInv
  BY DEF MCInit
<1>1. Rc!TypeOK
  <2>1. RcAgeMax \in 0 .. RcAgeMax /\ Rc!LONG_AGO \in 0 .. Rc!LONG_AGO
    BY RcConstants DEF Rc!RcAssumption, Rc!LONG_AGO
  <2>2. /\ Rc!EscMid \in Rc!EscMin .. Rc!EscMax
        /\ 0 \in 0 .. Rc!RC_OFFCENTER_CONFIRM_FRAMES
    BY DEF Rc!EscMin, Rc!EscMid, Rc!EscMax, Rc!RC_OFFCENTER_CONFIRM_FRAMES
  <2>3. QED
    BY <2>1, <2>2 DEF Rc!Init, Rc!TypeOK
<1>2. UpdatedInTime
  BY DEF Rc!Init, UpdatedInTime
<1>3. QED
  BY <1>1, <1>2 DEF IInv

\* Every step keeps the invariant.
LEMMA IInvStep ==
    ASSUME IInv, [Rc!Next]_Rc!vars
    PROVE  IInv'
<1> USE RcConstants DEF Rc!RcAssumption, IInv
<1>1. CASE Rc!Elapse
  BY <1>1 DEF Rc!Elapse, Rc!TypeOK, UpdatedInTime, Rc!LONG_AGO
<1>2. ASSUME NEW w \in Widths, Rc!onRightChange(w) PROVE IInv'
  BY <1>2 DEF Rc!onRightChange, Rc!motion, Rc!TypeOK, UpdatedInTime
<1>3. CASE Rc!ReadClocks
  BY <1>3 DEF Rc!ReadClocks, Rc!capture, Rc!motion, Rc!TypeOK, UpdatedInTime
<1>4. CASE Rc!ReadCapture
  <2>1. /\ UNCHANGED <<gearMode, pulse, captured, captureAge>>
        /\ rcPc' = "clock" /\ sampleAge' = 0
        /\ updateAge' = IF Rc!Fresh THEN sampleAge ELSE updateAge
    BY <1>4 DEF Rc!ReadCapture
  <2>2. updateAge' \in 0 .. Rc!LONG_AGO /\ UpdatedInTime'
    BY <2>1 DEF Rc!TypeOK, UpdatedInTime, Rc!Fresh, Rc!LONG_AGO
  <2>3. QED
    BY <1>4, <2>1, <2>2, ReadingOutput DEF Rc!TypeOK
<1>5. CASE UNCHANGED Rc!vars
  BY <1>5 DEF Rc!vars, Rc!TypeOK, UpdatedInTime
<1>6. QED
  BY <1>1, <1>2, <1>3, <1>4, <1>5 DEF Rc!Next

\* And so does every step of the firmware.
LEMMA RcInvariant ==
    /\ MCSpec => []IInv
    /\ MCSpec => [][Rc!Next]_Rc!vars
<1>1. [MCNext]_<<part, vars, wifiVars, rcVars>> => [Rc!Next]_Rc!vars
  BY DEF MCNext, rcVars, Rc!vars
<1>2. IInv /\ [Rc!Next]_Rc!vars => IInv'
  BY IInvStep
<1>3. QED
  BY <1>1, <1>2, IInvInit, PTL DEF MCSpec

\* Every variable keeps its type: the filtered pulse stays in the ESC range.
THEOREM TypeCorrect == MCSpec => []RcTypeOK
<1>1. IInv => RcTypeOK
  BY DEF IInv, RcTypeOK
<1>2. QED
  BY <1>1, RcInvariant, PTL

\* A channel whose last pulse is, as the wrapping clock tells it, older than
\* twice the failsafe time is neutral after its next reading, wherever the
\* interrupt fell between readings and however often micros() wrapped before.
THEOREM SilentChannelIsNeutralAlways == MCSpec => SilentChannelIsNeutral
<1> DEFINE Silent == Rc!ReadCapture /\ captureAge > 2 * RC_FAILSAFE_MS + sampleAge
<1>1. ASSUME IInv, Silent PROVE rcAvg' = Rc!EscMid
  <2>1. updateAge - sampleAge > RC_FAILSAFE_MS /\ ~Rc!Fresh
    BY <1>1, RcConstants
       DEF Rc!RcAssumption, IInv, Rc!TypeOK, UpdatedInTime, Rc!Fresh, Rc!LONG_AGO
  <2>2. QED
    BY <1>1, <2>1 DEF Rc!ReadCapture
<1>2. IInv /\ [Rc!Next]_Rc!vars => [Silent => rcAvg' = Rc!EscMid]_Rc!vars
  BY <1>1
<1>3. QED
  BY <1>2, RcInvariant, PTL DEF SilentChannelIsNeutral, Rc!SilentChannelIsNeutral

\* The output moves away from neutral only on the side of a confirmed stick.
THEOREM ThrustFollowsStickAlways == MCSpec => ThrustFollowsStick
<1> DEFINE Follows ==
      /\ rcAvg' > rcAvg /\ rcAvg' > Rc!EscMid => motionLatched' /\ pulse > Rc!EscMid
      /\ rcAvg' < rcAvg /\ rcAvg' < Rc!EscMid => motionLatched' /\ pulse < Rc!EscMid
<1>1. ASSUME IInv, Rc!Next PROVE Follows
  <2>1. CASE Rc!ReadCapture
    BY <1>1, <2>1, ReadingOutput DEF IInv
  <2>2. CASE ~Rc!ReadCapture
    <3>1. rcAvg' = rcAvg
      BY <1>1, <2>2 DEF Rc!Next, Rc!Elapse, Rc!onRightChange, Rc!ReadClocks, Rc!motion
    <3>2. QED
      BY <1>1, <3>1 DEF IInv, Rc!TypeOK, Rc!EscMin, Rc!EscMax
  <2>3. QED
    BY <2>1, <2>2
<1>2. IInv /\ [Rc!Next]_Rc!vars => [Follows]_Rc!vars
  BY <1>1
<1>3. QED
  BY <1>2, RcInvariant, PTL DEF ThrustFollowsStick, Rc!ThrustFollowsStick

\* The output a reading works towards: the gear of a confirmed stick, neutral
\* when the motion is not confirmed or the signal is lost.
Target == IF motionLatched' THEN Rc!MapToEsc(pulse) ELSE Rc!EscMid

\* Every reading brings the output nearer to its target and never past it; it
\* rests only within the rounding of the filter.  This is why a stick that is
\* held settles near its gear (SettlesNearGear) and why one that is released, or
\* lost, is followed by a return to neutral without a swing to the other side.
ApproachesTarget ==
    [][Rc!ReadCapture =>
         /\ \/ Rc!Distance(rcAvg', Target) < Rc!Distance(rcAvg, Target)
            \/ Rc!Distance(rcAvg', Target) <= 3
         /\ rcAvg <= Target => rcAvg <= rcAvg' /\ rcAvg' <= Target
         /\ rcAvg >= Target => rcAvg >= rcAvg' /\ rcAvg' >= Target]_Rc!vars

\* ApproachesTarget holds for both builds, every receiver and every timeout.
THEOREM ApproachesTargetAlways == MCSpec => ApproachesTarget
<1> DEFINE Approaches ==
      /\ \/ Rc!Distance(rcAvg', Target) < Rc!Distance(rcAvg, Target)
         \/ Rc!Distance(rcAvg', Target) <= 3
      /\ rcAvg <= Target => rcAvg <= rcAvg' /\ rcAvg' <= Target
      /\ rcAvg >= Target => rcAvg >= rcAvg' /\ rcAvg' >= Target
<1>1. ASSUME IInv, Rc!ReadCapture PROVE Approaches
  <2> DEFINE w == IF Rc!Fresh THEN pulse ELSE 0
             shaped == Rc!Hysteresis(w, motionLatched, offcenterFrames)
             silent == IF Rc!Fresh THEN 0 ELSE updateAge - sampleAge
  <2>1. /\ w \in Nat /\ pulse \in Nat /\ rcAvg \in Rc!EscMin .. Rc!EscMax
        /\ motionLatched \in BOOLEAN
        /\ offcenterFrames \in 0 .. Rc!RC_OFFCENTER_CONFIRM_FRAMES
    BY <1>1, RcConstants DEF Rc!RcAssumption, IInv, Rc!TypeOK
  <2>2. /\ motionLatched' = shaped.latched
        /\ rcAvg' = IF silent > RC_FAILSAFE_MS THEN Rc!EscMid
                    ELSE Rc!FilterStep(rcAvg, Rc!MapToEsc(shaped.out))
    BY <1>1 DEF Rc!ReadCapture
  <2>3. /\ shaped.latched => shaped.out = w
        /\ ~shaped.latched => shaped.out \in {0, Rc!EscMid}
    BY <2>1, ShapedOutput
  <2>4. shaped.latched => Rc!Fresh
    BY DEF Rc!Hysteresis, Rc!Shaped
  <2>5. Rc!MapToEsc(shaped.out) = Target
    <3>1. CASE shaped.latched
      BY <2>2, <2>3, <2>4, <3>1 DEF Target
    <3>2. CASE ~shaped.latched
      <4>1. shaped.out \in Nat /\ (~Rc!Valid(shaped.out) \/ shaped.out = Rc!EscMid)
        BY <2>3, <3>2 DEF Rc!EscMid, Rc!Valid, Rc!RX_VALID_MIN
      <4>2. Rc!MapToEsc(shaped.out) = Rc!EscMid
        BY <1>1, <4>1, MapSides DEF IInv
      <4>3. QED
        BY <2>2, <3>2, <4>2 DEF Target
    <3>3. QED
      BY <3>1, <3>2
  <2>6. Target \in Rc!EscMin .. Rc!EscMax
    BY <1>1, <2>1, MapSides DEF IInv, Target, Rc!EscMin, Rc!EscMid, Rc!EscMax
  <2> HIDE DEF w, shaped
  <2>7. CASE silent > RC_FAILSAFE_MS
    <3>1. ~Rc!Fresh
      BY <2>7, RcConstants DEF Rc!RcAssumption
    <3>2. rcAvg' = Rc!EscMid /\ Target = Rc!EscMid
      BY <2>2, <2>4, <2>7, <3>1 DEF Target
    <3>3. QED
      BY <2>1, <3>2 DEF Rc!Distance, Rc!EscMin, Rc!EscMid, Rc!EscMax
  <2>8. CASE ~(silent > RC_FAILSAFE_MS)
    <3>1. rcAvg' = Rc!FilterStep(rcAvg, Target)
      BY <2>2, <2>5, <2>8
    <3> HIDE DEF silent
    <3>2. \/ Rc!Distance(Rc!FilterStep(rcAvg, Target), Target) < Rc!Distance(rcAvg, Target)
          \/ Rc!Distance(Rc!FilterStep(rcAvg, Target), Target) <= 3
      BY <2>1, <2>6, FilterApproaches
    <3>3. /\ Target >= rcAvg => rcAvg' \in rcAvg .. Target
          /\ Target <= rcAvg => rcAvg' \in Target .. rcAvg
      BY <2>1, <2>6, <3>1, FilterBetween
    <3>4. QED
      BY <2>1, <2>6, <3>1, <3>2, <3>3 DEF Rc!EscMin, Rc!EscMax
  <2>9. QED
    BY <2>7, <2>8
<1>2. IInv /\ [Rc!Next]_Rc!vars => [Rc!ReadCapture => Approaches]_Rc!vars
  BY <1>1
<1>3. QED
  BY <1>2, RcInvariant, PTL DEF ApproachesTarget

=============================================================================
