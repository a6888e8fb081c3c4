------------------------- MODULE ControlAuthority -------------------------
(***************************************************************************)
(* What the firmware promises about who drives the thrusters, without the  *)
(* stages of loop(), its packets and its outputs in waiting: the driver is *)
(* the RC receiver or the last command that came over WiFi.  ThrusterControl *)
(* implements it.                                                          *)
(*                                                                         *)
(* Between two decisions commands come in, the sticks are read and time    *)
(* passes; an age may lag behind time, since the implementation stops its  *)
(* ages at a bound.  A decision is one step, which has to justify what it  *)
(* does to the thrust, also when it leaves it as it is.                    *)
(***************************************************************************)
EXTENDS Integers

CONSTANTS
    Side,               \* the channels, one per thruster
    Pulse, Neutral,
    CommandLife,        \* a command drives for so long,
    GraceLife,          \* and slows down for so long after that
    LinkLife,           \* a silence of the Jetson, after which RC may drive
    StickLife,          \* a silence of a stick, after which it is neutral
    MaxSlew             \* the largest change of thrust by one decision

VARIABLES
    deciding,           \* the next step decides
    driver,             \* "rc" or "wifi"
    thrust,             \* the pulse of every thruster
    commanded,          \* a command is remembered
    commandAge,
    recent,             \* it came after the sticks were last read
    stick,              \* what every stick asks for
    silence             \* since when every stick has been silent

vars == <<deciding, driver, thrust, commanded, commandAge, recent, stick, silence>>

inputs == <<commanded, commandAge, recent, stick, silence>>

AtNeutral == [s \in Side |-> Neutral]

Init ==
    /\ ~deciding
    /\ driver = "rc"
    /\ thrust = AtNeutral
    /\ ~commanded /\ ~recent
    /\ stick = AtNeutral

-----------------------------------------------------------------------------
(* Between two decisions. *)

Tick ==
    /\ ~deciding
    /\ commandAge' \in {commandAge, commandAge + 1}
    /\ \A s \in Side : silence'[s] \in {silence[s], silence[s] + 1}
    /\ UNCHANGED <<deciding, driver, thrust, commanded, recent, stick>>

Command ==
    /\ ~deciding
    /\ commanded' /\ recent'
    /\ commandAge' = 0
    /\ UNCHANGED <<deciding, driver, thrust, stick, silence>>

\* A stick that has been silent for too long is taken to be at neutral.
ReadSticks ==
    /\ ~deciding
    /\ \A s \in Side :
         /\ silence'[s] \in {silence[s], 0}
         /\ stick'[s] # Neutral => silence'[s] <= StickLife
    /\ recent' => recent
    /\ UNCHANGED <<deciding, driver, thrust, commanded, commandAge>>

InputsRead ==
    /\ ~deciding /\ deciding'
    /\ UNCHANGED <<driver, thrust, inputs>>

-----------------------------------------------------------------------------
(* The decision. *)

Near(x, y, d) == x - y <= d /\ y - x <= d

TowardNeutral(p, q) ==
    \/ Neutral <= q /\ q <= p
    \/ p <= q /\ q <= Neutral

\* A recent command takes over, or goes on, at a limited rate.
FollowCommand ==
    /\ commanded /\ recent /\ commandAge <= CommandLife + GraceLife
    /\ driver' = "wifi"
    /\ thrust' \in [Side -> Pulse]
    /\ driver = "wifi" => \A s \in Side : Near(thrust'[s], thrust[s], MaxSlew)
    /\ UNCHANGED inputs

\* A command that is not recent cannot take over; it keeps the thrust, ...
KeepThrust ==
    /\ commanded /\ commandAge < CommandLife
    /\ driver = "wifi"
    /\ UNCHANGED <<driver, thrust, inputs>>

\* ... and then brings it nearer to neutral.
SlowDown ==
    /\ commanded /\ commandAge \in CommandLife .. CommandLife + GraceLife
    /\ driver = "wifi"
    /\ thrust' \in [Side -> Pulse]
    /\ \A s \in Side : /\ TowardNeutral(thrust[s], thrust'[s])
                       /\ Near(thrust'[s], thrust[s], MaxSlew)
    /\ UNCHANGED <<driver, inputs>>

\* The sticks drive only when there is no command, the command is over, or
\* its sender has been silent, and then it may be forgotten.
FollowSticks ==
    /\ commanded => \/ commandAge > CommandLife + GraceLife
                    \/ commandAge >= LinkLife
    /\ driver' = "rc"
    /\ thrust' \in [Side -> Pulse]
    /\ \A s \in Side : thrust'[s] \in {stick[s], Neutral}
    /\ commanded' => commanded
    /\ UNCHANGED <<commandAge, recent, stick, silence>>

Decide ==
    /\ deciding /\ ~deciding'
    /\ FollowCommand \/ KeepThrust \/ SlowDown \/ FollowSticks

Next == Tick \/ Command \/ ReadSticks \/ InputsRead \/ Decide

Spec == Init /\ [][Next]_vars
=============================================================================
