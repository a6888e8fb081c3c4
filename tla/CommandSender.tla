--------------------------- MODULE CommandSender --------------------------
(***************************************************************************)
(* The outgoing half of the ROS 2 node thruster_wifi_node.cpp over UDP:    *)
(* binding its sockets with exponential backoff (onTimer, attemptConnect), *)
(* turning each message of the topic thruster_cmd_pwm into a command       *)
(* packet unless the node believes that the thrusters are stopped already  *)
(* (handleCommand), the PINGs, and the stop command of the destructor.     *)
(* All callbacks run on the one thread of rclcpp::spin, so each is atomic. *)
(*                                                                         *)
(* What becomes of a packet is the business of ThrusterLink.               *)
(***************************************************************************)
EXTENDS Integers, FiniteSetsExt

CONSTANTS
    Commands,               \* payloads of thruster_cmd_pwm
    STOP,                   \* the one with both sides at 1500
    NONE,                   \* last_sent_valid_ is false
    RECONNECT_DELAY, MAX_RECONNECT_DELAY, BACKOFF_EXPONENT_MAX,
    STOP_SUPPRESSION        \* stop_command_suppression_

\* What the constants must satisfy.
SenderAssumption ==
    /\ STOP \in Commands /\ NONE \notin Commands
    /\ RECONNECT_DELAY \in Nat \ {0} /\ BACKOFF_EXPONENT_MAX \in Nat
    /\ MAX_RECONNECT_DELAY \in Nat /\ MAX_RECONNECT_DELAY >= RECONNECT_DELAY
    /\ STOP_SUPPRESSION \in Nat

VARIABLES
    up,             \* the node's process runs
    bound,          \* client_.isConnected()
    failures,       \* consecutive_failures_, as far as the backoff counts it
    retryIn,        \* time until next_reconnect_time_
    lastSent,       \* last_sent_left_pwm_, last_sent_right_pwm_, or NONE
    lastWasStop,    \* last_command_was_stop_
    stopAge         \* age of last_stop_command_time_

vars == <<up, bound, failures, retryIn, lastSent, lastWasStop, stopAge>>

TypeOK ==
    /\ up \in BOOLEAN /\ bound \in BOOLEAN
    /\ failures \in 0 .. BACKOFF_EXPONENT_MAX
    /\ retryIn \in 0 .. MAX_RECONNECT_DELAY
    /\ lastSent \in Commands \cup {NONE}
    /\ lastWasStop \in BOOLEAN
    /\ stopAge \in 0 .. STOP_SUPPRESSION

-----------------------------------------------------------------------------

\* What the constructor sets.
Init ==
    /\ up = TRUE
    /\ bound = FALSE
    /\ failures = 0
    /\ retryIn = 0
    /\ lastSent = NONE
    /\ lastWasStop = FALSE
    /\ stopAge = STOP_SUPPRESSION

BackoffDelay ==
    Min({RECONNECT_DELAY * 2 ^ failures, MAX_RECONNECT_DELAY})

Mutant_AttemptConnect ==
    /\ up /\ ~bound /\ retryIn = 0
    /\ retryIn' = BackoffDelay
    /\ \/ /\ bound' = TRUE
          /\ failures' = 0
          /\ lastSent' = NONE
          /\ lastWasStop' = FALSE
       \/ /\ failures' = failures + 1
          /\ UNCHANGED <<bound, lastSent, lastWasStop>>
    /\ UNCHANGED <<up, stopAge>>

\* onTimer without sockets, once the retry is due: the delay to the next
\* attempt comes from the failures before this one.
AttemptConnect ==
    /\ up /\ ~bound /\ retryIn = 0
    /\ retryIn' = BackoffDelay
    /\ \/ /\ bound' = TRUE
          /\ failures' = 0
          /\ lastSent' = NONE
          /\ lastWasStop' = FALSE
       \/ /\ failures' = Min({failures + 1, BACKOFF_EXPONENT_MAX})
          /\ UNCHANGED <<bound, lastSent, lastWasStop>>
    /\ UNCHANGED <<up, stopAge>>

\* handleCommand leaves a stop out: the last packet sent was a stop, or stops
\* have been sent for a while.
Suppressed(cmd) ==
    /\ cmd = STOP
    /\ lastSent = STOP \/ (lastWasStop /\ stopAge >= STOP_SUPPRESSION)

CommandDropped ==
    /\ up /\ ~bound
    /\ UNCHANGED vars

StopSuppressed(cmd) ==
    /\ up /\ bound
    /\ Suppressed(cmd)
    /\ UNCHANGED vars

CommandSent(cmd) ==
    /\ up /\ bound
    /\ ~Suppressed(cmd)
    /\ lastSent' = cmd
    /\ lastWasStop' = (cmd = STOP)
    /\ stopAge' = IF cmd = STOP THEN 0 ELSE stopAge
    /\ UNCHANGED <<up, bound, failures, retryIn>>

Mutant_SendFailed(cmd) ==
    /\ up /\ bound
    /\ ~Suppressed(cmd)
    /\ lastSent' = cmd
    /\ lastWasStop' = (cmd = STOP)
    /\ retryIn' = 0
    /\ UNCHANGED <<up, bound, failures, stopAge>>

\* sendto() failed: the tracking is invalidated and a reconnect scheduled,
\* which never comes about because the sockets stay open.
SendFailed(cmd) ==
    /\ up /\ bound
    /\ ~Suppressed(cmd)
    /\ lastSent' = NONE
    /\ lastWasStop' = FALSE
    /\ retryIn' = 0
    /\ UNCHANGED <<up, bound, failures, stopAge>>

PingSent ==
    /\ up /\ bound
    /\ UNCHANGED vars

\* The process ends.  Its destructor, if it still runs, sends a stop first.
Ends ==
    /\ up
    /\ up' = FALSE /\ bound' = FALSE
    /\ UNCHANGED <<failures, retryIn, lastSent, lastWasStop, stopAge>>

\* The process is started again.
Starts ==
    /\ ~up
    /\ up' = TRUE
    /\ failures' = 0
    /\ retryIn' = 0
    /\ lastSent' = NONE
    /\ lastWasStop' = FALSE
    /\ stopAge' = STOP_SUPPRESSION
    /\ UNCHANGED bound

Elapse ==
    /\ retryIn' = IF retryIn > 0 THEN retryIn - 1 ELSE 0
    /\ stopAge' = IF stopAge < STOP_SUPPRESSION THEN stopAge + 1 ELSE stopAge
    /\ UNCHANGED <<up, bound, failures, lastSent, lastWasStop>>
=============================================================================
