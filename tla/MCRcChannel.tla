--------------------------- MODULE MCRcChannel ----------------------------
(***************************************************************************)
(* RcChannel for TLC, with one more thing remembered: whether a pulse has  *)
(* come that no reading has seen yet.                                      *)
(***************************************************************************)
EXTENDS RcChannel

VARIABLE newPulse

MCInit == Init /\ newPulse = FALSE

\* A pulse that came after a reading's clocks is seen by the next reading.
MCNext ==
    \/ \E w \in Widths : onRightChange(w) /\ newPulse' = TRUE
    \/ ReadCapture /\ newPulse' = (newPulse /\ captureAge < sampleAge)
    \/ (Elapse \/ ReadClocks) /\ UNCHANGED newPulse

MCSpec == MCInit /\ [][MCNext]_<<vars, newPulse>>

\* A channel that no reading has found fresh for longer than the failsafe time
\* stays stale until a new pulse comes.  This is what readRcInputs says of
\* itself: "stale widths must not keep RC alive forever".
StaleStaysStale ==
    [][ReadCapture /\ ~newPulse /\ updateAge > RC_FAILSAFE_MS + sampleAge
         => ~Fresh]_<<vars, newPulse>>
=============================================================================
