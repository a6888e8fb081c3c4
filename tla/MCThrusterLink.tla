-------------------------- MODULE MCThrusterLink --------------------------
(* ThrusterLink for TLC: one ESC channel, one unit is a second. *)
EXTENDS ThrusterLink

OneSide == {"L"}
=============================================================================
