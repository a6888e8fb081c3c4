------------------------ MODULE MCThrusterControl ------------------------
(* Instances of ThrusterControl for TLC.  Pulses are scaled to 0 .. 8 with *)
(* neutral 4; a timeout of 2 units, a grace of 1.                          *)
EXTENDS ThrusterControl

OneSide  == {"L"}
TwoSides == {"L", "R"}
=============================================================================
