-------------------------------- MODULE MCWheel --------------------------------
(***************************************************************************)
(* An instance of ShooterWheel for TLC: the wheel at rest, about the size  *)
(* of a step, at the speeds of the shots, and turning back a little.       *)
(***************************************************************************)
EXTENDS ShooterWheel

SpeedsMeasured == {-1, 0, 3, 6, 47, 440, 905}
=============================================================================
