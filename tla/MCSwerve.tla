------------------------------- MODULE MCSwerve -------------------------------
(***************************************************************************)
(* Instances of HealthCheck for TLC: driving, driving and turning at once, *)
(* and a motion in the dead zone; a shooter wheel that turns either way;   *)
(* azimuths that have turned on either way since their Talon's report.     *)
(***************************************************************************)
EXTENDS HealthCheck

MotionsAsked ==
  {[fwd |-> 100, str |-> 0, rcw |-> 0], [fwd |-> -50, str |-> 0, rcw |-> 100],
   [fwd |-> 0, str |-> 5, rcw |-> 0]}

SpeedsMeasured == {7, -1}

LagsReported == {8, -8}
=============================================================================
