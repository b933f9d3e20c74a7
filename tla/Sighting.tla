------------------------------ MODULE Sighting ------------------------------
(***************************************************************************)
(* What the vision system promises the commands of the robot: the target   *)
(* they aim at is one a camera has found.  Nothing is promised about how   *)
(* old the sighting is or in which order sightings come.                   *)
(***************************************************************************)
CONSTANTS
  Targets,   \* the sightings there may be
  NoTarget

VARIABLES
  seen,      \* the targets the cameras have found so far
  aim        \* the target the robot aims at, or NoTarget

Init == seen = {} /\ aim = NoTarget

See(s) == seen' = seen \cup {s} /\ UNCHANGED aim

Aim(s) == s \in seen /\ aim' = s /\ UNCHANGED seen

LoseTarget == aim' = NoTarget /\ UNCHANGED seen

Next ==
  \/ \E s \in Targets : See(s) \/ Aim(s)
  \/ LoseTarget

Spec == Init /\ [][Next]_<<seen, aim>>
=============================================================================
