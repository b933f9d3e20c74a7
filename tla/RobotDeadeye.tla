---------------------------- MODULE RobotDeadeye ----------------------------
(***************************************************************************)
(* The robot's side of the vision link: subsystem::Deadeye, whose thread   *)
(* writes what the last report said into fields that the commands read     *)
(* under the same mutex, and the commands that choose the camera.          *)
(*                                                                         *)
(* The fields keep no record of the camera they came from, and one report  *)
(* writes only two of the three error fields.                              *)
(***************************************************************************)
EXTENDS Coprocessor

VARIABLES
  has_target_,
  azimuth_error_,
  centerline_error_,  \* of boiler solutions
  target_height_      \* of gear solutions

fields == <<has_target_, azimuth_error_, centerline_error_, target_height_>>

\* The error fields have no initial value in the code.
Unset == [camera |-> "none"]
ErrorValues == Sightings \cup {Unset}

RobotTypeOK ==
  /\ has_target_ \in BOOLEAN
  /\ azimuth_error_ \in ErrorValues
  /\ centerline_error_ \in ErrorValues
  /\ target_height_ \in ErrorValues

RobotInit ==
  /\ has_target_ = FALSE
  /\ azimuth_error_ = Unset
  /\ centerline_error_ = Unset
  /\ target_height_ = Unset

\* Mutant: a report without a target leaves has_target_ as it is.
UpdateKeepsTarget(m) ==
  /\ has_target_' = (has_target_ \/ m.type \in Cameras)
  /\ azimuth_error_' = IF m.type \in Cameras THEN m.azimuth ELSE azimuth_error_
  /\ centerline_error_' = IF m.type = "boiler" THEN m.second
                                               ELSE centerline_error_
  /\ target_height_' = IF m.type = "gear" THEN m.second ELSE target_height_

\* Mutant: the two cases of a solution write the same second field.
UpdateOneField(m) ==
  /\ has_target_' = (m.type \in Cameras)
  /\ azimuth_error_' = IF m.type \in Cameras THEN m.azimuth ELSE azimuth_error_
  /\ centerline_error_' = IF m.type \in Cameras THEN m.second
                                                ELSE centerline_error_
  /\ UNCHANGED target_height_

\* The switch of Deadeye::Run, one critical section.  Its case of a hardware
\* error, which changes no field, is for a message that no coprocessor sends.
Update(m) ==
  /\ has_target_' = (m.type \in Cameras)
  /\ azimuth_error_' = IF m.type \in Cameras THEN m.azimuth ELSE azimuth_error_
  /\ centerline_error_' = IF m.type = "boiler" THEN m.second
                                               ELSE centerline_error_
  /\ target_height_' = IF m.type = "gear" THEN m.second ELSE target_height_

RobotReceives(m) ==
  /\ TakeAtRobot(m)
  /\ Update(m)
  /\ UNCHANGED <<coprocessor, toDeadeye>>

\* EnableBoilerCamera and EnableGearCamera: one datagram, no answer awaited.
EnableCamera(camera) ==
  /\ SendToDeadeye(camera)
  /\ UNCHANGED <<coprocessor, fields, toRobot>>

=============================================================================
