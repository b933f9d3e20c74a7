------------------------------- MODULE Vision -------------------------------
(***************************************************************************)
(* The vision system: the coprocessor and the robot's Deadeye subsystem    *)
(* over an unreliable link.  Commands (EnableCamera in StartShooting and   *)
(* the autonomous sequences) may ask for a camera at any time.             *)
(***************************************************************************)
EXTENDS RobotDeadeye

network == <<toRobot, toDeadeye>>
vars == <<coprocessor, fields, network>>

TypeOK ==
  /\ CoprocessorTypeOK
  /\ RobotTypeOK
  /\ toRobot \subseteq Reports
  /\ toDeadeye \subseteq Cameras

Init == UdpInit /\ CoprocessorInit /\ RobotInit

CoprocessorRuns == MainLoop /\ UNCHANGED fields

Delivered ==
  \/ \E m \in toRobot : RobotReceives(m)
  \/ \E m \in toDeadeye : LinkReceives(m) /\ UNCHANGED fields

Lost ==
  /\ \/ \E m \in toRobot : LoseReport(m)
     \/ \E m \in toDeadeye : LoseCommand(m)
  /\ UNCHANGED <<coprocessor, fields>>

CoprocessorReboots == Reboot /\ UNCHANGED fields

Next ==
  \/ \E camera \in Cameras : EnableCamera(camera)
  \/ CoprocessorRuns
  \/ Delivered
  \/ Lost
  \/ CoprocessorReboots

Spec == Init /\ [][Next]_vars

\* While targets of a camera are on their way to the robot, time and again one
\* of them and its duplicates have all arrived or are lost.
Expires(camera) == \E m \in toRobot :
  /\ m.type = camera
  /\ toRobot' = toRobot \ {m}
  /\ Update(m) \/ UNCHANGED fields
  /\ UNCHANGED <<coprocessor, toDeadeye>>

\* The coprocessor's main loop never blocks, and not every report it goes on
\* sending is lost.  No fairness for a camera command: it is sent once.
RobotReceivesAgain == \E m \in toRobot : RobotReceives(m)
FairSpec ==
  /\ Spec
  /\ WF_vars(CoprocessorRuns)
  /\ \A camera \in Cameras : WF_vars(Expires(camera))
  /\ SF_vars(RobotReceivesAgain)

-----------------------------------------------------------------------------
(* Properties *)

\* The robot's fields never mix two frames: the second error of the camera that
\* the azimuth error came from is of the same frame, with a target or without
\* one, although a report writes two of the three fields, the cameras take turns
\* and the datagrams come in any order.  This is said of the fields, not of what
\* a command reads: each getter takes the lock for itself, so that a command
\* which reads two errors gets those of two frames when a report comes between.
SolutionIsOneFrame ==
  /\ has_target_ => azimuth_error_ # Unset
  /\ azimuth_error_.camera = "boiler" => centerline_error_ = azimuth_error_
  /\ azimuth_error_.camera = "gear" => target_height_ = azimuth_error_

\* Boiler frames are asked for only after the start of a capture that was not
\* stopped since, and only from a camera that streams unless its start failed:
\* a command that arrives in the middle of an iteration changes nothing before
\* the next one, so that the boiler camera is never asked for a frame while it
\* is connected and not started, a case ProcessFrame lets through.
FramesOnlyWhileCapturing ==
  Processing("boiler") /\ MayRetrieve("boiler") =>
    capture_started_ /\ (capturing \/ capture_failed)

\* The boiler camera is flagged as capturing in boiler mode and in no other, as
\* far as it could be connected, and it really streams exactly then, unless it
\* answered the last call to start or stop it with an error.  (It then stays
\* as it was, idle in boiler mode or streaming in the others, until the mode
\* is left and a later call succeeds: the code does not try again.)
CaptureMatchesMode ==
  LET wanted == current_mode_ = "boiler" /\ connected_["boiler"] IN
  /\ capture_started_ <=> wanted
  /\ (capturing <=> wanted) \/ capture_failed

\* What the robot believes implements the promise of Sighting.
Promise == INSTANCE Sighting WITH
  Targets <- Sightings,
  NoTarget <- Unset,
  seen <- sightings,
  aim <- IF has_target_ THEN azimuth_error_ ELSE Unset

RobotAimsAtSightings == Promise!Spec

\* Once the coprocessor stays in a mode and reboots no more, the robot ends up
\* believing only in targets of that camera, whatever was in flight or believed
\* before.  (In idle mode it is sent nothing, and a target it had stays.)
BelievesOnly(m) == has_target_ => azimuth_error_.camera = m
BeliefFollowsMode ==
  \A m \in Cameras :
    <>[](linkMode = m) /\ <>[][~CoprocessorReboots]_vars => <>[]BelievesOnly(m)
=============================================================================
