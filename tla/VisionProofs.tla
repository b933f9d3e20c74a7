---------------------------- MODULE VisionProofs ----------------------------
(***************************************************************************)
(* Proofs about the vision system: its safety invariants, for any set of   *)
(* frames and any configured mode, and that what the robot aims at         *)
(* implements the promise of Sighting.                                     *)
(***************************************************************************)
EXTENDS Vision, TLAPS

-----------------------------------------------------------------------------
(* What one report does to the fields *)

\* A report is the one without a target or the solution of a sighting.
LEMMA ReportCases ==
  ASSUME NEW m \in Reports
  PROVE  m = NoTargetMesg \/ \E s \in Sightings : m = SolutionMesg(s)
BY DEF Reports, Solutions

\* The report without a target is no solution and no hardware error.
LEMMA NoTargetFacts ==
  /\ NoTargetMesg \notin Solutions
  /\ NoTargetMesg.type \notin Cameras
  /\ NoTargetMesg.type # "boiler" /\ NoTargetMesg.type # "gear"
<1>1. NoTargetMesg.type = "noTarget"
  BY DEF NoTargetMesg
<1>2. ASSUME NEW s \in Sightings PROVE NoTargetMesg # SolutionMesg(s)
  <2>1. SolutionMesg(s).type = s.camera /\ s.camera \in Cameras
    BY DEF SolutionMesg, Sightings, Cameras
  <2> QED BY <1>1, <2>1 DEF Cameras
<1> QED BY <1>1, <1>2 DEF Solutions, Cameras

\* A solution carries its sighting in both fields and the camera as its type.
LEMMA SolutionFacts ==
  ASSUME NEW s \in Sightings
  PROVE  /\ SolutionMesg(s) \in Solutions
         /\ SolutionMesg(s).type = s.camera
         /\ SolutionMesg(s).azimuth = s
         /\ SolutionMesg(s).second = s
         /\ s.camera \in Cameras
         /\ s # Unset
<1>1. s.camera \in Cameras
  BY DEF Sightings, Cameras
<1>2. s # Unset
  BY <1>1 DEF Unset, Cameras
<1> QED BY <1>1, <1>2 DEF SolutionMesg, Solutions

\* The report without a target clears has_target_ and leaves the errors.
LEMMA UpdateNoTarget ==
  ASSUME Update(NoTargetMesg)
  PROVE  /\ has_target_' \in BOOLEAN /\ ~has_target_'
         /\ UNCHANGED <<azimuth_error_, centerline_error_, target_height_>>
<1>1. has_target_' = (NoTargetMesg.type \in Cameras)
  BY NoTargetFacts, Zenon DEF Update
<1>2. has_target_' \in BOOLEAN
  BY <1>1
<1>4. ~has_target_'
  BY <1>1, NoTargetFacts
<1>3. UNCHANGED <<azimuth_error_, centerline_error_, target_height_>>
  BY NoTargetFacts DEF Update
<1> QED BY <1>2, <1>3, <1>4

\* A solution sets the azimuth error and the second error of its camera.
LEMMA UpdateSolution ==
  ASSUME NEW s \in Sightings, Update(SolutionMesg(s))
  PROVE  /\ has_target_' = TRUE
         /\ azimuth_error_' = s
         /\ centerline_error_' = IF s.camera = "boiler" THEN s
                                                        ELSE centerline_error_
         /\ target_height_' = IF s.camera = "gear" THEN s ELSE target_height_
BY SolutionFacts DEF Update

-----------------------------------------------------------------------------
(* Type correctness *)

\* Every variable starts in its type.
LEMMA TypeInit == Init => TypeOK
BY ConfigModeAssumption
   DEF Init, UdpInit, CoprocessorInit, RobotInit, Start, TypeOK,
       CoprocessorTypeOK, RobotTypeOK, ErrorValues, Reports, Modes

\* A report that is received leaves the robot's fields in their types.
LEMMA UpdateType ==
  ASSUME RobotTypeOK, NEW m \in Reports, Update(m)
  PROVE  RobotTypeOK'
<1>1. CASE m = NoTargetMesg
  BY <1>1, UpdateNoTarget DEF RobotTypeOK
<1>2. ASSUME NEW s \in Sightings, m = SolutionMesg(s) PROVE RobotTypeOK'
  <2>1. s \in ErrorValues
    BY DEF ErrorValues
  <2>2. /\ has_target_' = TRUE
        /\ azimuth_error_' = s
        /\ centerline_error_' \in {s, centerline_error_}
        /\ target_height_' \in {s, target_height_}
    BY <1>2, UpdateSolution
  <2> QED BY <2>1, <2>2 DEF RobotTypeOK
<1> QED BY <1>1, <1>2, ReportCases

\* One iteration step of the coprocessor's main loop stays in the types.
LEMMA MainLoopType ==
  ASSUME TypeOK, MainLoop, UNCHANGED fields
  PROVE  TypeOK'
<1> USE DEF TypeOK, CoprocessorTypeOK, cameras
<1>0. RobotTypeOK'
  BY DEF RobotTypeOK, fields
<1>1. CASE GetMode
  BY <1>0, <1>1 DEF GetMode
<1>2. CASE Switch
  <2>1. /\ connected_' \in [Cameras -> BOOLEAN]
        /\ {capture_started_, capturing, capture_failed}' \subseteq BOOLEAN
    <3> USE DEF StartCapture, StopCapture, CallCamera
    <3>1. CASE mode = current_mode_
      BY <1>2, <3>1 DEF Switch, cameras
    <3>2. CASE mode # current_mode_ /\ mode = "boiler"
      BY <1>2, <3>2 DEF Switch, SwitchMode, Connect, Cameras
    <3>3. CASE mode # current_mode_ /\ mode = "gear"
      BY <1>2, <3>3 DEF Switch, SwitchMode, Connect, Cameras
    <3>4. CASE mode # current_mode_ /\ mode = "idle"
      BY <1>2, <3>4 DEF Switch, SwitchMode
    <3> QED BY <3>1, <3>2, <3>3, <3>4 DEF Modes, Cameras
  <2> QED BY <1>0, <1>2, <2>1 DEF Switch
<1>3. ASSUME NEW s \in Sightings, ProcessTarget(s) PROVE TypeOK'
  BY <1>0, <1>3, SolutionFacts DEF ProcessTarget, SendToRobot, Reports
<1>4. CASE ProcessNoTarget
  BY <1>0, <1>4 DEF ProcessNoTarget, SendToRobot, Reports
<1>5. CASE Idle
  BY <1>0, <1>5 DEF Idle
<1> QED BY <1>1, <1>2, <1>3, <1>4, <1>5 DEF MainLoop

\* Every step of the system stays in the types.
LEMMA TypeStep == ASSUME TypeOK, [Next]_vars PROVE TypeOK'
<1>1. ASSUME NEW camera \in Cameras, EnableCamera(camera) PROVE TypeOK'
  BY <1>1 DEF EnableCamera, SendToDeadeye, TypeOK, CoprocessorTypeOK,
              RobotTypeOK, coprocessor, mainLoop, cameras, fields
<1>2. CASE CoprocessorRuns
  BY <1>2, MainLoopType DEF CoprocessorRuns
<1>3. CASE Delivered
  <2>1. ASSUME NEW m \in toRobot, RobotReceives(m) PROVE TypeOK'
    <3>1. RobotTypeOK'
      BY <2>1, UpdateType DEF RobotReceives, TypeOK
    <3> QED BY <2>1, <3>1 DEF RobotReceives, TakeAtRobot, TypeOK,
                              CoprocessorTypeOK, coprocessor, mainLoop, cameras
  <2>2. ASSUME NEW m \in toDeadeye, LinkReceives(m), UNCHANGED fields
        PROVE  TypeOK'
    BY <2>2 DEF LinkReceives, TakeAtDeadeye, TypeOK, CoprocessorTypeOK,
                RobotTypeOK, mainLoop, cameras, fields, Modes
  <2> QED BY <1>3, <2>1, <2>2 DEF Delivered
<1>4. CASE Lost
  BY <1>4 DEF Lost, LoseReport, LoseCommand, TypeOK, CoprocessorTypeOK,
              RobotTypeOK, coprocessor, mainLoop, cameras, fields
<1>5. CASE CoprocessorReboots
  BY <1>5, ConfigModeAssumption
     DEF CoprocessorReboots, Reboot, Start, TypeOK, CoprocessorTypeOK,
         RobotTypeOK, fields, Modes
<1>6. CASE UNCHANGED vars
  BY <1>6 DEF vars, network, TypeOK, CoprocessorTypeOK, RobotTypeOK,
              coprocessor, mainLoop, cameras, fields
<1> QED BY <1>1, <1>2, <1>3, <1>4, <1>5, <1>6 DEF Next

\* The variables of the coprocessor, the robot and the link stay in their types.
THEOREM TypeCorrect == Spec => []TypeOK
<1>1. Init => TypeOK
  BY TypeInit
<1>2. TypeOK /\ [Next]_vars => TypeOK'
  BY TypeStep
<1> QED BY <1>1, <1>2, PTL DEF Spec

-----------------------------------------------------------------------------
(* The inductive invariant *)

\* A solution is sent only for a target that was seen, and stays in flight.
ReportsWereSeen ==
  \A s \in Sightings : SolutionMesg(s) \in toRobot => s \in sightings

\* The robot's azimuth error is that of a target that was seen.
AimWasSeen == has_target_ => azimuth_error_ \in sightings

\* The copies of the mode agree while a frame is processed.
ModesAgree == pc = "process" => mode = current_mode_

IInv ==
  /\ TypeOK
  /\ ReportsWereSeen
  /\ AimWasSeen
  /\ SolutionIsOneFrame
  /\ ModesAgree
  /\ CaptureMatchesMode

\* Nothing is in flight, believed or captured when the system starts.
LEMMA InitIInv == Init => IInv
<1> SUFFICES ASSUME Init PROVE IInv
  OBVIOUS
<1>1. TypeOK
  BY TypeInit
<1>2. ReportsWereSeen
  BY DEF Init, UdpInit, ReportsWereSeen
<1>3. AimWasSeen /\ SolutionIsOneFrame
  BY DEF Init, RobotInit, Unset, AimWasSeen, SolutionIsOneFrame
<1>4. ModesAgree
  BY DEF Init, CoprocessorInit, Start, ModesAgree
<1>5. CaptureMatchesMode
  BY DEF Init, CoprocessorInit, Start, CaptureMatchesMode, Cameras
<1> QED BY <1>1, <1>2, <1>3, <1>4, <1>5 DEF IInv

\* The conjuncts about the robot's fields survive a step that leaves the
\* fields alone and forgets no sighting.
LEMMA FieldsUntouched ==
  ASSUME IInv, UNCHANGED fields, sightings \subseteq sightings'
  PROVE  (AimWasSeen /\ SolutionIsOneFrame)'
<1>1. AimWasSeen'
  BY DEF IInv, fields, AimWasSeen
<1>2. SolutionIsOneFrame'
  BY DEF IInv, fields, SolutionIsOneFrame
<1> QED BY <1>1, <1>2

\* The conjuncts about the cameras survive a step of anything but the main
\* loop.
LEMMA LoopUntouched ==
  ASSUME IInv, UNCHANGED mainLoop
  PROVE  (ModesAgree /\ CaptureMatchesMode)'
BY DEF IInv, mainLoop, cameras, ModesAgree, CaptureMatchesMode

\* A report that was seen, received by the robot, gives it a target that was
\* seen, measured in one frame.
LEMMA ReceiveStep ==
  ASSUME IInv, NEW m \in toRobot, Update(m), UNCHANGED sightings
  PROVE  (AimWasSeen /\ SolutionIsOneFrame)'
<1>1. m \in Reports
  BY DEF IInv, TypeOK
<1>2. CASE m = NoTargetMesg
  <2>1. /\ ~has_target_'
        /\ UNCHANGED <<azimuth_error_, centerline_error_, target_height_>>
    BY <1>2, UpdateNoTarget
  <2> QED BY <2>1 DEF IInv, AimWasSeen, SolutionIsOneFrame
<1>3. ASSUME NEW s \in Sightings, m = SolutionMesg(s)
      PROVE  (AimWasSeen /\ SolutionIsOneFrame)'
  <2>1. /\ has_target_' = TRUE
        /\ azimuth_error_' = s
    BY <1>3, UpdateSolution
  <2>2. s \in sightings'
    BY <1>3 DEF IInv, ReportsWereSeen
  <2>3. AimWasSeen'
    BY <2>1, <2>2 DEF AimWasSeen
  <2>4. CASE s.camera = "boiler"
    <3>1. centerline_error_' = s
      BY <1>3, <2>4, UpdateSolution
    <3> QED BY <2>1, <2>3, <2>4, <3>1, SolutionFacts DEF SolutionIsOneFrame
  <2>5. CASE s.camera = "gear"
    <3>1. target_height_' = s
      BY <1>3, <2>5, UpdateSolution
    <3> QED BY <2>1, <2>3, <2>5, <3>1, SolutionFacts DEF SolutionIsOneFrame
  <2> QED BY <2>4, <2>5, SolutionFacts DEF Cameras
<1> QED BY <1>1, <1>2, <1>3, ReportCases

\* A call to the camera leaves it streaming as asked for, or has failed.
LEMMA CallCameraFacts ==
  ASSUME NEW start \in BOOLEAN, CallCamera(start)
  PROVE  /\ capture_started_' = start
         /\ (capturing' = start) \/ capture_failed'
BY DEF CallCamera

\* Every switch leaves the boiler camera capturing in boiler mode only, or the
\* call to it has failed.
LEMMA SwitchStep ==
  ASSUME IInv, Switch
  PROVE  (ModesAgree /\ CaptureMatchesMode)'
<1> USE DEF IInv, TypeOK, CoprocessorTypeOK
<1>1. mode \in Modes /\ current_mode_' = mode /\ mode' = mode
  BY DEF Switch
<1>2. ModesAgree'
  BY <1>1 DEF ModesAgree
<1>3. CASE mode = current_mode_
  BY <1>1, <1>2, <1>3 DEF Switch, cameras, CaptureMatchesMode
<1>4. CASE mode # current_mode_ /\ mode = "boiler"
  <2>1. ~capture_started_ /\ (~capturing \/ capture_failed)
    BY <1>4 DEF CaptureMatchesMode
  <2>2. StartCapture /\ connected_' \in [Cameras -> BOOLEAN]
    BY <1>4 DEF Switch, SwitchMode, Connect, Cameras
  <2>3. CASE connected_'["boiler"]
    <3>1. CallCamera(TRUE)
      BY <2>1, <2>2, <2>3 DEF StartCapture
    <3> QED BY <1>1, <1>2, <1>4, <2>3, <3>1, CallCameraFacts
            DEF CaptureMatchesMode
  <2>4. CASE ~connected_'["boiler"]
    <3>1. UNCHANGED <<capture_started_, capturing, capture_failed>>
      BY <2>2, <2>4 DEF StartCapture
    <3> QED BY <1>1, <1>2, <2>1, <2>4, <3>1 DEF CaptureMatchesMode
  <2> QED BY <2>3, <2>4
<1>5. CASE mode # current_mode_ /\ mode \in {"gear", "idle"}
  <2>1. StopCapture
    BY <1>5 DEF Switch, SwitchMode
  <2>2. CASE connected_["boiler"] \/ capture_started_
    <3>1. CallCamera(FALSE)
      BY <2>1, <2>2 DEF StopCapture
    <3> QED BY <1>1, <1>2, <1>5, <3>1, CallCameraFacts DEF CaptureMatchesMode
  <2>3. CASE ~(connected_["boiler"] \/ capture_started_)
    <3>1. UNCHANGED <<capture_started_, capturing, capture_failed>>
      BY <2>1, <2>3 DEF StopCapture
    <3> QED BY <1>1, <1>2, <1>5, <2>3, <3>1 DEF CaptureMatchesMode
  <2> QED BY <2>2, <2>3
<1> QED BY <1>1, <1>3, <1>4, <1>5 DEF Modes, Cameras

\* Every step of the system preserves the inductive invariant.
LEMMA NextIInv == ASSUME IInv, [Next]_vars PROVE IInv'
<1>0. TypeOK'
  BY TypeStep DEF IInv
<1>1. ASSUME NEW camera \in Cameras, EnableCamera(camera) PROVE IInv'
  BY <1>0, <1>1, FieldsUntouched, LoopUntouched
     DEF EnableCamera, IInv, ReportsWereSeen, coprocessor, mainLoop
<1>2. CASE CoprocessorRuns
  <2>1. CASE GetMode
    <3>1. (ModesAgree /\ CaptureMatchesMode)'
      BY <2>1 DEF GetMode, cameras, IInv, ModesAgree, CaptureMatchesMode
    <3> QED BY <1>0, <1>2, <2>1, <3>1, FieldsUntouched
            DEF CoprocessorRuns, GetMode, IInv, ReportsWereSeen
  <2>2. CASE Switch
    BY <1>0, <1>2, <2>2, SwitchStep, FieldsUntouched
       DEF CoprocessorRuns, Switch, IInv, ReportsWereSeen
  <2>3. ASSUME NEW s \in Sightings, ProcessTarget(s) PROVE IInv'
    <3>1. sightings' = sightings \cup {s} /\ toRobot' = toRobot \cup {SolutionMesg(s)}
      BY <2>3 DEF ProcessTarget, SendToRobot
    <3>2. ASSUME NEW t \in Sightings, SolutionMesg(t) \in toRobot'
          PROVE  t \in sightings'
      <4>1. SolutionMesg(t) \in toRobot \/ SolutionMesg(t) = SolutionMesg(s)
        BY <3>1, <3>2
      <4>2. CASE SolutionMesg(t) = SolutionMesg(s)
        <5>1. t = s
          BY <4>2, SolutionFacts
        <5> QED BY <3>1, <5>1
      <4> QED BY <3>1, <4>1, <4>2 DEF IInv, ReportsWereSeen
    <3>3. (ModesAgree /\ CaptureMatchesMode)'
      BY <2>3 DEF ProcessTarget, cameras, IInv, ModesAgree, CaptureMatchesMode
    <3> QED BY <1>0, <1>2, <3>1, <3>2, <3>3, FieldsUntouched
            DEF CoprocessorRuns, IInv, ReportsWereSeen
  <2>4. CASE ProcessNoTarget
    <3>1. toRobot' = toRobot \cup {NoTargetMesg}
      BY <2>4 DEF ProcessNoTarget, SendToRobot
    <3>2. ReportsWereSeen'
      BY <2>4, <3>1, SolutionFacts, NoTargetFacts
         DEF ProcessNoTarget, IInv, ReportsWereSeen
    <3>3. (ModesAgree /\ CaptureMatchesMode)'
      BY <2>4 DEF ProcessNoTarget, cameras, IInv, ModesAgree, CaptureMatchesMode
    <3> QED BY <1>0, <1>2, <2>4, <3>2, <3>3, FieldsUntouched
            DEF CoprocessorRuns, ProcessNoTarget, IInv
  <2>5. CASE Idle
    <3>1. (ModesAgree /\ CaptureMatchesMode)'
      BY <2>5 DEF Idle, cameras, IInv, ModesAgree, CaptureMatchesMode
    <3> QED BY <1>0, <1>2, <2>5, <3>1, FieldsUntouched
            DEF CoprocessorRuns, Idle, IInv, ReportsWereSeen
  <2> QED BY <1>2, <2>1, <2>2, <2>3, <2>4, <2>5 DEF CoprocessorRuns, MainLoop
<1>3. CASE Delivered
  <2>1. ASSUME NEW m \in toRobot, RobotReceives(m) PROVE IInv'
    <3>1. toRobot' \subseteq toRobot
      BY <2>1 DEF RobotReceives, TakeAtRobot
    <3>2. Update(m) /\ UNCHANGED coprocessor
      BY <2>1 DEF RobotReceives
    <3>3. (AimWasSeen /\ SolutionIsOneFrame)'
      BY <3>2, ReceiveStep DEF coprocessor, mainLoop
    <3> QED BY <1>0, <3>1, <3>2, <3>3, LoopUntouched
            DEF IInv, ReportsWereSeen, coprocessor, mainLoop
  <2>2. ASSUME NEW m \in toDeadeye, LinkReceives(m), UNCHANGED fields
        PROVE  IInv'
    BY <1>0, <2>2, FieldsUntouched, LoopUntouched
       DEF LinkReceives, IInv, ReportsWereSeen, mainLoop
  <2> QED BY <1>3, <2>1, <2>2 DEF Delivered
<1>4. CASE Lost
  <2>1. toRobot' \subseteq toRobot
    BY <1>4 DEF Lost, LoseReport, LoseCommand
  <2> QED BY <1>0, <1>4, <2>1, FieldsUntouched, LoopUntouched
          DEF Lost, IInv, ReportsWereSeen, coprocessor, mainLoop
<1>5. CASE CoprocessorReboots
  <2>1. (ModesAgree /\ CaptureMatchesMode)'
    BY <1>5 DEF CoprocessorReboots, Reboot, Start, ModesAgree,
                CaptureMatchesMode, Cameras
  <2> QED BY <1>0, <1>5, <2>1, FieldsUntouched
          DEF CoprocessorReboots, Reboot, IInv, ReportsWereSeen
<1>6. CASE UNCHANGED vars
  BY <1>0, <1>6, FieldsUntouched, LoopUntouched
     DEF vars, network, IInv, ReportsWereSeen, coprocessor, mainLoop
<1> QED BY <1>1, <1>2, <1>3, <1>4, <1>5, <1>6 DEF Next

\* The inductive invariant holds in every state of the system.
LEMMA IInvAlways == Spec => []IInv
<1>1. Init => IInv
  BY InitIInv
<1>2. IInv /\ [Next]_vars => IInv'
  BY NextIInv
<1> QED BY <1>1, <1>2, PTL DEF Spec

-----------------------------------------------------------------------------
(* The theorems *)

\* The two errors of a target in the robot's fields are always of one frame.
THEOREM SolutionIsOneFrameAlways == Spec => []SolutionIsOneFrame
<1>1. IInv => SolutionIsOneFrame
  BY DEF IInv
<1> QED BY <1>1, IInvAlways, PTL

\* The boiler camera's flag says that it captures in boiler mode and in no
\* other, and the camera does, unless it refused the last call.
THEOREM CaptureMatchesModeAlways == Spec => []CaptureMatchesMode
<1>1. IInv => CaptureMatchesMode
  BY DEF IInv
<1> QED BY <1>1, IInvAlways, PTL

\* A frame is asked for only from a camera that was started, and that captures
\* unless its start failed.
THEOREM FramesOnlyWhileCapturingAlways == Spec => []FramesOnlyWhileCapturing
<1>1. IInv => FramesOnlyWhileCapturing
  BY DEF IInv, ModesAgree, CaptureMatchesMode, FramesOnlyWhileCapturing,
         Processing, MayRetrieve
<1> QED BY <1>1, IInvAlways, PTL

\* The vision system keeps its promise: every step of it is a sighting, an aim
\* at something seen, a loss of the target, or invisible to the commands.
THEOREM AimsAtSightings == Spec => RobotAimsAtSightings
<1>1. Init => Promise!Init
  BY DEF Init, CoprocessorInit, RobotInit, Promise!Init
<1>2. ASSUME IInv, [Next]_vars
      PROVE  [Promise!Next]_<<sightings, IF has_target_ THEN azimuth_error_
                                                        ELSE Unset>>
  <2> USE DEF Promise!Next, Promise!See, Promise!Aim, Promise!LoseTarget
  <2>1. ASSUME NEW camera \in Cameras, EnableCamera(camera)
        PROVE  UNCHANGED <<sightings, fields>>
    BY <2>1 DEF EnableCamera, coprocessor, mainLoop
  <2>2. ASSUME NEW s \in Sightings, ProcessTarget(s), UNCHANGED fields
        PROVE  Promise!See(s)
    BY <2>2 DEF ProcessTarget, fields
  <2>3. ASSUME MainLoop, ~\E s \in Sightings : ProcessTarget(s)
        PROVE  UNCHANGED sightings
    BY <2>3 DEF MainLoop, GetMode, Switch, ProcessNoTarget, Idle
  <2>4. ASSUME NEW m \in toRobot, RobotReceives(m)
        PROVE  Promise!LoseTarget \/ \E s \in Sightings : Promise!Aim(s)
    <3>1. m \in Reports /\ Update(m) /\ UNCHANGED sightings
      BY <1>2, <2>4 DEF RobotReceives, IInv, TypeOK, coprocessor, mainLoop
    <3>2. CASE m = NoTargetMesg
      BY <3>1, <3>2, UpdateNoTarget
    <3>3. ASSUME NEW s \in Sightings, m = SolutionMesg(s)
          PROVE  Promise!Aim(s)
      <4>1. s \in sightings
        BY <1>2, <3>3 DEF IInv, ReportsWereSeen
      <4> QED BY <3>1, <3>3, <4>1, UpdateSolution
    <3> QED BY <3>1, <3>2, <3>3, ReportCases
  <2>5. ASSUME NEW m \in toDeadeye, LinkReceives(m)
        PROVE  UNCHANGED sightings
    BY <2>5 DEF LinkReceives, mainLoop
  <2>6. CASE Lost
    BY <2>6 DEF Lost, coprocessor, mainLoop, fields
  <2>7. CASE CoprocessorReboots
    BY <2>7 DEF CoprocessorReboots, Reboot, fields
  <2>8. CASE UNCHANGED vars
    BY <2>8 DEF vars, coprocessor, mainLoop, fields
  <2>9. CASE CoprocessorRuns
    BY <2>2, <2>3, <2>9 DEF CoprocessorRuns, fields
  <2>10. CASE Delivered
    BY <2>4, <2>5, <2>10 DEF Delivered, fields
  <2>11. CASE \E camera \in Cameras : EnableCamera(camera)
    BY <2>1, <2>11 DEF fields
  <2> QED BY <1>2, <2>6, <2>7, <2>8, <2>9, <2>10, <2>11 DEF Next
<1> QED
  BY <1>1, <1>2, IInvAlways, PTL DEF Spec, RobotAimsAtSightings, Promise!Spec
=============================================================================
