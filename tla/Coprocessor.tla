----------------------------- MODULE Coprocessor -----------------------------
(***************************************************************************)
(* The vision coprocessor (deadeye/): a link thread that receives camera   *)
(* commands, and a main loop that reads the commanded mode, switches the   *)
(* cameras when it changed, processes one frame and reports it.            *)
(*                                                                         *)
(* The pixel errors of a frame are one name: a report whose two errors     *)
(* differ mixes two frames.                                                *)
(***************************************************************************)
EXTENDS Udp

CONSTANTS
  BoilerFrames,  \* what a frame of the boiler camera with a target measures
  GearFrames,    \* the same for the gear camera
  ConfigMode     \* the LINK "mode" setting the program starts in

Cameras == {"boiler", "gear"}
Modes == Cameras \cup {"idle"}

ASSUME ConfigModeAssumption == ConfigMode \in Modes

VARIABLES
  linkMode,          \* Link::current_mode_, shared by the two threads
  pc,                \* where the main loop is: "top", "switch" or "process"
  mode,              \* its local copy of linkMode
  current_mode_,     \* Deadeye::current_mode_
  connected_,        \* [Cameras -> BOOLEAN]
  capture_started_,  \* BoilerCamera::capture_started_
  capturing,         \* does the boiler camera really stream
  capture_failed,    \* history: it answered the last call with an error
  sightings          \* history: every target a camera has found so far

cameras == <<connected_, capture_started_, capturing, capture_failed>>
mainLoop == <<pc, mode, current_mode_, cameras, sightings>>
coprocessor == <<linkMode, mainLoop>>

Sightings ==
  [camera : {"boiler"}, frame : BoilerFrames]
    \cup [camera : {"gear"}, frame : GearFrames]

NoTargetMesg == [type |-> "noTarget"]
\* Both errors of a solution are measured in the frame just processed.
SolutionMesg(s) == [type |-> s.camera, azimuth |-> s, second |-> s]
Solutions == {SolutionMesg(s) : s \in Sightings}
Reports == {NoTargetMesg} \cup Solutions

CoprocessorTypeOK ==
  /\ linkMode \in Modes
  /\ pc \in {"top", "switch", "process"}
  /\ mode \in Modes
  /\ current_mode_ \in Modes
  /\ connected_ \in [Cameras -> BOOLEAN]
  /\ {capture_started_, capturing, capture_failed} \subseteq BOOLEAN
  /\ sightings \subseteq Sightings

Start ==
  [linkMode |-> ConfigMode, pc |-> "top", mode |-> "idle", current |-> "idle",
   connected |-> [c \in Cameras |-> FALSE], capture |-> FALSE]

CoprocessorInit ==
  /\ linkMode = Start.linkMode
  /\ pc = Start.pc
  /\ mode = Start.mode
  /\ current_mode_ = Start.current
  /\ connected_ = Start.connected
  /\ capture_started_ = Start.capture
  /\ capturing = Start.capture
  /\ capture_failed = FALSE
  /\ sightings = {}

-----------------------------------------------------------------------------
(* The link thread *)

LinkReceives(m) ==
  /\ TakeAtDeadeye(m)
  /\ linkMode' = m
  /\ UNCHANGED <<mainLoop, toRobot>>

-----------------------------------------------------------------------------
(* The main loop *)

GetMode ==
  /\ pc = "top"
  /\ pc' = "switch"
  /\ mode' = linkMode
  /\ UNCHANGED <<linkMode, current_mode_, cameras, sightings, toRobot, toDeadeye>>

\* Connect does nothing for a camera that is connected and may fail for one
\* that is not.
Connect(c) ==
  \E isConnected \in BOOLEAN :
    /\ connected_[c] => isConnected
    /\ connected_' = [connected_ EXCEPT ![c] = isConnected]

\* A call to start or stop the camera.  It may return an error, which is only
\* logged: the flag is set all the same, and the camera goes on as before.
CallCamera(start) ==
  /\ capture_started_' = start
  /\ capture_failed' \in BOOLEAN
  /\ capturing' = IF capture_failed' THEN capturing ELSE start

\* StartCapture after Connect: the camera is called when it is connected and
\* not already flagged as started.
StartCapture ==
  IF connected_'["boiler"] /\ ~capture_started_
  THEN CallCamera(TRUE)
  ELSE UNCHANGED <<capture_started_, capturing, capture_failed>>

StopCapture ==
  IF connected_["boiler"] \/ capture_started_
  THEN CallCamera(FALSE)
  ELSE UNCHANGED <<capture_started_, capturing, capture_failed>>

\* Mutant: the boiler camera goes on capturing in gear mode.
SwitchKeepsCapturing(m) ==
  CASE m = "boiler" -> Connect("boiler") /\ StartCapture
    [] m = "gear" -> /\ Connect("gear")
                     /\ UNCHANGED <<capture_started_, capturing, capture_failed>>
    [] m = "idle" -> StopCapture /\ UNCHANGED connected_

SwitchMode(m) ==
  CASE m = "boiler" -> Connect("boiler") /\ StartCapture
    [] m = "gear" -> StopCapture /\ Connect("gear")
    [] m = "idle" -> StopCapture /\ UNCHANGED connected_

\* A mode whose cameras could not be connected counts as switched to.
Switch ==
  /\ pc = "switch"
  /\ IF mode # current_mode_ THEN SwitchMode(mode)
                             ELSE UNCHANGED cameras
  /\ current_mode_' = mode
  /\ pc' = "process"
  /\ UNCHANGED <<linkMode, mode, sightings, toRobot, toDeadeye>>

Processing(m) == pc = "process" /\ mode = m

\* ProcessFrame retrieves a frame only if this holds.
MayRetrieve(camera) ==
  IF camera = "boiler" THEN connected_["boiler"] \/ capture_started_
                       ELSE connected_["gear"]

\* A camera that was never started, or whose start failed, gives no frame: its
\* RetrieveBuffer returns an error.  The gear camera is read as it is.
GivesFrames(camera) == MayRetrieve(camera) /\ (camera = "boiler" => capturing)

\* ProcessBoilerTarget, ProcessGearTarget: a target was found.
ProcessTarget(s) ==
  /\ Processing(s.camera)
  /\ GivesFrames(s.camera)
  /\ SendToRobot(SolutionMesg(s))
  /\ sightings' = sightings \cup {s}
  /\ pc' = "top"
  /\ UNCHANGED <<linkMode, mode, current_mode_, cameras, toDeadeye>>

\* Mutant: the errors are sent whatever ProcessFrame returned.
ProcessNoTargetSendsErrors ==
  /\ \E s \in Sightings : Processing(s.camera) /\ SendToRobot(SolutionMesg(s))
  /\ pc' = "top"
  /\ UNCHANGED <<linkMode, mode, current_mode_, cameras, sightings, toDeadeye>>

\* No frame, or one without a target; the loop then sleeps for a while.
ProcessNoTarget ==
  /\ \E camera \in Cameras : Processing(camera)
  /\ SendToRobot(NoTargetMesg)
  /\ pc' = "top"
  /\ UNCHANGED <<linkMode, mode, current_mode_, cameras, sightings, toDeadeye>>

\* Nothing is sent in idle mode.
Idle ==
  /\ Processing("idle")
  /\ pc' = "top"
  /\ UNCHANGED <<linkMode, mode, current_mode_, cameras, sightings, toRobot,
                 toDeadeye>>

MainLoop ==
  \/ GetMode
  \/ Switch
  \/ \E s \in Sightings : ProcessTarget(s)
  \/ ProcessNoTarget
  \/ Idle

\* The coprocessor loses power and boots again, with its configured mode: what
\* the robot commanded is forgotten.
Reboot ==
  /\ linkMode' = Start.linkMode
  /\ pc' = Start.pc
  /\ mode' = Start.mode
  /\ current_mode_' = Start.current
  /\ connected_' = Start.connected
  /\ capture_started_' = Start.capture
  /\ capturing' = Start.capture
  /\ capture_failed' = FALSE
  /\ UNCHANGED <<sightings, toRobot, toDeadeye>>
=============================================================================
