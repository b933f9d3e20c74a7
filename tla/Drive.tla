-------------------------------- MODULE Drive --------------------------------
(***************************************************************************)
(* The swerve drive and everything that drives it: the sticks              *)
(* (DriveTeleOp, the default command), the brake switch, the shooting      *)
(* button, whose group turns the robot, and the autonomous sequences with  *)
(* Drive, GyroAzimuth, PlaceGear and StartShooting; the modes of the main  *)
(* loop decide which of them may run.                                      *)
(*                                                                         *)
(* The wheel set point is named by the command that computed it.  What the *)
(* sticks, the encoders, the gyro and the camera report is open, and so is *)
(* how long a part that does not drive takes.                              *)
(***************************************************************************)
EXTENDS Naturals, Sequences, Autonomous

CONSTANTS
  AutonSequences,  \* the positions of the autonomous switch that are modelled
  ZeroLag          \* the cycles a zeroed encoder goes on reporting the old
                   \* position; bounds zeroLag

ASSUME DriveAssumption ==
  /\ AutonSequences \subseteq DOMAIN Entries
  /\ ZeroLag \in Nat

VARIABLES
  held, enabled, phase, poll, last, torun, active, started, additions,
  period,           \* "auton" or "teleop", as the driver station says
  mode,             \* the mode whose Init function the main loop called last
  modeChecked,      \* the main loop has chosen the mode of this cycle
  settings,         \* the settings the drive Talons have
  setpoint,         \* "stop", or the command that computed their set point
  gyro_disabled_,
  zeroLag,          \* the cycles the encoders still report an old position
  camera,           \* the camera last asked for
  gearLight,
  entry,            \* the entry the sequence is at
  leaf,             \* its command: not entered, entered, or initialized
  children,         \* the parallel entries the sequence runs
  turn,             \* the half of the sequence's Run: entries, children
  todo,             \* the children still to be run in this Run
  zero_count_, stable_count_, is_initialized_, is_cruising_,
  aiming            \* StartShooting: not begun, turning the robot, or past it

\* The StopShooting of the button and the one of TeleopInit are one here: to
\* the drive they are the same.
DriverCommands ==
  {"DriveTeleOp", "EnableBrake", "DisableBrake", "StartShooting", "StopShooting"}
DriveCommands == DriverCommands \cup AutonSequences

\* Button schedulers run in the reverse of the order OI created them in.
DriveBindings ==
  << [button |-> "brake", edge |-> "press", command |-> "DisableBrake"],
     [button |-> "brake", edge |-> "release", command |-> "EnableBrake"],
     [button |-> "auto", edge |-> "release", command |-> "StopShooting"],
     [button |-> "auto", edge |-> "press", command |-> "StartShooting"] >>

\* Mutant: EnableBrake does not require the drive.
BrakeRequiresNothing ==
  [c \in DriveCommands |->
     CASE c \in AutonSequences -> GroupRequires(c)
       [] c = "StartShooting" -> EntryRequires(c)
       [] c = "StopShooting" -> {"hopper", "wheel"}
       [] c = "EnableBrake" -> {}
       [] OTHER -> {"drive"}]

DriveRequires ==
  [c \in DriveCommands |->
     CASE c \in AutonSequences -> GroupRequires(c)
       [] c = "StartShooting" -> EntryRequires(c)
       [] c = "StopShooting" -> {"hopper", "wheel"}
       [] OTHER -> {"drive"}]

INSTANCE Scheduler WITH
  Commands <- DriveCommands,
  Requires <- DriveRequires,
  Interruptible <- DriveCommands,
  Bindings <- DriveBindings,
  Buttons <- {"brake", "auto"},
  Overrun <- FALSE

mainLoop == <<period, mode, modeChecked>>
motors == <<settings, setpoint, gyro_disabled_, zeroLag>>
lights == <<camera, gearLight>>
group == <<entry, leaf, children, turn, todo>>
counters == <<zero_count_, stable_count_, is_initialized_, is_cruising_>>
command == <<counters, aiming>>
vars == <<held, enabled, phase, poll, last, torun, active, started, additions,
          mainLoop, motors, lights, group, command>>

\* Mutant: the wait is not long enough.
ShortZeroCountReq == 2

\* Drive waits one cycle longer than PlaceGear (kZeroCountReq of each).
DriveZeroCountReq == 4
PlaceGearZeroCountReq == 3
StableCountReq == 3

Setters == {"DriveTeleOp", "Drive", "GyroAzimuth", "PlaceGear", "StartShooting"}

TypeOK ==
  /\ SchedulerTypeOK
  /\ period \in {"auton", "teleop"}
  /\ mode \in {"none", "disabled", "auton", "teleop"}
  /\ modeChecked \in BOOLEAN
  /\ settings \in {"drive", "drive_auton", "drive_auton_slow_azimuth"}
  /\ setpoint \in {"stop"} \cup Setters
  /\ gyro_disabled_ \in BOOLEAN
  /\ zeroLag \in 0 .. ZeroLag
  /\ camera \in {"boiler", "gear"}
  /\ gearLight \in BOOLEAN
  /\ entry \in Nat \ {0}
  /\ leaf \in {"fresh", "entered", "running"}
  /\ children \subseteq {"StageGear", "ReleaseGear", "StartIntake",
                         "StartShooting"} \cup InstantCommands
  /\ turn \in {"entries", "children"}
  /\ todo \subseteq children
  /\ zero_count_ \in 0 .. DriveZeroCountReq
  /\ stable_count_ \in 0 .. StableCountReq
  /\ is_initialized_ \in BOOLEAN
  /\ is_cruising_ \in BOOLEAN
  /\ aiming \in {"none", "aiming", "aimed"}

Init ==
  /\ SchedulerInit
  /\ period = "auton"
  /\ mode = "none"
  /\ modeChecked = FALSE
  /\ settings = "drive"
  /\ setpoint = "stop"
  /\ gyro_disabled_ = FALSE
  /\ zeroLag = 0
  /\ camera = "boiler"
  /\ gearLight = FALSE
  /\ entry = 1
  /\ leaf = "fresh"
  /\ children = {}
  /\ turn = "entries"
  /\ todo = {}
  /\ zero_count_ = 0
  /\ stable_count_ = 0
  /\ is_initialized_ = FALSE
  /\ is_cruising_ = FALSE
  /\ aiming = "none"

-----------------------------------------------------------------------------
(* SwerveDrive *)

\* SetDriveMode: a Talon that changes between voltage and velocity drives
\* nothing until it is given a new set point.
Reconfigured(newSettings) ==
  IF (settings = "drive") = (newSettings = "drive") THEN setpoint ELSE "stop"

ZeroPosition == zeroLag' = ZeroLag

\* Mutant: GyroAzimuth does not stop what it turned.
EndStopsUnlessTurning == AutonDrives \cup {"DriveTeleOp"}

\* The commands whose End stops the motors; that of PlaceGear does not.
EndStops == AutonDrives \cup {"GyroAzimuth", "DriveTeleOp"}

\* Mutant: PlaceGear overrides Interrupted, and not with End.
GyroStaysOff(parts) == gyro_disabled_

GyroAfter(parts) == gyro_disabled_ /\ "PlaceGear" \notin parts

\* End of commands that are removed, whether they finished or not.
EndParts(parts) ==
  /\ setpoint' = IF \/ parts \cap EndStops # {}
                    \/ ("StartShooting" \in parts /\ aiming = "aiming")
                 THEN "stop" ELSE setpoint
  /\ gyro_disabled_' = GyroAfter(parts)
  /\ aiming' = IF "StartShooting" \in parts THEN "none" ELSE aiming
  /\ UNCHANGED <<settings, zeroLag>>

\* What a command has counted is dead once the scheduler removed it: Initialize
\* resets it.
Forget ==
  /\ zero_count_' = 0
  /\ stable_count_' = 0
  /\ is_initialized_' = FALSE
  /\ is_cruising_' = FALSE

-----------------------------------------------------------------------------
(* One Run of each command; "done" says whether IsFinished returns true *)

\* IsFinished of Drive and GyroAzimuth counts cycles on target in a row.
Count(close) == stable_count_' = IF close THEN stable_count_ + 1 ELSE 0

RunDrive(isNew, isTimed, done) ==
  /\ \/ /\ isNew /\ ~done
        /\ settings' = "drive_auton"
        /\ setpoint' = Reconfigured("drive_auton")
        /\ ZeroPosition
        /\ zero_count_' = 1
        /\ stable_count_' = 0
     \/ /\ ~isNew /\ ~done
        /\ zero_count_ < DriveZeroCountReq
        /\ zero_count_' = zero_count_ + 1
        /\ stable_count_' = 0
        /\ UNCHANGED <<settings, setpoint, zeroLag>>
     \/ /\ ~isNew
        /\ zero_count_ = DriveZeroCountReq
        /\ \E close \in BOOLEAN :
             /\ Count(close)
             /\ setpoint' \in IF done THEN {"stop"}
                              ELSE {"Drive"} \cup IF close THEN {"stop"} ELSE {}
        /\ IF done THEN isTimed \/ stable_count_' = StableCountReq
                   ELSE stable_count_' < StableCountReq
        /\ UNCHANGED <<settings, zero_count_, zeroLag>>
  /\ UNCHANGED <<gyro_disabled_, is_initialized_, is_cruising_, aiming, lights>>

RunGyroAzimuth(isNew, done) ==
  /\ settings' = IF isNew THEN "drive_auton_slow_azimuth" ELSE settings
  /\ \E close \in BOOLEAN :
       /\ IF isNew THEN stable_count_' = IF close THEN 1 ELSE 0
                   ELSE Count(close)
       /\ setpoint' = IF close THEN "stop" ELSE "GyroAzimuth"
  /\ done = (stable_count_' = StableCountReq)
  /\ UNCHANGED <<gyro_disabled_, zeroLag, zero_count_, is_initialized_,
                 is_cruising_, aiming, lights>>

\* Mutant: PlaceGear keeps the settings of the command before it.
PlaceGearKeepsSettings == settings

\* SetAzimuthMode.
PlaceGearSettings == "drive_auton_slow_azimuth"

\* The first Run, the wait for the encoders, the wait for a target, the
\* approach.  It is over when the wheels have been slow for three cycles after
\* they had travelled.
PlaceGearInitialize ==
  /\ settings' = PlaceGearSettings
  /\ setpoint' = Reconfigured(settings')
  /\ ZeroPosition
  /\ gyro_disabled_' = TRUE
  /\ zero_count_' = 1
  /\ stable_count_' = 0
  /\ is_initialized_' = FALSE
  /\ is_cruising_' = FALSE

DelayForPositionZero ==
  /\ zero_count_ < PlaceGearZeroCountReq
  /\ zero_count_' = zero_count_ + 1
  /\ UNCHANGED <<motors, stable_count_, is_initialized_, is_cruising_>>

Approach(done) ==
  /\ zero_count_ = PlaceGearZeroCountReq
  /\ is_initialized_' = TRUE
  /\ setpoint' = "PlaceGear"
  /\ IF is_cruising_
     THEN /\ stable_count_' \in {0, stable_count_ + 1}
          /\ done = (stable_count_' = StableCountReq)
          /\ UNCHANGED is_cruising_
     ELSE /\ ~done
          /\ is_cruising_' \in BOOLEAN
          /\ UNCHANGED stable_count_
  /\ gyro_disabled_' = IF done THEN GyroAfter({"PlaceGear"}) ELSE gyro_disabled_
  /\ UNCHANGED <<settings, zeroLag, zero_count_>>

RunPlaceGear(isNew, done) ==
  /\ \/ isNew /\ ~done /\ PlaceGearInitialize
     \/ ~isNew /\ ~done /\ ~is_initialized_ /\ DelayForPositionZero
     \/ /\ ~isNew /\ ~done                       \* no target
        /\ zero_count_ = PlaceGearZeroCountReq
        /\ ~is_initialized_
        /\ UNCHANGED <<motors, zero_count_, stable_count_, is_initialized_,
                       is_cruising_>>
     \/ ~isNew /\ Approach(done)
  /\ UNCHANGED <<aiming, lights>>

\* As far as the drive is concerned: DeadeyeAzimuth, a parallel part, turns the
\* robot until it was on target three times; the group goes on after it, or is
\* cancelled before.  Execute and IsFinished each ask for a target, so that a
\* Run may count an error that it has not turned by.
RunStartShooting(done) ==
  /\ \/ /\ aiming = "none" /\ ~done
        /\ aiming' = "aiming"
        /\ settings' = "drive_auton_slow_azimuth"
        /\ camera' = "boiler"
        /\ setpoint' \in {"stop", "StartShooting"}
        /\ stable_count_' \in {0, 1}
     \/ /\ aiming = "aiming" /\ ~done
        /\ stable_count_' \in {0, stable_count_, stable_count_ + 1} \ {StableCountReq}
        /\ setpoint' \in {"stop", "StartShooting"}
        /\ UNCHANGED <<settings, camera, aiming>>
     \/ /\ aiming = "aiming"
        /\ stable_count_' = stable_count_ + 1
        /\ stable_count_' = StableCountReq
        /\ setpoint' = "stop"
        /\ aiming' = IF done THEN "none" ELSE "aimed"
        /\ UNCHANGED <<settings, camera>>
     \/ /\ aiming = "aiming" /\ done             \* cancelled
        /\ EndParts({"StartShooting"})
        /\ UNCHANGED <<stable_count_, camera>>
     \/ /\ aiming = "aimed"
        /\ aiming' = IF done THEN "none" ELSE "aimed"
        /\ UNCHANGED <<settings, setpoint, stable_count_, camera>>
  /\ UNCHANGED <<gyro_disabled_, zeroLag, zero_count_, is_initialized_,
                 is_cruising_, gearLight>>

RunInstant(c) ==
  /\ camera' = CASE c = "GearCamera" -> "gear"
                 [] c = "BoilerCamera" -> "boiler"
                 [] OTHER -> camera
  /\ gearLight' = CASE c = "GearLightOn" -> TRUE
                    [] c = "GearLightOff" -> FALSE
                    [] OTHER -> gearLight
  /\ UNCHANGED <<motors, command>>

\* An entry that may be parallel; one that neither drives nor is instant is
\* open.
RunParallelPart(c, done) ==
  \/ c = "StartShooting" /\ RunStartShooting(done)
  \/ c \in InstantCommands /\ done /\ RunInstant(c)
  \/ /\ c \in {"StageGear", "ReleaseGear", "StartIntake", "WaitCommand"}
     /\ UNCHANGED <<motors, lights, command>>

RunPart(c, isNew, done) ==
  \/ c \in AutonDrives /\ RunDrive(isNew, c = "TimedDrive", done)
  \/ c = "GyroAzimuth" /\ RunGyroAzimuth(isNew, done)
  \/ c = "PlaceGear" /\ RunPlaceGear(isNew, done)
  \/ RunParallelPart(c, done)

Goes(c, done) == IF done THEN Finish(c, additions) ELSE KeepRunning(c)

\* SetTeleOpMode.
TeleOpSettings == "drive"

\* A command of the driver, run by the scheduler itself.  DisableBrake only
\* takes the drive from EnableBrake; StopShooting lasts as long as the wheel.
RunDriverCommand(c) ==
  /\ \/ /\ c = "DriveTeleOp"
        /\ settings' = IF c \in started THEN settings ELSE TeleOpSettings
        /\ setpoint' \in {"stop", "DriveTeleOp"}
        /\ KeepRunning(c)
        /\ UNCHANGED <<gyro_disabled_, zeroLag, lights, command>>
     \/ /\ c = "EnableBrake"
        /\ IF c \in started THEN UNCHANGED zeroLag ELSE ZeroPosition
        /\ KeepRunning(c)
        /\ UNCHANGED <<settings, setpoint, gyro_disabled_, lights, command>>
     \/ /\ c = "DisableBrake"
        /\ Finish(c, additions)
        /\ UNCHANGED <<motors, lights, command>>
     \/ /\ c = "StopShooting"
        /\ \E done \in BOOLEAN : Goes(c, done)
        /\ UNCHANGED <<motors, lights, command>>
     \/ /\ c = "StartShooting"
        /\ \E done \in BOOLEAN : RunStartShooting(done) /\ Goes(c, done)
  /\ UNCHANGED <<held, enabled, mainLoop, group>>

-----------------------------------------------------------------------------
(* An autonomous sequence: one Run of the group is its sequential entry, and *)
(* those that follow once it is done, then every parallel entry once.  The   *)
(* order of the commands in one cycle does not matter to the drive: the      *)
(* sequence is run last.                                                     *)

Turn(s, half) == phase = "run" /\ enabled /\ torun = {s} /\ turn = half
EntryOf(s) == Entries[s][entry]

\* CommandGroup::CancelConflicts: an entry removes the parallel ones in its way.
ChildrenInTheWay(c) ==
  {d \in children : EntryRequires(c) \cap EntryRequires(d) # {}}

EnterEntry(s) ==
  /\ Turn(s, "entries")
  /\ entry <= Len(Entries[s])
  /\ leaf = "fresh"
  /\ EndParts(ChildrenInTheWay(EntryOf(s).command))
  /\ LET others == children \ ChildrenInTheWay(EntryOf(s).command)
     IN  IF EntryOf(s).parallel
         THEN /\ children' = others \cup {EntryOf(s).command}
              /\ entry' = entry + 1
              /\ UNCHANGED leaf
         ELSE /\ children' = others
              /\ leaf' = "entered"
              /\ UNCHANGED entry
  /\ UNCHANGED <<torun, started, active, additions, turn, todo, lights, counters>>

RunEntry(s) ==
  /\ Turn(s, "entries")
  /\ leaf # "fresh"
  /\ \E done \in BOOLEAN :
       /\ RunPart(EntryOf(s).command, leaf = "entered", done)
       /\ IF done
          THEN /\ entry' = entry + 1
               /\ leaf' = "fresh"
               /\ UNCHANGED <<turn, todo>>
          ELSE /\ leaf' = "running"
               /\ turn' = "children"
               /\ todo' = children
               /\ UNCHANGED entry
  /\ UNCHANGED <<torun, started, active, additions, children>>

EntriesDone(s) ==
  /\ Turn(s, "entries")
  /\ entry > Len(Entries[s])
  /\ turn' = "children"
  /\ todo' = children
  /\ UNCHANGED <<torun, started, active, additions, entry, leaf, children,
                 motors, lights, command>>

\* Of the parallel parts only StartShooting has a first Run that matters here,
\* which "aiming" tells.
RunChild(s, c) ==
  /\ Turn(s, "children")
  /\ c \in todo
  /\ todo' = todo \ {c}
  /\ \E done \in BOOLEAN :
       /\ RunParallelPart(c, done)
       /\ children' = IF done THEN children \ {c} ELSE children
  /\ UNCHANGED <<torun, started, active, additions, entry, leaf, turn>>

LeaveGroup ==
  /\ entry' = 1
  /\ leaf' = "fresh"
  /\ children' = {}
  /\ turn' = "entries"
  /\ todo' = {}

EndTurn(s) ==
  /\ Turn(s, "children")
  /\ todo = {}
  /\ IF entry > Len(Entries[s]) /\ children = {}
     THEN Finish(s, additions) /\ LeaveGroup /\ Forget
     ELSE /\ KeepRunning(s)
          /\ turn' = "entries"
          /\ UNCHANGED <<entry, leaf, children, todo, counters>>
  /\ UNCHANGED <<motors, lights, aiming>>

RunSequence(s) ==
  /\ \/ EndTurn(s)
     \/ /\ \/ EnterEntry(s)
           \/ RunEntry(s)
           \/ EntriesDone(s)
           \/ \E c \in todo : RunChild(s, c)
        /\ UNCHANGED <<phase, poll, last>>
  /\ UNCHANGED <<held, enabled, mainLoop>>

\* The commands that have been initialized as a part of c, or c itself.
Parts(c) ==
  IF c \notin AutonSequences THEN {c}
  ELSE children \cup IF leaf = "running" THEN {EntryOf(c).command} ELSE {}

\* Interrupted calls End for every drive command; a sequence ends its parts.
Interrupt(interrupted) ==
  /\ EndParts(UNION {Parts(c) : c \in interrupted \cap started})
  /\ IF interrupted \cap AutonSequences = {}
     THEN UNCHANGED <<group, counters>> ELSE LeaveGroup /\ Forget
  /\ UNCHANGED lights

-----------------------------------------------------------------------------
(* The driver station and the main loop *)

BetweenCycles == PacketMayArrive /\ ~modeChecked

DriverStation ==
  /\ BetweenCycles
  /\ \/ \E b \in {"brake", "auto"} : ToggleButton(b) /\ UNCHANGED period
     \/ ToggleEnabled /\ UNCHANGED period
     \/ /\ period' = IF period = "auton" THEN "teleop" ELSE "auton"
        /\ period = "auton" \/ (mode = "disabled" /\ ~enabled)
        /\ UNCHANGED <<held, enabled>>
  /\ UNCHANGED <<phase, poll, last, torun, active, started, additions,
                 mode, modeChecked, motors, lights, group, command>>

\* SetDrive(0.0).
DisabledSetpoint == "stop"

\* DisabledPeriodic calls SetDrive(0) before it runs the scheduler.
DisabledCycle ==
  /\ ~enabled
  /\ mode' = "disabled"
  /\ setpoint' = DisabledSetpoint
  /\ UNCHANGED additions

\* AutonomousInit starts the sequence of the switch; the sequence of an earlier
\* autonomous period was cancelled when the robot was disabled.
AutonomousCycle ==
  /\ enabled
  /\ period = "auton"
  /\ mode' = "auton"
  /\ IF mode = "auton" THEN UNCHANGED additions
     ELSE \E s \in AutonSequences : additions' = Enqueue(s)
  /\ UNCHANGED setpoint

\* TeleopInit stops the shooter and nothing else.
TeleopCycle ==
  /\ enabled
  /\ period = "teleop"
  /\ mode' = "teleop"
  /\ additions' = IF mode = "teleop" THEN additions ELSE Enqueue("StopShooting")
  /\ UNCHANGED setpoint

ChooseMode ==
  /\ BetweenCycles
  /\ modeChecked' = TRUE
  /\ DisabledCycle \/ AutonomousCycle \/ TeleopCycle
  /\ UNCHANGED <<held, enabled, period, phase, poll, last, torun, active,
                 started, settings, gyro_disabled_, zeroLag, lights, group,
                 command>>

CyclePoll ==
  /\ modeChecked
  /\ PollButton \/ BeginRun
  /\ UNCHANGED <<held, enabled, mainLoop, motors, lights, group, command>>

CycleCancel(c) ==
  /\ CancelDisabled(c)
  /\ Interrupt({c})
  /\ UNCHANGED <<held, enabled, mainLoop>>

CycleAdd ==
  /\ \/ /\ \/ BeginAdd
           \/ \E c \in DriveCommands : Ignore(c)
        /\ UNCHANGED <<modeChecked, motors, lights, group, command>>
     \/ /\ InsertDefault("DriveTeleOp")
        /\ UNCHANGED <<modeChecked, motors, lights, group, command>>
     \/ /\ EndCycle
        /\ InTheWay("DriveTeleOp") # {}
        /\ modeChecked' = FALSE
        /\ zeroLag' = IF zeroLag > 0 THEN zeroLag - 1 ELSE 0
        /\ UNCHANGED <<settings, setpoint, gyro_disabled_, lights, group, command>>
     \/ \E c \in DriveCommands :
          /\ Insert(c)
          /\ Interrupt(InTheWay(c))
          /\ UNCHANGED modeChecked
  /\ UNCHANGED <<held, enabled, period, mode>>

Next ==
  \/ DriverStation
  \/ ChooseMode
  \/ CyclePoll
  \/ \E c \in DriveCommands : CycleCancel(c)
  \/ \E c \in DriverCommands : RunDriverCommand(c)
  \/ \E s \in AutonSequences : RunSequence(s)
  \/ CycleAdd

Spec == Init /\ [][Next]_vars

-----------------------------------------------------------------------------
(* Properties *)

\* The initialized commands that drive.
Drivers ==
  {c \in UNION {Parts(c) : c \in started} :
     IF c \in DriverCommands THEN "drive" \in DriveRequires[c]
                             ELSE "drive" \in EntryRequires(c)}

\* Whatever was interrupted, timed out or cancelled: a wheel set point belongs
\* to the one command that drives.  PlaceGear::End leaves its set point to
\* whoever comes next, so that the robot goes on towards the lift for the rest
\* of the cycle, while the next Drive waits for its encoders, and with the
\* brake on.
SetpointHasDriver ==
  /\ \A c, d \in Drivers : c = d
  /\ setpoint \notin {"stop", "PlaceGear"} =>
       \/ setpoint \in Drivers
       \/ (setpoint = "Drive" /\ "TimedDrive" \in Drivers)
  /\ setpoint = "PlaceGear" =>
       \/ Drivers \subseteq {"PlaceGear", "EnableBrake"}
       \/ (Drivers \subseteq AutonDrives /\ stable_count_ = 0)

\* The Talons are never given a speed as a voltage, or a voltage as a speed,
\* and never hold a set point scaled for another mode than theirs; only what
\* PlaceGear left is held in the mode of the next Drive, while that waits for
\* its encoders.
SetpointFitsSettings ==
  /\ setpoint = "DriveTeleOp" => settings = "drive"
  /\ setpoint = "Drive" => settings = "drive_auton"
  /\ setpoint \in {"GyroAzimuth", "StartShooting"} =>
       settings = "drive_auton_slow_azimuth"
  /\ setpoint = "PlaceGear" =>
       \/ settings = "drive_auton_slow_azimuth"
       \/ /\ settings = "drive_auton"
          /\ Drivers \cap AutonDrives # {}
          /\ stable_count_ = 0

\* Every way out of PlaceGear switches the gyro on again: nothing else ever
\* drives relative to the robot instead of the field.
GyroOffOnlyPlacing == gyro_disabled_ <=> "PlaceGear" \in Drivers

\* No drive counts as done, and no approach as under way, by a position that
\* the encoders had before they were zeroed.
PositionReadFresh ==
  /\ Drivers \cap AutonDrives # {} /\ stable_count_ > 0 => zeroLag = 0
  /\ "PlaceGear" \in Drivers /\ is_cruising_ => zeroLag = 0
=============================================================================
