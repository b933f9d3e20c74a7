-------------------------------- MODULE Swerve --------------------------------
(***************************************************************************)
(* The swerve drive as a set of motors: sidewinder's SwerveDrive and what  *)
(* the steamworks subsystem adds to it.  What drives it is in HealthCheck  *)
(* and, for the commands of a match, in Drive.                             *)
(*                                                                         *)
(* Azimuths are counted in encoder ticks, 4096 to the turn; drive set      *)
(* points are thousandths of the Talon's unit.  A Talon drives nothing     *)
(* after a change of its mode, or StopMotor, until its next Set; until     *)
(* then it holds a set point in the unit its caller meant.                 *)
(***************************************************************************)
EXTENDS SwerveMath, TalonSettings

CONSTANTS
  Motions,     \* motions of the robot asked for, forward, strafe and azimuth
  Headings,    \* headings of the robot, quarter turns in degrees
  Drifts,      \* by how much an azimuth that is not held turns
  Lags,        \* by how much an azimuth is past what its Talon reports
  LongestLag,
  MaxAngle,    \* bound on the angles of wheels
  MaxTicks     \* bound on the positions of azimuths

ASSUME MotionsAssumption ==
  Motions \subseteq [fwd : -100 .. 100, str : -100 .. 100, rcw : -100 .. 100]
ASSUME HeadingsAssumption == Headings \subseteq {0, 90, 180, 270}
ASSUME DriftsAssumption == Drifts \subseteq Int
ASSUME LagsAssumption ==
  LongestLag \in Nat /\ Lags \subseteq -LongestLag .. LongestLag

VARIABLES
  talon,         \* the registers of the azimuth and of the drive Talons
  azimuth,       \* set points of the azimuths
  held,          \* what the azimuth Talons were set to in their present mode:
                 \* nothing, "ticks" or "volts"
  position,      \* the azimuths' encoders, relative
  absolute,      \* their pulse width position, 0 .. 4095
  drive,         \* set points of the drive motors
  drive_scale_factor_,
  calibration,   \* the file sidewinder_calibration.toml
  zero,          \* history: the calibration read last
  motion         \* history: the motion the wheels were told last, if no other
                 \* call set them since

swerveVars == <<mathVars, talon, azimuth, held, position, absolute, drive,
                drive_scale_factor_, calibration, zero, motion>>

Turn == 4096
NoMotion == [fwd |-> 0, str |-> 0, rcw |-> 0]
Units == {"none", "ticks", "volts"}
DeadZone == 8    \* drive_dead_zone, percent
AutonZone == 5

Cos(heading) == CASE heading = 0 -> 1 [] heading = 180 -> -1 [] OTHER -> 0
Sin(heading) == CASE heading = 90 -> 1 [] heading = 270 -> -1 [] OTHER -> 0
Rotated(m, heading) ==
  [fwd |-> m.fwd * Cos(heading) + m.str * Sin(heading),
   str |-> m.str * Cos(heading) - m.fwd * Sin(heading),
   rcw |-> m.rcw]

\* The motions in the robot's frame.
Told == Motions \cup {Rotated(m, h) : m \in Motions, h \in Headings}

All(n) == [w \in Wheels |-> n]
Ticks(angle) == sign(angle) * ((Abs(angle) * Turn + 180) \div 360)

SwerveTypeOK ==
  /\ MathTypeOK
  /\ talon \in [azimuth : Talons, drive : Talons]
  /\ azimuth \in [Wheels -> Int]
  /\ held \in Units
  /\ position \in [Wheels -> Int]
  /\ absolute \in [Wheels -> 0 .. Turn - 1]
  /\ drive \in [Wheels -> Int]
  /\ drive_scale_factor_ \in Nat
  /\ calibration \in [Wheels -> 0 .. Turn - 1]
  /\ zero \in [Wheels -> 0 .. Turn - 1]
  /\ motion \in Told \cup {NoMotion}

\* The constructor, with the calibration read; before the robot is enabled the
\* wheels may be turned by hand.
SwerveInit ==
  /\ MathInit
  /\ talon = [azimuth |-> Initialize("azimuth", NewTalon),
              drive |-> Initialize("drive", NewTalon)]
  /\ azimuth = All(0)
  /\ held = "none"
  /\ position = All(0)
  /\ absolute = All(0)
  /\ drive = All(0)
  /\ drive_scale_factor_ = GetSetpointMax("drive")
  /\ calibration = All(0)
  /\ zero = All(0)
  /\ motion = NoMotion

UnchangedWheels ==
  UNCHANGED <<talon, position, absolute, drive_scale_factor_, calibration, zero>>

-----------------------------------------------------------------------------
(* sidewinder/swerve/swerve_drive.cc                                       *)

SetAzimuth(setpoint) == azimuth' = All(setpoint) /\ held' = "ticks"
SetDrive(setpoint) == drive' = All(setpoint)

ZeroAzimuth ==
  /\ SetAzimuth(0)
  /\ motion' = NoMotion
  /\ UNCHANGED <<mathVars, drive>>
  /\ UnchangedWheels

AngleTable == [m \in Told |-> WheelAngle(m)]
SpeedTable == [m \in Told |-> Magnitudes(m)]

SetWheels(m, negated) ==
  /\ TurnTo(AngleTable[m])
  /\ \A w \in Wheels : Abs(wheel_angles'[w]) <= MaxAngle
  /\ azimuth' = [w \in Wheels |-> Ticks(wheel_angles'[w])]
  /\ held' = "ticks"
  /\ drive' = [w \in Wheels |->
                 WheelSpeeds(SpeedTable[m], negated)[w] * drive_scale_factor_]
  /\ motion' = m

\* Mutant: the direction of last time.
DriveWithPastSign(m) == SetWheels(m, wheel_mag_negated)

DriveWheels(m) == SetWheels(m, wheel_mag_negated')

\* The wheels stay as they are while the sticks are in the dead zone.
Stop ==
  /\ SetDrive(0)
  /\ motion' = NoMotion
  /\ UNCHANGED <<mathVars, azimuth, held>>

Drive_(m, dead_zone) ==
  /\ IF Abs(m.fwd) <= dead_zone /\ Abs(m.str) <= dead_zone
          /\ Abs(m.rcw) < dead_zone
     THEN Stop
     ELSE DriveWheels(m)
  /\ UnchangedWheels

Drive(m, heading) == Drive_(Rotated(m, heading), DeadZone)

SetBrake ==
  /\ GetBrakeAzimuth
  /\ \A w \in Wheels : Abs(wheel_angles'[w]) <= MaxAngle
  /\ azimuth' = [w \in Wheels |-> Ticks(wheel_angles'[w])]
  /\ held' = "ticks"
  /\ motion' = NoMotion
  /\ UNCHANGED drive
  /\ UnchangedWheels

SetDriveMode(name, setpoint_scale) ==
  /\ drive_scale_factor_' = setpoint_scale
  /\ talon' = [talon EXCEPT !.drive = SetMode(name, talon.drive)]
  /\ motion' = NoMotion
  /\ UNCHANGED <<mathVars, azimuth, held, position, absolute, drive,
                 calibration, zero>>

\* The low twelve bits of the positions the Talons report, which are those of a
\* moment ago.
PulseWidthPosition(lag) == [w \in Wheels |-> (absolute[w] - lag[w]) % Turn]

WriteAzimuthCalibration ==
  /\ \E lag \in [Wheels -> Lags] : calibration' = PulseWidthPosition(lag)
  /\ UNCHANGED <<mathVars, talon, azimuth, held, position, absolute, drive,
                 drive_scale_factor_, zero, motion>>

\* The encoders are set to the distance from the recorded zero; the set points
\* are not changed with them.
ReadAzimuthCalibration ==
  /\ \E lag \in [Wheels -> Lags] :
       position' = [w \in Wheels |-> PulseWidthPosition(lag)[w] - calibration[w]]
  /\ zero' = calibration
  /\ UNCHANGED <<mathVars, talon, azimuth, held, absolute, drive,
                 drive_scale_factor_, calibration, motion>>

CrabDriveAutonomous(setpoint, angle) ==
  /\ SetAzimuth(angle)
  /\ SetDrive(setpoint)
  /\ motion' = NoMotion
  /\ UNCHANGED mathVars
  /\ UnchangedWheels

-----------------------------------------------------------------------------
(* steamworks/subsystems/drive.cc                                          *)

SetTeleOpMode == HasSetpointMax("drive")
                   /\ SetDriveMode("drive", GetSetpointMax("drive"))
SetAutonMode == HasSetpointMax("drive_auton")
                  /\ SetDriveMode("drive_auton", GetSetpointMax("drive_auton"))
SetAzimuthMode ==
  /\ HasSetpointMax("drive_auton_slow_azimuth")
  /\ SetDriveMode("drive_auton_slow_azimuth",
                  GetSetpointMax("drive_auton_slow_azimuth"))

\* The azimuth Talons' registers with the mode SetControlMode gives them.
AzimuthMode(enabled) ==
  [talon EXCEPT !.azimuth.mode = IF enabled THEN "voltage" ELSE "position"]
HeldIn(registers) ==
  IF registers.azimuth.mode = talon.azimuth.mode THEN held ELSE "none"

SetAzimuthTestModeEnabled(enabled) ==
  /\ talon' = AzimuthMode(enabled)
  /\ held' = HeldIn(talon')

DriveAutonomous(m) == Drive_(m, AutonZone)

-----------------------------------------------------------------------------
(* The azimuths                                                            *)

Turned(by) ==
  /\ position' = [w \in Wheels |-> position[w] + by[w]]
  /\ absolute' = [w \in Wheels |-> (absolute[w] + by[w]) % Turn]
  /\ UNCHANGED <<mathVars, talon, azimuth, held, drive, drive_scale_factor_,
                 calibration, zero, motion>>

InClosedLoop == held # "none" /\ talon.azimuth.mode # "voltage"

\* In closed loop they reach their set points.
AzimuthsTurn ==
  /\ InClosedLoop
  /\ position # azimuth
  /\ Turned([w \in Wheels |-> azimuth[w] - position[w]])

\* Otherwise they turn by their voltage, or by hand.
AzimuthsDrift(by) ==
  /\ \A w \in Wheels : Abs(position[w] + by) <= MaxTicks
  /\ Turned(All(by))

-----------------------------------------------------------------------------

\* While the wheels do what Drive_ told them, every wheel pushes in the
\* direction the motion needs there, forward or backward, and none is told more
\* than full speed, whatever motions came before (swerve_drive.cc 379-409 with
\* swerve_math.cc 50-108).
WheelsPushAsTold ==
  motion # NoMotion =>
    \A w \in Wheels :
      /\ drive[w] # 0 =>
           (azimuth[w] + (IF drive[w] < 0 THEN Turn \div 2 ELSE 0)
              - Ticks(AngleTable[motion][w])) % Turn \in {Turn - 1, 0, 1}
      /\ Abs(drive[w]) <= 1000 * drive_scale_factor_

\* The azimuths are set to the angles the wheels are remembered at.
FollowHistory == azimuth = [w \in Wheels |-> Ticks(wheel_angles[w])]

\* A motion, or the brake, moves no set point by more than a quarter turn
\* (swerve_math.cc 65-77 with swerve_drive.cc 198-204, 401-404), as long as the
\* azimuths follow the history.  They cease to when ZeroAzimuth,
\* CrabDriveAutonomous, DriveZero or the health check set them to zero or to
\* volts without it, and the next motion then moves them by any angle; nor does
\* this say how far a wheel turns whose encoder was reset in between.
MotionsTurnAQuarter ==
  [][FollowHistory /\ mathVars' # mathVars =>
       \A w \in Wheels : Abs(azimuth'[w] - azimuth[w]) <= Turn \div 4]_swerveVars

\* The drive motors run in the mode of one configuration, with all the
\* registers that mode uses written by that configuration, in whatever order
\* the commands change modes, and the speeds are scaled for it.
DriveFitsConfiguration ==
  /\ OfOneConfiguration(talon.drive)
  /\ drive_scale_factor_ = GetSetpointMax(talon.drive.common)
=============================================================================
