----------------------------- MODULE HealthCheck -----------------------------
(***************************************************************************)
(* The commands that use the swerve drive as a set of motors: driving by   *)
(* hand, the brake, zeroing and calibrating the azimuths, driving the      *)
(* wheels to zero, the health check, and the drive modes of autonomous.    *)
(*                                                                         *)
(* Of the health check's own state the model keeps the iterators and the   *)
(* count of measurements; what it measures is only logged.  The shooter    *)
(* wheel is stopped by the ramp of ShooterWheel, beside the next tests.    *)
(***************************************************************************)
EXTENDS Swerve, ShooterWheel, Sequences

CONSTANTS
  InUse,       \* the commands given by the operator and by autonomous
  kCountReq,   \* measurements at every value
  Strays,      \* what the element past the end of a list of voltages may be
  MaxChecks,   \* bound on health checks started
  MaxWrites    \* bound on calibrations written

ASSUME HealthAssumption == kCountReq \in Nat /\ Strays \subseteq Int

VARIABLES
  enabled,           \* the robot is
  command,           \* that uses the drive
  started,           \* its Initialize has run
  read_cal_,         \* ReadAzimuthCalibration is started
  iter,              \* for every list of test values, the next one
  count_,
  is_transitioning_,
  motor,             \* other motors set to run
  coast,             \* climber motors that do not brake
  stopping,          \* StopShooterWheel is started; it runs while ramping
  checks, writes,    \* health checks and calibrations so far
  abandoned          \* history: motors left as they were by an interrupted check
                     \* or, the wheel, by a cancelled StopShooterWheel

checkVars == <<iter, count_, is_transitioning_>>
stopVars == <<stopping, wheelVars>>
motorVars == <<motor, coast, abandoned, stopVars>>
vars == <<swerveVars, enabled, command, started, read_cal_, checkVars, motorVars,
          checks, writes>>

Stages ==
  <<"drive", "azimuth", "azimuth_position", "shooter", "elevation", "hopper",
    "intake", "gear_intake", "climber_master", "climber_slave">>
DriveVoltages == <<2000, 11500>>
AzimuthVoltages == <<6>>
\* How many values every test has.
Tests ==
  [drive |-> Len(DriveVoltages), azimuth |-> Len(AzimuthVoltages),
   azimuth_position |-> 1, shooter |-> 2, elevation |-> 9, hopper |-> 3,
   intake |-> 1, gear_intake |-> 2, climber_master |-> 2, climber_slave |-> 2]
Motors == {"shooter", "hopper", "intake", "gear_intake", "climber_master",
           "climber_slave"}
Climber == {"climber_master", "climber_slave"}
TestsLeft(s) == iter[s] <= Tests[s]
IsStage(s) ==
  /\ command = "health" /\ started
  /\ \E i \in 1 .. Len(Stages) :
       /\ Stages[i] = s
       /\ TestsLeft(s)
       /\ \A j \in 1 .. i - 1 : ~TestsLeft(Stages[j])
IsLast(s) == iter[s] = Tests[s]

Operator == {"brake", "disable_brake", "zero", "write", "drive_zero", "health"}
Autonomous == {"auton_drive", "auton_azimuth"}
Commands == {"none", "teleop", "read"} \cup Operator \cup Autonomous

HealthTypeOK ==
  /\ SwerveTypeOK /\ WheelTypeOK
  /\ enabled \in BOOLEAN /\ read_cal_ \in BOOLEAN
  /\ command \in Commands
  /\ started \in BOOLEAN /\ is_transitioning_ \in BOOLEAN
  /\ \A s \in DOMAIN Tests : iter[s] \in 1 .. Tests[s] + 1
  /\ count_ \in 0 .. kCountReq
  /\ motor \subseteq Motors
  /\ coast \subseteq Climber /\ abandoned \subseteq Motors
  /\ stopping \in BOOLEAN

Init ==
  /\ SwerveInit /\ WheelInit
  /\ enabled = FALSE /\ command = "none" /\ started = FALSE /\ read_cal_ = FALSE
  /\ iter = [s \in DOMAIN Tests |-> 1]
  /\ count_ = 0 /\ is_transitioning_ = TRUE
  /\ motor = {}
  /\ coast = {} /\ stopping = FALSE /\ abandoned = {}
  /\ checks = 0 /\ writes = 0

-----------------------------------------------------------------------------
(* The commands' Initialize, Execute and End                               *)

IteratorsBegin == iter' = [s \in DOMAIN Tests |-> 1]

PrepareTest ==
  /\ count_' = 0
  /\ is_transitioning_' = TRUE

\* SetTeleOpMode, with what becomes of the azimuth Talons' registers.
StartCheck(registers) ==
  /\ HasSetpointMax("drive")
  /\ drive_scale_factor_' = GetSetpointMax("drive")
  /\ talon' = [registers EXCEPT !.drive = SetMode("drive", talon.drive)]
  /\ held' = HeldIn(talon')
  /\ motion' = NoMotion
  /\ UNCHANGED <<mathVars, azimuth, position, absolute, drive, calibration, zero>>
  /\ IteratorsBegin
  /\ PrepareTest

\* Mutant: the azimuths stay in position mode.
HealthInPositionMode == StartCheck(talon)

\* SetAzimuthTestModeEnabled(true).
HealthInitialize == StartCheck(AzimuthMode(TRUE))

HealthEnd ==
  /\ SetAzimuthTestModeEnabled(FALSE)
  /\ UNCHANGED <<mathVars, azimuth, position, absolute, drive,
                 drive_scale_factor_, calibration, zero, motion>>

TeleOpInitialize == SetTeleOpMode
TeleOpEnd == Drive(NoMotion, 0)

ZeroWheelAzimuthInitialize == ZeroAzimuth
ZeroWheelAzimuthIsFinished == Abs(position["rr"]) < 3
ZeroWheelAzimuthEnd ==
  /\ held' = "none"
  /\ UNCHANGED <<mathVars, talon, azimuth, position, absolute, drive,
                 drive_scale_factor_, calibration, zero, motion>>

kDriveSetpoint == 250000
DriveZeroInitialize ==
  /\ HasSetpointMax("drive_auton")
  /\ drive_scale_factor_' = GetSetpointMax("drive_auton")
  /\ talon' = [talon EXCEPT !.drive = SetMode("drive_auton", talon.drive)]
  /\ azimuth' = All(0) /\ held' = "ticks"
  /\ drive' = All(kDriveSetpoint)
  /\ motion' = NoMotion
  /\ UNCHANGED <<mathVars, position, absolute, calibration, zero>>
DriveZeroEnd == CrabDriveAutonomous(0, 0)

\* The commands that drive in autonomous end with the wheels stopped.
AutonEnd == Stop /\ UnchangedWheels

Initialize_(c) ==
  \/ c = "teleop" /\ TeleOpInitialize /\ UNCHANGED checkVars
  \/ c = "brake" /\ SetBrake /\ UNCHANGED checkVars
  \/ c = "zero" /\ ZeroWheelAzimuthInitialize /\ UNCHANGED checkVars
  \/ c = "write" /\ WriteAzimuthCalibration /\ UNCHANGED checkVars
  \/ c = "read" /\ ReadAzimuthCalibration /\ UNCHANGED checkVars
  \/ c = "drive_zero" /\ DriveZeroInitialize /\ UNCHANGED checkVars
  \/ c = "health" /\ HealthInitialize
  \/ c = "auton_drive" /\ SetAutonMode /\ UNCHANGED checkVars
  \/ c = "auton_azimuth" /\ SetAzimuthMode /\ UNCHANGED checkVars
  \/ c = "disable_brake" /\ UNCHANGED <<swerveVars, checkVars>>

End_(c) ==
  \/ c = "teleop" /\ TeleOpEnd
  \/ c = "zero" /\ ZeroWheelAzimuthEnd
  \/ c = "drive_zero" /\ DriveZeroEnd
  \/ c = "health" /\ HealthEnd
  \/ c \in Autonomous /\ AutonEnd
  \/ c \in {"none", "brake", "write", "read", "disable_brake"}
       /\ UNCHANGED swerveVars

-----------------------------------------------------------------------------
(* The scheduler                                                           *)

\* The motors the check in progress would leave as they are.
CheckedMotors == IF \E s \in DOMAIN Tests : IsStage(s) THEN motor \cup coast ELSE {}

\* The wheel, while a StopShooterWheel is on its way or ramps it down.
StoppedMotors == IF stopping \/ ramping THEN motor \cap {"shooter"} ELSE {}

\* The command ends, and c takes the drive.
GoesTo(c, left) ==
  /\ IF started THEN End_(command) ELSE UNCHANGED swerveVars
  /\ command' = c
  /\ started' = FALSE
  /\ read_cal_' = FALSE
  /\ abandoned' = abandoned \cup left
  /\ UNCHANGED <<checkVars, motor, coast>>

\* A command of the operator's, or one that the command in progress started.
Replace(c) ==
  /\ enabled
  /\ \/ /\ c \in Operator \cap InUse /\ ~read_cal_
        /\ c = "health" => checks < MaxChecks
        /\ c = "write" => writes < MaxWrites
     \/ c = "read" /\ read_cal_
     \/ c \in Autonomous \cap InUse /\ command \in {"none"} \cup Autonomous
  /\ GoesTo(c, CheckedMotors)
  /\ checks' = IF c = "health" THEN checks + 1 ELSE checks
  /\ writes' = IF c = "write" THEN writes + 1 ELSE writes
  /\ UNCHANGED <<enabled, stopVars>>

Finished ==
  \/ command = "none"
  \/ /\ started
     /\ \/ command \in {"read", "disable_brake"} \cup Autonomous
        \/ command = "zero" /\ ZeroWheelAzimuthIsFinished
        \/ command = "health" /\ \A s \in DOMAIN Tests : ~TestsLeft(s)

\* DriveTeleOp is the drive's default command.
Default ==
  /\ enabled /\ Finished
  /\ GoesTo("teleop", CheckedMotors)
  /\ UNCHANGED <<enabled, stopVars, checks, writes>>

\* The command that writes the calibration starts the one that reads it.
Start ==
  /\ enabled
  /\ command # "none" /\ ~started
  /\ Initialize_(command)
  /\ started' = TRUE
  /\ read_cal_' = (command = "write")
  /\ UNCHANGED <<enabled, command, motorVars, checks, writes>>

\* A disabled robot runs no command: the ones in progress are cancelled, and so
\* are those that were only started.
Disable ==
  /\ enabled
  /\ enabled' = FALSE
  /\ GoesTo("none", CheckedMotors \cup StoppedMotors)
  /\ stopping' = FALSE
  /\ InterruptRamp /\ UNCHANGED setpoint
  /\ UNCHANGED <<checks, writes>>

Enable ==
  /\ ~enabled
  /\ enabled' = TRUE
  /\ UNCHANGED <<swerveVars, command, started, read_cal_, checkVars, motorVars,
                 checks, writes>>

Steer ==
  /\ enabled /\ started
  /\ \/ command = "teleop" /\ \E m \in Motions, h \in Headings : Drive(m, h)
     \/ command \in Autonomous /\ \E m \in Motions : DriveAutonomous(m)
  /\ UNCHANGED <<enabled, command, started, read_cal_, checkVars, motorVars,
                 checks, writes>>

\* It runs beside the commands that use the drive; with every call the wheel's
\* Talon is given a set point, the last of which is zero.
StopShooterWheel ==
  /\ enabled
  /\ \/ stopping /\ stopping' = FALSE /\ \E s \in MeasuredSpeeds : BeginRamp(s)
     \/ ContinueRamp /\ UNCHANGED stopping
  /\ IF ramping'
     THEN motor' = motor \cup {"shooter"} /\ UNCHANGED abandoned
     ELSE motor' = motor \ {"shooter"} /\ abandoned' = abandoned \ {"shooter"}
  /\ UNCHANGED <<swerveVars, enabled, command, started, read_cal_, checkVars, coast,
                 checks, writes>>

-----------------------------------------------------------------------------
(* The health check                                                        *)

NextValue(s) == iter' = [iter EXCEPT ![s] = @ + 1]

\* The warm-up may pass at any time before the first measurement.
WarmingUp == count_ = 0

Measure ==
  /\ count_ < kCountReq
  /\ count_' = count_ + 1
  /\ UNCHANGED <<swerveVars, iter, is_transitioning_>>

\* After the last measurement the iterator is at the next value already, and
\* after the last value at whatever lies past the list.
NextSetpoints(s, voltages) ==
  IF IsLast(s) THEN Strays ELSE {voltages[iter[s] + 1]}

CheckSwerveMotors(s, voltages, Set(_)) ==
  /\ IsStage(s)
  /\ \/ Measure
     \/ /\ WarmingUp
        /\ Set(voltages[iter[s]])
        /\ UNCHANGED checkVars
     \/ /\ count_ = kCountReq
        /\ \E v \in NextSetpoints(s, voltages) : Set(v)
        /\ NextValue(s) /\ PrepareTest
  /\ UNCHANGED motorVars

CheckDriveMotors ==
  CheckSwerveMotors("drive", DriveVoltages, LAMBDA v :
    /\ drive' = All(v)
    /\ UNCHANGED <<mathVars, azimuth, held, motion>> /\ UnchangedWheels)

CheckAzimuthMotors ==
  CheckSwerveMotors("azimuth", AzimuthVoltages, LAMBDA v :
    /\ azimuth' = All(v) /\ held' = "volts"
    /\ UNCHANGED <<mathVars, drive, motion>> /\ UnchangedWheels)

\* What the Talons report, in the unit of their mode.
Get(registers, lag) ==
  IF registers.azimuth.mode = "voltage" THEN azimuth
  ELSE [w \in Wheels |-> position[w] - lag[w]]

\* Mutant: the turns are kept.
EncodersAsTheyAre(lag) == position' = Get(AzimuthMode(FALSE), lag)
\* Mutant: the encoders are read before the Talons leave voltage mode.
EncodersInVoltage(lag) ==
  position' = [w \in Wheels |-> Get(talon, lag)[w] % Turn]

EncodersWithinATurn(lag) ==
  position' = [w \in Wheels |-> Get(AzimuthMode(FALSE), lag)[w] % Turn]

\* The encoders are set to the positions the Talons report, which are those of
\* a moment ago while the wheels run down from their voltage test.
CheckAzimuthEncoders ==
  /\ IsStage("azimuth_position")
  /\ IF is_transitioning_
     THEN /\ talon' = AzimuthMode(FALSE)
          /\ \E lag \in [Wheels -> Lags] : EncodersWithinATurn(lag)
     ELSE UNCHANGED <<talon, position>>
  /\ \/ /\ azimuth' = All(0) /\ held' = "ticks"
        /\ is_transitioning_' = FALSE
        /\ UNCHANGED <<iter, count_>>
     \/ /\ held' = HeldIn(talon')
        /\ NextValue("azimuth_position") /\ PrepareTest
        /\ UNCHANGED azimuth
  /\ UNCHANGED <<mathVars, absolute, drive, drive_scale_factor_, calibration,
                 zero, motion, motorVars>>

\* A test of another motor: free is the climber motor that turns along with it.
CheckMotor(s, free, after) ==
  /\ IsStage(s)
  /\ \/ Measure /\ UNCHANGED motorVars
     \/ /\ WarmingUp
        /\ motor' = motor \cup {s}
        /\ coast' = coast \cup free
        /\ UNCHANGED <<swerveVars, checkVars, abandoned, stopVars>>
     \/ /\ count_ = kCountReq
        /\ NextValue(s) /\ PrepareTest
        /\ IF IsLast(s)
           THEN /\ after
                /\ coast' = coast \ free
                /\ abandoned' = abandoned \ ({s} \cup free)
           ELSE UNCHANGED motorVars
        /\ UNCHANGED swerveVars

\* Mutant: a motor is not stopped after its last test.
LeftRunning(s) == UNCHANGED <<motor, stopVars>>
Stopped(s) == motor' = motor \ {s} /\ UNCHANGED stopVars

\* The wheel is not stopped here: a StopShooterWheel is started.
CheckShooterWheelMotor ==
  CheckMotor("shooter", {}, stopping' = TRUE /\ UNCHANGED <<motor, wheelVars>>)
CheckHopperMotor == CheckMotor("hopper", {}, Stopped("hopper"))
CheckIntakeMotor == CheckMotor("intake", {}, Stopped("intake"))
CheckGearIntakeMotor == CheckMotor("gear_intake", {}, Stopped("gear_intake"))
CheckClimberMasterMotor ==
  CheckMotor("climber_master", {"climber_slave"}, Stopped("climber_master"))
CheckClimberSlaveMotor ==
  CheckMotor("climber_slave", {"climber_master"}, Stopped("climber_slave"))

\* The elevation is moved and read, and stays where it is.
CheckElevationEncoder ==
  /\ IsStage("elevation")
  /\ \/ is_transitioning_' = FALSE /\ UNCHANGED <<iter, count_>>
     \/ NextValue("elevation") /\ PrepareTest
  /\ UNCHANGED <<swerveVars, motorVars>>

ExecuteHealthCheck ==
  /\ enabled
  /\ \/ CheckDriveMotors
     \/ CheckAzimuthMotors
     \/ CheckAzimuthEncoders
     \/ CheckShooterWheelMotor
     \/ CheckElevationEncoder
     \/ CheckHopperMotor
     \/ CheckIntakeMotor
     \/ CheckGearIntakeMotor
     \/ CheckClimberMasterMotor
     \/ CheckClimberSlaveMotor
  /\ UNCHANGED <<enabled, command, started, read_cal_, checks, writes>>

-----------------------------------------------------------------------------

Azimuths ==
  /\ \/ enabled /\ AzimuthsTurn
     \/ ~(enabled /\ InClosedLoop) /\ \E by \in Drifts : AzimuthsDrift(by)
  /\ UNCHANGED <<enabled, command, started, read_cal_, checkVars, motorVars, checks,
                 writes>>

Next ==
  \/ Enable
  \/ Disable
  \/ \E c \in Commands : Replace(c)
  \/ Default
  \/ Start
  \/ Steer
  \/ StopShooterWheel
  \/ ExecuteHealthCheck
  \/ Azimuths

Spec == Init /\ [][Next]_vars

-----------------------------------------------------------------------------

\* The azimuths' encoders agree with the absolute ones and the calibration read
\* last, up to full turns, whoever resets them and however the wheels turn: the
\* reading, and every health check, costs no more than the lag of what the
\* Talons report (swerve_drive.cc 301-340, health_check.cc 228-243).
CalibrationKept ==
  \A w \in Wheels :
    \E lag \in -((checks + 1) * LongestLag) .. (checks + 1) * LongestLag :
      (position[w] + lag - (absolute[w] - zero[w])) % Turn = 0

\* The azimuth Talons act on a set point in the unit it was meant in: ticks are
\* never taken for a voltage, nor the volts of the motor test, the stray value
\* after them included, for a position; and voltage mode does not outlast the
\* health check, however it ends (health_check.cc 25-48, 182-243, 497-500; the
\* scheduler's interruption).
TicksNeverVolts ==
  /\ held = "volts" => talon.azimuth.mode = "voltage"
  /\ held = "ticks" => talon.azimuth.mode # "voltage"
  /\ talon.azimuth.mode = "voltage" => command = "health"

\* Driving the wheels back after their voltage test takes less than one turn
\* ("prevent multiple rotations", health_check.cc 231).
ZeroingTurnsLessThanOnce ==
  IsStage("azimuth_position") /\ ~is_transitioning_ /\ held = "ticks" =>
    \A w \in Wheels : position[w] \in 0 .. Turn - 1

\* One of the other subsystems' motors runs, and a motor of the climber does not
\* brake, during its own test only (health_check.cc 268-464), but for the
\* shooter wheel, which runs on through the tests after its own until
\* StopShooterWheel has ramped it down, and for motors whose check was
\* interrupted, or whose StopShooterWheel was cancelled.  The drive's motors
\* are not among them: they keep their last value to the end of the check.
OnlyTestedMotorRuns ==
  /\ \A m \in motor : \/ IsStage(m) \/ m \in abandoned
                      \/ m = "shooter" /\ (stopping \/ ramping)
  /\ \A c \in coast : \/ c \in abandoned
                      \/ \E m \in Climber \ {c} : IsStage(m)
=============================================================================
