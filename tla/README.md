# Verification of the robot programs

This directory holds TLA+ models of the C++ programs in this repository, the TLC
configurations that check them and proofs checked by TLAPS. Paths below are
relative to the repository's root; `S/` stands for `steamworks/src/`.

To check a run: `tlc -config X.cfg M` with the module and configuration of the
table in "Runs". To check the proofs: `tlapm` on `ClimberProofs.tla`,
`DriveProofs.tla`, `GearLoaderProofs.tla`, `SwerveProofs.tla`, `VisionProofs.tla`,
`AimingProofs.tla`, `ShooterProofs.tla` and `ThreadProofs.tla`. `PROJECT.json` maps
every definition to the lines it models and names, for every property, a
plausible bug (the definitions with a comment "Mutant") that it would catch.

## 1. The system

Five programs and libraries share this repository.

| program | what it is | threads |
| --- | --- | --- |
| `steamworks` | the 2017 competition robot | the main loop, and the receiver of vision reports |
| `deadeye` | the vision coprocessor, two cameras | the main loop, and the receiver of camera commands |
| `sidewinder` | library: swerve drive, motor settings, input curves, grapher | the grapher's own thread |
| `avenger` | the t-shirt cannon | the main loop, and the notifier that closes a solenoid |
| `bdc` | a bench program that configures Talons | the operator's dialogue, and the grapher's own thread |

The main loop of a robot is WPILib's: about every 20 ms, when a packet of the
driver station has arrived, it runs one cycle of the command scheduler. A packet
carries buttons and the bit that enables the robot. Motor controllers (Talons)
keep the set point they were given; a disabled robot does not drive them, and an
enabled one drives the set point that is still there.

### Components

For each component: its state; its operations; how it interacts; what is hard;
what makes it correct.

**Command scheduler** (WPILib; used by `S/robot.cc`, `S/oi.cc`). State: active
commands, which of them are initialized, the queue of commands to add, the last
sample of every button binding. Operations: poll buttons, run commands, add
commands. Commands interact through the subsystems they require. Hard: two
bindings sample one button on their own; commands added in one cycle drop or
interrupt one another; a disabled robot cancels commands before they ever ran.
Correct: no two commands with a common requirement are active; a release has its
effect or is one of the few that can be lost.

**Climber** (`S/subsystems/climber.cc`, `S/commands/climber/`). State: voltage,
current limit and ramp of two Talons; `is_running_`, `is_captured_`,
`is_zeroed_`, `is_ratchet_`, `zero_count_`. Operations: CaptureRope, StartClimb,
FinishClimb, Override, StopClimb, which start one another. Hard: stopping a
winch by a release whatever runs, a robot hanging on the rope, encoder reads that
are late. Correct: section 3.

**Vision link** (`S/subsystems/deadeye.cc`, `deadeye/src/`). State: the
coprocessor's commanded and switched mode, connection and capture of two cameras;
the robot's `has_target_` and three error fields. Operations: the two camera
commands, receiving on both sides, the main loop of the coprocessor. They
interact by UDP datagrams and by fields under a mutex. Hard: loss, duplication,
reordering, a reboot, a command in the middle of an iteration. Correct: the robot
aims at what one frame of one camera has shown.

**Target finding** (`deadeye/src/boiler/boiler_frame.cc`,
`deadeye/src/gear/gear_frame.cc`). No state outlives a frame: the contours of a
masked image, sorted by length, become a pair of stripes or a pair of tapes, and
these the errors of a report. Hard: reflections among the contours, limits at
their edges, indexes into two vectors of different length. Correct: the errors
are measured on the targets.

**Aiming** (`S/commands/shooter/get_angle.cc`, `S/subsystems/shooter_elevation.cc`,
`CalculateSolution`). State: the elevation's set point, GetAngle's error and
count, the solution's row. Operations: GetAngle, SetElevation, the elevation
commands of the driver, SetShooter. GetAngle reads `has_target_` and
`centerline_error_` one after the other while reports arrive, and steers an
elevation that SetShooter writes without requiring it. Correct: a solution is
calculated from an aim that was steady.

**Shooter** (`S/commands/shooter/`, `S/commands/hopper.cc`, the subsystems
`hopper`, `shooter_elevation`, `shooter_wheel`). State: hopper voltage, wheel set
point, elevation set point, light, the entry a command group is at and the
children it runs in parallel. Operations: StartShooting (aim, spin up, feed),
StartCloseShot, StartCrowdShot, StopShooting, TeleopInit. Hard: groups cut short
at any entry, parallel children that outlive their entry, a solution computed
late, a set point left on by a disabled robot. Correct: one shot at a time, fed
with its own solution, stopped by the release.

**Shooter wheel** (`S/subsystems/shooter_wheel.cc`, `S/commands/shooter/wheel.cc`).
State: set point and the ramp's own speed. Hard: `int` and `unsigned` mixed.
Correct: a ramp down heads for zero, which it does unless it begins backwards.

**Gear loader** (`S/subsystems/gear.cc`, `S/commands/gear/`). State: intake
motor, polarity of its limit switch, clamp, pivot and its encoder. Operations:
LoadGear, StageGear (deploy, clamp, pivot), ReleaseGear, StartClear, StopClear. Hard:
each may interrupt the others at any point; the switch is configured in opposite
ways. Correct: motor, switch and clamp fit the command that runs; the arm is raised
with the clamp shut.

**Cannon** of avenger (`avenger/src/subsystems/cannon.cc`). State: `barrel_`,
`firing_`, eight solenoids, a mutex, an alarm. Operations: Fire, Reset,
CloseSolenoid on the notifier's thread. Correct: one barrel open at a time, and
that one closed.

**Swerve drive** (`sidewinder/src/swerve/`, `S/subsystems/drive.cc`). State: the
settings and the scale factor of the drive Talons, their set point, the flag that
disables the gyro, the encoders. Operations: SetTeleOpMode, SetAutonMode,
SetAzimuthMode, Drive, SetDrive, SetBrake, ZeroPosition, SetGyroDisabled. Every
drive command shares this state, and some of it outlives the command that wrote
it. Hard: modes, scale factors and zeroed encoders are written on the way in and
used much later. Correct: one command drives, in the mode it scaled for.

**Swerve kinematics and motors** (`sidewinder/src/swerve/swerve_math.cc`,
`swerve_drive.cc`, `sidewinder/src/talon/`). State: for every wheel the angle told,
the direction asked for last and whether it runs backwards; the azimuth encoders,
their calibration in a file; the registers of the Talons. Operations: a motion,
the brake, a change of mode, zeroing, writing and reading the calibration. Hard:
angles grow without a limit, a wheel turns the shorter way and may reverse, a
mode leaves the registers it does not use as they were. Correct: every wheel
pushes where the motion wants it; encoders keep their zero; a Talon's registers
are those of one configuration.

**Health check** (`S/commands/drive/health_check.cc`). State: an iterator for each
of ten lists of test values, a count, motors of every subsystem. Hard: it requires
the drive alone and may be interrupted at any stage; it reads one past the end of
a list; it resets encoders while the wheels still turn. Correct: the azimuths come
back to position mode with their zero; only the motor under test runs, but for
the wheel, which is ramped down beside the tests that follow its own.

**Drive commands** (`S/commands/drive/`, `S/commands/gear/auton/place_gear.cc`).
State: the counters of cycles waited and of cycles on target. Operations:
DriveTeleOp (the default command), EnableBrake, DisableBrake, Drive, GyroAzimuth,
DeadeyeAzimuth, PlaceGear. Hard: each is cut short at any cycle by the brake
switch, the shooting button, a timeout or a disable. Correct: whatever they
borrowed is given back on every way out; no position is used that the encoders
had before they were zeroed.

**Autonomous sequences and robot modes** (`S/commands/auton/`, `S/robot.cc`).
State: the mode the main loop is in, the sequence it started, the entry that
sequence is at and its parallel parts. Operations: the Init and Periodic functions
of the modes. AutonomousInit starts a sequence; TeleopInit does not cancel it.
Hard: a sequence that overlaps with the driver's commands; entries that push
earlier parallel ones out of their way. Correct: what a sequence cut short leaves
behind never drives the robot in another mode than its set point was scaled for.

**Grapher and bdc** (`bdc/lib/`, `bdc/src/Main.cpp`). State: the vector of graphable
devices, subscriptions that point into it; the open menus, the Talons in use, the
values typed. The telemetry thread counts, sends and searches the vector with no
lock while the operator's choices add to it and take from it. Correct: the list
sent ends up right, a subscription reads the device it names, a setting leaves
its neighbours alone.

Section 5 lists what is not modelled.

### Hazards

`PROJECT.json` lists what is hard to test in this code, line by line, with the
properties that cover it, or why none does yet.

## 2. Modules

| module | models | composed with |
| --- | --- | --- |
| `Scheduler` | one cycle of frc::Scheduler: "poll", "run", "add" | instantiated by `Climber`, `Shooter`, `GearLoader`, `Drive` |
| `Climber` | climber and its commands | `Scheduler` |
| `Shooter` | shooting sequences, hopper, elevation, light | `Scheduler` |
| `ShooterWheel` | the wheel's numbers | |
| `GearLoader` | gear loader and its commands | `Scheduler` |
| `Drive` | drive commands, PlaceGear, the groups of autonomous, the modes of the main loop | `Scheduler`, `Autonomous` |
| `Autonomous` | the fourteen autonomous sequences as data | |
| `Udp` | datagrams in flight, both ways | `Coprocessor` |
| `Coprocessor` | link thread and main loop of deadeye | `Udp` |
| `RobotDeadeye` | the receiving thread and camera commands of the robot | `Coprocessor` |
| `Vision` | the whole vision system | `RobotDeadeye`, `Sighting` |
| `Sighting` | the abstract promise: the target aimed at is one a camera has found | |
| `TargetFinder` | from contours to reports, as operators | |
| `Aiming` | GetAngle, the elevation, the solution, the reports of `TargetFinder` | `TargetFinder` |
| `SwerveMath` | vectors and history of the wheels | |
| `TalonSettings` | which registers a configuration writes | |
| `Swerve` | the wheels' motors, encoders and calibration | `SwerveMath`, `TalonSettings` |
| `HealthCheck` | the health check and the other commands on these motors | `Swerve`, `ShooterWheel` |
| `Grapher` | the telemetry thread and the vector it shares | |
| `Bdc` | the operator's dialogue | `Grapher` |
| `Cannon` | the cannon and its two threads | |
| `MCAiming`, `MCSwerve`, `MCWheel` | instances for TLC: images, motions, speeds and lags of either sign | `Aiming`, `HealthCheck`, `ShooterWheel` |
| `ClimberProofs`, `VisionProofs`, `AimingProofs`, `GearLoaderProofs`, `DriveProofs` | theorems | the module they are about |
| `ShooterProofs` | theorems about the shooting sequences | `Shooter` |
| `SwerveProofs` | theorems about `ShooterWheel`, `SwerveMath`, `Swerve` and `HealthCheck` | `HealthCheck` |
| `ThreadProofs` | theorems about the programs with a second thread | `Bdc` (with `Grapher`) and `Cannon`, side by side |

How state and actions correspond to the code:

- *Scheduler.* A step is one sample of one button binding, one `Command::Run`, or
  one `ProcessCommandAddition`. `active`, `started` and `additions` are the
  scheduler's command table, the commands whose `Initialize` was called, and its
  queue. `last` is the sample each button scheduler remembers. Bindings are
  polled in the reverse of the order OI creates them in, as WPILib does. A module
  that instantiates `Scheduler` supplies commands, requirements, bindings and one
  action per `Run`, which holds Initialize, Execute, IsFinished and End of that
  command as they occur in one cycle.
- *Packets.* `Overrun` says whether a driver station packet may arrive in the
  middle of a cycle; without it packets fall between two cycles.
- *Voltages and positions* are named after the setting they come from ("climb",
  "ratchet", "stage", "solution"). Currents, encoder reads and what a frame shows
  are open inputs.
- *Groups.* `Shooter` and `GearLoader` keep the entry a group is at (`stage`) and
  the parallel children; entries that finish at once are taken in the same Run,
  as `CommandGroup::_Execute` does. A timed entry may end at any Run after the
  first.
- *Drive.* The set point is named by the command that computed it; `settings` are
  those the Talons have, which the scale factor always goes with. A sequence's Run
  is two halves, as in `CommandGroup::_Execute`: the entries that are due
  (`EnterEntry`, `RunEntry`, `EntriesDone`), then every parallel child once
  (`RunChild`). The order of the commands within one cycle does not matter to the
  drive, and the sequence is taken last. The counters of a drive command are
  forgotten when it is removed, since Initialize resets them. `zeroLag` counts the
  cycles for which the encoders go on reporting what they did before
  ZeroPosition. The StopShooting of the button and the one of TeleopInit are two
  objects in the code and one command here. The driver station may go from
  autonomous to teleop without a disable in between, which `IterativeRobot` admits.
- *Vision.* A datagram is a member of a set: it may be received again, in any
  order, or lost. Both pixel errors of a frame are one value, so that a pair with
  two values mixes two frames. The coprocessor's iteration is three steps (read
  the mode, switch, process), because a command may arrive between them.
  The flag `capture_started_` and the camera are two variables: a call that starts
  or stops the boiler camera may return an error (`capture_failed`), which the code
  logs, setting the flag all the same; the camera (`capturing`) then goes on as
  before. The robot's update of its fields is one critical section, and what is
  said of `Vision` is said of the fields. Commands read them one getter after the
  other, so that a report may come between; those steps are in `Aiming` for
  GetAngle.
- *Target finding.* A contour is a record of its arc length, its area and its
  bounding rectangle, an image a set of contours. An operator yields every report
  an image can lead to: among contours of one length std::sort decides nothing,
  and `target_rects` indexed by a contour's place (`gear_frame.cc:72`) may be read
  behind its end, where `StrayRects` says what is found.
- *Aiming.* Each read GetAngle makes is a step, and a report may arrive between
  two. Errors are in pixels. `RangeLookup` is the row that the trigonometry of
  `CalculateSolution` finds for an elevation, an open function; a row off the
  table's end is in the model.
- *Swerve.* Angles are whole degrees, speeds thousandths, encoders 4096 ticks to
  the turn; the arctangent is a quadratic right to a quarter of a degree. A Talon
  drives nothing after a change of its mode, or StopMotor, until its next Set. Its
  registers are represented by the configuration that wrote them last. `held` is
  the unit of what the azimuth Talons were set to in their present mode. Whatever a
  Talon reports, relative or absolute position, it is that of a moment ago: by any
  of `Lags`, for each wheel its own.
- *Health check.* The value read past the end of a list is any of `Strays`. The
  StopShooterWheel it starts runs beside its next tests and beside whatever
  interrupts it: `stopping` until its Initialize, `ramping` from then on, one Execute
  a step, as many as the ramp takes. Other users of the wheel are in `ShooterWheel`.
- *Gear loader.* `PivotMode` is the control mode the configuration gives the pivot
  Talon; PivotUp does nothing in any other than position mode.
- *Grapher, bdc.* A change of the vector is two steps, and what the telemetry thread
  reads between them is a data race: any of the values the build may come up with.
  What a setting does is kept as the CANTalon calls it makes.
- *Cannon.* A critical section is several steps under an explicit `mutex`, so that
  the exclusion is something the model uses and not its grain.
- *History variables* record what a property needs and change nothing else:
  `stopLost` (a release that no command will act on), `sightings`, `solved`,
  `calibrated`, `spent`, `steady` and `missed` (cycles without a far error; a far
  error that IsFinished did not see), `motion` and `zero` (what the wheels were
  told, the calibration read last), `abandoned` (motors an interrupted check left
  on), `suspect` and `disturbed` (what a data race may have spoiled), `entry`.

## 3. Runs

| run | module, configuration | question |
| --- | --- | --- |
| `climber` | `Climber`, `Climber` | Does a release stop the winch, is a captured rope held, does the winch come to rest? |
| `vision` | `Vision`, `Vision` | Are the errors in the robot's fields those of one frame, does the boiler camera capture in its mode unless it refused to, does the system keep the promise of `Sighting`, does the robot end up believing the camera in use? |
| `aiming` | `MCAiming`, `Aiming` | Are errors measured on the targets, whatever else an image shows? Is a solution calculated from a steady aim? |
| `shooter` | `Shooter`, `Shooter` | The automatic and one fixed shot: one shot at a time, stopped by the release, fed with its own solution; does the shooter come to rest? |
| `wheel_backwards` | `MCWheel`, `WheelBackwards` | violation: see "Findings" |
| `gear` | `GearLoader`, `GearLoader` | Do motor, limit switch and clamp fit the running command, is the arm raised with the clamp shut, does the release of the back button stop the intake? |
| `gear_zero` | `GearLoader`, `GearZero` | violation: see "Findings" |
| `drive` | `Drive`, `Drive` | Every distinct sequence, cut short at any point: does one command drive, in the mode its set point was scaled for, with the gyro it needs and a position read after zeroing? |
| `swerve` | `MCSwerve`, `MCSwerve` | Motion after motion, with the brake and the modes in between: does every wheel push as told, does a motion move the set points that follow the history by a quarter at most, and are the drive Talons those of one configuration? |
| `health` | `MCSwerve`, `HealthCheck` | A health check interrupted at any stage: do the azimuths keep their zero, leave voltage mode and never take volts for ticks or ticks for volts, does only the motor under test run, does the wheel's ramp head for zero beside the next tests? |
| `bdc` | `Bdc`, `Bdc` | Operator and telemetry thread: is the list right, are subscriptions bound to their devices, does the list sent catch up, does an entry set what it names? |
| `cannon` | `Cannon`, `Cannon` | Is the barrel that is open the one that will be closed; is it closed; is every barrel used once a round? |

### Findings

- `gear_zero`: ReleaseGear zeroes the pivot encoder when it is interrupted, with
  the arm wherever it is, where `gear.cc:162` says it is done in the full down
  position.
- `wheel_backwards`: StopShooterWheel "ramps shooter wheel speed down to zero"
  (`wheel.cc:22`), but assigns the signed speed of the wheel to an unsigned
  (`wheel.cc:32`). From a wheel measured at -1 the first set point is -7, and every
  one after it is further from zero, down to the least int. `BackwardsRunsAway` proves this of any speed
  backwards; `RampHeadsForZero` is what holds of every other ramp.

The models also made these visible. No run has them as violations; a property
excepts them where they touch it, and says so:

- DecrementSpeed starts a wheel that stands still (`ShooterWheel`).
- An error of the boiler camera's start or stop is logged and the flag set all the
  same (`boiler_camera.cc:159`, `:180`): the camera then stays idle in boiler mode, or
  streams in the others, until the mode is left and a later call succeeds
  (`CaptureMatchesMode` excepts a camera that refused its last call).
- ZeroAzimuth, CrabDriveAutonomous, DriveZero and the health check move the azimuths
  without the history the kinematics keep, and the calibration and the health
  check reset encoders under it: the next motion may turn a wheel by half a turn or
  whole turns (`MotionsTurnAQuarter` is about set points that follow the history).
- After PlaceGear the next Drive changes the mode of the motors and then waits for
  its encoders, while the motors still hold what PlaceGear set, scaled for another
  mode (`SetpointFitsSettings` excepts this wait).
- PlaceGear's End leaves the motors at the speed of the approach, so that the robot
  pushes on until the next command writes a set point, also under the brake
  (`SetpointHasDriver` says how far this goes). The robot's average speed adds two
  wheels and divides by four (`swerve_drive.cc:504`).
- The menu entry "Reverse Nominal" of bdc calls the setter of the forward side
  (`Main.cpp:531`; `EntrySetsWhatItNames` excepts it). A digital input turned into an
  output is deleted while a subscription still reads it.
- An interrupted health check leaves the motor under test at its voltage, and a
  disabled robot cancels a ramp of the wheel half way (`abandoned`). The shooter runs
  on through the tests after its own while it is ramped down by six ticks a cycle;
  the drive motors keep the value read past the end of their list to the end of
  the check, and nothing bounds it (they are not among the `Motors` of
  `OnlyTestedMotorRuns`). Calibration and check reset azimuth encoders to the position
  of a moment ago (`CalibrationKept` allows the lag of one reading and of each check).
- The azimuth Talons come back from the health check in plain position mode, not in
  the motion magic mode `conf` gives them (`drive.cc:62`).
- The right gear tape is looked up by the contour's place among all contours in a
  vector of the contours found (`gear_frame.cc:72`; speckled images are excepted in
  `ErrorsOfTheTargets`). The end of the range table is off by one
  (`deadeye.cc:211`).
- TeleopInit adds the gyro offset of the autonomous mode again every time
  (`robot.cc:161`). Current limits the climber writes are never restored
  (`climber.cc:65`).
- Some releases are lost and then kept on record by `stopLost`: a press and release
  between the samples of the two bindings of one button, and a stop command
  cancelled by a disabled robot before it ran. The shooter alone recovers
  (TeleopInit starts a StopShooting); climber and gear loader do not.

### Bounds, and why they are enough

- *Climber*: both buttons, all seven command objects, `ZeroCountReq = 3` (the code's
  value), packets at any time. Nothing is bounded: the state space is finite.
- *Vision*: two frames of the boiler camera suffice to tell a mixed pair from a
  matched one; one of the gear camera, which writes the third field only; the
  configured mode is the boiler's, so that a reboot changes the mode of a robot
  that places gears.
- *Aiming*: images of up to three of seven contours, chosen to lie on either side of
  every limit: two stripes, one just beyond the other's end, a glare, a tape, a
  long thin reflection, a short one. `kStableCountReq = 3` is the code's. A table of
  one row, with ranges before, on, at the end of and behind it; fields that were
  never written hold a near or a far error.
- *Shooter*: all six bindings are in the model and are polled; in the run the driver
  uses the buttons of the automatic shot and of one fixed one (`ShooterButtons`),
  packets between cycles. The two fixed shots differ in their set points only and
  share one action, so one of them stands for both; the theorems are about any of
  the buttons, and with packets at any time. Wheel speeds are "fast", "slow" and
  "rest", the three the guards tell apart.
- *Wheel*: the limits of the code and measured speeds on both sides of every
  threshold, one of them backwards.
- *Gear loader*: all four buttons and all commands in `gear`, packets between two
  cycles; the two buttons that move the arm in `gear_zero`.
- *Drive*: eight of the fourteen sequences, one of each group whose entries are the
  same but for distances and angles (`Autonomous` defines the others by them);
  packets between cycles; `ZeroLag = 3`, the longest delay that both waits
  (PlaceGear's three cycles, Drive's four) tolerate.
- *Swerve*: four wheels of a base that is longer than wide; driving straight, driving
  while turning, a motion in the dead zone, robot at 90 degrees. `MaxAngle = 230`
  lets a wheel turn past half a turn each way, after which the arithmetic repeats.
  `InUse` names the commands given: all that set the wheels' motors but the health
  check, whose stages are the other run's.
- *Health check*: one wheel, since no stage tells wheels apart; a drift of more than a
  turn, so that "within a turn" is not met by chance; a lag either way and a stray
  value that no other number of the model equals; one check and one calibration. It
  is interrupted by zeroing, by the calibration, by driving by hand (the default
  command) and by disabling; the other commands reach it in the theorems only, which
  hold for all. The ramp of the wheel is in 4-bit integers, so that a wheel found at 7
  takes two steps and one found at -1 three, the first of them to -7: what
  matters to the check is that the ramp outlasts the stage that began it. The motions of
  `swerve` are left out here and the drifts there.
- *bdc*: one Talon, one pin, one subscription, one Talon in use, the entries of "Set
  What?" that cover every kind of question. Places in the vector change by one
  device's removal already; a second Talon adds no new order of steps.
- *Cannon*: the eight barrels of the code.

### Fairness

- `WF(Cycle)` in Climber and Shooter: the main loop never stops running cycles.
  Nothing is assumed of the driver, of currents, encoders, aiming or timeouts
  other than that the driver lets go in the end, which is the premise of the
  liveness properties and not of the specification.
- `Vision`: the coprocessor's loop does not block (`WF(CoprocessorRuns)`); a
  report in flight does not stay there for ever (`WF(Expires)`, for each camera); of
  infinitely many reports not all are lost (`SF`). A camera command is sent once and
  never repeated, so no fairness is assumed for it, and no property says that it
  takes effect: `BeliefFollowsMode` begins where the coprocessor stays in a mode and
  reboots no more.
- `Bdc`: both threads keep running (`WF(RunThread)`, `WF(RunChange)`); the operator may
  stop typing.
- `Cannon`: a call that has begun goes on, the alarm expires, and the notifier
  obtains the mutex (`SF`), which the main thread holds for an instant in 20 ms.

## 4. Proofs

All theorems are for every value of the constants under the named assumptions of
their modules. The pattern is the same everywhere: an inductive invariant, a lemma
that the initial states satisfy it, one lemma or case per action that a step
preserves it, and a last temporal step.

- **ClimberProofs** (any `ZeroCountReq`, with and without overruns). Type
  correctness first. `IInv` adds what `ReleaseStopsWinch` needs: whatever drives
  the winch is *covered*, that is, a button is held, or a release binding still
  remembers the press, or a StopClimb is queued or active, or the release is
  recorded as lost; each driver command, queued or active, is covered in the same
  way, and the commands in the scheduler exclude one another. The property alone is
  not inductive since it speaks only of settled states. `RopeInv` adds the relation
  of `is_captured_`, `is_zeroed_`, the voltage and the ramp to the
  command that runs; the remaining properties follow from it.
- **VisionProofs** (any frames, any configured mode). `IInv`: every report in
  flight and every error value held is of a recorded sighting, the two errors
  belong together, the loop's mode agrees with the switched one while it processes,
  the boiler camera is flagged as capturing in its mode only, and captures as flagged
  unless it refused the last call. So a frame is asked for only from a camera that
  captures, or whose start failed (`FramesOnlyWhileCapturing`). The refinement of `Sighting`
  follows: each step is a sighting, an aim at something seen, a loss of the target
  or a stutter.
- **AimingProofs** (any images, any required count above zero, the limits
  in their order). `SteadyInv`: between two cycles the count is at most the
  number of steady cycles; after Execute it is less, or the error is far and the
  count is about to be reset; or a far error was missed. That middle state, where
  the count and the error it is judged by are of different moments, is why
  `SteadyBeforeSolution` is not obvious.
- **ShooterProofs** (any of the three buttons, with and without
  overruns). `ReleaseStopsShooter` and `OneShotAtATime` speak of what is settled and
  of what the commands require; neither is inductive. `IInv` has two halves. *What
  runs*: every shot and every stop requires the hopper, so that one command at most
  is active (`Exclusive`), though SetShooter writes a wheel and an elevation it does
  not require; the group's parallel children run with it, GetAngle while it aims
  (`ChildrenRun`); and the group, unless it is cancelled, has a solution once
  GetAngle has left and keeps the wheel and the elevation at it while it spins up and
  feeds (`SolvedUnlessCanceled`), from which `FeedsWithSolution` follows. *What will
  stop it*: while anything is on, or a shot waits or runs, the shooter is `Covered`:
  a release binding still remembers the press or is about to sample it, or a
  StopShooting waits or runs, or TeleopInit is still to come, or the stop is on record
  as lost. A shot that waits is covered by its own release (`QueuedCovered`): a stop
  that waits with it may be done before the shot begins.
- **ThreadProofs**, of bdc and its telemetry thread (any Talons, pins,
  subscriptions, values and entries). `BdcInv` has three parts. The *list*: no object is
  on it twice (`OnePlaceEach`) and it lists what exists, but for the object of the
  change that is under way (`ListsWhatExists`, `ChangeIsDue`), so that between two
  changes `EveryObjectListedOnce` holds. The *subscriptions*: what the thread found is
  still at its place when it fetches it (`FoundInPlace`) and what it fetched still
  exists (`BundlesAreLive`), unless the subscription met a change (`suspect`); this is
  where it matters that devices are added at the end. The *menus*: those open are one path
  through the tool (`MenusFollowOnePath`), one question or one change is open at a
  time (`OneThingAtATime`), and a question was asked by the entry chosen last
  (`AskedByEntry`), from which `EntrySetsWhatItNames` follows. Types rest on the devices
  being finitely many, which bounds a place in the list. The thread decides by a
  number whether to send, and reads the vector again when it sends, without a lock:
  `NothingToSend`, the safety part of `ListCatchesUp`, says that it is not misled.
  While nothing was disturbed, the list sent last is a beginning of the vector and no
  shorter than the number remembered (`SentListIsBeginning`), so that it is the whole
  vector when that number is its length.
- **ThreadProofs**, of the cannon (any number of barrels). `CannonInv`: the mutex is
  held by whoever is inside; a solenoid is on from FireOpens to CloseSolenoid and is
  the one `barrel_` names; the barrels spent are those up to `barrel_`. The last part
  is what makes "no barrel twice" inductive.

- **SwerveProofs**, of the shooter wheel (any limits, any measured speeds). `WheelInv`:
  a ramp that did not begin backwards keeps its unsigned speed at or below the
  measured one, and so never reaches the half of the unsigned range that is negative
  as an int (`RampHeadsForZero`, for the wheel with all that writes it and for the
  health check). `BackwardsRunsAway` is one step of the other case.
- **SwerveProofs**, of the drive (any of the four wheels on a base at least two wide and long, any
  motions and headings, any drift of a wheel under voltage, any number of
  measurements, any stray value, any set of lags, either way, with a longest one). Three layers.
  The kinematics: the change of direction is between -180 and 180 and leads to the
  direction asked for, but for a full turn (`ChangeReaches`); with the half turn it is
  at most 90 (`HalfTurnSaves`), which is `QuarterTurn`; `HistoryAgrees` is inductive
  together with the types. The refinement (`ImplementsMath`): every step of the
  drive, its modes, calibrations and health checks does to the history what a step of
  `SwerveMath` may do, or leaves it alone, so that both hold of the history in the
  whole drive (`DriveHistoryAgrees`). A step that changes the history also sets the
  azimuths to it, and two angles a quarter turn apart are as many ticks apart, since
  rounding moves an angle by less than half a tick (`QuarterOfTicks`): that is
  `SetpointsTurnAQuarter`. The invariant `HealthInv` of motors and health check:
  set points are those of the last motion while there is one (`AsTold`) and there is
  none during a check; registers and scale are of one configuration; volts are held in
  voltage mode only and ticks in the others only, for which the check must have left
  voltage mode once its azimuth test is over (`HeldInv`); voltage mode lasts during
  a check only; the stages are gone through in their order (`InOrder`), which
  is what says that the climber's first motor brakes before its second starts
  (`MasterOver`) and that the encoders are set once in a check; the
  reading costs its lag, and a check does when it sets the encoders and not before
  (`LagInv`, with `Done` checks instead of those begun: `CalibrationKept` by itself is not inductive, since the check that
  spends the lag began stages earlier); and the azimuths are held at zero, less
  than a turn away, once they are told to go there (`ZeroInv`). Motors that run are
  under test, abandoned, or the wheel while it is being stopped, which no stage waits
  for. That no wheel is
  given more than full speed rests on the largest speed being divided out, for which
  the vectors' integer square root is shown to exist by the least element of a set of
  naturals (`WFMin`), not by induction.
- **GearLoaderProofs** (any set of the four buttons). The gear loader is one
  requirement, so that one command at most is active (`Exclusive`); `IInv` relates motor,
  switch, clamp and pivot to it. `PivotsClampShut` needs that StageGear,
  from the end of DeployGear on, holds the clamp shut (`StageHoldsGear`), though three
  other commands open it. `ReleaseStopsClearing` needs what will stop the
  intake: the release is still going to be noticed by a binding, or a StopClear waits
  or runs, or the release is recorded as lost (`ClearCovered`), and a queued StartClear
  is covered in the same way.
- **DriveProofs** (any selection of the fourteen sequences, any lag). `IInv` has two
  halves. `Control` says what may run: two active commands never share a requirement;
  the modes of the main loop let one sequence at most be active or waiting
  (`OneSequence`: a mode is left for autonomous through a disabled cycle only, which
  cancels what is there); a sequence runs commands it has come to (`GroupInv`); and its
  first Run, in which the scheduler does not count it as initialized, ends with its
  first drive (`FirstTurn`). From it follows that two commands never drive at once
  (`OneDriver`). `MotorInv` says what that has done to the motors: which set points the
  command that drives may have left (`SetpointInv`), which settings it has made,
  how far it has counted, and how long the encoders still report an old position
  (`LagInv`: the cycles waited and those left are together at most `ZeroLag`, one more
  between the command's own Run and the end of the cycle). Between
  the two, `FreshInv`: what PlaceGear left is gone before another sequence begins,
  since the robot was disabled in between, so that the exception of
  `SetpointFitsSettings` is a later Drive of its own sequence. Both halves rest
  on facts about the sequences as data, proved entry by entry (`WellFormed`): a
  sequence drives somewhere before it turns, places a gear or shoots, and shoots right
  after a turn, whose End has stopped the wheels (`TurnedStill`); without the last fact
  a parallel StartShooting would begin under a set point of another command.
  `PositionFresh` has the hypothesis `ZeroLag <= 3`, the wait of PlaceGear: with a
  longer lag the property is false, and nothing in the code bounds it.

Type correctness is a theorem of each of these modules and is not checked by a run
a second time. Where an inductive invariant is more than the properties of a
run, TLC has checked it on the instance of that run before it was proved.

Every safety invariant and every action property of the passing runs is a theorem
but one. Only model-checked: `ErrorsOfTheTargets`, whose operators pick from data and
would need induction over the contours of an image; and the liveness properties
(`WinchComesToRest`, `ShooterComesToRest`, `BeliefFollowsMode`, `ListCatchesUp`,
`SolenoidCloses`), which are out of the prover's reach. What
`ShooterComesToRest` and `ListCatchesUp` need of safety is proved
(`ReleaseStopsShooter`, `NothingToSend`).

## 5. What the models leave out

- Time: 20 ms cycles are counted nowhere; a timeout may end at any Run.
- OpenCV's part of an image, up to its contours; the trigonometry that leads to a
  row of the range table; rotation about the shooter, which no command uses.
- `ToggleHopper` on the D-pad and the dashboard's test commands. The motors of
  other subsystems the health check writes are in `HealthCheck`, not together with
  the commands that require those subsystems.
- The "Gear Loaded" light of the dashboard, which no code reads.
- Distances and angles of autonomous drives; the gyro offset that the Init functions
  of the modes set; TimedAzimuth, which nothing uses.
- The hardware error report of the robot's enumeration, which no sender in this
  repository sends: on its receipt the robot would keep `has_target_`.
- The silence of the coprocessor: `has_target_` has no age in the code.

### Not modelled

- *Fuel intake*: one motor, three commands that keep nothing and decide by a measured
  speed.
- *Coprocessor start and frame rate*, *hardware map and logging*: configuration is
  read, files and motor controllers are created, once, before anything moves.
- *Input curves*: a cubic on doubles, and a moving average that only the example
  robot uses.
- *avenger's drive and turret*: default commands that copy a stick to a motor.
- *Example and tests*: read as documentation of the library.

## 6. Plan

Done: the scheduler and the subsystems on it; the vision link and its promise;
drive, autonomous sequences and modes; target finding and aiming; swerve
kinematics, Talon settings, calibration and health check; grapher and bdc; the
cannon; the proofs of section 4.

Left: the gyro offset through disable and enable; ToggleHopper; fuel intake, should
its commands come to keep state.
