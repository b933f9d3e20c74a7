------------------------------- MODULE Shooter -------------------------------
(***************************************************************************)
(* The shooter: the command groups StartShooting (aim with the camera,     *)
(* spin up, feed), StartCloseShot and StartCrowdShot (fixed aim), and      *)
(* StopShooting, which releases of the shooting buttons and TeleopInit     *)
(* start.  They drive the wheel, the elevation, the hopper and the camera  *)
(* light.                                                                  *)
(*                                                                         *)
(* The parts of a group run inside the group's own turn of the cycle.  A   *)
(* wheel or elevation set point is named by the command that computed it;  *)
(* when a child of StartShooting finishes, how long a wait lasts and       *)
(* whether the shooting solution is valid are open.                        *)
(***************************************************************************)
EXTENDS Naturals, Sequences

CONSTANTS
  ShooterButtons,  \* the shooting buttons the driver uses
  Overrun          \* see Scheduler

Buttons == {"auto", "A", "X"}
ASSUME ShooterButtonsAssumption == ShooterButtons \subseteq Buttons

VARIABLES
  held, enabled, phase, poll, last, torun, active, started, additions,
  modeChecked,       \* the main loop has chosen the mode of this cycle
  teleopInitialized, \* TeleopInit was called since the robot was disabled
  wheel,             \* the set point of the shooter wheel
  elevation,         \* the set point of the shooter elevation
  hopper,            \* "off", "solution" or "fixed" (voltage)
  led,               \* TRUE while the shooter camera light is on
  stage,             \* StartShooting: which of its entries it is at
  children,          \* StartShooting: the parallel entries it runs
  canceled,          \* StartShooting: GetAngle::End called group->Cancel
  solved,            \* history: CalculateSolution succeeded in this sequence
  stopLost           \* history: a released button did not lead to a stop

\* Each binding creates its own StopShooting, and so does TeleopInit.
StopShootings ==
  {"StopShooting_auto", "StopShooting_A", "StopShooting_X",
   "StopShooting_teleop"}
FixedShots == {"StartCloseShot", "StartCrowdShot"}
Shots == {"StartShooting"} \cup FixedShots
ShooterCommands == Shots \cup StopShootings

\* Button schedulers run in the reverse of the order OI created them in.
ShooterBindings ==
  << [button |-> "X", edge |-> "release", command |-> "StopShooting_X"],
     [button |-> "X", edge |-> "press", command |-> "StartCloseShot"],
     [button |-> "A", edge |-> "release", command |-> "StopShooting_A"],
     [button |-> "A", edge |-> "press", command |-> "StartCrowdShot"],
     [button |-> "auto", edge |-> "release", command |-> "StopShooting_auto"],
     [button |-> "auto", edge |-> "press", command |-> "StartShooting"] >>

\* Mutant: StartHopper does not require the hopper.
HopperNotRequired ==
  [c \in ShooterCommands |->
     CASE c = "StartShooting" -> {"drive", "elevation", "wheel"}
       [] c \in FixedShots -> {}
       [] c \in StopShootings -> {"hopper", "wheel"}]

\* A group requires what its entries require; SetShooter and the camera
\* commands require nothing.
ShooterRequires ==
  [c \in ShooterCommands |->
     CASE c = "StartShooting" -> {"drive", "elevation", "wheel", "hopper"}
       [] c \in FixedShots -> {"hopper"}
       [] c \in StopShootings -> {"hopper", "wheel"}]

INSTANCE Scheduler WITH
  Commands <- ShooterCommands,
  Requires <- ShooterRequires,
  Interruptible <- ShooterCommands,
  Bindings <- ShooterBindings

driverStation == <<held, enabled>>
scheduler == <<phase, poll, last, torun, active, started, additions>>
mainLoop == <<modeChecked, teleopInitialized>>
group == <<stage, children, canceled, solved>>
shooter == <<wheel, elevation, hopper, led>>
vars == <<driverStation, scheduler, mainLoop, group, shooter, stopLost>>

\* Set points of at least 400 ticks, and those below.  A solution may be
\* either.
FastWheel == {"prepare", "close", "crowd", "rampFast", "solution"}
SlowWheel == {"off", "rampSlow", "solution"}

AimChildren == {"GetAngle", "DeadeyeAzimuth"}
SpinChildren == {"SetElevation", "SetWheel"}

TypeOK ==
  /\ SchedulerTypeOK
  /\ modeChecked \in BOOLEAN
  /\ teleopInitialized \in BOOLEAN
  /\ wheel \in FastWheel \cup SlowWheel
  /\ elevation \in {"zero", "prepare", "close", "crowd", "aim", "solution"}
  /\ hopper \in {"off", "solution", "fixed"}
  /\ led \in BOOLEAN
  /\ stage \in {"aim", "spin", "fed"}
  /\ children \subseteq AimChildren \cup SpinChildren
  /\ canceled \in BOOLEAN
  /\ solved \in BOOLEAN
  /\ stopLost \in BOOLEAN

Init ==
  /\ SchedulerInit
  /\ modeChecked = FALSE
  /\ teleopInitialized = FALSE
  /\ wheel = "off"
  /\ elevation = "zero"
  /\ hopper = "off"
  /\ led = FALSE
  /\ stage = "aim"
  /\ children = {}
  /\ canceled = FALSE
  /\ solved = FALSE
  /\ stopLost = FALSE

-----------------------------------------------------------------------------
(* Entries of the groups *)

\* SetShooter leaves a wheel alone that turns already, and the elevation with
\* it.  "tracked" is what a GetAngle run in the same turn may make of it.
SetShooter(aim, tracked) ==
  \/ wheel \in SlowWheel /\ wheel' = aim /\ elevation' \in {aim} \cup tracked
  \/ /\ wheel \in FastWheel
     /\ elevation' \in {elevation} \cup tracked
     /\ UNCHANGED wheel

\* StopShooterWheel: one call of Execute takes a small step down.  The steps
\* above 400 ticks, and those below, are one step each.
RampDown(speed) ==
  wheel' = CASE speed = "fast" -> "rampFast"
             [] speed = "slow" -> "rampSlow"
             [] speed = "rest" -> "off"

\* Mutant: Execute starts from the measured speed again.
RampedToMeasured == IF wheel = "rampFast" THEN "fast" ELSE "slow"

\* What the next Execute starts from.
RampedTo == IF wheel = "rampFast" THEN "slow" ELSE "rest"

\* Mutant: a bad solution does not cancel the group.
CalculateOnly(isValid) == solved' = (solved \/ isValid) /\ UNCHANGED canceled

\* GetAngle::Execute moves the elevation only while it sees the target.
TrackTarget == elevation' \in {elevation, "aim"}

\* GetAngle::End, called when it is finished and when it is interrupted.
CalculateSolution(isValid) ==
  /\ solved' = (solved \/ isValid)
  /\ canceled' = (canceled \/ ~isValid)

-----------------------------------------------------------------------------
(* StartShooting, one Run of the group *)

IsRunning == "StartShooting" \in started

\* Its first Run: the camera, the light and SetShooter are done at once, the
\* two aiming commands start.  Neither can be stable yet.
BeginShooting ==
  /\ ~IsRunning
  /\ led' = TRUE
  /\ SetShooter("prepare", {"aim"})
  /\ stage' = "aim"
  /\ children' = AimChildren
  /\ canceled' = FALSE
  /\ solved' = FALSE
  /\ KeepRunning("StartShooting")
  /\ UNCHANGED hopper

\* A group that was cancelled is interrupted instead of being run: what has
\* been switched on stays on.
CancelShooting ==
  /\ IsRunning
  /\ canceled
  /\ children' = {}
  /\ canceled' = FALSE
  /\ Finish("StartShooting", additions)
  /\ UNCHANGED <<stage, solved, shooter>>

\* WaitForChildren has not ended: the children run, some of them finish.
RunChildren(finishing, isValid) ==
  /\ IsRunning
  /\ ~canceled
  /\ children # {} \/ finishing # {}
  /\ finishing \subseteq children
  /\ children' = children \ finishing
  /\ IF "GetAngle" \in children THEN TrackTarget ELSE UNCHANGED elevation
  /\ IF "GetAngle" \in finishing THEN CalculateSolution(isValid)
                                 ELSE UNCHANGED <<canceled, solved>>
  /\ UNCHANGED <<stage, wheel, hopper, led>>

AimOn(finishing, isValid) ==
  /\ stage # "fed"
  /\ RunChildren(finishing, isValid)
  /\ KeepRunning("StartShooting")

\* The first WaitForChildren ends with its children or after its time.  A
\* GetAngle still running is in the way of SetElevation: it is interrupted.
SpinUp(finishing, isValid) ==
  /\ IsRunning
  /\ ~canceled
  /\ stage = "aim"
  /\ finishing \subseteq (children \ {"GetAngle"}) \cup SpinChildren
  /\ IF "GetAngle" \in children THEN CalculateSolution(isValid)
                                ELSE UNCHANGED <<canceled, solved>>
  /\ stage' = "spin"
  /\ children' = ((children \ {"GetAngle"}) \cup SpinChildren) \ finishing
  /\ wheel' = "solution"
  /\ elevation' = "solution"
  /\ KeepRunning("StartShooting")
  /\ UNCHANGED <<hopper, led>>

\* The second one ends: feed, light off.  The group goes on while an aiming
\* command runs that did not finish in time.
Feed(finishing) ==
  /\ IsRunning
  /\ ~canceled
  /\ stage = "spin"
  /\ finishing \subseteq children
  /\ hopper' = "solution"
  /\ led' = FALSE
  /\ stage' = "fed"
  /\ children' = children \ finishing
  /\ IF children' = {} THEN Finish("StartShooting", additions)
                       ELSE KeepRunning("StartShooting")
  /\ UNCHANGED <<canceled, solved, wheel, elevation>>

FinishChildren(finishing) ==
  /\ stage = "fed"
  /\ RunChildren(finishing, TRUE)
  /\ IF children' = {} THEN Finish("StartShooting", additions)
                       ELSE KeepRunning("StartShooting")

RunStartShooting ==
  /\ \/ BeginShooting
     \/ CancelShooting
     \/ \E finishing \in SUBSET (AimChildren \cup SpinChildren) :
          \/ \E isValid \in BOOLEAN :
               AimOn(finishing, isValid) \/ SpinUp(finishing, isValid)
          \/ Feed(finishing)
          \/ FinishChildren(finishing)
  /\ UNCHANGED <<driverStation, mainLoop, stopLost>>

-----------------------------------------------------------------------------
(* The other groups *)

\* SetShooter, a WaitCommand, StartHopper.
RunFixedShot(c) ==
  /\ \/ /\ c \notin started
        /\ SetShooter(IF c = "StartCloseShot" THEN "close" ELSE "crowd", {})
        /\ KeepRunning(c)
        /\ UNCHANGED hopper
     \/ /\ c \in started
        /\ KeepRunning(c)
        /\ UNCHANGED <<wheel, elevation, hopper>>
     \/ /\ c \in started
        /\ hopper' = "fixed"
        /\ Finish(c, additions)
        /\ UNCHANGED <<wheel, elevation>>
  /\ UNCHANGED <<driverStation, mainLoop, group, led, stopLost>>

\* Light, hopper and wheel are children of one group: the first two are done
\* in its first Run, the wheel when it has ramped down from its real speed.
RunStopShooting(c, speed) ==
  /\ IF c \in started THEN RampDown(RampedTo) /\ UNCHANGED <<hopper, led>>
                      ELSE RampDown(speed) /\ hopper' = "off" /\ led' = FALSE
  /\ IF wheel' = "off" THEN Finish(c, additions) ELSE KeepRunning(c)
  /\ stopLost' = (stopLost /\ \E d \in Shots : Queued(d))
  /\ UNCHANGED <<driverStation, mainLoop, group, elevation>>

\* Interrupted: the children of StartShooting end with it.  GetAngle may find
\* a solution then, which is nobody's any more.
Interrupt(interrupted) ==
  IF "StartShooting" \in interrupted
  THEN children' = {} /\ canceled' = FALSE /\ UNCHANGED <<stage, solved, shooter>>
  ELSE UNCHANGED <<group, shooter>>

-----------------------------------------------------------------------------
(* The control cycle *)

Unseen(b) ==
  \E i, j \in 1 .. Len(ShooterBindings) :
    /\ ShooterBindings[i].button = b /\ ShooterBindings[i].edge = "press"
    /\ ShooterBindings[j].button = b /\ ShooterBindings[j].edge = "release"
    /\ held[b] /\ last[i] /\ ~last[j]

DriverPressesOrReleases(b) ==
  /\ ToggleButton(b)
  /\ stopLost' = (stopLost \/ Unseen(b))
  /\ UNCHANGED <<scheduler, mainLoop, group, shooter>>

DriverEnablesOrDisables ==
  /\ ToggleEnabled
  /\ UNCHANGED <<scheduler, mainLoop, group, shooter, stopLost>>

\* Mutant: TeleopInit forgets to stop the shooter.
TeleopInitWithoutStop ==
  /\ enabled
  /\ ~teleopInitialized
  /\ teleopInitialized' = TRUE
  /\ stopLost' = FALSE
  /\ UNCHANGED additions

\* The main loop calls TeleopInit in the first cycle after the robot was
\* disabled.  It starts a StopShooting, which makes up for any stop lost.
TeleopInit ==
  /\ enabled
  /\ ~teleopInitialized
  /\ teleopInitialized' = TRUE
  /\ additions' = Enqueue("StopShooting_teleop")
  /\ stopLost' = FALSE

DisabledInit ==
  /\ ~enabled
  /\ teleopInitialized' = FALSE
  /\ UNCHANGED <<additions, stopLost>>

ChooseMode ==
  /\ phase = "poll"
  /\ poll = 1
  /\ ~modeChecked
  /\ modeChecked' = TRUE
  /\ \/ TeleopInit
     \/ DisabledInit
     \/ /\ enabled /\ teleopInitialized
        /\ UNCHANGED <<teleopInitialized, additions, stopLost>>
  /\ UNCHANGED <<driverStation, phase, poll, last, torun, active, started,
                 group, shooter>>

CyclePoll ==
  /\ modeChecked
  /\ PollButton \/ BeginRun
  /\ UNCHANGED <<driverStation, mainLoop, group, shooter, stopLost>>

CycleCancel(c) ==
  /\ CancelDisabled(c)
  /\ Interrupt({c})
  /\ stopLost' = (stopLost \/ c \in StopShootings)
  /\ UNCHANGED <<driverStation, mainLoop>>

CycleAdd ==
  /\ \/ /\ \/ BeginAdd
           \/ \E c \in ShooterCommands : Ignore(c)
        /\ UNCHANGED <<mainLoop, group, shooter>>
     \/ /\ EndCycle
        /\ modeChecked' = FALSE
        /\ UNCHANGED <<teleopInitialized, group, shooter>>
     \/ \E c \in ShooterCommands :
          /\ Insert(c)
          /\ Interrupt(InTheWay(c))
          /\ UNCHANGED mainLoop
  /\ UNCHANGED <<driverStation, stopLost>>

Cycle ==
  \/ ChooseMode
  \/ CyclePoll
  \/ \E c \in ShooterCommands : CycleCancel(c)
  \/ RunStartShooting
  \/ \E c \in FixedShots : RunFixedShot(c)
  \/ \E c \in StopShootings, speed \in {"fast", "slow", "rest"} :
       RunStopShooting(c, speed)
  \/ CycleAdd

Next ==
  \/ \E b \in ShooterButtons : DriverPressesOrReleases(b)
  \/ DriverEnablesOrDisables
  \/ Cycle

Spec == Init /\ [][Next]_vars

\* The main loop keeps running cycles; nothing is assumed of the driver or of
\* how long the parts of a sequence take.
FairSpec == Spec /\ WF_vars(Cycle)

-----------------------------------------------------------------------------
(* Properties *)

NothingHeld == \A b \in Buttons : ~held[b]

AtRest == hopper = "off" /\ wheel = "off" /\ ~led

\* Between two cycles of an enabled robot, with every release sampled and no
\* command left.
Settled ==
  /\ phase = "poll"
  /\ poll = 1
  /\ modeChecked
  /\ teleopInitialized
  /\ active = {}
  /\ additions = <<>>
  /\ \A i \in DOMAIN last : ~last[i]

\* Letting go of the shooting buttons stops the hopper and the wheel and turns
\* the light off, also when the robot was disabled in the middle of a shot or
\* of a stop: TeleopInit stops what kept its set point.  The exceptions, which
\* stopLost records until the next stop or TeleopInit, take a driver station
\* packet in the middle of a cycle: a release between the samples of the two
\* button schedulers, a disable that ends before the next cycle begins.
ReleaseStopsShooter == Settled /\ NothingHeld => AtRest \/ stopLost

\* StartShooting feeds fuel only with a shooting solution computed in the same
\* sequence, and with the wheel and the elevation of that solution: whatever
\* ran out of time, however often it was interrupted before.
FeedsWithSolution ==
  [][hopper # "solution" /\ hopper' = "solution" =>
       solved /\ ~canceled /\ wheel = "solution" /\ elevation = "solution"]_vars

\* SetShooter writes the wheel and the elevation without requiring them: it is
\* the hopper that keeps two shots, or a shot and a stop, from running at once.
OneShotAtATime ==
  /\ \A c, d \in active : c # d => ~Conflicts(c, d)
  /\ \A c \in active \cap Shots : active = {c}
  /\ children # {} => "StartShooting" \in active

\* If the driver lets go for good and the robot stays enabled, the shooter
\* comes to rest, unless a stop was lost.
Quiet == enabled /\ NothingHeld
ShooterComesToRest == <>[]Quiet => <>[](stopLost \/ AtRest)
=============================================================================
