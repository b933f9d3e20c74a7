----------------------------- MODULE GearLoader -----------------------------
(***************************************************************************)
(* The gear loader: subsystem::GearLoader, the commands LoadGear,          *)
(* ReleaseGear, StartClear and StopClear and the group StageGear           *)
(* (DeployGear, CloseClamp, PivotGear), and the buttons OI binds to them.  *)
(*                                                                         *)
(*   left trigger  -> LoadGear      back pressed   -> StartClear           *)
(*   left shoulder -> StageGear     back released  -> StopClear            *)
(*   left corner of the flight simulator -> ReleaseGear                    *)
(*                                                                         *)
(* Voltages, servo and pivot positions are named, not numbered.            *)
(***************************************************************************)
EXTENDS Naturals, Sequences

CONSTANTS
  GearButtons,   \* the buttons the driver uses
  PivotMode,     \* the control mode the configuration gives the pivot Talon
  Overrun        \* see Scheduler

Buttons == {"trigger", "shoulder", "back", "corner"}
ASSUME GearAssumption ==
  /\ GearButtons \subseteq Buttons
  /\ PivotMode \in {"position", "speed", "voltage"}

VARIABLES
  held, enabled, phase, poll, last, torun, active, started, additions,
  motor,         \* the voltage the intake Talon is set to
  normallyOpen,  \* TRUE: a closed forward limit switch stops that Talon
  clamp,         \* the position of the two clamp servos
  pivot,         \* the position the pivot Talon is set to
  stage,         \* StageGear: the entry it is at
  gearIn,        \* the world: a gear closes the forward limit switch
  arm,           \* the world: where the pivot is
  calibrated,    \* history: the pivot encoder was zeroed with the arm down
  stopLost       \* history: a release of the back button did not stop the motor

GearCommands ==
  {"LoadGear", "StageGear", "ReleaseGear", "StartClear", "StopClear"}

\* Mutant: nothing is bound to the release of the back button.
BindingsWithoutStop ==
  << [button |-> "back", edge |-> "press", command |-> "StartClear"],
     [button |-> "shoulder", edge |-> "press", command |-> "StageGear"],
     [button |-> "trigger", edge |-> "press", command |-> "LoadGear"],
     [button |-> "corner", edge |-> "press", command |-> "ReleaseGear"] >>

\* Button schedulers run in the reverse of the order OI created them in.
GearBindings ==
  << [button |-> "back", edge |-> "release", command |-> "StopClear"],
     [button |-> "back", edge |-> "press", command |-> "StartClear"],
     [button |-> "shoulder", edge |-> "press", command |-> "StageGear"],
     [button |-> "trigger", edge |-> "press", command |-> "LoadGear"],
     [button |-> "corner", edge |-> "press", command |-> "ReleaseGear"] >>

\* Mutant: StageGear, with the entries it has, requires nothing.
StageRequiresNothing ==
  [c \in GearCommands |-> IF c = "StageGear" THEN {} ELSE {"gear_loader"}]

GearRequires == [c \in GearCommands |-> {"gear_loader"}]

INSTANCE Scheduler WITH
  Commands <- GearCommands,
  Requires <- GearRequires,
  Interruptible <- GearCommands,
  Bindings <- GearBindings

driverStation == <<held, enabled>>
scheduler == <<phase, poll, last, torun, active, started, additions>>
intake == <<motor, normallyOpen>>
gripper == <<clamp, pivot, calibrated>>
world == <<gearIn, arm>>
vars == <<driverStation, scheduler, intake, gripper, stage, world, stopLost>>

TypeOK ==
  /\ SchedulerTypeOK
  /\ motor \in {"off", "load", "deploy", "clear"}
  /\ normallyOpen \in BOOLEAN
  /\ clamp \in {"unset", "stage", "shut", "release"}
  /\ pivot \in {"unset", "up", "down", "below"}
  /\ stage \in {"deploy", "clamp", "pivot"}
  /\ gearIn \in BOOLEAN
  /\ arm \in {"down", "up"}
  /\ calibrated \in BOOLEAN
  /\ stopLost \in BOOLEAN

\* The robot starts with its arm down and perhaps a gear; the encoder is
\* calibrated with the absolute one.
Init ==
  /\ SchedulerInit
  /\ motor = "off"
  /\ normallyOpen = TRUE
  /\ clamp = "unset"
  /\ pivot = "unset"
  /\ stage = "deploy"
  /\ gearIn \in BOOLEAN
  /\ arm = "down"
  /\ calibrated = TRUE
  /\ stopLost = FALSE

-----------------------------------------------------------------------------
(* The operations of the subsystem *)

SetLoadLimitSwitchNormallyOpen(open) == normallyOpen' = open

Load == motor' = "load"

Deploy == motor' = "deploy"

StopLoader == motor' = "off"

ClearLoader == motor' = "clear"

IsLoadLimitSwitchClosed == gearIn

ClampStage == clamp' = "stage"

ClampShut == clamp' = "shut"

ClampRelease == clamp' = "release"

SetPivotPosition(position) == pivot' = position

\* In another mode the position would be taken for a speed or a voltage.
PivotUp ==
  IF PivotMode = "position" THEN SetPivotPosition("up") ELSE UNCHANGED pivot

\* Wherever the arm is.
SetPivotEncoderZero == calibrated' = (arm = "down")

\* IsPivotUp: an encoder that is off may say anything.
MayBePivotUp == arm = "up" \/ ~calibrated

MayNotBePivotUp == arm # "up" \/ ~calibrated

-----------------------------------------------------------------------------
(* LoadGear *)

LoadInitialize ==
  /\ ClampShut
  /\ SetLoadLimitSwitchNormallyOpen(TRUE)
  /\ Load

\* Mutant: End leaves the motor to the limit switch.
LoadEndKeepsMotor ==
  /\ SetLoadLimitSwitchNormallyOpen(FALSE)
  /\ UNCHANGED motor

\* The default Interrupted of a command calls its End.
LoadEnd ==
  /\ StopLoader
  /\ SetLoadLimitSwitchNormallyOpen(FALSE)

\* IsFinished reads the switch; with a gear in place the first Run is the last.
RunLoadGear ==
  LET c == "LoadGear" IN
  /\ IF IsLoadLimitSwitchClosed
     THEN /\ Finish(c, additions)
          /\ IF c \in started THEN UNCHANGED clamp ELSE ClampShut
          /\ LoadEnd
     ELSE /\ KeepRunning(c)
          /\ IF c \in started THEN UNCHANGED <<clamp, intake>>
                              ELSE LoadInitialize
  /\ UNCHANGED <<driverStation, pivot, calibrated, stage, world, stopLost>>

-----------------------------------------------------------------------------
(* StageGear: each of its entries, and what follows in the same Run *)

\* Mutant: the limit switch keeps the polarity it was left with.
DeployInitializeKeepsSwitch ==
  /\ Deploy
  /\ ClampStage
  /\ UNCHANGED normallyOpen

DeployInitialize ==
  /\ SetLoadLimitSwitchNormallyOpen(FALSE)
  /\ ClampStage
  /\ Deploy

DeployEnd ==
  /\ StopLoader
  /\ SetLoadLimitSwitchNormallyOpen(TRUE)

\* DeployGear while the switch is closed; then CloseClamp.
RunDeploy ==
  /\ "StageGear" \notin started \/ stage = "deploy"
  /\ KeepRunning("StageGear")
  /\ IF IsLoadLimitSwitchClosed
     THEN /\ stage' = "deploy"
          /\ IF "StageGear" \in started THEN UNCHANGED <<clamp, intake>>
                                        ELSE DeployInitialize
     ELSE /\ stage' = "clamp"
          /\ ClampShut
          /\ DeployEnd
  /\ UNCHANGED pivot

\* The timed CloseClamp is not over yet.
RunClamp ==
  /\ "StageGear" \in started
  /\ stage = "clamp"
  /\ KeepRunning("StageGear")
  /\ UNCHANGED <<stage, clamp, intake, pivot>>

\* PivotGear, from its Initialize on.
RunPivot ==
  /\ "StageGear" \in started
  /\ stage \in {"clamp", "pivot"}
  /\ stage' = "pivot"
  /\ IF stage = "clamp" THEN PivotUp ELSE UNCHANGED pivot
  /\ \/ MayNotBePivotUp /\ KeepRunning("StageGear")
     \/ MayBePivotUp /\ Finish("StageGear", additions)
  /\ UNCHANGED <<clamp, intake>>

RunStageGear ==
  /\ RunDeploy \/ RunClamp \/ RunPivot
  /\ UNCHANGED <<driverStation, calibrated, world, stopLost>>

-----------------------------------------------------------------------------
(* ReleaseGear *)

\* Mutant: the clamp stays open.
ReleaseEndKeepsClamp ==
  /\ SetPivotEncoderZero
  /\ SetPivotPosition("down")
  /\ UNCHANGED clamp

ReleaseEnd ==
  /\ SetPivotEncoderZero
  /\ ClampShut
  /\ SetPivotPosition("down")

\* It is finished when the encoder has not moved for a while, also when the
\* arm is blocked.
RunReleaseGear ==
  LET c == "ReleaseGear" IN
  /\ \/ /\ c \notin started
        /\ KeepRunning(c)
        /\ ClampRelease
        /\ SetPivotPosition("below")
        /\ UNCHANGED calibrated
     \/ /\ c \in started
        /\ KeepRunning(c)
        /\ UNCHANGED gripper
     \/ /\ c \in started
        /\ Finish(c, additions)
        /\ ReleaseEnd
  /\ UNCHANGED <<driverStation, intake, stage, world, stopLost>>

-----------------------------------------------------------------------------
(* StartClear and StopClear *)

RunStartClear ==
  /\ Finish("StartClear", additions)
  /\ ClearLoader
  /\ UNCHANGED <<driverStation, normallyOpen, gripper, stage, world,
                 stopLost>>

RunStopClear ==
  /\ Finish("StopClear", additions)
  /\ StopLoader
  /\ stopLost' = (stopLost /\ Queued("StartClear"))
  /\ UNCHANGED <<driverStation, normallyOpen, gripper, stage, world>>

-----------------------------------------------------------------------------
(* Interruption, by another command or by the disabled robot *)

Interrupt(interrupted) ==
  CASE "LoadGear" \in interrupted \cap started ->
         LoadEnd /\ UNCHANGED gripper
    [] "StageGear" \in interrupted \cap started /\ stage = "deploy" ->
         DeployEnd /\ UNCHANGED gripper
    [] "ReleaseGear" \in interrupted \cap started ->
         ReleaseEnd /\ UNCHANGED intake
    [] OTHER -> UNCHANGED <<intake, gripper>>

-----------------------------------------------------------------------------
(* The world between two cycles *)

\* A gear comes in, is taken out, or falls out.
GearMoves ==
  /\ PacketMayArrive
  /\ gearIn' = ~gearIn
  /\ UNCHANGED <<driverStation, scheduler, intake, gripper, stage, arm,
                 stopLost>>

\* The arm follows the pivot Talon of an enabled robot, as far as the encoder
\* is right.
ArmMoves ==
  /\ PacketMayArrive
  /\ enabled
  /\ pivot # "unset"
  /\ arm' \in {"down", "up"} \ {arm}
  /\ calibrated /\ PivotMode = "position" =>
       arm' = (IF pivot = "up" THEN "up" ELSE "down")
  /\ UNCHANGED <<driverStation, scheduler, intake, gripper, stage, gearIn,
                 stopLost>>

-----------------------------------------------------------------------------
(* The control cycle *)

\* The release of the back button that no sample will see as an edge.
Unseen(b) ==
  /\ b = "back"
  /\ held[b]
  /\ \E i, j \in 1 .. Len(GearBindings) :
       /\ GearBindings[i].command = "StartClear" /\ last[i]
       /\ GearBindings[j].command = "StopClear" /\ ~last[j]

DriverPressesOrReleases(b) ==
  /\ ToggleButton(b)
  /\ stopLost' = (stopLost \/ Unseen(b))
  /\ UNCHANGED <<scheduler, intake, gripper, stage, world>>

DriverEnablesOrDisables ==
  /\ ToggleEnabled
  /\ UNCHANGED <<scheduler, intake, gripper, stage, world, stopLost>>

CyclePoll ==
  /\ PollButton \/ BeginRun
  /\ UNCHANGED <<driverStation, intake, gripper, stage, world, stopLost>>

\* A StopClear the disabled robot cancels leaves the set point on.
CycleCancel(c) ==
  /\ CancelDisabled(c)
  /\ Interrupt({c})
  /\ stopLost' = (stopLost \/ c = "StopClear")
  /\ UNCHANGED <<driverStation, stage, world>>

CycleAdd ==
  /\ \/ /\ \/ BeginAdd
           \/ EndCycle
           \/ \E c \in GearCommands : Ignore(c)
        /\ UNCHANGED <<intake, gripper, stopLost>>
     \/ \E c \in GearCommands :
          /\ Insert(c)
          /\ Interrupt(InTheWay(c))
          /\ stopLost' = (stopLost \/ "StopClear" \in InTheWay(c))
  /\ UNCHANGED <<driverStation, stage, world>>

Cycle ==
  \/ CyclePoll
  \/ \E c \in GearCommands : CycleCancel(c)
  \/ RunLoadGear
  \/ RunStageGear
  \/ RunReleaseGear
  \/ RunStartClear
  \/ RunStopClear
  \/ CycleAdd

Next ==
  \/ \E b \in GearButtons : DriverPressesOrReleases(b)
  \/ DriverEnablesOrDisables
  \/ GearMoves
  \/ ArmMoves
  \/ Cycle

Spec == Init /\ [][Next]_vars

-----------------------------------------------------------------------------
(* Properties *)

\* The intake motor loads or deploys only while the command runs that will
\* stop it: whatever interrupts it, a disabled robot included, it does not go
\* on pulling at a gear.
MotorRunsUnderItsCommand ==
  /\ motor = "load" => "LoadGear" \in started
  /\ motor = "deploy" => "StageGear" \in started /\ stage = "deploy"

\* The Talon itself stops the motor when the gear is in place, or out of it:
\* the polarity of the limit switch, which the two commands set and reset,
\* always fits the way the motor is driven.
SwitchStopsMotor ==
  /\ motor = "load" => normallyOpen
  /\ motor = "deploy" => ~normallyOpen

\* A clamp opened to release a gear is shut again whenever ReleaseGear is not
\* running, and the arm is on its way down while it is open.
ReleasedClampIsShutAgain ==
  clamp = "release" => "ReleaseGear" \in started /\ pivot = "below"

\* The arm is only ever raised with the clamp shut.
PivotsClampShut ==
  [][pivot # "up" /\ pivot' = "up" => clamp = "shut" /\ clamp' = "shut"]_vars

\* Between two cycles, with every release sampled and no command left.
Settled ==
  /\ phase = "poll"
  /\ poll = 1
  /\ active = {}
  /\ additions = <<>>
  /\ \A i \in DOMAIN last : ~last[i]

\* With the back button released and the release sampled, the motor does not
\* clear, unless that release was lost: StopClear cancelled by the disabled
\* robot or interrupted before it ran, or a release between two samples.
ReleaseStopsClearing ==
  Settled /\ (\A b \in Buttons : ~held[b]) => motor # "clear" \/ stopLost

\* The pivot encoder is zeroed with the arm in its full down position.
ZeroedInDownPosition == calibrated
=============================================================================
