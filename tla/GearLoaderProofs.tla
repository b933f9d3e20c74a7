-------------------------- MODULE GearLoaderProofs --------------------------
(***************************************************************************)
(* Proofs about GearLoader for every set of buttons the driver uses, with  *)
(* and without driver station packets in the middle of a cycle.            *)
(***************************************************************************)
EXTENDS GearLoader, SequenceTheorems, TLAPS

\* The five bindings, spelled out.
LEMMA BindingFacts ==
  /\ Len(GearBindings) = 5
  /\ \A i \in 1 .. 5 : /\ GearBindings[i].command \in GearCommands
                       /\ GearBindings[i].button \in Buttons
  /\ GearBindings[1] = [button |-> "back", edge |-> "release",
                        command |-> "StopClear"]
  /\ GearBindings[2] = [button |-> "back", edge |-> "press",
                        command |-> "StartClear"]
  /\ \A i \in 3 .. 5 : GearBindings[i].command \notin {"StartClear", "StopClear"}
<1> DEFINE B == GearBindings
<1>1. /\ Len(B) = 5
      /\ B[1] = [button |-> "back", edge |-> "release", command |-> "StopClear"]
      /\ B[2] = [button |-> "back", edge |-> "press", command |-> "StartClear"]
      /\ B[3] = [button |-> "shoulder", edge |-> "press", command |-> "StageGear"]
      /\ B[4] = [button |-> "trigger", edge |-> "press", command |-> "LoadGear"]
      /\ B[5] = [button |-> "corner", edge |-> "press", command |-> "ReleaseGear"]
  BY DEF GearBindings
<1>2. 1 .. 5 = {1, 2, 3, 4, 5} /\ 3 .. 5 = {3, 4, 5}
  OBVIOUS
<1> QED
  BY <1>1, <1>2 DEF GearCommands, Buttons

\* Command::Start: it keeps what was queued and adds only that command.
LEMMA EnqueueStep ==
  ASSUME NEW c \in GearCommands, additions \in Seq(GearCommands),
         additions' = Enqueue(c)
  PROVE  /\ additions' \in Seq(GearCommands)
         /\ \A d : Queued(d)' <=> (Queued(d) \/ d = c)
<1>1. CASE Queued(c)
  <2>1. additions' = additions
    BY <1>1 DEF Enqueue
  <2>2. \A d : Queued(d)' <=> Queued(d)
    BY <2>1 DEF Queued
  <2> QED
    BY <1>1, <2>1, <2>2
<1>2. CASE ~Queued(c)
  <2>1. additions' = Append(additions, c)
    BY <1>2 DEF Enqueue
  <2>2. /\ additions' \in Seq(GearCommands)
        /\ Len(additions') = Len(additions) + 1
        /\ \A i \in 1 .. Len(additions) : additions'[i] = additions[i]
        /\ additions'[Len(additions) + 1] = c
    BY <2>1
  <2> QED
    BY <2>2 DEF Queued
<1> QED
  BY <1>1, <1>2

\* Taking the head of the queue leaves the rest of it waiting.
LEMMA DequeueStep ==
  ASSUME additions \in Seq(GearCommands), additions # <<>>,
         additions' = Tail(additions)
  PROVE  /\ additions' \in Seq(GearCommands)
         /\ Head(additions) \in GearCommands
         /\ Queued(Head(additions))
         /\ \A d : Queued(d) => d = Head(additions) \/ Queued(d)'
         /\ \A d : Queued(d)' => Queued(d)
<1>1. /\ Len(additions) \in Nat \ {0}
      /\ Head(additions) = additions[1]
      /\ additions' \in Seq(GearCommands)
      /\ Len(additions') = Len(additions) - 1
      /\ \A i \in 1 .. Len(additions) - 1 : additions'[i] = additions[i + 1]
  BY EmptySeq, HeadTailProperties
<1>2. \A i \in 1 .. Len(additions) : i # 1 =>
        /\ i - 1 \in 1 .. Len(additions) - 1
        /\ additions'[i - 1] = additions[i]
  BY <1>1
<1> QED
  BY <1>1, <1>2 DEF Queued

\* Every two gear commands need the gear loader, and every one of them may be
\* interrupted: a new command interrupts whatever runs and is never refused.
LEMMA ConflictFacts ==
  ASSUME active \subseteq GearCommands, NEW c \in GearCommands
  PROVE  InTheWay(c) = active /\ ~Refused(c)
<1>1. \A d \in GearCommands : Conflicts(c, d)
  BY DEF Conflicts, GearRequires
<1>2. InTheWay(c) = active
  BY <1>1 DEF InTheWay
<1> QED
  BY <1>2 DEF Refused

-----------------------------------------------------------------------------
(* Type correctness *)

\* What the steps of this module do to the scheduler's own variables.
SchedulerStep ==
  \/ PollButton \/ BeginRun \/ BeginAdd \/ EndCycle
  \/ \E c \in GearCommands :
       \/ CancelDisabled(c) \/ KeepRunning(c) \/ Ignore(c) \/ Insert(c)
       \/ Finish(c, additions)

\* The steps of the scheduler keep its variables in their types.
LEMMA SchedulerTypes ==
  ASSUME SchedulerTypeOK, SchedulerStep, UNCHANGED driverStation
  PROVE  SchedulerTypeOK'
<1> USE BindingFacts DEF SchedulerTypeOK, driverStation
<1>1. CASE PollButton
  <2>1. poll \in 1 .. 5
    BY <1>1 DEF PollButton
  <2>2. GearBindings[poll].command \in GearCommands
    BY <2>1
  <2>3. additions' \in Seq(GearCommands)
    BY <1>1, <2>2, EnqueueStep DEF PollButton
  <2>4. held[GearBindings[poll].button] \in BOOLEAN
    BY <2>1
  <2> QED
    BY <1>1, <2>1, <2>3, <2>4 DEF PollButton
<1>2. CASE BeginRun \/ BeginAdd \/ EndCycle
  BY <1>2 DEF BeginRun, BeginAdd, EndCycle
<1>3. ASSUME NEW c \in GearCommands,
             CancelDisabled(c) \/ KeepRunning(c) \/ Finish(c, additions)
      PROVE  SchedulerTypeOK'
  BY <1>3 DEF CancelDisabled, KeepRunning, Finish
<1>4. ASSUME NEW c \in GearCommands, Ignore(c)
      PROVE  SchedulerTypeOK'
  BY <1>4, DequeueStep DEF Ignore
<1>5. ASSUME NEW c \in GearCommands, Insert(c)
      PROVE  SchedulerTypeOK'
  <2>1. InTheWay(c) \subseteq active /\ torun = {}
    BY <1>5 DEF InTheWay, Insert
  <2>2. additions' \in Seq(GearCommands)
    BY <1>5, DequeueStep DEF Insert
  <2> QED
    BY <1>5, <2>1, <2>2 DEF Insert
<1> QED
  BY <1>1, <1>2, <1>3, <1>4, <1>5 DEF SchedulerStep

\* An interruption only ever stops the motor, shuts the clamp, lowers the
\* pivot and zeroes its encoder.
LEMMA InterruptTypes ==
  ASSUME TypeOK, NEW S, Interrupt(S)
  PROVE  /\ motor' \in {motor, "off"}
         /\ normallyOpen' \in BOOLEAN
         /\ clamp' \in {clamp, "shut"}
         /\ pivot' \in {pivot, "down"}
         /\ calibrated' \in BOOLEAN
<1> DEFINE A == "LoadGear" \in S \cap started
           B == "StageGear" \in S \cap started /\ stage = "deploy"
           C == "ReleaseGear" \in S \cap started
<1> USE DEF TypeOK, intake, gripper
<1>1. \/ LoadEnd /\ UNCHANGED gripper
      \/ DeployEnd /\ UNCHANGED gripper
      \/ ReleaseEnd /\ UNCHANGED intake
      \/ UNCHANGED <<intake, gripper>>
  BY Zenon DEF Interrupt
<1> QED
  BY <1>1 DEF LoadEnd, DeployEnd, ReleaseEnd, StopLoader, ClampShut,
     SetLoadLimitSwitchNormallyOpen, SetPivotEncoderZero, SetPivotPosition

\* The robot starts with every variable in its type.
LEMMA TypeInit == Init => TypeOK
<1>1. Init => SchedulerTypeOK
  BY BindingFacts DEF Init, SchedulerInit, SchedulerTypeOK
<1> QED
  BY <1>1 DEF Init, TypeOK

\* No handler of the gear loader takes a variable out of its type.
LEMMA TypeStep == ASSUME TypeOK, [Next]_vars PROVE TypeOK'
<1> USE DEF TypeOK
<1>1. ASSUME NEW b \in GearButtons, DriverPressesOrReleases(b)
      PROVE  TypeOK'
  <2>1. held' \in [Buttons -> BOOLEAN] /\ enabled' = enabled
    BY <1>1 DEF DriverPressesOrReleases, ToggleButton, SchedulerTypeOK
  <2>2. SchedulerTypeOK'
    BY <1>1, <2>1 DEF DriverPressesOrReleases, SchedulerTypeOK, scheduler
  <2>3. stopLost' \in BOOLEAN
    BY <1>1 DEF DriverPressesOrReleases, Unseen
  <2> QED
    BY <1>1, <2>2, <2>3 DEF DriverPressesOrReleases, intake, gripper, world
<1>2. CASE DriverEnablesOrDisables
  BY <1>2 DEF DriverEnablesOrDisables, ToggleEnabled, SchedulerTypeOK,
              scheduler, intake, gripper, world
<1>3. CASE GearMoves
  BY <1>3 DEF GearMoves, SchedulerTypeOK, driverStation, scheduler, intake,
              gripper
<1>4. CASE ArmMoves
  BY <1>4 DEF ArmMoves, SchedulerTypeOK, driverStation, scheduler, intake,
              gripper
<1>5. CASE CyclePoll
  BY <1>5, SchedulerTypes DEF CyclePoll, SchedulerStep, intake, gripper, world
<1>6. ASSUME NEW c \in GearCommands, CycleCancel(c)
      PROVE  TypeOK'
  <2>1. SchedulerTypeOK'
    BY <1>6, SchedulerTypes DEF CycleCancel, SchedulerStep
  <2>2. stopLost' \in BOOLEAN /\ stage' = stage /\ UNCHANGED world
    BY <1>6 DEF CycleCancel
  <2>3. Interrupt({c})
    BY <1>6 DEF CycleCancel
  <2> QED
    BY <2>1, <2>2, <2>3, InterruptTypes DEF world
<1>7. CASE RunLoadGear
  <2>1. SchedulerTypeOK'
    BY <1>7, SchedulerTypes DEF RunLoadGear, SchedulerStep, GearCommands
  <2> QED
    BY <1>7, <2>1
    DEF RunLoadGear, LoadInitialize, LoadEnd, ClampShut, Load, StopLoader,
        SetLoadLimitSwitchNormallyOpen, intake, world
<1>8. CASE RunStageGear
  <2>1. SchedulerTypeOK'
    BY <1>8, SchedulerTypes
    DEF RunStageGear, RunDeploy, RunClamp, RunPivot, SchedulerStep,
        GearCommands
  <2>2. UNCHANGED <<driverStation, calibrated, world, stopLost>>
    BY <1>8 DEF RunStageGear
  <2>3. CASE RunDeploy
    BY <2>1, <2>2, <2>3
    DEF RunDeploy, DeployInitialize, DeployEnd, ClampShut, ClampStage, Deploy,
        StopLoader, SetLoadLimitSwitchNormallyOpen, intake, world
  <2>4. CASE RunClamp \/ RunPivot
    BY <2>1, <2>2, <2>4
    DEF RunClamp, RunPivot, PivotUp, SetPivotPosition, intake, world
  <2> QED
    BY <1>8, <2>3, <2>4 DEF RunStageGear
<1>9. CASE RunReleaseGear
  <2>1. SchedulerTypeOK'
    BY <1>9, SchedulerTypes DEF RunReleaseGear, SchedulerStep, GearCommands
  <2> QED
    BY <1>9, <2>1
    DEF RunReleaseGear, ReleaseEnd, ClampRelease, ClampShut, SetPivotPosition,
        SetPivotEncoderZero, intake, gripper, world
<1>10. CASE RunStartClear \/ RunStopClear
  <2>1. SchedulerTypeOK'
    BY <1>10, SchedulerTypes
    DEF RunStartClear, RunStopClear, SchedulerStep, GearCommands
  <2>2. stopLost' \in BOOLEAN
    BY <1>10 DEF RunStartClear, RunStopClear
  <2> QED
    BY <1>10, <2>1, <2>2
    DEF RunStartClear, RunStopClear, ClearLoader, StopLoader, gripper, world
<1>11. CASE CycleAdd
  <2>1. SchedulerTypeOK'
    BY <1>11, SchedulerTypes DEF CycleAdd, SchedulerStep
  <2>2. stage' = stage /\ UNCHANGED world /\ stopLost' \in BOOLEAN
    BY <1>11 DEF CycleAdd
  <2>3. UNCHANGED <<intake, gripper>> \/ \E S : Interrupt(S)
    BY <1>11 DEF CycleAdd
  <2> QED
    BY <2>1, <2>2, <2>3, InterruptTypes DEF intake, gripper, world
<1>12. CASE UNCHANGED vars
  BY <1>12 DEF vars, driverStation, scheduler, intake, gripper, world,
               SchedulerTypeOK
<1> QED
  BY <1>1, <1>2, <1>3, <1>4, <1>5, <1>6, <1>7, <1>8, <1>9, <1>10, <1>11, <1>12
  DEF Next, Cycle

\* Every variable keeps its type: in particular no command outside the gear
\* loader's is ever active or queued, and none is to run that is not active.
THEOREM TypeCorrect == Spec => []TypeOK
<1>1. TypeOK /\ [Next]_vars => TypeOK'
  BY TypeStep
<1> QED
  BY <1>1, TypeInit, PTL DEF Spec

-----------------------------------------------------------------------------
(* The inductive invariant *)

\* The gear loader is one requirement, so one command at most is active.
Exclusive == \A c, d \in active : c = d

\* From the end of DeployGear to its last entry StageGear holds the gear.
StageHoldsGear ==
  "StageGear" \in started /\ stage = "clamp" => clamp = "shut"

\* The release of the back button will be sampled: the release binding
\* remembers it pressed, or the press binding does and it is still down.
WillNotice == last[1] \/ (last[2] /\ held["back"])

\* Every cycle ends with an empty queue.
QueuePhase == phase = "poll" /\ poll = 1 => additions = <<>>

\* The command the back button starts is waiting only while the release of
\* that button is going to be noticed.
QueuedCovered == Queued("StartClear") => WillNotice \/ stopLost

Present(c) == c \in active \/ Queued(c)

\* Something is going to stop the motor that clears, or is about to.
ClearCovered ==
  motor = "clear" \/ Present("StartClear") =>
    WillNotice \/ Present("StopClear") \/ stopLost

IInv ==
  /\ TypeOK
  /\ Exclusive
  /\ MotorRunsUnderItsCommand
  /\ SwitchStopsMotor
  /\ ReleasedClampIsShutAgain
  /\ StageHoldsGear
  /\ QueuePhase
  /\ QueuedCovered
  /\ ClearCovered

-----------------------------------------------------------------------------
(* What a step does, with one active command at most *)

\* The gear commands, spelled out.
LEMMA CommandFacts ==
  GearCommands =
    {"LoadGear", "StageGear", "ReleaseGear", "StartClear", "StopClear"}
BY DEF GearCommands

\* A command that runs or is cancelled is the one that is active.
LEMMA RunningAlone ==
  ASSUME TypeOK, Exclusive, NEW c \in torun
  PROVE  active = {c} /\ started \subseteq {c} /\ c \in GearCommands
BY DEF TypeOK, SchedulerTypeOK, Exclusive

\* Interrupting what is active calls the End of the command that is started,
\* if it has one.
LEMMA InterruptActive ==
  ASSUME TypeOK, Exclusive, Interrupt(active)
  PROVE  /\ "LoadGear" \in started => LoadEnd /\ UNCHANGED gripper
         /\ "StageGear" \in started /\ stage = "deploy" =>
              DeployEnd /\ UNCHANGED gripper
         /\ "ReleaseGear" \in started => ReleaseEnd /\ UNCHANGED intake
         /\ ("LoadGear" \notin started /\ "ReleaseGear" \notin started
             /\ ~("StageGear" \in started /\ stage = "deploy")) =>
              UNCHANGED <<intake, gripper>>
<1> DEFINE A == "LoadGear" \in active \cap started
           B == "StageGear" \in active \cap started /\ stage = "deploy"
           C == "ReleaseGear" \in active \cap started
<1>1. \/ A /\ LoadEnd /\ UNCHANGED gripper
      \/ B /\ DeployEnd /\ UNCHANGED gripper
      \/ C /\ ReleaseEnd /\ UNCHANGED intake
      \/ ~A /\ ~B /\ ~C /\ UNCHANGED <<intake, gripper>>
  BY Zenon DEF Interrupt
<1>2. started \subseteq active
  BY DEF TypeOK, SchedulerTypeOK
<1>3. /\ A <=> "LoadGear" \in started
      /\ B <=> "StageGear" \in started /\ stage = "deploy"
      /\ C <=> "ReleaseGear" \in started
  BY <1>2
<1>4. ~(A /\ B) /\ ~(A /\ C) /\ ~(B /\ C)
  BY <1>2 DEF Exclusive
<1> HIDE DEF A, B, C
<1> QED
  BY <1>1, <1>3, <1>4, Zenon

\* After an interruption nothing is started, the motor neither loads nor
\* deploys, and the clamp is not open.
LEMMA InterruptMakesSafe ==
  ASSUME IInv, Interrupt(active)
  PROVE  /\ motor' \notin {"load", "deploy"}
         /\ motor' = "clear" => motor = "clear"
         /\ clamp' # "release"
         /\ pivot' \in {pivot, "down"}
         /\ clamp' \in {clamp, "shut"}
<1> USE DEF IInv
<1>1. /\ pivot' \in {pivot, "down"}
      /\ clamp' \in {clamp, "shut"}
      /\ motor' \in {motor, "off"}
  BY InterruptTypes
<1>2. CASE "LoadGear" \in started
  <2>1. motor' = "off"
    BY <1>2, InterruptActive DEF LoadEnd, StopLoader
  <2>2. "ReleaseGear" \notin started
    BY <1>2 DEF Exclusive, TypeOK, SchedulerTypeOK
  <2> QED
    BY <1>1, <2>1, <2>2 DEF ReleasedClampIsShutAgain
<1>3. CASE "StageGear" \in started
  <2>1. "ReleaseGear" \notin started /\ "LoadGear" \notin started
    BY <1>3 DEF Exclusive, TypeOK, SchedulerTypeOK
  <2>2. stage = "deploy" => motor' = "off"
    BY <1>3, InterruptActive DEF DeployEnd, StopLoader
  <2> QED
    BY <1>1, <2>1, <2>2
    DEF ReleasedClampIsShutAgain, MotorRunsUnderItsCommand
<1>4. CASE "ReleaseGear" \in started
  <2>1. "StageGear" \notin started /\ "LoadGear" \notin started
    BY <1>4 DEF Exclusive, TypeOK, SchedulerTypeOK
  <2>2. clamp' = "shut"
    BY <1>4, InterruptActive DEF ReleaseEnd, ClampShut
  <2> QED
    BY <1>1, <2>1, <2>2 DEF MotorRunsUnderItsCommand
<1>5. CASE started \cap {"LoadGear", "StageGear", "ReleaseGear"} = {}
  BY <1>1, <1>5 DEF ReleasedClampIsShutAgain, MotorRunsUnderItsCommand
<1> QED
  BY <1>2, <1>3, <1>4, <1>5

\* What is left after the active command is interrupted keeps the loader safe.
LoaderSafe ==
  /\ MotorRunsUnderItsCommand
  /\ SwitchStopsMotor
  /\ ReleasedClampIsShutAgain
  /\ StageHoldsGear

\* The robot is disabled: the active command is cancelled.
LEMMA CancelSafe ==
  ASSUME IInv, NEW c \in GearCommands, CycleCancel(c)
  PROVE  Exclusive' /\ LoaderSafe'
<1>1. c \in torun /\ active' = active \ {c} /\ started' = started \ {c}
  BY DEF CycleCancel, CancelDisabled
<1>2. active = {c} /\ started \subseteq {c}
  BY <1>1, RunningAlone DEF IInv
<1>3. active' = {} /\ started' = {}
  BY <1>1, <1>2
<1>4. Interrupt(active)
  BY <1>2 DEF CycleCancel
<1> QED
  BY <1>3, <1>4, InterruptMakesSafe
  DEF LoaderSafe, Exclusive, MotorRunsUnderItsCommand, SwitchStopsMotor,
      ReleasedClampIsShutAgain, StageHoldsGear

\* A queued command is added, interrupting the active one, or dropped.
LEMMA AddSafe ==
  ASSUME IInv, CycleAdd
  PROVE  Exclusive' /\ LoaderSafe'
<1>1. CASE (BeginAdd \/ EndCycle \/ \E c \in GearCommands : Ignore(c))
           /\ UNCHANGED <<intake, gripper, stopLost>>
  <2>1. UNCHANGED <<active, started, intake, gripper, stage>>
    BY <1>1 DEF CycleAdd, BeginAdd, EndCycle, Ignore
  <2> QED
    BY <2>1
    DEF IInv, LoaderSafe, Exclusive, MotorRunsUnderItsCommand,
        SwitchStopsMotor, ReleasedClampIsShutAgain, StageHoldsGear, intake,
        gripper
<1>2. ASSUME NEW c \in GearCommands, Insert(c), Interrupt(InTheWay(c))
      PROVE  Exclusive' /\ LoaderSafe'
  <2>1. active \subseteq GearCommands /\ started \subseteq active
    BY DEF IInv, TypeOK, SchedulerTypeOK
  <2>2. InTheWay(c) = active
    BY <2>1, ConflictFacts
  <2>3. active' = {c} /\ started' = {}
    BY <1>2, <2>1, <2>2 DEF Insert
  <2> QED
    BY <1>2, <2>2, <2>3, InterruptMakesSafe
    DEF LoaderSafe, Exclusive, MotorRunsUnderItsCommand, SwitchStopsMotor,
        ReleasedClampIsShutAgain, StageHoldsGear
<1> QED
  BY <1>1, <1>2 DEF CycleAdd

\* The active command runs, once, and may be finished.
LEMMA RunSafe ==
  ASSUME IInv,
         \/ RunLoadGear \/ RunStageGear \/ RunReleaseGear \/ RunStartClear
         \/ RunStopClear
  PROVE  Exclusive' /\ LoaderSafe'
<1> USE DEF LoaderSafe, Exclusive, MotorRunsUnderItsCommand, SwitchStopsMotor,
            ReleasedClampIsShutAgain, StageHoldsGear
<1>1. CASE RunLoadGear
  <2>1. /\ "LoadGear" \in torun
        /\ \/ active' = active \ {"LoadGear"} /\ started' = started \ {"LoadGear"}
           \/ active' = active /\ started' = started \cup {"LoadGear"}
    BY <1>1 DEF RunLoadGear, Finish, KeepRunning
  <2>2. active = {"LoadGear"} /\ started \subseteq {"LoadGear"}
    BY <2>1, RunningAlone DEF IInv
  <2>3. clamp # "release" /\ clamp' # "release"
    BY <1>1, <2>2 DEF IInv, RunLoadGear, LoadInitialize, ClampShut
  <2>4. CASE IsLoadLimitSwitchClosed
    BY <1>1, <2>1, <2>2, <2>3, <2>4
    DEF RunLoadGear, Finish, LoadEnd, StopLoader
  <2>5. CASE ~IsLoadLimitSwitchClosed
    BY <1>1, <2>1, <2>2, <2>3, <2>5
    DEF IInv, RunLoadGear, KeepRunning, LoadInitialize, Load, intake,
        SetLoadLimitSwitchNormallyOpen
  <2> QED
    BY <2>4, <2>5
<1>2. CASE RunStageGear
  <2>1. /\ "StageGear" \in torun
        /\ \/ active' = active \ {"StageGear"} /\ started' = started \ {"StageGear"}
           \/ active' = active /\ started' = started \cup {"StageGear"}
    BY <1>2
    DEF RunStageGear, RunDeploy, RunClamp, RunPivot, Finish, KeepRunning
  <2>2. active = {"StageGear"} /\ started \subseteq {"StageGear"}
    BY <2>1, RunningAlone DEF IInv
  <2>3. clamp # "release" /\ motor # "load"
    BY <2>2 DEF IInv
  <2>4. CASE RunDeploy
    BY <2>1, <2>2, <2>3, <2>4
    DEF IInv, RunDeploy, KeepRunning, DeployInitialize, DeployEnd, Deploy,
        StopLoader, ClampShut, ClampStage, SetLoadLimitSwitchNormallyOpen,
        intake
  <2>5. CASE RunClamp
    BY <2>1, <2>2, <2>3, <2>5 DEF IInv, RunClamp, KeepRunning, intake
  <2>6. CASE RunPivot
    BY <2>1, <2>2, <2>3, <2>6 DEF IInv, RunPivot, intake
  <2> QED
    BY <1>2, <2>4, <2>5, <2>6 DEF RunStageGear
<1>3. CASE RunReleaseGear
  <2>1. "ReleaseGear" \in torun
    BY <1>3 DEF RunReleaseGear, Finish, KeepRunning
  <2>2. active = {"ReleaseGear"} /\ started \subseteq {"ReleaseGear"}
    BY <2>1, RunningAlone DEF IInv
  <2>3. motor \notin {"load", "deploy"} /\ motor' = motor
    BY <1>3, <2>2 DEF IInv, RunReleaseGear, intake
  <2> QED
    BY <1>3, <2>2, <2>3
    DEF IInv, RunReleaseGear, Finish, KeepRunning, ReleaseEnd, ClampRelease,
        ClampShut, SetPivotPosition, gripper
<1>4. CASE RunStartClear \/ RunStopClear
  <2>1. /\ \E d \in {"StartClear", "StopClear"} :
             d \in torun /\ active' = active \ {d} /\ started' = started \ {d}
        /\ motor' \in {"clear", "off"}
        /\ UNCHANGED gripper
    BY <1>4
    DEF RunStartClear, RunStopClear, Finish, ClearLoader, StopLoader
  <2>2. active' = {} /\ started' = {} /\ started \cap {"ReleaseGear"} = {}
    BY <2>1, RunningAlone DEF IInv
  <2> QED
    BY <2>1, <2>2 DEF IInv, gripper
<1> QED
  BY <1>1, <1>2, <1>3, <1>4

-----------------------------------------------------------------------------
(* The release of the back button *)

\* What of the invariant is about the back button.
BackCovered == QueuePhase /\ QueuedCovered /\ ClearCovered

\* The driver's press or release: a release that no sample will see is lost.
LEMMA DriverCovered ==
  ASSUME IInv, NEW b \in GearButtons, DriverPressesOrReleases(b)
  PROVE  BackCovered'
<1> USE DEF IInv, BackCovered
<1>1. UNCHANGED <<scheduler, motor>> /\ stopLost' = (stopLost \/ Unseen(b))
  BY DEF DriverPressesOrReleases, intake
<1>2. /\ UNCHANGED <<phase, poll, last, active, additions>>
      /\ \A c : Queued(c)' <=> Queued(c)
      /\ \A c : Present(c)' <=> Present(c)
  BY <1>1 DEF scheduler, Queued, Present
<1>3. WillNotice => WillNotice' \/ Unseen(b)
  <2>1. CASE b = "back" /\ held["back"] /\ last[2] /\ ~last[1]
    <3>1. 1 \in 1 .. Len(GearBindings) /\ 2 \in 1 .. Len(GearBindings)
      BY BindingFacts
    <3>2. Unseen(b)
      BY <2>1, <3>1, BindingFacts DEF Unseen
    <3> QED
      BY <3>2
  <2>2. CASE b = "back" /\ ~held["back"]
    <3>1. held'["back"] = TRUE
      BY <2>2, GearAssumption
      DEF DriverPressesOrReleases, ToggleButton, TypeOK, SchedulerTypeOK,
          Buttons
    <3> QED
      BY <1>2, <3>1 DEF WillNotice
  <2>3. CASE b # "back"
    <3>1. held'["back"] = held["back"]
      BY <2>3, GearAssumption
      DEF DriverPressesOrReleases, ToggleButton, TypeOK, SchedulerTypeOK,
          Buttons
    <3> QED
      BY <1>2, <3>1 DEF WillNotice
  <2>4. CASE last[1] \/ ~last[2]
    BY <1>2, <2>4 DEF WillNotice
  <2> QED
    BY <2>1, <2>2, <2>3, <2>4
<1> QED
  BY <1>1, <1>2, <1>3 DEF QueuePhase, QueuedCovered, ClearCovered

\* A binding samples its button: what it stops noticing it has queued.
LEMMA PollCovered ==
  ASSUME IInv, PollButton, UNCHANGED <<motor, stopLost, held>>
  PROVE  BackCovered'
<1> USE BindingFacts DEF IInv, BackCovered
<1>1. /\ poll \in 1 .. 5
      /\ poll' = poll + 1
      /\ last' = [last EXCEPT ![poll] = held[GearBindings[poll].button]]
      /\ last \in [1 .. 5 -> BOOLEAN]
      /\ held \in [Buttons -> BOOLEAN]
      /\ additions \in Seq(GearCommands)
      /\ active' = active
      /\ additions' = IF Fires(poll) THEN Enqueue(GearBindings[poll].command)
                                     ELSE additions
  BY DEF PollButton, TypeOK, SchedulerTypeOK
<1>2. QueuePhase'
  BY <1>1 DEF QueuePhase
<1>3. \A c : Queued(c) => Queued(c)'
  <2>1. CASE Fires(poll)
    BY <1>1, <2>1, EnqueueStep
  <2>2. CASE ~Fires(poll)
    BY <1>1, <2>2 DEF Queued
  <2> QED
    BY <2>1, <2>2
<1>4. \A c : Queued(c)' => Queued(c) \/ (Fires(poll) /\ c = GearBindings[poll].command)
  <2>1. CASE Fires(poll)
    BY <1>1, <2>1, EnqueueStep
  <2>2. CASE ~Fires(poll)
    BY <1>1, <2>2 DEF Queued
  <2> QED
    BY <2>1, <2>2
<1>5. \A c : c = GearBindings[poll].command /\ Fires(poll) => Queued(c)'
  <2>1. GearBindings[poll].command \in GearCommands
    BY <1>1
  <2> QED
    BY <1>1, <2>1, EnqueueStep
<1>6. CASE poll = 1
  <2>1. additions = <<>>
    BY <1>6 DEF QueuePhase, PollButton
  <2>2. \A c : ~Queued(c)
    BY <2>1 DEF Queued
  <2>3. ~Queued("StartClear")'
    BY <1>4, <1>6, <2>2
  <2>4. last'[1] = held["back"] /\ last'[2] = last[2]
    BY <1>1, <1>6
  <2>5. Fires(1) <=> last[1] # held["back"] /\ ~held["back"]
    BY <1>1 DEF Fires, Buttons
  <2>6. WillNotice => WillNotice' \/ Queued("StopClear")'
    <3>1. CASE held["back"]
      BY <2>4, <3>1 DEF WillNotice
    <3>2. CASE ~held["back"]
      <4>1. Fires(1) => Queued("StopClear")'
        BY <1>5, <1>6
      <4> QED
        BY <1>1, <2>5, <3>2, <4>1 DEF WillNotice, Buttons
    <3> QED
      BY <3>1, <3>2
  <2> QED
    BY <1>1, <1>2, <1>3, <2>3, <2>6
    DEF QueuedCovered, ClearCovered, Present
<1>7. CASE poll = 2
  <2>1. last'[1] = last[1] /\ last'[2] = held["back"]
    BY <1>1, <1>7
  <2>2. WillNotice => WillNotice'
    BY <2>1 DEF WillNotice
  <2>3. Fires(2) <=> last[2] # held["back"] /\ held["back"]
    BY <1>1 DEF Fires, Buttons
  <2>4. Fires(poll) => WillNotice'
    BY <1>7, <2>1, <2>3 DEF WillNotice
  <2> QED
    BY <1>1, <1>2, <1>3, <1>4, <2>2, <2>4
    DEF QueuedCovered, ClearCovered, Present
<1>8. CASE poll \in 3 .. 5
  <2>1. last'[1] = last[1] /\ last'[2] = last[2]
    BY <1>1, <1>8
  <2>2. WillNotice' <=> WillNotice
    BY <2>1 DEF WillNotice
  <2>3. Queued("StartClear")' => Queued("StartClear")
    BY <1>4, <1>8
  <2> QED
    BY <1>1, <1>2, <1>3, <2>2, <2>3
    DEF QueuedCovered, ClearCovered, Present
<1> QED
  BY <1>1, <1>6, <1>7, <1>8

\* A step which takes no sample, starts no clearing, queues nothing and
\* neither ends nor forgets the StopClear that is waiting.
LEMMA QuietCovered ==
  ASSUME IInv,
         UNCHANGED <<last, held>>,
         QueuePhase',
         motor' = "clear" => motor = "clear",
         Queued("StartClear")' => Queued("StartClear"),
         "StartClear" \in active' => Present("StartClear"),
         Present("StopClear") => Present("StopClear")' \/ stopLost',
         stopLost => stopLost'
  PROVE  BackCovered'
<1>1. WillNotice' <=> WillNotice
  BY DEF WillNotice
<1> QED
  BY <1>1 DEF IInv, BackCovered, QueuedCovered, ClearCovered, Present

\* The robot is disabled: a StopClear cancelled before it ran is lost.
LEMMA CancelCovered ==
  ASSUME IInv, NEW c \in GearCommands, CycleCancel(c)
  PROVE  BackCovered'
<1>1. c \in torun /\ active' = active \ {c} /\ additions' = additions
  BY DEF CycleCancel, CancelDisabled
<1>2. active = {c}
  BY <1>1, RunningAlone DEF IInv
<1>3. \A d : Queued(d)' <=> Queued(d)
  BY <1>1 DEF Queued
<1>4. Interrupt(active)
  BY <1>2 DEF CycleCancel
<1>5. motor' = "clear" => motor = "clear"
  BY <1>4, InterruptMakesSafe
<1>6. stopLost' = (stopLost \/ c = "StopClear")
  BY DEF CycleCancel
<1>7. QueuePhase'
  BY DEF CycleCancel, CancelDisabled, QueuePhase
<1>8. UNCHANGED <<last, held>>
  BY DEF CycleCancel, CancelDisabled, driverStation
<1> QED
  BY <1>1, <1>2, <1>3, <1>5, <1>6, <1>7, <1>8, QuietCovered DEF Present

\* A queued command is added or dropped: a StopClear interrupted before it
\* ran is lost, and one is dropped only in favour of itself.
LEMMA AddCovered ==
  ASSUME IInv, CycleAdd
  PROVE  BackCovered'
<1> USE DEF Present
<1>1. held' = held /\ last' = last
  BY DEF CycleAdd, driverStation, BeginAdd, EndCycle, Ignore, Insert
<1>2. CASE (BeginAdd \/ EndCycle) /\ UNCHANGED <<intake, gripper, stopLost>>
  <2>1. UNCHANGED <<active, additions, motor, stopLost>>
    BY <1>2 DEF BeginAdd, EndCycle, intake
  <2>2. \A d : Queued(d)' <=> Queued(d)
    BY <2>1 DEF Queued
  <2>3. QueuePhase'
    BY <1>2 DEF BeginAdd, EndCycle, QueuePhase
  <2> QED
    BY <1>1, <2>1, <2>2, <2>3, QuietCovered
<1>3. ASSUME NEW c \in GearCommands, Ignore(c), UNCHANGED <<intake, stopLost>>
      PROVE  BackCovered'
  <2>1. additions \in Seq(GearCommands) /\ active \subseteq GearCommands
    BY DEF IInv, TypeOK, SchedulerTypeOK
  <2>2. /\ active' = active
        /\ motor' = motor
        /\ c \in active
        /\ \A d : Queued(d) => d = c \/ Queued(d)'
        /\ \A d : Queued(d)' => Queued(d)
    BY <1>3, <2>1, DequeueStep, ConflictFacts DEF Ignore, intake
  <2>3. QueuePhase'
    BY <1>3 DEF Ignore, QueuePhase
  <2> QED
    BY <1>1, <1>3, <2>2, <2>3, QuietCovered
<1>4. ASSUME NEW c \in GearCommands, Insert(c), Interrupt(InTheWay(c)),
             stopLost' = (stopLost \/ "StopClear" \in InTheWay(c))
      PROVE  BackCovered'
  <2>1. additions \in Seq(GearCommands) /\ active \subseteq GearCommands
    BY DEF IInv, TypeOK, SchedulerTypeOK
  <2>2. InTheWay(c) = active
    BY <2>1, ConflictFacts
  <2>3. motor' = "clear" => motor = "clear"
    BY <1>4, <2>2, InterruptMakesSafe
  <2>4. /\ active' = {c}
        /\ Queued(c)
        /\ \A d : Queued(d) => d = c \/ Queued(d)'
        /\ \A d : Queued(d)' => Queued(d)
    BY <1>4, <2>1, <2>2, DequeueStep DEF Insert
  <2>5. QueuePhase'
    BY <1>4 DEF Insert, QueuePhase
  <2> QED
    BY <1>1, <1>4, <2>2, <2>3, <2>4, <2>5, QuietCovered
<1> QED
  BY <1>2, <1>3, <1>4 DEF CycleAdd

\* The active command runs: StartClear starts the motor only while something
\* is going to stop it, and StopClear stops it.
LEMMA RunCovered ==
  ASSUME IInv,
         \/ RunLoadGear \/ RunStageGear \/ RunReleaseGear \/ RunStartClear
         \/ RunStopClear
  PROVE  BackCovered'
<1> USE DEF Present
<1>1. /\ UNCHANGED <<last, held, phase, poll, additions>>
      /\ phase = "run"
  BY DEF RunLoadGear, RunStageGear, RunDeploy, RunClamp, RunPivot,
         RunReleaseGear, RunStartClear, RunStopClear, Finish, KeepRunning,
         driverStation
<1>2. \A d : Queued(d)' <=> Queued(d)
  BY <1>1 DEF Queued
<1>3. QueuePhase'
  BY <1>1 DEF QueuePhase
<1>4. WillNotice' <=> WillNotice
  BY <1>1 DEF WillNotice
<1>5. CASE RunLoadGear \/ RunStageGear \/ RunReleaseGear
  <2>1. /\ stopLost' = stopLost
        /\ \E c \in {"LoadGear", "StageGear", "ReleaseGear"} :
             active' \in {active, active \ {c}}
    BY <1>5
    DEF RunLoadGear, RunStageGear, RunDeploy, RunClamp, RunPivot,
        RunReleaseGear, Finish, KeepRunning
  <2>2. motor' = "clear" => motor = "clear"
    BY <1>5
    DEF RunLoadGear, RunStageGear, RunDeploy, RunClamp, RunPivot,
        RunReleaseGear, LoadInitialize, LoadEnd, DeployInitialize, DeployEnd,
        Load, Deploy, StopLoader, intake
  <2> QED
    BY <1>1, <1>2, <1>3, <2>1, <2>2, QuietCovered
<1>6. CASE RunStartClear
  <2>1. "StartClear" \in torun /\ active' = active \ {"StartClear"}
        /\ stopLost' = stopLost
    BY <1>6 DEF RunStartClear, Finish
  <2>2. active = {"StartClear"}
    BY <2>1, RunningAlone DEF IInv
  <2> QED
    BY <1>2, <1>3, <1>4, <2>1, <2>2
    DEF IInv, BackCovered, QueuedCovered, ClearCovered
<1>7. CASE RunStopClear
  <2>1. /\ "StopClear" \in torun
        /\ active' = active \ {"StopClear"}
        /\ motor' = "off"
        /\ stopLost' = (stopLost /\ Queued("StartClear"))
    BY <1>7 DEF RunStopClear, Finish, StopLoader
  <2>2. active' = {}
    BY <2>1, RunningAlone DEF IInv
  <2> QED
    BY <1>2, <1>3, <1>4, <2>1, <2>2
    DEF IInv, BackCovered, QueuedCovered, ClearCovered
<1> QED
  BY <1>5, <1>6, <1>7

-----------------------------------------------------------------------------
(* The invariant is inductive *)

\* At power up nothing is started, queued or driven.
LEMMA InitIInv == Init => IInv
<1> SUFFICES ASSUME Init PROVE IInv
  OBVIOUS
<1>1. /\ TypeOK
      /\ active = {} /\ started = {} /\ additions = <<>>
      /\ motor = "off" /\ clamp = "unset"
  BY TypeInit DEF Init, SchedulerInit
<1>2. \A c : ~Queued(c)
  BY <1>1 DEF Queued
<1> QED
  BY <1>1, <1>2
  DEF IInv, Exclusive, MotorRunsUnderItsCommand, SwitchStopsMotor,
      ReleasedClampIsShutAgain, StageHoldsGear, QueuePhase, QueuedCovered,
      ClearCovered, Present

\* The driver, the scheduler between two commands, and the world leave the
\* loader and the commands that run as they are.
LEMMA StutterSafe ==
  ASSUME IInv, UNCHANGED <<active, started, intake, clamp, pivot, stage>>
  PROVE  Exclusive' /\ LoaderSafe'
BY DEF IInv, LoaderSafe, Exclusive, MotorRunsUnderItsCommand,
       SwitchStopsMotor, ReleasedClampIsShutAgain, StageHoldsGear, intake

\* One step per action.
LEMMA StepIInv == ASSUME IInv, [Next]_vars PROVE IInv'
<1>1. TypeOK'
  BY TypeStep DEF IInv
<1> SUFFICES Exclusive' /\ LoaderSafe' /\ BackCovered'
  BY <1>1 DEF IInv, LoaderSafe, BackCovered
<1>2. ASSUME NEW b \in GearButtons, DriverPressesOrReleases(b)
      PROVE  Exclusive' /\ LoaderSafe' /\ BackCovered'
  BY <1>2, DriverCovered, StutterSafe
  DEF DriverPressesOrReleases, scheduler, gripper
<1>3. CASE \/ DriverEnablesOrDisables \/ GearMoves \/ ArmMoves
           \/ UNCHANGED vars
  <2>1. UNCHANGED <<scheduler, held, intake, gripper, stage, stopLost>>
    BY <1>3
    DEF DriverEnablesOrDisables, ToggleEnabled, GearMoves, ArmMoves, vars,
        driverStation
  <2>2. /\ UNCHANGED <<phase, poll, last, active, started, additions, motor>>
        /\ \A c : Queued(c)' <=> Queued(c)
    BY <2>1 DEF scheduler, intake, Queued
  <2>3. BackCovered'
    BY <2>1, <2>2, QuietCovered DEF IInv, QueuePhase, Present
  <2> QED
    BY <2>1, <2>2, <2>3, StutterSafe DEF gripper
<1>4. CASE CyclePoll
  <2>1. UNCHANGED <<active, started, intake, gripper, stage, held, stopLost>>
    BY <1>4 DEF CyclePoll, PollButton, BeginRun, driverStation
  <2>2. ASSUME PollButton PROVE BackCovered'
    BY <2>1, <2>2, PollCovered DEF intake
  <2>3. ASSUME BeginRun PROVE BackCovered'
    <3>1. UNCHANGED <<last, additions, motor>> /\ QueuePhase'
      BY <2>1, <2>3 DEF BeginRun, QueuePhase, intake
    <3>2. \A c : Queued(c)' <=> Queued(c)
      BY <3>1 DEF Queued
    <3> QED
      BY <2>1, <3>1, <3>2, QuietCovered DEF Present
  <2> QED
    BY <1>4, <2>1, <2>2, <2>3, StutterSafe DEF CyclePoll, gripper
<1>5. ASSUME NEW c \in GearCommands, CycleCancel(c)
      PROVE  Exclusive' /\ LoaderSafe' /\ BackCovered'
  BY <1>5, CancelSafe, CancelCovered
<1>6. CASE \/ RunLoadGear \/ RunStageGear \/ RunReleaseGear \/ RunStartClear
           \/ RunStopClear
  BY <1>6, RunSafe, RunCovered
<1>7. CASE CycleAdd
  BY <1>7, AddSafe, AddCovered
<1> QED
  BY <1>2, <1>3, <1>4, <1>5, <1>6, <1>7 DEF Next, Cycle

-----------------------------------------------------------------------------
(* The properties *)

\* Whatever interrupts LoadGear or StageGear, a disabled robot included, the
\* motor it started does not go on: it loads or deploys only under the command
\* whose End stops it.
THEOREM MotorUnderItsCommand == Spec => []MotorRunsUnderItsCommand
<1>1. IInv /\ [Next]_vars => IInv'
  BY StepIInv
<1>2. IInv => MotorRunsUnderItsCommand
  BY DEF IInv
<1> QED
  BY <1>1, <1>2, InitIInv, PTL DEF Spec

\* In every order of presses the polarity of the limit switch fits the way the
\* motor is driven, so that the Talon itself stops it.
THEOREM SwitchFitsMotor == Spec => []SwitchStopsMotor
<1>1. IInv /\ [Next]_vars => IInv'
  BY StepIInv
<1>2. IInv => SwitchStopsMotor
  BY DEF IInv
<1> QED
  BY <1>1, <1>2, InitIInv, PTL DEF Spec

\* The clamp is open only while ReleaseGear runs and the arm is on its way
\* down: whatever takes the loader from ReleaseGear shuts it.
THEOREM ClampShutAfterRelease == Spec => []ReleasedClampIsShutAgain
<1>1. IInv /\ [Next]_vars => IInv'
  BY StepIInv
<1>2. IInv => ReleasedClampIsShutAgain
  BY DEF IInv
<1> QED
  BY <1>1, <1>2, InitIInv, PTL DEF Spec

\* With the back button released, that release sampled and no command left,
\* the motor does not clear, unless the release was lost to the disabled robot,
\* to another command or between two samples.
THEOREM ReleaseStopsIntake == Spec => []ReleaseStopsClearing
<1>1. IInv /\ [Next]_vars => IInv'
  BY StepIInv
<1>2. IInv => ReleaseStopsClearing
  <2> SUFFICES ASSUME IInv, Settled, \A b \in Buttons : ~held[b]
               PROVE  motor # "clear" \/ stopLost
    BY DEF ReleaseStopsClearing
  <2>1. DOMAIN last = 1 .. 5
    BY BindingFacts DEF IInv, TypeOK, SchedulerTypeOK
  <2>2. ~last[1] /\ ~last[2] /\ active = {} /\ additions = <<>>
    BY <2>1 DEF Settled
  <2>3. ~WillNotice /\ ~Present("StopClear")
    BY <2>2 DEF WillNotice, Present, Queued
  <2> QED
    BY <2>3 DEF IInv, ClearCovered
<1> QED
  BY <1>1, <1>2, InitIInv, PTL DEF Spec

\* No step raises the arm with the clamp open or staged: PivotGear is reached
\* only from a CloseClamp that nothing has interrupted.
THEOREM ArmRaisedClampShut == Spec => PivotsClampShut
<1>1. IInv /\ [Next]_vars => IInv'
  BY StepIInv
<1>2. IInv /\ [Next]_vars =>
        [pivot # "up" /\ pivot' = "up" => clamp = "shut" /\ clamp' = "shut"]_vars
  <2> SUFFICES ASSUME IInv, Next, pivot # "up", pivot' = "up"
               PROVE  clamp = "shut" /\ clamp' = "shut"
    BY Zenon
  <2>1. RunPivot /\ stage = "clamp"
    <3>1. \A c \in GearCommands : ~CycleCancel(c)
      BY InterruptTypes DEF CycleCancel, IInv
    <3>2. ~CycleAdd
      BY InterruptTypes DEF CycleAdd, IInv, gripper
    <3>3. /\ ~CyclePoll /\ ~GearMoves /\ ~ArmMoves /\ ~DriverEnablesOrDisables
          /\ \A b : ~DriverPressesOrReleases(b)
      BY DEF CyclePoll, GearMoves, ArmMoves, DriverEnablesOrDisables,
             DriverPressesOrReleases, gripper
    <3>4. ~RunLoadGear /\ ~RunReleaseGear /\ ~RunStartClear /\ ~RunStopClear
      BY DEF RunLoadGear, RunReleaseGear, RunStartClear, RunStopClear,
             ReleaseEnd, SetPivotPosition, gripper
    <3>5. RunStageGear
      BY <3>1, <3>2, <3>3, <3>4 DEF Next, Cycle
    <3> QED
      BY <3>5 DEF RunStageGear, RunDeploy, RunClamp, RunPivot
  <2> QED
    BY <2>1 DEF RunPivot, IInv, StageHoldsGear
<1> QED
  BY <1>1, <1>2, InitIInv, PTL DEF Spec, PivotsClampShut

=============================================================================
