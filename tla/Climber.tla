------------------------------- MODULE Climber -------------------------------
(***************************************************************************)
(* The rope climber: subsystem::Climber, the commands CaptureRope,         *)
(* StartClimb, FinishClimb, Override and StopClimb, and the two gamepad    *)
(* buttons OI binds to them.                                               *)
(*                                                                         *)
(*   start pressed  -> CaptureRope    start released -> StopClimb          *)
(*   Y pressed      -> Override       Y released     -> StopClimb          *)
(*                                                                         *)
(* CaptureRope ends when the motors draw current and starts StartClimb,    *)
(* which ends when the winch has turned far enough and starts FinishClimb. *)
(* Voltages are named, not numbered; the motor currents and the winch      *)
(* position are read from the world and may have any value.                *)
(***************************************************************************)
EXTENDS Naturals, Sequences

CONSTANTS
  ZeroCountReq,  \* kZeroCountReq: reads to skip after zeroing the encoder
  Overrun        \* see Scheduler

ASSUME ZeroCountReqAssumption == ZeroCountReq \in Nat

VARIABLES
  held, enabled, phase, poll, last, torun, active, started, additions,
  output,       \* the voltage both climber Talons are set to
  ramp,         \* TRUE while the Talons ramp their voltage (capture mode)
  limit,        \* the current limit of the Talons
  is_running_,
  is_captured_,
  is_zeroed_,
  is_ratchet_,
  zero_count_,
  stopLost      \* history: a released button did not lead to a Stop

\* The StopClimb of each button is an object of its own (OI creates two).
StopClimbs == {"StopClimb_start", "StopClimb_Y"}
ClimberCommands ==
  {"CaptureRope", "StartClimb", "FinishClimb", "Override"} \cup StopClimbs

ClimberButtons == {"start", "Y"}

\* Button schedulers run in the reverse of the order OI created them in.
ClimberBindings ==
  << [button |-> "Y", edge |-> "release", command |-> "StopClimb_Y"],
     [button |-> "Y", edge |-> "press", command |-> "Override"],
     [button |-> "start", edge |-> "release", command |-> "StopClimb_start"],
     [button |-> "start", edge |-> "press", command |-> "CaptureRope"] >>

ClimberRequires == [c \in ClimberCommands |-> {"climber"}]

\* Mutant: StopClimb may be interrupted too.
StopClimbInterruptible ==
  {"CaptureRope", "StartClimb", "FinishClimb"} \cup StopClimbs

ClimberInterruptible == {"CaptureRope", "StartClimb", "FinishClimb"}

INSTANCE Scheduler WITH
  Commands <- ClimberCommands,
  Requires <- ClimberRequires,
  Interruptible <- ClimberInterruptible,
  Bindings <- ClimberBindings,
  Buttons <- ClimberButtons

driverStation == <<held, enabled>>
scheduler == <<phase, poll, last, torun, active, started, additions>>
subsystem == <<output, ramp, limit, is_running_, is_captured_, is_zeroed_,
               is_ratchet_, zero_count_>>
vars == <<driverStation, scheduler, subsystem, stopLost>>

Driving == {"capture", "climb", "finish"}

\* The commands that set a driving voltage.
Drivers == ClimberCommands \ StopClimbs

TypeOK ==
  /\ SchedulerTypeOK
  /\ output \in {"off", "ratchet"} \cup Driving
  /\ ramp \in BOOLEAN
  /\ limit \in {"default", "climb", "finish"}
  /\ is_running_ \in BOOLEAN
  /\ is_captured_ \in BOOLEAN
  /\ is_zeroed_ \in BOOLEAN
  /\ is_ratchet_ \in BOOLEAN
  /\ zero_count_ \in 0 .. ZeroCountReq
  /\ stopLost \in BOOLEAN

Init ==
  /\ SchedulerInit
  /\ output = "off"
  /\ ramp = FALSE
  /\ limit = "default"
  /\ is_running_ = FALSE
  /\ is_captured_ = FALSE
  /\ is_zeroed_ = FALSE
  /\ is_ratchet_ = FALSE
  /\ zero_count_ = 0
  /\ stopLost = FALSE

-----------------------------------------------------------------------------
(* subsystem::Climber *)

StartCapture ==
  /\ output' = "capture"
  /\ is_running_' = TRUE

StartClimb ==
  /\ output' = "climb"
  /\ limit' = "climb"
  /\ is_running_' = TRUE

StartFinish ==
  /\ output' = "finish"
  /\ is_running_' = TRUE

\* Mutants: the ratchet is ignored; the ratchet voltage is never written.
StopWithoutRatchet ==
  /\ is_running_' = FALSE
  /\ output' = "off"

StopReturnsEarly ==
  /\ is_running_' = FALSE
  /\ output' = IF is_ratchet_ THEN output ELSE "off"

Stop ==
  /\ is_running_' = FALSE
  /\ output' = IF is_ratchet_ THEN "ratchet" ELSE "off"

\* ZeroPosition does its work once.
ZeroPosition == is_zeroed_' = TRUE

\* IsCaptured latches: currentIsHigh is what the Talons report.
Captured(currentIsHigh) == is_captured_ \/ currentIsHigh

\* Mutant: the reads after zeroing are believed at once.
ClimbFinishedAtOnce(isFarEnough) == isFarEnough

\* ShouldClimbFinish skips reads until zeroing the encoder has taken effect.
ClimbFinished(isFarEnough) == zero_count_ >= ZeroCountReq /\ isFarEnough
CountRead ==
  zero_count_' = IF zero_count_ < ZeroCountReq THEN zero_count_ + 1
                                               ELSE zero_count_

-----------------------------------------------------------------------------
(* The commands: Run calls Initialize the first time, then IsFinished, and *)
(* End when that returned true.                                            *)

RunCaptureRope(currentIsHigh) ==
  LET done == Captured(currentIsHigh)
  IN  /\ IF "CaptureRope" \in started THEN UNCHANGED <<output, is_running_>>
                                      ELSE StartCapture
      /\ IF done THEN /\ Finish("CaptureRope", Enqueue("StartClimb"))
                      /\ is_captured_' = TRUE
                      /\ ramp' = FALSE
                      /\ is_ratchet_' = TRUE
                 ELSE /\ KeepRunning("CaptureRope")
                      /\ ramp' = TRUE
                      /\ UNCHANGED <<is_captured_, is_ratchet_>>
      /\ IF done /\ ~is_captured_ THEN ZeroPosition ELSE UNCHANGED is_zeroed_
      /\ UNCHANGED <<limit, zero_count_, stopLost, driverStation>>

RunStartClimb(isFarEnough) ==
  /\ IF "StartClimb" \in started THEN UNCHANGED <<output, limit, is_running_>>
                                 ELSE StartClimb
  /\ CountRead
  /\ IF ClimbFinished(isFarEnough)
     THEN Finish("StartClimb", Enqueue("FinishClimb"))
     ELSE KeepRunning("StartClimb")
  /\ UNCHANGED <<ramp, is_captured_, is_zeroed_, is_ratchet_, stopLost,
                 driverStation>>

\* SetFinishModeEnabled sets the current limit of both Talons.
RunFinishClimb ==
  /\ Finish("FinishClimb", additions)
  /\ limit' = "finish"
  /\ StartFinish
  /\ UNCHANGED <<ramp, is_captured_, is_zeroed_, is_ratchet_, zero_count_,
                 stopLost, driverStation>>

RunOverride ==
  /\ Finish("Override", additions)
  /\ StartClimb
  /\ UNCHANGED <<ramp, is_captured_, is_zeroed_, is_ratchet_, zero_count_,
                 stopLost, driverStation>>

RunStopClimb(c) ==
  /\ Finish(c, additions)
  /\ Stop
  /\ stopLost' = (stopLost /\ \E d \in Drivers : Queued(d))
  /\ UNCHANGED <<ramp, limit, is_captured_, is_zeroed_, is_ratchet_,
                 zero_count_, driverStation>>

\* Interrupted: CaptureRope leaves capture mode, no other command does anything
\* and none of them stops the motors.
InterruptedRamp(interrupted) == IF "CaptureRope" \in interrupted \cap started
                                THEN FALSE ELSE ramp

-----------------------------------------------------------------------------
(* The control cycle *)

\* A release that comes before the release binding has sampled the press is
\* never seen by it.
Unseen(b) ==
  \E i, j \in 1 .. Len(ClimberBindings) :
    /\ ClimberBindings[i].button = b /\ ClimberBindings[i].edge = "press"
    /\ ClimberBindings[j].button = b /\ ClimberBindings[j].edge = "release"
    /\ held[b] /\ last[i] /\ ~last[j]

DriverPressesOrReleases(b) ==
  /\ ToggleButton(b)
  /\ stopLost' = (stopLost \/ Unseen(b))
  /\ UNCHANGED <<scheduler, subsystem>>

DriverEnablesOrDisables ==
  /\ ToggleEnabled
  /\ UNCHANGED <<scheduler, subsystem, stopLost>>

CyclePoll ==
  /\ PollButton \/ BeginRun
  /\ UNCHANGED <<driverStation, subsystem, stopLost>>

CycleCancel(c) ==
  /\ CancelDisabled(c)
  /\ ramp' = InterruptedRamp({c})
  /\ stopLost' = (stopLost \/ c \in StopClimbs)
  /\ UNCHANGED <<driverStation, output, limit, is_running_, is_captured_,
                 is_zeroed_, is_ratchet_, zero_count_>>

CycleAdd ==
  \/ /\ \/ BeginAdd
        \/ \E c \in ClimberCommands : Ignore(c)
        \/ EndCycle
     /\ UNCHANGED <<driverStation, subsystem, stopLost>>
  \/ \E c \in ClimberCommands :
       /\ Insert(c)
       /\ ramp' = InterruptedRamp(InTheWay(c))
       /\ UNCHANGED <<driverStation, output, limit, is_running_, is_captured_,
                      is_zeroed_, is_ratchet_, zero_count_, stopLost>>

Cycle ==
  \/ CyclePoll
  \/ \E c \in ClimberCommands : CycleCancel(c)
  \/ \E currentIsHigh \in BOOLEAN : RunCaptureRope(currentIsHigh)
  \/ \E isFarEnough \in BOOLEAN : RunStartClimb(isFarEnough)
  \/ RunFinishClimb
  \/ RunOverride
  \/ \E c \in StopClimbs : RunStopClimb(c)
  \/ CycleAdd

Next ==
  \/ \E b \in ClimberButtons : DriverPressesOrReleases(b)
  \/ DriverEnablesOrDisables
  \/ Cycle

Spec == Init /\ [][Next]_vars

\* The main loop keeps running cycles; nothing is assumed of the driver, the
\* motor currents or the winch.
FairSpec == Spec /\ WF_vars(Cycle)

-----------------------------------------------------------------------------
(* Properties *)

NothingHeld == \A b \in ClimberButtons : ~held[b]

\* Between two cycles, with every release sampled and no command left.
Settled ==
  /\ phase = "poll"
  /\ poll = 1
  /\ active = {}
  /\ \A i \in DOMAIN last : ~last[i]

\* Letting go of both buttons stops the winch.  Commands are dropped when
\* another one that may not be interrupted was added in the same cycle
\* (Override and both StopClimbs), and CaptureRope and StartClimb leave the
\* motors on when they are interrupted; yet the only ways to be left with a
\* driven winch and no button held are those stopLost records.
ReleaseStopsWinch ==
  Settled /\ NothingHeld /\ output \in Driving => stopLost

\* Once the rope is captured no path through the commands turns the motors
\* off: a Stop leaves them at the ratchet voltage that keeps the robot up.
CapturedRopeIsHeld == is_captured_ => output # "off"

\* The voltage ramp of capture mode is on exactly while CaptureRope runs: an
\* interrupted capture does not leave the climb ramped.
RampOnlyWhileCapturing == ramp <=> "CaptureRope" \in started

\* The slow finish is reached only with a captured rope and a zeroed encoder
\* whose reading has settled.
FinishNeedsCapture ==
  output = "finish" => is_captured_ /\ is_zeroed_ /\ zero_count_ = ZeroCountReq

\* Every command here drives the climber, so no two are active at once, however
\* their starts, Override among them, are queued behind one another.
OneCommandAtATime == \A c, d \in active : c = d

\* If the driver lets go for good and the robot stays enabled, the winch stops
\* for good, unless that release was lost.
Quiet == enabled /\ NothingHeld
WinchComesToRest == <>[]Quiet => <>[](stopLost \/ output \notin Driving)
=============================================================================
