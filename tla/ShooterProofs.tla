---------------------------- MODULE ShooterProofs ----------------------------
(***************************************************************************)
(* Proofs about the shooting sequences (Shooter), for every set of buttons *)
(* the driver uses and with driver station packets at any point of a       *)
(* cycle.  The shooter's wheel is in SwerveProofs, beside the health check *)
(* that stops it.                                                          *)
(***************************************************************************)
EXTENDS Shooter, SequenceTheorems, TLAPS

-----------------------------------------------------------------------------
(* The bindings, the queue and the conflicts of the shooting commands *)

\* The six bindings, spelled out.
LEMMA BindingFacts ==
  /\ Len(ShooterBindings) = 6
  /\ \A i \in 1 .. 6 : /\ ShooterBindings[i].command \in ShooterCommands
                       /\ ShooterBindings[i].button \in Buttons
  /\ ShooterBindings[1] = [button |-> "X", edge |-> "release",
                           command |-> "StopShooting_X"]
  /\ ShooterBindings[2] = [button |-> "X", edge |-> "press",
                           command |-> "StartCloseShot"]
  /\ ShooterBindings[3] = [button |-> "A", edge |-> "release",
                           command |-> "StopShooting_A"]
  /\ ShooterBindings[4] = [button |-> "A", edge |-> "press",
                           command |-> "StartCrowdShot"]
  /\ ShooterBindings[5] = [button |-> "auto", edge |-> "release",
                           command |-> "StopShooting_auto"]
  /\ ShooterBindings[6] = [button |-> "auto", edge |-> "press",
                           command |-> "StartShooting"]
<1> DEFINE B == ShooterBindings
<1>1. /\ Len(B) = 6
      /\ B[1] = [button |-> "X", edge |-> "release",
                 command |-> "StopShooting_X"]
      /\ B[2] = [button |-> "X", edge |-> "press",
                 command |-> "StartCloseShot"]
      /\ B[3] = [button |-> "A", edge |-> "release",
                 command |-> "StopShooting_A"]
      /\ B[4] = [button |-> "A", edge |-> "press",
                 command |-> "StartCrowdShot"]
      /\ B[5] = [button |-> "auto", edge |-> "release",
                 command |-> "StopShooting_auto"]
      /\ B[6] = [button |-> "auto", edge |-> "press",
                 command |-> "StartShooting"]
  BY DEF ShooterBindings
<1>2. 1 .. 6 = {1, 2, 3, 4, 5, 6}
  OBVIOUS
<1> QED
  BY <1>1, <1>2
  DEF ShooterCommands, Shots, FixedShots, StopShootings, Buttons

\* Command::Start: it keeps what was queued and adds only that command.
LEMMA EnqueueStep ==
  ASSUME NEW c \in ShooterCommands, additions \in Seq(ShooterCommands),
         additions' = Enqueue(c)
  PROVE  /\ additions' \in Seq(ShooterCommands)
         /\ \A d : Queued(d)' <=> (Queued(d) \/ d = c)
<1>1. CASE Queued(c)
  <2>1. additions' = additions
    BY <1>1 DEF Enqueue
  <2>2. \A d : Queued(d)' <=> Queued(d)
    BY <2>1 DEF Queued
  <2> QED
    BY <1>1, <2>1, <2>2
<1>2. CASE ~Queued(c)
  <2>1. additions' = Append(additions, c)
    BY <1>2 DEF Enqueue
  <2>2. /\ additions' \in Seq(ShooterCommands)
        /\ Len(additions') = Len(additions) + 1
        /\ \A i \in 1 .. Len(additions) : additions'[i] = additions[i]
        /\ additions'[Len(additions) + 1] = c
    BY <2>1
  <2> QED
    BY <2>2 DEF Queued
<1> QED
  BY <1>1, <1>2

\* Taking the head of the queue leaves the rest of it waiting.
LEMMA DequeueStep ==
  ASSUME additions \in Seq(ShooterCommands), additions # <<>>,
         additions' = Tail(additions)
  PROVE  /\ additions' \in Seq(ShooterCommands)
         /\ Head(additions) \in ShooterCommands
         /\ Queued(Head(additions))
         /\ \A d : Queued(d) => d = Head(additions) \/ Queued(d)'
         /\ \A d : Queued(d)' => Queued(d)
<1>1. /\ Len(additions) \in Nat \ {0}
      /\ Head(additions) = additions[1]
      /\ additions' \in Seq(ShooterCommands)
      /\ Len(additions') = Len(additions) - 1
      /\ \A i \in 1 .. Len(additions) - 1 : additions'[i] = additions[i + 1]
  BY EmptySeq, HeadTailProperties
<1>2. \A i \in 1 .. Len(additions) : i # 1 =>
        /\ i - 1 \in 1 .. Len(additions) - 1
        /\ additions'[i - 1] = additions[i]
  BY <1>1
<1> QED
  BY <1>1, <1>2 DEF Queued

\* Every two shooting commands need the hopper, and every one of them may be
\* interrupted: a new command interrupts whatever runs and is never refused.
LEMMA ConflictFacts ==
  /\ \A c, d \in ShooterCommands : Conflicts(c, d)
  /\ active \subseteq ShooterCommands =>
       \A c \in ShooterCommands : InTheWay(c) = active /\ ~Refused(c)
<1>1. \A c \in ShooterCommands : "hopper" \in ShooterRequires[c]
  <2> SUFFICES ASSUME NEW c \in ShooterCommands
               PROVE  "hopper" \in ShooterRequires[c]
    OBVIOUS
  <2>1. CASE c = "StartShooting"
    BY <2>1 DEF ShooterRequires
  <2>2. CASE c \in FixedShots
    BY <2>2 DEF ShooterRequires, FixedShots
  <2>3. CASE c \in StopShootings
    BY <2>3 DEF ShooterRequires, FixedShots, StopShootings
  <2> QED
    BY <2>1, <2>2, <2>3 DEF ShooterCommands, Shots
<1>2. \A c, d \in ShooterCommands : Conflicts(c, d)
  BY <1>1 DEF Conflicts
<1> QED
  BY <1>2 DEF InTheWay, Refused

\* Shots and StopShootings are different commands.
LEMMA CommandFacts ==
  /\ StopShootings \subseteq ShooterCommands
  /\ FixedShots \subseteq Shots
  /\ Shots \subseteq ShooterCommands
  /\ "StartShooting" \in Shots \ FixedShots
  /\ "StopShooting_teleop" \in StopShootings
  /\ Shots \cap StopShootings = {}
BY DEF ShooterCommands, Shots, FixedShots, StopShootings

-----------------------------------------------------------------------------
(* Type correctness *)

\* What the steps of this module do to the scheduler's own variables.
SchedulerStep ==
  \/ PollButton \/ BeginRun \/ BeginAdd \/ EndCycle
  \/ \E c \in ShooterCommands :
       \/ CancelDisabled(c) \/ KeepRunning(c) \/ Ignore(c) \/ Insert(c)
       \/ Finish(c, additions)

\* The steps of the scheduler keep its variables in their types.
LEMMA SchedulerTypes ==
  ASSUME SchedulerTypeOK, SchedulerStep, UNCHANGED driverStation
  PROVE  SchedulerTypeOK'
<1> USE BindingFacts DEF SchedulerTypeOK, driverStation
<1>1. CASE PollButton
  <2>1. poll \in 1 .. 6
    BY <1>1 DEF PollButton
  <2>2. ShooterBindings[poll].command \in ShooterCommands
    BY <2>1
  <2>3. additions' \in Seq(ShooterCommands)
    BY <1>1, <2>2, EnqueueStep DEF PollButton
  <2>4. held[ShooterBindings[poll].button] \in BOOLEAN
    BY <2>1
  <2> QED
    BY <1>1, <2>1, <2>3, <2>4 DEF PollButton
<1>2. CASE BeginRun \/ BeginAdd \/ EndCycle
  BY <1>2 DEF BeginRun, BeginAdd, EndCycle
<1>3. ASSUME NEW c \in ShooterCommands,
             CancelDisabled(c) \/ KeepRunning(c) \/ Finish(c, additions)
      PROVE  SchedulerTypeOK'
  BY <1>3 DEF CancelDisabled, KeepRunning, Finish
<1>4. ASSUME NEW c \in ShooterCommands, Ignore(c)
      PROVE  SchedulerTypeOK'
  BY <1>4, DequeueStep DEF Ignore
<1>5. ASSUME NEW c \in ShooterCommands, Insert(c)
      PROVE  SchedulerTypeOK'
  <2>1. InTheWay(c) \subseteq active /\ torun = {}
    BY <1>5 DEF InTheWay, Insert
  <2>2. additions' \in Seq(ShooterCommands)
    BY <1>5, DequeueStep DEF Insert
  <2> QED
    BY <1>5, <2>1, <2>2 DEF Insert
<1> QED
  BY <1>1, <1>2, <1>3, <1>4, <1>5 DEF SchedulerStep

\* The robot starts with every variable in its type.
LEMMA TypeInit == Init => TypeOK
<1>1. Init => SchedulerTypeOK
  BY BindingFacts DEF Init, SchedulerInit, SchedulerTypeOK
<1> QED
  BY <1>1 DEF Init, TypeOK, SlowWheel

\* The types of the variables that are neither the scheduler's nor history.
ShooterTypes ==
  /\ wheel \in FastWheel \cup SlowWheel
  /\ elevation \in {"zero", "prepare", "close", "crowd", "aim", "solution"}
  /\ hopper \in {"off", "solution", "fixed"}
  /\ led \in BOOLEAN

GroupTypes ==
  /\ stage \in {"aim", "spin", "fed"}
  /\ children \subseteq AimChildren \cup SpinChildren
  /\ canceled \in BOOLEAN
  /\ solved \in BOOLEAN

\* SetShooter gives the wheel one of its speeds or leaves it alone.
LEMMA SetShooterTypes ==
  ASSUME ShooterTypes, NEW aim \in {"prepare", "close", "crowd"},
         NEW tracked \in SUBSET {"aim"}, SetShooter(aim, tracked)
  PROVE  /\ wheel' \in FastWheel \cup SlowWheel
         /\ elevation' \in {"zero", "prepare", "close", "crowd", "aim",
                            "solution"}
BY DEF ShooterTypes, SetShooter, FastWheel

\* A turn of StartShooting keeps the types, whatever its children do.
LEMMA StartShootingTypes ==
  ASSUME TypeOK, RunStartShooting
  PROVE  ShooterTypes' /\ GroupTypes'
<1> USE DEF ShooterTypes, GroupTypes
<1>0. ShooterTypes /\ GroupTypes
  BY DEF TypeOK
<1>1. CASE BeginShooting
  <2>1. SetShooter("prepare", {"aim"})
    BY <1>1 DEF BeginShooting
  <2>2. ShooterTypes'
    BY <1>0, <1>1, <2>1, SetShooterTypes DEF BeginShooting
  <2> QED
    BY <1>1, <2>2 DEF BeginShooting
<1>2. CASE CancelShooting
  BY <1>0, <1>2 DEF CancelShooting, shooter
<1>3. ASSUME NEW finishing, NEW isValid \in BOOLEAN,
             RunChildren(finishing, isValid)
      PROVE  ShooterTypes' /\ GroupTypes'
  <2>1. elevation' \in {elevation, "aim"}
    BY <1>3 DEF RunChildren, TrackTarget
  <2>2. canceled' \in BOOLEAN /\ solved' \in BOOLEAN
    BY <1>0, <1>3, Zenon DEF RunChildren, CalculateSolution
  <2> QED
    BY <1>0, <1>3, <2>1, <2>2 DEF RunChildren
<1>4. ASSUME NEW finishing, NEW isValid \in BOOLEAN, SpinUp(finishing, isValid)
      PROVE  ShooterTypes' /\ GroupTypes'
  <2>1. canceled' \in BOOLEAN /\ solved' \in BOOLEAN
    BY <1>0, <1>4, Zenon DEF SpinUp, CalculateSolution
  <2> QED
    BY <1>0, <1>4, <2>1 DEF SpinUp, FastWheel
<1>5. ASSUME NEW finishing, Feed(finishing)
      PROVE  ShooterTypes' /\ GroupTypes'
  BY <1>0, <1>5 DEF Feed
<1> QED
  BY <1>1, <1>2, <1>3, <1>4, <1>5
  DEF RunStartShooting, AimOn, FinishChildren

\* A turn of the scheduler in which StartShooting runs.
LEMMA StartShootingSchedules ==
  ASSUME RunStartShooting
  PROVE  /\ KeepRunning("StartShooting") \/ Finish("StartShooting", additions)
         /\ UNCHANGED <<driverStation, mainLoop, stopLost>>
<1>1. UNCHANGED <<driverStation, mainLoop, stopLost>>
  BY DEF RunStartShooting
<1>2. KeepRunning("StartShooting") \/ Finish("StartShooting", additions)
  BY Zenon DEF RunStartShooting, BeginShooting, CancelShooting, AimOn, SpinUp, Feed,
         FinishChildren
<1> QED
  BY <1>1, <1>2

\* No handler of the shooter takes a variable out of its type.
LEMMA TypeStep == ASSUME TypeOK, [Next]_vars PROVE TypeOK'
<1> USE DEF TypeOK
<1>0. /\ ShooterTypes /\ GroupTypes /\ SchedulerTypeOK
      /\ modeChecked \in BOOLEAN /\ teleopInitialized \in BOOLEAN
      /\ stopLost \in BOOLEAN
  BY DEF ShooterTypes, GroupTypes
<1> SUFFICES /\ SchedulerTypeOK'
             /\ ShooterTypes'
             /\ GroupTypes'
             /\ modeChecked' \in BOOLEAN /\ teleopInitialized' \in BOOLEAN
             /\ stopLost' \in BOOLEAN
  BY DEF ShooterTypes, GroupTypes
<1> HIDE DEF TypeOK
<1>a. UNCHANGED shooter => ShooterTypes'
  BY <1>0 DEF shooter, ShooterTypes
<1>b. UNCHANGED group => GroupTypes'
  BY <1>0 DEF group, GroupTypes
<1>c. UNCHANGED mainLoop =>
        modeChecked' \in BOOLEAN /\ teleopInitialized' \in BOOLEAN
  BY <1>0 DEF mainLoop
<1>d. ASSUME NEW S, Interrupt(S) PROVE ShooterTypes' /\ GroupTypes'
  <2>1. CASE UNCHANGED <<group, shooter>>
    BY <1>a, <1>b, <2>1
  <2>2. CASE children' = {} /\ canceled' = FALSE
             /\ UNCHANGED <<stage, solved, shooter>>
    BY <1>0, <1>a, <2>2 DEF GroupTypes
  <2> QED
    BY <1>d, <2>1, <2>2, Zenon DEF Interrupt
<1>1. ASSUME NEW b \in ShooterButtons, DriverPressesOrReleases(b)
      PROVE  /\ SchedulerTypeOK' /\ ShooterTypes' /\ GroupTypes'
             /\ modeChecked' \in BOOLEAN /\ teleopInitialized' \in BOOLEAN
             /\ stopLost' \in BOOLEAN
  <2>1. held' \in [Buttons -> BOOLEAN] /\ enabled' = enabled
    BY <1>0, <1>1 DEF DriverPressesOrReleases, ToggleButton, SchedulerTypeOK
  <2>2. SchedulerTypeOK'
    BY <1>0, <1>1, <2>1
    DEF DriverPressesOrReleases, SchedulerTypeOK, scheduler
  <2>3. stopLost' \in BOOLEAN
    BY <1>0, <1>1 DEF DriverPressesOrReleases, Unseen
  <2> QED
    BY <1>1, <2>2, <2>3, <1>a, <1>b, <1>c DEF DriverPressesOrReleases
<1>2. CASE DriverEnablesOrDisables
  <2>1. SchedulerTypeOK'
    BY <1>0, <1>2
    DEF DriverEnablesOrDisables, ToggleEnabled, SchedulerTypeOK, scheduler
  <2> QED
    BY <1>0, <1>2, <2>1, <1>a, <1>b, <1>c DEF DriverEnablesOrDisables
<1>3. CASE ChooseMode
  <2>1. /\ teleopInitialized' \in BOOLEAN /\ stopLost' \in BOOLEAN
        /\ modeChecked' = TRUE
        /\ additions' = additions \/ additions' = Enqueue("StopShooting_teleop")
    BY <1>0, <1>3 DEF ChooseMode, TeleopInit, DisabledInit
  <2>2. additions' \in Seq(ShooterCommands)
    BY <1>0, <2>1, EnqueueStep, CommandFacts DEF SchedulerTypeOK
  <2>3. SchedulerTypeOK'
    BY <1>0, <1>3, <2>2 DEF ChooseMode, SchedulerTypeOK, driverStation
  <2> QED
    BY <1>3, <2>1, <2>3, <1>a, <1>b DEF ChooseMode
<1>4. CASE CyclePoll
  <2>1. SchedulerTypeOK'
    BY <1>0, <1>4, SchedulerTypes DEF CyclePoll, SchedulerStep
  <2> QED
    BY <1>0, <1>4, <2>1, <1>a, <1>b, <1>c DEF CyclePoll
<1>5. ASSUME NEW c \in ShooterCommands, CycleCancel(c)
      PROVE  /\ SchedulerTypeOK' /\ ShooterTypes' /\ GroupTypes'
             /\ modeChecked' \in BOOLEAN /\ teleopInitialized' \in BOOLEAN
             /\ stopLost' \in BOOLEAN
  <2>1. SchedulerTypeOK'
    BY <1>0, <1>5, SchedulerTypes DEF CycleCancel, SchedulerStep
  <2> QED
    BY <1>0, <1>5, <2>1, <1>c, <1>d DEF CycleCancel
<1>6. CASE RunStartShooting
  <2>1. SchedulerTypeOK'
    BY <1>0, <1>6, StartShootingSchedules, SchedulerTypes, CommandFacts
    DEF SchedulerStep
  <2> QED
    BY <1>0, <1>6, <2>1, <1>c, StartShootingSchedules, StartShootingTypes
<1>7. ASSUME NEW c \in FixedShots, RunFixedShot(c)
      PROVE  /\ SchedulerTypeOK' /\ ShooterTypes' /\ GroupTypes'
             /\ modeChecked' \in BOOLEAN /\ teleopInitialized' \in BOOLEAN
             /\ stopLost' \in BOOLEAN
  <2>1. SchedulerTypeOK'
    BY <1>0, <1>7, SchedulerTypes, CommandFacts
    DEF RunFixedShot, SchedulerStep
  <2>2. hopper' \in {hopper, "fixed"} /\ led' = led
    BY <1>7 DEF RunFixedShot
  <2>3. \/ SetShooter(IF c = "StartCloseShot" THEN "close" ELSE "crowd", {})
        \/ UNCHANGED <<wheel, elevation>>
    BY <1>7 DEF RunFixedShot
  <2>4. /\ wheel' \in FastWheel \cup SlowWheel
        /\ elevation' \in {"zero", "prepare", "close", "crowd", "aim",
                           "solution"}
    <3>1. CASE UNCHANGED <<wheel, elevation>>
      BY <1>0, <3>1 DEF ShooterTypes
    <3>2. CASE SetShooter(IF c = "StartCloseShot" THEN "close" ELSE "crowd", {})
      BY <1>0, <3>2, SetShooterTypes
    <3> QED
      BY <2>3, <3>1, <3>2
  <2>5. ShooterTypes'
    BY <1>0, <2>2, <2>4 DEF ShooterTypes
  <2> QED
    BY <1>0, <1>7, <2>1, <2>5, <1>b, <1>c DEF RunFixedShot
<1>8. ASSUME NEW c \in StopShootings, NEW speed \in {"fast", "slow", "rest"},
             RunStopShooting(c, speed)
      PROVE  /\ SchedulerTypeOK' /\ ShooterTypes' /\ GroupTypes'
             /\ modeChecked' \in BOOLEAN /\ teleopInitialized' \in BOOLEAN
             /\ stopLost' \in BOOLEAN
  <2>1. SchedulerTypeOK'
    <3>1. KeepRunning(c) \/ Finish(c, additions)
      BY <1>8, Zenon DEF RunStopShooting
    <3> QED
      BY <1>0, <1>8, <3>1, SchedulerTypes, CommandFacts
      DEF RunStopShooting, SchedulerStep
  <2>2. /\ RampDown(speed) \/ RampDown(RampedTo)
        /\ hopper' \in {hopper, "off"} /\ led' \in {led, FALSE}
    BY <1>8, Zenon DEF RunStopShooting
  <2>3. wheel' \in FastWheel \cup SlowWheel
    BY <2>2 DEF RampDown, RampedTo, FastWheel, SlowWheel
  <2>4. ShooterTypes'
    BY <1>0, <1>8, <2>2, <2>3 DEF ShooterTypes, RunStopShooting
  <2> QED
    BY <1>0, <1>8, <2>1, <2>4, <1>b, <1>c DEF RunStopShooting
<1>9. CASE CycleAdd
  <2>1. SchedulerTypeOK'
    BY <1>0, <1>9, SchedulerTypes DEF CycleAdd, SchedulerStep
  <2>2. stopLost' = stopLost
    BY <1>9 DEF CycleAdd
  <2>3. /\ UNCHANGED <<group, shooter>> \/ \E S : Interrupt(S)
        /\ \/ UNCHANGED mainLoop
           \/ modeChecked' = FALSE /\ teleopInitialized' = teleopInitialized
    BY <1>9 DEF CycleAdd
  <2> QED
    BY <1>0, <2>1, <2>2, <2>3, <1>a, <1>b, <1>c, <1>d
<1>10. CASE UNCHANGED vars
  <2>1. SchedulerTypeOK'
    BY <1>0, <1>10 DEF vars, driverStation, scheduler, SchedulerTypeOK
  <2> QED
    BY <1>0, <1>10, <2>1, <1>a, <1>b, <1>c DEF vars
<1> QED
  BY <1>1, <1>2, <1>3, <1>4, <1>5, <1>6, <1>7, <1>8, <1>9, <1>10
  DEF Next, Cycle

\* Every variable keeps its type: in particular no command outside the
\* shooter's is ever active or queued, and none is to run that is not active.
THEOREM TypeCorrect == Spec => []TypeOK
<1>1. TypeOK /\ [Next]_vars => TypeOK'
  BY TypeStep
<1> QED
  BY <1>1, TypeInit, PTL DEF Spec

-----------------------------------------------------------------------------
(* The inductive invariant *)

\* The bindings come in pairs: Releases are the places of those that watch a
\* release, each followed by the one that watches the press of that button.
Releases == {1, 3, 5}
ButtonOf(i) == ShooterBindings[i].button
ShotOf(i) == ShooterBindings[i + 1].command

\* The release of that button will be sampled: the release binding remembers it
\* pressed, or the press binding does and it is still down.
WillNotice(i) == last[i] \/ (last[i + 1] /\ held[ButtonOf(i)])

Present(c) == c \in active \/ Queued(c)

\* Something is going to stop the shooter.
Covered ==
  \/ ~teleopInitialized
  \/ \E i \in Releases : WillNotice(i)
  \/ \E c \in StopShootings : Present(c)
  \/ stopLost

\* A shot is waiting only after its button's press has been sampled.
QueuePhase ==
  phase = "poll" => \A i \in Releases : poll <= i + 1 => ~Queued(ShotOf(i))

\* It is waiting only while the release of that button is going to be noticed.
QueuedCovered ==
  \A i \in Releases : Queued(ShotOf(i)) => WillNotice(i) \/ stopLost

\* A shot, or a shooter that is not at rest, is going to be stopped.
ShotCovered == ~AtRest \/ (\E c \in Shots : Present(c)) => Covered

\* The hopper is everybody's requirement, so one command at most is active.
Exclusive == \A c, d \in active : c = d

\* A StopShooting that has run once has only the wheel left to stop.
StopStarted == started \cap StopShootings # {} => hopper = "off" /\ ~led

\* The children of StartShooting run with it, GetAngle while it aims.
ChildrenRun ==
  /\ children # {} => "StartShooting" \in started
  /\ stage # "aim" => "GetAngle" \notin children

\* GetAngle leaves a solution behind it or cancels the group, and nothing takes
\* the wheel and the elevation from the set points of that solution.
SolvedUnlessCanceled ==
  "StartShooting" \in started /\ ~canceled =>
    /\ stage = "aim" /\ "GetAngle" \notin children => solved
    /\ stage = "spin" => solved /\ wheel = "solution" /\ elevation = "solution"

IInv ==
  /\ TypeOK
  /\ Exclusive
  /\ ChildrenRun
  /\ SolvedUnlessCanceled
  /\ StopStarted
  /\ QueuePhase
  /\ QueuedCovered
  /\ ShotCovered

-----------------------------------------------------------------------------
(* What a step does, with one active command at most *)

\* A command that runs or is cancelled is the one that is active.
LEMMA RunningAlone ==
  ASSUME TypeOK, Exclusive, NEW c \in torun
  PROVE  active = {c} /\ started \subseteq {c} /\ c \in ShooterCommands
BY DEF TypeOK, SchedulerTypeOK, Exclusive

\* The parts of the invariant about the commands that run and the set points.
ShotInv ==
  /\ Exclusive
  /\ ChildrenRun
  /\ SolvedUnlessCanceled
  /\ StopStarted

\* What leaves the commands that are started and the set points as they are.
LEMMA StutterShot ==
  ASSUME ShotInv, UNCHANGED <<active, started, group, shooter>>
  PROVE  ShotInv'
BY DEF ShotInv, Exclusive, ChildrenRun, SolvedUnlessCanceled, StopStarted,
       group, shooter

\* When nothing is started any more the children of StartShooting have ended.
LEMMA InterruptShot ==
  ASSUME IInv, Interrupt(active), started' = {}, Exclusive'
  PROVE  ShotInv'
<1>1. CASE "StartShooting" \in active
  <2>1. children' = {}
    BY <1>1 DEF Interrupt
  <2> QED
    BY <2>1 DEF ShotInv, ChildrenRun, SolvedUnlessCanceled, StopStarted
<1>2. CASE "StartShooting" \notin active
  <2>1. children' = children /\ stage' = stage
    BY <1>2 DEF Interrupt, group
  <2>2. "StartShooting" \notin started
    BY <1>2 DEF IInv, TypeOK, SchedulerTypeOK
  <2>3. children' = {}
    BY <2>1, <2>2 DEF IInv, ChildrenRun
  <2> QED
    BY <2>3 DEF ShotInv, ChildrenRun, SolvedUnlessCanceled, StopStarted
<1> QED
  BY <1>1, <1>2

\* The robot is disabled: the active command is cancelled.
LEMMA CancelShot ==
  ASSUME IInv, NEW c \in ShooterCommands, CycleCancel(c)
  PROVE  ShotInv'
<1>1. /\ c \in torun
      /\ active' = active \ {c} /\ started' = started \ {c}
      /\ Interrupt({c})
  BY DEF CycleCancel, CancelDisabled
<1>2. active = {c} /\ started \subseteq {c}
  BY <1>1, RunningAlone DEF IInv
<1>3. active' = {} /\ started' = {}
  BY <1>1, <1>2
<1> QED
  BY <1>1, <1>2, <1>3, InterruptShot DEF Exclusive

\* A queued command is added, interrupting the active one, or dropped.
LEMMA AddShot == ASSUME IInv, CycleAdd PROVE ShotInv'
<1>1. CASE /\ BeginAdd \/ EndCycle \/ \E c \in ShooterCommands : Ignore(c)
           /\ UNCHANGED <<group, shooter>>
  <2>1. UNCHANGED <<active, started>>
    BY <1>1 DEF BeginAdd, EndCycle, Ignore
  <2> QED
    BY <1>1, <2>1, StutterShot DEF IInv, ShotInv
<1>2. ASSUME NEW c \in ShooterCommands, Insert(c), Interrupt(InTheWay(c))
      PROVE  ShotInv'
  <2>1. active \subseteq ShooterCommands /\ started \subseteq active
    BY DEF IInv, TypeOK, SchedulerTypeOK
  <2>2. InTheWay(c) = active
    BY <2>1, ConflictFacts
  <2>3. active' = {c} /\ started' = {}
    BY <1>2, <2>1, <2>2 DEF Insert
  <2> QED
    BY <1>2, <2>2, <2>3, InterruptShot DEF Exclusive
<1> QED
  BY <1>1, <1>2 DEF CycleAdd

\* A turn of StartShooting: whatever ends the first wait, the group goes on to
\* spin up and to feed only with the solution GetAngle has left behind.
LEMMA StartShootingShot == ASSUME IInv, RunStartShooting PROVE ShotInv'
<1>0. /\ KeepRunning("StartShooting") \/ Finish("StartShooting", additions)
      /\ "StartShooting" \in torun
  BY StartShootingSchedules DEF KeepRunning, Finish
<1>1. /\ active = {"StartShooting"} /\ started \subseteq {"StartShooting"}
      /\ \/ active' = {} /\ started' = {}
         \/ active' = active /\ started' = {"StartShooting"}
  BY <1>0, RunningAlone DEF IInv, KeepRunning, Finish
<1>2. /\ Exclusive'
      /\ StopStarted'
  BY <1>1, CommandFacts DEF Exclusive, StopStarted
<1> SUFFICES ChildrenRun' /\ SolvedUnlessCanceled'
  BY <1>2 DEF ShotInv
<1>3. CASE Finish("StartShooting", additions) /\ children' = {}
  <2>1. started' = {}
    BY <1>1, <1>3 DEF Finish
  <2> QED
    BY <1>3, <2>1 DEF ChildrenRun, SolvedUnlessCanceled
<1>4. ASSUME KeepRunning("StartShooting") PROVE started' = {"StartShooting"}
  BY <1>1, <1>4 DEF KeepRunning
<1>5. CASE BeginShooting
  <2>1. /\ started' = {"StartShooting"}
        /\ stage' = "aim" /\ "GetAngle" \in children'
    BY <1>4, <1>5 DEF BeginShooting, AimChildren
  <2> QED
    BY <2>1 DEF ChildrenRun, SolvedUnlessCanceled
<1>6. CASE CancelShooting
  BY <1>3, <1>6 DEF CancelShooting
<1>7. ASSUME NEW finishing, NEW isValid \in BOOLEAN,
             RunChildren(finishing, isValid), KeepRunning("StartShooting")
      PROVE  ChildrenRun' /\ SolvedUnlessCanceled'
  <2>1. /\ started' = {"StartShooting"} /\ IsRunning /\ ~canceled
        /\ stage' = stage /\ wheel' = wheel
        /\ children' = children \ finishing /\ finishing \subseteq children
    BY <1>4, <1>7 DEF RunChildren
  <2>2. ChildrenRun'
    BY <2>1 DEF IInv, ChildrenRun
  <2>3. CASE "GetAngle" \in finishing
    <3>1. stage = "aim" /\ CalculateSolution(isValid)
      BY <1>7, <2>1, <2>3 DEF IInv, ChildrenRun, RunChildren, TypeOK
    <3>2. ~canceled' => solved'
      BY <3>1, Zenon DEF CalculateSolution
    <3> QED
      BY <2>1, <2>2, <3>1, <3>2 DEF SolvedUnlessCanceled
  <2>4. CASE "GetAngle" \notin finishing
    <3>1. UNCHANGED <<canceled, solved>>
      BY <1>7, <2>4 DEF RunChildren
    <3>2. "GetAngle" \in children' <=> "GetAngle" \in children
      BY <2>1, <2>4
    <3>3. "GetAngle" \notin children => elevation' = elevation
      BY <1>7 DEF RunChildren
    <3> QED
      BY <2>1, <2>2, <3>1, <3>2, <3>3
      DEF IInv, ChildrenRun, SolvedUnlessCanceled, IsRunning
  <2> QED
    BY <2>3, <2>4
<1>8. ASSUME NEW finishing, NEW isValid \in BOOLEAN, SpinUp(finishing, isValid)
      PROVE  ChildrenRun' /\ SolvedUnlessCanceled'
  <2>1. /\ started' = {"StartShooting"} /\ IsRunning /\ ~canceled
        /\ stage = "aim" /\ stage' = "spin"
        /\ wheel' = "solution" /\ elevation' = "solution"
        /\ "GetAngle" \notin children'
    BY <1>4, <1>8 DEF SpinUp, SpinChildren
  <2>2. ~canceled' => solved'
    <3>1. CASE "GetAngle" \in children
      BY <1>8, <3>1, Zenon DEF SpinUp, CalculateSolution
    <3>2. CASE "GetAngle" \notin children
      BY <1>8, <2>1, <3>2 DEF SpinUp, IInv, SolvedUnlessCanceled, IsRunning
    <3> QED
      BY <3>1, <3>2
  <2> QED
    BY <2>1, <2>2 DEF ChildrenRun, SolvedUnlessCanceled
<1>9. ASSUME NEW finishing, Feed(finishing)
      PROVE  ChildrenRun' /\ SolvedUnlessCanceled'
  <2>1. /\ stage = "spin" /\ stage' = "fed"
        /\ children' = children \ finishing
    BY <1>9 DEF Feed
  <2>2. CASE children' = {}
    BY <1>3, <1>9, <2>2 DEF Feed
  <2>3. CASE children' # {}
    <3>1. started' = {"StartShooting"}
      BY <1>4, <1>9, <2>3 DEF Feed
    <3> QED
      BY <2>1, <3>1 DEF IInv, ChildrenRun, SolvedUnlessCanceled
  <2> QED
    BY <2>2, <2>3
<1>10. ASSUME NEW finishing, FinishChildren(finishing)
       PROVE  ChildrenRun' /\ SolvedUnlessCanceled'
  <2>1. CASE children' = {}
    BY <1>3, <1>10, <2>1 DEF FinishChildren
  <2>2. CASE children' # {}
    BY <1>7, <1>10, <2>2 DEF FinishChildren
  <2> QED
    BY <2>1, <2>2
<1> QED
  BY <1>5, <1>6, <1>7, <1>8, <1>9, <1>10 DEF RunStartShooting, AimOn

\* A turn of the other groups: StartShooting is not active then.
LEMMA OtherShot ==
  ASSUME IInv,
         \/ \E c \in FixedShots : RunFixedShot(c)
         \/ \E c \in StopShootings, speed \in {"fast", "slow", "rest"} :
              RunStopShooting(c, speed)
  PROVE  ShotInv'
<1>0. ASSUME NEW c \in ShooterCommands \ {"StartShooting"},
             KeepRunning(c) \/ Finish(c, additions), UNCHANGED group
      PROVE  /\ active' \subseteq {c} /\ started' \subseteq {c}
             /\ Exclusive' /\ ChildrenRun' /\ SolvedUnlessCanceled'
  <2>1. c \in torun
    BY <1>0 DEF KeepRunning, Finish
  <2>2. active = {c} /\ started \subseteq {c}
    BY <2>1, RunningAlone DEF IInv
  <2>3. active' \subseteq {c} /\ started' \subseteq {c}
    BY <1>0, <2>2 DEF KeepRunning, Finish
  <2>4. children = {}
    BY <1>0, <2>2 DEF IInv, ChildrenRun
  <2> QED
    BY <1>0, <2>3, <2>4
    DEF Exclusive, ChildrenRun, SolvedUnlessCanceled, group
<1>1. ASSUME NEW c \in FixedShots, RunFixedShot(c) PROVE ShotInv'
  <2>1. /\ KeepRunning(c) \/ Finish(c, additions)
        /\ UNCHANGED group
    BY <1>1 DEF RunFixedShot
  <2>2. c \in ShooterCommands \ {"StartShooting"} /\ c \notin StopShootings
    BY CommandFacts
  <2>3. /\ started' \subseteq {c}
        /\ Exclusive' /\ ChildrenRun' /\ SolvedUnlessCanceled'
    BY <1>0, <2>1, <2>2
  <2> QED
    BY <2>2, <2>3 DEF ShotInv, StopStarted
<1>2. ASSUME NEW c \in StopShootings, NEW speed \in {"fast", "slow", "rest"},
             RunStopShooting(c, speed)
      PROVE  ShotInv'
  <2>1. /\ KeepRunning(c) \/ Finish(c, additions)
        /\ UNCHANGED group
    BY <1>2, Zenon DEF RunStopShooting
  <2>2. c \in ShooterCommands \ {"StartShooting"}
    BY CommandFacts
  <2>3. Exclusive' /\ ChildrenRun' /\ SolvedUnlessCanceled'
    BY <1>0, <2>1, <2>2
  <2>4. hopper' = "off" /\ ~led'
    BY <1>2 DEF RunStopShooting, IInv, StopStarted
  <2> QED
    BY <2>3, <2>4 DEF ShotInv, StopStarted
<1> QED
  BY <1>1, <1>2

-----------------------------------------------------------------------------
(* The release of the shooting buttons *)

\* What of the invariant is about the buttons.
ReleaseCovered == QueuePhase /\ QueuedCovered /\ ShotCovered

\* The places of the bindings, their buttons and what a press starts.
LEMMA ReleaseFacts ==
  /\ \A i \in Releases :
       /\ i \in 1 .. 6 /\ i + 1 \in 1 .. 6 /\ i + 1 \notin Releases
       /\ ShotOf(i) \in Shots
       /\ ShooterBindings[i].command \in StopShootings
       /\ ShooterBindings[i].edge = "release"
       /\ ShooterBindings[i + 1].edge = "press"
       /\ ShooterBindings[i + 1].button = ButtonOf(i)
       /\ ButtonOf(i) \in Buttons
  /\ \A c \in Shots : \E i \in Releases : ShotOf(i) = c
  /\ \A i, j \in Releases : i # j => ShotOf(i) # ShotOf(j)
  /\ \A j \in 1 .. 6 : j \in Releases \/ \E i \in Releases : j = i + 1
<1>1. 1 .. 6 = {1, 2, 3, 4, 5, 6}
  OBVIOUS
<1>2. \A i \in Releases : i + 1 \in {2, 4, 6}
  BY DEF Releases
<1> QED
  BY <1>1, <1>2, BindingFacts
  DEF Releases, ShotOf, ButtonOf, Shots, FixedShots, StopShootings, Buttons

\* The driver's press or release: a release that no sample will see is lost.
LEMMA DriverCovered ==
  ASSUME IInv, NEW b \in ShooterButtons, DriverPressesOrReleases(b)
  PROVE  ReleaseCovered'
<1>1. /\ UNCHANGED <<scheduler, mainLoop, shooter>>
      /\ stopLost' = (stopLost \/ Unseen(b))
  BY DEF DriverPressesOrReleases
<1>2. /\ UNCHANGED <<phase, poll, last, active, additions, teleopInitialized>>
      /\ \A c : Queued(c)' <=> Queued(c)
      /\ \A c : Present(c)' <=> Present(c)
      /\ AtRest' <=> AtRest
  BY <1>1 DEF scheduler, mainLoop, shooter, Queued, Present, AtRest
<1>3. ASSUME NEW i \in Releases, WillNotice(i)
      PROVE  WillNotice(i)' \/ Unseen(b)
  <2>0. b \in Buttons /\ held' = [held EXCEPT ![b] = ~held[b]]
        /\ held \in [Buttons -> BOOLEAN]
    BY ShooterButtonsAssumption
    DEF DriverPressesOrReleases, ToggleButton, IInv, TypeOK, SchedulerTypeOK
  <2>1. CASE last[i]
    BY <1>2, <2>1 DEF WillNotice
  <2>2. CASE ~last[i] /\ b = ButtonOf(i)
    <3>1. held[b] /\ last[i + 1] /\ ~last[i]
      BY <1>3, <2>2 DEF WillNotice
    <3>2. /\ i + 1 \in 1 .. Len(ShooterBindings)
          /\ i \in 1 .. Len(ShooterBindings)
      BY ReleaseFacts, BindingFacts
    <3>3. /\ ShooterBindings[i + 1].button = b
          /\ ShooterBindings[i + 1].edge = "press"
          /\ ShooterBindings[i].button = b
          /\ ShooterBindings[i].edge = "release"
      BY <2>2, ReleaseFacts DEF ButtonOf
    <3> QED
      BY <3>1, <3>2, <3>3, Zenon DEF Unseen
  <2>3. CASE b # ButtonOf(i)
    <3>1. held'[ButtonOf(i)] = held[ButtonOf(i)]
      BY <2>0, <2>3, ReleaseFacts
    <3> QED
      BY <1>2, <1>3, <3>1 DEF WillNotice, ButtonOf
  <2> QED
    BY <2>1, <2>2, <2>3
<1> QED
  BY <1>1, <1>2, <1>3
  DEF IInv, ReleaseCovered, QueuePhase, QueuedCovered, ShotCovered, Covered

\* What a sample does to what will be noticed: it queues what it stops noticing.
LEMMA PollNotices ==
  ASSUME IInv, PollButton, UNCHANGED held, NEW i \in Releases
  PROVE  /\ poll \in 1 .. 6 /\ poll' = poll + 1
         /\ poll # i + 1 /\ Queued(ShotOf(i))' => Queued(ShotOf(i))
         /\ \A c : Queued(c) => Queued(c)'
         /\ \A c \in Shots : Queued(c)' =>
              Queued(c) \/ \E j \in Releases : poll = j + 1 /\ ShotOf(j) = c
                                                 /\ WillNotice(j)'
         /\ poll # i /\ WillNotice(i) => WillNotice(i)'
         /\ poll = i /\ WillNotice(i) =>
              WillNotice(i)' \/ \E c \in StopShootings : Queued(c)'
<1>0. /\ poll \in 1 .. 6
      /\ poll' = poll + 1
      /\ last' = [last EXCEPT ![poll] = held[ShooterBindings[poll].button]]
      /\ last \in [1 .. 6 -> BOOLEAN]
      /\ held \in [Buttons -> BOOLEAN]
      /\ additions \in Seq(ShooterCommands)
      /\ additions' = IF Fires(poll)
                      THEN Enqueue(ShooterBindings[poll].command)
                      ELSE additions
  BY BindingFacts DEF IInv, PollButton, TypeOK, SchedulerTypeOK
<1> DEFINE C == ShooterBindings[poll].command
<1>1. C \in ShooterCommands
  BY <1>0, BindingFacts
<1>2. \A c : Queued(c)' <=> (Queued(c) \/ (Fires(poll) /\ c = C))
  <2>1. CASE Fires(poll)
    BY <1>0, <1>1, <2>1, EnqueueStep
  <2>2. CASE ~Fires(poll)
    BY <1>0, <2>2 DEF Queued
  <2> QED
    BY <2>1, <2>2
<1>3. ASSUME NEW j \in Releases, poll = j + 1
      PROVE  /\ last'[j] = last[j] /\ last'[j + 1] = held[ButtonOf(j)]
             /\ Fires(poll) => WillNotice(j)'
             /\ WillNotice(j) => WillNotice(j)'
             /\ C = ShotOf(j)
  <2>1. j \in 1 .. 6 /\ j + 1 \in 1 .. 6 /\ j # j + 1
    BY ReleaseFacts DEF Releases
  <2>2. last'[j] = last[j] /\ last'[j + 1] = held[ButtonOf(j)]
    BY <1>0, <1>3, <2>1, ReleaseFacts
  <2>3. Fires(poll) => held[ButtonOf(j)]
    BY <1>0, <1>3, ReleaseFacts DEF Fires
  <2>4. held' = held
    OBVIOUS
  <2> QED
    BY <1>3, <2>2, <2>3, <2>4 DEF WillNotice, ShotOf, ButtonOf
<1>4. ASSUME NEW j \in Releases, poll = j
      PROVE  /\ C \in StopShootings
             /\ WillNotice(j) =>
                  WillNotice(j)' \/ \E c \in StopShootings : Queued(c)'
  <2>1. j \in 1 .. 6 /\ j + 1 \in 1 .. 6 /\ j # j + 1
    BY ReleaseFacts DEF Releases
  <2>2. last'[j] = held[ButtonOf(j)] /\ last'[j + 1] = last[j + 1]
    BY <1>0, <1>4, <2>1 DEF ButtonOf
  <2>3. last[j] /\ ~held[ButtonOf(j)] => Fires(poll)
    BY <1>0, <1>4, <2>1, ReleaseFacts DEF Fires, ButtonOf
  <2>4. C \in StopShootings
    BY <1>4, ReleaseFacts
  <2>5. Fires(poll) => \E c \in StopShootings : Queued(c)'
    BY <1>2, <2>4
  <2>6. WillNotice(j)' \/ (last[j] /\ ~held[ButtonOf(j)]) \/ ~WillNotice(j)
    BY <2>2 DEF WillNotice, ButtonOf
  <2> QED
    BY <2>3, <2>4, <2>5, <2>6
<1>5. ASSUME NEW j \in Releases, poll # j, poll # j + 1
      PROVE  WillNotice(j)' <=> WillNotice(j)
  <2>1. last'[j] = last[j] /\ last'[j + 1] = last[j + 1]
    BY <1>0, <1>5, ReleaseFacts
  <2> QED
    BY <2>1 DEF WillNotice, ButtonOf
<1>6. \A c \in Shots : Queued(c)' =>
        Queued(c) \/ \E j \in Releases : poll = j + 1 /\ ShotOf(j) = c
                                           /\ WillNotice(j)'
  <2> SUFFICES ASSUME NEW c \in Shots, Fires(poll), c = C
               PROVE  \E j \in Releases : poll = j + 1 /\ ShotOf(j) = c
                                            /\ WillNotice(j)'
    BY <1>2
  <2>1. poll \notin Releases
    BY <1>4, CommandFacts
  <2>2. PICK j \in Releases : poll = j + 1
    BY <1>0, <2>1, ReleaseFacts
  <2> QED
    BY <1>3, <2>2
<1>7. poll # i + 1 /\ Queued(ShotOf(i))' => Queued(ShotOf(i))
  <2> SUFFICES ASSUME poll # i + 1, Queued(ShotOf(i))' PROVE Queued(ShotOf(i))
    OBVIOUS
  <2>1. ShotOf(i) \in Shots
    BY ReleaseFacts
  <2>2. ASSUME NEW j \in Releases, poll = j + 1, ShotOf(j) = ShotOf(i)
        PROVE  FALSE
    BY <2>2, ReleaseFacts
  <2>3. ShotOf(i)' = ShotOf(i)
    BY DEF ShotOf
  <2> QED
    BY <1>6, <2>1, <2>2, <2>3
<1> QED
  BY <1>0, <1>2, <1>3, <1>4, <1>5, <1>6, <1>7

\* A binding samples its button.
LEMMA PollCovered ==
  ASSUME IInv, PollButton, UNCHANGED <<held, mainLoop, shooter, stopLost>>
  PROVE  ReleaseCovered'
<1>0. /\ phase = "poll" /\ phase' = "poll" /\ active' = active
      /\ teleopInitialized' = teleopInitialized
      /\ AtRest' <=> AtRest
      /\ \A i : ShotOf(i)' = ShotOf(i)
  BY DEF PollButton, mainLoop, shooter, AtRest, ShotOf
<1>1. QueuePhase'
  <2> SUFFICES ASSUME NEW i \in Releases, poll' <= i + 1, Queued(ShotOf(i))'
               PROVE  FALSE
    BY <1>0 DEF QueuePhase
  <2>1. poll + 1 <= i + 1 /\ poll \in 1 .. 6 /\ i \in 1 .. 6
    BY PollNotices, ReleaseFacts
  <2>2. poll # i + 1 /\ poll <= i + 1
    BY <2>1
  <2>3. Queued(ShotOf(i))
    BY <2>2, PollNotices
  <2> QED
    BY <1>0, <2>2, <2>3 DEF IInv, QueuePhase
<1>2. QueuedCovered'
  <2> SUFFICES ASSUME NEW i \in Releases, Queued(ShotOf(i))'
               PROVE  WillNotice(i)' \/ stopLost'
    BY <1>0 DEF QueuedCovered
  <2>1. CASE Queued(ShotOf(i))
    <3>1. WillNotice(i) \/ stopLost
      BY <2>1 DEF IInv, QueuedCovered
    <3>2. poll # i
      <4>1. i <= i + 1
        BY DEF Releases
      <4> QED
        BY <1>0, <2>1, <4>1 DEF IInv, QueuePhase
    <3> QED
      BY <3>1, <3>2, PollNotices
  <2>2. CASE ~Queued(ShotOf(i))
    <3>1. ShotOf(i) \in Shots
      BY ReleaseFacts
    <3>2. PICK j \in Releases : ShotOf(j) = ShotOf(i) /\ WillNotice(j)'
      BY <1>0, <2>2, <3>1, PollNotices
    <3>3. j = i
      BY <3>2, ReleaseFacts
    <3> QED
      BY <3>2, <3>3
  <2> QED
    BY <2>1, <2>2
<1>3. Covered => Covered'
  <2>1. \A i \in Releases : WillNotice(i) =>
          WillNotice(i)' \/ \E c \in StopShootings : Queued(c)'
    BY PollNotices
  <2>2. \A c : Present(c) => Present(c)'
    <3>1. 1 \in Releases
      BY DEF Releases
    <3> QED
      BY <1>0, <3>1, PollNotices DEF Present
  <2>3. \A c : Queued(c)' => Present(c)'
    BY DEF Present
  <2> QED
    BY <1>0, <2>1, <2>2, <2>3 DEF Covered
<1>4. ASSUME NEW c \in Shots, Present(c)' PROVE Covered'
  <2>1. CASE Present(c)
    BY <1>3, <2>1 DEF IInv, ShotCovered
  <2>2. CASE ~Present(c)
    <3>1. Queued(c)' /\ ~Queued(c)
      BY <1>0, <1>4, <2>2 DEF Present
    <3>2. 1 \in Releases
      BY DEF Releases
    <3>3. \E j \in Releases : WillNotice(j)'
      BY <3>1, <3>2, PollNotices
    <3> QED
      BY <3>3 DEF Covered
  <2> QED
    BY <2>1, <2>2
<1> QED
  BY <1>0, <1>1, <1>2, <1>3, <1>4
  DEF IInv, ReleaseCovered, ShotCovered

\* A step which takes no sample, queues no shot, and neither ends nor forgets
\* the stop that is waiting.
LEMMA QuietCovered ==
  ASSUME IInv,
         UNCHANGED <<last, held>>,
         QueuePhase',
         \A c \in Shots : Queued(c)' => Queued(c),
         (~AtRest \/ \E c \in Shots : Present(c))'
           => ~AtRest \/ \E c \in Shots : Present(c),
         ~teleopInitialized =>
           ~teleopInitialized' \/ \E c \in StopShootings : Queued(c)',
         \A c \in StopShootings : Present(c) =>
           \/ \E d \in StopShootings : Present(d)'
           \/ \E i \in Releases : WillNotice(i)
           \/ stopLost',
         stopLost =>
           \/ stopLost'
           \/ /\ \E c \in StopShootings : Queued(c)'
              /\ \A c \in Shots : ~Queued(c)'
  PROVE  ReleaseCovered'
<1>1. \A i : WillNotice(i)' <=> WillNotice(i)
  BY DEF WillNotice, ButtonOf
<1>2. \A i : ShotOf(i)' = ShotOf(i)
  BY DEF ShotOf
<1>3. QueuedCovered'
  BY <1>1, <1>2, ReleaseFacts DEF IInv, QueuedCovered
<1>4. Covered => Covered'
  BY <1>1 DEF Covered, Present
<1> QED
  BY <1>3, <1>4 DEF IInv, ReleaseCovered, ShotCovered

\* The main loop chooses the mode: TeleopInit makes up for any stop lost.
LEMMA ModeCovered == ASSUME IInv, ChooseMode PROVE ReleaseCovered'
<1>1. /\ phase = "poll" /\ poll = 1
      /\ UNCHANGED <<phase, poll, last, active, held, shooter>>
  BY DEF ChooseMode, driverStation
<1>2. AtRest' <=> AtRest
  BY <1>1 DEF AtRest, shooter
<1>3. \A c \in Shots : ~Queued(c)
  <2>1. \A i \in Releases : ~Queued(ShotOf(i))
    BY <1>1 DEF IInv, QueuePhase, Releases
  <2> QED
    BY <2>1, ReleaseFacts
<1>4. CASE TeleopInit
  <2>1. /\ additions \in Seq(ShooterCommands)
        /\ additions' = Enqueue("StopShooting_teleop")
    BY <1>4 DEF TeleopInit, IInv, TypeOK, SchedulerTypeOK
  <2>2. \A c : Queued(c)' <=> (Queued(c) \/ c = "StopShooting_teleop")
    BY <2>1, EnqueueStep, CommandFacts
  <2>3. (\A c \in Shots : ~Queued(c)') /\ \E c \in StopShootings : Queued(c)'
    BY <1>3, <2>2, CommandFacts
  <2>4. QueuePhase'
    BY <2>3, ReleaseFacts DEF QueuePhase, ShotOf
  <2>5. QueuedCovered'
    BY <2>3, ReleaseFacts DEF QueuedCovered, ShotOf
  <2>6. Covered'
    BY <2>3 DEF Covered, Present
  <2> QED
    BY <2>4, <2>5, <2>6 DEF ReleaseCovered, ShotCovered
<1>5. CASE additions' = additions /\ stopLost' = stopLost
           /\ (teleopInitialized' = teleopInitialized \/ ~teleopInitialized')
  <2>1. \A c : Queued(c)' <=> Queued(c)
    BY <1>5 DEF Queued
  <2>2. \A c : Present(c)' <=> Present(c)
    BY <1>1, <2>1 DEF Present
  <2>3. QueuePhase'
    BY <1>1, <2>1 DEF IInv, QueuePhase, ShotOf
  <2> QED
    BY <1>1, <1>2, <1>5, <2>1, <2>2, <2>3, QuietCovered
<1> QED
  BY <1>4, <1>5 DEF ChooseMode, DisabledInit

\* The robot is disabled: a stop cancelled before it has done its work is lost.
LEMMA CancelCovered ==
  ASSUME IInv, NEW c \in ShooterCommands, CycleCancel(c)
  PROVE  ReleaseCovered'
<1>1. /\ c \in torun /\ phase' = "run"
      /\ active' = active \ {c}
      /\ UNCHANGED <<additions, last, held, teleopInitialized, shooter>>
      /\ stopLost' = (stopLost \/ c \in StopShootings)
  BY DEF CycleCancel, CancelDisabled, driverStation, mainLoop, Interrupt
<1>2. \A d : Queued(d)' <=> Queued(d)
  BY <1>1 DEF Queued
<1>3. /\ AtRest' <=> AtRest
      /\ \A d : Present(d)' => Present(d)
      /\ \A d : d # c /\ Present(d) => Present(d)'
  BY <1>1, <1>2 DEF AtRest, shooter, Present
<1>4. QueuePhase'
  BY <1>1 DEF QueuePhase
<1> QED
  BY <1>1, <1>2, <1>3, <1>4, QuietCovered

\* A queued command is added or dropped.  A shot that interrupts a stop has its
\* own button watched; a command is dropped only in favour of itself.
LEMMA AddCovered == ASSUME IInv, CycleAdd PROVE ReleaseCovered'
<1>1. /\ UNCHANGED <<last, held, teleopInitialized, stopLost, shooter>>
      /\ phase = "add" \/ BeginAdd
  BY DEF CycleAdd, driverStation, mainLoop, BeginAdd, EndCycle, Ignore, Insert,
         Interrupt
<1>2. AtRest' <=> AtRest
  BY <1>1 DEF AtRest, shooter
<1>3. CASE BeginAdd \/ EndCycle
  <2>1. UNCHANGED <<active, additions>>
    BY <1>3 DEF BeginAdd, EndCycle
  <2>2. \A d : (Queued(d)' <=> Queued(d)) /\ (Present(d)' <=> Present(d))
    BY <2>1 DEF Queued, Present
  <2>3. QueuePhase'
    BY <1>3 DEF BeginAdd, EndCycle, QueuePhase, Queued
  <2> QED
    BY <1>1, <1>2, <2>2, <2>3, QuietCovered
<1>4. ASSUME NEW c \in ShooterCommands, Ignore(c) PROVE ReleaseCovered'
  <2>1. additions \in Seq(ShooterCommands) /\ active \subseteq ShooterCommands
    BY DEF IInv, TypeOK, SchedulerTypeOK
  <2>2. /\ active' = active
        /\ c \in active
        /\ \A d : Queued(d) => d = c \/ Queued(d)'
        /\ \A d : Queued(d)' => Queued(d)
    BY <1>4, <2>1, DequeueStep, ConflictFacts DEF Ignore
  <2>3. \A d : Present(d)' <=> Present(d)
    BY <2>2 DEF Present
  <2>4. QueuePhase'
    BY <1>4 DEF Ignore, QueuePhase
  <2> QED
    BY <1>1, <1>2, <2>2, <2>3, <2>4, QuietCovered
<1>5. ASSUME NEW c \in ShooterCommands, Insert(c) PROVE ReleaseCovered'
  <2>1. additions \in Seq(ShooterCommands) /\ active \subseteq ShooterCommands
    BY DEF IInv, TypeOK, SchedulerTypeOK
  <2>2. /\ active' = {c}
        /\ Queued(c)
        /\ \A d : Queued(d) => d = c \/ Queued(d)'
        /\ \A d : Queued(d)' => Queued(d)
    BY <1>5, <2>1, DequeueStep, ConflictFacts DEF Insert
  <2>3. \A d : Present(d)' => Present(d)
    BY <2>2 DEF Present
  <2>4. QueuePhase'
    BY <1>5 DEF Insert, QueuePhase
  <2>5. \A d \in StopShootings :
          \/ \E e \in StopShootings : Present(e)'
          \/ \E i \in Releases : WillNotice(i)
          \/ stopLost'
    <3>1. CASE c \in StopShootings
      BY <2>2, <3>1 DEF Present
    <3>2. CASE c \in Shots
      <4>1. PICK i \in Releases : ShotOf(i) = c
        BY <3>2, ReleaseFacts
      <4>2. WillNotice(i) \/ stopLost
        BY <2>2, <4>1 DEF IInv, QueuedCovered
      <4> QED
        BY <1>1, <4>2
    <3> QED
      BY <3>1, <3>2 DEF ShooterCommands
  <2> QED
    BY <1>1, <1>2, <2>2, <2>3, <2>4, <2>5, QuietCovered
<1> QED
  BY <1>3, <1>4, <1>5 DEF CycleAdd

\* A shot runs: what is going to stop it is unchanged.
LEMMA ShotRunCovered ==
  ASSUME IInv, RunStartShooting \/ \E c \in FixedShots : RunFixedShot(c)
  PROVE  ReleaseCovered'
<1>1. PICK c \in Shots :
        /\ KeepRunning(c) \/ Finish(c, additions)
        /\ UNCHANGED <<driverStation, mainLoop, stopLost>>
  BY StartShootingSchedules, CommandFacts DEF RunFixedShot
<1>2. /\ c \in torun /\ phase' = "run"
      /\ UNCHANGED <<additions, last, held, teleopInitialized, stopLost>>
      /\ active' \in {active, active \ {c}}
  BY <1>1 DEF KeepRunning, Finish, driverStation, mainLoop
<1>3. active = {c}
  BY <1>2, RunningAlone DEF IInv
<1>4. /\ \A d : Queued(d)' <=> Queued(d)
      /\ \A d \in StopShootings : Present(d) => Present(d)'
  BY <1>2, <1>3, CommandFacts DEF Queued, Present
<1>5. QueuePhase'
  BY <1>2 DEF QueuePhase
<1>6. \E d \in Shots : Present(d)
  BY <1>3 DEF Present
<1> QED
  BY <1>2, <1>4, <1>5, <1>6, QuietCovered

\* A StopShooting goes on until the shooter is at rest.
LEMMA StopRunCovered ==
  ASSUME IInv, NEW c \in StopShootings, NEW speed \in {"fast", "slow", "rest"},
         RunStopShooting(c, speed)
  PROVE  ReleaseCovered'
<1>1. /\ c \in torun /\ phase' = "run"
      /\ UNCHANGED <<additions, last, held, teleopInitialized>>
      /\ IF wheel' = "off" THEN active' = active \ {c} ELSE active' = active
      /\ stopLost' = (stopLost /\ \E d \in Shots : Queued(d))
  BY DEF RunStopShooting, KeepRunning, Finish, driverStation, mainLoop
<1>2. active = {c}
  BY <1>1, RunningAlone DEF IInv
<1>3. /\ \A d : Queued(d)' <=> Queued(d)
      /\ \A i : WillNotice(i)' <=> WillNotice(i)
      /\ \A i : ShotOf(i)' = ShotOf(i)
  BY <1>1 DEF Queued, WillNotice, ButtonOf, ShotOf
<1>4. QueuePhase'
  BY <1>1 DEF QueuePhase
<1>5. QueuedCovered'
  BY <1>1, <1>3, ReleaseFacts DEF IInv, QueuedCovered
<1>6. CASE wheel' = "off"
  <2>1. hopper' = "off" /\ ~led'
    BY DEF RunStopShooting, IInv, StopStarted
  <2>2. AtRest' /\ active' = {}
    BY <1>1, <1>2, <1>6, <2>1 DEF AtRest
  <2>3. \A d \in Shots : Queued(d)' => Covered'
    <3> SUFFICES ASSUME NEW d \in Shots, Queued(d)' PROVE Covered'
      OBVIOUS
    <3>1. PICK i \in Releases : ShotOf(i) = d
      BY ReleaseFacts
    <3> QED
      BY <1>3, <1>5, <3>1 DEF QueuedCovered, Covered
  <2> QED
    BY <1>4, <1>5, <2>2, <2>3 DEF ReleaseCovered, ShotCovered, Present
<1>7. CASE wheel' # "off"
  <2>1. Present(c)'
    BY <1>1, <1>2, <1>7 DEF Present
  <2> QED
    BY <1>4, <1>5, <2>1 DEF ReleaseCovered, ShotCovered, Covered
<1> QED
  BY <1>6, <1>7

-----------------------------------------------------------------------------
(* The invariant is inductive *)

\* At power up nothing is started or queued and the shooter is at rest.
LEMMA InitIInv == Init => IInv
<1> SUFFICES ASSUME Init PROVE IInv
  OBVIOUS
<1>1. /\ TypeOK
      /\ active = {} /\ started = {} /\ additions = <<>> /\ children = {}
      /\ stage = "aim" /\ AtRest
  BY TypeInit DEF Init, SchedulerInit, AtRest
<1>2. \A c : ~Queued(c)
  BY <1>1 DEF Queued
<1> QED
  BY <1>1, <1>2
  DEF IInv, Exclusive, ChildrenRun, SolvedUnlessCanceled, StopStarted,
      QueuePhase, QueuedCovered, ShotCovered, Present

\* One step per action.
LEMMA StepIInv == ASSUME IInv, [Next]_vars PROVE IInv'
<1>1. TypeOK'
  BY TypeStep DEF IInv
<1> SUFFICES ShotInv' /\ ReleaseCovered'
  BY <1>1 DEF IInv, ShotInv, ReleaseCovered
<1>2. ASSUME NEW b \in ShooterButtons, DriverPressesOrReleases(b)
      PROVE  ShotInv' /\ ReleaseCovered'
  BY <1>2, DriverCovered, StutterShot
  DEF DriverPressesOrReleases, scheduler, IInv, ShotInv
<1>3. CASE DriverEnablesOrDisables \/ UNCHANGED vars
  <2>1. UNCHANGED <<scheduler, held, mainLoop, group, shooter, stopLost>>
    BY <1>3 DEF DriverEnablesOrDisables, ToggleEnabled, vars, driverStation
  <2>2. /\ UNCHANGED <<phase, poll, last, active, started, additions,
                       teleopInitialized>>
        /\ \A c : (Queued(c)' <=> Queued(c)) /\ (Present(c)' <=> Present(c))
        /\ AtRest' <=> AtRest
    BY <2>1 DEF scheduler, mainLoop, shooter, Queued, Present, AtRest
  <2>3. QueuePhase'
    BY <2>2 DEF IInv, QueuePhase, ShotOf
  <2>4. ReleaseCovered'
    BY <2>1, <2>2, <2>3, QuietCovered
  <2> QED
    BY <2>1, <2>2, <2>4, StutterShot DEF IInv, ShotInv
<1>4. CASE ChooseMode
  BY <1>4, ModeCovered, StutterShot DEF ChooseMode, IInv, ShotInv
<1>5. CASE CyclePoll
  <2>1. UNCHANGED <<active, started, held, mainLoop, group, shooter, stopLost>>
    BY <1>5 DEF CyclePoll, PollButton, BeginRun, driverStation
  <2>2. ASSUME PollButton PROVE ReleaseCovered'
    BY <2>1, <2>2, PollCovered
  <2>3. ASSUME BeginRun PROVE ReleaseCovered'
    <3>1. UNCHANGED <<last, additions>> /\ QueuePhase'
      BY <2>3 DEF BeginRun, QueuePhase
    <3>2. /\ \A c : (Queued(c)' <=> Queued(c)) /\ (Present(c)' <=> Present(c))
          /\ AtRest' <=> AtRest
          /\ teleopInitialized' = teleopInitialized
      BY <2>1, <3>1 DEF Queued, Present, AtRest, shooter, mainLoop
    <3> QED
      BY <2>1, <3>1, <3>2, QuietCovered
  <2> QED
    BY <1>5, <2>1, <2>2, <2>3, StutterShot DEF CyclePoll, IInv, ShotInv
<1>6. ASSUME NEW c \in ShooterCommands, CycleCancel(c)
      PROVE  ShotInv' /\ ReleaseCovered'
  BY <1>6, CancelShot, CancelCovered
<1>7. CASE RunStartShooting
  BY <1>7, StartShootingShot, ShotRunCovered
<1>8. ASSUME NEW c \in FixedShots, RunFixedShot(c)
      PROVE  ShotInv' /\ ReleaseCovered'
  BY <1>8, OtherShot, ShotRunCovered
<1>9. ASSUME NEW c \in StopShootings, NEW speed \in {"fast", "slow", "rest"},
             RunStopShooting(c, speed)
      PROVE  ShotInv' /\ ReleaseCovered'
  BY <1>9, OtherShot, StopRunCovered
<1>10. CASE CycleAdd
  BY <1>10, AddShot, AddCovered
<1> QED
  BY <1>2, <1>3, <1>4, <1>5, <1>6, <1>7, <1>8, <1>9, <1>10 DEF Next, Cycle

\* The invariant holds in every reachable state.
LEMMA Invariant == Spec => []IInv
<1>1. IInv /\ [Next]_vars => IInv'
  BY StepIInv
<1> QED
  BY <1>1, InitIInv, PTL DEF Spec

-----------------------------------------------------------------------------
(* The properties *)

\* Letting go of the shooting buttons, any of them and in any order, leaves the
\* hopper, the wheel and the light off as soon as no command is left, whatever
\* was disabled, cancelled or interrupted meanwhile, unless a stop was lost.
THEOREM ReleaseStops == Spec => []ReleaseStopsShooter
<1>1. IInv => ReleaseStopsShooter
  <2> SUFFICES ASSUME IInv, Settled PROVE AtRest \/ stopLost
    BY DEF ReleaseStopsShooter
  <2>1. DOMAIN last = 1 .. 6
    BY BindingFacts DEF IInv, TypeOK, SchedulerTypeOK
  <2>2. \A i \in Releases : ~WillNotice(i)
    BY <2>1, ReleaseFacts DEF Settled, WillNotice
  <2>3. \A c \in StopShootings : ~Present(c)
    BY DEF Settled, Present, Queued
  <2> QED
    BY <2>2, <2>3 DEF IInv, ShotCovered, Covered, Settled
<1> QED
  BY <1>1, Invariant, PTL

\* The hopper keeps the shots and the stops apart although SetShooter requires
\* nothing of what it writes, and no aiming command outlives its group.
THEOREM OneShotAlways == Spec => []OneShotAtATime
<1>1. IInv => OneShotAtATime
  BY DEF IInv, TypeOK, SchedulerTypeOK, Exclusive, ChildrenRun, OneShotAtATime
<1> QED
  BY <1>1, Invariant, PTL

\* No step starts the hopper for a solution that was not computed in the same
\* sequence or that the wheel and the elevation have not been given, whichever
\* of the waits ran out and whatever interrupted an earlier sequence.
THEOREM FeedsSolution == Spec => FeedsWithSolution
<1>1. IInv /\ [Next]_vars =>
        [hopper # "solution" /\ hopper' = "solution" =>
           /\ solved /\ ~canceled
           /\ wheel = "solution" /\ elevation = "solution"]_vars
  <2> SUFFICES ASSUME IInv, Next, hopper # "solution", hopper' = "solution"
               PROVE  /\ solved /\ ~canceled
                      /\ wheel = "solution" /\ elevation = "solution"
    BY Zenon
  <2>1. PICK finishing : Feed(finishing)
    <3>1. /\ \A b : ~DriverPressesOrReleases(b)
          /\ ~DriverEnablesOrDisables /\ ~ChooseMode /\ ~CyclePoll
      BY DEF DriverPressesOrReleases, DriverEnablesOrDisables, ChooseMode,
             CyclePoll, shooter
    <3>2. (\A c : ~CycleCancel(c)) /\ ~CycleAdd
      BY DEF CycleCancel, CycleAdd, Interrupt, shooter
    <3>3. /\ \A c : ~RunFixedShot(c)
          /\ \A c, speed : ~RunStopShooting(c, speed)
      BY DEF RunFixedShot, RunStopShooting
    <3>4. RunStartShooting
      BY <3>1, <3>2, <3>3 DEF Next, Cycle
    <3>5. ~BeginShooting /\ ~CancelShooting
      BY DEF BeginShooting, CancelShooting, shooter
    <3>6. \A finishing, isValid : /\ ~AimOn(finishing, isValid)
                                  /\ ~SpinUp(finishing, isValid)
                                  /\ ~FinishChildren(finishing)
      BY DEF AimOn, SpinUp, FinishChildren, RunChildren
    <3> QED
      BY <3>4, <3>5, <3>6 DEF RunStartShooting
  <2> QED
    BY <2>1 DEF Feed, IInv, SolvedUnlessCanceled, IsRunning
<1>2. IInv /\ [Next]_vars => IInv'
  BY StepIInv
<1> QED
  BY <1>1, <1>2, InitIInv, PTL DEF Spec, FeedsWithSolution
=============================================================================
