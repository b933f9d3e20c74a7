---------------------------- MODULE ClimberProofs ----------------------------
(***************************************************************************)
(* Proofs about Climber for every value of its constants.                  *)
(***************************************************************************)
EXTENDS Climber, SequenceTheorems, TLAPS

\* Command names are told apart by the provers once their sets are expanded.
LEMMA BindingFacts ==
  /\ Len(ClimberBindings) = 4
  /\ \A i \in 1 .. 4 : /\ ClimberBindings[i].command \in ClimberCommands
                       /\ ClimberBindings[i].button \in ClimberButtons
  /\ ClimberBindings[1] = [button |-> "Y", edge |-> "release",
                           command |-> "StopClimb_Y"]
  /\ ClimberBindings[2] = [button |-> "Y", edge |-> "press",
                           command |-> "Override"]
  /\ ClimberBindings[3] = [button |-> "start", edge |-> "release",
                           command |-> "StopClimb_start"]
  /\ ClimberBindings[4] = [button |-> "start", edge |-> "press",
                           command |-> "CaptureRope"]
<1> DEFINE B == ClimberBindings
<1>1. /\ Len(B) = 4
      /\ B[1] = [button |-> "Y", edge |-> "release", command |-> "StopClimb_Y"]
      /\ B[2] = [button |-> "Y", edge |-> "press", command |-> "Override"]
      /\ B[3] = [button |-> "start", edge |-> "release",
                 command |-> "StopClimb_start"]
      /\ B[4] = [button |-> "start", edge |-> "press",
                 command |-> "CaptureRope"]
  BY DEF ClimberBindings
<1>2. 1 .. 4 = {1, 2, 3, 4}
  OBVIOUS
<1> QED
  BY <1>1, <1>2 DEF ClimberCommands, StopClimbs, ClimberButtons

\* Queueing a command keeps what was queued and adds only that command.
LEMMA EnqueueFacts ==
  ASSUME NEW c \in ClimberCommands, additions \in Seq(ClimberCommands)
  PROVE  /\ Enqueue(c) \in Seq(ClimberCommands)
         /\ \A d : (\E i \in 1 .. Len(Enqueue(c)) : Enqueue(c)[i] = d)
                     <=> (Queued(d) \/ d = c)
<1>1. CASE Queued(c)
  BY <1>1 DEF Enqueue, Queued
<1>2. CASE ~Queued(c)
  <2>1. Enqueue(c) = Append(additions, c)
    BY <1>2 DEF Enqueue
  <2>2. /\ Enqueue(c) \in Seq(ClimberCommands)
        /\ Len(Enqueue(c)) = Len(additions) + 1
        /\ \A i \in 1 .. Len(additions) : Enqueue(c)[i] = additions[i]
        /\ Enqueue(c)[Len(additions) + 1] = c
    BY <2>1
  <2> QED
    BY <2>2 DEF Queued
<1> QED
  BY <1>1, <1>2

\* Command::Start after a step: EnqueueFacts of the queue it leaves.
LEMMA EnqueueStep ==
  ASSUME NEW c \in ClimberCommands, additions \in Seq(ClimberCommands),
         additions' = Enqueue(c)
  PROVE  \A d : Queued(d)' <=> (Queued(d) \/ d = c)
<1>1. CASE Queued(c)
  <2>1. additions' = additions
    BY <1>1 DEF Enqueue
  <2>2. \A d : Queued(d)' <=> Queued(d)
    BY <2>1 DEF Queued
  <2> QED
    BY <1>1, <2>2
<1>2. CASE ~Queued(c)
  <2>1. additions' = Append(additions, c)
    BY <1>2 DEF Enqueue
  <2>2. /\ Len(additions') = Len(additions) + 1
        /\ \A i \in 1 .. Len(additions) : additions'[i] = additions[i]
        /\ additions'[Len(additions) + 1] = c
    BY <2>1
  <2> QED
    BY <2>2 DEF Queued
<1> QED
  BY <1>1, <1>2

\* Taking the head of the queue leaves the rest of it waiting.
LEMMA TailFacts ==
  ASSUME additions \in Seq(ClimberCommands), additions # <<>>
  PROVE  /\ Tail(additions) \in Seq(ClimberCommands)
         /\ Head(additions) \in ClimberCommands
         /\ Queued(Head(additions))
         /\ \A d : Queued(d) =>
              \/ d = Head(additions)
              \/ \E i \in 1 .. Len(Tail(additions)) : Tail(additions)[i] = d
         /\ \A d : (\E i \in 1 .. Len(Tail(additions)) : Tail(additions)[i] = d)
                     => Queued(d)
<1>1. /\ Len(additions) \in Nat \ {0}
      /\ Head(additions) = additions[1]
      /\ Tail(additions) \in Seq(ClimberCommands)
      /\ Len(Tail(additions)) = Len(additions) - 1
      /\ \A i \in 1 .. Len(additions) - 1 :
           Tail(additions)[i] = additions[i + 1]
  BY EmptySeq, HeadTailProperties
<1>2. \A i \in 1 .. Len(additions) : i # 1 =>
        /\ i - 1 \in 1 .. Len(additions) - 1
        /\ Tail(additions)[i - 1] = additions[i]
  BY <1>1
<1> QED
  BY <1>1, <1>2 DEF Queued

-----------------------------------------------------------------------------
(* The scheduler's own steps keep the types of the scheduler's variables. *)

SchedulerStep ==
  \/ PollButton \/ BeginRun \/ BeginAdd \/ EndCycle
  \/ \E c \in ClimberCommands :
       CancelDisabled(c) \/ KeepRunning(c) \/ Ignore(c) \/ Insert(c)
  \/ \E c \in ClimberCommands : Finish(c, additions)
  \/ \E c, d \in ClimberCommands : Finish(c, Enqueue(d))

\* The steps of the scheduler keep its variables in their types.
LEMMA SchedulerTypes ==
  ASSUME SchedulerTypeOK, SchedulerStep, UNCHANGED driverStation
  PROVE  SchedulerTypeOK'
<1> USE BindingFacts DEF SchedulerTypeOK, driverStation
<1>1. CASE PollButton
  <2>1. poll \in 1 .. 4
    BY <1>1 DEF PollButton
  <2>2. ClimberBindings[poll].command \in ClimberCommands
    BY <2>1
  <2>3. additions' \in Seq(ClimberCommands)
    BY <1>1, <2>2, EnqueueFacts DEF PollButton
  <2>4. held[ClimberBindings[poll].button] \in BOOLEAN
    BY <2>1
  <2> QED
    BY <1>1, <2>1, <2>3, <2>4 DEF PollButton
<1>2. CASE BeginRun \/ BeginAdd \/ EndCycle
  BY <1>2 DEF BeginRun, BeginAdd, EndCycle
<1>3. ASSUME NEW c \in ClimberCommands, CancelDisabled(c) \/ KeepRunning(c)
      PROVE  SchedulerTypeOK'
  BY <1>3 DEF CancelDisabled, KeepRunning
<1>4. ASSUME NEW c \in ClimberCommands, Ignore(c)
      PROVE  SchedulerTypeOK'
  BY <1>4, TailFacts DEF Ignore
<1>5. ASSUME NEW c \in ClimberCommands, Insert(c)
      PROVE  SchedulerTypeOK'
  <2>1. InTheWay(c) \subseteq active /\ torun = {}
    BY <1>5 DEF InTheWay, Insert
  <2>2. additions' \in Seq(ClimberCommands)
    BY <1>5, TailFacts DEF Insert
  <2> QED
    BY <1>5, <2>1, <2>2 DEF Insert
<1>6. ASSUME NEW c \in ClimberCommands, NEW q, Finish(c, q),
             q \in Seq(ClimberCommands)
      PROVE  SchedulerTypeOK'
  BY <1>6 DEF Finish
<1> QED
  BY <1>1, <1>2, <1>3, <1>4, <1>5, <1>6, EnqueueFacts DEF SchedulerStep

\* The robot starts with every variable in its type.
LEMMA TypeInit == Init => TypeOK
<1>1. Init => SchedulerTypeOK
  BY BindingFacts DEF Init, SchedulerInit, SchedulerTypeOK
<1>2. Init => zero_count_ \in 0 .. ZeroCountReq
  BY ZeroCountReqAssumption DEF Init
<1> QED
  BY <1>1, <1>2, Zenon DEF Init, TypeOK

\* No handler of the climber takes a variable out of its type.
LEMMA TypeStep == ASSUME TypeOK, [Next]_vars PROVE TypeOK'
<1> USE ZeroCountReqAssumption DEF TypeOK
<1>1. ASSUME NEW b \in ClimberButtons, DriverPressesOrReleases(b)
      PROVE  TypeOK'
  <2>1. held' \in [ClimberButtons -> BOOLEAN] /\ enabled' = enabled
    BY <1>1 DEF DriverPressesOrReleases, ToggleButton, SchedulerTypeOK
  <2>2. SchedulerTypeOK'
    BY <1>1, <2>1 DEF DriverPressesOrReleases, SchedulerTypeOK, scheduler
  <2>3. stopLost' \in BOOLEAN
    BY <1>1 DEF DriverPressesOrReleases, Unseen
  <2> QED
    BY <1>1, <2>2, <2>3 DEF DriverPressesOrReleases, subsystem
<1>2. CASE DriverEnablesOrDisables
  BY <1>2 DEF DriverEnablesOrDisables, ToggleEnabled, SchedulerTypeOK,
              scheduler, subsystem
<1>3. CASE CyclePoll
  BY <1>3, SchedulerTypes DEF CyclePoll, SchedulerStep, subsystem
<1>4. ASSUME NEW c \in ClimberCommands, CycleCancel(c)
      PROVE  TypeOK'
  BY <1>4, SchedulerTypes DEF CycleCancel, SchedulerStep, InterruptedRamp
<1>5. ASSUME NEW currentIsHigh \in BOOLEAN, RunCaptureRope(currentIsHigh)
      PROVE  TypeOK'
  <2>1. SchedulerTypeOK'
    BY <1>5, SchedulerTypes
    DEF RunCaptureRope, SchedulerStep, ClimberCommands
  <2>2. output' \in {"off", "ratchet"} \cup Driving /\ is_running_' \in BOOLEAN
    BY <1>5 DEF RunCaptureRope, StartCapture, Driving
  <2>3. ramp' \in BOOLEAN /\ is_captured_' \in BOOLEAN /\ is_ratchet_' \in BOOLEAN
    BY <1>5 DEF RunCaptureRope
  <2>4. is_zeroed_' \in BOOLEAN
    BY <1>5 DEF RunCaptureRope, ZeroPosition
  <2>5. UNCHANGED <<limit, zero_count_, stopLost>>
    BY <1>5 DEF RunCaptureRope
  <2> QED
    BY <2>1, <2>2, <2>3, <2>4, <2>5
<1>6. ASSUME NEW isFarEnough \in BOOLEAN, RunStartClimb(isFarEnough)
      PROVE  TypeOK'
  <2>1. SchedulerTypeOK'
    BY <1>6, SchedulerTypes
    DEF RunStartClimb, SchedulerStep, ClimberCommands
  <2>2. zero_count_' \in 0 .. ZeroCountReq
    BY <1>6 DEF RunStartClimb, CountRead
  <2>3. /\ output' \in {"off", "ratchet"} \cup Driving
        /\ limit' \in {"default", "climb", "finish"}
        /\ is_running_' \in BOOLEAN
    BY <1>6 DEF RunStartClimb, StartClimb, Driving
  <2>4. UNCHANGED <<ramp, is_captured_, is_zeroed_, is_ratchet_, stopLost>>
    BY <1>6 DEF RunStartClimb
  <2> QED
    BY <2>1, <2>2, <2>3, <2>4
<1>7. CASE RunFinishClimb
  <2>1. SchedulerTypeOK'
    BY <1>7, SchedulerTypes
    DEF RunFinishClimb, SchedulerStep, ClimberCommands
  <2> QED
    BY <1>7, <2>1 DEF RunFinishClimb, StartFinish, Driving
<1>8. CASE RunOverride
  <2>1. SchedulerTypeOK'
    BY <1>8, SchedulerTypes DEF RunOverride, SchedulerStep, ClimberCommands
  <2> QED
    BY <1>8, <2>1 DEF RunOverride, StartClimb, Driving
<1>9. ASSUME NEW c \in StopClimbs, RunStopClimb(c)
      PROVE  TypeOK'
  <2>1. SchedulerTypeOK'
    BY <1>9, SchedulerTypes DEF RunStopClimb, SchedulerStep, ClimberCommands
  <2>2. stopLost' \in BOOLEAN
    BY <1>9 DEF RunStopClimb
  <2> QED
    BY <1>9, <2>1, <2>2 DEF RunStopClimb, Stop
<1>10. CASE CycleAdd
  BY <1>10, SchedulerTypes
  DEF CycleAdd, SchedulerStep, InterruptedRamp, subsystem
<1>11. CASE UNCHANGED vars
  BY <1>11 DEF vars, driverStation, scheduler, subsystem, SchedulerTypeOK
<1> QED
  BY <1>1, <1>2, <1>3, <1>4, <1>5, <1>6, <1>7, <1>8, <1>9, <1>10, <1>11
  DEF Next, Cycle

\* Every variable keeps its type: in particular the settling count of the
\* encoder stays within its bound and no command outside the climber's is ever
\* active or queued.
THEOREM TypeCorrect == Spec => []TypeOK
<1>1. TypeOK /\ [Next]_vars => TypeOK'
  BY TypeStep
<1> QED
  BY <1>1, TypeInit, PTL DEF Spec

-----------------------------------------------------------------------------
(* The inductive invariant behind ReleaseStopsWinch *)

\* The release of a button will be sampled: the release binding remembers it
\* pressed, or the press binding does and the button is still down.
WillNotice(b, press, release) == last[release] \/ (last[press] /\ held[b])
WillNoticeY == WillNotice("Y", 2, 1)
WillNoticeStart == WillNotice("start", 4, 3)

Present(c) == c \in active \/ Queued(c)

\* Something is going to stop the winch.
Covered ==
  \/ WillNoticeY
  \/ WillNoticeStart
  \/ \E s \in StopClimbs : Present(s)
  \/ stopLost

\* The climber has one requirement, so one command at most is active.
Exclusive == \A c, d \in active : c = d

\* Until it has run, the active command is the only one to run; what is still
\* active when all have run is a command that goes on.
RunPhase ==
  phase = "run" =>
    IF torun = {} THEN active \subseteq {"CaptureRope", "StartClimb"}
                  ELSE torun = active

\* Where in the cycle a command can be waiting.
QueuePhase ==
  /\ phase = "poll" /\ poll = 1 => additions = <<>>
  /\ phase = "poll" /\ poll <= 2 => ~Queued("Override")
  /\ phase = "poll" /\ poll <= 4 => ~Queued("CaptureRope")
  /\ phase = "poll" \/ torun # {} =>
       ~Queued("StartClimb") /\ ~Queued("FinishClimb")

\* A driving command started by a button is waiting only while that button's
\* release is going to be noticed.
QueuedCovered ==
  /\ Queued("Override") => WillNoticeY \/ stopLost
  /\ Queued("CaptureRope") => WillNoticeStart \/ stopLost

\* A StopClimb is refused because of Override only while Y is watched.
OverrideCovered ==
  phase = "add" /\ "Override" \in active => WillNoticeY \/ stopLost

DrivingCovered ==
  output \in Driving \/ (\E d \in Drivers : Present(d)) => Covered

IInv ==
  /\ TypeOK
  /\ Exclusive
  /\ RunPhase
  /\ QueuePhase
  /\ QueuedCovered
  /\ OverrideCovered
  /\ DrivingCovered

-----------------------------------------------------------------------------
\* Every two climber commands need the climber, so that they conflict.
LEMMA ConflictFacts ==
  ASSUME active \subseteq ClimberCommands, NEW c \in ClimberCommands
  PROVE  /\ InTheWay(c) = active
         /\ Refused(c) <=> active \cap ({"Override"} \cup StopClimbs) # {}
<1>1. \A d \in ClimberCommands : Conflicts(c, d)
  BY DEF Conflicts, ClimberRequires
<1>2. InTheWay(c) = active
  BY <1>1 DEF InTheWay
<1> QED
  BY <1>2 DEF Refused, ClimberInterruptible, ClimberCommands, StopClimbs

\* The climber's commands and buttons, spelled out.
LEMMA CommandFacts ==
  /\ ClimberCommands = {"CaptureRope", "StartClimb", "FinishClimb", "Override",
                        "StopClimb_start", "StopClimb_Y"}
  /\ StopClimbs = {"StopClimb_start", "StopClimb_Y"}
  /\ Drivers = {"CaptureRope", "StartClimb", "FinishClimb", "Override"}
  /\ ClimberButtons = {"start", "Y"}
BY DEF ClimberCommands, StopClimbs, Drivers, ClimberButtons

\* At power up nothing drives the winch and no press is remembered.
LEMMA InitIInv == Init => IInv
<1> SUFFICES ASSUME Init PROVE IInv
  OBVIOUS
<1>1. TypeOK
  BY TypeInit
<1>2. additions = <<>> /\ active = {} /\ output = "off" /\ phase = "poll"
  BY DEF Init, SchedulerInit
<1>3. \A c : ~Queued(c)
  BY <1>2 DEF Queued
<1> QED
  BY <1>1, <1>2, <1>3
  DEF Init, SchedulerInit, IInv, Exclusive, RunPhase, QueuePhase, QueuedCovered,
      OverrideCovered, DrivingCovered, Driving, Present

\* A driver's press or release: a button whose release will not be noticed any
\* more is one whose release is lost.
LEMMA ButtonStep ==
  ASSUME IInv, NEW b \in ClimberButtons, DriverPressesOrReleases(b)
  PROVE  IInv'
<1> USE CommandFacts, BindingFacts DEF IInv
<1>1. TypeOK'
  BY TypeStep DEF Next
<1>2. /\ UNCHANGED <<phase, poll, last, torun, active, started, additions, output>>
      /\ held' = [held EXCEPT ![b] = ~held[b]]
      /\ stopLost' = (stopLost \/ Unseen(b))
  BY DEF DriverPressesOrReleases, ToggleButton, scheduler, subsystem
<1>3. \A c : Queued(c)' <=> Queued(c)
  BY <1>2 DEF Queued
<1>4. /\ WillNoticeY => WillNoticeY' \/ stopLost'
      /\ WillNoticeStart => WillNoticeStart' \/ stopLost'
  <2>1. b = "Y" /\ last[2] /\ ~last[1] /\ held["Y"] => Unseen(b)
    BY DEF Unseen
  <2>2. b = "start" /\ last[4] /\ ~last[3] /\ held["start"] => Unseen(b)
    BY DEF Unseen
  <2>3. \A a \in ClimberButtons : held'[a] = IF a = b THEN ~held[b] ELSE held[a]
    BY <1>2 DEF TypeOK, SchedulerTypeOK
  <2> QED
    BY <1>2, <2>1, <2>2, <2>3
    DEF WillNoticeY, WillNoticeStart, WillNotice
<1>5. stopLost => stopLost'
  BY <1>2
<1>6. Covered => Covered'
  BY <1>2, <1>3, <1>4, <1>5 DEF Covered, Present
<1>7. Exclusive' /\ RunPhase' /\ QueuePhase'
  BY <1>2, <1>3 DEF Exclusive, RunPhase, QueuePhase
<1>8. QueuedCovered' /\ OverrideCovered'
  BY <1>2, <1>3, <1>4, <1>5 DEF QueuedCovered, OverrideCovered
<1>9. DrivingCovered'
  BY <1>2, <1>3, <1>6 DEF DrivingCovered, Present
<1> QED
  BY <1>1, <1>7, <1>8, <1>9

\* One button binding samples its button.  A release binding that forgets a
\* press queues a StopClimb in the same step.
LEMMA PollStep ==
  ASSUME IInv, CyclePoll
  PROVE  IInv'
<1> USE CommandFacts, BindingFacts DEF IInv
<1>1. TypeOK'
  BY TypeStep DEF Next, Cycle
<1>2. UNCHANGED <<held, enabled, output, stopLost>>
  BY DEF CyclePoll, driverStation, subsystem
<1>3. CASE BeginRun
  <2>1. /\ UNCHANGED <<poll, last, active, started, additions>>
        /\ phase = "poll" /\ poll = 5 /\ phase' = "run" /\ torun' = active
    BY <1>3 DEF BeginRun
  <2>2. \A c : Queued(c)' <=> Queued(c)
    BY <2>1 DEF Queued
  <2>3. Covered' <=> Covered
    BY <1>2, <2>1, <2>2
    DEF Covered, Present, WillNoticeY, WillNoticeStart, WillNotice
  <2>4. Exclusive' /\ RunPhase'
    BY <2>1 DEF Exclusive, RunPhase
  <2>5. QueuePhase'
    BY <2>1, <2>2 DEF QueuePhase
  <2>6. QueuedCovered' /\ OverrideCovered'
    BY <1>2, <2>1, <2>2 DEF QueuedCovered, OverrideCovered,
       WillNoticeY, WillNoticeStart, WillNotice
  <2>7. DrivingCovered'
    BY <1>2, <2>1, <2>2, <2>3 DEF DrivingCovered, Present
  <2> QED
    BY <1>1, <2>4, <2>5, <2>6, <2>7
<1>4. CASE PollButton
  <2> DEFINE b == ClimberBindings[poll].button
             command == ClimberBindings[poll].command
  <2>1. /\ phase = "poll" /\ poll \in 1 .. 4 /\ poll' = poll + 1
        /\ UNCHANGED <<phase, torun, active, started>>
        /\ torun = {}
        /\ last' = [last EXCEPT ![poll] = held[b]]
        /\ additions' = IF Fires(poll) THEN Enqueue(command) ELSE additions
    BY <1>4 DEF PollButton, TypeOK, SchedulerTypeOK
  <2>2. \A i \in 1 .. 4 : last'[i] = IF i = poll THEN held[b] ELSE last[i]
    BY <2>1 DEF TypeOK, SchedulerTypeOK
  <2>3. \A d : Queued(d)' <=> Queued(d) \/ (Fires(poll) /\ d = command)
    <3>1. additions \in Seq(ClimberCommands)
      BY DEF TypeOK, SchedulerTypeOK
    <3>2. command \in ClimberCommands
      BY <2>1
    <3>3. Fires(poll) => \A d : Queued(d)' <=> (Queued(d) \/ d = command)
      BY <2>1, <3>1, <3>2, EnqueueStep
    <3>4. ~Fires(poll) => \A d : Queued(d)' <=> Queued(d)
      BY <2>1 DEF Queued
    <3> HIDE DEF command
    <3> QED
      BY <3>3, <3>4 DEF Fires
  <2>4. /\ poll = 1 => b = "Y" /\ command = "StopClimb_Y" /\ (Fires(1) <=> last[1] /\ ~held["Y"])
        /\ poll = 2 => b = "Y" /\ command = "Override" /\ (Fires(2) <=> ~last[2] /\ held["Y"])
        /\ poll = 3 => b = "start" /\ command = "StopClimb_start" /\ (Fires(3) <=> last[3] /\ ~held["start"])
        /\ poll = 4 => b = "start" /\ command = "CaptureRope" /\ (Fires(4) <=> ~last[4] /\ held["start"])
    BY DEF Fires, TypeOK, SchedulerTypeOK
  <2>5. /\ WillNoticeY => WillNoticeY' \/ Queued("StopClimb_Y")'
        /\ poll # 1 => (WillNoticeY => WillNoticeY')
        /\ WillNoticeStart => WillNoticeStart' \/ Queued("StopClimb_start")'
        /\ poll # 3 => (WillNoticeStart => WillNoticeStart')
    BY <1>2, <2>1, <2>2, <2>3, <2>4
    DEF WillNoticeY, WillNoticeStart, WillNotice, TypeOK, SchedulerTypeOK
  <2>6. Covered => Covered'
    BY <1>2, <2>1, <2>3, <2>5 DEF Covered, Present
  <2>7. Exclusive' /\ RunPhase' /\ OverrideCovered'
    BY <2>1 DEF Exclusive, RunPhase, OverrideCovered
  <2>8. QueuePhase'
    BY <2>1, <2>3, <2>4 DEF QueuePhase
  <2>9. /\ poll = 2 /\ Fires(2) => WillNoticeY'
        /\ poll = 4 /\ Fires(4) => WillNoticeStart'
    BY <1>2, <2>1, <2>2, <2>4
    DEF WillNoticeY, WillNoticeStart, WillNotice, TypeOK, SchedulerTypeOK
  <2>10. QueuedCovered'
    <3>1. Queued("Override")' => WillNoticeY' \/ stopLost'
      BY <1>2, <2>1, <2>3, <2>4, <2>5, <2>9 DEF QueuedCovered, QueuePhase
    <3>2. Queued("CaptureRope")' => WillNoticeStart' \/ stopLost'
      BY <1>2, <2>1, <2>3, <2>4, <2>5, <2>9 DEF QueuedCovered, QueuePhase
    <3> QED
      BY <3>1, <3>2 DEF QueuedCovered
  <2>11. DrivingCovered'
    <3>1. ASSUME NEW d \in Drivers, Queued(d)', ~Queued(d)
          PROVE  Covered'
      BY <3>1, <2>1, <2>3, <2>4, <2>9 DEF Covered
    <3> QED
      BY <1>2, <2>1, <2>6, <3>1 DEF DrivingCovered, Present
  <2> QED
    BY <1>1, <2>7, <2>8, <2>10, <2>11
<1> QED
  BY <1>3, <1>4 DEF CyclePoll

\* The robot is disabled: a command about to run is cancelled.  A StopClimb is
\* lost that way.
LEMMA CancelStep ==
  ASSUME IInv, NEW c \in ClimberCommands, CycleCancel(c)
  PROVE  IInv'
<1> USE CommandFacts DEF IInv
<1>1. TypeOK'
  BY TypeStep DEF Next, Cycle
<1>2. /\ phase = "run" /\ c \in torun /\ torun' = torun \ {c}
      /\ active' = active \ {c}
      /\ stopLost' = (stopLost \/ c \in StopClimbs)
      /\ UNCHANGED <<phase, poll, last, additions, held, output>>
  BY DEF CycleCancel, CancelDisabled, driverStation
<1>3. \A d : Queued(d)' <=> Queued(d)
  BY <1>2 DEF Queued
<1>4. torun = active /\ active = {c} /\ torun' = {} /\ active' = {}
  BY <1>2 DEF RunPhase, Exclusive, TypeOK, SchedulerTypeOK
<1>5. (WillNoticeY' <=> WillNoticeY) /\ (WillNoticeStart' <=> WillNoticeStart)
  BY <1>2 DEF WillNoticeY, WillNoticeStart, WillNotice
<1>6. Covered => Covered'
  BY <1>2, <1>3, <1>4, <1>5 DEF Covered, Present
<1>7. Exclusive' /\ RunPhase' /\ OverrideCovered'
  BY <1>2, <1>4 DEF Exclusive, RunPhase, OverrideCovered
<1>8. QueuePhase' /\ QueuedCovered'
  BY <1>2, <1>3, <1>4, <1>5 DEF QueuePhase, QueuedCovered
<1>9. DrivingCovered'
  BY <1>2, <1>3, <1>4, <1>6 DEF DrivingCovered, Present
<1> QED
  BY <1>1, <1>7, <1>8, <1>9

\* A driving command runs: it goes on, or ends and may leave the next command
\* of the climb waiting.
DriverRuns(c) ==
  /\ UNCHANGED <<held, stopLost>>
  /\ \/ KeepRunning(c) /\ c \in {"CaptureRope", "StartClimb"}
     \/ Finish(c, additions)
     \/ \E d \in {"StartClimb", "FinishClimb"} : Finish(c, Enqueue(d))

\* A packet of the driver station changes no command; a release that the
\* bindings cannot see is recorded.
LEMMA DriverStep ==
  ASSUME IInv, NEW c \in Drivers, DriverRuns(c), TypeOK'
  PROVE  IInv'
<1> USE CommandFacts DEF IInv
<1>1. /\ phase = "run" /\ c \in torun /\ torun' = torun \ {c}
      /\ UNCHANGED <<phase, poll, last, held, stopLost>>
  BY DEF DriverRuns, KeepRunning, Finish
<1>2. torun = active /\ active = {c} /\ torun' = {}
  <2>1. torun = active
    BY <1>1 DEF RunPhase
  <2>2. active = {c}
    BY <1>1, <2>1 DEF Exclusive
  <2> QED
    BY <1>1, <2>1, <2>2
<1>3. active' = {} \/ (active' = {c} /\ c \in {"CaptureRope", "StartClimb"})
  BY <1>2 DEF DriverRuns, KeepRunning, Finish
<1>4. /\ \A d : Queued(d) => Queued(d)'
      /\ \A d : Queued(d)' => Queued(d) \/ d \in {"StartClimb", "FinishClimb"}
  <2>1. additions \in Seq(ClimberCommands)
    BY DEF TypeOK, SchedulerTypeOK
  <2>2. CASE additions' = additions
    BY <2>2 DEF Queued
  <2>3. ASSUME NEW d \in {"StartClimb", "FinishClimb"}, additions' = Enqueue(d)
        PROVE  \A e : Queued(e)' <=> (Queued(e) \/ e = d)
    <3>1. d \in ClimberCommands
      BY <2>3
    <3> QED
      BY <2>1, <2>3, <3>1, EnqueueStep
  <2>4. \/ additions' = additions
        \/ \E d \in {"StartClimb", "FinishClimb"} : additions' = Enqueue(d)
    BY DEF DriverRuns, KeepRunning, Finish
  <2> QED
    BY <2>2, <2>3, <2>4
<1>5. (WillNoticeY' <=> WillNoticeY) /\ (WillNoticeStart' <=> WillNoticeStart)
  BY <1>1 DEF WillNoticeY, WillNoticeStart, WillNotice
<1>6. Covered
  BY <1>2 DEF DrivingCovered, Present
<1>7. Covered'
  BY <1>1, <1>2, <1>4, <1>5, <1>6 DEF Covered, Present
<1>8. Exclusive' /\ RunPhase' /\ OverrideCovered'
  BY <1>1, <1>2, <1>3 DEF Exclusive, RunPhase, OverrideCovered
<1>9. QueuePhase' /\ QueuedCovered'
  BY <1>1, <1>2, <1>4, <1>5 DEF QueuePhase, QueuedCovered
<1>10. DrivingCovered'
  BY <1>7 DEF DrivingCovered
<1> QED
  BY <1>8, <1>9, <1>10

\* StopClimb runs: the winch stops, and what was queued behind it since is
\* still covered.
LEMMA StopStep ==
  ASSUME IInv, NEW c \in StopClimbs, RunStopClimb(c)
  PROVE  IInv'
<1> USE CommandFacts DEF IInv
<1>1. TypeOK'
  BY TypeStep DEF Next, Cycle
<1>2. /\ phase = "run" /\ c \in torun /\ torun' = torun \ {c}
      /\ active' = active \ {c}
      /\ UNCHANGED <<phase, poll, last, additions, held>>
      /\ output' \in {"off", "ratchet"}
      /\ stopLost' = (stopLost /\ \E d \in Drivers : Queued(d))
  BY DEF RunStopClimb, Finish, Stop, driverStation
<1>3. \A d : Queued(d)' <=> Queued(d)
  BY <1>2 DEF Queued
<1>4. torun = active /\ active = {c} /\ torun' = {} /\ active' = {}
  BY <1>2 DEF RunPhase, Exclusive, TypeOK, SchedulerTypeOK
<1>5. (WillNoticeY' <=> WillNoticeY) /\ (WillNoticeStart' <=> WillNoticeStart)
  BY <1>2 DEF WillNoticeY, WillNoticeStart, WillNotice
<1>6. Exclusive' /\ RunPhase' /\ OverrideCovered'
  BY <1>2, <1>4 DEF Exclusive, RunPhase, OverrideCovered
<1>7. QueuePhase'
  BY <1>2, <1>3, <1>4 DEF QueuePhase
<1>8. QueuedCovered'
  BY <1>2, <1>3, <1>5 DEF QueuedCovered
<1>9. DrivingCovered'
  <2>1. ASSUME NEW d \in Drivers, Queued(d)
        PROVE  Covered'
    <3>1. d \in {"Override", "CaptureRope"}
      BY <2>1, <1>4 DEF QueuePhase
    <3> QED
      BY <2>1, <3>1, <1>2, <1>5 DEF QueuedCovered, Covered
  <2> QED
    BY <2>1, <1>2, <1>3, <1>4 DEF DrivingCovered, Present, Driving
<1> QED
  BY <1>1, <1>6, <1>7, <1>8, <1>9

\* The queue is taken into the running commands.  A command in the way of a
\* StopClimb is interrupted unless it is another StopClimb, which stops the
\* winch as well, or Override, whose button is watched.
LEMMA AddStep ==
  ASSUME IInv, CycleAdd
  PROVE  IInv'
<1> USE CommandFacts DEF IInv
<1>1. TypeOK'
  BY TypeStep DEF Next, Cycle
<1>2. UNCHANGED <<held, last, output, stopLost>>
  BY DEF CycleAdd, BeginAdd, Ignore, EndCycle, Insert, driverStation, subsystem
<1>3. (WillNoticeY' <=> WillNoticeY) /\ (WillNoticeStart' <=> WillNoticeStart)
  BY <1>2 DEF WillNoticeY, WillNoticeStart, WillNotice
<1>4. CASE BeginAdd \/ EndCycle
  <2>1. /\ UNCHANGED <<torun, active, additions>>
        /\ torun = {}
        /\ \/ phase = "run" /\ phase' = "add"
           \/ phase = "add" /\ phase' = "poll" /\ additions = <<>>
    BY <1>4 DEF BeginAdd, EndCycle, TypeOK, SchedulerTypeOK
  <2>2. \A d : Queued(d)' <=> Queued(d)
    BY <2>1 DEF Queued
  <2>3. additions = <<>> => \A d : ~Queued(d)
    BY DEF Queued
  <2>4. Exclusive' /\ RunPhase' /\ QueuePhase'
    BY <2>1, <2>2, <2>3 DEF Exclusive, RunPhase, QueuePhase
  <2>5. QueuedCovered'
    BY <1>2, <1>3, <2>2 DEF QueuedCovered
  <2>6. OverrideCovered'
    BY <2>1 DEF OverrideCovered, RunPhase
  <2>7. DrivingCovered'
    BY <1>2, <1>3, <2>1, <2>2 DEF DrivingCovered, Covered, Present
  <2> QED
    BY <1>1, <2>4, <2>5, <2>6, <2>7
<1>5. ASSUME NEW c \in ClimberCommands, Ignore(c) \/ Insert(c)
      PROVE  IInv'
  <2>1. /\ phase = "add" /\ phase' = "add" /\ torun = {} /\ torun' = {}
        /\ additions # <<>> /\ c = Head(additions)
        /\ additions' = Tail(additions)
    BY <1>5 DEF Ignore, Insert, TypeOK, SchedulerTypeOK
  <2>2. /\ Queued(c)
        /\ \A d : Queued(d) => d = c \/ Queued(d)'
        /\ \A d : Queued(d)' => Queued(d)
    BY <2>1, TailFacts DEF TypeOK, SchedulerTypeOK, Queued
  <2>3. active \subseteq ClimberCommands
    BY DEF TypeOK, SchedulerTypeOK
  <2>4. /\ InTheWay(c) = active
        /\ Refused(c) <=> active \cap ({"Override"} \cup StopClimbs) # {}
    BY <2>3, ConflictFacts
  <2>5. \/ active' = active /\ (c \in active \/ active \cap ({"Override"} \cup StopClimbs) # {})
        \/ active' = {c} /\ active \cap ({"Override"} \cup StopClimbs) = {}
    BY <1>5, <2>4 DEF Ignore, Insert
  <2>6. Exclusive' /\ RunPhase' /\ QueuePhase'
    BY <2>1, <2>5 DEF Exclusive, RunPhase, QueuePhase
  <2>7. QueuedCovered'
    BY <1>2, <1>3, <2>2 DEF QueuedCovered
  <2>8. OverrideCovered'
    BY <1>2, <1>3, <2>1, <2>2, <2>5 DEF OverrideCovered, QueuedCovered
  <2>9. Covered => Covered'
    <3>1. ASSUME NEW s \in StopClimbs, Present(s)
          PROVE  Covered'
      <4>1. CASE s \in active
        BY <4>1, <2>5 DEF Covered, Present
      <4>2. CASE Queued(s) /\ s # c
        BY <4>2, <2>2 DEF Covered, Present
      <4>3. CASE s = c
        <5>1. CASE active' = {c} \/ c \in active
          BY <4>3, <5>1, <2>5 DEF Covered, Present
        <5>2. CASE active' = active /\ active \cap StopClimbs # {}
          BY <5>2 DEF Covered, Present
        <5>3. CASE "Override" \in active
          BY <5>3, <2>1, <1>2, <1>3 DEF OverrideCovered, Covered
        <5> QED
          BY <5>1, <5>2, <5>3, <2>5
      <4> QED
        BY <3>1, <4>1, <4>2, <4>3 DEF Present
    <3> QED
      BY <1>2, <1>3, <3>1 DEF Covered
  <2>10. \A d : Present(d)' => Present(d)
    BY <2>2, <2>5 DEF Present
  <2>11. DrivingCovered'
    BY <1>2, <2>9, <2>10 DEF DrivingCovered
  <2> QED
    BY <1>1, <2>6, <2>7, <2>8, <2>11
<1> QED
  BY <1>4, <1>5 DEF CycleAdd

\* Every step of the robot preserves the inductive invariant.
LEMMA NextIInv ==
  ASSUME IInv, [Next]_vars
  PROVE  IInv'
<1>1. ASSUME NEW b \in ClimberButtons, DriverPressesOrReleases(b)
      PROVE  IInv'
  BY <1>1, ButtonStep
<1>2. CASE DriverEnablesOrDisables \/ UNCHANGED vars
  <2>1. /\ UNCHANGED <<held, phase, poll, last, torun, active, started,
                       additions, output, stopLost>>
    BY <1>2 DEF DriverEnablesOrDisables, ToggleEnabled, scheduler, subsystem,
                vars, driverStation
  <2>2. \A c : Queued(c)' <=> Queued(c)
    BY <2>1 DEF Queued
  <2>3. TypeOK'
    BY TypeStep DEF IInv
  <2> QED
    BY <2>1, <2>2, <2>3
    DEF IInv, Exclusive, RunPhase, QueuePhase, QueuedCovered, OverrideCovered,
        DrivingCovered, Covered, Present, WillNoticeY, WillNoticeStart, WillNotice
<1>3. CASE CyclePoll
  BY <1>3, PollStep
<1>4. ASSUME NEW c \in ClimberCommands, CycleCancel(c)
      PROVE  IInv'
  BY <1>4, CancelStep
<1>5. ASSUME NEW c \in Drivers, DriverRuns(c)
      PROVE  IInv'
  BY <1>5, DriverStep, TypeStep DEF IInv
<1>6. ASSUME NEW currentIsHigh \in BOOLEAN, RunCaptureRope(currentIsHigh)
      PROVE  IInv'
  <2>1. DriverRuns("CaptureRope")
    BY <1>6 DEF RunCaptureRope, DriverRuns, driverStation
  <2> QED
    BY <2>1, <1>5, CommandFacts
<1>7. ASSUME NEW isFarEnough \in BOOLEAN, RunStartClimb(isFarEnough)
      PROVE  IInv'
  <2>1. DriverRuns("StartClimb")
    BY <1>7 DEF RunStartClimb, DriverRuns, driverStation
  <2> QED
    BY <2>1, <1>5, CommandFacts
<1>8. CASE RunFinishClimb
  <2>1. DriverRuns("FinishClimb")
    BY <1>8 DEF RunFinishClimb, DriverRuns, driverStation
  <2> QED
    BY <2>1, <1>5, CommandFacts
<1>9. CASE RunOverride
  <2>1. DriverRuns("Override")
    BY <1>9 DEF RunOverride, DriverRuns, driverStation
  <2> QED
    BY <2>1, <1>5, CommandFacts
<1>10. ASSUME NEW c \in StopClimbs, RunStopClimb(c)
       PROVE  IInv'
  BY <1>10, StopStep
<1>11. CASE CycleAdd
  BY <1>11, AddStep
<1> QED
  BY <1>1, <1>2, <1>3, <1>4, <1>6, <1>7, <1>8, <1>9, <1>10, <1>11
  DEF Next, Cycle

\* For any settling count, and whether or not a packet may arrive in the middle
\* of a cycle: the winch is never left driven with both buttons released and
\* sampled and no command left, unless a release is on record as lost.
THEOREM ReleaseStopsWinchAlways == Spec => []ReleaseStopsWinch
<1>1. IInv /\ [Next]_vars => IInv'
  BY NextIInv
<1>2. IInv => ReleaseStopsWinch
  <2> SUFFICES ASSUME IInv, Settled, NothingHeld, output \in Driving
               PROVE  stopLost
    BY DEF ReleaseStopsWinch
  <2>1. Covered
    BY DEF IInv, DrivingCovered
  <2>2. DOMAIN last = 1 .. 4
    BY BindingFacts DEF IInv, TypeOK, SchedulerTypeOK
  <2>3. ~WillNoticeY /\ ~WillNoticeStart
    BY <2>2 DEF Settled, WillNoticeY, WillNoticeStart, WillNotice
              , NothingHeld, ClimberButtons
  <2>4. \A c : ~Present(c)
    BY DEF IInv, QueuePhase, Settled, Present, Queued
  <2> QED
    BY <2>1, <2>3, <2>4 DEF Covered
<1> QED
  BY <1>1, <1>2, InitIInv, PTL DEF Spec

-----------------------------------------------------------------------------
(* The rope: what capture, climb and finish know about each other *)

RopeInv ==
  /\ is_captured_ => is_ratchet_ /\ is_zeroed_ /\ output # "off"
  /\ "CaptureRope" \in started => output = "capture"
  /\ Present("StartClimb") => is_captured_
  /\ Present("FinishClimb") => is_captured_ /\ zero_count_ = ZeroCountReq
  /\ FinishNeedsCapture
  /\ RampOnlyWhileCapturing

\* The command that runs is the only one active.
LEMMA OnlyOneRuns ==
  ASSUME IInv, phase = "run", NEW c \in torun
  PROVE  active = {c} /\ started \subseteq {c}
<1>1. active = torun
  BY DEF IInv, RunPhase
<1>2. active = {c}
  BY <1>1 DEF IInv, Exclusive
<1> QED
  BY <1>2 DEF IInv, TypeOK, SchedulerTypeOK

\* Every step keeps what the climber knows about the rope consistent with
\* the voltage, the ramp and the current limit of the motors.
LEMMA RopeStep ==
  ASSUME IInv, RopeInv, [Next]_vars
  PROVE  RopeInv'
<1> USE CommandFacts, ZeroCountReqAssumption DEF RopeInv
<1>1. /\ additions \in Seq(ClimberCommands)
      /\ active \subseteq ClimberCommands
      /\ zero_count_ \in 0 .. ZeroCountReq
  BY DEF IInv, TypeOK, SchedulerTypeOK
<1> DEFINE Rope == <<output, limit, is_captured_, is_zeroed_, is_ratchet_, zero_count_>>
\* A step that changes nothing but the ramp and adds no command of the climb.
<1>2. ASSUME UNCHANGED Rope, RampOnlyWhileCapturing',
             "CaptureRope" \in started' => "CaptureRope" \in started,
             \A c \in {"StartClimb", "FinishClimb"} : Present(c)' => Present(c)
      PROVE  RopeInv'
  BY <1>2 DEF FinishNeedsCapture
<1>3. ASSUME NEW b \in ClimberButtons, DriverPressesOrReleases(b)
      PROVE  RopeInv'
  BY <1>2, <1>3 DEF DriverPressesOrReleases, scheduler, subsystem, Present,
     Queued, RampOnlyWhileCapturing
<1>4. CASE DriverEnablesOrDisables \/ UNCHANGED vars
  BY <1>2, <1>4 DEF DriverEnablesOrDisables, vars, scheduler, subsystem,
     Present, Queued, RampOnlyWhileCapturing
<1>5. CASE CyclePoll
  <2>1. UNCHANGED Rope /\ ramp' = ramp /\ UNCHANGED <<active, started>>
    BY <1>5 DEF CyclePoll, subsystem, PollButton, BeginRun
  <2>2. \A c \in {"StartClimb", "FinishClimb"} : Queued(c)' => Queued(c)
    <3>1. CASE additions' = additions
      BY <3>1 DEF Queued
    <3>2. ASSUME NEW i \in 1 .. 4, additions' = Enqueue(ClimberBindings[i].command)
          PROVE  \A c \in {"StartClimb", "FinishClimb"} : Queued(c)' => Queued(c)
      <4>1. /\ ClimberBindings[i].command \in ClimberCommands
            /\ ClimberBindings[i].command \notin {"StartClimb", "FinishClimb"}
        BY BindingFacts
      <4> QED
        BY <3>2, <4>1, <1>1, EnqueueStep
    <3>3. \/ additions' = additions
          \/ poll \in 1 .. 4 /\ additions' = Enqueue(ClimberBindings[poll].command)
      BY <1>5, BindingFacts
      DEF CyclePoll, PollButton, BeginRun, IInv, TypeOK, SchedulerTypeOK
    <3> QED
      BY <3>1, <3>2, <3>3
  <2> QED
    BY <1>2, <2>1, <2>2 DEF Present, RampOnlyWhileCapturing
<1>6. ASSUME NEW c \in ClimberCommands, CycleCancel(c)
      PROVE  RopeInv'
  <2>1. UNCHANGED Rope /\ RampOnlyWhileCapturing'
    BY <1>6 DEF CycleCancel, CancelDisabled, InterruptedRamp, RampOnlyWhileCapturing
  <2> QED
    BY <1>2, <1>6, <2>1 DEF CycleCancel, CancelDisabled, Present, Queued
<1>7. ASSUME NEW currentIsHigh \in BOOLEAN, RunCaptureRope(currentIsHigh)
      PROVE  RopeInv'
  <2>1. /\ output' = "capture"
        /\ UNCHANGED <<limit, zero_count_>>
    BY <1>7 DEF RunCaptureRope, StartCapture
  <2>2. \A c \in {"StartClimb", "FinishClimb"} :
           Present(c)' => Present(c) \/ (c = "StartClimb" /\ is_captured_')
    BY <1>7, <1>1, EnqueueStep DEF RunCaptureRope, Finish, KeepRunning, Present, Queued
  <2>3. RampOnlyWhileCapturing'
    BY <1>7 DEF RunCaptureRope, Finish, KeepRunning, RampOnlyWhileCapturing
  <2>4. is_captured_' => is_ratchet_' /\ is_zeroed_'
    BY <1>7 DEF RunCaptureRope, ZeroPosition, Captured
  <2>5. is_captured_ => is_captured_'
    BY <1>7 DEF RunCaptureRope
  <2> QED
    BY <2>1, <2>2, <2>3, <2>4, <2>5 DEF FinishNeedsCapture
<1>8. ASSUME NEW isFarEnough \in BOOLEAN, RunStartClimb(isFarEnough)
      PROVE  RopeInv'
  <2>1. /\ phase = "run" /\ "StartClimb" \in torun
        /\ UNCHANGED <<ramp, is_captured_, is_zeroed_, is_ratchet_>>
        /\ \/ UNCHANGED <<output, limit>>
           \/ output' = "climb" /\ limit' = "climb"
        /\ zero_count_ = ZeroCountReq => zero_count_' = ZeroCountReq
        /\ started' \subseteq started \cup {"StartClimb"}
    BY <1>1, <1>8 DEF RunStartClimb, StartClimb, CountRead, Finish, KeepRunning
  <2>2. active = {"StartClimb"} /\ started \subseteq {"StartClimb"}
    BY <2>1, OnlyOneRuns
  <2>3. Present("StartClimb") /\ is_captured_
    BY <2>2 DEF Present
  <2>4. Present("FinishClimb")' =>
          Present("FinishClimb") \/ zero_count_' = ZeroCountReq
    BY <1>1, <1>8, EnqueueStep
    DEF RunStartClimb, ClimbFinished, CountRead, Finish, KeepRunning, Present, Queued
  <2> QED
    BY <2>1, <2>2, <2>3, <2>4
    DEF FinishNeedsCapture, RampOnlyWhileCapturing
<1>9. CASE RunFinishClimb \/ RunOverride
  <2>1. PICK c \in {"FinishClimb", "Override"} :
          /\ phase = "run" /\ c \in torun
          /\ active' = active \ {c} /\ started' = started \ {c}
          /\ additions' = additions
          /\ UNCHANGED <<ramp, is_captured_, is_zeroed_, is_ratchet_, zero_count_>>
          /\ \/ c = "FinishClimb" /\ output' = "finish" /\ limit' = "finish"
             \/ c = "Override" /\ output' = "climb" /\ limit' = "climb"
    BY <1>9
    DEF RunFinishClimb, StartFinish, RunOverride, StartClimb, Finish
  <2>2. active = {c} /\ started \subseteq {c}
    BY <2>1, OnlyOneRuns
  <2>3. \A d : Queued(d)' <=> Queued(d)
    BY <2>1 DEF Queued
  <2>4. c = "FinishClimb" => is_captured_ /\ zero_count_ = ZeroCountReq
    BY <2>2 DEF Present
  <2> QED
    BY <2>1, <2>2, <2>3, <2>4
    DEF Present, FinishNeedsCapture, RampOnlyWhileCapturing
<1>10. ASSUME NEW c \in StopClimbs, RunStopClimb(c)
       PROVE  RopeInv'
  <2>1. /\ phase = "run" /\ c \in torun
        /\ active' = active \ {c} /\ started' = started \ {c}
        /\ additions' = additions
        /\ UNCHANGED <<ramp, limit, is_captured_, is_zeroed_, is_ratchet_, zero_count_>>
        /\ output' = IF is_ratchet_ THEN "ratchet" ELSE "off"
    BY <1>10 DEF RunStopClimb, Stop, Finish
  <2>2. active = {c} /\ started \subseteq {c}
    BY <2>1, OnlyOneRuns
  <2>3. \A d : Queued(d)' <=> Queued(d)
    BY <2>1 DEF Queued
  <2> QED
    BY <2>1, <2>2, <2>3
    DEF Present, FinishNeedsCapture, RampOnlyWhileCapturing
<1>11. CASE CycleAdd
  <2>1. UNCHANGED Rope
    BY <1>11 DEF CycleAdd, subsystem
  <2>2. CASE BeginAdd \/ EndCycle
    BY <1>2, <1>11, <2>1, <2>2
    DEF CycleAdd, BeginAdd, EndCycle, Insert, subsystem, Present, Queued,
        RampOnlyWhileCapturing
  <2>3. ASSUME NEW c \in ClimberCommands, Ignore(c), UNCHANGED subsystem
        PROVE  RopeInv'
    <3>1. \A d : Queued(d)' => Queued(d)
      BY <1>1, <2>3, TailFacts DEF Ignore, Queued
    <3> QED
      BY <1>2, <2>1, <2>3, <3>1
      DEF Ignore, subsystem, Present, RampOnlyWhileCapturing
  <2>4. ASSUME NEW c \in ClimberCommands, Insert(c),
               ramp' = InterruptedRamp(InTheWay(c))
        PROVE  RopeInv'
    <3>1. /\ \A d : Queued(d)' => Queued(d)
          /\ Queued(c)
      BY <1>1, <2>4, TailFacts DEF Insert, Queued
    <3>2. InTheWay(c) = active
      BY <1>1, ConflictFacts
    <3>3. active' = {c} /\ started' = {} /\ started \subseteq active
      BY <2>4, <3>2 DEF Insert, IInv, TypeOK, SchedulerTypeOK
    <3>4. RampOnlyWhileCapturing'
      BY <2>4, <3>2, <3>3 DEF InterruptedRamp, RampOnlyWhileCapturing
    <3> QED
      BY <1>2, <2>1, <3>1, <3>3, <3>4 DEF Present
  <2> QED
    BY <1>11, <2>2, <2>3, <2>4 DEF CycleAdd
<1> QED
  BY <1>3, <1>4, <1>5, <1>6, <1>7, <1>8, <1>9, <1>10, <1>11 DEF Next, Cycle

\* The two inductive invariants hold in every state.
LEMMA RopeAlways == Spec => [](IInv /\ RopeInv)
<1>1. Init => IInv /\ RopeInv
  <2>1. Init => \A c : ~Queued(c)
    BY DEF Init, SchedulerInit, Queued
  <2> QED
    BY <2>1, InitIInv
    DEF RopeInv, Init, SchedulerInit, Present, FinishNeedsCapture,
        RampOnlyWhileCapturing
<1>2. IInv /\ RopeInv /\ [Next]_vars => IInv' /\ RopeInv'
  BY NextIInv, RopeStep
<1> QED
  BY <1>1, <1>2, PTL DEF Spec

\* From the moment the rope is captured the motors are never switched off.
THEOREM CapturedRopeIsHeldAlways == Spec => []CapturedRopeIsHeld
<1>1. IInv /\ RopeInv => CapturedRopeIsHeld
  BY DEF RopeInv, CapturedRopeIsHeld
<1> QED
  BY <1>1, RopeAlways, PTL

\* The finish is entered only from a captured rope and a settled encoder, for
\* any number of reads the encoder needs.
THEOREM FinishNeedsCaptureAlways == Spec => []FinishNeedsCapture
<1>1. IInv /\ RopeInv => FinishNeedsCapture
  BY DEF RopeInv
<1> QED
  BY <1>1, RopeAlways, PTL

\* The ramp of capture mode never outlives CaptureRope.
THEOREM RampOnlyWhileCapturingAlways == Spec => []RampOnlyWhileCapturing
<1>1. IInv /\ RopeInv => RampOnlyWhileCapturing
  BY DEF RopeInv
<1> QED
  BY <1>1, RopeAlways, PTL

\* The climber never has two commands at once.
THEOREM OneCommandAtATimeAlways == Spec => []OneCommandAtATime
<1>1. IInv /\ RopeInv => OneCommandAtATime
  BY DEF IInv, Exclusive, OneCommandAtATime
<1> QED
  BY <1>1, RopeAlways, PTL
=============================================================================
