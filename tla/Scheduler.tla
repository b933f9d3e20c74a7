------------------------------ MODULE Scheduler ------------------------------
(***************************************************************************)
(* The command scheduler every mode of the robot runs once per control     *)
(* cycle (Robot::DisabledPeriodic, AutonomousPeriodic and TeleopPeriodic   *)
(* all call frc::Scheduler::Run).  The scheduler itself is WPILib code and *)
(* is modelled from how this repository uses it: buttons bound to commands *)
(* in OI, commands with requirements and an interruptible flag, commands   *)
(* that start other commands.                                              *)
(*                                                                         *)
(* One cycle is                                                            *)
(*   "poll"  every button scheduler samples its own button, last binding   *)
(*           first, and queues its command on the edge it watches;         *)
(*   "run"   every active command runs once, in no particular order: a     *)
(*           robot that is disabled cancels it instead;                    *)
(*   "add"   the queued commands are added in order: one whose requirement *)
(*           is held by a command that may not be interrupted is dropped,  *)
(*           otherwise the commands in its way are interrupted.            *)
(* A module that instantiates this one says what the commands do.          *)
(***************************************************************************)
EXTENDS Naturals, Sequences

CONSTANTS
  Commands,       \* the command objects (two instances of a class are two)
  Requires,       \* [Commands -> sets of subsystems]
  Interruptible,  \* the commands another one may interrupt
  Bindings,       \* sequence of [button, edge, command], in polling order
  Buttons,        \* the buttons of the driver station
  Overrun         \* TRUE: a driver station packet may arrive during a cycle

VARIABLES
  held,       \* [Buttons -> BOOLEAN], what the driver station last reported
  enabled,    \* FALSE while the driver station disables the robot
  phase,      \* where in the cycle the scheduler is
  poll,       \* the next binding to sample
  last,       \* [DOMAIN Bindings -> BOOLEAN], the sample each one remembers
  torun,      \* the active commands still to be run in this cycle
  active,     \* the commands the scheduler runs
  started,    \* those of them whose Initialize has been called
  additions   \* the commands waiting to be added

SchedulerTypeOK ==
  /\ held \in [Buttons -> BOOLEAN]
  /\ enabled \in BOOLEAN
  /\ phase \in {"poll", "run", "add"}
  /\ poll \in 1 .. Len(Bindings) + 1
  /\ last \in [1 .. Len(Bindings) -> BOOLEAN]
  /\ torun \subseteq active
  /\ phase # "run" => torun = {}
  /\ active \subseteq Commands
  /\ started \subseteq active
  /\ additions \in Seq(Commands)

SchedulerInit ==
  /\ held = [b \in Buttons |-> FALSE]
  /\ enabled \in BOOLEAN
  /\ phase = "poll"
  /\ poll = 1
  /\ last = [i \in 1 .. Len(Bindings) |-> FALSE]
  /\ torun = {}
  /\ active = {}
  /\ started = {}
  /\ additions = <<>>

-----------------------------------------------------------------------------
(* The driver station: a packet changes a button or the enable bit.  The   *)
(* main loop runs a cycle when a packet has arrived, so that a new one     *)
(* falls between two cycles unless the cycle overruns its 20 ms.           *)

PacketMayArrive == Overrun \/ (phase = "poll" /\ poll = 1)

ToggleButton(b) ==
  /\ PacketMayArrive
  /\ held' = [held EXCEPT ![b] = ~held[b]]
  /\ UNCHANGED enabled

ToggleEnabled ==
  /\ PacketMayArrive
  /\ enabled' = ~enabled
  /\ UNCHANGED held

-----------------------------------------------------------------------------
Queued(c) == \E i \in 1 .. Len(additions) : additions[i] = c

\* Command::Start: a command already waiting is not queued twice.
Enqueue(c) == IF Queued(c) THEN additions ELSE Append(additions, c)

Conflicts(c, d) == Requires[c] \cap Requires[d] # {}
InTheWay(c) == {d \in active : Conflicts(c, d)}
Refused(c) == InTheWay(c) \ Interruptible # {}

\* Binding i samples its button and queues its command on the edge it watches.
Fires(i) ==
  LET b == Bindings[i]
  IN  /\ last[i] # held[b.button]
      /\ held[b.button] = (b.edge = "press")

PollButton ==
  /\ phase = "poll"
  /\ poll <= Len(Bindings)
  /\ last' = [last EXCEPT ![poll] = held[Bindings[poll].button]]
  /\ additions' = IF Fires(poll) THEN Enqueue(Bindings[poll].command)
                                 ELSE additions
  /\ poll' = poll + 1
  /\ UNCHANGED <<phase, torun, active, started>>

BeginRun ==
  /\ phase = "poll"
  /\ poll = Len(Bindings) + 1
  /\ phase' = "run"
  /\ torun' = active
  /\ UNCHANGED <<poll, last, active, started, additions>>

\* Command::Run while the robot is disabled: the command is cancelled and
\* removed; its Interrupted is called only if it had been initialized.
CancelDisabled(c) ==
  /\ phase = "run"
  /\ c \in torun
  /\ ~enabled
  /\ torun' = torun \ {c}
  /\ active' = active \ {c}
  /\ started' = started \ {c}
  /\ UNCHANGED <<phase, poll, last, additions>>

\* Command::Run: the command goes on, or is finished and removed, in which
\* case its End has left newAdditions waiting.
KeepRunning(c) ==
  /\ phase = "run"
  /\ c \in torun
  /\ enabled
  /\ torun' = torun \ {c}
  /\ started' = started \cup {c}
  /\ UNCHANGED <<phase, poll, last, active, additions>>

Finish(c, newAdditions) ==
  /\ phase = "run"
  /\ c \in torun
  /\ enabled
  /\ torun' = torun \ {c}
  /\ active' = active \ {c}
  /\ started' = started \ {c}
  /\ additions' = newAdditions
  /\ UNCHANGED <<phase, poll, last>>

BeginAdd ==
  /\ phase = "run"
  /\ torun = {}
  /\ phase' = "add"
  /\ UNCHANGED <<poll, last, torun, active, started, additions>>

\* Scheduler::ProcessCommandAddition, its three outcomes.
Ignore(c) ==
  /\ phase = "add"
  /\ additions # <<>>
  /\ c = Head(additions)
  /\ c \in active \/ Refused(c)
  /\ additions' = Tail(additions)
  /\ UNCHANGED <<phase, poll, last, torun, active, started>>

Insert(c) ==
  /\ phase = "add"
  /\ additions # <<>>
  /\ c = Head(additions)
  /\ c \notin active
  /\ ~Refused(c)
  /\ active' = (active \ InTheWay(c)) \cup {c}
  /\ started' = started \ InTheWay(c)
  /\ additions' = Tail(additions)
  /\ UNCHANGED <<phase, poll, last, torun>>

\* After the additions, a subsystem that no active command requires is given
\* its default command.
InsertDefault(c) ==
  /\ phase = "add"
  /\ additions = <<>>
  /\ InTheWay(c) = {}
  /\ active' = active \cup {c}
  /\ UNCHANGED <<phase, poll, last, torun, started, additions>>

EndCycle ==
  /\ phase = "add"
  /\ additions = <<>>
  /\ phase' = "poll"
  /\ poll' = 1
  /\ UNCHANGED <<last, torun, active, started, additions>>
=============================================================================
