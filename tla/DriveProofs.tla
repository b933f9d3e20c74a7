----------------------------- MODULE DriveProofs -----------------------------
(***************************************************************************)
(* Proofs about Drive for every selection of autonomous sequences and      *)
(* every lag of the encoders.                                              *)
(***************************************************************************)
EXTENDS Drive, SequenceTheorems, TLAPS

-----------------------------------------------------------------------------
(* The autonomous sequences *)

ParallelParts ==
  {"StageGear", "ReleaseGear", "StartIntake", "StartShooting"}
    \cup InstantCommands
SequentialParts ==
  AutonDrives \cup {"GyroAzimuth", "PlaceGear", "StartShooting", "StageGear",
                    "WaitCommand", "GearCamera", "BoilerCamera"}

KnownEntries ==
  {Then(c) : c \in SequentialParts} \cup {Beside(c) : c \in ParallelParts}

\* What the order of the commands relies on: a sequence drives somewhere
\* before it turns, places a gear or shoots, and it shoots right after a turn.
WellFormed(q) ==
  /\ Len(q) \in Nat /\ DOMAIN q = 1 .. Len(q)
  /\ \A i \in 1 .. Len(q) :
       /\ q[i] \in KnownEntries
       /\ q[i].command \in {"GyroAzimuth", "PlaceGear", "StartShooting"} =>
            \E j \in 1 .. i - 1 : q[j].command \in AutonDrives
       /\ q[i].command = "StartShooting" =>
            i > 1 /\ q[i - 1].command = "GyroAzimuth"

LEMMA WellFormed01 == WellFormed(Sequence01)
<1> DEFINE q == Sequence01
<1>1. /\ Len(q) = 10 /\ DOMAIN q = 1 .. 10
      /\ q[1] = Then("BoilerCamera")
      /\ q[2] = Then("TimedDrive")
      /\ q[3] = Then("TimedDrive")
      /\ q[4] = Beside("SetShooter")
      /\ q[5] = Then("Drive")
      /\ q[6] = Then("GyroAzimuth")
      /\ q[7] = Beside("StartShooting")
      /\ q[8] = Then("WaitCommand")
      /\ q[9] = Beside("StartIntake")
      /\ q[10] = Beside("StageGear")
  BY DEF Sequence01, DriveAndTurn
<1> HIDE DEF q
<1>2. 1 .. 10 = {1, 2, 3, 4, 5, 6, 7, 8, 9, 10}
  OBVIOUS
<1>3. \A i \in 1 .. 10 : q[i] \in KnownEntries
  BY <1>1, <1>2
  DEF KnownEntries, ParallelParts, SequentialParts, AutonDrives,
      InstantCommands
<1>4. /\ q[2].command \in AutonDrives
      /\ \A i \in 1 .. 10 :
           q[i].command \in {"GyroAzimuth", "PlaceGear", "StartShooting"} =>
             2 \in 1 .. i - 1
  BY <1>1, <1>2 DEF Then, Beside, AutonDrives
<1>5. \A i \in 1 .. 10 :
        q[i].command = "StartShooting" => i = 7
  BY <1>1, <1>2 DEF Then, Beside
<1>6. q[6].command = "GyroAzimuth"
  BY <1>1 DEF Then
<1> QED
  BY <1>1, <1>3, <1>4, <1>5, <1>6 DEF q, WellFormed

LEMMA WellFormed04 == WellFormed(Sequence04)
<1> DEFINE q == Sequence04
<1>1. /\ Len(q) = 6 /\ DOMAIN q = 1 .. 6
      /\ q[1] = Beside("SetShooter")
      /\ q[2] = Then("Drive")
      /\ q[3] = Then("GyroAzimuth")
      /\ q[4] = Beside("StartShooting")
      /\ q[5] = Then("WaitCommand")
      /\ q[6] = Then("StageGear")
  BY DEF Sequence04, DriveAndTurn
<1> HIDE DEF q
<1>2. 1 .. 6 = {1, 2, 3, 4, 5, 6}
  OBVIOUS
<1>3. \A i \in 1 .. 6 : q[i] \in KnownEntries
  BY <1>1, <1>2
  DEF KnownEntries, ParallelParts, SequentialParts, AutonDrives,
      InstantCommands
<1>4. /\ q[2].command \in AutonDrives
      /\ \A i \in 1 .. 6 :
           q[i].command \in {"GyroAzimuth", "PlaceGear", "StartShooting"} =>
             2 \in 1 .. i - 1
  BY <1>1, <1>2 DEF Then, Beside, AutonDrives
<1>5. \A i \in 1 .. 6 :
        q[i].command = "StartShooting" => i = 4
  BY <1>1, <1>2 DEF Then, Beside
<1>6. q[3].command = "GyroAzimuth"
  BY <1>1 DEF Then
<1> QED
  BY <1>1, <1>3, <1>4, <1>5, <1>6 DEF q, WellFormed

LEMMA WellFormed06 == WellFormed(Sequence06)
<1> DEFINE q == Sequence06
<1>1. /\ Len(q) = 11 /\ DOMAIN q = 1 .. 11
      /\ q[1] = Then("GearCamera")
      /\ q[2] = Beside("StageGear")
      /\ q[3] = Beside("GearLightOn")
      /\ q[4] = Then("Drive")
      /\ q[5] = Then("PlaceGear")
      /\ q[6] = Beside("ReleaseGear")
      /\ q[7] = Beside("GearLightOff")
      /\ q[8] = Beside("SetShooter")
      /\ q[9] = Then("Drive")
      /\ q[10] = Then("GyroAzimuth")
      /\ q[11] = Beside("StartShooting")
  BY DEF Sequence06, LookForLift, Release, DriveAndTurn
<1> HIDE DEF q
<1>2. 1 .. 11 = {1, 2, 3, 4, 5, 6, 7, 8, 9, 10, 11}
  OBVIOUS
<1>3. \A i \in 1 .. 11 : q[i] \in KnownEntries
  BY <1>1, <1>2
  DEF KnownEntries, ParallelParts, SequentialParts, AutonDrives,
      InstantCommands
<1>4. /\ q[4].command \in AutonDrives
      /\ \A i \in 1 .. 11 :
           q[i].command \in {"GyroAzimuth", "PlaceGear", "StartShooting"} =>
             4 \in 1 .. i - 1
  BY <1>1, <1>2 DEF Then, Beside, AutonDrives
<1>5. \A i \in 1 .. 11 :
        q[i].command = "StartShooting" => i = 11
  BY <1>1, <1>2 DEF Then, Beside
<1>6. q[10].command = "GyroAzimuth"
  BY <1>1 DEF Then
<1> QED
  BY <1>1, <1>3, <1>4, <1>5, <1>6 DEF q, WellFormed

LEMMA WellFormed08 == WellFormed(Sequence08)
<1> DEFINE q == Sequence08
<1>1. /\ Len(q) = 13 /\ DOMAIN q = 1 .. 13
      /\ q[1] = Then("GearCamera")
      /\ q[2] = Beside("StageGear")
      /\ q[3] = Beside("GearLightOn")
      /\ q[4] = Then("Drive")
      /\ q[5] = Then("GyroAzimuth")
      /\ q[6] = Then("PlaceGear")
      /\ q[7] = Beside("ReleaseGear")
      /\ q[8] = Beside("GearLightOff")
      /\ q[9] = Beside("BoilerCamera")
      /\ q[10] = Beside("SetShooter")
      /\ q[11] = Then("Drive")
      /\ q[12] = Then("GyroAzimuth")
      /\ q[13] = Then("StartShooting")
  BY DEF Sequence08, LookForLift, Release, DriveAndTurn
<1> HIDE DEF q
<1>2. 1 .. 13 = {1, 2, 3, 4, 5, 6, 7, 8, 9, 10, 11, 12, 13}
  OBVIOUS
<1>3. \A i \in 1 .. 13 : q[i] \in KnownEntries
  BY <1>1, <1>2
  DEF KnownEntries, ParallelParts, SequentialParts, AutonDrives,
      InstantCommands
<1>4. /\ q[4].command \in AutonDrives
      /\ \A i \in 1 .. 13 :
           q[i].command \in {"GyroAzimuth", "PlaceGear", "StartShooting"} =>
             4 \in 1 .. i - 1
  BY <1>1, <1>2 DEF Then, Beside, AutonDrives
<1>5. \A i \in 1 .. 13 :
        q[i].command = "StartShooting" => i = 13
  BY <1>1, <1>2 DEF Then, Beside
<1>6. q[12].command = "GyroAzimuth"
  BY <1>1 DEF Then
<1> QED
  BY <1>1, <1>3, <1>4, <1>5, <1>6 DEF q, WellFormed

LEMMA WellFormed09 == WellFormed(Sequence09)
<1> DEFINE q == Sequence09
<1>1. /\ Len(q) = 12 /\ DOMAIN q = 1 .. 12
      /\ q[1] = Then("GearCamera")
      /\ q[2] = Beside("StageGear")
      /\ q[3] = Beside("GearLightOn")
      /\ q[4] = Then("Drive")
      /\ q[5] = Then("GyroAzimuth")
      /\ q[6] = Then("PlaceGear")
      /\ q[7] = Beside("ReleaseGear")
      /\ q[8] = Beside("GearLightOff")
      /\ q[9] = Beside("SetShooter")
      /\ q[10] = Then("Drive")
      /\ q[11] = Then("GyroAzimuth")
      /\ q[12] = Then("StartShooting")
  BY DEF Sequence09, LookForLift, Release, DriveAndTurn
<1> HIDE DEF q
<1>2. 1 .. 12 = {1, 2, 3, 4, 5, 6, 7, 8, 9, 10, 11, 12}
  OBVIOUS
<1>3. \A i \in 1 .. 12 : q[i] \in KnownEntries
  BY <1>1, <1>2
  DEF KnownEntries, ParallelParts, SequentialParts, AutonDrives,
      InstantCommands
<1>4. /\ q[4].command \in AutonDrives
      /\ \A i \in 1 .. 12 :
           q[i].command \in {"GyroAzimuth", "PlaceGear", "StartShooting"} =>
             4 \in 1 .. i - 1
  BY <1>1, <1>2 DEF Then, Beside, AutonDrives
<1>5. \A i \in 1 .. 12 :
        q[i].command = "StartShooting" => i = 12
  BY <1>1, <1>2 DEF Then, Beside
<1>6. q[11].command = "GyroAzimuth"
  BY <1>1 DEF Then
<1> QED
  BY <1>1, <1>3, <1>4, <1>5, <1>6 DEF q, WellFormed

LEMMA WellFormed0A == WellFormed(Sequence0A)
<1> DEFINE q == Sequence0A
<1>1. /\ Len(q) = 11 /\ DOMAIN q = 1 .. 11
      /\ q[1] = Then("GearCamera")
      /\ q[2] = Beside("StageGear")
      /\ q[3] = Beside("GearLightOn")
      /\ q[4] = Then("Drive")
      /\ q[5] = Then("GyroAzimuth")
      /\ q[6] = Then("PlaceGear")
      /\ q[7] = Beside("ReleaseGear")
      /\ q[8] = Beside("GearLightOff")
      /\ q[9] = Then("Drive")
      /\ q[10] = Then("GyroAzimuth")
      /\ q[11] = Then("Drive")
  BY DEF Sequence0A, LookForLift, Release, DriveAndTurn
<1> HIDE DEF q
<1>2. 1 .. 11 = {1, 2, 3, 4, 5, 6, 7, 8, 9, 10, 11}
  OBVIOUS
<1>3. \A i \in 1 .. 11 : q[i] \in KnownEntries
  BY <1>1, <1>2
  DEF KnownEntries, ParallelParts, SequentialParts, AutonDrives,
      InstantCommands
<1>4. /\ q[4].command \in AutonDrives
      /\ \A i \in 1 .. 11 :
           q[i].command \in {"GyroAzimuth", "PlaceGear", "StartShooting"} =>
             4 \in 1 .. i - 1
  BY <1>1, <1>2 DEF Then, Beside, AutonDrives
<1>5. \A i \in 1 .. 11 : q[i].command # "StartShooting"
  BY <1>1, <1>2 DEF Then, Beside
<1> QED
  BY <1>1, <1>3, <1>4, <1>5 DEF q, WellFormed

LEMMA WellFormed0D == WellFormed(Sequence0D)
<1> DEFINE q == Sequence0D
<1>1. /\ Len(q) = 13 /\ DOMAIN q = 1 .. 13
      /\ q[1] = Then("GearCamera")
      /\ q[2] = Beside("StageGear")
      /\ q[3] = Beside("GearLightOn")
      /\ q[4] = Then("Drive")
      /\ q[5] = Then("GyroAzimuth")
      /\ q[6] = Then("PlaceGear")
      /\ q[7] = Beside("ReleaseGear")
      /\ q[8] = Beside("GearLightOff")
      /\ q[9] = Then("Drive")
      /\ q[10] = Then("GyroAzimuth")
      /\ q[11] = Then("Drive")
      /\ q[12] = Then("GyroAzimuth")
      /\ q[13] = Then("Drive")
  BY DEF Sequence0D, LookForLift, Release, DriveAndTurn
<1> HIDE DEF q
<1>2. 1 .. 13 = {1, 2, 3, 4, 5, 6, 7, 8, 9, 10, 11, 12, 13}
  OBVIOUS
<1>3. \A i \in 1 .. 13 : q[i] \in KnownEntries
  BY <1>1, <1>2
  DEF KnownEntries, ParallelParts, SequentialParts, AutonDrives,
      InstantCommands
<1>4. /\ q[4].command \in AutonDrives
      /\ \A i \in 1 .. 13 :
           q[i].command \in {"GyroAzimuth", "PlaceGear", "StartShooting"} =>
             4 \in 1 .. i - 1
  BY <1>1, <1>2 DEF Then, Beside, AutonDrives
<1>5. \A i \in 1 .. 13 : q[i].command # "StartShooting"
  BY <1>1, <1>2 DEF Then, Beside
<1> QED
  BY <1>1, <1>3, <1>4, <1>5 DEF q, WellFormed

LEMMA EntryFacts == \A s \in DOMAIN Entries : WellFormed(Entries[s])
<1>1. WellFormed(<<>>)
  BY DEF WellFormed
<1> QED
  BY <1>1, WellFormed01, WellFormed04, WellFormed06, WellFormed08, WellFormed09,
     WellFormed0A, WellFormed0D
  DEF Entries, Sequence02, Sequence03, Sequence05, Sequence07, Sequence0B,
      Sequence0C, Sequence0E

-----------------------------------------------------------------------------
(* The inductive invariant *)

Slow == "drive_auton_slow_azimuth"
Present(c) == c \in active \/ Queued(c)
CommandAt(s, i) == Entries[s][i].command
NeedsDrive(c) == "drive" \in EntryRequires(c)
Active == AutonSequences \cap active

\* The entries that drive and are not run beside others.
SoleDrives == AutonDrives \cup {"GyroAzimuth", "PlaceGear"}

\* What the active sequence runs.
Runs(s, parts) == leaf = "running" /\ EntryOf(s).command \in parts

\* Two active commands have no requirement in common, and DisableBrake, which
\* is over at once, is never among those that go on.
NoConflict ==
  /\ \A c, d \in active : c # d => ~Conflicts(c, d)
  /\ "DisableBrake" \notin started

\* The main loop: it chooses the mode between two cycles, and a mode may only
\* be left for autonomous through a disabled cycle, which cancels everything.
ModeInv ==
  /\ modeChecked => (mode = "disabled" <=> ~enabled)
  /\ ~modeChecked => phase = "poll" /\ poll = 1 /\ additions = <<>>
  /\ mode = "none" => ~modeChecked
  /\ mode = "teleop" => period = "teleop"

\* One sequence at most is active or about to be.
OneSequence ==
  /\ \A s, t \in AutonSequences : Present(s) /\ Present(t) => s = t
  /\ mode \in {"none", "disabled"} =>
       /\ \A s \in AutonSequences : ~Queued(s)
       /\ ~modeChecked \/ phase = "add" => Active = {}
       /\ phase = "run" => Active \subseteq torun

GroupIdle ==
  entry = 1 /\ leaf = "fresh" /\ children = {} /\ turn = "entries" /\ todo = {}

\* The sequence is in the middle of its Run.
MidTurn(s) == phase = "run" /\ enabled /\ torun = {s}

\* What the sequence runs are entries it has come to; a parallel StartShooting
\* is removed before another entry drives.
GroupOf(s) ==
  /\ entry <= Len(Entries[s]) + 1
  /\ \A c \in children : \E i \in 1 .. entry - 1 :
       Entries[s][i].parallel /\ c = CommandAt(s, i)
  /\ leaf # "fresh" => entry <= Len(Entries[s]) /\ ~EntryOf(s).parallel
  /\ leaf = "entered" => MidTurn(s) /\ turn = "entries"
  /\ turn = "children" =>
       MidTurn(s) /\ (leaf = "running" \/ entry > Len(Entries[s]))
  /\ turn = "entries" => todo = {}
  /\ leaf = "fresh" /\ entry \in 2 .. Len(Entries[s]) => MidTurn(s)
  /\ leaf # "fresh" /\ NeedsDrive(EntryOf(s).command) =>
       "StartShooting" \notin children

GroupInv ==
  /\ Active = {} => GroupIdle
  /\ \A s \in Active : GroupOf(s)

\* The first Run of a sequence ends with its first drive.
FirstTurnOf(s) ==
  /\ GroupIdle \/ MidTurn(s)
  /\ \A i \in 1 .. entry - 1 : ~NeedsDrive(CommandAt(s, i))
  /\ leaf = "running" => turn = "children"
  /\ Runs(s, AutonDrives) => stable_count_ = 0

FirstTurn == \A s \in Active \ started : FirstTurnOf(s)

\* After a turn and before the next entry the wheels stand still.
TurnedStill ==
  \A s \in Active :
    leaf = "fresh" /\ entry \in 2 .. Len(Entries[s])
      /\ CommandAt(s, entry - 1) = "GyroAzimuth" => setpoint = "stop"

\* What PlaceGear left is gone before another sequence is queued: the robot was
\* disabled in between.
FreshInv ==
  /\ \A s \in AutonSequences :
       Queued(s) => s \notin started /\ (phase # "add" => s \notin active)
  /\ \A s \in AutonSequences :
       Present(s) /\ s \notin started => setpoint # "PlaceGear"
  /\ mode \in {"none", "disabled"} => setpoint # "PlaceGear"

\* Which set points the command that drives may have left.
SetpointInv ==
  /\ Drivers = {} => setpoint \in {"stop", "PlaceGear"}
  /\ "DriveTeleOp" \in Drivers => setpoint \in {"stop", "DriveTeleOp"}
  /\ "EnableBrake" \in Drivers => setpoint \in {"stop", "PlaceGear"}
  /\ "StartShooting" \in Drivers => setpoint \in {"stop", "StartShooting"}
  /\ "GyroAzimuth" \in Drivers => setpoint \in {"stop", "GyroAzimuth"}
  /\ "PlaceGear" \in Drivers => setpoint \in {"stop", "PlaceGear"}
  /\ Drivers \cap AutonDrives # {} =>
       \/ setpoint \in {"stop", "Drive"}
       \/ setpoint = "PlaceGear" /\ stable_count_ = 0

AimingInv ==
  /\ aiming # "none" => "StartShooting" \in Drivers
  /\ setpoint = "StartShooting" => aiming = "aiming"

SettingsInv ==
  /\ SetpointFitsSettings
  /\ "DriveTeleOp" \in started => settings = "drive"
  /\ aiming = "aiming" => settings = Slow
  /\ \A s \in Active :
       /\ Runs(s, AutonDrives) => settings = "drive_auton"
       /\ Runs(s, {"PlaceGear", "GyroAzimuth"}) => settings = Slow

CountInv ==
  /\ aiming = "aiming" => stable_count_ < StableCountReq
  /\ \A s \in Active :
       /\ Runs(s, SoleDrives) =>
            stable_count_ < StableCountReq
       /\ Runs(s, AutonDrives \cup {"PlaceGear"}) => zero_count_ >= 1
       /\ Runs(s, {"PlaceGear"}) => zero_count_ <= PlaceGearZeroCountReq

\* The sequence has run in this cycle.
AfterRun(s) ==
  phase = "add" \/ (phase = "run" /\ (s \notin torun \/ turn = "children"))

LagInv ==
  \A s \in Active :
    /\ Runs(s, AutonDrives \cup {"PlaceGear"}) =>
         \/ zeroLag = 0
         \/ zeroLag + zero_count_ <= IF AfterRun(s) THEN ZeroLag + 1 ELSE ZeroLag
    /\ ZeroLag <= PlaceGearZeroCountReq =>
         /\ Runs(s, AutonDrives) /\ stable_count_ > 0 => zeroLag = 0
         /\ Runs(s, {"PlaceGear"}) /\ is_cruising_ => zeroLag = 0

\* What runs, and what that has done to the motors.
Control ==
  TypeOK /\ NoConflict /\ ModeInv /\ OneSequence /\ GroupInv /\ FirstTurn

MotorInv ==
  /\ TurnedStill /\ SetpointInv /\ AimingInv /\ GyroOffOnlyPlacing
  /\ SettingsInv /\ CountInv /\ LagInv

IInv == Control /\ FreshInv /\ MotorInv

-----------------------------------------------------------------------------
(* Commands and what they require *)

DrivingParts == AutonDrives \cup {"GyroAzimuth", "PlaceGear", "StartShooting"}
DrivingCommands == {"DriveTeleOp", "EnableBrake", "DisableBrake", "StartShooting"}

\* The driver's commands, and that no sequence is one of them.
LEMMA CommandFacts ==
  /\ DriverCommands = DrivingCommands \cup {"StopShooting"}
  /\ AutonSequences \cap DriverCommands = {}
  /\ DriveCommands = DriverCommands \cup AutonSequences
  /\ AutonSequences \subseteq DOMAIN Entries
<1>1. DOMAIN Entries =
        {"Sequence01", "Sequence02", "Sequence03", "Sequence04", "Sequence05",
         "Sequence06", "Sequence07", "Sequence08", "Sequence09", "Sequence0A",
         "Sequence0B", "Sequence0C", "Sequence0D", "Sequence0E"}
  BY DEF Entries
<1> QED
  BY <1>1, DriveAssumption DEF DriverCommands, DriveCommands, DrivingCommands

\* The parts that need the drive.
LEMMA PartFacts ==
  \A c \in ParallelParts \cup SequentialParts :
    NeedsDrive(c) <=> c \in DrivingParts
<1> DEFINE Others ==
      {"StageGear", "ReleaseGear", "StartIntake", "WaitCommand", "GearCamera",
       "BoilerCamera", "GearLightOn", "GearLightOff", "SetShooter"}
<1>1. ParallelParts \cup SequentialParts = DrivingParts \cup Others
  BY DEF ParallelParts, SequentialParts, DrivingParts, InstantCommands,
         AutonDrives
<1>2. \A c \in DrivingParts : NeedsDrive(c)
  BY DEF DrivingParts, NeedsDrive, EntryRequires, AutonDrives
<1>3. \A c \in Others : ~NeedsDrive(c) /\ c \notin DrivingParts
  BY DEF DrivingParts, NeedsDrive, EntryRequires, AutonDrives
<1> QED
  BY <1>1, <1>2, <1>3

\* The commands that require the drive, a sequence with a driving entry among
\* them.
LEMMA RequiresFacts ==
  /\ \A c \in DrivingCommands : "drive" \in DriveRequires[c]
  /\ "drive" \notin DriveRequires["StopShooting"]
  /\ \A s \in AutonSequences : \A i \in 1 .. Len(Entries[s]) :
       NeedsDrive(CommandAt(s, i)) => "drive" \in DriveRequires[s]
<1>1. /\ \A c \in DriverCommands : c \in DriveCommands /\ c \notin AutonSequences
      /\ DrivingCommands \subseteq DriverCommands
      /\ "StopShooting" \in DriverCommands
  BY CommandFacts
<1>2. \A c \in DriveCommands : DriveRequires[c] =
        CASE c \in AutonSequences -> GroupRequires(c)
          [] c = "StartShooting" -> EntryRequires(c)
          [] c = "StopShooting" -> {"hopper", "wheel"}
          [] OTHER -> {"drive"}
  BY Zenon DEF DriveRequires
<1>3. DriveRequires["StopShooting"] = {"hopper", "wheel"}
  BY <1>1, <1>2
<1>4. DriveRequires["StartShooting"] = EntryRequires("StartShooting")
  <2> DEFINE c == "StartShooting"
  <2>1. /\ c \in DriveCommands /\ c \notin AutonSequences
        /\ c = "StartShooting" /\ c # "StopShooting"
    BY <1>1 DEF DrivingCommands
  <2> HIDE DEF c
  <2>2. DriveRequires[c] = EntryRequires(c)
    BY <1>2, <2>1, Zenon
  <2> QED
    BY <2>1, <2>2
<1>5. \A c \in DrivingCommands \ {"StartShooting"} : DriveRequires[c] = {"drive"}
  BY <1>1, <1>2 DEF DrivingCommands
<1>6. "drive" \in EntryRequires("StartShooting")
  BY DEF EntryRequires, AutonDrives
<1>7. \A s \in AutonSequences : DriveRequires[s] = GroupRequires(s)
  <2> SUFFICES ASSUME NEW c \in AutonSequences
               PROVE  DriveRequires[c] = GroupRequires(c)
    OBVIOUS
  <2>1. c \in DriveCommands /\ c # "StartShooting" /\ c # "StopShooting"
    BY <1>1 DEF DrivingCommands, DriveCommands
  <2> QED
    BY <1>2, <2>1, Zenon
<1>8. \A s \in AutonSequences : DOMAIN Entries[s] = 1 .. Len(Entries[s])
  BY CommandFacts, EntryFacts DEF WellFormed
<1>9. \A s \in AutonSequences : \A i \in 1 .. Len(Entries[s]) :
        EntryRequires(CommandAt(s, i)) \subseteq DriveRequires[s]
  BY <1>7, <1>8, Zenon DEF GroupRequires, CommandAt
<1> QED
  BY <1>6, <1>9, <1>3, <1>4, <1>5 DEF NeedsDrive, DrivingCommands

-----------------------------------------------------------------------------
(* The scheduler's queue *)

\* The four bindings start commands of the driver.
LEMMA BindingFacts ==
  /\ Len(DriveBindings) = 4
  /\ \A i \in 1 .. 4 : /\ DriveBindings[i].command \in DriverCommands
                       /\ DriveBindings[i].button \in {"brake", "auto"}
<1> DEFINE B == DriveBindings
<1>1. /\ Len(B) = 4
      /\ B[1] = [button |-> "brake", edge |-> "press", command |-> "DisableBrake"]
      /\ B[2] = [button |-> "brake", edge |-> "release", command |-> "EnableBrake"]
      /\ B[3] = [button |-> "auto", edge |-> "release", command |-> "StopShooting"]
      /\ B[4] = [button |-> "auto", edge |-> "press", command |-> "StartShooting"]
  BY DEF DriveBindings
<1>2. 1 .. 4 = {1, 2, 3, 4}
  OBVIOUS
<1> QED
  BY <1>1, <1>2 DEF DriverCommands

\* Command::Start: it keeps what was queued and adds only that command.
LEMMA EnqueueStep ==
  ASSUME NEW c \in DriveCommands, additions \in Seq(DriveCommands),
         additions' = Enqueue(c)
  PROVE  /\ additions' \in Seq(DriveCommands)
         /\ \A d : Queued(d)' <=> (Queued(d) \/ d = c)
<1>1. CASE Queued(c)
  <2>1. additions' = additions
    BY <1>1 DEF Enqueue
  <2>2. \A d : Queued(d)' <=> Queued(d)
    BY <2>1 DEF Queued
  <2> QED
    BY <1>1, <2>1, <2>2
<1>2. CASE ~Queued(c)
  <2>1. additions' = Append(additions, c)
    BY <1>2 DEF Enqueue
  <2>2. /\ additions' \in Seq(DriveCommands)
        /\ Len(additions') = Len(additions) + 1
        /\ \A i \in 1 .. Len(additions) : additions'[i] = additions[i]
        /\ additions'[Len(additions) + 1] = c
    BY <2>1
  <2> QED
    BY <2>2 DEF Queued
<1> QED
  BY <1>1, <1>2

\* Taking the head of the queue leaves the rest of it waiting.
LEMMA DequeueStep ==
  ASSUME additions \in Seq(DriveCommands), additions # <<>>,
         additions' = Tail(additions)
  PROVE  /\ additions' \in Seq(DriveCommands)
         /\ Queued(Head(additions))
         /\ \A d : Queued(d)' => Queued(d)
<1>1. /\ Len(additions) \in Nat \ {0}
      /\ Head(additions) = additions[1]
      /\ additions' \in Seq(DriveCommands)
      /\ Len(additions') = Len(additions) - 1
      /\ \A i \in 1 .. Len(additions) - 1 : additions'[i] = additions[i + 1]
  BY EmptySeq, HeadTailProperties
<1> QED
  BY <1>1 DEF Queued

\* What a step of Next does to the scheduler's own variables.
SchedulerStep ==
  \/ PollButton \/ BeginRun \/ BeginAdd \/ EndCycle
  \/ \E c \in DriveCommands :
       \/ CancelDisabled(c) \/ KeepRunning(c) \/ Ignore(c) \/ Insert(c)
       \/ InsertDefault(c) \/ Finish(c, additions)

\* The steps of the scheduler keep its variables in their types.
LEMMA SchedulerTypes ==
  ASSUME SchedulerTypeOK, SchedulerStep, UNCHANGED <<held, enabled>>
  PROVE  SchedulerTypeOK'
<1> USE BindingFacts DEF SchedulerTypeOK
<1>1. CASE PollButton
  <2>1. poll \in 1 .. 4
    BY <1>1 DEF PollButton
  <2>2. DriveBindings[poll].command \in DriveCommands
    BY <2>1, CommandFacts
  <2>3. additions' \in Seq(DriveCommands)
    BY <1>1, <2>2, EnqueueStep DEF PollButton
  <2>4. held[DriveBindings[poll].button] \in BOOLEAN
    BY <2>1
  <2> QED
    BY <1>1, <2>1, <2>3, <2>4 DEF PollButton
<1>2. CASE BeginRun \/ BeginAdd \/ EndCycle
  BY <1>2 DEF BeginRun, BeginAdd, EndCycle
<1>3. ASSUME NEW c \in DriveCommands,
             CancelDisabled(c) \/ KeepRunning(c) \/ Finish(c, additions)
      PROVE  SchedulerTypeOK'
  BY <1>3 DEF CancelDisabled, KeepRunning, Finish
<1>4. ASSUME NEW c \in DriveCommands, Ignore(c)
      PROVE  SchedulerTypeOK'
  BY <1>4, DequeueStep DEF Ignore
<1>5. ASSUME NEW c \in DriveCommands, Insert(c)
      PROVE  SchedulerTypeOK'
  <2>1. InTheWay(c) \subseteq active /\ torun = {}
    BY <1>5 DEF InTheWay, Insert
  <2>2. additions' \in Seq(DriveCommands)
    BY <1>5, DequeueStep DEF Insert
  <2> QED
    BY <1>5, <2>1, <2>2 DEF Insert
<1>6. ASSUME NEW c \in DriveCommands, InsertDefault(c)
      PROVE  SchedulerTypeOK'
  BY <1>6 DEF InsertDefault
<1> QED
  BY <1>1, <1>2, <1>3, <1>4, <1>5, <1>6 DEF SchedulerStep

-----------------------------------------------------------------------------
(* Who drives *)

PartDrives(s, d) ==
  \/ d = "StartShooting" /\ d \in children
  \/ leaf = "running" /\ d = EntryOf(s).command /\ d \in DrivingParts

\* The sequence runs commands that may be parallel as its children, and others
\* as its sequential entry.
LEMMA GroupParts ==
  ASSUME Control, NEW s \in Active
  PROVE  /\ children \subseteq ParallelParts
         /\ \A c \in children : \E i \in 1 .. Len(Entries[s]) : c = CommandAt(s, i)
         /\ entry \in Nat \ {0} /\ Len(Entries[s]) \in Nat
         /\ entry <= Len(Entries[s]) =>
              /\ EntryOf(s).parallel => EntryOf(s).command \in ParallelParts
              /\ ~EntryOf(s).parallel => EntryOf(s).command \in SequentialParts
         /\ leaf # "fresh" => /\ entry <= Len(Entries[s])
                              /\ EntryOf(s).command \in SequentialParts
<1>1. s \in DOMAIN Entries /\ WellFormed(Entries[s])
  BY CommandFacts, EntryFacts DEF Active
<1>2. \A e \in KnownEntries :
        /\ e.parallel => e.command \in ParallelParts
        /\ ~e.parallel => e.command \in SequentialParts
  BY DEF KnownEntries, Then, Beside
<1>3. \A i \in 1 .. Len(Entries[s]) : Entries[s][i] \in KnownEntries
  BY <1>1 DEF WellFormed
<1>4. entry \in Nat \ {0} /\ Len(Entries[s]) \in Nat
  BY <1>1 DEF WellFormed, Control, TypeOK
<1>5. entry <= Len(Entries[s]) + 1
  BY DEF Control, GroupInv, GroupOf
<1>6. \A c \in children : \E i \in 1 .. Len(Entries[s]) :
        Entries[s][i].parallel /\ c = CommandAt(s, i)
  <2>1. \A c \in children : \E i \in 1 .. entry - 1 :
          Entries[s][i].parallel /\ c = CommandAt(s, i)
    BY DEF Control, GroupInv, GroupOf
  <2> QED
    BY <1>4, <1>5, <2>1
<1>7. children \subseteq ParallelParts
  BY <1>2, <1>3, <1>6 DEF CommandAt
<1>8. entry <= Len(Entries[s]) => EntryOf(s) \in KnownEntries
  BY <1>3, <1>4 DEF EntryOf
<1>9. leaf # "fresh" => entry <= Len(Entries[s]) /\ ~EntryOf(s).parallel
  BY DEF Control, GroupInv, GroupOf
<1> QED
  BY <1>2, <1>4, <1>6, <1>7, <1>8, <1>9

\* The commands that drive are the started ones that need the drive and the
\* driving parts of the sequence.
LEMMA DriverCases ==
  Control =>
    \A d : d \in Drivers <=>
      \/ d \in started \cap DrivingCommands
      \/ \E s \in Active \cap started : PartDrives(s, d)
<1> SUFFICES ASSUME Control, NEW d
             PROVE  d \in Drivers <=>
                      \/ d \in started \cap DrivingCommands
                      \/ \E s \in Active \cap started : PartDrives(s, d)
  OBVIOUS
<1>1. started \subseteq active /\ active \subseteq DriveCommands
  BY DEF Control, TypeOK, SchedulerTypeOK
<1>2. \A c \in started \ AutonSequences : Parts(c) = {c}
  BY DEF Parts
<1>3. \A s \in Active \cap started :
        Parts(s) = children \cup IF leaf = "running" THEN {EntryOf(s).command} ELSE {}
  BY DEF Parts, Active
<1>4. "StartShooting" \in DrivingParts /\ "StartShooting" \in DrivingCommands
  BY DEF DrivingParts, DrivingCommands
<1>5. \A c \in ParallelParts \cup SequentialParts :
        c # "StartShooting" => c \notin DriverCommands
  BY DEF ParallelParts, SequentialParts, InstantCommands, AutonDrives,
         DriverCommands
<1>6. \A c \in DriverCommands : "drive" \in DriveRequires[c] <=> c \in DrivingCommands
  BY RequiresFacts, CommandFacts DEF DrivingCommands
<1>7. ASSUME NEW c \in ParallelParts \cup SequentialParts
      PROVE  (IF c \in DriverCommands THEN "drive" \in DriveRequires[c]
                                      ELSE "drive" \in EntryRequires(c))
               <=> c \in DrivingParts
  BY <1>4, <1>5, <1>6, PartFacts DEF NeedsDrive
<1>8. \A c \in ParallelParts : c \in DrivingParts => c = "StartShooting"
  BY DEF ParallelParts, DrivingParts, InstantCommands, AutonDrives
<1>9. ASSUME NEW s \in Active \cap started
      PROVE  (d \in Parts(s) /\ d \in Drivers) <=> PartDrives(s, d)
  <2>1. /\ children \subseteq ParallelParts
        /\ leaf = "running" => EntryOf(s).command \in SequentialParts
    BY GroupParts
  <2>2. Parts(s) \subseteq ParallelParts \cup SequentialParts
    BY <1>3, <2>1
  <2>3. d \in Parts(s) => (d \in Drivers <=> d \in DrivingParts)
    BY <1>7, <2>2 DEF Drivers
  <2> QED
    BY <1>3, <1>4, <1>8, <2>1, <2>3 DEF PartDrives
<1>10. d \in Drivers => \E c \in started : d \in Parts(c)
  BY DEF Drivers
<1>11. ASSUME NEW c \in started \ AutonSequences
       PROVE  (d \in Parts(c) /\ d \in Drivers) <=> d = c /\ c \in DrivingCommands
  BY <1>1, <1>2, <1>6 DEF Drivers, DriveCommands
<1>12. started \cap AutonSequences = Active \cap started
  BY <1>1 DEF Active
<1>13. DrivingCommands \cap AutonSequences = {}
  BY CommandFacts
<1> QED
  BY <1>9, <1>10, <1>11, <1>12, <1>13

\* A sequence of which a part drives needs the drive.
LEMMA PartNeedsDrive ==
  ASSUME Control, NEW s \in Active, NEW d, PartDrives(s, d)
  PROVE  "drive" \in DriveRequires[s] /\ d \in DrivingParts
<1>1. "StartShooting" \in DrivingParts
  BY DEF DrivingParts
<1>2. /\ d \in ParallelParts \cup SequentialParts
      /\ d \in DrivingParts
      /\ \E i \in 1 .. Len(Entries[s]) : d = CommandAt(s, i)
  BY <1>1, GroupParts DEF PartDrives, EntryOf, CommandAt
<1>3. NeedsDrive(d)
  BY <1>2, PartFacts
<1> QED
  BY <1>2, <1>3, RequiresFacts DEF Active

\* Of the commands that need the drive at most one is active.
LEMMA OneNeedsDrive ==
  ASSUME NoConflict, NEW c \in active, NEW d \in active,
         "drive" \in DriveRequires[c], "drive" \in DriveRequires[d]
  PROVE  c = d
BY DEF NoConflict, Conflicts

\* Two parts of a sequence never drive together.
LEMMA OnePartDrives ==
  ASSUME Control, NEW s \in Active, NEW c, PartDrives(s, c),
         NEW d, PartDrives(s, d)
  PROVE  c = d
<1>1. ASSUME leaf = "running", EntryOf(s).command \in DrivingParts
      PROVE  "StartShooting" \notin children
  <2>1. NeedsDrive(EntryOf(s).command)
    BY <1>1, GroupParts, PartFacts
  <2> QED
    BY <1>1, <2>1 DEF Control, GroupInv, GroupOf
<1> QED
  BY <1>1 DEF PartDrives

\* The first half of SetpointHasDriver.
LEMMA OneDriver == Control => \A c, d \in Drivers : c = d
<1> SUFFICES ASSUME Control, NEW c \in Drivers, NEW d \in Drivers
             PROVE  c = d
  OBVIOUS
<1>1. started \subseteq active
  BY DEF Control, TypeOK, SchedulerTypeOK
<1>2. \A s, t \in Active : s = t
  BY DEF Control, OneSequence, Present, Active
<1>3. \A e \in started \cap DrivingCommands :
        e \in active /\ "drive" \in DriveRequires[e] /\ e \notin AutonSequences
  BY <1>1, RequiresFacts, CommandFacts
<1>4. \A s \in Active : \A e :
        PartDrives(s, e) => "drive" \in DriveRequires[s]
  BY PartNeedsDrive
<1>5. ASSUME NEW e \in started \cap DrivingCommands, NEW s \in Active, NEW f,
             PartDrives(s, f)
      PROVE  FALSE
  BY <1>3, <1>4, <1>5, OneNeedsDrive DEF Active, Control
<1>6. CASE c \in started \cap DrivingCommands
  <2>1. d \in started \cap DrivingCommands
    BY <1>5, <1>6, DriverCases
  <2> QED
    BY <1>3, <1>6, <2>1, OneNeedsDrive DEF Control
<1>7. CASE \E s \in Active \cap started : PartDrives(s, c)
  <2>1. \E s \in Active \cap started : PartDrives(s, d)
    BY <1>5, <1>7, DriverCases
  <2> QED
    BY <1>2, <1>7, <2>1, OnePartDrives
<1> QED
  BY <1>6, <1>7, DriverCases

-----------------------------------------------------------------------------
(* Type correctness *)

\* What the types say of the variables a part of a sequence changes.
PartTypeOK ==
  /\ settings \in {"drive", "drive_auton", "drive_auton_slow_azimuth"}
  /\ setpoint \in {"stop"} \cup Setters
  /\ gyro_disabled_ \in BOOLEAN
  /\ zeroLag \in 0 .. ZeroLag
  /\ camera \in {"boiler", "gear"}
  /\ gearLight \in BOOLEAN
  /\ zero_count_ \in 0 .. DriveZeroCountReq
  /\ stable_count_ \in 0 .. StableCountReq
  /\ is_initialized_ \in BOOLEAN
  /\ is_cruising_ \in BOOLEAN
  /\ aiming \in {"none", "aiming", "aimed"}

\* No handler that shoots takes a variable out of its type.
LEMMA ShootTypes ==
  ASSUME PartTypeOK, aiming = "aiming" => stable_count_ < StableCountReq,
         NEW done \in BOOLEAN, RunStartShooting(done)
  PROVE  PartTypeOK'
<1> USE DEF PartTypeOK, StableCountReq
<1>1. /\ settings' \in {settings, "drive_auton_slow_azimuth"}
      /\ camera' \in {camera, "boiler"}
      /\ aiming' \in {"none", "aiming", "aimed"}
      /\ setpoint' \in {setpoint, "stop", "StartShooting"}
  BY DEF RunStartShooting, EndParts
<1>2. stable_count_' \in 0 .. 3
  BY DEF RunStartShooting
<1>3. UNCHANGED <<zeroLag, zero_count_, is_initialized_, is_cruising_,
                  gearLight>>
  BY DEF RunStartShooting
<1>4. gyro_disabled_' \in BOOLEAN
  BY DEF RunStartShooting
<1> QED
  BY <1>1, <1>2, <1>3, <1>4 DEF Setters

\* No handler of a part takes a variable out of its type, as long as what the
\* part has counted is still below what ends it.
LEMMA PartTypes ==
  ASSUME PartTypeOK, NEW c, NEW isNew \in BOOLEAN, NEW done \in BOOLEAN,
         RunPart(c, isNew, done),
         aiming = "aiming" => stable_count_ < StableCountReq,
         ~isNew /\ c \in SoleDrives =>
           stable_count_ < StableCountReq
  PROVE  PartTypeOK'
<1> USE DEF PartTypeOK, StableCountReq, DriveZeroCountReq,
            PlaceGearZeroCountReq, Setters, lights
<1>1. CASE c \in AutonDrives /\ RunDrive(isNew, c = "TimedDrive", done)
  <2>1. UNCHANGED <<gyro_disabled_, is_initialized_, is_cruising_, aiming,
                    camera, gearLight>>
    BY <1>1 DEF RunDrive
  <2>2. settings' \in {settings, "drive_auton"}
    BY <1>1 DEF RunDrive
  <2>3. setpoint' \in {setpoint, "stop", "Drive"}
    BY <1>1 DEF RunDrive, Reconfigured
  <2>4. zeroLag' \in {zeroLag, ZeroLag}
    BY <1>1 DEF RunDrive, ZeroPosition
  <2>5. zero_count_' \in 0 .. 4
    BY <1>1 DEF RunDrive
  <2>6. stable_count_' \in 0 .. 3
    BY <1>1 DEF RunDrive, Count, SoleDrives
  <2> QED
    BY <2>1, <2>2, <2>3, <2>4, <2>5, <2>6, DriveAssumption
<1>2. CASE c = "GyroAzimuth" /\ RunGyroAzimuth(isNew, done)
  <2>1. UNCHANGED <<gyro_disabled_, zeroLag, zero_count_, is_initialized_,
                    is_cruising_, aiming, camera, gearLight>>
    BY <1>2 DEF RunGyroAzimuth
  <2>2. /\ settings' \in {settings, "drive_auton_slow_azimuth"}
        /\ setpoint' \in {"stop", "GyroAzimuth"}
        /\ stable_count_' \in 0 .. 3
    BY <1>2 DEF RunGyroAzimuth, Count, SoleDrives
  <2> QED
    BY <2>1, <2>2
<1>3. CASE c = "PlaceGear" /\ RunPlaceGear(isNew, done)
  <2>1. UNCHANGED <<aiming, camera, gearLight>>
    BY <1>3 DEF RunPlaceGear
  <2>2. CASE PlaceGearInitialize
    <3>1. setpoint' \in {setpoint, "stop"}
      BY <2>2 DEF PlaceGearInitialize, Reconfigured
    <3>2. zeroLag' = ZeroLag
      BY <2>2 DEF PlaceGearInitialize, ZeroPosition
    <3>3. /\ settings' = "drive_auton_slow_azimuth"
          /\ zero_count_' = 1 /\ stable_count_' = 0
      BY <2>2 DEF PlaceGearInitialize, PlaceGearSettings
    <3>4. /\ gyro_disabled_' \in BOOLEAN
          /\ is_initialized_' \in BOOLEAN /\ is_cruising_' \in BOOLEAN
      BY <2>2, Zenon DEF PlaceGearInitialize
    <3> QED
      BY <2>1, <3>1, <3>2, <3>3, <3>4, DriveAssumption
  <2>3. CASE DelayForPositionZero
    BY <2>1, <2>3 DEF DelayForPositionZero, motors
  <2>4. CASE UNCHANGED <<motors, zero_count_, stable_count_, is_initialized_,
                         is_cruising_>>
    BY <2>1, <2>4 DEF motors
  <2>5. CASE ~isNew /\ Approach(done)
    BY <1>3, <2>1, <2>5 DEF Approach, GyroAfter, SoleDrives
  <2> QED
    BY <1>3, <2>2, <2>3, <2>4, <2>5 DEF RunPlaceGear
<1>4. CASE c = "StartShooting" /\ RunStartShooting(done)
  BY <1>4, ShootTypes
<1>5. CASE RunInstant(c)
  BY <1>5 DEF RunInstant, motors, command, counters
<1>6. CASE UNCHANGED <<motors, lights, command>>
  BY <1>6 DEF motors, command, counters
<1> QED
  BY <1>1, <1>2, <1>3, <1>4, <1>5, <1>6 DEF RunPart, RunParallelPart

\* Ending parts takes no variable out of its type.
LEMMA EndTypes ==
  ASSUME PartTypeOK, NEW P, EndParts(P), UNCHANGED lights,
         UNCHANGED counters \/ Forget
  PROVE  PartTypeOK'
<1>1. /\ setpoint' \in {setpoint, "stop"}
      /\ aiming' \in {aiming, "none"}
      /\ UNCHANGED <<settings, zeroLag, camera, gearLight>>
  BY DEF EndParts, lights
<1>2. gyro_disabled_' \in BOOLEAN
  BY DEF EndParts, GyroAfter, PartTypeOK
<1>3. /\ zero_count_' \in {zero_count_, 0}
      /\ stable_count_' \in {stable_count_, 0}
  BY DEF Forget, counters
<1>4. is_initialized_' \in BOOLEAN /\ is_cruising_' \in BOOLEAN
  BY DEF Forget, counters, PartTypeOK
<1> QED
  BY <1>1, <1>2, <1>3, <1>4
  DEF PartTypeOK, StableCountReq, DriveZeroCountReq

GroupTypeOK ==
  /\ entry \in Nat \ {0}
  /\ leaf \in {"fresh", "entered", "running"}
  /\ children \subseteq ParallelParts
  /\ turn \in {"entries", "children"}
  /\ todo \subseteq children

LoopTypeOK ==
  /\ period \in {"auton", "teleop"}
  /\ mode \in {"none", "disabled", "auton", "teleop"}
  /\ modeChecked \in BOOLEAN

LEMMA TypeParts ==
  TypeOK <=> SchedulerTypeOK /\ LoopTypeOK /\ PartTypeOK /\ GroupTypeOK
BY DEF TypeOK, LoopTypeOK, PartTypeOK, GroupTypeOK, ParallelParts

LEMMA TypePartsNext ==
  (TypeOK <=> SchedulerTypeOK /\ LoopTypeOK /\ PartTypeOK /\ GroupTypeOK)'
BY TypeParts, PTL

\* The robot starts with every variable in its type.
LEMMA TypeInit == Init => TypeOK
<1> SUFFICES ASSUME Init PROVE TypeOK
  OBVIOUS
<1>1. SchedulerTypeOK
  BY BindingFacts DEF Init, SchedulerInit, SchedulerTypeOK
<1>2. /\ modeChecked \in BOOLEAN /\ gyro_disabled_ \in BOOLEAN
      /\ gearLight \in BOOLEAN
      /\ is_initialized_ \in BOOLEAN /\ is_cruising_ \in BOOLEAN
  BY Zenon DEF Init
<1>3. LoopTypeOK
  BY <1>2 DEF Init, LoopTypeOK
<1>4. GroupTypeOK
  BY DEF Init, GroupTypeOK
<1>5. /\ settings = "drive" /\ setpoint = "stop" /\ zeroLag = 0
      /\ camera = "boiler" /\ aiming = "none"
      /\ zero_count_ = 0 /\ stable_count_ = 0
  BY DEF Init
<1>6. PartTypeOK
  BY <1>2, <1>5, DriveAssumption
  DEF PartTypeOK, StableCountReq, DriveZeroCountReq
<1> QED
  BY <1>1, <1>3, <1>4, <1>6, TypeParts

\* What the steps of a sequence do to its variables and to what its parts
\* change.
LEMMA SequenceTypes ==
  ASSUME Control, CountInv, NEW s \in AutonSequences, RunSequence(s)
  PROVE  TypeOK'
<1>1. TypeOK /\ PartTypeOK /\ GroupTypeOK /\ SchedulerTypeOK /\ LoopTypeOK
  BY TypeParts DEF Control
<1>2. s \in Active /\ s \in DriveCommands
  BY <1>1 DEF RunSequence, EnterEntry, RunEntry, EntriesDone, RunChild,
              EndTurn, Turn, Active, SchedulerTypeOK, DriveCommands
<1>3. UNCHANGED <<held, enabled, mainLoop>>
  BY DEF RunSequence
<1>4. LoopTypeOK'
  BY <1>1, <1>3 DEF LoopTypeOK, mainLoop
<1>5. ASSUME UNCHANGED <<torun, active, started, additions, phase, poll, last>>
      PROVE  SchedulerTypeOK'
  BY <1>1, <1>3, <1>5 DEF SchedulerTypeOK
<1>6. aiming = "aiming" => stable_count_ < StableCountReq
  BY DEF CountInv
<1>7. CASE EnterEntry(s) /\ UNCHANGED <<phase, poll, last>>
  <2>1. /\ EndParts(ChildrenInTheWay(EntryOf(s).command))
        /\ UNCHANGED <<torun, started, active, additions, turn, todo, lights,
                       counters>>
        /\ entry <= Len(Entries[s]) /\ turn = "entries"
    BY <1>7 DEF EnterEntry, Turn
  <2>2. PartTypeOK'
    BY <1>1, <2>1, EndTypes
  <2>3. todo = {}
    BY <1>2, <2>1 DEF Control, GroupInv, GroupOf
  <2>4. ChildrenInTheWay(EntryOf(s).command) \subseteq children
    BY DEF ChildrenInTheWay
  <2>5. EntryOf(s).parallel => EntryOf(s).command \in ParallelParts
    BY <1>2, <2>1, GroupParts
  <2>6. /\ entry' \in {entry, entry + 1}
        /\ leaf' \in {leaf, "entered"}
        /\ children' \subseteq ParallelParts
    BY <1>1, <1>7, <2>4, <2>5 DEF EnterEntry, GroupTypeOK
  <2>7. GroupTypeOK'
    BY <1>1, <2>1, <2>3, <2>6 DEF GroupTypeOK
  <2> QED
    BY <1>4, <1>5, <1>7, <2>1, <2>2, <2>7, TypePartsNext
<1>8. CASE RunEntry(s) /\ UNCHANGED <<phase, poll, last>>
  <2> DEFINE c == EntryOf(s).command
  <2>1. PICK done \in BOOLEAN :
          /\ RunPart(c, leaf = "entered", done)
          /\ IF done
             THEN /\ entry' = entry + 1
                  /\ leaf' = "fresh"
                  /\ UNCHANGED <<turn, todo>>
             ELSE /\ leaf' = "running"
                  /\ turn' = "children"
                  /\ todo' = children
                  /\ UNCHANGED entry
    BY <1>8 DEF RunEntry
  <2>2. /\ leaf # "fresh"
        /\ UNCHANGED <<torun, started, active, additions, children>>
    BY <1>8 DEF RunEntry
  <2>3. leaf # "entered" => leaf = "running"
    BY <1>1, <2>2 DEF GroupTypeOK
  <2>4. leaf # "entered" /\ c \in SoleDrives =>
          stable_count_ < StableCountReq
    BY <1>2, <2>3 DEF CountInv, Runs
  <2>5. PartTypeOK'
    BY <1>1, <1>6, <2>1, <2>4, PartTypes
  <2>6. GroupTypeOK'
    BY <1>1, <2>1, <2>2 DEF GroupTypeOK
  <2> QED
    BY <1>4, <1>5, <1>8, <2>2, <2>5, <2>6, TypePartsNext
<1>9. CASE EntriesDone(s) /\ UNCHANGED <<phase, poll, last>>
  <2>1. PartTypeOK'
    BY <1>1, <1>9
    DEF EntriesDone, PartTypeOK, motors, lights, command, counters
  <2>2. GroupTypeOK'
    BY <1>1, <1>9 DEF EntriesDone, GroupTypeOK
  <2> QED
    BY <1>4, <1>5, <1>9, <2>1, <2>2, TypePartsNext DEF EntriesDone
<1>10. ASSUME NEW c \in todo, RunChild(s, c), UNCHANGED <<phase, poll, last>>
       PROVE  TypeOK'
  <2>1. PICK done \in BOOLEAN :
          /\ RunParallelPart(c, done)
          /\ children' = IF done THEN children \ {c} ELSE children
    BY <1>10 DEF RunChild
  <2>2. /\ todo' = todo \ {c}
        /\ UNCHANGED <<torun, started, active, additions, entry, leaf, turn>>
    BY <1>10 DEF RunChild
  <2>3. c \in ParallelParts
    BY <1>1 DEF GroupTypeOK
  <2>4. c \notin SoleDrives
    BY <2>3 DEF ParallelParts, SoleDrives, AutonDrives, InstantCommands
  <2>5. RunPart(c, TRUE, done)
    BY <2>1, Zenon DEF RunPart
  <2>6. PartTypeOK'
    BY <1>1, <1>6, <2>4, <2>5, PartTypes
  <2>7. GroupTypeOK'
    BY <1>1, <2>1, <2>2 DEF GroupTypeOK
  <2> QED
    BY <1>4, <1>5, <1>10, <2>2, <2>6, <2>7, TypePartsNext
<1>11. CASE EndTurn(s)
  <2>1. UNCHANGED <<motors, lights, aiming>> /\ (UNCHANGED counters \/ Forget)
    BY <1>11 DEF EndTurn
  <2>2. PartTypeOK'
    <3>1. UNCHANGED <<settings, setpoint, gyro_disabled_, zeroLag, camera,
                      gearLight, aiming>>
      BY <2>1 DEF motors, lights
    <3>2. /\ zero_count_' \in {zero_count_, 0}
          /\ stable_count_' \in {stable_count_, 0}
      BY <2>1 DEF Forget, counters
    <3>3. is_initialized_' \in BOOLEAN /\ is_cruising_' \in BOOLEAN
      BY <1>1, <2>1 DEF Forget, counters, PartTypeOK
    <3> QED
      BY <1>1, <3>1, <3>2, <3>3
      DEF PartTypeOK, StableCountReq, DriveZeroCountReq
  <2>3. GroupTypeOK'
    BY <1>1, <1>11 DEF EndTurn, LeaveGroup, GroupTypeOK
  <2>4. KeepRunning(s) \/ Finish(s, additions)
    BY <1>11 DEF EndTurn
  <2>5. SchedulerTypeOK'
    BY <1>1, <1>2, <1>3, <2>4, SchedulerTypes DEF SchedulerStep
  <2> QED
    BY <1>4, <2>2, <2>3, <2>5, TypePartsNext
<1> QED
  BY <1>7, <1>8, <1>9, <1>10, <1>11 DEF RunSequence

\* No step takes a variable out of its type.
LEMMA TypeStep == ASSUME Control, CountInv, [Next]_vars PROVE TypeOK'
<1>1. TypeOK /\ PartTypeOK /\ GroupTypeOK /\ SchedulerTypeOK /\ LoopTypeOK
  BY TypeParts DEF Control
<1>2. ASSUME UNCHANGED group PROVE GroupTypeOK'
  BY <1>1, <1>2 DEF group, GroupTypeOK
<1>3. ASSUME UNCHANGED <<motors, lights, command>> PROVE PartTypeOK'
  BY <1>1, <1>3 DEF motors, lights, command, counters, PartTypeOK
<1>4. ASSUME UNCHANGED mainLoop PROVE LoopTypeOK'
  BY <1>1, <1>4 DEF mainLoop, LoopTypeOK
<1>5. ASSUME NEW S, Interrupt(S) PROVE PartTypeOK' /\ GroupTypeOK'
  <2>1. /\ \E P : EndParts(P)
        /\ UNCHANGED lights /\ (UNCHANGED counters \/ Forget)
        /\ UNCHANGED group \/ LeaveGroup
    BY <1>5 DEF Interrupt
  <2>2. PartTypeOK'
    BY <1>1, <2>1, EndTypes
  <2> QED
    BY <1>1, <2>1, <2>2 DEF group, LeaveGroup, GroupTypeOK
<1>6. CASE DriverStation
  <2>1. SchedulerTypeOK'
    BY <1>1, <1>6
    DEF DriverStation, ToggleButton, ToggleEnabled, SchedulerTypeOK
  <2>2. LoopTypeOK'
    BY <1>1, <1>6, Zenon DEF DriverStation, LoopTypeOK
  <2> QED
    BY <1>2, <1>3, <1>6, <2>1, <2>2, TypePartsNext DEF DriverStation
<1>7. CASE ChooseMode
  <2>1. additions' \in Seq(DriveCommands)
    <3>1. /\ additions \in Seq(DriveCommands)
          /\ AutonSequences \subseteq DriveCommands
          /\ "StopShooting" \in DriveCommands
      BY <1>1, CommandFacts DEF SchedulerTypeOK
    <3>2. \/ additions' = additions
          \/ \E c \in DriveCommands : additions' = Enqueue(c)
      BY <1>7, <3>1
      DEF ChooseMode, DisabledCycle, AutonomousCycle, TeleopCycle
    <3> QED
      BY <3>1, <3>2, EnqueueStep
  <2>2. SchedulerTypeOK'
    BY <1>1, <1>7, <2>1 DEF ChooseMode, SchedulerTypeOK
  <2>3. LoopTypeOK'
    <3>1. mode' \in {"disabled", "auton", "teleop"} /\ period' = period
      BY <1>7 DEF ChooseMode, DisabledCycle, AutonomousCycle, TeleopCycle
    <3>2. modeChecked' \in BOOLEAN
      BY <1>7, Zenon DEF ChooseMode
    <3> QED
      BY <1>1, <3>1, <3>2 DEF LoopTypeOK
  <2>4. PartTypeOK'
    <3>1. UNCHANGED <<settings, gyro_disabled_, zeroLag, lights, command>>
      BY <1>7 DEF ChooseMode
    <3>2. setpoint' \in {setpoint, "stop"}
      BY <1>7 DEF ChooseMode, DisabledCycle, AutonomousCycle, TeleopCycle,
                  DisabledSetpoint
    <3> QED
      BY <1>1, <3>1, <3>2 DEF lights, command, counters, PartTypeOK
  <2> QED
    BY <1>2, <1>7, <2>2, <2>3, <2>4, TypePartsNext DEF ChooseMode
<1>8. CASE CyclePoll
  <2>1. SchedulerTypeOK'
    BY <1>1, <1>8, SchedulerTypes DEF CyclePoll, SchedulerStep
  <2> QED
    BY <1>2, <1>3, <1>4, <1>8, <2>1, TypePartsNext DEF CyclePoll
<1>9. ASSUME NEW c \in DriveCommands, CycleCancel(c) PROVE TypeOK'
  <2>1. SchedulerTypeOK'
    BY <1>1, <1>9, SchedulerTypes DEF CycleCancel, SchedulerStep
  <2> QED
    BY <1>4, <1>5, <1>9, <2>1, TypePartsNext DEF CycleCancel
<1>10. ASSUME NEW c \in DriverCommands, RunDriverCommand(c) PROVE TypeOK'
  <2>1. /\ KeepRunning(c) \/ Finish(c, additions)
        /\ UNCHANGED <<held, enabled, mainLoop, group>>
    BY <1>10 DEF RunDriverCommand, Goes
  <2>2. SchedulerTypeOK'
    BY <1>1, <2>1, SchedulerTypes, CommandFacts DEF SchedulerStep
  <2>3. PartTypeOK'
    <3>1. CASE \E done \in BOOLEAN : RunStartShooting(done)
      BY <1>1, <3>1, ShootTypes DEF CountInv
    <3>2. CASE UNCHANGED <<motors, lights, command>>
      BY <1>3, <3>2
    <3>3. CASE /\ settings' \in {settings, "drive"}
               /\ setpoint' \in {setpoint, "stop", "DriveTeleOp"}
               /\ UNCHANGED gyro_disabled_
               /\ zeroLag' \in {zeroLag, ZeroLag}
               /\ UNCHANGED <<lights, command>>
      BY <1>1, <3>3, DriveAssumption
      DEF PartTypeOK, lights, command, counters, Setters
    <3> QED
      BY <1>10, <3>1, <3>2, <3>3
      DEF RunDriverCommand, TeleOpSettings, ZeroPosition
  <2> QED
    BY <1>2, <1>4, <2>1, <2>2, <2>3, TypePartsNext
<1>11. ASSUME NEW s \in AutonSequences, RunSequence(s) PROVE TypeOK'
  BY <1>11, SequenceTypes
<1>12. CASE CycleAdd
  <2>1. SchedulerTypeOK'
    <3>1. SchedulerStep /\ UNCHANGED <<held, enabled>>
      BY <1>12, CommandFacts
      DEF CycleAdd, SchedulerStep, DrivingCommands
    <3> QED
      BY <1>1, <3>1, SchedulerTypes
  <2>2. LoopTypeOK'
    BY <1>1, <1>12, Zenon DEF CycleAdd, LoopTypeOK
  <2>3. PartTypeOK' /\ GroupTypeOK'
    <3>1. CASE UNCHANGED <<motors, lights, group, command>>
      BY <1>2, <1>3, <3>1
    <3>2. CASE \E c \in DriveCommands : Interrupt(InTheWay(c))
      BY <1>5, <3>2
    <3>3. CASE /\ zeroLag' = IF zeroLag > 0 THEN zeroLag - 1 ELSE 0
               /\ UNCHANGED <<settings, setpoint, gyro_disabled_, lights, group,
                              command>>
      <4>1. zeroLag' \in 0 .. ZeroLag
        BY <1>1, <3>3, DriveAssumption DEF PartTypeOK
      <4> QED
        BY <1>1, <1>2, <3>3, <4>1 DEF PartTypeOK, lights, command, counters
    <3> QED
      BY <1>12, <3>1, <3>2, <3>3 DEF CycleAdd
  <2> QED
    BY <2>1, <2>2, <2>3, TypePartsNext
<1>13. CASE UNCHANGED vars
  <2>1. UNCHANGED <<mainLoop, motors, lights, group, command>>
    BY <1>13 DEF vars
  <2>2. SchedulerTypeOK'
    BY <1>1, <1>13 DEF vars, SchedulerTypeOK
  <2> QED
    BY <1>2, <1>3, <1>4, <2>1, <2>2, TypePartsNext
<1> QED
  BY <1>6, <1>7, <1>8, <1>9, <1>10, <1>11, <1>12, <1>13 DEF Next

-----------------------------------------------------------------------------
(* The scheduler and the main loop keep their part of the invariant *)

\* Whatever a cycle does: the active commands lose some, or one comes in place
\* of those in its way.
LEMMA ActiveStep ==
  ASSUME [Next]_vars
  PROVE  \/ active' \subseteq active
         \/ \E c \in DriveCommands : active' = (active \ InTheWay(c)) \cup {c}
<1>1. CASE DriverStation \/ ChooseMode \/ CyclePoll \/ UNCHANGED vars
  BY <1>1 DEF DriverStation, ChooseMode, CyclePoll, PollButton, BeginRun, vars
<1>2. ASSUME NEW c \in DriveCommands, CycleCancel(c)
      PROVE  active' \subseteq active
  BY <1>2 DEF CycleCancel, CancelDisabled
<1>3. ASSUME NEW c \in DriverCommands, RunDriverCommand(c)
      PROVE  active' \subseteq active
  BY <1>3 DEF RunDriverCommand, Goes, KeepRunning, Finish
<1>4. ASSUME NEW s \in AutonSequences, RunSequence(s)
      PROVE  active' \subseteq active
  BY <1>4 DEF RunSequence, EnterEntry, RunEntry, EntriesDone, RunChild, EndTurn,
              KeepRunning, Finish
<1>5. CASE CycleAdd
  <2>1. CASE InsertDefault("DriveTeleOp")
    <3>1. "DriveTeleOp" \in DriveCommands
      BY DEF DriveCommands, DriverCommands
    <3>2. active' = (active \ InTheWay("DriveTeleOp")) \cup {"DriveTeleOp"}
      BY <2>1 DEF InsertDefault
    <3> QED
      BY <3>1, <3>2
  <2>2. ASSUME NEW c \in DriveCommands, Insert(c)
        PROVE  active' = (active \ InTheWay(c)) \cup {c}
    BY <2>2 DEF Insert
  <2>3. CASE BeginAdd \/ EndCycle \/ \E c \in DriveCommands : Ignore(c)
    BY <2>3 DEF BeginAdd, EndCycle, Ignore
  <2> QED
    BY <1>5, <2>1, <2>2, <2>3 DEF CycleAdd
<1> QED
  BY <1>1, <1>2, <1>3, <1>4, <1>5 DEF Next

\* A command is started by running it.
LEMMA StartedStep ==
  ASSUME [Next]_vars
  PROVE  \/ started' \subseteq started
         \/ \E c \in torun :
              /\ phase = "run" /\ enabled
              /\ started' = started \cup {c} /\ active' = active
              /\ torun' = torun \ {c}
              /\ \/ c \in DriverCommands \ {"DisableBrake"} /\ RunDriverCommand(c)
                 \/ c \in AutonSequences /\ EndTurn(c)
<1>1. CASE DriverStation \/ ChooseMode \/ CyclePoll \/ UNCHANGED vars
  BY <1>1 DEF DriverStation, ChooseMode, CyclePoll, PollButton, BeginRun, vars
<1>2. ASSUME NEW c \in DriveCommands, CycleCancel(c)
      PROVE  started' \subseteq started
  BY <1>2 DEF CycleCancel, CancelDisabled
<1>3. ASSUME NEW c \in DriverCommands, RunDriverCommand(c)
      PROVE  \/ started' \subseteq started
             \/ c # "DisableBrake" /\ KeepRunning(c)
  BY <1>3 DEF RunDriverCommand, Goes, Finish
<1>4. ASSUME NEW s \in AutonSequences, RunSequence(s)
      PROVE  \/ started' \subseteq started
             \/ KeepRunning(s) /\ EndTurn(s)
  BY <1>4 DEF RunSequence, EnterEntry, RunEntry, EntriesDone, RunChild, EndTurn,
              Finish
<1>5. ASSUME CycleAdd PROVE started' \subseteq started
  BY <1>5 DEF CycleAdd, BeginAdd, EndCycle, Ignore, Insert, InsertDefault
<1>6. \A c : KeepRunning(c) =>
        /\ c \in torun /\ phase = "run" /\ enabled
        /\ started' = started \cup {c} /\ active' = active
        /\ torun' = torun \ {c}
  BY DEF KeepRunning
<1>7. [Next]_vars =>
        \/ DriverStation \/ ChooseMode \/ CyclePoll \/ UNCHANGED vars
        \/ \E c \in DriveCommands : CycleCancel(c)
        \/ \E c \in DriverCommands : RunDriverCommand(c)
        \/ \E s \in AutonSequences : RunSequence(s)
        \/ CycleAdd
  BY DEF Next
<1> QED
  BY <1>1, <1>2, <1>3, <1>4, <1>5, <1>6, <1>7

LEMMA NoConflictStep == ASSUME Control, [Next]_vars PROVE NoConflict'
<1>1. active \subseteq DriveCommands /\ started \subseteq active
  BY DEF Control, TypeOK, SchedulerTypeOK
<1>2. \A c, d \in active : c # d => ~Conflicts(c, d)
  BY DEF Control, NoConflict
<1>3. \A c, d \in active' : c # d => ~Conflicts(c, d)
  <2>1. CASE active' \subseteq active
    BY <1>2, <2>1
  <2>2. ASSUME NEW e \in DriveCommands, active' = (active \ InTheWay(e)) \cup {e}
        PROVE  \A c, d \in active' : c # d => ~Conflicts(c, d)
    <3>1. \A d \in active \ InTheWay(e) : ~Conflicts(e, d) /\ ~Conflicts(d, e)
      BY DEF InTheWay, Conflicts
    <3> QED
      BY <1>2, <2>2, <3>1
  <2> QED
    BY <2>1, <2>2, ActiveStep
<1>4. "DisableBrake" \notin started'
  <2>1. "DisableBrake" \notin started
    BY DEF Control, NoConflict
  <2>2. "DisableBrake" \notin AutonSequences
    BY CommandFacts DEF DrivingCommands
  <2> QED
    BY <2>1, <2>2, StartedStep
<1>5. \A c, d : Conflicts(c, d)' <=> Conflicts(c, d)
  BY DEF Conflicts
<1> QED
  BY <1>3, <1>4, <1>5 DEF NoConflict

LEMMA ModeStep == ASSUME Control, [Next]_vars PROVE ModeInv'
<1> USE DEF Control, ModeInv
<1>1. CASE DriverStation
  BY <1>1 DEF DriverStation, BetweenCycles, ToggleButton, ToggleEnabled,
              PacketMayArrive
<1>2. CASE ChooseMode
  BY <1>2 DEF ChooseMode, DisabledCycle, AutonomousCycle, TeleopCycle
<1>3. CASE CyclePoll
  BY <1>3 DEF CyclePoll, mainLoop
<1>4. ASSUME phase = "run", UNCHANGED <<enabled, mainLoop>>
      PROVE  ModeInv'
  BY <1>4 DEF mainLoop
<1>5. ASSUME NEW c \in DriveCommands, CycleCancel(c) PROVE ModeInv'
  BY <1>4, <1>5 DEF CycleCancel, CancelDisabled
<1>6. ASSUME NEW c \in DriverCommands, RunDriverCommand(c) PROVE ModeInv'
  BY <1>4, <1>6 DEF RunDriverCommand, Goes, KeepRunning, Finish
<1>7. ASSUME NEW s \in AutonSequences, RunSequence(s) PROVE ModeInv'
  BY <1>4, <1>7
  DEF RunSequence, EnterEntry, RunEntry, EntriesDone, RunChild, EndTurn, Turn
<1>8. CASE CycleAdd
  BY <1>8 DEF CycleAdd, BeginAdd, EndCycle, Ignore, Insert, InsertDefault
<1>9. CASE UNCHANGED vars
  BY <1>9 DEF vars, mainLoop
<1> QED
  BY <1>1, <1>2, <1>3, <1>5, <1>6, <1>7, <1>8, <1>9 DEF Next

LEMMA OneSequenceStep == ASSUME Control, [Next]_vars PROVE OneSequence'
<1> DEFINE Off == mode \in {"none", "disabled"}
<1>1. /\ \A s, t \in AutonSequences : Present(s) /\ Present(t) => s = t
      /\ Off => /\ \A s \in AutonSequences : ~Queued(s)
                /\ ~modeChecked \/ phase = "add" => Active = {}
                /\ phase = "run" => Active \subseteq torun
  BY DEF Control, OneSequence
<1>2. TypeOK /\ SchedulerTypeOK /\ ModeInv
  BY DEF Control, TypeOK
<1>3. /\ additions \in Seq(DriveCommands) /\ active \subseteq DriveCommands
      /\ torun \subseteq active /\ started \subseteq active
  BY <1>2 DEF SchedulerTypeOK
<1>4. AutonSequences \cap DriverCommands = {}
  BY CommandFacts
\* What is enough for the first half: no sequence is queued or activated that
\* was not before.
<1>5. ASSUME \A s \in AutonSequences : Present(s)' => Present(s)
      PROVE  \A s, t \in AutonSequences : Present(s)' /\ Present(t)' => s = t
  BY <1>1, <1>5
<1>6. ASSUME additions' = additions PROVE \A c : Queued(c)' <=> Queued(c)
  BY <1>6 DEF Queued
<1>7. ASSUME additions' = additions, active' \subseteq active
      PROVE  \A s \in AutonSequences : Present(s)' => Present(s)
  BY <1>6, <1>7 DEF Present
<1>8. ASSUME phase = "run", enabled, UNCHANGED <<additions, mainLoop>>,
             active' \subseteq active
      PROVE  OneSequence'
  <2>1. ~Off
    BY <1>2, <1>8 DEF ModeInv
  <2>2. mode' = mode
    BY <1>8 DEF mainLoop
  <2> QED
    BY <1>5, <1>7, <1>8, <2>1, <2>2 DEF OneSequence
<1>9. CASE DriverStation \/ UNCHANGED vars
  <2>1. UNCHANGED <<additions, active, mode, modeChecked, phase, torun>>
    BY <1>9 DEF DriverStation, vars, mainLoop
  <2> QED
    BY <1>1, <1>5, <1>6, <1>7, <2>1 DEF OneSequence, Active
<1>10. CASE ChooseMode
  <2>1. /\ UNCHANGED <<active, phase, torun>> /\ modeChecked' = TRUE
        /\ phase = "poll" /\ ~modeChecked
    BY <1>10 DEF ChooseMode, BetweenCycles, PacketMayArrive
  <2>2. \A c : ~Queued(c)
    BY <1>2, <2>1 DEF ModeInv, Queued
  <2>3. CASE DisabledCycle
    <3>1. additions' = additions
      BY <2>3 DEF DisabledCycle
    <3> QED
      BY <1>5, <1>6, <1>7, <2>1, <2>2, <3>1 DEF OneSequence
  <2>4. CASE AutonomousCycle
    <3>1. mode' = "auton" /\ period = "auton"
      BY <2>4 DEF AutonomousCycle
    <3>2. CASE additions' = additions
      BY <1>5, <1>7, <2>1, <3>1, <3>2 DEF OneSequence
    <3>3. ASSUME mode # "auton", NEW s \in AutonSequences, additions' = Enqueue(s)
          PROVE  OneSequence'
      <4>1. Active = {}
        BY <1>1, <1>2, <2>1, <3>1, <3>3 DEF ModeInv, TypeOK
      <4>2. \A d : Queued(d)' => d = s
        BY <1>3, <2>2, <3>3, EnqueueStep DEF DriveCommands
      <4>3. \A t \in AutonSequences : Present(t)' => t = s
        BY <2>1, <4>1, <4>2 DEF Present, Active
      <4> QED
        BY <3>1, <4>3 DEF OneSequence
    <3> QED
      BY <2>4, <3>2, <3>3 DEF AutonomousCycle
  <2>5. CASE TeleopCycle
    <3>1. mode' = "teleop"
      BY <2>5 DEF TeleopCycle
    <3>2. \A d : Queued(d)' => d = "StopShooting"
      <4>1. "StopShooting" \in DriveCommands
        BY DEF DriveCommands, DriverCommands
      <4>2. additions' = additions \/ additions' = Enqueue("StopShooting")
        BY <2>5 DEF TeleopCycle
      <4> QED
        BY <1>3, <1>6, <2>2, <4>1, <4>2, EnqueueStep
    <3>3. \A s \in AutonSequences : Present(s)' => Present(s)
      BY <1>4, <2>1, <3>2 DEF Present, DriverCommands
    <3> QED
      BY <1>5, <3>1, <3>3 DEF OneSequence
  <2> QED
    BY <1>10, <2>3, <2>4, <2>5 DEF ChooseMode
<1>11. CASE CyclePoll
  <2>1. UNCHANGED <<mode, modeChecked, active>> /\ modeChecked /\ phase = "poll"
    BY <1>11 DEF CyclePoll, PollButton, BeginRun, mainLoop
  <2>2. CASE PollButton
    <3>1. poll \in 1 .. 4 /\ phase' = "poll"
      BY <1>2, <2>2, BindingFacts DEF PollButton, SchedulerTypeOK
    <3>2. DriveBindings[poll].command \in DriverCommands
      BY <3>1, BindingFacts
    <3>3. \A s \in AutonSequences : Queued(s)' => Queued(s)
      <4>1. \/ additions' = additions
            \/ additions' = Enqueue(DriveBindings[poll].command)
        BY <2>2 DEF PollButton
      <4>2. DriveBindings[poll].command \in DriveCommands
        BY <3>2 DEF DriveCommands
      <4> QED
        BY <1>3, <1>4, <1>6, <3>2, <4>1, <4>2, EnqueueStep
    <3>4. \A s \in AutonSequences : Present(s)' => Present(s)
      BY <2>1, <3>3 DEF Present
    <3> QED
      BY <1>1, <1>5, <2>1, <3>1, <3>3, <3>4 DEF OneSequence
  <2>3. CASE BeginRun
    <3>1. phase' = "run" /\ torun' = active /\ additions' = additions
      BY <2>3 DEF BeginRun
    <3>2. Active' \subseteq torun'
      BY <2>1, <3>1 DEF Active
    <3> QED
      BY <1>1, <1>5, <1>6, <1>7, <2>1, <3>1, <3>2 DEF OneSequence
  <2> QED
    BY <1>11, <2>2, <2>3 DEF CyclePoll
<1>12. ASSUME NEW c \in DriveCommands, CycleCancel(c) PROVE OneSequence'
  <2>1. /\ phase = "run" /\ phase' = "run"
        /\ active' = active \ {c} /\ torun' = torun \ {c}
        /\ UNCHANGED <<additions, mode, modeChecked>>
    BY <1>12 DEF CycleCancel, CancelDisabled, mainLoop
  <2>2. mode = "none" => ~modeChecked
    BY <1>2 DEF ModeInv
  <2>3. modeChecked
    BY <1>2, <2>1 DEF ModeInv
  <2>4. Off => Active' \subseteq torun'
    BY <1>1, <2>1 DEF Active
  <2> QED
    BY <1>1, <1>5, <1>6, <1>7, <2>1, <2>3, <2>4 DEF OneSequence
<1>13. ASSUME NEW c \in DriverCommands, RunDriverCommand(c) PROVE OneSequence'
  BY <1>8, <1>13 DEF RunDriverCommand, Goes, KeepRunning, Finish
<1>14. ASSUME NEW s \in AutonSequences, RunSequence(s) PROVE OneSequence'
  <2>1. phase = "run" /\ enabled
    BY <1>14 DEF RunSequence, EnterEntry, RunEntry, EntriesDone, RunChild,
                 EndTurn, Turn
  <2>2. UNCHANGED <<additions, mainLoop>> /\ active' \subseteq active
    BY <1>14 DEF RunSequence, EnterEntry, RunEntry, EntriesDone, RunChild,
                 EndTurn, KeepRunning, Finish
  <2> QED
    BY <1>8, <2>1, <2>2
<1>15. CASE CycleAdd
  <2>1. mode' = mode
    BY <1>15 DEF CycleAdd
  <2>2. \A s \in AutonSequences : /\ Queued(s)' => Queued(s)
                                  /\ s \in active' => s \in active \/ Queued(s)
    <3>1. CASE BeginAdd \/ EndCycle
      BY <1>6, <3>1 DEF BeginAdd, EndCycle
    <3>2. CASE InsertDefault("DriveTeleOp")
      BY <1>4, <1>6, <3>2 DEF InsertDefault, DriverCommands
    <3>3. ASSUME NEW c \in DriveCommands, Ignore(c) \/ Insert(c)
          PROVE  \A s \in AutonSequences :
                   /\ Queued(s)' => Queued(s)
                   /\ s \in active' => s \in active \/ Queued(s)
      <4>1. /\ additions # <<>> /\ c = Head(additions)
            /\ additions' = Tail(additions)
            /\ active' \subseteq active \cup {c}
        BY <3>3 DEF Ignore, Insert
      <4> QED
        BY <1>3, <4>1, DequeueStep
    <3> QED
      BY <1>15, <3>1, <3>2, <3>3 DEF CycleAdd
  <2>3. \A s \in AutonSequences : Present(s)' => Present(s)
    BY <2>2 DEF Present
  <2>4. Off => Active' = {}
    <3>1. phase = "add" \/ (phase = "run" /\ torun = {})
      BY <1>15 DEF CycleAdd, BeginAdd, EndCycle, Ignore, Insert, InsertDefault
    <3> QED
      BY <1>1, <2>2, <3>1 DEF Active
  <2>5. Off => \A s \in AutonSequences : ~Queued(s)'
    BY <1>1, <2>2
  <2>6. phase' # "run"
    BY <1>15 DEF CycleAdd, BeginAdd, EndCycle, Ignore, Insert, InsertDefault
  <2> QED
    BY <1>5, <2>1, <2>3, <2>4, <2>5, <2>6 DEF OneSequence
<1> QED
  BY <1>9, <1>10, <1>11, <1>12, <1>13, <1>14, <1>15 DEF Next

-----------------------------------------------------------------------------
(* The sequence keeps its part of the invariant *)

\* A sequence, none of which entries is begun.
LEMMA GroupLeft == ASSUME GroupIdle' PROVE GroupInv' /\ FirstTurn'
<1>1. ASSUME NEW s \in AutonSequences PROVE Len(Entries[s]) \in Nat
  BY CommandFacts, EntryFacts DEF WellFormed
<1>2. ASSUME NEW s \in AutonSequences PROVE GroupOf(s)' /\ FirstTurnOf(s)'
  BY <1>1 DEF GroupIdle, GroupOf, FirstTurnOf, Runs
<1> QED
  BY <1>2 DEF GroupInv, FirstTurn, Active

\* Whatever happens between two turns of the sequence.
LEMMA GroupQuiet ==
  ASSUME Control, UNCHANGED group, \A s \in Active : ~MidTurn(s),
         Active' = {} => Active = {},
         \/ Active = {}
         \/ Active' \subseteq Active /\ started \cap Active' \subseteq started'
  PROVE  GroupInv' /\ FirstTurn'
<1>1. CASE Active = {}
  <2>1. GroupIdle
    BY <1>1 DEF Control, GroupInv
  <2>2. GroupIdle'
    BY <2>1 DEF GroupIdle, group
  <2> QED
    BY <2>2, GroupLeft
<1>2. CASE Active' # {} /\ Active' \subseteq Active
           /\ started \cap Active' \subseteq started'
  <2>1. UNCHANGED <<entry, leaf, children, turn, todo>>
    BY DEF group
  <2>2. ASSUME NEW s \in Active' PROVE GroupOf(s)'
    <3>1. GroupOf(s) /\ ~MidTurn(s)
      BY <1>2 DEF Control, GroupInv
    <3> QED
      BY <2>1, <3>1 DEF GroupOf, EntryOf
  <2>3. ASSUME NEW s \in Active' \ started' PROVE FirstTurnOf(s)'
    <3>1. s \in Active \ started
      BY <1>2
    <3>2. GroupIdle
      BY <3>1 DEF Control, FirstTurn, FirstTurnOf
    <3>3. GroupIdle'
      BY <2>1, <3>2 DEF GroupIdle
    <3> QED
      BY <3>3 DEF GroupIdle, FirstTurnOf, Runs
  <2> QED
    BY <1>2, <2>2, <2>3 DEF GroupInv, FirstTurn
<1> QED
  BY <1>1, <1>2

\* An entry of a sequence that has not driven yet does not drive, unless it is
\* a drive.
LEMMA DrivesFirst ==
  ASSUME NEW s \in AutonSequences, NEW e \in 1 .. Len(Entries[s]),
         \A i \in 1 .. e - 1 : ~NeedsDrive(CommandAt(s, i)),
         NeedsDrive(CommandAt(s, e))
  PROVE  CommandAt(s, e) \in AutonDrives
<1>1. WellFormed(Entries[s]) /\ Entries[s][e] \in KnownEntries
  BY CommandFacts, EntryFacts DEF WellFormed
<1>2. CommandAt(s, e) \in ParallelParts \cup SequentialParts
  BY <1>1 DEF KnownEntries, Then, Beside, CommandAt
<1>3. CommandAt(s, e) \in DrivingParts
  BY <1>2, PartFacts
<1>4. \A c \in AutonDrives : NeedsDrive(c)
  BY DEF NeedsDrive, EntryRequires, AutonDrives
<1>5. CommandAt(s, e) \notin {"GyroAzimuth", "PlaceGear", "StartShooting"}
  <2>1. SUFFICES ASSUME CommandAt(s, e) \in
                          {"GyroAzimuth", "PlaceGear", "StartShooting"}
                 PROVE  FALSE
    OBVIOUS
  <2>2. \E j \in 1 .. e - 1 : CommandAt(s, j) \in AutonDrives
    BY <1>1, <2>1 DEF WellFormed, CommandAt
  <2> QED
    BY <1>4, <2>2
<1> QED
  BY <1>3, <1>5 DEF DrivingParts

\* While its sequence takes its turn nothing of the scheduler changes.
LEMMA TurnFacts ==
  ASSUME Control, NEW s \in AutonSequences, RunSequence(s)
  PROVE  /\ s \in torun /\ MidTurn(s) /\ Active = {s}
         /\ \/ EndTurn(s)
            \/ UNCHANGED <<phase, poll, last, torun, started, active, additions>>
         /\ UNCHANGED <<held, enabled, mainLoop>>
<1>1. MidTurn(s) /\ torun = {s}
  BY DEF RunSequence, EnterEntry, RunEntry, EntriesDone, RunChild, EndTurn,
         Turn, MidTurn
<1>2. s \in Active /\ \A t \in Active : t = s
  BY <1>1 DEF Control, TypeOK, SchedulerTypeOK, Active, OneSequence, Present
<1>3. \/ EndTurn(s)
      \/ UNCHANGED <<phase, poll, last, torun, started, active, additions>>
  BY DEF RunSequence, EnterEntry, RunEntry, EntriesDone, RunChild
<1> QED
  BY <1>1, <1>2, <1>3 DEF RunSequence

\* In the middle of the turn it is enough to look at the sequence itself.
LEMMA TurnGoesOn ==
  ASSUME NEW s, Active = {s}, GroupOf(s)',
         UNCHANGED <<started, active>>,
         s \notin started => FirstTurnOf(s)'
  PROVE  GroupInv' /\ FirstTurn'
<1>1. Active' = {s}
  BY DEF Active
<1> QED
  BY <1>1 DEF GroupInv, FirstTurn

LEMMA EnterKeepsGroup ==
  ASSUME Control, NEW s \in AutonSequences, RunSequence(s), EnterEntry(s)
  PROVE  GroupInv' /\ FirstTurn'
<1> DEFINE c == EntryOf(s).command
<1>1. /\ MidTurn(s) /\ Active = {s} /\ s \in Active
      /\ UNCHANGED <<phase, torun, started, active, enabled>>
  <2>1. UNCHANGED <<torun, started, active>>
    BY DEF EnterEntry
  <2>2. UNCHANGED <<phase, enabled>>
    BY DEF RunSequence, EndTurn, EnterEntry, Turn
  <2> QED
    BY <2>1, <2>2, TurnFacts
<1>2. MidTurn(s)'
  BY <1>1 DEF MidTurn
<1>3. GroupOf(s) /\ (s \notin started => FirstTurnOf(s))
  BY <1>1 DEF Control, GroupInv, FirstTurn
<1>4. /\ entry <= Len(Entries[s]) /\ leaf = "fresh" /\ turn = "entries"
      /\ UNCHANGED <<turn, todo, counters>>
  BY DEF EnterEntry, Turn
<1>5. entry \in Nat \ {0} /\ Len(Entries[s]) \in Nat
  BY <1>1, GroupParts
<1>6. entry \in 1 .. Len(Entries[s]) /\ c = CommandAt(s, entry)
  BY <1>4, <1>5 DEF EntryOf, CommandAt
<1>7. CASE EntryOf(s).parallel
  <2>1. /\ children' \subseteq children \cup {c}
        /\ entry' = entry + 1
        /\ leaf' = leaf
    BY <1>7 DEF EnterEntry
  <2>2. \A d \in children' : \E i \in 1 .. entry' - 1 :
          Entries[s][i].parallel /\ d = CommandAt(s, i)
    <3>1. \A d \in children : \E i \in 1 .. entry - 1 :
            Entries[s][i].parallel /\ d = CommandAt(s, i)
      BY <1>3 DEF GroupOf
    <3>2. Entries[s][entry].parallel /\ entry \in 1 .. entry' - 1
      BY <1>5, <1>7, <2>1 DEF EntryOf
    <3>3. 1 .. entry - 1 \subseteq 1 .. entry' - 1
      BY <1>5, <2>1
    <3> QED
      BY <1>6, <2>1, <3>1, <3>2, <3>3
  <2>3. GroupOf(s)'
    BY <1>2, <1>3, <1>4, <1>5, <2>1, <2>2 DEF GroupOf
  <2>4. ASSUME s \notin started PROVE FirstTurnOf(s)'
    <3>1. \A i \in 1 .. entry - 1 : ~NeedsDrive(CommandAt(s, i))
      BY <1>3, <2>4 DEF FirstTurnOf
    <3>2. ~NeedsDrive(c)
      <4>1. c \in ParallelParts
        BY <1>1, <1>4, <1>7, GroupParts
      <4>2. c \notin AutonDrives
        BY <4>1 DEF ParallelParts, AutonDrives, InstantCommands
      <4> QED
        BY <1>6, <3>1, <4>2, DrivesFirst
    <3>3. \A i \in 1 .. entry' - 1 : ~NeedsDrive(CommandAt(s, i))
      BY <1>5, <1>6, <2>1, <3>1, <3>2
    <3>4. leaf' # "running"
      BY <1>4, <2>1
    <3> QED
      BY <1>2, <3>3, <3>4 DEF FirstTurnOf, Runs
  <2> QED
    BY <1>1, <2>3, <2>4, TurnGoesOn
<1>8. CASE ~EntryOf(s).parallel
  <2>1. /\ children' = children \ ChildrenInTheWay(c)
        /\ entry' = entry
        /\ leaf' = "entered"
    BY <1>8 DEF EnterEntry
  <2>2. NeedsDrive(c) => "StartShooting" \notin children'
    <3>1. "drive" \in EntryRequires("StartShooting")
      BY DEF EntryRequires, AutonDrives
    <3> QED
      BY <2>1, <3>1 DEF ChildrenInTheWay, NeedsDrive
  <2>3. EntryOf(s)' = EntryOf(s)
    BY <2>1 DEF EntryOf
  <2>4. GroupOf(s)'
    BY <1>2, <1>3, <1>4, <1>8, <2>1, <2>2, <2>3 DEF GroupOf
  <2>5. ASSUME s \notin started PROVE FirstTurnOf(s)'
    BY <1>2, <1>3, <2>1, <2>5 DEF FirstTurnOf, Runs
  <2> QED
    BY <1>1, <2>4, <2>5, TurnGoesOn
<1> QED
  BY <1>7, <1>8

LEMMA EntriesDoneKeepsGroup ==
  ASSUME Control, NEW s \in AutonSequences, RunSequence(s), EntriesDone(s)
  PROVE  GroupInv' /\ FirstTurn'
<1>1. /\ MidTurn(s) /\ Active = {s} /\ s \in Active
      /\ UNCHANGED <<phase, torun, started, active, enabled>>
  <2>1. UNCHANGED <<torun, started, active>>
    BY DEF EntriesDone
  <2>2. UNCHANGED <<phase, enabled>>
    BY DEF RunSequence, EndTurn, EntriesDone, Turn
  <2> QED
    BY <2>1, <2>2, TurnFacts
<1>2. MidTurn(s)'
  BY <1>1 DEF MidTurn
<1>3. GroupOf(s) /\ (s \notin started => FirstTurnOf(s))
  BY <1>1 DEF Control, GroupInv, FirstTurn
<1>4. /\ entry > Len(Entries[s]) /\ turn' = "children" /\ todo' = children
      /\ UNCHANGED <<entry, leaf, children>>
  BY DEF EntriesDone
<1>5. entry \in Nat \ {0} /\ Len(Entries[s]) \in Nat
  BY <1>1, GroupParts
<1>6. leaf = "fresh"
  BY <1>3, <1>4, <1>5 DEF GroupOf
<1>7. GroupOf(s)'
  BY <1>2, <1>3, <1>4, <1>6 DEF GroupOf
<1>8. ASSUME s \notin started PROVE FirstTurnOf(s)'
  BY <1>2, <1>3, <1>4, <1>6, <1>8 DEF FirstTurnOf, Runs
<1> QED
  BY <1>1, <1>7, <1>8, TurnGoesOn

LEMMA RunEntryKeepsGroup ==
  ASSUME Control, NEW s \in AutonSequences, RunSequence(s), RunEntry(s)
  PROVE  GroupInv' /\ FirstTurn'
<1> DEFINE c == EntryOf(s).command
<1>1. /\ MidTurn(s) /\ Active = {s} /\ s \in Active
      /\ UNCHANGED <<phase, torun, started, active, enabled>>
  <2>1. UNCHANGED <<torun, started, active>>
    BY DEF RunEntry
  <2>2. UNCHANGED <<phase, enabled>>
    BY DEF RunSequence, EndTurn, RunEntry, Turn
  <2> QED
    BY <2>1, <2>2, TurnFacts
<1>2. MidTurn(s)'
  BY <1>1 DEF MidTurn
<1>3. GroupOf(s) /\ (s \notin started => FirstTurnOf(s))
  BY <1>1 DEF Control, GroupInv, FirstTurn
<1>4. PICK done \in BOOLEAN :
        /\ RunPart(c, leaf = "entered", done)
        /\ IF done
           THEN /\ entry' = entry + 1
                /\ leaf' = "fresh"
                /\ UNCHANGED <<turn, todo>>
           ELSE /\ leaf' = "running"
                /\ turn' = "children"
                /\ todo' = children
                /\ UNCHANGED entry
  BY DEF RunEntry
<1>5. leaf # "fresh" /\ turn = "entries" /\ children' = children
  BY DEF RunEntry, Turn
<1>6. /\ entry \in Nat \ {0} /\ Len(Entries[s]) \in Nat
      /\ entry <= Len(Entries[s]) /\ c \in SequentialParts
  BY <1>1, <1>5, GroupParts
<1>7. entry \in 1 .. Len(Entries[s]) /\ c = CommandAt(s, entry)
  BY <1>6 DEF EntryOf, CommandAt
<1>8. ASSUME s \notin started
      PROVE  /\ leaf = "entered"
             /\ \A i \in 1 .. entry - 1 : ~NeedsDrive(CommandAt(s, i))
             /\ NeedsDrive(c) => c \in AutonDrives
  <2>1. FirstTurnOf(s) /\ leaf \in {"fresh", "entered", "running"}
    BY <1>3, <1>8 DEF Control, TypeOK
  <2>2. leaf = "entered" /\ \A i \in 1 .. entry - 1 : ~NeedsDrive(CommandAt(s, i))
    BY <1>5, <2>1 DEF FirstTurnOf
  <2> QED
    BY <1>7, <2>2, DrivesFirst
\* A drive is not done in its first Run.
<1>9. ASSUME c \in AutonDrives, leaf = "entered"
      PROVE  ~done /\ stable_count_' = 0
  <2>1. RunDrive(TRUE, c = "TimedDrive", done)
    BY <1>4, <1>9 DEF RunPart, RunParallelPart, AutonDrives, InstantCommands
  <2> QED
    BY <2>1 DEF RunDrive
<1>10. CASE done
  <2>1. entry' = entry + 1 /\ leaf' = "fresh" /\ UNCHANGED <<turn, todo>>
    BY <1>4, <1>10
  <2>2. \A d \in children' : \E i \in 1 .. entry' - 1 :
          Entries[s][i].parallel /\ d = CommandAt(s, i)
    BY <1>3, <1>5, <1>6, <2>1 DEF GroupOf
  <2>3. GroupOf(s)'
    BY <1>2, <1>3, <1>5, <1>6, <2>1, <2>2 DEF GroupOf
  <2>4. ASSUME s \notin started PROVE FirstTurnOf(s)'
    <3>1. ~NeedsDrive(c)
      BY <1>8, <1>9, <1>10, <2>4
    <3>2. \A i \in 1 .. entry' - 1 : ~NeedsDrive(CommandAt(s, i))
      BY <1>6, <1>7, <1>8, <2>1, <2>4, <3>1
    <3> QED
      BY <1>2, <2>1, <3>2 DEF FirstTurnOf, Runs
  <2> QED
    BY <1>1, <2>3, <2>4, TurnGoesOn
<1>11. CASE ~done
  <2>1. /\ leaf' = "running" /\ turn' = "children" /\ todo' = children
        /\ entry' = entry
    BY <1>4, <1>11
  <2>2. EntryOf(s)' = EntryOf(s)
    BY <2>1 DEF EntryOf
  <2>3. GroupOf(s)'
    BY <1>2, <1>3, <1>5, <2>1, <2>2 DEF GroupOf
  <2>4. ASSUME s \notin started PROVE FirstTurnOf(s)'
    <3>1. Runs(s, AutonDrives)' => stable_count_' = 0
      BY <1>8, <1>9, <2>2, <2>4 DEF Runs
    <3> QED
      BY <1>2, <1>8, <2>1, <2>4, <3>1 DEF FirstTurnOf
  <2> QED
    BY <1>1, <2>3, <2>4, TurnGoesOn
<1> QED
  BY <1>10, <1>11

\* A child that does not shoot leaves the drive and what was counted alone.
LEMMA ChildLeavesDrive ==
  ASSUME NEW c \in ParallelParts \ {"StartShooting"}, NEW done \in BOOLEAN,
         RunParallelPart(c, done)
  PROVE  UNCHANGED <<motors, command>>
BY DEF ParallelParts, RunParallelPart, RunInstant

LEMMA RunChildKeepsGroup ==
  ASSUME Control, NEW s \in AutonSequences, RunSequence(s), NEW c \in todo,
         RunChild(s, c)
  PROVE  GroupInv' /\ FirstTurn'
<1>1. /\ MidTurn(s) /\ Active = {s} /\ s \in Active
      /\ UNCHANGED <<phase, torun, started, active, enabled>>
  <2>1. UNCHANGED <<torun, started, active>>
    BY DEF RunChild
  <2>2. UNCHANGED <<phase, enabled>>
    BY DEF RunSequence, EndTurn, RunChild, Turn
  <2> QED
    BY <2>1, <2>2, TurnFacts
<1>2. MidTurn(s)'
  BY <1>1 DEF MidTurn
<1>3. GroupOf(s) /\ (s \notin started => FirstTurnOf(s))
  BY <1>1 DEF Control, GroupInv, FirstTurn
<1>4. PICK done \in BOOLEAN :
        /\ RunParallelPart(c, done)
        /\ children' = IF done THEN children \ {c} ELSE children
  BY DEF RunChild
<1>5. turn = "children" /\ UNCHANGED <<entry, leaf, turn>>
  BY DEF RunChild, Turn
<1>6. EntryOf(s)' = EntryOf(s)
  BY <1>5 DEF EntryOf
<1>7. c \in children /\ children' \subseteq children
  BY <1>4 DEF Control, TypeOK
<1>8. GroupOf(s)'
  BY <1>2, <1>3, <1>5, <1>6, <1>7 DEF GroupOf
<1>9. ASSUME s \notin started PROVE FirstTurnOf(s)'
  <2>1. Runs(s, AutonDrives) => stable_count_' = 0
    <3>1. SUFFICES ASSUME Runs(s, AutonDrives) PROVE stable_count_' = 0
      OBVIOUS
    <3>2. NeedsDrive(EntryOf(s).command)
      BY <3>1 DEF Runs, NeedsDrive, EntryRequires, AutonDrives
    <3>3. c \in ParallelParts \ {"StartShooting"}
      BY <1>1, <1>3, <1>7, <3>1, <3>2, GroupParts DEF GroupOf, Runs
    <3>4. stable_count_' = stable_count_
      BY <1>4, <3>3, ChildLeavesDrive DEF command, counters
    <3> QED
      BY <1>3, <1>9, <3>1, <3>4 DEF FirstTurnOf
  <2>2. Runs(s, AutonDrives)' => Runs(s, AutonDrives)
    BY <1>5, <1>6 DEF Runs
  <2>3. leaf' = "running" => turn' = "children"
    BY <1>5
  <2>4. \A i \in 1 .. entry' - 1 : ~NeedsDrive(CommandAt(s, i))
    BY <1>3, <1>5, <1>9 DEF FirstTurnOf
  <2> QED
    BY <1>2, <2>1, <2>2, <2>3, <2>4 DEF FirstTurnOf
<1> QED
  BY <1>1, <1>8, <1>9, TurnGoesOn

LEMMA EndTurnKeepsGroup ==
  ASSUME Control, NEW s \in AutonSequences, RunSequence(s), EndTurn(s)
  PROVE  GroupInv' /\ FirstTurn'
<1>1. Active = {s} /\ turn = "children" /\ todo = {}
  BY TurnFacts DEF EndTurn, Turn
<1>2. CASE LeaveGroup
  BY <1>2, GroupLeft DEF LeaveGroup, GroupIdle
<1>3. CASE /\ KeepRunning(s)
           /\ turn' = "entries"
           /\ UNCHANGED <<entry, leaf, children, todo, counters>>
  <2>1. active' = active /\ started' = started \cup {s}
    BY <1>3 DEF KeepRunning
  <2>2. GroupOf(s)
    BY <1>1 DEF Control, GroupInv
  <2>3. entry \in Nat \ {0} /\ Len(Entries[s]) \in Nat
    BY <1>1, GroupParts
  <2>4. EntryOf(s)' = EntryOf(s)
    BY <1>3 DEF EntryOf
  <2>5. GroupOf(s)'
    BY <1>1, <1>3, <2>2, <2>3, <2>4 DEF GroupOf
  <2>6. Active' = {s}
    BY <1>1, <2>1 DEF Active
  <2> QED
    BY <2>1, <2>5, <2>6 DEF GroupInv, FirstTurn
<1> QED
  BY <1>2, <1>3 DEF EndTurn

LEMMA GroupStep == ASSUME Control, [Next]_vars PROVE GroupInv' /\ FirstTurn'
<1>1. /\ started \subseteq active /\ torun \subseteq active
      /\ active \subseteq DriveCommands
      /\ \A s, t \in AutonSequences : Present(s) /\ Present(t) => s = t
      /\ additions \in Seq(DriveCommands)
  BY DEF Control, TypeOK, SchedulerTypeOK, OneSequence
<1>2. AutonSequences \cap DriverCommands = {}
  BY CommandFacts
<1>3. ASSUME UNCHANGED <<group, active, started>>, \A s \in Active : ~MidTurn(s)
      PROVE  GroupInv' /\ FirstTurn'
  <2>1. Active' = Active
    BY <1>3 DEF Active
  <2> QED
    BY <1>3, <2>1, GroupQuiet
<1>4. CASE DriverStation \/ ChooseMode \/ CyclePoll
  <2>1. phase # "run" /\ UNCHANGED <<active, started, group>>
    BY <1>4 DEF DriverStation, ChooseMode, BetweenCycles, PacketMayArrive,
                CyclePoll, PollButton, BeginRun
  <2> QED
    BY <1>3, <2>1 DEF MidTurn
<1>5. CASE UNCHANGED vars
  <2>1. UNCHANGED <<active, started, group, phase, enabled, torun, counters>>
    BY <1>5 DEF vars, command
  <2>2. UNCHANGED <<entry, leaf, children, turn, todo, stable_count_>>
    BY <2>1 DEF group, counters
  <2>3. Active' = Active /\ \A s : MidTurn(s)' <=> MidTurn(s)
    BY <2>1 DEF Active, MidTurn
  <2>4. ASSUME NEW s \in Active PROVE GroupOf(s)'
    <3>1. GroupOf(s)
      BY DEF Control, GroupInv
    <3> QED
      BY <2>2, <2>3, <3>1 DEF GroupOf, EntryOf
  <2>5. ASSUME NEW s \in Active \ started PROVE FirstTurnOf(s)'
    <3>1. FirstTurnOf(s)
      BY DEF Control, FirstTurn
    <3> QED
      BY <2>2, <2>3, <3>1 DEF FirstTurnOf, EntryOf, Runs, GroupIdle
  <2>6. Active = {} => GroupIdle'
    BY <2>2 DEF GroupIdle, Control, GroupInv
  <2> QED
    BY <2>1, <2>3, <2>4, <2>5, <2>6 DEF GroupInv, FirstTurn
<1>6. ASSUME NEW c \in DriveCommands, CycleCancel(c)
      PROVE  GroupInv' /\ FirstTurn'
  <2>1. /\ ~enabled /\ active' = active \ {c} /\ started' = started \ {c}
        /\ Interrupt({c})
    BY <1>6 DEF CycleCancel, CancelDisabled
  <2>2. CASE c \in AutonSequences
    <3>1. LeaveGroup
      BY <2>1, <2>2 DEF Interrupt
    <3> QED
      BY <3>1, GroupLeft DEF LeaveGroup, GroupIdle
  <2>3. CASE c \notin AutonSequences
    <3>1. UNCHANGED group
      BY <2>1, <2>3 DEF Interrupt
    <3>2. Active' = Active /\ started \cap Active' \subseteq started'
      BY <2>1, <2>3 DEF Active
    <3> QED
      BY <2>1, <3>1, <3>2, GroupQuiet DEF MidTurn
  <2> QED
    BY <2>2, <2>3
<1>7. ASSUME NEW c \in DriverCommands, RunDriverCommand(c)
      PROVE  GroupInv' /\ FirstTurn'
  <2>1. /\ c \in torun /\ UNCHANGED group
        /\ active' \in {active, active \ {c}}
        /\ started \ {c} \subseteq started'
    BY <1>7 DEF RunDriverCommand, Goes, KeepRunning, Finish
  <2>2. c \notin AutonSequences
    BY <1>2
  <2>3. Active' = Active /\ started \cap Active' \subseteq started'
    BY <2>1, <2>2 DEF Active
  <2>4. \A s \in Active : ~MidTurn(s)
    BY <2>1, <2>2 DEF MidTurn, Active
  <2> QED
    BY <2>1, <2>3, <2>4, GroupQuiet
<1>8. ASSUME NEW s \in AutonSequences, RunSequence(s)
      PROVE  GroupInv' /\ FirstTurn'
  BY <1>8, EnterKeepsGroup, RunEntryKeepsGroup, EntriesDoneKeepsGroup,
     RunChildKeepsGroup, EndTurnKeepsGroup
  DEF RunSequence
<1>9. CASE CycleAdd
  <2>1. \A s : ~MidTurn(s)
    BY <1>9 DEF CycleAdd, BeginAdd, Ignore, Insert, InsertDefault, EndCycle,
                MidTurn
  <2>2. CASE BeginAdd \/ EndCycle \/ \E c \in DriveCommands : Ignore(c)
    <3>1. UNCHANGED <<active, started>>
      BY <2>2 DEF BeginAdd, EndCycle, Ignore
    <3>2. UNCHANGED group
      BY <1>9, <2>2
      DEF CycleAdd, BeginAdd, EndCycle, Ignore, Insert, InsertDefault
    <3> QED
      BY <1>3, <2>1, <3>1, <3>2
  <2>3. CASE InsertDefault("DriveTeleOp") /\ UNCHANGED group
    <3>1. "DriveTeleOp" \notin AutonSequences
      BY <1>2 DEF DriverCommands
    <3>2. Active' = Active /\ started' = started
      BY <2>3, <3>1 DEF InsertDefault, Active
    <3> QED
      BY <2>1, <2>3, <3>2, GroupQuiet
  <2>4. ASSUME NEW c \in DriveCommands, Insert(c), Interrupt(InTheWay(c))
        PROVE  GroupInv' /\ FirstTurn'
    <3>1. CASE InTheWay(c) \cap AutonSequences # {}
      <4>1. LeaveGroup
        BY <2>4, <3>1 DEF Interrupt
      <4> QED
        BY <4>1, GroupLeft DEF LeaveGroup, GroupIdle
    <3>2. CASE InTheWay(c) \cap AutonSequences = {}
      <4>1. UNCHANGED group
        BY <2>4, <3>2 DEF Interrupt
      <4>2. /\ active' = (active \ InTheWay(c)) \cup {c}
            /\ started' = started \ InTheWay(c)
            /\ c \notin active /\ Queued(c)
        BY <1>1, <2>4, DequeueStep DEF Insert
      <4>3. Active' = Active \cup ({c} \cap AutonSequences)
        BY <3>2, <4>2 DEF Active
      <4>4. c \in AutonSequences => Active = {}
        BY <1>1, <4>2 DEF Active, Present
      <4>5. started \cap Active' \subseteq started'
        BY <1>1, <3>2, <4>2 DEF Active
      <4> QED
        BY <2>1, <4>1, <4>3, <4>4, <4>5, GroupQuiet
    <3> QED
      BY <3>1, <3>2
  <2> QED
    BY <1>9, <2>2, <2>3, <2>4 DEF CycleAdd
<1> QED
  BY <1>4, <1>5, <1>6, <1>7, <1>8, <1>9 DEF Next

\* The control half of the invariant is kept by every step.
LEMMA ControlStep == ASSUME Control, CountInv, [Next]_vars PROVE Control'
BY TypeStep, NoConflictStep, ModeStep, OneSequenceStep, GroupStep DEF Control

-----------------------------------------------------------------------------
(* The motors *)

\* Nobody drives but these.
LEMMA DriverNames ==
  Control =>
    Drivers \subseteq {"DriveTeleOp", "EnableBrake", "StartShooting"} \cup SoleDrives
BY DriverCases
DEF Control, NoConflict, PartDrives, DrivingCommands, DrivingParts, SoleDrives

\* Whoever drives goes on, or is ended, and nobody new drives; what a sequence
\* that runs a drive has counted stays as it is.
LEMMA MotorsEase ==
  ASSUME IInv, NEW P,
         Drivers' = Drivers \ P,
         setpoint' \in {setpoint, "stop"},
         P \cap EndStops # {} \/ ("StartShooting" \in P /\ aiming = "aiming") =>
           setpoint' = "stop",
         gyro_disabled_' = GyroAfter(P),
         aiming' = IF "StartShooting" \in P THEN "none" ELSE aiming,
         settings' = settings,
         stable_count_' \in {stable_count_, 0},
         "DriveTeleOp" \in started' => "DriveTeleOp" \in started,
         \A s \in Active' : Runs(s, SoleDrives)' =>
           /\ s \in Active /\ leaf = "running" /\ EntryOf(s)' = EntryOf(s)
           /\ UNCHANGED counters
           /\ \/ zeroLag' = zeroLag /\ (AfterRun(s) => AfterRun(s)')
              \/ zeroLag' = IF zeroLag > 0 THEN zeroLag - 1 ELSE 0,
         TurnedStill'
  PROVE  MotorInv'
<1>1. /\ Control /\ SetpointInv /\ AimingInv /\ GyroOffOnlyPlacing
      /\ SettingsInv /\ CountInv /\ LagInv
  BY DEF IInv, MotorInv
<1>2. /\ \A c, d \in Drivers : c = d
      /\ Drivers \subseteq {"DriveTeleOp", "EnableBrake", "StartShooting"} \cup SoleDrives
  BY <1>1, OneDriver, DriverNames
<1>3. GyroOffOnlyPlacing'
  <2>1. GyroAfter(P) <=> "PlaceGear" \in Drivers \ P
    BY <1>1 DEF GyroAfter, GyroOffOnlyPlacing
  <2> QED
    BY <2>1, Zenon DEF GyroOffOnlyPlacing
<1>4. AimingInv'
  BY <1>1 DEF AimingInv
<1>5. SetpointInv'
  <2>1. CASE Drivers' = Drivers
    BY <1>1, <2>1 DEF SetpointInv
  <2>2. CASE Drivers' # Drivers
    <3>1. \E d \in Drivers : d \in P
      BY <2>2
    <3>2. PICK d \in Drivers : d \in P
      BY <3>1
    <3>3. Drivers = {d}
      BY <1>2
    <3>4. Drivers' = {}
      BY <3>2, <3>3
    <3>5. setpoint' \in {"stop", "PlaceGear"}
      <4>1. CASE d \in EndStops
        BY <3>2, <4>1
      <4>2. CASE d = "StartShooting"
        BY <1>1, <3>2, <4>2 DEF SetpointInv, AimingInv
      <4>3. CASE d \in {"EnableBrake", "PlaceGear"}
        BY <1>1, <4>3 DEF SetpointInv
      <4> QED
        BY <1>2, <4>1, <4>2, <4>3 DEF EndStops, SoleDrives
    <3> QED
      BY <3>4, <3>5 DEF SetpointInv
  <2> QED
    BY <2>1, <2>2
<1>6. ASSUME NEW s \in Active', NEW W \in SUBSET SoleDrives, Runs(s, W)'
      PROVE  /\ s \in Active /\ Runs(s, W) /\ UNCHANGED counters
             /\ \/ zeroLag' = zeroLag /\ (AfterRun(s) => AfterRun(s)')
                \/ zeroLag' = IF zeroLag > 0 THEN zeroLag - 1 ELSE 0
  BY <1>6 DEF Runs
<1>7. /\ AutonDrives \in SUBSET SoleDrives /\ {"PlaceGear"} \in SUBSET SoleDrives
      /\ {"PlaceGear", "GyroAzimuth"} \in SUBSET SoleDrives
      /\ AutonDrives \cup {"PlaceGear"} \in SUBSET SoleDrives
      /\ SoleDrives \in SUBSET SoleDrives
  BY DEF SoleDrives
<1>8. SettingsInv'
  <2>1. SetpointFitsSettings'
    <3>1. SetpointFitsSettings
      BY <1>1 DEF SettingsInv
    <3>2. ASSUME setpoint' = "PlaceGear", settings' # Slow
          PROVE  /\ settings' = "drive_auton"
                 /\ Drivers' \cap AutonDrives # {}
                 /\ stable_count_' = 0
      <4>1. /\ setpoint = "PlaceGear" /\ settings = "drive_auton"
            /\ Drivers \cap AutonDrives # {} /\ stable_count_ = 0
        BY <3>1, <3>2 DEF SetpointFitsSettings, Slow
      <4>2. \A d \in P : d \notin EndStops
        BY <3>2
      <4>3. \A d \in AutonDrives : d \in EndStops
        BY DEF EndStops
      <4> QED
        BY <4>1, <4>2, <4>3
    <3>3. setpoint' # "PlaceGear" => SetpointFitsSettings'
      BY <3>1 DEF SetpointFitsSettings
    <3> QED
      BY <3>2, <3>3 DEF SetpointFitsSettings, Slow
  <2>2. \A s \in Active' :
          /\ Runs(s, AutonDrives)' => settings' = "drive_auton"
          /\ Runs(s, {"PlaceGear", "GyroAzimuth"})' => settings' = Slow
    BY <1>1, <1>6, <1>7 DEF SettingsInv
  <2>3. /\ "DriveTeleOp" \in started' => settings' = "drive"
        /\ aiming' = "aiming" => settings' = Slow
    BY <1>1 DEF SettingsInv
  <2> QED
    BY <2>1, <2>2, <2>3 DEF SettingsInv, Slow
<1>9. CountInv'
  <2>1. aiming' = "aiming" => stable_count_' < StableCountReq
    BY <1>1 DEF CountInv, StableCountReq
  <2>2. ASSUME NEW s \in Active'
        PROVE  /\ Runs(s, SoleDrives)' => stable_count_' < StableCountReq
               /\ Runs(s, AutonDrives \cup {"PlaceGear"})' => zero_count_' >= 1
               /\ Runs(s, {"PlaceGear"})' => zero_count_' <= PlaceGearZeroCountReq
    BY <1>1, <1>6, <1>7 DEF CountInv, counters
  <2> QED
    BY <2>1, <2>2 DEF CountInv
<1>10. LagInv'
  <2>1. ASSUME NEW s \in Active'
        PROVE  Runs(s, AutonDrives \cup {"PlaceGear"})' =>
                 \/ zeroLag' = 0
                 \/ zeroLag' + zero_count_' <=
                      IF AfterRun(s)' THEN ZeroLag + 1 ELSE ZeroLag
    <3>1. SUFFICES ASSUME Runs(s, AutonDrives \cup {"PlaceGear"})'
                   PROVE  \/ zeroLag' = 0
                          \/ zeroLag' + zero_count_' <=
                               IF AfterRun(s)' THEN ZeroLag + 1 ELSE ZeroLag
      OBVIOUS
    <3>2. /\ s \in Active /\ Runs(s, AutonDrives \cup {"PlaceGear"})
          /\ zero_count_' = zero_count_
          /\ \/ zeroLag' = zeroLag /\ (AfterRun(s) => AfterRun(s)')
             \/ zeroLag' = IF zeroLag > 0 THEN zeroLag - 1 ELSE 0
      BY <1>6, <1>7, <3>1 DEF counters
    <3>3. \/ zeroLag = 0
          \/ zeroLag + zero_count_ <= IF AfterRun(s) THEN ZeroLag + 1 ELSE ZeroLag
      BY <1>1, <3>2 DEF LagInv
    <3>4. zeroLag \in Nat /\ zero_count_ \in Nat /\ ZeroLag \in Nat
      BY <1>1, DriveAssumption DEF Control, TypeOK, DriveZeroCountReq
    <3> QED
      BY <3>2, <3>3, <3>4
  <2>2. ASSUME NEW s \in Active', ZeroLag <= PlaceGearZeroCountReq
        PROVE  /\ Runs(s, AutonDrives)' /\ stable_count_' > 0 => zeroLag' = 0
               /\ Runs(s, {"PlaceGear"})' /\ is_cruising_' => zeroLag' = 0
    <3>1. /\ Runs(s, AutonDrives)' /\ stable_count_' > 0 => zeroLag = 0
          /\ Runs(s, {"PlaceGear"})' /\ is_cruising_' => zeroLag = 0
      BY <1>1, <1>6, <1>7, <2>2 DEF LagInv, counters
    <3>2. Runs(s, SoleDrives)' /\ zeroLag = 0 => zeroLag' = 0
      BY <1>6, <1>7
    <3>3. /\ Runs(s, AutonDrives)' => Runs(s, SoleDrives)'
          /\ Runs(s, {"PlaceGear"})' => Runs(s, SoleDrives)'
      BY DEF Runs, SoleDrives
    <3> QED
      BY <3>1, <3>2, <3>3
  <2> QED
    BY <2>1, <2>2 DEF LagInv
<1> QED
  BY <1>3, <1>4, <1>5, <1>8, <1>9, <1>10 DEF MotorInv

LEMMA DriverCasesNext ==
  (Control =>
    \A d : d \in Drivers <=>
      \/ d \in started \cap DrivingCommands
      \/ \E s \in Active \cap started : PartDrives(s, d))'
BY DriverCases, PTL

\* Whatever happens outside the turn of a sequence and removes no command.
LEMMA MotorsSteady ==
  ASSUME IInv, Control', UNCHANGED <<group, command, settings, gyro_disabled_>>,
         setpoint' \in {setpoint, "stop"},
         Active' \subseteq Active,
         \A c : c # "StopShooting" => (c \in started' <=> c \in started),
         \/ zeroLag' = zeroLag /\ \A s \in Active : AfterRun(s) => AfterRun(s)'
         \/ zeroLag' = IF zeroLag > 0 THEN zeroLag - 1 ELSE 0
  PROVE  MotorInv'
<1>1. /\ UNCHANGED <<entry, leaf, children, counters, aiming, stable_count_>>
      /\ Control /\ TurnedStill
  BY DEF group, command, counters, IInv, MotorInv
<1>2. Drivers' = Drivers
  <2>1. \A s : s \in Active' \cap started' <=> s \in Active \cap started
    <3>1. started \subseteq active /\ started' \subseteq active'
      BY <1>1 DEF Control, TypeOK, SchedulerTypeOK
    <3>2. "StopShooting" \notin AutonSequences
      BY CommandFacts
    <3> QED
      BY <3>1, <3>2 DEF Active
  <2>2. \A s, d : PartDrives(s, d)' <=> PartDrives(s, d)
    BY <1>1 DEF PartDrives, EntryOf
  <2>3. \A d : d \in started' \cap DrivingCommands <=> d \in started \cap DrivingCommands
    BY DEF DrivingCommands
  <2>4. \A d : d \in Drivers' <=> d \in Drivers
    BY <1>1, <2>1, <2>2, <2>3, DriverCases, DriverCasesNext
  <2> QED
    BY <2>4 DEF Drivers
<1>3. TurnedStill'
  BY <1>1 DEF TurnedStill
<1>4. \A s \in Active' : Runs(s, SoleDrives)' =>
        s \in Active /\ leaf = "running" /\ EntryOf(s)' = EntryOf(s)
  BY <1>1 DEF Runs, EntryOf
<1>5. gyro_disabled_' = GyroAfter({})
  <2>1. gyro_disabled_ \in BOOLEAN
    BY <1>1 DEF Control, TypeOK
  <2> QED
    BY <2>1 DEF GyroAfter
<1>6. "DriveTeleOp" \in started' => "DriveTeleOp" \in started
  OBVIOUS
<1>7. Drivers' = Drivers \ {}
  BY <1>2
<1> QED
  BY <1>1, <1>3, <1>4, <1>5, <1>6, <1>7, MotorsEase

\* The removal of commands, each of which ends the parts it had begun.
LEMMA MotorsInterrupt ==
  ASSUME IInv, Control', NEW S, S \subseteq active, Interrupt(S),
         started' = started \ S,
         Active' \subseteq Active \/ Active = {},
         S \cap AutonSequences = {} => zeroLag' = zeroLag /\
           \A s \in Active : AfterRun(s) => AfterRun(s)'
  PROVE  MotorInv'
<1> DEFINE P == UNION {Parts(c) : c \in S \cap started}
<1>1. /\ EndParts(P)
      /\ IF S \cap AutonSequences = {}
         THEN UNCHANGED <<group, counters>> ELSE LeaveGroup /\ Forget
  BY DEF Interrupt
<1>2. Control /\ GroupInv /\ TurnedStill /\ started \subseteq active
      /\ started' \subseteq active'
  BY DEF IInv, MotorInv, Control, TypeOK, SchedulerTypeOK
<1>3. \A s, t \in Active : s = t
  BY <1>2 DEF Control, OneSequence, Present, Active
<1>4. /\ \A c \in S \cap started : Parts(c) \subseteq P
      /\ \A d \in P : \E c \in S \cap started : d \in Parts(c)
  OBVIOUS
<1>5. /\ \A c \in started \ AutonSequences : Parts(c) = {c}
      /\ \A s \in AutonSequences :
           Parts(s) = children \cup IF leaf = "running" THEN {EntryOf(s).command} ELSE {}
  BY DEF Parts
<1>6. /\ "StartShooting" \in DrivingParts
      /\ DrivingParts \cap DriverCommands \subseteq {"StartShooting"}
      /\ DrivingCommands \cap AutonSequences = {}
      /\ DrivingCommands \subseteq DriverCommands
  BY CommandFacts DEF DrivingParts, DriverCommands, AutonDrives
\* A command of the driver does not drive beside a sequence that does.
<1>7. ASSUME NEW c \in started \cap DrivingCommands, NEW s \in Active \cap started,
             NEW d, d \in Parts(s), d \in DrivingParts
      PROVE  FALSE
  <2>1. "drive" \in DriveRequires[s]
    <3>1. d \in children \/ (leaf = "running" /\ d = EntryOf(s).command)
      BY <1>5, <1>7 DEF Active
    <3>2. children \subseteq ParallelParts
      BY <1>2, GroupParts
    <3>3. \A e \in ParallelParts \cap DrivingParts : e = "StartShooting"
      BY DEF ParallelParts, DrivingParts, InstantCommands, AutonDrives
    <3>4. PartDrives(s, d)
      BY <1>7, <3>1, <3>2, <3>3 DEF PartDrives
    <3> QED
      BY <1>2, <3>4, PartNeedsDrive
  <2>2. "drive" \in DriveRequires[c]
    BY RequiresFacts
  <2>3. s # c /\ c \in active /\ s \in active
    BY <1>2, <1>6 DEF Active
  <2> QED
    BY <1>2, <2>1, <2>2, <2>3, OneNeedsDrive DEF Control
<1>8. \A s \in Active : \A d :
        PartDrives(s, d) => d \in Parts(s) /\ d \in DrivingParts
  BY <1>5, <1>6 DEF PartDrives, Active
<1>9. ASSUME S \cap AutonSequences = {}
      PROVE  /\ UNCHANGED <<entry, leaf, children>>
             /\ \A s, d : PartDrives(s, d)' <=> PartDrives(s, d)
  <2>1. UNCHANGED <<entry, leaf, children>>
    BY <1>1, <1>9 DEF group
  <2> QED
    BY <2>1 DEF PartDrives, EntryOf
<1>10. ASSUME S \cap AutonSequences # {}
       PROVE  leaf' = "fresh" /\ children' = {} /\ entry' = 1
  BY <1>1, <1>10 DEF LeaveGroup
<1>11. Drivers' = Drivers \ P
  <2>1. ASSUME NEW d \in Drivers' PROVE d \in Drivers \ P
    <3>1. CASE d \in started' \cap DrivingCommands
      <4>1. d \in Drivers /\ d \in started /\ d \notin S
        BY <1>2, <3>1, DriverCases
      <4>2. ASSUME NEW c \in S \cap started, d \in Parts(c)
            PROVE  FALSE
        <5>1. CASE c \notin AutonSequences
          BY <1>5, <4>1, <4>2, <5>1
        <5>2. CASE c \in AutonSequences
          <6>1. c \in Active
            BY <1>2, <5>2 DEF Active
          <6>2. Parts(c) \subseteq ParallelParts \cup SequentialParts
            BY <1>2, <1>5, <5>2, <6>1, GroupParts
          <6>3. d \in DrivingParts
            <7>1. \A e \in (ParallelParts \cup SequentialParts) \cap DrivingCommands :
                    e = "StartShooting"
              BY DEF ParallelParts, SequentialParts, DrivingCommands,
                     InstantCommands, AutonDrives
            <7> QED
              BY <1>6, <3>1, <4>2, <6>2, <7>1
          <6> QED
            BY <1>7, <3>1, <4>1, <4>2, <6>1, <6>3
        <5> QED
          BY <5>1, <5>2
      <4> QED
        BY <1>4, <4>1, <4>2
    <3>2. ASSUME NEW s \in Active' \cap started', PartDrives(s, d)'
          PROVE  d \in Drivers \ P
      <4>1. S \cap AutonSequences = {}
        BY <1>10, <3>2 DEF PartDrives
      <4>2. PartDrives(s, d)
        BY <1>9, <3>2, <4>1
      <4>3. s \in Active \cap started
        BY <1>2 DEF Active
      <4>4. d \in Drivers
        BY <1>2, <4>2, <4>3, DriverCases
      <4>5. ASSUME NEW c \in S \cap started, d \in Parts(c) PROVE FALSE
        <5>1. c = d /\ c \in DriveCommands
          BY <1>2, <1>5, <4>1, <4>5 DEF Control, TypeOK, SchedulerTypeOK
        <5>2. d \in Parts(s) /\ d \in DrivingParts
          BY <1>8, <4>2, <4>3
        <5>3. c \in DrivingCommands
          BY <1>6, <4>1, <5>1, <5>2 DEF DriveCommands, DrivingCommands
        <5> QED
          BY <1>7, <4>3, <5>2, <5>3
      <4> QED
        BY <1>4, <4>4, <4>5
    <3> QED
      BY <3>1, <3>2, DriverCasesNext
  <2>2. ASSUME NEW d \in Drivers, d \notin P PROVE d \in Drivers'
    <3>1. CASE d \in started \cap DrivingCommands
      <4>1. d \notin S
        BY <1>4, <1>5, <1>6, <2>2, <3>1
      <4> QED
        BY <3>1, <4>1, DriverCasesNext
    <3>2. ASSUME NEW s \in Active \cap started, PartDrives(s, d)
          PROVE  d \in Drivers'
      <4>1. s \notin S
        BY <1>4, <1>8, <2>2, <3>2
      <4>2. S \cap AutonSequences = {}
        BY <1>3, <4>1 DEF Active
      <4>3. s \in Active' \cap started'
        BY <1>2, <4>1 DEF Active
      <4> QED
        BY <1>9, <3>2, <4>2, <4>3, DriverCasesNext
    <3> QED
      BY <1>2, <3>1, <3>2, DriverCases
  <2> QED
    BY <2>1, <2>2
<1>12. TurnedStill'
  <2>1. CASE S \cap AutonSequences = {}
    <3>1. setpoint' \in {setpoint, "stop"}
      BY <1>1 DEF EndParts
    <3>2. Active = {} => entry = 1
      BY <1>2 DEF GroupInv, GroupIdle
    <3> QED
      BY <1>2, <1>9, <2>1, <3>1, <3>2 DEF TurnedStill
  <2>2. CASE S \cap AutonSequences # {}
    BY <1>10, <2>2 DEF TurnedStill
  <2> QED
    BY <2>1, <2>2
<1>13. ASSUME NEW s \in Active', Runs(s, SoleDrives)'
       PROVE  /\ s \in Active /\ leaf = "running" /\ EntryOf(s)' = EntryOf(s)
              /\ UNCHANGED counters
              /\ zeroLag' = zeroLag /\ (AfterRun(s) => AfterRun(s)')
  <2>1. S \cap AutonSequences = {}
    BY <1>10, <1>13 DEF Runs
  <2>2. leaf = "running" /\ EntryOf(s)' = EntryOf(s) /\ UNCHANGED counters
    BY <1>1, <1>9, <1>13, <2>1 DEF Runs, EntryOf
  <2>3. Active # {}
    BY <1>2, <2>2 DEF GroupInv, GroupIdle
  <2> QED
    BY <2>1, <2>2, <2>3
<1>14. stable_count_' \in {stable_count_, 0}
  BY <1>1 DEF counters, Forget
<1>15. /\ setpoint' \in {setpoint, "stop"}
       /\ P \cap EndStops # {} \/ ("StartShooting" \in P /\ aiming = "aiming") =>
            setpoint' = "stop"
       /\ gyro_disabled_' = GyroAfter(P)
       /\ aiming' = IF "StartShooting" \in P THEN "none" ELSE aiming
       /\ settings' = settings
  BY <1>1 DEF EndParts
<1>16. "DriveTeleOp" \in started' => "DriveTeleOp" \in started
  OBVIOUS
<1> HIDE DEF P
<1> QED
  BY <1>11, <1>12, <1>13, <1>14, <1>15, <1>16, MotorsEase

\* What one Run of StartShooting leaves, by itself or as a part.
LEMMA ShootStep ==
  ASSUME IInv, NEW done \in BOOLEAN, RunStartShooting(done),
         Drivers \subseteq {"StartShooting"}
  PROVE  /\ setpoint' \in {"stop", "StartShooting"}
         /\ setpoint' = "StartShooting" => aiming' = "aiming" /\ settings' = Slow
         /\ done => setpoint' = "stop" /\ aiming' = "none"
         /\ aiming' = "aiming" =>
              settings' = Slow /\ stable_count_' < StableCountReq
         /\ ~gyro_disabled_ /\ ~gyro_disabled_'
<1>1. /\ SetpointInv /\ AimingInv /\ GyroOffOnlyPlacing /\ SettingsInv
      /\ CountInv /\ TypeOK
  BY DEF IInv, MotorInv, Control
<1>2. /\ "PlaceGear" \notin Drivers
      /\ aiming # "none" => setpoint \in {"stop", "StartShooting"}
      /\ aiming = "aimed" => setpoint = "stop"
      /\ aiming = "aiming" => settings = Slow /\ stable_count_ < StableCountReq
  BY <1>1 DEF SetpointInv, AimingInv, SettingsInv, CountInv
<1>3. ~gyro_disabled_
  BY <1>1, <1>2, Zenon DEF GyroOffOnlyPlacing
<1>4. ~gyro_disabled_'
  <2>1. gyro_disabled_' = gyro_disabled_
    BY DEF RunStartShooting
  <2> QED
    BY <1>3, <2>1, Zenon
<1>5. stable_count_ \in Nat
  BY <1>1 DEF TypeOK, StableCountReq
<1>6. CASE /\ aiming = "none" /\ ~done
           /\ aiming' = "aiming"
           /\ settings' = "drive_auton_slow_azimuth"
           /\ setpoint' \in {"stop", "StartShooting"}
           /\ stable_count_' \in {0, 1}
  BY <1>3, <1>4, <1>6 DEF Slow, StableCountReq
<1>7. CASE /\ aiming = "aiming" /\ ~done
           /\ stable_count_' \in {0, stable_count_, stable_count_ + 1} \ {StableCountReq}
           /\ setpoint' \in {"stop", "StartShooting"}
           /\ UNCHANGED <<settings, camera, aiming>>
  BY <1>2, <1>3, <1>4, <1>5, <1>7 DEF StableCountReq
<1>8. CASE /\ aiming = "aiming"
           /\ setpoint' = "stop"
           /\ aiming' = IF done THEN "none" ELSE "aimed"
  BY <1>3, <1>4, <1>8
<1>9. CASE aiming = "aiming" /\ EndParts({"StartShooting"})
  BY <1>3, <1>4, <1>9 DEF EndParts
<1>10. CASE /\ aiming = "aimed"
            /\ aiming' = IF done THEN "none" ELSE "aimed"
            /\ setpoint' = setpoint
  BY <1>2, <1>3, <1>4, <1>10
<1> QED
  BY <1>6, <1>7, <1>8, <1>9, <1>10 DEF RunStartShooting

\* StartShooting runs alone, and is the one that drives as long as it lasts.
LEMMA MotorsShoot ==
  ASSUME IInv, NEW done \in BOOLEAN, RunStartShooting(done),
         Drivers \subseteq {"StartShooting"},
         Drivers' = IF done THEN {} ELSE {"StartShooting"},
         \A s \in Active' : ~Runs(s, SoleDrives)',
         "DriveTeleOp" \notin started',
         TurnedStill'
  PROVE  MotorInv'
<1>1. /\ setpoint' \in {"stop", "StartShooting"}
      /\ setpoint' = "StartShooting" => aiming' = "aiming" /\ settings' = Slow
      /\ done => setpoint' = "stop" /\ aiming' = "none"
      /\ aiming' = "aiming" => settings' = Slow /\ stable_count_' < StableCountReq
      /\ ~gyro_disabled_'
  BY ShootStep
<1>2. SetpointInv'
  BY <1>1 DEF SetpointInv, AutonDrives
<1>3. AimingInv'
  BY <1>1 DEF AimingInv
<1>4. GyroOffOnlyPlacing'
  <2>1. "PlaceGear" \notin Drivers'
    OBVIOUS
  <2> QED
    BY <1>1, <2>1, Zenon DEF GyroOffOnlyPlacing
<1>5. \A s \in Active', W \in SUBSET SoleDrives : ~Runs(s, W)'
  BY DEF Runs
<1>6. /\ AutonDrives \in SUBSET SoleDrives /\ {"PlaceGear"} \in SUBSET SoleDrives
      /\ {"PlaceGear", "GyroAzimuth"} \in SUBSET SoleDrives
      /\ AutonDrives \cup {"PlaceGear"} \in SUBSET SoleDrives
      /\ SoleDrives \in SUBSET SoleDrives
  BY DEF SoleDrives
<1>7. SettingsInv'
  <2>1. SetpointFitsSettings'
    BY <1>1 DEF SetpointFitsSettings, Slow
  <2> QED
    BY <1>1, <1>5, <1>6, <2>1 DEF SettingsInv, Slow
<1>8. CountInv'
  BY <1>1, <1>5, <1>6 DEF CountInv
<1>9. LagInv'
  BY <1>5, <1>6 DEF LagInv
<1> QED
  BY <1>2, <1>3, <1>4, <1>7, <1>8, <1>9 DEF MotorInv

\* While a command of the driver that drives is active nobody else drives.
LEMMA DriverAlone ==
  ASSUME Control, NEW c \in active \cap DrivingCommands
  PROVE  /\ Drivers \subseteq {c} /\ (c \in started => Drivers = {c})
         /\ \A s \in Active : ~Runs(s, SoleDrives) /\ "StartShooting" \notin children
         /\ \A d \in DrivingCommands \cap active : d = c
<1>1. "drive" \in DriveRequires[c] /\ c \notin AutonSequences
  BY RequiresFacts, CommandFacts
<1>2. \A d \in DrivingCommands \cap active : d = c
  BY <1>1, RequiresFacts, OneNeedsDrive DEF Control
<1>3. ASSUME NEW s \in Active, NEW d, PartDrives(s, d) PROVE FALSE
  <2>1. "drive" \in DriveRequires[s] /\ s \in active /\ s # c
    BY <1>1, <1>3, PartNeedsDrive DEF Active
  <2> QED
    BY <1>1, <2>1, OneNeedsDrive DEF Control
<1>4. started \subseteq active
  BY DEF Control, TypeOK, SchedulerTypeOK
<1>5. \A s \in Active : ~Runs(s, SoleDrives) /\ "StartShooting" \notin children
  BY <1>3 DEF Runs, PartDrives, SoleDrives, DrivingParts
<1>6. \A d \in Drivers : d = c
  BY <1>2, <1>3, <1>4, DriverCases
<1>7. c \in started => c \in Drivers
  BY DriverCases
<1> QED
  BY <1>2, <1>5, <1>6, <1>7

\* A Run of a command of the driver.
LEMMA DriverCommandMotors ==
  ASSUME IInv, Control', NEW c \in DriverCommands, RunDriverCommand(c)
  PROVE  MotorInv'
<1>1. /\ c \in torun /\ c \in active /\ phase = "run" /\ phase' = "run"
      /\ torun' = torun \ {c} /\ UNCHANGED group
      /\ \/ active' = active /\ started' = started \cup {c}
         \/ active' = active \ {c} /\ started' = started \ {c}
  <2>1. KeepRunning(c) \/ Finish(c, additions)
    BY DEF RunDriverCommand, Goes
  <2>2. UNCHANGED group
    BY DEF RunDriverCommand
  <2> QED
    BY <2>1, <2>2 DEF KeepRunning, Finish, IInv, Control, TypeOK, SchedulerTypeOK
<1>2. /\ Control /\ SetpointInv /\ AimingInv /\ GyroOffOnlyPlacing /\ SettingsInv
      /\ CountInv /\ TurnedStill /\ GroupInv
  BY DEF IInv, MotorInv, Control
<1>3. c \notin AutonSequences
  BY CommandFacts
<1>4. UNCHANGED <<entry, leaf, children, turn, todo>> /\ Active' = Active
  BY <1>1, <1>3 DEF group, Active
<1>5. started \subseteq active
  BY <1>2 DEF Control, TypeOK, SchedulerTypeOK
<1>6. \A s \in Active : ~MidTurn(s)
  BY <1>1, <1>3 DEF MidTurn, Active
\* No sequence is between two entries.
<1>7. TurnedStill'
  <2>1. ASSUME NEW s \in Active, leaf = "fresh", entry \in 2 .. Len(Entries[s])
        PROVE  FALSE
    BY <1>2, <1>6, <2>1 DEF GroupInv, GroupOf
  <2> QED
    BY <1>4, <2>1 DEF TurnedStill
<1>8. CASE c \in {"StopShooting", "DisableBrake"}
  <2>1. UNCHANGED <<motors, lights, command>>
    BY <1>8 DEF RunDriverCommand
  <2>2. c = "DisableBrake" => started' = started
    <3>1. "DisableBrake" \notin started
      BY <1>2 DEF Control, NoConflict
    <3>2. c = "DisableBrake" => Finish(c, additions)
      BY DEF RunDriverCommand
    <3> QED
      BY <3>1, <3>2 DEF Finish
  <2>3. \A d : d # "StopShooting" => (d \in started' <=> d \in started)
    BY <1>1, <1>8, <2>2
  <2>4. /\ UNCHANGED <<group, command, settings, gyro_disabled_>>
        /\ setpoint' \in {setpoint, "stop"} /\ zeroLag' = zeroLag
    BY <1>1, <2>1 DEF motors
  <2>5. \A s \in Active : AfterRun(s) => AfterRun(s)'
    BY <1>1, <1>4 DEF AfterRun
  <2> QED
    BY <1>4, <2>3, <2>4, <2>5, MotorsSteady
<1>9. ASSUME c \in {"DriveTeleOp", "EnableBrake", "StartShooting"}
      PROVE  /\ Drivers \subseteq {c} /\ (c \in started => Drivers = {c})
             /\ \A s \in Active' : ~Runs(s, SoleDrives)'
             /\ Drivers' = IF c \in started' THEN {c} ELSE {}
             /\ c # "DriveTeleOp" => "DriveTeleOp" \notin started'
  <2>1. c \in active \cap DrivingCommands
    BY <1>1, <1>9 DEF DrivingCommands
  <2>2. /\ Drivers \subseteq {c} /\ (c \in started => Drivers = {c})
        /\ \A s \in Active : ~Runs(s, SoleDrives) /\ "StartShooting" \notin children
        /\ \A d \in DrivingCommands \cap active : d = c
    BY <1>2, <2>1, DriverAlone
  <2>3. \A s \in Active' : ~Runs(s, SoleDrives)'
    BY <1>4, <2>2 DEF Runs, EntryOf
  <2>4. \A s \in Active' : \A d : ~PartDrives(s, d)'
    <3>1. SUFFICES ASSUME NEW s \in Active', NEW d, PartDrives(s, d)'
                   PROVE  FALSE
      OBVIOUS
    <3>2. s \in Active /\ leaf = "running" /\ d = EntryOf(s).command
          /\ d = "StartShooting"
      BY <1>4, <2>2, <2>3, <3>1
      DEF PartDrives, EntryOf, Runs, DrivingParts, SoleDrives
    <3>3. PartDrives(s, d)
      BY <3>2 DEF PartDrives, DrivingParts
    <3>4. "drive" \in DriveRequires[s] /\ "drive" \in DriveRequires[c]
          /\ s \in active /\ s # c
      BY <1>2, <1>3, <2>1, <3>2, <3>3, PartNeedsDrive, RequiresFacts DEF Active
    <3> QED
      BY <1>2, <2>1, <3>4, OneNeedsDrive DEF Control
  <2>5. \A d \in started' \cap DrivingCommands : d = c
    BY <1>1, <1>5, <2>2
  <2>6. \A d : d \in Drivers' <=> (d = c /\ c \in started')
    BY <2>1, <2>4, <2>5, DriverCasesNext
  <2>7. c # "DriveTeleOp" => "DriveTeleOp" \notin started'
    BY <2>5 DEF DrivingCommands
  <2> QED
    BY <2>2, <2>3, <2>6, <2>7
<1>10. /\ AutonDrives \in SUBSET SoleDrives /\ {"PlaceGear"} \in SUBSET SoleDrives
       /\ {"PlaceGear", "GyroAzimuth"} \in SUBSET SoleDrives
       /\ AutonDrives \cup {"PlaceGear"} \in SUBSET SoleDrives
       /\ SoleDrives \in SUBSET SoleDrives
  BY DEF SoleDrives
<1>11. CASE c = "StartShooting"
  <2>1. PICK done \in BOOLEAN : RunStartShooting(done) /\ Goes(c, done)
    BY <1>11 DEF RunDriverCommand
  <2>2. c \in started' <=> ~done
    BY <2>1 DEF Goes, KeepRunning, Finish
  <2> QED
    BY <1>7, <1>9, <1>11, <2>1, <2>2, MotorsShoot
<1>12. ASSUME c \in {"DriveTeleOp", "EnableBrake"},
              setpoint' \in {"stop", IF c = "DriveTeleOp" THEN c ELSE "PlaceGear"},
              c = "DriveTeleOp" => settings' = "drive",
              setpoint' = "PlaceGear" => settings' = Slow,
              UNCHANGED <<gyro_disabled_, command>>,
              c \in started'
       PROVE  MotorInv'
  <2>1. /\ Drivers \subseteq {c} /\ Drivers' = {c}
        /\ \A s \in Active' : ~Runs(s, SoleDrives)'
        /\ c # "DriveTeleOp" => "DriveTeleOp" \notin started'
    BY <1>9, <1>12
  <2>2. aiming = "none" /\ "PlaceGear" \notin Drivers /\ aiming' = "none"
    BY <1>2, <1>12, <2>1 DEF AimingInv, command
  <2>3. \A s \in Active', W \in SUBSET SoleDrives : ~Runs(s, W)'
    BY <2>1 DEF Runs
  <2>4. SetpointInv'
    BY <1>12, <2>1 DEF SetpointInv, AutonDrives
  <2>5. AimingInv'
    BY <1>12, <2>2 DEF AimingInv
  <2>6. GyroOffOnlyPlacing'
    <3>1. "PlaceGear" \notin Drivers' /\ gyro_disabled_' = gyro_disabled_
      BY <1>12, <2>1
    <3> QED
      BY <1>2, <2>2, <3>1, Zenon DEF GyroOffOnlyPlacing
  <2>7. SettingsInv'
    <3>1. SetpointFitsSettings'
      BY <1>12 DEF SetpointFitsSettings, Slow
    <3> QED
      BY <1>10, <1>12, <2>1, <2>2, <2>3, <3>1 DEF SettingsInv
  <2>8. CountInv' /\ LagInv'
    BY <1>10, <2>2, <2>3 DEF CountInv, LagInv
  <2> QED
    BY <1>7, <2>4, <2>5, <2>6, <2>7, <2>8 DEF MotorInv
<1>13. CASE c = "DriveTeleOp"
  <2>1. /\ settings' = IF c \in started THEN settings ELSE "drive"
        /\ setpoint' \in {"stop", "DriveTeleOp"}
        /\ UNCHANGED <<gyro_disabled_, command>>
        /\ c \in started'
    BY <1>13 DEF RunDriverCommand, TeleOpSettings, KeepRunning
  <2>2. settings' = "drive"
    BY <1>2, <1>13, <2>1 DEF SettingsInv
  <2> QED
    BY <1>12, <1>13, <2>1, <2>2
<1>14. CASE c = "EnableBrake"
  <2>1. /\ UNCHANGED <<settings, setpoint, gyro_disabled_, command>>
        /\ c \in started'
    BY <1>14 DEF RunDriverCommand, KeepRunning
  <2>2. Drivers \subseteq {c} /\ (Drivers = {} \/ Drivers = {c})
    BY <1>9, <1>14
  <2>3. setpoint \in {"stop", "PlaceGear"}
    BY <1>2, <1>14, <2>2 DEF SetpointInv
  <2>4. setpoint = "PlaceGear" => settings = Slow
    <3>1. Drivers \cap AutonDrives = {}
      BY <1>14, <2>2 DEF AutonDrives
    <3> QED
      BY <1>2, <3>1 DEF SettingsInv, SetpointFitsSettings, Slow
  <2> QED
    BY <1>12, <1>14, <2>1, <2>3, <2>4
<1> QED
  BY <1>8, <1>11, <1>13, <1>14 DEF DriverCommands

\* Nothing changes for the motors, and who drives stays the same.
LEMMA MotorsKept ==
  ASSUME IInv, Drivers' = Drivers, UNCHANGED <<motors, aiming>>,
         stable_count_' \in {stable_count_, 0},
         "DriveTeleOp" \in started' => "DriveTeleOp" \in started,
         \A s \in Active' : Runs(s, SoleDrives)' =>
           /\ s \in Active /\ leaf = "running" /\ EntryOf(s)' = EntryOf(s)
           /\ UNCHANGED counters
           /\ AfterRun(s) => AfterRun(s)',
         TurnedStill'
  PROVE  MotorInv'
<1>1. gyro_disabled_' = GyroAfter({})
  <2>1. gyro_disabled_ \in BOOLEAN /\ gyro_disabled_' = gyro_disabled_
    BY DEF IInv, Control, TypeOK, motors
  <2> QED
    BY <2>1 DEF GyroAfter
<1>2. setpoint' = setpoint /\ settings' = settings /\ zeroLag' = zeroLag
  BY DEF motors
<1>3. Drivers' = Drivers \ {}
  OBVIOUS
<1> QED
  BY <1>1, <1>2, <1>3, MotorsEase

\* A sequence that needs the drive has it for itself, and its own first Run
\* drives only with its first drive.
LEMMA SequenceAlone ==
  Control =>
    \A s \in Active : "drive" \in DriveRequires[s] =>
      /\ \A d : d \in Drivers <=> s \in started /\ PartDrives(s, d)
      /\ "DriveTeleOp" \notin started
<1> SUFFICES ASSUME Control, NEW s \in Active, "drive" \in DriveRequires[s]
             PROVE  /\ \A d : d \in Drivers <=> s \in started /\ PartDrives(s, d)
                    /\ "DriveTeleOp" \notin started
  OBVIOUS
<1>1. started \subseteq active /\ \A t \in Active : t = s
  BY DEF Control, TypeOK, SchedulerTypeOK, OneSequence, Present, Active
<1>2. ASSUME NEW c \in started \cap DrivingCommands PROVE FALSE
  <2>1. c \in active /\ s \in active /\ c # s /\ "drive" \in DriveRequires[c]
    BY <1>1, RequiresFacts, CommandFacts DEF Active
  <2> QED
    BY <2>1, OneNeedsDrive DEF Control
<1> QED
  BY <1>1, <1>2, DriverCases DEF DrivingCommands

LEMMA SequenceAloneNext ==
  (Control =>
     \A s \in Active : "drive" \in DriveRequires[s] =>
       /\ \A d : d \in Drivers <=> s \in started /\ PartDrives(s, d)
       /\ "DriveTeleOp" \notin started)'
BY SequenceAlone, PTL

\* Before it is started a sequence has come to no entry that drives but for
\* its first drive, and shoots with no child.
LEMMA FirstTurnParts ==
  ASSUME Control, NEW s \in Active, s \notin started
  PROVE  /\ "StartShooting" \notin children
         /\ leaf # "fresh" /\ NeedsDrive(EntryOf(s).command) =>
              EntryOf(s).command \in AutonDrives
         /\ leaf = "running" => turn = "children"
<1>1. FirstTurnOf(s) /\ GroupOf(s)
  BY DEF Control, FirstTurn, GroupInv
<1>2. "StartShooting" \notin children
  <2>1. NeedsDrive("StartShooting")
    BY DEF NeedsDrive, EntryRequires, AutonDrives
  <2> QED
    BY <1>1, <2>1 DEF FirstTurnOf, GroupOf
<1>3. ASSUME leaf # "fresh", NeedsDrive(EntryOf(s).command)
      PROVE  EntryOf(s).command \in AutonDrives
  <2>1. entry \in 1 .. Len(Entries[s]) /\ EntryOf(s).command = CommandAt(s, entry)
    BY <1>3, GroupParts DEF EntryOf, CommandAt
  <2> QED
    BY <1>1, <1>3, <2>1, DrivesFirst DEF FirstTurnOf, Active
<1> QED
  BY <1>1, <1>2, <1>3 DEF FirstTurnOf

\* A step in the middle of the turn that leaves the driving parts as they are.
LEMMA PartsKept ==
  ASSUME Control, Control', NEW s, Active = {s}, Active' = {s},
         UNCHANGED started,
         \A d : PartDrives(s, d)' <=> PartDrives(s, d)
  PROVE  Drivers' = Drivers
<1>1. \A d : d \in Drivers' <=> d \in Drivers
  BY DriverCases, DriverCasesNext
<1> QED
  BY <1>1 DEF Drivers

LEMMA EntriesDoneMotors ==
  ASSUME IInv, Control', NEW s \in AutonSequences, RunSequence(s), EntriesDone(s)
  PROVE  MotorInv'
<1>1. Control
  BY DEF IInv
<1>2. /\ UNCHANGED <<started, active, entry, leaf, children, motors, command>>
      /\ turn' = "children" /\ Active = {s} /\ entry > Len(Entries[s])
  BY <1>1, TurnFacts DEF EntriesDone
<1>3. Active' = {s} /\ EntryOf(s)' = EntryOf(s)
  BY <1>2 DEF Active, EntryOf
<1>4. Drivers' = Drivers
  <2>1. \A d : PartDrives(s, d)' <=> PartDrives(s, d)
    BY <1>2, <1>3 DEF PartDrives
  <2> QED
    BY <1>1, <1>2, <1>3, <2>1, PartsKept
<1>5. entry \in Nat \ {0} /\ Len(Entries[s]) \in Nat
  BY <1>1, <1>2, GroupParts
<1>6. TurnedStill'
  BY <1>2, <1>3, <1>5 DEF TurnedStill
<1>7. ~Runs(s, SoleDrives)'
  <2>1. leaf = "fresh"
    BY <1>1, <1>2, <1>5 DEF Control, GroupInv, GroupOf
  <2> QED
    BY <1>2, <2>1 DEF Runs
<1>8. aiming' = aiming /\ stable_count_' = stable_count_ /\ UNCHANGED motors
  BY <1>2 DEF command, counters
<1> QED
  BY <1>2, <1>3, <1>4, <1>6, <1>7, <1>8, MotorsKept

LEMMA RunChildMotors ==
  ASSUME IInv, Control', NEW s \in AutonSequences, RunSequence(s),
         NEW c \in todo, RunChild(s, c)
  PROVE  MotorInv'
<1>1. Control /\ TurnedStill
  BY DEF IInv, MotorInv
<1>2. PICK done \in BOOLEAN :
        /\ RunParallelPart(c, done)
        /\ children' = IF done THEN children \ {c} ELSE children
  BY DEF RunChild
<1>3. /\ UNCHANGED <<torun, started, active, entry, leaf, turn>>
      /\ turn = "children" /\ Active = {s} /\ c \in children
      /\ UNCHANGED phase
  <2>1. phase' = phase
    BY DEF RunSequence, EndTurn, RunChild, Turn
  <2> QED
    BY <1>1, <2>1, TurnFacts DEF RunChild, Turn, Control, TypeOK
<1>4. Active' = {s} /\ EntryOf(s)' = EntryOf(s)
  BY <1>3 DEF Active, EntryOf
<1>5. GroupOf(s) /\ children \subseteq ParallelParts
      /\ entry \in Nat \ {0} /\ Len(Entries[s]) \in Nat
  BY <1>1, <1>3, GroupParts DEF Control, GroupInv
<1>6. TurnedStill'
  BY <1>3, <1>4, <1>5 DEF TurnedStill, GroupOf
<1>7. CASE c # "StartShooting"
  <2>1. UNCHANGED <<motors, command>>
    BY <1>2, <1>3, <1>5, <1>7, ChildLeavesDrive
  <2>2. \A d : PartDrives(s, d)' <=> PartDrives(s, d)
    BY <1>2, <1>3, <1>4, <1>7 DEF PartDrives
  <2>3. Drivers' = Drivers
    BY <1>1, <1>3, <1>4, <2>2, PartsKept
  <2>4. /\ aiming' = aiming /\ stable_count_' = stable_count_ /\ UNCHANGED motors
        /\ UNCHANGED counters
    BY <2>1 DEF command, counters
  <2>5. Runs(s, SoleDrives)' => leaf = "running" /\ (AfterRun(s) => AfterRun(s)')
    BY <1>3 DEF Runs, AfterRun
  <2> QED
    BY <1>3, <1>4, <1>6, <2>3, <2>4, <2>5, MotorsKept
<1>8. CASE c = "StartShooting"
  <2>1. RunStartShooting(done)
    BY <1>2, <1>8 DEF RunParallelPart, InstantCommands
  <2>2. s \in started
    BY <1>1, <1>3, <1>8, FirstTurnParts
  <2>3. PartDrives(s, "StartShooting")
    BY <1>3, <1>8 DEF PartDrives
  <2>4. "drive" \in DriveRequires[s]
    BY <1>1, <1>3, <2>3, PartNeedsDrive
  <2>5. \A d : d \in Drivers <=> PartDrives(s, d)
    BY <1>1, <1>3, <2>2, <2>4, SequenceAlone
  <2>6. \A d : PartDrives(s, d) <=> d = "StartShooting"
    BY <1>1, <1>3, <2>3, OnePartDrives
  <2>7. ~Runs(s, SoleDrives)
    <3>1. \A d \in SoleDrives : NeedsDrive(d) /\ d # "StartShooting"
      BY DEF SoleDrives, NeedsDrive, EntryRequires, AutonDrives
    <3> QED
      BY <1>3, <1>5, <1>8, <3>1 DEF Runs, GroupOf
  <2>8. \A d : PartDrives(s, d)' <=> d = "StartShooting" /\ ~done
    <3>1. ~(leaf = "running" /\ EntryOf(s).command \in DrivingParts)
      <4>1. leaf = "running" /\ EntryOf(s).command \in DrivingParts =>
              NeedsDrive(EntryOf(s).command)
        BY <1>1, <1>3, GroupParts, PartFacts
      <4> QED
        BY <1>3, <1>5, <1>8, <4>1 DEF GroupOf
    <3> QED
      BY <1>2, <1>3, <1>4, <1>8, <3>1 DEF PartDrives
  <2>9. \A d : d \in Drivers' <=> d = "StartShooting" /\ ~done
    <3>1. \A d : d \in Drivers' <=> PartDrives(s, d)'
      BY <1>3, <1>4, <2>2, <2>4, SequenceAloneNext
    <3> QED
      BY <2>8, <3>1
  <2>10. ~Runs(s, SoleDrives)'
    BY <1>3, <1>4, <2>7 DEF Runs
  <2>11. "DriveTeleOp" \notin started'
    BY <1>1, <1>3, <2>4, SequenceAlone
  <2>12. /\ Drivers \subseteq {"StartShooting"}
         /\ Drivers' = IF done THEN {} ELSE {"StartShooting"}
    BY <2>5, <2>6, <2>9
  <2> QED
    BY <1>4, <1>6, <2>1, <2>10, <2>11, <2>12, MotorsShoot
<1> QED
  BY <1>7, <1>8

LEMMA EndTurnMotors ==
  ASSUME IInv, Control', NEW s \in AutonSequences, RunSequence(s), EndTurn(s)
  PROVE  MotorInv'
<1>1. Control /\ SetpointInv /\ AimingInv /\ GyroOffOnlyPlacing /\ SettingsInv
      /\ CountInv /\ LagInv
  BY DEF IInv, MotorInv
<1>2. /\ Active = {s} /\ s \in Active /\ s \in torun /\ phase = "run"
      /\ turn = "children" /\ UNCHANGED <<motors, aiming>>
  BY <1>1, TurnFacts DEF EndTurn, Turn
<1>3. GroupOf(s) /\ entry \in Nat \ {0} /\ Len(Entries[s]) \in Nat
  BY <1>1, <1>2, GroupParts DEF Control, GroupInv
<1>4. s \notin DrivingCommands
  BY CommandFacts
<1>5. CASE /\ entry > Len(Entries[s]) /\ children = {}
           /\ Finish(s, additions) /\ LeaveGroup /\ Forget
  <2>1. leaf = "fresh"
    BY <1>3, <1>5 DEF GroupOf
  <2>2. Active' = {}
    BY <1>2, <1>5 DEF Active, Finish
  <2>3. \A d : ~PartDrives(s, d)
    BY <1>5, <2>1 DEF PartDrives
  <2>4. started' = started \ {s}
    BY <1>5 DEF Finish
  <2>5. \A d : d \in Drivers' <=> d \in Drivers
    BY <1>1, <1>2, <1>4, <2>2, <2>3, <2>4, DriverCases, DriverCasesNext
  <2>6. Drivers' = Drivers
    BY <2>5 DEF Drivers
  <2>7. TurnedStill'
    BY <2>2 DEF TurnedStill
  <2>8. stable_count_' = 0
    BY <1>5 DEF Forget
  <2> QED
    BY <1>2, <2>2, <2>4, <2>6, <2>7, <2>8, MotorsKept
<1>6. CASE /\ KeepRunning(s) /\ turn' = "entries"
           /\ UNCHANGED <<entry, leaf, children, todo, counters>>
  <2>1. /\ started' = started \cup {s} /\ active' = active
        /\ torun' = torun \ {s} /\ phase' = phase
    BY <1>6 DEF KeepRunning
  <2>2. Active' = {s} /\ EntryOf(s)' = EntryOf(s)
    BY <1>2, <1>6, <2>1 DEF Active, EntryOf
  <2>3. \A d : PartDrives(s, d)' <=> PartDrives(s, d)
    BY <1>6, <2>2 DEF PartDrives
  <2>4. TurnedStill'
    BY <1>2, <1>3, <1>6, <2>2 DEF TurnedStill, GroupOf
  <2>5. AfterRun(s)' /\ "DriveTeleOp" # s /\ stable_count_' = stable_count_
    BY <1>2, <1>4, <1>6, <2>1 DEF AfterRun, DrivingCommands, counters
  <2>6. Runs(s, SoleDrives)' => leaf = "running"
    BY <1>6 DEF Runs
  <2>7. CASE s \in started \/ \A d : ~PartDrives(s, d)
    <3>1. \A d : d \in Drivers' <=> d \in Drivers
      BY <1>1, <1>2, <1>4, <2>1, <2>2, <2>3, <2>7, DriverCases, DriverCasesNext
    <3>2. Drivers' = Drivers
      BY <3>1 DEF Drivers
    <3> QED
      BY <1>2, <1>6, <2>1, <2>2, <2>4, <2>5, <2>6, <3>2, MotorsKept
\* The first Run has begun a drive.
  <2>8. ASSUME s \notin started, NEW c, PartDrives(s, c)
        PROVE  MotorInv'
    <3>1. "drive" \in DriveRequires[s]
      BY <1>1, <1>2, <2>8, PartNeedsDrive
    <3>2. Drivers = {} /\ "DriveTeleOp" \notin started'
      BY <1>1, <1>2, <2>1, <2>5, <2>8, <3>1, SequenceAlone
    <3>3. Runs(s, AutonDrives) /\ c \in AutonDrives
      <4>1. "StartShooting" \notin children
        BY <1>1, <1>2, <2>8, FirstTurnParts
      <4>2. leaf = "running" /\ c = EntryOf(s).command /\ c \in DrivingParts
        BY <2>8, <4>1 DEF PartDrives
      <4>3. NeedsDrive(c)
        BY <1>1, <1>2, <4>2, GroupParts, PartFacts
      <4>4. c \in AutonDrives
        BY <1>1, <1>2, <2>8, <4>2, <4>3, FirstTurnParts
      <4> QED
        BY <4>2, <4>4 DEF Runs
    <3>4. stable_count_ = 0
      BY <1>1, <1>2, <2>8, <3>3 DEF Control, FirstTurn, FirstTurnOf
    <3>5. \A d : d \in Drivers' <=> d = c
      BY <1>1, <1>2, <2>1, <2>2, <2>3, <2>8, <3>1, OnePartDrives,
         SequenceAloneNext
    <3>6. Drivers' = {c}
      BY <3>5
    <3>7. /\ UNCHANGED <<settings, setpoint, gyro_disabled_, zeroLag, aiming>>
          /\ UNCHANGED <<zero_count_, stable_count_, is_cruising_>>
      BY <1>2, <1>6 DEF motors, counters
    <3>8. aiming = "none" /\ setpoint \in {"stop", "PlaceGear"}
      BY <1>1, <3>2 DEF AimingInv, SetpointInv
    <3>9. SetpointInv'
      BY <3>3, <3>4, <3>6, <3>7, <3>8 DEF SetpointInv, AutonDrives
    <3>10. AimingInv'
      BY <3>7, <3>8 DEF AimingInv
    <3>11. GyroOffOnlyPlacing'
      <4>1. /\ gyro_disabled_' = gyro_disabled_
            /\ "PlaceGear" \notin Drivers /\ "PlaceGear" \notin Drivers'
        BY <3>2, <3>3, <3>6, <3>7 DEF AutonDrives
      <4> QED
        BY <1>1, <4>1, Zenon DEF GyroOffOnlyPlacing
    <3>12. \A W : Runs(s, W)' <=> Runs(s, W)
      BY <1>6, <2>2 DEF Runs
    <3>13. SettingsInv'
      <4>1. SetpointFitsSettings'
        <5>1. SetpointFitsSettings /\ settings = "drive_auton"
          BY <1>1, <1>2, <3>3 DEF SettingsInv
        <5>2. setpoint # "PlaceGear"
          BY <3>2, <5>1 DEF SetpointFitsSettings
        <5> QED
          BY <3>7, <5>1, <5>2 DEF SetpointFitsSettings
      <4> QED
        BY <1>1, <1>2, <2>2, <3>2, <3>7, <3>8, <3>12, <4>1 DEF SettingsInv
    <3>14. CountInv'
      BY <1>1, <1>2, <2>2, <3>7, <3>8, <3>12 DEF CountInv
    <3>15. LagInv'
      <4>1. AfterRun(s)
        BY <1>2 DEF AfterRun
      <4> QED
        BY <1>1, <1>2, <2>2, <2>5, <3>7, <3>12, <4>1 DEF LagInv
    <3> QED
      BY <2>4, <3>9, <3>10, <3>11, <3>13, <3>14, <3>15 DEF MotorInv
  <2> QED
    BY <2>7, <2>8
<1> QED
  BY <1>5, <1>6 DEF EndTurn

LEMMA EnterEntryMotors ==
  ASSUME IInv, Control', NEW s \in AutonSequences, RunSequence(s), EnterEntry(s)
  PROVE  MotorInv'
<1> DEFINE c == EntryOf(s).command
           P == ChildrenInTheWay(c)
<1>1. Control /\ SetpointInv /\ AimingInv /\ GyroOffOnlyPlacing /\ SettingsInv
      /\ CountInv /\ LagInv /\ TurnedStill
  BY DEF IInv, MotorInv
<1>2. /\ Active = {s} /\ s \in Active
      /\ UNCHANGED <<torun, started, active, turn, todo, lights, counters>>
      /\ entry <= Len(Entries[s]) /\ leaf = "fresh"
      /\ EndParts(P)
  BY <1>1, TurnFacts DEF EnterEntry
<1>3. /\ entry \in 1 .. Len(Entries[s]) /\ Len(Entries[s]) \in Nat
      /\ c = CommandAt(s, entry)
      /\ EntryOf(s).parallel => c \in ParallelParts
      /\ children \subseteq ParallelParts
  BY <1>1, <1>2, GroupParts DEF EntryOf, CommandAt
<1>4. Active' = {s}
  BY <1>2 DEF Active
<1>5. started \subseteq active
  BY <1>1 DEF Control, TypeOK, SchedulerTypeOK
<1>6. P \subseteq children
  BY DEF ChildrenInTheWay
<1>7. /\ setpoint' = IF \/ P \cap EndStops # {}
                        \/ ("StartShooting" \in P /\ aiming = "aiming")
                     THEN "stop" ELSE setpoint
      /\ gyro_disabled_' = GyroAfter(P)
      /\ aiming' = IF "StartShooting" \in P THEN "none" ELSE aiming
      /\ UNCHANGED <<settings, zeroLag>>
  BY <1>2 DEF EndParts
<1>8. leaf' # "running"
  BY <1>2 DEF EnterEntry
<1>9. ~Runs(s, SoleDrives)'
  BY <1>8 DEF Runs
<1>10. \A d : PartDrives(s, d) <=> d = "StartShooting" /\ d \in children
  BY <1>2 DEF PartDrives
<1>11. \A d : PartDrives(s, d)' <=> d = "StartShooting" /\ d \in children'
  BY <1>8 DEF PartDrives
<1> HIDE DEF P
<1>12. CASE ~(EntryOf(s).parallel /\ c = "StartShooting")
  <2>1. "StartShooting" \in children' <=>
          "StartShooting" \in children /\ "StartShooting" \notin P
    BY <1>12 DEF EnterEntry, P
  <2>2. ASSUME NEW d \in started \cap DrivingCommands, d \in P
        PROVE  FALSE
    <3>1. d = "StartShooting"
      BY <1>3, <1>6, <2>2
      DEF ParallelParts, InstantCommands, DrivingCommands
    <3>2. "drive" \in DriveRequires[s]
      BY <1>1, <1>2, <1>6, <1>10, <2>2, <3>1, PartNeedsDrive
    <3>3. d \in active /\ s \in active /\ d # s /\ "drive" \in DriveRequires[d]
      BY <1>2, <1>5, CommandFacts, RequiresFacts DEF Active
    <3> QED
      BY <1>1, <3>2, <3>3, OneNeedsDrive DEF Control
  <2>3. \A d : d \in Drivers' <=> d \in Drivers /\ d \notin P
    <3>1. \A d : PartDrives(s, d)' <=> PartDrives(s, d) /\ d \notin P
      BY <1>10, <1>11, <2>1
    <3> QED
      BY <1>1, <1>2, <1>4, <2>2, <3>1, DriverCases, DriverCasesNext
  <2>4. Drivers' = Drivers \ P
    BY <2>3 DEF Drivers
  <2>5. TurnedStill'
    <3>1. CASE EntryOf(s).parallel
      <4>1. entry' = entry + 1
        BY <3>1 DEF EnterEntry
      <4>2. CommandAt(s, entry' - 1) # "GyroAzimuth"
        BY <1>3, <3>1, <4>1 DEF ParallelParts, InstantCommands
      <4> QED
        BY <1>4, <4>2 DEF TurnedStill
    <3>2. CASE ~EntryOf(s).parallel
      <4>1. leaf' # "fresh"
        BY <3>2 DEF EnterEntry
      <4> QED
        BY <1>4, <4>1 DEF TurnedStill
    <3> QED
      BY <3>1, <3>2
  <2>6. stable_count_' = stable_count_ /\ settings' = settings
    BY <1>2, <1>7 DEF counters
  <2>7. P \cap EndStops # {} \/ ("StartShooting" \in P /\ aiming = "aiming") =>
          setpoint' = "stop"
    BY <1>7
  <2>8. setpoint' \in {setpoint, "stop"}
    BY <1>7
  <2> QED
    BY <1>2, <1>4, <1>7, <1>9, <2>4, <2>5, <2>6, <2>7, <2>8, MotorsEase
\* The sequence has just turned, and goes on to shoot beside what follows.
<1>13. CASE EntryOf(s).parallel /\ c = "StartShooting"
  <2>1. /\ entry' = entry + 1 /\ leaf' = leaf
        /\ children' = (children \ P) \cup {c}
    BY <1>13 DEF EnterEntry, P
  <2>2. "drive" \in DriveRequires[s] /\ NeedsDrive(c)
    <3>1. NeedsDrive(c)
      BY <1>13 DEF NeedsDrive, EntryRequires, AutonDrives
    <3> QED
      BY <1>3, <3>1, RequiresFacts
  <2>3. s \in started
    <3>1. SUFFICES ASSUME s \notin started PROVE FALSE
      OBVIOUS
    <3>2. \A i \in 1 .. entry - 1 : ~NeedsDrive(CommandAt(s, i))
      BY <1>1, <1>2, <3>1 DEF Control, FirstTurn, FirstTurnOf
    <3>3. c \in AutonDrives
      BY <1>3, <2>2, <3>2, DrivesFirst
    <3> QED
      BY <1>13, <3>3 DEF AutonDrives
  <2>4. setpoint = "stop"
    <3>1. entry > 1 /\ CommandAt(s, entry - 1) = "GyroAzimuth"
      <4>1. WellFormed(Entries[s])
        BY CommandFacts, EntryFacts
      <4>2. Entries[s][entry].command = "StartShooting"
        BY <1>13 DEF EntryOf
      <4> QED
        BY <1>3, <4>1, <4>2 DEF WellFormed, CommandAt
    <3> QED
      BY <1>1, <1>2, <1>3, <3>1 DEF TurnedStill
  <2>5. "StartShooting" \in children => "StartShooting" \in P
    <3>1. "drive" \in EntryRequires("StartShooting")
      BY DEF EntryRequires, AutonDrives
    <3> QED
      BY <1>13, <3>1 DEF ChildrenInTheWay, P
  <2>6. \A d : d \in Drivers <=> d = "StartShooting" /\ d \in children
    BY <1>1, <1>2, <1>10, <2>2, <2>3, SequenceAlone
  <2>7. \A d : d \in Drivers' <=> d = "StartShooting"
    BY <1>2, <1>4, <1>11, <1>13, <2>1, <2>2, <2>3, SequenceAloneNext
  <2>8. Drivers' = {"StartShooting"} /\ "PlaceGear" \notin Drivers
    BY <2>6, <2>7
  <2>9. setpoint' = "stop" /\ aiming' = "none" /\ settings' = settings
    BY <1>1, <1>7, <2>4, <2>5, <2>6 DEF AimingInv
  <2>10. SetpointInv' /\ AimingInv'
    BY <2>8, <2>9 DEF SetpointInv, AimingInv, AutonDrives
  <2>11. GyroOffOnlyPlacing'
    <3>1. ~gyro_disabled_
      BY <1>1, <2>8, Zenon DEF GyroOffOnlyPlacing
    <3>2. ~gyro_disabled_'
      BY <1>7, <3>1, Zenon DEF GyroAfter
    <3>3. "PlaceGear" \notin Drivers'
      BY <2>8
    <3> QED
      BY <3>2, <3>3, Zenon DEF GyroOffOnlyPlacing
  <2>12. \A W \in SUBSET SoleDrives : ~Runs(s, W)'
    BY <1>8 DEF Runs
  <2>13. /\ AutonDrives \in SUBSET SoleDrives /\ {"PlaceGear"} \in SUBSET SoleDrives
         /\ {"PlaceGear", "GyroAzimuth"} \in SUBSET SoleDrives
         /\ AutonDrives \cup {"PlaceGear"} \in SUBSET SoleDrives
         /\ SoleDrives \in SUBSET SoleDrives
    BY DEF SoleDrives
  <2>14. SettingsInv'
    <3>1. "DriveTeleOp" \notin started'
      BY <1>1, <1>2, <2>2, SequenceAlone
    <3>2. SetpointFitsSettings'
      BY <2>9 DEF SetpointFitsSettings
    <3> QED
      BY <1>4, <2>9, <2>12, <2>13, <3>1, <3>2 DEF SettingsInv
  <2>15. CountInv' /\ LagInv'
    BY <1>4, <2>9, <2>12, <2>13 DEF CountInv, LagInv
  <2>16. TurnedStill'
    BY <2>9 DEF TurnedStill
  <2> QED
    BY <2>10, <2>11, <2>14, <2>15, <2>16 DEF MotorInv
<1> QED
  BY <1>12, <1>13

\* The Run of the sequential entry: what it does besides its own.
LEMMA RunEntryFacts ==
  ASSUME IInv, NEW s \in AutonSequences, RunSequence(s), RunEntry(s)
  PROVE  /\ Active = {s} /\ s \in Active /\ Active' = {s}
         /\ UNCHANGED <<started, children>>
         /\ EntryOf(s).command \in SequentialParts
         /\ EntryOf(s).command = CommandAt(s, entry)
         /\ leaf \in {"entered", "running"} /\ ~AfterRun(s)
         /\ \E done \in BOOLEAN :
              /\ RunPart(EntryOf(s).command, leaf = "entered", done)
              /\ done => leaf' = "fresh" /\ entry' = entry + 1
              /\ ~done => /\ leaf' = "running" /\ AfterRun(s)'
                          /\ EntryOf(s)' = EntryOf(s)
<1>1. Control
  BY DEF IInv
<1>2. /\ Active = {s} /\ s \in torun
      /\ UNCHANGED <<torun, started, active, children>>
      /\ leaf # "fresh" /\ turn = "entries" /\ phase = "run"
  BY <1>1, TurnFacts DEF RunEntry, Turn
<1>3. phase' = phase
  BY DEF RunSequence, RunEntry, EndTurn, Turn
<1>4. leaf \in {"entered", "running"}
  BY <1>1, <1>2 DEF Control, TypeOK
<1>5. EntryOf(s).command \in SequentialParts
  BY <1>1, <1>2, GroupParts
<1>6. ~AfterRun(s)
  BY <1>2 DEF AfterRun
<1>7. PICK done \in BOOLEAN :
        /\ RunPart(EntryOf(s).command, leaf = "entered", done)
        /\ IF done
           THEN /\ entry' = entry + 1
                /\ leaf' = "fresh"
                /\ UNCHANGED <<turn, todo>>
           ELSE /\ leaf' = "running"
                /\ turn' = "children"
                /\ todo' = children
                /\ UNCHANGED entry
  BY DEF RunEntry
<1>8. ~done => AfterRun(s)' /\ EntryOf(s)' = EntryOf(s)
  BY <1>2, <1>3, <1>7 DEF AfterRun, EntryOf
<1>9. Active' = {s}
  BY <1>2 DEF Active
<1> QED
  BY <1>2, <1>4, <1>5, <1>6, <1>7, <1>8, <1>9 DEF EntryOf, CommandAt

\* A sequential entry that drives: it is the one that drives from its first
\* Run, or for the first drive from the end of it, to its last.
LEMMA DrivingEntry ==
  ASSUME IInv, Control', NEW s \in AutonSequences, RunSequence(s), RunEntry(s),
         EntryOf(s).command \in DrivingParts
  PROVE  /\ leaf = "running" => s \in started
         /\ s \notin started => EntryOf(s).command \in AutonDrives
         /\ Drivers = IF leaf = "running" THEN {EntryOf(s).command} ELSE {}
         /\ leaf' = "running" /\ EntryOf(s)' = EntryOf(s) =>
              Drivers' = IF s \in started THEN {EntryOf(s).command} ELSE {}
         /\ leaf' = "fresh" => Drivers' = {}
         /\ "DriveTeleOp" \notin started'
<1> DEFINE c == EntryOf(s).command
<1>1. Control
  BY DEF IInv
<1>2. /\ Active = {s} /\ s \in Active /\ Active' = {s}
      /\ UNCHANGED <<started, children>>
      /\ c = CommandAt(s, entry) /\ c \in SequentialParts
      /\ leaf \in {"entered", "running"} /\ turn = "entries"
  BY RunEntryFacts DEF RunEntry, Turn
<1>3. entry \in 1 .. Len(Entries[s])
  BY <1>1, <1>2, GroupParts
<1>4. NeedsDrive(c)
  BY <1>2, PartFacts
<1>5. "drive" \in DriveRequires[s]
  BY <1>2, <1>3, <1>4, RequiresFacts
<1>6. "StartShooting" \notin children
  BY <1>1, <1>2, <1>4 DEF Control, GroupInv, GroupOf
<1>7. /\ leaf = "running" => s \in started
      /\ s \notin started => c \in AutonDrives
  BY <1>1, <1>2, <1>4, FirstTurnParts
<1>8. \A d : PartDrives(s, d) <=> leaf = "running" /\ d = c
  BY <1>6 DEF PartDrives
<1>9. Drivers = IF leaf = "running" THEN {c} ELSE {}
  <2>1. \A d : d \in Drivers <=> leaf = "running" /\ d = c
    BY <1>1, <1>2, <1>5, <1>7, <1>8, SequenceAlone
  <2> QED
    BY <2>1
<1>10. ASSUME EntryOf(s)' = EntryOf(s) \/ leaf' = "fresh"
       PROVE  Drivers' = IF leaf' = "running" /\ s \in started THEN {c} ELSE {}
  <2>1. \A d : PartDrives(s, d)' <=> leaf' = "running" /\ d = c
    BY <1>2, <1>6, <1>10 DEF PartDrives
  <2>2. \A d : d \in Drivers' <=> s \in started /\ leaf' = "running" /\ d = c
    BY <1>2, <1>5, <2>1, SequenceAloneNext
  <2> QED
    BY <2>2
<1>11. "DriveTeleOp" \notin started'
  BY <1>1, <1>2, <1>5, SequenceAlone
<1> QED
  BY <1>7, <1>9, <1>10, <1>11

\* The entry does not drive.
LEMMA IdleEntryMotors ==
  ASSUME IInv, Control', NEW s \in AutonSequences, RunSequence(s), RunEntry(s),
         EntryOf(s).command \notin DrivingParts
  PROVE  MotorInv'
<1> DEFINE c == EntryOf(s).command
<1>1. Control
  BY DEF IInv
<1>2. /\ Active = {s} /\ s \in Active /\ Active' = {s}
      /\ UNCHANGED <<started, children>>
      /\ c \in SequentialParts /\ c = CommandAt(s, entry)
  BY RunEntryFacts
<1>3. PICK done \in BOOLEAN :
        /\ RunPart(c, leaf = "entered", done)
        /\ done => leaf' = "fresh" /\ entry' = entry + 1
        /\ ~done => /\ leaf' = "running" /\ AfterRun(s)'
                    /\ EntryOf(s)' = EntryOf(s)
  BY RunEntryFacts
<1>4. UNCHANGED <<motors, command>>
  BY <1>3 DEF RunPart, RunParallelPart, RunInstant, DrivingParts
<1>5. \A d : PartDrives(s, d)' <=> PartDrives(s, d)
  BY <1>2, <1>3 DEF PartDrives
<1>6. Drivers' = Drivers
  BY <1>1, <1>2, <1>5, PartsKept
<1>7. entry \in Nat
  BY <1>1 DEF Control, TypeOK
<1>8. TurnedStill'
  <2>1. leaf' = "fresh" => CommandAt(s, entry' - 1) = c
    BY <1>2, <1>3, <1>7
  <2> QED
    BY <1>2, <2>1 DEF TurnedStill, DrivingParts
<1>9. ~Runs(s, SoleDrives)'
  BY <1>3 DEF Runs, SoleDrives, DrivingParts
<1>10. aiming' = aiming /\ stable_count_' = stable_count_ /\ UNCHANGED motors
  BY <1>4 DEF command, counters
<1> QED
  BY <1>2, <1>6, <1>8, <1>9, <1>10, MotorsKept

\* The entry shoots.
LEMMA ShootEntryMotors ==
  ASSUME IInv, Control', NEW s \in AutonSequences, RunSequence(s), RunEntry(s),
         EntryOf(s).command = "StartShooting"
  PROVE  MotorInv'
<1> DEFINE c == EntryOf(s).command
<1>1. Control
  BY DEF IInv
<1>2. /\ Active = {s} /\ s \in Active /\ Active' = {s}
      /\ UNCHANGED <<started, children>>
      /\ c = CommandAt(s, entry)
  BY RunEntryFacts
<1>3. PICK done \in BOOLEAN :
        /\ RunPart(c, leaf = "entered", done)
        /\ done => leaf' = "fresh" /\ entry' = entry + 1
        /\ ~done => /\ leaf' = "running" /\ AfterRun(s)'
                    /\ EntryOf(s)' = EntryOf(s)
  BY RunEntryFacts
<1>4. RunStartShooting(done)
  BY <1>3 DEF RunPart, RunParallelPart, AutonDrives, InstantCommands
<1>5. c \in DrivingParts /\ c \notin AutonDrives
  BY DEF DrivingParts, AutonDrives
<1>6. s \in started
  BY <1>5, DrivingEntry
<1>7. /\ Drivers \subseteq {"StartShooting"}
      /\ Drivers' = IF done THEN {} ELSE {"StartShooting"}
      /\ "DriveTeleOp" \notin started'
  BY <1>3, <1>5, <1>6, DrivingEntry
<1>8. entry \in Nat
  BY <1>1 DEF Control, TypeOK
<1>9. TurnedStill'
  <2>1. leaf' = "fresh" => CommandAt(s, entry' - 1) = c
    BY <1>2, <1>3, <1>8
  <2> QED
    BY <1>2, <2>1 DEF TurnedStill
<1>10. ~Runs(s, SoleDrives)'
  BY <1>3 DEF Runs, SoleDrives, AutonDrives
<1> QED
  BY <1>2, <1>4, <1>7, <1>9, <1>10, MotorsShoot

\* What has to be shown of a Run of an entry that drives on its own.
LEMMA SoleEntry ==
  ASSUME IInv, Control', NEW s \in AutonSequences, RunSequence(s), RunEntry(s),
         EntryOf(s).command \in SoleDrives,
         UNCHANGED aiming,
         setpoint' # "StartShooting",
         SetpointInv', GyroOffOnlyPlacing', SetpointFitsSettings',
         leaf' = "running" /\ EntryOf(s)' = EntryOf(s) =>
           /\ EntryOf(s).command \in AutonDrives => settings' = "drive_auton"
           /\ EntryOf(s).command \notin AutonDrives => settings' = Slow
           /\ stable_count_' < StableCountReq
           /\ EntryOf(s).command # "GyroAzimuth" =>
                /\ zero_count_' >= 1
                /\ zeroLag' = 0 \/ zeroLag' + zero_count_' <= ZeroLag + 1
                /\ EntryOf(s).command = "PlaceGear" =>
                     zero_count_' <= PlaceGearZeroCountReq
                /\ ZeroLag <= PlaceGearZeroCountReq =>
                     /\ EntryOf(s).command \in AutonDrives /\ stable_count_' > 0 =>
                          zeroLag' = 0
                     /\ EntryOf(s).command = "PlaceGear" /\ is_cruising_' =>
                          zeroLag' = 0,
         leaf' = "fresh" /\ EntryOf(s).command = "GyroAzimuth" =>
           setpoint' = "stop"
  PROVE  MotorInv'
<1> DEFINE c == EntryOf(s).command
<1>1. Control /\ AimingInv
  BY DEF IInv, MotorInv
<1>2. /\ Active' = {s} /\ c = CommandAt(s, entry)
      /\ \/ leaf' = "running" /\ AfterRun(s)' /\ EntryOf(s)' = EntryOf(s)
         \/ leaf' = "fresh" /\ entry' = entry + 1
  <2>1. \E done \in BOOLEAN :
          /\ done => leaf' = "fresh" /\ entry' = entry + 1
          /\ ~done => leaf' = "running" /\ AfterRun(s)' /\ EntryOf(s)' = EntryOf(s)
    BY RunEntryFacts
  <2>2. Active' = {s} /\ c = CommandAt(s, entry)
    BY RunEntryFacts
  <2> QED
    BY <2>1, <2>2
<1>3. c \in DrivingParts /\ c # "StartShooting"
  BY DEF SoleDrives, DrivingParts, AutonDrives
<1>4. aiming = "none" /\ aiming' = "none" /\ "DriveTeleOp" \notin started'
  BY <1>1, <1>3, DrivingEntry DEF AimingInv
<1>5. AimingInv'
  BY <1>4 DEF AimingInv
<1>6. \A W : Runs(s, W)' => /\ leaf' = "running" /\ EntryOf(s)' = EntryOf(s)
                            /\ c \in W /\ AfterRun(s)'
  BY <1>2 DEF Runs
<1>7. c # "GyroAzimuth" /\ c # "PlaceGear" <=> c \in AutonDrives
  BY DEF SoleDrives, AutonDrives
<1>8. SettingsInv'
  BY <1>2, <1>4, <1>6, <1>7 DEF SettingsInv
<1>9. CountInv'
  BY <1>2, <1>4, <1>6, <1>7 DEF CountInv
<1>10. LagInv'
  BY <1>2, <1>6, <1>7 DEF LagInv
<1>11. TurnedStill'
  <2>1. entry \in Nat
    BY <1>1 DEF Control, TypeOK
  <2>2. leaf' = "fresh" => CommandAt(s, entry' - 1) = c
    BY <1>2, <2>1
  <2> QED
    BY <1>2, <2>2 DEF TurnedStill
<1> QED
  BY <1>5, <1>8, <1>9, <1>10, <1>11 DEF MotorInv

\* A drive.
LEMMA DriveEntryMotors ==
  ASSUME IInv, Control', NEW s \in AutonSequences, RunSequence(s), RunEntry(s),
         EntryOf(s).command \in AutonDrives
  PROVE  MotorInv'
<1> DEFINE c == EntryOf(s).command
           isNew == leaf = "entered"
<1>1. /\ Control /\ SetpointInv /\ AimingInv /\ GyroOffOnlyPlacing /\ SettingsInv
      /\ CountInv /\ LagInv
  BY DEF IInv, MotorInv
<1>2. /\ s \in Active /\ leaf \in {"entered", "running"} /\ ~AfterRun(s)
      /\ UNCHANGED started
  BY RunEntryFacts
<1>3. PICK done \in BOOLEAN :
        /\ RunPart(c, leaf = "entered", done)
        /\ done => leaf' = "fresh" /\ entry' = entry + 1
        /\ ~done => /\ leaf' = "running" /\ AfterRun(s)'
                    /\ EntryOf(s)' = EntryOf(s)
  BY RunEntryFacts
<1>4. c \in DrivingParts /\ c \in SoleDrives
      /\ c # "GyroAzimuth" /\ c # "PlaceGear" /\ c # "StartShooting"
      /\ c # "DriveTeleOp" /\ c # "EnableBrake"
  BY DEF DrivingParts, SoleDrives, AutonDrives
<1>5. RunDrive(isNew, c = "TimedDrive", done)
  BY <1>3 DEF RunPart, RunParallelPart, AutonDrives, InstantCommands
<1>6. /\ leaf = "running" => s \in started
      /\ Drivers = IF leaf = "running" THEN {c} ELSE {}
      /\ Drivers' \subseteq {c}
      /\ done => Drivers' = {}
      /\ ~done /\ s \in started => Drivers' = {c}
      /\ ~done /\ ~isNew => Drivers' = {c}
  BY <1>2, <1>3, <1>4, DrivingEntry
<1>7. UNCHANGED <<gyro_disabled_, aiming>>
  BY <1>5 DEF RunDrive
<1>8. leaf = "running" =>
        /\ settings = "drive_auton" /\ stable_count_ < StableCountReq
        /\ zero_count_ >= 1
        /\ zeroLag = 0 \/ zeroLag + zero_count_ <= ZeroLag
        /\ setpoint \in {"stop", "Drive"} \/ (setpoint = "PlaceGear" /\ stable_count_ = 0)
  <2>1. leaf = "running" => Runs(s, AutonDrives) /\ Runs(s, SoleDrives)
                            /\ Runs(s, AutonDrives \cup {"PlaceGear"})
    BY <1>4 DEF Runs
  <2>2. leaf = "running" => Drivers \cap AutonDrives # {}
    BY <1>6
  <2> QED
    BY <1>1, <1>2, <2>1, <2>2 DEF SettingsInv, CountInv, LagInv, SetpointInv
<1>9. leaf = "entered" => setpoint \in {"stop", "PlaceGear"}
  BY <1>1, <1>6 DEF SetpointInv
<1>10. /\ zero_count_ \in Nat /\ stable_count_ \in Nat /\ zeroLag \in Nat
       /\ ZeroLag \in Nat
  BY <1>1, DriveAssumption
  DEF Control, TypeOK, DriveZeroCountReq, StableCountReq
<1>11. GyroOffOnlyPlacing'
  <2>1. "PlaceGear" \notin Drivers /\ "PlaceGear" \notin Drivers'
    BY <1>4, <1>6
  <2> QED
    BY <1>1, <1>7, <2>1, Zenon DEF GyroOffOnlyPlacing
<1>12. Drivers' \cap {"DriveTeleOp", "EnableBrake", "StartShooting",
                      "GyroAzimuth", "PlaceGear"} = {}
  BY <1>4, <1>6
<1> HIDE DEF c, isNew
\* The first Run.
<1>13. CASE /\ isNew /\ ~done
            /\ settings' = "drive_auton"
            /\ setpoint' = Reconfigured("drive_auton")
            /\ ZeroPosition
            /\ zero_count_' = 1
            /\ stable_count_' = 0
  <2>1. setpoint' \in {"stop", "PlaceGear"}
    BY <1>9, <1>13 DEF Reconfigured, isNew
  <2>2. SetpointInv'
    BY <1>12, <1>13, <2>1 DEF SetpointInv
  <2>3. SetpointFitsSettings'
    <3>1. setpoint' = "PlaceGear" => setpoint = "PlaceGear"
      BY <1>13 DEF Reconfigured
    <3>2. setpoint = "PlaceGear" => s \in started
      BY <1>2 DEF IInv, FreshInv, Present, Active
    <3>3. setpoint' = "PlaceGear" => Drivers' \cap AutonDrives # {}
      BY <1>6, <1>13, <3>1, <3>2 DEF c
    <3> QED
      BY <1>13, <2>1, <3>3 DEF SetpointFitsSettings
  <2>4. zeroLag' = ZeroLag
    BY <1>13 DEF ZeroPosition
  <2> QED
    BY <1>3, <1>4, <1>7, <1>10, <1>11, <1>13, <2>1, <2>2, <2>3, <2>4, SoleEntry
    DEF c, StableCountReq
\* It waits for the encoders.
<1>14. CASE /\ ~isNew /\ ~done
            /\ zero_count_ < DriveZeroCountReq
            /\ zero_count_' = zero_count_ + 1
            /\ stable_count_' = 0
            /\ UNCHANGED <<settings, setpoint, zeroLag>>
  <2>1. leaf = "running"
    BY <1>2, <1>14 DEF isNew
  <2>2. setpoint' \in {"stop", "Drive", "PlaceGear"}
    BY <1>8, <1>14, <2>1
  <2>3. SetpointInv'
    BY <1>6, <1>12, <1>14, <2>2 DEF SetpointInv
  <2>4. SetpointFitsSettings'
    <3>1. Drivers' \cap AutonDrives # {}
      BY <1>6, <1>14 DEF c
    <3> QED
      BY <1>8, <1>14, <2>1, <2>2, <3>1 DEF SetpointFitsSettings
  <2>5. zeroLag' = 0 \/ zeroLag' + zero_count_' <= ZeroLag + 1
    BY <1>8, <1>10, <1>14, <2>1
  <2> QED
    BY <1>3, <1>4, <1>7, <1>8, <1>10, <1>11, <1>14, <2>1, <2>2, <2>3, <2>4, <2>5,
       SoleEntry
    DEF c, StableCountReq
\* It drives, and may be done.
<1>15. CASE /\ ~isNew
            /\ zero_count_ = DriveZeroCountReq
            /\ \E close \in BOOLEAN :
                 /\ Count(close)
                 /\ setpoint' \in IF done THEN {"stop"}
                                  ELSE {"Drive"} \cup IF close THEN {"stop"} ELSE {}
            /\ IF done THEN c = "TimedDrive" \/ stable_count_' = StableCountReq
                       ELSE stable_count_' < StableCountReq
            /\ UNCHANGED <<settings, zero_count_, zeroLag>>
  <2>1. leaf = "running"
    BY <1>2, <1>15 DEF isNew
  <2>2. setpoint' \in {"stop", "Drive"} /\ (done => setpoint' = "stop")
    BY <1>15
  <2>3. SetpointInv'
    BY <1>6, <1>12, <1>15, <2>1, <2>2 DEF SetpointInv, isNew
  <2>4. SetpointFitsSettings'
    BY <1>8, <1>15, <2>1, <2>2 DEF SetpointFitsSettings
  <2>5. zeroLag' = 0 \/ zeroLag' + zero_count_' <= ZeroLag
    BY <1>8, <1>15, <2>1
  <2>6. ZeroLag <= PlaceGearZeroCountReq => zeroLag' = 0
    BY <1>10, <1>15, <2>5 DEF PlaceGearZeroCountReq, DriveZeroCountReq
  <2>7. ~done => stable_count_' < StableCountReq
    BY <1>15
  <2>8. zero_count_' >= 1
    BY <1>15 DEF DriveZeroCountReq
  <2>9. settings' = "drive_auton"
    BY <1>8, <1>15, <2>1
  <2>10. zeroLag' = 0 \/ zeroLag' + zero_count_' <= ZeroLag + 1
    BY <1>10, <1>15, <2>5
  <2> QED
    BY <1>3, <1>4, <1>7, <1>11, <2>2, <2>3, <2>4, <2>6, <2>7, <2>8, <2>9, <2>10,
       SoleEntry
    DEF c
<1> QED
  BY <1>5, <1>13, <1>14, <1>15 DEF RunDrive

\* A turn by the gyro.
LEMMA TurnEntryMotors ==
  ASSUME IInv, Control', NEW s \in AutonSequences, RunSequence(s), RunEntry(s),
         EntryOf(s).command = "GyroAzimuth"
  PROVE  MotorInv'
<1> DEFINE c == EntryOf(s).command
           isNew == leaf = "entered"
<1>1. Control /\ AimingInv /\ GyroOffOnlyPlacing /\ SettingsInv /\ CountInv
  BY DEF IInv, MotorInv
<1>2. s \in Active /\ leaf \in {"entered", "running"} /\ UNCHANGED started
  BY RunEntryFacts
<1>3. PICK done \in BOOLEAN :
        /\ RunPart(c, leaf = "entered", done)
        /\ done => leaf' = "fresh" /\ entry' = entry + 1
        /\ ~done => /\ leaf' = "running" /\ AfterRun(s)'
                    /\ EntryOf(s)' = EntryOf(s)
  BY RunEntryFacts
<1>4. c \in DrivingParts /\ c \in SoleDrives /\ c \notin AutonDrives
  BY DEF DrivingParts, SoleDrives, AutonDrives
<1>5. RunGyroAzimuth(isNew, done)
  BY <1>3 DEF RunPart, RunParallelPart, AutonDrives, InstantCommands
<1>6. /\ Drivers = IF leaf = "running" THEN {c} ELSE {}
      /\ Drivers' = IF done THEN {} ELSE {c}
  BY <1>2, <1>3, <1>4, DrivingEntry
<1>7. /\ UNCHANGED <<gyro_disabled_, aiming>> /\ settings' = Slow
      /\ setpoint' \in {"stop", "GyroAzimuth"}
      /\ done <=> stable_count_' = StableCountReq
  <2>1. ~isNew => settings = Slow
    BY <1>1, <1>2 DEF SettingsInv, Runs
  <2> QED
    BY <1>5, <2>1 DEF RunGyroAzimuth, Slow
<1>8. leaf = "running" => stable_count_ < StableCountReq
  BY <1>1, <1>2, <1>4 DEF CountInv, Runs
<1>9. stable_count_ \in Nat
  BY <1>1 DEF Control, TypeOK, StableCountReq
<1>10. ~done => stable_count_' < StableCountReq
  <2>1. CASE isNew
    BY <1>5, <2>1 DEF RunGyroAzimuth, StableCountReq
  <2>2. CASE ~isNew
    BY <1>2, <1>5, <1>8, <1>9, <2>2 DEF RunGyroAzimuth, Count, StableCountReq
  <2> QED
    BY <2>1, <2>2
<1>11. done => setpoint' = "stop"
  <2>1. PICK close \in BOOLEAN :
          /\ IF isNew THEN stable_count_' = IF close THEN 1 ELSE 0 ELSE Count(close)
          /\ setpoint' = IF close THEN "stop" ELSE "GyroAzimuth"
    BY <1>5 DEF RunGyroAzimuth
  <2>2. ~close => stable_count_' = 0
    BY <2>1 DEF Count
  <2> QED
    BY <1>7, <2>1, <2>2 DEF StableCountReq
<1>12. GyroOffOnlyPlacing'
  <2>1. "PlaceGear" \notin Drivers /\ "PlaceGear" \notin Drivers'
    BY <1>6
  <2> QED
    BY <1>1, <1>7, <2>1, Zenon DEF GyroOffOnlyPlacing
<1>13. SetpointInv'
  BY <1>6, <1>7, <1>11 DEF SetpointInv, AutonDrives
<1>14. SetpointFitsSettings'
  BY <1>7 DEF SetpointFitsSettings, Slow
<1> QED
  BY <1>3, <1>4, <1>7, <1>10, <1>11, <1>12, <1>13, <1>14, SoleEntry

\* The placing of a gear.
LEMMA PlaceEntryMotors ==
  ASSUME IInv, Control', NEW s \in AutonSequences, RunSequence(s), RunEntry(s),
         EntryOf(s).command = "PlaceGear"
  PROVE  MotorInv'
<1> DEFINE c == EntryOf(s).command
           isNew == leaf = "entered"
<1>1. /\ Control /\ SetpointInv /\ AimingInv /\ GyroOffOnlyPlacing /\ SettingsInv
      /\ CountInv /\ LagInv
  BY DEF IInv, MotorInv
<1>2. /\ s \in Active /\ leaf \in {"entered", "running"} /\ ~AfterRun(s)
      /\ UNCHANGED started
  BY RunEntryFacts
<1>3. PICK done \in BOOLEAN :
        /\ RunPart(c, leaf = "entered", done)
        /\ done => leaf' = "fresh" /\ entry' = entry + 1
        /\ ~done => /\ leaf' = "running" /\ AfterRun(s)'
                    /\ EntryOf(s)' = EntryOf(s)
  BY RunEntryFacts
<1>4. c \in DrivingParts /\ c \in SoleDrives /\ c \notin AutonDrives
  BY DEF DrivingParts, SoleDrives, AutonDrives
<1>5. RunPlaceGear(isNew, done)
  BY <1>3 DEF RunPart, RunParallelPart, AutonDrives, InstantCommands
<1>6. /\ Drivers = IF leaf = "running" THEN {"PlaceGear"} ELSE {}
      /\ Drivers' = IF done THEN {} ELSE {"PlaceGear"}
  BY <1>2, <1>3, <1>4, DrivingEntry
<1>7. UNCHANGED aiming
  BY <1>5 DEF RunPlaceGear
<1>8. leaf = "running" =>
        /\ settings = Slow /\ stable_count_ < StableCountReq
        /\ zero_count_ >= 1 /\ zero_count_ <= PlaceGearZeroCountReq
        /\ zeroLag = 0 \/ zeroLag + zero_count_ <= ZeroLag
        /\ setpoint \in {"stop", "PlaceGear"}
        /\ ZeroLag <= PlaceGearZeroCountReq /\ is_cruising_ => zeroLag = 0
  <2>1. leaf = "running" => /\ Runs(s, {"PlaceGear"}) /\ Runs(s, SoleDrives)
                            /\ Runs(s, {"PlaceGear", "GyroAzimuth"})
                            /\ Runs(s, AutonDrives \cup {"PlaceGear"})
    BY <1>4 DEF Runs
  <2>2. leaf = "running" => setpoint \in {"stop", "PlaceGear"}
    BY <1>1, <1>6 DEF SetpointInv
  <2> QED
    BY <1>1, <1>2, <2>1, <2>2 DEF SettingsInv, CountInv, LagInv
<1>9. leaf = "entered" => setpoint \in {"stop", "PlaceGear"}
  BY <1>1, <1>6 DEF SetpointInv
<1>10. /\ zero_count_ \in Nat /\ stable_count_ \in Nat /\ zeroLag \in Nat
       /\ ZeroLag \in Nat
  BY <1>1, DriveAssumption
  DEF Control, TypeOK, DriveZeroCountReq, StableCountReq
\* What it does to the set point and the settings.
<1>11. ASSUME setpoint' \in {"stop", "PlaceGear"}, settings' = Slow
       PROVE  SetpointInv' /\ SetpointFitsSettings'
  BY <1>6, <1>11 DEF SetpointInv, SetpointFitsSettings, AutonDrives, Slow
<1>12. ASSUME gyro_disabled_' <=> ~done
       PROVE  GyroOffOnlyPlacing'
  <2>1. "PlaceGear" \in Drivers' <=> ~done
    BY <1>6
  <2> QED
    BY <1>12, <2>1, Zenon DEF GyroOffOnlyPlacing
<1>13. leaf = "running" => gyro_disabled_
  <2>1. leaf = "running" => "PlaceGear" \in Drivers
    BY <1>6
  <2> QED
    BY <1>1, <2>1, Zenon DEF GyroOffOnlyPlacing
<1>14. CASE isNew /\ ~done /\ PlaceGearInitialize
  <2>1. /\ settings' = Slow /\ zero_count_' = 1 /\ stable_count_' = 0
        /\ zeroLag' = ZeroLag /\ setpoint' \in {"stop", "PlaceGear"}
    BY <1>9, <1>14
    DEF PlaceGearInitialize, PlaceGearSettings, Slow, ZeroPosition, Reconfigured
  <2>2. gyro_disabled_' /\ ~is_cruising_'
    BY <1>14, Zenon DEF PlaceGearInitialize
  <2>3. SetpointInv' /\ SetpointFitsSettings'
    BY <1>11, <2>1 DEF Slow
  <2>4. GyroOffOnlyPlacing'
    BY <1>12, <1>14, <2>2, Zenon
  <2>5. stable_count_' < StableCountReq /\ zero_count_' <= PlaceGearZeroCountReq
        /\ settings' = Slow
    BY <2>1 DEF StableCountReq, PlaceGearZeroCountReq
  <2>6. zeroLag' + zero_count_' <= ZeroLag + 1 /\ zero_count_' >= 1
    BY <1>10, <2>1
  <2>7. setpoint' # "StartShooting"
    BY <2>1
  <2> QED
    BY <1>4, <1>7, <2>2, <2>3, <2>4, <2>5, <2>6, <2>7, SoleEntry
\* It waits, for the encoders or for a target.
<1>15. CASE /\ ~isNew /\ ~done
            /\ zero_count_' \in {zero_count_, zero_count_ + 1}
            /\ zero_count_' <= PlaceGearZeroCountReq
            /\ UNCHANGED <<motors, stable_count_, is_cruising_>>
  <2>1. leaf = "running"
    BY <1>2, <1>15
  <2>2. UNCHANGED <<settings, setpoint, gyro_disabled_, zeroLag>>
    BY <1>15 DEF motors
  <2>3. SetpointInv' /\ SetpointFitsSettings'
    BY <1>8, <1>11, <2>1, <2>2
  <2>4. GyroOffOnlyPlacing'
    BY <1>12, <1>13, <1>15, <2>1, <2>2, Zenon
  <2>5. zeroLag' = 0 \/ zeroLag' + zero_count_' <= ZeroLag + 1
    <3>1. zeroLag = 0 \/ zeroLag + zero_count_ <= ZeroLag
      BY <1>8, <2>1
    <3>2. zeroLag' = zeroLag /\ zero_count_' \in {zero_count_, zero_count_ + 1}
      BY <1>15, <2>2
    <3>3. zero_count_' \in Nat /\ zero_count_' <= zero_count_ + 1
      BY <1>10, <3>2
    <3>4. \A l, z, w, m \in Nat :
            (l = 0 \/ l + z <= m) /\ w <= z + 1 => l = 0 \/ l + w <= m + 1
      OBVIOUS
    <3> QED
      BY <1>10, <3>1, <3>2, <3>3, <3>4, Zenon
  <2>6. zero_count_' >= 1
    BY <1>8, <1>10, <1>15, <2>1
  <2>7. /\ stable_count_' < StableCountReq /\ settings' = Slow
        /\ setpoint' # "StartShooting"
    BY <1>8, <1>15, <2>1, <2>2
  <2>8. ZeroLag <= PlaceGearZeroCountReq /\ is_cruising_' => zeroLag' = 0
    BY <1>8, <1>15, <2>1, <2>2
  <2> QED
    BY <1>4, <1>7, <1>15, <2>3, <2>4, <2>5, <2>6, <2>7, <2>8, SoleEntry
<1>16. CASE ~isNew /\ Approach(done)
  <2>1. leaf = "running"
    BY <1>2, <1>16
  <2>2. /\ zero_count_ = PlaceGearZeroCountReq /\ setpoint' = "PlaceGear"
        /\ UNCHANGED <<settings, zeroLag, zero_count_>>
    BY <1>16 DEF Approach
  <2>3. SetpointInv' /\ SetpointFitsSettings' /\ settings' = Slow
    BY <1>8, <1>11, <2>1, <2>2
  <2>4. GyroOffOnlyPlacing'
    <3>1. gyro_disabled_' = IF done THEN GyroAfter({"PlaceGear"}) ELSE gyro_disabled_
      BY <1>16 DEF Approach
    <3>2. ~GyroAfter({"PlaceGear"})
      BY DEF GyroAfter
    <3>3. gyro_disabled_' <=> ~done
      BY <1>13, <2>1, <3>1, <3>2, Zenon
    <3> QED
      BY <1>12, <3>3
  <2>5. zeroLag' = 0 \/ zeroLag' + zero_count_' <= ZeroLag
    BY <1>8, <2>1, <2>2
  <2>6. ZeroLag <= PlaceGearZeroCountReq => zeroLag' = 0
    BY <1>10, <2>2, <2>5 DEF PlaceGearZeroCountReq
  <2>7. zeroLag' = 0 \/ zeroLag' + zero_count_' <= ZeroLag + 1
    BY <1>10, <2>2, <2>5
  <2>8. ~done => stable_count_' < StableCountReq
    <3>1. CASE is_cruising_
      <4>1. /\ stable_count_' \in {0, stable_count_ + 1}
            /\ done = (stable_count_' = StableCountReq)
        BY <1>16, <3>1 DEF Approach
      <4>2. stable_count_ < StableCountReq
        BY <1>8, <2>1
      <4>3. stable_count_' <= StableCountReq
        BY <1>10, <4>1, <4>2 DEF StableCountReq
      <4>4. stable_count_' \in Nat
        BY <1>10, <4>1
      <4>5. stable_count_' # StableCountReq => stable_count_' < StableCountReq
        BY <4>3, <4>4 DEF StableCountReq
      <4> QED
        BY <4>1, <4>5
    <3>2. CASE ~is_cruising_
      BY <1>8, <1>16, <2>1, <3>2 DEF Approach
    <3> QED
      BY <3>1, <3>2
  <2>9. zero_count_' >= 1 /\ zero_count_' <= PlaceGearZeroCountReq
    BY <2>2 DEF PlaceGearZeroCountReq
  <2>10. leaf' = "running" => ~done
    BY <1>3
  <2>11. setpoint' # "StartShooting"
    BY <2>2
  <2> QED
    BY <1>4, <1>7, <2>3, <2>4, <2>6, <2>7, <2>8, <2>9, <2>10, <2>11, SoleEntry
<1>17. \/ isNew /\ ~done /\ PlaceGearInitialize
       \/ /\ ~isNew /\ ~done
          /\ DelayForPositionZero
       \/ /\ ~isNew /\ ~done
          /\ zero_count_ = PlaceGearZeroCountReq
          /\ UNCHANGED <<motors, zero_count_, stable_count_, is_cruising_>>
       \/ ~isNew /\ Approach(done)
  BY <1>5 DEF RunPlaceGear
<1>18. DelayForPositionZero =>
         /\ zero_count_' \in {zero_count_, zero_count_ + 1}
         /\ zero_count_' <= PlaceGearZeroCountReq
         /\ UNCHANGED <<motors, stable_count_, is_cruising_>>
  BY <1>10 DEF DelayForPositionZero, PlaceGearZeroCountReq
<1>19. ASSUME zero_count_ = PlaceGearZeroCountReq, UNCHANGED zero_count_
       PROVE  /\ zero_count_' \in {zero_count_, zero_count_ + 1}
              /\ zero_count_' <= PlaceGearZeroCountReq
  BY <1>19 DEF PlaceGearZeroCountReq
<1> QED
  BY <1>14, <1>15, <1>16, <1>17, <1>18, <1>19

LEMMA RunEntryMotors ==
  ASSUME IInv, Control', NEW s \in AutonSequences, RunSequence(s), RunEntry(s)
  PROVE  MotorInv'
<1>1. EntryOf(s).command \in DrivingParts =>
        \/ EntryOf(s).command \in AutonDrives
        \/ EntryOf(s).command \in {"GyroAzimuth", "PlaceGear", "StartShooting"}
  BY DEF DrivingParts
<1> QED
  BY <1>1, IdleEntryMotors, ShootEntryMotors, DriveEntryMotors, TurnEntryMotors,
     PlaceEntryMotors

-----------------------------------------------------------------------------
(* The invariant *)

\* Every step keeps the motor half.
LEMMA MotorStep == ASSUME IInv, Control', [Next]_vars PROVE MotorInv'
<1>1. /\ Control /\ started \subseteq active /\ torun \subseteq active
      /\ \A s, t \in AutonSequences : Present(s) /\ Present(t) => s = t
      /\ additions \in Seq(DriveCommands)
  BY DEF IInv, Control, TypeOK, SchedulerTypeOK, OneSequence
<1>2. ASSUME UNCHANGED <<group, command, settings, gyro_disabled_, zeroLag,
                         active, started>>,
             setpoint' \in {setpoint, "stop"},
             \A s \in Active : AfterRun(s) => AfterRun(s)'
      PROVE  MotorInv'
  <2>1. Active' \subseteq Active
    BY <1>2 DEF Active
  <2> QED
    BY <1>2, <2>1, MotorsSteady
<1>3. CASE DriverStation \/ UNCHANGED vars
  <2>1. UNCHANGED <<group, command, motors, active, started, phase, torun>>
    BY <1>3 DEF DriverStation, vars
  <2>2. UNCHANGED <<settings, gyro_disabled_, zeroLag, setpoint, turn>>
    BY <2>1 DEF motors, group
  <2>3. \A s \in Active : AfterRun(s) => AfterRun(s)'
    BY <2>1, <2>2 DEF AfterRun
  <2> QED
    BY <1>2, <2>1, <2>2, <2>3
<1>4. CASE ChooseMode
  <2>1. /\ UNCHANGED <<group, command, settings, gyro_disabled_, zeroLag, active,
                       started, phase, torun>>
        /\ setpoint' \in {setpoint, "stop"}
    BY <1>4 DEF ChooseMode, DisabledCycle, DisabledSetpoint, AutonomousCycle,
                TeleopCycle
  <2>2. \A s \in Active : AfterRun(s) => AfterRun(s)'
    BY <2>1 DEF AfterRun, group
  <2> QED
    BY <1>2, <2>1, <2>2
<1>5. CASE CyclePoll
  <2>1. /\ UNCHANGED <<group, command, motors, active, started>>
        /\ phase = "poll"
    BY <1>5 DEF CyclePoll, PollButton, BeginRun
  <2>2. UNCHANGED <<settings, gyro_disabled_, zeroLag, setpoint>>
    BY <2>1 DEF motors
  <2>3. \A s \in Active : ~AfterRun(s)
    BY <2>1 DEF AfterRun
  <2> QED
    BY <1>2, <2>1, <2>2, <2>3
<1>6. ASSUME NEW c \in DriveCommands, CycleCancel(c) PROVE MotorInv'
  <2>1. /\ c \in active /\ Interrupt({c})
        /\ active' = active \ {c} /\ started' = started \ {c}
        /\ torun' = torun \ {c} /\ UNCHANGED phase
    BY <1>1, <1>6 DEF CycleCancel, CancelDisabled
  <2>2. Active' \subseteq Active
    BY <2>1 DEF Active
  <2>3. ASSUME {c} \cap AutonSequences = {}
        PROVE  /\ zeroLag' = zeroLag
               /\ \A s \in Active : AfterRun(s) => AfterRun(s)'
    <3>1. zeroLag' = zeroLag /\ turn' = turn
      BY <2>1, <2>3 DEF Interrupt, EndParts, group
    <3> QED
      BY <2>1, <3>1 DEF AfterRun
  <2> QED
    BY <2>1, <2>2, <2>3, MotorsInterrupt
<1>7. ASSUME NEW c \in DriverCommands, RunDriverCommand(c) PROVE MotorInv'
  BY <1>7, DriverCommandMotors
<1>8. ASSUME NEW s \in AutonSequences, RunSequence(s) PROVE MotorInv'
  BY <1>8, EnterEntryMotors, RunEntryMotors, EntriesDoneMotors, RunChildMotors,
     EndTurnMotors
  DEF RunSequence
<1>9. CASE CycleAdd
  <2>1. CASE /\ BeginAdd \/ \E c \in DriveCommands : Ignore(c)
             /\ UNCHANGED <<motors, group, command>>
    <3>1. phase' = "add" /\ UNCHANGED <<active, started>>
      BY <2>1 DEF BeginAdd, Ignore
    <3>2. UNCHANGED <<settings, gyro_disabled_, zeroLag, setpoint>>
      BY <2>1 DEF motors
    <3>3. \A s : AfterRun(s)'
      BY <3>1 DEF AfterRun
    <3> QED
      BY <1>2, <2>1, <3>1, <3>2, <3>3
  <2>2. CASE InsertDefault("DriveTeleOp") /\ UNCHANGED <<motors, group, command>>
    <3>1. /\ phase' = "add" /\ started' = started
          /\ active' = active \cup {"DriveTeleOp"}
      BY <2>2 DEF InsertDefault
    <3>2. UNCHANGED <<settings, gyro_disabled_, zeroLag, setpoint>>
      BY <2>2 DEF motors
    <3>3. Active' \subseteq Active
      BY <3>1, CommandFacts DEF Active, DrivingCommands
    <3>4. \A s : AfterRun(s)'
      BY <3>1 DEF AfterRun
    <3> QED
      BY <2>2, <3>1, <3>2, <3>3, <3>4, MotorsSteady
  <2>3. CASE /\ EndCycle
             /\ zeroLag' = IF zeroLag > 0 THEN zeroLag - 1 ELSE 0
             /\ UNCHANGED <<settings, setpoint, gyro_disabled_, group, command>>
    <3>1. Active' \subseteq Active /\ started' = started
      BY <2>3 DEF EndCycle, Active
    <3> QED
      BY <2>3, <3>1, MotorsSteady
  <2>4. ASSUME NEW c \in DriveCommands, Insert(c), Interrupt(InTheWay(c))
        PROVE  MotorInv'
    <3>1. /\ InTheWay(c) \subseteq active /\ c \notin active /\ Queued(c)
          /\ active' = (active \ InTheWay(c)) \cup {c}
          /\ started' = started \ InTheWay(c) /\ phase' = "add"
      BY <1>1, <2>4, DequeueStep DEF Insert, InTheWay
    <3>2. c \in AutonSequences => Active = {}
      BY <1>1, <3>1 DEF Active, Present
    <3>3. Active' \subseteq Active \/ Active = {}
      BY <3>1, <3>2 DEF Active
    <3>4. InTheWay(c) \cap AutonSequences = {} => zeroLag' = zeroLag
      BY <2>4 DEF Interrupt, EndParts
    <3>5. \A s : AfterRun(s)'
      BY <3>1 DEF AfterRun
    <3> QED
      BY <2>4, <3>1, <3>3, <3>4, <3>5, MotorsInterrupt
  <2> QED
    BY <1>9, <2>1, <2>2, <2>3, <2>4 DEF CycleAdd
<1> QED
  BY <1>3, <1>4, <1>5, <1>6, <1>7, <1>8, <1>9 DEF Next

\* No sequence comes after what PlaceGear left but through a disabled cycle.
LEMMA FreshStep == ASSUME IInv, Control', [Next]_vars PROVE FreshInv'
<1> DEFINE Off == mode \in {"none", "disabled"}
<1>1. /\ Control /\ FreshInv /\ ModeInv /\ started \subseteq active
      /\ torun \subseteq active /\ additions \in Seq(DriveCommands)
      /\ started' \subseteq active'
      /\ \A s, t \in AutonSequences : Present(s) /\ Present(t) => s = t
  BY DEF IInv, Control, TypeOK, SchedulerTypeOK, OneSequence
<1>2. AutonSequences \cap DriverCommands = {}
  BY CommandFacts
<1>3. ASSUME additions' = additions PROVE \A c : Queued(c)' <=> Queued(c)
  BY <1>3 DEF Queued
<1>4. ASSUME \A s \in AutonSequences : Queued(s)' => Queued(s),
             \A s \in AutonSequences : s \in active' =>
               /\ s \in active \/ (Queued(s) /\ phase' = "add")
               /\ s \in started => s \in started',
             phase' = "add" => started' \subseteq started,
             phase' # "add" => phase # "add" \/ additions = <<>>,
             setpoint' = "PlaceGear" =>
               \/ setpoint = "PlaceGear"
               \/ ~Off /\ \A s \in AutonSequences : Present(s) => s \in started,
             mode' = mode
      PROVE  FreshInv'
  <2>1. ASSUME NEW s \in AutonSequences, Queued(s)'
        PROVE  s \notin started' /\ (phase' # "add" => s \notin active')
    <3>1. Queued(s) /\ s \notin started
      BY <1>1, <1>4, <2>1 DEF FreshInv
    <3>2. additions # <<>>
      BY <3>1 DEF Queued
    <3>3. phase' # "add" => s \notin active'
      BY <1>1, <1>4, <3>1, <3>2 DEF FreshInv
    <3> QED
      BY <1>1, <1>4, <3>1, <3>3
  <2>2. ASSUME NEW s \in AutonSequences, Present(s)', s \notin started'
        PROVE  setpoint' # "PlaceGear"
    <3>1. Present(s) /\ s \notin started
      BY <1>1, <1>4, <2>2 DEF FreshInv, Present
    <3> QED
      BY <1>1, <1>4, <3>1 DEF FreshInv
  <2>3. Off' => setpoint' # "PlaceGear"
    BY <1>1, <1>4 DEF FreshInv
  <2> QED
    BY <2>1, <2>2, <2>3 DEF FreshInv
<1>5. CASE DriverStation \/ UNCHANGED vars
  <2>1. UNCHANGED <<additions, active, started, phase, setpoint, mode>>
    BY <1>5 DEF DriverStation, vars, motors, mainLoop
  <2> QED
    BY <1>3, <1>4, <2>1
<1>6. CASE ChooseMode
  <2>1. /\ UNCHANGED <<active, started, phase>> /\ phase = "poll"
        /\ setpoint' \in {setpoint, "stop"} /\ ~modeChecked
    BY <1>6 DEF ChooseMode, BetweenCycles, PacketMayArrive, DisabledCycle,
                DisabledSetpoint, AutonomousCycle, TeleopCycle
  <2>2. \A c : ~Queued(c)
    BY <1>1, <2>1 DEF ModeInv, Queued
  <2>3. CASE DisabledCycle
    <3>1. additions' = additions /\ setpoint' = "stop"
      BY <2>3 DEF DisabledCycle, DisabledSetpoint
    <3> QED
      BY <1>3, <2>2, <3>1 DEF FreshInv
  <2>4. CASE AutonomousCycle /\ additions' # additions
    <3>1. mode # "auton" /\ mode' = "auton" /\ period = "auton"
          /\ setpoint' = setpoint
      BY <2>4 DEF AutonomousCycle
    <3>2. Off
      BY <1>1, <3>1 DEF ModeInv, Control, TypeOK
    <3>3. Active = {}
      BY <1>1, <2>1, <3>2 DEF Control, OneSequence
    <3>4. \A s \in AutonSequences : s \notin active' /\ s \notin started'
      BY <1>1, <2>1, <3>3 DEF Active
    <3>5. setpoint' # "PlaceGear"
      BY <1>1, <3>1, <3>2 DEF FreshInv
    <3> QED
      BY <3>4, <3>5 DEF FreshInv
  <2>5. CASE (AutonomousCycle /\ additions' = additions) \/ TeleopCycle
    <3>1. mode' \in {"auton", "teleop"} /\ setpoint' = setpoint
      BY <2>5 DEF AutonomousCycle, TeleopCycle
    <3>2. \A s \in AutonSequences : ~Queued(s)'
      <4>1. "StopShooting" \in DriveCommands /\ "StopShooting" \notin AutonSequences
        BY <1>2 DEF DriveCommands, DriverCommands
      <4>2. additions' = additions \/ additions' = Enqueue("StopShooting")
        BY <2>5 DEF TeleopCycle
      <4> QED
        BY <1>1, <1>3, <2>2, <4>1, <4>2, EnqueueStep
    <3> QED
      BY <1>1, <2>1, <3>1, <3>2 DEF FreshInv, Present
  <2> QED
    BY <1>6, <2>3, <2>4, <2>5 DEF ChooseMode
<1>7. CASE CyclePoll
  <2>1. /\ UNCHANGED <<active, started, setpoint, mode>>
        /\ phase = "poll" /\ phase' # "add"
    BY <1>7 DEF CyclePoll, PollButton, BeginRun, motors, mainLoop
  <2>2. \A s \in AutonSequences : Queued(s)' => Queued(s)
    <3>1. CASE PollButton
      <4>1. poll \in 1 .. 4
        BY <1>1, <3>1, BindingFacts
        DEF PollButton, Control, TypeOK, SchedulerTypeOK
      <4>2. /\ DriveBindings[poll].command \in DriverCommands
            /\ DriveBindings[poll].command \in DriveCommands
        BY <4>1, BindingFacts DEF DriveCommands
      <4>3. \/ additions' = additions
            \/ additions' = Enqueue(DriveBindings[poll].command)
        BY <3>1 DEF PollButton
      <4> QED
        BY <1>1, <1>2, <1>3, <4>2, <4>3, EnqueueStep
    <3>2. CASE BeginRun
      BY <1>3, <3>2 DEF BeginRun
    <3> QED
      BY <1>7, <3>1, <3>2 DEF CyclePoll
  <2> QED
    BY <1>4, <2>1, <2>2
<1>8. ASSUME phase = "run", phase' = "run", additions' = additions,
             mode' = mode, active' \subseteq active,
             \A s \in AutonSequences : s \in active' =>
               (s \in started => s \in started'),
             setpoint' = "PlaceGear" =>
               \/ setpoint = "PlaceGear"
               \/ ~Off /\ \A s \in AutonSequences : Present(s) => s \in started
      PROVE  FreshInv'
  BY <1>3, <1>4, <1>8
<1>9. ASSUME NEW c \in DriveCommands, CycleCancel(c) PROVE FreshInv'
  <2>1. /\ phase = "run" /\ phase' = "run" /\ additions' = additions
        /\ active' = active \ {c} /\ started' = started \ {c} /\ mode' = mode
        /\ setpoint' \in {setpoint, "stop"}
    BY <1>9 DEF CycleCancel, CancelDisabled, Interrupt, EndParts, mainLoop
  <2> QED
    BY <1>8, <2>1
<1>10. ASSUME NEW c \in DriverCommands, RunDriverCommand(c) PROVE FreshInv'
  <2>1. /\ phase = "run" /\ phase' = "run" /\ additions' = additions
        /\ active' \subseteq active /\ mode' = mode
        /\ started \ {c} \subseteq started'
    BY <1>1, <1>10 DEF RunDriverCommand, Goes, KeepRunning, Finish, mainLoop
  <2>2. setpoint' \in {setpoint, "stop", "DriveTeleOp", "StartShooting"}
    BY <1>10 DEF RunDriverCommand, RunStartShooting, EndParts, motors
  <2>3. c \notin AutonSequences
    BY <1>2
  <2> QED
    BY <1>8, <2>1, <2>2, <2>3
<1>11. ASSUME NEW s \in AutonSequences, RunSequence(s) PROVE FreshInv'
  <2>1. /\ s \in torun /\ phase = "run" /\ enabled /\ Active = {s}
        /\ mode' = mode
    BY <1>1, <1>11, TurnFacts DEF MidTurn, mainLoop
  <2>2. /\ phase' = "run" /\ additions' = additions /\ active' \subseteq active
        /\ \A t : t \in active' /\ t \in started => t \in started'
    <3>1. CASE EndTurn(s)
      BY <2>1, <3>1 DEF EndTurn, KeepRunning, Finish
    <3>2. CASE UNCHANGED <<phase, poll, last, torun, started, active, additions>>
      BY <2>1, <3>2
    <3> QED
      BY <1>1, <1>11, <3>1, <3>2, TurnFacts
  <2>3. ~Off
    BY <1>1, <2>1 DEF ModeInv
  <2>4. setpoint' = "PlaceGear" => setpoint = "PlaceGear" \/ s \in started
    <3>1. CASE EnterEntry(s)
      BY <3>1 DEF EnterEntry, EndParts
    <3>2. CASE RunEntry(s)
      <4>1. PICK done \in BOOLEAN : RunPart(EntryOf(s).command, leaf = "entered", done)
        BY <3>2 DEF RunEntry
      <4>2. leaf # "entered" => leaf = "running"
        BY <1>1, <3>2 DEF RunEntry, Control, TypeOK
      <4>3. CASE Approach(done) /\ leaf = "running" /\ EntryOf(s).command = "PlaceGear"
        <5>1. EntryOf(s).command \in DrivingParts
          BY <4>3 DEF DrivingParts
        <5> QED
          BY <1>11, <3>2, <4>3, <5>1, DrivingEntry
      <4>4. CASE ~(Approach(done) /\ leaf = "running" /\ EntryOf(s).command = "PlaceGear")
        BY <4>1, <4>2, <4>4
        DEF RunPart, RunDrive, RunGyroAzimuth, RunPlaceGear, PlaceGearInitialize,
            DelayForPositionZero, RunParallelPart, RunStartShooting, RunInstant,
            EndParts, Reconfigured, motors
      <4> QED
        BY <4>3, <4>4
    <3>3. CASE EntriesDone(s)
      BY <3>3 DEF EntriesDone, motors
    <3>4. ASSUME NEW c \in todo, RunChild(s, c) PROVE setpoint' # "PlaceGear" \/ setpoint = "PlaceGear"
      BY <3>4
      DEF RunChild, RunParallelPart, RunStartShooting, RunInstant, EndParts, motors
    <3>5. CASE EndTurn(s)
      BY <3>5 DEF EndTurn, motors
    <3> QED
      BY <1>11, <3>1, <3>2, <3>3, <3>4, <3>5 DEF RunSequence
  <2>5. s \in started => \A t \in AutonSequences : Present(t) => t \in started
    BY <1>1, <2>1 DEF Present, Active
  <2> QED
    BY <1>8, <2>1, <2>2, <2>3, <2>4, <2>5
<1>12. CASE CycleAdd
  <2>1. mode' = mode
    BY <1>12 DEF CycleAdd
  <2>2. CASE BeginAdd \/ EndCycle
    <3>1. /\ UNCHANGED <<additions, active, started, setpoint>>
          /\ phase' # "add" => additions = <<>>
      BY <1>12, <2>2
      DEF CycleAdd, BeginAdd, EndCycle, Ignore, Insert, InsertDefault, motors
    <3> QED
      BY <1>3, <1>4, <2>1, <3>1
  <2>3. CASE InsertDefault("DriveTeleOp") /\ UNCHANGED motors
    <3>1. /\ UNCHANGED <<additions, started, setpoint>> /\ phase' = "add"
          /\ active' = active \cup {"DriveTeleOp"}
          /\ "DriveTeleOp" \notin AutonSequences
      BY <1>2, <2>3 DEF InsertDefault, DriverCommands, motors
    <3> QED
      BY <1>3, <1>4, <2>1, <3>1
  <2>4. ASSUME NEW c \in DriveCommands,
               (Ignore(c) /\ UNCHANGED motors) \/ (Insert(c) /\ Interrupt(InTheWay(c)))
        PROVE  FreshInv'
    <3>1. /\ additions # <<>> /\ c = Head(additions) /\ phase' = "add"
          /\ additions' = Tail(additions)
          /\ setpoint' \in {setpoint, "stop"}
          /\ started' \subseteq started
          /\ \A s \in active' : /\ s \in active \/ s = c
                                /\ s \in started => s \in started'
      BY <1>1, <2>4 DEF Ignore, Insert, Interrupt, EndParts, motors
    <3>2. Queued(c) /\ \A d : Queued(d)' => Queued(d)
      BY <1>1, <3>1, DequeueStep
    <3> QED
      BY <1>4, <2>1, <3>1, <3>2
  <2> QED
    BY <1>12, <2>2, <2>3, <2>4 DEF CycleAdd
<1> QED
  BY <1>5, <1>6, <1>7, <1>9, <1>10, <1>11, <1>12 DEF Next

\* Every conjunct holds before the first packet: no command is active.
LEMMA InitIInv == Init => IInv
<1> SUFFICES ASSUME Init PROVE IInv
  OBVIOUS
<1>1. /\ active = {} /\ started = {} /\ additions = <<>> /\ phase = "poll"
      /\ poll = 1 /\ mode = "none" /\ ~modeChecked
      /\ entry = 1 /\ leaf = "fresh" /\ children = {} /\ turn = "entries"
      /\ todo = {} /\ setpoint = "stop" /\ aiming = "none" /\ settings = "drive"
  BY DEF Init, SchedulerInit
<1>2. Active = {} /\ \A c : ~Queued(c)
  BY <1>1 DEF Active, Queued
<1>3. Control
  <2>1. NoConflict /\ ModeInv
    BY <1>1 DEF NoConflict, ModeInv
  <2>2. OneSequence
    BY <1>1, <1>2 DEF OneSequence, Present
  <2>3. GroupInv /\ FirstTurn
    BY <1>1, <1>2 DEF GroupInv, GroupIdle, FirstTurn
  <2> QED
    BY <2>1, <2>2, <2>3, TypeInit DEF Control
<1>4. Drivers = {}
  BY <1>1 DEF Drivers
<1>5. TurnedStill /\ CountInv /\ LagInv
  BY <1>1, <1>2 DEF TurnedStill, CountInv, LagInv
<1>6. SetpointInv /\ AimingInv
  BY <1>1, <1>4 DEF SetpointInv, AimingInv
<1>7. SettingsInv
  BY <1>1, <1>2 DEF SettingsInv, SetpointFitsSettings
<1>8. GyroOffOnlyPlacing
  <2>1. ~gyro_disabled_
    BY Zenon DEF Init
  <2> QED
    BY <1>4, <2>1, Zenon DEF GyroOffOnlyPlacing
<1>9. FreshInv
  BY <1>1, <1>2 DEF FreshInv, Present, Active
<1> QED
  BY <1>3, <1>5, <1>6, <1>7, <1>8, <1>9 DEF IInv, MotorInv

LEMMA StepIInv == IInv /\ [Next]_vars => IInv'
<1> SUFFICES ASSUME IInv, [Next]_vars PROVE IInv'
  OBVIOUS
<1>1. Control'
  BY ControlStep DEF IInv, MotorInv
<1> QED
  BY <1>1, FreshStep, MotorStep DEF IInv

\* The inductive invariant holds in every reachable state.
LEMMA Invariance == Spec => []IInv
BY InitIInv, StepIInv, PTL DEF Spec

-----------------------------------------------------------------------------
(* Theorems *)

\* Every variable keeps its type, whichever sequences there are and however
\* long the encoders lag: in particular the counters of Drive, GyroAzimuth,
\* PlaceGear and DeadeyeAzimuth stop where their IsFinished says they do, and
\* what a sequence runs beside its entry is a command that may be.
THEOREM TypeCorrect == Spec => []TypeOK
<1>1. IInv => TypeOK
  BY DEF IInv, Control
<1> QED
  BY <1>1, Invariance, PTL

\* Whatever was interrupted, timed out or cancelled, two commands never drive
\* at once, and a set point other than the one PlaceGear leaves belongs to the
\* command that drives.
THEOREM SetpointUnderItsDriver == Spec => []SetpointHasDriver
<1>1. IInv => SetpointHasDriver
  <2> SUFFICES ASSUME IInv PROVE SetpointHasDriver
    OBVIOUS
  <2>1. Control /\ SetpointInv
    BY DEF IInv, MotorInv
  <2>2. \A c, d \in Drivers : c = d
    BY <2>1, OneDriver
  <2>3. Drivers \subseteq {"DriveTeleOp", "EnableBrake", "StartShooting"} \cup SoleDrives
    BY <2>1, DriverNames
  <2>4. CASE Drivers = {}
    BY <2>1, <2>4 DEF SetpointHasDriver, SetpointInv
  <2>5. ASSUME NEW d \in Drivers PROVE SetpointHasDriver
    <3>1. Drivers = {d}
      BY <2>2
    <3>2. CASE d \in AutonDrives
      <4>1. \/ setpoint \in {"stop", "Drive"}
            \/ setpoint = "PlaceGear" /\ stable_count_ = 0
        BY <2>1, <3>1, <3>2 DEF SetpointInv
      <4>2. d = "Drive" \/ d = "TimedDrive"
        BY <3>2 DEF AutonDrives
      <4> QED
        BY <2>2, <3>1, <3>2, <4>1, <4>2 DEF SetpointHasDriver
    <3>3. CASE d \in {"GyroAzimuth", "PlaceGear"}
      BY <2>1, <2>2, <3>1, <3>3 DEF SetpointHasDriver, SetpointInv
    <3>4. CASE d \in {"DriveTeleOp", "EnableBrake", "StartShooting"}
      BY <2>1, <2>2, <3>1, <3>4 DEF SetpointHasDriver, SetpointInv
    <3> QED
      BY <2>3, <3>2, <3>3, <3>4 DEF SoleDrives
  <2> QED
    BY <2>4, <2>5
<1> QED
  BY <1>1, Invariance, PTL

\* The Talons never have a set point that was scaled for other settings than
\* those they have, so that a voltage is never taken for a speed: that of
\* PlaceGear included, but for what it leaves to a Drive that still waits for
\* its encoders.
THEOREM SettingsBelongToSetpoint == Spec => []SetpointFitsSettings
<1>1. IInv => SetpointFitsSettings
  BY DEF IInv, MotorInv, SettingsInv
<1> QED
  BY <1>1, Invariance, PTL

\* Every way out of PlaceGear, a cancelled sequence and a disabled robot
\* included, switches the gyro on again.
THEOREM GyroBackOn == Spec => []GyroOffOnlyPlacing
<1>1. IInv => GyroOffOnlyPlacing
  BY DEF IInv, MotorInv
<1> QED
  BY <1>1, Invariance, PTL

\* Encoders that report the new position within the three cycles PlaceGear
\* waits are never read too early, neither by a drive that counts itself as
\* done nor by an approach that counts itself as under way.
THEOREM PositionFresh ==
  ASSUME ZeroLag <= PlaceGearZeroCountReq
  PROVE  Spec => []PositionReadFresh
<1>1. IInv => PositionReadFresh
  <2> SUFFICES ASSUME IInv PROVE PositionReadFresh
    OBVIOUS
  <2>1. Control /\ LagInv
    BY DEF IInv, MotorInv
  <2>2. \A d \in SoleDrives : d \notin DrivingCommands /\ d # "StartShooting"
    BY DEF SoleDrives, AutonDrives, DrivingCommands
  <2>3. ASSUME NEW d \in Drivers \cap SoleDrives
        PROVE  \E s \in Active : leaf = "running" /\ EntryOf(s).command = d
    BY <2>1, <2>2, DriverCases DEF PartDrives
  <2>4. Drivers \cap AutonDrives # {} => \E s \in Active : Runs(s, AutonDrives)
    <3>1. \A d \in Drivers \cap AutonDrives : d \in Drivers \cap SoleDrives
      BY DEF SoleDrives
    <3> QED
      BY <2>3, <3>1 DEF Runs
  <2>5. "PlaceGear" \in Drivers => \E s \in Active : Runs(s, {"PlaceGear"})
    <3>1. "PlaceGear" \in SoleDrives
      BY DEF SoleDrives
    <3> QED
      BY <2>3, <3>1 DEF Runs
  <2> QED
    BY <2>1, <2>4, <2>5 DEF LagInv, PositionReadFresh
<1> QED
  BY <1>1, Invariance, PTL
=============================================================================
