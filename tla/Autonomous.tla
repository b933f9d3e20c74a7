----------------------------- MODULE Autonomous -----------------------------
(***************************************************************************)
(* The autonomous sequences (steamworks/src/commands/auton) as data.  An   *)
(* entry is sequential, Then(c), or parallel, Beside(c).  Left out:        *)
(* LogCommand, and the distances, speeds and angles of the drives, in      *)
(* which the sequences of the two alliances differ.                        *)
(***************************************************************************)
EXTENDS Sequences

Then(c) == [command |-> c, parallel |-> FALSE]
Beside(c) == [command |-> c, parallel |-> TRUE]

\* Commands that are done in their first Run.
InstantCommands ==
  {"GearCamera", "BoilerCamera", "GearLightOn", "GearLightOff", "SetShooter"}

AutonDrives == {"Drive", "TimedDrive"}   \* without and with a timeout

EntryRequires(c) ==
  CASE c \in AutonDrives \cup {"GyroAzimuth", "PlaceGear"} -> {"drive"}
    [] c = "StartShooting" -> {"drive", "elevation", "wheel", "hopper"}
    [] c \in {"StageGear", "ReleaseGear"} -> {"gear_loader"}
    [] c = "StartIntake" -> {"intake"}
    [] OTHER -> {}

-----------------------------------------------------------------------------
\* What most sequences have in common.
LookForLift == << Then("GearCamera"), Beside("StageGear"), Beside("GearLightOn") >>
Release == << Beside("ReleaseGear"), Beside("GearLightOff") >>
DriveAndTurn == << Then("Drive"), Then("GyroAzimuth") >>

Sequence01 ==
  << Then("BoilerCamera"), Then("TimedDrive"), Then("TimedDrive"),
     Beside("SetShooter") >>
  \o DriveAndTurn
  \o << Beside("StartShooting"), Then("WaitCommand"), Beside("StartIntake"),
        Beside("StageGear") >>

Sequence02 == Sequence01

Sequence03 == <<>>

Sequence04 ==
  << Beside("SetShooter") >> \o DriveAndTurn
  \o << Beside("StartShooting"), Then("WaitCommand"), Then("StageGear") >>

Sequence05 == <<>>

Sequence06 ==
  LookForLift \o << Then("Drive"), Then("PlaceGear") >>
  \o Release \o << Beside("SetShooter") >>
  \o DriveAndTurn \o << Beside("StartShooting") >>

Sequence07 == Sequence06

Sequence08 ==
  LookForLift \o DriveAndTurn \o << Then("PlaceGear") >>
  \o Release \o << Beside("BoilerCamera"), Beside("SetShooter") >>
  \o DriveAndTurn \o << Then("StartShooting") >>

Sequence09 ==
  LookForLift \o DriveAndTurn \o << Then("PlaceGear") >>
  \o Release \o << Beside("SetShooter") >>
  \o DriveAndTurn \o << Then("StartShooting") >>

Sequence0A ==
  LookForLift \o DriveAndTurn \o << Then("PlaceGear") >>
  \o Release \o DriveAndTurn \o << Then("Drive") >>

Sequence0B == Sequence0A

Sequence0C == Sequence08

Sequence0D ==
  LookForLift \o DriveAndTurn \o << Then("PlaceGear") >>
  \o Release \o DriveAndTurn \o DriveAndTurn \o << Then("Drive") >>

Sequence0E == Sequence09

\* The switch of Robot::AutonomousInit.
Entries ==
  [Sequence01 |-> Sequence01, Sequence02 |-> Sequence02,
   Sequence03 |-> Sequence03, Sequence04 |-> Sequence04,
   Sequence05 |-> Sequence05, Sequence06 |-> Sequence06,
   Sequence07 |-> Sequence07, Sequence08 |-> Sequence08,
   Sequence09 |-> Sequence09, Sequence0A |-> Sequence0A,
   Sequence0B |-> Sequence0B, Sequence0C |-> Sequence0C,
   Sequence0D |-> Sequence0D, Sequence0E |-> Sequence0E]

\* A group requires what its entries require.
GroupRequires(s) ==
  UNION {EntryRequires(Entries[s][i].command) : i \in DOMAIN Entries[s]}
=============================================================================
