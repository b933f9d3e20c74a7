---------------------------- MODULE TalonSettings ----------------------------
(***************************************************************************)
(* sidewinder's talon settings: what a configuration writes to a Talon.    *)
(*                                                                         *)
(* A Talon's registers are modelled by the settings that wrote them last,  *)
(* in groups that are written together.  A mode uses the groups in Uses;   *)
(* what an earlier configuration left in the others stays there.           *)
(***************************************************************************)
EXTENDS Integers

\* The swerve's configurations by name, as the files in conf have them.
Config ==
  [azimuth |-> [type |-> "motion_magic", setpoint_max |-> -1],
   drive |-> [type |-> "voltage", setpoint_max |-> 12],
   drive_auton |-> [type |-> "velocity", setpoint_max |-> 400],
   drive_auton_slow_azimuth |-> [type |-> "velocity", setpoint_max |-> 275]]
Names == DOMAIN Config
NoSettings == "none"

\* Settings::Create: the class is chosen by the type.
Types == {"voltage", "position", "velocity", "motion_magic"}
ASSUME TypesAreKnown == \A name \in Names : Config[name].type \in Types

\* A Talon as it is switched on.
NewTalon ==
  [mode |-> "voltage", setup |-> NoSettings, common |-> NoSettings,
   pid |-> NoSettings, profile |-> NoSettings]
Talons ==
  [mode : Types, setup : Names \cup {NoSettings},
   common : Names \cup {NoSettings}, pid : Names \cup {NoSettings},
   profile : Names \cup {NoSettings}]

Configure(name, talon) == [talon EXCEPT !.setup = name]

\* Settings::SetMode: the current limit and the ramp rate.
SettingsSetMode(name, talon) == [talon EXCEPT !.common = name]

\* Mutant: the override forgets the gains.
PIDSetModeOnly(name, talon) == SettingsSetMode(name, talon)

PIDSetMode(name, talon) == [SettingsSetMode(name, talon) EXCEPT !.pid = name]

VoltageSetMode(name, talon) ==
  SettingsSetMode(name, [talon EXCEPT !.mode = "voltage"])
PositionSetMode(name, talon) ==
  PIDSetMode(name, [talon EXCEPT !.mode = "position"])
VelocitySetMode(name, talon) ==
  PIDSetMode(name, [talon EXCEPT !.mode = "velocity"])
MotionMagicSetMode(name, talon) ==
  [PIDSetMode(name, [talon EXCEPT !.mode = "motion_magic"]) EXCEPT
     !.profile = name]

SetMode(name, talon) ==
  CASE Config[name].type = "voltage" -> VoltageSetMode(name, talon)
    [] Config[name].type = "position" -> PositionSetMode(name, talon)
    [] Config[name].type = "velocity" -> VelocitySetMode(name, talon)
    [] Config[name].type = "motion_magic" -> MotionMagicSetMode(name, talon)

Initialize(name, talon) == SetMode(name, Configure(name, talon))

\* It throws when the configuration has none.
HasSetpointMax(name) == Config[name].setpoint_max # -1
GetSetpointMax(name) == Config[name].setpoint_max

-----------------------------------------------------------------------------

\* The groups of registers a mode depends on.
Uses ==
  [voltage |-> {"common"}, position |-> {"common", "pid"},
   velocity |-> {"common", "pid"},
   motion_magic |-> {"common", "pid", "profile"}]

\* The Talon runs in the mode of one configuration, and every register that
\* mode uses is of that configuration.
OfOneConfiguration(talon) ==
  /\ talon.common \in Names
  /\ Config[talon.common].type = talon.mode
  /\ \A group \in Uses[talon.mode] : talon[group] = talon.common
=============================================================================
