--------------------------------- MODULE Bdc ---------------------------------
(***************************************************************************)
(* BDC_Comm, the bench tool that configures Talons and reads digital pins  *)
(* from a terminal: its menus, the settings they send to the Talons in     *)
(* use, the objects it creates, and the thread of Grapher that reads these *)
(* objects meanwhile.                                                      *)
(*                                                                         *)
(* The operator's program runs in the robot's thread, which waits for a    *)
(* number ("choosing" a menu's entry, or "asking" for the value of a       *)
(* setting) or sleeps (a pulse).  What the tool does to the Talons in use  *)
(* is kept as calls, the CANTalon methods the last input called on each of *)
(* them.                                                                   *)
(***************************************************************************)
EXTENDS Grapher

CONSTANTS
  Values,       \* what the operator types for a setting, as the tool takes it
  Entries,      \* the entries of the menu "Set What?" the operator chooses
  MaxSelected   \* bound: Talons in use at once

ASSUME BdcAssumption ==
  Values \subseteq Int /\ Entries \subseteq 1 .. 30 /\ MaxSelected \in Nat \ {0}

VARIABLES
  program,    \* the method of SampleRobot that runs
  menus,      \* the menus open, the outermost first
  asking,     \* the function that waits for a value
  entry,      \* history: the entry of "Set What?" chosen last
  selected,   \* TalonsCurrentlyUsing
  tempvars,   \* tempvar1A .. tempvar3B, kept from one setting to the next
  pulsing,    \* the pulse's value is on the Talons in use
  calls

console == <<program, menus, asking, entry, selected, tempvars, pulsing, calls>>
vars == <<shared, own, console>>

-----------------------------------------------------------------------------
(* What each function does to a Talon in use.  A function of the first     *)
(* group calls at once, one of the second asks for a value first.          *)

LimitCalls ==
  [Limit1 |-> <<"ConfigLimitMode", "SoftPositionLimits">>,
   Limit2 |-> <<"ConfigLimitMode", "SwitchInputsOnly">>,
   Limit3 |-> <<"ConfigLimitMode", "SrxDisableSwitchInputs">>,
   OpenFHLimit |-> <<"ConfigFwdLimitSwitchNormallyOpen", "true">>,
   CloseFHLimit |-> <<"ConfigFwdLimitSwitchNormallyOpen", "false">>,
   OpenRHLimit |-> <<"ConfigRevLimitSwitchNormallyOpen", "true">>,
   CloseRHLimit |-> <<"ConfigRevLimitSwitchNormallyOpen", "false">>]

SensorCalls ==
  [SetDT_QuadEncoder |-> <<"SetFeedbackDevice", "QuadEncoder">>,
   SetDT_AnalogPot |-> <<"SetFeedbackDevice", "AnalogPot">>,
   SetDT_AnalogEncoder |-> <<"SetFeedbackDevice", "AnalogEncoder">>,
   SetDT_CtreMagEncoder_Relative |-> <<"SetFeedbackDevice", "MagRelative">>,
   SetDT_CtreMagEncoder_Absolute |-> <<"SetFeedbackDevice", "MagAbsolute">>,
   SetDT_PulseWidth |-> <<"SetFeedbackDevice", "PulseWidth">>]

DirectionCalls ==
  [SetDirectionEF |-> <<"SetSensorDirection", "false">>,
   SetDirectionER |-> <<"SetSensorDirection", "true">>,
   SetDirectionOF |-> <<"SetInverted", "false">>,
   SetDirectionOR |-> <<"SetInverted", "true">>,
   SetBrakeCoastModeB |-> <<"ConfigNeutralMode", "Brake">>,
   SetBrakeCoastModeC |-> <<"ConfigNeutralMode", "Coast">>]

ModeCalls ==
  [SetControlModePV |-> <<"SetTalonControlMode", "Throttle">>,
   SetControlModeV |-> <<"SetTalonControlMode", "Voltage">>,
   SetControlModeP |-> <<"SetTalonControlMode", "Position">>,
   SetControlModeSp |-> <<"SetTalonControlMode", "Speed">>,
   SetControlModeCu |-> <<"SetTalonControlMode", "Current">>,
   SetControlModeMagic |-> <<"SetTalonControlMode", "MotionMagic">>]

AtOnce == LimitCalls @@ SensorCalls @@ DirectionCalls @@ ModeCalls

Gains == {"SetP", "SetI", "SetD", "SetF", "SetIzone"}

Ramps == {"SetVoltageRampRate", "SetSetCloseLoopRampRate",
          "SetAllowCloseLoopErr"}

\* The rate of the encoder's frame is that of the pulse width's as well.
FrameRates ==
  [SetStatusFrameRates_G |-> <<"General">>,
   SetStatusFrameRates_F |-> <<"Feedback">>,
   SetStatusFrameRates_Q |-> <<"QuadEncoder", "PulseWidthMeas">>,
   SetStatusFrameRates_A |-> <<"AnalogTempVbat">>]

MotionMagic == {"SetMotionMagicCruiseVelocity", "SetMotionMagicAcceleration"}

\* The period is asked for until it is one there is.
VelocityMeasurement ==
  {"SetVelocityMeasurementPeriod", "SetVelocityMeasurementWindow"}

\* A pair of settings goes to the Talon in one call: the side that is not asked
\* for is what was typed for it last, whatever Talon was in use then.
\* Mutant: both peaks go to the same side.
OneSideMixedUp ==
  [SetPeakCloseLoopOutForward |-> <<"Peak", "forward">>,
   SetPeakCloseLoopOutReverse |-> <<"Peak", "forward">>,
   SetNominalCloseOutForward |-> <<"Nominal", "forward">>,
   SetNominalCloseOutReverse |-> <<"Nominal", "reverse">>,
   ConfigSoftLimitForward |-> <<"SoftLimit", "forward">>,
   ConfigSoftLimitReverse |-> <<"SoftLimit", "reverse">>]

OneSide ==
  [SetPeakCloseLoopOutForward |-> <<"Peak", "forward">>,
   SetPeakCloseLoopOutReverse |-> <<"Peak", "reverse">>,
   SetNominalCloseOutForward |-> <<"Nominal", "forward">>,
   SetNominalCloseOutReverse |-> <<"Nominal", "reverse">>,
   ConfigSoftLimitForward |-> <<"SoftLimit", "forward">>,
   ConfigSoftLimitReverse |-> <<"SoftLimit", "reverse">>]

Sides == {"Peak", "Nominal", "SoftLimit"} \X {"forward", "reverse"}

\* Zero disables the limit instead of setting it.
CurrentLimitCalls(v) ==
  IF v = 0 THEN <<<<"EnableCurrentLimit", "false">>>>
           ELSE <<<<"SetCurrentLimit", v>>, <<"EnableCurrentLimit", "true">>>>

SlaveCalls(v) == <<<<"SetTalonControlMode", "Follower">>, <<"Set", v>>>>

SimpleValue == Gains \cup Ramps \cup MotionMagic \cup VelocityMeasurement
                 \cup {"SetQPosition"}

CallsWith(f, v) ==
  CASE f \in SimpleValue -> <<<<f, v>>>>
    [] f \in DOMAIN FrameRates ->
         [k \in DOMAIN FrameRates[f] |-> <<FrameRates[f][k], v>>]
    [] f = "SetCurrentLimit" -> CurrentLimitCalls(v)
    [] f = "SetControlModeSl" -> SlaveCalls(v)
    [] f = "SetPulseLength" -> <<>>

Simple == SimpleValue \cup DOMAIN FrameRates
            \cup {"SetCurrentLimit", "SetControlModeSl", "SetPulseLength"}
Repeated == {"SetCommandedValue", "PulseCommandedValue"}
Asking == Simple \cup Repeated \cup DOMAIN OneSide
            \cup {"ChangeTalons", "GetDIO_Pin", "SetDIO_Pin"}

-----------------------------------------------------------------------------
(* The menus                                                               *)

\* The entries of "Set What?" by what they say and by the function they call.
SetNames ==
  <<"ControlMode", "P", "I", "D", "F", "IZone",
    "ForwardPeak", "ReversePeak", "ForwardNominal", "ReverseNominal",
    "VoltageRampRate", "CloseLoopRampRate", "AllowableError",
    "HardLimits", "ForwardHardLimit", "ReverseHardLimit",
    "ForwardSoftLimit", "ReverseSoftLimit", "Sensor", "SensorPosition",
    "EncoderDirection", "OutputDirection", "DIOPin", "FrameRates",
    "CurrentLimit", "PulseLength", "CruiseVelocity", "Acceleration",
    "MeasurementPeriod", "MeasurementWindow">>

SetFunctions ==
  <<"SetTalonControlMode", "SetP", "SetI", "SetD", "SetF", "SetIzone",
    "SetPeakCloseLoopOutForward", "SetPeakCloseLoopOutReverse",
    "SetNominalCloseOutForward", "SetNominalCloseOutForward",
    "SetVoltageRampRate", "SetSetCloseLoopRampRate", "SetAllowCloseLoopErr",
    "EDLimitSwitches", "ConfigForwardHLimit", "ConfigReverseHLimit",
    "ConfigSoftLimitForward", "ConfigSoftLimitReverse",
    "SetEncoderDeviceType", "SetQPosition", "SetEncoderDirection",
    "SetOutputDirection", "SetDIO_Pin", "SetStatusFrameRates",
    "SetCurrentLimit", "SetPulseLength", "SetMotionMagicCruiseVelocity",
    "SetMotionMagicAcceleration", "SetVelocityMeasurementPeriod",
    "SetVelocityMeasurementWindow">>

RootFunctions ==
  <<"SingularTalon", "ChangeTalons", "SetCommandedValue",
    "PulseCommandedValue", "Set", "Get">>

SensorMenus ==
  [SetEncoderDeviceType |->
     <<"SetDT_QuadEncoder", "SetDT_AnalogPot", "SetDT_AnalogEncoder",
       "SetDT_CtreMagEncoder_Relative", "SetDT_CtreMagEncoder_Absolute",
       "SetDT_PulseWidth">>,
   EDLimitSwitches |-> <<"Limit1", "Limit2", "Limit3">>,
   ConfigForwardHLimit |-> <<"OpenFHLimit", "CloseFHLimit">>,
   ConfigReverseHLimit |-> <<"OpenRHLimit", "CloseRHLimit">>,
   SetEncoderDirection |-> <<"SetDirectionEF", "SetDirectionER">>,
   SetOutputDirection |-> <<"SetDirectionOF", "SetDirectionOR">>]

ModeMenus ==
  [SetTalonControlMode |->
     <<"SetControlModePV", "SetControlModeP", "SetControlModeSp",
       "SetControlModeV", "SetControlModeSl", "SetControlModeCu",
       "SetControlModeMagic">>,
   SetStatusFrameRates |->
     <<"SetStatusFrameRates_G", "SetStatusFrameRates_F",
       "SetStatusFrameRates_Q", "SetStatusFrameRates_A">>]

\* The menus that are shown again after a choice.
Loops == {"Root", "Set", "Get"}
Looping == [Root |-> RootFunctions, Set |-> SetFunctions,
            Get |-> <<"GetTalonRegistors", "GetDIO_Pin">>]

Menus == [m \in Loops \cup DOMAIN SensorMenus \cup DOMAIN ModeMenus |->
            IF m \in Loops THEN Looping[m]
            ELSE IF m \in DOMAIN SensorMenus THEN SensorMenus[m]
            ELSE ModeMenus[m]]

Offered(m) == IF m = "Set" THEN Entries ELSE DOMAIN Menus[m]

-----------------------------------------------------------------------------

BdcTypeOK ==
  /\ GrapherTypeOK
  /\ program \in {"waiting", "autonomous", "operator", "exited"}
  /\ Len(menus) \in 0 .. 3 /\ ToSet(menus) \subseteq DOMAIN Menus
  /\ asking \in Asking \cup {"none"}
  /\ entry \in 0 .. 30
  /\ selected \in Seq(TalonIDs) /\ Len(selected) <= MaxSelected
  /\ tempvars \in [Sides -> Values \cup {0}]
  /\ pulsing \in BOOLEAN
  /\ Len(calls) \in 0 .. 2

Init ==
  /\ GrapherInit
  /\ program = "waiting"
  /\ menus = <<>>
  /\ asking = "none"
  /\ entry = 0
  /\ selected = <<>>
  /\ tempvars = [side \in Sides |-> 0]
  /\ pulsing = FALSE
  /\ calls = <<>>

\* SampleRobot waits for a mode, and asks again when its method returns.
Autonomous ==
  /\ program = "waiting"
  /\ program' = "autonomous"
  /\ UNCHANGED <<shared, own, menus, asking, entry, selected, tempvars, pulsing,
                 calls>>

AutonomousEnds ==
  /\ program = "autonomous"
  /\ program' = "waiting"
  /\ UNCHANGED <<shared, own, menus, asking, entry, selected, tempvars, pulsing,
                 calls>>

\* A Talon is asked for before the first menu is shown.
OperatorControl ==
  /\ program = "waiting"
  /\ thread # "start"
  /\ program' = "operator"
  /\ menus' = <<"Root">>
  /\ asking' = "ChangeTalons"
  /\ UNCHANGED <<shared, own, entry, selected, tempvars, pulsing, calls>>

\* The terminal is read while no change of the vector is under way.
AtMenu ==
  /\ program = "operator"
  /\ asking = "none"
  /\ ~pulsing
  /\ change = NoChange
AtQuestion(f) == program = "operator" /\ asking = f /\ ~pulsing

\* A function ends: a menu that does not loop ends with it.
Returned == IF Last(menus) \in Loops THEN menus ELSE Front(menus)

Choose(i) ==
  LET f == Menus[Last(menus)][i] IN
  /\ AtMenu
  /\ i \in Offered(Last(menus))
  /\ entry' = IF Last(menus) = "Set" THEN i ELSE entry
  /\ \/ /\ f \in DOMAIN Menus
        /\ menus' = Append(menus, f)
        /\ calls' = <<>>
        /\ UNCHANGED <<asking, selected>>
     \/ /\ f \in Asking
        /\ f = "ChangeTalons" => Len(selected) < MaxSelected
        /\ asking' = f
        /\ calls' = <<>>
        /\ UNCHANGED <<menus, selected>>
     \/ /\ f = "SingularTalon"
        /\ selected' = <<>>
        /\ asking' = "ChangeTalons"
        /\ calls' = <<>>
        /\ UNCHANGED menus
     \/ /\ f = "GetTalonRegistors"
        /\ calls' = <<>>
        /\ UNCHANGED <<menus, asking, selected>>
     \/ /\ f \in DOMAIN AtOnce
        /\ calls' = <<AtOnce[f]>>
        /\ menus' = Returned
        /\ UNCHANGED <<asking, selected>>
  /\ UNCHANGED <<shared, own, program, tempvars, pulsing>>

\* "b": the root menu is shown again.
Back ==
  /\ AtMenu
  /\ Len(menus) > 1
  /\ menus' = Front(menus)
  /\ calls' = <<>>
  /\ UNCHANGED <<shared, own, program, asking, entry, selected, tempvars,
                 pulsing>>

\* "e" or "q"
Exit ==
  /\ AtMenu
  /\ program' = "exited"
  /\ UNCHANGED <<shared, own, menus, asking, entry, selected, tempvars, pulsing,
                 calls>>

Answered ==
  /\ asking' = "none"
  /\ menus' = Returned

EnterValue(v) ==
  /\ asking \in Simple
  /\ AtQuestion(asking)
  /\ calls' = CallsWith(asking, v)
  /\ Answered
  /\ UNCHANGED <<shared, own, program, entry, selected, tempvars, pulsing>>

EnterSide(v) ==
  /\ asking \in DOMAIN OneSide
  /\ AtQuestion(asking)
  /\ tempvars' = [tempvars EXCEPT ![OneSide[asking]] = v]
  /\ LET pair == OneSide[asking][1] IN
       calls' = <<<<pair, tempvars'[<<pair, "forward">>],
                          tempvars'[<<pair, "reverse">>]>>>>
  /\ Answered
  /\ UNCHANGED <<shared, own, program, entry, selected, pulsing>>

\* The set point is asked for again and again, until "b".
SetCommandedValue(v) ==
  /\ AtQuestion("SetCommandedValue")
  /\ calls' = <<<<"Set", v>>>>
  /\ UNCHANGED <<shared, own, program, menus, asking, entry, selected, tempvars,
                 pulsing>>

PulseCommandedValue(v) ==
  /\ AtQuestion("PulseCommandedValue")
  /\ calls' = <<<<"Set", v>>>>
  /\ pulsing' = TRUE
  /\ UNCHANGED <<shared, own, program, menus, asking, entry, selected, tempvars>>

PulseEnds ==
  /\ pulsing
  /\ calls' = <<<<"Set", 0>>>>
  /\ pulsing' = FALSE
  /\ UNCHANGED <<shared, own, program, menus, asking, entry, selected, tempvars>>

Escape ==
  /\ asking \in Repeated
  /\ AtQuestion(asking)
  /\ asking' = "none"
  /\ calls' = <<>>
  /\ UNCHANGED <<shared, own, program, menus, entry, selected, tempvars, pulsing>>

\* A Talon may be in use twice.
ChangeTalons(id) ==
  /\ AtQuestion("ChangeTalons")
  /\ PossiblyCreateTalon(id)
  /\ selected' = Append(selected, id)
  /\ Answered
  /\ calls' = <<>>
  /\ UNCHANGED <<own, program, entry, tempvars, pulsing>>

GetDIO_Pin(pin) ==
  /\ AtQuestion("GetDIO_Pin")
  /\ PossiblyCreateDigitalInput(pin)
  /\ Answered
  /\ calls' = <<>>
  /\ UNCHANGED <<own, program, entry, selected, tempvars, pulsing>>

SetDIO_Pin(pin) ==
  /\ AtQuestion("SetDIO_Pin")
  /\ PossiblyCreateDigitalOutput(pin)
  /\ Answered
  /\ calls' = <<>>
  /\ UNCHANGED <<own, program, entry, selected, tempvars, pulsing>>

Console ==
  \/ Autonomous \/ AutonomousEnds \/ OperatorControl
  \/ \E i \in 1 .. 30 : Choose(i)
  \/ Back \/ Exit \/ PulseEnds \/ Escape
  \/ \E v \in Values : \/ EnterValue(v) \/ EnterSide(v)
                       \/ SetCommandedValue(v) \/ PulseCommandedValue(v)
  \/ \E id \in TalonIDs : ChangeTalons(id)
  \/ \E pin \in Pins : GetDIO_Pin(pin) \/ SetDIO_Pin(pin)

Running == program # "exited"
RunThread == Running /\ GrapherThread /\ UNCHANGED console
RunChange == Running /\ EndChange /\ UNCHANGED <<own, console>>

Next == Console \/ RunThread \/ RunChange

Spec == Init /\ [][Next]_vars

\* Both threads keep running; the operator may stop typing.
FairSpec == Spec /\ WF_vars(RunThread) /\ WF_vars(RunChange)

-----------------------------------------------------------------------------

Listed(d) == Cardinality({i \in DOMAIN graphable : graphable[i] = d})

\* When no change is under way, the vector the telemetry thread searches holds
\* every object that exists, once, and none that was deleted, however inputs
\* are turned into outputs and back (RIOUtils.cpp).
EveryObjectListedOnce ==
  change = NoChange =>
    \A d \in Devices :
      Listed(d) =
        CASE d.type = "Talon" -> IF d.ID \in allTalons THEN 1 ELSE 0
          [] d.type = "DIO" -> IF pinUse[d.ID] = "input" THEN 1 ELSE 0
          [] d.type = "RoboRIO" -> IF thread = "start" THEN 0 ELSE 1

\* A subscription reads the object of the device it names, also while the
\* operator adds devices between the search and the fetch; the exceptions are
\* those in suspect: a device no longer listed, an input deleted, and a search
\* or a fetch overlapping with a change (JerrysGrapher.cpp 84-102).
BoundToItsDevice ==
  \A s \in Slots \ suspect :
    Subscriptions[s].Bundle # Unset /\ ~(thread = "bind" /\ binding = s)
      => Subscriptions[s].Bundle = Subscriptions[s].device

\* The list is sent again until it is what there is, with its length, although
\* the thread counts the devices and reads them one after the other while the
\* operator adds more: provided that no input leaves the list and no count or
\* list overlaps with a change (JerrysGrapher.cpp 70-73).
ListCatchesUp ==
  []~disturbed =>
    <>[](Running => deviceList = [number |-> Len(graphable),
                                  entries |-> graphable])

NamedSide ==
  [ForwardPeak |-> <<"Peak", "forward">>, ReversePeak |-> <<"Peak", "reverse">>,
   ForwardNominal |-> <<"Nominal", "forward">>,
   ReverseNominal |-> <<"Nominal", "reverse">>,
   ForwardSoftLimit |-> <<"SoftLimit", "forward">>,
   ReverseSoftLimit |-> <<"SoftLimit", "reverse">>]

\* An entry of "Set What?" that names one side of a pair leaves the other sides
\* as they were typed, whatever was set in between (Main.cpp 111-126, 163-170,
\* 489-552), but for "Reverse Nominal", the tenth, whose function is that of
\* the entry before.
EntrySetsWhatItNames ==
  [][\A name \in DOMAIN NamedSide \ {"ReverseNominal"} :
       entry # 0 /\ SetNames[entry] = name =>
         \A side \in Sides \ {NamedSide[name]} :
           tempvars'[side] = tempvars[side]]_vars
=============================================================================
