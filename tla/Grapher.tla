------------------------------- MODULE Grapher -------------------------------
(***************************************************************************)
(* The telemetry thread JerrysGrapherRIO_Thread and what it shares with    *)
(* the program it runs in: the vector of graphable devices, which the      *)
(* program's own thread fills (RIOUtils.cpp) without any lock while this   *)
(* thread counts, sends and searches it.                                   *)
(*                                                                         *)
(* One round of the thread is                                              *)
(*   "check"   count the devices;                                          *)
(*   "list"    send the list, if their number changed;                     *)
(*   "receive" take one message of the grapher program, if there is one;   *)
(*   "answer"  send the list it asks for;                                  *)
(*   "bind"    fetch the object of a device it subscribes to;              *)
(*   "sample"  read a property of the object of every subscription.        *)
(* A step touches the vector once, so that the program's thread may change *)
(* it between any two steps.  A change of the vector is itself two steps,  *)
(* its begin and its end, and a step of this thread between them is a data *)
(* race: what it reads is one of the values the build may come up with.    *)
(***************************************************************************)
EXTENDS Integers, SequencesExt

CONSTANTS
  TalonIDs,  \* the CAN addresses of the Talons
  Pins,      \* the digital pins
  Slots      \* the subscriptions the thread keeps, 16 in the code

ASSUME IDsAssumption == TalonIDs \subseteq 0 .. 255 /\ Pins \subseteq 0 .. 9

VARIABLES
  graphable,    \* GraphableDevices, the objects by their place in the vector
  allTalons,    \* AllTalons: the Talons created
  pinUse,       \* AllDigitalBoths: what each pin was last created as
  change,       \* the change of the vector that has begun
  thread,       \* where in its round the thread is
  index,        \* bundleindex, the place of the device being subscribed to
  binding,      \* the slot that is being subscribed
  Current_Sum,
  Past_Sum,
  deviceList,   \* the last list sent to the grapher
  Subscriptions,
  suspect,      \* history: slots that may have lost their device's object
  disturbed     \* history: a count or a list overlapped with a change, or an
                \* input left the list

shared == <<graphable, allTalons, pinUse, change, suspect, disturbed>>
own == <<thread, index, binding, Current_Sum, Past_Sum, deviceList,
         Subscriptions>>

\* A device is what the grapher calls it by; its object is called the same
\* while it exists.  Lost stands for a pointer to an object that was deleted,
\* or read from beyond the vector.
Rio == [type |-> "RoboRIO", ID |-> 0]
Talon(id) == [type |-> "Talon", ID |-> id]
DIO(pin) == [type |-> "DIO", ID |-> pin]
Devices == {Rio} \cup {Talon(id) : id \in TalonIDs} \cup {DIO(p) : p \in Pins}
Lost == [type |-> "lost"]
Unset == [type |-> "unset"]
Lists == [number : Nat, entries : Seq(Devices)]
NoList == [number |-> 0, entries |-> <<>>]
Push(device) == [op |-> "push_back", device |-> device]
Erase(device) == [op |-> "erase", device |-> device]
NoChange == [op |-> "none", device |-> Unset]
Limit == Cardinality(Devices)

GrapherTypeOK ==
  /\ graphable \in Seq(Devices)
  /\ allTalons \subseteq TalonIDs
  /\ pinUse \in [Pins -> {"none", "input", "output"}]
  /\ change \in {NoChange} \cup {Push(d) : d \in Devices}
                         \cup {Erase(d) : d \in Devices}
  /\ thread \in {"start", "check", "list", "receive", "answer", "bind",
                 "sample"}
  /\ index \in -1 .. Limit
  /\ binding \in Slots
  /\ Current_Sum \in Nat
  /\ Past_Sum \in Nat \cup {-1}
  /\ deviceList \in Lists
  /\ Subscriptions \in [Slots -> [device : Devices \cup {Unset},
                                  Bundle : Devices \cup {Unset, Lost}]]
  /\ suspect \subseteq Slots
  /\ disturbed \in BOOLEAN

GrapherInit ==
  /\ graphable = <<>>
  /\ allTalons = {}
  /\ pinUse = [p \in Pins |-> "none"]
  /\ change = NoChange
  /\ thread = "start"
  /\ index = -1
  /\ binding \in Slots
  /\ Current_Sum = 0
  /\ Past_Sum = -1
  /\ deviceList = NoList
  /\ Subscriptions = [s \in Slots |-> [device |-> Unset, Bundle |-> Unset]]
  /\ suspect = {}
  /\ disturbed = FALSE

-----------------------------------------------------------------------------
(* RIOUtils: the program's thread.  A device is created once and stays on  *)
(* the list, but for an input whose pin becomes an output: it is deleted,  *)
(* and then taken from the list.                                           *)

PossiblyCreateTalon(id) ==
  /\ allTalons' = allTalons \cup {id}
  /\ change' = IF id \in allTalons THEN NoChange ELSE Push(Talon(id))
  /\ UNCHANGED <<graphable, pinUse, suspect, disturbed>>

\* Mutant: the second request for an input lists it again.
CreateDigitalInputAgain(pin) ==
  /\ pinUse' = [pinUse EXCEPT ![pin] = "input"]
  /\ change' = Push(DIO(pin))
  /\ UNCHANGED <<graphable, allTalons, suspect, disturbed>>

PossiblyCreateDigitalInput(pin) ==
  /\ pinUse' = [pinUse EXCEPT ![pin] = "input"]
  /\ change' = IF pinUse[pin] = "input" THEN NoChange ELSE Push(DIO(pin))
  /\ UNCHANGED <<graphable, allTalons, suspect, disturbed>>

\* The subscriptions of the input lose their object with it.
PossiblyCreateDigitalOutput(pin) ==
  /\ pinUse' = [pinUse EXCEPT ![pin] = "output"]
  /\ IF pinUse[pin] = "input"
     THEN /\ change' = Erase(DIO(pin))
          /\ suspect' = suspect \cup
                         {s \in Slots : Subscriptions[s].Bundle = DIO(pin)}
          /\ disturbed' = TRUE
     ELSE change' = NoChange /\ UNCHANGED <<suspect, disturbed>>
  /\ UNCHANGED <<graphable, allTalons>>

\* IndexOfBundleWithID: the first place of a device, or -1.
\* Mutant: the type is not compared.
IndexOfBundleWithSameID(list, device) ==
  SelectInSeq(list, LAMBDA d : d.ID = device.ID) - 1

IndexOfBundleWithID(list, device) ==
  SelectInSeq(list, LAMBDA d : d = device) - 1

Changed ==
  IF change.op = "push_back"
  THEN Append(graphable, change.device)
  ELSE RemoveAt(graphable, IndexOfBundleWithID(graphable, change.device) + 1)

\* A subscription that is being made found its place before the others moved.
EndChange ==
  /\ change # NoChange
  /\ graphable' = Changed
  /\ change' = NoChange
  /\ suspect' = IF change.op = "erase" /\ thread = "bind"
                THEN suspect \cup {binding} ELSE suspect
  /\ UNCHANGED <<allTalons, pinUse, disturbed>>

-----------------------------------------------------------------------------
(* JerrysGrapherRIO_Thread                                                 *)

Racing == change # NoChange

\* The thread adds the roboRIO itself, before the operator types anything.
ThreadStarts ==
  /\ thread = "start"
  /\ thread' = "check"
  /\ graphable' = Append(graphable, Rio)
  /\ UNCHANGED <<allTalons, pinUse, change, suspect, disturbed, index, binding,
                 Current_Sum, Past_Sum, deviceList, Subscriptions>>

CountDevices ==
  /\ thread = "check"
  /\ Current_Sum' \in IF Racing THEN 0 .. Limit ELSE {Len(graphable)}
  /\ thread' = IF Past_Sum # Current_Sum' THEN "list" ELSE "receive"
  /\ disturbed' = (disturbed \/ Racing)
  /\ UNCHANGED <<graphable, allTalons, pinUse, change, suspect, index, binding,
                 Past_Sum, deviceList, Subscriptions>>

\* SendDeviceList: the number is the one counted, the entries are those there
\* are now; none can be told from storage that is being replaced.
EntriesRead == IF Racing THEN {graphable, Changed, <<>>} ELSE {graphable}

\* Mutant: the devices are counted again afterwards.
SendListCountsAgain ==
  /\ thread \in {"list", "answer"}
  /\ \E entries \in EntriesRead :
       deviceList' = [number |-> Current_Sum, entries |-> entries]
  /\ Past_Sum' = Len(graphable)
  /\ thread' = IF thread = "list" THEN "receive" ELSE "sample"
  /\ disturbed' = (disturbed \/ Racing)
  /\ UNCHANGED <<graphable, allTalons, pinUse, change, suspect, index, binding,
                 Current_Sum, Subscriptions>>

SendDeviceList ==
  /\ thread \in {"list", "answer"}
  /\ \E entries \in EntriesRead :
       deviceList' = [number |-> Current_Sum, entries |-> entries]
  /\ Past_Sum' = Current_Sum
  /\ thread' = IF thread = "list" THEN "receive" ELSE "sample"
  /\ disturbed' = (disturbed \/ Racing)
  /\ UNCHANGED <<graphable, allTalons, pinUse, change, suspect, index, binding,
                 Current_Sum, Subscriptions>>

\* The socket times out at once; ChangeUpdateRate changes the pace only.
NoMessage ==
  /\ thread = "receive"
  /\ thread' = "sample"
  /\ UNCHANGED <<shared, index, binding, Current_Sum, Past_Sum, deviceList,
                 Subscriptions>>

DeviceListRequest ==
  /\ thread = "receive"
  /\ thread' = "answer"
  /\ UNCHANGED <<shared, index, binding, Current_Sum, Past_Sum, deviceList,
                 Subscriptions>>

\* The grapher subscribes to a device of the last list it was sent.
UpdateSubscription(s, device) ==
  /\ thread = "receive"
  /\ device \in ToSet(deviceList.entries)
  /\ Subscriptions' = [Subscriptions EXCEPT ![s].device = device]
  /\ index' \in IF Racing THEN -1 .. Len(graphable) - 1
                ELSE {IndexOfBundleWithID(graphable, device)}
  /\ binding' = s
  /\ suspect' = IF Racing \/ index' = -1 THEN suspect \cup {s}
                                        ELSE suspect \ {s}
  /\ thread' = "bind"
  /\ UNCHANGED <<graphable, allTalons, pinUse, change, disturbed, Current_Sum,
                 Past_Sum, deviceList>>

\* operator[] does not check the place it is given.
ObjectAt(i) == IF i + 1 \in DOMAIN graphable THEN graphable[i + 1] ELSE Lost

BindSubscription ==
  /\ thread = "bind"
  /\ \E object \in {ObjectAt(index)} \cup (IF Racing THEN {Lost} ELSE {}) :
       Subscriptions' = [Subscriptions EXCEPT ![binding].Bundle = object]
  /\ suspect' = IF Racing THEN suspect \cup {binding} ELSE suspect
  /\ index' = -1
  /\ thread' = "sample"
  /\ UNCHANGED <<graphable, allTalons, pinUse, change, disturbed, binding,
                 Current_Sum, Past_Sum, deviceList>>

\* The values read end in one packet; a lost object is read all the same.
Sample ==
  /\ thread = "sample"
  /\ thread' = "check"
  /\ UNCHANGED <<shared, index, binding, Current_Sum, Past_Sum, deviceList,
                 Subscriptions>>

GrapherThread ==
  \/ ThreadStarts
  \/ CountDevices
  \/ SendDeviceList
  \/ NoMessage
  \/ DeviceListRequest
  \/ \E s \in Slots, d \in Devices : UpdateSubscription(s, d)
  \/ BindSubscription
  \/ Sample
=============================================================================
