------------------------------- MODULE Cannon -------------------------------
(***************************************************************************)
(* The t-shirt cannon of avenger: Cannon::Fire and Cannon::Reset, which    *)
(* the commands FireCannon and ResetCannon call on the main thread, and    *)
(* Cannon::CloseSolenoid, which the Notifier calls on a thread of its own  *)
(* when the firing pulse is over.  All three hold mutex_ throughout.       *)
(***************************************************************************)
EXTENDS Integers

CONSTANT NumBarrels  \* solenoids_.size()

ASSUME NumBarrelsAssumption == NumBarrels \in Nat \ {0}

VARIABLES
  enabled,   \* FALSE while the driver station disables the robot
  barrel,    \* barrel_, the last one fired, -1 before the first
  firing,    \* firing_
  open,      \* the barrels whose solenoid is on
  mutex,     \* who holds mutex_
  main,      \* where the main thread is: "idle", or holding mutex_ in Fire
             \* ("fire", "opened") or in Reset ("reset")
  notifier,  \* the alarm: "off", "set", "due" (waiting for mutex_), or
             \* holding it in CloseSolenoid ("closing", "closed")
  spent      \* history: the barrels fired since the last reset or full round

mainThread == <<mutex, main>>
cannonVars == <<enabled, barrel, firing, open, mutex, main, notifier, spent>>

Barrels == 0 .. NumBarrels - 1
LastBarrel == NumBarrels - 1

CannonTypeOK ==
  /\ enabled \in BOOLEAN
  /\ barrel \in Barrels \cup {-1}
  /\ firing \in BOOLEAN
  /\ open \subseteq Barrels
  /\ mutex \in {"free", "main", "notifier"}
  /\ main \in {"idle", "fire", "opened", "reset"}
  /\ notifier \in {"off", "set", "due", "closing", "closed"}
  /\ spent \subseteq Barrels

CannonInit ==
  /\ enabled \in BOOLEAN
  /\ barrel = -1
  /\ firing = FALSE
  /\ open = {}
  /\ mutex = "free"
  /\ main = "idle"
  /\ notifier = "off"
  /\ spent = {}

-----------------------------------------------------------------------------
(* The main thread: a disabled robot runs no command, but finishes a call *)

EnableOrDisable ==
  /\ main = "idle"
  /\ enabled' = ~enabled
  /\ UNCHANGED <<barrel, firing, open, mutex, main, notifier, spent>>

Lock(who) == mutex = "free" /\ mutex' = who
Unlock(who) == mutex = who /\ mutex' = "free"

\* Mutant: wrapping to the first barrel instead of before it.
NextBarrelAfterFirst(b) == (IF b = LastBarrel THEN 0 ELSE b) + 1

NextBarrel(b) == (IF b = LastBarrel THEN -1 ELSE b) + 1

FireLocks ==
  /\ main = "idle"
  /\ enabled
  /\ Lock("main")
  /\ main' = "fire"
  /\ UNCHANGED <<enabled, barrel, firing, open, notifier, spent>>

FireReturns ==
  /\ main = "fire"
  /\ firing
  /\ Unlock("main")
  /\ main' = "idle"
  /\ UNCHANGED <<enabled, barrel, firing, open, notifier, spent>>

\* A round is over when every barrel has been fired.
SpentInRound == IF spent = Barrels THEN {} ELSE spent

FireOpens ==
  /\ main = "fire"
  /\ ~firing
  /\ barrel' = NextBarrel(barrel)
  /\ open' = open \cup {barrel'}
  /\ spent' = SpentInRound \cup {barrel'}
  /\ main' = "opened"
  /\ UNCHANGED <<enabled, firing, mutex, notifier>>

\* Mutant: the alarm is not started.
FireForgetsTimer ==
  /\ main = "opened"
  /\ firing' = TRUE
  /\ Unlock("main")
  /\ main' = "idle"
  /\ UNCHANGED <<enabled, barrel, open, notifier, spent>>

FireStartsTimer ==
  /\ main = "opened"
  /\ firing' = TRUE
  /\ notifier' = "set"
  /\ Unlock("main")
  /\ main' = "idle"
  /\ UNCHANGED <<enabled, barrel, open, spent>>

ResetLocks ==
  /\ main = "idle"
  /\ enabled
  /\ Lock("main")
  /\ main' = "reset"
  /\ UNCHANGED <<enabled, barrel, firing, open, notifier, spent>>

\* Mutant: the barrel is forgotten while its solenoid is still open.
ResetAnyway ==
  /\ main = "reset"
  /\ barrel' = -1
  /\ spent' = {}
  /\ Unlock("main")
  /\ main' = "idle"
  /\ UNCHANGED <<enabled, firing, open, notifier>>

Reset ==
  /\ main = "reset"
  /\ IF firing THEN UNCHANGED <<barrel, spent>>
               ELSE barrel' = -1 /\ spent' = {}
  /\ Unlock("main")
  /\ main' = "idle"
  /\ UNCHANGED <<enabled, firing, open, notifier>>

-----------------------------------------------------------------------------
(* The notifier's thread *)

Expire ==
  /\ notifier = "set"
  /\ notifier' = "due"
  /\ UNCHANGED <<enabled, barrel, firing, open, mainThread, spent>>

CloseLocks ==
  /\ notifier = "due"
  /\ Lock("notifier")
  /\ notifier' = "closing"
  /\ UNCHANGED <<enabled, barrel, firing, open, main, spent>>

CloseSolenoid ==
  /\ notifier = "closing"
  /\ open' = open \ {barrel}
  /\ notifier' = "closed"
  /\ UNCHANGED <<enabled, barrel, firing, mainThread, spent>>

CloseReturns ==
  /\ notifier = "closed"
  /\ firing' = FALSE
  /\ Unlock("notifier")
  /\ notifier' = "off"
  /\ UNCHANGED <<enabled, barrel, open, main, spent>>

-----------------------------------------------------------------------------
MainThread ==
  \/ EnableOrDisable
  \/ FireLocks
  \/ FireReturns
  \/ FireOpens
  \/ FireStartsTimer
  \/ ResetLocks
  \/ Reset

NotifierThread ==
  \/ Expire
  \/ CloseLocks
  \/ CloseSolenoid
  \/ CloseReturns

CannonNext == MainThread \/ NotifierThread

CannonSpec == CannonInit /\ [][CannonNext]_cannonVars

\* A call that has begun goes on, and the notifier gets the mutex although
\* the main thread takes it now and then: for an instant in 20 ms.
Fairness ==
  /\ WF_cannonVars(FireReturns \/ FireOpens \/ FireStartsTimer \/ Reset)
  /\ WF_cannonVars(Expire)
  /\ SF_cannonVars(CloseLocks)
  /\ WF_cannonVars(CloseSolenoid \/ CloseReturns)

CannonFairSpec == CannonSpec /\ Fairness

-----------------------------------------------------------------------------
(* The inductive invariant the proofs rest on.  mutex_ is held by whoever   *)
(* is inside; a solenoid is on from FireOpens to CloseSolenoid and is the   *)
(* one barrel_ names; the barrels spent are those up to barrel_.            *)

MutexIsHeld ==
  /\ mutex = "main" <=> main # "idle"
  /\ mutex = "notifier" <=> notifier \in {"closing", "closed"}

PulseIsOpen ==
  IF main = "opened"
  THEN ~firing /\ notifier = "off" /\ open = {barrel}
  ELSE /\ firing <=> notifier # "off"
       /\ open = IF notifier \in {"off", "closed"} THEN {} ELSE {barrel}

CannonInv == CannonTypeOK /\ MutexIsHeld /\ PulseIsOpen /\ spent = 0 .. barrel

-----------------------------------------------------------------------------
(* Properties *)

\* Two barrels are never open at once, however fast the trigger is pulled.
OneBarrelAtATime == \A a, b \in open : a = b

\* With mutex_ free, firing_ says whether a solenoid is on, and that solenoid
\* is the one CloseSolenoid is going to switch off: no Reset in between has
\* made barrel_ name another one, and an alarm is on its way to it.
FiringBarrelWillBeClosed ==
  mutex = "free" =>
    IF firing THEN open = {barrel} /\ notifier \in {"set", "due"}
              ELSE open = {} /\ notifier = "off"

\* No barrel is fired a second time before all of them were, unless the
\* cannon was reset.
NoBarrelTwice == [][open' \subseteq open \/ barrel' \notin SpentInRound]_cannonVars

\* An open solenoid is closed.
SolenoidCloses == \A b \in Barrels : (b \in open) ~> (b \notin open)
=============================================================================
