----------------------------- MODULE ShooterWheel -----------------------------
(***************************************************************************)
(* The set point of the shooter wheel, in encoder ticks per 100 ms, and    *)
(* everything that writes it: the commands that set a speed, the trim      *)
(* buttons of the dashboard, and StopShooterWheel, which reads the speed   *)
(* of the wheel once and ramps down from there, a few ticks per cycle.     *)
(* The subsystem keeps the set point as an int and StopShooterWheel as an  *)
(* unsigned; GetSpeed is signed.                                           *)
(***************************************************************************)
EXTENDS Integers

CONSTANTS
  MaxInt,           \* the largest int
  kMinSpeed, kMaxSpeed, kSpeedDecrement,
  MeasuredSpeeds,   \* the speeds the encoder may report
  Speeds,           \* the speeds commands and shooting solutions ask for
  Amounts           \* the amounts of the trim buttons

ASSUME ShooterWheelAssumption ==
  /\ MaxInt \in Nat
  /\ kMinSpeed \in 0 .. MaxInt
  /\ kMaxSpeed \in kMinSpeed .. MaxInt
  /\ kSpeedDecrement \in Nat \ {0}
  /\ MeasuredSpeeds \subseteq -(MaxInt + 1) .. MaxInt
  /\ Speeds \subseteq 0 .. MaxInt
  /\ Amounts \subseteq Nat

VARIABLES
  setpoint,   \* ShooterWheel::speed_setpoint_
  ramping,    \* a StopShooterWheel is running
  ramp,       \* StopShooterWheel::speed_setpoint_
  measured    \* history: the speed the last StopShooterWheel started from

wheelVars == <<setpoint, ramping, ramp, measured>>

UIntSize == 2 * (MaxInt + 1)

WheelTypeOK ==
  /\ setpoint \in -(MaxInt + 1) .. MaxInt
  /\ ramping \in BOOLEAN
  /\ ramp \in 0 .. UIntSize - 1
  /\ measured \in MeasuredSpeeds \cup {0}

WheelInit ==
  /\ setpoint = 0
  /\ ramping = FALSE
  /\ ramp = 0
  /\ measured = 0

-----------------------------------------------------------------------------
(* Conversions between int and unsigned, which keep the bits *)

AsUnsigned(i) == IF i < 0 THEN i + UIntSize ELSE i
AsInt(u) == IF u > MaxInt THEN u - UIntSize ELSE u

-----------------------------------------------------------------------------
(* Commands that require the wheel interrupt the ramp *)

InterruptRamp == ramping' = FALSE /\ UNCHANGED <<ramp, measured>>

\* StartShooterWheel and SetWheel.
SetSpeed(speed) == setpoint' = speed /\ InterruptRamp

\* SetShooter does not require the wheel, and writes it only if it is slow.
SetShooterSpeed(speed) ==
  /\ setpoint < 400
  /\ setpoint' = speed
  /\ UNCHANGED <<ramping, ramp, measured>>

IncrementSpeed(amount) ==
  /\ setpoint' = IF setpoint + amount > kMaxSpeed THEN kMaxSpeed
                                                  ELSE setpoint + amount
  /\ InterruptRamp

DecrementSpeed(amount) ==
  /\ setpoint' = IF setpoint - amount < kMinSpeed THEN kMinSpeed
                                                  ELSE setpoint - amount
  /\ InterruptRamp

-----------------------------------------------------------------------------
(* StopShooterWheel *)

\* Mutant: the last few ticks without the test.
SlowerModulo(u) == (u - kSpeedDecrement) % UIntSize

Slower(u) == IF u < kSpeedDecrement THEN 0 ELSE u - kSpeedDecrement

Execute(from) ==
  /\ ramp' = Slower(from)
  /\ setpoint' = AsInt(ramp')
  /\ ramping' = (ramp' # 0)

\* A ramp in progress is interrupted.
BeginRamp(speed) ==
  /\ measured' = speed
  /\ Execute(AsUnsigned(speed))

ContinueRamp == ramping /\ Execute(ramp) /\ UNCHANGED measured

-----------------------------------------------------------------------------
Trim == \E a \in Amounts : IncrementSpeed(a) \/ DecrementSpeed(a)

WheelNext ==
  \/ \E s \in Speeds : SetSpeed(s) \/ SetShooterSpeed(s)
  \/ Trim
  \/ \E s \in MeasuredSpeeds : BeginRamp(s)
  \/ ContinueRamp

WheelSpec == WheelInit /\ [][WheelNext]_wheelVars

-----------------------------------------------------------------------------
(* Properties *)

Magnitude(i) == IF i < 0 THEN -i ELSE i

\* "StopShooterWheel ramps shooter wheel speed down to zero" (wheel.cc 22): it
\* never asks for more, in either direction, than the speed it found the wheel
\* at.  A wheel that was found turning backwards refutes this: -1, taken for
\* the largest unsigned number, is ramped down to -7 and from there away from
\* zero (wheel.cc 32, 47).
RampSlowsDown == ramping => Magnitude(AsInt(ramp)) <= Magnitude(measured)

\* What holds of every ramp but those: each of its set points lies between zero
\* and the speed it started from, and the next is lower (wheel.cc 31-50).
RampHeadsForZero ==
  ramping /\ measured >= 0 =>
    AsInt(ramp) \in 0 .. measured /\ Slower(ramp) < ramp
=============================================================================
