------------------------------ MODULE SwerveMath ------------------------------
(***************************************************************************)
(* sidewinder's SwerveMath: the angle and the speed of every wheel for a   *)
(* motion of the robot, and the history that lets a wheel turn the shorter *)
(* way, backwards if that is shorter still.                                *)
(*                                                                         *)
(* Angles are whole degrees, lengths and speeds thousandths.  A wheel is   *)
(* named by the Talon its results go to.  The class numbers the corners    *)
(* with x to the left of the robot (WheelPoints): the right front wheel    *)
(* gets the vector of the corner at (-1, +1).                              *)
(***************************************************************************)
EXTENDS Integers, FiniteSets

CONSTANTS
  Wheels,   \* the wheels modelled, of the four there are
  Width,    \* wheelbase_width
  Length    \* wheelbase_length

ASSUME WheelsAssumption == Wheels \subseteq {"rf", "lf", "lr", "rr"}
ASSUME BaseAssumption == Width \in Nat \ {0, 1} /\ Length \in Nat \ {0, 1}

VARIABLES
  wheel_angles,       \* the angle a wheel is told, with no range limit
  wheel_anglesPast,   \* the direction it was last asked for, 0 .. 359
  wheel_mag_negated   \* it runs backwards

mathVars == <<wheel_angles, wheel_anglesPast, wheel_mag_negated>>

Abs(n) == IF n < 0 THEN -n ELSE n
sign(n) == IF n = 0 THEN 0 ELSE IF n > 0 THEN 1 ELSE -1
Angles == 0 .. 359

MathTypeOK ==
  /\ wheel_angles \in [Wheels -> Int]
  /\ wheel_anglesPast \in [Wheels -> Angles]
  /\ wheel_mag_negated \in [Wheels -> BOOLEAN]

MathInit ==
  /\ wheel_angles = [w \in Wheels |-> 0]
  /\ wheel_anglesPast = [w \in Wheels |-> 0]
  /\ wheel_mag_negated = [w \in Wheels |-> FALSE]

-----------------------------------------------------------------------------
(* Vectors                                                                 *)

\* The whole part of the root of x^2 + y^2.
hypot_(x, y) ==
  CHOOSE d \in 0 .. Abs(x) + Abs(y) :
    d * d <= x * x + y * y /\ x * x + y * y < (d + 1) * (d + 1)

\* The degrees of the arctangent of t thousandths, 0 <= t <= 1000, by the
\* quadratic that is right to a quarter of a degree.
Arctangent(t) ==
  (4500 * t + ((t * (1000 - t)) \div 1000) * (1402 + (379 * t) \div 1000)
     + 50000) \div 100000

to_degrees_atan2(y, x) ==
  LET a == Abs(x)
      b == Abs(y)
      first == IF a = 0 /\ b = 0 THEN 0
               ELSE IF b <= a THEN Arctangent((1000 * b) \div a)
               ELSE 90 - Arctangent((1000 * a) \div b)
      half == IF x < 0 THEN 180 - first ELSE first
  IN IF y < 0 THEN -half ELSE half

cord_multiplers ==
  [rf |-> <<-1, 1>>, lf |-> <<1, 1>>, lr |-> <<1, -1>>, rr |-> <<-1, -1>>]

\* The unit vectors of a rotation about the center of the robot.
calc_rotation_vectors ==
  [w \in Wheels |->
     LET X == -(Width * cord_multiplers[w][1]) \div 2
         Y == -(Length * cord_multiplers[w][2]) \div 2
         distance == hypot_(X, Y)
     IN <<(-Y * 1000) \div distance, (X * 1000) \div distance>>]

\* What a wheel is to do for forward, strafe and azimuth: percents.
WheelVector(m, w) ==
  <<m.str * 10 + (calc_rotation_vectors[w][1] * m.rcw) \div 100,
    m.fwd * 10 + (calc_rotation_vectors[w][2] * m.rcw) \div 100>>

WheelAngle(m) ==
  [w \in Wheels |->
     (to_degrees_atan2(WheelVector(m, w)[2], WheelVector(m, w)[1]) + 270) % 360]

\* The magnitudes, all cut by the same factor so that none is above full speed.
Magnitudes(m) ==
  LET magnitude ==
        [w \in Wheels |-> hypot_(WheelVector(m, w)[1], WheelVector(m, w)[2])]
      max == CHOOSE v \in {magnitude[w] : w \in Wheels} :
               \A w \in Wheels : magnitude[w] <= v
  IN [w \in Wheels |-> IF max > 1000 THEN (magnitude[w] * 1000) \div max
                                     ELSE magnitude[w]]

\* The wheels that negated names run backwards.
WheelSpeeds(magnitudes, negated) ==
  [w \in Wheels |-> IF negated[w] THEN -magnitudes[w] ELSE magnitudes[w]]

-----------------------------------------------------------------------------
(* History                                                                 *)

\* The shorter way round from one direction to another.
smart_angle_change(past, angle) ==
  LET option1 == angle - past
      option2 == -sign(option1) * (360 - Abs(option1))
  IN IF Abs(option1) < Abs(option2) THEN option1 ELSE option2

\* More than a quarter turn is saved by running backwards.
HalfTurn(change) ==
  IF change > 90 THEN -180 ELSE IF change < -90 THEN 180 ELSE 0

\* Mutant: the wheel turns round and runs forward as well.
TurnRound(angle) ==
  LET change == [w \in Wheels |->
                   smart_angle_change(wheel_anglesPast[w], angle[w])]
  IN /\ wheel_anglesPast' =
          [w \in Wheels |-> (wheel_anglesPast[w] + change[w] + 360) % 360]
     /\ wheel_angles' = [w \in Wheels |-> wheel_angles[w] + change[w]]
     /\ wheel_mag_negated' =
          [w \in Wheels |-> IF HalfTurn(change[w]) # 0
                            THEN ~wheel_mag_negated[w]
                            ELSE wheel_mag_negated[w]]

TurnTo(angle) ==
  LET change == [w \in Wheels |->
                   smart_angle_change(wheel_anglesPast[w], angle[w])]
  IN /\ wheel_anglesPast' =
          [w \in Wheels |-> (wheel_anglesPast[w] + change[w] + 360) % 360]
     /\ wheel_angles' =
          [w \in Wheels |-> wheel_angles[w] + change[w] + HalfTurn(change[w])]
     /\ wheel_mag_negated' =
          [w \in Wheels |-> IF HalfTurn(change[w]) # 0
                            THEN ~wheel_mag_negated[w]
                            ELSE wheel_mag_negated[w]]

\* operator(): the history of a motion.
Compute(m) == TurnTo(WheelAngle(m))

\* GetBrakeAzimuth: the wheels form an X.
BrakeAngle ==
  [rf |-> (-40 + 270) % 360, lf |-> (40 + 270) % 360,
   lr |-> (-40 + 270) % 360, rr |-> (40 + 270) % 360]
GetBrakeAzimuth == TurnTo([w \in Wheels |-> BrakeAngle[w]])

MathNext == \E angle \in [Wheels -> Angles] : TurnTo(angle)
MathSpec == MathInit /\ [][MathNext]_mathVars

-----------------------------------------------------------------------------

\* A wheel rolls in the direction it was last asked for: its angle, turned
\* round once more if it runs backwards, is that direction up to full turns,
\* after every sequence of motions (swerve_math.cc 57-78).
HistoryAgrees ==
  \A w \in Wheels :
    (wheel_angles[w] + (IF wheel_mag_negated[w] THEN 180 ELSE 0)
       - wheel_anglesPast[w]) % 360 = 0

\* No motion turns the angle a wheel is remembered at by more than a quarter turn
\* (swerve_math.cc 65-77).
QuarterTurn ==
  [][\A w \in Wheels : Abs(wheel_angles'[w] - wheel_angles[w]) <= 90]_mathVars
=============================================================================
