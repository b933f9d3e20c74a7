----------------------------- MODULE SwerveProofs -----------------------------
(***************************************************************************)
(* Proofs about the swerve drive for every value of its constants: the     *)
(* wheels' history (SwerveMath), the motors and their encoders (Swerve)    *)
(* and the commands that use them (HealthCheck), with the ramp that stops  *)
(* the shooter wheel (ShooterWheel).                                       *)
(***************************************************************************)
EXTENDS HealthCheck, WellFoundedInduction, TLAPS

-----------------------------------------------------------------------------
(* The shooter wheel                                                       *)

\* A ramp from a speed that is not negative stays below it, so that it never
\* reaches the half of the unsigned range that is negative as an int; and it
\* ends with zero.
WheelInv ==
  /\ WheelTypeOK
  /\ measured >= 0 => ramp <= measured
  /\ ramping => ramp # 0

\* One call of StopShooterWheel's Execute.
LEMMA ExecuteKeeps ==
  ASSUME NEW from \in 0 .. UIntSize - 1, Execute(from),
         measured' \in MeasuredSpeeds \cup {0}, measured' >= 0 => from <= measured'
  PROVE  WheelInv'
<1> USE ShooterWheelAssumption
<1>1. Slower(from) \in 0 .. UIntSize - 1 /\ Slower(from) <= from
  BY SMT DEF Slower, UIntSize
<1>2. ramp' = Slower(from) /\ setpoint' = AsInt(Slower(from))
      /\ ramping' = (ramp' # 0)
  BY DEF Execute
<1>3. AsInt(Slower(from)) \in -(MaxInt + 1) .. MaxInt
  BY <1>1, SMT DEF AsInt, UIntSize
<1>4. ramping' \in BOOLEAN /\ (ramping' => ramp' # 0)
  BY <1>2, Zenon
<1>5. measured' >= 0 => ramp' <= measured'
  BY <1>1, <1>2, SMT DEF UIntSize
<1> QED
  BY <1>1, <1>2, <1>3, <1>4, <1>5 DEF WheelInv, WheelTypeOK

LEMMA BeginRampKeeps ==
  ASSUME NEW s \in MeasuredSpeeds, BeginRamp(s)
  PROVE  WheelInv'
<1>1. AsUnsigned(s) \in 0 .. UIntSize - 1 /\ (s >= 0 => AsUnsigned(s) = s) /\ s \in Int
  BY ShooterWheelAssumption, SMT DEF AsUnsigned, UIntSize
<1> QED
  BY <1>1, ExecuteKeeps DEF BeginRamp

LEMMA ContinueRampKeeps ==
  ASSUME WheelInv, ContinueRamp
  PROVE  WheelInv'
BY ExecuteKeeps DEF ContinueRamp, WheelInv, WheelTypeOK

\* The steps that do not go on with the ramp.
LEMMA RampLeft ==
  ASSUME WheelInv, setpoint' \in -(MaxInt + 1) .. MaxInt, UNCHANGED <<ramp, measured>>,
         ramping' = FALSE \/ UNCHANGED ramping
  PROVE  WheelInv'
<1>1. /\ ramp \in 0 .. UIntSize - 1 /\ measured \in MeasuredSpeeds \cup {0}
      /\ (measured >= 0 => ramp <= measured) /\ (ramping => ramp # 0)
      /\ ramping \in BOOLEAN
  BY DEF WheelInv, WheelTypeOK
<1>2. ramp' = ramp /\ measured' = measured
  OBVIOUS
<1>3. ramping' \in BOOLEAN /\ (ramping' => ramp' # 0)
  <2>1. CASE ramping' = FALSE
    BY <2>1
  <2>2. CASE ramping' = ramping
    BY <1>1, <1>2, <2>2
  <2> QED
    BY <2>1, <2>2
<1>4. ramp' \in 0 .. UIntSize' - 1 /\ UIntSize' = UIntSize
  BY <1>1, <1>2 DEF UIntSize
<1> QED
  BY <1>1, <1>2, <1>3, <1>4 DEF WheelInv, WheelTypeOK

\* Every step of the wheel keeps WheelInv, whatever the speeds it measures.
LEMMA WheelInvStep == WheelInv /\ [WheelNext]_wheelVars => WheelInv'
<1> SUFFICES ASSUME WheelInv, [WheelNext]_wheelVars PROVE WheelInv'
  OBVIOUS
<1> USE ShooterWheelAssumption
<1>0. setpoint \in -(MaxInt + 1) .. MaxInt /\ MaxInt \in Nat
  BY DEF WheelInv, WheelTypeOK
<1>1. ASSUME NEW s \in Speeds, SetSpeed(s) \/ SetShooterSpeed(s) PROVE WheelInv'
  <2>1. setpoint' = s /\ s \in -(MaxInt + 1) .. MaxInt
    BY <1>0, <1>1, SMT DEF SetSpeed, SetShooterSpeed
  <2> QED BY <1>1, <2>1, RampLeft DEF SetSpeed, SetShooterSpeed, InterruptRamp
<1>2. ASSUME NEW a \in Amounts, IncrementSpeed(a) PROVE WheelInv'
  <2>1. setpoint' \in -(MaxInt + 1) .. MaxInt
    BY <1>0, <1>2, SMT DEF IncrementSpeed
  <2> QED BY <1>2, <2>1, RampLeft DEF IncrementSpeed, InterruptRamp
<1>3. ASSUME NEW a \in Amounts, DecrementSpeed(a) PROVE WheelInv'
  <2>1. setpoint' \in -(MaxInt + 1) .. MaxInt
    BY <1>0, <1>3, SMT DEF DecrementSpeed
  <2> QED BY <1>3, <2>1, RampLeft DEF DecrementSpeed, InterruptRamp
<1>4. CASE UNCHANGED wheelVars
  BY <1>0, <1>4, RampLeft DEF wheelVars
<1> QED
  BY <1>1, <1>2, <1>3, <1>4, BeginRampKeeps, ContinueRampKeeps DEF WheelNext, Trim

LEMMA WheelInvInit == WheelInit => WheelInv
<1> SUFFICES ASSUME WheelInit PROVE WheelInv
  OBVIOUS
<1>1. 0 \in -(MaxInt + 1) .. MaxInt /\ 0 \in 0 .. UIntSize - 1
  BY ShooterWheelAssumption, SMT DEF UIntSize
<1> QED
  BY <1>1 DEF WheelInit, WheelInv, WheelTypeOK

LEMMA RampFalls == WheelInv => RampHeadsForZero
<1> SUFFICES ASSUME WheelInv, ramping, measured >= 0
             PROVE  AsInt(ramp) \in 0 .. measured /\ Slower(ramp) < ramp
  BY DEF RampHeadsForZero
<1>1. ramp \in Nat /\ ramp # 0 /\ measured \in 0 .. MaxInt /\ ramp <= measured
      /\ MaxInt \in Nat /\ kSpeedDecrement \in Nat \ {0}
  BY ShooterWheelAssumption, SMT DEF WheelInv, WheelTypeOK, UIntSize
<1> QED
  BY <1>1, SMT DEF AsInt, Slower

\* Whatever commands and trim buttons write the wheel, and however fast, and in
\* either direction, StopShooterWheel found it turning: a ramp from a speed that
\* is not negative asks for speeds between that and zero only, and for a lower
\* one with every call, though it goes through an unsigned and back.
THEOREM WheelHeadsForZero == WheelSpec => [](WheelTypeOK /\ RampHeadsForZero)
<1>1. WheelInv => WheelTypeOK
  BY DEF WheelInv
<1> QED BY WheelInvInit, WheelInvStep, RampFalls, <1>1, PTL DEF WheelSpec

\* And a wheel found turning backwards, by any speed that is a step away from the
\* least int, is first driven backwards faster (wheel.cc 31-33, 43-50); the run of
\* WheelBackwards shows it of one speed.
THEOREM BackwardsRunsAway ==
  ASSUME NEW s \in MeasuredSpeeds, s < 0, s - kSpeedDecrement >= -(MaxInt + 1),
         BeginRamp(s)
  PROVE  setpoint' = s - kSpeedDecrement /\ ~RampSlowsDown'
<1> USE ShooterWheelAssumption
<1>1. /\ AsUnsigned(s) = s + UIntSize
      /\ Slower(s + UIntSize) = s + UIntSize - kSpeedDecrement
      /\ s + UIntSize - kSpeedDecrement > MaxInt /\ UIntSize \in Nat
  BY SMT DEF AsUnsigned, Slower, UIntSize
<1>2. ramp' = s + UIntSize - kSpeedDecrement /\ setpoint' = AsInt(ramp')
      /\ ramping' = (ramp' # 0) /\ measured' = s
  BY <1>1, Zenon DEF BeginRamp, Execute
<1>3. AsInt(ramp') = s - kSpeedDecrement /\ ramp' # 0
  BY <1>1, <1>2, SMT DEF AsInt, UIntSize
<1>4. ~(Magnitude(s - kSpeedDecrement) <= Magnitude(s))
  BY SMT DEF Magnitude
<1> QED
  BY <1>2, <1>3, <1>4 DEF RampSlowsDown

-----------------------------------------------------------------------------
(* The wheels' history                                                     *)


\* The change is at most half a turn, and leads to the direction asked for but
\* for a full turn (smart_angle_change).
LEMMA ChangeReaches ==
  ASSUME NEW past \in Angles, NEW angle \in Angles
  PROVE  /\ smart_angle_change(past, angle) \in -180 .. 180
         /\ \/ past + smart_angle_change(past, angle) = angle
            \/ past + smart_angle_change(past, angle) = angle - 360
            \/ past + smart_angle_change(past, angle) = angle + 360
<1> DEFINE raw == angle - past
<1>1. raw \in -359 .. 359
  BY DEF Angles
<1>2. CASE raw = 0
  <2>1. smart_angle_change(past, angle) = 0
    BY <1>2 DEF smart_angle_change, sign, Abs
  <2> QED
    BY <1>2, <2>1 DEF Angles
<1>3. CASE raw > 0
  <2>1. \/ smart_angle_change(past, angle) = raw /\ raw <= 180
        \/ smart_angle_change(past, angle) = raw - 360 /\ raw >= 180
    BY <1>1, <1>3 DEF smart_angle_change, sign, Abs
  <2> QED
    BY <1>1, <1>3, <2>1 DEF Angles
<1>4. CASE raw < 0
  <2>1. \/ smart_angle_change(past, angle) = raw /\ -raw <= 180
        \/ smart_angle_change(past, angle) = raw + 360 /\ -raw >= 180
    BY <1>1, <1>4 DEF smart_angle_change, sign, Abs
  <2> QED
    BY <1>1, <1>4, <2>1 DEF Angles
<1> QED
  BY <1>1, <1>2, <1>3, <1>4

\* After a motion the history is the direction asked for.
LEMMA PastIsAngle ==
  ASSUME NEW past \in Angles, NEW angle \in Angles
  PROVE  (past + smart_angle_change(past, angle) + 360) % 360 = angle
<1> DEFINE c == smart_angle_change(past, angle)
<1>1. past + c = angle \/ past + c = angle - 360 \/ past + c = angle + 360
  BY ChangeReaches
<1>2. c \in Int
  BY ChangeReaches
<1> HIDE DEF c
<1>3. past + c + 360 \in {angle, angle + 360, angle + 720}
  BY <1>1, <1>2 DEF Angles
<1>4. /\ angle % 360 = angle
      /\ (angle + 360) % 360 = angle
      /\ (angle + 720) % 360 = angle
  BY DEF Angles
<1> QED
  BY <1>3, <1>4 DEF c

\* With the half turn a wheel turns by at most a quarter turn.
LEMMA HalfTurnSaves ==
  ASSUME NEW c \in -180 .. 180
  PROVE  /\ HalfTurn(c) \in {-180, 0, 180}
         /\ c + HalfTurn(c) \in -90 .. 90
  BY DEF HalfTurn

\* A motion leaves the history of its type, and is remembered.
LEMMA TurnType ==
  ASSUME MathTypeOK, NEW angle \in [Wheels -> Angles], TurnTo(angle)
  PROVE  MathTypeOK' /\ wheel_anglesPast' = angle
<1> DEFINE c(w) == smart_angle_change(wheel_anglesPast[w], angle[w])
<1>1. \A w \in Wheels : wheel_anglesPast[w] \in Angles /\ angle[w] \in Angles
  BY DEF MathTypeOK
<1>2. ASSUME NEW w \in Wheels
      PROVE  c(w) \in Int /\ HalfTurn(c(w)) \in Int
  <2>1. c(w) \in -180 .. 180
    BY <1>1, ChangeReaches
  <2> HIDE DEF c
  <2>2. HalfTurn(c(w)) \in {-180, 0, 180}
    BY <2>1, HalfTurnSaves
  <2> QED
    BY <2>1, <2>2
<1>3. \A w \in Wheels : (wheel_anglesPast[w] + c(w) + 360) % 360 = angle[w]
  BY <1>1, PastIsAngle
<1>4. wheel_anglesPast' = angle
  BY <1>3 DEF TurnTo
<1>5. \A w \in Wheels : wheel_angles[w] + c(w) + HalfTurn(c(w)) \in Int
  BY <1>2 DEF MathTypeOK
<1>6. wheel_angles' \in [Wheels -> Int]
  BY <1>5 DEF TurnTo
<1>7. wheel_mag_negated' \in [Wheels -> BOOLEAN]
  BY DEF TurnTo, MathTypeOK
<1> QED
  BY <1>4, <1>6, <1>7 DEF MathTypeOK

LEMMA MathType == MathSpec => []MathTypeOK
<1>1. MathInit => MathTypeOK
  BY DEF MathInit, MathTypeOK, Angles
<1>2. MathTypeOK /\ [MathNext]_mathVars => MathTypeOK'
  <2>1. MathTypeOK /\ UNCHANGED mathVars => MathTypeOK'
    BY DEF MathTypeOK, mathVars
  <2> QED
    BY <2>1, TurnType DEF MathNext
<1> QED
  BY <1>1, <1>2, PTL DEF MathSpec

\* What a motion does to one wheel.
LEMMA OneWheel ==
  ASSUME MathTypeOK, NEW angle \in [Wheels -> Angles], TurnTo(angle),
         NEW w \in Wheels
  PROVE  \E c \in -180 .. 180, k \in {-1, 0, 1} :
           /\ wheel_anglesPast'[w] = angle[w]
           /\ wheel_anglesPast[w] + c = angle[w] + 360 * k
           /\ wheel_angles'[w] = wheel_angles[w] + c + HalfTurn(c)
           /\ wheel_mag_negated'[w] = IF HalfTurn(c) # 0
                                      THEN ~wheel_mag_negated[w]
                                      ELSE wheel_mag_negated[w]
<1> DEFINE c == smart_angle_change(wheel_anglesPast[w], angle[w])
<1>1. wheel_anglesPast[w] \in Angles /\ angle[w] \in Angles
  BY DEF MathTypeOK
<1>2. c \in -180 .. 180
  BY <1>1, ChangeReaches
<1>3. PICK k \in {-1, 0, 1} : wheel_anglesPast[w] + c = angle[w] + 360 * k
  <2>1. \/ wheel_anglesPast[w] + c = angle[w] + 360 * 0
        \/ wheel_anglesPast[w] + c = angle[w] + 360 * (-1)
        \/ wheel_anglesPast[w] + c = angle[w] + 360 * 1
    <3>1. \/ wheel_anglesPast[w] + c = angle[w]
          \/ wheel_anglesPast[w] + c = angle[w] - 360
          \/ wheel_anglesPast[w] + c = angle[w] + 360
      BY <1>1, ChangeReaches
    <3> HIDE DEF c
    <3> QED
      BY <3>1, <1>1 DEF Angles
  <2> QED
    BY <2>1
<1>4. wheel_anglesPast'[w] = angle[w]
  BY <1>1, PastIsAngle DEF TurnTo
<1>5. /\ wheel_angles'[w] = wheel_angles[w] + c + HalfTurn(c)
      /\ wheel_mag_negated'[w] = IF HalfTurn(c) # 0 THEN ~wheel_mag_negated[w]
                                                    ELSE wheel_mag_negated[w]
  BY DEF TurnTo
<1> QED
  BY <1>2, <1>3, <1>4, <1>5

\* The direction a wheel rolls in is the one it was asked for, up to full turns.
THEOREM MathHistoryAgrees == MathSpec => []HistoryAgrees
<1>1. MathInit => HistoryAgrees
  BY DEF MathInit, HistoryAgrees
<1>2. MathTypeOK /\ HistoryAgrees /\ [MathNext]_mathVars => HistoryAgrees'
  <2> SUFFICES ASSUME MathTypeOK, HistoryAgrees, [MathNext]_mathVars
               PROVE  HistoryAgrees'
    OBVIOUS
  <2>1. CASE UNCHANGED mathVars
    BY <2>1 DEF HistoryAgrees, mathVars
  <2>2. ASSUME NEW angle \in [Wheels -> Angles], TurnTo(angle)
        PROVE  HistoryAgrees'
    <3> SUFFICES ASSUME NEW w \in Wheels
                 PROVE (wheel_angles'[w]
                          + (IF wheel_mag_negated'[w] THEN 180 ELSE 0)
                          - wheel_anglesPast'[w]) % 360 = 0
      BY DEF HistoryAgrees
    <3>1. PICK c \in -180 .. 180, k \in {-1, 0, 1} :
             /\ wheel_anglesPast'[w] = angle[w]
             /\ wheel_anglesPast[w] + c = angle[w] + 360 * k
             /\ wheel_angles'[w] = wheel_angles[w] + c + HalfTurn(c)
             /\ wheel_mag_negated'[w] = IF HalfTurn(c) # 0
                                        THEN ~wheel_mag_negated[w]
                                        ELSE wheel_mag_negated[w]
      BY <2>2, OneWheel
    <3> DEFINE n == IF wheel_mag_negated[w] THEN 180 ELSE 0
               m == IF wheel_mag_negated'[w] THEN 180 ELSE 0
               before == wheel_angles[w] + n - wheel_anglesPast[w]
               after == wheel_angles'[w] + m - wheel_anglesPast'[w]
    <3>2. /\ wheel_angles[w] \in Int /\ wheel_anglesPast[w] \in Int
          /\ wheel_mag_negated[w] \in BOOLEAN /\ angle[w] \in Int
      BY DEF MathTypeOK, Angles
    <3>3. n \in {0, 180} /\ m \in {0, 180}
      OBVIOUS
    <3>4. HalfTurn(c) \in {-180, 0, 180}
      BY HalfTurnSaves
    <3>5. HalfTurn(c) # 0 => m = 180 - n
      <4> SUFFICES ASSUME HalfTurn(c) # 0 PROVE m = 180 - n
        OBVIOUS
      <4>1. wheel_mag_negated'[w] = ~wheel_mag_negated[w]
        BY <3>1
      <4>2. CASE wheel_mag_negated[w]
        <5>1. n = 180 /\ m = 0
          BY <4>1, <4>2
        <5> QED
          BY <5>1
      <4>3. CASE ~wheel_mag_negated[w]
        <5>1. n = 0 /\ m = 180
          BY <4>1, <4>3
        <5> QED
          BY <5>1
      <4> QED
        BY <4>2, <4>3
    <3>6. HalfTurn(c) = 0 => m = n
      BY <3>1, <3>2
    <3>7. before % 360 = 0
      BY DEF HistoryAgrees
    <3> HIDE DEF n, m
    <3>8. after = before + (m - n) + HalfTurn(c) + 360 * k
      BY <3>1, <3>2, <3>3, <3>4
    <3>9. (m - n) + HalfTurn(c) \in {-360, 0, 360}
      BY <3>3, <3>4, <3>5, <3>6
    <3>10. before \in Int
      BY <3>2, <3>3
    <3> HIDE DEF before, after
    <3>11. PICK j \in {-1, 0, 1} : (m - n) + HalfTurn(c) = 360 * j
      BY <3>9
    <3>12. after = before + 360 * j + 360 * k
      <4> DEFINE d == (m - n) + HalfTurn(c)
      <4>1. after = before + d + 360 * k
        BY <3>8, <3>10, <3>3, <3>4
      <4>2. d = 360 * j
        BY <3>11
      <4> HIDE DEF d
      <4> QED
        BY <4>1, <4>2
    <3>13. after % 360 = 0
      BY <3>7, <3>10, <3>12
    <3> QED
      BY <3>13 DEF after, m
  <2> QED
    BY <2>1, <2>2 DEF MathNext
<1> QED
  BY <1>1, <1>2, MathType, PTL DEF MathSpec

\* A wheel's turn is what is added to its angle.
LEMMA TurnIsSum ==
  ASSUME NEW before \in Int, NEW after, NEW c \in Int, NEW h \in Int,
         after = before + c + h, c + h \in -90 .. 90
  PROVE  after - before \in -90 .. 90
OBVIOUS

\* No motion turns a wheel by more than a quarter turn.
THEOREM MathQuarterTurn == MathSpec => QuarterTurn
<1>1. MathTypeOK /\ [MathNext]_mathVars =>
        [\A w \in Wheels : Abs(wheel_angles'[w] - wheel_angles[w]) <= 90]_mathVars
  <2> SUFFICES ASSUME MathTypeOK, MathNext, NEW w \in Wheels
               PROVE  Abs(wheel_angles'[w] - wheel_angles[w]) <= 90
    OBVIOUS
  <2>1. PICK angle \in [Wheels -> Angles] : TurnTo(angle)
    BY DEF MathNext
  <2>2. PICK c \in -180 .. 180 :
           wheel_angles'[w] = wheel_angles[w] + c + HalfTurn(c)
    BY <2>1, OneWheel
  <2>3. c + HalfTurn(c) \in -90 .. 90
    BY HalfTurnSaves
  <2>4. HalfTurn(c) \in {-180, 0, 180}
    BY HalfTurnSaves
  <2>5. wheel_angles[w] \in Int
    BY DEF MathTypeOK
  <2>6. wheel_angles'[w] - wheel_angles[w] \in -90 .. 90
    <3> DEFINE h == HalfTurn(c)
               after == wheel_angles'[w]
               before == wheel_angles[w]
    <3>1. after = before + c + h
      BY <2>2
    <3>2. c + h \in -90 .. 90 /\ h \in Int
      BY <2>3, <2>4
    <3>3. before \in Int /\ c \in Int
      BY <2>5
    <3> HIDE DEF h, after, before
    <3>4. after - before \in -90 .. 90
      BY <3>1, <3>2, <3>3, TurnIsSum
    <3> QED
      BY <3>4 DEF after, before
  <2> QED
    BY <2>6 DEF Abs
<1> QED
  BY <1>1, MathType, PTL DEF MathSpec, QuarterTurn

-----------------------------------------------------------------------------
(* Lengths, angles and speeds of a motion are integers in their ranges.    *)

\* A set of naturals that is not empty has a least element.
LEMMA Least ==
  ASSUME NEW T, T \subseteq Nat, T # {}
  PROVE  \E least \in T : \A n \in T : least <= n
<1> DEFINE R == OpToRel(<, Nat)
<1>1. PICK least \in T : \A n \in T : ~(<<n, least>> \in R)
  BY WFMin, NatLessThanWellFounded
<1>2. \A n \in T : n < least => <<n, least>> \in R
  BY DEF OpToRel
<1> HIDE DEF R
<1>3. \A n \in T : ~(n < least)
  BY <1>1, <1>2
<1> QED
  BY <1>3

\* The root that hypot_ chooses exists: the last number whose square fits.
LEMMA Root ==
  ASSUME NEW x \in Int, NEW y \in Int
  PROVE  /\ hypot_(x, y) \in Nat
         /\ x # 0 \/ y # 0 => hypot_(x, y) > 0
<1> DEFINE n == x * x + y * y
           Above == {k \in Nat : k * k > n}
           Fits(d) == d * d <= n /\ n < (d + 1) * (d + 1)
<1>1. n \in Nat /\ (x # 0 \/ y # 0 => n > 0)
  <2>1. x * x \in Nat /\ (x # 0 => x * x > 0)
    OBVIOUS
  <2>2. y * y \in Nat /\ (y # 0 => y * y > 0)
    OBVIOUS
  <2> QED
    BY <2>1, <2>2
<1>2. Abs(x) \in Nat /\ Abs(y) \in Nat /\ n <= (Abs(x) + Abs(y)) * (Abs(x) + Abs(y))
  <2> DEFINE a == Abs(x)
             b == Abs(y)
  <2>1. a \in Nat /\ b \in Nat /\ a * a = x * x /\ b * b = y * y
    BY DEF Abs
  <2> HIDE DEF a, b
  <2>2. a * b \in Nat
    BY <2>1
  <2>3. (a + b) * (a + b) = a * a + 2 * (a * b) + b * b
    BY <2>1
  <2>4. n <= (a + b) * (a + b)
    BY <2>1, <2>2, <2>3, <1>1
  <2> QED
    BY <2>1, <2>4 DEF a, b
<1> DEFINE bound == Abs(x) + Abs(y)
<1> HIDE DEF n
<1>3. bound \in Nat /\ n <= bound * bound
  BY <1>2
<1> HIDE DEF bound
<1>4. \E d \in 0 .. bound : Fits(d)
  <2>1. bound + 1 \in Above
    <3>1. (bound + 1) * (bound + 1) = bound * bound + 2 * bound + 1
      BY <1>3
    <3>2. bound * bound \in Nat
      BY <1>3
    <3> QED
      BY <1>1, <1>3, <3>1, <3>2
  <2>2. PICK k \in Above : \A m \in Above : k <= m
    BY <2>1, Least
  <2>3. k # 0
    BY <1>1
  <2>4. k \in Nat /\ k * k > n
    OBVIOUS
  <2>5. k - 1 \in Nat /\ k - 1 <= bound
    <3> HIDE DEF Above
    <3>1. k <= bound + 1
      BY <2>1, <2>2
    <3> QED
      BY <1>3, <2>3, <2>4, <3>1
  <2>6. ~((k - 1) * (k - 1) > n)
    BY <2>2, <2>5
  <2>7. Fits(k - 1)
    <3>1. (k - 1) + 1 = k /\ (k - 1) * (k - 1) \in Int
      BY <2>4
    <3> QED
      BY <1>1, <2>4, <2>6, <3>1
  <2>8. k - 1 \in 0 .. bound
    BY <1>3, <2>5
  <2> QED
    BY <2>7, <2>8
<1>5. hypot_(x, y) = CHOOSE d \in 0 .. bound : Fits(d)
  BY DEF hypot_, n, bound
<1>6. hypot_(x, y) \in 0 .. bound /\ Fits(hypot_(x, y))
  BY <1>4, <1>5
<1> QED
  BY <1>1, <1>3, <1>6

\* The direction of a vector is a whole number of degrees.
LEMMA Direction ==
  ASSUME NEW x \in Int, NEW y \in Int
  PROVE  to_degrees_atan2(y, x) \in Int
<1>1. ASSUME NEW t \in Int PROVE Arctangent(t) \in Int
  <2> DEFINE u == (t * (1000 - t)) \div 1000
             v == 1402 + (379 * t) \div 1000
  <2>1. u \in Int /\ v \in Int
    OBVIOUS
  <2>2. Arctangent(t) = (4500 * t + u * v + 50000) \div 100000
    BY DEF Arctangent
  <2> HIDE DEF u, v
  <2>3. u * v \in Int
    BY <2>1
  <2> QED
    BY <2>2, <2>3
<1> DEFINE a == Abs(x)
           b == Abs(y)
           first == IF a = 0 /\ b = 0 THEN 0
                    ELSE IF b <= a THEN Arctangent((1000 * b) \div a)
                    ELSE 90 - Arctangent((1000 * a) \div b)
           half == IF x < 0 THEN 180 - first ELSE first
<1>2. a \in Nat /\ b \in Nat
  BY DEF Abs
<1>3. to_degrees_atan2(y, x) = IF y < 0 THEN -half ELSE half
  BY DEF to_degrees_atan2
<1>4. first \in Int
  <2> HIDE DEF a, b
  <2>1. CASE a = 0 /\ b = 0
    BY <2>1
  <2>2. CASE ~(a = 0 /\ b = 0) /\ b <= a
    <3>1. a > 0 /\ (1000 * b) \div a \in Int
      BY <1>2, <2>2
    <3>2. first = Arctangent((1000 * b) \div a)
      BY <2>2
    <3> QED
      BY <1>1, <3>1, <3>2
  <2>3. CASE ~(b <= a)
    <3>1. b > 0 /\ (1000 * a) \div b \in Int
      BY <1>2, <2>3
    <3>2. first = 90 - Arctangent((1000 * a) \div b)
      BY <1>2, <2>3
    <3> QED
      BY <1>1, <3>1, <3>2
  <2> QED
    BY <2>1, <2>2, <2>3
<1> HIDE DEF first
<1> QED
  BY <1>3, <1>4

\* The motions of the model have whole numbers of percents.
MotionType == [fwd : Int, str : Int, rcw : Int]

\* Turning a motion into the robot's frame leaves it a motion.
LEMMA ToldTypes == Told \subseteq MotionType /\ NoMotion \in MotionType
<1>1. Motions \subseteq MotionType
  BY MotionsAssumption DEF MotionType
<1>2. ASSUME NEW m \in Motions, NEW h \in Headings
      PROVE  Rotated(m, h) \in MotionType
  <2>1. m.fwd \in Int /\ m.str \in Int /\ m.rcw \in Int
    BY <1>1 DEF MotionType
  <2>2. Cos(h) \in {-1, 0, 1} /\ Sin(h) \in {-1, 0, 1}
    BY DEF Cos, Sin
  <2>3. /\ m.fwd * Cos(h) + m.str * Sin(h) \in Int
        /\ m.str * Cos(h) - m.fwd * Sin(h) \in Int
    BY <2>1, <2>2
  <2> QED
    BY <2>1, <2>3 DEF Rotated, MotionType
<1> QED
  BY <1>1, <1>2 DEF Told, MotionType, NoMotion

\* Every wheel has a rotation vector: no wheel is at the robot's center.
LEMMA RotationVectors ==
  \A w \in Wheels : /\ calc_rotation_vectors[w][1] \in Int
                     /\ calc_rotation_vectors[w][2] \in Int
<1> SUFFICES ASSUME NEW w \in Wheels
             PROVE  /\ calc_rotation_vectors[w][1] \in Int
                    /\ calc_rotation_vectors[w][2] \in Int
  OBVIOUS
<1> DEFINE X == -(Width * cord_multiplers[w][1]) \div 2
           Y == -(Length * cord_multiplers[w][2]) \div 2
<1>1. cord_multiplers[w][1] \in {-1, 1} /\ cord_multiplers[w][2] \in {-1, 1}
  BY WheelsAssumption DEF cord_multiplers
<1>2. X \in Int /\ X # 0 /\ Y \in Int
  BY <1>1, BaseAssumption
<1>3. calc_rotation_vectors[w] =
        <<(-Y * 1000) \div hypot_(X, Y), (X * 1000) \div hypot_(X, Y)>>
  BY DEF calc_rotation_vectors
<1> HIDE DEF X, Y
<1>4. hypot_(X, Y) \in Nat /\ hypot_(X, Y) > 0
  BY <1>2, Root
<1> QED
  BY <1>2, <1>3, <1>4

LEMMA Vectors ==
  ASSUME NEW m \in MotionType, NEW w \in Wheels
  PROVE  WheelVector(m, w)[1] \in Int /\ WheelVector(m, w)[2] \in Int
<1>1. m.fwd \in Int /\ m.str \in Int /\ m.rcw \in Int
  BY DEF MotionType
<1> DEFINE r == calc_rotation_vectors[w]
<1>2. r[1] * m.rcw \in Int /\ r[2] * m.rcw \in Int
  BY <1>1, RotationVectors
<1>3. (r[1] * m.rcw) \div 100 \in Int /\ (r[2] * m.rcw) \div 100 \in Int
  BY <1>2
<1> HIDE DEF r
<1>4. WheelVector(m, w) = <<m.str * 10 + (r[1] * m.rcw) \div 100,
                            m.fwd * 10 + (r[2] * m.rcw) \div 100>>
  BY DEF WheelVector, r
<1> QED
  BY <1>1, <1>3, <1>4

\* What a motion asks of a wheel is a direction.
LEMMA WheelAngles ==
  ASSUME NEW m \in MotionType
  PROVE  WheelAngle(m) \in [Wheels -> Angles]
<1> SUFFICES ASSUME NEW w \in Wheels
             PROVE  (to_degrees_atan2(WheelVector(m, w)[2], WheelVector(m, w)[1])
                       + 270) % 360 \in Angles
  BY DEF WheelAngle
<1>1. to_degrees_atan2(WheelVector(m, w)[2], WheelVector(m, w)[1]) \in Int
  BY Vectors, Direction
<1> QED
  BY <1>1 DEF Angles

\* The largest of the wheels' magnitudes is one of them.
LEMMA Largest ==
  ASSUME NEW f, \A w \in Wheels : f[w] \in Nat, Wheels # {}
  PROVE  \E v \in {f[w] : w \in Wheels} : \A w \in Wheels : f[w] <= v
<1> DEFINE Part(w) == IF w \in Wheels THEN f[w] ELSE 0
           sum == Part("rf") + Part("lf") + Part("lr") + Part("rr")
           Bounds == {b \in Nat : \A w \in Wheels : f[w] <= b}
<1>1. \A w \in {"rf", "lf", "lr", "rr"} : Part(w) \in Nat
  OBVIOUS
<1>2. sum \in Bounds
  <2>1. sum \in Nat /\ \A w \in {"rf", "lf", "lr", "rr"} : Part(w) <= sum
    <3> HIDE DEF Part
    <3> QED
      BY <1>1
  <2>2. \A w \in Wheels : f[w] = Part(w)
    OBVIOUS
  <2> HIDE DEF Part, sum
  <2> QED
    BY <2>1, <2>2, WheelsAssumption
<1> HIDE DEF sum
<1>3. PICK v \in Bounds : \A b \in Bounds : v <= b
  <2> Bounds \subseteq Nat /\ Bounds # {}
    BY <1>2
  <2> QED
    BY Least
<1>4. v \in Nat /\ \A w \in Wheels : f[w] <= v
  OBVIOUS
<1>5. CASE \E w \in Wheels : f[w] = v
  BY <1>4, <1>5
<1>6. CASE \A w \in Wheels : f[w] # v
  <2>1. \A w \in Wheels : f[w] <= v - 1
    BY <1>4, <1>6
  <2>2. v - 1 \in Nat
    BY <1>4, <2>1
  <2>3. v - 1 \in Bounds
    BY <2>1, <2>2
  <2> HIDE DEF Bounds
  <2> QED
    BY <1>3, <1>4, <2>3
<1> QED
  BY <1>5, <1>6

\* No wheel is asked for more than full speed.
LEMMA WheelSpeedTypes ==
  ASSUME NEW m \in MotionType
  PROVE  /\ Magnitudes(m) = [w \in Wheels |-> Magnitudes(m)[w]]
         /\ \A w \in Wheels : Magnitudes(m)[w] \in 0 .. 1000
<1> DEFINE magnitude ==
             [w \in Wheels |-> hypot_(WheelVector(m, w)[1], WheelVector(m, w)[2])]
           max == CHOOSE v \in {magnitude[w] : w \in Wheels} :
                    \A w \in Wheels : magnitude[w] <= v
<1>1. Magnitudes(m) = [w \in Wheels |-> IF max > 1000
                                        THEN (magnitude[w] * 1000) \div max
                                        ELSE magnitude[w]]
  BY DEF Magnitudes
<1>2. \A w \in Wheels : magnitude[w] \in Nat
  BY Vectors, Root
<1> HIDE DEF magnitude
<1>3. ASSUME NEW w \in Wheels
      PROVE  Magnitudes(m)[w] \in 0 .. 1000
  <2>1. max \in Nat /\ magnitude[w] <= max
    <3>1. \E v \in {magnitude[u] : u \in Wheels} :
            \A u \in Wheels : magnitude[u] <= v
      BY <1>2, Largest
    <3> QED
      BY <1>2, <3>1
  <2> HIDE DEF max
  <2> DEFINE g == magnitude[w]
  <2>2. g \in Nat /\ g <= max
    BY <1>2, <2>1
  <2>3. Magnitudes(m)[w] = IF max > 1000 THEN (g * 1000) \div max ELSE g
    BY <1>1
  <2> HIDE DEF g
  <2>4. CASE max > 1000
    <3> DEFINE q == (g * 1000) \div max
               r == (g * 1000) % max
    <3>1. /\ q \in Int /\ r \in 0 .. max - 1
          /\ g * 1000 = q * max + r
      BY <2>1, <2>2, <2>4
    <3> HIDE DEF q, r
    <3>2. q >= 0
      <4>1. CASE q < 0
        <5>1. q * max <= -max
          BY <2>1, <2>4, <3>1, <4>1
        <5> QED
          BY <2>1, <2>2, <3>1, <5>1
      <4> QED
        BY <3>1, <4>1
    <3>3. q <= 1000
      <4>1. CASE q >= 1001
        <5>1. q * max >= 1001 * max
          BY <2>1, <2>4, <3>1, <4>1
        <5> QED
          BY <2>1, <2>2, <2>4, <3>1, <5>1
      <4> QED
        BY <3>1, <4>1
    <3> QED
      BY <2>3, <2>4, <3>1, <3>2, <3>3 DEF q
  <2>5. CASE ~(max > 1000)
    BY <2>1, <2>2, <2>3, <2>5
  <2> QED
    BY <2>4, <2>5
<1> QED
  BY <1>1, <1>3

-----------------------------------------------------------------------------
(* The inductive invariant of the motors and the health check              *)

\* The wheels do what the last motion told them.
AsTold ==
  motion # NoMotion =>
    /\ azimuth = [w \in Wheels |-> Ticks(wheel_angles[w])]
    /\ drive = [w \in Wheels |->
                  WheelSpeeds(SpeedTable[motion], wheel_mag_negated)[w]
                    * drive_scale_factor_]
    /\ wheel_anglesPast = AngleTable[motion]

\* A health check has let go of the motion before it, and runs enabled.
CheckStill ==
  /\ command = "health" /\ started => motion = NoMotion
  /\ command # "none" => enabled

\* Voltage mode lasts while the health check runs.
ModeInv == talon.azimuth.mode = "voltage" => command = "health" /\ started

\* The azimuths hold volts in voltage mode only, and ticks in the others only;
\* the check leaves voltage mode after its azimuth test.
HeldInv ==
  /\ held = "volts" => talon.azimuth.mode = "voltage"
  /\ held = "ticks" => talon.azimuth.mode # "voltage"
  /\ command = "health" /\ started /\ TestsLeft("azimuth") =>
       talon.azimuth.mode = "voltage"

\* Once the azimuths are told to go back they are held and less than a turn away.
ZeroInv ==
  IsStage("azimuth_position") /\ ~is_transitioning_ =>
    /\ held = "ticks"
    /\ azimuth = All(0)
    /\ talon.azimuth.mode # "voltage"
    /\ \A w \in Wheels : position[w] \in 0 .. Turn - 1

\* The health check has not set the encoders yet.
Pending ==
  /\ command = "health"
  /\ started => /\ iter["azimuth_position"] = 1
                /\ IsStage("azimuth_position") => is_transitioning_
Done == IF Pending THEN checks - 1 ELSE checks

\* The encoders of a wheel agree up to full turns and to the lag.
Offset(w, lag) == (position[w] + lag - (absolute[w] - zero[w])) % Turn = 0

\* The reading of the calibration costs its lag, and so does a check, when it
\* sets the encoders, and once.
Slack == (Done + 1) * LongestLag
LagInv ==
  /\ checks \in Nat /\ Done \in Nat
  /\ \A w \in Wheels : \E lag \in -Slack .. Slack : Offset(w, lag)

\* The stages are gone through in their order.
InOrder ==
  \A i, j \in 1 .. Len(Stages) :
    i < j /\ TestsLeft(Stages[i]) => iter[Stages[j]] = 1

\* The climber's first motor was stopped, and brakes, before its second starts.
MasterOver ==
  IsStage("climber_slave") =>
    "climber_master" \notin motor /\ "climber_slave" \notin coast

IterType ==
  /\ iter \in [DOMAIN Tests -> Nat]
  /\ \A s \in DOMAIN Tests : iter[s] \in 1 .. Tests[s] + 1

HealthInv ==
  /\ HealthTypeOK /\ IterType
  /\ AsTold /\ DriveFitsConfiguration /\ CheckStill
  /\ ModeInv /\ HeldInv /\ ZeroInv /\ LagInv
  /\ InOrder /\ OnlyTestedMotorRuns /\ MasterOver /\ WheelInv

-----------------------------------------------------------------------------
(* The Talons                                                              *)

\* The modes of the drive motors: a configuration writes all its mode uses.
LEMMA DriveModes ==
  ASSUME NEW t \in Talons,
         NEW name \in {"drive", "drive_auton", "drive_auton_slow_azimuth"}
  PROVE  /\ SetMode(name, t) \in Talons
         /\ OfOneConfiguration(SetMode(name, t))
         /\ SetMode(name, t).common = name
         /\ GetSetpointMax(name) \in Nat
<1>1. DOMAIN Config = {"azimuth", "drive", "drive_auton", "drive_auton_slow_azimuth"}
  BY DEF Config
<1>2. CASE name = "drive"
  <2>1. SetMode(name, t) = [t EXCEPT !.mode = "voltage", !.common = name]
    BY <1>2 DEF SetMode, Config, VoltageSetMode, SettingsSetMode
  <2>2. name \in Names /\ GetSetpointMax(name) \in Nat
    BY <1>1, <1>2 DEF Names, GetSetpointMax, Config
  <2>3. \A group \in Uses["voltage"] : group = "common"
    BY DEF Uses
  <2>4. Config[name].type = "voltage"
    BY <1>2 DEF Config
  <2> QED
    BY <2>1, <2>2, <2>3, <2>4 DEF Talons, Types, OfOneConfiguration
<1>3. CASE name # "drive"
  <2>1. Config[name].type = "velocity"
    BY <1>3 DEF Config
  <2>2. SetMode(name, t) = [t EXCEPT !.mode = "velocity", !.common = name,
                                     !.pid = name]
    BY <2>1 DEF SetMode, VelocitySetMode, PIDSetMode, SettingsSetMode
  <2>3. name \in Names /\ GetSetpointMax(name) \in Nat
    BY <1>1, <1>3 DEF Names, GetSetpointMax, Config
  <2>4. \A group \in Uses["velocity"] : group \in {"common", "pid"}
    BY DEF Uses
  <2> QED
    BY <2>1, <2>2, <2>3, <2>4 DEF Talons, Types, OfOneConfiguration
<1> QED
  BY <1>2, <1>3

-----------------------------------------------------------------------------
(* The operations of the drive                                             *)

\* The part of the invariant that every operation of the drive keeps.
SwerveInv == SwerveTypeOK /\ AsTold /\ DriveFitsConfiguration

\* The tables hold an angle and a speed of every motion and wheel.
LEMMA Tables ==
  ASSUME NEW m \in Told
  PROVE  /\ AngleTable[m] \in [Wheels -> Angles]
         /\ \A w \in Wheels : SpeedTable[m][w] \in 0 .. 1000
<1>1. AngleTable[m] = WheelAngle(m) /\ SpeedTable[m] = Magnitudes(m)
  BY DEF AngleTable, SpeedTable
<1>2. m \in MotionType
  BY ToldTypes
<1> QED
  BY <1>1, <1>2, WheelAngles, WheelSpeedTypes

LEMMA TicksType == \A angle \in Int : Ticks(angle) \in Int
<1> SUFFICES ASSUME NEW angle \in Int PROVE Ticks(angle) \in Int
  OBVIOUS
<1>1. sign(angle) \in {-1, 0, 1} /\ (Abs(angle) * Turn + 180) \div 360 \in Int
  BY DEF sign, Abs, Turn
<1> QED
  BY <1>1 DEF Ticks

\* A motion told to the wheels.
LEMMA DriveWheelsStep ==
  ASSUME SwerveInv, NEW m \in Told, DriveWheels(m), UnchangedWheels
  PROVE  SwerveInv' /\ MathNext
<1>0. held' \in Units
  BY DEF DriveWheels, SetWheels, Units
<1>1. MathTypeOK' /\ wheel_anglesPast' = AngleTable[m]
  BY Tables, TurnType DEF DriveWheels, SetWheels, SwerveInv, SwerveTypeOK
<1>2. azimuth' \in [Wheels -> Int]
  <2>1. \A w \in Wheels : wheel_angles'[w] \in Int
    BY <1>1 DEF MathTypeOK
  <2> QED
    BY <2>1, TicksType DEF DriveWheels, SetWheels
<1>3. drive' \in [Wheels -> Int]
  <2>1. drive_scale_factor_ \in Nat
    BY DEF SwerveInv, SwerveTypeOK
  <2>2. ASSUME NEW w \in Wheels
        PROVE  WheelSpeeds(SpeedTable[m], wheel_mag_negated')[w] \in Int
    <3> DEFINE v == SpeedTable[m][w]
    <3>1. v \in 0 .. 1000
      BY Tables
    <3>2. WheelSpeeds(SpeedTable[m], wheel_mag_negated')[w] \in {v, -v}
      BY DEF WheelSpeeds
    <3> HIDE DEF v
    <3> QED
      BY <3>1, <3>2
  <2>3. \A w \in Wheels :
          WheelSpeeds(SpeedTable[m], wheel_mag_negated')[w]
            * drive_scale_factor_ \in Int
    BY <2>1, <2>2
  <2> QED
    BY <2>3 DEF DriveWheels, SetWheels
<1>4. SwerveTypeOK'
  BY <1>0, <1>1, <1>2, <1>3
  DEF SwerveInv, SwerveTypeOK, DriveWheels, SetWheels, UnchangedWheels
<1>5. AsTold'
  BY <1>1 DEF AsTold, DriveWheels, SetWheels, UnchangedWheels
<1>6. DriveFitsConfiguration'
  BY DEF SwerveInv, DriveFitsConfiguration, UnchangedWheels
<1>7. MathNext
  BY Tables DEF MathNext, DriveWheels, SetWheels
<1> QED
  BY <1>4, <1>5, <1>6, <1>7 DEF SwerveInv

\* The wheels are stopped, or set with no motion told.
LEMMA SetStep ==
  ASSUME SwerveInv, azimuth' \in [Wheels -> Int], drive' \in [Wheels -> Int],
         held' \in Units, MathTypeOK', motion' = NoMotion, UnchangedWheels
  PROVE  SwerveInv'
BY DEF SwerveInv, SwerveTypeOK, AsTold, DriveFitsConfiguration, UnchangedWheels

LEMMA DriveStep ==
  ASSUME SwerveInv, NEW m, NEW zone \in {DeadZone, AutonZone},
         m \in Told \/ m = NoMotion, Drive_(m, zone)
  PROVE  /\ SwerveInv' /\ [MathNext]_mathVars /\ UnchangedWheels
         /\ held' = "ticks" \/ held' = held
         /\ UNCHANGED mathVars \/ FollowHistory'
<1>1. UnchangedWheels
  BY DEF Drive_
<1>2. CASE Stop
  <2>1. MathTypeOK' /\ held' \in Units /\ azimuth' \in [Wheels -> Int]
    BY <1>2 DEF Stop, mathVars, MathTypeOK, SwerveInv, SwerveTypeOK
  <2>2. /\ drive' \in [Wheels -> Int] /\ motion' = NoMotion
        /\ UNCHANGED <<mathVars, held>>
    BY <1>2 DEF Stop, SetDrive, All
  <2> QED
    BY <1>1, <2>1, <2>2, SetStep
<1>3. CASE m \in Told /\ DriveWheels(m)
  BY <1>1, <1>3, DriveWheelsStep DEF DriveWheels, SetWheels, FollowHistory
<1>4. CASE m = NoMotion
  <2>1. Stop
    BY <1>4 DEF Drive_, NoMotion, Abs, DeadZone, AutonZone
  <2> QED
    BY <2>1, <1>2
<1> QED
  BY <1>2, <1>3, <1>4 DEF Drive_

LEMMA BrakeStep ==
  ASSUME SwerveInv, SetBrake
  PROVE  SwerveInv' /\ MathNext /\ UnchangedWheels /\ held' = "ticks" /\ FollowHistory'
<1> DEFINE angle == [w \in Wheels |-> BrakeAngle[w]]
<1>1. angle \in [Wheels -> Angles]
  BY WheelsAssumption DEF BrakeAngle, Angles
<1>2. TurnTo(angle) /\ MathNext
  BY <1>1 DEF SetBrake, GetBrakeAzimuth, MathNext
<1>3. MathTypeOK'
  BY <1>1, <1>2, TurnType DEF SwerveInv, SwerveTypeOK
<1>4. azimuth' \in [Wheels -> Int]
  <2>1. \A w \in Wheels : wheel_angles'[w] \in Int
    BY <1>3 DEF MathTypeOK
  <2> QED
    BY <2>1, TicksType DEF SetBrake
<1>5. drive' \in [Wheels -> Int] /\ held' \in Units /\ motion' = NoMotion
  BY DEF SetBrake, SwerveInv, SwerveTypeOK, Units
<1> QED
  BY <1>2, <1>3, <1>4, <1>5, SetStep DEF SetBrake, FollowHistory

\* A change of the drive's mode and of nothing else of the Talons.
LEMMA ModeStep ==
  ASSUME SwerveInv,
         NEW name \in {"drive", "drive_auton", "drive_auton_slow_azimuth"},
         drive_scale_factor_' = GetSetpointMax(name),
         talon'.drive = SetMode(name, talon.drive),
         talon' = [azimuth |-> talon'.azimuth, drive |-> talon'.drive],
         talon'.azimuth \in Talons, motion' = NoMotion,
         azimuth' \in [Wheels -> Int], drive' \in [Wheels -> Int],
         held' \in Units,
         UNCHANGED <<mathVars, absolute, calibration, zero>>,
         position' \in [Wheels -> Int]
  PROVE  SwerveInv'
<1>1. talon.drive \in Talons
  BY DEF SwerveInv, SwerveTypeOK
<1>2. /\ talon'.drive \in Talons /\ OfOneConfiguration(talon'.drive)
      /\ talon'.drive.common = name /\ GetSetpointMax(name) \in Nat
  BY <1>1, DriveModes
<1>3. talon' \in [azimuth : Talons, drive : Talons]
  BY <1>2
<1>4. MathTypeOK'
  BY DEF SwerveInv, SwerveTypeOK, MathTypeOK, mathVars
<1>5. SwerveTypeOK'
  BY <1>2, <1>3, <1>4 DEF SwerveInv, SwerveTypeOK
<1>6. DriveFitsConfiguration'
  BY <1>2 DEF DriveFitsConfiguration
<1> QED
  BY <1>5, <1>6 DEF SwerveInv, AsTold

\* A voltage, or a mode, of the azimuths; the drive motors are left alone.
LEMMA AzimuthStep ==
  ASSUME SwerveInv, motion' = NoMotion,
         UNCHANGED <<mathVars, drive_scale_factor_, calibration, zero, absolute>>,
         talon' = [talon EXCEPT !.azimuth = talon'.azimuth],
         talon'.azimuth \in Talons,
         position' \in [Wheels -> Int], azimuth' \in [Wheels -> Int],
         drive' \in [Wheels -> Int], held' \in Units
  PROVE  SwerveInv'
<1>1. talon' \in [azimuth : Talons, drive : Talons] /\ talon'.drive = talon.drive
  BY DEF SwerveInv, SwerveTypeOK
<1>2. MathTypeOK'
  BY DEF SwerveInv, SwerveTypeOK, MathTypeOK, mathVars
<1>3. SwerveTypeOK'
  BY <1>1, <1>2 DEF SwerveInv, SwerveTypeOK
<1>4. DriveFitsConfiguration'
  BY <1>1 DEF SwerveInv, DriveFitsConfiguration
<1> QED
  BY <1>3, <1>4 DEF SwerveInv, AsTold

\* The modes the health check puts the azimuths in.
LEMMA AzimuthModes ==
  ASSUME SwerveInv, NEW on \in BOOLEAN
  PROVE  /\ AzimuthMode(on) = [azimuth |-> AzimuthMode(on).azimuth,
                               drive |-> talon.drive]
         /\ AzimuthMode(on) = [talon EXCEPT !.azimuth = AzimuthMode(on).azimuth]
         /\ AzimuthMode(on).azimuth \in Talons
         /\ AzimuthMode(on).azimuth.mode = IF on THEN "voltage" ELSE "position"
<1>1. talon \in [azimuth : Talons, drive : Talons]
  BY DEF SwerveInv, SwerveTypeOK
<1> QED
  BY <1>1 DEF AzimuthMode, Talons, Types

\* The calibration is written or read; the motors are left alone.
LEMMA CalibrationStep ==
  ASSUME SwerveInv,
         UNCHANGED <<mathVars, talon, azimuth, held, absolute, drive,
                     drive_scale_factor_, motion>>,
         position' \in [Wheels -> Int],
         calibration' \in [Wheels -> 0 .. Turn - 1],
         zero' \in [Wheels -> 0 .. Turn - 1]
  PROVE  SwerveInv'
<1>1. MathTypeOK'
  BY DEF SwerveInv, SwerveTypeOK, MathTypeOK, mathVars
<1>2. SwerveTypeOK'
  BY <1>1 DEF SwerveInv, SwerveTypeOK
<1> QED
  BY <1>2 DEF SwerveInv, AsTold, DriveFitsConfiguration, mathVars

LEMMA Readings == Turn \in Nat /\ 0 .. Turn - 1 \subseteq Int
BY DEF Turn

\* The lag of every wheel's reading is at most the longest.
LEMMA LagFacts ==
  ASSUME NEW lag \in [Wheels -> Lags]
  PROVE  \A w \in Wheels : lag[w] \in Int /\ lag[w] \in -LongestLag .. LongestLag
<1>1. \A l \in Lags : l \in Int /\ l \in -LongestLag .. LongestLag
  BY LagsAssumption
<1> QED
  BY <1>1

LEMMA PulseWidthType ==
  ASSUME SwerveInv, NEW lag \in [Wheels -> Lags]
  PROVE  PulseWidthPosition(lag) \in [Wheels -> 0 .. Turn - 1]
<1>1. ASSUME NEW w \in Wheels PROVE (absolute[w] - lag[w]) % Turn \in 0 .. Turn - 1
  <2> DEFINE n == absolute[w] - lag[w]
  <2>1. n \in Int
    BY LagFacts, Readings DEF SwerveInv, SwerveTypeOK
  <2> HIDE DEF n
  <2>2. n % Turn \in 0 .. Turn - 1
    BY <2>1 DEF Turn
  <2> QED
    BY <2>2 DEF n
<1> QED
  BY <1>1 DEF PulseWidthPosition

LEMMA ReadPosition ==
  ASSUME SwerveInv, ReadAzimuthCalibration
  PROVE  position' \in [Wheels -> Int]
<1>1. PICK lag \in [Wheels -> Lags] :
        position' = [w \in Wheels |-> PulseWidthPosition(lag)[w] - calibration[w]]
  BY DEF ReadAzimuthCalibration
<1>2. \A w \in Wheels : PulseWidthPosition(lag)[w] \in Int /\ calibration[w] \in Int
  BY PulseWidthType, Readings DEF SwerveInv, SwerveTypeOK
<1>3. \A w \in Wheels : PulseWidthPosition(lag)[w] - calibration[w] \in Int
  BY <1>2
<1> QED
  BY <1>1, <1>3

LEMMA AllType == \A n \in Int : All(n) \in [Wheels -> Int]
BY DEF All

\* What a command's Initialize does to the drive.
LEMMA InitializeStep ==
  ASSUME SwerveInv, NEW c, Initialize_(c)
  PROVE  /\ SwerveInv' /\ [MathNext]_mathVars
         /\ UNCHANGED mathVars \/ FollowHistory'
         /\ c # "health" => /\ talon'.azimuth = talon.azimuth /\ UNCHANGED checkVars
                            /\ held' = "ticks" \/ held' = held
         /\ c = "health" => /\ motion' = NoMotion /\ IteratorsBegin /\ PrepareTest
                            /\ talon'.azimuth.mode = "voltage"
                            /\ held' = HeldIn(talon')
         /\ c = "read" => ReadAzimuthCalibration
         /\ c # "read" => UNCHANGED <<position, absolute, zero>>
<1>1. talon \in [azimuth : Talons, drive : Talons] /\ azimuth \in [Wheels -> Int]
      /\ drive \in [Wheels -> Int] /\ held \in Units
      /\ position \in [Wheels -> Int]
  BY DEF SwerveInv, SwerveTypeOK
<1> DEFINE DriveMode(name) == SetDriveMode(name, GetSetpointMax(name))
<1>2. ASSUME NEW name \in {"drive", "drive_auton", "drive_auton_slow_azimuth"},
             DriveMode(name)
      PROVE  SwerveInv' /\ UNCHANGED <<mathVars, position, absolute, zero, held>>
             /\ talon'.azimuth = talon.azimuth
  <2>1. /\ talon' = [talon EXCEPT !.drive = SetMode(name, talon.drive)]
        /\ drive_scale_factor_' = GetSetpointMax(name) /\ motion' = NoMotion
        /\ UNCHANGED <<mathVars, azimuth, held, position, absolute, drive,
                       calibration, zero>>
    BY <1>2 DEF SetDriveMode
  <2>2. /\ talon'.drive = SetMode(name, talon.drive)
        /\ talon'.azimuth = talon.azimuth /\ talon'.azimuth \in Talons
        /\ talon' = [azimuth |-> talon'.azimuth, drive |-> talon'.drive]
    BY <1>1, <2>1
  <2> QED
    BY <1>1, <2>1, <2>2, ModeStep
<1>3. CASE c = "teleop" /\ TeleOpInitialize /\ UNCHANGED checkVars
  <2>1. DriveMode("drive")
    BY <1>3 DEF TeleOpInitialize, SetTeleOpMode
  <2> QED
    BY <1>2, <1>3, <2>1
<1>4. CASE c = "auton_drive" /\ SetAutonMode /\ UNCHANGED checkVars
  <2>1. DriveMode("drive_auton")
    BY <1>4 DEF SetAutonMode
  <2> QED
    BY <1>2, <1>4, <2>1
<1>5. CASE c = "auton_azimuth" /\ SetAzimuthMode /\ UNCHANGED checkVars
  <2>1. DriveMode("drive_auton_slow_azimuth")
    BY <1>5 DEF SetAzimuthMode
  <2> QED
    BY <1>2, <1>5, <2>1
<1>6. CASE c = "brake" /\ SetBrake /\ UNCHANGED checkVars
  BY <1>6, BrakeStep DEF UnchangedWheels
<1>7. CASE c = "zero" /\ ZeroWheelAzimuthInitialize /\ UNCHANGED checkVars
  <2>1. ZeroAzimuth
    BY <1>7 DEF ZeroWheelAzimuthInitialize
  <2>2. MathTypeOK' /\ azimuth' \in [Wheels -> Int] /\ drive' \in [Wheels -> Int]
        /\ held' = "ticks" /\ held' \in Units /\ UNCHANGED mathVars
    BY <1>1, <2>1, AllType
    DEF ZeroAzimuth, SetAzimuth, SwerveInv, SwerveTypeOK, MathTypeOK, mathVars, Units
  <2>3. SwerveInv'
    BY <2>1, <2>2, SetStep DEF ZeroAzimuth
  <2> QED
    BY <1>7, <2>1, <2>2, <2>3 DEF ZeroAzimuth, UnchangedWheels
<1>8. CASE c = "write" /\ WriteAzimuthCalibration /\ UNCHANGED checkVars
  <2>1. calibration' \in [Wheels -> 0 .. Turn - 1]
        /\ zero' \in [Wheels -> 0 .. Turn - 1]
    BY <1>8, PulseWidthType DEF WriteAzimuthCalibration, SwerveInv, SwerveTypeOK
  <2> QED
    BY <1>1, <1>8, <2>1, CalibrationStep DEF WriteAzimuthCalibration
<1>9. CASE c = "read" /\ ReadAzimuthCalibration /\ UNCHANGED checkVars
  <2>1. calibration' \in [Wheels -> 0 .. Turn - 1]
        /\ zero' \in [Wheels -> 0 .. Turn - 1]
    BY <1>9 DEF ReadAzimuthCalibration, SwerveInv, SwerveTypeOK
  <2> QED
    BY <1>9, <2>1, ReadPosition, CalibrationStep DEF ReadAzimuthCalibration
<1>10. CASE c = "drive_zero" /\ DriveZeroInitialize /\ UNCHANGED checkVars
  <2>1. /\ talon' = [talon EXCEPT !.drive = SetMode("drive_auton", talon.drive)]
        /\ drive_scale_factor_' = GetSetpointMax("drive_auton")
        /\ motion' = NoMotion /\ held' = "ticks"
        /\ azimuth' = All(0) /\ drive' = All(kDriveSetpoint)
        /\ UNCHANGED <<mathVars, position, absolute, calibration, zero>>
    BY <1>10 DEF DriveZeroInitialize
  <2>2. azimuth' \in [Wheels -> Int] /\ drive' \in [Wheels -> Int] /\ held' \in Units
    BY <2>1, AllType DEF kDriveSetpoint, Units
  <2>3. /\ talon'.drive = SetMode("drive_auton", talon.drive)
        /\ talon'.azimuth = talon.azimuth /\ talon'.azimuth \in Talons
        /\ talon' = [azimuth |-> talon'.azimuth, drive |-> talon'.drive]
    BY <1>1, <2>1
  <2>4. SwerveInv'
    BY <1>1, <2>1, <2>2, <2>3, ModeStep
  <2> QED
    BY <1>10, <2>1, <2>3, <2>4
<1>11. CASE c = "health" /\ HealthInitialize
  <2>1. /\ talon' = [AzimuthMode(TRUE) EXCEPT
                       !.drive = SetMode("drive", talon.drive)]
        /\ drive_scale_factor_' = GetSetpointMax("drive")
        /\ held' = HeldIn(talon') /\ motion' = NoMotion
        /\ UNCHANGED <<mathVars, azimuth, position, absolute, drive,
                       calibration, zero>>
        /\ IteratorsBegin /\ PrepareTest
    BY <1>11 DEF HealthInitialize, StartCheck
  <2>2. /\ talon'.drive = SetMode("drive", talon.drive)
        /\ talon'.azimuth \in Talons /\ talon'.azimuth.mode = "voltage"
        /\ talon' = [azimuth |-> talon'.azimuth, drive |-> talon'.drive]
    BY <2>1, AzimuthModes
  <2>3. held' \in Units
    BY <1>1, <2>1 DEF HeldIn, Units
  <2>4. SwerveInv'
    BY <1>1, <2>1, <2>2, <2>3, ModeStep
  <2> QED
    BY <1>11, <2>1, <2>2, <2>4
<1>12. CASE c = "disable_brake" /\ UNCHANGED <<swerveVars, checkVars>>
  BY <1>12 DEF SwerveInv, SwerveTypeOK, MathTypeOK, AsTold,
               DriveFitsConfiguration, swerveVars, mathVars
<1> QED
  BY <1>3, <1>4, <1>5, <1>6, <1>7, <1>8, <1>9, <1>10, <1>11, <1>12
  DEF Initialize_

LEMMA SwerveSame ==
  SwerveInv /\ UNCHANGED swerveVars => SwerveInv' /\ [MathNext]_mathVars
BY DEF SwerveInv, SwerveTypeOK, MathTypeOK, AsTold, DriveFitsConfiguration,
       swerveVars, mathVars

\* What a command's End does to the drive.
LEMMA EndStep ==
  ASSUME SwerveInv, command \in Commands, End_(command),
         command = "health" /\ started => motion = NoMotion, started
  PROVE  /\ SwerveInv' /\ [MathNext]_mathVars
         /\ UNCHANGED mathVars \/ FollowHistory'
         /\ command # "health" => /\ talon'.azimuth = talon.azimuth
                                  /\ held' = "volts" => held = "volts"
         /\ command = "health" => /\ talon'.azimuth.mode = "position"
                                  /\ held' = HeldIn(talon')
         /\ UNCHANGED <<position, absolute, zero>>
<1>1. talon \in [azimuth : Talons, drive : Talons] /\ azimuth \in [Wheels -> Int]
      /\ drive \in [Wheels -> Int] /\ held \in Units
      /\ position \in [Wheels -> Int]
  BY DEF SwerveInv, SwerveTypeOK
<1>2. CASE command = "teleop" /\ TeleOpEnd
  <2>1. Rotated(NoMotion, 0) = NoMotion
    BY DEF Rotated, NoMotion, Cos, Sin
  <2>2. Drive_(NoMotion, DeadZone)
    BY <1>2, <2>1 DEF TeleOpEnd, Drive
  <2> QED
    BY <1>2, <2>2, DriveStep DEF UnchangedWheels
<1>3. CASE command = "zero" /\ ZeroWheelAzimuthEnd
  <2>1. held' = "none"
        /\ UNCHANGED <<mathVars, talon, azimuth, position, absolute, drive,
                       drive_scale_factor_, calibration, zero, motion>>
    BY <1>3 DEF ZeroWheelAzimuthEnd
  <2>2. SwerveInv'
    BY <2>1 DEF SwerveInv, SwerveTypeOK, MathTypeOK, AsTold,
                DriveFitsConfiguration, mathVars, Units
  <2> QED
    BY <1>3, <2>1, <2>2
<1>4. CASE command = "drive_zero" /\ DriveZeroEnd
  <2>1. MathTypeOK' /\ azimuth' \in [Wheels -> Int] /\ drive' \in [Wheels -> Int]
        /\ held' = "ticks" /\ held' \in Units /\ UNCHANGED mathVars
        /\ motion' = NoMotion /\ UnchangedWheels
    BY <1>4, AllType
    DEF DriveZeroEnd, CrabDriveAutonomous, SetAzimuth, SetDrive, SwerveInv,
        SwerveTypeOK, MathTypeOK, mathVars, Units
  <2> QED
    BY <1>4, <2>1, SetStep DEF UnchangedWheels
<1>5. CASE command = "health" /\ HealthEnd
  <2>1. /\ talon' = AzimuthMode(FALSE) /\ held' = HeldIn(talon')
        /\ UNCHANGED <<mathVars, azimuth, position, absolute, drive,
                       drive_scale_factor_, calibration, zero, motion>>
    BY <1>5 DEF HealthEnd, SetAzimuthTestModeEnabled
  <2>2. motion' = NoMotion /\ held' \in Units
    BY <1>1, <1>5, <2>1 DEF HeldIn, Units
  <2>3. SwerveInv'
    BY <1>1, <2>1, <2>2, AzimuthModes, AzimuthStep
  <2> QED
    BY <1>5, <2>1, <2>3, AzimuthModes
<1>6. CASE command \in Autonomous /\ AutonEnd
  <2>1. MathTypeOK' /\ azimuth' \in [Wheels -> Int] /\ drive' \in [Wheels -> Int]
        /\ held' \in Units /\ UNCHANGED <<mathVars, held>> /\ motion' = NoMotion
        /\ UnchangedWheels
    BY <1>1, <1>6, AllType
    DEF AutonEnd, Stop, SetDrive, SwerveInv, SwerveTypeOK, MathTypeOK, mathVars
  <2> QED
    BY <1>6, <2>1, SetStep DEF UnchangedWheels, Autonomous
<1>7. CASE command \in {"none", "brake", "write", "read", "disable_brake"}
           /\ UNCHANGED swerveVars
  BY <1>7, SwerveSame DEF swerveVars
<1> QED
  BY <1>2, <1>3, <1>4, <1>5, <1>6, <1>7 DEF End_

\* The azimuths turn, in closed loop or not.
LEMMA TurnedStep ==
  ASSUME SwerveInv, NEW by \in [Wheels -> Int], Turned(by)
  PROVE  /\ SwerveInv' /\ UNCHANGED mathVars
         /\ \A w \in Wheels : /\ position'[w] = position[w] + by[w]
                              /\ absolute'[w] = (absolute[w] + by[w]) % Turn
<1>1. \A w \in Wheels : position[w] \in Int /\ absolute[w] \in Int
  BY Readings DEF SwerveInv, SwerveTypeOK
<1>2. position' \in [Wheels -> Int]
  BY <1>1 DEF Turned
<1>3. absolute' \in [Wheels -> 0 .. Turn - 1]
  <2>1. ASSUME NEW w \in Wheels
        PROVE  (absolute[w] + by[w]) % Turn \in 0 .. Turn - 1
    <3> DEFINE n == absolute[w] + by[w]
    <3>1. n \in Int
      BY <1>1
    <3> HIDE DEF n
    <3>2. n % Turn \in 0 .. Turn - 1
      BY <3>1 DEF Turn
    <3> QED
      BY <3>2 DEF n
  <2> QED
    BY <2>1 DEF Turned
<1>4. MathTypeOK'
  BY DEF Turned, SwerveInv, SwerveTypeOK, MathTypeOK, mathVars
<1>5. SwerveTypeOK'
  BY <1>2, <1>3, <1>4 DEF Turned, SwerveInv, SwerveTypeOK
<1>6. AsTold' /\ DriveFitsConfiguration'
  BY DEF Turned, SwerveInv, AsTold, DriveFitsConfiguration, mathVars
<1> QED
  BY <1>5, <1>6 DEF Turned, SwerveInv

-----------------------------------------------------------------------------
(* The stages of the health check                                          *)

\* Every test is one stage, and they all differ.
LEMMA StagesFacts ==
  /\ Len(Stages) = 10
  /\ DOMAIN Tests = {Stages[i] : i \in 1 .. 10}
  /\ \A i, j \in 1 .. 10 : Stages[i] = Stages[j] => i = j
  /\ \A s \in DOMAIN Tests : Tests[s] \in Nat \ {0}
<1>1. Len(Stages) = 10
  BY DEF Stages
<1>2. DOMAIN Tests =
        {"drive", "azimuth", "azimuth_position", "shooter", "elevation", "hopper",
         "intake", "gear_intake", "climber_master", "climber_slave"}
  BY DEF Tests
<1>3. /\ Stages[1] = "drive" /\ Stages[2] = "azimuth"
      /\ Stages[3] = "azimuth_position" /\ Stages[4] = "shooter"
      /\ Stages[5] = "elevation" /\ Stages[6] = "hopper" /\ Stages[7] = "intake"
      /\ Stages[8] = "gear_intake" /\ Stages[9] = "climber_master"
      /\ Stages[10] = "climber_slave"
  BY DEF Stages
<1>4. DOMAIN Tests = {Stages[i] : i \in 1 .. 10}
  BY <1>2, <1>3
<1>5. \A i, j \in 1 .. 10 : Stages[i] = Stages[j] => i = j
  BY <1>3
<1>6. \A s \in DOMAIN Tests : Tests[s] \in Nat \ {0}
  BY DEF Tests, DriveVoltages, AzimuthVoltages
<1> QED
  BY <1>1, <1>4, <1>5, <1>6

\* The place of a stage in the list.
LEMMA StageAt ==
  ASSUME NEW s, IsStage(s)
  PROVE  /\ command = "health" /\ started /\ s \in DOMAIN Tests /\ TestsLeft(s)
         /\ \E i \in 1 .. 10 : /\ Stages[i] = s
                               /\ \A j \in 1 .. i - 1 : ~TestsLeft(Stages[j])
BY StagesFacts DEF IsStage

LEMMA StageUnique == \A s, t : IsStage(s) /\ IsStage(t) => s = t
<1> SUFFICES ASSUME NEW s, NEW t, IsStage(s), IsStage(t)
             PROVE  s = t
  OBVIOUS
<1>1. PICK i \in 1 .. 10 : /\ Stages[i] = s
                           /\ \A k \in 1 .. i - 1 : ~TestsLeft(Stages[k])
  BY StageAt
<1>2. PICK j \in 1 .. 10 : /\ Stages[j] = t
                           /\ \A k \in 1 .. j - 1 : ~TestsLeft(Stages[k])
  BY StageAt
<1>3. TestsLeft(s) /\ TestsLeft(t)
  BY StageAt
<1>4. ~(i < j) /\ ~(j < i)
  BY <1>1, <1>2, <1>3
<1>5. i = j
  BY <1>4
<1> QED
  BY <1>1, <1>2, <1>5

LEMMA StageUniqueNext == (\A s, t : IsStage(s) /\ IsStage(t) => s = t)'
BY StageUnique, PTL

\* With a value less to test the order of the stages stays, and the stage too
\* while it has values left.
LEMMA NextValueStep ==
  ASSUME IterType, InOrder, NEW s, IsStage(s), NextValue(s)
  PROVE  /\ IterType' /\ InOrder'
         /\ iter'[s] = iter[s] + 1
         /\ \A t \in DOMAIN Tests : t # s => iter'[t] = iter[t]
<1>1. s \in DOMAIN Tests /\ TestsLeft(s)
  BY StageAt
<1>2. /\ iter'[s] = iter[s] + 1
      /\ \A t \in DOMAIN Tests : t # s => iter'[t] = iter[t]
      /\ DOMAIN iter' = DOMAIN Tests
  BY <1>1 DEF NextValue, IterType
<1>3. IterType'
  <2>1. ASSUME NEW t \in DOMAIN Tests
        PROVE  iter'[t] \in 1 .. Tests[t] + 1
    <3>1. iter[t] \in 1 .. Tests[t] + 1 /\ Tests[t] \in Nat
      BY StagesFacts DEF IterType
    <3>2. CASE t # s
      BY <1>2, <3>1, <3>2
    <3>3. CASE t = s
      BY <1>1, <1>2, <3>1, <3>3 DEF TestsLeft
    <3> QED
      BY <3>2, <3>3
  <2>2. \A t \in DOMAIN Tests : iter'[t] \in Nat
    BY <2>1, StagesFacts
  <2>3. iter' = [t \in DOMAIN Tests |-> iter'[t]]
    BY <1>2 DEF NextValue, IterType
  <2> QED
    BY <2>1, <2>2, <2>3 DEF IterType
<1>4. InOrder'
  <2> SUFFICES ASSUME NEW i \in 1 .. 10, NEW j \in 1 .. 10, i < j,
                      TestsLeft(Stages[i])'
               PROVE  iter'[Stages[j]] = 1
    BY StagesFacts DEF InOrder
  <2>1. PICK k \in 1 .. 10 : /\ Stages[k] = s
                             /\ \A l \in 1 .. k - 1 : ~TestsLeft(Stages[l])
    BY StageAt
  <2>2. \A l \in 1 .. 10 : Stages[l] \in DOMAIN Tests
    BY StagesFacts
  <2>3. ~(i < k)
    <3> SUFFICES ASSUME i < k PROVE FALSE
      OBVIOUS
    <3>1. ~TestsLeft(Stages[i])
      BY <2>1
    <3>2. Stages[i] # s
      BY <2>1, StagesFacts
    <3>3. iter'[Stages[i]] = iter[Stages[i]]
      BY <1>2, <2>2, <3>2
    <3> QED
      BY <3>1, <3>3 DEF TestsLeft
  <2>4. k < j
    BY <2>3
  <2>5. iter[Stages[j]] = 1
    BY <1>1, <2>1, <2>4, StagesFacts DEF InOrder
  <2>6. Stages[j] # s
    BY <2>1, <2>4, StagesFacts
  <2> QED
    BY <1>2, <2>2, <2>5, <2>6
<1> QED
  BY <1>2, <1>3, <1>4

\* The next stage is the same one, or the one after it in the list.
LEMMA StageMoves ==
  ASSUME IterType, InOrder, NEW i \in 1 .. 10, IsStage(Stages[i]),
         NextValue(Stages[i]), UNCHANGED <<command, started>>
  PROVE  /\ ~IsLast(Stages[i]) => IsStage(Stages[i])'
         /\ IsLast(Stages[i]) /\ i < 10 => IsStage(Stages[i + 1])'
<1> DEFINE s == Stages[i]
<1>1. /\ command = "health" /\ started /\ s \in DOMAIN Tests /\ TestsLeft(s)
      /\ command' = "health" /\ started'
  BY StageAt
<1>2. \A j \in 1 .. i - 1 : ~TestsLeft(Stages[j])
  <2>1. PICK k \in 1 .. 10 : /\ Stages[k] = s
                             /\ \A j \in 1 .. k - 1 : ~TestsLeft(Stages[j])
    BY StageAt
  <2>2. k = i
    BY <2>1, StagesFacts
  <2> QED
    BY <2>1, <2>2
<1>3. /\ iter'[s] = iter[s] + 1
      /\ \A t \in DOMAIN Tests : t # s => iter'[t] = iter[t]
  BY NextValueStep
<1>4. \A j \in 1 .. 10 : /\ Stages[j] \in DOMAIN Tests
                         /\ j # i => Stages[j] # s
  BY StagesFacts
<1>5. iter[s] \in 1 .. Tests[s] + 1 /\ Tests[s] \in Nat
  BY <1>1, StagesFacts DEF IterType
<1>6. \A j \in 1 .. i - 1 : ~TestsLeft(Stages[j])'
  BY <1>2, <1>3, <1>4 DEF TestsLeft
<1>7. ASSUME ~IsLast(s) PROVE IsStage(s)'
  <2>1. TestsLeft(s)'
    BY <1>1, <1>3, <1>5, <1>7 DEF TestsLeft, IsLast
  <2> QED
    BY <1>1, <1>6, <2>1, StagesFacts DEF IsStage
<1>8. ASSUME IsLast(s), i < 10 PROVE IsStage(Stages[i + 1])'
  <2>1. ~TestsLeft(s)'
    BY <1>3, <1>5, <1>8 DEF TestsLeft, IsLast
  <2>2. i + 1 \in 1 .. 10 /\ i < i + 1
    BY <1>8
  <2>3. iter[Stages[i + 1]] = 1
    BY <1>1, <2>2, StagesFacts DEF InOrder
  <2>4. iter'[Stages[i + 1]] = 1 /\ Tests[Stages[i + 1]] \in Nat \ {0}
    BY <1>3, <1>4, <2>2, <2>3, StagesFacts
  <2>5. TestsLeft(Stages[i + 1])'
    BY <2>4 DEF TestsLeft
  <2>6. \A j \in 1 .. (i + 1) - 1 : ~TestsLeft(Stages[j])'
    BY <1>6, <2>1, <2>2
  <2> QED
    BY <1>1, <2>2, <2>5, <2>6, StagesFacts DEF IsStage
<1> QED
  BY <1>7, <1>8

\* The values of a test, and the stray one past them, are numbers.
LEMMA DriveSetpoints ==
  ASSUME IterType, IsStage("drive")
  PROVE  /\ DriveVoltages[iter["drive"]] \in Int
         /\ NextSetpoints("drive", DriveVoltages) \subseteq Int
<1>1. TestsLeft("drive") /\ iter["drive"] \in 1 .. Tests["drive"] + 1
  BY StageAt DEF IterType
<1>2. iter["drive"] = 1 \/ iter["drive"] = 2
  BY <1>1 DEF Tests, DriveVoltages, TestsLeft
<1>3. IsLast("drive") <=> iter["drive"] = 2
  BY DEF Tests, DriveVoltages, IsLast
<1>4. DriveVoltages[1] \in Int /\ DriveVoltages[2] \in Int
  BY DEF DriveVoltages
<1>5. NextSetpoints("drive", DriveVoltages) = Strays
        \/ NextSetpoints("drive", DriveVoltages) = {DriveVoltages[2]}
  BY <1>2, <1>3 DEF NextSetpoints
<1> QED
  BY <1>2, <1>4, <1>5, HealthAssumption

LEMMA AzimuthSetpoints ==
  ASSUME IterType, IsStage("azimuth")
  PROVE  /\ AzimuthVoltages[iter["azimuth"]] \in Int
         /\ NextSetpoints("azimuth", AzimuthVoltages) \subseteq Int
<1>1. TestsLeft("azimuth") /\ iter["azimuth"] \in 1 .. Tests["azimuth"] + 1
  BY StageAt DEF IterType
<1>2. iter["azimuth"] = 1
  BY <1>1 DEF Tests, AzimuthVoltages, TestsLeft
<1>3. IsLast("azimuth")
  BY <1>2 DEF Tests, AzimuthVoltages, IsLast
<1> QED
  BY <1>2, <1>3, HealthAssumption DEF AzimuthVoltages, NextSetpoints

\* How a pass of a test moves the check along.
Passes(s) ==
  \/ count_' \in 0 .. kCountReq /\ is_transitioning_' \in BOOLEAN /\ iter' = iter
  \/ NextValue(s) /\ PrepareTest

\* The drive motors' test sets their voltages.
LEMMA DriveTest ==
  ASSUME HealthInv, CheckDriveMotors
  PROVE  /\ IsStage("drive") /\ Passes("drive")
         /\ SwerveInv' /\ UNCHANGED <<mathVars, motion, motorVars, azimuth, held>>
         /\ UNCHANGED <<talon, position, absolute, zero>>
<1>1. IsStage("drive") /\ motion = NoMotion /\ SwerveInv /\ IterType
      /\ count_ \in 0 .. kCountReq /\ is_transitioning_ \in BOOLEAN
  <2>1. IsStage("drive")
    BY DEF CheckDriveMotors, CheckSwerveMotors
  <2> QED
    BY <2>1, StageAt DEF HealthInv, CheckStill, SwerveInv, HealthTypeOK
<1>2. ASSUME NEW v \in Int, drive' = All(v), UnchangedWheels,
             UNCHANGED <<mathVars, azimuth, held, motion>>
      PROVE  SwerveInv'
  <2>1. MathTypeOK' /\ azimuth' \in [Wheels -> Int] /\ drive' \in [Wheels -> Int]
        /\ held' \in Units /\ motion' = NoMotion
    BY <1>1, <1>2, AllType DEF SwerveInv, SwerveTypeOK, MathTypeOK, mathVars
  <2> QED
    BY <1>1, <1>2, <2>1, SetStep
<1>3. UNCHANGED motorVars
  BY DEF CheckDriveMotors, CheckSwerveMotors
<1>4. CASE Measure
  <2>1. UNCHANGED swerveVars /\ count_' \in 0 .. kCountReq
        /\ UNCHANGED <<iter, is_transitioning_>>
    BY <1>1, <1>4, HealthAssumption DEF Measure
  <2> QED
    BY <1>1, <1>3, <2>1, SwerveSame DEF Passes, swerveVars
<1>5. ASSUME NEW v \in Int, drive' = All(v), UnchangedWheels,
             UNCHANGED <<mathVars, azimuth, held, motion>>, Passes("drive")
      PROVE  /\ SwerveInv' /\ UNCHANGED <<mathVars, motion, azimuth, held>>
             /\ UNCHANGED <<talon, position, absolute, zero>>
  BY <1>2, <1>5 DEF UnchangedWheels
<1>6. CASE /\ WarmingUp
           /\ drive' = All(DriveVoltages[iter["drive"]])
           /\ UNCHANGED <<mathVars, azimuth, held, motion>> /\ UnchangedWheels
           /\ UNCHANGED checkVars
  <2>1. Passes("drive")
    BY <1>1, <1>6 DEF Passes, checkVars
  <2>2. DriveVoltages[iter["drive"]] \in Int
    BY <1>1, DriveSetpoints
  <2> QED
    BY <1>1, <1>3, <1>5, <1>6, <2>1, <2>2
<1>7. CASE /\ count_ = kCountReq
           /\ \E v \in NextSetpoints("drive", DriveVoltages) :
                /\ drive' = All(v)
                /\ UNCHANGED <<mathVars, azimuth, held, motion>>
                /\ UnchangedWheels
           /\ NextValue("drive") /\ PrepareTest
  <2>1. Passes("drive")
    BY <1>7 DEF Passes
  <2>2. NextSetpoints("drive", DriveVoltages) \subseteq Int
    BY <1>1, DriveSetpoints
  <2> QED
    BY <1>1, <1>3, <1>5, <1>7, <2>1, <2>2
<1> QED
  BY <1>4, <1>6, <1>7 DEF CheckDriveMotors, CheckSwerveMotors

\* The azimuth motors' test sets theirs, in voltage mode.
LEMMA AzimuthTest ==
  ASSUME HealthInv, CheckAzimuthMotors
  PROVE  /\ IsStage("azimuth") /\ Passes("azimuth")
         /\ SwerveInv' /\ UNCHANGED <<mathVars, motion, motorVars>>
         /\ UNCHANGED <<talon, position, absolute, zero>>
         /\ held' = "volts" \/ held' = held
<1>1. IsStage("azimuth") /\ motion = NoMotion /\ SwerveInv /\ IterType
      /\ count_ \in 0 .. kCountReq /\ is_transitioning_ \in BOOLEAN
  <2>1. IsStage("azimuth")
    BY DEF CheckAzimuthMotors, CheckSwerveMotors
  <2> QED
    BY <2>1, StageAt DEF HealthInv, CheckStill, SwerveInv, HealthTypeOK
<1>2. ASSUME NEW v \in Int, azimuth' = All(v), held' = "volts", UnchangedWheels,
             UNCHANGED <<mathVars, drive, motion>>
      PROVE  SwerveInv'
  <2>1. MathTypeOK' /\ azimuth' \in [Wheels -> Int] /\ drive' \in [Wheels -> Int]
        /\ held' \in Units /\ motion' = NoMotion
    BY <1>1, <1>2, AllType
    DEF SwerveInv, SwerveTypeOK, MathTypeOK, mathVars, Units
  <2> QED
    BY <1>1, <1>2, <2>1, SetStep
<1>3. UNCHANGED motorVars
  BY DEF CheckAzimuthMotors, CheckSwerveMotors
<1>4. CASE Measure
  <2>1. UNCHANGED swerveVars /\ count_' \in 0 .. kCountReq
        /\ UNCHANGED <<iter, is_transitioning_>>
    BY <1>1, <1>4, HealthAssumption DEF Measure
  <2> QED
    BY <1>1, <1>3, <2>1, SwerveSame DEF Passes, swerveVars
<1>5. ASSUME NEW v \in Int, azimuth' = All(v), held' = "volts", UnchangedWheels,
             UNCHANGED <<mathVars, drive, motion>>, Passes("azimuth")
      PROVE  /\ SwerveInv' /\ UNCHANGED <<mathVars, motion>>
             /\ UNCHANGED <<talon, position, absolute, zero>>
  BY <1>2, <1>5 DEF UnchangedWheels
<1>6. CASE /\ WarmingUp
           /\ azimuth' = All(AzimuthVoltages[iter["azimuth"]]) /\ held' = "volts"
           /\ UNCHANGED <<mathVars, drive, motion>> /\ UnchangedWheels
           /\ UNCHANGED checkVars
  <2>1. Passes("azimuth")
    BY <1>1, <1>6 DEF Passes, checkVars
  <2>2. AzimuthVoltages[iter["azimuth"]] \in Int
    BY <1>1, AzimuthSetpoints
  <2> QED
    BY <1>1, <1>3, <1>5, <1>6, <2>1, <2>2
<1>7. CASE /\ count_ = kCountReq
           /\ \E v \in NextSetpoints("azimuth", AzimuthVoltages) :
                /\ azimuth' = All(v) /\ held' = "volts"
                /\ UNCHANGED <<mathVars, drive, motion>>
                /\ UnchangedWheels
           /\ NextValue("azimuth") /\ PrepareTest
  <2>1. Passes("azimuth")
    BY <1>7 DEF Passes
  <2>2. NextSetpoints("azimuth", AzimuthVoltages) \subseteq Int
    BY <1>1, AzimuthSetpoints
  <2> QED
    BY <1>1, <1>3, <1>5, <1>7, <2>1, <2>2
<1> QED
  BY <1>4, <1>6, <1>7 DEF CheckAzimuthMotors, CheckSwerveMotors

\* The positions the azimuths are set to are less than a turn from zero, and
\* but for full turns those they had a moment ago.
LEMMA EncodersStep ==
  ASSUME SwerveInv, NEW lag \in [Wheels -> Lags], EncodersWithinATurn(lag)
  PROVE  /\ position' \in [Wheels -> 0 .. Turn - 1]
         /\ \A w \in Wheels : position'[w] = (position[w] - lag[w]) % Turn
<1>1. position \in [Wheels -> Int]
  BY DEF SwerveInv, SwerveTypeOK
<1>2. AzimuthMode(FALSE).azimuth.mode = "position"
  BY AzimuthModes
<1>3. Get(AzimuthMode(FALSE), lag) = [w \in Wheels |-> position[w] - lag[w]]
  BY <1>2 DEF Get
<1>4. position' = [w \in Wheels |-> (position[w] - lag[w]) % Turn]
  BY <1>3 DEF EncodersWithinATurn
<1>5. ASSUME NEW w \in Wheels
      PROVE  (position[w] - lag[w]) % Turn \in 0 .. Turn - 1
  <2> DEFINE n == position[w] - lag[w]
  <2>1. n \in Int
    BY <1>1, LagFacts
  <2> HIDE DEF n
  <2>2. n % Turn \in 0 .. Turn - 1
    BY <2>1 DEF Turn
  <2> QED
    BY <2>2 DEF n
<1> QED
  BY <1>4, <1>5

\* The azimuths are told to go back to zero, and once that is done their
\* encoders are set again.
LEMMA EncodersTest ==
  ASSUME HealthInv, CheckAzimuthEncoders
  PROVE  /\ IsStage("azimuth_position")
         /\ SwerveInv' /\ UNCHANGED <<mathVars, motion, motorVars>>
         /\ UNCHANGED <<absolute, zero>>
         /\ IF is_transitioning_
            THEN /\ talon'.azimuth.mode = "position"
                 /\ \E lag \in [Wheels -> Lags] : EncodersWithinATurn(lag)
            ELSE UNCHANGED <<talon, position>>
         /\ \/ /\ azimuth' = All(0) /\ held' = "ticks"
               /\ is_transitioning_' = FALSE
               /\ UNCHANGED <<iter, count_>>
            \/ /\ held' = HeldIn(talon')
               /\ NextValue("azimuth_position") /\ PrepareTest
<1>1. IsStage("azimuth_position") /\ motion = NoMotion /\ SwerveInv
  <2>1. IsStage("azimuth_position")
    BY DEF CheckAzimuthEncoders
  <2> QED
    BY <2>1, StageAt DEF HealthInv, CheckStill, SwerveInv, HealthTypeOK
<1>2. /\ UNCHANGED <<mathVars, absolute, drive, drive_scale_factor_, calibration,
                     zero, motion, motorVars>>
      /\ IF is_transitioning_
         THEN talon' = AzimuthMode(FALSE)
                /\ \E lag \in [Wheels -> Lags] : EncodersWithinATurn(lag)
         ELSE UNCHANGED <<talon, position>>
      /\ \/ /\ azimuth' = All(0) /\ held' = "ticks"
            /\ is_transitioning_' = FALSE
            /\ UNCHANGED <<iter, count_>>
         \/ /\ held' = HeldIn(talon')
            /\ NextValue("azimuth_position") /\ PrepareTest
            /\ UNCHANGED azimuth
  BY DEF CheckAzimuthEncoders
<1>3. /\ talon \in [azimuth : Talons, drive : Talons]
      /\ azimuth \in [Wheels -> Int] /\ drive \in [Wheels -> Int]
      /\ held \in Units /\ position \in [Wheels -> Int]
  BY <1>1 DEF SwerveInv, SwerveTypeOK
<1>4. /\ talon' = [talon EXCEPT !.azimuth = talon'.azimuth]
      /\ talon'.azimuth \in Talons
      /\ is_transitioning_ => talon'.azimuth.mode = "position"
  <2>1. CASE is_transitioning_
    BY <1>1, <1>2, <2>1, AzimuthModes
  <2>2. CASE ~is_transitioning_
    BY <1>2, <1>3, <2>2
  <2> QED
    BY <2>1, <2>2
<1>5. position' \in [Wheels -> Int]
  <2>1. CASE is_transitioning_
    <3>1. PICK lag \in [Wheels -> Lags] : EncodersWithinATurn(lag)
      BY <1>2, <2>1
    <3>2. position' \in [Wheels -> 0 .. Turn - 1]
      BY <1>1, <3>1, EncodersStep
    <3> QED
      BY <3>2, Readings
  <2>2. CASE ~is_transitioning_
    BY <1>2, <1>3, <2>2
  <2> QED
    BY <2>1, <2>2
<1>6. azimuth' \in [Wheels -> Int] /\ held' \in Units
  <2>1. azimuth' \in [Wheels -> Int]
    BY <1>2, <1>3, AllType
  <2>2. held' = "ticks" \/ held' = HeldIn(talon')
    BY <1>2
  <2>3. HeldIn(talon') \in Units
    BY <1>3 DEF HeldIn, Units
  <2> QED
    BY <2>1, <2>2, <2>3 DEF Units
<1>7. drive' \in [Wheels -> Int] /\ motion' = NoMotion
  BY <1>1, <1>2, <1>3
<1>8. SwerveInv'
  BY <1>1, <1>2, <1>4, <1>5, <1>6, <1>7, AzimuthStep
<1> QED
  BY <1>1, <1>2, <1>4, <1>8

\* The tests of the other motors leave the drive alone.
LEMMA MotorTest ==
  ASSUME HealthInv, NEW s, NEW free, NEW after, CheckMotor(s, free, after)
  PROVE  IsStage(s) /\ Passes(s) /\ UNCHANGED swerveVars
<1>1. CASE Measure
  BY <1>1, HealthAssumption DEF CheckMotor, Measure, Passes, HealthInv, HealthTypeOK
<1>2. CASE UNCHANGED <<swerveVars, checkVars, abandoned, stopVars>>
  BY <1>2 DEF CheckMotor, checkVars, Passes, HealthInv, HealthTypeOK
<1>3. CASE NextValue(s) /\ PrepareTest /\ UNCHANGED swerveVars
  BY <1>3 DEF CheckMotor, Passes
<1> QED
  BY <1>1, <1>2, <1>3 DEF CheckMotor

\* The motors that are tested one at a time.
MotorsInv == OnlyTestedMotorRuns /\ MasterOver

\* What is common to the passes of the health check.
LEMMA ExecuteStep ==
  ASSUME HealthInv, ExecuteHealthCheck
  PROVE  /\ SwerveInv' /\ UNCHANGED <<mathVars, motion, absolute, zero>>
         /\ \E s \in DOMAIN Tests :
              /\ IsStage(s) /\ Passes(s)
              /\ s # "azimuth_position" => UNCHANGED <<talon, position>>
              /\ s = "azimuth_position" => CheckAzimuthEncoders
              /\ s \notin {"azimuth", "azimuth_position"} => UNCHANGED held
              /\ s = "azimuth" => held' = "volts" \/ held' = held
              /\ s \notin Motors => UNCHANGED motorVars
<1>1. SwerveInv /\ count_ \in 0 .. kCountReq
  BY DEF HealthInv, HealthTypeOK, SwerveInv
<1> DEFINE Kept == /\ SwerveInv' /\ UNCHANGED <<mathVars, motion, absolute, zero>>
           Test(s) == /\ IsStage(s) /\ Passes(s)
                      /\ s # "azimuth_position" => UNCHANGED <<talon, position>>
                      /\ s = "azimuth_position" => CheckAzimuthEncoders
                      /\ s \notin {"azimuth", "azimuth_position"} => UNCHANGED held
                      /\ s = "azimuth" => held' = "volts" \/ held' = held
                      /\ s \notin Motors => UNCHANGED motorVars
<1>2. ASSUME NEW s \in Motors, NEW free, NEW after, CheckMotor(s, free, after)
      PROVE  Kept /\ Test(s)
  <2>1. IsStage(s) /\ Passes(s) /\ UNCHANGED swerveVars
    BY <1>2, MotorTest
  <2>2. s \notin {"azimuth", "azimuth_position"}
    BY DEF Motors
  <2> QED
    BY <1>1, <2>1, <2>2, SwerveSame DEF swerveVars
<1>3. ASSUME CheckDriveMotors PROVE Kept /\ Test("drive")
  BY <1>3, DriveTest DEF Motors
<1>4. ASSUME CheckAzimuthMotors PROVE Kept /\ Test("azimuth")
  BY <1>4, AzimuthTest DEF Motors
<1>5. ASSUME CheckAzimuthEncoders PROVE Kept /\ Test("azimuth_position")
  <2>1. Passes("azimuth_position")
    BY <1>1, <1>5, EncodersTest DEF Passes
  <2> QED
    BY <1>5, <2>1, EncodersTest DEF Motors
<1>6. ASSUME CheckElevationEncoder PROVE Kept /\ Test("elevation")
  <2>1. Passes("elevation") /\ IsStage("elevation") /\ UNCHANGED motorVars
        /\ UNCHANGED swerveVars
    BY <1>1, <1>6 DEF Passes, CheckElevationEncoder
  <2> QED
    BY <1>1, <2>1, SwerveSame DEF swerveVars, Motors
<1>7. /\ CheckShooterWheelMotor => Kept /\ Test("shooter")
      /\ CheckHopperMotor => Kept /\ Test("hopper")
      /\ CheckIntakeMotor => Kept /\ Test("intake")
      /\ CheckGearIntakeMotor => Kept /\ Test("gear_intake")
      /\ CheckClimberMasterMotor => Kept /\ Test("climber_master")
      /\ CheckClimberSlaveMotor => Kept /\ Test("climber_slave")
  <2> HIDE DEF Kept, Test
  <2> QED
    BY <1>2 DEF Motors, CheckShooterWheelMotor, CheckHopperMotor, CheckIntakeMotor,
                CheckGearIntakeMotor, CheckClimberMasterMotor, CheckClimberSlaveMotor
<1>8. ASSUME NEW s, Test(s) PROVE s \in DOMAIN Tests
  BY <1>8, StageAt
<1>9. Kept /\ \E s : Test(s)
  <2> HIDE DEF Kept, Test
  <2> QED
    BY <1>3, <1>4, <1>5, <1>6, <1>7 DEF ExecuteHealthCheck
<1> QED
  BY <1>8, <1>9

\* A command takes the drive from another, or the robot is disabled.
Leaves == Disable \/ Default \/ \E c \in Commands : Replace(c)

\* Then the shooter wheel goes on as before, or it is left as it is.
WheelLeft ==
  \/ UNCHANGED stopVars /\ abandoned' = abandoned \cup CheckedMotors
  \/ /\ stopping' = FALSE /\ ramping' = FALSE
     /\ UNCHANGED <<setpoint, ramp, measured>>
     /\ abandoned' = abandoned \cup (CheckedMotors \cup StoppedMotors)

LEMMA LeavesStep ==
  ASSUME HealthInv, Leaves
  PROVE  /\ SwerveInv' /\ [MathNext]_mathVars
         /\ UNCHANGED mathVars \/ FollowHistory'
         /\ UNCHANGED <<position, absolute, zero, checkVars, motor, coast>>
         /\ talon'.azimuth.mode # "voltage" /\ held' # "volts"
         /\ command' \in Commands /\ ~started' /\ read_cal_' = FALSE
         /\ started' \in BOOLEAN /\ enabled' \in BOOLEAN
         /\ command' # "none" => enabled'
         /\ checks' = IF command' = "health" THEN checks + 1 ELSE checks
         /\ WheelLeft
<1>1. \E c \in Commands, left \in SUBSET Motors :
        /\ GoesTo(c, left)
        /\ checks' = IF c = "health" THEN checks + 1 ELSE checks
        /\ WheelLeft
        /\ enabled' \in BOOLEAN
        /\ c # "none" => enabled'
  <2>0. CheckedMotors \subseteq Motors /\ StoppedMotors \subseteq Motors
    BY DEF HealthInv, HealthTypeOK, CheckedMotors, StoppedMotors, Motors, Climber
  <2>1. CASE Disable
    BY <2>0, <2>1 DEF Disable, Commands, GoesTo, WheelLeft, InterruptRamp
  <2>2. CASE Default
    BY <2>0, <2>2 DEF Default, Commands, GoesTo, WheelLeft
  <2>3. ASSUME NEW c \in Commands, Replace(c)
        PROVE  /\ GoesTo(c, CheckedMotors)
               /\ checks' = IF c = "health" THEN checks + 1 ELSE checks
               /\ WheelLeft /\ enabled' \in BOOLEAN /\ enabled'
    BY <2>3 DEF Replace, GoesTo, WheelLeft
  <2> QED
    BY <2>0, <2>1, <2>2, <2>3 DEF Leaves
<1>2. PICK c \in Commands, left \in SUBSET Motors :
        /\ GoesTo(c, left)
        /\ checks' = IF c = "health" THEN checks + 1 ELSE checks
        /\ WheelLeft
        /\ enabled' \in BOOLEAN
        /\ c # "none" => enabled'
  BY <1>1
<1>3. SwerveInv /\ command \in Commands
      /\ (command = "health" /\ started => motion = NoMotion)
  BY DEF HealthInv, HealthTypeOK, SwerveInv, CheckStill
<1>4. /\ command' = c /\ started' = FALSE /\ read_cal_' = FALSE
      /\ UNCHANGED <<checkVars, motor, coast>>
      /\ IF started THEN End_(command) ELSE UNCHANGED swerveVars
  BY <1>2 DEF GoesTo
<1>5. CASE started
  <2>1. End_(command)
    BY <1>4, <1>5
  <2>2. /\ SwerveInv' /\ [MathNext]_mathVars
        /\ UNCHANGED mathVars \/ FollowHistory'
        /\ command # "health" => /\ talon'.azimuth = talon.azimuth
                                 /\ held' = "volts" => held = "volts"
        /\ command = "health" => /\ talon'.azimuth.mode = "position"
                                 /\ held' = HeldIn(talon')
        /\ UNCHANGED <<position, absolute, zero>>
    BY <1>3, <1>5, <2>1, EndStep
  <2>3. talon'.azimuth.mode # "voltage" /\ held' # "volts"
    BY <2>2 DEF HealthInv, ModeInv, HeldInv, HeldIn
  <2> QED
    BY <1>2, <1>4, <2>2, <2>3
<1>6. CASE ~started
  <2>1. UNCHANGED swerveVars
    BY <1>4, <1>6
  <2>2. talon.azimuth.mode # "voltage" /\ held # "volts"
    BY <1>6 DEF HealthInv, ModeInv, HeldInv
  <2>3. SwerveInv' /\ [MathNext]_mathVars
    BY <1>3, <2>1, SwerveSame
  <2>4. UNCHANGED <<mathVars, talon, held, position, absolute, zero>>
    BY <2>1 DEF swerveVars
  <2> QED
    BY <1>2, <1>4, <2>2, <2>3, <2>4
<1> QED
  BY <1>5, <1>6

LEMMA StartStep ==
  ASSUME HealthInv, Start
  PROVE  /\ SwerveInv' /\ [MathNext]_mathVars
         /\ UNCHANGED mathVars \/ FollowHistory'
         /\ command # "health" => /\ talon'.azimuth = talon.azimuth
                                  /\ UNCHANGED checkVars
                                  /\ held' = "ticks" \/ held' = held
         /\ command = "health" => /\ motion' = NoMotion
                                  /\ IteratorsBegin /\ PrepareTest
                                  /\ talon'.azimuth.mode = "voltage"
                                  /\ held' = HeldIn(talon')
         /\ command = "read" => ReadAzimuthCalibration
         /\ command # "read" => UNCHANGED <<position, absolute, zero>>
         /\ command # "none" /\ ~started /\ started' /\ started' \in BOOLEAN
         /\ read_cal_' \in BOOLEAN
         /\ UNCHANGED <<enabled, command, motorVars, checks>>
<1>1. Initialize_(command) /\ SwerveInv
  BY DEF Start, HealthInv, HealthTypeOK, SwerveInv
<1>2. /\ SwerveInv' /\ [MathNext]_mathVars
      /\ UNCHANGED mathVars \/ FollowHistory'
      /\ command # "health" => /\ talon'.azimuth = talon.azimuth
                               /\ UNCHANGED checkVars
                               /\ held' = "ticks" \/ held' = held
      /\ command = "health" => /\ motion' = NoMotion
                               /\ IteratorsBegin /\ PrepareTest
                               /\ talon'.azimuth.mode = "voltage"
                               /\ held' = HeldIn(talon')
      /\ command = "read" => ReadAzimuthCalibration
      /\ command # "read" => UNCHANGED <<position, absolute, zero>>
  BY <1>1, InitializeStep
<1>3. /\ command # "none" /\ ~started /\ started' /\ started' \in BOOLEAN
      /\ read_cal_' \in BOOLEAN
      /\ UNCHANGED <<enabled, command, motorVars, checks>>
  BY DEF Start
<1> QED
  BY <1>2, <1>3

LEMMA SteerStep ==
  ASSUME HealthInv, Steer
  PROVE  /\ SwerveInv' /\ [MathNext]_mathVars
         /\ UNCHANGED mathVars \/ FollowHistory'
         /\ UNCHANGED <<talon, position, absolute, zero>>
         /\ command # "health" /\ (held' = "ticks" \/ held' = held)
         /\ UNCHANGED <<enabled, command, started, read_cal_, checkVars, motorVars,
                        checks>>
<1>1. SwerveInv
  BY DEF HealthInv, HealthTypeOK, SwerveInv
<1>2. UNCHANGED <<enabled, command, started, read_cal_, checkVars, motorVars, checks>>
      /\ command # "health"
  BY DEF Steer, Autonomous
<1>3. \E m \in Told, zone \in {DeadZone, AutonZone} : Drive_(m, zone)
  <2>1. ASSUME NEW m \in Motions, NEW h \in Headings, Drive(m, h)
        PROVE  Rotated(m, h) \in Told /\ Drive_(Rotated(m, h), DeadZone)
    BY <2>1 DEF Drive, Told
  <2>2. ASSUME NEW m \in Motions, DriveAutonomous(m)
        PROVE  m \in Told /\ Drive_(m, AutonZone)
    BY <2>2 DEF DriveAutonomous, Told
  <2> QED
    BY <2>1, <2>2 DEF Steer
<1>4. PICK m \in Told, zone \in {DeadZone, AutonZone} : Drive_(m, zone)
  BY <1>3
<1>5. SwerveInv' /\ [MathNext]_mathVars /\ UnchangedWheels
      /\ (UNCHANGED mathVars \/ FollowHistory')
      /\ (held' = "ticks" \/ held' = held)
  BY <1>1, <1>4, DriveStep
<1> QED
  BY <1>2, <1>5 DEF UnchangedWheels

LEMMA TurnsStep ==
  ASSUME HealthInv, Azimuths
  PROVE  /\ SwerveInv' /\ UNCHANGED mathVars
         /\ \E by \in [Wheels -> Int] : \A w \in Wheels :
              /\ position'[w] = position[w] + by[w]
              /\ absolute'[w] = (absolute[w] + by[w]) % Turn
         /\ enabled /\ InClosedLoop => position' = azimuth
         /\ UNCHANGED <<talon, zero, held, azimuth, motion>>
         /\ UNCHANGED <<enabled, command, started, read_cal_, checkVars, motorVars,
                        checks>>
<1>1. SwerveInv
  BY DEF HealthInv, HealthTypeOK, SwerveInv
<1>2. position \in [Wheels -> Int] /\ azimuth \in [Wheels -> Int]
  BY <1>1 DEF SwerveInv, SwerveTypeOK
<1>3. ASSUME AzimuthsTurn
      PROVE  /\ Turned([w \in Wheels |-> azimuth[w] - position[w]])
             /\ position' = azimuth
  <2>1. Turned([w \in Wheels |-> azimuth[w] - position[w]])
    BY <1>3 DEF AzimuthsTurn
  <2>2. position' = [w \in Wheels |-> position[w] + (azimuth[w] - position[w])]
    BY <2>1 DEF Turned
  <2> QED
    BY <1>2, <2>1, <2>2
<1>4. \E by \in [Wheels -> Int] :
        Turned(by) /\ (enabled /\ InClosedLoop => position' = azimuth)
  <2>1. CASE enabled /\ AzimuthsTurn
    <3>1. [w \in Wheels |-> azimuth[w] - position[w]] \in [Wheels -> Int]
      BY <1>2
    <3> QED
      BY <1>3, <2>1, <3>1
  <2>2. ASSUME NEW d \in Drifts, ~(enabled /\ InClosedLoop), AzimuthsDrift(d)
        PROVE  All(d) \in [Wheels -> Int] /\ Turned(All(d))
    BY <2>2, DriftsAssumption DEF AzimuthsDrift, All
  <2> QED
    BY <2>1, <2>2 DEF Azimuths
<1>5. PICK by \in [Wheels -> Int] :
        Turned(by) /\ (enabled /\ InClosedLoop => position' = azimuth)
  BY <1>4
<1>6. /\ SwerveInv' /\ UNCHANGED mathVars
      /\ \A w \in Wheels : /\ position'[w] = position[w] + by[w]
                           /\ absolute'[w] = (absolute[w] + by[w]) % Turn
  BY <1>1, <1>5, TurnedStep
<1>7. UNCHANGED <<talon, zero, held, azimuth, motion>>
  BY <1>5 DEF Turned
<1>8. UNCHANGED <<enabled, command, started, read_cal_, checkVars, motorVars, checks>>
  BY DEF Azimuths
<1> QED
  BY <1>5, <1>6, <1>7, <1>8

\* A step that leaves the drive, the command and the check alone.
LEMMA OtherStep ==
  ASSUME HealthInv, Enable \/ StopShooterWheel \/ UNCHANGED vars
  PROVE  /\ SwerveInv' /\ UNCHANGED mathVars
         /\ UNCHANGED <<talon, position, absolute, zero, held, azimuth, motion>>
         /\ UNCHANGED <<command, started, checkVars, checks, coast>>
         /\ enabled' \in BOOLEAN /\ read_cal_' \in BOOLEAN
         /\ enabled' = enabled \/ enabled'
         /\ \/ UNCHANGED motorVars
            \/ StopShooterWheel
<1>1. SwerveInv /\ enabled \in BOOLEAN /\ read_cal_ \in BOOLEAN
  BY DEF HealthInv, HealthTypeOK, SwerveInv
<1>2. UNCHANGED swerveVars /\ UNCHANGED <<command, started, checkVars, checks, coast>>
  BY DEF Enable, StopShooterWheel, vars, motorVars
<1>3. SwerveInv' /\ UNCHANGED <<mathVars, talon, position, absolute, zero, held,
                                azimuth, motion>>
  BY <1>1, <1>2, SwerveSame DEF swerveVars
<1>4. enabled' \in BOOLEAN /\ read_cal_' \in BOOLEAN
      /\ (enabled' = enabled \/ enabled')
      /\ (UNCHANGED motorVars \/ StopShooterWheel)
  BY <1>1 DEF Enable, StopShooterWheel, vars
<1> QED
  BY <1>2, <1>3, <1>4

\* The actions by what they leave alone.
LEMMA Actions ==
  ASSUME [Next]_vars
  PROVE  \/ Leaves \/ Start \/ Steer \/ Azimuths \/ ExecuteHealthCheck
         \/ Enable \/ StopShooterWheel \/ UNCHANGED vars
BY DEF Next, Leaves

\* Every step maps to a motion of the wheels, which the azimuths are set to, or to
\* none.
LEMMA SwerveNext ==
  ASSUME HealthInv, [Next]_vars
  PROVE  SwerveInv' /\ [MathNext]_mathVars /\ (UNCHANGED mathVars \/ FollowHistory')
<1>1. CASE Leaves
  BY <1>1, LeavesStep
<1>2. CASE Start
  BY <1>2, StartStep
<1>3. CASE Steer
  BY <1>3, SteerStep
<1>4. CASE Azimuths
  BY <1>4, TurnsStep
<1>5. CASE ExecuteHealthCheck
  BY <1>5, ExecuteStep
<1>6. CASE Enable \/ StopShooterWheel \/ UNCHANGED vars
  BY <1>6, OtherStep
<1> QED
  BY <1>1, <1>2, <1>3, <1>4, <1>5, <1>6, Actions

\* The command, and the iterators of the check, are in order.
ControlInv ==
  /\ enabled \in BOOLEAN /\ read_cal_ \in BOOLEAN /\ command \in Commands
  /\ started \in BOOLEAN /\ is_transitioning_ \in BOOLEAN
  /\ count_ \in 0 .. kCountReq
  /\ CheckStill /\ ModeInv /\ IterType /\ InOrder

LEMMA FirstValues ==
  ASSUME IteratorsBegin
  PROVE  IterType' /\ InOrder' /\ \A s \in DOMAIN Tests : iter'[s] = 1
BY StagesFacts DEF IteratorsBegin, IterType, InOrder

LEMMA ControlNext ==
  ASSUME HealthInv, [Next]_vars
  PROVE  ControlInv'
<1>1. ControlInv
  BY DEF HealthInv, HealthTypeOK, ControlInv
<1>2. CASE Leaves
  BY <1>1, <1>2, LeavesStep
  DEF ControlInv, CheckStill, ModeInv, IterType, InOrder, TestsLeft, checkVars
<1>3. CASE Start
  <2>1. CASE command = "health"
    <3>1. IterType' /\ InOrder' /\ count_' = 0 /\ is_transitioning_' = TRUE
      BY <1>3, <2>1, StartStep, FirstValues DEF PrepareTest
    <3> QED
      BY <1>1, <1>3, <2>1, <3>1, StartStep, HealthAssumption
      DEF ControlInv, CheckStill, ModeInv
  <2>2. CASE command # "health"
    BY <1>1, <1>3, <2>2, StartStep
    DEF ControlInv, CheckStill, ModeInv, IterType, InOrder, TestsLeft, checkVars
  <2> QED
    BY <2>1, <2>2
<1>4. CASE Steer
  BY <1>1, <1>4, SteerStep
  DEF ControlInv, CheckStill, ModeInv, IterType, InOrder, TestsLeft, checkVars
<1>5. CASE Azimuths
  BY <1>1, <1>5, TurnsStep
  DEF ControlInv, CheckStill, ModeInv, IterType, InOrder, TestsLeft, checkVars
<1>6. CASE ExecuteHealthCheck
  <2>1. PICK s \in DOMAIN Tests : IsStage(s) /\ Passes(s)
    BY <1>6, ExecuteStep
  <2>2. UNCHANGED <<enabled, command, started, read_cal_>>
    BY <1>6 DEF ExecuteHealthCheck
  <2>3. command = "health" /\ started
    BY <2>1, StageAt
  <2>4. CheckStill' /\ ModeInv'
    BY <1>1, <1>6, <2>2, <2>3, ExecuteStep DEF ControlInv, CheckStill, ModeInv
  <2>5. /\ IterType' /\ InOrder' /\ count_' \in 0 .. kCountReq
        /\ is_transitioning_' \in BOOLEAN
    <3>1. CASE /\ count_' \in 0 .. kCountReq /\ is_transitioning_' \in BOOLEAN
               /\ iter' = iter
      BY <1>1, <3>1 DEF ControlInv, IterType, InOrder, TestsLeft
    <3>2. CASE NextValue(s) /\ PrepareTest
      BY <1>1, <2>1, <3>2, NextValueStep, HealthAssumption
      DEF ControlInv, PrepareTest
    <3> QED
      BY <2>1, <3>1, <3>2 DEF Passes
  <2> QED
    BY <1>1, <2>2, <2>4, <2>5 DEF ControlInv
<1>7. CASE Enable \/ StopShooterWheel \/ UNCHANGED vars
  BY <1>1, <1>7, OtherStep
  DEF ControlInv, CheckStill, ModeInv, IterType, InOrder, TestsLeft, checkVars
<1> QED
  BY <1>2, <1>3, <1>4, <1>5, <1>6, <1>7, Actions

-----------------------------------------------------------------------------
(* The encoders                                                            *)

\* Turning a wheel moves both encoders alike.
LEMMA TurningKeepsOffset ==
  ASSUME NEW p \in Int, NEW a \in Int, NEW z \in Int, NEW lag \in Int,
         NEW by \in Int, (p + lag - (a - z)) % Turn = 0
  PROVE  ((p + by) + lag - (((a + by) % Turn) - z)) % Turn = 0
BY DEF Turn

LEMMA TimesMonotone ==
  ASSUME NEW a \in Nat, NEW b \in Nat, NEW c \in Nat, a <= b
  PROVE  a * c \in Nat /\ b * c \in Nat /\ a * c <= b * c
<1>1. b - a \in Nat
  OBVIOUS
<1>2. (b - a) * c \in Nat /\ a * c \in Nat /\ b * c \in Nat
  BY <1>1
<1>3. (b - a) * c = b * c - a * c
  OBVIOUS
<1> QED
  BY <1>2, <1>3

\* More checks leave more slack.
LEMMA SlackFacts ==
  ASSUME NEW a \in Nat, NEW b \in Nat, a <= b
  PROVE  /\ (a + 1) * LongestLag \in Nat /\ (b + 1) * LongestLag \in Nat
         /\ -((a + 1) * LongestLag) .. (a + 1) * LongestLag
              \subseteq -((b + 1) * LongestLag) .. (b + 1) * LongestLag
<1> DEFINE n == (a + 1) * LongestLag
           m == (b + 1) * LongestLag
<1>1. n \in Nat /\ m \in Nat /\ n <= m
  BY LagsAssumption, TimesMonotone
<1> HIDE DEF n, m
<1>2. -n .. n \subseteq -m .. m
  BY <1>1
<1> QED
  BY <1>1, <1>2 DEF n, m

\* What LagInv says of the next state, with the slack of Done' checks.
LEMMA LagInvNext ==
  ASSUME checks' \in Nat, Done' \in Nat, NEW n, n = (Done' + 1) * LongestLag,
         \A w \in Wheels : \E lag \in -n .. n : Offset(w, lag)'
  PROVE  LagInv'
BY DEF LagInv, Offset, Slack

LEMMA OffsetKept ==
  ASSUME LagInv, UNCHANGED <<position, absolute, zero>>,
         checks' \in Nat, Done' \in Nat, Done <= Done'
  PROVE  LagInv'
<1> DEFINE n == (Done + 1) * LongestLag
           m == (Done' + 1) * LongestLag
<1>1. Done \in Nat /\ \A w \in Wheels : \E lag \in -n .. n : Offset(w, lag)
  BY DEF LagInv, Slack
<1>2. -n .. n \subseteq -m .. m
  BY <1>1, SlackFacts
<1>3. m = (Done' + 1) * LongestLag
  OBVIOUS
<1> HIDE DEF n, m
<1>4. \A w, lag : Offset(w, lag) => Offset(w, lag)'
  BY DEF Offset
<1>5. \A w \in Wheels : \E lag \in -m .. m : Offset(w, lag)'
  BY <1>1, <1>2, <1>4
<1> QED
  BY <1>3, <1>5, LagInvNext

LEMMA EncodersTypes ==
  ASSUME SwerveTypeOK
  PROVE  \A w \in Wheels : position[w] \in Int /\ absolute[w] \in Int /\ zero[w] \in Int
BY Readings DEF SwerveTypeOK

\* A check that sets the encoders uses up its lag.
LEMMA OffsetLate ==
  ASSUME SwerveTypeOK, LagInv, checks' \in Nat, Done' \in Nat, Done' = Done + 1,
         NEW late \in [Wheels -> Lags], EncodersWithinATurn(late), SwerveInv,
         UNCHANGED <<absolute, zero>>
  PROVE  LagInv'
<1> DEFINE n == (Done + 1) * LongestLag
           m == n + LongestLag
<1>1. Done \in Nat /\ \A w \in Wheels : \E lag \in -n .. n : Offset(w, lag)
  BY DEF LagInv, Slack
<1>2. n \in Nat /\ m = (Done' + 1) * LongestLag /\ LongestLag \in Nat
  <2>1. (Done + 1) * LongestLag \in Nat
    BY <1>1, SlackFacts
  <2>2. ((Done + 1) + 1) * LongestLag = (Done + 1) * LongestLag + LongestLag
    BY <1>1, LagsAssumption
  <2> QED
    BY <1>1, <2>1, <2>2, LagsAssumption
<1> HIDE DEF n
<1>3. ASSUME NEW w \in Wheels
      PROVE  \E lag \in -m .. m : Offset(w, lag)'
  <2> DEFINE l == late[w]
  <2>1. PICK lag \in -n .. n : Offset(w, lag)
    BY <1>1
  <2>2. position'[w] = (position[w] - l) % Turn
    BY EncodersStep
  <2>3. l \in Int /\ l \in -LongestLag .. LongestLag
    BY LagFacts
  <2> HIDE DEF l
  <2>4. Offset(w, lag + l)'
    <3> DEFINE p == position[w]
               a == absolute[w]
               z == zero[w]
    <3>1. p \in Int /\ a \in Int /\ z \in Int /\ lag \in Int
      BY <1>2, EncodersTypes
    <3>2. (p + lag - (a - z)) % Turn = 0
      BY <2>1 DEF Offset
    <3> HIDE DEF p, a, z
    <3>3. (((p - l) % Turn) + (lag + l) - (a - z)) % Turn = 0
      BY <2>3, <3>1, <3>2 DEF Turn
    <3> QED
      BY <2>2, <3>3 DEF Offset, p, a, z
  <2>5. lag + l \in -m .. m
    BY <1>2, <2>3
  <2> QED
    BY <2>4, <2>5
<1> QED
  BY <1>2, <1>3, LagInvNext

\* The encoders keep agreeing, whoever sets them and however the wheels turn.
LEMMA LagNext ==
  ASSUME HealthInv, [Next]_vars
  PROVE  LagInv'
<1>1. LagInv /\ checks \in Nat /\ Done \in Nat /\ SwerveInv /\ SwerveTypeOK
  BY DEF HealthInv, HealthTypeOK, LagInv, SwerveInv
<1>2. CASE Leaves
  <2>1. /\ UNCHANGED <<position, absolute, zero>> /\ ~started'
        /\ checks' = IF command' = "health" THEN checks + 1 ELSE checks
    BY <1>2, LeavesStep
  <2>2. Done' = checks
    BY <1>1, <2>1 DEF Done, Pending
  <2>3. Done <= checks
    BY <1>1 DEF Done
  <2> QED
    BY <1>1, <2>1, <2>2, <2>3, OffsetKept
<1>3. CASE Start
  <2>1. ~started /\ started' /\ UNCHANGED <<command, checks>>
    BY <1>3, StartStep
  <2>2. Done' = Done
    <3>1. CASE command = "health"
      <4>1. iter'["azimuth_position"] = 1 /\ is_transitioning_' = TRUE
        BY <1>3, <3>1, StartStep, FirstValues DEF PrepareTest, Tests
      <4>2. Pending /\ Pending'
        BY <2>1, <3>1, <4>1 DEF Pending
      <4> QED
        BY <2>1, <4>2 DEF Done
    <3>2. CASE command # "health"
      <4>1. ~Pending /\ ~Pending'
        BY <2>1, <3>2 DEF Pending
      <4> QED
        BY <2>1, <4>1 DEF Done
    <3> QED
      BY <3>1, <3>2
  <2>3. CASE command # "read"
    <3>1. UNCHANGED <<position, absolute, zero>>
      BY <1>3, <2>3, StartStep
    <3> QED
      BY <1>1, <2>1, <2>2, <3>1, OffsetKept
  <2>4. CASE command = "read"
    <3>1. ReadAzimuthCalibration
      BY <1>3, <2>4, StartStep
    <3> DEFINE n == (Done' + 1) * LongestLag
    <3>2. n \in Nat /\ LongestLag \in Nat /\ LongestLag <= n
      <4>1. (Done' + 1) * LongestLag = Done' * LongestLag + LongestLag
            /\ Done' * LongestLag \in Nat
        BY <1>1, <2>2, LagsAssumption
      <4> QED
        BY <1>1, <2>2, <4>1, LagsAssumption
    <3>3. n = (Done' + 1) * LongestLag
      OBVIOUS
    <3> HIDE DEF n
    <3>5. PICK late \in [Wheels -> Lags] :
            position' = [w \in Wheels |-> PulseWidthPosition(late)[w] - calibration[w]]
      BY <3>1 DEF ReadAzimuthCalibration
    <3>4. ASSUME NEW w \in Wheels PROVE \E lag \in -n .. n : Offset(w, lag)'
      <4> DEFINE l == late[w]
                 a == absolute[w]
                 z == calibration[w]
      <4>1. a \in Int /\ z \in Int /\ l \in Int /\ l \in -LongestLag .. LongestLag
        BY <1>1, Readings, LagFacts DEF SwerveTypeOK
      <4>2. position'[w] = ((a - l) % Turn) - z
            /\ absolute'[w] = a /\ zero'[w] = z
        BY <3>1, <3>5 DEF ReadAzimuthCalibration, PulseWidthPosition
      <4> HIDE DEF l, a, z
      <4>3. ((((a - l) % Turn) - z) + l - (a - z)) % Turn = 0
        BY <4>1 DEF Turn
      <4>4. Offset(w, l)'
        BY <4>2, <4>3 DEF Offset
      <4>5. l \in -n .. n
        BY <3>2, <4>1
      <4> QED
        BY <4>4, <4>5
    <3> QED
      BY <1>1, <2>1, <2>2, <3>3, <3>4, LagInvNext
  <2> QED
    BY <2>3, <2>4
<1>4. CASE Steer
  <2>1. /\ UNCHANGED <<position, absolute, zero>> /\ command # "health"
        /\ UNCHANGED <<command, checks>>
    BY <1>4, SteerStep
  <2>2. Done' = Done
    BY <2>1 DEF Done, Pending
  <2> QED
    BY <1>1, <2>1, <2>2, OffsetKept
<1>5. CASE Azimuths
  <2>1. UNCHANGED <<command, started, checkVars, checks, zero>>
    BY <1>5, TurnsStep
  <2>2. Done' = Done
    BY <2>1 DEF Done, Pending, IsStage, TestsLeft, checkVars
  <2>3. PICK by \in [Wheels -> Int] : \A w \in Wheels :
          /\ position'[w] = position[w] + by[w]
          /\ absolute'[w] = (absolute[w] + by[w]) % Turn
    BY <1>5, TurnsStep
  <2> DEFINE n == (Done + 1) * LongestLag
  <2>4. n = (Done' + 1) * LongestLag /\ n \in Nat
        /\ \A w \in Wheels : \E lag \in -n .. n : Offset(w, lag)
    BY <1>1, <2>2, SlackFacts DEF LagInv, Slack
  <2> HIDE DEF n
  <2>5. ASSUME NEW w \in Wheels, NEW lag \in -n .. n, Offset(w, lag)
        PROVE  Offset(w, lag)'
    <3> DEFINE p == position[w]
               a == absolute[w]
               z == zero[w]
               b == by[w]
    <3>1. p \in Int /\ a \in Int /\ z \in Int /\ b \in Int /\ lag \in Int
      BY <1>1, <2>4, EncodersTypes
    <3>2. (p + lag - (a - z)) % Turn = 0
      BY <2>5 DEF Offset
    <3> HIDE DEF p, a, z, b
    <3>3. ((p + b) + lag - (((a + b) % Turn) - z)) % Turn = 0
      BY <3>1, <3>2, TurningKeepsOffset
    <3> QED
      BY <2>1, <2>3, <3>3 DEF Offset, p, a, z, b
  <2> QED
    BY <1>1, <2>1, <2>2, <2>4, <2>5, LagInvNext
<1>6. CASE ExecuteHealthCheck
  <2>1. UNCHANGED <<command, started, checks>>
    BY <1>6 DEF ExecuteHealthCheck
  <2>2. PICK s \in DOMAIN Tests :
          /\ IsStage(s) /\ Passes(s)
          /\ s # "azimuth_position" => UNCHANGED <<talon, position>>
          /\ s = "azimuth_position" => CheckAzimuthEncoders
    BY <1>6, ExecuteStep
  <2>3. command = "health" /\ started /\ TestsLeft(s)
    BY <2>2, StageAt
  <2>4. UNCHANGED <<absolute, zero>>
    BY <1>6, ExecuteStep
  <2>5. CASE s # "azimuth_position"
    <3>1. iter'["azimuth_position"] = iter["azimuth_position"]
      BY <2>2, <2>5, NextValueStep
      DEF Passes, HealthInv, IterType, Tests
    <3>2. Done' >= Done /\ Done' \in Nat
      <4>1. ~IsStage("azimuth_position")
        BY <2>2, <2>5, StageUnique
      <4>2. ~Pending => ~Pending'
        BY <2>1, <2>3, <3>1, <4>1 DEF Pending
      <4>3. Done = checks \/ Done = checks - 1
        BY DEF Done
      <4>4. Done' = checks \/ Done' = checks - 1
        BY <2>1 DEF Done
      <4>5. Pending' => Done' = Done
        BY <2>1, <4>2 DEF Done
      <4>6. ~Pending' => Done' = checks
        BY <2>1 DEF Done
      <4> QED
        BY <1>1, <4>3, <4>5, <4>6
    <3> QED
      BY <1>1, <2>1, <2>2, <2>4, <2>5, <3>2, OffsetKept
  <2>6. CASE s = "azimuth_position"
    <3>1. CheckAzimuthEncoders
      BY <2>2, <2>6
    <3>2. /\ IF is_transitioning_
             THEN \E lag \in [Wheels -> Lags] : EncodersWithinATurn(lag)
             ELSE UNCHANGED position
          /\ \/ /\ azimuth' = All(0) /\ held' = "ticks"
                /\ is_transitioning_' = FALSE
                /\ UNCHANGED <<iter, count_>>
             \/ NextValue("azimuth_position") /\ PrepareTest
      BY <3>1, EncodersTest
    <3>3. iter["azimuth_position"] = 1
      BY <2>3, <2>6 DEF TestsLeft, Tests, HealthInv, IterType
    <3>4. ~Pending'
      <4>1. CASE is_transitioning_' = FALSE /\ iter' = iter
        <5>1. IsStage("azimuth_position")'
          BY <2>1, <2>2, <2>6, <4>1 DEF IsStage, TestsLeft
        <5> QED
          BY <2>1, <2>3, <4>1, <5>1 DEF Pending
      <4>2. CASE NextValue("azimuth_position")
        <5>1. iter'["azimuth_position"] = 2
          BY <2>2, <2>6, <3>3, <4>2, NextValueStep DEF HealthInv
        <5> QED
          BY <2>1, <2>3, <5>1 DEF Pending
      <4> QED
        BY <3>2, <4>1, <4>2
    <3>5. Done' = checks
      BY <2>1, <3>4 DEF Done
    <3>6. CASE is_transitioning_
      <4>1. Pending
        BY <2>3, <3>3, <3>6 DEF Pending
      <4>2. Done' = Done + 1
        BY <1>1, <3>5, <4>1 DEF Done
      <4>3. PICK lag \in [Wheels -> Lags] : EncodersWithinATurn(lag)
        BY <3>2, <3>6
      <4> QED
        BY <1>1, <2>1, <2>4, <3>5, <4>2, <4>3, OffsetLate
    <3>7. CASE ~is_transitioning_
      <4>1. ~Pending
        BY <2>2, <2>3, <2>6, <3>7 DEF Pending
      <4>2. Done' = Done
        BY <3>5, <4>1 DEF Done
      <4> QED
        BY <1>1, <2>1, <2>4, <3>2, <3>5, <3>7, <4>2, OffsetKept
    <3> QED
      BY <3>6, <3>7
  <2> QED
    BY <2>5, <2>6
<1>7. CASE Enable \/ StopShooterWheel \/ UNCHANGED vars
  <2>1. UNCHANGED <<position, absolute, zero, command, started, checkVars, checks>>
    BY <1>7, OtherStep
  <2>2. Done' = Done
    BY <2>1 DEF Done, Pending, IsStage, TestsLeft, checkVars
  <2> QED
    BY <1>1, <2>1, <2>2, OffsetKept
<1> QED
  BY <1>2, <1>3, <1>4, <1>5, <1>6, <1>7, Actions

\* The azimuths go back to zero from less than a turn away.
LEMMA ZeroNext ==
  ASSUME HealthInv, [Next]_vars
  PROVE  ZeroInv'
<1>1. ZeroInv /\ CheckStill /\ SwerveInv
  BY DEF HealthInv, HealthTypeOK, SwerveInv
<1>2. CASE Leaves
  BY <1>2, LeavesStep DEF ZeroInv, IsStage
<1>3. CASE Start
  <2>1. CASE command = "health"
    BY <1>3, <2>1, StartStep DEF ZeroInv, PrepareTest
  <2>2. CASE command # "health"
    BY <1>3, <2>2, StartStep DEF ZeroInv, IsStage
  <2> QED
    BY <2>1, <2>2
<1>4. CASE Steer
  BY <1>4, SteerStep DEF ZeroInv, IsStage
<1>5. CASE Azimuths
  <2> SUFFICES ASSUME IsStage("azimuth_position")', ~is_transitioning_'
               PROVE  /\ held' = "ticks" /\ azimuth' = All(0)
                      /\ talon'.azimuth.mode # "voltage"
                      /\ \A w \in Wheels : position'[w] \in 0 .. Turn - 1
    BY DEF ZeroInv, All
  <2>1. /\ UNCHANGED <<talon, held, azimuth, command, started, checkVars>>
        /\ enabled /\ InClosedLoop => position' = azimuth
    BY <1>5, TurnsStep
  <2>2. IsStage("azimuth_position") /\ ~is_transitioning_
    BY <2>1 DEF IsStage, TestsLeft, checkVars
  <2>3. /\ held = "ticks" /\ azimuth = All(0) /\ talon.azimuth.mode # "voltage" /\ enabled
    BY <1>1, <2>2, StageAt DEF ZeroInv, CheckStill
  <2>4. position' = azimuth
    BY <2>1, <2>3 DEF InClosedLoop
  <2>5. \A w \in Wheels : position'[w] = 0
    BY <2>3, <2>4 DEF All
  <2> QED
    BY <2>1, <2>3, <2>5 DEF Turn
<1>6. CASE ExecuteHealthCheck
  <2> SUFFICES ASSUME IsStage("azimuth_position")', ~is_transitioning_'
               PROVE  /\ held' = "ticks" /\ azimuth' = All(0)
                      /\ talon'.azimuth.mode # "voltage"
                      /\ \A w \in Wheels : position'[w] \in 0 .. Turn - 1
    BY DEF ZeroInv, All
  <2>1. PICK s \in DOMAIN Tests :
          /\ IsStage(s) /\ Passes(s)
          /\ s = "azimuth_position" => CheckAzimuthEncoders
    BY <1>6, ExecuteStep
  <2>2. iter' = iter /\ UNCHANGED <<command, started>>
    BY <1>6, <2>1 DEF ExecuteHealthCheck, Passes, PrepareTest
  <2>3. IsStage("azimuth_position")
    BY <2>2 DEF IsStage, TestsLeft
  <2>4. CheckAzimuthEncoders
    BY <2>1, <2>3, StageUnique
  <2>5. azimuth' = All(0) /\ held' = "ticks"
    BY <2>4, EncodersTest DEF PrepareTest
  <2>6. CASE is_transitioning_
    <3>1. PICK lag \in [Wheels -> Lags] : EncodersWithinATurn(lag)
      BY <2>4, <2>6, EncodersTest
    <3>2. position' \in [Wheels -> 0 .. Turn - 1]
      BY <1>1, <3>1, EncodersStep
    <3>3. talon'.azimuth.mode = "position"
      BY <2>4, <2>6, EncodersTest
    <3> QED
      BY <2>5, <3>2, <3>3
  <2>7. CASE ~is_transitioning_
    <3>1. UNCHANGED <<talon, position>>
      BY <2>4, <2>7, EncodersTest
    <3> QED
      BY <1>1, <2>3, <2>5, <2>7, <3>1 DEF ZeroInv
  <2> QED
    BY <2>6, <2>7
<1>7. CASE Enable \/ StopShooterWheel \/ UNCHANGED vars
  BY <1>1, <1>7, OtherStep DEF ZeroInv, IsStage, TestsLeft, checkVars, All
<1> QED
  BY <1>2, <1>3, <1>4, <1>5, <1>6, <1>7, Actions

\* Volts and ticks are not mixed up: a set point outlasts a change of mode only
\* in the unit of the new mode.
LEMMA HeldNext ==
  ASSUME HealthInv, [Next]_vars
  PROVE  HeldInv'
<1>1. HeldInv /\ ModeInv /\ ZeroInv /\ IterType
  BY DEF HealthInv
<1>2. CASE Leaves
  BY <1>2, LeavesStep DEF HeldInv
<1>3. CASE Start
  <2>1. ~started
    BY <1>3, StartStep
  <2>2. talon.azimuth.mode # "voltage" /\ held # "volts"
    BY <1>1, <2>1 DEF ModeInv, HeldInv
  <2>3. CASE command = "health"
    BY <1>3, <2>2, <2>3, StartStep DEF HeldInv, HeldIn
  <2>4. CASE command # "health"
    BY <1>3, <2>2, <2>4, StartStep DEF HeldInv
  <2> QED
    BY <2>3, <2>4
<1>4. CASE Steer
  <2>1. command # "health" /\ talon.azimuth.mode # "voltage" /\ held # "volts"
    BY <1>1, <1>4, SteerStep DEF ModeInv, HeldInv
  <2> QED
    BY <1>4, <2>1, SteerStep DEF HeldInv
<1>5. CASE Azimuths
  BY <1>1, <1>5, TurnsStep DEF HeldInv, TestsLeft, checkVars
<1>6. CASE ExecuteHealthCheck
  <2>1. PICK s \in DOMAIN Tests :
          /\ IsStage(s) /\ Passes(s)
          /\ s # "azimuth_position" => UNCHANGED talon
          /\ s = "azimuth_position" => CheckAzimuthEncoders
          /\ s \notin {"azimuth", "azimuth_position"} => UNCHANGED held
          /\ s = "azimuth" => held' = "volts" \/ held' = held
    BY <1>6, ExecuteStep
  <2>2. UNCHANGED <<command, started>> /\ command = "health" /\ started /\ TestsLeft(s)
    BY <1>6, <2>1, StageAt DEF ExecuteHealthCheck
  <2>3. TestsLeft("azimuth")' => TestsLeft("azimuth")
    <3>1. CASE iter' = iter
      BY <3>1 DEF TestsLeft
    <3>2. CASE NextValue(s)
      <4>1. "azimuth" \in DOMAIN Tests /\ iter["azimuth"] \in Nat
            /\ Tests["azimuth"] \in Nat
        BY <1>1, StagesFacts DEF IterType, Tests
      <4>2. iter'["azimuth"] \in {iter["azimuth"], iter["azimuth"] + 1}
        BY <1>1, <2>1, <3>2, <4>1 DEF NextValue, IterType
      <4> QED
        BY <4>1, <4>2 DEF TestsLeft
    <3> QED
      BY <2>1, <3>1, <3>2 DEF Passes
  <2>4. CASE s \notin {"azimuth", "azimuth_position"}
    BY <1>1, <2>1, <2>2, <2>3, <2>4 DEF HeldInv
  <2>5. CASE s = "azimuth"
    BY <1>1, <2>1, <2>2, <2>3, <2>5 DEF HeldInv
  <2>6. CASE s = "azimuth_position"
    <3>1. ~TestsLeft("azimuth")
      <4>1. PICK i \in 1 .. 10 : /\ Stages[i] = "azimuth_position"
                                 /\ \A j \in 1 .. i - 1 : ~TestsLeft(Stages[j])
        BY <2>1, <2>6, StageAt
      <4>2. Stages[2] = "azimuth" /\ Stages[3] = "azimuth_position"
        BY DEF Stages
      <4>3. i = 3
        BY <4>1, <4>2, StagesFacts
      <4> QED
        BY <4>1, <4>2, <4>3
    <3>2. /\ IF is_transitioning_ THEN talon'.azimuth.mode = "position"
                                  ELSE UNCHANGED talon
          /\ \/ held' = "ticks" /\ is_transitioning_' = FALSE
             \/ held' = HeldIn(talon')
      BY <2>1, <2>6, EncodersTest
    <3>3. CASE is_transitioning_
      BY <1>1, <2>3, <3>1, <3>2, <3>3 DEF HeldInv, HeldIn
    <3>4. CASE ~is_transitioning_
      <4>1. talon.azimuth.mode # "voltage"
        BY <1>1, <2>1, <2>6, <3>4 DEF ZeroInv
      <4> QED
        BY <1>1, <2>3, <3>1, <3>2, <3>4, <4>1 DEF HeldInv, HeldIn
    <3> QED
      BY <3>3, <3>4
  <2> QED
    BY <2>4, <2>5, <2>6
<1>7. CASE Enable \/ StopShooterWheel \/ UNCHANGED vars
  BY <1>1, <1>7, OtherStep DEF HeldInv, TestsLeft, checkVars
<1> QED
  BY <1>2, <1>3, <1>4, <1>5, <1>6, <1>7, Actions

-----------------------------------------------------------------------------
(* The motors under test                                                   *)

MotorTypes == motor \subseteq Motors /\ coast \subseteq Climber
              /\ abandoned \subseteq Motors /\ stopping \in BOOLEAN

\* The wheel of the shooter, which StopShooterWheel has yet to stop.
StillStopping(m) == m = "shooter" /\ (stopping \/ ramping)

\* While the stage is not one of theirs, only abandoned motors run, and the
\* wheel that is being stopped.
LEMMA MotorsIdle ==
  ASSUME MotorTypes, OnlyTestedMotorRuns, NEW s, IsStage(s), s \notin Motors
  PROVE  /\ \A m \in motor : m \in abandoned \/ StillStopping(m)
         /\ coast \subseteq abandoned
<1>1. \A m \in Motors : ~IsStage(m)
  BY StageUnique
<1> QED
  BY <1>1 DEF MotorTypes, OnlyTestedMotorRuns, Motors, Climber, StillStopping

\* A pass that leaves the motors alone.
LEMMA MotorsLeft ==
  ASSUME HealthInv, NEW i \in 1 .. 10, IsStage(Stages[i]), UNCHANGED motorVars,
         UNCHANGED <<command, started>>, Passes(Stages[i]),
         IsStage(Stages[i])' \/ Stages[i] \notin Motors
  PROVE  MotorsInv'
<1> DEFINE s == Stages[i]
<1>1. OnlyTestedMotorRuns /\ MotorTypes /\ MasterOver /\ IterType /\ InOrder
  BY DEF HealthInv, HealthTypeOK, MotorTypes
<1>2. UNCHANGED <<motor, coast, stopping, ramping, abandoned>>
  BY DEF motorVars, stopVars, wheelVars
<1>3. OnlyTestedMotorRuns'
  <2>1. CASE s \notin Motors
    <3>1. /\ \A m \in motor : m \in abandoned \/ StillStopping(m)
          /\ coast \subseteq abandoned
      BY <1>1, <2>1, MotorsIdle
    <3> QED
      BY <1>2, <3>1 DEF OnlyTestedMotorRuns, StillStopping
  <2>2. CASE IsStage(s)'
    <3>1. \A t : IsStage(t) => IsStage(t)'
      BY <2>2, StageUnique
    <3> QED
      BY <1>1, <1>2, <3>1 DEF OnlyTestedMotorRuns
  <2> QED
    BY <2>1, <2>2
<1>5. MasterOver'
  <2> SUFFICES ASSUME IsStage("climber_slave")'
               PROVE  "climber_master" \notin motor /\ "climber_slave" \notin coast
    BY <1>2 DEF MasterOver
  <2>1. s = "climber_slave"
    <3>1. CASE IsStage(s)'
      BY <3>1, StageUniqueNext
    <3>2. CASE s \notin Motors
      <4>1. CASE iter' = iter
        BY <3>2, <4>1, StageUnique DEF IsStage, TestsLeft, Motors
      <4>2. CASE NextValue(s)
        <5>1. ~IsLast(s) => IsStage(s)'
          BY <1>1, <4>2, StageMoves
        <5>2. IsLast(s) /\ i < 10 => IsStage(Stages[i + 1])'
          BY <1>1, <4>2, StageMoves
        <5>3. i # 10 /\ i # 9
          BY <3>2 DEF Stages, Motors
        <5>4. IsStage(Stages[i])' \/ IsStage(Stages[i + 1])'
          BY <5>1, <5>2, <5>3
        <5>5. Stages[i] = "climber_slave" \/ Stages[i + 1] = "climber_slave"
          BY <5>4, StageUniqueNext
        <5>6. Stages[i + 1] # "climber_slave"
          BY <5>3, StagesFacts DEF Stages
        <5> QED
          BY <5>5, <5>6
      <4> QED
        BY <4>1, <4>2 DEF Passes
    <3> QED
      BY <3>1, <3>2
  <2>2. IsStage("climber_slave")
    BY <2>1
  <2> QED
    BY <1>1, <2>2 DEF MasterOver
<1> QED
  BY <1>3, <1>5 DEF MotorsInv

\* After the last value of the test at place i, with the motor stopped or being
\* stopped, and the one that turned along with it braked.
LEMMA MotorsAfter ==
  ASSUME HealthInv, NEW i \in 1 .. 10, NEW free, IsStage(Stages[i]),
         Stages[i] \in Motors, UNCHANGED <<command, started>>,
         NextValue(Stages[i]), IsLast(Stages[i]),
         \/ Stages[i] \notin Climber /\ free = {}
         \/ Stages[i] = "climber_master" /\ free = {"climber_slave"}
         \/ Stages[i] = "climber_slave" /\ free = {"climber_master"},
         \/ motor' = motor \ {Stages[i]} /\ UNCHANGED stopVars
         \/ /\ Stages[i] = "shooter" /\ motor' = motor
            /\ stopping' = TRUE /\ UNCHANGED wheelVars,
         coast' = coast \ free,
         abandoned' = abandoned \ ({Stages[i]} \cup free)
  PROVE  MotorsInv'
<1> DEFINE s == Stages[i]
<1>1. OnlyTestedMotorRuns /\ MotorTypes /\ MasterOver /\ IterType /\ InOrder
  BY DEF HealthInv, HealthTypeOK, MotorTypes
<1>2. i < 10 => IsStage(Stages[i + 1])'
  BY <1>1, StageMoves
<1>3. /\ s = "climber_master" <=> i = 9
      /\ s = "climber_slave" <=> i = 10
      /\ s = "shooter" <=> i = 4
      /\ Stages[10] = "climber_slave"
  BY StagesFacts DEF Stages
<1>4. s = "climber_master" => IsStage("climber_slave")'
  BY <1>2, <1>3
<1>5. s = "climber_slave" => "climber_master" \notin motor /\ "climber_slave" \notin coast
  BY <1>1 DEF MasterOver
<1>6. \A m \in Motors : IsStage(m) => m = s
  BY StageUnique
<1>7. \A m \in motor : m = s \/ m \in abandoned \/ StillStopping(m)
  BY <1>1, <1>6 DEF OnlyTestedMotorRuns, MotorTypes, StillStopping
<1>8. \A c \in coast : c \in abandoned \/ (s \in Climber /\ c # s)
  BY <1>1, <1>6 DEF OnlyTestedMotorRuns, Climber, Motors
<1>9. \A m \in motor' : IsStage(m)' \/ m \in abandoned' \/ StillStopping(m)'
  <2> TAKE m \in motor'
  <2>0. ramping' = ramping /\ (stopping' = stopping \/ stopping')
    BY DEF stopVars, wheelVars
  <2>1. CASE m = s
    <3>1. m = "shooter" /\ stopping' = TRUE
      BY <2>1
    <3> QED
      BY <3>1 DEF StillStopping
  <2>2. CASE m # s /\ m \notin free
    BY <1>7, <2>0, <2>2 DEF StillStopping
  <2>3. CASE m # s /\ m \in free
    <3>1. s = "climber_master" /\ m = "climber_slave"
      BY <1>5, <2>3
    <3> QED
      BY <1>4, <3>1
  <2> QED
    BY <2>1, <2>2, <2>3
<1>10. \A c \in coast' : \/ c \in abandoned'
                         \/ \E m \in Climber \ {c} : IsStage(m)'
  <2> TAKE c \in coast'
  <2>1. c \in coast /\ c \notin free /\ c \in Climber
    BY <1>1 DEF MotorTypes
  <2>2. CASE s \notin Climber
    BY <1>8, <2>1, <2>2 DEF Climber
  <2>3. CASE s = "climber_master"
    <3>1. c = "climber_master"
      BY <2>1, <2>3 DEF Climber
    <3> QED
      BY <1>4, <2>3, <3>1 DEF Climber
  <2>4. CASE s = "climber_slave"
    BY <1>5, <2>1, <2>4 DEF Climber
  <2> QED
    BY <2>2, <2>3, <2>4 DEF Climber
<1>11. OnlyTestedMotorRuns'
  BY <1>9, <1>10 DEF OnlyTestedMotorRuns, StillStopping
<1>13. MasterOver'
  <2> SUFFICES ASSUME IsStage("climber_slave")'
               PROVE  "climber_master" \notin motor' /\ "climber_slave" \notin coast'
    BY DEF MasterOver
  <2>1. CASE i = 10
    BY <1>3, <1>5, <2>1
  <2>2. CASE i = 9
    <3>1. s = "climber_master"
      BY <1>3, <2>2
    <3>2. free = {"climber_slave"} /\ motor' = motor \ {"climber_master"}
      BY <3>1 DEF Climber
    <3> QED
      BY <3>2
  <2>3. CASE i < 9
    <3>1. Stages[i + 1] = "climber_slave"
      BY <1>2, <2>3, StageUniqueNext
    <3>2. i + 1 \in 1 .. 10 /\ i + 1 # 10
      BY <2>3
    <3> QED
      BY <1>3, <3>1, <3>2, StagesFacts
  <2> QED
    BY <2>1, <2>2, <2>3
<1> QED
  BY <1>11, <1>13 DEF MotorsInv

\* A test of a motor, with what stops it after the last value.
LEMMA MotorTestKeeps ==
  ASSUME HealthInv, NEW s \in Motors, NEW free, NEW after, CheckMotor(s, free, after),
         UNCHANGED <<command, started>>,
         \/ s \notin Climber /\ free = {}
         \/ s = "climber_master" /\ free = {"climber_slave"}
         \/ s = "climber_slave" /\ free = {"climber_master"},
         after => \/ motor' = motor \ {s} /\ UNCHANGED stopVars
                  \/ /\ s = "shooter" /\ motor' = motor
                     /\ stopping' = TRUE /\ UNCHANGED wheelVars
  PROVE  MotorsInv' /\ MotorTypes' /\ UNCHANGED wheelVars
<1>1. OnlyTestedMotorRuns /\ MotorTypes /\ MasterOver /\ IterType /\ InOrder
  BY DEF HealthInv, HealthTypeOK, MotorTypes
<1>2. IsStage(s) /\ Passes(s)
  BY MotorTest
<1>3. PICK i \in 1 .. 10 : Stages[i] = s
  BY <1>2, StageAt
<1>4. free \subseteq Climber
  BY DEF Climber
<1>5. CASE Measure /\ UNCHANGED motorVars
  <2>1. IsStage(s)'
    BY <1>2, <1>5 DEF Measure, IsStage, TestsLeft
  <2> QED
    BY <1>1, <1>2, <1>3, <1>5, <2>1, MotorsLeft
    DEF motorVars, stopVars, MotorTypes
<1>6. CASE /\ motor' = motor \cup {s}
           /\ coast' = coast \cup free
           /\ UNCHANGED <<swerveVars, checkVars, abandoned, stopVars>>
  <2>1. \A t : IsStage(t) <=> IsStage(t)'
    BY <1>6 DEF IsStage, TestsLeft, checkVars
  <2>2. \A c \in free : s \in Climber \ {c}
    BY DEF Climber
  <2>3. OnlyTestedMotorRuns'
    BY <1>1, <1>2, <1>6, <2>1, <2>2 DEF OnlyTestedMotorRuns, stopVars, wheelVars
  <2>5. MasterOver'
    <3> SUFFICES ASSUME IsStage("climber_slave")'
                 PROVE  "climber_master" \notin motor' /\ "climber_slave" \notin coast'
      BY DEF MasterOver
    <3>1. s = "climber_slave"
      BY <1>2, <2>1, StageUnique
    <3>2. free = {"climber_master"}
      BY <3>1 DEF Climber
    <3> QED
      BY <1>1, <1>2, <1>6, <3>1, <3>2 DEF MasterOver
  <2>6. MotorTypes'
    BY <1>1, <1>4, <1>6 DEF MotorTypes, stopVars
  <2> QED
    BY <1>6, <2>3, <2>5, <2>6 DEF MotorsInv, stopVars
<1>7. CASE NextValue(s) /\ ~IsLast(s) /\ UNCHANGED motorVars
  <2>1. IsStage(Stages[i])'
    BY <1>1, <1>2, <1>3, <1>7, StageMoves
  <2> QED
    BY <1>1, <1>2, <1>3, <1>7, <2>1, MotorsLeft
    DEF motorVars, stopVars, MotorTypes
<1>8. CASE /\ NextValue(s) /\ IsLast(s) /\ after
           /\ coast' = coast \ free
           /\ abandoned' = abandoned \ ({s} \cup free)
  <2>1. MotorsInv'
    BY <1>2, <1>3, <1>8, MotorsAfter
  <2>2. MotorTypes'
    BY <1>1, <1>8 DEF MotorTypes, stopVars
  <2> QED
    BY <1>8, <2>1, <2>2 DEF stopVars
<1> QED
  BY <1>5, <1>6, <1>7, <1>8 DEF CheckMotor

LEMMA MotorsNext ==
  ASSUME HealthInv, [Next]_vars
  PROVE  MotorsInv' /\ MotorTypes'
<1>1. OnlyTestedMotorRuns /\ MotorTypes /\ MasterOver /\ IterType /\ InOrder
  BY DEF HealthInv, HealthTypeOK, MotorTypes
<1>2. CASE Leaves
  <2>1. ~started' /\ UNCHANGED <<motor, coast>> /\ WheelLeft
    BY <1>2, LeavesStep
  <2>2. \A s : ~IsStage(s)'
    BY <2>1 DEF IsStage
  <2>3. coast \subseteq Motors
    BY <1>1 DEF MotorTypes, Climber, Motors
  <2>4. /\ \A m \in motor : m \in abandoned \cup CheckedMotors \/ StillStopping(m)
        /\ coast \subseteq abandoned \cup CheckedMotors
    <3>1. CASE \E s \in DOMAIN Tests : IsStage(s)
      BY <3>1 DEF CheckedMotors
    <3>2. CASE ~\E s \in DOMAIN Tests : IsStage(s)
      <4>1. \A s : ~IsStage(s)
        BY <3>2, StageAt
      <4> QED
        BY <1>1, <4>1 DEF OnlyTestedMotorRuns, StillStopping
    <3> QED
      BY <3>1, <3>2
  <2>5. \A m \in motor : m \in abandoned' \/ StillStopping(m)'
    <3>1. CASE UNCHANGED stopVars /\ abandoned' = abandoned \cup CheckedMotors
      BY <2>4, <3>1 DEF StillStopping, stopVars, wheelVars
    <3>2. CASE abandoned' = abandoned \cup (CheckedMotors \cup StoppedMotors)
      <4>1. \A m \in motor : StillStopping(m) => m \in StoppedMotors
        BY DEF StillStopping, StoppedMotors
      <4> QED
        BY <2>4, <3>2, <4>1
    <3> QED
      BY <2>1, <3>1, <3>2 DEF WheelLeft
  <2>6. coast \subseteq abandoned' /\ abandoned' \subseteq Motors
    <3>1. CheckedMotors \subseteq Motors /\ StoppedMotors \subseteq Motors
      BY <1>1, <2>3 DEF CheckedMotors, StoppedMotors, MotorTypes
    <3> QED
      BY <1>1, <2>1, <2>4, <3>1 DEF WheelLeft, MotorTypes
  <2>7. MotorsInv'
    BY <2>1, <2>2, <2>5, <2>6
    DEF MotorsInv, OnlyTestedMotorRuns, StillStopping, MasterOver
  <2>8. stopping' \in BOOLEAN
    BY <1>1, <2>1 DEF WheelLeft, stopVars, MotorTypes
  <2> QED
    BY <1>1, <2>1, <2>6, <2>7, <2>8 DEF MotorTypes
<1>3. CASE Start
  <2>1. ~started /\ started' /\ UNCHANGED <<command, motorVars>>
    BY <1>3, StartStep
  <2>2. \A s : ~IsStage(s)
    BY <2>1 DEF IsStage
  <2>3. UNCHANGED <<motor, coast, stopping, ramping, abandoned>>
    BY <2>1 DEF motorVars, stopVars, wheelVars
  <2>4. /\ \A m \in motor : m \in abandoned \/ StillStopping(m)
        /\ coast \subseteq abandoned
    BY <1>1, <2>2 DEF OnlyTestedMotorRuns, StillStopping
  <2>5. ~IsStage("climber_slave")'
    <3>1. CASE command = "health"
      <4>1. \A s \in DOMAIN Tests : iter'[s] = 1
        BY <1>3, <3>1, StartStep, FirstValues
      <4>2. TestsLeft("climber_master")'
        BY <4>1 DEF TestsLeft, Tests
      <4>3. Stages[9] = "climber_master" /\ Stages[10] = "climber_slave"
        BY DEF Stages
      <4>4. ASSUME IsStage("climber_slave")' PROVE FALSE
        <5>1. PICK i \in 1 .. 10 : /\ Stages[i] = "climber_slave"
                                   /\ \A j \in 1 .. i - 1 : ~TestsLeft(Stages[j])'
          BY <4>4, StagesFacts DEF IsStage
        <5>2. i = 10
          BY <4>3, <5>1, StagesFacts
        <5> QED
          BY <4>2, <4>3, <5>1, <5>2
      <4> QED
        BY <4>4
    <3>2. CASE command # "health"
      BY <2>1, <3>2 DEF IsStage
    <3> QED
      BY <3>1, <3>2
  <2>6. MotorsInv'
    BY <2>3, <2>4, <2>5
    DEF MotorsInv, OnlyTestedMotorRuns, StillStopping, MasterOver
  <2> QED
    BY <1>1, <2>3, <2>6 DEF MotorTypes
<1>4. ASSUME UNCHANGED <<command, started, checkVars, motorVars>>
      PROVE  MotorsInv' /\ MotorTypes'
  <2>1. \A s : IsStage(s) <=> IsStage(s)'
    BY <1>4 DEF IsStage, TestsLeft, checkVars
  <2>2. UNCHANGED <<motor, coast, stopping, ramping, abandoned>>
    BY <1>4 DEF motorVars, stopVars, wheelVars
  <2> QED
    BY <1>1, <2>1, <2>2
    DEF MotorsInv, OnlyTestedMotorRuns, MasterOver, MotorTypes
<1>5. CASE Steer
  BY <1>4, <1>5, SteerStep
<1>6. CASE Azimuths
  BY <1>4, <1>6, TurnsStep
<1>7. CASE ExecuteHealthCheck
  <2>1. UNCHANGED <<command, started>>
    BY <1>7 DEF ExecuteHealthCheck
  <2>2. CASE CheckDriveMotors \/ CheckAzimuthMotors \/ CheckAzimuthEncoders
             \/ CheckElevationEncoder
    <3>1. \E s \in {"drive", "azimuth", "azimuth_position", "elevation"} :
            IsStage(s) /\ Passes(s) /\ UNCHANGED motorVars
      <4>1. PICK s \in DOMAIN Tests : /\ IsStage(s) /\ Passes(s)
                                      /\ s \notin Motors => UNCHANGED motorVars
        BY <1>7, ExecuteStep
      <4>2. \E t \in {"drive", "azimuth", "azimuth_position", "elevation"} : IsStage(t)
        BY <2>2, DriveTest, AzimuthTest, EncodersTest DEF CheckElevationEncoder
      <4>3. s \in {"drive", "azimuth", "azimuth_position", "elevation"}
        BY <4>1, <4>2, StageUnique
      <4> QED
        BY <4>1, <4>3 DEF Motors
    <3>2. PICK s \in {"drive", "azimuth", "azimuth_position", "elevation"} :
            IsStage(s) /\ Passes(s) /\ UNCHANGED motorVars
      BY <3>1
    <3>3. PICK i \in 1 .. 10 : Stages[i] = s
      BY <3>2, StageAt
    <3>4. s \notin Motors
      BY DEF Motors
    <3>5. MotorsInv'
      BY <2>1, <3>2, <3>3, <3>4, MotorsLeft
    <3> QED
      BY <1>1, <3>2, <3>5 DEF motorVars, stopVars, MotorTypes
  <2>3. CASE CheckShooterWheelMotor
    BY <2>1, <2>3, MotorTestKeeps DEF CheckShooterWheelMotor, Motors, Climber
  <2>4. CASE CheckHopperMotor
    BY <2>1, <2>4, MotorTestKeeps DEF CheckHopperMotor, Stopped, Motors, Climber
  <2>5. CASE CheckIntakeMotor
    BY <2>1, <2>5, MotorTestKeeps DEF CheckIntakeMotor, Stopped, Motors, Climber
  <2>6. CASE CheckGearIntakeMotor
    BY <2>1, <2>6, MotorTestKeeps DEF CheckGearIntakeMotor, Stopped, Motors, Climber
  <2>7. CASE CheckClimberMasterMotor
    BY <2>1, <2>7, MotorTestKeeps
    DEF CheckClimberMasterMotor, Stopped, Motors, Climber
  <2>8. CASE CheckClimberSlaveMotor
    BY <2>1, <2>8, MotorTestKeeps
    DEF CheckClimberSlaveMotor, Stopped, Motors, Climber
  <2> QED
    BY <1>7, <2>2, <2>3, <2>4, <2>5, <2>6, <2>7, <2>8 DEF ExecuteHealthCheck
<1>8. CASE StopShooterWheel
  <2>1. /\ UNCHANGED <<command, started, checkVars, coast>>
        /\ stopping' \in BOOLEAN
        /\ \/ ramping' /\ motor' = motor \cup {"shooter"} /\ UNCHANGED abandoned
           \/ motor' = motor \ {"shooter"} /\ abandoned' = abandoned \ {"shooter"}
    BY <1>1, <1>8 DEF StopShooterWheel, MotorTypes
  <2>2. \A s : IsStage(s) <=> IsStage(s)'
    BY <2>1 DEF IsStage, TestsLeft, checkVars
  <2>3. "shooter" \notin Climber /\ "shooter" \in Motors
    BY DEF Climber, Motors
  <2>4. MotorTypes'
    BY <1>1, <2>1, <2>3 DEF MotorTypes
  <2>5. \A m \in motor' : IsStage(m)' \/ m \in abandoned' \/ StillStopping(m)'
    BY <1>1, <2>1, <2>2 DEF OnlyTestedMotorRuns, StillStopping
  <2>6. \A c \in coast' : \/ c \in abandoned'
                         \/ \E m \in Climber \ {c} : IsStage(m)'
    BY <1>1, <2>1, <2>2, <2>3 DEF OnlyTestedMotorRuns, MotorTypes
  <2>7. MasterOver'
    BY <1>1, <2>1, <2>2 DEF MasterOver
  <2> QED
    BY <2>4, <2>5, <2>6, <2>7 DEF MotorsInv, OnlyTestedMotorRuns, StillStopping
<1>9. CASE Enable \/ UNCHANGED vars
  BY <1>4, <1>9 DEF Enable, vars, motorVars
<1> QED
  BY <1>2, <1>3, <1>5, <1>6, <1>7, <1>8, <1>9, Actions

\* The check never writes the wheel's set point but through StopShooterWheel.
LEMMA ExecuteLeavesWheel ==
  ASSUME HealthInv, ExecuteHealthCheck
  PROVE  UNCHANGED wheelVars
<1>1. ASSUME NEW s, NEW free, NEW after, CheckMotor(s, free, after),
             after => UNCHANGED wheelVars
      PROVE  UNCHANGED wheelVars
  BY <1>1 DEF CheckMotor, motorVars, stopVars
<1>2. CASE CheckDriveMotors \/ CheckAzimuthMotors \/ CheckAzimuthEncoders
           \/ CheckElevationEncoder
  BY <1>2, DriveTest, AzimuthTest, EncodersTest
  DEF CheckElevationEncoder, motorVars, stopVars
<1>3. \A s : Stopped(s) => UNCHANGED wheelVars
  BY DEF Stopped, stopVars
<1>4. CheckShooterWheelMotor => UNCHANGED wheelVars
  BY <1>1 DEF CheckShooterWheelMotor
<1>5. CASE CheckHopperMotor \/ CheckIntakeMotor \/ CheckGearIntakeMotor
           \/ CheckClimberMasterMotor \/ CheckClimberSlaveMotor
  BY <1>1, <1>3, <1>5
  DEF CheckHopperMotor, CheckIntakeMotor, CheckGearIntakeMotor,
      CheckClimberMasterMotor, CheckClimberSlaveMotor
<1> QED
  BY <1>2, <1>4, <1>5 DEF ExecuteHealthCheck

\* The ramp of the wheel goes on beside the commands that use the drive.
LEMMA WheelKept ==
  ASSUME HealthInv, [Next]_vars
  PROVE  WheelInv'
<1>1. WheelInv /\ setpoint \in -(MaxInt + 1) .. MaxInt
  BY DEF HealthInv, WheelInv, WheelTypeOK
<1>2. ASSUME UNCHANGED wheelVars PROVE WheelInv'
  BY <1>1, <1>2, WheelInvStep
<1>3. CASE Leaves
  <2>1. CASE UNCHANGED stopVars
    BY <1>2, <2>1 DEF stopVars
  <2>2. CASE ramping' = FALSE /\ UNCHANGED <<setpoint, ramp, measured>>
    BY <1>1, <2>2, RampLeft
  <2> QED
    BY <1>3, <2>1, <2>2, LeavesStep DEF WheelLeft
<1>4. CASE Start \/ Steer \/ Azimuths
  BY <1>2, <1>4, StartStep, SteerStep, TurnsStep DEF motorVars, stopVars
<1>5. CASE ExecuteHealthCheck
  BY <1>2, <1>5, ExecuteLeavesWheel
<1>6. CASE StopShooterWheel
  BY <1>1, <1>6, BeginRampKeeps, ContinueRampKeeps DEF StopShooterWheel
<1>7. CASE Enable \/ UNCHANGED vars
  BY <1>2, <1>7 DEF Enable, vars, motorVars, stopVars
<1> QED
  BY <1>3, <1>4, <1>5, <1>6, <1>7, Actions

-----------------------------------------------------------------------------
(* The theorems                                                            *)

LEMMA HealthInit == Init => HealthInv
<1> SUFFICES ASSUME Init PROVE HealthInv
  OBVIOUS
<1>1. MathTypeOK
  BY DEF Init, SwerveInit, MathInit, MathTypeOK, Angles
<1>2. \A n \in {0} : All(n) \in [Wheels -> Int] /\ All(n) \in [Wheels -> 0 .. Turn - 1]
  BY DEF All, Turn
<1>3. NewTalon \in Talons
  BY DEF NewTalon, Talons, Types
<1>4. /\ Initialize("drive", NewTalon) \in Talons
      /\ OfOneConfiguration(Initialize("drive", NewTalon))
      /\ Initialize("drive", NewTalon).common = "drive"
      /\ GetSetpointMax("drive") \in Nat
  <2>1. "drive" \in Names
    BY DEF Names, Config
  <2>2. Configure("drive", NewTalon) \in Talons
    BY <1>3, <2>1 DEF Configure, Talons
  <2> QED
    BY <2>2, DriveModes DEF Initialize
<1>5. /\ Initialize("azimuth", NewTalon) \in Talons
      /\ Initialize("azimuth", NewTalon).mode = "motion_magic"
  <2>1. "azimuth" \in Names /\ Config["azimuth"].type = "motion_magic"
    BY DEF Names, Config
  <2>2. Configure("azimuth", NewTalon) \in Talons
    BY <1>3, <2>1 DEF Configure, Talons
  <2> DEFINE t == Configure("azimuth", NewTalon)
  <2>3. Initialize("azimuth", NewTalon) =
          [t EXCEPT !.mode = "motion_magic", !.common = "azimuth",
                    !.pid = "azimuth", !.profile = "azimuth"]
    BY <2>1 DEF Initialize, SetMode, MotionMagicSetMode, PIDSetMode, SettingsSetMode
  <2> HIDE DEF t
  <2>4. t \in Talons
    BY <2>2 DEF t
  <2> QED
    BY <2>1, <2>3, <2>4 DEF Talons, Types
<1>6. SwerveTypeOK
  BY <1>1, <1>2, <1>4, <1>5 DEF Init, SwerveInit, SwerveTypeOK, Units
<1>7. AsTold /\ DriveFitsConfiguration
  BY <1>4 DEF Init, SwerveInit, AsTold, DriveFitsConfiguration
<1>8. ModeInv /\ HeldInv
  BY <1>5 DEF Init, SwerveInit, ModeInv, HeldInv
<1>9. IterType /\ InOrder
  BY StagesFacts DEF Init, IterType, InOrder
<1>10. \A s : ~IsStage(s)
  BY DEF Init, IsStage
<1>11. ZeroInv /\ MasterOver /\ OnlyTestedMotorRuns /\ CheckStill
  BY <1>10 DEF Init, ZeroInv, MasterOver, OnlyTestedMotorRuns, CheckStill
<1>12. LagInv
  <2>1. Done = 0 /\ checks = 0
    BY DEF Init, Done, Pending
  <2>2. 0 \in -Slack .. Slack
    <3>1. Slack = LongestLag
      BY <2>1, LagsAssumption DEF Slack
    <3> QED
      BY <3>1, LagsAssumption
  <2>3. ASSUME NEW w \in Wheels
        PROVE  \E lag \in -Slack .. Slack : Offset(w, lag)
    <3>1. position[w] = 0 /\ absolute[w] = 0 /\ zero[w] = 0
      BY DEF Init, SwerveInit, All
    <3>2. (position[w] + 0 - (absolute[w] - zero[w])) % Turn = 0
      BY <3>1 DEF Turn
    <3> QED
      BY <2>2, <3>2 DEF Offset
  <2> QED
    BY <2>1, <2>3 DEF LagInv
<1>13. WheelInv
  BY WheelInvInit DEF Init
<1>14. HealthTypeOK
  <2>1. count_ \in 0 .. kCountReq
    BY HealthAssumption DEF Init
  <2>2. /\ enabled \in BOOLEAN /\ read_cal_ \in BOOLEAN /\ command \in Commands
        /\ started \in BOOLEAN /\ is_transitioning_ \in BOOLEAN
        /\ motor \subseteq Motors /\ coast \subseteq Climber
        /\ abandoned \subseteq Motors /\ stopping \in BOOLEAN
    BY DEF Init, Commands
  <2> QED
    BY <1>6, <1>9, <1>13, <2>1, <2>2 DEF HealthTypeOK, IterType, WheelInv
<1> QED
  BY <1>6, <1>7, <1>8, <1>9, <1>11, <1>12, <1>13, <1>14 DEF HealthInv

LEMMA HealthNext == HealthInv /\ [Next]_vars => HealthInv'
<1> SUFFICES ASSUME HealthInv, [Next]_vars PROVE HealthInv'
  OBVIOUS
<1>1. SwerveInv'
  BY SwerveNext
<1>2. ControlInv'
  BY ControlNext
<1>3. LagInv' /\ HeldInv' /\ ZeroInv' /\ MotorsInv' /\ MotorTypes' /\ WheelInv'
  BY LagNext, HeldNext, ZeroNext, MotorsNext, WheelKept
<1>4. HealthTypeOK'
  BY <1>1, <1>2, <1>3
  DEF HealthTypeOK, SwerveInv, ControlInv, IterType, MotorTypes, WheelInv
<1> QED
  BY <1>1, <1>2, <1>3, <1>4 DEF HealthInv, SwerveInv, ControlInv, MotorsInv

LEMMA HealthInvariant == Spec => []HealthInv
BY HealthInit, HealthNext, PTL DEF Spec

\* The drive's motors, the health check and the commands keep their types.
THEOREM TypeCorrect == Spec => []HealthTypeOK
<1>1. HealthInv => HealthTypeOK
  BY DEF HealthInv
<1> QED
  BY <1>1, HealthInvariant, PTL

\* However the commands follow one another, the wheels only ever move as the
\* history of motions does: the drive implements SwerveMath.
THEOREM ImplementsMath == Spec => MathSpec
<1>1. Init => MathInit
  BY DEF Init, SwerveInit
<1>2. HealthInv /\ [Next]_vars => [MathNext]_mathVars
  BY SwerveNext
<1> QED
  BY <1>1, <1>2, HealthInvariant, PTL DEF Spec, MathSpec

\* The angle, the direction and the sign remembered of every wheel agree, whatever
\* the commands of the robot do; that the wheel is at that angle is not said.
THEOREM DriveHistoryAgrees == Spec => []HistoryAgrees
BY ImplementsMath, MathHistoryAgrees

\* The drive Talons have the registers and the scale of one configuration,
\* whichever commands change their mode, and in whatever order.
THEOREM DriveConfigured == Spec => []DriveFitsConfiguration
<1>1. HealthInv => DriveFitsConfiguration
  BY DEF HealthInv
<1> QED
  BY <1>1, HealthInvariant, PTL

\* The azimuth Talons never take volts, those of the motor test and the stray
\* value after them, for a position, nor ticks for volts, however a check ends or
\* is interrupted; and only a check has them in voltage mode.
THEOREM VoltsNeverTicks == Spec => []TicksNeverVolts
<1>1. HealthInv => TicksNeverVolts
  BY DEF HealthInv, ModeInv, HeldInv, TicksNeverVolts
<1> QED
  BY <1>1, HealthInvariant, PTL

\* However far the voltage test turned the wheels, the check drives them back to
\* zero by less than a turn.
THEOREM CheckZeroesWithinATurn == Spec => []ZeroingTurnsLessThanOnce
<1>1. HealthInv => ZeroingTurnsLessThanOnce
  BY DEF HealthInv, ZeroInv, ZeroingTurnsLessThanOnce
<1> QED
  BY <1>1, HealthInvariant, PTL

\* A motor runs during its own test only, or was left on by an interrupted
\* check, or is the shooter wheel, which StopShooterWheel ramps down beside the
\* next tests; the same holds, without the wheel, of a climber motor that coasts.
THEOREM CheckRunsItsMotor == Spec => []OnlyTestedMotorRuns
<1>1. HealthInv => OnlyTestedMotorRuns
  BY DEF HealthInv
<1> QED
  BY <1>1, HealthInvariant, PTL

\* The azimuths' encoders keep the zero of the calibration read last, whoever
\* resets them, but for the lag of what the Talons report at its reading and at
\* each check.
THEOREM EncodersCalibrated == Spec => []CalibrationKept
<1>1. HealthInv => CalibrationKept
  <2> SUFFICES ASSUME HealthInv PROVE CalibrationKept
    OBVIOUS
  <2> DEFINE n == (Done + 1) * LongestLag
             m == (checks + 1) * LongestLag
  <2>1. checks \in Nat /\ Done \in Nat
        /\ \A w \in Wheels : \E lag \in -n .. n : Offset(w, lag)
    BY DEF HealthInv, LagInv, Slack
  <2>2. Done <= checks
    BY <2>1 DEF Done
  <2>3. -n .. n \subseteq -m .. m
    BY <2>1, <2>2, SlackFacts
  <2>4. m = (checks + 1) * LongestLag
    OBVIOUS
  <2> HIDE DEF n, m
  <2>5. \A w \in Wheels : \E lag \in -m .. m : Offset(w, lag)
    BY <2>1, <2>3
  <2> QED
    BY <2>4, <2>5 DEF CalibrationKept, Offset
<1> QED
  BY <1>1, HealthInvariant, PTL

\* The shooter wheel that the check ran is ramped down to zero beside the next
\* tests, whatever interrupts the check, unless it was found turning backwards.
THEOREM CheckStopsWheel == Spec => []RampHeadsForZero
<1>1. HealthInv => RampHeadsForZero
  BY RampFalls DEF HealthInv
<1> QED
  BY <1>1, HealthInvariant, PTL

\* Rounding to ticks moves an angle by less than half a tick.
LEMMA Rounding ==
  ASSUME NEW a \in Int
  PROVE  Ticks(a) \in Int /\ 360 * Ticks(a) - Turn * a \in -179 .. 179
<1>1. CASE a >= 0
  <2> DEFINE t == (a * 4096 + 180) \div 360
  <2>1. t \in Int /\ 360 * t - 4096 * a \in -180 .. 180
    BY <1>1
  <2> HIDE DEF t
  <2>3. 360 * t - 4096 * a \in -179 .. 179
    BY <1>1, <2>1
  <2>2. Ticks(a) = t
    BY <1>1 DEF Ticks, sign, Abs, Turn, t
  <2> QED
    BY <2>1, <2>2, <2>3 DEF Turn
<1>2. CASE a < 0
  <2> DEFINE t == ((-a) * 4096 + 180) \div 360
  <2>1. t \in Int /\ 360 * t - 4096 * (-a) \in -180 .. 180
    BY <1>2
  <2>2. Ticks(a) = -t
    BY <1>2 DEF Ticks, sign, Abs, Turn
  <2> HIDE DEF t
  <2>3. 360 * t - 4096 * (-a) \in -179 .. 179
    BY <1>2, <2>1
  <2> QED
    BY <1>2, <2>1, <2>2, <2>3 DEF Turn
<1> QED
  BY <1>1, <1>2

\* At most a quarter turn further is at most as many ticks further.
LEMMA NoFurther ==
  ASSUME NEW a \in Int, NEW b \in Int, NEW t \in Int, NEW u \in Int,
         -179 <= 360 * t - 4096 * a, 360 * t - 4096 * a <= 179,
         -179 <= 360 * u - 4096 * b, 360 * u - 4096 * b <= 179,
         b - a <= 90
  PROVE  u - t <= 1024
BY Z3

\* Angles a quarter turn apart are as many ticks apart.
LEMMA QuarterOfTicks ==
  ASSUME NEW a \in Int, NEW b \in Int, Abs(b - a) <= 90
  PROVE  Abs(Ticks(b) - Ticks(a)) <= Turn \div 4
<1> DEFINE t == Ticks(a)
           u == Ticks(b)
<1>1. t \in Int /\ -179 <= 360 * t - 4096 * a /\ 360 * t - 4096 * a <= 179
  <2>1. Ticks(a) \in Int /\ 360 * Ticks(a) - 4096 * a \in -179 .. 179
    BY Rounding DEF Turn
  <2> QED
    BY <2>1
<1>2. u \in Int /\ -179 <= 360 * u - 4096 * b /\ 360 * u - 4096 * b <= 179
  <2>1. Ticks(b) \in Int /\ 360 * Ticks(b) - 4096 * b \in -179 .. 179
    BY Rounding DEF Turn
  <2> QED
    BY <2>1
<1>3. b - a <= 90 /\ a - b <= 90
  BY DEF Abs
<1> HIDE DEF t, u
<1>4. u - t <= 1024 /\ t - u <= 1024
  BY <1>1, <1>2, <1>3, NoFurther
<1>5. Abs(u - t) <= 1024
  BY <1>1, <1>2, <1>4 DEF Abs
<1> QED
  BY <1>5 DEF t, u, Turn

\* As long as the azimuths are set to the history, no motion and no brake moves a
\* set point by more than a quarter turn, whatever command gives it.
THEOREM SetpointsTurnAQuarter == Spec => MotionsTurnAQuarter
<1> DEFINE Quarter == \A w \in Wheels : Abs(wheel_angles'[w] - wheel_angles[w]) <= 90
<1>1. /\ HealthInv /\ HealthInv' /\ [Next]_vars /\ [Quarter]_mathVars
      => [FollowHistory /\ mathVars' # mathVars =>
            \A w \in Wheels : Abs(azimuth'[w] - azimuth[w]) <= Turn \div 4]_swerveVars
  <2> SUFFICES ASSUME HealthInv, HealthInv', [Next]_vars, [Quarter]_mathVars,
                      FollowHistory, mathVars' # mathVars, NEW w \in Wheels
               PROVE  Abs(azimuth'[w] - azimuth[w]) <= Turn \div 4
    OBVIOUS
  <2>1. FollowHistory' /\ Quarter
    BY SwerveNext
  <2>2. azimuth[w] = Ticks(wheel_angles[w]) /\ azimuth'[w] = Ticks(wheel_angles'[w])
    BY <2>1 DEF FollowHistory
  <2>3. wheel_angles[w] \in Int /\ wheel_angles'[w] \in Int
    BY DEF HealthInv, HealthTypeOK, SwerveTypeOK, MathTypeOK
  <2> QED
    BY <2>1, <2>2, <2>3, QuarterOfTicks
<1>2. Spec => QuarterTurn
  BY ImplementsMath, MathQuarterTurn
<1> QED
  BY <1>1, <1>2, HealthInvariant, PTL DEF Spec, QuarterTurn, MotionsTurnAQuarter

\* Two directions that are one up to full turns are a tick apart at most.
LEMMA OneDirection ==
  ASSUME NEW angle \in Int, NEW past \in Int, NEW back \in BOOLEAN,
         (angle + (IF back THEN 180 ELSE 0) - past) % 360 = 0
  PROVE  (Ticks(angle) + (IF back THEN Turn \div 2 ELSE 0) - Ticks(past)) % Turn
           \in {Turn - 1, 0, 1}
<1> DEFINE half == IF back THEN 180 ELSE 0
           turned == IF back THEN Turn \div 2 ELSE 0
           t == Ticks(angle)
           p == Ticks(past)
<1>1. half \in {0, 180} /\ turned \in Int /\ 360 * turned = 4096 * half
  BY DEF Turn
<1>2. t \in Int /\ 360 * t - 4096 * angle \in -180 .. 180
  BY Rounding DEF Turn
<1>3. p \in Int /\ 360 * p - 4096 * past \in -180 .. 180
  BY Rounding DEF Turn
<1>4. (angle + half - past) % 360 = 0
  OBVIOUS
<1> HIDE DEF half, turned, t, p
<1>5. PICK k \in Int : angle + half - past = 360 * k
  BY <1>1, <1>4
<1>6. 4096 * angle + 4096 * half - 4096 * past = 360 * (4096 * k)
  BY <1>1, <1>5
<1>7. 360 * (t + turned - p - 4096 * k) \in -360 .. 360
  BY <1>1, <1>2, <1>3, <1>6
<1>8. t + turned - p - 4096 * k \in {-1, 0, 1}
  BY <1>1, <1>2, <1>3, <1>7
<1>9. (t + turned - p) % 4096 \in {4095, 0, 1}
  BY <1>1, <1>2, <1>3, <1>8
<1> QED
  BY <1>9 DEF t, turned, p, Turn

\* While the wheels do what the last motion told them, each pushes the way that
\* motion needs, and none harder than full speed.
THEOREM WheelsDoAsTold == Spec => []WheelsPushAsTold
<1>1. HealthInv /\ HistoryAgrees => WheelsPushAsTold
  <2> SUFFICES ASSUME HealthInv, HistoryAgrees, motion # NoMotion, NEW w \in Wheels
               PROVE  /\ drive[w] # 0 =>
                           (azimuth[w] + (IF drive[w] < 0 THEN Turn \div 2 ELSE 0)
                              - Ticks(AngleTable[motion][w])) % Turn
                             \in {Turn - 1, 0, 1}
                      /\ Abs(drive[w]) <= 1000 * drive_scale_factor_
    BY DEF WheelsPushAsTold
  <2> DEFINE back == wheel_mag_negated[w]
             v == SpeedTable[motion][w]
             told == drive[w]
  <2>1. SwerveTypeOK /\ AsTold /\ motion \in Told
    BY DEF HealthInv, HealthTypeOK, SwerveTypeOK
  <2>2. wheel_angles[w] \in Int /\ wheel_anglesPast[w] \in Int
        /\ drive_scale_factor_ \in Nat
    <3>1. wheel_angles \in [Wheels -> Int] /\ wheel_anglesPast \in [Wheels -> Angles]
          /\ drive_scale_factor_ \in Nat
      BY <2>1 DEF SwerveTypeOK, MathTypeOK
    <3> QED
      BY <3>1 DEF Angles
  <2>3. back \in BOOLEAN
    BY <2>1 DEF SwerveTypeOK, MathTypeOK
  <2>4. v \in 0 .. 1000
    BY <2>1, Tables
  <2>5. told = (IF back THEN -v ELSE v) * drive_scale_factor_
    BY <2>1 DEF AsTold, WheelSpeeds
  <2>6. azimuth[w] = Ticks(wheel_angles[w])
        /\ AngleTable[motion][w] = wheel_anglesPast[w]
    BY <2>1 DEF AsTold
  <2>7. (wheel_angles[w] + (IF back THEN 180 ELSE 0) - wheel_anglesPast[w]) % 360 = 0
    BY DEF HistoryAgrees
  <2> HIDE DEF back, v, told
  <2>8. (told # 0 => (told < 0 <=> back)) /\ Abs(told) <= 1000 * drive_scale_factor_
    <3> DEFINE full == drive_scale_factor_
    <3>1. full \in Nat /\ v \in Nat /\ v <= 1000
      BY <2>2, <2>4
    <3> DEFINE p == v * full
               top == 1000 * full
    <3>2. p \in Nat /\ top \in Nat /\ p <= top
      BY <3>1, TimesMonotone
    <3>3. (-v) * full = -p
      BY <3>1
    <3>4. CASE back
      <4>1. told = -p
        BY <2>5, <3>3, <3>4
      <4> HIDE DEF p, top
      <4>2. Abs(told) <= top /\ (told # 0 => told < 0)
        BY <3>2, <4>1 DEF Abs
      <4> QED
        BY <3>4, <4>2 DEF top
    <3>5. CASE ~back
      <4>1. told = p
        BY <2>5, <3>5
      <4> HIDE DEF p, top
      <4>2. Abs(told) <= top /\ ~(told < 0)
        BY <3>2, <4>1 DEF Abs
      <4> QED
        BY <3>5, <4>2 DEF top
    <3> QED
      BY <3>4, <3>5
  <2>9. (azimuth[w] + (IF back THEN Turn \div 2 ELSE 0)
           - Ticks(AngleTable[motion][w])) % Turn \in {Turn - 1, 0, 1}
    BY <2>2, <2>3, <2>6, <2>7, OneDirection
  <2>10. told # 0 =>
           (azimuth[w] + (IF told < 0 THEN Turn \div 2 ELSE 0)
              - Ticks(AngleTable[motion][w])) % Turn \in {Turn - 1, 0, 1}
    BY <2>8, <2>9
  <2> QED
    BY <2>8, <2>10 DEF told
<1> QED
  BY <1>1, HealthInvariant, DriveHistoryAgrees, PTL
=============================================================================
