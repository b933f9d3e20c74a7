---------------------------- MODULE AimingProofs ----------------------------
(***************************************************************************)
(* GetAngle calculates its solution from a steady aim, for every set of    *)
(* images, every limit and every number of cycles it requires.             *)
(***************************************************************************)
EXTENDS Aiming, TLAPS

\* What the count of close cycles is worth.  Between two cycles it is at most
\* the length of the steady time, unless a far error was missed; after Execute
\* it is less, or the error is far and the count will start again.
CountIsSteady ==
  /\ pc \in {"execute", "error"} => stable_count_ <= steady
  /\ pc = "finish" => stable_count_ < steady \/ ~Close(abs_error_)

SteadyInv ==
  /\ pc \in {"off", "execute", "error", "finish"}
  /\ stable_count_ \in 0 .. kStableCountReq
  /\ pc # "off" => stable_count_ < kStableCountReq
  /\ steady \in 0 .. kStableCountReq
  /\ missed \/ CountIsSteady

\* Longer counts one more cycle, up to the cycles GetAngle requires.
LEMMA LongerBounds ==
  ASSUME NEW cycles \in 0 .. kStableCountReq
  PROVE  /\ Longer(cycles) \in 0 .. kStableCountReq
         /\ \A count \in 0 .. kStableCountReq - 1 :
              count <= cycles => count < Longer(cycles)
BY AimingAssumption DEF Longer

LEMMA SteadyInit == Init => SteadyInv
BY AimingAssumption DEF Init, SteadyInv, CountIsSteady

\* A cycle of GetAngle keeps the count honest.
LEMMA SteadyGetAngle == ASSUME SteadyInv, GetAngle PROVE SteadyInv'
<1>1. CASE Initialize
  BY <1>1, AimingAssumption DEF Initialize, SteadyInv, CountIsSteady
<1>2. CASE ExecuteHasTarget
  <2>1. stable_count_ \in 0 .. kStableCountReq - 1
    BY <1>2, AimingAssumption DEF ExecuteHasTarget, SteadyInv
  <2>2. CASE has_target_
    BY <1>2, <2>2 DEF ExecuteHasTarget, SteadyInv, CountIsSteady
  <2>3. CASE ~has_target_
    BY <1>2, <2>1, <2>3, LongerBounds
    DEF ExecuteHasTarget, SteadyInv, CountIsSteady, Close
  <2>4. QED
    BY <2>2, <2>3
<1>3. CASE ExecuteMoves
  <2>1. /\ stable_count_ \in 0 .. kStableCountReq - 1
        /\ UNCHANGED <<stable_count_, missed>>
        /\ pc' = "finish"
    BY <1>3, AimingAssumption DEF ExecuteMoves, SteadyInv
  <2>2. CASE Close(abs_error_')
    <3>1. steady' = Longer(steady)
      BY <1>3, <2>2 DEF ExecuteMoves
    <3>2. QED
      BY <1>3, <2>1, <3>1, LongerBounds DEF ExecuteMoves, SteadyInv, CountIsSteady
  <2>3. CASE ~Close(abs_error_')
    <3>1. steady' = 0
      BY <1>3, <2>3 DEF ExecuteMoves
    <3>2. CountIsSteady'
      BY <2>1, <2>3 DEF CountIsSteady, Close
    <3>3. QED
      BY <2>1, <3>1, <3>2, AimingAssumption DEF SteadyInv
  <2>4. QED
    BY <2>2, <2>3
<1>4. CASE IsFinishedNoTarget
  <2>1. /\ pc = "finish" /\ pc' = "execute"
        /\ UNCHANGED <<abs_error_, stable_count_, steady>>
    BY <1>4 DEF IsFinishedNoTarget
  <2>2. CASE missed \/ (~Close(abs_error_) /\ stable_count_ > 0)
    <3>1. missed'
      BY <1>4, <2>2 DEF IsFinishedNoTarget
    <3>2. QED
      BY <2>1, <3>1 DEF SteadyInv
  <2>3. CASE ~missed /\ (Close(abs_error_) \/ ~(stable_count_ > 0))
    BY <2>1, <2>3, AimingAssumption DEF SteadyInv, CountIsSteady
  <2>4. QED
    BY <2>2, <2>3
<1>5. CASE IsFinished
  <2>1. /\ stable_count_ \in 0 .. kStableCountReq - 1
        /\ stable_count_' = StableCount
        /\ pc' = IF stable_count_' = kStableCountReq THEN "off" ELSE "execute"
        /\ missed' = (missed /\ stable_count_' > 0)
        /\ steady' = steady
    BY <1>5, AimingAssumption DEF IsFinished, SteadyInv
  <2>2. CASE Close(abs_error_)
    <3>1. stable_count_' = stable_count_ + 1
      BY <2>1, <2>2 DEF StableCount
    <3>2. CASE missed
      <4>1. stable_count_' > 0
        BY <2>1, <3>1, AimingAssumption
      <4>2. missed'
        BY <2>1, <3>2, <4>1, Zenon
      <4>3. QED
        BY <2>1, <3>1, <4>2, AimingAssumption DEF SteadyInv
    <3>3. CASE ~missed
      <4>1. pc = "finish" /\ CountIsSteady
        BY <1>5, <3>3 DEF IsFinished, SteadyInv
      <4>2. stable_count_' <= steady'
        BY <2>1, <2>2, <3>1, <4>1, AimingAssumption DEF SteadyInv, CountIsSteady
      <4>3. QED
        BY <2>1, <3>1, <4>2, AimingAssumption DEF SteadyInv, CountIsSteady
    <3>4. QED
      BY <3>2, <3>3
  <2>3. CASE ~Close(abs_error_)
    BY <1>5, <2>1, <2>3, AimingAssumption
    DEF IsFinished, StableCount, SteadyInv, CountIsSteady
  <2>4. QED
    BY <2>2, <2>3
<1>6. QED
  BY <1>1, <1>2, <1>3, <1>4, <1>5 DEF GetAngle

LEMMA SteadyNext == ASSUME SteadyInv, [Next]_vars PROVE SteadyInv'
<1>1. CASE UNCHANGED getAngle
  BY <1>1 DEF getAngle, SteadyInv, CountIsSteady, Close
<1>2. CASE GetAngle
  BY <1>2, SteadyGetAngle
<1>3. CASE OtherCommand
  <2>1. CASE Interrupted
    BY <2>1 DEF Interrupted, SteadyInv, CountIsSteady
  <2>2. QED
    BY <1>1, <1>3, <2>1 DEF OtherCommand
<1>4. QED
  BY <1>1, <1>2, <1>3 DEF Next, ReportArrives, ElevationTurns, SetShooter, vars

\* A cycle that ends GetAngle by itself follows kStableCountReq steady ones.
LEMMA SteadyAtTheEnd ==
  ASSUME SteadyInv, [Next]_vars, pc = "finish", pc' = "off"
  PROVE  steady = kStableCountReq \/ missed
<1>1. IsFinished
  BY DEF Next, vars, getAngle, ReportArrives, ElevationTurns, GetAngle, SetShooter,
         OtherCommand, Interrupted, Initialize, ExecuteHasTarget, ExecuteMoves,
         IsFinishedNoTarget, IsFinished
<1>2. StableCount = kStableCountReq
  BY <1>1 DEF IsFinished
<1>3. Close(abs_error_) /\ stable_count_ + 1 = kStableCountReq
  BY <1>2, AimingAssumption DEF StableCount
<1>4. QED
  BY <1>3, AimingAssumption DEF SteadyInv, CountIsSteady

\* GetAngle ends by itself only after kStableCountReq cycles without a far error,
\* or after a far error it missed because its target was gone.
THEOREM SteadyTheorem == Spec => SteadyBeforeSolution
<1>1. Spec => []SteadyInv
  BY SteadyInit, SteadyNext, PTL DEF Spec
<1>2. SteadyInv /\ [Next]_vars
        => [pc = "finish" /\ pc' = "off" => steady = kStableCountReq \/ missed]_vars
  BY SteadyAtTheEnd
<1>3. QED
  BY <1>1, <1>2, PTL DEF Spec, SteadyBeforeSolution
=============================================================================
