-------------------------------- MODULE Aiming --------------------------------
(***************************************************************************)
(* Aiming the shooter at the boiler: the reports of the coprocessor, the   *)
(* fields of subsystem::Deadeye that its receiving thread writes and the   *)
(* command GetAngle reads, the elevation GetAngle moves, and the shooting  *)
(* solution it calculates from where the elevation ended up.               *)
(*                                                                         *)
(* HasTarget and GetCenterlineError take the mutex one at a time: between  *)
(* any two reads of GetAngle a report may come in.  Reports are of any     *)
(* image of either camera, for the link loses and reorders them.           *)
(***************************************************************************)
EXTENDS TargetFinder

CONSTANTS
  kMinSpeed, kMaxSpeed,         \* ticks GetAngle moves the elevation by
  kCloseEnough, kSlopeStart,    \* in pixels, both above the center and below
  kStableCountReq,
  kMinElevation, kMaxElevation, \* LimitElevation
  kElevationIncrement,
  UnsetErrors,                  \* what the error fields may hold at first
  RangeLookup,                  \* [elevations -> places in the range table]
  TableElevations               \* shooter_data, its column of elevations

ASSUME AimingAssumption ==
  /\ kMinSpeed \in Nat /\ kMaxSpeed \in Nat /\ kMinSpeed <= kMaxSpeed
  /\ kCloseEnough \in Nat /\ kSlopeStart \in Nat /\ kCloseEnough < kSlopeStart
  /\ kStableCountReq \in Nat \ {0}
  /\ kMinElevation \in Int /\ kMaxElevation \in Int
  /\ kMinElevation <= kMaxElevation

VARIABLES
  has_target_, azimuth_error_, centerline_error_,  \* subsystem::Deadeye
  elevation_setpoint_,  \* ShooterElevation
  elevation,            \* where the elevation's motor is
  solution,             \* the place in the table of the last solution, or NoRow
  pc,                   \* where GetAngle is
  abs_error_, stable_count_,  \* members of GetAngle, which is reused
  steady,    \* history: cycles of GetAngle since it read a far error
  missed     \* history: IsFinished missed a far error among those it counted

fields == <<has_target_, azimuth_error_, centerline_error_>>
getAngle == <<pc, abs_error_, stable_count_, steady, missed>>
vars == <<fields, elevation_setpoint_, elevation, solution, getAngle>>

shooter_data_size == Len(TableElevations)
NoRow == -1
Elevations == kMinElevation .. kMaxElevation

TypeOK ==
  /\ has_target_ \in BOOLEAN
  /\ elevation_setpoint_ \in Elevations
  /\ elevation \in Elevations
  /\ solution \in {NoRow} \cup 0 .. shooter_data_size
  /\ pc \in {"off", "execute", "error", "finish"}
  /\ stable_count_ \in 0 .. kStableCountReq
  /\ steady \in 0 .. kStableCountReq
  /\ missed \in BOOLEAN

Init ==
  /\ has_target_ = FALSE
  /\ azimuth_error_ \in UnsetErrors
  /\ centerline_error_ \in UnsetErrors
  /\ elevation_setpoint_ = kMinElevation
  /\ elevation = kMinElevation
  /\ solution = NoRow
  /\ pc = "off"
  /\ abs_error_ \in UnsetErrors
  /\ stable_count_ = 0
  /\ steady = 0
  /\ missed = FALSE

-----------------------------------------------------------------------------
(* The receiving thread *)

NoTargetArrives ==
  /\ has_target_' = FALSE
  /\ UNCHANGED <<azimuth_error_, centerline_error_>>

BoilerSolutionArrives(report) ==
  /\ has_target_' = TRUE
  /\ azimuth_error_' = report.azimuth
  /\ centerline_error_' = report.centerline

\* Its second number, the height, goes to a field only PlaceGear reads.
GearSolutionArrives(report) ==
  /\ has_target_' = TRUE
  /\ azimuth_error_' = report.azimuth
  /\ UNCHANGED centerline_error_

ReportArrives ==
  /\ \/ NoTargetArrives
     \/ \E report \in BoilerReports : BoilerSolutionArrives(report)
     \/ \E report \in GearReports : GearSolutionArrives(report)
  /\ UNCHANGED <<elevation_setpoint_, elevation, solution, getAngle>>

-----------------------------------------------------------------------------
(* ShooterElevation *)

LimitElevation(e) ==
  IF e < kMinElevation THEN kMinElevation
  ELSE IF e > kMaxElevation THEN kMaxElevation ELSE e

SetElevation(e) == elevation_setpoint_' = LimitElevation(e)

ElevationTurns ==
  /\ elevation # elevation_setpoint_
  /\ elevation' = IF elevation < elevation_setpoint_ THEN elevation + 1
                                                     ELSE elevation - 1
  /\ UNCHANGED <<fields, elevation_setpoint_, solution, getAngle>>

\* Deadeye::CalculateSolution.  The place just behind the table passes its
\* test; a failure leaves the solution before in place.
CalculateSolution ==
  LET row == RangeLookup[elevation]
  IN solution' = IF row \in 0 .. shooter_data_size THEN row ELSE solution

-----------------------------------------------------------------------------
(* GetAngle, one read or write of the shared fields at a time *)

\* Kept to what the property tells apart.
Longer(cycles) ==
  IF cycles < kStableCountReq THEN cycles + 1 ELSE kStableCountReq

Initialize ==
  /\ pc = "off"
  /\ pc' = "execute"
  /\ stable_count_' = 0
  /\ steady' = 0
  /\ missed' = FALSE
  /\ UNCHANGED <<fields, elevation_setpoint_, elevation, solution, abs_error_>>

ExecuteHasTarget ==
  /\ pc = "execute"
  /\ pc' = IF has_target_ THEN "error" ELSE "finish"
  /\ steady' = IF has_target_ THEN steady ELSE Longer(steady)
  /\ UNCHANGED <<fields, elevation_setpoint_, elevation, solution, abs_error_,
                 stable_count_, missed>>

Close(error) == error < kCloseEnough

Magnitude(i) == IF i < 0 THEN -i ELSE i

\* delta_ without its sign: the slope, in whole ticks.
Delta(error) ==
  IF error >= kSlopeStart THEN kMaxSpeed
  ELSE IF Close(error) THEN 0
  ELSE kMinSpeed + ((error - kCloseEnough) * (kMaxSpeed - kMinSpeed))
                     \div (kSlopeStart - kCloseEnough)

ExecuteMoves ==
  /\ pc = "error"
  /\ pc' = "finish"
  /\ abs_error_' = Magnitude(centerline_error_)
  /\ SetElevation(elevation_setpoint_ +
       IF centerline_error_ < 0 THEN -Delta(abs_error_') ELSE Delta(abs_error_'))
  /\ steady' = IF Close(abs_error_') THEN Longer(steady) ELSE 0
  /\ UNCHANGED <<fields, elevation, solution, stable_count_, missed>>

\* Mutant: an error that is not close does not start the count again.
StableCountGoesOn ==
  IF Close(abs_error_) THEN stable_count_ + 1 ELSE stable_count_

StableCount == IF Close(abs_error_) THEN stable_count_ + 1 ELSE 0

\* Without a target now, IsFinished looks at nothing else.
IsFinishedNoTarget ==
  /\ pc = "finish"
  /\ ~has_target_
  /\ pc' = "execute"
  /\ missed' = (missed \/ (~Close(abs_error_) /\ stable_count_ > 0))
  /\ UNCHANGED <<fields, elevation_setpoint_, elevation, solution, abs_error_,
                 stable_count_, steady>>

IsFinished ==
  /\ pc = "finish"
  /\ has_target_
  /\ stable_count_' = StableCount
  /\ missed' = (missed /\ stable_count_' > 0)
  /\ IF stable_count_' = kStableCountReq
     THEN pc' = "off" /\ CalculateSolution
     ELSE pc' = "execute" /\ UNCHANGED solution
  /\ UNCHANGED <<fields, elevation_setpoint_, elevation, abs_error_, steady>>

\* Interrupted calls End: a solution is calculated from wherever the aim is.
Interrupted ==
  /\ pc = "execute"
  /\ pc' = "off"
  /\ CalculateSolution
  /\ UNCHANGED <<abs_error_, stable_count_, steady, missed>>

GetAngle ==
  \/ Initialize
  \/ ExecuteHasTarget
  \/ ExecuteMoves
  \/ IsFinishedNoTarget
  \/ IsFinished

-----------------------------------------------------------------------------
(* The other commands that set the elevation *)

\* SetElevation aims with the solution: its row of the table, or whatever lies
\* behind the table or was in the field before there was a solution.
SolutionElevations ==
  IF solution \in 0 .. shooter_data_size - 1 THEN {TableElevations[solution + 1]}
                                             ELSE Elevations

\* SetShooterElevation, IncrementShooterElevation, DecrementShooterElevation
\* and SetElevation require the elevation: a GetAngle that runs is interrupted.
OtherCommand ==
  /\ \E e \in Elevations \cup {elevation_setpoint_ + kElevationIncrement,
                               elevation_setpoint_ - kElevationIncrement}
                         \cup SolutionElevations : SetElevation(e)
  /\ Interrupted \/ (pc = "off" /\ UNCHANGED <<solution, getAngle>>)
  /\ UNCHANGED <<fields, elevation>>

\* SetShooter writes the elevation without requiring it.
SetShooter ==
  /\ pc \in {"off", "execute"}
  /\ \E e \in Elevations : SetElevation(e)
  /\ UNCHANGED <<fields, elevation, solution, getAngle>>

Next ==
  \/ ReportArrives
  \/ ElevationTurns
  \/ GetAngle
  \/ OtherCommand
  \/ SetShooter

Spec == Init /\ [][Next]_vars

-----------------------------------------------------------------------------
(* Properties *)

\* What the robot steers by is measured on the right targets: no report of the
\* boiler camera arrives but with the errors of the pair of stripes in its image,
\* and none of the gear camera but with that of the right tape, whatever other
\* contours an image has.  Speckled images are the exception.
ErrorsOfTheTargets ==
  [][/\ \A report \in OffPair : ~BoilerSolutionArrives(report)
     /\ \A report \in OffTape : ~GearSolutionArrives(report)]_vars

\* GetAngle ends by itself only after kStableCountReq cycles in which it read no
\* error far from the center, whatever was read before, by an earlier run of the
\* same command object, or lost between two reads.  The exception: a far error
\* whose target is gone when IsFinished asks is not noticed, and the cycles
\* counted before it go on counting.
SteadyBeforeSolution ==
  [][pc = "finish" /\ pc' = "off" => steady = kStableCountReq \/ missed]_vars
=============================================================================
