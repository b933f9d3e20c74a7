CONSTANTS
  ShooterButtons = {"auto", "A"}
  Overrun = FALSE
SPECIFICATION FairSpec
INVARIANTS
  ReleaseStopsShooter
  OneShotAtATime
PROPERTIES
  FeedsWithSolution
  ShooterComesToRest
