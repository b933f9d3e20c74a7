CONSTANTS
  BoilerFrames = {1, 2}
  GearFrames = {1}
  ConfigMode = "boiler"
SPECIFICATION FairSpec
INVARIANTS
  SolutionIsOneFrame
  CaptureMatchesMode
PROPERTIES
  RobotAimsAtSightings
  BeliefFollowsMode
