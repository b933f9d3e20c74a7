CONSTANTS
  ZeroCountReq = 3
  Overrun = TRUE
SPECIFICATION FairSpec
INVARIANTS
  ReleaseStopsWinch
  CapturedRopeIsHeld
  FinishNeedsCapture
PROPERTIES
  WinchComesToRest
