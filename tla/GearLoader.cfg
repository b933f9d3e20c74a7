CONSTANTS
  GearButtons = {"trigger", "shoulder", "corner", "back"}
  PivotMode = "position"
  Overrun = FALSE
SPECIFICATION Spec
INVARIANTS
  MotorRunsUnderItsCommand
  SwitchStopsMotor
  ReleasedClampIsShutAgain
  ReleaseStopsClearing
PROPERTIES
  PivotsClampShut
