CONSTANTS
  GearButtons = {"shoulder", "corner"}
  PivotMode = "position"
  Overrun = FALSE
SPECIFICATION Spec
INVARIANTS
  ZeroedInDownPosition
