CONSTANTS
  AutonSequences = {"Sequence01", "Sequence03", "Sequence04", "Sequence06",
                    "Sequence08", "Sequence09", "Sequence0A", "Sequence0D"}
  ZeroLag = 3
SPECIFICATION Spec
INVARIANTS
  SetpointHasDriver
  SetpointFitsSettings
  GyroOffOnlyPlacing
  PositionReadFresh
