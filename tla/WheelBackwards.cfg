CONSTANTS
  MaxInt = 32767
  kMinSpeed = 350
  kMaxSpeed = 900
  kSpeedDecrement = 6
  MeasuredSpeeds <- SpeedsMeasured
  Speeds = {0, 400, 440, 900}
  Amounts = {1, 5}
SPECIFICATION WheelSpec
INVARIANTS
  RampSlowsDown
