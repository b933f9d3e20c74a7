CONSTANTS
  Wheels = {"rr"}
  Width = 2000
  Length = 1700
  Motions = {}
  Headings = {0}
  Drifts = {4608}
  Lags <- LagsReported
  LongestLag = 8
  MaxAngle = 360
  MaxTicks = 4608
  InUse = {"zero", "write", "health"}
  kCountReq = 1
  Strays = {7}
  MaxChecks = 1
  MaxWrites = 1
  MaxInt = 7
  kMinSpeed = 0
  kMaxSpeed = 7
  kSpeedDecrement = 6
  MeasuredSpeeds <- SpeedsMeasured
  Speeds = {}
  Amounts = {}
SPECIFICATION Spec
INVARIANTS
  CalibrationKept
  TicksNeverVolts
  ZeroingTurnsLessThanOnce
  OnlyTestedMotorRuns
  RampHeadsForZero
