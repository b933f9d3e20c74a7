CONSTANTS
  Wheels = {"rr", "lf", "rf", "lr"}
  Width = 2000
  Length = 1700
  Motions <- MotionsAsked
  Headings = {90}
  Drifts = {}
  Lags = {0}
  LongestLag = 0
  MaxAngle = 230
  MaxTicks = 4608
  InUse = {"brake", "disable_brake", "zero", "write", "drive_zero", "auton_drive",
           "auton_azimuth"}
  kCountReq = 1
  Strays = {7}
  MaxChecks = 0
  MaxWrites = 0
  MaxInt = 7
  kMinSpeed = 0
  kMaxSpeed = 7
  kSpeedDecrement = 6
  MeasuredSpeeds = {0}
  Speeds = {}
  Amounts = {}
SPECIFICATION Spec
INVARIANTS
  HistoryAgrees
  WheelsPushAsTold
  DriveFitsConfiguration
PROPERTIES
  MotionsTurnAQuarter
