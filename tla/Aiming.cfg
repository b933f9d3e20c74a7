\* Aiming at the boiler: any image of the camera, any order of reports and commands.
SPECIFICATION Spec
CONSTANTS
  Images <- MCImages
  min_arc_length_ = 20
  aspect_ratio_min_ = 2
  aspect_ratio_max_ = 4
  azimuth_offset_ = 40
  MinArea = 300
  Columns = 80
  Rows = 40
  StrayRects <- MCStrayRects
  kMinSpeed = 1
  kMaxSpeed = 3
  kCloseEnough = 3
  kSlopeStart = 12
  kStableCountReq = 3
  kMinElevation = 0
  kMaxElevation = 3
  kElevationIncrement = 1
  UnsetErrors = {0, 25}
  RangeLookup <- MCRangeLookup
  TableElevations <- MCTableElevations
PROPERTIES
  ErrorsOfTheTargets
  SteadyBeforeSolution
