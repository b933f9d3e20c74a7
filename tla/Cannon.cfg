CONSTANT
  NumBarrels = 8
SPECIFICATION CannonFairSpec
INVARIANTS
  FiringBarrelWillBeClosed
PROPERTIES
  NoBarrelTwice
  SolenoidCloses
