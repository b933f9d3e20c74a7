CONSTANTS
  TalonIDs = {0}
  Pins = {0}
  Slots = {1}
  Values = {0, 1}
  Entries = {7, 8, 14, 23, 25}
  MaxSelected = 1
SPECIFICATION FairSpec
INVARIANTS
  EveryObjectListedOnce
  BoundToItsDevice
PROPERTIES
  ListCatchesUp
  EntrySetsWhatItNames
CHECK_DEADLOCK FALSE
