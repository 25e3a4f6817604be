CONSTANTS
  Paths <- ThreePaths
  MaxChanges = 1
  MaxNoise = 1

SPECIFICATION AdaptSpec
INVARIANTS
  AdaptTypeOK
  WithinFloor
PROPERTIES
  OneStepUp
  ProfileSettles
  TargetSettles
