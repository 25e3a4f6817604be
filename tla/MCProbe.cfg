CONSTANTS
  Steps = 2
  PerStep = 2
  Budget = 90
  MaxGen = 3
  MaxEpoch = 2
  MaxReports = 2

SPECIFICATION Spec
INVARIANTS
  CreditsDelivered
PROPERTY FloorBacked
