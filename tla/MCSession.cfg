SPECIFICATION Spec
CONSTANTS
  Receivers = {r1}
  Window = 2
  MaxEpoch = 3
  MaxCounter = 3
INVARIANTS
  SealsUnique
  NextSealFresh
  NextFeedbackFresh
