SPECIFICATION Spec
CONSTANTS
  Receivers = {r1, r2}
  Window = 2
  MaxEpoch = 2
  MaxCounter = 3
INVARIANT NextSealFresh
