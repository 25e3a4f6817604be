SPECIFICATION Spec
CONSTANTS
  Sessions = {s1, s2, s3, s4}
  MaxStreams = 2
  HistoryCap = 3
  Window = 2
  Counters <- CountersUsed
  KindOf <- Kinds
  MaxEpoch = 2
  MaxFeedback = 1
CONSTRAINT FewApplied
SYMMETRY SessionSymmetry
INVARIANTS
  CapacityHeld
  StreamsBacked
  AppliedOnce
  FeedbackOnce
PROPERTY NoEviction
