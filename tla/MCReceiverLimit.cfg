SPECIFICATION Spec
CONSTANTS
  Sessions = {s1, s2, s3}
  MaxStreams = 2
  HistoryCap = 3
  Window = 2
  Counters <- CountersUsed
  KindOf <- Kinds
  MaxEpoch = 1
  MaxFeedback = 1
INVARIANT ActiveBounded
