SPECIFICATION PlayoutSpec
CONSTANTS
  Window = 3
  MaxSlots = 2
  PacketFrames = 2
  Seqs <- SeqsUpToMax
  Targets <- AllTargets
  PullSizes <- SomePulls
INVARIANTS
  CursorConsistent
  LatencyBounded
  HeardOnce
  HeldIsUnheard
PROPERTIES
  PlayoutNeverRewinds
  ImplementsBuffer
