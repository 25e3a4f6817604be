SPECIFICATION DevicesSpec
CONSTANTS
  Ends <- Three
  Picks <- DefaultOrIndex
  Default = Default
  None = None
  Nameless = Nameless
  Names <- TwoNames
  Grace = 5
  Patience = 3
  Horizon = 6
INVARIANTS
  PlaybackReturns
  CaptureReturns
PROPERTY StreamKept
