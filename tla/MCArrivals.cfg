SPECIFICATION ArrivalSpec
CONSTANTS
  Window = 5
  Seqs <- SeqsUpToMax
  Reorder = 2
  Slack = 2
  AudioSeqs <- Audio
  AudioNumber <- Numbers
INVARIANTS
  AtMostOnce
  BitmapExact
  ReportExact
PROPERTIES
  ImplementsReference
  ReorderForgiven
  CountedOnce
