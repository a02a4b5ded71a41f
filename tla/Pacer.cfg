SPECIFICATION FairSpec
CONSTANTS
  Modes <- MCModes
  HistoryLen = 1
  ResetThreshold = 2
  CodecDepth = 1
  MaxUnits = 6
INVARIANTS
  PacerInv
  InOrder
  FramesBounded
PROPERTIES
  QueuesDrain
  DecoderGoes
