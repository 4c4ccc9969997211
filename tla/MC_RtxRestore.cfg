CONSTANTS
  HeaderLengths <- MC_HeaderLengths
  Paddings <- MC_Paddings
  MaxLength = 30
  RestoredSize = 24
  RtxHeaderSize = 2
SPECIFICATION Spec
INVARIANT RestoreWithinBuffer
INVARIANT MatchesReference
