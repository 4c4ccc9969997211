\* Suspended RTP state carried from one video send stream to the next.
CONSTANTS
  Ssrcs <- MC_Ssrcs
  SendIds <- MC_SendIds
  SeqMod = 3
  RttValues <- MC_RttValues
  DchecksOn = TRUE
  None = None
SPECIFICATION FairSpec
INVARIANT TypeOK
INVARIANT StatsReadLiveStreams
PROPERTY SequenceContinuity
PROPERTY DestroyCompletes
