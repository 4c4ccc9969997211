\* Release build: a second stream takes over an SSRC a live stream sends on.
CONSTANTS
  Ssrcs <- MC_Ssrcs
  SendIds <- MC_SendIds
  SeqMod = 3
  RttValues <- MC_RttValues
  DchecksOn = FALSE
  None = None
SPECIFICATION Spec
PROPERTY SequenceContinuity

\* A destroy whose stream lost its SSRC to another fails the RTC_CHECK of
\* call.cc:330 and the process aborts: the behaviour stops there.
CHECK_DEADLOCK FALSE
