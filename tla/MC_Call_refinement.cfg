\* One audio and two video receive streams, one send stream of each kind.
CONSTANTS
  Ssrcs <- MC_Ssrcs
  Groups <- MC_NoGroupOnly
  NoGroup = ""
  AudioSendIds <- MC_AudioSendId
  AudioRecvIds <- MC_AudioRecvId
  VideoSendIds <- MC_VideoSendId
  VideoRecvIds <- MC_VideoRecvIds
  HasVoiceEngine = FALSE
  RtxCollisions = FALSE
  None = None
SPECIFICATION FairSpec
PROPERTY AbstractSpec
INVARIANT RegistryConsistent NetworkStateConsistent
PROPERTY ReceiveWriterProceeds
