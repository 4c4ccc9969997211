\* Receive side: registry, sync pairing, DeliverRtp against Destroy*.
CONSTANTS
  Ssrcs <- MC_Ssrcs
  Groups <- MC_Groups
  NoGroup = ""
  AudioSendIds <- MC_NoIds
  AudioRecvIds <- MC_AudioRecvIds
  VideoSendIds <- MC_NoIds
  VideoRecvIds <- MC_VideoRecvIds
  HasVoiceEngine = TRUE
  RtxCollisions = FALSE
  None = None
SPECIFICATION Spec
INVARIANT RegistryConsistent
INVARIANT NoUseAfterFree
INVARIANT SyncBinding
