\* One stream of each kind: network-state broadcast and the send side.
CONSTANTS
  Ssrcs <- MC_Ssrcs
  Groups <- MC_NoGroupOnly
  NoGroup = ""
  AudioSendIds <- MC_AudioSendId
  AudioRecvIds <- MC_AudioRecvId
  VideoSendIds <- MC_VideoSendId
  VideoRecvIds <- MC_VideoRecvId
  HasVoiceEngine = FALSE
  RtxCollisions = FALSE
  None = None
SPECIFICATION Spec
INVARIANT NetworkStateAllStreams
