----------------------- MODULE MC_VideoSendLifecycle -----------------------
(* Two SSRCs, so that a stream may be simulcast and a later stream may    *)
(* reuse one SSRC of it; two stream addresses, so that one stream lives   *)
(* while another is destroyed; sequence numbers modulo 3, so that they    *)
(* wrap.                                                                   *)
EXTENDS VideoSendLifecycle

MC_Ssrcs == {1, 2}
MC_SendIds == {1, 2}
MC_RttValues == {0, 5}
=============================================================================
