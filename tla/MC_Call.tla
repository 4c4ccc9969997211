------------------------------ MODULE MC_Call -------------------------------
(* Instantiates Call for TLC: stream addresses and SSRCs as small integers *)
(* (their order is the std::map / std::set iteration order).              *)
EXTENDS CallRefinement

MC_Ssrcs == {1, 2}
MC_Groups == {"", "g"}
MC_NoGroupOnly == {""}
MC_NoIds == {}

\* Two audio and two video receive streams: enough for a group with two
\* anchor candidates and two video streams competing for the one pairing.
MC_AudioRecvIds == {21, 22}
MC_VideoRecvIds == {41, 42}

\* One stream of every kind: the network-state broadcast and send side.
MC_AudioSendId == {11}
MC_AudioRecvId == {21}
MC_VideoSendId == {31}
MC_VideoRecvId == {41}
=============================================================================
