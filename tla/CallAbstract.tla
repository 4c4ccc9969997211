------------------------------ MODULE CallAbstract ------------------------------
(***************************************************************************)
(* What the Call promises its clients and the network thread, without its  *)
(* SSRC maps, locks or deferred deletes:                                   *)
(*   - a stream is registered with its SSRCs (and RTX SSRC) and stays so   *)
(*     until it is unregistered, atomically;                               *)
(*   - an RTP packet goes to the receive stream whose config names its     *)
(*     SSRC, audio before video when the media type allows both;           *)
(*   - a receive stream is never unregistered while a packet is being      *)
(*     delivered to it, and a delivery that started completes.             *)
(***************************************************************************)
EXTENDS Integers, FiniteSets

CONSTANTS
  Ssrcs, AudioSendIds, AudioRecvIds, VideoSendIds, VideoRecvIds, None

MediaTypes == {"any", "audio", "video"}

VARIABLES
  streams,        \* registered stream -> [ssrcs, rtx]
  pending,        \* receive stream a packet is being delivered to, or None
  network_up      \* the last network state signalled

avars == <<streams, pending, network_up>>

\* The SSRCs a registered stream is reachable under.
Keys(h) == streams[h].ssrcs \cup (IF streams[h].rtx = None THEN {}
                                  ELSE {streams[h].rtx})

\* SSRCs taken by registered streams among ids.
Taken(ids) == UNION {Keys(h) : h \in DOMAIN streams \cap ids}

\* The receive streams among ids an SSRC reaches.
Reaching(ids, s) == {h \in DOMAIN streams \cap ids : s \in Keys(h)}

\* A stream registered with SSRCs S (and RTX r) that no stream of its own
\* kind holds.
Register(ids, h, S, r) ==
  /\ h \in ids \ DOMAIN streams
  /\ S # {}
  /\ S \cap Taken(ids) = {}
  /\ r = None \/ r \notin Taken(ids)
  /\ streams' = [x \in DOMAIN streams \cup {h} |->
                   IF x = h THEN [ssrcs |-> S, rtx |-> r] ELSE streams[x]]
  /\ UNCHANGED <<pending, network_up>>

Unregister(h) ==
  /\ h \in DOMAIN streams
  /\ h # pending
  /\ streams' = [x \in DOMAIN streams \ {h} |-> streams[x]]
  /\ UNCHANGED <<pending, network_up>>

\* The network thread looks an RTP packet up: audio first if the media
\* type allows it, then video; a miss delivers nothing.
Route(m, s) ==
  LET audio == IF m \in {"any", "audio"} THEN Reaching(AudioRecvIds, s) ELSE {}
      video == IF m \in {"any", "video"} THEN Reaching(VideoRecvIds, s) ELSE {}
  IN /\ pending = None
     /\ \/ /\ audio # {}
           /\ pending' \in audio
        \/ /\ audio = {} /\ video # {}
           /\ pending' \in video
        \/ /\ audio = {} /\ video = {}
           /\ UNCHANGED pending
     /\ UNCHANGED <<streams, network_up>>

Deliver ==
  /\ pending # None
  /\ pending' = None
  /\ UNCHANGED <<streams, network_up>>

SetNetwork(up) ==
  /\ network_up' = up
  /\ UNCHANGED <<streams, pending>>

Init ==
  /\ streams = [x \in {} |-> None]
  /\ pending = None
  /\ network_up = TRUE

Next ==
  \/ \E h \in AudioSendIds \cup AudioRecvIds, s \in Ssrcs :
       Register(IF h \in AudioSendIds THEN AudioSendIds ELSE AudioRecvIds,
                h, {s}, None)
  \/ \E h \in VideoSendIds, S \in SUBSET Ssrcs : Register(VideoSendIds, h, S, None)
  \/ \E h \in VideoRecvIds, s \in Ssrcs, r \in Ssrcs \cup {None} :
       Register(VideoRecvIds, h, {s}, r)
  \/ \E h \in DOMAIN streams : Unregister(h)
  \/ \E m \in MediaTypes, s \in Ssrcs : Route(m, s)
  \/ Deliver
  \/ \E up \in BOOLEAN : SetNetwork(up)

Spec == Init /\ [][Next]_avars /\ WF_avars(Deliver)

=============================================================================
