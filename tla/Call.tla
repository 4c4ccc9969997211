-------------------------------- MODULE Call --------------------------------
(***************************************************************************)
(* webrtc::internal::Call (src/webrtc/call/call.cc): the stream registry,  *)
(* sync-group resolution, network-state broadcast and packet dispatch.     *)
(*                                                                         *)
(* Two threads.  The configuration thread runs Create*/Destroy*/           *)
(* SignalNetworkState one call at a time (thread checker).  The network    *)
(* thread runs DeliverPacket.  Every configuration call that write-locks   *)
(* |receive_crit_| or |send_crit_| is one atomic step; DeliverRtp holds    *)
(* the read lock of |receive_crit_| from the SSRC lookup to the end of the *)
(* stream's DeliverRtp, so it is split into a lookup and a delivery step.  *)
(* A Destroy* call erases under the write lock and then, after unlocking,  *)
(* deletes the stream: a separate step (ReleaseStream).                    *)
(* A receive-side Create*/Destroy* that finds the read lock held waits     *)
(* (WaitReceiveWrite) until the network thread releases it; the lock is    *)
(* writer-preferring (spec 5), so no new reader enters while it waits.     *)
(*                                                                         *)
(* A stream handle is the object's address: handles are integers, so that  *)
(* std::set<Stream*> iterates them in < order, and a freed handle may be   *)
(* reused by a later Create*.                                              *)
(***************************************************************************)
EXTENDS Integers, FiniteSets, FiniteSetsExt, Functions, TLC

CONSTANTS
  Ssrcs,          \* SSRC values (integers: std::map iterates them in < order)
  Groups,         \* sync group names, NoGroup among them
  NoGroup,        \* the empty sync_group string
  AudioSendIds,   \* addresses available to AudioSendStream objects
  AudioRecvIds,   \* ... to AudioReceiveStream objects
  VideoSendIds,   \* ... to VideoSendStream objects
  VideoRecvIds,   \* ... to VideoReceiveStream objects
  HasVoiceEngine, \* config_.voice_engine != nullptr
  RtxCollisions,  \* may a client configure an RTX SSRC that is already indexed?
  None            \* nullptr / "no channel" (-1) / no RTX SSRC

ASSUME NoGroup \in Groups
ASSUME Ssrcs \subseteq Int /\ None \notin Ssrcs
ASSUME LET Ids == <<AudioSendIds, AudioRecvIds, VideoSendIds, VideoRecvIds>>
       IN /\ \A i \in 1..4 : Ids[i] \subseteq Int
          /\ \A i, j \in 1..4 : i # j => Ids[i] \cap Ids[j] = {}
ASSUME HasVoiceEngine \in BOOLEAN /\ RtxCollisions \in BOOLEAN

AllIds == AudioSendIds \cup AudioRecvIds \cup VideoSendIds \cup VideoRecvIds

\* The streams that take SignalNetworkState from the Call (call.cc:455-477).
SignalledIds == AudioSendIds \cup VideoSendIds \cup VideoRecvIds

MediaTypes == {"any", "audio", "video"}

(***************************************************************************)
(* A packet is abstracted to what DeliverPacket looks at: RtpHeaderParser  *)
(* ::IsRtcp, the length check against the 12-byte RTP header, and the SSRC *)
(* read big-endian at offset 8.                                            *)
(***************************************************************************)
Packets == [kind : {"rtcp"}] \cup [kind : {"runt"}]
             \cup [kind : {"rtp"}, ssrc : Ssrcs]

VARIABLES
  alive,                 \* the Call object exists (~Call has not run)
  network_enabled,       \* network_enabled_
  audio_send_ssrcs,      \* audio_send_ssrcs_      : SSRC -> AudioSendStream*
  video_send_ssrcs,      \* video_send_ssrcs_      : SSRC -> VideoSendStream*
  video_send_streams,    \* video_send_streams_
  audio_receive_ssrcs,   \* audio_receive_ssrcs_   : SSRC -> AudioReceiveStream*
  video_receive_ssrcs,   \* video_receive_ssrcs_   : SSRC -> VideoReceiveStream*
  video_receive_streams, \* video_receive_streams_
  sync_stream_mapping,   \* sync_stream_mapping_   : group -> AudioReceiveStream*
  config,                \* allocated stream -> its config() (ssrcs, rtx, group)
  net_state,             \* allocated stream -> last network state it was given
  sync_channel,          \* video receive stream -> audio stream it syncs to
  deleting,              \* stream erased by Destroy* and not yet deleted
  net,                   \* the network thread inside DeliverPacket
  status,                \* last DeliveryStatus returned by DeliverPacket
  recv_writer            \* the configuration thread waits for the write
                         \* lock of receive_crit_

vars == <<alive, network_enabled, audio_send_ssrcs, video_send_ssrcs,
          video_send_streams, audio_receive_ssrcs, video_receive_ssrcs,
          video_receive_streams, sync_stream_mapping, config, net_state,
          sync_channel, deleting, net, status, recv_writer>>

sendVars == <<audio_send_ssrcs, video_send_ssrcs, video_send_streams>>
recvVars == <<audio_receive_ssrcs, video_receive_ssrcs, video_receive_streams,
              sync_stream_mapping, sync_channel>>

-----------------------------------------------------------------------------
(* Helpers                                                                 *)

\* Removes key k (or the keys in K) from a function with a dynamic domain.
Erase(f, K) == Restrict(f, DOMAIN f \ K)

\* The state a stream is given: SignalNetworkState(kNetworkUp/kNetworkDown).
NetState(enabled) == IF enabled THEN "up" ELSE "down"

\* Streams the client holds: allocated and not being destroyed.
Live(ids) == (DOMAIN config \cap ids) \ {deleting}

\* The configuration thread is between two calls on a live Call.
ConfigIdle == alive /\ deleting = None

\* The network thread holds the read lock of receive_crit_.
RecvReadLocked == net.locked

\* Stream config records: primary SSRCs, first RTX SSRC, sync group.
Config(ssrcs, rtx, g) == [ssrcs |-> ssrcs, rtx |-> rtx, group |-> g]

-----------------------------------------------------------------------------
(***************************************************************************)
(* ConfigureSync(sync_group), call.cc:484-530.  Run by its callers after   *)
(* their own registry update: |ars|, |vrs| and |cfg| are the audio SSRC    *)
(* map, the video stream set and the configs as the caller left them,     *)
(* |mapping| and |chan| sync_stream_mapping_ and the video streams' sync   *)
(* channels.                                                               *)
(***************************************************************************)
\* The audio stream a group syncs to: the recorded one, else the first
\* stream of the group in audio_receive_ssrcs_ (SSRC) order.
SyncAnchor(g, ars, cfg, mapping) ==
  IF g \in DOMAIN mapping THEN mapping[g]
  ELSE LET cand == {s \in DOMAIN ars : cfg[ars[s]].group = g}
       IN IF cand = {} THEN None ELSE ars[Min(cand)]

\* SetSyncChannel argument for video stream v: only the first stream of the
\* group in video_receive_streams_ order is paired with the audio anchor.
SyncChannelOf(v, videos, anchor) ==
  IF anchor # None /\ v = Min(videos) THEN anchor ELSE None

ConfigureSync(g, ars, vrs, cfg, mapping, chan) ==
  IF ~HasVoiceEngine \/ g = NoGroup
  THEN /\ sync_stream_mapping' = mapping
       /\ sync_channel' = chan
  ELSE LET anchor == SyncAnchor(g, ars, cfg, mapping)
           videos == {v \in vrs : cfg[v].group = g}
       IN /\ sync_stream_mapping' =
               IF anchor = None THEN mapping ELSE (g :> anchor) @@ mapping
          /\ sync_channel' =
               [v \in DOMAIN chan |->
                  IF v \in videos THEN SyncChannelOf(v, videos, anchor)
                                  ELSE chan[v]]

-----------------------------------------------------------------------------
(* Configuration thread                                                    *)

\* call.cc:202-218.  RTC_DCHECK: the SSRC is not yet in audio_send_ssrcs_.
CreateAudioSendStream(h, s) ==
  /\ ConfigIdle
  /\ h \in AudioSendIds \ DOMAIN config
  /\ s \notin DOMAIN audio_send_ssrcs
  /\ config' = (h :> Config({s}, None, NoGroup)) @@ config
  /\ audio_send_ssrcs' = (s :> h) @@ audio_send_ssrcs
  /\ net_state' = (h :> NetState(network_enabled)) @@ net_state
  /\ UNCHANGED <<alive, network_enabled, video_send_ssrcs, video_send_streams,
                 recvVars, deleting, net, status>>

\* call.cc:220-236: Stop, erase the one entry, then delete.
DestroyAudioSendStream(h) ==
  /\ ConfigIdle
  /\ h \in Live(AudioSendIds)
  /\ audio_send_ssrcs' = Erase(audio_send_ssrcs, config[h].ssrcs)
  /\ deleting' = h
  /\ UNCHANGED <<alive, network_enabled, video_send_ssrcs, video_send_streams,
                 recvVars, config, net_state, net, status>>

\* call.cc:238-253.  Takes only the receive write lock.
CreateAudioReceiveStream(h, s, g) ==
  /\ ConfigIdle
  /\ ~RecvReadLocked
  /\ h \in AudioRecvIds \ DOMAIN config
  /\ s \notin DOMAIN audio_receive_ssrcs
  /\ config' = (h :> Config({s}, None, g)) @@ config
  /\ audio_receive_ssrcs' = (s :> h) @@ audio_receive_ssrcs
  /\ net_state' = (h :> "up") @@ net_state
  /\ ConfigureSync(g, audio_receive_ssrcs', video_receive_streams, config',
                   sync_stream_mapping, sync_channel)
  /\ UNCHANGED <<alive, network_enabled, sendVars, video_receive_ssrcs,
                 video_receive_streams, deleting, net, status>>

\* Mutant: the anchor entry is erased but the group is not re-resolved, so
\* its video stream stays paired with the deleted audio stream.
DestroyAudioReceiveStreamNoResync(h) ==
  LET g == config[h].group
  IN /\ ConfigIdle
     /\ ~RecvReadLocked
     /\ h \in Live(AudioRecvIds)
     /\ audio_receive_ssrcs' = Erase(audio_receive_ssrcs, config[h].ssrcs)
     /\ sync_stream_mapping' =
          IF g \in DOMAIN sync_stream_mapping /\ sync_stream_mapping[g] = h
            THEN Erase(sync_stream_mapping, {g}) ELSE sync_stream_mapping
     /\ deleting' = h
     /\ UNCHANGED <<alive, network_enabled, sendVars, video_receive_ssrcs,
                    video_receive_streams, sync_channel, config, net_state,
                    net, status>>

\* call.cc:255-276.  Re-resolves the group only if h was its anchor.
DestroyAudioReceiveStream(h) ==
  LET g == config[h].group
      wasAnchor == g \in DOMAIN sync_stream_mapping
                   /\ sync_stream_mapping[g] = h
  IN /\ ConfigIdle
     /\ ~RecvReadLocked
     /\ h \in Live(AudioRecvIds)
     /\ audio_receive_ssrcs' = Erase(audio_receive_ssrcs, config[h].ssrcs)
     /\ IF wasAnchor
          THEN ConfigureSync(g, audio_receive_ssrcs', video_receive_streams,
                             config, Erase(sync_stream_mapping, {g}),
                             sync_channel)
          ELSE UNCHANGED <<sync_stream_mapping, sync_channel>>
     /\ deleting' = h
     /\ UNCHANGED <<alive, network_enabled, sendVars, video_receive_ssrcs,
                    video_receive_streams, config, net_state, net, status>>

\* call.cc:278-307.  RTC_DCHECK: none of the SSRCs is in video_send_ssrcs_.
CreateVideoSendStream(h, S) ==
  /\ ConfigIdle
  /\ h \in VideoSendIds \ DOMAIN config
  /\ S \cap DOMAIN video_send_ssrcs = {}
  /\ config' = (h :> Config(S, None, NoGroup)) @@ config
  /\ video_send_ssrcs' = [s \in S |-> h] @@ video_send_ssrcs
  /\ video_send_streams' = video_send_streams \cup {h}
  /\ net_state' = (h :> NetState(network_enabled)) @@ net_state
  /\ UNCHANGED <<alive, network_enabled, audio_send_ssrcs, recvVars, deleting,
                 net, status>>

\* Mutant: the erase loop stops after the first SSRC of a simulcast stream.
DestroyVideoSendStreamFirstOnly(h) ==
  LET keys == {s \in DOMAIN video_send_ssrcs : video_send_ssrcs[s] = h}
  IN /\ ConfigIdle
     /\ h \in Live(VideoSendIds)
     /\ keys # {}
     /\ video_send_ssrcs' = Erase(video_send_ssrcs, {Min(keys)})
     /\ video_send_streams' = video_send_streams \ {h}
     /\ deleting' = h
     /\ UNCHANGED <<alive, network_enabled, audio_send_ssrcs, recvVars, config,
                    net_state, net, status>>

\* call.cc:309-341: erase every SSRC that maps to the stream, then the set
\* entry; RTC_CHECK that some entry was found.
DestroyVideoSendStream(h) ==
  LET keys == {s \in DOMAIN video_send_ssrcs : video_send_ssrcs[s] = h}
  IN /\ ConfigIdle
     /\ h \in Live(VideoSendIds)
     /\ keys # {}
     /\ video_send_ssrcs' = Erase(video_send_ssrcs, keys)
     /\ video_send_streams' = video_send_streams \ {h}
     /\ deleting' = h
     /\ UNCHANGED <<alive, network_enabled, audio_send_ssrcs, recvVars, config,
                    net_state, net, status>>

\* The RTX SSRCs a client may configure: any, or only unindexed ones.
RtxChoices ==
  {None} \cup (IF RtxCollisions THEN Ssrcs
               ELSE Ssrcs \ DOMAIN video_receive_ssrcs)

\* Mutant: the stream is not told kNetworkDown when created while the
\* network is down.
CreateVideoReceiveStreamNoNotify(h, s, r, g) ==
  /\ ConfigIdle
  /\ ~RecvReadLocked
  /\ h \in VideoRecvIds \ DOMAIN config
  /\ s \notin DOMAIN video_receive_ssrcs
  /\ r \in RtxChoices
  /\ config' = (h :> Config({s}, r, g)) @@ config
  /\ video_receive_ssrcs' =
       IF r = None THEN (s :> h) @@ video_receive_ssrcs
                   ELSE (r :> h) @@ (s :> h) @@ video_receive_ssrcs
  /\ video_receive_streams' = video_receive_streams \cup {h}
  /\ ConfigureSync(g, audio_receive_ssrcs, video_receive_streams', config',
                   sync_stream_mapping, (h :> None) @@ sync_channel)
  /\ net_state' = (h :> "up") @@ net_state
  /\ UNCHANGED <<alive, network_enabled, sendVars, audio_receive_ssrcs, deleting,
                 net, status>>

\* call.cc:343-374.  RTC_DCHECK on the primary SSRC only; the first RTX
\* SSRC is inserted unchecked and overwrites an existing entry.
CreateVideoReceiveStream(h, s, r, g) ==
  /\ ConfigIdle
  /\ ~RecvReadLocked
  /\ h \in VideoRecvIds \ DOMAIN config
  /\ s \notin DOMAIN video_receive_ssrcs
  /\ r \in RtxChoices
  /\ config' = (h :> Config({s}, r, g)) @@ config
  /\ video_receive_ssrcs' =
       IF r = None THEN (s :> h) @@ video_receive_ssrcs
                   ELSE (r :> h) @@ (s :> h) @@ video_receive_ssrcs
  /\ video_receive_streams' = video_receive_streams \cup {h}
  /\ ConfigureSync(g, audio_receive_ssrcs, video_receive_streams', config',
                   sync_stream_mapping, (h :> None) @@ sync_channel)
  /\ net_state' = (h :> NetState(network_enabled)) @@ net_state
  /\ UNCHANGED <<alive, network_enabled, sendVars, audio_receive_ssrcs, deleting,
                 net, status>>

\* Mutant: only the primary SSRC is erased; the RTX entry is left dangling.
DestroyVideoReceiveStreamPrimaryOnly(h) ==
  /\ ConfigIdle
  /\ ~RecvReadLocked
  /\ h \in Live(VideoRecvIds)
  /\ video_receive_ssrcs' = Erase(video_receive_ssrcs, config[h].ssrcs)
  /\ video_receive_streams' = video_receive_streams \ {h}
  /\ ConfigureSync(config[h].group, audio_receive_ssrcs,
                   video_receive_streams', config, sync_stream_mapping,
                   sync_channel)
  /\ deleting' = h
  /\ UNCHANGED <<alive, network_enabled, sendVars, audio_receive_ssrcs, config,
                 net_state, net, status>>

\* call.cc:376-402: erase the one or two SSRCs that map to the stream,
\* RTC_CHECK that one was found, re-resolve its group.
DestroyVideoReceiveStream(h) ==
  LET keys == {s \in DOMAIN video_receive_ssrcs : video_receive_ssrcs[s] = h}
  IN /\ ConfigIdle
     /\ ~RecvReadLocked
     /\ h \in Live(VideoRecvIds)
     /\ keys # {}
     /\ video_receive_ssrcs' = Erase(video_receive_ssrcs, keys)
     /\ video_receive_streams' = video_receive_streams \ {h}
     /\ ConfigureSync(config[h].group, audio_receive_ssrcs,
                      video_receive_streams', config, sync_stream_mapping,
                      sync_channel)
     /\ deleting' = h
     /\ UNCHANGED <<alive, network_enabled, sendVars, audio_receive_ssrcs, config,
                    net_state, net, status>>

\* The `delete` that ends every Destroy* call, after the write lock is
\* released (call.cc:235, 275, 340, 401).
ReleaseStream ==
  /\ deleting # None
  /\ config' = Erase(config, {deleting})
  /\ net_state' = Erase(net_state, {deleting})
  /\ sync_channel' = Erase(sync_channel, {deleting})
  /\ deleting' = None
  /\ UNCHANGED <<alive, network_enabled, sendVars, audio_receive_ssrcs,
                 video_receive_ssrcs, video_receive_streams,
                 sync_stream_mapping, net, status>>

\* call.cc:455-477: under network_enabled_crit_, set the flag and signal
\* every stream reachable through the three SSRC maps.
SignalNetworkState(st) ==
  LET reached == Range(audio_send_ssrcs) \cup Range(video_send_ssrcs)
                   \cup Range(video_receive_ssrcs)
  IN /\ ConfigIdle
     /\ network_enabled' = (st = "up")
     /\ net_state' = [h \in DOMAIN net_state |->
                        IF h \in reached THEN st ELSE net_state[h]]
     /\ UNCHANGED <<alive, sendVars, recvVars, config, deleting, net, status>>

-----------------------------------------------------------------------------
(* Network thread: DeliverPacket, call.cc:532-612                          *)

NetIdle == [pc |-> "idle", media |-> "any", target |-> None,
            locked |-> FALSE, ok |-> FALSE]

\* A runt RTP packet is rejected before any lookup (call.cc:568-569).
DeliverRunt(m) ==
  /\ net.pc = "idle"
  /\ status' = "packet_error"
  /\ UNCHANGED <<alive, network_enabled, sendVars, recvVars, config, net_state,
                 deleting, net>>

\* Mutant: the read lock is released after the lookup, before the stream's
\* DeliverRtp is called.
DeliverRtpLookupUnlocked(m, s) ==
  LET audio == m \in {"any", "audio"} /\ s \in DOMAIN audio_receive_ssrcs
      video == m \in {"any", "video"} /\ s \in DOMAIN video_receive_ssrcs
  IN /\ net.pc = "idle"
     /\ ~recv_writer
     /\ IF audio \/ video
          THEN /\ net' = [NetIdle EXCEPT
                            !.pc = "rtp", !.media = m,
                            !.target = IF audio THEN audio_receive_ssrcs[s]
                                                ELSE video_receive_ssrcs[s]]
               /\ UNCHANGED status
          ELSE /\ status' = "unknown_ssrc"
               /\ UNCHANGED net
     /\ UNCHANGED <<alive, network_enabled, sendVars, recvVars, config, net_state,
                    deleting>>

\* Mutant: a reader-preferring lock; the read lock is taken even while the
\* configuration thread waits for the write lock.
DeliverRtpLookupReaderPreferring(m, s) ==
  LET audio == m \in {"any", "audio"} /\ s \in DOMAIN audio_receive_ssrcs
      video == m \in {"any", "video"} /\ s \in DOMAIN video_receive_ssrcs
  IN /\ net.pc = "idle"
     /\ IF audio \/ video
          THEN /\ net' = [NetIdle EXCEPT
                            !.pc = "rtp", !.media = m, !.locked = TRUE,
                            !.target = IF audio THEN audio_receive_ssrcs[s]
                                                ELSE video_receive_ssrcs[s]]
               /\ UNCHANGED status
          ELSE /\ status' = "unknown_ssrc"
               /\ UNCHANGED net
     /\ UNCHANGED <<alive, network_enabled, sendVars, recvVars, config, net_state,
                    deleting>>

\* DeliverRtp up to the lookup (call.cc:571-597): take the read lock, look
\* the SSRC up in the audio map, then the video map, per the media type.
\* The read lock is not granted while a writer waits (spec 5).
DeliverRtpLookup(m, s) ==
  LET audio == m \in {"any", "audio"} /\ s \in DOMAIN audio_receive_ssrcs
      video == m \in {"any", "video"} /\ s \in DOMAIN video_receive_ssrcs
  IN /\ net.pc = "idle"
     /\ ~recv_writer
     /\ IF audio \/ video
          THEN /\ net' = [NetIdle EXCEPT
                            !.pc = "rtp", !.media = m, !.locked = TRUE,
                            !.target = IF audio THEN audio_receive_ssrcs[s]
                                                ELSE video_receive_ssrcs[s]]
               /\ UNCHANGED status
          ELSE /\ status' = "unknown_ssrc"
               /\ UNCHANGED net
     /\ UNCHANGED <<alive, network_enabled, sendVars, recvVars, config, net_state,
                    deleting>>

\* The stream's DeliverRtp returns true or false; the lock scope ends.
DeliverRtpToStream ==
  /\ net.pc = "rtp"
  /\ \E accepted \in BOOLEAN :
       status' = IF accepted THEN "ok" ELSE "packet_error"
  /\ net' = NetIdle
  /\ UNCHANGED <<alive, network_enabled, sendVars, recvVars, config, net_state,
                 deleting, recv_writer>>

\* call.cc:540-549: offer the packet to every video receive stream under
\* the receive read lock; some subset of them accepts it.
DeliverRtcpToReceivers(m) ==
  /\ net.pc = "idle"
  /\ m \in {"any", "video"} => ~recv_writer
  /\ \E ok \in IF m \in {"any", "video"} /\ video_receive_streams # {}
                 THEN BOOLEAN ELSE {FALSE} :
       net' = [NetIdle EXCEPT !.pc = "rtcp", !.media = m, !.ok = ok]
  /\ UNCHANGED <<alive, network_enabled, sendVars, recvVars, config, net_state,
                 deleting, status>>

\* call.cc:550-560: then to every video send stream under the send lock.
DeliverRtcpToSenders ==
  /\ net.pc = "rtcp"
  /\ \E ok \in IF net.media \in {"any", "video"} /\ video_send_streams # {}
                 THEN BOOLEAN ELSE {FALSE} :
       status' = IF net.ok \/ ok THEN "ok" ELSE "packet_error"
  /\ net' = NetIdle
  /\ UNCHANGED <<alive, network_enabled, sendVars, recvVars, config, net_state,
                 deleting, recv_writer>>

\* DeliverPacket, call.cc:599-612, called by the client on a live Call.
DeliverPacket(m, p) ==
  alive /\
  CASE p.kind = "rtcp" -> DeliverRtcpToReceivers(m)
    [] p.kind = "runt" -> DeliverRunt(m)
    [] p.kind = "rtp"  -> DeliverRtpLookup(m, p.ssrc)

\* Call::~Call, call.cc:178-193: on the configuration thread, with no
\* lock; a non-empty registry fails an RTC_CHECK and aborts (no step).
\* Stopping the process thread and releasing the voice engine are not
\* modelled.
DestroyCall ==
  /\ ConfigIdle
  /\ \A f \in {audio_send_ssrcs, video_send_ssrcs, audio_receive_ssrcs,
               video_receive_ssrcs} : f = << >>
  /\ video_send_streams = {} /\ video_receive_streams = {}
  /\ alive' = FALSE
  /\ UNCHANGED <<network_enabled, sendVars, recvVars, config, net_state,
                 deleting, net, status>>

\* The Call is gone and the network thread has left DeliverPacket.
Terminated ==
  /\ ~alive /\ net.pc = "idle"
  /\ UNCHANGED vars

-----------------------------------------------------------------------------
Init ==
  /\ alive = TRUE
  /\ network_enabled = TRUE
  /\ audio_send_ssrcs = << >>
  /\ video_send_ssrcs = << >>
  /\ video_send_streams = {}
  /\ audio_receive_ssrcs = << >>
  /\ video_receive_ssrcs = << >>
  /\ video_receive_streams = {}
  /\ sync_stream_mapping = << >>
  /\ config = << >>
  /\ net_state = << >>
  /\ sync_channel = << >>
  /\ deleting = None
  /\ net = NetIdle
  /\ status = "none"
  /\ recv_writer = FALSE

\* The Create*/Destroy* calls that write-lock receive_crit_ (call.cc:246,
\* 263, 354, 383).
ReceiveWriteOps ==
  \/ \E h \in AudioRecvIds, s \in Ssrcs, g \in Groups :
       CreateAudioReceiveStream(h, s, g)
  \/ \E h \in AudioRecvIds : DestroyAudioReceiveStream(h)
  \/ \E h \in VideoRecvIds, s \in Ssrcs, r \in Ssrcs \cup {None}, g \in Groups :
       CreateVideoReceiveStream(h, s, r, g)
  \/ \E h \in VideoRecvIds : DestroyVideoReceiveStream(h)

\* Some call of ReceiveWriteOps can go on once it holds the write lock:
\* their conditions other than the lock, which the network thread does not
\* change.
ReceiveWritePossible ==
  \/ AudioRecvIds \ DOMAIN config # {} /\ Ssrcs \ DOMAIN audio_receive_ssrcs # {}
  \/ Live(AudioRecvIds) # {}
  \/ VideoRecvIds \ DOMAIN config # {} /\ Ssrcs \ DOMAIN video_receive_ssrcs # {}
  \/ \E h \in Live(VideoRecvIds) : h \in Range(video_receive_ssrcs)

\* WriteLockScoped on receive_crit_ while DeliverRtp holds the read lock:
\* the configuration thread blocks inside one of ReceiveWriteOps.
WaitReceiveWrite ==
  /\ ConfigIdle
  /\ ~recv_writer
  /\ RecvReadLocked
  /\ ReceiveWritePossible
  /\ recv_writer' = TRUE
  /\ UNCHANGED <<alive, network_enabled, sendVars, recvVars, config, net_state,
                 deleting, net, status>>

\* The write lock is granted and the call runs, whether or not it waited.
ReceiveWrite == ReceiveWriteOps /\ recv_writer' = FALSE

\* The call that waited gets the lock.
AcquireReceiveWrite == recv_writer /\ ReceiveWrite

ConfigThread ==
  \/ \E h \in AudioSendIds, s \in Ssrcs : CreateAudioSendStream(h, s)
  \/ \E h \in AudioSendIds : DestroyAudioSendStream(h)
  \/ \E h \in VideoSendIds, S \in SUBSET Ssrcs \ {{}} :
       CreateVideoSendStream(h, S)
  \/ \E h \in VideoSendIds : DestroyVideoSendStream(h)
  \/ ReleaseStream
  \/ \E st \in {"up", "down"} : SignalNetworkState(st)
  \/ DestroyCall

NetworkThread ==
  \/ \E m \in MediaTypes, p \in Packets : DeliverPacket(m, p)
  \/ DeliverRtpToStream
  \/ DeliverRtcpToSenders

\* While it waits for the write lock the configuration thread does nothing
\* else.
Next ==
  \/ ~recv_writer /\ ConfigThread /\ UNCHANGED recv_writer
  \/ WaitReceiveWrite
  \/ ReceiveWrite
  \/ NetworkThread /\ UNCHANGED recv_writer
  \/ Terminated

Spec == Init /\ [][Next]_vars

-----------------------------------------------------------------------------
(* Properties                                                              *)


\* The SSRC -> stream map that the configs of the streams |ids| describe.
ConfiguredIndex(ids, Keys(_)) ==
  [s \in UNION {Keys(h) : h \in ids} |-> CHOOSE h \in ids : s \in Keys(h)]

PrimaryKeys(h) == config[h].ssrcs
ReceiveKeys(h) ==
  config[h].ssrcs \cup (IF config[h].rtx = None THEN {} ELSE {config[h].rtx})

(***************************************************************************)
(* Registry consistency (spec invariants 2 and 3, and the Create/Destroy   *)
(* round trip): every SSRC map is exactly the map the configs of the live  *)
(* streams of its kind describe (a video receive stream under its primary  *)
(* and its first RTX SSRC), and the two stream sets are the live video     *)
(* streams.  Breaks if a Destroy* leaves an entry behind (a dangling       *)
(* pointer DeliverRtp would follow) or a Create* misses one.               *)
(***************************************************************************)
RegistryConsistent ==
  /\ audio_send_ssrcs = ConfiguredIndex(Live(AudioSendIds), PrimaryKeys)
  /\ audio_receive_ssrcs = ConfiguredIndex(Live(AudioRecvIds), PrimaryKeys)
  /\ video_send_ssrcs = ConfiguredIndex(Live(VideoSendIds), PrimaryKeys)
  /\ video_receive_ssrcs = ConfiguredIndex(Live(VideoRecvIds), ReceiveKeys)
  /\ video_send_streams = Live(VideoSendIds)
  /\ video_receive_streams = Live(VideoRecvIds)

(***************************************************************************)
(* No use after free: while the network thread is inside a stream's        *)
(* DeliverRtp (call.cc:577, 588) that stream has not been deleted by a     *)
(* concurrent Destroy*.  Holds only because the read lock taken at         *)
(* call.cc:573 spans the lookup and the call.                              *)
(***************************************************************************)
NoUseAfterFree ==
  net.pc = "rtp" => net.target \in DOMAIN config

(***************************************************************************)
(* Sync pairing (spec invariants 4 and 8.3): with a voice engine, for      *)
(* every named group, the recorded anchor is a live audio receive stream   *)
(* of the group; at most one video stream of the group is paired, only     *)
(* with that anchor; and whenever the group has both a live audio and a    *)
(* live video stream, one video stream is paired.  Needs ConfigureSync to  *)
(* be re-run by each Create*/Destroy* of a receive stream that can change  *)
(* the pairing.                                                            *)
(***************************************************************************)
SyncBinding ==
  HasVoiceEngine =>
    \A g \in Groups \ {NoGroup} :
      LET audios == {a \in Range(audio_receive_ssrcs) : config[a].group = g}
          videos == {v \in video_receive_streams : config[v].group = g}
          paired == {v \in videos : sync_channel[v] # None}
      IN /\ g \in DOMAIN sync_stream_mapping =>
              sync_stream_mapping[g] \in audios
         /\ \A v \in paired : /\ g \in DOMAIN sync_stream_mapping
                              /\ sync_channel[v] = sync_stream_mapping[g]
         /\ Cardinality(paired) <= 1
         /\ audios # {} /\ videos # {} => paired # {}

(***************************************************************************)
(* Consistent network state (spec invariant 6, 8.4): every live stream the *)
(* Call signals (audio send, video send, video receive) was last told the  *)
(* current network_enabled_, including streams created while the network   *)
(* was down (call.cc:214, 304, 367).                                       *)
(***************************************************************************)
NetworkStateConsistent ==
  \A h \in Live(SignalledIds) : net_state[h] = NetState(network_enabled)

(***************************************************************************)
(* Spec invariant 6 and 8.4 read for every live stream, audio receive      *)
(* streams included.                                                       *)
(***************************************************************************)
NetworkStateAllStreams ==
  \A h \in Live(AllIds) : net_state[h] = NetState(network_enabled)

(***************************************************************************)
(* Spec invariant 8.2: a video receive stream's primary and RTX SSRC both  *)
(* resolve to that stream in video_receive_ssrcs_.                         *)
(***************************************************************************)
RtxRoutesToOwner ==
  \A v \in video_receive_streams :
    \A s \in ReceiveKeys(v) :
      s \in DOMAIN video_receive_ssrcs /\ video_receive_ssrcs[s] = v

=============================================================================
