-------------------------- MODULE VideoSendLifecycle --------------------------
(***************************************************************************)
(* Video send streams across their lifetimes (call.cc): CreateVideoSend-   *)
(* Stream hands suspended_video_send_ssrcs_ to the new stream, and         *)
(* DestroyVideoSendStream stops the stream, de-indexes it, merges its      *)
(* GetRtpStates() into suspended_video_send_ssrcs_ and deletes it.  An     *)
(* encoder thread sends packets on started streams, advancing the RTP      *)
(* sequence number of the SSRC.  GetStats reads the send map under the     *)
(* read lock, from another thread.                                         *)
(*                                                                         *)
(* VideoSendStream (outside src/) is modelled from the spec: a stream      *)
(* resumes the suspended sequence number of an SSRC it reuses, Stop is     *)
(* synchronous, and GetRtpStates reports the next sequence number of each  *)
(* of its SSRCs.  An RtpState is abstracted to that sequence number.       *)
(***************************************************************************)
EXTENDS Integers, FiniteSets, Functions, TLC

CONSTANTS
  Ssrcs,          \* SSRC values
  SendIds,        \* addresses a VideoSendStream may be allocated at
  SeqMod,         \* sequence numbers are taken modulo SeqMod (2^16 in RTP)
  RttValues,      \* values GetRtt() may return
  DchecksOn,      \* RTC_DCHECK is compiled in (debug build)
  None

ASSUME SeqMod \in Nat \ {0} /\ RttValues \subseteq Nat /\ DchecksOn \in BOOLEAN

SeqNums == 0..(SeqMod - 1)

VARIABLES
  video_send_ssrcs,           \* video_send_ssrcs_: SSRC -> stream
  video_send_streams,         \* video_send_streams_
  suspended_video_send_ssrcs, \* SSRC -> suspended sequence number
  streams,                    \* allocated streams: [ssrcs, seq, started]
  destroying,                 \* [h, pc] of a DestroyVideoSendStream, or None
  wire,                       \* SSRC -> [seq, flip] of the last packet sent,
                              \* or None; flip alternates so that two
                              \* packets with one number differ
  stats_rtt,                  \* rtt_ms of the last GetStats, or None
  stats                       \* a GetStats inside its read-locked loop:
                              \* the <<SSRC, stream>> entries still to visit
                              \* and rtt_ms so far; pc "idle" outside it

vars == <<video_send_ssrcs, video_send_streams, suspended_video_send_ssrcs,
          streams, destroying, wire, stats_rtt, stats>>

ConfigIdle == destroying = None

\* send_crit_ can be taken for writing: no GetStats holds it for reading.
NoStatsReader == stats.pc = "idle"

-----------------------------------------------------------------------------
(* VideoSendStream, from the spec                                          *)

\* The stream's RTP state at construction: the suspended sequence number of
\* an SSRC it reuses, any sequence number for a fresh one.
InitialSeq(S, suspended, fresh) ==
  [s \in S |-> IF s \in DOMAIN suspended THEN suspended[s] ELSE fresh[s]]

StartStream(h) ==
  /\ ConfigIdle
  /\ h \in video_send_streams
  /\ streams' = [streams EXCEPT ![h].started = TRUE]
  /\ UNCHANGED <<video_send_ssrcs, video_send_streams,
                 suspended_video_send_ssrcs, destroying, wire, stats_rtt,
                 stats>>

\* The encoder thread sends one RTP packet of a started stream on one of
\* its SSRCs.
SendPacket(h, s) ==
  /\ h \in DOMAIN streams
  /\ streams[h].started
  /\ s \in streams[h].ssrcs
  /\ wire' = [wire EXCEPT ![s] =
               [seq |-> streams[h].seq[s],
                flip |-> IF @ = None THEN 0 ELSE 1 - @.flip]]
  /\ streams' = [streams EXCEPT ![h].seq[s] = (@ + 1) % SeqMod]
  /\ UNCHANGED <<video_send_ssrcs, video_send_streams,
                 suspended_video_send_ssrcs, destroying, stats_rtt, stats>>

-----------------------------------------------------------------------------
(* Call, configuration thread                                              *)

\* CreateVideoSendStream without the indexing loop of lines 295-299.
CreateVideoSendStreamNoIndex(h, S, fresh) ==
  /\ ConfigIdle
  /\ h \notin DOMAIN streams
  /\ S # {}
  /\ streams' = (h :> [ssrcs |-> S, started |-> FALSE,
                       seq |-> InitialSeq(S, suspended_video_send_ssrcs,
                                          fresh)]) @@ streams
  /\ video_send_streams' = video_send_streams \cup {h}
  /\ UNCHANGED <<video_send_ssrcs, suspended_video_send_ssrcs, destroying,
                 wire, stats_rtt, stats>>

\* CreateVideoSendStream, lines 278-307: construct with the suspended
\* states, then index every SSRC under network_enabled_crit_ and send_crit_.
\* The SSRCs being unused is only an RTC_DCHECK (line 296).
CreateVideoSendStream(h, S, fresh) ==
  /\ ConfigIdle
  /\ h \notin DOMAIN streams
  /\ S # {}
  /\ DchecksOn => S \cap DOMAIN video_send_ssrcs = {}
  /\ NoStatsReader
  /\ streams' = (h :> [ssrcs |-> S, started |-> FALSE,
                       seq |-> InitialSeq(S, suspended_video_send_ssrcs,
                                          fresh)]) @@ streams
  /\ video_send_ssrcs' = [s \in S |-> h] @@ video_send_ssrcs
  /\ video_send_streams' = video_send_streams \cup {h}
  /\ UNCHANGED <<suspended_video_send_ssrcs, destroying, wire, stats_rtt,
                 stats>>

\* DestroyVideoSendStream, line 314: send_stream->Stop().
DestroyStop(h) ==
  /\ ConfigIdle
  /\ h \in video_send_streams
  /\ streams' = [streams EXCEPT ![h].started = FALSE]
  /\ destroying' = [h |-> h, pc |-> "erase"]
  /\ UNCHANGED <<video_send_ssrcs, video_send_streams,
                 suspended_video_send_ssrcs, wire, stats_rtt, stats>>

\* DestroyErase that stops at the first entry of the stream.
DestroyEraseFirstOnly ==
  LET h == destroying.h
      mine == {s \in DOMAIN video_send_ssrcs : video_send_ssrcs[s] = h}
  IN /\ destroying # None /\ destroying.pc = "erase"
     /\ NoStatsReader
     /\ mine # {}
     /\ video_send_ssrcs' =
          Restrict(video_send_ssrcs, DOMAIN video_send_ssrcs \
                     {CHOOSE s \in mine : TRUE})
     /\ video_send_streams' = video_send_streams \ {h}
     /\ destroying' = [destroying EXCEPT !.pc = "snapshot"]
     /\ UNCHANGED <<suspended_video_send_ssrcs, streams, wire, stats_rtt,
                    stats>>

\* DestroyErase that does not wait for a reader of send_crit_.
DestroyEraseNoReaderWait ==
  LET h == destroying.h
  IN /\ destroying # None /\ destroying.pc = "erase"
     /\ \E s \in DOMAIN video_send_ssrcs : video_send_ssrcs[s] = h
     /\ video_send_ssrcs' =
          Restrict(video_send_ssrcs,
                   {s \in DOMAIN video_send_ssrcs : video_send_ssrcs[s] # h})
     /\ video_send_streams' = video_send_streams \ {h}
     /\ destroying' = [destroying EXCEPT !.pc = "snapshot"]
     /\ UNCHANGED <<suspended_video_send_ssrcs, streams, wire, stats_rtt,
                    stats>>

\* Lines 316-330: erase every entry of the stream under send_crit_, taken
\* for writing.  A stream with no entry left fails RTC_CHECK (line 330) and
\* the process aborts: the step is not taken.
DestroyErase ==
  LET h == destroying.h
  IN /\ destroying # None /\ destroying.pc = "erase"
     /\ NoStatsReader
     /\ \E s \in DOMAIN video_send_ssrcs : video_send_ssrcs[s] = h
     /\ video_send_ssrcs' =
          Restrict(video_send_ssrcs,
                   {s \in DOMAIN video_send_ssrcs : video_send_ssrcs[s] # h})
     /\ video_send_streams' = video_send_streams \ {h}
     /\ destroying' = [destroying EXCEPT !.pc = "snapshot"]
     /\ UNCHANGED <<suspended_video_send_ssrcs, streams, wire, stats_rtt,
                    stats>>

\* Lines 332-338 with std::map::insert, which keeps an existing entry.
DestroySnapshotKeepOld ==
  LET st == streams[destroying.h].seq
  IN /\ destroying # None /\ destroying.pc = "snapshot"
     /\ suspended_video_send_ssrcs' = suspended_video_send_ssrcs @@ st
     /\ destroying' = [destroying EXCEPT !.pc = "delete"]
     /\ UNCHANGED <<video_send_ssrcs, video_send_streams, streams, wire,
                    stats_rtt, stats>>

\* Lines 332-338: GetRtpStates() merged into suspended_video_send_ssrcs_,
\* overwriting the entry of every SSRC it reports.
DestroySnapshot ==
  LET st == streams[destroying.h].seq
  IN /\ destroying # None /\ destroying.pc = "snapshot"
     /\ suspended_video_send_ssrcs' = st @@ suspended_video_send_ssrcs
     /\ destroying' = [destroying EXCEPT !.pc = "delete"]
     /\ UNCHANGED <<video_send_ssrcs, video_send_streams, streams, wire,
                    stats_rtt, stats>>

\* Line 340: delete send_stream_impl.
DestroyDelete ==
  /\ destroying # None /\ destroying.pc = "delete"
  /\ streams' = Restrict(streams, DOMAIN streams \ {destroying.h})
  /\ destroying' = None
  /\ UNCHANGED <<video_send_ssrcs, video_send_streams,
                 suspended_video_send_ssrcs, wire, stats_rtt, stats>>

-----------------------------------------------------------------------------
(* GetStats, lines 404-427, on a thread of its own                         *)

\* A DestroyVideoSendStream waits for send_crit_ to erase its entries.
WriterWaiting == destroying # None /\ destroying.pc = "erase"

\* Lines 419-422: take send_crit_ for reading and start the loop over
\* video_send_ssrcs_ with a fresh Stats, whose rtt_ms is unset.  The lock
\* prefers writers (spec 5; RWLockWrapper is outside src/): no new reader
\* enters while a writer waits.
GetStatsBegin ==
  /\ NoStatsReader
  /\ ~WriterWaiting
  /\ stats' = [pc |-> "loop", rtt |-> None,
                todo |-> {<<s, video_send_ssrcs[s]>> :
                            s \in DOMAIN video_send_ssrcs}]
  /\ UNCHANGED <<video_send_ssrcs, video_send_streams,
                 suspended_video_send_ssrcs, streams, destroying, wire,
                 stats_rtt>>

\* Lines 423-426: the next entry in SSRC order; its stream's GetRtt()
\* returns |rtt|, kept when positive.
GetStatsEntry(rtt) ==
  LET e == CHOOSE x \in stats.todo : \A y \in stats.todo : x[1] <= y[1]
  IN /\ stats.pc = "loop" /\ stats.todo # {}
     /\ stats' = [stats EXCEPT !.todo = @ \ {e},
                               !.rtt = IF rtt > 0 THEN rtt ELSE @]
     /\ UNCHANGED <<video_send_ssrcs, video_send_streams,
                    suspended_video_send_ssrcs, streams, destroying, wire,
                    stats_rtt>>

\* Lines 427-429: release the read lock and return the stats.
GetStatsEnd ==
  /\ stats.pc = "loop" /\ stats.todo = {}
  /\ stats_rtt' = stats.rtt
  /\ stats' = [pc |-> "idle", rtt |-> None, todo |-> {}]
  /\ UNCHANGED <<video_send_ssrcs, video_send_streams,
                 suspended_video_send_ssrcs, streams, destroying, wire>>

-----------------------------------------------------------------------------
Init ==
  /\ video_send_ssrcs = << >>
  /\ video_send_streams = {}
  /\ suspended_video_send_ssrcs = << >>
  /\ streams = << >>
  /\ destroying = None
  /\ wire = [s \in Ssrcs |-> None]
  /\ stats_rtt = None
  /\ stats = [pc |-> "idle", rtt |-> None, todo |-> {}]

Next ==
  \/ \E h \in SendIds, S \in SUBSET Ssrcs, fresh \in [Ssrcs -> SeqNums] :
       CreateVideoSendStream(h, S, fresh)
  \/ \E h \in SendIds : StartStream(h) \/ DestroyStop(h)
  \/ DestroyErase \/ DestroySnapshot \/ DestroyDelete
  \/ \E h \in SendIds, s \in Ssrcs : SendPacket(h, s)
  \/ GetStatsBegin \/ GetStatsEnd
  \/ \E rtt \in RttValues : GetStatsEntry(rtt)

Spec == Init /\ [][Next]_vars

\* Once inside DestroyVideoSendStream the configuration thread runs to its
\* return: Stop is synchronous and the write lock waits only for GetStats,
\* whose read-locked loop does not block and so runs to its end.
FairSpec ==
  /\ Spec
  /\ WF_vars(DestroyErase) /\ WF_vars(DestroySnapshot) /\ WF_vars(DestroyDelete)
  /\ WF_vars(\E rtt \in RttValues : GetStatsEntry(rtt)) /\ WF_vars(GetStatsEnd)

-----------------------------------------------------------------------------
(* Properties                                                              *)

TypeOK ==
  /\ video_send_ssrcs \in [DOMAIN video_send_ssrcs -> video_send_streams]
  /\ DOMAIN video_send_ssrcs \subseteq Ssrcs
  /\ video_send_streams \subseteq DOMAIN streams
  /\ DOMAIN streams \subseteq SendIds
  /\ DOMAIN suspended_video_send_ssrcs \subseteq Ssrcs
  /\ \A s \in DOMAIN suspended_video_send_ssrcs :
       suspended_video_send_ssrcs[s] \in SeqNums
  /\ \A h \in DOMAIN streams :
       /\ streams[h].started \in BOOLEAN
       /\ streams[h].seq \in [streams[h].ssrcs -> SeqNums]
  /\ destroying = None \/ destroying.pc \in {"erase", "snapshot", "delete"}
  /\ wire \in [Ssrcs -> [seq : SeqNums, flip : {0, 1}] \cup {None}]
  /\ stats_rtt \in RttValues \cup {None}
  /\ stats.pc \in {"idle", "loop"}

\* RTP sequence numbers continue across stream lifetimes (spec 4.2 and
\* invariant 8.5): once a packet went out on an SSRC, the next packet on
\* that SSRC, from whichever stream owns it then, carries the next sequence
\* number.  It takes Stop before the snapshot, an overwriting merge and
\* the suspended state passed to the next stream, over two lifetimes.
SequenceContinuity ==
  [][\A s \in Ssrcs :
       wire[s] # None /\ wire'[s] # wire[s] =>
         wire'[s].seq = (wire[s].seq + 1) % SeqMod
    ]_wire

\* Every DestroyVideoSendStream that has begun returns: the stream is
\* erased, snapshotted and deleted, so the RTC_CHECK of line 330 never
\* finds the stream missing from video_send_ssrcs_ and aborts.  It rests on
\* every SSRC of a stream staying indexed to it until its destroy, which
\* only the RTC_DCHECK of line 296 against a shared SSRC ensures.
DestroyCompletes == destroying # None ~> destroying = None

\* GetStats calls GetRtt() only on a live stream: every entry its loop has
\* still to visit points at a stream not yet deleted.  DestroyVideoSend-
\* Stream deletes the stream after releasing send_crit_ (line 340), so this
\* rests on its erase (lines 316-330) waiting for the read lock GetStats
\* holds over the whole loop (lines 419-426) on another thread.
StatsReadLiveStreams ==
  \A e \in stats.todo : e[2] \in DOMAIN streams

=============================================================================
