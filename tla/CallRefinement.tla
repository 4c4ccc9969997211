----------------------------- MODULE CallRefinement -----------------------------
(***************************************************************************)
(* Call implements CallAbstract.  A stream is registered from the step     *)
(* of Create*Stream that indexes it to the step of Destroy*Stream that     *)
(* erases it under the write lock; the deferred delete and the send        *)
(* side's locks are invisible.  An RTP delivery is pending from the       *)
(* lookup under the read lock to the return of the stream's DeliverRtp.    *)
(***************************************************************************)
EXTENDS Call

(***************************************************************************)
(* Fairness.  Once DeliverPacket has looked a packet up it runs to the end *)
(* of the lock scope: the stream's DeliverRtp, and the send streams'       *)
(* DeliverRtcp, do not block (spec: nothing on the packet path blocks).    *)
(* A configuration call blocked on the write lock of receive_crit_ is     *)
(* woken by the lock once it is free and it is the only writer.  Nothing  *)
(* is assumed of when the configuration thread calls, or of packet        *)
(* arrival.                                                                *)
(***************************************************************************)
FairSpec ==
  /\ Spec
  /\ WF_vars(DeliverRtpToStream)
  /\ WF_vars(DeliverRtcpToSenders)
  /\ WF_vars(AcquireReceiveWrite)

\* The registered streams: the live ones, with the SSRCs of their config.
RegisteredStreams ==
  [h \in Live(AllIds) |-> [ssrcs |-> config[h].ssrcs, rtx |-> config[h].rtx]]

\* The stream an RTP packet is being delivered to.
PendingDelivery == IF net.pc = "rtp" THEN net.target ELSE None

Abs == INSTANCE CallAbstract
         WITH streams <- RegisteredStreams,
              pending <- PendingDelivery,
              network_up <- network_enabled

(***************************************************************************)
(* Refinement: every behaviour of Call under FairSpec is one of            *)
(* CallAbstract.  DeliverRtp routes each packet to the receive stream      *)
(* whose config names its SSRC (audio first), no Destroy* unregisters the  *)
(* stream a packet is being delivered to (the read lock of call.cc:573     *)
(* spans lookup and delivery, Destroy* takes the write lock), Create*      *)
(* never takes an SSRC a stream of its kind holds, and every delivery      *)
(* that started ends.                                                      *)
(***************************************************************************)
AbstractSpec == Abs!Spec

(***************************************************************************)
(* A Create*/Destroy* of a receive stream that blocks on the write lock    *)
(* (call.cc:246, 263, 354, 383) returns: the network thread, which may    *)
(* take the read lock for packet after packet (call.cc:541, 573), cannot   *)
(* starve it, because the lock admits no new reader while a writer waits  *)
(* (spec 5: writer-preferring).                                           *)
(***************************************************************************)
ReceiveWriterProceeds == recv_writer ~> ~recv_writer

=============================================================================
