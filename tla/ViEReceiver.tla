----------------------------- MODULE ViEReceiver -----------------------------
(***************************************************************************)
(* ViEReceiver (src/webrtc/video_engine/vie_receiver.cc): the RTP and RTCP *)
(* ingress of one video receive stream.                                    *)
(*                                                                         *)
(* The network thread calls InsertRTPPacket / InsertRTCPPacket; the        *)
(* configuration thread calls StartReceive, StopReceive and                *)
(* RegisterRtpRtcpModules.  InsertRTPPacket checks receiving_ under        *)
(* receive_cs_ and releases it before the packet is processed, so the gate *)
(* and the processing are two steps.  The processing is one step: the      *)
(* only part that takes receive_cs_ again (RTX restoration) holds it to    *)
(* the end, and nothing the configuration thread does changes it.         *)
(*                                                                         *)
(* A packet is abstracted to what the receiver learns from its             *)
(* collaborators (header parser, payload registry, FEC receiver): whether  *)
(* it parses, whether it is RED or RTX, and the packet it encapsulates.    *)
(***************************************************************************)
EXTENDS Integers, Sequences, FiniteSets, TLC

CONSTANTS
  Depth,          \* nesting depth of the packets the network delivers
  Modules,        \* RtpRtcp modules (simulcast layers) of the stream
  MaxHandoffs,    \* bound on payloads handed to the VCM
  None

ASSUME Depth \in Nat /\ MaxHandoffs \in Nat

(***************************************************************************)
(* Packets.  Leaves: a packet the header parser rejects, a media packet    *)
(* whose payload type is (not) registered.  RED: its first block is media  *)
(* or ULPFEC, AddReceivedRedPacket may fail, and ProcessReceivedFec hands  *)
(* the media block, or a packet recovered from FEC, to OnRecoveredPacket.  *)
(* RTX: empty keep-alive, longer than restored_packet_, not restorable, or *)
(* restorable into the packet it carries.                                  *)
(***************************************************************************)
Garbage == [kind |-> "garbage"]
Media(known) == [kind |-> "media", known |-> known]
Red(block, addOk, inner) ==
  [kind |-> "red", block |-> block, addOk |-> addOk, inner |-> inner]
Rtx(form, inner) == [kind |-> "rtx", form |-> form, inner |-> inner]

RECURSIVE PacketsUpTo(_)
PacketsUpTo(d) ==
  IF d = 0 THEN {Garbage, Media(TRUE), Media(FALSE)}
  ELSE LET P == PacketsUpTo(d - 1)
       IN P \cup {Red(b, FALSE, None) : b \in {"media", "fec"}}
            \cup {Red("media", TRUE, q) : q \in P}
            \cup {Red("fec", TRUE, q) : q \in P \cup {None}}
            \cup {Rtx(f, None) : f \in {"keepalive", "too_long", "bad"}}
            \cup {Rtx("restored", q) : q \in P}

Packets == PacketsUpTo(Depth)

\* What the VCM receives: a media payload, or the empty packet faked for a
\* FEC packet; |path| the encapsulation layers ("red", "rtx") peeled off on
\* the way to it, outermost first, and |ntp| whether the NTP estimator
\* could stamp it.
Payload(kind, path, ntp) == [kind |-> kind, path |-> path, ntp |-> ntp]

\* The outcome of ReceivePacket: its bool result, the payloads it handed to
\* the VCM in order, and whether a media payload type has been seen.
Result(ok, out, seen) == [ok |-> ok, out |-> out, seen |-> seen]

VARIABLES
  receiving,      \* receiving_
  media_seen,     \* last_received_media_payload_type() >= 0 (registry)
  ntp_synced,     \* the RemoteNtpTimeEstimator has an RTCP mapping
  simulcast,      \* rtp_rtcp_simulcast_
  rtcp_seen,      \* simulcast modules given the last RTCP packet
  net,            \* network thread: [pc, pkt]
  last_ret,       \* return value of the last Insert*Packet
  last_out,       \* payloads the last RTP packet handed to the VCM
  handoffs        \* payloads handed to the VCM so far (bounded)

vars == <<receiving, media_seen, ntp_synced, simulcast, rtcp_seen, net,
          last_ret, last_out, handoffs>>

-----------------------------------------------------------------------------
(***************************************************************************)
(* Decapsulation, vie_receiver.cc:249-407.  |inUse| is                     *)
(* restored_packet_in_use_, |path| the layers peeled so far, |ntp|         *)
(* whether OnReceivedPayloadData can stamp an NTP time.                    *)
(***************************************************************************)
RECURSIVE ReceivePacket(_, _, _, _, _)

\* OnRecoveredPacket, lines 249-258: re-parse, then ReceivePacket.
OnRecoveredPacket(p, inUse, path, seen, ntp) ==
  IF p.kind = "garbage" THEN Result(FALSE, << >>, seen)
  ELSE ReceivePacket(p, inUse, path, seen, ntp)

\* NotifyReceiverOfFecPacket, lines 382-407: an empty packet with the last
\* media payload type, unless none has been received yet.
FecNotice(seen, path, ntp) ==
  IF seen THEN << Payload("fec_notice", path, ntp) >> ELSE << >>

\* The RED branch of ParseAndHandleEncapsulatingHeader, lines 340-351.
HandleRed(p, inUse, path, seen, ntp) ==
  LET notice == IF p.block = "fec" THEN FecNotice(seen, path, ntp)
                                   ELSE << >>
      rec == IF p.addOk /\ p.inner # None
               THEN OnRecoveredPacket(p.inner, inUse, Append(path, "red"),
                                      seen, ntp)
               ELSE Result(p.addOk, << >>, seen)
  IN Result(rec.ok, notice \o rec.out, rec.seen)

\* HandleRtx without the restored_packet_in_use_ check.
HandleRtxNoInUseCheck(p, inUse, path, seen, ntp) ==
  IF p.form = "keepalive" THEN Result(TRUE, << >>, seen)
  ELSE IF p.form = "too_long" \/ p.form = "bad"
       THEN Result(FALSE, << >>, seen)
       ELSE OnRecoveredPacket(p.inner, TRUE, Append(path, "rtx"), seen, ntp)

\* The RTX branch, lines 352-377: keep-alive, size checks, the
\* restored_packet_in_use_ check, restore, recurse with the flag set.
HandleRtx(p, inUse, path, seen, ntp) ==
  IF p.form = "keepalive" THEN Result(TRUE, << >>, seen)
  ELSE IF p.form = "too_long" \/ inUse \/ p.form = "bad"
       THEN Result(FALSE, << >>, seen)
       ELSE OnRecoveredPacket(p.inner, TRUE, Append(path, "rtx"), seen, ntp)

\* ReceivePacket, lines 318-335.  A media packet with a registered payload
\* type reaches OnReceivedPayloadData through the RtpReceiver.
ReceivePacket(p, inUse, path, seen, ntp) ==
  CASE p.kind = "red" -> HandleRed(p, inUse, path, seen, ntp)
    [] p.kind = "rtx" -> HandleRtx(p, inUse, path, seen, ntp)
    [] p.kind = "media" ->
         IF p.known THEN Result(TRUE, << Payload("media", path, ntp) >>, TRUE)
                    ELSE Result(FALSE, << >>, seen)

-----------------------------------------------------------------------------
(* Network thread                                                          *)

\* InsertRTPPacket, lines 263-268: the receiving_ check under receive_cs_.
InsertRTPPacketGate(p) ==
  /\ net.pc = "idle"
  /\ IF receiving
       THEN /\ net' = [pc |-> "rtp", pkt |-> p]
            /\ UNCHANGED last_ret
       ELSE /\ last_ret' = -1
            /\ UNCHANGED net
  /\ UNCHANGED <<receiving, media_seen, ntp_synced, simulcast, rtcp_seen,
                 last_out, handoffs>>

\* InsertRTPPacket, lines 270-315, after the gate: parse, ReceivePacket,
\* statistics (collaborators whose state no property reads).
InsertRTPPacketProcess ==
  LET p == net.pkt
      r == IF p.kind = "garbage" THEN Result(FALSE, << >>, media_seen)
           ELSE ReceivePacket(p, FALSE, << >>, media_seen, ntp_synced)
  IN /\ net.pc = "rtp"
     /\ handoffs + Len(r.out) <= MaxHandoffs
     /\ last_ret' = IF r.ok THEN 0 ELSE -1
     /\ last_out' = r.out
     /\ media_seen' = r.seen
     /\ handoffs' = handoffs + Len(r.out)
     /\ net' = [pc |-> "idle", pkt |-> None]
     /\ UNCHANGED <<receiving, ntp_synced, simulcast, rtcp_seen>>

\* InsertRTCPPacket, lines 411-419: the receiving_ check and the simulcast
\* modules, under receive_cs_.
InsertRTCPPacketGate ==
  /\ net.pc = "idle"
  /\ IF receiving
       THEN /\ rtcp_seen' = simulcast
            /\ net' = [pc |-> "rtcp", pkt |-> None]
            /\ UNCHANGED last_ret
       ELSE /\ last_ret' = -1
            /\ UNCHANGED <<rtcp_seen, net>>
  /\ UNCHANGED <<receiving, media_seen, ntp_synced, simulcast, last_out,
                 handoffs>>

\* Lines 420-442: the base module, then RTT and the remote sender report
\* feed the NTP estimator; the module's results are inputs.
InsertRTCPPacketBase ==
  /\ net.pc = "rtcp"
  /\ \E accepted, rttValid, srValid \in BOOLEAN :
       /\ last_ret' = IF accepted THEN 0 ELSE -1
       /\ ntp_synced' = (ntp_synced \/ (accepted /\ rttValid /\ srValid))
  /\ net' = [pc |-> "idle", pkt |-> None]
  /\ UNCHANGED <<receiving, media_seen, simulcast, rtcp_seen, last_out,
                 handoffs>>

-----------------------------------------------------------------------------
(* Configuration thread                                                    *)

StartReceive ==                              \* lines 445-448
  /\ receiving' = TRUE
  /\ UNCHANGED <<media_seen, ntp_synced, simulcast, rtcp_seen, net,
                 last_ret, last_out, handoffs>>

StopReceive ==                               \* lines 450-453
  /\ receiving' = FALSE
  /\ UNCHANGED <<media_seen, ntp_synced, simulcast, rtcp_seen, net,
                 last_ret, last_out, handoffs>>

\* Lines 153-161: |mods| is the argument without its first element (the
\* base module, which is not locked and never changes).
RegisterRtpRtcpModules(mods) ==
  /\ simulcast' = mods
  /\ UNCHANGED <<receiving, media_seen, ntp_synced, rtcp_seen, net,
                 last_ret, last_out, handoffs>>

-----------------------------------------------------------------------------
Init ==
  /\ receiving = FALSE
  /\ media_seen = FALSE
  /\ ntp_synced = FALSE
  /\ simulcast = {}
  /\ rtcp_seen = {}
  /\ net = [pc |-> "idle", pkt |-> None]
  /\ last_ret = 0
  /\ last_out = << >>
  /\ handoffs = 0

Next ==
  \/ \E p \in Packets : InsertRTPPacketGate(p)
  \/ InsertRTPPacketProcess
  \/ InsertRTCPPacketGate
  \/ InsertRTCPPacketBase
  \/ StartReceive
  \/ StopReceive
  \/ \E mods \in SUBSET Modules : RegisterRtpRtcpModules(mods)

Spec == Init /\ [][Next]_vars

-----------------------------------------------------------------------------
(* Properties                                                              *)

\* restored_packet_ holds one restoration at a time: the
\* restored_packet_in_use_ check (lines 365-368) drops an RTX packet found
\* while another is being processed from the buffer, whether it was
\* restored directly or recovered by FEC from a RED packet inside it, so
\* no payload the VCM receives went through two RTX restorations.
ScratchBufferNotReentered ==
  \A i \in DOMAIN last_out :
    Cardinality({j \in DOMAIN last_out[i].path : last_out[i].path[j] = "rtx"})
      <= 1

=============================================================================
