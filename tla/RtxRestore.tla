------------------------------ MODULE RtxRestore ------------------------------
(***************************************************************************)
(* The length checks of the RTX branch of ParseAndHandleEncapsulatingHeader *)
(* (vie_receiver.cc:352-377), on byte lengths.  ViEReceiver abstracts an   *)
(* RTX packet to the outcome of these checks (keep-alive, too long, not    *)
(* restorable, restored); this module computes that outcome from the       *)
(* packet length, header length and padding length and checks it against  *)
(* the behaviour the spec asks for (spec 4.3 step 8, boundary behaviours   *)
(* of spec 8).  Each step handles one parsed RTX packet; the state is the  *)
(* last packet, its outcome and the bytes written to restored_packet_.     *)
(*                                                                         *)
(* The header parser and RTPPayloadRegistry::RestoreOriginalPacket are     *)
(* outside src/ and modelled from the spec: the parser accepts a packet    *)
(* only if header and padding fit in it; restoration needs the 2-byte RTX  *)
(* header (original sequence number) after them, and copies the packet     *)
(* less that header into restored_packet_.                                 *)
(***************************************************************************)
EXTENDS Naturals

CONSTANTS
  HeaderLengths,  \* header.headerLength values (12 plus CSRCs/extensions)
  Paddings,       \* header.paddingLength values (RTX padding probes are
                  \* padding only, and may be longer than the buffer)
  MaxLength,      \* largest packet length delivered
  RestoredSize,   \* sizeof(restored_packet_)
  RtxHeaderSize   \* kRtxHeaderSize, the original sequence number

ASSUME /\ HeaderLengths \subseteq Nat /\ Paddings \subseteq Nat
       /\ MaxLength \in Nat /\ RestoredSize \in Nat /\ RtxHeaderSize \in Nat

\* The RTX packets the header parser lets through (spec 4.3 step 2).
ParsedPackets ==
  {p \in [len : 0..MaxLength, hdr : HeaderLengths, pad : Paddings] :
     p.hdr + p.pad <= p.len}

\* RestoreOriginalPacket, from the spec: whether it succeeds, and the
\* length it leaves in packet_length (the bytes written to restored_packet_).
RestoreOriginalPacket(p) ==
  IF p.hdr + p.pad + RtxHeaderSize <= p.len
    THEN [ok |-> TRUE, len |-> p.len - RtxHeaderSize]
    ELSE [ok |-> FALSE, len |-> p.len]

\* The size test of line 361 left out.
RtxDispositionNoSizeCheck(p) ==
  CASE p.hdr + p.pad = p.len -> "keepalive"
    [] p.len < p.hdr -> "bad"
    [] ~RestoreOriginalPacket(p).ok -> "bad"
    [] OTHER -> "restored"

\* The checks with the length tests before the keep-alive test.
RtxDispositionSizeFirst(p) ==
  CASE p.len < p.hdr -> "bad"
    [] p.len > RestoredSize -> "too_long"
    [] p.hdr + p.pad = p.len -> "keepalive"
    [] ~RestoreOriginalPacket(p).ok -> "bad"
    [] OTHER -> "restored"

\* Lines 353-373: the keep-alive test, the two length tests, restoration.
\* (The restored_packet_in_use_ test between them is ViEReceiver's.)
RtxDisposition(p) ==
  CASE p.hdr + p.pad = p.len -> "keepalive"
    [] p.len < p.hdr -> "bad"
    [] p.len > RestoredSize -> "too_long"
    [] ~RestoreOriginalPacket(p).ok -> "bad"
    [] OTHER -> "restored"

VARIABLES
  pkt,            \* the last RTX packet handled
  outcome,        \* what the checks made of it
  written         \* bytes RestoreOriginalPacket wrote to restored_packet_

vars == <<pkt, outcome, written>>

\* Lines 352-377 for one packet: the outcome, and the copy into
\* restored_packet_ when restoration is reached.
HandleRtxLengths(p) ==
  /\ pkt' = p
  /\ outcome' = RtxDisposition(p)
  /\ written' = IF RtxDisposition(p) = "restored"
                  THEN RestoreOriginalPacket(p).len ELSE 0

Init ==
  \E p \in ParsedPackets :
    /\ pkt = p
    /\ outcome = RtxDisposition(p)
    /\ written = IF RtxDisposition(p) = "restored"
                   THEN RestoreOriginalPacket(p).len ELSE 0

Next == \E p \in ParsedPackets : HandleRtxLengths(p)

Spec == Init /\ [][Next]_vars

-----------------------------------------------------------------------------
(* Properties                                                              *)

\* Restoration never writes past restored_packet_: the size test of line
\* 361 comes before RestoreOriginalPacket copies the packet in.
RestoreWithinBuffer == written <= RestoredSize

\* The reference behaviour (spec 4.3 step 8, and the boundary behaviours
\* of spec 8): an RTX packet that is header and padding only is accepted
\* silently whatever its size; one that carries an original sequence
\* number and fits the scratch buffer is restored; anything else is
\* dropped as an error.
Reference(p) ==
  IF p.hdr + p.pad = p.len THEN "keepalive"
  ELSE IF p.hdr + p.pad + RtxHeaderSize <= p.len /\ p.len <= RestoredSize
       THEN "restored"
       ELSE "dropped"

\* The code's checks, in the code's order and with the code's boundaries,
\* give the reference outcome for every length, including a keep-alive
\* longer than the buffer, a packet of exactly the buffer size, and an RTX
\* packet one byte short of its sequence number.
MatchesReference ==
  IF Reference(pkt) = "dropped" THEN outcome \in {"bad", "too_long"}
  ELSE outcome = Reference(pkt)

=============================================================================
