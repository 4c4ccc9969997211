------------------------------- MODULE Bitrate -------------------------------
(***************************************************************************)
(* The bitrate governor of Call (call.cc): the constructor hands           *)
(* config_.bitrate_config to the congestion controller, and                *)
(* SetBitrateConfig stores a new (min, start, max) and forwards it, unless *)
(* it matches the stored one, a non-positive start matching anything.     *)
(*                                                                         *)
(* The congestion controller (outside src/) is modelled from the spec      *)
(* (4.6, 6.6): SetBweBitrates replaces min and max, and replaces the start *)
(* bitrate unless the new one is non-positive ("no change").               *)
(***************************************************************************)
EXTENDS Integers

CONSTANTS
  MinValues,      \* min_bitrate_bps values a caller may pass
  StartValues,    \* start_bitrate_bps values, non-positive ones included
  MaxValues       \* max_bitrate_bps values, -1 meaning unbounded

\* The triples SetBitrateConfig accepts: its RTC_DCHECKs (lines 436-438).
Requests ==
  {b \in [min : MinValues, start : StartValues, max : MaxValues] :
     b.min >= 0 /\ (b.max # -1 => b.max > 0)}

\* The triples the constructor accepts (RTC_DCHECKs, lines 153-159).
InitialConfigs ==
  {b \in Requests : b.start >= b.min /\ (b.max # -1 => b.max >= b.start)}

\* CongestionController::SetBweBitrates, from the spec.
SetBweBitrates(ctrl, b) ==
  [min |-> b.min, max |-> b.max,
   start |-> IF b.start > 0 THEN b.start ELSE ctrl.start]

VARIABLES
  bitrate_config, \* config_.bitrate_config
  controller,     \* what the congestion controller was configured with
  requested       \* what it would be had every request been forwarded

vars == <<bitrate_config, controller, requested>>

\* The test without the start comparison.
MatchesStoredMinMax(cfg, b) ==
  /\ cfg.min = b.min
  /\ cfg.max = b.max

\* The early-abort test of SetBitrateConfig, lines 439-447.
MatchesStored(cfg, b) ==
  /\ cfg.min = b.min
  /\ (b.start <= 0 \/ cfg.start = b.start)
  /\ cfg.max = b.max

\* Lines 432-453: early abort, or store and forward.
SetBitrateConfig(b) ==
  /\ requested' = SetBweBitrates(requested, b)
  /\ IF MatchesStored(bitrate_config, b)
       THEN UNCHANGED <<bitrate_config, controller>>
       ELSE /\ bitrate_config' = b
            /\ controller' = SetBweBitrates(controller, b)

\* Call::Call, lines 142-176.
Init ==
  /\ bitrate_config \in InitialConfigs
  /\ controller = SetBweBitrates([start |-> 0], bitrate_config)
  /\ requested = controller

Next == \E b \in Requests : SetBitrateConfig(b)

Spec == Init /\ [][Next]_vars

-----------------------------------------------------------------------------
\* The no-op suppression of SetBitrateConfig is sound: after any sequence
\* of calls, the congestion controller is configured exactly as it would be
\* had every call been forwarded.  The stored start may be non-positive
\* (stored from a call that changed min or max) while the controller keeps
\* an earlier positive start, so this rests on every later call with a
\* positive start being compared against the stored value.
SuppressionSound == controller = requested

=============================================================================
