--------------------------- MODULE MC_ViEReceiver ---------------------------
(* Instantiation of ViEReceiver for TLC: one simulcast module, packets    *)
(* nested up to three layers deep (RTX around RED around RTX), and a      *)
(* bound on the payloads handed to the VCM.                               *)
EXTENDS ViEReceiver

MC_Modules == {"m1"}
=============================================================================
