---------------------------- MODULE MC_RtxRestore ----------------------------
(* Instantiation of RtxRestore for TLC.                                    *)
EXTENDS RtxRestore

\* A bare RTP header, and one with a CSRC; paddings of none, one byte, two
\* bytes and a padded keep-alive longer than the restore buffer.
MC_HeaderLengths == {12, 16}
MC_Paddings == {0, 1, 2, 12}
=============================================================================
