---------------------------- MODULE MCSubtitleLayer ----------------------------
(* Instances of SubtitleLayer for TLC. *)
EXTENDS SubtitleLayer

CONSTANTS l1, l2
=============================================================================
