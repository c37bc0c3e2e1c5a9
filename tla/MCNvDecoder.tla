---------------------------- MODULE MCNvDecoder ----------------------------
(* Instances of NvDecoder for TLC. *)
EXTENDS NvDecoder
=============================================================================
