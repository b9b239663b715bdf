-------------------------- MODULE MCImageAnalysis --------------------------
(* ImageAnalysis for TLC: every constant gets its value in the .cfg files. *)
EXTENDS ImageAnalysis
=============================================================================
