------------------------- MODULE MCVerifyExtraction -------------------------
(* Instances of VerifyExtraction for TLC. *)
EXTENDS VerifyExtraction
=============================================================================
