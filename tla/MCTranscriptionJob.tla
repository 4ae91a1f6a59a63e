-------------------------- MODULE MCTranscriptionJob --------------------------
(***************************************************************************)
(* Instances of TranscriptionJob for TLC.                                  *)
(***************************************************************************)
EXTENDS TranscriptionJob

CONSTANTS m1, k1, k2, r1, r2
=============================================================================
