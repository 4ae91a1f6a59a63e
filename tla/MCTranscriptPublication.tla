----------------------- MODULE MCTranscriptPublication -----------------------
(***************************************************************************)
(* Instances of TranscriptPublication for TLC.                             *)
(***************************************************************************)
EXTENDS TranscriptPublication

CONSTANTS m1, m2, m3
=============================================================================
