---------------------------- MODULE MCAsrService ----------------------------
(***************************************************************************)
(* Instances of AsrService for TLC.                                        *)
(***************************************************************************)
EXTENDS AsrService

CONSTANTS j1, j2

(* One recording with a silent second window, one that is silent throughout. *)
MCSpeech == [j \in Jobs |-> IF j = j1 THEN {0} ELSE {}]
=============================================================================
