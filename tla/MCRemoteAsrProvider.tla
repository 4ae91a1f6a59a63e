-------------------------- MODULE MCRemoteAsrProvider --------------------------
(***************************************************************************)
(* Instances of RemoteAsrProvider for TLC.                                 *)
(***************************************************************************)
EXTENDS RemoteAsrProvider, TLC

CONSTANTS j1, j2

MCSpeech == [j \in {j1, j2} |-> {j}]
=============================================================================
