---------------------------- MODULE MCConversation ----------------------------
(***************************************************************************)
(* Instances of Conversation for TLC.                                      *)
(***************************************************************************)
EXTENDS Conversation, TLC

CONSTANTS r1, r2, r3
=============================================================================
