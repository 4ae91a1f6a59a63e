-------------------------- MODULE MCReclassification --------------------------
(***************************************************************************)
(* Instances of Reclassification for TLC.                                  *)
(***************************************************************************)
EXTENDS Reclassification, TLC

CONSTANTS i1, i2, c1, c2
=============================================================================
