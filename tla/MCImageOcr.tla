------------------------------ MODULE MCImageOcr ------------------------------
(***************************************************************************)
(* Instances of ImageOcr for TLC.                                          *)
(***************************************************************************)
EXTENDS ImageOcr, TLC

CONSTANTS i1, w1, w2
=============================================================================
