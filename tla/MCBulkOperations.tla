--------------------------- MODULE MCBulkOperations ---------------------------
(***************************************************************************)
(* Instances of BulkOperations for TLC.                                    *)
(***************************************************************************)
EXTENDS BulkOperations

CONSTANTS r1, r2, x1, x2, t1, t2
=============================================================================
