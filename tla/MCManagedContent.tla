--------------------------- MODULE MCManagedContent ---------------------------
(***************************************************************************)
(* Instances of ManagedContent for TLC.                                    *)
(***************************************************************************)
EXTENDS ManagedContent

CONSTANTS i1, i2, c1, c2, n1, p1, p2

(* At most one of two items gets a second version. *)
FewVersions == \A i, k \in Item : i # k => Latest(i) + Latest(k) <= 3
=============================================================================
