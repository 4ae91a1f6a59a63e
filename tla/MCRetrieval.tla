----------------------------- MODULE MCRetrieval -----------------------------
(***************************************************************************)
(* Instances of Retrieval for TLC: a document with two versions, the first *)
(* with a parent of two children, and a video.                             *)
(***************************************************************************)
EXTENDS Retrieval

CONSTANTS i1, i2, p1, p2, p3

MCItemOf    == [v \in Version |-> IF v = 3 THEN i2 ELSE i1]
MCVersionOf == [p \in Parent |-> IF p = p1 THEN 1 ELSE IF p = p2 THEN 2 ELSE 3]
MCParentOf  == [c \in Child |-> IF c <= 2 THEN p1 ELSE IF c = 3 THEN p2 ELSE p3]
=============================================================================
