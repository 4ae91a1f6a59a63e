---------------------------- MODULE MCSharedMirrors ----------------------------
(***************************************************************************)
(* Instances of SharedMirrors for TLC.                                     *)
(***************************************************************************)
EXTENDS SharedMirrors

CONSTANTS a, b, c,
  MaxOdd,      \* bound: directories deleted, inactive or out of their place
  PlainRows    \* bound: directories where nothing is shared

OneBranch == <<<<a>>, <<a, b>>>>

Odd == {i \in DOMAIN tree :
          ~tree[i].live \/ ~tree[i].active \/ tree[i].code # tree[i].order}

Held == items \cup asked

(* The first directory, and no other, is called c.  A share comes before any
   other directory an administrator creates; then only mirrors get odd, and the
   first directory stays closed; things are held where nothing is shared. *)
FewOdd ==
  /\ Cardinality(Odd) <= MaxOdd
  /\ \A i \in DOMAIN tree : tree[i].name = c <=> i = 1
  /\ IF shareStatus = "none" THEN Len(tree) <= IF Held = {} THEN PlainRows ELSE PlainRows - 1
     ELSE /\ Held = {}
          /\ tree[2].kind = "share" /\ \A i \in Odd : tree[i].kind = "mirror"
          /\ Cardinality({i \in DOMAIN tree : tree[i].kind = "folder"}) <= 2
          /\ 1 \notin DOMAIN forms
=============================================================================
