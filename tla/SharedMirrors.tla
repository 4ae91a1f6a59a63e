----------------------------- MODULE SharedMirrors -----------------------------
(***************************************************************************)
(* A shared folder in the tree of directories: the folders of a network    *)
(* share, mirrored by rows an administrator may number but not move        *)
(* (api/external_media.py, api/routes_content.py).                         *)
(*                                                                         *)
(* A path is the sequence of the names of its folders.  A scan walks the   *)
(* share outside any transaction and reconciles in one; reading the list   *)
(* of directories reconciles too, with the folders of the recorded videos  *)
(* alone.  There is one share: every mirror is below its root.             *)
(***************************************************************************)
EXTENDS CategoryTree, SequencesExt

CONSTANT PathsInOrder   \* the paths of the share: the shorter first, then by name

Paths == Range(PathsInOrder)

ASSUME PathsAssumption ==
  /\ PathsInOrder \in Seq(Seq(Names) \ {<<>>})
  /\ \A p \in Paths : Len(p) > 1 => Front(p) \in Paths
  /\ \A i, k \in DOMAIN PathsInOrder : i < k => Len(PathsInOrder[i]) <= Len(PathsInOrder[k])

VARIABLES
  recorded,    \* the folders of the videos of external_media_entries, whatever their availability
  shareStatus  \* external_media_sources.status of the share, "none" before it is created

mirrorVars == <<vars, recorded, shareStatus>>

(* Sets of folders a walk can find: with a folder, those it is in. *)
Walks == {W \in SUBSET Paths : \A p \in W : Len(p) > 1 => Front(p) \in W}

MirrorInit == Init /\ recorded = {} /\ shareStatus = "none"

ShareRoots(t) == {i \in DOMAIN t : t[i].kind = "share" /\ t[i].live}

----------------------------------------------------------------------------
(* materialize_shared_folder_mirrors: the state of its transaction is the  *)
(* tree, the rows whose version moved, and whether the unique index of the *)
(* codes has stopped it.                                                   *)

Started == [tree |-> tree, bumped |-> {}, ok |-> TRUE]

MirrorsOf(t, path) == {i \in DOMAIN t : Mirrored(t, i) /\ t[i].path = path}

(* The row a mirror hangs from: the mirror of the folder, else the root. *)
Anchor(t, root, path) ==
  LET above == IF Len(path) = 1 THEN {} ELSE MirrorsOf(t, Front(path))
  IN IF above = {} THEN root ELSE CHOOSE i \in above : TRUE

(* A new folder goes to the last place, unless a sibling has its name. *)
AppendMirror(s, root, path) ==
  LET p     == Anchor(s.tree, root, path)
      place == Cardinality(Siblings(s.tree, p)) + 1
      row   == [parent |-> p, kind |-> "mirror", path |-> path, name |-> Last(path),
                code |-> place, order |-> place, level |-> s.tree[p].level + 1,
                active |-> TRUE, live |-> TRUE]
  IN IF ~s.ok \/ MirrorsOf(s.tree, path) # {} \/ ~NameFree(s.tree, p, Last(path), 0) THEN s
     ELSE IF CodeFree(s.tree, p, place, 0) THEN [s EXCEPT !.tree = Append(@, row)]
     ELSE [s EXCEPT !.ok = FALSE]

OrderBefore(t, i, k) ==
  IF t[i].order # t[k].order THEN t[i].order < t[k].order ELSE CodeBefore(t, i, k)

(* The siblings left are numbered one after the other. *)
RenumberMirrors(s, p) ==
  LET S   == Siblings(s.tree, p)
      pos == [i \in S |-> Cardinality({k \in S : OrderBefore(s.tree, k, i)}) + 1]
  IN IF \E i, k \in S : pos[i] < pos[k] /\ s.tree[k].code = pos[i] THEN [s EXCEPT !.ok = FALSE]
     ELSE [s EXCEPT !.tree = Rewritten(@, @, pos), !.bumped = @ \cup Misplaced(s.tree, pos)]

DropMirror(s, i) ==
  IF ~s.ok THEN s
  ELSE RenumberMirrors([s EXCEPT !.tree[i].live = FALSE, !.bumped = @ \cup {i}], s.tree[i].parent)

(* A mutant: only the first folders are looked for. *)
VanishedFirst(t, folders) ==
  {i \in DOMAIN t : Mirrored(t, i) /\ t[i].path \notin folders /\ t[i].parent \in ShareRoots(t)}

(* The mirrors of folders that are gone. *)
Vanished(t, folders) == {i \in DOMAIN t : Mirrored(t, i) /\ t[i].path \notin folders}

(* Those of the deepest folders go first, this one last. *)
LastToGo(t, S) ==
  Max({i \in S : \A k \in S : Len(t[i].path) <= Len(t[k].path)})

Added(root, folders) ==
  FoldLeft(LAMBDA s, path : IF path \in folders THEN AppendMirror(s, root, path) ELSE s,
           Started, PathsInOrder)

Materialized(root, folders) ==
  LET added == Added(root, folders) IN
  MapThenFoldSet(LAMBDA i, s : DropMirror(s, i), added, LAMBDA i : i,
                 LAMBDA S : LastToGo(added.tree, S), Vanished(added.tree, folders))

(* The bound on rows: what the transaction would create fits. *)
Fits(s) == Len(s.tree) <= MaxRows

----------------------------------------------------------------------------

(* post_shared_folder: create_category at the next place, then the kind. *)
Share(p, name) ==
  /\ shareStatus = "none"
  /\ CanCreate(p, name)
  /\ LET t == Grown(p, name, NextCode(tree, p), NextOrder(tree, p)) IN
     Commit([t EXCEPT ![Len(t)].kind = "share"], {})
  /\ shareStatus' = "available"
  /\ UNCHANGED <<items, asked, recorded>>

(* reconcile_source for the folders of a walk; the videos are in some of   *)
(* them, and stay recorded.                                                *)
Scan(walk) ==
  \E root \in ShareRoots(tree) :
    LET s == Materialized(root, walk) IN
    /\ Fits(s)
    /\ IF s.ok
       THEN /\ Commit(s.tree, s.bumped)
            /\ shareStatus' = "available"
            /\ \E some \in Walks : some \subseteq walk /\ recorded' = recorded \cup some
       ELSE /\ shareStatus' = "scan_failed"
            /\ UNCHANGED <<tree, forms, recorded>>
    /\ UNCHANGED <<items, asked>>

(* get_categories; the read that fails changes nothing. *)
List ==
  \E root \in ShareRoots(tree) :
    LET s == Materialized(root, recorded) IN
    /\ Fits(s) /\ s.ok
    /\ Commit(s.tree, s.bumped)
    /\ UNCHANGED <<items, asked, recorded, shareStatus>>

MirrorNext ==
  \/ Next /\ UNCHANGED <<recorded, shareStatus>>
  \/ \E p \in Parents, n \in Names : Share(p, n)
  \/ \E walk \in Walks : Scan(walk)
  \/ List

MirrorSpec == MirrorInit /\ [][MirrorNext]_mirrorVars

----------------------------------------------------------------------------
(* Properties. *)

(* Whatever a scan finds, when it is recorded as done the mirrors are      *)
(* those of the folders it walked.  A folder whose own folder is mirrored  *)
(* has one mirror, unless a sibling of its name stood there when the scan  *)
(* began; the directories that stay keep their names and their settings.   *)
Follows(t, walk) ==
  /\ \A i \in DOMAIN t : Mirrored(t, i) => t[i].path \in walk
  /\ \A path \in walk :
       LET homes == IF Len(path) = 1 THEN ShareRoots(t) ELSE MirrorsOf(t, Front(path)) IN
       \/ Cardinality(MirrorsOf(t, path)) = 1
       \/ /\ MirrorsOf(t, path) = {}
          /\ \A p \in homes : ~NameFree(tree, p, Last(path), 0)
  /\ \A i \in DOMAIN tree : t[i].active = tree[i].active /\ t[i].name = tree[i].name

MirrorsFollow ==
  \A root \in ShareRoots(tree), walk \in Walks :
    LET s == Materialized(root, walk) IN s.ok => Follows(s.tree, walk)
=============================================================================
