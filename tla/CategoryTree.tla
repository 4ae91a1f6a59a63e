----------------------------- MODULE CategoryTree -----------------------------
(***************************************************************************)
(* The directories of the managed library and the requests that edit them  *)
(* (api/content_store.py, api/routes_content.py, api/db_migrations.py).    *)
(*                                                                         *)
(* An action is one request, that is one immediate transaction of          *)
(* app.sqlite.  A row is never removed: a deleted directory keeps its row. *)
(* A code is the number a directory shows: 0 stands for the temporary code *)
(* a row carries inside a transaction; sort orders are counted in tens.    *)
(* Versions are kept by forms: what the browsers show of a row, as long as *)
(* the version sent with it is still the row's.                            *)
(***************************************************************************)
EXTENDS Integers, Sequences, FiniteSets

CONSTANTS
  Names,
  Roots,      \* how many first-level directories the system is created with
  Codes,      \* the codes an administrator types
  Orders,     \* the sort orders an administrator types, in tens
  MaxRows,    \* bound: directories ever created
  MaxForms,   \* bound: forms open at once
  MaxHeld     \* bound: contents and pending folder requests at once

ASSUME TreeAssumption ==
  /\ Roots \in Nat /\ MaxRows \in Nat /\ Roots <= MaxRows
  /\ Codes \subseteq Nat \ {0} /\ Orders \subseteq Nat
  /\ MaxForms \in Nat /\ MaxHeld \in Nat

Top  == 0     \* parent_id IS NULL
Temp == 0

VARIABLES
  tree,    \* category_nodes, in the order of creation
  forms,   \* row -> the row as a browser shows it, with its current version
  items,   \* what directories hold: documents, archived ones, videos, work
  asked    \* content_folder_requests that are pending

vars == <<tree, forms, items, asked>>

Row == [parent : Nat, kind : {"folder", "share", "mirror"}, path : Seq(Names),
        name : Names, code : Nat, order : Nat, level : Int,
        active : BOOLEAN, live : BOOLEAN]

(* The first-level directories of the system, as long as they stay there. *)
Protected(i) == i <= Roots /\ tree[i].parent = Top

Init ==
  /\ tree \in {[i \in 1 .. Roots |->
                  [parent |-> Top, kind |-> "folder", path |-> <<>>, name |-> called[i],
                   code |-> i, order |-> i, level |-> 1, active |-> TRUE, live |-> TRUE]] :
               called \in {f \in [1 .. Roots -> Names] : \A i, k \in 1 .. Roots : f[i] = f[k] => i = k}}
  /\ forms = <<>>
  /\ items = {} /\ asked = {}

----------------------------------------------------------------------------
(* Reading the tree. *)

(* A mutant: inactive siblings are overlooked. *)
SiblingsActive(t, p) == {i \in DOMAIN t : t[i].parent = p /\ t[i].live /\ t[i].active}
Siblings(t, p) == {i \in DOMAIN t : t[i].parent = p /\ t[i].live}

(* The rows of only that the recursive query reaches from row id. *)
Subtree(t, id, only) ==
  LET closed == {S \in SUBSET DOMAIN t :
                   id \in S /\ \A k \in only : t[k].parent \in S => k \in S}
  IN {i \in DOMAIN t : \A S \in closed : i \in S}

Mirrored(t, i) == t[i].kind = "mirror" /\ t[i].live

(* Where a directory may be created or moved to. *)
Receives(t, p) == p = Top \/ (p \in DOMAIN t /\ t[p].active /\ ~Mirrored(t, p))

LevelUnder(t, p) == IF p = Top THEN 1 ELSE t[p].level + 1

NameFree(t, p, name, but) == \A i \in Siblings(t, p) \ {but} : t[i].name # name
CodeFree(t, p, code, but) == \A i \in Siblings(t, p) \ {but} : t[i].code # code

(* The order of the code: numbers first, then what is not a number. *)
CodeBefore(t, i, k) ==
  IF t[i].code = t[k].code THEN i < k
  ELSE t[i].code # Temp /\ (t[k].code = Temp \/ t[i].code < t[k].code)

(* A mutant: siblings are ranked by their sort order. *)
RankByOrder(t, S, i) == Cardinality({k \in S : t[k].order < t[i].order \/ (t[k].order = t[i].order /\ k < i)}) + 1
Rank(t, S, i) == Cardinality({k \in S : CodeBefore(t, k, i)}) + 1

Highest(S) == CHOOSE n \in S \cup {0} : \A k \in S : k <= n

NextCode(t, p)  == Highest({t[i].code : i \in Siblings(t, p)}) + 1
NextOrder(t, p) == Highest({t[i].order : i \in Siblings(t, p)}) + 1

----------------------------------------------------------------------------
(* Numbering siblings anew: a position for each of them. *)

Gapless(t, S) == [i \in S |-> Rank(t, S, i)]

Inserted(t, S, id, at) ==
  [i \in S \cup {id} |->
     IF i = id THEN at
     ELSE LET r == Rank(t, S \ {id}, i) IN IF r < at THEN r ELSE r + 1]

(* A mutant: the sort orders are not compared. *)
MisplacedCodes(read, pos) == {i \in DOMAIN pos : read[i].code # pos[i]}

(* The rows whose code or order, as they were read, is not their place. *)
Misplaced(read, pos) ==
  {i \in DOMAIN pos : read[i].code # pos[i] \/ read[i].order # pos[i]}

(* Nothing is written when no row was read out of place. *)
Rewritten(t, read, pos) ==
  IF Misplaced(read, pos) = {} THEN t
  ELSE [i \in DOMAIN t |-> IF i \in DOMAIN pos
                           THEN [t[i] EXCEPT !.code = pos[i], !.order = pos[i]] ELSE t[i]]

(* The transaction commits: tree t, with the version of the rows of bumped moved. *)
Commit(t, bumped) ==
  /\ tree' = t
  /\ forms' = [i \in DOMAIN forms \ bumped |-> forms[i]]

----------------------------------------------------------------------------
(* The requests. *)

Load(i) ==
  /\ i \in DOMAIN tree /\ tree[i].live
  /\ i \in DOMAIN forms \/ Cardinality(DOMAIN forms) < MaxForms
  /\ forms' = [k \in DOMAIN forms \cup {i} |-> IF k = i THEN tree[i] ELSE forms[k]]
  /\ UNCHANGED <<tree, items, asked>>

Close(i) ==
  /\ i \in DOMAIN forms
  /\ forms' = [k \in DOMAIN forms \ {i} |-> forms[k]]
  /\ UNCHANGED <<tree, items, asked>>

Grown(p, name, code, order) ==
  Append(tree, [parent |-> p, kind |-> "folder", path |-> <<>>, name |-> name,
                code |-> code, order |-> order, level |-> LevelUnder(tree, p),
                active |-> TRUE, live |-> TRUE])

CanCreate(p, name) ==
  /\ Len(tree) < MaxRows
  /\ Receives(tree, p)
  /\ NameFree(tree, p, name, 0)

(* create_category with a code, as the form, an upload and a review do. *)
CreateCoded(p, name, code, order) ==
  /\ CanCreate(p, name)
  /\ CodeFree(tree, p, code, 0)
  /\ Commit(Grown(p, name, code, order), {})
  /\ UNCHANGED <<items, asked>>

(* create_category with a target position. *)
CreateAt(p, name, at) ==
  LET S   == Siblings(tree, p)
      new == Len(tree) + 1
      t   == Grown(p, name, Temp, Cardinality(S) + 1)
      pos == Inserted(t, S, new, at)
  IN /\ CanCreate(p, name)
     /\ at \in 1 .. Cardinality(S) + 1
     /\ Commit(Rewritten(t, t, pos), Misplaced(t, pos) \ {new})
     /\ UNCHANGED <<items, asked>>

(* update_category writes the whole form back. *)
Empty(i) ==
  /\ \A k \in DOMAIN tree : tree[k].parent = i => ~tree[k].active
  /\ \A x \in items : x.at = i => x.kind \notin {"document", "video"}

Update(i, code, name, order, active) ==
  /\ i \in DOMAIN forms
  /\ code # Temp
  /\ Mirrored(tree, i) => name = tree[i].name
  /\ NameFree(tree, tree[i].parent, name, i) /\ CodeFree(tree, tree[i].parent, code, i)
  /\ active \/ Empty(i)
  /\ Commit([tree EXCEPT ![i] = [@ EXCEPT !.code = code, !.name = name, !.order = order,
                                          !.active = active]], {i})
  /\ UNCHANGED <<items, asked>>

(* The form with one field edited. *)
Edit(i) ==
  /\ i \in DOMAIN forms
  /\ LET f == forms[i] IN
     \/ \E c \in Codes : Update(i, c, f.name, f.order, f.active)
     \/ \E o \in Orders : Update(i, f.code, f.name, o, f.active)
     \/ \E n \in Names : Update(i, f.code, n, f.order, f.active)
     \/ Update(i, f.code, f.name, f.order, ~f.active)

Rename(i, name) ==
  /\ i \in DOMAIN forms
  /\ tree[i].kind # "mirror"
  /\ NameFree(tree, tree[i].parent, name, i)
  /\ Commit([tree EXCEPT ![i].name = name], {i})
  /\ UNCHANGED <<items, asked>>

SortOrder(i, order) ==
  /\ i \in DOMAIN forms
  /\ Commit([tree EXCEPT ![i].order = order], {i})
  /\ UNCHANGED <<items, asked>>

Number(i, at) ==
  LET S   == Siblings(tree, tree[i].parent)
      pos == Inserted(tree, S, i, at)
  IN /\ i \in DOMAIN forms
     /\ at \in 1 .. Cardinality(S) /\ at # Rank(tree, S, i)
     /\ Commit(Rewritten(tree, tree, pos), Misplaced(tree, pos))
     /\ UNCHANGED <<items, asked>>

(* A mutant: the levels below stay. *)
ReplantedAlone(i, p) ==
  [tree EXCEPT ![i].parent = p, ![i].code = Temp, ![i].level = LevelUnder(tree, p)]

(* The row under its new parent with a temporary code, all below it at its new level. *)
Replanted(i, p) ==
  LET moved == Subtree(tree, i, DOMAIN tree)
      delta == LevelUnder(tree, p) - tree[i].level
  IN [k \in DOMAIN tree |->
        IF k = i THEN [tree[k] EXCEPT !.parent = p, !.code = Temp, !.level = @ + delta]
        ELSE IF k \in moved THEN [tree[k] EXCEPT !.level = @ + delta] ELSE tree[k]]

(* move_category to the last place under p, or before a directory there. *)
Move(i, p, at) ==
  LET from   == Siblings(tree, tree[i].parent) \ {i}
      to     == Siblings(tree, p) \ {i}
      left   == IF p = tree[i].parent THEN [k \in {} |-> 0] ELSE Gapless(tree, from)
      placed == Inserted(tree, to, i, at)
      source == Rewritten(Replanted(i, p), tree, left)
      below  == IF LevelUnder(tree, p) = tree[i].level THEN {}
                ELSE Subtree(tree, i, DOMAIN tree)
  IN /\ i \in DOMAIN forms
     /\ tree[i].kind # "mirror"
     /\ p # i /\ Receives(tree, p)
     /\ p \notin Subtree(tree, i, DOMAIN tree)
     /\ NameFree(tree, p, tree[i].name, i)
     /\ at \in 1 .. Cardinality(to) + 1
     /\ Commit(Rewritten(source, tree, placed),
               {i} \cup Misplaced(tree, left) \cup Misplaced(tree, placed) \cup below)
     /\ UNCHANGED <<items, asked>>

(* The rows a deletion takes: the live ones below. *)
Doomed(i) == Subtree(tree, i, {k \in DOMAIN tree : tree[k].live})

Prune(i) ==
  LET gone == Doomed(i)
      t    == [k \in DOMAIN tree |-> IF k \in gone /\ tree[k].live
                                     THEN [tree[k] EXCEPT !.live = FALSE, !.active = FALSE]
                                     ELSE tree[k]]
      pos  == Gapless(t, Siblings(t, tree[i].parent))
  IN Commit(Rewritten(t, t, pos), gone \cup Misplaced(t, pos))

(* A mutant: only the directory itself is looked at. *)
DeleteShallow(i) ==
  /\ i \in DOMAIN forms /\ tree[i].live
  /\ tree[i].kind = "folder"
  /\ \A x \in items \cup asked : x.at # i
  /\ Prune(i)
  /\ UNCHANGED <<items, asked>>

Delete(i) ==
  /\ i \in DOMAIN forms /\ tree[i].live
  /\ tree[i].kind = "folder"
  /\ \A x \in items \cup asked : x.at \notin Doomed(i)
  /\ Prune(i)
  /\ UNCHANGED <<items, asked>>

(* force_delete_category: the documents are archived and purged, the work  *)
(* stopped, the requests rejected.                                         *)
ForceDelete(i) ==
  /\ i \in DOMAIN forms /\ tree[i].live
  /\ tree[i].kind = "folder" /\ ~Protected(i)
  /\ \A x \in items : x.at \in Doomed(i) => x.kind # "video"
  /\ Prune(i)
  /\ items' = {x \in items : x.at \notin Doomed(i)}
  /\ asked' = {x \in asked : x.at \notin Doomed(i)}

(* create_folder_request and review_folder_request. *)
Ask(p, name) ==
  /\ p \in DOMAIN tree /\ tree[p].active
  /\ NameFree(tree, p, name, 0)
  /\ [at |-> p, name |-> name] \notin asked
  /\ Cardinality(items) + Cardinality(asked) < MaxHeld
  /\ asked' = asked \cup {[at |-> p, name |-> name]}
  /\ UNCHANGED <<tree, forms, items>>

Approve(x) ==
  /\ CanCreate(x.at, x.name)
  /\ Commit(Grown(x.at, x.name, NextCode(tree, x.at), NextOrder(tree, x.at)), {})
  /\ asked' = asked \ {x}
  /\ UNCHANGED items

Reject(x) ==
  /\ asked' = asked \ {x}
  /\ UNCHANGED <<tree, forms, items>>

(* Content and work come into an active directory, and leave it. *)
File(i, kind) ==
  /\ i \in DOMAIN tree /\ tree[i].active
  /\ Cardinality(items) + Cardinality(asked) < MaxHeld
  /\ items' = items \cup {[at |-> i, kind |-> kind]}
  /\ UNCHANGED <<tree, forms, asked>>

Archive(x) ==
  /\ x.kind = "document"
  /\ items' = (items \ {x}) \cup {[x EXCEPT !.kind = "archived"]}
  /\ UNCHANGED <<tree, forms, asked>>

Leave(x) ==
  /\ items' = items \ {x}
  /\ UNCHANGED <<tree, forms, asked>>

Parents == {Top} \cup DOMAIN tree

Next ==
  \/ \E i \in DOMAIN tree : Load(i)
  \/ \E i \in DOMAIN forms : Close(i)
  \/ \E p \in Parents, n \in Names, c \in Codes, o \in Orders : CreateCoded(p, n, c, o)
  \/ \E p \in Parents, n \in Names, at \in 1 .. Len(tree) + 1 : CreateAt(p, n, at)
  \/ \E i \in DOMAIN forms : Edit(i)
  \/ \E i \in DOMAIN forms, n \in Names : Rename(i, n)
  \/ \E i \in DOMAIN forms, o \in Orders : SortOrder(i, o)
  \/ \E i \in DOMAIN forms, at \in 1 .. Len(tree) : Number(i, at)
  \/ \E i \in DOMAIN forms, p \in Parents, at \in 1 .. Len(tree) : Move(i, p, at)
  \/ \E i \in DOMAIN forms : Delete(i)
  \/ \E i \in DOMAIN forms : ForceDelete(i)
  \/ \E p \in DOMAIN tree, n \in Names : Ask(p, n)
  \/ \E x \in asked : Approve(x)
  \/ \E x \in asked : Reject(x)
  \/ \E i \in DOMAIN tree, kind \in {"document", "video", "work"} : File(i, kind)
  \/ \E x \in items : Archive(x)
  \/ \E x \in items : Leave(x)

Spec == Init /\ [][Next]_vars

----------------------------------------------------------------------------
(* Properties. *)

(* A form that would be accepted shows the row as it is: no request writes *)
(* back a field somebody else has changed since it was loaded.             *)
FormsCurrent == \A i \in DOMAIN forms : forms[i] = tree[i]

(* The level of a directory is its depth, whatever was moved above it and  *)
(* whether it is deleted: there is no cycle for the recursive queries.     *)
LevelsAgree == \A i \in DOMAIN tree : tree[i].level = LevelUnder(tree, tree[i].parent)

(* Nothing is left in a deleted directory, neither directories nor content, *)
(* work or pending requests, unless it was the mirror of a folder: only a   *)
(* reconciliation takes a directory away without looking at what it holds.  *)
NothingStranded ==
  /\ \A i \in DOMAIN tree :
       tree[i].live /\ tree[i].parent # Top =>
         tree[tree[i].parent].live \/ tree[tree[i].parent].kind = "mirror"
  /\ \A x \in items \cup asked : tree[x.at].live \/ tree[x.at].kind = "mirror"

(* Siblings have different names and different codes: the unique index of  *)
(* the codes never stops a request.                                        *)
SiblingsDistinct ==
  \A i, k \in DOMAIN tree :
    /\ i # k /\ tree[i].live /\ tree[k].live
    /\ tree[i].parent = tree[k].parent
    => tree[i].name # tree[k].name /\ tree[i].code # tree[k].code

(* A request changes the place of one directory among its siblings at most: *)
(* the others keep their order however they are numbered anew.  Beside      *)
(* mirrors a reconciliation numbers by sort order, and may change it.       *)
OrderKept ==
  [][LET swapped == {w \in (DOMAIN tree) \X (DOMAIN tree) :
           /\ CodeBefore(tree, w[1], w[2]) /\ CodeBefore(tree', w[2], w[1])
           /\ tree[w[1]].parent = tree[w[2]].parent /\ tree'[w[1]].parent = tree'[w[2]].parent
           /\ \A i \in {w[1], w[2]} : tree[i].live /\ tree'[i].live
           /\ \A m \in Siblings(tree, tree[w[1]].parent) : ~Mirrored(tree, m)}
     IN \E moved \in DOMAIN tree' : \A w \in swapped : moved = w[1] \/ moved = w[2]]_vars
=============================================================================
