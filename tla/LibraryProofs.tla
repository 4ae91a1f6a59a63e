----------------------------- MODULE LibraryProofs -----------------------------
(***************************************************************************)
(* Theorems about the administration of the library.                       *)
(*                                                                         *)
(* About its directories (CategoryTree), for all names, codes and sort     *)
(* orders, any number of directories and any number of open forms: what    *)
(* the forms show, the levels, what deletions leave behind, and that       *)
(* siblings never come to share a name or a code.                          *)
(*                                                                         *)
(* About the bulk operations on it (BulkOperations), for every set of      *)
(* runs, members and request threads and any number of crashes.  What a    *)
(* run reports rests on its having one driver: the request that starts it, *)
(* a place in the queue, or the executor's thread.  The code has no lock   *)
(* that says so; it holds as long as no status was written on a check that *)
(* held no longer.                                                         *)
(***************************************************************************)
EXTENDS SharedMirrors, BulkOperations, SequenceTheorems, FiniteSetTheorems,
        WellFoundedInduction, TLAPS

-----------------------------------------------------------------------------
(* The rows below a row. *)

(* The recursive query reaches its row, with a row those right below it, and
   nothing else: what it reaches beside its row is below something it reaches. *)
LEMMA SubtreeFacts ==
  ASSUME NEW t, NEW id \in DOMAIN t, NEW only \in SUBSET DOMAIN t
  PROVE  /\ id \in Subtree(t, id, only) /\ Subtree(t, id, only) \subseteq DOMAIN t
         /\ \A k \in only : t[k].parent \in Subtree(t, id, only) => k \in Subtree(t, id, only)
         /\ \A k \in Subtree(t, id, only) \ {id} :
              k \in only /\ t[k].parent \in Subtree(t, id, only)
<1> DEFINE closed == {S \in SUBSET DOMAIN t :
                        id \in S /\ \A k \in only : t[k].parent \in S => k \in S}
           T == Subtree(t, id, only)
<1>1. T = {i \in DOMAIN t : \A S \in closed : i \in S}
  BY DEF Subtree
<1>2. DOMAIN t \in closed
  OBVIOUS
<1>3. id \in T /\ T \subseteq DOMAIN t
  BY <1>1
<1>4. ASSUME NEW k \in only, t[k].parent \in T PROVE k \in T
  BY <1>1, <1>4
<1>5. ASSUME NEW k \in T \ {id}, ~ (k \in only /\ t[k].parent \in T) PROVE FALSE
  <2>1. T \ {k} \in SUBSET DOMAIN t /\ id \in T \ {k}
    BY <1>3, <1>5
  <2>2. ASSUME NEW x \in only, t[x].parent \in T \ {k} PROVE x \in T \ {k}
    BY <1>4, <1>5, <2>2
  <2>3. T \ {k} \in closed
    BY <2>1, <2>2
  <2> QED
    BY <1>1, <1>5, <2>3
<1> QED
  BY <1>3, <1>4, <1>5

-----------------------------------------------------------------------------
(* The places of siblings. *)

Numbered(t, S) == S \subseteq DOMAIN t /\ S \subseteq Nat /\ \A i \in S : t[i].code \in Nat

LEMMA CodesOrdered ==
  ASSUME NEW t, NEW S, Numbered(t, S)
  PROVE  /\ \A i, k \in S : i = k \/ CodeBefore(t, i, k) \/ CodeBefore(t, k, i)
         /\ \A i \in S : ~ CodeBefore(t, i, i)
         /\ \A i, k, l \in S : CodeBefore(t, i, k) /\ CodeBefore(t, k, l) => CodeBefore(t, i, l)
  BY DEF Numbered, CodeBefore, Temp

(* The places follow the codes, and no two siblings have the same. *)
LEMMA RankFacts ==
  ASSUME NEW t, NEW S, Numbered(t, S), IsFiniteSet(S)
  PROVE  /\ \A i \in S : Rank(t, S, i) \in Nat /\ Rank(t, S, i) >= 1
         /\ \A i, k \in S : CodeBefore(t, i, k) => Rank(t, S, i) < Rank(t, S, k)
         /\ \A i, k \in S : i # k => Rank(t, S, i) # Rank(t, S, k)
<1> DEFINE before(i) == {k \in S : CodeBefore(t, k, i)}
<1>1. \A i \in S : before(i) \in SUBSET S
  OBVIOUS
<1>2. \A i \in S : Rank(t, S, i) = Cardinality(before(i)) + 1
  BY DEF Rank
<1>3. ASSUME NEW i \in S, NEW k \in S, CodeBefore(t, i, k)
      PROVE  before(i) \in SUBSET before(k) /\ before(i) # before(k)
  BY <1>3, CodesOrdered
<1> HIDE DEF before
<1>4. \A i \in S : IsFiniteSet(before(i)) /\ Cardinality(before(i)) \in Nat
  <2>1. ASSUME NEW i \in S PROVE IsFiniteSet(before(i))
    BY <1>1, FS_Subset
  <2> QED
    BY <2>1, FS_CardinalityType
<1>5. ASSUME NEW i \in S, NEW k \in S, CodeBefore(t, i, k)
      PROVE  Cardinality(before(i)) < Cardinality(before(k))
  <2>1. /\ Cardinality(before(i)) <= Cardinality(before(k))
        /\ Cardinality(before(k)) = Cardinality(before(i)) => before(k) = before(i)
    BY <1>3, <1>4, <1>5, FS_Subset
  <2> QED
    BY <1>3, <1>4, <1>5, <2>1
<1>6. \A i \in S : Rank(t, S, i) \in Nat /\ Rank(t, S, i) >= 1
  BY <1>2, <1>4
<1>7. \A i, k \in S : CodeBefore(t, i, k) => Rank(t, S, i) < Rank(t, S, k)
  BY <1>2, <1>4, <1>5
<1> QED
  BY <1>6, <1>7, CodesOrdered

(* A numbering of siblings: positions from one on, all different, that keep
   the order of the codes but for one row at most. *)
Places(t, pos, S, moved) ==
  /\ pos \in [S -> Nat]
  /\ \A i \in S : pos[i] >= 1
  /\ \A i, k \in S : i # k => pos[i] # pos[k]
  /\ \A i, k \in S \ {moved} : CodeBefore(t, i, k) => pos[i] < pos[k]

LEMMA GaplessPlaces ==
  ASSUME NEW t, NEW S, NEW moved, Numbered(t, S), IsFiniteSet(S)
  PROVE  Places(t, Gapless(t, S), S, moved)
<1>1. Gapless(t, S) \in [S -> Nat] /\ \A i \in S : Gapless(t, S)[i] = Rank(t, S, i)
  BY RankFacts DEF Gapless
<1> QED
  BY <1>1, RankFacts DEF Places

LEMMA InsertedPlaces ==
  ASSUME NEW t, NEW S, NEW id, NEW at \in Nat, at >= 1, Numbered(t, S \ {id}),
         IsFiniteSet(S \ {id})
  PROVE  Places(t, Inserted(t, S, id, at), S \cup {id}, id) /\ Inserted(t, S, id, at)[id] = at
<1> DEFINE Q == S \ {id}
           pos == Inserted(t, S, id, at)
<1>1. DOMAIN pos = S \cup {id} /\ pos[id] = at /\ pos = [i \in S \cup {id} |-> pos[i]]
  BY DEF Inserted
<1>2. \A i \in Q : pos[i] = IF Rank(t, Q, i) < at THEN Rank(t, Q, i) ELSE Rank(t, Q, i) + 1
  BY DEF Inserted
<1>3. /\ \A i \in Q : Rank(t, Q, i) \in Nat /\ Rank(t, Q, i) >= 1
      /\ \A i, k \in Q : CodeBefore(t, i, k) => Rank(t, Q, i) < Rank(t, Q, k)
      /\ \A i, k \in Q : i # k => Rank(t, Q, i) # Rank(t, Q, k)
  BY RankFacts
<1> HIDE DEF pos, Q
<1>4. \A i \in Q : pos[i] \in Nat /\ pos[i] >= 1 /\ pos[i] # at
  BY <1>2, <1>3
<1>5. \A i, k \in Q : i # k => pos[i] # pos[k]
  BY <1>2, <1>3
<1>6. \A i, k \in Q : CodeBefore(t, i, k) => pos[i] < pos[k]
  BY <1>2, <1>3
<1>7. S \cup {id} = Q \cup {id} /\ (S \cup {id}) \ {id} = Q
  BY DEF Q
<1>8. pos \in [S \cup {id} -> Nat]
  BY <1>1, <1>4, <1>7
<1> QED
  BY <1>1, <1>4, <1>5, <1>6, <1>7, <1>8 DEF Places, pos

-----------------------------------------------------------------------------
(* What a tree of directories is made of. *)

IsTree(t) == t \in Seq(Row)

(* What may have something in it: a live directory, or what was a mirror, which
   a scan takes away without looking. *)
Stands(x) == x.live \/ x.kind = "mirror"

Shape(t) ==
  /\ IsTree(t)
  /\ \A i \in DOMAIN t : /\ t[i].parent \in {Top} \cup DOMAIN t
                         /\ t[i].active => Stands(t[i])

Leveled(t) == \A i \in DOMAIN t : t[i].level = LevelUnder(t, t[i].parent)

Housed(t) == \A i \in DOMAIN t : t[i].live /\ t[i].parent # Top => Stands(t[t[i].parent])

Named(t) == \A i, k \in DOMAIN t :
  i # k /\ t[i].live /\ t[k].live /\ t[i].parent = t[k].parent => t[i].name # t[k].name

Coded(t) == \A i, k \in DOMAIN t :
  i # k /\ t[i].live /\ t[k].live /\ t[i].parent = t[k].parent => t[i].code # t[k].code

CodesDiffer(t, S) == \A i, k \in S : i # k => t[i].code # t[k].code

Good(t) == Shape(t) /\ Leveled(t) /\ Housed(t) /\ Named(t) /\ Coded(t)

(* Trees that differ in codes and sort orders alone. *)
Alike(t, u) ==
  /\ DOMAIN u = DOMAIN t
  /\ \A k \in DOMAIN t :
       /\ u[k].parent = t[k].parent /\ u[k].kind = t[k].kind /\ u[k].path = t[k].path
       /\ u[k].name = t[k].name /\ u[k].level = t[k].level
       /\ u[k].active = t[k].active /\ u[k].live = t[k].live

(* Rows stay what they are, none comes back, and the new ones are ordinary. *)
Lasting(t, u) ==
  /\ \A k \in DOMAIN t : /\ k \in DOMAIN u /\ u[k].kind = t[k].kind /\ u[k].path = t[k].path
                         /\ u[k].live => t[k].live
  /\ \A k \in DOMAIN u \ DOMAIN t : u[k].kind = "folder"

Lives(t, u) == \A k \in DOMAIN t : Stands(t[k]) => Stands(u[k])

(* No two rows that stay siblings change their order, but for one row. *)
Ordered(t, u, moved) ==
  \A i, k \in DOMAIN t \ {moved} :
    /\ t[i].live /\ t[k].live /\ t[i].parent = t[k].parent
    /\ u[i].live /\ u[k].live /\ u[i].parent = u[k].parent
    /\ CodeBefore(t, i, k)
    => ~ CodeBefore(u, k, i)

LEMMA TreeFacts ==
  ASSUME NEW t, IsTree(t)
  PROVE  /\ DOMAIN t = 1 .. Len(t) /\ Len(t) \in Nat /\ IsFiniteSet(DOMAIN t)
         /\ DOMAIN t \subseteq Nat \ {0}
         /\ \A i \in DOMAIN t : t[i] \in Row
<1>1. /\ DOMAIN t = 1 .. Len(t) /\ Len(t) \in Nat
      /\ \A i \in DOMAIN t : t[i] \in Row
  BY DEF IsTree
<1>2. IsFiniteSet(DOMAIN t)
  BY <1>1, FS_Interval
<1> QED
  BY <1>1, <1>2

LEMMA SiblingFacts ==
  ASSUME NEW t, IsTree(t), NEW p
  PROVE  /\ Siblings(t, p) \subseteq DOMAIN t /\ IsFiniteSet(Siblings(t, p))
         /\ Numbered(t, Siblings(t, p))
         /\ \A S \in SUBSET Siblings(t, p) : IsFiniteSet(S) /\ Numbered(t, S)
         /\ Cardinality(Siblings(t, p)) \in Nat
<1>1. Siblings(t, p) \subseteq DOMAIN t
  BY DEF Siblings
<1>2. IsFiniteSet(Siblings(t, p))
  BY <1>1, TreeFacts, FS_Subset
<1>3. \A S \in SUBSET Siblings(t, p) : IsFiniteSet(S)
  BY <1>2, FS_Subset
<1>4. \A S \in SUBSET Siblings(t, p) : Numbered(t, S)
  BY <1>1, TreeFacts DEF Numbered, Row
<1> QED
  BY <1>1, <1>2, <1>3, <1>4, FS_CardinalityType

LEMMA ParentFacts ==
  ASSUME NEW t, Shape(t)
  PROVE  /\ IsTree(t)
         /\ \A i \in DOMAIN t : t[i].parent \in {Top} \cup DOMAIN t
         /\ \A i \in DOMAIN t : t[i].active => Stands(t[i])
<1>1. IsTree(t)
  BY DEF Shape
<1>2. \A i \in DOMAIN t : t[i].parent \in {Top} \cup DOMAIN t
  BY DEF Shape
<1>3. \A i \in DOMAIN t : t[i].active => Stands(t[i])
  BY DEF Shape
<1> QED
  BY <1>1, <1>2, <1>3

LEMMA AlikeKeeps ==
  ASSUME NEW t, NEW u, Alike(t, u)
  PROVE  /\ Leveled(t) /\ Shape(t) => Leveled(u)
         /\ Housed(t) /\ Shape(t) => Housed(u)
         /\ Named(t) => Named(u)
         /\ \A p : Siblings(u, p) = Siblings(t, p)
         /\ IsTree(u) /\ Shape(t) => Shape(u)
         /\ Lasting(t, u) /\ Lives(t, u)
<1>1. \A p : Siblings(u, p) = Siblings(t, p)
  BY DEF Alike, Siblings
<1>2. Leveled(t) /\ Shape(t) => Leveled(u)
  <2> SUFFICES ASSUME Leveled(t), Shape(t), NEW i \in DOMAIN u
               PROVE  u[i].level = LevelUnder(u, u[i].parent)
    BY DEF Leveled
  <2>1. i \in DOMAIN t /\ t[i].parent \in {Top} \cup DOMAIN t
    BY ParentFacts DEF Alike
  <2>2. u[i].level = t[i].level /\ u[i].parent = t[i].parent
    BY <2>1 DEF Alike
  <2>3. t[i].level = LevelUnder(t, t[i].parent)
    BY <2>1 DEF Leveled
  <2>4. LevelUnder(u, t[i].parent) = LevelUnder(t, t[i].parent)
    BY <2>1 DEF Alike, LevelUnder
  <2> QED
    BY <2>2, <2>3, <2>4
<1>3. Housed(t) /\ Shape(t) => Housed(u)
  <2> SUFFICES ASSUME Housed(t), Shape(t), NEW i \in DOMAIN u, u[i].live, u[i].parent # Top
               PROVE  Stands(u[u[i].parent])
    BY DEF Housed
  <2>1. i \in DOMAIN t /\ t[i].parent \in {Top} \cup DOMAIN t
    BY ParentFacts DEF Alike
  <2>2. u[i].live = t[i].live /\ u[i].parent = t[i].parent
    BY <2>1 DEF Alike
  <2>3. Stands(t[t[i].parent])
    BY <2>1, <2>2 DEF Housed
  <2> QED
    BY <2>1, <2>2, <2>3 DEF Alike, Stands
<1>4. Named(t) => Named(u)
  BY DEF Alike, Named
<1>5. IsTree(u) /\ Shape(t) => Shape(u)
  BY DEF Alike, Shape, Stands
<1>6. Lasting(t, u) /\ Lives(t, u)
  BY DEF Alike, Lasting, Lives, Stands
<1> QED
  BY <1>1, <1>2, <1>3, <1>4, <1>5, <1>6

LEMMA AlikeTwice ==
  ASSUME NEW t, NEW u, NEW w, Alike(t, u), Alike(u, w)
  PROVE  Alike(t, w)
  BY DEF Alike

-----------------------------------------------------------------------------
(* Siblings numbered anew. *)

(* A sequence of rows given row by row. *)
LEMMA RowsMakeATree ==
  ASSUME NEW t, IsTree(t), NEW u, DOMAIN u = DOMAIN t, u = [k \in DOMAIN t |-> u[k]],
         \A k \in DOMAIN t : u[k] \in Row
  PROVE  IsTree(u)
<1>1. DOMAIN t = 1 .. Len(t) /\ Len(t) \in Nat
  BY TreeFacts
<1>2. u \in [1 .. Len(t) -> Row]
  BY <1>1
<1> QED
  BY <1>1, <1>2, SeqDef DEF IsTree

Put(x, n) == [x EXCEPT !.code = n, !.order = n]

LEMMA RowFacts ==
  ASSUME NEW x \in Row, NEW n \in Nat
  PROVE  /\ Put(x, n) \in Row /\ Put(x, n).code = n /\ Put(x, n).order = n
         /\ Put(x, n).parent = x.parent /\ Put(x, n).kind = x.kind
         /\ Put(x, n).path = x.path /\ Put(x, n).name = x.name
         /\ Put(x, n).level = x.level /\ Put(x, n).active = x.active
         /\ Put(x, n).live = x.live
         /\ x.code = n /\ x.order = n => Put(x, n) = x
  BY DEF Put, Row

(* Tree u is t with the rows of S numbered by pos, unless none was misplaced. *)
Renumbered(t, u, read, pos, S) ==
  /\ IsTree(u) /\ Alike(t, u)
  /\ \A k \in DOMAIN t \ S : u[k] = t[k]
  /\ Misplaced(read, pos) = {} => u = t
  /\ Misplaced(read, pos) # {} => \A k \in S : u[k].code = pos[k]
  /\ \A k \in S \ Misplaced(read, pos) :
       t[k].code = read[k].code /\ t[k].order = read[k].order => u[k] = t[k]

LEMMA RewrittenFacts ==
  ASSUME NEW t, IsTree(t), NEW read, NEW S \in SUBSET DOMAIN t, NEW pos \in [S -> Nat]
  PROVE  Renumbered(t, Rewritten(t, read, pos), read, pos, S)
<1> DEFINE u == Rewritten(t, read, pos)
<1>0. DOMAIN pos = S /\ \A k \in S : pos[k] \in Nat
  OBVIOUS
<1>1. \A k \in DOMAIN t : t[k] \in Row
  BY TreeFacts
<1> SUFFICES Renumbered(t, u, read, pos, S)
  OBVIOUS
<1>2. CASE Misplaced(read, pos) = {}
  <2>1. u = t
    BY <1>2 DEF Rewritten
  <2> HIDE DEF u
  <2>2. Alike(t, u)
    BY <2>1 DEF Alike
  <2> QED
    BY <1>2, <2>1, <2>2 DEF Renumbered
<1>3. CASE Misplaced(read, pos) # {}
  <2>1. u = [k \in DOMAIN t |-> IF k \in S THEN [t[k] EXCEPT !.code = pos[k], !.order = pos[k]]
                                           ELSE t[k]]
    BY <1>0, <1>3 DEF Rewritten
  <2> HIDE DEF u
  <2>2. DOMAIN u = DOMAIN t /\ \A k \in DOMAIN t \ S : u[k] = t[k]
    BY <2>1
  <2>3. \A k \in S : u[k] = [t[k] EXCEPT !.code = pos[k], !.order = pos[k]]
    BY <2>1
  <2>4. u = [k \in DOMAIN t |-> u[k]]
    BY <2>1
  <2>5. ASSUME NEW k \in S
        PROVE  /\ u[k] \in Row /\ u[k].code = pos[k] /\ u[k].order = pos[k]
               /\ u[k].parent = t[k].parent /\ u[k].kind = t[k].kind /\ u[k].path = t[k].path
               /\ u[k].name = t[k].name /\ u[k].level = t[k].level
               /\ u[k].active = t[k].active /\ u[k].live = t[k].live
               /\ t[k].code = pos[k] /\ t[k].order = pos[k] => u[k] = t[k]
    <3>1. t[k] \in Row /\ pos[k] \in Nat /\ u[k] = Put(t[k], pos[k])
      BY <1>0, <1>1, <2>3 DEF Put
    <3>2. u[k] \in Row /\ u[k].code = pos[k] /\ u[k].order = pos[k]
      BY <3>1, RowFacts
    <3>3. /\ u[k].parent = t[k].parent /\ u[k].kind = t[k].kind /\ u[k].path = t[k].path
          /\ u[k].name = t[k].name /\ u[k].level = t[k].level
      BY <3>1, RowFacts
    <3>4. u[k].active = t[k].active /\ u[k].live = t[k].live
      BY <3>1, RowFacts
    <3>5. t[k].code = pos[k] /\ t[k].order = pos[k] => u[k] = t[k]
      BY <3>1, RowFacts
    <3> QED
      BY <3>2, <3>3, <3>4, <3>5
  <2>6. \A k \in DOMAIN t : u[k] \in Row
    BY <1>1, <2>2, <2>5
  <2>7. IsTree(u)
    BY <2>2, <2>4, <2>6, RowsMakeATree
  <2>8. Alike(t, u)
    BY <2>2, <2>5 DEF Alike
  <2>9. \A k \in S \ Misplaced(read, pos) : read[k].code = pos[k] /\ read[k].order = pos[k]
    BY <1>0 DEF Misplaced
  <2> QED
    BY <1>3, <2>2, <2>5, <2>7, <2>8, <2>9 DEF Renumbered
<1> QED
  BY <1>2, <1>3

(* The siblings below p, numbered anew, have different codes, unless nothing
   was written; those of other directories keep theirs. *)
LEMMA RewrittenCodes ==
  ASSUME NEW t, IsTree(t), NEW read, NEW p, NEW pos, NEW old, NEW moved,
         Places(old, pos, Siblings(t, p), moved),
         Misplaced(read, pos) = {} => CodesDiffer(t, Siblings(t, p)), NEW q,
         q # p => CodesDiffer(t, Siblings(t, q)), NEW u, u = Rewritten(t, read, pos)
  PROVE  CodesDiffer(u, Siblings(u, q))
<1>1. Siblings(t, p) \in SUBSET DOMAIN t /\ pos \in [Siblings(t, p) -> Nat]
  BY DEF Siblings, Places
<1>2. /\ Alike(t, u)
      /\ \A k \in DOMAIN t \ Siblings(t, p) : u[k] = t[k]
      /\ Misplaced(read, pos) = {} => u = t
      /\ Misplaced(read, pos) # {} => \A k \in Siblings(t, p) : u[k].code = pos[k]
  <2>1. Renumbered(t, u, read, pos, Siblings(t, p))
    BY <1>1, RewrittenFacts
  <2> QED
    BY <2>1 DEF Renumbered
<1>3. Siblings(u, q) = Siblings(t, q)
  BY <1>2 DEF Alike, Siblings
<1>4. CASE q = p
  <2>1. CASE Misplaced(read, pos) = {}
    BY <1>2, <1>3, <1>4, <2>1
  <2>2. CASE Misplaced(read, pos) # {}
    BY <1>2, <1>3, <1>4, <2>2 DEF CodesDiffer, Places
  <2> QED
    BY <2>1, <2>2
<1>5. CASE q # p
  <2>1. \A k \in Siblings(t, q) : k \in DOMAIN t \ Siblings(t, p)
    BY <1>5 DEF Siblings
  <2> QED
    BY <1>2, <1>3, <1>5, <2>1 DEF CodesDiffer
<1> QED
  BY <1>4, <1>5

(* The siblings of a numbering keep their order, but for the row it places. *)
LEMMA RewrittenOrder ==
  ASSUME NEW t, IsTree(t), NEW read, NEW p, NEW pos, NEW moved,
         Places(t, pos, Siblings(t, p), moved), NEW u, u = Rewritten(t, read, pos)
  PROVE  Ordered(t, u, moved)
<1>1. Siblings(t, p) \in SUBSET DOMAIN t /\ pos \in [Siblings(t, p) -> Nat]
  BY DEF Siblings, Places
<1>2. /\ Alike(t, u) /\ IsTree(u)
      /\ \A k \in DOMAIN t \ Siblings(t, p) : u[k] = t[k]
      /\ Misplaced(read, pos) = {} => u = t
      /\ Misplaced(read, pos) # {} => \A k \in Siblings(t, p) : u[k].code = pos[k]
  <2>1. Renumbered(t, u, read, pos, Siblings(t, p))
    BY <1>1, RewrittenFacts
  <2> QED
    BY <2>1 DEF Renumbered
<1> SUFFICES ASSUME NEW i \in DOMAIN t \ {moved}, NEW k \in DOMAIN t \ {moved},
                    t[i].live, t[k].live, t[i].parent = t[k].parent, CodeBefore(t, i, k),
                    CodeBefore(u, k, i)
             PROVE  FALSE
  BY DEF Ordered
<1>3. t[i].code \in Nat /\ t[k].code \in Nat /\ i \in Nat /\ k \in Nat
  BY TreeFacts DEF Row
<1>4. CASE u[i].code = t[i].code /\ u[k].code = t[k].code
  BY <1>3, <1>4 DEF CodeBefore, Temp
<1>5. CASE i \in Siblings(t, p) /\ k \in Siblings(t, p) /\ Misplaced(read, pos) # {}
  <2>1. pos[i] < pos[k] /\ u[i].code = pos[i] /\ u[k].code = pos[k]
        /\ pos[i] \in Nat /\ pos[k] \in Nat /\ pos[i] >= 1
    BY <1>2, <1>5 DEF Places
  <2> QED
    BY <1>3, <2>1 DEF CodeBefore, Temp
<1>6. i \in Siblings(t, p) <=> k \in Siblings(t, p)
  BY DEF Siblings
<1> QED
  BY <1>2, <1>4, <1>5, <1>6

LEMMA CodedSiblings ==
  ASSUME NEW t
  PROVE  Coded(t) <=> \A q : CodesDiffer(t, Siblings(t, q))
  BY DEF Coded, CodesDiffer, Siblings

-----------------------------------------------------------------------------
(* What a request finds and leaves. *)

Open(t, shown) == \A i \in DOMAIN shown : i \in DOMAIN t /\ shown[i] = t[i] /\ t[i].live

Kinds == {"document", "video", "work", "archived"}

Held(t, things, wishes) ==
  /\ \A x \in things : x \in [at : DOMAIN t, kind : Kinds] /\ Stands(t[x.at])
  /\ \A x \in wishes : x \in [at : DOMAIN t, name : Names] /\ Stands(t[x.at])

(* The inductive invariant. *)
TInv == Good(tree) /\ Open(tree, forms) /\ Held(tree, items, asked)

(* Rows stay, and so do the fields of those whose version does. *)
Kept(t, u, bumped) == DOMAIN t \subseteq DOMAIN u /\ \A k \in DOMAIN t \ bumped : u[k] = t[k]

LEMMA OpenKept ==
  ASSUME NEW u, NEW bumped, Open(tree, forms), Kept(tree, u, bumped), Commit(u, bumped)
  PROVE  Open(tree', forms')
<1>1. /\ tree' = u /\ DOMAIN forms' = DOMAIN forms \ bumped
      /\ \A i \in DOMAIN forms \ bumped : forms'[i] = forms[i]
  BY DEF Commit
<1>2. \A i \in DOMAIN forms \ bumped : i \in DOMAIN u /\ u[i] = tree[i]
  BY DEF Open, Kept
<1> QED
  BY <1>1, <1>2 DEF Open

LEMMA HeldKept ==
  ASSUME NEW t, NEW u, NEW bumped, NEW things, NEW wishes, Kept(t, u, bumped), Lives(t, u),
         Held(t, things, wishes)
  PROVE  Held(u, things, wishes)
  BY DEF Held, Kept, Lives

-----------------------------------------------------------------------------
(* A row is added. *)

(* Tree u is t with row x more. *)
Extended(t, u, x) ==
  /\ Shape(u) /\ Leveled(u) /\ Housed(u) /\ Named(u)
  /\ DOMAIN u = DOMAIN t \cup {Len(t) + 1} /\ Len(t) + 1 \notin DOMAIN t
  /\ \A k \in DOMAIN t : u[k] = t[k]
  /\ Siblings(u, x.parent) = Siblings(t, x.parent) \cup {Len(t) + 1}
  /\ \A q : q # x.parent => Siblings(u, q) = Siblings(t, q)
  /\ u[Len(t) + 1] = x

(* A row x that may stand where it says. *)
Fitting(t, x) ==
  /\ x \in Row /\ x.live /\ x.level = LevelUnder(t, x.parent)
  /\ x.parent = Top \/ (x.parent \in DOMAIN t /\ Stands(t[x.parent]))
  /\ NameFree(t, x.parent, x.name, 0)

LEMMA AppendedFacts ==
  ASSUME NEW t, Good(t), NEW x, Fitting(t, x)
  PROVE  Extended(t, Append(t, x), x)
<1> DEFINE new == Len(t) + 1
           u == Append(t, x)
           p == x.parent
<1>1. /\ Shape(t) /\ IsTree(t) /\ DOMAIN t = 1 .. Len(t) /\ Len(t) \in Nat
      /\ \A k \in DOMAIN t : t[k] \in Row
  BY TreeFacts, ParentFacts DEF Good
<1>2. /\ x \in Row /\ x.live /\ x.level = LevelUnder(t, p) /\ NameFree(t, p, x.name, 0)
      /\ p = Top \/ (p \in DOMAIN t /\ Stands(t[p]))
  BY DEF Fitting
<1>3. new \in Nat /\ new # p /\ new # Top /\ new \notin DOMAIN t
  BY <1>1, <1>2 DEF Top
<1>5. /\ IsTree(u) /\ Len(u) = new /\ DOMAIN u = 1 .. new
      /\ u[new] = x /\ \A k \in 1 .. Len(t) : u[k] = t[k]
  <2> HIDE DEF u
  <2>2. t \in Seq(Row)
    BY <1>1 DEF IsTree
  <2> QED
    BY <1>2, <2>2, AppendProperties DEF IsTree, u
<1> HIDE DEF u
<1>6. DOMAIN u = DOMAIN t \cup {new} /\ \A k \in DOMAIN t : u[k] = t[k]
  BY <1>1, <1>5
<1> HIDE DEF new
<1>7. u[new].parent = p /\ u[new].name = x.name /\ u[new].live /\ u[new].level = LevelUnder(t, p)
  BY <1>2, <1>5
<1> HIDE DEF p
<1>8. Siblings(u, p) = Siblings(t, p) \cup {new}
  BY <1>3, <1>6, <1>7 DEF Siblings
<1>9. \A q : q # p => Siblings(u, q) = Siblings(t, q)
  BY <1>3, <1>6, <1>7 DEF Siblings
<1>10. Shape(u)
  <2>1. \A i \in DOMAIN u : u[i].parent \in {Top} \cup DOMAIN u
    BY <1>1, <1>2, <1>6, <1>7, ParentFacts
  <2>2. \A i \in DOMAIN u : u[i].active => Stands(u[i])
    <3>1. Stands(u[new])
      BY <1>7 DEF Stands
    <3> QED
      BY <1>1, <1>6, <3>1, ParentFacts
  <2> QED
    BY <1>5, <2>1, <2>2 DEF Shape
<1>11. Leveled(u)
  <2> SUFFICES ASSUME NEW i \in DOMAIN u PROVE u[i].level = LevelUnder(u, u[i].parent)
    BY DEF Leveled
  <2>1. \A q \in {Top} \cup DOMAIN t : LevelUnder(u, q) = LevelUnder(t, q)
    BY <1>6 DEF LevelUnder
  <2>2. CASE i \in DOMAIN t
    <3>1. t[i].level = LevelUnder(t, t[i].parent)
      BY <2>2 DEF Good, Leveled
    <3> QED
      BY <1>1, <1>6, <2>1, <2>2, <3>1, ParentFacts
  <2>3. CASE i = new
    BY <1>2, <1>7, <2>1, <2>3
  <2> QED
    BY <1>6, <2>2, <2>3
<1>12. Housed(u)
  <2> SUFFICES ASSUME NEW i \in DOMAIN u, u[i].live, u[i].parent # Top
               PROVE  Stands(u[u[i].parent])
    BY DEF Housed
  <2>1. CASE i \in DOMAIN t
    <3>1. Stands(t[t[i].parent]) /\ t[i].parent \in DOMAIN t
      BY <1>1, <1>6, <2>1, ParentFacts DEF Good, Housed
    <3> QED
      BY <1>6, <2>1, <3>1
  <2>2. CASE i = new
    BY <1>2, <1>6, <1>7, <2>2
  <2> QED
    BY <1>6, <2>1, <2>2
<1>13. Named(u)
  <2>1. \A i \in DOMAIN t : t[i].live /\ t[i].parent = p => t[i].name # x.name
    BY <1>1, <1>2 DEF NameFree, Siblings
  <2>2. Named(t)
    BY DEF Good
  <2> QED
    BY <1>6, <1>7, <2>1, <2>2 DEF Named
<1> QED
  BY <1>3, <1>5, <1>6, <1>8, <1>9, <1>10, <1>11, <1>12, <1>13 DEF Extended, u, new, p

(* With a code that is free, it is a tree of directories again. *)
LEMMA ExtendedGood ==
  ASSUME NEW t, Good(t), NEW u, NEW x, Extended(t, u, x), CodeFree(t, x.parent, x.code, 0)
  PROVE  Good(u)
<1> DEFINE new == Len(t) + 1
           p == x.parent
<1>1. /\ Shape(u) /\ Leveled(u) /\ Housed(u) /\ Named(u)
      /\ new \notin DOMAIN t /\ u[new].code = x.code
      /\ \A k \in DOMAIN t : u[k] = t[k]
      /\ Siblings(u, p) = Siblings(t, p) \cup {new}
      /\ \A q : q # p => Siblings(u, q) = Siblings(t, q)
  BY DEF Extended
<1> HIDE DEF new, p
<1>2. \A i \in Siblings(t, p) : t[i].code # x.code
  <2>1. Siblings(t, p) \ {0} = Siblings(t, p)
    BY ParentFacts, TreeFacts DEF Good, Siblings
  <2> QED
    BY <2>1 DEF CodeFree, p
<1>3. \A q : Siblings(t, q) \subseteq DOMAIN t /\ CodesDiffer(t, Siblings(t, q))
  BY CodedSiblings DEF Good, Siblings
<1>4. ASSUME NEW q PROVE CodesDiffer(u, Siblings(u, q))
  BY <1>1, <1>2, <1>3 DEF CodesDiffer
<1> QED
  BY <1>1, <1>4, CodedSiblings DEF Good

(* The row of a directory that is created, of a share or not. *)
LEMMA GrownFacts ==
  ASSUME Good(tree), NEW p \in Parents, NEW name \in Names, NEW code \in Nat, NEW order \in Nat,
         Receives(tree, p), NameFree(tree, p, name, 0)
  PROVE  \E x : /\ Grown(p, name, code, order) = Append(tree, x) /\ Fitting(tree, x)
               /\ x.parent = p /\ x.code = code /\ x.kind = "folder"
<1>1. /\ Shape(tree) /\ IsTree(tree) /\ DOMAIN tree = 1 .. Len(tree) /\ Len(tree) \in Nat
      /\ \A k \in DOMAIN tree : tree[k] \in Row
  BY TreeFacts, ParentFacts DEF Good
<1>2. /\ p \in Nat
      /\ p = Top \/ (p \in DOMAIN tree /\ Stands(tree[p]) /\ tree[p].level \in Int)
  BY <1>1, ParentFacts DEF Parents, Top, Receives, Row
<1> DEFINE row == [parent |-> p, kind |-> "folder", path |-> <<>>, name |-> name,
                   code |-> code, order |-> order, level |-> LevelUnder(tree, p),
                   active |-> TRUE, live |-> TRUE]
<1>3. LevelUnder(tree, p) \in Int
  BY <1>2 DEF LevelUnder
<1>4. row \in Row
  BY <1>2, <1>3 DEF Row
<1>5. Fitting(tree, row)
  BY <1>2, <1>4 DEF Fitting
<1>6. Grown(p, name, code, order) = Append(tree, row)
  BY DEF Grown
<1> QED
  BY <1>5, <1>6

(* A row only added: the others are as they were. *)
LEMMA AddedFacts ==
  ASSUME NEW t, NEW u, NEW new, IsTree(t), DOMAIN u = DOMAIN t \cup {new},
         \A k \in DOMAIN t : u[k] = t[k]
  PROVE  Kept(t, u, {}) /\ Lives(t, u) /\ \A moved : Ordered(t, u, moved)
<1>1. Kept(t, u, {}) /\ Lives(t, u)
  BY DEF Kept, Lives
<1>2. ASSUME NEW i \in DOMAIN t, NEW k \in DOMAIN t, CodeBefore(t, i, k)
      PROVE  ~ CodeBefore(u, k, i)
  <2>1. t[i].code \in Nat /\ t[k].code \in Nat /\ i \in Nat /\ k \in Nat
    BY TreeFacts DEF Row
  <2> QED
    BY <1>2, <2>1 DEF CodeBefore, Temp
<1> QED
  BY <1>1, <1>2 DEF Ordered

-----------------------------------------------------------------------------
(* What every request that commits has to show. *)

Safe ==
  /\ TInv' /\ Lasting(tree, tree')
  /\ \E moved \in DOMAIN tree' : Ordered(tree, tree', moved)

LEMMA Concluded ==
  ASSUME TInv, NEW u, Good(u), NEW bumped, Kept(tree, u, bumped), Commit(u, bumped),
         Lasting(tree, u), Held(u, items', asked'), NEW moved \in DOMAIN u, Ordered(tree, u, moved)
  PROVE  Safe
<1>1. tree' = u
  BY DEF Commit
<1>2. Open(tree', forms')
  BY OpenKept DEF TInv
<1> QED
  BY <1>1, <1>2 DEF Safe, TInv

LEMMA NumberedAnew ==
  ASSUME NEW t, Shape(t), Leveled(t), Housed(t), Named(t), NEW p, NEW pos, NEW moved,
         Places(t, pos, Siblings(t, p), moved),
         Misplaced(t, pos) = {} => CodesDiffer(t, Siblings(t, p)),
         \A q : q # p => CodesDiffer(t, Siblings(t, q)), NEW u, u = Rewritten(t, t, pos)
  PROVE  /\ Good(u) /\ Alike(t, u) /\ Ordered(t, u, moved)
         /\ Kept(t, u, Misplaced(t, pos)) /\ Lives(t, u) /\ Lasting(t, u)
<1>1. IsTree(t) /\ Siblings(t, p) \in SUBSET DOMAIN t /\ pos \in [Siblings(t, p) -> Nat]
  BY ParentFacts DEF Siblings, Places
<1>2. Renumbered(t, u, t, pos, Siblings(t, p))
  BY <1>1, RewrittenFacts
<1>3. Alike(t, u) /\ IsTree(u)
  BY <1>2 DEF Renumbered
<1>4. Shape(u) /\ Leveled(u) /\ Housed(u) /\ Named(u)
  BY <1>3, AlikeKeeps
<1>5. ASSUME NEW q PROVE CodesDiffer(u, Siblings(u, q))
  BY <1>1, RewrittenCodes
<1>6. Good(u)
  BY <1>4, <1>5, CodedSiblings DEF Good
<1>7. Ordered(t, u, moved)
  BY <1>1, RewrittenOrder
<1>8. Kept(t, u, Misplaced(t, pos)) /\ Lives(t, u) /\ Lasting(t, u)
  <2>1. \A k \in DOMAIN t \ Misplaced(t, pos) : u[k] = t[k]
    BY <1>2 DEF Renumbered
  <2> QED
    BY <1>3, <2>1, AlikeKeeps DEF Alike, Kept
<1> QED
  BY <1>3, <1>6, <1>7, <1>8

LEMMA CreateCodedKeeps ==
  ASSUME TreeAssumption, TInv, NEW p \in Parents, NEW name \in Names, NEW code \in Nat,
         NEW order \in Nat, CanCreate(p, name), CodeFree(tree, p, code, 0),
         Commit(Grown(p, name, code, order), {}), Held(tree, items', asked')
  PROVE  Safe
<1> DEFINE u == Grown(p, name, code, order)
           new == Len(tree) + 1
<1>1. Good(tree) /\ IsTree(tree) /\ Receives(tree, p) /\ NameFree(tree, p, name, 0)
  BY ParentFacts DEF TInv, Good, CanCreate
<1>2. PICK x : u = Append(tree, x) /\ Fitting(tree, x) /\ x.parent = p /\ x.code = code
               /\ x.kind = "folder"
  BY <1>1, GrownFacts
<1>3. Commit(u, {})
  OBVIOUS
<1> HIDE DEF u
<1>4. Extended(tree, u, x)
  BY <1>1, <1>2, AppendedFacts
<1>5. Good(u)
  BY <1>1, <1>2, <1>4, ExtendedGood
<1>6. /\ DOMAIN u = DOMAIN tree \cup {new} /\ u[new].kind = "folder"
      /\ \A k \in DOMAIN tree : u[k] = tree[k]
  BY <1>2, <1>4 DEF Extended
<1> HIDE DEF new
<1>7. Kept(tree, u, {}) /\ Lives(tree, u) /\ Ordered(tree, u, new)
  BY <1>1, <1>6, AddedFacts
<1>8. Lasting(tree, u)
  BY <1>6 DEF Lasting
<1>9. Held(u, items', asked')
  BY <1>7, HeldKept
<1> QED
  BY <1>3, <1>5, <1>6, <1>7, <1>8, <1>9, Concluded

LEMMA CreateAtKeeps ==
  ASSUME TreeAssumption, TInv, NEW p \in Parents, NEW name \in Names, NEW at,
         CreateAt(p, name, at)
  PROVE  Safe
<1> DEFINE S == Siblings(tree, p)
           new == Len(tree) + 1
           t == Grown(p, name, Temp, Cardinality(S) + 1)
           pos == Inserted(t, S, new, at)
           u == Rewritten(t, t, pos)
<1>1. /\ Good(tree) /\ IsTree(tree) /\ Receives(tree, p) /\ NameFree(tree, p, name, 0)
      /\ Cardinality(S) \in Nat /\ S \subseteq DOMAIN tree
  BY ParentFacts, SiblingFacts DEF TInv, Good, CreateAt, CanCreate
<1>2. /\ at \in Nat /\ at >= 1 /\ Commit(u, Misplaced(t, pos) \ {new})
      /\ items' = items /\ asked' = asked
  BY <1>1 DEF CreateAt
<1>3. /\ Shape(t) /\ Leveled(t) /\ Housed(t) /\ Named(t)
      /\ DOMAIN t = DOMAIN tree \cup {new} /\ new \notin DOMAIN tree
      /\ \A k \in DOMAIN tree : t[k] = tree[k]
      /\ Siblings(t, p) = S \cup {new}
      /\ \A q : q # p => Siblings(t, q) = Siblings(tree, q)
      /\ t[new].code = Temp /\ t[new].kind = "folder"
  <2>1. Temp \in Nat /\ Cardinality(S) + 1 \in Nat
    BY <1>1 DEF Temp
  <2>2. PICK x : t = Append(tree, x) /\ Fitting(tree, x) /\ x.parent = p /\ x.code = Temp
                 /\ x.kind = "folder"
    BY <1>1, <2>1, GrownFacts
  <2> HIDE DEF t
  <2>3. Extended(tree, t, x)
    BY <1>1, <2>2, AppendedFacts
  <2> QED
    BY <2>2, <2>3 DEF Extended
<1> HIDE DEF t, new, S
<1>4. Places(t, pos, Siblings(t, p), new) /\ pos[new] = at
  <2>1. S \ {new} = S
    BY <1>1, <1>3
  <2>2. IsFiniteSet(S) /\ Numbered(t, S)
    BY <1>3, ParentFacts, SiblingFacts
  <2> QED
    BY <1>2, <1>3, <2>1, <2>2, InsertedPlaces
<1> HIDE DEF pos
<1>5. new \in Misplaced(t, pos)
  BY <1>2, <1>3, <1>4 DEF Misplaced, Places, Temp
<1>6. \A q : q # p => CodesDiffer(t, Siblings(t, q))
  BY <1>1, <1>3, CodedSiblings DEF Good, CodesDiffer, Siblings
<1>7. /\ Good(u) /\ Alike(t, u) /\ Ordered(t, u, new)
      /\ Kept(t, u, Misplaced(t, pos)) /\ Lives(t, u) /\ Lasting(t, u)
  BY <1>3, <1>4, <1>5, <1>6, NumberedAnew
<1> HIDE DEF u
<1>8. Kept(tree, u, Misplaced(t, pos) \ {new}) /\ Lives(tree, u) /\ Lasting(tree, u)
  BY <1>3, <1>7 DEF Kept, Lives, Lasting
<1>9. Ordered(tree, u, new)
  BY <1>3, <1>7 DEF Ordered, CodeBefore
<1>10. Held(u, items', asked')
  BY <1>2, <1>8, HeldKept DEF TInv
<1>11. new \in DOMAIN u
  BY <1>3, <1>7 DEF Alike
<1> QED
  BY <1>2, <1>7, <1>8, <1>9, <1>10, <1>11, Concluded

LEMMA RowReplaced ==
  ASSUME TInv, NEW i \in DOMAIN tree, tree[i].live, NEW x \in Row, x.parent = tree[i].parent,
         x.level = tree[i].level, x.live, x.kind = tree[i].kind, x.path = tree[i].path,
         NameFree(tree, tree[i].parent, x.name, i), CodeFree(tree, tree[i].parent, x.code, i),
         Commit([tree EXCEPT ![i] = x], {i}), UNCHANGED <<items, asked>>
  PROVE  Safe
<1> DEFINE u == [tree EXCEPT ![i] = x]
<1>1. /\ Good(tree) /\ Shape(tree) /\ IsTree(tree) /\ Leveled(tree) /\ Housed(tree)
      /\ Named(tree) /\ Coded(tree) /\ \A k \in DOMAIN tree : tree[k] \in Row
  BY ParentFacts, TreeFacts DEF TInv, Good
<1>2. /\ DOMAIN u = DOMAIN tree /\ u[i] = x /\ u = [k \in DOMAIN tree |-> u[k]]
      /\ \A k \in DOMAIN tree \ {i} : u[k] = tree[k]
  BY <1>1, TreeFacts
<1>3. Commit(u, {i})
  OBVIOUS
<1> HIDE DEF u
<1>4. IsTree(u)
  BY <1>1, <1>2, RowsMakeATree
<1>5. \A k \in DOMAIN tree : /\ u[k].parent = tree[k].parent /\ u[k].level = tree[k].level
                             /\ u[k].kind = tree[k].kind /\ u[k].path = tree[k].path
                             /\ u[k].live = tree[k].live
  <2>1. \A k \in DOMAIN tree : /\ u[k].parent = tree[k].parent /\ u[k].level = tree[k].level
                               /\ u[k].kind = tree[k].kind /\ u[k].path = tree[k].path
    BY <1>2
  <2>2. u[i].live = tree[i].live
    BY <1>1, <1>2 DEF Row
  <2> QED
    BY <1>2, <2>1, <2>2
<1>6. Shape(u)
  <2>1. \A k \in DOMAIN u : u[k].parent \in {Top} \cup DOMAIN u
    BY <1>1, <1>2, <1>5, ParentFacts
  <2>2. \A k \in DOMAIN u : u[k].active => Stands(u[k])
    BY <1>1, <1>2, ParentFacts DEF Stands
  <2> QED
    BY <1>4, <2>1, <2>2 DEF Shape
<1>7. Leveled(u)
  <2>1. \A q \in {Top} \cup DOMAIN tree : LevelUnder(u, q) = LevelUnder(tree, q)
    BY <1>5 DEF LevelUnder
  <2>2. \A k \in DOMAIN tree : tree[k].parent \in {Top} \cup DOMAIN tree
    BY <1>1, ParentFacts
  <2> QED
    BY <1>1, <1>2, <1>5, <2>1, <2>2 DEF Leveled
<1>8. Housed(u)
  <2>1. \A k \in DOMAIN tree : tree[k].parent \in {Top} \cup DOMAIN tree
    BY <1>1, ParentFacts
  <2> QED
    BY <1>1, <1>2, <1>5, <2>1 DEF Housed, Stands
<1>9. Named(u)
  <2>1. \A k \in DOMAIN tree : k # i /\ tree[k].live /\ tree[k].parent = tree[i].parent
                               => tree[k].name # x.name
    BY DEF NameFree, Siblings
  <2> QED
    BY <1>1, <1>2, <1>5, <2>1 DEF Named
<1>10. Coded(u)
  <2>1. \A k \in DOMAIN tree : k # i /\ tree[k].live /\ tree[k].parent = tree[i].parent
                               => tree[k].code # x.code
    BY DEF CodeFree, Siblings
  <2> QED
    BY <1>1, <1>2, <1>5, <2>1 DEF Coded
<1>11. Kept(tree, u, {i}) /\ Lives(tree, u) /\ Lasting(tree, u)
  BY <1>2, <1>5 DEF Kept, Lives, Stands, Lasting
<1>12. Ordered(tree, u, i)
  <2> SUFFICES ASSUME NEW j \in DOMAIN tree \ {i}, NEW k \in DOMAIN tree \ {i},
                      CodeBefore(tree, j, k)
               PROVE  ~ CodeBefore(u, k, j)
    BY DEF Ordered
  <2>1. tree[j].code \in Nat /\ tree[k].code \in Nat /\ j \in Nat /\ k \in Nat
    BY <1>1, TreeFacts DEF Row
  <2> QED
    BY <1>2, <2>1 DEF CodeBefore, Temp
<1>13. Held(u, items', asked')
  BY <1>11, HeldKept DEF TInv
<1> QED
  BY <1>2, <1>3, <1>6, <1>7, <1>8, <1>9, <1>10, <1>11, <1>12, <1>13, Concluded DEF Good

-----------------------------------------------------------------------------
(* The requests that write one row. *)

Edited(x, code, name, order, on) ==
  [x EXCEPT !.code = code, !.name = name, !.order = order, !.active = on]

LEMMA EditedFacts ==
  ASSUME NEW x \in Row, NEW code \in Nat, NEW name \in Names, NEW order \in Nat,
         NEW on \in BOOLEAN
  PROVE  /\ Edited(x, code, name, order, on) \in Row
         /\ Edited(x, code, name, order, on).code = code
         /\ Edited(x, code, name, order, on).name = name
         /\ Edited(x, code, name, order, on).parent = x.parent
         /\ Edited(x, code, name, order, on).level = x.level
         /\ Edited(x, code, name, order, on).kind = x.kind
         /\ Edited(x, code, name, order, on).path = x.path
  BY DEF Edited, Row

(* A row shown by a form is a live row of the tree. *)
LEMMA ShownFacts ==
  ASSUME TInv, NEW i \in DOMAIN forms
  PROVE  /\ i \in DOMAIN tree /\ tree[i].live /\ forms[i] = tree[i] /\ tree[i] \in Row
         /\ IsTree(tree) /\ i \in Siblings(tree, tree[i].parent) /\ i \in Nat \ {0}
         /\ tree[i].parent \in {Top} \cup DOMAIN tree
<1>1. i \in DOMAIN tree /\ tree[i].live /\ forms[i] = tree[i]
  BY DEF TInv, Open
<1>2. IsTree(tree) /\ tree[i].parent \in {Top} \cup DOMAIN tree
  BY <1>1, ParentFacts DEF TInv, Good
<1>3. tree[i] \in Row /\ i \in Nat \ {0}
  BY <1>1, <1>2, TreeFacts
<1> QED
  BY <1>1, <1>2, <1>3 DEF Siblings

LEMMA UpdateKeeps ==
  ASSUME TInv, NEW i \in DOMAIN forms, NEW code \in Nat, NEW name \in Names, NEW order \in Nat,
         NEW on \in BOOLEAN, Update(i, code, name, order, on)
  PROVE  Safe
<1> DEFINE x == Edited(tree[i], code, name, order, on)
<1>1. i \in DOMAIN tree /\ tree[i].live /\ tree[i] \in Row
  BY ShownFacts
<1>2. /\ NameFree(tree, tree[i].parent, name, i) /\ CodeFree(tree, tree[i].parent, code, i)
      /\ Commit([tree EXCEPT ![i] = x], {i}) /\ UNCHANGED <<items, asked>>
  BY DEF Update, Edited
<1>3. x \in Row /\ x.code = code /\ x.name = name
  BY <1>1, EditedFacts
<1>4. /\ x.parent = tree[i].parent /\ x.level = tree[i].level /\ x.live = tree[i].live
      /\ x.kind = tree[i].kind /\ x.path = tree[i].path
  <2>1. /\ x.parent = tree[i].parent /\ x.level = tree[i].level
        /\ x.kind = tree[i].kind /\ x.path = tree[i].path
    BY <1>1, EditedFacts
  <2>2. x.live = tree[i].live
    BY <1>1 DEF Edited, Row
  <2> QED
    BY <2>1, <2>2
<1> HIDE DEF x
<1> QED
  BY <1>1, <1>2, <1>3, <1>4, RowReplaced

(* Its own name and its own code are free for a row. *)
LEMMA OwnFree ==
  ASSUME TInv, NEW i \in DOMAIN forms
  PROVE  /\ NameFree(tree, tree[i].parent, tree[i].name, i)
         /\ CodeFree(tree, tree[i].parent, tree[i].code, i)
<1>1. i \in DOMAIN tree /\ tree[i].live /\ Named(tree) /\ Coded(tree)
  BY ShownFacts DEF TInv, Good
<1>2. NameFree(tree, tree[i].parent, tree[i].name, i)
  BY <1>1 DEF Named, NameFree, Siblings
<1>3. CodeFree(tree, tree[i].parent, tree[i].code, i)
  BY <1>1 DEF Coded, CodeFree, Siblings
<1> QED
  BY <1>2, <1>3

LEMMA EditKeeps ==
  ASSUME TreeAssumption, TInv, NEW i \in DOMAIN forms, Edit(i)
  PROVE  Safe
<1> DEFINE f == forms[i]
<1>1. f.code \in Nat /\ f.name \in Names /\ f.order \in Nat /\ f.active \in BOOLEAN
  BY ShownFacts DEF Row
<1>2. /\ \A c \in Codes : c \in Nat
      /\ \A o \in Orders : o \in Nat
  BY DEF TreeAssumption
<1>3. \/ \E c \in Codes : Update(i, c, f.name, f.order, f.active)
      \/ \E o \in Orders : Update(i, f.code, f.name, o, f.active)
      \/ \E n \in Names : Update(i, f.code, n, f.order, f.active)
      \/ Update(i, f.code, f.name, f.order, ~f.active)
  BY DEF Edit
<1> HIDE DEF f
<1>4. (~f.active) \in BOOLEAN
  OBVIOUS
<1>5. CASE \E c \in Codes : Update(i, c, f.name, f.order, f.active)
  BY <1>1, <1>2, <1>5, UpdateKeeps
<1>6. CASE \E o \in Orders : Update(i, f.code, f.name, o, f.active)
  BY <1>1, <1>2, <1>6, UpdateKeeps
<1>7. CASE \E n \in Names : Update(i, f.code, n, f.order, f.active)
  BY <1>1, <1>7, UpdateKeeps
<1>8. CASE Update(i, f.code, f.name, f.order, ~f.active)
  BY <1>1, <1>4, <1>8, UpdateKeeps
<1> QED
  BY <1>3, <1>5, <1>6, <1>7, <1>8

LEMMA RenameKeeps ==
  ASSUME TInv, NEW i \in DOMAIN forms, NEW name \in Names, Rename(i, name)
  PROVE  Safe
<1> DEFINE x == [tree[i] EXCEPT !.name = name]
<1>1. i \in DOMAIN tree /\ tree[i].live /\ tree[i] \in Row
  BY ShownFacts
<1>2. /\ NameFree(tree, tree[i].parent, name, i)
      /\ Commit([tree EXCEPT ![i] = x], {i}) /\ UNCHANGED <<items, asked>>
  BY DEF Rename
<1>3. /\ x \in Row /\ x.code = tree[i].code /\ x.name = name
      /\ x.parent = tree[i].parent /\ x.level = tree[i].level
      /\ x.kind = tree[i].kind /\ x.path = tree[i].path
  BY <1>1 DEF Row
<1>4. x.live = tree[i].live
  BY <1>1 DEF Row
<1> HIDE DEF x
<1> QED
  BY <1>1, <1>2, <1>3, <1>4, OwnFree, RowReplaced

LEMMA SortOrderKeeps ==
  ASSUME TInv, NEW i \in DOMAIN forms, NEW order \in Nat, SortOrder(i, order)
  PROVE  Safe
<1> DEFINE x == [tree[i] EXCEPT !.order = order]
<1>1. i \in DOMAIN tree /\ tree[i].live /\ tree[i] \in Row
  BY ShownFacts
<1>2. Commit([tree EXCEPT ![i] = x], {i}) /\ UNCHANGED <<items, asked>>
  BY DEF SortOrder
<1>3. /\ x \in Row /\ x.code = tree[i].code /\ x.name = tree[i].name
      /\ x.parent = tree[i].parent /\ x.level = tree[i].level
      /\ x.kind = tree[i].kind /\ x.path = tree[i].path
  BY <1>1 DEF Row
<1>4. x.live = tree[i].live
  BY <1>1 DEF Row
<1> HIDE DEF x
<1> QED
  BY <1>1, <1>2, <1>3, <1>4, OwnFree, RowReplaced

-----------------------------------------------------------------------------
(* A row takes a place among its siblings. *)

LEMMA NumberKeeps ==
  ASSUME TInv, NEW i \in DOMAIN forms, NEW at, Number(i, at)
  PROVE  Safe
<1> DEFINE p == tree[i].parent
           S == Siblings(tree, p)
           pos == Inserted(tree, S, i, at)
           u == Rewritten(tree, tree, pos)
<1>1. /\ i \in DOMAIN tree /\ i \in S /\ IsTree(tree)
      /\ Shape(tree) /\ Leveled(tree) /\ Housed(tree) /\ Named(tree)
      /\ \A q : CodesDiffer(tree, Siblings(tree, q))
  BY ShownFacts, CodedSiblings DEF TInv, Good
<1>2. /\ at \in 1 .. Cardinality(S) /\ Commit(u, Misplaced(tree, pos))
      /\ UNCHANGED <<items, asked>>
  BY DEF Number
<1>3. Places(tree, pos, S, i)
  <2>1. S \cup {i} = S /\ S \ {i} \in SUBSET S
    BY <1>1
  <2>2. IsFiniteSet(S \ {i}) /\ Numbered(tree, S \ {i}) /\ Cardinality(S) \in Nat
    BY <1>1, <2>1, SiblingFacts
  <2>3. at \in Nat /\ at >= 1
    BY <1>2, <2>2
  <2> HIDE DEF S
  <2> QED
    BY <2>1, <2>2, <2>3, InsertedPlaces
<1> HIDE DEF pos
<1>4. /\ Good(u) /\ Alike(tree, u) /\ Ordered(tree, u, i)
      /\ Kept(tree, u, Misplaced(tree, pos)) /\ Lives(tree, u) /\ Lasting(tree, u)
  BY <1>1, <1>3, NumberedAnew
<1> HIDE DEF u
<1>5. Held(u, items', asked')
  BY <1>2, <1>4, HeldKept DEF TInv
<1>6. i \in DOMAIN u
  BY <1>1, <1>4 DEF Alike
<1> QED
  BY <1>2, <1>4, <1>5, <1>6, Concluded

-----------------------------------------------------------------------------
(* A directory is deleted with all that is live below it. *)

Dead(x) == [x EXCEPT !.live = FALSE, !.active = FALSE]

LEMMA DeadFacts ==
  ASSUME NEW x \in Row
  PROVE  /\ Dead(x) \in Row /\ ~ Dead(x).live /\ ~ Dead(x).active
         /\ Dead(x).parent = x.parent /\ Dead(x).level = x.level
         /\ Dead(x).name = x.name /\ Dead(x).code = x.code
         /\ Dead(x).kind = x.kind /\ Dead(x).path = x.path
  BY DEF Dead, Row

(* Tree u is t with the live rows of gone deleted. *)
Cut(t, u, gone) ==
  /\ IsTree(u) /\ DOMAIN u = DOMAIN t
  /\ \A k \in DOMAIN t \ gone : u[k] = t[k]
  /\ \A k \in DOMAIN t : /\ u[k].parent = t[k].parent /\ u[k].level = t[k].level
                         /\ u[k].name = t[k].name /\ u[k].code = t[k].code
                         /\ u[k].kind = t[k].kind /\ u[k].path = t[k].path
                         /\ u[k].live => t[k].live /\ k \notin gone
                         /\ u[k].active => Stands(u[k])

LEMMA CutFacts ==
  ASSUME NEW t, Shape(t), NEW gone, NEW u,
         u = [k \in DOMAIN t |-> IF k \in gone /\ t[k].live THEN Dead(t[k]) ELSE t[k]]
  PROVE  Cut(t, u, gone)
<1>1. IsTree(t) /\ \A k \in DOMAIN t : t[k] \in Row
  BY ParentFacts, TreeFacts
<1>2. \A k \in DOMAIN t : t[k].active => Stands(t[k])
  BY ParentFacts
<1>3. /\ DOMAIN u = DOMAIN t /\ u = [k \in DOMAIN t |-> u[k]]
      /\ \A k \in DOMAIN t \ gone : u[k] = t[k]
      /\ \A k \in DOMAIN t : ~ t[k].live => u[k] = t[k]
      /\ \A k \in DOMAIN t : k \in gone /\ t[k].live => u[k] = Dead(t[k])
  OBVIOUS
<1>4. ASSUME NEW k \in DOMAIN t
      PROVE  /\ u[k] \in Row
             /\ u[k].parent = t[k].parent /\ u[k].level = t[k].level
             /\ u[k].name = t[k].name /\ u[k].code = t[k].code
             /\ u[k].kind = t[k].kind /\ u[k].path = t[k].path
             /\ u[k].live => t[k].live /\ k \notin gone
             /\ u[k].active => Stands(u[k])
  <2>1. CASE k \notin gone \/ ~ t[k].live
    BY <1>1, <1>2, <1>3, <2>1
  <2>2. CASE k \in gone /\ t[k].live
    BY <1>1, <1>3, <2>2, DeadFacts
  <2> QED
    BY <2>1, <2>2
<1>5. IsTree(u)
  BY <1>1, <1>3, <1>4, RowsMakeATree
<1> QED
  BY <1>3, <1>4, <1>5 DEF Cut

(* What is left is a tree again, when no live row is left below those gone. *)
LEMMA CutKeeps ==
  ASSUME NEW t, Good(t), NEW gone, NEW u, Cut(t, u, gone),
         \A k \in DOMAIN t : t[k].live /\ t[k].parent \in gone => k \in gone
  PROVE  Good(u)
<1>1. /\ Shape(t) /\ Leveled(t) /\ Housed(t) /\ Named(t) /\ Coded(t)
      /\ \A k \in DOMAIN t : t[k].parent \in {Top} \cup DOMAIN t
  BY ParentFacts DEF Good
<1>2. IsTree(u) /\ DOMAIN u = DOMAIN t
  BY DEF Cut
<1>3. Shape(u)
  <2>1. \A k \in DOMAIN u : u[k].parent \in {Top} \cup DOMAIN u
    BY <1>1 DEF Cut
  <2>2. \A k \in DOMAIN u : u[k].active => Stands(u[k])
    BY DEF Cut
  <2> QED
    BY <1>2, <2>1, <2>2 DEF Shape
<1>4. Leveled(u)
  <2>1. \A q \in {Top} \cup DOMAIN t : LevelUnder(u, q) = LevelUnder(t, q)
    BY DEF Cut, LevelUnder
  <2>2. \A k \in DOMAIN t : u[k].parent = t[k].parent /\ u[k].level = t[k].level
    BY DEF Cut
  <2> QED
    BY <1>1, <1>2, <2>1, <2>2 DEF Leveled
<1>5. Housed(u)
  <2> SUFFICES ASSUME NEW k \in DOMAIN u, u[k].live, u[k].parent # Top
               PROVE  Stands(u[u[k].parent])
    BY DEF Housed
  <2>1. k \in DOMAIN t /\ t[k].live /\ k \notin gone /\ u[k].parent = t[k].parent
    BY <1>2 DEF Cut
  <2>2. t[k].parent \in DOMAIN t \ gone /\ Stands(t[t[k].parent])
    BY <1>1, <2>1 DEF Housed
  <2>3. u[t[k].parent] = t[t[k].parent]
    BY <2>2 DEF Cut
  <2> QED
    BY <2>1, <2>2, <2>3
<1>6. Named(u)
  BY <1>1 DEF Cut, Named
<1>7. Coded(u)
  BY <1>1 DEF Cut, Coded
<1> QED
  BY <1>3, <1>4, <1>5, <1>6, <1>7 DEF Good

LEMMA PruneKeeps ==
  ASSUME TInv, NEW i \in DOMAIN forms, Prune(i), items' \subseteq items, asked' \subseteq asked,
         \A x \in items' \cup asked' : x.at \notin Doomed(i)
  PROVE  Safe
<1> DEFINE gone == Doomed(i)
           alive == {k \in DOMAIN tree : tree[k].live}
           t == [k \in DOMAIN tree |-> IF k \in gone /\ tree[k].live THEN Dead(tree[k])
                                      ELSE tree[k]]
           p == tree[i].parent
           pos == Gapless(t, Siblings(t, p))
           u == Rewritten(t, t, pos)
<1>1. i \in DOMAIN tree /\ Good(tree) /\ Shape(tree) /\ IsTree(tree)
  BY ShownFacts DEF TInv, Good
<1>2. Commit(u, gone \cup Misplaced(t, pos))
  BY DEF Prune, Dead
<1>3. \A k \in DOMAIN tree : tree[k].live /\ tree[k].parent \in gone => k \in gone
  <2>1. alive \in SUBSET DOMAIN tree /\ gone = Subtree(tree, i, alive)
    BY DEF Doomed
  <2> HIDE DEF gone
  <2> QED
    BY <1>1, <2>1, SubtreeFacts
<1>4. \A x \in items' \cup asked' : x.at \notin gone
  OBVIOUS
<1> HIDE DEF gone, alive
<1>5. Cut(tree, t, gone)
  BY <1>1, CutFacts
<1> HIDE DEF t
<1>6. Good(t) /\ IsTree(t)
  BY <1>1, <1>3, <1>5, CutKeeps DEF Cut
<1>7. Places(t, pos, Siblings(t, p), i)
  BY <1>6, SiblingFacts, GaplessPlaces
<1> HIDE DEF pos, p
<1>8. /\ Good(u) /\ Alike(t, u) /\ Ordered(t, u, i)
      /\ Kept(t, u, Misplaced(t, pos)) /\ Lives(t, u)
  BY <1>6, <1>7, NumberedAnew, CodedSiblings DEF Good
<1> HIDE DEF u
<1>9. Kept(tree, u, gone \cup Misplaced(t, pos))
  BY <1>5, <1>8 DEF Kept, Cut
<1>10. Ordered(tree, u, i)
  <2>1. \A k \in DOMAIN tree : /\ t[k].parent = tree[k].parent /\ t[k].code = tree[k].code
                               /\ u[k].live = t[k].live
    BY <1>5, <1>8 DEF Cut, Alike
  <2>2. DOMAIN t = DOMAIN tree
    BY <1>5 DEF Cut
  <2>3. \A k \in DOMAIN tree : u[k].parent = t[k].parent
    BY <1>8, <2>2 DEF Alike
  <2> QED
    BY <1>8, <2>1, <2>2, <2>3 DEF Ordered, CodeBefore
<1>11. \A x \in items' \cup asked' :
          x.at \in DOMAIN tree => Stands(u[x.at]) = Stands(tree[x.at])
  BY <1>4, <1>5, <1>8 DEF Cut, Alike, Stands
<1>12. DOMAIN u = DOMAIN tree
  BY <1>5, <1>8 DEF Cut, Alike
<1>13. Held(u, items', asked')
  BY <1>11, <1>12 DEF Held, TInv
<1>14. Lasting(tree, u)
  BY <1>5, <1>8 DEF Lasting, Cut, Alike
<1> QED
  BY <1>1, <1>2, <1>8, <1>9, <1>10, <1>12, <1>13, <1>14, Concluded

LEMMA DeleteKeeps ==
  ASSUME TInv, NEW i \in DOMAIN forms, Delete(i) \/ ForceDelete(i)
  PROVE  Safe
<1>1. CASE Delete(i)
  BY <1>1, PruneKeeps DEF Delete
<1>2. CASE ForceDelete(i)
  <2>1. /\ Prune(i) /\ items' \subseteq items /\ asked' \subseteq asked
        /\ \A x \in items' \cup asked' : x.at \notin Doomed(i)
    BY <1>2 DEF ForceDelete
  <2> QED
    BY <2>1, PruneKeeps
<1> QED
  BY <1>1, <1>2

-----------------------------------------------------------------------------
(* A directory moves, with all below it. *)

Planted(x, p, d) == [x EXCEPT !.parent = p, !.code = Temp, !.level = @ + d]
Lifted(x, d) == [x EXCEPT !.level = @ + d]

HigherRow(y, x, d) ==
  /\ y \in Row /\ y.parent = x.parent /\ y.code = x.code /\ y.order = x.order
  /\ y.name = x.name /\ y.live = x.live /\ y.active = x.active /\ y.level = x.level + d
  /\ y.kind = x.kind /\ y.path = x.path
  /\ d = 0 => y = x

MovedRow(y, x, p, d) ==
  /\ y \in Row /\ y.parent = p /\ y.code = Temp /\ y.level = x.level + d
  /\ y.name = x.name /\ y.live = x.live /\ y.active = x.active
  /\ y.kind = x.kind /\ y.path = x.path

LEMMA LiftFacts ==
  ASSUME NEW x \in Row, NEW d \in Int, NEW p \in Nat
  PROVE  HigherRow(Lifted(x, d), x, d) /\ MovedRow(Planted(x, p, d), x, p, d)
<1>1. x.level \in Int /\ Temp \in Nat /\ x.level + d \in Int /\ (d = 0 => x.level + d = x.level)
  BY DEF Row, Temp
<1>2. /\ Lifted(x, d) \in Row /\ Lifted(x, d).parent = x.parent /\ Lifted(x, d).code = x.code
      /\ Lifted(x, d).order = x.order
      /\ Lifted(x, d).name = x.name /\ Lifted(x, d).level = x.level + d
      /\ Lifted(x, d).kind = x.kind /\ Lifted(x, d).path = x.path
  BY <1>1 DEF Lifted, Row
<1>3. Lifted(x, d).live = x.live /\ Lifted(x, d).active = x.active
  BY <1>1 DEF Lifted, Row
<1>4. d = 0 => Lifted(x, d) = x
  BY <1>1 DEF Lifted, Row
<1>5. /\ Planted(x, p, d) \in Row /\ Planted(x, p, d).parent = p
      /\ Planted(x, p, d).code = Temp /\ Planted(x, p, d).level = x.level + d
      /\ Planted(x, p, d).name = x.name
      /\ Planted(x, p, d).kind = x.kind /\ Planted(x, p, d).path = x.path
  BY <1>1 DEF Planted, Row
<1>6. Planted(x, p, d).live = x.live /\ Planted(x, p, d).active = x.active
  BY <1>1 DEF Planted, Row
<1> QED
  BY <1>2, <1>3, <1>4, <1>5, <1>6 DEF HigherRow, MovedRow

(* Tree u is t with row i below p, without a number, and the rows below it
   at their new level. *)
Rehung(t, u, i, p, below) ==
  /\ Shape(u) /\ Leveled(u) /\ Housed(u) /\ Named(u) /\ DOMAIN u = DOMAIN t
  /\ Lasting(t, u) /\ Lives(t, u)
  /\ u[i].parent = p /\ u[i].code = Temp /\ u[i].live
  /\ \A k \in DOMAIN t \ {i} : /\ u[k].parent = t[k].parent /\ u[k].live = t[k].live
                               /\ u[k].code = t[k].code /\ u[k].order = t[k].order
  /\ \A k \in DOMAIN t \ {i} :
       k \notin below \/ LevelUnder(t, p) = t[i].level => u[k] = t[k]

LEMMA ReplantedFacts ==
  ASSUME Good(tree), NEW i \in DOMAIN tree, tree[i].live, NEW p \in Parents, Receives(tree, p),
         p \notin Subtree(tree, i, DOMAIN tree), NameFree(tree, p, tree[i].name, i)
  PROVE  Rehung(tree, Replanted(i, p), i, p, Subtree(tree, i, DOMAIN tree))
<1> DEFINE below == Subtree(tree, i, DOMAIN tree)
           d == LevelUnder(tree, p) - tree[i].level
           u == Replanted(i, p)
<1>1. /\ Shape(tree) /\ IsTree(tree) /\ \A k \in DOMAIN tree : tree[k] \in Row
      /\ \A k \in DOMAIN tree : tree[k].parent \in {Top} \cup DOMAIN tree
      /\ \A k \in DOMAIN tree : tree[k].active => Stands(tree[k])
      /\ DOMAIN tree \subseteq Nat \ {0}
  BY ParentFacts, TreeFacts DEF Good
<1>2. /\ i \in below /\ below \subseteq DOMAIN tree
      /\ \A k \in DOMAIN tree : tree[k].parent \in below => k \in below
      /\ \A k \in below \ {i} : tree[k].parent \in below
  <2>1. DOMAIN tree \in SUBSET DOMAIN tree
    OBVIOUS
  <2> QED
    BY <2>1, SubtreeFacts
<1>3. p \in Nat /\ (p = Top \/ (p \in DOMAIN tree /\ Stands(tree[p])))
  BY <1>1 DEF Parents, Top, Receives
<1>4. LevelUnder(tree, p) \in Int /\ tree[i].level \in Int /\ d \in Int
      /\ tree[i].level + d = LevelUnder(tree, p) /\ (LevelUnder(tree, p) = tree[i].level => d = 0)
  <2>1. tree[i].level \in Int /\ (p # Top => tree[p].level \in Int)
    BY <1>1, <1>3 DEF Row
  <2>2. LevelUnder(tree, p) \in Int
    BY <2>1 DEF LevelUnder
  <2> HIDE DEF d
  <2>3. d = LevelUnder(tree, p) - tree[i].level
    BY DEF d
  <2> QED
    BY <2>1, <2>2, <2>3
<1>5. /\ DOMAIN u = DOMAIN tree /\ u = [k \in DOMAIN tree |-> u[k]]
      /\ u[i] = Planted(tree[i], p, d)
      /\ \A k \in below \ {i} : u[k] = Lifted(tree[k], d)
      /\ \A k \in DOMAIN tree \ below : u[k] = tree[k]
  BY <1>2 DEF Replanted, Planted, Lifted
<1> HIDE DEF below, d, u
<1>6. /\ u[i] \in Row /\ u[i].parent = p /\ u[i].code = Temp /\ u[i].level = tree[i].level + d
      /\ u[i].name = tree[i].name /\ u[i].live = tree[i].live /\ u[i].active = tree[i].active
      /\ u[i].kind = tree[i].kind /\ u[i].path = tree[i].path
  <2>1. MovedRow(u[i], tree[i], p, d)
    BY <1>1, <1>3, <1>4, <1>5, LiftFacts
  <2> QED
    BY <2>1 DEF MovedRow
<1>7. \A k \in below \ {i} :
        /\ u[k] \in Row /\ u[k].parent = tree[k].parent /\ u[k].code = tree[k].code
        /\ u[k].order = tree[k].order
        /\ u[k].name = tree[k].name /\ u[k].live = tree[k].live
        /\ u[k].active = tree[k].active /\ u[k].level = tree[k].level + d
        /\ u[k].kind = tree[k].kind /\ u[k].path = tree[k].path
        /\ d = 0 => u[k] = tree[k]
  <2>1. \A k \in below \ {i} : HigherRow(u[k], tree[k], d)
    <3>1. ASSUME NEW k \in below \ {i} PROVE HigherRow(Lifted(tree[k], d), tree[k], d)
      BY <1>1, <1>2, <1>3, <1>4, LiftFacts
    <3> QED
      BY <1>5, <3>1
  <2> QED
    BY <2>1 DEF HigherRow
<1>8. \A k \in DOMAIN tree : /\ u[k] \in Row /\ u[k].name = tree[k].name
                             /\ u[k].live = tree[k].live /\ u[k].active = tree[k].active
                             /\ u[k].kind = tree[k].kind /\ u[k].path = tree[k].path
  BY <1>1, <1>5, <1>6, <1>7
<1>9. \A k \in DOMAIN tree \ {i} : u[k].parent = tree[k].parent /\ u[k].code = tree[k].code
                                 /\ u[k].order = tree[k].order
  BY <1>5, <1>7
<1>10. IsTree(u)
  BY <1>1, <1>5, <1>8, RowsMakeATree
<1>11. Shape(u)
  <2>1. \A k \in DOMAIN u : u[k].parent \in {Top} \cup DOMAIN u
    BY <1>1, <1>3, <1>5, <1>6, <1>9
  <2>2. \A k \in DOMAIN u : u[k].active => Stands(u[k])
    BY <1>1, <1>5, <1>8 DEF Stands
  <2> QED
    BY <1>10, <2>1, <2>2 DEF Shape
<1>12. Leveled(u)
  <2> SUFFICES ASSUME NEW k \in DOMAIN u PROVE u[k].level = LevelUnder(u, u[k].parent)
    BY DEF Leveled
  <2>1. \A q \in {Top} \cup (DOMAIN tree \ below) : LevelUnder(u, q) = LevelUnder(tree, q)
    BY <1>5 DEF LevelUnder
  <2>2. ASSUME NEW q \in below PROVE LevelUnder(u, q) = LevelUnder(tree, q) + d
    <3>1. u[q].level = tree[q].level + d /\ tree[q].level \in Int /\ q # Top
      BY <1>1, <1>2, <1>6, <1>7, <2>2 DEF Row, Top
    <3> QED
      BY <1>4, <3>1 DEF LevelUnder
  <2>3. tree[k].level = LevelUnder(tree, tree[k].parent) /\ k \in DOMAIN tree
    BY <1>5 DEF Good, Leveled
  <2>4. CASE k = i
    <3>1. p \in {Top} \cup (DOMAIN tree \ below)
      BY <1>3 DEF below
    <3> QED
      BY <1>4, <1>6, <2>1, <2>4, <3>1
  <2>5. CASE k \in below \ {i}
    BY <1>2, <1>7, <2>2, <2>3, <2>5
  <2>6. CASE k \notin below
    <3>1. tree[k].parent \in {Top} \cup (DOMAIN tree \ below)
      BY <1>1, <1>2, <2>3, <2>6
    <3> QED
      BY <1>5, <2>1, <2>3, <2>6, <3>1
  <2> QED
    BY <2>4, <2>5, <2>6
<1>13. Housed(u)
  <2> SUFFICES ASSUME NEW k \in DOMAIN u, u[k].live, u[k].parent # Top
               PROVE  Stands(u[u[k].parent])
    BY DEF Housed
  <2>1. CASE k = i
    BY <1>3, <1>6, <1>8, <2>1 DEF Stands
  <2>2. CASE k # i
    <3>1. tree[k].live /\ u[k].parent = tree[k].parent /\ tree[k].parent \in DOMAIN tree
      BY <1>1, <1>5, <1>8, <1>9, <2>2
    <3>2. Stands(tree[tree[k].parent])
      BY <1>5, <3>1 DEF Good, Housed
    <3> QED
      BY <1>8, <3>1, <3>2 DEF Stands
  <2> QED
    BY <2>1, <2>2
<1>14. Named(u)
  <2>1. \A k \in DOMAIN tree : k # i /\ tree[k].live /\ tree[k].parent = p
                             => tree[k].name # tree[i].name
    BY DEF NameFree, Siblings
  <2>2. Named(tree)
    BY DEF Good
  <2> QED
    BY <1>5, <1>6, <1>8, <1>9, <2>1, <2>2 DEF Named
<1>15. \A k \in DOMAIN tree \ {i} :
         k \notin below \/ LevelUnder(tree, p) = tree[i].level => u[k] = tree[k]
  BY <1>4, <1>5, <1>7
<1>16. Lasting(tree, u) /\ Lives(tree, u)
  BY <1>5, <1>8 DEF Lasting, Lives, Stands
<1> QED
  BY <1>5, <1>6, <1>8, <1>9, <1>11, <1>12, <1>13, <1>14, <1>15, <1>16 DEF Rehung, u, below

(* Tree w is u with the siblings that row i leaves numbered anew by pos, as
   they were read in t. *)
Sourced(t, u, w, pos, i, p) ==
  /\ IsTree(w) /\ Alike(u, w) /\ Ordered(u, w, i)
  /\ \A k \in DOMAIN u \ Misplaced(t, pos) : w[k] = u[k]
  /\ \A k \in Siblings(u, p) : w[k] = u[k]
  /\ \A q : q # p => CodesDiffer(w, Siblings(w, q))

LEMMA SourceFacts ==
  ASSUME Good(tree), NEW i \in DOMAIN tree, tree[i].live, NEW p \in Parents, NEW u,
         Rehung(tree, u, i, p, Subtree(tree, i, DOMAIN tree)), NEW pos,
         pos = IF p = tree[i].parent THEN [k \in {} |-> 0]
               ELSE Gapless(tree, Siblings(tree, tree[i].parent) \ {i})
  PROVE  Sourced(tree, u, Rewritten(u, tree, pos), pos, i, p)
<1> DEFINE w == Rewritten(u, tree, pos)
           home == tree[i].parent
           left == Siblings(tree, home) \ {i}
<1>1. /\ IsTree(tree) /\ Shape(u) /\ IsTree(u) /\ DOMAIN u = DOMAIN tree
      /\ \A q : CodesDiffer(tree, Siblings(tree, q))
  BY ParentFacts, CodedSiblings DEF Good, Rehung
<1>2. \A q : Siblings(u, q) = IF q = p THEN (Siblings(tree, p) \ {i}) \cup {i}
                             ELSE Siblings(tree, q) \ {i}
  BY DEF Rehung, Siblings
<1>3. \A q : q # p => CodesDiffer(u, Siblings(u, q))
  <2>1. ASSUME NEW q, q # p, NEW j \in Siblings(u, q), NEW k \in Siblings(u, q), j # k
        PROVE  u[j].code # u[k].code
    <3>1. j \in Siblings(tree, q) \ {i} /\ k \in Siblings(tree, q) \ {i}
      BY <1>2, <2>1
    <3>2. tree[j].code # tree[k].code
      BY <1>1, <2>1, <3>1 DEF CodesDiffer
    <3>3. j \in DOMAIN tree /\ k \in DOMAIN tree
      BY <3>1 DEF Siblings
    <3> QED
      BY <3>1, <3>2, <3>3 DEF Rehung
  <2> QED
    BY <2>1 DEF CodesDiffer
<1>4. CASE p = home
  <2>1. Misplaced(tree, pos) = {} /\ w = u
    BY <1>4 DEF Misplaced, Rewritten
  <2> HIDE DEF w
  <2>2. Alike(u, w)
    BY <2>1 DEF Alike
  <2>3. Ordered(u, w, i)
    <3>1. \A k \in DOMAIN u : u[k].code \in Nat /\ k \in Nat
      BY <1>1, TreeFacts DEF Row
    <3> QED
      BY <2>1, <3>1 DEF Ordered, CodeBefore, Temp
  <2> QED
    BY <1>1, <1>3, <2>1, <2>2, <2>3 DEF Sourced, w
<1>5. CASE p # home
  <2>1. pos = Gapless(tree, left) /\ left = Siblings(u, home) /\ left \in SUBSET DOMAIN u
    BY <1>1, <1>2, <1>5 DEF Siblings
  <2>2. Places(tree, pos, left, i)
    <3>1. left \in SUBSET Siblings(tree, home)
      OBVIOUS
    <3>2. IsFiniteSet(left) /\ Numbered(tree, left)
      BY <1>1, <3>1, SiblingFacts
    <3> QED
      BY <2>1, <3>2, GaplessPlaces
  <2> HIDE DEF left, home, w
  <2>3. pos \in [left -> Nat]
    BY <2>2 DEF Places
  <2>4. Renumbered(u, w, tree, pos, left)
    BY <1>1, <2>1, <2>3, RewrittenFacts DEF w
  <2>5. IsTree(w) /\ Alike(u, w)
    BY <2>4 DEF Renumbered
  <2>6. \A k \in left :
        k \in DOMAIN tree \ {i} /\ u[k].code = tree[k].code /\ u[k].order = tree[k].order
    BY DEF left, Siblings, Rehung
  <2>7. \A k \in DOMAIN u \ Misplaced(tree, pos) : w[k] = u[k]
    BY <2>4, <2>6 DEF Renumbered
  <2>8. \A k \in Siblings(u, p) : w[k] = u[k]
    <3>1. \A k \in Siblings(u, p) : k \in DOMAIN u \ left
      BY <1>5, <2>1 DEF Siblings, home
    <3> QED
      BY <2>4, <3>1 DEF Renumbered
  <2>9. Ordered(u, w, i)
    <3>1. \A j, k \in left : CodeBefore(u, j, k) <=> CodeBefore(tree, j, k)
      BY <2>6 DEF CodeBefore
    <3>2. Places(u, pos, left, i)
      BY <2>2, <3>1 DEF Places
    <3> QED
      BY <1>1, <2>1, <3>2, RewrittenOrder DEF w
  <2>10. ASSUME NEW q, q # p PROVE CodesDiffer(w, Siblings(w, q))
    <3>1. CodesDiffer(u, Siblings(u, home)) /\ CodesDiffer(u, Siblings(u, q))
      BY <1>3, <1>5, <2>10 DEF home
    <3> QED
      BY <1>1, <2>1, <2>2, <3>1, RewrittenCodes DEF w
  <2> QED
    BY <2>5, <2>7, <2>8, <2>9, <2>10 DEF Sourced, w
<1> QED
  BY <1>4, <1>5

LEMMA MoveKeeps ==
  ASSUME TInv, NEW i \in DOMAIN forms, NEW p \in Parents, NEW at, Move(i, p, at)
  PROVE  Safe
<1> DEFINE from   == Siblings(tree, tree[i].parent) \ {i}
           to     == Siblings(tree, p) \ {i}
           left   == IF p = tree[i].parent THEN [k \in {} |-> 0] ELSE Gapless(tree, from)
           placed == Inserted(tree, to, i, at)
           hung   == Replanted(i, p)
           source == Rewritten(hung, tree, left)
           all    == Subtree(tree, i, DOMAIN tree)
           below  == IF LevelUnder(tree, p) = tree[i].level THEN {} ELSE all
           u      == Rewritten(source, tree, placed)
           bumped == {i} \cup Misplaced(tree, left) \cup Misplaced(tree, placed) \cup below
<1>1. /\ i \in DOMAIN tree /\ tree[i].live /\ Good(tree) /\ IsTree(tree)
      /\ \A q : CodesDiffer(tree, Siblings(tree, q))
  BY ShownFacts, CodedSiblings DEF TInv, Good
<1>2. /\ Receives(tree, p) /\ p \notin all /\ NameFree(tree, p, tree[i].name, i)
      /\ at \in 1 .. Cardinality(to) + 1
      /\ Commit(u, bumped) /\ UNCHANGED <<items, asked>>
  BY DEF Move
<1>3. to \in SUBSET Siblings(tree, p) /\ i \notin to /\ to \ {i} = to /\ to \subseteq DOMAIN tree
  BY DEF Siblings
<1>4. IsFiniteSet(to) /\ Numbered(tree, to) /\ Cardinality(to) \in Nat
  <2> HIDE DEF to
  <2> QED
    BY <1>1, <1>3, SiblingFacts, FS_CardinalityType
<1>5. Rehung(tree, hung, i, p, all)
  BY <1>1, <1>2, ReplantedFacts
<1> HIDE DEF hung, all
<1>6. Sourced(tree, hung, source, left, i, p)
  BY <1>1, <1>5, SourceFacts DEF all
<1> HIDE DEF source, left, from
<1>7. Siblings(hung, p) = to \cup {i} /\ DOMAIN hung = DOMAIN tree
  BY <1>1, <1>5 DEF Rehung, Siblings
<1> HIDE DEF to
<1>8. Places(tree, placed, to \cup {i}, i) /\ placed[i] = at /\ at \in Nat
  BY <1>2, <1>3, <1>4, InsertedPlaces
<1> HIDE DEF placed
<1>9. /\ IsTree(source) /\ Alike(hung, source) /\ DOMAIN source = DOMAIN tree
      /\ Shape(source) /\ Leveled(source) /\ Housed(source) /\ Named(source)
      /\ Siblings(source, p) = to \cup {i}
  <2>1. IsTree(source) /\ Alike(hung, source)
    BY <1>6 DEF Sourced
  <2>2. Shape(hung) /\ Leveled(hung) /\ Housed(hung) /\ Named(hung)
    BY <1>5 DEF Rehung
  <2> QED
    BY <1>7, <2>1, <2>2, AlikeKeeps DEF Alike
<1>10. /\ source[i].code = Temp
       /\ \A k \in to : source[k].code = tree[k].code /\ source[k].order = tree[k].order
  <2>1. \A k \in to \cup {i} : source[k] = hung[k]
    BY <1>6, <1>7 DEF Sourced
  <2> QED
    BY <1>3, <1>5, <2>1 DEF Rehung
<1>11. placed \in [to \cup {i} -> Nat] /\ to \cup {i} \in SUBSET DOMAIN source
  BY <1>1, <1>3, <1>8, <1>9 DEF Places
<1>12. Renumbered(source, u, tree, placed, to \cup {i})
  BY <1>9, <1>11, RewrittenFacts
<1>13. ASSUME NEW q PROVE CodesDiffer(u, Siblings(u, q))
  <2>1. q # p => CodesDiffer(source, Siblings(source, q))
    BY <1>6 DEF Sourced
  <2>2. Misplaced(tree, placed) = {} => CodesDiffer(source, Siblings(source, p))
    <3> SUFFICES ASSUME Misplaced(tree, placed) = {} PROVE CodesDiffer(source, to \cup {i})
      BY <1>9
    <3>1. \A k \in to : tree[k].code = placed[k] /\ placed[k] >= 1 /\ placed[k] \in Nat
      BY <1>8, <1>11 DEF Misplaced, Places
    <3>2. \A j, k \in to : j # k => tree[j].code # tree[k].code
      BY <1>1, <1>3 DEF CodesDiffer
    <3>3. \A k \in to : source[k].code # source[i].code
      BY <1>10, <3>1 DEF Temp
    <3> QED
      BY <1>10, <3>2, <3>3 DEF CodesDiffer
  <2> QED
    BY <1>8, <1>9, <2>1, <2>2, RewrittenCodes
<1>14. Ordered(source, u, i)
  <2>1. \A j, k \in to : CodeBefore(source, j, k) <=> CodeBefore(tree, j, k)
    BY <1>10 DEF CodeBefore
  <2>2. Places(source, placed, to \cup {i}, i)
    BY <1>8, <2>1 DEF Places
  <2> QED
    BY <1>9, <2>2, RewrittenOrder
<1> HIDE DEF u
<1>15. IsTree(u) /\ Alike(source, u)
  BY <1>12 DEF Renumbered
<1>16. Good(u)
  <2>1. Shape(u) /\ Leveled(u) /\ Housed(u) /\ Named(u)
    BY <1>9, <1>15, AlikeKeeps
  <2> QED
    BY <1>13, <2>1, CodedSiblings DEF Good
<1>17. Alike(hung, u) /\ DOMAIN u = DOMAIN tree
  BY <1>9, <1>15, AlikeTwice DEF Alike
<1>18. \A k \in DOMAIN tree \ bumped : u[k] = tree[k]
  <2> SUFFICES ASSUME NEW k \in DOMAIN tree, k # i, k \notin Misplaced(tree, left),
                      k \notin Misplaced(tree, placed), k \notin below
               PROVE  u[k] = tree[k]
    OBVIOUS
  <2>1. hung[k] = tree[k]
    BY <1>5 DEF Rehung
  <2>2. source[k] = hung[k]
    BY <1>6, <1>7 DEF Sourced
  <2>3. u[k] = source[k]
    <3>1. CASE k \in to
      BY <1>10, <1>12, <3>1 DEF Renumbered
    <3>2. CASE k \notin to
      BY <1>9, <1>12, <3>2 DEF Renumbered
    <3> QED
      BY <3>1, <3>2
  <2> QED
    BY <2>1, <2>2, <2>3
<1>19. Lives(tree, u) /\ Lasting(tree, u)
  <2>1. Lives(hung, u) /\ Lasting(hung, u)
    BY <1>17, AlikeKeeps
  <2>2. Lives(tree, hung) /\ Lasting(tree, hung)
    BY <1>5 DEF Rehung
  <2> QED
    BY <1>7, <2>1, <2>2 DEF Lives, Lasting
<1>20. Ordered(tree, u, i)
  <2> SUFFICES ASSUME NEW j \in DOMAIN tree \ {i}, NEW k \in DOMAIN tree \ {i},
                      tree[j].live, tree[k].live, tree[j].parent = tree[k].parent,
                      CodeBefore(tree, j, k), CodeBefore(u, k, j)
               PROVE  FALSE
    BY DEF Ordered
  <2>1. /\ hung[j].parent = tree[j].parent /\ hung[k].parent = tree[k].parent
        /\ hung[j].live /\ hung[k].live
        /\ hung[j].code = tree[j].code /\ hung[k].code = tree[k].code
    BY <1>5 DEF Rehung
  <2>2. /\ source[j].parent = hung[j].parent /\ source[k].parent = hung[k].parent
        /\ source[j].live /\ source[k].live
        /\ u[j].parent = hung[j].parent /\ u[k].parent = hung[k].parent
        /\ u[j].live /\ u[k].live
    BY <1>7, <1>9, <1>17, <2>1 DEF Alike
  <2>3. CodeBefore(hung, j, k)
    BY <2>1 DEF CodeBefore
  <2>4. j = k \/ CodeBefore(source, j, k) \/ CodeBefore(source, k, j)
    <3>1. \A x \in {j, k} : source[x].code \in Nat /\ x \in Nat
      BY <1>9, TreeFacts DEF Row
    <3> QED
      BY <3>1 DEF CodeBefore, Temp
  <2>5. ~ CodeBefore(source, k, j)
    BY <1>6, <1>7, <2>1, <2>2, <2>3 DEF Sourced, Ordered
  <2>6. j # k
    BY <1>1, TreeFacts DEF CodeBefore
  <2> QED
    BY <1>9, <1>14, <2>1, <2>2, <2>4, <2>5, <2>6 DEF Ordered
<1>21. Kept(tree, u, bumped)
  BY <1>17, <1>18 DEF Kept
<1> HIDE DEF bumped
<1>22. Held(u, items', asked')
  BY <1>2, <1>19, <1>21, HeldKept DEF TInv
<1> QED
  BY <1>1, <1>2, <1>16, <1>17, <1>19, <1>20, <1>21, <1>22, Concluded

-----------------------------------------------------------------------------
(* The numbers an approval gives. *)

(* A finite set of naturals that is not empty has a greatest element. *)
LEMMA HasGreatest ==
  ASSUME NEW S \in SUBSET Nat, IsFiniteSet(S), S # {}
  PROVE  \E x \in S : \A y \in S : y <= x
<1> DEFINE above(k) == {n \in S : n >= k}
           tails == {above(k) : k \in S}
<1>1. tails \subseteq FiniteSubsetsOf(S) /\ tails # {}
  <2>1. ASSUME NEW k \in S PROVE above(k) \in SUBSET S /\ IsFiniteSet(above(k))
    <3>1. above(k) \in SUBSET S
      OBVIOUS
    <3> HIDE DEF above
    <3> QED
      BY <3>1, FS_Subset
  <2> HIDE DEF above
  <2> QED
    BY <2>1 DEF FiniteSubsetsOf
<1>2. PICK T \in tails : \A U \in tails : ~ (<<U, T>> \in StrictSubsetOrdering(S))
  BY ONLY <1>1, IsFiniteSet(S), WFMin, FS_StrictSubsetOrderingWellFounded
<1>3. PICK x \in S : T = above(x)
  BY <1>2
<1>4. ASSUME NEW y \in S, ~ (y <= x) PROVE FALSE
  <2>1. above(y) \subseteq above(x) /\ above(y) # above(x)
    <3>1. x \in above(x) /\ x \notin above(y)
      BY <1>4
    <3>2. \A n \in S : n >= y => n >= x
      BY <1>4
    <3> QED
      BY <3>1, <3>2
  <2>2. <<above(y), above(x)>> \in StrictSubsetOrdering(S)
    <3> HIDE DEF above
    <3> QED
      BY <2>1 DEF StrictSubsetOrdering, above
  <2> QED
    BY <1>2, <1>3, <1>4, <2>2
<1> QED
  BY <1>4

LEMMA HighestFacts ==
  ASSUME NEW Q, IsFiniteSet(Q), NEW f \in [Q -> Nat], NEW S, S = {f[i] : i \in Q}
  PROVE  Highest(S) \in Nat /\ \A i \in Q : f[i] <= Highest(S)
<1>1. S \in SUBSET Nat
  OBVIOUS
<1>2. IsFiniteSet(S)
  <2>1. f \in Surjection(Q, S)
    BY DEF Surjection
  <2> QED
    BY <2>1, FS_Surjection
<1>3. \E n \in S \cup {0} : \A k \in S : k <= n
  <2>1. CASE S = {}
    BY <2>1
  <2>2. CASE S # {}
    BY <1>1, <1>2, <2>2, HasGreatest
  <2> QED
    BY <2>1, <2>2
<1>4. Highest(S) \in S \cup {0} /\ \A k \in S : k <= Highest(S)
  BY <1>3 DEF Highest
<1> QED
  BY <1>1, <1>4

(* The next code and the next sort order are numbers, and the code is free. *)
LEMMA NextFacts ==
  ASSUME Good(tree), NEW p
  PROVE  /\ NextCode(tree, p) \in Nat /\ NextOrder(tree, p) \in Nat
         /\ CodeFree(tree, p, NextCode(tree, p), 0)
<1> DEFINE Q == Siblings(tree, p)
           codes == {tree[i].code : i \in Q}
           orders == {tree[i].order : i \in Q}
           f == [i \in Q |-> tree[i].code]
           g == [i \in Q |-> tree[i].order]
<1>1. IsTree(tree) /\ IsFiniteSet(Q) /\ Q \subseteq DOMAIN tree
  BY ParentFacts, SiblingFacts DEF Good
<1>2. \A i \in Q : tree[i].code \in Nat /\ tree[i].order \in Nat
  BY <1>1, TreeFacts DEF Row
<1> HIDE DEF Q
<1>3. f \in [Q -> Nat] /\ g \in [Q -> Nat]
  BY <1>2
<1>4. codes = {f[i] : i \in Q} /\ orders = {g[i] : i \in Q}
  OBVIOUS
<1>5. \A i \in Q : f[i] = tree[i].code
  OBVIOUS
<1>6. NextCode(tree, p) = Highest(codes) + 1 /\ NextOrder(tree, p) = Highest(orders) + 1
  BY DEF NextCode, NextOrder, Q
<1> HIDE DEF f, g, codes, orders
<1>7. Highest(codes) \in Nat /\ (\A i \in Q : f[i] <= Highest(codes)) /\ Highest(orders) \in Nat
  <2>1. Highest(codes) \in Nat /\ \A i \in Q : f[i] <= Highest(codes)
    BY <1>1, <1>3, <1>4, HighestFacts
  <2>2. Highest(orders) \in Nat
    BY <1>1, <1>3, <1>4, HighestFacts
  <2> QED
    BY <2>1, <2>2
<1>8. \A i \in Q : tree[i].code # NextCode(tree, p)
  BY <1>2, <1>5, <1>6, <1>7
<1> QED
  BY <1>6, <1>7, <1>8 DEF CodeFree, Q

LEMMA ApproveKeeps ==
  ASSUME TreeAssumption, TInv, NEW x \in asked, Approve(x)
  PROVE  Safe
<1>1. x.at \in Parents /\ x.name \in Names
  BY DEF TInv, Held, Parents
<1>2. /\ CanCreate(x.at, x.name)
      /\ Commit(Grown(x.at, x.name, NextCode(tree, x.at), NextOrder(tree, x.at)), {})
      /\ items' = items /\ asked' \subseteq asked
  BY DEF Approve
<1>3. /\ NextCode(tree, x.at) \in Nat /\ NextOrder(tree, x.at) \in Nat
      /\ CodeFree(tree, x.at, NextCode(tree, x.at), 0)
  BY NextFacts DEF TInv
<1>4. Held(tree, items', asked')
  BY <1>2 DEF TInv, Held
<1> QED
  BY <1>1, <1>2, <1>3, <1>4, CreateCodedKeeps

-----------------------------------------------------------------------------
(* The steps that leave the tree alone. *)

LEMMA StillSafe ==
  ASSUME TInv, tree' = tree, Open(tree, forms'), Held(tree, items', asked'), DOMAIN tree # {}
  PROVE  Safe
<1>1. TInv'
  BY DEF TInv
<1>2. IsTree(tree)
  BY ParentFacts DEF TInv, Good
<1>3. \A k \in DOMAIN tree : tree[k].code \in Nat /\ k \in Nat
  BY <1>2, TreeFacts DEF Row
<1>4. \A moved : Ordered(tree, tree, moved)
  BY <1>3 DEF Ordered, CodeBefore, Temp
<1>5. Lasting(tree, tree)
  BY DEF Lasting
<1> QED
  BY <1>1, <1>4, <1>5 DEF Safe

LEMMA FormsKeep ==
  ASSUME TInv, (\E i \in DOMAIN tree : Load(i)) \/ (\E i \in DOMAIN forms : Close(i))
  PROVE  Safe
<1>1. Open(tree, forms) /\ Held(tree, items, asked)
  BY DEF TInv
<1>2. ASSUME NEW i \in DOMAIN tree, Load(i) PROVE Safe
  <2>1. /\ tree' = tree /\ items' = items /\ asked' = asked /\ tree[i].live
        /\ forms' = [k \in DOMAIN forms \cup {i} |-> IF k = i THEN tree[i] ELSE forms[k]]
    BY <1>2 DEF Load
  <2>2. Open(tree, forms')
    BY <1>1, <2>1 DEF Open
  <2> QED
    BY <1>1, <2>1, <2>2, StillSafe
<1>3. ASSUME NEW i \in DOMAIN forms, Close(i) PROVE Safe
  <2>1. /\ tree' = tree /\ items' = items /\ asked' = asked
        /\ forms' = [k \in DOMAIN forms \ {i} |-> forms[k]]
    BY <1>3 DEF Close
  <2>2. Open(tree, forms')
    BY <1>1, <2>1 DEF Open
  <2>3. DOMAIN tree # {}
    BY ShownFacts
  <2> QED
    BY <1>1, <2>1, <2>2, <2>3, StillSafe
<1> QED
  BY <1>2, <1>3

LEMMA HoldingsKeep ==
  ASSUME TInv,
         \/ \E p \in DOMAIN tree, n \in Names : Ask(p, n)
         \/ \E x \in asked : Reject(x)
         \/ \E i \in DOMAIN tree, kind \in {"document", "video", "work"} : File(i, kind)
         \/ \E x \in items : Archive(x)
         \/ \E x \in items : Leave(x)
  PROVE  Safe
<1>1. Open(tree, forms) /\ Held(tree, items, asked) /\ Shape(tree)
  BY DEF TInv, Good
<1>2. tree' = tree /\ forms' = forms
  BY DEF Ask, Reject, File, Archive, Leave
<1>3. \A i \in DOMAIN tree : tree[i].active => Stands(tree[i])
  BY <1>1, ParentFacts
<1>4. ASSUME NEW p \in DOMAIN tree, NEW n \in Names, Ask(p, n)
      PROVE  Held(tree, items', asked') /\ DOMAIN tree # {}
  BY <1>1, <1>3, <1>4 DEF Ask, Held
<1>5. ASSUME NEW x \in asked, Reject(x)
      PROVE  Held(tree, items', asked') /\ DOMAIN tree # {}
  BY <1>1, <1>5 DEF Reject, Held
<1>6. ASSUME NEW i \in DOMAIN tree, NEW kind \in {"document", "video", "work"}, File(i, kind)
      PROVE  Held(tree, items', asked') /\ DOMAIN tree # {}
  BY <1>1, <1>3, <1>6 DEF File, Held, Kinds
<1>7. ASSUME NEW x \in items, Archive(x)
      PROVE  Held(tree, items', asked') /\ DOMAIN tree # {}
  <2>1. /\ asked' = asked
        /\ items' = (items \ {x}) \cup {[x EXCEPT !.kind = "archived"]}
    BY <1>7 DEF Archive
  <2>2. x \in [at : DOMAIN tree, kind : Kinds] /\ Stands(tree[x.at])
    BY <1>1 DEF Held
  <2>3. /\ [x EXCEPT !.kind = "archived"] \in [at : DOMAIN tree, kind : Kinds]
        /\ [x EXCEPT !.kind = "archived"].at = x.at
    BY <2>2 DEF Kinds
  <2> QED
    BY <1>1, <2>1, <2>2, <2>3 DEF Held
<1>8. ASSUME NEW x \in items, Leave(x)
      PROVE  Held(tree, items', asked') /\ DOMAIN tree # {}
  BY <1>1, <1>8 DEF Leave, Held
<1>9. Held(tree, items', asked') /\ DOMAIN tree # {}
  BY <1>4, <1>5, <1>6, <1>7, <1>8
<1> QED
  BY <1>1, <1>2, <1>9, StillSafe

-----------------------------------------------------------------------------
(* The invariant. *)

LEMMA TInvInit == TreeAssumption /\ Init => TInv
<1> SUFFICES ASSUME TreeAssumption, Init PROVE TInv
  OBVIOUS
<1>1. PICK called \in [1 .. Roots -> Names] :
        /\ \A i, k \in 1 .. Roots : called[i] = called[k] => i = k
        /\ tree = [i \in 1 .. Roots |->
                     [parent |-> Top, kind |-> "folder", path |-> <<>>, name |-> called[i],
                      code |-> i, order |-> i, level |-> 1, active |-> TRUE, live |-> TRUE]]
  BY DEF Init
<1>2. forms = <<>> /\ items = {} /\ asked = {} /\ Roots \in Nat
  BY DEF Init, TreeAssumption
<1>3. DOMAIN tree = 1 .. Roots /\ tree = [i \in 1 .. Roots |-> tree[i]]
  BY <1>1
<1>4. ASSUME NEW i \in 1 .. Roots
      PROVE  /\ tree[i] \in Row /\ tree[i].parent = Top /\ tree[i].name = called[i]
             /\ tree[i].code = i /\ tree[i].level = 1 /\ tree[i].active /\ tree[i].live
  <2>1. tree[i] = [parent |-> Top, kind |-> "folder", path |-> <<>>, name |-> called[i],
                   code |-> i, order |-> i, level |-> 1, active |-> TRUE, live |-> TRUE]
    BY <1>1
  <2>2. i \in Nat /\ called[i] \in Names /\ Top \in Nat
    BY <1>2 DEF Top
  <2> QED
    BY <2>1, <2>2 DEF Row
<1>5. IsTree(tree)
  <2>1. tree \in [1 .. Roots -> Row]
    BY <1>3, <1>4
  <2> QED
    BY <1>2, <2>1, SeqDef DEF IsTree
<1>6. Shape(tree)
  <2>1. \A i \in DOMAIN tree : tree[i].parent \in {Top} \cup DOMAIN tree
    BY <1>3, <1>4
  <2>2. \A i \in DOMAIN tree : tree[i].active => Stands(tree[i])
    BY <1>3, <1>4 DEF Stands
  <2> QED
    BY <1>5, <2>1, <2>2 DEF Shape
<1>7. Leveled(tree) /\ Housed(tree)
  BY <1>3, <1>4 DEF Leveled, Housed, LevelUnder
<1>8. Named(tree) /\ Coded(tree)
  BY <1>1, <1>3, <1>4 DEF Named, Coded
<1>9. Open(tree, forms) /\ Held(tree, items, asked)
  <2>1. DOMAIN forms = {}
    BY <1>2
  <2> QED
    BY <1>2, <2>1 DEF Open, Held
<1> QED
  BY <1>6, <1>7, <1>8, <1>9 DEF TInv, Good

LEMMA StepSafe ==
  ASSUME TreeAssumption, TInv, Next
  PROVE  Safe
<1>0. Codes \subseteq Nat /\ Orders \subseteq Nat
  BY DEF TreeAssumption
<1>1. CASE (\E i \in DOMAIN tree : Load(i)) \/ (\E i \in DOMAIN forms : Close(i))
  BY <1>1, FormsKeep
<1>2. ASSUME NEW p \in Parents, NEW n \in Names, NEW c \in Codes, NEW o \in Orders,
             CreateCoded(p, n, c, o)
      PROVE  Safe
  <2>1. /\ CanCreate(p, n) /\ CodeFree(tree, p, c, 0) /\ Commit(Grown(p, n, c, o), {})
        /\ items' = items /\ asked' = asked
    BY <1>2 DEF CreateCoded
  <2>2. Held(tree, items', asked')
    BY <2>1 DEF TInv
  <2>3. c \in Nat /\ o \in Nat
    BY <1>0
  <2> QED
    BY <2>1, <2>2, <2>3, CreateCodedKeeps
<1>3. ASSUME NEW p \in Parents, NEW n \in Names, NEW at \in 1 .. Len(tree) + 1, CreateAt(p, n, at)
      PROVE  Safe
  BY <1>3, CreateAtKeeps
<1>4. ASSUME NEW i \in DOMAIN forms, Edit(i) PROVE Safe
  BY <1>4, EditKeeps
<1>5. ASSUME NEW i \in DOMAIN forms, NEW n \in Names, Rename(i, n) PROVE Safe
  BY <1>5, RenameKeeps
<1>6. ASSUME NEW i \in DOMAIN forms, NEW o \in Orders, SortOrder(i, o) PROVE Safe
  BY <1>0, <1>6, SortOrderKeeps
<1>7. ASSUME NEW i \in DOMAIN forms, NEW at \in 1 .. Len(tree), Number(i, at) PROVE Safe
  BY <1>7, NumberKeeps
<1>8. ASSUME NEW i \in DOMAIN forms, NEW p \in Parents, NEW at \in 1 .. Len(tree), Move(i, p, at)
      PROVE  Safe
  BY <1>8, MoveKeeps
<1>9. ASSUME NEW i \in DOMAIN forms, Delete(i) \/ ForceDelete(i) PROVE Safe
  BY <1>9, DeleteKeeps
<1>10. ASSUME NEW x \in asked, Approve(x) PROVE Safe
  BY <1>10, ApproveKeeps
<1>11. CASE \/ \E p \in DOMAIN tree, n \in Names : Ask(p, n)
            \/ \E x \in asked : Reject(x)
            \/ \E i \in DOMAIN tree, kind \in {"document", "video", "work"} : File(i, kind)
            \/ \E x \in items : Archive(x)
            \/ \E x \in items : Leave(x)
  BY <1>11, HoldingsKeep
<1> QED
  BY <1>1, <1>2, <1>3, <1>4, <1>5, <1>6, <1>7, <1>8, <1>9, <1>10, <1>11 DEF Next

-----------------------------------------------------------------------------
(* The mirrors of a share.  A reconciliation is two folds: over the paths, and
   over the mirrors that have vanished. *)

(* No folder has two mirrors, and there is one share at most. *)
OneMirror(t) ==
  \A i, k \in DOMAIN t : Mirrored(t, i) /\ Mirrored(t, k) /\ t[i].path = t[k].path => i = k
OneShare(t, st) ==
  /\ \A i, k \in DOMAIN t : t[i].kind = "share" /\ t[k].kind = "share" => i = k
  /\ st = "none" => \A i \in DOMAIN t : t[i].kind # "share"

(* The inductive invariant of the tree with a share. *)
MInv == TInv /\ OneMirror(tree) /\ OneShare(tree, shareStatus)

LEMMA LastingKeeps ==
  ASSUME NEW t, NEW u, NEW st, Lasting(t, u)
  PROVE  (OneMirror(t) => OneMirror(u)) /\ (OneShare(t, st) => OneShare(u, st))
<1>1. \A k \in DOMAIN u : \/ k \in DOMAIN t /\ u[k].kind = t[k].kind /\ u[k].path = t[k].path
                             /\ (u[k].live => t[k].live)
                          \/ u[k].kind = "folder"
  BY DEF Lasting
<1>2. OneMirror(t) => OneMirror(u)
  BY <1>1 DEF OneMirror, Mirrored
<1>3. OneShare(t, st) => OneShare(u, st)
  BY <1>1 DEF OneShare
<1> QED
  BY <1>2, <1>3

(* The root of the share is a live directory. *)
LEMMA RootFacts ==
  ASSUME MInv, NEW root \in ShareRoots(tree)
  PROVE  /\ Good(tree) /\ IsTree(tree) /\ Shape(tree) /\ OneMirror(tree)
         /\ root \in DOMAIN tree /\ root \in Nat \ {0}
         /\ tree[root].kind = "share" /\ tree[root].live
         /\ \A i \in DOMAIN tree : tree[i].kind = "share" => i = root
         /\ shareStatus # "none"
<1>1. Good(tree) /\ IsTree(tree) /\ Shape(tree) /\ OneMirror(tree)
  BY ParentFacts DEF MInv, TInv, Good
<1>2. root \in DOMAIN tree /\ tree[root].kind = "share" /\ tree[root].live
  BY DEF ShareRoots
<1> QED
  BY <1>1, <1>2, TreeFacts DEF MInv, OneShare

-----------------------------------------------------------------------------
(* Induction over the naturals, for sets; the largest of a set of them. *)
LEMMA NatSetInduction ==
  ASSUME NEW T, 0 \in T, \A n \in Nat : n \in T => n + 1 \in T
  PROVE  Nat \subseteq T
<1> DEFINE Below == {ss \in Nat \X Nat : ss[1] < ss[2]}
<1>1. IsWellFoundedOn(Below, Nat)
  <2>1. OpToRel(<, Nat) = Below
    BY DEF OpToRel
  <2> QED
    BY <2>1, NatLessThanWellFounded
<1> SUFFICES ASSUME Nat \ T # {} PROVE FALSE
  OBVIOUS
<1>2. Nat \ T \subseteq Nat
  OBVIOUS
<1>3. PICK m \in Nat \ T : \A n \in Nat \ T : <<n, m>> \notin Below
  <2> HIDE DEF Below
  <2> QED
    BY <1>1, <1>2, WFMin
<1>4. m # 0 /\ m - 1 \in Nat /\ m - 1 < m
  BY <1>3
<1>5. m - 1 \in T
  BY <1>3, <1>4
<1> QED
  BY <1>3, <1>4, <1>5

(* A set of naturals that is not empty has a least element, and one with a
   bound has a largest. *)
LEMMA HasLeast ==
  ASSUME NEW D, D \subseteq Nat, D # {}
  PROVE  \E m \in D : \A n \in D : m <= n
<1> DEFINE Below == {ss \in Nat \X Nat : ss[1] < ss[2]}
<1>1. IsWellFoundedOn(Below, Nat)
  <2>1. OpToRel(<, Nat) = Below
    BY DEF OpToRel
  <2> QED
    BY <2>1, NatLessThanWellFounded
<1>2. PICK m \in D : \A n \in D : <<n, m>> \notin Below
  <2> HIDE DEF Below
  <2> QED
    BY <1>1, WFMin
<1>3. ASSUME NEW n \in D PROVE m <= n
  <2>1. m \in Nat /\ n \in Nat
    OBVIOUS
  <2>2. ~ (n < m)
    BY <1>2, <2>1
  <2> QED
    BY <2>1, <2>2
<1> QED
  BY <1>3

LEMMA MaxFacts ==
  ASSUME NEW n \in Nat, NEW D \in SUBSET (0 .. n), D # {}
  PROVE  Max(D) \in D /\ \A x \in D : x <= Max(D)
<1> DEFINE U == {m \in Nat : \A x \in D : x <= m}
<1>0. \A x \in D : x \in Nat /\ x <= n
  OBVIOUS
<1>1. U \subseteq Nat /\ n \in U
  BY <1>0
<1>2. PICK m \in U : \A k \in U : m <= k
  BY <1>1, HasLeast
<1>3. m \in Nat /\ \A x \in D : x <= m
  BY <1>2
<1>4. m \in D
  <2> SUFFICES ASSUME m \notin D PROVE FALSE
    OBVIOUS
  <2>1. \A x \in D : x \in Nat /\ x < m
    BY <1>0, <1>3
  <2>2. m # 0 /\ m - 1 \in Nat
    <3>1. PICK y : y \in D
      OBVIOUS
    <3> QED
      BY <1>3, <2>1, <3>1
  <2>3. m - 1 \in U
    BY <1>0, <2>1, <2>2
  <2> QED
    BY <1>2, <1>3, <2>3
<1>5. \E x \in D : \A y \in D : x >= y
  BY <1>0, <1>3, <1>4
<1>6. Max(D) \in D /\ \A y \in D : Max(D) >= y
  BY <1>5 DEF Max
<1> QED
  BY <1>0, <1>6

-----------------------------------------------------------------------------
(* What the additions of a reconciliation leave. *)

LEMMA PathFacts ==
  ASSUME PathsAssumption, NEW j \in DOMAIN PathsInOrder
  PROVE  /\ PathsInOrder[j] \in Seq(Names) /\ Len(PathsInOrder[j]) \in Nat
         /\ Len(PathsInOrder[j]) >= 1 /\ Last(PathsInOrder[j]) \in Names
         /\ Len(PathsInOrder[j]) > 1 => Len(Front(PathsInOrder[j])) = Len(PathsInOrder[j]) - 1
<1> DEFINE p == PathsInOrder[j]
<1>1. p \in Seq(Names) /\ p # <<>>
  BY DEF PathsAssumption
<1> HIDE DEF p
<1>2. Len(p) \in Nat /\ Len(p) >= 1
  BY <1>1, EmptySeq
<1>3. Last(p) \in Names
  BY <1>1, <1>2 DEF Last
<1>4. Len(p) > 1 => Len(Front(p)) = Len(p) - 1
  BY <1>1, <1>2 DEF Front
<1> QED
  BY <1>1, <1>2, <1>3, <1>4 DEF p

(* A path is known by its folder and its last name. *)
LEMMA SamePath ==
  ASSUME NEW p \in Seq(Names), NEW q \in Seq(Names), Last(p) = Last(q),
         \/ Len(p) = 1 /\ Len(q) = 1
         \/ Len(p) > 1 /\ Len(q) > 1 /\ Front(p) = Front(q)
  PROVE  p = q
<1>1. CASE Len(p) = 1 /\ Len(q) = 1
  BY <1>1, SeqEqual DEF Last
<1>2. CASE Len(p) > 1 /\ Len(q) > 1 /\ Front(p) = Front(q)
  <2>0. Len(p) \in Nat /\ Len(q) \in Nat
    OBVIOUS
  <2>1. Len(Front(p)) = Len(p) - 1 /\ Len(Front(q)) = Len(q) - 1
    BY <1>2 DEF Front
  <2>2. Len(p) = Len(q)
    BY <1>2, <2>0, <2>1
  <2>3. ASSUME NEW i \in 1 .. Len(p) PROVE p[i] = q[i]
    <3>1. CASE i = Len(p)
      BY <2>2, <3>1 DEF Last
    <3>2. CASE i < Len(p)
      <4>1. Front(p)[i] = p[i] /\ Front(q)[i] = q[i]
        BY <2>0, <2>2, <3>2 DEF Front
      <4> QED
        BY <1>2, <4>1
    <3> QED
      BY <2>0, <3>1, <3>2
  <2> QED
    BY <2>2, <2>3, SeqEqual
<1> QED
  BY <1>1, <1>2

IsState(s) == s = [tree |-> s.tree, bumped |-> s.bumped, ok |-> s.ok] /\ s.ok \in BOOLEAN

(* Where a mirror of a path belongs. *)
Homes(t, root, path) == IF Len(path) = 1 THEN {root} ELSE MirrorsOf(t, Front(path))

(* A path has its mirror, or its name is taken where it belongs. *)
Answered(t, root, path) ==
  \/ MirrorsOf(t, path) # {}
  \/ \A p \in Homes(t, root, path) : ~ NameFree(tree, p, Last(path), 0)

(* Row k of tree t is a mirror of one of the first n paths. *)
Fresh(t, root, folders, n, k) ==
  /\ t[k].kind = "mirror" /\ t[k].live /\ t[k].path \in folders
  /\ t[k].name = Last(t[k].path)
  /\ \E j \in 1 .. n : t[k].path = PathsInOrder[j]
  /\ \/ t[k].parent = root
     \/ /\ t[k].parent \in DOMAIN t /\ t[t[k].parent].kind = "mirror"
        /\ Len(t[k].path) > 1 /\ t[t[k].parent].path = Front(t[k].path)

(* Tree t is the tree with mirrors for the first n paths more. *)
Grows(t, root, folders, n) ==
  /\ Good(t) /\ OneMirror(t)
  /\ DOMAIN tree \subseteq DOMAIN t /\ \A k \in DOMAIN tree : t[k] = tree[k]
  /\ \A k \in DOMAIN t \ DOMAIN tree : Fresh(t, root, folders, n, k)
  /\ \A j \in 1 .. n : PathsInOrder[j] \in folders => Answered(t, root, PathsInOrder[j])

LEMMA GrowsMore ==
  ASSUME NEW t, NEW root, NEW folders, NEW n \in Nat, Grows(t, root, folders, n),
         PathsInOrder[n + 1] \in folders => Answered(t, root, PathsInOrder[n + 1])
  PROVE  Grows(t, root, folders, n + 1)
<1>1. \A j \in 1 .. n + 1 : j \in 1 .. n \/ j = n + 1
  OBVIOUS
<1>2. \A j \in 1 .. n : j \in 1 .. n + 1
  OBVIOUS
<1>3. \A k : Fresh(t, root, folders, n, k) => Fresh(t, root, folders, n + 1, k)
  BY <1>2 DEF Fresh
<1>4. \A j \in 1 .. n + 1 : PathsInOrder[j] \in folders => Answered(t, root, PathsInOrder[j])
  BY <1>1 DEF Grows
<1> QED
  BY <1>3, <1>4 DEF Grows

(* The row a mirror hangs from. *)
LEMMA AnchorFacts ==
  ASSUME MInv, NEW root \in ShareRoots(tree), NEW t, NEW folders, NEW n, NEW path,
         Grows(t, root, folders, n), Len(path) \in Nat, Len(path) >= 1
  PROVE  LET a == Anchor(t, root, path) IN
         /\ a \in DOMAIN t /\ a # Top /\ Stands(t[a]) /\ t[root].kind = "share"
         /\ \/ a = root
            \/ Len(path) > 1 /\ t[a].kind = "mirror" /\ t[a].path = Front(path)
         /\ \A p \in Homes(t, root, path) : p = a
<1> DEFINE a == Anchor(t, root, path)
           above == IF Len(path) = 1 THEN {} ELSE MirrorsOf(t, Front(path))
<1>1. /\ root \in DOMAIN t /\ t[root].kind = "share" /\ t[root].live
      /\ OneMirror(t) /\ IsTree(t)
  BY RootFacts, ParentFacts DEF Grows, Good
<1>2. \A i \in above : i \in DOMAIN t /\ t[i].kind = "mirror" /\ t[i].path = Front(path)
                       /\ Len(path) > 1
  <2> SUFFICES ASSUME NEW i \in above
               PROVE  i \in DOMAIN t /\ t[i].kind = "mirror" /\ t[i].path = Front(path)
                      /\ Len(path) > 1
    OBVIOUS
  <2>1. Len(path) # 1 /\ i \in MirrorsOf(t, Front(path))
    OBVIOUS
  <2>2. \A l \in Nat : l >= 1 /\ l # 1 => l > 1
    OBVIOUS
  <2>3. Len(path) > 1
    BY <2>1, <2>2
  <2> QED
    BY <2>1, <2>3 DEF MirrorsOf, Mirrored
<1>3. \A i, k \in above : i = k
  BY <1>1 DEF MirrorsOf, OneMirror
<1>4. a = IF above = {} THEN root ELSE CHOOSE i \in above : TRUE
  BY DEF Anchor
<1>5. \A p \in Homes(t, root, path) : (Len(path) = 1 /\ above = {} /\ p = root) \/ p \in above
  BY DEF Homes
<1> HIDE DEF above, a
<1>6. above # {} => a \in above
  BY <1>4
<1>7. above = {} => a = root
  BY <1>4
<1>8. a \in DOMAIN t /\ Stands(t[a])
  BY <1>1, <1>2, <1>6, <1>7 DEF Stands
<1>9. a # Top
  BY <1>1, <1>8, TreeFacts DEF Top
<1>10. \A p \in Homes(t, root, path) : p = a
  BY <1>3, <1>5, <1>6, <1>7
<1>11. a = root \/ (Len(path) > 1 /\ t[a].kind = "mirror" /\ t[a].path = Front(path))
  BY <1>2, <1>6, <1>7
<1> QED
  BY <1>1, <1>8, <1>9, <1>10, <1>11 DEF a

(* The name that stands in a mirror's way stood there before. *)
LEMMA NameTaken ==
  ASSUME PathsAssumption, MInv, NEW root \in ShareRoots(tree), NEW t, NEW folders,
         NEW n \in Nat, Grows(t, root, folders, n), n + 1 \in DOMAIN PathsInOrder,
         NEW path, path = PathsInOrder[n + 1], MirrorsOf(t, path) = {},
         ~ NameFree(t, Anchor(t, root, path), Last(path), 0)
  PROVE  Answered(t, root, path)
<1> DEFINE a == Anchor(t, root, path)
<1>1. path \in Seq(Names) /\ Len(path) \in Nat /\ Len(path) >= 1
  BY PathFacts
<1>2. /\ a = root \/ (Len(path) > 1 /\ t[a].kind = "mirror" /\ t[a].path = Front(path))
      /\ t[root].kind = "share" /\ \A p \in Homes(t, root, path) : p = a
  BY <1>1, AnchorFacts
<1>3. PICK k \in Siblings(t, a) \ {0} : t[k].name = Last(path)
  BY DEF NameFree
<1> HIDE DEF a
<1>4. k \in DOMAIN t /\ t[k].live /\ t[k].parent = a
  BY <1>3 DEF Siblings
<1> SUFFICES ASSUME NEW p \in Homes(t, root, path) PROVE ~ NameFree(tree, p, Last(path), 0)
  BY DEF Answered
<1>5. p = a
  BY <1>2
<1>6. CASE k \in DOMAIN tree
  <2>1. tree[k] = t[k]
    BY <1>6 DEF Grows
  <2>2. k \in Siblings(tree, a) \ {0}
    BY <1>3, <1>4, <1>6, <2>1 DEF Siblings
  <2> QED
    BY <1>3, <1>5, <2>1, <2>2 DEF NameFree
<1>7. CASE k \notin DOMAIN tree
  <2>1. Fresh(t, root, folders, n, k)
    BY <1>4, <1>7 DEF Grows
  <2>2. PICK j \in 1 .. n : t[k].path = PathsInOrder[j]
    BY <2>1 DEF Fresh
  <2> DEFINE q == t[k].path
  <2>3. DOMAIN PathsInOrder = 1 .. Len(PathsInOrder) /\ Len(PathsInOrder) \in Nat
    BY DEF PathsAssumption
  <2>4. j \in DOMAIN PathsInOrder /\ j < n + 1
    BY <2>3
  <2>5. q \in Seq(Names) /\ Len(q) \in Nat /\ Len(q) >= 1
    BY <2>2, <2>4, PathFacts
  <2>6. Len(q) <= Len(path)
    BY <2>2, <2>4 DEF PathsAssumption
  <2>7. Last(q) = Last(path)
    BY <1>3, <2>1 DEF Fresh
  <2>8. k \in MirrorsOf(t, q)
    BY <1>4, <2>1 DEF Fresh, MirrorsOf, Mirrored
  <2>9. \/ t[k].parent = root
        \/ t[t[k].parent].kind = "mirror" /\ Len(q) > 1 /\ t[t[k].parent].path = Front(q)
    BY <2>1 DEF Fresh
  <2> HIDE DEF q
  <2>10. CASE Len(path) = 1
    <3>1. Len(q) = 1
      BY SMTT(60), <1>1, <2>5, <2>6, <2>10
    <3> QED
      BY <1>1, <2>5, <2>7, <2>8, <2>10, <3>1, SamePath
  <2>11. CASE Len(path) # 1
    <3>1. p \in MirrorsOf(t, Front(path))
      BY <2>11 DEF Homes
    <3>2. t[a].kind = "mirror"
      BY <1>5, <3>1 DEF MirrorsOf, Mirrored
    <3>3. Len(path) > 1 /\ t[a].path = Front(path) /\ Len(q) > 1 /\ t[a].path = Front(q)
      BY <1>2, <1>4, <2>9, <3>2
    <3> QED
      BY <1>1, <2>5, <2>7, <2>8, <3>3, SamePath
  <2> QED
    BY <2>10, <2>11
<1> QED
  BY <1>6, <1>7

(* A mirror at the last place, where its name and its code are free. *)
LEMMA MirrorFits ==
  ASSUME PathsAssumption, MInv, NEW root \in ShareRoots(tree), NEW t, NEW folders,
         NEW n \in Nat, Grows(t, root, folders, n), n + 1 \in DOMAIN PathsInOrder,
         NEW path, path = PathsInOrder[n + 1], NEW a, a = Anchor(t, root, path),
         NameFree(t, a, Last(path), 0), NEW place, place = Cardinality(Siblings(t, a)) + 1,
         NEW x, x = [parent |-> a, kind |-> "mirror", path |-> path, name |-> Last(path),
                     code |-> place, order |-> place, level |-> t[a].level + 1,
                     active |-> TRUE, live |-> TRUE]
  PROVE  Fitting(t, x)
<1>1. path \in Seq(Names) /\ Len(path) \in Nat /\ Len(path) >= 1 /\ Last(path) \in Names
  BY PathFacts
<1>2. a \in DOMAIN t /\ a # Top /\ Stands(t[a])
  BY <1>1, AnchorFacts
<1>3. IsTree(t)
  BY ParentFacts DEF Grows, Good
<1>4. a \in Nat /\ t[a] \in Row /\ place \in Nat
  BY <1>2, <1>3, TreeFacts, SiblingFacts
<1>5. t[a].level \in Int /\ t[a].level + 1 \in Int
  BY <1>4 DEF Row
<1>6. x \in Row
  BY <1>1, <1>4, <1>5 DEF Row
<1>7. t[a].level + 1 = LevelUnder(t, a)
  BY <1>2 DEF LevelUnder
<1> QED
  BY <1>2, <1>6, <1>7 DEF Fitting

LEMMA AppendGrows ==
  ASSUME PathsAssumption, MInv, NEW root \in ShareRoots(tree), NEW t, NEW folders,
         NEW n \in Nat, Grows(t, root, folders, n), n + 1 \in DOMAIN PathsInOrder,
         NEW path, path = PathsInOrder[n + 1], path \in folders, MirrorsOf(t, path) = {},
         NEW x, Fitting(t, x), x.kind = "mirror", x.path = path, x.name = Last(path),
         x.parent = Anchor(t, root, path), CodeFree(t, x.parent, x.code, 0)
  PROVE  Grows(Append(t, x), root, folders, n + 1)
<1> DEFINE u == Append(t, x)
           new == Len(t) + 1
<1>0. Good(t) /\ OneMirror(t) /\ DOMAIN tree \subseteq DOMAIN t
      /\ \A k \in DOMAIN tree : t[k] = tree[k]
  BY DEF Grows
<1>1. Extended(t, u, x)
  BY <1>0, AppendedFacts
<1> HIDE DEF u
<1>2. Good(u)
  BY <1>0, <1>1, ExtendedGood
<1>3. /\ DOMAIN u = DOMAIN t \cup {new} /\ new \notin DOMAIN t /\ u[new] = x
      /\ \A k \in DOMAIN t : u[k] = t[k]
  BY <1>1 DEF Extended
<1> HIDE DEF new
<1>4. x.live /\ Mirrored(u, new)
  BY <1>3 DEF Fitting, Mirrored
<1>5. \A q : MirrorsOf(u, q) = MirrorsOf(t, q) \cup (IF q = path THEN {new} ELSE {})
  BY <1>3, <1>4 DEF MirrorsOf, Mirrored
<1>6. OneMirror(u)
  <2> SUFFICES ASSUME NEW i \in DOMAIN u, NEW k \in DOMAIN u, Mirrored(u, i), Mirrored(u, k),
                      u[i].path = u[k].path
               PROVE  i = k
    BY DEF OneMirror
  <2>1. ASSUME NEW j \in DOMAIN t, Mirrored(u, j) PROVE u[j].path # path /\ Mirrored(t, j)
    BY <1>3, <2>1 DEF MirrorsOf, Mirrored
  <2> QED
    BY <1>0, <1>3, <2>1 DEF OneMirror
<1>7. path \in Seq(Names) /\ Len(path) \in Nat /\ Len(path) >= 1
  BY PathFacts
<1>8. ASSUME NEW k \in DOMAIN u \ DOMAIN tree PROVE Fresh(u, root, folders, n + 1, k)
  <2>1. CASE k \in DOMAIN t
    <3>1. Fresh(t, root, folders, n, k) /\ u[k] = t[k]
      BY <1>3, <1>8, <2>1 DEF Grows
    <3>2. \A j \in 1 .. n : j \in 1 .. n + 1
      OBVIOUS
    <3> QED
      BY <1>3, <3>1, <3>2 DEF Fresh
  <2>2. CASE k = new
    <3>1. /\ x.parent = root \/ (/\ Len(path) > 1 /\ t[x.parent].kind = "mirror"
                                 /\ t[x.parent].path = Front(path))
          /\ x.parent \in DOMAIN t
      BY <1>7, AnchorFacts
    <3>2. n + 1 \in 1 .. n + 1
      OBVIOUS
    <3> QED
      BY <1>3, <1>4, <2>2, <3>1, <3>2 DEF Fresh
  <2> QED
    BY <1>3, <1>8, <2>1, <2>2
<1>9. ASSUME NEW j \in 1 .. n + 1, PathsInOrder[j] \in folders
      PROVE  Answered(u, root, PathsInOrder[j])
  <2> DEFINE q == PathsInOrder[j]
  <2>1. CASE j = n + 1
    BY <1>5, <2>1 DEF Answered
  <2>2. CASE j # n + 1
    <3>1. j \in 1 .. n /\ j < n + 1
      BY <2>2
    <3>2. DOMAIN PathsInOrder = 1 .. Len(PathsInOrder) /\ Len(PathsInOrder) \in Nat
      BY DEF PathsAssumption
    <3>3. j \in DOMAIN PathsInOrder
      BY <3>1, <3>2
    <3>4. Len(q) <= Len(path) /\ Len(q) \in Nat /\ Len(q) >= 1
          /\ (Len(q) > 1 => Len(Front(q)) = Len(q) - 1)
      BY <3>1, <3>3, PathFacts DEF PathsAssumption
    <3>5. Answered(t, root, q)
      BY <1>9, <3>1 DEF Grows
    <3> HIDE DEF q
    <3>6. Homes(u, root, q) = Homes(t, root, q)
      <4>1. CASE Len(q) = 1
        BY <4>1 DEF Homes
      <4>2. CASE Len(q) # 1
        <5>1. \A l, m \in Nat : l >= 1 /\ l <= m /\ l # 1 => l > 1 /\ l - 1 # m
          OBVIOUS
        <5>2. Len(q) > 1 /\ Len(q) - 1 # Len(path)
          BY <1>7, <3>4, <4>2, <5>1
        <5>3. Front(q) # path
          BY <3>4, <5>2
        <5> QED
          BY <1>5, <4>2, <5>3 DEF Homes
      <4> QED
        BY <4>1, <4>2
    <3>7. MirrorsOf(t, q) \subseteq MirrorsOf(u, q)
      BY <1>5
    <3>8. Answered(u, root, q)
      BY <3>5, <3>6, <3>7 DEF Answered
    <3> QED
      BY <3>8 DEF q
  <2> QED
    BY <2>1, <2>2
<1>10. Grows(u, root, folders, n + 1)
  BY <1>0, <1>2, <1>3, <1>6, <1>8, <1>9 DEF Grows
<1> QED
  BY <1>10 DEF u

(* The record of a transaction, with one field written. *)
Treed(s, u) == [s EXCEPT !.tree = u]
Broken(s)   == [s EXCEPT !.ok = FALSE]

LEMMA TreedFacts ==
  ASSUME NEW s, IsState(s), NEW u
  PROVE  /\ IsState(Treed(s, u)) /\ Treed(s, u).tree = u
         /\ Treed(s, u).bumped = s.bumped /\ Treed(s, u).ok = s.ok
<1> DEFINE r == [tree |-> s.tree, bumped |-> s.bumped, ok |-> s.ok]
           w == [tree |-> u, bumped |-> s.bumped, ok |-> s.ok]
<1>1. s = r /\ s.ok \in BOOLEAN
  BY DEF IsState
<1>2. [r EXCEPT !.tree = u] = w
  OBVIOUS
<1> HIDE DEF r
<1>3. Treed(s, u) = w
  BY <1>1, <1>2 DEF Treed
<1>4. w.tree = u /\ w.bumped = s.bumped /\ w.ok = s.ok
  OBVIOUS
<1>5. w = [tree |-> w.tree, bumped |-> w.bumped, ok |-> w.ok]
  OBVIOUS
<1> HIDE DEF w
<1>6. IsState(w)
  BY <1>1, <1>4, <1>5 DEF IsState
<1> QED
  BY <1>3, <1>4, <1>6

LEMMA BrokenFacts ==
  ASSUME NEW s, IsState(s)
  PROVE  IsState(Broken(s)) /\ ~ Broken(s).ok /\ Broken(s).tree = s.tree
<1> DEFINE r == [tree |-> s.tree, bumped |-> s.bumped, ok |-> s.ok]
           w == [s EXCEPT !.ok = FALSE]
<1>1. s = r
  BY DEF IsState
<1>2. DOMAIN s = {"tree", "bumped", "ok"}
  BY <1>1
<1>3. /\ DOMAIN w = {"tree", "bumped", "ok"} /\ w.tree = s.tree /\ w.bumped = s.bumped
      /\ w.ok = FALSE /\ w = [f \in {"tree", "bumped", "ok"} |-> w[f]]
  BY <1>2
<1> HIDE DEF w
<1>4. w = [tree |-> w.tree, bumped |-> w.bumped, ok |-> w.ok]
  BY <1>3
<1> QED
  BY <1>3, <1>4 DEF w, IsState, Broken

(* What a reconciliation has after the first n paths, unless it has failed. *)
AddedTo(s, root, folders, n) ==
  /\ IsState(s) /\ IsTree(s.tree)
  /\ s.ok => s.bumped = {} /\ Grows(s.tree, root, folders, n)

AddStep(root, folders, s, path) ==
  IF path \in folders THEN AppendMirror(s, root, path) ELSE s

LEMMA AddStepKeeps ==
  ASSUME PathsAssumption, MInv, NEW root \in ShareRoots(tree), NEW folders, NEW n \in Nat,
         n + 1 \in DOMAIN PathsInOrder, NEW s, AddedTo(s, root, folders, n)
  PROVE  AddedTo(AddStep(root, folders, s, PathsInOrder[n + 1]), root, folders, n + 1)
<1> DEFINE path == PathsInOrder[n + 1]
           t == s.tree
           a == Anchor(t, root, path)
           place == Cardinality(Siblings(t, a)) + 1
           x == [parent |-> a, kind |-> "mirror", path |-> path, name |-> Last(path),
                 code |-> place, order |-> place, level |-> t[a].level + 1,
                 active |-> TRUE, live |-> TRUE]
           r == AddStep(root, folders, s, path)
<1>1. IsState(s) /\ IsTree(t) /\ (s.ok => s.bumped = {} /\ Grows(t, root, folders, n))
  BY DEF AddedTo
<1>a. \A u : Grows(u, root, folders, n + 1) => IsTree(u)
  BY ParentFacts DEF Grows, Good
<1>2. CASE ~ s.ok
  <2>1. r = s
    BY <1>2 DEF AddStep, AppendMirror
  <2> QED
    BY <1>1, <1>2, <2>1 DEF AddedTo
<1>3. CASE s.ok /\ path \notin folders
  <2>1. r = s
    BY <1>3 DEF AddStep
  <2>2. Grows(t, root, folders, n + 1)
    BY <1>1, <1>3, GrowsMore
  <2> QED
    BY <1>1, <2>1, <2>2 DEF AddedTo
<1>4. CASE s.ok /\ path \in folders
           /\ (MirrorsOf(t, path) # {} \/ ~ NameFree(t, a, Last(path), 0))
  <2>1. r = s
    BY <1>4 DEF AddStep, AppendMirror
  <2>2. Answered(t, root, path)
    <3>1. CASE MirrorsOf(t, path) # {}
      BY <3>1 DEF Answered
    <3>2. CASE MirrorsOf(t, path) = {}
      BY <1>1, <1>4, <3>2, NameTaken
    <3> QED
      BY <3>1, <3>2
  <2>3. Grows(t, root, folders, n + 1)
    BY <1>1, <1>4, <2>2, GrowsMore
  <2> QED
    BY <1>1, <2>1, <2>3 DEF AddedTo
<1>5. CASE s.ok /\ path \in folders /\ MirrorsOf(t, path) = {}
           /\ NameFree(t, a, Last(path), 0) /\ ~ CodeFree(t, a, place, 0)
  <2>1. r = [s EXCEPT !.ok = FALSE]
    BY <1>5 DEF AddStep, AppendMirror
  <2> HIDE DEF r
  <2>2. IsState(r) /\ ~ r.ok /\ r.tree = t
    <3>1. r = Broken(s)
      BY <2>1 DEF Broken
    <3>2. IsState(Broken(s)) /\ ~ Broken(s).ok /\ Broken(s).tree = t
      BY <1>1, BrokenFacts
    <3> QED
      BY <3>1, <3>2
  <2> QED
    BY <1>1, <2>2 DEF AddedTo, r
<1>6. CASE s.ok /\ path \in folders /\ MirrorsOf(t, path) = {}
           /\ NameFree(t, a, Last(path), 0) /\ CodeFree(t, a, place, 0)
  <2>1. r = [s EXCEPT !.tree = Append(t, x)]
    BY <1>6 DEF AddStep, AppendMirror
  <2>2. Grows(t, root, folders, n) /\ s.bumped = {}
    BY <1>1, <1>6
  <2>3. Fitting(t, x)
    BY <1>6, <2>2, MirrorFits
  <2>4. /\ x.kind = "mirror" /\ x.path = path /\ x.name = Last(path) /\ x.parent = a
        /\ x.code = place
    OBVIOUS
  <2> HIDE DEF r, x
  <2>5. CodeFree(t, x.parent, x.code, 0)
    BY <1>6, <2>4
  <2>6. Grows(Append(t, x), root, folders, n + 1)
    BY <1>6, <2>2, <2>3, <2>4, <2>5, AppendGrows
  <2> DEFINE u == Append(t, x)
  <2>7. IsState(r) /\ r.tree = u /\ r.bumped = {}
    <3>1. r = Treed(s, u)
      BY <2>1 DEF Treed
    <3> HIDE DEF u
    <3>2. IsState(Treed(s, u)) /\ Treed(s, u).tree = u /\ Treed(s, u).bumped = s.bumped
      BY <1>1, TreedFacts
    <3> QED
      BY <2>2, <3>1, <3>2
  <2> QED
    BY <1>a, <2>6, <2>7 DEF AddedTo, r
<1> QED
  BY <1>2, <1>3, <1>4, <1>5, <1>6

(* The fold of the additions, as a function of the positions it has seen. *)
Adding(root, folders, n, g) ==
  g = [S \in SUBSET (1 .. n) |->
         IF S = {} THEN Started
         ELSE AddStep(root, folders, g[S \ {Max(S)}], PathsInOrder[Max(S)])]

LEMMA MaxAt ==
  ASSUME NEW n \in Nat, NEW S \in SUBSET (1 .. n), n \in S
  PROVE  Max(S) = n
<1>1. \A x \in S : x \in Nat /\ x <= n
  OBVIOUS
<1>2. \A y \in S : n >= y
  BY <1>1
<1>3. Max(S) \in S /\ \A y \in S : Max(S) >= y
  BY <1>2 DEF Max
<1>4. Max(S) >= n /\ Max(S) <= n /\ Max(S) \in Nat
  BY <1>1, <1>3
<1> QED
  BY <1>4

LEMMA AddingExists ==
  ASSUME NEW root, NEW folders
  PROVE  \A n \in Nat : \E g : Adding(root, folders, n, g)
<1> DEFINE T == {n \in Nat : \E g : Adding(root, folders, n, g)}
           Step(s, p) == AddStep(root, folders, s, p)
<1>1. 0 \in T
  <2> DEFINE g == [S \in SUBSET (1 .. 0) |-> Started]
  <2>1. Adding(root, folders, 0, g)
    BY DEF Adding
  <2> QED
    BY <2>1
<1>2. ASSUME NEW n \in Nat, n \in T PROVE n + 1 \in T
  <2>1. PICK g : Adding(root, folders, n, g)
    BY <1>2
  <2> DEFINE h == [S \in SUBSET (1 .. n + 1) |->
                     IF n + 1 \in S THEN Step(g[S \ {n + 1}], PathsInOrder[n + 1]) ELSE g[S]]
  <2>2. ASSUME NEW S \in SUBSET (1 .. n + 1)
        PROVE  h[S] = IF S = {} THEN Started ELSE Step(h[S \ {Max(S)}], PathsInOrder[Max(S)])
    <3>1. CASE n + 1 \in S
      <4>1. Max(S) = n + 1
        BY <3>1, MaxAt
      <4>2. S \ {n + 1} \in SUBSET (1 .. n) /\ S \ {n + 1} \in SUBSET (1 .. n + 1)
        OBVIOUS
      <4>3. /\ h[S \ {n + 1}] = g[S \ {n + 1}]
            /\ h[S] = Step(g[S \ {n + 1}], PathsInOrder[n + 1])
        BY <3>1, <4>2
      <4> HIDE DEF h
      <4> QED
        BY <3>1, <4>1, <4>3
    <3>2. CASE n + 1 \notin S
      <4>1. S \in SUBSET (1 .. n)
        BY <3>2
      <4>2. \A Q \in SUBSET S : Q \in SUBSET (1 .. n + 1) /\ n + 1 \notin Q /\ h[Q] = g[Q]
        BY <3>2
      <4>3. g[S] = IF S = {} THEN Started ELSE Step(g[S \ {Max(S)}], PathsInOrder[Max(S)])
        BY <2>1, <4>1 DEF Adding
      <4>4. h[S] = g[S] /\ h[S \ {Max(S)}] = g[S \ {Max(S)}]
        BY <4>2
      <4> HIDE DEF h
      <4> QED
        BY <4>3, <4>4
    <3> QED
      BY <3>1, <3>2
  <2>3. Adding(root, folders, n + 1, h)
    BY <2>2 DEF Adding
  <2> HIDE DEF h
  <2> QED
    BY <2>3
<1> HIDE DEF T
<1>3. Nat \subseteq T
  BY <1>1, <1>2, NatSetInduction
<1> QED
  BY <1>3 DEF T

(* The additions keep a tree of directories, with the mirrors of the folders. *)
LEMMA AddedGrows ==
  ASSUME PathsAssumption, MInv, NEW root \in ShareRoots(tree), NEW folders
  PROVE  AddedTo(Added(root, folders), root, folders, Len(PathsInOrder))
<1> DEFINE n == Len(PathsInOrder)
           it == CHOOSE g : Adding(root, folders, n, g)
<1>1. n \in Nat /\ DOMAIN PathsInOrder = 1 .. n
  BY DEF PathsAssumption
<1>2. Adding(root, folders, n, it)
  BY <1>1, AddingExists
<1>3. Added(root, folders) = it[1 .. n]
  BY <1>1 DEF Added, FoldLeft, MapThenFoldSet, Adding, AddStep
<1> HIDE DEF it, n
<1>4. \A S \in SUBSET (1 .. n) :
        it[S] = IF S = {} THEN Started
                ELSE AddStep(root, folders, it[S \ {Max(S)}], PathsInOrder[Max(S)])
  BY <1>2 DEF Adding
<1> DEFINE T == {m \in Nat : m <= n => AddedTo(it[1 .. m], root, folders, m)}
<1>5. 0 \in T
  <2>1. it[1 .. 0] = Started
    <3>1. 1 .. 0 = {}
      OBVIOUS
    <3>2. {} \in SUBSET (1 .. n)
      OBVIOUS
    <3> QED
      BY <1>4, <3>1, <3>2
  <2>2. IsState(Started) /\ Started.tree = tree /\ Started.bumped = {}
    BY DEF Started, IsState
  <2>3. Grows(tree, root, folders, 0) /\ IsTree(tree)
    BY RootFacts DEF Grows
  <2>4. AddedTo(Started, root, folders, 0)
    BY <2>2, <2>3 DEF AddedTo
  <2> QED
    BY <2>1, <2>4
<1>6. ASSUME NEW m \in Nat, m \in T PROVE m + 1 \in T
  <2> SUFFICES ASSUME m + 1 <= n PROVE AddedTo(it[1 .. m + 1], root, folders, m + 1)
    OBVIOUS
  <2>1. m <= n /\ AddedTo(it[1 .. m], root, folders, m)
    BY <1>1, <1>6
  <2>2. /\ 1 .. m + 1 \in SUBSET (1 .. n) /\ m + 1 \in 1 .. m + 1
        /\ (1 .. m + 1) \ {m + 1} = 1 .. m /\ m + 1 \in DOMAIN PathsInOrder
    BY <1>1
  <2>3. Max(1 .. m + 1) = m + 1
    BY <2>2, MaxAt
  <2>4. it[1 .. m + 1] = AddStep(root, folders, it[1 .. m], PathsInOrder[m + 1])
    BY <1>4, <2>2, <2>3
  <2> QED
    BY <2>1, <2>2, <2>4, AddStepKeeps
<1> HIDE DEF T
<1>7. Nat \subseteq T
  BY <1>5, <1>6, NatSetInduction
<1>8. AddedTo(it[1 .. n], root, folders, n)
  BY <1>1, <1>7 DEF T
<1> QED
  BY <1>3, <1>8 DEF n

-----------------------------------------------------------------------------
(* What the removals of a reconciliation leave. *)

(* Siblings are ranked by their sort orders, no two alike. *)
LEMMA OrderRanks ==
  ASSUME NEW t, IsTree(t), NEW p, NEW S, S = Siblings(t, p), NEW pos,
         pos = [i \in S |-> Cardinality({k \in S : OrderBefore(t, k, i)}) + 1]
  PROVE  /\ pos \in [S -> Nat] /\ \A i \in S : pos[i] >= 1
         /\ \A i, k \in S : i # k => pos[i] # pos[k]
<1> DEFINE before(i) == {k \in S : OrderBefore(t, k, i)}
<1>0. /\ S \subseteq DOMAIN t /\ S \subseteq Nat /\ IsFiniteSet(S)
      /\ \A i \in S : t[i].code \in Nat /\ t[i].order \in Nat
  BY SiblingFacts, TreeFacts DEF Numbered, Row
<1>1. /\ \A i, k \in S : i = k \/ OrderBefore(t, i, k) \/ OrderBefore(t, k, i)
      /\ \A i \in S : ~ OrderBefore(t, i, i)
      /\ \A i, k, l \in S : OrderBefore(t, i, k) /\ OrderBefore(t, k, l) => OrderBefore(t, i, l)
  BY <1>0 DEF OrderBefore, CodeBefore, Temp
<1>2. ASSUME NEW i \in S, NEW k \in S, OrderBefore(t, i, k)
      PROVE  before(i) \in SUBSET before(k) /\ before(i) # before(k)
  BY <1>1, <1>2
<1>3. \A i \in S : before(i) \in SUBSET S /\ pos[i] = Cardinality(before(i)) + 1
  OBVIOUS
<1> HIDE DEF before
<1>4. \A i \in S : IsFiniteSet(before(i)) /\ Cardinality(before(i)) \in Nat
  <2>1. ASSUME NEW i \in S PROVE IsFiniteSet(before(i))
    BY <1>0, <1>3, FS_Subset
  <2> QED
    BY <2>1, FS_CardinalityType
<1>5. ASSUME NEW i \in S, NEW k \in S, OrderBefore(t, i, k) PROVE pos[i] # pos[k]
  <2>1. /\ Cardinality(before(i)) <= Cardinality(before(k))
        /\ Cardinality(before(k)) = Cardinality(before(i)) => before(k) = before(i)
    BY <1>2, <1>4, <1>5, FS_Subset
  <2> QED
    BY <1>2, <1>3, <1>4, <1>5, <2>1
<1>6. \A i \in S : pos[i] \in Nat /\ pos[i] >= 1
  BY <1>3, <1>4
<1>7. pos \in [S -> Nat]
  BY <1>6
<1> QED
  BY <1>1, <1>5, <1>6, <1>7

(* Siblings of a good tree at any places make a good tree. *)
LEMMA PlacedAnew ==
  ASSUME NEW t, Good(t), NEW p, NEW S, S = Siblings(t, p), NEW pos \in [S -> Nat],
         \A i \in S : pos[i] >= 1, \A i, k \in S : i # k => pos[i] # pos[k],
         NEW u, u = Rewritten(t, t, pos)
  PROVE  /\ Good(u) /\ Alike(t, u)
         /\ \A k \in DOMAIN t \ Misplaced(t, pos) : u[k] = t[k]
         /\ \A k \in DOMAIN t \ S : u[k] = t[k]
<1> DEFINE old == [k \in S |-> [code |-> pos[k]]]
<1>1. Shape(t) /\ IsTree(t) /\ S \in SUBSET DOMAIN t /\ S \subseteq Nat
  BY ParentFacts, SiblingFacts DEF Good, Numbered
<1>2. Places(old, pos, S, 0)
  <2>1. \A k \in S : old[k].code = pos[k] /\ pos[k] \in Nat /\ pos[k] >= 1 /\ k \in Nat
    BY <1>1
  <2> HIDE DEF old
  <2>2. \A i, k \in S \ {0} : CodeBefore(old, i, k) => pos[i] < pos[k]
    BY <2>1 DEF CodeBefore, Temp
  <2> QED
    BY <2>1, <2>2 DEF Places
<1> HIDE DEF old
<1>3. \A q : CodesDiffer(t, Siblings(t, q))
  BY CodedSiblings DEF Good
<1>4. ASSUME NEW q PROVE CodesDiffer(u, Siblings(u, q))
  BY <1>1, <1>2, <1>3, RewrittenCodes
<1>5. Renumbered(t, u, t, pos, S)
  BY <1>1, RewrittenFacts
<1>6. Alike(t, u) /\ IsTree(u)
  BY <1>5 DEF Renumbered
<1>7. Shape(u) /\ Leveled(u) /\ Housed(u) /\ Named(u)
  BY <1>1, <1>6, AlikeKeeps DEF Good
<1>8. Good(u)
  BY <1>4, <1>7, CodedSiblings DEF Good
<1>9. \A k \in DOMAIN t \ S : u[k] = t[k]
  BY <1>5 DEF Renumbered
<1>10. \A k \in DOMAIN t \ Misplaced(t, pos) : u[k] = t[k]
  BY <1>5 DEF Renumbered
<1> QED
  BY <1>6, <1>8, <1>9, <1>10

(* Row y is row x, but for its code, its order and whether it is live. *)
Same(x, y) ==
  /\ y.parent = x.parent /\ y.kind = x.kind /\ y.path = x.path
  /\ y.name = x.name /\ y.level = x.level /\ y.active = x.active

Gone(x) == [x EXCEPT !.live = FALSE]

LEMMA GoneFacts ==
  ASSUME NEW x \in Row
  PROVE  Gone(x) \in Row /\ ~ Gone(x).live /\ Same(x, Gone(x)) /\ Gone(x).code = x.code
<1> DEFINE y == Gone(x)
<1>1. /\ y.parent = x.parent /\ y.kind = x.kind /\ y.path = x.path
      /\ y.name = x.name /\ y.level = x.level /\ y.code = x.code /\ y.order = x.order
  BY DEF Gone, Row
<1>2. y.active = x.active /\ y.live = FALSE
  BY DEF Gone, Row
<1>3. y \in Row
  BY DEF Gone, Row
<1> QED
  BY <1>1, <1>2, <1>3 DEF Same

(* A tree without one of its mirrors: what is below it stands where it was. *)
LEMMA WithoutMirror ==
  ASSUME NEW t, Good(t), NEW i \in DOMAIN t, t[i].kind = "mirror", NEW u,
         u = [t EXCEPT ![i] = Gone(t[i])]
  PROVE  /\ Good(u) /\ DOMAIN u = DOMAIN t
         /\ \A k \in DOMAIN t \ {i} : u[k] = t[k]
         /\ Same(t[i], u[i]) /\ ~ u[i].live /\ u[i].code = t[i].code
<1>1. /\ Shape(t) /\ IsTree(t) /\ Leveled(t) /\ Housed(t) /\ Named(t) /\ Coded(t)
      /\ \A k \in DOMAIN t : t[k] \in Row
  BY ParentFacts, TreeFacts DEF Good
<1>2. /\ DOMAIN u = DOMAIN t /\ u[i] = Gone(t[i]) /\ u = [k \in DOMAIN t |-> u[k]]
      /\ \A k \in DOMAIN t \ {i} : u[k] = t[k]
  BY <1>1, TreeFacts
<1>3. u[i] \in Row /\ ~ u[i].live /\ Same(t[i], u[i]) /\ u[i].code = t[i].code
  BY <1>1, <1>2, GoneFacts
<1>4. IsTree(u)
  BY <1>1, <1>2, <1>3, RowsMakeATree
<1>5. \A k \in DOMAIN t : /\ Same(t[k], u[k]) /\ u[k].code = t[k].code
                          /\ u[k].live => t[k].live
                          /\ Stands(t[k]) => Stands(u[k])
  BY <1>2, <1>3 DEF Same, Stands
<1>6. Shape(u)
  <2>1. \A k \in DOMAIN u : u[k].parent \in {Top} \cup DOMAIN u
    BY <1>1, <1>2, <1>5, ParentFacts DEF Same
  <2>2. \A k \in DOMAIN u : u[k].active => Stands(u[k])
    BY <1>1, <1>2, <1>5, ParentFacts DEF Same
  <2> QED
    BY <1>4, <2>1, <2>2 DEF Shape
<1>7. Leveled(u)
  <2>1. \A q \in {Top} \cup DOMAIN t : LevelUnder(u, q) = LevelUnder(t, q)
    BY <1>5 DEF LevelUnder, Same
  <2>2. \A k \in DOMAIN t : t[k].parent \in {Top} \cup DOMAIN t
    BY <1>1, ParentFacts
  <2>3. ASSUME NEW k \in DOMAIN t PROVE u[k].level = LevelUnder(u, u[k].parent)
    <3>1. u[k].level = t[k].level /\ u[k].parent = t[k].parent
      BY <1>5 DEF Same
    <3>2. t[k].level = LevelUnder(t, t[k].parent)
      BY <1>1 DEF Leveled
    <3> QED
      BY <2>1, <2>2, <3>1, <3>2
  <2> QED
    BY <1>2, <2>3 DEF Leveled
<1>8. Housed(u)
  <2>1. \A k \in DOMAIN t : t[k].parent \in {Top} \cup DOMAIN t
    BY <1>1, ParentFacts
  <2> QED
    BY <1>1, <1>2, <1>5, <2>1 DEF Housed, Same
<1>9. Named(u) /\ Coded(u)
  BY <1>1, <1>2, <1>5 DEF Named, Coded, Same
<1> QED
  BY <1>2, <1>3, <1>6, <1>7, <1>8, <1>9 DEF Good

(* Tree u is tree t without the mirrors of S, the siblings they leave numbered
   anew; the rows that are not of bumped are as they were. *)
Dropped(t, u, S, bumped) ==
  /\ Good(u) /\ DOMAIN u = DOMAIN t
  /\ \A k \in DOMAIN t : Same(t[k], u[k]) /\ (u[k].live <=> t[k].live /\ k \notin S)
  /\ \A k \in DOMAIN t \ bumped : u[k] = t[k]
  /\ \A k \in DOMAIN t : u[k].code # t[k].code => \E j \in S : t[j].parent = t[k].parent

DroppedTo(s, added, S) ==
  IsState(s) /\ (s.ok => added.ok /\ Dropped(added.tree, s.tree, S, s.bumped))

(* The record of a transaction, with a tree and more versions written. *)
Written(s, u, b) == [s EXCEPT !.tree = u, !.bumped = b]

LEMMA StateWritten ==
  ASSUME NEW s, IsState(s), NEW u, NEW b
  PROVE  /\ Written(s, u, b).tree = u /\ Written(s, u, b).bumped = b
         /\ Written(s, u, b).ok = s.ok /\ IsState(Written(s, u, b))
<1> DEFINE w == Written(s, u, b)
<1>1. s = [tree |-> s.tree, bumped |-> s.bumped, ok |-> s.ok] /\ s.ok \in BOOLEAN
  BY DEF IsState
<1>2. DOMAIN s = {"tree", "bumped", "ok"}
  BY <1>1
<1>3. /\ w.tree = u /\ w.bumped = b /\ w.ok = s.ok
      /\ DOMAIN w = {"tree", "bumped", "ok"} /\ w = [f \in {"tree", "bumped", "ok"} |-> w[f]]
  BY <1>2 DEF Written
<1> HIDE DEF w
<1>4. w = [tree |-> w.tree, bumped |-> w.bumped, ok |-> w.ok]
  BY <1>3
<1>5. IsState(w)
  BY <1>1, <1>3, <1>4 DEF IsState
<1> QED
  BY <1>3, <1>5 DEF w

LEMMA DropStep ==
  ASSUME NEW added, NEW s, NEW S, DroppedTo(s, added, S), NEW i \in DOMAIN added.tree,
         added.tree[i].kind = "mirror"
  PROVE  DroppedTo(DropMirror(s, i), added, S \cup {i})
<1> DEFINE t == added.tree
           r == [s EXCEPT !.tree[i].live = FALSE, !.bumped = @ \cup {i}]
           v == [s.tree EXCEPT ![i] = Gone(s.tree[i])]
           p == s.tree[i].parent
           Q == Siblings(v, p)
           pos == [j \in Q |-> Cardinality({k \in Q : OrderBefore(v, k, j)}) + 1]
           u == Rewritten(v, v, pos)
           d == DropMirror(s, i)
<1>1. IsState(s) /\ (s.ok => added.ok /\ Dropped(t, s.tree, S, s.bumped))
  BY DEF DroppedTo
<1>2. CASE ~ s.ok
  <2>1. d = s
    BY <1>2 DEF DropMirror
  <2> QED
    BY <1>1, <1>2, <2>1 DEF DroppedTo
<1>3. CASE s.ok
  <2>1. /\ Good(s.tree) /\ DOMAIN s.tree = DOMAIN t /\ added.ok
        /\ \A k \in DOMAIN t : /\ Same(t[k], s.tree[k])
                               /\ s.tree[k].live <=> t[k].live /\ k \notin S
        /\ \A k \in DOMAIN t \ s.bumped : s.tree[k] = t[k]
        /\ \A k \in DOMAIN t : s.tree[k].code # t[k].code => \E j \in S : t[j].parent = t[k].parent
    BY <1>1, <1>3 DEF Dropped
  <2>2. s.tree[i].kind = "mirror" /\ p = t[i].parent
    BY <2>1 DEF Same
  <2>3. /\ Good(v) /\ DOMAIN v = DOMAIN t
        /\ \A k \in DOMAIN t \ {i} : v[k] = s.tree[k]
        /\ Same(s.tree[i], v[i]) /\ ~ v[i].live /\ v[i].code = s.tree[i].code
    BY <2>1, <2>2, WithoutMirror
  <2>4. r.tree = v /\ IsState(r) /\ r.bumped = s.bumped \cup {i} /\ r.ok
    <3> DEFINE b == s.bumped \cup {i}
    <3>2. r = Written(s, v, b)
      BY <1>1 DEF IsState, Gone, Written
    <3> HIDE DEF r, v, b
    <3>3. r.tree = v /\ IsState(r) /\ r.bumped = b /\ r.ok = s.ok
      BY <1>1, <3>2, StateWritten
    <3> QED
      BY <1>3, <3>3 DEF b
  <2>5. d = RenumberMirrors(r, p)
    BY <1>3 DEF DropMirror
  <2> HIDE DEF v
  <2>6. d = IF \E j, k \in Q : pos[j] < pos[k] /\ v[k].code = pos[j]
            THEN [r EXCEPT !.ok = FALSE]
            ELSE [r EXCEPT !.tree = u, !.bumped = @ \cup Misplaced(v, pos)]
    <3> HIDE DEF r
    <3> QED
      BY <2>4, <2>5 DEF RenumberMirrors
  <2>7. CASE \E j, k \in Q : pos[j] < pos[k] /\ v[k].code = pos[j]
    <3>1. d = [r EXCEPT !.ok = FALSE]
      BY <2>6, <2>7
    <3> HIDE DEF d, r
    <3>2. IsState(d) /\ ~ d.ok
      <4>1. d = Broken(r)
        BY <3>1 DEF Broken
      <4>2. IsState(Broken(r)) /\ ~ Broken(r).ok
        BY <2>4, BrokenFacts
      <4> QED
        BY <4>1, <4>2
    <3>3. DroppedTo(d, added, S \cup {i})
      BY <3>2 DEF DroppedTo
    <3> QED
      BY <3>3 DEF d
  <2>8. CASE ~ \E j, k \in Q : pos[j] < pos[k] /\ v[k].code = pos[j]
    <3>1. d = [r EXCEPT !.tree = u, !.bumped = @ \cup Misplaced(v, pos)]
      BY <2>6, <2>8
    <3>2. /\ pos \in [Q -> Nat] /\ \A j \in Q : pos[j] >= 1
          /\ \A j, k \in Q : j # k => pos[j] # pos[k]
      <4>1. IsTree(v)
        BY <2>3, ParentFacts DEF Good
      <4>2. /\ Q = Siblings(v, p)
            /\ pos = [j \in Q |-> Cardinality({k \in Q : OrderBefore(v, k, j)}) + 1]
        OBVIOUS
      <4> HIDE DEF pos, Q
      <4> QED
        BY <4>1, <4>2, OrderRanks
    <3> DEFINE more == Misplaced(v, pos)
    <3>3. /\ IsState(d) /\ d.tree = u /\ d.bumped = s.bumped \cup {i} \cup more /\ d.ok
      <4> HIDE DEF u, r, d
      <4>1. d.tree = u /\ d.bumped = r.bumped \cup more /\ IsState(d) /\ d.ok = r.ok
        <5> DEFINE b == r.bumped \cup more
        <5>1. d = Written(r, u, b)
          BY <3>1 DEF d, Written
        <5> HIDE DEF b
        <5>a. IsState(r)
          BY <2>4
        <5>b. IsState(d)
          BY <5>a, <5>1, StateWritten
        <5>c. d.tree = u
          BY <5>a, <5>1, StateWritten
        <5>d. d.bumped = b
          BY <5>a, <5>1, StateWritten
        <5>2. d.tree = u /\ d.bumped = b /\ IsState(d) /\ d.ok = r.ok
          BY <5>1, <5>a, <5>b, <5>c, <5>d, StateWritten
        <5> QED
          BY <5>2 DEF b
      <4> QED
        BY <2>4, <4>1
    <3> HIDE DEF pos, d, r
    <3>4. /\ Good(u) /\ Alike(v, u)
          /\ \A k \in DOMAIN v \ more : u[k] = v[k]
          /\ \A k \in DOMAIN v \ Q : u[k] = v[k]
      BY <2>3, <3>2, PlacedAnew
    <3> HIDE DEF u, more
    <3>5. ASSUME NEW k \in DOMAIN t
          PROVE  /\ Same(t[k], u[k])
                 /\ u[k].live <=> t[k].live /\ k \notin S \cup {i}
                 /\ v[k].code = s.tree[k].code
      <4>1. Same(v[k], u[k]) /\ u[k].live = v[k].live
        BY <2>3, <3>4 DEF Alike, Same
      <4>2. Same(s.tree[k], v[k]) /\ v[k].code = s.tree[k].code
        BY <2>3 DEF Same
      <4>3. v[k].live <=> s.tree[k].live /\ k # i
        BY <2>3
      <4>4. Same(t[k], s.tree[k]) /\ (s.tree[k].live <=> t[k].live /\ k \notin S)
        BY <2>1
      <4>5. Same(t[k], u[k])
        BY <4>1, <4>2, <4>4 DEF Same
      <4> QED
        BY <4>1, <4>2, <4>3, <4>4, <4>5
    <3>6. \A k \in DOMAIN t \ d.bumped : u[k] = t[k]
      BY <2>1, <2>3, <3>3, <3>4
    <3>7. ASSUME NEW k \in DOMAIN t, u[k].code # t[k].code
          PROVE  \E j \in S \cup {i} : t[j].parent = t[k].parent
      <4>1. CASE k \in Q
        <5>1. v[k].parent = p /\ v[k].parent = t[k].parent
          BY <2>1, <2>3, <4>1 DEF Siblings, Same
        <5> QED
          BY <2>2, <5>1
      <4>2. CASE k \notin Q
        <5>1. u[k].code = s.tree[k].code
          BY <2>3, <3>4, <3>5, <4>2
        <5> QED
          BY <2>1, <3>7, <5>1
      <4> QED
        BY <4>1, <4>2
    <3>8. DOMAIN u = DOMAIN t
      BY <2>3, <3>4 DEF Alike
    <3>9. Dropped(t, d.tree, S \cup {i}, d.bumped)
      BY <3>3, <3>4, <3>5, <3>6, <3>7, <3>8 DEF Dropped
    <3>10. DroppedTo(d, added, S \cup {i})
      BY <2>1, <3>3, <3>9 DEF DroppedTo
    <3> QED
      BY <3>10 DEF d
  <2> QED
    BY <2>7, <2>8
<1> QED
  BY <1>2, <1>3

(* Of the mirrors that are left one goes last. *)
LEMMA OneGoesLast ==
  ASSUME NEW t, IsTree(t), NEW S \in SUBSET DOMAIN t, S # {}
  PROVE  LastToGo(t, S) \in S
<1> DEFINE D == {Len(t[i].path) : i \in S}
           F == {i \in S : \A k \in S : Len(t[i].path) <= Len(t[k].path)}
<1>1. DOMAIN t = 1 .. Len(t) /\ Len(t) \in Nat
  BY TreeFacts
<1>2. \A i \in S : Len(t[i].path) \in Nat
  BY TreeFacts DEF Row
<1>3. PICK l \in D : \A n \in D : l <= n
  <2>1. D \subseteq Nat /\ D # {}
    BY <1>2
  <2> HIDE DEF D
  <2> QED
    BY <2>1, HasLeast
<1>4. F # {}
  <2>1. PICK i \in S : l = Len(t[i].path)
    BY <1>3
  <2>2. \A k \in S : Len(t[i].path) <= Len(t[k].path)
    BY <1>3, <2>1
  <2> QED
    BY <2>2
<1>5. F \in SUBSET (0 .. Len(t))
  BY <1>1
<1>6. LastToGo(t, S) = Max(F)
  BY DEF LastToGo
<1> HIDE DEF F
<1>7. Max(F) \in F
  BY <1>1, <1>4, <1>5, MaxFacts
<1> QED
  BY <1>6, <1>7 DEF F

Small(V, n) == {S \in SUBSET V : Cardinality(S) <= n}

(* The fold of the removals, as a function of the mirrors that have gone. *)
Dropping(added, V, n, g) ==
  g = [S \in Small(V, n) |->
         IF S = {} THEN added
         ELSE DropMirror(g[S \ {LastToGo(added.tree, S)}], LastToGo(added.tree, S))]

LEMMA SmallFacts ==
  ASSUME NEW V, IsFiniteSet(V), NEW n \in Nat
  PROVE  /\ \A S \in Small(V, n) : S \in Small(V, n + 1)
         /\ \A S \in Small(V, n + 1) : \A i \in S : S \ {i} \in Small(V, n)
         /\ Small(V, 0) = {{}}
<1>1. \A S \in SUBSET V : IsFiniteSet(S) /\ Cardinality(S) \in Nat
  <2>1. \A S \in SUBSET V : IsFiniteSet(S)
    BY FS_Subset
  <2> QED
    BY <2>1, FS_CardinalityType
<1>2. \A S \in Small(V, n) : S \in Small(V, n + 1)
  BY <1>1 DEF Small
<1>3. ASSUME NEW S \in Small(V, n + 1), NEW i \in S PROVE S \ {i} \in Small(V, n)
  <2>1. S \in SUBSET V /\ IsFiniteSet(S) /\ Cardinality(S) \in Nat /\ Cardinality(S) <= n + 1
    BY <1>1 DEF Small
  <2>2. Cardinality(S \ {i}) = Cardinality(S) - 1
    BY <2>1, FS_RemoveElement
  <2> QED
    BY <2>1, <2>2 DEF Small
<1>4. Small(V, 0) = {{}}
  <2>1. ASSUME NEW S \in Small(V, 0) PROVE S = {}
    <3>1. S \in SUBSET V /\ IsFiniteSet(S) /\ Cardinality(S) = 0
      BY <1>1 DEF Small
    <3> QED
      BY <3>1, FS_EmptySet
  <2>2. {} \in Small(V, 0)
    <3>1. Cardinality({}) = 0
      BY FS_EmptySet
    <3> QED
      BY <3>1 DEF Small
  <2> QED
    BY <2>1, <2>2
<1> QED
  BY <1>2, <1>3, <1>4

LEMMA DroppingExists ==
  ASSUME NEW added, IsTree(added.tree), NEW V \in SUBSET DOMAIN added.tree
  PROVE  \A n \in Nat : \E g : Dropping(added, V, n, g)
<1> DEFINE T == {n \in Nat : \E g : Dropping(added, V, n, g)}
           last(S) == LastToGo(added.tree, S)
<1>0. IsFiniteSet(V)
  BY TreeFacts, FS_Subset
<1>a. \A S \in SUBSET V : S # {} => last(S) \in S
  BY OneGoesLast
<1> HIDE DEF last
<1>1. 0 \in T
  <2> DEFINE g == [S \in Small(V, 0) |-> added]
  <2>1. Small(V, 0) = {{}}
    BY <1>0, SmallFacts
  <2>2. Dropping(added, V, 0, g)
    BY <2>1 DEF Dropping
  <2> QED
    BY <2>2
<1>2. ASSUME NEW n \in Nat, n \in T PROVE n + 1 \in T
  <2>1. PICK g : Dropping(added, V, n, g)
    BY <1>2
  <2>a. \A S \in Small(V, n) :
          g[S] = IF S = {} THEN added ELSE DropMirror(g[S \ {last(S)}], last(S))
    BY <2>1 DEF Dropping, last
  <2> DEFINE h == [S \in Small(V, n + 1) |->
                     IF S \in Small(V, n) THEN g[S] ELSE DropMirror(g[S \ {last(S)}], last(S))]
  <2>b. /\ \A S \in Small(V, n) : S \in Small(V, n + 1) /\ h[S] = g[S]
        /\ \A S \in Small(V, n + 1) : S \in SUBSET V
        /\ {} \in Small(V, n)
    <3>1. \A S \in Small(V, n) : S \in Small(V, n + 1)
      BY <1>0, SmallFacts
    <3>2. {} \in Small(V, n)
      <4>1. Cardinality({}) = 0
        BY FS_EmptySet
      <4> QED
        BY <4>1 DEF Small
    <3>3. \A S \in Small(V, n + 1) : S \in SUBSET V
      BY DEF Small
    <3> QED
      BY <3>1, <3>2, <3>3
  <2>c. \A S \in Small(V, n + 1) \ Small(V, n) : h[S] = DropMirror(g[S \ {last(S)}], last(S))
    OBVIOUS
  <2>d. DOMAIN h = Small(V, n + 1) /\ h = [S \in Small(V, n + 1) |-> h[S]]
    OBVIOUS
  <2> HIDE DEF h
  <2>2. ASSUME NEW S \in Small(V, n + 1)
        PROVE  h[S] = IF S = {} THEN added ELSE DropMirror(h[S \ {last(S)}], last(S))
    <3>1. CASE S = {}
      BY <2>a, <2>b, <3>1
    <3>2. CASE S # {}
      <4>1. S \ {last(S)} \in Small(V, n)
        BY <1>0, <1>a, <2>b, <3>2, SmallFacts
      <4>2. h[S \ {last(S)}] = g[S \ {last(S)}]
        BY <2>b, <4>1
      <4>3. h[S] = DropMirror(g[S \ {last(S)}], last(S))
        BY <2>a, <2>b, <2>c, <3>2
      <4> QED
        BY <3>2, <4>2, <4>3
    <3> QED
      BY <3>1, <3>2
  <2>3. h = [S \in Small(V, n + 1) |->
               IF S = {} THEN added ELSE DropMirror(h[S \ {last(S)}], last(S))]
    BY <2>2, <2>d
  <2>4. Dropping(added, V, n + 1, h)
    BY <2>3 DEF Dropping, last
  <2> QED
    BY <2>4
<1> HIDE DEF T
<1>3. Nat \subseteq T
  BY <1>1, <1>2, NatSetInduction
<1> QED
  BY <1>3 DEF T

(* The removals leave a tree of directories without the mirrors of V. *)
LEMMA DroppingDrops ==
  ASSUME NEW added, IsState(added), added.ok => Good(added.tree), IsTree(added.tree),
         NEW V \in SUBSET DOMAIN added.tree, \A i \in V : added.tree[i].kind = "mirror",
         NEW n \in Nat, NEW g, Dropping(added, V, n, g)
  PROVE  \A S \in Small(V, n) : DroppedTo(g[S], added, S)
<1> DEFINE T == {m \in Nat : m <= n => \A S \in Small(V, m) : DroppedTo(g[S], added, S)}
           last(S) == LastToGo(added.tree, S)
<1>0. IsFiniteSet(V)
  BY TreeFacts, FS_Subset
<1>a. \A S \in SUBSET V : S # {} => last(S) \in S
  BY OneGoesLast
<1>b. \A S \in Small(V, n) :
        g[S] = IF S = {} THEN added ELSE DropMirror(g[S \ {last(S)}], last(S))
  BY DEF Dropping
<1> HIDE DEF last
<1>c. \A S \in Small(V, n) : S \in SUBSET V
  BY DEF Small
<1>d. {} \in Small(V, n)
  <2>1. Cardinality({}) = 0
    BY FS_EmptySet
  <2> QED
    BY <2>1 DEF Small
<1>e. ASSUME NEW m \in Nat, m <= n PROVE Small(V, m) \subseteq Small(V, n)
  <2>1. \A S \in SUBSET V : Cardinality(S) \in Nat
    <3>1. \A S \in SUBSET V : IsFiniteSet(S)
      BY <1>0, FS_Subset
    <3> QED
      BY <3>1, FS_CardinalityType
  <2> QED
    BY <1>e, <2>1 DEF Small
<1>1. DroppedTo(g[{}], added, {})
  <2>1. g[{}] = added
    BY <1>b, <1>d
  <2>2. ASSUME added.ok PROVE Dropped(added.tree, added.tree, {}, added.bumped)
    BY <2>2 DEF Dropped, Same
  <2> QED
    BY <2>1, <2>2 DEF DroppedTo
<1>2. 0 \in T
  BY <1>0, <1>1, SmallFacts
<1>3. ASSUME NEW m \in Nat, m \in T PROVE m + 1 \in T
  <2> SUFFICES ASSUME m + 1 <= n, NEW S \in Small(V, m + 1) PROVE DroppedTo(g[S], added, S)
    OBVIOUS
  <2>0. m <= n /\ \A Q \in Small(V, m) : DroppedTo(g[Q], added, Q)
    BY <1>3
  <2> HIDE DEF T
  <2>1. CASE S = {}
    BY <1>1, <2>1
  <2>2. CASE S # {}
    <3>1. S \in Small(V, n) /\ S \in SUBSET V /\ last(S) \in S
      BY <1>a, <1>c, <1>e, <2>2
    <3>2. S \ {last(S)} \in Small(V, m)
      BY <1>0, <3>1, SmallFacts
    <3>3. DroppedTo(g[S \ {last(S)}], added, S \ {last(S)})
      BY <2>0, <3>2
    <3>4. last(S) \in DOMAIN added.tree /\ added.tree[last(S)].kind = "mirror"
      BY <3>1
    <3>5. DroppedTo(DropMirror(g[S \ {last(S)}], last(S)), added, (S \ {last(S)}) \cup {last(S)})
      BY <3>3, <3>4, DropStep
    <3>6. (S \ {last(S)}) \cup {last(S)} = S
      BY <3>1
    <3>7. g[S] = DropMirror(g[S \ {last(S)}], last(S))
      BY <1>b, <2>2, <3>1
    <3> QED
      BY <3>5, <3>6, <3>7
  <2> QED
    BY <2>1, <2>2
<1> HIDE DEF T
<1>4. Nat \subseteq T
  BY <1>2, <1>3, NatSetInduction
<1> QED
  BY <1>4 DEF T

(* A reconciliation that ends adds mirrors first and then drops those that have
   vanished. *)
LEMMA MaterializedFacts ==
  ASSUME PathsAssumption, MInv, NEW root \in ShareRoots(tree), NEW folders,
         Materialized(root, folders).ok, NEW t, t = Added(root, folders).tree
  PROVE  /\ Grows(t, root, folders, Len(PathsInOrder))
         /\ Dropped(t, Materialized(root, folders).tree, Vanished(t, folders),
                    Materialized(root, folders).bumped)
<1> DEFINE added == Added(root, folders)
           s == Materialized(root, folders)
           V == Vanished(t, folders)
           n == Cardinality(V)
           it == CHOOSE g : Dropping(added, V, n, g)
<1>1. AddedTo(added, root, folders, Len(PathsInOrder))
  BY AddedGrows
<1>2. /\ IsState(added) /\ IsTree(t) /\ added.tree = t
      /\ added.ok => Grows(t, root, folders, Len(PathsInOrder))
  BY <1>1 DEF AddedTo
<1>3. added.ok => Good(added.tree)
  BY <1>2 DEF Grows
<1>4. V \in SUBSET DOMAIN added.tree /\ \A i \in V : added.tree[i].kind = "mirror"
  BY DEF Vanished, Mirrored
<1>5. V = Vanished(added.tree, folders)
  OBVIOUS
<1> HIDE DEF V
<1>6. IsFiniteSet(V) /\ n \in Nat
  <2>1. IsFiniteSet(V)
    BY <1>2, <1>4, TreeFacts, FS_Subset
  <2> QED
    BY <2>1, FS_CardinalityType
<1>7. Small(V, n) = SUBSET V
  <2>1. ASSUME NEW S \in SUBSET V PROVE Cardinality(S) <= n
    BY <1>6, FS_Subset
  <2> QED
    BY <2>1 DEF Small
<1>8. Dropping(added, V, n, it)
  <2> HIDE DEF n, added
  <2>1. \E g : Dropping(added, V, n, g)
    BY <1>2, <1>4, <1>6, DroppingExists
  <2> QED
    BY <2>1
<1>9. s = it[V]
  BY <1>5, <1>7 DEF Materialized, MapThenFoldSet, Dropping
<1> HIDE DEF it, n, added, s
<1>10. DroppedTo(it[V], added, V)
  <2>1. V \in Small(V, n)
    BY <1>7
  <2> QED
    BY <1>2, <1>3, <1>4, <1>6, <1>8, <2>1, DroppingDrops
<1>11. s.ok
  BY DEF s
<1> QED
  BY <1>2, <1>9, <1>10, <1>11 DEF DroppedTo, s, V

(* The rows of a tree that was reconciled. *)
LEMMA FinalRows ==
  ASSUME PathsAssumption, MInv, NEW root \in ShareRoots(tree), NEW folders, NEW n,
         NEW t, Grows(t, root, folders, n), NEW u, NEW bumped,
         Dropped(t, u, Vanished(t, folders), bumped)
  PROVE  /\ Good(u) /\ DOMAIN u = DOMAIN t /\ DOMAIN tree \subseteq DOMAIN u
         /\ \A k \in DOMAIN u : /\ Mirrored(u, k) <=> Mirrored(t, k) /\ t[k].path \in folders
                                /\ u[k].path = t[k].path /\ u[k].kind = t[k].kind
         /\ \A k \in DOMAIN tree : t[k] = tree[k] /\ Same(tree[k], u[k])
         /\ \A k \in DOMAIN u \ DOMAIN tree : t[k].kind = "mirror" /\ t[k].path \in folders
         /\ OneMirror(t)
<1>1. /\ Good(u) /\ DOMAIN u = DOMAIN t
      /\ \A k \in DOMAIN t : /\ Same(t[k], u[k])
                             /\ u[k].live <=> t[k].live /\ k \notin Vanished(t, folders)
  BY DEF Dropped
<1>2. /\ DOMAIN tree \subseteq DOMAIN t /\ \A k \in DOMAIN tree : t[k] = tree[k]
      /\ \A k \in DOMAIN t \ DOMAIN tree : Fresh(t, root, folders, n, k)
      /\ OneMirror(t)
  BY DEF Grows
<1>3. \A k \in DOMAIN u : u[k].path = t[k].path /\ u[k].kind = t[k].kind
  BY <1>1 DEF Same
<1>4. ASSUME NEW k \in DOMAIN u
      PROVE  Mirrored(u, k) <=> Mirrored(t, k) /\ t[k].path \in folders
  BY <1>1, <1>3 DEF Mirrored, Vanished
<1>5. \A k \in DOMAIN u \ DOMAIN tree : t[k].kind = "mirror" /\ t[k].path \in folders
  BY <1>1, <1>2 DEF Fresh
<1> QED
  BY <1>1, <1>2, <1>3, <1>4, <1>5

(* What a reconciliation that ends leaves of the tree. *)
LEMMA FinalTree ==
  ASSUME PathsAssumption, MInv, NEW root \in ShareRoots(tree), NEW folders, NEW n,
         NEW t, Grows(t, root, folders, n), NEW u, NEW bumped,
         Dropped(t, u, Vanished(t, folders), bumped)
  PROVE  /\ Good(u) /\ Kept(tree, u, bumped) /\ Lives(tree, u)
         /\ OneMirror(u) /\ \A i, k \in DOMAIN u : u[i].kind = "share" /\ u[k].kind = "share" => i = k
<1>1. /\ Good(u) /\ DOMAIN u = DOMAIN t /\ DOMAIN tree \subseteq DOMAIN u
      /\ \A k \in DOMAIN u : /\ Mirrored(u, k) <=> Mirrored(t, k) /\ t[k].path \in folders
                             /\ u[k].path = t[k].path /\ u[k].kind = t[k].kind
      /\ \A k \in DOMAIN tree : t[k] = tree[k] /\ Same(tree[k], u[k])
      /\ \A k \in DOMAIN u \ DOMAIN tree : t[k].kind = "mirror" /\ t[k].path \in folders
      /\ OneMirror(t)
  BY FinalRows
<1>2. /\ \A k \in DOMAIN t \ bumped : u[k] = t[k]
      /\ \A k \in DOMAIN t : u[k].live <=> t[k].live /\ k \notin Vanished(t, folders)
  BY DEF Dropped
<1>3. Kept(tree, u, bumped)
  BY <1>1, <1>2 DEF Kept
<1>4. Lives(tree, u)
  <2>1. ASSUME NEW k \in DOMAIN tree, Stands(tree[k]) PROVE Stands(u[k])
    <3>1. t[k] = tree[k] /\ u[k].kind = t[k].kind /\ k \in DOMAIN t
      BY <1>1
    <3>2. k \in Vanished(t, folders) => t[k].kind = "mirror"
      BY DEF Vanished, Mirrored
    <3> QED
      BY <1>2, <2>1, <3>1, <3>2 DEF Stands
  <2> QED
    BY <2>1 DEF Lives
<1>5. OneMirror(u)
  BY <1>1 DEF OneMirror
<1>6. ASSUME NEW i \in DOMAIN u, u[i].kind = "share" PROVE i = root
  <2>1. i \in DOMAIN tree /\ tree[i].kind = "share"
    BY <1>1, <1>6
  <2> QED
    BY <2>1, RootFacts
<1> QED
  BY <1>1, <1>3, <1>4, <1>5, <1>6

(* The mirrors it leaves are those of the folders. *)
LEMMA FinalFollows ==
  ASSUME PathsAssumption, MInv, NEW root \in ShareRoots(tree), NEW walk \in Walks,
         NEW t, Grows(t, root, walk, Len(PathsInOrder)), NEW u, NEW bumped,
         Dropped(t, u, Vanished(t, walk), bumped)
  PROVE  Follows(u, walk)
<1>1. /\ DOMAIN u = DOMAIN t /\ DOMAIN tree \subseteq DOMAIN u
      /\ \A k \in DOMAIN u : /\ Mirrored(u, k) <=> Mirrored(t, k) /\ t[k].path \in walk
                             /\ u[k].path = t[k].path /\ u[k].kind = t[k].kind
      /\ \A k \in DOMAIN tree : t[k] = tree[k] /\ Same(tree[k], u[k])
      /\ \A k \in DOMAIN u \ DOMAIN tree : t[k].kind = "mirror" /\ t[k].path \in walk
      /\ OneMirror(t)
  BY FinalRows
<1>2. \A i \in DOMAIN u : Mirrored(u, i) => u[i].path \in walk
  BY <1>1
<1>3. \A i \in DOMAIN tree : u[i].active = tree[i].active /\ u[i].name = tree[i].name
  BY <1>1 DEF Same
<1>4. ShareRoots(u) \subseteq {root}
  <2>1. ASSUME NEW i \in ShareRoots(u) PROVE i = root
    <3>1. i \in DOMAIN tree /\ tree[i].kind = "share"
      BY <1>1, <2>1 DEF ShareRoots
    <3> QED
      BY <3>1, RootFacts
  <2> QED
    BY <2>1
<1>5. \A path : MirrorsOf(u, path) \subseteq MirrorsOf(t, path)
  BY <1>1 DEF MirrorsOf
<1>6. ASSUME NEW path \in walk
      PROVE  LET homes == IF Len(path) = 1 THEN ShareRoots(u) ELSE MirrorsOf(u, Front(path)) IN
             \/ Cardinality(MirrorsOf(u, path)) = 1
             \/ /\ MirrorsOf(u, path) = {}
                /\ \A p \in homes : ~ NameFree(tree, p, Last(path), 0)
  <2> DEFINE homes == IF Len(path) = 1 THEN ShareRoots(u) ELSE MirrorsOf(u, Front(path))
  <2>1. MirrorsOf(u, path) = MirrorsOf(t, path)
    BY <1>1 DEF MirrorsOf
  <2>2. PICK j \in DOMAIN PathsInOrder : path = PathsInOrder[j]
    BY DEF Walks, Paths, Range
  <2>3. j \in 1 .. Len(PathsInOrder)
    BY DEF PathsAssumption
  <2>4. Answered(t, root, path)
    BY <2>2, <2>3 DEF Grows
  <2>5. CASE MirrorsOf(t, path) = {}
    <3>1. \A p \in Homes(t, root, path) : ~ NameFree(tree, p, Last(path), 0)
      BY <2>4, <2>5 DEF Answered
    <3>2. homes \subseteq Homes(t, root, path)
      BY <1>4, <1>5 DEF Homes
    <3> HIDE DEF homes
    <3>3. \A p \in homes : ~ NameFree(tree, p, Last(path), 0)
      BY <3>1, <3>2
    <3> QED
      BY <2>1, <2>5, <3>3 DEF homes
  <2>6. CASE MirrorsOf(t, path) # {}
    <3>1. PICK i : i \in MirrorsOf(t, path)
      BY <2>6
    <3>2. MirrorsOf(t, path) = {i}
      BY <1>1, <3>1 DEF MirrorsOf, OneMirror
    <3>3. Cardinality({i}) = 1
      BY FS_Singleton
    <3> QED
      BY <2>1, <3>2, <3>3
  <2> QED
    BY <2>5, <2>6
<1> QED
  BY <1>2, <1>3, <1>6 DEF Follows

(* No two rows that stay siblings, away from any mirror, change their order, but
   for one row. *)
Unmixed(t, u, i, k) ==
  /\ t[i].live /\ t[k].live /\ t[i].parent = t[k].parent
  /\ u[i].live /\ u[k].live /\ u[i].parent = u[k].parent
  /\ \A m \in Siblings(t, t[i].parent) : ~ Mirrored(t, m)

Orderly(t, u) ==
  \E moved \in DOMAIN u : \A i, k \in DOMAIN t \ {moved} :
    Unmixed(t, u, i, k) /\ CodeBefore(t, i, k) => ~ CodeBefore(u, k, i)

LEMMA OrderedOrderly ==
  ASSUME NEW t, NEW u, NEW moved \in DOMAIN u, Ordered(t, u, moved)
  PROVE  Orderly(t, u)
  BY DEF Ordered, Orderly, Unmixed

(* Away from the mirrors a reconciliation changes no order. *)
LEMMA FinalOrder ==
  ASSUME PathsAssumption, MInv, NEW root \in ShareRoots(tree), NEW folders, NEW n,
         NEW t, Grows(t, root, folders, n), NEW u, NEW bumped,
         Dropped(t, u, Vanished(t, folders), bumped)
  PROVE  Orderly(tree, u)
<1>1. /\ DOMAIN u = DOMAIN t /\ DOMAIN tree \subseteq DOMAIN u
      /\ \A k \in DOMAIN tree : t[k] = tree[k] /\ Same(tree[k], u[k])
      /\ \A k \in DOMAIN u \ DOMAIN tree : t[k].kind = "mirror" /\ t[k].path \in folders
  BY FinalRows
<1>2. /\ root \in DOMAIN tree
      /\ \A k \in DOMAIN tree : tree[k].code \in Nat /\ k \in Nat
  BY RootFacts, TreeFacts DEF Row
<1>3. ASSUME NEW k \in DOMAIN tree, \A m \in Siblings(tree, tree[k].parent) : ~ Mirrored(tree, m)
      PROVE  u[k].code = tree[k].code
  <2> SUFFICES ASSUME u[k].code # tree[k].code PROVE FALSE
    OBVIOUS
  <2>1. PICK j \in Vanished(t, folders) : t[j].parent = t[k].parent
    BY <1>1 DEF Dropped
  <2>2. j \in DOMAIN t /\ t[j].live /\ t[j].kind = "mirror" /\ t[j].path \notin folders
    BY DEF Vanished, Mirrored
  <2>3. j \in DOMAIN tree /\ t[j] = tree[j] /\ t[k] = tree[k]
    BY <1>1, <2>2
  <2>4. j \in Siblings(tree, tree[k].parent) /\ Mirrored(tree, j)
    BY <2>1, <2>2, <2>3 DEF Siblings, Mirrored
  <2> QED
    BY <1>3, <2>4
<1>4. ASSUME NEW i \in DOMAIN tree, NEW k \in DOMAIN tree, Unmixed(tree, u, i, k),
             CodeBefore(tree, i, k)
      PROVE  ~ CodeBefore(u, k, i)
  <2>1. u[i].code = tree[i].code /\ u[k].code = tree[k].code
    BY <1>3, <1>4 DEF Unmixed
  <2> QED
    BY <1>2, <1>4, <2>1 DEF CodeBefore, Temp
<1>5. root \in DOMAIN u
  BY <1>1, <1>2
<1> QED
  BY <1>4, <1>5 DEF Orderly

-----------------------------------------------------------------------------
(* The steps of the tree with a share. *)

MSafe == MInv' /\ Orderly(tree, tree')

LEMMA ReconciledSafe ==
  ASSUME PathsAssumption, MInv, NEW root \in ShareRoots(tree), NEW folders,
         Materialized(root, folders).ok,
         Commit(Materialized(root, folders).tree, Materialized(root, folders).bumped),
         UNCHANGED <<items, asked>>, shareStatus' # "none"
  PROVE  MSafe
<1> DEFINE u == Materialized(root, folders).tree
           b == Materialized(root, folders).bumped
           t == Added(root, folders).tree
<1>1. Grows(t, root, folders, Len(PathsInOrder)) /\ Dropped(t, u, Vanished(t, folders), b)
  BY MaterializedFacts
<1>2. Commit(u, b)
  OBVIOUS
<1> HIDE DEF u, b, t
<1>3. /\ Good(u) /\ Kept(tree, u, b) /\ Lives(tree, u)
      /\ OneMirror(u) /\ \A i, k \in DOMAIN u : u[i].kind = "share" /\ u[k].kind = "share" => i = k
  BY <1>1, FinalTree
<1>4. Orderly(tree, u)
  BY <1>1, FinalOrder
<1>5. tree' = u
  BY <1>2 DEF Commit
<1>6. Open(tree', forms')
  BY <1>2, <1>3, OpenKept DEF MInv, TInv
<1>7. Held(tree', items', asked')
  BY <1>3, <1>5, HeldKept DEF MInv, TInv
<1>8. OneShare(tree', shareStatus')
  BY <1>3, <1>5 DEF OneShare
<1> QED
  BY <1>3, <1>4, <1>5, <1>6, <1>7, <1>8 DEF MSafe, MInv, TInv

LEMMA ScanKeeps ==
  ASSUME PathsAssumption, MInv, NEW walk, Scan(walk)
  PROVE  MSafe
<1>1. PICK root \in ShareRoots(tree) :
        LET s == Materialized(root, walk) IN
        /\ IF s.ok
           THEN /\ Commit(s.tree, s.bumped)
                /\ shareStatus' = "available"
           ELSE /\ shareStatus' = "scan_failed"
                /\ UNCHANGED <<tree, forms, recorded>>
        /\ UNCHANGED <<items, asked>>
  BY DEF Scan
<1>2. CASE Materialized(root, walk).ok
  BY <1>1, <1>2, ReconciledSafe
<1>3. CASE ~ Materialized(root, walk).ok
  <2>1. tree' = tree /\ forms' = forms /\ items' = items /\ asked' = asked
        /\ shareStatus' # "none"
    BY <1>1, <1>3
  <2>2. TInv /\ DOMAIN tree # {}
    BY RootFacts DEF MInv
  <2>3. Safe
    BY <2>1, <2>2, StillSafe DEF TInv
  <2>4. MInv'
    BY <2>1 DEF MInv, TInv, OneShare
  <2> QED
    BY <2>3, <2>4, OrderedOrderly DEF Safe, MSafe
<1> QED
  BY <1>2, <1>3

LEMMA ListKeeps ==
  ASSUME PathsAssumption, MInv, List
  PROVE  MSafe
<1>1. PICK root \in ShareRoots(tree) :
        LET s == Materialized(root, recorded) IN
        /\ s.ok /\ Commit(s.tree, s.bumped)
        /\ UNCHANGED <<items, asked, shareStatus>>
  BY DEF List
<1>2. shareStatus' # "none"
  BY <1>1, RootFacts
<1> QED
  BY <1>1, <1>2, ReconciledSafe

Shared(x) == [x EXCEPT !.kind = "share"]

LEMMA SharedFacts ==
  ASSUME NEW x \in Row
  PROVE  /\ Shared(x) \in Row /\ Shared(x).kind = "share"
         /\ Shared(x).parent = x.parent /\ Shared(x).name = x.name /\ Shared(x).code = x.code
         /\ Shared(x).level = x.level /\ Shared(x).live = x.live
  BY DEF Shared, Row

LEMMA ShareKeeps ==
  ASSUME TreeAssumption, MInv, NEW p \in Parents, NEW name \in Names, Share(p, name)
  PROVE  MSafe
<1> DEFINE v == Grown(p, name, NextCode(tree, p), NextOrder(tree, p))
           u == [v EXCEPT ![Len(v)].kind = "share"]
           new == Len(tree) + 1
<1>1. /\ Good(tree) /\ Shape(tree) /\ IsTree(tree) /\ TInv
      /\ OneMirror(tree) /\ OneShare(tree, shareStatus)
  BY ParentFacts DEF MInv, TInv, Good
<1>2. /\ Receives(tree, p) /\ NameFree(tree, p, name, 0) /\ shareStatus = "none"
      /\ Commit(u, {}) /\ items' = items /\ asked' = asked
  BY DEF Share, CanCreate
<1>3. /\ NextCode(tree, p) \in Nat /\ NextOrder(tree, p) \in Nat
      /\ CodeFree(tree, p, NextCode(tree, p), 0)
  BY <1>1, NextFacts
<1>4. PICK x : v = Append(tree, x) /\ Fitting(tree, x) /\ x.parent = p
               /\ x.code = NextCode(tree, p)
  BY <1>1, <1>2, <1>3, GrownFacts
<1>5. x \in Row
  BY <1>4 DEF Fitting
<1> DEFINE y == Shared(x)
<1>6. /\ y \in Row /\ y.kind = "share" /\ y.parent = p /\ y.name = x.name
      /\ y.code = NextCode(tree, p) /\ y.level = x.level /\ y.live = x.live
  BY <1>4, <1>5, SharedFacts
<1>7. Fitting(tree, y)
  BY <1>4, <1>6 DEF Fitting
<1>8. u = Append(tree, y)
  <2>1. /\ Len(tree) \in Nat /\ tree \in Seq(Row) /\ v \in Seq(Row) /\ Len(v) = new
        /\ v[new] = x /\ \A k \in 1 .. Len(tree) : v[k] = tree[k]
    BY <1>1, <1>4, <1>5, TreeFacts DEF IsTree
  <2>2. /\ Append(tree, y) \in Seq(Row) /\ Len(Append(tree, y)) = new
        /\ Append(tree, y)[new] = y /\ \A k \in 1 .. Len(tree) : Append(tree, y)[k] = tree[k]
    BY <1>1, <1>6, TreeFacts DEF IsTree
  <2> DEFINE w == Append(tree, y)
  <2>3. u = [v EXCEPT ![Len(v)] = Shared(v[Len(v)])]
    <3> HIDE DEF v
    <3> QED
      BY DEF Shared
  <2>4. DOMAIN v = 1 .. new /\ DOMAIN w = 1 .. new /\ w = [k \in 1 .. new |-> w[k]]
    <3> HIDE DEF v, w
    <3>1. v \in Seq(Row) /\ Len(v) = new /\ w \in Seq(Row) /\ Len(w) = new
      BY <2>1, <2>2 DEF w
    <3>2. DOMAIN v = 1 .. new /\ DOMAIN w = 1 .. new
      BY <3>1
    <3>3. \A q \in Seq(Row) : q = [k \in DOMAIN q |-> q[k]]
      OBVIOUS
    <3> QED
      BY <3>1, <3>2, <3>3
  <2>5. \A k \in 1 .. new : k = new \/ k \in 1 .. Len(tree)
    BY <2>1
  <2>6. y = Shared(x)
    OBVIOUS
  <2>7. w[new] = y /\ \A k \in 1 .. Len(tree) : w[k] = tree[k]
    BY <2>2
  <2> HIDE DEF u, v, w, y
  <2>8. u = [k \in 1 .. new |-> IF k = new THEN Shared(v[k]) ELSE v[k]]
    BY <2>1, <2>3, <2>4
  <2>9. ASSUME NEW k \in 1 .. new
        PROVE  w[k] = IF k = new THEN Shared(v[k]) ELSE v[k]
    BY <2>1, <2>5, <2>6, <2>7
  <2>10. u = w
    BY <2>4, <2>8, <2>9
  <2> QED
    BY <2>10 DEF w
<1> HIDE DEF u, v, y, new
<1>9. Extended(tree, u, y)
  BY <1>1, <1>7, <1>8, AppendedFacts
<1>10. Good(u)
  BY <1>1, <1>3, <1>6, <1>9, ExtendedGood
<1>11. /\ DOMAIN u = DOMAIN tree \cup {new} /\ u[new].kind = "share"
       /\ \A k \in DOMAIN tree : u[k] = tree[k]
  BY <1>6, <1>9 DEF Extended, new
<1>12. Kept(tree, u, {}) /\ Lives(tree, u) /\ Ordered(tree, u, new)
  BY <1>1, <1>11, AddedFacts
<1>13. Orderly(tree, u)
  BY <1>11, <1>12, OrderedOrderly
<1>14. tree' = u
  BY <1>2 DEF Commit
<1>15. Open(tree', forms')
  BY <1>1, <1>2, <1>12, OpenKept DEF TInv
<1>16. Held(tree', items', asked')
  BY <1>1, <1>2, <1>12, <1>14, HeldKept DEF TInv
<1>17. OneMirror(u)
  <2>1. \A k \in DOMAIN u : Mirrored(u, k) => k \in DOMAIN tree /\ Mirrored(tree, k)
    BY <1>11 DEF Mirrored
  <2> QED
    BY <1>1, <1>11, <2>1 DEF OneMirror
<1>18. OneShare(u, shareStatus')
  <2>1. \A k \in DOMAIN u : u[k].kind = "share" => k = new
    BY <1>1, <1>2, <1>11 DEF OneShare
  <2>2. shareStatus' # "none"
    BY DEF Share
  <2> QED
    BY <2>1, <2>2 DEF OneShare
<1> QED
  BY <1>10, <1>13, <1>14, <1>15, <1>16, <1>17, <1>18 DEF MSafe, MInv, TInv

(* Every step of the tree with a share. *)
LEMMA MirrorStep ==
  ASSUME TreeAssumption, PathsAssumption, MInv, MirrorNext
  PROVE  MSafe
<1>1. CASE Next /\ UNCHANGED <<recorded, shareStatus>>
  <2>1. Safe
    BY <1>1, StepSafe DEF MInv
  <2>2. PICK moved \in DOMAIN tree' : Ordered(tree, tree', moved)
    BY <2>1 DEF Safe
  <2>3. TInv' /\ Lasting(tree, tree')
    BY <2>1 DEF Safe
  <2>4. OneMirror(tree') /\ OneShare(tree', shareStatus)
    BY <2>3, LastingKeeps DEF MInv
  <2>5. Orderly(tree, tree')
    BY <2>2, OrderedOrderly
  <2>6. shareStatus' = shareStatus
    BY <1>1
  <2> QED
    BY <2>3, <2>4, <2>5, <2>6 DEF MInv, MSafe
<1>2. ASSUME NEW p \in Parents, NEW n \in Names, Share(p, n) PROVE MSafe
  BY <1>2, ShareKeeps
<1>3. ASSUME NEW walk \in Walks, Scan(walk) PROVE MSafe
  BY <1>3, ScanKeeps
<1>4. CASE List
  BY <1>4, ListKeeps
<1> QED
  BY <1>1, <1>2, <1>3, <1>4 DEF MirrorNext

-----------------------------------------------------------------------------
(* The theorems about the directories. *)

(* Every reachable state has a tree of rows of their types whose levels are
   depths, whose live rows are below live ones, whose siblings differ, forms
   that show the rows as they are, and nothing held but in live directories. *)
THEOREM Invariant == Spec => []TInv
<1>1. ASSUME TInv, [Next]_vars PROVE TInv'
  <2>1. CASE Next
    BY <1>1, <2>1, StepSafe, TreeAssumption DEF Safe
  <2>2. CASE UNCHANGED vars
    BY <1>1, <2>2 DEF vars, TInv
  <2> QED
    BY <1>1, <2>1, <2>2
<1> QED
  BY <1>1, TInvInit, TreeAssumption, PTL DEF Spec

(* A form whose version is accepted shows the row as it is, whoever moved,
   renumbered or edited it or its siblings in between. *)
THEOREM FormsAreCurrent == Spec => []FormsCurrent
<1>1. TInv => FormsCurrent
  BY DEF TInv, Open, FormsCurrent
<1> QED
  BY <1>1, Invariant, PTL

(* The level of every directory is its depth: there is no cycle. *)
THEOREM LevelsAreDepths == Spec => []LevelsAgree
<1>1. TInv => LevelsAgree
  BY DEF TInv, Good, Leveled, LevelsAgree
<1> QED
  BY <1>1, Invariant, PTL

(* A deletion leaves nothing behind in what it deletes. *)
THEOREM NothingIsStranded == Spec => []NothingStranded
<1>1. TInv => NothingStranded
  BY DEF TInv, Good, Housed, Held, Stands, NothingStranded
<1> QED
  BY <1>1, Invariant, PTL

(* Siblings never share a name or a code: no request meets the unique index. *)
THEOREM SiblingsStayDistinct == Spec => []SiblingsDistinct
<1>1. TInv => SiblingsDistinct
  BY DEF TInv, Good, Named, Coded, SiblingsDistinct
<1> QED
  BY <1>1, Invariant, PTL

(* However siblings are numbered anew, at most one of them changes its place. *)
THEOREM OrderIsKept == Spec => OrderKept
<1> DEFINE swapped == {w \in (DOMAIN tree) \X (DOMAIN tree) :
             /\ CodeBefore(tree, w[1], w[2]) /\ CodeBefore(tree', w[2], w[1])
             /\ tree[w[1]].parent = tree[w[2]].parent /\ tree'[w[1]].parent = tree'[w[2]].parent
             /\ \A i \in {w[1], w[2]} : tree[i].live /\ tree'[i].live
             /\ \A m \in Siblings(tree, tree[w[1]].parent) : ~Mirrored(tree, m)}
           Once == \E moved \in DOMAIN tree' : \A w \in swapped : moved = w[1] \/ moved = w[2]
<1>1. ASSUME TInv, [Next]_vars PROVE [Once]_vars
  <2>1. CASE Next
    <3>1. PICK moved \in DOMAIN tree' : Ordered(tree, tree', moved)
      BY <1>1, <2>1, StepSafe, TreeAssumption DEF Safe
    <3>2. ASSUME NEW w \in swapped PROVE moved = w[1] \/ moved = w[2]
      <4>1. /\ w[1] \in DOMAIN tree /\ w[2] \in DOMAIN tree
            /\ CodeBefore(tree, w[1], w[2]) /\ CodeBefore(tree', w[2], w[1])
            /\ tree[w[1]].parent = tree[w[2]].parent /\ tree'[w[1]].parent = tree'[w[2]].parent
            /\ tree[w[1]].live /\ tree[w[2]].live /\ tree'[w[1]].live /\ tree'[w[2]].live
        OBVIOUS
      <4> QED
        BY <3>1, <4>1 DEF Ordered
    <3> QED
      BY <3>2
  <2>2. CASE UNCHANGED vars
    BY <2>2
  <2> QED
    BY <1>1, <2>1, <2>2
<1>2. Spec => [][Once]_vars
  BY <1>1, Invariant, PTL DEF Spec
<1> QED
  BY <1>2 DEF OrderKept

LEMMA MirrorStart == TreeAssumption /\ MirrorInit => MInv
<1> SUFFICES ASSUME TreeAssumption, MirrorInit PROVE MInv
  OBVIOUS
<1>1. TInv
  BY TInvInit DEF MirrorInit
<1>2. \A k \in DOMAIN tree : tree[k].kind = "folder"
  BY DEF MirrorInit, Init
<1> QED
  BY <1>1, <1>2 DEF MInv, OneMirror, OneShare, Mirrored

(* Every reachable state of the tree with a share has a good tree of
   directories, one mirror for a folder, and one share. *)
THEOREM MirrorInvariant == MirrorSpec => []MInv
<1>1. ASSUME MInv, [MirrorNext]_mirrorVars PROVE MInv'
  <2>1. CASE MirrorNext
    BY <1>1, <2>1, MirrorStep, TreeAssumption, PathsAssumption DEF MSafe
  <2>2. CASE UNCHANGED mirrorVars
    BY <1>1, <2>2 DEF mirrorVars, vars, MInv, TInv
  <2> QED
    BY <1>1, <2>1, <2>2
<1>2. MirrorInit => MInv
  BY MirrorStart, TreeAssumption
<1> QED
  BY <1>1, <1>2, PTL DEF MirrorSpec

(* A scan recorded as done leaves the mirrors of the folders it walked: one for
   every folder, unless a sibling of its name stood in its place when the scan
   began; whatever the folders, and however often some of them were mirrored
   before. *)
THEOREM MirrorsAlwaysFollow == MirrorSpec => []MirrorsFollow
<1>1. ASSUME MInv PROVE MirrorsFollow
  <2> SUFFICES ASSUME NEW root \in ShareRoots(tree), NEW walk \in Walks,
                      Materialized(root, walk).ok
               PROVE  Follows(Materialized(root, walk).tree, walk)
    BY DEF MirrorsFollow
  <2> DEFINE t == Added(root, walk).tree
  <2>1. /\ Grows(t, root, walk, Len(PathsInOrder))
        /\ Dropped(t, Materialized(root, walk).tree, Vanished(t, walk),
                   Materialized(root, walk).bumped)
    BY <1>1, PathsAssumption, MaterializedFacts
  <2> QED
    BY <1>1, <2>1, PathsAssumption, FinalFollows
<1> QED
  BY <1>1, MirrorInvariant, PTL

(* The tree's own properties, with a share in it. *)
THEOREM SharedTree ==
  MirrorSpec => [](FormsCurrent /\ LevelsAgree /\ NothingStranded /\ SiblingsDistinct)
<1>1. MInv => FormsCurrent /\ LevelsAgree
  BY DEF MInv, TInv, Open, Good, Leveled, FormsCurrent, LevelsAgree
<1>2. MInv => NothingStranded
  BY DEF MInv, TInv, Good, Housed, Held, Stands, NothingStranded
<1>3. MInv => SiblingsDistinct
  BY DEF MInv, TInv, Good, Named, Coded, SiblingsDistinct
<1> QED
  BY <1>1, <1>2, <1>3, MirrorInvariant, PTL

(* With a share in the tree too, at most one directory changes its place among
   siblings that are no mirrors. *)
THEOREM SharedOrderIsKept == MirrorSpec => OrderKept
<1> DEFINE swapped == {w \in (DOMAIN tree) \X (DOMAIN tree) :
             /\ CodeBefore(tree, w[1], w[2]) /\ CodeBefore(tree', w[2], w[1])
             /\ tree[w[1]].parent = tree[w[2]].parent /\ tree'[w[1]].parent = tree'[w[2]].parent
             /\ \A i \in {w[1], w[2]} : tree[i].live /\ tree'[i].live
             /\ \A m \in Siblings(tree, tree[w[1]].parent) : ~Mirrored(tree, m)}
           Once == \E moved \in DOMAIN tree' : \A w \in swapped : moved = w[1] \/ moved = w[2]
<1>1. ASSUME MInv, [MirrorNext]_mirrorVars PROVE [Once]_vars
  <2>1. CASE MirrorNext
    <3>1. PICK moved \in DOMAIN tree' : \A i, k \in DOMAIN tree \ {moved} :
            Unmixed(tree, tree', i, k) /\ CodeBefore(tree, i, k) => ~ CodeBefore(tree', k, i)
      BY <1>1, <2>1, MirrorStep, TreeAssumption, PathsAssumption DEF MSafe, Orderly
    <3>2. ASSUME NEW w \in swapped PROVE moved = w[1] \/ moved = w[2]
      <4>1. /\ w[1] \in DOMAIN tree /\ w[2] \in DOMAIN tree
            /\ CodeBefore(tree, w[1], w[2]) /\ CodeBefore(tree', w[2], w[1])
            /\ Unmixed(tree, tree', w[1], w[2])
        BY DEF Unmixed
      <4> QED
        BY <3>1, <4>1
    <3> QED
      BY <3>2
  <2>2. CASE UNCHANGED mirrorVars
    BY <2>2 DEF mirrorVars
  <2> QED
    BY <1>1, <2>1, <2>2
<1>2. MirrorSpec => [][Once]_vars
  BY <1>1, MirrorInvariant, PTL DEF MirrorSpec
<1> QED
  BY <1>2 DEF OrderKept

-----------------------------------------------------------------------------
(* The bulk operations. *)

Asking   == {"select", "start", "cancel", "unlink", "expire"}
Starting == {"enqueue", "rows", "loop", "mark"} \cup Verdict
Packs    == {"clear", "pack", "replace", "ready"}
Deletes  == {"roots", "clean", "report", "total"}
Rest     == {"idle", "release"}

ReqRow == [do : Asking \cup Starting \cup {"idle"}, run : Run \cup {NoRun}, todo : SUBSET Member,
           at : Member \cup {NoMember}]
WorkerRow == [do : {"begin"} \cup Packs \cup Deletes \cup Verdict \cup Rest, run : Run \cup {NoRun},
              todo : SUBSET Member, at : Member \cup {NoMember}]

RowsTyped ==
  /\ op \in [Run -> {"none", "download", "force_delete", "publish"}]
  /\ status \in
       [Run -> Finished \cup {"absent", "awaiting", "queued", "packaging", "running", "cancelled"}]
  /\ picked \in [Run -> SUBSET Member]
  /\ result \in [Run -> [Member -> {"pending", "succeeded", "failed"}]]
  /\ file \subseteq Run /\ packed \in [Run -> SUBSET Member] /\ late \subseteq Run
  /\ folder \in [Member -> {"there", "removed", "clean", "partial"}] /\ published \subseteq Member
  /\ stale \subseteq Run

ProcessTyped ==
  /\ req \in [Request -> ReqRow] /\ worker \in WorkerRow
  /\ queue \in Seq(Run) /\ active \subseteq Run
  /\ mode \in {"up", "down"} /\ crashes \in Nat

BulkTypeOK == RowsTyped /\ ProcessTyped

(* A request, a place in the queue and the executor name runs that are there,
   of the operation their position is for. *)
ReqNamed ==
  \A t \in Request : req[t].do # "idle" =>
    /\ req[t].run \in Run /\ status[req[t].run] # "absent"
    /\ req[t].do \in {"rows", "loop", "mark"} => op[req[t].run] = "publish"
    /\ req[t].do = "enqueue" => op[req[t].run] # "publish"
    /\ req[t].do = "mark" => req[t].at \in published
QueueNamed == \A i \in DOMAIN queue : status[queue[i]] # "absent" /\ op[queue[i]] # "publish"
WorkerNamed ==
  /\ worker.do # "idle" => worker.run \in Run /\ status[worker.run] # "absent"
  /\ worker.do = "begin" => op[worker.run] # "publish"
  /\ worker.do \in Packs => op[worker.run] = "download"
  /\ worker.do \in Deletes => op[worker.run] \notin {"download", "publish"}
RowsNamed ==
  /\ \A r \in Run : status[r] \in {"queued", "packaging"} => op[r] # "publish"
  /\ \A r \in stale : status[r] # "absent"
AllNamed == ReqNamed /\ QueueNamed /\ WorkerNamed /\ RowsNamed

Halted ==
  mode = "down" => queue = <<>> /\ worker = Idle /\ \A t \in Request : req[t] = Idle

(* A deed is done before it is reported, and is not undone. *)
Deeds ==
  /\ worker.do \in {"clean", "report"} => worker.at \in Member
  /\ worker.do = "clean" => folder[worker.at] = "removed"
  /\ \A r \in Run, x \in Member : result[r][x] = "succeeded" =>
       IF op[r] = "publish" THEN x \in published ELSE folder[x] = "clean"

(* What drives a run. *)
Drives(t, r) == req[t].run = r /\ req[t].do \in Starting
Queued(r)    == \E i \in DOMAIN queue : queue[i] = r
Works(r)     == worker.run = r /\ worker.do \notin Rest

Undriven(r)  == ~ Queued(r) /\ ~ Works(r) /\ \A t \in Request : ~ Drives(t, r)
One(r) ==
  /\ \A t, u \in Request : Drives(t, r) /\ Drives(u, r) => t = u
  /\ \A i, k \in DOMAIN queue : queue[i] = r /\ queue[k] = r => i = k
  /\ ~ (Queued(r) /\ Works(r))
  /\ \A t \in Request : Drives(t, r) => ~ Queued(r) /\ ~ Works(r)

(* One driver, and none before the start and after the end. *)
Resting == Finished \cup {"absent", "awaiting"}
Driven(r) == One(r) /\ (status[r] \in Resting => Undriven(r))
OneDriver == \A r \in Run \ stale : Driven(r)

(* What is selected is still to do; nothing is done before the start. *)
SelectedAt(r) ==
  /\ \A x \in picked[r] : result[r][x] = "pending"
  /\ status[r] \in {"absent", "awaiting"} => \A x \in Member : result[r][x] = "pending"
Selected == \A r \in Run \ stale : SelectedAt(r)

(* The archive at each step of the packing. *)
Packing ==
  LET r == worker.run IN
  r \in Run \ stale /\ worker.do \in Packs =>
    /\ worker.do = "clear" => worker.todo = picked[r]
    /\ worker.do = "pack" => packed[r] \cup worker.todo = picked[r]
    /\ worker.do \in {"replace", "ready"} => packed[r] = picked[r]
    /\ worker.do = "ready" => r \in file

(* Only an archive whose time has passed is removed. *)
Removing ==
  \A t \in Request :
    req[t].do \in {"unlink", "expire"} /\ req[t].run \notin stale =>
      req[t].run \in late /\ status[req[t].run] \in {"ready", "expired"}

(* A run found to have succeeded still has, when that is written. *)
Done(r) == Remaining(r) = {} /\ \A x \in Member : result[r][x] # "failed"
Concluding ==
  /\ \A t \in Request : req[t].do = "succeeded" /\ req[t].run \notin stale => Done(req[t].run)
  /\ worker.do = "succeeded" /\ worker.run \notin stale => Done(worker.run)

BulkIInv ==
  /\ BulkTypeOK /\ AllNamed /\ Halted /\ Deeds /\ OneDriver
  /\ Selected /\ Packing /\ Removing /\ Concluding /\ ReportTrue
-----------------------------------------------------------------------------
(* Every step keeps the types. *)
LEMMA BulkTypeStep ==
  ASSUME BulkTypeOK, AllNamed, Deeds, BulkNext
  PROVE  BulkTypeOK'
<1>1. ASSUME NEW r \in Run, NEW o \in Operations, NEW S \in SUBSET Member, Preflight(r, o, S)
      PROVE  BulkTypeOK'
  BY <1>1, BulkAssumption DEF Preflight, Set, rows, disk, content, process, BulkTypeOK, RowsTyped,
     ProcessTyped, ReqRow, WorkerRow, AllNamed, ReqNamed, QueueNamed, WorkerNamed, RowsNamed,
     Finished, Asking, Starting, Packs, Deletes, Verdict, Rest, Idle
<1>2. ASSUME NEW t \in Request, NEW r \in Run, AskSelect(t, r) PROVE BulkTypeOK'
  <2>1. req[t] \in ReqRow
    BY DEF BulkTypeOK, ProcessTyped
  <2>2. req' \in [Request -> ReqRow]
    BY <1>2, <2>1 DEF AskSelect, Checked, rows, disk, content, process, ReqRow, Asking, Starting,
       BulkTypeOK, ProcessTyped
  <2> QED
    BY <1>2, <2>2 DEF AskSelect, Checked, rows, disk, content, process, BulkTypeOK, RowsTyped,
       ProcessTyped, AllNamed, ReqNamed, QueueNamed, WorkerNamed, RowsNamed, Finished
<1>3. ASSUME NEW t \in Request, NEW r \in Run, AskStart(t, r) PROVE BulkTypeOK'
  <2>1. req[t] \in ReqRow
    BY DEF BulkTypeOK, ProcessTyped
  <2>2. req' \in [Request -> ReqRow]
    BY <1>3, <2>1 DEF AskStart, Checked, rows, disk, content, process, ReqRow, Asking, Starting,
       BulkTypeOK, ProcessTyped
  <2> QED
    BY <1>3, <2>2 DEF AskStart, Checked, rows, disk, content, process, BulkTypeOK, RowsTyped,
       ProcessTyped, AllNamed, ReqNamed, QueueNamed, WorkerNamed, RowsNamed, Finished
<1>4. ASSUME NEW t \in Request, NEW r \in Run, AskCancel(t, r) PROVE BulkTypeOK'
  <2>1. req[t] \in ReqRow
    BY DEF BulkTypeOK, ProcessTyped
  <2>2. req' \in [Request -> ReqRow]
    BY <1>4, <2>1 DEF AskCancel, Checked, rows, disk, content, process, ReqRow, Asking, Starting,
       BulkTypeOK, ProcessTyped
  <2> QED
    BY <1>4, <2>2 DEF AskCancel, Checked, rows, disk, content, process, BulkTypeOK, RowsTyped,
       ProcessTyped, AllNamed, ReqNamed, QueueNamed, WorkerNamed, RowsNamed, Finished
<1>5. ASSUME NEW t \in Request, NEW r \in Run, AskExpired(t, r) PROVE BulkTypeOK'
  <2>1. req[t] \in ReqRow
    BY DEF BulkTypeOK, ProcessTyped
  <2>2. req' \in [Request -> ReqRow]
    BY <1>5, <2>1 DEF AskExpired, Checked, rows, disk, content, process, ReqRow, Asking, Starting,
       BulkTypeOK, ProcessTyped
  <2> QED
    BY <1>5, <2>2 DEF AskExpired, Checked, rows, disk, content, process, BulkTypeOK, RowsTyped,
       ProcessTyped, AllNamed, ReqNamed, QueueNamed, WorkerNamed, RowsNamed, Finished
<1>6. ASSUME NEW r \in Run, Lapse(r) PROVE BulkTypeOK'
  BY <1>6, BulkAssumption DEF Lapse, rows, disk, content, process, BulkTypeOK, RowsTyped,
     ProcessTyped, ReqRow, WorkerRow, AllNamed, ReqNamed, QueueNamed, WorkerNamed, RowsNamed,
     Finished, Asking, Starting, Packs, Deletes, Verdict, Rest, Idle
<1>7. ASSUME NEW x \in Member, Elsewhere(x) PROVE BulkTypeOK'
  BY <1>7, BulkAssumption DEF Elsewhere, rows, disk, content, process, BulkTypeOK, RowsTyped,
     ProcessTyped, ReqRow, WorkerRow, AllNamed, ReqNamed, QueueNamed, WorkerNamed, RowsNamed,
     Finished, Asking, Starting, Packs, Deletes, Verdict, Rest, Idle
<1>8. ASSUME NEW t \in Request, NEW S \in SUBSET Member, Select(t, S) PROVE BulkTypeOK'
  BY <1>8, BulkAssumption DEF Select, Doing, Answer, Needed, rows, disk, content, process,
     BulkTypeOK,
     RowsTyped, ProcessTyped, ReqRow, WorkerRow, AllNamed, ReqNamed, QueueNamed, WorkerNamed,
     RowsNamed, Finished, Asking, Starting, Packs, Deletes, Verdict, Rest, Idle
<1>9. ASSUME NEW t \in Request, Start(t) PROVE BulkTypeOK'
  <2>1. req[t] \in ReqRow /\ req[t].run \in Run
    BY <1>9 DEF Start, Doing, Set, Needed, rows, disk, content, process, BulkTypeOK, ProcessTyped,
       AllNamed, ReqNamed, QueueNamed, WorkerNamed, RowsNamed
  <2>2. req' \in [Request -> ReqRow]
    <3>1. \A a \in Starting : [req EXCEPT ![t].do = a] \in [Request -> ReqRow]
      BY <2>1 DEF ReqRow, BulkTypeOK, ProcessTyped
    <3> QED
      BY <1>9, <3>1 DEF Start, Doing, Set, Needed, rows, disk, content, process, Starting
  <2>3. status' \in
        [Run -> Finished \cup {"absent", "awaiting", "queued", "packaging", "running", "cancelled"}]
    BY <1>9, <2>1 DEF Start, Doing, Set, Needed, rows, disk, content, process, BulkTypeOK, RowsTyped
  <2> QED
    BY <1>9, <2>1, <2>2, <2>3 DEF Start, Doing, Set, Needed, rows, disk, content, process,
       BulkTypeOK,
       RowsTyped, ProcessTyped
<1>10. ASSUME NEW t \in Request, Enqueue(t) PROVE BulkTypeOK'
  BY <1>10, BulkAssumption DEF Enqueue, Doing, Answer, rows, disk, content, process, BulkTypeOK,
     RowsTyped, ProcessTyped, ReqRow, WorkerRow, AllNamed, ReqNamed, QueueNamed, WorkerNamed,
     RowsNamed, Finished, Asking, Starting, Packs, Deletes, Verdict, Rest, Idle
<1>11. ASSUME NEW t \in Request, Cancel(t) PROVE BulkTypeOK'
  BY <1>11, BulkAssumption DEF Cancel, Doing, Answer, Set, rows, disk, content, process, BulkTypeOK,
     RowsTyped, ProcessTyped, ReqRow, WorkerRow, AllNamed, ReqNamed, QueueNamed, WorkerNamed,
     RowsNamed, Finished, Asking, Starting, Packs, Deletes, Verdict, Rest, Idle
<1>12. ASSUME NEW t \in Request, Unlink(t) PROVE BulkTypeOK'
  <2>1. req[t] \in ReqRow
    BY DEF BulkTypeOK, ProcessTyped
  <2>2. req' \in [Request -> ReqRow]
    BY <1>12, <2>1 DEF Unlink, Doing, rows, disk, content, process, ReqRow, Asking, Starting,
       BulkTypeOK, ProcessTyped
  <2> QED
    BY <1>12, <2>2 DEF Unlink, Doing, rows, disk, content, process, BulkTypeOK, RowsTyped,
       ProcessTyped, AllNamed, ReqNamed, QueueNamed, WorkerNamed, RowsNamed, Finished
<1>13. ASSUME NEW t \in Request, Expire(t) PROVE BulkTypeOK'
  BY <1>13, BulkAssumption DEF Expire, Doing, Answer, Set, Needed, rows, disk, content, process,
     BulkTypeOK, RowsTyped, ProcessTyped, ReqRow, WorkerRow, AllNamed, ReqNamed, QueueNamed,
     WorkerNamed,
     RowsNamed, Finished, Asking, Starting, Packs, Deletes, Verdict, Rest, Idle
<1>14. ASSUME NEW t \in Request, Rows(t) PROVE BulkTypeOK'
  <2>1. req[t] \in ReqRow /\ req[t].run \in Run
    BY <1>14 DEF Rows, Doing, Remaining, rows, disk, content, process, BulkTypeOK, ProcessTyped,
       AllNamed, ReqNamed, QueueNamed, WorkerNamed, RowsNamed
  <2>2. Remaining(req[t].run) \in SUBSET Member
    BY <2>1 DEF Remaining, BulkTypeOK, RowsTyped
  <2>3. req' \in [Request -> ReqRow]
    BY <1>14, <2>1, <2>2 DEF Rows, ReqRow, Starting, BulkTypeOK, ProcessTyped
  <2> QED
    BY <1>14, <2>3 DEF Rows, Doing, Remaining, rows, disk, content, process, BulkTypeOK, RowsTyped,
       ProcessTyped
<1>15. ASSUME NEW t \in Request, Mark(t) PROVE BulkTypeOK'
  <2>1. req[t].run \in Run /\ req[t].at \in Member
    BY <1>15 DEF Mark, Doing, AllNamed, ReqNamed, BulkTypeOK, RowsTyped
  <2>2. req' \in [Request -> ReqRow]
    BY <1>15 DEF Mark, ReqRow, Starting, BulkTypeOK, ProcessTyped
  <2>3. /\ result' \in [Run -> [Member -> {"pending", "succeeded", "failed"}]]
        /\ picked' \in [Run -> SUBSET Member]
    BY <1>15, <2>1 DEF Mark, Settle, BulkTypeOK, RowsTyped
  <2> QED
    BY <1>15, <2>2, <2>3 DEF Mark, disk, content, BulkTypeOK, RowsTyped, ProcessTyped
<1>16. ASSUME NEW t \in Request, Finalize(t) PROVE BulkTypeOK'
  <2>1. req[t] \in ReqRow /\ Total(req[t].run) \in Starting /\ Idle \in ReqRow
    BY DEF BulkTypeOK, ProcessTyped, ReqRow, Idle, Total, Starting, Verdict
  <2>2. req' \in [Request -> ReqRow]
    <3>1. \A a \in Starting : [req[t] EXCEPT !.do = a] \in ReqRow
      BY <2>1 DEF ReqRow
    <3>2. req'[t] \in ReqRow /\ \E z : req' = [req EXCEPT ![t] = z]
      BY <1>16, <2>1, <3>1 DEF Finalize, Doing, Answer, BulkTypeOK, ProcessTyped
    <3> QED
      BY <3>2 DEF BulkTypeOK, ProcessTyped
  <2> QED
    BY <1>16, <2>2 DEF Finalize, rows, disk, content, process, BulkTypeOK, RowsTyped, ProcessTyped
<1>17. ASSUME NEW t \in Request, NEW x \in Member, Publish(t, x) PROVE BulkTypeOK'
  BY SMTT(60), <1>17, BulkAssumption DEF Publish, Doing, rows, disk, content, process, BulkTypeOK, RowsTyped,
     ProcessTyped, ReqRow, WorkerRow, AllNamed, ReqNamed, QueueNamed, WorkerNamed, RowsNamed,
     Finished, Asking, Starting, Packs, Deletes, Verdict, Rest, Idle
<1>18. ASSUME NEW t \in Request, NEW x \in Member, Refuse(t, x) PROVE BulkTypeOK'
  <2>1. req[t] \in ReqRow /\ req[t].run \in Run
    BY <1>18 DEF Refuse, Doing, Settle, rows, disk, content, process, BulkTypeOK, ProcessTyped,
       AllNamed,
       ReqNamed, QueueNamed, WorkerNamed, RowsNamed
  <2>2. req' \in [Request -> ReqRow]
    BY <1>18, <2>1 DEF Refuse, Doing, Settle, rows, disk, content, process, ReqRow, BulkTypeOK,
       ProcessTyped
  <2>3. /\ result' \in [Run -> [Member -> {"pending", "succeeded", "failed"}]]
        /\ picked' \in [Run -> SUBSET Member]
    BY <1>18, <2>1 DEF Refuse, Doing, Settle, rows, disk, content, process, BulkTypeOK, RowsTyped
  <2> QED
    BY <1>18, <2>2, <2>3 DEF Refuse, Doing, Settle, rows, disk, content, process, BulkTypeOK,
       RowsTyped, ProcessTyped
<1>19. ASSUME Take PROVE BulkTypeOK'
  <2>1. Head(queue) \in Run /\ Tail(queue) \in Seq(Run)
    BY <1>19, HeadTailProperties DEF Take, At, rows, disk, content, process, BulkTypeOK,
       ProcessTyped
  <2>2. worker' \in WorkerRow
    BY <1>19, <2>1 DEF Take, At, rows, disk, content, process, WorkerRow, Idle, Rest
  <2> QED
    BY <1>19, <2>1, <2>2 DEF Take, At, rows, disk, content, process, BulkTypeOK, RowsTyped,
       ProcessTyped
<1>20. ASSUME Begin PROVE BulkTypeOK'
  BY <1>20, BulkAssumption DEF Begin, At, Needed, Set, R, Remaining, rows, disk, content, process,
     BulkTypeOK, RowsTyped, ProcessTyped, ReqRow, WorkerRow, AllNamed, ReqNamed, QueueNamed,
     WorkerNamed,
     RowsNamed, Finished, Asking, Starting, Packs, Deletes, Verdict, Rest, Idle
<1>21. ASSUME Released PROVE BulkTypeOK'
  BY <1>21, BulkAssumption DEF Released, At, R, rows, disk, content, process, BulkTypeOK, RowsTyped,
     ProcessTyped, ReqRow, WorkerRow, AllNamed, ReqNamed, QueueNamed, WorkerNamed, RowsNamed,
     Finished, Asking, Starting, Packs, Deletes, Verdict, Rest, Idle
<1>22. ASSUME Clear PROVE BulkTypeOK'
  BY <1>22, BulkAssumption DEF Clear, At, Go, R, rows, disk, content, process, BulkTypeOK,
     RowsTyped,
     ProcessTyped, ReqRow, WorkerRow, AllNamed, ReqNamed, QueueNamed, WorkerNamed, RowsNamed,
     Finished, Asking, Starting, Packs, Deletes, Verdict, Rest, Idle
<1>23. ASSUME NEW x \in Member, Pack(x) PROVE BulkTypeOK'
  BY <1>23, BulkAssumption, ZenonT(60) DEF Pack, At, R, rows, disk, content, process, BulkTypeOK, RowsTyped,
     ProcessTyped, ReqRow, WorkerRow, AllNamed, ReqNamed, QueueNamed, WorkerNamed, RowsNamed,
     Finished, Asking, Starting, Packs, Deletes, Verdict, Rest, Idle
<1>24. ASSUME Look PROVE BulkTypeOK'
  BY <1>24, BulkAssumption DEF Look, At, Go, R, rows, disk, content, process, BulkTypeOK, RowsTyped,
     ProcessTyped, ReqRow, WorkerRow, AllNamed, ReqNamed, QueueNamed, WorkerNamed, RowsNamed,
     Finished, Asking, Starting, Packs, Deletes, Verdict, Rest, Idle
<1>25. ASSUME Replace PROVE BulkTypeOK'
  BY <1>25, BulkAssumption DEF Replace, At, Go, R, rows, disk, content, process, BulkTypeOK,
     RowsTyped, ProcessTyped, ReqRow, WorkerRow, AllNamed, ReqNamed, QueueNamed, WorkerNamed,
     RowsNamed, Finished, Asking, Starting, Packs, Deletes, Verdict, Rest, Idle
<1>26. ASSUME Ready PROVE BulkTypeOK'
  BY <1>26, BulkAssumption DEF Ready, At, Release, Quit, Set, Needed, R, rows, disk, content, process,
     BulkTypeOK, RowsTyped, ProcessTyped, ReqRow, WorkerRow, AllNamed, ReqNamed, QueueNamed,
     WorkerNamed,
     RowsNamed, Finished, Asking, Starting, Packs, Deletes, Verdict, Rest, Idle
<1>27. ASSUME PackFails PROVE BulkTypeOK'
  <2>1. worker'.do \in Verdict \cup Rest /\ worker' \in WorkerRow
    BY <1>27 DEF PackFails, Quit, R, Idle, Total, Verdict, Rest, WorkerRow, BulkTypeOK, ProcessTyped
  <2> QED
    BY <1>27, <2>1 DEF PackFails, rows, disk, content, process, BulkTypeOK, RowsTyped, ProcessTyped
<1>28. ASSUME Stop PROVE BulkTypeOK'
  BY <1>28, BulkAssumption DEF Stop, At, Go, R, rows, disk, content, process, BulkTypeOK, RowsTyped,
     ProcessTyped, ReqRow, WorkerRow, AllNamed, ReqNamed, QueueNamed, WorkerNamed, RowsNamed,
     Finished, Asking, Starting, Packs, Deletes, Verdict, Rest, Idle
<1>29. ASSUME NEW x \in Member, DeleteDirectory(x) PROVE BulkTypeOK'
  BY <1>29, BulkAssumption DEF DeleteDirectory, At, R, rows, disk, content, process, BulkTypeOK,
     RowsTyped,
     ProcessTyped, ReqRow, WorkerRow, AllNamed, ReqNamed, QueueNamed, WorkerNamed, RowsNamed,
     Finished, Asking, Starting, Packs, Deletes, Verdict, Rest, Idle
<1>30. ASSUME Clean PROVE BulkTypeOK'
  <2>1. PICK s \in {"clean", "partial"} : folder' = [folder EXCEPT ![worker.at] = s]
    BY <1>30 DEF Clean, At, Go, rows, disk, content, process
  <2>2. folder' \in [Member -> {"there", "removed", "clean", "partial"}]
    BY <2>1 DEF BulkTypeOK, RowsTyped
  <2>3. worker' \in WorkerRow
    BY <1>30 DEF Clean, At, Go, rows, disk, content, process, WorkerRow, Deletes, BulkTypeOK,
       ProcessTyped
  <2> QED
    BY <1>30, <2>2, <2>3 DEF Clean, At, Go, rows, disk, content, process, BulkTypeOK, RowsTyped,
       ProcessTyped
<1>31. ASSUME NEW x \in Member, Found(x) PROVE BulkTypeOK'
  BY <1>31, BulkAssumption DEF Found, At, R, rows, disk, content, process, BulkTypeOK, RowsTyped,
     ProcessTyped, ReqRow, WorkerRow, AllNamed, ReqNamed, QueueNamed, WorkerNamed, RowsNamed,
     Finished, Asking, Starting, Packs, Deletes, Verdict, Rest, Idle
<1>32. ASSUME Report PROVE BulkTypeOK'
  BY <1>32, BulkAssumption DEF Report, At, Settle, Outcome, R, rows, disk, content, process,
     BulkTypeOK, RowsTyped, ProcessTyped, ReqRow, WorkerRow, AllNamed, ReqNamed, QueueNamed,
     WorkerNamed,
     RowsNamed, Finished, Asking, Starting, Packs, Deletes, Verdict, Rest, Idle
<1>33. ASSUME NEW x \in Member, DeleteFails(x) PROVE BulkTypeOK'
  BY <1>33, BulkAssumption DEF DeleteFails, At, Settle, R, rows, disk, content, process, BulkTypeOK,
     RowsTyped, ProcessTyped, ReqRow, WorkerRow, AllNamed, ReqNamed, QueueNamed, WorkerNamed,
     RowsNamed, Finished, Asking, Starting, Packs, Deletes, Verdict, Rest, Idle
<1>34. ASSUME TotalUp PROVE BulkTypeOK'
  <2>1. worker'.do \in Verdict \cup Rest /\ worker' \in WorkerRow
    BY <1>34 DEF TotalUp, Quit, At, R, Idle, Total, Verdict, Rest, WorkerRow, BulkTypeOK, ProcessTyped
  <2> QED
    BY <1>34, <2>1 DEF TotalUp, rows, disk, content, process, BulkTypeOK, RowsTyped, ProcessTyped
<1>35. ASSUME DeleteBreaks PROVE BulkTypeOK'
  <2>1. worker'.do \in Verdict \cup Rest /\ worker' \in WorkerRow
    BY <1>35 DEF DeleteBreaks, Quit, R, Idle, Total, Verdict, Rest, WorkerRow, BulkTypeOK, ProcessTyped
  <2> QED
    BY <1>35, <2>1 DEF DeleteBreaks, rows, disk, content, process, BulkTypeOK, RowsTyped, ProcessTyped
<1>36. ASSUME Crash PROVE BulkTypeOK'
  BY <1>36, BulkAssumption DEF Crash, rows, disk, content, process, BulkTypeOK, RowsTyped,
     ProcessTyped, ReqRow, WorkerRow, AllNamed, ReqNamed, QueueNamed, WorkerNamed, RowsNamed,
     Finished, Asking, Starting, Packs, Deletes, Verdict, Rest, Idle
<1>37. ASSUME Boot PROVE BulkTypeOK'
  <2> DEFINE Again == {r \in Run : Requeued(r)}
  <2>1. Cardinality(Again) \in Nat
    BY BulkAssumption, FS_Subset, FS_CardinalityType
  <2>2. queue' \in Seq(Run)
    <3>1. PICK q \in [1 .. Cardinality(Again) -> Again] : queue' = q
      BY <1>37 DEF Boot
    <3>2. q \in [1 .. Cardinality(Again) -> Run]
      OBVIOUS
    <3> HIDE DEF Again
    <3> QED
      BY <2>1, <3>1, <3>2
  <2>3. status' \in
        [Run -> Finished \cup {"absent", "awaiting", "queued", "packaging", "running", "cancelled"}]
    BY <1>37 DEF Boot, Finished, BulkTypeOK, RowsTyped
  <2> QED
    BY <1>37, <2>2, <2>3 DEF Boot, rows, disk, content, process, BulkTypeOK, RowsTyped, ProcessTyped
<1>38. ASSUME NEW t \in Request, Finalized(t) PROVE BulkTypeOK'
  <2>1. req' \in [Request -> ReqRow]
    BY <1>38 DEF Finalized, Answer, Idle, ReqRow, BulkTypeOK, ProcessTyped
  <2>2. status' \in
        [Run -> Finished \cup {"absent", "awaiting", "queued", "packaging", "running", "cancelled"}]
    BY <1>38 DEF Finalized, Set, Verdict, Finished, BulkTypeOK, RowsTyped
  <2> QED
    BY <1>38, <2>1, <2>2 DEF Finalized, rows, disk, content, process, BulkTypeOK, RowsTyped,
       ProcessTyped
<1>39. ASSUME End PROVE BulkTypeOK'
  <2>1. worker' \in WorkerRow
    BY <1>39 DEF End, Release, Quit, R, Idle, Rest, WorkerRow, BulkTypeOK, ProcessTyped
  <2>2. status' \in
        [Run -> Finished \cup {"absent", "awaiting", "queued", "packaging", "running", "cancelled"}]
    BY <1>39 DEF End, Set, R, Verdict, Finished, BulkTypeOK, RowsTyped
  <2> QED
    BY <1>39, <2>1, <2>2 DEF End, rows, disk, content, process, BulkTypeOK, RowsTyped, ProcessTyped
<1> QED
  BY <1>1, <1>2, <1>3, <1>4, <1>5, <1>6, <1>7, <1>8, <1>9, <1>10, <1>11, <1>12, <1>13, <1>14,
     <1>15, <1>16, <1>17, <1>18, <1>19, <1>20, <1>21, <1>22, <1>23, <1>24, <1>25, <1>26, <1>27,
     <1>28, <1>29, <1>30, <1>31, <1>32, <1>33, <1>34, <1>35, <1>36, <1>37, <1>38, <1>39 DEF BulkNext, Requests,
     Work

(* Every position goes on naming a run of its operation. *)
LEMMA NamedStep ==
  ASSUME BulkTypeOK, BulkTypeOK', AllNamed, Deeds, Halted, BulkNext
  PROVE  AllNamed'
<1>1. ASSUME NEW r \in Run, NEW o \in Operations, NEW S \in SUBSET Member, Preflight(r, o, S)
      PROVE  AllNamed'
  BY <1>1, BulkAssumption DEF Preflight, Set, rows, disk, content, process, BulkTypeOK, RowsTyped,
     ProcessTyped, ReqRow, WorkerRow, AllNamed, ReqNamed, QueueNamed, WorkerNamed, RowsNamed,
     Finished, Starting, Packs, Deletes, Verdict, Rest, Idle
<1>2. ASSUME NEW t \in Request, NEW r \in Run, AskSelect(t, r) PROVE AllNamed'
  BY <1>2, BulkAssumption DEF AskSelect, Checked, rows, disk, content, process, BulkTypeOK,
     RowsTyped,
     ProcessTyped, ReqRow, WorkerRow, AllNamed, ReqNamed, QueueNamed, WorkerNamed, RowsNamed,
     Finished, Starting, Packs, Deletes, Verdict, Rest, Idle
<1>3. ASSUME NEW t \in Request, NEW r \in Run, AskStart(t, r) PROVE AllNamed'
  BY <1>3, BulkAssumption DEF AskStart, Checked, rows, disk, content, process, BulkTypeOK,
     RowsTyped,
     ProcessTyped, ReqRow, WorkerRow, AllNamed, ReqNamed, QueueNamed, WorkerNamed, RowsNamed,
     Finished, Starting, Packs, Deletes, Verdict, Rest, Idle
<1>4. ASSUME NEW t \in Request, NEW r \in Run, AskCancel(t, r) PROVE AllNamed'
  BY <1>4, BulkAssumption DEF AskCancel, Checked, rows, disk, content, process, BulkTypeOK,
     RowsTyped,
     ProcessTyped, ReqRow, WorkerRow, AllNamed, ReqNamed, QueueNamed, WorkerNamed, RowsNamed,
     Finished, Starting, Packs, Deletes, Verdict, Rest, Idle
<1>5. ASSUME NEW t \in Request, NEW r \in Run, AskExpired(t, r) PROVE AllNamed'
  BY <1>5, BulkAssumption DEF AskExpired, Checked, rows, disk, content, process, BulkTypeOK,
     RowsTyped,
     ProcessTyped, ReqRow, WorkerRow, AllNamed, ReqNamed, QueueNamed, WorkerNamed, RowsNamed,
     Finished, Starting, Packs, Deletes, Verdict, Rest, Idle
<1>6. ASSUME NEW r \in Run, Lapse(r) PROVE AllNamed'
  BY <1>6, BulkAssumption DEF Lapse, rows, disk, content, process, BulkTypeOK, RowsTyped,
     ProcessTyped, ReqRow, WorkerRow, AllNamed, ReqNamed, QueueNamed, WorkerNamed, RowsNamed,
     Finished, Starting, Packs, Deletes, Verdict, Rest, Idle
<1>7. ASSUME NEW x \in Member, Elsewhere(x) PROVE AllNamed'
  BY <1>7, BulkAssumption DEF Elsewhere, rows, disk, content, process, BulkTypeOK, RowsTyped,
     ProcessTyped, ReqRow, WorkerRow, AllNamed, ReqNamed, QueueNamed, WorkerNamed, RowsNamed,
     Finished, Starting, Packs, Deletes, Verdict, Rest, Idle
<1>8. ASSUME NEW t \in Request, NEW S \in SUBSET Member, Select(t, S) PROVE AllNamed'
  BY <1>8, BulkAssumption DEF Select, Doing, Answer, Needed, rows, disk, content, process,
     BulkTypeOK,
     RowsTyped, ProcessTyped, ReqRow, WorkerRow, AllNamed, ReqNamed, QueueNamed, WorkerNamed,
     RowsNamed, Finished, Starting, Packs, Deletes, Verdict, Rest, Idle
<1>9. ASSUME NEW t \in Request, Start(t) PROVE AllNamed'
  <2>1. req[t].do = "start" /\ req[t].run \in Run /\ status[req[t].run] # "absent"
    BY <1>9 DEF Start, Doing, Set, Needed, rows, disk, content, process, AllNamed, ReqNamed,
       QueueNamed, WorkerNamed, RowsNamed
  <2>2. /\ \A u \in Request \ {t} : req'[u] = req[u]
        /\ req'[t].run = req[t].run
        /\ req'[t].do = IF op[req[t].run] = "publish" THEN "rows" ELSE "enqueue"
    BY <1>9 DEF Start, Doing, Set, Needed, rows, disk, content, process, ReqRow, BulkTypeOK,
       ProcessTyped
  <2>3. /\ status'[req[t].run] = IF op[req[t].run] = "publish" THEN "running" ELSE "queued"
        /\ \A r \in Run \ {req[t].run} : status'[r] = status[r]
    BY <1>9, <2>1 DEF Start, Doing, Set, Needed, rows, disk, content, process, BulkTypeOK, RowsTyped
  <2>4. UNCHANGED <<op, queue, worker, published>> /\ stale' \subseteq stale \cup {req[t].run}
    BY <1>9 DEF Start, Doing, Set, Needed, rows, disk, content, process
  <2>5. \A i \in DOMAIN queue : queue[i] \in Run
    BY DEF BulkTypeOK, ProcessTyped
  <2>a. ReqNamed'
    BY <2>1, <2>2, <2>3, <2>4 DEF AllNamed, ReqNamed
  <2>b. QueueNamed'
    BY <2>1, <2>2, <2>3, <2>4, <2>5 DEF AllNamed, QueueNamed
  <2>c. WorkerNamed'
    BY <2>1, <2>3, <2>4 DEF AllNamed, WorkerNamed
  <2>d. RowsNamed'
    BY <2>1, <2>3, <2>4 DEF AllNamed, RowsNamed, BulkTypeOK, RowsTyped
  <2> QED
    BY <2>a, <2>b, <2>c, <2>d DEF AllNamed
<1>10. ASSUME NEW t \in Request, Enqueue(t) PROVE AllNamed'
  BY <1>10, BulkAssumption DEF Enqueue, Doing, Answer, rows, disk, content, process, BulkTypeOK,
     RowsTyped, ProcessTyped, ReqRow, WorkerRow, AllNamed, ReqNamed, QueueNamed, WorkerNamed,
     RowsNamed, Finished, Starting, Packs, Deletes, Verdict, Rest, Idle
<1>11. ASSUME NEW t \in Request, Cancel(t) PROVE AllNamed'
  BY <1>11, BulkAssumption DEF Cancel, Doing, Answer, Set, rows, disk, content, process, BulkTypeOK,
     RowsTyped, ProcessTyped, ReqRow, WorkerRow, AllNamed, ReqNamed, QueueNamed, WorkerNamed,
     RowsNamed, Finished, Starting, Packs, Deletes, Verdict, Rest, Idle
<1>12. ASSUME NEW t \in Request, Unlink(t) PROVE AllNamed'
  BY <1>12, BulkAssumption DEF Unlink, Doing, rows, disk, content, process, BulkTypeOK, RowsTyped,
     ProcessTyped, ReqRow, WorkerRow, AllNamed, ReqNamed, QueueNamed, WorkerNamed, RowsNamed,
     Finished, Starting, Packs, Deletes, Verdict, Rest, Idle
<1>13. ASSUME NEW t \in Request, Expire(t) PROVE AllNamed'
  BY <1>13, BulkAssumption DEF Expire, Doing, Answer, Set, Needed, rows, disk, content, process,
     BulkTypeOK, RowsTyped, ProcessTyped, ReqRow, WorkerRow, AllNamed, ReqNamed, QueueNamed,
     WorkerNamed,
     RowsNamed, Finished, Starting, Packs, Deletes, Verdict, Rest, Idle
<1>14. ASSUME NEW t \in Request, Rows(t) PROVE AllNamed'
  <2>1. req[t].do = "rows" /\ req[t].run \in Run
    BY <1>14 DEF Rows, Doing, Remaining, rows, disk, content, process, AllNamed, ReqNamed,
       QueueNamed, WorkerNamed, RowsNamed
  <2>2. /\ \A u \in Request \ {t} : req'[u] = req[u]
        /\ req'[t].run = req[t].run /\ req'[t].do = "loop"
    BY <1>14 DEF Rows, Doing, ReqRow, BulkTypeOK, ProcessTyped
  <2>3. UNCHANGED <<op, status, queue, worker, published, stale>>
    BY <1>14 DEF Rows, Doing, Remaining, rows, disk, content, process
  <2> QED
    BY <2>1, <2>2, <2>3 DEF AllNamed, ReqNamed, QueueNamed, WorkerNamed, RowsNamed
<1>15. ASSUME NEW t \in Request, Mark(t) PROVE AllNamed'
  BY <1>15, BulkAssumption DEF Mark, Doing, Settle, rows, disk, content, process, BulkTypeOK,
     RowsTyped, ProcessTyped, ReqRow, WorkerRow, AllNamed, ReqNamed, QueueNamed, WorkerNamed,
     RowsNamed, Finished, Starting, Packs, Deletes, Verdict, Rest, Idle
<1>16. ASSUME NEW t \in Request, Finalize(t) PROVE AllNamed'
  <2>1. req[t].do = "loop" /\ req[t].run \in Run /\ status[req[t].run] # "absent"
    BY <1>16 DEF Finalize, Doing, AllNamed, ReqNamed
  <2>2. /\ \A u \in Request \ {t} : req'[u] = req[u]
        /\ req'[t].do = "idle" \/ (req'[t].run = req[t].run /\ req'[t].do \in Verdict)
    BY <1>16 DEF Finalize, Doing, Answer, Idle, Total, Verdict, ReqRow, BulkTypeOK, ProcessTyped
  <2>3. UNCHANGED <<op, status, queue, worker, published, stale>>
    BY <1>16 DEF Finalize, rows, disk, content, process
  <2> QED
    BY <2>1, <2>2, <2>3 DEF Verdict, AllNamed, ReqNamed, QueueNamed, WorkerNamed, RowsNamed
<1>17. ASSUME NEW t \in Request, NEW x \in Member, Publish(t, x) PROVE AllNamed'
  BY <1>17, BulkAssumption DEF Publish, Doing, rows, disk, content, process, BulkTypeOK, RowsTyped,
     ProcessTyped, ReqRow, WorkerRow, AllNamed, ReqNamed, QueueNamed, WorkerNamed, RowsNamed,
     Finished, Starting, Packs, Deletes, Verdict, Rest, Idle
<1>18. ASSUME NEW t \in Request, NEW x \in Member, Refuse(t, x) PROVE AllNamed'
  BY <1>18, BulkAssumption DEF Refuse, Doing, Settle, rows, disk, content, process, BulkTypeOK,
     RowsTyped, ProcessTyped, ReqRow, WorkerRow, AllNamed, ReqNamed, QueueNamed, WorkerNamed,
     RowsNamed, Finished, Starting, Packs, Deletes, Verdict, Rest, Idle
<1>19. ASSUME Take PROVE AllNamed'
  BY <1>19, BulkAssumption DEF Take, At, rows, disk, content, process, BulkTypeOK, RowsTyped,
     ProcessTyped, ReqRow, WorkerRow, AllNamed, ReqNamed, QueueNamed, WorkerNamed, RowsNamed,
     Finished, Starting, Packs, Deletes, Verdict, Rest, Idle
<1>20. ASSUME Begin PROVE AllNamed'
  <2>1. /\ worker.do = "begin" /\ worker.run \in Run /\ op[worker.run] # "publish"
        /\ status[worker.run] # "absent"
    BY <1>20 DEF Begin, At, Needed, Set, R, Remaining, rows, disk, content, process, AllNamed,
       ReqNamed, QueueNamed, WorkerNamed, RowsNamed
  <2>2. /\ worker'.run = worker.run
        /\ worker'.do = IF op[worker.run] = "download" THEN "clear" ELSE "roots"
    BY <1>20 DEF Begin, At, Needed, Set, R, Remaining, rows, disk, content, process, WorkerRow,
       BulkTypeOK, ProcessTyped
  <2>3. /\ status'[worker.run] = IF op[worker.run] = "download" THEN "packaging" ELSE "running"
        /\ \A r \in Run \ {worker.run} : status'[r] = status[r]
    BY <1>20, <2>1 DEF Begin, At, Needed, Set, R, Remaining, rows, disk, content, process,
       BulkTypeOK,
       RowsTyped
  <2>4. UNCHANGED <<op, queue, req, published>> /\ stale' \subseteq stale \cup {worker.run}
    BY <1>20 DEF Begin, At, Needed, Set, R, Remaining, rows, disk, content, process
  <2>5. \A i \in DOMAIN queue : queue[i] \in Run
    BY DEF BulkTypeOK, ProcessTyped
  <2>a. ReqNamed'
    BY <2>1, <2>3, <2>4 DEF AllNamed, ReqNamed
  <2>b. QueueNamed'
    BY <2>1, <2>2, <2>3, <2>4, <2>5 DEF AllNamed, QueueNamed
  <2>c. WorkerNamed'
    BY <2>1, <2>2, <2>3, <2>4, <2>5 DEF AllNamed, WorkerNamed, Packs, Deletes, BulkTypeOK, RowsTyped
  <2>d. RowsNamed'
    BY <2>1, <2>3, <2>4 DEF AllNamed, RowsNamed, BulkTypeOK, RowsTyped
  <2> QED
    BY <2>a, <2>b, <2>c, <2>d DEF AllNamed
<1>21. ASSUME Released PROVE AllNamed'
  BY <1>21, BulkAssumption DEF Released, At, R, rows, disk, content, process, BulkTypeOK, RowsTyped,
     ProcessTyped, ReqRow, WorkerRow, AllNamed, ReqNamed, QueueNamed, WorkerNamed, RowsNamed,
     Finished, Starting, Packs, Deletes, Verdict, Rest, Idle
<1>22. ASSUME Clear PROVE AllNamed'
  BY <1>22, BulkAssumption DEF Clear, At, Go, R, rows, disk, content, process, BulkTypeOK,
     RowsTyped,
     ProcessTyped, ReqRow, WorkerRow, AllNamed, ReqNamed, QueueNamed, WorkerNamed, RowsNamed,
     Finished, Starting, Packs, Deletes, Verdict, Rest, Idle
<1>23. ASSUME NEW x \in Member, Pack(x) PROVE AllNamed'
  BY <1>23, BulkAssumption DEF Pack, At, R, rows, disk, content, process, BulkTypeOK, RowsTyped,
     ProcessTyped, ReqRow, WorkerRow, AllNamed, ReqNamed, QueueNamed, WorkerNamed, RowsNamed,
     Finished, Starting, Packs, Deletes, Verdict, Rest, Idle
<1>24. ASSUME Look PROVE AllNamed'
  BY <1>24, BulkAssumption DEF Look, At, Go, R, rows, disk, content, process, BulkTypeOK, RowsTyped,
     ProcessTyped, ReqRow, WorkerRow, AllNamed, ReqNamed, QueueNamed, WorkerNamed, RowsNamed,
     Finished, Starting, Packs, Deletes, Verdict, Rest, Idle
<1>25. ASSUME Replace PROVE AllNamed'
  BY <1>25, BulkAssumption DEF Replace, At, Go, R, rows, disk, content, process, BulkTypeOK,
     RowsTyped, ProcessTyped, ReqRow, WorkerRow, AllNamed, ReqNamed, QueueNamed, WorkerNamed,
     RowsNamed, Finished, Starting, Packs, Deletes, Verdict, Rest, Idle
<1>26. ASSUME Ready PROVE AllNamed'
  BY <1>26, BulkAssumption DEF Ready, At, Release, Quit, Set, Needed, R, rows, disk, content, process,
     BulkTypeOK, RowsTyped, ProcessTyped, ReqRow, WorkerRow, AllNamed, ReqNamed, QueueNamed,
     WorkerNamed,
     RowsNamed, Finished, Starting, Packs, Deletes, Verdict, Rest, Idle
<1>27. ASSUME PackFails PROVE AllNamed'
  <2>1. worker.do # "idle" /\ worker'.run = worker.run /\ worker'.do \in Verdict \cup Rest
    BY <1>27 DEF PackFails, Quit, At, R, Idle, Total, Verdict, Rest
  <2>2. UNCHANGED <<op, status, queue, req, published, stale>>
    BY <1>27 DEF PackFails, rows, disk, content, process
  <2> QED
    BY <2>1, <2>2 DEF Verdict, Rest, Packs, Deletes, AllNamed, ReqNamed, QueueNamed, WorkerNamed,
       RowsNamed
<1>28. ASSUME Stop PROVE AllNamed'
  BY <1>28, BulkAssumption DEF Stop, At, Go, R, rows, disk, content, process, BulkTypeOK, RowsTyped,
     ProcessTyped, ReqRow, WorkerRow, AllNamed, ReqNamed, QueueNamed, WorkerNamed, RowsNamed,
     Finished, Starting, Packs, Deletes, Verdict, Rest, Idle
<1>29. ASSUME NEW x \in Member, DeleteDirectory(x) PROVE AllNamed'
  BY <1>29, BulkAssumption DEF DeleteDirectory, At, R, rows, disk, content, process, BulkTypeOK,
     RowsTyped,
     ProcessTyped, ReqRow, WorkerRow, AllNamed, ReqNamed, QueueNamed, WorkerNamed, RowsNamed,
     Finished, Starting, Packs, Deletes, Verdict, Rest, Idle
<1>30. ASSUME Clean PROVE AllNamed'
  BY <1>30, BulkAssumption DEF Clean, At, Go, rows, disk, content, process, BulkTypeOK, RowsTyped,
     ProcessTyped, ReqRow, WorkerRow, AllNamed, ReqNamed, QueueNamed, WorkerNamed, RowsNamed,
     Finished, Starting, Packs, Deletes, Verdict, Rest, Idle
<1>31. ASSUME NEW x \in Member, Found(x) PROVE AllNamed'
  BY <1>31, BulkAssumption DEF Found, At, R, rows, disk, content, process, BulkTypeOK, RowsTyped,
     ProcessTyped, ReqRow, WorkerRow, AllNamed, ReqNamed, QueueNamed, WorkerNamed, RowsNamed,
     Finished, Starting, Packs, Deletes, Verdict, Rest, Idle
<1>32. ASSUME Report PROVE AllNamed'
  BY <1>32, BulkAssumption DEF Report, At, Settle, Outcome, R, rows, disk, content, process,
     BulkTypeOK, RowsTyped, ProcessTyped, ReqRow, WorkerRow, AllNamed, ReqNamed, QueueNamed,
     WorkerNamed,
     RowsNamed, Finished, Starting, Packs, Deletes, Verdict, Rest, Idle
<1>33. ASSUME NEW x \in Member, DeleteFails(x) PROVE AllNamed'
  BY <1>33, BulkAssumption DEF DeleteFails, At, Settle, R, rows, disk, content, process, BulkTypeOK,
     RowsTyped, ProcessTyped, ReqRow, WorkerRow, AllNamed, ReqNamed, QueueNamed, WorkerNamed,
     RowsNamed, Finished, Starting, Packs, Deletes, Verdict, Rest, Idle
<1>34. ASSUME TotalUp PROVE AllNamed'
  <2>1. worker.do # "idle" /\ worker'.run = worker.run /\ worker'.do \in Verdict \cup Rest
    BY <1>34 DEF TotalUp, Quit, At, R, Idle, Total, Verdict, Rest
  <2>2. UNCHANGED <<op, status, queue, req, published, stale>>
    BY <1>34 DEF TotalUp, rows, disk, content, process
  <2> QED
    BY <2>1, <2>2 DEF Verdict, Rest, Packs, Deletes, AllNamed, ReqNamed, QueueNamed, WorkerNamed,
       RowsNamed
<1>35. ASSUME DeleteBreaks PROVE AllNamed'
  <2>1. worker.do # "idle" /\ worker'.run = worker.run /\ worker'.do \in Verdict \cup Rest
    BY <1>35 DEF DeleteBreaks, Quit, At, R, Idle, Total, Verdict, Rest
  <2>2. UNCHANGED <<op, status, queue, req, published, stale>>
    BY <1>35 DEF DeleteBreaks, rows, disk, content, process
  <2> QED
    BY <2>1, <2>2 DEF Verdict, Rest, Packs, Deletes, AllNamed, ReqNamed, QueueNamed, WorkerNamed,
       RowsNamed
<1>36. ASSUME Crash PROVE AllNamed'
  BY <1>36, BulkAssumption DEF Crash, rows, disk, content, process, BulkTypeOK, RowsTyped,
     ProcessTyped, ReqRow, WorkerRow, AllNamed, ReqNamed, QueueNamed, WorkerNamed, RowsNamed,
     Finished, Starting, Packs, Deletes, Verdict, Rest, Idle
<1>37. ASSUME Boot PROVE AllNamed'
  <2> DEFINE Again == {r \in Run : Requeued(r)}
  <2>1. \A i \in DOMAIN queue' : queue'[i] \in Again
    <3>1. PICK q \in [1 .. Cardinality(Again) -> Again] : queue' = q
      BY <1>37 DEF Boot
    <3> QED
      BY <3>1
  <2>2. \A r \in Run : /\ status'[r] = "absent" <=> status[r] = "absent"
                       /\ status'[r] \in {"queued", "packaging"} => Requeued(r)
    BY <1>37 DEF Boot, Requeued, BulkTypeOK, RowsTyped
  <2>3. \A r \in Again : op[r] # "publish" /\ status[r] # "absent"
    BY DEF Requeued, AllNamed, ReqNamed, QueueNamed, WorkerNamed, RowsNamed
  <2>4. UNCHANGED <<op, req, worker, stale, published>>
    BY <1>37 DEF Boot, rows, disk, content, process
  <2>5. req' = req /\ worker.do = "idle" /\ \A t \in Request : req[t].do = "idle"
    BY <1>37 DEF Boot, rows, disk, content, process, Halted, Idle
  <2>a. ReqNamed'
    BY <2>4, <2>5 DEF ReqNamed
  <2>b. QueueNamed'
    BY <2>1, <2>2, <2>3, <2>4 DEF QueueNamed
  <2>c. WorkerNamed'
    BY <2>4, <2>5 DEF Packs, Deletes, WorkerNamed
  <2>d. RowsNamed'
    BY <2>2, <2>3, <2>4 DEF AllNamed, RowsNamed, BulkTypeOK, RowsTyped
  <2> QED
    BY <2>a, <2>b, <2>c, <2>d DEF AllNamed
<1>38. ASSUME NEW t \in Request, Finalized(t) PROVE AllNamed'
  <2>1. req[t].do # "idle" /\ req[t].run \in Run /\ status[req[t].run] # "absent"
    BY <1>38 DEF Finalized, Verdict, AllNamed, ReqNamed
  <2>2. req'[t].do = "idle" /\ \A u \in Request \ {t} : req'[u] = req[u]
    BY <1>38 DEF Finalized, Answer, Idle, BulkTypeOK, ProcessTyped
  <2>3. \A r \in Run : status'[r] = status[r] \/ (status[r] # "absent" /\ status'[r] \in Verdict)
    BY <1>38, <2>1 DEF Finalized, Set, BulkTypeOK, RowsTyped
  <2>4. UNCHANGED <<op, queue, worker, published, stale>>
    BY <1>38 DEF Finalized, rows, disk, content, process
  <2>5. /\ \A i \in DOMAIN queue : queue[i] \in Run
        /\ stale \subseteq Run
    BY DEF BulkTypeOK, RowsTyped, ProcessTyped
  <2> QED
    BY <2>2, <2>3, <2>4, <2>5 DEF Verdict, AllNamed, ReqNamed, QueueNamed, WorkerNamed, RowsNamed
<1>39. ASSUME End PROVE AllNamed'
  <2>1. worker.run \in Run /\ status[worker.run] # "absent"
    BY <1>39 DEF End, Verdict, AllNamed, WorkerNamed
  <2>2. worker'.run = worker.run /\ worker'.do = "release"
    BY <1>39 DEF End, Release, Quit, R, Idle
  <2>3. \A r \in Run : status'[r] = status[r] \/ (status[r] # "absent" /\ status'[r] \in Verdict)
    BY <1>39, <2>1 DEF End, Set, R, BulkTypeOK, RowsTyped
  <2>4. UNCHANGED <<op, queue, req, published, stale>>
    BY <1>39 DEF End, rows, disk, content, process
  <2>5. /\ \A i \in DOMAIN queue : queue[i] \in Run
        /\ stale \subseteq Run
    BY DEF BulkTypeOK, RowsTyped, ProcessTyped
  <2> QED
    BY <2>1, <2>2, <2>3, <2>4, <2>5 DEF Verdict, Packs, Deletes, AllNamed, ReqNamed, QueueNamed,
       WorkerNamed, RowsNamed
<1> QED
  BY <1>1, <1>2, <1>3, <1>4, <1>5, <1>6, <1>7, <1>8, <1>9, <1>10, <1>11, <1>12, <1>13, <1>14,
     <1>15, <1>16, <1>17, <1>18, <1>19, <1>20, <1>21, <1>22, <1>23, <1>24, <1>25, <1>26, <1>27,
     <1>28, <1>29, <1>30, <1>31, <1>32, <1>33, <1>34, <1>35, <1>36, <1>37, <1>38, <1>39 DEF BulkNext, Requests,
     Work

(* A process that is down holds no request, no queue and no executor. *)
LEMMA HaltedStep ==
  ASSUME BulkTypeOK, Halted, BulkNext
  PROVE  Halted'
<1>1. CASE \/ Crash
  BY <1>1 DEF Crash, Halted
<1>2. ASSUME NEW r \in Run, NEW o \in Operations, NEW S \in SUBSET Member, Preflight(r, o, S)
      PROVE  Halted'
  BY <1>2 DEF Preflight, Set, rows, disk, content, process, Halted
<1>3. ASSUME NEW t \in Request, NEW r \in Run, AskSelect(t, r) PROVE Halted'
  BY <1>3 DEF AskSelect, Checked, rows, disk, content, process, Halted
<1>4. ASSUME NEW t \in Request, NEW r \in Run, AskStart(t, r) PROVE Halted'
  BY <1>4 DEF AskStart, Checked, rows, disk, content, process, Halted
<1>5. ASSUME NEW t \in Request, NEW r \in Run, AskCancel(t, r) PROVE Halted'
  BY <1>5 DEF AskCancel, Checked, rows, disk, content, process, Halted
<1>6. ASSUME NEW t \in Request, NEW r \in Run, AskExpired(t, r) PROVE Halted'
  BY <1>6 DEF AskExpired, Checked, rows, disk, content, process, Halted
<1>7. ASSUME NEW r \in Run, Lapse(r) PROVE Halted'
  BY <1>7 DEF Lapse, rows, disk, content, process, Halted
<1>8. ASSUME NEW x \in Member, Elsewhere(x) PROVE Halted'
  BY <1>8 DEF Elsewhere, rows, disk, content, process, Halted
<1>9. ASSUME NEW t \in Request, NEW S \in SUBSET Member, Select(t, S) PROVE Halted'
  BY <1>9 DEF Select, Doing, Answer, Needed, rows, disk, content, process, Halted
<1>10. ASSUME NEW t \in Request, Start(t) PROVE Halted'
  BY <1>10 DEF Start, Doing, Set, Needed, rows, disk, content, process, Halted
<1>11. ASSUME NEW t \in Request, Enqueue(t) PROVE Halted'
  BY <1>11 DEF Enqueue, Doing, Answer, rows, disk, content, process, Halted
<1>12. ASSUME NEW t \in Request, Cancel(t) PROVE Halted'
  BY <1>12 DEF Cancel, Doing, Answer, Set, rows, disk, content, process, Halted
<1>13. ASSUME NEW t \in Request, Unlink(t) PROVE Halted'
  BY <1>13 DEF Unlink, Doing, rows, disk, content, process, Halted
<1>14. ASSUME NEW t \in Request, Expire(t) PROVE Halted'
  BY <1>14 DEF Expire, Doing, Answer, Set, Needed, rows, disk, content, process, Halted
<1>15. ASSUME NEW t \in Request, Rows(t) PROVE Halted'
  BY <1>15 DEF Rows, Doing, Remaining, rows, disk, content, process, Halted
<1>16. ASSUME NEW t \in Request, Mark(t) PROVE Halted'
  BY <1>16 DEF Mark, Doing, Settle, rows, disk, content, process, Halted
<1>17. ASSUME NEW t \in Request, Finalize(t) PROVE Halted'
  BY <1>17 DEF Finalize, Doing, Answer, Set, Total, rows, disk, content, process, Halted
<1>18. ASSUME NEW t \in Request, NEW x \in Member, Publish(t, x) PROVE Halted'
  BY <1>18 DEF Publish, Doing, rows, disk, content, process, Halted
<1>19. ASSUME NEW t \in Request, NEW x \in Member, Refuse(t, x) PROVE Halted'
  BY <1>19 DEF Refuse, Doing, Settle, rows, disk, content, process, Halted
<1>20. ASSUME Take PROVE Halted'
  BY <1>20 DEF Take, At, rows, disk, content, process, Halted
<1>21. ASSUME Begin PROVE Halted'
  BY <1>21 DEF Begin, At, Needed, Set, R, Remaining, rows, disk, content, process, Halted
<1>22. ASSUME Released PROVE Halted'
  BY <1>22 DEF Released, At, R, rows, disk, content, process, Halted
<1>23. ASSUME Clear PROVE Halted'
  BY <1>23 DEF Clear, At, Go, R, rows, disk, content, process, Halted
<1>24. ASSUME NEW x \in Member, Pack(x) PROVE Halted'
  BY <1>24 DEF Pack, At, R, rows, disk, content, process, Halted
<1>25. ASSUME Look PROVE Halted'
  BY <1>25 DEF Look, At, Go, R, rows, disk, content, process, Halted
<1>26. ASSUME Replace PROVE Halted'
  BY <1>26 DEF Replace, At, Go, R, rows, disk, content, process, Halted
<1>27. ASSUME Ready PROVE Halted'
  BY <1>27 DEF Ready, At, Release, Quit, Set, Needed, R, rows, disk, content, process, Halted
<1>28. ASSUME PackFails PROVE Halted'
  BY <1>28 DEF PackFails, Release, Set, R, rows, disk, content, process, Halted
<1>29. ASSUME Stop PROVE Halted'
  BY <1>29 DEF Stop, At, Go, R, rows, disk, content, process, Halted
<1>30. ASSUME NEW x \in Member, DeleteDirectory(x) PROVE Halted'
  BY <1>30 DEF DeleteDirectory, At, R, rows, disk, content, process, Halted
<1>31. ASSUME Clean PROVE Halted'
  BY <1>31 DEF Clean, At, Go, rows, disk, content, process, Halted
<1>32. ASSUME NEW x \in Member, Found(x) PROVE Halted'
  BY <1>32 DEF Found, At, R, rows, disk, content, process, Halted
<1>33. ASSUME Report PROVE Halted'
  BY <1>33 DEF Report, At, Settle, Outcome, R, rows, disk, content, process, Halted
<1>34. ASSUME NEW x \in Member, DeleteFails(x) PROVE Halted'
  BY <1>34 DEF DeleteFails, At, Settle, R, rows, disk, content, process, Halted
<1>35. ASSUME TotalUp PROVE Halted'
  BY <1>35 DEF TotalUp, At, Release, Set, Total, R, rows, disk, content, process, Halted
<1>36. ASSUME DeleteBreaks PROVE Halted'
  BY <1>36 DEF DeleteBreaks, Release, Set, R, rows, disk, content, process, Halted
<1>37. ASSUME Boot PROVE Halted'
  BY <1>37 DEF Boot, rows, disk, content, process, Halted
<1>38. ASSUME NEW t \in Request, Finalized(t) PROVE Halted'
  BY <1>38 DEF Finalized, rows, disk, content, process, Halted
<1>39. ASSUME End PROVE Halted'
  BY <1>39 DEF End, rows, disk, content, process, Halted
<1> QED
  BY <1>1, <1>2, <1>3, <1>4, <1>5, <1>6, <1>7, <1>8, <1>9, <1>10, <1>11, <1>12, <1>13, <1>14,
     <1>15, <1>16, <1>17, <1>18, <1>19, <1>20, <1>21, <1>22, <1>23, <1>24, <1>25, <1>26, <1>27,
     <1>28, <1>29, <1>30, <1>31, <1>32, <1>33, <1>34, <1>35, <1>36, <1>37, <1>38, <1>39 DEF BulkNext, Requests,
     Work

(* What is reported as done was done, and no step undoes it. *)
LEMMA DeedsStep ==
  ASSUME BulkTypeOK, BulkTypeOK', AllNamed, AllNamed', Deeds, Halted, Selected, BulkNext
  PROVE  Deeds'
<1>1. CASE \/ \E t \in Request, r \in Run : AskSelect(t, r)
           \/ \E t \in Request, r \in Run : AskStart(t, r)
           \/ \E t \in Request, r \in Run : AskCancel(t, r)
           \/ \E t \in Request, r \in Run : AskExpired(t, r)
           \/ \E t \in Request, S \in SUBSET Member : Select(t, S)
           \/ \E t \in Request : Start(t)
           \/ \E t \in Request : Enqueue(t)
           \/ \E t \in Request : Cancel(t)
           \/ \E t \in Request : Unlink(t)
           \/ \E t \in Request : Expire(t)
           \/ \E t \in Request : Rows(t)
           \/ \E t \in Request : Finalize(t)
           \/ \E t \in Request : Finalized(t)
           \/ \E r \in Run : Lapse(r)
  <2>1. UNCHANGED <<worker, folder, published, result, op>>
    BY <1>1 DEF AskSelect, Checked, rows, disk, content, process, AskStart, AskCancel, AskExpired,
       Select, Doing, Answer, Needed, Start, Set, Enqueue, Cancel, Unlink, Expire, Rows,
       Remaining, Finalize, Finalized, Total, Lapse
  <2> QED
    BY <2>1 DEF Deeds
<1>2. ASSUME NEW r \in Run, NEW o \in Operations, NEW S \in SUBSET Member, Preflight(r, o, S)
      PROVE  Deeds'
  <2>1. \A x \in Member : result[r][x] = "pending"
    <3>1. r \notin stale /\ status[r] = "absent"
      BY <1>2 DEF Preflight, AllNamed, ReqNamed, QueueNamed, WorkerNamed, RowsNamed
    <3> QED
      BY <3>1 DEF Selected, SelectedAt
  <2>2. UNCHANGED <<worker, folder, published, result>> /\ \A q \in Run \ {r} : op'[q] = op[q]
    BY <1>2 DEF Preflight, Set, rows, disk, content, process, BulkTypeOK, RowsTyped
  <2>3. \A q \in Run, x \in Member : result[q][x] = "succeeded" => q # r
    BY <2>1
  <2> QED
    BY <2>2, <2>3 DEF Deeds
<1>3. ASSUME NEW x \in Member, Elsewhere(x) PROVE Deeds'
  BY <1>3, BulkAssumption DEF Elsewhere, rows, disk, content, process, BulkTypeOK, RowsTyped,
     ProcessTyped, ReqRow, WorkerRow, AllNamed, ReqNamed, QueueNamed, WorkerNamed, RowsNamed, Deeds,
     Finished, Starting, Packs, Deletes, Verdict, Rest, Idle
<1>4. ASSUME NEW t \in Request, Mark(t) PROVE Deeds'
  BY <1>4, BulkAssumption DEF Mark, Doing, Settle, rows, disk, content, process, BulkTypeOK,
     RowsTyped, ProcessTyped, ReqRow, WorkerRow, AllNamed, ReqNamed, QueueNamed, WorkerNamed,
     RowsNamed, Deeds, Finished, Starting, Packs, Deletes, Verdict, Rest, Idle
<1>5. ASSUME NEW t \in Request, NEW x \in Member, Publish(t, x) PROVE Deeds'
  BY <1>5, BulkAssumption DEF Publish, Doing, rows, disk, content, process, BulkTypeOK, RowsTyped,
     ProcessTyped, ReqRow, WorkerRow, AllNamed, ReqNamed, QueueNamed, WorkerNamed, RowsNamed, Deeds,
     Finished, Starting, Packs, Deletes, Verdict, Rest, Idle
<1>6. ASSUME NEW t \in Request, NEW x \in Member, Refuse(t, x) PROVE Deeds'
  BY <1>6, BulkAssumption DEF Refuse, Doing, Settle, rows, disk, content, process, BulkTypeOK,
     RowsTyped, ProcessTyped, ReqRow, WorkerRow, AllNamed, ReqNamed, QueueNamed, WorkerNamed,
     RowsNamed, Deeds, Finished, Starting, Packs, Deletes, Verdict, Rest, Idle
<1>7. ASSUME Take PROVE Deeds'
  BY <1>7, BulkAssumption DEF Take, At, rows, disk, content, process, BulkTypeOK, RowsTyped,
     ProcessTyped, ReqRow, WorkerRow, AllNamed, ReqNamed, QueueNamed, WorkerNamed, RowsNamed, Deeds,
     Finished, Starting, Packs, Deletes, Verdict, Rest, Idle
<1>8. ASSUME Begin PROVE Deeds'
  <2>1. UNCHANGED <<folder, published, result, op>> /\ worker'.do \in {"clear", "roots"}
    BY <1>8 DEF Begin, At, Needed, Set, R, Remaining, rows, disk, content, process, BulkTypeOK,
       ProcessTyped, WorkerRow
  <2> QED
    BY <2>1 DEF Deeds
<1>9. ASSUME Released PROVE Deeds'
  BY <1>9, BulkAssumption DEF Released, At, R, rows, disk, content, process, BulkTypeOK, RowsTyped,
     ProcessTyped, ReqRow, WorkerRow, AllNamed, ReqNamed, QueueNamed, WorkerNamed, RowsNamed, Deeds,
     Finished, Starting, Packs, Deletes, Verdict, Rest, Idle
<1>10. ASSUME Clear PROVE Deeds'
  BY <1>10, BulkAssumption DEF Clear, At, Go, R, rows, disk, content, process, BulkTypeOK,
     RowsTyped,
     ProcessTyped, ReqRow, WorkerRow, AllNamed, ReqNamed, QueueNamed, WorkerNamed, RowsNamed, Deeds,
     Finished, Starting, Packs, Deletes, Verdict, Rest, Idle
<1>11. ASSUME NEW x \in Member, Pack(x) PROVE Deeds'
  BY <1>11, BulkAssumption DEF Pack, At, R, rows, disk, content, process, BulkTypeOK, RowsTyped,
     ProcessTyped, ReqRow, WorkerRow, AllNamed, ReqNamed, QueueNamed, WorkerNamed, RowsNamed, Deeds,
     Finished, Starting, Packs, Deletes, Verdict, Rest, Idle
<1>12. ASSUME Look PROVE Deeds'
  BY <1>12, BulkAssumption DEF Look, At, Go, R, rows, disk, content, process, BulkTypeOK, RowsTyped,
     ProcessTyped, ReqRow, WorkerRow, AllNamed, ReqNamed, QueueNamed, WorkerNamed, RowsNamed, Deeds,
     Finished, Starting, Packs, Deletes, Verdict, Rest, Idle
<1>13. ASSUME Replace PROVE Deeds'
  BY <1>13, BulkAssumption DEF Replace, At, Go, R, rows, disk, content, process, BulkTypeOK,
     RowsTyped, ProcessTyped, ReqRow, WorkerRow, AllNamed, ReqNamed, QueueNamed, WorkerNamed,
     RowsNamed, Deeds, Finished, Starting, Packs, Deletes, Verdict, Rest, Idle
<1>14. ASSUME Ready PROVE Deeds'
  BY <1>14, BulkAssumption DEF Ready, At, Release, Quit, Set, Needed, R, rows, disk, content, process,
     BulkTypeOK, RowsTyped, ProcessTyped, ReqRow, WorkerRow, AllNamed, ReqNamed, QueueNamed,
     WorkerNamed,
     RowsNamed, Deeds, Finished, Starting, Packs, Deletes, Verdict, Rest, Idle
<1>15. ASSUME PackFails PROVE Deeds'
  <2>1. worker'.do \in Verdict \cup Rest /\ UNCHANGED <<folder, published, result, op>>
    BY <1>15 DEF PackFails, Quit, R, Idle, Total, Verdict, Rest, rows, disk, content, process
  <2> QED
    BY <2>1 DEF Deeds, Verdict, Rest
<1>16. ASSUME Stop PROVE Deeds'
  BY <1>16, BulkAssumption DEF Stop, At, Go, R, rows, disk, content, process, BulkTypeOK, RowsTyped,
     ProcessTyped, ReqRow, WorkerRow, AllNamed, ReqNamed, QueueNamed, WorkerNamed, RowsNamed, Deeds,
     Finished, Starting, Packs, Deletes, Verdict, Rest, Idle
<1>17. ASSUME NEW x \in Member, DeleteDirectory(x) PROVE Deeds'
  BY <1>17, BulkAssumption DEF DeleteDirectory, At, R, rows, disk, content, process, BulkTypeOK,
     RowsTyped,
     ProcessTyped, ReqRow, WorkerRow, AllNamed, ReqNamed, QueueNamed, WorkerNamed, RowsNamed, Deeds,
     Finished, Starting, Packs, Deletes, Verdict, Rest, Idle
<1>18. ASSUME Clean PROVE Deeds'
  BY <1>18, BulkAssumption DEF Clean, At, Go, rows, disk, content, process, BulkTypeOK, RowsTyped,
     ProcessTyped, ReqRow, WorkerRow, AllNamed, ReqNamed, QueueNamed, WorkerNamed, RowsNamed, Deeds,
     Finished, Starting, Packs, Deletes, Verdict, Rest, Idle
<1>19. ASSUME NEW x \in Member, Found(x) PROVE Deeds'
  BY <1>19, BulkAssumption DEF Found, At, R, rows, disk, content, process, BulkTypeOK, RowsTyped,
     ProcessTyped, ReqRow, WorkerRow, AllNamed, ReqNamed, QueueNamed, WorkerNamed, RowsNamed, Deeds,
     Finished, Starting, Packs, Deletes, Verdict, Rest, Idle
<1>20. ASSUME Report PROVE Deeds'
  BY <1>20, BulkAssumption DEF Report, At, Settle, Outcome, R, rows, disk, content, process,
     BulkTypeOK, RowsTyped, ProcessTyped, ReqRow, WorkerRow, AllNamed, ReqNamed, QueueNamed,
     WorkerNamed,
     RowsNamed, Deeds, Finished, Starting, Packs, Deletes, Verdict, Rest, Idle
<1>21. ASSUME NEW x \in Member, DeleteFails(x) PROVE Deeds'
  BY <1>21, BulkAssumption DEF DeleteFails, At, Settle, R, rows, disk, content, process, BulkTypeOK,
     RowsTyped, ProcessTyped, ReqRow, WorkerRow, AllNamed, ReqNamed, QueueNamed, WorkerNamed,
     RowsNamed, Deeds, Finished, Starting, Packs, Deletes, Verdict, Rest, Idle
<1>22. ASSUME TotalUp PROVE Deeds'
  <2>1. worker'.do \in Verdict \cup Rest /\ UNCHANGED <<folder, published, result, op>>
    BY <1>22 DEF TotalUp, Quit, R, Idle, Total, Verdict, Rest, rows, disk, content, process
  <2> QED
    BY <2>1 DEF Deeds, Verdict, Rest
<1>23. ASSUME DeleteBreaks PROVE Deeds'
  <2>1. worker'.do \in Verdict \cup Rest /\ UNCHANGED <<folder, published, result, op>>
    BY <1>23 DEF DeleteBreaks, Quit, R, Idle, Total, Verdict, Rest, rows, disk, content, process
  <2> QED
    BY <2>1 DEF Deeds, Verdict, Rest
<1>24. ASSUME Crash PROVE Deeds'
  BY <1>24, BulkAssumption DEF Crash, rows, disk, content, process, BulkTypeOK, RowsTyped,
     ProcessTyped, ReqRow, WorkerRow, AllNamed, ReqNamed, QueueNamed, WorkerNamed, RowsNamed, Deeds,
     Finished, Starting, Packs, Deletes, Verdict, Rest, Idle
<1>25. ASSUME Boot PROVE Deeds'
  BY <1>25, BulkAssumption DEF Boot, rows, disk, content, process, BulkTypeOK, RowsTyped,
     ProcessTyped, ReqRow, WorkerRow, AllNamed, ReqNamed, QueueNamed, WorkerNamed, RowsNamed, Deeds,
     Finished, Starting, Packs, Deletes, Verdict, Rest, Idle
<1>26. ASSUME End PROVE Deeds'
  <2>1. worker'.do \in Verdict \cup Rest /\ UNCHANGED <<folder, published, result, op>>
    BY <1>26 DEF End, Quit, Release, R, Idle, Total, Verdict, Rest, rows, disk, content, process
  <2> QED
    BY <2>1 DEF Deeds, Verdict, Rest
<1> QED
  BY <1>1, <1>2, <1>3, <1>4, <1>5, <1>6, <1>7, <1>8, <1>9, <1>10, <1>11, <1>12, <1>13, <1>14,
     <1>15, <1>16, <1>17, <1>18, <1>19, <1>20, <1>21, <1>22, <1>23, <1>24, <1>25, <1>26 DEF BulkNext,
     Requests, Work

-----------------------------------------------------------------------------
(* A run once written on a check that held no longer counts as such for good. *)
LEMMA StaleGrows == ASSUME BulkNext PROVE stale \subseteq stale'
  BY DEF BulkNext, Requests, Work, Preflight, AskSelect, AskStart, AskCancel, AskExpired, Checked,
     Lapse,
     Elsewhere, Select, Start, Enqueue, Cancel, Unlink, Expire, Rows, Mark, Finalize, Finalized, End, Publish,
     Refuse, Take, Begin, Released, Clear, Pack, Look, Replace, Ready, PackFails, Stop,
     DeleteDirectory,
     Clean, Found, Report, DeleteFails, TotalUp, DeleteBreaks, Crash, Boot, Needed

(* What gives a run no driver it had not, and does not end it, keeps it driven. *)
LEMMA DrivenKept ==
  ASSUME NEW q \in Run, Driven(q), queue' = queue,
         \A t \in Request : Drives(t, q)' => Drives(t, q), Works(q)' => Works(q),
         status'[q] \in Resting => status[q] \in Resting
  PROVE  Driven(q)'
  BY DEF Driven, One, Undriven, Queued

(* A run without a driver may have one next: none at all is one at most. *)
LEMMA UndrivenNext ==
  ASSUME NEW q \in Run, Undriven(q)'
  PROVE  Driven(q)'
<1>1. One(q)'
  BY DEF Undriven, One, Queued
<1> QED
  BY <1>1 DEF Driven

(* A run has one driver at most, and none before its start and after its end. *)
LEMMA DrivenStep ==
  ASSUME BulkTypeOK, BulkTypeOK', AllNamed, Halted, NEW q \in Run, Driven(q), q \notin stale',
         BulkNext
  PROVE  Driven(q)'
<1>1. ASSUME NEW r \in Run, NEW o \in Operations, NEW S \in SUBSET Member, Preflight(r, o, S)
      PROVE  Driven(q)'
  <2>1. UNCHANGED <<queue, req, worker>> /\ status[r] = "absent"
    BY <1>1 DEF Preflight, Set, rows, disk, content, process
  <2>2. q # r => status'[q] = status[q]
    BY <1>1 DEF Preflight, Set, rows, disk, content, process, BulkTypeOK, RowsTyped
  <2> QED
    BY <2>1, <2>2, DrivenKept DEF Drives, Works, Resting
<1>2. ASSUME NEW t \in Request, NEW r \in Run, AskSelect(t, r) PROVE Driven(q)'
  <2>1. \A u \in Request : Drives(u, q)' => Drives(u, q)
    BY <1>2 DEF AskSelect, Checked, rows, disk, content, process, Drives, Starting, Verdict, Idle,
       BulkTypeOK,
       ProcessTyped, ReqRow
  <2>2. UNCHANGED <<queue, status, worker>>
    BY <1>2 DEF AskSelect, Checked, rows, disk, content, process
  <2> QED
    BY <2>1, <2>2, DrivenKept DEF Works
<1>3. ASSUME NEW t \in Request, NEW r \in Run, AskStart(t, r) PROVE Driven(q)'
  <2>1. \A u \in Request : Drives(u, q)' => Drives(u, q)
    BY <1>3 DEF AskStart, Checked, rows, disk, content, process, Drives, Starting, Verdict, Idle, BulkTypeOK,
       ProcessTyped, ReqRow
  <2>2. UNCHANGED <<queue, status, worker>>
    BY <1>3 DEF AskStart, Checked, rows, disk, content, process
  <2> QED
    BY <2>1, <2>2, DrivenKept DEF Works
<1>4. ASSUME NEW t \in Request, NEW r \in Run, AskCancel(t, r) PROVE Driven(q)'
  <2>1. \A u \in Request : Drives(u, q)' => Drives(u, q)
    BY <1>4 DEF AskCancel, Checked, rows, disk, content, process, Drives, Starting, Verdict, Idle,
       BulkTypeOK,
       ProcessTyped, ReqRow
  <2>2. UNCHANGED <<queue, status, worker>>
    BY <1>4 DEF AskCancel, Checked, rows, disk, content, process
  <2> QED
    BY <2>1, <2>2, DrivenKept DEF Works
<1>5. ASSUME NEW t \in Request, NEW r \in Run, AskExpired(t, r) PROVE Driven(q)'
  <2>1. \A u \in Request : Drives(u, q)' => Drives(u, q)
    BY <1>5 DEF AskExpired, Checked, rows, disk, content, process, Drives, Starting, Verdict, Idle,
       BulkTypeOK,
       ProcessTyped, ReqRow
  <2>2. UNCHANGED <<queue, status, worker>>
    BY <1>5 DEF AskExpired, Checked, rows, disk, content, process
  <2> QED
    BY <2>1, <2>2, DrivenKept DEF Works
<1>6. ASSUME NEW r \in Run, Lapse(r) PROVE Driven(q)'
  <2>1. UNCHANGED <<queue, status, req, worker>>
    BY <1>6 DEF Lapse, rows, disk, content, process
  <2> QED
    BY <2>1, DrivenKept DEF Drives, Works
<1>7. ASSUME NEW x \in Member, Elsewhere(x) PROVE Driven(q)'
  <2>1. UNCHANGED <<queue, status, req, worker>>
    BY <1>7 DEF Elsewhere, rows, disk, content, process
  <2> QED
    BY <2>1, DrivenKept DEF Drives, Works
<1>8. ASSUME NEW t \in Request, NEW S \in SUBSET Member, Select(t, S) PROVE Driven(q)'
  <2>1. \A u \in Request : Drives(u, q)' => Drives(u, q)
    BY <1>8 DEF Select, Doing, Answer, Needed, rows, disk, content, process, Drives, Starting, Verdict,
       Idle, BulkTypeOK, ProcessTyped, ReqRow
  <2>2. UNCHANGED <<queue, status, worker>>
    BY <1>8 DEF Select, Doing, Answer, Needed, rows, disk, content, process
  <2> QED
    BY <2>1, <2>2, DrivenKept DEF Works
<1>9. ASSUME NEW t \in Request, Start(t) PROVE Driven(q)'
  <2>1. /\ req[t].do = "start" /\ req[t].run \in Run
        /\ \A u \in Request \ {t} : req'[u] = req[u]
        /\ req'[t].run = req[t].run /\ req'[t].do \in {"rows", "enqueue"}
    <3>1. req[t].do = "start" /\ req[t].run \in Run
      BY <1>9 DEF Start, Doing, Set, Needed, rows, disk, content, process, AllNamed, ReqNamed,
         QueueNamed, WorkerNamed, RowsNamed
    <3> QED
      BY <1>9, <3>1 DEF Start, BulkTypeOK, ProcessTyped, ReqRow
  <2>2. UNCHANGED <<queue, worker>>
    BY <1>9 DEF Start, Doing, Set, Needed, rows, disk, content, process
  <2>3. CASE q = req[t].run
    <3>1. status[q] = "awaiting" /\ status'[q] \in {"running", "queued"}
      BY <1>9, <2>3 DEF Start, Doing, Set, Needed, rows, disk, content, process, BulkTypeOK,
         RowsTyped
    <3>2. Undriven(q) /\ status'[q] \notin Resting
      BY <3>1 DEF Driven, Resting, Finished
    <3>3. \A u \in Request : Drives(u, q)' => u = t
      BY <2>1, <3>2 DEF Undriven, Drives
    <3>4. ~ Queued(q)' /\ ~ Works(q)'
      BY <2>2, <3>2 DEF Undriven, Queued, Works
    <3>5. One(q)'
      BY <3>3, <3>4 DEF One, Queued
    <3> QED
      BY <3>2, <3>5 DEF Driven
  <2>4. CASE q # req[t].run
    <3>1. status'[q] = status[q]
      BY <1>9, <2>4 DEF Start, Doing, Set, Needed, rows, disk, content, process, BulkTypeOK,
         RowsTyped
    <3>2. \A u \in Request : Drives(u, q)' => Drives(u, q)
      BY <2>1, <2>4 DEF Drives
    <3> QED
      BY <2>2, <3>1, <3>2, DrivenKept DEF Works
  <2> QED
    BY <2>3, <2>4
<1>10. ASSUME NEW t \in Request, Enqueue(t) PROVE Driven(q)'
  <2>1. /\ req[t].do = "enqueue" /\ req[t].run \in Run
        /\ \A u \in Request \ {t} : req'[u] = req[u]
        /\ req'[t] = Idle
    BY <1>10 DEF Enqueue, Doing, Answer, rows, disk, content, process, AllNamed, ReqNamed,
       QueueNamed, WorkerNamed, RowsNamed, BulkTypeOK, ProcessTyped
  <2>2. UNCHANGED <<status, worker>>
    BY <1>10 DEF Enqueue, Doing, Answer, rows, disk, content, process
  <2>3. \A u \in Request : Drives(u, q)' => Drives(u, q) /\ u # t
    BY <2>1 DEF Drives, Idle, Starting, Verdict
  <2>4. CASE queue' = queue
    BY <2>2, <2>3, <2>4, DrivenKept DEF Works
  <2>5. CASE queue' = Append(queue, req[t].run)
    <3>1. /\ Len(queue) \in Nat /\ DOMAIN queue = 1 .. Len(queue)
          /\ DOMAIN queue' = 1 .. Len(queue) + 1
          /\ \A i \in 1 .. Len(queue) : queue'[i] = queue[i]
          /\ queue'[Len(queue) + 1] = req[t].run
      BY <2>1, <2>5 DEF BulkTypeOK, ProcessTyped
    <3>2. CASE q = req[t].run
      <4>1. Drives(t, q)
        BY <2>1, <3>2 DEF Drives, Starting, Verdict
      <4>2. ~ Queued(q) /\ ~ Works(q) /\ status[q] \notin Resting
        BY <4>1 DEF Driven, One, Undriven
      <4>3. \A u \in Request : ~ Drives(u, q)'
        BY <2>3, <4>1 DEF Driven, One
      <4>4. \A i \in DOMAIN queue' : queue'[i] = q => i = Len(queue) + 1
        BY <3>1, <4>2 DEF Queued
      <4>5. One(q)'
        BY <2>2, <4>2, <4>3, <4>4 DEF One, Works
      <4> QED
        BY <2>2, <4>2, <4>5 DEF Driven
    <3>3. CASE q # req[t].run
      <4>1. \A i \in DOMAIN queue' : queue'[i] = q => i \in DOMAIN queue /\ queue[i] = q
        BY <3>1, <3>3
      <4>2. Queued(q)' => Queued(q)
        BY <4>1 DEF Queued
      <4>3. One(q)'
        BY <2>2, <2>3, <4>1, <4>2 DEF Driven, One, Works
      <4>4. Undriven(q) => Undriven(q)'
        BY <2>2, <2>3, <4>2 DEF Undriven, Works
      <4> QED
        BY <2>2, <4>3, <4>4 DEF Driven
    <3> QED
      BY <3>2, <3>3
  <2> QED
    BY <1>10, <2>4, <2>5 DEF Enqueue
<1>11. ASSUME NEW t \in Request, Cancel(t) PROVE Driven(q)'
  <2>1. UNCHANGED <<queue, worker>> /\ req[t].run \in Run
    BY <1>11 DEF Cancel, Doing, Answer, Set, rows, disk, content, process, AllNamed, ReqNamed,
       QueueNamed, WorkerNamed, RowsNamed
  <2>2. \A u \in Request : Drives(u, q)' => Drives(u, q)
    BY <1>11 DEF Cancel, Doing, Answer, Set, rows, disk, content, process, Drives, Starting, Verdict, Idle,
       BulkTypeOK, ProcessTyped, ReqRow
  <2>3. status'[q] = IF q = req[t].run THEN "cancelled" ELSE status[q]
    BY <1>11 DEF Cancel, Doing, Answer, Set, rows, disk, content, process, BulkTypeOK, RowsTyped
  <2> QED
    BY <2>1, <2>2, <2>3, DrivenKept DEF Works, Resting, Finished
<1>12. ASSUME NEW t \in Request, Unlink(t) PROVE Driven(q)'
  <2>1. \A u \in Request : Drives(u, q)' => Drives(u, q)
    BY <1>12 DEF Unlink, Doing, rows, disk, content, process, Drives, Starting, Verdict, Idle, BulkTypeOK,
       ProcessTyped, ReqRow
  <2>2. UNCHANGED <<queue, status, worker>>
    BY <1>12 DEF Unlink, Doing, rows, disk, content, process
  <2> QED
    BY <2>1, <2>2, DrivenKept DEF Works
<1>13. ASSUME NEW t \in Request, Expire(t) PROVE Driven(q)'
  <2>1. UNCHANGED <<queue, worker>> /\ req[t].run \in Run
    BY <1>13 DEF Expire, Doing, Answer, Set, Needed, rows, disk, content, process, AllNamed,
       ReqNamed, QueueNamed, WorkerNamed, RowsNamed
  <2>2. \A u \in Request : Drives(u, q)' => Drives(u, q)
    BY <1>13 DEF Expire, Doing, Answer, Set, Needed, rows, disk, content, process, Drives,
       Starting, Verdict, Idle, BulkTypeOK, ProcessTyped, ReqRow
  <2>3. /\ q = req[t].run => status[q] = "ready"
        /\ q # req[t].run => status'[q] = status[q]
    BY <1>13 DEF Expire, Doing, Answer, Set, Needed, rows, disk, content, process, BulkTypeOK,
       RowsTyped
  <2> QED
    BY <2>1, <2>2, <2>3, DrivenKept DEF Works, Resting, Finished
<1>14. ASSUME NEW t \in Request, Rows(t) PROVE Driven(q)'
  <2>1. /\ \A u \in Request \ {t} : req'[u] = req[u]
        /\ req[t].do = "rows" /\ req'[t].run = req[t].run
    BY <1>14 DEF Rows, Doing, BulkTypeOK, ProcessTyped, ReqRow
  <2>2. UNCHANGED <<queue, status, worker>>
    BY <1>14 DEF Rows, Doing, Remaining, rows, disk, content, process
  <2>3. \A u \in Request : Drives(u, q)' => Drives(u, q)
    BY <2>1 DEF Drives, Starting, Verdict
  <2> QED
    BY <2>2, <2>3, DrivenKept DEF Works
<1>15. ASSUME NEW t \in Request, Mark(t) PROVE Driven(q)'
  <2>1. \A u \in Request : Drives(u, q)' => Drives(u, q)
    BY <1>15 DEF Mark, Doing, Settle, rows, disk, content, process, Drives, Starting, Verdict, Idle,
       BulkTypeOK, ProcessTyped, ReqRow
  <2>2. UNCHANGED <<queue, status, worker>>
    BY <1>15 DEF Mark, Doing, Settle, rows, disk, content, process
  <2> QED
    BY <2>1, <2>2, DrivenKept DEF Works
<1>16. ASSUME NEW t \in Request, Finalize(t) PROVE Driven(q)'
  <2>1. req[t].do = "loop" /\ UNCHANGED <<queue, status, worker>>
    BY <1>16 DEF Finalize, Doing, process
  <2>2. /\ \A u \in Request \ {t} : req'[u] = req[u]
        /\ req'[t].do = "idle" \/ req'[t].run = req[t].run
    BY <1>16 DEF Finalize, Doing, Answer, Idle, ReqRow, BulkTypeOK, ProcessTyped
  <2>3. \A u \in Request : Drives(u, q)' => Drives(u, q)
    BY <2>1, <2>2 DEF Drives, Starting, Verdict
  <2> QED
    BY <2>1, <2>3, DrivenKept DEF Works
<1>17. ASSUME NEW t \in Request, NEW x \in Member, Publish(t, x) PROVE Driven(q)'
  <2>1. \A u \in Request : Drives(u, q)' => Drives(u, q)
    BY <1>17 DEF Publish, Doing, rows, disk, content, process, Drives, Starting, Verdict, Idle, BulkTypeOK,
       ProcessTyped, ReqRow
  <2>2. UNCHANGED <<queue, status, worker>>
    BY <1>17 DEF Publish, Doing, rows, disk, content, process
  <2> QED
    BY <2>1, <2>2, DrivenKept DEF Works
<1>18. ASSUME NEW t \in Request, NEW x \in Member, Refuse(t, x) PROVE Driven(q)'
  <2>1. \A u \in Request : Drives(u, q)' => Drives(u, q)
    BY <1>18 DEF Refuse, Doing, Settle, rows, disk, content, process, Drives, Starting, Verdict, Idle,
       BulkTypeOK, ProcessTyped, ReqRow
  <2>2. UNCHANGED <<queue, status, worker>>
    BY <1>18 DEF Refuse, Doing, Settle, rows, disk, content, process
  <2> QED
    BY <2>1, <2>2, DrivenKept DEF Works
<1>19. ASSUME Take PROVE Driven(q)'
  <2>1. /\ queue # <<>> /\ queue' = Tail(queue) /\ worker.do = "idle"
        /\ worker'.run = Head(queue) /\ UNCHANGED <<status, req>>
    BY <1>19 DEF Take, At, rows, disk, content, process, Idle
  <2>2. /\ Len(queue) \in Nat \ {0} /\ DOMAIN queue = 1 .. Len(queue)
        /\ DOMAIN queue' = 1 .. Len(queue) - 1 /\ queue[1] = Head(queue)
        /\ \A i \in 1 .. Len(queue) - 1 : queue'[i] = queue[i + 1]
    BY <2>1, HeadTailProperties DEF BulkTypeOK, ProcessTyped
  <2>3. \A i \in DOMAIN queue' : i + 1 \in DOMAIN queue /\ i + 1 # 1 /\ queue'[i] = queue[i + 1]
    BY <2>2
  <2>4. Queued(q)' => Queued(q)
    BY <2>3 DEF Queued
  <2>5. Works(q)' => q = queue[1] /\ 1 \in DOMAIN queue
    BY <2>1, <2>2 DEF Works
  <2>6. Works(q)' => Queued(q) /\ ~ Queued(q)'
    BY <2>3, <2>5 DEF Queued, Driven, One
  <2>7. One(q)'
    <3>1. \A i, k \in DOMAIN queue' : queue'[i] = q /\ queue'[k] = q => i = k
      <4> SUFFICES ASSUME NEW i \in DOMAIN queue', NEW k \in DOMAIN queue',
                      queue'[i] = q, queue'[k] = q
                   PROVE  i = k
        OBVIOUS
      <4>1. i + 1 = k + 1
        BY <2>3 DEF Driven, One
      <4> QED
        BY <2>2, <4>1
    <3>2. \A t \in Request : Drives(t, q)' => ~ Queued(q)' /\ ~ Works(q)'
      BY <2>1, <2>4, <2>6 DEF Drives, Driven, One
    <3>3. \A t, u \in Request : Drives(t, q)' /\ Drives(u, q)' => t = u
      BY <2>1 DEF Drives, Driven, One
    <3> QED
      BY <2>6, <3>1, <3>2, <3>3 DEF One
  <2>8. Undriven(q) => Undriven(q)'
    BY <2>1, <2>4, <2>6 DEF Undriven, Drives
  <2> QED
    BY <2>1, <2>7, <2>8 DEF Driven
<1>20. ASSUME Begin PROVE Driven(q)'
  <2>1. UNCHANGED <<queue, req>> /\ worker.do = "begin" /\ worker'.run = worker.run
    BY <1>20 DEF Begin, At, Needed, Set, R, Remaining, rows, disk, content, process, BulkTypeOK,
       ProcessTyped, WorkerRow
  <2>2. status'[q] = IF q = worker.run THEN IF op[q] = "download" THEN "packaging" ELSE "running"
                     ELSE status[q]
    BY <1>20 DEF Begin, At, Needed, Set, R, Remaining, rows, disk, content, process, BulkTypeOK,
       RowsTyped
  <2> QED
    BY <2>1, <2>2, DrivenKept DEF Drives, Works, Rest, Resting, Finished
<1>21. ASSUME Released PROVE Driven(q)'
  <2>1. Works(q)' => Works(q)
    BY <1>21 DEF Released, At, R, rows, disk, content, process, Works, Rest, Idle, BulkTypeOK,
       ProcessTyped, WorkerRow
  <2>2. UNCHANGED <<queue, status, req>>
    BY <1>21 DEF Released, At, R, rows, disk, content, process
  <2> QED
    BY <2>1, <2>2, DrivenKept DEF Drives
<1>22. ASSUME Clear PROVE Driven(q)'
  <2>1. Works(q)' => Works(q)
    BY <1>22 DEF Clear, At, Go, R, rows, disk, content, process, Works, Rest, Idle, BulkTypeOK,
       ProcessTyped, WorkerRow
  <2>2. UNCHANGED <<queue, status, req>>
    BY <1>22 DEF Clear, At, Go, R, rows, disk, content, process
  <2> QED
    BY <2>1, <2>2, DrivenKept DEF Drives
<1>23. ASSUME NEW x \in Member, Pack(x) PROVE Driven(q)'
  <2>1. Works(q)' => Works(q)
    BY <1>23 DEF Pack, At, R, rows, disk, content, process, Works, Rest, Idle, BulkTypeOK,
       ProcessTyped, WorkerRow
  <2>2. UNCHANGED <<queue, status, req>>
    BY <1>23 DEF Pack, At, R, rows, disk, content, process
  <2> QED
    BY <2>1, <2>2, DrivenKept DEF Drives
<1>24. ASSUME Look PROVE Driven(q)'
  <2>1. Works(q)' => Works(q)
    BY <1>24 DEF Look, At, Go, R, rows, disk, content, process, Works, Rest, Idle, BulkTypeOK,
       ProcessTyped, WorkerRow
  <2>2. UNCHANGED <<queue, status, req>>
    BY <1>24 DEF Look, At, Go, R, rows, disk, content, process
  <2> QED
    BY <2>1, <2>2, DrivenKept DEF Drives
<1>25. ASSUME Replace PROVE Driven(q)'
  <2>1. Works(q)' => Works(q)
    BY <1>25 DEF Replace, At, Go, R, rows, disk, content, process, Works, Rest, Idle, BulkTypeOK,
       ProcessTyped, WorkerRow
  <2>2. UNCHANGED <<queue, status, req>>
    BY <1>25 DEF Replace, At, Go, R, rows, disk, content, process
  <2> QED
    BY <2>1, <2>2, DrivenKept DEF Drives
<1>26. ASSUME Ready PROVE Driven(q)'
  <2>1. Works(worker.run) /\ ~ Works(q)' /\ UNCHANGED <<queue, req>>
    BY <1>26 DEF Ready, At, Release, Quit, Set, Needed, R, rows, disk, content, process, Works, Rest, Idle
  <2>2. CASE q = worker.run
    <3>1. ~ Queued(q) /\ \A t \in Request : ~ Drives(t, q)
      BY <2>1, <2>2 DEF Driven, One
    <3>2. Undriven(q)'
      BY <2>1, <3>1 DEF Undriven, Queued, Drives
    <3> QED
      BY <3>2, UndrivenNext
  <2>3. CASE q # worker.run
    <3>1. status'[q] = status[q]
      BY <1>26, <2>3 DEF Ready, At, Release, Quit, Set, Needed, R, rows, disk, content, process,
         BulkTypeOK,
         RowsTyped
    <3> QED
      BY <2>1, <3>1, DrivenKept DEF Drives
  <2> QED
    BY <2>2, <2>3
<1>27. ASSUME PackFails PROVE Driven(q)'
  <2>1. worker'.run = worker.run /\ worker.do \notin Rest
    BY <1>27 DEF PackFails, Quit, At, R, Idle, Rest
  <2>2. UNCHANGED <<queue, status, req>>
    BY <1>27 DEF PackFails, process
  <2> QED
    BY <2>1, <2>2, DrivenKept DEF Drives, Works
<1>28. ASSUME Stop PROVE Driven(q)'
  <2>1. Works(q)' => Works(q)
    BY <1>28 DEF Stop, At, Go, R, rows, disk, content, process, Works, Rest, Idle, BulkTypeOK,
       ProcessTyped, WorkerRow
  <2>2. UNCHANGED <<queue, status, req>>
    BY <1>28 DEF Stop, At, Go, R, rows, disk, content, process
  <2> QED
    BY <2>1, <2>2, DrivenKept DEF Drives
<1>29. ASSUME NEW x \in Member, DeleteDirectory(x) PROVE Driven(q)'
  <2>1. Works(q)' => Works(q)
    BY <1>29 DEF DeleteDirectory, At, R, rows, disk, content, process, Works, Rest, Idle,
       BulkTypeOK,
       ProcessTyped, WorkerRow
  <2>2. UNCHANGED <<queue, status, req>>
    BY <1>29 DEF DeleteDirectory, At, R, rows, disk, content, process
  <2> QED
    BY <2>1, <2>2, DrivenKept DEF Drives
<1>30. ASSUME Clean PROVE Driven(q)'
  <2>1. Works(q)' => Works(q)
    BY <1>30 DEF Clean, At, Go, rows, disk, content, process, Works, Rest, Idle, BulkTypeOK,
       ProcessTyped, WorkerRow
  <2>2. UNCHANGED <<queue, status, req>>
    BY <1>30 DEF Clean, At, Go, rows, disk, content, process
  <2> QED
    BY <2>1, <2>2, DrivenKept DEF Drives
<1>31. ASSUME NEW x \in Member, Found(x) PROVE Driven(q)'
  <2>1. Works(q)' => Works(q)
    BY <1>31 DEF Found, At, R, rows, disk, content, process, Works, Rest, Idle, BulkTypeOK,
       ProcessTyped, WorkerRow
  <2>2. UNCHANGED <<queue, status, req>>
    BY <1>31 DEF Found, At, R, rows, disk, content, process
  <2> QED
    BY <2>1, <2>2, DrivenKept DEF Drives
<1>32. ASSUME Report PROVE Driven(q)'
  <2>1. Works(q)' => Works(q)
    BY <1>32 DEF Report, At, Settle, Outcome, R, rows, disk, content, process, Works, Rest, Idle,
       BulkTypeOK, ProcessTyped, WorkerRow
  <2>2. UNCHANGED <<queue, status, req>>
    BY <1>32 DEF Report, At, Settle, Outcome, R, rows, disk, content, process
  <2> QED
    BY <2>1, <2>2, DrivenKept DEF Drives
<1>33. ASSUME NEW x \in Member, DeleteFails(x) PROVE Driven(q)'
  <2>1. Works(q)' => Works(q)
    BY <1>33 DEF DeleteFails, At, Settle, R, rows, disk, content, process, Works, Rest, Idle,
       BulkTypeOK, ProcessTyped, WorkerRow
  <2>2. UNCHANGED <<queue, status, req>>
    BY <1>33 DEF DeleteFails, At, Settle, R, rows, disk, content, process
  <2> QED
    BY <2>1, <2>2, DrivenKept DEF Drives
<1>34. ASSUME TotalUp PROVE Driven(q)'
  <2>1. worker'.run = worker.run /\ worker.do \notin Rest
    BY <1>34 DEF TotalUp, Quit, At, R, Idle, Rest
  <2>2. UNCHANGED <<queue, status, req>>
    BY <1>34 DEF TotalUp, process
  <2> QED
    BY <2>1, <2>2, DrivenKept DEF Drives, Works
<1>35. ASSUME DeleteBreaks PROVE Driven(q)'
  <2>1. worker'.run = worker.run /\ worker.do \notin Rest
    BY <1>35 DEF DeleteBreaks, Quit, At, R, Idle, Rest
  <2>2. UNCHANGED <<queue, status, req>>
    BY <1>35 DEF DeleteBreaks, process
  <2> QED
    BY <2>1, <2>2, DrivenKept DEF Drives, Works
<1>36. ASSUME Crash PROVE Driven(q)'
  <2>1. Undriven(q)'
    BY <1>36 DEF Crash, rows, disk, content, process, Undriven, Queued, Works, Drives, Starting, Verdict,
       Rest, Idle
  <2> QED
    BY <2>1, UndrivenNext
<1>37. ASSUME Boot PROVE Driven(q)'
  <2> DEFINE Again == {r \in Run : Requeued(r)}
  <2>1. PICK p \in [1 .. Cardinality(Again) -> Again] :
          (\A i, k \in DOMAIN p : p[i] = p[k] => i = k) /\ queue' = p
    BY <1>37 DEF Boot
  <2>2. /\ req' = req /\ worker' = worker
        /\ worker.do = "idle" /\ \A t \in Request : req[t].do = "idle"
    BY <1>37 DEF Boot, rows, disk, content, process, Halted, Idle
  <2>3. ~ Works(q)' /\ \A t \in Request : ~ Drives(t, q)'
    BY <2>2 DEF Works, Drives, Rest, Starting, Verdict
  <2>4. Queued(q)' => Requeued(q)
    BY <2>1 DEF Queued
  <2>5. Requeued(q) => status'[q] = "queued"
    BY <1>37 DEF Boot, Requeued
  <2>6. One(q)'
    BY <2>1, <2>3 DEF One
  <2> QED
    BY <2>3, <2>4, <2>5, <2>6 DEF Driven, Undriven, Resting, Finished
<1>38. ASSUME NEW t \in Request, Finalized(t) PROVE Driven(q)'
  <2>1. UNCHANGED <<queue, worker>> /\ req[t].run \in Run /\ req[t].do \in Verdict
    BY <1>38 DEF Finalized, process, Verdict, AllNamed, ReqNamed
  <2>2. req'[t].do = "idle" /\ \A u \in Request \ {t} : req'[u] = req[u]
    BY <1>38 DEF Finalized, Answer, Idle, BulkTypeOK, ProcessTyped
  <2>3. \A u \in Request : Drives(u, q)' => Drives(u, q) /\ u # t
    BY <2>2 DEF Drives, Starting, Verdict
  <2>4. CASE q = req[t].run
    <3>1. Drives(t, q)
      BY <2>1, <2>4 DEF Drives, Starting, Verdict
    <3>2. ~ Queued(q) /\ ~ Works(q) /\ \A u \in Request \ {t} : ~ Drives(u, q)
      BY <3>1 DEF Driven, One
    <3>3. Undriven(q)'
      BY <2>1, <2>3, <3>2 DEF Undriven, Queued, Works
    <3> QED
      BY <3>3, UndrivenNext
  <2>5. CASE q # req[t].run
    <3>1. status'[q] = status[q]
      BY <1>38, <2>5 DEF Finalized, Set, BulkTypeOK, RowsTyped
    <3> QED
      BY <2>1, <2>3, <3>1, DrivenKept DEF Works
  <2> QED
    BY <2>4, <2>5
<1>39. ASSUME End PROVE Driven(q)'
  <2>1. Works(worker.run) /\ ~ Works(q)' /\ UNCHANGED <<queue, req>>
    BY <1>39 DEF End, Release, Quit, R, process, Works, Verdict, Rest, Idle
  <2>2. CASE q = worker.run
    <3>1. ~ Queued(q) /\ \A t \in Request : ~ Drives(t, q)
      BY <2>1, <2>2 DEF Driven, One
    <3>2. Undriven(q)'
      BY <2>1, <3>1 DEF Undriven, Queued, Drives
    <3> QED
      BY <3>2, UndrivenNext
  <2>3. CASE q # worker.run
    <3>1. status'[q] = status[q]
      BY <1>39, <2>3 DEF End, Set, R, BulkTypeOK, RowsTyped
    <3> QED
      BY <2>1, <3>1, DrivenKept DEF Drives
  <2> QED
    BY <2>2, <2>3
<1> QED
  BY <1>1, <1>2, <1>3, <1>4, <1>5, <1>6, <1>7, <1>8, <1>9, <1>10, <1>11, <1>12, <1>13, <1>14,
     <1>15, <1>16, <1>17, <1>18, <1>19, <1>20, <1>21, <1>22, <1>23, <1>24, <1>25, <1>26, <1>27,
     <1>28, <1>29, <1>30, <1>31, <1>32, <1>33, <1>34, <1>35, <1>36, <1>37, <1>38, <1>39 DEF BulkNext, Requests,
     Work

(* A member that is settled is no longer selected. *)
LEMMA SettleSelected ==
  ASSUME BulkTypeOK, NEW q \in Run, NEW p \in Run, NEW x \in Member, NEW a, Settle(p, x, a),
         SelectedAt(q), status' = status, q = p => status[q] \notin Resting
  PROVE  SelectedAt(q)'
<1>1. CASE q = p
  <2>1. /\ picked'[q] = picked[q] \ {x}
        /\ \A y \in Member \ {x} : result'[q][y] = result[q][y]
    BY <1>1 DEF Settle, BulkTypeOK, RowsTyped
  <2>2. picked[q] \subseteq Member
    BY DEF BulkTypeOK, RowsTyped
  <2> QED
    BY <1>1, <2>1, <2>2 DEF SelectedAt, Resting
<1>2. CASE q # p
  <2>1. picked'[q] = picked[q] /\ result'[q] = result[q]
    BY <1>2 DEF Settle, BulkTypeOK, RowsTyped
  <2> QED
    BY <2>1 DEF SelectedAt
<1> QED
  BY <1>1, <1>2

(* What is selected is still to do, and nothing is done before the start. *)
LEMMA SelectedStep ==
  ASSUME BulkTypeOK, BulkTypeOK', AllNamed, Deeds, NEW q \in Run, Driven(q), SelectedAt(q),
         q \notin stale', BulkNext
  PROVE  SelectedAt(q)'
<1>1. CASE \/ \E t \in Request, r \in Run : AskSelect(t, r)
           \/ \E t \in Request, r \in Run : AskStart(t, r)
           \/ \E t \in Request, r \in Run : AskCancel(t, r)
           \/ \E t \in Request, r \in Run : AskExpired(t, r)
           \/ \E r \in Run : Lapse(r)
           \/ \E x \in Member : Elsewhere(x)
           \/ \E t \in Request : Enqueue(t)
           \/ \E t \in Request : Unlink(t)
           \/ \E t \in Request : Rows(t)
           \/ \E t \in Request, x \in Member : Publish(t, x)
           \/ \E t \in Request : Finalize(t)
           \/ PackFails
           \/ TotalUp
           \/ DeleteBreaks
           \/ Take
           \/ Released
           \/ Clear
           \/ \E x \in Member : Pack(x)
           \/ Look
           \/ Replace
           \/ Stop
           \/ \E x \in Member : DeleteDirectory(x)
           \/ Clean
           \/ \E x \in Member : Found(x)
           \/ Crash
  <2>1. UNCHANGED <<picked, result, status>>
    BY <1>1 DEF AskSelect, Checked, rows, disk, content, process, AskStart, AskCancel, AskExpired,
       Lapse, Elsewhere, Enqueue, Doing, Answer, Unlink, Rows, Remaining, Publish, Take, At,
       Released, R, Clear, Go, Pack, Look, Replace, Stop, DeleteDirectory, Clean, Found, Crash,
       Finalize, PackFails, TotalUp, DeleteBreaks
  <2> QED
    BY <2>1 DEF SelectedAt
<1>2. ASSUME NEW r \in Run, NEW o \in Operations, NEW S \in SUBSET Member, Preflight(r, o, S)
      PROVE  SelectedAt(q)'
  <2>1. UNCHANGED result /\ (q = r => status[q] = "absent")
    BY <1>2 DEF Preflight, Set, rows, disk, content, process
  <2>2. q # r => picked'[q] = picked[q] /\ status'[q] = status[q]
    BY <1>2 DEF Preflight, Set, rows, disk, content, process, BulkTypeOK, RowsTyped
  <2>3. picked' \in [Run -> SUBSET Member]
    BY DEF BulkTypeOK, RowsTyped
  <2> QED
    BY <2>1, <2>2, <2>3 DEF SelectedAt
<1>3. ASSUME NEW t \in Request, NEW S \in SUBSET Member, Select(t, S) PROVE SelectedAt(q)'
  <2>1. UNCHANGED <<result, status>> /\ req[t].run \in Run
    BY <1>3 DEF Select, Doing, Answer, Needed, rows, disk, content, process, AllNamed, ReqNamed,
       QueueNamed, WorkerNamed, RowsNamed
  <2>2. /\ q = req[t].run => status[q] = "awaiting"
        /\ q # req[t].run => picked'[q] = picked[q]
    BY <1>3 DEF Select, Doing, Answer, Needed, rows, disk, content, process, BulkTypeOK, RowsTyped
  <2>3. picked' \in [Run -> SUBSET Member]
    BY DEF BulkTypeOK, RowsTyped
  <2> QED
    BY <2>1, <2>2, <2>3 DEF SelectedAt
<1>4. ASSUME NEW t \in Request, Start(t) PROVE SelectedAt(q)'
  <2>1. UNCHANGED <<picked, result>>
    BY <1>4 DEF Start, Doing, Set, Needed, rows, disk, content, process
  <2>2. status'[q] \in {"absent", "awaiting"} => status[q] = status'[q]
    BY <1>4 DEF Start, Doing, Set, Needed, rows, disk, content, process, AllNamed, ReqNamed,
       QueueNamed, WorkerNamed, RowsNamed, BulkTypeOK, RowsTyped
  <2> QED
    BY <2>1, <2>2 DEF SelectedAt
<1>5. ASSUME NEW t \in Request, Cancel(t) PROVE SelectedAt(q)'
  <2>1. UNCHANGED <<picked, result>>
    BY <1>5 DEF Cancel, Doing, Answer, Set, rows, disk, content, process
  <2>2. status'[q] \in {"absent", "awaiting"} => status[q] = status'[q]
    BY <1>5 DEF Cancel, Doing, Answer, Set, rows, disk, content, process, AllNamed, ReqNamed,
       QueueNamed, WorkerNamed, RowsNamed, BulkTypeOK, RowsTyped
  <2> QED
    BY <2>1, <2>2 DEF SelectedAt
<1>6. ASSUME NEW t \in Request, Expire(t) PROVE SelectedAt(q)'
  <2>1. UNCHANGED <<picked, result>>
    BY <1>6 DEF Expire, Doing, Answer, Set, Needed, rows, disk, content, process
  <2>2. status'[q] \in {"absent", "awaiting"} => status[q] = status'[q]
    BY <1>6 DEF Expire, Doing, Answer, Set, Needed, rows, disk, content, process, AllNamed,
       ReqNamed,
       QueueNamed, WorkerNamed, RowsNamed, BulkTypeOK, RowsTyped
  <2> QED
    BY <2>1, <2>2 DEF SelectedAt
<1>7. ASSUME NEW t \in Request, Mark(t) PROVE SelectedAt(q)'
  <2>1. Drives(t, req[t].run) /\ req[t].run \in Run
    BY <1>7 DEF Mark, Doing, Settle, rows, disk, content, process, Drives, Starting, AllNamed,
       ReqNamed, QueueNamed, WorkerNamed, RowsNamed
  <2>2. q = req[t].run => status[q] \notin Resting
    BY <2>1 DEF Driven, Undriven
  <2>3. status' = status /\ req[t].at \in Member
    BY <1>7 DEF Mark, Doing, Settle, rows, disk, content, process, AllNamed, ReqNamed, QueueNamed,
       WorkerNamed, RowsNamed, BulkTypeOK, RowsTyped
  <2>4. PICK a : Settle(req[t].run, req[t].at, a)
    BY <1>7 DEF Mark
  <2> QED
    BY <2>1, <2>2, <2>3, <2>4, SettleSelected
<1>8. ASSUME NEW t \in Request, NEW x \in Member, Refuse(t, x) PROVE SelectedAt(q)'
  <2>1. Drives(t, req[t].run) /\ req[t].run \in Run
    BY <1>8 DEF Refuse, Doing, Settle, rows, disk, content, process, Drives, Starting, AllNamed,
       ReqNamed, QueueNamed, WorkerNamed, RowsNamed
  <2>2. q = req[t].run => status[q] \notin Resting
    BY <2>1 DEF Driven, Undriven
  <2>3. status' = status /\ x \in Member
    BY <1>8 DEF Refuse, Doing, Settle, rows, disk, content, process, AllNamed, ReqNamed, QueueNamed,
       WorkerNamed, RowsNamed, BulkTypeOK, RowsTyped
  <2>4. PICK a : Settle(req[t].run, x, a)
    BY <1>8 DEF Refuse
  <2> QED
    BY <2>1, <2>2, <2>3, <2>4, SettleSelected
<1>9. ASSUME Begin PROVE SelectedAt(q)'
  <2>1. UNCHANGED <<picked, result>>
    BY <1>9 DEF Begin, At, Needed, Set, R, Remaining, rows, disk, content, process
  <2>2. status'[q] \in {"absent", "awaiting"} => status[q] = status'[q]
    BY <1>9 DEF Begin, At, Needed, Set, R, Remaining, rows, disk, content, process, BulkTypeOK,
       RowsTyped
  <2> QED
    BY <2>1, <2>2 DEF SelectedAt
<1>10. ASSUME Ready PROVE SelectedAt(q)'
  <2>1. UNCHANGED <<picked, result>>
    BY <1>10 DEF Ready, At, Release, Quit, Set, Needed, R, rows, disk, content, process
  <2>2. status'[q] \in {"absent", "awaiting"} => status[q] = status'[q]
    BY <1>10 DEF Ready, At, Release, Quit, Set, Needed, R, rows, disk, content, process, BulkTypeOK,
       RowsTyped
  <2> QED
    BY <2>1, <2>2 DEF SelectedAt
<1>11. ASSUME Report PROVE SelectedAt(q)'
  <2>1. Works(worker.run) /\ worker.run \in Run
    BY <1>11 DEF Report, At, Settle, Outcome, R, rows, disk, content, process, Works, Rest,
       AllNamed,
       ReqNamed, QueueNamed, WorkerNamed, RowsNamed, BulkTypeOK, ProcessTyped
  <2>2. q = worker.run => status[q] \notin Resting
    BY <2>1 DEF Driven, Undriven
  <2>3. status' = status /\ worker.at \in Member
    BY <1>11 DEF Report, At, Settle, Outcome, R, rows, disk, content, process, Deeds, BulkTypeOK,
       ProcessTyped, WorkerRow
  <2>4. PICK a : Settle(worker.run, worker.at, a)
    BY <1>11 DEF Report, R
  <2> QED
    BY <2>1, <2>2, <2>3, <2>4, SettleSelected
<1>12. ASSUME NEW x \in Member, DeleteFails(x) PROVE SelectedAt(q)'
  <2>1. Works(worker.run) /\ worker.run \in Run
    BY <1>12 DEF DeleteFails, At, Settle, R, rows, disk, content, process, Works, Rest, AllNamed,
       ReqNamed, QueueNamed, WorkerNamed, RowsNamed, BulkTypeOK, ProcessTyped
  <2>2. q = worker.run => status[q] \notin Resting
    BY <2>1 DEF Driven, Undriven
  <2>3. status' = status /\ x \in Member
    BY <1>12 DEF DeleteFails, At, Settle, R, rows, disk, content, process, Deeds, BulkTypeOK,
       ProcessTyped, WorkerRow
  <2>4. PICK a : Settle(worker.run, x, a)
    BY <1>12 DEF DeleteFails, R
  <2> QED
    BY <2>1, <2>2, <2>3, <2>4, SettleSelected
<1>13. ASSUME Boot PROVE SelectedAt(q)'
  <2>1. UNCHANGED <<picked, result>>
    BY <1>13 DEF Boot, rows, disk, content, process
  <2>2. status'[q] \in {"absent", "awaiting"} => status[q] = status'[q]
    BY <1>13 DEF Boot, rows, disk, content, process, BulkTypeOK, RowsTyped
  <2> QED
    BY <2>1, <2>2 DEF SelectedAt
<1>14. ASSUME NEW t \in Request, Finalized(t) PROVE SelectedAt(q)'
  <2>1. UNCHANGED <<picked, result>>
    BY <1>14 DEF Finalized, rows
  <2>2. status'[q] \in {"absent", "awaiting"} => status[q] = status'[q]
    BY <1>14 DEF Finalized, Set, Verdict, BulkTypeOK, RowsTyped
  <2> QED
    BY <2>1, <2>2 DEF SelectedAt
<1>15. ASSUME End PROVE SelectedAt(q)'
  <2>1. UNCHANGED <<picked, result>>
    BY <1>15 DEF End, rows
  <2>2. status'[q] \in {"absent", "awaiting"} => status[q] = status'[q]
    BY <1>15 DEF End, Set, R, Verdict, BulkTypeOK, RowsTyped
  <2> QED
    BY <2>1, <2>2 DEF SelectedAt
<1> QED
  BY <1>1, <1>2, <1>3, <1>4, <1>5, <1>6, <1>7, <1>8, <1>9, <1>10, <1>11, <1>12, <1>13, <1>14, <1>15 DEF BulkNext, Requests, Work

-----------------------------------------------------------------------------
(* What a step does to a run that has ended: its archive may expire, and be
   removed once it has. *)
Left(q) ==
  /\ status'[q] = status[q] \/ (status[q] = "ready" /\ status'[q] = "expired")
  /\ q \in late => q \in late'
  /\ q \in file => q \in file' \/ q \in late
  /\ picked'[q] = picked[q] /\ result'[q] = result[q] /\ packed'[q] = packed[q]

(* A run that has ended is left alone. *)
LEMMA EndedStep ==
  ASSUME BulkTypeOK, AllNamed, Removing, NEW q \in Run, Driven(q), status[q] \in Finished,
         q \notin stale, q \notin stale', BulkNext
  PROVE  Left(q)
<1>1. CASE \/ \E t \in Request, r \in Run : AskSelect(t, r)
           \/ \E t \in Request, r \in Run : AskStart(t, r)
           \/ \E t \in Request, r \in Run : AskCancel(t, r)
           \/ \E t \in Request, r \in Run : AskExpired(t, r)
           \/ \E r \in Run : Lapse(r)
           \/ \E x \in Member : Elsewhere(x)
           \/ \E t \in Request : Enqueue(t)
           \/ \E t \in Request : Rows(t)
           \/ \E t \in Request, x \in Member : Publish(t, x)
           \/ \E t \in Request : Finalize(t)
           \/ PackFails
           \/ TotalUp
           \/ DeleteBreaks
           \/ Take
           \/ Released
           \/ Look
           \/ Replace
           \/ Stop
           \/ \E x \in Member : DeleteDirectory(x)
           \/ Clean
           \/ \E x \in Member : Found(x)
           \/ Crash
  <2>1. UNCHANGED <<picked, result, packed, status>> /\ late \subseteq late' /\ file \subseteq file'
    BY <1>1 DEF AskSelect, Checked, rows, disk, content, process, AskStart, AskCancel, AskExpired,
       Lapse, Elsewhere, Enqueue, Doing, Answer, Rows, Remaining, Publish, Take, At, Released, R,
       Look, Go, Replace, Stop, DeleteDirectory, Clean, Found, Crash,
       Finalize, PackFails, TotalUp, DeleteBreaks
  <2> QED
    BY <2>1 DEF Left
<1>2. ASSUME NEW r \in Run, NEW o \in Operations, NEW S \in SUBSET Member, Preflight(r, o, S)
      PROVE  Left(q)
  <2>1. q # r
    BY <1>2 DEF Preflight, Finished
  <2> QED
    BY <1>2, <2>1 DEF Preflight, Set, rows, disk, content, process, Left, BulkTypeOK, RowsTyped
<1>3. ASSUME NEW t \in Request, NEW S \in SUBSET Member, Select(t, S) PROVE Left(q)
  <2>1. req[t].run \in Run
    BY <1>3 DEF Select, Doing, Answer, Needed, rows, disk, content, process, AllNamed, ReqNamed,
       QueueNamed, WorkerNamed, RowsNamed
  <2>2. q = req[t].run => FALSE
    BY <1>3 DEF Select, Doing, Answer, Needed, rows, disk, content, process, Finished, Removing
  <2> QED
    BY <1>3, <2>1, <2>2 DEF Select, Doing, Answer, Needed, rows, disk, content, process, Left,
       BulkTypeOK, RowsTyped
<1>4. ASSUME NEW t \in Request, Start(t) PROVE Left(q)
  <2>1. req[t].run \in Run
    BY <1>4 DEF Start, Doing, Set, Needed, rows, disk, content, process, AllNamed, ReqNamed,
       QueueNamed, WorkerNamed, RowsNamed
  <2>2. q = req[t].run => FALSE
    BY <1>4 DEF Start, Doing, Set, Needed, rows, disk, content, process, Finished, Removing
  <2> QED
    BY <1>4, <2>1, <2>2 DEF Start, Doing, Set, Needed, rows, disk, content, process, Left,
       BulkTypeOK,
       RowsTyped
<1>5. ASSUME NEW t \in Request, Cancel(t) PROVE Left(q)
  <2>1. req[t].run \in Run
    BY <1>5 DEF Cancel, Doing, Answer, Set, rows, disk, content, process, AllNamed, ReqNamed,
       QueueNamed, WorkerNamed, RowsNamed
  <2>2. q = req[t].run => FALSE
    BY <1>5 DEF Cancel, Doing, Answer, Set, rows, disk, content, process, Finished, Removing
  <2> QED
    BY <1>5, <2>1, <2>2 DEF Cancel, Doing, Answer, Set, rows, disk, content, process, Left,
       BulkTypeOK, RowsTyped
<1>6. ASSUME NEW t \in Request, Unlink(t) PROVE Left(q)
  <2>1. req[t].run \in Run
    BY <1>6 DEF Unlink, Doing, rows, disk, content, process, AllNamed, ReqNamed, QueueNamed,
       WorkerNamed, RowsNamed
  <2>2. q = req[t].run => q \in late
    BY <1>6 DEF Unlink, Doing, rows, disk, content, process, Finished, Removing
  <2> QED
    BY <1>6, <2>1, <2>2 DEF Unlink, Doing, rows, disk, content, process, Left, BulkTypeOK, RowsTyped
<1>7. ASSUME NEW t \in Request, Expire(t) PROVE Left(q)
  <2>1. req[t].run \in Run
    BY <1>7 DEF Expire, Doing, Answer, Set, Needed, rows, disk, content, process, AllNamed,
       ReqNamed,
       QueueNamed, WorkerNamed, RowsNamed
  <2>2. q = req[t].run => status[q] = "ready"
    BY <1>7 DEF Expire, Doing, Answer, Set, Needed, rows, disk, content, process, Finished, Removing
  <2> QED
    BY <1>7, <2>1, <2>2 DEF Expire, Doing, Answer, Set, Needed, rows, disk, content, process,
       Left, BulkTypeOK, RowsTyped
<1>8. ASSUME NEW t \in Request, Mark(t) PROVE Left(q)
  <2>1. Drives(t, req[t].run) /\ req[t].run \in Run
    BY <1>8 DEF Mark, Doing, Settle, rows, disk, content, process, Drives, Starting, AllNamed,
       ReqNamed, QueueNamed, WorkerNamed, RowsNamed
  <2>2. q # req[t].run
    BY <2>1 DEF Driven, Undriven, Resting
  <2> QED
    BY <1>8, <2>1, <2>2 DEF Mark, Doing, Settle, rows, disk, content, process, Left, BulkTypeOK,
       RowsTyped
<1>9. ASSUME NEW t \in Request, NEW x \in Member, Refuse(t, x) PROVE Left(q)
  <2>1. Drives(t, req[t].run) /\ req[t].run \in Run
    BY <1>9 DEF Refuse, Doing, Settle, rows, disk, content, process, Drives, Starting, AllNamed,
       ReqNamed, QueueNamed, WorkerNamed, RowsNamed
  <2>2. q # req[t].run
    BY <2>1 DEF Driven, Undriven, Resting
  <2> QED
    BY <1>9, <2>1, <2>2 DEF Refuse, Doing, Settle, rows, disk, content, process, Left, BulkTypeOK,
       RowsTyped
<1>10. ASSUME Begin PROVE Left(q)
  <2>1. Works(worker.run)
    BY <1>10 DEF Begin, At, Needed, Set, R, Remaining, rows, disk, content, process, Works, Rest
  <2>2. q # worker.run
    BY <2>1 DEF Driven, Undriven, Resting
  <2> QED
    BY <1>10, <2>2 DEF Begin, At, Needed, Set, R, Remaining, rows, disk, content, process, Left,
       BulkTypeOK, RowsTyped
<1>11. ASSUME Clear PROVE Left(q)
  <2>1. Works(worker.run)
    BY <1>11 DEF Clear, At, Go, R, rows, disk, content, process, Works, Rest
  <2>2. q # worker.run
    BY <2>1 DEF Driven, Undriven, Resting
  <2> QED
    BY <1>11, <2>2 DEF Clear, At, Go, R, rows, disk, content, process, Left, BulkTypeOK, RowsTyped
<1>12. ASSUME NEW x \in Member, Pack(x) PROVE Left(q)
  <2>1. Works(worker.run)
    BY <1>12 DEF Pack, At, R, rows, disk, content, process, Works, Rest
  <2>2. q # worker.run
    BY <2>1 DEF Driven, Undriven, Resting
  <2> QED
    BY <1>12, <2>2 DEF Pack, At, R, rows, disk, content, process, Left, BulkTypeOK, RowsTyped
<1>13. ASSUME Ready PROVE Left(q)
  <2>1. Works(worker.run)
    BY <1>13 DEF Ready, At, Release, Quit, Set, Needed, R, rows, disk, content, process, Works, Rest
  <2>2. q # worker.run
    BY <2>1 DEF Driven, Undriven, Resting
  <2> QED
    BY <1>13, <2>2 DEF Ready, At, Release, Quit, Set, Needed, R, rows, disk, content, process, Left,
       BulkTypeOK, RowsTyped
<1>14. ASSUME Report PROVE Left(q)
  <2>1. Works(worker.run)
    BY <1>14 DEF Report, At, Settle, Outcome, R, rows, disk, content, process, Works, Rest
  <2>2. q # worker.run
    BY <2>1 DEF Driven, Undriven, Resting
  <2> QED
    BY <1>14, <2>2 DEF Report, At, Settle, Outcome, R, rows, disk, content, process, Left,
       BulkTypeOK,
       RowsTyped
<1>15. ASSUME NEW x \in Member, DeleteFails(x) PROVE Left(q)
  <2>1. Works(worker.run)
    BY <1>15 DEF DeleteFails, At, Settle, R, rows, disk, content, process, Works, Rest
  <2>2. q # worker.run
    BY <2>1 DEF Driven, Undriven, Resting
  <2> QED
    BY <1>15, <2>2 DEF DeleteFails, At, Settle, R, rows, disk, content, process, Left, BulkTypeOK,
       RowsTyped
<1>16. ASSUME Boot PROVE Left(q)
  <2>1. ~ Requeued(q)
    BY DEF Requeued, Finished
  <2>2. status'[q] = IF status[q] = "ready" /\ q \in late THEN "expired" ELSE status[q]
    BY <1>16, <2>1 DEF Boot
  <2>3. q \in file => q \in file' \/ q \in late
    BY <1>16 DEF Boot
  <2>4. UNCHANGED <<picked, result, packed, late>>
    BY <1>16 DEF Boot, rows, disk, content, process
  <2> QED
    BY <2>2, <2>3, <2>4 DEF Left
<1>17. ASSUME NEW t \in Request, Finalized(t) PROVE Left(q)
  <2>1. Drives(t, req[t].run) /\ req[t].run \in Run
    BY <1>17 DEF Finalized, Drives, Starting, Verdict, AllNamed, ReqNamed
  <2>2. q # req[t].run
    BY <2>1 DEF Driven, Undriven, Resting
  <2> QED
    BY <1>17, <2>2 DEF Finalized, Set, rows, disk, Left, BulkTypeOK, RowsTyped
<1>18. ASSUME End PROVE Left(q)
  <2>1. Works(worker.run)
    BY <1>18 DEF End, Works, Verdict, Rest
  <2>2. q # worker.run
    BY <2>1 DEF Driven, Undriven, Resting
  <2> QED
    BY <1>18, <2>2 DEF End, Set, R, rows, disk, Left, BulkTypeOK, RowsTyped
<1> QED
  BY <1>1, <1>2, <1>3, <1>4, <1>5, <1>6, <1>7, <1>8, <1>9, <1>10, <1>11, <1>12, <1>13, <1>14, <1>15, <1>16, <1>17, <1>18 DEF BulkNext, Requests, Work

(* A thread that removes an archive found its time passed, and goes on. *)
ToRemove(t) == req[t].do \in {"unlink", "expire"}
Removes(t) ==
  ToRemove(t)' =>
    \/ ToRemove(t) /\ req'[t].run = req[t].run
    \/ /\ req'[t].run \in Run /\ status[req'[t].run] = "ready" /\ req'[t].run \in late
       /\ UNCHANGED <<status, late>>

(* What may happen to a request that is about to remove an archive. *)
LEMMA RemovesStep ==
  ASSUME BulkTypeOK, NEW v \in Request, BulkNext
  PROVE  Removes(v)
<1>1. CASE \/ \E r \in Run, o \in Operations, S \in SUBSET Member : Preflight(r, o, S)
           \/ \E r \in Run : Lapse(r)
           \/ \E x \in Member : Elsewhere(x)
           \/ Take
           \/ Begin
           \/ Released
           \/ Clear
           \/ \E x \in Member : Pack(x)
           \/ Look
           \/ Replace
           \/ Ready
           \/ PackFails
           \/ Stop
           \/ \E x \in Member : DeleteDirectory(x)
           \/ Clean
           \/ \E x \in Member : Found(x)
           \/ Report
           \/ \E x \in Member : DeleteFails(x)
           \/ TotalUp
           \/ DeleteBreaks
           \/ End
           \/ Boot
  <2>1. req' = req
    BY <1>1 DEF Preflight, Set, rows, disk, content, process, Lapse, Elsewhere, Take, At, Begin,
       Needed, R, Remaining, Released, Clear, Go, Pack, Look, Replace, Ready, Release, PackFails,
       Stop, DeleteDirectory, Clean, Found, Report, Settle, Outcome, DeleteFails, TotalUp, Total,
       DeleteBreaks, End, Quit, Boot
  <2> QED
    BY <2>1 DEF Removes, ToRemove
<1>2. ASSUME NEW t \in Request, NEW r \in Run, AskSelect(t, r) PROVE Removes(v)
  <2>1. /\ \A u \in Request \ {t} : req'[u] = req[u]
        /\ req'[t].run = r /\ req'[t].do \in Asking /\ UNCHANGED <<status, late>>
        /\ req'[t].do \in {"unlink", "expire"} => status[r] = "ready" /\ r \in late
    BY <1>2 DEF AskSelect, Checked, rows, disk, content, process, Asking, BulkTypeOK,
       ProcessTyped, ReqRow
  <2> QED
    BY <2>1 DEF Removes, ToRemove
<1>3. ASSUME NEW t \in Request, NEW r \in Run, AskStart(t, r) PROVE Removes(v)
  <2>1. /\ \A u \in Request \ {t} : req'[u] = req[u]
        /\ req'[t].run = r /\ req'[t].do \in Asking /\ UNCHANGED <<status, late>>
        /\ req'[t].do \in {"unlink", "expire"} => status[r] = "ready" /\ r \in late
    BY <1>3 DEF AskStart, Checked, rows, disk, content, process, Asking, BulkTypeOK, ProcessTyped,
       ReqRow
  <2> QED
    BY <2>1 DEF Removes, ToRemove
<1>4. ASSUME NEW t \in Request, NEW r \in Run, AskCancel(t, r) PROVE Removes(v)
  <2>1. /\ \A u \in Request \ {t} : req'[u] = req[u]
        /\ req'[t].run = r /\ req'[t].do \in Asking /\ UNCHANGED <<status, late>>
        /\ req'[t].do \in {"unlink", "expire"} => status[r] = "ready" /\ r \in late
    BY <1>4 DEF AskCancel, Checked, rows, disk, content, process, Asking, BulkTypeOK,
       ProcessTyped, ReqRow
  <2> QED
    BY <2>1 DEF Removes, ToRemove
<1>5. ASSUME NEW t \in Request, NEW r \in Run, AskExpired(t, r) PROVE Removes(v)
  <2>1. /\ \A u \in Request \ {t} : req'[u] = req[u]
        /\ req'[t].run = r /\ req'[t].do \in Asking /\ UNCHANGED <<status, late>>
        /\ req'[t].do \in {"unlink", "expire"} => status[r] = "ready" /\ r \in late
    BY <1>5 DEF AskExpired, Checked, rows, disk, content, process, Asking, BulkTypeOK,
       ProcessTyped, ReqRow
  <2> QED
    BY <2>1 DEF Removes, ToRemove
<1>6. ASSUME NEW t \in Request, NEW S \in SUBSET Member, Select(t, S) PROVE Removes(v)
  <2>1. /\ \A u \in Request \ {t} : req'[u] = req[u]
        /\ req'[t].do \in {"unlink", "expire"} => ToRemove(t) /\ req'[t].run = req[t].run
    BY <1>6 DEF Select, Doing, Answer, ToRemove, Idle, BulkTypeOK, ProcessTyped, ReqRow
  <2> QED
    BY <2>1 DEF Removes, ToRemove
<1>7. ASSUME NEW t \in Request, Start(t) PROVE Removes(v)
  <2>1. /\ \A u \in Request \ {t} : req'[u] = req[u]
        /\ req'[t].do \in {"unlink", "expire"} => ToRemove(t) /\ req'[t].run = req[t].run
    BY <1>7 DEF Start, Doing, ToRemove, Idle, BulkTypeOK, ProcessTyped, ReqRow
  <2> QED
    BY <2>1 DEF Removes, ToRemove
<1>8. ASSUME NEW t \in Request, Enqueue(t) PROVE Removes(v)
  <2>1. /\ \A u \in Request \ {t} : req'[u] = req[u]
        /\ req'[t].do \in {"unlink", "expire"} => ToRemove(t) /\ req'[t].run = req[t].run
    BY <1>8 DEF Enqueue, Doing, Answer, ToRemove, Idle, BulkTypeOK, ProcessTyped, ReqRow
  <2> QED
    BY <2>1 DEF Removes, ToRemove
<1>9. ASSUME NEW t \in Request, Cancel(t) PROVE Removes(v)
  <2>1. /\ \A u \in Request \ {t} : req'[u] = req[u]
        /\ req'[t].do \in {"unlink", "expire"} => ToRemove(t) /\ req'[t].run = req[t].run
    BY <1>9 DEF Cancel, Doing, Answer, ToRemove, Idle, BulkTypeOK, ProcessTyped, ReqRow
  <2> QED
    BY <2>1 DEF Removes, ToRemove
<1>10. ASSUME NEW t \in Request, Unlink(t) PROVE Removes(v)
  <2>1. /\ \A u \in Request \ {t} : req'[u] = req[u]
        /\ req'[t].do \in {"unlink", "expire"} => ToRemove(t) /\ req'[t].run = req[t].run
    BY <1>10 DEF Unlink, Doing, ToRemove, Idle, BulkTypeOK, ProcessTyped, ReqRow
  <2> QED
    BY <2>1 DEF Removes, ToRemove
<1>11. ASSUME NEW t \in Request, Expire(t) PROVE Removes(v)
  <2>1. /\ \A u \in Request \ {t} : req'[u] = req[u]
        /\ req'[t].do \in {"unlink", "expire"} => ToRemove(t) /\ req'[t].run = req[t].run
    BY <1>11 DEF Expire, Doing, Answer, ToRemove, Idle, BulkTypeOK, ProcessTyped, ReqRow
  <2> QED
    BY <2>1 DEF Removes, ToRemove
<1>12. ASSUME NEW t \in Request, Rows(t) PROVE Removes(v)
  <2>1. /\ \A u \in Request \ {t} : req'[u] = req[u]
        /\ req'[t].do \in {"unlink", "expire"} => ToRemove(t) /\ req'[t].run = req[t].run
    BY <1>12 DEF Rows, Doing, ToRemove, Idle, BulkTypeOK, ProcessTyped, ReqRow
  <2> QED
    BY <2>1 DEF Removes, ToRemove
<1>13. ASSUME NEW t \in Request, Mark(t) PROVE Removes(v)
  <2>1. /\ \A u \in Request \ {t} : req'[u] = req[u]
        /\ req'[t].do \in {"unlink", "expire"} => ToRemove(t) /\ req'[t].run = req[t].run
    BY <1>13 DEF Mark, Doing, ToRemove, Idle, BulkTypeOK, ProcessTyped, ReqRow
  <2> QED
    BY <2>1 DEF Removes, ToRemove
<1>14. ASSUME NEW t \in Request, Finalize(t) PROVE Removes(v)
  <2>1. /\ \A u \in Request \ {t} : req'[u] = req[u]
        /\ req'[t].do \in {"unlink", "expire"} => ToRemove(t) /\ req'[t].run = req[t].run
    BY <1>14 DEF Finalize, Doing, Answer, Total, ToRemove, Idle, BulkTypeOK, ProcessTyped, ReqRow
  <2> QED
    BY <2>1 DEF Removes, ToRemove
<1>15. ASSUME NEW t \in Request, NEW x \in Member, Publish(t, x) PROVE Removes(v)
  <2>1. /\ \A u \in Request \ {t} : req'[u] = req[u]
        /\ req'[t].do \in {"unlink", "expire"} => ToRemove(t) /\ req'[t].run = req[t].run
    BY <1>15 DEF Publish, Doing, ToRemove, Idle, BulkTypeOK, ProcessTyped, ReqRow
  <2> QED
    BY <2>1 DEF Removes, ToRemove
<1>16. ASSUME NEW t \in Request, NEW x \in Member, Refuse(t, x) PROVE Removes(v)
  <2>1. /\ \A u \in Request \ {t} : req'[u] = req[u]
        /\ req'[t].do \in {"unlink", "expire"} => ToRemove(t) /\ req'[t].run = req[t].run
    BY <1>16 DEF Refuse, Doing, ToRemove, Idle, BulkTypeOK, ProcessTyped, ReqRow
  <2> QED
    BY <2>1 DEF Removes, ToRemove
<1>17. ASSUME Crash PROVE Removes(v)
  <2>1. req'[v].do = "idle"
    BY <1>17 DEF Crash, Idle
  <2> QED
    BY <2>1 DEF Removes, ToRemove
<1>18. ASSUME NEW t \in Request, Finalized(t) PROVE Removes(v)
  <2>1. req'[t].do = "idle" /\ \A u \in Request \ {t} : req'[u] = req[u]
    BY <1>18 DEF Finalized, Answer, Idle, BulkTypeOK, ProcessTyped
  <2> QED
    BY <2>1 DEF Removes, ToRemove
<1> QED
  BY <1>1, <1>2, <1>3, <1>4, <1>5, <1>6, <1>7, <1>8, <1>9, <1>10, <1>11, <1>12, <1>13, <1>14,
     <1>15, <1>16, <1>17, <1>18 DEF BulkNext, Requests, Work

(* Only an archive whose time has passed is removed. *)
LEMMA RemovingStep ==
  ASSUME BulkTypeOK, BulkTypeOK', AllNamed, AllNamed', OneDriver, Removing, BulkNext
  PROVE  Removing'
<1> SUFFICES ASSUME NEW t \in Request, ToRemove(t)', req'[t].run \notin stale'
             PROVE  req'[t].run \in late' /\ status'[req'[t].run] \in {"ready", "expired"}
  BY DEF Removing, ToRemove
<1>1. Removes(t)
  BY RemovesStep
<1>2. PICK q \in Run : q = req'[t].run
  BY DEF AllNamed, ReqNamed, QueueNamed, WorkerNamed, RowsNamed, ToRemove
<1>3. q \notin stale
  BY <1>2, StaleGrows
<1>4. CASE ToRemove(t) /\ req'[t].run = req[t].run
  <2>1. q \in late /\ status[q] \in {"ready", "expired"}
    BY <1>2, <1>3, <1>4 DEF Removing, ToRemove
  <2>2. Left(q)
    BY <1>2, <1>3, <2>1, EndedStep DEF OneDriver, Finished
  <2> QED
    BY <1>2, <2>1, <2>2 DEF Left
<1> QED
  BY <1>1, <1>2, <1>4 DEF Removes

-----------------------------------------------------------------------------
(* What leaves the executor's archive and its rows alone keeps the packing. *)
LEMMA PackingKept ==
  ASSUME Packing, worker' = worker, stale \subseteq stale',
         worker.do \in Packs /\ worker.run \in Run \ stale' =>
           /\ packed'[worker.run] = packed[worker.run]
           /\ picked'[worker.run] = picked[worker.run]
           /\ worker.run \in file => worker.run \in file'
  PROVE  Packing'
  BY DEF Packing

(* The archive is at each step what the worker's position says. *)
LEMMA PackingStep ==
  ASSUME BulkTypeOK, BulkTypeOK', AllNamed, Halted, OneDriver, Packing, Removing, BulkNext
  PROVE  Packing'
<1>1. CASE \/ \E t \in Request, r \in Run : AskSelect(t, r)
           \/ \E t \in Request, r \in Run : AskStart(t, r)
           \/ \E t \in Request, r \in Run : AskCancel(t, r)
           \/ \E t \in Request, r \in Run : AskExpired(t, r)
           \/ \E r \in Run : Lapse(r)
           \/ \E x \in Member : Elsewhere(x)
           \/ \E t \in Request : Start(t)
           \/ \E t \in Request : Enqueue(t)
           \/ \E t \in Request : Cancel(t)
           \/ \E t \in Request : Expire(t)
           \/ \E t \in Request : Rows(t)
           \/ \E t \in Request, x \in Member : Publish(t, x)
           \/ \E t \in Request : Finalize(t)
           \/ \E t \in Request : Finalized(t)
  <2>1. UNCHANGED <<worker, packed, picked, file>>
    BY <1>1 DEF AskSelect, Checked, rows, disk, content, process, AskStart, AskCancel, AskExpired,
       Lapse, Elsewhere, Start, Doing, Set, Needed, Enqueue, Answer, Cancel, Expire, Rows,
       Remaining, Publish, Finalize, Finalized, Total
  <2> QED
    BY <2>1, StaleGrows, PackingKept
<1>2. ASSUME NEW r \in Run, NEW o \in Operations, NEW S \in SUBSET Member, Preflight(r, o, S)
      PROVE  Packing'
  <2>1. worker' = worker /\ packed' = packed
    BY <1>2 DEF Preflight, Set, rows, disk, content, process
  <2>2. ASSUME worker.do \in Packs, worker.run \in Run \ stale'
        PROVE  /\ picked'[worker.run] = picked[worker.run]
               /\ (worker.run \in file => worker.run \in file')
    <3>1. worker.run \notin stale
      BY <2>2, StaleGrows
    <3>2. Works(worker.run) /\ status[worker.run] \notin Resting
      BY <2>2, <3>1 DEF Works, Packs, Rest, OneDriver, Driven, Undriven
    <3>3. r # worker.run
      BY <1>2, <3>2 DEF Preflight, Resting
    <3> QED
      BY <1>2, <3>3 DEF Preflight, Set, rows, disk, content, process, BulkTypeOK, RowsTyped
  <2> QED
    BY <2>1, <2>2, StaleGrows, PackingKept
<1>3. ASSUME NEW t \in Request, NEW S \in SUBSET Member, Select(t, S) PROVE Packing'
  <2>1. worker' = worker /\ packed' = packed
    BY <1>3 DEF Select, Doing, Answer, Needed, rows, disk, content, process
  <2>2. ASSUME worker.do \in Packs, worker.run \in Run \ stale'
        PROVE  /\ picked'[worker.run] = picked[worker.run]
               /\ (worker.run \in file => worker.run \in file')
    <3>1. worker.run \notin stale
      BY <2>2, StaleGrows
    <3>2. Works(worker.run) /\ status[worker.run] \notin Resting
      BY <2>2, <3>1 DEF Works, Packs, Rest, OneDriver, Driven, Undriven
    <3>3. req[t].run # worker.run /\ req[t].run \in Run
      BY <1>3, <2>2, <3>2 DEF Select, Doing, Needed, Resting, AllNamed, ReqNamed, QueueNamed,
         WorkerNamed, RowsNamed
    <3> QED
      BY <1>3, <3>3 DEF Select, Doing, Answer, Needed, rows, disk, content, process, BulkTypeOK,
         RowsTyped
  <2> QED
    BY <2>1, <2>2, StaleGrows, PackingKept
<1>4. ASSUME NEW t \in Request, Unlink(t) PROVE Packing'
  <2>1. worker' = worker /\ packed' = packed
    BY <1>4 DEF Unlink, Doing, rows, disk, content, process
  <2>2. ASSUME worker.do \in Packs, worker.run \in Run \ stale'
        PROVE  /\ picked'[worker.run] = picked[worker.run]
               /\ (worker.run \in file => worker.run \in file')
    <3>1. worker.run \notin stale
      BY <2>2, StaleGrows
    <3>2. Works(worker.run) /\ status[worker.run] \notin Resting
      BY <2>2, <3>1 DEF Works, Packs, Rest, OneDriver, Driven, Undriven
    <3>3. req[t].run # worker.run
      BY <1>4, <3>1, <3>2 DEF Unlink, Doing, Resting, Finished, Removing
    <3> QED
      BY <1>4, <3>3 DEF Unlink, Doing, rows, disk, content, process, BulkTypeOK, RowsTyped
  <2> QED
    BY <2>1, <2>2, StaleGrows, PackingKept
<1>5. ASSUME NEW t \in Request, Mark(t) PROVE Packing'
  <2>1. worker' = worker /\ packed' = packed
    BY <1>5 DEF Mark, Doing, Settle, rows, disk, content, process
  <2>2. ASSUME worker.do \in Packs, worker.run \in Run \ stale'
        PROVE  /\ picked'[worker.run] = picked[worker.run]
               /\ (worker.run \in file => worker.run \in file')
    <3>1. worker.run \notin stale
      BY <2>2, StaleGrows
    <3>2. Works(worker.run) /\ status[worker.run] \notin Resting
      BY <2>2, <3>1 DEF Works, Packs, Rest, OneDriver, Driven, Undriven
    <3>3. req[t].run # worker.run /\ req[t].run \in Run
      <4>1. Drives(t, req[t].run) /\ req[t].run \in Run
        BY <1>5 DEF Mark, Doing, Settle, rows, disk, content, process, Drives, Starting, AllNamed,
           ReqNamed, QueueNamed, WorkerNamed, RowsNamed
      <4> QED
        BY <2>2, <3>1, <3>2, <4>1 DEF OneDriver, Driven, One
    <3> QED
      BY <1>5, <3>3 DEF Mark, Doing, Settle, rows, disk, content, process, BulkTypeOK, RowsTyped
  <2> QED
    BY <2>1, <2>2, StaleGrows, PackingKept
<1>6. ASSUME NEW t \in Request, NEW x \in Member, Refuse(t, x) PROVE Packing'
  <2>1. worker' = worker /\ packed' = packed
    BY <1>6 DEF Refuse, Doing, Settle, rows, disk, content, process
  <2>2. ASSUME worker.do \in Packs, worker.run \in Run \ stale'
        PROVE  /\ picked'[worker.run] = picked[worker.run]
               /\ (worker.run \in file => worker.run \in file')
    <3>1. worker.run \notin stale
      BY <2>2, StaleGrows
    <3>2. Works(worker.run) /\ status[worker.run] \notin Resting
      BY <2>2, <3>1 DEF Works, Packs, Rest, OneDriver, Driven, Undriven
    <3>3. req[t].run # worker.run /\ req[t].run \in Run
      <4>1. Drives(t, req[t].run) /\ req[t].run \in Run
        BY <1>6 DEF Refuse, Doing, Settle, rows, disk, content, process, Drives, Starting, AllNamed,
           ReqNamed, QueueNamed, WorkerNamed, RowsNamed
      <4> QED
        BY <2>2, <3>1, <3>2, <4>1 DEF OneDriver, Driven, One
    <3> QED
      BY <1>6, <3>3 DEF Refuse, Doing, Settle, rows, disk, content, process, BulkTypeOK, RowsTyped
  <2> QED
    BY <2>1, <2>2, StaleGrows, PackingKept
<1>7. ASSUME Take PROVE Packing'
  <2>1. worker'.do \notin Packs
    BY <1>7 DEF Take, At, rows, disk, content, process, Idle, Packs, BulkTypeOK, ProcessTyped,
       WorkerRow
  <2> QED
    BY <2>1 DEF Packing
<1>8. ASSUME Begin PROVE Packing'
  <2>1. worker' = [worker EXCEPT !.todo = IF op[worker.run] = "download" THEN picked[worker.run]
                                                              ELSE Remaining(worker.run),
                                 !.do = IF op[worker.run] = "download" THEN "clear" ELSE "roots"]
    BY <1>8 DEF Begin, R
  <2>2. /\ worker'.run = worker.run /\ worker'.do \in {"clear", "roots"}
        /\ worker'.do = "clear" => worker'.todo = picked[worker.run]
    BY <2>1 DEF BulkTypeOK, ProcessTyped, WorkerRow
  <2>3. picked' = picked
    BY <1>8 DEF Begin, At, Needed, Set, R, Remaining, rows, disk, content, process
  <2> QED
    BY <2>2, <2>3 DEF Packing, Packs
<1>9. ASSUME Released PROVE Packing'
  <2>1. worker'.do \notin Packs
    BY <1>9 DEF Released, At, R, rows, disk, content, process, Idle, Packs, BulkTypeOK,
       ProcessTyped,
       WorkerRow
  <2> QED
    BY <2>1 DEF Packing
<1>10. ASSUME Clear PROVE Packing'
  <2>1. /\ worker'.run = worker.run /\ UNCHANGED <<picked, stale>>
        /\ worker.do = "clear" /\ worker'.do = "pack" /\ worker'.todo = worker.todo
        /\ worker.run \in Run => packed'[worker.run] = {}
    BY <1>10 DEF Clear, At, Go, R, rows, disk, content, process, BulkTypeOK, RowsTyped,
       ProcessTyped,
       WorkerRow
  <2>2. worker.run \in Run
    BY <1>10 DEF Clear, At, Go, R, rows, disk, content, process, AllNamed, ReqNamed, QueueNamed,
       WorkerNamed, RowsNamed
  <2>3. worker.todo \in SUBSET Member /\ picked[worker.run] \in SUBSET Member
    BY <2>2 DEF BulkTypeOK, RowsTyped, ProcessTyped, WorkerRow
  <2> QED
    BY <2>1, <2>2, <2>3 DEF Packing, Packs
<1>11. ASSUME NEW x \in Member, Pack(x) PROVE Packing'
  <2>1. /\ worker'.run = worker.run /\ UNCHANGED <<picked, stale>>
        /\ worker.do = "pack" /\ worker'.do = "pack" /\ worker'.todo = worker.todo \ {x}
        /\ x \in worker.todo
        /\ worker.run \in Run => packed'[worker.run] = packed[worker.run] \cup {x}
    BY <1>11 DEF Pack, At, R, rows, disk, content, process, BulkTypeOK, RowsTyped, ProcessTyped,
       WorkerRow
  <2>2. worker.run \in Run
    BY <1>11 DEF Pack, At, R, rows, disk, content, process, AllNamed, ReqNamed, QueueNamed,
       WorkerNamed, RowsNamed
  <2>3. worker.todo \in SUBSET Member /\ picked[worker.run] \in SUBSET Member
    BY <2>2 DEF BulkTypeOK, RowsTyped, ProcessTyped, WorkerRow
  <2> QED
    BY <2>1, <2>2, <2>3 DEF Packing, Packs
<1>12. ASSUME Look PROVE Packing'
  <2>1. /\ worker'.run = worker.run /\ UNCHANGED <<picked, stale>>
        /\ worker.do = "pack" /\ worker'.do = "replace" /\ worker.todo = {} /\ packed' = packed
    BY <1>12 DEF Look, At, Go, R, rows, disk, content, process, BulkTypeOK, RowsTyped, ProcessTyped,
       WorkerRow
  <2>2. worker.run \in Run
    BY <1>12 DEF Look, At, Go, R, rows, disk, content, process, AllNamed, ReqNamed, QueueNamed,
       WorkerNamed, RowsNamed
  <2>3. worker.todo \in SUBSET Member /\ picked[worker.run] \in SUBSET Member
    BY <2>2 DEF BulkTypeOK, RowsTyped, ProcessTyped, WorkerRow
  <2> QED
    BY <2>1, <2>2, <2>3 DEF Packing, Packs
<1>13. ASSUME Replace PROVE Packing'
  <2>1. /\ worker'.run = worker.run /\ UNCHANGED <<picked, stale>>
        /\ worker.do = "replace" /\ worker'.do = "ready" /\ worker.run \in file'
        /\ packed' = packed
    BY <1>13 DEF Replace, At, Go, R, rows, disk, content, process, BulkTypeOK, RowsTyped,
       ProcessTyped, WorkerRow
  <2>2. worker.run \in Run
    BY <1>13 DEF Replace, At, Go, R, rows, disk, content, process, AllNamed, ReqNamed, QueueNamed,
       WorkerNamed, RowsNamed
  <2>3. worker.todo \in SUBSET Member /\ picked[worker.run] \in SUBSET Member
    BY <2>2 DEF BulkTypeOK, RowsTyped, ProcessTyped, WorkerRow
  <2> QED
    BY <2>1, <2>2, <2>3 DEF Packing, Packs
<1>14. ASSUME Ready PROVE Packing'
  <2>1. worker'.do \notin Packs
    BY <1>14 DEF Ready, At, Release, Quit, Set, Needed, R, rows, disk, content, process, Idle, Packs,
       BulkTypeOK, ProcessTyped, WorkerRow
  <2> QED
    BY <2>1 DEF Packing
<1>15. ASSUME PackFails PROVE Packing'
  <2>1. worker'.do \notin Packs
    BY <1>15 DEF PackFails, Quit, R, Idle, Total, Packs
  <2> QED
    BY <2>1 DEF Packing
<1>16. ASSUME Stop PROVE Packing'
  <2>1. worker'.do \notin Packs
    BY <1>16 DEF Stop, At, Go, R, rows, disk, content, process, Idle, Packs, BulkTypeOK,
       ProcessTyped,
       WorkerRow
  <2> QED
    BY <2>1 DEF Packing
<1>17. ASSUME NEW x \in Member, DeleteDirectory(x) PROVE Packing'
  <2>1. worker'.do \notin Packs
    BY <1>17 DEF DeleteDirectory, At, R, rows, disk, content, process, Idle, Packs, BulkTypeOK,
       ProcessTyped,
       WorkerRow
  <2> QED
    BY <2>1 DEF Packing
<1>18. ASSUME Clean PROVE Packing'
  <2>1. worker'.do \notin Packs
    BY <1>18 DEF Clean, At, Go, rows, disk, content, process, Idle, Packs, BulkTypeOK, ProcessTyped,
       WorkerRow
  <2> QED
    BY <2>1 DEF Packing
<1>19. ASSUME NEW x \in Member, Found(x) PROVE Packing'
  <2>1. worker'.do \notin Packs
    BY <1>19 DEF Found, At, R, rows, disk, content, process, Idle, Packs, BulkTypeOK, ProcessTyped,
       WorkerRow
  <2> QED
    BY <2>1 DEF Packing
<1>20. ASSUME Report PROVE Packing'
  <2>1. worker'.do \notin Packs
    BY <1>20 DEF Report, At, Settle, Outcome, R, rows, disk, content, process, Idle, Packs,
       BulkTypeOK, ProcessTyped, WorkerRow
  <2> QED
    BY <2>1 DEF Packing
<1>21. ASSUME NEW x \in Member, DeleteFails(x) PROVE Packing'
  <2>1. worker'.do \notin Packs
    BY <1>21 DEF DeleteFails, At, Settle, R, rows, disk, content, process, Idle, Packs, BulkTypeOK,
       ProcessTyped, WorkerRow
  <2> QED
    BY <2>1 DEF Packing
<1>22. ASSUME TotalUp PROVE Packing'
  <2>1. worker'.do \notin Packs
    BY <1>22 DEF TotalUp, Quit, R, Idle, Total, Packs
  <2> QED
    BY <2>1 DEF Packing
<1>23. ASSUME DeleteBreaks PROVE Packing'
  <2>1. worker'.do \notin Packs
    BY <1>23 DEF DeleteBreaks, Quit, R, Idle, Total, Packs
  <2> QED
    BY <2>1 DEF Packing
<1>24. ASSUME Crash PROVE Packing'
  <2>1. worker'.do \notin Packs
    BY <1>24 DEF Crash, rows, disk, content, process, Idle, Packs, BulkTypeOK, ProcessTyped,
       WorkerRow
  <2> QED
    BY <2>1 DEF Packing
<1>25. ASSUME Boot PROVE Packing'
  <2>1. worker'.do \notin Packs
    BY <1>25 DEF Boot, Halted, Idle, Packs
  <2> QED
    BY <2>1 DEF Packing
<1>26. ASSUME End PROVE Packing'
  <2>1. worker'.do \notin Packs
    BY <1>26 DEF End, Quit, Release, R, Idle, Total, Packs
  <2> QED
    BY <2>1 DEF Packing
<1> QED
  BY <1>1, <1>2, <1>3, <1>4, <1>5, <1>6, <1>7, <1>8, <1>9, <1>10, <1>11, <1>12, <1>13, <1>14,
     <1>15, <1>16, <1>17, <1>18, <1>19, <1>20, <1>21, <1>22, <1>23, <1>24, <1>25, <1>26 DEF BulkNext,
     Requests, Work

-----------------------------------------------------------------------------
(* The rows of a run that is about to be ended belong to the one who ends it. *)
Closing(r) ==
  \/ \E t \in Request : Drives(t, r) /\ req[t].do \in Verdict
  \/ Works(r) /\ worker.do \in Verdict

LEMMA ClosingStep ==
  ASSUME BulkTypeOK, AllNamed, NEW q \in Run, Driven(q), Closing(q), q \notin stale', BulkNext
  PROVE  picked'[q] = picked[q] /\ result'[q] = result[q]
<1>1. status[q] \notin Resting
  BY DEF Driven, Undriven, Closing
<1>2. ASSUME NEW t \in Request, req[t].do \in {"loop", "mark"} PROVE req[t].run # q
  <2>1. ASSUME req[t].run = q PROVE FALSE
    <3>1. Drives(t, q)
      BY <1>2, <2>1 DEF Drives, Starting
    <3> QED
      BY <1>2, <3>1 DEF Driven, One, Closing, Verdict
  <2> QED
    BY <2>1
<1>3. ASSUME worker.do \in {"roots", "report"} PROVE worker.run # q
  <2>1. ASSUME worker.run = q PROVE FALSE
    <3>1. Works(q)
      BY <1>3, <2>1 DEF Works, Rest
    <3> QED
      BY <1>3, <3>1 DEF Driven, One, Closing, Verdict
  <2> QED
    BY <2>1
<1>4. CASE UNCHANGED <<picked, result>>
  BY <1>4
<1>5. ASSUME NEW r \in Run, NEW o \in Operations, NEW S \in SUBSET Member, Preflight(r, o, S)
      PROVE  picked'[q] = picked[q] /\ result'[q] = result[q]
  BY <1>1, <1>5 DEF Preflight, Resting, BulkTypeOK, RowsTyped
<1>6. ASSUME NEW t \in Request, NEW S \in SUBSET Member, Select(t, S)
      PROVE  picked'[q] = picked[q] /\ result'[q] = result[q]
  <2>1. q # req[t].run
    BY <1>1, <1>6 DEF Select, Needed, Resting
  <2> QED
    BY <1>6, <2>1 DEF Select, BulkTypeOK, RowsTyped
<1>7. ASSUME NEW p \in Run, NEW x, NEW a, p # q, Settle(p, x, a)
      PROVE  picked'[q] = picked[q] /\ result'[q] = result[q]
  BY <1>7 DEF Settle, BulkTypeOK, RowsTyped
<1>8. ASSUME NEW t \in Request, Mark(t) \/ \E x \in Member : Refuse(t, x)
      PROVE  picked'[q] = picked[q] /\ result'[q] = result[q]
  <2>1. req[t].do \in {"loop", "mark"} /\ req[t].run \in Run
    BY <1>8 DEF Mark, Refuse, Doing, AllNamed, ReqNamed
  <2>2. \E x, a : Settle(req[t].run, x, a)
    BY <1>8 DEF Mark, Refuse
  <2> QED
    BY <1>2, <1>7, <2>1, <2>2
<1>9. ASSUME Report \/ \E x \in Member : DeleteFails(x)
      PROVE  picked'[q] = picked[q] /\ result'[q] = result[q]
  <2>1. worker.do \in {"roots", "report"} /\ worker.run \in Run
    BY <1>9 DEF Report, DeleteFails, At, AllNamed, WorkerNamed
  <2>2. \E x, a : Settle(worker.run, x, a)
    BY <1>9 DEF Report, DeleteFails, R
  <2> QED
    BY <1>3, <1>7, <2>1, <2>2
<1>10. CASE \/ \E t \in Request, r \in Run : AskSelect(t, r)
            \/ \E t \in Request, r \in Run : AskStart(t, r)
            \/ \E t \in Request, r \in Run : AskCancel(t, r)
            \/ \E t \in Request, r \in Run : AskExpired(t, r)
            \/ \E r \in Run : Lapse(r)
            \/ \E x \in Member : Elsewhere(x)
            \/ \E t \in Request : \/ Start(t) \/ Enqueue(t) \/ Cancel(t) \/ Unlink(t) \/ Expire(t)
                                  \/ Rows(t) \/ Finalize(t) \/ Finalized(t)
            \/ \E t \in Request, x \in Member : Publish(t, x)
  <2>1. UNCHANGED <<picked, result>>
    BY <1>10 DEF AskSelect, AskStart, AskCancel, AskExpired, Checked, Lapse, Elsewhere, Start,
       Enqueue, Cancel, Unlink, Expire, Rows, Finalize, Finalized, Publish, rows
  <2> QED
    BY <1>4, <2>1
<1>11. CASE \/ Take \/ Begin \/ End \/ Released \/ Clear \/ Look \/ Replace \/ Ready \/ PackFails
            \/ Stop \/ Clean \/ TotalUp \/ DeleteBreaks \/ Crash \/ Boot
            \/ \E x \in Member : Pack(x) \/ DeleteDirectory(x) \/ Found(x)
  <2>1. UNCHANGED <<picked, result>>
    BY <1>11 DEF Take, Begin, End, Released, Clear, Look, Replace, Ready, PackFails, Stop, Clean,
       TotalUp, DeleteBreaks, Crash, Boot, Pack, DeleteDirectory, Found, rows
  <2> QED
    BY <1>4, <2>1
<1> QED
  BY <1>5, <1>6, <1>8, <1>9, <1>10, <1>11 DEF BulkNext, Requests, Work

(* A verdict is found by finalizing, and kept until it is written. *)
LEMMA VerdictStep ==
  ASSUME BulkTypeOK, AllNamed, Halted, BulkNext
  PROVE  /\ \A t \in Request : req'[t].do = "succeeded" =>
              \/ req'[t] = req[t]
              \/ Finalize(t) /\ req'[t].run = req[t].run /\ Total(req[t].run) = "succeeded"
         /\ worker'.do = "succeeded" =>
              \/ worker' = worker
              \/ TotalUp /\ worker'.run = worker.run /\ Total(worker.run) = "succeeded"
<1> DEFINE P(t) == req'[t].do = "succeeded" =>
                     \/ req'[t] = req[t]
                     \/ Finalize(t) /\ req'[t].run = req[t].run /\ Total(req[t].run) = "succeeded"
           W == worker'.do = "succeeded" =>
                  \/ worker' = worker
                  \/ TotalUp /\ worker'.run = worker.run /\ Total(worker.run) = "succeeded"
<1>0. req \in [Request -> ReqRow] /\ worker \in WorkerRow
  BY DEF BulkTypeOK, ProcessTyped
<1>1. ASSUME NEW t \in Request, NEW z, z.do # "succeeded", req' = [req EXCEPT ![t] = z]
      PROVE  \A u \in Request : P(u)
  BY <1>0, <1>1
<1>2. CASE worker' = worker /\ \E t \in Request, r \in Run :
             AskSelect(t, r) \/ AskStart(t, r) \/ AskCancel(t, r) \/ AskExpired(t, r)
  <2>1. PICK t \in Request, r \in Run, a \in Asking :
          req' = [req EXCEPT ![t].do = a, ![t].run = r]
    BY <1>2 DEF AskSelect, AskStart, AskCancel, AskExpired, Checked, Asking
  <2>2. req'[t].do = a /\ \A u \in Request \ {t} : req'[u] = req[u]
    BY <1>0, <2>1 DEF ReqRow
  <2> QED
    BY <1>2, <2>2 DEF Asking
<1>3. CASE worker' = worker /\ \E t \in Request :
             \/ Enqueue(t) \/ Cancel(t) \/ Expire(t) \/ Finalized(t)
             \/ \E S \in SUBSET Member : Select(t, S)
  <2>1. PICK t \in Request : req' = [req EXCEPT ![t] = Idle]
    BY <1>3 DEF Enqueue, Cancel, Expire, Finalized, Select, Answer
  <2>2. Idle.do # "succeeded"
    BY DEF Idle
  <2> QED
    BY <1>1, <1>3, <2>1, <2>2
<1>4. CASE worker' = worker /\ \E t \in Request :
             \/ Start(t) \/ Unlink(t) \/ Rows(t) \/ Mark(t)
             \/ \E x \in Member : Publish(t, x) \/ Refuse(t, x)
  <2>1. PICK t \in Request : /\ \A u \in Request \ {t} : req'[u] = req[u]
                             /\ req'[t].do \in Asking \cup {"enqueue", "rows", "loop", "mark"}
    <3>1. ASSUME NEW t \in Request, Start(t) \/ Unlink(t) \/ Rows(t) \/ Mark(t)
          PROVE  /\ \A u \in Request \ {t} : req'[u] = req[u]
                 /\ req'[t].do \in Asking \cup {"enqueue", "rows", "loop", "mark"}
      BY <1>0, <3>1 DEF Start, Unlink, Rows, Mark, Asking, ReqRow
    <3>2. ASSUME NEW t \in Request, NEW x \in Member, Publish(t, x) \/ Refuse(t, x)
          PROVE  /\ \A u \in Request \ {t} : req'[u] = req[u]
                 /\ req'[t].do \in Asking \cup {"enqueue", "rows", "loop", "mark"}
      BY <1>0, <3>2 DEF Publish, Refuse, Doing, Asking, ReqRow
    <3> QED
      BY <1>4, <3>1, <3>2
  <2> QED
    BY <1>4, <2>1 DEF Asking
<1>5. ASSUME NEW t \in Request, Finalize(t) PROVE W /\ \A u \in Request : P(u)
  <2>1. worker' = worker /\ \A u \in Request \ {t} : req'[u] = req[u]
    BY <1>0, <1>5 DEF Finalize, Answer, process
  <2>2. req'[t].do = "idle" \/ (req'[t].run = req[t].run /\ req'[t].do = Total(req[t].run))
    BY <1>0, <1>5 DEF Finalize, Answer, Idle, ReqRow
  <2> QED
    BY <1>5, <2>1, <2>2
<1>6. ASSUME TotalUp PROVE W /\ \A u \in Request : P(u)
  <2>1. req' = req /\ worker'.run = worker.run
    BY <1>6 DEF TotalUp, Quit, R
  <2>2. worker'.do = "release" \/ worker'.do = Total(worker.run)
    BY <1>6 DEF TotalUp, Quit, R, Idle
  <2> QED
    BY <1>6, <2>1, <2>2
<1>7. CASE req' = req /\ worker'.do # "succeeded"
  BY <1>7
<1>8. CASE req' = req /\ worker' = worker
  BY <1>8
<1>9. ASSUME \/ Take \/ End \/ Released \/ Ready \/ PackFails \/ DeleteBreaks
      PROVE  req' = req /\ worker'.do # "succeeded"
  <2>1. CASE Take
    BY <2>1 DEF Take, Idle
  <2>2. CASE End
    BY <2>2 DEF End, Release, Quit, Idle
  <2>3. CASE Released
    BY <2>3 DEF Released, Idle
  <2>4. CASE Ready
    BY <2>4 DEF Ready, Release, Quit, Idle
  <2>5. CASE PackFails \/ DeleteBreaks
    BY <2>5 DEF PackFails, DeleteBreaks, Quit, Idle
  <2> QED
    BY <1>9, <2>1, <2>2, <2>3, <2>4, <2>5
<1>10. ASSUME \/ Begin \/ Clear \/ Look \/ Replace \/ Stop \/ Clean \/ Report
              \/ \E x \in Member : Pack(x) \/ DeleteDirectory(x) \/ Found(x) \/ DeleteFails(x)
       PROVE  req' = req /\ worker'.do # "succeeded"
  BY <1>0, <1>10 DEF Begin, Clear, Look, Replace, Stop, Clean, Report, Pack, DeleteDirectory,
     Found, DeleteFails, At, Go, process, WorkerRow
<1>11. ASSUME Crash PROVE W /\ \A u \in Request : P(u)
  BY <1>11 DEF Crash, Idle
<1>12. ASSUME \/ \E r \in Run, o \in Operations, S \in SUBSET Member : Preflight(r, o, S)
              \/ \E r \in Run : Lapse(r)
              \/ \E x \in Member : Elsewhere(x)
              \/ Boot
       PROVE  req' = req /\ worker' = worker
  BY <1>12 DEF Preflight, Lapse, Elsewhere, Boot, process
<1>13. ASSUME \/ \E t \in Request, r \in Run :
                   AskSelect(t, r) \/ AskStart(t, r) \/ AskCancel(t, r) \/ AskExpired(t, r)
              \/ \E t \in Request :
                   \/ Enqueue(t) \/ Cancel(t) \/ Expire(t) \/ Finalized(t) \/ Start(t) \/ Unlink(t)
                   \/ Rows(t) \/ Mark(t) \/ \E S \in SUBSET Member : Select(t, S)
                   \/ \E x \in Member : Publish(t, x) \/ Refuse(t, x)
       PROVE  worker' = worker
  BY <1>13 DEF AskSelect, AskStart, AskCancel, AskExpired, Checked, Enqueue, Cancel, Expire,
     Finalized, Start, Unlink, Rows, Mark, Select, Publish, Refuse, process
<1> QED
  BY <1>2, <1>3, <1>4, <1>5, <1>6, <1>7, <1>8, <1>9, <1>10, <1>11, <1>12, <1>13
  DEF BulkNext, Requests, Work

(* A run found to have succeeded still has, when that is written. *)
LEMMA ConcludingStep ==
  ASSUME BulkTypeOK, BulkTypeOK', AllNamed, AllNamed', Halted, OneDriver, Concluding, BulkNext
  PROVE  Concluding'
<1>1. ASSUME NEW q \in Run, q \notin stale', Done(q), Closing(q) PROVE Done(q)'
  <2>1. q \notin stale
    BY <1>1, StaleGrows
  <2>2. Driven(q)
    BY <2>1 DEF OneDriver
  <2>3. picked'[q] = picked[q] /\ result'[q] = result[q]
    BY <1>1, <2>2, ClosingStep
  <2> QED
    BY <1>1, <2>3 DEF Done, Remaining
<1>2. ASSUME NEW q, Total(q) = "succeeded", UNCHANGED <<picked, result>> PROVE Done(q)'
  BY <1>2 DEF Total, Done, Remaining
<1>3. ASSUME NEW t \in Request, NEW q \in Run, q = req'[t].run, req'[t].do = "succeeded",
             q \notin stale'
      PROVE  Done(q)'
  <2>1. CASE req'[t] = req[t]
    <3>1. q = req[t].run /\ q \notin stale
      BY <1>3, <2>1, StaleGrows
    <3>2. Closing(q)
      BY <1>3, <2>1, <3>1 DEF Closing, Drives, Starting, Verdict
    <3>3. Done(q)
      BY <1>3, <2>1, <3>1 DEF Concluding
    <3> QED
      BY <1>1, <1>3, <3>2, <3>3
  <2>2. CASE Finalize(t) /\ req'[t].run = req[t].run /\ Total(req[t].run) = "succeeded"
    <3>1. UNCHANGED <<picked, result>>
      BY <2>2 DEF Finalize, rows
    <3> QED
      BY <1>2, <1>3, <2>2, <3>1
  <2> QED
    BY <1>3, <2>1, <2>2, VerdictStep
<1>4. ASSUME NEW q \in Run, q = worker'.run, worker'.do = "succeeded", q \notin stale'
      PROVE  Done(q)'
  <2>1. CASE worker' = worker
    <3>1. q = worker.run /\ q \notin stale
      BY <1>4, <2>1, StaleGrows
    <3>2. Closing(q)
      BY <1>4, <2>1, <3>1 DEF Closing, Works, Verdict, Rest
    <3>3. Done(q)
      BY <1>4, <2>1, <3>1 DEF Concluding
    <3> QED
      BY <1>1, <1>4, <3>2, <3>3
  <2>2. CASE TotalUp /\ worker'.run = worker.run /\ Total(worker.run) = "succeeded"
    <3>1. UNCHANGED <<picked, result>>
      BY <2>2 DEF TotalUp, rows
    <3> QED
      BY <1>2, <1>4, <2>2, <3>1
  <2> QED
    BY <1>4, <2>1, <2>2, VerdictStep
<1>5. /\ \A t \in Request : req'[t].do = "succeeded" => req'[t].run \in Run
      /\ worker'.do = "succeeded" => worker'.run \in Run
  BY DEF AllNamed, ReqNamed, WorkerNamed
<1> QED
  BY <1>3, <1>4, <1>5 DEF Concluding, Done, Remaining

(* A run becomes ready, or succeeds, by the last step of its driver only. *)
Ends(q) ==
  \/ status'[q] = status[q] \/ status'[q] \notin {"ready", "succeeded"}
  \/ status'[q] = "ready" /\ Ready /\ worker.run = q
  \/ status'[q] = "succeeded" /\ Done(q) /\ UNCHANGED <<picked, result>>

(* The steps that write a status a report can be read from. *)
LEMMA EndsStep ==
  ASSUME BulkTypeOK, AllNamed, Concluding, NEW q \in Run, q \notin stale, BulkNext
  PROVE  Ends(q)
<1>1. CASE \/ \E t \in Request, r \in Run : AskSelect(t, r)
           \/ \E t \in Request, r \in Run : AskStart(t, r)
           \/ \E t \in Request, r \in Run : AskCancel(t, r)
           \/ \E t \in Request, r \in Run : AskExpired(t, r)
           \/ \E r \in Run : Lapse(r)
           \/ \E x \in Member : Elsewhere(x)
           \/ \E t \in Request, S \in SUBSET Member : Select(t, S)
           \/ \E t \in Request : Enqueue(t)
           \/ \E t \in Request : Unlink(t)
           \/ \E t \in Request : Rows(t)
           \/ \E t \in Request : Mark(t)
           \/ \E t \in Request, x \in Member : Publish(t, x)
           \/ \E t \in Request : Finalize(t)
           \/ PackFails
           \/ TotalUp
           \/ DeleteBreaks
           \/ \E t \in Request, x \in Member : Refuse(t, x)
           \/ Take
           \/ Released
           \/ Clear
           \/ \E x \in Member : Pack(x)
           \/ Look
           \/ Replace
           \/ Stop
           \/ \E x \in Member : DeleteDirectory(x)
           \/ Clean
           \/ \E x \in Member : Found(x)
           \/ Report
           \/ \E x \in Member : DeleteFails(x)
           \/ Crash
  <2>1. UNCHANGED status
    BY <1>1 DEF AskSelect, Checked, rows, disk, content, process, AskStart, AskCancel, AskExpired,
       Lapse, Elsewhere, Select, Doing, Answer, Needed, Enqueue, Unlink, Rows, Remaining, Mark,
       Settle, Publish, Refuse, Take, At, Released, R, Clear, Go, Pack, Look, Replace, Stop,
       DeleteDirectory, Clean, Found, Report, Outcome, DeleteFails, Crash, Finalize,
       PackFails, TotalUp, DeleteBreaks
  <2> QED
    BY <2>1 DEF Ends
<1>2. ASSUME NEW r \in Run, NEW o \in Operations, NEW S \in SUBSET Member, Preflight(r, o, S)
      PROVE  Ends(q)
  <2>1. status'[q] \in {status[q], "awaiting"}
    BY <1>2 DEF Preflight, Set, rows, disk, content, process, AllNamed, ReqNamed, QueueNamed,
       WorkerNamed, RowsNamed, BulkTypeOK, RowsTyped
  <2> QED
    BY <2>1 DEF Ends
<1>3. ASSUME NEW t \in Request, Start(t) PROVE Ends(q)
  <2>1. status'[q] \in {status[q], "queued", "running"}
    BY <1>3 DEF Start, Doing, Set, Needed, rows, disk, content, process, AllNamed, ReqNamed,
       QueueNamed, WorkerNamed, RowsNamed, BulkTypeOK, RowsTyped
  <2> QED
    BY <2>1 DEF Ends
<1>4. ASSUME NEW t \in Request, Cancel(t) PROVE Ends(q)
  <2>1. status'[q] \in {status[q], "cancelled"}
    BY <1>4 DEF Cancel, Doing, Answer, Set, rows, disk, content, process, AllNamed, ReqNamed,
       QueueNamed, WorkerNamed, RowsNamed, BulkTypeOK, RowsTyped
  <2> QED
    BY <2>1 DEF Ends
<1>5. ASSUME NEW t \in Request, Expire(t) PROVE Ends(q)
  <2>1. status'[q] \in {status[q], "expired"}
    BY <1>5 DEF Expire, Doing, Answer, Set, Needed, rows, disk, content, process, AllNamed,
       ReqNamed,
       QueueNamed, WorkerNamed, RowsNamed, BulkTypeOK, RowsTyped
  <2> QED
    BY <2>1 DEF Ends
<1>6. ASSUME Begin PROVE Ends(q)
  <2>1. status'[q] \in {status[q], "packaging", "running"}
    BY <1>6 DEF Begin, At, Needed, Set, R, Remaining, rows, disk, content, process, AllNamed,
       ReqNamed, QueueNamed, WorkerNamed, RowsNamed, BulkTypeOK, RowsTyped
  <2> QED
    BY <2>1 DEF Ends
<1>7. ASSUME Ready PROVE Ends(q)
  <2>1. status'[q] = IF q = worker.run THEN "ready" ELSE status[q]
    BY <1>7 DEF Ready, At, Release, Quit, Set, Needed, R, rows, disk, content, process, BulkTypeOK,
       RowsTyped
  <2> QED
    BY <1>7, <2>1 DEF Ends
<1>8. ASSUME Boot PROVE Ends(q)
  <2>1. status'[q] \in {status[q], "expired", "queued"}
    BY <1>8 DEF Boot
  <2> QED
    BY <2>1 DEF Ends
<1>9. ASSUME NEW t \in Request, Finalized(t) PROVE Ends(q)
  <2>1. /\ req[t].do \in Verdict /\ UNCHANGED <<picked, result>>
        /\ status'[q] = status[q] \/ (q = req[t].run /\ status'[q] = req[t].do)
    BY <1>9 DEF Finalized, Set, rows, BulkTypeOK, RowsTyped
  <2> QED
    BY <2>1 DEF Ends, Verdict, Concluding
<1>10. ASSUME End PROVE Ends(q)
  <2>1. /\ worker.do \in Verdict /\ UNCHANGED <<picked, result>>
        /\ status'[q] = status[q] \/ (q = worker.run /\ status'[q] = worker.do)
    BY <1>10 DEF End, Set, R, rows, BulkTypeOK, RowsTyped
  <2> QED
    BY <2>1 DEF Ends, Verdict, Concluding
<1> QED
  BY <1>1, <1>2, <1>3, <1>4, <1>5, <1>6, <1>7, <1>8, <1>9, <1>10 DEF BulkNext,
     Requests,
     Work

(* What is reported stays so: by the invariant when a run ends, and because
   nothing touches it afterwards. *)
LEMMA ReportStep ==
  ASSUME BulkTypeOK, AllNamed, Deeds', OneDriver, Selected, Packing, Removing,
         Concluding, ReportTrue, BulkNext
  PROVE  ReportTrue'
<1> SUFFICES ASSUME NEW q \in Run, q \notin stale'
             PROVE  /\ status'[q] = "ready" /\ q \notin late' => q \in file' /\ packed'[q] = picked'[q]
                    /\ \A x \in Member : result'[q][x] = "succeeded" =>
                         IF op'[q] = "publish" THEN x \in published' ELSE folder'[x] = "clean"
                    /\ status'[q] = "succeeded" =>
                         picked'[q] = {} /\ \A x \in Member : result'[q][x] # "failed"
  BY DEF ReportTrue
<1>1. q \notin stale
  BY StaleGrows
<1>2. Driven(q) /\ SelectedAt(q)
  BY <1>1 DEF OneDriver, Selected
<1>3. Ends(q)
  BY <1>1, EndsStep
<1>4. ASSUME status[q] \in Finished PROVE Left(q)
  BY <1>1, <1>2, <1>4, EndedStep
<1>5. ASSUME status'[q] = "ready", q \notin late' PROVE q \in file' /\ packed'[q] = picked'[q]
  <2>1. CASE status[q] = "ready"
    <3>1. Left(q)
      BY <1>4, <2>1 DEF Finished
    <3> QED
      BY <1>1, <1>5, <2>1, <3>1 DEF Left, ReportTrue
  <2>2. CASE status[q] # "ready"
    <3>1. Ready /\ worker.run = q
      BY <1>3, <1>5, <2>2 DEF Ends
    <3>2. worker.do = "ready" /\ UNCHANGED <<file, packed, picked>>
      BY <3>1 DEF Ready, At, rows
    <3> QED
      BY <1>1, <3>1, <3>2 DEF Packing, Packs
  <2> QED
    BY <2>1, <2>2
<1>6. ASSUME status'[q] = "succeeded"
      PROVE  picked'[q] = {} /\ \A x \in Member : result'[q][x] # "failed"
  <2>1. CASE status[q] = "succeeded"
    <3>1. Left(q)
      BY <1>4, <2>1 DEF Finished
    <3> QED
      BY <1>1, <2>1, <3>1 DEF Left, ReportTrue
  <2>2. CASE status[q] # "succeeded"
    <3>1. Done(q) /\ UNCHANGED <<picked, result>>
      BY <1>3, <1>6, <2>2 DEF Ends
    <3>2. Remaining(q) = {} /\ \A x \in Member : result[q][x] # "failed"
      BY <3>1 DEF Done
    <3>3. picked[q] = {}
      BY <1>2, <3>2 DEF SelectedAt, Remaining
    <3> QED
      BY <3>1, <3>2, <3>3
  <2> QED
    BY <2>1, <2>2
<1>7. \A x \in Member : result'[q][x] = "succeeded" =>
        IF op'[q] = "publish" THEN x \in published' ELSE folder'[x] = "clean"
  BY DEF Deeds
<1> QED
  BY <1>5, <1>6, <1>7
-----------------------------------------------------------------------------
(* The parts hold at the start. *)
LEMMA BulkInitInvariant == BulkInit => BulkIInv
<1> SUFFICES ASSUME BulkInit PROVE BulkIInv
  OBVIOUS
<1>1. BulkTypeOK
  <2>1. worker \in WorkerRow /\ req \in [Request -> ReqRow] /\ queue \in Seq(Run)
    BY DEF BulkInit, Idle, WorkerRow, ReqRow, Rest
  <2> QED
    BY <2>1, BulkAssumption DEF BulkInit, BulkTypeOK, RowsTyped, ProcessTyped
<1>2. AllNamed /\ Halted /\ Deeds
  BY DEF BulkInit, AllNamed, ReqNamed, QueueNamed, WorkerNamed, RowsNamed, Halted, Deeds, Idle,
     Packs,
     Deletes
<1>3. OneDriver
  BY DEF BulkInit, OneDriver, Driven, One, Undriven, Drives, Queued, Works, Starting, Verdict, Rest, Idle
<1>4. Selected /\ Packing /\ Removing /\ Concluding /\ ReportTrue
  BY DEF BulkInit, Selected, SelectedAt, Packing, Removing, Concluding, ReportTrue, Idle, Packs
<1> QED
  BY <1>1, <1>2, <1>3, <1>4 DEF BulkIInv

(* Every step keeps them all. *)
LEMMA BulkInvStep == BulkIInv /\ [BulkNext]_bulkVars => BulkIInv'
<1> SUFFICES ASSUME BulkIInv, [BulkNext]_bulkVars PROVE BulkIInv'
  OBVIOUS
<1> USE DEF BulkIInv
<1>1. CASE BulkNext
  <2>1. BulkTypeOK' /\ Halted'
    BY <1>1, BulkTypeStep, HaltedStep
  <2>2. AllNamed'
    BY <1>1, <2>1, NamedStep
  <2>3. Deeds'
    BY <1>1, <2>1, <2>2, DeedsStep
  <2>4. ASSUME NEW q \in Run \ stale' PROVE Driven(q)' /\ SelectedAt(q)'
    <3>1. q \notin stale /\ q \notin stale'
      BY <1>1, <2>4, StaleGrows
    <3>2. Driven(q) /\ SelectedAt(q)
      BY <3>1 DEF OneDriver, Selected
    <3> QED
      BY <1>1, <2>1, <3>1, <3>2, DrivenStep, SelectedStep
  <2>5. OneDriver' /\ Selected'
    BY <2>4 DEF OneDriver, Selected
  <2>6. Removing'
    BY <1>1, <2>1, <2>2, RemovingStep
  <2>7. Packing'
    BY <1>1, <2>1, PackingStep
  <2>8. Concluding'
    BY <1>1, <2>1, <2>2, ConcludingStep
  <2>9. ReportTrue'
    BY <1>1, <2>3, ReportStep
  <2> QED
    BY <2>1, <2>2, <2>3, <2>5, <2>6, <2>7, <2>8, <2>9
<1>2. CASE UNCHANGED bulkVars
  <2>1. UNCHANGED <<op, status, picked, result, file, packed, late, folder, published, req, queue,
                    active, worker, mode, crashes, stale>>
    BY <1>2 DEF bulkVars, rows, disk, content, process
  <2>2. BulkTypeOK' /\ AllNamed' /\ Halted' /\ Deeds'
    BY <2>1 DEF BulkTypeOK, RowsTyped, ProcessTyped, AllNamed, ReqNamed, QueueNamed, WorkerNamed,
       RowsNamed, Halted, Deeds
  <2>3. OneDriver' /\ Selected'
    BY <2>1 DEF OneDriver, Driven, One, Undriven, Drives, Queued, Works, Selected, SelectedAt
  <2>4. Packing' /\ Removing' /\ Concluding' /\ ReportTrue'
    BY <2>1 DEF Packing, Removing, Concluding, Done, Remaining, ReportTrue
  <2> QED
    BY <2>2, <2>3, <2>4
<1> QED
  BY <1>1, <1>2

(* The invariant holds throughout: a run whose writes were never late has one
   driver from its start to its end. *)
THEOREM BulkInvariant == BulkSpec => []BulkIInv
<1> QED
  BY BulkInitInvariant, BulkInvStep, PTL DEF BulkSpec

(* What a run reports is so, whatever threads, late cancellations, expiring
   archives and crashes came in between, unless it was written on a check that
   held no longer. *)
THEOREM ReportsAreTrue == BulkSpec => []ReportTrue
<1>1. BulkIInv => ReportTrue
  BY DEF BulkIInv
<1> QED
  BY <1>1, BulkInvariant, PTL

(* No two of the requests, the queue and the executor are ever at one run. *)
THEOREM OneDriverEach == BulkSpec => []OneDriver
<1>1. BulkIInv => OneDriver
  BY DEF BulkIInv
<1> QED
  BY <1>1, BulkInvariant, PTL
=============================================================================
