---------------------------- MODULE AnsweringProofs ----------------------------
(***************************************************************************)
(* Theorems about how questions are answered: about the search a request   *)
(* makes (Retrieval), for every library of items, versions, parents and    *)
(* children and every limit and quota, and about the conversation that the *)
(* answer is kept in (Conversation), for any set of requests and any       *)
(* number of turns and versions.                                           *)
(*                                                                         *)
(* Retrieval: the stores are written in an order, parents before points,   *)
(* and purged in the other, and no step holds both: what keeps a point     *)
(* from losing its parent is which version a writer or a purge may be at,  *)
(* given what is on show.                                                  *)
(*                                                                         *)
(* The fusion of a question's hits is five folds, one in the other; each   *)
(* is followed element by element (RunFacts), and a side keeps its parents *)
(* because what an earlier one has taken is still there.                   *)
(*                                                                         *)
(* Conversation: what a request was hydrated with stays what it would be   *)
(* hydrated with as long as it holds the lock (Held), so what it persists  *)
(* extends the last turn, or adds one, in the context that is active       *)
(* before it.                                                              *)
(***************************************************************************)
EXTENDS Retrieval, Conversation, FiniteSetTheorems, SequenceTheorems, WellFoundedInduction,
        TLAPS

(* Retrieval: what the writer, a purge and a search are at. *)

NoPoints(v) == \A c \in points : VersionOfChild(c) # v
Rowed(v)    == RowsOf(v) \subseteq parents

LibraryTyped ==
  /\ parents \subseteq Parent /\ points \subseteq Child
  /\ head \in [Item -> Version \cup {0}] /\ \A i \in Item : head[i] # 0 => ItemOf[head[i]] = i
  /\ bin \subseteq Item /\ gone \subseteq Item /\ pending \subseteq Version
  /\ open \subseteq Version /\ overtaken \subseteq Item

WorkTyped ==
  /\ writer \in [version : Version \cup {0}, step : {"none", "stored", "writing", "cleaning"},
                 todo : SUBSET Child, cancelled : BOOLEAN]
  /\ writer.version = 0 => writer = NoWork
  /\ purge \in [item : Item \cup {NoItem}, step : {"none", "planned", "points", "parents"}]
  /\ purge.item = NoItem => purge = NoPurge

SearchTyped ==
  search \in [pc : {"idle", "looked", "chosen", "fetched"}, subs : Nat, snap : SUBSET Version,
              held : SUBSET Version, hits : Seq(Seq(Child)), chosen : Seq(Parent),
              found : SUBSET Parent]

TypeOK == LibraryTyped /\ WorkTyped

(* What is to be published is not on show yet. *)
Unshown == \A v \in pending : head[ItemOf[v]] # v

(* The writer is at a pending version, or was cancelled and its item has lost
   its head; the rows of what it writes are there. *)
Writing ==
  LET v == writer.version IN
  /\ writer.step = "cleaning" => writer.cancelled
  /\ v # 0 =>
       /\ writer.step # "none"
       /\ writer.todo \subseteq PointsOf(v)
       /\ writer.cancelled => head[ItemOf[v]] = 0
       /\ ~ writer.cancelled => v \in pending /\ (ItemOf[v] \notin overtaken => Rowed(v))

(* The item of a purge is in the bin and has no publication under way, unless
   it was overtaken; once its points are gone, none of what was on show is
   written again. *)
Purging ==
  LET i == purge.item IN
  /\ i # NoItem /\ i \notin overtaken =>
       /\ i \in bin /\ Pending(i) = {}
       /\ purge.step \in {"points", "parents"} => NoPoints(head[i])

(* What is on show has all its rows, or no points at all. *)
Serving ==
  \A i \in Item : head[i] # 0 /\ i \notin overtaken => Rowed(head[i]) \/ NoPoints(head[i])

(* What a search holds has been on show; a parent it has hit is there as long
   as its version is held. *)
Standing(p) ==
  VersionOf[p] \in search.held /\ ItemOf[VersionOf[p]] \notin overtaken => p \in parents

Searching ==
  /\ \A v \in search.held : v \in OnShow /\ ItemOf[v] \notin bin
  /\ search.pc = "looked" =>
       \A k \in DOMAIN search.hits : \A c \in ToSet(search.hits[k]) :
         VersionOfChild(c) \in search.snap /\ Standing(ParentOf[c])
  /\ search.pc = "chosen" =>
       \A p \in ToSet(search.chosen) : VersionOf[p] \in search.snap /\ Standing(p)

IInv == TypeOK /\ Unshown /\ Writing /\ Purging /\ Serving /\ SearchTyped /\ Searching /\ NothingLost
-----------------------------------------------------------------------------
(* The constants, as the proofs use them. *)
LEMMA Constants ==
  /\ NoItem \notin Item /\ Version \subseteq Nat \ {0}
  /\ \A v \in Version : ItemOf[v] \in Item
  /\ \A c \in Child : VersionOfChild(c) \in Version /\ ParentOf[c] \in Parent
  /\ \A p \in Parent : VersionOf[p] \in Version
  BY RetrievalAssumption DEF VersionOfChild

(* Every step of the library keeps the types. *)
LEMMA TypeStep ==
  ASSUME TypeOK, LibraryStep \/ Crash
  PROVE  TypeOK'
<1>1. ASSUME NEW v \in Version, RequestPublication(v) PROVE TypeOK'
  <2>1. ItemOf[v] \in Item
    BY Constants
  <2>2. overtaken' \subseteq Item
    BY <1>1, <2>1 DEF RequestPublication, TypeOK, LibraryTyped
  <2> QED
    BY <1>1, <2>2 DEF RequestPublication, TypeOK, LibraryTyped, WorkTyped
<1>2. ASSUME NEW v \in Version, StoreParents(v) PROVE TypeOK'
  BY <1>2, Constants DEF StoreParents, NoWork, RowsOf, counted, TypeOK, LibraryTyped, WorkTyped
<1>3. ASSUME NEW c \in Child, IndexChild(c) PROVE TypeOK'
  BY <1>3, Constants DEF IndexChild, NoWork, NoPurge, counted, TypeOK, LibraryTyped, WorkTyped
<1>4. ASSUME Probe PROVE TypeOK'
  <2>1. PICK S \in SUBSET Child : writer' = [writer EXCEPT !.step = "writing", !.todo = S]
    BY <1>4 DEF Probe, PointsOf
  <2>2. writer.version # 0
    BY <1>4 DEF Probe, NoWork, TypeOK, WorkTyped
  <2> QED
    BY <1>4, <2>1, <2>2 DEF Probe, counted, TypeOK, LibraryTyped, WorkTyped
<1>5. ASSUME Promote PROVE TypeOK'
  <2>1. /\ writer.version \in Version \cup {0}
        /\ head' = [head EXCEPT ![ItemOf[writer.version]] = writer.version]
    BY <1>5 DEF Promote, TypeOK, WorkTyped
  <2>2. head' \in [Item -> Version \cup {0}] /\ \A i \in Item : head'[i] # 0 => ItemOf[head'[i]] = i
    BY <2>1 DEF TypeOK, LibraryTyped
  <2> QED
    BY <1>5, <2>2 DEF Promote, counted, TypeOK, LibraryTyped, WorkTyped, NoWork
<1>6. ASSUME WriterFails PROVE TypeOK'
  BY <1>6, Constants DEF WriterFails, NoWork, NoPurge, counted, TypeOK, LibraryTyped, WorkTyped
<1>7. ASSUME CleanPoints PROVE TypeOK'
  <2>1. writer.version # 0
    BY <1>7 DEF CleanPoints, NoWork, TypeOK, WorkTyped
  <2> QED
    BY <1>7, <2>1 DEF CleanPoints, counted, TypeOK, LibraryTyped, WorkTyped
<1>8. ASSUME CleanParents PROVE TypeOK'
  BY <1>8, Constants DEF CleanParents, NoWork, NoPurge, counted, TypeOK, LibraryTyped, WorkTyped
<1>9. ASSUME CleanFails PROVE TypeOK'
  BY <1>9, Constants DEF CleanFails, NoWork, NoPurge, counted, TypeOK, LibraryTyped, WorkTyped
<1>10. ASSUME NEW i \in Item, Archive(i) PROVE TypeOK'
  BY <1>10, Constants DEF Archive, Unheaded, WriterOf, NoWork, NoPurge, counted, TypeOK,
     LibraryTyped, WorkTyped
<1>11. ASSUME NEW i \in Item, Restore(i) PROVE TypeOK'
  <2>1. open' \subseteq Version
    BY <1>11 DEF Restore, Latest, TypeOK, LibraryTyped
  <2>2. overtaken' \subseteq Item /\ bin' \subseteq Item
    BY <1>11 DEF Restore, TypeOK, LibraryTyped
  <2>3. UNCHANGED <<parents, points, head, gone, pending, writer, purge>>
    BY <1>11 DEF Restore
  <2> QED
    BY <2>1, <2>2, <2>3 DEF TypeOK, LibraryTyped, WorkTyped
<1>12. ASSUME NEW i \in Item, Plan(i) PROVE TypeOK'
  BY <1>12, Constants DEF Plan, NoWork, NoPurge, counted, TypeOK, LibraryTyped, WorkTyped
<1>13. ASSUME NEW i \in Item, ForceDelete(i) PROVE TypeOK'
  BY ZenonT(60), <1>13, Constants DEF ForceDelete, Unheaded, WriterOf, NoWork, NoPurge, counted, TypeOK,
     LibraryTyped, WorkTyped
<1>14. ASSUME PurgePoints PROVE TypeOK'
  BY <1>14, Constants DEF PurgePoints, NoWork, NoPurge, counted, TypeOK, LibraryTyped, WorkTyped
<1>15. ASSUME PurgeParents PROVE TypeOK'
  BY <1>15, Constants DEF PurgeParents, NoWork, NoPurge, counted, TypeOK, LibraryTyped, WorkTyped
<1>16. ASSUME PurgeRecords PROVE TypeOK'
  <2>1. purge.item \in Item
    BY <1>16 DEF PurgeRecords, NoPurge, TypeOK, WorkTyped
  <2>2. /\ head' \in [Item -> Version \cup {0}]
        /\ \A i \in Item : head'[i] # 0 => ItemOf[head'[i]] = i
        /\ gone' \subseteq Item /\ bin' \subseteq Item /\ pending' \subseteq Version
    BY <1>16, <2>1 DEF PurgeRecords, TypeOK, LibraryTyped
  <2>3. writer.version = 0 => ~ WriterOf(purge.item)
    BY DEF WriterOf
  <2>4. WorkTyped'
    BY <1>16, <2>3 DEF PurgeRecords, NoPurge, NoWork, TypeOK, WorkTyped
  <2> QED
    BY <1>16, <2>2, <2>4 DEF PurgeRecords, counted, TypeOK, LibraryTyped
<1>17. ASSUME PurgeFails PROVE TypeOK'
  BY <1>17, Constants DEF PurgeFails, NoPurge, NoWork, counted, TypeOK, LibraryTyped, WorkTyped
<1>18. ASSUME Crash PROVE TypeOK'
  BY <1>18, Constants DEF Crash, NoPurge, NoWork, counted, TypeOK, LibraryTyped, WorkTyped
<1> QED
  BY <1>1, <1>2, <1>3, <1>4, <1>5, <1>6, <1>7, <1>8, <1>9, <1>10, <1>11, <1>12, <1>13, <1>14,
     <1>15, <1>16, <1>17, <1>18 DEF LibraryStep

(* Heads that go and publications that end show nothing that is pending. *)
LEMMA UnshownKept ==
  ASSUME TypeOK, Unshown, pending' \subseteq pending, \A k \in Item : head'[k] \in {head[k], 0}
  PROVE  Unshown'
<1>1. ASSUME NEW v \in pending' PROVE head'[ItemOf[v]] # v
  <2>1. v \in pending /\ v \in Version /\ ItemOf[v] \in Item /\ v # 0
    BY Constants DEF TypeOK, LibraryTyped
  <2>2. head[ItemOf[v]] # v
    BY <2>1 DEF Unshown
  <2> QED
    BY <2>1, <2>2
<1> QED
  BY <1>1 DEF Unshown

LEMMA UnshownStep ==
  ASSUME TypeOK, Unshown, Writing, LibraryStep \/ Crash
  PROVE  Unshown'
<1>1. ASSUME NEW v \in Version, RequestPublication(v) PROVE Unshown'
  BY <1>1 DEF RequestPublication, Unshown
<1>2. ASSUME NEW v \in Version, StoreParents(v) PROVE Unshown'
  BY <1>2, Constants DEF StoreParents, counted, Unshown
<1>3. ASSUME NEW c \in Child, IndexChild(c) PROVE Unshown'
  BY <1>3, Constants DEF IndexChild, counted, Unshown
<1>4. ASSUME Probe PROVE Unshown'
  BY <1>4, Constants DEF Probe, counted, Unshown
<1>5. ASSUME Promote PROVE Unshown'
  <2> DEFINE v == writer.version
  <2>1. v \in pending /\ v \in Version /\ pending' = pending \ {v}
    BY <1>5, Constants DEF Promote, Writing, NoWork, TypeOK, WorkTyped, LibraryTyped
  <2>2. \A k \in Item : head'[k] \in {head[k], v}
    BY <1>5 DEF Promote, TypeOK, LibraryTyped
  <2>3. ASSUME NEW w \in pending' PROVE head'[ItemOf[w]] # w
    <3>1. w \in pending /\ w # v /\ ItemOf[w] \in Item
      BY <2>1, Constants DEF TypeOK, LibraryTyped
    <3> QED
      BY <2>2, <3>1 DEF Unshown
  <2> QED
    BY <2>3 DEF Unshown
<1>6. ASSUME WriterFails PROVE Unshown'
  BY <1>6, Constants DEF WriterFails, counted, Unshown
<1>7. ASSUME CleanPoints PROVE Unshown'
  BY <1>7, Constants DEF CleanPoints, counted, Unshown
<1>8. ASSUME CleanParents PROVE Unshown'
  BY <1>8, Constants DEF CleanParents, counted, Unshown
<1>9. ASSUME CleanFails PROVE Unshown'
  BY <1>9, Constants DEF CleanFails, counted, Unshown
<1>10. ASSUME NEW i \in Item, Archive(i) PROVE Unshown'
  <2>1. \A k \in Item : head'[k] \in {head[k], 0}
    BY <1>10 DEF Archive, Unheaded, TypeOK, LibraryTyped
  <2>2. pending' \subseteq pending
    BY <1>10 DEF Archive
  <2> QED
    BY <2>1, <2>2, UnshownKept
<1>11. ASSUME NEW i \in Item, Restore(i) PROVE Unshown'
  BY <1>11, Constants DEF Restore, counted, Unshown
<1>12. ASSUME NEW i \in Item, Plan(i) PROVE Unshown'
  BY <1>12, Constants DEF Plan, counted, Unshown
<1>13. ASSUME NEW i \in Item, ForceDelete(i) PROVE Unshown'
  <2>1. \A k \in Item : head'[k] \in {head[k], 0}
    BY <1>13 DEF ForceDelete, Unheaded, TypeOK, LibraryTyped
  <2>2. pending' \subseteq pending
    BY <1>13 DEF ForceDelete
  <2> QED
    BY <2>1, <2>2, UnshownKept
<1>14. ASSUME PurgePoints PROVE Unshown'
  BY <1>14, Constants DEF PurgePoints, counted, Unshown
<1>15. ASSUME PurgeParents PROVE Unshown'
  BY <1>15, Constants DEF PurgeParents, counted, Unshown
<1>16. ASSUME PurgeRecords PROVE Unshown'
  <2>1. \A k \in Item : head'[k] \in {head[k], 0}
    BY <1>16 DEF PurgeRecords, Unheaded, TypeOK, LibraryTyped
  <2>2. pending' \subseteq pending
    BY <1>16 DEF PurgeRecords
  <2> QED
    BY <2>1, <2>2, UnshownKept
<1>17. ASSUME PurgeFails PROVE Unshown'
  BY <1>17, Constants DEF PurgeFails, counted, Unshown
<1>18. ASSUME Crash PROVE Unshown'
  BY <1>18, Constants DEF Crash, counted, Unshown
<1> QED
  BY <1>1, <1>2, <1>3, <1>4, <1>5, <1>6, <1>7, <1>8, <1>9, <1>10, <1>11, <1>12, <1>13, <1>14,
     <1>15, <1>16, <1>17, <1>18 DEF LibraryStep

LEMMA WritingStep ==
  ASSUME TypeOK, TypeOK', Unshown, Writing, Purging, LibraryStep \/ Crash
  PROVE  Writing'
<1>1. ASSUME NEW v \in Version, RequestPublication(v) PROVE Writing'
  <2>1. writer.version # 0 => writer.version \in Version
    BY DEF TypeOK, WorkTyped
  <2> QED
    BY <1>1, <2>1 DEF RequestPublication, Writing, Rowed
<1>2. ASSUME NEW v \in Version, StoreParents(v) PROVE Writing'
  <2>1. writer'.version = v /\ writer'.step = "stored" /\ ~ writer'.cancelled /\ writer'.todo = {}
    BY <1>2 DEF StoreParents, NoWork
  <2>2. pending' = pending /\ Rowed(v)'
    BY <1>2 DEF StoreParents, Rowed, RowsOf
  <2> QED
    BY <1>2, <2>1, <2>2 DEF StoreParents, Writing
<1>3. ASSUME NEW c \in Child, IndexChild(c) PROVE Writing'
  <2>1. /\ writer'.version = writer.version /\ writer'.step = writer.step
        /\ writer'.todo \subseteq writer.todo /\ writer'.cancelled = writer.cancelled
    BY <1>3 DEF IndexChild, TypeOK, WorkTyped
  <2> QED
    BY <1>3, <2>1 DEF IndexChild, counted, Writing, Rowed, PointsOf
<1>4. ASSUME Probe PROVE Writing'
  <2>1. PICK S \in SUBSET PointsOf(writer.version) :
          writer' = [writer EXCEPT !.step = "writing", !.todo = S]
    BY <1>4 DEF Probe
  <2>2. /\ writer'.version = writer.version /\ writer'.step = "writing" /\ writer'.todo = S
        /\ writer'.cancelled = writer.cancelled
    BY <2>1 DEF TypeOK, WorkTyped
  <2> QED
    BY <1>4, <2>2 DEF Probe, counted, Writing, Rowed, PointsOf
<1>5. ASSUME Promote PROVE Writing'
  <2>1. writer' = NoWork
    BY <1>5 DEF Promote
  <2> QED
    BY <2>1 DEF Writing, NoWork
<1>6. ASSUME WriterFails PROVE Writing'
  <2>1. writer' = NoWork
    BY <1>6 DEF WriterFails
  <2> QED
    BY <2>1 DEF Writing, NoWork
<1>7. ASSUME CleanPoints PROVE Writing'
  <2>1. /\ writer'.version = writer.version /\ writer'.step = "cleaning"
        /\ writer'.todo = {} /\ writer'.cancelled
    BY <1>7 DEF CleanPoints, TypeOK, WorkTyped
  <2> QED
    BY <1>7, <2>1 DEF CleanPoints, counted, Writing, Rowed
<1>8. ASSUME CleanParents PROVE Writing'
  <2>1. writer' = NoWork
    BY <1>8 DEF CleanParents
  <2> QED
    BY <2>1 DEF Writing, NoWork
<1>9. ASSUME CleanFails PROVE Writing'
  <2>1. writer' = NoWork
    BY <1>9 DEF CleanFails
  <2> QED
    BY <2>1 DEF Writing, NoWork
<1>10. ASSUME NEW i \in Item, Archive(i) PROVE Writing'
  <2>1. \A k \in Item : head'[k] \in {head[k], 0}
    BY <1>10 DEF Archive, Unheaded, TypeOK, LibraryTyped
  <2>2. writer.version # 0 => ItemOf[writer.version] \in Item
    BY Constants DEF TypeOK, WorkTyped
  <2> QED
    BY <1>10, <2>1, <2>2 DEF Archive, counted, Writing, Rowed
<1>11. ASSUME NEW i \in Item, Restore(i) PROVE Writing'
  BY <1>11, Constants DEF Restore, counted, Writing, Rowed
<1>12. ASSUME NEW i \in Item, Plan(i) PROVE Writing'
  BY <1>12, Constants DEF Plan, counted, Writing, Rowed
<1>13. ASSUME NEW i \in Item, ForceDelete(i) PROVE Writing'
  <2>1. /\ writer'.version = writer.version /\ writer'.step = writer.step
        /\ writer'.todo = writer.todo
        /\ writer'.cancelled = (writer.cancelled \/ WriterOf(i))
    BY <1>13 DEF ForceDelete, TypeOK, WorkTyped
  <2>2. \A k \in Item : head'[k] = IF k = i THEN 0 ELSE head[k]
    BY <1>13 DEF ForceDelete, Unheaded, TypeOK, LibraryTyped
  <2>3. writer.version # 0 => ItemOf[writer.version] \in Item
    BY Constants DEF TypeOK, WorkTyped
  <2>4. pending' = pending \ Pending(i) /\ overtaken' = overtaken /\ parents' = parents
    BY <1>13 DEF ForceDelete, counted
  <2>5. writer.version # 0 /\ ~ writer'.cancelled => writer.version \notin Pending(i)
    BY <2>1 DEF WriterOf, Pending
  <2> QED
    BY <2>1, <2>2, <2>3, <2>4, <2>5 DEF Writing, WriterOf, Rowed
<1>14. ASSUME PurgePoints PROVE Writing'
  BY <1>14, Constants DEF PurgePoints, counted, Writing, Rowed
<1>15. ASSUME PurgeParents PROVE Writing'
  <2>1. ASSUME writer.version # 0, ~ writer.cancelled, ItemOf[writer.version] \notin overtaken
        PROVE  Rowed(writer.version)'
    <3>1. writer.version \in pending /\ Rowed(writer.version)
      BY <2>1 DEF Writing
    <3>2. purge.item \in Item
      BY <1>15 DEF PurgeParents, NoPurge, TypeOK, WorkTyped
    <3>3. ItemOf[writer.version] # purge.item
      BY <2>1, <3>1, <3>2, Constants DEF Purging, Pending
    <3> QED
      BY <1>15, <3>1, <3>3 DEF PurgeParents, Rowed, RowsOf, ItemRows
  <2> QED
    BY <1>15, <2>1 DEF PurgeParents, counted, Writing
<1>16. ASSUME PurgeRecords PROVE Writing'
  <2>1. /\ writer'.version = writer.version /\ writer'.step = writer.step
        /\ writer'.todo = writer.todo
        /\ writer'.cancelled = (writer.cancelled \/ WriterOf(purge.item))
    BY <1>16 DEF PurgeRecords, TypeOK, WorkTyped
  <2>2. \A k \in Item : head'[k] = IF k = purge.item THEN 0 ELSE head[k]
    BY <1>16 DEF PurgeRecords, Unheaded, TypeOK, LibraryTyped
  <2>3. writer.version # 0 => ItemOf[writer.version] \in Item
    BY Constants DEF TypeOK, WorkTyped
  <2>4. pending' = pending \ Pending(purge.item) /\ overtaken' = overtaken /\ parents' = parents
    BY <1>16 DEF PurgeRecords, counted
  <2>5. writer.version # 0 /\ ~ writer'.cancelled => writer.version \notin Pending(purge.item)
    BY <2>1 DEF WriterOf, Pending
  <2> QED
    BY <2>1, <2>2, <2>3, <2>4, <2>5 DEF Writing, WriterOf, Rowed
<1>17. ASSUME PurgeFails PROVE Writing'
  BY <1>17, Constants DEF PurgeFails, counted, Writing, Rowed
<1>18. ASSUME Crash PROVE Writing'
  <2>1. writer' = NoWork
    BY <1>18 DEF Crash
  <2> QED
    BY <2>1 DEF Writing, NoWork
<1> QED
  BY <1>1, <1>2, <1>3, <1>4, <1>5, <1>6, <1>7, <1>8, <1>9, <1>10, <1>11, <1>12, <1>13, <1>14,
     <1>15, <1>16, <1>17, <1>18 DEF LibraryStep

(* What is written is not what is on show of an item whose purge was not
   overtaken, nor what is on show at all. *)
LEMMA WrittenUnseen ==
  ASSUME TypeOK, Unshown, Writing, writer.version # 0
  PROVE  /\ writer.version \in Version /\ ItemOf[writer.version] \in Item
         /\ \A i \in Item : head[i] # writer.version
<1>1. writer.version \in Version /\ ItemOf[writer.version] \in Item
  BY Constants DEF TypeOK, WorkTyped
<1>2. head[ItemOf[writer.version]] # writer.version
  <2>1. CASE writer.cancelled
    BY <2>1 DEF Writing
  <2>2. CASE ~ writer.cancelled
    BY <2>2 DEF Writing, Unshown
  <2> QED
    BY <2>1, <2>2
<1>3. \A i \in Item : head[i] = writer.version => i = ItemOf[writer.version]
  BY DEF TypeOK, LibraryTyped
<1> QED
  BY <1>1, <1>2, <1>3

(* A step that gives no item another version to show and shows none of it a
   new point. *)
Dims ==
  \A i \in Item : head'[i] # 0 => head'[i] = head[i] /\ (NoPoints(head[i]) => NoPoints(head[i])')

Publishing ==
  \/ \E v \in Version : RequestPublication(v) \/ StoreParents(v)
  \/ \E c \in Child : IndexChild(c)
  \/ Probe \/ WriterFails \/ CleanPoints \/ CleanParents \/ CleanFails

Removing ==
  \/ \E i \in Item : Archive(i) \/ Restore(i) \/ Plan(i) \/ ForceDelete(i)
  \/ PurgePoints \/ PurgeParents \/ PurgeRecords \/ PurgeFails \/ Crash

LEMMA StepDims ==
  ASSUME TypeOK, Unshown, Writing, Publishing \/ Removing
  PROVE  Dims /\ overtaken \subseteq overtaken'
<1> USE DEF RequestPublication, StoreParents, IndexChild, Probe, WriterFails, CleanPoints, CleanParents,
    CleanFails, Archive, Restore, Plan, ForceDelete, PurgePoints, PurgeParents, PurgeRecords,
    PurgeFails, Crash, counted
<1>1. overtaken \subseteq overtaken'
  BY DEF Publishing, Removing
<1>2. \A i \in Item : head'[i] # 0 => head'[i] = head[i]
  BY DEF Publishing, Removing, Unheaded, TypeOK, LibraryTyped
<1>3. CASE \E c \in Child : IndexChild(c)
  <2>1. PICK c \in Child : IndexChild(c)
    BY <1>3
  <2>2. writer.version # 0 /\ VersionOfChild(c) = writer.version
    BY <2>1 DEF Writing, NoWork, TypeOK, WorkTyped, PointsOf
  <2>3. head' = head /\ points' = points \cup {c}
    BY <2>1
  <2> QED
    BY <1>1, <2>2, <2>3, WrittenUnseen DEF Dims, NoPoints
<1>4. CASE ~ \E c \in Child : IndexChild(c)
  <2>1. points' \subseteq points
    BY <1>4 DEF Publishing, Removing
  <2> QED
    BY <1>1, <1>2, <2>1 DEF Dims, NoPoints
<1> QED
  BY <1>3, <1>4

LEMMA PurgingStep ==
  ASSUME TypeOK, TypeOK', Unshown, Writing, Purging, LibraryStep \/ Crash
  PROVE  Purging'
<1>1. ASSUME NEW v \in Version, RequestPublication(v) PROVE Purging'
  <2>1. head' = head /\ points' = points /\ bin' = bin /\ purge' = purge /\ ItemOf[v] \in Item
    BY <1>1, Constants DEF RequestPublication
  <2>2. purge.item \notin overtaken' =>
          purge.item \notin overtaken /\ Pending(purge.item)' = Pending(purge.item)
    BY <1>1 DEF RequestPublication, Pending
  <2> QED
    BY <2>1, <2>2 DEF Purging, NoPoints
<1>2. ASSUME NEW v \in Version, StoreParents(v) PROVE Purging'
  BY <1>2 DEF StoreParents, counted, Purging, Pending, NoPoints
<1>3. ASSUME NEW c \in Child, IndexChild(c) PROVE Purging'
  <2>1. UNCHANGED <<head, bin, pending, purge, overtaken>> /\ writer.version # 0
        /\ points' = points \cup {c} /\ VersionOfChild(c) = writer.version
    BY <1>3 DEF IndexChild, counted, Writing, NoWork, TypeOK, WorkTyped, PointsOf
  <2>2. purge.item # NoItem => purge.item \in Item
    BY DEF TypeOK, WorkTyped
  <2> QED
    BY <2>1, <2>2, WrittenUnseen DEF Purging, Pending, NoPoints
<1>4. ASSUME Probe PROVE Purging'
  BY <1>4 DEF Probe, counted, Purging, Pending, NoPoints
<1>5. ASSUME Promote PROVE Purging'
  <2>1. writer.version # 0 /\ ~ writer.cancelled /\ writer.version \in pending
    BY <1>5 DEF Promote, Writing, NoWork, TypeOK, WorkTyped
  <2>2. /\ UNCHANGED <<bin, purge, overtaken, points>> /\ pending' \subseteq pending
        /\ head' = [head EXCEPT ![ItemOf[writer.version]] = writer.version]
    BY <1>5 DEF Promote, counted
  <2>3. purge.item # NoItem /\ purge.item \notin overtaken
          => purge.item \in Item /\ purge.item # ItemOf[writer.version]
    BY <2>1 DEF Purging, Pending, TypeOK, WorkTyped
  <2> QED
    BY <2>2, <2>3 DEF Purging, Pending, NoPoints, TypeOK, LibraryTyped
<1>6. ASSUME WriterFails PROVE Purging'
  <2>1. /\ UNCHANGED <<head, bin, purge, overtaken>> /\ pending' \subseteq pending
        /\ points' \subseteq points
    BY <1>6 DEF WriterFails, counted
  <2> QED
    BY <2>1 DEF Purging, Pending, NoPoints
<1>7. ASSUME CleanPoints PROVE Purging'
  <2>1. /\ UNCHANGED <<head, bin, purge, overtaken>> /\ pending' \subseteq pending
        /\ points' \subseteq points
    BY <1>7 DEF CleanPoints, counted
  <2> QED
    BY <2>1 DEF Purging, Pending, NoPoints
<1>8. ASSUME CleanParents PROVE Purging'
  <2>1. /\ UNCHANGED <<head, bin, purge, overtaken>> /\ pending' \subseteq pending
        /\ points' \subseteq points
    BY <1>8 DEF CleanParents, counted
  <2> QED
    BY <2>1 DEF Purging, Pending, NoPoints
<1>9. ASSUME CleanFails PROVE Purging'
  <2>1. /\ UNCHANGED <<head, bin, purge, overtaken>> /\ pending' \subseteq pending
        /\ points' \subseteq points
    BY <1>9 DEF CleanFails, counted
  <2> QED
    BY <2>1 DEF Purging, Pending, NoPoints
<1>10. ASSUME NEW i \in Item, Archive(i) PROVE Purging'
  <2>1. /\ UNCHANGED <<pending, purge, overtaken, points>> /\ bin \subseteq bin'
        /\ \A k \in Item : head'[k] \in {head[k], 0}
    BY <1>10 DEF Archive, Unheaded, counted, TypeOK, LibraryTyped
  <2>2. NoPoints(0)
    BY Constants DEF NoPoints, TypeOK, LibraryTyped
  <2>3. purge.item # NoItem => purge.item \in Item
    BY DEF TypeOK, WorkTyped
  <2> QED
    BY <2>1, <2>2, <2>3 DEF Purging, Pending, NoPoints
<1>11. ASSUME NEW i \in Item, Restore(i) PROVE Purging'
  <2>1. /\ UNCHANGED <<pending, purge, head, points>> /\ bin' = bin \ {i}
        /\ purge.item \notin overtaken' => purge.item \notin overtaken /\ purge.item # i
    BY <1>11 DEF Restore
  <2> QED
    BY <2>1 DEF Purging, Pending, NoPoints
<1>12. ASSUME NEW i \in Item, Plan(i) PROVE Purging'
  <2>1. purge' = [item |-> i, step |-> "planned"] /\ i \in bin' /\ Pending(i)' = {}
    BY <1>12 DEF Plan, Purgeable, Pending
  <2> QED
    BY <2>1 DEF Purging
<1>13. ASSUME NEW i \in Item, ForceDelete(i) PROVE Purging'
  <2>1. purge' = [item |-> i, step |-> "planned"] /\ i \in bin' /\ Pending(i)' = {}
    BY <1>13 DEF ForceDelete, Pending
  <2> QED
    BY <2>1 DEF Purging
<1>14. ASSUME PurgePoints PROVE Purging'
  <2>1. /\ UNCHANGED <<pending, head, bin, overtaken>> /\ purge'.item = purge.item
        /\ points' = points \ ItemPoints(purge.item)
    BY <1>14 DEF PurgePoints, counted, TypeOK, WorkTyped
  <2>2. purge.item # NoItem => NoPoints(head[purge.item])'
    <3>1. SUFFICES ASSUME purge.item # NoItem, NEW c \in points',
                          VersionOfChild(c) = head[purge.item]
                   PROVE  FALSE
      BY <2>1 DEF NoPoints
    <3>2. purge.item \in Item /\ c \in Child /\ VersionOfChild(c) \in Version
      BY <3>1, <2>1, Constants DEF TypeOK, LibraryTyped, WorkTyped
    <3>3. ItemOf[VersionOfChild(c)] = purge.item
      BY <3>1, <3>2, Constants DEF TypeOK, LibraryTyped
    <3> QED
      BY <3>1, <3>2, <3>3, <2>1 DEF ItemPoints
  <2> QED
    BY <2>1, <2>2 DEF Purging, Pending
<1>15. ASSUME PurgeParents PROVE Purging'
  <2>1. /\ UNCHANGED <<head, bin, pending, points, overtaken>>
        /\ purge'.item = purge.item /\ purge.step = "points"
    BY <1>15 DEF PurgeParents, counted, TypeOK, WorkTyped
  <2> QED
    BY <2>1 DEF Purging, Pending, NoPoints
<1>16. ASSUME PurgeRecords PROVE Purging'
  <2>1. purge'.item = NoItem
    BY <1>16 DEF PurgeRecords, NoPurge
  <2> QED
    BY <2>1 DEF Purging
<1>17. ASSUME PurgeFails PROVE Purging'
  <2>1. purge'.item = NoItem
    BY <1>17 DEF PurgeFails, NoPurge
  <2> QED
    BY <2>1 DEF Purging
<1>18. ASSUME Crash PROVE Purging'
  <2>1. purge'.item = NoItem
    BY <1>18 DEF Crash, NoPurge
  <2> QED
    BY <2>1 DEF Purging
<1> QED
  BY <1>1, <1>2, <1>3, <1>4, <1>5, <1>6, <1>7, <1>8, <1>9, <1>10, <1>11, <1>12, <1>13, <1>14,
     <1>15, <1>16, <1>17, <1>18 DEF LibraryStep

LEMMA ServingStep ==
  ASSUME TypeOK, Unshown, Writing, Purging, Serving, LibraryStep \/ Crash
  PROVE  Serving'
<1>1. CASE Promote
  <2>1. writer.version # 0 /\ ~ writer.cancelled /\ writer.version \in pending
    BY <1>1 DEF Promote, Writing, NoWork, TypeOK, WorkTyped
  <2>2. /\ UNCHANGED <<overtaken, points, parents>>
        /\ head' = [head EXCEPT ![ItemOf[writer.version]] = writer.version]
    BY <1>1 DEF Promote, counted
  <2>3. ItemOf[writer.version] \notin overtaken => Rowed(writer.version)
    BY <2>1 DEF Writing
  <2> QED
    BY <2>1, <2>2, <2>3 DEF Serving, Rowed, NoPoints, TypeOK, LibraryTyped
<1>2. CASE Publishing \/ Removing
  <2>0. Dims /\ overtaken \subseteq overtaken'
    BY <1>2, StepDims
  <2>1. CASE parents \subseteq parents'
    BY <2>0, <2>1 DEF Dims, Serving, Rowed
  <2>2. CASE CleanParents
    <3>1. writer.version # 0 /\ parents' = parents \ RowsOf(writer.version)
      BY <2>2 DEF CleanParents, Writing, NoWork, TypeOK, WorkTyped
    <3>2. \A i \in Item : Rowed(head[i]) => RowsOf(head[i]) \subseteq parents'
      BY <3>1, WrittenUnseen DEF Rowed, RowsOf
    <3> QED
      BY <2>0, <3>2 DEF Dims, Serving, Rowed
  <2>3. CASE PurgeParents
    <3>1. /\ purge.item \in Item /\ purge.step = "points"
          /\ parents' = parents \ ItemRows(purge.item)
      BY <2>3 DEF PurgeParents, NoPurge, TypeOK, WorkTyped
    <3>2. \A i \in Item : head[i] # 0 /\ i # purge.item /\ Rowed(head[i])
                            => RowsOf(head[i]) \subseteq parents'
      BY <3>1 DEF Rowed, RowsOf, ItemRows, TypeOK, LibraryTyped
    <3>3. purge.item \notin overtaken => NoPoints(head[purge.item])
      BY <3>1, Constants DEF Purging
    <3> QED
      BY <2>0, <3>2, <3>3 DEF Dims, Serving, Rowed
  <2> QED
    BY <1>2, <2>1, <2>2, <2>3 DEF Publishing, Removing, RequestPublication, StoreParents,
       IndexChild, Probe,
       WriterFails, CleanPoints, CleanFails, Archive, Restore, Plan, ForceDelete, PurgePoints,
       PurgeRecords,
       PurgeFails, Crash
<1> QED
  BY <1>1, <1>2 DEF LibraryStep, Publishing, Removing

-----------------------------------------------------------------------------
(* Induction over the naturals, for sets. *)
LEMMA NatSetInduction ==
  ASSUME NEW T, 0 \in T, \A n \in Nat : n \in T => n + 1 \in T
  PROVE  Nat \subseteq T
<1> DEFINE Below == {ss \in Nat \X Nat : ss[1] < ss[2]}
<1>1. IsWellFoundedOn(Below, Nat)
  <2>1. OpToRel(<, Nat) = Below
    BY DEF OpToRel
  <2> QED
    BY <2>1, NatLessThanWellFounded
<1> SUFFICES ASSUME Nat \ T # {} PROVE FALSE
  OBVIOUS
<1>2. Nat \ T \subseteq Nat
  OBVIOUS
<1>3. PICK m \in Nat \ T : \A n \in Nat \ T : <<n, m>> \notin Below
  <2> HIDE DEF Below
  <2> QED
    BY <1>1, <1>2, WFMin
<1>4. m # 0 /\ m - 1 \in Nat /\ m - 1 < m
  BY <1>3
<1>5. m - 1 \in T
  BY <1>3, <1>4
<1> QED
  BY <1>3, <1>4, <1>5

(* The largest number of a set that ends at n. *)
LEMMA MaxAt ==
  ASSUME NEW n \in Nat, NEW S \in SUBSET (1 .. n), n \in S
  PROVE  Max(S) = n
<1>1. \A x \in S : x \in Nat /\ x <= n
  OBVIOUS
<1>2. \A y \in S : n >= y
  BY <1>1
<1>3. Max(S) \in S /\ \A y \in S : Max(S) >= y
  BY <1>2 DEF Max
<1>4. Max(S) >= n /\ Max(S) <= n /\ Max(S) \in Nat
  BY <1>1, <1>3
<1> QED
  BY <1>4

(* What one step of _dedup_to_parents does with a child. *)
Taken(k, P, s, c) == IF ParentOf[c] \in P THEN Admit(k, s, c) ELSE s

LEMMA TakenIn ==
  ASSUME NEW k, NEW P, NEW Q, NEW s \in Seq(Q), NEW c, ParentOf[c] \in Q
  PROVE  Taken(k, P, s, c) \in Seq(Q)
  BY DEF Taken, Admit

(* The fold over a sequence, as a function of the positions it has seen. *)
Folding(k, P, cs, n, g) ==
  g = [S \in SUBSET (1 .. n) |->
         IF S = {} THEN <<>> ELSE Taken(k, P, g[S \ {Max(S)}], cs[Max(S)])]

LEMMA FoldingExists ==
  ASSUME NEW k, NEW P, NEW cs
  PROVE  \A n \in Nat : \E g : Folding(k, P, cs, n, g)
<1> DEFINE T == {n \in Nat : \E g : Folding(k, P, cs, n, g)}
<1>1. 0 \in T
  <2> DEFINE g == [S \in SUBSET (1 .. 0) |-> <<>>]
  <2>1. Folding(k, P, cs, 0, g)
    BY DEF Folding
  <2> QED
    BY <2>1
<1>2. ASSUME NEW n \in Nat, n \in T PROVE n + 1 \in T
  <2>1. PICK g : Folding(k, P, cs, n, g)
    BY <1>2
  <2> DEFINE h == [S \in SUBSET (1 .. n + 1) |->
                     IF n + 1 \in S THEN Taken(k, P, g[S \ {n + 1}], cs[n + 1]) ELSE g[S]]
  <2>2. ASSUME NEW S \in SUBSET (1 .. n + 1)
        PROVE  h[S] = IF S = {} THEN <<>> ELSE Taken(k, P, h[S \ {Max(S)}], cs[Max(S)])
    <3>1. CASE n + 1 \in S
      <4>1. Max(S) = n + 1
        BY <3>1, MaxAt
      <4>2. S \ {n + 1} \in SUBSET (1 .. n) /\ S \ {n + 1} \in SUBSET (1 .. n + 1)
        OBVIOUS
      <4>3. h[S \ {n + 1}] = g[S \ {n + 1}] /\ h[S] = Taken(k, P, g[S \ {n + 1}], cs[n + 1])
        BY <3>1, <4>2
      <4> HIDE DEF h
      <4> QED
        BY <3>1, <4>1, <4>3
    <3>2. CASE n + 1 \notin S
      <4>1. S \in SUBSET (1 .. n)
        BY <3>2
      <4>2. \A R \in SUBSET S : R \in SUBSET (1 .. n + 1) /\ n + 1 \notin R /\ h[R] = g[R]
        BY <3>2
      <4>3. g[S] = IF S = {} THEN <<>> ELSE Taken(k, P, g[S \ {Max(S)}], cs[Max(S)])
        BY <2>1, <4>1 DEF Folding
      <4>4. h[S] = g[S] /\ h[S \ {Max(S)}] = g[S \ {Max(S)}]
        BY <4>2
      <4> HIDE DEF h
      <4> QED
        BY <4>3, <4>4
    <3> QED
      BY <3>1, <3>2
  <2>3. Folding(k, P, cs, n + 1, h)
    BY <2>2 DEF Folding
  <2> HIDE DEF h
  <2> QED
    BY <2>3
<1> HIDE DEF T
<1>3. Nat \subseteq T
  BY <1>1, <1>2, NatSetInduction
<1> QED
  BY <1>3 DEF T

LEMMA FoldingIn ==
  ASSUME NEW k, NEW P, NEW Q, NEW n \in Nat, NEW cs, \A i \in 1 .. n : ParentOf[cs[i]] \in Q,
         NEW g, Folding(k, P, cs, n, g)
  PROVE  \A S \in SUBSET (1 .. n) : g[S] \in Seq(Q)
<1> DEFINE T == {m \in Nat : m <= n => \A S \in SUBSET (1 .. m) : g[S] \in Seq(Q)}
<1>0. \A S \in SUBSET (1 .. n) :
        g[S] = IF S = {} THEN <<>> ELSE Taken(k, P, g[S \ {Max(S)}], cs[Max(S)])
  BY DEF Folding
<1> HIDE DEF T
<1>1. 0 \in T
  <2>1. \A S \in SUBSET (1 .. 0) : S = {}
    OBVIOUS
  <2>2. {} \in SUBSET (1 .. n)
    OBVIOUS
  <2>3. g[{}] = <<>>
    BY <1>0, <2>2
  <2>4. <<>> \in Seq(Q)
    OBVIOUS
  <2> QED
    BY <2>1, <2>3, <2>4 DEF T
<1>2. ASSUME NEW m \in Nat, m \in T PROVE m + 1 \in T
  <2>0. m + 1 \in Nat
    OBVIOUS
  <2> SUFFICES ASSUME m + 1 <= n, NEW S \in SUBSET (1 .. m + 1) PROVE g[S] \in Seq(Q)
    BY <2>0 DEF T
  <2>1. CASE m + 1 \in S
    <3>1. S \in SUBSET (1 .. n) /\ Max(S) = m + 1 /\ m + 1 \in 1 .. n
      BY <2>1, MaxAt
    <3>2. g[S \ {m + 1}] \in Seq(Q)
      <4>1. S \ {m + 1} \in SUBSET (1 .. m) /\ m <= n
        OBVIOUS
      <4> QED
        BY <1>2, <4>1 DEF T
    <3>3. g[S] = Taken(k, P, g[S \ {m + 1}], cs[m + 1])
      BY <1>0, <2>1, <3>1
    <3> QED
      BY <3>1, <3>2, <3>3, TakenIn
  <2>2. CASE m + 1 \notin S
    <3>1. S \in SUBSET (1 .. m) /\ m <= n
      BY <2>2
    <3> QED
      BY <1>2, <3>1 DEF T
  <2> QED
    BY <2>1, <2>2
<1> HIDE DEF T
<1>3. Nat \subseteq T
  BY <1>1, <1>2, NatSetInduction
<1> QED
  BY <1>3 DEF T

(* Whatever the limits, the selection is made of parents of the children. *)
LEMMA DedupIn ==
  ASSUME NEW k, NEW P, NEW Q, NEW n \in Nat, NEW cs, DOMAIN cs = 1 .. n,
         \A i \in 1 .. n : ParentOf[cs[i]] \in Q
  PROVE  Dedup(k, P, cs) \in Seq(Q)
<1> DEFINE it == CHOOSE g : Folding(k, P, cs, n, g)
<1>1. Folding(k, P, cs, n, it)
  BY FoldingExists
<1>2. Dedup(k, P, cs) = it[1 .. n]
  BY DEF Dedup, FoldLeft, MapThenFoldSet, Folding, Taken
<1> HIDE DEF it
<1>3. \A S \in SUBSET (1 .. n) : it[S] \in Seq(Q)
  BY <1>1, FoldingIn
<1> QED
  BY <1>2, <1>3
-----------------------------------------------------------------------------
(* Every selection is made of parents of children that were found. *)
LEMMA OrdersTyped ==
  ASSUME NEW S, NEW n \in Nat, NEW h \in OrdersOf(S, n)
  PROVE  h \in Seq(S) /\ ToSet(h) \subseteq S
<1>1. h \in [1 .. n -> S]
  BY DEF OrdersOf, Injection
<1> QED
  BY <1>1 DEF ToSet

LEMMA SelectedIn ==
  ASSUME NEW hits \in Seq(Seq(Child)), NEW s \in Selections(hits), NEW Q,
         \A k \in DOMAIN hits : \A c \in ToSet(hits[k]) : ParentOf[c] \in Q
  PROVE  s \in Seq(Q)
<1>1. CASE Len(hits) = 1
  <2>1. hits[1] \in Seq(Child) /\ 1 \in DOMAIN hits
    BY <1>1
  <2>2. \A i \in 1 .. Len(hits[1]) : ParentOf[hits[1][i]] \in Q
    BY <2>1 DEF ToSet
  <2>3. DOMAIN hits[1] = 1 .. Len(hits[1]) /\ Len(hits[1]) \in Nat
    BY <2>1
  <2>4. s = Dedup(TopK, Parent, hits[1])
    BY <1>1 DEF Selections
  <2> QED
    BY <2>2, <2>3, <2>4, DedupIn
<1>2. CASE Len(hits) # 1
  <2>1. PICK S \in Reranked(hits) :
          \E order \in OrdersOf(S, Cardinality(S)) : s = Fused(hits, order)
    BY <1>2 DEF Selections
  <2>2. PICK order \in OrdersOf(S, Cardinality(S)) : s = Fused(hits, order)
    BY <2>1
  <2>3. S \subseteq Found(hits)
    BY <2>1 DEF Reranked
  <2>4. \A c \in Found(hits) : c \in Child /\ ParentOf[c] \in Q
    <3>1. \A k \in DOMAIN hits : ToSet(hits[k]) \subseteq Child
      BY DEF ToSet
    <3> QED
      BY <3>1 DEF Found
  <2>5. Cardinality(S) \in Nat
    <3>1. S \subseteq Child /\ IsFiniteSet(Child)
      BY <2>3, <2>4, RetrievalAssumption
    <3> QED
      BY <3>1, FS_Subset, FS_CardinalityType
  <2>6. order \in Seq(S) /\ ToSet(order) \subseteq S /\ DOMAIN order = 1 .. Cardinality(S)
    BY <2>5, OrdersTyped DEF OrdersOf, Injection
  <2>7. \A i \in 1 .. Cardinality(S) : ParentOf[order[i]] \in Q
    BY <2>3, <2>4, <2>6 DEF ToSet
  <2>8. \E P : s = Dedup(MultiTopK, P, order)
    BY <2>2 DEF Fused
  <2> QED
    BY <2>5, <2>6, <2>7, <2>8, DedupIn
<1> QED
  BY <1>1, <1>2
-----------------------------------------------------------------------------
(* The search. *)

(* No step of the library takes a row away from a version that stays held. *)
LEMMA RowsStand ==
  ASSUME TypeOK, Unshown, Writing, Purging, Searching, Library, NEW p \in Parent, Standing(p)
  PROVE  Standing(p)'
<1> DEFINE v == VersionOf[p]
<1>0. v \in Version /\ ItemOf[v] \in Item
  BY Constants
<1>1. SUFFICES ASSUME v \in search'.held, ItemOf[v] \notin overtaken'
               PROVE  p \in parents'
  BY DEF Standing
<1>2. v \in search.held /\ v \in OnShow' /\ ItemOf[v] \notin bin'
  BY <1>1 DEF Library
<1>3. head'[ItemOf[v]] = v
  BY <1>2 DEF OnShow
<1>4. overtaken \subseteq overtaken' 
  BY DEF Library, LibraryStep, RequestPublication, StoreParents, IndexChild, Probe, Promote,
     WriterFails,
     CleanPoints,
     CleanParents, CleanFails, Archive, Restore, Plan, ForceDelete, PurgePoints, PurgeParents,
     PurgeRecords, PurgeFails, counted
<1>5. p \in parents
  BY <1>1, <1>2, <1>4 DEF Standing
<1>6. CASE CleanParents
  <2>1. writer.version # 0 /\ parents' = parents \ RowsOf(writer.version) /\ head' = head
    BY <1>6 DEF CleanParents, NoWork, TypeOK, WorkTyped
  <2>2. v # writer.version
    BY <1>0, <1>3, <2>1, WrittenUnseen
  <2> QED
    BY <1>5, <2>1, <2>2 DEF RowsOf
<1>7. CASE PurgeParents
  <2>1. /\ purge.item \in Item /\ bin' = bin /\ overtaken' = overtaken
        /\ parents' = parents \ ItemRows(purge.item)
    BY <1>7 DEF PurgeParents, counted, NoPurge, TypeOK, WorkTyped
  <2>2. ItemOf[v] # purge.item
    BY <1>1, <1>2, <2>1, Constants DEF Purging
  <2> QED
    BY <1>5, <2>1, <2>2 DEF ItemRows
<1>8. CASE parents \subseteq parents'
  BY <1>5, <1>8
<1> QED
  BY <1>6, <1>7, <1>8 DEF Library, LibraryStep, RequestPublication, StoreParents, IndexChild,
     Probe, Promote,
     WriterFails,
     CleanPoints, CleanFails, Archive, Restore, Plan, ForceDelete, PurgePoints,
       PurgeRecords, PurgeFails

(* What Serving says of the points. *)
LEMMA Resolves ==
  ASSUME TypeOK, Serving
  PROVE  HitsResolve
<1> SUFFICES ASSUME NEW c \in points, VersionOfChild(c) \in OnShow,
                    ItemOf[VersionOfChild(c)] \notin overtaken
             PROVE  ParentOf[c] \in parents
  BY DEF HitsResolve
<1> DEFINE v == VersionOfChild(c)
<1>1. v \in Version /\ ItemOf[v] \in Item /\ v # 0 /\ ParentOf[c] \in Parent
  BY Constants DEF TypeOK, LibraryTyped
<1>2. head[ItemOf[v]] = v
  BY DEF OnShow
<1>3. Rowed(v)
  BY <1>1, <1>2 DEF Serving, NoPoints
<1> QED
  BY <1>1, <1>3 DEF Rowed, RowsOf, VersionOfChild

LEMMA LibrarySearching ==
  ASSUME IInv, Library
  PROVE  SearchTyped' /\ Searching' /\ NothingLost'
<1>1. /\ search'.held = {v \in search.held : v \in OnShow' /\ ItemOf[v] \notin bin'}
      /\ search'.hits = search.hits /\ search'.chosen = search.chosen
      /\ search'.found = search.found
      /\ search'.pc = search.pc /\ search'.snap = search.snap
  BY DEF Library, IInv, SearchTyped
<1>2. \A p \in Parent : Standing(p) => Standing(p)'
  BY RowsStand DEF IInv
<1>3. \A c \in Child : ParentOf[c] \in Parent
  BY Constants
<1>4. SearchTyped'
  BY DEF Library, IInv, SearchTyped
<1>5. \A k \in DOMAIN search.hits : ToSet(search.hits[k]) \subseteq Child
  BY DEF IInv, SearchTyped, ToSet
<1>6. ToSet(search.chosen) \subseteq Parent
  BY DEF IInv, SearchTyped, ToSet
<1>7. Searching'
  <2>1. ASSUME search.pc = "looked", NEW k \in DOMAIN search.hits, NEW c \in ToSet(search.hits[k])
        PROVE  VersionOfChild(c) \in search.snap /\ Standing(ParentOf[c])'
    <3>1. c \in Child /\ VersionOfChild(c) \in search.snap /\ Standing(ParentOf[c])
      BY <1>5, <2>1 DEF IInv, Searching
    <3> QED
      BY <1>2, <1>3, <3>1
  <2>2. ASSUME search.pc = "chosen", NEW p \in ToSet(search.chosen)
        PROVE  VersionOf[p] \in search.snap /\ Standing(p)'
    BY <1>2, <1>6, <2>2 DEF IInv, Searching
  <2>3. \A v \in search'.held : v \in OnShow' /\ ItemOf[v] \notin bin'
    BY <1>1
  <2> QED
    BY <1>1, <2>1, <2>2, <2>3 DEF Searching
<1>8. overtaken \subseteq overtaken'
  BY DEF Library, LibraryStep, RequestPublication, StoreParents, IndexChild, Probe, Promote,
     WriterFails,
     CleanPoints,
     CleanParents, CleanFails, Archive, Restore, Plan, ForceDelete, PurgePoints, PurgeParents,
     PurgeRecords, PurgeFails, counted
<1>9. NothingLost'
  BY <1>1, <1>8 DEF IInv, NothingLost
<1> QED
  BY <1>4, <1>7, <1>9

LEMMA CrashSearching ==
  ASSUME search' = NoSearch
  PROVE  SearchTyped' /\ Searching' /\ NothingLost'
<1>1. <<>> \in Seq(Seq(Child)) /\ <<>> \in Seq(Parent)
  OBVIOUS
<1>2. SearchTyped'
  BY <1>1 DEF NoSearch, SearchTyped
<1>3. Searching' /\ NothingLost'
  BY DEF NoSearch, Searching, NothingLost
<1> QED
  BY <1>2, <1>3

(* The steps of a search leave the library as it is. *)
SearchStep == (\E m \in 1 .. Subs : Look(m)) \/ Recall \/ Select \/ Fetch \/ Leave

LEMMA SearchSearching ==
  ASSUME IInv, SearchStep
  PROVE  SearchTyped' /\ Searching' /\ NothingLost'
<1>0. UNCHANGED library
  BY DEF SearchStep, Look, Recall, Select, Fetch, Leave
<1>1. OnShow' = OnShow /\ bin' = bin /\ parents' = parents /\ overtaken' = overtaken
  BY <1>0 DEF library, counted, OnShow
<1>2. CASE \E m \in 1 .. Subs : Look(m)
  <2>1. PICK m \in 1 .. Subs : Look(m)
    BY <1>2
  <2>2. /\ search'.pc = "looked" /\ search'.hits = <<>>
        /\ search'.held = {v \in OnShow : ItemOf[v] \notin bin}
    BY <2>1 DEF Look, NoSearch
  <2>3. <<>> \in Seq(Seq(Child)) /\ <<>> \in Seq(Parent) /\ m \in Nat
    BY RetrievalAssumption
  <2>4. SearchTyped'
    BY <2>1, <2>3 DEF Look, NoSearch, SearchTyped, OnShow
  <2> QED
    BY <1>1, <2>2, <2>4 DEF Searching, NothingLost
<1>3. CASE Recall
  <2>1. PICK h \in OrdersOf(Matches, Least(RecallLimit, Cardinality(Matches))) :
          search' = [search EXCEPT !.hits = Append(@, h)]
    BY <1>3 DEF Recall
  <2>2. Matches \subseteq points /\ Matches \subseteq Child
    BY DEF Matches, IInv, TypeOK, LibraryTyped
  <2>3. Least(RecallLimit, Cardinality(Matches)) \in Nat
    <3>1. Cardinality(Matches) \in Nat
      BY <2>2, RetrievalAssumption, FS_Subset, FS_CardinalityType
    <3> QED
      BY <3>1, RetrievalAssumption DEF Least
  <2>4. h \in Seq(Matches) /\ ToSet(h) \subseteq Matches
    BY <2>1, <2>3, OrdersTyped
  <2>5. h \in Seq(Child)
    BY <2>2, <2>4
  <2>6. SearchTyped' /\ search'.hits = Append(search.hits, h) /\ search.hits \in Seq(Seq(Child))
    <3>1. search.hits \in Seq(Seq(Child))
      BY DEF IInv, SearchTyped
    <3>2. Append(search.hits, h) \in Seq(Seq(Child))
      BY <2>5, <3>1, AppendProperties
    <3> QED
      BY <2>1, <3>1, <3>2 DEF IInv, SearchTyped
  <2>7. /\ search'.pc = search.pc /\ search'.snap = search.snap /\ search'.held = search.held
        /\ search'.chosen = search.chosen /\ search'.found = search.found /\ search.pc = "looked"
    BY <1>3, <2>1 DEF Recall, IInv, SearchTyped
  <2>8. ASSUME NEW c \in Matches
        PROVE  VersionOfChild(c) \in search.snap /\ Standing(ParentOf[c])
    <3>1. c \in points /\ VersionOfChild(c) \in search.snap
      BY DEF Matches
    <3>2. HitsResolve
      BY Resolves DEF IInv
    <3> QED
      BY <3>1, <3>2 DEF Standing, HitsResolve, IInv, Searching, VersionOfChild
  <2>9. ASSUME NEW k \in DOMAIN search'.hits, NEW c \in ToSet(search'.hits[k])
        PROVE  VersionOfChild(c) \in search'.snap /\ Standing(ParentOf[c])'
    <3>1. Standing(ParentOf[c])' <=> Standing(ParentOf[c])
      BY <1>1, <2>7 DEF Standing
    <3>2. CASE k \in DOMAIN search.hits
      <4>1. search'.hits[k] = search.hits[k]
        BY <2>6, <3>2
      <4> QED
        BY <2>7, <2>9, <3>1, <3>2, <4>1 DEF IInv, Searching
    <3>3. CASE k \notin DOMAIN search.hits
      <4>1. search'.hits[k] = h
        BY <2>6, <3>3
      <4> QED
        BY <2>4, <2>7, <2>8, <2>9, <3>1, <4>1
    <3> QED
      BY <3>2, <3>3
  <2>10. Searching'
    BY <1>1, <2>7, <2>9 DEF IInv, Searching
  <2> QED
    BY <2>6, <2>7, <2>10 DEF NothingLost
<1>4. CASE Select
  <2>1. PICK s \in Selections(search.hits) :
          search' = [search EXCEPT !.pc = "chosen", !.hits = <<>>, !.chosen = s]
    BY <1>4 DEF Select
  <2> DEFINE Q == {p \in Parent : VersionOf[p] \in search.snap /\ Standing(p)}
  <2>2. search.hits \in Seq(Seq(Child)) /\ search.pc = "looked"
    BY <1>4 DEF Select, IInv, SearchTyped
  <2>3. \A k \in DOMAIN search.hits : \A c \in ToSet(search.hits[k]) : ParentOf[c] \in Q
    <3>1. \A k \in DOMAIN search.hits : ToSet(search.hits[k]) \subseteq Child
      BY <2>2 DEF ToSet
    <3> QED
      BY <2>2, <3>1, Constants DEF IInv, Searching, VersionOfChild
  <2>4. s \in Seq(Q)
    <3> HIDE DEF Q
    <3> QED
      BY <2>2, <2>3, SelectedIn
  <2>5. ToSet(s) \subseteq Q /\ s \in Seq(Parent)
    <3>1. Q \subseteq Parent
      OBVIOUS
    <3> HIDE DEF Q
    <3> QED
      BY <2>4, <3>1 DEF ToSet
  <2>6. <<>> \in Seq(Seq(Child))
    OBVIOUS
  <2>7. SearchTyped'
    BY <2>1, <2>5, <2>6 DEF IInv, SearchTyped
  <2>8. /\ search'.pc = "chosen" /\ search'.snap = search.snap /\ search'.held = search.held
        /\ search'.chosen = s
    BY <2>1 DEF IInv, SearchTyped
  <2>9. \A p : Standing(p)' <=> Standing(p)
    BY <1>1, <2>8 DEF Standing
  <2>10. Searching'
    BY <1>1, <2>5, <2>8, <2>9 DEF IInv, Searching
  <2> QED
    BY <2>7, <2>8, <2>10 DEF NothingLost
<1>5. CASE Fetch
  <2>1. /\ search'.pc = "fetched" /\ search'.held = search.held /\ search'.chosen = search.chosen
        /\ search'.found =
             {p \in ToSet(search.chosen) : p \in parents /\ VersionOf[p] \in search.snap}
        /\ search.pc = "chosen"
    BY <1>5 DEF Fetch, IInv, SearchTyped
  <2>2. SearchTyped'
    BY <1>5 DEF Fetch, IInv, SearchTyped, TypeOK, LibraryTyped
  <2>3. NothingLost'
    BY <1>1, <2>1 DEF NothingLost, IInv, Searching, Standing
  <2> QED
    BY <1>1, <2>1, <2>2, <2>3 DEF IInv, Searching
<1>6. CASE Leave
  BY <1>6, CrashSearching DEF Leave
<1> QED
  BY <1>2, <1>3, <1>4, <1>5, <1>6 DEF SearchStep
-----------------------------------------------------------------------------
LEMMA InitInvariant ==
  ASSUME Init
  PROVE  IInv
<1>1. \A i \in Item : head[i] # 0 => head[i] \in Shown /\ ItemOf[head[i]] = i
  BY DEF Init
<1>2. /\ Shown \subseteq Version /\ \A v \in Shown : RowsOf(v) \subseteq parents
      /\ parents \subseteq Parent /\ points \subseteq Child
  BY RetrievalAssumption DEF Init, RowsOf, PointsOf
<1>3. LibraryTyped
  BY <1>1, <1>2 DEF Init, LibraryTyped
<1>4. WorkTyped /\ Unshown /\ Writing /\ Purging
  BY DEF Init, NoWork, NoPurge, WorkTyped, Unshown, Writing, Purging
<1>5. Serving
  BY <1>1, <1>2 DEF Serving, Rowed
<1>6. search = NoSearch
  BY DEF Init
<1>7. <<>> \in Seq(Seq(Child)) /\ <<>> \in Seq(Parent)
  OBVIOUS
<1>8. SearchTyped
  BY <1>6, <1>7 DEF NoSearch, SearchTyped
<1>9. Searching /\ NothingLost
  BY <1>6 DEF NoSearch, Searching, NothingLost
<1> QED
  BY <1>3, <1>4, <1>5, <1>8, <1>9 DEF IInv, TypeOK

LEMMA LibraryKept ==
  ASSUME TypeOK, Unshown, Writing, Purging, Serving, UNCHANGED library
  PROVE  TypeOK' /\ Unshown' /\ Writing' /\ Purging' /\ Serving'
  BY DEF library, counted, TypeOK, LibraryTyped, WorkTyped, Unshown, Writing, Rowed, Purging,
     Pending, NoPoints,
     Serving

LEMMA LibraryInvariant ==
  ASSUME IInv, LibraryStep \/ Crash
  PROVE  TypeOK' /\ Unshown' /\ Writing' /\ Purging' /\ Serving'
<1>1. TypeOK'
  BY TypeStep DEF IInv
<1>2. Unshown' /\ Serving'
  BY UnshownStep, ServingStep DEF IInv
<1>3. Writing' /\ Purging'
  BY <1>1, WritingStep, PurgingStep DEF IInv
<1> QED
  BY <1>1, <1>2, <1>3

LEMMA InvStep ==
  ASSUME IInv, [Next]_vars
  PROVE  IInv'
<1>1. CASE Library
  <2>1. LibraryStep
    BY <1>1 DEF Library
  <2> QED
    BY <1>1, <2>1, LibraryInvariant, LibrarySearching DEF IInv
<1>2. CASE Crash
  <2>1. search' = NoSearch
    BY <1>2 DEF Crash
  <2> QED
    BY <1>2, <2>1, LibraryInvariant, CrashSearching DEF IInv
<1>3. CASE SearchStep
  <2>1. UNCHANGED library
    BY <1>3 DEF SearchStep, Look, Recall, Select, Fetch, Leave
  <2> QED
    BY <1>3, <2>1, LibraryKept, SearchSearching DEF IInv
<1>4. CASE UNCHANGED vars
  <2>1. UNCHANGED library /\ search' = search
    BY <1>4 DEF vars
  <2>2. OnShow' = OnShow /\ UNCHANGED <<bin, parents, overtaken>>
    BY <2>1 DEF library, counted, OnShow
  <2> QED
    BY <2>1, <2>2, LibraryKept DEF IInv, SearchTyped, Searching, Standing, NothingLost
<1> QED
  BY <1>1, <1>2, <1>3, <1>4 DEF Next, SearchStep

(* The invariant of Retrieval holds throughout: every store and thread keeps to
   the order that it is about. *)
THEOREM Invariant == Spec => []IInv
<1>1. Init => IInv
  BY InitInvariant
<1>2. IInv /\ [Next]_vars => IInv'
  BY InvStep
<1> QED
  BY <1>1, <1>2, PTL DEF Spec

(* A point of what is on show always has its parent: whatever writers, purges
   and crashes have left behind, no hit takes a place in an answer and is then
   dropped, unless its item was restored or published while it was purged. *)
THEOREM HitsAlwaysResolve == Spec => []HitsResolve
<1>1. IInv => HitsResolve
  BY Resolves DEF IInv
<1> QED
  BY <1>1, Invariant, PTL

(* The parents a search has chosen are found when it fetches them, if their
   versions stayed on show since it looked, however many writers, purges and
   crashes of others there were in between, and whatever the fusion chose. *)
THEOREM NothingIsLost == Spec => []NothingLost
<1>1. IInv => NothingLost
  BY DEF IInv
<1> QED
  BY <1>1, Invariant, PTL
-----------------------------------------------------------------------------
(* The folds of the fusion.  A fold over a sequence goes through states, one for
   each position; such a run exists for every step that is a function. *)

LEMMA MaxIn ==
  ASSUME NEW n \in Nat, NEW S \in SUBSET (1 .. n), S # {}
  PROVE  Max(S) \in S
<1> DEFINE T == {m \in Nat : \A Q \in SUBSET (1 .. m) : Q # {} => Max(Q) \in Q}
<1>1. 0 \in T
  <2>1. \A Q \in SUBSET (1 .. 0) : Q = {}
    OBVIOUS
  <2> QED
    BY <2>1
<1>2. ASSUME NEW m \in Nat, m \in T PROVE m + 1 \in T
  <2> SUFFICES ASSUME NEW Q \in SUBSET (1 .. m + 1), Q # {} PROVE Max(Q) \in Q
    OBVIOUS
  <2>1. CASE m + 1 \in Q
    <3>1. m + 1 \in Nat
      OBVIOUS
    <3>2. Max(Q) = m + 1
      BY <2>1, <3>1, MaxAt
    <3> QED
      BY <2>1, <3>2
  <2>2. CASE m + 1 \notin Q
    <3>1. Q \in SUBSET (1 .. m)
      BY <2>2
    <3> QED
      BY <1>2, <3>1
  <2> QED
    BY <2>1, <2>2
<1> HIDE DEF T
<1>3. Nat \subseteq T
  BY <1>1, <1>2, NatSetInduction
<1>4. n \in T
  BY <1>3
<1> QED
  BY <1>4 DEF T

(* The function that a fold is, over the positions up to n. *)
RunsOver(g, base, step, n) ==
  \A S \in SUBSET (1 .. n) :
    g[S] = IF S = {} THEN base ELSE step[<<g[S \ {Max(S)}], Max(S)>>]

LEMMA RunExists ==
  ASSUME NEW n \in Nat, NEW X, NEW base \in X, NEW step \in [X \X (1 .. n) -> X]
  PROVE  \E g \in [SUBSET (1 .. n) -> X] : RunsOver(g, base, step, n)
<1> DEFINE T == {m \in Nat : m <= n => \E g \in [SUBSET (1 .. m) -> X] :
                                          RunsOver(g, base, step, m)}
<1>1. 0 \in T
  <2> DEFINE g == [S \in SUBSET (1 .. 0) |-> base]
  <2>1. \A S \in SUBSET (1 .. 0) : S = {} /\ g[S] = base
    OBVIOUS
  <2>2. g \in [SUBSET (1 .. 0) -> X]
    OBVIOUS
  <2> HIDE DEF g
  <2>3. RunsOver(g, base, step, 0)
    BY <2>1 DEF RunsOver
  <2> QED
    BY <2>2, <2>3
<1>2. ASSUME NEW m \in Nat, m \in T PROVE m + 1 \in T
  <2>0. m + 1 \in Nat
    OBVIOUS
  <2> SUFFICES ASSUME m + 1 <= n
               PROVE  \E g \in [SUBSET (1 .. m + 1) -> X] : RunsOver(g, base, step, m + 1)
    BY <2>0
  <2>a. m <= n
    OBVIOUS
  <2>1. PICK g \in [SUBSET (1 .. m) -> X] : RunsOver(g, base, step, m)
    BY <1>2, <2>a
  <2> HIDE DEF T
  <2> DEFINE h == [S \in SUBSET (1 .. m + 1) |->
                     IF m + 1 \in S THEN step[<<g[S \ {m + 1}], m + 1>>] ELSE g[S]]
  <2>2. ASSUME NEW S \in SUBSET (1 .. m + 1)
        PROVE  /\ h[S] \in X
               /\ h[S] = IF S = {} THEN base ELSE step[<<h[S \ {Max(S)}], Max(S)>>]
    <3>1. CASE m + 1 \in S
      <4>1. Max(S) = m + 1
        BY <2>0, <3>1, MaxAt
      <4>2. S \ {m + 1} \in SUBSET (1 .. m) /\ S \ {m + 1} \in SUBSET (1 .. m + 1)
        OBVIOUS
      <4>3. h[S \ {m + 1}] = g[S \ {m + 1}] /\ h[S] = step[<<g[S \ {m + 1}], m + 1>>]
        BY <3>1, <4>2
      <4>4. g[S \ {m + 1}] \in X /\ m + 1 \in 1 .. n
        BY <4>2
      <4>5. step[<<g[S \ {m + 1}], m + 1>>] \in X
        BY <4>4
      <4> HIDE DEF h
      <4> QED
        BY <3>1, <4>1, <4>3, <4>5
    <3>2. CASE m + 1 \notin S
      <4>1. S \in SUBSET (1 .. m)
        BY <3>2
      <4>2. \A Q \in SUBSET S : Q \in SUBSET (1 .. m + 1) /\ m + 1 \notin Q /\ h[Q] = g[Q]
        BY <3>2
      <4>3. g[S] = IF S = {} THEN base ELSE step[<<g[S \ {Max(S)}], Max(S)>>]
        BY <2>1, <4>1 DEF RunsOver
      <4>4. h[S] = g[S] /\ h[S \ {Max(S)}] = g[S \ {Max(S)}] /\ g[S] \in X
        BY <4>1, <4>2
      <4> HIDE DEF h
      <4> QED
        BY <4>3, <4>4
    <3> QED
      BY <3>1, <3>2
  <2>b. h = [S \in SUBSET (1 .. m + 1) |-> h[S]]
    OBVIOUS
  <2> HIDE DEF h
  <2>3. h \in [SUBSET (1 .. m + 1) -> X]
    BY <2>2, <2>b
  <2>4. RunsOver(h, base, step, m + 1)
    BY <2>2 DEF RunsOver
  <2> QED
    BY <2>3, <2>4
<1> HIDE DEF T
<1>3. Nat \subseteq T
  BY <1>1, <1>2, NatSetInduction
<1>4. n \in T /\ n <= n
  BY <1>3
<1> HIDE DEF T
<1> QED
  BY <1>4 DEF T

(* The same, of a fold of which only the values in X are known. *)
RunsIn(g, base, step, n, X) ==
  /\ g[{}] = base
  /\ \A S \in SUBSET (1 .. n) :
       S # {} /\ g[S \ {Max(S)}] \in X => g[S] = step[<<g[S \ {Max(S)}], Max(S)>>]

(* The states it goes through. *)
Traced(it, base, step, n, X) ==
  \E st \in [0 .. n -> X] : /\ st[0] = base /\ st[n] = it[1 .. n]
                            /\ \A i \in 1 .. n : st[i] = step[<<st[i - 1], i>>]

(* What it has seen up to a position is the state there. *)
LEMMA RunFacts ==
  ASSUME NEW n \in Nat, NEW X, NEW base \in X, NEW step \in [X \X (1 .. n) -> X],
         NEW it, RunsIn(it, base, step, n, X)
  PROVE  Traced(it, base, step, n, X)
<1> DEFINE T == {m \in Nat : m <= n => it[1 .. m] \in X}
           st == [i \in 0 .. n |-> it[1 .. i]]
<1>1. ASSUME NEW m \in Nat, m + 1 <= n, it[1 .. m] \in X
      PROVE  it[1 .. m + 1] \in X /\ it[1 .. m + 1] = step[<<it[1 .. m], m + 1>>]
  <2>1. /\ 1 .. m + 1 \in SUBSET (1 .. n) /\ m + 1 \in 1 .. m + 1 /\ m + 1 \in Nat
        /\ (1 .. m + 1) \ {m + 1} = 1 .. m /\ m + 1 \in 1 .. n
    BY <1>1
  <2>2. Max(1 .. m + 1) = m + 1
    BY <2>1, MaxAt
  <2>3. it[1 .. m + 1] = step[<<it[1 .. m], m + 1>>]
    BY <1>1, <2>1, <2>2 DEF RunsIn
  <2> QED
    BY <1>1, <2>1, <2>3
<1>2. 0 \in T
  <2>1. 1 .. 0 = {}
    OBVIOUS
  <2> QED
    BY <2>1 DEF RunsIn
<1>3. ASSUME NEW m \in Nat, m \in T PROVE m + 1 \in T
  <2>1. m + 1 \in Nat /\ (m + 1 <= n => m <= n)
    OBVIOUS
  <2>2. m + 1 <= n => it[1 .. m] \in X
    BY <1>3, <2>1
  <2>3. m + 1 <= n => it[1 .. m + 1] \in X
    BY <1>1, <2>2
  <2> QED
    BY <2>1, <2>3
<1> HIDE DEF T
<1>4. Nat \subseteq T
  BY <1>2, <1>3, NatSetInduction
<1>5. \A i \in 0 .. n : it[1 .. i] \in X
  BY <1>4 DEF T
<1>6. st \in [0 .. n -> X]
  BY <1>5
<1>7. st[0] = base
  <2>1. 1 .. 0 = {} /\ st[0] = it[1 .. 0]
    OBVIOUS
  <2> QED
    BY <2>1 DEF RunsIn
<1>8. st[n] = it[1 .. n]
  OBVIOUS
<1>9. ASSUME NEW i \in 1 .. n PROVE st[i] = step[<<st[i - 1], i>>]
  <2>1. i - 1 \in Nat /\ (i - 1) + 1 = i /\ i <= n /\ i - 1 \in 0 .. n /\ i \in 0 .. n
    OBVIOUS
  <2>2. it[1 .. i] = step[<<it[1 .. i - 1], i>>]
    BY <1>1, <1>5, <2>1
  <2>3. st[i] = it[1 .. i] /\ st[i - 1] = it[1 .. i - 1]
    BY <2>1
  <2> QED
    BY <2>2, <2>3
<1> HIDE DEF st
<1> QED
  BY <1>6, <1>7, <1>8, <1>9 DEF Traced

(* Without, element by element. *)
Kept(u, x, S) == IF x \in S THEN u ELSE Append(u, x)

WithoutTrace(s, S, E) ==
  \E st \in [0 .. Len(s) -> Seq(E)] :
    /\ st[0] = <<>> /\ st[Len(s)] = Without(s, S)
    /\ \A i \in 1 .. Len(s) : st[i] = Kept(st[i - 1], s[i], S)

LEMMA WithoutRun ==
  ASSUME NEW E, NEW s \in Seq(E), NEW S
  PROVE  WithoutTrace(s, S, E)
<1> DEFINE n == Len(s)
           X == Seq(E)
           step == [q \in X \X (1 .. n) |-> Kept(q[1], s[q[2]], S)]
           Rec(g) == g = [R \in SUBSET (1 .. n) |->
                            IF R = {} THEN <<>> ELSE Kept(g[R \ {Max(R)}], s[Max(R)], S)]
           it == CHOOSE g : Rec(g)
<1>1. n \in Nat /\ DOMAIN s = 1 .. n /\ <<>> \in X /\ \A i \in 1 .. n : s[i] \in E
  OBVIOUS
<1>2. \A u \in X, i \in 1 .. n : Kept(u, s[i], S) \in X /\ step[<<u, i>>] = Kept(u, s[i], S)
  BY <1>1 DEF Kept
<1>3. step \in [X \X (1 .. n) -> X]
  BY <1>2
<1>4. Without(s, S) = it[1 .. n]
  BY <1>1 DEF Without, FoldLeft, MapThenFoldSet, Kept
<1> HIDE DEF n, X, step
<1>5. PICK g \in [SUBSET (1 .. n) -> X] : RunsOver(g, <<>>, step, n)
  BY <1>1, <1>3, RunExists
<1>6. ASSUME NEW R \in SUBSET (1 .. n)
      PROVE  g[R] = IF R = {} THEN <<>> ELSE Kept(g[R \ {Max(R)}], s[Max(R)], S)
  <2>1. R # {} => Max(R) \in 1 .. n
    BY <1>1, MaxIn
  <2>2. g[R \ {Max(R)}] \in X
    BY <1>5
  <2> QED
    BY <1>2, <1>5, <2>1, <2>2 DEF RunsOver
<1>7. Rec(g)
  <2>1. g = [R \in SUBSET (1 .. n) |-> g[R]]
    BY <1>5
  <2> QED
    BY <1>6, <2>1
<1>8. Rec(it)
  BY <1>7
<1> HIDE DEF it
<1>9. RunsIn(it, <<>>, step, n, X)
  <2>1. it[{}] = <<>>
    BY <1>8
  <2>2. ASSUME NEW R \in SUBSET (1 .. n), R # {}, it[R \ {Max(R)}] \in X
        PROVE  it[R] = step[<<it[R \ {Max(R)}], Max(R)>>]
    <3>1. Max(R) \in 1 .. n
      BY <1>1, <2>2, MaxIn
    <3>2. it[R] = Kept(it[R \ {Max(R)}], s[Max(R)], S)
      BY <1>8, <2>2
    <3> QED
      BY <1>2, <2>2, <3>1, <3>2
  <2> QED
    BY <2>1, <2>2 DEF RunsIn
<1>10. PICK st \in [0 .. n -> X] : /\ st[0] = <<>> /\ st[n] = it[1 .. n]
                                   /\ \A i \in 1 .. n : st[i] = step[<<st[i - 1], i>>]
  <2>1. Traced(it, <<>>, step, n, X)
    BY <1>1, <1>3, <1>9, RunFacts
  <2> QED
    BY <2>1 DEF Traced
<1>11. ASSUME NEW i \in 1 .. n PROVE st[i] = Kept(st[i - 1], s[i], S)
  <2>1. st[i - 1] \in X
    BY <1>1, <1>10
  <2> QED
    BY <1>2, <1>10, <2>1
<1> QED
  BY <1>4, <1>10, <1>11 DEF n, X, WithoutTrace

LEMMA FirstFacts ==
  ASSUME NEW E, NEW s \in Seq(E), NEW k \in Nat
  PROVE  /\ First(s, k) \in Seq(E) /\ Len(First(s, k)) = Least(k, Len(s))
         /\ Len(First(s, k)) <= k /\ Len(First(s, k)) <= Len(s)
         /\ \A i \in 1 .. Len(First(s, k)) : First(s, k)[i] = s[i]
         /\ \A i \in 1 .. Len(s) : i <= k => i <= Len(First(s, k))
<1> DEFINE m == IF k < Len(s) THEN k ELSE Len(s)
<1>1. m \in Nat /\ m <= Len(s) /\ m <= k /\ m = Least(k, Len(s))
  BY DEF Least
<1>2. First(s, k) = SubSeq(s, 1, m)
  BY DEF First
<1>3. \A i \in 1 .. Len(s) : i <= k => i <= m
  OBVIOUS
<1> HIDE DEF m
<1>4. SubSeq(s, 1, m) \in Seq(E) /\ Len(SubSeq(s, 1, m)) = m
  BY <1>1
<1>5. \A i \in 1 .. m : SubSeq(s, 1, m)[i] = s[i]
  BY <1>1
<1> QED
  BY <1>1, <1>2, <1>3, <1>4, <1>5

LEMMA AppendAdds ==
  ASSUME NEW E, NEW s \in Seq(E), NEW x \in E
  PROVE  /\ Append(s, x) \in Seq(E) /\ Len(Append(s, x)) = Len(s) + 1
         /\ \A i \in 1 .. Len(s) : Append(s, x)[i] = s[i]
         /\ Append(s, x)[Len(s) + 1] = x
         /\ ToSet(Append(s, x)) = ToSet(s) \cup {x}
<1>1. /\ Append(s, x) \in Seq(E) /\ Len(Append(s, x)) = Len(s) + 1
      /\ \A i \in 1 .. Len(s) : Append(s, x)[i] = s[i]
      /\ Append(s, x)[Len(s) + 1] = x
  BY AppendProperties
<1>2. DOMAIN Append(s, x) = 1 .. Len(s) + 1 /\ DOMAIN s = 1 .. Len(s) /\ Len(s) \in Nat
  BY <1>1
<1>3. \A y : y \in ToSet(Append(s, x)) <=> \E i \in 1 .. Len(s) + 1 : Append(s, x)[i] = y
  BY <1>2 DEF ToSet
<1>4. \A y : y \in ToSet(s) <=> \E i \in 1 .. Len(s) : s[i] = y
  BY <1>2 DEF ToSet
<1>5. \A i \in 1 .. Len(s) + 1 : i = Len(s) + 1 \/ i \in 1 .. Len(s)
  BY <1>2
<1>6. \A i \in 1 .. Len(s) : i \in 1 .. Len(s) + 1
  BY <1>2
<1>7. Len(s) + 1 \in 1 .. Len(s) + 1
  BY <1>2
<1>8. \A y : y \in ToSet(Append(s, x)) <=> y \in ToSet(s) \cup {x}
  BY <1>1, <1>3, <1>4, <1>5, <1>6, <1>7
<1>9. ToSet(Append(s, x)) = ToSet(s) \cup {x}
  BY <1>8
<1> QED
  BY <1>1, <1>9

(* Nothing that is kept moves back. *)
LEMMA WithoutFacts ==
  ASSUME NEW E, NEW s \in Seq(E), NEW S
  PROVE  /\ Without(s, S) \in Seq(E)
         /\ \A a \in 1 .. Len(s) : s[a] \notin S =>
              \E j \in 1 .. Len(Without(s, S)) : j <= a /\ Without(s, S)[j] = s[a]
<1>1. PICK st \in [0 .. Len(s) -> Seq(E)] :
           /\ st[0] = <<>> /\ st[Len(s)] = Without(s, S)
           /\ \A i \in 1 .. Len(s) : st[i] = Kept(st[i - 1], s[i], S)
  <2>1. WithoutTrace(s, S, E)
    BY WithoutRun
  <2> QED
    BY <2>1 DEF WithoutTrace
<1> DEFINE Has(i) == /\ Len(st[i]) <= i
                     /\ \A a \in 1 .. i : s[a] \notin S =>
                          \E j \in 1 .. Len(st[i]) : j <= a /\ st[i][j] = s[a]
           T == {i \in Nat : i <= Len(s) => Has(i)}
<1>2. 0 \in T
  <2>1. Len(st[0]) = 0
    BY <1>1
  <2> QED
    BY <2>1
<1>3. ASSUME NEW i \in Nat, i \in T PROVE i + 1 \in T
  <2>0. i + 1 \in Nat /\ i + 1 - 1 = i
    OBVIOUS
  <2> SUFFICES ASSUME i + 1 <= Len(s) PROVE Has(i + 1)
    BY <2>0
  <2>1. i \in 0 .. Len(s) /\ i + 1 \in 1 .. Len(s) /\ i <= Len(s)
    OBVIOUS
  <2>2. Has(i)
    BY <1>3, <2>1
  <2>3. st[i + 1] = Kept(st[i], s[i + 1], S)
    BY <1>1, <2>0, <2>1
  <2>4. st[i] \in Seq(E) /\ Len(st[i]) \in Nat /\ s[i + 1] \in E
    BY <2>1
  <2>5. \A a \in 1 .. i + 1 : a \in 1 .. i \/ a = i + 1
    OBVIOUS
  <2>6. CASE s[i + 1] \in S
    <3>1. st[i + 1] = st[i]
      BY <2>3, <2>6 DEF Kept
    <3> QED
      BY <2>2, <2>4, <2>5, <2>6, <3>1
  <2>7. CASE s[i + 1] \notin S
    <3>1. st[i + 1] = Append(st[i], s[i + 1])
      BY <2>3, <2>7 DEF Kept
    <3>2. /\ Len(st[i + 1]) = Len(st[i]) + 1
          /\ \A j \in 1 .. Len(st[i]) : st[i + 1][j] = st[i][j]
          /\ st[i + 1][Len(st[i]) + 1] = s[i + 1]
      BY <2>4, <3>1, AppendAdds
    <3>3. Len(st[i]) + 1 \in 1 .. Len(st[i + 1]) /\ Len(st[i]) + 1 <= i + 1
      BY <2>2, <2>4, <3>2
    <3>4. ASSUME NEW a \in 1 .. i, s[a] \notin S
          PROVE  \E j \in 1 .. Len(st[i + 1]) : j <= a /\ st[i + 1][j] = s[a]
      <4>1. PICK j \in 1 .. Len(st[i]) : j <= a /\ st[i][j] = s[a]
        BY <2>2, <3>4
      <4>2. j \in 1 .. Len(st[i + 1]) /\ st[i + 1][j] = s[a]
        BY <2>4, <3>2, <4>1
      <4> QED
        BY <4>1, <4>2
    <3> QED
      BY <2>5, <3>2, <3>3, <3>4
  <2> QED
    BY <2>6, <2>7
<1> HIDE DEF T
<1>4. Nat \subseteq T
  BY <1>2, <1>3, NatSetInduction
<1>5. Len(s) \in T /\ Len(s) \in Nat /\ Len(s) \in 0 .. Len(s)
  BY <1>4
<1>6. Has(Len(s))
  BY <1>5 DEF T
<1> QED
  BY <1>1, <1>5, <1>6

(* ParentsIn, child by child. *)
Parented(u, c) == IF ParentOf[c] \in ToSet(u) THEN u ELSE Append(u, ParentOf[c])

ParentsTrace(cs) ==
  \E st \in [0 .. Len(cs) -> Seq(Parent)] :
    /\ st[0] = <<>> /\ st[Len(cs)] = ParentsIn(cs)
    /\ \A i \in 1 .. Len(cs) : st[i] = Parented(st[i - 1], cs[i])

LEMMA ParentsInRun ==
  ASSUME NEW cs \in Seq(Child)
  PROVE  ParentsTrace(cs)
<1> DEFINE n == Len(cs)
           X == Seq(Parent)
           step == [q \in X \X (1 .. n) |-> Parented(q[1], cs[q[2]])]
           Rec(g) == g = [R \in SUBSET (1 .. n) |->
                            IF R = {} THEN <<>> ELSE Parented(g[R \ {Max(R)}], cs[Max(R)])]
           it == CHOOSE g : Rec(g)
<1>1. n \in Nat /\ DOMAIN cs = 1 .. n /\ <<>> \in X /\ \A i \in 1 .. n : cs[i] \in Child
  OBVIOUS
<1>2. \A u \in X, i \in 1 .. n : Parented(u, cs[i]) \in X /\ step[<<u, i>>] = Parented(u, cs[i])
  BY <1>1, Constants DEF Parented
<1>3. step \in [X \X (1 .. n) -> X]
  BY <1>2
<1>4. ParentsIn(cs) = it[1 .. n]
  BY <1>1 DEF ParentsIn, FoldLeft, MapThenFoldSet, Parented
<1> HIDE DEF n, X, step
<1>5. PICK g \in [SUBSET (1 .. n) -> X] : RunsOver(g, <<>>, step, n)
  BY <1>1, <1>3, RunExists
<1>6. ASSUME NEW R \in SUBSET (1 .. n)
      PROVE  g[R] = IF R = {} THEN <<>> ELSE Parented(g[R \ {Max(R)}], cs[Max(R)])
  <2>1. R # {} => Max(R) \in 1 .. n
    BY <1>1, MaxIn
  <2>2. g[R \ {Max(R)}] \in X
    BY <1>5
  <2> QED
    BY <1>2, <1>5, <2>1, <2>2 DEF RunsOver
<1>7. Rec(g)
  <2>1. g = [R \in SUBSET (1 .. n) |-> g[R]]
    BY <1>5
  <2> QED
    BY <1>6, <2>1
<1>8. Rec(it)
  BY <1>7
<1> HIDE DEF it
<1>9. RunsIn(it, <<>>, step, n, X)
  <2>1. it[{}] = <<>>
    BY <1>8
  <2>2. ASSUME NEW R \in SUBSET (1 .. n), R # {}, it[R \ {Max(R)}] \in X
        PROVE  it[R] = step[<<it[R \ {Max(R)}], Max(R)>>]
    <3>1. Max(R) \in 1 .. n
      BY <1>1, <2>2, MaxIn
    <3>2. it[R] = Parented(it[R \ {Max(R)}], cs[Max(R)])
      BY <1>8, <2>2
    <3> QED
      BY <1>2, <2>2, <3>1, <3>2
  <2> QED
    BY <2>1, <2>2 DEF RunsIn
<1>10. PICK st \in [0 .. n -> X] : /\ st[0] = <<>> /\ st[n] = it[1 .. n]
                                   /\ \A i \in 1 .. n : st[i] = step[<<st[i - 1], i>>]
  <2>1. Traced(it, <<>>, step, n, X)
    BY <1>1, <1>3, <1>9, RunFacts
  <2> QED
    BY <2>1 DEF Traced
<1>11. ASSUME NEW i \in 1 .. n PROVE st[i] = Parented(st[i - 1], cs[i])
  <2>1. st[i - 1] \in X
    BY <1>1, <1>10
  <2> QED
    BY <1>2, <1>10, <2>1
<1> QED
  BY <1>4, <1>10, <1>11 DEF n, X, ParentsTrace

Distinct(s) == \A a, b \in 1 .. Len(s) : s[a] = s[b] => a = b

LEMMA DistinctAppend ==
  ASSUME NEW E, NEW s \in Seq(E), NEW x \in E, Distinct(s), x \notin ToSet(s)
  PROVE  Distinct(Append(s, x))
<1> DEFINE t == Append(s, x)
<1>1. Len(t) = Len(s) + 1 /\ t[Len(s) + 1] = x /\ \A i \in 1 .. Len(s) : t[i] = s[i]
  BY AppendAdds
<1>2. DOMAIN s = 1 .. Len(s) /\ Len(s) \in Nat
  OBVIOUS
<1>3. \A i \in 1 .. Len(s) : s[i] # x
  BY <1>2 DEF ToSet
<1> HIDE DEF t
<1>4. \A i \in 1 .. Len(t) : i \in 1 .. Len(s) \/ i = Len(s) + 1
  BY <1>1, <1>2
<1>5. \A a, b \in 1 .. Len(t) : t[a] = t[b] => a = b
  BY <1>1, <1>3, <1>4 DEF Distinct
<1> QED
  BY <1>5 DEF Distinct, t

LEMMA ParentedFacts ==
  ASSUME NEW u \in Seq(Parent), NEW c \in Child
  PROVE  /\ Parented(u, c) \in Seq(Parent)
         /\ ToSet(Parented(u, c)) = ToSet(u) \cup {ParentOf[c]}
         /\ Distinct(u) => Distinct(Parented(u, c))
         /\ Len(u) <= Len(Parented(u, c))
         /\ \A j \in 1 .. Len(u) : Parented(u, c)[j] = u[j]
<1>1. ParentOf[c] \in Parent
  BY Constants
<1>2. CASE ParentOf[c] \in ToSet(u)
  <2>1. Parented(u, c) = u
    BY <1>2 DEF Parented
  <2> QED
    BY <1>2, <2>1
<1>3. CASE ParentOf[c] \notin ToSet(u)
  <2>1. Parented(u, c) = Append(u, ParentOf[c])
    BY <1>3 DEF Parented
  <2>2. Distinct(u) => Distinct(Append(u, ParentOf[c]))
    BY <1>1, <1>3, DistinctAppend
  <2>3. Len(u) \in Nat
    OBVIOUS
  <2> QED
    BY <1>1, <2>1, <2>2, <2>3, AppendAdds
<1> QED
  BY <1>2, <1>3

ParentSet(cs, i) == {ParentOf[cs[a]] : a \in 1 .. i}

(* The parents of children are all there, once each. *)
LEMMA ParentsFacts ==
  ASSUME NEW cs \in Seq(Child)
  PROVE  /\ ParentsIn(cs) \in Seq(Parent) /\ Distinct(ParentsIn(cs))
         /\ ToSet(ParentsIn(cs)) = ParentSet(cs, Len(cs))
<1>1. PICK st \in [0 .. Len(cs) -> Seq(Parent)] :
           /\ st[0] = <<>> /\ st[Len(cs)] = ParentsIn(cs)
           /\ \A i \in 1 .. Len(cs) : st[i] = Parented(st[i - 1], cs[i])
  <2>1. ParentsTrace(cs)
    BY ParentsInRun
  <2> QED
    BY <2>1 DEF ParentsTrace
<1> DEFINE Has(i) == Distinct(st[i]) /\ ToSet(st[i]) = ParentSet(cs, i)
           T == {i \in Nat : i <= Len(cs) => Has(i)}
<1>2. 0 \in T
  <2>1. ToSet(<<>>) = {} /\ 1 .. 0 = {}
    BY DEF ToSet
  <2>2. Len(<<>>) = 0
    OBVIOUS
  <2>3. Distinct(<<>>)
    BY <2>1, <2>2 DEF Distinct
  <2>4. ParentSet(cs, 0) = {}
    BY <2>1 DEF ParentSet
  <2> QED
    BY <1>1, <2>1, <2>3, <2>4
<1>3. ASSUME NEW i \in Nat, i \in T PROVE i + 1 \in T
  <2>0. i + 1 \in Nat /\ i + 1 - 1 = i
    OBVIOUS
  <2> SUFFICES ASSUME i + 1 <= Len(cs) PROVE Has(i + 1)
    BY <2>0
  <2>1. i \in 0 .. Len(cs) /\ i + 1 \in 1 .. Len(cs) /\ i <= Len(cs)
    OBVIOUS
  <2>2. Has(i)
    BY <1>3, <2>1
  <2>3. st[i + 1] = Parented(st[i], cs[i + 1])
    BY <1>1, <2>0, <2>1
  <2>4. st[i] \in Seq(Parent) /\ cs[i + 1] \in Child
    BY <2>1
  <2>5. Distinct(st[i + 1]) /\ ToSet(st[i + 1]) = ToSet(st[i]) \cup {ParentOf[cs[i + 1]]}
    <3>1. /\ Distinct(Parented(st[i], cs[i + 1]))
          /\ ToSet(Parented(st[i], cs[i + 1])) = ToSet(st[i]) \cup {ParentOf[cs[i + 1]]}
      BY <2>2, <2>4, ParentedFacts
    <3> QED
      BY <2>3, <3>1
  <2>6. 1 .. i + 1 = (1 .. i) \cup {i + 1}
    OBVIOUS
  <2>7. ParentSet(cs, i + 1) = ParentSet(cs, i) \cup {ParentOf[cs[i + 1]]}
    BY <2>6 DEF ParentSet
  <2> QED
    BY <2>2, <2>5, <2>7
<1> HIDE DEF T
<1>4. Nat \subseteq T
  BY <1>2, <1>3, NatSetInduction
<1>5. Len(cs) \in T /\ Len(cs) \in 0 .. Len(cs)
  BY <1>4
<1>6. Has(Len(cs))
  BY <1>5 DEF T
<1> QED
  BY <1>1, <1>5, <1>6

(* The parents of the first children are the first parents. *)
LEMMA ParentsPrefix ==
  ASSUME NEW cs \in Seq(Child), NEW r \in Nat
  PROVE  /\ Len(ParentsIn(First(cs, r))) <= Len(ParentsIn(cs))
         /\ \A j \in 1 .. Len(ParentsIn(First(cs, r))) :
              ParentsIn(First(cs, r))[j] = ParentsIn(cs)[j]
<1> DEFINE f == First(cs, r)
           m == Len(f)
           n == Len(cs)
<1>1. f \in Seq(Child) /\ m \in Nat /\ n \in Nat /\ m <= n /\ \A i \in 1 .. m : f[i] = cs[i]
  <2>1. f \in Seq(Child) /\ m <= n /\ \A i \in 1 .. m : f[i] = cs[i]
    BY FirstFacts
  <2> QED
    BY <2>1
<1>2. PICK st \in [0 .. n -> Seq(Parent)] :
           /\ st[0] = <<>> /\ st[n] = ParentsIn(cs)
           /\ \A i \in 1 .. n : st[i] = Parented(st[i - 1], cs[i])
  <2>1. ParentsTrace(cs)
    BY ParentsInRun
  <2> QED
    BY <2>1 DEF ParentsTrace
<1> HIDE DEF f
<1>3. PICK pt \in [0 .. m -> Seq(Parent)] :
           /\ pt[0] = <<>> /\ pt[m] = ParentsIn(f)
           /\ \A i \in 1 .. m : pt[i] = Parented(pt[i - 1], f[i])
  <2>1. ParentsTrace(f)
    BY <1>1, ParentsInRun
  <2> QED
    BY <2>1 DEF ParentsTrace
<1> HIDE DEF m, n
<1> DEFINE T == {i \in Nat : i <= m => pt[i] = st[i]}
<1>4. 0 \in T
  BY <1>2, <1>3
<1>5. ASSUME NEW i \in Nat, i \in T PROVE i + 1 \in T
  <2>0. i + 1 \in Nat /\ i + 1 - 1 = i
    OBVIOUS
  <2> SUFFICES ASSUME i + 1 <= m PROVE pt[i + 1] = st[i + 1]
    BY <2>0
  <2>1. i <= m /\ i + 1 \in 1 .. m /\ i + 1 \in 1 .. n
    BY <1>1
  <2>2. pt[i] = st[i]
    BY <1>5, <2>1
  <2>3. pt[i + 1] = Parented(pt[i], f[i + 1]) /\ st[i + 1] = Parented(st[i], cs[i + 1])
    BY <1>2, <1>3, <2>0, <2>1
  <2> QED
    BY <1>1, <2>1, <2>2, <2>3
<1> HIDE DEF T
<1>6. Nat \subseteq T
  BY <1>4, <1>5, NatSetInduction
<1>7. st[m] = ParentsIn(f)
  <2>1. m \in T /\ m <= m
    BY <1>1, <1>6
  <2> QED
    BY <1>3, <2>1 DEF T
<1> DEFINE Has(i) == Len(st[m]) <= Len(st[i]) /\ \A j \in 1 .. Len(st[m]) : st[i][j] = st[m][j]
           U == {i \in Nat : m + i <= n => Has(m + i)}
<1>8. st[m] \in Seq(Parent) /\ Len(st[m]) \in Nat
  BY <1>1
<1>9. 0 \in U
  BY <1>1, <1>8
<1>10. ASSUME NEW i \in Nat, i \in U PROVE i + 1 \in U
  <2>0. i + 1 \in Nat /\ m + i \in Nat /\ m + (i + 1) - 1 = m + i
    BY <1>1
  <2> SUFFICES ASSUME m + (i + 1) <= n PROVE Has(m + (i + 1))
    BY <2>0
  <2> DEFINE k == m + i
             l == m + (i + 1)
  <2>1. k <= n /\ l \in 1 .. n /\ k \in 0 .. n /\ l - 1 = k
    BY <1>1
  <2>2. Has(k)
    BY <1>10, <2>1
  <2> HIDE DEF k, l
  <2>3. st[l] = Parented(st[k], cs[l])
    BY <1>2, <2>1
  <2>4. st[k] \in Seq(Parent) /\ cs[l] \in Child /\ Len(st[k]) \in Nat
    BY <2>1 DEF n
  <2>5. Len(st[k]) <= Len(st[l]) /\ \A j \in 1 .. Len(st[k]) : st[l][j] = st[k][j]
    BY <2>3, <2>4, ParentedFacts
  <2>6. st[l] \in Seq(Parent)
    BY <2>3, <2>4, ParentedFacts
  <2>7. Has(l)
    BY <1>8, <2>2, <2>4, <2>5, <2>6
  <2> QED
    BY <2>7 DEF l
<1> HIDE DEF U
<1>11. Nat \subseteq U
  BY <1>9, <1>10, NatSetInduction
<1>12. n - m \in U /\ m + (n - m) = n /\ n <= n
  BY <1>1, <1>11
<1>13. Has(n)
  BY <1>12 DEF U
<1> QED
  BY <1>2, <1>7, <1>13 DEF f

(* Heads, sub-query by sub-query. *)
Headed(u, h, m) == u \cup ToSet(First(Without(h, u), Reserve(m)))

LEMMA HeadedIn ==
  ASSUME NEW u \in SUBSET Child, NEW h \in Seq(Child), NEW m, Reserve(m) \in Nat
  PROVE  /\ Headed(u, h, m) \in SUBSET Child /\ u \subseteq Headed(u, h, m)
         /\ \A a \in 1 .. Len(h) : a <= Reserve(m) => h[a] \in Headed(u, h, m)
<1> DEFINE w == Without(h, u)
           f == First(w, Reserve(m))
<1>1. w \in Seq(Child)
  BY WithoutFacts
<1>2. \A a \in 1 .. Len(h) : h[a] \notin u => \E j \in 1 .. Len(w) : j <= a /\ w[j] = h[a]
  BY WithoutFacts
<1> HIDE DEF w
<1>3. /\ f \in Seq(Child) /\ \A i \in 1 .. Len(f) : f[i] = w[i]
      /\ \A i \in 1 .. Len(w) : i <= Reserve(m) => i <= Len(f)
  BY <1>1, FirstFacts
<1>4. Headed(u, h, m) = u \cup ToSet(f)
  BY DEF Headed, w
<1> HIDE DEF f
<1>5. DOMAIN f = 1 .. Len(f) /\ Len(f) \in Nat /\ Len(w) \in Nat
  BY <1>1, <1>3
<1>6. ToSet(f) \in SUBSET Child
  BY <1>3, <1>5 DEF ToSet
<1>7. ASSUME NEW a \in 1 .. Len(h), a <= Reserve(m), h[a] \notin u PROVE h[a] \in ToSet(f)
  <2>1. PICK j \in 1 .. Len(w) : j <= a /\ w[j] = h[a]
    BY <1>2, <1>7
  <2>2. j <= Reserve(m)
    BY <1>5, <1>7, <2>1
  <2>3. j \in 1 .. Len(f) /\ f[j] = h[a]
    BY <1>3, <1>5, <2>1, <2>2
  <2> QED
    BY <1>5, <2>3 DEF ToSet
<1> QED
  BY <1>4, <1>6, <1>7

HeadsTrace(hits) ==
  \E st \in [0 .. Len(hits) -> (SUBSET Child)] :
    /\ st[0] = {} /\ st[Len(hits)] = Heads(hits)
    /\ \A i \in 1 .. Len(hits) : st[i] = Headed(st[i - 1], hits[i], Len(hits))

LEMMA HeadsRun ==
  ASSUME NEW hits \in Seq(Seq(Child)), Reserve(Len(hits)) \in Nat
  PROVE  HeadsTrace(hits)
<1> DEFINE n == Len(hits)
           X == (SUBSET Child)
           step == [q \in X \X (1 .. n) |-> Headed(q[1], hits[q[2]], Len(hits))]
           Rec(g) == g = [R \in SUBSET (1 .. n) |->
                            IF R = {} THEN {} ELSE Headed(g[R \ {Max(R)}], hits[Max(R)], Len(hits))]
           it == CHOOSE g : Rec(g)
<1>1. n \in Nat /\ DOMAIN hits = 1 .. n /\ {} \in X /\ \A i \in 1 .. n : hits[i] \in Seq(Child)
  OBVIOUS
<1>2. \A u \in X, i \in 1 .. n : /\ Headed(u, hits[i], Len(hits)) \in X
                                 /\ step[<<u, i>>] = Headed(u, hits[i], Len(hits))
  BY <1>1, HeadedIn
<1>3. step \in [X \X (1 .. n) -> X]
  BY <1>2
<1>4. Heads(hits) = it[1 .. n]
  BY <1>1 DEF Heads, FoldLeft, MapThenFoldSet, Headed
<1> HIDE DEF n, X, step
<1>5. PICK g \in [SUBSET (1 .. n) -> X] : RunsOver(g, {}, step, n)
  BY <1>1, <1>3, RunExists
<1>6. ASSUME NEW R \in SUBSET (1 .. n)
      PROVE  g[R] = IF R = {} THEN {} ELSE Headed(g[R \ {Max(R)}], hits[Max(R)], Len(hits))
  <2>1. R # {} => Max(R) \in 1 .. n
    BY <1>1, MaxIn
  <2>2. g[R \ {Max(R)}] \in X
    BY <1>5
  <2> QED
    BY <1>2, <1>5, <2>1, <2>2 DEF RunsOver
<1>7. Rec(g)
  <2>1. g = [R \in SUBSET (1 .. n) |-> g[R]]
    BY <1>5
  <2> QED
    BY <1>6, <2>1
<1>8. Rec(it)
  BY <1>7
<1> HIDE DEF it
<1>9. RunsIn(it, {}, step, n, X)
  <2>1. it[{}] = {}
    BY <1>8
  <2>2. ASSUME NEW R \in SUBSET (1 .. n), R # {}, it[R \ {Max(R)}] \in X
        PROVE  it[R] = step[<<it[R \ {Max(R)}], Max(R)>>]
    <3>1. Max(R) \in 1 .. n
      BY <1>1, <2>2, MaxIn
    <3>2. it[R] = Headed(it[R \ {Max(R)}], hits[Max(R)], Len(hits))
      BY <1>8, <2>2
    <3> QED
      BY <1>2, <2>2, <3>1, <3>2
  <2> QED
    BY <2>1, <2>2 DEF RunsIn
<1>10. PICK st \in [0 .. n -> X] : /\ st[0] = {} /\ st[n] = it[1 .. n]
                                   /\ \A i \in 1 .. n : st[i] = step[<<st[i - 1], i>>]
  <2>1. Traced(it, {}, step, n, X)
    BY <1>1, <1>3, <1>9, RunFacts
  <2> QED
    BY <2>1 DEF Traced
<1>11. ASSUME NEW i \in 1 .. n PROVE st[i] = Headed(st[i - 1], hits[i], Len(hits))
  <2>1. st[i - 1] \in X
    BY <1>1, <1>10
  <2> QED
    BY <1>2, <1>10, <2>1
<1> QED
  BY <1>4, <1>10, <1>11 DEF n, X, HeadsTrace

(* Every reserved head is among the heads: what an earlier sub-query has taken
   is there already. *)
LEMMA HeadsFacts ==
  ASSUME NEW hits \in Seq(Seq(Child)), Reserve(Len(hits)) \in Nat
  PROVE  \A k \in 1 .. Len(hits) : \A a \in 1 .. Len(hits[k]) :
           a <= Reserve(Len(hits)) => hits[k][a] \in Heads(hits)
<1> DEFINE n == Len(hits)
           r == Reserve(Len(hits))
<1>1. PICK st \in [0 .. n -> SUBSET Child] :
           /\ st[0] = {} /\ st[n] = Heads(hits)
           /\ \A i \in 1 .. n : st[i] = Headed(st[i - 1], hits[i], n)
  <2>1. HeadsTrace(hits)
    BY HeadsRun
  <2> QED
    BY <2>1 DEF HeadsTrace
<1>2. \A i \in 1 .. n : hits[i] \in Seq(Child)
  OBVIOUS
<1> DEFINE Has(i) == \A k \in 1 .. i : \A a \in 1 .. Len(hits[k]) : a <= r => hits[k][a] \in st[i]
           T == {i \in Nat : i <= n => Has(i)}
<1>3. 0 \in T
  OBVIOUS
<1>4. ASSUME NEW i \in Nat, i \in T PROVE i + 1 \in T
  <2>0. i + 1 \in Nat /\ i + 1 - 1 = i
    OBVIOUS
  <2> SUFFICES ASSUME i + 1 <= n PROVE Has(i + 1)
    BY <2>0
  <2>1. i \in 0 .. n /\ i + 1 \in 1 .. n /\ i <= n
    OBVIOUS
  <2>2. Has(i)
    BY <1>4, <2>1
  <2> HIDE DEF n
  <2>3. st[i + 1] = Headed(st[i], hits[i + 1], n)
    BY <1>1, <2>0, <2>1
  <2>4. st[i] \in SUBSET Child /\ hits[i + 1] \in Seq(Child) /\ Reserve(n) \in Nat
    BY <1>2, <2>1 DEF n
  <2>5. /\ st[i] \subseteq Headed(st[i], hits[i + 1], n)
        /\ \A a \in 1 .. Len(hits[i + 1]) :
             a <= Reserve(n) => hits[i + 1][a] \in Headed(st[i], hits[i + 1], n)
    BY <2>4, HeadedIn
  <2>6. \A k \in 1 .. i + 1 : k \in 1 .. i \/ k = i + 1
    OBVIOUS
  <2> QED
    BY <2>2, <2>3, <2>5, <2>6 DEF n
<1> HIDE DEF T
<1>5. Nat \subseteq T
  BY <1>3, <1>4, NatSetInduction
<1>6. n \in T /\ n <= n
  BY <1>5
<1>7. Has(n)
  BY <1>6 DEF T
<1> QED
  BY <1>1, <1>7

(* Reserved, sub-query by sub-query. *)
Quoted(u, h) == u \o First(Without(ParentsIn(h), ToSet(u)), Quota)

LEMMA ConcatSet ==
  ASSUME NEW E, NEW s \in Seq(E), NEW t \in Seq(E)
  PROVE  /\ s \o t \in Seq(E) /\ Len(s \o t) = Len(s) + Len(t)
         /\ \A i \in 1 .. Len(s) : (s \o t)[i] = s[i]
         /\ ToSet(s \o t) = ToSet(s) \cup ToSet(t)
<1> DEFINE w == s \o t
<1>1. /\ w \in Seq(E) /\ Len(w) = Len(s) + Len(t)
      /\ \A i \in 1 .. Len(s) : w[i] = s[i]
      /\ \A i \in 1 .. Len(t) : w[Len(s) + i] = t[i]
  OBVIOUS
<1> HIDE DEF w
<1>2. Len(s) \in Nat /\ Len(t) \in Nat
  OBVIOUS
<1>3. DOMAIN w = 1 .. Len(w) /\ DOMAIN s = 1 .. Len(s) /\ DOMAIN t = 1 .. Len(t)
  BY <1>1
<1>4. ASSUME NEW i \in 1 .. Len(w) PROVE w[i] \in ToSet(s) \cup ToSet(t)
  <2>1. CASE i <= Len(s)
    <3>1. i \in 1 .. Len(s) /\ w[i] = s[i]
      BY <1>1, <1>2, <2>1
    <3> QED
      BY <1>3, <3>1 DEF ToSet
  <2>2. CASE ~ (i <= Len(s))
    <3>1. i - Len(s) \in 1 .. Len(t) /\ Len(s) + (i - Len(s)) = i
      BY <1>1, <1>2, <2>2
    <3>2. w[i] = t[i - Len(s)]
      BY <1>1, <3>1
    <3> QED
      BY <1>3, <3>1, <3>2 DEF ToSet
  <2> QED
    BY <2>1, <2>2
<1>5. \A i \in 1 .. Len(s) : i \in 1 .. Len(w) /\ s[i] = w[i]
  BY <1>1, <1>2
<1>6. \A i \in 1 .. Len(t) : Len(s) + i \in 1 .. Len(w) /\ t[i] = w[Len(s) + i]
  BY <1>1, <1>2
<1>7. ToSet(w) \subseteq ToSet(s) \cup ToSet(t)
  <2>1. \A x \in ToSet(w) : \E i \in 1 .. Len(w) : x = w[i]
    BY <1>3 DEF ToSet
  <2> QED
    BY <1>4, <2>1
<1>8. ToSet(s) \subseteq ToSet(w) /\ ToSet(t) \subseteq ToSet(w)
  BY <1>3, <1>5, <1>6 DEF ToSet
<1>9. ToSet(w) = ToSet(s) \cup ToSet(t)
  BY <1>7, <1>8
<1> QED
  BY <1>1, <1>9 DEF w

LEMMA QuotedIn ==
  ASSUME NEW u \in Seq(Parent), NEW h \in Seq(Child)
  PROVE  /\ Quoted(u, h) \in Seq(Parent) /\ Len(Quoted(u, h)) <= Len(u) + Quota
         /\ ToSet(u) \subseteq ToSet(Quoted(u, h))
         /\ \A a \in 1 .. Len(ParentsIn(h)) : a <= Quota => ParentsIn(h)[a] \in ToSet(Quoted(u, h))
<1> DEFINE p == ParentsIn(h)
           w == Without(p, ToSet(u))
           f == First(w, Quota)
<1>0. Quota \in Nat
  BY RetrievalAssumption
<1>1. p \in Seq(Parent)
  BY ParentsFacts
<1> HIDE DEF p
<1>2. w \in Seq(Parent)
  BY <1>1, WithoutFacts
<1>3. \A a \in 1 .. Len(p) : p[a] \notin ToSet(u) => \E j \in 1 .. Len(w) : j <= a /\ w[j] = p[a]
  BY <1>1, WithoutFacts
<1> HIDE DEF w
<1>4. /\ f \in Seq(Parent) /\ Len(f) <= Quota /\ \A i \in 1 .. Len(f) : f[i] = w[i]
      /\ \A i \in 1 .. Len(w) : i <= Quota => i <= Len(f)
  BY <1>0, <1>2, FirstFacts
<1>5. Quoted(u, h) = u \o f
  BY DEF Quoted, f, w, p
<1> HIDE DEF f
<1>6. /\ u \o f \in Seq(Parent) /\ Len(u \o f) = Len(u) + Len(f)
      /\ ToSet(u \o f) = ToSet(u) \cup ToSet(f)
  BY <1>4, ConcatSet
<1>7. DOMAIN f = 1 .. Len(f) /\ Len(f) \in Nat /\ Len(w) \in Nat /\ Len(u) \in Nat
  BY <1>2, <1>4
<1>8. ASSUME NEW a \in 1 .. Len(p), a <= Quota, p[a] \notin ToSet(u) PROVE p[a] \in ToSet(f)
  <2>1. PICK j \in 1 .. Len(w) : j <= a /\ w[j] = p[a]
    BY <1>3, <1>8
  <2>2. j <= Quota
    BY <1>0, <1>7, <1>8, <2>1
  <2>3. j \in 1 .. Len(f) /\ f[j] = p[a]
    BY <1>4, <1>7, <2>1, <2>2
  <2> QED
    BY <1>7, <2>3 DEF ToSet
<1>9. Len(u \o f) <= Len(u) + Quota
  BY <1>0, <1>4, <1>6, <1>7
<1>10. \A a \in 1 .. Len(p) : a <= Quota => p[a] \in ToSet(u) \cup ToSet(f)
  BY <1>8
<1> HIDE DEF f
<1> QED
  BY <1>5, <1>6, <1>9, <1>10 DEF p

ReservedTrace(hits) ==
  \E st \in [0 .. Len(hits) -> Seq(Parent)] :
    /\ st[0] = <<>> /\ st[Len(hits)] = Reserved(hits)
    /\ \A i \in 1 .. Len(hits) : st[i] = Quoted(st[i - 1], hits[i])

LEMMA ReservedRun ==
  ASSUME NEW hits \in Seq(Seq(Child))
  PROVE  ReservedTrace(hits)
<1> DEFINE n == Len(hits)
           X == Seq(Parent)
           step == [q \in X \X (1 .. n) |-> Quoted(q[1], hits[q[2]])]
           Rec(g) == g = [R \in SUBSET (1 .. n) |->
                            IF R = {} THEN <<>> ELSE Quoted(g[R \ {Max(R)}], hits[Max(R)])]
           it == CHOOSE g : Rec(g)
<1>1. n \in Nat /\ DOMAIN hits = 1 .. n /\ <<>> \in X /\ \A i \in 1 .. n : hits[i] \in Seq(Child)
  OBVIOUS
<1>2. \A u \in X, i \in 1 .. n : Quoted(u, hits[i]) \in X /\ step[<<u, i>>] = Quoted(u, hits[i])
  BY <1>1, QuotedIn
<1>3. step \in [X \X (1 .. n) -> X]
  BY <1>2
<1>4. Reserved(hits) = it[1 .. n]
  BY <1>1 DEF Reserved, FoldLeft, MapThenFoldSet, Quoted
<1> HIDE DEF n, X, step
<1>5. PICK g \in [SUBSET (1 .. n) -> X] : RunsOver(g, <<>>, step, n)
  BY <1>1, <1>3, RunExists
<1>6. ASSUME NEW R \in SUBSET (1 .. n)
      PROVE  g[R] = IF R = {} THEN <<>> ELSE Quoted(g[R \ {Max(R)}], hits[Max(R)])
  <2>1. R # {} => Max(R) \in 1 .. n
    BY <1>1, MaxIn
  <2>2. g[R \ {Max(R)}] \in X
    BY <1>5
  <2> QED
    BY <1>2, <1>5, <2>1, <2>2 DEF RunsOver
<1>7. Rec(g)
  <2>1. g = [R \in SUBSET (1 .. n) |-> g[R]]
    BY <1>5
  <2> QED
    BY <1>6, <2>1
<1>8. Rec(it)
  BY <1>7
<1> HIDE DEF it
<1>9. RunsIn(it, <<>>, step, n, X)
  <2>1. it[{}] = <<>>
    BY <1>8
  <2>2. ASSUME NEW R \in SUBSET (1 .. n), R # {}, it[R \ {Max(R)}] \in X
        PROVE  it[R] = step[<<it[R \ {Max(R)}], Max(R)>>]
    <3>1. Max(R) \in 1 .. n
      BY <1>1, <2>2, MaxIn
    <3>2. it[R] = Quoted(it[R \ {Max(R)}], hits[Max(R)])
      BY <1>8, <2>2
    <3> QED
      BY <1>2, <2>2, <3>1, <3>2
  <2> QED
    BY <2>1, <2>2 DEF RunsIn
<1>10. PICK st \in [0 .. n -> X] : /\ st[0] = <<>> /\ st[n] = it[1 .. n]
                                   /\ \A i \in 1 .. n : st[i] = step[<<st[i - 1], i>>]
  <2>1. Traced(it, <<>>, step, n, X)
    BY <1>1, <1>3, <1>9, RunFacts
  <2> QED
    BY <2>1 DEF Traced
<1>11. ASSUME NEW i \in 1 .. n PROVE st[i] = Quoted(st[i - 1], hits[i])
  <2>1. st[i - 1] \in X
    BY <1>1, <1>10
  <2> QED
    BY <1>2, <1>10, <2>1
<1> QED
  BY <1>4, <1>10, <1>11 DEF n, X, ReservedTrace

(* The reserved parents are no more than the quotas together, and each sub-query's
   own first parents are among them: those it leaves out an earlier one has taken. *)
LEMMA ReservedFacts ==
  ASSUME NEW hits \in Seq(Seq(Child))
  PROVE  /\ Reserved(hits) \in Seq(Parent) /\ Len(Reserved(hits)) <= Len(hits) * Quota
         /\ \A k \in 1 .. Len(hits) : \A a \in 1 .. Len(ParentsIn(hits[k])) :
              a <= Quota => ParentsIn(hits[k])[a] \in ToSet(Reserved(hits))
<1> DEFINE n == Len(hits)
<1>0. Quota \in Nat
  BY RetrievalAssumption
<1>1. PICK st \in [0 .. n -> Seq(Parent)] :
           /\ st[0] = <<>> /\ st[n] = Reserved(hits)
           /\ \A i \in 1 .. n : st[i] = Quoted(st[i - 1], hits[i])
  <2>1. ReservedTrace(hits)
    BY ReservedRun
  <2> QED
    BY <2>1 DEF ReservedTrace
<1>2. \A i \in 1 .. n : hits[i] \in Seq(Child)
  OBVIOUS
<1>3. n \in Nat
  OBVIOUS
<1> DEFINE Has(i) == /\ Len(st[i]) <= i * Quota
                     /\ \A k \in 1 .. i : \A a \in 1 .. Len(ParentsIn(hits[k])) :
                          a <= Quota => ParentsIn(hits[k])[a] \in ToSet(st[i])
           T == {i \in Nat : i <= n => Has(i)}
<1> HIDE DEF n
<1>4. 0 \in T
  <2>1. Len(st[0]) = 0 /\ 0 * Quota = 0
    BY <1>0, <1>1
  <2> QED
    BY <2>1
<1>5. ASSUME NEW i \in Nat, i \in T PROVE i + 1 \in T
  <2>0. i + 1 \in Nat /\ i + 1 - 1 = i
    OBVIOUS
  <2> SUFFICES ASSUME i + 1 <= n PROVE Has(i + 1)
    BY <2>0
  <2>1. i \in 0 .. n /\ i + 1 \in 1 .. n /\ i <= n
    BY <1>3
  <2>2. Has(i)
    BY <1>5, <2>1
  <2>3. st[i + 1] = Quoted(st[i], hits[i + 1])
    BY <1>1, <2>0, <2>1
  <2>4. st[i] \in Seq(Parent) /\ hits[i + 1] \in Seq(Child)
    BY <1>1, <1>2, <2>1
  <2>5. /\ Quoted(st[i], hits[i + 1]) \in Seq(Parent)
        /\ Len(Quoted(st[i], hits[i + 1])) <= Len(st[i]) + Quota
        /\ ToSet(st[i]) \subseteq ToSet(Quoted(st[i], hits[i + 1]))
        /\ \A a \in 1 .. Len(ParentsIn(hits[i + 1])) :
             a <= Quota => ParentsIn(hits[i + 1])[a] \in ToSet(Quoted(st[i], hits[i + 1]))
    BY <2>4, QuotedIn
  <2>6. \A k \in 1 .. i + 1 : k \in 1 .. i \/ k = i + 1
    OBVIOUS
  <2>7. (i + 1) * Quota = i * Quota + Quota /\ i * Quota \in Nat
    BY <1>0
  <2>8. Len(st[i]) \in Nat /\ Len(st[i + 1]) \in Nat
    BY <2>3, <2>4, <2>5
  <2>9. Len(st[i + 1]) <= (i + 1) * Quota
    <3>1. Len(st[i]) <= i * Quota /\ Len(st[i + 1]) <= Len(st[i]) + Quota
      BY <2>2, <2>3, <2>5
    <3> QED
      BY <1>0, <2>7, <2>8, <3>1
  <2> QED
    BY <2>2, <2>3, <2>5, <2>6, <2>9
<1> HIDE DEF T
<1>6. Nat \subseteq T
  BY <1>4, <1>5, NatSetInduction
<1>7. n \in T /\ n <= n
  BY <1>3, <1>6
<1>8. Has(n)
  BY <1>7 DEF T
<1>9. st[n] \in Seq(Parent)
  BY <1>3
<1> QED
  BY <1>1, <1>8, <1>9 DEF n

LEMMA RangeCard ==
  ASSUME NEW E, NEW s \in Seq(E)
  PROVE  /\ IsFiniteSet(ToSet(s)) /\ Cardinality(ToSet(s)) \in Nat
         /\ Cardinality(ToSet(s)) <= Len(s)
         /\ Distinct(s) => Cardinality(ToSet(s)) = Len(s)
<1>1. Len(s) \in Nat /\ DOMAIN s = 1 .. Len(s) /\ s \in [1 .. Len(s) -> E]
  OBVIOUS
<1>2. s \in Surjection(1 .. Len(s), ToSet(s))
  <2>1. s \in [1 .. Len(s) -> ToSet(s)]
    BY <1>1 DEF ToSet
  <2>2. \A x \in ToSet(s) : \E i \in 1 .. Len(s) : s[i] = x
    BY <1>1 DEF ToSet
  <2> QED
    BY <2>1, <2>2 DEF Surjection
<1>3. IsFiniteSet(1 .. Len(s)) /\ Cardinality(1 .. Len(s)) = Len(s)
  <2>1. 1 \in Int /\ Len(s) \in Int
    BY <1>1
  <2>2. /\ IsFiniteSet(1 .. Len(s))
        /\ Cardinality(1 .. Len(s)) = IF 1 > Len(s) THEN 0 ELSE Len(s) - 1 + 1
    BY <2>1, FS_Interval
  <2> QED
    BY <1>1, <2>2
<1>4. /\ IsFiniteSet(ToSet(s)) /\ Cardinality(ToSet(s)) <= Cardinality(1 .. Len(s))
      /\ s \in Injection(1 .. Len(s), ToSet(s))
           => Cardinality(ToSet(s)) = Cardinality(1 .. Len(s))
  BY <1>2, <1>3, FS_Surjection
<1>5. Cardinality(ToSet(s)) \in Nat
  BY <1>4, FS_CardinalityType
<1>6. Distinct(s) => s \in Injection(1 .. Len(s), ToSet(s))
  <2>1. s \in [1 .. Len(s) -> ToSet(s)]
    BY <1>1 DEF ToSet
  <2> QED
    BY <1>1, <2>1 DEF Distinct, Injection, IsInjective
<1> QED
  BY <1>3, <1>4, <1>5, <1>6

LEMMA PrefixCard ==
  ASSUME NEW E, NEW s \in Seq(E), Distinct(s), NEW q \in Nat, q <= Len(s),
         NEW S, IsFiniteSet(S), \A j \in 1 .. q : s[j] \in S
  PROVE  q <= Cardinality(S)
<1> DEFINE f == [j \in 1 .. q |-> s[j]]
<1>1. \A j \in 1 .. q : j \in 1 .. Len(s)
  OBVIOUS
<1>2. f \in Injection(1 .. q, S)
  <2>1. f \in [1 .. q -> S]
    OBVIOUS
  <2>2. \A a, b \in 1 .. q : f[a] = f[b] => a = b
    BY <1>1 DEF Distinct
  <2> HIDE DEF f
  <2> QED
    BY <2>1, <2>2 DEF Injection, IsInjective
<1>3. Cardinality(1 .. q) = q
  <2>1. Cardinality(1 .. q) = IF 1 > q THEN 0 ELSE q - 1 + 1
    BY FS_Interval
  <2> QED
    BY <2>1
<1> HIDE DEF f
<1>4. Cardinality(1 .. q) <= Cardinality(S)
  BY <1>2, FS_Injection
<1> QED
  BY <1>3, <1>4

(* An order of all the elements of a finite set misses none. *)
LEMMA OrderOnto ==
  ASSUME NEW S, IsFiniteSet(S), NEW order \in OrdersOf(S, Cardinality(S))
  PROVE  order \in Seq(S) /\ ToSet(order) = S
<1> DEFINE n == Cardinality(S)
<1>1. n \in Nat
  BY FS_CardinalityType
<1>2. order \in Injection(1 .. n, S)
  BY DEF OrdersOf
<1>3. Cardinality(1 .. n) = n
  <2>1. Cardinality(1 .. n) = IF 1 > n THEN 0 ELSE n - 1 + 1
    BY <1>1, FS_Interval
  <2> QED
    BY <1>1, <2>1
<1>4. order \in Surjection(1 .. n, S)
  BY <1>2, <1>3, FS_Injection
<1> HIDE DEF n
<1>5. order \in [1 .. n -> S] /\ \A x \in S : \E i \in 1 .. n : order[i] = x
  BY <1>4 DEF Surjection
<1>6. order \in Seq(S)
  BY <1>1, <1>5
<1>7. ToSet(order) = S
  BY <1>5 DEF ToSet
<1> QED
  BY <1>6, <1>7
-----------------------------------------------------------------------------
(* _dedup_to_parents, child by child. *)
DedupTrace(k, P, cs) ==
  \E st \in [0 .. Len(cs) -> Seq(Parent)] :
    /\ st[0] = <<>> /\ st[Len(cs)] = Dedup(k, P, cs)
    /\ \A i \in 1 .. Len(cs) : st[i] = Taken(k, P, st[i - 1], cs[i])

LEMMA DedupRun ==
  ASSUME NEW k, NEW P, NEW cs \in Seq(Child)
  PROVE  DedupTrace(k, P, cs)
<1> DEFINE n == Len(cs)
           X == Seq(Parent)
           step == [q \in X \X (1 .. n) |-> Taken(k, P, q[1], cs[q[2]])]
           it == CHOOSE g : Folding(k, P, cs, n, g)
<1>1. n \in Nat /\ DOMAIN cs = 1 .. n /\ <<>> \in X /\ \A i \in 1 .. n : ParentOf[cs[i]] \in Parent
  BY Constants
<1>2. \A u \in X, i \in 1 .. n :
        Taken(k, P, u, cs[i]) \in X /\ step[<<u, i>>] = Taken(k, P, u, cs[i])
  BY <1>1, TakenIn
<1>3. step \in [X \X (1 .. n) -> X]
  BY <1>2
<1>4. Dedup(k, P, cs) = it[1 .. n]
  BY <1>1 DEF Dedup, FoldLeft, MapThenFoldSet, Folding, Taken
<1>5. Folding(k, P, cs, n, it)
  BY <1>1, FoldingExists
<1> HIDE DEF it, n
<1>6. \A S \in SUBSET (1 .. n) : it[S] \in X
  BY <1>1, <1>5, FoldingIn
<1> HIDE DEF X, step
<1>7. RunsIn(it, <<>>, step, n, X)
  <2>1. it[{}] = <<>>
    BY <1>5 DEF Folding
  <2>2. ASSUME NEW S \in SUBSET (1 .. n), S # {}, it[S \ {Max(S)}] \in X
        PROVE  it[S] = step[<<it[S \ {Max(S)}], Max(S)>>]
    <3>1. Max(S) \in 1 .. n
      BY <1>1, <2>2, MaxIn
    <3>2. it[S] = Taken(k, P, it[S \ {Max(S)}], cs[Max(S)])
      BY <1>5, <2>2 DEF Folding
    <3> QED
      BY <1>2, <2>2, <3>1, <3>2
  <2> QED
    BY <2>1, <2>2 DEF RunsIn
<1>8. PICK st \in [0 .. n -> X] : /\ st[0] = <<>> /\ st[n] = it[1 .. n]
                                  /\ \A i \in 1 .. n : st[i] = step[<<st[i - 1], i>>]
  <2>1. Traced(it, <<>>, step, n, X)
    BY <1>1, <1>3, <1>7, RunFacts
  <2> QED
    BY <2>1 DEF Traced
<1>9. ASSUME NEW i \in 1 .. n PROVE st[i] = Taken(k, P, st[i - 1], cs[i])
  <2>1. st[i - 1] \in X
    BY <1>1, <1>8
  <2> QED
    BY <1>2, <1>8, <2>1
<1> QED
  BY <1>4, <1>8, <1>9 DEF n, X, DedupTrace

(* One child: a parent that is wanted is taken while there are fewer than k. *)
LEMMA TakenStep ==
  ASSUME NEW k \in Nat, NEW P \in SUBSET Parent, IsFiniteSet(P), Cardinality(P) <= k,
         NEW u \in Seq(Parent), NEW c \in Child, Distinct(u), ToSet(u) \subseteq P
  PROVE  /\ Distinct(Taken(k, P, u, c)) /\ ToSet(Taken(k, P, u, c)) \subseteq P
         /\ ToSet(Taken(k, P, u, c)) = ToSet(u) \cup ({ParentOf[c]} \cap P)
<1> DEFINE p == ParentOf[c]
           t == Taken(k, P, u, c)
<1>0. p \in Parent
  BY Constants
<1>1. CASE p \notin P \/ p \in ToSet(u)
  <2>1. t = u
    BY <1>1 DEF Taken, Admit
  <2> HIDE DEF t
  <2>2. ToSet(u) = ToSet(u) \cup ({p} \cap P)
    BY <1>1
  <2> QED
    BY <2>1, <2>2 DEF t
<1>2. CASE p \in P /\ p \notin ToSet(u)
  <2>1. Cardinality(ToSet(u)) = Len(u) /\ Len(u) \in Nat
    BY RangeCard
  <2>2. IsFiniteSet(P \ {p}) /\ Cardinality(P \ {p}) = Cardinality(P) - 1
    BY <1>2, FS_RemoveElement
  <2>3. ToSet(u) \in SUBSET (P \ {p})
    BY <1>2
  <2>4. Cardinality(ToSet(u)) <= Cardinality(P \ {p})
    BY <2>2, <2>3, FS_Subset
  <2>5. Cardinality(P) \in Nat
    BY FS_CardinalityType
  <2>6. Len(u) < k
    BY <2>1, <2>2, <2>4, <2>5
  <2>7. t = Append(u, p)
    BY <1>2, <2>6 DEF Taken, Admit
  <2> HIDE DEF t, p
  <2>8. ToSet(Append(u, p)) = ToSet(u) \cup {p}
    BY <1>0, AppendAdds
  <2>9. Distinct(Append(u, p))
    BY <1>0, <1>2, DistinctAppend
  <2>10. ToSet(u) \cup {p} = ToSet(u) \cup ({p} \cap P) /\ ToSet(u) \cup {p} \subseteq P
    BY <1>2
  <2> QED
    BY <2>7, <2>8, <2>9, <2>10 DEF t, p
<1> QED
  BY <1>1, <1>2

(* With no more parents wanted than k none of them is lost, whatever is a video. *)
LEMMA DedupAll ==
  ASSUME NEW k \in Nat, NEW P \in SUBSET Parent, IsFiniteSet(P), Cardinality(P) <= k,
         NEW cs \in Seq(Child)
  PROVE  /\ Dedup(k, P, cs) \in Seq(Parent) /\ Distinct(Dedup(k, P, cs))
         /\ ToSet(Dedup(k, P, cs)) = ParentSet(cs, Len(cs)) \cap P
<1>1. PICK st \in [0 .. Len(cs) -> Seq(Parent)] :
           /\ st[0] = <<>> /\ st[Len(cs)] = Dedup(k, P, cs)
           /\ \A i \in 1 .. Len(cs) : st[i] = Taken(k, P, st[i - 1], cs[i])
  <2>1. DedupTrace(k, P, cs)
    BY DedupRun
  <2> QED
    BY <2>1 DEF DedupTrace
<1> DEFINE Has(i) == Distinct(st[i]) /\ ToSet(st[i]) = ParentSet(cs, i) \cap P
           T == {i \in Nat : i <= Len(cs) => Has(i)}
<1>2. 0 \in T
  <2>1. ToSet(<<>>) = {} /\ 1 .. 0 = {}
    BY DEF ToSet
  <2>2. Len(<<>>) = 0
    OBVIOUS
  <2>3. Distinct(<<>>)
    BY <2>1, <2>2 DEF Distinct
  <2>4. ParentSet(cs, 0) = {}
    BY <2>1 DEF ParentSet
  <2> QED
    BY <1>1, <2>1, <2>3, <2>4
<1>3. ASSUME NEW i \in Nat, i \in T PROVE i + 1 \in T
  <2>0. i + 1 \in Nat /\ i + 1 - 1 = i
    OBVIOUS
  <2> SUFFICES ASSUME i + 1 <= Len(cs) PROVE Has(i + 1)
    BY <2>0
  <2>1. i \in 0 .. Len(cs) /\ i + 1 \in 1 .. Len(cs) /\ i <= Len(cs)
    OBVIOUS
  <2>2. Has(i)
    BY <1>3, <2>1
  <2>3. st[i + 1] = Taken(k, P, st[i], cs[i + 1])
    BY <1>1, <2>0, <2>1
  <2>4. st[i] \in Seq(Parent) /\ cs[i + 1] \in Child /\ ToSet(st[i]) \subseteq P
    BY <2>1, <2>2
  <2>5. /\ Distinct(Taken(k, P, st[i], cs[i + 1]))
        /\ ToSet(Taken(k, P, st[i], cs[i + 1])) = ToSet(st[i]) \cup ({ParentOf[cs[i + 1]]} \cap P)
    BY <2>2, <2>4, TakenStep
  <2>6. 1 .. i + 1 = (1 .. i) \cup {i + 1}
    OBVIOUS
  <2>7. ParentSet(cs, i + 1) = ParentSet(cs, i) \cup {ParentOf[cs[i + 1]]}
    BY <2>6 DEF ParentSet
  <2> QED
    BY <2>2, <2>3, <2>5, <2>7
<1> HIDE DEF T
<1>4. Nat \subseteq T
  BY <1>2, <1>3, NatSetInduction
<1>5. Len(cs) \in T /\ Len(cs) \in 0 .. Len(cs)
  BY <1>4
<1>6. Has(Len(cs))
  BY <1>5 DEF T
<1> QED
  BY <1>1, <1>5, <1>6

VideosOf(S) == {p \in S : VideoRow(p)}

(* One child of a plain question: a video is taken, or the quota is full. *)
LEMMA AdmitStep ==
  ASSUME NEW k \in Nat, NEW u \in Seq(Parent), NEW c \in Child
  PROVE  /\ ToSet(u) \subseteq ToSet(Admit(k, u, c))
         /\ \/ Cardinality(VideosOf(ToSet(u))) >= VideoQuota
            \/ VideoRow(ParentOf[c]) => ParentOf[c] \in ToSet(Admit(k, u, c))
<1> DEFINE p == ParentOf[c]
<1>0. p \in Parent
  BY Constants
<1>1. Admit(k, u, c) = u \/ Admit(k, u, c) = Append(u, p)
  BY DEF Admit
<1>2. Cardinality(VideosOf(ToSet(u))) \in Nat /\ VideoQuota \in Nat
  <2>1. IsFiniteSet(ToSet(u)) /\ VideosOf(ToSet(u)) \in SUBSET ToSet(u)
    BY RangeCard DEF VideosOf
  <2> QED
    BY <2>1, FS_Subset, FS_CardinalityType, RetrievalAssumption
<1>3. ASSUME ~ (Cardinality(VideosOf(ToSet(u))) >= VideoQuota), VideoRow(p), p \notin ToSet(u)
      PROVE  Admit(k, u, c) = Append(u, p)
  <2>1. Cardinality(VideosOf(ToSet(u))) < VideoQuota
    BY <1>2, <1>3
  <2> QED
    BY <1>3, <2>1 DEF Admit, VideosOf
<1> HIDE DEF p
<1>4. ToSet(Append(u, p)) = ToSet(u) \cup {p}
  BY <1>0, AppendAdds
<1>5. \/ Cardinality(VideosOf(ToSet(u))) >= VideoQuota
      \/ VideoRow(p) => p \in ToSet(Admit(k, u, c))
  BY <1>1, <1>3, <1>4
<1> QED
  BY <1>1, <1>4, <1>5 DEF p

(* A plain question keeps every video that was found, or the quota of them. *)
LEMMA DedupVideos ==
  ASSUME NEW k \in Nat, NEW cs \in Seq(Child)
  PROVE  \/ Cardinality(VideosOf(ToSet(Dedup(k, Parent, cs)))) >= VideoQuota
         \/ VideosOf(ParentSet(cs, Len(cs))) \subseteq ToSet(Dedup(k, Parent, cs))
<1>1. PICK st \in [0 .. Len(cs) -> Seq(Parent)] :
           /\ st[0] = <<>> /\ st[Len(cs)] = Dedup(k, Parent, cs)
           /\ \A i \in 1 .. Len(cs) : st[i] = Taken(k, Parent, st[i - 1], cs[i])
  <2>1. DedupTrace(k, Parent, cs)
    BY DedupRun
  <2> QED
    BY <2>1 DEF DedupTrace
<1> DEFINE Has(i) == \/ Cardinality(VideosOf(ToSet(st[i]))) >= VideoQuota
                     \/ VideosOf(ParentSet(cs, i)) \subseteq ToSet(st[i])
           T == {i \in Nat : i <= Len(cs) => Has(i)}
<1>2. 0 \in T
  <2>1. 1 .. 0 = {}
    OBVIOUS
  <2>2. VideosOf(ParentSet(cs, 0)) = {}
    BY <2>1 DEF ParentSet, VideosOf
  <2> QED
    BY <2>2
<1>3. ASSUME NEW i \in Nat, i \in T PROVE i + 1 \in T
  <2>0. i + 1 \in Nat /\ i + 1 - 1 = i
    OBVIOUS
  <2> SUFFICES ASSUME i + 1 <= Len(cs) PROVE Has(i + 1)
    BY <2>0
  <2>1. i \in 0 .. Len(cs) /\ i + 1 \in 1 .. Len(cs) /\ i <= Len(cs) /\ i + 1 \in 0 .. Len(cs)
    OBVIOUS
  <2>2. Has(i)
    BY <1>3, <2>1
  <2>3. st[i + 1] = Taken(k, Parent, st[i], cs[i + 1])
    BY <1>1, <2>0, <2>1
  <2>4. st[i] \in Seq(Parent) /\ st[i + 1] \in Seq(Parent) /\ cs[i + 1] \in Child
    BY <2>1
  <2>5. st[i + 1] = Admit(k, st[i], cs[i + 1])
    <3>1. ParentOf[cs[i + 1]] \in Parent
      BY <2>4, Constants
    <3> QED
      BY <2>3, <3>1 DEF Taken
  <2>6. /\ ToSet(st[i]) \subseteq ToSet(st[i + 1])
        /\ \/ Cardinality(VideosOf(ToSet(st[i]))) >= VideoQuota
           \/ VideoRow(ParentOf[cs[i + 1]]) => ParentOf[cs[i + 1]] \in ToSet(st[i + 1])
    <3>1. /\ ToSet(st[i]) \subseteq ToSet(Admit(k, st[i], cs[i + 1]))
          /\ \/ Cardinality(VideosOf(ToSet(st[i]))) >= VideoQuota
             \/ VideoRow(ParentOf[cs[i + 1]])
                  => ParentOf[cs[i + 1]] \in ToSet(Admit(k, st[i], cs[i + 1]))
      BY <2>4, AdmitStep
    <3> QED
      BY <2>5, <3>1
  <2>7. CASE Cardinality(VideosOf(ToSet(st[i]))) >= VideoQuota
    <3>1. IsFiniteSet(ToSet(st[i + 1]))
      BY <2>4, RangeCard
    <3>2. VideosOf(ToSet(st[i])) \subseteq VideosOf(ToSet(st[i + 1]))
          /\ VideosOf(ToSet(st[i + 1])) \subseteq ToSet(st[i + 1])
      BY <2>6 DEF VideosOf
    <3>3. IsFiniteSet(VideosOf(ToSet(st[i + 1])))
      BY <3>1, <3>2, FS_Subset
    <3>4. /\ IsFiniteSet(VideosOf(ToSet(st[i])))
          /\ Cardinality(VideosOf(ToSet(st[i]))) <= Cardinality(VideosOf(ToSet(st[i + 1])))
      BY <3>2, <3>3, FS_Subset
    <3>5. /\ Cardinality(VideosOf(ToSet(st[i]))) \in Nat
          /\ Cardinality(VideosOf(ToSet(st[i + 1]))) \in Nat /\ VideoQuota \in Nat
      BY <3>3, <3>4, FS_CardinalityType, RetrievalAssumption
    <3> QED
      BY <2>7, <3>4, <3>5
  <2>8. CASE ~ (Cardinality(VideosOf(ToSet(st[i]))) >= VideoQuota)
    <3>1. 1 .. i + 1 = (1 .. i) \cup {i + 1}
      OBVIOUS
    <3>2. ParentSet(cs, i + 1) = ParentSet(cs, i) \cup {ParentOf[cs[i + 1]]}
      BY <3>1 DEF ParentSet
    <3>3. VideosOf(ParentSet(cs, i)) \subseteq ToSet(st[i])
      BY <2>2, <2>8
    <3>4. VideosOf(ParentSet(cs, i + 1)) \subseteq ToSet(st[i + 1])
      BY <2>6, <2>8, <3>2, <3>3 DEF VideosOf
    <3> QED
      BY <3>4
  <2> QED
    BY <2>7, <2>8
<1> HIDE DEF T
<1>4. Nat \subseteq T
  BY <1>2, <1>3, NatSetInduction
<1>5. Len(cs) \in T /\ Len(cs) \in 0 .. Len(cs)
  BY <1>4
<1>6. Has(Len(cs))
  BY <1>5 DEF T
<1> QED
  BY <1>1, <1>5, <1>6
-----------------------------------------------------------------------------
(* There is always a selection: the heads fit under the cap. *)

LEMMA ReserveFits ==
  ASSUME NEW m \in 1 .. Subs
  PROVE  Reserve(m) \in Nat /\ m * Reserve(m) \in Nat /\ m * Reserve(m) <= RerankCap
<1>1. Subs \in Nat /\ RerankCap \in Nat /\ Subs <= RerankCap
  BY RetrievalAssumption
<1>2. m \in Nat \ {0} /\ m <= RerankCap
  BY <1>1
<1> DEFINE d == RerankCap \div m
<1>3. d \in Nat /\ m * d <= RerankCap
  BY <1>1, <1>2
<1>4. Reserve(m) = IF d > 1 THEN d ELSE 1
  BY DEF Reserve
<1> HIDE DEF d
<1>5. CASE d > 1
  <2>1. m * d \in Nat
    BY <1>2, <1>3
  <2> QED
    BY <1>3, <1>4, <1>5, <2>1
<1>6. CASE ~ (d > 1)
  <2>1. Reserve(m) = 1 /\ m * 1 = m
    BY <1>2, <1>4, <1>6
  <2> QED
    BY <1>2, <2>1
<1> QED
  BY <1>5, <1>6

(* The heads together are no more than the cap. *)
LEMMA HeadsFit ==
  ASSUME NEW hits \in Seq(Seq(Child)), Len(hits) \in 1 .. Subs
  PROVE  Cardinality(Heads(hits)) <= RerankCap /\ Heads(hits) \subseteq Child
<1> DEFINE n == Len(hits)
           r == Reserve(Len(hits))
<1>0. /\ r \in Nat /\ n * r \in Nat /\ n * r <= RerankCap /\ RerankCap \in Nat
      /\ n \in Nat
  BY ReserveFits, RetrievalAssumption
<1>1. PICK st \in [0 .. n -> SUBSET Child] :
           /\ st[0] = {} /\ st[n] = Heads(hits)
           /\ \A i \in 1 .. n : st[i] = Headed(st[i - 1], hits[i], n)
  <2>1. HeadsTrace(hits)
    BY <1>0, HeadsRun
  <2> QED
    BY <2>1 DEF HeadsTrace
<1>2. \A i \in 1 .. n : hits[i] \in Seq(Child)
  OBVIOUS
<1>3. \A S \in SUBSET Child : IsFiniteSet(S) /\ Cardinality(S) \in Nat
  BY FS_Subset, FS_CardinalityType, RetrievalAssumption
<1> DEFINE T == {i \in Nat : i <= n => Cardinality(st[i]) <= i * r}
<1>4. 0 \in T
  <2>1. Cardinality(st[0]) = 0 /\ 0 * r = 0
    BY <1>0, <1>1, FS_EmptySet
  <2> QED
    BY <2>1
<1>5. ASSUME NEW i \in Nat, i \in T PROVE i + 1 \in T
  <2>0. i + 1 \in Nat /\ i + 1 - 1 = i
    OBVIOUS
  <2> SUFFICES ASSUME i + 1 <= n PROVE Cardinality(st[i + 1]) <= (i + 1) * r
    BY <2>0
  <2>1. i \in 0 .. n /\ i + 1 \in 1 .. n /\ i <= n
    BY <1>0
  <2>2. Cardinality(st[i]) <= i * r
    BY <1>5, <2>1
  <2> DEFINE u == st[i]
             f == First(Without(hits[i + 1], u), r)
  <2>3. st[i + 1] = u \cup ToSet(f)
    <3>1. st[i + 1] = Headed(st[i], hits[i + 1], n)
      BY <1>1, <2>0, <2>1
    <3> QED
      BY <3>1 DEF Headed
  <2>4. u \in SUBSET Child /\ hits[i + 1] \in Seq(Child)
    BY <1>1, <1>2, <2>1
  <2>5. Without(hits[i + 1], u) \in Seq(Child)
    BY <2>4, WithoutFacts
  <2>6. f \in Seq(Child) /\ Len(f) <= r
    BY <1>0, <2>5, FirstFacts
  <2> HIDE DEF f, u, r, n
  <2>7. /\ IsFiniteSet(ToSet(f)) /\ Cardinality(ToSet(f)) \in Nat
        /\ Cardinality(ToSet(f)) <= Len(f) /\ Len(f) \in Nat
    BY <2>6, RangeCard
  <2>8. IsFiniteSet(u) /\ Cardinality(u) \in Nat
    BY <1>3, <2>4
  <2>9. Cardinality(u \cup ToSet(f))
          = Cardinality(u) + Cardinality(ToSet(f)) - Cardinality(u \cap ToSet(f))
    BY <2>7, <2>8, FS_Union
  <2>10. Cardinality(u \cap ToSet(f)) \in Nat
    <3>1. u \cap ToSet(f) \in SUBSET u
      OBVIOUS
    <3> QED
      BY <2>8, <3>1, FS_Subset, FS_CardinalityType
  <2>11. Cardinality(u \cup ToSet(f)) <= Cardinality(u) + r
    BY <1>0, <2>6, <2>7, <2>8, <2>9, <2>10
  <2>12. (i + 1) * r = i * r + r /\ i * r \in Nat
    BY <1>0
  <2>13. Cardinality(u \cup ToSet(f)) \in Int
    BY <2>7, <2>8, <2>9, <2>10
  <2>14. Cardinality(u) <= i * r
    BY <2>2 DEF u
  <2> QED
    <3> DEFINE x == i * r
    <3>1. x \in Nat /\ Cardinality(u) <= x /\ (i + 1) * r = x + r
      BY <2>12, <2>14
    <3> HIDE DEF x
    <3> QED
      BY <1>0, <2>3, <2>8, <2>11, <2>13, <3>1
<1> HIDE DEF T
<1>6. Nat \subseteq T
  BY <1>4, <1>5, NatSetInduction
<1>7. n \in T /\ n <= n /\ n \in 0 .. n
  BY <1>0, <1>6
<1>8. Cardinality(st[n]) <= n * r
  BY <1>7 DEF T
<1>9. st[n] \in SUBSET Child /\ Cardinality(st[n]) \in Nat
  BY <1>3, <1>7
<1> QED
  <2> DEFINE x == n * r
  <2>1. x \in Nat /\ x <= RerankCap /\ Cardinality(st[n]) <= x
    BY <1>0, <1>8
  <2> HIDE DEF x, n
  <2>2. Cardinality(st[n]) <= RerankCap
    BY <1>0, <1>9, <2>1
  <2> QED
    BY <1>1, <1>9, <2>2

(* A head is made of hits. *)
LEMMA HeadsFound ==
  ASSUME NEW hits \in Seq(Seq(Child)), Reserve(Len(hits)) \in Nat
  PROVE  Heads(hits) \subseteq Found(hits)
<1> DEFINE n == Len(hits)
           r == Reserve(Len(hits))
<1>1. PICK st \in [0 .. n -> SUBSET Child] :
           /\ st[0] = {} /\ st[n] = Heads(hits)
           /\ \A i \in 1 .. n : st[i] = Headed(st[i - 1], hits[i], n)
  <2>1. HeadsTrace(hits)
    BY HeadsRun
  <2> QED
    BY <2>1 DEF HeadsTrace
<1>2. DOMAIN hits = 1 .. n /\ n \in Nat /\ \A i \in 1 .. n : hits[i] \in Seq(Child)
  OBVIOUS
<1>3. ASSUME NEW u, NEW h \in Seq(Child)
      PROVE  ToSet(First(Without(h, u), r)) \subseteq ToSet(h)
  <2> DEFINE E == ToSet(h)
             f == First(Without(h, u), r)
  <2>1. h \in Seq(E)
    BY DEF ToSet
  <2> HIDE DEF E
  <2>2. Without(h, u) \in Seq(E)
    BY <2>1, WithoutFacts
  <2>3. f \in Seq(E)
    BY <2>2, FirstFacts
  <2> HIDE DEF f
  <2>4. ToSet(f) \subseteq E
    BY <2>3 DEF ToSet
  <2> QED
    BY <2>4 DEF E, f
<1> DEFINE T == {i \in Nat : i <= n => st[i] \subseteq Found(hits)}
<1> HIDE DEF n
<1>4. 0 \in T
  BY <1>1
<1>5. ASSUME NEW i \in Nat, i \in T PROVE i + 1 \in T
  <2>0. i + 1 \in Nat /\ i + 1 - 1 = i
    OBVIOUS
  <2> SUFFICES ASSUME i + 1 <= n PROVE st[i + 1] \subseteq Found(hits)
    BY <2>0
  <2>1. i + 1 \in 1 .. n /\ i <= n
    BY <1>2
  <2>2. st[i] \subseteq Found(hits)
    BY <1>5, <2>1
  <2>3. st[i + 1] = Headed(st[i], hits[i + 1], n)
    BY <1>1, <2>0, <2>1
  <2>4. ToSet(First(Without(hits[i + 1], st[i]), r)) \subseteq ToSet(hits[i + 1])
    BY <1>2, <1>3, <2>1
  <2>5. ToSet(hits[i + 1]) \subseteq Found(hits)
    BY <1>2, <2>1 DEF Found
  <2> QED
    BY <2>2, <2>3, <2>4, <2>5 DEF Headed, n
<1> HIDE DEF T
<1>6. Nat \subseteq T
  BY <1>4, <1>5, NatSetInduction
<1>7. n \in T /\ n <= n
  BY <1>2, <1>6
<1>8. st[n] \subseteq Found(hits)
  BY <1>7 DEF T
<1> QED
  BY <1>1, <1>8

(* Between a set and a larger one there are sets of every size. *)
LEMMA SizeBetween ==
  ASSUME NEW A, NEW B, IsFiniteSet(B), A \subseteq B, NEW c \in Nat,
         Cardinality(A) <= c, c <= Cardinality(B)
  PROVE  \E S \in SUBSET B : A \subseteq S /\ Cardinality(S) = c
<1>1. IsFiniteSet(A) /\ Cardinality(A) \in Nat /\ Cardinality(B) \in Nat
  BY FS_Subset, FS_CardinalityType
<1> DEFINE a == Cardinality(A)
           T == {d \in Nat : a + d <= Cardinality(B) =>
                   \E S \in SUBSET B : A \subseteq S /\ Cardinality(S) = a + d}
<1>2. 0 \in T
  <2>1. a + 0 = a /\ a \in Nat
    BY <1>1
  <2>2. A \in SUBSET B /\ A \subseteq A
    OBVIOUS
  <2> QED
    BY <2>1, <2>2
<1>3. ASSUME NEW d \in Nat, d \in T PROVE d + 1 \in T
  <2> SUFFICES ASSUME a + (d + 1) <= Cardinality(B)
               PROVE  \E S \in SUBSET B : A \subseteq S /\ Cardinality(S) = a + (d + 1)
    OBVIOUS
  <2>0. a \in Nat
    BY <1>1
  <2> HIDE DEF a
  <2>1. a + d <= Cardinality(B) /\ a + d < Cardinality(B)
    BY <1>1, <2>0
  <2>2. PICK S \in SUBSET B : A \subseteq S /\ Cardinality(S) = a + d
    BY <1>3, <2>1
  <2>3. S # B
    BY <1>1, <2>0, <2>1, <2>2
  <2>4. PICK x \in B : x \notin S
    BY <2>3
  <2>5. IsFiniteSet(S)
    BY FS_Subset
  <2>6. Cardinality(S \cup {x}) = Cardinality(S) + 1
    BY <2>4, <2>5, FS_AddElement
  <2>7. S \cup {x} \in SUBSET B /\ A \subseteq S \cup {x}
    BY <2>2, <2>4
  <2>8. Cardinality(S \cup {x}) = a + (d + 1)
    BY <2>0, <2>2, <2>6
  <2> QED
    BY <2>7, <2>8
<1> HIDE DEF T
<1>4. Nat \subseteq T
  BY <1>2, <1>3, NatSetInduction
<1>5. c - a \in T /\ a + (c - a) = c
  BY <1>1, <1>4
<1> HIDE DEF a
<1>6. \E S \in SUBSET B : A \subseteq S /\ Cardinality(S) = a + (c - a)
  BY <1>5 DEF T
<1> QED
  BY <1>5, <1>6

(* A question always gets a selection: the heads reserved for its sub-queries
   never exceed what is reranked, so there is a cap that keeps them. *)
THEOREM SelectionStands ==
  ASSUME NEW hits \in Seq(Seq(Child)), Len(hits) \in 1 .. Subs
  PROVE  Selections(hits) # {}
<1>1. CASE Len(hits) = 1
  BY <1>1 DEF Selections
<1>2. CASE Len(hits) # 1
  <2>1. DOMAIN hits = 1 .. Len(hits) /\ RerankCap \in Nat
    BY RetrievalAssumption
  <2>2. \A k \in 1 .. Len(hits) : ToSet(hits[k]) \subseteq Child
    <3>1. \A k \in 1 .. Len(hits) : hits[k] \in Seq(Child)
      OBVIOUS
    <3> QED
      BY <3>1 DEF ToSet
  <2>3. Found(hits) \subseteq Child
    BY <2>1, <2>2 DEF Found
  <2>4. IsFiniteSet(Found(hits)) /\ Cardinality(Found(hits)) \in Nat
    BY <2>3, FS_Subset, FS_CardinalityType, RetrievalAssumption
  <2>5. \E S : S \in Reranked(hits)
    <3>1. CASE Cardinality(Found(hits)) <= RerankCap
      BY <3>1 DEF Reranked
    <3>2. CASE ~ (Cardinality(Found(hits)) <= RerankCap)
      <4>1. Cardinality(Heads(hits)) <= RerankCap
        BY HeadsFit
      <4>2. Heads(hits) \subseteq Found(hits)
        BY ReserveFits, HeadsFound
      <4>3. \E S \in SUBSET Found(hits) : Heads(hits) \subseteq S /\ Cardinality(S) = RerankCap
        <5>1. RerankCap <= Cardinality(Found(hits))
          BY <2>1, <2>4, <3>2
        <5> QED
          BY <2>1, <2>4, <4>1, <4>2, <5>1, SizeBetween
      <4> QED
        BY <3>2, <4>3 DEF Reranked
    <3> QED
      BY <3>1, <3>2
  <2>6. PICK S : S \in Reranked(hits)
    BY <2>5
  <2>7. IsFiniteSet(S)
    <3>1. S \subseteq Found(hits)
      BY <2>6 DEF Reranked
    <3> QED
      BY <2>4, <3>1, FS_Subset
  <2>8. PICK order : order \in Bijection(1 .. Cardinality(S), S)
    BY <2>7, FS_CardinalityType DEF ExistsBijection
  <2>9. order \in OrdersOf(S, Cardinality(S))
    BY <2>8 DEF Bijection, OrdersOf
  <2>10. Fused(hits, order) \in Selections(hits)
    BY <1>2, <2>6, <2>9 DEF Selections
  <2> QED
    BY <2>10
<1> QED
  BY <1>1, <1>2
-----------------------------------------------------------------------------
(* What a selection owes to its sub-queries. *)

LEMMA ReserveTyped ==
  ASSUME NEW m \in Nat \ {0}
  PROVE  Reserve(m) \in Nat
<1>1. RerankCap \in Nat
  BY RetrievalAssumption
<1>2. RerankCap \div m \in Int
  BY <1>1
<1> QED
  BY <1>2 DEF Reserve

(* The children that the last ranking orders hold the head of every sub-query. *)
LEMMA RerankedFacts ==
  ASSUME NEW hits \in Seq(Seq(Child)), Len(hits) # 0, NEW S \in Reranked(hits)
  PROVE  /\ S \subseteq Child /\ IsFiniteSet(S)
         /\ \A k \in 1 .. Len(hits) : \A a \in 1 .. Len(hits[k]) :
              a <= Reserve(Len(hits)) => hits[k][a] \in S
<1>0. DOMAIN hits = 1 .. Len(hits) /\ Len(hits) \in Nat \ {0}
  OBVIOUS
<1>1. \A k \in 1 .. Len(hits) : DOMAIN hits[k] = 1 .. Len(hits[k]) /\ ToSet(hits[k]) \subseteq Child
  BY <1>0 DEF ToSet
<1>2. Found(hits) \subseteq Child
  BY <1>0, <1>1 DEF Found
<1>3. S \subseteq Found(hits)
  BY DEF Reranked
<1>4. S \subseteq Child /\ IsFiniteSet(S)
  BY <1>2, <1>3, FS_Subset, RetrievalAssumption
<1>5. S = Found(hits) \/ Heads(hits) \subseteq S
  BY DEF Reranked
<1>6. \A k \in 1 .. Len(hits) : \A a \in 1 .. Len(hits[k]) : hits[k][a] \in Found(hits)
  BY <1>0, <1>1 DEF Found, ToSet
<1>7. \A k \in 1 .. Len(hits) : \A a \in 1 .. Len(hits[k]) :
        a <= Reserve(Len(hits)) => hits[k][a] \in Heads(hits)
  BY <1>0, ReserveTyped, HeadsFacts
<1> QED
  BY <1>4, <1>5, <1>6, <1>7

LEMMA TimesGrows ==
  ASSUME NEW a \in Nat, NEW b \in Nat, NEW c \in Nat, a <= b
  PROVE  a * c \in Nat /\ b * c \in Nat /\ a * c <= b * c
<1> DEFINE d == b - a
<1>1. d \in Nat /\ b = a + d
  OBVIOUS
<1> HIDE DEF d
<1>2. a * c \in Nat /\ d * c \in Nat /\ b * c \in Nat
  BY <1>1
<1>3. (a + d) * c = a * c + d * c
  BY <1>1
<1>4. a * c <= a * c + d * c
  <2> DEFINE x == a * c
             y == d * c
  <2>1. x \in Nat /\ y \in Nat
    BY <1>2
  <2> HIDE DEF x, y
  <2>2. x <= x + y
    BY <2>1
  <2> QED
    BY <2>2 DEF x, y
<1> QED
  BY <1>1, <1>2, <1>3, <1>4

(* The parents the fusion has selected, before they are ordered: all that are
   reserved, and no more than fit. *)
Picked(hits, order) ==
  LET quota == Reserved(hits)
      rest  == Without(ParentsIn(order), ToSet(quota)) IN
  First(quota \o First(rest, MultiTopK - Least(MultiTopK, Len(quota))), MultiTopK)

LEMMA PickedFacts ==
  ASSUME NEW hits \in Seq(Seq(Child)), Len(hits) <= Subs, NEW order \in Seq(Child)
  PROVE  /\ Picked(hits, order) \in Seq(Parent) /\ Len(Picked(hits, order)) <= MultiTopK
         /\ ToSet(Reserved(hits)) \subseteq ToSet(Picked(hits, order))
<1> DEFINE quota == Reserved(hits)
           rest  == Without(ParentsIn(order), ToSet(quota))
           room  == MultiTopK - Least(MultiTopK, Len(quota))
           all   == quota \o First(rest, room)
           sel   == First(all, MultiTopK)
<1>0. Quota \in Nat /\ MultiTopK \in Nat /\ Subs \in Nat /\ Subs * Quota <= MultiTopK
  BY RetrievalAssumption
<1>1. quota \in Seq(Parent) /\ Len(quota) <= Len(hits) * Quota
  BY ReservedFacts
<1> HIDE DEF quota
<1>2. Len(quota) \in Nat /\ Len(hits) \in Nat
  BY <1>1
<1>3. Len(hits) * Quota \in Nat /\ Subs * Quota \in Nat /\ Len(hits) * Quota <= Subs * Quota
  BY <1>0, <1>2, TimesGrows
<1>4. Len(quota) <= MultiTopK
  <2> DEFINE owed == Len(hits) * Quota
             most == Subs * Quota
  <2>1. owed \in Nat /\ most \in Nat /\ Len(quota) <= owed /\ owed <= most /\ most <= MultiTopK
    BY <1>0, <1>1, <1>3
  <2> HIDE DEF owed, most
  <2> QED
    BY <1>0, <1>2, <2>1
<1>5. room \in Nat
  BY <1>0, <1>2 DEF Least
<1>6. rest \in Seq(Parent)
  BY ParentsFacts, WithoutFacts
<1> HIDE DEF rest, room
<1>7. First(rest, room) \in Seq(Parent)
  BY <1>5, <1>6, FirstFacts
<1>8. /\ all \in Seq(Parent) /\ Len(all) = Len(quota) + Len(First(rest, room))
      /\ \A i \in 1 .. Len(quota) : all[i] = quota[i]
  BY <1>1, <1>7, ConcatSet
<1>9. Len(all) \in Nat /\ Len(quota) <= Len(all)
  <2>1. Len(First(rest, room)) \in Nat
    BY <1>7
  <2> QED
    BY <1>2, <1>8, <2>1
<1> HIDE DEF all
<1>10. /\ sel \in Seq(Parent) /\ Len(sel) <= MultiTopK
       /\ \A i \in 1 .. Len(sel) : sel[i] = all[i]
       /\ \A i \in 1 .. Len(all) : i <= MultiTopK => i <= Len(sel)
  BY <1>0, <1>8, FirstFacts
<1> HIDE DEF sel
<1>11. Len(sel) \in Nat /\ DOMAIN sel = 1 .. Len(sel) /\ DOMAIN quota = 1 .. Len(quota)
  BY <1>1, <1>10
<1>12. ASSUME NEW i \in 1 .. Len(quota) PROVE quota[i] \in ToSet(sel)
  <2>1. i \in 1 .. Len(all) /\ i <= MultiTopK
    BY <1>0, <1>2, <1>4, <1>9
  <2>2. i \in 1 .. Len(sel)
    BY <1>10, <1>11, <2>1
  <2>3. sel[i] = quota[i]
    BY <1>8, <1>10, <2>2
  <2> QED
    BY <1>11, <2>2, <2>3 DEF ToSet
<1>13. ToSet(quota) \subseteq ToSet(sel)
  BY <1>11, <1>12 DEF ToSet
<1>14. Picked(hits, order) = sel
  BY DEF Picked, sel, all, room, rest, quota
<1> QED
  BY <1>10, <1>13, <1>14 DEF quota

(* Every side of a comparison is heard. *)
LEMMA FusedHeard ==
  ASSUME NEW hits \in Seq(Seq(Child)), Len(hits) \in 2 .. Subs,
         NEW S \in Reranked(hits), NEW order \in OrdersOf(S, Cardinality(S))
  PROVE  Heard(hits, Fused(hits, order))
<1> DEFINE r == Reserve(Len(hits))
           P == ToSet(Picked(hits, order))
           chosen == Fused(hits, order)
<1>0. /\ Len(hits) \in Nat \ {0} /\ Len(hits) # 1 /\ Len(hits) <= Subs /\ r \in Nat
      /\ Quota \in Nat /\ MultiTopK \in Nat /\ DOMAIN hits = 1 .. Len(hits)
  <2>0. Subs \in Nat
    BY RetrievalAssumption
  <2>1. Len(hits) \in Nat \ {0} /\ Len(hits) # 1 /\ Len(hits) <= Subs
    <3> DEFINE m == Len(hits)
    <3>1. m \in 2 .. Subs
      OBVIOUS
    <3> HIDE DEF m
    <3>2. m \in Nat \ {0} /\ m # 1 /\ m <= Subs
      BY <2>0, <3>1
    <3> QED
      BY <3>2 DEF m
  <2> QED
    BY <2>1, ReserveTyped, RetrievalAssumption
<1>1. /\ S \subseteq Child /\ IsFiniteSet(S)
      /\ \A k \in 1 .. Len(hits) : \A a \in 1 .. Len(hits[k]) : a <= r => hits[k][a] \in S
  BY <1>0, RerankedFacts
<1>2. order \in Seq(S) /\ ToSet(order) = S
  BY <1>1, OrderOnto
<1>3. order \in Seq(Child) /\ DOMAIN order = 1 .. Len(order)
  BY <1>1, <1>2
<1>4. /\ Picked(hits, order) \in Seq(Parent) /\ Len(Picked(hits, order)) <= MultiTopK
      /\ ToSet(Reserved(hits)) \subseteq P
  BY <1>0, <1>3, PickedFacts
<1>5. P \in SUBSET Parent /\ IsFiniteSet(P) /\ Cardinality(P) \in Nat /\ Cardinality(P) <= MultiTopK
  <2>1. P \in SUBSET Parent
    BY <1>4 DEF ToSet
  <2>2. IsFiniteSet(P) /\ Cardinality(P) \in Nat /\ Cardinality(P) <= Len(Picked(hits, order))
    BY <1>4, RangeCard
  <2>3. Len(Picked(hits, order)) \in Nat
    BY <1>4
  <2> QED
    BY <1>0, <1>4, <2>1, <2>2, <2>3
<1>6. chosen = Dedup(MultiTopK, P, order)
  BY DEF Fused, Picked
<1> HIDE DEF P, chosen
<1>7. /\ chosen \in Seq(Parent) /\ Distinct(chosen)
      /\ ToSet(chosen) = ParentSet(order, Len(order)) \cap P
  BY <1>0, <1>3, <1>5, <1>6, DedupAll
<1>8. Len(chosen) <= MultiTopK
  <2>1. Cardinality(ToSet(chosen)) = Len(chosen) /\ Len(chosen) \in Nat
    BY <1>7, RangeCard
  <2>2. Cardinality(ToSet(chosen)) <= Cardinality(P)
    BY <1>5, <1>7, FS_Subset
  <2> QED
    BY <1>0, <1>5, <2>1, <2>2
<1> HIDE DEF r
<1>9. ASSUME NEW k \in 1 .. Len(hits)
      PROVE  Cardinality(ToSet(ParentsIn(hits[k])) \cap ToSet(chosen))
               >= Least(Quota, Len(ParentsIn(First(hits[k], r))))
  <2> DEFINE f    == First(hits[k], r)
             safe == ParentsIn(f)
             all  == ParentsIn(hits[k])
             both == ToSet(all) \cap ToSet(chosen)
             q    == Least(Quota, Len(safe))
  <2>0. hits[k] \in Seq(Child)
    OBVIOUS
  <2>1. f \in Seq(Child) /\ Len(f) <= r /\ Len(f) <= Len(hits[k])
        /\ \A i \in 1 .. Len(f) : f[i] = hits[k][i]
    BY <1>0, <2>0, FirstFacts
  <2>2. Len(safe) <= Len(all) /\ \A j \in 1 .. Len(safe) : safe[j] = all[j]
    BY <1>0, <2>0, ParentsPrefix
  <2>3. all \in Seq(Parent)
    BY <2>0, ParentsFacts
  <2> HIDE DEF f
  <2>4. safe \in Seq(Parent) /\ Distinct(safe) /\ ToSet(safe) = ParentSet(f, Len(f))
    BY <2>1, ParentsFacts
  <2>5. \A a \in 1 .. Len(all) : a <= Quota => all[a] \in ToSet(Reserved(hits))
    BY ReservedFacts
  <2> HIDE DEF safe, all
  <2>6. /\ Len(safe) \in Nat /\ Len(all) \in Nat /\ Len(f) \in Nat /\ Len(hits[k]) \in Nat
        /\ DOMAIN safe = 1 .. Len(safe) /\ DOMAIN all = 1 .. Len(all)
    BY <2>0, <2>1, <2>3, <2>4
  <2>7. q \in Nat /\ q <= Len(safe) /\ q <= Quota
    BY <1>0, <2>6 DEF Least
  <2> HIDE DEF q
  <2>8. ASSUME NEW j \in 1 .. q PROVE safe[j] \in both
    <3>1. j \in 1 .. Len(safe) /\ j \in 1 .. Len(all) /\ j <= Quota
      BY <1>0, <2>2, <2>6, <2>7
    <3>2. safe[j] \in ToSet(all)
      BY <2>2, <2>6, <3>1 DEF ToSet
    <3>3. safe[j] \in P
      BY <1>4, <2>2, <2>5, <3>1
    <3>4. safe[j] \in ParentSet(f, Len(f))
      BY <2>4, <2>6, <3>1 DEF ToSet
    <3>5. PICK a \in 1 .. Len(f) : safe[j] = ParentOf[f[a]]
      BY <3>4 DEF ParentSet
    <3>6. a \in 1 .. Len(hits[k]) /\ a <= r /\ f[a] = hits[k][a]
      BY <1>0, <2>1, <2>6, <3>5
    <3>7. f[a] \in ToSet(order)
      BY <1>1, <1>2, <3>6
    <3>8. PICK b \in 1 .. Len(order) : order[b] = f[a]
      BY <1>3, <3>7 DEF ToSet
    <3>9. safe[j] \in ParentSet(order, Len(order))
      BY <3>5, <3>8 DEF ParentSet
    <3> QED
      BY <1>7, <3>2, <3>3, <3>9
  <2>9. IsFiniteSet(both) /\ Cardinality(both) \in Nat
    <3>1. IsFiniteSet(ToSet(all))
      BY <2>3, RangeCard
    <3>2. both \in SUBSET ToSet(all)
      OBVIOUS
    <3> QED
      BY <3>1, <3>2, FS_Subset, FS_CardinalityType
  <2> HIDE DEF both
  <2>10. q <= Cardinality(both)
    BY <2>4, <2>7, <2>8, <2>9, PrefixCard
  <2> QED
    BY <2>7, <2>9, <2>10 DEF both, q, safe, all, f
<1> QED
  BY <1>0, <1>8, <1>9 DEF Heard, chosen, r

(* A plain question gets its videos. *)
LEMMA PlainHeard ==
  ASSUME NEW hits \in Seq(Seq(Child)), Len(hits) = 1
  PROVE  Heard(hits, Dedup(TopK, Parent, hits[1]))
<1> DEFINE cs == hits[1]
           d  == Dedup(TopK, Parent, cs)
           mine == VideosOf(ToSet(d))
           found == VideosOf(ToSet(ParentsIn(cs)))
<1>1. cs \in Seq(Child) /\ TopK \in Nat /\ VideoQuota \in Nat
  BY RetrievalAssumption
<1> HIDE DEF cs
<1>2. Cardinality(mine) >= VideoQuota \/ VideosOf(ParentSet(cs, Len(cs))) \subseteq ToSet(d)
  BY <1>1, DedupVideos
<1>3. ToSet(ParentsIn(cs)) = ParentSet(cs, Len(cs)) /\ ParentsIn(cs) \in Seq(Parent)
  BY <1>1, ParentsFacts
<1>4. d \in Seq(Parent)
  <2>1. /\ DOMAIN cs = 1 .. Len(cs) /\ Len(cs) \in Nat
        /\ \A i \in 1 .. Len(cs) : ParentOf[cs[i]] \in Parent
    BY <1>1, Constants
  <2> QED
    BY <2>1, DedupIn
<1> HIDE DEF d
<1>5. IsFiniteSet(mine) /\ Cardinality(mine) \in Nat
  <2>1. IsFiniteSet(ToSet(d)) /\ mine \in SUBSET ToSet(d)
    BY <1>4, RangeCard DEF VideosOf
  <2> QED
    BY <2>1, FS_Subset, FS_CardinalityType
<1>6. IsFiniteSet(found) /\ Cardinality(found) \in Nat
  <2>1. IsFiniteSet(ToSet(ParentsIn(cs))) /\ found \in SUBSET ToSet(ParentsIn(cs))
    BY <1>3, RangeCard DEF VideosOf
  <2> QED
    BY <2>1, FS_Subset, FS_CardinalityType
<1>7. CASE Cardinality(mine) >= VideoQuota
  <2>1. Cardinality(mine) >= Least(VideoQuota, Cardinality(found))
    BY <1>1, <1>5, <1>6, <1>7 DEF Least
  <2> QED
    BY <2>1 DEF Heard, VideosOf, d, cs
<1>8. CASE VideosOf(ParentSet(cs, Len(cs))) \subseteq ToSet(d)
  <2>1. found \in SUBSET mine
    BY <1>3, <1>8 DEF VideosOf
  <2>2. Cardinality(found) <= Cardinality(mine)
    BY <1>5, <2>1, FS_Subset
  <2>3. Cardinality(mine) >= Least(VideoQuota, Cardinality(found))
    BY <1>1, <1>5, <1>6, <2>2 DEF Least
  <2> QED
    BY <2>3 DEF Heard, VideosOf, d, cs
<1> QED
  BY <1>2, <1>7, <1>8

(* Whatever hits the sub-queries of a question bring, of any number and in any
   order, and however the last ranking orders them: each side of a comparison
   keeps the parents of its reserved head, up to the quota, and a plain question
   its videos. *)
THEOREM FusionIsFair ==
  ASSUME NEW hits \in Seq(Seq(Child)), Len(hits) \in 1 .. Subs, NEW s \in Selections(hits)
  PROVE  Heard(hits, s)
<1>1. CASE Len(hits) = 1
  <2>1. s = Dedup(TopK, Parent, hits[1])
    BY <1>1 DEF Selections
  <2> QED
    BY <1>1, <2>1, PlainHeard
<1>2. CASE Len(hits) # 1
  <2>1. PICK S \in Reranked(hits) :
          \E order \in OrdersOf(S, Cardinality(S)) : s = Fused(hits, order)
    BY <1>2 DEF Selections
  <2>2. PICK order \in OrdersOf(S, Cardinality(S)) : s = Fused(hits, order)
    BY <2>1
  <2>3. Len(hits) \in 2 .. Subs
    <3> DEFINE m == Len(hits)
    <3>1. m \in 1 .. Subs /\ m # 1 /\ Subs \in Nat
      BY <1>2, RetrievalAssumption
    <3> HIDE DEF m
    <3>2. m \in 2 .. Subs
      BY <3>1
    <3> QED
      BY <3>2 DEF m
  <2> QED
    BY <2>2, <2>3, FusedHeard
<1> QED
  BY <1>1, <1>2

LEMMA AllCountsFair ==
  FairCounts = 1 .. Subs
<1>1. ASSUME NEW m \in 1 .. Subs,
             NEW hits \in [1 .. m -> UNION {OrdersOf(Child, n) : n \in 0 .. Depth}],
             NEW s \in Selections(hits)
      PROVE  Heard(hits, s)
  <2>1. Depth \in Nat /\ Subs \in Nat /\ m \in Nat
    BY RetrievalAssumption
  <2>2. UNION {OrdersOf(Child, n) : n \in 0 .. Depth} \subseteq Seq(Child)
    BY <2>1, OrdersTyped
  <2>3. hits \in Seq(Seq(Child)) /\ Len(hits) = m
    <3> DEFINE X == UNION {OrdersOf(Child, n) : n \in 0 .. Depth}
    <3>1. hits \in [1 .. m -> X] /\ X \subseteq Seq(Child)
      BY <2>2
    <3> HIDE DEF X
    <3>2. hits \in [1 .. m -> Seq(Child)]
      BY <3>1
    <3> QED
      BY <2>1, <3>2
  <2>4. Len(hits) \in 1 .. Subs
    BY <2>3
  <2> QED
    BY <2>3, <2>4, FusionIsFair
<1> QED
  BY <1>1 DEF FairCounts

(* A search under way has as many sub-queries as its question was decomposed into. *)
Asking == search.pc # "idle" => search.subs \in 1 .. Subs

LEMMA AskingStep ==
  ASSUME IInv, Asking, [Next]_vars
  PROVE  Asking'
<1>0. search \in [pc : {"idle", "looked", "chosen", "fetched"}, subs : Nat, snap : SUBSET Version,
              held : SUBSET Version, hits : Seq(Seq(Child)), chosen : Seq(Parent),
              found : SUBSET Parent]
  BY DEF IInv, SearchTyped
<1>1. CASE Library
  BY <1>0, <1>1 DEF Library, Asking
<1>2. CASE Crash \/ Leave
  BY <1>2 DEF Crash, Leave, NoSearch, Asking
<1>3. CASE \E m \in 1 .. Subs : Look(m)
  BY <1>3 DEF Look, NoSearch, Asking
<1>4. CASE Recall
  BY <1>0, <1>4 DEF Recall, Asking
<1>5. CASE Select
  BY <1>0, <1>5 DEF Select, Asking
<1>6. CASE Fetch
  BY <1>0, <1>6 DEF Fetch, Asking
<1>7. CASE UNCHANGED vars
  BY <1>7 DEF vars, Asking
<1> QED
  BY <1>1, <1>2, <1>3, <1>4, <1>5, <1>6, <1>7 DEF Next

(* No cap, quota or ranking of the fusion takes a side of the comparison under
   way, or the video of a plain question, its place: for every library, every
   Depth and every setting of the limits whose quotas fit into the selection. *)
THEOREM SidesAreHeard == Spec => []SidesHeard
<1>1. Init => Asking
  BY DEF Init, NoSearch, Asking
<1>2. IInv /\ Asking /\ [Next]_vars => Asking'
  BY AskingStep
<1>3. Asking => SidesHeard
  BY AllCountsFair DEF Asking, SidesHeard
<1> QED
  BY <1>1, <1>2, <1>3, Invariant, PTL DEF Spec
-----------------------------------------------------------------------------
(* Conversation: what the requests are at. *)

AnswerRow  == [by : Request, of : Nat, src : Request \cup {None}]
Turn       == [asked : Seq(Request), answers : Seq(AnswerRow)]
Kinds      == {"none", "ask", "edit", "regenerate"}
Places     == {"idle", "waiting", "asking", "ready", "inside", "between", "over", "adrift", "done"}
PlanRow    == [kind : Kinds, turn : Nat]
SessionRow == [history : Seq(Request \X Request), question : Request \cup {None},
               src : Request \cup {None}, index : Nat]

StoreTyped ==
  /\ row \in BOOLEAN /\ turns \in Seq(Turn)
  /\ turnIndex \in Nat /\ sources \in Request \cup {None}

ChatTyped ==
  /\ holder \in Request \cup {None} /\ pc \in [Request -> Places]
  /\ plan \in [Request -> PlanRow] /\ session \in [Request -> SessionRow]
  /\ late \subseteq Request

ChatTypeOK == StoreTyped /\ ChatTyped

(* A question is asked at least once and answered; an answer is filed under a
   version of the question there is, and its request is past the lock. *)
TurnFilled(t) ==
  /\ t.asked # <<>> /\ t.answers # <<>>
  /\ \A k \in DOMAIN t.answers : t.answers[k].of \in DOMAIN t.asked
AnsweredBy(ts, R) ==
  \A i \in DOMAIN ts : \A k \in DOMAIN ts[i].answers : ts[i].answers[k].by \in R
Begun == {r \in Request : pc[r] \notin {"idle", "waiting"}}

Filled == (\A i \in DOMAIN turns : TurnFilled(turns[i])) /\ AnsweredBy(turns, Begun)

(* A request is for a turn there is, as long as there is a conversation. *)
Planned ==
  \A r \in Request :
    /\ pc[r] # "idle" => plan[r].kind # "none"
    /\ plan[r].kind \in {"edit", "regenerate"} /\ row => plan[r].turn \in 1 .. Len(turns)

Gone == ~ row => turns = <<>> /\ turnIndex = 0 /\ sources = None

(* The lock is with the one request that is between its check and its release. *)
Locking == {"asking", "ready", "inside", "between", "over"}
Locked == \A r \in Request : (holder = r) <=> (pc[r] \in Locking)

(* What a request was hydrated with is what it would be hydrated with now. *)
Held ==
  late = {} /\ row =>
    \A r \in Request : pc[r] \in Locking \ {"over"} => Current(r) /\ session[r] = Hydrated(r)

ChatIInv == ChatTypeOK /\ Filled /\ Planned /\ Gone /\ Locked /\ Held /\ ContextStands

-----------------------------------------------------------------------------
(* Sequences of turns. *)

LEMMA LastIn ==
  ASSUME NEW S, NEW s \in Seq(S), s # <<>>
  PROVE  Last(s) = s[Len(s)] /\ Len(s) \in 1 .. Len(s) /\ Last(s) \in S
  BY DEF Last

(* The turns before one are the same where the turns are. *)
LEMMA PrefixKept ==
  ASSUME NEW s \in Seq(Turn), NEW t \in Seq(Turn), NEW n \in Nat \ {0},
         n - 1 <= Len(s), n - 1 <= Len(t), \A j \in 1 .. n - 1 : s[j] = t[j]
  PROVE  SubSeq(s, 1, n - 1) = SubSeq(t, 1, n - 1)
<1> DEFINE a == SubSeq(s, 1, n - 1)
           b == SubSeq(t, 1, n - 1)
<1>1. \A j \in 1 .. n - 1 : s[j] \in Turn /\ t[j] \in Turn
  OBVIOUS
<1>2. /\ a \in Seq(Turn) /\ Len(a) = IF 1 <= n - 1 THEN n - 1 - 1 + 1 ELSE 0
      /\ \A j \in 1 .. n - 1 - 1 + 1 : a[j] = s[1 + j - 1]
  BY <1>1, SubSeqProperties
<1>3. /\ b \in Seq(Turn) /\ Len(b) = IF 1 <= n - 1 THEN n - 1 - 1 + 1 ELSE 0
      /\ \A j \in 1 .. n - 1 - 1 + 1 : b[j] = t[1 + j - 1]
  BY <1>1, SubSeqProperties
<1> HIDE DEF a, b
<1>4. Len(a) = n - 1 /\ Len(b) = n - 1
  BY <1>2, <1>3
<1>5. \A j \in 1 .. Len(a) : a[j] = b[j]
  <2>1. SUFFICES ASSUME NEW j \in 1 .. n - 1 PROVE a[j] = b[j]
    BY <1>4, <2>1
  <2>2. 1 + j - 1 = j /\ j \in 1 .. n - 1 - 1 + 1
    OBVIOUS
  <2> QED
    BY <1>2, <1>3, <2>2
<1> QED
  BY <1>2, <1>3, <1>4, <1>5, SeqEqual DEF a, b

(* The turns before one are turns of the conversation. *)
LEMMA BeforeTurns ==
  ASSUME turns \in Seq(Turn), NEW n \in 1 .. Len(turns)
  PROVE  /\ Before(n) \in Seq(Turn) /\ Len(Before(n)) = n - 1
         /\ \A j \in 1 .. n - 1 : Before(n)[j] = turns[j]
<1> DEFINE a == Before(n)
<1>1. \A j \in 1 .. n - 1 : turns[j] \in Turn
  OBVIOUS
<1>2. /\ a \in Seq(Turn) /\ Len(a) = IF 1 <= n - 1 THEN n - 1 - 1 + 1 ELSE 0
      /\ \A j \in 1 .. n - 1 - 1 + 1 : a[j] = turns[1 + j - 1]
  BY <1>1, SubSeqProperties DEF Before
<1> HIDE DEF a
<1>3. ASSUME NEW j \in 1 .. n - 1 PROVE a[j] = turns[j]
  <2>1. 1 + j - 1 = j /\ j \in 1 .. n - 1 - 1 + 1
    OBVIOUS
  <2> QED
    BY <1>2, <2>1
<1> QED
  BY <1>2, <1>3 DEF a

LEMMA ActiveTyped ==
  ASSUME NEW ts \in Seq(Turn), \A i \in 1 .. Len(ts) : TurnFilled(ts[i])
  PROVE  Active(ts) \in Seq(Request \X Request)
<1>1. ASSUME NEW i \in 1 .. Len(ts)
      PROVE  <<Last(ts[i].asked), Last(ts[i].answers).by>> \in Request \X Request
  <2>1. ts[i] \in Turn /\ ts[i].asked # <<>> /\ ts[i].answers # <<>>
    BY DEF TurnFilled
  <2>2. Last(ts[i].asked) \in Request /\ Last(ts[i].answers) \in AnswerRow
    BY <2>1, LastIn DEF Turn
  <2> QED
    BY <2>2 DEF AnswerRow
<1>2. DOMAIN ts = 1 .. Len(ts) /\ Len(ts) \in Nat
  OBVIOUS
<1>3. Active(ts) \in [1 .. Len(ts) -> Request \X Request]
  BY <1>1, <1>2 DEF Active
<1> QED
  BY <1>2, <1>3, SeqDef

LEMMA SourceTyped ==
  ASSUME NEW ts \in Seq(Turn), \A i \in 1 .. Len(ts) : TurnFilled(ts[i])
  PROVE  LastSource(ts) \in Request \cup {None}
<1>1. CASE ts # <<>>
  <2>1. Last(ts) \in Turn /\ Last(ts).answers # <<>>
    <3>1. Last(ts) = ts[Len(ts)] /\ Len(ts) \in 1 .. Len(ts) /\ Last(ts) \in Turn
      BY <1>1, LastIn
    <3> QED
      BY <3>1 DEF TurnFilled
  <2>2. Last(Last(ts).answers) \in AnswerRow
    BY <2>1, LastIn DEF Turn
  <2> QED
    BY <1>1, <2>2 DEF LastSource, AnswerRow
<1>2. CASE ts = <<>>
  BY <1>2 DEF LastSource
<1> QED
  BY <1>1, <1>2

LEMMA HydratedTyped ==
  ASSUME ChatTypeOK, Filled, Planned, NEW r \in Request, row, pc[r] # "idle"
  PROVE  Hydrated(r) \in SessionRow
<1>1. turns \in Seq(Turn) /\ \A i \in 1 .. Len(turns) : TurnFilled(turns[i])
  BY DEF ChatTypeOK, StoreTyped, Filled
<1>2. CASE plan[r].kind = "ask"
  BY <1>1, <1>2, ActiveTyped DEF Hydrated, SessionRow, ChatTypeOK, StoreTyped
<1>3. CASE plan[r].kind \in {"edit", "regenerate"}
  <2> DEFINE n == plan[r].turn
  <2>1. n \in 1 .. Len(turns)
    BY <1>3 DEF Planned
  <2>2. Before(n) \in Seq(Turn) /\ \A i \in 1 .. Len(Before(n)) : TurnFilled(Before(n)[i])
    BY <1>1, <2>1, BeforeTurns
  <2>3. /\ Active(Before(n)) \in Seq(Request \X Request)
        /\ LastSource(Before(n)) \in Request \cup {None}
    BY <2>2, ActiveTyped, SourceTyped
  <2>4. Last(turns[n].asked) \in Request
    <3>1. turns[n] \in Turn /\ turns[n].asked # <<>>
      BY <1>1, <2>1 DEF TurnFilled
    <3> QED
      BY <3>1, LastIn DEF Turn
  <2>5. n - 1 \in Nat
    BY <1>1, <2>1
  <2>6. CASE plan[r].kind = "edit"
    BY <2>3, <2>5, <2>6 DEF Hydrated, SessionRow
  <2>7. CASE plan[r].kind = "regenerate"
    BY <2>3, <2>4, <2>5, <2>7 DEF Hydrated, SessionRow
  <2> QED
    BY <1>3, <2>6, <2>7
<1>4. plan[r].kind \in {"ask", "edit", "regenerate"}
  BY DEF Planned, ChatTypeOK, ChatTyped, PlanRow, Kinds
<1> QED
  BY <1>2, <1>3, <1>4

-----------------------------------------------------------------------------
(* What is persisted. *)

(* The turn n is new, or has one answer more, by r; all others are left. *)
AnswerAdded(r, n) ==
  LET t == turns'[n]
      m == Len(t.answers)
      a == t.answers[m] IN
  /\ TurnFilled(t) /\ a.by = r /\ a.src = sources'
  /\ t.asked[a.of] = IF plan[r].kind = "regenerate" THEN Last(turns[n].asked) ELSE r
  /\ \A k \in 1 .. m - 1 :
       /\ n \in 1 .. Len(turns) /\ k \in 1 .. Len(turns[n].answers)
       /\ t.answers[k] = turns[n].answers[k]
       /\ t.asked[t.answers[k].of] = turns[n].asked[t.answers[k].of]
TurnExtended(r, n) ==
  /\ turns' \in Seq(Turn) /\ n \in 1 .. Len(turns')
  /\ sources' \in Request \cup {None}
  /\ \A i \in 1 .. Len(turns') : i # n => i \in 1 .. Len(turns) /\ turns'[i] = turns[i]
  /\ IF plan[r].kind = "ask"
     THEN n = Len(turns) + 1 /\ Len(turns') = n /\ turnIndex' = session[r].index + 1
     ELSE n = plan[r].turn /\ Len(turns') = Len(turns) /\ turnIndex' = turnIndex
  /\ AnswerAdded(r, n)

LEMMA AppendFacts ==
  ASSUME NEW S, NEW q \in Seq(S), NEW e \in S
  PROVE  /\ Append(q, e) \in Seq(S) /\ Len(Append(q, e)) = Len(q) + 1 /\ Append(q, e) # <<>>
         /\ Append(q, e)[Len(q) + 1] = e /\ \A i \in 1 .. Len(q) : Append(q, e)[i] = q[i]
  BY AppendProperties

LEMMA AskedExtends ==
  ASSUME ChatTypeOK, NEW r \in Request, NEW src \in Request \cup {None}, Asked(r, src), sources' = src
  PROVE  TurnExtended(r, Len(turns) + 1)
<1> DEFINE a == Answer(r, 1, src)
           t == [asked |-> <<r>>, answers |-> <<a>>]
<1>1. a \in AnswerRow /\ a.by = r /\ a.of = 1 /\ a.src = src
  BY DEF Answer, AnswerRow
<1>2. <<r>> \in Seq(Request) /\ <<a>> \in Seq(AnswerRow)
  BY <1>1
<1>3. t \in Turn
  BY <1>2 DEF Turn
<1>4. turns \in Seq(Turn) /\ turns' = Append(turns, t) /\ turnIndex' = session[r].index + 1
  BY DEF Asked, ChatTypeOK, StoreTyped
<1>5. /\ turns' \in Seq(Turn) /\ Len(turns') = Len(turns) + 1 /\ turns'[Len(turns) + 1] = t
      /\ \A i \in 1 .. Len(turns) : turns'[i] = turns[i]
  BY <1>3, <1>4, AppendFacts
<1>6. plan[r].kind = "ask"
  BY DEF Asked
<1>7. TurnFilled(t)
  BY <1>1 DEF TurnFilled
<1>8. AnswerAdded(r, Len(turns) + 1)
  BY <1>1, <1>5, <1>6, <1>7 DEF AnswerAdded
<1> HIDE DEF a, t
<1>9. \A i \in 1 .. Len(turns') : i # Len(turns) + 1 => i \in 1 .. Len(turns)
  BY <1>4, <1>5
<1>10. Len(turns) + 1 \in 1 .. Len(turns')
  BY <1>4, <1>5
<1> QED
  BY <1>4, <1>5, <1>6, <1>8, <1>9, <1>10 DEF TurnExtended

LEMMA EditedExtends ==
  ASSUME ChatTypeOK, Filled, Planned, NEW r \in Request, row,
         NEW src \in Request \cup {None}, Edited(r, src), sources' = src
  PROVE  TurnExtended(r, plan[r].turn)
<1> DEFINE n == plan[r].turn
           old == turns[n]
           a == Answer(r, Len(old.asked) + 1, src)
           t == [asked |-> Append(old.asked, r), answers |-> Append(old.answers, a)]
<1>1. /\ turns \in Seq(Turn) /\ plan[r].kind = "edit" /\ n \in 1 .. Len(turns) /\ TurnFilled(old)
      /\ turnIndex' = turnIndex
  BY DEF Edited, ChatTypeOK, StoreTyped, Planned, Filled
<1>2. old \in Turn /\ old.asked \in Seq(Request) /\ old.answers \in Seq(AnswerRow)
  <2>1. old \in Turn
    BY <1>1
  <2> QED
    BY <2>1 DEF Turn
<1>3. turns' = [turns EXCEPT ![n] = t]
  BY DEF Edited
<1> HIDE DEF n, old
<1>4. a \in AnswerRow /\ a.by = r /\ a.of = Len(old.asked) + 1 /\ a.src = src
  BY <1>2 DEF Answer, AnswerRow
<1> HIDE DEF a
<1>5. /\ t.asked \in Seq(Request) /\ Len(t.asked) = Len(old.asked) + 1 /\ t.asked # <<>>
      /\ t.asked[Len(old.asked) + 1] = r /\ \A i \in 1 .. Len(old.asked) : t.asked[i] = old.asked[i]
  BY <1>2, AppendFacts
<1>6. /\ t.answers \in Seq(AnswerRow) /\ Len(t.answers) = Len(old.answers) + 1 /\ t.answers # <<>>
      /\ t.answers[Len(old.answers) + 1] = a
      /\ \A i \in 1 .. Len(old.answers) : t.answers[i] = old.answers[i]
  BY <1>2, <1>4, AppendFacts
<1>7. t \in Turn
  BY <1>5, <1>6 DEF Turn
<1> HIDE DEF t
<1>8. /\ turns' \in Seq(Turn) /\ Len(turns') = Len(turns) /\ turns'[n] = t
      /\ \A i \in 1 .. Len(turns) : i # n => turns'[i] = turns[i]
  BY <1>1, <1>3, <1>7, ExceptSeq
<1>9. \A k \in 1 .. Len(old.answers) : old.answers[k].of \in 1 .. Len(old.asked)
  BY <1>1, <1>2 DEF TurnFilled
<1>10. TurnFilled(t)
  <2>1. ASSUME NEW k \in 1 .. Len(t.answers) PROVE t.answers[k].of \in 1 .. Len(t.asked)
    <3>1. CASE k \in 1 .. Len(old.answers)
      BY <1>2, <1>5, <1>6, <1>9, <3>1
    <3>2. CASE k = Len(old.answers) + 1
      BY <1>2, <1>4, <1>5, <1>6, <3>2
    <3> QED
      BY <1>2, <1>6, <3>1, <3>2
  <2> QED
    BY <1>5, <1>6, <2>1 DEF TurnFilled
<1>11. \A k \in 1 .. Len(t.answers) - 1 :
         /\ k \in 1 .. Len(old.answers) /\ t.answers[k] = old.answers[k]
         /\ t.asked[t.answers[k].of] = old.asked[t.answers[k].of]
  BY SMTT(60), <1>2, <1>5, <1>6, <1>9
<1>12. t.asked[t.answers[Len(t.answers)].of] = r
  BY <1>4, <1>5, <1>6
<1>13. AnswerAdded(r, n)
  BY <1>1, <1>4, <1>6, <1>8, <1>10, <1>11, <1>12 DEF AnswerAdded, old
<1> QED
  BY <1>1, <1>8, <1>13 DEF TurnExtended, n

LEMMA RegeneratedExtends ==
  ASSUME ChatTypeOK, Filled, Planned, NEW r \in Request, row,
         NEW src \in Request \cup {None}, Regenerated(r, src), sources' = src
  PROVE  TurnExtended(r, plan[r].turn)
<1> DEFINE n == plan[r].turn
           old == turns[n]
           a == Answer(r, Len(old.asked), src)
           t == [old EXCEPT !.answers = Append(old.answers, a)]
<1>1. /\ turns \in Seq(Turn) /\ plan[r].kind = "regenerate" /\ n \in 1 .. Len(turns)
      /\ TurnFilled(old) /\ turnIndex' = turnIndex
  BY DEF Regenerated, ChatTypeOK, StoreTyped, Planned, Filled
<1>2. old \in Turn /\ old.asked \in Seq(Request) /\ old.answers \in Seq(AnswerRow)
  <2>1. old \in Turn
    BY <1>1
  <2> QED
    BY <2>1 DEF Turn
<1>3. turns' = [turns EXCEPT ![n] = t]
  BY DEF Regenerated
<1> HIDE DEF n, old
<1>4. a \in AnswerRow /\ a.by = r /\ a.of = Len(old.asked) /\ a.src = src
  BY <1>2 DEF Answer, AnswerRow
<1> HIDE DEF a
<1>5. t.asked = old.asked /\ t.answers = Append(old.answers, a) /\ t \in Turn
  <2>1. Append(old.answers, a) \in Seq(AnswerRow)
    BY <1>2, <1>4, AppendFacts
  <2> QED
    BY <1>2, <2>1 DEF Turn
<1>6. /\ Len(t.answers) = Len(old.answers) + 1 /\ t.answers # <<>>
      /\ t.answers[Len(old.answers) + 1] = a
      /\ \A i \in 1 .. Len(old.answers) : t.answers[i] = old.answers[i]
  BY <1>2, <1>4, <1>5, AppendFacts
<1> HIDE DEF t
<1>7. /\ turns' \in Seq(Turn) /\ Len(turns') = Len(turns) /\ turns'[n] = t
      /\ \A i \in 1 .. Len(turns) : i # n => turns'[i] = turns[i]
  BY <1>1, <1>3, <1>5, ExceptSeq
<1>8. \A k \in 1 .. Len(old.answers) : old.answers[k].of \in 1 .. Len(old.asked)
  BY <1>1, <1>2 DEF TurnFilled
<1>9. /\ old.asked # <<>> /\ Last(old.asked) = old.asked[Len(old.asked)]
      /\ Len(old.asked) \in 1 .. Len(old.asked)
  BY <1>1, <1>2, LastIn DEF TurnFilled
<1>10. TurnFilled(t)
  <2>1. ASSUME NEW k \in 1 .. Len(t.answers) PROVE t.answers[k].of \in 1 .. Len(t.asked)
    <3>1. CASE k \in 1 .. Len(old.answers)
      BY <1>5, <1>6, <1>8, <3>1
    <3>2. CASE k = Len(old.answers) + 1
      BY <1>4, <1>5, <1>6, <1>9, <3>2
    <3> QED
      BY <1>2, <1>6, <3>1, <3>2
  <2>2. DOMAIN t.answers = 1 .. Len(t.answers) /\ DOMAIN t.asked = 1 .. Len(t.asked)
    BY <1>5 DEF Turn
  <2> QED
    BY <1>5, <1>6, <1>9, <2>1, <2>2 DEF TurnFilled
<1>11. \A k \in 1 .. Len(t.answers) - 1 :
         k \in 1 .. Len(old.answers) /\ t.answers[k] = old.answers[k]
  BY <1>2, <1>6
<1>12. t.asked[t.answers[Len(t.answers)].of] = Last(old.asked)
  BY <1>4, <1>5, <1>6, <1>9
<1>13. AnswerAdded(r, n)
  BY <1>1, <1>4, <1>5, <1>6, <1>7, <1>10, <1>11, <1>12 DEF AnswerAdded, old
<1> QED
  BY <1>1, <1>7, <1>13 DEF TurnExtended, n

LEMMA PersistMoves ==
  ASSUME ChatTypeOK, Filled, Planned, NEW r \in Request, Persist(r)
  PROVE  UNCHANGED store \/ (row /\ row' /\ \E n \in 1 .. Len(turns') : TurnExtended(r, n))
<1>1. CASE UNCHANGED store
  BY <1>1
<1>2. CASE row /\ row' = row /\ \E src \in {r, session[r].src} :
             (Asked(r, src) \/ Edited(r, src) \/ Regenerated(r, src)) /\ sources' = src
  <2>1. PICK src \in {r, session[r].src} :
               (Asked(r, src) \/ Edited(r, src) \/ Regenerated(r, src)) /\ sources' = src
    BY <1>2
  <2>2. src \in Request \cup {None}
    BY DEF ChatTypeOK, ChatTyped, SessionRow
  <2>3. TurnExtended(r, Len(turns) + 1) \/ TurnExtended(r, plan[r].turn)
    BY <1>2, <2>1, <2>2, AskedExtends, EditedExtends, RegeneratedExtends
  <2>4. \A n : TurnExtended(r, n) => n \in 1 .. Len(turns')
    BY DEF TurnExtended
  <2> QED
    BY <1>2, <2>3, <2>4
<1> QED
  BY <1>1, <1>2 DEF Persist

-----------------------------------------------------------------------------
(* Types, and what the tables hold in every state. *)

(* An answer is by the request that adds it, or was there before. *)
LEMMA AuthorsKept ==
  ASSUME ChatTypeOK, Filled, NEW r \in Request, NEW n \in 1 .. Len(turns'), TurnExtended(r, n),
         NEW R, Begun \subseteq R, r \in R
  PROVE  (\A i \in DOMAIN turns' : TurnFilled(turns'[i])) /\ AnsweredBy(turns', R)
<1>1. turns \in Seq(Turn) /\ turns' \in Seq(Turn) /\ DOMAIN turns' = 1 .. Len(turns')
  BY DEF ChatTypeOK, StoreTyped, TurnExtended
<1>2. ASSUME NEW i \in 1 .. Len(turns')
      PROVE  /\ TurnFilled(turns'[i])
             /\ \A k \in DOMAIN turns'[i].answers : turns'[i].answers[k].by \in R
  <2>1. CASE i # n
    <3>1. i \in DOMAIN turns /\ turns'[i] = turns[i]
      <4>1. i \in 1 .. Len(turns) /\ turns'[i] = turns[i]
        BY <2>1 DEF TurnExtended
      <4> QED
        BY <1>1, <4>1
    <3>2. /\ TurnFilled(turns[i])
          /\ \A k \in DOMAIN turns[i].answers : turns[i].answers[k].by \in Begun
      BY <3>1 DEF Filled, AnsweredBy
    <3> QED
      BY <3>1, <3>2
  <2>2. CASE i = n
    <3>1. /\ TurnFilled(turns'[n]) /\ turns'[n].answers[Len(turns'[n].answers)].by = r
          /\ \A k \in 1 .. Len(turns'[n].answers) - 1 :
               /\ n \in 1 .. Len(turns) /\ k \in 1 .. Len(turns[n].answers)
               /\ turns'[n].answers[k] = turns[n].answers[k]
      BY DEF TurnExtended, AnswerAdded
    <3>2. turns'[n].answers \in Seq(AnswerRow)
      <4>1. turns'[n] \in Turn
        BY <1>1
      <4> QED
        BY <4>1 DEF Turn
    <3>3. ASSUME NEW k \in 1 .. Len(turns'[n].answers) PROVE turns'[n].answers[k].by \in R
      <4>1. CASE k = Len(turns'[n].answers)
        BY <3>1, <4>1
      <4>2. CASE k # Len(turns'[n].answers)
        <5>1. k \in 1 .. Len(turns'[n].answers) - 1
          BY <3>2, <4>2
        <5>2. turns[n] \in Turn /\ n \in 1 .. Len(turns) /\ k \in 1 .. Len(turns[n].answers)
          BY <1>1, <3>1, <5>1
        <5>3. k \in DOMAIN turns[n].answers
          BY <5>2 DEF Turn
        <5> QED
          BY SMTT(60), <1>1, <3>1, <5>1, <5>2, <5>3 DEF Filled, AnsweredBy
      <4> QED
        BY <4>1, <4>2
    <3> QED
      BY <2>2, <3>1, <3>2, <3>3
  <2> QED
    BY <2>1, <2>2
<1> QED
  BY <1>1, <1>2 DEF AnsweredBy

(* A turn that is there stays there with its conversation. *)
Grows == row' => row /\ Len(turns') >= Len(turns)

StoreKept == StoreTyped' /\ Filled' /\ Gone' /\ Grows

LEMMA PersistKeeps ==
  ASSUME ChatTypeOK, Filled, Planned, Gone, NEW r \in Request, Persist(r),
         Begun \subseteq Begun', r \in Begun'
  PROVE  StoreKept
<1>1. turns \in Seq(Turn) /\ Len(turns) \in Nat
  BY DEF ChatTypeOK, StoreTyped
<1>2. CASE UNCHANGED store
  BY <1>1, <1>2 DEF store, StoreKept, StoreTyped, Filled, AnsweredBy, Gone, Grows, ChatTypeOK
<1>3. CASE row /\ row' /\ \E n \in 1 .. Len(turns') : TurnExtended(r, n)
  <2>1. PICK n \in 1 .. Len(turns') : TurnExtended(r, n)
    BY <1>3
  <2>2. Filled'
    BY <2>1, AuthorsKept DEF Filled
  <2>3. StoreTyped' /\ Grows
    <3>1. session[r].index \in Nat /\ turnIndex \in Nat
      BY DEF ChatTypeOK, StoreTyped, ChatTyped, SessionRow
    <3>2. turnIndex' \in Nat /\ Len(turns') >= Len(turns)
      BY <1>1, <2>1, <3>1 DEF TurnExtended
    <3> QED
      BY <1>3, <2>1, <3>2 DEF TurnExtended, StoreTyped, Grows
  <2> QED
    BY <1>3, <2>2, <2>3 DEF StoreKept, Gone
<1> QED
  BY <1>2, <1>3, PersistMoves

LEMMA StoreStays ==
  ASSUME ChatTypeOK, Filled, Gone, UNCHANGED store, Begun \subseteq Begun'
  PROVE  StoreKept
  BY DEF store, StoreKept, StoreTyped, Filled, AnsweredBy, Gone, Grows, ChatTypeOK

LEMMA StoreStep ==
  ASSUME ChatTypeOK, Filled, Planned, Gone, ChatNext
  PROVE  StoreKept
<1>1. ASSUME NEW r \in Request, Accept(r) PROVE StoreKept
  <2>1. UNCHANGED store
    BY <1>1 DEF Accept, store
  <2>2. Begun \subseteq Begun'
    BY <1>1 DEF Accept, Begun, Goto, ChatTypeOK, ChatTyped
  <2> QED
    BY <2>1, <2>2, StoreStays
<1>2. ASSUME NEW r \in Request, Enter(r) PROVE StoreKept
  <2>1. UNCHANGED store
    BY <1>2 DEF Enter, store
  <2>2. Begun \subseteq Begun'
    BY <1>2 DEF Enter, Begun, Goto, ChatTypeOK, ChatTyped
  <2> QED
    BY <2>1, <2>2, StoreStays
<1>3. ASSUME NEW r \in Request, Prepare(r) PROVE StoreKept
  <2>1. UNCHANGED store
    BY <1>3 DEF Prepare, store
  <2>2. Begun \subseteq Begun'
    BY <1>3 DEF Prepare, Begun, Goto, ChatTypeOK, ChatTyped
  <2> QED
    BY <2>1, <2>2, StoreStays
<1>4. ASSUME NEW r \in Request, Pull(r) PROVE StoreKept
  <2>1. UNCHANGED store
    BY <1>4 DEF Pull, store
  <2>2. Begun \subseteq Begun'
    BY <1>4 DEF Pull, Begun, Goto, ChatTypeOK, ChatTyped
  <2> QED
    BY <2>1, <2>2, StoreStays
<1>5. ASSUME NEW r \in Request, Chunk(r) PROVE StoreKept
  <2>1. UNCHANGED store
    BY <1>5 DEF Chunk, store
  <2>2. Begun \subseteq Begun'
    BY <1>5 DEF Chunk, Begun, Goto, ChatTypeOK, ChatTyped
  <2> QED
    BY <2>1, <2>2, StoreStays
<1>6. ASSUME NEW r \in Request, Finish(r) PROVE StoreKept
  <2>1. Persist(r)
    BY <1>6 DEF Finish
  <2>2. Begun \subseteq Begun' /\ r \in Begun'
    BY <1>6 DEF Finish, Begun, Goto, ChatTypeOK, ChatTyped
  <2> QED
    BY <2>1, <2>2, PersistKeeps
<1>7. ASSUME NEW r \in Request, Release(r) PROVE StoreKept
  <2>1. UNCHANGED store
    BY <1>7 DEF Release, store
  <2>2. Begun \subseteq Begun'
    BY <1>7 DEF Release, Begun, Goto, ChatTypeOK, ChatTyped
  <2> QED
    BY <2>1, <2>2, StoreStays
<1>8. ASSUME NEW r \in Request, Collect(r) PROVE StoreKept
  <2>1. Persist(r)
    BY <1>8 DEF Collect
  <2>2. Begun \subseteq Begun' /\ r \in Begun'
    BY <1>8 DEF Collect, Begun, Goto, ChatTypeOK, ChatTyped
  <2> QED
    BY <2>1, <2>2, PersistKeeps
<1>9. ASSUME NEW r \in Request, Disconnect(r) PROVE StoreKept
  <2>1. Persist(r) \/ UNCHANGED store
    BY <1>9 DEF Disconnect
  <2>2. Begun \subseteq Begun' /\ r \in Begun'
    BY <1>9 DEF Disconnect, Begun, Goto, ChatTypeOK, ChatTyped
  <2> QED
    BY <2>1, <2>2, PersistKeeps, StoreStays
<1>10. ASSUME NEW r \in Request, Cut(r) PROVE StoreKept
  <2>1. UNCHANGED store
    BY <1>10 DEF Cut, store
  <2>2. Begun \subseteq Begun'
    BY <1>10 DEF Cut, Begun, Goto, ChatTypeOK, ChatTyped
  <2> QED
    BY <2>1, <2>2, StoreStays
<1>11. ASSUME Delete PROVE StoreKept
  <2>1. /\ turns' = <<>> /\ turnIndex' = 0 /\ sources' = None /\ ~ row' /\ row' \in BOOLEAN
        /\ turns' \in Seq(Turn)
    BY <1>11, EmptySeq DEF Delete
  <2> QED
    BY <2>1 DEF StoreKept, StoreTyped, Filled, AnsweredBy, Gone, Grows
<1> QED
  BY <1>1, <1>2, <1>3, <1>4, <1>5, <1>6, <1>7, <1>8, <1>9, <1>10, <1>11 DEF ChatNext, Serve

LEMMA ChatStep ==
  ASSUME ConversationAssumption, ChatTypeOK, Filled, Planned, ChatNext
  PROVE  ChatTyped'
<1>1. ASSUME NEW r \in Request, Accept(r) PROVE ChatTyped'
  <2>1. PICK kind \in {"ask", "edit", "regenerate"} :
          plan' = [plan EXCEPT ![r] =
            [kind |-> kind, turn |-> IF kind = "ask" THEN 0 ELSE Len(turns)]]
    BY <1>1 DEF Accept
  <2>2. [kind |-> kind, turn |-> IF kind = "ask" THEN 0 ELSE Len(turns)] \in PlanRow
    BY DEF PlanRow, Kinds, ChatTypeOK, StoreTyped
  <2> QED
    BY <1>1, <2>1, <2>2 DEF Accept, Goto, ChatTypeOK, ChatTyped, Places
<1>2. ASSUME NEW r \in Request, Enter(r) PROVE ChatTyped'
  <2>1. Current(r) => Hydrated(r) \in SessionRow
    BY <1>2, HydratedTyped DEF Enter, Current
  <2> QED
    BY <1>2, <2>1 DEF Enter, Goto, ChatTypeOK, ChatTyped, Places
<1>3. ASSUME NEW r \in Request, Prepare(r) PROVE ChatTyped'
  BY <1>3 DEF Prepare, chat, ChatTyped, ChatTypeOK, Goto, Free, Places
<1>4. ASSUME NEW r \in Request, Pull(r) PROVE ChatTyped'
  BY <1>4 DEF Pull, chat, ChatTyped, ChatTypeOK, Goto, Free, Places
<1>5. ASSUME NEW r \in Request, Chunk(r) PROVE ChatTyped'
  BY <1>5 DEF Chunk, chat, ChatTyped, ChatTypeOK, Goto, Free, Places
<1>6. ASSUME NEW r \in Request, Finish(r) PROVE ChatTyped'
  BY <1>6 DEF Finish, chat, ChatTyped, ChatTypeOK, Goto, Free, Places
<1>7. ASSUME NEW r \in Request, Release(r) PROVE ChatTyped'
  BY <1>7 DEF Release, chat, ChatTyped, ChatTypeOK, Goto, Free, Places
<1>8. ASSUME NEW r \in Request, Collect(r) PROVE ChatTyped'
  BY <1>8 DEF Collect, chat, ChatTyped, ChatTypeOK, Goto, Free, Places
<1>9. ASSUME NEW r \in Request, Disconnect(r) PROVE ChatTyped'
  BY <1>9 DEF Disconnect, chat, ChatTyped, ChatTypeOK, Goto, Free, Places
<1>10. ASSUME NEW r \in Request, Cut(r) PROVE ChatTyped'
  BY <1>10 DEF Cut, chat, ChatTyped, ChatTypeOK, Goto, Free, Places
<1>11. ASSUME Delete PROVE ChatTyped'
  BY <1>11 DEF Delete, chat, ChatTyped, ChatTypeOK, Goto, Free, Places
<1> QED
  BY <1>1, <1>2, <1>3, <1>4, <1>5, <1>6, <1>7, <1>8, <1>9, <1>10, <1>11 DEF ChatNext, Serve

LEMMA PlanStands ==
  ASSUME ChatTypeOK, ChatTypeOK', Planned, Grows, plan' = plan,
         \A r \in Request : pc'[r] = "idle" \/ pc[r] # "idle"
  PROVE  Planned'
<1>1. Len(turns) \in Nat /\ Len(turns') \in Nat /\ \A r \in Request : plan[r].turn \in Nat
  BY DEF ChatTypeOK, StoreTyped, ChatTyped, PlanRow
<1> QED
  BY <1>1 DEF Planned, Grows

LEMMA PlannedStep ==
  ASSUME ChatTypeOK, ChatTypeOK', Planned, Grows, ChatNext
  PROVE  Planned'
<1>1. ASSUME NEW r \in Request, Accept(r) PROVE Planned'
  <2>1. PICK kind \in {"ask"} \cup (IF turns = <<>> THEN {} ELSE {"edit", "regenerate"}) :
          plan' = [plan EXCEPT ![r] =
            [kind |-> kind, turn |-> IF kind = "ask" THEN 0 ELSE Len(turns)]]
    BY <1>1 DEF Accept
  <2>2. /\ turns \in Seq(Turn) /\ turns' = turns /\ row' = row
        /\ turns # <<>> => Len(turns) \in 1 .. Len(turns)
    BY <1>1 DEF Accept, store, ChatTypeOK, StoreTyped
  <2> QED
    BY <1>1, <2>1, <2>2 DEF Accept, Goto, Planned, ChatTypeOK, ChatTyped
<1>2. ASSUME NEW r \in Request, Enter(r) PROVE Planned'
  <2>1. plan' = plan /\ \A q \in Request : pc'[q] = "idle" \/ pc[q] # "idle"
    BY <1>2 DEF Enter, chat, Goto, ChatTypeOK, ChatTyped
  <2> QED
    BY <2>1, PlanStands
<1>3. ASSUME NEW r \in Request, Prepare(r) PROVE Planned'
  <2>1. plan' = plan /\ \A q \in Request : pc'[q] = "idle" \/ pc[q] # "idle"
    BY <1>3 DEF Prepare, chat, Goto, ChatTypeOK, ChatTyped
  <2> QED
    BY <2>1, PlanStands
<1>4. ASSUME NEW r \in Request, Pull(r) PROVE Planned'
  <2>1. plan' = plan /\ \A q \in Request : pc'[q] = "idle" \/ pc[q] # "idle"
    BY <1>4 DEF Pull, chat, Goto, ChatTypeOK, ChatTyped
  <2> QED
    BY <2>1, PlanStands
<1>5. ASSUME NEW r \in Request, Chunk(r) PROVE Planned'
  <2>1. plan' = plan /\ \A q \in Request : pc'[q] = "idle" \/ pc[q] # "idle"
    BY <1>5 DEF Chunk, chat, Goto, ChatTypeOK, ChatTyped
  <2> QED
    BY <2>1, PlanStands
<1>6. ASSUME NEW r \in Request, Finish(r) PROVE Planned'
  <2>1. plan' = plan /\ \A q \in Request : pc'[q] = "idle" \/ pc[q] # "idle"
    BY <1>6 DEF Finish, chat, Goto, ChatTypeOK, ChatTyped
  <2> QED
    BY <2>1, PlanStands
<1>7. ASSUME NEW r \in Request, Release(r) PROVE Planned'
  <2>1. plan' = plan /\ \A q \in Request : pc'[q] = "idle" \/ pc[q] # "idle"
    BY <1>7 DEF Release, chat, Goto, ChatTypeOK, ChatTyped
  <2> QED
    BY <2>1, PlanStands
<1>8. ASSUME NEW r \in Request, Collect(r) PROVE Planned'
  <2>1. plan' = plan /\ \A q \in Request : pc'[q] = "idle" \/ pc[q] # "idle"
    BY <1>8 DEF Collect, chat, Goto, ChatTypeOK, ChatTyped
  <2> QED
    BY <2>1, PlanStands
<1>9. ASSUME NEW r \in Request, Disconnect(r) PROVE Planned'
  <2>1. plan' = plan /\ \A q \in Request : pc'[q] = "idle" \/ pc[q] # "idle"
    BY <1>9 DEF Disconnect, chat, Goto, ChatTypeOK, ChatTyped
  <2> QED
    BY <2>1, PlanStands
<1>10. ASSUME NEW r \in Request, Cut(r) PROVE Planned'
  <2>1. plan' = plan /\ \A q \in Request : pc'[q] = "idle" \/ pc[q] # "idle"
    BY <1>10 DEF Cut, chat, Goto, ChatTypeOK, ChatTyped
  <2> QED
    BY <2>1, PlanStands
<1>11. ASSUME Delete PROVE Planned'
  <2>1. plan' = plan /\ \A q \in Request : pc'[q] = "idle" \/ pc[q] # "idle"
    BY <1>11 DEF Delete, chat, Goto, ChatTypeOK, ChatTyped
  <2> QED
    BY <2>1, PlanStands
<1> QED
  BY <1>1, <1>2, <1>3, <1>4, <1>5, <1>6, <1>7, <1>8, <1>9, <1>10, <1>11 DEF ChatNext, Serve

LEMMA LockedStep ==
  ASSUME ConversationAssumption, ChatTypeOK, Locked, ChatNext
  PROVE  Locked'
<1>1. ASSUME NEW r \in Request, Accept(r) PROVE Locked'
  BY <1>1 DEF Accept, Locked, Locking, Goto, Free, ChatTypeOK, ChatTyped, ConversationAssumption
<1>2. ASSUME NEW r \in Request, Enter(r) PROVE Locked'
  BY <1>2 DEF Enter, Locked, Locking, Goto, Free, ChatTypeOK, ChatTyped, ConversationAssumption
<1>3. ASSUME NEW r \in Request, Prepare(r) PROVE Locked'
  BY <1>3 DEF Prepare, Locked, Locking, Goto, Free, ChatTypeOK, ChatTyped, ConversationAssumption
<1>4. ASSUME NEW r \in Request, Pull(r) PROVE Locked'
  BY <1>4 DEF Pull, Locked, Locking, Goto, Free, ChatTypeOK, ChatTyped, ConversationAssumption
<1>5. ASSUME NEW r \in Request, Chunk(r) PROVE Locked'
  BY <1>5 DEF Chunk, Locked, Locking, Goto, Free, ChatTypeOK, ChatTyped, ConversationAssumption
<1>6. ASSUME NEW r \in Request, Finish(r) PROVE Locked'
  BY <1>6 DEF Finish, Locked, Locking, Goto, Free, ChatTypeOK, ChatTyped, ConversationAssumption
<1>7. ASSUME NEW r \in Request, Release(r) PROVE Locked'
  BY <1>7 DEF Release, Locked, Locking, Goto, Free, ChatTypeOK, ChatTyped, ConversationAssumption
<1>8. ASSUME NEW r \in Request, Collect(r) PROVE Locked'
  BY <1>8 DEF Collect, Locked, Locking, Goto, Free, ChatTypeOK, ChatTyped, ConversationAssumption
<1>9. ASSUME NEW r \in Request, Disconnect(r) PROVE Locked'
  BY <1>9 DEF Disconnect, Locked, Locking, Goto, Free, ChatTypeOK, ChatTyped, ConversationAssumption
<1>10. ASSUME NEW r \in Request, Cut(r) PROVE Locked'
  BY <1>10 DEF Cut, Locked, Locking, Goto, Free, ChatTypeOK, ChatTyped, ConversationAssumption
<1>11. ASSUME Delete PROVE Locked'
  BY <1>11 DEF Delete, Locked, Locking, Goto, Free, ChatTypeOK, ChatTyped, ConversationAssumption
<1> QED
  BY <1>1, <1>2, <1>3, <1>4, <1>5, <1>6, <1>7, <1>8, <1>9, <1>10, <1>11 DEF ChatNext, Serve

-----------------------------------------------------------------------------
(* Under the lock nothing changes that a request was hydrated with. *)

LEMMA HeldStays ==
  ASSUME ChatTypeOK, Held, UNCHANGED store, plan' = plan, session' = session, late' = late,
         \A q \in Request : pc'[q] \in Locking \ {"over"} => pc[q] \in Locking \ {"over"}
  PROVE  Held'
  BY DEF Held, store, Current, Hydrated, Active, Before, LastSource

LEMMA HeldStep ==
  ASSUME ConversationAssumption, ChatTypeOK, Held, Locked, ChatNext
  PROVE  Held'
<1>1. ASSUME NEW r \in Request, Accept(r) PROVE Held'
  <2>1. /\ UNCHANGED store /\ session' = session /\ late' = late
        /\ \A q \in Request : pc'[q] \in Locking \ {"over"} =>
             q # r /\ pc[q] \in Locking \ {"over"} /\ plan'[q] = plan[q]
    BY <1>1 DEF Accept, Goto, ChatTypeOK, ChatTyped, Locking
  <2> QED
    BY <2>1 DEF Held, store, Current, Hydrated, Active, Before, LastSource
<1>2. ASSUME NEW r \in Request, Enter(r) PROVE Held'
  <2>1. CASE Current(r)
    <3>1. UNCHANGED store /\ plan' = plan
      BY <1>2 DEF Enter
    <3>2. \A q \in Request : pc'[q] \in Locking \ {"over"} => q = r
      BY <1>2, <2>1 DEF Enter, Locked, Locking, Goto, ChatTypeOK, ChatTyped, ConversationAssumption
    <3>3. session'[r] = Hydrated(r)
      BY <1>2, <2>1 DEF Enter, ChatTypeOK, ChatTyped
    <3> QED
      BY <2>1, <3>1, <3>2, <3>3 DEF Held, store, Current, Hydrated, Active, Before, LastSource
  <2>2. CASE ~ Current(r)
    <3>1. \A q \in Request : pc'[q] \notin Locking \ {"over"}
      BY <1>2, <2>2 DEF Enter, Locked, Locking, Goto, ChatTypeOK, ChatTyped, ConversationAssumption
    <3> QED
      BY <3>1 DEF Held
  <2> QED
    BY <2>1, <2>2
<1>3. ASSUME NEW r \in Request, Prepare(r) PROVE Held'
  <2>1. /\ UNCHANGED store /\ plan' = plan /\ session' = session /\ late' = late
        /\ \A q \in Request : pc'[q] \in Locking \ {"over"} => pc[q] \in Locking \ {"over"}
    BY <1>3 DEF Prepare, store, chat, Goto, ChatTypeOK, ChatTyped, Locking
  <2> QED
    BY <2>1, HeldStays
<1>4. ASSUME NEW r \in Request, Pull(r) PROVE Held'
  <2>1. /\ UNCHANGED store /\ plan' = plan /\ session' = session /\ late' = late
        /\ \A q \in Request : pc'[q] \in Locking \ {"over"} => pc[q] \in Locking \ {"over"}
    BY <1>4 DEF Pull, store, chat, Goto, ChatTypeOK, ChatTyped, Locking
  <2> QED
    BY <2>1, HeldStays
<1>5. ASSUME NEW r \in Request, Chunk(r) PROVE Held'
  <2>1. /\ UNCHANGED store /\ plan' = plan /\ session' = session /\ late' = late
        /\ \A q \in Request : pc'[q] \in Locking \ {"over"} => pc[q] \in Locking \ {"over"}
    BY <1>5 DEF Chunk, store, chat, Goto, ChatTypeOK, ChatTyped, Locking
  <2> QED
    BY <2>1, HeldStays
<1>6. ASSUME NEW r \in Request, Finish(r) PROVE Held'
  <2>1. \A q \in Request : pc'[q] \notin Locking \ {"over"}
    BY <1>6 DEF Finish, Locked, Locking, Goto, ChatTypeOK, ChatTyped, ConversationAssumption
  <2> QED
    BY <2>1 DEF Held
<1>7. ASSUME NEW r \in Request, Release(r) PROVE Held'
  <2>1. /\ UNCHANGED store /\ plan' = plan /\ session' = session /\ late' = late
        /\ \A q \in Request : pc'[q] \in Locking \ {"over"} => pc[q] \in Locking \ {"over"}
    BY <1>7 DEF Release, store, chat, Goto, ChatTypeOK, ChatTyped, Locking
  <2> QED
    BY <2>1, HeldStays
<1>8. ASSUME NEW r \in Request, Collect(r) PROVE Held'
  <2>1. late' # {}
    BY <1>8 DEF Collect
  <2> QED
    BY <2>1 DEF Held
<1>9. ASSUME NEW r \in Request, Disconnect(r) PROVE Held'
  <2>1. \A q \in Request : pc'[q] \notin Locking \ {"over"}
    BY <1>9 DEF Disconnect, Locked, Locking, Goto, ChatTypeOK, ChatTyped, ConversationAssumption
  <2> QED
    BY <2>1 DEF Held
<1>10. ASSUME NEW r \in Request, Cut(r) PROVE Held'
  <2>1. /\ UNCHANGED store /\ plan' = plan /\ session' = session /\ late' = late
        /\ \A q \in Request : pc'[q] \in Locking \ {"over"} => pc[q] \in Locking \ {"over"}
    BY <1>10 DEF Cut, store, chat, Goto, ChatTypeOK, ChatTyped, Locking
  <2> QED
    BY <2>1, HeldStays
<1>11. ASSUME Delete PROVE Held'
  <2>1. ~ row'
    BY <1>11 DEF Delete
  <2> QED
    BY <2>1 DEF Held
<1> QED
  BY <1>1, <1>2, <1>3, <1>4, <1>5, <1>6, <1>7, <1>8, <1>9, <1>10, <1>11 DEF ChatNext, Serve

-----------------------------------------------------------------------------
(* The context of an answer. *)

(* Of answer k of turn i: its request saw what is now active before it. *)
Right(i, k) ==
  LET a == turns[i].answers[k] IN
  /\ session[a.by].history = Active(Before(i))
  /\ session[a.by].question = turns[i].asked[a.of]

(* Turns, and the sessions of their authors, that are as they were. *)
LEMMA StandsStay ==
  ASSUME ChatTypeOK, Filled, ContextStands, UNCHANGED store, late' = late,
         \A q \in Begun : session'[q] = session[q]
  PROVE  ContextStands'
<1>1. SUFFICES ASSUME late' = {}
               PROVE  /\ \A i \in DOMAIN turns : \A k \in DOMAIN turns[i].answers : Right(i, k)'
                      /\ turnIndex' = Len(turns') /\ sources' = LastSource(turns')
  BY <1>1 DEF ContextStands, Right, store
<1>2. ASSUME NEW i \in DOMAIN turns, NEW k \in DOMAIN turns[i].answers PROVE Right(i, k)'
  <2> DEFINE b == turns[i].answers[k].by
  <2>1. session'[b] = session[b]
    BY DEF Filled, AnsweredBy
  <2>2. Right(i, k)
    BY <1>1 DEF ContextStands, Right
  <2> QED
    BY <2>1, <2>2 DEF Right, store, Active, Before
<1> QED
  BY <1>1, <1>2 DEF ContextStands, store, LastSource

(* An answer persisted under the lock extends the last turn or adds one, so
   what the answers before it were built on is left as it was. *)
LEMMA StandsExtended ==
  ASSUME ChatTypeOK, Filled, Planned, ContextStands, Held, late = {}, row, NEW r \in Request,
         pc[r] \in Locking \ {"over"}, NEW n \in 1 .. Len(turns'), TurnExtended(r, n),
         session' = session
  PROVE  ContextStands'
<1>1. /\ turns \in Seq(Turn) /\ turns' \in Seq(Turn) /\ DOMAIN turns' = 1 .. Len(turns')
      /\ Len(turns) \in Nat /\ Len(turns') \in Nat /\ DOMAIN turns = 1 .. Len(turns)
  BY DEF ChatTypeOK, StoreTyped, TurnExtended
<1>2. Current(r) /\ session[r] = Hydrated(r) /\ plan[r].kind \in {"ask", "edit", "regenerate"}
  <2>1. plan[r].kind \in {"ask", "edit", "regenerate"}
    BY DEF Planned, Locking, ChatTypeOK, ChatTyped, PlanRow, Kinds
  <2> QED
    BY <2>1 DEF Held
<1>3. n = Len(turns')
  BY <1>2 DEF TurnExtended, Current
<1>4. \A i \in 1 .. n - 1 : i \in 1 .. Len(turns) /\ turns'[i] = turns[i]
  <2>1. \A i \in 1 .. Len(turns') : i # n => i \in 1 .. Len(turns) /\ turns'[i] = turns[i]
    BY DEF TurnExtended
  <2>2. n \in Nat
    BY <1>1, <1>3
  <2>3. \A i \in 1 .. n - 1 : i \in 1 .. n /\ i # n
    BY <2>2
  <2> QED
    BY <1>3, <2>1, <2>3
<1>5. n - 1 <= Len(turns)
  <2>1. n = Len(turns) + 1 \/ Len(turns') = Len(turns)
    BY DEF TurnExtended
  <2>2. Len(turns) \in Nat
    BY <1>1
  <2> QED
    BY <1>3, <2>1, <2>2
<1>6. ASSUME NEW i \in 1 .. n PROVE Before(i)' = Before(i)
  <2>1. /\ i \in Nat \ {0} /\ i - 1 <= Len(turns) /\ i - 1 <= Len(turns')
        /\ \A j \in 1 .. i - 1 : turns'[j] = turns[j]
    BY <1>1, <1>3, <1>4, <1>5
  <2>2. SubSeq(turns', 1, i - 1) = SubSeq(turns, 1, i - 1)
    BY <1>1, <2>1, PrefixKept
  <2> QED
    BY <2>2 DEF Before
<1>7. /\ session[r].history = Active(Before(n))
      /\ session[r].question = IF plan[r].kind = "regenerate" THEN Last(turns[n].asked) ELSE r
      /\ plan[r].kind = "ask" => session[r].index = turnIndex
  <2>1. CASE plan[r].kind = "ask"
    <3>1. n - 1 = Len(turns)
      BY <1>1, <2>1 DEF TurnExtended
    <3>2. Before(n) = turns
      BY <1>1, <3>1, SubSeqFull DEF Before
    <3> QED
      BY <1>2, <2>1, <3>2 DEF Hydrated
  <2>2. CASE plan[r].kind \in {"edit", "regenerate"}
    <3>1. n = plan[r].turn
      BY <2>2 DEF TurnExtended
    <3> QED
      BY <1>2, <2>2, <3>1 DEF Hydrated
  <2> QED
    BY <1>2, <2>1, <2>2
<1>8. /\ TurnFilled(turns'[n]) /\ turns'[n] \in Turn /\ turns'[n].answers \in Seq(AnswerRow)
      /\ AnswerAdded(r, n)
  <2>1. turns'[n] \in Turn
    BY <1>1
  <2>2. AnswerAdded(r, n)
    BY DEF TurnExtended
  <2> QED
    BY <2>1, <2>2 DEF Turn, AnswerAdded
<1>9. ASSUME NEW i \in DOMAIN turns', NEW k \in DOMAIN turns'[i].answers PROVE Right(i, k)'
  <2>1. i \in 1 .. n /\ Before(i)' = Before(i)
    BY <1>1, <1>3, <1>6
  <2>2. CASE i # n
    <3>1. i \in DOMAIN turns /\ turns'[i] = turns[i] /\ k \in DOMAIN turns[i].answers
      BY <1>1, <1>9, <2>2 DEF TurnExtended
    <3>2. Right(i, k)
      BY <3>1 DEF ContextStands, Right
    <3> QED
      BY <2>1, <3>1, <3>2 DEF Right, Active
  <2>3. CASE i = n /\ k # Len(turns'[n].answers)
    <3>1. k \in 1 .. Len(turns'[n].answers) - 1
      BY <1>8, <1>9, <2>3
    <3>2. /\ n \in 1 .. Len(turns) /\ k \in 1 .. Len(turns[n].answers)
          /\ turns'[n].answers[k] = turns[n].answers[k]
          /\ turns'[n].asked[turns'[n].answers[k].of] = turns[n].asked[turns'[n].answers[k].of]
      BY <1>8, <3>1 DEF AnswerAdded
    <3>3. n \in DOMAIN turns /\ k \in DOMAIN turns[n].answers
      <4>1. turns[n] \in Turn
        BY <1>1, <3>2
      <4> QED
        BY <1>1, <3>2, <4>1 DEF Turn
    <3>4. Right(n, k)
      BY <3>3 DEF ContextStands, Right
    <3> QED
      BY <2>1, <2>3, <3>2, <3>4 DEF Right, Active
  <2>4. CASE i = n /\ k = Len(turns'[n].answers)
    <3>1. /\ turns'[n].answers[k].by = r
          /\ turns'[n].asked[turns'[n].answers[k].of] = session[r].question
      BY <1>7, <1>8, <2>4 DEF AnswerAdded
    <3> QED
      BY <1>7, <2>1, <2>4, <3>1 DEF Right, Active
  <2> QED
    BY <2>2, <2>3, <2>4
<1>10. turnIndex' = Len(turns')
  <2>1. turnIndex = Len(turns)
    BY DEF ContextStands
  <2> QED
    BY <1>1, <1>7, <2>1 DEF TurnExtended
<1>11. sources' = LastSource(turns')
  <2>1. turns' # <<>> /\ Last(turns') = turns'[n]
    BY <1>1, <1>3 DEF Last
  <2>2. Last(turns'[n].answers).src = sources'
    BY <1>8 DEF AnswerAdded, Last
  <2> QED
    BY <2>1, <2>2 DEF LastSource
<1> QED
  BY <1>9, <1>10, <1>11 DEF ContextStands, Right

LEMMA StandsPersisted ==
  ASSUME ChatTypeOK, Filled, Planned, ContextStands, Held, NEW r \in Request, late' = late,
         pc[r] \in Locking \ {"over"}, Persist(r), session' = session
  PROVE  ContextStands'
<1>1. CASE UNCHANGED store
  BY <1>1, StandsStay
<1>2. CASE row /\ \E n \in 1 .. Len(turns') : TurnExtended(r, n)
  <2>1. late = {} => ContextStands'
    BY <1>2, StandsExtended
  <2> QED
    BY <2>1 DEF ContextStands
<1> QED
  BY <1>1, <1>2, PersistMoves

LEMMA StandsStep ==
  ASSUME ChatTypeOK, Filled, Planned, Held, ContextStands, ChatNext
  PROVE  ContextStands'
<1>1. ASSUME NEW r \in Request, Accept(r) PROVE ContextStands'
  <2>1. UNCHANGED store /\ session' = session /\ late' = late
    BY <1>1 DEF Accept, store, chat
  <2> QED
    BY <2>1, StandsStay
<1>2. ASSUME NEW r \in Request, Enter(r) PROVE ContextStands'
  <2>1. UNCHANGED store /\ late' = late
    BY <1>2 DEF Enter, store
  <2>2. \A q \in Begun : session'[q] = session[q]
    BY <1>2 DEF Enter, Begun, ChatTypeOK, ChatTyped
  <2> QED
    BY <2>1, <2>2, StandsStay
<1>3. ASSUME NEW r \in Request, Prepare(r) PROVE ContextStands'
  <2>1. UNCHANGED store /\ session' = session /\ late' = late
    BY <1>3 DEF Prepare, store, chat
  <2> QED
    BY <2>1, StandsStay
<1>4. ASSUME NEW r \in Request, Pull(r) PROVE ContextStands'
  <2>1. UNCHANGED store /\ session' = session /\ late' = late
    BY <1>4 DEF Pull, store, chat
  <2> QED
    BY <2>1, StandsStay
<1>5. ASSUME NEW r \in Request, Chunk(r) PROVE ContextStands'
  <2>1. UNCHANGED store /\ session' = session /\ late' = late
    BY <1>5 DEF Chunk, store, chat
  <2> QED
    BY <2>1, StandsStay
<1>6. ASSUME NEW r \in Request, Finish(r) PROVE ContextStands'
  <2>1. Persist(r) /\ session' = session /\ late' = late /\ pc[r] \in Locking \ {"over"}
    BY <1>6 DEF Finish, chat, Locking
  <2> QED
    BY <2>1, StandsPersisted
<1>7. ASSUME NEW r \in Request, Release(r) PROVE ContextStands'
  <2>1. UNCHANGED store /\ session' = session /\ late' = late
    BY <1>7 DEF Release, store, chat
  <2> QED
    BY <2>1, StandsStay
<1>8. ASSUME NEW r \in Request, Collect(r) PROVE ContextStands'
  <2>1. late' # {}
    BY <1>8 DEF Collect
  <2> QED
    BY <2>1 DEF ContextStands
<1>9. ASSUME NEW r \in Request, Disconnect(r) PROVE ContextStands'
  <2>1. session' = session /\ late' = late /\ pc[r] \in Locking \ {"over"}
    BY <1>9 DEF Disconnect, chat, Locking
  <2>2. Persist(r) \/ UNCHANGED store
    BY <1>9 DEF Disconnect
  <2> QED
    BY <2>1, <2>2, StandsPersisted, StandsStay
<1>10. ASSUME NEW r \in Request, Cut(r) PROVE ContextStands'
  <2>1. UNCHANGED store /\ session' = session /\ late' = late
    BY <1>10 DEF Cut, store, chat
  <2> QED
    BY <2>1, StandsStay
<1>11. ASSUME Delete PROVE ContextStands'
  <2>1. turns' = <<>> /\ turnIndex' = 0 /\ sources' = None
    BY <1>11 DEF Delete
  <2> QED
    BY <2>1 DEF ContextStands, LastSource
<1> QED
  BY <1>1, <1>2, <1>3, <1>4, <1>5, <1>6, <1>7, <1>8, <1>9, <1>10, <1>11 DEF ChatNext, Serve

-----------------------------------------------------------------------------
LEMMA ChatInitInvariant ==
  ASSUME ChatInit
  PROVE  ChatIInv
<1>1. ChatTypeOK
  BY EmptySeq DEF ChatInit, ChatTypeOK, StoreTyped, ChatTyped, Places, NoPlan, PlanRow, Kinds,
     NoSession,
     SessionRow
<1>2. Filled /\ Planned /\ Gone
  BY DEF ChatInit, Filled, AnsweredBy, Planned, Gone, NoPlan
<1>3. None \notin Request => Locked
  BY DEF ChatInit, Locked, Locking
<1>4. Held /\ ContextStands
  BY DEF ChatInit, Held, Locking, ContextStands, LastSource
<1> QED
  BY <1>1, <1>2, <1>3, <1>4, ConversationAssumption DEF ChatIInv, ConversationAssumption

LEMMA ChatInvStep ==
  ASSUME ChatIInv, ChatNext
  PROVE  ChatIInv'
<1>1. StoreKept
  BY StoreStep DEF ChatIInv
<1>2. ChatTyped'
  BY ChatStep, ConversationAssumption DEF ChatIInv
<1>3. ChatTypeOK' /\ Filled' /\ Gone'
  BY <1>1, <1>2 DEF StoreKept, ChatTypeOK
<1>4. Planned'
  BY <1>1, <1>3, PlannedStep DEF StoreKept, ChatIInv
<1>5. Locked' /\ Held'
  BY LockedStep, HeldStep, ConversationAssumption DEF ChatIInv
<1>6. ContextStands'
  BY StandsStep DEF ChatIInv
<1> QED
  BY <1>3, <1>4, <1>5, <1>6 DEF ChatIInv

LEMMA InvStutter ==
  ASSUME ChatIInv, UNCHANGED chatVars
  PROVE  ChatIInv'
<1>1. UNCHANGED store /\ UNCHANGED chat /\ pc' = pc /\ holder' = holder /\ late' = late
  BY DEF chatVars
<1>2. ChatTypeOK' /\ Filled' /\ Planned' /\ Gone' /\ Locked'
  BY <1>1 DEF store, chat, ChatIInv, ChatTypeOK, StoreTyped, ChatTyped, Filled, AnsweredBy, Begun,
     Planned, Gone, Locked
<1>3. Held' /\ ContextStands'
  BY <1>1, HeldStays, StandsStay DEF chat, ChatIInv
<1> QED
  BY <1>2, <1>3 DEF ChatIInv

(* The tables of a conversation, its lock and the requests agree in every state. *)
THEOREM ChatInvariant == ChatSpec => []ChatIInv
<1>1. ChatInit => ChatIInv
  BY ChatInitInvariant
<1>2. ChatIInv /\ [ChatNext]_chatVars => ChatIInv'
  BY ChatInvStep, InvStutter
<1> QED
  BY <1>1, <1>2, PTL DEF ChatSpec

(* Every answer that is kept was given in the context that is now before it, and
   to the question it is filed under, however asks, edits, regenerations and
   disconnections were interleaved (conversation_runtime.py, routes_chat.py),
   unless a stream that was cut was persisted outside the lock. *)
THEOREM ContextAlwaysStands == ChatSpec => []ContextStands
<1>1. ChatIInv => ContextStands
  BY DEF ChatIInv
<1> QED
  BY <1>1, ChatInvariant, PTL

(* One request at a time is between its check under the lock and its release:
   the lock is with that request, whoever was cut or disconnected. *)
THEOREM OneAtATime ==
  ChatSpec => [](\A r, q \in Request : pc[r] \in Locking /\ pc[q] \in Locking => r = q)
<1>1. ChatIInv => \A r, q \in Request : pc[r] \in Locking /\ pc[q] \in Locking => r = q
  BY DEF ChatIInv, Locked
<1> QED
  BY <1>1, ChatInvariant, PTL
=============================================================================
