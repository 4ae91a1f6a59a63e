------------------------- MODULE ReclassificationProofs -------------------------
(***************************************************************************)
(* Theorems about the moves of published documents (Reclassification), for *)
(* any documents, directories and number of jobs, renames and crashes.     *)
(*                                                                         *)
(* At most one job has begun and not ended (OneHeld), and where it has     *)
(* come to says which stores show which of its two directories (Tracked);  *)
(* what it leaves agrees again, or is known to be split.                   *)
(***************************************************************************)
EXTENDS Reclassification, SequenceTheorems, TLAPS

Statuses == {"absent", "pending", "applying", "committing", "rolling_back",
             "succeeded", "failed", "deleted"}
Begun    == {"applying", "committing", "rolling_back"}
Codes    == {"none", "error", "restarted", "rollback_failed"}
Marks    == {"rollback_failed", "forced"}
Forward  == {"prepare", "qdrant", "parents", "app", "swap", "swapped", "verify"}
Backward == {"compensate", "rqdrant", "rparents", "rapp", "finish"}
Folder   == Category \cup {NoCategory}
Pair     == [category : Folder, label : Nat]
JobRow   == [item : Item \cup {NoItem}, source : Pair, target : Pair,
             status : Statuses, code : Codes \cup {"forced"}]

LibraryTyped ==
  /\ shelf \in [Item -> {"served", "draft", "archived", "purged"}]
  /\ where \in [Item -> Category] /\ label \in [Category -> Nat] /\ deleted \subseteq Category
  /\ points \in [Item -> Pair] /\ parents \in [Item -> Pair]
  /\ view \in [Item -> Folder] /\ candidate \in [Item -> Folder]

RowsTyped == job \in [Job -> JobRow]

WorkerTyped ==
  /\ mode \in {"up", "down", "booting"} /\ queue \in Seq(Job)
  /\ pc \in {"idle"} \cup Forward \cup Backward
  /\ cur \in Job \cup {None} /\ code \in Codes /\ crashes \in Nat

TypeOK == LibraryTyped /\ RowsTyped /\ WorkerTyped

(* A job is for a document and for two directories; one that waits has met no
   error, and the one of a purged document has lost its row. *)
RowsSound ==
  \A j \in Job :
    /\ job[j].status = "absent" => job[j].item = NoItem /\ job[j].code = "none"
    /\ job[j].status # "absent" =>
         /\ job[j].item \in Item
         /\ {job[j].source.category, job[j].target.category} \subseteq Category
         /\ job[j].source.category # job[j].target.category
    /\ job[j].status = "pending" => job[j].code = "none"
    /\ job[j].status = "deleted" => shelf[job[j].item] = "purged"

(* A purged document has no entries. *)
Erased == \A i \in Item : shelf[i] = "purged" => points[i] = Nowhere

(* At most one job has begun and not ended, and a process that serves requests
   is at work on it. *)
OneHeld ==
  /\ cur = None <=> pc = "idle"
  /\ cur # None => \/ job[cur].status \in Begun \cup {"deleted"}
                   \/ job[cur].status = "failed" /\ job[cur].code = "forced"
  /\ \A j, k \in Held : j = k
  /\ mode = "up" => Recoverable \subseteq {cur}
  /\ mode = "down" => pc = "idle"
  /\ mode = "booting" => pc \notin Forward

SplitByOther(j) == \E k \in Job \ {j} : job[k].item = job[j].item /\ job[k].code \in Marks

(* Where the job of a served document has come to.  The entries can be anyone's
   when another job has split the document; when they are both the job's own, the
   item is in one of its directories, so the compensation brings it home. *)
AtSource(e, j) == e[job[j].item] = job[j].source
Between(e, j)  == e[job[j].item] \in {job[j].source, job[j].target}

Whole(j) ==
  Between(points, j) /\ Between(parents, j)
  => where[job[j].item] \in {job[j].source.category, job[j].target.category}

Ahead(j) ==
  /\ pc \in {"qdrant", "parents", "app", "swap", "swapped"}
     => candidate[job[j].item] = job[j].target.category
  /\ pc = "verify" => view[job[j].item] = job[j].target.category

BackAt(j) ==
  code # "rollback_failed" =>
    /\ pc \in {"rparents", "rapp", "finish"} => AtSource(points, j)
    /\ pc \in {"rapp", "finish"} => AtSource(parents, j)
    /\ pc = "finish" => /\ where[job[j].item] = job[j].source.category
                        /\ view[job[j].item] = job[j].source.category

Tracked(j) == Whole(j) /\ (cur = j => Ahead(j) /\ BackAt(j))

Moving == \A j \in Held : shelf[job[j].item] = "served" /\ ~ SplitByOther(j) => Tracked(j)

IInv == TypeOK /\ RowsSound /\ Erased /\ OneHeld /\ Moving /\ StoresAgree

-----------------------------------------------------------------------------
(* What a step of the job j, and one of anything else, leaves alone. *)

SameMove(j) ==
  job'[j].item = job[j].item /\ job'[j].source = job[j].source /\ job'[j].target = job[j].target

OwnStep(j) ==
  /\ shelf' = shelf
  /\ \A k \in Job \ {j} : job'[k] = job[k]
  /\ SameMove(j)
  /\ job'[j].status \in {job[j].status} \cup Begun \cup {"succeeded", "failed"}
  /\ job[j].status = "deleted" => job'[j].status = "deleted"
  /\ \A i \in Item \ {job[j].item} :
       points'[i] = points[i] /\ parents'[i] = parents[i] /\ where'[i] = where[i]

Quiet ==
  /\ \A j \in Job : job[j].status # "absent" => SameMove(j)
  /\ \A j \in Job : job[j].code \in Marks => job'[j].code \in Marks
  /\ Held' \subseteq Held
  /\ \A i \in Item : shelf'[i] = "served" =>
       /\ shelf[i] = "served" /\ where'[i] = where[i]
       /\ points'[i] = points[i] /\ parents'[i] = parents[i]

(* The steps that touch no served document's stores. *)
QuietNext ==
  \/ \E i \in Item : Archive(i)
  \/ \E i \in Item : Purge(i)
  \/ \E i \in Item, c \in Category : Restore(i, c)
  \/ \E i \in Item, c \in Category, j \in Job : Create(i, c, j)
  \/ \E c \in Category : Rename(c)
  \/ \E c \in Category : ForceDelete(c)
  \/ Crash
  \/ Boot
  \/ Serve
  \/ \E j \in Job : Recover(j)

-----------------------------------------------------------------------------
(* Operators of the model. *)

LEMMA EntryTyped ==
  ASSUME label \in [Category -> Nat], NEW c \in Category
  PROVE  Entry(c) \in Pair /\ Entry(c).category = c
  BY DEF Entry, Pair, Folder

LEMMA ExportedTyped ==
  ASSUME NEW w \in [Item -> Category]
  PROVE  /\ Exported(w) \in [Item -> Folder]
         /\ \A i \in Item : shelf[i] = "served" => Exported(w)[i] = w[i]
  BY DEF Exported, Folder

LEMMA StatusTyped ==
  ASSUME RowsTyped, NEW j \in Job, NEW st \in Statuses
  PROVE  /\ Status(j, st) \in [Job -> JobRow]
         /\ \A k \in Job \ {j} : Status(j, st)[k] = job[k]
         /\ \A k \in Job : /\ Status(j, st)[k].item = job[k].item
                           /\ Status(j, st)[k].source = job[k].source
                           /\ Status(j, st)[k].target = job[k].target
                           /\ Status(j, st)[k].code = job[k].code
         /\ Status(j, st)[j].status = IF job[j].status = "deleted" THEN "deleted" ELSE st
<1>1. job[j] \in JobRow
  BY DEF RowsTyped
<1>2. [job[j] EXCEPT !.status = st] \in JobRow
  BY <1>1 DEF JobRow
<1>3. CASE job[j].status = "deleted"
  BY <1>3 DEF Status, RowsTyped
<1>4. CASE job[j].status # "deleted"
  <2>1. Status(j, st) = [job EXCEPT ![j] = [job[j] EXCEPT !.status = st]]
    BY <1>4 DEF Status
  <2> QED
    BY <1>1, <1>2, <1>4, <2>1 DEF RowsTyped, JobRow
<1> QED
  BY <1>3, <1>4

LEMMA HeldJobs ==
  ASSUME RowsTyped, WorkerTyped
  PROVE  /\ Held \subseteq Job /\ None \notin Job
         /\ \A j \in Job : j \in Held <=> job[j].status \in Begun \/ cur = j
         /\ Recoverable = {j \in Job : job[j].status \in Begun}
<1>1. None \notin Job
  BY ReclassificationAssumption DEF None, Job, ReclassificationAssumption
<1> QED
  BY <1>1 DEF Held, Recoverable, Begun, WorkerTyped

(* The job at work. *)
LEMMA AtWork ==
  ASSUME TypeOK, RowsSound, OneHeld, pc # "idle"
  PROVE  /\ cur \in Job /\ Held = {cur} /\ J \in JobRow
         /\ J.item \in Item /\ J.status \notin {"absent", "pending", "succeeded"}
         /\ J.source.category \in Category /\ J.target.category \in Category
         /\ J.source.category # J.target.category
         /\ J.status = "failed" => J.code = "forced"
<1>1. cur \in Job /\ cur \in Held
  BY HeldJobs DEF TypeOK, WorkerTyped, OneHeld
<1>2. Held = {cur}
  BY <1>1 DEF OneHeld
<1>3. J \in JobRow
  BY <1>1 DEF TypeOK, RowsTyped, J
<1> QED
  BY <1>1, <1>2, <1>3 DEF OneHeld, RowsSound, Begun, J

(* Between two jobs of a process that serves requests, none is held. *)
LEMMA NoneHeld ==
  ASSUME TypeOK, OneHeld, mode = "up", pc = "idle"
  PROVE  Held = {} /\ cur = None /\ \A j \in Job : job[j].status \notin Begun
  BY HeldJobs DEF TypeOK, OneHeld, Held

-----------------------------------------------------------------------------
(* Types. *)

LEMMA LibraryStep ==
  ASSUME TypeOK, RowsSound, OneHeld, Next
  PROVE  LibraryTyped'
<1>1. ASSUME NEW i \in Item, Archive(i) PROVE LibraryTyped'
  BY <1>1 DEF Archive, library, stores, LibraryTyped, TypeOK
<1>2. ASSUME NEW i \in Item, Publish(i) PROVE LibraryTyped'
  <2>1. Entry(where[i]) \in Pair
    BY EntryTyped DEF TypeOK, LibraryTyped
  <2> QED
    BY <1>2, <2>1 DEF Publish, TypeOK, LibraryTyped
<1>3. ASSUME NEW i \in Item, Purge(i) PROVE LibraryTyped'
  <2>1. Nowhere \in Pair
    BY DEF Nowhere, Pair, Folder
  <2> QED
    BY <1>3, <2>1 DEF Purge, TypeOK, LibraryTyped
<1>4. ASSUME NEW i \in Item, NEW c \in Category, Restore(i, c) PROVE LibraryTyped'
  BY <1>4 DEF Restore, library, stores, LibraryTyped, TypeOK
<1>5. ASSUME NEW i \in Item, NEW c \in Category, NEW j \in Job, Create(i, c, j) PROVE LibraryTyped'
  BY <1>5 DEF Create, library, stores, LibraryTyped, TypeOK
<1>6. ASSUME NEW c \in Category, Rename(c) PROVE LibraryTyped'
  <2>1. label[c] + 1 \in Nat
    BY DEF TypeOK, LibraryTyped
  <2> QED
    BY <1>6, <2>1 DEF Rename, stores, TypeOK, LibraryTyped
<1>7. ASSUME NEW c \in Category, ForceDelete(c) PROVE LibraryTyped'
  BY <1>7 DEF ForceDelete, library, stores, LibraryTyped, TypeOK
<1>8. ASSUME Begin PROVE LibraryTyped'
  BY <1>8 DEF Begin, library, stores, LibraryTyped, TypeOK
<1>9. ASSUME mode = "up", Prepare PROVE LibraryTyped'
  <2> DEFINE w == [where EXCEPT ![J.item] = J.target.category]
  <2>1. w \in [Item -> Category]
    BY <1>9, AtWork DEF Prepare, Goto, TypeOK, LibraryTyped
  <2>2. Exported(w) \in [Item -> Folder]
    BY <2>1, ExportedTyped
  <2> QED
    BY <1>9, <2>2 DEF Prepare, library, stores, TypeOK, LibraryTyped
<1>10. ASSUME mode = "up", PatchPoints PROVE LibraryTyped'
  <2>1. J.target \in Pair
    BY <1>10, AtWork DEF PatchPoints, Goto, JobRow
  <2> QED
    BY <1>10, <2>1 DEF PatchPoints, library, TypeOK, LibraryTyped
<1>11. ASSUME mode = "up", PatchParents PROVE LibraryTyped'
  <2>1. J.target \in Pair
    BY <1>11, AtWork DEF PatchParents, Goto, JobRow
  <2> QED
    BY <1>11, <2>1 DEF PatchParents, library, TypeOK, LibraryTyped
<1>12. ASSUME mode = "up", CommitItem PROVE LibraryTyped'
  <2>1. J.target.category \in Category
    BY <1>12, AtWork DEF CommitItem, Goto
  <2> QED
    BY <1>12, <2>1 DEF CommitItem, stores, TypeOK, LibraryTyped
<1>13. ASSUME mode = "up", SwapOut PROVE LibraryTyped'
  <2>1. Missing \in [Item -> Folder]
    BY DEF Missing, Folder
  <2> QED
    BY <1>13, <2>1 DEF SwapOut, library, stores, TypeOK, LibraryTyped
<1>14. ASSUME mode = "up", SwapIn PROVE LibraryTyped'
  <2>1. Missing \in [Item -> Folder]
    BY DEF Missing, Folder
  <2> QED
    BY <1>14, <2>1 DEF SwapIn, library, stores, TypeOK, LibraryTyped
<1>15. ASSUME mode = "up", Complete PROVE LibraryTyped'
  BY <1>15 DEF Complete, library, stores, LibraryTyped, TypeOK
<1>16. ASSUME Err PROVE LibraryTyped'
  <2>1. Missing \in [Item -> Folder]
    BY DEF Missing, Folder
  <2>2. J.target \in Pair
    BY <1>16, AtWork DEF Err, JobRow
  <2>3. points' = points \/ points' = [points EXCEPT ![J.item] = J.target]
    BY <1>16 DEF Err
  <2>4. points' \in [Item -> Pair]
    BY <2>2, <2>3 DEF TypeOK, LibraryTyped
  <2> QED
    BY <1>16, <2>1, <2>4 DEF Err, library, TypeOK, LibraryTyped
<1>17. ASSUME Rollback PROVE LibraryTyped'
  BY <1>17 DEF Rollback, library, stores, LibraryTyped, TypeOK
<1>18. ASSUME RestorePoints PROVE LibraryTyped'
  <2>1. J.source \in Pair
    BY <1>18, AtWork DEF RestorePoints, Goto, JobRow
  <2> QED
    BY <1>18, <2>1 DEF RestorePoints, library, TypeOK, LibraryTyped
<1>19. ASSUME RestoreParents PROVE LibraryTyped'
  <2>1. J.source \in Pair
    BY <1>19, AtWork DEF RestoreParents, Goto, JobRow
  <2> QED
    BY <1>19, <2>1 DEF RestoreParents, library, TypeOK, LibraryTyped
<1>20. ASSUME RestoreItem PROVE LibraryTyped'
  <2>1. Home \in [Item -> Category]
    BY <1>20, AtWork DEF RestoreItem, Goto, Home, TypeOK, LibraryTyped
  <2>2. Exported(Home) \in [Item -> Folder]
    BY <2>1, ExportedTyped
  <2> QED
    BY <1>20, <2>1, <2>2 DEF RestoreItem, stores, TypeOK, LibraryTyped
<1>21. ASSUME Finish PROVE LibraryTyped'
  BY <1>21 DEF Finish, library, stores, LibraryTyped, TypeOK
<1>22. ASSUME Crash PROVE LibraryTyped'
  <2>1. Missing \in [Item -> Folder]
    BY DEF Missing, Folder
  <2> QED
    BY <1>22, <2>1 DEF Crash, library, stores, TypeOK, LibraryTyped
<1>23. ASSUME Boot PROVE LibraryTyped'
  BY <1>23 DEF Boot, library, stores, LibraryTyped, TypeOK
<1>24. ASSUME Serve PROVE LibraryTyped'
  BY <1>24 DEF Serve, library, stores, LibraryTyped, TypeOK
<1>25. ASSUME NEW j \in Job, Recover(j) PROVE LibraryTyped'
  BY <1>25 DEF Recover, library, stores, LibraryTyped, TypeOK
<1> QED
  BY <1>1, <1>2, <1>3, <1>4, <1>5, <1>6, <1>7, <1>8, <1>9, <1>10, <1>11, <1>12, <1>13, <1>14,
     <1>15, <1>16, <1>17, <1>18, <1>19, <1>20, <1>21, <1>22, <1>23, <1>24, <1>25 DEF Next, Work,
     Compensate, Restart

(* A forced deletion and a restart fail the rows of a set, a purge marks them. *)
LEMMA MarkedTyped ==
  ASSUME RowsTyped, NEW S \in SUBSET Job, NEW st \in Statuses, NEW e \in Codes \cup {"forced"}
  PROVE  [j \in Job |-> IF j \in S THEN [job[j] EXCEPT !.status = st, !.code = e] ELSE job[j]]
            \in [Job -> JobRow]
<1>1. ASSUME NEW j \in Job PROVE [job[j] EXCEPT !.status = st, !.code = e] \in JobRow
  BY DEF RowsTyped, JobRow
<1> QED
  BY <1>1 DEF RowsTyped

LEMMA RowsTypedStep ==
  ASSUME TypeOK, RowsSound, OneHeld, Next
  PROVE  RowsTyped'
<1>1. ASSUME NEW i \in Item, Archive(i) PROVE RowsTyped'
  BY <1>1 DEF Archive, process, library, stores, vars, RowsTyped, TypeOK
<1>2. ASSUME NEW i \in Item, Publish(i) PROVE RowsTyped'
  BY <1>2 DEF Publish, process, library, stores, vars, RowsTyped, TypeOK
<1>3. ASSUME NEW i \in Item, Purge(i) PROVE RowsTyped'
  <2>1. ASSUME NEW j \in Job PROVE [job[j] EXCEPT !.status = "deleted"] \in JobRow
    BY DEF TypeOK, RowsTyped, JobRow, Statuses
  <2> QED
    BY <1>3, <2>1 DEF Purge, TypeOK, RowsTyped
<1>4. ASSUME NEW i \in Item, NEW c \in Category, Restore(i, c) PROVE RowsTyped'
  BY <1>4 DEF Restore, process, library, stores, vars, RowsTyped, TypeOK
<1>5. ASSUME NEW i \in Item, NEW c \in Category, NEW j \in Job, Create(i, c, j) PROVE RowsTyped'
  <2> DEFINE r == [item |-> i, source |-> Entry(where[i]), target |-> Entry(c),
                   status |-> "pending", code |-> "none"]
  <2>1. r \in JobRow
    <3>1. Entry(where[i]) \in Pair /\ Entry(c) \in Pair
      BY EntryTyped DEF TypeOK, LibraryTyped
    <3> QED
      BY <3>1 DEF JobRow, Statuses, Codes
  <2>2. job' = [job EXCEPT ![j] = r]
    BY <1>5 DEF Create
  <2> QED
    BY <2>1, <2>2 DEF TypeOK, RowsTyped
<1>6. ASSUME NEW c \in Category, Rename(c) PROVE RowsTyped'
  BY <1>6 DEF Rename, process, library, stores, vars, RowsTyped, TypeOK
<1>7. ASSUME NEW c \in Category, ForceDelete(c) PROVE RowsTyped'
  <2> DEFINE S == {j \in Job : Active(j) /\ c \in {job[j].source.category, job[j].target.category}}
  <2>1. job' = [j \in Job |-> IF j \in S
                  THEN [job[j] EXCEPT !.status = "failed", !.code = "forced"] ELSE job[j]]
    BY <1>7 DEF ForceDelete
  <2>2. S \in SUBSET Job /\ "failed" \in Statuses
    BY DEF Statuses
  <2> HIDE DEF S
  <2>3. [j \in Job |-> IF j \in S
           THEN [job[j] EXCEPT !.status = "failed", !.code = "forced"] ELSE job[j]] \in [Job -> JobRow]
    BY <2>2, MarkedTyped DEF TypeOK
  <2> QED
    BY <2>1, <2>3 DEF RowsTyped
<1>8. ASSUME Begin PROVE RowsTyped'
  <2>1. Head(queue) \in Job
    BY <1>8 DEF Begin, TypeOK, WorkerTyped
  <2>2. Status(Head(queue), "applying") \in [Job -> JobRow]
    BY <2>1, StatusTyped DEF TypeOK, Statuses
  <2> QED
    BY <1>8, <2>2 DEF Begin, TypeOK, RowsTyped
<1>9. ASSUME mode = "up", Prepare PROVE RowsTyped'
  BY <1>9 DEF Prepare, process, library, stores, vars, RowsTyped, TypeOK
<1>10. ASSUME mode = "up", PatchPoints PROVE RowsTyped'
  BY <1>10 DEF PatchPoints, process, library, stores, vars, RowsTyped, TypeOK
<1>11. ASSUME mode = "up", PatchParents PROVE RowsTyped'
  BY <1>11 DEF PatchParents, process, library, stores, vars, RowsTyped, TypeOK
<1>12. ASSUME mode = "up", CommitItem PROVE RowsTyped'
  <2>1. Status(cur, "committing") \in [Job -> JobRow]
    BY <1>12, AtWork, StatusTyped DEF CommitItem, Goto, TypeOK, Statuses
  <2> QED
    BY <1>12, <2>1 DEF CommitItem, RowsTyped
<1>13. ASSUME mode = "up", SwapOut PROVE RowsTyped'
  BY <1>13 DEF SwapOut, process, library, stores, vars, RowsTyped, TypeOK
<1>14. ASSUME mode = "up", SwapIn PROVE RowsTyped'
  BY <1>14 DEF SwapIn, process, library, stores, vars, RowsTyped, TypeOK
<1>15. ASSUME mode = "up", Complete PROVE RowsTyped'
  <2>1. cur \in Job /\ job[cur] \in JobRow
    BY <1>15, AtWork DEF Complete, Goto, J
  <2>2. [job[cur] EXCEPT !.status = "succeeded", !.code = "none"] \in JobRow
    BY <2>1 DEF JobRow, Statuses, Codes
  <2>3. job' = [job EXCEPT ![cur] = [job[cur] EXCEPT !.status = "succeeded", !.code = "none"]]
    BY <1>15, <2>1 DEF Complete, TypeOK, RowsTyped
  <2> QED
    BY <2>1, <2>2, <2>3 DEF TypeOK, RowsTyped
<1>16. ASSUME Err PROVE RowsTyped'
  BY <1>16 DEF Err, process, library, stores, vars, RowsTyped, TypeOK
<1>17. ASSUME Rollback PROVE RowsTyped'
  <2>1. Status(cur, "rolling_back") \in [Job -> JobRow]
    BY <1>17, AtWork, StatusTyped DEF Rollback, TypeOK, Statuses
  <2> QED
    BY <1>17, <2>1 DEF Rollback, TypeOK, RowsTyped
<1>18. ASSUME RestorePoints PROVE RowsTyped'
  BY <1>18 DEF RestorePoints, process, library, stores, vars, RowsTyped, TypeOK
<1>19. ASSUME RestoreParents PROVE RowsTyped'
  BY <1>19 DEF RestoreParents, process, library, stores, vars, RowsTyped, TypeOK
<1>20. ASSUME RestoreItem PROVE RowsTyped'
  BY <1>20 DEF RestoreItem, process, library, stores, vars, RowsTyped, TypeOK
<1>21. ASSUME Finish PROVE RowsTyped'
  <2>1. cur \in Job /\ job[cur] \in JobRow
    BY <1>21, AtWork DEF Finish, Goto, J
  <2>2. [job[cur] EXCEPT !.status = "failed", !.code = code] \in JobRow
    BY <2>1 DEF TypeOK, WorkerTyped, JobRow, Statuses
  <2> QED
    BY <1>21, <2>1, <2>2 DEF Finish, TypeOK, RowsTyped
<1>22. ASSUME Crash PROVE RowsTyped'
  BY <1>22 DEF Crash, process, library, stores, vars, RowsTyped, TypeOK
<1>23. ASSUME Boot PROVE RowsTyped'
  <2> DEFINE S == {j \in Job : job[j].status = "pending"}
  <2>1. job' = [j \in Job |-> IF j \in S
                  THEN [job[j] EXCEPT !.status = "failed", !.code = "restarted"] ELSE job[j]]
    BY <1>23 DEF Boot
  <2>2. S \in SUBSET Job /\ "failed" \in Statuses /\ "restarted" \in Codes
    BY DEF Statuses, Codes
  <2> HIDE DEF S
  <2>3. [j \in Job |-> IF j \in S
           THEN [job[j] EXCEPT !.status = "failed", !.code = "restarted"] ELSE job[j]] \in [Job -> JobRow]
    BY <2>2, MarkedTyped DEF TypeOK
  <2> QED
    BY <2>1, <2>3 DEF RowsTyped
<1>24. ASSUME Serve PROVE RowsTyped'
  BY <1>24 DEF Serve, process, library, stores, vars, RowsTyped, TypeOK
<1>25. ASSUME NEW j \in Job, Recover(j) PROVE RowsTyped'
  BY <1>25 DEF Recover, process, library, stores, vars, RowsTyped, TypeOK
<1> QED
  BY <1>1, <1>2, <1>3, <1>4, <1>5, <1>6, <1>7, <1>8, <1>9, <1>10, <1>11, <1>12, <1>13, <1>14,
     <1>15, <1>16, <1>17, <1>18, <1>19, <1>20, <1>21, <1>22, <1>23, <1>24, <1>25 DEF Next, Work,
     Compensate, Restart

LEMMA WorkerStep ==
  ASSUME TypeOK, RowsSound, OneHeld, Next
  PROVE  WorkerTyped'
<1>1. ASSUME NEW i \in Item, Archive(i) PROVE WorkerTyped'
  BY <1>1 DEF Archive, Goto, Idle, process, Failed, WorkerTyped, TypeOK, Forward, Backward, Codes
<1>2. ASSUME NEW i \in Item, Publish(i) PROVE WorkerTyped'
  BY <1>2 DEF Publish, Goto, Idle, process, Failed, WorkerTyped, TypeOK, Forward, Backward, Codes
<1>3. ASSUME NEW i \in Item, Purge(i) PROVE WorkerTyped'
  BY <1>3 DEF Purge, Goto, Idle, process, Failed, WorkerTyped, TypeOK, Forward, Backward, Codes
<1>4. ASSUME NEW i \in Item, NEW c \in Category, Restore(i, c) PROVE WorkerTyped'
  BY <1>4 DEF Restore, Goto, Idle, process, Failed, WorkerTyped, TypeOK, Forward, Backward, Codes
<1>5. ASSUME NEW i \in Item, NEW c \in Category, NEW j \in Job, Create(i, c, j) PROVE WorkerTyped'
  <2>1. queue' \in Seq(Job)
    BY <1>5 DEF Create, TypeOK, WorkerTyped
  <2> QED
    BY <1>5, <2>1 DEF Create, TypeOK, WorkerTyped
<1>6. ASSUME NEW c \in Category, Rename(c) PROVE WorkerTyped'
  BY <1>6 DEF Rename, Goto, Idle, process, Failed, WorkerTyped, TypeOK, Forward, Backward, Codes
<1>7. ASSUME NEW c \in Category, ForceDelete(c) PROVE WorkerTyped'
  BY <1>7 DEF ForceDelete, Goto, Idle, process, Failed, WorkerTyped, TypeOK, Forward, Backward,
     Codes
<1>8. ASSUME Begin PROVE WorkerTyped'
  <2>1. Head(queue) \in Job /\ Tail(queue) \in Seq(Job)
    BY <1>8 DEF Begin, TypeOK, WorkerTyped
  <2> QED
    BY <1>8, <2>1 DEF Begin, TypeOK, WorkerTyped, Forward
<1>9. ASSUME mode = "up", Prepare PROVE WorkerTyped'
  BY <1>9 DEF Prepare, Goto, Idle, process, Failed, WorkerTyped, TypeOK, Forward, Backward, Codes
<1>10. ASSUME mode = "up", PatchPoints PROVE WorkerTyped'
  BY <1>10 DEF PatchPoints, Goto, Idle, process, Failed, WorkerTyped, TypeOK, Forward, Backward,
     Codes
<1>11. ASSUME mode = "up", PatchParents PROVE WorkerTyped'
  BY <1>11 DEF PatchParents, Goto, Idle, process, Failed, WorkerTyped, TypeOK, Forward, Backward,
     Codes
<1>12. ASSUME mode = "up", CommitItem PROVE WorkerTyped'
  BY <1>12 DEF CommitItem, Goto, Idle, process, Failed, WorkerTyped, TypeOK, Forward, Backward,
     Codes
<1>13. ASSUME mode = "up", SwapOut PROVE WorkerTyped'
  BY <1>13 DEF SwapOut, Goto, Idle, process, Failed, WorkerTyped, TypeOK, Forward, Backward, Codes
<1>14. ASSUME mode = "up", SwapIn PROVE WorkerTyped'
  BY <1>14 DEF SwapIn, Goto, Idle, process, Failed, WorkerTyped, TypeOK, Forward, Backward, Codes
<1>15. ASSUME mode = "up", Complete PROVE WorkerTyped'
  BY <1>15 DEF Complete, Goto, Idle, process, Failed, WorkerTyped, TypeOK, Forward, Backward, Codes
<1>16. ASSUME Err PROVE WorkerTyped'
  BY <1>16 DEF Err, Goto, Idle, process, Failed, WorkerTyped, TypeOK, Forward, Backward, Codes
<1>17. ASSUME Rollback PROVE WorkerTyped'
  BY <1>17 DEF Rollback, Goto, Idle, process, Failed, WorkerTyped, TypeOK, Forward, Backward, Codes
<1>18. ASSUME RestorePoints PROVE WorkerTyped'
  BY <1>18 DEF RestorePoints, Goto, Idle, process, Failed, WorkerTyped, TypeOK, Forward, Backward,
     Codes
<1>19. ASSUME RestoreParents PROVE WorkerTyped'
  BY <1>19 DEF RestoreParents, Goto, Idle, process, Failed, WorkerTyped, TypeOK, Forward,
     Backward, Codes
<1>20. ASSUME RestoreItem PROVE WorkerTyped'
  BY <1>20 DEF RestoreItem, Goto, Idle, process, Failed, WorkerTyped, TypeOK, Forward, Backward,
     Codes
<1>21. ASSUME Finish PROVE WorkerTyped'
  BY <1>21 DEF Finish, Goto, Idle, process, Failed, WorkerTyped, TypeOK, Forward, Backward, Codes
<1>22. ASSUME Crash PROVE WorkerTyped'
  <2>1. <<>> \in Seq(Job) /\ crashes + 1 \in Nat
    BY DEF TypeOK, WorkerTyped
  <2> QED
    BY <1>22, <2>1 DEF Crash, WorkerTyped, Codes
<1>23. ASSUME Boot PROVE WorkerTyped'
  BY <1>23 DEF Boot, Goto, Idle, process, Failed, WorkerTyped, TypeOK, Forward, Backward, Codes
<1>24. ASSUME Serve PROVE WorkerTyped'
  BY <1>24 DEF Serve, Goto, Idle, process, Failed, WorkerTyped, TypeOK, Forward, Backward, Codes
<1>25. ASSUME NEW j \in Job, Recover(j) PROVE WorkerTyped'
  BY <1>25 DEF Recover, Goto, Idle, process, Failed, WorkerTyped, TypeOK, Forward, Backward, Codes
<1> QED
  BY <1>1, <1>2, <1>3, <1>4, <1>5, <1>6, <1>7, <1>8, <1>9, <1>10, <1>11, <1>12, <1>13, <1>14,
     <1>15, <1>16, <1>17, <1>18, <1>19, <1>20, <1>21, <1>22, <1>23, <1>24, <1>25 DEF Next, Work,
     Compensate, Restart

-----------------------------------------------------------------------------
(* Steps of jobs and of the environment. *)

LEMMA HeldNext ==
  ASSUME WorkerTyped'
  PROVE  /\ Held' \subseteq Job
         /\ \A j \in Job : j \in Held' <=> job'[j].status \in Begun \/ cur' = j
         /\ Recoverable' = {j \in Job : job'[j].status \in Begun}
<1>1. None \notin Job
  BY ReclassificationAssumption DEF None, Job, ReclassificationAssumption
<1> QED
  BY <1>1 DEF Held, Recoverable, Begun, WorkerTyped

LEMMA OwnSteps ==
  ASSUME TypeOK, RowsSound, Erased, OneHeld, Work \/ Err \/ Compensate
  PROVE  OwnStep(cur)
<1>1. CASE Prepare
  BY <1>1, AtWork DEF Prepare, Goto, J, OwnStep, SameMove, library, stores, TypeOK, LibraryTyped
<1>2. CASE PatchPoints
  BY <1>2, AtWork DEF PatchPoints, Goto, J, OwnStep, SameMove, library, stores, TypeOK, LibraryTyped
<1>3. CASE PatchParents
  BY <1>3, AtWork DEF PatchParents, Goto, J, OwnStep, SameMove, library, stores, TypeOK,
     LibraryTyped
<1>4. CASE CommitItem
  <2>1. cur \in Job
    BY <1>4, AtWork DEF CommitItem, Goto
  <2>2. /\ \A k \in Job \ {cur} : Status(cur, "committing")[k] = job[k]
        /\ Status(cur, "committing")[cur].item = job[cur].item
        /\ Status(cur, "committing")[cur].source = job[cur].source
        /\ Status(cur, "committing")[cur].target = job[cur].target
        /\ Status(cur, "committing")[cur].status = IF job[cur].status = "deleted" THEN "deleted" ELSE "committing"
    BY <2>1, StatusTyped DEF TypeOK, Statuses
  <2>3. job' = Status(cur, "committing") \/ job' = job
    BY <1>4 DEF CommitItem
  <2> QED
    BY <1>4, <2>1, <2>2, <2>3 DEF CommitItem, J, OwnStep, SameMove, library, stores, TypeOK,
       LibraryTyped, Begun
<1>5. CASE SwapOut
  BY <1>5, AtWork DEF SwapOut, Goto, J, OwnStep, SameMove, library, stores, TypeOK, LibraryTyped
<1>6. CASE SwapIn
  BY <1>6, AtWork DEF SwapIn, Goto, J, OwnStep, SameMove, library, stores, TypeOK, LibraryTyped
<1>7. CASE Complete
  <2>1. cur \in Job /\ job[cur] \in JobRow
    BY <1>7, AtWork DEF Complete, Goto, J
  <2>2. job[cur].status # "deleted"
    BY <1>7, AtWork, ReclassificationAssumption
       DEF Complete, Verified, Goto, J, RowsSound, Erased, Nowhere, ReclassificationAssumption
  <2> QED
    BY <1>7, <2>1, <2>2 DEF Complete, OwnStep, SameMove, library, stores, TypeOK, RowsTyped, JobRow
<1>8. CASE Err
  BY <1>8, AtWork DEF Err, Goto, J, OwnStep, SameMove, library, stores, TypeOK, LibraryTyped
<1>9. CASE Rollback
  <2>1. cur \in Job
    BY <1>9, AtWork DEF Rollback, Goto
  <2>2. /\ \A k \in Job \ {cur} : Status(cur, "rolling_back")[k] = job[k]
        /\ Status(cur, "rolling_back")[cur].item = job[cur].item
        /\ Status(cur, "rolling_back")[cur].source = job[cur].source
        /\ Status(cur, "rolling_back")[cur].target = job[cur].target
        /\ Status(cur, "rolling_back")[cur].status = IF job[cur].status = "deleted" THEN "deleted" ELSE "rolling_back"
    BY <2>1, StatusTyped DEF TypeOK, Statuses
  <2>3. job' = Status(cur, "rolling_back") \/ job' = job
    BY <1>9 DEF Rollback
  <2> QED
    BY <1>9, <2>1, <2>2, <2>3 DEF Rollback, J, OwnStep, SameMove, library, stores, TypeOK,
       LibraryTyped, Begun
<1>10. CASE RestorePoints
  BY <1>10, AtWork DEF RestorePoints, Goto, J, OwnStep, SameMove, library, stores, TypeOK,
     LibraryTyped
<1>11. CASE RestoreParents
  BY <1>11, AtWork DEF RestoreParents, Goto, J, OwnStep, SameMove, library, stores, TypeOK,
     LibraryTyped
<1>12. CASE RestoreItem
  BY <1>12, AtWork DEF RestoreItem, Goto, Home, J, OwnStep, SameMove, library, stores, TypeOK,
     LibraryTyped
<1>13. CASE Finish
  <2>1. cur \in Job /\ job[cur] \in JobRow
    BY <1>13, AtWork DEF Finish, Goto, J
  <2> QED
    BY <1>13, <2>1 DEF Finish, OwnStep, SameMove, library, stores, TypeOK, RowsTyped, JobRow
<1> QED
  BY <1>1, <1>2, <1>3, <1>4, <1>5, <1>6, <1>7, <1>8, <1>9, <1>10, <1>11, <1>12, <1>13 DEF Work,
     Compensate

LEMMA QuietSteps ==
  ASSUME TypeOK, WorkerTyped', RowsSound, OneHeld, QuietNext
  PROVE  Quiet
<1>0. /\ Held \subseteq Job /\ Held' \subseteq Job
      /\ \A j \in Job : j \in Held <=> job[j].status \in Begun \/ cur = j
      /\ \A j \in Job : j \in Held' <=> job'[j].status \in Begun \/ cur' = j
  BY HeldJobs, HeldNext DEF TypeOK
<1>1. ASSUME NEW i \in Item, Archive(i) PROVE Quiet
  BY <1>0, <1>1 DEF Archive, Quiet, SameMove, library, stores, process, TypeOK, LibraryTyped
<1>2. ASSUME NEW i \in Item, Purge(i) PROVE Quiet
  <2>1. cur' = cur
    BY <1>2 DEF Purge, process
  <2>2. \A k \in Job : job[k] \in JobRow
    BY DEF TypeOK, RowsTyped
  <2>3. \A k \in Job : /\ SameMove(k)
                       /\ job[k].code \in Marks => job'[k].code \in Marks
                       /\ job'[k].status \in Begun => job[k].status \in Begun
    BY <1>2, <2>2 DEF Purge, SameMove, JobRow, Marks, Begun, RowsSound
  <2>4. Held' \subseteq Held
    BY <1>0, <2>1, <2>3
  <2> QED
    BY <1>2, <2>3, <2>4 DEF Purge, Quiet, library, stores, TypeOK, LibraryTyped
<1>3. ASSUME NEW i \in Item, NEW c \in Category, Restore(i, c) PROVE Quiet
  BY <1>0, <1>3 DEF Restore, Quiet, SameMove, library, stores, process, TypeOK, LibraryTyped
<1>4. ASSUME NEW i \in Item, NEW c \in Category, NEW j \in Job, Create(i, c, j) PROVE Quiet
  <2>0. j \in Nat /\ job[j] \in JobRow
    BY DEF TypeOK, RowsTyped, Job
  <2>1. job[j].status = "absent" /\ job'[j].status = "pending" /\ cur' = cur
    BY <1>4, <2>0 DEF Create, Fresh, TypeOK, RowsTyped
  <2>2. \A k \in Job \ {j} : job'[k] = job[k]
    BY <1>4 DEF Create, TypeOK, RowsTyped
  <2>3. job[j].code = "none"
    BY <2>1 DEF RowsSound
  <2>4. Held' \subseteq Held
    BY <1>0, <2>1, <2>2 DEF Begun
  <2> QED
    BY <1>4, <2>1, <2>2, <2>3, <2>4 DEF Create, Quiet, SameMove, library, stores, process, TypeOK,
       LibraryTyped, Marks
<1>5. ASSUME NEW c \in Category, Rename(c) PROVE Quiet
  BY <1>0, <1>5 DEF Rename, Quiet, SameMove, library, stores, process, TypeOK, LibraryTyped
<1>6. ASSUME NEW c \in Category, ForceDelete(c) PROVE Quiet
  <2>1. cur' = cur
    BY <1>6 DEF ForceDelete, process
  <2>2. \A k \in Job : job[k] \in JobRow
    BY DEF TypeOK, RowsTyped
  <2>3. \A k \in Job : /\ SameMove(k)
                       /\ job[k].code \in Marks => job'[k].code \in Marks
                       /\ job'[k].status \in Begun => job[k].status \in Begun
    BY <1>6, <2>2 DEF ForceDelete, SameMove, JobRow, Marks, Begun, RowsSound
  <2>4. Held' \subseteq Held
    BY <1>0, <2>1, <2>3
  <2> QED
    BY <1>6, <2>3, <2>4 DEF ForceDelete, Quiet, library, stores, TypeOK, LibraryTyped
<1>7. ASSUME Crash PROVE Quiet
  <2>1. cur' = None /\ None \notin Job
    BY <1>7, HeldJobs DEF Crash, TypeOK
  <2> QED
    BY <1>0, <1>7, <2>1 DEF Crash, Quiet, SameMove, library, stores, process, TypeOK, LibraryTyped
<1>8. ASSUME Boot PROVE Quiet
  <2>1. cur' = cur
    BY <1>8 DEF Boot, process
  <2>2. \A k \in Job : job[k] \in JobRow
    BY DEF TypeOK, RowsTyped
  <2>3. \A k \in Job : /\ SameMove(k)
                       /\ job[k].code \in Marks => job'[k].code \in Marks
                       /\ job'[k].status \in Begun => job[k].status \in Begun
    BY <1>8, <2>2 DEF Boot, SameMove, JobRow, Marks, Begun, RowsSound
  <2>4. Held' \subseteq Held
    BY <1>0, <2>1, <2>3
  <2> QED
    BY <1>8, <2>3, <2>4 DEF Boot, Quiet, library, stores, TypeOK, LibraryTyped
<1>9. ASSUME Serve PROVE Quiet
  BY <1>0, <1>9 DEF Serve, Quiet, SameMove, library, stores, process, TypeOK, LibraryTyped
<1>10. ASSUME NEW j \in Job, Recover(j) PROVE Quiet
  <2>1. job[j].status \in Begun
    BY <1>10 DEF Recover, Recoverable, Begun
  <2> QED
    BY <1>0, <1>10, <2>1 DEF Recover, Quiet, SameMove, library, stores, process, TypeOK,
       LibraryTyped
<1> QED
  BY <1>1, <1>2, <1>3, <1>4, <1>5, <1>6, <1>7, <1>8, <1>9, <1>10 DEF QuietNext

LEMMA HeldOwn ==
  ASSUME TypeOK, TypeOK', RowsSound, OneHeld, OwnStep(cur), mode' = mode,
         pc # "idle", cur' = cur, pc' # "idle", pc' \in Backward \/ pc \in Forward,
         \/ job'[cur].status \in Begun \cup {"deleted"}
         \/ job'[cur].status = "failed" /\ job'[cur].code = "forced"
  PROVE  OneHeld'
<1>1. cur \in Job /\ Held = {cur} /\ None \notin Job
  BY AtWork, HeldJobs DEF TypeOK
<1>2. /\ Held \subseteq Job /\ Held' \subseteq Job
      /\ \A j \in Job : j \in Held <=> job[j].status \in Begun \/ cur = j
      /\ \A j \in Job : j \in Held' <=> job'[j].status \in Begun \/ cur' = j
      /\ Recoverable' = {j \in Job : job'[j].status \in Begun}
  BY HeldJobs, HeldNext DEF TypeOK
<1>3. \A j \in Job \ {cur} : job'[j].status \notin Begun
  BY <1>1, <1>2 DEF OwnStep
<1>4. Held' \subseteq {cur} /\ Recoverable' \subseteq {cur}
  BY <1>2, <1>3
<1>5. pc \in Forward \cup Backward /\ pc' \in Forward \cup Backward
  BY DEF TypeOK, WorkerTyped
<1>6. mode' # "down" /\ (mode' = "booting" => pc' \notin Forward)
  BY <1>5 DEF OneHeld, Forward, Backward
<1> QED
  BY <1>1, <1>4, <1>6 DEF OneHeld

(* A job whose worker is done is not held, and then none is. *)
LEMMA HeldDone ==
  ASSUME TypeOK, TypeOK', RowsSound, OneHeld, OwnStep(cur), pc # "idle",
         mode' = mode, cur' = None, pc' = "idle", job'[cur].status \notin Begun
  PROVE  OneHeld' /\ Held' = {}
<1>1. cur \in Job /\ Held = {cur} /\ None \notin Job
  BY AtWork, HeldJobs DEF TypeOK
<1>2. /\ Held \subseteq Job /\ Held' \subseteq Job
      /\ \A j \in Job : j \in Held <=> job[j].status \in Begun \/ cur = j
      /\ \A j \in Job : j \in Held' <=> job'[j].status \in Begun \/ cur' = j
      /\ Recoverable' = {j \in Job : job'[j].status \in Begun}
  BY HeldJobs, HeldNext DEF TypeOK
<1>3. \A j \in Job : job'[j].status \notin Begun
  BY <1>1, <1>2 DEF OwnStep
<1>4. Held' = {} /\ Recoverable' = {}
  BY <1>1, <1>2, <1>3
<1> QED
  BY <1>4 DEF OneHeld, Forward

(* A request leaves the worker alone. *)
LEMMA HeldRequest ==
  ASSUME TypeOK, TypeOK', OneHeld, mode = "up", mode' = mode, pc' = pc, cur' = cur,
         \A j \in Job : job'[j].status \in Begun => job[j].status \in Begun,
         cur # None => \/ job'[cur].status \in Begun \cup {"deleted"}
                       \/ job'[cur].status = "failed" /\ job'[cur].code = "forced"
  PROVE  OneHeld'
<1>2. /\ Held \subseteq Job /\ Held' \subseteq Job
      /\ \A j \in Job : j \in Held <=> job[j].status \in Begun \/ cur = j
      /\ \A j \in Job : j \in Held' <=> job'[j].status \in Begun \/ cur' = j
      /\ Recoverable = {j \in Job : job[j].status \in Begun}
      /\ Recoverable' = {j \in Job : job'[j].status \in Begun}
  BY HeldJobs, HeldNext DEF TypeOK
<1>3. Held' \subseteq Held /\ Recoverable' \subseteq Recoverable
  BY <1>2
<1> QED
  BY <1>3 DEF OneHeld

LEMMA HeldStep ==
  ASSUME TypeOK, TypeOK', RowsSound, Erased, OneHeld, Next
  PROVE  OneHeld'
<1>0. /\ Held \subseteq Job /\ Held' \subseteq Job /\ None \notin Job
      /\ \A j \in Job : j \in Held <=> job[j].status \in Begun \/ cur = j
      /\ \A j \in Job : j \in Held' <=> job'[j].status \in Begun \/ cur' = j
      /\ Recoverable = {j \in Job : job[j].status \in Begun}
      /\ Recoverable' = {j \in Job : job'[j].status \in Begun}
  BY HeldJobs, HeldNext DEF TypeOK
<1>1. ASSUME NEW i \in Item, Archive(i) PROVE OneHeld'
  <2>1. job' = job /\ mode = "up" /\ mode' = mode /\ pc' = pc /\ cur' = cur
    BY <1>1 DEF Archive, process
  <2> QED
    BY <2>1, HeldRequest DEF OneHeld
<1>2. ASSUME NEW i \in Item, Publish(i) PROVE OneHeld'
  <2>1. job' = job /\ mode = "up" /\ mode' = mode /\ pc' = pc /\ cur' = cur
    BY <1>2 DEF Publish, process
  <2> QED
    BY <2>1, HeldRequest DEF OneHeld
<1>3. ASSUME NEW i \in Item, Purge(i) PROVE OneHeld'
  <2>1. mode = "up" /\ mode' = mode /\ pc' = pc /\ cur' = cur
    BY <1>3 DEF Purge, process
  <2>2. \A k \in Job : job[k] \in JobRow
    BY DEF TypeOK, RowsTyped
  <2>3. \A k \in Job :
          /\ job'[k].status \in Begun => job[k].status \in Begun
          /\ \/ job[k].status \in Begun \cup {"deleted"}
             \/ job[k].status = "failed" /\ job[k].code = "forced"
             => \/ job'[k].status \in Begun \cup {"deleted"}
                \/ job'[k].status = "failed" /\ job'[k].code = "forced"
    BY <1>3, <2>2 DEF Purge, JobRow, Begun
  <2> QED
    BY <2>1, <2>3, HeldRequest DEF OneHeld, TypeOK, WorkerTyped
<1>4. ASSUME NEW i \in Item, NEW c \in Category, Restore(i, c) PROVE OneHeld'
  <2>1. job' = job /\ mode = "up" /\ mode' = mode /\ pc' = pc /\ cur' = cur
    BY <1>4 DEF Restore, process
  <2> QED
    BY <2>1, HeldRequest DEF OneHeld
<1>5. ASSUME NEW i \in Item, NEW c \in Category, NEW j \in Job, Create(i, c, j) PROVE OneHeld'
  <2>0. j \in Nat /\ job[j] \in JobRow
    BY DEF TypeOK, RowsTyped, Job
  <2>1. job[j].status = "absent" /\ job'[j].status = "pending" /\ cur' = cur /\ pc' = pc
    BY <1>5, <2>0 DEF Create, Fresh, TypeOK, RowsTyped
  <2>2. /\ \A k \in Job \ {j} : job'[k] = job[k]
        /\ mode = "up" /\ mode' = mode
    BY <1>5 DEF Create, TypeOK, RowsTyped
  <2>3. cur # j
    BY <2>1, HeldJobs DEF OneHeld, Begun, TypeOK
  <2> QED
    BY <2>1, <2>2, <2>3, HeldRequest DEF OneHeld, Begun, TypeOK, WorkerTyped
<1>6. ASSUME NEW c \in Category, Rename(c) PROVE OneHeld'
  <2>1. job' = job /\ mode = "up" /\ mode' = mode /\ pc' = pc /\ cur' = cur
    BY <1>6 DEF Rename, process
  <2> QED
    BY <2>1, HeldRequest DEF OneHeld
<1>7. ASSUME NEW c \in Category, ForceDelete(c) PROVE OneHeld'
  <2>1. mode = "up" /\ mode' = mode /\ pc' = pc /\ cur' = cur
    BY <1>7 DEF ForceDelete, process
  <2>2. \A k \in Job : job[k] \in JobRow
    BY DEF TypeOK, RowsTyped
  <2>3. \A k \in Job :
          /\ job'[k].status \in Begun => job[k].status \in Begun
          /\ \/ job[k].status \in Begun \cup {"deleted"}
             \/ job[k].status = "failed" /\ job[k].code = "forced"
             => \/ job'[k].status \in Begun \cup {"deleted"}
                \/ job'[k].status = "failed" /\ job'[k].code = "forced"
    BY <1>7, <2>2 DEF ForceDelete, JobRow, Begun
  <2> QED
    BY <2>1, <2>3, HeldRequest DEF OneHeld, TypeOK, WorkerTyped
<1>8. ASSUME Begin PROVE OneHeld'
  <2>0. Head(queue) \in Job
    BY <1>8 DEF Begin, TypeOK, WorkerTyped
  <2>1. Held = {} /\ cur = None /\ \A j \in Job : job[j].status \notin Begun
    BY <1>8, NoneHeld DEF Begin
  <2>2. CASE job[Head(queue)].status = "pending"
    <3>1. /\ \A k \in Job \ {Head(queue)} : job'[k] = job[k]
          /\ job'[Head(queue)].status = "applying"
      BY <1>8, <2>0, <2>2, StatusTyped DEF Begin, TypeOK, Statuses
    <3>2. cur' = Head(queue) /\ pc' = "prepare" /\ mode = "up" /\ mode' = mode
      BY <1>8, <2>2 DEF Begin
    <3>3. Held' = {Head(queue)} /\ Recoverable' = {Head(queue)} /\ None \notin Job
      BY <1>0, <2>0, <2>1, <3>1, <3>2 DEF Begun
    <3> QED
      BY <2>0, <3>1, <3>2, <3>3 DEF OneHeld, Begun
  <2>3. CASE job[Head(queue)].status # "pending"
    <3>1. job' = job /\ cur' = cur /\ pc' = pc /\ mode = "up" /\ mode' = mode
      BY <1>8, <2>3 DEF Begin
    <3> QED
      BY <3>1, HeldRequest DEF OneHeld
  <2> QED
    BY <2>2, <2>3
<1>9. ASSUME mode = "up", Prepare PROVE OneHeld'
  <2>1. /\ job' = job /\ mode' = mode /\ cur' = cur /\ pc # "idle" /\ pc' # "idle"
        /\ pc \in Forward \/ pc' \in Backward
    BY <1>9 DEF Prepare, Goto, Idle, Forward, Backward
  <2>2. cur # None
    BY <2>1 DEF OneHeld
  <2> QED
    BY <1>9, <2>1, <2>2, OwnSteps, HeldOwn DEF OneHeld, Work, Compensate
<1>10. ASSUME mode = "up", PatchPoints PROVE OneHeld'
  <2>1. /\ job' = job /\ mode' = mode /\ cur' = cur /\ pc # "idle" /\ pc' # "idle"
        /\ pc \in Forward \/ pc' \in Backward
    BY <1>10 DEF PatchPoints, Goto, Idle, Forward, Backward
  <2>2. cur # None
    BY <2>1 DEF OneHeld
  <2> QED
    BY <1>10, <2>1, <2>2, OwnSteps, HeldOwn DEF OneHeld, Work, Compensate
<1>11. ASSUME mode = "up", PatchParents PROVE OneHeld'
  <2>1. /\ job' = job /\ mode' = mode /\ cur' = cur /\ pc # "idle" /\ pc' # "idle"
        /\ pc \in Forward \/ pc' \in Backward
    BY <1>11 DEF PatchParents, Goto, Idle, Forward, Backward
  <2>2. cur # None
    BY <2>1 DEF OneHeld
  <2> QED
    BY <1>11, <2>1, <2>2, OwnSteps, HeldOwn DEF OneHeld, Work, Compensate
<1>12. ASSUME mode = "up", CommitItem PROVE OneHeld'
  <2>1. mode' = mode /\ cur' = cur /\ pc = "app" /\ pc' = "swap" /\ OwnStep(cur)
    BY <1>12, OwnSteps DEF CommitItem, Goto, Idle, Work
  <2>2. job'[cur].status \in Begun \cup {"deleted"}
    BY <1>12, <2>1, AtWork, StatusTyped DEF CommitItem, TypeOK, Statuses, Begun
  <2> QED
    BY <2>1, <2>2, HeldOwn DEF Forward
<1>13. ASSUME mode = "up", SwapOut PROVE OneHeld'
  <2>1. /\ job' = job /\ mode' = mode /\ cur' = cur /\ pc # "idle" /\ pc' # "idle"
        /\ pc \in Forward \/ pc' \in Backward
    BY <1>13 DEF SwapOut, Goto, Idle, Forward, Backward
  <2>2. cur # None
    BY <2>1 DEF OneHeld
  <2> QED
    BY <1>13, <2>1, <2>2, OwnSteps, HeldOwn DEF OneHeld, Work, Compensate
<1>14. ASSUME mode = "up", SwapIn PROVE OneHeld'
  <2>1. /\ job' = job /\ mode' = mode /\ cur' = cur /\ pc # "idle" /\ pc' # "idle"
        /\ pc \in Forward \/ pc' \in Backward
    BY <1>14 DEF SwapIn, Goto, Idle, Forward, Backward
  <2>2. cur # None
    BY <2>1 DEF OneHeld
  <2> QED
    BY <1>14, <2>1, <2>2, OwnSteps, HeldOwn DEF OneHeld, Work, Compensate
<1>15. ASSUME mode = "up", Complete PROVE OneHeld'
  <2>1. mode' = mode /\ cur' = None /\ pc # "idle" /\ pc' = "idle" /\ OwnStep(cur)
    BY <1>15, OwnSteps DEF Complete, Goto, Work
  <2>2. job'[cur].status = "succeeded"
    BY <1>15, <2>1, AtWork DEF Complete, TypeOK, RowsTyped, JobRow
  <2> QED
    BY <2>1, <2>2, HeldDone DEF Begun
<1>16. ASSUME Err PROVE OneHeld'
  <2>1. /\ job' = job /\ mode' = mode /\ cur' = cur /\ pc # "idle" /\ pc' # "idle"
        /\ pc \in Forward \/ pc' \in Backward
    BY <1>16 DEF Err, Goto, Idle, Forward, Backward
  <2>2. cur # None
    BY <2>1 DEF OneHeld
  <2> QED
    BY <1>16, <2>1, <2>2, OwnSteps, HeldOwn DEF OneHeld, Work, Compensate
<1>17. ASSUME Rollback PROVE OneHeld'
  <2>1. mode' = mode /\ pc # "idle" /\ OwnStep(cur)
    BY <1>17, OwnSteps DEF Rollback, Compensate
  <2>2. CASE J.status \in {"succeeded", "deleted"}
    <3>1. pc' = "idle" /\ cur' = None /\ job' = job
      BY <1>17, <2>2 DEF Rollback
    <3> QED
      BY <2>1, <2>2, <3>1, HeldDone DEF Begun, J
  <2>3. CASE J.status \notin {"succeeded", "deleted"}
    <3>1. pc' = "rqdrant" /\ cur' = cur /\ job' = Status(cur, "rolling_back")
      BY <1>17, <2>3 DEF Rollback
    <3>2. job'[cur].status \in Begun \cup {"deleted"}
      BY <2>1, <3>1, AtWork, StatusTyped DEF TypeOK, Statuses, Begun
    <3> QED
      BY <2>1, <3>1, <3>2, HeldOwn DEF Backward
  <2> QED
    BY <2>2, <2>3
<1>18. ASSUME RestorePoints PROVE OneHeld'
  <2>1. /\ job' = job /\ mode' = mode /\ cur' = cur /\ pc # "idle" /\ pc' # "idle"
        /\ pc \in Forward \/ pc' \in Backward
    BY <1>18 DEF RestorePoints, Goto, Idle, Forward, Backward
  <2>2. cur # None
    BY <2>1 DEF OneHeld
  <2> QED
    BY <1>18, <2>1, <2>2, OwnSteps, HeldOwn DEF OneHeld, Work, Compensate
<1>19. ASSUME RestoreParents PROVE OneHeld'
  <2>1. /\ job' = job /\ mode' = mode /\ cur' = cur /\ pc # "idle" /\ pc' # "idle"
        /\ pc \in Forward \/ pc' \in Backward
    BY <1>19 DEF RestoreParents, Goto, Idle, Forward, Backward
  <2>2. cur # None
    BY <2>1 DEF OneHeld
  <2> QED
    BY <1>19, <2>1, <2>2, OwnSteps, HeldOwn DEF OneHeld, Work, Compensate
<1>20. ASSUME RestoreItem PROVE OneHeld'
  <2>1. /\ job' = job /\ mode' = mode /\ cur' = cur /\ pc # "idle" /\ pc' # "idle"
        /\ pc \in Forward \/ pc' \in Backward
    BY <1>20 DEF RestoreItem, Goto, Idle, Forward, Backward
  <2>2. cur # None
    BY <2>1 DEF OneHeld
  <2> QED
    BY <1>20, <2>1, <2>2, OwnSteps, HeldOwn DEF OneHeld, Work, Compensate
<1>21. ASSUME Finish PROVE OneHeld'
  <2>1. mode' = mode /\ cur' = None /\ pc # "idle" /\ pc' = "idle" /\ OwnStep(cur)
    BY <1>21, OwnSteps DEF Finish, Goto, Compensate
  <2>2. job'[cur].status \in {"failed", "deleted"}
    BY <1>21, <2>1, AtWork DEF Finish, TypeOK, RowsTyped, JobRow
  <2> QED
    BY <2>1, <2>2, HeldDone DEF Begun
<1>22. ASSUME Crash PROVE OneHeld'
  <2>1. job' = job /\ mode' = "down" /\ pc' = "idle" /\ cur' = None
    BY <1>22 DEF Crash
  <2>2. Held' \subseteq Held
    BY <1>0, <2>1
  <2> QED
    BY <2>1, <2>2 DEF OneHeld
<1>23. ASSUME Boot PROVE OneHeld'
  <2>1. /\ mode = "down" /\ mode' = "booting" /\ pc' = pc /\ cur' = cur
        /\ \A j \in Job : job'[j].status \in Begun => job[j].status \in Begun
    BY <1>23 DEF Boot, TypeOK, RowsTyped, JobRow, Begun
  <2>2. pc = "idle" /\ cur = None
    BY <2>1 DEF OneHeld
  <2>3. Held' \subseteq Held
    BY <1>0, <2>1
  <2> QED
    BY <2>1, <2>2, <2>3 DEF OneHeld, Forward
<1>24. ASSUME Serve PROVE OneHeld'
  <2>1. /\ pc = "idle" /\ mode' = "up" /\ job' = job /\ pc' = pc /\ cur' = cur
        /\ Recoverable = {}
    BY <1>24 DEF Serve
  <2>2. Held' \subseteq Held /\ Recoverable' = {}
    BY <1>0, <2>1
  <2> QED
    BY <2>1, <2>2 DEF OneHeld
<1>25. ASSUME NEW j \in Job, Recover(j) PROVE OneHeld'
  <2>1. /\ mode = "booting" /\ mode' = mode /\ pc' = "compensate" /\ cur' = j /\ job' = job
        /\ job[j].status \in Begun
    BY <1>25 DEF Recover, Recoverable, Begun
  <2>2. Held' \subseteq Held
    BY <1>0, <2>1
  <2> QED
    BY <1>0, <2>1, <2>2 DEF OneHeld, Forward
<1> QED
  BY <1>1, <1>2, <1>3, <1>4, <1>5, <1>6, <1>7, <1>8, <1>9, <1>10, <1>11, <1>12, <1>13, <1>14,
     <1>15, <1>16, <1>17, <1>18, <1>19, <1>20, <1>21, <1>22, <1>23, <1>24, <1>25 DEF Next, Work,
     Compensate, Restart

LEMMA BeginOwn ==
  ASSUME TypeOK, OneHeld, Begin, job[Head(queue)].status = "pending"
  PROVE  /\ Head(queue) \in Job /\ OwnStep(Head(queue)) /\ Held = {}
         /\ job'[Head(queue)].status = "applying" /\ job'[Head(queue)].code = job[Head(queue)].code
         /\ cur' = Head(queue) /\ pc' = "prepare"
<1>1. Head(queue) \in Job /\ Held = {}
  BY NoneHeld DEF Begin, TypeOK, WorkerTyped
<1>2. job' = Status(Head(queue), "applying") /\ cur' = Head(queue) /\ pc' = "prepare"
  BY DEF Begin
<1>3. /\ \A k \in Job \ {Head(queue)} : job'[k] = job[k]
      /\ SameMove(Head(queue)) /\ job'[Head(queue)].status = "applying"
      /\ job'[Head(queue)].code = job[Head(queue)].code
  BY <1>1, <1>2, StatusTyped DEF TypeOK, Statuses, SameMove
<1> QED
  BY <1>1, <1>2, <1>3 DEF Begin, OwnStep, library, stores, Begun

-----------------------------------------------------------------------------
(* The rows of the jobs, and the entries of purged documents. *)

LEMMA RowsOwn ==
  ASSUME RowsSound, NEW j \in Job, job[j].status # "absent", job'[j].status # "pending", OwnStep(j)
  PROVE  RowsSound'
<1>1. SUFFICES ASSUME NEW k \in Job
               PROVE  /\ job'[k].status = "absent" => job'[k].item = NoItem /\ job'[k].code = "none"
                      /\ job'[k].status # "absent" =>
                           /\ job'[k].item \in Item
                           /\ {job'[k].source.category, job'[k].target.category} \subseteq Category
                           /\ job'[k].source.category # job'[k].target.category
                      /\ job'[k].status = "pending" => job'[k].code = "none"
                      /\ job'[k].status = "deleted" => shelf'[job'[k].item] = "purged"
  BY DEF RowsSound
<1>2. CASE k # j
  BY <1>2 DEF RowsSound, OwnStep
<1>3. CASE k = j
  BY <1>3 DEF RowsSound, OwnStep, SameMove, Begun
<1> QED
  BY <1>2, <1>3

LEMMA RowsStep ==
  ASSUME TypeOK, RowsSound, Erased, OneHeld, Next
  PROVE  RowsSound'
<1>1. CASE \/ mode = "up" /\ Prepare
           \/ mode = "up" /\ PatchPoints
           \/ mode = "up" /\ PatchParents
           \/ mode = "up" /\ CommitItem
           \/ mode = "up" /\ SwapOut
           \/ mode = "up" /\ SwapIn
           \/ mode = "up" /\ Complete
           \/ Err
           \/ Rollback
           \/ RestorePoints
           \/ RestoreParents
           \/ RestoreItem
           \/ Finish
  <2>1. pc # "idle" /\ (Work \/ Err \/ Compensate)
    BY <1>1 DEF Work, Compensate, Prepare, PatchPoints, PatchParents, CommitItem, SwapOut, SwapIn,
       Complete, Err, Rollback, RestorePoints, RestoreParents, RestoreItem, Finish, Goto
  <2>2. cur \in Job /\ OwnStep(cur) /\ job[cur].status \notin {"absent", "pending"}
    BY <2>1, OwnSteps, AtWork DEF J
  <2>3. job'[cur].status # "pending"
    BY <2>2 DEF OwnStep, Begun
  <2> QED
    BY <2>2, <2>3, RowsOwn
<1>2. CASE \/ \E i \in Item : Archive(i)
           \/ \E i \in Item, c \in Category : Restore(i, c)
  BY <1>2 DEF Archive, Restore, RowsSound, TypeOK, LibraryTyped
<1>3. CASE \/ \E i \in Item : Publish(i)
           \/ \E c \in Category : Rename(c)
  BY <1>3 DEF Publish, Rename, RowsSound, TypeOK, LibraryTyped
<1>4. CASE \/ Crash
           \/ Serve
           \/ \E j \in Job : Recover(j)
  BY <1>4 DEF Crash, Serve, Recover, library, RowsSound
<1>5. ASSUME NEW i \in Item, Purge(i) PROVE RowsSound'
  <2>1. \A k \in Job : job[k] \in JobRow
    BY DEF TypeOK, RowsTyped
  <2>2. \A k \in Item : shelf[k] = "purged" \/ k = i => shelf'[k] = "purged"
    BY <1>5 DEF Purge, TypeOK, LibraryTyped
  <2>3. i # NoItem
    BY ReclassificationAssumption DEF ReclassificationAssumption
  <2> QED
    BY <1>5, <2>1, <2>2, <2>3 DEF Purge, RowsSound, JobRow
<1>6. ASSUME NEW i \in Item, NEW c \in Category, NEW j \in Job, Create(i, c, j) PROVE RowsSound'
  <2>0. j \in Nat /\ job[j] \in JobRow
    BY DEF TypeOK, RowsTyped, Job
  <2>1. /\ job'[j] = [item |-> i, source |-> Entry(where[i]), target |-> Entry(c),
                     status |-> "pending", code |-> "none"]
        /\ \A k \in Job \ {j} : job'[k] = job[k]
        /\ shelf' = shelf /\ c # where[i]
    BY <1>6, <2>0 DEF Create, library, TypeOK, RowsTyped
  <2>2. /\ Entry(where[i]).category \in Category /\ Entry(c).category \in Category
        /\ Entry(where[i]).category # Entry(c).category
    BY <2>1, EntryTyped DEF TypeOK, LibraryTyped
  <2> QED
    BY <2>1, <2>2 DEF RowsSound
<1>7. ASSUME NEW c \in Category, ForceDelete(c) PROVE RowsSound'
  <2>1. \A k \in Job : job[k] \in JobRow
    BY DEF TypeOK, RowsTyped
  <2>2. \A k \in Item : shelf[k] = "purged" => shelf'[k] = "purged"
    BY <1>7 DEF ForceDelete
  <2> QED
    BY ZenonT(60), <1>7, <2>1, <2>2 DEF ForceDelete, RowsSound, JobRow, Active
<1>8. ASSUME Begin PROVE RowsSound'
  <2>1. CASE job[Head(queue)].status = "pending"
    BY <1>8, <2>1, BeginOwn, RowsOwn
  <2>2. CASE job[Head(queue)].status # "pending"
    BY <1>8, <2>2 DEF Begin, library, RowsSound
  <2> QED
    BY <2>1, <2>2
<1>9. ASSUME Boot PROVE RowsSound'
  <2>1. \A k \in Job : job[k] \in JobRow
    BY DEF TypeOK, RowsTyped
  <2> QED
    BY <1>9, <2>1 DEF Boot, library, RowsSound, JobRow
<1> QED
  BY <1>1, <1>2, <1>3, <1>4, <1>5, <1>6, <1>7, <1>8, <1>9 DEF Next, Work, Compensate, Restart

LEMMA ErasedStep ==
  ASSUME TypeOK, RowsSound, Erased, OneHeld, Next
  PROVE  Erased'
<1>1. ASSUME NEW i \in Item, Archive(i) PROVE Erased'
  BY <1>1 DEF Archive, Erased, library, stores, TypeOK, LibraryTyped
<1>2. ASSUME NEW i \in Item, Publish(i) PROVE Erased'
  BY <1>2 DEF Publish, Erased, library, stores, TypeOK, LibraryTyped
<1>3. ASSUME NEW i \in Item, Purge(i) PROVE Erased'
  BY <1>3 DEF Purge, Erased, library, stores, TypeOK, LibraryTyped
<1>4. ASSUME NEW i \in Item, NEW c \in Category, Restore(i, c) PROVE Erased'
  BY <1>4 DEF Restore, Erased, library, stores, TypeOK, LibraryTyped
<1>5. ASSUME NEW i \in Item, NEW c \in Category, NEW j \in Job, Create(i, c, j) PROVE Erased'
  BY <1>5 DEF Create, Erased, library, stores, TypeOK, LibraryTyped
<1>6. ASSUME NEW c \in Category, Rename(c) PROVE Erased'
  BY <1>6 DEF Rename, Erased, library, stores, TypeOK, LibraryTyped
<1>7. ASSUME NEW c \in Category, ForceDelete(c) PROVE Erased'
  BY <1>7 DEF ForceDelete, Erased, library, stores, TypeOK, LibraryTyped
<1>8. ASSUME Begin PROVE Erased'
  BY <1>8 DEF Begin, Erased, library, stores, TypeOK, LibraryTyped
<1>9. ASSUME mode = "up", Prepare PROVE Erased'
  BY <1>9 DEF Prepare, Erased, library, stores, TypeOK, LibraryTyped
<1>10. ASSUME mode = "up", PatchPoints PROVE Erased'
  <2>1. J.source # Nowhere
    BY <1>10, AtWork, ReclassificationAssumption DEF PatchPoints, Goto, Nowhere,
       ReclassificationAssumption
  <2> QED
    BY <1>10, <2>1 DEF PatchPoints, library, Erased, TypeOK, LibraryTyped
<1>11. ASSUME mode = "up", PatchParents PROVE Erased'
  BY <1>11 DEF PatchParents, Erased, library, stores, TypeOK, LibraryTyped
<1>12. ASSUME mode = "up", CommitItem PROVE Erased'
  BY <1>12 DEF CommitItem, Erased, library, stores, TypeOK, LibraryTyped
<1>13. ASSUME mode = "up", SwapOut PROVE Erased'
  BY <1>13 DEF SwapOut, Erased, library, stores, TypeOK, LibraryTyped
<1>14. ASSUME mode = "up", SwapIn PROVE Erased'
  BY <1>14 DEF SwapIn, Erased, library, stores, TypeOK, LibraryTyped
<1>15. ASSUME mode = "up", Complete PROVE Erased'
  BY <1>15 DEF Complete, Erased, library, stores, TypeOK, LibraryTyped
<1>16. ASSUME Err PROVE Erased'
  <2>1. J.source # Nowhere
    BY <1>16, AtWork, ReclassificationAssumption DEF Err, Nowhere, ReclassificationAssumption
  <2>2. \/ points' = points
        \/ points[J.item] = J.source /\ points' = [points EXCEPT ![J.item] = J.target]
    BY <1>16 DEF Err
  <2> QED
    BY <1>16, <2>1, <2>2 DEF Err, library, Erased, TypeOK, LibraryTyped
<1>17. ASSUME Rollback PROVE Erased'
  BY <1>17 DEF Rollback, Erased, library, stores, TypeOK, LibraryTyped
<1>18. ASSUME RestorePoints PROVE Erased'
  <2>1. J.target # Nowhere
    BY <1>18, AtWork, ReclassificationAssumption DEF RestorePoints, Goto, Nowhere,
       ReclassificationAssumption
  <2> QED
    BY <1>18, <2>1 DEF RestorePoints, library, Erased, TypeOK, LibraryTyped
<1>19. ASSUME RestoreParents PROVE Erased'
  BY <1>19 DEF RestoreParents, Erased, library, stores, TypeOK, LibraryTyped
<1>20. ASSUME RestoreItem PROVE Erased'
  BY <1>20 DEF RestoreItem, Erased, library, stores, TypeOK, LibraryTyped
<1>21. ASSUME Finish PROVE Erased'
  BY <1>21 DEF Finish, Erased, library, stores, TypeOK, LibraryTyped
<1>22. ASSUME Crash PROVE Erased'
  BY <1>22 DEF Crash, Erased, library, stores, TypeOK, LibraryTyped
<1>23. ASSUME Boot PROVE Erased'
  BY <1>23 DEF Boot, Erased, library, stores, TypeOK, LibraryTyped
<1>24. ASSUME Serve PROVE Erased'
  BY <1>24 DEF Serve, Erased, library, stores, TypeOK, LibraryTyped
<1>25. ASSUME NEW j \in Job, Recover(j) PROVE Erased'
  BY <1>25 DEF Recover, Erased, library, stores, TypeOK, LibraryTyped
<1> QED
  BY <1>1, <1>2, <1>3, <1>4, <1>5, <1>6, <1>7, <1>8, <1>9, <1>10, <1>11, <1>12, <1>13, <1>14,
     <1>15, <1>16, <1>17, <1>18, <1>19, <1>20, <1>21, <1>22, <1>23, <1>24, <1>25 DEF Next, Work,
     Compensate, Restart

-----------------------------------------------------------------------------
(* Where the job at work has come to. *)

LEMMA OthersStill ==
  ASSUME NEW j \in Job, OwnStep(j), SplitByOther(j)
  PROVE  SplitByOther(j)'
  BY DEF OwnStep, SameMove, SplitByOther

LEMMA MovingOwn ==
  ASSUME NEW j \in Job, OwnStep(j), Held' \subseteq {j},
         shelf[job[j].item] = "served" /\ ~ SplitByOther(j) => Tracked(j)'
  PROVE  Moving'
<1>1. SUFFICES ASSUME NEW k \in Held', shelf'[job'[k].item] = "served", ~ SplitByOther(k)'
               PROVE  Tracked(k)'
  BY DEF Moving
<1>2. k = j
  OBVIOUS
<1>3. shelf[job[j].item] = "served"
  BY <1>1, <1>2 DEF OwnStep, SameMove
<1>4. ~ SplitByOther(j)
  BY <1>1, <1>2, OthersStill
<1> QED
  BY <1>2, <1>3, <1>4

LEMMA MovingQuiet ==
  ASSUME TypeOK, TypeOK', RowsSound, OneHeld, Moving, Quiet,
         \/ cur' = cur /\ pc' = pc /\ code' = code /\ view' = view /\ candidate' = candidate
         \/ cur' = None
         \/ pc' = "compensate"
  PROVE  Moving'
<1>1. SUFFICES ASSUME NEW j \in Held', shelf'[job'[j].item] = "served", ~ SplitByOther(j)'
               PROVE  Tracked(j)'
  BY DEF Moving
<1>2. j \in Held /\ j \in Job /\ j # None
  BY HeldJobs DEF Quiet, TypeOK
<1>3. /\ job[j].status # "absent" /\ SameMove(j)
      /\ job[j].item \in Item
  BY <1>2, HeldJobs DEF OneHeld, Quiet, RowsSound, Begun, TypeOK
<1>4. /\ shelf[job[j].item] = "served" /\ where'[job[j].item] = where[job[j].item]
      /\ points'[job[j].item] = points[job[j].item] /\ parents'[job[j].item] = parents[job[j].item]
  BY <1>1, <1>3 DEF Quiet, SameMove
<1>5. ~ SplitByOther(j)
  <2>1. SUFFICES ASSUME NEW k \in Job \ {j}, job[k].item = job[j].item, job[k].code \in Marks
                 PROVE  FALSE
    BY DEF SplitByOther
  <2>2. job[k].status # "absent"
    BY <1>3, <2>1 DEF RowsSound, Marks
  <2> QED
    BY <1>1, <1>3, <2>1, <2>2 DEF Quiet, SameMove, SplitByOther
<1>6. Tracked(j)
  BY <1>2, <1>4, <1>5 DEF Moving
<1>7. Whole(j)'
  BY <1>3, <1>4, <1>6 DEF Tracked, Whole, Between, SameMove
<1>8. ASSUME cur' = j PROVE Ahead(j)' /\ BackAt(j)'
  <2>1. CASE cur' = cur /\ pc' = pc /\ code' = code /\ view' = view /\ candidate' = candidate
    <3>1. Ahead(j) /\ BackAt(j)
      BY <1>6, <1>8, <2>1 DEF Tracked
    <3> QED
      BY <1>3, <1>4, <2>1, <3>1 DEF Ahead, BackAt, AtSource, SameMove
  <2>2. CASE pc' = "compensate"
    BY <2>2 DEF Ahead, BackAt
  <2> QED
    BY <1>2, <1>8, <2>1, <2>2
<1> QED
  BY <1>7, <1>8 DEF Tracked

(* The steps of the job at work, one by one. *)
LEMMA TrackedOwn ==
  ASSUME TypeOK, TypeOK', RowsSound, Erased, OneHeld, Moving, Work \/ Err \/ Compensate, cur' = cur,
         cur \in Job, shelf[job[cur].item] = "served", ~ SplitByOther(cur), NEW j \in Job, j = cur
  PROVE  Tracked(j)'
<1>1. /\ J.item \in Item /\ J = job[j] /\ J = job[cur] /\ pc # "idle"
      /\ J.source.category # J.target.category /\ J.source # J.target
  BY AtWork, HeldJobs DEF J, OneHeld, TypeOK
<1>2. SameMove(j) /\ OwnStep(j) /\ Tracked(j)
  BY <1>1, AtWork, OwnSteps DEF Moving, OwnStep
<1>3. Whole(j) /\ Ahead(j) /\ BackAt(j)
  BY <1>2 DEF Tracked
<1>4. /\ job'[j].item = J.item /\ job'[j].source = J.source /\ job'[j].target = J.target
  BY <1>1, <1>2 DEF SameMove
<1>5. CASE Prepare
  <2>1. Whole(j)'
    BY <1>1, <1>3, <1>4, <1>5 DEF Prepare, Home, library, stores, Whole, Between, TypeOK,
       LibraryTyped
  <2>2. Ahead(j)'
    <3> DEFINE w == [where EXCEPT ![J.item] = J.target.category]
    <3>1. w \in [Item -> Category] /\ w[J.item] = J.target.category
      BY <1>1, AtWork DEF TypeOK, LibraryTyped
    <3>2. Exported(w)[J.item] = J.target.category
      BY <1>1, <3>1, ExportedTyped
    <3>3. candidate'[J.item] = J.target.category /\ pc' = "qdrant"
      BY <1>5, <3>2 DEF Prepare, Goto
    <3> QED
      BY <1>4, <3>3 DEF Ahead
  <2>3. BackAt(j)'
    BY <1>1, <1>3, <1>4, <1>5
       DEF Prepare, Goto, Idle, library, stores, BackAt, AtSource, TypeOK, LibraryTyped
  <2> QED
    BY <2>1, <2>2, <2>3 DEF Tracked
<1>6. CASE PatchPoints
  <2>1. Whole(j)'
    BY <1>1, <1>3, <1>4, <1>6 DEF PatchPoints, Home, library, stores, Whole, Between, TypeOK,
       LibraryTyped
  <2>2. Ahead(j)'
    BY <1>1, <1>3, <1>4, <1>6 DEF PatchPoints, Goto, library, stores, Ahead, TypeOK, LibraryTyped
  <2>3. BackAt(j)'
    BY <1>1, <1>3, <1>4, <1>6
       DEF PatchPoints, Goto, Idle, library, stores, BackAt, AtSource, TypeOK, LibraryTyped
  <2> QED
    BY <2>1, <2>2, <2>3 DEF Tracked
<1>7. CASE PatchParents
  <2>1. Whole(j)'
    BY <1>1, <1>3, <1>4, <1>7 DEF PatchParents, Home, library, stores, Whole, Between, TypeOK,
       LibraryTyped
  <2>2. Ahead(j)'
    BY <1>1, <1>3, <1>4, <1>7 DEF PatchParents, Goto, library, stores, Ahead, TypeOK, LibraryTyped
  <2>3. BackAt(j)'
    BY <1>1, <1>3, <1>4, <1>7
       DEF PatchParents, Goto, Idle, library, stores, BackAt, AtSource, TypeOK, LibraryTyped
  <2> QED
    BY <2>1, <2>2, <2>3 DEF Tracked
<1>8. CASE CommitItem
  <2>1. Whole(j)'
    BY <1>1, <1>3, <1>4, <1>8 DEF CommitItem, Home, library, stores, Whole, Between, TypeOK,
       LibraryTyped
  <2>2. Ahead(j)'
    BY <1>1, <1>3, <1>4, <1>8 DEF CommitItem, Goto, library, stores, Ahead, TypeOK, LibraryTyped
  <2>3. BackAt(j)'
    BY <1>1, <1>3, <1>4, <1>8
       DEF CommitItem, Goto, Idle, library, stores, BackAt, AtSource, TypeOK, LibraryTyped
  <2> QED
    BY <2>1, <2>2, <2>3 DEF Tracked
<1>9. CASE SwapOut
  <2>1. Whole(j)'
    BY <1>1, <1>3, <1>4, <1>9 DEF SwapOut, Home, library, stores, Whole, Between, TypeOK,
       LibraryTyped
  <2>2. Ahead(j)'
    BY <1>1, <1>3, <1>4, <1>9 DEF SwapOut, Goto, library, stores, Ahead, TypeOK, LibraryTyped
  <2>3. BackAt(j)'
    BY <1>1, <1>3, <1>4, <1>9
       DEF SwapOut, Goto, Idle, library, stores, BackAt, AtSource, TypeOK, LibraryTyped
  <2> QED
    BY <2>1, <2>2, <2>3 DEF Tracked
<1>10. CASE SwapIn
  <2>1. Whole(j)'
    BY <1>1, <1>3, <1>4, <1>10 DEF SwapIn, Home, library, stores, Whole, Between, TypeOK,
       LibraryTyped
  <2>2. Ahead(j)'
    BY <1>1, <1>3, <1>4, <1>10 DEF SwapIn, Goto, library, stores, Ahead, TypeOK, LibraryTyped
  <2>3. BackAt(j)'
    BY <1>1, <1>3, <1>4, <1>10
       DEF SwapIn, Goto, Idle, library, stores, BackAt, AtSource, TypeOK, LibraryTyped
  <2> QED
    BY <2>1, <2>2, <2>3 DEF Tracked
<1>11. CASE Err
  <2>1. Whole(j)'
    BY <1>1, <1>3, <1>4, <1>11 DEF Err, Home, library, stores, Whole, Between, TypeOK, LibraryTyped
  <2>2. Ahead(j)'
    BY <1>1, <1>3, <1>4, <1>11 DEF Err, Goto, library, stores, Ahead, TypeOK, LibraryTyped
  <2>3. BackAt(j)'
    BY <1>1, <1>3, <1>4, <1>11
       DEF Err, Goto, Idle, library, stores, BackAt, AtSource, TypeOK, LibraryTyped
  <2> QED
    BY <2>1, <2>2, <2>3 DEF Tracked
<1>12. CASE Rollback
  <2>1. Whole(j)'
    BY <1>1, <1>3, <1>4, <1>12 DEF Rollback, Home, library, stores, Whole, Between, TypeOK,
       LibraryTyped
  <2>2. Ahead(j)'
    BY <1>1, <1>3, <1>4, <1>12 DEF Rollback, Goto, library, stores, Ahead, TypeOK, LibraryTyped
  <2>3. BackAt(j)'
    BY <1>1, <1>3, <1>4, <1>12
       DEF Rollback, Goto, Idle, library, stores, BackAt, AtSource, TypeOK, LibraryTyped
  <2> QED
    BY <2>1, <2>2, <2>3 DEF Tracked
<1>13. CASE RestorePoints
  <2>1. Whole(j)'
    BY <1>1, <1>3, <1>4, <1>13 DEF RestorePoints, Home, library, stores, Whole, Between, TypeOK,
       LibraryTyped
  <2>2. Ahead(j)'
    BY <1>1, <1>3, <1>4, <1>13 DEF RestorePoints, Goto, library, stores, Ahead, TypeOK, LibraryTyped
  <2>3. BackAt(j)'
    BY <1>1, <1>3, <1>4, <1>13
       DEF RestorePoints, Goto, Failed, library, stores, BackAt, AtSource, TypeOK, LibraryTyped
  <2> QED
    BY <2>1, <2>2, <2>3 DEF Tracked
<1>14. CASE RestoreParents
  <2>1. Whole(j)'
    BY <1>1, <1>3, <1>4, <1>14 DEF RestoreParents, Home, library, stores, Whole, Between, TypeOK,
       LibraryTyped
  <2>2. Ahead(j)'
    BY <1>1, <1>3, <1>4, <1>14 DEF RestoreParents, Goto, library, stores, Ahead, TypeOK,
       LibraryTyped
  <2>3. BackAt(j)'
    BY <1>1, <1>3, <1>4, <1>14
       DEF RestoreParents, Goto, Failed, library, stores, BackAt, AtSource, TypeOK, LibraryTyped
  <2> QED
    BY <2>1, <2>2, <2>3 DEF Tracked
<1>15. CASE RestoreItem
  <2>1. Whole(j)'
    BY <1>1, <1>3, <1>4, <1>15 DEF RestoreItem, Home, library, stores, Whole, Between, TypeOK,
       LibraryTyped
  <2>2. Ahead(j)'
    BY <1>1, <1>3, <1>4, <1>15 DEF RestoreItem, Goto, library, stores, Ahead, TypeOK, LibraryTyped
  <2>3. BackAt(j)'
    <3>1. CASE Failed
      BY <3>1 DEF Failed, BackAt
    <3>2. CASE ~ Failed /\ code = "rollback_failed"
      BY <1>15, <3>2 DEF RestoreItem, BackAt
    <3>3. CASE ~ Failed /\ code # "rollback_failed"
      <4>1. points[J.item] = J.source /\ parents[J.item] = J.source
        BY <1>1, <1>3, <1>15, <3>3 DEF RestoreItem, Goto, BackAt, AtSource
      <4>2. where[J.item] \in {J.source.category, J.target.category}
        BY <1>1, <1>3, <4>1 DEF Whole, Between
      <4>3. Home \in [Item -> Category] /\ Home[J.item] = J.source.category
        BY <1>1, <4>2, AtWork DEF Home, TypeOK, LibraryTyped
      <4>4. Exported(Home)[J.item] = J.source.category
        BY <1>1, <4>3, ExportedTyped
      <4>5. /\ where' = Home /\ view' = Exported(Home) /\ UNCHANGED stores
        BY <1>15, <3>3 DEF RestoreItem
      <4> QED
        BY <1>4, <4>1, <4>3, <4>4, <4>5 DEF stores, BackAt, AtSource
    <3> QED
      BY <3>1, <3>2, <3>3
  <2> QED
    BY <2>1, <2>2, <2>3 DEF Tracked
<1>16. CASE Complete \/ Finish
  BY <1>16, HeldJobs DEF Complete, Finish, Goto, TypeOK
<1> QED
  BY <1>5, <1>6, <1>7, <1>8, <1>9, <1>10, <1>11, <1>12, <1>13, <1>14, <1>15, <1>16 DEF Work,
     Compensate

(* How the row of a job ends. *)
LEMMA CompleteRow ==
  ASSUME RowsTyped, cur \in Job, Complete
  PROVE  job'[cur].status = "succeeded" /\ job'[cur].code = "none"
  BY DEF Complete, RowsTyped, JobRow

LEMMA FinishRow ==
  ASSUME RowsTyped, cur \in Job, Finish
  PROVE  /\ job'[cur].status = IF job[cur].status = "deleted" THEN "deleted" ELSE "failed"
         /\ job[cur].status # "deleted" => job'[cur].code = code
  BY DEF Finish, RowsTyped, JobRow

LEMMA MovingStep ==
  ASSUME TypeOK, TypeOK', RowsSound, Erased, OneHeld, OneHeld', Moving, StoresAgree,
         Next
  PROVE  Moving'
<1>1. CASE QuietNext
  <2>1. Quiet
    BY <1>1, QuietSteps DEF TypeOK
  <2>2. \/ cur' = cur /\ pc' = pc /\ code' = code /\ view' = view /\ candidate' = candidate
        \/ cur' = None
        \/ pc' = "compensate"
    BY <1>1 DEF QuietNext, Archive, Purge, Restore, Create, Rename, ForceDelete, Crash, Boot, Serve,
       Recover, process
  <2> QED
    BY <2>1, <2>2, MovingQuiet
<1>2. ASSUME NEW i \in Item, Publish(i) PROVE Moving'
  <2>1. Held = {}
    BY <1>2, NoneHeld DEF Publish
  <2>2. job' = job /\ cur' = cur
    BY <1>2 DEF Publish, process
  <2>3. Held' = {}
    BY <2>1, <2>2 DEF Held, Recoverable
  <2> QED
    BY <2>3 DEF Moving
<1>3. CASE Begin
  <2>1. CASE job[Head(queue)].status = "pending"
    <3>0. PICK j \in Job : j = Head(queue)
      BY <1>3, <2>1, BeginOwn
    <3>1. /\ OwnStep(j) /\ Held = {} /\ cur' = j /\ pc' = "prepare"
          /\ job'[j].status = "applying"
          /\ job[j].code = "none" /\ job[j].item \in Item
      BY <1>3, <2>1, <3>0, BeginOwn DEF RowsSound
    <3>2. Held' \subseteq {j}
      BY <3>1, HeldNext, HeldJobs DEF OneHeld, TypeOK
    <3>3. ASSUME shelf[job[j].item] = "served", ~ SplitByOther(j)
          PROVE  Tracked(j)'
      <4>1. ~ Split(job, job[j].item)
        BY <3>1, <3>3 DEF Split, SplitByOther, Marks
      <4>2. /\ points[job[j].item] = parents[job[j].item]
            /\ points[job[j].item].category = where[job[j].item]
        BY <3>1, <3>3, <4>1 DEF StoresAgree
      <4>3. Whole(j)'
        BY <1>3, <3>1, <4>2 DEF Begin, library, stores, OwnStep, SameMove, Whole, Between
      <4>4. Ahead(j)' /\ BackAt(j)'
        BY <3>1 DEF Ahead, BackAt
      <4> QED
        BY <4>3, <4>4 DEF Tracked
    <3> QED
      BY <3>1, <3>2, <3>3, MovingOwn
  <2>2. CASE job[Head(queue)].status # "pending"
    <3>1. Held = {} /\ job' = job /\ cur' = cur
      BY <1>3, <2>2, NoneHeld DEF Begin
    <3>2. Held' = {}
      BY <3>1 DEF Held, Recoverable
    <3> QED
      BY <3>2 DEF Moving
  <2> QED
    BY <2>1, <2>2
<1>4. CASE Work \/ Err \/ Compensate
  <2>1. pc # "idle"
    BY <1>4 DEF Work, Err, Compensate, Goto, Prepare, PatchPoints, PatchParents, CommitItem,
       SwapOut,
       SwapIn, Complete, Rollback, RestorePoints, RestoreParents, RestoreItem, Finish
  <2>2. cur \in Job /\ Held = {cur} /\ OwnStep(cur)
    BY <1>4, <2>1, AtWork, OwnSteps
  <2>3. CASE cur' = cur
    <3>0. PICK j \in Job : j = cur
      BY <2>2
    <3>1. Held' \subseteq {j} /\ OwnStep(j)
      BY <2>2, <2>3, <3>0, HeldNext, HeldJobs DEF OneHeld, TypeOK
    <3>2. shelf[job[j].item] = "served" /\ ~ SplitByOther(j) => Tracked(j)'
      BY <1>4, <2>2, <2>3, <3>0, TrackedOwn
    <3> QED
      BY <3>1, <3>2, MovingOwn
  <2>4. CASE cur' # cur
    <3>1. /\ cur' = None /\ pc' = "idle" /\ mode' = mode
          /\ \/ Complete \/ Finish
             \/ Rollback /\ J.status \in {"succeeded", "deleted"} /\ job' = job
      BY <1>4, <2>4 DEF Work, Err, Compensate, Goto, Idle, Prepare, PatchPoints, PatchParents,
         CommitItem, SwapOut, SwapIn, Complete, Rollback, RestorePoints, RestoreParents,
         RestoreItem, Finish
    <3>2. job[cur] \in JobRow
      BY <2>2 DEF TypeOK, RowsTyped
    <3>3. job'[cur].status \notin Begun
      BY <2>2, <3>1, <3>2, CompleteRow, FinishRow DEF TypeOK, Begun, J
    <3>4. Held' = {}
      BY <2>1, <2>2, <3>1, <3>3, HeldDone
    <3> QED
      BY <3>4 DEF Moving
  <2> QED
    BY <2>3, <2>4
<1> QED
  BY <1>1, <1>2, <1>3, <1>4 DEF Next, QuietNext, Restart

-----------------------------------------------------------------------------
(* What a job leaves behind. *)

LEMMA FinishWhole ==
  ASSUME TypeOK, RowsSound, OneHeld, Erased, Moving, Finish,
         shelf[J.item] = "served", ~ Split(job', J.item)
  PROVE  /\ points'[J.item] = J.source /\ parents'[J.item] = J.source
         /\ where'[J.item] = J.source.category /\ view'[J.item] = J.source.category
         /\ job'[cur].status = "failed"
<1>1. /\ cur \in Job /\ cur \in Held /\ J.status # "deleted" /\ pc = "finish" /\ J = job[cur]
      /\ OwnStep(cur)
  BY AtWork, OwnSteps DEF Finish, Goto, RowsSound, J, Compensate
<1>2. job'[cur].status = "failed" /\ job'[cur].code = code
  BY <1>1, FinishRow DEF TypeOK
<1>3. code # "rollback_failed"
  BY <1>1, <1>2 DEF Split, OwnStep, SameMove
<1>4. ~ SplitByOther(cur)
  BY <1>1 DEF Split, SplitByOther, OwnStep, Marks
<1>5. BackAt(cur)
  BY <1>1, <1>4 DEF Moving, Tracked
<1> QED
  BY <1>1, <1>2, <1>3, <1>5 DEF BackAt, AtSource, Finish, library, stores

LEMMA CompleteWhole ==
  ASSUME TypeOK, RowsSound, OneHeld, Erased, Moving, Complete, mode = "up",
         shelf[J.item] = "served", ~ Split(job', J.item)
  PROVE  /\ points'[J.item] = J.target /\ parents'[J.item] = J.target
         /\ where'[J.item] = J.target.category /\ view'[J.item] = J.target.category
         /\ job'[cur].status = "succeeded"
<1>1. /\ cur \in Job /\ cur \in Held /\ pc = "verify" /\ J = job[cur] /\ OwnStep(cur)
  BY AtWork, OwnSteps DEF Complete, Goto, J, Work
<1>2. job'[cur].status = "succeeded"
  BY <1>1, CompleteRow DEF TypeOK
<1>3. ~ SplitByOther(cur)
  BY <1>1 DEF Split, SplitByOther, OwnStep, Marks
<1>4. Ahead(cur)
  BY <1>1, <1>3 DEF Moving, Tracked
<1> QED
  BY <1>1, <1>2, <1>4 DEF Ahead, Complete, Verified, library, stores

LEMMA AgreeOwn ==
  ASSUME NEW j \in Job, OwnStep(j), Held \subseteq {j}, job[j].item \in Item, StoresAgree,
         \/ j \in Held'
         \/ shelf[job[j].item] = "served" /\ ~ Split(job', job[j].item) =>
              /\ points'[job[j].item] = parents'[job[j].item]
              /\ points'[job[j].item].category = where'[job[j].item]
  PROVE  StoresAgree'
<1>1. SUFFICES ASSUME NEW i \in Item, shelf'[i] = "served", ~ Split(job', i),
                      \A k \in Held' : job'[k].item # i
               PROVE  points'[i] = parents'[i] /\ points'[i].category = where'[i]
  BY DEF StoresAgree, Split
<1>2. CASE i = job[j].item
  BY <1>1, <1>2 DEF OwnStep, SameMove
<1>3. CASE i # job[j].item
  <2>1. ~ Split(job, i)
    BY <1>1, <1>3 DEF Split, OwnStep
  <2>2. \A k \in Held : job[k].item # i
    BY <1>3
  <2>3. shelf[i] = "served"
    BY <1>1 DEF OwnStep
  <2>4. points[i] = parents[i] /\ points[i].category = where[i]
    BY <2>1, <2>2, <2>3 DEF StoresAgree
  <2> QED
    BY <1>3, <2>4 DEF OwnStep
<1> QED
  BY <1>2, <1>3

LEMMA AgreeQuiet ==
  ASSUME TypeOK, RowsSound, OneHeld, Quiet, StoresAgree,
         \A j \in Held : \/ j \in Held'
                         \/ shelf'[job[j].item] # "served"
                         \/ Split(job', job[j].item)
  PROVE  StoresAgree'
<1>1. SUFFICES ASSUME NEW i \in Item, shelf'[i] = "served", ~ Split(job', i),
                      \A k \in Held' : job'[k].item # i
               PROVE  points'[i] = parents'[i] /\ points'[i].category = where'[i]
  BY DEF StoresAgree, Split
<1>2. ~ Split(job, i)
  <2>1. SUFFICES ASSUME NEW k \in Job, job[k].item = i, job[k].code \in Marks PROVE FALSE
    BY DEF Split, Marks
  <2>2. job[k].status # "absent"
    BY <2>1 DEF RowsSound, Marks
  <2> QED
    BY <1>1, <2>1, <2>2 DEF Quiet, SameMove, Split, Marks
<1>3. ASSUME NEW k \in Held, job[k].item = i PROVE FALSE
  <2>1. k \in Job /\ job[k].status # "absent"
    BY HeldJobs DEF OneHeld, TypeOK, Begun
  <2>2. job'[k].item = i
    BY <1>3, <2>1 DEF Quiet, SameMove
  <2> QED
    BY <1>1, <1>3, <2>2
<1>4. points[i] = parents[i] /\ points[i].category = where[i]
  BY <1>1, <1>2, <1>3 DEF StoresAgree, Quiet
<1> QED
  BY <1>1, <1>4 DEF Quiet

(* A step that is no job's leaves one held, or its document is archived, purged
   or known to be split. *)
LEMMA QuietLeaves ==
  ASSUME TypeOK, TypeOK', RowsSound, OneHeld, QuietNext, Quiet, NEW j \in Held
  PROVE  \/ j \in Held'
         \/ shelf'[job[j].item] # "served"
         \/ Split(job', job[j].item)
<1>1. j \in Job /\ SameMove(j) /\ job[j] \in JobRow /\ job[j].item \in Item
  BY HeldJobs DEF TypeOK, RowsTyped, Quiet, OneHeld, RowsSound, Begun
<1>2. \A k \in Job : k \in Held' <=> job'[k].status \in Begun \/ cur' = k
  BY HeldNext DEF TypeOK
<1>3. CASE \E i \in Item : Archive(i)
  BY <1>2, <1>1, <1>3, HeldJobs DEF Archive, process, TypeOK
<1>4. CASE \E i \in Item : Purge(i)
  <2>1. PICK i \in Item : Purge(i)
    BY <1>4
  <2>2. CASE job[j].item = i
    BY <1>1, <2>1, <2>2 DEF Purge, TypeOK, LibraryTyped
  <2>3. CASE job[j].item # i
    BY <1>1, <1>2, <2>1, <2>3, HeldJobs DEF Purge, process, TypeOK
  <2> QED
    BY <2>2, <2>3
<1>5. CASE \E i \in Item, c \in Category : Restore(i, c)
  BY <1>1, <1>2, <1>5, HeldJobs DEF Restore, process, TypeOK
<1>6. CASE \E i \in Item, c \in Category, k \in Job : Create(i, c, k)
  <2>1. PICK i \in Item, c \in Category, k \in Job : Create(i, c, k)
    BY <1>6
  <2>2. k \in Nat /\ cur' = cur
    BY <2>1 DEF Job, Create
  <2>3. job[k].status = "absent" /\ \A m \in Job \ {k} : job'[m] = job[m]
    BY <2>1, <2>2 DEF Create, Fresh, TypeOK, RowsTyped
  <2>4. k # j
    BY <2>3, HeldJobs DEF OneHeld, Begun, TypeOK
  <2> QED
    BY <1>1, <1>2, <2>2, <2>3, <2>4, HeldJobs DEF TypeOK
<1>7. CASE \E c \in Category : Rename(c)
  BY <1>1, <1>2, <1>7, HeldJobs DEF Rename, process, TypeOK
<1>8. CASE \E c \in Category : ForceDelete(c)
  <2>1. mode = "up" /\ cur' = cur
    BY <1>8 DEF ForceDelete, process
  <2>2. j = cur
    BY <1>1, <2>1, HeldJobs DEF OneHeld, TypeOK
  <2> QED
    BY <1>1, <1>2, <2>1, <2>2
<1>9. CASE Crash
  <2>1. job' = job /\ shelf' = shelf
    BY <1>9 DEF Crash, library
  <2>2. CASE job[j].status \in Begun
    BY <1>1, <1>2, <2>1, <2>2
  <2>3. CASE job[j].status = "deleted"
    BY <1>1, <2>1, <2>3 DEF RowsSound
  <2>4. CASE job[j].status = "failed" /\ job[j].code = "forced"
    BY <1>1, <2>1, <2>4 DEF Split
  <2> QED
    BY <1>1, <2>2, <2>3, <2>4, HeldJobs DEF OneHeld, TypeOK
<1>10. CASE Boot
  BY <1>1, <1>2, <1>10, HeldJobs DEF Boot, TypeOK, Begun
<1>11. CASE Serve
  BY <1>1, <1>2, <1>11, HeldJobs DEF Serve, TypeOK
<1>12. CASE \E k \in Job : Recover(k)
  <2>1. PICK k \in Job : Recover(k)
    BY <1>12
  <2>2. cur = None /\ job' = job
    BY <2>1 DEF Recover, OneHeld
  <2>3. job[j].status \in Begun
    BY <1>1, <2>2, HeldJobs DEF TypeOK
  <2> QED
    BY <1>1, <1>2, <2>2, <2>3
<1> QED
  BY <1>3, <1>4, <1>5, <1>6, <1>7, <1>8, <1>9, <1>10, <1>11, <1>12 DEF QuietNext

LEMMA AgreeStep ==
  ASSUME TypeOK, TypeOK', RowsSound, RowsSound', Erased, OneHeld, OneHeld', Moving, StoresAgree, Next
  PROVE  StoresAgree'
<1>1. CASE QuietNext
  <2>1. Quiet
    BY <1>1, QuietSteps DEF TypeOK
  <2>2. \A j \in Held : \/ j \in Held'
                        \/ shelf'[job[j].item] # "served"
                        \/ Split(job', job[j].item)
    BY <1>1, <2>1, QuietLeaves
  <2> QED
    BY <2>1, <2>2, AgreeQuiet
<1>2. ASSUME NEW i \in Item, Publish(i) PROVE StoresAgree'
  <2>1. Held = {}
    BY <1>2, NoneHeld DEF Publish
  <2>2. ASSUME NEW k \in Item, shelf'[k] = "served", ~ Split(job', k)
        PROVE  points'[k] = parents'[k] /\ points'[k].category = where'[k]
    <3>1. CASE k = i
      BY <1>2, <3>1, EntryTyped DEF Publish, TypeOK, LibraryTyped
    <3>2. CASE k # i
      BY <1>2, <2>1, <2>2, <3>2 DEF Publish, StoresAgree, TypeOK, LibraryTyped
    <3> QED
      BY <3>1, <3>2
  <2> QED
    BY <2>2 DEF StoresAgree, Split
<1>3. CASE Begin
  <2>1. CASE job[Head(queue)].status = "pending"
    <3>1. PICK j \in Job : j = Head(queue)
      BY <1>3, <2>1, BeginOwn
    <3>2. /\ OwnStep(j) /\ Held = {} /\ job'[j].status = "applying" /\ job[j].item \in Item
      BY <1>3, <2>1, <3>1, BeginOwn DEF RowsSound
    <3>3. j \in Held'
      BY <3>2, HeldNext DEF TypeOK, Begun
    <3> QED
      BY <3>2, <3>3, AgreeOwn
  <2>2. CASE job[Head(queue)].status # "pending"
    BY <1>3, <2>2 DEF Begin, library, stores, StoresAgree, Split, Held, Recoverable
  <2> QED
    BY <2>1, <2>2
<1>4. CASE Work \/ Err \/ Compensate
  <2>1. pc # "idle"
    BY <1>4 DEF Work, Err, Compensate, Goto, Prepare, PatchPoints, PatchParents, CommitItem,
       SwapOut,
       SwapIn, Complete, Rollback, RestorePoints, RestoreParents, RestoreItem, Finish
  <2>2. PICK j \in Job : j = cur
    BY <2>1, AtWork
  <2>3. /\ Held = {j} /\ OwnStep(j) /\ J = job[j] /\ job[j].item \in Item
    BY <1>4, <2>1, <2>2, AtWork, OwnSteps DEF J
  <2>4. CASE cur' = cur
    <3>1. j \in Held'
      BY <2>2, <2>4, HeldNext DEF TypeOK
    <3> QED
      BY <2>3, <3>1, AgreeOwn
  <2>5. CASE cur' # cur
    <3>1. \/ mode = "up" /\ Complete
          \/ Finish
          \/ Rollback /\ J.status \in {"succeeded", "deleted"}
      BY <1>4, <2>5 DEF Work, Err, Compensate, Goto, Idle, Prepare, PatchPoints, PatchParents,
         CommitItem, SwapOut, SwapIn, Complete, Rollback, RestorePoints, RestoreParents,
         RestoreItem, Finish
    <3>2. ASSUME shelf[J.item] = "served", ~ Split(job', J.item)
          PROVE  points'[J.item] = parents'[J.item] /\ points'[J.item].category = where'[J.item]
      <4>1. CASE mode = "up" /\ Complete
        BY <3>2, <4>1, CompleteWhole
      <4>2. CASE Finish
        BY <3>2, <4>2, FinishWhole
      <4>3. CASE J.status \in {"succeeded", "deleted"}
        BY <2>1, <2>2, <2>3, <3>2, <4>3, AtWork DEF RowsSound
      <4> QED
        BY <3>1, <4>1, <4>2, <4>3
    <3>3. shelf[job[j].item] = "served" /\ ~ Split(job', job[j].item) =>
            /\ points'[job[j].item] = parents'[job[j].item]
            /\ points'[job[j].item].category = where'[job[j].item]
      BY <2>3, <3>2
    <3> QED
      BY <2>3, <3>3, AgreeOwn
  <2> QED
    BY <2>4, <2>5
<1> QED
  BY <1>1, <1>2, <1>3, <1>4 DEF Next, QuietNext, Restart

-----------------------------------------------------------------------------
LEMMA InitInvariant ==
  ASSUME Init
  PROVE  IInv
<1>1. \A i \in Item : Entry(where[i]) \in Pair /\ Entry(where[i]).category = where[i]
  <2>1. label \in [Category -> Nat] /\ where \in [Item -> Category]
    BY DEF Init
  <2> QED
    BY <2>1, EntryTyped
<1>2. Exported(where) \in [Item -> Folder]
  BY ExportedTyped DEF Init
<1>3. Missing \in [Item -> Folder]
  BY DEF Missing, Folder
<1>4. LibraryTyped
  BY <1>1, <1>2, <1>3 DEF Init, LibraryTyped
<1>5. NoJob \in JobRow
  BY DEF NoJob, Nowhere, JobRow, Pair, Folder, Statuses, Codes
<1>6. TypeOK
  BY <1>4, <1>5, EmptySeq DEF Init, TypeOK, RowsTyped, WorkerTyped, Codes
<1>7. RowsSound
  BY DEF Init, RowsSound, NoJob
<1>8. Held = {} /\ Recoverable = {}
  BY DEF Init, Held, Recoverable, NoJob
<1>9. OneHeld /\ Moving
  BY <1>8 DEF Init, OneHeld, Moving
<1>10. Erased /\ StoresAgree
  BY <1>1 DEF Init, Erased, StoresAgree
<1> QED
  BY <1>6, <1>7, <1>9, <1>10 DEF IInv

LEMMA InvStep ==
  ASSUME IInv, Next
  PROVE  IInv'
<1>1. TypeOK'
  BY LibraryStep, RowsTypedStep, WorkerStep DEF IInv, TypeOK
<1>2. RowsSound' /\ Erased' /\ OneHeld'
  BY <1>1, RowsStep, ErasedStep, HeldStep DEF IInv
<1>3. Moving' /\ StoresAgree'
  BY <1>1, <1>2, MovingStep, AgreeStep DEF IInv
<1> QED
  BY <1>1, <1>2, <1>3 DEF IInv

LEMMA InvStutter ==
  ASSUME IInv, UNCHANGED vars
  PROVE  IInv'
<1>1. UNCHANGED library /\ UNCHANGED stores /\ UNCHANGED process
      /\ job' = job /\ view' = view /\ candidate' = candidate
  BY DEF vars
<1>2. TypeOK' /\ RowsSound' /\ Erased' /\ OneHeld' /\ Held' = Held
  BY <1>1 DEF library, stores, process, IInv, TypeOK, LibraryTyped, RowsTyped, WorkerTyped,
     RowsSound,
     Erased, OneHeld, Held, Recoverable
<1>3. Moving'
  BY <1>1, <1>2 DEF library, stores, process, IInv, Moving, Tracked, Whole, Ahead, BackAt, Between,
     AtSource, SplitByOther
<1>4. StoresAgree'
  BY <1>1, <1>2 DEF library, stores, IInv, StoresAgree, Split
<1> QED
  BY <1>2, <1>3, <1>4 DEF IInv

(* The rows of the jobs, the worker, and what the job at work has done to the
   stores fit in every state, whatever fails and wherever the process crashes. *)
THEOREM Invariant == Spec => []IInv
<1>1. Init => IInv
  BY InitInvariant
<1>2. IInv /\ [Next]_vars => IInv'
  BY InvStep, InvStutter
<1> QED
  BY <1>1, <1>2, PTL DEF Spec

(* Points, parents and item of a served document agree whenever no job that has
   begun holds it, unless a compensation said that it failed or a crash cut a job
   that was forced to fail (content_reclassification.py). *)
THEOREM StoresAlwaysAgree == Spec => []StoresAgree
<1>1. IInv => StoresAgree
  BY DEF IInv
<1> QED
  BY <1>1, Invariant, PTL

(* One job at a time has begun and not ended, across crashes and recoveries. *)
THEOREM OneAtATime == Spec => [](\A j, k \in Held : j = k)
<1>1. IInv => \A j, k \in Held : j = k
  BY DEF IInv, OneHeld
<1> QED
  BY <1>1, Invariant, PTL

(* A job that has begun leaves the points, the parents, the item and the view all
   at its target or all at its source, however many jobs there are and whatever
   happens around it (run_content_reclassification, rollback_reclassification). *)
THEOREM AllOrNothing == Spec => EndsWhole
<1> DEFINE Ends == \A j \in Held :
       LET i == job[j].item
           end == IF job'[j].status = "succeeded" THEN job[j].target ELSE job[j].source IN
       /\ job'[j].status \in {"succeeded", "failed"}
       /\ shelf'[i] = "served" /\ ~ Split(job', i)
       => /\ points'[i].category = end.category /\ parents'[i].category = end.category
          /\ where'[i] = end.category /\ view'[i] = end.category
<1>1. ASSUME IInv, IInv', Next PROVE Ends
  <2>1. SUFFICES ASSUME NEW j \in Held, job'[j].status \in {"succeeded", "failed"},
                        shelf'[job[j].item] = "served", ~ Split(job', job[j].item),
                        NEW end, end = IF job'[j].status = "succeeded" THEN job[j].target
                                                                       ELSE job[j].source
                 PROVE  /\ points'[job[j].item].category = end.category
                        /\ parents'[job[j].item].category = end.category
                        /\ where'[job[j].item] = end.category /\ view'[job[j].item] = end.category
    OBVIOUS
  <2>2. j \in Job /\ job[j].status # "absent"
    BY <1>1, HeldJobs DEF IInv, TypeOK, OneHeld, Begun
  <2>3. ASSUME j \in Held', SameMove(j) PROVE FALSE
    <3>1. cur' = j /\ job'[j].status = "failed" /\ job'[j].code = "forced"
      <4>1. cur' = j /\ j # None
        BY <1>1, <2>1, <2>2, <2>3, HeldNext, HeldJobs DEF IInv, TypeOK, Begun
      <4> QED
        BY <1>1, <2>1, <4>1 DEF IInv, OneHeld, Begun
    <3> QED
      BY <2>1, <2>2, <2>3, <3>1 DEF SameMove, Split
  <2>4. CASE QuietNext
    <3>1. Quiet
      BY <1>1, <2>4, QuietSteps DEF IInv, TypeOK
    <3>2. j \in Held' /\ SameMove(j)
      BY <1>1, <2>1, <2>2, <2>4, <3>1, QuietLeaves DEF IInv, Quiet
    <3> QED
      BY <2>3, <3>2
  <2>5. CASE Begin \/ \E i \in Item : Publish(i)
    BY <1>1, <2>5, NoneHeld DEF Begin, Publish, IInv
  <2>6. CASE Work \/ Err \/ Compensate
    <3>1. pc # "idle"
      BY <2>6 DEF Work, Err, Compensate, Goto, Prepare, PatchPoints, PatchParents, CommitItem,
         SwapOut, SwapIn, Complete, Rollback, RestorePoints, RestoreParents, RestoreItem, Finish
    <3>2. j = cur /\ J = job[j] /\ OwnStep(j) /\ SameMove(j)
      BY <1>1, <2>6, <3>1, AtWork, OwnSteps DEF IInv, OwnStep, J
    <3>3. cur' # j
      BY <1>1, <2>2, <2>3, <3>2, HeldNext DEF IInv, TypeOK
    <3>4. \/ mode = "up" /\ Complete
          \/ Finish
          \/ Rollback /\ J.status \in {"succeeded", "deleted"}
      BY <2>6, <3>2, <3>3 DEF Work, Err, Compensate, Goto, Idle, Prepare, PatchPoints, PatchParents,
         CommitItem, SwapOut, SwapIn, Complete, Rollback, RestorePoints, RestoreParents,
         RestoreItem, Finish
    <3>5. shelf[J.item] = "served" /\ ~ Split(job', J.item)
      BY <2>1, <3>2 DEF OwnStep
    <3>6. CASE mode = "up" /\ Complete
      BY <1>1, <2>1, <3>2, <3>5, <3>6, CompleteWhole DEF IInv
    <3>7. CASE Finish
      BY <1>1, <2>1, <3>2, <3>5, <3>7, FinishWhole DEF IInv
    <3>8. CASE J.status \in {"succeeded", "deleted"}
      BY <1>1, <2>2, <3>1, <3>2, <3>5, <3>8, AtWork DEF IInv, RowsSound
    <3> QED
      BY <3>4, <3>6, <3>7, <3>8
  <2> QED
    BY <1>1, <2>4, <2>5, <2>6 DEF Next, QuietNext, Restart
<1>2. IInv /\ IInv' /\ [Next]_vars => [Ends]_vars
  BY <1>1
<1> QED
  BY <1>2, Invariant, PTL DEF Spec, EndsWhole

(* Two live documents in one directory. *)
Together(i, k) == {shelf[i], shelf[k]} \subseteq {"served", "draft"} /\ where[i] = where[k]

NamesStay ==
  \A i \in Item : \A k \in Item \ {i} :
    Together(i, k)' => \/ Together(i, k)
                       \/ pc = "rapp" /\ job[cur].item \in {i, k}

LEMMA NamesStep ==
  ASSUME TypeOK, RowsSound, OneHeld, Next
  PROVE  NamesStay
<1>1. CASE \/ \E i \in Item : Archive(i)
           \/ \E i \in Item : Publish(i)
           \/ \E i \in Item : Purge(i)
           \/ \E c \in Category : ForceDelete(c)
  <2>1. /\ where' = where
        /\ \A k \in Item : shelf'[k] \in {"served", "draft"} => shelf[k] \in {"served", "draft"}
    BY <1>1 DEF Archive, Publish, Purge, ForceDelete, TypeOK, LibraryTyped
  <2> QED
    BY <2>1 DEF NamesStay, Together
<1>2. CASE \/ \E i \in Item, c \in Category, j \in Job : Create(i, c, j)
           \/ \E c \in Category : Rename(c)
           \/ Begin
           \/ mode = "up" /\ Prepare
           \/ mode = "up" /\ PatchPoints
           \/ mode = "up" /\ PatchParents
           \/ mode = "up" /\ SwapOut
           \/ mode = "up" /\ SwapIn
           \/ mode = "up" /\ Complete
           \/ Err
           \/ Rollback
           \/ RestorePoints
           \/ RestoreParents
           \/ Finish
           \/ Crash
           \/ Boot
           \/ Serve
           \/ \E j \in Job : Recover(j)
  <2>1. where' = where /\ shelf' = shelf
    BY <1>2 DEF Create, Rename, Begin, Prepare, PatchPoints, PatchParents, SwapOut, SwapIn,
       Complete, Err, Rollback, RestorePoints, RestoreParents, Finish, Crash, Boot, Serve,
       Recover, library
  <2> QED
    BY <2>1 DEF NamesStay, Together
<1>3. ASSUME NEW i \in Item, NEW c \in Category, Restore(i, c) PROVE NamesStay
  <2>1. /\ where' = [where EXCEPT ![i] = c] /\ shelf' = [shelf EXCEPT ![i] = "draft"]
        /\ \A k \in Item \ {i} : ~ (shelf[k] \in {"served", "draft"} /\ where[k] = c)
    BY <1>3 DEF Restore, Conflict
  <2> QED
    BY <2>1 DEF NamesStay, Together, TypeOK, LibraryTyped
<1>4. ASSUME mode = "up", CommitItem PROVE NamesStay
  <2>1. /\ where' = [where EXCEPT ![J.item] = J.target.category] /\ shelf' = shelf
        /\ \A k \in Item \ {J.item} :
             ~ (shelf[k] \in {"served", "draft"} /\ where[k] = J.target.category)
    BY <1>4 DEF CommitItem, Committable, Conflict
  <2> QED
    BY <2>1 DEF NamesStay, Together, TypeOK, LibraryTyped
<1>5. ASSUME RestoreItem PROVE NamesStay
  <2>1. /\ shelf' = shelf /\ pc = "rapp" /\ J = job[cur]
        /\ \A k \in Item \ {J.item} : where'[k] = where[k]
    BY <1>5 DEF RestoreItem, Home, Goto, J, TypeOK, LibraryTyped
  <2> QED
    BY <2>1 DEF NamesStay, Together
<1> QED
  BY <1>1, <1>2, <1>3, <1>4, <1>5 DEF Next, Work, Compensate, Restart

(* No step puts two live documents of the one file name into one directory, but
   the compensation of a job that brings its own document back
   (find_content_filename_conflict, _commit_item, _restore_app_and_view). *)
THEOREM NamesStayUnique == Spec => NamesUnique
<1> DEFINE Names == \A i \in Item : \A k \in Item \ {i} :
       /\ {shelf'[i], shelf'[k]} \subseteq {"served", "draft"} /\ where'[i] = where'[k]
       => \/ {shelf[i], shelf[k]} \subseteq {"served", "draft"} /\ where[i] = where[k]
          \/ pc = "rapp" /\ job[cur].item \in {i, k}
<1>1. IInv /\ Next => Names
  BY NamesStep DEF IInv, NamesStay, Together
<1>2. IInv /\ [Next]_vars => [Names]_vars
  BY <1>1
<1> QED
  BY <1>2, Invariant, PTL DEF Spec, NamesUnique
=============================================================================
