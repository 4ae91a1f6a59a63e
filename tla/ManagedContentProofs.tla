-------------------------- MODULE ManagedContentProofs --------------------------
(***************************************************************************)
(* Theorems about the managed library (ManagedContent), for every set of   *)
(* items, directories, names and publishers and every bound.               *)
(*                                                                         *)
(* A step is described once, by what it does to a row (RowMove), to an     *)
(* item (ItemMove), to a request (RequestMove), to what is in the index    *)
(* (IndexMove) and to the run of the purge (PurgeMove); those five lemmas  *)
(* look at every action.  The parts of the inductive invariant are then    *)
(* kept by any step that moves the tables in these ways.                   *)
(***************************************************************************)
EXTENDS ManagedContent, SequenceTheorems, FiniteSetTheorems, TLAPS

Stages == {"absent", "active", "archived", "purged"}
Lives == {"pending_publication", "publishing", "published", "publication_failed", "superseded"}
JobRow == [item : Item \cup {NoItem}, version : Nat,
           status : {"absent", "pending", "running", "done", "failed", "deleted"},
           pub : {"none", "pending", "indexing", "published", "withdrawn", "failed"},
           forced : BOOLEAN]
RequestRow == [pc : {"idle", "checked"}, item : Item \cup {NoItem}, version : Nat]
WorkRow == [pc : {"idle", "begun", "staged", "written", "cancelled"}, job : Job \cup {None},
            item : Item \cup {NoItem}, version : Nat]
PurgeRow == [todo : SUBSET Item, planned : SUBSET Item, half : Item \cup {NoItem}]

ItemsTyped ==
  /\ stage \in [Item -> Stages]
  /\ category \in [Item -> Category] /\ name \in [Item -> Name]
  /\ life \in [Item -> Seq(Lives)] /\ head \in [Item -> Job \cup {None}]

RestTyped ==
  /\ deleted \subseteq Category /\ indexed \subseteq Item \X Nat /\ overtaken \subseteq Item
  /\ up \in BOOLEAN /\ request \in [Publisher -> RequestRow]
  /\ queue \in Seq(Job) /\ worker \in WorkRow
  /\ purge \in PurgeRow

TypeOK == ItemsTyped /\ job \in [Job -> JobRow] /\ RestTyped

(* What a row of the publications is, beside its types: a job that counts has
   its version among those of an item that is there; publication and index job
   end together, but for those a forced deletion has stopped. *)
RowsFilled ==
  \A j \in Job :
    /\ job[j].status = "absent" => job[j] = NoJob
    /\ job[j].status # "absent" => job[j].item \in Item
    /\ job[j].status = "deleted" => stage[job[j].item] = "purged" /\ job[j].pub = "none"
    /\ job[j].status \notin {"absent", "deleted"} =>
         Live(job[j].item) /\ job[j].version \in 1 .. Latest(job[j].item)
    /\ Active(j) => job[j].pub \in {"pending", "indexing"}
    /\ job[j].pub \in {"pending", "indexing"} => Active(j) \/ job[j].forced
    /\ job[j].forced => job[j].status = "failed" /\ job[j].pub \in {"pending", "indexing"}

ItemsFilled ==
  \A i \in Item :
    /\ stage[i] \in {"absent", "purged"} => life[i] = <<>> /\ head[i] = None
    /\ Live(i) => life[i] # <<>>
    /\ head[i] # None => job[head[i]].item = i

(* The unique index of the publications: one that is open for each version. *)
OneOpen ==
  \A j, k \in Job : j # k /\ Open(j) /\ Open(k) /\ job[j].item = job[k].item =>
                      job[j].version # job[k].version

Checked ==
  \A p \in Publisher :
    request[p].pc = "checked" =>
      /\ request[p].item \in Item /\ stage[request[p].item] # "absent"
      /\ request[p].version >= 1
      /\ Live(request[p].item) => request[p].version <= Latest(request[p].item)

Working ==
  /\ worker.pc = "idle" => worker = NoWork
  /\ worker.pc # "idle" =>
       /\ worker.job \in Job /\ worker.item \in Item
       /\ job[worker.job].item = worker.item /\ job[worker.job].status # "absent"
       /\ job[worker.job].status # "deleted" =>
            job[worker.job].version = worker.version /\ job[worker.job].pub \in {"pending", "indexing"}
  /\ worker.pc = "cancelled" => ~ Active(worker.job)
  /\ worker.pc = "written" /\ Active(worker.job) /\ worker.item \notin overtaken =>
       <<worker.item, worker.version>> \in indexed

Driven ==
  \A j \in Job :
    /\ up /\ job[j].status = "pending" =>
         \/ \E n \in DOMAIN queue : queue[n] = j
         \/ worker.job = j
    /\ up /\ job[j].status = "running" => worker.job = j

(* A process that is down has no worker. *)
Halted == ~ up => worker = NoWork

(* An item a purge has planned stays in the bin and out of publication, unless
   a race has overtaken it; once it is half deleted only the worker that was
   at it leaves anything in the index. *)
Purging ==
  /\ purge.half \notin purge.planned
  /\ \A i \in Item \ overtaken :
       /\ i \in purge.planned \/ purge.half = i =>
            stage[i] = "archived" /\ \A j \in Job : job[j].item = i => ~ Active(j)
       /\ purge.half = i =>
            \A e \in indexed : e[1] = i => worker.item = i /\ worker.version = e[2]

Serving ==
  \A i \in Item \ overtaken :
    head[i] # None =>
      /\ stage[i] = "active"
      /\ job[head[i]].status = "done" /\ job[head[i]].pub = "published"
      /\ life[i][job[head[i]].version] = "published"
      /\ i \notin Attachment => <<i, job[head[i]].version>> \in indexed

IInv == /\ TypeOK /\ RowsFilled /\ ItemsFilled /\ OneOpen /\ Checked /\ Working /\ Driven
        /\ Halted /\ Purging /\ Serving /\ PurgedForgotten

-----------------------------------------------------------------------------
(* How the variables change: lives of versions, rows of publications. *)

(* Lives M are lives L with the version v of item i set to x. *)
LifeSet(L, M, i, v, x) ==
  /\ M \in [Item -> Seq(Lives)]
  /\ \A k \in Item : Len(M[k]) = Len(L[k])
  /\ \A k \in Item \ {i} : M[k] = L[k]
  /\ M[i][v] = x /\ \A w \in 1 .. Len(L[i]) : w # v => M[i][w] = L[i][w]

LEMMA SetLife ==
  ASSUME NEW L \in [Item -> Seq(Lives)], NEW i \in Item, NEW v \in 1 .. Len(L[i]), NEW x \in Lives
  PROVE  LifeSet(L, [L EXCEPT ![i][v] = x], i, v, x)
<1> DEFINE M == [L EXCEPT ![i][v] = x]
           s == [L[i] EXCEPT ![v] = x]
<1>1. L[i] \in Seq(Lives)
  OBVIOUS
<1>2. /\ s \in Seq(Lives) /\ Len(s) = Len(L[i]) /\ s[v] = x
      /\ \A w \in 1 .. Len(L[i]) : w # v => s[w] = L[i][w]
  BY <1>1
<1>3. M = [L EXCEPT ![i] = s]
  OBVIOUS
<1> HIDE DEF s, M
<1>4. M[i] = s /\ (\A k \in Item \ {i} : M[k] = L[k]) /\ M \in [Item -> Seq(Lives)]
  BY <1>2, <1>3
<1> QED
  BY <1>2, <1>4 DEF LifeSet, M

(* Lives whose versions are relabelled, each in its place. *)
LifeMapped(L, M) == M \in [Item -> Seq(Lives)] /\ \A k \in Item : Len(M[k]) = Len(L[k])

LEMMA Relabelled ==
  ASSUME NEW L \in [Item -> Seq(Lives)], NEW M, DOMAIN M = Item, M = [k \in Item |-> M[k]],
         \A k \in Item : /\ DOMAIN M[k] = DOMAIN L[k] /\ M[k] = [v \in DOMAIN L[k] |-> M[k][v]]
                         /\ \A v \in DOMAIN L[k] : M[k][v] \in Lives
  PROVE  LifeMapped(L, M)
<1>1. ASSUME NEW k \in Item PROVE M[k] \in Seq(Lives) /\ Len(M[k]) = Len(L[k])
  <2>1. L[k] \in Seq(Lives) /\ DOMAIN L[k] = 1 .. Len(L[k]) /\ Len(L[k]) \in Nat
    OBVIOUS
  <2>2. M[k] \in [1 .. Len(L[k]) -> Lives]
    BY <2>1
  <2>3. M[k] \in Seq(Lives)
    BY <2>1, <2>2, SeqDef
  <2> QED
    BY <2>1, <2>3
<1> QED
  BY <1>1 DEF LifeMapped

(* Rows W are rows R where the heads of the items of S are withdrawn. *)
WithdrawnRows(R, W, S) ==
  /\ W \in [Job -> JobRow]
  /\ \A j \in Job : /\ W[j].item = R[j].item /\ W[j].version = R[j].version
                    /\ W[j].status = R[j].status /\ W[j].forced = R[j].forced
                    /\ W[j] = R[j] \/ (W[j].pub = "withdrawn" /\ R[j].pub = "published")
  /\ \A j \in Job : (\A i \in S : head[i] # j) \/ R[j].pub # "published" => W[j] = R[j]

LEMMA WithdrawnFacts ==
  ASSUME NEW R \in [Job -> JobRow], NEW S \in SUBSET Item
  PROVE  WithdrawnRows(R, Withdrawn(S, R), S)
  BY DEF WithdrawnRows, Withdrawn, JobRow

-----------------------------------------------------------------------------
(* Types. *)

LEMMA JobsTypedStep ==
  ASSUME TypeOK, Working, Checked, Next
  PROVE  job' \in [Job -> JobRow]
<1>1. ASSUME NEW i \in Item, NEW c \in Category, NEW n \in Name, Upload(i, c, n)
      PROVE  job' \in [Job -> JobRow]
  BY <1>1 DEF Upload, items, TypeOK, Withdrawn, JobRow, NoJob, Working
<1>2. ASSUME NEW i \in Item, Archive(i) PROVE job' \in [Job -> JobRow]
  BY <1>2 DEF Archive, items, TypeOK, Withdrawn, JobRow, NoJob, Working
<1>3. ASSUME NEW i \in Item, PurgeExternal(i) PROVE job' \in [Job -> JobRow]
  BY <1>3 DEF PurgeExternal, items, TypeOK, Withdrawn, JobRow, NoJob, Working
<1>4. ASSUME NEW i \in Item, NEW c \in Category, Restore(i, c) PROVE job' \in [Job -> JobRow]
  BY <1>4 DEF Restore, items, TypeOK, Withdrawn, JobRow, NoJob, Working
<1>5. ASSUME NEW i \in Item, NEW c \in Category, Move(i, c) PROVE job' \in [Job -> JobRow]
  BY <1>5 DEF Move, items, TypeOK, Withdrawn, JobRow, NoJob, Working
<1>6. ASSUME NEW i \in Item, NEW n \in Name, Revise(i, n) PROVE job' \in [Job -> JobRow]
  <2>1. job' = Withdrawn(Conflict(i, category[i], n), job) /\ Conflict(i, category[i], n) \in SUBSET Item
    BY <1>6 DEF Revise, Conflict
  <2> QED
    BY <2>1, WithdrawnFacts DEF WithdrawnRows, TypeOK
<1>7. ASSUME NEW p \in Publisher, NEW i \in Item, NEW v \in 1 .. NVersions, PublishCheck(p, i, v)
      PROVE  job' \in [Job -> JobRow]
  BY <1>7 DEF PublishCheck, items, TypeOK, Withdrawn, JobRow, NoJob, Working
<1>8. ASSUME NEW p \in Publisher, NEW j \in Job, PublishInsert(p, j) PROVE job' \in [Job -> JobRow]
  <2>1. request[p].item \in Item /\ request[p].version \in Nat
    BY <1>8 DEF PublishInsert, Checked, TypeOK, RestTyped, RequestRow
  <2> QED
    BY <1>8, <2>1 DEF PublishInsert, TypeOK, JobRow, NoJob
<1>9. ASSUME NEW p \in Publisher, PublishRefused(p) PROVE job' \in [Job -> JobRow]
  BY <1>9 DEF PublishRefused, items, TypeOK, Withdrawn, JobRow, NoJob, Working
<1>10. ASSUME Take PROVE job' \in [Job -> JobRow]
  BY SMTT(60), <1>10 DEF Take, items, TypeOK, Withdrawn, JobRow, NoJob, Working
<1>11. ASSUME Stage PROVE job' \in [Job -> JobRow]
  BY <1>11 DEF Stage, items, TypeOK, Withdrawn, JobRow, NoJob, Working
<1>12. ASSUME Write PROVE job' \in [Job -> JobRow]
  BY <1>12 DEF Write, items, TypeOK, Withdrawn, JobRow, NoJob, Working
<1>13. ASSUME Promote PROVE job' \in [Job -> JobRow]
  <2> DEFINE R == [job EXCEPT ![worker.job].status = "done"]
  <2>1. worker.job \in Job
    BY <1>13 DEF Promote, Ready, Working
  <2>2. job' = [R EXCEPT ![worker.job].pub = "published"]
    BY <1>13 DEF Promote
  <2>3. R \in [Job -> JobRow]
    BY <2>1 DEF TypeOK, JobRow
  <2> HIDE DEF R
  <2> QED
    BY <2>1, <2>2, <2>3 DEF JobRow
<1>14. ASSUME PromoteCancelled PROVE job' \in [Job -> JobRow]
  BY <1>14 DEF PromoteCancelled, items, TypeOK, Withdrawn, JobRow, NoJob, Working
<1>15. ASSUME Fail PROVE job' \in [Job -> JobRow]
  BY <1>15 DEF Fail, items, TypeOK, Withdrawn, JobRow, NoJob, Working
<1>16. ASSUME CleanCancelled PROVE job' \in [Job -> JobRow]
  BY <1>16 DEF CleanCancelled, items, TypeOK, Withdrawn, JobRow, NoJob, Working
<1>17. ASSUME NEW c \in Category, ForceDelete(c) PROVE job' \in [Job -> JobRow]
  <2> DEFINE S == {i \in Item : Live(i) /\ category[i] = c}
             A == {i \in S : stage[i] = "active"}
             stopped == [j \in Job |-> IF job[j].item \in S /\ Active(j)
                           THEN [job[j] EXCEPT !.status = "failed", !.forced = TRUE] ELSE job[j]]
  <2>1. job' = Withdrawn(A, stopped) /\ A \in SUBSET Item
    BY <1>17 DEF ForceDelete
  <2>2. stopped \in [Job -> JobRow]
    BY DEF TypeOK, JobRow
  <2> HIDE DEF stopped, A
  <2> QED
    BY <2>1, <2>2, WithdrawnFacts DEF WithdrawnRows
<1>18. ASSUME NEW S \in SUBSET Item, PurgeRequest(S) PROVE job' \in [Job -> JobRow]
  BY <1>18 DEF PurgeRequest, items, TypeOK, Withdrawn, JobRow, NoJob, Working
<1>19. ASSUME PurgePlan PROVE job' \in [Job -> JobRow]
  BY <1>19 DEF PurgePlan, items, TypeOK, Withdrawn, JobRow, NoJob, Working
<1>20. ASSUME PurgeRecords PROVE job' \in [Job -> JobRow]
  BY <1>20 DEF PurgeRecords, items, TypeOK, Withdrawn, JobRow, NoJob, Working
<1>21. ASSUME PurgeFails PROVE job' \in [Job -> JobRow]
  BY <1>21 DEF PurgeFails, items, TypeOK, Withdrawn, JobRow, NoJob, Working
<1>22. ASSUME Crash PROVE job' \in [Job -> JobRow]
  BY <1>22 DEF Crash, items, TypeOK, Withdrawn, JobRow, NoJob, Working
<1>23. ASSUME Boot PROVE job' \in [Job -> JobRow]
  BY ZenonT(60), <1>23 DEF Boot, items, TypeOK, Withdrawn, JobRow, NoJob, Working
<1> QED
  BY <1>1, <1>2, <1>3, <1>4, <1>5, <1>6, <1>7, <1>8, <1>9, <1>10, <1>11, <1>12, <1>13, <1>14,
     <1>15, <1>16, <1>17, <1>18, <1>19, <1>20, <1>21, <1>22, <1>23 DEF Next

LEMMA RestTypedStep ==
  ASSUME ContentAssumption, TypeOK, Working, Checked, Next
  PROVE  RestTyped'
<1>1. ASSUME NEW i \in Item, NEW c \in Category, NEW n \in Name, Upload(i, c, n) PROVE RestTyped'
  BY <1>1 DEF Upload, items, process, TypeOK, RestTyped, RequestRow, WorkRow, NoRequest, NoWork,
     PurgeRow, NoPurge, None, Working
<1>2. ASSUME NEW i \in Item, Archive(i) PROVE RestTyped'
  BY <1>2 DEF Archive, items, process, TypeOK, RestTyped, RequestRow, WorkRow, NoRequest, NoWork,
     PurgeRow, NoPurge, None, Working
<1>3. ASSUME NEW i \in Item, PurgeExternal(i) PROVE RestTyped'
  BY <1>3 DEF PurgeExternal, items, process, TypeOK, RestTyped, RequestRow, WorkRow, NoRequest,
     NoWork, PurgeRow, NoPurge, None, Working
<1>4. ASSUME NEW i \in Item, NEW c \in Category, Restore(i, c) PROVE RestTyped'
  BY <1>4 DEF Restore, items, process, TypeOK, RestTyped, RequestRow, WorkRow, NoRequest, NoWork,
     PurgeRow, NoPurge, None, Working
<1>5. ASSUME NEW i \in Item, NEW c \in Category, Move(i, c) PROVE RestTyped'
  BY <1>5 DEF Move, items, process, TypeOK, RestTyped, RequestRow, WorkRow, NoRequest, NoWork,
     PurgeRow, NoPurge, None, Working
<1>6. ASSUME NEW i \in Item, NEW n \in Name, Revise(i, n) PROVE RestTyped'
  BY <1>6 DEF Revise, items, process, TypeOK, RestTyped, RequestRow, WorkRow, NoRequest, NoWork,
     PurgeRow, NoPurge, None, Working
<1>7. ASSUME NEW p \in Publisher, NEW i \in Item, NEW v \in 1 .. NVersions, PublishCheck(p, i, v)
      PROVE  RestTyped'
  <2>1. [NoRequest EXCEPT !.pc = "checked", !.item = i, !.version = v] \in RequestRow
    <3>1. v \in Nat
      BY DEF ContentAssumption
    <3>2. NoRequest \in RequestRow
      BY DEF NoRequest, RequestRow
    <3> QED
      BY <3>1, <3>2 DEF RequestRow
  <2>2. request' \in [Publisher -> RequestRow]
    BY <1>7, <2>1 DEF PublishCheck, TypeOK, RestTyped
  <2> QED
    BY <1>7, <2>2 DEF PublishCheck, items, TypeOK, RestTyped
<1>8. ASSUME NEW p \in Publisher, NEW j \in Job, PublishInsert(p, j) PROVE RestTyped'
  <2>1. request[p].item \in Item
    BY <1>8 DEF PublishInsert, Checked
  <2>2. queue' \in Seq(Job) /\ overtaken' \subseteq Item
    BY <1>8, <2>1 DEF PublishInsert, TypeOK, RestTyped
  <2>3. request' \in [Publisher -> RequestRow]
    BY <1>8 DEF PublishInsert, TypeOK, RestTyped, RequestRow, NoRequest
  <2> QED
    BY <1>8, <2>2, <2>3 DEF PublishInsert, TypeOK, RestTyped
<1>9. ASSUME NEW p \in Publisher, PublishRefused(p) PROVE RestTyped'
  BY <1>9 DEF PublishRefused, items, process, TypeOK, RestTyped, RequestRow, WorkRow, NoRequest,
     NoWork, PurgeRow, NoPurge, None, Working
<1>10. ASSUME Take PROVE RestTyped'
  <2>1. queue \in Seq(Job) /\ queue # <<>>
    BY <1>10 DEF Take, TypeOK, RestTyped
  <2>2. Head(queue) \in Job /\ queue' \in Seq(Job)
    BY <1>10, <2>1 DEF Take
  <2>3. worker' \in WorkRow
    BY <1>10, <2>2 DEF Take, TypeOK, RestTyped, WorkRow, JobRow
  <2> QED
    BY <1>10, <2>2, <2>3 DEF Take, items, TypeOK, RestTyped
<1>11. ASSUME Stage PROVE RestTyped'
  BY SMTT(60), <1>11 DEF Stage, items, process, TypeOK, RestTyped, RequestRow, WorkRow, NoRequest, NoWork,
     PurgeRow, NoPurge, None, Working
<1>12. ASSUME Write PROVE RestTyped'
  <2>1. worker.item \in Item /\ worker.version \in Nat /\ worker' \in WorkRow
    BY <1>12 DEF Write, Working, TypeOK, RestTyped, WorkRow
  <2>2. indexed' \subseteq Item \X Nat
    BY <1>12, <2>1 DEF Write, TypeOK, RestTyped
  <2> QED
    BY <1>12, <2>1, <2>2 DEF Write, items, TypeOK, RestTyped
<1>13. ASSUME Promote PROVE RestTyped'
  <2>1. worker.item \in Item /\ worker' \in WorkRow
    BY <1>13 DEF Promote, Ready, Working, WorkRow, NoWork, None
  <2>2. overtaken' \subseteq Item
    BY <1>13, <2>1 DEF Promote, TypeOK, RestTyped
  <2> QED
    BY <1>13, <2>1, <2>2 DEF Promote, TypeOK, RestTyped
<1>14. ASSUME PromoteCancelled PROVE RestTyped'
  BY <1>14 DEF PromoteCancelled, items, process, TypeOK, RestTyped, RequestRow, WorkRow,
     NoRequest, NoWork, PurgeRow, NoPurge, None, Working
<1>15. ASSUME Fail PROVE RestTyped'
  <2>1. worker' \in WorkRow
    BY SMTT(60), <1>15 DEF Fail, Working, TypeOK, RestTyped, WorkRow, NoWork, None
  <2> QED
    BY <1>15, <2>1 DEF Fail, TypeOK, RestTyped
<1>16. ASSUME CleanCancelled PROVE RestTyped'
  <2>1. worker.item \in Item /\ worker' \in WorkRow
    BY <1>16 DEF CleanCancelled, Working, WorkRow, NoWork, None
  <2>2. indexed' \subseteq Item \X Nat /\ overtaken' \subseteq Item
    BY <1>16, <2>1 DEF CleanCancelled, TypeOK, RestTyped
  <2> QED
    BY <1>16, <2>1, <2>2 DEF CleanCancelled, items, TypeOK, RestTyped
<1>17. ASSUME NEW c \in Category, ForceDelete(c) PROVE RestTyped'
  BY <1>17 DEF ForceDelete, items, process, TypeOK, RestTyped, RequestRow, WorkRow, NoRequest,
     NoWork, PurgeRow, NoPurge, None, Working
<1>18. ASSUME NEW S \in SUBSET Item, PurgeRequest(S) PROVE RestTyped'
  BY <1>18 DEF PurgeRequest, items, process, TypeOK, RestTyped, RequestRow, WorkRow, NoRequest,
     NoWork, PurgeRow, NoPurge, None, Working
<1>19. ASSUME PurgePlan PROVE RestTyped'
  BY <1>19 DEF PurgePlan, items, process, TypeOK, RestTyped, RequestRow, WorkRow, NoRequest,
     NoWork, PurgeRow, NoPurge, None, Working
<1>20. ASSUME PurgeRecords PROVE RestTyped'
  BY <1>20 DEF PurgeRecords, items, process, TypeOK, RestTyped, RequestRow, WorkRow, NoRequest,
     NoWork, PurgeRow, NoPurge, None, Working
<1>21. ASSUME PurgeFails PROVE RestTyped'
  <2>1. purge' \in PurgeRow
    BY <1>21 DEF PurgeFails, TypeOK, RestTyped, PurgeRow
  <2> QED
    BY <1>21, <2>1 DEF PurgeFails, items, process, TypeOK, RestTyped
<1>22. ASSUME Crash PROVE RestTyped'
  <2>1. worker.job # None => worker.item \in Item
    BY DEF Working, NoWork
  <2>2. overtaken' \subseteq Item /\ queue' \in Seq(Job) /\ worker' \in WorkRow
    BY <1>22, <2>1 DEF Crash, TypeOK, RestTyped, NoWork, WorkRow
  <2>3. purge' \in PurgeRow /\ request' \in [Publisher -> RequestRow]
    BY <1>22 DEF Crash, NoPurge, PurgeRow, NoRequest, RequestRow
  <2> QED
    BY <1>22, <2>2, <2>3 DEF Crash, items, TypeOK, RestTyped
<1>23. ASSUME Boot PROVE RestTyped'
  <2> DEFINE waiting == {j \in Job : job[j].status = "pending"}
  <2>1. Cardinality(waiting) \in Nat
    <3>1. IsFiniteSet(Job)
      BY FS_Interval, ContentAssumption DEF ContentAssumption, Job
    <3>2. IsFiniteSet(waiting)
      BY <3>1, FS_Subset
    <3> QED
      BY <3>2, FS_CardinalityType
  <2>2. queue' \in [1 .. Cardinality(waiting) -> Job]
    BY <1>23 DEF Boot, Orders
  <2> HIDE DEF waiting
  <2>3. queue' \in Seq(Job)
    BY <2>1, <2>2, SeqDef
  <2> QED
    BY <1>23, <2>3 DEF Boot, TypeOK, RestTyped
<1> QED
  BY <1>1, <1>2, <1>3, <1>4, <1>5, <1>6, <1>7, <1>8, <1>9, <1>10, <1>11, <1>12, <1>13, <1>14,
     <1>15, <1>16, <1>17, <1>18, <1>19, <1>20, <1>21, <1>22, <1>23 DEF Next

LEMMA ItemsTypedStep ==
  ASSUME ContentAssumption, TypeOK, RowsFilled, ItemsFilled, Checked, Working, Next
  PROVE  ItemsTyped'
<1>1. ASSUME NEW i \in Item, NEW c \in Category, NEW n \in Name, Upload(i, c, n) PROVE ItemsTyped'
  BY <1>1 DEF Upload, items, TypeOK, ItemsTyped, Headless, ArchivedOnes, Stages, Lives, Conflict
<1>2. ASSUME NEW i \in Item, Archive(i) PROVE ItemsTyped'
  BY <1>2 DEF Archive, items, TypeOK, ItemsTyped, Headless, ArchivedOnes, Stages, Lives, Conflict
<1>3. ASSUME NEW i \in Item, PurgeExternal(i) PROVE ItemsTyped'
  BY <1>3 DEF PurgeExternal, items, TypeOK, ItemsTyped, Headless, ArchivedOnes, Stages, Lives,
     Conflict
<1>4. ASSUME NEW i \in Item, NEW c \in Category, Restore(i, c) PROVE ItemsTyped'
  <2>1. life[i] \in Seq(Lives) /\ life[i] # <<>>
    BY <1>4 DEF Restore, TypeOK, ItemsTyped, ItemsFilled, Live
  <2>2. Latest(i) \in 1 .. Len(life[i]) /\ "pending_publication" \in Lives
    BY <2>1 DEF Latest, Lives
  <2>3. life' \in [Item -> Seq(Lives)]
    BY <1>4, <2>2, SetLife DEF Restore, LifeSet, TypeOK, ItemsTyped
  <2> QED
    BY <1>4, <2>3 DEF Restore, TypeOK, ItemsTyped, Headless, ArchivedOnes, Stages
<1>5. ASSUME NEW i \in Item, NEW c \in Category, Move(i, c) PROVE ItemsTyped'
  BY <1>5 DEF Move, items, TypeOK, ItemsTyped, Headless, ArchivedOnes, Stages, Lives, Conflict
<1>6. ASSUME NEW i \in Item, NEW n \in Name, Revise(i, n) PROVE ItemsTyped'
  <2>1. life[i] \in Seq(Lives) /\ life[i] # <<>>
    BY <1>6 DEF Revise, TypeOK, ItemsTyped, ItemsFilled, Live
  <2>2. Latest(i) \in 1 .. Len(life[i]) /\ "pending_publication" \in Lives /\ "superseded" \in Lives
    BY <2>1 DEF Latest, Lives
  <2>3. [life[i] EXCEPT ![Latest(i)] = "superseded"] \in Seq(Lives)
    BY <2>1, <2>2
  <2>4. \A s \in Seq(Lives) : Append(s, "pending_publication") \in Seq(Lives)
    BY <2>2
  <2>5. life' \in [Item -> Seq(Lives)]
    BY <1>6, <2>1, <2>3, <2>4 DEF Revise, TypeOK, ItemsTyped
  <2> QED
    BY <1>6, <2>5 DEF Revise, TypeOK, ItemsTyped, Headless, ArchivedOnes, Stages
<1>7. ASSUME NEW p \in Publisher, NEW i \in Item, NEW v \in 1 .. NVersions, PublishCheck(p, i, v)
      PROVE  ItemsTyped'
  BY <1>7 DEF PublishCheck, items, TypeOK, ItemsTyped, Headless, ArchivedOnes, Stages, Lives,
     Conflict
<1>8. ASSUME NEW p \in Publisher, NEW j \in Job, PublishInsert(p, j) PROVE ItemsTyped'
  <2>1. /\ request[p].item \in Item /\ "publishing" \in Lives
        /\ request[p].version \in 1 .. Len(life[request[p].item])
    BY <1>8 DEF PublishInsert, Checked, Vacant, Latest, Lives, TypeOK, ItemsTyped, RestTyped,
       RequestRow
  <2>2. life' \in [Item -> Seq(Lives)]
    BY <1>8, <2>1, SetLife DEF PublishInsert, LifeSet, TypeOK, ItemsTyped
  <2> QED
    BY <1>8, <2>2 DEF PublishInsert, TypeOK, ItemsTyped
<1>9. ASSUME NEW p \in Publisher, PublishRefused(p) PROVE ItemsTyped'
  BY <1>9 DEF PublishRefused, items, TypeOK, ItemsTyped, Headless, ArchivedOnes, Stages, Lives,
     Conflict
<1>10. ASSUME Take PROVE ItemsTyped'
  BY <1>10 DEF Take, items, TypeOK, ItemsTyped, Headless, ArchivedOnes, Stages, Lives, Conflict
<1>11. ASSUME Stage PROVE ItemsTyped'
  BY <1>11 DEF Stage, items, TypeOK, ItemsTyped, Headless, ArchivedOnes, Stages, Lives, Conflict
<1>12. ASSUME Write PROVE ItemsTyped'
  BY <1>12 DEF Write, items, TypeOK, ItemsTyped, Headless, ArchivedOnes, Stages, Lives, Conflict
<1>13. ASSUME Promote PROVE ItemsTyped'
  <2>1. worker.item \in Item /\ worker.job \in Job
    BY <1>13 DEF Promote, Ready, Working
  <2>2. LifeMapped(life, life')
    <3>1. \A x \in {"published", "superseded"} : x \in Lives
      BY DEF Lives
    <3> DEFINE old == IF head[worker.item] = None THEN None ELSE job[head[worker.item]].version
               s == [v \in DOMAIN life[worker.item] |->
                       IF v = worker.version THEN "published"
                       ELSE IF v = old THEN "superseded" ELSE life[worker.item][v]]
    <3>a. life' = [life EXCEPT ![worker.item] = s]
      BY <1>13 DEF Promote
    <3>b. \A k \in Item : \A v \in DOMAIN life[k] : life[k][v] \in Lives
      BY DEF TypeOK, ItemsTyped
    <3>c. /\ DOMAIN s = DOMAIN life[worker.item] /\ s = [v \in DOMAIN life[worker.item] |-> s[v]]
          /\ \A v \in DOMAIN life[worker.item] : s[v] \in Lives
      BY <2>1, <3>1, <3>b
    <3>d. \A k \in Item : life[k] = [v \in DOMAIN life[k] |-> life[k][v]]
      BY DEF TypeOK, ItemsTyped
    <3> HIDE DEF s
    <3>2. /\ DOMAIN life' = Item /\ life' = [k \in Item |-> life'[k]]
          /\ \A k \in Item : /\ DOMAIN life'[k] = DOMAIN life[k] /\ life'[k] = [v \in DOMAIN life[k] |-> life'[k][v]]
                             /\ \A v \in DOMAIN life[k] : life'[k][v] \in Lives
      BY <2>1, <3>a, <3>b, <3>c, <3>d DEF TypeOK, ItemsTyped
    <3> QED
      BY <3>2, Relabelled DEF TypeOK, ItemsTyped
  <2> QED
    BY <1>13, <2>1, <2>2 DEF Promote, LifeMapped, TypeOK, ItemsTyped
<1>14. ASSUME PromoteCancelled PROVE ItemsTyped'
  BY <1>14 DEF PromoteCancelled, items, TypeOK, ItemsTyped, Headless, ArchivedOnes, Stages, Lives,
     Conflict
<1>15. ASSUME Fail PROVE ItemsTyped'
  <2>1. CASE job[worker.job].status = "deleted" \/ job[worker.job].forced
    BY <1>15, <2>1 DEF Fail, TypeOK, ItemsTyped
  <2>2. CASE ~ (job[worker.job].status = "deleted" \/ job[worker.job].forced)
    <3>1. /\ worker.item \in Item /\ "publication_failed" \in Lives
          /\ worker.version \in 1 .. Len(life[worker.item])
      BY <1>15, <2>2 DEF Fail, Working, RowsFilled, Latest, Lives
    <3>2. life' = [life EXCEPT ![worker.item][worker.version] = "publication_failed"]
      BY <1>15, <2>2 DEF Fail
    <3>3. LifeSet(life, life', worker.item, worker.version, "publication_failed")
      BY <3>1, <3>2, SetLife DEF TypeOK, ItemsTyped
    <3> QED
      BY <1>15, <3>3 DEF Fail, LifeSet, TypeOK, ItemsTyped
  <2> QED
    BY <2>1, <2>2
<1>16. ASSUME CleanCancelled PROVE ItemsTyped'
  BY <1>16 DEF CleanCancelled, items, TypeOK, ItemsTyped, Headless, ArchivedOnes, Stages, Lives,
     Conflict
<1>17. ASSUME NEW c \in Category, ForceDelete(c) PROVE ItemsTyped'
  BY <1>17 DEF ForceDelete, items, TypeOK, ItemsTyped, Headless, ArchivedOnes, Stages, Lives,
     Conflict
<1>18. ASSUME NEW S \in SUBSET Item, PurgeRequest(S) PROVE ItemsTyped'
  BY <1>18 DEF PurgeRequest, items, TypeOK, ItemsTyped, Headless, ArchivedOnes, Stages, Lives,
     Conflict
<1>19. ASSUME PurgePlan PROVE ItemsTyped'
  BY <1>19 DEF PurgePlan, items, TypeOK, ItemsTyped, Headless, ArchivedOnes, Stages, Lives, Conflict
<1>20. ASSUME PurgeRecords PROVE ItemsTyped'
  <2>1. <<>> \in Seq(Lives)
    OBVIOUS
  <2>2. life' \in [Item -> Seq(Lives)]
    BY <1>20, <2>1 DEF PurgeRecords, TypeOK, ItemsTyped
  <2> QED
    BY <1>20, <2>2 DEF PurgeRecords, TypeOK, ItemsTyped, Stages
<1>21. ASSUME PurgeFails PROVE ItemsTyped'
  BY <1>21 DEF PurgeFails, items, TypeOK, ItemsTyped, Headless, ArchivedOnes, Stages, Lives,
     Conflict
<1>22. ASSUME Crash PROVE ItemsTyped'
  BY <1>22 DEF Crash, items, TypeOK, ItemsTyped, Headless, ArchivedOnes, Stages, Lives, Conflict
<1>23. ASSUME Boot PROVE ItemsTyped'
  <2>1. LifeMapped(life, life')
    <3>1. "publication_failed" \in Lives /\ \A k \in Item : \A v \in DOMAIN life[k] : life[k][v] \in Lives
      BY DEF Lives, TypeOK, ItemsTyped
    <3>a. life' = [k \in Item |-> [v \in DOMAIN life[k] |->
            IF \E j \in Interrupted : job[j].item = k /\ job[j].version = v
            THEN "publication_failed" ELSE life[k][v]]]
      BY <1>23 DEF Boot
    <3>2. /\ DOMAIN life' = Item /\ life' = [k \in Item |-> life'[k]]
          /\ \A k \in Item : /\ DOMAIN life'[k] = DOMAIN life[k] /\ life'[k] = [v \in DOMAIN life[k] |-> life'[k][v]]
                             /\ \A v \in DOMAIN life[k] : life'[k][v] \in Lives
      BY <3>1, <3>a
    <3> QED
      BY <3>2, Relabelled DEF TypeOK, ItemsTyped
  <2> QED
    BY <1>23, <2>1 DEF Boot, LifeMapped, TypeOK, ItemsTyped
<1> QED
  BY <1>1, <1>2, <1>3, <1>4, <1>5, <1>6, <1>7, <1>8, <1>9, <1>10, <1>11, <1>12, <1>13, <1>14,
     <1>15, <1>16, <1>17, <1>18, <1>19, <1>20, <1>21, <1>22, <1>23 DEF Next

-----------------------------------------------------------------------------
(* How one step moves rows, items and versions. *)

LEMMA TypeStep ==
  ASSUME ContentAssumption, TypeOK, RowsFilled, ItemsFilled, Checked, Working, Next
  PROVE  TypeOK'
  BY ItemsTypedStep, JobsTypedStep, RestTypedStep DEF TypeOK

(* A row is added for a version that has none open. *)
RowAdded(j) ==
  /\ job[j].status = "absent" /\ job'[j].status = "pending" /\ job'[j].pub = "pending"
  /\ ~ job'[j].forced /\ queue' = Append(queue, j)
  /\ job'[j].item \in Item /\ stage'[job'[j].item] \in {"active", "archived"}
  /\ job'[j].version \in 1 .. Len(life'[job'[j].item])
  /\ stage'[job'[j].item] = "archived" => job'[j].item \in overtaken'
  /\ \A k \in Job \ {j} :
       /\ job'[k] = job[k]
       /\ job[k].item = job'[j].item /\ job[k].version = job'[j].version => ~ Open(k)

(* The item is purged, and nothing of its rows stays but their status. *)
RowPurged(j) ==
  /\ job'[j].item = job[j].item /\ job'[j].status = "deleted" /\ job'[j].pub = "none"
  /\ ~ job'[j].forced /\ stage'[job[j].item] = "purged"

(* The life of a row that stays. *)
RowGoesOn(j) ==
  LET r == job[j]
      t == job'[j] IN
  /\ t.item = r.item /\ t.version = r.version
  /\ \/ /\ t.status = r.status /\ t.forced = r.forced /\ r.pub = "published" /\ t.pub = "withdrawn"
        /\ \A i \in Item : head[i] = j => head'[i] # j
     \/ /\ r.status \in {"pending", "running"} /\ t.forced = r.forced
        /\ \/ t.status = r.status /\ t.pub = "indexing"
           \/ t.status = "running" /\ t.pub = r.pub /\ worker'.job = j
           \/ t.status = "done" /\ t.pub = "published" /\ worker' = NoWork
           \/ t.status = "failed" /\ t.pub = "failed" /\ worker' = NoWork
     \/ /\ r.status \in {"pending", "running"} /\ t.forced
        /\ t.status = "failed" /\ t.pub = r.pub

RowMove(j) ==
  \/ job'[j] = job[j] \/ RowAdded(j)
  \/ job[j].status # "absent" /\ (RowGoesOn(j) \/ RowPurged(j))

LEMMA OneHead ==
  ASSUME TypeOK, ItemsFilled, NEW i \in Item, NEW k \in Item, head[i] = head[k], head[i] # None
  PROVE  i = k
  BY DEF ItemsFilled

LEMMA RowsMove ==
  ASSUME ContentAssumption, TypeOK, RowsFilled, ItemsFilled, Checked, Working, Halted, TypeOK', Next
  PROVE  \A r \in Job : RowMove(r)
<1>1. CASE \/ \E i \in Item, c \in Category, n \in Name : Upload(i, c, n)
           \/ \E i \in Item : PurgeExternal(i)
           \/ \E i \in Item, c \in Category : Move(i, c)
           \/ \E p \in Publisher, i \in Item, v \in 1 .. NVersions : PublishCheck(p, i, v)
           \/ \E p \in Publisher : PublishRefused(p)
           \/ Write
           \/ PromoteCancelled
           \/ CleanCancelled
           \/ \E S \in SUBSET Item : PurgeRequest(S)
           \/ PurgePlan
           \/ PurgeFails
           \/ Crash
  <2>1. job' = job
    BY <1>1 DEF Upload, PurgeExternal, Move, PublishCheck, PublishRefused, Write,
       PromoteCancelled, CleanCancelled, PurgeRequest, PurgePlan, PurgeFails, Crash, items
  <2> QED
    BY <2>1 DEF RowMove
<1>2. ASSUME NEW i \in Item, Archive(i) PROVE \A r \in Job : RowMove(r)
  <2>1. job' = Withdrawn({i}, job) /\ {i} \in SUBSET Item
    BY <1>2 DEF Archive, Conflict
  <2>2. WithdrawnRows(job, job', {i})
    BY <2>1, WithdrawnFacts DEF TypeOK
  <2>3. \A j \in Job : job[j].status = "absent" => job[j].pub # "published"
    BY DEF RowsFilled, NoJob
  <2>4. {i} \subseteq Item /\ \A x \in {i} : head'[x] = None
    BY <1>2, <2>1 DEF Archive, Headless, TypeOK, ItemsTyped
  <2>5. ASSUME NEW j \in Job, job'[j] # job[j], NEW k \in Item, head[k] = j PROVE head'[k] # j
    BY <2>2, <2>4, <2>5, OneHead DEF WithdrawnRows, Job, None
  <2>6. ASSUME NEW j \in Job, job'[j] # job[j] PROVE RowGoesOn(j) /\ job[j].status # "absent"
    BY <2>2, <2>3, <2>5, <2>6 DEF WithdrawnRows, RowGoesOn
  <2> QED
    BY <2>6 DEF RowMove
<1>3. ASSUME NEW i \in Item, NEW c \in Category, Restore(i, c) PROVE \A r \in Job : RowMove(r)
  <2>1. job' = Withdrawn(Conflict(i, c, name[i]), job) /\ Conflict(i, c, name[i]) \in SUBSET Item
    BY <1>3 DEF Restore, Conflict
  <2>2. WithdrawnRows(job, job', Conflict(i, c, name[i]))
    BY <2>1, WithdrawnFacts DEF TypeOK
  <2>3. \A j \in Job : job[j].status = "absent" => job[j].pub # "published"
    BY DEF RowsFilled, NoJob
  <2>4. Conflict(i, c, name[i]) \subseteq Item /\ \A x \in Conflict(i, c, name[i]) : head'[x] = None
    BY <1>3, <2>1 DEF Restore, Headless, TypeOK, ItemsTyped
  <2>5. ASSUME NEW j \in Job, job'[j] # job[j], NEW k \in Item, head[k] = j PROVE head'[k] # j
    BY <2>2, <2>4, <2>5, OneHead DEF WithdrawnRows, Job, None
  <2>6. ASSUME NEW j \in Job, job'[j] # job[j] PROVE RowGoesOn(j) /\ job[j].status # "absent"
    BY <2>2, <2>3, <2>5, <2>6 DEF WithdrawnRows, RowGoesOn
  <2> QED
    BY <2>6 DEF RowMove
<1>4. ASSUME NEW i \in Item, NEW n \in Name, Revise(i, n) PROVE \A r \in Job : RowMove(r)
  <2>1. job' = Withdrawn(Conflict(i, category[i], n), job) /\ Conflict(i, category[i], n) \in SUBSET Item
    BY <1>4 DEF Revise, Conflict
  <2>2. WithdrawnRows(job, job', Conflict(i, category[i], n))
    BY <2>1, WithdrawnFacts DEF TypeOK
  <2>3. \A j \in Job : job[j].status = "absent" => job[j].pub # "published"
    BY DEF RowsFilled, NoJob
  <2>4. Conflict(i, category[i], n) \subseteq Item /\ \A x \in Conflict(i, category[i], n) : head'[x] = None
    BY <1>4, <2>1 DEF Revise, Headless, TypeOK, ItemsTyped
  <2>5. ASSUME NEW j \in Job, job'[j] # job[j], NEW k \in Item, head[k] = j PROVE head'[k] # j
    BY <2>2, <2>4, <2>5, OneHead DEF WithdrawnRows, Job, None
  <2>6. ASSUME NEW j \in Job, job'[j] # job[j] PROVE RowGoesOn(j) /\ job[j].status # "absent"
    BY <2>2, <2>3, <2>5, <2>6 DEF WithdrawnRows, RowGoesOn
  <2> QED
    BY <2>6 DEF RowMove
<1>5. ASSUME NEW p \in Publisher, NEW j \in Job, PublishInsert(p, j)
      PROVE  \A r \in Job : RowMove(r)
  <2> DEFINE i == request[p].item
             v == request[p].version
  <2>1. /\ i \in Item /\ v \in 1 .. Len(life[i]) /\ Live(i) /\ "publishing" \in Lives
        /\ \A k \in VersionJobs(i, v) : ~ Open(k)
    BY <1>5 DEF PublishInsert, Checked, Vacant, Latest, Lives, TypeOK, ItemsTyped, RestTyped,
       RequestRow
  <2>2. /\ job'[j].item = i /\ job'[j].version = v /\ job'[j].status = "pending"
        /\ job'[j].pub = "pending" /\ ~ job'[j].forced
        /\ \A k \in Job \ {j} : job'[k] = job[k]
    BY <1>5 DEF PublishInsert, TypeOK, NoJob
  <2>3. job[j].status = "absent"
    BY <1>5 DEF PublishInsert, Fresh, Job
  <2>4. /\ stage' = stage /\ life' = [life EXCEPT ![i][v] = "publishing"]
        /\ (stage[i] = "archived" => i \in overtaken') /\ queue' = Append(queue, j)
    BY <1>5 DEF PublishInsert
  <2> HIDE DEF i, v
  <2>5. Len(life'[i]) = Len(life[i])
    BY <2>1, <2>4, SetLife DEF LifeSet, TypeOK, ItemsTyped
  <2>6. RowAdded(j)
    BY <2>1, <2>2, <2>3, <2>4, <2>5 DEF RowAdded, Live, VersionJobs, JobsOf
  <2> QED
    BY <2>2, <2>6 DEF RowMove
<1>6. ASSUME Take PROVE \A r \in Job : RowMove(r)
  <2>1. Head(queue) \in Job
    BY <1>6 DEF Take, TypeOK, RestTyped
  <2>2. ASSUME Runnable(Head(queue)) PROVE RowGoesOn(Head(queue))
    BY SMTT(60), <1>6, <2>1, <2>2 DEF Take, Runnable, RowGoesOn, TypeOK, JobRow
  <2> QED
    BY <1>6, <2>1, <2>2 DEF Take, Runnable, RowMove, TypeOK
<1>7. ASSUME Stage PROVE \A r \in Job : RowMove(r)
  <2>1. worker.job \in Job /\ job[worker.job].status # "absent"
    BY <1>7 DEF Stage, Working
  <2>2. ASSUME Active(worker.job) PROVE RowGoesOn(worker.job)
    BY <1>7, <2>1, <2>2 DEF Stage, Active, RowGoesOn, TypeOK, RestTyped, WorkRow, JobRow
  <2> QED
    BY <1>7, <2>1, <2>2 DEF Stage, RowMove, TypeOK
<1>8. ASSUME Promote PROVE \A r \in Job : RowMove(r)
  <2>1. worker.job \in Job /\ job[worker.job].status # "absent" /\ Active(worker.job)
    BY <1>8 DEF Promote, Ready, Working
  <2>2. RowGoesOn(worker.job)
    BY <1>8, <2>1 DEF Promote, Active, RowGoesOn, TypeOK, JobRow
  <2>3. \A j \in Job \ {worker.job} : job'[j] = job[j]
    BY <1>8, <2>1 DEF Promote, TypeOK
  <2> QED
    BY <2>1, <2>2, <2>3 DEF RowMove
<1>9. ASSUME Fail PROVE \A r \in Job : RowMove(r)
  <2>1. CASE job[worker.job].status = "deleted" \/ job[worker.job].forced
    BY <1>9, <2>1 DEF Fail, RowMove
  <2>2. CASE ~ (job[worker.job].status = "deleted" \/ job[worker.job].forced)
    <3>1. worker.job \in Job /\ job[worker.job].status # "absent" /\ Active(worker.job)
      BY <1>9, <2>2 DEF Fail, Working, RowsFilled
    <3>2. RowGoesOn(worker.job)
      BY <1>9, <2>2, <3>1 DEF Fail, Active, RowGoesOn, TypeOK, JobRow
    <3>3. \A j \in Job \ {worker.job} : job'[j] = job[j]
      BY <1>9, <2>2, <3>1 DEF Fail, TypeOK
    <3> QED
      BY <3>1, <3>2, <3>3 DEF RowMove
  <2> QED
    BY <2>1, <2>2
<1>10. ASSUME NEW c \in Category, ForceDelete(c) PROVE \A r \in Job : RowMove(r)
  <2> DEFINE S == {i \in Item : Live(i) /\ category[i] = c}
             A == {i \in S : stage[i] = "active"}
             stopped == [j \in Job |-> IF job[j].item \in S /\ Active(j)
                           THEN [job[j] EXCEPT !.status = "failed", !.forced = TRUE] ELSE job[j]]
  <2>1. job' = Withdrawn(A, stopped) /\ A \in SUBSET Item
    BY <1>10 DEF ForceDelete
  <2>2. stopped \in [Job -> JobRow]
    BY ZenonT(60) DEF TypeOK, JobRow
  <2>3. \A j \in Job : \/ stopped[j] = job[j]
                       \/ /\ Active(j) /\ stopped[j].item = job[j].item
                          /\ stopped[j].version = job[j].version /\ stopped[j].status = "failed"
                          /\ stopped[j].forced /\ stopped[j].pub = job[j].pub
    BY DEF TypeOK, JobRow
  <2> HIDE DEF stopped, A
  <2>4. WithdrawnRows(stopped, job', A)
    BY <2>1, <2>2, WithdrawnFacts
  <2>5. \A j \in Job : Active(j) => job[j].pub # "published" /\ job[j].status # "absent"
    BY DEF RowsFilled, Active
  <2>6. \A j \in Job : job[j].status = "absent" => job[j].pub # "published"
    BY DEF RowsFilled, NoJob
  <2>7. A \subseteq Item /\ \A i \in A : head'[i] = None
    BY <1>10, <2>1 DEF A, ForceDelete, Headless, TypeOK, ItemsTyped
  <2>8. ASSUME NEW j \in Job, job'[j] # stopped[j], NEW k \in Item, head[k] = j PROVE head'[k] # j
    BY <2>4, <2>7, <2>8, OneHead DEF WithdrawnRows, Job, None
  <2> QED
    BY <2>3, <2>4, <2>5, <2>6, <2>8 DEF WithdrawnRows, RowMove, RowGoesOn, Active
<1>11. ASSUME PurgeRecords PROVE \A r \in Job : RowMove(r)
  <2>1. /\ purge.half \in Item /\ stage'[purge.half] = "purged"
        /\ \A j \in Job : job'[j] = IF job[j].item = purge.half
                                   THEN [NoJob EXCEPT !.item = purge.half, !.status = "deleted"]
                                   ELSE job[j]
    BY <1>11 DEF PurgeRecords, TypeOK, ItemsTyped, RestTyped, PurgeRow
  <2>2. ASSUME NEW j \in Job, job[j].item = purge.half
        PROVE  RowPurged(j) /\ job[j].status # "absent"
    <3>1. /\ job'[j].item = purge.half /\ job'[j].status = "deleted" /\ job'[j].pub = "none"
          /\ job'[j].forced = FALSE
      BY <2>1, <2>2 DEF NoJob
    <3>2. job[j].status # "absent"
      BY <2>1, <2>2 DEF NoJob, RowsFilled, ContentAssumption
    <3> QED
      BY <2>1, <2>2, <3>1, <3>2 DEF RowPurged
  <2> QED
    BY <2>1, <2>2 DEF RowMove
<1>12. ASSUME Boot PROVE \A r \in Job : RowMove(r)
  <2>1. \A j \in Job : job'[j] = IF j \in Interrupted
                                THEN [job[j] EXCEPT !.status = "failed", !.pub = "failed"] ELSE job[j]
    BY <1>12 DEF Boot
  <2>2. ASSUME NEW j \in Interrupted PROVE RowGoesOn(j) /\ job[j].status # "absent"
    BY ZenonT(60), <1>12, <2>1, <2>2 DEF Boot, Halted, Interrupted, RowGoesOn, TypeOK, JobRow
  <2> QED
    BY <2>1, <2>2 DEF RowMove
<1> QED
  BY <1>1, <1>2, <1>3, <1>4, <1>5, <1>6, <1>7, <1>8, <1>9, <1>10, <1>11, <1>12 DEF Next

LEMMA SameLength ==
  ASSUME NEW a \in Seq(Lives), NEW b \in Seq(Lives), DOMAIN a = DOMAIN b
  PROVE  Len(a) = Len(b)
  OBVIOUS

(* An item is uploaded, purged with all its rows, or stays with its versions. *)
ItemUploaded(i) ==
  stage[i] = "absent" /\ stage'[i] = "active" /\ life'[i] # <<>> /\ head'[i] = head[i]

ItemPurged(i) ==
  /\ stage'[i] = "purged" /\ life'[i] = <<>> /\ head'[i] = None
  /\ \A j \in Job : job[j].item = i => job'[j].status = "deleted"
  /\ purge.half = i /\ purge'.half = NoItem

ItemStays(i) ==
  /\ Live(i) /\ stage'[i] \in {"active", "archived"} /\ Len(life'[i]) >= Len(life[i])
  /\ stage[i] = "archived" /\ stage'[i] = "active" /\ i \in purge.planned \cup {purge.half} =>
       i \in overtaken'
  /\ \/ head'[i] = head[i] /\ stage'[i] \in {stage[i], "active"}
     \/ head'[i] = None /\ stage'[i] = "archived"
     \/ /\ worker.job \in Job /\ worker.item = i /\ head'[i] = worker.job
        /\ stage'[i] = stage[i] /\ job'[worker.job].pub = "published"

ItemMove(i) ==
  \/ stage'[i] = stage[i] /\ life'[i] = life[i] /\ head'[i] = head[i]
  \/ ItemUploaded(i) \/ ItemPurged(i) \/ ItemStays(i)

LEMMA ItemsMove ==
  ASSUME ContentAssumption, TypeOK, RowsFilled, ItemsFilled, Checked, Working, TypeOK', Next
  PROVE  \A k \in Item : ItemMove(k)
<1>1. CASE \/ \E i \in Item : PurgeExternal(i)
           \/ \E p \in Publisher, i \in Item, v \in 1 .. NVersions : PublishCheck(p, i, v)
           \/ \E p \in Publisher : PublishRefused(p)
           \/ Take
           \/ Stage
           \/ Write
           \/ PromoteCancelled
           \/ CleanCancelled
           \/ \E S \in SUBSET Item : PurgeRequest(S)
           \/ PurgePlan
           \/ PurgeFails
           \/ Crash
  BY <1>1 DEF PurgeExternal, PublishCheck, PublishRefused, Take, Stage, Write, PromoteCancelled,
     CleanCancelled, PurgeRequest, PurgePlan, PurgeFails, Crash, items, ItemMove
<1>2. ASSUME NEW i \in Item, NEW c \in Category, NEW n \in Name, Upload(i, c, n)
      PROVE  \A k \in Item : ItemMove(k)
  <2>1. ItemUploaded(i)
    BY <1>2 DEF Upload, ItemUploaded, TypeOK, ItemsTyped
  <2> QED
    BY <1>2, <2>1 DEF Upload, ItemMove, TypeOK, ItemsTyped
<1>3. ASSUME NEW i \in Item, Archive(i) PROVE \A k \in Item : ItemMove(k)
  <2>1. ItemStays(i)
    BY <1>3 DEF Archive, ItemStays, Live, ArchivedOnes, Headless, TypeOK, ItemsTyped
  <2> QED
    BY <1>3, <2>1 DEF Archive, ArchivedOnes, Headless, ItemMove, TypeOK, ItemsTyped
<1>4. ASSUME NEW i \in Item, NEW c \in Category, Restore(i, c) PROVE \A k \in Item : ItemMove(k)
  <2>1. life[i] \in Seq(Lives) /\ life[i] # <<>>
    BY <1>4 DEF Restore, TypeOK, ItemsTyped, ItemsFilled, Live
  <2>2. Latest(i) \in 1 .. Len(life[i]) /\ "pending_publication" \in Lives
    BY <2>1 DEF Latest, Lives
  <2>3. Len(life'[i]) = Len(life[i]) /\ \A k \in Item \ {i} : life'[k] = life[k]
    BY <1>4, <2>2, SetLife DEF Restore, LifeSet, TypeOK, ItemsTyped
  <2>4. ItemStays(i)
    BY <1>4, <2>1, <2>3 DEF Restore, ItemStays, Live, Conflict, ArchivedOnes, Headless, TypeOK,
       ItemsTyped
  <2>5. ASSUME NEW k \in Conflict(i, c, name[i]) PROVE ItemStays(k)
    BY <1>4, <2>3 DEF Restore, ItemStays, Live, Conflict, ArchivedOnes, Headless, TypeOK, ItemsTyped
  <2> QED
    BY <1>4, <2>3, <2>4, <2>5 DEF Restore, ArchivedOnes, Headless, ItemMove, TypeOK, ItemsTyped
<1>5. ASSUME NEW i \in Item, NEW c \in Category, Move(i, c) PROVE \A k \in Item : ItemMove(k)
  BY <1>5 DEF Move, items, TypeOK, ItemsTyped, ItemMove
<1>6. ASSUME NEW i \in Item, NEW n \in Name, Revise(i, n) PROVE \A k \in Item : ItemMove(k)
  <2> DEFINE S == Conflict(i, category[i], n)
  <2>1. life[i] \in Seq(Lives) /\ life[i] # <<>> /\ i \notin S /\ S \subseteq Item
    BY <1>6 DEF Revise, TypeOK, ItemsTyped, ItemsFilled, Live, Conflict
  <2>2. Latest(i) \in 1 .. Len(life[i]) /\ "pending_publication" \in Lives /\ "superseded" \in Lives
    BY <2>1 DEF Latest, Lives
  <2>3. /\ [life[i] EXCEPT ![Latest(i)] = "superseded"] \in Seq(Lives)
        /\ Len([life[i] EXCEPT ![Latest(i)] = "superseded"]) = Len(life[i])
    BY <2>1, <2>2
  <2>4. \A z \in Seq(Lives) : Len(Append(z, "pending_publication")) = Len(z) + 1
    BY <2>2
  <2>5. Len(life'[i]) >= Len(life[i]) /\ \A k \in Item \ {i} : life'[k] = life[k]
    BY <1>6, <2>1, <2>3, <2>4 DEF Revise, TypeOK, ItemsTyped
  <2>6. stage' = ArchivedOnes(S) /\ head' = Headless(S) /\ stage[i] = "active"
    BY <1>6 DEF Revise
  <2>7. \A k \in S : stage[k] = "active"
    BY DEF Conflict
  <2> HIDE DEF S
  <2>8. \A k \in Item : /\ k \in S => stage'[k] = "archived" /\ head'[k] = None
                        /\ k \notin S => stage'[k] = stage[k] /\ head'[k] = head[k]
    BY <2>6 DEF ArchivedOnes, Headless
  <2>9. \A k \in Item : Len(life[k]) \in Nat
    BY DEF TypeOK, ItemsTyped
  <2>10. ItemStays(i)
    BY <2>1, <2>5, <2>6, <2>8 DEF ItemStays, Live
  <2>11. ASSUME NEW k \in S PROVE ItemStays(k)
    BY <2>1, <2>5, <2>7, <2>8, <2>9, <2>11 DEF ItemStays, Live
  <2> QED
    BY <2>5, <2>8, <2>10, <2>11 DEF ItemMove
<1>7. ASSUME NEW p \in Publisher, NEW j \in Job, PublishInsert(p, j)
      PROVE  \A k \in Item : ItemMove(k)
  <2>1. /\ request[p].item \in Item /\ "publishing" \in Lives /\ Live(request[p].item)
        /\ request[p].version \in 1 .. Len(life[request[p].item])
    BY <1>7 DEF PublishInsert, Checked, Vacant, Latest, Lives, TypeOK, ItemsTyped, RestTyped,
       RequestRow
  <2>2. LifeSet(life, life', request[p].item, request[p].version, "publishing")
    BY <1>7, <2>1, SetLife DEF PublishInsert, TypeOK, ItemsTyped
  <2>3. ItemStays(request[p].item)
    BY <1>7, <2>1, <2>2 DEF PublishInsert, LifeSet, ItemStays, Live, TypeOK, ItemsTyped
  <2> QED
    BY <1>7, <2>2, <2>3 DEF PublishInsert, LifeSet, ItemMove
<1>8. ASSUME Promote PROVE \A k \in Item : ItemMove(k)
  <2>1. worker.item \in Item /\ worker.job \in Job /\ Active(worker.job) /\ Live(worker.item)
    BY <1>8 DEF Promote, Ready, Working, Active, RowsFilled
  <2>2. /\ DOMAIN life'[worker.item] = DOMAIN life[worker.item]
        /\ \A k \in Item \ {worker.item} : life'[k] = life[k]
    BY <1>8, <2>1 DEF Promote, TypeOK, ItemsTyped
  <2>3. Len(life'[worker.item]) = Len(life[worker.item]) /\ Len(life[worker.item]) \in Nat
    BY <2>1, <2>2, SameLength DEF TypeOK, ItemsTyped
  <2>4. ItemStays(worker.item)
    BY <1>8, <2>1, <2>3 DEF Promote, ItemStays, Live, TypeOK, ItemsTyped
  <2> QED
    BY <1>8, <2>1, <2>2, <2>4 DEF Promote, ItemMove, TypeOK, ItemsTyped
<1>9. ASSUME Fail PROVE \A k \in Item : ItemMove(k)
  <2>1. CASE job[worker.job].status = "deleted" \/ job[worker.job].forced
    BY <1>9, <2>1 DEF Fail, ItemMove
  <2>2. CASE ~ (job[worker.job].status = "deleted" \/ job[worker.job].forced)
    <3>1. /\ worker.item \in Item /\ "publication_failed" \in Lives /\ Live(worker.item)
          /\ worker.version \in 1 .. Len(life[worker.item])
      BY <1>9, <2>2 DEF Fail, Working, RowsFilled, Latest, Lives
    <3>2. life' = [life EXCEPT ![worker.item][worker.version] = "publication_failed"]
      BY <1>9, <2>2 DEF Fail
    <3>3. LifeSet(life, life', worker.item, worker.version, "publication_failed")
      BY <3>1, <3>2, SetLife DEF TypeOK, ItemsTyped
    <3>4. ItemStays(worker.item)
      BY <1>9, <3>1, <3>3 DEF Fail, LifeSet, ItemStays, Live, TypeOK, ItemsTyped
    <3> QED
      BY <1>9, <3>3, <3>4 DEF Fail, LifeSet, ItemMove
  <2> QED
    BY <2>1, <2>2
<1>10. ASSUME NEW c \in Category, ForceDelete(c) PROVE \A k \in Item : ItemMove(k)
  <2> DEFINE S == {i \in Item : Live(i) /\ category[i] = c}
             A == {i \in S : stage[i] = "active"}
  <2>1. stage' = ArchivedOnes(A) /\ head' = Headless(A) /\ life' = life
    BY <1>10 DEF ForceDelete
  <2>2. ASSUME NEW k \in Item PROVE ItemMove(k)
    <3>1. CASE k \in A
      <4>1. ItemStays(k)
        BY <2>1, <3>1 DEF ItemStays, Live, ArchivedOnes, Headless, TypeOK, ItemsTyped
      <4> QED
        BY <4>1 DEF ItemMove
    <3>2. CASE k \notin A
      BY <2>1, <2>2, <3>2 DEF ItemMove, ArchivedOnes, Headless
    <3> QED
      BY <3>1, <3>2
  <2> QED
    BY <2>2
<1>11. ASSUME PurgeRecords PROVE \A k \in Item : ItemMove(k)
  <2>1. purge.half \in Item /\ ItemPurged(purge.half)
    BY <1>11 DEF PurgeRecords, ItemPurged, NoJob, TypeOK, ItemsTyped, RestTyped, PurgeRow
  <2> QED
    BY <1>11, <2>1 DEF PurgeRecords, ItemMove, TypeOK, ItemsTyped
<1>12. ASSUME Boot PROVE \A k \in Item : ItemMove(k)
  <2>1. stage' = stage /\ head' = head
    BY <1>12 DEF Boot
  <2>2. \A k \in Item : /\ DOMAIN life'[k] = DOMAIN life[k]
                        /\ life'[k] \in Seq(Lives) /\ life[k] \in Seq(Lives)
    BY <1>12 DEF Boot, TypeOK, ItemsTyped
  <2>3. ASSUME NEW k \in Item PROVE ItemMove(k)
    <3>1. Len(life'[k]) = Len(life[k]) /\ Len(life[k]) \in Nat
      BY <2>2, SameLength
    <3>2. CASE Live(k)
      <4>1. ItemStays(k)
        BY <2>1, <3>1, <3>2 DEF ItemStays, Live
      <4> QED
        BY <4>1 DEF ItemMove
    <3>3. CASE ~ Live(k)
      <4>1. life[k] = <<>> /\ life'[k] = <<>>
        <5>1. life[k] = <<>>
          BY <3>3 DEF Live, ItemsFilled, TypeOK, ItemsTyped, Stages
        <5>2. Len(life'[k]) = 0
          BY <3>1, <5>1
        <5> QED
          BY <2>2, <5>1, <5>2, EmptySeq
      <4> QED
        BY <2>1, <4>1 DEF ItemMove
    <3> QED
      BY <3>2, <3>3
  <2> QED
    BY <2>3
<1> QED
  BY <1>1, <1>2, <1>3, <1>4, <1>5, <1>6, <1>7, <1>8, <1>9, <1>10, <1>11, <1>12 DEF Next

-----------------------------------------------------------------------------
(* The rows and the items stay as they should. *)

(* Live and Latest, of an item named before the step, after it. *)
LiveNext(i)   == stage'[i] \in {"active", "archived"}
LatestNext(i) == Len(life'[i])

Moves == (\A j \in Job : RowMove(j)) /\ (\A i \in Item : ItemMove(i))

(* A row that is there stays there; what is purged stays purged. *)
LEMMA RowStays ==
  ASSUME ContentAssumption, RowsFilled, Moves, NEW j \in Job, job[j].status # "absent"
  PROVE  job'[j].status # "absent" /\ job'[j].item = job[j].item
<1>1. RowMove(j) /\ ~ RowAdded(j)
  BY DEF Moves, RowAdded
<1>2. CASE RowGoesOn(j)
  BY <1>2 DEF RowGoesOn
<1>3. CASE RowPurged(j)
  BY <1>3 DEF RowPurged
<1> QED
  BY <1>1, <1>2, <1>3 DEF RowMove

LEMMA StageStays ==
  ASSUME TypeOK, TypeOK', Moves, NEW i \in Item
  PROVE  /\ stage[i] = "purged" => stage'[i] = "purged"
         /\ Live(i) => LiveNext(i) \/ ItemPurged(i)
         /\ Live(i) /\ LiveNext(i) => LatestNext(i) >= Latest(i)
         /\ LiveNext(i) => Live(i) \/ stage[i] = "absent"
<1>1. ItemMove(i)
  BY DEF Moves
<1>2. CASE ItemUploaded(i)
  BY <1>2 DEF ItemUploaded, Live, LiveNext
<1>3. CASE ItemPurged(i)
  BY <1>3 DEF ItemPurged, Live, LiveNext
<1>4. CASE ItemStays(i)
  BY <1>4 DEF ItemStays, Live, Latest, LiveNext, LatestNext
<1>5. CASE stage'[i] = stage[i] /\ life'[i] = life[i] /\ head'[i] = head[i]
  <2>1. Len(life[i]) \in Nat
    BY DEF TypeOK, ItemsTyped
  <2> QED
    BY <1>5, <2>1 DEF Live, Latest, LiveNext, LatestNext
<1> QED
  BY <1>1, <1>2, <1>3, <1>4, <1>5 DEF ItemMove

LEMMA RowsFilledStep ==
  ASSUME ContentAssumption, TypeOK, RowsFilled, TypeOK', Moves
  PROVE  RowsFilled'
<1> SUFFICES ASSUME NEW j \in Job
    PROVE  /\ job'[j].status = "absent" => job'[j] = NoJob
           /\ job'[j].status # "absent" => job'[j].item \in Item
           /\ job'[j].status = "deleted" => stage'[job'[j].item] = "purged" /\ job'[j].pub = "none"
           /\ job'[j].status \notin {"absent", "deleted"} =>
                LiveNext(job'[j].item) /\ job'[j].version \in 1 .. LatestNext(job'[j].item)
           /\ job'[j].status \in {"pending", "running"} => job'[j].pub \in {"pending", "indexing"}
           /\ job'[j].pub \in {"pending", "indexing"} =>
                job'[j].status \in {"pending", "running"} \/ job'[j].forced
           /\ job'[j].forced => job'[j].status = "failed" /\ job'[j].pub \in {"pending", "indexing"}
  BY DEF RowsFilled, Active, Live, Latest, LiveNext, LatestNext
<1> DEFINE i == job[j].item
<1>0. RowMove(j)
  BY DEF Moves
<1>1. /\ job[j].status = "absent" => job[j] = NoJob
      /\ job[j].status # "absent" => i \in Item
      /\ job[j].status = "deleted" => stage[i] = "purged" /\ job[j].pub = "none"
      /\ job[j].status \notin {"absent", "deleted"} => Live(i) /\ job[j].version \in 1 .. Latest(i)
      /\ job[j].status \in {"pending", "running"} => job[j].pub \in {"pending", "indexing"}
      /\ job[j].pub \in {"pending", "indexing"} => job[j].status \in {"pending", "running"} \/ job[j].forced
      /\ job[j].forced => job[j].status = "failed" /\ job[j].pub \in {"pending", "indexing"}
  BY DEF RowsFilled, Active
(* A row that counts keeps its version among those of its item. *)
<1>2. ASSUME job[j].status \notin {"absent", "deleted"}, job'[j].status # "deleted"
      PROVE  LiveNext(i) /\ job[j].version \in 1 .. LatestNext(i)
  <2>1. i \in Item /\ Live(i) /\ job[j].version \in 1 .. Latest(i)
    BY <1>1, <1>2
  <2>2. ~ ItemPurged(i)
    BY <1>2 DEF ItemPurged
  <2>3. LiveNext(i) /\ LatestNext(i) >= Latest(i)
    BY <2>1, <2>2, StageStays
  <2>4. Latest(i) \in Nat /\ LatestNext(i) \in Nat
    BY <2>1 DEF TypeOK, ItemsTyped, Latest, LatestNext
  <2> HIDE DEF i
  <2> QED
    BY <2>1, <2>3, <2>4
<1>3. CASE job'[j] = job[j]
  <2>1. job[j].status = "deleted" => stage'[i] = "purged"
    BY <1>1, StageStays
  <2> QED
    BY <1>1, <1>2, <1>3, <2>1
<1>4. CASE RowAdded(j)
  BY <1>4 DEF RowAdded, LiveNext, LatestNext
<1>5. CASE job[j].status # "absent" /\ RowGoesOn(j)
  <2>1. job[j].status # "deleted"
    BY <1>1, <1>5 DEF RowGoesOn
  <2>2. job'[j].item = i /\ job'[j].version = job[j].version /\ job'[j].status \notin {"absent", "deleted"}
    BY <1>1, <1>5, <2>1 DEF RowGoesOn
  <2>3. LiveNext(i) /\ job[j].version \in 1 .. LatestNext(i) /\ i \in Item
    BY <1>1, <1>2, <1>5, <2>1, <2>2
  <2>4. /\ job'[j].status \in {"pending", "running"} => job'[j].pub \in {"pending", "indexing"}
        /\ job'[j].pub \in {"pending", "indexing"} =>
             job'[j].status \in {"pending", "running"} \/ job'[j].forced
        /\ job'[j].forced => job'[j].status = "failed" /\ job'[j].pub \in {"pending", "indexing"}
    BY <1>1, <1>5 DEF RowGoesOn
  <2> QED
    BY <2>2, <2>3, <2>4
<1>6. CASE job[j].status # "absent" /\ RowPurged(j)
  BY <1>1, <1>6 DEF RowPurged
<1> QED
  BY <1>0, <1>3, <1>4, <1>5, <1>6 DEF RowMove

LEMMA ItemsFilledStep ==
  ASSUME ContentAssumption, TypeOK, RowsFilled, ItemsFilled, Working, TypeOK', Moves
  PROVE  ItemsFilled'
<1> SUFFICES ASSUME NEW i \in Item
    PROVE  /\ stage'[i] \in {"absent", "purged"} => life'[i] = <<>> /\ head'[i] = None
           /\ stage'[i] \in {"active", "archived"} => life'[i] # <<>>
           /\ head'[i] # None => job'[head'[i]].item = i
  BY DEF ItemsFilled, Live
<1>1. /\ stage[i] \in {"absent", "purged"} => life[i] = <<>> /\ head[i] = None
      /\ stage[i] \in {"active", "archived"} => life[i] # <<>>
      /\ head[i] # None => job[head[i]].item = i
  BY DEF ItemsFilled, Live
<1>2. ASSUME head[i] # None PROVE job'[head[i]].item = i
  <2>1. head[i] \in Job /\ job[head[i]].item = i
    BY <1>1, <1>2 DEF TypeOK, ItemsTyped
  <2>2. job[head[i]].status # "absent"
    BY <2>1 DEF RowsFilled, NoJob, ContentAssumption
  <2> QED
    BY <2>1, <2>2, RowStays
<1>3. CASE stage'[i] = stage[i] /\ life'[i] = life[i] /\ head'[i] = head[i]
  BY <1>1, <1>2, <1>3
<1>4. CASE ItemUploaded(i)
  BY <1>1, <1>4 DEF ItemUploaded
<1>5. CASE ItemPurged(i)
  BY <1>5 DEF ItemPurged
<1>6. CASE ItemStays(i)
  <2>1. life'[i] # <<>>
    <3>1. life[i] \in Seq(Lives) /\ life[i] # <<>> /\ Len(life'[i]) >= Len(life[i])
      BY <1>1, <1>6 DEF ItemStays, Live, TypeOK, ItemsTyped
    <3>2. Len(life[i]) \in Nat \ {0}
      BY <3>1, EmptySeq
    <3> QED
      BY <3>1, <3>2
  <2>2. ASSUME worker.job \in Job, worker.item = i PROVE job'[worker.job].item = i
    <3>1. job[worker.job].item = i /\ job[worker.job].status # "absent"
      BY <2>2 DEF Working, NoWork, Job, None
    <3> QED
      BY <2>2, <3>1, RowStays
  <2> QED
    BY <1>2, <1>6, <2>1, <2>2 DEF ItemStays
<1> QED
  BY <1>3, <1>4, <1>5, <1>6 DEF Moves, ItemMove

(* A publication is open from its creation until it ends. *)
LEMMA OpenBefore ==
  ASSUME RowsFilled, Moves, NEW j \in Job, Open(j)'
  PROVE  RowAdded(j) \/ (Open(j) /\ job[j].item = job'[j].item /\ job[j].version = job'[j].version)
<1>1. CASE RowGoesOn(j)
  BY <1>1 DEF RowGoesOn, RowsFilled, Active, Open
<1>2. CASE RowPurged(j)
  BY <1>2 DEF RowPurged, Open
<1> QED
  BY <1>1, <1>2 DEF Moves, RowMove, Open

LEMMA OneOpenStep ==
  ASSUME RowsFilled, OneOpen, Moves
  PROVE  OneOpen'
<1> SUFFICES ASSUME NEW j \in Job, NEW k \in Job, j # k, Open(j)', Open(k)', job'[j].item = job'[k].item
             PROVE  job'[j].version # job'[k].version
  BY DEF OneOpen
<1>1. ASSUME NEW x \in Job, NEW y \in Job, x # y, Open(y)', job'[x].item = job'[y].item, RowAdded(x)
      PROVE  job'[x].version # job'[y].version
  <2>1. job'[y] = job[y] /\ Open(y)
    BY <1>1 DEF RowAdded, Open
  <2> QED
    BY <1>1, <2>1 DEF RowAdded
<1>2. CASE RowAdded(j)
  BY <1>1, <1>2
<1>3. CASE RowAdded(k)
  BY <1>1, <1>3
<1>4. CASE ~ RowAdded(j) /\ ~ RowAdded(k)
  BY <1>4, OpenBefore DEF OneOpen
<1> QED
  BY <1>2, <1>3, <1>4

(* A request goes on, ends, or has just found its version. *)
RequestMove(p) ==
  \/ request'[p] \in {request[p], NoRequest}
  \/ /\ request'[p].item \in Item /\ Live(request'[p].item) /\ stage' = stage /\ life' = life
     /\ request'[p].version >= 1 /\ request'[p].version <= Latest(request'[p].item)

LEMMA RequestsMove ==
  ASSUME TypeOK, Next
  PROVE  \A q \in Publisher : RequestMove(q)
<1>1. CASE \/ \E i \in Item, c \in Category, n \in Name : Upload(i, c, n)
           \/ \E i \in Item : Archive(i)
           \/ \E i \in Item : PurgeExternal(i)
           \/ \E i \in Item, c \in Category : Restore(i, c)
           \/ \E i \in Item, c \in Category : Move(i, c)
           \/ \E i \in Item, n \in Name : Revise(i, n)
           \/ Take
           \/ Stage
           \/ Write
           \/ Promote
           \/ PromoteCancelled
           \/ Fail
           \/ CleanCancelled
           \/ \E c \in Category : ForceDelete(c)
           \/ \E S \in SUBSET Item : PurgeRequest(S)
           \/ PurgePlan
           \/ PurgeRecords
           \/ PurgeFails
           \/ Boot
  BY <1>1 DEF Upload, Archive, PurgeExternal, Restore, Move, Revise, Take, Stage, Write, Promote,
     PromoteCancelled, Fail, CleanCancelled, ForceDelete, PurgeRequest, PurgePlan, PurgeRecords,
     PurgeFails, Boot, process, RequestMove
<1>2. ASSUME NEW p \in Publisher, NEW i \in Item, NEW v \in 1 .. NVersions, PublishCheck(p, i, v)
      PROVE  \A q \in Publisher : RequestMove(q)
  BY <1>2 DEF PublishCheck, items, NoRequest, TypeOK, RestTyped, RequestMove
<1>3. ASSUME NEW p \in Publisher, NEW j \in Job, PublishInsert(p, j)
      PROVE  \A q \in Publisher : RequestMove(q)
  BY <1>3 DEF PublishInsert, TypeOK, RestTyped, RequestMove
<1>4. ASSUME NEW p \in Publisher, PublishRefused(p) PROVE \A q \in Publisher : RequestMove(q)
  BY <1>4 DEF PublishRefused, TypeOK, RestTyped, RequestMove
<1>5. ASSUME Crash PROVE \A q \in Publisher : RequestMove(q)
  BY <1>5 DEF Crash, TypeOK, RestTyped, RequestMove
<1> QED
  BY <1>1, <1>2, <1>3, <1>4, <1>5 DEF Next

LEMMA CheckedStep ==
  ASSUME TypeOK, Checked, TypeOK', Moves, \A p \in Publisher : RequestMove(p)
  PROVE  Checked'
<1> SUFFICES ASSUME NEW p \in Publisher, request'[p].pc = "checked"
    PROVE  /\ request'[p].item \in Item /\ stage'[request'[p].item] # "absent"
           /\ request'[p].version >= 1
           /\ LiveNext(request'[p].item) => request'[p].version <= LatestNext(request'[p].item)
  BY DEF Checked, Live, Latest, LiveNext, LatestNext
<1> DEFINE i == request[p].item
<1>1. CASE request'[p] = request[p]
  <2>1. /\ i \in Item /\ stage[i] # "absent" /\ request[p].version >= 1
        /\ Live(i) => request[p].version <= Latest(i)
    BY <1>1 DEF Checked
  <2>2. stage'[i] # "absent"
    BY <2>1 DEF Moves, ItemMove, ItemUploaded, ItemPurged, ItemStays
  <2>3. Latest(i) \in Nat /\ LatestNext(i) \in Nat /\ request[p].version \in Nat
    BY <2>1 DEF TypeOK, ItemsTyped, RestTyped, RequestRow, Latest, LatestNext
  <2>4. LiveNext(i) => Live(i) /\ LatestNext(i) >= Latest(i)
    BY <2>1, StageStays
  <2> HIDE DEF i
  <2>5. LiveNext(i) => request[p].version <= LatestNext(i)
    BY <2>1, <2>3, <2>4
  <2> QED
    BY <1>1, <2>1, <2>2, <2>5 DEF i
<1>2. CASE request'[p] = NoRequest
  BY <1>2 DEF NoRequest
<1>3. CASE ~ (request'[p] \in {request[p], NoRequest})
  BY <1>3 DEF RequestMove, Live, Latest, LiveNext, LatestNext
<1> QED
  BY <1>1, <1>2, <1>3

-----------------------------------------------------------------------------
(* The worker and what it writes. *)

LEMMA InactiveStays ==
  ASSUME ContentAssumption, RowsFilled, Moves, NEW j \in Job, job[j].status # "absent", ~ Active(j)
  PROVE  ~ Active(j)'
<1>1. CASE RowAdded(j)
  BY <1>1 DEF RowAdded
<1>2. CASE RowGoesOn(j)
  BY <1>2 DEF RowGoesOn, Active
<1>3. CASE RowPurged(j)
  BY <1>3 DEF RowPurged, Active
<1> QED
  BY <1>1, <1>2, <1>3 DEF Moves, RowMove, Active

(* The row of a worker that goes on is still the one it took. *)
LEMMA WorkHeld ==
  ASSUME ContentAssumption, RowsFilled, Working, Moves, worker.pc # "idle", worker' # NoWork
  PROVE  LET j == worker.job IN
         /\ job'[j].item = worker.item /\ job'[j].status # "absent"
         /\ job'[j].status # "deleted" =>
              job'[j].version = worker.version /\ job'[j].pub \in {"pending", "indexing"}
<1> DEFINE j == worker.job
<1>1. /\ j \in Job /\ job[j].item = worker.item /\ job[j].status # "absent"
      /\ job[j].status # "deleted" =>
           job[j].version = worker.version /\ job[j].pub \in {"pending", "indexing"}
  BY DEF Working
<1>2. job'[j].item = worker.item /\ job'[j].status # "absent"
  BY <1>1, RowStays
<1>3. ASSUME job'[j].status # "deleted"
      PROVE  job'[j].version = worker.version /\ job'[j].pub \in {"pending", "indexing"}
  <2>1. CASE job'[j] = job[j]
    BY <1>1, <1>3, <2>1
  <2>2. CASE RowGoesOn(j)
    <3>1. job[j].status # "deleted"
      BY <1>1, <1>3, <2>2 DEF RowGoesOn, RowsFilled
    <3> QED
      BY <1>1, <2>2, <3>1 DEF RowGoesOn
  <2>3. CASE RowAdded(j)
    BY <1>1, <2>3 DEF RowAdded
  <2>4. CASE RowPurged(j)
    BY <1>3, <2>4 DEF RowPurged
  <2> QED
    BY <1>1, <2>1, <2>2, <2>3, <2>4 DEF Moves, RowMove
<1> QED
  BY <1>2, <1>3

(* Working, of a worker that is the same or only further with the same job. *)
LEMMA WorkGoesOn ==
  ASSUME ContentAssumption, TypeOK, RowsFilled, Working, Moves, worker' # NoWork, worker.pc # "idle",
         worker'.pc # "idle", worker'.job = worker.job, worker'.item = worker.item,
         worker'.version = worker.version,
         worker'.pc = "cancelled" => ~ Active(worker.job) \/ ~ Active(worker.job)',
         worker'.pc = "written" /\ Active(worker.job) /\ worker.item \notin overtaken' =>
           <<worker.item, worker.version>> \in indexed'
  PROVE  Working'
<1> DEFINE j == worker.job
<1>1. j \in Job /\ worker.item \in Item /\ job[j].status # "absent"
  BY DEF Working
<1>2. job'[j].status \in {"pending", "running"} => Active(j)
  BY <1>1, InactiveStays DEF Active
<1>3. /\ job'[j].item = worker.item /\ job'[j].status # "absent"
      /\ job'[j].status # "deleted" =>
           job'[j].version = worker.version /\ job'[j].pub \in {"pending", "indexing"}
  BY WorkHeld
<1> QED
  BY <1>1, <1>2, <1>3 DEF Working, Active

LEMMA WorkKept ==
  ASSUME ContentAssumption, TypeOK, RowsFilled, Working, Moves, worker' = worker,
         overtaken \subseteq overtaken',
         Active(worker.job) /\ worker.job \in Job /\ worker.item \notin overtaken /\
           <<worker.item, worker.version>> \in indexed => <<worker.item, worker.version>> \in indexed'
  PROVE  Working'
<1>1. CASE worker.pc = "idle"
  BY <1>1 DEF Working, NoWork
<1>2. CASE worker.pc # "idle"
  <2>1. worker' # NoWork /\ worker.job \in Job /\ worker.item \in Item
    BY <1>2 DEF Working, NoWork
  <2>2. worker.pc = "cancelled" => ~ Active(worker.job)
    BY DEF Working
  <2>3. worker.pc = "written" /\ Active(worker.job) /\ worker.item \notin overtaken' =>
          <<worker.item, worker.version>> \in indexed'
    BY <2>1 DEF Working
  <2> QED
    BY <1>2, <2>1, <2>2, <2>3, WorkGoesOn
<1> QED
  BY <1>1, <1>2

LEMMA WorkingStep ==
  ASSUME ContentAssumption, TypeOK, RowsFilled, Working, Purging, TypeOK', Moves, Next
  PROVE  Working'
<1>1. CASE \/ \E i \in Item : Archive(i)
           \/ \E i \in Item, c \in Category, n \in Name : Upload(i, c, n)
           \/ \E i \in Item, c \in Category : Restore(i, c)
           \/ \E i \in Item, c \in Category : Move(i, c)
           \/ \E i \in Item, n \in Name : Revise(i, n)
           \/ \E p \in Publisher, i \in Item, v \in 1 .. NVersions : PublishCheck(p, i, v)
           \/ \E p \in Publisher, j \in Job : PublishInsert(p, j)
           \/ \E p \in Publisher : PublishRefused(p)
           \/ \E c \in Category : ForceDelete(c)
           \/ \E S \in SUBSET Item : PurgeRequest(S)
           \/ PurgePlan
           \/ PurgeRecords
           \/ PurgeFails
           \/ Boot
  <2>1. worker' = worker /\ indexed' = indexed /\ overtaken \subseteq overtaken'
    BY <1>1 DEF Archive, Upload, Restore, Move, Revise, PublishCheck, PublishInsert,
       PublishRefused, ForceDelete, PurgeRequest, PurgePlan, PurgeRecords, PurgeFails, Boot,
       items, process
  <2> QED
    BY <2>1, WorkKept
<1>2. CASE \/ Promote
           \/ CleanCancelled
           \/ Crash
  BY <1>2 DEF Promote, CleanCancelled, Crash, Working, NoWork
<1>3. ASSUME NEW i \in Item, PurgeExternal(i) PROVE Working'
  <2>1. worker' = worker /\ overtaken' = overtaken /\ i \in purge.planned /\ indexed' = {e \in indexed : e[1] # i}
    BY <1>3 DEF PurgeExternal, process
  <2>2. ASSUME Active(worker.job), worker.job \in Job, worker.item \notin overtaken PROVE worker.item # i
    <3>1. worker.pc # "idle" /\ job[worker.job].item = worker.item
      BY <2>2 DEF Working, NoWork, Job, None
    <3> QED
      BY <2>1, <2>2, <3>1 DEF Purging
  <2> QED
    BY <2>1, <2>2, WorkKept
<1>4. ASSUME Take PROVE Working'
  <2> DEFINE j == Head(queue)
  <2>1. j \in Job /\ queue # <<>>
    BY <1>4 DEF Take, TypeOK, RestTyped
  <2>2. CASE Runnable(j)
    <3>1. /\ job' = [job EXCEPT ![j].pub = "indexing"] /\ worker'.job = j
          /\ worker'.pc = "begun" /\ worker'.item = job[j].item /\ worker'.version = job[j].version
      BY <1>4, <2>2 DEF Take
    <3>2. job[j].status = "pending" /\ job[j].item \in Item
      BY <2>1, <2>2 DEF Runnable, RowsFilled
    <3>3. job'[j].item = job[j].item /\ job'[j].version = job[j].version
          /\ job'[j].pub = "indexing" /\ job'[j].status = "pending"
      BY <2>1, <3>1, <3>2 DEF TypeOK, JobRow
    <3> HIDE DEF j
    <3> QED
      BY <2>1, <3>1, <3>2, <3>3 DEF Working
  <2>3. CASE ~ Runnable(j)
    BY <1>4, <2>3, WorkKept DEF Take, items
  <2> QED
    BY <2>2, <2>3
<1>5. ASSUME Stage PROVE Working'
  <2>1. worker \in WorkRow /\ worker.pc \in {"begun", "staged"}
    BY <1>5 DEF Stage, TypeOK, RestTyped
  <2>2. CASE Active(worker.job)
    <3>1. worker' = [worker EXCEPT !.pc = "staged"]
      BY <1>5, <2>2 DEF Stage
    <3> QED
      BY <2>1, <3>1, WorkGoesOn DEF WorkRow, NoWork
  <2>3. CASE ~ Active(worker.job)
    <3>1. worker' = [worker EXCEPT !.pc = "cancelled"]
      BY <1>5, <2>3 DEF Stage
    <3> QED
      BY <2>1, <2>3, <3>1, WorkGoesOn DEF WorkRow, NoWork
  <2> QED
    BY <2>2, <2>3
<1>6. ASSUME Write PROVE Working'
  <2>1. worker \in WorkRow /\ worker.pc = "staged" /\ worker' = [worker EXCEPT !.pc = "written"]
        /\ <<worker.item, worker.version>> \in indexed'
    BY <1>6 DEF Write, TypeOK, RestTyped
  <2> QED
    BY <2>1, WorkGoesOn DEF WorkRow, NoWork
<1>7. ASSUME PromoteCancelled PROVE Working'
  <2>1. /\ worker \in WorkRow /\ worker.pc # "idle" /\ worker' = [worker EXCEPT !.pc = "cancelled"]
        /\ ~ Active(worker.job)
    BY <1>7 DEF PromoteCancelled, Ready, TypeOK, RestTyped
  <2> QED
    BY <2>1, WorkGoesOn DEF WorkRow, NoWork
<1>8. ASSUME Fail PROVE Working'
  <2>1. CASE job[worker.job].status = "deleted" \/ job[worker.job].forced
    <3>1. worker \in WorkRow /\ worker.pc # "idle" /\ worker' = [worker EXCEPT !.pc = "cancelled"]
      BY <1>8, <2>1 DEF Fail, TypeOK, RestTyped
    <3>2. ~ Active(worker.job)
      BY <2>1, <3>1 DEF Working, RowsFilled, Active
    <3> QED
      BY <3>1, <3>2, WorkGoesOn DEF WorkRow, NoWork
  <2>2. CASE ~ (job[worker.job].status = "deleted" \/ job[worker.job].forced)
    BY <1>8, <2>2 DEF Fail, Working, NoWork
  <2> QED
    BY <2>1, <2>2
<1> QED
  BY <1>1, <1>2, <1>3, <1>4, <1>5, <1>6, <1>7, <1>8 DEF Next

(* An active job is queued or with the worker. *)
LEMMA DrivenGoesOn ==
  ASSUME ContentAssumption, TypeOK, Driven, Moves, TypeOK', up' => up, worker'.job = worker.job,
         queue' = queue \/ \E k \in Job : queue' = Append(queue, k)
  PROVE  Driven'
<1> SUFFICES ASSUME NEW j \in Job, up'
    PROVE  /\ job'[j].status = "pending" => (\E n \in DOMAIN queue' : queue'[n] = j) \/ worker'.job = j
           /\ job'[j].status = "running" => worker'.job = j
  BY DEF Driven
<1>1. RowMove(j) /\ up /\ queue \in Seq(Job)
  BY DEF Moves, TypeOK, RestTyped
<1>2. \A n \in DOMAIN queue : n \in DOMAIN queue' /\ queue'[n] = queue[n]
  BY <1>1
<1>3. RowAdded(j) => \E n \in DOMAIN queue' : queue'[n] = j
  <2> SUFFICES ASSUME RowAdded(j) PROVE \E n \in DOMAIN queue' : queue'[n] = j
    OBVIOUS
  <2>1. Len(queue) + 1 \in DOMAIN Append(queue, j) /\ Append(queue, j)[Len(queue) + 1] = j
    BY <1>1
  <2> QED
    BY <2>1 DEF RowAdded
<1>4. job'[j].status = "pending" => job[j].status = "pending" \/ RowAdded(j)
  BY <1>1 DEF RowMove, RowGoesOn, RowPurged
<1>5. job'[j].status = "running" => job[j].status = "running" \/ worker'.job = j
  BY <1>1 DEF RowMove, RowGoesOn, RowPurged, RowAdded
<1> QED
  BY <1>1, <1>2, <1>3, <1>4, <1>5 DEF Driven

(* The job of a worker that stops is no longer active. *)
LEMMA DrivenLeaves ==
  ASSUME ContentAssumption, TypeOK, Driven, Moves, up' => up, queue' = queue,
         worker.job \in Job => job'[worker.job].status \notin {"pending", "running"},
         \A j \in Job : worker'.job # j
  PROVE  Driven'
<1> SUFFICES ASSUME NEW j \in Job, up'
    PROVE  /\ job'[j].status = "pending" => \E n \in DOMAIN queue' : queue'[n] = j
           /\ job'[j].status # "running"
  BY DEF Driven
<1>1. RowMove(j) /\ up /\ queue \in Seq(Job) /\ ~ RowAdded(j)
  <2>1. queue # Append(queue, j)
    <3>1. queue \in Seq(Job) /\ Len(Append(queue, j)) = Len(queue) + 1 /\ Len(queue) \in Nat
      BY DEF TypeOK, RestTyped
    <3> QED
      BY <3>1
  <2> QED
    BY <2>1 DEF Moves, TypeOK, RestTyped, RowAdded
<1>2. job'[j].status = "pending" => job[j].status = "pending"
  BY <1>1 DEF RowMove, RowGoesOn, RowPurged
<1>3. job'[j].status = "running" => job[j].status = "running"
  BY <1>1 DEF RowMove, RowGoesOn, RowPurged
<1> QED
  BY <1>1, <1>2, <1>3 DEF Driven

LEMMA DrivenStep ==
  ASSUME ContentAssumption, TypeOK, RowsFilled, Working, Driven, TypeOK', Moves, Next
  PROVE  Driven'
<1>1. CASE \/ \E i \in Item, c \in Category, n \in Name : Upload(i, c, n)
           \/ \E i \in Item : Archive(i)
           \/ \E i \in Item : PurgeExternal(i)
           \/ \E i \in Item, c \in Category : Restore(i, c)
           \/ \E i \in Item, c \in Category : Move(i, c)
           \/ \E i \in Item, n \in Name : Revise(i, n)
           \/ \E p \in Publisher, i \in Item, v \in 1 .. NVersions : PublishCheck(p, i, v)
           \/ \E p \in Publisher : PublishRefused(p)
           \/ \E c \in Category : ForceDelete(c)
           \/ \E S \in SUBSET Item : PurgeRequest(S)
           \/ PurgePlan
           \/ PurgeRecords
           \/ PurgeFails
  <2>1. up' = up /\ queue' = queue /\ worker' = worker
    BY <1>1 DEF Upload, Archive, PurgeExternal, Restore, Move, Revise, PublishCheck,
       PublishRefused, ForceDelete, PurgeRequest, PurgePlan, PurgeRecords, PurgeFails, process
  <2> QED
    BY <2>1, DrivenGoesOn
<1>2. CASE \/ Stage
           \/ Write
           \/ PromoteCancelled
  <2>1. up' = up /\ queue' = queue /\ worker'.job = worker.job
    BY <1>2 DEF Stage, Write, PromoteCancelled, TypeOK, RestTyped, WorkRow
  <2> QED
    BY <2>1, DrivenGoesOn
<1>3. ASSUME NEW p \in Publisher, NEW j \in Job, PublishInsert(p, j) PROVE Driven'
  BY <1>3, DrivenGoesOn DEF PublishInsert
<1>4. ASSUME Take PROVE Driven'
  <2> DEFINE j == Head(queue)
  <2>1. queue \in Seq(Job) /\ queue # <<>> /\ queue' = Tail(queue) /\ worker.job = None /\ j \in Job
    BY <1>4 DEF Take, TypeOK, RestTyped, Working, NoWork
  <2>2. \A n \in DOMAIN queue : n = 1 \/ (n - 1 \in DOMAIN queue' /\ queue'[n - 1] = queue[n])
    BY <2>1
  <2>3. queue[1] = j
    BY <2>1
  <2>4. \A k \in Job : job'[k].status = job[k].status
    BY SMTT(60), <1>4, <2>1 DEF Take, TypeOK, JobRow
  <2>5. job[j].status = "pending" => worker'.job = j
    <3>1. job[j].status = "pending" => Runnable(j)
      BY <2>1 DEF Runnable, RowsFilled, Active
    <3> QED
      BY <1>4, <3>1 DEF Take
  <2>6. ASSUME NEW k \in Job, up, \E n \in DOMAIN queue : queue[n] = k, job[k].status = "pending"
        PROVE  (\E n \in DOMAIN queue' : queue'[n] = k) \/ worker'.job = k
    BY <2>2, <2>3, <2>5, <2>6
  <2>7. \A k \in Job : worker.job # k
    BY <2>1 DEF Job, None
  <2>8. up' = up
    BY <1>4 DEF Take
  <2> QED
    BY <2>4, <2>6, <2>7, <2>8 DEF Driven
<1>5. ASSUME Promote PROVE Driven'
  <2>1. worker.job \in Job
    BY <1>5 DEF Promote, Ready, Working
  <2>2. job'[worker.job].status = "done"
    BY <1>5, <2>1 DEF Promote, TypeOK, JobRow
  <2> QED
    BY <1>5, <2>2, DrivenLeaves DEF Promote, NoWork, Job, None
<1>6. ASSUME Fail PROVE Driven'
  <2>1. CASE job[worker.job].status = "deleted" \/ job[worker.job].forced
    <3>1. worker'.job = worker.job
      BY <1>6, <2>1 DEF Fail, TypeOK, RestTyped, WorkRow
    <3> QED
      BY <1>6, <3>1, DrivenGoesOn DEF Fail
  <2>2. CASE ~ (job[worker.job].status = "deleted" \/ job[worker.job].forced)
    <3>1. worker.job \in Job
      BY <1>6 DEF Fail, Working
    <3>2. job'[worker.job].status = "failed"
      BY <1>6, <2>2, <3>1 DEF Fail, TypeOK, JobRow
    <3> QED
      BY <1>6, <2>2, <3>2, DrivenLeaves DEF Fail, NoWork, Job, None
  <2> QED
    BY <2>1, <2>2
<1>7. ASSUME CleanCancelled PROVE Driven'
  <2>1. ~ Active(worker.job) /\ job' = job
    BY <1>7 DEF CleanCancelled, Working
  <2> QED
    BY <1>7, <2>1, DrivenLeaves DEF CleanCancelled, Active, NoWork, Job, None
<1>8. ASSUME Crash PROVE Driven'
  BY <1>8 DEF Crash, Driven
<1>9. ASSUME Boot PROVE Driven'
  <2>1. PICK q \in Orders : queue' = q
    BY <1>9 DEF Boot
  <2>2. {queue'[n] : n \in DOMAIN queue'} = {j \in Job : job[j].status = "pending"}
    BY <2>1 DEF Orders
  <2>3. \A j \in Job : /\ job'[j].status = "pending" => job[j].status = "pending"
                       /\ job'[j].status # "running"
    BY <1>9 DEF Boot, Interrupted, TypeOK, JobRow
  <2> QED
    BY <2>2, <2>3 DEF Driven
<1> QED
  BY <1>1, <1>2, <1>3, <1>4, <1>5, <1>6, <1>7, <1>8, <1>9 DEF Next

-----------------------------------------------------------------------------
(* The purge and the index. *)

LEMMA HaltedStep ==
  ASSUME Halted, Next
  PROVE  Halted'
<1>1. ASSUME NEW i \in Item, NEW c \in Category, NEW n \in Name, Upload(i, c, n) PROVE Halted'
  BY <1>1 DEF Upload, items, process, Halted
<1>2. ASSUME NEW i \in Item, Archive(i) PROVE Halted'
  BY <1>2 DEF Archive, items, process, Halted
<1>3. ASSUME NEW i \in Item, PurgeExternal(i) PROVE Halted'
  BY <1>3 DEF PurgeExternal, items, process, Halted
<1>4. ASSUME NEW i \in Item, NEW c \in Category, Restore(i, c) PROVE Halted'
  BY <1>4 DEF Restore, items, process, Halted
<1>5. ASSUME NEW i \in Item, NEW c \in Category, Move(i, c) PROVE Halted'
  BY <1>5 DEF Move, items, process, Halted
<1>6. ASSUME NEW i \in Item, NEW n \in Name, Revise(i, n) PROVE Halted'
  BY <1>6 DEF Revise, items, process, Halted
<1>7. ASSUME NEW p \in Publisher, NEW i \in Item, NEW v \in 1 .. NVersions, PublishCheck(p, i, v)
      PROVE  Halted'
  BY <1>7 DEF PublishCheck, items, process, Halted
<1>8. ASSUME NEW p \in Publisher, NEW j \in Job, PublishInsert(p, j) PROVE Halted'
  BY <1>8 DEF PublishInsert, items, process, Halted
<1>9. ASSUME NEW p \in Publisher, PublishRefused(p) PROVE Halted'
  BY <1>9 DEF PublishRefused, items, process, Halted
<1>10. ASSUME Take PROVE Halted'
  BY <1>10 DEF Take, items, process, Halted
<1>11. ASSUME Stage PROVE Halted'
  BY <1>11 DEF Stage, items, process, Halted
<1>12. ASSUME Write PROVE Halted'
  BY <1>12 DEF Write, items, process, Halted
<1>13. ASSUME Promote PROVE Halted'
  BY <1>13 DEF Promote, items, process, Halted
<1>14. ASSUME PromoteCancelled PROVE Halted'
  BY <1>14 DEF PromoteCancelled, items, process, Halted
<1>15. ASSUME Fail PROVE Halted'
  BY <1>15 DEF Fail, items, process, Halted
<1>16. ASSUME CleanCancelled PROVE Halted'
  BY <1>16 DEF CleanCancelled, items, process, Halted
<1>17. ASSUME NEW c \in Category, ForceDelete(c) PROVE Halted'
  BY <1>17 DEF ForceDelete, items, process, Halted
<1>18. ASSUME NEW S \in SUBSET Item, PurgeRequest(S) PROVE Halted'
  BY <1>18 DEF PurgeRequest, items, process, Halted
<1>19. ASSUME PurgePlan PROVE Halted'
  BY <1>19 DEF PurgePlan, items, process, Halted
<1>20. ASSUME PurgeRecords PROVE Halted'
  BY <1>20 DEF PurgeRecords, items, process, Halted
<1>21. ASSUME PurgeFails PROVE Halted'
  BY <1>21 DEF PurgeFails, items, process, Halted
<1>22. ASSUME Crash PROVE Halted'
  BY <1>22 DEF Crash, items, process, Halted
<1>23. ASSUME Boot PROVE Halted'
  BY <1>23 DEF Boot, items, process, Halted
<1> QED
  BY <1>1, <1>2, <1>3, <1>4, <1>5, <1>6, <1>7, <1>8, <1>9, <1>10, <1>11, <1>12, <1>13, <1>14,
     <1>15, <1>16, <1>17, <1>18, <1>19, <1>20, <1>21, <1>22, <1>23 DEF Next

(* What is in the index is being written, or was there; and a worker leaves
   what it wrote with an active job, or as a cleanup that did not work. *)
IndexMove(e) ==
  \/ worker'.item = e[1] /\ worker'.version = e[2]
  \/ /\ e \in indexed
     /\ worker.item = e[1] /\ worker.version = e[2] =>
          \/ worker.job \in Job /\ Active(worker.job) /\ job[worker.job].item = worker.item
          \/ e[1] \in overtaken'

LEMMA IndexStep ==
  ASSUME ContentAssumption, TypeOK, RowsFilled, Working, TypeOK', Next
  PROVE  \A e \in indexed' : IndexMove(e)
<1>1. ASSUME NEW i \in Item, NEW c \in Category, NEW n \in Name, Upload(i, c, n)
      PROVE  \A e \in indexed' : IndexMove(e)
  BY <1>1 DEF Upload, items, process, IndexMove
<1>2. ASSUME NEW i \in Item, Archive(i) PROVE \A e \in indexed' : IndexMove(e)
  BY <1>2 DEF Archive, items, process, IndexMove
<1>3. ASSUME NEW i \in Item, PurgeExternal(i) PROVE \A e \in indexed' : IndexMove(e)
  BY <1>3 DEF PurgeExternal, items, process, IndexMove
<1>4. ASSUME NEW i \in Item, NEW c \in Category, Restore(i, c)
      PROVE  \A e \in indexed' : IndexMove(e)
  BY <1>4 DEF Restore, items, process, IndexMove
<1>5. ASSUME NEW i \in Item, NEW c \in Category, Move(i, c) PROVE \A e \in indexed' : IndexMove(e)
  BY <1>5 DEF Move, items, process, IndexMove
<1>6. ASSUME NEW i \in Item, NEW n \in Name, Revise(i, n) PROVE \A e \in indexed' : IndexMove(e)
  BY <1>6 DEF Revise, items, process, IndexMove
<1>7. ASSUME NEW p \in Publisher, NEW i \in Item, NEW v \in 1 .. NVersions, PublishCheck(p, i, v)
      PROVE  \A e \in indexed' : IndexMove(e)
  BY <1>7 DEF PublishCheck, items, process, IndexMove
<1>8. ASSUME NEW p \in Publisher, NEW j \in Job, PublishInsert(p, j)
      PROVE  \A e \in indexed' : IndexMove(e)
  BY <1>8 DEF PublishInsert, items, process, IndexMove
<1>9. ASSUME NEW p \in Publisher, PublishRefused(p) PROVE \A e \in indexed' : IndexMove(e)
  BY <1>9 DEF PublishRefused, items, process, IndexMove
<1>10. ASSUME Take PROVE \A e \in indexed' : IndexMove(e)
  <2>1. worker = NoWork /\ indexed' = indexed
    BY <1>10 DEF Take, Working
  <2>2. \A e \in indexed' : e[1] \in Item
    BY DEF TypeOK, RestTyped
  <2> QED
    BY <2>1, <2>2 DEF IndexMove, NoWork, ContentAssumption
<1>11. ASSUME Stage PROVE \A e \in indexed' : IndexMove(e)
  BY <1>11 DEF Stage, IndexMove, TypeOK, RestTyped, WorkRow
<1>12. ASSUME Write PROVE \A e \in indexed' : IndexMove(e)
  <2>1. worker'.item = worker.item /\ worker'.version = worker.version
    BY <1>12 DEF Write, TypeOK, RestTyped, WorkRow
  <2> QED
    BY <1>12, <2>1 DEF Write, IndexMove
<1>13. ASSUME Promote PROVE \A e \in indexed' : IndexMove(e)
  <2>1. /\ indexed' = indexed /\ worker.job \in Job /\ Active(worker.job)
        /\ job[worker.job].item = worker.item
    BY <1>13 DEF Promote, Ready, Working
  <2> QED
    BY <2>1 DEF IndexMove
<1>14. ASSUME PromoteCancelled PROVE \A e \in indexed' : IndexMove(e)
  BY <1>14 DEF PromoteCancelled, IndexMove, TypeOK, RestTyped, WorkRow
<1>15. ASSUME Fail PROVE \A e \in indexed' : IndexMove(e)
  <2>1. CASE job[worker.job].status = "deleted" \/ job[worker.job].forced
    <3>1. indexed' = indexed /\ worker'.item = worker.item /\ worker'.version = worker.version
      BY <1>15, <2>1 DEF Fail, TypeOK, RestTyped, WorkRow
    <3> QED
      BY <3>1 DEF IndexMove
  <2>2. CASE ~ (job[worker.job].status = "deleted" \/ job[worker.job].forced)
    <3>1. /\ indexed' = indexed /\ worker.job \in Job /\ job[worker.job].item = worker.item
          /\ job[worker.job].pub \in {"pending", "indexing"}
      BY <1>15, <2>2 DEF Fail, Working
    <3>2. Active(worker.job)
      BY <2>2, <3>1 DEF RowsFilled
    <3> QED
      BY <3>1, <3>2 DEF IndexMove
  <2> QED
    BY <2>1, <2>2
<1>16. ASSUME CleanCancelled PROVE \A e \in indexed' : IndexMove(e)
  <2>1. CASE indexed' = indexed \ {<<worker.item, worker.version>>}
    <3>1. \A e \in indexed' : e \in indexed /\ e # <<worker.item, worker.version>> /\ e = <<e[1], e[2]>>
      BY <2>1 DEF TypeOK, RestTyped
    <3> QED
      BY <3>1 DEF IndexMove
  <2>2. CASE indexed' = indexed /\ overtaken' = overtaken \cup {worker.item}
    BY <2>2 DEF IndexMove
  <2> QED
    BY <1>16, <2>1, <2>2 DEF CleanCancelled
<1>17. ASSUME NEW c \in Category, ForceDelete(c) PROVE \A e \in indexed' : IndexMove(e)
  BY <1>17 DEF ForceDelete, items, process, IndexMove
<1>18. ASSUME NEW S \in SUBSET Item, PurgeRequest(S) PROVE \A e \in indexed' : IndexMove(e)
  BY <1>18 DEF PurgeRequest, items, process, IndexMove
<1>19. ASSUME PurgePlan PROVE \A e \in indexed' : IndexMove(e)
  BY <1>19 DEF PurgePlan, items, process, IndexMove
<1>20. ASSUME PurgeRecords PROVE \A e \in indexed' : IndexMove(e)
  BY <1>20 DEF PurgeRecords, items, process, IndexMove
<1>21. ASSUME PurgeFails PROVE \A e \in indexed' : IndexMove(e)
  BY <1>21 DEF PurgeFails, items, process, IndexMove
<1>22. ASSUME Crash PROVE \A e \in indexed' : IndexMove(e)
  <2>1. \A e \in indexed' : e \in indexed /\ e[1] \in Item
    BY <1>22 DEF Crash, TypeOK, RestTyped
  <2>2. worker.item \in Item => /\ worker.job \in Job /\ worker.job # None
                                /\ job[worker.job].item = worker.item
    BY DEF Working, NoWork, ContentAssumption, Job, None
  <2>3. worker.item \in Item => Active(worker.job) \/ worker.item \in overtaken'
    BY <1>22, <2>2 DEF Crash
  <2> QED
    BY <2>1, <2>2, <2>3 DEF IndexMove
<1>23. ASSUME Boot PROVE \A e \in indexed' : IndexMove(e)
  BY <1>23 DEF Boot, items, process, IndexMove
<1> QED
  BY <1>1, <1>2, <1>3, <1>4, <1>5, <1>6, <1>7, <1>8, <1>9, <1>10, <1>11, <1>12, <1>13, <1>14,
     <1>15, <1>16, <1>17, <1>18, <1>19, <1>20, <1>21, <1>22, <1>23 DEF Next

LEMMA OvertakenStays ==
  ASSUME Next
  PROVE  overtaken \subseteq overtaken'
<1>1. ASSUME NEW i \in Item, NEW c \in Category, NEW n \in Name, Upload(i, c, n)
      PROVE  overtaken \subseteq overtaken'
  BY <1>1 DEF Upload, items, process
<1>2. ASSUME NEW i \in Item, Archive(i) PROVE overtaken \subseteq overtaken'
  BY <1>2 DEF Archive, items, process
<1>3. ASSUME NEW i \in Item, PurgeExternal(i) PROVE overtaken \subseteq overtaken'
  BY <1>3 DEF PurgeExternal, items, process
<1>4. ASSUME NEW i \in Item, NEW c \in Category, Restore(i, c) PROVE overtaken \subseteq overtaken'
  BY <1>4 DEF Restore, items, process
<1>5. ASSUME NEW i \in Item, NEW c \in Category, Move(i, c) PROVE overtaken \subseteq overtaken'
  BY <1>5 DEF Move, items, process
<1>6. ASSUME NEW i \in Item, NEW n \in Name, Revise(i, n) PROVE overtaken \subseteq overtaken'
  BY <1>6 DEF Revise, items, process
<1>7. ASSUME NEW p \in Publisher, NEW i \in Item, NEW v \in 1 .. NVersions, PublishCheck(p, i, v)
      PROVE  overtaken \subseteq overtaken'
  BY <1>7 DEF PublishCheck, items, process
<1>8. ASSUME NEW p \in Publisher, NEW j \in Job, PublishInsert(p, j)
      PROVE  overtaken \subseteq overtaken'
  BY <1>8 DEF PublishInsert, items, process
<1>9. ASSUME NEW p \in Publisher, PublishRefused(p) PROVE overtaken \subseteq overtaken'
  BY <1>9 DEF PublishRefused, items, process
<1>10. ASSUME Take PROVE overtaken \subseteq overtaken'
  BY <1>10 DEF Take, items, process
<1>11. ASSUME Stage PROVE overtaken \subseteq overtaken'
  BY <1>11 DEF Stage, items, process
<1>12. ASSUME Write PROVE overtaken \subseteq overtaken'
  BY <1>12 DEF Write, items, process
<1>13. ASSUME Promote PROVE overtaken \subseteq overtaken'
  BY <1>13 DEF Promote, items, process
<1>14. ASSUME PromoteCancelled PROVE overtaken \subseteq overtaken'
  BY <1>14 DEF PromoteCancelled, items, process
<1>15. ASSUME Fail PROVE overtaken \subseteq overtaken'
  BY <1>15 DEF Fail, items, process
<1>16. ASSUME CleanCancelled PROVE overtaken \subseteq overtaken'
  BY <1>16 DEF CleanCancelled, items, process
<1>17. ASSUME NEW c \in Category, ForceDelete(c) PROVE overtaken \subseteq overtaken'
  BY <1>17 DEF ForceDelete, items, process
<1>18. ASSUME NEW S \in SUBSET Item, PurgeRequest(S) PROVE overtaken \subseteq overtaken'
  BY <1>18 DEF PurgeRequest, items, process
<1>19. ASSUME PurgePlan PROVE overtaken \subseteq overtaken'
  BY <1>19 DEF PurgePlan, items, process
<1>20. ASSUME PurgeRecords PROVE overtaken \subseteq overtaken'
  BY <1>20 DEF PurgeRecords, items, process
<1>21. ASSUME PurgeFails PROVE overtaken \subseteq overtaken'
  BY <1>21 DEF PurgeFails, items, process
<1>22. ASSUME Crash PROVE overtaken \subseteq overtaken'
  BY <1>22 DEF Crash, items, process
<1>23. ASSUME Boot PROVE overtaken \subseteq overtaken'
  BY <1>23 DEF Boot, items, process
<1> QED
  BY <1>1, <1>2, <1>3, <1>4, <1>5, <1>6, <1>7, <1>8, <1>9, <1>10, <1>11, <1>12, <1>13, <1>14,
     <1>15, <1>16, <1>17, <1>18, <1>19, <1>20, <1>21, <1>22, <1>23 DEF Next

(* How the run of the purge goes on: as it is, with less to do, with the next
   item half deleted, or with a plan whose items are in the bin. *)
PurgeMove ==
  \/ purge' = purge
  \/ purge'.planned \subseteq purge.planned /\ purge'.half = NoItem
  \/ /\ \E i \in purge.planned :
          purge'.half = i /\ purge'.planned = purge.planned \ {i} /\ \A e \in indexed' : e[1] # i
     /\ stage' = stage /\ job' = job
  \/ /\ purge'.half = NoItem /\ stage' = stage /\ job' = job
     /\ \A i \in purge'.planned : Purgeable(i)

LEMMA PurgeStep ==
  ASSUME TypeOK, Next
  PROVE  PurgeMove
<1>1. ASSUME NEW i \in Item, NEW c \in Category, NEW n \in Name, Upload(i, c, n) PROVE PurgeMove
  BY <1>1 DEF Upload, items, process, PurgeMove, NoPurge, TypeOK, RestTyped, PurgeRow
<1>2. ASSUME NEW i \in Item, Archive(i) PROVE PurgeMove
  BY <1>2 DEF Archive, items, process, PurgeMove, NoPurge, TypeOK, RestTyped, PurgeRow
<1>3. ASSUME NEW i \in Item, PurgeExternal(i) PROVE PurgeMove
  BY <1>3 DEF PurgeExternal, items, process, PurgeMove, NoPurge, TypeOK, RestTyped, PurgeRow
<1>4. ASSUME NEW i \in Item, NEW c \in Category, Restore(i, c) PROVE PurgeMove
  BY <1>4 DEF Restore, items, process, PurgeMove, NoPurge, TypeOK, RestTyped, PurgeRow
<1>5. ASSUME NEW i \in Item, NEW c \in Category, Move(i, c) PROVE PurgeMove
  BY <1>5 DEF Move, items, process, PurgeMove, NoPurge, TypeOK, RestTyped, PurgeRow
<1>6. ASSUME NEW i \in Item, NEW n \in Name, Revise(i, n) PROVE PurgeMove
  BY <1>6 DEF Revise, items, process, PurgeMove, NoPurge, TypeOK, RestTyped, PurgeRow
<1>7. ASSUME NEW p \in Publisher, NEW i \in Item, NEW v \in 1 .. NVersions, PublishCheck(p, i, v)
      PROVE  PurgeMove
  BY <1>7 DEF PublishCheck, items, process, PurgeMove, NoPurge, TypeOK, RestTyped, PurgeRow
<1>8. ASSUME NEW p \in Publisher, NEW j \in Job, PublishInsert(p, j) PROVE PurgeMove
  BY <1>8 DEF PublishInsert, items, process, PurgeMove, NoPurge, TypeOK, RestTyped, PurgeRow
<1>9. ASSUME NEW p \in Publisher, PublishRefused(p) PROVE PurgeMove
  BY <1>9 DEF PublishRefused, items, process, PurgeMove, NoPurge, TypeOK, RestTyped, PurgeRow
<1>10. ASSUME Take PROVE PurgeMove
  BY <1>10 DEF Take, items, process, PurgeMove, NoPurge, TypeOK, RestTyped, PurgeRow
<1>11. ASSUME Stage PROVE PurgeMove
  BY <1>11 DEF Stage, items, process, PurgeMove, NoPurge, TypeOK, RestTyped, PurgeRow
<1>12. ASSUME Write PROVE PurgeMove
  BY <1>12 DEF Write, items, process, PurgeMove, NoPurge, TypeOK, RestTyped, PurgeRow
<1>13. ASSUME Promote PROVE PurgeMove
  BY <1>13 DEF Promote, items, process, PurgeMove, NoPurge, TypeOK, RestTyped, PurgeRow
<1>14. ASSUME PromoteCancelled PROVE PurgeMove
  BY <1>14 DEF PromoteCancelled, items, process, PurgeMove, NoPurge, TypeOK, RestTyped, PurgeRow
<1>15. ASSUME Fail PROVE PurgeMove
  BY <1>15 DEF Fail, items, process, PurgeMove, NoPurge, TypeOK, RestTyped, PurgeRow
<1>16. ASSUME CleanCancelled PROVE PurgeMove
  BY <1>16 DEF CleanCancelled, items, process, PurgeMove, NoPurge, TypeOK, RestTyped, PurgeRow
<1>17. ASSUME NEW c \in Category, ForceDelete(c) PROVE PurgeMove
  BY <1>17 DEF ForceDelete, items, process, PurgeMove, NoPurge, TypeOK, RestTyped, PurgeRow
<1>18. ASSUME NEW S \in SUBSET Item, PurgeRequest(S) PROVE PurgeMove
  BY <1>18 DEF PurgeRequest, items, process, PurgeMove, NoPurge, TypeOK, RestTyped, PurgeRow
<1>19. ASSUME PurgePlan PROVE PurgeMove
  BY <1>19 DEF PurgePlan, items, process, PurgeMove, NoPurge, TypeOK, RestTyped, PurgeRow
<1>20. ASSUME PurgeRecords PROVE PurgeMove
  BY <1>20 DEF PurgeRecords, items, process, PurgeMove, NoPurge, TypeOK, RestTyped, PurgeRow
<1>21. ASSUME PurgeFails PROVE PurgeMove
  BY <1>21 DEF PurgeFails, items, process, PurgeMove, NoPurge, TypeOK, RestTyped, PurgeRow
<1>22. ASSUME Crash PROVE PurgeMove
  BY <1>22 DEF Crash, items, process, PurgeMove, NoPurge, TypeOK, RestTyped, PurgeRow
<1>23. ASSUME Boot PROVE PurgeMove
  BY <1>23 DEF Boot, items, process, PurgeMove, NoPurge, TypeOK, RestTyped, PurgeRow
<1> QED
  BY <1>1, <1>2, <1>3, <1>4, <1>5, <1>6, <1>7, <1>8, <1>9, <1>10, <1>11, <1>12, <1>13, <1>14,
     <1>15, <1>16, <1>17, <1>18, <1>19, <1>20, <1>21, <1>22, <1>23 DEF Next

(* A planned item stays in the bin with no active job, unless it is overtaken. *)
LEMMA PlannedStays ==
  ASSUME ContentAssumption, TypeOK, RowsFilled, Purging, TypeOK', Moves, overtaken \subseteq overtaken',
         NEW i \in Item, i \notin overtaken', i \in purge.planned \/ purge.half = i, ~ ItemPurged(i)
  PROVE  stage'[i] = "archived" /\ \A j \in Job : job'[j].item = i => ~ Active(j)'
<1>1. stage[i] = "archived" /\ \A j \in Job : job[j].item = i => ~ Active(j)
  BY DEF Purging
<1>2. stage'[i] = "archived"
  BY <1>1 DEF Moves, ItemMove, ItemUploaded, ItemStays
<1>3. ASSUME NEW j \in Job, job'[j].item = i PROVE ~ Active(j)'
  <2>1. CASE job[j].status # "absent"
    BY <1>1, <1>3, <2>1, RowStays, InactiveStays
  <2>2. CASE job[j].status = "absent"
    <3>1. job'[j] = job[j] \/ RowAdded(j)
      BY <2>2 DEF Moves, RowMove
    <3>2. ~ RowAdded(j)
      BY <1>2, <1>3 DEF RowAdded
    <3> QED
      BY <2>2, <3>1, <3>2 DEF Active
  <2> QED
    BY <2>1, <2>2
<1> QED
  BY <1>2, <1>3

(* What a worker with no active job has written it does not leave behind. *)
LEMMA WriterStays ==
  ASSUME NEW e, IndexMove(e), e[1] \notin overtaken',
         e \in indexed => worker.item = e[1] /\ worker.version = e[2],
         \A j \in Job : job[j].item = e[1] => ~ Active(j)
  PROVE  worker'.item = e[1] /\ worker'.version = e[2]
  BY DEF IndexMove

LEMMA PurgingStep ==
  ASSUME ContentAssumption, TypeOK, RowsFilled, Purging, TypeOK', Moves, PurgeMove,
         overtaken \subseteq overtaken', \A e \in indexed' : IndexMove(e)
  PROVE  Purging'
<1> DEFINE Binned(i) == stage'[i] = "archived" /\ \A j \in Job : job'[j].item = i => ~ Active(j)'
           Through(i) == \A e \in indexed' : e[1] = i => worker'.item = i /\ worker'.version = e[2]
<1>1. SUFFICES /\ purge'.half \notin purge'.planned
               /\ \A i \in Item \ overtaken' :
                    /\ i \in purge'.planned \/ purge'.half = i => Binned(i)
                    /\ purge'.half = i => Through(i)
  BY <1>1 DEF Purging
<1>2. /\ purge.planned \subseteq Item /\ purge'.planned \subseteq Item /\ NoItem \notin Item
      /\ purge.half \notin purge.planned
  BY DEF TypeOK, RestTyped, PurgeRow, ContentAssumption, Purging
<1>3. CASE purge' = purge
  <2>1. SUFFICES ASSUME NEW i \in Item \ overtaken', i \in purge.planned \/ purge.half = i
                 PROVE  Binned(i) /\ (purge.half = i => Through(i))
    BY <1>2, <1>3, <2>1
  <2>2. ~ ItemPurged(i)
    BY <1>2, <1>3 DEF ItemPurged
  <2>3. Binned(i)
    BY <2>1, <2>2, PlannedStays
  <2>4. ASSUME purge.half = i, NEW e \in indexed', e[1] = i
        PROVE  worker'.item = i /\ worker'.version = e[2]
    <3>1. /\ e \in indexed => worker.item = i /\ worker.version = e[2]
          /\ \A j \in Job : job[j].item = i => ~ Active(j)
      BY <2>4 DEF Purging
    <3> QED
      BY <2>4, <3>1, WriterStays
  <2> QED
    BY <2>3, <2>4
<1>4. CASE purge'.planned \subseteq purge.planned /\ purge'.half = NoItem
  <2>1. ASSUME NEW i \in Item \ overtaken', i \in purge'.planned PROVE Binned(i)
    <3>1. i \in purge.planned /\ ~ ItemPurged(i)
      BY <1>2, <1>4, <2>1 DEF ItemPurged
    <3> QED
      BY <3>1, PlannedStays
  <2> QED
    BY <1>2, <1>4, <2>1
<1>5. CASE /\ \E i \in purge.planned :
                purge'.half = i /\ purge'.planned = purge.planned \ {i} /\ \A e \in indexed' : e[1] # i
           /\ stage' = stage /\ job' = job
  <2>1. \A i \in Item \ overtaken' : i \in purge.planned => Binned(i)
    BY <1>5 DEF Purging, Active
  <2>2. PICK k \in purge.planned : /\ purge'.half = k /\ purge'.planned = purge.planned \ {k}
                                   /\ \A e \in indexed' : e[1] # k
    BY <1>5
  <2> QED
    BY <2>1, <2>2
<1>6. CASE /\ purge'.half = NoItem /\ stage' = stage /\ job' = job
           /\ \A i \in purge'.planned : Purgeable(i)
  <2>1. \A i \in purge'.planned : Binned(i)
    BY <1>6 DEF Purgeable, JobsOf, Active
  <2> QED
    BY <1>2, <1>6, <2>1
<1> QED
  BY <1>3, <1>4, <1>5, <1>6 DEF PurgeMove

(* A purged item has no active job, nor had the one that is purged now. *)
LEMMA ForgottenStep ==
  ASSUME ContentAssumption, TypeOK, RowsFilled, Purging, PurgedForgotten, TypeOK', Moves,
         overtaken \subseteq overtaken', \A e \in indexed' : IndexMove(e)
  PROVE  PurgedForgotten'
<1>1. SUFFICES ASSUME NEW e \in indexed', stage'[e[1]] = "purged", e[1] \notin overtaken'
               PROVE  worker'.item = e[1] /\ worker'.version = e[2]
  BY <1>1 DEF PurgedForgotten
<1>2. e[1] \in Item /\ e[1] \notin overtaken
  BY <1>1 DEF TypeOK, RestTyped
<1>3. CASE stage[e[1]] = "purged"
  <2>1. \A j \in Job : job[j].item = e[1] => ~ Active(j)
    BY <1>3 DEF RowsFilled, Active, Live
  <2> QED
    BY <1>1, <1>2, <1>3, <2>1, WriterStays DEF PurgedForgotten
<1>4. CASE stage[e[1]] # "purged"
  <2>1. purge.half = e[1]
    BY <1>1, <1>2, <1>4 DEF Moves, ItemMove, ItemUploaded, ItemPurged, ItemStays
  <2>2. /\ e \in indexed => worker.item = e[1] /\ worker.version = e[2]
        /\ \A j \in Job : job[j].item = e[1] => ~ Active(j)
    BY <1>2, <2>1 DEF Purging
  <2> QED
    BY <1>1, <2>2, WriterStays
<1> QED
  BY <1>3, <1>4

-----------------------------------------------------------------------------
(* The publication that is served. *)

(* What Serving says of an item that has a head, after the step. *)
ServedNext(k) ==
  LET h == job'[head'[k]] IN
  /\ stage'[k] = "active" /\ h.status = "done" /\ h.pub = "published"
  /\ life'[k][h.version] = "published"
  /\ k \notin Attachment => <<k, h.version>> \in indexed'

(* The step leaves the label of the version that is served, and its text. *)
LabelKept(k) ==
  head[k] # None /\ head'[k] = head[k] => life'[k][job[head[k]].version] = "published"
TextKept(k) ==
  head[k] # None /\ head'[k] = head[k] /\ k \notin Attachment =>
    <<k, job[head[k]].version>> \in indexed'

(* The row of a head counts, and its version is one of the item's. *)
LEMMA HeadRow ==
  ASSUME TypeOK, RowsFilled, ItemsFilled, Serving, NEW k \in Item \ overtaken, head[k] # None
  PROVE  /\ head[k] \in Job /\ job[head[k]].item = k /\ stage[k] = "active"
         /\ job[head[k]].status = "done" /\ job[head[k]].pub = "published"
         /\ job[head[k]].version \in 1 .. Len(life[k]) /\ life[k][job[head[k]].version] = "published"
         /\ k \notin Attachment => <<k, job[head[k]].version>> \in indexed
<1>1. head[k] \in Job /\ job[head[k]].item = k
  BY DEF TypeOK, ItemsTyped, ItemsFilled
<1> QED
  BY <1>1 DEF Serving, RowsFilled, Latest

(* The label of an item's versions is left, or its head is not. *)
LEMMA LabelLeft ==
  ASSUME TypeOK, RowsFilled, ItemsFilled, Serving, NEW k \in Item \ overtaken,
         life'[k] = life[k] \/ head'[k] # head[k] \/ head[k] = None
  PROVE  LabelKept(k)
<1>1. head[k] # None => life[k][job[head[k]].version] = "published"
  BY HeadRow
<1> QED
  BY <1>1 DEF LabelKept

(* The version at work is open as well, so it is another one. *)
LEMMA OtherVersion ==
  ASSUME TypeOK, RowsFilled, ItemsFilled, OneOpen, Serving, NEW k \in Item \ overtaken, head[k] # None,
         NEW j \in Job, job[j].item = k, job[j].pub \in {"pending", "indexing"}
  PROVE  job[j].version # job[head[k]].version
<1>1. head[k] \in Job /\ job[head[k]].item = k /\ job[head[k]].pub = "published"
  BY HeadRow
<1> QED
  BY <1>1 DEF OneOpen, Open

LEMMA LabelsKept ==
  ASSUME ContentAssumption, TypeOK, RowsFilled, ItemsFilled, OneOpen, Checked, Working, Serving, Next
  PROVE  \A k \in Item \ overtaken : LabelKept(k)
<1>1. ASSUME NEW i \in Item, NEW c \in Category, NEW n \in Name, Upload(i, c, n)
      PROVE  \A k \in Item \ overtaken : LabelKept(k)
  <2>1. \A k \in Item \ {i} : life'[k] = life[k]
    BY <1>1 DEF Upload
  <2>2. head[i] = None
    BY <1>1 DEF Upload, ItemsFilled
  <2> QED
    BY <2>1, <2>2, LabelLeft
<1>2. ASSUME NEW i \in Item, Archive(i) PROVE \A k \in Item \ overtaken : LabelKept(k)
  BY <1>2 DEF Archive, items, LabelKept, Serving
<1>3. ASSUME NEW i \in Item, PurgeExternal(i) PROVE \A k \in Item \ overtaken : LabelKept(k)
  BY <1>3 DEF PurgeExternal, items, LabelKept, Serving
<1>4. ASSUME NEW i \in Item, NEW c \in Category, Restore(i, c)
      PROVE  \A k \in Item \ overtaken : LabelKept(k)
  <2>1. \A k \in Item \ {i} : life'[k] = life[k]
    BY <1>4 DEF Restore, TypeOK, ItemsTyped
  <2>2. i \notin overtaken => head[i] = None
    BY <1>4, HeadRow DEF Restore
  <2> QED
    BY <2>1, <2>2, LabelLeft
<1>5. ASSUME NEW i \in Item, NEW c \in Category, Move(i, c)
      PROVE  \A k \in Item \ overtaken : LabelKept(k)
  BY <1>5 DEF Move, items, LabelKept, Serving
<1>6. ASSUME NEW i \in Item, NEW n \in Name, Revise(i, n)
      PROVE  \A k \in Item \ overtaken : LabelKept(k)
  <2>1. \A k \in Item \ {i} : life'[k] = life[k]
    BY <1>6 DEF Revise
  <2>2. ASSUME i \notin overtaken, head[i] # None PROVE LabelKept(i)
    <3> DEFINE w == job[head[i]].version
               z == Latest(i)
               old == IF head[i] # None /\ w = z THEN life[i] ELSE [life[i] EXCEPT ![z] = "superseded"]
    <3>1. life[i] \in Seq(Lives) /\ z = Len(life[i]) /\ w \in 1 .. Len(life[i]) /\ life[i][w] = "published"
      <4>1. i \in Item \ overtaken
        BY <2>2
      <4>2. w \in 1 .. Len(life[i]) /\ life[i][w] = "published"
        BY <2>2, <4>1, HeadRow
      <4> QED
        BY <4>2 DEF TypeOK, ItemsTyped, Latest
    <3>2. old \in Seq(Lives) /\ Len(old) = Len(life[i]) /\ old[w] = "published"
      BY <2>2, <3>1 DEF Lives
    <3>3. life'[i] = Append(old, "pending_publication")
      BY <1>6 DEF Revise, TypeOK, ItemsTyped
    <3> HIDE DEF old
    <3>4. Append(old, "pending_publication")[w] = "published"
      BY <3>1, <3>2
    <3> QED
      BY <3>3, <3>4 DEF LabelKept
  <2>3. head[i] = None => LabelKept(i)
    BY DEF LabelKept
  <2> QED
    BY <2>1, <2>2, <2>3, LabelLeft
<1>7. ASSUME NEW p \in Publisher, NEW i \in Item, NEW v \in 1 .. NVersions, PublishCheck(p, i, v)
      PROVE  \A k \in Item \ overtaken : LabelKept(k)
  BY <1>7 DEF PublishCheck, items, LabelKept, Serving
<1>8. ASSUME NEW p \in Publisher, NEW j \in Job, PublishInsert(p, j)
      PROVE  \A k \in Item \ overtaken : LabelKept(k)
  <2> DEFINE q == request[p].item
             v == request[p].version
  <2>1. /\ q \in Item /\ v \in 1 .. Len(life[q]) /\ "publishing" \in Lives
        /\ life' = [life EXCEPT ![q][v] = "publishing"]
    BY <1>8 DEF PublishInsert, Vacant, Checked, Latest, Lives, TypeOK, RestTyped, RequestRow
  <2>2. LifeSet(life, life', q, v, "publishing")
    BY <2>1, SetLife DEF TypeOK, ItemsTyped
  <2>3. ASSUME NEW k \in Item \ overtaken, head[k] # None, k = q
        PROVE  job[head[k]].version # v
    <3>1. head[k] \in Job /\ job[head[k]].item = k /\ job[head[k]].pub = "published"
      BY <2>3, HeadRow
    <3> QED
      BY <1>8, <2>3, <3>1 DEF PublishInsert, Vacant, VersionJobs, JobsOf, Open
  <2>4. ASSUME NEW k \in Item \ overtaken, head[k] # None
        PROVE  life'[k][job[head[k]].version] = "published"
    <3>1. job[head[k]].version \in 1 .. Len(life[k]) /\ life[k][job[head[k]].version] = "published"
      BY <2>4, HeadRow
    <3> QED
      BY <2>2, <2>3, <2>4, <3>1 DEF LifeSet
  <2> QED
    BY <2>4 DEF LabelKept
<1>9. ASSUME NEW p \in Publisher, PublishRefused(p) PROVE \A k \in Item \ overtaken : LabelKept(k)
  BY <1>9 DEF PublishRefused, items, LabelKept, Serving
<1>10. ASSUME Take PROVE \A k \in Item \ overtaken : LabelKept(k)
  BY <1>10 DEF Take, items, LabelKept, Serving
<1>11. ASSUME Stage PROVE \A k \in Item \ overtaken : LabelKept(k)
  BY <1>11 DEF Stage, items, LabelKept, Serving
<1>12. ASSUME Write PROVE \A k \in Item \ overtaken : LabelKept(k)
  BY <1>12 DEF Write, items, LabelKept, Serving
<1>13. ASSUME Promote PROVE \A k \in Item \ overtaken : LabelKept(k)
  <2>1. /\ worker.job \in Job /\ worker.item \in Item /\ Active(worker.job)
        /\ \A k \in Item \ {worker.item} : life'[k] = life[k]
        /\ head'[worker.item] = worker.job
    BY <1>13 DEF Promote, Ready, Working, TypeOK, ItemsTyped
  <2>2. head[worker.item] = worker.job => worker.item \in overtaken
    <3>1. worker.job # None
      BY <2>1 DEF Job, None
    <3> QED
      BY ZenonT(60), <2>1, <3>1, HeadRow DEF Active
  <2> QED
    BY <2>1, <2>2, LabelLeft
<1>14. ASSUME PromoteCancelled PROVE \A k \in Item \ overtaken : LabelKept(k)
  BY <1>14 DEF PromoteCancelled, items, LabelKept, Serving
<1>15. ASSUME Fail PROVE \A k \in Item \ overtaken : LabelKept(k)
  <2> DEFINE q == worker.item
             v == worker.version
  <2>1. CASE job[worker.job].status = "deleted" \/ job[worker.job].forced
    BY <1>15, <2>1, LabelLeft DEF Fail
  <2>2. CASE ~ (job[worker.job].status = "deleted" \/ job[worker.job].forced)
    <3>1. /\ worker.job \in Job /\ q \in Item /\ job[worker.job].item = q
          /\ job[worker.job].version = v /\ job[worker.job].pub \in {"pending", "indexing"}
          /\ job[worker.job].status \notin {"absent", "deleted"}
      BY <1>15, <2>2 DEF Fail, Working
    <3>2. v \in 1 .. Len(life[q]) /\ "publication_failed" \in Lives
      BY <3>1 DEF RowsFilled, Latest, Lives
    <3>3. life' = [life EXCEPT ![q][v] = "publication_failed"]
      BY <1>15, <2>2 DEF Fail
    <3>4. LifeSet(life, life', q, v, "publication_failed")
      BY <3>1, <3>2, <3>3, SetLife DEF TypeOK, ItemsTyped
    <3>5. ASSUME NEW k \in Item \ overtaken, head[k] # None
          PROVE  life'[k][job[head[k]].version] = "published"
      <4>1. job[head[k]].version \in 1 .. Len(life[k]) /\ life[k][job[head[k]].version] = "published"
        BY <3>5, HeadRow
      <4>2. k = q => job[head[k]].version # v
        BY <3>1, <3>5, OtherVersion
      <4> QED
        BY <3>4, <3>5, <4>1, <4>2 DEF LifeSet
    <3> QED
      BY <3>5 DEF LabelKept
  <2> QED
    BY <2>1, <2>2
<1>16. ASSUME CleanCancelled PROVE \A k \in Item \ overtaken : LabelKept(k)
  BY <1>16 DEF CleanCancelled, items, LabelKept, Serving
<1>17. ASSUME NEW c \in Category, ForceDelete(c) PROVE \A k \in Item \ overtaken : LabelKept(k)
  BY <1>17 DEF ForceDelete, items, LabelKept, Serving
<1>18. ASSUME NEW S \in SUBSET Item, PurgeRequest(S) PROVE \A k \in Item \ overtaken : LabelKept(k)
  BY <1>18 DEF PurgeRequest, items, LabelKept, Serving
<1>19. ASSUME PurgePlan PROVE \A k \in Item \ overtaken : LabelKept(k)
  BY <1>19 DEF PurgePlan, items, LabelKept, Serving
<1>20. ASSUME PurgeRecords PROVE \A k \in Item \ overtaken : LabelKept(k)
  <2>1. \A k \in Item : life'[k] = life[k] \/ head'[k] = None
    BY <1>20 DEF PurgeRecords, TypeOK, ItemsTyped
  <2> QED
    BY <2>1, LabelLeft
<1>21. ASSUME PurgeFails PROVE \A k \in Item \ overtaken : LabelKept(k)
  BY <1>21 DEF PurgeFails, items, LabelKept, Serving
<1>22. ASSUME Crash PROVE \A k \in Item \ overtaken : LabelKept(k)
  BY <1>22 DEF Crash, items, LabelKept, Serving
<1>23. ASSUME Boot PROVE \A k \in Item \ overtaken : LabelKept(k)
  <2>1. ASSUME NEW k \in Item \ overtaken, head[k] # None
        PROVE  life'[k][job[head[k]].version] = "published"
    <3> DEFINE v == job[head[k]].version
    <3>1. v \in DOMAIN life[k] /\ life[k][v] = "published"
      <4>1. v \in 1 .. Len(life[k]) /\ life[k][v] = "published"
        BY <2>1, HeadRow
      <4> QED
        BY <4>1 DEF TypeOK, ItemsTyped
    <3>2. \A j \in Interrupted : job[j].item = k => job[j].version # v
      BY <2>1, OtherVersion DEF Interrupted, RowsFilled, Active
    <3> QED
      BY <1>23, <3>1, <3>2 DEF Boot
  <2> QED
    BY <2>1 DEF LabelKept
<1> QED
  BY <1>1, <1>2, <1>3, <1>4, <1>5, <1>6, <1>7, <1>8, <1>9, <1>10, <1>11, <1>12, <1>13, <1>14,
     <1>15, <1>16, <1>17, <1>18, <1>19, <1>20, <1>21, <1>22, <1>23 DEF Next

LEMMA TextsKept ==
  ASSUME ContentAssumption, TypeOK, RowsFilled, ItemsFilled, OneOpen, Working, Purging, Serving, Next
  PROVE  \A k \in Item \ overtaken : TextKept(k)
<1>1. ASSUME NEW i \in Item, NEW c \in Category, NEW n \in Name, Upload(i, c, n)
      PROVE  \A k \in Item \ overtaken : TextKept(k)
  BY <1>1 DEF Upload, items, TextKept, Serving
<1>2. ASSUME NEW i \in Item, Archive(i) PROVE \A k \in Item \ overtaken : TextKept(k)
  BY <1>2 DEF Archive, items, TextKept, Serving
<1>3. ASSUME NEW i \in Item, PurgeExternal(i) PROVE \A k \in Item \ overtaken : TextKept(k)
  <2>1. i \notin overtaken => head[i] = None
    <3>1. i \in Item \ overtaken => stage[i] = "archived"
      BY <1>3 DEF PurgeExternal, Purging
    <3>2. i \in Item \ overtaken /\ head[i] # None => stage[i] = "active"
      BY HeadRow
    <3> QED
      BY <3>1, <3>2
  <2>2. indexed' = {e \in indexed : e[1] # i}
    BY <1>3 DEF PurgeExternal
  <2> QED
    BY <2>1, <2>2 DEF TextKept, Serving
<1>4. ASSUME NEW i \in Item, NEW c \in Category, Restore(i, c)
      PROVE  \A k \in Item \ overtaken : TextKept(k)
  BY <1>4 DEF Restore, items, TextKept, Serving
<1>5. ASSUME NEW i \in Item, NEW c \in Category, Move(i, c)
      PROVE  \A k \in Item \ overtaken : TextKept(k)
  BY <1>5 DEF Move, items, TextKept, Serving
<1>6. ASSUME NEW i \in Item, NEW n \in Name, Revise(i, n)
      PROVE  \A k \in Item \ overtaken : TextKept(k)
  BY <1>6 DEF Revise, items, TextKept, Serving
<1>7. ASSUME NEW p \in Publisher, NEW i \in Item, NEW v \in 1 .. NVersions, PublishCheck(p, i, v)
      PROVE  \A k \in Item \ overtaken : TextKept(k)
  BY <1>7 DEF PublishCheck, items, TextKept, Serving
<1>8. ASSUME NEW p \in Publisher, NEW j \in Job, PublishInsert(p, j)
      PROVE  \A k \in Item \ overtaken : TextKept(k)
  BY <1>8 DEF PublishInsert, items, TextKept, Serving
<1>9. ASSUME NEW p \in Publisher, PublishRefused(p) PROVE \A k \in Item \ overtaken : TextKept(k)
  BY <1>9 DEF PublishRefused, items, TextKept, Serving
<1>10. ASSUME Take PROVE \A k \in Item \ overtaken : TextKept(k)
  BY <1>10 DEF Take, items, TextKept, Serving
<1>11. ASSUME Stage PROVE \A k \in Item \ overtaken : TextKept(k)
  BY <1>11 DEF Stage, items, TextKept, Serving
<1>12. ASSUME Write PROVE \A k \in Item \ overtaken : TextKept(k)
  BY <1>12 DEF Write, items, TextKept, Serving
<1>13. ASSUME Promote PROVE \A k \in Item \ overtaken : TextKept(k)
  BY <1>13 DEF Promote, items, TextKept, Serving
<1>14. ASSUME PromoteCancelled PROVE \A k \in Item \ overtaken : TextKept(k)
  BY <1>14 DEF PromoteCancelled, items, TextKept, Serving
<1>15. ASSUME Fail PROVE \A k \in Item \ overtaken : TextKept(k)
  BY <1>15 DEF Fail, items, TextKept, Serving
<1>16. ASSUME CleanCancelled PROVE \A k \in Item \ overtaken : TextKept(k)
  <2>1. ASSUME NEW k \in Item \ overtaken, head[k] # None, k = worker.item
        PROVE  job[head[k]].version # worker.version
    <3>1. /\ worker.job \in Job /\ job[worker.job].item = k /\ job[worker.job].status # "absent"
          /\ job[worker.job].status # "deleted" =>
               job[worker.job].version = worker.version /\ job[worker.job].pub \in {"pending", "indexing"}
      BY <1>16, <2>1 DEF CleanCancelled, Working
    <3>2. job[worker.job].status # "deleted"
      <4>1. stage[k] = "active"
        BY <2>1, HeadRow
      <4> QED
        BY <3>1, <4>1 DEF RowsFilled
    <3> QED
      BY <2>1, <3>1, <3>2, OtherVersion
  <2>2. ASSUME NEW k \in Item \ overtaken, head[k] # None, k \notin Attachment
        PROVE  <<k, job[head[k]].version>> \in indexed'
    <3>1. <<k, job[head[k]].version>> \in indexed
      BY <2>2 DEF Serving
    <3>2. <<k, job[head[k]].version>> # <<worker.item, worker.version>>
      BY <2>1, <2>2
    <3> QED
      BY <1>16, <3>1, <3>2 DEF CleanCancelled
  <2> QED
    BY <2>2 DEF TextKept
<1>17. ASSUME NEW c \in Category, ForceDelete(c) PROVE \A k \in Item \ overtaken : TextKept(k)
  BY <1>17 DEF ForceDelete, items, TextKept, Serving
<1>18. ASSUME NEW S \in SUBSET Item, PurgeRequest(S) PROVE \A k \in Item \ overtaken : TextKept(k)
  BY <1>18 DEF PurgeRequest, items, TextKept, Serving
<1>19. ASSUME PurgePlan PROVE \A k \in Item \ overtaken : TextKept(k)
  BY <1>19 DEF PurgePlan, items, TextKept, Serving
<1>20. ASSUME PurgeRecords PROVE \A k \in Item \ overtaken : TextKept(k)
  BY <1>20 DEF PurgeRecords, items, TextKept, Serving
<1>21. ASSUME PurgeFails PROVE \A k \in Item \ overtaken : TextKept(k)
  BY <1>21 DEF PurgeFails, items, TextKept, Serving
<1>22. ASSUME Crash PROVE \A k \in Item \ overtaken : TextKept(k)
  BY <1>22 DEF Crash, items, TextKept, Serving
<1>23. ASSUME Boot PROVE \A k \in Item \ overtaken : TextKept(k)
  BY <1>23 DEF Boot, items, TextKept, Serving
<1> QED
  BY <1>1, <1>2, <1>3, <1>4, <1>5, <1>6, <1>7, <1>8, <1>9, <1>10, <1>11, <1>12, <1>13, <1>14,
     <1>15, <1>16, <1>17, <1>18, <1>19, <1>20, <1>21, <1>22, <1>23 DEF Next

(* A new head is the publication the worker promotes. *)
HeadMove(k) == head'[k] \in {head[k], None} \/ ServedNext(k)

LEMMA HeadsMove ==
  ASSUME ContentAssumption, TypeOK, RowsFilled, Working, Next
  PROVE  \A k \in Item \ overtaken' : HeadMove(k)
<1>1. ASSUME NEW i \in Item, NEW c \in Category, NEW n \in Name, Upload(i, c, n)
      PROVE  \A k \in Item \ overtaken' : HeadMove(k)
  BY <1>1 DEF Upload, items, HeadMove, Headless, TypeOK, ItemsTyped
<1>2. ASSUME NEW i \in Item, Archive(i) PROVE \A k \in Item \ overtaken' : HeadMove(k)
  BY <1>2 DEF Archive, items, HeadMove, Headless, TypeOK, ItemsTyped
<1>3. ASSUME NEW i \in Item, PurgeExternal(i) PROVE \A k \in Item \ overtaken' : HeadMove(k)
  BY <1>3 DEF PurgeExternal, items, HeadMove, Headless, TypeOK, ItemsTyped
<1>4. ASSUME NEW i \in Item, NEW c \in Category, Restore(i, c)
      PROVE  \A k \in Item \ overtaken' : HeadMove(k)
  BY <1>4 DEF Restore, items, HeadMove, Headless, TypeOK, ItemsTyped
<1>5. ASSUME NEW i \in Item, NEW c \in Category, Move(i, c)
      PROVE  \A k \in Item \ overtaken' : HeadMove(k)
  BY <1>5 DEF Move, items, HeadMove, Headless, TypeOK, ItemsTyped
<1>6. ASSUME NEW i \in Item, NEW n \in Name, Revise(i, n)
      PROVE  \A k \in Item \ overtaken' : HeadMove(k)
  BY <1>6 DEF Revise, items, HeadMove, Headless, TypeOK, ItemsTyped
<1>7. ASSUME NEW p \in Publisher, NEW i \in Item, NEW v \in 1 .. NVersions, PublishCheck(p, i, v)
      PROVE  \A k \in Item \ overtaken' : HeadMove(k)
  BY <1>7 DEF PublishCheck, items, HeadMove, Headless, TypeOK, ItemsTyped
<1>8. ASSUME NEW p \in Publisher, NEW j \in Job, PublishInsert(p, j)
      PROVE  \A k \in Item \ overtaken' : HeadMove(k)
  BY <1>8 DEF PublishInsert, items, HeadMove, Headless, TypeOK, ItemsTyped
<1>9. ASSUME NEW p \in Publisher, PublishRefused(p) PROVE \A k \in Item \ overtaken' : HeadMove(k)
  BY <1>9 DEF PublishRefused, items, HeadMove, Headless, TypeOK, ItemsTyped
<1>10. ASSUME Take PROVE \A k \in Item \ overtaken' : HeadMove(k)
  BY <1>10 DEF Take, items, HeadMove, Headless, TypeOK, ItemsTyped
<1>11. ASSUME Stage PROVE \A k \in Item \ overtaken' : HeadMove(k)
  BY <1>11 DEF Stage, items, HeadMove, Headless, TypeOK, ItemsTyped
<1>12. ASSUME Write PROVE \A k \in Item \ overtaken' : HeadMove(k)
  BY <1>12 DEF Write, items, HeadMove, Headless, TypeOK, ItemsTyped
<1>13. ASSUME Promote PROVE \A k \in Item \ overtaken' : HeadMove(k)
  <2> DEFINE q == worker.item
             v == worker.version
             r == worker.job
  <2>1. /\ r \in Job /\ q \in Item /\ Active(r) /\ job[r].item = q /\ job[r].version = v
        /\ head' = [head EXCEPT ![q] = r]
    BY <1>13 DEF Promote, Ready, Working, Active
  <2>2. Live(q) /\ v \in 1 .. Len(life[q])
    BY <2>1 DEF RowsFilled, Latest, Active
  <2>3. job'[r].status = "done" /\ job'[r].pub = "published" /\ job'[r].version = v
    BY <1>13, <2>1 DEF Promote, TypeOK, JobRow
  <2>4. life'[q][v] = "published"
    <3>1. v \in DOMAIN life[q]
      BY <2>1, <2>2 DEF TypeOK, ItemsTyped
    <3> QED
      BY <1>13, <2>1, <3>1 DEF Promote, TypeOK, ItemsTyped
  <2>5. ASSUME q \notin overtaken' PROVE ServedNext(q)
    <3>1. stage'[q] = "active" /\ q \notin overtaken
      BY <1>13, <2>2, <2>5 DEF Promote, Live
    <3>2. q \notin Attachment => <<q, v>> \in indexed'
      BY <1>13, <2>1, <3>1 DEF Promote, Ready, Working
    <3>3. head'[q] = r
      BY <2>1 DEF TypeOK, ItemsTyped
    <3> QED
      BY <2>3, <2>4, <3>1, <3>2, <3>3 DEF ServedNext
  <2>6. \A k \in Item \ {q} : head'[k] = head[k]
    BY <2>1 DEF TypeOK, ItemsTyped
  <2> QED
    BY <2>5, <2>6 DEF HeadMove
<1>14. ASSUME PromoteCancelled PROVE \A k \in Item \ overtaken' : HeadMove(k)
  BY <1>14 DEF PromoteCancelled, items, HeadMove, Headless, TypeOK, ItemsTyped
<1>15. ASSUME Fail PROVE \A k \in Item \ overtaken' : HeadMove(k)
  BY <1>15 DEF Fail, items, HeadMove, Headless, TypeOK, ItemsTyped
<1>16. ASSUME CleanCancelled PROVE \A k \in Item \ overtaken' : HeadMove(k)
  BY <1>16 DEF CleanCancelled, items, HeadMove, Headless, TypeOK, ItemsTyped
<1>17. ASSUME NEW c \in Category, ForceDelete(c) PROVE \A k \in Item \ overtaken' : HeadMove(k)
  BY <1>17 DEF ForceDelete, items, HeadMove, Headless, TypeOK, ItemsTyped
<1>18. ASSUME NEW S \in SUBSET Item, PurgeRequest(S) PROVE \A k \in Item \ overtaken' : HeadMove(k)
  BY <1>18 DEF PurgeRequest, items, HeadMove, Headless, TypeOK, ItemsTyped
<1>19. ASSUME PurgePlan PROVE \A k \in Item \ overtaken' : HeadMove(k)
  BY <1>19 DEF PurgePlan, items, HeadMove, Headless, TypeOK, ItemsTyped
<1>20. ASSUME PurgeRecords PROVE \A k \in Item \ overtaken' : HeadMove(k)
  BY <1>20 DEF PurgeRecords, items, HeadMove, Headless, TypeOK, ItemsTyped
<1>21. ASSUME PurgeFails PROVE \A k \in Item \ overtaken' : HeadMove(k)
  BY <1>21 DEF PurgeFails, items, HeadMove, Headless, TypeOK, ItemsTyped
<1>22. ASSUME Crash PROVE \A k \in Item \ overtaken' : HeadMove(k)
  BY <1>22 DEF Crash, items, HeadMove, Headless, TypeOK, ItemsTyped
<1>23. ASSUME Boot PROVE \A k \in Item \ overtaken' : HeadMove(k)
  BY <1>23 DEF Boot, items, HeadMove, Headless, TypeOK, ItemsTyped
<1> QED
  BY <1>1, <1>2, <1>3, <1>4, <1>5, <1>6, <1>7, <1>8, <1>9, <1>10, <1>11, <1>12, <1>13, <1>14,
     <1>15, <1>16, <1>17, <1>18, <1>19, <1>20, <1>21, <1>22, <1>23 DEF Next

LEMMA ServingStep ==
  ASSUME ContentAssumption, TypeOK, RowsFilled, ItemsFilled, Serving, TypeOK', ItemsFilled', Moves,
         overtaken \subseteq overtaken', \A k \in Item \ overtaken : LabelKept(k) /\ TextKept(k),
         \A k \in Item \ overtaken' : HeadMove(k)
  PROVE  Serving'
<1>1. SUFFICES ASSUME NEW k \in Item \ overtaken', head'[k] # None PROVE ServedNext(k)
  BY <1>1 DEF Serving, ServedNext
<1>2. CASE head'[k] = head[k]
  <2> DEFINE h == head[k]
  <2>1. k \in Item \ overtaken /\ h # None
    BY <1>1, <1>2
  <2>2. /\ h \in Job /\ job[h].item = k /\ stage[k] = "active"
        /\ job[h].status = "done" /\ job[h].pub = "published"
    BY <2>1, HeadRow
  <2>3. stage'[k] = "active"
    BY <1>1, <1>2, <2>2 DEF Moves, ItemMove, ItemUploaded, ItemPurged, ItemStays, None, Job
  <2>4. job'[h] = job[h]
    <3>1. RowMove(h)
      BY <2>2 DEF Moves
    <3> QED
      BY <1>2, <2>2, <2>3, <3>1 DEF RowMove, RowAdded, RowGoesOn, RowPurged
  <2>5. LabelKept(k) /\ TextKept(k)
    BY <2>1
  <2> QED
    BY <1>2, <2>1, <2>2, <2>3, <2>4, <2>5 DEF LabelKept, TextKept, ServedNext
<1>3. CASE head'[k] # head[k]
  BY <1>1, <1>3 DEF HeadMove
<1> QED
  BY <1>2, <1>3

-----------------------------------------------------------------------------
(* The invariant. *)

LEMMA InitInvariant ==
  ASSUME ContentAssumption, Init
  PROVE  IInv
<1>1. ItemsTyped
  <2>1. stage \in [Item -> Stages] /\ head \in [Item -> Job \cup {None}]
    BY DEF Init, Stages
  <2>2. category \in [Item -> Category] /\ name \in [Item -> Name]
    <3>1. (CHOOSE c \in Category : TRUE) \in Category /\ (CHOOSE n \in Name : TRUE) \in Name
      BY DEF ContentAssumption
    <3> QED
      BY <3>1 DEF Init
  <2>3. life \in [Item -> Seq(Lives)]
    BY DEF Init
  <2> QED
    BY <2>1, <2>2, <2>3 DEF ItemsTyped
<1>2. job \in [Job -> JobRow]
  BY DEF Init, NoJob, JobRow
<1>3. RestTyped
  BY DEF Init, RestTyped, NoRequest, RequestRow, NoWork, WorkRow, NoPurge, PurgeRow, None
<1>4. RowsFilled /\ OneOpen
  BY DEF Init, RowsFilled, OneOpen, NoJob, Active, Open
<1>5. ItemsFilled
  BY DEF Init, ItemsFilled, Live
<1>6. Checked /\ Working
  BY DEF Init, Checked, Working, NoRequest, NoWork
<1>7. Driven /\ Halted
  BY DEF Init, Driven, Halted, NoJob
<1>8. Purging
  BY DEF Init, Purging, NoPurge, ContentAssumption
<1>9. Serving /\ PurgedForgotten
  BY DEF Init, Serving, PurgedForgotten
<1> QED
  BY <1>1, <1>2, <1>3, <1>4, <1>5, <1>6, <1>7, <1>8, <1>9 DEF IInv, TypeOK

LEMMA MovesStep ==
  ASSUME ContentAssumption, IInv, Next
  PROVE  TypeOK' /\ Moves
<1>1. TypeOK'
  BY TypeStep DEF IInv
<1>2. \A j \in Job : RowMove(j)
  BY <1>1, RowsMove DEF IInv
<1>3. \A i \in Item : ItemMove(i)
  BY <1>1, ItemsMove DEF IInv
<1> QED
  BY <1>1, <1>2, <1>3 DEF Moves

LEMMA InvStep ==
  ASSUME ContentAssumption, IInv, Next
  PROVE  IInv'
<1>1. TypeOK' /\ Moves
  BY MovesStep
<1>2. RowsFilled'
  BY <1>1, RowsFilledStep DEF IInv
<1>3. ItemsFilled'
  BY <1>1, ItemsFilledStep DEF IInv
<1>4. OneOpen'
  BY <1>1, OneOpenStep DEF IInv
<1>5. Checked'
  BY <1>1, RequestsMove, CheckedStep DEF IInv
<1>6. Working'
  BY <1>1, WorkingStep DEF IInv
<1>7. Driven' /\ Halted'
  BY <1>1, DrivenStep, HaltedStep DEF IInv
<1>8. overtaken \subseteq overtaken' /\ \A e \in indexed' : IndexMove(e)
  BY <1>1, OvertakenStays, IndexStep DEF IInv
<1>9. Purging' /\ PurgedForgotten'
  BY <1>1, <1>8, PurgeStep, PurgingStep, ForgottenStep DEF IInv
<1>10. Serving'
  <2>1. \A k \in Item \ overtaken : LabelKept(k) /\ TextKept(k)
    BY LabelsKept, TextsKept DEF IInv
  <2>2. \A k \in Item \ overtaken' : HeadMove(k)
    BY HeadsMove DEF IInv
  <2> QED
    BY <1>1, <1>3, <1>8, <2>1, <2>2, ServingStep DEF IInv
<1> QED
  BY <1>1, <1>2, <1>3, <1>4, <1>5, <1>6, <1>7, <1>9, <1>10 DEF IInv

LEMMA InvStutter ==
  ASSUME IInv, UNCHANGED vars
  PROVE  IInv'
<1> USE DEF vars, items, process
<1>1. TypeOK' /\ RowsFilled' /\ ItemsFilled' /\ OneOpen'
  BY DEF IInv, TypeOK, ItemsTyped, RestTyped, RowsFilled, ItemsFilled, OneOpen, Active, Open,
     Live, Latest
<1>2. Checked' /\ Working' /\ Driven' /\ Halted'
  BY DEF IInv, Checked, Working, Driven, Halted, Active, Live, Latest
<1>3. Purging' /\ Serving' /\ PurgedForgotten'
  BY DEF IInv, Purging, Serving, PurgedForgotten, Active
<1> QED
  BY <1>1, <1>2, <1>3 DEF IInv

(* The tables of the library agree with each other, with the worker and with
   the purge, in every state the process, its crashes and its restarts reach:
   types, and everything the theorems below rest on. *)
THEOREM Invariant == Spec => []IInv
<1>1. Init => IInv
  BY InitInvariant, ContentAssumption
<1>2. IInv /\ [Next]_vars => IInv'
  BY InvStep, InvStutter, ContentAssumption
<1> QED
  BY <1>1, <1>2, PTL DEF Spec

(* A document that can be found is one that can be shown: the head of an active
   item is a published version, with its text in the index, whatever archives,
   restores, revisions, failures, purges and restarts were interleaved, unless
   one of the documented races has caught the item (content_store.py,
   content_publication.py). *)
THEOREM ServedIsSound == Spec => []ServedSound
<1>1. IInv => ServedSound
  <2>1. ASSUME IInv, NEW i \in Item \ overtaken, head[i] # None PROVE job[head[i]].item = i
    BY <2>1 DEF IInv, ItemsFilled
  <2> QED
    BY <2>1 DEF IInv, Serving, ServedSound
<1> QED
  BY <1>1, Invariant, PTL

(* No publication is forgotten by the queue, a cancelled run, a forced deletion
   or a restart (claim and recover_interrupted of content_publication.py). *)
THEOREM PublicationsAreDriven == Spec => []PublicationsDriven
<1>1. IInv => PublicationsDriven
  BY DEF IInv, RowsFilled, Driven, PublicationsDriven
<1> QED
  BY <1>1, Invariant, PTL

(* What is purged is forgotten: a publication that was running when its item was
   purged takes its text out again (content_trash_cleanup.py, indexing.py). *)
THEOREM PurgedIsForgotten == Spec => []PurgedForgotten
<1>1. IInv => PurgedForgotten
  BY DEF IInv
<1> QED
  BY <1>1, Invariant, PTL

(* No gap in retrieval: an item that stays in the library keeps its head until a
   publication that is promoted replaces it (finish_success, content_publication.py). *)
THEOREM HeadIsKept == Spec => HeadKept
<1> DEFINE Kept == \A i \in Item :
             head[i] # None /\ stage'[i] = "active" /\ head'[i] # head[i] =>
               head'[i] # None /\ job'[head'[i]].pub = "published"
<1>1. IInv /\ Next => Kept
  <2>1. SUFFICES ASSUME IInv, Next, NEW i \in Item,
                        head[i] # None, stage'[i] = "active", head'[i] # head[i]
                 PROVE  head'[i] # None /\ job'[head'[i]].pub = "published"
    BY <2>1
  <2>2. ItemMove(i)
    BY <2>1, MovesStep, ContentAssumption DEF Moves
  <2> QED
    BY <2>1, <2>2 DEF ItemMove, ItemUploaded, ItemPurged, ItemStays, Job, None
<1>2. IInv /\ [Next]_vars => [Kept]_vars
  BY <1>1
<1> QED
  BY <1>2, Invariant, PTL DEF Spec, HeadKept

(* An index job that is done or failed keeps its outcome and its reason until it
   is purged: neither the worker that was running it nor a recovery reopens it. *)
THEOREM SettledStay == Spec => SettledStays
<1> DEFINE Stays == \A j \in Job : job[j].status \in {"done", "failed"} =>
             \/ job'[j].status = "deleted"
             \/ job'[j].status = job[j].status /\ job'[j].forced = job[j].forced
<1>1. IInv /\ Next => Stays
  <2>1. SUFFICES ASSUME IInv, Next, NEW j \in Job, job[j].status \in {"done", "failed"}
                 PROVE  \/ job'[j].status = "deleted"
                        \/ job'[j].status = job[j].status /\ job'[j].forced = job[j].forced
    BY <2>1
  <2>2. RowMove(j)
    BY <2>1, MovesStep, ContentAssumption DEF Moves
  <2> QED
    BY <2>1, <2>2 DEF RowMove, RowAdded, RowGoesOn, RowPurged
<1>2. IInv /\ [Next]_vars => [Stays]_vars
  BY <1>1
<1> QED
  BY <1>2, Invariant, PTL DEF Spec, SettledStays
=============================================================================
