--------------------------- MODULE Reclassification ---------------------------
(***************************************************************************)
(* Moving a published document to another directory: a saga over the       *)
(* Qdrant points, the parents database, app.sqlite and the exported view,  *)
(* with its compensation and its recovery at boot                          *)
(* (api/content_reclassification.py, api/content_view.py).                 *)
(*                                                                         *)
(* Archival, restore, publication and forced deletion are the environment, *)
(* as ManagedContent describes them.  All documents have one file name, so *)
(* two conflict when they share a directory.  A retry is a new job with    *)
(* the target of a failed one.  An action is one transaction or one call   *)
(* of a store.                                                             *)
(***************************************************************************)
EXTENDS Integers, Sequences, FiniteSets

CONSTANTS
  Item, NoItem, Category, NoCategory,
  Asked,         \* bound: documents that jobs and purges are asked for
  NJobs,         \* bound: jobs ever created
  MaxRenames,    \* bound: renames of directories
  MaxCrashes     \* bound: crashes

ASSUME ReclassificationAssumption ==
  /\ Asked \subseteq Item /\ NoItem \notin Item /\ NoCategory \notin Category
  /\ NJobs \in Nat /\ MaxRenames \in Nat /\ MaxCrashes \in Nat

Job  == 1 .. NJobs
None == 0

VARIABLES
  (* content_items: served (with a head), draft, archived or purged *)
  shelf, where,
  (* category_nodes: the number of the name, which the version moves with *)
  label, deleted,
  job,
  (* the stores: the directory and name a document's entries carry *)
  points, parents,
  (* the exported view, and the generation a job has prepared *)
  view, candidate,
  (* the process *)
  mode, queue, pc, cur, code,
  crashes

stores  == <<points, parents>>
library == <<shelf, where, label, deleted>>
process == <<mode, queue, pc, cur, code, crashes>>
vars    == <<library, job, stores, view, candidate, process>>

Entry(c) == [category |-> c, label |-> label[c]]
Nowhere  == [category |-> NoCategory, label |-> 0]
NoJob    == [item |-> NoItem, source |-> Nowhere, target |-> Nowhere,
             status |-> "absent", code |-> "none"]
Missing  == [i \in Item |-> NoCategory]

Active(j) == job[j].status \in {"pending", "applying", "committing", "rolling_back"}
Busy(i)   == \E j \in Job : job[j].item = i /\ Active(j)
Fresh(j)  == \A k \in Job : (job[k].status = "absent") <=> (k >= j)
Conflict(i, c) == \E k \in Item \ {i} : shelf[k] \in {"served", "draft"} /\ where[k] = c

(* What a generation of the view exports: the served documents, one of them
   perhaps under another directory. *)
Exported(w) == [i \in Item |-> IF shelf[i] = "served" THEN w[i] ELSE NoCategory]

Init ==
  /\ shelf = [i \in Item |-> "served"]
  /\ where \in [Item -> Category] /\ \A i \in Item : ~ Conflict(i, where[i])
  /\ label = [c \in Category |-> 0] /\ deleted = {}
  /\ job = [j \in Job |-> NoJob]
  /\ points = [i \in Item |-> Entry(where[i])] /\ parents = points
  /\ view = Exported(where) /\ candidate = Missing
  /\ mode = "up" /\ queue = <<>> /\ pc = "idle" /\ cur = None /\ code = "none" /\ crashes = 0
-----------------------------------------------------------------------------
(* The routes. *)

Create(i, c, j) ==
  /\ mode = "up" /\ i \in Asked /\ Fresh(j)
  /\ shelf[i] = "served" /\ c \notin deleted \cup {where[i]}
  /\ ~ Busy(i) /\ ~ Conflict(i, c)
  /\ job' = [job EXCEPT ![j] = [item |-> i, source |-> Entry(where[i]), target |-> Entry(c),
                                status |-> "pending", code |-> "none"]]
  /\ queue' = Append(queue, j)
  /\ UNCHANGED <<library, stores, view, candidate, mode, pc, cur, code, crashes>>

Renames == Cardinality({r \in Category \X (1 .. MaxRenames) : r[2] <= label[r[1]]})

Rename(c) ==
  /\ mode = "up" /\ c \notin deleted /\ Renames < MaxRenames
  /\ label' = [label EXCEPT ![c] = @ + 1]
  /\ UNCHANGED <<shelf, where, deleted, job, stores, view, candidate, process>>

Archive(i) ==
  /\ mode = "up" /\ shelf[i] \in {"served", "draft"} /\ ~ Busy(i)
  /\ shelf' = [shelf EXCEPT ![i] = "archived"]
  /\ UNCHANGED <<where, label, deleted, job, stores, view, candidate, process>>

Restore(i, c) ==
  /\ mode = "up" /\ shelf[i] = "archived" /\ c \notin deleted /\ ~ Conflict(i, c)
  /\ shelf' = [shelf EXCEPT ![i] = "draft"] /\ where' = [where EXCEPT ![i] = c]
  /\ UNCHANGED <<label, deleted, job, stores, view, candidate, process>>

(* The same worker indexes publications, so it is between two jobs. *)
Publish(i) ==
  /\ mode = "up" /\ pc = "idle" /\ shelf[i] = "draft"
  /\ shelf' = [shelf EXCEPT ![i] = "served"]
  /\ points' = [points EXCEPT ![i] = Entry(where[i])]
  /\ parents' = [parents EXCEPT ![i] = Entry(where[i])]
  /\ UNCHANGED <<where, label, deleted, job, view, candidate, process>>

(* The jobs from or to the directory are marked failed under their worker. *)
ForceDelete(c) ==
  /\ mode = "up" /\ c \notin deleted
  /\ deleted' = deleted \cup {c}
  /\ shelf' = [i \in Item |-> IF where[i] = c /\ shelf[i] # "purged" THEN "archived" ELSE shelf[i]]
  /\ job' = [j \in Job |->
       IF Active(j) /\ c \in {job[j].source.category, job[j].target.category}
       THEN [job[j] EXCEPT !.status = "failed", !.code = "forced"] ELSE job[j]]
  /\ UNCHANGED <<where, label, stores, view, candidate, process>>

(* The rows of its jobs go with a purged document. *)
Purge(i) ==
  /\ mode = "up" /\ i \in Asked /\ shelf[i] = "archived" /\ ~ Busy(i)
  /\ shelf' = [shelf EXCEPT ![i] = "purged"]
  /\ points' = [points EXCEPT ![i] = Nowhere] /\ parents' = [parents EXCEPT ![i] = Nowhere]
  /\ job' = [j \in Job |-> IF job[j].item = i THEN [job[j] EXCEPT !.status = "deleted"] ELSE job[j]]
  /\ UNCHANGED <<where, label, deleted, view, candidate, process>>
-----------------------------------------------------------------------------
(* The worker.  An error at any step leads to the compensation. *)

Status(j, s) == IF job[j].status = "deleted" THEN job ELSE [job EXCEPT ![j].status = s]

Begin ==
  LET j == Head(queue) IN
  /\ mode = "up" /\ pc = "idle" /\ queue # <<>>
  /\ queue' = Tail(queue)
  /\ IF job[j].status = "pending"
     THEN job' = Status(j, "applying") /\ pc' = "prepare" /\ cur' = j
     ELSE UNCHANGED <<job, pc, cur>>
  /\ UNCHANGED <<library, stores, view, candidate, mode, code, crashes>>

J == job[cur]
Goto(a, b) == pc = a /\ pc' = b
Idle == UNCHANGED <<mode, queue, cur, code, crashes>>

Prepare ==
  /\ Goto("prepare", "qdrant") /\ Idle
  /\ candidate' = Exported([where EXCEPT ![J.item] = J.target.category])
  /\ UNCHANGED <<library, job, stores, view>>

(* The entries must be where the job found the document, name and all. *)
PatchPoints ==
  /\ Goto("qdrant", "parents") /\ Idle
  /\ points[J.item] = J.source
  /\ points' = [points EXCEPT ![J.item] = J.target]
  /\ UNCHANGED <<library, job, parents, view, candidate>>

PatchParents ==
  /\ Goto("parents", "app") /\ Idle
  /\ parents[J.item] = J.source
  /\ parents' = [parents EXCEPT ![J.item] = J.target]
  /\ UNCHANGED <<library, job, points, view, candidate>>

(* Neither the document nor the two directories have changed since. *)
Committable ==
  /\ shelf[J.item] = "served" /\ where[J.item] = J.source.category
  /\ J.target.category \notin deleted /\ ~ Conflict(J.item, J.target.category)
  /\ Entry(J.source.category) = J.source /\ Entry(J.target.category) = J.target

CommitItem ==
  /\ Goto("app", "swap") /\ Idle
  /\ Committable
  /\ where' = [where EXCEPT ![J.item] = J.target.category]
  /\ job' = Status(cur, "committing")
  /\ UNCHANGED <<shelf, label, deleted, stores, view, candidate>>

(* The view changes by two renames: between them there is none. *)
SwapOut ==
  /\ Goto("swap", "swapped") /\ Idle
  /\ view' = Missing
  /\ UNCHANGED <<library, job, stores, candidate>>

SwapIn ==
  /\ Goto("swapped", "verify") /\ Idle
  /\ view' = candidate /\ candidate' = Missing
  /\ UNCHANGED <<library, job, stores>>

Verified ==
  /\ where[J.item] = J.target.category
  /\ points[J.item] = J.target /\ parents[J.item] = J.target

Complete ==
  /\ Goto("verify", "idle") /\ cur' = None
  /\ Verified
  /\ job' = [job EXCEPT ![cur].status = "succeeded", ![cur].code = "none"]
  /\ UNCHANGED <<library, stores, view, candidate, mode, queue, code, crashes>>

(* A failed check or call.  The point store may have done what its answer
   did not report; a failed second rename puts the old view back, as if the
   swap had not begun, or fails as well.  A prepared generation is discarded. *)
Err ==
  /\ mode = "up" /\ pc \in {"prepare", "qdrant", "parents", "app", "swap", "swapped", "verify"}
  /\ pc' = "compensate" /\ code' = "error" /\ candidate' = Missing
  /\ points' \in {points} \cup
       IF pc = "qdrant" /\ points[J.item] = J.source
       THEN {[points EXCEPT ![J.item] = J.target]} ELSE {}
  /\ UNCHANGED <<library, job, parents, view, mode, queue, cur, crashes>>

Work ==
  /\ mode = "up"
  /\ \/ Prepare \/ PatchPoints \/ PatchParents \/ CommitItem
     \/ SwapOut \/ SwapIn \/ Complete
-----------------------------------------------------------------------------
(* The compensation, of the worker or of the recovery: each store that shows
   the target is put back, each error is remembered, and the job ends. *)

Compensating == mode \in {"up", "booting"}

Rollback ==
  /\ Compensating /\ pc = "compensate"
  /\ IF J.status \in {"succeeded", "deleted"}
     THEN pc' = "idle" /\ cur' = None /\ code' = "none" /\ UNCHANGED job
     ELSE pc' = "rqdrant" /\ job' = Status(cur, "rolling_back") /\ UNCHANGED <<cur, code>>
  /\ UNCHANGED <<library, stores, view, candidate, mode, queue, crashes>>

Failed == code' = "rollback_failed"

RestorePoints ==
  /\ Compensating /\ Goto("rqdrant", "rparents")
  /\ \/ /\ points[J.item] = J.target
        /\ points' = [points EXCEPT ![J.item] = J.source] /\ UNCHANGED code
     \/ points[J.item] = J.source /\ UNCHANGED <<points, code>>
     \/ Failed /\ UNCHANGED points
  /\ UNCHANGED <<library, job, parents, view, candidate, mode, queue, cur, crashes>>

(* Mutant of RestoreParents: only the points are compensated. *)
RestoreParentsNot ==
  /\ Compensating /\ Goto("rparents", "rapp")
  /\ UNCHANGED <<library, job, stores, view, candidate, mode, queue, cur, code, crashes>>

RestoreParents ==
  /\ Compensating /\ Goto("rparents", "rapp")
  /\ \/ /\ parents[J.item] = J.target
        /\ parents' = [parents EXCEPT ![J.item] = J.source] /\ UNCHANGED code
     \/ parents[J.item] = J.source /\ UNCHANGED <<parents, code>>
     \/ Failed /\ UNCHANGED parents
  /\ UNCHANGED <<library, job, points, view, candidate, mode, queue, cur, crashes>>

Home ==
  [where EXCEPT ![J.item] = IF @ = J.target.category THEN J.source.category ELSE @]

(* Mutant of RestoreItem: the view is not built anew. *)
RestoreItemOldView ==
  /\ Compensating /\ Goto("rapp", "finish")
  /\ where' \in {where, Home}
  /\ \/ where' = Home /\ UNCHANGED code
     \/ Failed
  /\ UNCHANGED <<shelf, label, deleted, job, stores, view, candidate, mode, queue, cur, crashes>>

(* The item goes back wherever it is at the target, then the view is built
   anew; the second may fail after the first. *)
RestoreItem ==
  /\ Compensating /\ Goto("rapp", "finish")
  /\ where' \in {where, Home}
  /\ \/ where' = Home /\ view' = Exported(Home) /\ UNCHANGED code
     \/ Failed /\ UNCHANGED view
  /\ UNCHANGED <<shelf, label, deleted, job, stores, candidate, mode, queue, cur, crashes>>

Finish ==
  /\ Compensating /\ Goto("finish", "idle")
  /\ job' = [job EXCEPT ![cur] =
       IF @.status = "deleted" THEN @ ELSE [@ EXCEPT !.status = "failed", !.code = code]]
  /\ cur' = None /\ code' = "none"
  /\ UNCHANGED <<library, stores, view, candidate, mode, queue, crashes>>
-----------------------------------------------------------------------------
(* Crash and recovery.  What had not begun is failed; the rest is rolled
   back, one after the other, before requests are served. *)

Crash ==
  /\ mode # "down" /\ crashes < MaxCrashes
  /\ mode' = "down" /\ crashes' = crashes + 1
  /\ queue' = <<>> /\ pc' = "idle" /\ cur' = None /\ code' = "none"
  /\ candidate' = Missing
  /\ UNCHANGED <<library, job, stores, view>>

Boot ==
  /\ mode = "down" /\ mode' = "booting"
  /\ job' = [j \in Job |-> IF job[j].status = "pending"
               THEN [job[j] EXCEPT !.status = "failed", !.code = "restarted"] ELSE job[j]]
  /\ UNCHANGED <<library, stores, view, candidate, queue, pc, cur, code, crashes>>

(* Mutant of Recoverable: a compensation that was cut is not taken up. *)
RecoverableOnce == {j \in Job : job[j].status \in {"applying", "committing"}}

Recoverable == {j \in Job : job[j].status \in {"applying", "committing", "rolling_back"}}

Recover(j) ==
  /\ mode = "booting" /\ pc = "idle" /\ j \in Recoverable
  /\ pc' = "compensate" /\ cur' = j /\ code' = "restarted"
  /\ UNCHANGED <<library, job, stores, view, candidate, mode, queue, crashes>>

Serve ==
  /\ mode = "booting" /\ pc = "idle" /\ Recoverable = {}
  /\ mode' = "up"
  /\ UNCHANGED <<library, job, stores, view, candidate, queue, pc, cur, code, crashes>>

Compensate == Rollback \/ RestorePoints \/ RestoreParents \/ RestoreItem \/ Finish
Restart    == Boot \/ Serve \/ \E j \in Job : Recover(j)

Next ==
  \/ \E i \in Item : Archive(i) \/ Publish(i) \/ Purge(i)
  \/ \E i \in Item, c \in Category : Restore(i, c) \/ \E j \in Job : Create(i, c, j)
  \/ \E c \in Category : Rename(c) \/ ForceDelete(c)
  \/ Begin \/ Work \/ Err \/ Compensate
  \/ Crash \/ Restart

Spec == Init /\ [][Next]_vars

(* The worker and the recovery run on; neither has a call without an end. *)
FairSpec == Spec /\ WF_vars(Begin \/ Work \/ Err) /\ WF_vars(Compensate) /\ WF_vars(Restart)
-----------------------------------------------------------------------------
(* Two outcomes leave a document split until it is published again: a
   compensation that reported its failure, and a job that forced deletion
   marked failed and a crash then cut, which no recovery takes up. *)
Split(jobs, i) == \E j \in Job : jobs[j].item = i /\ jobs[j].code \in {"rollback_failed", "forced"}

(* The jobs that have begun and not ended, and the one whose row a forced
   deletion ended under the worker. *)
Held == Recoverable \cup ({cur} \ {None})

(* Retrieval filters by the entries, the library shows the item: while no
   job that has begun holds a served document that is not known to be split,
   both stores agree with each other, name and all, and with the directory
   it is in. *)
StoresAgree ==
  \A i \in Item :
    \/ shelf[i] # "served" \/ Split(job, i)
    \/ \E j \in Held : job[j].item = i
    \/ points[i] = parents[i] /\ points[i].category = where[i]

(* All or nothing: when a job that had begun ends and its document is served,
   the two stores, the item and the exported view are all at its target if it
   succeeded, and all at its source if it failed, unless the document is known
   to be split.  (One that had not begun may fail when another job has taken
   its document elsewhere: a forced job that is rolled back under it.) *)
EndsWhole ==
  [][\A j \in Held :
       LET i == job[j].item
           end == IF job'[j].status = "succeeded" THEN job[j].target ELSE job[j].source IN
       /\ job'[j].status \in {"succeeded", "failed"}
       /\ shelf'[i] = "served" /\ ~ Split(job', i)
       => /\ points'[i].category = end.category /\ parents'[i].category = end.category
          /\ where'[i] = end.category /\ view'[i] = end.category]_vars

(* The directories of the library hold one live document of a name: a move
   committed while another document came into its target would break that.
   Only a compensation gives two documents one directory, for it puts the
   document back without a look at what came there since. *)
NamesUnique ==
  [][\A i \in Item : \A k \in Item \ {i} :
       /\ {shelf'[i], shelf'[k]} \subseteq {"served", "draft"} /\ where'[i] = where'[k]
       => \/ {shelf[i], shelf[k]} \subseteq {"served", "draft"} /\ where[i] = where[k]
          \/ pc = "rapp" /\ job[cur].item \in {i, k}]_vars

(* Every job ends, whatever fails and whenever the process restarts. *)
EveryJobEnds == \A j \in Job : Active(j) ~> ~ Active(j)
=============================================================================
