---------------------------- MODULE ManagedContent ----------------------------
(***************************************************************************)
(* The managed library: documents with numbered versions, their            *)
(* publication by the index worker, the recycle bin, forced deletion of a  *)
(* directory and the purge (api/content_store.py,                          *)
(* api/content_publication.py, api/content_trash_cleanup.py,               *)
(* api/indexing.py, api/routes_content.py).                                *)
(*                                                                         *)
(* An action is one transaction of app.sqlite, one write of the index (the *)
(* Qdrant points and the parents database together), or what a thread does *)
(* between two of those.  A publication and its index job are created      *)
(* together, one for one, and are one row here; rows are numbered in order *)
(* of creation.  A request's expected version is the latest one: with any  *)
(* other it is refused.  Permissions decide who may ask, not what happens. *)
(***************************************************************************)
EXTENDS Integers, Sequences, FiniteSets

CONSTANTS
  Item, NoItem, Category, Name,
  Protected,     \* first-level directories of the system, never deleted
  Attachment,    \* items of the types that are published without indexing
  Publisher,     \* threads of the publish routes
  NJobs,         \* bound: publications ever created
  NVersions      \* bound: versions of an item

ASSUME ContentAssumption ==
  /\ NoItem \notin Item /\ Category # {} /\ Name # {}
  /\ Attachment \subseteq Item /\ Protected \subseteq Category
  /\ NJobs \in Nat /\ NVersions \in Nat

Job  == 1 .. NJobs
None == 0

VARIABLES
  (* content_items: absent, active, archived or purged *)
  stage, category, name,
  (* content_versions: the lifecycle of each version of an item *)
  life,
  (* content_item_heads: the publication served, or None *)
  head,
  (* content_publications with content_index_jobs *)
  job,
  (* category_nodes.deleted_at: the directories that are no longer active *)
  deleted,
  indexed,       \* versions <<item, number>> with points and parents
  (* the process *)
  up, request, queue, worker,
  purge,         \* the run: items to check, planned, and the one half deleted
  overtaken      \* items a documented race has caught (ghost)

items    == <<stage, category, name, life, head>>
process  == <<up, request, queue, worker>>
vars     == <<items, job, deleted, indexed, process, purge, overtaken>>

NoJob     == [item |-> NoItem, version |-> 0, status |-> "absent", pub |-> "none", forced |-> FALSE]
NoRequest == [pc |-> "idle", item |-> NoItem, version |-> 0]
NoWork    == [pc |-> "idle", job |-> None, item |-> NoItem, version |-> 0]
NoPurge   == [todo |-> {}, planned |-> {}, half |-> NoItem]

Active(j)   == job[j].status \in {"pending", "running"}
Fresh(j)    == \A k \in Job : (job[k].status = "absent") <=> (k >= j)
Latest(i)   == Len(life[i])
JobsOf(i)   == {j \in Job : job[j].item = i}
VersionJobs(i, v) == {j \in JobsOf(i) : job[j].version = v}
Open(j)     == job[j].pub \in {"pending", "indexing", "published"}
Live(i)     == stage[i] \in {"active", "archived"}

(* The active item of that directory that has the file name already. *)
Conflict(i, c, n) ==
  {k \in Item \ {i} : stage[k] = "active" /\ category[k] = c /\ name[k] = n}

Init ==
  /\ stage = [i \in Item |-> "absent"]
  /\ category = [i \in Item |-> CHOOSE c \in Category : TRUE]
  /\ name = [i \in Item |-> CHOOSE n \in Name : TRUE]
  /\ life = [i \in Item |-> <<>>] /\ head = [i \in Item |-> None]
  /\ job = [j \in Job |-> NoJob]
  /\ deleted = {} /\ indexed = {}
  /\ up = TRUE /\ request = [p \in Publisher |-> NoRequest]
  /\ queue = <<>> /\ worker = NoWork
  /\ purge = NoPurge /\ overtaken = {}
-----------------------------------------------------------------------------
(* Items: each of these routes is one transaction. *)

Upload(i, c, n) ==
  /\ up /\ stage[i] = "absent" /\ c \notin deleted /\ Conflict(i, c, n) = {}
  /\ stage' = [stage EXCEPT ![i] = "active"]
  /\ category' = [category EXCEPT ![i] = c] /\ name' = [name EXCEPT ![i] = n]
  /\ life' = [life EXCEPT ![i] = <<"pending_publication">>]
  /\ UNCHANGED <<head, job, deleted, indexed, process, purge, overtaken>>

(* Neither the version nor an index job of it is being published. *)
Quiet(i) ==
  /\ life[i][Latest(i)] # "publishing"
  /\ \A j \in VersionJobs(i, Latest(i)) : ~ Active(j)

(* What archiving the items of S leaves: no heads, their publications withdrawn. *)
Withdrawn(S, rows) ==
  [j \in Job |-> IF \E i \in S : head[i] = j /\ rows[j].pub = "published"
                 THEN [rows[j] EXCEPT !.pub = "withdrawn"] ELSE rows[j]]
(* A mutant: the heads are deleted without naming the item. *)
HeadlessAll(S) == [i \in Item |-> IF S # {} THEN None ELSE head[i]]
Headless(S)    == [i \in Item |-> IF i \in S THEN None ELSE head[i]]
ArchivedOnes(S) == [i \in Item |-> IF i \in S THEN "archived" ELSE stage[i]]

Archive(i) ==
  /\ up /\ stage[i] = "active" /\ Quiet(i)
  /\ stage' = ArchivedOnes({i}) /\ head' = Headless({i}) /\ job' = Withdrawn({i}, job)
  /\ UNCHANGED <<category, name, life, deleted, indexed, process, purge, overtaken>>

(* Restoring may archive the item whose name is in the way.  Nothing tells
   it that a purge has planned the item. *)
Restore(i, c) ==
  LET S == Conflict(i, c, name[i]) IN
  /\ up /\ stage[i] = "archived" /\ c \notin deleted
  /\ \A j \in VersionJobs(i, Latest(i)) : ~ Active(j)
  /\ \A k \in S : Quiet(k)
  /\ stage' = [ArchivedOnes(S) EXCEPT ![i] = "active"]
  /\ head' = Headless(S) /\ job' = Withdrawn(S, job)
  /\ category' = [category EXCEPT ![i] = c]
  /\ life' = [life EXCEPT ![i][Latest(i)] = "pending_publication"]
  /\ overtaken' = IF i \in purge.planned \cup {purge.half} THEN overtaken \cup {i} ELSE overtaken
  /\ UNCHANGED <<name, deleted, indexed, process, purge>>

Move(i, c) ==
  /\ up /\ stage[i] = "active" /\ head[i] = None
  /\ life[i][Latest(i)] = "pending_publication"
  /\ c \notin deleted \cup {category[i]} /\ Conflict(i, c, name[i]) = {}
  /\ category' = [category EXCEPT ![i] = c]
  /\ UNCHANGED <<stage, name, life, head, job, deleted, indexed, process, purge, overtaken>>

(* A rename or a new file: the old latest version is superseded, unless it is
   the head, which is served until the new one is published. *)
Revise(i, n) ==
  LET S == Conflict(i, category[i], n)
      v == Latest(i)
      served == head[i] # None /\ job[head[i]].version = v IN
  /\ up /\ stage[i] = "active" /\ v < NVersions /\ Quiet(i)
  /\ \A k \in S : Quiet(k)
  /\ stage' = ArchivedOnes(S) /\ head' = Headless(S) /\ job' = Withdrawn(S, job)
  /\ name' = [name EXCEPT ![i] = n]
  /\ life' = [life EXCEPT ![i] =
       Append(IF served THEN @ ELSE [@ EXCEPT ![v] = "superseded"], "pending_publication")]
  /\ UNCHANGED <<category, deleted, indexed, process, purge, overtaken>>
-----------------------------------------------------------------------------
(* The publish routes: the version is checked before the transaction, and
   neither the item's archival nor a later version is looked at. *)

Publishable(i, v) == life[i][v] \in {"pending_publication", "publication_failed"}

PublishCheck(p, i, v) ==
  /\ up /\ request[p].pc = "idle" /\ Live(i) /\ v <= Latest(i) /\ Publishable(i, v)
  /\ request' = [request EXCEPT ![p] =
       [NoRequest EXCEPT !.pc = "checked", !.item = i, !.version = v]]
  /\ UNCHANGED <<items, job, deleted, indexed, up, queue, worker, purge, overtaken>>

(* The indices of the tables: one open publication per version.  The route
   queues the job after the transaction; a crash in between leaves what a
   crash right after leaves, a pending job for the next boot. *)
Vacant(i, v) == Live(i) /\ \A j \in VersionJobs(i, v) : ~ Open(j)

PublishInsert(p, j) ==
  LET i == request[p].item
      v == request[p].version IN
  /\ up /\ request[p].pc = "checked" /\ Vacant(i, v) /\ Fresh(j)
  /\ job' = [job EXCEPT ![j] =
       [NoJob EXCEPT !.item = i, !.version = v, !.status = "pending", !.pub = "pending"]]
  /\ life' = [life EXCEPT ![i][v] = "publishing"]
  /\ request' = [request EXCEPT ![p] = NoRequest] /\ queue' = Append(queue, j)
  /\ overtaken' = IF stage[i] = "archived" THEN overtaken \cup {i} ELSE overtaken
  /\ UNCHANGED <<stage, category, name, head, deleted, indexed, up, worker, purge>>

PublishRefused(p) ==
  /\ up /\ request[p].pc = "checked" /\ ~ Vacant(request[p].item, request[p].version)
  /\ request' = [request EXCEPT ![p] = NoRequest]
  /\ UNCHANGED <<items, job, deleted, indexed, up, queue, worker, purge, overtaken>>

-----------------------------------------------------------------------------
(* The index worker: one item at a time, in a thread of its own. *)

Runnable(j) == job[j].status = "pending" /\ job[j].pub \in {"pending", "indexing"}

Take ==
  LET j == Head(queue) IN
  /\ up /\ worker.pc = "idle" /\ queue # <<>>
  /\ queue' = Tail(queue)
  /\ IF Runnable(j)
     THEN /\ job' = [job EXCEPT ![j].pub = "indexing"]
          /\ worker' = [pc |-> "begun", job |-> j, item |-> job[j].item, version |-> job[j].version]
     ELSE UNCHANGED <<job, worker>>
  /\ UNCHANGED <<items, deleted, indexed, up, request, purge, overtaken>>

(* A stage is recorded on an active job only; otherwise the run is cancelled. *)
Stage ==
  /\ up /\ worker.pc \in {"begun", "staged"} /\ worker.item \notin Attachment
  /\ IF Active(worker.job)
     THEN /\ job' = [job EXCEPT ![worker.job].status = "running"]
          /\ worker' = [worker EXCEPT !.pc = "staged"]
     ELSE worker' = [worker EXCEPT !.pc = "cancelled"] /\ UNCHANGED job
  /\ UNCHANGED <<items, deleted, indexed, up, request, queue, purge, overtaken>>

Write ==
  /\ up /\ worker.pc = "staged"
  /\ indexed' = indexed \cup {<<worker.item, worker.version>>}
  /\ worker' = [worker EXCEPT !.pc = "written"]
  /\ UNCHANGED <<items, job, deleted, up, request, queue, purge, overtaken>>

Ready ==
  \/ worker.pc = "written"
  \/ worker.pc = "begun" /\ worker.item \in Attachment

(* The head moves with the job, the publication and both versions.  Of the
   item nothing is checked: it may have been archived since. *)
Promote ==
  LET j == worker.job
      i == worker.item
      old == IF head[i] = None THEN None ELSE job[head[i]].version IN
  /\ up /\ Ready /\ Active(j)
  /\ head' = [head EXCEPT ![i] = j]
  /\ job' = [job EXCEPT ![j].status = "done", ![j].pub = "published"]
  /\ life' = [life EXCEPT ![i] = [v \in DOMAIN @ |->
       IF v = worker.version THEN "published" ELSE IF v = old THEN "superseded" ELSE @[v]]]
  /\ overtaken' = IF stage[i] = "archived" THEN overtaken \cup {i} ELSE overtaken
  /\ worker' = NoWork
  /\ UNCHANGED <<stage, category, name, deleted, indexed, up, request, queue, purge>>

PromoteCancelled ==
  /\ up /\ Ready /\ ~ Active(worker.job)
  /\ worker' = [worker EXCEPT !.pc = "cancelled"]
  /\ UNCHANGED <<items, job, deleted, indexed, up, request, queue, purge, overtaken>>

(* An error anywhere in the run. *)
Fail ==
  LET j == worker.job IN
  /\ up /\ worker.pc \in {"begun", "staged", "written"}
  /\ IF job[j].status = "deleted" \/ job[j].forced
     THEN worker' = [worker EXCEPT !.pc = "cancelled"] /\ UNCHANGED <<job, life>>
     ELSE /\ job' = [job EXCEPT ![j].status = "failed", ![j].pub = "failed"]
          /\ life' = [life EXCEPT ![worker.item][worker.version] = "publication_failed"]
          /\ worker' = NoWork
  /\ UNCHANGED <<stage, category, name, head, deleted, indexed, up, request, queue,
                 purge, overtaken>>

(* A mutant: a cancelled run is only logged. *)
CleanNothing ==
  /\ up /\ worker.pc = "cancelled"
  /\ worker' = NoWork
  /\ UNCHANGED <<items, job, deleted, indexed, up, request, queue, purge, overtaken>>

(* What a cancelled run has written is deleted, if the stores let it. *)
CleanCancelled ==
  /\ up /\ worker.pc = "cancelled"
  /\ worker' = NoWork
  /\ \/ indexed' = indexed \ {<<worker.item, worker.version>>} /\ UNCHANGED overtaken
     \/ overtaken' = overtaken \cup {worker.item} /\ UNCHANGED indexed
  /\ UNCHANGED <<items, job, deleted, up, request, queue, purge>>
-----------------------------------------------------------------------------
(* Directories, forced deletion and the purge. *)

(* One transaction fails the active jobs and archives the items; their purge
   follows.  The publications of those jobs stay as they are. *)
ForceDelete(c) ==
  LET S == {i \in Item : Live(i) /\ category[i] = c}
      A == {i \in S : stage[i] = "active"}
      stopped == [j \in Job |-> IF job[j].item \in S /\ Active(j)
                    THEN [job[j] EXCEPT !.status = "failed", !.forced = TRUE] ELSE job[j]] IN
  /\ up /\ c \notin deleted \cup Protected /\ purge = NoPurge
  /\ job' = Withdrawn(A, stopped)
  /\ stage' = ArchivedOnes(A) /\ head' = Headless(A)
  /\ deleted' = deleted \cup {c}
  /\ purge' = [NoPurge EXCEPT !.todo = S]
  /\ UNCHANGED <<category, name, life, indexed, process, overtaken>>

(* A mutant: whether the item is still in the recycle bin is not checked. *)
PurgeableAny(i) == Live(i) /\ \A j \in JobsOf(i) : ~ Active(j)

(* preflight_purge, whose verdicts the run is committed with: an item that is
   blocked is recorded and left. *)
Purgeable(i) == stage[i] = "archived" /\ \A j \in JobsOf(i) : ~ Active(j)

(* The run of a request or of the hourly cleanup. *)
PurgeRequest(S) ==
  /\ up /\ purge = NoPurge
  /\ S # {} /\ \A i \in S : Purgeable(i)
  /\ purge' = [NoPurge EXCEPT !.planned = S]
  /\ UNCHANGED <<items, job, deleted, indexed, process, overtaken>>

(* The run that follows a forced deletion. *)
PurgePlan ==
  /\ up /\ purge.todo # {}
  /\ purge' = [NoPurge EXCEPT !.planned = {i \in purge.todo : Purgeable(i)}]
  /\ UNCHANGED <<items, job, deleted, indexed, process, overtaken>>

(* Outside app.sqlite first; the plan is not checked again. *)
PurgeExternal(i) ==
  /\ up /\ purge.half = NoItem /\ i \in purge.planned
  /\ indexed' = {e \in indexed : e[1] # i}
  /\ purge' = [purge EXCEPT !.planned = @ \ {i}, !.half = i]
  /\ UNCHANGED <<items, job, deleted, process, overtaken>>

PurgeRecords ==
  LET i == purge.half IN
  /\ up /\ i # NoItem
  /\ stage' = [stage EXCEPT ![i] = "purged"]
  /\ life' = [life EXCEPT ![i] = <<>>] /\ head' = [head EXCEPT ![i] = None]
  /\ job' = [j \in Job |-> IF job[j].item = i THEN [NoJob EXCEPT !.item = i, !.status = "deleted"]
                           ELSE job[j]]
  /\ purge' = [purge EXCEPT !.half = NoItem]
  /\ UNCHANGED <<category, name, deleted, indexed, process, overtaken>>

(* An error of one item is recorded and the run goes on. *)
PurgeFails ==
  /\ up
  /\ \/ purge.half # NoItem /\ purge' = [purge EXCEPT !.half = NoItem]
     \/ purge.half = NoItem /\ \E i \in purge.planned : purge' = [purge EXCEPT !.planned = @ \ {i}]
  /\ UNCHANGED <<items, job, deleted, indexed, process, overtaken>>
-----------------------------------------------------------------------------
(* A crash loses the process; recovery fails the jobs it was running and
   queues those it had not begun. *)

Crash ==
  /\ up
  /\ up' = FALSE
  /\ queue' = <<>> /\ worker' = NoWork /\ purge' = NoPurge
  /\ request' = [p \in Publisher |-> NoRequest]
  /\ overtaken' = IF worker.job # None /\ ~ Active(worker.job)
                  THEN overtaken \cup {worker.item} ELSE overtaken
  /\ UNCHANGED <<items, job, deleted, indexed>>

Interrupted == {j \in Job : job[j].status = "running"}
(* A mutant: recovery leaves the jobs that had not begun. *)
OrdersNone == {<<>>}
Orders == {s \in [1 .. Cardinality({j \in Job : job[j].status = "pending"}) -> Job] :
             {s[n] : n \in DOMAIN s} = {j \in Job : job[j].status = "pending"}}

Boot ==
  /\ ~ up
  /\ up' = TRUE
  /\ job' = [j \in Job |-> IF j \in Interrupted
               THEN [job[j] EXCEPT !.status = "failed", !.pub = "failed"] ELSE job[j]]
  /\ life' = [i \in Item |-> [v \in DOMAIN life[i] |->
       IF \E j \in Interrupted : job[j].item = i /\ job[j].version = v
       THEN "publication_failed" ELSE life[i][v]]]
  /\ queue' \in Orders
  /\ UNCHANGED <<stage, category, name, head, deleted, indexed, request, worker,
                 purge, overtaken>>

Next ==
  \/ \E i \in Item, c \in Category, n \in Name : Upload(i, c, n)
  \/ \E i \in Item : Archive(i) \/ PurgeExternal(i)
  \/ \E i \in Item, c \in Category : Restore(i, c) \/ Move(i, c)
  \/ \E i \in Item, n \in Name : Revise(i, n)
  \/ \E p \in Publisher, i \in Item, v \in 1 .. NVersions : PublishCheck(p, i, v)
  \/ \E p \in Publisher, j \in Job : PublishInsert(p, j)
  \/ \E p \in Publisher : PublishRefused(p)
  \/ Take \/ Stage \/ Write \/ Promote \/ PromoteCancelled \/ Fail \/ CleanCancelled
  \/ \E c \in Category : ForceDelete(c)
  \/ \E S \in SUBSET Item : PurgeRequest(S)
  \/ PurgePlan \/ PurgeRecords \/ PurgeFails
  \/ Crash \/ Boot

Spec == Init /\ [][Next]_vars
-----------------------------------------------------------------------------
(* What is served was published: the head of an active item is a published
   version with a published publication, and its text is in the index.  The
   races that overtake an item are excepted: a publication requested or
   promoted after the item was archived, and a restore after a purge had
   planned the item. *)
ServedSound ==
  \A i \in Item \ overtaken :
    stage[i] = "active" /\ head[i] # None =>
      LET h == job[head[i]] IN
      /\ h.item = i /\ h.status = "done" /\ h.pub = "published"
      /\ life[i][h.version] = "published"
      /\ i \notin Attachment => <<i, h.version>> \in indexed

(* No gap in retrieval: an item that stays in the library is served by its
   old version until a new one is published, through revisions, failed
   publications, restarts and whatever happens to other items. *)
HeadKept ==
  [][\A i \in Item :
       head[i] # None /\ stage'[i] = "active" /\ head'[i] # head[i] =>
         head'[i] # None /\ job'[head'[i]].pub = "published"]_vars

(* No publication is forgotten: while one is under way its job is active,
   unless the directory was deleted by force; and an active job is queued, or
   with the worker that began it. *)
PublicationsDriven ==
  \A j \in Job :
    /\ job[j].pub \in {"pending", "indexing"} => Active(j) \/ job[j].forced
    /\ up /\ job[j].status = "pending" =>
         \/ \E n \in DOMAIN queue : queue[n] = j
         \/ worker.job = j
    /\ up /\ job[j].status = "running" => worker.job = j

(* A job that ended keeps its outcome, and so does the reason: neither the
   worker that was running it nor a recovery reopens or rewrites it. *)
SettledStays ==
  [][\A j \in Job : job[j].status \in {"done", "failed"} =>
       \/ job'[j].status = "deleted"
       \/ job'[j].status = job[j].status /\ job'[j].forced = job[j].forced]_vars

(* Nothing of a purged item stays in the index once the worker is through
   with it, though the item may be purged under a running publication. *)
PurgedForgotten ==
  \A e \in indexed :
    stage[e[1]] = "purged" /\ e[1] \notin overtaken =>
      worker.item = e[1] /\ worker.version = e[2]
=============================================================================
