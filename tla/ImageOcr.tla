------------------------------- MODULE ImageOcr -------------------------------
(***************************************************************************)
(* The text of images, for the search of attachments: a table of jobs from *)
(* which workers lease the oldest, an OCR service that may answer late,    *)
(* and the text a version is found by (api/image_ocr_jobs.py,              *)
(* api/content_search.py, api/routes_attachment_search.py).                *)
(*                                                                         *)
(* Jobs are numbered in order of creation, which is that of a version's    *)
(* attempts and, up to jobs of one second, that of the queue.  A worker    *)
(* holds one job, so a lease's token is the worker that has it.  A version *)
(* is an image's file: its hash never changes.                             *)
(***************************************************************************)
EXTENDS Integers

CONSTANTS
  Item, Worker, NoWorker,
  NVersions,     \* bound: versions of an item
  NJobs          \* bound: jobs ever created

ASSUME OcrAssumption ==
  NoWorker \notin Worker /\ NVersions \in Nat \ {0} /\ NJobs \in Nat

Version == Item \X (1 .. NVersions)
Job     == 1 .. NJobs
None    == 0

VARIABLES
  stage,         \* items: absent, active, archived or purged
  latest,        \* and the number of their versions
  superseded,    \* versions
  job,           \* image_ocr_jobs: version, status, the lease's worker
  late,          \* jobs whose lease has run out
  head,          \* image_ocr_heads: the job whose answer counts
  shown,         \* attachment_search_documents: the job whose text is found
  hand           \* what each worker is at

catalogue == <<stage, latest, superseded>>
text      == <<head, shown>>
vars      == <<catalogue, job, late, text, hand>>

NoJob   == [version |-> <<>>, status |-> "absent", holder |-> NoWorker]
Active(j)  == job[j].status \in {"pending", "running"}
Fresh(j)   == \A k \in Job : (job[k].status = "absent") <=> (k >= j)
JobsOf(v)  == {j \in Job : job[j].version = v}
There(v)   == stage[v[1]] = "active" /\ v[2] <= latest[v[1]]

Init ==
  /\ stage = [i \in Item |-> "absent"] /\ latest = [i \in Item |-> 0] /\ superseded = {}
  /\ job = [j \in Job |-> NoJob] /\ late = {}
  /\ head = [v \in Version |-> None] /\ shown = [v \in Version |-> None]
  /\ hand = [w \in Worker |-> None]
-----------------------------------------------------------------------------
(* What indexing the version finds: the text of its head, if there is any.
   An edit of its description indexes it again, with the same outcome. *)
Found(h) == IF h # None /\ job'[h].status = "succeeded" THEN h ELSE None

Insert(v) ==
  \E j \in Job :
    /\ Fresh(j)
    /\ job' = [job EXCEPT ![j] = [version |-> v, status |-> "pending", holder |-> NoWorker]]

(* Items and versions, as far as they bear on the jobs; a new file is read
   by itself, if it is an image. *)
Upload(i) ==
  /\ stage[i] = "absent"
  /\ stage' = [stage EXCEPT ![i] = "active"] /\ latest' = [latest EXCEPT ![i] = 1]
  /\ Insert(<<i, 1>>) \/ UNCHANGED job
  /\ UNCHANGED <<superseded, late, text, hand>>

Revise(i) ==
  LET n == latest[i] IN
  /\ stage[i] = "active" /\ n < NVersions
  /\ latest' = [latest EXCEPT ![i] = n + 1]
  /\ superseded' \in {superseded, superseded \cup {<<i, n>>}}
  /\ Insert(<<i, n + 1>>) \/ UNCHANGED job
  /\ UNCHANGED <<stage, late, text, hand>>

(* A version is published, in the bin and out of its turn as well; the one
   shown before, if there is one, is superseded. *)
Promote(v) ==
  /\ stage[v[1]] \in {"active", "archived"} /\ v[2] <= latest[v[1]]
  /\ \E n \in 0 .. latest[v[1]] :
       superseded' = (superseded \cup {<<v[1], n>>}) \ {v, <<v[1], 0>>}
  /\ UNCHANGED <<stage, latest, job, late, text, hand>>

Archive(i) ==
  /\ stage[i] = "active" /\ stage' = [stage EXCEPT ![i] = "archived"]
  /\ UNCHANGED <<latest, superseded, job, late, text, hand>>

Restore(i) ==
  /\ stage[i] = "archived" /\ stage' = [stage EXCEPT ![i] = "active"]
  /\ superseded' = superseded \ {<<i, latest[i]>>}
  /\ UNCHANGED <<latest, job, late, text, hand>>

(* The rows of its versions go with an item, whoever is at work on them; a
   restore may come between a purge's plan and its end. *)
Purge(i) ==
  /\ stage[i] \in {"active", "archived"} /\ stage' = [stage EXCEPT ![i] = "purged"]
  /\ job' = [j \in Job |-> IF job[j].version \in {i} \X (1 .. NVersions)
                           THEN [job[j] EXCEPT !.status = "deleted"] ELSE job[j]]
  /\ head'  = [v \in Version |-> IF v[1] = i THEN None ELSE head[v]]
  /\ shown' = [v \in Version |-> IF v[1] = i THEN None ELSE shown[v]]
  /\ UNCHANGED <<latest, superseded, late, hand>>
-----------------------------------------------------------------------------
(* The routes: a version has one active job. *)

Enqueue(v) ==
  /\ There(v) /\ \A j \in JobsOf(v) : ~ Active(j)
  /\ Insert(v)
  /\ UNCHANGED <<catalogue, late, text, hand>>

Cancel(v) ==
  /\ There(v) /\ \E j \in JobsOf(v) : Active(j)
  /\ job' = [j \in Job |-> IF j \in JobsOf(v) /\ Active(j)
               THEN [job[j] EXCEPT !.status = "cancelled", !.holder = NoWorker] ELSE job[j]]
  /\ UNCHANGED <<catalogue, late, text, hand>>
-----------------------------------------------------------------------------
(* The workers.  A lease is for longer than two requests may take. *)

Waiting(j) == job[j].status = "pending" \/ (job[j].status = "running" /\ j \in late)

(* Mutant of Lease: what an expired lease holds is not put back. *)
LeasePending(w) ==
  \E next \in {j \in Job : job[j].status = "pending"} :
    /\ hand[w] = None /\ \A j \in Job : job[j].status = "pending" => next <= j
    /\ hand' = [hand EXCEPT ![w] = next]
    /\ job' = [job EXCEPT ![next].status = "running", ![next].holder = w]
    /\ UNCHANGED <<catalogue, late, text>>

(* Expired leases are put back first; the oldest job is taken. *)
Lease(w) ==
  \E next \in {j \in Job : Waiting(j)} :
    /\ hand[w] = None /\ \A j \in Job : Waiting(j) => next <= j
    /\ hand' = [hand EXCEPT ![w] = next]
    /\ job' = [j \in Job |->
         IF j = next THEN [job[j] EXCEPT !.status = "running", !.holder = w]
         ELSE IF Waiting(j) THEN [job[j] EXCEPT !.status = "pending", !.holder = NoWorker]
         ELSE job[j]]
    /\ late' = {}
    /\ UNCHANGED <<catalogue, text>>

Expire(j) ==
  /\ job[j].status = "running" /\ j \notin late
  /\ late' = late \cup {j}
  /\ UNCHANGED <<catalogue, job, text, hand>>

(* The version is no longer what the job was made for. *)
Stale(j) ==
  LET v == job[j].version IN
  \/ stage[v[1]] # "active" \/ v \in superseded
  \/ \E k \in JobsOf(v) : k > j

Holds(w) ==
  LET j == hand[w] IN job[j].status = "running" /\ job[j].holder = w /\ j \notin late

(* Mutant of Indexed: an answer without text leaves the index alone. *)
IndexedText(v, s) == shown' = IF s = "succeeded" THEN [shown EXCEPT ![v] = head'[v]] ELSE shown
(* An answer that counts is indexed in the same transaction. *)
Indexed(v, s) ==
  shown' = IF s \in {"succeeded", "no_text"} THEN [shown EXCEPT ![v] = Found(head'[v])] ELSE shown

(* The answer of the service, or its error, is recorded under the lease. *)
Finish(w, answer) ==
  LET j == hand[w]
      v == job[j].version
      s == IF Stale(j) THEN "stale" ELSE answer IN
  /\ j # None /\ Holds(w)
  /\ job' = [job EXCEPT ![j].status = s, ![j].holder = NoWorker]
  /\ head' = IF s \in {"succeeded", "no_text"} THEN [head EXCEPT ![v] = j] ELSE head
  /\ Indexed(v, s)
  /\ hand' = [hand EXCEPT ![w] = None]
  /\ UNCHANGED <<catalogue, late>>

Ignored(w) ==
  /\ hand[w] # None /\ ~ Holds(w)
  /\ hand' = [hand EXCEPT ![w] = None]
  /\ UNCHANGED <<catalogue, job, late, text>>

(* The worker dies or cannot record the answer. *)
Drop(w) ==
  /\ hand[w] # None /\ hand' = [hand EXCEPT ![w] = None]
  /\ UNCHANGED <<catalogue, job, late, text>>

Answers == {"succeeded", "no_text", "failed"}

Next ==
  \/ \E i \in Item : Upload(i) \/ Revise(i) \/ Archive(i) \/ Restore(i) \/ Purge(i)
  \/ \E v \in Version : Promote(v) \/ Enqueue(v) \/ Cancel(v)
  \/ \E w \in Worker : Lease(w) \/ Ignored(w) \/ Drop(w) \/ (\E a \in Answers : Finish(w, a))
  \/ \E j \in Job : Expire(j)

Spec == Init /\ [][Next]_vars

(* Workers are polling threads, leases run out, and the service, asked again
   and again, answers within a lease at some time. *)
FairSpec ==
  /\ Spec
  /\ \A w \in Worker :
       /\ WF_vars(Lease(w)) /\ WF_vars(Ignored(w))
       /\ SF_vars(\E a \in Answers : Finish(w, a))
  /\ \A j \in Job : WF_vars(Expire(j))
-----------------------------------------------------------------------------
Read(v) == {j \in JobsOf(v) : job[j].status \in {"succeeded", "no_text"}}

(* A version is found by what the last of its attempts that read the image
   read, and by nothing when that was nothing: a failed, cancelled or stale
   attempt leaves the text of an earlier one, and an answer that comes after
   its lease never counts. *)
TextStands ==
  \A v \in Version :
    /\ head[v] = None <=> Read(v) = {}
    /\ head[v] # None => head[v] \in Read(v) /\ \A j \in Read(v) : j <= head[v]
    /\ shown[v] = IF head[v] # None /\ job[head[v]].status = "succeeded" THEN head[v] ELSE None

Ended(j) == job[j].status \in Answers \cup {"cancelled", "stale", "deleted"}

(* No answer reopens or rewrites a job that was cancelled or answered, and a
   text is replaced only by a job that ends now. *)
OnlyActiveEnd ==
  /\ \A j \in Job : Ended(j) => job'[j].status \in {job[j].status, "deleted"}
  /\ \A v \in Version : head'[v] \notin {head[v], None} => Active(head'[v])

(* Every job ends, whichever worker dies with it in hand, and ends once. *)
EndsOnce ==
  /\ \A j \in Job : Active(j) ~> Ended(j)
  /\ [][OnlyActiveEnd]_vars
=============================================================================
