---------------------------- MODULE BulkOperations ----------------------------
(***************************************************************************)
(* Bulk operations on managed content: downloads packed into one archive   *)
(* and forced deletions of directories, which one executor thread runs,    *)
(* and publications, which the request itself runs                         *)
(* (api/content_bulk_operations.py, api/routes_content.py).                *)
(*                                                                         *)
(* No route and no worker step changes a run by compare-and-set: each      *)
(* reads the status in one statement and writes it in a later one, so a    *)
(* check and its write are two actions here, those that end a run too.     *)
(* A member is a file to pack, a directory to delete or a document to      *)
(* publish; the folders of a download, packed empty, are left out.         *)
(***************************************************************************)
EXTENDS Integers, Sequences, FiniteSets

CONSTANTS
  Run, NoRun, Member, NoMember,
  Request,       \* request threads
  Operations,    \* bound: the operations asked for
  MaxCrashes     \* bound: crashes

ASSUME BulkAssumption ==
  /\ NoRun \notin Run /\ NoMember \notin Member /\ IsFiniteSet(Run)
  /\ Operations \subseteq {"download", "force_delete", "publish"}
  /\ MaxCrashes \in Nat

VARIABLES
  (* content_bulk_operations and its rows: the selected members, their results *)
  op, status, picked, result,
  (* the archives on disk, what they hold, and those past their time *)
  file, packed, late,
  (* directories: there, removed while being cleaned, clean or partial *)
  folder,
  published,
  (* the request threads, the executor's queue, _active_archives, the worker *)
  req, queue, active, worker,
  mode, crashes,
  (* history: runs written on a check that held no longer *)
  stale

rows     == <<op, picked, result>>
disk     == <<file, packed, late>>
content  == <<folder, published>>
process  == <<req, queue, active, worker>>
bulkVars == <<rows, status, disk, content, process, mode, crashes, stale>>

Finished == {"ready", "succeeded", "partial", "failed", "expired"}
(* How a driver that is about to write the end of its run has found it: its
   last position, named for what it will write. *)
Verdict  == {"succeeded", "partial", "failed", "cancelled"}
Idle     == [do |-> "idle", run |-> NoRun, todo |-> {}, at |-> NoMember]

BulkInit ==
  /\ op = [r \in Run |-> "none"] /\ status = [r \in Run |-> "absent"]
  /\ picked = [r \in Run |-> {}]
  /\ result = [r \in Run |-> [x \in Member |-> "pending"]]
  /\ file = {} /\ packed = [r \in Run |-> {}] /\ late = {}
  /\ folder = [x \in Member |-> "there"] /\ published = {}
  /\ req = [t \in Request |-> Idle] /\ queue = <<>> /\ active = {} /\ worker = Idle
  /\ mode = "up" /\ crashes = 0 /\ stale = {}

Set(r, s) == status' = [status EXCEPT ![r] = s]
(* A write to r whose check needed a status of S. *)
Needed(r, S) == stale' = IF status[r] \in S THEN stale ELSE stale \cup {r}
(* A settled row leaves the selection. *)
Settle(r, x, s) ==
  /\ result' = [result EXCEPT ![r][x] = s]
  /\ picked' = [picked EXCEPT ![r] = @ \ {x}]
-----------------------------------------------------------------------------
(* The routes. *)

Preflight(r, o, S) ==
  /\ mode = "up" /\ status[r] = "absent"
  /\ o = "force_delete" => \A x \in S : folder[x] = "there"
  /\ op' = [op EXCEPT ![r] = o] /\ picked' = [picked EXCEPT ![r] = S]
  /\ Set(r, "awaiting")
  /\ UNCHANGED <<result, disk, content, process, mode, crashes, stale>>

(* A request past its check. *)
Checked(t, r, a) ==
  /\ mode = "up" /\ req[t].do = "idle"
  /\ req' = [req EXCEPT ![t].do = a, ![t].run = r]
  /\ UNCHANGED <<rows, status, disk, content, queue, active, worker, mode, crashes, stale>>

AskSelect(t, r) == status[r] = "awaiting" /\ op[r] # "force_delete" /\ Checked(t, r, "select")
AskStart(t, r)  ==
  /\ status[r] = "awaiting" /\ (picked[r] # {} \/ op[r] = "download")
  /\ Checked(t, r, "start")
AskCancel(t, r) == status[r] \notin Finished \cup {"absent"} /\ Checked(t, r, "cancel")
AskExpired(t, r) == status[r] = "ready" /\ r \in late /\ Checked(t, r, "unlink")

Doing(t, a) == mode = "up" /\ req[t].do = a
Answer(t)   == req' = [req EXCEPT ![t] = Idle]

Select(t, S) ==
  LET r == req[t].run IN
  /\ Doing(t, "select") /\ Answer(t)
  /\ picked' = [picked EXCEPT ![r] = S] /\ Needed(r, {"awaiting"})
  /\ UNCHANGED <<op, result, status, disk, content, queue, active, worker, mode, crashes>>

(* The write of a start: the executor's runs are queued, a publication runs
   here, over the rows selected now. *)
Start(t) ==
  LET r == req[t].run IN
  /\ Doing(t, "start") /\ Needed(r, {"awaiting"})
  /\ IF op[r] = "publish"
     THEN Set(r, "running") /\ req' = [req EXCEPT ![t].do = "rows"]
     ELSE Set(r, "queued") /\ req' = [req EXCEPT ![t].do = "enqueue"]
  /\ UNCHANGED <<rows, disk, content, queue, active, worker, mode, crashes>>

(* A run the executor has, or still holds after its end, is not queued again. *)
Enqueue(t) ==
  LET r == req[t].run IN
  /\ Doing(t, "enqueue") /\ Answer(t)
  /\ active' = active \cup {r}
  /\ queue' = IF r \in active THEN queue ELSE Append(queue, r)
  /\ UNCHANGED <<rows, status, disk, content, worker, mode, crashes, stale>>

Cancel(t) ==
  LET r == req[t].run IN
  /\ Doing(t, "cancel") /\ Answer(t)
  /\ Set(r, "cancelled")
  /\ stale' = IF status[r] \in Finished THEN stale \cup {r} ELSE stale
  /\ UNCHANGED <<rows, disk, content, queue, active, worker, mode, crashes>>

(* The time of an archive passes; a download, or the hourly cleanup, removes
   the file and then marks the run. *)
Lapse(r) ==
  /\ status[r] = "ready" /\ r \notin late /\ late' = late \cup {r}
  /\ UNCHANGED <<rows, status, file, packed, content, process, mode, crashes, stale>>

Unlink(t) ==
  /\ Doing(t, "unlink") /\ req' = [req EXCEPT ![t].do = "expire"]
  /\ file' = file \ {req[t].run}
  /\ UNCHANGED <<rows, status, packed, late, content, queue, active, worker, mode, crashes, stale>>

Expire(t) ==
  /\ Doing(t, "expire") /\ Answer(t)
  /\ Set(req[t].run, "expired") /\ Needed(req[t].run, {"ready"})
  /\ UNCHANGED <<rows, disk, content, queue, active, worker, mode, crashes>>
(* Other routes delete a directory: by force, or empty as it is, which leaves
   no record of a cleaning. *)
Elsewhere(x) ==
  /\ mode = "up" /\ folder[x] = "there"
  /\ \E s \in {"removed", "clean", "partial"} : folder' = [folder EXCEPT ![x] = s]
  /\ UNCHANGED <<rows, status, disk, published, process, mode, crashes, stale>>
-----------------------------------------------------------------------------
(* A publication runs in its request: each row is a transaction of the
   publication, which refuses a document that has one, and one of the row. *)

Remaining(r) == {x \in picked[r] : result[r][x] = "pending"}

Rows(t) ==
  /\ Doing(t, "rows")
  /\ req' = [req EXCEPT ![t].do = "loop", ![t].todo = Remaining(req[t].run)]
  /\ UNCHANGED <<rows, status, disk, content, queue, active, worker, mode, crashes, stale>>

Publish(t, x) ==
  /\ Doing(t, "loop") /\ x \in req[t].todo \ published
  /\ published' = published \cup {x}
  /\ req' = [req EXCEPT ![t].do = "mark", ![t].at = x, ![t].todo = @ \ {x}]
  /\ UNCHANGED <<rows, status, disk, folder, queue, active, worker, mode, crashes, stale>>

Mark(t) ==
  /\ Doing(t, "mark")
  /\ Settle(req[t].run, req[t].at, "succeeded")
  /\ req' = [req EXCEPT ![t].do = "loop", ![t].at = NoMember]
  /\ UNCHANGED <<op, status, disk, content, queue, active, worker, mode, crashes, stale>>

Refuse(t, x) ==
  /\ Doing(t, "loop") /\ x \in req[t].todo
  /\ Settle(req[t].run, x, "failed")
  /\ req' = [req EXCEPT ![t].todo = @ \ {x}]
  /\ UNCHANGED <<op, status, disk, content, queue, active, worker, mode, crashes, stale>>

(* The status the rows add up to. *)
Total(r) ==
  LET some(s) == \E x \in Member : result[r][x] = s IN
  IF Remaining(r) # {}
  THEN IF some("succeeded") \/ some("failed") THEN "partial" ELSE "failed"
  ELSE IF ~ some("failed") THEN "succeeded"
  ELSE IF some("succeeded") THEN "partial" ELSE "failed"

(* finalize_sync_run looks for a cancellation and adds up; its write follows,
   over a cancellation that came in between. *)
Finalize(t) ==
  /\ Doing(t, "loop") /\ req[t].todo = {}
  /\ IF status[req[t].run] = "cancelled" THEN Answer(t)
     ELSE req' = [req EXCEPT ![t].do = Total(req[t].run)]
  /\ UNCHANGED <<rows, status, disk, content, queue, active, worker, mode, crashes, stale>>

Finalized(t) ==
  /\ mode = "up" /\ req[t].do \in Verdict /\ Answer(t)
  /\ Set(req[t].run, req[t].do)
  /\ UNCHANGED <<rows, disk, content, queue, active, worker, mode, crashes, stale>>
-----------------------------------------------------------------------------
(* The executor's thread. *)

At(a) == mode = "up" /\ worker.do = a
R     == worker.run
Go(a) == worker' = [worker EXCEPT !.do = a]
(* The end of a run's function: it leaves _active_archives last. *)
Quit(a) == worker' = [Idle EXCEPT !.do = a, !.run = R]
Release  == Quit("release")

Take ==
  /\ At("idle") /\ queue # <<>>
  /\ queue' = Tail(queue)
  /\ LET working == IF op[Head(queue)] = "download" THEN "packaging" ELSE "running"
     IN worker' = [Idle EXCEPT !.run = Head(queue),
          !.do = IF status[Head(queue)] \in {"queued", working} THEN "begin" ELSE "release"]
  /\ UNCHANGED <<rows, status, disk, content, req, active, mode, crashes, stale>>

(* The rows are read and the run is marked, whatever its status is by now. *)
Begin ==
  /\ At("begin") /\ Needed(R, {"queued", "packaging", "running"})
  /\ Set(R, IF op[R] = "download" THEN "packaging" ELSE "running")
  /\ worker' = [worker EXCEPT !.todo = IF op[R] = "download" THEN picked[R] ELSE Remaining(R),
                              !.do = IF op[R] = "download" THEN "clear" ELSE "roots"]
  /\ UNCHANGED <<rows, disk, content, req, queue, active, mode, crashes>>

(* The write that ends a run which was finalized, or failed. *)
End ==
  /\ mode = "up" /\ worker.do \in Verdict /\ Release
  /\ Set(R, worker.do)
  /\ UNCHANGED <<rows, disk, content, req, queue, active, mode, crashes, stale>>

Released ==
  /\ At("release") /\ worker' = Idle
  /\ active' = active \ {R}
  /\ UNCHANGED <<rows, status, disk, content, req, queue, mode, crashes, stale>>
-----------------------------------------------------------------------------
(* The download: the files go into a partial archive, which takes its final
   name after the last look at the status. *)

Clear ==
  /\ At("clear") /\ Go("pack")
  /\ file' = file \ {R} /\ packed' = [packed EXCEPT ![R] = {}]
  /\ UNCHANGED <<rows, status, late, content, req, queue, active, mode, crashes, stale>>

Pack(x) ==
  /\ At("pack") /\ x \in worker.todo
  /\ packed' = [packed EXCEPT ![R] = @ \cup {x}]
  /\ worker' = [worker EXCEPT !.todo = @ \ {x}]
  /\ UNCHANGED <<rows, status, file, late, content, req, queue, active, mode, crashes, stale>>

Look ==
  /\ At("pack") /\ worker.todo = {} /\ status[R] # "cancelled" /\ Go("replace")
  /\ UNCHANGED <<rows, status, disk, content, req, queue, active, mode, crashes, stale>>

Replace ==
  /\ At("replace") /\ Go("ready")
  /\ file' = file \cup {R}
  /\ UNCHANGED <<rows, status, packed, late, content, req, queue, active, mode, crashes, stale>>

Ready ==
  /\ At("ready") /\ Release
  /\ Set(R, "ready") /\ Needed(R, {"packaging"})
  /\ late' = late \ {R}
  /\ UNCHANGED <<rows, file, packed, content, req, queue, active, mode, crashes>>

(* A file is missing or is not what its row says, the disk is full, or a
   look at the status found the run cancelled. *)
PackFails ==
  /\ mode = "up" /\ R # NoRun /\ op[R] = "download"
  /\ worker.do \in {"begin", "clear", "pack", "replace", "ready"}
  /\ Quit(IF status[R] = "cancelled" THEN "cancelled" ELSE "failed")
  /\ UNCHANGED <<rows, status, disk, content, req, queue, active, mode, crashes, stale>>
-----------------------------------------------------------------------------
(* The forced deletion, one directory after the other. *)

Stop ==
  /\ At("roots") /\ (worker.todo = {} \/ status[R] = "cancelled") /\ Go("total")
  /\ UNCHANGED <<rows, status, disk, content, req, queue, active, mode, crashes, stale>>

DeleteDirectory(x) ==
  /\ At("roots") /\ x \in worker.todo /\ status[R] # "cancelled" /\ folder[x] = "there"
  /\ folder' = [folder EXCEPT ![x] = "removed"]
  /\ worker' = [worker EXCEPT !.do = "clean", !.at = x]
  /\ UNCHANGED <<rows, status, disk, published, req, queue, active, mode, crashes, stale>>

Clean ==
  /\ At("clean") /\ Go("report")
  /\ \E s \in {"clean", "partial"} : folder' = [folder EXCEPT ![worker.at] = s]
  /\ UNCHANGED <<rows, status, disk, published, req, queue, active, mode, crashes, stale>>

(* A directory that is gone already is reported as its last deletion ended;
   one whose deletion never ended is not found. *)
Found(x) ==
  /\ At("roots") /\ x \in worker.todo /\ status[R] # "cancelled" /\ folder[x] # "there"
  /\ worker' = [worker EXCEPT !.do = "report", !.at = x]
  /\ UNCHANGED <<rows, status, disk, content, req, queue, active, mode, crashes, stale>>

(* Mutant of Outcome: a directory that is gone was deleted. *)
OutcomeGone(x) == IF folder[x] # "there" THEN "succeeded" ELSE "failed"

Outcome(x) == IF folder[x] = "clean" THEN "succeeded" ELSE "failed"

Report ==
  /\ At("report")
  /\ Settle(R, worker.at, Outcome(worker.at))
  /\ worker' = [worker EXCEPT !.do = "roots", !.at = NoMember, !.todo = @ \ {worker.at}]
  /\ UNCHANGED <<op, status, disk, content, req, queue, active, mode, crashes, stale>>

(* The deletion of one directory is refused. *)
DeleteFails(x) ==
  /\ At("roots") /\ x \in worker.todo /\ status[R] # "cancelled"
  /\ Settle(R, x, "failed")
  /\ worker' = [worker EXCEPT !.todo = @ \ {x}]
  /\ UNCHANGED <<op, status, disk, content, req, queue, active, mode, crashes, stale>>

TotalUp ==
  /\ At("total") /\ Quit(IF status[R] = "cancelled" THEN "release" ELSE Total(R))
  /\ UNCHANGED <<rows, status, disk, content, req, queue, active, mode, crashes, stale>>

(* The run itself fails, its finalization included. *)
DeleteBreaks ==
  /\ mode = "up" /\ R # NoRun /\ op[R] = "force_delete"
  /\ worker.do \in {"begin", "roots", "report", "total", "succeeded", "partial"}
  /\ Quit(IF status[R] = "cancelled" THEN "release" ELSE "failed")
  /\ UNCHANGED <<rows, status, disk, content, req, queue, active, mode, crashes, stale>>
-----------------------------------------------------------------------------
Crash ==
  /\ mode = "up" /\ crashes < MaxCrashes
  /\ mode' = "down" /\ crashes' = crashes + 1
  /\ req' = [t \in Request |-> Idle] /\ queue' = <<>> /\ active' = {} /\ worker' = Idle
  /\ UNCHANGED <<rows, status, disk, content, stale>>

(* The runs that were under way are queued again. *)
(* Mutant of Requeued: a forced deletion under way is left running. *)
RequeuedArchives(r) == status[r] \in {"queued", "packaging"}

Requeued(r) ==
  \/ status[r] \in {"queued", "packaging"}
  \/ op[r] = "force_delete" /\ status[r] = "running"

Boot ==
  /\ mode = "down" /\ mode' = "up"
  /\ status' = [r \in Run |->
       IF status[r] = "ready" /\ r \in late THEN "expired"
       ELSE IF Requeued(r) THEN "queued" ELSE status[r]]
  /\ file' = file \ {r \in late : status[r] = "ready"}
  /\ \E q \in [1 .. Cardinality({r \in Run : Requeued(r)}) -> {r \in Run : Requeued(r)}] :
       /\ \A i, k \in DOMAIN q : q[i] = q[k] => i = k
       /\ queue' = q
  /\ active' = {r \in Run : Requeued(r)}
  /\ UNCHANGED <<rows, packed, late, content, req, worker, crashes, stale>>

Requests ==
  \/ \E t \in Request : Start(t) \/ Enqueue(t) \/ Cancel(t) \/ Unlink(t) \/ Expire(t)
  \/ \E t \in Request, S \in SUBSET Member : Select(t, S)
  \/ \E t \in Request : Rows(t) \/ Mark(t) \/ Finalize(t) \/ Finalized(t)
  \/ \E t \in Request, x \in Member : Publish(t, x) \/ Refuse(t, x)

Work ==
  \/ Take \/ Begin \/ End \/ Released
  \/ Clear \/ Look \/ Replace \/ Ready \/ PackFails
  \/ Stop \/ Clean \/ Report \/ TotalUp \/ DeleteBreaks
  \/ \E x \in Member : Pack(x) \/ DeleteDirectory(x) \/ Found(x) \/ DeleteFails(x)

BulkNext ==
  \/ \E r \in Run, o \in Operations, S \in SUBSET Member : Preflight(r, o, S)
  \/ \E t \in Request, r \in Run :
       AskSelect(t, r) \/ AskStart(t, r) \/ AskCancel(t, r) \/ AskExpired(t, r)
  \/ \E r \in Run : Lapse(r)
  \/ \E x \in Member : Elsewhere(x)
  \/ Requests \/ Work \/ Crash \/ Boot

BulkSpec == BulkInit /\ [][BulkNext]_bulkVars

(* A request that is past its check and the executor run on, and the process
   is started again. *)
BulkFairSpec ==
  /\ BulkSpec /\ WF_bulkVars(Work) /\ WF_bulkVars(Boot)
  /\ \A t \in Request : WF_bulkVars(Enqueue(t) \/ Start(t))
-----------------------------------------------------------------------------
(* What a run reports is so.  An archive that is offered for download, and
   whose time has not passed, is on disk and holds the files selected; a
   directory or document reported as done was deleted and cleaned, or
   published, whatever crashed between the deed and its report; and a run
   that reports success has no row left. *)
ReportTrue ==
  \A r \in Run \ stale :
    /\ status[r] = "ready" /\ r \notin late => r \in file /\ packed[r] = picked[r]
    /\ \A x \in Member : result[r][x] = "succeeded" =>
         IF op[r] = "publish" THEN x \in published ELSE folder[x] = "clean"
    /\ status[r] = "succeeded" =>
         picked[r] = {} /\ \A x \in Member : result[r][x] # "failed"

(* A run that was queued ends, whatever crashes: the executor is never left
   without it. *)
QueuedEnds ==
  \A r \in Run :
    op[r] # "publish" /\ status[r] \in {"queued", "packaging", "running"} ~>
      status[r] \in Finished \cup {"cancelled"} \/ r \in stale
=============================================================================
