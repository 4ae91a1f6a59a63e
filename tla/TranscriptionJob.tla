--------------------------- MODULE TranscriptionJob ---------------------------
(***************************************************************************)
(* Transcription jobs: the routes that start, retry and cancel them, the   *)
(* single consumer that runs them, publication intents and recovery at     *)
(* boot (api/routes_transcription.py, api/routes_content.py,               *)
(* api/transcription_service.py, api/transcription_worker.py,              *)
(* api/transcription_runtime.py, api/transcription_store.py,               *)
(* api/media_publication_intents.py).                                      *)
(*                                                                         *)
(* Each action is one SQLite transaction and what follows it up to the     *)
(* next one.  Jobs are numbered in order of creation.  Only a cancellation *)
(* writes a job beside its consumer, so the comparison with updated_at     *)
(* fails exactly when the status check of the same transaction does; the   *)
(* two are one guard here.  Stages matter only as far as they decide where *)
(* a run begins: with its audio to prepare, or prepared.                   *)
(***************************************************************************)
EXTENDS Integers, Sequences, FiniteSets

CONSTANTS
  Media, NoMedia,
  Shared,        \* videos of shared directories
  Key,           \* idempotency keys of requests
  NoKey,
  Request,       \* request threads
  NJobs,         \* bound: jobs ever created
  NIntents,      \* bound: publication intents ever created
  MaxCrashes     \* bound: crashes and stops of a process with a consumer

ASSUME JobAssumption ==
  /\ NoMedia \notin Media /\ NoKey \notin Key
  /\ Shared \subseteq Media
  /\ NJobs \in Nat /\ NIntents \in Nat /\ MaxCrashes \in Nat

Job    == 1 .. NJobs
Intent == 1 .. NIntents
None   == 0

VARIABLES
  (* transcription_jobs *)
  status, media, key,
  prepared,      \* the audio fingerprint and the execution are recorded
  permanent,     \* failure_classification of a failed job
  publication,   \* of the version a succeeded job has
  (* media_assets.status *)
  summary,
  (* media_publication_requests: [status, media, job] *)
  intent,
  (* the process: [op, media, key, job, previous] of each request thread *)
  mode, request, queue, pc, cur,
  stranded,      \* jobs left to a later boot, by an error or without a consumer (ghost)
  crashes

row     == <<status, media, key, prepared, permanent, publication>>
worker  == <<pc, cur>>
process == <<mode, request, queue, worker, stranded, crashes>>
vars    == <<row, summary, intent, process>>

Active(j)  == status[j] \in {"pending", "running"}
Ended(j)   == status[j] \in {"succeeded", "failed", "cancelled"}
JobsOf(m)  == {j \in Job : status[j] # "absent" /\ media[j] = m}
Busy(m)    == \E j \in JobsOf(m) : Active(j)
Latest(m)  == CHOOSE j \in JobsOf(m) : \A i \in JobsOf(m) : i <= j
Fresh(j)   == \A i \in Job : (status[i] = "absent") <=> (i >= j)
Used(k)    == \E j \in Job : key[j] = k

(* "off": the process serves, but it was booted with ASR disabled, so that it
   has no consumer and starts and retries are refused. *)
Serving == mode \in {"up", "off"}

Idle == [op |-> "none", media |-> NoMedia, key |-> NoKey, job |-> None, previous |-> None]
NoIntent == [status |-> "absent", media |-> NoMedia, job |-> None]
Open == {"pending_transcription", "ready_to_publish", "publishing"}

Init ==
  /\ status = [j \in Job |-> "absent"]
  /\ media = [j \in Job |-> NoMedia]
  /\ key = [j \in Job |-> NoKey]
  /\ prepared = [j \in Job |-> FALSE]
  /\ permanent = [j \in Job |-> FALSE]
  /\ publication = [j \in Job |-> "none"]
  /\ summary \in [Media -> {"uploaded", "failed"}]
  /\ intent = [i \in Intent |-> NoIntent]
  /\ mode = "up"
  /\ request = [r \in Request |-> Idle]
  /\ queue = <<>> /\ pc = "idle" /\ cur = None
  /\ stranded = {} /\ crashes = 0
-----------------------------------------------------------------------------
(* The routes: checks, creation, and the summary with the queue, in three
   connections. *)

(* A video whose upload failed has no job and cannot be transcribed. *)
StartAllowed(m) == ~ Busy(m) /\ ~ (summary[m] = "failed" /\ JobsOf(m) = {})

StartCheck(r, m, k) ==
  /\ mode = "up" /\ request[r] = Idle
  /\ ~ Used(k) /\ StartAllowed(m)
  /\ request' = [request EXCEPT ![r] =
       [Idle EXCEPT !.op = "start", !.media = m, !.key = k]]
  /\ UNCHANGED <<row, summary, intent, mode, queue, worker, stranded, crashes>>

(* A shared video whose reservation failed has no job to repeat. *)
RetryAllowed(m) ==
  /\ ~ Busy(m)
  /\ IF JobsOf(m) = {} THEN m \in Shared /\ summary[m] = "failed"
     ELSE status[Latest(m)] \in {"failed", "cancelled"} /\ ~ permanent[Latest(m)]

RetryCheck(r, m, k) ==
  /\ mode = "up" /\ request[r] = Idle
  /\ ~ Used(k) /\ RetryAllowed(m)
  /\ request' = [request EXCEPT ![r] =
       [Idle EXCEPT !.op = "retry", !.media = m, !.key = k,
                    !.previous = IF JobsOf(m) = {} THEN None ELSE Latest(m)]]
  /\ UNCHANGED <<row, summary, intent, mode, queue, worker, stranded, crashes>>

(* A retry of a job whose audio was prepared keeps its execution. *)
Keeps(r) == request[r].previous # None /\ prepared[request[r].previous]

Insert(r, j) ==
  /\ Fresh(j) /\ ~ Busy(request[r].media)
  /\ status' = [status EXCEPT ![j] = "pending"]
  /\ media' = [media EXCEPT ![j] = request[r].media]
  /\ key' = [key EXCEPT ![j] = request[r].key]
  /\ prepared' = [prepared EXCEPT ![j] = Keeps(r)]
  /\ UNCHANGED <<permanent, publication>>

(* The key finds the job another request has made meanwhile, or a new one is
   inserted. *)
Create(r, j) ==
  /\ request[r].op \in {"start", "retry"} /\ request[r].job = None
  /\ \/ key[j] = request[r].key /\ media[j] = request[r].media /\ UNCHANGED row
     \/ ~ Used(request[r].key) /\ Insert(r, j)
  /\ request' = [request EXCEPT ![r].job = j]
  /\ UNCHANGED <<summary, intent, mode, queue, worker, stranded, crashes>>

(* Another request was faster, the profile is gone, the audio unreadable. *)
Refused(r) ==
  /\ request[r].op \in {"start", "retry"} /\ request[r].job = None
  /\ request' = [request EXCEPT ![r] = Idle]
  /\ UNCHANGED <<row, summary, intent, mode, queue, worker, stranded, crashes>>

Show(m, s) == summary' = [summary EXCEPT ![m] = s]

(* The start route writes the summary whatever became of the job, the retry
   route only while the job is active. *)
Enqueue(r) ==
  LET q == request[r] IN
  /\ q.op \in {"start", "retry"} /\ q.job # None
  /\ IF q.op = "start" \/ Active(q.job) THEN Show(q.media, "transcribing")
     ELSE UNCHANGED summary
  /\ queue' = Append(queue, q.job)
  /\ request' = [request EXCEPT ![r] = Idle]
  /\ UNCHANGED <<row, intent, mode, worker, stranded, crashes>>

(* The summary cannot be written: a retry is enqueued, a start is not. *)
SummaryFails(r) ==
  LET q == request[r] IN
  /\ q.op \in {"start", "retry"} /\ q.job # None
  /\ IF q.op = "retry" THEN queue' = Append(queue, q.job) /\ UNCHANGED stranded
     ELSE stranded' = stranded \cup {q.job} /\ UNCHANGED queue
  /\ request' = [request EXCEPT ![r] = Idle]
  /\ UNCHANGED <<row, summary, intent, mode, worker, crashes>>

End(j, s, lasting) ==
  /\ Active(j)
  /\ status' = [status EXCEPT ![j] = s]
  /\ permanent' = [permanent EXCEPT ![j] = lasting]
  /\ UNCHANGED <<media, key, prepared, publication>>

Cancel(r, j) ==
  /\ Serving /\ request[r] = Idle
  /\ End(j, "cancelled", FALSE)
  /\ request' = [request EXCEPT ![r] = [Idle EXCEPT !.op = "cancel", !.media = media[j]]]
  /\ UNCHANGED <<summary, intent, mode, queue, worker, stranded, crashes>>

(* A mutant: a new job is not looked for. *)
CancelSummaryUnguarded(r) ==
  /\ request[r].op = "cancel"
  /\ Show(request[r].media, "uploaded")
  /\ request' = [request EXCEPT ![r] = Idle]
  /\ UNCHANGED <<row, intent, mode, queue, worker, stranded, crashes>>

(* The second commit of the cancel route, unless a new job came first. *)
CancelSummary(r) ==
  /\ request[r].op = "cancel"
  /\ IF Busy(request[r].media) THEN UNCHANGED summary
     ELSE Show(request[r].media, "uploaded")
  /\ request' = [request EXCEPT ![r] = Idle]
  /\ UNCHANGED <<row, intent, mode, queue, worker, stranded, crashes>>
-----------------------------------------------------------------------------
(* Publication intents, and publication as far as it moves them. *)

Published(m) == \E j \in JobsOf(m) : publication[j] = "published"

CreateIntent(i, m) ==
  /\ Serving /\ ~ Published(m)
  /\ \A n \in Intent : (intent[n].status = "absent") <=> (n >= i)
  /\ \A n \in Intent : intent[n].media = m => intent[n].status \notin Open
  /\ intent' = [intent EXCEPT ![i] = [status |-> "pending_transcription", media |-> m, job |-> None]]
  /\ UNCHANGED <<row, summary, process>>

Cancellable == {"pending_transcription", "ready_to_publish"}

(* One transaction ends the intent, the video's job and its summary. *)
CancelIntent(i) ==
  LET m == intent[i].media IN
  /\ Serving /\ intent[i].status \in Cancellable
  /\ intent' = [intent EXCEPT ![i].status = "cancelled"]
  /\ status' = [j \in Job |-> IF Active(j) /\ media[j] = m THEN "cancelled" ELSE status[j]]
  /\ Show(m, "uploaded")
  /\ UNCHANGED <<media, key, prepared, permanent, publication, process>>

(* The intent begin_publication attaches to: an open one, else the last failed. *)
Attached(m) ==
  LET waiting == {i \in Intent : intent[i].media = m /\ intent[i].status \in Cancellable}
      failed  == {i \in Intent : intent[i].media = m /\ intent[i].status = "failed"}
      open    == {i \in Intent : intent[i].media = m /\ intent[i].status = "publishing"}
  IN CASE waiting # {} -> waiting
       [] waiting = {} /\ open = {} /\ failed # {} ->
            {i \in failed : \A n \in failed : n <= i}
       [] OTHER -> {}

BeginPublication(j) ==
  /\ Serving
  /\ status[j] = "succeeded" /\ publication[j] \in {"none", "failed"}
  /\ publication' = [publication EXCEPT ![j] = "publishing"]
  /\ intent' = [i \in Intent |->
       IF i \in Attached(media[j]) THEN [intent[i] EXCEPT !.status = "publishing", !.job = j]
       ELSE intent[i]]
  /\ UNCHANGED <<status, media, key, prepared, permanent, summary, process>>

(* A mutant: whatever version of the video ends. *)
EndPublicationAny(j, s) ==
  /\ Serving /\ publication[j] = "publishing"
  /\ publication' = [publication EXCEPT ![j] = s]
  /\ intent' = [i \in Intent |->
       IF intent[i].media = media[j] /\ intent[i].status = "publishing"
       THEN [intent[i] EXCEPT !.status = s] ELSE intent[i]]
  /\ UNCHANGED <<status, media, key, prepared, permanent, summary, process>>

EndPublication(j, s) ==
  /\ Serving /\ publication[j] = "publishing"
  /\ publication' = [publication EXCEPT ![j] = s]
  /\ intent' = [i \in Intent |->
       IF intent[i].job = j /\ intent[i].status = "publishing"
       THEN [intent[i] EXCEPT !.status = s] ELSE intent[i]]
  /\ UNCHANGED <<status, media, key, prepared, permanent, summary, process>>
-----------------------------------------------------------------------------
(* The consumer. *)

Goto(l) == pc' = l /\ UNCHANGED cur
Rest == pc' = "idle" /\ cur' = None
Steady == UNCHANGED <<mode, request, stranded, crashes>>

Take ==
  /\ mode = "up" /\ pc = "idle" /\ queue # <<>>
  /\ cur' = Head(queue) /\ queue' = Tail(queue) /\ pc' = "open"
  /\ UNCHANGED <<row, summary, intent>> /\ Steady

(* run_job returns a job that is not pending as it is. *)
OpenJob ==
  /\ pc = "open"
  /\ IF status[cur] = "pending" THEN Goto("prepare") ELSE Rest
  /\ UNCHANGED <<row, summary, intent, queue>> /\ Steady

(* The failure is recorded if the job is still active, then the summary. *)
Fail(lasting) ==
  IF Active(cur) THEN End(cur, "failed", lasting) /\ Goto("failed")
  ELSE UNCHANGED row /\ Rest

(* The service cannot be built; the audio changed since the job was prepared. *)
Unusable ==
  /\ \/ pc = "open"
     \/ pc = "prepare" /\ prepared[cur]
  /\ Fail(TRUE)
  /\ UNCHANGED <<summary, intent, queue>> /\ Steady

Prepare ==
  /\ pc = "prepare"
  /\ IF status[cur] = "pending"
     THEN prepared' = [prepared EXCEPT ![cur] = TRUE] /\ Goto("start")
     ELSE UNCHANGED prepared /\ Goto("handler")
  /\ UNCHANGED <<status, media, key, permanent, publication, summary, intent, queue>> /\ Steady

MarkRunning ==
  /\ pc = "start"
  /\ IF status[cur] = "pending"
     THEN status' = [status EXCEPT ![cur] = "running"] /\ Goto("announce")
     ELSE UNCHANGED status /\ Goto("handler")
  /\ UNCHANGED <<media, key, prepared, permanent, publication, summary, intent, queue>> /\ Steady

(* The summary, and the second mark_running. *)
Announce ==
  /\ pc = "announce"
  /\ Show(media[cur], "transcribing")
  /\ Goto(IF status[cur] = "running" THEN "provider" ELSE "handler")
  /\ UNCHANGED <<row, intent, queue>> /\ Steady

(* The provider fails, stops for a cancellation or for the shutdown, or runs
   into its deadline. *)
ProviderFails(lasting) ==
  /\ pc = "provider"
  /\ IF status[cur] = "cancelled" THEN Goto("cancelled") /\ UNCHANGED row
     ELSE End(cur, "failed", lasting) /\ Goto("failed")
  /\ UNCHANGED <<summary, intent, queue>> /\ Steady

(* A job whose process is stopping is left running for the next boot. *)
ProviderSucceeds ==
  /\ pc = "provider"
  /\ CASE status[cur] = "cancelled" -> Goto("cancelled")
       [] status[cur] = "running" /\ mode = "stopping" -> Rest
       [] OTHER -> Goto("save")
  /\ UNCHANGED <<row, summary, intent, queue>> /\ Steady

Succeed ==
  /\ status' = [status EXCEPT ![cur] = "succeeded"]
  /\ intent' = [i \in Intent |->
       IF intent[i].media = media[cur] /\ intent[i].status = "pending_transcription"
       THEN [intent[i] EXCEPT !.status = "ready_to_publish"] ELSE intent[i]]
  /\ UNCHANGED <<media, key, prepared, permanent, publication>>
  /\ Goto("ready")

(* A mutant: a cancellation meanwhile is overlooked. *)
SaveUnchecked ==
  /\ pc = "save"
  /\ IF mode = "up" THEN Succeed ELSE Rest /\ UNCHANGED <<row, intent>>
  /\ UNCHANGED <<summary, queue>> /\ Steady

(* Normalised, formatted and written, unless cancelled meanwhile: a version
   and the job's success in one transaction. *)
Save ==
  /\ pc = "save"
  /\ IF mode = "up" /\ status[cur] = "running" THEN Succeed
     ELSE Rest /\ UNCHANGED <<row, intent>>
  /\ UNCHANGED <<summary, queue>> /\ Steady

(* The artifact cannot be written: recorded before the exception, which finds
   nothing left to settle and no summary to write. *)
ArtifactFails ==
  /\ pc = "save"
  /\ IF status[cur] = "running" THEN End(cur, "failed", TRUE) ELSE UNCHANGED row
  /\ Rest
  /\ UNCHANGED <<summary, intent, queue>> /\ Steady

(* A contract or store error, or an input/output error, in any other step. *)
Raise ==
  /\ pc \in {"prepare", "provider", "save"}
  /\ Goto("handler")
  /\ UNCHANGED <<row, summary, intent, queue>> /\ Steady

Handler ==
  /\ pc = "handler"
  /\ Fail(TRUE)
  /\ UNCHANGED <<summary, intent, queue>> /\ Steady

(* An exception of any other kind: logged, the job left as it is. *)
Escape ==
  /\ pc \in {"open", "prepare", "provider", "save"}
  /\ stranded' = IF Active(cur) THEN stranded \cup {cur} ELSE stranded
  /\ Rest
  /\ UNCHANGED <<row, summary, intent, queue, mode, request, crashes>>

WorkerSummary ==
  /\ pc \in {"failed", "cancelled", "ready"}
  /\ Show(media[cur], CASE pc = "failed" -> "failed"
                        [] pc = "cancelled" -> "uploaded"
                        [] pc = "ready" -> "transcript_ready")
  /\ Rest
  /\ UNCHANGED <<row, intent, queue>> /\ Steady
-----------------------------------------------------------------------------
(* Shutdown, crash and recovery. *)

Stop ==
  /\ mode = "up" /\ crashes < MaxCrashes
  /\ mode' = "stopping"
  /\ UNCHANGED <<row, summary, intent, request, queue, worker, stranded, crashes>>

Down ==
  /\ mode' = "down"
  /\ crashes' = IF mode = "off" THEN crashes ELSE crashes + 1
  /\ request' = [r \in Request |-> Idle]
  /\ queue' = <<>> /\ Rest
  /\ UNCHANGED <<row, summary, intent, stranded>>

(* At any point, or when a stopping process has finished what it was doing. *)
Crash ==
  /\ \/ mode = "up" /\ crashes < MaxCrashes
     \/ mode \in {"stopping", "off"}
  /\ Down

Running == {j \in Job : status[j] = "running"}
Pending == {j \in Job : status[j] = "pending"}
Orders(S) == {q \in [1 .. Cardinality(S) -> S] : \A a, b \in DOMAIN q : q[a] = q[b] => a = b}

(* A mutant: what was pending is not queued again. *)
BootForgetful ==
  /\ mode = "down"
  /\ mode' = "up"
  /\ status' = [j \in Job |-> IF j \in Running THEN "failed" ELSE status[j]]
  /\ summary' = [m \in Media |->
       IF \E j \in Running : media[j] = m THEN "failed" ELSE summary[m]]
  /\ stranded' = {}
  /\ UNCHANGED <<media, key, prepared, permanent, publication, intent,
                 request, queue, worker, crashes>>

(* What ran has failed; what was pending is queued again, in the order of the
   random ids, unless transcription is disabled. *)
Boot ==
  /\ mode = "down"
  /\ \/ mode' = "up" /\ queue' \in Orders(Pending) /\ stranded' = {}
     \/ mode' = "off" /\ stranded' = Pending /\ UNCHANGED queue
  /\ status' = [j \in Job |-> IF j \in Running THEN "failed" ELSE status[j]]
  /\ summary' = [m \in Media |->
       IF \E j \in Running : media[j] = m THEN "failed" ELSE summary[m]]
  /\ UNCHANGED <<media, key, prepared, permanent, publication, intent,
                 request, worker, crashes>>
-----------------------------------------------------------------------------
Provider == ProviderSucceeds \/ \E lasting \in BOOLEAN : ProviderFails(lasting)
Worker ==
  \/ Take \/ OpenJob \/ Unusable \/ Prepare \/ MarkRunning \/ Announce
  \/ Provider \/ Save \/ ArtifactFails \/ Raise \/ Handler \/ Escape \/ WorkerSummary

Serve(r) == (\E j \in Job : Create(r, j)) \/ Refused(r) \/ Enqueue(r) \/ SummaryFails(r)
              \/ CancelSummary(r)

Next ==
  \/ \E r \in Request :
       \/ Serve(r)
       \/ \E m \in Media, k \in Key : StartCheck(r, m, k) \/ RetryCheck(r, m, k)
       \/ \E j \in Job : Cancel(r, j)
  \/ \E i \in Intent : CancelIntent(i) \/ (\E m \in Media : CreateIntent(i, m))
  \/ \E j \in Job : BeginPublication(j) \/ (\E s \in {"published", "failed"} : EndPublication(j, s))
  \/ Worker
  \/ Stop \/ Crash \/ Boot

(* Requests and the consumer are never suspended for ever, a provider's call
   ends by its deadline, and a process that is down is restarted. *)
Fairness ==
  /\ \A r \in Request : WF_vars(Serve(r))
  /\ WF_vars(Worker)
  /\ WF_vars(Boot)
  /\ WF_vars(mode = "stopping" /\ Crash)

Spec == Init /\ [][Next]_vars
FairSpec == Spec /\ Fairness
-----------------------------------------------------------------------------
Queued(j)  == \E n \in DOMAIN queue : queue[n] = j
Carried(j) == \E r \in Request : request[r].job = j

(* While the process serves, a pending job waits in the queue, is carried by
   the request that made it or is in the consumer's hands, and a running job
   is the consumer's, unless an error or a boot without transcription has left
   it for a later boot: nobody's job would block its video for ever.  A video
   has one active job, a key has made one job. *)
JobsOwned ==
  /\ Serving =>
       \A j \in Job \ stranded :
         /\ status[j] = "pending" => Queued(j) \/ Carried(j) \/ cur = j
         /\ status[j] = "running" => cur = j
  /\ \A i, j \in Job : i # j /\ status[i] # "absent" /\ status[j] # "absent" =>
       key[i] # key[j] /\ ~ (Active(i) /\ Active(j) /\ media[i] = media[j])

(* While the consumer transcribes a job that is not cancelled its video is
   shown as being transcribed, late commits of earlier requests and of earlier
   attempts notwithstanding. *)
ShownTranscribing ==
  pc \in {"provider", "save"} /\ status[cur] = "running" =>
    summary[media[cur]] = "transcribing"

(* A video has one open intent; an intent that is ready to publish has a
   version to publish, one that is publishing or published follows what its
   version does. *)
IntentsFollow ==
  /\ \A i, n \in Intent :
       intent[i].status \in Open /\ intent[n].status \in Open /\ intent[i].media = intent[n].media
         => i = n
  /\ \A i \in Intent :
       /\ intent[i].status = "ready_to_publish" =>
            \E j \in JobsOf(intent[i].media) : status[j] = "succeeded"
       /\ intent[i].status \in {"publishing", "published"} =>
            publication[intent[i].job] = intent[i].status

(* What has ended stays as it ended: a cancelled job never comes to have a
   version, a failed one is never run again, a cancelled or published intent
   never moves. *)
EndedStays ==
  [][ /\ \A j \in Job : Ended(j) => status'[j] = status[j]
      /\ \A i \in Intent : intent[i].status \in {"cancelled", "published"}
           => intent'[i] = intent[i] ]_vars

(* Every job that is made ends, or is left to a later boot by an error or by a
   boot without transcription. *)
EveryJobEnds == \A j \in Job : Active(j) ~> (Ended(j) \/ j \in stranded)
=============================================================================
