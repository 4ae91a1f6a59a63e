# TLA+ models of the PinCheng BIM knowledge base

This directory holds TLA+ specifications of the concurrent and crash-prone parts
of the system, the TLC configurations that check them on small instances, and
TLAPS proofs of the results that matter most for every size. Line references
are to the repository's files.

Run from this directory, for instance:

    tlc -workers 2 -config AsrService.cfg MCAsrService.tla
    tlc -workers 2 -config ManagedContent.cfg MCManagedContent.tla
    tlc -workers 2 -config Directories.cfg MCSharedMirrors.tla
    tlapm AsrServiceProofs.tla
    tlapm ImageOcrProofs.tla
    tlapm TranscriptionJobProofs.tla
    tlapm TranscriptPublicationProofs.tla
    tlapm LibraryProofs.tla
    tlapm ManagedContentProofs.tla
    tlapm AnsweringProofs.tla
    tlapm ReclassificationProofs.tla

`PROJECT.json` lists every run with the properties of its configuration, the
code each definition stands for, and for every checked property one plausible
slip of the code (a "mutant", an operator kept beside the definition it would
replace) that the run detects.

## 1. The system

A FastAPI backend (`api/`, one process, one event loop, SQLite) serves a library
of documents and training videos, answers questions over it (`src/`, Qdrant), and
sends recordings to a separate ASR service (`services/asr_service/`, a second
process with its own spool on disk). The table lists the parts; the columns name
what would be hard to test.

| Part | State it keeps | Operations | What is hard | Correct when |
|---|---|---|---|---|
| ASR service (`services/asr_service`) | a directory per job: `request.json`, `job.json`, upload manifest, checkpoint, result; in memory the queue and two latches | create, upload, complete, start, cancel, get, result; the scheduler thread; recovery at boot | one thread against concurrent handlers; two writes that end a job; crash and resume; a gate read without the lock | one job runs at a time; no started job is lost; a transcript is delivered whole or not at all; ended jobs stay ended |
| Remote ASR provider (`src/transcription/remote_provider.py`) | the position of one `transcribe` call | create, upload, complete, start, poll, cancel, result | deadline and cancellation racing the answer; lost requests and answers; a paused job must be started again | every call is answered, and truly; the service does not work on for a caller that gave up |
| Transcription jobs (`api/transcription_store.py`, `_service.py`, `_worker.py`, `_runtime.py`, `api/routes_transcription.py`, `api/media_publication_intents.py`) | `transcription_jobs`, the video's summary status, publication intents, the consumer's queue | start, bulk start, retry, cancel, the consumer's stages, stop, recovery; open, cancel and attach an intent | job and summary are two transactions; a cancel between any two steps of the consumer; exceptions nobody handles | one active job per video, never orphaned; what ended stays; the summary shows what runs; intents follow their version |
| Transcript publication (`api/transcription_store.py`, `api/transcription_publication.py`, `api/routes_transcription.py`) | versions, metadata revisions, replacements, index jobs, heads, catalogue items, chunks in Qdrant | transcribe, edit, revise, review, delete, publish, index, promote, replace, archive, restore, recover | requests between two steps of the worker; done but not promoted; SQLite and Qdrant change at different times | what a video shows is published, indexed and unique; history is a chain; every publication ends |
| Index worker (`api/indexing.py`) | one asyncio queue, sets of queued ids | enqueue, take, run, stop, resume at boot | one worker for four kinds of job; a restart loses the queue | every pending job is queued while the process is up |
| Managed content (`api/content_publication.py`, `api/content_store.py`, `api/content_trash_cleanup.py`) | items, versions, heads, publications with their jobs, points and parents | upload, revise, move, publish, fail, archive, restore, force delete, purge, recover | promotion does not look at the item again; check and insert are two steps; a purge over several stores | what is served was published and is indexed; no gap in service; nothing of a purged item stays |
| Directories (`api/content_store.py`, `api/routes_content.py`, `api/external_media.py`) | the tree with codes, sort orders, levels and versions; folder requests; mirrors of a share's folders | create, edit, number, move, delete, delete by force, request, approve, scan, list | siblings are renumbered in two passes under a unique index; forms write every field back; levels are shifted by a difference; a walk of the share is older than the transaction that applies it | siblings differ and keep their order; no form undoes another's change; levels are depths; nothing stays in a deleted directory; mirrors follow the folders |
| Reclassification (`api/content_reclassification.py`, `api/content_view.py`) | a job row, Qdrant points, parents, items, the exported view | apply, commit, verify, compensate, recover | a saga whose compensations may fail | all stores agree on the directory, or the job says they may not |
| Bulk operations (`api/content_bulk_operations.py`, `api/routes_content.py`) | run and row statuses, archives on disk, the executor | preflight, select, start, pack, delete, publish, cancel, expire, recover | no write is a compare-and-set | what a run reports is so, and every queued run ends |
| Image OCR (`api/image_ocr_jobs.py`, `api/content_search.py`) | leased jobs, heads, the search's documents | enqueue, lease, finish, cancel | a late answer after the lease expired | a version is found by what was read last; every job ends, once |
| Conversations (`api/conversation_runtime.py`, `api/routes_chat.py`, `src/session.py`) | turns, versions, per-conversation locks | ask, regenerate, edit, stream, persist, delete | the lock is released while a thread is still in the stream | an answer stays filed under its question and context; the lock is always released |
| Retrieval (`src/retrieve.py`, `src/index.py`, `src/indexing_pipeline.py`) | none between questions; points in Qdrant, rows of `parents.sqlite` | snapshot, recall per sub-query, cap, fuse, select, fetch; write, promote, purge | a search reads three stores one after the other while versions are written, published and purged; cuts by caps and quotas | a hit has its text; every side of a comparison keeps a place |
| Uploads, external scan, authentication, migrations, backup, rate limit, frontend, GPU, office and OCR servers, scripts | see `PROJECT.json` | | | |

How they interact: a route starts a transcription job; its worker calls the remote
provider, which drives one job of the ASR service over HTTP; the result becomes a
transcript version; after review a route begins its publication and queues an
index job; the index worker writes chunks to Qdrant and promotes the version to
the head of its video, which the library and retrieval read. Videos and documents
share the catalogue (`content_items`), the trash and the index worker. At boot
the backend recovers, in this order, document index jobs, transcript
publications, content publications, reclassifications, bulk operations and
transcription jobs (`api/main.py:199-225`); an exception in the second of these
keeps the backend down.

`PROJECT.json` lists the hazards at the line where each bites, with the
properties that would notice, or why none does.

## 2. What is modelled

### AsrService: the ASR service

`AsrService.tla` models the spool, the handlers and the scheduler thread. Files
are the variables `state`, `parts`/`complete`, `ckpt`, `result` and survive
`Crash`; `queue`, `failures`, `oom` and the thread's `pc`, `cur`, `next`, `segs`
do not. A job is its client request id, because `LocalJobRepository.find` makes
the two identities one. `born` is the order of `request.json`'s modification
times, by which recovery queues jobs.

Atomicity follows the code: a handler that takes `_state_lock` is one step and is
disabled while the thread holds the lock between `result.json` and `job.json`
(`LockFree`); uploads take no lock. `run_next` is cut where the lock is released
or a file is written: `Pop`, `CheckGate` (the pause reason is computed without the
lock), `Pause`, `Begin`, `Load`, `Transcribe` (one window, one checkpoint),
`EngineFails`/`CommitFailure`, `InvalidOutput`, `NoSpeech`,
`WriteCandidate`/`CommitSuccess`. A transition the table `Allowed` forbids, and a
result that differs from a stored one, raise: the exception leaves `run_next` and
ends the thread (`pc = "dead"`). `complete_upload` takes no lock either; `Complete` is
one step because nothing but a second completion of the same job writes a job before
it is queued, and its client sends one.

`Restart` is `repo.recover()` with `Scheduler.__post_init__`. `FailedRestart` is
a boot that raises after it has paused a running job. `TornCreate`, `TornUpload`
and `TornComplete` are a handler cut short between two of its files.

Audio is `Chunks` windows; a transcript is the set of windows it covers, so that a
window lost or transcribed twice is visible. Text, timestamps, hashes and the
engine's inner workings are left out. `gate` stands for everything but the
latches that `_pause_reason` looks at: enabled, disk, the BGE probe and the
latch of a shutdown.

`AsrJobContract.tla` is what a client is promised: a life cycle (unknown, open,
waiting, active, ended), one active job at a time, and a transcript that appears
whole in the step that ends the job. `KeepsContract` is the refinement, with the
phase computed from the state and the transcript from the result.

### TranscriptPublication: from version to head

`TranscriptPublication.tla` has one action per SQLite transaction
(`BEGIN IMMEDIATE` serialises them), and one per step of the index worker between
two of them: `Take`, `Index`, `Receipt`, `Promote` or `PromoteRefused`,
`IndexFails`. A version is the number of its creation. `job[v]` is the latest
index job, since older ones are failed. `indexed[v]` is the title the chunks in
Qdrant carry; a title is named after the revision that proposed it.

`Request` holds the routes: `Retry` (a new transcription job of a candidate, which sets its
failed replacement back to pending), `Transcribed` (which does so too), `JobFails`, `Edit`, `ReviseMetadata`,
`Reconsider`, `Reject`, `Delete`, `Begin`, `Register` (a replacement upload),
`Discover` (changed content of a shared file), `Archive`, `Restore`. Guards are
the conditions under which the transaction commits, unique indexes and foreign
keys included; a request that is refused or aborts changes nothing.
`Crash`, `BootPromote` and `Boot` are a restart: a boot promotes what is indexed
and queues what is pending, and ends at the first promotion that raises.

Abstractions, each chosen because no property can tell the difference:

- the job stages pending, parsing, chunking and embedding are one, `active`: a
  boot resumes all of them alike;
- the queue is a set; the order of a FIFO only matters for liveness, where strong
  fairness of each `Take` replaces it;
- artifacts, hashes and policies that always resolve are left out; whether the
  profile of automatic versions resolves is the variable `profile`, which changes
  only while the process is down, because the registry is loaded at start;
- `Paths` restricts which administrator's paths a run explores, `Shared` says
  which videos come from a read-only share;
- the prompt-echo guard, purging, category availability and manual versions of the
  earlier format are not modelled.

`TranscriptShelf.tla` is the readers' view: a video shows at most one version, a
version taken off never returns, and a video that shows a transcript keeps showing
one unless a replacement takes over its place in the same step.

### TranscriptionJob: from a request to a version

`TranscriptionJob.tla` has request threads and one consumer. A request is the two
or three transactions it really is: the check and its idempotency key
(`StartCheck`, `RetryCheck`), the row (`Create` or `Refused`), the queue and the
summary (`Enqueue`, `SummaryFails`), and for a cancel the row (`Cancel`) and then
the summary (`CancelSummary`). The consumer's position `pc` names the gaps between
its transactions: `Take`, `OpenJob`, `Prepare`, `MarkRunning`, `Announce`, the
provider, `Save`, and the ways out: `Unusable`, `Fail`, `ArtifactFails`, `Raise`,
`Handler`, `Escape`, `WorkerSummary`. `Stop`, `Crash` and `Boot` are
`stop_worker`, the end of the process and `audit_and_recover`. Intents
(`CreateIntent`, `CancelIntent`, `Attached`, `BeginPublication`,
`EndPublication`) follow the jobs and the publications of their video.

Only a cancellation writes a job beside its consumer, so comparing `updated_at`
fails exactly when the status check of the same transaction does, and the two are
one guard. Progress checkpoints, profiles and the contents of versions are left
out. `Boot` has two outcomes: with transcription configured the pending jobs are queued
again and the consumer starts; with it disabled (`mode = "off"`, `main.py:217-222`) what ran has
failed, but nothing is queued and no consumer runs, while cancels, intents and publications go
on. `stranded` records the jobs that an exception outside the handled kinds, or such a
boot, has left behind; `JobsOwned` and `EveryJobEnds` say nothing of those until the next
boot, so of an unhandled error they show that the boot repairs it and no more.

### RemoteAsrProvider: one call over the service's contract

`RemoteAsrProvider.tla` is `transcribe` request by request, with the check of
cancellation and deadline the code makes before each. The service is not modelled
again: `Service == INSTANCE AsrJobContract`, the specification `AsrService` is
proved to implement (section 4), so what holds here holds over the real service.
`Lose` is a request or an answer lost after the service acted on it; `Crash` cuts
the call. Time is the flag `late`. The provider never repeats a request but the
polling and starting ones.

### ManagedContent: documents from upload to purge

`ManagedContent.tla` has the catalogue (`stage`, `category`, `name`, the lifecycle
`life` of each version, `head`), publications with their index jobs, `indexed`
(points and parents together), the publish routes as the two steps they are
(`PublishCheck`, `PublishInsert`), the worker (`Take`, `Stage`, `Write`,
`Promote`, `PromoteCancelled`, `Fail`, `CleanCancelled`), `ForceDelete` of a
directory, the trash and the purge (`PurgePlan`, `PurgeExternal`,
`PurgeRecords`, `PurgeFails`), `Crash` and `Boot`. An item of `Attachment` is
published without text. `overtaken` records the items that one of three documented
races has caught (section 5); `ServedSound` and `PurgedForgotten` exempt those
and nothing else.

### CategoryTree: the directories

`CategoryTree.tla` is the table of directories, a row for each ever created. An
action is a request with everything its transaction does: `CreateAt` and
`CreateCoded`, `Edit`, `Rename`, `SortOrder`, `Number`, `Move`, `Delete`,
`ForceDelete`, `Ask`/`Approve`/`Reject` for requested folders, and `File`,
`Archive`, `Leave` for the things directories hold. `Rewritten` is the renumbering of
siblings from positions read before the request's own write (`read`), `Replanted`
the shift of levels below a moved row, `Subtree` the recursive queries, which
pass the rows of one set only: live rows when a directory is deleted, all rows when
it is moved.

A form is a row as a browser shows it. The code compares the form's version with
the row's; the model keeps the forms that would be accepted and drops a form when a
commit moves the version of its row (`Commit`). So a commit that changes a row and
forgets its version is a form that shows something else (`FormsCurrent`). The code
0 is the temporary code a moved row carries inside its transaction
(`content_store.py:1330`), and sometimes after it (section 5). Sort orders are counted
in tens, and what a directory holds is the kind of it, with no identity.

### SharedMirrors: folders of a share in the tree

`SharedMirrors.tla` extends the tree by one share (`Share`) whose folders are
mirrored by rows. A scan walks the share outside any transaction, so the folders it
brings (`walk`) are any set that is closed under the folder above, whatever has
happened since; the transaction is `Materialized`: a fold over the folders in the
code's order in which new mirrors are appended (`Added`, `AppendMirror`), and one over
the mirrors that have vanished, the deepest first (`LastToGo`), each soft-deleted
(`DropMirror`) and its siblings renumbered (`RenumberMirrors`). A clash with the unique index
ends the scan as failed and changes nothing. `List` is the listing of directories,
which reconciles with the folders of the recorded videos alone. Videos, their
metadata and their availability are left out; their folders are `recorded`.

### Reclassification: a saga over four stores

`Reclassification.tla` moves a published document: `points`, `parents`, the item
(`where`) and the exported `view` are changed one after the other by the worker,
verified, and compensated in the same order when a step fails (`Rollback`,
`RestorePoints`, `RestoreParents`, `RestoreItem`, `Finish`); each compensation may
fail too. `Boot`, `Recover` and `Serve` are the recovery, which a crash may cut.
Archiving, restoring, publishing, renaming and forced deletion happen at any time.
`Split` names the two outcomes after which the stores may disagree and the job row
says so (`rollback_failed`) or was overwritten (`forced`). `Held` is the job that has
begun and not ended.

### BulkOperations: runs whose status is checked and later written

`BulkOperations.tla` separates every check of a run's status from the write that
relies on it, because the code does: requests (`AskStart`/`Start`/`Enqueue`,
`AskCancel`/`Cancel`/`Unlink`, `AskSelect`/`Select`, `AskExpired`/`Expire`), the
executor packing an archive or deleting directories, the synchronous publication
(`Rows`, `Publish`, `Refuse`, `Mark`), and recovery. The end of a run is two steps as
well: `Finalize`, `TotalUp`, `PackFails` and `DeleteBreaks` look at the status and add
up, `Finalized` and `End` write what was found, over a cancellation that came in
between. A download of folders without a file is allowed, as in the code. `stale` records
the runs written on a check that held no longer; the properties hold for all the
others.

### Conversation: turns under a lock

`Conversation.tla` has requests that ask, edit or regenerate. `Accept` is the
check before the lock, `Enter` the check and the hydration under it, `Prepare` the
thread that rewrites and retrieves, `Pull`/`Chunk`/`Finish` the thread inside the
stream, `Disconnect` the client found gone, `Cut` the cancelled response, after
which the thread may still be inside and persist later (`Collect`). Questions and
answers have versions; `session` is what a request was hydrated with. `late`
records requests that persisted after they had lost the lock; `ContextStands` is
claimed as long as there is none (section 5).

### ImageOcr: leases and late answers

`ImageOcr.tla` has the catalogue as far as it bears on the jobs (`Upload`,
`Revise`, `Promote`, `Archive`, `Restore`, `Purge`), the routes (`Enqueue`,
`Cancel`) and the polling workers: `Lease` puts expired leases back and takes the
oldest job, `Expire` is time, `Finish` records an answer or an error under a lease
that is still held, `Ignored` is the late answer, `Drop` a worker that dies. A
lease's token is the worker that has it, since a worker holds one job.
`shown` is the job whose text the search's document of a version carries.

### Retrieval: a search against a changing library

`Retrieval.tla` puts the two stores of the index apart that `ManagedContent` takes
together: `points` (children in Qdrant) and `parents` (their text). The worker
writes them in the order of `index_document` (`StoreParents`, `Probe`,
`IndexChild` batch by batch, `Promote`), may fail at any point (`WriterFails`,
which leaves what is written) or find itself cancelled and clean up
(`CleanPoints`, `CleanParents`, `CleanFails`); the trash purges in its order
(`Plan`, `PurgePoints`, `PurgeParents`, `PurgeRecords`, `PurgeFails`), and a
directory may be deleted by force.

A search is `Look` (the visibility snapshots), one `Recall` per sub-query,
`Select` and `Fetch`; nothing holds them together. `Select` is the whole of
`retrieve` or `retrieve_multi`: `Heads` and `Reranked` are
`_cap_children_for_rerank`, `Reserved` and `Fused` the quota and the final
ranking, `Admit` the fold of `_dedup_to_parents`.

Abstractions: scores are any order of the hits, so what holds is true of every
embedding and reranker; the snapshots of documents and of videos are read in one
step (an item belongs to one of them); filters by directory and document type,
which the code repeats on both stores, are left out; the versions of a document are
purged in one step per store; documents indexed before the catalogue existed, and
the sources carried over from the last turn (section 5), are left out.
`overtaken` has the meaning it has in `ManagedContent`. Requests, archives and restores
look at what the code looks at, the version named and the latest version of the item, so two
versions of an item may be in publication at once and an older one may follow a newer
one. `fresh` are the versions that may not have been uploaded yet, `Latest` the ones that
can be the latest of their item. Also left out: the wider
top-k of questions that ask for an enumeration, and the recall by title that goes with it
(`retrieve.py:563`).

## 3. What the runs show

State counts are distinct states; every run finishes in less than five minutes on
two workers.

| Run | Instance | Shows |
|---|---|---|
| `asr_service` (294 K) | 2 jobs, 2 parts, 2 windows, queue limit 1, failure limit 1, 1 crash, all faults | `NoLostJob`, `CheckpointExact`, `ResultFaithful`, `FailClosed`, `KeepsContract`, and `TakenOnEnds` under `FairSpec` |
| `remote` (126 K) | 2 application jobs, every loss, deadline, cancellation and crash | `EveryCallAnswered` under `FairSpec` |
| `jobs` (986 K) | 1 shared video, 2 request threads, 2 keys, 2 jobs, 1 intent, 1 crash or stop, boots with and without transcription | `JobsOwned`, `ShownTranscribing`, `IntentsFollow`, `EndedStays`, and `EveryJobEnds` under `FairSpec` |
| `publication` (1.2 M) | 3 managed videos, 3 versions; metadata, replacements, trash | `HeadSound`, `PublicationTracked`, `LinearHistory`, `ReplacementFrozen`, `KeepsShelf` |
| `publication_shared` (430 K) | 2 shared videos, 3 versions; edits, metadata, changed content, failing and revived candidates, trash, withdrawn profile | `PublicationSettles` under `FairSpec` |
| `content` (4.2 M) | 2 items, one an attachment; 2 directories, 1 name, 1 publisher thread, 2 publications, 3 versions together | `ServedSound`, `PublicationsDriven`, `PurgedForgotten`, `HeadKept` |
| `reclass` (1.3 M) | 2 documents, jobs for one of them, 2 directories, 1 job, 1 rename, 2 crashes | `StoresAgree`, `EndsWhole`, `EveryJobEnds` under `FairSpec` |
| `bulk` (892 K) | 1 run, 2 members, 2 request threads, all 3 operations, 2 crashes | `ReportTrue`, `QueuedEnds` under `FairSpec` |
| `conversation` (58 K) | 3 requests | `ContextStands`, `EveryChatEnds` under `FairSpec` |
| `image_ocr` (268 K) | 1 item, 2 versions, 3 jobs, 2 workers | `TextStands`, `EndsOnce` under `FairSpec` |
| `retrieval` (5.3 M) | a document with 2 versions, a video; 3 parents, 4 children, 1 publication, 2 sub-queries | `NothingLost`, `HitsResolve`, `SidesHeard` |
| `directories` (86 K) | up to 4 directories, 3 names, 2 nested folders of a share, 1 form, 1 thing held | `FormsCurrent`, `LevelsAgree`, `NothingStranded`, `SiblingsDistinct`, `OrderKept`, `MirrorsFollow` |

Why the bounds are enough. Two ASR jobs are the least that compete for the thread
and for a queue of one; two windows give a crash before, between and after the
checkpoints, and one of the two recordings has a silent window so that `NoSpeech`
and a partial transcript both occur; failure limit 1 is reached by one failure,
and a job in hand while the latch is set needs only the other job. One crash is
enough for every property of two consecutive lives of the process, and the proofs
remove the bound. For publication, three versions make a chain of two
supersessions, or an edit against a revision of the same base; three videos make a
replacement of a replacement. Crashes are not bounded there. Two transcription
jobs of one video, with two threads, are the least in which a late commit of the
first meets the second; one intent and one crash suffice there because the proofs
remove both bounds. A process without transcription may be restarted at any time
(`MaxCrashes` counts the others), so a boot with it follows one without. Two documents are needed for a conflict of names and for a purge
of one beside the publication of the other; three versions together give an older
and a newer version of one of them. `FewVersions` is that bound on the sum. In
`reclass` the second document only serves as the one that comes into the target. One
bulk run is enough because runs share only the executor's queue, and two members
give a run half done. Three chat requests are one that is left behind, one that
reads too early and one that is built on what it read. Three OCR jobs give a version
three attempts, or two versions a job each and one of them a second; two workers
are the least that can hold the same job one after the other. In `retrieval` the
requested publication replaces the version on show, or brings back what was deleted,
while the video is binned and purged. With one request no two versions of the document
are in publication at once; the two theorems on the library are for any number of requests,
and TLC confirmed them with three of them on the document alone (1.3 M states). A parent
of two children shows a version half
written, and searches bring one child each (`RecallLimit`) because the library's
properties are about single hits. What a selection loses depends on whole hit
lists, so `SidesHeard` does not wait for the search to find them: `FairCounts` goes
through all pairs of lists of up to `Depth` = 3 of the 5 children, with a cap of 3
that cuts the union of two such lists and with every order of the last ranking. In
`directories` three siblings are what a renumbering needs to shift one of them over
another and leave a third, and with the root four rows give a move of a subtree, and
a mirror in a mirror beside an administrator's directory. `FewOdd` keeps the run
small: one row at a time is deleted, inactive or off its place; one name belongs to
the first directory; a share comes before the other directories, and beside it the
first directory stays closed and nothing is held. The proofs remove all of this.

What the properties say is in the comment above each. The ones a reviewer may
want to argue about:

- `ResultFaithful` and `CheckpointExact` are about the two writes and the merge of
  windows over any number of resumptions;
- `PublicationTracked` ties the status of a version, its index job and the
  worker's queue together across crashes;
- `LinearHistory`: the published versions form chains, each superseded by exactly
  one or on show, also across replacements;
- `ReplacementFrozen` holds as long as no failed replacement is revived (the path
  `retry`) and none is discovered in a share (`share`); the run leaves both out,
  because with either the source does move on (section 5);
- `HeadSound` includes that the chunks on show carry the current title; the run
  that checks it leaves out `profile` and `retry`, with which it fails (section 5);
- `FormsCurrent` and `OrderKept` are about requests that renumber siblings they do
  not name: a form of one of them must be refused, or show what it has become, and
  no two of them may change places;
- `MirrorsFollow` is asked of every state and every walk, so it covers a share that
  changed in any way between its walk and the transaction;
- `PublicationSettles` counts a publication whose promotion is refused as settled:
  it is indexed and waits for the next boot;
- `ContextStands`, `ReportTrue`, `ServedSound`, `PurgedForgotten`,
  `NothingLost` and `HitsResolve` are conditional on a history variable that names one
  documented race each. Dropping the exemption gives the counterexamples of
  section 5;
- `HitsResolve` is about the order of two writes in two places: parents are stored
  before points and purged after them, and a video keeps its head in the bin, so a
  purge that stops half way must not leave points without text;
- `SidesHeard` promises a sub-query as many parents as its quota and the head that
  is reserved for it before the rerank allow: with a larger head it would be the
  quota alone;
- `EndsWhole` is the all-or-nothing of the saga: each job that ends leaves stores,
  item and view at one place, also when a crash falls into the compensation.

### Fairness

`AsrService!Fairness`: the thread is scheduled while the process is up (it is a
loop, `run_until_stopped`), and a supervisor restarts the service. Nothing is assumed of
the clients: `RemoteAsrProvider` starts a job once, and once for each poll that finds
it paused, gives up when the queue is full, and may be cancelled or late
(`remote_provider.py:521-605`). So `TakenOnEnds` speaks of the jobs the service has
taken on: one of them ends or is handed back paused, as long as the spool can be read and the
thread lives, and it ends if besides the gate stays open and no latch is set. A paused
job is nobody's until a client starts it, and a client that does not come back leaves it
paused for ever (section 5). The premises are what the service cannot do itself: nothing
in it opens the gate or resets a latch, a boot raises as long as a directory is
torn, and a thread that an exception has ended is not started again.

`RemoteAsrProvider!FairSpec`: time passes, and every request returns or raises
within the HTTP client's timeout. Nothing is assumed of the service: a call must be
answered even if its job never moves.

`TranscriptionJob!Fairness`: requests and the consumer are scheduled, a provider's
call ends by its deadline (which `RemoteAsrProvider` shows), and a process that is
down is restarted.

`TranscriptPublication!Fairness`: the worker task keeps running, the process is
restarted, and, standing for the FIFO, every job that is again and again ready to
be taken is taken. `PublicationSettles` assumes that the process stops crashing at
some time.

`Reclassification!FairSpec` and `BulkOperations!BulkFairSpec`: the worker, its
compensations and the restart run on, and a request past its check finishes.
`Conversation!ChatFairSpec`: threads and event loop are scheduled, every model call has
a timeout and an answer has a bounded number of tokens, hence the strong fairness
of `Finish`, which is only enabled while a thread is inside the stream.
`ImageOcr!FairSpec`: workers are polling threads, leases run out, and the service,
asked again and again, answers within a lease at some time: without that strong
fairness a job whose answer is always late is leased for ever (section 5).

## 4. What is proved

`AsrServiceProofs.tla` proves, for every set of jobs, number of parts and windows,
speech, limits, number of crashes and choice of faults:

| Theorem | States |
|---|---|
| `TypeCorrect` | `[]TypeOK` |
| `OneActiveJob` | `[]SingleActive` |
| `AcceptedJobsWait` | `[]NoLostJob` |
| `CheckpointsExact` | `[]CheckpointExact` |
| `ResultsFaithful` | `[]ResultFaithful` |
| `FailuresBounded` | `[]FailClosed` |
| `OomStops` | `NoStartAfterOom` |
| `EndedJobsStay` | `TerminalAbsorbing` |

`OomStops` and `EndedJobsStay` belong to no run: TLC sees that ended jobs stay ended
through `KeepsContract`.

`ServiceKeepsContract` is the refinement, `Spec => KeepsContract`, proved at the end of
the module from the same invariant.

The only assumption is `ConstantsAssumption` of `AsrService`, which every run
evaluates. The safety properties are not inductive as they stand; `IInv` adds

- `Holding`: which states the job in the thread's hands can have at each position;
  a cancel may fall between two sections of the lock and never inside one;
- `Down`: a process that is down has no thread, queue or latch;
- `BeginUnlatched`: at `begin` the gate was found open since the last
  out-of-memory failure, which only the thread itself can cause;
- `Stored`: a stored transcript is the whole one, over a finished checkpoint, and
  agrees with the state it is about to be committed with. It is what makes a
  resumption between the two writes harmless: the resumed job has nothing left to
  transcribe and computes the same result;
- `Recoverable`: every job with a directory is in the recovery order, so a restart
  drops none; and `Started`: an accepted job has left its upload behind.

`IInv` is proved in parts (type, thread, latches, transcripts, recovery, starts,
queue), each using only the parts before it, with one step per action.
`SelectsFacts`, `InAppend` and `InTail` are the facts about queues they rest on.
The refinement proof classifies the steps: a step changes no state, moves one job
(`OneMoves`, then `Stutters` or `Moves`), completes one (`Completion`) or restarts
(`RestartSuspends`).

`ImageOcrProofs.tla` proves, from `OcrAssumption` and for every set of items and
workers and any number of versions and jobs,

| Theorem | States |
|---|---|
| `TextAlwaysStands` | `[]TextStands` |
| `JobsEndOnce` | `[][OnlyActiveEnd]_vars`, the safety half of `EndsOnce` |

`TextStands` is inductive together with the types. The steps that touch no job that
has read its image are dealt with once (`ReadKept`, `TextKept`); what remains is
the answer under a lease, whose job must be younger than all that have read the
version (`Stale` compares the attempts), and the purge, which takes the head with
the jobs.

`TranscriptionJobProofs.tla` proves, from `JobAssumption` and for every set of
videos, shared or not, of keys and of request threads, and any number of jobs,
intents and crashes,

| Theorem | States |
|---|---|
| `NoJobOrphaned` | `[]JobsOwned` |
| `IntentsFollowVersions` | `[]IntentsFollow` |
| `RunningIsShown` | `[]ShownTranscribing` |
| `EndedForGood` | `EndedStays` |

The inductive invariant `IInv` adds to the types `Halted` (a process that is down has
neither consumer nor requests) and `Position`: for each place of the consumer, which
states its job can have there and which transaction of it has committed. Only a
cancellation writes a job beside its consumer, so each position allows the state the
consumer left and `cancelled`. `JobsOwned` splits in `Owned` (somebody has the job)
and `Distinct` (no video has two), since the actions that disturb the one do not
disturb the other. The intents need `Named` (an intent in publication names a
version), and `ShownTranscribing` the order in which summaries are written: a late
summary of an earlier request is guarded by the job the video has now.

`TranscriptPublicationProofs.tla` proves, from `ConstantsAssumption` and for every
set of videos and any number of versions,

| Theorem | States | On which paths |
|---|---|---|
| `TypesHold` | `[]TypeOK` | all |
| `PublicationIsTracked` | `[]PublicationTracked` | all |
| `HistoryIsLinear` | `[]LinearHistory` | all |
| `PublicationKeepsShelf` | `KeepsShelf`, the refinement of `TranscriptShelf` | all |
| `ReplacementStaysFrozen` | `[]ReplacementFrozen` | without `retry` and `share` |
| `HeadsAreSound` | `[]HeadSound` | without `retry` and `profile` |

The hypotheses of the last two (`NoRetry`, `NoShare`, `NoProfile`) are the paths of
section 5 on which the code does otherwise; the run `publication`, with metadata
revisions, replacements and the trash, satisfies them. What the first four rest on is
that a published version stays published: a step is a promotion, or it is `Quiet`,
that is, it touches no published version and no head (`StepQuiet`). The refinement
then has one case. For the replacements `RInv` says that a pending candidate shows
nothing and that its source is as it was registered, live, with nothing in
publication; `StepCalm` deals at once with all steps that are no promotion. For the
title `LInv` says what a waiting version must have: at most one version can be
promoted at any time, and it carries the title the promotion leaves.

`LibraryProofs.tla` has two parts, the directories and the bulk operations on them. For
the directories it proves, from `TreeAssumption` and for all names, codes and sort
orders and any number of directories and forms,

| Theorem | States |
|---|---|
| `FormsAreCurrent` | `[]FormsCurrent` |
| `LevelsAreDepths` | `[]LevelsAgree` |
| `NothingIsStranded` | `[]NothingStranded` |
| `SiblingsStayDistinct` | `[]SiblingsDistinct` |
| `OrderIsKept` | `OrderKept` |
| `SharedTree` | the first four of `MirrorSpec`, the tree with a share |
| `SharedOrderIsKept` | `OrderKept` of `MirrorSpec` |
| `MirrorsAlwaysFollow` | `[]MirrorsFollow` of `MirrorSpec` |

The last three take `PathsAssumption` besides. The inductive invariant `TInv` has three parts: a good tree (`Shape`, `Leveled`,
`Housed`, `Named`, `Coded`), forms that show live rows as they are, and things held
in live directories. `SubtreeFacts` characterises the recursive query without
induction, as the least set closed under it, which is enough: what is reached beside
the first row is below something reached. `RankFacts` and `InsertedPlaces` say that
positions are distinct and number the siblings without gaps, so the second pass of a
renumbering meets no code (`RewrittenCodes`), and that they keep the order of all but
the row that moves (`RewrittenOrder`).

With a share the invariant is `MInv`: `TInv`, one mirror for a folder at most, and one
share, none before it is created. What it needs is what a whole reconciliation leaves,
for any number of folders. That is an induction over each of its two folds, with a
predicate that says what the state has come to so far:

- `Grows(t, root, folders, n)`: after the first n paths the rows of before are as they
  were, each new row is a mirror below the root or below the mirror of the folder above
  it (`Fresh`), and each of the n folders has its mirror or its name was taken in the tree
  of before (`Answered`). The name that stands in the way of a later folder is never one
  that the fold has added itself (`NameTaken`), since paths with the same last name and
  the same folder are the same path (`SamePath`). `AddStepKeeps` is the step, `AddedGrows`
  the induction;
- `Dropped(t, u, S, bumped)`: without the mirrors of S the others are as they were, but for
  codes and sort orders, and a code has changed only beside a mirror of S. Siblings numbered
  by sort order get numbers no two alike (`OrderRanks`), so they stay distinct
  (`PlacedAnew`). `DropStep` is the step, `DroppingDrops` the induction, over the size of S.

The folds are recursive functions over sets (`MapThenFoldSet`); that there is a function
that satisfies the recursion is itself proved by induction on its domain (`AddingExists`,
`DroppingExists`), and induction over the naturals for a set is `NatSetInduction`, from
the well-foundedness of their order. `FinalTree`, `FinalFollows` and `FinalOrder` then say
what the two together do to the invariant, the mirrors and the order.

For the bulk operations it proves, from `BulkAssumption` and for any finite set of
runs and every set of members, requests and crashes,

| Theorem | States |
|---|---|
| `ReportsAreTrue` | `[]ReportTrue` |
| `OneDriverEach` | a run that was never written on a stale check has one driver at most: the executor, a request past its check or the queue |

What a run reports is written long after it was done, and between the two every
request may write its status. The invariant `BulkIInv` adds to the types

- `AllNamed`: requests, queue and executor name runs that are there, of the operation
  their position is for; `Halted`: a process that is down has none of them;
- `OneDriver`: a run that is not in `stale` is with one request past its start, one place
  of the queue or the executor, and with none of them when its status is one of rest. The
  history variable takes a run out at the first write on a check that held no longer, so
  this is where the checks of the code suffice;
- `Deeds`: a row that says it succeeded names a member that was published, or a directory
  that is gone and clean, whatever became of the run;
- `Selected`, `Packing`, `Removing`: what is selected is still to do, the archive holds
  what the packing has passed, and only an archive whose time has passed is removed;
- `Concluding`: what was added up as a success still is one when it is written. These
  four make the last write of a run true.

`ManagedContentProofs.tla` proves, from `ContentAssumption` and for every set of
items, directories, names and publishers and any number of versions and publications,

| Theorem | States |
|---|---|
| `ServedIsSound` | `[]ServedSound` |
| `PublicationsAreDriven` | `[]PublicationsDriven` |
| `PurgedIsForgotten` | `[]PurgedForgotten` |
| `HeadIsKept` | `HeadKept` |
| `SettledStay` | `SettledStays`, which belongs to no run |

None of them is inductive alone: that the served text is in the index depends on what
a cancelled worker may still delete and on what a purge may still do. `IInv` adds to
the types

- `RowsFilled` and `ItemsFilled`: a row that counts has its version among those of an
  item that is there, and publication and index job end together unless a forced
  deletion has stopped them;
- `OneOpen`: at most one open publication of a version, so neither the worker nor a
  recovery touches the version that is served;
- `Checked`: what a request has found of its version between its two transactions;
- `Working` and `Halted`: whose row the worker holds; a row that was purged under it
  is not filled again, and an active one that is written has its text;
- `Purging`: a planned item stays in the bin without an active job, and once its text
  is gone only the worker that was at it can leave some; a restore, a publication or
  a promotion that breaks this is one of the races `overtaken` records;
- `Driven` and `Serving`: the properties themselves, row by row and item by item.

Five lemmas look at every action, one for each part of the state: `RowsMove`,
`ItemsMove`, `RequestsMove`, `IndexStep`, `PurgeStep` say how a step may move a row,
an item, a request, the index and the purge's run. Most parts of `IInv` are kept by
any step that moves the state in these ways, and need no case for each action. TLC
confirmed `IInv` on two items, two directories, two versions and two jobs (4.2 M
states) before it was proved.

`AnsweringProofs.tla` has two parts, what a question finds and how its answer is kept.
For the retrieval it proves, from `RetrievalAssumption` and for any finite set of
children, every set of documents, versions, videos and sub-queries, all limits and every
order of the scores,

| Theorem | States |
|---|---|
| `HitsAlwaysResolve` | `[]HitsResolve` |
| `NothingIsLost` | `[]NothingLost` |
| `SidesAreHeard` | `[]SidesHeard` |
| `FusionIsFair` | what `SidesHeard` says, for lists of hits of any length |
| `SelectionStands` | there is always a selection: the reserved heads fit under the cap |

A search holds nothing while the library changes under it, so what it has found must be
related to every step of the worker and of the trash since. `IInv` adds to the types

- `Unshown`: a version in publication is not the head; an item may have several, and one
  may be older than its head;
- `Writing`: the worker's version is pending and has all its parents, or it was
  cancelled and its item has no head;
- `Purging`: the item of a purge stays in the bin without a publication, unless a
  documented race (`overtaken`) has caught it, and once its points are gone none of what
  is on show is written again;
- `Serving`: what is a head has all its parents, or no points at all;
- `Searching`: the parents of what a search has hit, and then of what it has chosen, are
  of a version of its snapshot, and there as long as that version has stayed on show.

The steps of the library are sorted first (`LibraryKept`), so that a search has one case
for all of them. That a selection chooses only parents of hits (`SelectedIn`) needs what
`Dedup`, a fold over hits of any number, returns (`DedupIn`). The library's induction
theorems take an operator as a parameter, which no prover here can instantiate; the proof
goes through the least counterexample instead: `<` on the naturals is well founded, so a
set of naturals with 0 and every successor is all of them (`NatSetInduction`), and with
sets in the place of predicates the recursive function behind the fold exists
(`FoldingExists`) and has its values where they belong (`FoldingIn`).

`SidesAreHeard` needs to know what five folds compute, one inside the other. A fold whose
step is a function on a set of states goes through a run of these states, one for each
position (`RunExists`, `RunFacts`); each of the five gets its run (`WithoutRun`,
`ParentsInRun`, `HeadsRun`, `ReservedRun`, `DedupRun`) and from it, position by position,
what the argument uses:

- leaving elements out moves none of the others back (`WithoutFacts`), so an element of
  a sub-query's head is reserved, or an earlier sub-query has taken it and it is there
  already: every head is among what is reranked (`HeadsFacts`, `RerankedFacts`), and
  every sub-query's first parents are among the reserved (`ReservedFacts`);
- the parents of a head are the first parents of the whole list (`ParentsPrefix`), so
  the two reservations speak of the same parents;
- the reserved parents are at most `Subs * Quota`, and by the assumption they all fit
  into the selection (`PickedFacts`); the last cut then has no more parents to choose
  from than places, and loses none whatever is a video (`DedupAll`);
- a plain question takes a video as long as the quota is not full (`DedupVideos`).

How many parents a side keeps is then the size of a prefix without repetitions
(`PrefixCard`). The three limits enter by two inequalities of `RetrievalAssumption`, which
the defaults of `src/config.py` meet (3 * 2 <= 8, 3 <= 96); nothing is assumed about the
lists, and `Depth` only bounds what TLC enumerates.

For the conversations it proves, from `ConversationAssumption` and for every set of
requests and any number of turns and versions,

| Theorem | States |
|---|---|
| `ContextAlwaysStands` | `[]ContextStands` |
| `OneAtATime` | at most one request is between its check under the lock and its release |

The invariant is `Held`: what the holder of the lock was hydrated with is what it
would be hydrated with now, as long as no stream was persisted outside the lock.
`PersistMoves` says what one answer adds, whichever of the three kinds of request it
is of (`TurnExtended`); the turn it adds to is the last one, so `Before`, and with it
the context of every answer already kept, is the same sequence afterwards
(`PrefixKept`, `StandsExtended`).

`ReclassificationProofs.tla` proves, from `ReclassificationAssumption` and for every
set of documents and directories and any number of jobs, renames and crashes,

| Theorem | States |
|---|---|
| `StoresAlwaysAgree` | `[]StoresAgree` |
| `AllOrNothing` | `EndsWhole` |
| `NamesStayUnique` | `NamesUnique`, which belongs to no run |
| `OneAtATime` | at most one job has begun and not ended |

What a compensation leaves depends on how far the job had come, and that on what
crashes and forced deletions did to its row. `IInv` adds to the types

- `RowsSound` and `Erased`: a waiting job has met no error, a job of a purged document
  has lost its row, and a purged document has no entries, so no step of a job finds
  its own there;
- `OneHeld`: one job at a time is held, by its status or by the worker, so what one
  leaves is what the next one finds; a job the worker holds with a failed row is one
  that was forced, and known to be split should the process crash now;
- `Moving`: for the job that is held, if no other job split its document, `Whole`
  (when both stores show one of its directories, the item is in one of them, so
  the compensation brings it home), `Ahead` (the prepared or the exported view shows
  the target) and `BackAt` (what each step of the compensation has put back).

A step is one of the held job (`OwnStep`: only its row and its document change) or
touches no served document's stores (`Quiet`), or is a publication, which finds no job
held. `FinishWhole` and `CompleteWhole` say what the two ends of a job leave; both
theorems follow from them. TLC confirmed the invariant with two jobs on one document
and three directories (3.4 M states), and on two documents (9.9 M), before it was
proved.

Only model-checked, and why:

- the eight liveness properties (`TakenOnEnds`, `PublicationSettles`, `EveryJobEnds`
  twice, `QueuedEnds`, `EveryCallAnswered`, `EveryChatEnds`, and the half of `EndsOnce`
  that says jobs end): fairness and ENABLED are beyond the prover. Every safety property
  of the runs has its theorem.

No model uses a recursive operator.

## 5. Where the code disagrees with its documentation, and hazards it has

Found while modelling; each was followed through the code, and most are
counterexamples TLC gives when the exemption named is removed. No run is devoted to
them.

ASR service:

- input that cannot be decoded raises outside every handler, the thread ends, the
  job stays running and every restart repeats it (`scheduler.py:293`);
- a crash between the result of a failure and its state: the resumed job may come
  to another result, which is a conflict and ends the thread (`scheduler.py:320`);
- a create cut short between its files makes every boot raise (`storage.py:386`);
- a job whose engine profile has gone is failed from `queued`, which the
  transition table forbids; the exception ends the thread (`scheduler.py:275`);
- an upload of a single part whose `job.json` write is lost leaves the job
  `created` for ever (`storage.py:257`);
- a job started again while the thread is about to pause it keeps its old place in the
  queue and the thread then pauses it: `Pop` passes the place over (`scheduler.py:141`,
  `:237`), and the job is paused although its start was accepted;
- the BGE gate is asked once per job (`scheduler.py:239`), while
  `docs/plans/multi-engine-transcription-phase3.md:692` has it asked before every
  window.

Remote provider:

- the service refuses to cancel a job that is created or uploading; the answer is
  ignored and the upload stays in the spool;
- an error of the transport ends the call while the remote job runs on; the retry
  is a new application job with a new client request id, hence a second remote job;
- a paused job that cannot be started again because the queue is full ends the call
  and stays paused.

Transcription jobs:

- the start route sets the summary after the job is committed and without a look
  at the job (`routes_transcription.py:542`): after a cancel in between, the video is
  shown as transcribing with no job;
- an artifact that cannot be written fails the job and leaves the summary
  (`workflow.py:192`);
- a start whose summary update fails never queues its job, and neither does a repeat
  with the same key: the job waits for the next boot;
- exceptions other than three kinds leave the job running until the next boot
  (`transcription_service.py:461`);
- `cancel_unified_publication_job` (`routes_content.py:4292`) says it mirrors the
  dedicated cancel and does not fail the pending replacement.

Transcript publication:

- a version published while a metadata revision is pending makes the revision, once
  indexed, impossible to promote, and every boot raises
  (`transcription_store.py:1160`); changed content of a shared file has a catalogue
  item of its own and has the same effect (`:1217`);
- a promotion that is refused is not tried again before the next boot, even if its
  obstacle goes;
- the trash looks at the latest version only, while an older one may be in
  publication (`content_store.py:2219`);
- a version indexed before a revision is promoted after it with the old title in its
  chunks, when the profile of automatic versions was withdrawn in between;
- a revived failed replacement whose source has moved on can never be promoted
  (`transcription_store.py:450`); nor can one discovered in a share while its source
  has a version in publication;
- with a failed replacement in between, two refused versions of one candidate can be
  promoted at the same boot, the older last, with the title its revision has replaced
  (a trace of 30 steps with four versions);
- versions whose publication failed pass the rules for deletion and are kept by a
  foreign key (`routes_transcription.py:1428`, `db_migrations.py:106`);
- a rejected revision that is reconsidered and published is activated.

Documents (the variable `overtaken`):

- publishing by version id looks neither at `archived_at` nor at the latest version
  (`content_store.py:2883`): a draft in the bin is published and the restore serves
  it at once, against `docs/features/managed-content-library.md:201`; an older
  version may overtake a newer head;
- an SQLite error in the first block of `run_content_publication`
  (`content_publication.py:113-150`), or in `_fail`, leaves the job active with no driver until
  the next boot; the model's transactions there do not fail, so `PublicationsDriven`
  does not cover it;
- promotion looks at the job only (`content_publication.py:242`);
- forced deletion fails the jobs and leaves the publication open
  (`content_store.py:630`); if the purge fails and the item is restored, the unique
  index refuses every later publication;
- an item restored between the plan and the end of a purge is purged anyway, or is
  served without its index (`content_trash_cleanup.py:516-643`).

Directories:

- a move that finds no row off its place leaves the temporary code in the table,
  because the renumbering returns before it writes (`content_store.py:285`), while
  `frontend/src/pages/admin/AdminCategoriesPage.tsx:623` says that the moved directory gets
  a consecutive number at the end of its target;
- `delete_category` (`content_store.py:759`) does not look whether a directory is one
  of the system's first-level ones, against
  `docs/features/managed-content-library.md:187`; one that was moved below another
  is not protected from the forced deletion either;
- listing the directories soft-deletes the mirrors of folders without recorded
  videos (`routes_content.py:857`), while `external_media.py:606` says that the scan
  remains the only authority for deleting a folder;
- a new mirror's code is the number of siblings plus one (`external_media.py:553`); if an
  administrator has typed that number, this scan and every later one fails;
- a nested folder that was found before the folder above it had a mirror hangs from
  the root for good (`external_media.py:543`);
- a soft-deleted mirror still counts as active, and what it holds is stranded
  (`NothingStranded` exempts it);
- deleting the parent of a share's root takes the root with it if it is empty;
- `update_category` switches the share on and off without moving its version.

Reclassification:

- a directory renamed after publication leaves the old name in the points, and the
  next reclassification fails its verification, and may report that its rollback
  failed;
- forced deletion marks the job failed, and the worker's updates overwrite it; with
  a crash in between the points stay at the target and no recovery takes the job up
  (`Split`, `forced`);
- an SQLite error of `_update_job` outside the handler (`content_reclassification.py:461`,
  `521`, `554`) leaves the job active until the next boot; the model's updates there do
  not fail, so `EveryJobEnds` does not cover it;
- the rollback puts an item back without looking for a conflict of names, and also
  an item the user has meanwhile restored elsewhere
  (`content_reclassification.py:427`);
- once forced deletion has marked a committed job failed, its document counts as free
  and can be moved again, while the worker may still roll the first move back into
  the deleted directory: the second job then fails with its document at neither of
  its directories (with two jobs, TLC finds this as soon as `EndsWhole` is asked of
  jobs that had not begun).

Bulk operations (the variable `stale`), all in `content_bulk_operations.py`:

- no write of a status is a compare-and-set: an executor that begins or reports
  overwrites a cancel (567/588, 635), a start overwrites a cancel (683/693), and so does the
  write that ends a run (469/503, 652/664, 834/839). `stale` exempts the first two. The
  last needs no exemption: what it reports is so, though the run was cancelled;
- the write that ends a run after an error may fail as well (664, 839) and leave the run
  as it is until the next boot; the model's write does not fail;
- two starts can leave the run `queued` until the next boot (529/674);
- two executions of one synchronous run mark published documents as failed, and a
  crash leaves such a run `running` for good;
- a crash while a deleted directory is being cleaned makes the resumed run report a
  failure although the directory is gone;
- a run cancelled when it was ready leaves its archive on disk.

Conversations (the variable `late`):

- a response that is cancelled while a thread draws from the stream releases the
  lock at once, and the turn is persisted when the thread returns: the next request
  has read a history without it, the turn is counted once for two, and an answer may
  be filed under a question edited meanwhile; `conversation_runtime.py:13` says that
  turns are serialised by the lock;
- an edit or a regeneration that fails or is abandoned persists its partial text and
  makes it the active version (`conversation_runtime.py:712-729`), while
  `docs/features/chat-runtime.md:56` says that only a stream that ended successfully
  does;
- after 15 seconds without a chunk the next one is lost to the stream of events
  (`routes_chat.py:400-407`); the final event carries the whole text;
- whether a turn is the first is read before the lock is waited for
  (`routes_chat.py:249`), so the title may be the second of two first questions.

Retrieval:

- up to two sources of the last turn are carried over with their text
  (`session.py:321`, stored at `conversation_runtime.py:262`) and looked up in no
  snapshot again: a document archived or purged since then still feeds an answer,
  while `docs/features/managed-content-library.md:175` says that it no longer
  enters the results;
- an archived video keeps its head and its index
  (`docs/features/managed-content-library.md:179`), and the transcript snapshot does
  not look at `archived_at`: until it is purged, questions find the text of a video
  the library hides. The model has it so (`OnShow`).

Image OCR:

- an item archived while its image is read makes the job stale, and nothing queues
  it again after the restore;
- leases are put back without a limit on attempts and the oldest job goes first: one
  whose answer is always late, or kills the process, holds up all others;
- a revision without a new file is not queued, so the renamed version has no text.

What the exemptions leave out. Of the races above that have a history variable, the
properties show that everything else is sound, and nothing about the race itself:
`ReportTrue` and `QueuedEnds` would not catch a start that overwrites a cancel or is
swallowed by another one (`stale`), nor `ContextStands` a turn that is persisted late (`late`),
nor the properties of documents the races of `overtaken`. What they catch there is the
crash between the deed and its report, the queue lost with the process, and the
interleavings of requests that keep the lock.

## 6. Where to go on

Every component has its module and its run, and every safety property of the runs has
its theorem. What would say most next:

1. a model of the media upload and of the external scan's videos, whose table the tree
   keeps only as `recorded`;
2. the sources carried over between turns, which need a conversation and a retrieval in
   one module.

## 7. Not modelled, and why

Data transformations (parsing, chunking, normalisation, scoring, prompts, rate
limiting over real time), stateless servers (GPU, office conversion, OCR), the
schema's migrations, authentication, the frontend and the scripts. They have no
interleaving state machine of their own, or are outside what state exploration
decides. `PROJECT.json` gives the reason for each.
