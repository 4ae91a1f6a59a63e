------------------------ MODULE TranscriptPublication ------------------------
(***************************************************************************)
(* Publication of video transcripts: versions, review, metadata revisions, *)
(* replacement videos, the index worker and recovery at boot               *)
(* (api/transcription_store.py, api/transcription_publication.py,          *)
(* api/routes_transcription.py, api/indexing.py, api/content_store.py,     *)
(* api/external_media.py).                                                 *)
(*                                                                         *)
(* Each action is one SQLite transaction (BEGIN IMMEDIATE serialises them) *)
(* or one step of the index worker between two of them.  A version is the  *)
(* number of its creation, so a larger number is a later version; job[v]   *)
(* is the latest index job of v, the older ones being failed; the stages   *)
(* pending, parsing, chunking and embedding of a job are one, "active".    *)
(* A title is named after the metadata revision that set it, Original      *)
(* before any.                                                             *)
(***************************************************************************)
EXTENDS Integers, FiniteSets

CONSTANTS
  Media,      \* videos
  NoMedia,
  Shared,     \* the videos discovered in a read-only shared directory
  NVersions,  \* bound: versions ever created
  Paths       \* the administrator's and environment's paths in this instance

PathKinds == {"edit", "metadata", "replace", "share", "retry", "archive", "profile"}

ASSUME ConstantsAssumption ==
  /\ NoMedia \notin Media
  /\ Shared \subseteq Media
  /\ NVersions \in Nat
  /\ Paths \subseteq PathKinds

Version  == 1 .. NVersions
None     == 0
Original == 0

VARIABLES
  (* transcript_versions, their metadata revision and latest index job *)
  status, media, base, supersedes, revision, job,
  indexed,      \* the title the version's chunks carry in Qdrant, -1 without chunks
  (* media_assets, media_transcript_heads, content_items *)
  title, archived, head,
  shell,        \* the catalogue item whose media_id is this video
  (* media_replacements, by candidate *)
  replacement,
  (* the process: the index worker and _publication_queue_ids *)
  up, queue, pc, cur,
  (* configuration: the automatic versions' profile resolves for publication *)
  profile

row     == <<status, media, base, supersedes, revision, job>>
asset   == <<title, archived, head, shell>>
worker  == <<pc, cur>>
process == <<up, queue, worker>>
vars    == <<row, indexed, asset, replacement, process, profile>>

VersionStatus   == {"absent", "deleted", "pending", "rejected", "publishing",
                    "published", "publication_failed"}
RevisionStatus  == {"none", "pending", "rejected", "failed", "activated"}
JobStatus       == {"none", "active", "done", "failed"}
ShellStatus     == {"none", "live", "archived"}
NoReplacement   == [status |-> "none", source |-> NoMedia, head |-> None]
ReplacementRow  ==
  {NoReplacement} \cup
  [status: {"pending", "failed", "activated"}, source: Media, head: Version]

(* Operators with a suffix such as Again, OfMedia or Early are slips a change
   to the code could make; the project's mutants put them in the place of the
   definition they precede. *)
PublishableAgain == {"pending", "rejected", "publication_failed", "published"}
Publishable == {"pending", "rejected", "publication_failed"}

Row(v)       == status[v] \notin {"absent", "deleted"}
VersionsOf(m) == {v \in Version : Row(v) /\ media[v] = m}
(* The version with every smaller number used up. *)
Fresh(v)     == \A w \in Version : (status[w] = "absent") <=> (w >= v)
Publishing   == {v \in Version : status[v] = "publishing"}
Replacing(s) == {c \in Media : replacement[c].status = "pending"
                                 /\ replacement[c].source = s}
Revising(m)  == {v \in VersionsOf(m) : revision[v] = "pending"}

Init ==
  /\ status = [v \in Version |-> "absent"]
  /\ media = [v \in Version |-> NoMedia]
  /\ base = [v \in Version |-> None]
  /\ supersedes = [v \in Version |-> None]
  /\ revision = [v \in Version |-> "none"]
  /\ job = [v \in Version |-> "none"]
  /\ indexed = [v \in Version |-> -1]
  /\ title = [m \in Media |-> Original]
  /\ archived = {}
  /\ head = [m \in Media |-> None]
  /\ shell \in [Media -> {"none", "live"}]
  /\ \A m \in Shared : shell[m] = "live"
  /\ replacement = [m \in Media |-> NoReplacement]
  /\ up = TRUE /\ queue = {}
  /\ pc = "idle" /\ cur = None
  /\ profile = TRUE
-----------------------------------------------------------------------------
(* Versions and their review. *)

Insert(v, m, b, r) ==
  /\ Fresh(v)
  /\ status' = [status EXCEPT ![v] = "pending"]
  /\ media' = [media EXCEPT ![v] = m]
  /\ base' = [base EXCEPT ![v] = b]
  /\ revision' = [revision EXCEPT ![v] = r]
  /\ UNCHANGED <<supersedes, job>>

(* No transcription of a video in the trash runs; one of a video that was
   replaced meanwhile may. *)
Transcribing(m) == shell[m] # "archived"

(* A video's failed replacement is pending again; the transaction aborts when
   its source is being replaced by another one. *)
Revive(m) ==
  /\ replacement[m].status = "failed" /\ Replacing(replacement[m].source) = {}
  /\ replacement' = [replacement EXCEPT ![m].status = "pending"]

(* A successful transcription revives the replacement if its job has not. *)
Transcribed(v, m) ==
  /\ Transcribing(m)
  /\ Insert(v, m, None, "none")
  /\ \/ Revive(m)
     \/ replacement[m].status # "failed" /\ UNCHANGED replacement
  /\ UNCHANGED <<indexed, asset, process, profile>>

(* A new transcription job of the candidate is created. *)
Retry(m) ==
  /\ Transcribing(m) /\ Revive(m)
  /\ UNCHANGED <<row, indexed, asset, process, profile>>

(* A transcription of the candidate fails, is cancelled or could not start. *)
JobFails(m) ==
  /\ "retry" \in Paths
  /\ Transcribing(m) /\ replacement[m].status = "pending"
  /\ replacement' = [replacement EXCEPT ![m].status = "failed"]
  /\ UNCHANGED <<row, indexed, asset, process, profile>>

Edit(v, b) ==
  /\ "edit" \in Paths
  /\ Row(b)
  /\ Replacing(media[b]) = {} /\ Revising(media[b]) = {}
  /\ Insert(v, media[b], b, "none")
  /\ UNCHANGED <<indexed, asset, replacement, process, profile>>

ReviseMetadata(v, m) ==
  /\ "metadata" \in Paths
  /\ m \notin Shared /\ head[m] # None
  /\ Replacing(m) = {} /\ Revising(m) = {}
  /\ Insert(v, m, head[m], "pending")
  /\ UNCHANGED <<indexed, asset, replacement, process, profile>>

(* Approving a rejected version and returning it to review. *)
Reconsider(v) ==
  /\ status[v] = "rejected"
  /\ status' = [status EXCEPT ![v] = "pending"]
  /\ UNCHANGED <<media, base, supersedes, revision, job>>
  /\ UNCHANGED <<indexed, asset, replacement, process, profile>>

Reject(v) ==
  /\ status[v] \in {"pending", "rejected"}
  /\ status' = [status EXCEPT ![v] = "rejected"]
  /\ revision' = [revision EXCEPT ![v] = IF @ = "pending" THEN "rejected" ELSE @]
  /\ UNCHANGED <<media, base, supersedes, job>>
  /\ UNCHANGED <<indexed, asset, replacement, process, profile>>

(* The rules the delete endpoints check before they delete a version. *)
DeleteAllowed(v) ==
  /\ status[v] \in Publishable
  /\ head[media[v]] # v
  /\ \A w \in Version : Row(w) => base[w] # v

(* Index jobs reference their version ON DELETE RESTRICT. *)
Delete(v) ==
  /\ DeleteAllowed(v) /\ job[v] = "none"
  /\ status' = [status EXCEPT ![v] = "deleted"]
  /\ revision' = [revision EXCEPT ![v] = "none"]
  /\ supersedes' = [w \in Version |-> IF supersedes[w] = v THEN None ELSE supersedes[w]]
  /\ UNCHANGED <<media, base, job>>
  /\ UNCHANGED <<indexed, asset, replacement, process, profile>>
-----------------------------------------------------------------------------
(* Replacing a published video by another one. *)

OnShelf(s) == head[s] # None /\ shell[s] = "live"

Unused(c) == VersionsOf(c) = {} /\ replacement[c] = NoReplacement /\ c \notin archived

Propose(s, c) ==
  replacement' = [replacement EXCEPT ![c] =
                    [status |-> "pending", source |-> s, head |-> head[s]]]

(* The candidate is a new upload, which has no place in the library yet. *)
Register(s, c) ==
  /\ "replace" \in Paths
  /\ OnShelf(s) /\ s \notin archived
  /\ s # c /\ Unused(c) /\ shell[c] = "none"
  /\ VersionsOf(s) \cap Publishing = {}
  /\ Revising(s) = {} /\ Replacing(s) = {}
  /\ Propose(s, c)
  /\ UNCHANGED <<row, indexed, asset, process, profile>>

(* The file behind a shared video changed: its new content is a video of its
   own, with a place in the library of its own. *)
Discover(s, c) ==
  /\ "share" \in Paths
  /\ s \in Shared /\ c \in Shared
  /\ OnShelf(s) /\ s # c /\ Unused(c)
  /\ Replacing(s) = {}
  /\ Propose(s, c)
  /\ UNCHANGED <<row, indexed, asset, process, profile>>
-----------------------------------------------------------------------------
(* Publishing a version. *)

(* publish and begin_publication; the route enqueues the new job.  Reviving a
   failed revision aborts when the video has another pending one. *)
Begin(v) ==
  LET m == media[v] IN
  /\ status[v] \in Publishable
  /\ base[v] = None => profile
  /\ Replacing(m) = {} /\ m \notin archived
  /\ revision[v] = "failed" => Revising(m) = {}
  /\ status' = [status EXCEPT ![v] = "publishing"]
  /\ revision' = [revision EXCEPT ![v] = IF @ = "failed" THEN "pending" ELSE @]
  /\ job' = [job EXCEPT ![v] = "active"]
  /\ queue' = queue \cup {v}
  /\ UNCHANGED <<media, base, supersedes, indexed, asset, replacement, up, worker, profile>>

Working(at) == up /\ pc = at

(* The worker's task ends and _publication_queue_ids forgets the job. *)
Finish == pc' = "idle" /\ cur' = None /\ queue' = queue \ {cur}

(* A job that is done or failed would be dropped, but none is ever queued. *)
Take(v) ==
  /\ Working("idle")
  /\ v \in queue /\ job[v] = "active"
  /\ pc' = "index" /\ cur' = v
  /\ UNCHANGED <<row, indexed, asset, replacement, up, queue, profile>>

(* publication_title: the title a revision proposes, else the video's. *)
IndexTitleOfMedia(v) == title[media[v]]
IndexTitle(v) == IF revision[v] # "none" THEN v ELSE title[media[v]]

(* The chunks are written; until the receipt is recorded nobody knows. *)
Index ==
  /\ Working("index")
  /\ indexed' = [indexed EXCEPT ![cur] = IndexTitle(cur)]
  /\ pc' = "receipt"
  /\ UNCHANGED <<row, asset, replacement, up, queue, cur, profile>>

Receipt ==
  /\ Working("receipt")
  /\ job' = [job EXCEPT ![cur] = "done"]
  /\ pc' = "promote"
  /\ UNCHANGED <<status, media, base, supersedes, revision>>
  /\ UNCHANGED <<indexed, asset, replacement, up, queue, cur, profile>>

(* A failed receipt, or any exception before the job is done. *)
IndexFails ==
  /\ up /\ pc \in {"index", "receipt"}
  /\ job' = [job EXCEPT ![cur] = "failed"]
  /\ status' = [status EXCEPT ![cur] = "publication_failed"]
  /\ revision' = [revision EXCEPT ![cur] = IF @ = "none" THEN @ ELSE "failed"]
  /\ Finish
  /\ UNCHANGED <<media, base, supersedes, indexed, asset, replacement, up, profile>>
-----------------------------------------------------------------------------
(* Making the indexed version the head of its video. *)

PendingReplacement(v) == replacement[media[v]].status = "pending"
Source(v) == replacement[media[v]].source

(* The checks of promote, and the unique media_id of the catalogue items. *)
ReplacementValid(v) ==
  LET r == replacement[media[v]] IN
  /\ head[r.source] = r.head
  /\ shell[r.source] = "live"
  /\ shell[media[v]] = "none"

Promotable(v) ==
  /\ status[v] = "publishing" /\ job[v] = "done"
  /\ base[v] = None => profile
  /\ revision[v] # "none" => head[media[v]] = base[v]
  /\ PendingReplacement(v) => ReplacementValid(v)

(* The head this version supersedes. *)
OldHeadOfMedia(v) == head[media[v]]
OldHead(v) ==
  IF PendingReplacement(v) THEN replacement[media[v]].head ELSE head[media[v]]

Promotes(v) ==
  LET m == media[v] IN
  /\ status' = [status EXCEPT ![v] = "published"]
  /\ supersedes' = [supersedes EXCEPT ![v] = OldHead(v)]
  /\ IF PendingReplacement(v)
     THEN /\ head' = [head EXCEPT ![Source(v)] = None, ![m] = v]
          /\ shell' = [shell EXCEPT ![Source(v)] = "none", ![m] = "live"]
          /\ archived' = archived \cup {Source(v)}
          /\ replacement' = [replacement EXCEPT ![m].status = "activated"]
     ELSE /\ head' = [head EXCEPT ![m] = v]
          /\ shell' = [shell EXCEPT ![m] = IF @ = "none" THEN "live" ELSE @]
          /\ UNCHANGED <<archived, replacement>>
  /\ title' = [title EXCEPT ![m] = IF revision[v] = "none" THEN @ ELSE v]
  /\ revision' = [revision EXCEPT ![v] = IF @ = "none" THEN @ ELSE "activated"]
  /\ UNCHANGED <<media, base, job, indexed, up, profile>>

Promote ==
  /\ Working("promote") /\ Promotable(cur)
  /\ Promotes(cur)
  /\ Finish

(* promote raises; fail_publication_job leaves a done job as it is. *)
PromoteRefused ==
  /\ Working("promote") /\ ~Promotable(cur)
  /\ Finish
  /\ UNCHANGED <<row, indexed, asset, replacement, up, profile>>
-----------------------------------------------------------------------------
(* The process and its environment. *)

Crash ==
  /\ up
  /\ up' = FALSE /\ queue' = {} /\ pc' = "idle" /\ cur' = None
  /\ UNCHANGED <<row, indexed, asset, replacement, profile>>

(* recover_publications_on_boot promotes what is done; the first promotion
   that raises ends the boot, so the process comes up only when all succeed. *)
BootPromote(v) ==
  /\ ~up
  /\ Promotable(v) /\ Promotes(v)
  /\ UNCHANGED <<queue, worker>>

ResumedNothing == {}
Resumed == {v \in Publishing : job[v] = "active"}

Boot ==
  /\ ~up
  /\ \A v \in Publishing : job[v] # "done"
  /\ up' = TRUE /\ queue' = Resumed
  /\ UNCHANGED <<row, indexed, asset, replacement, worker, profile>>

Reconfigure ==
  /\ "profile" \in Paths
  /\ ~up
  /\ profile' = ~profile
  /\ UNCHANGED <<row, indexed, asset, replacement, process>>

ArchivableSource(m) == shell[m] = "live" /\ Revising(m) = {}

(* Only the status of the video's latest version is looked at. *)
Archivable(m) ==
  /\ shell[m] = "live"
  /\ \A v \in VersionsOf(m) :
       (\A w \in VersionsOf(m) : w <= v) => status[v] # "publishing"
  /\ Revising(m) = {}
  /\ Replacing(m) = {} /\ replacement[m].status # "pending"

Archive(m) ==
  /\ "archive" \in Paths
  /\ Archivable(m)
  /\ shell' = [shell EXCEPT ![m] = "archived"]
  /\ archived' = archived \cup {m}
  /\ UNCHANGED <<row, indexed, title, head, replacement, process, profile>>

Restore(m) ==
  /\ "archive" \in Paths
  /\ shell[m] = "archived"
  /\ shell' = [shell EXCEPT ![m] = "live"]
  /\ archived' = archived \ {m}
  /\ UNCHANGED <<row, indexed, title, head, replacement, process, profile>>
-----------------------------------------------------------------------------
(* Requests are served once the boot is over. *)
Request ==
  /\ up
  /\ \/ \E v \in Version :
          \/ \E m \in Media : Transcribed(v, m) \/ ReviseMetadata(v, m)
          \/ \E b \in Version : Edit(v, b)
          \/ Reconsider(v) \/ Reject(v) \/ Delete(v) \/ Begin(v)
     \/ \E s, c \in Media : Register(s, c) \/ Discover(s, c)
     \/ \E m \in Media : Retry(m) \/ JobFails(m) \/ Archive(m) \/ Restore(m)

Worker ==
  \/ \E v \in Version : Take(v)
  \/ Index \/ Receipt \/ IndexFails \/ Promote \/ PromoteRefused

Recovery == Boot \/ \E v \in Version : BootPromote(v)

Next == Request \/ Worker \/ Recovery \/ Crash \/ Reconfigure

(* The worker task keeps running and serves its queue in order; a supervisor
   restarts the process.  The queue is a set here: first come, first served
   is the strong fairness of every single job. *)
Fairness ==
  /\ WF_vars(Worker) /\ WF_vars(Recovery)
  /\ \A v \in Version : SF_vars(Take(v))

Spec == Init /\ [][Next]_vars
FairSpec == Spec /\ Fairness
-----------------------------------------------------------------------------
TypeOK ==
  /\ status \in [Version -> VersionStatus]
  /\ media \in [Version -> Media \cup {NoMedia}]
  /\ base \in [Version -> Version \cup {None}]
  /\ supersedes \in [Version -> Version \cup {None}]
  /\ revision \in [Version -> RevisionStatus]
  /\ job \in [Version -> JobStatus]
  /\ indexed \in [Version -> Version \cup {-1, Original}]
  /\ title \in [Media -> Version \cup {Original}]
  /\ archived \subseteq Media
  /\ head \in [Media -> Version \cup {None}]
  /\ shell \in [Media -> ShellStatus]
  /\ replacement \in [Media -> ReplacementRow]
  /\ up \in BOOLEAN /\ queue \subseteq Version /\ profile \in BOOLEAN
  /\ \/ pc = "idle" /\ cur = None
     \/ pc \in {"index", "receipt", "promote"} /\ cur \in Version /\ up

(* What a video shows is a published version of it whose chunks are in the
   index under the title the video now has, whatever was published, revised,
   replaced or interrupted on the way.  The title needs every profile to resolve
   and no failed replacement to be revived. *)
HeadSound ==
  \A m \in Media : head[m] # None =>
    /\ status[head[m]] = "published" /\ media[head[m]] = m
    /\ job[head[m]] = "done" /\ indexed[head[m]] = title[m]

(* The status of a version, its latest index job and the worker's queue never
   disagree, across crashes: a version is publishing exactly while its job is
   unsettled or awaits promotion, and a running process has every unsettled
   job queued and queues no other. *)
PublicationTracked ==
  /\ \A v \in Version :
       /\ (job[v] = "active") => status[v] = "publishing"
       /\ (status[v] = "publishing") => job[v] \in {"active", "done"}
       /\ (status[v] = "published") => job[v] = "done"
       /\ (status[v] = "publication_failed") <=> job[v] = "failed"
       /\ up /\ job[v] = "active" => v \in queue
  /\ \A v \in queue : job[v] = "active" \/ (v = cur /\ pc = "promote")

(* The published versions form chains: each is what a video shows now, or was
   superseded by exactly one published version, never both. *)
Successors(v) == {w \in Version : status[w] = "published" /\ supersedes[w] = v}

LinearHistory ==
  \A v \in Version : status[v] = "published" =>
    IF \E m \in Media : head[m] = v
    THEN Successors(v) = {}
    ELSE Cardinality(Successors(v)) = 1

(* While a replacement is pending its source stays as it was when the
   replacement was registered: same transcript on show, same place in the
   library.  Holds as long as no failed replacement is revived and none is
   discovered in a share. *)
ReplacementFrozen ==
  \A c \in Media : replacement[c].status = "pending" =>
    LET r == replacement[c] IN
    head[r.source] = r.head /\ shell[r.source] = "live" /\ r.source \notin archived

(* Publication keeps the promise of TranscriptShelf. *)
Shelf == INSTANCE TranscriptShelf WITH
  shown <- head, past <- {v \in Version : status[v] = "published"}
KeepsShelf == Shelf!Spec

(* If the process stays up from some time on, every publication that is begun
   comes to an end: it is published, it has failed, or, indexed, it is refused
   its promotion, which then waits for the next boot. *)
PublicationSettles ==
  (<>[]up) => \A v \in Version :
    job[v] = "active" ~> v \notin Publishing \/ (job[v] = "done" /\ ~Promotable(v))
=============================================================================
