---------------------- MODULE TranscriptPublicationProofs ----------------------
(***************************************************************************)
(* Theorems about TranscriptPublication for all sets of videos, any number *)
(* of versions and every choice of paths, and its refinement of            *)
(* TranscriptShelf.  What the invariants rest on is that a version, once   *)
(* published, stays published: the steps are the promotions and the rest,  *)
(* which touches no published version and no head (Quiet).                 *)
(***************************************************************************)
EXTENDS TranscriptPublication, FiniteSetTheorems, TLAPS

(* A version that was ever made is one of a video. *)
Filled == \A v \in Version : status[v] # "absent" => media[v] \in Media

(* What the worker holds, at each of its steps. *)
AtWork ==
  /\ pc \in {"index", "receipt"} => job[cur] = "active"
  /\ pc = "promote" => job[cur] = "done" /\ status[cur] = "publishing"

(* HeadSound but for the title. *)
HeadPublished ==
  \A m \in Media : head[m] # None =>
    status[head[m]] = "published" /\ media[head[m]] = m /\ job[head[m]] = "done"

(* A video that shows a transcript has a place in the library or the trash. *)
Placed == \A m \in Media : head[m] # None => shell[m] # "none"

(* A published version superseded a published one, if any. *)
Grounded ==
  \A v \in Version : status[v] = "published" /\ supersedes[v] # None =>
    status[supersedes[v]] = "published"

Typed == TypeOK /\ Filled
IInv  == Typed /\ AtWork /\ PublicationTracked /\ HeadPublished /\ Placed /\ Grounded
-----------------------------------------------------------------------------
(* The rows, with the types of TypeOK that speak of them. *)
RowsTyped ==
  /\ status \in [Version -> VersionStatus]
  /\ media \in [Version -> Media \cup {NoMedia}]
  /\ base \in [Version -> Version \cup {None}]
  /\ supersedes \in [Version -> Version \cup {None}]
  /\ revision \in [Version -> RevisionStatus]
  /\ job \in [Version -> JobStatus]
  /\ Filled

AssetsTyped ==
  /\ title \in [Media -> Version \cup {Original}]
  /\ archived \subseteq Media
  /\ head \in [Media -> Version \cup {None}]
  /\ shell \in [Media -> ShellStatus]

WorkerTyped ==
  /\ up \in BOOLEAN /\ queue \subseteq Version
  /\ \/ pc = "idle" /\ cur = None
     \/ pc \in {"index", "receipt", "promote"} /\ cur \in Version /\ up

RestTyped ==
  /\ indexed \in [Version -> Version \cup {-1, Original}]
  /\ replacement \in [Media -> ReplacementRow]
  /\ profile \in BOOLEAN

LEMMA TypedParts == Typed <=> RowsTyped /\ AssetsTyped /\ WorkerTyped /\ RestTyped
  BY DEF Typed, TypeOK, RowsTyped, AssetsTyped, WorkerTyped, RestTyped

LEMMA PartsKept ==
  /\ RowsTyped /\ UNCHANGED row => RowsTyped'
  /\ AssetsTyped /\ UNCHANGED asset => AssetsTyped'
  /\ WorkerTyped /\ UNCHANGED process => WorkerTyped'
  /\ RestTyped /\ UNCHANGED <<indexed, replacement, profile>> => RestTyped'
  BY DEF row, asset, process, worker, RowsTyped, Filled, AssetsTyped, WorkerTyped, RestTyped

LEMMA InsertTyped ==
  ASSUME RowsTyped, NEW v \in Version, NEW m \in Media, NEW b \in Version \cup {None},
         NEW r \in {"none", "pending"}, Insert(v, m, b, r)
  PROVE  RowsTyped'
  BY DEF Insert, RowsTyped, Filled, VersionStatus, RevisionStatus

(* A row of a replacement that is not empty names a video and its head. *)
LEMMA ReplacementFacts ==
  ASSUME RestTyped, NEW c \in Media, replacement[c].status # "none"
  PROVE  /\ replacement[c].source \in Media /\ replacement[c].head \in Version
         /\ replacement[c].status \in {"pending", "failed", "activated"}
         /\ \A s \in {"pending", "failed", "activated"} :
              [replacement[c] EXCEPT !.status = s] \in ReplacementRow
  BY DEF RestTyped, ReplacementRow, NoReplacement

LEMMA PromotesTyped ==
  ASSUME Typed, NEW v \in Version, Promotable(v), Promotes(v)
  PROVE  RowsTyped' /\ AssetsTyped' /\ RestTyped'
<1> DEFINE m == media[v]
           s == Source(v)
<1>1. RowsTyped /\ AssetsTyped /\ RestTyped /\ m \in Media
  BY TypedParts DEF RowsTyped, Filled, Promotable
<1>2. PendingReplacement(v) => s \in Media /\ replacement[m].head \in Version
  BY <1>1, ReplacementFacts DEF PendingReplacement, Source
<1>3. OldHead(v) \in Version \cup {None}
  BY <1>1, <1>2 DEF OldHead, AssetsTyped
<1>4. RowsTyped'
  BY <1>1, <1>3 DEF Promotes, RowsTyped, Filled, VersionStatus, RevisionStatus
<1>5. /\ title' \in [Media -> Version \cup {Original}]
      /\ head' \in [Media -> Version \cup {None}]
      /\ shell' \in [Media -> ShellStatus]
      /\ archived' \subseteq Media
  <2>1. CASE PendingReplacement(v)
    BY <1>1, <1>2, <2>1 DEF Promotes, AssetsTyped, ShellStatus
  <2>2. CASE ~ PendingReplacement(v)
    BY <1>1, <2>2 DEF Promotes, AssetsTyped, ShellStatus
  <2> QED
    BY <2>1, <2>2
<1>6. RestTyped'
  <2>1. replacement' \in [Media -> ReplacementRow]
    <3>1. CASE PendingReplacement(v)
      <4>1. [replacement[m] EXCEPT !.status = "activated"] \in ReplacementRow
        BY <1>1, <3>1, ReplacementFacts DEF PendingReplacement
      <4> QED
        BY <1>1, <3>1, <4>1 DEF Promotes, RestTyped
    <3>2. CASE ~ PendingReplacement(v)
      BY <1>1, <3>2 DEF Promotes, RestTyped
    <3> QED
      BY <3>1, <3>2
  <2> QED
    BY <1>1, <2>1 DEF Promotes, RestTyped
<1> QED
  BY <1>4, <1>5, <1>6 DEF AssetsTyped

(* The version the worker holds is one of a video. *)
LEMMA HeldFacts ==
  ASSUME IInv, pc # "idle"
  PROVE  /\ cur \in Version /\ up /\ status[cur] = "publishing"
         /\ media[cur] \in Media /\ pc \in {"index", "receipt", "promote"}
<1>1. cur \in Version /\ up /\ pc \in {"index", "receipt", "promote"}
  BY TypedParts DEF IInv, WorkerTyped
<1>2. status[cur] = "publishing"
  BY <1>1 DEF IInv, AtWork, PublicationTracked
<1> QED
  BY <1>1, <1>2 DEF IInv, Typed, Filled

THEOREM InitInvariant == Init => IInv
<1> SUFFICES ASSUME Init PROVE IInv
  OBVIOUS
<1>1. Typed
  BY ConstantsAssumption
     DEF Init, Typed, TypeOK, Filled, Version, None, Original, VersionStatus,
         RevisionStatus, JobStatus, ShellStatus, ReplacementRow
<1>2. AtWork /\ PublicationTracked
  BY DEF Init, AtWork, PublicationTracked
<1>3. HeadPublished /\ Placed /\ Grounded
  BY DEF Init, HeadPublished, Placed, Grounded
<1> QED
  BY <1>1, <1>2, <1>3 DEF IInv

(* A replacement that is revived is a replacement. *)
LEMMA ReviveTyped ==
  ASSUME RestTyped, NEW m \in Media, Revive(m)
  PROVE  replacement' \in [Media -> ReplacementRow]
<1>1. [replacement[m] EXCEPT !.status = "pending"] \in ReplacementRow
  BY ReplacementFacts DEF Revive
<1> QED
  BY <1>1 DEF Revive, RestTyped

(* Every step keeps the types. *)
LEMMA TypeStep == IInv /\ [Next]_vars => Typed'
<1> SUFFICES ASSUME IInv, [Next]_vars PROVE Typed'
  OBVIOUS
<1>0. RowsTyped /\ AssetsTyped /\ WorkerTyped /\ RestTyped
  BY TypedParts DEF IInv
<1> SUFFICES RowsTyped' /\ AssetsTyped' /\ WorkerTyped' /\ RestTyped'
  BY TypedParts, PTL
<1>1. ASSUME NEW v \in Version, NEW m \in Media, Transcribed(v, m)
      PROVE  RowsTyped' /\ AssetsTyped' /\ WorkerTyped' /\ RestTyped'
  <2>1. RowsTyped'
    BY <1>0, <1>1, InsertTyped DEF Transcribed
  <2>2. replacement' \in [Media -> ReplacementRow]
    BY <1>0, <1>1, ReviveTyped DEF Transcribed, RestTyped
  <2> QED
    BY <1>0, <1>1, <2>1, <2>2, PartsKept DEF Transcribed, RestTyped
<1>2. ASSUME NEW m \in Media, JobFails(m)
      PROVE  RowsTyped' /\ AssetsTyped' /\ WorkerTyped' /\ RestTyped'
  <2>1. [replacement[m] EXCEPT !.status = "failed"] \in ReplacementRow
    BY <1>0, <1>2, ReplacementFacts DEF JobFails
  <2> QED
    BY <1>0, <1>2, <2>1, PartsKept DEF JobFails, RestTyped
<1>3. ASSUME NEW v \in Version, NEW b \in Version, Edit(v, b)
      PROVE  RowsTyped' /\ AssetsTyped' /\ WorkerTyped' /\ RestTyped'
  <2>1. media[b] \in Media
    BY <1>0, <1>3 DEF Edit, Row, RowsTyped, Filled
  <2> QED
    BY <1>0, <1>3, <2>1, InsertTyped, PartsKept DEF Edit
<1>4. ASSUME NEW v \in Version, NEW m \in Media, ReviseMetadata(v, m)
      PROVE  RowsTyped' /\ AssetsTyped' /\ WorkerTyped' /\ RestTyped'
  BY <1>0, <1>4, InsertTyped, PartsKept DEF ReviseMetadata, AssetsTyped
<1>5. ASSUME NEW v \in Version, Reconsider(v) \/ Reject(v) \/ Delete(v)
      PROVE  RowsTyped' /\ AssetsTyped' /\ WorkerTyped' /\ RestTyped'
  <2>1. RowsTyped'
    <3>1. CASE Reconsider(v)
      BY <1>0, <3>1 DEF Reconsider, RowsTyped, Filled, VersionStatus
    <3>2. CASE Reject(v)
      BY <1>0, <3>2 DEF Reject, RowsTyped, Filled, VersionStatus, RevisionStatus
    <3>3. CASE Delete(v)
      BY <1>0, <3>3
         DEF Delete, DeleteAllowed, Publishable, RowsTyped, Filled, VersionStatus,
             RevisionStatus, None
    <3> QED
      BY <1>5, <3>1, <3>2, <3>3
  <2> QED
    BY <1>0, <1>5, <2>1, PartsKept DEF Reconsider, Reject, Delete
<1>6. ASSUME NEW s \in Media, NEW c \in Media, Register(s, c) \/ Discover(s, c)
      PROVE  RowsTyped' /\ AssetsTyped' /\ WorkerTyped' /\ RestTyped'
  <2>1. Propose(s, c) /\ head[s] \in Version
    BY <1>0, <1>6 DEF Register, Discover, OnShelf, AssetsTyped
  <2>2. RestTyped'
    BY <1>0, <1>6, <2>1 DEF Register, Discover, Propose, RestTyped, ReplacementRow
  <2> QED
    BY <1>0, <1>6, <2>2, PartsKept DEF Register, Discover
<1>7. ASSUME NEW v \in Version, Begin(v)
      PROVE  RowsTyped' /\ AssetsTyped' /\ WorkerTyped' /\ RestTyped'
  <2>1. RowsTyped'
    BY <1>0, <1>7
       DEF Begin, RowsTyped, Filled, VersionStatus, RevisionStatus, JobStatus, Publishable
  <2>2. WorkerTyped'
    BY <1>0, <1>7 DEF Begin, worker, WorkerTyped
  <2> QED
    BY <1>0, <1>7, <2>1, <2>2, PartsKept DEF Begin
<1>8. ASSUME NEW v \in Version, Take(v)
      PROVE  RowsTyped' /\ AssetsTyped' /\ WorkerTyped' /\ RestTyped'
  <2>1. WorkerTyped'
    BY <1>0, <1>8 DEF Take, Working, WorkerTyped
  <2> QED
    BY <1>0, <1>8, <2>1, PartsKept DEF Take
<1>9. CASE Index
  <2>1. media[cur] \in Media /\ cur \in Version
    BY <1>9, HeldFacts DEF Index, Working
  <2>2. IndexTitle(cur) \in Version \cup {-1, Original}
    BY <1>0, <2>1 DEF IndexTitle, AssetsTyped
  <2>3. RestTyped'
    BY <1>0, <1>9, <2>1, <2>2 DEF Index, RestTyped
  <2>4. WorkerTyped'
    BY <1>0, <1>9 DEF Index, Working, WorkerTyped
  <2> QED
    BY <1>0, <1>9, <2>3, <2>4, PartsKept DEF Index
<1>10. CASE Receipt
  <2>1. RowsTyped'
    BY <1>0, <1>10 DEF Receipt, RowsTyped, Filled, JobStatus
  <2>2. WorkerTyped'
    BY <1>0, <1>10 DEF Receipt, Working, WorkerTyped
  <2> QED
    BY <1>0, <1>10, <2>1, <2>2, PartsKept DEF Receipt
<1>11. CASE IndexFails
  <2>1. cur \in Version /\ media[cur] \in Media
    BY <1>11, HeldFacts DEF IndexFails
  <2>2. RowsTyped'
    BY <1>0, <1>11, <2>1
       DEF IndexFails, RowsTyped, Filled, VersionStatus, RevisionStatus, JobStatus
  <2>3. WorkerTyped'
    BY <1>0, <1>11 DEF IndexFails, Finish, WorkerTyped
  <2> QED
    BY <1>0, <1>11, <2>2, <2>3, PartsKept DEF IndexFails
<1>12. CASE Promote
  <2>1. cur \in Version
    BY <1>12, HeldFacts DEF Promote, Working
  <2>2. RowsTyped' /\ AssetsTyped' /\ RestTyped'
    BY <1>12, <2>1, PromotesTyped DEF Promote, IInv
  <2>3. WorkerTyped'
    BY <1>0, <1>12 DEF Promote, Promotes, Finish, WorkerTyped
  <2> QED
    BY <2>2, <2>3
<1>13. CASE PromoteRefused
  <2>1. WorkerTyped'
    BY <1>0, <1>13 DEF PromoteRefused, Finish, WorkerTyped
  <2> QED
    BY <1>0, <1>13, <2>1, PartsKept DEF PromoteRefused
<1>14. CASE Crash
  <2>1. WorkerTyped'
    BY <1>0, <1>14 DEF Crash, WorkerTyped
  <2> QED
    BY <1>0, <1>14, <2>1, PartsKept DEF Crash
<1>15. ASSUME NEW v \in Version, BootPromote(v)
       PROVE  RowsTyped' /\ AssetsTyped' /\ WorkerTyped' /\ RestTyped'
  <2>1. RowsTyped' /\ AssetsTyped' /\ RestTyped'
    BY <1>15, PromotesTyped DEF BootPromote, IInv
  <2>2. UNCHANGED process
    BY <1>15 DEF BootPromote, Promotes, process, worker
  <2> QED
    BY <1>0, <2>1, <2>2, PartsKept
<1>16. CASE Boot
  <2>1. WorkerTyped'
    BY <1>0, <1>16 DEF Boot, Resumed, Publishing, worker, WorkerTyped
  <2> QED
    BY <1>0, <1>16, <2>1, PartsKept DEF Boot
<1>17. CASE Reconfigure
  <2>1. RestTyped'
    BY <1>0, <1>17 DEF Reconfigure, RestTyped
  <2> QED
    BY <1>0, <1>17, <2>1, PartsKept DEF Reconfigure
<1>18. ASSUME NEW m \in Media, Archive(m) \/ Restore(m)
       PROVE  RowsTyped' /\ AssetsTyped' /\ WorkerTyped' /\ RestTyped'
  <2>1. AssetsTyped'
    BY <1>0, <1>18 DEF Archive, Restore, AssetsTyped, ShellStatus
  <2> QED
    BY <1>0, <1>18, <2>1, PartsKept DEF Archive, Restore
<1>19. CASE UNCHANGED vars
  BY <1>0, <1>19, PartsKept DEF vars
<1>20. ASSUME NEW m \in Media, Retry(m)
      PROVE  RowsTyped' /\ AssetsTyped' /\ WorkerTyped' /\ RestTyped'
  <2>1. replacement' \in [Media -> ReplacementRow]
    BY <1>0, <1>20, ReviveTyped DEF Retry
  <2> QED
    BY <1>0, <1>20, <2>1, PartsKept DEF Retry, RestTyped
<1> QED
  BY <1>1, <1>2, <1>3, <1>4, <1>5, <1>6, <1>7, <1>8, <1>9, <1>10, <1>11, <1>12, <1>13,
     <1>14, <1>15, <1>16, <1>17, <1>18, <1>19, <1>20
     DEF Next, Request, Worker, Recovery
-----------------------------------------------------------------------------
(* The status, the index job and the queue of every version after a step that
   leaves the versions alone, or changes one of them. *)
LEMMA RowsUntouched ==
  ASSUME PublicationTracked, AtWork, UNCHANGED <<status, job>>,
         UNCHANGED process
  PROVE  PublicationTracked' /\ AtWork'
  BY DEF PublicationTracked, AtWork, process, worker

(* No version the worker holds or the queue names is touched by a request
   that deals with one outside publication. *)
LEMMA ReviewTracked ==
  ASSUME IInv, NEW v \in Version, NEW s \in {"pending", "rejected", "deleted"},
         status[v] \in {"absent", "pending", "rejected", "publication_failed"},
         status[v] = "publication_failed" => job[v] = "none",
         status' = [status EXCEPT ![v] = s], UNCHANGED <<job, process>>
  PROVE  PublicationTracked' /\ AtWork'
<1>1. status \in [Version -> VersionStatus] /\ WorkerTyped
  BY TypedParts DEF IInv, RowsTyped
<1>2. PublicationTracked'
  BY <1>1 DEF IInv, PublicationTracked, process, worker
<1>3. AtWork'
  BY <1>1 DEF IInv, AtWork, PublicationTracked, process, worker, WorkerTyped
<1> QED
  BY <1>2, <1>3

LEMMA TrackStep == IInv /\ [Next]_vars => PublicationTracked' /\ AtWork'
<1> SUFFICES ASSUME IInv, [Next]_vars PROVE PublicationTracked' /\ AtWork'
  OBVIOUS
<1>0. RowsTyped /\ WorkerTyped /\ PublicationTracked /\ AtWork
  BY TypedParts DEF IInv
<1>1. ASSUME NEW v \in Version, NEW m, NEW b, NEW r, Insert(v, m, b, r), UNCHANGED process
      PROVE  PublicationTracked' /\ AtWork'
  <2>1. status[v] = "absent"
    BY <1>1 DEF Insert, Fresh, Version
  <2> QED
    BY <1>1, <2>1, ReviewTracked DEF Insert
<1>2. ASSUME NEW v \in Version, Reconsider(v) \/ Reject(v) \/ Delete(v)
      PROVE  PublicationTracked' /\ AtWork'
  <2>1. CASE Reconsider(v)
    BY <2>1, ReviewTracked DEF Reconsider
  <2>2. CASE Reject(v)
    BY <2>2, ReviewTracked DEF Reject
  <2>3. CASE Delete(v)
    BY <2>3, ReviewTracked DEF Delete, DeleteAllowed, Publishable
  <2> QED
    BY <1>2, <2>1, <2>2, <2>3
<1>3. ASSUME NEW v \in Version, Begin(v)
      PROVE  PublicationTracked' /\ AtWork'
  <2>1. pc # "idle" => cur # v
    BY <1>3, HeldFacts DEF Begin, Publishable
  <2>2. PublicationTracked'
    BY <1>0, <1>3 DEF Begin, RowsTyped, PublicationTracked, worker
  <2>3. AtWork'
    BY <1>0, <1>3, <2>1 DEF Begin, RowsTyped, AtWork, worker
  <2> QED
    BY <2>2, <2>3
<1>4. ASSUME NEW v \in Version, Take(v)
      PROVE  PublicationTracked' /\ AtWork'
  BY <1>0, <1>4 DEF Take, Working, row, PublicationTracked, AtWork
<1>5. CASE Index
  BY <1>0, <1>5 DEF Index, Working, row, PublicationTracked, AtWork
<1>6. CASE Receipt
  <2>1. cur \in Version /\ status[cur] = "publishing"
    BY <1>6, HeldFacts DEF Receipt, Working
  <2> QED
    BY <1>0, <1>6, <2>1 DEF Receipt, Working, RowsTyped, PublicationTracked, AtWork
<1>7. CASE IndexFails
  <2>1. cur \in Version
    BY <1>7, HeldFacts DEF IndexFails
  <2> QED
    BY <1>0, <1>7, <2>1
       DEF IndexFails, Finish, RowsTyped, WorkerTyped, PublicationTracked, AtWork
<1>8. CASE Promote
  <2>1. cur \in Version
    BY <1>8, HeldFacts DEF Promote, Working
  <2> QED
    BY <1>0, <1>8, <2>1
       DEF Promote, Working, Promotable, Promotes, Finish, RowsTyped, PublicationTracked,
           AtWork
<1>9. CASE PromoteRefused
  BY <1>0, <1>9
     DEF PromoteRefused, Working, Finish, row, PublicationTracked, AtWork
<1>10. CASE Crash
  BY <1>0, <1>10 DEF Crash, row, PublicationTracked, AtWork
<1>11. ASSUME NEW v \in Version, BootPromote(v)
       PROVE  PublicationTracked' /\ AtWork'
  <2>1. pc = "idle"
    BY <1>0, <1>11 DEF BootPromote, WorkerTyped
  <2> QED
    BY <1>0, <1>11, <2>1
       DEF BootPromote, Promotable, Promotes, RowsTyped, PublicationTracked, AtWork, worker
<1>12. CASE Boot
  <2>1. pc = "idle"
    BY <1>0, <1>12 DEF Boot, WorkerTyped
  <2> QED
    BY <1>0, <1>12, <2>1
       DEF Boot, Resumed, Publishing, row, worker, PublicationTracked, AtWork
<1>13. ASSUME UNCHANGED <<status, job, process>>
       PROVE  PublicationTracked' /\ AtWork'
  BY <1>0, <1>13, RowsUntouched
<1>14. ASSUME NEW v \in Version, NEW m \in Media, Transcribed(v, m) \/ ReviseMetadata(v, m)
       PROVE  PublicationTracked' /\ AtWork'
  BY <1>1, <1>14 DEF Transcribed, ReviseMetadata
<1>15. ASSUME NEW v \in Version, NEW b \in Version, Edit(v, b)
       PROVE  PublicationTracked' /\ AtWork'
  BY <1>1, <1>15 DEF Edit
<1>16. ASSUME NEW s \in Media, NEW c \in Media, Register(s, c) \/ Discover(s, c)
       PROVE  UNCHANGED <<status, job, process>>
  BY <1>16 DEF Register, Discover, row
<1>17. ASSUME NEW m \in Media, Retry(m) \/ JobFails(m) \/ Archive(m) \/ Restore(m)
       PROVE  UNCHANGED <<status, job, process>>
  BY <1>17 DEF Retry, JobFails, Archive, Restore, row
<1>18. ASSUME Reconfigure \/ UNCHANGED vars
       PROVE  UNCHANGED <<status, job, process>>
  BY <1>18 DEF Reconfigure, vars, row
<1> QED
  BY <1>2, <1>3, <1>4, <1>5, <1>6, <1>7, <1>8, <1>9, <1>10, <1>11, <1>12, <1>13, <1>14,
     <1>15, <1>16, <1>17, <1>18
     DEF Next, Request, Worker, Recovery
-----------------------------------------------------------------------------
Published(v) == status[v] = "published"

(* What a step that promotes nothing leaves alone. *)
Quiet ==
  /\ head' = head
  /\ \A v \in Version :
       /\ Published(v)' <=> Published(v)
       /\ Published(v) => UNCHANGED <<media[v], job[v], supersedes[v]>>
  /\ \A m \in Media : (shell[m] = "none")' <=> shell[m] = "none"

LEMMA InsertQuiet ==
  ASSUME RowsTyped, AssetsTyped, NEW v \in Version, NEW m, NEW b, NEW r, Insert(v, m, b, r),
         UNCHANGED asset
  PROVE  Quiet
<1>1. status[v] = "absent"
  BY DEF Insert, Fresh, Version
<1> QED
  BY <1>1 DEF Insert, RowsTyped, asset, Quiet, Published

LEMMA StepQuiet ==
  IInv /\ [Next]_vars => Quiet \/ \E v \in Version : Promotable(v) /\ Promotes(v)
<1> SUFFICES ASSUME IInv, [Next]_vars
             PROVE  Quiet \/ \E v \in Version : Promotable(v) /\ Promotes(v)
  OBVIOUS
<1>0. RowsTyped /\ AssetsTyped /\ WorkerTyped
  BY TypedParts DEF IInv
<1>1. ASSUME UNCHANGED <<row, asset>> PROVE Quiet
  BY <1>1 DEF row, asset, Quiet, Published
<1>2. ASSUME NEW v \in Version, NEW m \in Media, Transcribed(v, m) \/ ReviseMetadata(v, m)
      PROVE  Quiet
  BY <1>0, <1>2, InsertQuiet DEF Transcribed, ReviseMetadata
<1>3. ASSUME NEW v \in Version, NEW b \in Version, Edit(v, b) PROVE Quiet
  BY <1>0, <1>3, InsertQuiet DEF Edit
<1>4. ASSUME NEW v \in Version, Reconsider(v) \/ Reject(v) \/ Begin(v) PROVE Quiet
  BY <1>0, <1>4
     DEF Reconsider, Reject, Begin, Publishable, RowsTyped, asset, Quiet, Published
<1>5. ASSUME NEW v \in Version, Delete(v) PROVE Quiet
  <2>1. \A w \in Version : Published(w) => supersedes[w] # v
    BY <1>5 DEF Delete, DeleteAllowed, Publishable, IInv, Grounded, Published, Version, None
  <2> QED
    BY <1>0, <1>5, <2>1
       DEF Delete, DeleteAllowed, Publishable, RowsTyped, asset, Quiet, Published
<1>6. ASSUME Receipt \/ IndexFails PROVE Quiet
  <2>1. cur \in Version /\ status[cur] = "publishing"
    BY <1>6, HeldFacts DEF Receipt, IndexFails, Working
  <2> QED
    BY <1>0, <1>6, <2>1 DEF Receipt, IndexFails, RowsTyped, asset, Quiet, Published
<1>7. ASSUME NEW m \in Media, Archive(m) \/ Restore(m) PROVE Quiet
  BY <1>0, <1>7
     DEF Archive, Archivable, Restore, AssetsTyped, row, Quiet, Published
<1>8. ASSUME Promote PROVE \E v \in Version : Promotable(v) /\ Promotes(v)
  BY <1>8, HeldFacts DEF Promote, Working
<1>9. ASSUME NEW s \in Media, NEW c \in Media, Register(s, c) \/ Discover(s, c) PROVE Quiet
  BY <1>1, <1>9 DEF Register, Discover
<1>10. ASSUME NEW m \in Media, Retry(m) \/ JobFails(m) PROVE Quiet
  BY <1>1, <1>10 DEF Retry, JobFails
<1>11. ASSUME NEW v \in Version, Take(v) PROVE Quiet
  BY <1>1, <1>11 DEF Take
<1>12. ASSUME Index \/ PromoteRefused \/ Crash \/ Boot \/ Reconfigure \/ UNCHANGED vars
       PROVE  Quiet
  BY <1>1, <1>12 DEF Index, PromoteRefused, Crash, Boot, Reconfigure, vars
<1>13. ASSUME NEW v \in Version, BootPromote(v)
       PROVE  \E w \in Version : Promotable(w) /\ Promotes(w)
  BY <1>13 DEF BootPromote
<1> QED
  BY <1>2, <1>3, <1>4, <1>5, <1>6, <1>7, <1>8, <1>9, <1>10, <1>11, <1>12, <1>13
     DEF Next, Request, Worker, Recovery
-----------------------------------------------------------------------------
(* What a promotion does to what the videos show. *)
LEMMA PromotionFacts ==
  ASSUME IInv, NEW v \in Version, Promotable(v), Promotes(v)
  PROVE  /\ media[v] \in Media
         /\ status' = [status EXCEPT ![v] = "published"]
         /\ supersedes' = [supersedes EXCEPT ![v] = OldHead(v)]
         /\ media' = media /\ job' = job
         /\ head' \in [Media -> Version \cup {None}]
         /\ OldHead(v) # None => OldHead(v) \in Version /\ Published(OldHead(v))
         /\ head'[media[v]] = v
         /\ \A m \in Media : head[m] = OldHead(v) /\ m # media[v] => head'[m] = None
         /\ \A m \in Media : head[m] # OldHead(v) /\ m # media[v] => head'[m] = head[m]
         /\ head[media[v]] \in {None, OldHead(v)}
         /\ OldHead(v) # None => \E m \in Media : head[m] = OldHead(v)
         /\ \A m \in Media : (shell[m] = "none")' =>
              /\ m # media[v]
              /\ shell[m] = "none" \/ (head[m] # None /\ head[m] = OldHead(v))
         /\ \A m \in Media \ {media[v]} : replacement'[m] = replacement[m]
<1> DEFINE m == media[v]
           s == Source(v)
           o == OldHead(v)
<1>0. RowsTyped /\ AssetsTyped /\ RestTyped
  BY TypedParts DEF IInv
<1>1. m \in Media
  BY <1>0 DEF RowsTyped, Filled, Promotable
<1>2. \A x \in Media : head[x] # None => head[x] \in Version /\ Published(head[x]) /\ media[head[x]] = x
  BY <1>0 DEF IInv, HeadPublished, AssetsTyped, Published
<1>3. CASE PendingReplacement(v)
  <2>1. s \in Media /\ o \in Version /\ o = head[s] /\ shell[s] = "live" /\ shell[m] = "none"
    BY <1>0, <1>1, <1>3, ReplacementFacts
       DEF PendingReplacement, Source, OldHead, Promotable, ReplacementValid
  <2>2. head[m] = None /\ s # m
    BY <1>1, <2>1 DEF IInv, Placed
  <2>3. \A x \in Media : head[x] = o <=> x = s
    BY <1>2, <2>1 DEF None, Version
  <2>4. head' = [head EXCEPT ![s] = None, ![m] = v]
    BY <1>3 DEF Promotes
  <2>5. shell' = [shell EXCEPT ![s] = "none", ![m] = "live"]
    BY <1>3 DEF Promotes
  <2>6. head'[m] = v /\ head' \in [Media -> Version \cup {None}]
    BY <1>0, <1>1, <2>4 DEF AssetsTyped
  <2>7. \A x \in Media : x # m => head'[x] = IF x = s THEN None ELSE head[x]
    BY <1>0, <2>1, <2>4 DEF AssetsTyped
  <2>8. \A x \in Media : shell'[x] = IF x = m THEN "live" ELSE IF x = s THEN "none" ELSE shell[x]
    BY <1>0, <1>1, <2>1, <2>5 DEF AssetsTyped
  <2>9. o # None
    BY <2>1 DEF None, Version
  <2>10. Published(o)
    BY <1>2, <2>1, <2>9
  <2>11. \A x \in Media \ {m} : replacement'[x] = replacement[x]
    BY <1>0, <1>3 DEF Promotes, RestTyped
  <2> QED
    BY <1>1, <2>1, <2>2, <2>3, <2>6, <2>7, <2>8, <2>9, <2>10, <2>11 DEF Promotes
<1>4. CASE ~ PendingReplacement(v)
  <2>1. o = head[m]
    BY <1>4 DEF OldHead
  <2>2. head' = [head EXCEPT ![m] = v] /\ shell' = [shell EXCEPT ![m] = IF @ = "none" THEN "live" ELSE @]
    BY <1>4 DEF Promotes
  <2>3. head'[m] = v /\ head' \in [Media -> Version \cup {None}]
    BY <1>0, <1>1, <2>2 DEF AssetsTyped
  <2>4. \A x \in Media : x # m => head'[x] = head[x] /\ shell'[x] = shell[x]
    BY <1>0, <1>1, <2>2 DEF AssetsTyped
  <2>5. shell'[m] # "none"
    BY <1>0, <1>1, <2>2 DEF AssetsTyped
  <2>6. \A x \in Media : x # m /\ head[x] = o => o = None
    BY <1>1, <1>2, <2>1
  <2>7. o # None => o \in Version /\ Published(o)
    BY <1>1, <1>2, <2>1
  <2>8. replacement' = replacement
    BY <1>4 DEF Promotes
  <2> QED
    BY <1>1, <2>1, <2>3, <2>4, <2>5, <2>6, <2>7, <2>8 DEF Promotes
<1> QED
  BY <1>3, <1>4

LEMMA ShelfStep == IInv /\ [Next]_vars => HeadPublished' /\ Placed' /\ Grounded'
<1> SUFFICES ASSUME IInv, [Next]_vars PROVE HeadPublished' /\ Placed' /\ Grounded'
  OBVIOUS
<1>0. RowsTyped /\ AssetsTyped
  BY TypedParts DEF IInv
<1>1. CASE Quiet
  <2>1. HeadPublished' /\ Placed'
    BY <1>0, <1>1 DEF Quiet, Published, IInv, HeadPublished, Placed, AssetsTyped
  <2>2. Grounded'
    BY <1>0, <1>1 DEF Quiet, Published, IInv, Grounded, RowsTyped
  <2> QED
    BY <2>1, <2>2
<1>2. ASSUME NEW v \in Version, Promotable(v), Promotes(v)
      PROVE  HeadPublished' /\ Placed' /\ Grounded'
  <2> DEFINE o == OldHead(v)
  <2>1. /\ status' = [status EXCEPT ![v] = "published"]
        /\ supersedes' = [supersedes EXCEPT ![v] = o]
        /\ media' = media /\ job' = job /\ media[v] \in Media
        /\ o # None => o \in Version /\ Published(o)
        /\ head'[media[v]] = v
        /\ \A m \in Media : m # media[v] => head'[m] \in {None, head[m]}
    BY <1>2, PromotionFacts
  <2>2. HeadPublished'
    BY <1>0, <1>2, <2>1 DEF Promotable, IInv, HeadPublished, RowsTyped, AssetsTyped
  <2>3. Placed'
    BY <1>0, <1>2, PromotionFacts DEF IInv, Placed
  <2>4. Grounded'
    BY <1>0, <2>1 DEF IInv, Grounded, Published, RowsTyped
  <2> QED
    BY <2>2, <2>3, <2>4
<1> QED
  BY <1>1, <1>2, StepQuiet

THEOREM Invariant == Spec => []IInv
<1>1. IInv /\ [Next]_vars => IInv'
  BY TypeStep, TrackStep, ShelfStep DEF IInv
<1> QED
  BY <1>1, InitInvariant, PTL DEF Spec

THEOREM TypesHold == Spec => []TypeOK
<1>1. IInv => TypeOK
  BY DEF IInv, Typed
<1> QED
  BY <1>1, Invariant, PTL

THEOREM PublicationIsTracked == Spec => []PublicationTracked
<1>1. IInv => PublicationTracked
  BY DEF IInv
<1> QED
  BY <1>1, Invariant, PTL
-----------------------------------------------------------------------------
(* The published versions form chains. *)

OnShow(v) == \E m \in Media : head[m] = v

(* Before a promotion nothing superseded the version promoted, and what it
   supersedes was on show; after it that version is not, and no other one
   appeared or vanished. *)
LEMMA ChainFacts ==
  ASSUME IInv, NEW v \in Version, Promotable(v), Promotes(v)
  PROVE  /\ OnShow(v)'
         /\ OldHead(v) # v /\ ~ Published(v)
         /\ OldHead(v) # None => /\ OnShow(OldHead(v))
                                 /\ \A m \in Media : head'[m] # OldHead(v)
         /\ \A u \in Version \ {v, OldHead(v)} : OnShow(u)' <=> OnShow(u)
         /\ Successors(v) = {}
<1> DEFINE o == OldHead(v)
<1>0. RowsTyped /\ AssetsTyped
  BY TypedParts DEF IInv
<1>1. ~ Published(v) /\ v # None
  BY DEF Promotable, Published, Version, None
<1>2. /\ media[v] \in Media
      /\ o # None => o \in Version /\ Published(o)
      /\ head'[media[v]] = v
      /\ \A m \in Media : head[m] = o /\ m # media[v] => head'[m] = None
      /\ \A m \in Media : head[m] # o /\ m # media[v] => head'[m] = head[m]
      /\ head[media[v]] \in {None, o}
      /\ o # None => \E m \in Media : head[m] = o
  BY PromotionFacts
<1>3. o # v
  BY <1>1, <1>2
<1>4. o # None => \A m \in Media : head'[m] # o
  BY <1>2, <1>3
<1>5. ASSUME NEW u \in Version \ {v, o} PROVE OnShow(u)' <=> OnShow(u)
  <2>1. u # None
    BY DEF Version, None
  <2>2. \A m \in Media : head'[m] = u <=> head[m] = u
    BY <1>2, <1>5, <2>1
  <2> QED
    BY <2>2 DEF OnShow
<1>6. Successors(v) = {}
  BY <1>1 DEF Successors, IInv, Grounded, Published
<1>7. OnShow(v)'
  BY <1>2 DEF OnShow
<1> QED
  BY <1>1, <1>2, <1>3, <1>4, <1>5, <1>6, <1>7 DEF OnShow

Chained(v) == IF OnShow(v) THEN Successors(v) = {} ELSE Cardinality(Successors(v)) = 1

AllChained == \A v \in Version : Published(v) => Chained(v)

LEMMA LinearFacts == LinearHistory <=> AllChained
  BY DEF LinearHistory, AllChained, Published, Chained, OnShow

LEMMA ChainStep ==
  ASSUME IInv, LinearHistory, NEW v \in Version, Promotable(v), Promotes(v),
         NEW u \in Version, Published(u)'
  PROVE  Chained(u)'
<1> DEFINE o == OldHead(v)
<1>0. RowsTyped
  BY TypedParts DEF IInv
<1>1. /\ status' = [status EXCEPT ![v] = "published"]
      /\ supersedes' = [supersedes EXCEPT ![v] = o]
      /\ o # None => o \in Version /\ Published(o)
  BY PromotionFacts
<1>2. /\ OnShow(v)' /\ o # v /\ ~ Published(v) /\ Successors(v) = {}
      /\ o # None => OnShow(o) /\ \A m \in Media : head'[m] # o
      /\ \A w \in Version \ {v, o} : OnShow(w)' <=> OnShow(w)
  BY ChainFacts
<1>3. Successors(u)' = Successors(u) \cup IF u = o THEN {v} ELSE {}
  BY <1>0, <1>1, <1>2 DEF Successors, RowsTyped, Published
<1>4. CASE u = v
  BY <1>2, <1>3, <1>4 DEF Chained
<1>5. CASE u = o
  <2>1. u # None
    BY DEF Version, None
  <2>2. Published(u) /\ OnShow(u) /\ ~ OnShow(u)'
    BY <1>1, <1>2, <1>5, <2>1 DEF OnShow
  <2>3. Successors(u) = {}
    BY <2>2, LinearFacts DEF AllChained, Chained
  <2>4. Successors(u)' = {v}
    BY <1>3, <1>5, <2>3
  <2> QED
    BY <2>2, <2>4, FS_Singleton DEF Chained
<1>6. CASE u \notin {v, o}
  <2>1. Published(u)
    BY <1>0, <1>1, <1>6 DEF Published, RowsTyped
  <2>2. Chained(u)
    BY <2>1, LinearFacts DEF AllChained
  <2> QED
    BY <1>2, <1>3, <1>6, <2>2 DEF Chained
<1> QED
  BY <1>4, <1>5, <1>6

(* Whatever is published, edited, revised, replaced, deleted or interrupted,
   and in whichever order, every published version is on show or was superseded
   by exactly one other, which the history pages of the routes rely on. *)
THEOREM HistoryIsLinear == Spec => []LinearHistory
<1>1. Init => LinearHistory
  BY DEF Init, LinearHistory
<1>2. IInv /\ LinearHistory /\ [Next]_vars => LinearHistory'
  <2> SUFFICES ASSUME IInv, LinearHistory, [Next]_vars PROVE LinearHistory'
    OBVIOUS
  <2>1. CASE Quiet
    <3>1. \A u \in Version : Successors(u)' = Successors(u) /\ (OnShow(u)' <=> OnShow(u))
      BY <2>1 DEF Quiet, Published, Successors, OnShow
    <3> QED
      BY <2>1, <3>1 DEF Quiet, Published, LinearHistory, OnShow
  <2>2. ASSUME NEW v \in Version, Promotable(v), Promotes(v) PROVE LinearHistory'
    <3>1. AllChained'
      BY <2>2, ChainStep DEF AllChained
    <3> QED
      BY <3>1, LinearFacts, PTL
  <2> QED
    BY <2>1, <2>2, StepQuiet
<1> QED
  BY <1>1, <1>2, Invariant, PTL DEF Spec
-----------------------------------------------------------------------------
(* Every promotion shows a version never shown before, and takes another one
   off the shelf only when it puts its own in the place. *)
LEMMA PromotionShows ==
  ASSUME IInv, NEW v \in Version, Promotable(v), Promotes(v)
  PROVE  Shelf!Next
<1> DEFINE m == media[v]
           s == Source(v)
           past == {w \in Version : status[w] = "published"}
<1>0. RowsTyped /\ AssetsTyped /\ RestTyped
  BY TypedParts DEF IInv
<1>1. m \in Media
  BY <1>0 DEF RowsTyped, Filled, Promotable
<1>2. v \notin past /\ past' = past \cup {v}
  BY <1>0 DEF Promotable, Promotes, RowsTyped
<1>3. CASE PendingReplacement(v)
  <2>0. s \in Media /\ head[s] \in Version /\ shell[s] = "live" /\ shell[m] = "none"
    BY <1>0, <1>1, <1>3, ReplacementFacts
       DEF PendingReplacement, Source, Promotable, ReplacementValid
  <2>1. s \in Media /\ head[s] # None /\ shell[s] = "live" /\ shell[m] = "none"
    BY <2>0 DEF Version, None
  <2>2. head[m] = None /\ s # m
    BY <1>1, <2>1 DEF IInv, Placed
  <2>3. Shelf!TakeOver(s, m, v)
    BY <1>2, <1>3, <2>1, <2>2 DEF Shelf!TakeOver, Promotes
  <2> QED
    BY <1>1, <2>1, <2>3 DEF Shelf!Next
<1>4. CASE ~ PendingReplacement(v)
  <2>1. Shelf!Show(m, v)
    BY <1>2, <1>4 DEF Shelf!Show, Promotes
  <2> QED
    BY <1>1, <2>1 DEF Shelf!Next
<1> QED
  BY <1>3, <1>4

(* The library keeps TranscriptShelf's promise: a video that shows a
   transcript keeps showing one until a replacement takes its place in the
   same step, and no version that was taken off returns. *)
THEOREM PublicationKeepsShelf == Spec => KeepsShelf
<1>1. Init => Shelf!Init
  BY DEF Init, Shelf!Init
<1>2. IInv /\ [Next]_vars => [Shelf!Next]_Shelf!vars
  <2> SUFFICES ASSUME IInv, [Next]_vars PROVE [Shelf!Next]_Shelf!vars
    OBVIOUS
  <2>1. CASE Quiet
    <3>1. {w \in Version : status[w] = "published"}' = {w \in Version : status[w] = "published"}
      BY <2>1 DEF Quiet, Published
    <3> QED
      BY <2>1, <3>1 DEF Quiet, Shelf!vars
  <2>2. ASSUME NEW v \in Version, Promotable(v), Promotes(v) PROVE Shelf!Next
    BY <2>2, PromotionShows
  <2> QED
    BY <2>1, <2>2, StepQuiet
<1> QED
  BY <1>1, <1>2, Invariant, PTL DEF Spec, KeepsShelf, Shelf!Spec
-----------------------------------------------------------------------------
(* Replacements, as long as none fails. *)

NoRetry == "retry" \notin Paths

Pending(c) == replacement[c].status = "pending"
Src(c)     == replacement[c].source

NoneFailed == \A c \in Media : replacement[c].status # "failed"

(* A pending candidate shows nothing.  While it has no place in the library,
   its source stays as it was registered, and nothing of it is in publication. *)
Undisturbed(s) ==
  shell[s] = "live" /\ s \notin archived /\ VersionsOf(s) \cap Publishing = {}

Registered ==
  \A c \in Media : Pending(c) =>
    /\ head[c] = None /\ Published(replacement[c].head)
    /\ shell[c] = "none" => head[Src(c)] = replacement[c].head /\ Undisturbed(Src(c))

OneEach == \A c, d \in Media : Pending(c) /\ Pending(d) /\ Src(c) = Src(d) => c = d

(* A shared video loses its place only after it showed a transcript. *)
SharedPlaced ==
  \A m \in Shared : shell[m] = "none" => \E v \in Version : Published(v) /\ media[v] = m

RInv == NoneFailed /\ Registered /\ OneEach /\ SharedPlaced

(* What the steps other than promotions do to the versions in publication,
   the replacements and the videos they concern. *)
Calm ==
  /\ title' = title
  /\ \A v \in Version : (status[v] = "publishing")' =>
       /\ media'[v] = media[v]
       /\ \/ /\ status[v] = "publishing" /\ UNCHANGED <<base[v], revision[v]>>
             /\ job'[v] = job[v] \/ (Receipt /\ v = cur)
          \/ /\ status[v] # "publishing" /\ job'[v] = "active"
             /\ Replacing(media[v]) = {}
  /\ \A s \in Media : Replacing(s) # {} /\ shell[s] = "live" /\ s \notin archived =>
       (shell[s] = "live" /\ s \notin archived)'
  /\ \A c \in Media :
       /\ Pending(c) => replacement'[c] = replacement[c]
       /\ Pending(c)' => Pending(c) \/ \E s \in Media : Register(s, c) \/ Discover(s, c)
       /\ (replacement[c].status = "failed")' => replacement[c].status = "failed"

LEMMA InsertCalm ==
  ASSUME RowsTyped, NEW v \in Version, NEW m, NEW b, NEW r, Insert(v, m, b, r),
         UNCHANGED <<asset, replacement>>
  PROVE  Calm
<1>1. title' = title /\ shell' = shell /\ archived' = archived
  BY DEF asset
<1>2. \A w \in Version : (status[w] = "publishing")' => w # v
  BY DEF Insert, RowsTyped
<1>3. \A w \in Version \ {v} :
        status'[w] = status[w] /\ media'[w] = media[w] /\ job'[w] = job[w]
          /\ base'[w] = base[w] /\ revision'[w] = revision[w]
  BY DEF Insert, RowsTyped
<1> QED
  BY <1>1, <1>2, <1>3 DEF Calm, Pending

LEMMA StepCalm ==
  ASSUME IInv, NoneFailed, NoRetry, [Next]_vars
  PROVE  Calm \/ \E v \in Version : Promotable(v) /\ Promotes(v)
<1>0. RowsTyped /\ AssetsTyped /\ WorkerTyped /\ RestTyped
  BY TypedParts DEF IInv
<1>1. ASSUME UNCHANGED <<row, asset, replacement>> PROVE Calm
  BY <1>1 DEF row, asset, Calm, Pending
<1>2. ASSUME NEW v \in Version, NEW m \in Media, Transcribed(v, m) \/ ReviseMetadata(v, m)
      PROVE  Calm
  BY <1>0, <1>2, InsertCalm DEF Transcribed, Revive, ReviseMetadata, NoneFailed
<1>3. ASSUME NEW v \in Version, NEW b \in Version, Edit(v, b) PROVE Calm
  BY <1>0, <1>3, InsertCalm DEF Edit
<1>4. ASSUME NEW v \in Version, Reconsider(v) \/ Reject(v) \/ Delete(v) PROVE Calm
  <2>1. UNCHANGED <<media, base, job, asset, replacement>>
    BY <1>4 DEF Reconsider, Reject, Delete
  <2>2. \A w \in Version : (status[w] = "publishing")' =>
          status[w] = "publishing" /\ revision'[w] = revision[w]
    BY <1>0, <1>4
       DEF Reconsider, Reject, Delete, DeleteAllowed, Publishable, RowsTyped
  <2> QED
    BY <2>1, <2>2 DEF asset, Calm, Pending
<1>5. ASSUME NEW v \in Version, Begin(v) PROVE Calm
  <2>1. /\ UNCHANGED <<media, base, asset, replacement>>
        /\ Replacing(media[v]) = {} /\ status[v] # "publishing"
    BY <1>5 DEF Begin, Publishable
  <2>2. job'[v] = "active"
    BY <1>0, <1>5 DEF Begin, RowsTyped
  <2>3. \A w \in Version \ {v} :
          status'[w] = status[w] /\ revision'[w] = revision[w] /\ job'[w] = job[w]
    BY <1>0, <1>5 DEF Begin, RowsTyped
  <2> QED
    BY <2>1, <2>2, <2>3 DEF asset, Calm, Pending
<1>6. ASSUME Receipt PROVE Calm
  <2>1. UNCHANGED <<status, media, base, revision, asset, replacement>>
    BY <1>6 DEF Receipt
  <2>2. \A w \in Version : w # cur => job'[w] = job[w]
    BY <1>0, <1>6 DEF Receipt, RowsTyped
  <2> QED
    BY <1>6, <2>1, <2>2 DEF asset, Calm, Pending
<1>7. ASSUME IndexFails PROVE Calm
  <2>1. UNCHANGED <<media, base, asset, replacement>>
    BY <1>7 DEF IndexFails
  <2>2. \A w \in Version : (status[w] = "publishing")' =>
          status[w] = "publishing" /\ revision'[w] = revision[w] /\ job'[w] = job[w]
    BY <1>0, <1>7 DEF IndexFails, RowsTyped
  <2> QED
    BY <2>1, <2>2 DEF asset, Calm, Pending
<1>8. ASSUME NEW m \in Media, Archive(m) \/ Restore(m) PROVE Calm
  <2>1. UNCHANGED <<row, title, replacement>>
    BY <1>8 DEF Archive, Restore
  <2>2. \A s \in Media : Replacing(s) # {} /\ shell[s] = "live" /\ s \notin archived =>
          (shell[s] = "live" /\ s \notin archived)'
    BY <1>0, <1>8 DEF Archive, Archivable, Restore, AssetsTyped
  <2> QED
    BY <2>1, <2>2 DEF row, Calm, Pending
<1>9. ASSUME NEW s \in Media, NEW c \in Media, Register(s, c) \/ Discover(s, c) PROVE Calm
  <2>1. UNCHANGED <<row, asset>> /\ replacement[c] = NoReplacement
    BY <1>9 DEF Register, Discover, Unused
  <2>2. replacement'[c].status = "pending"
        /\ \A d \in Media \ {c} : replacement'[d] = replacement[d]
    BY <1>0, <1>9 DEF Register, Discover, Propose, RestTyped
  <2> QED
    BY <1>9, <2>1, <2>2 DEF row, asset, Calm, Pending, NoReplacement
<1>10. ASSUME NEW m \in Media, Retry(m) \/ JobFails(m) PROVE Calm
  BY <1>10 DEF Retry, Revive, JobFails, NoneFailed, NoRetry
<1>11. ASSUME NEW v \in Version, Take(v) PROVE Calm
  BY <1>1, <1>11 DEF Take
<1>12. ASSUME Index \/ PromoteRefused \/ Crash \/ Boot \/ Reconfigure \/ UNCHANGED vars
       PROVE  Calm
  BY <1>1, <1>12 DEF Index, PromoteRefused, Crash, Boot, Reconfigure, vars
<1>13. ASSUME Promote PROVE \E v \in Version : Promotable(v) /\ Promotes(v)
  BY <1>13, HeldFacts DEF Promote, Working
<1>14. ASSUME NEW v \in Version, BootPromote(v)
       PROVE  \E w \in Version : Promotable(w) /\ Promotes(w)
  BY <1>14 DEF BootPromote
<1> QED
  BY <1>2, <1>3, <1>4, <1>5, <1>6, <1>7, <1>8, <1>9, <1>10, <1>11, <1>12, <1>13, <1>14
     DEF Next, Request, Worker, Recovery
-----------------------------------------------------------------------------
LEMMA PendingFacts ==
  ASSUME RestTyped, NEW c \in Media, Pending(c)
  PROVE  Src(c) \in Media /\ replacement[c].head \in Version /\ c \in Replacing(Src(c))
  BY ReplacementFacts DEF Pending, Src, Replacing

(* A newly proposed replacement. *)
LEMMA ProposedFacts ==
  ASSUME IInv, RInv, NEW s \in Media, NEW c \in Media, Register(s, c) \/ Discover(s, c)
  PROVE  /\ UNCHANGED <<row, asset>>
         /\ replacement'[c] = [status |-> "pending", source |-> s, head |-> head[s]]
         /\ head[c] = None /\ Published(head[s]) /\ Replacing(s) = {} /\ ~ Pending(c)
         /\ shell[c] = "none" => Undisturbed(s)
         /\ \A d \in Media \ {c} : replacement'[d] = replacement[d]
<1>0. RowsTyped /\ AssetsTyped /\ RestTyped
  BY TypedParts DEF IInv
<1>1. /\ UNCHANGED <<row, asset>> /\ Propose(s, c) /\ OnShelf(s) /\ Unused(c)
      /\ Replacing(s) = {}
  BY DEF Register, Discover
<1>2. /\ replacement'[c] = [status |-> "pending", source |-> s, head |-> head[s]]
      /\ \A d \in Media \ {c} : replacement'[d] = replacement[d]
  BY <1>0, <1>1 DEF Propose, RestTyped
<1>3. Published(head[s])
  BY <1>1 DEF OnShelf, IInv, HeadPublished, Published
<1>4. ~ Pending(c)
  BY <1>1 DEF Unused, NoReplacement, Pending
<1>5. \A v \in Version : Published(v) => media[v] # c
  BY <1>1 DEF Unused, VersionsOf, Row, Published
<1>6. head[c] = None
  BY <1>0, <1>5 DEF IInv, HeadPublished, AssetsTyped, Published
<1>7. shell[c] = "none" => Undisturbed(s)
  <2>1. CASE Register(s, c)
    BY <2>1 DEF Register, OnShelf, Undisturbed
  <2>2. CASE Discover(s, c)
    BY <1>5, <2>2 DEF Discover, RInv, SharedPlaced
  <2> QED
    BY <2>1, <2>2
<1> QED
  BY <1>1, <1>2, <1>3, <1>4, <1>6, <1>7

LEMMA CalmKeepsUndisturbed ==
  ASSUME RowsTyped, Calm, NEW s \in Media, Replacing(s) # {}, Undisturbed(s)
  PROVE  Undisturbed(s)'
<1>1. (shell[s] = "live" /\ s \notin archived)'
  BY DEF Calm, Undisturbed
<1>2. ASSUME NEW v \in Version, (status[v] = "publishing")', media'[v] = s
      PROVE  v \in VersionsOf(s) /\ status[v] = "publishing"
  BY <1>2 DEF Calm, VersionsOf, Row
<1> QED
  BY <1>1, <1>2 DEF Undisturbed, VersionsOf, Publishing

LEMMA RegisteredCalm ==
  ASSUME IInv, RInv, Quiet, Calm, NEW c \in Media, Pending(c)'
  PROVE  /\ (head[c] = None /\ Published(replacement[c].head))'
         /\ (shell[c] = "none" => head[Src(c)] = replacement[c].head /\ Undisturbed(Src(c)))'
<1>0. RowsTyped /\ AssetsTyped /\ RestTyped
  BY TypedParts DEF IInv
<1> DEFINE s == Src(c)
<1>1. CASE Pending(c)
  <2>1. replacement'[c] = replacement[c] /\ s \in Media /\ replacement[c].head \in Version
        /\ Replacing(s) # {}
    BY <1>0, <1>1, PendingFacts DEF Calm
  <2>2. head[c] = None /\ Published(replacement[c].head)
        /\ (shell[c] = "none" => head[s] = replacement[c].head /\ Undisturbed(s))
    BY <1>1 DEF RInv, Registered
  <2>3. /\ head' = head /\ (shell'[c] = "none" <=> shell[c] = "none")
        /\ (Published(replacement[c].head) => status'[replacement[c].head] = "published")
    BY <2>1 DEF Quiet, Published
  <2>4. ASSUME Undisturbed(s)
        PROVE  (shell[s] = "live" /\ s \notin archived /\ VersionsOf(s) \cap Publishing = {})'
    <3>1. ASSUME NEW x \in Media, x = s PROVE Undisturbed(x)'
      BY <1>0, <2>1, <2>4, <3>1, CalmKeepsUndisturbed
    <3> DEFINE P(x) == shell'[x] = "live" /\ x \notin archived'
                         /\ \A v \in Version : ~ (status'[v] = "publishing" /\ media'[v] = x)
    <3>2. ASSUME NEW x \in Media, x = s PROVE P(x)
      BY <3>1, <3>2 DEF Undisturbed, VersionsOf, Publishing, Row
    <3>3. P(s)
      BY <2>1, <3>2
    <3>4. Src(c)' = s
      BY <2>1 DEF Src
    <3> QED
      BY <3>3, <3>4 DEF VersionsOf, Publishing
  <2> QED
    BY <2>1, <2>2, <2>3, <2>4 DEF Published, Undisturbed, Src
<1>2. CASE ~ Pending(c)
  <2>1. PICK x \in Media : Register(x, c) \/ Discover(x, c)
    BY <1>2 DEF Calm
  <2>2. /\ UNCHANGED <<status, media, shell, head, archived>>
        /\ replacement'[c] = [status |-> "pending", source |-> x, head |-> head[x]]
        /\ head[c] = None /\ Published(head[x])
        /\ shell[c] = "none" => Undisturbed(x)
    BY <2>1, ProposedFacts DEF row, asset
  <2> QED
    BY <2>2 DEF Src, Published, Undisturbed, VersionsOf, Publishing, Row
<1> QED
  BY <1>1, <1>2

LEMMA CalmKeepsReplacements == ASSUME IInv, RInv, Quiet, Calm PROVE RInv'
<1>0. RowsTyped /\ AssetsTyped /\ RestTyped
  BY TypedParts DEF IInv
<1>1. NoneFailed'
  BY DEF RInv, NoneFailed, Calm
<1>2. Registered'
  BY RegisteredCalm DEF Registered
<1>3. OneEach'
  <2>1. ASSUME NEW c \in Media, NEW d \in Media, Pending(c)', Pending(d)',
               (Src(c) = Src(d))', c # d
        PROVE  FALSE
    <3>1. ASSUME NEW x \in Media, NEW y \in Media, ~ Pending(x), x # y,
                 Pending(x)', Pending(y)', (Src(x) = Src(y))'
          PROVE  FALSE
      <4>1. PICK s \in Media : Register(s, x) \/ Discover(s, x)
        BY <3>1 DEF Calm
      <4>2. /\ Replacing(s) = {} /\ replacement'[y] = replacement[y]
            /\ replacement'[x] = [status |-> "pending", source |-> s, head |-> head[s]]
        BY <3>1, <4>1, ProposedFacts
      <4>3. Pending(y) /\ Src(y) = s
        BY <3>1, <4>2 DEF Pending, Src
      <4> QED
        BY <3>1, <4>2, <4>3 DEF Replacing, Pending, Src
    <3>2. Pending(c) /\ Pending(d)
      BY <2>1, <3>1
    <3>3. replacement'[c] = replacement[c] /\ replacement'[d] = replacement[d]
      BY <3>2 DEF Calm
    <3> QED
      BY <2>1, <3>2, <3>3 DEF RInv, OneEach, Src
  <2> QED
    BY <2>1 DEF OneEach
<1>4. SharedPlaced'
  BY <1>0, ConstantsAssumption DEF RInv, SharedPlaced, Quiet, Published
<1> QED
  BY <1>1, <1>2, <1>3, <1>4 DEF RInv

LEMMA PromotionSettles ==
  ASSUME IInv, RInv, NEW v \in Version, Promotable(v), Promotes(v)
  PROVE  replacement'[media[v]].status \notin {"pending", "failed"}
<1> DEFINE m == media[v]
<1>1. RestTyped /\ m \in Media
  BY TypedParts, PromotionFacts DEF IInv
<1>2. CASE PendingReplacement(v)
  <2>1. replacement[m] \in [status: {"pending", "failed", "activated"}, source: Media, head: Version]
    BY <1>1, <1>2 DEF PendingReplacement, RestTyped, ReplacementRow, NoReplacement
  <2>2. replacement'[m] = [replacement[m] EXCEPT !.status = "activated"]
    BY <1>1, <1>2 DEF Promotes, RestTyped
  <2> QED
    BY <2>1, <2>2
<1>3. CASE ~ PendingReplacement(v)
  BY <1>1, <1>3 DEF Promotes, PendingReplacement, RInv, NoneFailed
<1> QED
  BY <1>2, <1>3

LEMMA PromotionKeepsReplacements ==
  ASSUME IInv, RInv, NEW v \in Version, Promotable(v), Promotes(v)
  PROVE  RInv'
<1> DEFINE m == media[v]
<1>0. RowsTyped /\ AssetsTyped /\ RestTyped
  BY TypedParts DEF IInv
<1>1. /\ m \in Media /\ media' = media
      /\ status' = [status EXCEPT ![v] = "published"]
      /\ OldHead(v) # None => Published(OldHead(v))
      /\ \A x \in Media : head[x] # OldHead(v) /\ x # m => head'[x] = head[x]
      /\ \A x \in Media : x # m => head'[x] \in {None, head[x]}
      /\ \A x \in Media : (shell[x] = "none")' =>
           x # m /\ (shell[x] = "none" \/ (head[x] # None /\ head[x] = OldHead(v)))
      /\ \A x \in Media \ {m} : replacement'[x] = replacement[x]
  BY PromotionFacts
<1>2. replacement'[m].status \notin {"pending", "failed"}
  BY PromotionSettles
<1>3. \A x \in Media : Pending(x)' => x # m /\ Pending(x) /\ replacement'[x] = replacement[x]
  BY <1>1, <1>2 DEF Pending
<1>4. \A w \in Version : Published(w) => Published(w)'
  BY <1>0, <1>1 DEF Published, RowsTyped
<1>5. NoneFailed'
  BY <1>1, <1>2 DEF RInv, NoneFailed
<1>6. OneEach'
  BY <1>3 DEF RInv, OneEach, Src
<1>7. SharedPlaced'
  <2>1. ASSUME NEW x \in Shared, shell'[x] = "none"
        PROVE  \E w \in Version : Published(w) /\ media[w] = x
    <3>1. x \in Media /\ (shell[x] = "none" \/ head[x] # None)
      BY <1>1, <2>1, ConstantsAssumption
    <3> QED
      BY <1>0, <2>1, <3>1 DEF RInv, SharedPlaced, IInv, HeadPublished, AssetsTyped, Published
  <2> QED
    BY <1>1, <1>4, <2>1 DEF SharedPlaced
<1>8. ASSUME NEW c \in Media, Pending(c)'
      PROVE  /\ (head[c] = None /\ Published(replacement[c].head))'
             /\ (shell[c] = "none" => head[Src(c)] = replacement[c].head /\ Undisturbed(Src(c)))'
  <2> DEFINE s == Src(c)
             r == replacement[c]
  <2>1. /\ c # m /\ Pending(c) /\ replacement'[c] = r /\ s \in Media /\ r.head \in Version
        /\ head[c] = None /\ Published(r.head)
        /\ (shell[c] = "none" => head[s] = r.head /\ Undisturbed(s))
    BY <1>0, <1>3, <1>8, PendingFacts DEF RInv, Registered
  <2>2. head'[c] = None /\ (shell'[c] = "none" => shell[c] = "none")
    BY <1>1, <2>1
  <2>3. status'[r.head] = "published"
    BY <1>4, <2>1 DEF Published
  <2>4. ASSUME shell[c] = "none"
        PROVE  /\ head'[s] = r.head /\ shell'[s] = "live" /\ s \notin archived'
               /\ \A w \in Version : ~ (status'[w] = "publishing" /\ media'[w] = s)
    <3>1. /\ head[s] = r.head /\ shell[s] = "live" /\ s \notin archived
          /\ \A w \in Version : ~ (status[w] = "publishing" /\ media[w] = s)
      BY <2>1, <2>4 DEF Undisturbed, VersionsOf, Publishing, Row
    <3>2. s # m
      BY <3>1 DEF Promotable
    <3>3. r.head # None /\ media[r.head] = s
      BY <2>1, <3>1 DEF IInv, HeadPublished, Version, None
    <3>4. PendingReplacement(v) => Source(v) # s /\ Source(v) \in Media
                                     /\ head[Source(v)] = OldHead(v)
      <4>1. PendingReplacement(v) => Pending(m) /\ Src(m) = Source(v)
        BY DEF PendingReplacement, Pending, Src, Source
      <4>2. PendingReplacement(v) => Source(v) # s
        BY <1>1, <2>1, <4>1 DEF RInv, OneEach
      <4>3. PendingReplacement(v) => head[Source(v)] = OldHead(v)
        BY DEF Promotable, ReplacementValid, OldHead, Source
      <4> QED
        BY <1>0, <1>1, <4>1, <4>2, <4>3, PendingFacts
    <3>5. OldHead(v) # r.head
      <4>1. CASE PendingReplacement(v)
        BY <3>3, <3>4, <4>1 DEF IInv, HeadPublished
      <4>2. CASE ~ PendingReplacement(v)
        BY <1>1, <3>2, <3>3, <4>2 DEF OldHead, IInv, HeadPublished
      <4> QED
        BY <4>1, <4>2
    <3>6. head'[s] = r.head
      BY <1>1, <2>1, <3>1, <3>2, <3>5
    <3>7. shell'[s] = "live" /\ s \notin archived'
      <4>1. CASE PendingReplacement(v)
        BY <1>0, <1>1, <2>1, <3>1, <3>2, <3>4, <4>1 DEF Promotes, AssetsTyped
      <4>2. CASE ~ PendingReplacement(v)
        BY <1>0, <1>1, <2>1, <3>1, <3>2, <4>2 DEF Promotes, AssetsTyped
      <4> QED
        BY <4>1, <4>2
    <3>8. \A w \in Version : ~ (status'[w] = "publishing" /\ media'[w] = s)
      BY <1>0, <1>1, <3>1 DEF RowsTyped
    <3> QED
      BY <3>6, <3>7, <3>8
  <2> QED
    BY <2>1, <2>2, <2>3, <2>4 DEF Src, Published, Undisturbed, VersionsOf, Publishing
<1>9. Registered'
  BY <1>8 DEF Registered
<1> QED
  BY <1>5, <1>6, <1>7, <1>9 DEF RInv

THEOREM ReplacementInvariant == ASSUME NoRetry PROVE Spec => [](IInv /\ RInv)
<1>1. Init => RInv
  <2> SUFFICES ASSUME Init PROVE RInv
    OBVIOUS
  <2>1. NoneFailed /\ Registered /\ OneEach
    BY DEF Init, NoneFailed, Registered, OneEach, Pending, NoReplacement
  <2>2. SharedPlaced
    BY DEF Init, SharedPlaced
  <2> QED
    BY <2>1, <2>2 DEF RInv
<1>2. IInv /\ RInv /\ [Next]_vars => RInv'
  <2> SUFFICES ASSUME IInv, RInv, [Next]_vars PROVE RInv'
    OBVIOUS
  <2>1. CASE \E v \in Version : Promotable(v) /\ Promotes(v)
    BY <2>1, PromotionKeepsReplacements
  <2>2. CASE ~ \E v \in Version : Promotable(v) /\ Promotes(v)
    BY <2>2, StepQuiet, StepCalm, CalmKeepsReplacements DEF RInv
  <2> QED
    BY <2>1, <2>2
<1> QED
  BY <1>1, <1>2, Invariant, PTL DEF Spec
-----------------------------------------------------------------------------
NoShare == "share" \notin Paths

Candidates == \A c \in Media : Pending(c) => shell[c] = "none"

(* Without failed replacements that a later transcription revives, and without
   discoveries in a share, the source of a pending replacement is frozen:
   neither its transcript nor its place changes, whatever is requested. *)
THEOREM ReplacementStaysFrozen ==
  ASSUME NoRetry, NoShare PROVE Spec => []ReplacementFrozen
<1>1. Init => Candidates
  BY DEF Init, Candidates, Pending, NoReplacement
<1>2. IInv /\ RInv /\ Candidates /\ [Next]_vars => Candidates'
  <2> SUFFICES ASSUME IInv, RInv, Candidates, [Next]_vars, NEW c \in Media, Pending(c)'
               PROVE  shell'[c] = "none"
    BY DEF Candidates
  <2>0. RowsTyped /\ AssetsTyped /\ RestTyped
    BY TypedParts DEF IInv
  <2>1. ASSUME Quiet, Calm PROVE shell'[c] = "none"
    <3>1. CASE Pending(c)
      BY <2>1, <3>1 DEF Candidates, Quiet
    <3>2. CASE ~ Pending(c)
      <4>1. PICK s \in Media : Register(s, c)
        BY <2>1, <3>2 DEF Calm, Discover, NoShare
      <4> QED
        BY <4>1 DEF Register, asset
    <3> QED
      BY <3>1, <3>2
  <2>2. ASSUME NEW v \in Version, Promotable(v), Promotes(v) PROVE shell'[c] = "none"
    <3>1. /\ media[v] \in Media
          /\ \A x \in Media \ {media[v]} : replacement'[x] = replacement[x]
      BY <2>2, PromotionFacts
    <3>2. c # media[v]
      BY <1>2, <2>2, PromotionSettles DEF Pending
    <3>3. Pending(c) /\ shell[c] = "none"
      BY <3>1, <3>2 DEF Pending, Candidates
    <3>4. CASE PendingReplacement(v)
      BY <2>0, <2>2, <3>1, <3>2, <3>3, <3>4 DEF Promotes, AssetsTyped
    <3>5. CASE ~ PendingReplacement(v)
      BY <2>0, <2>2, <3>1, <3>2, <3>3, <3>5 DEF Promotes, AssetsTyped
    <3> QED
      BY <3>4, <3>5
  <2> QED
    BY <2>1, <2>2, StepQuiet, StepCalm DEF RInv
<1>3. RInv /\ Candidates => ReplacementFrozen
  BY DEF RInv, Registered, Candidates, ReplacementFrozen, Pending, Src, Undisturbed
<1> QED
  BY <1>1, <1>2, <1>3, ReplacementInvariant, PTL DEF Spec
-----------------------------------------------------------------------------
(* The titles in the index, as long as no replacement fails and no profile
   goes.  A version whose promotion was refused is then refused for good, so
   that only the version at the worker's hands, or the one it held when the
   process died, can become a head. *)

NoProfile == "profile" \notin Paths

(* A revision names the published version it was made from. *)
Revised ==
  \A v \in Version : revision[v] # "none" => base[v] \in Version /\ Published(base[v])

OneWaiting ==
  \A v \in Version : Promotable(v) =>
    /\ indexed[v] = IndexTitle(v)
    /\ up => pc = "promote" /\ v = cur
    /\ \A w \in Version : Promotable(w) => w = v

AtReceipt == pc = "receipt" => indexed[cur] = IndexTitle(cur)

HeadTitled == \A m \in Media : head[m] # None => indexed[head[m]] = title[m]

LInv == profile = TRUE /\ Revised /\ OneWaiting /\ AtReceipt /\ HeadTitled

(* What the steps do to the labels, the revisions and the worker. *)
Orderly ==
  /\ profile' = profile
  /\ \A v \in Version : revision'[v] # "none" =>
       \/ revision[v] # "none" /\ base'[v] = base[v]
       \/ base'[v] \in Version /\ Published(base'[v])
  /\ \/ indexed' = indexed
     \/ Index
  /\ up /\ pc = "promote" /\ Promotable(cur) =>
       \/ up' => pc' = pc /\ cur' = cur
       \/ Promote
  /\ ~ up /\ up' => Boot
  /\ pc' = "receipt" => Index \/ (pc = "receipt" /\ cur' = cur)

LEMMA StepOrderly == ASSUME IInv, NoProfile, [Next]_vars PROVE Orderly
<1>0. RowsTyped /\ AssetsTyped /\ WorkerTyped /\ RestTyped
  BY TypedParts DEF IInv
<1>1. ASSUME UNCHANGED <<profile, indexed, process>>,
             \A v \in Version : revision'[v] # "none" =>
               \/ revision[v] # "none" /\ base'[v] = base[v]
               \/ base'[v] \in Version /\ Published(base'[v])
      PROVE  Orderly
  BY <1>1 DEF process, worker, Orderly
<1>2. ASSUME UNCHANGED <<profile, indexed, process, revision, base>> PROVE Orderly
  BY <1>1, <1>2
<1>3. ASSUME NEW v \in Version, NEW m, NEW b, Insert(v, m, b, "none"),
             UNCHANGED <<profile, indexed, process>>
      PROVE  Orderly
  BY <1>0, <1>1, <1>3 DEF Insert, RowsTyped
<1>4. ASSUME NEW v \in Version, NEW m \in Media, ReviseMetadata(v, m) PROVE Orderly
  <2>1. head[m] \in Version /\ Published(head[m])
    BY <1>0, <1>4 DEF ReviseMetadata, AssetsTyped, IInv, HeadPublished, Published
  <2> QED
    BY <1>0, <1>1, <1>4, <2>1 DEF ReviseMetadata, Insert, RowsTyped
<1>5. ASSUME NEW v \in Version, Reconsider(v) \/ Reject(v) \/ Delete(v) PROVE Orderly
  BY <1>0, <1>1, <1>5 DEF Reconsider, Reject, Delete, RowsTyped
<1>6. ASSUME NEW v \in Version, Begin(v) PROVE Orderly
  <2>1. UNCHANGED <<profile, indexed, up, pc, cur>>
    BY <1>6 DEF Begin, worker
  <2>2. \A w \in Version : revision'[w] # "none" => revision[w] # "none" /\ base'[w] = base[w]
    BY <1>0, <1>6 DEF Begin, RowsTyped
  <2> QED
    BY <2>1, <2>2 DEF Orderly
<1>7. ASSUME NEW v \in Version, Take(v) PROVE Orderly
  BY <1>7 DEF Take, Working, row, Orderly
<1>8. ASSUME Index PROVE Orderly
  BY <1>8 DEF Index, Working, row, Orderly
<1>9. ASSUME Receipt PROVE Orderly
  BY <1>9 DEF Receipt, Working, Orderly
<1>10. ASSUME IndexFails PROVE Orderly
  <2>1. \A w \in Version : revision'[w] # "none" => revision[w] # "none" /\ base'[w] = base[w]
    BY <1>0, <1>10 DEF IndexFails, RowsTyped
  <2> QED
    BY <1>10, <2>1 DEF IndexFails, Finish, Orderly
<1>11. ASSUME NEW v \in Version, Promotes(v)
       PROVE  UNCHANGED <<profile, indexed, up>> /\
              \A w \in Version : revision'[w] # "none" => revision[w] # "none" /\ base'[w] = base[w]
  BY <1>0, <1>11 DEF Promotes, RowsTyped
<1>12. ASSUME Promote PROVE Orderly
  <2>1. cur \in Version
    BY <1>12, HeldFacts DEF Promote, Working
  <2> QED
    BY <1>11, <1>12, <2>1 DEF Promote, Working, Finish, Orderly
<1>13. ASSUME NEW v \in Version, BootPromote(v) PROVE Orderly
  <2>1. UNCHANGED <<up, pc, cur>> /\ ~ up
    BY <1>11, <1>13 DEF BootPromote, worker
  <2> QED
    BY <1>11, <1>13, <2>1 DEF BootPromote, Orderly
<1>14. ASSUME PromoteRefused PROVE Orderly
  BY <1>14 DEF PromoteRefused, Working, Finish, row, Orderly
<1>15. ASSUME Crash PROVE Orderly
  BY <1>15 DEF Crash, row, Orderly
<1>16. ASSUME Boot PROVE Orderly
  BY <1>16 DEF Boot, row, worker, Orderly
<1>17. ASSUME Reconfigure PROVE Orderly
  BY <1>17 DEF Reconfigure, NoProfile
<1>18. ASSUME NEW s \in Media, NEW c \in Media,
              Register(s, c) \/ Discover(s, c) \/ Retry(c) \/ JobFails(c) \/ Archive(c)
              \/ Restore(c)
       PROVE  Orderly
  BY <1>2, <1>18 DEF Register, Discover, Retry, JobFails, Archive, Restore, row
<1>19. ASSUME NEW v \in Version, NEW m \in Media, Transcribed(v, m) PROVE Orderly
  BY <1>3, <1>19 DEF Transcribed
<1>20. ASSUME NEW v \in Version, NEW b \in Version, Edit(v, b) PROVE Orderly
  BY <1>3, <1>20 DEF Edit
<1>21. ASSUME UNCHANGED vars PROVE Orderly
  BY <1>2, <1>21 DEF vars, row
<1> QED
  BY <1>4, <1>5, <1>6, <1>7, <1>8, <1>9, <1>10, <1>12, <1>13, <1>14, <1>15, <1>16, <1>17,
     <1>18, <1>19, <1>20, <1>21
     DEF Next, Request, Worker, Recovery

(* The one thing that depends on the replacement of a version's video. *)
LEMMA ValidFacts ==
  ASSUME IInv, RInv, NEW v \in Version, status[v] = "publishing", PendingReplacement(v)
  PROVE  ReplacementValid(v) <=> shell[media[v]] = "none"
<1>1. media[v] \in Media
  BY TypedParts DEF IInv, RowsTyped, Filled
<1> QED
  BY <1>1 DEF RInv, Registered, Pending, Src, Undisturbed, ReplacementValid, PendingReplacement

(* No step makes a version promotable but the receipt of its index job: what
   was refused once is refused for good. *)
LEMMA RefusedForGood ==
  ASSUME IInv, RInv, LInv, NoRetry, NoProfile, [Next]_vars, RInv', IInv',
         NEW v \in Version, Promotable(v)'
  PROVE  /\ Promotable(v) \/ (Receipt /\ v = cur)
         /\ UNCHANGED <<media[v], revision[v]>>
<1>0. RowsTyped /\ AssetsTyped /\ RestTyped
  BY TypedParts DEF IInv
<1>1. /\ status'[v] = "publishing" /\ job'[v] = "done" /\ profile' = profile /\ profile
      /\ revision'[v] # "none" => head'[media'[v]] = base'[v]
      /\ PendingReplacement(v)' => ReplacementValid(v)'
  BY StepOrderly DEF Promotable, Orderly, LInv
<1>2. ASSUME status[v] = "publishing", media'[v] = media[v], shell'[media[v]] = "none",
             PendingReplacement(v), PendingReplacement(v)',
             shell'[media[v]] = "none" => shell[media[v]] = "none"
      PROVE  ReplacementValid(v)
  BY <1>2, ValidFacts
<1>3. PendingReplacement(v)' => shell'[media'[v]] = "none"
  BY <1>1 DEF ReplacementValid
<1>4. ASSUME Quiet, Calm
      PROVE  /\ Promotable(v) \/ (Receipt /\ v = cur)
             /\ UNCHANGED <<media[v], revision[v]>>
  <2>1. /\ media'[v] = media[v] /\ status[v] = "publishing"
        /\ UNCHANGED <<base[v], revision[v]>>
        /\ job'[v] = job[v] \/ (Receipt /\ v = cur)
    BY <1>1, <1>4 DEF Calm
  <2>2. media[v] \in Media
    BY <1>0, <2>1 DEF RowsTyped, Filled
  <2>3. revision[v] # "none" => head[media[v]] = base[v]
    BY <1>1, <1>4, <2>1 DEF Quiet
  <2>4. PendingReplacement(v) => PendingReplacement(v)'
    BY <1>4, <2>1, <2>2 DEF Calm, Pending, PendingReplacement
  <2>5. PendingReplacement(v) => ReplacementValid(v)
    BY <1>2, <1>3, <1>4, <2>1, <2>2, <2>4 DEF Quiet
  <2> QED
    BY <1>1, <2>1, <2>3, <2>5 DEF Promotable
<1>5. ASSUME NEW w \in Version, Promotable(w), Promotes(w)
      PROVE  Promotable(v) /\ UNCHANGED <<media[v], revision[v]>>
  <2>1. /\ media[w] \in Media /\ media' = media /\ job' = job
        /\ status' = [status EXCEPT ![w] = "published"]
        /\ head'[media[w]] = w
        /\ OldHead(w) # None => OldHead(w) \in Version /\ Published(OldHead(w))
        /\ \A m \in Media : m # media[w] => head'[m] \in {None, head[m]}
        /\ \A m \in Media : (shell[m] = "none")' =>
              m # media[w] /\ (shell[m] = "none" \/ head[m] # None)
        /\ \A m \in Media \ {media[w]} : replacement'[m] = replacement[m]
    BY <1>5, PromotionFacts
  <2>2. v # w /\ status[v] = "publishing" /\ base' = base
    BY <1>0, <1>1, <1>5, <2>1 DEF RowsTyped, Promotes
  <2>3. revision'[v] = revision[v]
    BY <1>0, <1>5, <2>2 DEF RowsTyped, Promotes
  <2>4. media[v] \in Media
    BY <1>0, <2>2 DEF RowsTyped, Filled
  <2>5. revision[v] # "none" => head[media[v]] = base[v]
    <3> SUFFICES ASSUME revision[v] # "none" PROVE head[media[v]] = base[v]
      OBVIOUS
    <3>1. base[v] \in Version /\ Published(base[v]) /\ head'[media[v]] = base[v]
      BY <1>1, <2>1, <2>2, <2>3 DEF LInv, Revised
    <3>2. base[v] # None /\ base[v] # w
      BY <1>5, <3>1 DEF Version, None, Promotable, Published
    <3> QED
      BY <2>1, <2>4, <3>1, <3>2
  <2>6. PendingReplacement(v) => ReplacementValid(v)
    <3> SUFFICES ASSUME PendingReplacement(v) PROVE ReplacementValid(v)
      OBVIOUS
    <3>1. CASE media[v] = media[w]
      BY <1>5, <3>1 DEF Promotable, PendingReplacement, ReplacementValid
    <3>2. CASE media[v] # media[w]
      <4>1. PendingReplacement(v)' /\ head[media[v]] = None
        BY <2>1, <2>4, <3>2 DEF PendingReplacement, RInv, Registered, Pending
      <4>2. shell[media[v]] = "none"
        BY <1>3, <2>1, <2>4, <4>1
      <4> QED
        BY <2>2, <4>2, ValidFacts
    <3> QED
      BY <3>1, <3>2
  <2> QED
    BY <1>1, <2>1, <2>2, <2>3, <2>5, <2>6 DEF Promotable
<1> QED
  BY <1>4, <1>5, StepQuiet, StepCalm DEF RInv

LEMMA LabelStep ==
  ASSUME IInv, RInv, LInv, NoRetry, NoProfile, [Next]_vars, RInv', IInv'
  PROVE  LInv'
<1>0. RowsTyped /\ AssetsTyped /\ RestTyped /\ WorkerTyped /\ Orderly
  BY TypedParts, StepOrderly DEF IInv
<1>1. \A v \in Version : Promotable(v)' =>
        /\ Promotable(v) \/ (Receipt /\ v = cur)
        /\ UNCHANGED <<media[v], revision[v]>>
  BY RefusedForGood
<1>2. profile' = TRUE
  BY <1>0 DEF Orderly, LInv
<1>3. Revised'
  <2>1. \A v \in Version : Published(v) => Published(v)'
    <3>1. CASE Quiet
      BY <3>1 DEF Quiet
    <3>2. ASSUME NEW w \in Version, Promotable(w), Promotes(w)
          PROVE  \A v \in Version : Published(v) => Published(v)'
      BY <1>0, <3>2 DEF Promotes, Published, RowsTyped
    <3> QED
      BY <3>1, <3>2, StepQuiet
  <2>2. ASSUME NEW v \in Version, revision'[v] # "none"
        PROVE  base'[v] \in Version /\ status[base'[v]] = "published"
    BY <1>0, <2>2 DEF Orderly, LInv, Revised, Published
  <2> QED
    BY <2>1, <2>2 DEF Revised, Published
<1>4. ASSUME NEW w \in Version, Promotable(w), Promotes(w)
      PROVE  \A v \in Version : ~ Promotable(v)'
  <2>1. status'[w] = "published" /\ status[w] = "publishing"
    BY <1>0, <1>4 DEF Promotes, Promotable, RowsTyped
  <2>2. ~ Receipt
    BY <2>1 DEF Receipt
  <2>3. \A v \in Version : Promotable(v) => v = w
    BY <1>4 DEF LInv, OneWaiting
  <2> QED
    BY <1>1, <2>1, <2>2, <2>3 DEF Promotable
<1>5. OneWaiting'
  <2> SUFFICES ASSUME NEW v \in Version, Promotable(v)'
               PROVE  /\ indexed'[v] = IndexTitle(v)'
                      /\ up' => pc' = "promote" /\ v = cur'
                      /\ \A w \in Version : Promotable(w)' => w = v
    BY DEF OneWaiting
  <2>1. Quiet /\ Calm
    BY <1>4, StepQuiet, StepCalm DEF RInv
  <2>2. IndexTitle(v)' = IndexTitle(v)
    BY <1>1, <2>1 DEF Calm, IndexTitle
  <2>3. CASE Receipt
    <3>1. pc = "receipt" /\ up /\ indexed' = indexed /\ pc' = "promote" /\ cur' = cur
      BY <2>3 DEF Receipt, Working
    <3>2. \A w \in Version : ~ Promotable(w)
      BY <3>1 DEF LInv, OneWaiting
    <3>3. \A w \in Version : Promotable(w)' => w = cur
      BY <1>1, <3>2
    <3> QED
      BY <2>2, <3>1, <3>3 DEF LInv, AtReceipt
  <2>4. CASE ~ Receipt
    <3>1. /\ Promotable(v) /\ indexed[v] = IndexTitle(v)
          /\ up => pc = "promote" /\ v = cur
          /\ \A w \in Version : Promotable(w)' => w = v
      BY <1>1, <2>4 DEF LInv, OneWaiting
    <3>2. indexed' = indexed
      <4>1. CASE up
        BY <1>0, <3>1, <4>1 DEF Orderly, Index, Working
      <4>2. CASE ~ up
        BY <1>0, <4>2 DEF Orderly, Index, Working
      <4> QED
        BY <4>1, <4>2
    <3>3. ~ Promote
      <4>1. ASSUME Promote PROVE FALSE
        BY <1>4, <4>1, HeldFacts DEF Promote, Working
      <4> QED
        BY <4>1
    <3>4. ~ Boot
      BY <3>1 DEF Boot, Publishing, Promotable
    <3>5. up' => up
      BY <1>0, <3>4 DEF Orderly, WorkerTyped
    <3>6. up' => pc' = "promote" /\ v = cur'
      BY <1>0, <3>1, <3>3, <3>5 DEF Orderly
    <3> QED
      BY <2>2, <3>1, <3>2, <3>6
  <2> QED
    BY <2>3, <2>4
<1>6. AtReceipt'
  <2> SUFFICES ASSUME pc' = "receipt" PROVE indexed'[cur'] = IndexTitle(cur)'
    BY DEF AtReceipt
  <2>1. CASE Index
    <3>1. cur \in Version
      BY <2>1, HeldFacts DEF Index, Working
    <3> QED
      BY <1>0, <2>1, <3>1 DEF Index, row, asset, RestTyped, IndexTitle
  <2>2. CASE ~ Index
    <3>1. pc = "receipt" /\ cur' = cur /\ indexed' = indexed
      BY <1>0, <2>2 DEF Orderly
    <3>2. cur \in Version /\ status[cur] = "publishing" /\ job'[cur] = "active"
          /\ status'[cur] = "publishing"
      <4>1. cur \in Version /\ status[cur] = "publishing"
        BY <3>1, HeldFacts
      <4>2. job'[cur] = "active"
        BY <3>1 DEF IInv, AtWork
      <4> QED
        BY <4>1, <4>2 DEF IInv, PublicationTracked
    <3>3. Quiet /\ Calm
      <4>1. ASSUME NEW w \in Version, Promotable(w), Promotes(w) PROVE FALSE
        BY <3>1, <4>1, <1>0 DEF LInv, OneWaiting, WorkerTyped
      <4> QED
        BY <4>1, StepQuiet, StepCalm DEF RInv
    <3>4. media'[cur] = media[cur] /\ title' = title
      BY <3>2, <3>3 DEF Calm
    <3>5. revision'[cur] = revision[cur]
      BY <3>2, <3>3 DEF Calm
    <3> QED
      BY <3>1, <3>4, <3>5 DEF LInv, AtReceipt, IndexTitle
  <2> QED
    BY <2>1, <2>2
<1>7. HeadTitled'
  <2>1. ASSUME Quiet, Calm, NEW m \in Media, head'[m] # None
        PROVE  indexed'[head'[m]] = title'[m]
    <3>1. head'[m] = head[m] /\ head[m] \in Version /\ status[head[m]] = "published"
          /\ title' = title
      BY <1>0, <2>1 DEF Quiet, Calm, AssetsTyped, IInv, HeadPublished
    <3>2. indexed'[head[m]] = indexed[head[m]]
      <4>1. CASE Index
        <5>1. head[m] # cur
          BY <3>1, <4>1, HeldFacts DEF Index, Working
        <5> QED
          BY <1>0, <3>1, <4>1, <5>1 DEF Index, RestTyped
      <4>2. CASE indexed' = indexed
        BY <4>2
      <4> QED
        BY <1>0, <4>1, <4>2 DEF Orderly
    <3> QED
      BY <2>1, <3>1, <3>2 DEF LInv, HeadTitled
  <2>2. ASSUME NEW v \in Version, Promotable(v), Promotes(v), NEW m \in Media, head'[m] # None
        PROVE  indexed'[head'[m]] = title'[m]
    <3>1. /\ head'[media[v]] = v /\ media[v] \in Media
          /\ \A x \in Media : x # media[v] => head'[x] \in {None, head[x]}
      BY <2>2, PromotionFacts
    <3>2. /\ indexed' = indexed
          /\ title' = [title EXCEPT ![media[v]] = IF revision[v] = "none" THEN @ ELSE v]
      BY <2>2 DEF Promotes
    <3>3. indexed[v] = IndexTitle(v)
      BY <2>2 DEF LInv, OneWaiting
    <3>4. CASE m = media[v]
      BY <1>0, <3>1, <3>2, <3>3, <3>4 DEF AssetsTyped, IndexTitle
    <3>5. CASE m # media[v]
      BY <1>0, <2>2, <3>1, <3>2, <3>5 DEF AssetsTyped, LInv, HeadTitled
    <3> QED
      BY <3>4, <3>5
  <2> QED
    BY <2>1, <2>2, StepQuiet, StepCalm DEF RInv, HeadTitled
<1> QED
  BY <1>2, <1>3, <1>5, <1>6, <1>7 DEF LInv

(* What a video shows is a published version of it whose chunks carry the
   title the video now has, through any interleaving of reviews, metadata
   revisions, replacements, crashes and boots: as long as no replacement fails
   (the promotion of a refused version could then be revived under an old
   title) and the profile of the automatic versions resolves. *)
THEOREM HeadsAreSound == ASSUME NoRetry, NoProfile PROVE Spec => []HeadSound
<1>1. Init => LInv
  <2> SUFFICES ASSUME Init PROVE LInv
    OBVIOUS
  <2>1. profile = TRUE /\ Revised /\ AtReceipt
    BY DEF Init, Revised, AtReceipt
  <2>2. OneWaiting /\ HeadTitled
    BY DEF Init, OneWaiting, Promotable, HeadTitled
  <2> QED
    BY <2>1, <2>2 DEF LInv
<1>2. IInv /\ RInv /\ LInv /\ [Next]_vars /\ IInv' /\ RInv' => LInv'
  BY LabelStep
<1>3. IInv /\ LInv => HeadSound
  BY DEF IInv, HeadPublished, LInv, HeadTitled, HeadSound
<1> QED
  BY <1>1, <1>2, <1>3, ReplacementInvariant, PTL DEF Spec
=============================================================================
