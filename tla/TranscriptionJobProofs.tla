------------------------ MODULE TranscriptionJobProofs ------------------------
(***************************************************************************)
(* Theorems about TranscriptionJob for all sets of videos, keys and        *)
(* request threads and any number of jobs, intents and crashes.  The       *)
(* inductive invariant says, for every position of the consumer, what the  *)
(* job in its hands can have become meanwhile: only a cancellation writes  *)
(* it there.                                                               *)
(***************************************************************************)
EXTENDS TranscriptionJob, FiniteSetTheorems, WellFoundedInduction, TLAPS

Statuses == {"absent", "pending", "running", "succeeded", "failed", "cancelled"}
Publications == {"none", "publishing", "published", "failed"}
IntentStatuses == {"absent", "pending_transcription", "ready_to_publish", "publishing",
                   "published", "failed", "cancelled"}
Positions == {"idle", "open", "prepare", "start", "announce", "provider", "save", "handler",
              "failed", "cancelled", "ready"}
Requests ==
  [op : {"none", "start", "retry", "cancel"}, media : Media \cup {NoMedia},
   key : Key \cup {NoKey}, job : Job \cup {None}, previous : Job \cup {None}]
Intents ==
  [status : IntentStatuses, media : Media \cup {NoMedia}, job : Job \cup {None}]

RowsTyped ==
  /\ status \in [Job -> Statuses]
  /\ media \in [Job -> Media \cup {NoMedia}]
  /\ key \in [Job -> Key \cup {NoKey}]
  /\ prepared \in [Job -> BOOLEAN]
  /\ permanent \in [Job -> BOOLEAN]
  /\ publication \in [Job -> Publications]

(* A row that is there is one of a video and of a key. *)
RowsFilled ==
  \A j \in Job : status[j] # "absent" => media[j] \in Media /\ key[j] \in Key

(* What a request carries at each of its steps. *)
RequestsTyped ==
  /\ request \in [Request -> Requests]
  /\ \A r \in Request :
       /\ request[r].op \in {"none", "cancel"} => request[r].job = None
       /\ request[r].op \in {"start", "retry"} => request[r].key \in Key
       /\ request[r].op # "none" => request[r].media \in Media

IntentsTyped ==
  /\ intent \in [Intent -> Intents]
  /\ \A i \in Intent : intent[i].status # "absent" => intent[i].media \in Media

ConsumerTyped ==
  /\ queue \in Seq(Job)
  /\ pc \in Positions
  /\ cur \in IF pc = "idle" THEN {None} ELSE Job

TypeOK ==
  /\ RowsTyped /\ RowsFilled
  /\ summary \in [Media -> {"uploaded", "failed", "transcribing", "transcript_ready"}]
  /\ IntentsTyped
  /\ mode \in {"up", "off", "stopping", "down"}
  /\ RequestsTyped
  /\ ConsumerTyped
  /\ stranded \subseteq Job
  /\ crashes \in Nat

(* A process that is down has no request and no queue, and without
   transcription it has no job in hand either. *)
Halted ==
  /\ mode = "down" => request = [r \in Request |-> Idle] /\ queue = <<>>
  /\ mode \in {"down", "off"} => pc = "idle"

(* What the job in the consumer's hands can be, at each position. *)
Position ==
  /\ pc = "open" /\ status[cur] = "running" => cur \in stranded
  /\ pc \in {"prepare", "start"} => status[cur] \in {"pending", "cancelled"}
  /\ pc \in {"announce", "provider", "save"} => status[cur] \in {"running", "cancelled"}
  /\ pc \in {"failed", "cancelled", "ready"} => Ended(cur)

IInv == TypeOK /\ Halted /\ Position /\ JobsOwned

(* An intent whose version is or was in publication names that version. *)
Named == \A i \in Intent : intent[i].status \in {"publishing", "published"} => intent[i].job \in Job
-----------------------------------------------------------------------------
(* A set of naturals that is bounded has a greatest element. *)
LEMMA HasGreatest ==
  ASSUME NEW n \in Nat, NEW S \in SUBSET (0 .. n), S # {}
  PROVE  \E x \in S : \A y \in S : y <= x
<1> DEFINE above(k) == {i \in S : i >= k}
           tails == {above(k) : k \in S}
<1>1. tails \subseteq FiniteSubsetsOf(S) /\ tails # {}
  <2>1. IsFiniteSet(0 .. n)
    BY FS_Interval
  <2>2. IsFiniteSet(S)
    BY <2>1, FS_Subset
  <2>3. \A k \in S : above(k) \in SUBSET S /\ IsFiniteSet(above(k))
    <3>1. ASSUME NEW k \in S PROVE IsFiniteSet(above(k))
      <4>1. above(k) \in SUBSET S
        OBVIOUS
      <4> HIDE DEF above
      <4> QED
        BY <2>2, <4>1, FS_Subset
    <3> QED
      BY <3>1
  <2> HIDE DEF above
  <2> QED
    BY <2>3 DEF FiniteSubsetsOf
<1>2. PICK T \in tails : \A U \in tails : ~ (<<U, T>> \in StrictSubsetOrdering(S))
  BY ONLY <1>1, WFMin, FS_StrictSubsetOrderingWellFounded
<1>3. PICK x \in S : T = above(x)
  BY <1>2
<1>4. ASSUME NEW y \in S, ~ (y <= x) PROVE FALSE
  <2>1. above(y) \subseteq above(x) /\ above(y) # above(x)
    <3>1. \A i \in S : i \in Int
      OBVIOUS
    <3>2. x \in above(x) /\ x \notin above(y)
      BY <1>4, <3>1
    <3>3. \A i \in S : i >= y => i >= x
      BY <1>4, <3>1
    <3> QED
      BY <3>2, <3>3
  <2>2. <<above(y), above(x)>> \in StrictSubsetOrdering(S)
    <3> HIDE DEF above
    <3> QED
      BY <2>1 DEF StrictSubsetOrdering, above
  <2> QED
    BY <1>2, <1>3, <1>4, <2>2
<1> QED
  BY <1>4

(* The latest job of a video that has one is one of its jobs. *)
LEMMA LatestFacts ==
  ASSUME NEW m, JobsOf(m) # {}
  PROVE  Latest(m) \in JobsOf(m)
<1>1. JobsOf(m) \in SUBSET (0 .. NJobs)
  BY DEF JobsOf, Job
<1>2. \E j \in JobsOf(m) : \A i \in JobsOf(m) : i <= j
  BY <1>1, HasGreatest, JobAssumption
<1> QED
  BY <1>2 DEF Latest

LEMMA TypeInit == Init => TypeOK
<1> SUFFICES ASSUME Init PROVE TypeOK
  OBVIOUS
<1>1. RowsTyped /\ RowsFilled
  BY DEF Init, RowsTyped, RowsFilled, Statuses, Publications
<1>2. IntentsTyped
  BY DEF Init, IntentsTyped, Intents, NoIntent, IntentStatuses
<1>3. RequestsTyped
  BY DEF Init, RequestsTyped, Requests, Idle
<1>4. ConsumerTyped
  BY DEF Init, ConsumerTyped, Positions
<1> QED
  BY <1>1, <1>2, <1>3, <1>4 DEF Init, TypeOK

(* One part at a time: what leaves its variables alone keeps it. *)
LEMMA PartsKept ==
  ASSUME TypeOK
  PROVE  /\ UNCHANGED row => (RowsTyped /\ RowsFilled)'
         /\ UNCHANGED intent => IntentsTyped'
         /\ UNCHANGED request => RequestsTyped'
         /\ UNCHANGED <<queue, pc, cur>> => ConsumerTyped'
BY DEF TypeOK, row, RowsTyped, RowsFilled, IntentsTyped, RequestsTyped, ConsumerTyped

LEMMA TypeStep == TypeOK /\ [Next]_vars => TypeOK'
<1> SUFFICES ASSUME TypeOK, [Next]_vars PROVE TypeOK'
  OBVIOUS
<1> USE PartsKept DEF worker, process
<1>1. ASSUME NEW r \in Request, NEW m \in Media, NEW k \in Key,
             StartCheck(r, m, k) \/ RetryCheck(r, m, k)
      PROVE  TypeOK'
  <2>1. RequestsTyped'
    <3>1. CASE StartCheck(r, m, k)
      BY <3>1 DEF StartCheck, TypeOK, RequestsTyped, Requests, Idle
    <3>2. CASE RetryCheck(r, m, k)
      <4>1. JobsOf(m) = {} \/ Latest(m) \in Job
        BY LatestFacts DEF JobsOf
      <4> DEFINE prev == IF JobsOf(m) = {} THEN None ELSE Latest(m)
      <4>2. prev \in Job \cup {None}
        BY <4>1
      <4>3. request' = [request EXCEPT ![r] =
              [Idle EXCEPT !.op = "retry", !.media = m, !.key = k, !.previous = prev]]
        BY <3>2 DEF RetryCheck
      <4> HIDE DEF prev
      <4> QED
        BY <4>2, <4>3 DEF TypeOK, RequestsTyped, Requests, Idle
    <3> QED
      BY <1>1, <3>1, <3>2
  <2> QED
    BY <1>1, <2>1 DEF StartCheck, RetryCheck, TypeOK
<1>2. ASSUME NEW r \in Request, NEW j \in Job, Create(r, j) PROVE TypeOK'
  <2>1. (RowsTyped /\ RowsFilled)'
    <3>1. CASE UNCHANGED row
      BY <3>1
    <3>2. CASE Insert(r, j)
      BY <1>2, <3>2 DEF Create, Insert, Keeps, TypeOK, RowsTyped, RowsFilled, Statuses,
                        RequestsTyped, Requests
    <3> QED
      BY <1>2, <3>1, <3>2 DEF Create
  <2>2. RequestsTyped'
    BY <1>2 DEF Create, TypeOK, RequestsTyped, Requests
  <2> QED
    BY <1>2, <2>1, <2>2 DEF Create, TypeOK
<1>3. ASSUME NEW r \in Request, Refused(r) PROVE TypeOK'
  <2>1. RequestsTyped'
    BY <1>3 DEF Refused, TypeOK, RequestsTyped, Requests, Idle
  <2> QED
    BY <1>3, <2>1 DEF Refused, TypeOK
<1>4. ASSUME NEW r \in Request, Enqueue(r) \/ SummaryFails(r) PROVE TypeOK'
  <2>1. RequestsTyped'
    BY <1>4 DEF Enqueue, SummaryFails, TypeOK, RequestsTyped, Requests, Idle
  <2>2. request[r].job \in Job /\ request[r].media \in Media
    BY <1>4 DEF Enqueue, SummaryFails, TypeOK, RequestsTyped, Requests
  <2>3. ConsumerTyped'
    BY <1>4, <2>2, SMTT(60) DEF Enqueue, SummaryFails, TypeOK, ConsumerTyped
  <2> QED
    BY <1>4, <2>1, <2>2, <2>3 DEF Enqueue, SummaryFails, Show, TypeOK
<1>5. ASSUME NEW r \in Request, NEW j \in Job, Cancel(r, j) PROVE TypeOK'
  <2>1. RequestsTyped'
    BY <1>5 DEF Cancel, End, Active, TypeOK, RequestsTyped, Requests, Idle, RowsTyped, RowsFilled
  <2>2. (RowsTyped /\ RowsFilled)'
    BY <1>5 DEF Cancel, End, Active, TypeOK, RowsTyped, RowsFilled, Statuses
  <2> QED
    BY <1>5, <2>1, <2>2 DEF Cancel, TypeOK
<1>6. ASSUME NEW r \in Request, CancelSummary(r) PROVE TypeOK'
  <2>1. RequestsTyped'
    BY <1>6 DEF CancelSummary, TypeOK, RequestsTyped, Requests, Idle
  <2>2. request[r].media \in Media
    BY <1>6 DEF CancelSummary, TypeOK, RequestsTyped, Requests
  <2> QED
    BY <1>6, <2>1, <2>2 DEF CancelSummary, Show, TypeOK
<1>7. ASSUME NEW i \in Intent, NEW m \in Media, CreateIntent(i, m) PROVE TypeOK'
  <2>1. IntentsTyped'
    BY <1>7 DEF CreateIntent, TypeOK, IntentsTyped, Intents, IntentStatuses
  <2> QED
    BY <1>7, <2>1 DEF CreateIntent, TypeOK
<1>8. ASSUME NEW i \in Intent, CancelIntent(i) PROVE TypeOK'
  <2>1. IntentsTyped'
    BY <1>8 DEF CancelIntent, Cancellable, TypeOK, IntentsTyped, Intents, IntentStatuses
  <2>2. (RowsTyped /\ RowsFilled)'
    BY <1>8 DEF CancelIntent, Active, TypeOK, RowsTyped, RowsFilled, Statuses
  <2>3. intent[i].media \in Media
    BY <1>8 DEF CancelIntent, Cancellable, TypeOK, IntentsTyped
  <2> QED
    BY <1>8, <2>1, <2>2, <2>3 DEF CancelIntent, Show, TypeOK
<1>9. ASSUME NEW j \in Job, BeginPublication(j) PROVE TypeOK'
  <2>1. IntentsTyped'
    <3>1. \A i \in Attached(media[j]) : i \in Intent /\ intent[i].media = media[j]
      BY DEF Attached
    <3>2. media[j] \in Media
      BY <1>9 DEF BeginPublication, TypeOK, RowsTyped, RowsFilled
    <3>3. intent' = [i \in Intent |->
             IF i \in Attached(media[j]) THEN [intent[i] EXCEPT !.status = "publishing", !.job = j]
             ELSE intent[i]]
      BY <1>9 DEF BeginPublication
    <3>4. ASSUME NEW i \in Intent PROVE [intent[i] EXCEPT !.status = "publishing", !.job = j] \in Intents
      BY DEF TypeOK, IntentsTyped, Intents, IntentStatuses
    <3> QED
      BY <3>1, <3>2, <3>3, <3>4 DEF TypeOK, IntentsTyped, Intents
  <2>2. (RowsTyped /\ RowsFilled)'
    BY <1>9 DEF BeginPublication, TypeOK, RowsTyped, RowsFilled, Publications
  <2> QED
    BY <1>9, <2>1, <2>2 DEF BeginPublication, TypeOK
<1>10. ASSUME NEW j \in Job, NEW s \in {"published", "failed"}, EndPublication(j, s)
       PROVE  TypeOK'
  <2>1. IntentsTyped'
    BY <1>10 DEF EndPublication, TypeOK, IntentsTyped, Intents, IntentStatuses
  <2>2. (RowsTyped /\ RowsFilled)'
    BY <1>10 DEF EndPublication, TypeOK, RowsTyped, RowsFilled, Publications
  <2> QED
    BY <1>10, <2>1, <2>2 DEF EndPublication, TypeOK
<1>11. ASSUME Worker PROVE TypeOK'
  <2> USE DEF Steady, Goto, Rest
  <2>1. CASE Take
    <3>1. ConsumerTyped'
      BY <2>1 DEF Take, TypeOK, ConsumerTyped, Positions
    <3> QED
      BY <2>1, <3>1 DEF Take, TypeOK
  <2>2. ASSUME pc # "idle", pc' \in Positions, queue' = queue,
               IF pc' = "idle" THEN cur' = None ELSE cur' = cur
        PROVE  ConsumerTyped'
    BY <2>2 DEF TypeOK, ConsumerTyped
  <2>3. ASSUME pc # "idle", End(cur, "failed", TRUE) \/ End(cur, "failed", FALSE)
        PROVE  (RowsTyped /\ RowsFilled)'
    BY <2>3 DEF End, Active, TypeOK, RowsTyped, RowsFilled, ConsumerTyped, Statuses
  <2>4. CASE OpenJob
    BY <2>2, <2>4 DEF OpenJob, TypeOK, Positions
  <2>5. CASE Unusable
    BY <2>2, <2>3, <2>5 DEF Unusable, Fail, TypeOK, Positions
  <2>6. CASE Prepare
    <3>1. (RowsTyped /\ RowsFilled)'
      BY <2>6 DEF Prepare, TypeOK, RowsTyped, RowsFilled, ConsumerTyped
    <3> QED
      BY <2>2, <2>6, <3>1 DEF Prepare, TypeOK, Positions
  <2>7. CASE MarkRunning
    <3>1. (RowsTyped /\ RowsFilled)'
      BY <2>7 DEF MarkRunning, TypeOK, RowsTyped, RowsFilled, ConsumerTyped, Statuses
    <3> QED
      BY <2>2, <2>7, <3>1 DEF MarkRunning, TypeOK, Positions
  <2>8. CASE Announce
    BY <2>2, <2>8 DEF Announce, Show, TypeOK, Positions
  <2>9. CASE Provider
    BY <2>2, <2>3, <2>9 DEF Provider, ProviderSucceeds, ProviderFails, TypeOK, Positions
  <2>10. CASE Save
    <3>1. CASE Succeed
      <4>1. (RowsTyped /\ RowsFilled)'
        BY <2>10, <3>1 DEF Save, Succeed, TypeOK, RowsTyped, RowsFilled, ConsumerTyped, Statuses
      <4>2. IntentsTyped'
        BY <3>1 DEF Succeed, TypeOK, IntentsTyped, Intents, IntentStatuses
      <4> QED
        BY <2>2, <2>10, <3>1, <4>1, <4>2 DEF Save, Succeed, TypeOK, Positions
    <3>2. CASE Rest /\ UNCHANGED <<row, intent>>
      BY <2>2, <2>10, <3>2 DEF Save, TypeOK, Positions
    <3> QED
      BY <2>10, <3>1, <3>2 DEF Save
  <2>11. CASE ArtifactFails
    BY <2>2, <2>3, <2>11 DEF ArtifactFails, TypeOK, Positions
  <2>12. CASE Raise
    BY <2>2, <2>12 DEF Raise, TypeOK, Positions
  <2>13. CASE Handler
    BY <2>2, <2>3, <2>13 DEF Handler, Fail, TypeOK, Positions
  <2>14. CASE Escape
    <3>1. stranded' \subseteq Job
      BY <2>14 DEF Escape, TypeOK, ConsumerTyped
    <3> QED
      BY <2>2, <2>14, <3>1 DEF Escape, TypeOK, Positions
  <2>15. CASE WorkerSummary
    BY <2>2, <2>15 DEF WorkerSummary, Show, TypeOK, Positions
  <2> QED
    BY <1>11, <2>1, <2>4, <2>5, <2>6, <2>7, <2>8, <2>9, <2>10, <2>11, <2>12, <2>13, <2>14,
       <2>15 DEF Worker
<1>12. ASSUME Stop PROVE TypeOK'
  BY <1>12 DEF Stop, TypeOK
<1>13. ASSUME Crash PROVE TypeOK'
  <2>1. RequestsTyped'
    BY <1>13 DEF Crash, Down, RequestsTyped, Requests, Idle
  <2>2. ConsumerTyped'
    BY <1>13 DEF Crash, Down, Rest, ConsumerTyped, Positions
  <2> QED
    BY <1>13, <2>1, <2>2 DEF Crash, Down, TypeOK
<1>14. ASSUME Boot PROVE TypeOK'
  <2>1. (RowsTyped /\ RowsFilled)'
    BY <1>14 DEF Boot, Running, TypeOK, RowsTyped, RowsFilled, Statuses
  <2>2. ConsumerTyped'
    <3>1. Cardinality(Pending) \in Nat
      <4>1. IsFiniteSet(Job)
        BY FS_Interval, JobAssumption DEF Job
      <4>2. Pending \in SUBSET Job
        BY DEF Pending
      <4> QED
        BY <4>1, <4>2, FS_Subset, FS_CardinalityType
    <3>2. queue' \in Seq(Job)
      <4>1. CASE mode' = "up"
        <5>1. queue' \in [1 .. Cardinality(Pending) -> Pending]
          BY <1>14, <4>1 DEF Boot, Orders
        <5>2. queue' \in [1 .. Cardinality(Pending) -> Job]
          BY <5>1 DEF Pending
        <5> QED
          BY <3>1, <5>2
      <4>2. CASE mode' = "off"
        BY <1>14, <4>2 DEF Boot, TypeOK, ConsumerTyped
      <4> QED
        BY <1>14, <4>1, <4>2 DEF Boot
    <3> QED
      BY <1>14, <3>2 DEF Boot, TypeOK, ConsumerTyped
  <2>3. summary' \in [Media -> {"uploaded", "failed", "transcribing", "transcript_ready"}]
    BY <1>14 DEF Boot, TypeOK
  <2> QED
    <3>1. mode' \in {"up", "off"} /\ stranded' \subseteq Job
      BY <1>14 DEF Boot, Pending
    <3>2. UNCHANGED <<intent, request, crashes>>
      BY <1>14 DEF Boot
    <3> QED
      BY <2>1, <2>2, <2>3, <3>1, <3>2 DEF TypeOK
<1>15. CASE UNCHANGED vars
  BY <1>15 DEF vars, TypeOK
<1> QED
  BY <1>1, <1>2, <1>3, <1>4, <1>5, <1>6, <1>7, <1>8, <1>9, <1>10, <1>11, <1>12, <1>13, <1>14,
     <1>15 DEF Next, Serve
-----------------------------------------------------------------------------
(* Rows of jobs: besides the insertion of a new one, a step only moves active
   jobs, to running or to their end. *)
Settles ==
  /\ UNCHANGED <<media, key>>
  /\ \A j \in Job : /\ status'[j] = "absent" <=> status[j] = "absent"
                    /\ Active(j)' => Active(j)
                    /\ Ended(j) => status'[j] = status[j]

LEMMA RowsStep ==
  ASSUME TypeOK, Position, [Next]_vars
  PROVE  Settles \/ \E r \in Request, j \in Job : Create(r, j) /\ Insert(r, j)
<1> SUFFICES ASSUME ~ \E r \in Request, j \in Job : Create(r, j) /\ Insert(r, j)
             PROVE  Settles
  OBVIOUS
<1>1. ASSUME UNCHANGED row PROVE Settles
  BY <1>1 DEF row, Settles, Active, Ended
<1>2. ASSUME NEW j \in Job, NEW s \in {"cancelled", "failed"}, NEW lasting, End(j, s, lasting)
      PROVE  Settles
  BY <1>2 DEF End, Settles, Active, Ended, TypeOK, RowsTyped
<1>3. ASSUME NEW r \in Request, Serve(r) PROVE Settles
  BY <1>1, <1>3 DEF Serve, Create, Refused, Enqueue, SummaryFails, CancelSummary
<1>4. ASSUME NEW r \in Request, NEW m \in Media, NEW k \in Key,
             StartCheck(r, m, k) \/ RetryCheck(r, m, k)
      PROVE  Settles
  BY <1>1, <1>4 DEF StartCheck, RetryCheck
<1>5. ASSUME NEW r \in Request, NEW j \in Job, Cancel(r, j) PROVE Settles
  BY <1>2, <1>5 DEF Cancel
<1>6. ASSUME NEW i \in Intent, CancelIntent(i) PROVE Settles
  BY <1>6 DEF CancelIntent, Settles, Active, Ended, TypeOK, RowsTyped
<1>7. ASSUME NEW i \in Intent, NEW m \in Media, CreateIntent(i, m) PROVE Settles
  BY <1>1, <1>7 DEF CreateIntent
<1>8. ASSUME NEW j \in Job,
             BeginPublication(j) \/ \E s \in {"published", "failed"} : EndPublication(j, s)
      PROVE  Settles
  BY <1>8 DEF BeginPublication, EndPublication, Settles, Active, Ended
<1>9. ASSUME Worker PROVE Settles
  <2>1. pc # "idle" => cur \in Job
    BY DEF TypeOK, ConsumerTyped
  <2>2. ASSUME pc # "idle", \E lasting \in BOOLEAN : End(cur, "failed", lasting) PROVE Settles
    BY <1>2, <2>1, <2>2
  <2>3. CASE Take \/ OpenJob \/ Announce \/ ProviderSucceeds \/ Raise \/ Escape \/ WorkerSummary
    BY <1>1, <2>3 DEF Take, OpenJob, Announce, ProviderSucceeds, Raise, Escape, WorkerSummary
  <2>4. CASE Unusable \/ Handler \/ ArtifactFails \/ \E lasting \in BOOLEAN : ProviderFails(lasting)
    BY <1>1, <2>2, <2>4 DEF Unusable, Handler, Fail, ArtifactFails, ProviderFails
  <2>5. CASE Prepare
    BY <2>5 DEF Prepare, Settles, Active, Ended
  <2>6. CASE MarkRunning
    BY <2>1, <2>6 DEF MarkRunning, Settles, Active, Ended, TypeOK, RowsTyped
  <2>7. CASE Save
    BY <1>1, <2>1, <2>7 DEF Save, Succeed, Settles, Active, Ended, TypeOK, RowsTyped
  <2> QED
    BY <1>9, <2>3, <2>4, <2>5, <2>6, <2>7 DEF Worker, Provider
<1>10. CASE Stop \/ Crash
  BY <1>1, <1>10 DEF Stop, Crash, Down
<1>11. CASE Boot
  BY <1>11 DEF Boot, Running, Settles, Active, Ended
<1>12. CASE UNCHANGED vars
  BY <1>1, <1>12 DEF vars
<1> QED
  BY <1>3, <1>4, <1>5, <1>6, <1>7, <1>8, <1>9, <1>10, <1>11, <1>12 DEF Next

(* What an insertion does to the rows. *)
LEMMA InsertFacts ==
  ASSUME TypeOK, NEW r \in Request, NEW j \in Job, Create(r, j), Insert(r, j)
  PROVE  /\ status[j] = "absent" /\ status' = [status EXCEPT ![j] = "pending"]
         /\ media' = [media EXCEPT ![j] = request[r].media]
         /\ key' = [key EXCEPT ![j] = request[r].key]
         /\ ~ Busy(request[r].media)
         /\ \A i \in Job : status[i] # "absent" => key[i] # request[r].key
         /\ request' = [request EXCEPT ![r].job = j]
<1>1. status[j] = "absent"
  BY JobAssumption DEF Insert, Fresh, Job
<1>2. status' # status
  BY <1>1 DEF Insert, TypeOK, RowsTyped
<1> QED
  BY <1>1, <1>2 DEF Insert, Create, Used, row
-----------------------------------------------------------------------------
(* A process that is down serves nobody: every step but the boot leaves it.
   One without transcription has no consumer. *)
LEMMA HaltedStep == TypeOK /\ Halted /\ [Next]_vars => Halted'
<1> SUFFICES ASSUME TypeOK, Halted, [Next]_vars PROVE Halted'
  OBVIOUS
<1> USE DEF Serving
<1>0. mode \in {"down", "off"} => ~ Worker
  BY DEF Halted, Worker, Take, OpenJob, Unusable, Prepare, MarkRunning, Announce, Provider,
     ProviderSucceeds, ProviderFails, Save, ArtifactFails, Raise, Handler, Escape, WorkerSummary
<1>1. CASE mode = "down" /\ ~ Boot
  <2>1. request = [r \in Request |-> Idle]
    BY <1>1 DEF Halted
  <2>2. ~ \E r \in Request : Serve(r)
    BY <2>1 DEF Serve, Create, Refused, Enqueue, SummaryFails, CancelSummary, Idle
  <2>3. UNCHANGED vars
    BY <1>0, <1>1, <2>2 DEF Next, StartCheck, RetryCheck, Cancel, CancelIntent, CreateIntent,
       BeginPublication, EndPublication, Stop, Crash
  <2> QED
    BY <2>3 DEF vars, process, worker, Halted
<1>2. CASE Boot
  BY <1>2 DEF Boot, worker, Halted
<1>3. CASE Crash
  BY <1>3 DEF Crash, Down, Rest, Halted
<1>4. CASE Stop
  BY <1>4 DEF Stop, Halted
<1>5. ASSUME mode' = mode, mode # "down", mode = "off" => pc' = pc PROVE Halted'
  BY <1>5 DEF Halted
<1>6. CASE mode # "down" /\ \E r \in Request : Serve(r)
  BY <1>5, <1>6 DEF Serve, Create, Refused, Enqueue, SummaryFails, CancelSummary, worker
<1>7. CASE mode # "down" /\ \E r \in Request, m \in Media, k \in Key :
                              StartCheck(r, m, k) \/ RetryCheck(r, m, k)
  BY <1>5, <1>7 DEF StartCheck, RetryCheck, worker
<1>8. CASE mode # "down" /\ \E r \in Request, j \in Job : Cancel(r, j)
  BY <1>5, <1>8 DEF Cancel, worker
<1>9. CASE /\ mode # "down"
           /\ \/ \E i \in Intent : CancelIntent(i) \/ (\E m \in Media : CreateIntent(i, m))
              \/ \E j \in Job : BeginPublication(j)
              \/ \E j \in Job, s \in {"published", "failed"} : EndPublication(j, s)
  BY <1>5, <1>9 DEF CancelIntent, CreateIntent, BeginPublication, EndPublication, process, worker
<1>10. CASE mode # "down" /\ Worker
  <2>1. mode' = mode
    BY <1>10 DEF Worker, Take, OpenJob, Unusable, Prepare, MarkRunning, Announce, Provider,
       ProviderSucceeds, ProviderFails, Save, ArtifactFails, Raise, Handler, Escape, WorkerSummary,
       Steady
  <2> QED
    BY <1>0, <1>5, <1>10, <2>1
<1>11. CASE UNCHANGED vars
  BY <1>11 DEF vars, process, worker, Halted
<1> QED
  BY <1>1, <1>2, <1>3, <1>4, <1>6, <1>7, <1>8, <1>9, <1>10, <1>11 DEF Next

(* Beside the consumer, the job in its hands is cancelled at most. *)
LEMMA PositionKept ==
  ASSUME TypeOK, Position, UNCHANGED <<pc, cur>>, stranded \subseteq stranded',
         \A j \in Job : \/ status'[j] = status[j]
                        \/ Active(j) /\ status'[j] = "cancelled"
                        \/ status[j] = "absent" /\ status'[j] = "pending"
  PROVE  Position'
<1>1. CASE pc = "idle"
  BY <1>1 DEF Position
<1>2. CASE pc # "idle"
  <2>1. cur \in Job
    BY <1>2 DEF TypeOK, ConsumerTyped
  <2> QED
    BY <2>1 DEF Position, Active, Ended
<1> QED
  BY <1>1, <1>2

LEMMA PositionStep == TypeOK /\ Halted /\ Position /\ JobsOwned /\ [Next]_vars => Position'
<1> SUFFICES ASSUME TypeOK, Halted, Position, JobsOwned, [Next]_vars PROVE Position'
  OBVIOUS
<1> USE PositionKept DEF worker, process, Serving
<1>1. ASSUME UNCHANGED <<row, pc, cur, stranded>> PROVE Position'
  BY <1>1 DEF row
<1>2. ASSUME NEW r \in Request, Serve(r) PROVE Position'
  <2>1. CASE SummaryFails(r)
    BY <2>1 DEF SummaryFails, row
  <2>2. CASE \E j \in Job : Create(r, j)
    <3>1. PICK j \in Job : Create(r, j)
      BY <2>2
    <3>2. CASE Insert(r, j)
      BY <3>1, <3>2, InsertFacts DEF Create, TypeOK, RowsTyped
    <3> QED
      BY <1>1, <3>1, <3>2 DEF Create
  <2>3. CASE Refused(r) \/ Enqueue(r) \/ CancelSummary(r)
    BY <1>1, <2>3 DEF Refused, Enqueue, CancelSummary
  <2> QED
    BY <1>2, <2>1, <2>2, <2>3 DEF Serve
<1>3. ASSUME NEW r \in Request, NEW m \in Media, NEW k \in Key,
             StartCheck(r, m, k) \/ RetryCheck(r, m, k)
      PROVE  Position'
  BY <1>1, <1>3 DEF StartCheck, RetryCheck
<1>4. ASSUME NEW r \in Request, NEW j \in Job, Cancel(r, j) PROVE Position'
  BY <1>4 DEF Cancel, End, TypeOK, RowsTyped
<1>5. ASSUME NEW i \in Intent, CancelIntent(i) PROVE Position'
  BY <1>5 DEF CancelIntent
<1>6. ASSUME NEW i \in Intent, NEW m \in Media, CreateIntent(i, m) PROVE Position'
  BY <1>1, <1>6 DEF CreateIntent
<1>7. ASSUME NEW j \in Job,
             BeginPublication(j) \/ \E s \in {"published", "failed"} : EndPublication(j, s)
      PROVE  Position'
  BY <1>7 DEF BeginPublication, EndPublication
<1>8. ASSUME Worker PROVE Position'
  <2> USE DEF Goto, Rest, Steady, Active, Ended
  <2>1. pc # "idle" => cur \in Job /\ status[cur] \in Statuses
    BY DEF TypeOK, ConsumerTyped, RowsTyped
  <2>2. CASE Take
    <3>1. Head(queue) \in Job /\ cur = None /\ mode = "up"
      BY <2>2 DEF Take, TypeOK, ConsumerTyped
    <3>2. status[Head(queue)] = "running" => Head(queue) \in stranded
      BY <3>1 DEF JobsOwned, None, Job
    <3> QED
      BY <2>2, <3>1, <3>2 DEF Take, Position, row
  <2>3. CASE OpenJob
    BY <2>1, <2>3 DEF OpenJob, Position, row
  <2>4. CASE Unusable
    BY <2>1, <2>4 DEF Unusable, Fail, End, Position, TypeOK, RowsTyped
  <2>5. CASE Prepare
    BY <2>1, <2>5 DEF Prepare, Position
  <2>6. CASE MarkRunning
    BY <2>1, <2>6 DEF MarkRunning, Position, TypeOK, RowsTyped
  <2>7. CASE Announce
    BY <2>1, <2>7 DEF Announce, Position, row
  <2>8. CASE ProviderSucceeds
    BY <2>1, <2>8 DEF ProviderSucceeds, Position, row
  <2>9. CASE \E lasting \in BOOLEAN : ProviderFails(lasting)
    BY <2>1, <2>9 DEF ProviderFails, End, Position, row, TypeOK, RowsTyped
  <2>10. CASE Save
    BY <2>1, <2>10 DEF Save, Succeed, Position, TypeOK, RowsTyped
  <2>11. CASE ArtifactFails \/ Escape \/ WorkerSummary
    BY <2>11 DEF ArtifactFails, Escape, WorkerSummary, Position
  <2>12. CASE Raise
    BY <2>12 DEF Raise, Position
  <2>13. CASE Handler
    BY <2>1, <2>13 DEF Handler, Fail, End, Position, TypeOK, RowsTyped
  <2> QED
    BY <1>8, <2>2, <2>3, <2>4, <2>5, <2>6, <2>7, <2>8, <2>9, <2>10, <2>11, <2>12, <2>13
       DEF Worker, Provider
<1>9. CASE Stop
  BY <1>1, <1>9 DEF Stop
<1>10. CASE Crash
  BY <1>10 DEF Crash, Down, Rest, Position
<1>11. CASE Boot
  BY <1>11 DEF Boot, Halted, Position
<1>12. CASE UNCHANGED vars
  BY <1>1, <1>12 DEF vars
<1> QED
  BY <1>2, <1>3, <1>4, <1>5, <1>6, <1>7, <1>8, <1>9, <1>10, <1>11, <1>12 DEF Next
-----------------------------------------------------------------------------
(* The two halves of JobsOwned. *)
Kept(j) == Queued(j) \/ Carried(j) \/ cur = j

Owned ==
  Serving => \A j \in Job \ stranded : /\ status[j] = "pending" => Kept(j)
                                       /\ status[j] = "running" => cur = j

Distinct ==
  \A i, j \in Job : i # j /\ status[i] # "absent" /\ status[j] # "absent" =>
    key[i] # key[j] /\ ~ (Active(i) /\ Active(j) /\ media[i] = media[j])

LEMMA Halves == JobsOwned <=> Owned /\ Distinct
  BY DEF JobsOwned, Owned, Distinct, Kept

LEMMA DistinctStep == TypeOK /\ Position /\ Distinct /\ [Next]_vars => Distinct'
<1> SUFFICES ASSUME TypeOK, Position, Distinct, [Next]_vars PROVE Distinct'
  OBVIOUS
<1>1. CASE Settles
  BY <1>1 DEF Settles, Distinct
<1>2. ASSUME NEW r \in Request, NEW k \in Job, Create(r, k), Insert(r, k) PROVE Distinct'
  <2>1. /\ status[k] = "absent" /\ status' = [status EXCEPT ![k] = "pending"]
        /\ media' = [media EXCEPT ![k] = request[r].media]
        /\ key' = [key EXCEPT ![k] = request[r].key]
        /\ ~ Busy(request[r].media)
        /\ \A i \in Job : status[i] # "absent" => key[i] # request[r].key
    BY <1>2, InsertFacts
  <2>2. \A i \in Job : status[i] # "absent" /\ media[i] = request[r].media => ~ Active(i)
    BY <2>1 DEF Busy, JobsOf
  <2>3. \A i \in Job \ {k} : /\ status'[i] = status[i] /\ media'[i] = media[i] /\ key'[i] = key[i]
                             /\ Active(i)' = Active(i)
    BY <2>1 DEF Active, TypeOK, RowsTyped
  <2>4. media'[k] = request[r].media /\ key'[k] = request[r].key
    BY <2>1 DEF TypeOK, RowsTyped
  <2>5. ASSUME NEW i \in Job \ {k}, status[i] # "absent"
        PROVE  key'[i] # key'[k] /\ ~ (Active(i)' /\ media'[i] = media'[k])
    BY <2>1, <2>2, <2>3, <2>4, <2>5
  <2> QED
    BY <2>3, <2>5 DEF Distinct
<1> QED
  BY <1>1, <1>2, RowsStep

(* A sequence holds an element appended to it and what it held before; its
   tail holds all it held but the head. *)
LEMMA QueueFacts ==
  ASSUME NEW q \in Seq(Job), NEW j \in Job
  PROVE  /\ \A i \in Job : (\E n \in DOMAIN q : q[n] = i) \/ i = j =>
              \E n \in DOMAIN Append(q, j) : Append(q, j)[n] = i
         /\ q # <<>> => \A i \in Job : (\E n \in DOMAIN q : q[n] = i) =>
              i = Head(q) \/ \E n \in DOMAIN Tail(q) : Tail(q)[n] = i
<1>1. ASSUME NEW i \in Job, (\E n \in DOMAIN q : q[n] = i) \/ i = j
      PROVE  \E n \in DOMAIN Append(q, j) : Append(q, j)[n] = i
  <2>1. CASE i = j
    <3>1. Len(q) + 1 \in DOMAIN Append(q, j) /\ Append(q, j)[Len(q) + 1] = i
      BY <2>1
    <3> QED
      BY <3>1
  <2>2. ASSUME NEW n \in DOMAIN q, q[n] = i PROVE \E k \in DOMAIN Append(q, j) : Append(q, j)[k] = i
    <3>1. n \in DOMAIN Append(q, j) /\ Append(q, j)[n] = i
      BY <2>2
    <3> QED
      BY <3>1
  <2> QED
    BY <1>1, <2>1, <2>2
<1>2. ASSUME q # <<>>, NEW n \in DOMAIN q, q[n] # Head(q)
      PROVE  \E k \in DOMAIN Tail(q) : Tail(q)[k] = q[n]
  <2>1. n # 1 /\ n \in 1 .. Len(q)
    BY <1>2
  <2>2. n - 1 \in DOMAIN Tail(q) /\ Tail(q)[n - 1] = q[n]
    BY <1>2, <2>1
  <2> QED
    BY <2>2
<1> QED
  BY <1>1, <1>2

(* After a boot with transcription every pending job is in the queue. *)
LEMMA BootQueues ==
  ASSUME TypeOK, Boot, mode' = "up", NEW j \in Job, status[j] = "pending"
  PROVE  \E n \in DOMAIN queue' : queue'[n] = j
<1>1. IsFiniteSet(Pending)
  <2>1. IsFiniteSet(Job)
    BY FS_Interval, JobAssumption DEF Job
  <2>2. Pending \in SUBSET Job
    BY DEF Pending
  <2> QED
    BY <2>1, <2>2, FS_Subset
<1> DEFINE places == 1 .. Cardinality(Pending)
<1>2. IsFiniteSet(places) /\ Cardinality(places) = Cardinality(Pending)
  <2>1. Cardinality(Pending) \in Nat
    BY <1>1, FS_CardinalityType
  <2> QED
    BY <2>1, FS_Interval
<1>3. queue' \in Injection(places, Pending)
  <2>1. queue' \in [places -> Pending]
    BY DEF Boot, Orders
  <2>2. \A a, b \in places : queue'[a] = queue'[b] => a = b
    BY <2>1 DEF Boot, Orders
  <2> QED
    BY <2>1, <2>2 DEF Injection, IsInjective
<1>4. queue' \in Surjection(places, Pending)
  BY <1>1, <1>2, <1>3, FS_Injection
<1> QED
  BY <1>4 DEF Surjection, Pending
(* Nobody loses a job where every job stays what it was or ends, and who kept
   a pending one keeps it. *)
LEMMA OwnedKept ==
  ASSUME Owned, (Serving' => Serving), stranded \subseteq stranded', UNCHANGED cur,
         \A j \in Job : /\ status'[j] \in {"pending", "running"} => status'[j] = status[j]
                        /\ status[j] = "pending" => \/ Queued(j) => Kept(j)'
                                                    \/ j \in stranded'
                        /\ status[j] = "pending" => \/ Carried(j) => Kept(j)'
                                                    \/ j \in stranded'
  PROVE  Owned'
<1> SUFFICES ASSUME Serving', NEW j \in Job \ stranded'
             PROVE  /\ status'[j] = "pending" => Kept(j)'
                    /\ status'[j] = "running" => cur' = j
  BY DEF Owned
<1> QED
  BY DEF Owned, Kept, Serving

LEMMA OwnedStep == TypeOK /\ Halted /\ Position /\ Owned /\ [Next]_vars => Owned'
<1> SUFFICES ASSUME TypeOK, Halted, Position, Owned, [Next]_vars PROVE Owned'
  OBVIOUS
<1> USE DEF worker, process, Serving
<1>1. ASSUME UNCHANGED <<row, request, queue, mode, cur, stranded>> PROVE Owned'
  BY <1>1 DEF row, Owned, Kept, Queued, Carried
<1>2. ASSUME NEW r \in Request, request[r] = Idle, \A k \in Request \ {r} : request'[k] = request[k],
             NEW j \in Job
      PROVE  Carried(j) => Carried(j)'
  BY <1>2 DEF Carried, Idle, None, Job
<1>3. ASSUME NEW r \in Request, NEW m \in Media, NEW k \in Key,
             StartCheck(r, m, k) \/ RetryCheck(r, m, k)
      PROVE  Owned'
  <2>1. request[r] = Idle /\ \A q \in Request \ {r} : request'[q] = request[q]
    BY <1>3 DEF StartCheck, RetryCheck, TypeOK, RequestsTyped
  <2>2. \A j \in Job : Queued(j)' = Queued(j)
    BY <1>3 DEF StartCheck, RetryCheck, Queued
  <2> QED
    BY <1>2, <1>3, <2>1, <2>2, OwnedKept DEF StartCheck, RetryCheck, row, Kept
<1>4. ASSUME NEW r \in Request, NEW k \in Job, Cancel(r, k) PROVE Owned'
  <2>1. request[r] = Idle /\ \A q \in Request \ {r} : request'[q] = request[q]
    BY <1>4 DEF Cancel, TypeOK, RequestsTyped
  <2>2. \A j \in Job : Queued(j)' = Queued(j)
    BY <1>4 DEF Cancel, Queued
  <2>3. status' = [status EXCEPT ![k] = "cancelled"]
    BY <1>4 DEF Cancel, End
  <2> QED
    BY <1>2, <1>4, <2>1, <2>2, <2>3, OwnedKept DEF Cancel, Kept, TypeOK, RowsTyped
<1>5. ASSUME NEW r \in Request, Serve(r) PROVE Owned'
  <2>1. CASE \E j \in Job : Create(r, j)
    <3>1. PICK j \in Job : Create(r, j)
      BY <2>1
    <3>2. /\ request[r].job = None /\ request' = [request EXCEPT ![r].job = j]
          /\ UNCHANGED <<queue, mode, cur, stranded>>
      BY <3>1 DEF Create
    <3>3. \A q \in Request : request[q].job # None => request'[q].job = request[q].job
      BY <3>2 DEF TypeOK, RequestsTyped
    <3>4. request'[r].job = j
      BY <3>2 DEF TypeOK, RequestsTyped, Requests
    <3>5. \A i \in Job : (Kept(i) => Kept(i)') /\ (i = j => Kept(i)')
      BY <3>2, <3>3, <3>4 DEF Kept, Queued, Carried, None, Job
    <3>6. \A i \in Job : i # j => status'[i] = status[i]
      BY <3>1 DEF Create, Insert, row, TypeOK, RowsTyped
    <3>7. status'[j] = "running" => status[j] = "running"
      BY <3>1 DEF Create, Insert, row, TypeOK, RowsTyped
    <3> QED
      BY <3>2, <3>5, <3>6, <3>7 DEF Owned
  <2>2. CASE Refused(r)
    <3>1. \A j \in Job : (Carried(j) => Carried(j)') /\ Queued(j)' = Queued(j)
      BY <2>2 DEF Refused, Carried, Queued, TypeOK, RequestsTyped, None, Job
    <3> QED
      BY <2>2, <3>1, OwnedKept DEF Refused, row, Kept
  <2>3. CASE CancelSummary(r)
    <3>1. \A j \in Job : (Carried(j) => Carried(j)') /\ Queued(j)' = Queued(j)
      BY <2>3 DEF CancelSummary, Carried, Queued, TypeOK, RequestsTyped, None, Job
    <3> QED
      BY <2>3, <3>1, OwnedKept DEF CancelSummary, row, Kept
  <2>4. CASE Enqueue(r) \/ SummaryFails(r)
    <3>1. request[r].job \in Job /\ queue \in Seq(Job)
      BY <2>4 DEF Enqueue, SummaryFails, TypeOK, RequestsTyped, Requests, ConsumerTyped
    <3>2. \/ queue' = Append(queue, request[r].job) /\ stranded' = stranded
          \/ queue' = queue /\ stranded' = stranded \cup {request[r].job}
      BY <2>4 DEF Enqueue, SummaryFails
    <3> DEFINE k == request[r].job
    <3>3. \A j \in Job : Queued(j) => Queued(j)'
      <4>1. CASE queue' = Append(queue, k)
        <5>1. \A i \in Job : (\E n \in DOMAIN queue : queue[n] = i) =>
                \E n \in DOMAIN Append(queue, k) : Append(queue, k)[n] = i
          BY <3>1, QueueFacts
        <5> QED
          BY <4>1, <5>1 DEF Queued
      <4> QED
        BY <3>2, <4>1 DEF Queued
    <3>4. (\E n \in DOMAIN queue' : queue'[n] = k) \/ k \in stranded'
      <4>1. CASE queue' = Append(queue, k)
        <5>1. \E n \in DOMAIN Append(queue, k) : Append(queue, k)[n] = k
          BY <3>1, QueueFacts
        <5> QED
          BY <4>1, <5>1
      <4> QED
        BY <3>2, <4>1
    <3>5. \A q \in Request \ {r} : request'[q] = request[q]
      BY <2>4 DEF Enqueue, SummaryFails, TypeOK, RequestsTyped
    <3>6. ASSUME NEW j \in Job, Carried(j) PROVE Carried(j)' \/ Queued(j)' \/ j \in stranded'
      <4>1. PICK q \in Request : request[q].job = j
        BY <3>6 DEF Carried
      <4>2. CASE q = r
        BY <3>4, <4>1, <4>2 DEF Queued
      <4>3. CASE q # r
        BY <3>5, <4>1, <4>3 DEF Carried
      <4> QED
        BY <4>2, <4>3
    <3>7. UNCHANGED <<row, mode, cur>> /\ stranded \subseteq stranded'
      BY <2>4, <3>2 DEF Enqueue, SummaryFails
    <3> QED
      BY <3>3, <3>6, <3>7, OwnedKept DEF row, Kept
  <2> QED
    BY <1>5, <2>1, <2>2, <2>3, <2>4 DEF Serve
<1>6. ASSUME NEW i \in Intent, CancelIntent(i) PROVE Owned'
  <2>1. \A j \in Job : Kept(j)' = Kept(j)
    BY <1>6 DEF CancelIntent, Kept, Queued, Carried
  <2> QED
    BY <1>6, <2>1, OwnedKept DEF CancelIntent, Kept
<1>7. ASSUME NEW i \in Intent, NEW m \in Media, CreateIntent(i, m) PROVE Owned'
  BY <1>1, <1>7 DEF CreateIntent
<1>8. ASSUME NEW j \in Job,
             BeginPublication(j) \/ \E s \in {"published", "failed"} : EndPublication(j, s)
      PROVE  Owned'
  <2>1. UNCHANGED <<status, request, queue, mode, cur, stranded>>
    BY <1>8 DEF BeginPublication, EndPublication
  <2> QED
    BY <2>1 DEF Owned, Kept, Queued, Carried
<1>9. ASSUME Worker PROVE Owned'
  <2> USE DEF Goto, Rest, Steady
  <2>1. /\ cur \in IF pc = "idle" THEN {None} ELSE Job
        /\ status \in [Job -> Statuses] /\ queue \in Seq(Job)
    BY DEF TypeOK, ConsumerTyped, RowsTyped
  <2>2. CASE Take
    <3>1. cur = None /\ cur' = Head(queue) /\ queue' = Tail(queue) /\ queue # <<>>
      BY <2>1, <2>2 DEF Take
    <3>2. \A j \in Job : Kept(j) => Kept(j)'
      BY <2>1, <2>2, <3>1, QueueFacts DEF Take, Kept, Queued, Carried, None, Job
    <3> QED
      BY <2>2, <3>1, <3>2 DEF Take, Owned, row, None, Job
  <2>3. ASSUME pc # "idle", UNCHANGED <<mode, request, queue>>, stranded \subseteq stranded',
               \A j \in Job \ {cur} : status'[j] = status[j],
               cur' = cur \/ cur \in stranded' \/ status'[cur] \notin {"pending", "running"},
               status'[cur] = "running" => cur' = cur \/ cur \in stranded'
        PROVE  Owned'
    <3>1. \A j \in Job \ {cur} : Kept(j) => Kept(j)'
      BY <2>3 DEF Kept, Queued, Carried
    <3>2. cur' = cur => Kept(cur)'
      BY DEF Kept
    <3> QED
      BY <2>1, <2>3, <3>1, <3>2 DEF Owned
  <2>4. CASE OpenJob
    BY <2>1, <2>3, <2>4 DEF OpenJob, row, Position, Statuses
  <2>5. CASE Unusable
    BY <2>1, <2>3, <2>5 DEF Unusable, Fail, End, row, Active
  <2>6. CASE Prepare
    BY <2>1, <2>3, <2>6 DEF Prepare
  <2>7. CASE MarkRunning
    BY <2>1, <2>3, <2>7 DEF MarkRunning
  <2>8. CASE Announce
    BY <2>3, <2>8 DEF Announce, row
  <2>9. CASE ProviderSucceeds /\ ~ (status[cur] = "running" /\ mode = "stopping")
    BY <2>3, <2>9 DEF ProviderSucceeds, row
  <2>10. CASE ProviderSucceeds /\ status[cur] = "running" /\ mode = "stopping"
    BY <2>10 DEF ProviderSucceeds, Owned
  <2>11. CASE \E lasting \in BOOLEAN : ProviderFails(lasting)
    BY <2>1, <2>3, <2>11 DEF ProviderFails, End, row
  <2>12. CASE Save /\ mode = "up"
    BY <2>1, <2>3, <2>12 DEF Save, Succeed, row, Position
  <2>13. CASE Save /\ mode # "up"
    BY <2>13 DEF Save, Halted, Owned, TypeOK
  <2>14. CASE ArtifactFails
    BY <2>1, <2>3, <2>14 DEF ArtifactFails, End, row, Position
  <2>15. CASE Raise
    BY <2>3, <2>15 DEF Raise, row
  <2>16. CASE Handler
    BY <2>1, <2>3, <2>16 DEF Handler, Fail, End, row, Active
  <2>17. CASE Escape
    BY <2>3, <2>17 DEF Escape, row, Active
  <2>18. CASE WorkerSummary
    BY <2>3, <2>18 DEF WorkerSummary, row, Position, Ended
  <2> QED
    BY <1>9, <2>2, <2>4, <2>5, <2>6, <2>7, <2>8, <2>9, <2>10, <2>11, <2>12, <2>13, <2>14, <2>15,
       <2>16, <2>17, <2>18 DEF Worker, Provider
<1>10. CASE Stop \/ Crash
  BY <1>10 DEF Stop, Crash, Down, Owned
<1>11. CASE Boot
  <2>1. \A j \in Job : status'[j] # "running" /\ (status'[j] = "pending" => status[j] = "pending")
    BY <1>11 DEF Boot, Running
  <2>2. CASE mode' = "up"
    BY <1>11, <2>1, <2>2, BootQueues DEF Owned, Kept, Queued
  <2>3. CASE mode' = "off"
    <3>1. stranded' = Pending
      BY <1>11, <2>3 DEF Boot
    <3> QED
      BY <2>1, <3>1 DEF Owned, Pending
  <2> QED
    BY <1>11, <2>2, <2>3 DEF Boot
<1>12. CASE UNCHANGED vars
  BY <1>1, <1>12 DEF vars
<1> QED
  BY <1>3, <1>4, <1>5, <1>6, <1>7, <1>8, <1>9, <1>10, <1>11, <1>12 DEF Next
-----------------------------------------------------------------------------
LEMMA InvInit == Init => IInv
<1> SUFFICES ASSUME Init PROVE IInv
  OBVIOUS
<1>1. TypeOK
  BY TypeInit
<1> QED
  BY <1>1 DEF Init, IInv, Halted, Position, JobsOwned

LEMMA InvStep == IInv /\ [Next]_vars => IInv'
<1> SUFFICES ASSUME IInv, [Next]_vars PROVE IInv'
  OBVIOUS
<1>1. TypeOK' /\ Halted' /\ Position'
  BY TypeStep, HaltedStep, PositionStep DEF IInv
<1>2. Owned' /\ Distinct'
  BY OwnedStep, DistinctStep, Halves DEF IInv
<1>3. JobsOwned'
  BY <1>2, Halves, PTL
<1> QED
  BY <1>1, <1>3 DEF IInv

(* Types, positions and ownership are one inductive invariant. *)
THEOREM Invariant == Spec => []IInv
<1> QED
  BY InvInit, InvStep, PTL DEF Spec

(* No job is orphaned: whatever requests, consumer and restarts do, a job    *)
(* that is not ended has somebody who will go on with it, and a video never  *)
(* has two.                                                                  *)
THEOREM NoJobOrphaned == Spec => []JobsOwned
<1>1. IInv => JobsOwned
  BY DEF IInv
<1> QED
  BY <1>1, Invariant, PTL
-----------------------------------------------------------------------------
(* What has ended keeps its outcome and its video. *)
LEMMA OutcomeKept ==
  ASSUME IInv, [Next]_vars, NEW j \in Job, Ended(j)
  PROVE  status'[j] = status[j] /\ media'[j] = media[j]
<1>1. CASE Settles
  BY <1>1 DEF Settles
<1>2. ASSUME NEW r \in Request, NEW k \in Job, Create(r, k), Insert(r, k)
      PROVE  status'[j] = status[j] /\ media'[j] = media[j]
  <2>1. status[k] = "absent" /\ status' = [status EXCEPT ![k] = "pending"]
        /\ media' = [media EXCEPT ![k] = request[r].media]
    BY <1>2, InsertFacts DEF IInv
  <2> QED
    BY <2>1 DEF Ended, IInv, TypeOK, RowsTyped
<1> QED
  BY <1>1, <1>2, RowsStep DEF IInv

(* What a step does to the intents: one is opened, one cancelled, those of   *)
(* the job that succeeded become ready, or they follow a publication.        *)
Opened(i, m) ==
  /\ intent[i].status = "absent"
  /\ \A n \in Intent : intent[n].media = m => intent[n].status \notin Open
  /\ intent' = [intent EXCEPT ![i] = [status |-> "pending_transcription", media |-> m, job |-> None]]
  /\ UNCHANGED publication

Dropped(i) ==
  /\ intent[i].status \in Cancellable
  /\ intent' = [intent EXCEPT ![i].status = "cancelled"]
  /\ UNCHANGED publication

Readied ==
  /\ cur \in Job /\ cur' = cur /\ status'[cur] = "succeeded" /\ media'[cur] = media[cur]
  /\ media[cur] \in Media
  /\ intent' = [i \in Intent |->
       IF intent[i].media = media[cur] /\ intent[i].status = "pending_transcription"
       THEN [intent[i] EXCEPT !.status = "ready_to_publish"] ELSE intent[i]]
  /\ UNCHANGED publication

IntentsMove ==
  \/ UNCHANGED <<intent, publication>>
  \/ \E i \in Intent, m \in Media : Opened(i, m)
  \/ \E i \in Intent : Dropped(i)
  \/ Readied
  \/ \E j \in Job : BeginPublication(j)
  \/ \E j \in Job, s \in {"published", "failed"} : EndPublication(j, s)

LEMMA IntentsStep == IInv /\ [Next]_vars => IntentsMove
<1> SUFFICES ASSUME IInv, [Next]_vars PROVE IntentsMove
  OBVIOUS
<1>1. ASSUME UNCHANGED <<intent, publication>> PROVE IntentsMove
  BY <1>1 DEF IntentsMove
<1>2. ASSUME NEW i \in Intent, NEW m \in Media, CreateIntent(i, m) PROVE IntentsMove
  <2>1. intent[i].status = "absent"
    BY <1>2, JobAssumption DEF CreateIntent, Intent
  <2>2. Opened(i, m)
    BY <1>2, <2>1 DEF CreateIntent, Opened, row
  <2> QED
    BY <2>2 DEF IntentsMove
<1>3. ASSUME NEW i \in Intent, CancelIntent(i) PROVE IntentsMove
  BY <1>3 DEF IntentsMove, CancelIntent, Dropped
<1>4. ASSUME Worker PROVE IntentsMove
  <2>1. CASE Save
    <3>1. CASE Succeed /\ status[cur] = "running"
      <4>1. cur \in Job /\ status[cur] # "absent"
        BY <2>1, <3>1 DEF Save, IInv, TypeOK, ConsumerTyped
      <4>2. media[cur] \in Media
        BY <4>1 DEF IInv, TypeOK, RowsFilled
      <4>3. Readied
        BY <3>1, <4>1, <4>2 DEF Succeed, Goto, Readied, IInv, TypeOK, RowsTyped
      <4> QED
        BY <4>3 DEF IntentsMove
    <3> QED
      BY <2>1, <3>1 DEF IntentsMove, Save, row
  <2>2. CASE Take \/ OpenJob \/ Announce \/ Raise \/ Escape \/ WorkerSummary \/ ProviderSucceeds
    BY <2>2 DEF IntentsMove, Take, OpenJob, Announce, Raise, Escape, WorkerSummary, ProviderSucceeds, row
  <2>3. CASE Unusable \/ Handler \/ ArtifactFails \/ \E lasting \in BOOLEAN : ProviderFails(lasting)
    BY <2>3 DEF IntentsMove, Unusable, Handler, Fail, ArtifactFails, ProviderFails, End, row
  <2>4. CASE Prepare \/ MarkRunning
    BY <2>4 DEF IntentsMove, Prepare, MarkRunning
  <2> QED
    BY <1>4, <2>1, <2>2, <2>3, <2>4 DEF Worker, Provider
<1>5. ASSUME NEW r \in Request, Serve(r) PROVE IntentsMove
  BY <1>5 DEF IntentsMove, Serve, Create, Insert, Refused, Enqueue, SummaryFails, CancelSummary, row
<1>6. ASSUME NEW r \in Request, NEW m \in Media, NEW k \in Key,
             StartCheck(r, m, k) \/ RetryCheck(r, m, k)
      PROVE  IntentsMove
  BY <1>6 DEF IntentsMove, StartCheck, RetryCheck, row
<1>7. ASSUME NEW r \in Request, NEW j \in Job, Cancel(r, j) PROVE IntentsMove
  BY <1>7 DEF IntentsMove, Cancel, End
<1>8. CASE Stop \/ Crash \/ Boot
  BY <1>8 DEF IntentsMove, Stop, Crash, Down, Boot, row
<1>9. CASE UNCHANGED vars
  BY <1>9 DEF IntentsMove, vars, row
<1>10. CASE \E j \in Job : BeginPublication(j) \/ (\E s \in {"published", "failed"} : EndPublication(j, s))
  BY <1>10 DEF IntentsMove
<1> QED
  BY <1>2, <1>3, <1>4, <1>5, <1>6, <1>7, <1>8, <1>9, <1>10 DEF Next

LEMMA FollowStep == IInv /\ Named /\ IntentsFollow /\ [Next]_vars => (Named /\ IntentsFollow)'
<1> SUFFICES ASSUME IInv, Named, IntentsFollow, [Next]_vars PROVE (Named /\ IntentsFollow)'
  OBVIOUS
<1>1. /\ intent \in [Intent -> Intents] /\ publication \in [Job -> Publications]
      /\ \A i \in Intent : intent[i].status # "absent" => intent[i].media \in Media
  BY DEF IInv, TypeOK, IntentsTyped, RowsTyped
(* A version that is there stays, so an intent that is ready stays ready. *)
<1>2. ASSUME NEW m, \E j \in JobsOf(m) : status[j] = "succeeded"
      PROVE  (\E j \in JobsOf(m) : status[j] = "succeeded")'
  <2>1. PICK j \in Job : status[j] = "succeeded" /\ media[j] = m
    BY <1>2 DEF JobsOf
  <2>2. status'[j] = "succeeded" /\ media'[j] = m
    BY <2>1, OutcomeKept DEF Ended
  <2> QED
    BY <2>2 DEF JobsOf
<1>3. CASE UNCHANGED <<intent, publication>>
  BY <1>2, <1>3 DEF Named, IntentsFollow
<1>4. ASSUME NEW i \in Intent, NEW m \in Media, Opened(i, m) PROVE (Named /\ IntentsFollow)'
  <2>1. /\ intent'[i] = [status |-> "pending_transcription", media |-> m, job |-> None]
        /\ \A n \in Intent \ {i} : intent'[n] = intent[n]
        /\ UNCHANGED publication
    BY <1>1, <1>4 DEF Opened
  <2>2. \A n \in Intent \ {i} : intent[n].status \in Open => intent[n].media # m
    BY <1>4 DEF Opened
  <2> QED
    BY <1>2, <2>1, <2>2 DEF Named, IntentsFollow
<1>5. ASSUME NEW i \in Intent, Dropped(i) PROVE (Named /\ IntentsFollow)'
  <2>1. /\ intent'[i].status = "cancelled"
        /\ \A n \in Intent \ {i} : intent'[n] = intent[n]
        /\ UNCHANGED publication
    BY <1>1, <1>5 DEF Dropped, Intents
  <2> QED
    BY <1>2, <2>1 DEF Named, IntentsFollow, Open
<1>6. CASE Readied
  <2>1. \A i \in Intent : /\ intent'[i].media = intent[i].media /\ intent'[i].job = intent[i].job
                          /\ \/ intent'[i].status = intent[i].status
                             \/ /\ intent[i].media = media[cur]
                                /\ intent[i].status = "pending_transcription"
                                /\ intent'[i].status = "ready_to_publish"
    BY <1>1, <1>6 DEF Readied, Intents
  <2>2. (\E j \in JobsOf(media[cur]) : status[j] = "succeeded")'
    BY <1>6 DEF Readied, JobsOf
  <2>3. media'[cur'] = media[cur] /\ UNCHANGED publication
    BY <1>6 DEF Readied
  <2> QED
    BY <1>2, <2>1, <2>2, <2>3 DEF Named, IntentsFollow, Open
<1>7. ASSUME NEW j \in Job, BeginPublication(j) PROVE (Named /\ IntentsFollow)'
  <2> DEFINE A == Attached(media[j])
  <2>1. /\ publication' = [publication EXCEPT ![j] = "publishing"]
        /\ publication[j] \in {"none", "failed"}
        /\ intent' = [i \in Intent |->
             IF i \in A THEN [intent[i] EXCEPT !.status = "publishing", !.job = j] ELSE intent[i]]
    BY <1>7 DEF BeginPublication
  <2>2. \A i \in A : i \in Intent /\ intent[i].media = media[j]
    BY DEF Attached
  <2>3. \A i, n \in A : i = n
    <3>1. CASE \E i \in Intent : intent[i].media = media[j] /\ intent[i].status \in Cancellable
      <4>1. \A i \in A : intent[i].status \in Open
        BY <3>1 DEF Attached, Cancellable, Open
      <4> QED
        BY <2>2, <4>1 DEF IntentsFollow
    <3>2. CASE ~ \E i \in Intent : intent[i].media = media[j] /\ intent[i].status \in Cancellable
      <4>1. \A i, n \in A : n <= i
        BY <3>2 DEF Attached
      <4> QED
        BY <2>2, <4>1 DEF Intent
    <3> QED
      BY <3>1, <3>2
  <2>4. ASSUME NEW i \in A, NEW n \in Intent \ A, intent[n].media = media[j]
        PROVE  intent[n].status \notin Open
    <3>1. CASE \E k \in Intent : intent[k].media = media[j] /\ intent[k].status \in Cancellable
      <4>1. intent[i].status \in Open
        BY <3>1 DEF Attached, Cancellable, Open
      <4> QED
        BY <2>2, <2>4, <4>1 DEF IntentsFollow
    <3>2. CASE ~ \E k \in Intent : intent[k].media = media[j] /\ intent[k].status \in Cancellable
      BY <2>4, <3>2 DEF Attached, Cancellable, Open
    <3> QED
      BY <3>1, <3>2
  <2> HIDE DEF A
  <2>5. \A i \in Intent : /\ intent'[i].media = intent[i].media
                          /\ i \in A => intent'[i].status = "publishing" /\ intent'[i].job = j
                          /\ i \notin A => intent'[i] = intent[i]
    BY <1>1, <2>1 DEF Intents
  <2>6. publication'[j] = "publishing" /\ \A k \in Job \ {j} : publication'[k] = publication[k]
    BY <1>1, <2>1
  <2>7. \A i, n \in Intent : intent'[i].status \in Open /\ intent'[n].status \in Open
                             /\ intent'[i].media = intent'[n].media => i = n
    BY <2>2, <2>3, <2>4, <2>5 DEF IntentsFollow
  <2>8. \A i \in Intent : intent'[i].status = "ready_to_publish" =>
          (\E k \in JobsOf(intent[i].media) : status[k] = "succeeded")'
    BY <1>2, <2>5 DEF IntentsFollow
  <2>9. \A i \in Intent : intent'[i].status \in {"publishing", "published"} =>
          intent'[i].job \in Job /\ publication'[intent'[i].job] = intent'[i].status
    <3>1. ASSUME NEW i \in Intent \ A, intent[i].status \in {"publishing", "published"}
          PROVE  intent[i].job \in Job \ {j} /\ publication[intent[i].job] = intent[i].status
      BY <2>1, <3>1 DEF Named, IntentsFollow
    <3> QED
      BY <2>5, <2>6, <3>1
  <2> QED
    BY <2>5, <2>7, <2>8, <2>9 DEF Named, IntentsFollow
<1>8. ASSUME NEW j \in Job, NEW s \in {"published", "failed"}, EndPublication(j, s)
      PROVE  (Named /\ IntentsFollow)'
  <2>1. /\ publication[j] = "publishing" /\ publication' = [publication EXCEPT ![j] = s]
        /\ \A i \in Intent :
             /\ intent'[i].media = intent[i].media /\ intent'[i].job = intent[i].job
             /\ intent'[i].status = IF intent[i].job = j /\ intent[i].status = "publishing"
                                    THEN s ELSE intent[i].status
    BY <1>1, <1>8 DEF EndPublication, Intents
  <2> QED
    BY <1>1, <1>2, <2>1 DEF Named, IntentsFollow, Open
<1> QED
  BY <1>3, <1>4, <1>5, <1>6, <1>7, <1>8, IntentsStep DEF IntentsMove

(* A video never has two open intents, one that is ready has a version, and   *)
(* one in publication or published is where its version is.                   *)
THEOREM IntentsFollowVersions == Spec => []IntentsFollow
<1>1. Init => Named /\ IntentsFollow
  BY DEF Init, NoIntent, Open, Named, IntentsFollow
<1> QED
  BY <1>1, FollowStep, Invariant, PTL DEF Spec
-----------------------------------------------------------------------------
(* The summary of a video changes to something else only where its job has   *)
(* ended: Busy keeps a late cancel from it, and an intent that is cancelled  *)
(* cancels the job in the same transaction.                                  *)
LEMMA ShownStep == IInv /\ ShownTranscribing /\ [Next]_vars => ShownTranscribing'
<1> SUFFICES ASSUME IInv, ShownTranscribing, [Next]_vars,
                    pc' \in {"provider", "save"}, status'[cur'] = "running"
             PROVE  summary'[media'[cur']] = "transcribing"
  BY DEF ShownTranscribing
<1>1. /\ summary \in [Media -> {"uploaded", "failed", "transcribing", "transcript_ready"}]
      /\ status \in [Job -> Statuses] /\ media \in [Job -> Media \cup {NoMedia}]
  BY DEF IInv, TypeOK, RowsTyped
<1>2. CASE UNCHANGED <<pc, cur>>
  <2>1. cur \in Job /\ status[cur] \in {"running", "cancelled"}
    BY <1>2 DEF IInv, TypeOK, ConsumerTyped, Position
  <2>2. status[cur] = "running" /\ media'[cur] = media[cur]
    <3>1. CASE Settles
      BY <1>2, <2>1, <3>1 DEF Settles, Ended
    <3>2. ASSUME NEW r \in Request, NEW j \in Job, Create(r, j), Insert(r, j)
          PROVE  status[cur] = "running" /\ media'[cur] = media[cur]
      <4>1. status[j] = "absent" /\ status' = [status EXCEPT ![j] = "pending"]
            /\ media' = [media EXCEPT ![j] = request[r].media]
        BY <3>2, InsertFacts DEF IInv
      <4> QED
        BY <1>1, <1>2, <2>1, <4>1
    <3> QED
      BY <3>1, <3>2, RowsStep DEF IInv
  <2>3. summary[media[cur]] = "transcribing" /\ media[cur] \in Media
    BY <1>2, <2>1, <2>2 DEF ShownTranscribing, IInv, TypeOK, RowsFilled
  <2>4. ASSUME UNCHANGED summary PROVE summary'[media'[cur']] = "transcribing"
    BY <1>2, <2>2, <2>3, <2>4
  <2>5. ASSUME NEW m \in Media, NEW s, Show(m, s), s = "transcribing" \/ m # media[cur]
        PROVE  summary'[media'[cur']] = "transcribing"
    BY <1>1, <1>2, <2>2, <2>3, <2>5 DEF Show
  <2>6. ASSUME NEW r \in Request, Serve(r) PROVE summary'[media'[cur']] = "transcribing"
    <3>1. CASE Enqueue(r)
      <4>1. request[r].media \in Media
        BY <3>1 DEF Enqueue, IInv, TypeOK, RequestsTyped
      <4> QED
        BY <2>4, <2>5, <3>1, <4>1 DEF Enqueue
    <3>2. CASE CancelSummary(r)
      <4>1. request[r].media \in Media
        BY <3>2 DEF CancelSummary, IInv, TypeOK, RequestsTyped
      <4>2. request[r].media = media[cur] => Busy(request[r].media)
        BY <2>1, <2>2 DEF Busy, JobsOf, Active
      <4> QED
        BY <2>4, <2>5, <3>2, <4>1, <4>2 DEF CancelSummary
    <3> QED
      BY <2>4, <2>6, <3>1, <3>2 DEF Serve, Create, Refused, SummaryFails
  <2>7. ASSUME NEW i \in Intent, CancelIntent(i) PROVE summary'[media'[cur']] = "transcribing"
    <3>1. intent[i].media \in Media
      BY <2>7 DEF CancelIntent, Cancellable, IInv, TypeOK, IntentsTyped
    <3>2. intent[i].media # media[cur]
      BY <1>2, <2>1, <2>2, <2>7 DEF CancelIntent, Active
    <3> QED
      BY <2>5, <2>7, <3>1, <3>2 DEF CancelIntent
  <2>8. CASE Worker
    BY <1>2, <2>4, <2>8 DEF Worker, Take, OpenJob, Unusable, Fail, Prepare, MarkRunning, Announce,
       Provider, ProviderSucceeds, ProviderFails, Save, Succeed, ArtifactFails, Raise, Handler,
       Escape, WorkerSummary, Goto, Rest
  <2>9. CASE Boot
    BY <1>2, <2>9 DEF Boot, IInv, Halted
  <2>10. CASE Stop \/ Crash \/ UNCHANGED vars
    BY <2>4, <2>10 DEF Stop, Crash, Down, vars
  <2>11. CASE \E r \in Request : \/ \E m \in Media, k \in Key : StartCheck(r, m, k) \/ RetryCheck(r, m, k)
                                 \/ \E j \in Job : Cancel(r, j)
    BY <2>4, <2>11 DEF StartCheck, RetryCheck, Cancel
  <2>12. CASE \/ \E i \in Intent, m \in Media : CreateIntent(i, m)
              \/ \E j \in Job : BeginPublication(j)
              \/ \E j \in Job, s \in {"published", "failed"} : EndPublication(j, s)
    BY <2>4, <2>12 DEF CreateIntent, BeginPublication, EndPublication
  <2> QED
    BY <2>6, <2>7, <2>8, <2>9, <2>10, <2>11, <2>12 DEF Next
<1>3. CASE ~ UNCHANGED <<pc, cur>>
  <2>1. Worker
    <3>1. ~ (Boot \/ Stop \/ UNCHANGED vars)
      BY <1>3 DEF Boot, Stop, vars, process, worker
    <3>2. ~ Crash
      BY DEF Crash, Down, Rest
    <3>3. ~ \E r \in Request : Serve(r)
      BY <1>3 DEF Serve, Create, Refused, Enqueue, SummaryFails, CancelSummary, worker
    <3>4. ~ \E r \in Request : \/ \E m \in Media, k \in Key : StartCheck(r, m, k) \/ RetryCheck(r, m, k)
                               \/ \E j \in Job : Cancel(r, j)
      BY <1>3 DEF StartCheck, RetryCheck, Cancel, worker
    <3>5. ~ \/ \E i \in Intent : CancelIntent(i) \/ (\E m \in Media : CreateIntent(i, m))
            \/ \E j \in Job : BeginPublication(j) \/ (\E s \in {"published", "failed"} : EndPublication(j, s))
      BY <1>3 DEF CancelIntent, CreateIntent, BeginPublication, EndPublication, process, worker
    <3> QED
      BY <3>1, <3>2, <3>3, <3>4, <3>5 DEF Next
  <2>2. Announce \/ ProviderSucceeds
    BY <2>1 DEF Worker, Take, OpenJob, Unusable, Fail, Prepare, MarkRunning, Announce, Provider,
       ProviderSucceeds, ProviderFails, Save, Succeed, ArtifactFails, Raise, Handler, Escape,
       WorkerSummary, Goto, Rest
  <2>3. pc # "idle" /\ cur \in Job
    BY <2>2 DEF Announce, ProviderSucceeds, IInv, TypeOK, ConsumerTyped
  <2>4. CASE Announce
    <3>1. status[cur] = "running" /\ media' = media /\ cur' = cur
      BY <2>4 DEF Announce, Goto, row
    <3>2. media[cur] \in Media
      BY <2>3, <3>1 DEF IInv, TypeOK, RowsFilled
    <3> QED
      BY <1>1, <2>4, <3>1, <3>2 DEF Announce, Show
  <2>5. CASE ProviderSucceeds
    BY <2>5 DEF ProviderSucceeds, Goto, Rest, row, ShownTranscribing
  <2> QED
    BY <2>2, <2>4, <2>5
<1> QED
  BY <1>2, <1>3

(* A video whose job runs is shown as being transcribed, whatever commits of *)
(* earlier requests and attempts come late.                                  *)
THEOREM RunningIsShown == Spec => []ShownTranscribing
<1>1. Init => ShownTranscribing
  BY DEF Init, ShownTranscribing
<1> QED
  BY <1>1, ShownStep, Invariant, PTL DEF Spec
-----------------------------------------------------------------------------
EndedKeeps ==
  /\ \A j \in Job : Ended(j) => status'[j] = status[j]
  /\ \A i \in Intent : intent[i].status \in {"cancelled", "published"} => intent'[i] = intent[i]

LEMMA EndedStep == IInv /\ [Next]_vars => EndedKeeps
<1> SUFFICES ASSUME IInv, [Next]_vars PROVE EndedKeeps
  OBVIOUS
<1>1. \A j \in Job : Ended(j) => status'[j] = status[j]
  BY OutcomeKept
<1>2. intent \in [Intent -> Intents]
  BY DEF IInv, TypeOK, IntentsTyped
<1>3. ASSUME NEW i \in Intent, intent[i].status \in {"cancelled", "published"}
      PROVE  intent'[i] = intent[i]
  <2>1. CASE UNCHANGED <<intent, publication>>
    BY <2>1
  <2>2. CASE \E n \in Intent : Dropped(n) \/ (\E m \in Media : Opened(n, m))
    BY <1>2, <1>3, <2>2 DEF Dropped, Opened, Cancellable
  <2>3. CASE Readied
    BY <1>3, <2>3 DEF Readied
  <2>4. ASSUME NEW j \in Job, BeginPublication(j) PROVE intent'[i] = intent[i]
    <3>1. i \notin Attached(media[j])
      BY <1>3 DEF Attached, Cancellable
    <3> QED
      BY <2>4, <3>1 DEF BeginPublication
  <2>5. CASE \E j \in Job, s \in {"published", "failed"} : EndPublication(j, s)
    BY <1>3, <2>5 DEF EndPublication
  <2> QED
    BY <2>1, <2>2, <2>3, <2>4, <2>5, IntentsStep DEF IntentsMove
<1> QED
  BY <1>1, <1>3 DEF EndedKeeps

(* What has ended stays as it ended: a cancelled job never has a version, a  *)
(* failed one never runs again, a cancelled or published intent never moves. *)
THEOREM EndedForGood == Spec => EndedStays
<1>1. IInv /\ [Next]_vars => [EndedKeeps]_vars
  BY EndedStep
<1>2. [EndedKeeps]_vars => [/\ \A j \in Job : Ended(j) => status'[j] = status[j]
                            /\ \A i \in Intent : intent[i].status \in {"cancelled", "published"}
                                 => intent'[i] = intent[i]]_vars
  BY DEF EndedKeeps
<1> QED
  BY <1>1, <1>2, Invariant, PTL DEF Spec, EndedStays
=============================================================================
