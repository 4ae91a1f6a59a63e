----------------------------- MODULE AsrService -----------------------------
(***************************************************************************)
(* The ASR service: HTTP handlers (services/asr_service/app.py), the job   *)
(* spool on disk (storage.py) and the single scheduler thread              *)
(* (scheduler.py).                                                         *)
(*                                                                         *)
(* On disk, surviving a crash: for every job its state, upload manifest,   *)
(* checkpoint and result, each a file replaced atomically.  In memory, lost *)
(* in a crash: the queue, the latches and the thread's position.  A job is *)
(* named by its client_request_id (LocalJobRepository.find makes the two    *)
(* identities one); audio is Chunks windows, of which Speech[j] contain     *)
(* speech, so a transcript is the set of windows it covers.                *)
(***************************************************************************)
EXTENDS Integers, Sequences, FiniteSets

CONSTANTS
  Jobs,          \* client request ids
  NoJob,         \* the thread has no job in hand
  Parts,         \* upload parts of every input
  Chunks,        \* audio windows of every input
  Speech,        \* the windows of each job that contain speech
  QueueLimit,    \* Scheduler.queue_limit
  FailureLimit,  \* Scheduler.failure_limit
  MaxCrashes,    \* bound: crashes of the service process
  Faults         \* what the environment may do in this instance

FaultKinds == {"torn_write", "engine_gone", "engine_failure", "undecodable", "gate"}

Chunk == 0 .. Chunks - 1

ASSUME ConstantsAssumption ==
  /\ NoJob \notin Jobs
  /\ Parts \in Nat \ {0} /\ Chunks \in Nat \ {0}
  /\ QueueLimit \in Nat \ {0} /\ FailureLimit \in Nat \ {0}
  /\ MaxCrashes \in Nat
  /\ Speech \in [Jobs -> SUBSET Chunk]
  /\ Faults \subseteq FaultKinds

VARIABLES
  (* the spool *)
  state,     \* job.json: state; "absent" without a directory, "torn" without job.json
  stray,     \* some job directory has no request.json
  born,      \* jobs in the order of request.json's modification time
  parts,     \* upload-manifest.json: number of parts recorded
  complete,  \* upload-manifest.json: complete
  ckpt,      \* checkpoint.json: next window and the windows transcribed so far
  result,    \* result.json
  (* the process *)
  up, queue, failures, oom,
  (* the scheduler thread: where it is, its job, its local window cursor *)
  pc, cur, next, segs,
  (* the environment *)
  gate,      \* enabled, disk and BGE probe all allow ASR work
  engine,    \* the engine of the profile reports itself available
  crashes,
  (* history: jobs whose start request was answered with success *)
  accepted

upload == <<parts, complete>>
spool  == <<state, stray, born, upload, ckpt, result>>
thread == <<pc, cur, next, segs>>
latch  == <<failures, oom>>
env    == <<gate, engine, crashes>>
vars   == <<spool, up, queue, latch, thread, env, accepted>>

ServiceJobState == {"created", "uploading", "queued", "running", "paused",
                    "succeeded", "failed", "cancelled"}
Terminal == {"succeeded", "failed", "cancelled"}
FailureKind == {"oom", "transient", "permanent"}

(* Slips a change to the code could make; the mutants of the project put them
   in the place of the definitions they are named after. *)
AllowedCancelEarly(s) ==
  CASE s \in {"created", "uploading"} -> {"uploading", "queued", "cancelled"}
    [] s = "queued"  -> {"running", "paused", "cancelled"}
    [] s = "running" -> {"running", "paused", "succeeded", "failed", "cancelled"}
    [] s = "paused"  -> {"queued", "cancelled", "failed"}
    [] OTHER         -> {}
MayRunOneMore     == gate /\ ~oom /\ failures <= FailureLimit

(* Which state may replace a persisted one: checked by ServiceJob.transition
   and again by LocalJobRepository.save. *)
Allowed(s) ==
  CASE s = "created"   -> {"uploading"}
    [] s = "uploading" -> {"uploading", "queued"}
    [] s = "queued"    -> {"running", "paused", "cancelled"}
    [] s = "running"   -> {"running", "paused", "succeeded", "failed", "cancelled"}
    [] s = "paused"    -> {"queued", "cancelled", "failed"}
    [] OTHER           -> {}

Checkpoint == [next : 0 .. Chunks, segs : SUBSET Chunk]
Result     == [kind : {"none", "candidate"} \cup FailureKind, segs : SUBSET Chunk]
NoResult   == [kind |-> "none", segs |-> {}]

Contains(q, j) == \E i \in DOMAIN q : q[i] = j

Queued(j) == Contains(queue, j)

(* q2 is q without the items outside Keep, in the same order. *)
Selects(q, Keep, q2) ==
  \E n \in 0 .. Len(q) : \E pick \in [1 .. n -> DOMAIN q] :
    /\ \A a, b \in 1 .. n : a < b => pick[a] < pick[b]
    /\ {pick[k] : k \in 1 .. n} = {i \in DOMAIN q : q[i] \in Keep}
    /\ q2 = [k \in 1 .. n |-> q[pick[k]]]

(* Scheduler._pause_reason() is None *)
MayRun == gate /\ ~oom /\ failures < FailureLimit

(* The thread holds _state_lock between writing result.json and job.json, so
   the handlers that take the lock wait. *)
LockFree == up /\ pc \notin {"failing", "committing"}

(* recover() raises: it stats every request.json and reads every job.json. *)
Broken == stray \/ \E j \in Jobs : state[j] = "torn"
-----------------------------------------------------------------------------
Init ==
  /\ state = [j \in Jobs |-> "absent"] /\ stray = FALSE /\ born = <<>>
  /\ parts = [j \in Jobs |-> 0] /\ complete = [j \in Jobs |-> FALSE]
  /\ ckpt = [j \in Jobs |-> [next |-> 0, segs |-> {}]]
  /\ result = [j \in Jobs |-> NoResult]
  /\ up = TRUE /\ queue = <<>> /\ failures = 0 /\ oom = FALSE
  /\ pc = "idle" /\ cur = NoJob /\ next = 0 /\ segs = {}
  /\ gate = TRUE /\ engine = TRUE /\ crashes = 0
  /\ accepted = {}
-----------------------------------------------------------------------------
(* POST /v1/jobs.  A request whose identity is already stored returns the
   stored job and changes nothing. *)
Admits(j) ==
  /\ LockFree
  /\ state[j] = "absent"
  /\ Len(queue) < QueueLimit /\ MayRun
  /\ engine

Create(j) ==
  /\ Admits(j)
  /\ state' = [state EXCEPT ![j] = "created"]
  /\ born' = Append(born, j)
  /\ UNCHANGED <<stray, upload, ckpt, result, up, queue, latch, thread, env, accepted>>

(* The write of one of the job's files fails after mkdir, or after
   request.json: the directory stays. *)
TornCreate(j) ==
  /\ "torn_write" \in Faults
  /\ Admits(j)
  /\ \/ /\ stray' = TRUE
        /\ UNCHANGED <<state, born>>
     \/ /\ state' = [state EXCEPT ![j] = "torn"]
        /\ born' = Append(born, j)
        /\ UNCHANGED stray
  /\ UNCHANGED <<upload, ckpt, result, up, queue, latch, thread, env, accepted>>

(* PUT .../input/{n}, the next part.  The same part again is accepted without
   effect, even on the job's state. *)
Upload(j) ==
  /\ up
  /\ state[j] \in {"created", "uploading"} /\ ~complete[j]
  /\ parts[j] < Parts
  /\ parts' = [parts EXCEPT ![j] = @ + 1]
  /\ state' = [state EXCEPT ![j] = "uploading"]
  /\ UNCHANGED <<stray, born, complete, ckpt, result, up, queue, latch, thread, env, accepted>>

(* The manifest is written, job.json is not. *)
TornUpload(j) ==
  /\ "torn_write" \in Faults
  /\ up
  /\ state[j] = "created"
  /\ parts[j] < Parts
  /\ parts' = [parts EXCEPT ![j] = @ + 1]
  /\ UNCHANGED <<state, stray, born, complete, ckpt, result, up, queue, latch, thread, env, accepted>>

(* POST .../input/complete *)
Complete(j) ==
  /\ up
  /\ state[j] = "uploading" /\ parts[j] = Parts
  /\ complete' = [complete EXCEPT ![j] = TRUE]
  /\ state' = [state EXCEPT ![j] = "queued"]
  /\ UNCHANGED <<stray, born, parts, ckpt, result, up, queue, latch, thread, env, accepted>>

TornComplete(j) ==
  /\ "torn_write" \in Faults
  /\ up
  /\ state[j] = "uploading" /\ parts[j] = Parts /\ ~complete[j]
  /\ complete' = [complete EXCEPT ![j] = TRUE]
  /\ UNCHANGED <<state, stray, born, parts, ckpt, result, up, queue, latch, thread, env, accepted>>

(* POST .../start: Scheduler.enqueue, for a queued and for a paused job. *)
StartQueued(j) ==
  /\ LockFree
  /\ state[j] = "queued"
  /\ \/ Queued(j) /\ UNCHANGED queue
     \/ ~Queued(j) /\ Len(queue) < QueueLimit /\ queue' = Append(queue, j)
  /\ accepted' = accepted \cup {j}
  /\ UNCHANGED <<spool, up, latch, thread, env>>

StartPaused(j) ==
  /\ LockFree
  /\ state[j] = "paused"
  /\ Len(queue) < QueueLimit
  /\ state' = [state EXCEPT ![j] = "queued"]
  /\ queue' = Append(queue, j)
  /\ accepted' = accepted \cup {j}
  /\ UNCHANGED <<stray, born, upload, ckpt, result, up, latch, thread, env>>

(* POST .../cancel *)
Cancel(j) ==
  /\ LockFree
  /\ "cancelled" \in Allowed(state[j])
  /\ state' = [state EXCEPT ![j] = "cancelled"]
  /\ Selects(queue, Jobs \ {j}, queue')
  /\ UNCHANGED <<stray, born, upload, ckpt, result, up, latch, thread, env, accepted>>
-----------------------------------------------------------------------------
(* The scheduler thread: run_next, called again and again by
   run_until_stopped.  Leave(to) ends the call: "idle" returns, "dead" is an
   exception that escapes run_next and, as the loop does not catch it, ends
   the thread. *)

Leave(to) ==
  /\ pc' = to
  /\ cur' = IF to = "idle" THEN NoJob ELSE cur
  /\ next' = 0 /\ segs' = {}

Continue(to) == pc' = to /\ UNCHANGED <<cur, next, segs>>

(* transition() and repo.save(): an illegal transition raises. *)
SaveOrDie(s, after) ==
  IF s \in Allowed(state[cur])
  THEN /\ state' = [state EXCEPT ![cur] = s]
       /\ after
  ELSE /\ Leave("dead")
       /\ UNCHANGED state

(* Most steps of the thread leave what the handlers own alone. *)
HandlersOwn == <<stray, born, upload, up, env, accepted>>

Pop ==
  /\ up /\ pc = "idle" /\ queue # <<>>
  /\ queue' = Tail(queue)
  /\ IF state[Head(queue)] = "queued"
     THEN pc' = "gate" /\ cur' = Head(queue)
     ELSE UNCHANGED <<pc, cur>>
  /\ UNCHANGED <<state, ckpt, result, latch, next, segs, HandlersOwn>>

CheckGateDrops ==
  /\ up /\ pc = "gate"
  /\ IF MayRun THEN Continue("begin") ELSE Leave("idle")
  /\ UNCHANGED <<state, ckpt, result, queue, latch, HandlersOwn>>

(* _pause_reason() is evaluated without the lock, before the job is read
   again under it. *)
CheckGate ==
  /\ up /\ pc = "gate"
  /\ Continue(IF MayRun THEN "begin" ELSE "pausing")
  /\ UNCHANGED <<state, ckpt, result, queue, latch, HandlersOwn>>

Pause ==
  /\ up /\ pc = "pausing"
  /\ IF state[cur] = "cancelled"
     THEN Leave("idle") /\ UNCHANGED state
     ELSE SaveOrDie("paused", Leave("idle"))
  /\ UNCHANGED <<ckpt, result, queue, latch, HandlersOwn>>

(* Scheduler._fail, under the lock *)
FailJob ==
  IF state[cur] = "cancelled"
  THEN /\ Leave("idle")
       /\ UNCHANGED <<state, failures>>
  ELSE /\ failures' = failures + 1
       /\ SaveOrDie("failed", Leave("idle"))

Begin ==
  /\ up /\ pc = "begin"
  /\ \/ /\ state[cur] = "cancelled"
        /\ Leave("idle")
        /\ UNCHANGED <<state, failures>>
     \/ /\ state[cur] # "cancelled" /\ ~engine
        /\ FailJob
     \/ /\ state[cur] # "cancelled" /\ engine
        /\ SaveOrDie("running", Continue("load"))
        /\ UNCHANGED failures
  /\ UNCHANGED <<ckpt, result, queue, oom, HandlersOwn>>

LoadForgetsSegments ==
  /\ up /\ pc = "load"
  /\ pc' = "chunk" /\ UNCHANGED cur
  /\ next' = ckpt[cur].next /\ segs' = {}
  /\ UNCHANGED <<state, ckpt, result, queue, latch, HandlersOwn>>

(* Read the checkpoint and, unless every window is done, decode the input;
   nothing catches what decoding raises. *)
Load ==
  /\ up /\ pc = "load"
  /\ \/ /\ pc' = "chunk" /\ UNCHANGED cur
        /\ next' = ckpt[cur].next /\ segs' = ckpt[cur].segs
     \/ /\ "undecodable" \in Faults /\ ckpt[cur].next < Chunks
        /\ Leave("dead")
  /\ UNCHANGED <<state, ckpt, result, queue, latch, HandlersOwn>>

(* One window transcribed, merged and checkpointed.  Neither the gate nor a
   cancellation is looked at between windows. *)
Transcribe ==
  /\ up /\ pc = "chunk" /\ next < Chunks
  /\ next' = next + 1
  /\ segs' = segs \cup ({next} \cap Speech[cur])
  /\ ckpt' = [ckpt EXCEPT ![cur] = [next |-> next', segs |-> segs']]
  /\ UNCHANGED <<state, result, queue, latch, pc, cur, HandlersOwn>>

SaveResultFirstWins(r, to) ==
  /\ result' = IF result[cur] = NoResult THEN [result EXCEPT ![cur] = r] ELSE result
  /\ Continue(to)

(* save_result: a different stored result is a conflict and raises. *)
SaveResultOrDie(r, to) ==
  IF result[cur] \in {NoResult, r}
  THEN /\ result' = [result EXCEPT ![cur] = r]
       /\ Continue(to)
  ELSE /\ Leave("dead")
       /\ UNCHANGED result

EngineFails(k) ==
  /\ "engine_failure" \in Faults
  /\ up /\ pc = "chunk" /\ next < Chunks
  /\ oom' = (oom \/ k = "oom")
  /\ IF state[cur] = "cancelled"
     THEN Leave("idle") /\ UNCHANGED result
     ELSE SaveResultOrDie([kind |-> k, segs |-> {}], "failing")
  /\ UNCHANGED <<state, ckpt, queue, failures, HandlersOwn>>

(* Second half of the failure path: job.json, after result.json. *)
CommitFailure ==
  /\ up /\ pc = "failing"
  /\ FailJob
  /\ UNCHANGED <<ckpt, result, queue, oom, HandlersOwn>>

InvalidOutput ==
  /\ "engine_failure" \in Faults
  /\ up /\ pc = "chunk" /\ next < Chunks
  /\ FailJob
  /\ UNCHANGED <<ckpt, result, queue, oom, HandlersOwn>>

NoSpeech ==
  /\ up /\ pc = "chunk" /\ next = Chunks /\ segs = {}
  /\ FailJob
  /\ UNCHANGED <<ckpt, result, queue, oom, HandlersOwn>>

WriteCandidate ==
  /\ up /\ pc = "chunk" /\ next = Chunks /\ segs # {}
  /\ IF state[cur] = "cancelled"
     THEN Leave("idle") /\ UNCHANGED result
     ELSE SaveResultOrDie([kind |-> "candidate", segs |-> segs], "committing")
  /\ UNCHANGED <<state, ckpt, queue, latch, HandlersOwn>>

CommitSuccess ==
  /\ up /\ pc = "committing"
  /\ SaveOrDie("succeeded", Leave("idle"))
  /\ failures' = IF "succeeded" \in Allowed(state[cur]) THEN 0 ELSE failures
  /\ UNCHANGED <<ckpt, result, queue, oom, HandlersOwn>>

Runner ==
  \/ Pop \/ CheckGate \/ Pause \/ Begin \/ Load \/ Transcribe
  \/ \E k \in FailureKind : EngineFails(k)
  \/ CommitFailure \/ InvalidOutput \/ NoSpeech \/ WriteCandidate \/ CommitSuccess
-----------------------------------------------------------------------------
(* The process stops, killed or shut down: memory is gone, files stay. *)
Crash ==
  /\ up /\ crashes < MaxCrashes
  /\ up' = FALSE /\ crashes' = crashes + 1
  /\ queue' = <<>> /\ failures' = 0 /\ oom' = FALSE
  /\ Leave("idle")
  /\ UNCHANGED <<spool, gate, engine, accepted>>

ResumableNotRunning == {"queued", "paused"}

(* What a boot puts back into the queue. *)
Resumable == {"queued", "paused", "running"}

(* repo.recover() and Scheduler.__post_init__: a running job becomes paused,
   a paused one queued, and all of them are queued in creation order, whatever
   the queue limit. *)
Restart ==
  /\ ~up /\ ~Broken
  /\ up' = TRUE
  /\ state' = [j \in Jobs |-> IF state[j] \in Resumable THEN "queued" ELSE state[j]]
  /\ Selects(born, {j \in Jobs : state[j] \in Resumable}, queue')
  /\ UNCHANGED <<stray, born, upload, ckpt, result, latch, thread, env, accepted>>

Precedes(i, j) == \E m, n \in DOMAIN born : born[m] = i /\ born[n] = j /\ m < n

(* A boot over a broken spool raises; it may have paused a running job that
   sorts before the first directory without job.json. *)
FailedRestart(j) ==
  /\ ~up /\ ~stray /\ Broken
  /\ state[j] = "running"
  /\ \A i \in Jobs : state[i] = "torn" => ~Precedes(i, j)
  /\ state' = [state EXCEPT ![j] = "paused"]
  /\ UNCHANGED <<stray, born, upload, ckpt, result, up, queue, latch, thread, env, accepted>>

GateFlips ==
  /\ "gate" \in Faults
  /\ gate' = ~gate
  /\ UNCHANGED <<spool, up, queue, latch, thread, engine, crashes, accepted>>

EngineFlips ==
  /\ "engine_gone" \in Faults
  /\ engine' = ~engine
  /\ UNCHANGED <<spool, up, queue, latch, thread, gate, crashes, accepted>>

Client(j) ==
  \/ Create(j) \/ TornCreate(j) \/ Upload(j) \/ TornUpload(j)
  \/ Complete(j) \/ TornComplete(j) \/ StartQueued(j) \/ StartPaused(j) \/ Cancel(j)

Next ==
  \/ \E j \in Jobs : Client(j) \/ FailedRestart(j)
  \/ Runner
  \/ Crash \/ Restart \/ GateFlips \/ EngineFlips

Spec == Init /\ [][Next]_vars
-----------------------------------------------------------------------------
(* The thread is scheduled while the process is up, and the process supervisor
   restarts the service.  Of its clients nothing is assumed: one whose start is
   refused, or who is gone, does not start the job again. *)
Fairness == WF_vars(Runner) /\ WF_vars(Restart)

FairSpec == Spec /\ Fairness
-----------------------------------------------------------------------------
(* Every variable has its type. *)
SpoolType ==
  /\ state \in [Jobs -> ServiceJobState \cup {"absent", "torn"}]
  /\ stray \in BOOLEAN
  /\ born \in Seq(Jobs)
  /\ parts \in [Jobs -> 0 .. Parts]
  /\ complete \in [Jobs -> BOOLEAN]
  /\ ckpt \in [Jobs -> Checkpoint]
  /\ result \in [Jobs -> Result]

ProcessType ==
  /\ up \in BOOLEAN
  /\ queue \in Seq(Jobs)
  /\ failures \in Nat
  /\ oom \in BOOLEAN
  /\ gate \in BOOLEAN
  /\ engine \in BOOLEAN
  /\ crashes \in 0 .. MaxCrashes
  /\ accepted \in SUBSET Jobs

ThreadType ==
  /\ pc \in {"idle", "gate", "pausing", "begin", "load", "chunk",
             "failing", "committing", "dead"}
  /\ cur \in Jobs \cup {NoJob}
  /\ cur = NoJob <=> pc = "idle"
  /\ next \in 0 .. Chunks
  /\ segs \in SUBSET Chunk

TypeOK == SpoolType /\ ProcessType /\ ThreadType

Working == {"load", "chunk", "failing", "committing"}

(* At most one job is persisted as running, whatever crashed in between, and
   while the process is up it is the job its thread holds (max_active = 1). *)
SingleActive ==
  \A j \in Jobs : state[j] = "running" =>
    /\ \A i \in Jobs : state[i] = "running" => i = j
    /\ up => cur = j /\ pc \in Working \cup {"dead"}

(* A job whose start was answered with success and that is still queued is in
   the queue, or in the thread's hands: no interleaving of starts, cancels,
   pauses and restarts drops it. *)
NoLostJob ==
  \A j \in accepted : up /\ state[j] = "queued" => Queued(j) \/ cur = j

(* A checkpoint holds the speech of exactly the windows before its cursor, and
   the thread's copy is the one on disk: no window is skipped or merged twice
   over crashes and resumptions, and save_checkpoint's regression check never
   fires. *)
CheckpointExact ==
  /\ \A j \in Jobs : ckpt[j].segs = {c \in Speech[j] : c < ckpt[j].next}
  /\ pc \in {"chunk", "failing", "committing"} =>
       ckpt[cur] = [next |-> next, segs |-> segs]

(* A succeeded job's result is its whole transcript, and a failed job never has
   a transcript stored: result.json and job.json are two writes and a crash may
   fall between them. *)
ResultFaithful ==
  \A j \in Jobs :
    /\ state[j] = "succeeded" => result[j] = [kind |-> "candidate", segs |-> Speech[j]]
    /\ state[j] = "failed" => result[j].kind # "candidate"

(* The failure count never passes the limit: once it is reached, or an engine
   ran out of memory, the thread lets no job begin until a restart. *)
FailClosed ==
  /\ failures <= FailureLimit
  /\ pc \in {"begin"} \cup Working => failures < FailureLimit

(* No step starts a job after an out-of-memory failure (the latch). *)
NoStartAfterOom ==
  [][\A j \in Jobs : state[j] # "running" /\ state'[j] = "running" => ~oom]_vars

(* A terminal job keeps its state and its result for ever: neither a restart
   nor a commit that was under way revives it. *)
TerminalAbsorbing ==
  [][\A j \in Jobs : state[j] \in Terminal =>
       state'[j] = state[j] /\ result'[j] = result[j]]_vars

(* The service has taken the job on: it waits in the queue or the thread has
   it, or, the process being down, the next boot will queue it.  A place in the
   queue alone is not enough: a job started again while the thread is about to
   pause it keeps a place that will be passed over. *)
TakenOn(j) ==
  IF up THEN \/ Queued(j) /\ state[j] = "queued" /\ cur # j
             \/ cur = j /\ pc \notin {"pausing", "dead"}
  ELSE state[j] \in {"queued", "paused", "running"}

(* A job the service has taken on ends or is handed back, paused, and it ends
   once the gate stays open and no latch is set: whatever its client does from
   then on, whatever other jobs are cancelled, failed or queued beyond the
   limit, and although a crash takes the queue away.  The spool must stay
   readable and the thread alive. *)
TakenOnEnds ==
  LET sound == ~Broken /\ pc # "dead" IN
  \A j \in Jobs :
    /\ TakenOn(j) /\ []sound ~> state[j] \in Terminal \cup {"paused"}
    /\ TakenOn(j) /\ [](sound /\ MayRun) ~> state[j] \in Terminal
-----------------------------------------------------------------------------
(* What a client sees of the spool. *)
PhaseOf(s) ==
  CASE s \in {"absent", "torn"}        -> "unknown"
    [] s \in {"created", "uploading"}  -> "open"
    [] s \in {"queued", "paused"}      -> "waiting"
    [] s = "running"                   -> "active"
    [] OTHER                           -> s

Contract ==
  INSTANCE AsrJobContract WITH
    phase <- [j \in Jobs |-> PhaseOf(state[j])],
    transcript <- [j \in Jobs |-> IF state[j] = "succeeded" THEN result[j].segs ELSE {}]

(* The service keeps its promise to its clients: every step of the spool, the
   queue, the thread, a crash or a restart is at most one step of one job's life
   cycle, and a transcript appears whole or not at all. *)
KeepsContract == Contract!Spec
=============================================================================
