-------------------------- MODULE AsrServiceProofs --------------------------
(***************************************************************************)
(* Theorems about AsrService for every set of jobs, input size, queue and  *)
(* failure limit, number of crashes and choice of faults.  The inductive   *)
(* invariant is the conjunction of the safety invariants the runs check    *)
(* and of six facts that make them inductive; it is proved in parts, each  *)
(* of which only needs the parts before it.  The refinement of the         *)
(* contract its clients rely on follows from it, at the end.               *)
(***************************************************************************)
EXTENDS AsrService, SequenceTheorems, TLAPS

-----------------------------------------------------------------------------
(* The strengthening.  What the state of the job in the thread's hands can be
   at each position: a cancellation may slip in between the lock's sections,
   never inside one. *)
Holding ==
  /\ pc \in {"gate", "pausing", "begin"} => state[cur] \in {"queued", "cancelled"}
  /\ pc \in {"load", "chunk"} => state[cur] \in {"running", "cancelled"}
  /\ pc \in {"failing", "committing"} => state[cur] = "running"

(* A process that is down has no thread, no queue and no latch. *)
Down == ~up => pc = "idle" /\ queue = <<>> /\ failures = 0 /\ ~oom

(* The gate was found open since the last out-of-memory failure. *)
BeginUnlatched == pc = "begin" => ~oom

(* A transcript is stored only over a finished checkpoint with speech, and not
   for a job that failed; the two writes that end a job agree. *)
Stored ==
  /\ \A j \in Jobs : result[j].kind = "candidate" =>
       /\ result[j].segs = Speech[j] /\ Speech[j] # {}
       /\ ckpt[j].next = Chunks
       /\ state[j] # "failed"
  /\ \A j \in Jobs : state[j] = "succeeded" => result[j].kind = "candidate"
  /\ pc = "committing" => result[cur].kind = "candidate"
  /\ pc = "failing" => result[cur].kind # "candidate"

(* Every job with a directory sorts into the recovery order. *)
Recoverable == \A j \in Jobs : state[j] # "absent" => Contains(born, j)

(* A job whose start was answered with success has left its upload behind. *)
Started ==
  \A j \in accepted : state[j] \notin {"absent", "torn", "created", "uploading"}

IInv ==
  /\ TypeOK /\ Down /\ Holding
  /\ SingleActive /\ FailClosed /\ BeginUnlatched
  /\ CheckpointExact /\ Stored
  /\ Recoverable /\ Started /\ NoLostJob
-----------------------------------------------------------------------------
(* What removing jobs from the queue, or queueing the jobs of a restart,
   returns: a sequence of jobs that holds exactly the kept ones. *)
LEMMA SelectsFacts ==
  ASSUME NEW q \in Seq(Jobs), NEW Keep, NEW q2, Selects(q, Keep, q2)
  PROVE  /\ q2 \in Seq(Jobs)
         /\ \A j : Contains(q2, j) <=> j \in Keep /\ Contains(q, j)
<1>0. PICK n \in 0 .. Len(q) :
        \E pick \in [1 .. n -> DOMAIN q] :
          /\ {pick[k] : k \in 1 .. n} = {i \in DOMAIN q : q[i] \in Keep}
          /\ q2 = [k \in 1 .. n |-> q[pick[k]]]
  BY DEF Selects
<1>1. PICK pick \in [1 .. n -> DOMAIN q] :
        /\ {pick[k] : k \in 1 .. n} = {i \in DOMAIN q : q[i] \in Keep}
        /\ q2 = [k \in 1 .. n |-> q[pick[k]]]
  BY <1>0
<1>2. q2 \in [1 .. n -> Jobs]
  BY <1>1
<1>3. q2 \in Seq(Jobs)
  BY <1>1, <1>2, IsASeq
<1>4. DOMAIN q2 = 1 .. n
  BY <1>1
<1>5. ASSUME NEW j, NEW i \in DOMAIN q2, q2[i] = j
      PROVE  j \in Keep /\ \E k \in DOMAIN q : q[k] = j
  BY <1>1, <1>4, <1>5
<1>6. ASSUME NEW j \in Keep, NEW i \in DOMAIN q, q[i] = j
      PROVE  \E k \in DOMAIN q2 : q2[k] = j
  <2>1. PICK k \in 1 .. n : pick[k] = i
    BY <1>1, <1>6
  <2>2. QED
    BY <2>1, <1>1, <1>4, <1>6
<1>7. QED
  BY <1>3, <1>5, <1>6 DEF Contains

(* Appending a job adds that job. *)
LEMMA InAppend ==
  ASSUME NEW q \in Seq(Jobs), NEW j \in Jobs, NEW i
  PROVE  Contains(Append(q, j), i) <=> i = j \/ Contains(q, i)
<1>1. /\ DOMAIN Append(q, j) = 1 .. Len(q) + 1
      /\ DOMAIN q = 1 .. Len(q)
      /\ Len(q) \in Nat
      /\ \A n \in 1 .. Len(q) : Append(q, j)[n] = q[n]
      /\ Append(q, j)[Len(q) + 1] = j
  BY AppendProperties, LenProperties
<1>2. QED
  BY <1>1 DEF Contains

(* Removing the head removes nothing else. *)
LEMMA InTail ==
  ASSUME NEW q \in Seq(Jobs), q # <<>>, NEW i, Contains(q, i), i # Head(q)
  PROVE  Contains(Tail(q), i)
<1>1. /\ DOMAIN Tail(q) = 1 .. Len(q) - 1
      /\ DOMAIN q = 1 .. Len(q)
      /\ Len(q) \in Nat
      /\ Head(q) = q[1]
      /\ \A n \in 1 .. Len(q) - 1 : Tail(q)[n] = q[n + 1]
  BY HeadTailProperties, LenProperties
<1>2. PICK n \in 1 .. Len(q) : q[n] = i
  BY <1>1 DEF Contains
<1>3. n - 1 \in DOMAIN Tail(q) /\ Tail(q)[n - 1] = i
  BY <1>1, <1>2
<1>4. QED
  BY <1>3 DEF Contains

-----------------------------------------------------------------------------
(* Where the scheduler thread can be. *)
Positions == {"idle", "gate", "pausing", "begin", "load", "chunk",
              "failing", "committing", "dead"}

(* Leaving run_next keeps the thread well typed. *)
LEMMA LeaveType ==
  ASSUME ConstantsAssumption, ThreadType, pc # "idle",
         NEW to \in {"idle", "dead"}, Leave(to)
  PROVE  ThreadType'
<1>1. next' = 0 /\ segs' = {} /\ pc' = to
  BY DEF Leave
<1>2. next' \in 0 .. Chunks /\ segs' \in SUBSET Chunk
  BY <1>1 DEF ConstantsAssumption
<1>3. cur' \in Jobs \cup {NoJob} /\ (cur' = NoJob <=> pc' = "idle")
  BY DEF Leave, ThreadType, ConstantsAssumption
<1>4. QED
  BY <1>1, <1>2, <1>3 DEF ThreadType

(* Going on to another position keeps the job in hand. *)
LEMMA ContinueType ==
  ASSUME ThreadType, pc # "idle", NEW to \in Positions \ {"idle"}, Continue(to)
  PROVE  ThreadType'
BY DEF Continue, ThreadType, Positions

(* The initial state is well typed. *)
LEMMA TypeInit == Init => TypeOK
<1> SUFFICES ASSUME Init PROVE TypeOK
  OBVIOUS
<1>1. queue \in Seq(Jobs) /\ born \in Seq(Jobs)
  BY EmptySeq DEF Init
<1>2. /\ parts \in [Jobs -> 0 .. Parts]
      /\ ckpt \in [Jobs -> Checkpoint]
      /\ result \in [Jobs -> Result]
  BY ConstantsAssumption DEF Init, ConstantsAssumption, Checkpoint, Result, NoResult
<1>3. /\ failures \in Nat
      /\ crashes \in 0 .. MaxCrashes
      /\ next \in 0 .. Chunks
  BY ConstantsAssumption DEF Init, ConstantsAssumption
<1>4. SpoolType
  <2>1. /\ state \in [Jobs -> ServiceJobState \cup {"absent", "torn"}]
        /\ stray \in BOOLEAN
        /\ complete \in [Jobs -> BOOLEAN]
    BY Zenon DEF Init
  <2>2. QED
    BY <1>1, <1>2, <2>1 DEF SpoolType
<1>5. ProcessType
  BY <1>1, <1>3, Zenon DEF Init, ProcessType
<1>6. ThreadType
  BY <1>3 DEF Init, ThreadType
<1>7. QED
  BY <1>4, <1>5, <1>6 DEF TypeOK

-----------------------------------------------------------------------------
(* Type correctness is inductive by itself. *)
LEMMA TypeNext == TypeOK /\ [Next]_vars => TypeOK'
<1> SUFFICES ASSUME TypeOK, [Next]_vars
             PROVE  TypeOK'
  OBVIOUS
<1> USE ConstantsAssumption DEF TypeOK, upload, spool, thread, latch, env, HandlersOwn
<1>1. ASSUME NEW j \in Jobs, Create(j) PROVE TypeOK'
  <2>1. SpoolType'
    BY <1>1 DEF Create, Admits, LockFree, SpoolType, ThreadType, Checkpoint, Result, ServiceJobState, Chunk
  <2>2. ProcessType'
    BY <1>1 DEF Create, Admits, LockFree, ProcessType
  <2>3. ThreadType'
    BY <1>1 DEF Create, Admits, LockFree, ThreadType, ProcessType
  <2>4. QED
    BY <2>1, <2>2, <2>3
<1>2. ASSUME NEW j \in Jobs, TornCreate(j) PROVE TypeOK'
  <2>1. SpoolType'
    <3>1. Append(born, j) \in Seq(Jobs)
      BY AppendProperties DEF SpoolType
    <3>2. CASE stray' = TRUE /\ UNCHANGED <<state, born>>
      BY <1>2, <3>2 DEF TornCreate, SpoolType
    <3>3. CASE /\ state' = [state EXCEPT ![j] = "torn"]
               /\ born' = Append(born, j)
               /\ UNCHANGED stray
      BY <1>2, <3>1, <3>3 DEF TornCreate, SpoolType
    <3>4. QED
      BY <1>2, <3>2, <3>3 DEF TornCreate
  <2>2. ProcessType'
    BY <1>2 DEF TornCreate, Admits, LockFree, ProcessType
  <2>3. ThreadType'
    BY <1>2 DEF TornCreate, Admits, LockFree, ThreadType, ProcessType
  <2>4. QED
    BY <2>1, <2>2, <2>3
<1>3. ASSUME NEW j \in Jobs, Upload(j) PROVE TypeOK'
  <2>1. SpoolType'
    BY <1>3 DEF Upload, SpoolType, ThreadType, Checkpoint, Result, ServiceJobState, Chunk
  <2>2. ProcessType'
    BY <1>3 DEF Upload, ProcessType
  <2>3. ThreadType'
    BY <1>3 DEF Upload, ThreadType, ProcessType
  <2>4. QED
    BY <2>1, <2>2, <2>3
<1>4. ASSUME NEW j \in Jobs, TornUpload(j) PROVE TypeOK'
  <2>1. SpoolType'
    BY <1>4 DEF TornUpload, SpoolType, ThreadType, Checkpoint, Result, ServiceJobState, Chunk
  <2>2. ProcessType'
    BY <1>4 DEF TornUpload, ProcessType
  <2>3. ThreadType'
    BY <1>4 DEF TornUpload, ThreadType, ProcessType
  <2>4. QED
    BY <2>1, <2>2, <2>3
<1>5. ASSUME NEW j \in Jobs, Complete(j) PROVE TypeOK'
  <2>1. SpoolType'
    BY <1>5 DEF Complete, SpoolType, ThreadType, Checkpoint, Result, ServiceJobState, Chunk
  <2>2. ProcessType'
    BY <1>5 DEF Complete, ProcessType
  <2>3. ThreadType'
    BY <1>5 DEF Complete, ThreadType, ProcessType
  <2>4. QED
    BY <2>1, <2>2, <2>3
<1>6. ASSUME NEW j \in Jobs, TornComplete(j) PROVE TypeOK'
  <2>1. SpoolType'
    BY <1>6 DEF TornComplete, SpoolType, ThreadType, Checkpoint, Result, ServiceJobState, Chunk
  <2>2. ProcessType'
    BY <1>6 DEF TornComplete, ProcessType
  <2>3. ThreadType'
    BY <1>6 DEF TornComplete, ThreadType, ProcessType
  <2>4. QED
    BY <2>1, <2>2, <2>3
<1>7. ASSUME NEW j \in Jobs, StartQueued(j) PROVE TypeOK'
  <2>1. SpoolType'
    BY <1>7 DEF StartQueued, SpoolType, ThreadType, Checkpoint, Result, ServiceJobState, Chunk
  <2>2. ProcessType'
    BY <1>7 DEF StartQueued, ProcessType
  <2>3. ThreadType'
    BY <1>7 DEF StartQueued, ThreadType, ProcessType
  <2>4. QED
    BY <2>1, <2>2, <2>3
<1>8. ASSUME NEW j \in Jobs, StartPaused(j) PROVE TypeOK'
  <2>1. SpoolType'
    BY <1>8 DEF StartPaused, SpoolType, ThreadType, Checkpoint, Result, ServiceJobState, Chunk
  <2>2. ProcessType'
    BY <1>8 DEF StartPaused, ProcessType
  <2>3. ThreadType'
    BY <1>8 DEF StartPaused, ThreadType, ProcessType
  <2>4. QED
    BY <2>1, <2>2, <2>3
<1>9. ASSUME NEW j \in Jobs, Cancel(j) PROVE TypeOK'
  <2>0. queue' \in Seq(Jobs)
    BY <1>9, SelectsFacts DEF Cancel, ProcessType, SpoolType
  <2>1. SpoolType'
    BY <1>9 DEF Cancel, SpoolType, ThreadType, Checkpoint, Result, ServiceJobState, Chunk
  <2>2. ProcessType'
    BY <2>0, <1>9 DEF Cancel, ProcessType
  <2>3. ThreadType'
    BY <1>9 DEF Cancel, ThreadType, ProcessType
  <2>4. QED
    BY <2>1, <2>2, <2>3
<1>10. ASSUME Pop PROVE TypeOK'
  <2>1. SpoolType'
    BY <1>10 DEF Pop, SpoolType, ThreadType, Checkpoint, Result, ServiceJobState, Chunk
  <2>2. ProcessType'
    BY <1>10 DEF Pop, ProcessType
  <2>3. ThreadType'
    BY <1>10 DEF Pop, ThreadType, ProcessType
  <2>4. QED
    BY <2>1, <2>2, <2>3
<1>11. ASSUME CheckGate PROVE TypeOK'
  <2>1. SpoolType'
    BY <1>11 DEF CheckGate, Continue, SpoolType, ThreadType, Checkpoint, Result, ServiceJobState, Chunk
  <2>2. ProcessType'
    BY <1>11 DEF CheckGate, Continue, ProcessType
  <2>3. ThreadType'
    BY <1>11 DEF CheckGate, Continue, ThreadType, ProcessType
  <2>4. QED
    BY <2>1, <2>2, <2>3
<1>12. ASSUME Pause PROVE TypeOK'
  <2>1. SpoolType'
    BY <1>12 DEF Pause, SaveOrDie, Leave, SpoolType, ThreadType, Checkpoint, Result, ServiceJobState, Chunk
  <2>2. ProcessType'
    BY <1>12 DEF Pause, SaveOrDie, Leave, ProcessType
  <2>3. ThreadType'
    BY <1>12 DEF Pause, SaveOrDie, Leave, ThreadType, ProcessType, Chunk
  <2>4. QED
    BY <2>1, <2>2, <2>3
<1>13. ASSUME Begin PROVE TypeOK'
  <2>1. SpoolType'
    BY <1>13 DEF Begin, SaveOrDie, Leave, FailJob, Continue, SpoolType, ThreadType, Checkpoint, Result, ServiceJobState, Chunk
  <2>2. ProcessType'
    BY <1>13 DEF Begin, SaveOrDie, Leave, FailJob, Continue, ProcessType
  <2>3. ThreadType'
    <3>1. pc # "idle"
      BY <1>13 DEF Begin
    <3>2. Leave("idle") \/ Leave("dead") \/ Continue("load")
      BY <1>13 DEF Begin, FailJob, SaveOrDie
    <3>3. QED
      BY <3>1, <3>2, LeaveType, ContinueType DEF Positions
  <2>4. QED
    BY <2>1, <2>2, <2>3
<1>14. ASSUME Load PROVE TypeOK'
  <2>1. SpoolType'
    BY <1>14 DEF Load, Leave, SpoolType, ThreadType, Checkpoint, Result, ServiceJobState, Chunk
  <2>2. ProcessType'
    BY <1>14 DEF Load, Leave, ProcessType
  <2>3. ThreadType'
    BY <1>14 DEF Load, Leave, ThreadType, ProcessType, SpoolType, Checkpoint, Chunk
  <2>4. QED
    BY <2>1, <2>2, <2>3
<1>15. ASSUME Transcribe PROVE TypeOK'
  <2>0. /\ cur \in Jobs
        /\ next' \in 0 .. Chunks
        /\ segs' \in SUBSET Chunk
    <3>1. cur \in Jobs /\ next \in 0 .. Chunks /\ next < Chunks
      BY <1>15 DEF Transcribe, ThreadType
    <3>2. next' = next + 1
      BY <1>15 DEF Transcribe
    <3>3. next' \in 0 .. Chunks
      BY <3>1, <3>2
    <3>4. Speech[cur] \in SUBSET Chunk
      BY <3>1
    <3>5. segs \in SUBSET Chunk /\ segs' = segs \cup ({next} \cap Speech[cur])
      BY <1>15 DEF Transcribe, ThreadType
    <3>6. QED
      BY <3>1, <3>3, <3>4, <3>5
  <2>1. SpoolType'
    <3>1. [next |-> next', segs |-> segs'] \in Checkpoint
      BY <2>0 DEF Checkpoint
    <3>2. ckpt' \in [Jobs -> Checkpoint]
      BY <1>15, <3>1 DEF Transcribe, SpoolType
    <3>3. QED
      BY <1>15, <3>2 DEF Transcribe, SpoolType
  <2>2. ProcessType'
    BY <1>15 DEF Transcribe, ProcessType
  <2>3. ThreadType'
    BY <1>15, <2>0 DEF Transcribe, ThreadType
  <2>4. QED
    BY <2>1, <2>2, <2>3
<1>16. ASSUME NEW k \in FailureKind, EngineFails(k) PROVE TypeOK'
  <2>1. SpoolType'
    <3>1. [kind |-> k, segs |-> {}] \in Result
      BY DEF Result
    <3>2. result' \in [Jobs -> Result]
      BY <1>16, <3>1 DEF EngineFails, SaveResultOrDie, SpoolType
    <3>3. QED
      BY <1>16, <3>2 DEF EngineFails, SpoolType
  <2>2. ProcessType'
    BY <1>16 DEF EngineFails, SaveResultOrDie, Leave, Continue, FailureKind, ProcessType
  <2>3. ThreadType'
    <3>1. pc # "idle"
      BY <1>16 DEF EngineFails
    <3>2. Leave("idle") \/ Leave("dead") \/ Continue("failing")
      BY <1>16 DEF EngineFails, SaveResultOrDie
    <3>3. QED
      BY <3>1, <3>2, LeaveType, ContinueType DEF Positions
  <2>4. QED
    BY <2>1, <2>2, <2>3
<1>17. ASSUME CommitFailure PROVE TypeOK'
  <2>1. SpoolType'
    BY <1>17 DEF CommitFailure, FailJob, SaveOrDie, Leave, SpoolType, ThreadType, Checkpoint, Result, ServiceJobState, Chunk
  <2>2. ProcessType'
    BY <1>17 DEF CommitFailure, FailJob, SaveOrDie, Leave, ProcessType
  <2>3. ThreadType'
    BY <1>17 DEF CommitFailure, FailJob, SaveOrDie, Leave, ThreadType, ProcessType, Chunk
  <2>4. QED
    BY <2>1, <2>2, <2>3
<1>18. ASSUME InvalidOutput PROVE TypeOK'
  <2>1. SpoolType'
    BY <1>18 DEF InvalidOutput, FailJob, SaveOrDie, Leave, SpoolType, ThreadType, Checkpoint, Result, ServiceJobState, Chunk
  <2>2. ProcessType'
    BY <1>18 DEF InvalidOutput, FailJob, SaveOrDie, Leave, ProcessType
  <2>3. ThreadType'
    BY <1>18 DEF InvalidOutput, FailJob, SaveOrDie, Leave, ThreadType, ProcessType, Chunk
  <2>4. QED
    BY <2>1, <2>2, <2>3
<1>19. ASSUME NoSpeech PROVE TypeOK'
  <2>1. SpoolType'
    BY <1>19 DEF NoSpeech, FailJob, SaveOrDie, Leave, SpoolType, ThreadType, Checkpoint, Result, ServiceJobState, Chunk
  <2>2. ProcessType'
    BY <1>19 DEF NoSpeech, FailJob, SaveOrDie, Leave, ProcessType
  <2>3. ThreadType'
    BY <1>19 DEF NoSpeech, FailJob, SaveOrDie, Leave, ThreadType, ProcessType, Chunk
  <2>4. QED
    BY <2>1, <2>2, <2>3
<1>20. ASSUME WriteCandidate PROVE TypeOK'
  <2>1. SpoolType'
    <3>1. [kind |-> "candidate", segs |-> segs] \in Result
      BY DEF ThreadType, Result
    <3>2. result' \in [Jobs -> Result]
      BY <1>20, <3>1 DEF WriteCandidate, SaveResultOrDie, SpoolType
    <3>3. QED
      BY <1>20, <3>2 DEF WriteCandidate, SpoolType
  <2>2. ProcessType'
    BY <1>20 DEF WriteCandidate, SaveResultOrDie, Leave, Continue, ProcessType
  <2>3. ThreadType'
    <3>1. pc # "idle"
      BY <1>20 DEF WriteCandidate
    <3>2. Leave("idle") \/ Leave("dead") \/ Continue("committing")
      BY <1>20 DEF WriteCandidate, SaveResultOrDie
    <3>3. QED
      BY <3>1, <3>2, LeaveType, ContinueType DEF Positions
  <2>4. QED
    BY <2>1, <2>2, <2>3
<1>21. ASSUME CommitSuccess PROVE TypeOK'
  <2>1. SpoolType'
    BY <1>21 DEF CommitSuccess, SaveOrDie, Leave, SpoolType, ThreadType, Checkpoint, Result, ServiceJobState, Chunk
  <2>2. ProcessType'
    BY <1>21 DEF CommitSuccess, SaveOrDie, Leave, ProcessType
  <2>3. ThreadType'
    BY <1>21 DEF CommitSuccess, SaveOrDie, Leave, ThreadType, ProcessType, Chunk
  <2>4. QED
    BY <2>1, <2>2, <2>3
<1>22. ASSUME Crash PROVE TypeOK'
  <2>1. SpoolType'
    BY <1>22 DEF Crash, Leave, SpoolType, ThreadType, Checkpoint, Result, ServiceJobState, Chunk
  <2>2. ProcessType'
    <3>1. queue' \in Seq(Jobs)
      BY <1>22, EmptySeq DEF Crash
    <3>2. failures' \in Nat /\ crashes' \in 0 .. MaxCrashes
      BY <1>22 DEF Crash, ProcessType
    <3>3. QED
      BY <1>22, <3>1, <3>2, Zenon DEF Crash, ProcessType
  <2>3. ThreadType'
    BY <1>22 DEF Crash, Leave, ThreadType, ProcessType, SpoolType, Checkpoint, Chunk
  <2>4. QED
    BY <2>1, <2>2, <2>3
<1>23. ASSUME Restart PROVE TypeOK'
  <2>0. queue' \in Seq(Jobs)
    BY <1>23, SelectsFacts DEF Restart, ProcessType, SpoolType
  <2>1. SpoolType'
    BY <1>23 DEF Restart, SpoolType, ThreadType, Checkpoint, Result, ServiceJobState, Chunk
  <2>2. ProcessType'
    BY <2>0, <1>23 DEF Restart, ProcessType, SpoolType
  <2>3. ThreadType'
    BY <1>23 DEF Restart, ThreadType, ProcessType
  <2>4. QED
    BY <2>1, <2>2, <2>3
<1>24. ASSUME NEW j \in Jobs, FailedRestart(j) PROVE TypeOK'
  <2>1. SpoolType'
    BY <1>24 DEF FailedRestart, SpoolType, ThreadType, Checkpoint, Result, ServiceJobState, Chunk
  <2>2. ProcessType'
    BY <1>24 DEF FailedRestart, ProcessType
  <2>3. ThreadType'
    BY <1>24 DEF FailedRestart, ThreadType, ProcessType
  <2>4. QED
    BY <2>1, <2>2, <2>3
<1>25. ASSUME GateFlips PROVE TypeOK'
  <2>1. SpoolType'
    BY <1>25 DEF GateFlips, SpoolType, ThreadType, Checkpoint, Result, ServiceJobState, Chunk
  <2>2. ProcessType'
    BY <1>25 DEF GateFlips, ProcessType
  <2>3. ThreadType'
    BY <1>25 DEF GateFlips, ThreadType, ProcessType
  <2>4. QED
    BY <2>1, <2>2, <2>3
<1>26. ASSUME EngineFlips PROVE TypeOK'
  <2>1. SpoolType'
    BY <1>26 DEF EngineFlips, SpoolType, ThreadType, Checkpoint, Result, ServiceJobState, Chunk
  <2>2. ProcessType'
    BY <1>26 DEF EngineFlips, ProcessType
  <2>3. ThreadType'
    BY <1>26 DEF EngineFlips, ThreadType, ProcessType
  <2>4. QED
    BY <2>1, <2>2, <2>3
<1>27. CASE UNCHANGED vars
  BY <1>27 DEF vars, SpoolType, ProcessType, ThreadType
<1>28. QED
  BY <1>1, <1>2, <1>3, <1>4, <1>5, <1>6, <1>7, <1>8, <1>9, <1>10, <1>11,
     <1>12, <1>13, <1>14, <1>15, <1>16, <1>17, <1>18, <1>19, <1>20, <1>21,
     <1>22, <1>23, <1>24, <1>25, <1>26, <1>27
     DEF Next, Client, Runner

-----------------------------------------------------------------------------
(* One active job: what the thread holds, and what a dead process forgot. *)
LEMMA ThreadNext ==
  ASSUME ConstantsAssumption, TypeOK, Down, Holding, SingleActive, [Next]_vars
  PROVE  Down' /\ Holding' /\ SingleActive'
<1> USE DEF ConstantsAssumption, TypeOK, upload, spool, thread, latch, env, HandlersOwn, ThreadType, ProcessType, SpoolType, Working, Down, Holding, SingleActive
<1>1. ASSUME NEW j \in Jobs, Create(j) PROVE Down' /\ Holding' /\ SingleActive'
  BY <1>1 DEF Create, Admits, LockFree
<1>2. ASSUME NEW j \in Jobs, TornCreate(j) PROVE Down' /\ Holding' /\ SingleActive'
  BY <1>2 DEF TornCreate, Admits, LockFree
<1>3. ASSUME NEW j \in Jobs, Upload(j) PROVE Down' /\ Holding' /\ SingleActive'
  BY <1>3 DEF Upload
<1>4. ASSUME NEW j \in Jobs, TornUpload(j) PROVE Down' /\ Holding' /\ SingleActive'
  BY <1>4 DEF TornUpload
<1>5. ASSUME NEW j \in Jobs, Complete(j) PROVE Down' /\ Holding' /\ SingleActive'
  BY <1>5 DEF Complete
<1>6. ASSUME NEW j \in Jobs, TornComplete(j) PROVE Down' /\ Holding' /\ SingleActive'
  BY <1>6 DEF TornComplete
<1>7. ASSUME NEW j \in Jobs, StartQueued(j) PROVE Down' /\ Holding' /\ SingleActive'
  BY <1>7 DEF StartQueued, LockFree
<1>8. ASSUME NEW j \in Jobs, StartPaused(j) PROVE Down' /\ Holding' /\ SingleActive'
  BY <1>8 DEF StartPaused, LockFree
<1>9. ASSUME NEW j \in Jobs, Cancel(j) PROVE Down' /\ Holding' /\ SingleActive'
  BY <1>9 DEF Cancel, LockFree, Allowed
<1>10. ASSUME Pop PROVE Down' /\ Holding' /\ SingleActive'
  BY <1>10 DEF Pop
<1>11. ASSUME CheckGate PROVE Down' /\ Holding' /\ SingleActive'
  BY <1>11 DEF CheckGate, Continue, MayRun
<1>12. ASSUME Pause PROVE Down' /\ Holding' /\ SingleActive'
  BY <1>12 DEF Pause, SaveOrDie, Leave, Allowed
<1>13. ASSUME Begin PROVE Down' /\ Holding' /\ SingleActive'
  BY <1>13 DEF Begin, FailJob, SaveOrDie, Leave, Continue, Allowed
<1>14. ASSUME Load PROVE Down' /\ Holding' /\ SingleActive'
  BY <1>14 DEF Load, Leave
<1>15. ASSUME Transcribe PROVE Down' /\ Holding' /\ SingleActive'
  BY <1>15 DEF Transcribe
<1>16. ASSUME NEW k \in FailureKind, EngineFails(k) PROVE Down' /\ Holding' /\ SingleActive'
  BY <1>16 DEF EngineFails, SaveResultOrDie, Leave, Continue
<1>17. ASSUME CommitFailure PROVE Down' /\ Holding' /\ SingleActive'
  BY <1>17 DEF CommitFailure, FailJob, SaveOrDie, Leave, Allowed
<1>18. ASSUME InvalidOutput PROVE Down' /\ Holding' /\ SingleActive'
  BY <1>18 DEF InvalidOutput, FailJob, SaveOrDie, Leave, Allowed
<1>19. ASSUME NoSpeech PROVE Down' /\ Holding' /\ SingleActive'
  BY <1>19 DEF NoSpeech, FailJob, SaveOrDie, Leave, Allowed
<1>20. ASSUME WriteCandidate PROVE Down' /\ Holding' /\ SingleActive'
  BY <1>20 DEF WriteCandidate, SaveResultOrDie, Leave, Continue
<1>21. ASSUME CommitSuccess PROVE Down' /\ Holding' /\ SingleActive'
  BY <1>21 DEF CommitSuccess, SaveOrDie, Leave, Allowed
<1>22. ASSUME Crash PROVE Down' /\ Holding' /\ SingleActive'
  BY <1>22 DEF Crash, Leave
<1>23. ASSUME Restart PROVE Down' /\ Holding' /\ SingleActive'
  BY <1>23 DEF Restart, Resumable
<1>24. ASSUME NEW j \in Jobs, FailedRestart(j) PROVE Down' /\ Holding' /\ SingleActive'
  BY <1>24 DEF FailedRestart
<1>25. ASSUME GateFlips PROVE Down' /\ Holding' /\ SingleActive'
  BY <1>25 DEF GateFlips
<1>26. ASSUME EngineFlips PROVE Down' /\ Holding' /\ SingleActive'
  BY <1>26 DEF EngineFlips
<1>27. CASE UNCHANGED vars
  BY <1>27 DEF vars
<1>. QED
  BY <1>1, <1>2, <1>3, <1>4, <1>5, <1>6, <1>7, <1>8, <1>9, <1>10, <1>11, <1>12, <1>13, <1>14, <1>15, <1>16, <1>17, <1>18, <1>19, <1>20, <1>21, <1>22, <1>23, <1>24, <1>25, <1>26, <1>27 DEF Next, Client, Runner

-----------------------------------------------------------------------------
(* The latches close the gate before any further job begins. *)
LEMMA LatchNext ==
  ASSUME ConstantsAssumption, TypeOK, Down, FailClosed, BeginUnlatched, [Next]_vars
  PROVE  FailClosed' /\ BeginUnlatched'
<1> USE DEF ConstantsAssumption, TypeOK, upload, spool, thread, latch, env, HandlersOwn, ThreadType, ProcessType, FailClosed, BeginUnlatched, Working, Down
<1>1. ASSUME NEW j \in Jobs, Create(j) PROVE FailClosed' /\ BeginUnlatched'
  BY <1>1 DEF Create, Admits, LockFree
<1>2. ASSUME NEW j \in Jobs, TornCreate(j) PROVE FailClosed' /\ BeginUnlatched'
  BY <1>2 DEF TornCreate, Admits, LockFree
<1>3. ASSUME NEW j \in Jobs, Upload(j) PROVE FailClosed' /\ BeginUnlatched'
  BY <1>3 DEF Upload
<1>4. ASSUME NEW j \in Jobs, TornUpload(j) PROVE FailClosed' /\ BeginUnlatched'
  BY <1>4 DEF TornUpload
<1>5. ASSUME NEW j \in Jobs, Complete(j) PROVE FailClosed' /\ BeginUnlatched'
  BY <1>5 DEF Complete
<1>6. ASSUME NEW j \in Jobs, TornComplete(j) PROVE FailClosed' /\ BeginUnlatched'
  BY <1>6 DEF TornComplete
<1>7. ASSUME NEW j \in Jobs, StartQueued(j) PROVE FailClosed' /\ BeginUnlatched'
  BY <1>7 DEF StartQueued
<1>8. ASSUME NEW j \in Jobs, StartPaused(j) PROVE FailClosed' /\ BeginUnlatched'
  BY <1>8 DEF StartPaused
<1>9. ASSUME NEW j \in Jobs, Cancel(j) PROVE FailClosed' /\ BeginUnlatched'
  BY <1>9 DEF Cancel, LockFree, Allowed
<1>10. ASSUME Pop PROVE FailClosed' /\ BeginUnlatched'
  BY <1>10 DEF Pop
<1>11. ASSUME CheckGate PROVE FailClosed' /\ BeginUnlatched'
  BY <1>11 DEF CheckGate, Continue, MayRun
<1>12. ASSUME Pause PROVE FailClosed' /\ BeginUnlatched'
  BY <1>12 DEF Pause, SaveOrDie, Leave, Allowed
<1>13. ASSUME Begin PROVE FailClosed' /\ BeginUnlatched'
  BY <1>13 DEF Begin, FailJob, SaveOrDie, Leave, Continue, Allowed
<1>14. ASSUME Load PROVE FailClosed' /\ BeginUnlatched'
  BY <1>14 DEF Load, Leave
<1>15. ASSUME Transcribe PROVE FailClosed' /\ BeginUnlatched'
  BY <1>15 DEF Transcribe
<1>16. ASSUME NEW k \in FailureKind, EngineFails(k) PROVE FailClosed' /\ BeginUnlatched'
  BY <1>16 DEF EngineFails, SaveResultOrDie, Leave, Continue
<1>17. ASSUME CommitFailure PROVE FailClosed' /\ BeginUnlatched'
  BY <1>17 DEF CommitFailure, FailJob, SaveOrDie, Leave, Allowed
<1>18. ASSUME InvalidOutput PROVE FailClosed' /\ BeginUnlatched'
  BY <1>18 DEF InvalidOutput, FailJob, SaveOrDie, Leave, Allowed
<1>19. ASSUME NoSpeech PROVE FailClosed' /\ BeginUnlatched'
  BY <1>19 DEF NoSpeech, FailJob, SaveOrDie, Leave, Allowed
<1>20. ASSUME WriteCandidate PROVE FailClosed' /\ BeginUnlatched'
  BY <1>20 DEF WriteCandidate, SaveResultOrDie, Leave, Continue
<1>21. ASSUME CommitSuccess PROVE FailClosed' /\ BeginUnlatched'
  BY <1>21 DEF CommitSuccess, SaveOrDie, Leave, Allowed
<1>22. ASSUME Crash PROVE FailClosed' /\ BeginUnlatched'
  BY <1>22 DEF Crash, Leave
<1>23. ASSUME Restart PROVE FailClosed' /\ BeginUnlatched'
  BY <1>23 DEF Restart, Resumable
<1>24. ASSUME NEW j \in Jobs, FailedRestart(j) PROVE FailClosed' /\ BeginUnlatched'
  BY <1>24 DEF FailedRestart
<1>25. ASSUME GateFlips PROVE FailClosed' /\ BeginUnlatched'
  BY <1>25 DEF GateFlips
<1>26. ASSUME EngineFlips PROVE FailClosed' /\ BeginUnlatched'
  BY <1>26 DEF EngineFlips
<1>27. CASE UNCHANGED vars
  BY <1>27 DEF vars
<1>. QED
  BY <1>1, <1>2, <1>3, <1>4, <1>5, <1>6, <1>7, <1>8, <1>9, <1>10, <1>11, <1>12, <1>13, <1>14, <1>15, <1>16, <1>17, <1>18, <1>19, <1>20, <1>21, <1>22, <1>23, <1>24, <1>25, <1>26, <1>27 DEF Next, Client, Runner

-----------------------------------------------------------------------------
(* Checkpoints and results tell the truth about the windows transcribed. *)
LEMMA TranscriptNext ==
  ASSUME ConstantsAssumption, TypeOK, Holding, CheckpointExact, Stored, [Next]_vars
  PROVE  CheckpointExact' /\ Stored'
<1> USE DEF ConstantsAssumption, TypeOK, upload, spool, thread, latch, env, HandlersOwn, ThreadType, SpoolType, Checkpoint, Result, NoResult, Chunk, Holding, CheckpointExact, Stored, FailureKind
<1>1. ASSUME NEW j \in Jobs, Create(j) PROVE CheckpointExact' /\ Stored'
  BY <1>1 DEF Create, Admits, LockFree
<1>2. ASSUME NEW j \in Jobs, TornCreate(j) PROVE CheckpointExact' /\ Stored'
  BY <1>2 DEF TornCreate, Admits, LockFree
<1>3. ASSUME NEW j \in Jobs, Upload(j) PROVE CheckpointExact' /\ Stored'
  BY <1>3 DEF Upload
<1>4. ASSUME NEW j \in Jobs, TornUpload(j) PROVE CheckpointExact' /\ Stored'
  BY <1>4 DEF TornUpload
<1>5. ASSUME NEW j \in Jobs, Complete(j) PROVE CheckpointExact' /\ Stored'
  BY <1>5 DEF Complete
<1>6. ASSUME NEW j \in Jobs, TornComplete(j) PROVE CheckpointExact' /\ Stored'
  BY <1>6 DEF TornComplete
<1>7. ASSUME NEW j \in Jobs, StartQueued(j) PROVE CheckpointExact' /\ Stored'
  BY <1>7 DEF StartQueued
<1>8. ASSUME NEW j \in Jobs, StartPaused(j) PROVE CheckpointExact' /\ Stored'
  BY <1>8 DEF StartPaused
<1>9. ASSUME NEW j \in Jobs, Cancel(j) PROVE CheckpointExact' /\ Stored'
  BY <1>9 DEF Cancel, LockFree, Allowed
<1>10. ASSUME Pop PROVE CheckpointExact' /\ Stored'
  BY <1>10 DEF Pop
<1>11. ASSUME CheckGate PROVE CheckpointExact' /\ Stored'
  BY <1>11 DEF CheckGate, Continue, MayRun
<1>12. ASSUME Pause PROVE CheckpointExact' /\ Stored'
  BY <1>12 DEF Pause, SaveOrDie, Leave, Allowed
<1>13. ASSUME Begin PROVE CheckpointExact' /\ Stored'
  BY <1>13 DEF Begin, FailJob, SaveOrDie, Leave, Continue, Allowed
<1>14. ASSUME Load PROVE CheckpointExact' /\ Stored'
  BY <1>14 DEF Load, Leave
<1>15. ASSUME Transcribe PROVE CheckpointExact' /\ Stored'
  <2>1. /\ cur \in Jobs /\ next \in 0 .. Chunks /\ next < Chunks /\ pc = "chunk"
        /\ next' = next + 1
        /\ segs' = segs \cup ({next} \cap Speech[cur])
        /\ ckpt' = [ckpt EXCEPT ![cur] = [next |-> next', segs |-> segs']]
        /\ UNCHANGED <<state, result, pc, cur>>
    BY <1>15 DEF Transcribe
  <2>2. ckpt[cur].next = next /\ segs = {c \in Speech[cur] : c < next}
    BY <2>1
  <2>3. Speech[cur] \in SUBSET (0 .. Chunks - 1)
    BY <2>1
  <2>4. segs' = {c \in Speech[cur] : c < next'}
    BY <2>1, <2>2, <2>3
  <2>5. /\ ckpt'[cur] = [next |-> next', segs |-> segs']
        /\ \A j \in Jobs : j # cur => ckpt'[j] = ckpt[j]
    BY <2>1
  <2>6. CheckpointExact'
    BY <2>1, <2>4, <2>5
  <2>7. result[cur].kind # "candidate"
    BY <2>1, <2>2
  <2>8. Stored'
    BY <2>1, <2>5, <2>7
  <2>9. QED
    BY <2>6, <2>8
<1>16. ASSUME NEW k \in FailureKind, EngineFails(k) PROVE CheckpointExact' /\ Stored'
  <2>1. /\ cur \in Jobs /\ pc = "chunk" /\ ckpt[cur].next < Chunks
        /\ ckpt[cur] = [next |-> next, segs |-> segs]
        /\ UNCHANGED <<state, ckpt>>
    BY <1>16 DEF EngineFails
  <2>2. result[cur].kind # "candidate" /\ k # "candidate"
    BY <2>1
  <2>3. CASE Leave("idle") /\ UNCHANGED result
    BY <2>1, <2>3 DEF Leave
  <2>4. CASE Leave("dead") /\ UNCHANGED result
    BY <2>1, <2>4 DEF Leave
  <2>5. CASE /\ Continue("failing")
             /\ result' = [result EXCEPT ![cur] = [kind |-> k, segs |-> {}]]
    <3>1. /\ result'[cur].kind = k
          /\ \A j \in Jobs : j # cur => result'[j] = result[j]
      BY <2>1, <2>5
    <3>2. CheckpointExact'
      BY <2>1, <2>5 DEF Continue
    <3>3. Stored'
      <4>1. state[cur] \in {"running", "cancelled"}
        BY <2>1
      <4>2. QED
        BY <2>1, <2>2, <2>5, <3>1, <4>1 DEF Continue
    <3>4. QED
      BY <3>2, <3>3
  <2>6. QED
    BY <1>16, <2>3, <2>4, <2>5 DEF EngineFails, SaveResultOrDie
<1>17. ASSUME CommitFailure PROVE CheckpointExact' /\ Stored'
  BY <1>17 DEF CommitFailure, FailJob, SaveOrDie, Leave, Allowed
<1>18. ASSUME InvalidOutput PROVE CheckpointExact' /\ Stored'
  BY <1>18 DEF InvalidOutput, FailJob, SaveOrDie, Leave, Allowed
<1>19. ASSUME NoSpeech PROVE CheckpointExact' /\ Stored'
  BY <1>19 DEF NoSpeech, FailJob, SaveOrDie, Leave, Allowed
<1>20. ASSUME WriteCandidate PROVE CheckpointExact' /\ Stored'
  <2>1. /\ cur \in Jobs /\ pc = "chunk" /\ next = Chunks /\ segs # {}
        /\ state[cur] \in {"running", "cancelled"}
        /\ ckpt[cur] = [next |-> next, segs |-> segs]
        /\ UNCHANGED <<state, ckpt>>
    BY <1>20 DEF WriteCandidate
  <2>2. segs = Speech[cur]
    <3>1. segs = {c \in Speech[cur] : c < Chunks}
      BY <2>1
    <3>2. Speech[cur] \in SUBSET (0 .. Chunks - 1)
      BY <2>1
    <3>3. QED
      BY <3>1, <3>2
  <2>3. CASE Leave("idle") /\ UNCHANGED result
    BY <2>1, <2>3 DEF Leave
  <2>4. CASE Leave("dead") /\ UNCHANGED result
    BY <2>1, <2>4 DEF Leave
  <2>5. CASE /\ Continue("committing")
             /\ result' = [result EXCEPT ![cur] = [kind |-> "candidate", segs |-> segs]]
    <3>1. /\ result'[cur] = [kind |-> "candidate", segs |-> segs]
          /\ \A j \in Jobs : j # cur => result'[j] = result[j]
      BY <2>1, <2>5
    <3>2. CheckpointExact'
      BY <2>1, <2>5 DEF Continue
    <3>3. Stored'
      BY <2>1, <2>2, <2>5, <3>1 DEF Continue
    <3>4. QED
      BY <3>2, <3>3
  <2>6. QED
    BY <1>20, <2>3, <2>4, <2>5 DEF WriteCandidate, SaveResultOrDie
<1>21. ASSUME CommitSuccess PROVE CheckpointExact' /\ Stored'
  BY <1>21 DEF CommitSuccess, SaveOrDie, Leave, Allowed
<1>22. ASSUME Crash PROVE CheckpointExact' /\ Stored'
  BY <1>22 DEF Crash, Leave
<1>23. ASSUME Restart PROVE CheckpointExact' /\ Stored'
  BY <1>23 DEF Restart, Resumable
<1>24. ASSUME NEW j \in Jobs, FailedRestart(j) PROVE CheckpointExact' /\ Stored'
  BY <1>24 DEF FailedRestart
<1>25. ASSUME GateFlips PROVE CheckpointExact' /\ Stored'
  BY <1>25 DEF GateFlips
<1>26. ASSUME EngineFlips PROVE CheckpointExact' /\ Stored'
  BY <1>26 DEF EngineFlips
<1>27. CASE UNCHANGED vars
  BY <1>27 DEF vars
<1>. QED
  BY <1>1, <1>2, <1>3, <1>4, <1>5, <1>6, <1>7, <1>8, <1>9, <1>10, <1>11, <1>12, <1>13, <1>14, <1>15, <1>16, <1>17, <1>18, <1>19, <1>20, <1>21, <1>22, <1>23, <1>24, <1>25, <1>26, <1>27 DEF Next, Client, Runner

-----------------------------------------------------------------------------
(* Every job sorts into the recovery order. *)
LEMMA RecoverableNext ==
  ASSUME ConstantsAssumption, TypeOK, Recoverable, [Next]_vars
  PROVE  Recoverable'
<1> USE DEF ConstantsAssumption, TypeOK, upload, spool, thread, latch, env, HandlersOwn, SpoolType, ThreadType, Recoverable, Working
<1>1. ASSUME NEW j \in Jobs, Create(j) PROVE Recoverable'
  BY <1>1, InAppend DEF Create, Admits, LockFree
<1>2. ASSUME NEW j \in Jobs, TornCreate(j) PROVE Recoverable'
  <2>1. CASE stray' = TRUE /\ UNCHANGED <<state, born>>
    BY <2>1
  <2>2. CASE /\ state' = [state EXCEPT ![j] = "torn"]
             /\ born' = Append(born, j)
    BY <2>2, InAppend
  <2>3. QED
    BY <1>2, <2>1, <2>2 DEF TornCreate
<1>3. ASSUME NEW j \in Jobs, Upload(j) PROVE Recoverable'
  BY <1>3 DEF Upload
<1>4. ASSUME NEW j \in Jobs, TornUpload(j) PROVE Recoverable'
  BY <1>4 DEF TornUpload
<1>5. ASSUME NEW j \in Jobs, Complete(j) PROVE Recoverable'
  <2>1. /\ born' = born /\ state[j] # "absent"
        /\ state' = [state EXCEPT ![j] = "queued"]
    BY <1>5 DEF Complete
  <2>2. QED
    BY <2>1
<1>6. ASSUME NEW j \in Jobs, TornComplete(j) PROVE Recoverable'
  BY <1>6 DEF TornComplete
<1>7. ASSUME NEW j \in Jobs, StartQueued(j) PROVE Recoverable'
  BY <1>7 DEF StartQueued
<1>8. ASSUME NEW j \in Jobs, StartPaused(j) PROVE Recoverable'
  <2>1. born' = born /\ \A i \in Jobs : state'[i] # "absent" => state[i] # "absent"
    BY <1>8 DEF StartPaused
  <2>2. QED
    BY <2>1
<1>9. ASSUME NEW j \in Jobs, Cancel(j) PROVE Recoverable'
  BY <1>9 DEF Cancel, LockFree, Allowed
<1>10. ASSUME Pop PROVE Recoverable'
  BY <1>10 DEF Pop
<1>11. ASSUME CheckGate PROVE Recoverable'
  BY <1>11 DEF CheckGate, Continue, MayRun
<1>12. ASSUME Pause PROVE Recoverable'
  BY <1>12 DEF Pause, SaveOrDie, Leave, Allowed
<1>13. ASSUME Begin PROVE Recoverable'
  BY <1>13 DEF Begin, FailJob, SaveOrDie, Leave, Continue, Allowed
<1>14. ASSUME Load PROVE Recoverable'
  BY <1>14 DEF Load, Leave
<1>15. ASSUME Transcribe PROVE Recoverable'
  BY <1>15 DEF Transcribe
<1>16. ASSUME NEW k \in FailureKind, EngineFails(k) PROVE Recoverable'
  BY <1>16 DEF EngineFails, SaveResultOrDie, Leave, Continue
<1>17. ASSUME CommitFailure PROVE Recoverable'
  BY <1>17 DEF CommitFailure, FailJob, SaveOrDie, Leave, Allowed
<1>18. ASSUME InvalidOutput PROVE Recoverable'
  BY <1>18 DEF InvalidOutput, FailJob, SaveOrDie, Leave, Allowed
<1>19. ASSUME NoSpeech PROVE Recoverable'
  BY <1>19 DEF NoSpeech, FailJob, SaveOrDie, Leave, Allowed
<1>20. ASSUME WriteCandidate PROVE Recoverable'
  BY <1>20 DEF WriteCandidate, SaveResultOrDie, Leave, Continue
<1>21. ASSUME CommitSuccess PROVE Recoverable'
  BY <1>21 DEF CommitSuccess, SaveOrDie, Leave, Allowed
<1>22. ASSUME Crash PROVE Recoverable'
  BY <1>22 DEF Crash, Leave
<1>23. ASSUME Restart PROVE Recoverable'
  BY <1>23 DEF Restart, Resumable
<1>24. ASSUME NEW j \in Jobs, FailedRestart(j) PROVE Recoverable'
  BY <1>24 DEF FailedRestart
<1>25. ASSUME GateFlips PROVE Recoverable'
  BY <1>25 DEF GateFlips
<1>26. ASSUME EngineFlips PROVE Recoverable'
  BY <1>26 DEF EngineFlips
<1>27. CASE UNCHANGED vars
  BY <1>27 DEF vars
<1>. QED
  BY <1>1, <1>2, <1>3, <1>4, <1>5, <1>6, <1>7, <1>8, <1>9, <1>10, <1>11, <1>12, <1>13, <1>14, <1>15, <1>16, <1>17, <1>18, <1>19, <1>20, <1>21, <1>22, <1>23, <1>24, <1>25, <1>26, <1>27 DEF Next, Client, Runner

(* A started job never goes back to its upload. *)
LEMMA StartedNext ==
  ASSUME ConstantsAssumption, TypeOK, Holding, Started, [Next]_vars
  PROVE  Started'
<1> USE DEF ConstantsAssumption, TypeOK, upload, spool, thread, latch, env, HandlersOwn, SpoolType, ThreadType, ProcessType, Started, Holding
<1>1. ASSUME NEW j \in Jobs, Create(j) PROVE Started'
  BY <1>1 DEF Create, Admits, LockFree
<1>2. ASSUME NEW j \in Jobs, TornCreate(j) PROVE Started'
  BY <1>2 DEF TornCreate, Admits, LockFree
<1>3. ASSUME NEW j \in Jobs, Upload(j) PROVE Started'
  BY <1>3 DEF Upload
<1>4. ASSUME NEW j \in Jobs, TornUpload(j) PROVE Started'
  BY <1>4 DEF TornUpload
<1>5. ASSUME NEW j \in Jobs, Complete(j) PROVE Started'
  BY <1>5 DEF Complete
<1>6. ASSUME NEW j \in Jobs, TornComplete(j) PROVE Started'
  BY <1>6 DEF TornComplete
<1>7. ASSUME NEW j \in Jobs, StartQueued(j) PROVE Started'
  BY <1>7 DEF StartQueued
<1>8. ASSUME NEW j \in Jobs, StartPaused(j) PROVE Started'
  BY <1>8 DEF StartPaused
<1>9. ASSUME NEW j \in Jobs, Cancel(j) PROVE Started'
  BY <1>9 DEF Cancel, LockFree, Allowed
<1>10. ASSUME Pop PROVE Started'
  BY <1>10 DEF Pop
<1>11. ASSUME CheckGate PROVE Started'
  BY <1>11 DEF CheckGate, Continue, MayRun
<1>12. ASSUME Pause PROVE Started'
  BY <1>12 DEF Pause, SaveOrDie, Leave, Allowed
<1>13. ASSUME Begin PROVE Started'
  BY <1>13 DEF Begin, FailJob, SaveOrDie, Leave, Continue, Allowed
<1>14. ASSUME Load PROVE Started'
  BY <1>14 DEF Load, Leave
<1>15. ASSUME Transcribe PROVE Started'
  BY <1>15 DEF Transcribe
<1>16. ASSUME NEW k \in FailureKind, EngineFails(k) PROVE Started'
  BY <1>16 DEF EngineFails, SaveResultOrDie, Leave, Continue
<1>17. ASSUME CommitFailure PROVE Started'
  BY <1>17 DEF CommitFailure, FailJob, SaveOrDie, Leave, Allowed
<1>18. ASSUME InvalidOutput PROVE Started'
  BY <1>18 DEF InvalidOutput, FailJob, SaveOrDie, Leave, Allowed
<1>19. ASSUME NoSpeech PROVE Started'
  BY <1>19 DEF NoSpeech, FailJob, SaveOrDie, Leave, Allowed
<1>20. ASSUME WriteCandidate PROVE Started'
  BY <1>20 DEF WriteCandidate, SaveResultOrDie, Leave, Continue
<1>21. ASSUME CommitSuccess PROVE Started'
  BY <1>21 DEF CommitSuccess, SaveOrDie, Leave, Allowed
<1>22. ASSUME Crash PROVE Started'
  BY <1>22 DEF Crash, Leave
<1>23. ASSUME Restart PROVE Started'
  BY <1>23 DEF Restart, Resumable
<1>24. ASSUME NEW j \in Jobs, FailedRestart(j) PROVE Started'
  BY <1>24 DEF FailedRestart
<1>25. ASSUME GateFlips PROVE Started'
  BY <1>25 DEF GateFlips
<1>26. ASSUME EngineFlips PROVE Started'
  BY <1>26 DEF EngineFlips
<1>27. CASE UNCHANGED vars
  BY <1>27 DEF vars
<1>. QED
  BY <1>1, <1>2, <1>3, <1>4, <1>5, <1>6, <1>7, <1>8, <1>9, <1>10, <1>11, <1>12, <1>13, <1>14, <1>15, <1>16, <1>17, <1>18, <1>19, <1>20, <1>21, <1>22, <1>23, <1>24, <1>25, <1>26, <1>27 DEF Next, Client, Runner

(* The queue loses no job that was accepted. *)
LEMMA QueueNext ==
  ASSUME ConstantsAssumption, TypeOK, Recoverable, Holding, Down, Started, NoLostJob, [Next]_vars
  PROVE  NoLostJob'
<1> USE DEF ConstantsAssumption, TypeOK, SpoolType, ProcessType, ThreadType, upload, spool, thread, latch, env, HandlersOwn, Holding, Down, Started, NoLostJob, Queued
<1>1. ASSUME NEW j \in Jobs, Create(j) PROVE NoLostJob'
  BY <1>1 DEF Create, Admits, LockFree
<1>2. ASSUME NEW j \in Jobs, TornCreate(j) PROVE NoLostJob'
  <2>1. /\ accepted' = accepted /\ queue' = queue
        /\ \A i \in accepted : up' /\ state'[i] = "queued" =>
             up /\ state[i] = "queued" /\ (cur = i => cur' = i)
    BY <1>2 DEF TornCreate, Admits, LockFree
  <2>2. QED
    BY <2>1, Zenon
<1>3. ASSUME NEW j \in Jobs, Upload(j) PROVE NoLostJob'
  BY <1>3 DEF Upload
<1>4. ASSUME NEW j \in Jobs, TornUpload(j) PROVE NoLostJob'
  BY <1>4 DEF TornUpload
<1>5. ASSUME NEW j \in Jobs, Complete(j) PROVE NoLostJob'
  BY <1>5 DEF Complete
<1>6. ASSUME NEW j \in Jobs, TornComplete(j) PROVE NoLostJob'
  BY <1>6 DEF TornComplete
<1>7. ASSUME NEW j \in Jobs, StartQueued(j) PROVE NoLostJob'
  <2>1. queue' = queue \/ queue' = Append(queue, j)
    BY <1>7 DEF StartQueued
  <2>2. Contains(queue', j) /\ \A i \in Jobs : Contains(queue, i) => Contains(queue', i)
    <3>1. queue \in Seq(Jobs) /\ j \in Jobs
      OBVIOUS
    <3>2. CASE queue' = queue
      BY <1>7, <3>2 DEF StartQueued
    <3>3. CASE queue' = Append(queue, j)
      BY <3>1, <3>3, InAppend
    <3>4. QED
      BY <2>1, <3>2, <3>3
  <2>3. /\ accepted' = accepted \cup {j} /\ up /\ cur' = cur
        /\ \A i \in Jobs : i # j => state'[i] = state[i]
    BY <1>7 DEF StartQueued, LockFree
  <2>4. QED
    BY <2>2, <2>3
<1>8. ASSUME NEW j \in Jobs, StartPaused(j) PROVE NoLostJob'
  <2>1. queue' = Append(queue, j)
    BY <1>8 DEF StartPaused
  <2>2. Contains(queue', j) /\ \A i \in Jobs : Contains(queue, i) => Contains(queue', i)
    <3>1. queue \in Seq(Jobs) /\ j \in Jobs
      OBVIOUS
    <3>2. QED
      BY <3>1, <2>1, InAppend
  <2>3. /\ accepted' = accepted \cup {j} /\ up /\ cur' = cur
        /\ \A i \in Jobs : i # j => state'[i] = state[i]
    BY <1>8 DEF StartPaused, LockFree
  <2>4. QED
    BY <2>2, <2>3
<1>9. ASSUME NEW j \in Jobs, Cancel(j) PROVE NoLostJob'
  <2>1. \A i \in Jobs : i # j /\ Contains(queue, i) => Contains(queue', i)
    BY <1>9, SelectsFacts DEF Cancel
  <2>2. /\ accepted' = accepted /\ up /\ cur' = cur
        /\ state'[j] # "queued"
        /\ \A i \in Jobs : i # j => state'[i] = state[i]
    BY <1>9 DEF Cancel, LockFree
  <2>3. QED
    BY <2>1, <2>2
<1>10. ASSUME Pop PROVE NoLostJob'
  BY <1>10, InTail DEF Pop
<1>11. ASSUME CheckGate PROVE NoLostJob'
  BY <1>11 DEF CheckGate, Continue, MayRun
<1>12. ASSUME Pause PROVE NoLostJob'
  <2>1. /\ accepted' = accepted /\ queue' = queue
        /\ \A i \in accepted : up' /\ state'[i] = "queued" =>
             up /\ state[i] = "queued" /\ (cur = i => cur' = i)
    BY <1>12 DEF Pause, SaveOrDie, Leave, Allowed
  <2>2. QED
    BY <2>1, Zenon
<1>13. ASSUME Begin PROVE NoLostJob'
  <2>1. /\ accepted' = accepted /\ queue' = queue
        /\ \A i \in accepted : up' /\ state'[i] = "queued" =>
             up /\ state[i] = "queued" /\ (cur = i => cur' = i)
    BY <1>13 DEF Begin, FailJob, SaveOrDie, Leave, Continue, Allowed
  <2>2. QED
    BY <2>1, Zenon
<1>14. ASSUME Load PROVE NoLostJob'
  BY <1>14 DEF Load, Leave
<1>15. ASSUME Transcribe PROVE NoLostJob'
  BY <1>15 DEF Transcribe
<1>16. ASSUME NEW k \in FailureKind, EngineFails(k) PROVE NoLostJob'
  <2>1. /\ accepted' = accepted /\ queue' = queue
        /\ \A i \in accepted : up' /\ state'[i] = "queued" =>
             up /\ state[i] = "queued" /\ (cur = i => cur' = i)
    BY <1>16 DEF EngineFails, SaveResultOrDie, Leave, Continue
  <2>2. QED
    BY <2>1, Zenon
<1>17. ASSUME CommitFailure PROVE NoLostJob'
  <2>1. /\ accepted' = accepted /\ queue' = queue
        /\ \A i \in accepted : up' /\ state'[i] = "queued" =>
             up /\ state[i] = "queued" /\ (cur = i => cur' = i)
    BY <1>17 DEF CommitFailure, FailJob, SaveOrDie, Leave, Allowed
  <2>2. QED
    BY <2>1, Zenon
<1>18. ASSUME InvalidOutput PROVE NoLostJob'
  <2>1. /\ accepted' = accepted /\ queue' = queue
        /\ \A i \in accepted : up' /\ state'[i] = "queued" =>
             up /\ state[i] = "queued" /\ (cur = i => cur' = i)
    BY <1>18 DEF InvalidOutput, FailJob, SaveOrDie, Leave, Allowed
  <2>2. QED
    BY <2>1, Zenon
<1>19. ASSUME NoSpeech PROVE NoLostJob'
  <2>1. /\ accepted' = accepted /\ queue' = queue
        /\ \A i \in accepted : up' /\ state'[i] = "queued" =>
             up /\ state[i] = "queued" /\ (cur = i => cur' = i)
    BY <1>19 DEF NoSpeech, FailJob, SaveOrDie, Leave, Allowed
  <2>2. QED
    BY <2>1, Zenon
<1>20. ASSUME WriteCandidate PROVE NoLostJob'
  BY <1>20 DEF WriteCandidate, SaveResultOrDie, Leave, Continue
<1>21. ASSUME CommitSuccess PROVE NoLostJob'
  <2>1. /\ accepted' = accepted /\ queue' = queue
        /\ \A i \in accepted : up' /\ state'[i] = "queued" =>
             up /\ state[i] = "queued" /\ (cur = i => cur' = i)
    BY <1>21 DEF CommitSuccess, SaveOrDie, Leave, Allowed
  <2>2. QED
    BY <2>1, Zenon
<1>22. ASSUME Crash PROVE NoLostJob'
  BY <1>22 DEF Crash, Leave
<1>23. ASSUME Restart PROVE NoLostJob'
  BY <1>23, SelectsFacts DEF Recoverable, Restart, Resumable
<1>24. ASSUME NEW j \in Jobs, FailedRestart(j) PROVE NoLostJob'
  BY <1>24 DEF FailedRestart
<1>25. ASSUME GateFlips PROVE NoLostJob'
  BY <1>25 DEF GateFlips
<1>26. ASSUME EngineFlips PROVE NoLostJob'
  BY <1>26 DEF EngineFlips
<1>27. CASE UNCHANGED vars
  BY <1>27 DEF vars
<1>. QED
  BY <1>1, <1>2, <1>3, <1>4, <1>5, <1>6, <1>7, <1>8, <1>9, <1>10, <1>11, <1>12, <1>13, <1>14, <1>15, <1>16, <1>17, <1>18, <1>19, <1>20, <1>21, <1>22, <1>23, <1>24, <1>25, <1>26, <1>27 DEF Next, Client, Runner

-----------------------------------------------------------------------------
(* The invariant holds initially. *)
LEMMA InvInit == Init => IInv
<1> SUFFICES ASSUME Init PROVE IInv
  OBVIOUS
<1>1. TypeOK
  BY TypeInit
<1>2. Down /\ Holding /\ SingleActive /\ BeginUnlatched /\ Recoverable /\ Started /\ NoLostJob
  BY DEF Init, Down, Holding, SingleActive, BeginUnlatched, Recoverable, Started, NoLostJob
<1>3. FailClosed
  BY ConstantsAssumption DEF Init, FailClosed, Working, ConstantsAssumption
<1>4. CheckpointExact
  BY ConstantsAssumption DEF Init, CheckpointExact, ConstantsAssumption, Chunk
<1>5. Stored
  BY DEF Init, Stored, NoResult
<1>6. QED
  BY <1>1, <1>2, <1>3, <1>4, <1>5 DEF IInv

(* Every step keeps the invariant. *)
LEMMA InvNext == IInv /\ [Next]_vars => IInv'
<1> SUFFICES ASSUME IInv, [Next]_vars PROVE IInv'
  OBVIOUS
<1> USE ConstantsAssumption DEF IInv
<1>1. TypeOK'
  BY TypeNext
<1>2. Down' /\ Holding' /\ SingleActive'
  BY ThreadNext
<1>3. FailClosed' /\ BeginUnlatched'
  BY LatchNext
<1>4. CheckpointExact' /\ Stored'
  BY TranscriptNext
<1>5. Recoverable'
  BY RecoverableNext
<1>6. Started'
  BY StartedNext
<1>7. NoLostJob'
  BY QueueNext
<1>8. QED
  BY <1>1, <1>2, <1>3, <1>4, <1>5, <1>6, <1>7

(* The inductive invariant holds in every reachable state. *)
THEOREM Invariant == Spec => []IInv
  BY InvInit, InvNext, PTL DEF Spec

-----------------------------------------------------------------------------
(* Every reachable state is well typed. *)
THEOREM TypeCorrect == Spec => []TypeOK
<1>1. IInv => TypeOK
  BY DEF IInv
<1>2. QED
  BY <1>1, Invariant, PTL

(* At most one job is ever persisted as running, and it is the thread's. *)
THEOREM OneActiveJob == Spec => []SingleActive
<1>1. IInv => SingleActive
  BY DEF IInv
<1>2. QED
  BY <1>1, Invariant, PTL

(* An accepted job that waits is in the queue or in the thread's hands. *)
THEOREM AcceptedJobsWait == Spec => []NoLostJob
<1>1. IInv => NoLostJob
  BY DEF IInv
<1>2. QED
  BY <1>1, Invariant, PTL

(* A checkpoint covers exactly the windows before its cursor. *)
THEOREM CheckpointsExact == Spec => []CheckpointExact
<1>1. IInv => CheckpointExact
  BY DEF IInv
<1>2. QED
  BY <1>1, Invariant, PTL

(* A succeeded job delivers its whole transcript, a failed one none. *)
THEOREM ResultsFaithful == Spec => []ResultFaithful
<1>1. IInv => ResultFaithful
  <2> SUFFICES ASSUME IInv, NEW j \in Jobs
               PROVE  /\ state[j] = "succeeded" =>
                           result[j] = [kind |-> "candidate", segs |-> Speech[j]]
                      /\ state[j] = "failed" => result[j].kind # "candidate"
    BY DEF ResultFaithful
  <2>1. result[j] \in Result
    BY DEF IInv, TypeOK, SpoolType
  <2>2. result[j] = [kind |-> result[j].kind, segs |-> result[j].segs]
    BY <2>1 DEF Result
  <2>3. QED
    BY <2>2 DEF IInv, Stored
<1>2. QED
  BY <1>1, Invariant, PTL

(* The failure count never passes its limit. *)
THEOREM FailuresBounded == Spec => []FailClosed
<1>1. IInv => FailClosed
  BY DEF IInv
<1>2. QED
  BY <1>1, Invariant, PTL

(* After an engine ran out of memory no step starts a job. *)
THEOREM OomStops == Spec => NoStartAfterOom
<1>1. ASSUME IInv, [Next]_vars,
             NEW j \in Jobs, state[j] # "running", state'[j] = "running"
      PROVE  ~oom
  <2> USE <1>1 DEF IInv, TypeOK, SpoolType, ThreadType, upload, spool, thread, HandlersOwn
  <2>1. ASSUME Begin PROVE ~oom
    BY <2>1 DEF Begin, BeginUnlatched
  <2>2. ASSUME NEW i \in Jobs, Client(i) \/ FailedRestart(i) PROVE FALSE
    BY <2>2 DEF Client, Create, TornCreate, Upload, TornUpload, Complete, TornComplete,
                StartQueued, StartPaused, Cancel, FailedRestart
  <2>3. ASSUME Pop \/ CheckGate \/ Load \/ Transcribe \/ WriteCandidate
               \/ \E k \in FailureKind : EngineFails(k)
        PROVE  FALSE
    BY <2>3 DEF Pop, CheckGate, Load, Transcribe, WriteCandidate, EngineFails
  <2>4. ASSUME Pause \/ CommitFailure \/ InvalidOutput \/ NoSpeech \/ CommitSuccess
        PROVE  FALSE
    BY <2>4 DEF Pause, CommitFailure, InvalidOutput, NoSpeech, CommitSuccess, FailJob, SaveOrDie
  <2>5. ASSUME Crash \/ Restart \/ GateFlips \/ EngineFlips \/ UNCHANGED vars PROVE FALSE
    BY <2>5 DEF Crash, Restart, Resumable, GateFlips, EngineFlips, vars
  <2>6. QED
    BY <2>1, <2>2, <2>3, <2>4, <2>5 DEF Next, Runner
<1>2. IInv /\ [Next]_vars =>
        [\A j \in Jobs : state[j] # "running" /\ state'[j] = "running" => ~oom]_vars
  BY <1>1
<1>3. QED
  BY <1>2, Invariant, PTL DEF Spec, NoStartAfterOom

(* One step of a job that has ended. *)
LEMMA EndedStep ==
  ASSUME IInv, [Next]_vars, NEW j \in Jobs, state[j] \in Terminal
  PROVE  state'[j] = state[j] /\ result'[j] = result[j]
<1> USE DEF IInv, TypeOK, SpoolType, ThreadType, Terminal, upload, spool, thread, HandlersOwn
<1>1. ASSUME NEW i \in Jobs, Client(i) \/ FailedRestart(i)
      PROVE  state'[j] = state[j] /\ result'[j] = result[j]
  BY <1>1 DEF Client, Create, TornCreate, Upload, TornUpload, Complete, TornComplete,
              StartQueued, StartPaused, Cancel, FailedRestart, Admits, Allowed
<1>2. ASSUME Pop \/ CheckGate \/ Load \/ Transcribe
      PROVE  state'[j] = state[j] /\ result'[j] = result[j]
  BY <1>2 DEF Pop, CheckGate, Load, Transcribe
<1>3. ASSUME Pause \/ Begin \/ CommitFailure \/ InvalidOutput \/ NoSpeech \/ CommitSuccess
      PROVE  state'[j] = state[j] /\ result'[j] = result[j]
  BY <1>3 DEF Pause, Begin, CommitFailure, InvalidOutput, NoSpeech, CommitSuccess,
              FailJob, SaveOrDie, Allowed
<1>4. ASSUME WriteCandidate \/ \E k \in FailureKind : EngineFails(k)
      PROVE  state'[j] = state[j] /\ result'[j] = result[j]
  BY <1>4 DEF WriteCandidate, EngineFails, SaveResultOrDie, Holding
<1>5. ASSUME Crash \/ Restart \/ GateFlips \/ EngineFlips \/ UNCHANGED vars
      PROVE  state'[j] = state[j] /\ result'[j] = result[j]
  BY <1>5 DEF Crash, Restart, Resumable, GateFlips, EngineFlips, vars
<1>6. QED
  BY <1>1, <1>2, <1>3, <1>4, <1>5 DEF Next, Runner

(* A job that has ended keeps its state and its result. *)
THEOREM EndedJobsStay == Spec => TerminalAbsorbing
<1>1. IInv /\ [Next]_vars =>
        [\A j \in Jobs : state[j] \in Terminal =>
           state'[j] = state[j] /\ result'[j] = result[j]]_vars
  BY EndedStep
<1>2. QED
  BY <1>1, Invariant, PTL DEF Spec, TerminalAbsorbing
-----------------------------------------------------------------------------
(* The service implements the contract its clients rely on. *)

(* The refinement mapping by name. *)
PhaseMap == [j \in Jobs |-> PhaseOf(state[j])]
TextMap  == [j \in Jobs |-> IF state[j] = "succeeded" THEN result[j].segs ELSE {}]

(* A step that leaves the states alone is invisible. *)
LEMMA SameState ==
  ASSUME IInv, [Next]_vars, state' = state
  PROVE  PhaseMap' = PhaseMap /\ TextMap' = TextMap
<1>1. \A j \in Jobs : state[j] = "succeeded" => result'[j] = result[j]
  BY EndedStep DEF Terminal
<1>2. QED
  BY <1>1 DEF PhaseMap, TextMap

(* A step that changes the state of one job, and does not complete it, moves
   that job's phase alone. *)
LEMMA OneMoves ==
  ASSUME IInv, [Next]_vars, NEW i \in Jobs, NEW s,
         state' = [state EXCEPT ![i] = s],
         state[i] # "succeeded", s # "succeeded"
  PROVE  /\ PhaseMap' = [PhaseMap EXCEPT ![i] = PhaseOf(s)]
         /\ TextMap' = TextMap
<1>1. \A j \in Jobs : state[j] = "succeeded" => result'[j] = result[j]
  BY EndedStep DEF Terminal
<1>2. /\ state'[i] = s
      /\ \A j \in Jobs : j # i => state'[j] = state[j]
  BY DEF IInv, TypeOK, SpoolType
<1>3. TextMap' = TextMap
  <2>1. \A j \in Jobs :
          (IF state'[j] = "succeeded" THEN result'[j].segs ELSE {})
            = (IF state[j] = "succeeded" THEN result[j].segs ELSE {})
    BY <1>1, <1>2
  <2>2. QED
    BY <2>1, Zenon DEF TextMap
<1>4. PhaseMap' = [PhaseMap EXCEPT ![i] = PhaseOf(s)]
  <2>1. PhaseMap' = [j \in Jobs |-> PhaseOf(state'[j])]
    BY DEF PhaseMap
  <2>2. \A j \in Jobs : PhaseOf(state'[j]) = IF j = i THEN PhaseOf(s) ELSE PhaseOf(state[j])
    BY <1>2
  <2>3. QED
    BY <2>1, <2>2 DEF PhaseMap
<1>5. QED
  BY <1>3, <1>4

(* The phases by state. *)
LEMMA Phases ==
  /\ PhaseOf("absent") = "unknown" /\ PhaseOf("torn") = "unknown"
  /\ PhaseOf("created") = "open" /\ PhaseOf("uploading") = "open"
  /\ PhaseOf("queued") = "waiting" /\ PhaseOf("paused") = "waiting"
  /\ PhaseOf("running") = "active"
  /\ PhaseOf("succeeded") = "succeeded"
  /\ PhaseOf("failed") = "failed"
  /\ PhaseOf("cancelled") = "cancelled"
BY DEF PhaseOf

-----------------------------------------------------------------------------
(* A step that changes the state of one job within one phase is invisible. *)
LEMMA Stutters ==
  ASSUME IInv, [Next]_vars, NEW i \in Jobs, NEW s,
         state' = [state EXCEPT ![i] = s],
         state[i] # "succeeded", s # "succeeded", PhaseOf(s) = PhaseOf(state[i])
  PROVE  UNCHANGED Contract!vars
<1>1. PhaseMap' = [PhaseMap EXCEPT ![i] = PhaseMap[i]] /\ TextMap' = TextMap
  BY OneMoves DEF PhaseMap
<1>2. PhaseMap' = PhaseMap
  BY <1>1 DEF PhaseMap
<1>3. QED
  BY <1>1, <1>2 DEF PhaseMap, TextMap, Contract!vars

(* A step that moves one job between two phases, and does not complete it, is
   a move of the contract that delivers nothing. *)
LEMMA Moves ==
  ASSUME IInv, [Next]_vars, NEW i \in Jobs, NEW s,
         state' = [state EXCEPT ![i] = s],
         state[i] # "succeeded", s # "succeeded",
         NEW from, PhaseOf(state[i]) \in from
  PROVE  /\ Contract!Move(i, from, PhaseOf(s))
         /\ TextMap' = TextMap
<1>1. PhaseMap' = [PhaseMap EXCEPT ![i] = PhaseOf(s)] /\ TextMap' = TextMap
  BY OneMoves
<1>2. PhaseMap[i] \in from
  BY DEF PhaseMap
<1>3. QED
  BY <1>1, <1>2 DEF PhaseMap, Contract!Move

-----------------------------------------------------------------------------
(* The moves of one job that the code makes, and the step of the contract each
   of them is.  Completion is not among them. *)
LEMMA OneJob ==
  ASSUME IInv, [Next]_vars, NEW i \in Jobs, NEW s,
         state' = [state EXCEPT ![i] = s],
         \/ state[i] = "absent" /\ s \in {"created", "torn"}
         \/ state[i] \in {"created", "uploading"} /\ s \in {"uploading", "queued"}
         \/ state[i] \in {"queued", "paused"} /\ s \in {"queued", "paused", "cancelled"}
         \/ /\ state[i] = "queued" /\ s = "running"
            /\ \A j \in Jobs : state[j] # "running"
         \/ state[i] = "running" /\ s \in {"paused", "failed", "cancelled"}
  PROVE  Contract!Next \/ UNCHANGED Contract!vars
<1> USE Phases
<1>1. CASE state[i] = "absent" /\ s = "created"
  <2>1. Contract!Move(i, {"unknown"}, "open") /\ TextMap' = TextMap
    BY <1>1, Moves
  <2>2. QED
    BY <2>1 DEF Contract!Next, Contract!Admit, TextMap
<1>2. CASE PhaseOf(s) = PhaseOf(state[i]) /\ state[i] # "succeeded" /\ s # "succeeded"
  BY <1>2, Stutters
<1>3. CASE state[i] \in {"created", "uploading"} /\ s = "queued"
  <2>1. Contract!Move(i, {"open"}, "waiting") /\ TextMap' = TextMap
    BY <1>3, Moves
  <2>2. QED
    BY <2>1 DEF Contract!Next, Contract!Submit, TextMap
<1>4. CASE state[i] \in {"queued", "paused", "running"} /\ s = "cancelled"
  <2>1. Contract!Move(i, {"waiting", "active"}, "cancelled") /\ TextMap' = TextMap
    BY <1>4, Moves
  <2>2. QED
    BY <2>1 DEF Contract!Next, Contract!Cancel, TextMap
<1>5. CASE state[i] = "queued" /\ s = "running" /\ \A j \in Jobs : state[j] # "running"
  <2>1. Contract!Move(i, {"waiting"}, "active") /\ TextMap' = TextMap
    BY <1>5, Moves
  <2>2. \A j \in Jobs : PhaseOf(state[j]) # "active"
    BY <1>5 DEF PhaseOf, IInv, TypeOK, SpoolType, ServiceJobState
  <2>3. QED
    BY <2>1, <2>2 DEF Contract!Next, Contract!Activate, TextMap
<1>6. CASE state[i] = "running" /\ s = "paused"
  <2>1. Contract!Move(i, {"active"}, "waiting") /\ TextMap' = TextMap
    BY <1>6, Moves
  <2>2. QED
    BY <2>1 DEF Contract!Next, Contract!Suspend, TextMap
<1>7. CASE state[i] = "running" /\ s = "failed"
  <2>1. Contract!Move(i, {"active"}, "failed") /\ TextMap' = TextMap
    BY <1>7, Moves
  <2>2. QED
    BY <2>1 DEF Contract!Next, Contract!Fail, TextMap
<1>8. QED
  BY <1>1, <1>2, <1>3, <1>4, <1>5, <1>6, <1>7

(* Completion delivers the whole transcript in the step that ends the job. *)
LEMMA Completion ==
  ASSUME IInv, [Next]_vars, CommitSuccess
  PROVE  Contract!Next
<1>1. /\ cur \in Jobs /\ state[cur] = "running" /\ result[cur].kind = "candidate"
      /\ result[cur].segs = Speech[cur]
  BY DEF CommitSuccess, IInv, TypeOK, ThreadType, Holding, Stored
<1>2. state' = [state EXCEPT ![cur] = "succeeded"] /\ result' = result
  BY <1>1 DEF CommitSuccess, SaveOrDie, Allowed
<1>3. PhaseMap' = [PhaseMap EXCEPT ![cur] = "succeeded"]
  <2>1. PhaseMap' = [j \in Jobs |-> PhaseOf(state'[j])]
    BY DEF PhaseMap
  <2>2. \A j \in Jobs : PhaseOf(state'[j])
                        = IF j = cur THEN "succeeded" ELSE PhaseOf(state[j])
    BY <1>1, <1>2, Phases DEF IInv, TypeOK, SpoolType
  <2>3. QED
    BY <2>1, <2>2 DEF PhaseMap
<1>4. TextMap' = [TextMap EXCEPT ![cur] = Speech[cur]]
  <2>1. \A j \in Jobs :
          (IF state'[j] = "succeeded" THEN result'[j].segs ELSE {})
            = IF j = cur THEN Speech[cur]
              ELSE IF state[j] = "succeeded" THEN result[j].segs ELSE {}
    BY <1>1, <1>2 DEF IInv, TypeOK, SpoolType
  <2>2. TextMap' = [j \in Jobs |-> IF state'[j] = "succeeded" THEN result'[j].segs ELSE {}]
    BY DEF TextMap
  <2>3. TextMap' = [j \in Jobs |-> IF j = cur THEN Speech[cur] ELSE TextMap[j]]
    BY <2>1, <2>2 DEF TextMap
  <2>4. QED
    BY <2>3 DEF TextMap
<1>5. PhaseMap[cur] = "active"
  BY <1>1, Phases DEF PhaseMap
<1>6. PICK i \in Jobs : i = cur
  BY <1>1
<1>7. Contract!Succeed(i)
  BY <1>3, <1>4, <1>5, <1>6 DEF PhaseMap, TextMap, Contract!Succeed, Contract!Move
<1>8. QED
  BY <1>7 DEF Contract!Next

(* A restart puts the one running job back, every other job waits on. *)
LEMMA RestartSuspends ==
  ASSUME IInv, [Next]_vars, Restart
  PROVE  Contract!Next \/ UNCHANGED Contract!vars
<1>1. /\ result' = result
      /\ \A j \in Jobs : state'[j] = IF state[j] \in {"queued", "paused", "running"}
                                     THEN "queued" ELSE state[j]
  BY DEF Restart, Resumable
<1>2. TextMap' = TextMap
  <2>1. \A j \in Jobs :
          (IF state'[j] = "succeeded" THEN result'[j].segs ELSE {})
            = (IF state[j] = "succeeded" THEN result[j].segs ELSE {})
    BY <1>1
  <2>2. QED
    BY <2>1, Zenon DEF TextMap
<1>3. PhaseMap' = [j \in Jobs |-> PhaseOf(state'[j])]
  BY DEF PhaseMap
<1>4. CASE \A j \in Jobs : state[j] # "running"
  <2>1. \A j \in Jobs : PhaseOf(state'[j]) = PhaseOf(state[j])
    BY <1>1, <1>4, Phases
  <2>2. PhaseMap' = PhaseMap
    BY <2>1, <1>3, Zenon DEF PhaseMap
  <2>3. QED
    BY <1>2, <2>2 DEF PhaseMap, TextMap, Contract!vars
<1>5. ASSUME NEW i \in Jobs, state[i] = "running" PROVE Contract!Next
  <2>1. \A j \in Jobs : j # i => state[j] # "running"
    BY <1>5 DEF IInv, SingleActive
  <2>2. \A j \in Jobs : PhaseOf(state'[j]) = IF j = i THEN "waiting" ELSE PhaseOf(state[j])
    BY <1>1, <1>5, <2>1, Phases
  <2>3. PhaseMap' = [PhaseMap EXCEPT ![i] = "waiting"]
    BY <2>2, <1>3 DEF PhaseMap
  <2>4. PhaseMap[i] = "active"
    BY <1>5, Phases DEF PhaseMap
  <2>5. Contract!Suspend(i)
    BY <1>2, <2>3, <2>4 DEF PhaseMap, TextMap, Contract!Suspend, Contract!Move
  <2>6. QED
    BY <2>5 DEF Contract!Next
<1>6. QED
  BY <1>4, <1>5

-----------------------------------------------------------------------------
(* Every step of the service is a step of the contract or invisible. *)
LEMMA StepContract ==
  ASSUME IInv, [Next]_vars
  PROVE  Contract!Next \/ UNCHANGED Contract!vars
<1> DEFINE Goal == Contract!Next \/ UNCHANGED Contract!vars
<1> USE DEF upload, spool, thread, latch, env, HandlersOwn
<1>1. CASE state' = state
  BY <1>1, SameState DEF PhaseMap, TextMap, Contract!vars
<1>2. ASSUME NEW j \in Jobs, Client(j) \/ FailedRestart(j)
      PROVE  Goal
  <2>1. CASE Create(j) \/ TornCreate(j)
    <3>1. CASE state' = [state EXCEPT ![j] = "created"]
      BY <2>1, <3>1, OneJob DEF Create, TornCreate, Admits
    <3>2. CASE state' = [state EXCEPT ![j] = "torn"]
      BY <2>1, <3>2, OneJob DEF Create, TornCreate, Admits
    <3>3. QED
      BY <1>1, <2>1, <3>1, <3>2 DEF Create, TornCreate
  <2>2. CASE Upload(j)
    BY <2>2, OneJob DEF Upload
  <2>3. CASE Complete(j)
    BY <2>3, OneJob DEF Complete
  <2>4. CASE StartPaused(j)
    BY <2>4, OneJob DEF StartPaused
  <2>5. CASE Cancel(j)
    <3>1. state[j] \in {"queued", "paused", "running"}
      BY <2>5 DEF Cancel, Allowed
    <3>2. QED
      BY <2>5, <3>1, OneJob DEF Cancel
  <2>6. CASE FailedRestart(j)
    BY <2>6, OneJob DEF FailedRestart
  <2>7. CASE TornUpload(j) \/ TornComplete(j) \/ StartQueued(j)
    BY <1>1, <2>7 DEF TornUpload, TornComplete, StartQueued
  <2>8. QED
    BY <1>2, <2>1, <2>2, <2>3, <2>4, <2>5, <2>6, <2>7 DEF Client
<1>3. ASSUME Runner PROVE Goal
  <2>1. PICK i \in Jobs \cup {NoJob} : i = cur
    BY DEF IInv, TypeOK, ThreadType
  <2>2. ASSUME pc # "idle" PROVE i \in Jobs
    BY <2>1, <2>2 DEF IInv, TypeOK, ThreadType
  <2>3. CASE Pause
    <3>1. state[i] \in {"queued", "cancelled"} /\ i \in Jobs
      BY <2>1, <2>2, <2>3 DEF Pause, IInv, Holding
    <3>2. state' = state \/ (state' = [state EXCEPT ![i] = "paused"] /\ state[i] = "queued")
      BY <2>1, <2>3, <3>1 DEF Pause, SaveOrDie
    <3>3. QED
      BY <1>1, <3>1, <3>2, OneJob
  <2>4. CASE Begin
    <3>1. /\ state[i] \in {"queued", "cancelled"} /\ i \in Jobs
          /\ \A j \in Jobs : state[j] # "running"
      BY <2>1, <2>2, <2>4 DEF Begin, IInv, Holding, SingleActive, Working
    <3>2. "failed" \notin Allowed(state[i])
      BY <3>1 DEF Allowed
    <3>3. state' = state \/ (state' = [state EXCEPT ![i] = "running"] /\ state[i] = "queued")
      BY <2>1, <2>4, <3>1, <3>2 DEF Begin, FailJob, SaveOrDie
    <3>4. QED
      BY <1>1, <3>1, <3>3, OneJob
  <2>5. CASE CommitFailure \/ InvalidOutput \/ NoSpeech
    <3>1. state[i] \in {"running", "cancelled"} /\ i \in Jobs
      BY <2>1, <2>2, <2>5 DEF CommitFailure, InvalidOutput, NoSpeech, IInv, Holding
    <3>2. state' = state \/ (state' = [state EXCEPT ![i] = "failed"] /\ state[i] = "running")
      BY <2>1, <2>5, <3>1 DEF CommitFailure, InvalidOutput, NoSpeech, FailJob, SaveOrDie
    <3>3. QED
      BY <1>1, <3>1, <3>2, OneJob
  <2>6. CASE CommitSuccess
    BY <2>6, Completion
  <2>7. CASE \/ Pop \/ CheckGate \/ Load \/ Transcribe \/ WriteCandidate
             \/ \E k \in FailureKind : EngineFails(k)
    BY <1>1, <2>7 DEF Pop, CheckGate, Load, Transcribe, WriteCandidate, EngineFails
  <2>8. QED
    BY <1>3, <2>3, <2>4, <2>5, <2>6, <2>7 DEF Runner
<1>4. CASE Restart
  BY <1>4, RestartSuspends
<1>5. CASE Crash \/ GateFlips \/ EngineFlips \/ UNCHANGED vars
  BY <1>1, <1>5 DEF Crash, GateFlips, EngineFlips, vars
<1>6. QED
  BY <1>2, <1>3, <1>4, <1>5 DEF Next

(* The service keeps its contract: its initial state is one of the contract's,
   and each of its steps is a step of the contract or changes nothing a client
   can see. *)
THEOREM ServiceKeepsContract == Spec => KeepsContract
<1>1. Init => Contract!Init
  BY Phases DEF Init, Contract!Init
<1>2. IInv /\ [Next]_vars => [Contract!Next]_Contract!vars
  BY StepContract
<1>3. QED
  BY <1>1, <1>2, Invariant, PTL DEF Spec, KeepsContract, Contract!Spec
=============================================================================
