---------------------------- MODULE ImageOcrProofs ----------------------------
(***************************************************************************)
(* Theorems about ImageOcr for every set of items and workers and every    *)
(* number of versions and jobs.  TextStands is inductive relative to the   *)
(* types: the head of a version is its youngest attempt that read it, so   *)
(* the only step that adds an attempt to those that read must see that it  *)
(* is younger, which is what the comparison of attempts in Stale is for.   *)
(***************************************************************************)
EXTENDS ImageOcr, TLAPS

Statuses == {"absent", "pending", "running", "succeeded", "no_text", "failed",
             "cancelled", "stale", "deleted"}

TypeOK ==
  /\ stage \in [Item -> {"absent", "active", "archived", "purged"}]
  /\ latest \in [Item -> 0 .. NVersions]
  /\ \A i \in Item : stage[i] # "absent" => latest[i] # 0
  /\ superseded \subseteq Version
  /\ job \in [Job -> [version : Version \cup {<<>>}, status : Statuses,
                      holder : Worker \cup {NoWorker}]]
  /\ \A j \in Job : job[j].status # "absent" => job[j].version \in Version
  /\ late \subseteq Job
  /\ head \in [Version -> Job \cup {None}]
  /\ shown \in [Version -> Job \cup {None}]
  /\ hand \in [Worker -> Job \cup {None}]

IInv == TypeOK /\ TextStands
-----------------------------------------------------------------------------
(* Inserting a job gives an absent row a version and makes it pending; the
   other rows keep what they are. *)
LEMMA InsertFacts ==
  ASSUME TypeOK, NEW v \in Version, Insert(v)
  PROVE  \E j \in Job :
           /\ job[j].status = "absent"
           /\ job' = [job EXCEPT ![j] = [version |-> v, status |-> "pending", holder |-> NoWorker]]
<1>1. PICK j \in Job : Fresh(j) /\ job' = [job EXCEPT ![j] =
                         [version |-> v, status |-> "pending", holder |-> NoWorker]]
  BY DEF Insert
<1>2. job[j].status = "absent"
  BY <1>1, OcrAssumption DEF Fresh, Job
<1> QED
  BY <1>1, <1>2

(* The conjuncts of TypeOK that speak of jobs. *)
JobsTyped ==
  /\ job \in [Job -> [version : Version \cup {<<>>}, status : Statuses,
                      holder : Worker \cup {NoWorker}]]
  /\ \A j \in Job : job[j].status # "absent" => job[j].version \in Version

LEMMA InsertTyped ==
  ASSUME TypeOK, NEW v \in Version, Insert(v) \/ UNCHANGED job
  PROVE  JobsTyped'
<1>1. CASE UNCHANGED job
  BY <1>1 DEF TypeOK, JobsTyped
<1>2. CASE Insert(v)
  <2>1. PICK j \in Job :
          job' = [job EXCEPT ![j] = [version |-> v, status |-> "pending", holder |-> NoWorker]]
    BY <1>2, InsertFacts
  <2> QED
    BY <2>1 DEF TypeOK, JobsTyped, Statuses
<1> QED
  BY <1>1, <1>2

LEMMA TypeInit == Init => TypeOK
  BY OcrAssumption DEF Init, TypeOK, NoJob, Statuses, None, Version, Job

(* Every step keeps the types. *)
LEMMA TypeStep == TypeOK /\ [Next]_vars => TypeOK'
<1> SUFFICES ASSUME TypeOK, [Next]_vars PROVE TypeOK'
  OBVIOUS
<1> USE OcrAssumption DEF catalogue, text
<1>1. ASSUME NEW i \in Item, Upload(i) PROVE TypeOK'
  <2>1. <<i, 1>> \in Version
    BY DEF Version
  <2>2. JobsTyped'
    BY <1>1, <2>1, InsertTyped DEF Upload
  <2> QED
    BY <1>1, <2>2 DEF Upload, TypeOK, JobsTyped
<1>2. ASSUME NEW i \in Item, Revise(i) PROVE TypeOK'
  <2>1. latest[i] + 1 \in 1 .. NVersions /\ latest[i] \in 0 .. NVersions
    BY <1>2 DEF Revise, TypeOK
  <2>2. <<i, latest[i] + 1>> \in Version
    BY <2>1 DEF Version
  <2>3. JobsTyped'
    BY <1>2, <2>2, InsertTyped DEF Revise
  <2>4. superseded' \subseteq Version
    <3>1. <<i, latest[i]>> \in Version
      BY <1>2, <2>1 DEF Revise, TypeOK, Version
    <3> QED
      BY <1>2, <3>1 DEF Revise, TypeOK
  <2> QED
    BY <1>2, <2>1, <2>3, <2>4 DEF Revise, TypeOK, JobsTyped
<1>3. ASSUME NEW i \in Item, Archive(i) PROVE TypeOK'
  BY <1>3 DEF Archive, TypeOK
<1>4. ASSUME NEW i \in Item, Restore(i) PROVE TypeOK'
  <2>1. /\ stage' = [stage EXCEPT ![i] = "active"] /\ stage[i] = "archived"
        /\ superseded' \subseteq superseded
    BY <1>4 DEF Restore
  <2>2. /\ stage' \in [Item -> {"absent", "active", "archived", "purged"}]
        /\ \A k \in Item : stage'[k] # "absent" => stage[k] # "absent"
    BY <2>1 DEF TypeOK
  <2>3. superseded' \subseteq Version
    BY <2>1 DEF TypeOK
  <2>4. UNCHANGED <<latest, job, late, head, shown, hand>>
    BY <1>4 DEF Restore
  <2>5. JobsTyped'
    BY <2>4 DEF TypeOK, JobsTyped
  <2> QED
    BY <2>2, <2>3, <2>4, <2>5 DEF TypeOK, JobsTyped
<1>5. ASSUME NEW i \in Item, Purge(i) PROVE TypeOK'
  <2>1. JobsTyped'
    <3> DEFINE gone == {j \in Job : job[j].version \in {i} \X (1 .. NVersions)}
    <3>1. job' = [j \in Job |-> IF j \in gone THEN [job[j] EXCEPT !.status = "deleted"] ELSE job[j]]
      BY <1>5 DEF Purge
    <3>2. \A j \in gone : job[j].version \in Version
      BY DEF Version
    <3> HIDE DEF gone
    <3>3. \A j \in gone : job[j] \in [version : Version \cup {<<>>}, status : Statuses,
                                    holder : Worker \cup {NoWorker}]
      BY DEF gone, TypeOK
    <3> QED
      BY <3>1, <3>2, <3>3 DEF TypeOK, JobsTyped, Statuses
  <2>2. stage' = [stage EXCEPT ![i] = "purged"] /\ stage[i] # "absent"
    BY <1>5 DEF Purge
  <2>3. /\ head' \in [Version -> Job \cup {None}]
        /\ shown' \in [Version -> Job \cup {None}]
    BY <1>5 DEF Purge, TypeOK
  <2>4. UNCHANGED <<latest, superseded, late, hand>>
    BY <1>5 DEF Purge
  <2> QED
    BY <2>1, <2>2, <2>3, <2>4 DEF TypeOK, JobsTyped
<1>6. ASSUME NEW v \in Version, Promote(v) PROVE TypeOK'
  <2>1. superseded' \subseteq Version
    <3>1. PICK n \in 0 .. latest[v[1]] :
            superseded' = (superseded \cup {<<v[1], n>>}) \ {v, <<v[1], 0>>}
      BY <1>6 DEF Promote
    <3>2. v[1] \in Item /\ latest[v[1]] \in 0 .. NVersions
      BY DEF Version, TypeOK
    <3>3. n = 0 \/ <<v[1], n>> \in Version
      BY <3>1, <3>2 DEF Version
    <3> QED
      BY <3>1, <3>3 DEF TypeOK
  <2> QED
    BY <1>6, <2>1 DEF Promote, TypeOK
<1>7. ASSUME NEW v \in Version, Enqueue(v) PROVE TypeOK'
  <2>1. JobsTyped'
    BY <1>7, InsertTyped DEF Enqueue
  <2> QED
    BY <1>7, <2>1 DEF Enqueue, TypeOK, JobsTyped
<1>8. ASSUME NEW v \in Version, Cancel(v) PROVE TypeOK'
  BY ZenonT(60), <1>8 DEF Cancel, TypeOK, Statuses, Active
<1>9. ASSUME NEW w \in Worker, Lease(w) PROVE TypeOK'
  <2>1. PICK next \in {j \in Job : Waiting(j)} :
          /\ hand' = [hand EXCEPT ![w] = next]
          /\ job' = [j \in Job |->
               IF j = next THEN [job[j] EXCEPT !.status = "running", !.holder = w]
               ELSE IF Waiting(j) THEN [job[j] EXCEPT !.status = "pending", !.holder = NoWorker]
               ELSE job[j]]
          /\ late' = {} /\ UNCHANGED <<catalogue, text>>
    BY <1>9 DEF Lease
  <2>2. JobsTyped'
    BY ZenonT(60), <2>1 DEF TypeOK, JobsTyped, Statuses, Waiting
  <2> QED
    BY <2>1, <2>2 DEF TypeOK, JobsTyped
<1>10. ASSUME NEW w \in Worker, Ignored(w) \/ Drop(w) PROVE TypeOK'
  BY <1>10 DEF Ignored, Drop, TypeOK
<1>11. ASSUME NEW w \in Worker, NEW a \in Answers, Finish(w, a) PROVE TypeOK'
  <2>0. hand[w] \in Job /\ job[hand[w]].version \in Version
    BY <1>11 DEF Finish, Holds, TypeOK
  <2>j. PICK j \in Job : j = hand[w]
    BY <2>0
  <2>v. PICK v \in Version : v = job[j].version
    BY <2>0, <2>j
  <2>s. PICK s \in {"stale"} \cup Answers : s = IF Stale(j) THEN "stale" ELSE a
    OBVIOUS
  <2>1. /\ job[j].status = "running"
        /\ job' = [job EXCEPT ![j].status = s, ![j].holder = NoWorker]
        /\ head' = IF s \in {"succeeded", "no_text"} THEN [head EXCEPT ![v] = j] ELSE head
        /\ Indexed(v, s) /\ hand' = [hand EXCEPT ![w] = None]
        /\ UNCHANGED <<catalogue, late>>
    BY <1>11, <2>j, <2>v, <2>s DEF Finish, Holds
  <2>2. s \in Statuses
    BY <2>s DEF Answers, Statuses
  <2>3. JobsTyped'
    <3>1. job[j] \in [version : Version \cup {<<>>}, status : Statuses,
                      holder : Worker \cup {NoWorker}] /\ DOMAIN job = Job
      BY DEF TypeOK
    <3>2. /\ job'[j] \in [version : Version \cup {<<>>}, status : Statuses,
                          holder : Worker \cup {NoWorker}]
          /\ job'[j].version = v
      BY <3>1, <2>1, <2>v, <2>2
    <3>3. \A k \in Job \ {j} : job'[k] = job[k]
      BY <2>1 DEF TypeOK
    <3>4. DOMAIN job' = Job /\ job' = [k \in Job |-> job'[k]]
      BY <2>1 DEF TypeOK
    <3> QED
      BY <3>2, <3>3, <3>4 DEF TypeOK, JobsTyped
  <2>4. head' \in [Version -> Job \cup {None}]
    BY <2>1, <2>2 DEF TypeOK
  <2>5. shown' \in [Version -> Job \cup {None}]
    BY <2>1, <2>2, <2>4 DEF TypeOK, Indexed, Found
  <2> QED
    BY <2>1, <2>3, <2>4, <2>5 DEF TypeOK, JobsTyped
<1>12. ASSUME NEW j \in Job, Expire(j) PROVE TypeOK'
  BY <1>12 DEF Expire, TypeOK
<1>13. CASE UNCHANGED vars
  BY <1>13 DEF vars, TypeOK
<1> QED
  BY <1>1, <1>2, <1>3, <1>4, <1>5, <1>6, <1>7, <1>8, <1>9, <1>10, <1>11, <1>12, <1>13 DEF Next
-----------------------------------------------------------------------------
(* Whatever changes no text, and no row of a job that read its version, leaves
   what is found as it stands. *)
LEMMA TextKept ==
  ASSUME TypeOK, TextStands, UNCHANGED text,
         \A v \in Version : Read(v)' = Read(v),
         \A j \in Job : job'[j].status = "succeeded" <=> job[j].status = "succeeded"
  PROVE  TextStands'
  BY DEF TypeOK, TextStands, text, Read

(* The jobs that are active or new have read nothing. *)
LEMMA ReadKept ==
  ASSUME TypeOK, TypeOK',
         \A j \in Job :
           \/ job'[j] = job[j]
           \/ /\ job[j].status \in {"absent", "pending", "running"}
              /\ job'[j].status \in {"pending", "running", "cancelled", "stale", "failed"}
  PROVE  /\ \A v \in Version : Read(v)' = Read(v)
         /\ \A j \in Job : job'[j].status = "succeeded" <=> job[j].status = "succeeded"
  BY DEF Read, JobsOf

LEMMA TextInit == Init => TextStands
  BY OcrAssumption DEF Init, TextStands, Read, JobsOf, NoJob, Version, Job

(* What is found stands in every step: only an answer under a lease, of the
   version's youngest attempt, and a purge change it. *)
LEMMA TextStep == TypeOK /\ TypeOK' /\ TextStands /\ [Next]_vars => TextStands'
<1> SUFFICES ASSUME TypeOK, TypeOK', TextStands, [Next]_vars PROVE TextStands'
  OBVIOUS
<1> USE OcrAssumption DEF catalogue, text
<1>1. CASE UNCHANGED <<job, text>>
  BY <1>1 DEF TextStands, Read, JobsOf
<1>2. ASSUME NEW v \in Version, Insert(v), UNCHANGED text PROVE TextStands'
  <2>1. PICK j \in Job :
          /\ job[j].status = "absent"
          /\ job' = [job EXCEPT ![j] = [version |-> v, status |-> "pending", holder |-> NoWorker]]
    BY <1>2, InsertFacts
  <2>2. \A k \in Job :
          \/ job'[k] = job[k]
          \/ /\ job[k].status \in {"absent", "pending", "running"}
             /\ job'[k].status \in {"pending", "running", "cancelled", "stale", "failed"}
    BY <2>1 DEF TypeOK
  <2>3. /\ \A u \in Version : Read(u)' = Read(u)
        /\ \A k \in Job : job'[k].status = "succeeded" <=> job[k].status = "succeeded"
    BY <2>2, ReadKept
  <2> QED
    BY <1>2, <2>3, TextKept
<1>3. ASSUME NEW i \in Item, Purge(i) PROVE TextStands'
  <2>1. \A j \in Job : job[j].version \notin {i} \X (1 .. NVersions) => job'[j] = job[j]
    BY <1>3 DEF Purge
  <2>2. \A j \in Job : job[j].version \in {i} \X (1 .. NVersions) =>
          job'[j].version = job[j].version /\ job'[j].status = "deleted"
    BY <1>3 DEF Purge, TypeOK
  <2> SUFFICES ASSUME NEW v \in Version
               PROVE  /\ head'[v] = None <=> Read(v)' = {}
                      /\ head'[v] # None =>
                           head'[v] \in Read(v)' /\ \A j \in Read(v)' : j <= head'[v]
                      /\ shown'[v] = IF head'[v] # None /\ job'[head'[v]].status = "succeeded"
                                     THEN head'[v] ELSE None
    BY DEF TextStands
  <2>3. CASE v[1] = i
    <3>1. v \in {i} \X (1 .. NVersions)
      BY <2>3 DEF Version
    <3>2. Read(v)' = {}
      BY <2>1, <2>2, <3>1 DEF Read, JobsOf
    <3>3. head'[v] = None /\ shown'[v] = None
      BY <1>3, <2>3 DEF Purge
    <3> QED
      BY <3>2, <3>3
  <2>4. CASE v[1] # i
    <3>1. v \notin {i} \X (1 .. NVersions)
      BY <2>4
    <3>2. Read(v)' = Read(v) /\ \A j \in Read(v) : job'[j] = job[j]
      BY <2>1, <2>2, <3>1 DEF Read, JobsOf
    <3>3. head'[v] = head[v] /\ shown'[v] = shown[v]
      BY <1>3, <2>4 DEF Purge
    <3> QED
      BY <3>2, <3>3 DEF TextStands
  <2> QED
    BY <2>3, <2>4
<1>4. ASSUME NEW v \in Version, Cancel(v) PROVE TextStands'
  <2>1. \A j \in Job :
          \/ job'[j] = job[j]
          \/ /\ job[j].status \in {"absent", "pending", "running"}
             /\ job'[j].version = job[j].version
             /\ job'[j].status \in {"pending", "running", "cancelled", "stale", "failed"}
    BY ZenonT(60), <1>4 DEF Cancel, TypeOK, Active
  <2> QED
    BY <1>4, <2>1, ReadKept, TextKept DEF Cancel
<1>5. ASSUME NEW w \in Worker, Lease(w) PROVE TextStands'
  <2>1. PICK next \in {j \in Job : Waiting(j)} :
          /\ job' = [j \in Job |->
               IF j = next THEN [job[j] EXCEPT !.status = "running", !.holder = w]
               ELSE IF Waiting(j) THEN [job[j] EXCEPT !.status = "pending", !.holder = NoWorker]
               ELSE job[j]]
          /\ UNCHANGED text
    BY <1>5 DEF Lease
  <2>2. \A j \in Job :
          \/ job'[j] = job[j]
          \/ /\ job[j].status \in {"absent", "pending", "running"}
             /\ job'[j].status \in {"pending", "running", "cancelled", "stale", "failed"}
    BY <2>1 DEF TypeOK, Waiting
  <2> QED
    BY <2>1, <2>2, ReadKept, TextKept
<1>6. ASSUME NEW w \in Worker, NEW a \in Answers, Finish(w, a) PROVE TextStands'
  <2>0. hand[w] \in Job /\ job[hand[w]].version \in Version
    BY <1>6 DEF Finish, Holds, TypeOK
  <2>j. PICK j \in Job : j = hand[w]
    BY <2>0
  <2>v. PICK v \in Version : v = job[j].version
    BY <2>0, <2>j
  <2>s. PICK s \in {"stale"} \cup Answers : s = IF Stale(j) THEN "stale" ELSE a
    OBVIOUS
  <2>1. /\ job[j].status = "running"
        /\ job' = [job EXCEPT ![j].status = s, ![j].holder = NoWorker]
        /\ head' = IF s \in {"succeeded", "no_text"} THEN [head EXCEPT ![v] = j] ELSE head
        /\ shown' = IF s \in {"succeeded", "no_text"} THEN [shown EXCEPT ![v] = Found(head'[v])]
                    ELSE shown
    BY <1>6, <2>j, <2>v, <2>s DEF Finish, Holds, Indexed
  <2>2. s \in {"succeeded", "no_text", "failed", "stale"}
    BY DEF Answers
  <2>3. /\ \A k \in Job : job'[k].version = job[k].version
        /\ \A k \in Job \ {j} : job'[k] = job[k]
        /\ job'[j].status = s
    BY <2>1 DEF TypeOK
  <2>4. CASE s \in {"stale", "failed"}
    <3>1. UNCHANGED text
      BY <2>1, <2>4
    <3>2. \A k \in Job :
            \/ job'[k] = job[k]
            \/ /\ job[k].status \in {"absent", "pending", "running"}
               /\ job'[k].status \in {"pending", "running", "cancelled", "stale", "failed"}
      BY <2>1, <2>3, <2>4
    <3> QED
      BY <3>1, <3>2, ReadKept, TextKept
  <2>5. CASE s \in {"succeeded", "no_text"}
    <3>1. \A k \in Read(v) : k < j
      <4>1. ~ Stale(j)
        BY <2>5, <2>s
      <4>2. j \notin Read(v)
        BY <2>1 DEF Read
      <4> QED
        BY <4>1, <4>2, <2>v DEF Stale, Read, JobsOf, Job
    <3>2. Read(v)' = Read(v) \cup {j}
      BY <2>v, <2>1, <2>3, <2>5 DEF Read, JobsOf
    <3>3. \A u \in Version \ {v} :
            Read(u)' = Read(u) /\ \A k \in Read(u) : job'[k] = job[k]
      BY <2>v, <2>1, <2>3 DEF Read, JobsOf
    <3>4. /\ head'[v] = j /\ shown'[v] = Found(j)
          /\ \A u \in Version \ {v} : head'[u] = head[u] /\ shown'[u] = shown[u]
      BY <2>1, <2>2, <2>5 DEF TypeOK
    <3>5. j # None
      BY <2>1 DEF None, Job
    <3> SUFFICES ASSUME NEW u \in Version
                 PROVE  /\ head'[u] = None <=> Read(u)' = {}
                        /\ head'[u] # None =>
                             head'[u] \in Read(u)' /\ \A k \in Read(u)' : k <= head'[u]
                        /\ shown'[u] = IF head'[u] # None /\ job'[head'[u]].status = "succeeded"
                                       THEN head'[u] ELSE None
      BY DEF TextStands
    <3>6. CASE u = v
      <4>1. \A k \in Read(v)' : k <= j
        BY <2>1, <3>1, <3>2 DEF Job, Read, JobsOf
      <4>2. shown'[v] = IF job'[j].status = "succeeded" THEN j ELSE None
        BY <3>4, <3>5 DEF Found
      <4> QED
        BY <3>2, <3>4, <3>5, <3>6, <4>1, <4>2
    <3>7. CASE u # v
      BY <3>3, <3>4, <3>7 DEF TextStands
    <3> QED
      BY <3>6, <3>7
  <2> QED
    BY <2>2, <2>4, <2>5
<1>7. ASSUME NEW i \in Item, Upload(i) \/ Revise(i) \/ Archive(i) \/ Restore(i)
      PROVE  TextStands'
  <2>1. CASE UNCHANGED job
    BY <1>1, <1>7, <2>1 DEF Upload, Revise, Archive, Restore
  <2>2. CASE Upload(i) /\ Insert(<<i, 1>>)
    <3>1. <<i, 1>> \in Version
      BY DEF Version
    <3> QED
      BY <1>2, <2>2, <3>1 DEF Upload
  <2>3. CASE Revise(i) /\ Insert(<<i, latest[i] + 1>>)
    <3>1. <<i, latest[i] + 1>> \in Version
      BY <2>3 DEF Revise, TypeOK, Version
    <3> QED
      BY <1>2, <2>3, <3>1 DEF Revise
  <2> QED
    BY <1>7, <2>1, <2>2, <2>3 DEF Upload, Revise, Archive, Restore
<1>8. ASSUME NEW v \in Version, Promote(v) \/ Enqueue(v) PROVE TextStands'
  BY <1>1, <1>2, <1>8 DEF Promote, Enqueue
<1>9. ASSUME NEW w \in Worker, Ignored(w) \/ Drop(w) PROVE TextStands'
  BY <1>1, <1>9 DEF Ignored, Drop
<1>10. ASSUME NEW j \in Job, Expire(j) PROVE TextStands'
  BY <1>1, <1>10 DEF Expire
<1>11. CASE UNCHANGED vars
  BY <1>1, <1>11 DEF vars
<1> QED
  BY <1>3, <1>4, <1>5, <1>6, <1>7, <1>8, <1>9, <1>10, <1>11 DEF Next

(* The invariant holds throughout. *)
THEOREM Invariant == Spec => []IInv
<1>1. Init => IInv
  BY TypeInit, TextInit DEF IInv
<1>2. IInv /\ [Next]_vars => IInv'
  BY TypeStep, TextStep DEF IInv
<1> QED
  BY <1>1, <1>2, PTL DEF Spec

(* A version is found by what its youngest attempt that read the image read,
   and by nothing else, however late the answers of expired leases come. *)
THEOREM TextAlwaysStands == Spec => []TextStands
<1>1. IInv => TextStands
  BY DEF IInv
<1> QED
  BY <1>1, Invariant, PTL
-----------------------------------------------------------------------------
(* A job that was answered or cancelled is never answered again, and what a
   version is found by is replaced only by the answer to an active job. *)
LEMMA OnlyActiveStep == IInv /\ [Next]_vars => [OnlyActiveEnd]_vars
<1> SUFFICES ASSUME IInv, Next PROVE OnlyActiveEnd
  BY DEF vars, catalogue, text, OnlyActiveEnd
<1> USE OcrAssumption DEF IInv, catalogue, text
<1>1. CASE UNCHANGED <<job, head>>
  BY <1>1 DEF OnlyActiveEnd
<1>2. ASSUME NEW v \in Version, Insert(v), UNCHANGED text PROVE OnlyActiveEnd
  <2>1. PICK j \in Job :
          /\ job[j].status = "absent"
          /\ job' = [job EXCEPT ![j] = [version |-> v, status |-> "pending", holder |-> NoWorker]]
    BY <1>2, InsertFacts
  <2>2. \A k \in Job : Ended(k) => job'[k] = job[k]
    BY <2>1 DEF TypeOK, Ended, Answers
  <2> QED
    BY <1>2, <2>2 DEF OnlyActiveEnd
<1>3. ASSUME NEW i \in Item, Purge(i) PROVE OnlyActiveEnd
  BY <1>3 DEF Purge, TypeOK, OnlyActiveEnd
<1>4. ASSUME NEW v \in Version, Cancel(v) PROVE OnlyActiveEnd
  BY <1>4 DEF Cancel, TypeOK, OnlyActiveEnd, Ended, Active, Answers
<1>5. ASSUME NEW w \in Worker, Lease(w) PROVE OnlyActiveEnd
  <2>1. \A j \in Job : Ended(j) => job'[j] = job[j]
    BY <1>5 DEF Lease, Waiting, Ended, Answers
  <2> QED
    BY <1>5, <2>1 DEF Lease, OnlyActiveEnd
<1>6. ASSUME NEW w \in Worker, NEW a \in Answers, Finish(w, a) PROVE OnlyActiveEnd
  <2>1. PICK j \in Job : j = hand[w] /\ job[j].status = "running"
    BY <1>6 DEF Finish, Holds, TypeOK
  <2>2. \A k \in Job : Ended(k) => job'[k] = job[k]
    BY <1>6, <2>1 DEF Finish, TypeOK, Ended, Answers
  <2>3. \A v \in Version : head'[v] \in {head[v], j}
    BY <1>6, <2>1 DEF Finish, TypeOK
  <2> QED
    BY <2>1, <2>2, <2>3 DEF OnlyActiveEnd, Active
<1>7. ASSUME NEW i \in Item, Upload(i) \/ Revise(i) \/ Archive(i) \/ Restore(i)
      PROVE  OnlyActiveEnd
  <2>1. CASE UNCHANGED job
    BY <1>1, <1>7, <2>1 DEF Upload, Revise, Archive, Restore
  <2>2. CASE Upload(i) /\ Insert(<<i, 1>>)
    <3>1. <<i, 1>> \in Version
      BY DEF Version
    <3> QED
      BY <1>2, <2>2, <3>1 DEF Upload
  <2>3. CASE Revise(i) /\ Insert(<<i, latest[i] + 1>>)
    <3>1. <<i, latest[i] + 1>> \in Version
      BY <2>3 DEF Revise, TypeOK, Version
    <3> QED
      BY <1>2, <2>3, <3>1 DEF Revise
  <2> QED
    BY <1>7, <2>1, <2>2, <2>3 DEF Upload, Revise, Archive, Restore
<1>8. ASSUME NEW v \in Version, Promote(v) \/ Enqueue(v) PROVE OnlyActiveEnd
  BY <1>1, <1>2, <1>8 DEF Promote, Enqueue
<1>9. ASSUME NEW w \in Worker, Ignored(w) \/ Drop(w) PROVE OnlyActiveEnd
  BY <1>1, <1>9 DEF Ignored, Drop
<1>10. ASSUME NEW j \in Job, Expire(j) PROVE OnlyActiveEnd
  BY <1>1, <1>10 DEF Expire
<1> QED
  BY <1>3, <1>4, <1>5, <1>6, <1>7, <1>8, <1>9, <1>10 DEF Next

THEOREM JobsEndOnce == Spec => [][OnlyActiveEnd]_vars
<1> QED
  BY Invariant, OnlyActiveStep, PTL DEF Spec
=============================================================================
