--------------------------- MODULE AsrJobContract ---------------------------
(***************************************************************************)
(* What the ASR service promises the clients of its HTTP interface: a job  *)
(* moves along one life cycle, at most one job is active, and the only     *)
(* transcript ever delivered is the complete one, delivered in the step    *)
(* that ends the job.  Files, queue, checkpoints, latches, crashes and     *)
(* restarts are not visible here.                                          *)
(***************************************************************************)
CONSTANTS
  Jobs,    \* client request ids
  Speech   \* the whole transcript of each job

VARIABLES
  phase,      \* what GET /v1/jobs/{id} shows of the job
  transcript  \* what GET /v1/jobs/{id}/result delivers for a succeeded job

vars == <<phase, transcript>>

Phase == {"unknown", "open", "waiting", "active", "succeeded", "failed", "cancelled"}

Init ==
  /\ phase = [j \in Jobs |-> "unknown"]
  /\ transcript = [j \in Jobs |-> {}]

Move(j, from, to) ==
  /\ phase[j] \in from
  /\ phase' = [phase EXCEPT ![j] = to]

(* create; upload of the whole input *)
Admit(j)  == Move(j, {"unknown"}, "open") /\ UNCHANGED transcript
Submit(j) == Move(j, {"open"}, "waiting") /\ UNCHANGED transcript

(* the engine takes the job up; a restart puts it back *)
Activate(j) ==
  /\ \A i \in Jobs : phase[i] # "active"
  /\ Move(j, {"waiting"}, "active")
  /\ UNCHANGED transcript
Suspend(j) == Move(j, {"active"}, "waiting") /\ UNCHANGED transcript

(* the three ways a job ends *)
Succeed(j) ==
  /\ Move(j, {"active"}, "succeeded")
  /\ transcript' = [transcript EXCEPT ![j] = Speech[j]]
Fail(j)   == Move(j, {"active"}, "failed") /\ UNCHANGED transcript
Cancel(j) == Move(j, {"waiting", "active"}, "cancelled") /\ UNCHANGED transcript

Next ==
  \E j \in Jobs :
    \/ Admit(j) \/ Submit(j) \/ Activate(j) \/ Suspend(j)
    \/ Succeed(j) \/ Fail(j) \/ Cancel(j)

Spec == Init /\ [][Next]_vars
=============================================================================
