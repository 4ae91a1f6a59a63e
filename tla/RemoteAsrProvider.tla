--------------------------- MODULE RemoteAsrProvider ---------------------------
(***************************************************************************)
(* One transcription as the application asks the ASR service for it: the   *)
(* calls of RemoteAsrProvider.transcribe and the checks of the deadline    *)
(* and of the user's cancellation between them                             *)
(* (src/transcription/remote_provider.py), over the service as             *)
(* AsrJobContract, which AsrService implements, promises it.               *)
(*                                                                         *)
(* The worker makes one call of transcribe at a time.  A request, or its   *)
(* answer, may be lost: the HTTP client then raises after its own timeout. *)
(* Each application job has its own client request id.                     *)
(***************************************************************************)
CONSTANTS
  Jobs,    \* application jobs
  Speech   \* the whole transcript of each

VARIABLES
  phase, transcript,   \* the service
  pc,      \* where the call of a job is: between two steps, ended, or cut
  seen,    \* the state the last answer of the service showed
  answer,  \* what transcribe returned
  text,    \* with the candidate
  wished, late,        \* cancellation requested, deadline passed
  lost     \* history: jobs with a request or an answer lost

service == <<phase, transcript>>
call    == <<pc, seen, answer, text>>
clock   == <<wished, late, lost>>
vars    == <<service, call, clock>>

Service == INSTANCE AsrJobContract

(* What is checked before which request. *)
Checks == [enter |-> "capabilities", admit |-> "create", part |-> "put",
           ready |-> "start", poll |-> "get", last |-> "result"]
Requests == {"capabilities", "create", "put", "complete", "start", "get", "result"}
(* Mutant of Known: the loop that polls does not know the job. *)
KnownInUpload == {"part", "ready", "last"}
(* Where the service's job is known and can be cancelled. *)
Known  == {"part", "ready", "poll", "last"}
Ended  == {"succeeded", "failed", "cancelled"}
InCall == DOMAIN Checks \cup Requests

Init ==
  /\ Service!Init
  /\ pc = [j \in Jobs |-> "idle"] /\ seen = [j \in Jobs |-> "unknown"]
  /\ answer = [j \in Jobs |-> "none"] /\ text = [j \in Jobs |-> {}]
  /\ wished = {} /\ late = {} /\ lost = {}

Goto(j, to) == pc' = [pc EXCEPT ![j] = to]
Return(j, a) == Goto(j, "done") /\ answer' = [answer EXCEPT ![j] = a]
-----------------------------------------------------------------------------
(* The worker, the user and the clock. *)

Call(j) ==
  /\ pc[j] = "idle" /\ \A k \in Jobs : pc[k] \notin InCall
  /\ Goto(j, "enter")
  /\ UNCHANGED <<service, seen, answer, text, clock>>

Wish(j) ==
  /\ j \notin wished /\ wished' = wished \cup {j}
  /\ UNCHANGED <<service, call, late, lost>>

Deadline(j) ==
  /\ pc[j] \in InCall /\ j \notin late /\ late' = late \cup {j}
  /\ UNCHANGED <<service, call, wished, lost>>

(* The process dies; its next start marks the job failed and never asks for
   it again. *)
Crash ==
  /\ \E j \in Jobs : pc[j] \in InCall
  /\ pc' = [j \in Jobs |-> IF pc[j] \in InCall THEN "cut" ELSE pc[j]]
  /\ UNCHANGED <<service, seen, answer, text, clock>>
-----------------------------------------------------------------------------
(* The checks: cancellation before deadline.  The service is asked to cancel
   what it runs or will run; what it refuses and what is lost is ignored. *)

Pass(j) ==
  /\ pc[j] \in DOMAIN Checks /\ j \notin wished \cup late
  /\ IF pc[j] = "last" /\ seen[j] # "succeeded"
     THEN Return(j, seen[j])
     ELSE Goto(j, Checks[pc[j]]) /\ UNCHANGED answer
  /\ UNCHANGED <<service, seen, text, clock>>

CancelRemote(j) ==
  IF phase[j] \in {"waiting", "active"} THEN Service!Cancel(j) ELSE UNCHANGED service

Interrupt(j) ==
  /\ pc[j] \in DOMAIN Checks /\ j \in wished \cup late
  /\ Return(j, IF j \in wished THEN "cancelled" ELSE "timeout")
  /\ \/ pc[j] \in Known /\ CancelRemote(j) /\ UNCHANGED lost
     \/ pc[j] \notin Known /\ UNCHANGED <<service, lost>>
     \/ pc[j] \in Known /\ lost' = lost \cup {j} /\ UNCHANGED service
  /\ UNCHANGED <<seen, text, wished, late>>
-----------------------------------------------------------------------------
(* The requests. *)

(* What the service does on a request. *)
Effect(j) ==
  CASE pc[j] = "create" /\ phase[j] = "unknown" -> Service!Admit(j)
    [] pc[j] = "complete" /\ phase[j] = "open"  -> Service!Submit(j)
    [] OTHER -> UNCHANGED service

(* What its answer shows; a paused job is shown and started again. *)
After(j) ==
  CASE pc[j] = "capabilities" -> {"admit"}
    [] pc[j] = "create"       -> {"part"}
    [] pc[j] = "put"          -> {"part", "complete"}
    [] pc[j] = "complete"     -> {"ready"}
    [] pc[j] \in {"start", "get"} ->
         CASE phase'[j] \in Ended -> {"last"}
           [] phase'[j] = "waiting" /\ pc[j] = "get" -> {"poll", "start"}
           [] OTHER -> {"poll"}

Ask(j) ==
  /\ pc[j] \in Requests \ {"result"} /\ Effect(j)
  /\ seen' = [seen EXCEPT ![j] = phase'[j]]
  /\ \E to \in After(j) : Goto(j, to)
  /\ UNCHANGED <<answer, text, clock>>

Fetch(j) ==
  /\ pc[j] = "result" /\ Return(j, "succeeded")
  /\ text' = [text EXCEPT ![j] = transcript[j]]
  /\ UNCHANGED <<service, seen, clock>>

(* The request, or the answer to what it did, is lost; capabilities that do
   not fit, a full queue or another refusal end the call as well. *)
Lose(j) ==
  /\ pc[j] \in Requests /\ (Effect(j) \/ UNCHANGED service)
  /\ Return(j, "unavailable") /\ lost' = lost \cup {j}
  /\ UNCHANGED <<seen, text, wished, late>>

Refused(j) ==
  /\ pc[j] \in Requests /\ Return(j, "refused")
  /\ UNCHANGED <<service, seen, text, clock>>

Transcribe(j) == Pass(j) \/ Interrupt(j) \/ Ask(j) \/ Fetch(j) \/ Lose(j) \/ Refused(j)

(* The service, without a promise that it gets on. *)
Engine(j) ==
  /\ Service!Activate(j) \/ Service!Suspend(j) \/ Service!Succeed(j) \/ Service!Fail(j)
  /\ UNCHANGED <<call, clock>>

Next ==
  \/ \E j \in Jobs : Call(j) \/ Wish(j) \/ Deadline(j) \/ Transcribe(j) \/ Engine(j)
  \/ Crash

Spec == Init /\ [][Next]_vars

(* Time passes, and every request returns or raises within its timeout. *)
FairSpec == Spec /\ \A j \in Jobs : WF_vars(Deadline(j)) /\ WF_vars(Transcribe(j))
-----------------------------------------------------------------------------
(* The answer says what happened.  A transcript is the whole one; a failure
   is one the service reported; a job is cancelled because the user or the
   service did; a timeout is a deadline that passed.  And unless a message was
   lost, the service does not work on for a caller that cancelled or gave up. *)
TrueAnswer(j) ==
  /\ answer[j] = "succeeded"   => phase[j] = "succeeded" /\ text[j] = Speech[j]
  /\ answer[j] = "failed"      => phase[j] = "failed"
  /\ answer[j] = "cancelled"   => j \in wished \/ phase[j] = "cancelled"
  /\ answer[j] = "timeout"     => j \in late
  /\ answer[j] = "unavailable" => j \in lost
  /\ answer[j] \in {"cancelled", "timeout"} /\ j \notin lost =>
       phase[j] \notin {"waiting", "active"}

(* Every call ends with a true answer that stays true, even when the service
   never gets on with the job, unless the process itself dies. *)
EveryCallAnswered ==
  \A j \in Jobs :
    pc[j] \in InCall ~> [](pc[j] \in {"cut", "done"} /\ TrueAnswer(j))
=============================================================================
