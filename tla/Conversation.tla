----------------------------- MODULE Conversation -----------------------------
(***************************************************************************)
(* One conversation of the chat: requests that ask, edit the last question *)
(* or regenerate the last answer, each under the conversation's lock, the  *)
(* stream that a thread draws the answer from, and what is persisted of it *)
(* (api/routes_chat.py, api/conversation_runtime.py, src/session.py).      *)
(*                                                                         *)
(* A request stands for the question it puts and the answer it generates.  *)
(* A question or an answer has versions, the last of which is active.  A   *)
(* deleted conversation's lock is dropped with it; the requests that then  *)
(* take a new one find no row, so one lock is enough here.  A crash only   *)
(* loses the turns under way, as a failed persist does.                    *)
(***************************************************************************)
EXTENDS Integers, SequencesExt

CONSTANTS Request, None

ASSUME ConversationAssumption == None \notin Request

VARIABLES
  row, turns, turnIndex, sources,  \* conversations, messages and their versions
  holder,    \* the lock
  pc, plan,  \* the requests: kind and turn aimed at
  session,   \* and what they were hydrated with
  late       \* history: requests persisted after they had lost the lock

store    == <<row, turns, turnIndex, sources>>
chat     == <<plan, session>>
chatVars == <<store, holder, pc, chat, late>>

Active(ts) == [i \in DOMAIN ts |-> <<Last(ts[i].asked), Last(ts[i].answers).by>>]
Before(n) == SubSeq(turns, 1, n - 1)
LastSource(ts) == IF ts = <<>> THEN None ELSE Last(Last(ts).answers).src

NoPlan    == [kind |-> "none", turn |-> 0]
NoSession == [history |-> <<>>, question |-> None, src |-> None, index |-> 0]

ChatInit ==
  /\ row = TRUE /\ turns = <<>> /\ turnIndex = 0 /\ sources = None
  /\ holder = None /\ pc = [r \in Request |-> "idle"]
  /\ plan = [r \in Request |-> NoPlan] /\ session = [r \in Request |-> NoSession]
  /\ late = {}

Goto(r, to) == pc' = [pc EXCEPT ![r] = to]
Free(r)     == holder' = IF holder = r THEN None ELSE holder
-----------------------------------------------------------------------------
(* A request: checked before the lock, and again and hydrated under it. *)

Accept(r) ==
  /\ pc[r] = "idle" /\ row
  /\ \E kind \in {"ask"} \cup (IF turns = <<>> THEN {} ELSE {"edit", "regenerate"}) :
       plan' = [plan EXCEPT ![r] =
         [kind |-> kind, turn |-> IF kind = "ask" THEN 0 ELSE Len(turns)]]
  /\ Goto(r, "waiting")
  /\ UNCHANGED <<store, holder, session, late>>

(* Mutant of Current: the check before the lock is taken for enough. *)
CurrentOnce(r) == row
(* The conversation is there, and the turn aimed at is still the last. *)
Current(r) == row /\ (plan[r].kind = "ask" \/ plan[r].turn = Len(turns))

Hydrated(r) ==
  LET n == plan[r].turn IN
  CASE plan[r].kind = "ask" ->
         [history |-> Active(turns), question |-> r, src |-> sources, index |-> turnIndex]
    [] plan[r].kind = "edit" ->
         [history |-> Active(Before(n)), question |-> r,
          src |-> LastSource(Before(n)), index |-> n - 1]
    [] plan[r].kind = "regenerate" ->
         [history |-> Active(Before(n)), question |-> Last(turns[n].asked),
          src |-> LastSource(Before(n)), index |-> n - 1]

Enter(r) ==
  /\ pc[r] = "waiting" /\ holder = None
  /\ IF Current(r)
     THEN /\ holder' = r /\ Goto(r, "asking")
          /\ session' = [session EXCEPT ![r] = Hydrated(r)]
     ELSE Goto(r, "done") /\ UNCHANGED <<holder, session>>
  /\ UNCHANGED <<store, plan, late>>

(* A thread rewrites and retrieves, and leaves a stream nobody has begun. *)
Prepare(r) ==
  /\ pc[r] = "asking"
  /\ \/ Goto(r, "ready") /\ UNCHANGED holder
     \/ Goto(r, "done") /\ Free(r)
  /\ UNCHANGED <<store, chat, late>>
-----------------------------------------------------------------------------
(* The stream: a thread is in it, or has given a chunk and left. *)

Pull(r) ==
  /\ pc[r] \in {"ready", "between"} /\ Goto(r, "inside")
  /\ UNCHANGED <<store, holder, chat, late>>

Chunk(r) ==
  /\ pc[r] = "inside" /\ Goto(r, "between")
  /\ UNCHANGED <<store, holder, chat, late>>

Answer(r, of, src) == [by |-> r, of |-> of, src |-> src]

Asked(r, src) ==
  /\ plan[r].kind = "ask"
  /\ turns' = Append(turns, [asked |-> <<r>>, answers |-> <<Answer(r, 1, src)>>])
  /\ turnIndex' = session[r].index + 1

Edited(r, src) ==
  /\ plan[r].kind = "edit"
  /\ turns' = [turns EXCEPT ![plan[r].turn] =
       [asked |-> Append(@.asked, r),
        answers |-> Append(@.answers, Answer(r, Len(@.asked) + 1, src))]]
  /\ UNCHANGED turnIndex

Regenerated(r, src) ==
  /\ plan[r].kind = "regenerate"
  /\ turns' = [turns EXCEPT ![plan[r].turn].answers =
       Append(@, Answer(r, Len(turns[plan[r].turn].asked), src))]
  /\ UNCHANGED turnIndex

(* One transaction; the answer's sources are its own, or those found before it
   when the query was turned away.  It looks at the rows it adds to, not at
   whether the turn is still the last. *)
Persist(r) ==
  \/ /\ row
     /\ \E src \in {r, session[r].src} :
          /\ Asked(r, src) \/ Edited(r, src) \/ Regenerated(r, src)
          /\ sources' = src
     /\ UNCHANGED row
  \/ UNCHANGED store

(* The stream ends, or its model raises: what there is of the answer is kept. *)
Finish(r) ==
  /\ pc[r] = "inside" /\ Persist(r) /\ Goto(r, "over")
  /\ UNCHANGED <<holder, chat, late>>

(* The client is found gone.  A stream that was never begun leaves nothing. *)
Disconnect(r) ==
  /\ \/ pc[r] = "between" /\ Persist(r)
     \/ pc[r] = "ready" /\ UNCHANGED store
  /\ Goto(r, "over")
  /\ UNCHANGED <<holder, chat, late>>

Release(r) ==
  /\ pc[r] = "over" /\ Goto(r, "done") /\ Free(r)
  /\ UNCHANGED <<store, chat, late>>

(* Mutant of Cut: the lock is not released on the way out. *)
CutHolding(r) ==
  /\ pc[r] \in {"waiting", "asking", "ready", "inside", "between", "over"}
  /\ Goto(r, IF pc[r] \in {"inside", "between"} THEN "adrift" ELSE "done")
  /\ UNCHANGED <<store, holder, chat, late>>
(* The response is cancelled.  The lock is released at once; a stream that was
   begun is closed when its thread leaves it and nothing refers to it. *)
Cut(r) ==
  /\ pc[r] \in {"waiting", "asking", "ready", "inside", "between", "over"}
  /\ Goto(r, IF pc[r] \in {"inside", "between"} THEN "adrift" ELSE "done")
  /\ Free(r)
  /\ UNCHANGED <<store, chat, late>>

Collect(r) ==
  /\ pc[r] = "adrift" /\ Persist(r) /\ Goto(r, "done")
  /\ late' = late \cup {r}
  /\ UNCHANGED <<holder, chat>>
-----------------------------------------------------------------------------
(* The user deletes the conversation, or it is too old. *)
Delete ==
  /\ row /\ row' = FALSE
  /\ turns' = <<>> /\ turnIndex' = 0 /\ sources' = None
  /\ UNCHANGED <<holder, pc, chat, late>>

Serve(r) ==
  \/ Enter(r) \/ Prepare(r) \/ Pull(r) \/ Chunk(r) \/ Finish(r) \/ Release(r) \/ Collect(r)

ChatNext ==
  \/ \E r \in Request : Accept(r) \/ Serve(r) \/ Disconnect(r) \/ Cut(r)
  \/ Delete

ChatSpec == ChatInit /\ [][ChatNext]_chatVars

(* Threads and event loop get on, every call to a model has a timeout, and an
   answer has a bounded number of tokens. *)
ChatFairSpec == ChatSpec /\ \A r \in Request : WF_chatVars(Serve(r)) /\ SF_chatVars(Finish(r))
-----------------------------------------------------------------------------
(* Every answer that is kept answers the version of the question it is filed
   under, in the context of the turns that are now active before it: a later
   turn never finds what it was built on changed.  The count of turns and the
   sources carried into the next one are those of the turns kept.  Nothing is
   said once a cut stream was persisted outside the lock. *)
ContextStands ==
  late = {} =>
    /\ \A i \in DOMAIN turns : \A k \in DOMAIN turns[i].answers :
         LET a == turns[i].answers[k] IN
         /\ session[a.by].history = Active(Before(i))
         /\ session[a.by].question = turns[i].asked[a.of]
    /\ turnIndex = Len(turns)
    /\ sources = LastSource(turns)

(* Every request ends, whatever becomes of the client and of the requests
   before it: no stream that is left leaves the conversation locked. *)
EveryChatEnds == \A r \in Request : pc[r] = "waiting" ~> pc[r] = "done"
=============================================================================
