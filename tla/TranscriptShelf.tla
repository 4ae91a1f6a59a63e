--------------------------- MODULE TranscriptShelf ---------------------------
(***************************************************************************)
(* What readers of the library are promised about transcripts: a video     *)
(* shows at most one version; a version that has been taken off never      *)
(* returns; once a video shows a transcript it keeps showing one, unless a *)
(* replacement video takes over its place in the same step.                *)
(***************************************************************************)
CONSTANTS Media, Version, None

VARIABLES
  shown,  \* the version each video shows, None when it shows none
  past    \* the versions that are or have been shown

vars == <<shown, past>>

Init == shown = [m \in Media |-> None] /\ past = {}

Show(m, v) ==
  /\ v \notin past
  /\ shown' = [shown EXCEPT ![m] = v]
  /\ past' = past \cup {v}

(* The candidate shows nothing yet: its transcript takes over the source's
   place, and no second transcript is lost on the way. *)
TakeOver(source, candidate, v) ==
  /\ v \notin past
  /\ source # candidate
  /\ shown[source] # None /\ shown[candidate] = None
  /\ shown' = [shown EXCEPT ![source] = None, ![candidate] = v]
  /\ past' = past \cup {v}

Next ==
  \E v \in Version :
    \/ \E m \in Media : Show(m, v)
    \/ \E s, c \in Media : TakeOver(s, c, v)

Spec == Init /\ [][Next]_vars
=============================================================================
