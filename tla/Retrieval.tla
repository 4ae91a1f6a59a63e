------------------------------ MODULE Retrieval ------------------------------
(***************************************************************************)
(* A question's search of the index while versions are written, published, *)
(* binned and purged (src/retrieve.py, src/index.py,                       *)
(* src/indexing_pipeline.py).                                              *)
(*                                                                         *)
(* A version has parents (rows of parents.sqlite) and every parent has     *)
(* children (Qdrant points); ids are hashed from the version, so versions  *)
(* share none.  A search reads the heads once, then asks Qdrant once for   *)
(* each sub-query, then reads the parents: nothing holds these together.   *)
(* Scores decide the order of hits and nothing else: an order is any.      *)
(* Searches change nothing, so one stands for all.                         *)
(***************************************************************************)
EXTENDS Integers, Sequences, FiniteSets, SequencesExt

CONSTANTS
  Item, NoItem,
  Video,            \* the items that are transcripts of videos
  Version, Parent, Child,
  ItemOf, VersionOf, ParentOf,
  Shown,            \* the versions on show at first
  MaxRequests,      \* a bound: publications that are requested
  Subs,             \* DECOMPOSE_MAX_SUBQUERIES
  RecallLimit,      \* RERANK_TOP_K: children a sub-query brings
  Depth,            \* a bound: children of a sub-query in SidesHeard
  RerankCap,        \* RERANK_BATCH_CAP: children reranked together
  Quota,            \* DECOMPOSE_MIN_QUOTA_PER_SUBQUERY
  MultiTopK,        \* DECOMPOSE_FINAL_TOP_K
  TopK,             \* FINAL_TOP_K
  VideoQuota        \* TRANSCRIPT_MIN_QUOTA

(* Versions are numbered, later ones higher, and children in the order of the
   text; 0 is no version. *)
ASSUME RetrievalAssumption ==
  /\ NoItem \notin Item /\ Video \subseteq Item /\ Version \subseteq Nat \ {0}
  /\ Child \subseteq Nat /\ IsFiniteSet(Child) /\ ItemOf \in [Version -> Item]
  /\ VersionOf \in [Parent -> Version] /\ ParentOf \in [Child -> Parent]
  /\ {Subs, RecallLimit, RerankCap, Quota, TopK} \subseteq Nat \ {0}
  /\ {Depth, MaxRequests} \subseteq Nat
  /\ {VideoQuota, MultiTopK} \subseteq Nat
  /\ Shown \subseteq Version /\ \A v, w \in Shown : ItemOf[v] = ItemOf[w] => v = w
  /\ Subs * Quota <= MultiTopK /\ Subs <= RerankCap

VARIABLES
  parents, points,   \* rows of parents.sqlite, points of Qdrant
  head,              \* the version of each item that is on show, or 0
  bin, gone,         \* items in the recycle bin, items purged
  open, fresh,       \* versions that may be published; those perhaps not uploaded yet
  pending,           \* versions requested and not yet published, failed or cancelled
  writer,            \* what the index worker is writing and how far it is
  purge,             \* the item being purged and how far it is
  requests,          \* how many publications were requested
  overtaken,         \* ghost: items restored or requested while a purge had them planned
  search             \* the search under way

counted == <<requests, open, fresh, overtaken>>
library == <<parents, points, head, bin, gone, pending, writer, purge, counted>>
vars    == <<library, search>>

VersionOfChild(c) == VersionOf[ParentOf[c]]
RowsOf(v)   == {p \in Parent : VersionOf[p] = v}
PointsOf(v) == {c \in Child : VersionOfChild(c) = v}
First(s, n) == SubSeq(s, 1, IF n < Len(s) THEN n ELSE Len(s))
Least(m, n) == IF m < n THEN m ELSE n
Without(s, S) == FoldLeft(LAMBDA u, x : IF x \in S THEN u ELSE Append(u, x), <<>>, s)

NoWork  == [version |-> 0, step |-> "none", todo |-> {}, cancelled |-> FALSE]
NoPurge == [item |-> NoItem, step |-> "none"]
NoSearch == [pc |-> "idle", subs |-> 0, snap |-> {}, held |-> {}, hits |-> <<>>,
             chosen |-> <<>>, found |-> {}]

Init ==
  /\ parents = UNION {RowsOf(v) : v \in Shown} /\ points = UNION {PointsOf(v) : v \in Shown}
  /\ head = [i \in Item |-> IF \E v \in Shown : ItemOf[v] = i
                            THEN CHOOSE v \in Shown : ItemOf[v] = i ELSE 0]
  /\ bin = {} /\ gone = {} /\ pending = {}
  /\ open = Version \ Shown /\ fresh = open
  /\ writer = NoWork /\ purge = NoPurge
  /\ requests = 0 /\ overtaken = {} /\ search = NoSearch
-----------------------------------------------------------------------------
(* Publishing a version: a request, then the worker writes its parents, then
   its children batch by batch, then the head.  The request for a document has
   checked the item earlier, so it may be in the bin by now. *)

Pending(i) == {v \in pending : ItemOf[v] = i}
Latest(i)  == {v \in Version : ItemOf[v] = i /\ \A w \in Version : ItemOf[w] = i /\ v < w => w \in fresh}
WriterOf(i) == writer.version # 0 /\ ItemOf[writer.version] = i

RequestPublication(v) ==
  LET i == ItemOf[v] IN
  /\ requests < MaxRequests /\ requests' = requests + 1
  /\ i \notin gone /\ (i \in bin => i \notin Video) /\ v \in open /\ head[i] # v
  /\ pending' = pending \cup {v} /\ open' = open \ {v} /\ fresh' = fresh \ {v}
  /\ overtaken' = IF i = purge.item THEN overtaken \cup {i} ELSE overtaken
  /\ UNCHANGED <<parents, points, head, bin, gone, writer, purge>>

StoreParents(v) ==
  /\ writer = NoWork /\ v \in pending
  /\ parents' = parents \cup RowsOf(v)
  /\ writer' = [NoWork EXCEPT !.version = v, !.step = "stored"]
  /\ UNCHANGED <<points, head, bin, gone, pending, purge, counted>>

(* Qdrant is asked once, unless the children carry locations. *)
Probe ==
  /\ writer.step = "stored"
  /\ \E S \in {PointsOf(writer.version), PointsOf(writer.version) \ points} :
       writer' = [writer EXCEPT !.step = "writing", !.todo = S]
  /\ UNCHANGED <<parents, points, head, bin, gone, pending, purge, counted>>

IndexChild(c) ==
  /\ writer.step = "writing"
  /\ c \in writer.todo /\ \A d \in writer.todo : c <= d
  /\ points' = points \cup {c}
  /\ writer' = [writer EXCEPT !.todo = @ \ {c}]
  /\ UNCHANGED <<parents, head, bin, gone, pending, purge, counted>>

Promote ==
  /\ writer.step = "writing" /\ ~ writer.cancelled /\ writer.todo = {}
  /\ head' = [head EXCEPT ![ItemOf[writer.version]] = writer.version]
  /\ pending' = pending \ {writer.version} /\ writer' = NoWork
  /\ UNCHANGED <<parents, points, bin, gone, purge, counted>>

(* An error: what is written stays, and the version may be published again. *)
WriterFails ==
  /\ writer # NoWork /\ ~ writer.cancelled
  /\ pending' = pending \ {writer.version} /\ open' = open \cup {writer.version}
  /\ writer' = NoWork
  /\ UNCHANGED <<parents, points, head, bin, gone, purge, requests, fresh, overtaken>>

(* A cancelled writer notices when it next reports its stage, or at its end,
   and deletes what it wrote, points first, or as much as the stores let it. *)
CleanPoints ==
  /\ writer.cancelled /\ writer.step # "cleaning"
  /\ points' = points \ PointsOf(writer.version)
  /\ writer' = [writer EXCEPT !.step = "cleaning", !.todo = {}]
  /\ UNCHANGED <<parents, head, bin, gone, pending, purge, counted>>

CleanParents ==
  /\ writer.step = "cleaning"
  /\ parents' = parents \ RowsOf(writer.version)
  /\ writer' = NoWork
  /\ UNCHANGED <<points, head, bin, gone, pending, purge, counted>>

CleanFails ==
  /\ writer.cancelled
  /\ writer' = NoWork
  /\ UNCHANGED <<parents, points, head, bin, gone, pending, purge, counted>>
-----------------------------------------------------------------------------
(* The bin.  A document loses its head with its place, a video keeps it. *)
Unheaded(i) == IF i \in Video THEN head ELSE [head EXCEPT ![i] = 0]

(* Older versions are not looked at. *)
Archive(i) ==
  /\ i \notin bin \cup gone /\ \E v \in Latest(i) : v \notin pending
  /\ bin' = bin \cup {i} /\ head' = Unheaded(i)
  /\ UNCHANGED <<parents, points, gone, pending, writer, purge, counted>>

(* A document's latest version waits to be published again.  Nothing tells it
   that a purge has planned the item. *)
Restore(i) ==
  /\ i \in bin /\ bin' = bin \ {i}
  /\ IF i \in Video THEN UNCHANGED <<open, fresh>>
     ELSE \E v \in Latest(i) \ pending : open' = open \cup {v} /\ fresh' = fresh \ {v}
  /\ overtaken' = IF i = purge.item THEN overtaken \cup {i} ELSE overtaken
  /\ UNCHANGED <<parents, points, head, gone, pending, writer, purge, requests>>

(* A mutant: whether the item is in the bin is not checked. *)
PurgeableAny(i) == i \notin gone /\ Pending(i) = {}
Purgeable(i)    == i \in bin /\ Pending(i) = {}

Plan(i) ==
  /\ purge = NoPurge /\ Purgeable(i)
  /\ purge' = [item |-> i, step |-> "planned"]
  /\ UNCHANGED <<parents, points, head, bin, gone, pending, writer, counted>>

(* A directory is deleted by force: the jobs of its documents are cancelled,
   the documents archived and then purged. *)
ForceDelete(i) ==
  /\ purge = NoPurge /\ i \notin Video \cup gone
  /\ bin' = bin \cup {i} /\ head' = Unheaded(i) /\ pending' = pending \ Pending(i)
  /\ writer' = [writer EXCEPT !.cancelled = @ \/ WriterOf(i)]
  /\ purge' = [item |-> i, step |-> "planned"]
  /\ UNCHANGED <<parents, points, gone, counted>>

ItemPoints(i) == {c \in Child : ItemOf[VersionOfChild(c)] = i}
ItemRows(i)   == {p \in Parent : ItemOf[VersionOf[p]] = i}

(* A mutant: the parents go first. *)
PurgeParentsFirst ==
  /\ purge.step = "planned"
  /\ parents' = parents \ ItemRows(purge.item)
  /\ purge' = [purge EXCEPT !.step = "points"]
  /\ UNCHANGED <<points, head, bin, gone, pending, writer, counted>>

(* Points, parents, records; the plan is not checked again. *)
PurgePoints ==
  /\ purge.step = "planned"
  /\ points' = points \ ItemPoints(purge.item)
  /\ purge' = [purge EXCEPT !.step = "points"]
  /\ UNCHANGED <<parents, head, bin, gone, pending, writer, counted>>

PurgeParents ==
  /\ purge.step = "points"
  /\ parents' = parents \ ItemRows(purge.item)
  /\ purge' = [purge EXCEPT !.step = "parents"]
  /\ UNCHANGED <<points, head, bin, gone, pending, writer, counted>>

PurgeRecords ==
  LET i == purge.item IN
  /\ purge.step = "parents"
  /\ gone' = gone \cup {i} /\ bin' = bin \ {i} /\ head' = [head EXCEPT ![i] = 0]
  /\ pending' = pending \ Pending(i)
  /\ writer' = [writer EXCEPT !.cancelled = @ \/ WriterOf(i)]
  /\ purge' = NoPurge
  /\ UNCHANGED <<parents, points, counted>>

PurgeFails ==
  /\ purge # NoPurge
  /\ purge' = NoPurge
  /\ UNCHANGED <<parents, points, head, bin, gone, pending, writer, counted>>
-----------------------------------------------------------------------------
(* What readers may find: heads, except documents in the bin. *)
OnShow == {v \in Version : head[ItemOf[v]] = v /\ (ItemOf[v] \in bin => ItemOf[v] \in Video)}

LibraryStep ==
  \/ \E v \in Version : RequestPublication(v) \/ StoreParents(v)
  \/ \E c \in Child : IndexChild(c)
  \/ Probe \/ Promote \/ WriterFails \/ CleanPoints \/ CleanParents \/ CleanFails
  \/ \E i \in Item : Archive(i) \/ Restore(i) \/ Plan(i) \/ ForceDelete(i)
  \/ PurgePoints \/ PurgeParents \/ PurgeRecords \/ PurgeFails

(* Ghost: held is what has been on show, and out of the bin, ever since the
   search looked. *)
Library ==
  /\ LibraryStep
  /\ search' = [search EXCEPT !.held = {v \in @ : v \in OnShow' /\ ItemOf[v] \notin bin'}]

(* The process ends: a boot fails the document that was being written and
   queues everything else again. *)
Crash ==
  /\ pending' = {v \in pending : v # writer.version \/ writer.cancelled \/ ItemOf[v] \in Video}
  /\ open' = open \cup (pending \ pending')
  /\ writer' = NoWork /\ purge' = NoPurge
  /\ search' = NoSearch
  /\ UNCHANGED <<parents, points, head, bin, gone, requests, fresh, overtaken>>
-----------------------------------------------------------------------------
(* The two snapshots, and the number of sub-queries; one is a question that is
   not decomposed. *)
Look(m) ==
  /\ search.pc = "idle"
  /\ search' = [NoSearch EXCEPT !.pc = "looked", !.subs = m, !.snap = OnShow,
                               !.held = {v \in OnShow : ItemOf[v] \notin bin}]
  /\ UNCHANGED library

Matches == {c \in points : VersionOfChild(c) \in search.snap}
OrdersOf(S, k) == Injection(1 .. k, S)

(* One sub-query: dense and sparse search bring the nearest matches, whatever
   their distance, and the reranker orders them. *)
Recall ==
  /\ search.pc = "looked" /\ Len(search.hits) < search.subs
  /\ \E h \in OrdersOf(Matches, Least(RecallLimit, Cardinality(Matches))) :
       search' = [search EXCEPT !.hits = Append(@, h)]
  /\ UNCHANGED library
-----------------------------------------------------------------------------
(* _dedup_to_parents: of the children of some parents, the first TopK parents,
   and beyond them as many videos as the quota is short of. *)

VideoRow(p) == ItemOf[VersionOf[p]] \in Video

Admit(k, s, c) ==
  LET p == ParentOf[c]
      videos == {q \in ToSet(s) : VideoRow(q)} IN
  IF p \in ToSet(s) THEN s
  ELSE IF Len(s) < k \/ (VideoRow(p) /\ Cardinality(videos) < VideoQuota) THEN Append(s, p)
  ELSE s

Dedup(k, P, cs) ==
  FoldLeft(LAMBDA s, c : IF ParentOf[c] \in P THEN Admit(k, s, c) ELSE s, <<>>, cs)

(* _cap_children_for_rerank: each sub-query's head, less what an earlier one
   has taken, and then whatever the fused ranks prefer. *)
Reserve(m) == IF RerankCap \div m > 1 THEN RerankCap \div m ELSE 1

(* A mutant: the heads are not reserved. *)
HeadsNone(hits) == {}
Heads(hits) ==
  FoldLeft(LAMBDA S, h : S \cup ToSet(First(Without(h, S), Reserve(Len(hits)))), {}, hits)

Found(hits) == UNION {ToSet(hits[k]) : k \in DOMAIN hits}

Reranked(hits) ==
  IF Cardinality(Found(hits)) <= RerankCap THEN {Found(hits)}
  ELSE {S \in SUBSET Found(hits) : Heads(hits) \subseteq S /\ Cardinality(S) = RerankCap}

(* The parents of children, in the order of their best child. *)
ParentsIn(cs) ==
  FoldLeft(LAMBDA s, c : IF ParentOf[c] \in ToSet(s) THEN s ELSE Append(s, ParentOf[c]), <<>>, cs)

(* retrieve_multi: each sub-query's first Quota parents that no earlier one
   has, then the best of the others; ordered by the last ranking. *)
Reserved(hits) ==
  FoldLeft(LAMBDA s, h : s \o First(Without(ParentsIn(h), ToSet(s)), Quota),
           <<>>, hits)

Fused(hits, order) ==
  LET quota == Reserved(hits)
      rest  == Without(ParentsIn(order), ToSet(quota))
      sel   == First(quota \o First(rest, MultiTopK - Least(MultiTopK, Len(quota))), MultiTopK) IN
  Dedup(MultiTopK, ToSet(sel), order)

Selections(hits) ==
  IF Len(hits) = 1 THEN {Dedup(TopK, Parent, hits[1])}
  ELSE UNION {{Fused(hits, order) : order \in OrdersOf(S, Cardinality(S))} : S \in Reranked(hits)}

Select ==
  /\ search.pc = "looked" /\ Len(search.hits) = search.subs
  /\ \E s \in Selections(search.hits) : 
       search' = [search EXCEPT !.pc = "chosen", !.hits = <<>>, !.chosen = s]
  /\ UNCHANGED library

(* The rows as they are now, checked against the same snapshot. *)
Fetch ==
  /\ search.pc = "chosen"
  /\ search' = [search EXCEPT !.pc = "fetched",
       !.found = {p \in ToSet(search.chosen) : p \in parents /\ VersionOf[p] \in search.snap}]
  /\ UNCHANGED library

(* The sources are handed on, or an error ends the search at any point. *)
Leave ==
  /\ search.pc # "idle"
  /\ search' = NoSearch
  /\ UNCHANGED library

Next ==
  \/ Library \/ Crash
  \/ \E m \in 1 .. Subs : Look(m)
  \/ Recall \/ Select \/ Fetch \/ Leave

Spec == Init /\ [][Next]_vars
-----------------------------------------------------------------------------
(* What stayed on show while a question searched is not lost between the hit
   and its row: no writer, failed or finished, and no purge in between leaves
   a hit without its text. *)
NothingLost ==
  search.pc = "fetched" =>
    \A p \in ToSet(search.chosen) :
      VersionOf[p] \in search.held /\ ItemOf[VersionOf[p]] \notin overtaken => p \in search.found

(* A point of what is on show always has its parent, also after a writer or a
   purge was cut short and while an archived video is purged, so that no hit
   takes a place and is then dropped. *)
HitsResolve ==
  \A c \in points :
    VersionOfChild(c) \in OnShow /\ ItemOf[VersionOfChild(c)] \notin overtaken
      => ParentOf[c] \in parents

(* What a selection owes to its sub-queries: of each as many parents survive
   cap, quota and final ranking as the quota says and its reserved head has,
   and to a plain question the videos that were found, up to their quota. *)
Heard(hits, chosen) ==
  LET videos(S) == {p \in S : VideoRow(p)} IN
  IF Len(hits) = 1
  THEN Cardinality(videos(ToSet(chosen))) >=
         Least(VideoQuota, Cardinality(videos(ToSet(ParentsIn(hits[1])))))
  ELSE /\ Len(chosen) <= MultiTopK
       /\ \A k \in DOMAIN hits :
            LET safe == ParentsIn(First(hits[k], Reserve(Len(hits)))) IN
            Cardinality(ToSet(ParentsIn(hits[k])) \cap ToSet(chosen)) >= Least(Quota, Len(safe))

(* The numbers of sub-queries with which every side of a comparison keeps its
   place, whatever each of them brings, up to Depth children, and in whatever
   order the last ranking puts them. *)
FairCounts ==
  {m \in 1 .. Subs :
     \A hits \in [1 .. m -> UNION {OrdersOf(Child, n) : n \in 0 .. Depth}] :
       \A chosen \in Selections(hits) : Heard(hits, chosen)}

(* No cap, quota or ranking of the fusion takes a side of the comparison under
   way, or the video of a plain question, its place. *)
SidesHeard == search.pc # "idle" => search.subs \in FairCounts
=============================================================================
