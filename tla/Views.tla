------------------------------- MODULE Views --------------------------------
(***************************************************************************)
(* The view counter: RecordView counts into Redis behind a deduplication   *)
(* key, SyncBatchViewsToPostgres moves the pending views to videos.views,  *)
(* GetByID shows the sum of the two, and every edit of a video writes back *)
(* the views it read.  Without Redis views go to Postgres directly.        *)
(*                                                                         *)
(* An UPDATE inside the open transaction locks its row: other writers of   *)
(* that video wait for the commit or the rollback.                         *)
(***************************************************************************)
EXTENDS Naturals, FiniteSets

CONSTANTS Videos, Viewers,
          Recorders,     \* concurrent RecordView requests
          MaxViews,      \* bound: views recorded per video
          MaxSyncs,      \* bound: synchronisations
          CounterFaults, \* Redis commands, statements and commits may fail
          NoVid          \* "no video"

ASSUME ViewAssumption ==
    /\ IsFiniteSet(Recorders)
    /\ MaxViews \in Nat /\ MaxSyncs \in Nat
    /\ CounterFaults \in BOOLEAN
    /\ NoVid \notin Videos

VARIABLES
    cache,     \* Redis is there
    pg,        \* pg[v]: videos.views, committed
    pend,      \* pend[v]: video_views:<v> in Redis
    dedup,     \* view_dedup keys: pairs <<v, x>>
    recorder,  \* recorder[q]: the video it has a new dedup key for, or NoVid
    recorded,  \* recorded[v]: views answered "recorded" (history)
    sync,      \* the synchronisation: step, snapshot, videos still to do, row being moved
    tx,        \* tx[v]: increment in the open transaction; 0 when there is none
    syncs,     \* synchronisations started
    reader,    \* GetByID: the video, how far it is and the views it has added up
    edit,      \* an edit of a video: the video and the views in its copy
    leaked     \* leaked: a step has lost or doubled views (history)

viewVars == <<cache, pg, pend, dedup, recorder, recorded, sync, tx, syncs, reader,
              edit, leaked>>

MaxTotal == MaxViews * (MaxSyncs + 1)

ViewTypeOK ==
    /\ cache \in BOOLEAN
    /\ pg \in [Videos -> 0 .. MaxTotal] /\ pend \in [Videos -> 0 .. MaxViews]
    /\ dedup \subseteq Videos \X Viewers
    /\ recorder \in [Recorders -> Videos \cup {NoVid}]
    /\ recorded \in [Videos -> 0 .. MaxViews]
    /\ sync \in [pc : {"idle", "update", "decr"}, batch : [Videos -> 0 .. MaxViews],
                 todo : SUBSET Videos, cur : Videos \cup {NoVid}]
    /\ tx \in [Videos -> 0 .. MaxViews]
    /\ syncs \in 0 .. MaxSyncs
    /\ reader \in [v : Videos \cup {NoVid}, got : {"none", "row", "total"}, views : 0 .. 2 * MaxTotal]
    /\ edit \in [v : Videos \cup {NoVid}, copy : 0 .. MaxTotal]
    /\ leaked \in BOOLEAN

(* The row is not locked by the open transaction. *)
Free(v) == tx[v] = 0

-----------------------------------------------------------------------------
(* RecordView                                                              *)

(* SET key NX EX 60: TRUE for the one request that creates the key. *)
SetNX(v, x) == <<v, x>> \notin dedup

(* A new key goes on to INCR; a duplicate only reads the counter. *)
RecordView(q, v, x) ==
    /\ cache
    /\ recorder[q] = NoVid
    /\ recorded[v] + Cardinality({p \in Recorders : recorder[p] = v}) < MaxViews
    /\ SetNX(v, x)
    /\ dedup' = dedup \cup {<<v, x>>}
    /\ recorder' = [recorder EXCEPT ![q] = v]
    /\ UNCHANGED <<cache, pg, pend, recorded, sync, tx, syncs, reader, edit, leaked>>

(* INCR; when it fails the request fails too, and the key stays: the viewer's retry is a *)
(* duplicate until the key expires.                                                      *)
RecordViewIncr(q) ==
    /\ recorder[q] # NoVid
    /\ recorder' = [recorder EXCEPT ![q] = NoVid]
    /\ \/ /\ pend' = [pend EXCEPT ![recorder[q]] = @ + 1]
          /\ recorded' = [recorded EXCEPT ![recorder[q]] = @ + 1]
       \/ CounterFaults /\ UNCHANGED <<pend, recorded>>
    /\ UNCHANGED <<cache, pg, dedup, sync, tx, syncs, reader, edit, leaked>>

(* Without Redis: UPDATE views + 1, no deduplication. *)
recordViewFallback(v) ==
    /\ ~cache
    /\ recorded[v] < MaxViews
    /\ Free(v)
    /\ pg' = [pg EXCEPT ![v] = @ + 1]
    /\ recorded' = [recorded EXCEPT ![v] = @ + 1]
    /\ UNCHANGED <<cache, pend, dedup, recorder, sync, tx, syncs, reader, edit, leaked>>

(* The key's 60 seconds are over. *)
ExpireDedup(k) ==
    /\ k \in dedup
    /\ dedup' = dedup \ {k}
    /\ UNCHANGED <<cache, pg, pend, recorder, recorded, sync, tx, syncs, reader, edit, leaked>>

-----------------------------------------------------------------------------
(* The synchronisation                                                     *)

NoBatch == [v \in Videos |-> 0]

(* GetPendingViews: the keys with a positive count. *)
GetPendingViews ==
    /\ cache
    /\ sync.pc = "idle"
    /\ syncs < MaxSyncs
    /\ \E v \in Videos : pend[v] > 0
    /\ syncs' = syncs + 1
    /\ sync' = [pc |-> "update", batch |-> pend, todo |-> {v \in Videos : pend[v] > 0}, cur |-> NoVid]
    /\ UNCHANGED <<cache, pg, pend, dedup, recorder, recorded, tx, reader, edit, leaked>>

(* UPDATE videos SET views = views + n inside the transaction. *)
SyncUpdate(v) ==
    /\ sync.pc = "update"
    /\ v \in sync.todo
    /\ tx' = [tx EXCEPT ![v] = sync.batch[v]]
    /\ sync' = [sync EXCEPT !.pc = "decr", !.cur = v]
    /\ UNCHANGED <<cache, pg, pend, dedup, recorder, recorded, syncs, reader, edit, leaked>>

(* Mutant of SyncDecr: the counter is taken down by what it holds now. *)
SyncDecrAll ==
    /\ sync.pc = "decr"
    /\ pend' = [pend EXCEPT ![sync.cur] = 0]
    /\ sync' = [sync EXCEPT !.pc = "update", !.todo = @ \ {sync.cur}, !.cur = NoVid]
    /\ UNCHANGED <<cache, pg, dedup, recorder, recorded, tx, syncs, reader, edit, leaked>>

(* DECRBY right after it, before the commit; its error is ignored. *)
SyncDecr ==
    /\ sync.pc = "decr"
    /\ \/ pend' = [pend EXCEPT ![sync.cur] = @ - sync.batch[sync.cur]] /\ UNCHANGED leaked
       \/ CounterFaults /\ leaked' = TRUE /\ UNCHANGED pend
    /\ sync' = [sync EXCEPT !.pc = "update", !.todo = @ \ {sync.cur}, !.cur = NoVid]
    /\ UNCHANGED <<cache, pg, dedup, recorder, recorded, tx, syncs, reader, edit>>

EndSync ==
    /\ tx' = NoBatch
    /\ sync' = [pc |-> "idle", batch |-> NoBatch, todo |-> {}, cur |-> NoVid]

SyncCommit ==
    /\ sync.pc = "update"
    /\ sync.todo = {}
    /\ pg' = [v \in Videos |-> pg[v] + tx[v]]
    /\ EndSync
    /\ UNCHANGED <<cache, pend, dedup, recorder, recorded, syncs, reader, edit, leaked>>

(* A failing UPDATE or COMMIT rolls Postgres back; what Redis has given away is gone. *)
SyncRollback ==
    /\ CounterFaults
    /\ sync.pc = "update"
    /\ EndSync
    /\ leaked' = (leaked \/ \E v \in Videos : tx[v] # 0)
    /\ UNCHANGED <<cache, pg, pend, dedup, recorder, recorded, syncs, reader, edit>>

-----------------------------------------------------------------------------
(* GetByID: videos.views is read first, the pending views after it.        *)

GetByID(v) ==
    /\ reader.got # "row"
    /\ reader' = [v |-> v, got |-> "row", views |-> pg[v]]
    /\ UNCHANGED <<cache, pg, pend, dedup, recorder, recorded, sync, tx, syncs, edit, leaked>>

(* Mutant of GetPendingViewsForVideo: views being moved are counted as pending. *)
GetPendingViewsForVideoMoving(v) == pend[v] + tx[v]

(* 0 when Redis is missing. *)
GetPendingViewsForVideo(v) == IF cache THEN pend[v] ELSE 0

(* A failing GET is ignored: the Postgres half alone is shown. *)
ShowViews ==
    /\ reader.got = "row"
    /\ \/ reader' = [reader EXCEPT !.got = "total", !.views = @ + GetPendingViewsForVideo(reader.v)]
       \/ CounterFaults /\ reader' = [reader EXCEPT !.got = "total"]
    /\ UNCHANGED <<cache, pg, pend, dedup, recorder, recorded, sync, tx, syncs, edit, leaked>>

-----------------------------------------------------------------------------
(* Any edit of a video reads the whole row and later writes it back.       *)

EditRead(v) ==
    /\ edit.v = NoVid
    /\ edit' = [v |-> v, copy |-> pg[v]]
    /\ UNCHANGED <<cache, pg, pend, dedup, recorder, recorded, sync, tx, syncs, reader, leaked>>

EditWrite ==
    /\ edit.v # NoVid
    /\ Free(edit.v)
    /\ pg' = [pg EXCEPT ![edit.v] = edit.copy]
    /\ leaked' = (leaked \/ pg[edit.v] # edit.copy)
    /\ edit' = [v |-> NoVid, copy |-> 0]
    /\ UNCHANGED <<cache, pend, dedup, recorder, recorded, sync, tx, syncs, reader>>

-----------------------------------------------------------------------------

ViewInit ==
    /\ cache \in BOOLEAN
    /\ pg = NoBatch /\ pend = NoBatch /\ recorded = NoBatch /\ tx = NoBatch
    /\ dedup = {}
    /\ recorder = [q \in Recorders |-> NoVid]
    /\ sync = [pc |-> "idle", batch |-> NoBatch, todo |-> {}, cur |-> NoVid]
    /\ syncs = 0
    /\ reader = [v |-> NoVid, got |-> "none", views |-> 0]
    /\ edit = [v |-> NoVid, copy |-> 0]
    /\ leaked = FALSE

ViewNext ==
    \/ \E q \in Recorders : RecordViewIncr(q) \/ \E v \in Videos, x \in Viewers : RecordView(q, v, x)
    \/ \E v \in Videos : recordViewFallback(v) \/ SyncUpdate(v) \/ GetByID(v) \/ EditRead(v)
    \/ \E k \in Videos \X Viewers : ExpireDedup(k)
    \/ GetPendingViews \/ SyncDecr \/ SyncCommit \/ SyncRollback \/ ShowViews \/ EditWrite

-----------------------------------------------------------------------------

(* The part of video v's views that is counted twice while its row is updated and its Redis   *)
(* counter is not yet taken down.                                                             *)
BeingMoved(v) == IF sync.pc = "decr" /\ sync.cur = v THEN tx[v] ELSE 0

(* Recorded views are neither lost nor invented, wherever the synchronisation is: the only    *)
(* leaks are a rollback after DECRBY, a DECRBY that fails, and an edit that writes back views *)
(* it read before they changed (view.go SyncBatchViewsToPostgres, video.go Update).           *)
ViewsConserved ==
    leaked \/ \A v \in Videos : pg[v] + tx[v] + pend[v] = recorded[v] + BeingMoved(v)

(* A total shown to a viewer never exceeds the views recorded: GetByID reads Postgres before  *)
(* Redis, and the synchronisation takes Redis down before Postgres shows the views.  Exempt   *)
(* are the leaks of ViewsConserved: after a DECRBY that failed (its error is dropped) the     *)
(* views are in both stores and too many are shown.                                           *)
NeverShowsTooMany == leaked \/ (reader.got = "total" => reader.views <= recorded[reader.v])
=============================================================================
