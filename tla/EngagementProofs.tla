-------------------------- MODULE EngagementProofs --------------------------
(***************************************************************************)
(* What holds of the toggles and of the view counter for any number of     *)
(* users, videos and concurrent requests.                                  *)
(***************************************************************************)
EXTENDS MCEngagement, FiniteSetTheorems, TLAPS

-----------------------------------------------------------------------------
(* The view counter.                                                       *)

ViewSpec == ViewInit /\ [][ViewNext]_viewVars

SyncRecord == [pc : {"idle", "update", "decr"}, batch : [Videos -> 0 .. MaxViews],
               todo : SUBSET Videos, cur : Videos \cup {NoVid}]
ReaderRecord == [v : Videos \cup {NoVid}, got : {"none", "row", "total"}, views : Nat]
EditRecord == [v : Videos \cup {NoVid}, copy : Nat]

(* ViewTypeOK without the bounds on sums.                                  *)
ViewShape ==
    /\ cache \in BOOLEAN
    /\ pg \in [Videos -> Nat] /\ pend \in [Videos -> Nat]
    /\ dedup \subseteq Videos \X Viewers
    /\ recorder \in [Recorders -> Videos \cup {NoVid}]
    /\ recorded \in [Videos -> Nat]
    /\ sync \in SyncRecord
    /\ tx \in [Videos -> 0 .. MaxViews]
    /\ syncs \in 0 .. MaxSyncs
    /\ reader \in ReaderRecord
    /\ edit \in EditRecord
    /\ leaked \in BOOLEAN

(* Where a synchronisation is: what it still has to move is pending, and   *)
(* the row it is moving is the only one both updated and pending.          *)
SyncOK ==
    /\ sync.pc = "idle" => sync.todo = {} /\ \A v \in Videos : tx[v] = 0
    /\ sync.pc # "idle" => cache /\ syncs > 0
    /\ sync.pc = "decr" => sync.cur \in sync.todo /\ tx[sync.cur] = sync.batch[sync.cur]
    /\ \A v \in sync.todo : /\ 0 < sync.batch[v] /\ sync.batch[v] <= pend[v]
                            /\ tx[v] = 0 \/ (sync.pc = "decr" /\ sync.cur = v)
    /\ ~cache => /\ \A v \in Videos : pend[v] = 0
                 /\ \A q \in Recorders : recorder[q] = NoVid

RecordingAt(v) == {p \in Recorders : recorder[p] = v}

(* The bound of RecordView covers the requests on their way to INCR.       *)
Counted ==
    \A v \in Videos : /\ recorded[v] + Cardinality(RecordingAt(v)) <= MaxViews
                      /\ pend[v] <= recorded[v]

(* Synchronisations committed or rolled back so far.                       *)
Synced == IF sync.pc = "idle" THEN syncs ELSE syncs - 1
Limit == IF cache THEN MaxViews * Synced ELSE MaxViews

Bounded ==
    /\ \A v \in Videos : pg[v] <= Limit
    /\ edit.copy <= Limit
    /\ reader.got # "total" => reader.views <= Limit
    /\ reader.views <= Limit + MaxViews
    /\ ~cache => \A v \in Videos : /\ pg[v] <= recorded[v]
                                   /\ edit.v = v => edit.copy <= recorded[v]

(* What a reader has in hand, as long as nothing has leaked.               *)
Shown ==
    /\ reader.got # "none" => reader.v \in Videos
    /\ ~leaked /\ reader.got = "row" => reader.views <= pg[reader.v]
    /\ ~leaked /\ reader.got = "total" => reader.views <= recorded[reader.v]

ViewInv ==
    /\ ViewShape /\ SyncOK /\ Counted /\ Bounded /\ ViewsConserved /\ Shown

LEMMA ShapeFields ==
    ASSUME ViewShape
    PROVE  /\ sync.pc \in {"idle", "update", "decr"} /\ sync.batch \in [Videos -> 0 .. MaxViews]
           /\ sync.todo \subseteq Videos /\ sync.cur \in Videos \cup {NoVid}
           /\ reader.v \in Videos \cup {NoVid} /\ reader.got \in {"none", "row", "total"}
           /\ reader.views \in Nat
           /\ edit.v \in Videos \cup {NoVid} /\ edit.copy \in Nat
           /\ MaxViews \in Nat /\ MaxSyncs \in Nat /\ NoVid \notin Videos
BY ViewAssumption DEF ViewShape, SyncRecord, ReaderRecord, EditRecord

LEMMA LimitType ==
    ASSUME ViewShape, SyncOK
    PROVE  Synced \in 0 .. MaxSyncs /\ Limit \in Nat /\ MaxViews * Synced \in Nat
<1>1. Synced \in 0 .. MaxSyncs
  BY ShapeFields DEF Synced, SyncOK, ViewShape
<1>2. \A n \in Nat : MaxViews * n \in Nat
  BY ViewAssumption
<1>3. QED
  BY <1>1, <1>2, ViewAssumption DEF Limit

LEMMA RecordingFinite ==
    ASSUME NEW v
    PROVE  IsFiniteSet(RecordingAt(v)) /\ Cardinality(RecordingAt(v)) \in Nat
<1>1. RecordingAt(v) \in SUBSET Recorders
  BY DEF RecordingAt
<1>2. IsFiniteSet(RecordingAt(v))
  BY <1>1, FS_Subset, ViewAssumption
<1>3. QED
  BY <1>2, FS_CardinalityType

(* The views move, the synchronisation and the recorders do not: a reader, *)
(* an edit, or a deduplication key.                                        *)
LEMMA SyncStands ==
    ASSUME ViewInv, UNCHANGED <<cache, pend, recorder, sync, tx, syncs>>
    PROVE  SyncOK' /\ Limit' = Limit /\ UNCHANGED Synced
BY DEF ViewInv, SyncOK, Limit, Synced

LEMMA ReaderKeeps ==
    ASSUME ViewInv, reader' \in ReaderRecord,
           UNCHANGED <<cache, pg, pend, recorder, recorded, sync, tx, syncs, edit, leaked>>,
           dedup' \subseteq Videos \X Viewers, Shown',
           reader'.got # "total" => reader'.views <= Limit,
           reader'.views <= Limit + MaxViews
    PROVE  ViewInv'
<1>1. SyncOK' /\ Limit' = Limit
  BY SyncStands
<1>2. ViewShape'
  BY DEF ViewInv, ViewShape
<1>3. Counted' /\ ViewsConserved'
  BY DEF ViewInv, Counted, RecordingAt, ViewsConserved, BeingMoved
<1>4. Bounded'
  BY <1>1 DEF ViewInv, Bounded
<1>5. QED
  BY <1>1, <1>2, <1>3, <1>4 DEF ViewInv

LEMMA ExpireDedupKeeps ==
    ASSUME ViewInv, NEW k, ExpireDedup(k)
    PROVE  ViewInv'
BY ReaderKeeps DEF ExpireDedup, ViewInv, ViewShape, Shown, Bounded

LEMMA GetByIDKeeps ==
    ASSUME ViewInv, NEW v \in Videos, GetByID(v)
    PROVE  ViewInv'
<1>0. reader' = [v |-> v, got |-> "row", views |-> pg[v]] /\ pg[v] \in Nat /\ pg[v] <= Limit
  BY DEF GetByID, ViewInv, ViewShape, Bounded
<1>1. reader' \in ReaderRecord
  BY <1>0 DEF ReaderRecord
<1>2. Shown'
  BY <1>0 DEF Shown, GetByID
<1>3. Limit \in Nat /\ MaxViews \in Nat
  BY LimitType, ViewAssumption DEF ViewInv
<1>4. reader'.got = "row" /\ reader'.views = pg[v]
  BY <1>0
<1>5. QED
  BY <1>0, <1>1, <1>2, <1>3, <1>4, ReaderKeeps DEF GetByID, ViewInv, ViewShape

(* What is in Postgres and in Redis together has been recorded.            *)
LEMMA SumRecorded ==
    ASSUME ViewInv, ~ leaked, NEW v \in Videos
    PROVE  pg[v] + pend[v] <= recorded[v]
<1>1. pg[v] + tx[v] + pend[v] = recorded[v] + BeingMoved(v)
  BY DEF ViewInv, ViewsConserved
<1>2. BeingMoved(v) \in {tx[v], 0} /\ tx[v] \in Nat
  BY ViewAssumption DEF BeingMoved, ViewInv, ViewShape
<1>3. QED
  BY <1>1, <1>2 DEF ViewInv, ViewShape

LEMMA ShowViewsKeeps ==
    ASSUME ViewInv, ShowViews
    PROVE  ViewInv'
<1> DEFINE v == reader.v
<1>0. /\ v \in Videos /\ reader.views \in Nat /\ MaxViews \in Nat /\ Limit \in Nat
      /\ reader.views <= Limit /\ reader.got = "row"
      /\ pend[v] \in Nat /\ recorded[v] \in Nat /\ pg[v] \in Nat
  BY ShapeFields, LimitType DEF ShowViews, ViewInv, Shown, Bounded, ViewShape
<1>1. PICK n \in Nat :
        reader' = [v |-> v, got |-> "total", views |-> reader.views + n] /\ n <= pend[v]
  <2>1. GetPendingViewsForVideo(v) \in Nat /\ GetPendingViewsForVideo(v) <= pend[v]
    BY <1>0 DEF GetPendingViewsForVideo
  <2>2. reader = [v |-> v, got |-> "row", views |-> reader.views]
    <3>1. reader \in ReaderRecord
      BY DEF ViewInv, ViewShape
    <3>2. QED
      BY <1>0, <3>1 DEF ReaderRecord
  <2>3. CASE reader' = [reader EXCEPT !.got = "total", !.views = @ + GetPendingViewsForVideo(v)]
    <3>1. reader' = [v |-> v, got |-> "total", views |-> reader.views + GetPendingViewsForVideo(v)]
      BY <2>2, <2>3
    <3>2. QED
      BY <2>1, <3>1
  <2>4. CASE reader' = [reader EXCEPT !.got = "total"]
    <3>1. reader' = [v |-> v, got |-> "total", views |-> reader.views + 0]
      BY <1>0, <2>2, <2>4
    <3>2. QED
      BY <1>0, <3>1
  <2>5. QED
    BY <2>3, <2>4 DEF ShowViews
<1>2. /\ reader' \in ReaderRecord
      /\ reader'.v = v /\ reader'.got = "total" /\ reader'.views = reader.views + n
  BY <1>0, <1>1 DEF ReaderRecord
<1>3. pend[v] <= recorded[v] /\ recorded[v] <= MaxViews
  BY <1>0, RecordingFinite DEF ViewInv, Counted
<1>4. Shown'
  <2>1. ASSUME ~ leaked PROVE reader'.views <= recorded[v]
    <3>1. reader.views <= pg[v] /\ pg[v] + pend[v] <= recorded[v]
      BY <1>0, <2>1, SumRecorded DEF ViewInv, Shown
    <3>2. QED
      BY <1>0, <1>1, <1>2, <3>1
  <2>2. QED
    BY <1>0, <1>2, <2>1 DEF ShowViews, Shown
<1>5. reader'.views <= Limit + MaxViews
  BY <1>0, <1>1, <1>2, <1>3
<1>6. QED
  BY <1>2, <1>4, <1>5, ReaderKeeps DEF ShowViews, ViewInv, ViewShape

LEMMA EditReadKeeps ==
    ASSUME ViewInv, NEW v \in Videos, EditRead(v)
    PROVE  ViewInv'
<1>0. /\ edit' = [v |-> v, copy |-> pg[v]] /\ pg[v] \in Nat /\ pg[v] <= Limit
      /\ ~cache => pg[v] <= recorded[v]
  BY DEF EditRead, ViewInv, ViewShape, Bounded
<1>1. SyncOK' /\ Limit' = Limit
  BY SyncStands DEF EditRead
<1>2. ViewShape'
  BY <1>0 DEF EditRead, EditRecord, ViewInv, ViewShape
<1>3. Counted' /\ ViewsConserved' /\ Shown'
  BY DEF EditRead, ViewInv, Counted, RecordingAt, ViewsConserved, BeingMoved, Shown
<1>4. edit'.v = v /\ edit'.copy = pg[v]
  BY <1>0
<1>5. Bounded'
  BY <1>0, <1>1, <1>4 DEF EditRead, ViewInv, Bounded
<1>6. QED
  BY <1>1, <1>2, <1>3, <1>5 DEF ViewInv

(* The views written back are the ones in the row, or a leak is recorded.  *)
LEMMA EditWriteKeeps ==
    ASSUME ViewInv, EditWrite
    PROVE  ViewInv'
<1> DEFINE v == edit.v
<1>0. /\ v \in Videos /\ edit.copy \in Nat /\ edit.copy <= Limit /\ Limit \in Nat
      /\ pg' = [pg EXCEPT ![v] = edit.copy]
      /\ edit' = [v |-> NoVid, copy |-> 0]
      /\ ~leaked' => ~leaked /\ pg[v] = edit.copy
      /\ UNCHANGED <<cache, pend, dedup, recorder, recorded, sync, tx, syncs, reader>>
  BY ShapeFields, LimitType DEF EditWrite, ViewInv, Bounded
<1>1. SyncOK' /\ Limit' = Limit
  BY <1>0, SyncStands
<1>2. /\ pg'[v] = edit.copy /\ \A w \in Videos : w # v => pg'[w] = pg[w]
      /\ \A w \in Videos : ~leaked' => pg'[w] = pg[w]
  BY <1>0 DEF ViewInv, ViewShape
<1>3. ViewShape'
  <2>1. leaked' \in BOOLEAN
    BY DEF EditWrite, ViewInv, ViewShape
  <2>2. pg' \in [Videos -> Nat] /\ edit' \in EditRecord
    BY <1>0 DEF EditRecord, ViewInv, ViewShape
  <2>3. QED
    BY <1>0, <2>1, <2>2 DEF ViewInv, ViewShape
<1>4. Counted'
  BY <1>0 DEF ViewInv, Counted, RecordingAt
<1>5. ViewsConserved'
  BY <1>0, <1>2 DEF ViewInv, ViewsConserved, BeingMoved
<1>6. Shown'
  BY <1>0, <1>2 DEF ViewInv, Shown
<1>7. Bounded'
  <2>1. edit'.v = NoVid /\ edit'.copy = 0 /\ NoVid \notin Videos
    BY <1>0, ViewAssumption
  <2>2. QED
    BY <1>0, <1>1, <1>2, <2>1 DEF ViewInv, Bounded
<1>8. QED
  BY <1>1, <1>3, <1>4, <1>5, <1>6, <1>7 DEF ViewInv

LEMMA RecordViewKeeps ==
    ASSUME ViewInv, NEW q \in Recorders, NEW v \in Videos, NEW x \in Viewers, RecordView(q, v, x)
    PROVE  ViewInv'
<1>0. /\ cache /\ recorder[q] = NoVid /\ recorder' = [recorder EXCEPT ![q] = v]
      /\ recorded[v] + Cardinality(RecordingAt(v)) < MaxViews
      /\ UNCHANGED <<cache, pg, pend, recorded, sync, tx, syncs, reader, edit, leaked>>
      /\ recorder \in [Recorders -> Videos \cup {NoVid}] /\ NoVid \notin Videos
  BY ViewAssumption DEF RecordView, RecordingAt, ViewInv, ViewShape
<1>1. ViewShape'
  BY <1>0 DEF RecordView, ViewInv, ViewShape
<1>2. SyncOK'
  BY <1>0 DEF ViewInv, SyncOK
<1>3. Counted'
  <2>1. RecordingAt(v)' = RecordingAt(v) \cup {q} /\ q \notin RecordingAt(v)
    BY <1>0 DEF RecordingAt
  <2>2. \A w \in Videos : w # v => RecordingAt(w)' = RecordingAt(w)
    BY <1>0 DEF RecordingAt
  <2>3. Cardinality(RecordingAt(v)') = Cardinality(RecordingAt(v)) + 1
    BY <2>1, RecordingFinite, FS_AddElement
  <2>4. recorded[v] + Cardinality(RecordingAt(v)') <= MaxViews
    BY <1>0, <2>3, RecordingFinite, ViewAssumption DEF ViewInv, ViewShape
  <2>5. QED
    BY <1>0, <2>2, <2>4 DEF ViewInv, Counted
<1>4. Bounded' /\ ViewsConserved' /\ Shown'
  BY <1>0 DEF ViewInv, Bounded, Limit, Synced, ViewsConserved, BeingMoved, Shown
<1>5. QED
  BY <1>1, <1>2, <1>3, <1>4 DEF ViewInv

(* A view more in Redis and a recorder less on its way, or just the latter. *)
LEMMA RecordViewIncrKeeps ==
    ASSUME ViewInv, NEW q \in Recorders, RecordViewIncr(q)
    PROVE  ViewInv'
<1>v. PICK v \in Videos : v = recorder[q]
  BY ViewAssumption DEF RecordViewIncr, ViewInv, ViewShape
<1>0. /\ v = recorder[q] /\ recorder' = [recorder EXCEPT ![q] = NoVid]
      /\ UNCHANGED <<cache, pg, dedup, sync, tx, syncs, reader, edit, leaked>>
      /\ recorder \in [Recorders -> Videos \cup {NoVid}] /\ NoVid \notin Videos
      /\ MaxViews \in Nat
  BY <1>v, ViewAssumption DEF RecordViewIncr, ViewInv, ViewShape
<1>1. PICK n \in {0, 1} : /\ pend' = [pend EXCEPT ![v] = @ + n]
                          /\ recorded' = [recorded EXCEPT ![v] = @ + n]
  <2>1. CASE /\ pend' = [pend EXCEPT ![v] = @ + 1] /\ recorded' = [recorded EXCEPT ![v] = @ + 1]
    BY <2>1
  <2>2. CASE UNCHANGED <<pend, recorded>>
    <3>1. /\ pend' = [pend EXCEPT ![v] = @ + 0] /\ recorded' = [recorded EXCEPT ![v] = @ + 0]
      BY <1>0, <2>2 DEF ViewInv, ViewShape
    <3>2. QED
      BY <3>1
  <2>3. QED
    BY <1>v, <2>1, <2>2 DEF RecordViewIncr
<1>2. /\ pend'[v] = pend[v] + n /\ recorded'[v] = recorded[v] + n
      /\ \A w \in Videos : w # v => pend'[w] = pend[w] /\ recorded'[w] = recorded[w]
      /\ \A w \in Videos : /\ pend[w] \in Nat /\ pend[w] <= pend'[w]
                           /\ recorded[w] \in Nat /\ recorded[w] <= recorded'[w]
                           /\ pend'[w] \in Nat /\ recorded'[w] \in Nat
  BY <1>0, <1>1 DEF ViewInv, ViewShape
<1>3. ViewShape'
  <2>1. pend' \in [Videos -> Nat] /\ recorded' \in [Videos -> Nat]
    BY <1>0, <1>1 DEF ViewInv, ViewShape
  <2>2. QED
    BY <1>0, <2>1 DEF ViewInv, ViewShape
<1>4. SyncOK'
  <2>1. cache
    BY <1>0 DEF ViewInv, SyncOK
  <2>2. sync.todo \subseteq Videos /\ sync.batch \in [Videos -> 0 .. MaxViews]
    BY ShapeFields DEF ViewInv
  <2>3. \A w \in sync.todo : sync.batch[w] <= pend'[w]
    BY <1>0, <1>2, <2>2 DEF ViewInv, SyncOK
  <2>4. QED
    BY <1>0, <2>1, <2>3 DEF ViewInv, SyncOK
<1>5. Counted'
  <2>1. RecordingAt(v)' = RecordingAt(v) \ {q} /\ q \in RecordingAt(v)
    BY <1>0 DEF RecordingAt
  <2>2. \A w \in Videos : w # v => RecordingAt(w)' = RecordingAt(w)
    BY <1>0 DEF RecordingAt
  <2>3. Cardinality(RecordingAt(v)') = Cardinality(RecordingAt(v)) - 1
    BY <2>1, RecordingFinite, FS_RemoveElement
  <2>4. /\ recorded'[v] + Cardinality(RecordingAt(v)') <= MaxViews
        /\ pend'[v] <= recorded'[v]
    BY <1>0, <1>2, <2>3, RecordingFinite DEF ViewInv, Counted
  <2>5. QED
    BY <1>2, <2>2, <2>4 DEF ViewInv, Counted
<1>6. Bounded'
  <2>1. Limit' = Limit
    BY <1>0 DEF Limit, Synced
  <2>2. cache
    BY <1>0 DEF ViewInv, SyncOK
  <2>3. QED
    BY <1>0, <2>1, <2>2 DEF ViewInv, Bounded
<1>7. ViewsConserved'
  <2>1. \A w \in Videos : BeingMoved(w)' = BeingMoved(w) /\ BeingMoved(w) \in Nat
    BY <1>0 DEF BeingMoved, ViewInv, ViewShape
  <2>2. \A w \in Videos : pg[w] \in Nat /\ tx[w] \in Nat
    BY <1>0 DEF ViewInv, ViewShape
  <2>3. QED
    <3>1. ASSUME NEW w \in Videos, pg[w] + tx[w] + pend[w] = recorded[w] + BeingMoved(w)
          PROVE  pg[w] + tx[w] + pend'[w] = recorded'[w] + BeingMoved(w)
      <4>1. CASE w = v
        BY <1>2, <2>1, <2>2, <3>1, <4>1
      <4>2. CASE w # v
        BY <1>2, <3>1, <4>2
      <4>3. QED
        BY <4>1, <4>2
    <3>2. QED
      BY <1>0, <2>1, <3>1 DEF ViewInv, ViewsConserved
<1>8. Shown'
  <2>1. reader.views \in Nat
    BY ShapeFields DEF ViewInv
  <2>2. QED
    BY <1>0, <1>2, <2>1 DEF ViewInv, Shown
<1>9. QED
  BY <1>3, <1>4, <1>5, <1>6, <1>7, <1>8 DEF ViewInv

LEMMA FallbackKeeps ==
    ASSUME ViewInv, NEW v \in Videos, recordViewFallback(v)
    PROVE  ViewInv'
<1>0. /\ ~cache /\ recorded[v] < MaxViews
      /\ pg' = [pg EXCEPT ![v] = @ + 1] /\ recorded' = [recorded EXCEPT ![v] = @ + 1]
      /\ UNCHANGED <<cache, pend, dedup, recorder, sync, tx, syncs, reader, edit, leaked>>
      /\ MaxViews \in Nat
  BY ViewAssumption DEF recordViewFallback
<1>1. /\ pg'[v] = pg[v] + 1 /\ recorded'[v] = recorded[v] + 1
      /\ \A w \in Videos : w # v => pg'[w] = pg[w] /\ recorded'[w] = recorded[w]
      /\ \A w \in Videos : /\ pg[w] \in Nat /\ pg[w] <= pg'[w] /\ pend[w] \in Nat
                           /\ recorded[w] \in Nat /\ recorded[w] <= recorded'[w]
                           /\ tx[w] \in Nat /\ pg'[w] \in Nat /\ recorded'[w] \in Nat
  BY <1>0 DEF ViewInv, ViewShape
<1>2. ViewShape'
  <2>1. pg' \in [Videos -> Nat] /\ recorded' \in [Videos -> Nat]
    BY <1>0 DEF ViewInv, ViewShape
  <2>2. QED
    BY <1>0, <2>1 DEF ViewInv, ViewShape
<1>3. SyncOK' /\ Limit' = Limit /\ Limit = MaxViews
  BY <1>0, SyncStands DEF Limit
<1>4. Counted'
  <2>1. \A w \in Videos : RecordingAt(w) = {} /\ RecordingAt(w)' = {}
    BY <1>0, ViewAssumption DEF ViewInv, SyncOK, RecordingAt
  <2>2. QED
    BY <1>0, <1>1, <2>1, FS_EmptySet DEF ViewInv, Counted
<1>5. Bounded'
  <2>1. reader.views \in Nat /\ edit.copy \in Nat
    BY ShapeFields DEF ViewInv
  <2>2. \A w \in Videos : recorded'[w] <= MaxViews
    <3>1. \A w \in Videos : recorded[w] <= MaxViews
      BY <1>0, <1>1, RecordingFinite DEF ViewInv, Counted
    <3>2. QED
      BY <1>0, <1>1, <3>1
  <2>3. \A w \in Videos : pg'[w] <= recorded'[w] /\ (edit.v = w => edit.copy <= recorded'[w])
    BY <1>0, <1>1, <2>1 DEF ViewInv, Bounded
  <2>4. \A w \in Videos : pg'[w] <= MaxViews
    BY <1>0, <1>1, <2>2, <2>3
  <2>5. QED
    BY <1>0, <1>3, <2>3, <2>4 DEF ViewInv, Bounded
<1>6. ViewsConserved'
  <2>1. \A w \in Videos : BeingMoved(w)' = BeingMoved(w) /\ BeingMoved(w) \in Nat
    BY <1>0, <1>1 DEF BeingMoved
  <2>2. QED
    BY <1>0, <1>1, <2>1 DEF ViewInv, ViewsConserved
<1>7. Shown'
  <2>1. reader.views \in Nat
    BY ShapeFields DEF ViewInv
  <2>2. QED
    BY <1>0, <1>1, <2>1 DEF ViewInv, Shown
<1>8. QED
  BY <1>2, <1>3, <1>4, <1>5, <1>6, <1>7 DEF ViewInv

(* A synchronisation begins: a snapshot of what is pending.                *)
LEMMA GetPendingViewsKeeps ==
    ASSUME ViewInv, GetPendingViews
    PROVE  ViewInv'
<1>0. /\ cache /\ sync.pc = "idle" /\ syncs' = syncs + 1 /\ syncs \in 0 .. MaxSyncs
      /\ sync' = [pc |-> "update", batch |-> pend, todo |-> {v \in Videos : pend[v] > 0},
                  cur |-> NoVid]
      /\ UNCHANGED <<cache, pg, pend, dedup, recorder, recorded, tx, reader, edit, leaked>>
      /\ MaxViews \in Nat /\ MaxSyncs \in Nat /\ syncs < MaxSyncs
      /\ \A v \in Videos : tx[v] = 0
  BY ViewAssumption DEF GetPendingViews, ViewInv, ViewShape, SyncOK
<1>1. pend \in [Videos -> 0 .. MaxViews]
  <2>1. \A v \in Videos : pend[v] \in 0 .. MaxViews
    BY <1>0, RecordingFinite DEF ViewInv, ViewShape, Counted
  <2>2. QED
    BY <2>1 DEF ViewInv, ViewShape
<1>2. sync' \in SyncRecord
  BY <1>0, <1>1 DEF SyncRecord
<1>3. /\ sync'.pc = "update" /\ sync'.batch = pend /\ sync'.cur = NoVid
      /\ sync'.todo = {v \in Videos : pend[v] > 0}
  BY <1>0
<1>4. ViewShape'
  BY <1>0, <1>2 DEF ViewInv, ViewShape
<1>5. SyncOK'
  <2>1. \A v \in sync'.todo : 0 < pend[v] /\ pend[v] <= pend[v] /\ tx[v] = 0
    BY <1>0, <1>1, <1>3
  <2>2. QED
    BY <1>0, <1>3, <2>1 DEF SyncOK
<1>6. Limit' = Limit
  BY <1>0, <1>3 DEF Limit, Synced
<1>7. Counted' /\ Bounded' /\ Shown'
  BY <1>0, <1>6 DEF ViewInv, Counted, RecordingAt, Bounded, Shown
<1>8. ViewsConserved'
  BY <1>0, <1>3 DEF ViewInv, ViewsConserved, BeingMoved
<1>9. QED
  BY <1>4, <1>5, <1>7, <1>8 DEF ViewInv

(* The row is updated: until DECRBY its views are in both places.          *)
LEMMA SyncUpdateKeeps ==
    ASSUME ViewInv, NEW v \in Videos, SyncUpdate(v)
    PROVE  ViewInv'
<1>0. /\ sync.pc = "update" /\ v \in sync.todo /\ cache
      /\ tx' = [tx EXCEPT ![v] = sync.batch[v]]
      /\ sync' = [sync EXCEPT !.pc = "decr", !.cur = v]
      /\ UNCHANGED <<cache, pg, pend, dedup, recorder, recorded, syncs, reader, edit, leaked>>
      /\ sync.batch \in [Videos -> 0 .. MaxViews] /\ MaxViews \in Nat
      /\ \A w \in sync.todo : tx[w] = 0
  BY ShapeFields DEF SyncUpdate, ViewInv, SyncOK
<1>1. /\ sync'.pc = "decr" /\ sync'.cur = v /\ sync'.batch = sync.batch /\ sync'.todo = sync.todo
      /\ sync' \in SyncRecord
  <2>1. sync \in SyncRecord
    BY DEF ViewInv, ViewShape
  <2>2. QED
    BY <1>0, <2>1 DEF SyncRecord
<1>2. /\ tx'[v] = sync.batch[v] /\ tx[v] = 0
      /\ \A w \in Videos : w # v => tx'[w] = tx[w]
      /\ \A w \in Videos : pg[w] \in Nat /\ pend[w] \in Nat /\ recorded[w] \in Nat /\ tx[w] \in Nat
      /\ sync.batch[v] \in Nat
  BY <1>0 DEF ViewInv, ViewShape
<1>3. ViewShape'
  <2>1. tx' \in [Videos -> 0 .. MaxViews]
    BY <1>0 DEF ViewInv, ViewShape
  <2>2. QED
    BY <1>0, <1>1, <2>1 DEF ViewInv, ViewShape
<1>4. SyncOK'
  <2>1. sync.todo \subseteq Videos
    BY ShapeFields DEF ViewInv
  <2>2. \A w \in sync.todo : tx'[w] = 0 \/ w = v
    BY <1>0, <1>2, <2>1
  <2>3. QED
    BY <1>0, <1>1, <1>2, <2>2 DEF ViewInv, SyncOK
<1>5. Limit' = Limit
  BY <1>0, <1>1 DEF Limit, Synced
<1>6. Counted' /\ Bounded' /\ Shown'
  BY <1>0, <1>5 DEF ViewInv, Counted, RecordingAt, Bounded, Shown
<1>7. ViewsConserved'
  <2>1. /\ \A w \in Videos : BeingMoved(w) = 0
        /\ BeingMoved(v)' = sync.batch[v]
        /\ \A w \in Videos : w # v => BeingMoved(w)' = 0
    BY <1>0, <1>1, <1>2 DEF BeingMoved
  <2>2. QED
    BY <1>0, <1>2, <2>1 DEF ViewInv, ViewsConserved
<1>8. QED
  BY <1>3, <1>4, <1>6, <1>7 DEF ViewInv

(* DECRBY takes what the row got: the counter is no lower than that.       *)
LEMMA SyncDecrKeeps ==
    ASSUME ViewInv, SyncDecr
    PROVE  ViewInv'
<1>v. PICK v \in Videos : v = sync.cur
  BY ShapeFields DEF SyncDecr, ViewInv, SyncOK
<1>0. /\ sync.pc = "decr" /\ v \in sync.todo /\ cache /\ syncs > 0
      /\ tx[v] = sync.batch[v] /\ sync.batch[v] <= pend[v]
      /\ sync' = [sync EXCEPT !.pc = "update", !.todo = @ \ {v}, !.cur = NoVid]
      /\ UNCHANGED <<cache, pg, dedup, recorder, recorded, tx, syncs, reader, edit>>
      /\ sync.batch \in [Videos -> 0 .. MaxViews] /\ MaxViews \in Nat
      /\ sync.todo \subseteq Videos
      /\ \A w \in sync.todo : w # v => tx[w] = 0
  BY <1>v, ShapeFields DEF SyncDecr, ViewInv, SyncOK
<1>1. /\ sync'.pc = "update" /\ sync'.batch = sync.batch /\ sync'.todo = sync.todo \ {v}
      /\ sync'.cur = NoVid /\ sync' \in SyncRecord
  <2>1. sync \in SyncRecord
    BY DEF ViewInv, ViewShape
  <2>2. QED
    BY <1>0, <2>1 DEF SyncRecord
<1>2. /\ \A w \in Videos : w # v => pend'[w] = pend[w]
      /\ pend'[v] \in Nat /\ pend'[v] <= pend[v]
      /\ ~leaked' => ~leaked /\ pend'[v] = pend[v] - tx[v]
      /\ pend' \in [Videos -> Nat] /\ leaked' \in BOOLEAN
      /\ \A w \in Videos : pg[w] \in Nat /\ pend[w] \in Nat /\ recorded[w] \in Nat /\ tx[w] \in Nat
  <2>0. /\ pend[v] \in Nat /\ sync.batch[v] \in Nat /\ pend[v] - sync.batch[v] \in Nat
        /\ pend \in [Videos -> Nat]
    BY <1>0 DEF ViewInv, ViewShape
  <2>1. CASE pend' = [pend EXCEPT ![v] = @ - sync.batch[v]] /\ UNCHANGED leaked
    BY <1>0, <2>0, <2>1 DEF ViewInv, ViewShape
  <2>2. CASE leaked' = TRUE /\ UNCHANGED pend
    BY <1>0, <2>0, <2>2 DEF ViewInv, ViewShape
  <2>3. QED
    BY <1>v, <2>1, <2>2 DEF SyncDecr
<1>3. ViewShape'
  BY <1>0, <1>1, <1>2 DEF ViewInv, ViewShape
<1>4. SyncOK'
  <2>1. \A w \in sync'.todo : /\ w \in sync.todo /\ tx[w] = 0 /\ pend'[w] = pend[w]
    BY <1>0, <1>1, <1>2
  <2>2. QED
    BY <1>0, <1>1, <2>1 DEF ViewInv, SyncOK
<1>5. Limit' = Limit
  BY <1>0, <1>1 DEF Limit, Synced
<1>6. Counted'
  <2>1. \A w \in Videos : pend'[w] <= recorded[w]
    BY <1>2 DEF ViewInv, Counted
  <2>2. QED
    BY <1>0, <2>1 DEF ViewInv, Counted, RecordingAt
<1>7. Bounded' /\ Shown'
  BY <1>0, <1>2, <1>5 DEF ViewInv, Bounded, Shown
<1>8. ViewsConserved'
  <2>1. /\ \A w \in Videos : BeingMoved(w)' = 0
        /\ BeingMoved(v) = tx[v]
        /\ \A w \in Videos : w # v => BeingMoved(w) = 0
    BY <1>v, <1>0, <1>1 DEF BeingMoved
  <2>2. ASSUME NEW w \in Videos, ~leaked'
        PROVE  pg[w] + tx[w] + pend'[w] = recorded[w]
    <3>1. pg[w] + tx[w] + pend[w] = recorded[w] + BeingMoved(w)
      BY <1>2, <2>2 DEF ViewInv, ViewsConserved
    <3>2. CASE w = v
      BY <1>2, <2>1, <2>2, <3>1, <3>2
    <3>3. CASE w # v
      BY <1>2, <2>1, <3>1, <3>3
    <3>4. QED
      BY <3>2, <3>3
  <2>3. QED
    BY <1>0, <1>2, <2>1, <2>2 DEF ViewsConserved, ViewShape
<1>9. QED
  BY <1>3, <1>4, <1>6, <1>7, <1>8 DEF ViewInv

(* Either end of a synchronisation: the limit grows by one batch.          *)
LEMMA EndSyncKeeps ==
    ASSUME ViewInv, EndSync, sync.pc = "update",
           UNCHANGED <<cache, pend, recorder, recorded, syncs>>
    PROVE  /\ sync' \in SyncRecord /\ tx' \in [Videos -> 0 .. MaxViews]
           /\ SyncOK' /\ Counted' /\ Limit' = Limit + MaxViews
           /\ \A v \in Videos : tx'[v] = 0 /\ BeingMoved(v) = 0 /\ BeingMoved(v)' = 0
<1>0. MaxViews \in Nat /\ cache /\ syncs > 0 /\ syncs \in Nat
  BY ViewAssumption DEF ViewInv, ViewShape, SyncOK
<1>1. /\ sync' = [pc |-> "idle", batch |-> NoBatch, todo |-> {}, cur |-> NoVid]
      /\ tx' = NoBatch /\ NoBatch \in [Videos -> 0 .. MaxViews]
      /\ \A v \in Videos : tx'[v] = 0
  BY <1>0 DEF EndSync, NoBatch
<1>2. sync' \in SyncRecord /\ sync'.pc = "idle" /\ sync'.todo = {}
  BY <1>1 DEF SyncRecord
<1>3. SyncOK'
  BY <1>0, <1>1, <1>2 DEF ViewInv, SyncOK
<1>4. Limit' = Limit + MaxViews
  <2>1. \A n \in Nat : n > 0 => MaxViews * n = MaxViews * (n - 1) + MaxViews
    BY <1>0
  <2>2. QED
    BY <1>0, <1>2, <2>1 DEF Limit, Synced
<1>5. \A v \in Videos : BeingMoved(v) = 0 /\ BeingMoved(v)' = 0
  BY <1>2 DEF BeingMoved
<1>6. Counted'
  BY DEF ViewInv, Counted, RecordingAt
<1>7. QED
  BY <1>1, <1>2, <1>3, <1>4, <1>5, <1>6

LEMMA SyncCommitKeeps ==
    ASSUME ViewInv, SyncCommit
    PROVE  ViewInv'
<1>0. /\ pg' = [v \in Videos |-> pg[v] + tx[v]] /\ cache
      /\ UNCHANGED <<cache, pend, dedup, recorder, recorded, syncs, reader, edit, leaked>>
      /\ MaxViews \in Nat /\ Limit \in Nat
      /\ reader.views \in Nat /\ edit.copy \in Nat
  BY ShapeFields, LimitType DEF SyncCommit, ViewInv, SyncOK
<1>1. /\ sync' \in SyncRecord /\ tx' \in [Videos -> 0 .. MaxViews]
      /\ SyncOK' /\ Counted' /\ Limit' = Limit + MaxViews
      /\ \A v \in Videos : tx'[v] = 0 /\ BeingMoved(v) = 0 /\ BeingMoved(v)' = 0
  BY <1>0, EndSyncKeeps DEF SyncCommit
<1>2. \A v \in Videos : /\ pg[v] \in Nat /\ tx[v] \in 0 .. MaxViews /\ pg'[v] = pg[v] + tx[v]
                        /\ pg[v] <= Limit /\ pend[v] \in Nat /\ recorded[v] \in Nat
  BY <1>0 DEF ViewInv, ViewShape, Bounded
<1>3. ViewShape'
  <2>1. pg' \in [Videos -> Nat]
    BY <1>0, <1>2
  <2>2. QED
    BY <1>0, <1>1, <2>1 DEF ViewInv, ViewShape
<1>4. Bounded'
  <2>1. \A v \in Videos : pg'[v] <= Limit'
    BY <1>0, <1>1, <1>2
  <2>2. QED
    BY <1>0, <1>1, <2>1 DEF ViewInv, Bounded
<1>5. ViewsConserved'
  BY <1>0, <1>1, <1>2 DEF ViewInv, ViewsConserved
<1>6. Shown'
  BY <1>0, <1>2 DEF ViewInv, Shown
<1>7. QED
  BY <1>1, <1>3, <1>4, <1>5, <1>6 DEF ViewInv

LEMMA SyncRollbackKeeps ==
    ASSUME ViewInv, SyncRollback
    PROVE  ViewInv'
<1>0. /\ UNCHANGED <<cache, pg, pend, dedup, recorder, recorded, syncs, reader, edit>>
      /\ ~leaked' => ~leaked /\ \A v \in Videos : tx[v] = 0
      /\ leaked' \in BOOLEAN /\ cache
      /\ MaxViews \in Nat /\ Limit \in Nat
      /\ reader.views \in Nat /\ edit.copy \in Nat
  BY ShapeFields, LimitType DEF SyncRollback, ViewInv, SyncOK, ViewShape
<1>1. /\ sync' \in SyncRecord /\ tx' \in [Videos -> 0 .. MaxViews]
      /\ SyncOK' /\ Counted' /\ Limit' = Limit + MaxViews
      /\ \A v \in Videos : tx'[v] = 0 /\ BeingMoved(v) = 0 /\ BeingMoved(v)' = 0
  BY <1>0, EndSyncKeeps DEF SyncRollback
<1>2. ViewShape'
  BY <1>0, <1>1 DEF ViewInv, ViewShape
<1>3. Bounded'
  <2>1. \A v \in Videos : pg[v] \in Nat /\ pg[v] <= Limit
    BY DEF ViewInv, ViewShape, Bounded
  <2>2. QED
    BY <1>0, <1>1, <2>1 DEF ViewInv, Bounded
<1>4. ViewsConserved'
  BY <1>0, <1>1 DEF ViewInv, ViewsConserved
<1>5. Shown'
  BY <1>0 DEF ViewInv, Shown
<1>6. QED
  BY <1>1, <1>2, <1>3, <1>4, <1>5 DEF ViewInv

LEMMA InitViewInv == ViewInit => ViewInv
<1> SUFFICES ASSUME ViewInit PROVE ViewInv
  OBVIOUS
<1>0. /\ MaxViews \in Nat /\ MaxSyncs \in Nat /\ NoBatch \in [Videos -> 0 .. MaxViews]
      /\ NoBatch \in [Videos -> Nat] /\ \A v \in Videos : NoBatch[v] = 0
  BY ViewAssumption DEF NoBatch
<1>1. ViewShape
  <2>1. sync \in SyncRecord /\ reader \in ReaderRecord /\ edit \in EditRecord
    BY <1>0 DEF ViewInit, SyncRecord, ReaderRecord, EditRecord
  <2>2. /\ pg \in [Videos -> Nat] /\ pend \in [Videos -> Nat] /\ recorded \in [Videos -> Nat]
        /\ tx \in [Videos -> 0 .. MaxViews] /\ syncs \in 0 .. MaxSyncs
    BY <1>0 DEF ViewInit
  <2>3. /\ cache \in BOOLEAN /\ leaked \in BOOLEAN /\ dedup \subseteq Videos \X Viewers
        /\ recorder \in [Recorders -> Videos \cup {NoVid}]
    BY DEF ViewInit
  <2>4. QED
    BY <2>1, <2>2, <2>3 DEF ViewShape
<1>2. /\ sync.pc = "idle" /\ sync.todo = {} /\ reader.got = "none" /\ reader.views = 0
      /\ edit.v = NoVid /\ edit.copy = 0 /\ syncs = 0
      /\ \A v \in Videos : pg[v] = 0 /\ pend[v] = 0 /\ recorded[v] = 0 /\ tx[v] = 0
      /\ \A q \in Recorders : recorder[q] = NoVid
  BY <1>0 DEF ViewInit
<1>3. SyncOK /\ Shown
  BY <1>2 DEF SyncOK, Shown
<1>4. Counted
  <2>1. \A v \in Videos : RecordingAt(v) = {}
    BY <1>2, ViewAssumption DEF RecordingAt
  <2>2. QED
    BY <1>0, <1>2, <2>1, FS_EmptySet DEF Counted
<1>5. Bounded
  <2>1. Limit \in Nat
    BY <1>1, <1>3, LimitType
  <2>2. QED
    BY <1>0, <1>2, <2>1 DEF Bounded
<1>6. ViewsConserved
  BY <1>2 DEF ViewsConserved, BeingMoved
<1>7. QED
  BY <1>1, <1>3, <1>4, <1>5, <1>6 DEF ViewInv

LEMMA NextViewInv == ViewInv /\ [ViewNext]_viewVars => ViewInv'
<1> SUFFICES ASSUME ViewInv, [ViewNext]_viewVars PROVE ViewInv'
  OBVIOUS
<1>1. CASE UNCHANGED viewVars
  <2>1. /\ UNCHANGED <<cache, pg, pend, recorder, recorded, sync, tx, syncs, edit, leaked>>
        /\ UNCHANGED <<reader, dedup>>
    BY <1>1 DEF viewVars
  <2>2. QED
    BY <2>1, ReaderKeeps DEF ViewInv, ViewShape, Shown, Bounded
<1>2. CASE ViewNext
  BY <1>2, RecordViewIncrKeeps, RecordViewKeeps, FallbackKeeps, SyncUpdateKeeps, GetByIDKeeps,
     EditReadKeeps, ExpireDedupKeeps, GetPendingViewsKeeps, SyncDecrKeeps, SyncCommitKeeps,
     SyncRollbackKeeps, ShowViewsKeeps, EditWriteKeeps
     DEF ViewNext
<1>3. QED
  BY <1>1, <1>2

(* The bounds on sums follow from the limit of the committed batches.      *)
LEMMA ViewInvTypes == ViewInv => ViewTypeOK
<1> SUFFICES ASSUME ViewInv PROVE ViewTypeOK
  OBVIOUS
<1>0. /\ MaxViews \in Nat /\ MaxSyncs \in Nat /\ Synced \in 0 .. MaxSyncs /\ Limit \in Nat
      /\ MaxViews * Synced \in Nat
  BY ViewAssumption, LimitType DEF ViewInv
<1>1. MaxTotal \in Nat /\ Limit <= MaxTotal /\ MaxViews <= MaxTotal
  <2>1. \A m, k \in Nat : m * k \in Nat
    OBVIOUS
  <2>2. \A m, n, k \in Nat : n <= k => m * n <= m * k
    OBVIOUS
  <2>3. Synced \in Nat /\ MaxSyncs + 1 \in Nat /\ Synced <= MaxSyncs + 1 /\ 1 <= MaxSyncs + 1
    BY <1>0
  <2>4. /\ MaxViews * Synced <= MaxViews * (MaxSyncs + 1)
        /\ MaxViews * 1 <= MaxViews * (MaxSyncs + 1)
        /\ MaxViews * (MaxSyncs + 1) \in Nat
    BY <1>0, <2>1, <2>2, <2>3
  <2>5. QED
    BY <1>0, <2>4 DEF MaxTotal, Limit
<1>2. \A v \in Videos : /\ pg[v] \in 0 .. MaxTotal /\ pend[v] \in 0 .. MaxViews
                        /\ recorded[v] \in 0 .. MaxViews
  BY <1>0, <1>1, RecordingFinite DEF ViewInv, ViewShape, Bounded, Counted
<1>3. /\ pg \in [Videos -> 0 .. MaxTotal] /\ pend \in [Videos -> 0 .. MaxViews]
      /\ recorded \in [Videos -> 0 .. MaxViews]
  BY <1>2 DEF ViewInv, ViewShape
<1>4. reader \in [v : Videos \cup {NoVid}, got : {"none", "row", "total"}, views : 0 .. 2 * MaxTotal]
  <2>1. reader.views \in 0 .. 2 * MaxTotal
    BY <1>0, <1>1, ShapeFields DEF ViewInv, Bounded
  <2>2. QED
    BY <2>1 DEF ViewInv, ViewShape, ReaderRecord
<1>5. edit \in [v : Videos \cup {NoVid}, copy : 0 .. MaxTotal]
  <2>1. edit.copy \in 0 .. MaxTotal
    BY <1>0, <1>1, ShapeFields DEF ViewInv, Bounded
  <2>2. QED
    BY <2>1 DEF ViewInv, ViewShape, EditRecord
<1>6. QED
  BY <1>3, <1>4, <1>5 DEF ViewInv, ViewShape, SyncRecord, ViewTypeOK

(* Views move from Redis to Postgres without being lost or invented,       *)
(* whatever is recorded, read, edited or rolled back meanwhile, unless one *)
(* of the three leaks has happened (view.go SyncBatchViewsToPostgres).     *)
THEOREM ViewsConservedSafe == ViewSpec => []ViewsConserved
<1>1. ViewInv => ViewsConserved
  BY DEF ViewInv
<1>2. QED
  BY <1>1, InitViewInv, NextViewInv, PTL DEF ViewSpec

(* GetByID, which reads Postgres and Redis in two steps, never shows more  *)
(* views than were recorded, however a synchronisation falls in between,   *)
(* unless a leak came before: a failed DECRBY or a rollback after it, or   *)
(* an edit that wrote old views back.                                      *)
THEOREM NeverTooManySafe == ViewSpec => []NeverShowsTooMany
<1>1. ViewInv => NeverShowsTooMany
  BY DEF ViewInv, Shown, NeverShowsTooMany
<1>2. QED
  BY <1>1, InitViewInv, NextViewInv, PTL DEF ViewSpec

-----------------------------------------------------------------------------
(* The toggles.                                                            *)

ToggleSpec == ToggleInit /\ [][ToggleNext]_toggleVars

Rows == Requests \cup {NoRow, Old}
ReqRecord == [pc : {"idle", "select", "write", "redis", "count", "done", "error"},
              kind : Kinds, user : Users, found : Rows, overtaken : BOOLEAN, on : BOOLEAN,
              count : -1 .. (Cardinality(Users) + Cardinality(Requests))]

ToggleShape ==
    /\ tbl \in [Kinds -> [Users -> Rows]]
    /\ post \in BOOLEAN /\ hasRedis \in BOOLEAN
    /\ redis \in Int
    /\ req \in [Requests -> ReqRecord]
    /\ skewed \in BOOLEAN

(* The finished requests, and the like toggles that owe their command.     *)
Finished == {r \in Requests : req[r].pc = "done"}
OwesIncr == {r \in Requests : req[r].pc = "redis" /\ req[r].on}
OwesDecr == {r \in Requests : req[r].pc = "redis" /\ ~req[r].on}
Likers(k) == {u \in Users : tbl[k][u] # NoRow}

(* CounterFollowsTable, with the debts as two sets.                        *)
CounterInStep ==
    hasRedis /\ ~skewed =>
        redis + Cardinality(OwesIncr) - Cardinality(OwesDecr) = Cardinality(Likers("like"))

(* Every request moves the counter once at most.                           *)
CounterBounded ==
    /\ -Cardinality(Finished) <= redis
    /\ redis <= Cardinality(Users) + Cardinality(Finished)

(* What r has read is still so, unless r was overtaken; "no row" may also  *)
(* be a failed query, which skews a like.                                  *)
ReadTrue(r) ==
    /\ req[r].pc = "write" /\ ~req[r].overtaken
    /\ req[r].found # NoRow \/ (req[r].kind = "like" /\ ~skewed)
    => req[r].found = Row(r)

PostGone == ~post => \A u \in Users : tbl["postLike"][u] = NoRow

ToggleInv ==
    /\ ToggleShape /\ CounterBounded /\ CounterInStep /\ PostGone
    /\ \A r \in Requests : ReadTrue(r)

LEMMA ToggleConstants ==
    /\ Cardinality(Users) \in Nat /\ Cardinality(Requests) \in Nat
    /\ Owner \in Users /\ NoRow \notin Requests /\ Old \notin Requests /\ NoRow # Old
    /\ \A r \in Requests : r # NoRow
    /\ Kinds = {"like", "commentLike", "postLike", "save", "follow"}
<1>1. Cardinality(Users) \in Nat /\ Cardinality(Requests) \in Nat
  BY ToggleAssumption, FS_CardinalityType
<1>2. QED
  BY <1>1, ToggleAssumption DEF Kinds

LEMMA ToggleSetsFinite ==
    /\ IsFiniteSet(Finished) /\ Cardinality(Finished) \in Nat
    /\ Cardinality(Finished) <= Cardinality(Requests)
    /\ IsFiniteSet(OwesIncr) /\ Cardinality(OwesIncr) \in Nat
    /\ IsFiniteSet(OwesDecr) /\ Cardinality(OwesDecr) \in Nat
    /\ \A k : /\ IsFiniteSet(Likers(k)) /\ Cardinality(Likers(k)) \in Nat
              /\ Cardinality(Likers(k)) <= Cardinality(Users)
<1>1. /\ Finished \in SUBSET Requests
      /\ OwesIncr \in SUBSET Requests /\ OwesDecr \in SUBSET Requests
      /\ \A k : Likers(k) \in SUBSET Users
  BY DEF Finished, OwesIncr, OwesDecr, Likers
<1>2. /\ IsFiniteSet(Finished) /\ Cardinality(Finished) <= Cardinality(Requests)
      /\ IsFiniteSet(OwesIncr) /\ IsFiniteSet(OwesDecr)
      /\ \A k : IsFiniteSet(Likers(k)) /\ Cardinality(Likers(k)) <= Cardinality(Users)
  BY <1>1, FS_Subset, ToggleAssumption
<1>3. QED
  BY <1>2, FS_CardinalityType

LEMMA CountsAre == \A k : GetLikeCount(k) = Cardinality(Likers(k))
BY DEF GetLikeCount, Likers

LEMMA ReqFields ==
    ASSUME ToggleShape, NEW r \in Requests
    PROVE  /\ req[r] \in ReqRecord
           /\ req[r].kind \in Kinds /\ req[r].user \in Users /\ req[r].found \in Rows
           /\ req[r].overtaken \in BOOLEAN /\ req[r].on \in BOOLEAN
           /\ req[r].pc \in {"idle", "select", "write", "redis", "count", "done", "error"}
           /\ Row(r) \in Rows
<1>1. req[r] \in ReqRecord
  BY DEF ToggleShape
<1>2. /\ req[r].kind \in Kinds /\ req[r].user \in Users /\ req[r].found \in Rows
      /\ req[r].overtaken \in BOOLEAN /\ req[r].on \in BOOLEAN
      /\ req[r].pc \in {"idle", "select", "write", "redis", "count", "done", "error"}
  BY <1>1 DEF ReqRecord
<1>3. QED
  BY <1>1, <1>2 DEF ToggleShape, Row

(* A step in which only r's own request moves, and not at the counter.     *)
LEMMA OwnStep ==
    ASSUME ToggleInv, NEW r \in Requests, UNCHANGED <<tbl, post, hasRedis, redis>>,
           req' \in [Requests -> ReqRecord], skewed' \in BOOLEAN, skewed => skewed',
           \A t \in Requests : t # r => req'[t] = req[t],
           req[r].pc \notin {"redis", "done"}, req'[r].pc # "redis",
           ReadTrue(r)'
    PROVE  ToggleInv'
<1>1. ToggleShape' /\ PostGone'
  BY DEF ToggleInv, ToggleShape, PostGone
<1>2. CounterBounded'
  <2>1. Finished' \in {Finished, Finished \cup {r}} /\ r \notin Finished
    <3>1. CASE req'[r].pc = "done"
      <4>1. Finished' = Finished \cup {r}
        BY <3>1 DEF Finished
      <4>2. QED
        BY <4>1 DEF Finished
    <3>2. CASE req'[r].pc # "done"
      <4>1. Finished' = Finished
        BY <3>2 DEF Finished
      <4>2. QED
        BY <4>1 DEF Finished
    <3>3. QED
      BY <3>1, <3>2
  <2>2. Cardinality(Finished') \in {Cardinality(Finished), Cardinality(Finished) + 1}
    BY <2>1, ToggleSetsFinite, FS_AddElement
  <2>3. QED
    BY <2>2, ToggleSetsFinite, ToggleConstants DEF ToggleInv, ToggleShape, CounterBounded
<1>3. CounterInStep'
  <2>1. OwesIncr' = OwesIncr /\ OwesDecr' = OwesDecr
    BY DEF OwesIncr, OwesDecr
  <2>2. Likers("like")' = Likers("like")
    BY DEF Likers
  <2>3. QED
    BY <2>1, <2>2 DEF ToggleInv, CounterInStep
<1>4. \A t \in Requests : ReadTrue(t)'
  <2>1. ASSUME NEW t \in Requests, t # r PROVE ReadTrue(t)'
    BY <2>1 DEF ToggleInv, ReadTrue, Row
  <2>2. QED
    BY <2>1
<1>5. QED
  BY <1>1, <1>2, <1>3, <1>4 DEF ToggleInv

LEMMA GotoType ==
    ASSUME ToggleShape, NEW r \in Requests, NEW at \in {"error", "done", "select"}, Goto(r, at)
    PROVE  /\ req' \in [Requests -> ReqRecord] /\ req'[r].pc = at
           /\ \A t \in Requests : t # r => req'[t] = req[t]
<1>1. req' = [req EXCEPT ![r] = [req[r] EXCEPT !.pc = at]]
  BY DEF Goto
<1>2. [req[r] EXCEPT !.pc = at] \in ReqRecord
  BY ReqFields DEF ReqRecord
<1>3. QED
  BY <1>1, <1>2, ReqFields DEF ToggleShape, ReqRecord

(* A request that gives up with an error changes nothing else.             *)
LEMMA FailKeeps ==
    ASSUME ToggleInv, NEW r \in Requests, Goto(r, "error"), req[r].pc \notin {"redis", "done"},
           UNCHANGED <<tbl, post, hasRedis, redis>>, skewed' \in BOOLEAN, skewed => skewed'
    PROVE  ToggleInv'
<1>1. /\ req' \in [Requests -> ReqRecord] /\ req'[r].pc = "error"
      /\ \A t \in Requests : t # r => req'[t] = req[t]
  BY GotoType DEF ToggleInv
<1>2. ReadTrue(r)'
  BY <1>1 DEF ReadTrue
<1>3. QED
  BY <1>1, <1>2, OwnStep

LEMMA BeginKeeps ==
    ASSUME ToggleInv, NEW r \in Requests, NEW k \in Kinds, NEW u \in Users, Begin(r, k, u)
    PROVE  ToggleInv'
<1> DEFINE new == [req[r] EXCEPT !.pc = "select", !.kind = k, !.user = u]
<1>1. req' = [req EXCEPT ![r] = new] /\ req[r].pc = "idle"
  BY DEF Begin
<1>2. new \in ReqRecord /\ new.pc = "select"
  BY ReqFields DEF ReqRecord, ToggleInv
<1>3. /\ req' \in [Requests -> ReqRecord] /\ req'[r] = new
      /\ \A t \in Requests : t # r => req'[t] = req[t]
  BY <1>1, <1>2 DEF ToggleInv, ToggleShape
<1>4. ReadTrue(r)'
  BY <1>2, <1>3 DEF ReadTrue
<1>5. QED
  BY <1>1, <1>2, <1>3, <1>4, OwnStep DEF Begin, ToggleInv, ToggleShape

(* The SELECT: what is found is the row, or a failed query.                *)
LEMMA SelectKeeps ==
    ASSUME ToggleInv, NEW r \in Requests, NEW k \in Kinds, NEW onError,
           SelectRow(r, k, onError)
    PROVE  ToggleInv'
<1>0. /\ req[r].pc = "select" /\ req[r].kind = k /\ req[r] \in ReqRecord /\ Row(r) \in Rows
      /\ NoRow \in Rows /\ skewed \in BOOLEAN
      /\ UNCHANGED <<tbl, post, hasRedis, redis>>
  BY ReqFields DEF SelectRow, ToggleInv, ToggleShape, Rows
<1>1. ASSUME NEW row \in Rows, req' = [req EXCEPT ![r].pc = "write", ![r].found = row],
             skewed' \in BOOLEAN, skewed => skewed',
             row = Row(r) \/ (row = NoRow /\ (k = "like" => skewed'))
      PROVE  ToggleInv'
  <2> DEFINE new == [req[r] EXCEPT !.pc = "write", !.found = row]
  <2>1. req' = [req EXCEPT ![r] = new]
    BY <1>1
  <2>2. /\ new \in ReqRecord /\ new.pc = "write" /\ new.found = row
        /\ new.kind = k /\ new.user = req[r].user
    BY <1>0, <1>1 DEF ReqRecord
  <2>3. /\ req' \in [Requests -> ReqRecord] /\ req'[r] = new
        /\ \A t \in Requests : t # r => req'[t] = req[t]
    BY <2>1, <2>2 DEF ToggleInv, ToggleShape
  <2>4. ReadTrue(r)'
    BY <1>0, <1>1, <2>2, <2>3 DEF ReadTrue, Row
  <2>5. QED
    BY <1>0, <1>1, <2>2, <2>3, <2>4, OwnStep
<1>2. CASE req' = [req EXCEPT ![r].pc = "write", ![r].found = Row(r)] /\ UNCHANGED skewed
  BY <1>0, <1>1, <1>2
<1>3. CASE /\ req' = [req EXCEPT ![r].pc = "write", ![r].found = NoRow]
           /\ skewed' = (skewed \/ k = "like")
  <2>1. skewed' \in BOOLEAN /\ (skewed => skewed') /\ (k = "like" => skewed')
    BY <1>0, <1>3
  <2>2. QED
    BY <1>0, <1>1, <1>3, <2>1
<1>4. CASE Goto(r, "error") /\ skewed' = (skewed \/ k = "like")
  <2>1. skewed' \in BOOLEAN /\ (skewed => skewed')
    BY <1>0, <1>4
  <2>2. QED
    BY <1>0, <1>4, <2>1, FailKeeps
<1>5. QED
  BY <1>2, <1>3, <1>4 DEF SelectRow

LEMMA CountKeeps ==
    ASSUME ToggleInv, NEW r \in Requests, NEW k \in Kinds, Count(r, k)
    PROVE  ToggleInv'
<1>0. /\ req[r].pc = "count" /\ req[r] \in ReqRecord
      /\ UNCHANGED <<tbl, post, hasRedis, redis, skewed>> /\ skewed \in BOOLEAN
  BY ReqFields DEF Count, ToggleInv, ToggleShape
<1>1. CASE req' = [req EXCEPT ![r].pc = "done", ![r].count = GetLikeCount(k)]
  <2> DEFINE new == [req[r] EXCEPT !.pc = "done", !.count = GetLikeCount(k)]
  <2>1. GetLikeCount(k) \in -1 .. (Cardinality(Users) + Cardinality(Requests))
    BY CountsAre, ToggleSetsFinite, ToggleConstants
  <2>2. new \in ReqRecord /\ new.pc = "done"
    BY <1>0, <2>1 DEF ReqRecord
  <2>3. req' = [req EXCEPT ![r] = new]
    BY <1>1
  <2>4. /\ req' \in [Requests -> ReqRecord] /\ req'[r] = new
        /\ \A t \in Requests : t # r => req'[t] = req[t]
    BY <2>2, <2>3 DEF ToggleInv, ToggleShape
  <2>5. ReadTrue(r)'
    BY <2>2, <2>4 DEF ReadTrue
  <2>6. QED
    BY <1>0, <2>2, <2>4, <2>5, OwnStep
<1>2. CASE Goto(r, "error")
  BY <1>0, <1>2, FailKeeps
<1>3. QED
  BY <1>1, <1>2 DEF Count

(* What a write does to the tables and to the requests.                    *)
LEMMA WroteEffect ==
    ASSUME ToggleShape, NEW r \in Requests, NEW new \in Rows,
           NEW at \in {"redis", "count", "done"}, NEW on \in BOOLEAN, Wrote(r, new, at, on)
    PROVE  /\ tbl' \in [Kinds -> [Users -> Rows]] /\ req' \in [Requests -> ReqRecord]
           /\ \A j \in Kinds, w \in Users :
                 tbl'[j][w] = IF j = req[r].kind /\ w = req[r].user THEN new ELSE tbl[j][w]
           /\ req'[r].pc = at /\ req'[r].on = on
           /\ \A t \in Requests : t # r =>
                 /\ req'[t].pc = req[t].pc /\ req'[t].on = req[t].on
                 /\ req'[t].kind = req[t].kind /\ req'[t].user = req[t].user
                 /\ req'[t].found = req[t].found
                 /\ req[t].overtaken => req'[t].overtaken
                 /\ /\ req[t].kind = req[r].kind /\ req[t].user = req[r].user
                    /\ req[t].pc = "write" /\ new # Row(r)
                    => req'[t].overtaken
<1> DEFINE k == req[r].kind
           u == req[r].user
<1>0. k \in Kinds /\ u \in Users
  BY ReqFields
<1>1. /\ tbl' = [tbl EXCEPT ![k][u] = new]
      /\ req' = [t \in Requests |->
           IF t = r THEN [req[r] EXCEPT !.pc = at, !.on = on]
           ELSE IF req[t].kind = k /\ req[t].user = u /\ req[t].pc = "write" /\ new # Row(r)
                THEN [req[t] EXCEPT !.overtaken = TRUE] ELSE req[t]]
  BY DEF Wrote
<1>2. /\ tbl' \in [Kinds -> [Users -> Rows]]
      /\ \A j \in Kinds, w \in Users :
            tbl'[j][w] = IF j = k /\ w = u THEN new ELSE tbl[j][w]
  <2>1. tbl \in [Kinds -> [Users -> Rows]]
    BY DEF ToggleShape
  <2>2. QED
    BY <1>0, <1>1, <2>1
<1>3. /\ req'[r] \in ReqRecord /\ req'[r].pc = at /\ req'[r].on = on
  <2>1. req'[r] = [req[r] EXCEPT !.pc = at, !.on = on] /\ req[r] \in ReqRecord
    BY <1>1, ReqFields
  <2>2. QED
    BY <2>1 DEF ReqRecord
<1>4. ASSUME NEW t \in Requests, t # r
      PROVE  /\ req'[t] \in ReqRecord
             /\ req'[t].pc = req[t].pc /\ req'[t].on = req[t].on
             /\ req'[t].kind = req[t].kind /\ req'[t].user = req[t].user
             /\ req'[t].found = req[t].found
             /\ req[t].overtaken => req'[t].overtaken
             /\ req[t].kind = k /\ req[t].user = u /\ req[t].pc = "write" /\ new # Row(r)
                => req'[t].overtaken
  <2>1. req[t] \in ReqRecord
    BY ReqFields
  <2>2. CASE req[t].kind = k /\ req[t].user = u /\ req[t].pc = "write" /\ new # Row(r)
    <3>1. req'[t] = [req[t] EXCEPT !.overtaken = TRUE]
      BY <1>1, <1>4, <2>2
    <3>2. QED
      BY <2>1, <3>1 DEF ReqRecord
  <2>3. CASE ~ (req[t].kind = k /\ req[t].user = u /\ req[t].pc = "write" /\ new # Row(r))
    <3>1. req'[t] = req[t]
      BY <1>1, <1>4, <2>3
    <3>2. QED
      BY <2>1, <2>3, <3>1
  <2>4. QED
    BY <2>2, <2>3
<1>5. req' \in [Requests -> ReqRecord]
  BY <1>1, <1>3, <1>4
<1>6. QED
  BY <1>2, <1>3, <1>4, <1>5

(* The rows of a kind after one of them was written.                       *)
LEMMA LikersAfter ==
    ASSUME ToggleShape, NEW k \in Kinds, NEW u \in Users, NEW new,
           \A w \in Users : tbl'[k][w] = IF w = u THEN new ELSE tbl[k][w]
    PROVE  /\ new # NoRow /\ tbl[k][u] = NoRow
                => Cardinality(Likers(k)') = Cardinality(Likers(k)) + 1
           /\ new = NoRow /\ tbl[k][u] # NoRow
                => Cardinality(Likers(k)') = Cardinality(Likers(k)) - 1
<1>1. ASSUME new # NoRow, tbl[k][u] = NoRow
      PROVE  Cardinality(Likers(k)') = Cardinality(Likers(k)) + 1
  <2>1. Likers(k)' = Likers(k) \cup {u} /\ u \notin Likers(k)
    BY <1>1 DEF Likers
  <2>2. QED
    BY <2>1, ToggleSetsFinite, FS_AddElement
<1>2. ASSUME new = NoRow, tbl[k][u] # NoRow
      PROVE  Cardinality(Likers(k)') = Cardinality(Likers(k)) - 1
  <2>1. Likers(k)' = Likers(k) \ {u} /\ u \in Likers(k)
    BY <1>2 DEF Likers
  <2>2. QED
    BY <2>1, ToggleSetsFinite, FS_RemoveElement
<1>3. QED
  BY <1>1, <1>2

(* A write keeps what the others have read true, or overtakes them.        *)
LEMMA WroteReads ==
    ASSUME ToggleInv, NEW r \in Requests, NEW new \in Rows,
           NEW at \in {"redis", "count", "done"}, NEW on \in BOOLEAN, Wrote(r, new, at, on),
           skewed => skewed', NEW t \in Requests
    PROVE  ReadTrue(t)'
<1>0. ToggleShape /\ ReadTrue(t)
  BY DEF ToggleInv
<1>1. CASE t = r
  <2>1. req'[t].pc # "write"
    BY <1>0, <1>1, WroteEffect
  <2>2. QED
    BY <2>1 DEF ReadTrue
<1>2. CASE t # r
  <2>1. /\ req'[t].pc = req[t].pc /\ req'[t].kind = req[t].kind /\ req'[t].user = req[t].user
        /\ req'[t].found = req[t].found
        /\ req[t].overtaken => req'[t].overtaken
        /\ /\ req[t].kind = req[r].kind /\ req[t].user = req[r].user
           /\ req[t].pc = "write" /\ new # Row(r)
           => req'[t].overtaken
        /\ tbl'[req[t].kind][req[t].user] =
             IF req[t].kind = req[r].kind /\ req[t].user = req[r].user
             THEN new ELSE tbl[req[t].kind][req[t].user]
    <3>1. req[t].kind \in Kinds /\ req[t].user \in Users
      BY <1>0, ReqFields
    <3>2. QED
      BY <1>0, <1>2, <3>1, WroteEffect
  <2>2. QED
    BY <1>0, <2>1 DEF ReadTrue, Row
<1>3. QED
  BY <1>1, <1>2

(* A write of another table than likes.                                    *)
LEMMA OtherWriteKeeps ==
    ASSUME ToggleInv, NEW r \in Requests, NEW new \in Rows,
           NEW at \in {"count", "done"}, NEW on \in BOOLEAN, Wrote(r, new, at, on),
           req[r].pc = "write", req[r].kind # "like",
           req[r].kind = "postLike" /\ ~post => new = NoRow,
           UNCHANGED <<post, hasRedis, redis, skewed>>
    PROVE  ToggleInv'
<1>s. ToggleShape /\ req[r].kind \in Kinds /\ req[r].user \in Users
  BY ReqFields DEF ToggleInv
<1>e. /\ tbl' \in [Kinds -> [Users -> Rows]] /\ req' \in [Requests -> ReqRecord]
      /\ \A j \in Kinds, w \in Users :
            tbl'[j][w] = IF j = req[r].kind /\ w = req[r].user THEN new ELSE tbl[j][w]
      /\ req'[r].pc = at
      /\ \A t \in Requests : t # r => req'[t].pc = req[t].pc /\ req'[t].on = req[t].on
  BY <1>s, WroteEffect
<1>1. ToggleShape'
  BY <1>e, <1>s DEF ToggleShape
<1>2. PostGone'
  BY <1>e, ToggleConstants DEF ToggleInv, PostGone
<1>3. CounterBounded'
  <2>1. CASE at = "done"
    <3>1. Finished' = Finished \cup {r} /\ r \notin Finished
      BY <1>e, <2>1 DEF Finished
    <3>2. Cardinality(Finished') = Cardinality(Finished) + 1
      BY <3>1, ToggleSetsFinite, FS_AddElement
    <3>3. QED
      BY <3>2, ToggleSetsFinite, ToggleConstants DEF ToggleInv, ToggleShape, CounterBounded
  <2>2. CASE at # "done"
    <3>1. Finished' = Finished
      BY <1>e, <2>2 DEF Finished
    <3>2. QED
      BY <3>1 DEF ToggleInv, CounterBounded
  <2>3. QED
    BY <2>1, <2>2
<1>4. CounterInStep'
  <2>1. OwesIncr' = OwesIncr /\ OwesDecr' = OwesDecr
    BY <1>e DEF OwesIncr, OwesDecr
  <2>2. Likers("like")' = Likers("like")
    BY <1>e, ToggleConstants DEF Likers
  <2>3. QED
    BY <2>1, <2>2 DEF ToggleInv, CounterInStep
<1>5. \A t \in Requests : ReadTrue(t)'
  BY WroteReads
<1>6. QED
  BY <1>1, <1>2, <1>3, <1>4, <1>5 DEF ToggleInv

(* One more toggle owes its command.                                       *)
LEMMA OwingAfter ==
    ASSUME NEW r \in Requests, NEW on \in BOOLEAN, req[r].pc # "redis",
           req'[r].pc = "redis", req'[r].on = on,
           \A t \in Requests : t # r => req'[t].pc = req[t].pc /\ req'[t].on = req[t].on
    PROVE  /\ on => /\ Cardinality(OwesIncr') = Cardinality(OwesIncr) + 1
                    /\ Cardinality(OwesDecr') = Cardinality(OwesDecr)
           /\ ~on => /\ Cardinality(OwesIncr') = Cardinality(OwesIncr)
                     /\ Cardinality(OwesDecr') = Cardinality(OwesDecr) + 1
<1>1. ASSUME on
      PROVE  /\ Cardinality(OwesIncr') = Cardinality(OwesIncr) + 1
             /\ Cardinality(OwesDecr') = Cardinality(OwesDecr)
  <2>1. OwesIncr' = OwesIncr \cup {r} /\ r \notin OwesIncr /\ OwesDecr' = OwesDecr
    BY <1>1 DEF OwesIncr, OwesDecr
  <2>2. QED
    BY <2>1, ToggleSetsFinite, FS_AddElement
<1>2. ASSUME ~on
      PROVE  /\ Cardinality(OwesIncr') = Cardinality(OwesIncr)
             /\ Cardinality(OwesDecr') = Cardinality(OwesDecr) + 1
  <2>1. OwesDecr' = OwesDecr \cup {r} /\ r \notin OwesDecr /\ OwesIncr' = OwesIncr
    BY <1>2 DEF OwesIncr, OwesDecr
  <2>2. QED
    BY <2>1, ToggleSetsFinite, FS_AddElement
<1>3. QED
  BY <1>1, <1>2

(* The likes table and the debt of its counter change together, when what  *)
(* the toggle had read was still so.                                       *)
LEMMA LikeWriteKeeps ==
    ASSUME ToggleInv, NEW r \in Requests, LikeWrite(r)
    PROVE  ToggleInv'
<1>s. /\ ToggleShape /\ req[r].kind = "like" /\ req[r].user \in Users /\ req[r].pc = "write"
      /\ Row(r) \in Rows /\ Row(r) = tbl["like"][req[r].user] /\ "like" \in Kinds /\ r \in Rows
      /\ NoRow \in Rows /\ r # NoRow /\ ReadTrue(r) /\ req[r].overtaken \in BOOLEAN
      /\ UNCHANGED <<post, hasRedis, redis>>
  BY ReqFields, ToggleConstants DEF ToggleInv, LikeWrite, Row, Rows
<1>1. PICK new \in Rows, on \in BOOLEAN :
        /\ Wrote(r, new, "redis", on)
        /\ skewed' \in BOOLEAN /\ (skewed => skewed')
        /\ ~skewed' => (on /\ Row(r) = NoRow /\ new # NoRow)
                         \/ (~on /\ Row(r) # NoRow /\ new = NoRow)
  <2>0. skewed \in BOOLEAN /\ req[r].found \in Rows
    BY <1>s, ReqFields DEF ToggleShape
  <2>1. CASE /\ req[r].found = NoRow /\ skewed' = (skewed \/ req[r].overtaken)
             /\ Wrote(r, IF Row(r) = NoRow THEN r ELSE Row(r), "redis", TRUE)
    <3>1. (IF Row(r) = NoRow THEN r ELSE Row(r)) \in Rows
      BY <1>s
    <3>2. skewed' \in BOOLEAN /\ (skewed => skewed') /\ (~skewed' => ~skewed /\ ~req[r].overtaken)
      BY <1>s, <2>0, <2>1
    <3>3. ~skewed' => Row(r) = NoRow
      BY <1>s, <2>1, <3>2 DEF ReadTrue
    <3>4. QED
      BY <1>s, <2>1, <3>1, <3>2, <3>3
  <2>2. CASE /\ req[r].found # NoRow /\ skewed' = (skewed \/ req[r].overtaken)
             /\ Wrote(r, AfterDelete(r), "redis", FALSE)
    <3>1. AfterDelete(r) \in Rows
      BY <1>s DEF AfterDelete
    <3>2. skewed' \in BOOLEAN /\ (skewed => skewed') /\ (~skewed' => ~skewed /\ ~req[r].overtaken)
      BY <1>s, <2>0, <2>2
    <3>3. ~skewed' => Row(r) # NoRow /\ AfterDelete(r) = NoRow
      BY <1>s, <2>2, <3>2 DEF ReadTrue, AfterDelete
    <3>4. QED
      BY <1>s, <2>2, <3>1, <3>2, <3>3
  <2>3. CASE Wrote(r, Row(r), "redis", req[r].found = NoRow) /\ skewed' = TRUE
    <3>1. (req[r].found = NoRow) \in BOOLEAN
      OBVIOUS
    <3>2. QED
      BY <1>s, <2>3, <3>1
  <2>4. QED
    BY <2>1, <2>2, <2>3 DEF LikeWrite
<1>e. /\ tbl' \in [Kinds -> [Users -> Rows]] /\ req' \in [Requests -> ReqRecord]
      /\ \A j \in Kinds, w \in Users :
            tbl'[j][w] = IF j = "like" /\ w = req[r].user THEN new ELSE tbl[j][w]
      /\ req'[r].pc = "redis" /\ req'[r].on = on
      /\ \A t \in Requests : t # r => req'[t].pc = req[t].pc /\ req'[t].on = req[t].on
  BY <1>1, <1>s, WroteEffect
<1>2. ToggleShape'
  BY <1>1, <1>e, <1>s DEF ToggleShape
<1>3. PostGone'
  BY <1>e, <1>s, ToggleConstants DEF ToggleInv, PostGone
<1>4. CounterBounded'
  <2>1. Finished' = Finished
    BY <1>e, <1>s DEF Finished
  <2>2. QED
    BY <1>s, <2>1 DEF ToggleInv, CounterBounded
<1>5. CounterInStep'
  <2> SUFFICES ASSUME hasRedis', ~skewed'
               PROVE  redis + Cardinality(OwesIncr') - Cardinality(OwesDecr') =
                        Cardinality(Likers("like")')
    BY <1>s DEF CounterInStep
  <2>0. redis + Cardinality(OwesIncr) - Cardinality(OwesDecr) = Cardinality(Likers("like"))
    BY <1>1, <1>s DEF ToggleInv, CounterInStep
  <2>1. \A w \in Users : tbl'["like"][w] = IF w = req[r].user THEN new ELSE tbl["like"][w]
    BY <1>e, <1>s
  <2>2. redis \in Int
    BY <1>s DEF ToggleShape
  <2>3. CASE on
    <3>1. /\ Cardinality(OwesIncr') = Cardinality(OwesIncr) + 1
          /\ Cardinality(OwesDecr') = Cardinality(OwesDecr)
      BY <1>e, <1>s, <2>3, OwingAfter
    <3>2. Cardinality(Likers("like")') = Cardinality(Likers("like")) + 1
      BY <1>1, <1>s, <2>1, <2>3, LikersAfter
    <3>3. QED
      BY <2>0, <2>2, <3>1, <3>2, ToggleSetsFinite
  <2>4. CASE ~on
    <3>1. /\ Cardinality(OwesIncr') = Cardinality(OwesIncr)
          /\ Cardinality(OwesDecr') = Cardinality(OwesDecr) + 1
      BY <1>e, <1>s, <2>4, OwingAfter
    <3>2. Cardinality(Likers("like")') = Cardinality(Likers("like")) - 1
      BY <1>1, <1>s, <2>1, <2>4, LikersAfter
    <3>3. QED
      BY <2>0, <2>2, <3>1, <3>2, ToggleSetsFinite
  <2>5. QED
    BY <2>3, <2>4
<1>6. \A t \in Requests : ReadTrue(t)'
  BY <1>1, WroteReads
<1>7. QED
  BY <1>2, <1>3, <1>4, <1>5, <1>6 DEF ToggleInv

(* The toggle pays, or is answered with a COUNT.                           *)
LEMMA LikeCounterKeeps ==
    ASSUME ToggleInv, NEW r \in Requests, LikeCounter(r)
    PROVE  ToggleInv'
<1>s. /\ ToggleShape /\ req[r] \in ReqRecord /\ req[r].pc = "redis" /\ req[r].on \in BOOLEAN
      /\ redis \in Int /\ skewed \in BOOLEAN /\ UNCHANGED <<tbl, post, hasRedis>>
  BY ReqFields DEF ToggleInv, ToggleShape, LikeCounter
<1>f. ASSUME \A t \in Requests : t # r => req'[t] = req[t], req'[r].pc = "done"
      PROVE  /\ Cardinality(Finished') = Cardinality(Finished) + 1
             /\ Cardinality(Finished) + 1 <= Cardinality(Requests)
             /\ Finished' = Finished \cup {r} /\ r \notin Finished
  <2>1. Finished' = Finished \cup {r} /\ r \notin Finished
    BY <1>f, <1>s DEF Finished
  <2>2. Cardinality(Finished \cup {r}) = Cardinality(Finished) + 1
    BY <2>1, ToggleSetsFinite, FS_AddElement
  <2>3. Finished \cup {r} \in SUBSET Requests
    BY DEF Finished
  <2>4. Cardinality(Finished \cup {r}) <= Cardinality(Requests)
    BY <2>3, FS_Subset, ToggleAssumption
  <2>5. QED
    BY <2>1, <2>2, <2>4
<1>q. ASSUME NEW n \in -1 .. (Cardinality(Users) + Cardinality(Requests)),
             req' = [req EXCEPT ![r].pc = "done", ![r].count = n]
      PROVE  /\ req' \in [Requests -> ReqRecord] /\ req'[r].pc = "done"
             /\ \A t \in Requests : t # r => req'[t] = req[t]
  <2> DEFINE new == [req[r] EXCEPT !.pc = "done", !.count = n]
  <2>1. req' = [req EXCEPT ![r] = new]
    BY <1>q
  <2>2. new \in ReqRecord /\ new.pc = "done"
    BY <1>q, <1>s DEF ReqRecord
  <2>3. QED
    BY <1>s, <2>1, <2>2 DEF ToggleShape
<1>k. ASSUME NEW n \in -1 .. (Cardinality(Users) + Cardinality(Requests)),
             req' = [req EXCEPT ![r].pc = "done", ![r].count = n],
             redis' \in Int, redis - 1 <= redis', redis' <= redis + 1,
             skewed' \in BOOLEAN, skewed => skewed', CounterInStep'
      PROVE  ToggleInv'
  <2>1. /\ req' \in [Requests -> ReqRecord] /\ req'[r].pc = "done"
        /\ \A t \in Requests : t # r => req'[t] = req[t]
    BY <1>k, <1>q
  <2>2. ToggleShape' /\ PostGone'
    BY <1>k, <1>s, <2>1 DEF ToggleInv, ToggleShape, PostGone
  <2>3. CounterBounded'
    BY <1>f, <1>k, <1>s, <2>1, ToggleSetsFinite, ToggleConstants DEF ToggleInv, CounterBounded
  <2>4. ASSUME NEW t \in Requests PROVE ReadTrue(t)'
    <3>1. CASE t = r
      BY <2>1, <3>1 DEF ReadTrue
    <3>2. CASE t # r
      BY <1>k, <1>s, <2>1, <3>2 DEF ToggleInv, ReadTrue, Row
    <3>3. QED
      BY <3>1, <3>2
  <2>5. QED
    BY <1>k, <2>2, <2>3, <2>4 DEF ToggleInv
<1>1. CASE /\ hasRedis /\ redis' = (IF req[r].on THEN redis + 1 ELSE redis - 1) /\ skewed' = skewed
           /\ req' = [req EXCEPT ![r].pc = "done", ![r].count = ClampAtZero(redis')]
  <2>1. ClampAtZero(redis') \in -1 .. (Cardinality(Users) + Cardinality(Requests))
    <3>1. Cardinality(Finished) + 1 <= Cardinality(Requests)
      <4>1. r \notin Finished /\ Finished \cup {r} \in SUBSET Requests
        BY <1>s DEF Finished
      <4>2. Cardinality(Finished \cup {r}) = Cardinality(Finished) + 1
        BY <4>1, ToggleSetsFinite, FS_AddElement
      <4>3. QED
        BY <4>1, <4>2, FS_Subset, ToggleAssumption
    <3>2. redis' \in Int /\ redis' <= redis + 1
      BY <1>1, <1>s
    <3>3. QED
      BY <1>s, <3>1, <3>2, ToggleSetsFinite, ToggleConstants
         DEF ClampAtZero, ToggleInv, CounterBounded
  <2>2. /\ req' \in [Requests -> ReqRecord] /\ req'[r].pc = "done"
        /\ \A t \in Requests : t # r => req'[t] = req[t]
    BY <1>1, <1>q, <2>1
  <2>3. CounterInStep'
    <3> SUFFICES ASSUME ~skewed
                 PROVE  redis' + Cardinality(OwesIncr') - Cardinality(OwesDecr') =
                          Cardinality(Likers("like"))
      BY <1>1, <1>s DEF CounterInStep, Likers
    <3>0. redis + Cardinality(OwesIncr) - Cardinality(OwesDecr) = Cardinality(Likers("like"))
      BY <1>1 DEF ToggleInv, CounterInStep
    <3>1. CASE req[r].on
      <4>1. OwesIncr' = OwesIncr \ {r} /\ r \in OwesIncr /\ OwesDecr' = OwesDecr
        BY <1>s, <2>2, <3>1 DEF OwesIncr, OwesDecr
      <4>2. Cardinality(OwesIncr') = Cardinality(OwesIncr) - 1
        BY <4>1, ToggleSetsFinite, FS_RemoveElement
      <4>3. QED
        BY <1>1, <1>s, <3>0, <3>1, <4>1, <4>2, ToggleSetsFinite
    <3>2. CASE ~req[r].on
      <4>1. OwesDecr' = OwesDecr \ {r} /\ r \in OwesDecr /\ OwesIncr' = OwesIncr
        BY <1>s, <2>2, <3>2 DEF OwesIncr, OwesDecr
      <4>2. Cardinality(OwesDecr') = Cardinality(OwesDecr) - 1
        BY <4>1, ToggleSetsFinite, FS_RemoveElement
      <4>3. QED
        BY <1>1, <1>s, <3>0, <3>2, <4>1, <4>2, ToggleSetsFinite
    <3>3. QED
      BY <3>1, <3>2
  <2>4. redis' \in Int /\ redis - 1 <= redis' /\ redis' <= redis + 1
    BY <1>1, <1>s
  <2>5. QED
    BY <1>1, <1>k, <1>s, <2>1, <2>3, <2>4
<1>2. CASE /\ skewed' = TRUE /\ redis' = redis
           /\ req' = [req EXCEPT ![r].pc = "done", ![r].count = 0]
  <2>1. CounterInStep'
    BY <1>2 DEF CounterInStep
  <2>2. 0 \in -1 .. (Cardinality(Users) + Cardinality(Requests))
    BY ToggleConstants
  <2>3. redis' \in Int /\ redis - 1 <= redis' /\ redis' <= redis + 1
    BY <1>2, <1>s
  <2>4. skewed' \in BOOLEAN /\ (skewed => skewed')
    BY <1>2
  <2>5. QED
    BY <1>2, <1>k, <2>1, <2>2, <2>3, <2>4
<1>3. CASE /\ ~hasRedis /\ redis' = redis /\ skewed' = skewed
           /\ req' = [req EXCEPT ![r].pc = "done", ![r].count = GetLikeCount("like")]
  <2>1. GetLikeCount("like") \in -1 .. (Cardinality(Users) + Cardinality(Requests))
    BY CountsAre, ToggleSetsFinite, ToggleConstants
  <2>2. CounterInStep'
    BY <1>3, <1>s DEF CounterInStep
  <2>3. redis' \in Int /\ redis - 1 <= redis' /\ redis' <= redis + 1
    BY <1>3, <1>s
  <2>4. skewed' \in BOOLEAN /\ (skewed => skewed')
    BY <1>3, <1>s
  <2>5. QED
    BY <1>3, <1>k, <2>1, <2>2, <2>3, <2>4
<1>4. QED
  BY <1>1, <1>2, <1>3 DEF LikeCounter

LEMMA WriteCheckedKeeps ==
    ASSUME ToggleInv, NEW r \in Requests, NEW k \in {"commentLike", "postLike", "save"},
           NEW at \in {"count", "done"}, WriteChecked(r, k, at)
    PROVE  ToggleInv'
<1>0. /\ req[r].pc = "write" /\ req[r].kind = k /\ req[r].kind # "like" /\ Row(r) \in Rows
      /\ UNCHANGED <<post, hasRedis, redis, skewed>> /\ skewed \in BOOLEAN
      /\ NoRow \in Rows /\ r \in Rows /\ req[r].user \in Users
  BY ReqFields DEF WriteChecked, ToggleInv, ToggleShape, Rows
<1>1. CASE TargetExists(k) /\ Wrote(r, r, at, TRUE)
  BY <1>0, <1>1, OtherWriteKeeps DEF TargetExists
<1>2. CASE Goto(r, "error") /\ UNCHANGED tbl
  BY <1>0, <1>2, FailKeeps
<1>3. CASE Wrote(r, AfterDelete(r), at, FALSE)
  <2>1. AfterDelete(r) \in Rows
    BY <1>0 DEF AfterDelete
  <2>2. k = "postLike" /\ ~post => AfterDelete(r) = NoRow
    BY <1>0 DEF ToggleInv, PostGone, AfterDelete, Row
  <2>3. QED
    BY <1>0, <1>3, <2>1, <2>2, OtherWriteKeeps
<1>4. QED
  BY <1>1, <1>2, <1>3 DEF WriteChecked

LEMMA FollowKeeps ==
    ASSUME ToggleInv, NEW r \in Requests, IsFollowing(r) \/ Follow(r) \/ Unfollow(r)
    PROVE  ToggleInv'
<1>0. /\ Row(r) \in Rows /\ NoRow \in Rows /\ r \in Rows /\ "follow" \in Kinds
      /\ skewed \in BOOLEAN
  BY ReqFields, ToggleConstants DEF ToggleInv, ToggleShape, Rows
<1>1. CASE IsFollowing(r)
  <2>1. CASE req[r].pc = "select" /\ Fail(r)
    BY <1>0, <2>1, FailKeeps DEF Fail
  <2>2. CASE SelectRow(r, "follow", "error")
    BY <1>0, <2>2, SelectKeeps
  <2>3. QED
    BY <1>1, <2>1, <2>2 DEF IsFollowing
<1>2. CASE Follow(r)
  <2>1. (IF Row(r) = NoRow THEN r ELSE Row(r)) \in Rows
    BY <1>0
  <2>2. CASE Wrote(r, IF Row(r) = NoRow THEN r ELSE Row(r), "count", TRUE)
    BY <1>0, <1>2, <2>1, <2>2, OtherWriteKeeps DEF Follow
  <2>3. CASE Goto(r, "error") /\ UNCHANGED tbl
    BY <1>0, <1>2, <2>3, FailKeeps DEF Follow
  <2>4. QED
    BY <1>2, <2>2, <2>3 DEF Follow
<1>3. CASE Unfollow(r)
  <2>1. CASE Wrote(r, NoRow, "count", FALSE)
    BY <1>0, <1>3, <2>1, OtherWriteKeeps DEF Unfollow
  <2>2. CASE Goto(r, "error") /\ UNCHANGED tbl
    BY <1>0, <1>3, <2>2, FailKeeps DEF Unfollow
  <2>3. QED
    BY <1>3, <2>1, <2>2 DEF Unfollow
<1>4. QED
  BY <1>1, <1>2, <1>3

(* The cascade empties the table and overtakes whoever had read it.        *)
LEMMA DeletePostKeeps ==
    ASSUME ToggleInv, DeletePost
    PROVE  ToggleInv'
<1>0. /\ ToggleShape /\ post' = FALSE /\ UNCHANGED <<hasRedis, redis, skewed>>
      /\ tbl' = [tbl EXCEPT !["postLike"] = [u \in Users |-> NoRow]]
      /\ NoRow \in Rows /\ "postLike" \in Kinds
  BY ToggleConstants DEF DeletePost, ToggleInv, Rows
<1>1. /\ tbl' \in [Kinds -> [Users -> Rows]]
      /\ \A u \in Users : tbl'["postLike"][u] = NoRow
      /\ \A k \in Kinds : k # "postLike" => tbl'[k] = tbl[k]
  BY <1>0 DEF ToggleShape
<1>2. ASSUME NEW t \in Requests
      PROVE  /\ req'[t] \in ReqRecord
             /\ req'[t].pc = req[t].pc /\ req'[t].on = req[t].on
             /\ req'[t].kind = req[t].kind /\ req'[t].user = req[t].user
             /\ req'[t].found = req[t].found
             /\ req[t].overtaken => req'[t].overtaken
             /\ req[t].kind = "postLike" /\ req[t].pc = "write" => req'[t].overtaken
  <2>1. req[t] \in ReqRecord
    BY <1>0, ReqFields
  <2>2. CASE req[t].kind = "postLike" /\ req[t].pc = "write"
    <3>1. req'[t] = [req[t] EXCEPT !.overtaken = TRUE]
      BY <2>2 DEF DeletePost
    <3>2. QED
      BY <2>1, <3>1 DEF ReqRecord
  <2>3. CASE ~ (req[t].kind = "postLike" /\ req[t].pc = "write")
    <3>1. req'[t] = req[t]
      BY <2>3 DEF DeletePost
    <3>2. QED
      BY <2>1, <2>3, <3>1
  <2>4. QED
    BY <2>2, <2>3
<1>3. req' \in [Requests -> ReqRecord]
  BY <1>2 DEF DeletePost
<1>4. ToggleShape' /\ PostGone'
  BY <1>0, <1>1, <1>3 DEF ToggleShape, PostGone
<1>5. CounterBounded' /\ CounterInStep'
  <2>1. Finished' = Finished /\ OwesIncr' = OwesIncr /\ OwesDecr' = OwesDecr
    BY <1>2 DEF Finished, OwesIncr, OwesDecr
  <2>2. Likers("like")' = Likers("like")
    BY <1>1, ToggleConstants DEF Likers
  <2>3. QED
    BY <1>0, <2>1, <2>2 DEF ToggleInv, CounterBounded, CounterInStep
<1>6. ASSUME NEW t \in Requests PROVE ReadTrue(t)'
  <2>1. req[t].kind \in Kinds
    BY <1>0, ReqFields
  <2>2. CASE req[t].kind = "postLike"
    BY <1>2, <2>2 DEF ReadTrue
  <2>3. CASE req[t].kind # "postLike"
    BY <1>0, <1>1, <1>2, <2>1, <2>3 DEF ToggleInv, ReadTrue, Row
  <2>4. QED
    BY <2>2, <2>3
<1>7. QED
  BY <1>4, <1>5, <1>6 DEF ToggleInv

LEMMA FlushRedisKeeps ==
    ASSUME ToggleInv, FlushRedis
    PROVE  ToggleInv'
<1>0. redis' = 0 /\ skewed' = TRUE /\ UNCHANGED <<tbl, post, hasRedis, req>>
  BY DEF FlushRedis
<1>1. ToggleShape' /\ PostGone' /\ CounterInStep'
  BY <1>0 DEF ToggleInv, ToggleShape, PostGone, CounterInStep
<1>2. CounterBounded'
  <2>1. Finished' = Finished
    BY <1>0 DEF Finished
  <2>2. QED
    BY <1>0, <2>1, ToggleSetsFinite, ToggleConstants DEF CounterBounded
<1>3. ASSUME NEW t \in Requests PROVE ReadTrue(t)'
  BY <1>0 DEF ToggleInv, ReadTrue, Row
<1>4. QED
  BY <1>1, <1>2, <1>3 DEF ToggleInv

LEMMA ToggleStepKeeps ==
    ASSUME ToggleInv, NEW r \in Requests, Toggle(r)
    PROVE  ToggleInv'
<1> USE ToggleConstants
<1>1. CASE LikeSelect(r) \/ CommentLikeSelect(r) \/ PostLikeSelect(r) \/ SaveSelect(r)
  BY <1>1, SelectKeeps DEF LikeSelect, CommentLikeSelect, PostLikeSelect, SaveSelect
<1>2. CASE LikeWrite(r) \/ LikeCounter(r)
  BY <1>2, LikeWriteKeeps, LikeCounterKeeps
<1>3. CASE CommentLikeWrite(r) \/ PostLikeWrite(r) \/ SaveWrite(r)
  BY <1>3, WriteCheckedKeeps DEF CommentLikeWrite, PostLikeWrite, SaveWrite
<1>4. CASE IsFollowing(r) \/ Follow(r) \/ Unfollow(r)
  BY <1>4, FollowKeeps
<1>5. CASE CommentLikeCount(r) \/ PostLikeCount(r) \/ CountFollowers(r)
  BY <1>5, CountKeeps DEF CommentLikeCount, PostLikeCount, CountFollowers
<1>6. QED
  BY <1>1, <1>2, <1>3, <1>4, <1>5 DEF Toggle

LEMMA AskKeeps ==
    ASSUME ToggleInv, NEW r \in Requests, NEW u \in Users, Ask(r, u)
    PROVE  ToggleInv'
BY BeginKeeps, ToggleConstants
   DEF Ask, ToggleLikeVideo, ToggleLikeComment, TogglePostLike, ToggleSaveVideo,
       ToggleFollowChannel

LEMMA NextToggleInv == ToggleInv /\ [ToggleNext]_toggleVars => ToggleInv'
<1> SUFFICES ASSUME ToggleInv, [ToggleNext]_toggleVars PROVE ToggleInv'
  OBVIOUS
<1>1. CASE UNCHANGED toggleVars
  <2>1. UNCHANGED <<tbl, post, hasRedis, redis, req, skewed>>
    BY <1>1 DEF toggleVars
  <2>2. ToggleShape' /\ PostGone' /\ CounterBounded' /\ CounterInStep'
    BY <2>1 DEF ToggleInv, ToggleShape, PostGone, CounterBounded, CounterInStep,
       Finished, OwesIncr, OwesDecr, Likers
  <2>3. ASSUME NEW t \in Requests PROVE ReadTrue(t)'
    BY <2>1 DEF ToggleInv, ReadTrue, Row
  <2>4. QED
    BY <2>2, <2>3 DEF ToggleInv
<1>2. CASE ToggleNext
  BY <1>2, ToggleStepKeeps, AskKeeps, DeletePostKeeps, FlushRedisKeeps DEF ToggleNext
<1>3. QED
  BY <1>1, <1>2

LEMMA InitToggleInv == ToggleInit => ToggleInv
<1> SUFFICES ASSUME ToggleInit PROVE ToggleInv
  OBVIOUS
<1>1. tbl \in [Kinds -> [Users -> Rows]]
  <2>1. /\ [u \in Users |-> NoRow] \in [Users -> Rows]
        /\ [u \in Users |-> IF u = Owner THEN NoRow ELSE Old] \in [Users -> Rows]
    BY DEF Rows
  <2>2. QED
    BY <2>1 DEF ToggleInit
<1>2. redis = Cardinality(Likers("like")) /\ redis \in Nat /\ redis <= Cardinality(Users)
  <2>1. redis = Cardinality(Likers("like"))
    BY DEF ToggleInit, Likers
  <2>2. QED
    BY <2>1, ToggleSetsFinite
<1>3. req \in [Requests -> ReqRecord]
  <2>1. [pc |-> "idle", kind |-> "like", user |-> Owner, found |-> NoRow, overtaken |-> FALSE,
         on |-> FALSE, count |-> -1] \in ReqRecord
    BY ToggleConstants DEF ReqRecord, Rows
  <2>2. QED
    BY <2>1 DEF ToggleInit
<1>4. \A r \in Requests : req[r].pc = "idle"
  BY DEF ToggleInit
<1>5. Finished = {} /\ OwesIncr = {} /\ OwesDecr = {}
  BY <1>4 DEF Finished, OwesIncr, OwesDecr
<1>6. ToggleShape
  <2>1. post \in BOOLEAN /\ hasRedis \in BOOLEAN /\ skewed \in BOOLEAN
    BY DEF ToggleInit
  <2>2. redis \in Int
    BY <1>2
  <2>3. QED
    BY <1>1, <1>3, <2>1, <2>2 DEF ToggleShape
<1>7. CounterBounded /\ CounterInStep
  BY <1>2, <1>5, FS_EmptySet, ToggleSetsFinite, ToggleConstants DEF CounterBounded, CounterInStep
<1>8. PostGone /\ \A r \in Requests : ReadTrue(r)
  BY <1>4 DEF ToggleInit, PostGone, ReadTrue
<1>9. QED
  BY <1>6, <1>7, <1>8 DEF ToggleInv

LEMMA ToggleInvTypes == ToggleInv => ToggleTypeOK
<1> SUFFICES ASSUME ToggleInv PROVE ToggleTypeOK
  OBVIOUS
<1>1. redis \in (-Cardinality(Requests)) .. (Cardinality(Users) + Cardinality(Requests))
  BY ToggleSetsFinite, ToggleConstants DEF ToggleInv, ToggleShape, CounterBounded
<1>2. /\ tbl \in [Kinds -> [Users -> Rows]] /\ req \in [Requests -> ReqRecord]
      /\ post \in BOOLEAN /\ hasRedis \in BOOLEAN /\ skewed \in BOOLEAN
  BY DEF ToggleInv, ToggleShape
<1>3. QED
  BY <1>1, <1>2 DEF ToggleTypeOK, Rows, ReqRecord

LEMMA ToggleInvCounter == ToggleInv => CounterFollowsTable
<1> SUFFICES ASSUME ToggleInv PROVE CounterFollowsTable
  OBVIOUS
<1>1. \A r \in Requests : req[r].on \in BOOLEAN
  BY ReqFields DEF ToggleInv
<1>2. {r \in Requests : req[r].pc = "redis" /\ req[r].on = TRUE} = OwesIncr
  BY <1>1 DEF OwesIncr
<1>3. {r \in Requests : req[r].pc = "redis" /\ req[r].on = FALSE} = OwesDecr
  BY <1>1 DEF OwesDecr
<1>4. Unpaid(TRUE) = Cardinality(OwesIncr) /\ Unpaid(FALSE) = Cardinality(OwesDecr)
  BY <1>2, <1>3 DEF Unpaid
<1>5. QED
  BY <1>4, CountsAre, Zenon DEF ToggleInv, CounterInStep, CounterFollowsTable

(* However toggles overlap, the Redis like counter follows the likes table *)
(* unless one was overtaken between its read and its write or a command or *)
(* statement failed: for every number of users and requests.               *)
THEOREM CounterSafe == ToggleSpec => []CounterFollowsTable
BY ToggleInvCounter, InitToggleInv, NextToggleInv, PTL DEF ToggleSpec

(* No post like survives its post: the foreign key refuses the insert of a *)
(* toggle that had read before the deletion, the cascade takes the rest.   *)
THEOREM NoLikeSafe == ToggleSpec => []NoLikeOfDeletedPost
<1>1. ToggleInv => NoLikeOfDeletedPost
  <2> SUFFICES ASSUME ToggleInv, ~post PROVE GetLikeCount("postLike") = 0
    BY DEF NoLikeOfDeletedPost
  <2>1. Likers("postLike") = {}
    BY DEF ToggleInv, PostGone, Likers
  <2>2. QED
    BY <2>1, CountsAre, FS_EmptySet
<1>2. QED
  BY <1>1, InitToggleInv, NextToggleInv, PTL DEF ToggleSpec

(* The answer of r's own write.                                            *)
LEMMA WroteAnswers ==
    ASSUME ToggleShape, NEW r \in Requests, NEW new \in Rows,
           NEW at \in {"redis", "count", "done"}, NEW on \in BOOLEAN, Wrote(r, new, at, on),
           on <=> new # NoRow
    PROVE  req'[r].on <=> tbl'[req[r].kind][req[r].user] # NoRow
<1>1. req[r].kind \in Kinds /\ req[r].user \in Users
  BY ReqFields
<1>2. req'[r].on = on /\ tbl'[req[r].kind][req[r].user] = new
  BY <1>1, WroteEffect
<1>3. QED
  BY <1>2

Answered(r) ==
    /\ req[r].pc = "write" /\ req'[r].pc \in {"redis", "count", "done"}
    /\ ~req[r].overtaken /\ ~skewed'

(* Every write of r itself.                                                *)
LEMMA OwnAnswer ==
    ASSUME ToggleInv, NEW r \in Requests, Toggle(r), Answered(r)
    PROVE  req'[r].on <=> tbl'[req[r].kind][req[r].user] # NoRow
<1>s. /\ ToggleShape /\ req[r].pc = "write" /\ ReadTrue(r) /\ Row(r) \in Rows /\ r \in Rows
      /\ NoRow \in Rows /\ r # NoRow /\ ~req[r].overtaken
  BY ReqFields, ToggleConstants DEF ToggleInv, Answered, Rows
<1>g. ~Goto(r, "error")
  BY <1>s, GotoType DEF Answered
<1>i. CASE \E at \in {"redis", "count", "done"} :
              Wrote(r, r, at, TRUE)
  BY <1>i, <1>s, WroteAnswers
<1>j. CASE \E at \in {"redis", "count", "done"} :
              Wrote(r, IF Row(r) = NoRow THEN r ELSE Row(r), at, TRUE)
  <2>1. (IF Row(r) = NoRow THEN r ELSE Row(r)) \in Rows \ {NoRow}
    BY <1>s
  <2>2. QED
    BY <1>j, <1>s, <2>1, WroteAnswers
<1>d. CASE req[r].found # NoRow /\ \E at \in {"redis", "count", "done"} :
              Wrote(r, AfterDelete(r), at, FALSE)
  <2>1. AfterDelete(r) = NoRow
    BY <1>d, <1>s DEF ReadTrue, AfterDelete
  <2>2. QED
    BY <1>d, <1>s, <2>1, WroteAnswers
<1>n. CASE \E at \in {"redis", "count", "done"} : Wrote(r, NoRow, at, FALSE)
  BY <1>n, <1>s, WroteAnswers
<1>1. CASE LikeWrite(r)
  <2>1. /\ req[r].found = NoRow => Wrote(r, IF Row(r) = NoRow THEN r ELSE Row(r), "redis", TRUE)
        /\ req[r].found # NoRow => Wrote(r, AfterDelete(r), "redis", FALSE)
    BY <1>1 DEF LikeWrite, Answered
  <2>2. QED
    BY <1>d, <1>j, <2>1
<1>2. ASSUME NEW k, NEW at \in {"count", "done"}, WriteChecked(r, k, at)
      PROVE  req'[r].on <=> tbl'[req[r].kind][req[r].user] # NoRow
  BY <1>2, <1>d, <1>g, <1>i DEF WriteChecked
<1>3. CASE Follow(r)
  BY <1>3, <1>g, <1>j DEF Follow
<1>4. CASE Unfollow(r)
  BY <1>4, <1>g, <1>n DEF Unfollow
<1>5. CASE CommentLikeWrite(r) \/ PostLikeWrite(r) \/ SaveWrite(r)
  BY <1>2, <1>5 DEF CommentLikeWrite, PostLikeWrite, SaveWrite
<1>6. CASE LikeSelect(r) \/ CommentLikeSelect(r) \/ PostLikeSelect(r) \/ SaveSelect(r)
  BY <1>6, <1>s DEF LikeSelect, CommentLikeSelect, PostLikeSelect, SaveSelect, SelectRow
<1>7. CASE CommentLikeCount(r) \/ PostLikeCount(r) \/ CountFollowers(r) \/ LikeCounter(r)
  BY <1>7, <1>s DEF CommentLikeCount, PostLikeCount, CountFollowers, Count, LikeCounter
<1>8. CASE IsFollowing(r)
  BY <1>8, <1>s DEF IsFollowing, SelectRow
<1>9. QED
  BY <1>1, <1>3, <1>4, <1>5, <1>6, <1>7, <1>8 DEF Toggle

(* A step of t moves no other request on.                                  *)
LEMMA OthersStay ==
    ASSUME ToggleInv, NEW t \in Requests, Toggle(t), NEW r \in Requests, r # t
    PROVE  req'[r].pc = req[r].pc
<1>s. ToggleShape /\ req \in [Requests -> ReqRecord] /\ req[r] \in ReqRecord
  BY ReqFields DEF ToggleInv, ToggleShape
<1>w. ASSUME NEW new, NEW at, NEW on, Wrote(t, new, at, on) PROVE req'[r].pc = req[r].pc
  <2>1. req'[r] = IF /\ req[r].kind = req[t].kind /\ req[r].user = req[t].user
                     /\ req[r].pc = "write" /\ new # Row(t)
                  THEN [req[r] EXCEPT !.overtaken = TRUE] ELSE req[r]
    BY <1>w DEF Wrote
  <2>2. QED
    BY <1>s, <2>1 DEF ReqRecord
<1>g. ASSUME NEW at, Goto(t, at) PROVE req'[r].pc = req[r].pc
  BY <1>g, <1>s DEF Goto
<1>1. CASE LikeWrite(t)
  BY <1>1, <1>w DEF LikeWrite
<1>2. ASSUME NEW k, NEW at, WriteChecked(t, k, at) PROVE req'[r].pc = req[r].pc
  BY <1>2, <1>g, <1>w DEF WriteChecked
<1>3. CASE Follow(t)
  BY <1>3, <1>g, <1>w DEF Follow
<1>4. CASE Unfollow(t)
  BY <1>4, <1>g, <1>w DEF Unfollow
<1>5. CASE CommentLikeWrite(t) \/ PostLikeWrite(t) \/ SaveWrite(t)
  BY <1>2, <1>5 DEF CommentLikeWrite, PostLikeWrite, SaveWrite
<1>6. ASSUME NEW k, NEW onError, SelectRow(t, k, onError) PROVE req'[r].pc = req[r].pc
  BY <1>6, <1>g, <1>s DEF SelectRow
<1>7. CASE LikeSelect(t) \/ CommentLikeSelect(t) \/ PostLikeSelect(t) \/ SaveSelect(t)
  BY <1>6, <1>7 DEF LikeSelect, CommentLikeSelect, PostLikeSelect, SaveSelect
<1>8. CASE IsFollowing(t)
  BY <1>6, <1>8, <1>g DEF IsFollowing, Fail
<1>9. ASSUME NEW k, Count(t, k) PROVE req'[r].pc = req[r].pc
  BY <1>9, <1>g, <1>s DEF Count
<1>10. CASE CommentLikeCount(t) \/ PostLikeCount(t) \/ CountFollowers(t)
  BY <1>9, <1>10 DEF CommentLikeCount, PostLikeCount, CountFollowers
<1>11. CASE LikeCounter(t)
  BY <1>11, <1>s DEF LikeCounter
<1>12. QED
  BY <1>1, <1>3, <1>4, <1>5, <1>7, <1>8, <1>10, <1>11 DEF Toggle

LEMMA ToggleAnswers ==
    ASSUME ToggleInv, [ToggleNext]_toggleVars, NEW r \in Requests, Answered(r)
    PROVE  req'[r].on <=> tbl'[req[r].kind][req[r].user] # NoRow
<1>s. req \in [Requests -> ReqRecord] /\ req[r] \in ReqRecord
  BY ReqFields DEF ToggleInv, ToggleShape
<1>m. req'[r].pc # req[r].pc /\ req[r].pc = "write"
  BY DEF Answered
<1>1. CASE UNCHANGED toggleVars
  BY <1>1, <1>m DEF toggleVars
<1>2. ASSUME NEW t \in Requests, Toggle(t)
      PROVE  req'[r].on <=> tbl'[req[r].kind][req[r].user] # NoRow
  BY <1>2, <1>m, OwnAnswer, OthersStay
<1>3. ASSUME NEW t \in Requests, NEW u \in Users, Ask(t, u) PROVE FALSE
  <2>1. PICK k \in Kinds : Begin(t, k, u)
    BY <1>3, ToggleConstants DEF Ask, ToggleLikeVideo, ToggleLikeComment, TogglePostLike,
       ToggleSaveVideo, ToggleFollowChannel
  <2>2. QED
    BY <1>m, <1>s, <2>1 DEF Begin
<1>4. CASE DeletePost
  <2>1. req'[r] = IF req[r].kind = "postLike" /\ req[r].pc = "write"
                  THEN [req[r] EXCEPT !.overtaken = TRUE] ELSE req[r]
    BY <1>4 DEF DeletePost
  <2>2. QED
    BY <1>m, <1>s, <2>1 DEF ReqRecord
<1>5. CASE FlushRedis
  BY <1>5, <1>m DEF FlushRedis
<1>6. QED
  BY <1>1, <1>2, <1>3, <1>4, <1>5 DEF ToggleNext

(* A toggle answers with the state in which its own write left the row,    *)
(* unless another toggle of the user overtook it after its read or a like  *)
(* was skewed by an error ToggleLike ignores.                              *)
THEOREM AnswersSafe == ToggleSpec => AnswerTrueUnlessOvertaken
<1>1. ToggleInv /\ [ToggleNext]_toggleVars =>
        [\A r \in Requests :
           /\ req[r].pc = "write"
           /\ req'[r].pc \in {"redis", "count", "done"}
           /\ ~req[r].overtaken
           /\ ~skewed'
           => (req'[r].on <=> tbl'[req[r].kind][req[r].user] # NoRow)]_toggleVars
  BY ToggleAnswers DEF Answered
<1>2. QED
  BY <1>1, InitToggleInv, NextToggleInv, PTL DEF ToggleSpec, AnswerTrueUnlessOvertaken

-----------------------------------------------------------------------------
(* The two together, as TLC runs them.                                     *)

(* No toggle answers with a negative count, no counter leaves its range    *)
(* and the view counter keeps its types, whichever of the two parts moves. *)
THEOREM EngagementTypeCorrect == Spec => []TypeOK
<1>1. Init => ToggleInv /\ ViewInv
  BY InitToggleInv, InitViewInv DEF Init
<1>2. ToggleInv /\ ViewInv /\ [Next]_vars => ToggleInv' /\ ViewInv'
  <2> SUFFICES ASSUME ToggleInv, ViewInv, [Next]_vars PROVE ToggleInv' /\ ViewInv'
    OBVIOUS
  <2>1. [ToggleNext]_toggleVars /\ [ViewNext]_viewVars
    BY DEF Next, vars
  <2>2. QED
    BY <2>1, NextToggleInv, NextViewInv
<1>3. ToggleInv /\ ViewInv => TypeOK
  BY ToggleInvTypes, ViewInvTypes DEF TypeOK
<1>4. QED
  BY <1>1, <1>2, <1>3, PTL DEF Spec
=============================================================================
