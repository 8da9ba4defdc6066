----------------------------- MODULE VideoProofs -----------------------------
(***************************************************************************)
(* Proofs about VideoLifecycle, for any sets of videos and of concurrent   *)
(* requests, with failures and restarts.                                   *)
(***************************************************************************)
EXTENDS VideoLifecycle, TLAPS

-----------------------------------------------------------------------------
(* What the record updates of the handlers return.                         *)

LEMMA RowUpdates ==
    ASSUME NEW r \in Row, NEW b \in BOOLEAN
    PROVE  /\ NoRow \in Row
           /\ \A s \in {"pending", "processing", "complete", "failed"} :
                /\ [r EXCEPT !.status = s] \in Row
                /\ [r EXCEPT !.status = s].status = s
                /\ [r EXCEPT !.status = s].public = r.public
                /\ [r EXCEPT !.status = s].hls = r.hls
           /\ /\ [r EXCEPT !.public = b] \in Row
              /\ [r EXCEPT !.public = b].status = r.status
              /\ [r EXCEPT !.public = b].public = b
              /\ [r EXCEPT !.public = b].hls = r.hls
  BY DEF Row, NoRow

LEMMA CompletedRow ==
    ASSUME NEW r \in Row, NEW b \in BOOLEAN
    PROVE  /\ Completed(r, b) \in Row
           /\ Completed(r, b).status = "complete"
           /\ Completed(r, b).public = r.public
           /\ Completed(r, b).hls = (r.hls \/ b)
  BY DEF Completed, Row

LEMMA NewRow ==
    ASSUME NEW b \in BOOLEAN, NEW s \in {"pending", "processing"}
    PROVE  LET r == [NoRow EXCEPT !.status = s, !.public = b] IN
           r \in Row /\ r.status = s /\ r.public = b /\ r.hls = FALSE
  BY DEF Row, NoRow

LEMMA ReplayRow ==
    LET r == [NoRow EXCEPT !.status = "processing"] IN
    r \in Row /\ r.status = "processing" /\ r.public = FALSE /\ r.hls = FALSE
  BY DEF Row, NoRow

-----------------------------------------------------------------------------
(* Type correctness.                                                       *)

TableType == 
    /\ table \in [Videos -> Row]
    /\ \A v \in Videos : v \notin issued => table[v] = NoRow
    /\ everPublic \subseteq Videos

GoType == 
    /\ go \in [Procs -> Goroutine]
    /\ \A p \in Procs : go[p].pc # "idle" => go[p].video \in issued

SetsType ==
    /\ issued \subseteq Videos
    /\ jobs \subseteq issued
    /\ callbacks \subseteq Callback
    /\ produced \subseteq Videos /\ failures \subseteq Videos
    /\ confirmed \subseteq Videos /\ announced \subseteq issued

LEMMA TypeParts == TypeOK <=> TableType /\ GoType /\ SetsType
  BY DEF TypeOK, TableType, GoType, SetsType

LEMMA UpdateType ==
    ASSUME TypeOK, NEW v \in issued, NEW r \in Row, Update(v, r), UNCHANGED issued
    PROVE  TableType'
  <1>1. v \in Videos
    BY DEF TypeOK
  <1>2. table' \in [Videos -> Row]
    BY <1>1 DEF TypeOK, Update
  <1>3. \A w \in Videos : w \notin issued => table'[w] = NoRow
    BY <1>1 DEF TypeOK, Update
  <1>4. everPublic' \subseteq Videos
    BY <1>1 DEF TypeOK, Update, PublicNow
  <1> QED
    BY <1>2, <1>3, <1>4 DEF TableType

LEMMA StoreType ==
    ASSUME TypeOK, NEW v \in Videos, NEW r \in Row, Store(v, r)
    PROVE  TableType' /\ issued' \subseteq Videos /\ issued \subseteq issued'
  <1>2. table' \in [Videos -> Row]
    BY DEF TypeOK, Store
  <1>3. \A w \in Videos : w \notin issued' => table'[w] = NoRow
    BY DEF TypeOK, Store
  <1>4. everPublic' \subseteq Videos
    BY DEF TypeOK, Store, PublicNow
  <1>5. issued' \subseteq Videos /\ issued \subseteq issued'
    BY DEF TypeOK, Store
  <1> QED
    BY <1>2, <1>3, <1>4, <1>5 DEF TableType

LEMMA SameTable ==
    ASSUME TypeOK, UNCHANGED <<table, issued, everPublic>>
    PROVE  TableType'
  BY DEF TypeOK, TableType

LEMMA RunType ==
    ASSUME TypeOK, NEW p \in Procs, NEW r \in Goroutine,
           r.pc # "idle" => r.video \in issued', issued \subseteq issued', Run(p, r)
    PROVE  GoType'
  BY DEF TypeOK, GoType, Run

LEMMA ReturnType ==
    ASSUME TypeOK, NEW p \in Procs, issued \subseteq issued', Return(p)
    PROVE  GoType'
  <1>1. Idle \in Goroutine /\ Idle.pc = "idle"
    BY DEF Idle, Goroutine, Row, NoRow
  <1> QED
    BY <1>1, RunType DEF Return

LEMMA GotoType ==
    ASSUME TypeOK, NEW p \in Procs, go[p].pc # "idle", issued \subseteq issued',
           NEW pc \in {"publishJob", "notify"}, Goto(p, pc)
    PROVE  GoType'
  <1>1. go[p] \in Goroutine /\ go[p].video \in issued
    BY DEF TypeOK
  <1>2. [go[p] EXCEPT !.pc = pc] \in Goroutine
    BY <1>1 DEF Goroutine
  <1>3. [go[p] EXCEPT !.pc = pc].video = go[p].video
    BY <1>1 DEF Goroutine
  <1> QED
    BY <1>1, <1>2, <1>3, RunType DEF Goto

LEMMA GetType ==
    ASSUME TypeOK, NEW p \in Procs, NEW v \in Videos,
           NEW pc \in {"confirm", "publish", "edit", "thumbnail", "ban", "retry",
                       "complete", "failed"},
           NEW url \in BOOLEAN, Get(p, v, pc, url), UNCHANGED issued
    PROVE  GoType'
  <1>1. table[v] \in Row /\ v \in issued
    BY DEF TypeOK, Get, Exists, NoRow
  <1>2. [pc |-> pc, video |-> v, v |-> table[v], url |-> url] \in Goroutine
    BY <1>1 DEF Goroutine
  <1> QED
    BY <1>1, <1>2, RunType DEF Get

(* A running request's copy and video.                                     *)
LEMMA Running ==
    ASSUME TypeOK, NEW p \in Procs, go[p].pc # "idle"
    PROVE  go[p].v \in Row /\ go[p].video \in issued /\ go[p].video \in Videos
           /\ go[p].url \in BOOLEAN
  BY DEF TypeOK, Goroutine

LEMMA TypeInit == Init => TypeOK
  BY DEF Init, TypeOK, Row, NoRow, Goroutine, Idle

LEMMA TypeStep == TypeOK /\ [Next]_vars => TypeOK'
  <1> SUFFICES ASSUME TypeOK, [Next]_vars
               PROVE  TableType' /\ GoType' /\ SetsType'
    BY TypeParts DEF TypeOK, TableType, GoType, SetsType
  <1>s. SetsType /\ GoType /\ TableType
    BY TypeParts
  <1>1. ASSUME NEW v \in Videos, CreateUpload(v)
        PROVE  TableType' /\ GoType' /\ SetsType'
    <2>1. PICK b \in BOOLEAN : Store(v, [NoRow EXCEPT !.status = "pending", !.public = b])
      BY <1>1 DEF CreateUpload
    <2>2. TableType' /\ issued' \subseteq Videos /\ issued \subseteq issued'
      BY <2>1, NewRow, StoreType
    <2>3. UNCHANGED <<go, jobs, callbacks, produced, failures, confirmed, announced>>
      BY <1>1 DEF CreateUpload, workerVars
    <2> QED
      BY <2>2, <2>3, <1>s DEF SetsType, GoType
  <1>2. ASSUME NEW v \in Videos, DeleteVideo(v)
        PROVE  TableType' /\ GoType' /\ SetsType'
    <2>1. NoRow \in Row
      BY DEF NoRow, Row
    <2>2. TableType'
      BY <1>2, <2>1, <1>s DEF DeleteVideo, TableType
    <2> QED
      BY <1>2, <2>2, <1>s DEF DeleteVideo, workerVars, SetsType, GoType
  <1>3. ASSUME NEW v \in Videos, Transcode(v)
        PROVE  TableType' /\ GoType' /\ SetsType'
    <2>1. TableType' /\ GoType'
      BY <1>3, <1>s DEF Transcode, TableType, GoType
    <2>2. /\ [video |-> v, status |-> "complete", url |-> TRUE] \in Callback
          /\ [video |-> v, status |-> "failed", url |-> FALSE] \in Callback
      BY DEF Callback
    <2>3. callbacks' \subseteq Callback
      BY <1>3, <2>2, <1>s DEF Transcode, SetsType
    <2> QED
      BY <1>3, <2>1, <2>3, <1>s DEF Transcode, SetsType
  <1>4. ASSUME NEW p \in Procs, NEW v \in Videos, StoreReplay(p, v)
        PROVE  TableType' /\ GoType' /\ SetsType'
    <2>1. TableType' /\ issued' \subseteq Videos /\ issued \subseteq issued'
      BY <1>4, ReplayRow, StoreType DEF StoreReplay
    <2>2. v \in issued' /\ table'[v] \in Row
      BY <1>4, <2>1 DEF StoreReplay, Store, TableType
    <2>3. [pc |-> "publishJob", video |-> v, v |-> table'[v], url |-> FALSE] \in Goroutine
      BY <2>2 DEF Goroutine
    <2>4. GoType'
      BY <1>4, <2>1, <2>2, <2>3, RunType DEF StoreReplay
    <2> QED
      BY <1>4, <2>1, <2>4, <1>s DEF StoreReplay, workerVars, SetsType
  <1>5. ASSUME NEW p \in Procs, NEW v \in Videos,
               ConfirmUpload(p, v) \/ RetryTranscode(p, v) \/ PublishVideo(p, v)
                 \/ UpdateVideo(p, v) \/ UpdateThumbnail(p, v) \/ BanVideo(p, v)
        PROVE  TableType' /\ GoType' /\ SetsType'
    <2>1. UNCHANGED <<table, issued, everPublic>>
      BY <1>5 DEF ConfirmUpload, RetryTranscode, PublishVideo, UpdateVideo, UpdateThumbnail, BanVideo
    <2>2. GoType'
      BY <1>5, <2>1, GetType DEF ConfirmUpload, RetryTranscode, PublishVideo, UpdateVideo,
         UpdateThumbnail, BanVideo
    <2>3. SetsType'
      BY <1>5, <1>s DEF ConfirmUpload, RetryTranscode, PublishVideo, UpdateVideo,
         UpdateThumbnail, BanVideo, SetsType, workerVars
    <2> QED
      BY <2>1, <2>2, <2>3, SameTable
  <1>6. ASSUME NEW p \in Procs, HandleTranscodeCallback(p)
        PROVE  TableType' /\ GoType' /\ SetsType'
    <2>1. PICK c \in callbacks :
            /\ Get(p, c.video, c.status, c.url)
            /\ callbacks' = callbacks \ {c} \/ UNCHANGED callbacks
      BY <1>6 DEF HandleTranscodeCallback
    <2>2. c.video \in Videos /\ c.status \in {"complete", "failed"} /\ c.url \in BOOLEAN
      BY <1>s DEF SetsType, Callback
    <2>3. GoType'
      BY <1>6, <2>1, <2>2, GetType DEF HandleTranscodeCallback
    <2> QED
      BY <1>6, <2>1, <2>3, SameTable, <1>s DEF HandleTranscodeCallback, SetsType
  <1>7. ASSUME NEW p \in Procs, RequestStep(p)
        PROVE  TableType' /\ GoType' /\ SetsType'
    <2> issued' = issued
      BY <1>7 DEF RequestStep, ConfirmUpdate, PublishTranscodeJob, RetryUpdate, PublishUpdate,
         EditUpdate, ThumbnailUpdate, BanUpdate, CallbackComplete, CallbackFailed, NotifyFollowers
    <2>0. /\ go[p].pc # "idle"
          /\ go[p].v \in Row /\ go[p].video \in issued /\ go[p].video \in Videos
          /\ go[p].url \in BOOLEAN
      BY <1>7, Running DEF RequestStep, ConfirmUpdate, PublishTranscodeJob, RetryUpdate,
         PublishUpdate, EditUpdate, ThumbnailUpdate, BanUpdate, CallbackComplete, CallbackFailed,
         NotifyFollowers
    <2>f. UpdateFails => TableType'
      BY SameTable DEF UpdateFails
    <2>r. Return(p) => GoType'
      BY ReturnType
    <2>g. \A pc \in {"publishJob", "notify"} : Goto(p, pc) => GoType'
      BY <2>0, GotoType
    <2>u. ASSUME NEW r \in Row, Update(go[p].video, r)
          PROVE  TableType'
      BY <2>0, <2>u, UpdateType
    <2>1. CASE ConfirmUpdate(p) \/ RetryUpdate(p)
      <3>1. TableType' /\ GoType'
        BY <2>1, <2>0, <2>f, <2>r, <2>g, <2>u, RowUpdates DEF ConfirmUpdate, RetryUpdate
      <3> QED
        BY <2>1, <3>1, <1>s DEF ConfirmUpdate, RetryUpdate, workerVars, SetsType
    <2>2. CASE PublishTranscodeJob(p)
      BY <2>2, <2>0, <2>r, SameTable, <1>s DEF PublishTranscodeJob, SetsType
    <2>3. CASE PublishUpdate(p)
      <3>1. TableType' /\ GoType'
        BY <2>3, <2>0, <2>f, <2>r, <2>g, <2>u, RowUpdates DEF PublishUpdate
      <3> QED
        BY <2>3, <3>1, <1>s DEF PublishUpdate, workerVars, SetsType
    <2>4. CASE EditUpdate(p) \/ ThumbnailUpdate(p) \/ BanUpdate(p) \/ CallbackFailed(p)
      <3>1. TableType' /\ GoType'
        BY <2>4, <2>0, <2>f, <2>r, <2>u, RowUpdates
           DEF EditUpdate, ThumbnailUpdate, BanUpdate, CallbackFailed
      <3> QED
        BY <2>4, <3>1, <1>s
           DEF EditUpdate, ThumbnailUpdate, BanUpdate, CallbackFailed, workerVars, SetsType
    <2>5. CASE CallbackComplete(p)
      <3>1. TableType' /\ GoType'
        BY <2>5, <2>0, <2>f, <2>r, <2>g, <2>u, CompletedRow DEF CallbackComplete
      <3> QED
        BY <2>5, <3>1, <1>s DEF CallbackComplete, workerVars, SetsType
    <2>6. CASE NotifyFollowers(p)
      BY <2>6, <2>0, <2>r, SameTable, <1>s DEF NotifyFollowers, workerVars, SetsType
    <2> QED
      BY <1>7, <2>1, <2>2, <2>3, <2>4, <2>5, <2>6 DEF RequestStep
  <1>8. CASE LoseCallback
    BY <1>8, <1>s, SameTable DEF LoseCallback, GoType, SetsType
  <1>9. CASE Restart
    <2>1. GoType'
      BY <1>9 DEF Restart, GoType, Goroutine, Idle, Row, NoRow
    <2> QED
      BY <1>9, <2>1, <1>s, SameTable DEF Restart, workerVars, SetsType
  <1>10. CASE UNCHANGED vars
    BY <1>10, <1>s DEF vars, workerVars, TableType, GoType, SetsType
  <1> QED
    BY <1>1, <1>2, <1>3, <1>4, <1>5, <1>6, <1>7, <1>8, <1>9, <1>10 DEF Next, Request

(* Every reachable state is well typed; in particular no request, job or   *)
(* row belongs to a video that was never created.                          *)
THEOREM TypeCorrect == Spec => []TypeOK
  BY TypeInit, TypeStep, PTL DEF Spec

-----------------------------------------------------------------------------
(* Every status has a cause. What a goroutine is about to write must have  *)
(* one as well, and so must the jobs and callbacks it is written from.     *)

Earned(g) ==
    /\ g.pc # "idle" => Caused(g.video, g.v)
    /\ g.pc \in {"confirm", "publishJob", "retry", "complete", "failed"}
         => g.video \in confirmed
    /\ g.pc = "complete" => g.url /\ g.video \in produced
    /\ g.pc = "failed" => g.video \in failures

Reported(c) ==
    /\ c.video \in confirmed
    /\ c.status = "complete" => c.url /\ c.video \in produced
    /\ c.status = "failed" => c.video \in failures

CauseInv ==
    /\ \A v \in Videos : Caused(v, table[v])
    /\ \A p \in Procs : Earned(go[p])
    /\ jobs \subseteq confirmed
    /\ \A c \in callbacks : Reported(c)

LEMMA CauseInvImplies == CauseInv => StatusHasCause
  BY DEF CauseInv, StatusHasCause, Earned

(* The facts that causes refer to are never withdrawn.                     *)
Grows ==
    produced \subseteq produced' /\ failures \subseteq failures' /\ confirmed \subseteq confirmed'

(* Caused and Earned for a value of this state and the facts of the next.  *)
CausedNext(v, r) ==
    /\ r.status = "complete" => r.hls
    /\ r.hls => v \in produced'
    /\ r.status = "failed" => v \in failures'
    /\ r.status \in {"processing", "complete", "failed"} => v \in confirmed'

EarnedNext(g) ==
    /\ g.pc # "idle" => CausedNext(g.video, g.v)
    /\ g.pc \in {"confirm", "publishJob", "retry", "complete", "failed"}
         => g.video \in confirmed'
    /\ g.pc = "complete" => g.url /\ g.video \in produced'
    /\ g.pc = "failed" => g.video \in failures'

LEMMA CauseGrows ==
    ASSUME Grows
    PROVE  /\ \A v, r : Caused(v, r) => CausedNext(v, r)
           /\ \A g : Earned(g) => EarnedNext(g)
           /\ \A c : Reported(c) => Reported(c)'
  <1>1. \A v, r : Caused(v, r) => CausedNext(v, r)
    BY DEF Grows, Caused, CausedNext
  <1>2. \A g : Earned(g) => EarnedNext(g)
    BY <1>1 DEF Grows, Earned, EarnedNext
  <1>3. \A c : Reported(c) => Reported(c)'
    BY DEF Grows, Reported
  <1> QED
    BY <1>1, <1>2, <1>3

(* The table part of CauseInv in the next state.                           *)
TableCaused == \A w \in Videos : Caused(w, table[w])
GoEarned == \A q \in Procs : Earned(go[q])

LEMMA WriteCaused ==
    ASSUME TypeOK, CauseInv, NEW v \in Videos, NEW r, CausedNext(v, r), Grows,
           table' = [table EXCEPT ![v] = r] \/ table' = table
    PROVE  TableCaused'
  <1> SUFFICES ASSUME NEW w \in Videos
               PROVE  CausedNext(w, table'[w])
    BY DEF TableCaused, Caused, CausedNext
  <1>1. (table'[w] = r /\ w = v) \/ table'[w] = table[w]
    BY DEF TypeOK
  <1>2. CausedNext(w, table[w])
    BY CauseGrows DEF CauseInv
  <1> QED
    BY <1>1, <1>2

LEMMA SameTableCaused ==
    ASSUME TypeOK, CauseInv, Grows, table' = table
    PROVE  TableCaused'
  BY DEF TableCaused, CauseInv, Caused, Grows

LEMMA UpdateCaused ==
    ASSUME TypeOK, CauseInv, NEW v \in Videos, NEW r, CausedNext(v, r), Grows, Update(v, r)
    PROVE  TableCaused'
  BY WriteCaused DEF Update

LEMMA RunEarned ==
    ASSUME TypeOK, CauseInv, NEW p \in Procs, NEW r, EarnedNext(r), Grows, Run(p, r)
    PROVE  GoEarned'
  <1> SUFFICES ASSUME NEW q \in Procs
               PROVE  EarnedNext(go'[q])
    BY DEF GoEarned, Earned, EarnedNext, Caused, CausedNext
  <1>1. go'[q] = r \/ go'[q] = go[q]
    BY DEF Run, TypeOK
  <1>2. EarnedNext(go[q])
    BY CauseGrows DEF CauseInv
  <1> QED
    BY <1>1, <1>2

LEMMA SameGoEarned ==
    ASSUME CauseInv, Grows, go' = go
    PROVE  GoEarned'
  BY DEF GoEarned, CauseInv, Earned, Caused, Grows

LEMMA ReturnEarned ==
    ASSUME TypeOK, CauseInv, NEW p \in Procs, Grows, Return(p)
    PROVE  GoEarned'
  <1>1. EarnedNext(Idle)
    BY DEF EarnedNext, Idle
  <1> QED
    BY <1>1, RunEarned DEF Return

LEMMA GotoEarned ==
    ASSUME TypeOK, CauseInv, NEW p \in Procs, Grows, go[p].pc # "idle",
           NEW pc \in {"publishJob", "notify"}, Goto(p, pc),
           pc = "publishJob" => go[p].video \in confirmed
    PROVE  GoEarned'
  <1>1. go[p] \in Goroutine
    BY DEF TypeOK
  <1>2. CausedNext(go[p].video, go[p].v)
    BY CauseGrows DEF CauseInv, Earned
  <1>3. \A r : r.pc = pc /\ r.video = go[p].video /\ r.v = go[p].v => EarnedNext(r)
    BY <1>2 DEF EarnedNext, Grows
  <1>4. LET r == [go[p] EXCEPT !.pc = pc] IN
        r.pc = pc /\ r.video = go[p].video /\ r.v = go[p].v
    BY <1>1 DEF Goroutine
  <1>5. EarnedNext([go[p] EXCEPT !.pc = pc])
    BY <1>3, <1>4
  <1> QED
    BY <1>5, RunEarned DEF Goto

LEMMA GetEarned ==
    ASSUME TypeOK, CauseInv, NEW p \in Procs, NEW v \in Videos, NEW pc, NEW url,
           Get(p, v, pc, url), Grows,
           pc \in {"confirm", "publishJob", "retry", "complete", "failed"} => v \in confirmed',
           pc = "complete" => url /\ v \in produced,
           pc = "failed" => v \in failures
    PROVE  GoEarned'
  <1>1. CausedNext(v, table[v])
    BY CauseGrows DEF CauseInv
  <1>2. EarnedNext([pc |-> pc, video |-> v, v |-> table[v], url |-> url])
    BY <1>1 DEF EarnedNext, Grows
  <1> QED
    BY <1>2, RunEarned DEF Get

LEMMA CauseInit == Init => CauseInv
  BY DEF Init, CauseInv, Caused, Earned, Idle, NoRow

LEMMA CauseStep == TypeOK /\ CauseInv /\ [Next]_vars => CauseInv'
  <1> SUFFICES ASSUME TypeOK, CauseInv, [Next]_vars
               PROVE  CauseInv'
    OBVIOUS
  <1> DEFINE Queues == jobs \subseteq confirmed /\ \A c \in callbacks : Reported(c)
  <1>c. Queues /\ TableCaused /\ GoEarned
    BY DEF CauseInv, TableCaused, GoEarned
  <1>i. TableCaused' /\ GoEarned' /\ Queues' => CauseInv'
    BY DEF CauseInv, TableCaused, GoEarned
  <1>k. ASSUME Grows, jobs' \subseteq jobs, callbacks' \subseteq callbacks
        PROVE  Queues'
    BY <1>k, <1>c, CauseGrows DEF Grows
  <1>1. ASSUME NEW v \in Videos, CreateUpload(v)
        PROVE  CauseInv'
    <2>1. PICK b \in BOOLEAN : Store(v, [NoRow EXCEPT !.status = "pending", !.public = b])
      BY <1>1 DEF CreateUpload
    <2>2. Grows /\ go' = go /\ jobs' = jobs /\ callbacks' = callbacks
      BY <1>1 DEF CreateUpload, workerVars, Grows
    <2>3. CausedNext(v, [NoRow EXCEPT !.status = "pending", !.public = b])
      BY NewRow DEF CausedNext
    <2>4. TableCaused'
      BY <2>1, <2>2, <2>3, WriteCaused DEF Store
    <2> QED
      BY <2>2, <2>4, SameGoEarned, <1>k, <1>i
  <1>2. ASSUME NEW v \in Videos, DeleteVideo(v)
        PROVE  CauseInv'
    <2>1. Grows /\ go' = go /\ jobs' = jobs /\ callbacks' = callbacks
      BY <1>2 DEF DeleteVideo, workerVars, Grows
    <2>2. CausedNext(v, NoRow)
      BY DEF CausedNext, NoRow
    <2>3. TableCaused'
      BY <1>2, <2>1, <2>2, WriteCaused DEF DeleteVideo
    <2> QED
      BY <2>1, <2>3, SameGoEarned, <1>k, <1>i
  <1>3. ASSUME NEW v \in Videos, Transcode(v)
        PROVE  CauseInv'
    <2>1. Grows /\ go' = go /\ table' = table /\ jobs' \subseteq jobs /\ confirmed' = confirmed
      BY <1>3 DEF Transcode, Grows
    <2>2. \A c \in callbacks : Reported(c)'
      BY <1>c, <2>1, CauseGrows
    <2>3. v \in confirmed'
      BY <1>3, <1>c, <2>1 DEF Transcode
    <2>4. \A c \in callbacks' : Reported(c)'
      BY <1>3, <2>2, <2>3 DEF Transcode, Reported
    <2> QED
      BY <1>c, <2>1, <2>4, SameTableCaused, SameGoEarned, <1>i
  <1>4. ASSUME NEW p \in Procs, NEW v \in Videos, StoreReplay(p, v)
        PROVE  CauseInv'
    <2>1. Grows /\ jobs' = jobs /\ callbacks' = callbacks /\ v \in confirmed'
      BY <1>4 DEF StoreReplay, workerVars, Grows
    <2>2. CausedNext(v, [NoRow EXCEPT !.status = "processing"])
      BY <2>1, ReplayRow DEF CausedNext
    <2>3. TableCaused'
      BY <1>4, <2>1, <2>2, WriteCaused DEF StoreReplay, Store
    <2>4. table'[v] = [NoRow EXCEPT !.status = "processing"]
      BY <1>4 DEF StoreReplay, Store, TypeOK
    <2>5. EarnedNext([pc |-> "publishJob", video |-> v, v |-> table'[v], url |-> FALSE])
      BY <2>1, <2>2, <2>4 DEF EarnedNext
    <2>6. GoEarned'
      BY <1>4, <2>1, <2>5, RunEarned DEF StoreReplay
    <2> QED
      BY <2>1, <2>3, <2>6, <1>k, <1>i
  <1>5. ASSUME NEW p \in Procs, NEW v \in Videos,
               ConfirmUpload(p, v) \/ RetryTranscode(p, v) \/ PublishVideo(p, v)
                 \/ UpdateVideo(p, v) \/ UpdateThumbnail(p, v) \/ BanVideo(p, v)
        PROVE  CauseInv'
    <2>1. Grows /\ table' = table /\ jobs' = jobs /\ callbacks' = callbacks
      BY <1>5 DEF ConfirmUpload, RetryTranscode, PublishVideo, UpdateVideo, UpdateThumbnail, BanVideo,
         workerVars, Grows
    <2>2. CASE ConfirmUpload(p, v)
      BY <2>2, <2>1, GetEarned, SameTableCaused, <1>k, <1>i DEF ConfirmUpload
    <2>3. CASE RetryTranscode(p, v)
      <3>1. v \in confirmed'
        BY <2>3, <2>1, <1>c DEF RetryTranscode, TableCaused, Caused, Grows
      <3> QED
        BY <2>3, <3>1, <2>1, GetEarned, SameTableCaused, <1>k, <1>i DEF RetryTranscode
    <2>4. CASE PublishVideo(p, v) \/ UpdateVideo(p, v) \/ UpdateThumbnail(p, v) \/ BanVideo(p, v)
      BY <2>4, <2>1, GetEarned, SameTableCaused, <1>k, <1>i
         DEF PublishVideo, UpdateVideo, UpdateThumbnail, BanVideo
    <2> QED
      BY <1>5, <2>2, <2>3, <2>4
  <1>6. ASSUME NEW p \in Procs, HandleTranscodeCallback(p)
        PROVE  CauseInv'
    <2>1. PICK c \in callbacks :
            /\ Get(p, c.video, c.status, c.url)
            /\ callbacks' = callbacks \ {c} \/ UNCHANGED callbacks
      BY <1>6 DEF HandleTranscodeCallback
    <2>2. Grows /\ table' = table /\ jobs' = jobs /\ confirmed' = confirmed
      BY <1>6 DEF HandleTranscodeCallback, Grows
    <2>3. c.video \in Videos /\ c.status \in {"complete", "failed"} /\ Reported(c)
      BY <1>c DEF TypeOK, Callback
    <2>4. GoEarned'
      BY <2>1, <2>2, <2>3, GetEarned DEF Reported
    <2> QED
      BY <2>1, <2>2, <2>4, SameTableCaused, <1>k, <1>i
  <1>7. ASSUME NEW p \in Procs, RequestStep(p)
        PROVE  CauseInv'
    <2>0. /\ go[p].pc # "idle"
          /\ go[p].v \in Row /\ go[p].video \in Videos /\ go[p].url \in BOOLEAN
      BY <1>7, Running DEF RequestStep, ConfirmUpdate, PublishTranscodeJob, RetryUpdate,
         PublishUpdate, EditUpdate, ThumbnailUpdate, BanUpdate, CallbackComplete, CallbackFailed,
         NotifyFollowers
    <2>1. Grows /\ confirmed' = confirmed /\ callbacks' = callbacks /\ produced' = produced
      BY <1>7 DEF RequestStep, ConfirmUpdate, PublishTranscodeJob, RetryUpdate,
         PublishUpdate, EditUpdate, ThumbnailUpdate, BanUpdate, CallbackComplete, CallbackFailed,
         NotifyFollowers, workerVars, Grows
    <2>e. Earned(go[p]) /\ EarnedNext(go[p]) /\ CausedNext(go[p].video, go[p].v)
      BY <2>0, <2>1, CauseGrows DEF CauseInv, EarnedNext
    <2>f. UpdateFails => TableCaused'
      BY <2>1, SameTableCaused DEF UpdateFails
    <2>r. Return(p) => GoEarned'
      BY <2>1, ReturnEarned
    <2>n. Goto(p, "notify") => GoEarned'
      BY <2>0, <2>1, GotoEarned
    <2>u. ASSUME NEW r, CausedNext(go[p].video, r), Update(go[p].video, r)
          PROVE  TableCaused'
      BY <2>0, <2>1, <2>u, UpdateCaused
    <2>2. CASE ConfirmUpdate(p) \/ RetryUpdate(p)
      <3>1. go[p].video \in confirmed /\ jobs' = jobs
        BY <2>2, <2>e DEF ConfirmUpdate, RetryUpdate, Earned, workerVars
      <3>2. CausedNext(go[p].video, [go[p].v EXCEPT !.status = "processing"])
        BY <3>1, <2>0, <2>1, <2>e, RowUpdates DEF CausedNext
      <3>3. Goto(p, "publishJob") => GoEarned'
        BY <3>1, <2>0, <2>1, GotoEarned
      <3> QED
        BY <2>2, <2>1, <3>1, <3>2, <3>3, <2>f, <2>r, <2>u, <1>k, <1>i
           DEF ConfirmUpdate, RetryUpdate
    <2>3. CASE PublishTranscodeJob(p)
      <3>1. jobs' \subseteq confirmed'
        BY <2>3, <2>1, <2>e, <1>c DEF PublishTranscodeJob, Earned
      <3>2. \A c \in callbacks' : Reported(c)'
        BY <2>1, <1>c, CauseGrows
      <3> QED
        BY <2>3, <2>1, <3>1, <3>2, <2>r, SameTableCaused, <1>i DEF PublishTranscodeJob
    <2>4. CASE PublishUpdate(p)
      <3>1. CausedNext(go[p].video, [go[p].v EXCEPT !.public = TRUE])
        BY <2>0, <2>e, RowUpdates DEF CausedNext
      <3> QED
        BY <2>4, <2>1, <3>1, <2>f, <2>r, <2>n, <2>u, <1>k, <1>i DEF PublishUpdate, workerVars
    <2>5. CASE EditUpdate(p) \/ ThumbnailUpdate(p) \/ BanUpdate(p)
      <3>1. \A b \in BOOLEAN : CausedNext(go[p].video, [go[p].v EXCEPT !.public = b])
        BY <2>0, <2>e, RowUpdates DEF CausedNext
      <3>2. TableCaused'
        BY <2>5, <3>1, <2>e, <2>f, <2>u DEF EditUpdate, ThumbnailUpdate, BanUpdate
      <3> QED
        BY <2>5, <2>1, <3>2, <2>r, <1>k, <1>i DEF EditUpdate, ThumbnailUpdate, BanUpdate, workerVars
    <2>6. CASE CallbackComplete(p)
      <3>1. go[p].url /\ go[p].video \in produced /\ go[p].video \in confirmed
        BY <2>6, <2>e DEF CallbackComplete, Earned
      <3>2. CausedNext(go[p].video, Completed(go[p].v, go[p].url))
        BY <3>1, <2>0, <2>1, <2>e, CompletedRow DEF CausedNext
      <3> QED
        BY <2>6, <2>1, <3>2, <2>f, <2>r, <2>n, <2>u, <1>k, <1>i
           DEF CallbackComplete, workerVars
    <2>7. CASE CallbackFailed(p)
      <3>1. go[p].video \in failures' /\ go[p].video \in confirmed'
        BY <2>7, <2>e DEF CallbackFailed, EarnedNext
      <3>2. CausedNext(go[p].video, [go[p].v EXCEPT !.status = "failed"])
        BY <3>1, <2>0, <2>e, RowUpdates DEF CausedNext
      <3> QED
        BY <2>7, <2>1, <3>2, <2>f, <2>r, <2>u, <1>k, <1>i DEF CallbackFailed, workerVars
    <2>8. CASE NotifyFollowers(p)
      BY <2>8, <2>1, <2>r, SameTableCaused, <1>k, <1>i DEF NotifyFollowers, workerVars
    <2> QED
      BY <1>7, <2>2, <2>3, <2>4, <2>5, <2>6, <2>7, <2>8 DEF RequestStep
  <1>8. CASE LoseCallback
    <2>1. /\ Grows /\ go' = go /\ table' = table
          /\ jobs' = jobs /\ callbacks' \subseteq callbacks
      BY <1>8 DEF LoseCallback, Grows
    <2> QED
      BY <2>1, SameTableCaused, SameGoEarned, <1>k, <1>i
  <1>9. CASE Restart
    <2>1. Grows /\ table' = table /\ jobs' = jobs /\ callbacks' = callbacks
      BY <1>9 DEF Restart, workerVars, Grows
    <2>2. GoEarned'
      BY <1>9 DEF Restart, GoEarned, Earned, Idle
    <2> QED
      BY <2>1, <2>2, SameTableCaused, <1>k, <1>i
  <1>10. CASE UNCHANGED vars
    <2>1. /\ Grows /\ go' = go /\ table' = table
          /\ jobs' = jobs /\ callbacks' = callbacks
      BY <1>10 DEF vars, workerVars, Grows
    <2> QED
      BY <2>1, SameTableCaused, SameGoEarned, <1>k, <1>i
  <1> QED
    BY <1>1, <1>2, <1>3, <1>4, <1>5, <1>6, <1>7, <1>8, <1>9, <1>10 DEF Next, Request

(* Whatever stale copies the handlers write back, a video is only complete *)
(* with a playlist the worker wrote, and only failed, processing or        *)
(* complete after the upload was confirmed and the worker said so.         *)
THEOREM CauseSafe == Spec => []StatusHasCause
  BY TypeInit, TypeStep, CauseInit, CauseStep, CauseInvImplies, PTL DEF Spec

-----------------------------------------------------------------------------
(* How a step changes the table.                                           *)

LEMMA RowsComeFromStore ==
    ASSUME TypeOK, [Next]_vars, NEW v \in issued, ~Exists(v)
    PROVE  ~Exists(v)'
  <1>0. v \in Videos
    BY DEF TypeOK
  <1>1. CASE UNCHANGED table
    BY <1>1 DEF Exists
  <1>2. ASSUME NEW w \in Videos, NEW r \in Row, Store(w, r)
        PROVE  ~Exists(v)'
    BY <1>0, <1>2 DEF Store, Exists, TypeOK
  <1>3. ASSUME NEW w \in Videos, NEW r, Update(w, r)
        PROVE  ~Exists(v)'
    BY <1>0, <1>3 DEF Update, Exists, TypeOK
  <1>4. ASSUME NEW w \in Videos, CreateUpload(w)
        PROVE  ~Exists(v)'
    BY <1>4, <1>2, NewRow DEF CreateUpload
  <1>5. ASSUME NEW w \in Videos, DeleteVideo(w)
        PROVE  ~Exists(v)'
    BY <1>0, <1>5 DEF DeleteVideo, Exists, TypeOK, NoRow
  <1>6. ASSUME NEW p \in Procs, NEW w \in Videos, StoreReplay(p, w)
        PROVE  ~Exists(v)'
    BY <1>6, <1>2, ReplayRow DEF StoreReplay
  <1>7. ASSUME NEW p \in Procs, RequestStep(p)
        PROVE  ~Exists(v)'
    <2>1. go[p].video \in Videos
      BY <1>7, Running DEF RequestStep, ConfirmUpdate, PublishTranscodeJob, RetryUpdate,
         PublishUpdate, EditUpdate, ThumbnailUpdate, BanUpdate, CallbackComplete, CallbackFailed,
         NotifyFollowers
    <2>2. (\E r : Update(go[p].video, r)) \/ UNCHANGED table
      <3>1. CASE ConfirmUpdate(p) \/ RetryUpdate(p)
        BY <3>1 DEF ConfirmUpdate, RetryUpdate, UpdateFails
      <3>2. CASE PublishUpdate(p)
        BY <3>2 DEF PublishUpdate, UpdateFails
      <3>3. CASE EditUpdate(p) \/ ThumbnailUpdate(p) \/ BanUpdate(p)
        BY <3>3 DEF EditUpdate, ThumbnailUpdate, BanUpdate, UpdateFails
      <3>4. CASE CallbackComplete(p)
        BY <3>4 DEF CallbackComplete, UpdateFails
      <3>5. CASE CallbackFailed(p)
        BY <3>5 DEF CallbackFailed, UpdateFails
      <3>6. CASE PublishTranscodeJob(p) \/ NotifyFollowers(p)
        BY <3>6 DEF PublishTranscodeJob, NotifyFollowers
      <3> QED
        BY <1>7, <3>1, <3>2, <3>3, <3>4, <3>5, <3>6 DEF RequestStep
    <2> QED
      BY <2>1, <2>2, <1>1, <1>3
  <1>8. CASE \/ \E w \in Videos : Transcode(w)
             \/ \E p \in Procs : HandleTranscodeCallback(p)
             \/ LoseCallback \/ Restart \/ UNCHANGED vars
    BY <1>8, <1>1 DEF Transcode, HandleTranscodeCallback, LoseCallback, Restart, vars
  <1>9. ASSUME NEW p \in Procs, NEW w \in Videos,
               ConfirmUpload(p, w) \/ RetryTranscode(p, w) \/ PublishVideo(p, w)
                 \/ UpdateVideo(p, w) \/ UpdateThumbnail(p, w) \/ BanVideo(p, w)
        PROVE  ~Exists(v)'
    BY <1>9, <1>1 DEF ConfirmUpload, RetryTranscode, PublishVideo, UpdateVideo,
       UpdateThumbnail, BanVideo
  <1> QED
    BY <1>4, <1>5, <1>6, <1>7, <1>8, <1>9 DEF Next, Request

(* A row that is gone never comes back: no handler that read it earlier    *)
(* can insert it again.                                                    *)
THEOREM DeletedSafe == Spec => DeletedStaysDeleted
  <1>1. TypeOK /\ [Next]_vars => [\A v \in issued : ~Exists(v) => ~Exists(v)']_vars
    BY RowsComeFromStore
  <1> QED
    BY <1>1, TypeCorrect, PTL DEF Spec, DeletedStaysDeleted

-----------------------------------------------------------------------------
(* Only videos that have been public are announced. A handler decides by   *)
(* its copy, so the copies must not be public before the video was.        *)

Shown(g) == g.pc # "idle" /\ g.v.public => g.video \in everPublic

PublicInv ==
    /\ \A v \in Videos : table[v].public => v \in everPublic
    /\ \A p \in Procs : Shown(go[p])
    /\ AnnouncedWasPublic

(* What becomes of everPublic and the table when a row is written.         *)
TablePublic == \A v \in Videos : table[v].public => v \in everPublic
OnceShown == everPublic \subseteq everPublic'

LEMMA WritePublic ==
    ASSUME TypeOK, PublicInv, NEW v \in Videos, NEW r,
           table' = [table EXCEPT ![v] = r] \/ table' = table, PublicNow(v)
    PROVE  TablePublic' /\ OnceShown
  <1>1. OnceShown /\ (table'[v].public => v \in everPublic')
    BY DEF PublicNow, OnceShown
  <1>2. \A w \in Videos : w # v => table'[w] = table[w]
    BY DEF TypeOK
  <1> QED
    BY <1>1, <1>2 DEF TablePublic, OnceShown, PublicInv

LEMMA UpdatePublic ==
    ASSUME TypeOK, PublicInv, NEW v \in Videos, NEW r, Update(v, r)
    PROVE  TablePublic' /\ OnceShown
  BY WritePublic DEF Update

LEMMA SamePublic ==
    ASSUME PublicInv, UNCHANGED <<table, everPublic>>
    PROVE  TablePublic' /\ OnceShown
  BY DEF PublicInv, TablePublic, OnceShown

(* Goroutines in the next state: p's new copy is shown, if it is public;   *)
(* and if p is about to notify, the video was public or is gone.           *)
GoShown == \A p \in Procs : Shown(go[p])
GoNotifies == \A p \in Procs : go[p].pc = "notify" => WasPublic(go[p].video)

LEMMA RunShown ==
    ASSUME TypeOK, PublicInv, [Next]_vars, OnceShown, NEW p \in Procs, NEW r, Run(p, r),
           r.pc # "idle" /\ r.v.public => r.video \in everPublic',
           r.pc = "notify" => r.video \in everPublic' \/ table'[r.video].status = "none"
    PROVE  GoShown' /\ GoNotifies'
  <1>1. ASSUME NEW q \in Procs
        PROVE  Shown(go[q])' /\ (go'[q].pc = "notify" => WasPublic(go[q].video)')
    <2>1. CASE q = p
      <3>1. go'[q] = r
        BY <2>1 DEF Run, TypeOK
      <3> QED
        BY <3>1 DEF Shown, WasPublic, Exists
    <2>2. CASE q # p
      <3>1. go'[q] = go[q]
        BY <2>2 DEF Run, TypeOK
      <3>2. go[q].pc = "notify" => WasPublic(go[q].video) /\ go[q].video \in issued
        BY DEF PublicInv, AnnouncedWasPublic, TypeOK
      <3>3. ASSUME go[q].pc = "notify"
            PROVE  go[q].video \in everPublic' \/ table'[go[q].video].status = "none"
        BY <3>2, <3>3, RowsComeFromStore DEF WasPublic, OnceShown, Exists
      <3>4. Shown(go[q])
        BY DEF PublicInv
      <3> QED
        BY <3>1, <3>3, <3>4 DEF Shown, WasPublic, Exists, OnceShown
    <2> QED
      BY <2>1, <2>2
  <1> QED
    BY <1>1 DEF GoShown, GoNotifies

LEMMA SameShown ==
    ASSUME TypeOK, PublicInv, [Next]_vars, OnceShown, go' = go
    PROVE  GoShown' /\ GoNotifies'
  <1>1. ASSUME NEW q \in Procs
        PROVE  Shown(go[q])' /\ (go'[q].pc = "notify" => WasPublic(go[q].video)')
    <2>2. go[q].pc = "notify" => WasPublic(go[q].video) /\ go[q].video \in issued
      BY DEF PublicInv, AnnouncedWasPublic, TypeOK
    <2>3. ASSUME go[q].pc = "notify"
          PROVE  go[q].video \in everPublic' \/ table'[go[q].video].status = "none"
      BY <2>2, <2>3, RowsComeFromStore DEF WasPublic, OnceShown, Exists
    <2>4. Shown(go[q])
      BY DEF PublicInv
    <2> QED
      BY <2>3, <2>4 DEF Shown, WasPublic, Exists, OnceShown
  <1> QED
    BY <1>1 DEF GoShown, GoNotifies

LEMMA ReturnShown ==
    ASSUME TypeOK, PublicInv, [Next]_vars, OnceShown, NEW p \in Procs, Return(p)
    PROVE  GoShown' /\ GoNotifies'
  <1>1. Idle.pc = "idle"
    BY DEF Idle
  <1> QED
    BY <1>1, RunShown DEF Return

LEMMA GotoShown ==
    ASSUME TypeOK, PublicInv, [Next]_vars, OnceShown, NEW p \in Procs, go[p].pc # "idle",
           NEW pc, Goto(p, pc),
           pc = "notify" => go[p].video \in everPublic' \/ table'[go[p].video].status = "none"
    PROVE  GoShown' /\ GoNotifies'
  <1>1. LET r == [go[p] EXCEPT !.pc = pc] IN
        r.pc = pc /\ r.video = go[p].video /\ r.v = go[p].v
    BY DEF TypeOK, Goroutine
  <1>2. go[p].v.public => go[p].video \in everPublic'
    BY DEF PublicInv, Shown, OnceShown
  <1> QED
    BY <1>1, <1>2, RunShown DEF Goto

LEMMA GetShown ==
    ASSUME TypeOK, PublicInv, [Next]_vars, OnceShown, NEW p \in Procs, NEW v \in Videos,
           NEW pc, NEW url, pc # "notify", Get(p, v, pc, url)
    PROVE  GoShown' /\ GoNotifies'
  <1>1. table[v].public => v \in everPublic'
    BY DEF PublicInv, OnceShown
  <1> QED
    BY <1>1, RunShown DEF Get

(* Announcements survive every step: everPublic grows, and a video that is *)
(* gone stays so.                                                          *)
AllAnnounced == \A v \in announced : WasPublic(v)

LEMMA SameAnnounced ==
    ASSUME TypeOK, PublicInv, [Next]_vars, OnceShown, announced' = announced
    PROVE  AllAnnounced'
  <1> SUFFICES ASSUME NEW v \in announced
               PROVE  WasPublic(v)'
    BY DEF AllAnnounced
  <1>1. WasPublic(v) /\ v \in issued
    BY DEF PublicInv, AnnouncedWasPublic, TypeOK
  <1> QED
    BY <1>1, RowsComeFromStore DEF WasPublic, OnceShown

LEMMA PublicInit == Init => PublicInv
  BY DEF Init, PublicInv, AnnouncedWasPublic, Shown, Idle, NoRow

LEMMA PublicStep == TypeOK /\ PublicInv /\ [Next]_vars => PublicInv'
  <1> SUFFICES ASSUME TypeOK, PublicInv, [Next]_vars
               PROVE  PublicInv'
    OBVIOUS
  <1>i. TablePublic' /\ GoShown' /\ GoNotifies' /\ AllAnnounced' => PublicInv'
    BY DEF PublicInv, AnnouncedWasPublic, TablePublic, GoShown, GoNotifies, AllAnnounced
  <1>1. ASSUME NEW v \in Videos, CreateUpload(v)
        PROVE  PublicInv'
    <2>1. TablePublic' /\ OnceShown
      BY <1>1, WritePublic DEF CreateUpload, Store
    <2> QED
      BY <1>1, <2>1, SameShown, SameAnnounced, <1>i DEF CreateUpload
  <1>2. ASSUME NEW v \in Videos, DeleteVideo(v)
        PROVE  PublicInv'
    <2>1. TablePublic' /\ OnceShown
      BY <1>2 DEF DeleteVideo, TypeOK, NoRow, PublicInv, TablePublic, OnceShown
    <2> QED
      BY <1>2, <2>1, SameShown, SameAnnounced, <1>i DEF DeleteVideo
  <1>3. ASSUME NEW v \in Videos, Transcode(v)
        PROVE  PublicInv'
    BY <1>3, SamePublic, SameShown, SameAnnounced, <1>i DEF Transcode
  <1>4. ASSUME NEW p \in Procs, NEW v \in Videos, StoreReplay(p, v)
        PROVE  PublicInv'
    <2>1. TablePublic' /\ OnceShown
      BY <1>4, WritePublic DEF StoreReplay, Store
    <2>2. ~table'[v].public
      BY <1>4, ReplayRow DEF StoreReplay, Store, TypeOK
    <2>3. GoShown' /\ GoNotifies'
      BY <1>4, <2>1, <2>2, RunShown DEF StoreReplay
    <2> QED
      BY <1>4, <2>1, <2>3, SameAnnounced, <1>i DEF StoreReplay
  <1>5. ASSUME NEW p \in Procs, NEW v \in Videos,
               ConfirmUpload(p, v) \/ RetryTranscode(p, v) \/ PublishVideo(p, v)
                 \/ UpdateVideo(p, v) \/ UpdateThumbnail(p, v) \/ BanVideo(p, v)
        PROVE  PublicInv'
    BY <1>5, SamePublic, GetShown, SameAnnounced, <1>i
       DEF ConfirmUpload, RetryTranscode, PublishVideo, UpdateVideo, UpdateThumbnail, BanVideo
  <1>6. ASSUME NEW p \in Procs, HandleTranscodeCallback(p)
        PROVE  PublicInv'
    <2>1. PICK c \in callbacks : Get(p, c.video, c.status, c.url)
      BY <1>6 DEF HandleTranscodeCallback
    <2>2. c.video \in Videos /\ c.status # "notify"
      BY DEF TypeOK, Callback
    <2> QED
      BY <1>6, <2>1, <2>2, SamePublic, GetShown, SameAnnounced, <1>i
         DEF HandleTranscodeCallback
  <1>7. ASSUME NEW p \in Procs, RequestStep(p)
        PROVE  PublicInv'
    <2>0. /\ go[p].pc # "idle"
          /\ go[p].v \in Row /\ go[p].video \in Videos /\ go[p].url \in BOOLEAN
      BY <1>7, Running DEF RequestStep, ConfirmUpdate, PublishTranscodeJob, RetryUpdate,
         PublishUpdate, EditUpdate, ThumbnailUpdate, BanUpdate, CallbackComplete, CallbackFailed,
         NotifyFollowers
    <2>f. UpdateFails => TablePublic' /\ OnceShown
      BY SamePublic DEF UpdateFails
    <2>u. ASSUME NEW r, Update(go[p].video, r)
          PROVE  TablePublic' /\ OnceShown
      BY <2>0, <2>u, UpdatePublic
    <2>1. CASE ConfirmUpdate(p) \/ RetryUpdate(p)
      <3>1. TablePublic' /\ OnceShown
        BY <2>1, <2>f, <2>u DEF ConfirmUpdate, RetryUpdate
      <3>2. GoShown' /\ GoNotifies'
        BY <2>1, <2>0, <3>1, ReturnShown, GotoShown DEF ConfirmUpdate, RetryUpdate
      <3> QED
        BY <2>1, <3>1, <3>2, SameAnnounced, <1>i DEF ConfirmUpdate, RetryUpdate
    <2>2. CASE PublishTranscodeJob(p)
      BY <2>2, SamePublic, ReturnShown, SameAnnounced, <1>i DEF PublishTranscodeJob
    <2>3. CASE PublishUpdate(p)
      <3> DEFINE r == [go[p].v EXCEPT !.public = TRUE]
      <3>1. TablePublic' /\ OnceShown
        BY <2>3, <2>f, <2>u DEF PublishUpdate
      <3>2. r.public
        BY <2>0, RowUpdates
      <3>3. ASSUME Update(go[p].video, r)
            PROVE  go[p].video \in everPublic' \/ table'[go[p].video].status = "none"
        <4>1. CASE Exists(go[p].video)
          <5>1. table'[go[p].video] = r
            BY <3>3, <4>1, <2>0 DEF Update, TypeOK
          <5> QED
            BY <3>2, <5>1, <2>0, <3>1 DEF TablePublic
        <4>2. CASE ~Exists(go[p].video)
          BY <3>3, <4>2 DEF Update, Exists
        <4> QED
          BY <4>1, <4>2
      <3>4. GoShown' /\ GoNotifies'
        BY <2>3, <2>0, <3>1, <3>3, ReturnShown, GotoShown DEF PublishUpdate
      <3> QED
        BY <2>3, <3>1, <3>4, SameAnnounced, <1>i DEF PublishUpdate
    <2>4. CASE EditUpdate(p) \/ ThumbnailUpdate(p) \/ BanUpdate(p) \/ CallbackFailed(p)
      <3>1. TablePublic' /\ OnceShown
        BY <2>4, <2>f, <2>u DEF EditUpdate, ThumbnailUpdate, BanUpdate, CallbackFailed
      <3> QED
        BY <2>4, <3>1, ReturnShown, SameAnnounced, <1>i
           DEF EditUpdate, ThumbnailUpdate, BanUpdate, CallbackFailed
    <2>5. CASE CallbackComplete(p)
      <3>1. TablePublic' /\ OnceShown
        BY <2>5, <2>f, <2>u DEF CallbackComplete
      <3>2. go[p].v.public => go[p].video \in everPublic'
        BY <2>0, <3>1 DEF PublicInv, Shown, OnceShown
      <3>3. GoShown' /\ GoNotifies'
        BY <2>5, <2>0, <3>1, <3>2, ReturnShown, GotoShown DEF CallbackComplete
      <3> QED
        BY <2>5, <3>1, <3>3, SameAnnounced, <1>i DEF CallbackComplete
    <2>6. CASE NotifyFollowers(p)
      <3>1. TablePublic' /\ OnceShown /\ UNCHANGED <<table, everPublic>>
        BY <2>6, SamePublic DEF NotifyFollowers
      <3>2. WasPublic(go[p].video)
        BY <2>6 DEF NotifyFollowers, PublicInv, AnnouncedWasPublic
      <3>3. AllAnnounced'
        BY <2>6, <3>1, <3>2
           DEF NotifyFollowers, AllAnnounced, PublicInv, AnnouncedWasPublic, WasPublic, Exists
      <3> QED
        BY <2>6, <3>1, <3>3, ReturnShown, <1>i DEF NotifyFollowers
    <2> QED
      BY <1>7, <2>1, <2>2, <2>3, <2>4, <2>5, <2>6 DEF RequestStep
  <1>8. CASE LoseCallback
    BY <1>8, SamePublic, SameShown, SameAnnounced, <1>i DEF LoseCallback
  <1>9. CASE Restart
    <2>1. GoShown' /\ GoNotifies'
      BY <1>9 DEF Restart, GoShown, GoNotifies, Shown, Idle
    <2> QED
      BY <1>9, <2>1, SamePublic, SameAnnounced, <1>i DEF Restart
  <1>10. CASE UNCHANGED vars
    BY <1>10, SamePublic, SameShown, SameAnnounced, <1>i DEF vars
  <1> QED
    BY <1>1, <1>2, <1>3, <1>4, <1>5, <1>6, <1>7, <1>8, <1>9, <1>10 DEF Next, Request

(* No private draft or replay is ever announced to followers, whatever     *)
(* edits, callbacks and failures run at the same time.                     *)
THEOREM AnnouncedSafe == Spec => []AnnouncedWasPublic
  <1>1. PublicInv => AnnouncedWasPublic
    BY DEF PublicInv
  <1> QED
    BY <1>1, TypeInit, TypeStep, PublicInit, PublicStep, PTL DEF Spec
=============================================================================
