--------------------------- MODULE LivestreamProofs ---------------------------
(* Proofs about Livestream for every set of users, keys, goroutines and      *)
(* timers: type correctness, the consistency of the rows and of all their    *)
(* copies, the order of the replay pipeline, and the timer of every grace    *)
(* window.                                                                   *)
EXTENDS Livestream, TLAPS

(* What the steps of a goroutine make of its record and of its row.          *)
LEMMA PCs ==
    /\ {"idle", "store", "reset", "info", "ban", "authGet", "authUpdate", "notify"}
          \subseteq PC \ HasVideo
    /\ {"unpubInstall", "dvrGet", "finLock", "finGet", "finUpdate", "stat"}
          \subseteq PC \ HasVideo
    /\ HasVideo \subseteq PC
BY DEF PC, HasVideo

LEMMA RowRecords ==
    /\ NoRow \in Row
    /\ \A ls \in Row : WentLive(ls) \in Row /\ WentOffline(ls) \in Row
    /\ \A ls \in Row, k \in Keys \cup {NoKey} : [ls EXCEPT !.key = k] \in Row
    /\ \A ls \in Row : [ls EXCEPT !.live = FALSE] \in Row
BY DEF NoRow, Row, WentLive, WentOffline

LEMMA IdleType == Idle \in Goroutine
BY PCs, RowRecords DEF Goroutine, Idle

LEMMA GoroutineEdits ==
    ASSUME NEW r \in Goroutine, NEW pc \in PC, pc \notin HasVideo
    PROVE  /\ pc # "finLock" => [r EXCEPT !.pc = pc] \in Goroutine
           /\ \A u \in Users, ls \in Row : pc # "finLock" =>
                 [r EXCEPT !.user = u, !.ls = ls, !.pc = pc] \in Goroutine
           /\ \A u \in Users, k \in Keys \cup {NoKey}, ls \in Row : pc # "finLock" =>
                 [r EXCEPT !.pc = pc, !.user = u, !.key = k, !.ls = ls] \in Goroutine
           /\ \A k \in Keys : [r EXCEPT !.pc = pc, !.key = k] \in Goroutine
           /\ \A k \in Keys, t \in Timers :
                 [r EXCEPT !.pc = pc, !.key = k, !.timer = t] \in Goroutine
           /\ \A k \in Keys, b \in BOOLEAN :
                 [r EXCEPT !.pc = pc, !.key = k, !.late = b] \in Goroutine
           /\ \A b \in BOOLEAN : pc # "finLock" => [r EXCEPT !.pc = pc, !.dvr = b] \in Goroutine
BY DEF Goroutine

LEMMA ReplayEdits ==
    ASSUME NEW r \in Goroutine, NEW pc \in HasVideo
    PROVE  /\ r.pc \in HasVideo => [r EXCEPT !.pc = pc] \in Goroutine
           /\ \A v \in Videos : [r EXCEPT !.pc = pc, !.video = v] \in Goroutine
BY PCs DEF Goroutine, HasVideo

(* A step of a request leaves the goroutines of the timers alone.            *)
LEMMA RunType ==
    ASSUME TypeOK, NEW g, NEW r \in Goroutine, Run(g, r)
    PROVE  /\ go' \in [Goroutines -> Goroutine]
           /\ \A h \in Goroutines : h # g => go'[h] = go[h]
           /\ g \in Goroutines => go'[g] = r
           /\ g \in Procs => \A t \in Timers : go'[t] = go[t]
BY LivestreamAssumption DEF TypeOK, GoTypeOK, Run, Goroutines

LEMMA ReturnType ==
    ASSUME TypeOK, NEW g, Return(g)
    PROVE  /\ go' \in [Goroutines -> Goroutine]
           /\ \A h \in Goroutines : h # g => go'[h] = go[h]
           /\ g \in Goroutines => go'[g] = Idle
           /\ g \in Procs => \A t \in Timers : go'[t] = go[t]
BY RunType, IdleType DEF Return

LEMMA GotoType ==
    ASSUME TypeOK, NEW g \in Goroutines, NEW pc \in PC \ {"finLock"}, Goto(g, pc),
           pc \notin HasVideo \/ go[g].pc \in HasVideo
    PROVE  /\ go' \in [Goroutines -> Goroutine]
           /\ \A h \in Goroutines : h # g => go'[h] = go[h]
           /\ go'[g] = [go[g] EXCEPT !.pc = pc]
           /\ g \in Procs => \A t \in Timers : go'[t] = go[t]
<1>1. go[g] \in Goroutine
  BY DEF TypeOK, GoTypeOK
<1>2. [go[g] EXCEPT !.pc = pc] \in Goroutine
  BY <1>1, GoroutineEdits, ReplayEdits
<1>3. QED
  BY <1>2, RunType DEF Goto

LEMMA FetchType ==
    ASSUME TypeOK, NEW g \in Goroutines, NEW u \in Users, NEW pc \in PC \ HasVideo, pc # "finLock",
           Fetch(g, u, pc)
    PROVE  /\ go' \in [Goroutines -> Goroutine]
           /\ \A h \in Goroutines : h # g => go'[h] = go[h]
           /\ go'[g] = [go[g] EXCEPT !.user = u, !.ls = row[u], !.pc = pc]
           /\ g \in Procs => \A t \in Timers : go'[t] = go[t]
<1>1. go[g] \in Goroutine /\ row[u] \in Row
  BY DEF TypeOK, GoTypeOK
<1>2. [go[g] EXCEPT !.user = u, !.ls = row[u], !.pc = pc] \in Goroutine
  BY <1>1, GoroutineEdits
<1>3. QED
  BY <1>2, RunType DEF Fetch

LEMMA TryUpdateType ==
    ASSUME TypeOK, NEW u, NEW ls \in Row, TryUpdate(u, ls)
    PROVE  row' \in [Users -> Row]
BY DEF TypeOK, TryUpdate, Update

(* A step of a request that touches no timer preserves them.                 *)
LEMMA RequestKeepsTimers ==
    ASSUME TypeOK, NEW p \in Procs, NEW r \in Goroutine, Run(p, r), UNCHANGED <<timer, armed>>
    PROVE  GoTypeOK'
BY RunType DEF TypeOK, GoTypeOK

LEMMA RequestType ==
    ASSUME TypeOK, NEW p \in Procs, Request(p)
    PROVE  TypeOK'
<1> USE DEF graceVars, srsVars, dvrVars
<1>1. ASSUME NEW u \in Users, NEW k \in Keys \cup {NoKey}, NEW pc \in PC \ HasVideo, pc # "finLock",
             ReadOwnRow(p, u, pc, k), issued' \subseteq Keys
      PROVE TypeOK'
  <2>1. row[u] \in Row
    BY DEF TypeOK
  <2>2. [Idle EXCEPT !.pc = pc, !.user = u, !.key = k, !.ls = row[u]] \in Goroutine
    BY <1>1, <2>1, IdleType, GoroutineEdits
  <2>3. GoTypeOK'
    BY <1>1, <2>2, RequestKeepsTimers DEF ReadOwnRow
  <2>4. QED
    BY <1>1, <2>3 DEF ReadOwnRow, TypeOK, GoTypeOK
<1>2. ASSUME NEW u \in Users, NEW k \in Keys, GetStreamKey(p, u, k) \/ ResetStreamKey(p, u, k)
      PROVE TypeOK'
  <2>1. issued' \subseteq Keys
    BY <1>2 DEF GetStreamKey, ResetStreamKey, NewKey, TypeOK
  <2>2. QED
    BY <1>1, <1>2, <2>1, PCs DEF GetStreamKey, ResetStreamKey
<1>3. ASSUME NEW u \in Users, UpdateStreamInfo(p, u) \/ BanStream(p, u)
      PROVE TypeOK'
  BY <1>1, <1>3, PCs DEF UpdateStreamInfo, BanStream, TypeOK
<1>4. ASSUME NEW k \in Keys, AuthenticateStreamKey(p, k)
      PROVE TypeOK'
  <2>1. [Idle EXCEPT !.pc = "authGet", !.key = k] \in Goroutine
    BY IdleType, GoroutineEdits, PCs
  <2>2. GoTypeOK'
    BY <1>4, <2>1, RequestKeepsTimers DEF AuthenticateStreamKey
  <2>3. QED
    BY <1>4, <2>2 DEF AuthenticateStreamKey, TypeOK, GoTypeOK
<1>5. ASSUME NEW t \in Timers, UnpublishStream(p, t)
      PROVE TypeOK'
  <2>1. PICK h \in hooks :
          /\ hooks' = hooks \ {h}
          /\ \/ /\ timer' = [timer EXCEPT ![t] = h.key]
                /\ armed' = armed \cup {t}
                /\ Run(p, [Idle EXCEPT !.pc = "unpubInstall", !.key = h.key, !.timer = t])
             \/ UNCHANGED <<go, timer, armed>>
    BY <1>5 DEF UnpublishStream
  <2>2. h.key \in Keys
    BY DEF TypeOK, Hook
  <2>3. [Idle EXCEPT !.pc = "unpubInstall", !.key = h.key, !.timer = t] \in Goroutine
    BY <2>2, IdleType, GoroutineEdits, PCs
  <2>4. go' \in [Goroutines -> Goroutine] /\ \A s \in Timers : go'[s] = go[s]
    BY <2>1, <2>3, RunType DEF TypeOK, GoTypeOK
  <2>5. go[t].pc = "idle"
    BY <1>5 DEF UnpublishStream, FreeTimer
  <2>6. timer' \in [Timers -> Keys \cup {NoKey}] /\ armed' \subseteq Timers
        /\ \A s \in armed' : timer'[s] \in Keys /\ go'[s].pc = "idle"
    BY <2>1, <2>2, <2>4, <2>5 DEF TypeOK, GoTypeOK
  <2>7. QED
    BY <1>5, <2>1, <2>4, <2>6 DEF UnpublishStream, TypeOK, GoTypeOK
<1>6. ASSUME HandleDVRComplete(p)
      PROVE TypeOK'
  <2>1. PICK h \in hooks :
          /\ hooks' = hooks \ {h}
          /\ \/ dvrPath' = [dvrPath EXCEPT ![h.key] = TRUE] /\ UNCHANGED go
             \/ /\ Run(p, [Idle EXCEPT !.pc = "dvrGet", !.key = h.key, !.late = h.late])
                /\ UNCHANGED dvrPath
    BY <1>6 DEF HandleDVRComplete
  <2>2. h.key \in Keys /\ h.late \in BOOLEAN
    BY DEF TypeOK, Hook
  <2>3. [Idle EXCEPT !.pc = "dvrGet", !.key = h.key, !.late = h.late] \in Goroutine
    BY <2>2, IdleType, GoroutineEdits, PCs
  <2>4. go' \in [Goroutines -> Goroutine] /\ \A s \in Timers : go'[s] = go[s]
    BY <2>1, <2>3, RunType DEF TypeOK, GoTypeOK
  <2>5. dvrPath' \in [Keys -> BOOLEAN]
    BY <2>1, <2>2 DEF TypeOK
  <2>6. QED
    BY <1>6, <2>1, <2>4, <2>5 DEF HandleDVRComplete, TypeOK, GoTypeOK
<1>7. QED
  BY <1>2, <1>3, <1>4, <1>5, <1>6 DEF Request

(* EndDVR and EndFinalize return and, on a timer's goroutine, free the timer. *)
LEMMA EndDVRType ==
    ASSUME TypeOK, NEW g \in Goroutines, go[g].pc # "idle", EndDVR(g), UNCHANGED armed
    PROVE  GoTypeOK'
<1>1. Return(g)
  BY DEF EndDVR, EndFinalize
<1>2. /\ go' \in [Goroutines -> Goroutine]
      /\ \A h \in Goroutines : h # g => go'[h] = go[h]
  BY <1>1, ReturnType
<1>3. g \notin armed
  BY DEF TypeOK, GoTypeOK
<1>4. \/ timer' = timer
      \/ timer' = [timer EXCEPT ![g] = NoKey]
  BY DEF EndDVR, EndFinalize
<1>5. QED
  BY <1>2, <1>3, <1>4 DEF TypeOK, GoTypeOK, Goroutines

LEMMA EndFinalizeType ==
    ASSUME TypeOK, NEW t \in Timers, go[t].pc # "idle", EndFinalize(t), UNCHANGED armed
    PROVE  GoTypeOK'
<1>1. EndDVR(t) /\ t \in Goroutines
  BY DEF EndDVR, Goroutines
<1>2. QED
  BY <1>1, EndDVRType

(* A goroutine that runs moves on without touching a timer.                  *)
LEMMA RunningType ==
    ASSUME TypeOK, NEW g \in Goroutines, go[g].pc # "idle", NEW r \in Goroutine, Run(g, r),
           UNCHANGED <<timer, armed>>
    PROVE  GoTypeOK'
BY RunType DEF TypeOK, GoTypeOK, Goroutines

LEMMA GoingType ==
    ASSUME TypeOK, NEW g \in Goroutines, go[g].pc # "idle", NEW pc \in PC \ {"finLock"}, Goto(g, pc),
           UNCHANGED <<timer, armed>>, pc \notin HasVideo \/ go[g].pc \in HasVideo
    PROVE  GoTypeOK'
<1>1. go[g] \in Goroutine
  BY DEF TypeOK, GoTypeOK
<1>2. QED
  BY <1>1, GoroutineEdits, ReplayEdits, RunningType DEF Goto

LEMMA ProcessDVRType ==
    ASSUME TypeOK, NEW g \in Goroutines, ProcessDVR(g)
    PROVE  TypeOK'
<1> USE DEF graceVars, srsVars, dvrVars
<1>0. go[g] \in Goroutine /\ (go[g].pc \in HasVideo => go[g].video \in Videos)
  BY DEF TypeOK, GoTypeOK, Goroutine
<1>1. CASE DVRStat(g)
  <2>1. GoTypeOK'
    <3>1. CASE EndDVR(g)
      BY <1>1, <3>1, EndDVRType DEF DVRStat
    <3>2. CASE ~EndDVR(g)
      <4>1. PICK v \in Videos : Run(g, [go[g] EXCEPT !.pc = "upload", !.video = v])
        BY <1>1, <3>2 DEF DVRStat
      <4>2. [go[g] EXCEPT !.pc = "upload", !.video = v] \in Goroutine
        BY <1>0, ReplayEdits, PCs DEF HasVideo
      <4>3. QED
        BY <1>1, <3>2, <4>1, <4>2, RunningType DEF DVRStat
    <3>3. QED
      BY <3>1, <3>2
  <2>2. QED
    BY <1>1, <2>1 DEF DVRStat, TypeOK
<1>2. CASE DVRUpload(g)
  <2>1. GoTypeOK'
    BY <1>2, GoingType, EndDVRType, PCs DEF DVRUpload, HasVideo
  <2>2. objects' \subseteq Videos
    BY <1>0, <1>2 DEF DVRUpload, TypeOK, HasVideo
  <2>3. QED
    BY <1>2, <2>1, <2>2 DEF DVRUpload, TypeOK
<1>3. CASE DVRRemove(g)
  <2>1. GoTypeOK'
    BY <1>3, GoingType, PCs DEF DVRRemove, HasVideo
  <2>2. QED
    BY <1>3, <2>1 DEF DVRRemove, TypeOK
<1>4. CASE DVRInsert(g)
  <2>1. GoTypeOK'
    BY <1>4, GoingType, EndDVRType, PCs DEF DVRInsert, HasVideo
  <2>2. stored' \subseteq Videos
    BY <1>0, <1>4 DEF DVRInsert, TypeOK, HasVideo
  <2>3. QED
    BY <1>4, <2>1, <2>2 DEF DVRInsert, TypeOK
<1>5. CASE DVRPublish(g)
  <2>1. GoTypeOK'
    BY <1>5, EndDVRType DEF DVRPublish
  <2>2. jobs' \subseteq Videos
    BY <1>0, <1>5 DEF DVRPublish, TypeOK, HasVideo
  <2>3. QED
    BY <1>5, <2>1, <2>2 DEF DVRPublish, TypeOK
<1>6. QED
  BY <1>1, <1>2, <1>3, <1>4, <1>5 DEF ProcessDVR

LEMMA RequestStepType ==
    ASSUME TypeOK, NEW p \in Procs, RequestStep(p)
    PROVE  TypeOK'
<1> USE DEF graceVars, srsVars, dvrVars
<1>0. p \in Goroutines /\ p \notin Timers
  BY LivestreamAssumption DEF Goroutines
<1>1. go[p] \in Goroutine /\ go[p].ls \in Row /\ go[p].key \in Keys \cup {NoKey}
      /\ go[p].timer \in Timers \cup {NoTimer}
  BY <1>0 DEF TypeOK, GoTypeOK, Goroutine
<1>2. ASSUME Return(p), UNCHANGED <<timer, armed>>
      PROVE GoTypeOK'
  BY <1>2, IdleType, RequestKeepsTimers DEF Return
<1>3. CASE StoreLivestream(p)
  <2>1. [NoRow EXCEPT !.key = go[p].key] \in Row
    BY <1>1, RowRecords
  <2>2. row' \in [Users -> Row]
    BY <1>3, <2>1 DEF StoreLivestream, Update, TypeOK
  <2>3. QED
    BY <1>2, <1>3, <2>2 DEF StoreLivestream, TypeOK
<1>4. CASE ResetUpdate(p)
  BY <1>1, <1>2, <1>4, RowRecords, TryUpdateType DEF ResetUpdate, TypeOK
<1>5. CASE InfoUpdate(p) \/ BanUpdate(p)
  BY <1>1, <1>2, <1>5, RowRecords, TryUpdateType DEF InfoUpdate, BanUpdate, TypeOK
<1>6. CASE AuthGet(p)
  <2>1. GoTypeOK'
    <3>1. CASE Return(p)
      BY <1>2, <1>6, <3>1 DEF AuthGet
    <3>2. CASE ~Return(p)
      <4>1. PICK u \in Users : Fetch(p, u, "authUpdate")
        BY <1>6, <3>2 DEF AuthGet, GetByStreamKey
      <4>2. row[u] \in Row
        BY DEF TypeOK
      <4>3. QED
        BY <1>0, <1>1, <1>6, <4>1, <4>2, GoroutineEdits, PCs, RequestKeepsTimers
           DEF AuthGet, Fetch
    <3>3. QED
      BY <3>1, <3>2
  <2>2. QED
    BY <1>6, <2>1 DEF AuthGet, TypeOK
<1>7. CASE AuthUpdate(p)
  <2>1. row' \in [Users -> Row]
    BY <1>1, <1>7, RowRecords, TryUpdateType DEF AuthUpdate
  <2>2. GoTypeOK'
    BY <1>0, <1>7, GoingType, PCs DEF AuthUpdate
  <2>3. QED
    BY <1>7, <2>1, <2>2 DEF AuthUpdate, TypeOK
<1>8. CASE NotifyFollowers(p)
  BY <1>2, <1>8 DEF NotifyFollowers, TypeOK
<1>9. CASE InstallPending(p)
  <2>1. /\ go' \in [Goroutines -> Goroutine]
        /\ \A t \in Timers : go'[t] = go[t]
    BY <1>9, ReturnType DEF InstallPending
  <2>2. \/ UNCHANGED <<timer, armed>>
        \/ \E t : StopTimer(t)
    BY <1>9 DEF InstallPending
  <2>3. GoTypeOK'
    BY <2>1, <2>2 DEF TypeOK, GoTypeOK, StopTimer
  <2>4. pending' \in [Keys -> Timers \cup {NoTimer}] /\ dvrPath' \in [Keys -> BOOLEAN]
    BY <1>1, <1>9 DEF InstallPending, TypeOK
  <2>5. QED
    BY <1>9, <2>3, <2>4 DEF InstallPending, TypeOK
<1>10. CASE DVRGet(p)
  <2>1. GoTypeOK'
    <3>1. CASE Return(p)
      BY <1>2, <1>10, <3>1 DEF DVRGet
    <3>2. CASE ~Return(p)
      <4>1. PICK u \in Users : Fetch(p, u, "stat")
        BY <1>10, <3>2 DEF DVRGet, GetByStreamKey
      <4>2. row[u] \in Row
        BY DEF TypeOK
      <4>3. QED
        BY <1>0, <1>1, <1>10, <4>1, <4>2, GoroutineEdits, PCs, RequestKeepsTimers
           DEF DVRGet, Fetch
    <3>3. QED
      BY <3>1, <3>2
  <2>2. QED
    BY <1>10, <2>1 DEF DVRGet, TypeOK
<1>11. CASE ProcessDVR(p)
  BY <1>0, <1>11, ProcessDVRType
<1>12. QED
  BY <1>3, <1>4, <1>5, <1>6, <1>7, <1>8, <1>9, <1>10, <1>11 DEF RequestStep

LEMMA TimerStepType ==
    ASSUME TypeOK, NEW t \in Timers, TimerStep(t)
    PROVE  TypeOK'
<1> USE DEF graceVars, srsVars, dvrVars
<1>0. t \in Goroutines
  BY DEF Goroutines
<1>1. go[t] \in Goroutine /\ go[t].ls \in Row
  BY <1>0 DEF TypeOK, GoTypeOK, Goroutine
<1>2. CASE TimerFires(t)
  <2>1. timer[t] \in Keys
    BY <1>2 DEF TimerFires, TypeOK, GoTypeOK
  <2>2. [Idle EXCEPT !.pc = "finLock", !.key = timer[t]] \in Goroutine
    BY <2>1, IdleType, GoroutineEdits, PCs
  <2>3. /\ go' \in [Goroutines -> Goroutine]
        /\ \A h \in Goroutines : h # t => go'[h] = go[h]
    BY <1>2, <2>2, RunType DEF TimerFires
  <2>4. GoTypeOK'
    BY <1>2, <2>3 DEF TimerFires, TypeOK, GoTypeOK, Goroutines
  <2>5. QED
    BY <1>2, <2>4 DEF TimerFires, TypeOK
<1>3. CASE FinalizeLock(t)
  <2>1. GoTypeOK'
    <3>1. CASE EndFinalize(t)
      BY <1>3, <3>1, EndFinalizeType DEF FinalizeLock
    <3>2. CASE ~EndFinalize(t)
      <4>1. go[t].key \in Keys
        BY <1>1, <1>3 DEF FinalizeLock, Goroutine
      <4>2. dvrPath[go[t].key] \in BOOLEAN
        BY <4>1 DEF TypeOK
      <4>3. QED
        BY <1>0, <1>1, <1>3, <3>2, <4>2, GoroutineEdits, PCs, RunningType DEF FinalizeLock
    <3>3. QED
      BY <3>1, <3>2
  <2>2. QED
    BY <1>3, <2>1 DEF FinalizeLock, TypeOK
<1>4. CASE FinalizeGet(t)
  <2>1. GoTypeOK'
    <3>1. CASE EndFinalize(t)
      BY <1>4, <3>1, EndFinalizeType DEF FinalizeGet
    <3>2. CASE ~EndFinalize(t)
      <4>1. PICK u \in Users : Fetch(t, u, "finUpdate")
        BY <1>4, <3>2 DEF FinalizeGet, GetByStreamKey
      <4>2. row[u] \in Row
        BY DEF TypeOK
      <4>3. QED
        BY <1>0, <1>1, <1>4, <3>2, <4>1, <4>2, GoroutineEdits, PCs, RunningType
           DEF FinalizeGet, Fetch
    <3>3. QED
      BY <3>1, <3>2
  <2>2. QED
    BY <1>4, <2>1 DEF FinalizeGet, TypeOK
<1>5. CASE FinalizeUpdate(t)
  <2>1. row' \in [Users -> Row]
    BY <1>1, <1>5, RowRecords, TryUpdateType DEF FinalizeUpdate
  <2>2. GoTypeOK'
    BY <1>0, <1>5, GoingType, EndFinalizeType, PCs DEF FinalizeUpdate
  <2>3. QED
    BY <1>5, <2>1, <2>2 DEF FinalizeUpdate, TypeOK
<1>6. CASE ProcessDVR(t)
  BY <1>0, <1>6, ProcessDVRType
<1>7. QED
  BY <1>2, <1>3, <1>4, <1>5, <1>6 DEF TimerStep

LEMMA EnvironmentType ==
    ASSUME TypeOK, NEW k \in Keys,
           CancelPending(k) \/ Disconnect(k) \/ StartStreaming(k) \/ LoseHook
    PROVE  TypeOK'
<1> USE DEF graceVars, srsVars, dvrVars
<1>1. CASE CancelPending(k)
  <2>1. GoTypeOK'
    BY <1>1 DEF CancelPending, StopTimer, TypeOK, GoTypeOK
  <2>2. hooks' \subseteq Hook
    <3>1. SUFFICES ASSUME NEW h \in hooks' PROVE h \in Hook
      OBVIOUS
    <3>2. PICK g \in hooks : h = g \/ h = [g EXCEPT !.late = TRUE]
      BY <1>1 DEF CancelPending, MarkLate
    <3>3. g \in Hook
      BY DEF TypeOK
    <3>4. QED
      BY <3>2, <3>3 DEF Hook
  <2>3. QED
    BY <1>1, <2>1, <2>2 DEF CancelPending, TypeOK
<1>2. CASE Disconnect(k)
  <2>1. hooks' \subseteq Hook
    <3>1. \A ty \in {"unpublish", "dvr"} : [type |-> ty, key |-> k, late |-> FALSE] \in Hook
      BY DEF Hook
    <3>2. QED
      BY <1>2, <3>1 DEF Disconnect, TypeOK
  <2>2. QED
    BY <1>2, <2>1 DEF Disconnect, TypeOK, GoTypeOK
<1>3. CASE StartStreaming(k)
  BY <1>3 DEF StartStreaming, TypeOK, GoTypeOK
<1>4. CASE LoseHook
  BY <1>4 DEF LoseHook, TypeOK, GoTypeOK
<1>5. QED
  BY <1>1, <1>2, <1>3, <1>4

LEMMA ReconcileType ==
    ASSUME TypeOK, Reconcile
    PROVE  TypeOK'
<1> USE DEF graceVars, srsVars, dvrVars
<1> DEFINE Recon == [pc : {"snapshot", "list", "check", "update"}, active : SUBSET Keys,
                     rows : SUBSET (Users \X Row), cur : Users \cup {NoUser}]
<1>0. recon \in Recon /\ NextPass \in Recon
  BY DEF TypeOK, NextPass
<1>1. ASSUME recon' \in Recon, row' \in [Users -> Row],
             UNCHANGED <<issued, graceVars, go, srsVars, dvrVars, crashes>>
      PROVE  TypeOK'
  BY <1>1 DEF TypeOK, GoTypeOK
<1>2. ASSUME NEW r \in recon.rows, DropRow(r)
      PROVE  recon' \in Recon
  BY <1>0, <1>2 DEF DropRow
<1>3. CASE ReconcileSnapshot
  <2>1. recon' \in Recon
    BY <1>0, <1>3 DEF ReconcileSnapshot
  <2>2. QED
    BY <1>1, <1>3, <2>1 DEF ReconcileSnapshot, TypeOK
<1>4. CASE ReconcileList
  <2>1. \A u \in Users : <<u, row[u]>> \in Users \X Row
    BY DEF TypeOK
  <2>2. CASE recon' = NextPass
    BY <1>0, <1>1, <1>4, <2>2 DEF ReconcileList, TypeOK
  <2>3. CASE recon' # NextPass
    <3> DEFINE live == {<<u, row[u]>> : u \in {v \in Users : row[v].live}}
    <3>0. live \subseteq Users \X Row
      BY <2>1
    <3>1. PICK rows \in SUBSET live : recon' = [recon EXCEPT !.pc = "check", !.rows = rows]
      BY <1>4, <2>3 DEF ReconcileList
    <3>2. recon' \in Recon
      BY <1>0, <3>0, <3>1
    <3>3. QED
      BY <1>1, <1>4, <3>2 DEF ReconcileList, TypeOK
  <2>4. QED
    BY <2>2, <2>3
<1>5. ASSUME NEW r \in recon.rows, ReconcileCheck(r)
      PROVE  TypeOK'
  <2>1. r[1] \in Users
    BY <1>0
  <2>2. recon' \in Recon
    BY <1>0, <1>2, <1>5, <2>1 DEF ReconcileCheck
  <2>3. QED
    BY <1>1, <1>5, <2>2 DEF ReconcileCheck, TypeOK
<1>6. ASSUME NEW r \in recon.rows, ReconcileUpdate(r)
      PROVE  TypeOK'
  <2>1. r[2] \in Row
    BY <1>0
  <2>2. row' \in [Users -> Row]
    BY <1>6, <2>1, RowRecords, TryUpdateType DEF ReconcileUpdate
  <2>3. QED
    BY <1>1, <1>2, <1>6, <2>2 DEF ReconcileUpdate
<1>7. QED
  BY <1>3, <1>4, <1>5, <1>6 DEF Reconcile

LEMMA RestartType ==
    ASSUME TypeOK, Restart
    PROVE  TypeOK'
BY IdleType, LivestreamAssumption DEF Restart, TypeOK, GoTypeOK, NextPass, dvrVars

LEMMA InitType == Init => TypeOK
BY IdleType, RowRecords, LivestreamAssumption DEF Init, TypeOK, GoTypeOK, NextPass

LEMMA NextType == TypeOK /\ [Next]_vars => TypeOK'
<1> SUFFICES ASSUME TypeOK, [Next]_vars PROVE TypeOK'
  OBVIOUS
<1>1. CASE UNCHANGED vars
  BY <1>1 DEF vars, graceVars, srsVars, dvrVars, TypeOK, GoTypeOK
<1>2. CASE LoseHook
  BY <1>2 DEF LoseHook, TypeOK, GoTypeOK, graceVars, dvrVars
<1>3. QED
  BY <1>1, <1>2, RequestType, RequestStepType, TimerStepType, EnvironmentType, ReconcileType,
     RestartType DEF Next

(* The type invariant holds of every reachable state.                        *)
THEOREM TypeCorrect == Spec => []TypeOK
BY InitType, NextType, PTL DEF Spec

-----------------------------------------------------------------------------
(* The replay pipeline. ReplayHasRecording is inductive once it says what    *)
(* each step of processDVR has already done.                                 *)
ReplayInv ==
    /\ jobs \subseteq stored /\ stored \subseteq objects
    /\ \A g \in Goroutines :
          /\ go[g].pc \in {"remove", "insert"} => go[g].video \in objects
          /\ go[g].pc = "publish" => go[g].video \in stored

(* A step that leaves the pipeline's tables alone preserves ReplayInv when   *)
(* the goroutine it moves does not enter the pipeline's later steps.         *)
LEMMA RunReplay ==
    ASSUME TypeOK, ReplayInv, UNCHANGED <<objects, stored, jobs>>, NEW g \in Goroutines,
           NEW r, Run(g, r), r.pc \notin {"remove", "insert", "publish"}
    PROVE  ReplayInv'
BY DEF ReplayInv, Run, TypeOK, GoTypeOK

LEMMA ReturnReplay ==
    ASSUME TypeOK, ReplayInv, UNCHANGED <<objects, stored, jobs>>, NEW g \in Goroutines,
           Return(g)
    PROVE  ReplayInv'
<1>1. Idle.pc \notin {"remove", "insert", "publish"}
  BY DEF Idle
<1>2. QED
  BY <1>1, RunReplay DEF Return

LEMMA EndDVRReplay ==
    ASSUME TypeOK, ReplayInv, UNCHANGED <<objects, stored, jobs>>, NEW g \in Goroutines,
           EndDVR(g) \/ EndFinalize(g)
    PROVE  ReplayInv'
BY ReturnReplay DEF EndDVR, EndFinalize

(* Moving to a step outside the pipeline, with or without a copy of a row.   *)
LEMMA GotoReplay ==
    ASSUME TypeOK, ReplayInv, UNCHANGED <<objects, stored, jobs>>, NEW g \in Goroutines,
           NEW pc, pc \notin {"remove", "insert", "publish"},
           Goto(g, pc) \/ \E u \in Users : Fetch(g, u, pc)
    PROVE  ReplayInv'
<1>1. go[g] \in Goroutine
  BY DEF TypeOK, GoTypeOK
<1>2. [go[g] EXCEPT !.pc = pc].pc = pc
  BY <1>1 DEF Goroutine
<1>3. \A u \in Users : [go[g] EXCEPT !.user = u, !.ls = row[u], !.pc = pc].pc = pc
  BY <1>1 DEF Goroutine
<1>4. QED
  BY <1>2, <1>3, RunReplay DEF Goto, Fetch

LEMMA RequestReplay ==
    ASSUME TypeOK, ReplayInv, NEW p \in Procs, Request(p)
    PROVE  ReplayInv'
<1> USE DEF dvrVars
<1>0. p \in Goroutines
  BY DEF Goroutines
<1>1. ASSUME NEW u \in Users, NEW k, NEW pc \in {"store", "reset", "info", "ban"},
             ReadOwnRow(p, u, pc, k)
      PROVE  ReplayInv'
  <2>1. [Idle EXCEPT !.pc = pc, !.user = u, !.key = k, !.ls = row[u]].pc = pc
    BY DEF Idle
  <2>2. QED
    BY <1>0, <1>1, <2>1, RunReplay DEF ReadOwnRow
<1>2. ASSUME NEW k \in Keys, AuthenticateStreamKey(p, k)
      PROVE  ReplayInv'
  <2>1. [Idle EXCEPT !.pc = "authGet", !.key = k].pc = "authGet"
    BY DEF Idle
  <2>2. QED
    BY <1>0, <1>2, <2>1, RunReplay DEF AuthenticateStreamKey
<1>3. ASSUME NEW t \in Timers, UnpublishStream(p, t)
      PROVE  ReplayInv'
  <2>1. CASE UNCHANGED go
    BY <1>3, <2>1 DEF UnpublishStream, ReplayInv
  <2>2. CASE ~UNCHANGED go
    <3>1. PICK h \in hooks : Run(p, [Idle EXCEPT !.pc = "unpubInstall", !.key = h.key, !.timer = t])
      BY <1>3, <2>2 DEF UnpublishStream
    <3>2. [Idle EXCEPT !.pc = "unpubInstall", !.key = h.key, !.timer = t].pc = "unpubInstall"
      BY DEF Idle
    <3>3. QED
      BY <1>0, <1>3, <3>1, <3>2, RunReplay DEF UnpublishStream
  <2>3. QED
    BY <2>1, <2>2
<1>4. CASE HandleDVRComplete(p)
  <2>1. CASE UNCHANGED go
    BY <1>4, <2>1 DEF HandleDVRComplete, ReplayInv
  <2>2. CASE ~UNCHANGED go
    <3>1. PICK h \in hooks : Run(p, [Idle EXCEPT !.pc = "dvrGet", !.key = h.key, !.late = h.late])
      BY <1>4, <2>2 DEF HandleDVRComplete
    <3>2. [Idle EXCEPT !.pc = "dvrGet", !.key = h.key, !.late = h.late].pc = "dvrGet"
      BY DEF Idle
    <3>3. QED
      BY <1>0, <1>4, <3>1, <3>2, RunReplay DEF HandleDVRComplete
  <2>3. QED
    BY <2>1, <2>2
<1>5. QED
  BY <1>1, <1>2, <1>3, <1>4 DEF Request, GetStreamKey, ResetStreamKey, UpdateStreamInfo, BanStream

(* The steps of processDVR themselves.                                       *)
LEMMA ProcessDVRReplay ==
    ASSUME TypeOK, ReplayInv, NEW g \in Goroutines, ProcessDVR(g)
    PROVE  ReplayInv'
<1> USE DEF graceVars, srsVars
<1>0. go[g] \in Goroutine /\ go \in [Goroutines -> Goroutine]
  BY DEF TypeOK, GoTypeOK
<1>1. ASSUME NEW pc, Goto(g, pc)
      PROVE  /\ \A h \in Goroutines : h # g => go'[h] = go[h]
             /\ go'[g].pc = pc /\ go'[g].video = go[g].video
  <2>1. [go[g] EXCEPT !.pc = pc].pc = pc /\ [go[g] EXCEPT !.pc = pc].video = go[g].video
    BY <1>0 DEF Goroutine
  <2>2. QED
    BY <1>0, <1>1, <2>1 DEF Goto, Run
<1>2. ASSUME EndDVR(g)
      PROVE  /\ \A h \in Goroutines : h # g => go'[h] = go[h]
             /\ go'[g].pc = "idle"
  BY <1>0, <1>2 DEF EndDVR, EndFinalize, Return, Run, Idle
<1>3. CASE DVRStat(g)
  <2>1. CASE EndDVR(g)
    BY <1>3, <2>1, EndDVRReplay DEF DVRStat, dvrVars
  <2>2. CASE ~EndDVR(g)
    <3>1. PICK v \in Videos : Run(g, [go[g] EXCEPT !.pc = "upload", !.video = v])
      BY <1>3, <2>2 DEF DVRStat
    <3>2. [go[g] EXCEPT !.pc = "upload", !.video = v].pc = "upload"
      BY <1>0 DEF Goroutine
    <3>3. QED
      BY <1>3, <3>1, <3>2, RunReplay DEF DVRStat, dvrVars
  <2>3. QED
    BY <2>1, <2>2
<1>4. CASE DVRUpload(g)
  BY <1>1, <1>2, <1>4 DEF DVRUpload, ReplayInv
<1>5. CASE DVRRemove(g)
  BY <1>1, <1>5 DEF DVRRemove, ReplayInv
<1>6. CASE DVRInsert(g)
  BY <1>1, <1>2, <1>6 DEF DVRInsert, ReplayInv
<1>7. CASE DVRPublish(g)
  BY <1>2, <1>7 DEF DVRPublish, ReplayInv
<1>8. QED
  BY <1>3, <1>4, <1>5, <1>6, <1>7 DEF ProcessDVR

LEMMA RequestStepReplay ==
    ASSUME TypeOK, ReplayInv, NEW p \in Procs, RequestStep(p)
    PROVE  ReplayInv'
<1> USE DEF dvrVars
<1>0. p \in Goroutines
  BY DEF Goroutines
<1>1. CASE StoreLivestream(p) \/ ResetUpdate(p) \/ InfoUpdate(p) \/ BanUpdate(p) \/ NotifyFollowers(p)
           \/ InstallPending(p)
  BY <1>0, <1>1, ReturnReplay
     DEF StoreLivestream, ResetUpdate, InfoUpdate, BanUpdate, NotifyFollowers, InstallPending
<1>2. CASE AuthGet(p) \/ DVRGet(p)
  BY <1>0, <1>2, ReturnReplay, GotoReplay DEF AuthGet, DVRGet, GetByStreamKey
<1>3. CASE AuthUpdate(p)
  BY <1>0, <1>3, GotoReplay DEF AuthUpdate
<1>4. CASE ProcessDVR(p)
  BY <1>0, <1>4, ProcessDVRReplay
<1>5. QED
  BY <1>1, <1>2, <1>3, <1>4 DEF RequestStep

LEMMA TimerStepReplay ==
    ASSUME TypeOK, ReplayInv, NEW t \in Timers, TimerStep(t)
    PROVE  ReplayInv'
<1> USE DEF dvrVars
<1>0. t \in Goroutines /\ go[t] \in Goroutine
  BY DEF Goroutines, TypeOK, GoTypeOK
<1>1. CASE TimerFires(t)
  <2>1. [Idle EXCEPT !.pc = "finLock", !.key = timer[t]].pc = "finLock"
    BY DEF Idle
  <2>2. QED
    BY <1>0, <1>1, <2>1, RunReplay DEF TimerFires
<1>2. CASE FinalizeLock(t)
  <2>1. \A b : [go[t] EXCEPT !.pc = "finGet", !.dvr = b].pc = "finGet"
    BY <1>0 DEF Goroutine
  <2>2. QED
    BY <1>0, <1>2, <2>1, RunReplay, EndDVRReplay DEF FinalizeLock
<1>3. CASE FinalizeGet(t)
  BY <1>0, <1>3, GotoReplay, EndDVRReplay DEF FinalizeGet, GetByStreamKey
<1>4. CASE FinalizeUpdate(t)
  BY <1>0, <1>4, GotoReplay, EndDVRReplay DEF FinalizeUpdate
<1>5. CASE ProcessDVR(t)
  BY <1>0, <1>5, ProcessDVRReplay
<1>6. QED
  BY <1>1, <1>2, <1>3, <1>4, <1>5 DEF TimerStep

LEMMA NextReplay == TypeOK /\ ReplayInv /\ [Next]_vars => ReplayInv'
<1> SUFFICES ASSUME TypeOK, ReplayInv, [Next]_vars PROVE ReplayInv'
  OBVIOUS
<1>1. CASE UNCHANGED vars
  BY <1>1 DEF vars, dvrVars, ReplayInv
<1>2. ASSUME NEW k \in Keys, CancelPending(k) \/ Disconnect(k) \/ StartStreaming(k)
      PROVE  ReplayInv'
  BY <1>2 DEF CancelPending, Disconnect, StartStreaming, dvrVars, ReplayInv
<1>3. CASE LoseHook \/ Reconcile
  BY <1>3 DEF LoseHook, Reconcile, ReconcileSnapshot, ReconcileList, ReconcileCheck,
              ReconcileUpdate, dvrVars, ReplayInv
<1>4. CASE Restart
  BY <1>4 DEF Restart, Idle, dvrVars, ReplayInv
<1>5. QED
  BY <1>1, <1>2, <1>3, <1>4, RequestReplay, RequestStepReplay, TimerStepReplay DEF Next

(* No transcode job without a replay row and no replay row without its       *)
(* recording in S3, at every moment and however processDVR is interrupted.   *)
THEOREM ReplaySafe == Spec => []ReplayHasRecording
<1>1. Init => ReplayInv
  BY DEF Init, Idle, ReplayInv
<1>2. ReplayInv => ReplayHasRecording
  BY DEF ReplayInv, ReplayHasRecording
<1>3. QED
  BY <1>1, <1>2, NextReplay, TypeCorrect, PTL DEF Spec

-----------------------------------------------------------------------------
(* The rows and their copies. RowsConsistent is inductive as it stands,      *)
(* because it speaks of every copy that may still be written back.           *)
LEMMA LiveRowEdits ==
    ASSUME NEW ls \in Row
    PROVE  /\ LiveRow(WentLive(ls)) /\ LiveRow(WentOffline(ls))
           /\ \A k : LiveRow(ls) => LiveRow([ls EXCEPT !.key = k])
           /\ LiveRow([ls EXCEPT !.live = FALSE])
BY DEF Row, NoRow, LiveRow, WentLive, WentOffline

LEMMA WriteRows ==
    ASSUME TypeOK, RowsConsistent, NEW u, NEW ls, LiveRow(ls), TryUpdate(u, ls)
    PROVE  \A v \in Users : LiveRow(row'[v])
BY DEF TypeOK, RowsConsistent, TryUpdate, Update

(* A step of one goroutine, whose copy afterwards is consistent.             *)
LEMMA RunRows ==
    ASSUME TypeOK, RowsConsistent, \A v \in Users : LiveRow(row'[v]), UNCHANGED recon,
           NEW g, NEW r, Run(g, r), LiveRow(r.ls)
    PROVE  RowsConsistent'
BY DEF TypeOK, GoTypeOK, RowsConsistent, Run

LEMMA ReturnRows ==
    ASSUME TypeOK, RowsConsistent, \A v \in Users : LiveRow(row'[v]), UNCHANGED recon,
           NEW g, Return(g) \/ EndDVR(g) \/ EndFinalize(g)
    PROVE  RowsConsistent'
<1>1. Return(g)
  BY DEF EndDVR, EndFinalize
<1>2. LiveRow(Idle.ls)
  BY DEF Idle, LiveRow, NoRow
<1>3. QED
  BY <1>1, <1>2, RunRows DEF Return

LEMMA GotoRows ==
    ASSUME TypeOK, RowsConsistent, \A v \in Users : LiveRow(row'[v]), UNCHANGED recon,
           NEW g \in Goroutines, NEW pc, Goto(g, pc)
    PROVE  RowsConsistent'
<1>1. go[g] \in Goroutine /\ LiveRow(go[g].ls)
  BY DEF TypeOK, GoTypeOK, RowsConsistent
<1>2. LiveRow([go[g] EXCEPT !.pc = pc].ls)
  BY <1>1 DEF Goroutine
<1>3. QED
  BY <1>2, RunRows DEF Goto

LEMMA FetchRows ==
    ASSUME TypeOK, RowsConsistent, UNCHANGED <<row, recon>>,
           NEW g \in Goroutines, NEW pc, NEW u \in Users, Fetch(g, u, pc)
    PROVE  RowsConsistent'
<1>1. go[g] \in Goroutine /\ LiveRow(row[u]) /\ \A v \in Users : LiveRow(row'[v])
  BY DEF TypeOK, GoTypeOK, RowsConsistent
<1>2. LiveRow([go[g] EXCEPT !.user = u, !.ls = row[u], !.pc = pc].ls)
  BY <1>1 DEF Goroutine
<1>3. QED
  BY <1>1, <1>2, RunRows DEF Fetch

LEMMA RequestRows ==
    ASSUME TypeOK, RowsConsistent, NEW p \in Procs, Request(p)
    PROVE  RowsConsistent'
<1>0. \A v \in Users : LiveRow(row[v])
  BY DEF RowsConsistent
<1>1. ASSUME NEW u \in Users, NEW k, NEW pc, ReadOwnRow(p, u, pc, k)
      PROVE  RowsConsistent'
  <2>1. LiveRow([Idle EXCEPT !.pc = pc, !.user = u, !.key = k, !.ls = row[u]].ls)
    BY <1>0 DEF Idle
  <2>2. QED
    BY <1>0, <1>1, <2>1, RunRows DEF ReadOwnRow
<1>2. ASSUME NEW k \in Keys, AuthenticateStreamKey(p, k)
      PROVE  RowsConsistent'
  <2>1. LiveRow([Idle EXCEPT !.pc = "authGet", !.key = k].ls)
    BY DEF Idle, NoRow, LiveRow
  <2>2. QED
    BY <1>0, <1>2, <2>1, RunRows DEF AuthenticateStreamKey
<1>3. ASSUME NEW t \in Timers, UnpublishStream(p, t)
      PROVE  RowsConsistent'
  <2>1. CASE UNCHANGED go
    BY <1>3, <2>1 DEF UnpublishStream, RowsConsistent
  <2>2. CASE ~UNCHANGED go
    <3>1. PICK h \in hooks : Run(p, [Idle EXCEPT !.pc = "unpubInstall", !.key = h.key, !.timer = t])
      BY <1>3, <2>2 DEF UnpublishStream
    <3>2. LiveRow([Idle EXCEPT !.pc = "unpubInstall", !.key = h.key, !.timer = t].ls)
      BY DEF Idle, NoRow, LiveRow
    <3>3. QED
      BY <1>0, <1>3, <3>1, <3>2, RunRows DEF UnpublishStream
  <2>3. QED
    BY <2>1, <2>2
<1>4. CASE HandleDVRComplete(p)
  <2>1. CASE UNCHANGED go
    BY <1>4, <2>1 DEF HandleDVRComplete, RowsConsistent
  <2>2. CASE ~UNCHANGED go
    <3>1. PICK h \in hooks : Run(p, [Idle EXCEPT !.pc = "dvrGet", !.key = h.key, !.late = h.late])
      BY <1>4, <2>2 DEF HandleDVRComplete
    <3>2. LiveRow([Idle EXCEPT !.pc = "dvrGet", !.key = h.key, !.late = h.late].ls)
      BY DEF Idle, NoRow, LiveRow
    <3>3. QED
      BY <1>0, <1>4, <3>1, <3>2, RunRows DEF HandleDVRComplete
  <2>3. QED
    BY <2>1, <2>2
<1>5. QED
  BY <1>1, <1>2, <1>3, <1>4 DEF Request, GetStreamKey, ResetStreamKey, UpdateStreamInfo, BanStream

LEMMA ProcessDVRRows ==
    ASSUME TypeOK, RowsConsistent, NEW g \in Goroutines, ProcessDVR(g)
    PROVE  RowsConsistent'
<1>0. (\A v \in Users : LiveRow(row[v])) /\ go[g] \in Goroutine /\ LiveRow(go[g].ls)
  BY DEF RowsConsistent, TypeOK, GoTypeOK
<1>1. CASE DVRStat(g)
  <2>1. \A v : LiveRow([go[g] EXCEPT !.pc = "upload", !.video = v].ls)
    BY <1>0 DEF Goroutine
  <2>2. QED
    BY <1>0, <1>1, <2>1, RunRows, ReturnRows DEF DVRStat
<1>2. CASE DVRUpload(g)
  BY <1>0, <1>2, GotoRows, ReturnRows DEF DVRUpload
<1>3. CASE DVRRemove(g)
  BY <1>0, <1>3, GotoRows DEF DVRRemove
<1>4. CASE DVRInsert(g)
  BY <1>0, <1>4, GotoRows, ReturnRows DEF DVRInsert
<1>5. CASE DVRPublish(g)
  BY <1>0, <1>5, ReturnRows DEF DVRPublish
<1>6. QED
  BY <1>1, <1>2, <1>3, <1>4, <1>5 DEF ProcessDVR

LEMMA RequestStepRows ==
    ASSUME TypeOK, RowsConsistent, NEW p \in Procs, RequestStep(p)
    PROVE  RowsConsistent'
<1>0. p \in Goroutines
  BY DEF Goroutines
<1>1. go[p].ls \in Row /\ LiveRow(go[p].ls) /\ \A v \in Users : LiveRow(row[v])
  BY <1>0 DEF RowsConsistent, TypeOK, GoTypeOK, Goroutine
<1>2. CASE StoreLivestream(p)
  <2>0. LiveRow([NoRow EXCEPT !.key = go[p].key])
    BY DEF NoRow, LiveRow
  <2>1. \A v \in Users : LiveRow(row'[v])
    BY <1>1, <1>2, <2>0 DEF StoreLivestream, Update, TypeOK
  <2>2. QED
    BY <1>2, <2>1, ReturnRows DEF StoreLivestream
<1>3. CASE ResetUpdate(p)
  <2>1. \A v \in Users : LiveRow(row'[v])
    BY <1>1, <1>3, LiveRowEdits, WriteRows DEF ResetUpdate
  <2>2. QED
    BY <1>3, <2>1, ReturnRows DEF ResetUpdate
<1>4. CASE InfoUpdate(p) \/ BanUpdate(p)
  <2>1. \A v \in Users : LiveRow(row'[v])
    BY <1>1, <1>4, LiveRowEdits, WriteRows DEF InfoUpdate, BanUpdate
  <2>2. QED
    BY <1>4, <2>1, ReturnRows DEF InfoUpdate, BanUpdate
<1>5. CASE AuthGet(p) \/ DVRGet(p)
  BY <1>0, <1>1, <1>5, FetchRows, ReturnRows DEF AuthGet, DVRGet, GetByStreamKey
<1>6. CASE AuthUpdate(p)
  <2>1. \A v \in Users : LiveRow(row'[v])
    BY <1>1, <1>6, LiveRowEdits, WriteRows DEF AuthUpdate
  <2>2. QED
    BY <1>0, <1>6, <2>1, GotoRows DEF AuthUpdate
<1>7. CASE NotifyFollowers(p) \/ InstallPending(p)
  BY <1>1, <1>7, ReturnRows DEF NotifyFollowers, InstallPending
<1>8. CASE ProcessDVR(p)
  BY <1>0, <1>8, ProcessDVRRows
<1>9. QED
  BY <1>2, <1>3, <1>4, <1>5, <1>6, <1>7, <1>8 DEF RequestStep

LEMMA TimerStepRows ==
    ASSUME TypeOK, RowsConsistent, NEW t \in Timers, TimerStep(t)
    PROVE  RowsConsistent'
<1>0. t \in Goroutines
  BY DEF Goroutines
<1>1. /\ go[t] \in Goroutine /\ go[t].ls \in Row /\ LiveRow(go[t].ls)
      /\ \A v \in Users : LiveRow(row[v])
  BY <1>0 DEF RowsConsistent, TypeOK, GoTypeOK, Goroutine
<1>2. CASE TimerFires(t)
  <2>1. LiveRow([Idle EXCEPT !.pc = "finLock", !.key = timer[t]].ls)
    BY DEF Idle, NoRow, LiveRow
  <2>2. QED
    BY <1>1, <1>2, <2>1, RunRows DEF TimerFires
<1>3. CASE FinalizeLock(t)
  <2>1. \A b : LiveRow([go[t] EXCEPT !.pc = "finGet", !.dvr = b].ls)
    BY <1>1 DEF Goroutine
  <2>2. QED
    BY <1>1, <1>3, <2>1, RunRows, ReturnRows DEF FinalizeLock
<1>4. CASE FinalizeGet(t)
  BY <1>0, <1>1, <1>4, FetchRows, ReturnRows DEF FinalizeGet, GetByStreamKey
<1>5. CASE FinalizeUpdate(t)
  <2>1. \A v \in Users : LiveRow(row'[v])
    BY <1>1, <1>5, LiveRowEdits, WriteRows DEF FinalizeUpdate
  <2>2. QED
    BY <1>0, <1>5, <2>1, GotoRows, ReturnRows DEF FinalizeUpdate
<1>6. CASE ProcessDVR(t)
  BY <1>0, <1>6, ProcessDVRRows
<1>7. QED
  BY <1>2, <1>3, <1>4, <1>5, <1>6 DEF TimerStep

LEMMA ReconcileRows ==
    ASSUME TypeOK, RowsConsistent, Reconcile
    PROVE  RowsConsistent'
<1>0. NextPass.rows = {}
  BY DEF NextPass
<1>1. ASSUME \A v \in Users : LiveRow(row'[v]), \A s \in recon'.rows : LiveRow(s[2]),
             UNCHANGED go
      PROVE  RowsConsistent'
  BY <1>1 DEF RowsConsistent
<1>2. /\ \A v \in Users : LiveRow(row[v])
      /\ \A s \in recon.rows : LiveRow(s[2]) /\ s[2] \in Row
  BY DEF RowsConsistent, TypeOK
<1>3. ASSUME NEW r, DropRow(r)
      PROVE  recon'.rows \subseteq recon.rows
  BY <1>0, <1>3 DEF DropRow, TypeOK
<1>4. CASE ReconcileSnapshot
  <2>1. recon'.rows = {}
    BY <1>4 DEF ReconcileSnapshot, NextPass
  <2>2. QED
    BY <1>1, <1>2, <1>4, <2>1 DEF ReconcileSnapshot
<1>5. CASE ReconcileList
  <2> DEFINE live == {<<u, row[u]>> : u \in {v \in Users : row[v].live}}
  <2>1. \A s \in live : LiveRow(s[2])
    BY <1>2
  <2>2. \A s \in recon'.rows : LiveRow(s[2])
    <3>1. CASE recon' = NextPass
      BY <1>0, <3>1
    <3>2. CASE recon' # NextPass
      <4>1. PICK rows \in SUBSET live : recon' = [recon EXCEPT !.pc = "check", !.rows = rows]
        BY <1>5, <3>2 DEF ReconcileList
      <4>2. recon'.rows = rows
        BY <4>1 DEF TypeOK
      <4>3. QED
        BY <2>1, <4>2
    <3>3. QED
      BY <3>1, <3>2
  <2>3. QED
    BY <1>1, <1>2, <1>5, <2>2 DEF ReconcileList
<1>6. ASSUME NEW r \in recon.rows, ReconcileCheck(r)
      PROVE  RowsConsistent'
  <2>1. recon'.rows \subseteq recon.rows
    BY <1>3, <1>6 DEF ReconcileCheck, TypeOK
  <2>2. QED
    BY <1>1, <1>2, <1>6, <2>1 DEF ReconcileCheck
<1>7. ASSUME NEW r \in recon.rows, ReconcileUpdate(r)
      PROVE  RowsConsistent'
  <2>1. \A v \in Users : LiveRow(row'[v])
    BY <1>2, <1>7, LiveRowEdits, WriteRows DEF ReconcileUpdate
  <2>2. QED
    BY <1>1, <1>2, <1>3, <1>7, <2>1 DEF ReconcileUpdate
<1>8. QED
  BY <1>4, <1>5, <1>6, <1>7 DEF Reconcile

LEMMA NextRows == TypeOK /\ RowsConsistent /\ [Next]_vars => RowsConsistent'
<1> SUFFICES ASSUME TypeOK, RowsConsistent, [Next]_vars PROVE RowsConsistent'
  OBVIOUS
<1>1. CASE UNCHANGED vars
  BY <1>1 DEF vars, RowsConsistent
<1>2. ASSUME NEW k \in Keys, CancelPending(k) \/ Disconnect(k) \/ StartStreaming(k)
      PROVE  RowsConsistent'
  BY <1>2 DEF CancelPending, Disconnect, StartStreaming, RowsConsistent
<1>3. CASE LoseHook
  BY <1>3 DEF LoseHook, RowsConsistent
<1>4. CASE Restart
  BY <1>4 DEF Restart, Idle, NoRow, LiveRow, NextPass, RowsConsistent
<1>5. QED
  BY <1>1, <1>2, <1>3, <1>4, RequestRows, RequestStepRows, TimerStepRows, ReconcileRows
     DEF Next

(* A row that is shown live has a start and no end, whatever stale copies    *)
(* the handlers, the timers and the reconciliation loop write back.          *)
THEOREM RowsSafe == Spec => []RowsConsistent
<1>1. Init => RowsConsistent
  BY DEF Init, Idle, NoRow, LiveRow, NextPass, RowsConsistent
<1>2. QED
  BY <1>1, NextRows, TypeCorrect, PTL DEF Spec

-----------------------------------------------------------------------------
(* The timer of every grace window. What makes GraceHasTimer inductive: a    *)
(* timer's goroutine works for the key the timer was armed for, and a timer  *)
(* that UnpublishStream has yet to install is armed, belongs to one request  *)
(* and to no window. The last needs GraceOutlastsInstall: a timer that fired *)
(* before it is installed would leave a window nothing ends.                 *)
InstallInv ==
    \A p \in Procs : go[p].pc = "unpubInstall" =>
        /\ go[p].timer \in armed /\ go[p].key \in Keys
        /\ timer[go[p].timer] = go[p].key
        /\ \A k \in Keys : pending[k] # go[p].timer
        /\ \A q \in Procs \ {p} : go[q].pc = "unpubInstall" => go[q].timer # go[p].timer

GraceInv ==
    /\ GraceHasTimer
    /\ \A t \in Timers : go[t].pc # "idle" => timer[t] = go[t].key
    /\ InstallInv

(* A request that neither arms, stops nor installs a timer.                  *)
LEMMA RunGrace ==
    ASSUME TypeOK, GraceInv, UNCHANGED <<pending, timer, armed>>,
           NEW p \in Procs, NEW r, Run(p, r), r.pc # "unpubInstall"
    PROVE  GraceInv'
<1>1. /\ p \in Goroutines /\ Procs \subseteq Goroutines /\ Timers \subseteq Goroutines
      /\ p \notin Timers /\ NoTimer \notin Timers
  BY LivestreamAssumption DEF Goroutines
<1>2. /\ go'[p] = r
      /\ \A g \in Goroutines \ {p} : go'[g] = go[g]
  BY <1>1 DEF Run, TypeOK, GoTypeOK
<1>3. GraceHasTimer'
  BY <1>1, <1>2 DEF GraceInv, GraceHasTimer, TypeOK
<1>4. InstallInv'
  BY <1>1, <1>2 DEF GraceInv, InstallInv
<1>5. QED
  BY <1>1, <1>2, <1>3, <1>4 DEF GraceInv

(* A window's timer is armed or about to take the lock, so the window is not *)
(* that of a timer whose goroutine is past the lock.                         *)
LEMMA PastLock ==
    ASSUME TypeOK, GraceInv, NEW t \in Timers, go[t].pc \notin {"idle", "finLock"}
    PROVE  /\ \A k \in Keys : pending[k] # t
           /\ t \notin armed
           /\ \A p \in Procs : go[p].pc = "unpubInstall" => go[p].timer # t
BY LivestreamAssumption DEF TypeOK, GoTypeOK, GraceInv, GraceHasTimer, InstallInv

(* A step of a timer's goroutine past the lock, and its end.                 *)
LEMMA TimerRunGrace ==
    ASSUME TypeOK, GraceInv, UNCHANGED <<pending, armed>>,
           NEW t \in Timers, go[t].pc \notin {"idle", "finLock"},
           NEW r, Run(t, r),
           \/ r.key = go[t].key /\ UNCHANGED timer
           \/ r.pc = "idle" /\ timer' = [timer EXCEPT ![t] = NoKey]
    PROVE  GraceInv'
<1>1. /\ t \in Goroutines /\ Procs \subseteq Goroutines /\ Timers \subseteq Goroutines
      /\ t \notin Procs /\ NoTimer \notin Timers
  BY LivestreamAssumption DEF Goroutines
<1>2. /\ go'[t] = r
      /\ \A g \in Goroutines \ {t} : go'[g] = go[g]
  BY <1>1 DEF Run, TypeOK, GoTypeOK
<1>3. \A s \in Timers \ {t} : timer'[s] = timer[s]
  BY DEF TypeOK, GoTypeOK
<1>4. /\ \A k \in Keys : pending[k] # t
      /\ t \notin armed
      /\ \A p \in Procs : go[p].pc = "unpubInstall" => go[p].timer # t
  BY PastLock
<1>5. GraceHasTimer'
  BY <1>1, <1>2, <1>3, <1>4 DEF GraceInv, GraceHasTimer, TypeOK
<1>6. InstallInv'
  BY <1>1, <1>2, <1>3, <1>4 DEF GraceInv, InstallInv, TypeOK, GoTypeOK
<1>7. \A s \in Timers : go'[s].pc # "idle" => timer'[s] = go'[s].key
  BY <1>1, <1>2, <1>3 DEF GraceInv
<1>8. QED
  BY <1>5, <1>6, <1>7 DEF GraceInv

LEMMA EndGrace ==
    ASSUME TypeOK, GraceInv, UNCHANGED <<pending, armed>>,
           NEW t \in Timers, go[t].pc \notin {"idle", "finLock"}, EndFinalize(t) \/ EndDVR(t)
    PROVE  GraceInv'
<1>1. Idle.pc = "idle"
  BY DEF Idle
<1>2. QED
  BY <1>1, TimerRunGrace DEF EndFinalize, EndDVR, Return

LEMMA ReturnGrace ==
    ASSUME TypeOK, GraceInv, UNCHANGED <<pending, timer, armed>>,
           NEW p \in Procs, Return(p)
    PROVE  GraceInv'
<1>1. Idle.pc # "unpubInstall"
  BY DEF Idle
<1>2. QED
  BY <1>1, RunGrace DEF Return

(* Moving on, with or without a copy of a row, keeps the goroutine's key.    *)
LEMMA GotoGrace ==
    ASSUME TypeOK, GraceInv, UNCHANGED <<pending, timer, armed>>,
           NEW g \in Goroutines, g \in Timers => go[g].pc \notin {"idle", "finLock"},
           NEW pc, pc # "unpubInstall", Goto(g, pc) \/ \E u \in Users : Fetch(g, u, pc)
    PROVE  GraceInv'
<1>0. go[g] \in Goroutine
  BY DEF TypeOK, GoTypeOK
<1>1. [go[g] EXCEPT !.pc = pc].pc = pc /\ [go[g] EXCEPT !.pc = pc].key = go[g].key
  BY <1>0 DEF Goroutine
<1>2. \A u \in Users :
        /\ [go[g] EXCEPT !.user = u, !.ls = row[u], !.pc = pc].pc = pc
        /\ [go[g] EXCEPT !.user = u, !.ls = row[u], !.pc = pc].key = go[g].key
  BY <1>0 DEF Goroutine
<1>3. CASE g \in Procs
  BY <1>1, <1>2, <1>3, RunGrace DEF Goto, Fetch
<1>4. CASE g \in Timers
  BY <1>1, <1>2, <1>4, TimerRunGrace DEF Goto, Fetch
<1>5. QED
  BY <1>3, <1>4 DEF Goroutines

LEMMA ProcessDVRGrace ==
    ASSUME TypeOK, GraceInv, NEW g \in Goroutines, ProcessDVR(g)
    PROVE  GraceInv'
<1>0. go[g] \in Goroutine /\ go[g].pc \notin {"idle", "finLock"}
      /\ (g \in Procs => g \notin Timers) /\ UNCHANGED <<pending, armed>>
  BY LivestreamAssumption
     DEF TypeOK, GoTypeOK, ProcessDVR, DVRStat, DVRUpload, DVRRemove, DVRInsert, DVRPublish,
         graceVars
<1>1. ASSUME EndDVR(g)
      PROVE  GraceInv'
  <2>1. CASE g \in Procs
    BY <1>0, <1>1, <2>1, ReturnGrace DEF EndDVR
  <2>2. CASE g \in Timers
    BY <1>0, <1>1, <2>2, EndGrace
  <2>3. QED
    BY <2>1, <2>2 DEF Goroutines
<1>2. CASE DVRStat(g)
  <2>1. CASE ~EndDVR(g)
    <3>1. PICK v \in Videos : Run(g, [go[g] EXCEPT !.pc = "upload", !.video = v])
      BY <1>2, <2>1 DEF DVRStat
    <3>2. /\ [go[g] EXCEPT !.pc = "upload", !.video = v].pc = "upload"
          /\ [go[g] EXCEPT !.pc = "upload", !.video = v].key = go[g].key
      BY <1>0 DEF Goroutine
    <3>3. UNCHANGED timer
      BY <1>2, <2>1 DEF DVRStat
    <3>4. CASE g \in Procs
      BY <1>0, <3>1, <3>2, <3>3, <3>4, RunGrace
    <3>5. CASE g \in Timers
      BY <1>0, <3>1, <3>2, <3>3, <3>5, TimerRunGrace
    <3>6. QED
      BY <3>4, <3>5 DEF Goroutines
  <2>2. QED
    BY <1>1, <2>1
<1>3. CASE DVRUpload(g)
  BY <1>0, <1>1, <1>3, GotoGrace DEF DVRUpload
<1>4. CASE DVRRemove(g)
  BY <1>0, <1>4, GotoGrace DEF DVRRemove, graceVars
<1>5. CASE DVRInsert(g)
  BY <1>0, <1>1, <1>5, GotoGrace DEF DVRInsert
<1>6. CASE DVRPublish(g)
  BY <1>1, <1>6 DEF DVRPublish
<1>7. QED
  BY <1>2, <1>3, <1>4, <1>5, <1>6 DEF ProcessDVR

(* UnpublishStream arms a free timer: no window and no other request has it. *)
LEMMA UnpublishGrace ==
    ASSUME TypeOK, GraceInv, NEW p \in Procs, NEW t \in Timers, UnpublishStream(p, t)
    PROVE  GraceInv'
<1>0. /\ p \in Goroutines /\ Procs \subseteq Goroutines /\ Timers \subseteq Goroutines
      /\ p \notin Timers /\ NoTimer \notin Timers /\ NoKey \notin Keys
  BY LivestreamAssumption DEF Goroutines
<1>1. /\ go[p].pc = "idle" /\ timer[t] = NoKey /\ go[t].pc = "idle"
      /\ UNCHANGED pending
  BY DEF UnpublishStream, FreeTimer
<1>2. t \notin armed /\ \A k \in Keys : pending[k] # t
  BY <1>0, <1>1 DEF TypeOK, GoTypeOK, GraceInv, GraceHasTimer
<1>3. CASE UNCHANGED <<go, timer, armed>>
  BY <1>1, <1>3 DEF GraceInv, GraceHasTimer, InstallInv
<1>4. CASE ~UNCHANGED <<go, timer, armed>>
  <2>1. PICK h \in hooks :
          /\ timer' = [timer EXCEPT ![t] = h.key]
          /\ armed' = armed \cup {t}
          /\ Run(p, [Idle EXCEPT !.pc = "unpubInstall", !.key = h.key, !.timer = t])
    BY <1>4 DEF UnpublishStream
  <2>2. h.key \in Keys
    BY DEF TypeOK, Hook
  <2>3. go' = [go EXCEPT ![p] = [Idle EXCEPT !.pc = "unpubInstall", !.key = h.key, !.timer = t]]
    BY <2>1 DEF Run
  <2>4. /\ go'[p].pc = "unpubInstall" /\ go'[p].key = h.key /\ go'[p].timer = t
        /\ \A g \in Goroutines \ {p} : go'[g] = go[g]
    BY <1>0, <2>3 DEF Idle, TypeOK, GoTypeOK
  <2>5. timer'[t] = h.key /\ \A s \in Timers \ {t} : timer'[s] = timer[s]
    BY <2>1 DEF TypeOK, GoTypeOK
  <2>6. GraceHasTimer'
    BY <1>0, <1>1, <1>2, <2>1, <2>4, <2>5 DEF GraceInv, GraceHasTimer, TypeOK
  <2>7. \A s \in Timers : go'[s].pc # "idle" => timer'[s] = go'[s].key
    BY <1>0, <1>1, <2>4, <2>5 DEF GraceInv
  <2>8. InstallInv'
    BY <1>0, <1>1, <1>2, <2>1, <2>2, <2>4, <2>5 DEF GraceInv, InstallInv, TypeOK, GoTypeOK
  <2>9. QED
    BY <2>6, <2>7, <2>8 DEF GraceInv
<1>5. QED
  BY <1>3, <1>4

(* InstallPending gives the key its own armed timer and stops the timer of   *)
(* the window it replaces, which serves no other key.                        *)
LEMMA InstallGrace ==
    ASSUME TypeOK, GraceInv, NEW p \in Procs, InstallPending(p)
    PROVE  GraceInv'
<1> DEFINE k == go[p].key
           t == go[p].timer
           old == pending[k]
<1>0. /\ p \in Goroutines /\ Procs \subseteq Goroutines /\ Timers \subseteq Goroutines
      /\ p \notin Timers /\ NoTimer \notin Timers /\ NoKey \notin Keys
  BY LivestreamAssumption DEF Goroutines
<1>1. /\ k \in Keys /\ t \in armed /\ timer[t] = k
      /\ \A j \in Keys : pending[j] # t
      /\ \A q \in Procs \ {p} : go[q].pc = "unpubInstall" => go[q].timer # t
  BY DEF InstallPending, GraceInv, InstallInv
<1>2. /\ go'[p].pc = "idle"
      /\ \A g \in Goroutines \ {p} : go'[g] = go[g]
  BY <1>0 DEF InstallPending, Return, Run, Idle, TypeOK, GoTypeOK
<1>3. pending'[k] = t /\ \A j \in Keys \ {k} : pending'[j] = pending[j]
  BY <1>1 DEF InstallPending, TypeOK
<1>4. t \in Timers /\ old # t /\ \A j \in Keys \ {k} : pending[j] # NoTimer => pending[j] # old
  BY <1>0, <1>1 DEF TypeOK, GoTypeOK, GraceInv, GraceHasTimer
<1>5. /\ armed \ {old} \subseteq armed' /\ armed' \subseteq armed
      /\ \A s \in Timers \ {old} : timer'[s] = timer[s]
  BY <1>0 DEF InstallPending, StopTimer, TypeOK, GoTypeOK
<1>6. go[old].pc # "idle" => UNCHANGED timer
  BY DEF InstallPending, StopTimer, TypeOK, GoTypeOK
<1>7. GraceHasTimer'
  BY <1>0, <1>1, <1>2, <1>3, <1>4, <1>5 DEF GraceInv, GraceHasTimer, TypeOK, GoTypeOK
<1>8. \A s \in Timers : go'[s].pc # "idle" => timer'[s] = go'[s].key
  BY <1>0, <1>2, <1>5, <1>6 DEF GraceInv
<1>9. InstallInv'
  <2>1. SUFFICES ASSUME NEW q \in Procs, go'[q].pc = "unpubInstall"
                 PROVE  /\ go'[q].timer \in armed' /\ go'[q].key \in Keys
                        /\ timer'[go'[q].timer] = go'[q].key
                        /\ \A j \in Keys : pending'[j] # go'[q].timer
                        /\ \A o \in Procs \ {q} :
                              go'[o].pc = "unpubInstall" => go'[o].timer # go'[q].timer
    BY DEF InstallInv
  <2>2. q # p /\ go'[q] = go[q]
    BY <1>0, <1>2, <2>1
  <2>3. /\ go[q].timer \in armed /\ go[q].key \in Keys /\ timer[go[q].timer] = go[q].key
        /\ \A j \in Keys : pending[j] # go[q].timer
        /\ \A o \in Procs \ {q} : go[o].pc = "unpubInstall" => go[o].timer # go[q].timer
    BY <2>1, <2>2 DEF GraceInv, InstallInv
  <2>4. go[q].timer # old /\ go[q].timer # t /\ go[q].timer \in Timers
    BY <1>1, <2>1, <2>2, <2>3 DEF TypeOK, GoTypeOK
  <2>5. go'[q].timer \in armed' /\ timer'[go'[q].timer] = go'[q].key
    BY <1>5, <2>2, <2>3, <2>4
  <2>6. \A j \in Keys : pending'[j] # go'[q].timer
    BY <1>3, <2>2, <2>3, <2>4
  <2>7. \A o \in Procs \ {q} : go'[o].pc = "unpubInstall" => go'[o].timer # go'[q].timer
    BY <1>0, <1>2, <2>2, <2>3
  <2>8. QED
    BY <2>2, <2>3, <2>5, <2>6, <2>7
<1>10. QED
  BY <1>7, <1>8, <1>9 DEF GraceInv

(* A reconnect deletes the window and stops its timer.                       *)
LEMMA CancelGrace ==
    ASSUME TypeOK, GraceInv, NEW k \in Keys, CancelPending(k)
    PROVE  GraceInv'
<1> DEFINE old == pending[k]
<1>0. /\ NoTimer \notin Timers /\ NoKey \notin Keys /\ old \in Timers
  BY LivestreamAssumption DEF CancelPending, TypeOK
<1>1. \A j \in Keys \ {k} : pending'[j] = pending[j] /\ pending[j] # old
  BY <1>0 DEF CancelPending, TypeOK, GraceInv, GraceHasTimer
<1>2. pending'[k] = NoTimer /\ UNCHANGED go
  BY DEF CancelPending, TypeOK
<1>3. /\ armed' = armed \ {old}
      /\ \A s \in Timers \ {old} : timer'[s] = timer[s]
      /\ go[old].pc # "idle" => UNCHANGED timer
  BY DEF CancelPending, StopTimer, TypeOK, GoTypeOK
<1>4. GraceHasTimer'
  BY <1>0, <1>1, <1>2, <1>3 DEF GraceInv, GraceHasTimer, TypeOK
<1>5. \A s \in Timers : go'[s].pc # "idle" => timer'[s] = go'[s].key
  BY <1>2, <1>3 DEF GraceInv
<1>6. InstallInv'
  BY <1>0, <1>1, <1>2, <1>3 DEF GraceInv, InstallInv, TypeOK, GoTypeOK
<1>7. QED
  BY <1>4, <1>5, <1>6 DEF GraceInv

(* Only here is GraceOutlastsInstall needed: the timer that fires is not one *)
(* that a request has yet to install.                                        *)
LEMMA TimerFiresGrace ==
    ASSUME GraceOutlastsInstall, TypeOK, GraceInv, NEW t \in Timers, TimerFires(t)
    PROVE  GraceInv'
<1>0. /\ t \in Goroutines /\ Procs \subseteq Goroutines /\ Timers \subseteq Goroutines
      /\ t \notin Procs /\ NoTimer \notin Timers
  BY LivestreamAssumption DEF Goroutines
<1>1. /\ armed' = armed \ {t} /\ UNCHANGED <<pending, timer>>
      /\ \A p \in Procs : go[p].pc = "unpubInstall" => go[p].timer # t
  BY DEF TimerFires, Installing
<1>2. go' = [go EXCEPT ![t] = [Idle EXCEPT !.pc = "finLock", !.key = timer[t]]]
  BY DEF TimerFires, Run
<1>3. /\ go'[t].pc = "finLock" /\ go'[t].key = timer[t]
      /\ \A g \in Goroutines \ {t} : go'[g] = go[g]
  BY <1>0, <1>2 DEF Idle, TypeOK, GoTypeOK
<1>4. GraceHasTimer'
  BY <1>0, <1>1, <1>3 DEF GraceInv, GraceHasTimer, TypeOK
<1>5. \A s \in Timers : go'[s].pc # "idle" => timer'[s] = go'[s].key
  BY <1>0, <1>1, <1>3 DEF GraceInv
<1>6. InstallInv'
  BY <1>0, <1>1, <1>3 DEF GraceInv, InstallInv
<1>7. QED
  BY <1>4, <1>5, <1>6 DEF GraceInv

(* The goroutine of t removes its key's window, whichever timer it has; t    *)
(* itself serves no other key.                                               *)
LEMMA FinalizeLockGrace ==
    ASSUME TypeOK, GraceInv, NEW t \in Timers, FinalizeLock(t)
    PROVE  GraceInv'
<1> DEFINE k == go[t].key
<1>0. /\ t \in Goroutines /\ Procs \subseteq Goroutines /\ Timers \subseteq Goroutines
      /\ t \notin Procs /\ NoTimer \notin Timers /\ NoKey \notin Keys
  BY LivestreamAssumption DEF Goroutines
<1>1. go[t].pc = "finLock" /\ timer[t] = k /\ t \notin armed /\ UNCHANGED armed
  BY DEF FinalizeLock, GraceInv, TypeOK, GoTypeOK
<1>2. /\ \A j \in Keys \ {k} : pending'[j] = pending[j] /\ pending[j] # t
      /\ k \in Keys => pending'[k] = NoTimer
  BY <1>0, <1>1 DEF FinalizeLock, TypeOK, GraceInv, GraceHasTimer
<1>3. /\ \A g \in Goroutines \ {t} : go'[g] = go[g]
      /\ \A s \in Timers \ {t} : timer'[s] = timer[s]
  BY <1>0 DEF FinalizeLock, EndFinalize, Return, Run, TypeOK, GoTypeOK
<1>4. go'[t].pc # "idle" => timer'[t] = go'[t].key
  <2>1. CASE pending[k] = NoTimer
    BY <1>0, <2>1 DEF FinalizeLock, EndFinalize, Return, Run, Idle, TypeOK, GoTypeOK
  <2>2. CASE pending[k] # NoTimer
    <3>1. go[t] \in Goroutine
      BY <1>0 DEF TypeOK, GoTypeOK
    <3>2. go'[t] = [go[t] EXCEPT !.pc = "finGet", !.dvr = dvrPath[k]] /\ UNCHANGED timer
      BY <1>0, <2>2 DEF FinalizeLock, Run, TypeOK, GoTypeOK
    <3>3. QED
      BY <1>1, <3>1, <3>2 DEF Goroutine
  <2>3. QED
    BY <2>1, <2>2
<1>5. GraceHasTimer'
  BY <1>0, <1>1, <1>2, <1>3 DEF GraceInv, GraceHasTimer, TypeOK
<1>6. InstallInv'
  BY <1>0, <1>1, <1>2, <1>3 DEF GraceInv, InstallInv, TypeOK, GoTypeOK
<1>7. \A s \in Timers : go'[s].pc # "idle" => timer'[s] = go'[s].key
  BY <1>0, <1>3, <1>4 DEF GraceInv
<1>8. QED
  BY <1>5, <1>6, <1>7 DEF GraceInv

LEMMA RequestGrace ==
    ASSUME TypeOK, GraceInv, NEW p \in Procs, Request(p)
    PROVE  GraceInv'
<1>1. ASSUME NEW u \in Users, NEW k, NEW pc \in {"store", "reset", "info", "ban"},
             ReadOwnRow(p, u, pc, k)
      PROVE  GraceInv'
  <2>1. [Idle EXCEPT !.pc = pc, !.user = u, !.key = k, !.ls = row[u]].pc = pc
    BY DEF Idle
  <2>2. QED
    BY <1>1, <2>1, RunGrace DEF ReadOwnRow, graceVars
<1>2. ASSUME NEW k \in Keys, AuthenticateStreamKey(p, k)
      PROVE  GraceInv'
  <2>1. [Idle EXCEPT !.pc = "authGet", !.key = k].pc = "authGet"
    BY DEF Idle
  <2>2. QED
    BY <1>2, <2>1, RunGrace DEF AuthenticateStreamKey, graceVars
<1>3. CASE HandleDVRComplete(p)
  <2>1. CASE UNCHANGED go
    BY <1>3, <2>1 DEF HandleDVRComplete, GraceInv, GraceHasTimer, InstallInv
  <2>2. CASE ~UNCHANGED go
    <3>1. PICK h \in hooks : Run(p, [Idle EXCEPT !.pc = "dvrGet", !.key = h.key, !.late = h.late])
      BY <1>3, <2>2 DEF HandleDVRComplete
    <3>2. [Idle EXCEPT !.pc = "dvrGet", !.key = h.key, !.late = h.late].pc = "dvrGet"
      BY DEF Idle
    <3>3. QED
      BY <1>3, <3>1, <3>2, RunGrace DEF HandleDVRComplete
  <2>3. QED
    BY <2>1, <2>2
<1>4. QED
  BY <1>1, <1>2, <1>3, UnpublishGrace
     DEF Request, GetStreamKey, ResetStreamKey, UpdateStreamInfo, BanStream

LEMMA RequestStepGrace ==
    ASSUME TypeOK, GraceInv, NEW p \in Procs, RequestStep(p)
    PROVE  GraceInv'
<1> USE DEF graceVars
<1>0. p \in Goroutines /\ p \notin Timers
  BY LivestreamAssumption DEF Goroutines
<1>1. CASE StoreLivestream(p) \/ ResetUpdate(p) \/ InfoUpdate(p) \/ BanUpdate(p) \/ NotifyFollowers(p)
  BY <1>1, ReturnGrace DEF StoreLivestream, ResetUpdate, InfoUpdate, BanUpdate, NotifyFollowers
<1>2. CASE AuthGet(p) \/ DVRGet(p)
  BY <1>0, <1>2, ReturnGrace, GotoGrace DEF AuthGet, DVRGet, GetByStreamKey
<1>3. CASE AuthUpdate(p)
  BY <1>0, <1>3, GotoGrace DEF AuthUpdate
<1>4. QED
  BY <1>0, <1>1, <1>2, <1>3, InstallGrace, ProcessDVRGrace DEF RequestStep

LEMMA TimerStepGrace ==
    ASSUME GraceOutlastsInstall, TypeOK, GraceInv, NEW t \in Timers, TimerStep(t)
    PROVE  GraceInv'
<1>0. t \in Goroutines
  BY DEF Goroutines
<1>1. CASE FinalizeGet(t)
  BY <1>0, <1>1, GotoGrace, EndGrace DEF FinalizeGet, GetByStreamKey
<1>2. CASE FinalizeUpdate(t)
  BY <1>0, <1>2, GotoGrace, EndGrace DEF FinalizeUpdate
<1>3. QED
  BY <1>0, <1>1, <1>2, TimerFiresGrace, FinalizeLockGrace, ProcessDVRGrace DEF TimerStep

LEMMA NextGrace ==
    ASSUME GraceOutlastsInstall
    PROVE  TypeOK /\ GraceInv /\ [Next]_vars => GraceInv'
<1> SUFFICES ASSUME TypeOK, GraceInv, [Next]_vars PROVE GraceInv'
  OBVIOUS
<1> USE DEF graceVars
<1>1. ASSUME UNCHANGED <<graceVars, go>>
      PROVE  GraceInv'
  BY <1>1 DEF GraceInv, GraceHasTimer, InstallInv
<1>2. CASE UNCHANGED vars
  BY <1>1, <1>2 DEF vars
<1>3. ASSUME NEW k \in Keys, Disconnect(k) \/ StartStreaming(k)
      PROVE  GraceInv'
  BY <1>1, <1>3 DEF Disconnect, StartStreaming
<1>4. CASE LoseHook \/ Reconcile
  BY <1>1, <1>4 DEF LoseHook, Reconcile, ReconcileSnapshot, ReconcileList, ReconcileCheck,
                    ReconcileUpdate
<1>5. CASE Restart
  BY <1>5 DEF Restart, Idle, GraceInv, GraceHasTimer, InstallInv, Goroutines
<1>6. QED
  BY <1>2, <1>3, <1>4, <1>5, RequestGrace, RequestStepGrace, TimerStepGrace, CancelGrace
     DEF Next

(* As long as a grace period outlasts the few instructions between arming    *)
(* its timer and installing it, every grace window has a timer that will end *)
(* it, for any number of requests, keys, reconnects and restarts.            *)
THEOREM GraceSafe ==
    ASSUME GraceOutlastsInstall
    PROVE  Spec => []GraceHasTimer
<1>1. Init => GraceInv
  BY DEF Init, Idle, GraceInv, GraceHasTimer, InstallInv, Goroutines
<1>2. GraceInv => GraceHasTimer
  BY DEF GraceInv
<1>3. TypeOK /\ GraceInv /\ [Next]_vars => GraceInv'
  BY NextGrace
<1>4. QED
  BY <1>1, <1>2, <1>3, TypeCorrect, PTL DEF Spec
=============================================================================
