----------------------------- MODULE Livestream -----------------------------
(***************************************************************************)
(* The livestream use case: the livestreams table, the reconnection grace  *)
(* map `pending` with its timers, the handlers behind SRS's webhooks and   *)
(* the Studio requests, the DVR pipeline and the reconciliation loop.      *)
(*                                                                         *)
(* A goroutine is a record in `go`; every database round trip and every    *)
(* critical section of UseCase.mu is one step of it, so goroutines         *)
(* interleave exactly where the code lets them.                            *)
(***************************************************************************)
EXTENDS Naturals, FiniteSets

CONSTANTS
    Users,          \* owners of livestream rows (user_id is UNIQUE)
    Keys,           \* stream keys, each a fresh uuid: never issued twice
    Procs,          \* request goroutines that may run at the same time
    Timers,         \* time.AfterFunc timers that may be outstanding at once
    Videos,         \* ids of replay videos: a bound on processed recordings
    NoUser, NoKey, NoTimer, NoVideo,
    Faults,             \* TRUE: database, S3 and hook deliveries may fail
    Bans,               \* TRUE: administrators ban streams
    DVRConfigured,      \* processDVR's dependencies are set
    GraceOutlastsInstall, \* a timer cannot fire before it is installed
    ScanLimit,          \* reconcileScanLimit
    MaxCrashes          \* bound on restarts of the backend

ASSUME LivestreamAssumption ==
    /\ NoUser \notin Users /\ NoKey \notin Keys
    /\ NoTimer \notin Timers /\ NoVideo \notin Videos
    /\ Timers \cap Procs = {}
    /\ Faults \in BOOLEAN /\ Bans \in BOOLEAN /\ DVRConfigured \in BOOLEAN
    /\ GraceOutlastsInstall \in BOOLEAN
    /\ ScanLimit \in Nat \ {0} /\ MaxCrashes \in Nat

VARIABLES
    row,      \* the livestreams table; key = NoKey: the user has no row
    issued,   \* stream keys ever generated
    pending,  \* UseCase.pending: the timer of the key's grace window
    dvrPath,  \* pendingEnd.dvrPath # "" of the key's grace window
    timer,    \* the key each outstanding timer was armed for
    armed,    \* the outstanding timers that have not fired
    go,       \* goroutines: requests and fired timers
    recon,    \* the reconciliation goroutine
    srs,      \* SRS: what it is doing with each stream key
    hooks,    \* SRS webhook calls not yet delivered
    disk,     \* the key's file in dvrLocalDir: none, not yet in S3, or saved
    objects,  \* replay recordings uploaded to S3
    stored,   \* replay rows of the videos table
    jobs,     \* transcode jobs published for replays
    crashes

srsVars == <<srs, hooks>>
dvrVars == <<disk, objects, stored, jobs>>
graceVars == <<pending, dvrPath, timer, armed>>
vars == <<row, issued, graceVars, go, recon, srsVars, dvrVars, crashes>>

Goroutines == Procs \cup Timers

Row == [key : Keys \cup {NoKey}, live : BOOLEAN,
        started : BOOLEAN, ended : BOOLEAN]
NoRow == [key |-> NoKey, live |-> FALSE, started |-> FALSE, ended |-> FALSE]

(* Where a goroutine stands: the database call or critical section it is   *)
(* about to execute.                                                       *)
PC == {"idle", "store", "reset", "info", "ban",
       "authGet", "authUpdate", "notify", "unpubInstall",
       "dvrGet", "finLock", "finGet", "finUpdate",
       "stat", "upload", "remove", "insert", "publish"}

(* The steps of processDVR after the replay's id has been generated.       *)
HasVideo == {"upload", "remove", "insert", "publish"}

Goroutine ==
    {r \in [pc : PC, key : Keys \cup {NoKey}, user : Users \cup {NoUser},
            ls : Row, timer : Timers \cup {NoTimer}, dvr : BOOLEAN,
            late : BOOLEAN, video : Videos \cup {NoVideo}] :
        /\ r.pc \in HasVideo => r.video \in Videos
        /\ r.pc = "finLock" => r.key \in Keys}

Idle == [pc |-> "idle", key |-> NoKey, user |-> NoUser, ls |-> NoRow,
         timer |-> NoTimer, dvr |-> FALSE, late |-> FALSE, video |-> NoVideo]

Hook == [type : {"unpublish", "dvr"}, key : Keys, late : BOOLEAN]

(* The reconciliation loop waiting for its next pass.                      *)
NextPass == [pc |-> "snapshot", active |-> {}, rows |-> {}, cur |-> NoUser]

GoTypeOK ==
    /\ timer \in [Timers -> Keys \cup {NoKey}]
    /\ armed \subseteq Timers
    /\ go \in [Goroutines -> Goroutine]
    /\ \A t \in armed : timer[t] \in Keys /\ go[t].pc = "idle"

TypeOK ==
    /\ GoTypeOK
    /\ row \in [Users -> Row]
    /\ issued \subseteq Keys
    /\ pending \in [Keys -> Timers \cup {NoTimer}]
    /\ dvrPath \in [Keys -> BOOLEAN]
    /\ recon \in [pc : {"snapshot", "list", "check", "update"}, active : SUBSET Keys,
                  rows : SUBSET (Users \X Row), cur : Users \cup {NoUser}]
    /\ srs \in [Keys -> {"off", "hook", "admitted", "on"}]
    /\ hooks \subseteq Hook
    /\ disk \in [Keys -> {"none", "new", "saved"}]
    /\ objects \subseteq Videos /\ stored \subseteq Videos /\ jobs \subseteq Videos
    /\ crashes \in 0 .. MaxCrashes

Init ==
    /\ row = [u \in Users |-> NoRow]
    /\ issued = {}
    /\ pending = [k \in Keys |-> NoTimer]
    /\ dvrPath = [k \in Keys |-> FALSE]
    /\ timer = [t \in Timers |-> NoKey]
    /\ armed = {}
    /\ go = [g \in Goroutines |-> Idle]
    /\ recon = NextPass
    /\ srs = [k \in Keys |-> "off"]
    /\ hooks = {}
    /\ disk = [k \in Keys |-> "none"]
    /\ objects = {} /\ stored = {} /\ jobs = {}
    /\ crashes = 0

-----------------------------------------------------------------------------
(* The livestreams table.                                                  *)

(* LivestreamRepo.GetByStreamKey: the owners of the rows with this key.    *)
GetByStreamKey(k) == {u \in Users : row[u].key = k}

(* LivestreamRepo.Update writes every column of the caller's copy.         *)
Update(u, ls) == row' = [row EXCEPT ![u] = ls]

(* A call whose error the caller ignores: it may also have no effect.      *)
TryUpdate(u, ls) == Update(u, ls) \/ (Faults /\ UNCHANGED row)

(* Mutant of WentLive: ended_at is not cleared.                            *)
WentLiveStillEnded(ls) == [ls EXCEPT !.live = TRUE, !.started = TRUE]

WentLive(ls) == [ls EXCEPT !.live = TRUE, !.started = TRUE, !.ended = FALSE]
WentOffline(ls) == [ls EXCEPT !.live = FALSE, !.ended = TRUE]

(* The goroutine g becomes r; Fetch leaves it at pc with its own copy of   *)
(* u's row.                                                                *)
Run(g, r) == go' = [go EXCEPT ![g] = r]
Goto(g, pc) == Run(g, [go[g] EXCEPT !.pc = pc])
Return(g) == Run(g, Idle)
Fetch(g, u, pc) == Run(g, [go[g] EXCEPT !.user = u, !.ls = row[u], !.pc = pc])

(* A timer that fired keeps its slot until its goroutine has returned.     *)
FreeTimer(t) == timer[t] = NoKey /\ go[t].pc = "idle"

-----------------------------------------------------------------------------
(* Requests from Studio.                                                   *)

(* Each Studio request reads the user's row first and holds the stream key *)
(* it has generated, if any, until its write.                              *)
ReadOwnRow(p, u, pc, k) ==
    /\ go[p].pc = "idle"
    /\ Run(p, [Idle EXCEPT !.pc = pc, !.user = u, !.key = k, !.ls = row[u]])
    /\ UNCHANGED <<row, graceVars, recon, srsVars, dvrVars, crashes>>

NewKey(k) == k \notin issued /\ issued' = issued \cup {k}

(* GetStreamKey when the user has no row: it will create one.              *)
GetStreamKey(p, u, k) == row[u].key = NoKey /\ NewKey(k) /\ ReadOwnRow(p, u, "store", k)

ResetStreamKey(p, u, k) == row[u].key # NoKey /\ NewKey(k) /\ ReadOwnRow(p, u, "reset", k)

UpdateStreamInfo(p, u) ==
    row[u].key # NoKey /\ ReadOwnRow(p, u, "info", NoKey) /\ UNCHANGED issued

(* The administrator's BanStream goes through the same read and write.     *)
BanStream(p, u) ==
    Bans /\ row[u].key # NoKey /\ ReadOwnRow(p, u, "ban", NoKey) /\ UNCHANGED issued

(* Store fails on the UNIQUE user_id when another request was faster.      *)
StoreLivestream(p) ==
    /\ go[p].pc = "store"
    /\ \/ /\ row[go[p].user].key = NoKey
          /\ Update(go[p].user, [NoRow EXCEPT !.key = go[p].key])
       \/ /\ row[go[p].user].key # NoKey \/ Faults
          /\ UNCHANGED row
    /\ Return(p)
    /\ UNCHANGED <<issued, graceVars, recon, srsVars, dvrVars, crashes>>

ResetUpdate(p) ==
    /\ go[p].pc = "reset"
    /\ TryUpdate(go[p].user, [go[p].ls EXCEPT !.key = go[p].key])
    /\ Return(p)
    /\ UNCHANGED <<issued, graceVars, recon, srsVars, dvrVars, crashes>>

(* Title and category are not modelled: the write puts the copy back.      *)
InfoUpdate(p) ==
    /\ go[p].pc = "info"
    /\ TryUpdate(go[p].user, go[p].ls)
    /\ Return(p)
    /\ UNCHANGED <<issued, graceVars, recon, srsVars, dvrVars, crashes>>

(* The stream is only marked offline: SRS goes on, and ended_at stays.     *)
BanUpdate(p) ==
    /\ go[p].pc = "ban"
    /\ TryUpdate(go[p].user, [go[p].ls EXCEPT !.live = FALSE])
    /\ Return(p)
    /\ UNCHANGED <<issued, graceVars, recon, srsVars, dvrVars, crashes>>

-----------------------------------------------------------------------------
(* SRS (external): publishers come and go, webhooks are sent.              *)

(* A publisher disconnects; SRS closes the recording and will call         *)
(* on_unpublish and on_dvr, in no particular order.                        *)
Disconnect(k) ==
    /\ srs[k] = "on"
    /\ srs' = [srs EXCEPT ![k] = "off"]
    /\ hooks' = hooks \cup {[type |-> t, key |-> k, late |-> FALSE] :
                               t \in {"unpublish", "dvr"}}
    /\ disk' = [disk EXCEPT ![k] = "new"]
    /\ UNCHANGED <<row, issued, graceVars, go, recon, objects, stored, jobs,
                   crashes>>

(* A webhook call is lost: SRS crashed or could not reach the backend.     *)
LoseHook ==
    /\ Faults
    /\ \E h \in hooks : hooks' = hooks \ {h}
    /\ UNCHANGED <<row, issued, graceVars, go, recon, srs, dvrVars, crashes>>

(* SRS starts streaming once on_publish has been accepted.                 *)
StartStreaming(k) ==
    /\ srs[k] = "admitted"
    /\ srs' = [srs EXCEPT ![k] = "on"]
    /\ UNCHANGED <<row, issued, graceVars, go, recon, hooks, dvrVars, crashes>>

-----------------------------------------------------------------------------
(* AuthenticateStreamKey, SRS's on_publish.                                *)

(* The recording of a segment that ended before the reconnect has not been *)
(* announced yet: its on_dvr will arrive late.                             *)
MarkLate(k) ==
    hooks' = {IF h.type = "dvr" /\ h.key = k THEN [h EXCEPT !.late = TRUE] ELSE h :
                 h \in hooks}

(* Mutant of StopTimer: the timer is given up without being stopped.       *)
StopTimerForgotten(t) ==
    /\ UNCHANGED armed
    /\ timer' = IF t \in armed THEN [timer EXCEPT ![t] = NoKey] ELSE timer

(* timer.Stop has no effect on a timer that has already fired.             *)
StopTimer(t) ==
    /\ armed' = armed \ {t}
    /\ timer' = IF t \in armed THEN [timer EXCEPT ![t] = NoKey] ELSE timer

(* Mutant of CancelPending: the entry is not deleted from pending.         *)
CancelPendingKeepsEntry(k) ==
    /\ srs[k] = "off" /\ pending[k] # NoTimer
    /\ StopTimer(pending[k])
    /\ srs' = [srs EXCEPT ![k] = "admitted"]
    /\ MarkLate(k)
    /\ UNCHANGED <<row, issued, pending, dvrPath, go, recon, dvrVars, crashes>>

(* A reconnect within the grace window cancels the pending finalize.       *)
CancelPending(k) ==
    /\ srs[k] = "off" /\ pending[k] # NoTimer
    /\ StopTimer(pending[k])
    /\ pending' = [pending EXCEPT ![k] = NoTimer]
    /\ dvrPath' = [dvrPath EXCEPT ![k] = FALSE]
    /\ srs' = [srs EXCEPT ![k] = "admitted"]
    /\ MarkLate(k)
    /\ UNCHANGED <<row, issued, go, recon, dvrVars, crashes>>

AuthenticateStreamKey(p, k) ==
    /\ srs[k] = "off" /\ go[p].pc = "idle" /\ pending[k] = NoTimer
    /\ Run(p, [Idle EXCEPT !.pc = "authGet", !.key = k])
    /\ srs' = [srs EXCEPT ![k] = "hook"]
    /\ UNCHANGED <<row, issued, graceVars, recon, hooks, dvrVars, crashes>>

AuthGet(p) ==
    /\ go[p].pc = "authGet"
    /\ \/ /\ \E u \in GetByStreamKey(go[p].key) : Fetch(p, u, "authUpdate")
          /\ UNCHANGED srs
       \/ /\ GetByStreamKey(go[p].key) = {} \/ Faults
          /\ Return(p)
          /\ srs' = [srs EXCEPT ![go[p].key] = "off"]
    /\ UNCHANGED <<row, issued, graceVars, recon, hooks, dvrVars, crashes>>

(* The result of Update is ignored; the publish is admitted either way.    *)
AuthUpdate(p) ==
    /\ go[p].pc = "authUpdate"
    /\ TryUpdate(go[p].user, WentLive(go[p].ls))
    /\ srs' = [srs EXCEPT ![go[p].key] = "admitted"]
    /\ Goto(p, "notify")
    /\ UNCHANGED <<issued, graceVars, recon, hooks, dvrVars, crashes>>

(* The goroutine that announces the stream outlives the request. What it   *)
(* writes, the notifications table, is no part of this module's state.     *)
NotifyFollowers(p) ==
    /\ go[p].pc = "notify"
    /\ Return(p)
    /\ UNCHANGED <<row, issued, graceVars, recon, srsVars, dvrVars, crashes>>

-----------------------------------------------------------------------------
(* UnpublishStream, SRS's on_unpublish, and the grace timer.               *)

(* time.AfterFunc starts the timer before pending knows about it.          *)
UnpublishStream(p, t) ==
    /\ go[p].pc = "idle" /\ FreeTimer(t)
    /\ \E h \in hooks :
         /\ h.type = "unpublish"
         /\ hooks' = hooks \ {h}
         /\ \/ /\ GetByStreamKey(h.key) # {}
               /\ timer' = [timer EXCEPT ![t] = h.key]
               /\ armed' = armed \cup {t}
               /\ Run(p, [Idle EXCEPT !.pc = "unpubInstall", !.key = h.key,
                                     !.timer = t])
            \/ /\ GetByStreamKey(h.key) = {} \/ Faults
               /\ UNCHANGED <<go, timer, armed>>
    /\ UNCHANGED <<row, issued, pending, dvrPath, recon, srs, dvrVars, crashes>>

(* Under mu: stop the timer of an existing window, install the new one.    *)
InstallPending(p) ==
    LET k == go[p].key IN
    /\ go[p].pc = "unpubInstall"
    /\ IF pending[k] # NoTimer THEN StopTimer(pending[k])
                               ELSE UNCHANGED <<timer, armed>>
    /\ pending' = [pending EXCEPT ![k] = go[p].timer]
    /\ dvrPath' = [dvrPath EXCEPT ![k] = FALSE]
    /\ Return(p)
    /\ UNCHANGED <<row, issued, recon, srsVars, dvrVars, crashes>>

Installing(t) == \E p \in Procs : go[p].pc = "unpubInstall" /\ go[p].timer = t

(* The grace period is over: the timer's function runs on a goroutine.     *)
TimerFires(t) ==
    /\ t \in armed
    /\ GraceOutlastsInstall => ~Installing(t)
    /\ armed' = armed \ {t}
    /\ Run(t, [Idle EXCEPT !.pc = "finLock", !.key = timer[t]])
    /\ UNCHANGED <<row, issued, pending, dvrPath, timer, recon, srsVars, dvrVars,
                   crashes>>

-----------------------------------------------------------------------------
(* finalizeStreamEnd on the goroutine of timer t.                          *)

(* The fired timer's slot is free again once its goroutine is idle.        *)
EndFinalize(t) ==
    /\ Return(t)
    /\ timer' = [timer EXCEPT ![t] = NoKey]

(* Under mu: whatever entry the key has is removed.                        *)
FinalizeLock(t) ==
    LET k == go[t].key IN
    /\ go[t].pc = "finLock"
    /\ pending' = [pending EXCEPT ![k] = NoTimer]
    /\ dvrPath' = [dvrPath EXCEPT ![k] = FALSE]
    /\ IF pending[k] = NoTimer
       THEN EndFinalize(t)
       ELSE /\ Run(t, [go[t] EXCEPT !.pc = "finGet", !.dvr = dvrPath[k]])
            /\ UNCHANGED timer
    /\ UNCHANGED <<row, issued, armed, recon, srsVars, dvrVars, crashes>>

FinalizeGet(t) ==
    /\ go[t].pc = "finGet"
    /\ \/ /\ \E u \in GetByStreamKey(go[t].key) : Fetch(t, u, "finUpdate")
          /\ UNCHANGED timer
       \/ /\ GetByStreamKey(go[t].key) = {} \/ Faults
          /\ EndFinalize(t)
    /\ UNCHANGED <<row, issued, pending, dvrPath, armed, recon, srsVars, dvrVars,
                   crashes>>

FinalizeUpdate(t) ==
    /\ go[t].pc = "finUpdate"
    /\ TryUpdate(go[t].user, WentOffline(go[t].ls))
    /\ IF go[t].dvr THEN Goto(t, "stat") /\ UNCHANGED timer ELSE EndFinalize(t)
    /\ UNCHANGED <<issued, pending, dvrPath, armed, recon, srsVars, dvrVars, crashes>>

-----------------------------------------------------------------------------
(* HandleDVRComplete, SRS's on_dvr, and processDVR.                        *)

(* Under mu: inside a grace window the recording is only remembered.       *)
HandleDVRComplete(p) ==
    /\ go[p].pc = "idle"
    /\ \E h \in hooks :
         /\ h.type = "dvr"
         /\ hooks' = hooks \ {h}
         /\ IF pending[h.key] # NoTimer
            THEN /\ dvrPath' = [dvrPath EXCEPT ![h.key] = TRUE]
                 /\ UNCHANGED go
            ELSE /\ Run(p, [Idle EXCEPT !.pc = "dvrGet", !.key = h.key,
                                       !.late = h.late])
                 /\ UNCHANGED dvrPath
    /\ UNCHANGED <<row, issued, pending, timer, armed, recon, srs, dvrVars, crashes>>

DVRGet(p) ==
    /\ go[p].pc = "dvrGet"
    /\ \/ \E u \in GetByStreamKey(go[p].key) : Fetch(p, u, "stat")
       \/ (GetByStreamKey(go[p].key) = {} \/ Faults) /\ Return(p)
    /\ UNCHANGED <<row, issued, graceVars, recon, srsVars, dvrVars, crashes>>

(* processDVR runs on a request or on the goroutine of a timer.            *)
EndDVR(g) == IF g \in Timers THEN EndFinalize(g) ELSE Return(g) /\ UNCHANGED timer

InUse == objects \cup {go[g].video : g \in Goroutines}

DVRStat(g) ==
    /\ go[g].pc = "stat"
    /\ IF DVRConfigured /\ disk[go[g].key] # "none"
       THEN /\ \E v \in Videos \ InUse :
                 Run(g, [go[g] EXCEPT !.pc = "upload", !.video = v])
            /\ UNCHANGED timer
       ELSE EndDVR(g)
    /\ UNCHANGED <<row, issued, pending, dvrPath, armed, recon, srsVars, dvrVars,
                   crashes>>

(* Mutant of DVRUpload: the error of UploadFile is ignored.                *)
DVRUploadUnchecked(g) ==
    /\ go[g].pc = "upload"
    /\ \/ /\ disk[go[g].key] # "none"
          /\ objects' = objects \cup {go[g].video}
          /\ disk' = [disk EXCEPT ![go[g].key] = "saved"]
       \/ UNCHANGED <<objects, disk>>
    /\ Goto(g, "remove")
    /\ UNCHANGED <<row, issued, graceVars, recon, srsVars, stored, jobs, crashes>>

DVRUpload(g) ==
    /\ go[g].pc = "upload"
    /\ \/ /\ disk[go[g].key] # "none"
          /\ objects' = objects \cup {go[g].video}
          /\ disk' = [disk EXCEPT ![go[g].key] = "saved"]
          /\ Goto(g, "remove")
          /\ UNCHANGED timer
       \/ /\ disk[go[g].key] = "none" \/ Faults
          /\ EndDVR(g)
          /\ UNCHANGED <<objects, disk>>
    /\ UNCHANGED <<row, issued, pending, dvrPath, armed, recon, srsVars, stored, jobs,
                   crashes>>

DVRRemove(g) ==
    /\ go[g].pc = "remove"
    /\ \/ disk' = [disk EXCEPT ![go[g].key] = "none"]
       \/ Faults /\ UNCHANGED disk
    /\ Goto(g, "insert")
    /\ UNCHANGED <<row, issued, graceVars, recon, srsVars, objects, stored, jobs,
                   crashes>>

DVRInsert(g) ==
    /\ go[g].pc = "insert"
    /\ \/ /\ stored' = stored \cup {go[g].video}
          /\ Goto(g, "publish")
          /\ UNCHANGED timer
       \/ /\ Faults
          /\ EndDVR(g)
          /\ UNCHANGED stored
    /\ UNCHANGED <<row, issued, pending, dvrPath, armed, recon, srsVars, disk, objects,
                   jobs, crashes>>

(* The error of PublishTranscodeJob is ignored.                            *)
DVRPublish(g) ==
    /\ go[g].pc = "publish"
    /\ jobs' = jobs \cup {go[g].video} \/ (Faults /\ UNCHANGED jobs)
    /\ EndDVR(g)
    /\ UNCHANGED <<row, issued, pending, dvrPath, armed, recon, srsVars, disk, objects,
                   stored, crashes>>

-----------------------------------------------------------------------------
(* ReconcileLiveStreams, one pass after another on a goroutine of its own. *)

ReconcileSnapshot ==
    /\ recon.pc = "snapshot"
    /\ recon' = [NextPass EXCEPT !.pc = "list", !.active = {k \in Keys : srs[k] = "on"}]
    /\ UNCHANGED <<row, issued, graceVars, go, srsVars, dvrVars, crashes>>

(* ListActive returns at most reconcileScanLimit of the live rows; their   *)
(* order is the database's.                                                *)
ReconcileList ==
    LET live == {<<u, row[u]>> : u \in {v \in Users : row[v].live}} IN
    /\ recon.pc = "list"
    /\ \/ \E rows \in SUBSET live :
            /\ \/ Cardinality(rows) = ScanLimit
               \/ rows = live /\ Cardinality(live) < ScanLimit
            /\ recon' = IF rows = {} THEN NextPass
                        ELSE [recon EXCEPT !.pc = "check", !.rows = rows]
       \/ Faults /\ recon' = NextPass
    /\ UNCHANGED <<row, issued, graceVars, go, srsVars, dvrVars, crashes>>

DropRow(r) ==
    recon' = IF recon.rows = {r} THEN NextPass
             ELSE [recon EXCEPT !.pc = "check", !.rows = @ \ {r}, !.cur = NoUser]

(* A row is skipped when SRS reported its key or its key is in grace.      *)
ReconcileCheck(r) ==
    /\ recon.pc = "check" /\ r \in recon.rows
    /\ IF r[2].key \in recon.active \/ pending[r[2].key] # NoTimer
       THEN DropRow(r)
       ELSE recon' = [recon EXCEPT !.pc = "update", !.cur = r[1]]
    /\ UNCHANGED <<row, issued, graceVars, go, srsVars, dvrVars, crashes>>

(* Mutant of ReconcileUpdate: is_live is left as it is.                    *)
ReconcileUpdateKeepsLive(r) ==
    /\ recon.pc = "update" /\ r \in recon.rows /\ r[1] = recon.cur
    /\ TryUpdate(r[1], r[2])
    /\ DropRow(r)
    /\ UNCHANGED <<issued, graceVars, go, srsVars, dvrVars, crashes>>

ReconcileUpdate(r) ==
    /\ recon.pc = "update" /\ r \in recon.rows /\ r[1] = recon.cur
    /\ TryUpdate(r[1], WentOffline(r[2]))
    /\ DropRow(r)
    /\ UNCHANGED <<issued, graceVars, go, srsVars, dvrVars, crashes>>

Reconcile ==
    \/ ReconcileSnapshot
    \/ ReconcileList
    \/ \E r \in recon.rows : ReconcileCheck(r) \/ ReconcileUpdate(r)

-----------------------------------------------------------------------------
(* The backend restarts: pending, its timers and every goroutine are gone; *)
(* SRS sees an unanswered on_publish as a rejection. The reconciliation    *)
(* loop starts with a pass.                                                *)
Restart ==
    /\ crashes < MaxCrashes
    /\ crashes' = crashes + 1
    /\ pending' = [k \in Keys |-> NoTimer]
    /\ dvrPath' = [k \in Keys |-> FALSE]
    /\ timer' = [t \in Timers |-> NoKey]
    /\ armed' = {}
    /\ go' = [g \in Goroutines |-> Idle]
    /\ recon' = NextPass
    /\ srs' = [k \in Keys |-> IF srs[k] = "hook" THEN "off" ELSE srs[k]]
    /\ UNCHANGED <<row, issued, hooks, dvrVars>>

ProcessDVR(g) ==
    DVRStat(g) \/ DVRUpload(g) \/ DVRRemove(g) \/ DVRInsert(g) \/ DVRPublish(g)

(* The steps a running request or a fired timer's goroutine takes.         *)
RequestStep(p) ==
    \/ StoreLivestream(p) \/ ResetUpdate(p) \/ InfoUpdate(p) \/ BanUpdate(p)
    \/ AuthGet(p) \/ AuthUpdate(p) \/ NotifyFollowers(p) \/ InstallPending(p) \/ DVRGet(p)
    \/ ProcessDVR(p)

TimerStep(t) ==
    \/ TimerFires(t)
    \/ FinalizeLock(t) \/ FinalizeGet(t) \/ FinalizeUpdate(t)
    \/ ProcessDVR(t)

Request(p) ==
    \/ \E u \in Users, k \in Keys : GetStreamKey(p, u, k) \/ ResetStreamKey(p, u, k)
    \/ \E u \in Users : UpdateStreamInfo(p, u) \/ BanStream(p, u)
    \/ \E k \in Keys : AuthenticateStreamKey(p, k)
    \/ \E t \in Timers : UnpublishStream(p, t)
    \/ HandleDVRComplete(p)

Next ==
    \/ \E p \in Procs : Request(p) \/ RequestStep(p)
    \/ \E t \in Timers : TimerStep(t)
    \/ \E k \in Keys : CancelPending(k) \/ Disconnect(k) \/ StartStreaming(k)
    \/ LoseHook
    \/ Reconcile
    \/ Restart

(* Goroutines, timers and the ticker of the reconciliation loop run;       *)
(* nothing makes a user, a publisher or a webhook act.                     *)
Fairness ==
    /\ \A p \in Procs : WF_vars(RequestStep(p))
    /\ \A t \in Timers : WF_vars(TimerStep(t))
    /\ WF_vars(Reconcile)

Spec == Init /\ [][Next]_vars
FairSpec == Spec /\ Fairness

-----------------------------------------------------------------------------
(* A row that is shown live has a start and no end, in the table and in    *)
(* every copy a goroutine may still write back: Update replaces the whole  *)
(* row, so one inconsistent copy would be enough to corrupt it.            *)
LiveRow(ls) == ls.live => ls.started /\ ~ls.ended
RowsConsistent ==
    /\ \A u \in Users : LiveRow(row[u])
    /\ \A g \in Goroutines : LiveRow(go[g].ls)
    /\ \A r \in recon.rows : LiveRow(r[2])

(* Every grace window has a timer that will end it: the timer recorded in  *)
(* pending is still armed, or its finalizeStreamEnd has yet to take the    *)
(* lock. Without it a stream stays "in grace" for ever and reconciliation  *)
(* skips it for ever (livestream.go, ReconcileLiveStreams: "that path      *)
(* already owns their eventual finalize").                                 *)
GraceHasTimer ==
    \A k \in Keys : pending[k] # NoTimer =>
        /\ timer[pending[k]] = k
        /\ pending[k] \in armed \/ go[pending[k]].pc = "finLock"

(* A transcode job for a replay is only published once its row is in the   *)
(* videos table, and a row only exists once its recording is in S3,        *)
(* whichever step of processDVR fails or is cut short by a restart         *)
(* (processDVR: never a video "that points at a file nobody produced").    *)
ReplayHasRecording == jobs \subseteq stored /\ stored \subseteq objects

(* A finalizing goroutine ends the grace window its own timer opened, not  *)
(* a later one (finalizeStreamEnd: "runs after the reconnection grace      *)
(* period elapses with no reconnect").                                     *)
FinalizeEndsOwnWindow ==
    [][\A t \in Timers, k \in Keys :
          FinalizeLock(t) /\ go[t].key = k /\ pending[k] # NoTimer
              => pending[k] = t]_vars

(* A stream in its grace window is still marked live, so a reconnect has   *)
(* nothing to restore (AuthenticateStreamKey: "the stream was never        *)
(* actually marked offline").                                              *)
GraceKeepsLive ==
    \A k \in Keys : pending[k] # NoTimer =>
        \A u \in GetByStreamKey(k) : row[u].live

(* A segment that ended in a reconnect within the grace window never       *)
(* becomes a replay of its own, however late its on_dvr arrives            *)
(* (HandleDVRComplete: "if the streamer reconnects, this segment is        *)
(* discarded").                                                            *)
NoThrowawayReplay ==
    \A p \in Procs : go[p].late => go[p].pc # "publish"

(* A recording is only deleted from dvrLocalDir once it is in S3           *)
(* (processDVR: "best-effort local cleanup, the file now lives in S3").    *)
DeletedIsSaved ==
    [][\A k \in Keys : disk[k] = "new" => disk'[k] # "none"]_vars

(* Every grace window ends: by a reconnect or by finalizeStreamEnd.        *)
GraceEnds == \A k \in Keys : pending[k] # NoTimer ~> pending[k] = NoTimer

(* Self-healing: once SRS streams nothing any more, no row goes on looking *)
(* live, although every on_unpublish may have been lost and the backend    *)
(* restarted with its grace windows in memory (ReconcileLiveStreams).      *)
Quiet == \A k \in Keys : srs[k] = "off"
SelfHealing == \A u \in Users : <>[]Quiet => []<>(~row[u].live)
=============================================================================
