--------------------------- MODULE VideoLifecycle ---------------------------
(***************************************************************************)
(* The video use case: rows of the videos table from upload to playback,   *)
(* the transcode jobs and the worker's callbacks, and the announcements    *)
(* made to followers.                                                      *)
(*                                                                         *)
(* A handler reads the row, then writes its own copy back: one step each.  *)
(* Requests of a user who is not the owner, for an unknown video or in an  *)
(* unsupported format return before they change anything.                  *)
(***************************************************************************)
EXTENDS Naturals, FiniteSets

CONSTANTS
    Videos,     \* video ids, each a fresh uuid: never issued twice
    Procs,      \* request goroutines that may run at the same time
    NoVideo,
    Faults      \* TRUE: database writes and NATS publishes may fail

ASSUME VideoAssumption == NoVideo \notin Videos /\ Faults \in BOOLEAN

VARIABLES
    table,      \* the videos table; status "none": no row
    issued,     \* video ids ever generated
    go,         \* request goroutines
    jobs,       \* transcode jobs in the JetStream stream
    callbacks,  \* the worker's callbacks that may still be delivered
    produced,   \* videos whose playlist the worker has written to S3
    failures,   \* videos the worker has failed to transcode at least once
    confirmed,  \* history: videos whose raw file was declared uploaded
    everPublic, \* history: videos that have been public
    announced   \* videos whose followers have been notified

workerVars == <<jobs, callbacks, produced, failures>>
vars == <<table, issued, go, workerVars, confirmed, everPublic, announced>>

(* Visibility is public or not: private and unlisted are treated alike by  *)
(* everything below.                                                       *)
Row == [status : {"none", "pending", "processing", "complete", "failed"},
        public : BOOLEAN, hls : BOOLEAN]
NoRow == [status |-> "none", public |-> FALSE, hls |-> FALSE]

Callback == [video : Videos, status : {"complete", "failed"}, url : BOOLEAN]

Goroutine ==
    [pc : {"idle", "confirm", "publishJob", "publish", "edit", "thumbnail", "ban",
           "retry", "complete", "failed", "notify"},
     video : Videos \cup {NoVideo}, v : Row, url : BOOLEAN]

Idle == [pc |-> "idle", video |-> NoVideo, v |-> NoRow, url |-> FALSE]

TypeOK ==
    /\ table \in [Videos -> Row]
    /\ issued \subseteq Videos
    /\ go \in [Procs -> Goroutine]
    /\ \A p \in Procs : go[p].pc # "idle" => go[p].video \in issued
    /\ \A v \in Videos : v \notin issued => table[v] = NoRow
    /\ jobs \subseteq issued
    /\ callbacks \subseteq Callback
    /\ produced \subseteq Videos /\ failures \subseteq Videos
    /\ confirmed \subseteq Videos /\ everPublic \subseteq Videos
    /\ announced \subseteq issued

Init ==
    /\ table = [v \in Videos |-> NoRow]
    /\ issued = {}
    /\ go = [p \in Procs |-> Idle]
    /\ jobs = {} /\ callbacks = {}
    /\ produced = {} /\ failures = {}
    /\ confirmed = {} /\ everPublic = {} /\ announced = {}

-----------------------------------------------------------------------------
(* The videos table.                                                       *)

Exists(v) == table[v].status # "none"
PublicNow(v) == everPublic' = IF table'[v].public THEN everPublic \cup {v} ELSE everPublic

(* Mutant of Store: the id is not a fresh one.                             *)
StoreSameId(v, r) ==
    /\ v \notin issued
    /\ table' = [table EXCEPT ![v] = r]
    /\ PublicNow(v)
    /\ UNCHANGED issued

(* VideoRepo.Store.                                                        *)
Store(v, r) ==
    /\ v \notin issued
    /\ issued' = issued \cup {v}
    /\ table' = [table EXCEPT ![v] = r]
    /\ PublicNow(v)

(* Mutant of Update: the row is inserted again when it is gone.            *)
UpdateUpserts(v, r) ==
    /\ table' = [table EXCEPT ![v] = r]
    /\ PublicNow(v)

(* VideoRepo.Update writes the columns of the caller's copy; it affects no *)
(* row, and reports no error, once the video has been deleted.             *)
Update(v, r) ==
    /\ table' = IF Exists(v) THEN [table EXCEPT ![v] = r] ELSE table
    /\ PublicNow(v)

UpdateFails == Faults /\ UNCHANGED <<table, everPublic>>

Run(p, r) == go' = [go EXCEPT ![p] = r]
Return(p) == Run(p, Idle)
Goto(p, pc) == Run(p, [go[p] EXCEPT !.pc = pc])

(* A handler starts with GetByID; an unknown video ends it at once.        *)
Get(p, v, pc, url) ==
    /\ go[p].pc = "idle" /\ Exists(v)
    /\ Run(p, [pc |-> pc, video |-> v, v |-> table[v], url |-> url])

-----------------------------------------------------------------------------
(* Uploads.                                                                *)

(* CreateUpload: the client may then upload the raw file.                  *)
CreateUpload(v) ==
    /\ \E public \in BOOLEAN :
         Store(v, [NoRow EXCEPT !.status = "pending", !.public = public])
    /\ UNCHANGED <<go, workerVars, confirmed, announced>>

(* The replay row that the livestream's processDVR stores before it        *)
(* publishes the job: private, its recording already in S3.                *)
StoreReplay(p, v) ==
    /\ go[p].pc = "idle"
    /\ Store(v, [NoRow EXCEPT !.status = "processing"])
    /\ Run(p, [pc |-> "publishJob", video |-> v, v |-> table'[v], url |-> FALSE])
    /\ confirmed' = confirmed \cup {v}
    /\ UNCHANGED <<workerVars, announced>>

ConfirmUpload(p, v) ==
    /\ Get(p, v, "confirm", FALSE)
    /\ confirmed' = confirmed \cup {v}
    /\ UNCHANGED <<table, issued, workerVars, everPublic, announced>>

ConfirmUpdate(p) ==
    /\ go[p].pc = "confirm"
    /\ \/ /\ Update(go[p].video, [go[p].v EXCEPT !.status = "processing"])
          /\ Goto(p, "publishJob")
       \/ UpdateFails /\ Return(p)
    /\ UNCHANGED <<issued, workerVars, confirmed, announced>>

(* ConfirmUpload ignores the error of PublishTranscodeJob, RetryTranscode  *)
(* returns it; the row is processing in both cases.                        *)
PublishTranscodeJob(p) ==
    /\ go[p].pc = "publishJob"
    /\ jobs' = jobs \cup {go[p].video} \/ (Faults /\ UNCHANGED jobs)
    /\ Return(p)
    /\ UNCHANGED <<table, issued, callbacks, produced, failures, confirmed,
                   everPublic, announced>>

(* RetryTranscode: only a copy that is failed is put back to processing.   *)
RetryTranscode(p, v) ==
    /\ table[v].status = "failed"
    /\ Get(p, v, "retry", FALSE)
    /\ UNCHANGED <<table, issued, workerVars, confirmed, everPublic, announced>>

RetryUpdate(p) ==
    /\ go[p].pc = "retry"
    /\ \/ /\ Update(go[p].video, [go[p].v EXCEPT !.status = "processing"])
          /\ Goto(p, "publishJob")
       \/ UpdateFails /\ Return(p)
    /\ UNCHANGED <<issued, workerVars, confirmed, announced>>

-----------------------------------------------------------------------------
(* Studio requests.                                                        *)

PublishVideo(p, v) ==
    /\ Get(p, v, "publish", FALSE)
    /\ UNCHANGED <<table, issued, workerVars, confirmed, everPublic, announced>>

(* Followers are notified unless the copy was public already.              *)
PublishUpdate(p) ==
    /\ go[p].pc = "publish"
    /\ \/ /\ Update(go[p].video, [go[p].v EXCEPT !.public = TRUE])
          /\ IF go[p].v.public THEN Return(p) ELSE Goto(p, "notify")
       \/ UpdateFails /\ Return(p)
    /\ UNCHANGED <<issued, workerVars, confirmed, announced>>

UpdateVideo(p, v) ==
    /\ Get(p, v, "edit", FALSE)
    /\ UNCHANGED <<table, issued, workerVars, confirmed, everPublic, announced>>

(* ApplyVideoUpdate: a request may leave the visibility or choose one.     *)
EditUpdate(p) ==
    /\ go[p].pc = "edit"
    /\ \/ \E public \in BOOLEAN : Update(go[p].video, [go[p].v EXCEPT !.public = public])
       \/ UpdateFails
    /\ Return(p)
    /\ UNCHANGED <<issued, workerVars, confirmed, announced>>

UpdateThumbnail(p, v) ==
    /\ Get(p, v, "thumbnail", FALSE)
    /\ UNCHANGED <<table, issued, workerVars, confirmed, everPublic, announced>>

(* The thumbnail itself is not modelled: the write puts the copy back.     *)
ThumbnailUpdate(p) ==
    /\ go[p].pc = "thumbnail"
    /\ Update(go[p].video, go[p].v) \/ UpdateFails
    /\ Return(p)
    /\ UNCHANGED <<issued, workerVars, confirmed, announced>>

(* The administrator's BanVideo makes the video private.                   *)
BanVideo(p, v) ==
    /\ Get(p, v, "ban", FALSE)
    /\ UNCHANGED <<table, issued, workerVars, confirmed, everPublic, announced>>

BanUpdate(p) ==
    /\ go[p].pc = "ban"
    /\ Update(go[p].video, [go[p].v EXCEPT !.public = FALSE]) \/ UpdateFails
    /\ Return(p)
    /\ UNCHANGED <<issued, workerVars, confirmed, announced>>

DeleteVideo(v) ==
    /\ Exists(v)
    /\ table' = [table EXCEPT ![v] = NoRow]
    /\ UNCHANGED <<issued, go, workerVars, confirmed, everPublic, announced>>

-----------------------------------------------------------------------------
(* The transcode worker (external) and its callback.                       *)

(* The worker takes a job and will report on it. JetStream delivers at     *)
(* least once: the job may be delivered again.                             *)
Transcode(v) ==
    /\ v \in jobs
    /\ jobs' = jobs \ {v} \/ UNCHANGED jobs
    /\ \/ /\ produced' = produced \cup {v}
          /\ callbacks' = callbacks \cup {[video |-> v, status |-> "complete", url |-> TRUE]}
          /\ UNCHANGED failures
       \/ /\ failures' = failures \cup {v}
          /\ callbacks' = callbacks \cup {[video |-> v, status |-> "failed", url |-> FALSE]}
          /\ UNCHANGED produced
    /\ UNCHANGED <<table, issued, go, confirmed, everPublic, announced>>

(* HandleTranscodeCallback. The worker may call again with the same        *)
(* report, when it has seen no answer; a call may also never arrive.       *)
HandleTranscodeCallback(p) ==
    /\ \E c \in callbacks :
         /\ Get(p, c.video, c.status, c.url)
         /\ callbacks' = callbacks \ {c} \/ UNCHANGED callbacks
    /\ UNCHANGED <<table, issued, jobs, produced, failures, confirmed, everPublic,
                   announced>>

LoseCallback ==
    /\ \E c \in callbacks : callbacks' = callbacks \ {c}
    /\ UNCHANGED <<table, issued, go, jobs, produced, failures, confirmed, everPublic,
                   announced>>

(* Mutant of Completed: the playlist's URL is not stored.                  *)
CompletedWithoutURL(r, url) == [r EXCEPT !.status = "complete"]

Completed(r, url) == [r EXCEPT !.status = "complete", !.hls = @ \/ url]

(* Mutant of CallbackComplete: the visibility is not looked at.            *)
CallbackCompleteAnyVisibility(p) ==
    LET r == go[p].v IN
    /\ go[p].pc = "complete"
    /\ \/ /\ Update(go[p].video, Completed(r, go[p].url))
          /\ IF r.status = "complete" THEN Return(p) ELSE Goto(p, "notify")
       \/ UpdateFails /\ Return(p)
    /\ UNCHANGED <<issued, workerVars, confirmed, announced>>

(* Followers are notified when the copy is public and was not complete.    *)
CallbackComplete(p) ==
    LET r == go[p].v IN
    /\ go[p].pc = "complete"
    /\ \/ /\ Update(go[p].video, Completed(r, go[p].url))
          /\ IF r.status # "complete" /\ r.public THEN Goto(p, "notify") ELSE Return(p)
       \/ UpdateFails /\ Return(p)
    /\ UNCHANGED <<issued, workerVars, confirmed, announced>>

CallbackFailed(p) ==
    /\ go[p].pc = "failed"
    /\ \/ Update(go[p].video, [go[p].v EXCEPT !.status = "failed"])
       \/ UpdateFails
    /\ Return(p)
    /\ UNCHANGED <<issued, workerVars, confirmed, announced>>

(* The goroutine that notifies the followers outlives the request; its     *)
(* errors are ignored.                                                     *)
NotifyFollowers(p) ==
    /\ go[p].pc = "notify"
    /\ announced' = announced \cup {go[p].video} \/ (Faults /\ UNCHANGED announced)
    /\ Return(p)
    /\ UNCHANGED <<table, issued, workerVars, confirmed, everPublic>>

(* The backend restarts: what its goroutines were about to do is lost.     *)
Restart ==
    /\ go' = [p \in Procs |-> Idle]
    /\ UNCHANGED <<table, issued, workerVars, confirmed, everPublic, announced>>

-----------------------------------------------------------------------------
Request(p, v) ==
    \/ StoreReplay(p, v) \/ ConfirmUpload(p, v) \/ RetryTranscode(p, v)
    \/ PublishVideo(p, v) \/ UpdateVideo(p, v) \/ UpdateThumbnail(p, v)
    \/ BanVideo(p, v)

RequestStep(p) ==
    \/ ConfirmUpdate(p) \/ PublishTranscodeJob(p) \/ RetryUpdate(p)
    \/ PublishUpdate(p) \/ EditUpdate(p) \/ ThumbnailUpdate(p) \/ BanUpdate(p)
    \/ CallbackComplete(p) \/ CallbackFailed(p) \/ NotifyFollowers(p)

Next ==
    \/ \E v \in Videos : CreateUpload(v) \/ DeleteVideo(v) \/ Transcode(v)
    \/ \E p \in Procs, v \in Videos : Request(p, v)
    \/ \E p \in Procs : HandleTranscodeCallback(p) \/ RequestStep(p)
    \/ LoseCallback
    \/ Restart

Spec == Init /\ [][Next]_vars

-----------------------------------------------------------------------------
(* A status has a cause, in the table and in every copy that may still be  *)
(* written over it: a video shown as complete has a playlist URL and the   *)
(* worker did write the playlist, a failed one did fail, and no video      *)
(* leaves pending before its raw file was declared uploaded (entity.Video  *)
(* Status, ConfirmUpload, HandleTranscodeCallback).                        *)
Caused(v, r) ==
    /\ r.status = "complete" => r.hls
    /\ r.hls => v \in produced
    /\ r.status = "failed" => v \in failures
    /\ r.status \in {"processing", "complete", "failed"} => v \in confirmed
StatusHasCause ==
    /\ \A v \in Videos : Caused(v, table[v])
    /\ \A p \in Procs : go[p].pc # "idle" => Caused(go[p].video, go[p].v)

(* Followers only hear of a video that has been public, as long as it has *)
(* not been deleted meanwhile: a private replay or draft is never          *)
(* announced, whoever edits it while its transcode completes               *)
(* (HandleTranscodeCallback, PublishVideo).                                *)
WasPublic(v) == v \in everPublic \/ ~Exists(v)
AnnouncedWasPublic ==
    /\ \A v \in announced : WasPublic(v)
    /\ \A p \in Procs : go[p].pc = "notify" => WasPublic(go[p].video)

(* A deleted video stays deleted, although handlers that read it before    *)
(* go on to write their copy (DeleteVideo, VideoRepo.Update).              *)
DeletedStaysDeleted ==
    [][\A v \in issued : ~Exists(v) => ~Exists(v)']_vars

(* A callback that finds the video complete when it writes notifies nobody *)
(* (video_test.go: "A duplicate/retried transcode callback for an          *)
(* already-complete video must not spam followers a second time").         *)
DuplicateNotifiesNobody ==
    [][\A p \in Procs :
          CallbackComplete(p) /\ table[go[p].video].status = "complete"
              => go'[p].pc # "notify"]_vars

(* Saving a thumbnail changes nothing else of the video, whatever happened *)
(* to it since UpdateThumbnail read it (restapi updateThumbnail: "Update   *)
(* thumbnail URL of a studio video").                                      *)
ThumbnailKeepsStatus ==
    [][\A p \in Procs : ThumbnailUpdate(p) => table' = table]_vars
=============================================================================
