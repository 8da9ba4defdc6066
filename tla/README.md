# pineVid backend: TLA+ verification project

pineVid is the Go backend of a video and live-streaming platform. This
directory holds TLA+ models of the parts of it whose correctness depends on the
order of events, the TLC configurations that check them on small instances, and
TLAPS proofs that hold for instances of every size.

## The system

| Part | State it keeps | Operations | Interacts with |
| --- | --- | --- | --- |
| Livestream use case (`internal/usecase/livestream`, its repository, `pkg/srs`) | `livestreams` table; in memory the map `pending` from stream key to grace window (timer, DVR path) under `UseCase.mu`; recordings on local disk | stream key issue and reset, info edit, SRS's `on_publish`, `on_unpublish` and `on_dvr`, finalize on a timer goroutine, reconciliation loop | SRS (webhooks and its API), Postgres, S3, NATS (transcode jobs), notifications |
| Video use case (`internal/usecase/video`, its repository) | `videos` table | upload request, confirm, publish, edit, thumbnail, retry, delete, transcode callback | S3 (presigned uploads), NATS, the transcode worker's HTTP callback, notifications, SSE hub |
| View counter (`internal/repo/persistent/view`) | `videos.views`, Redis counters and deduplication keys | record a view, sync pending views, show the total | Postgres, Redis |
| Likes, comment and post likes, follows, saved videos | toggle tables, the Redis like counter | toggle, count | Postgres, Redis |
| Users and administration | `users` table, signed tokens (nothing stored), worker heartbeats | register, login, refresh, profile edit, ban, heartbeat, dashboard | Postgres, the transcode workers |
| Comments, subtitles, preferences, vocabulary | one table each | insert or replace in a transaction, list, look a word up in eight languages | Postgres, a translation service |
| History, saved videos, followed channels, posts, notifications, words: their pages | one table each | add, remove, mark read, list a page | Postgres, SSE hubs |
| Feeds and recommendation | the trending sorted sets in Redis, the trained vectors in memory | trending, reels, newest, personalised feed, train | Postgres, Redis |
| SSE hubs (`internal/events`) | subscriber channels with buffers of 10, 20 and 16 | subscribe, broadcast, unsubscribe | HTTP streams |
| RPC over RabbitMQ and NATS (`pkg/rabbitmq`, `pkg/nats`) | pending calls by correlation id, connection | remote call, serve, reconnect, shut down | brokers |
| Server lifecycle (`internal/app`) | the running servers | start, notify, shut down | all of the above |

### What is hard about it

* **Interleaving.** Every HTTP request runs on a goroutine of its own; a
  repository `Update` writes every column of a copy read earlier without a
  transaction or a version, so any two handlers of one row race.
* **Timers and a map in memory.** A grace window is an entry of a map and a
  timer. The timer may fire while the map is locked by a handler that is about
  to cancel it, and a restart forgets all windows.
* **Messages from outside.** SRS's webhooks and the worker's callbacks arrive
  late, in either order, more than once, or never.
* **Several stores, no transaction.** A replay is an upload, a file removal, an
  insert and a publish; a retry is a row update and a publish; a view sync is a
  Postgres transaction and Redis commands inside it.

`PROJECT.json` lists each place under `hazards`, with the properties about it.

### What makes the parts correct

* Livestream: rows are consistent whatever stale copies are written back; a key
  in grace always has something that will end its window; replays point at
  recordings that exist; a stream that is gone does not look live for ever.
* Video: no status without a cause, no announcement of a video that was never
  public, no deleted video back in the table.
* RPC: an answer reaches the call it belongs to, at most once, and every call
  returns; shutting down returns.
* Process: a server's failure or a signal leads to the exit, with the requests in
  flight drained and the NATS subject released.
* Toggles and counters: the answer is what the table says, the counter equals
  the rows it counts, up to the races named in the property.
* Views: none is lost or invented, and no viewer is shown more than there are.
* Accounts: a ban ends the sessions of the account.
* Hubs: nothing is sent on a closed channel, and a client that left is let go.
* Lists and feeds: a reader who pages through is shown everything that stayed
  in place; a feed shows only what was public when it was read.

## Modules

| Module | Role |
| --- | --- |
| `Livestream` | the livestream use case and its repository, with SRS as its environment |
| `VideoLifecycle` | the video use case and its repository, with the transcode worker as its environment |
| `RemoteCall` | abstract: what the RPC packages promise to a caller |
| `RmqRpc` | RPC over RabbitMQ, client and servers, with the broker; implements `RemoteCall` |
| `NatsRpc` | RPC over NATS; implements `RemoteCall` |
| `AppLifecycle` | `app.Run`: start, failure, signal and shutdown of the three servers; composed with `NatsRpc`, whose server is one of them |
| `Toggles` | likes, comment likes, post likes, saved videos and follows |
| `Views` | the view counter between Redis and Postgres, its readers, and the edits that write views back |
| `Accounts` | registration, sessions, profile edits, bans; heartbeats of the workers |
| `Content` | comments and their pages; replacement of subtitle tracks and of categories; the dictionary lookup |
| `Delivery` | the three SSE hubs, the handlers and forwarding goroutines behind them, the requests that broadcast, `NotifyFollowers` |
| `Feed` | trending, reels and newest feeds; the trainer and the personalised feed |
| `Lists` | eight lists and a client that pages through them |
| `MCLivestream`, `MCVideoLifecycle`, `MCRmqRpc`, `MCAppLifecycle` | the module above, for TLC, with symmetry sets where symmetry is used |
| `MCEngagement` | `Toggles` and `Views`, which share no state: a behaviour is one of the two |
| `MCCommunity` | `Accounts`, `Content`, `Delivery`, `Feed` and `Lists`, likewise: a behaviour is one of ten parts |
| `LivestreamProofs`, `VideoProofs`, `RmqRpcProofs`, `AppProofs` | the proofs about one module each (`AppProofs`: `AppLifecycle` with `NatsRpc`) |
| `EngagementProofs` | the proofs about `Toggles`, `Views` and `MCEngagement` |
| `ContentProofs`, `DeliveryProofs` | the proofs about `Content` and `Delivery` |
| `CommunityProofs` | the proofs about `Feed`, `Lists`, `Accounts` and the composition `MCCommunity` |

In every module a database statement, a Redis command, a message, a critical
section or a channel operation is one step, and what a goroutine has read is
kept in a record of its own until it uses it. A definition that begins with
"Mutant of" is a plausible mistake in the code; it is used by no specification,
and each property is violated when its mutant takes the definition's place.

### `Livestream`

| Code | Model |
| --- | --- |
| row of `livestreams` (`stream_key`, `is_live`, `started_at`, `ended_at`) | `row[u]`, one row per user as `user_id` is unique; timestamps are "set or not" |
| `UseCase.pending`, `pendingEnd.timer`, `pendingEnd.dvrPath` | `pending[k]`, the timer named there, `dvrPath[k]` |
| `time.AfterFunc`, `Timer.Stop` | `timer`, `armed`; `StopTimer` has no effect on a timer that fired |
| a request or timer goroutine between two round trips | a record `go[g]` with its program counter and its copy `ls` of the row |
| `AuthenticateStreamKey` | `CancelPending` for a reconnect; otherwise `AuthenticateStreamKey`, `AuthGet`, `AuthUpdate`, `NotifyFollowers` |
| `UnpublishStream` | `UnpublishStream` (look-up and timer), `InstallPending` (the critical section) |
| `finalizeStreamEnd` | `TimerFires`, `FinalizeLock`, `FinalizeGet`, `FinalizeUpdate` |
| `HandleDVRComplete`, `processDVR` | `HandleDVRComplete`, `DVRGet`, `DVRStat`, `DVRUpload`, `DVRRemove`, `DVRInsert`, `DVRPublish` |
| `GetStreamKey`, `ResetStreamKey`, `UpdateStreamInfo` | a read of the user's row and a write of the copy: `StoreLivestream`, `ResetUpdate`, `InfoUpdate` |
| `ReconcileLiveStreams` | `ReconcileSnapshot`, `ReconcileList`, `ReconcileCheck`, `ReconcileUpdate`, per row |
| the administrator's `BanStream` | a read and a write of the copy, which only clears `is_live`: `BanStream`, `BanUpdate`; allowed when `Bans` holds |
| SRS | `srs[k]`, `hooks`, `Disconnect`, `StartStreaming`, `LoseHook` (external) |
| process restart | `Restart`: memory is lost, tables, files and SRS stay |

Every critical section of `UseCase.mu` is one step, because nothing else can see
its middle; every database, S3, file and NATS call is one step, and each of
those whose failure the code handles or ignores may fail when `Faults` holds.
Title, category, viewer counts and URLs are left out. `NotifyFollowers` is a
step without effect here: what it does is in `Delivery`.
The first reconciliation pass, which the code runs before it serves requests,
may overlap requests in the model: a superset of the real behaviours.

`GraceOutlastsInstall` is an assumption about time: a grace period (seconds)
outlasts the few instructions between `time.AfterFunc` and the critical section
that records the timer. Without it the timer could end a window that is not
there yet and leave one that nothing ends; the code has no defence against that
but the length of the period.

### `VideoLifecycle`

| Code | Model |
| --- | --- |
| row of `videos` (`status`, `visibility`, `hls_url`) | `table[v]`; private and unlisted are both "not public" |
| `CreateUpload`, the replay row of `processDVR` | `CreateUpload`, `StoreReplay` |
| `ConfirmUpload`, `RetryTranscode`, `PublishVideo`, `UpdateVideo`, `UpdateThumbnail`, the administrator's `BanVideo` | a step that reads the row and a step that writes the copy |
| `VideoRepo.Update` on a deleted row | `Update` changes nothing and succeeds |
| `PublishTranscodeJob`, the JetStream stream | `jobs`, delivered at least once |
| the worker | `Transcode` (external): completes or fails a job and will call back; a "complete" report carries the playlist's URL (the endpoint would accept one without) |
| `HandleTranscodeCallback` | `HandleTranscodeCallback` (read), `CallbackComplete` or `CallbackFailed` (write); a callback may be repeated or lost |
| `go NotifyFollowers` | `NotifyFollowers` on the request's goroutine, `announced` |

`produced`, `failures`, `confirmed` and `everPublic` record what has happened,
so that a status or an announcement can be compared with it. Requests by
somebody other than the owner return before they change anything and are not
steps. Titles, thumbnails and view counts are left out.

### `RemoteCall`, `RmqRpc`, `NatsRpc`

`RemoteCall` says of each call: it returns once; it returns a verdict only when
a server gave that verdict to this very call; a call refused before it was sent
is never served. Both carriers are shown to implement it (`Abstract`, an
`INSTANCE ... WITH phase <- ...`); the program counter of a call maps to idle,
called or returned, and the verdict is a history variable of the detailed
modules.

| Code | Model |
| --- | --- |
| `Client.RemoteCall`: the wait on `c.err`/timeout before, `publish`, `addCall`, the wait after, `deleteCall` | `RemoteCall`, `preRemoteCallWait`, `publish`, `addCall`, `RemoteCallReturn` |
| `c.calls` under its mutex | `calls`; a reply that finds no entry is dropped |
| the client's goroutine (`start`, `serveCall`, reconnecting) | `ClientNew`, `ClientDeliver`, `BeginReconnect`, `ClientReconnect`, `ClientStop` |
| `Connection.AttemptConnect`: a failed `Dial` leaves a nil or, when the handshake failed, a closed connection, a failed `Channel` a nil channel | `conn[p].connection`, `conn[p].channel`; a use of a nil field ends the process (`crash[p]`) |
| the servers, fed by a fanout exchange | `ServerNew` ... `ServerAnswer`; every bound server takes a copy |
| `Shutdown` on either side | `ClientShutdown`, `ServerShutdown` and their returns |
| NATS: `RequestMsg`, the subscription, `handleMessage`, `Shutdown` | `remoteCall`, `RemoteCallReturn`, `handleMessage`, `NatsRelease`, `NatsShutdownReturn` |

The brokers and `nats.Conn` are external and modelled by what the packages use
of them: queues die with their connection, messages may be lost, a request gets
its first reply, a timeout or an error. With two servers on the fanout exchange
both execute a request and both reply, so `RmqRpc` implements `RemoteCall` with
one server; the second reply may even close the `done` channel of a call a
second time, which panics (`crash[Client] = "closedTwice"`). The run `RmqFanout`
has two servers and meets that panic; it shows, and `DoubleCloseSafe` proves for
any number of servers, that two different servers' answers to a caller who has
not left are the only way to it. `answered` is a history variable for this.

### `AppLifecycle`

`main` follows `Run`, `initServers`, `startServers`, `waitForShutdown` and
`shutdownServers`; each server has its goroutine. `http = "orphan"` is the case
of `Listen` running after `Shutdown` has found no listener: it then serves on,
and the process never exits. `FailureEndsWait` speaks of the HTTP and gRPC
servers only, as nobody reads the NATS server's notifications. `ShutdownInOrder`
is what each `eg.Wait` is for: no server is told to stop, and main does not
exit, while a goroutine of the server before may still start serving; so an
orphaned HTTP server keeps the gRPC and the NATS server running as well.

### `Toggles` and `Views`

A toggle is a SELECT and then an INSERT or a DELETE by the id it found. Two
toggles of one user overlap; `overtaken` and `skewed` remember that a row
changed between the two, or that a write whose error the code drops failed.
`ToggleLike` also moves a Redis counter, which nothing sets from the table again.
A view is a `SET NX` and an `INCR`; the synchronisation is a transaction around
an UPDATE and a DECRBY per video; `GetByID` adds the two halves; any edit of a
video writes back the views in its copy. `leaked` is set by the three steps that
lose or double views. `SyncBatchViewsToPostgres` has no caller in the repository:
it is modelled as the operation it offers.

### `Accounts`, `Content`, `Delivery`, `Feed`, `Lists`

* `Accounts`: a change of an account is a read of the row and a write of all its
  columns. A token is known by the time it has left. `Silence` is time passing
  for the heartbeats.
* `Content`: `ListVideoComments` is three statements in the order of the code.
  A replacement (`ReplaceCues`, `SetCategories`) is a transaction at READ
  COMMITTED: its DELETE sees what was committed when it ran. `LookupWord` starts
  a goroutine per language (three stand for eight) and waits for its WaitGroup.
* `Delivery`: a hub's RWMutex is modelled by when a send and an unsubscription
  may happen; channels are counters up to `BufCap`; the chat and notification
  handlers have a forwarding goroutine in between, the video handler a ping.
* `Feed`: ranking from Redis and rows from Postgres are separate steps, and
  videos are hidden in between. A list of videos is the position of each video
  in it, and a page the set of videos whose index lies within it: which videos
  are on which page is kept, the order inside one answer is the list's. Of the factorisation only which training the two
  vectors come from is kept, with the read and write locks around their use.
* `Lists`: `AddRow` and `DropRow` are the writes of each list, in the order its
  query sorts by; a page is a COUNT and a LIMIT/OFFSET, and the client asks for
  the next page while the total says there is one. `Ahead(i)` is what the query
  sorts before `i`, so LIMIT and OFFSET are bounds on its size.

## Runs

| Run | Expectation | What it shows |
| --- | --- | --- |
| `LivestreamRows` | pass | `RowsConsistent`: no row, and no copy that may be written over it, is live and ended |
| `LivestreamGrace` | pass | `GraceHasTimer`: with failures and a restart, a key in grace has a timer or a finalizer; `ReplayHasRecording`: job implies row implies recording, whichever step fails |
| `LivestreamHealing` | pass | `GraceEnds` and `SelfHealing` under fairness |
| `VideoLifecycle` | pass | `TypeOK`, `StatusHasCause`, `AnnouncedWasPublic`, `DeletedStaysDeleted` |
| `RmqRpc` | pass | `TypeOK`; `ImplementsRemoteCall`; `RegisteredWhileWaiting`; `CallsReturn` and `ShutdownReturns` under fairness |
| `RmqFanout` | pass | two servers: `DoubleCloseTakesTwoServers`, `NilPanicsAfterReconnect`; all three panics happen in this run, each for these causes only |
| `AppLifecycle` | pass | `NatsImplementsRemoteCall`; `DrainedBeforeExit`; `ShutdownInOrder`; `FailureEndsWait`, `ShutdownEnds` and `NatsCallsReturn` under fairness |
| `Engagement` | pass | `CounterFollowsTable`, `AnswerTrueUnlessOvertaken`, `NoLikeOfDeletedPost`, `ViewsConserved`, `NeverShowsTooMany` |
| `Community` | pass | one property or two of each of its ten parts: `BanEndsSessions`, `CrashedWorkerAgesOut`, `HeaderCoversPage`, `LastReplaceStands`, `LookupComplete`, `NoSendOnClosed`, `LeaversAreReleased`, `NotifyCoversFollowers`, `ServesOnlyPublic`, `OneModel`, `NothingSkipped` |
| `LivestreamGraceKeepsLive` | violation | reconciliation takes a stream offline inside its grace window |
| `AccountsEditKeepsBan` | violation | a profile edit that overlaps a ban lifts it |
| `SubtitlesReupload` | violation | two overlapping uploads leave the cues of both |

A violation run checks a sentence of the repository's comments or tests that
the code does not keep; `PROJECT.json` quotes it under `findings`. Each
needs an interleaving of two goroutines at a bad moment, and the sequential
tests of the repository pass.

### Known deviations without a run

Some properties are kept in the modules, with the sentence of the code they
state, although no run checks them: the code does not keep them. To see the
behaviour, put one in place of the invariants of the configuration named.

| Property | Configuration | What happens |
| --- | --- | --- |
| `FinalizeEndsOwnWindow` | `LivestreamGrace` with two timers | a finalizer that lost the race for the lock ends the next window |
| `NoThrowawayReplay` | `LivestreamGrace` | an `on_dvr` that arrives after the reconnect becomes a replay |
| `DeletedIsSaved` | `LivestreamGrace` | the next segment's recording is deleted before it is uploaded |
| `DuplicateNotifiesNobody` | `VideoLifecycle` | two concurrent deliveries of one callback announce a video twice |
| `ThumbnailKeepsStatus` | `VideoLifecycle` | saving a thumbnail reverts a status written meanwhile |
| `FallbackIsPublicList` | `Community`, as its only `PROPERTY`, with `Parts = {"feed"}` | `GetTrending` passes the viewer's id on as the creator filter (`video.go:151`): with no ranking in Redis, a viewer who is logged in gets only their own videos as trending |

Others follow from the exceptions the properties name, and were met on the way:
`UpdateStreamInfo` reverts a key reset the way `UpdateThumbnail` reverts a
status; a ban of a stream or a video is undone by any handler that has read the
row before it; a video published
again is announced again; the like counter drifts for good once two toggles of
one user overlap; a rolled-back synchronisation loses views; a request with page
0 makes the offset of a ranked feed negative; a full SSE buffer drops the last
status of a video; the forwarding goroutine of a chat or notification stream
stays for ever when its handler leaves while it holds a message; a RabbitMQ
client that cannot reconnect cannot be shut down until a call takes its error;
a viewer whose INCR failed is taken for a duplicate for a minute.

### Bounds

* Livestream: one user, as rows of different users share nothing but the
  reconciliation pass, whose scan takes them one at a time. One stream key, two
  in `LivestreamRows` so that a key can be reset while the old one streams;
  keys are never reissued, so their number bounds the resets. One request
  goroutine beside a timer goroutine and the reconciliation goroutine: three
  kinds of goroutine already interleave on the row and on `pending`; races of
  two requests and of two timers are what the proofs, which have any number of
  them, add. One replay, one restart (`MaxCrashes`), `ScanLimit` 1. `Bans` is
  false in `LivestreamGraceKeepsLive`, where a ban would make the stream
  offline for a reason of its own.
* `VideoLifecycle`: one video, as no operation involves two, and two requests.
  Its state is finite: restarts, repeated callbacks and redelivered jobs are
  unlimited.
* `RmqRpc`: two calls, one of them to an unknown handler, one server, two
  attempts to reconnect (`Attempts`) and one lost connection (`MaxLosses`), so
  that one side's reconnect fails once, or for good, while the other is up.
  `RmqFanout`: one call and two servers, the fewest that answer one call twice.
* `AppLifecycle`: two NATS calls and one gRPC request (`MaxRpcs`); failures and
  signals come at any time.
* `Engagement`: three requests, so that two toggles of one user are overtaken by
  a third or by another user's; two videos, two recorders, two views per video
  (`MaxViews`) and one synchronisation (`MaxSyncs`), which every edit and reader
  may overlap.
* `Community`: two of everything that must race (writers, commenters, replacing
  transactions, senders, followers), one SSE client, buffers of one
  (`BufCap`), pages of one row, three items and four changes (`MaxWrites`) in a
  list, three trainings (`MaxTrains`), three comments (`MaxComments`), tokens of
  one tick and heartbeats that are stale after two.

Symmetry is used where only safety is checked. Deadlock is checked in the
livestream and video runs; the other runs have an end: all calls
returned, the process exited, all bounded requests done.

### Fairness

* `Livestream`: each request goroutine, each timer and the reconciliation loop
  are weakly fair: the Go scheduler runs a runnable goroutine, a timer that is
  not stopped fires, a ticker ticks for as long as the process lives. Users,
  publishers, webhooks and restarts are not fair: in `SelfHealing` an
  `on_unpublish` that is never delivered is a lost one. Database failures are
  excluded from that run (`Faults` is false), since nothing heals while every
  write fails.
* `RmqRpc`, `AppLifecycle`, `NatsRpc`: the steps of each caller, of the client's
  goroutine, of each server and of main. Timeouts are steps of the caller and so
  fire in the end. No message has to arrive, nobody has to call or shut down.
  Handlers return: `ShutdownEnds` depends on it, as `GracefulStop` has no
  deadline.
* `Accounts`: a login that has checked the password answers; time passes for
  tokens and heartbeats. `Delivery`: pings tick, a handler that has noticed its
  client's departure unsubscribes (a waiting writer of Go's RWMutex is not
  starved by readers), a broadcast under way goes on.

## Proofs

Every safety invariant, every safety action property and both refinements that
a passing run checks are proved for every value of the constants: any number of
users, keys, requests, timers, videos, calls, clients, rows and changes, with
the failures and restarts of the models. The bounds of the runs (`MaxViews`,
`MaxWrites`, ...) are parameters of the theorems, so each holds whatever they
are.

| Theorem | States | Argument |
| --- | --- | --- |
| `TypeCorrect` (`LivestreamProofs`, `VideoProofs`) | `[]TypeOK` | inductive as it stands; in `Livestream` it includes that an armed timer's goroutine is idle and that a recording being processed has an id |
| `RowsSafe` | `[]RowsConsistent` | inductive because it speaks of every copy as well as of the table: `WentLive` and `WentOffline` set the three columns together, everything else writes a consistent copy back |
| `ReplaySafe` | `[]ReplayHasRecording` | strengthened by `ReplayInv`: a goroutine about to insert has uploaded, one about to publish has inserted |
| `GraceSafe` | `[]GraceHasTimer`, assuming `GraceOutlastsInstall` | strengthened by `GraceInv`: a timer belongs to one key, and a timer about to be installed is armed, is recorded nowhere else and belongs to one request |
| `CauseSafe` | `[]StatusHasCause` | strengthened by `CauseInv`: what a goroutine is about to write, the jobs and the callbacks in flight have causes; causes are never withdrawn |
| `AnnouncedSafe` | `[]AnnouncedWasPublic` | strengthened by `PublicInv`: a public copy belongs to a video that has been public, since `Update` publishes what it writes |
| `DeletedSafe` | `DeletedStaysDeleted` | from `TypeOK` alone: only `Store` makes a row, and only of a new id |
| `RpcTypeCorrect` | `[]TypeOK` of `RmqRpc` | strengthened by `RpcTypeInv`: a server that is busy serves a call, no request is in the client's queue |
| `RegisteredSafe` | `[]RegisteredWhileWaiting` | inductive with the types: `addCall` and `deleteCall` touch the entry of one call |
| `RmqRefines` | `ImplementsRemoteCall`, assuming `AtMostOneServer` | strengthened by `RpcInv`: at most one copy of a call is in the queues and in a server's hands together (`RequestsOnce`), and at most one reply (`RepliesOnce`), which carries the verdict given to that call (`CallsAnswered`); then every step is a step of `RemoteCall` or a stutter |
| `DoubleCloseSafe` | `[]DoubleCloseTakesTwoServers`, for any number of servers | strengthened by `FanoutInv`: a server holds a request in one place at most until it has answered it (`ServerOnce`), so a reply that joins another one of its call, in the queue or in the call, comes from another server (`Accounted`) |
| `NilPanicSafe` | `[]NilPanicsAfterReconnect`, for any number of servers | strengthened by `NilInv`: a goroutine that serves, or has stopped serving, has both fields of its connection, and callers exist only after `New` |
| `AppTypeCorrect` | `[]TypeOK` of `AppLifecycle` | strengthened by `AppTypeInv`, which the next two need as well; it is proved only: what could break the types breaks a property the run checks |
| `DrainedSafe`, `OrderSafe` | `[]DrainedBeforeExit`, `[]ShutdownInOrder` | strengthened by where main is in `shutdownServers` (`Drained`, `Ordered`): before it starts the servers nothing runs, what it has waited for is over, and nothing revives it or is accepted afterwards |
| `NatsRefines` | `NatsImplementsRemoteCall` | strengthened by `NatsInv`: a request that waits or is being served has no verdict yet and is in one place only, and what lies in a caller's inbox is the verdict given to that call |
| `ViewsConservedSafe`, `NeverTooManySafe` | `[]ViewsConserved`, `[]NeverShowsTooMany` | strengthened by `ViewInv`: views are counted in Postgres, in Redis and in an open transaction; a reader's first half is never more than what Postgres holds later unless a leak has been recorded; both theorems exempt runs with a leak (`leaked`) |
| `CounterSafe` | `[]CounterFollowsTable` | strengthened by `ToggleInv`: the counter differs from the number of rows by the requests that have written the row and not yet counted it (cardinalities of finite sets) |
| `NoLikeSafe`, `AnswersSafe` | `[]NoLikeOfDeletedPost`, `AnswerTrueUnlessOvertaken` | from the parts `PostGone` and `ReadTrue` of `ToggleInv`: what a request has read is still true unless it was overtaken |
| `EngagementTypeCorrect` | `[]TypeOK` of `MCEngagement` | `ViewInv` and `ToggleInv`; each part leaves the other alone |
| `DeliveryTypeCorrect`, `NoSendOnClosedSafe`, `NotifySafe` | `[]DeliveryTypeOK`, `[]NoSendOnClosed`, `[]NotifyCoversFollowers` | strengthened by `DeliveryInv`: a client that a broadcast has still to reach is registered in that hub, because `Unsubscribe` waits for the lock; a follower that was listed is to do, stored or failed |
| `ContentTypeCorrect` | `[]ContentTypeOK` | the three invariants of the next lines |
| `HeaderSafe` | `[]HeaderCoversPage` | strengthened by `CommentInv`: comments are only added, so what a statement has counted is still there when the next one counts |
| `ReplaceSafe` | `[]LastReplaceStands` | strengthened by `ReplaceInv`: until it is overlapped, a transaction's DELETE has seen all that is committed |
| `LookupSafe` | `[]LookupComplete` | strengthened by `LookupInv`: the WaitGroup counts the goroutines that run, and who does not run has written |
| `OneModelSafe` | `[]OneModel` | strengthened by `RecInv`: the halves differ only while the trainer holds the lock, and a feed that has read one of them keeps it out |
| `OnlyPublicSafe` | `ServesOnlyPublic` | from the types (`FeedInv`): each of the two steps that answer takes the page out of a list filtered in that step |
| `ListTypeCorrect`, `NothingSkippedSafe` | `[]ListTypeOK`, `[]NothingSkipped` | strengthened by `ListInv`: a row that was there at the beginning and has not been shown is still found, at an offset that no page before the next has covered and that is within the total the client goes by. Rows in front only increase offsets (`FrontCalm`), rows at the end change none (`BackCalm`), and the client stops exactly when its pages cover the total (`LastPageIs`) |
| `CommunityTypeCorrect` | `[]TypeOK` of `MCCommunity` | a behaviour of the composition is one of each part (`PartsHold`); adds `AccountInv`: a request about to write has a row to write back |
| `CommunitySafe` | the safety properties of the `Community` run, of its own `Spec` | `PartsHold` and the theorems of the parts |

The assumptions are those named in the modules: the "no value" constants are
not members of the sets they complete, timers and requests are distinct, the
bounds are natural numbers, and the sets that are counted (users and requests
of a toggle, recorders of views, languages, videos of a feed, items of a list)
are finite. Of the theorems about `RmqRpc` only the refinement assumes at most
one server, and needs to: see above. The strengthened invariants were checked with TLC before they were
proved.

Two modules say things without sequences so that they can be proved about:
`Lists` sorts by `Ahead` and `Feed` by positions, because what `SelectSeq` and
`SortSeq` return is a fact by induction over data, which is out of the prover's
reach.

Only model-checked: the liveness properties (`GraceEnds`, `SelfHealing`,
`CallsReturn`, `ShutdownReturns`, `FailureEndsWait`, `ShutdownEnds`,
`NatsCallsReturn`, `BanEndsSessions`, `CrashedWorkerAgesOut`,
`LeaversAreReleased`), since the prover has no support for fairness; and the
violations, which are counterexamples.

## Not modelled, and the plan

What the components leave out is said in their notes in `PROJECT.json`. Left
out for good: the arithmetic of the matrix factorisation (floating point),
configuration, start-up and migrations, tracing and logging, request parsing
and response formatting, the contents of WebVTT cues and of translations,
generated code under `docs/`, and the thin wrappers around drivers, which the
models see through the effects their callers observe. The gRPC, NATS and AMQP
controllers translate between messages and the use cases modelled here and keep
no state.

Still worth doing:

1. Proofs of lemmas behind the exceptions of the safety properties: that a view
   leaks, a counter drifts or a walk is shaken only by the steps named.
2. A property about videos that stay in "processing" because the publication of
   their job failed, under failures that end.
3. A composition of `Livestream` and `VideoLifecycle` over the replay row.
