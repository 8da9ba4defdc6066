------------------------------ MODULE Toggles -------------------------------
(***************************************************************************)
(* The check-then-write toggles: video likes with their Redis counter,     *)
(* comment likes, post likes, saved videos and follows, one target of each *)
(* kind.  A request reads the user's row, then inserts or deletes by what  *)
(* it read; another request of the same user can come in between.          *)
(*                                                                         *)
(* A row is the id it was inserted with: likes, comment_likes, post_likes  *)
(* and saved_videos are unique in (user, target) and deleted by id; follows*)
(* has the pair as its key and is deleted by it.                           *)
(***************************************************************************)
EXTENDS Integers, FiniteSets

CONSTANTS Users, Owner,   \* Owner: the user whose channel is followed, author of the post
          Requests,       \* one toggle each
          NoRow, Old,     \* no row; the id of a row that was there at the start
          Faults          \* statements and Redis commands may fail

ASSUME ToggleAssumption ==
    /\ IsFiniteSet(Users) /\ IsFiniteSet(Requests)
    /\ Owner \in Users
    /\ NoRow \notin Requests /\ Old \notin Requests /\ NoRow # Old
    /\ Faults \in BOOLEAN

Kinds == {"like", "commentLike", "postLike", "save", "follow"}

VARIABLES
    tbl,      \* tbl[k][u]: the id of u's row in the table of kind k
    post,     \* the post exists
    hasRedis, \* redispkg.New succeeded at start-up
    redis,    \* the counter video_likes:<id>
    req,      \* req[r]: the toggle request r
    skewed    \* history: a like toggle was overtaken, or one of its writes failed

toggleVars == <<tbl, post, hasRedis, redis, req, skewed>>

ToggleTypeOK ==
    /\ tbl \in [Kinds -> [Users -> Requests \cup {NoRow, Old}]]
    /\ post \in BOOLEAN /\ hasRedis \in BOOLEAN
    /\ redis \in (-Cardinality(Requests)) .. (Cardinality(Users) + Cardinality(Requests))
    /\ req \in [Requests -> [pc : {"idle", "select", "write", "redis", "count", "done", "error"},
                             kind : Kinds, user : Users, found : Requests \cup {NoRow, Old},
                             overtaken : BOOLEAN, on : BOOLEAN,
                             count : -1 .. (Cardinality(Users) + Cardinality(Requests))]]
    /\ skewed \in BOOLEAN

-----------------------------------------------------------------------------

(* A COUNT over the table; never the Redis counter. *)
GetLikeCount(k) == Cardinality({u \in Users : tbl[k][u] # NoRow})

(* What the next step of r knows of its own row. *)
Row(r) == tbl[req[r].kind][req[r].user]

(* Every write of one user's row overtakes that user's other requests that have read it. *)
Wrote(r, new, pc, on) ==
    LET k == req[r].kind
        u == req[r].user
    IN  /\ tbl' = [tbl EXCEPT ![k][u] = new]
        /\ req' = [s \in Requests |->
             IF s = r THEN [req[r] EXCEPT !.pc = pc, !.on = on]
             ELSE IF req[s].kind = k /\ req[s].user = u /\ req[s].pc = "write" /\ new # Row(r)
                  THEN [req[s] EXCEPT !.overtaken = TRUE] ELSE req[s]]

Goto(r, pc) == req' = [req EXCEPT ![r].pc = pc]

Begin(r, k, u) ==
    /\ req[r].pc = "idle"
    /\ req' = [req EXCEPT ![r].pc = "select", ![r].kind = k, ![r].user = u]
    /\ UNCHANGED <<tbl, post, hasRedis, redis, skewed>>

ToggleLikeVideo(r, u) == Begin(r, "like", u)
ToggleLikeComment(r, u) == Begin(r, "commentLike", u)
TogglePostLike(r, u) == Begin(r, "postLike", u)
ToggleSaveVideo(r, u) == Begin(r, "save", u)
ToggleFollowChannel(r, u) == Begin(r, "follow", u)

Fail(r) == Goto(r, "error") /\ UNCHANGED <<tbl, post, hasRedis, redis, skewed>>

(* The row id found by SELECT id ...; for likes any error of the query reads as "no row". *)
SelectRow(r, k, onError) ==
    /\ req[r].pc = "select"
    /\ req[r].kind = k
    /\ \/ req' = [req EXCEPT ![r].pc = "write", ![r].found = Row(r)] /\ UNCHANGED skewed
       \/ /\ Faults
          /\ \/ onError = "insert" /\ req' = [req EXCEPT ![r].pc = "write", ![r].found = NoRow]
             \/ onError = "error" /\ Goto(r, "error")
          /\ skewed' = (skewed \/ k = "like")
    /\ UNCHANGED <<tbl, post, hasRedis, redis>>

(* DELETE WHERE id = found: a row that has been replaced meanwhile stays. *)
AfterDelete(r) == IF Row(r) = req[r].found THEN NoRow ELSE Row(r)

-----------------------------------------------------------------------------
(* LikeRepo: errors of the INSERT and of the DELETE are ignored.           *)

LikeSelect(r) == SelectRow(r, "like", "insert")

LikeWrite(r) ==
    /\ req[r].pc = "write"
    /\ req[r].kind = "like"
    /\ \/ /\ IF req[r].found = NoRow
             THEN Wrote(r, IF Row(r) = NoRow THEN r ELSE Row(r), "redis", TRUE)
             ELSE Wrote(r, AfterDelete(r), "redis", FALSE)
          /\ skewed' = (skewed \/ req[r].overtaken)
       \/ /\ Faults
          /\ Wrote(r, Row(r), "redis", req[r].found = NoRow)
          /\ skewed' = TRUE
    /\ UNCHANGED <<post, hasRedis, redis>>

(* Mutant of ClampAtZero: the counter is answered as it is. *)
ClampAtZeroNot(n) == n

(* A counter below zero is answered as zero. *)
ClampAtZero(n) == IF n < 0 THEN 0 ELSE n

(* Mutant of LikeCounter: an unlike counts up too. *)
LikeCounterOnlyIncr(r) ==
    /\ req[r].pc = "redis"
    /\ redis' = redis + 1
    /\ req' = [req EXCEPT ![r].pc = "done", ![r].count = redis']
    /\ UNCHANGED <<tbl, post, hasRedis, skewed>>

(* INCR or DECR by what the request believes it did; without Redis, a COUNT. *)
LikeCounter(r) ==
    /\ req[r].pc = "redis"
    /\ IF hasRedis
       THEN \/ /\ redis' = IF req[r].on THEN redis + 1 ELSE redis - 1
               /\ req' = [req EXCEPT ![r].pc = "done", ![r].count = ClampAtZero(redis')]
               /\ UNCHANGED skewed
            \/ /\ Faults
               /\ req' = [req EXCEPT ![r].pc = "done", ![r].count = 0]
               /\ skewed' = TRUE
               /\ UNCHANGED redis
       ELSE /\ req' = [req EXCEPT ![r].pc = "done", ![r].count = GetLikeCount("like")]
            /\ UNCHANGED <<redis, skewed>>
    /\ UNCHANGED <<tbl, post, hasRedis>>

-----------------------------------------------------------------------------
(* CommentLikeRepo, PostLikeRepo, SavedVideoRepo: a failed write is returned. *)

CommentLikeSelect(r) == SelectRow(r, "commentLike", "insert")
PostLikeSelect(r) == SelectRow(r, "postLike", "insert")
SaveSelect(r) == SelectRow(r, "save", "error")

(* Mutant of TargetExists: post_likes has no foreign key. *)
TargetExistsUnchecked(k) == k \in Kinds

(* post_likes.post_id references posts; the other tables reference nothing. *)
TargetExists(k) == k = "postLike" => post

WriteChecked(r, k, pc) ==
    /\ req[r].pc = "write"
    /\ req[r].kind = k
    /\ \/ /\ req[r].found = NoRow
          /\ Row(r) = NoRow
          /\ TargetExists(k)
          /\ Wrote(r, r, pc, TRUE)
       \/ /\ req[r].found = NoRow
          /\ Row(r) # NoRow \/ ~TargetExists(k) \/ Faults
          /\ Goto(r, "error")
          /\ UNCHANGED tbl
       \/ /\ req[r].found # NoRow
          /\ Wrote(r, AfterDelete(r), pc, FALSE)
       \/ /\ req[r].found # NoRow
          /\ Faults
          /\ Goto(r, "error")
          /\ UNCHANGED tbl
    /\ UNCHANGED <<post, hasRedis, redis, skewed>>

CommentLikeWrite(r) == WriteChecked(r, "commentLike", "count")
PostLikeWrite(r) == WriteChecked(r, "postLike", "count")

(* Mutant of SaveWrite: what was read is ignored. *)
SaveWriteBlind(r) ==
    /\ req[r].pc = "write"
    /\ req[r].kind = "save"
    /\ Wrote(r, NoRow, "done", req[r].found = NoRow)
    /\ UNCHANGED <<post, hasRedis, redis, skewed>>

SaveWrite(r) == WriteChecked(r, "save", "done")

(* The total answered is counted after the write, in a statement of its own. *)
Count(r, k) ==
    /\ req[r].pc = "count"
    /\ req[r].kind = k
    /\ \/ req' = [req EXCEPT ![r].pc = "done", ![r].count = GetLikeCount(k)]
       \/ Faults /\ Goto(r, "error")
    /\ UNCHANGED <<tbl, post, hasRedis, redis, skewed>>

CommentLikeCount(r) == Count(r, "commentLike")
PostLikeCount(r) == Count(r, "postLike")
CountFollowers(r) == Count(r, "follow")

-----------------------------------------------------------------------------
(* FollowUseCase.ToggleFollow: no following oneself; idempotent writes.    *)

IsFollowing(r) ==
    /\ req[r].kind = "follow"
    /\ IF req[r].user = Owner /\ req[r].pc = "select" THEN Fail(r)
       ELSE SelectRow(r, "follow", "error")

Follow(r) ==
    /\ req[r].pc = "write"
    /\ req[r].kind = "follow"
    /\ req[r].found = NoRow
    /\ \/ Wrote(r, IF Row(r) = NoRow THEN r ELSE Row(r), "count", TRUE)
       \/ Faults /\ Goto(r, "error") /\ UNCHANGED tbl
    /\ UNCHANGED <<post, hasRedis, redis, skewed>>

Unfollow(r) ==
    /\ req[r].pc = "write"
    /\ req[r].kind = "follow"
    /\ req[r].found # NoRow
    /\ \/ Wrote(r, NoRow, "count", FALSE)
       \/ Faults /\ Goto(r, "error") /\ UNCHANGED tbl
    /\ UNCHANGED <<post, hasRedis, redis, skewed>>

-----------------------------------------------------------------------------

(* The author deletes the post: its likes go with it (ON DELETE CASCADE). *)
DeletePost ==
    /\ post
    /\ post' = FALSE
    /\ tbl' = [tbl EXCEPT !["postLike"] = [u \in Users |-> NoRow]]
    /\ req' = [s \in Requests |->
         IF req[s].kind = "postLike" /\ req[s].pc = "write"
         THEN [req[s] EXCEPT !.overtaken = TRUE] ELSE req[s]]
    /\ UNCHANGED <<hasRedis, redis, skewed>>

(* A Redis flush: the counter starts again at zero, the table does not. *)
FlushRedis ==
    /\ Faults
    /\ redis' = 0
    /\ skewed' = TRUE
    /\ UNCHANGED <<tbl, post, hasRedis, req>>

ToggleInit ==
    /\ tbl \in [Kinds -> {[u \in Users |-> NoRow], [u \in Users |-> IF u = Owner THEN NoRow ELSE Old]}]
    /\ \A j, k \in Kinds : tbl[j] = tbl[k]
    /\ post = TRUE
    /\ hasRedis \in BOOLEAN
    /\ redis = Cardinality({u \in Users : tbl["like"][u] # NoRow})
    /\ req = [r \in Requests |-> [pc |-> "idle", kind |-> "like", user |-> Owner, found |-> NoRow,
                                  overtaken |-> FALSE, on |-> FALSE, count |-> -1]]
    /\ skewed = FALSE

Toggle(r) ==
    \/ LikeSelect(r) \/ LikeWrite(r) \/ LikeCounter(r)
    \/ CommentLikeSelect(r) \/ CommentLikeWrite(r)
    \/ PostLikeSelect(r) \/ PostLikeWrite(r)
    \/ SaveSelect(r) \/ SaveWrite(r)
    \/ IsFollowing(r) \/ Follow(r) \/ Unfollow(r)
    \/ CommentLikeCount(r) \/ PostLikeCount(r) \/ CountFollowers(r)

Ask(r, u) ==
    \/ ToggleLikeVideo(r, u) \/ ToggleLikeComment(r, u) \/ TogglePostLike(r, u)
    \/ ToggleSaveVideo(r, u) \/ ToggleFollowChannel(r, u)

ToggleNext ==
    \/ \E r \in Requests : Toggle(r) \/ \E u \in Users : Ask(r, u)
    \/ DeletePost \/ FlushRedis

-----------------------------------------------------------------------------

(* The answer of a toggle is the state its own write leaves the row in, unless another toggle *)
(* of the same user changed the row between its read and its write, or a like's ignored write *)
(* failed.                                                                                    *)
AnswerTrueUnlessOvertaken ==
    [][\A r \in Requests :
         /\ req[r].pc = "write"
         /\ req'[r].pc \in {"redis", "count", "done"}
         /\ ~req[r].overtaken
         /\ ~skewed'
         => (req'[r].on <=> tbl'[req[r].kind][req[r].user] # NoRow)]_toggleVars

(* Like toggles between their write and their Redis command. *)
Unpaid(on) == Cardinality({r \in Requests : req[r].pc = "redis" /\ req[r].on = on})

(* The Redis like counter, which ToggleLike answers with, equals the rows of the likes table  *)
(* up to the commands still to come, as long as no toggle was overtaken and nothing failed:   *)
(* overlapping toggles of one user are what makes it drift (like.go ToggleLike).              *)
CounterFollowsTable ==
    hasRedis /\ ~skewed => redis + Unpaid(TRUE) - Unpaid(FALSE) = GetLikeCount("like")

(* A like that raced the deletion of its post leaves no row behind: the toggle's insert fails *)
(* and the cascade removes earlier rows (post.go Delete, postlike.go ToggleLike).             *)
NoLikeOfDeletedPost == ~post => GetLikeCount("postLike") = 0
=============================================================================
