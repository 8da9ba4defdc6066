-------------------------------- MODULE Feed --------------------------------
(***************************************************************************)
(* What a viewer is shown: trending videos and reels, ranked by the views  *)
(* of the last day or week and read back from Postgres, with a fallback to *)
(* the newest; and the personalised feed, scored with the vectors that the *)
(* background trainer publishes.                                           *)
(*                                                                         *)
(* Videos are numbered in order of creation.  The scores themselves are    *)
(* left out: which training they come from is what is kept.                *)
(***************************************************************************)
EXTENDS Naturals, FiniteSets, Functions

CONSTANTS Vids,      \* videos: 1 .. N
          Mine,      \* the viewer's own
          Reels,     \* is_reel
          MaxHits,   \* bound: views of a video in a bucket
          MaxPage,   \* bound: page numbers asked for
          Limit,     \* page size
          MaxTrains  \* bound: trainings

ASSUME FeedAssumption ==
    /\ Vids \subseteq Nat /\ IsFiniteSet(Vids) /\ Mine \subseteq Vids /\ Reels \subseteq Vids
    /\ MaxHits \in Nat /\ MaxPage \in Nat \ {0} /\ Limit \in Nat \ {0} /\ MaxTrains \in Nat

Buckets == {"today", "earlier"}

VARIABLES
    public,   \* public[v]: the row is complete and public
    hits,     \* hits[b][v]: the trending sorted sets in Redis
    feed,     \* one GetTrending, GetReelsFeed or ListPublicVideos request
    model,    \* the cached vectors: the training each half comes from, and mu
    trainer,  \* the background trainer
    rec       \* one GetPersonalizedFeed request

feedVars == <<public, hits, feed>>
recVars == <<model, trainer, rec>>

-----------------------------------------------------------------------------
(* Ranking and pages                                                       *)

(* Views over one day, or over the union of the daily buckets. *)
Score(window, v) == hits["today"][v] + (IF window = "7d" THEN hits["earlier"][v] ELSE 0)

(* u is ranked before v: more views, and among equals the greater id (ZREVRANGE). *)
Before(window, u, v) ==
    \/ Score(window, u) > Score(window, v)
    \/ Score(window, u) = Score(window, v) /\ u > v

(* A list of videos is the position of each video in it.  The code asks Redis for the first   *)
(* trendingScanLimit = 100 of them, more than a run has videos.                                *)
GetTrendingVideoIDs(window) ==
    LET viewed == {v \in Vids : Score(window, v) > 0}
    IN  [v \in viewed |-> Cardinality({u \in viewed : Before(window, u, v)})]

NoVideos == [v \in {} |-> 0]

Newest(S) == [v \in S |-> Cardinality({u \in S : u > v})]

(* Mutant of GetByIDs: the rows whatever their state. *)
GetByIDsAnyState(ids) == Restrict(ids, DOMAIN ids \cap Vids)

(* GetByIDs drops what is not public and complete; the ranking is restored afterwards. *)
GetByIDs(ids) == Restrict(ids, {v \in DOMAIN ids : public[v]})

(* How many of the list come before v. *)
Index(list, v) == Cardinality({u \in DOMAIN list : list[u] < list[v]})

(* ranked[offset:end]; page 0 makes the offset negative and the slice panics. *)
Slice(list, page) ==
    {v \in DOMAIN list : (page - 1) * Limit <= Index(list, v) /\ Index(list, v) < page * Limit}

(* The filters of List: creator (the viewer), visibility, reel. *)
Listed(own, reel) == {v \in Vids : public[v] /\ (own => v \in Mine) /\ (reel => v \in Reels)}

-----------------------------------------------------------------------------
(* The feeds                                                               *)

(* The answer keeps which videos are on the page; their order is the list's. *)
Answer(vids, total) == [feed EXCEPT !.pc = "done", !.answer = vids, !.total = total]

(* The ranking is read from Redis; an error reads as an empty ranking. *)
Ask(kind, window, login, page) ==
    /\ feed.pc \in {"idle", "done", "error"}
    /\ \E ids \in {GetTrendingVideoIDs(window), NoVideos} :
         feed' = [kind |-> kind, login |-> login, page |-> page, ids |-> ids,
                  answer |-> {}, total |-> 0,
                  pc |-> IF DOMAIN ids = {} THEN "count"
                         ELSE IF kind = "reels" THEN "reels" ELSE "rows"]
    /\ UNCHANGED <<public, hits>>

GetTrending(window, login, page) == Ask("trending", window, login, page)
GetReelsFeed(window, login, page) == Ask("reels", window, login, page)

(* ListPublicVideos, asked for by the client with no creator. *)
ListPublicVideos(login, page) ==
    /\ feed.pc \in {"idle", "done", "error"}
    /\ feed' = [kind |-> "public", login |-> login, page |-> page, ids |-> NoVideos,
                answer |-> {}, total |-> 0, pc |-> "count"]
    /\ UNCHANGED <<public, hits>>

(* The reels among the ranked, by a first look at their rows. *)
KeepReels ==
    /\ feed.pc = "reels"
    /\ \E ids \in {Restrict(feed.ids, DOMAIN GetByIDs(feed.ids) \cap Reels), NoVideos} :
         feed' = [feed EXCEPT !.ids = ids, !.pc = IF DOMAIN ids = {} THEN "count" ELSE "rows"]
    /\ UNCHANGED <<public, hits>>

(* The rows are read (again) and the page cut out of what is left. *)
RankedRows ==
    /\ feed.pc = "rows"
    /\ LET ranked == GetByIDs(feed.ids)
       IN  feed' = IF feed.page = 0
                   THEN [feed EXCEPT !.pc = "error"]
                   ELSE Answer(Slice(ranked, feed.page), Cardinality(DOMAIN ranked))
    /\ UNCHANGED <<public, hits>>

(* GetTrending hands the viewer's id to ListPublicVideos, where it filters by creator. *)
ByCreator == feed.kind = "trending" /\ feed.login

(* List counts first and then reads the page, newest first; a negative offset is an error. *)
ListCount ==
    /\ feed.pc = "count"
    /\ feed' = [feed EXCEPT !.pc = "page", !.total = Cardinality(Listed(ByCreator, feed.kind = "reels"))]
    /\ UNCHANGED <<public, hits>>

ListPage ==
    /\ feed.pc = "page"
    /\ feed' = IF feed.page = 0 THEN [feed EXCEPT !.pc = "error"]
               ELSE Answer(Slice(Newest(Listed(ByCreator, feed.kind = "reels")), feed.page), feed.total)
    /\ UNCHANGED <<public, hits>>

(* A failed query is a 500, except for the first look at the reels. *)
QueryFails ==
    /\ feed.pc \in {"rows", "count", "page"}
    /\ feed' = [feed EXCEPT !.pc = "error"]
    /\ UNCHANGED <<public, hits>>

(* Videos are published, hidden and banned, and viewed, meanwhile. *)
PublishOrHide(v) ==
    /\ public' = [public EXCEPT ![v] = ~@]
    /\ UNCHANGED <<hits, feed>>

View(v) ==
    /\ hits["today"][v] < MaxHits
    /\ hits' = [hits EXCEPT !["today"][v] = @ + 1]
    /\ UNCHANGED <<public, feed>>

(* Midnight: today's bucket is one of the earlier days'; the earliest expire. *)
NewDay ==
    /\ hits' = [today |-> [v \in Vids |-> 0], earlier |-> hits["today"]]
    /\ UNCHANGED <<public, feed>>

-----------------------------------------------------------------------------
(* Training and serving: userVec and videoVec change under mu.             *)

(* The interactions cannot be read, there are none, or there is something to train on. *)
FetchInteractions == {"failed", "none", "some"}

(* When they cannot be read, or when the vectors are not all finite, nothing is published. *)
AfterTraining(found) ==
    CASE found = "failed" -> {"idle"}
      [] found = "none" -> {"empty"}
      [] found = "some" -> {"idle", "trained"}

Train ==
    /\ trainer.pc = "idle"
    /\ trainer.no < MaxTrains
    /\ \E found \in FetchInteractions : \E pc \in AfterTraining(found) :
         trainer' = [pc |-> pc, no |-> trainer.no + 1]
    /\ UNCHANGED <<model, rec>>

(* Mutant of Lock: it is taken whether or not a feed is being served. *)
LockAnyway == model.mu # "write"

Lock == model.mu = "free"

(* An empty training clears both, any other sets both. *)
PublishUserVec ==
    /\ trainer.pc \in {"empty", "trained"}
    /\ Lock
    /\ model' = [model EXCEPT !.mu = "write", !.user = IF trainer.pc = "empty" THEN 0 ELSE trainer.no]
    /\ UNCHANGED <<trainer, rec>>

PublishVideoVec ==
    /\ model.mu = "write"
    /\ model' = [model EXCEPT !.mu = "free", !.video = IF trainer.pc = "empty" THEN 0 ELSE trainer.no]
    /\ trainer' = [trainer EXCEPT !.pc = "idle"]
    /\ UNCHANGED rec

(* The request lists the videos and the preferences before it takes the read lock. *)
GetPersonalizedFeed ==
    /\ rec.pc \in {"idle", "done"}
    /\ rec' = [pc |-> "listed", user |-> 0, video |-> 0]
    /\ UNCHANGED <<model, trainer>>

(* Cold start without vectors; otherwise the user's vector, and then the videos'. *)
ReadUserVec ==
    /\ rec.pc = "listed"
    /\ model.mu = "free"
    /\ rec' = [pc |-> "scoring", user |-> model.user, video |-> 0]
    /\ model' = [model EXCEPT !.mu = "read"]
    /\ UNCHANGED trainer

ScoreVideos ==
    /\ rec.pc = "scoring"
    /\ rec' = [rec EXCEPT !.pc = "done", !.video = IF rec.user = 0 THEN 0 ELSE model.video]
    /\ model' = [model EXCEPT !.mu = IF @ = "read" THEN "free" ELSE @]
    /\ UNCHANGED trainer

-----------------------------------------------------------------------------

FeedTypeOK ==
    /\ public \in [Vids -> BOOLEAN]
    /\ hits \in [Buckets -> [Vids -> 0 .. MaxHits]]
    /\ feed.pc \in {"idle", "reels", "rows", "count", "page", "done", "error"}
    /\ feed.page \in 0 .. MaxPage
    /\ DOMAIN feed.ids \subseteq Vids /\ IsInjective(feed.ids)
    /\ feed.answer \subseteq Vids
    /\ feed.total \in 0 .. Cardinality(Vids)
    /\ model \in [user : 0 .. MaxTrains, video : 0 .. MaxTrains, mu : {"free", "read", "write"}]
    /\ trainer \in [pc : {"idle", "empty", "trained"}, no : 0 .. MaxTrains]
    /\ rec \in [pc : {"idle", "listed", "scoring", "done"}, user : 0 .. MaxTrains, video : 0 .. MaxTrains]

FeedInit ==
    /\ public = [v \in Vids |-> TRUE]
    /\ hits = [b \in Buckets |-> [v \in Vids |-> 0]]
    /\ feed = [kind |-> "public", login |-> FALSE, page |-> 1, ids |-> NoVideos, answer |-> {},
               total |-> 0, pc |-> "idle"]
    /\ model = [user |-> 0, video |-> 0, mu |-> "free"]
    /\ trainer = [pc |-> "idle", no |-> 0]
    /\ rec = [pc |-> "idle", user |-> 0, video |-> 0]

FeedNext ==
    \/ \E login \in BOOLEAN, page \in 0 .. MaxPage :
         \/ ListPublicVideos(login, page)
         \/ \E window \in {"24h", "7d"} : GetTrending(window, login, page) \/ GetReelsFeed(window, login, page)
    \/ KeepReels \/ RankedRows \/ ListCount \/ ListPage \/ QueryFails
    \/ \E v \in Vids : PublishOrHide(v) \/ View(v)
    \/ NewDay

RecNext ==
    \/ Train \/ PublishUserVec \/ PublishVideoVec
    \/ GetPersonalizedFeed \/ ReadUserVec \/ ScoreVideos

-----------------------------------------------------------------------------

(* An answered feed holds only videos that were public when its last query ran, whenever they *)
(* were hidden or banned after they had been ranked (video.go GetTrending, GetReelsFeed).     *)
ServesOnlyPublic ==
    [][feed'.pc = "done" /\ feed.pc # "done" => \A v \in feed'.answer : public[v]]_feedVars

(* A personalised feed is scored with the two halves of one training, although the trainer    *)
(* replaces them while feeds are served (recommendation.go train, GetPersonalizedFeed).       *)
OneModel == rec.pc = "done" => rec.user = rec.video

(* "Falls back to ListPublicVideos (sorted by recency) when Redis has no trending data yet":  *)
(* the fallback shows everyone's public videos.  The code passes the viewer's id as the       *)
(* creator: a viewer who is logged in gets only their own.                                    *)
FallbackIsPublicList ==
    [][feed.pc = "page" /\ feed.kind = "trending" /\ feed'.pc = "done"
       => feed'.answer = Slice(Newest(Listed(FALSE, FALSE)), feed.page)]_feedVars
=============================================================================
