--------------------------- MODULE CommunityProofs --------------------------
(***************************************************************************)
(* Proofs about Feed, Lists and Accounts, and about the composition of all *)
(* community parts: a feed shows public videos only, a personalised one is *)
(* scored with one model, a client that pages through a list misses        *)
(* nothing, for every number of videos, trainings, rows and changes.       *)
(***************************************************************************)
EXTENDS MCCommunity, ContentProofs, DeliveryProofs

-----------------------------------------------------------------------------
(* Training and serving.                                                   *)

RecSpec == FeedInit /\ [][RecNext]_recVars

Model == [user : 0 .. MaxTrains, video : 0 .. MaxTrains, mu : {"free", "read", "write"}]
Trainer == [pc : {"idle", "empty", "trained"}, no : 0 .. MaxTrains]
Rec == [pc : {"idle", "listed", "scoring", "done"}, user : 0 .. MaxTrains, video : 0 .. MaxTrains]

(* What the trainer publishes.                                             *)
Published == IF trainer.pc = "empty" THEN 0 ELSE trainer.no

(* Only while the trainer holds the lock do the halves differ, and a feed  *)
(* that has read one of them keeps the trainer out.                        *)
RecInv ==
    /\ model \in Model /\ trainer \in Trainer /\ rec \in Rec
    /\ model.mu # "write" => model.user = model.video
    /\ model.mu = "write" => trainer.pc # "idle" /\ model.user = Published
    /\ rec.pc = "scoring" => model.mu = "read" /\ rec.user = model.user
    /\ OneModel

LEMMA RecFields ==
    ASSUME RecInv
    PROVE  /\ model.user \in 0 .. MaxTrains /\ model.video \in 0 .. MaxTrains
           /\ model.mu \in {"free", "read", "write"}
           /\ trainer.pc \in {"idle", "empty", "trained"} /\ trainer.no \in 0 .. MaxTrains
           /\ rec.pc \in {"idle", "listed", "scoring", "done"}
           /\ rec.user \in 0 .. MaxTrains /\ rec.video \in 0 .. MaxTrains
           /\ Published \in 0 .. MaxTrains /\ 0 \in 0 .. MaxTrains
<1>1. 0 \in 0 .. MaxTrains
  BY FeedAssumption
<1>2. /\ model.user \in 0 .. MaxTrains /\ model.video \in 0 .. MaxTrains
      /\ model.mu \in {"free", "read", "write"}
      /\ trainer.pc \in {"idle", "empty", "trained"} /\ trainer.no \in 0 .. MaxTrains
      /\ rec.pc \in {"idle", "listed", "scoring", "done"}
      /\ rec.user \in 0 .. MaxTrains /\ rec.video \in 0 .. MaxTrains
  BY DEF RecInv, Model, Trainer, Rec
<1>3. QED
  BY <1>1, <1>2 DEF Published

LEMMA RecStepKeeps == RecInv /\ [RecNext]_recVars => RecInv'
<1> SUFFICES ASSUME RecInv, [RecNext]_recVars PROVE RecInv'
  OBVIOUS
<1>s. model \in Model /\ trainer \in Trainer /\ rec \in Rec
  BY DEF RecInv
<1>0. CASE UNCHANGED recVars
  BY <1>0 DEF recVars, RecInv, Published, OneModel
<1>1. CASE Train
  <2>1. PICK at \in {"idle", "empty", "trained"} :
          trainer' = [pc |-> at, no |-> trainer.no + 1]
    BY <1>1 DEF Train, AfterTraining, FetchInteractions
  <2>2. trainer' \in Trainer
    BY <1>1, <2>1, RecFields, FeedAssumption DEF Train, Trainer
  <2>3. trainer.pc = "idle" /\ UNCHANGED <<model, rec>>
    BY <1>1 DEF Train
  <2>4. QED
    BY <2>2, <2>3 DEF RecInv, OneModel
<1>2. CASE PublishUserVec
  <2>1. model' = [model EXCEPT !.mu = "write", !.user = Published] /\ UNCHANGED <<trainer, rec>>
    BY <1>2 DEF PublishUserVec, Published
  <2>2. model' \in Model /\ model'.mu = "write" /\ model'.user = Published
    BY <1>s, <2>1, RecFields DEF Model
  <2>3. trainer.pc # "idle" /\ model.mu = "free"
    BY <1>2 DEF PublishUserVec, Lock
  <2>4. Published' = Published
    BY <2>1 DEF Published
  <2>5. QED
    BY <2>1, <2>2, <2>3, <2>4 DEF RecInv, OneModel
<1>3. CASE PublishVideoVec
  <2>1. /\ model' = [model EXCEPT !.mu = "free", !.video = Published]
        /\ trainer' = [trainer EXCEPT !.pc = "idle"] /\ rec' = rec /\ model.mu = "write"
    BY <1>3 DEF PublishVideoVec, Published
  <2>2. /\ model' \in Model /\ model'.mu = "free" /\ model'.user = model.user
        /\ model'.video = Published
    BY <1>s, <2>1, RecFields DEF Model
  <2>3. trainer' \in Trainer
    BY <1>s, <2>1 DEF Trainer
  <2>4. QED
    BY <2>1, <2>2, <2>3 DEF RecInv, OneModel
<1>4. CASE GetPersonalizedFeed
  <2>1. rec' = [pc |-> "listed", user |-> 0, video |-> 0] /\ UNCHANGED <<model, trainer>>
    BY <1>4 DEF GetPersonalizedFeed
  <2>2. rec' \in Rec /\ rec'.pc = "listed"
    BY <2>1, RecFields DEF Rec
  <2>3. QED
    BY <2>1, <2>2 DEF RecInv, Published, OneModel
<1>5. CASE ReadUserVec
  <2>1. /\ rec' = [pc |-> "scoring", user |-> model.user, video |-> 0]
        /\ model' = [model EXCEPT !.mu = "read"] /\ trainer' = trainer /\ model.mu = "free"
    BY <1>5 DEF ReadUserVec
  <2>2. rec' \in Rec /\ rec'.pc = "scoring" /\ rec'.user = model.user
    BY <2>1, RecFields DEF Rec
  <2>3. /\ model' \in Model /\ model'.mu = "read" /\ model'.user = model.user
        /\ model'.video = model.video
    BY <1>s, <2>1 DEF Model
  <2>4. QED
    BY <2>1, <2>2, <2>3 DEF RecInv, OneModel
<1>6. CASE ScoreVideos
  <2>0. model.mu = "read" /\ rec.user = model.user /\ model.user = model.video
    BY <1>6 DEF ScoreVideos, RecInv
  <2>1. /\ rec' = [rec EXCEPT !.pc = "done", !.video = IF rec.user = 0 THEN 0 ELSE model.video]
        /\ model' = [model EXCEPT !.mu = "free"] /\ trainer' = trainer
    BY <1>6, <2>0 DEF ScoreVideos
  <2>2. rec' \in Rec /\ rec'.pc = "done" /\ rec'.user = rec.user /\ rec'.video = rec.user
    BY <1>s, <2>0, <2>1, RecFields DEF Rec
  <2>3. /\ model' \in Model /\ model'.mu = "free" /\ model'.user = model.user
        /\ model'.video = model.video
    BY <1>s, <2>1 DEF Model
  <2>4. QED
    BY <2>0, <2>1, <2>2, <2>3 DEF RecInv, OneModel
<1>7. QED
  BY <1>0, <1>1, <1>2, <1>3, <1>4, <1>5, <1>6 DEF RecNext

LEMMA InitRecInv == FeedInit => RecInv
<1> SUFFICES ASSUME FeedInit PROVE RecInv
  OBVIOUS
<1>1. 0 \in 0 .. MaxTrains
  BY FeedAssumption
<1>2. /\ model \in Model /\ model.mu = "free" /\ model.user = model.video
      /\ trainer \in Trainer /\ rec \in Rec /\ rec.pc = "idle"
  BY <1>1 DEF FeedInit, Model, Trainer, Rec
<1>3. QED
  BY <1>2 DEF RecInv, OneModel

(* A personalised feed is scored with both halves of one training, however *)
(* trainings and requests interleave (recommendation.go train,             *)
(* GetPersonalizedFeed).                                                   *)
THEOREM OneModelSafe == RecSpec => []OneModel
<1>1. RecInv => OneModel
  BY DEF RecInv
<1>2. QED
  BY <1>1, InitRecInv, RecStepKeeps, PTL DEF RecSpec

-----------------------------------------------------------------------------
(* The feeds.                                                              *)

FeedSpec == FeedInit /\ [][FeedNext]_feedVars

(* A list of videos: the position of each.                                 *)
VideoList == UNION {[S -> Nat] : S \in SUBSET Vids}

Request == [kind : {"public", "trending", "reels"}, login : BOOLEAN, page : 0 .. MaxPage,
            ids : VideoList, answer : SUBSET Vids, total : 0 .. Cardinality(Vids),
            pc : {"idle", "reels", "rows", "count", "page", "done", "error"}]

FeedInv ==
    /\ public \in [Vids -> BOOLEAN]
    /\ hits \in [Buckets -> [Vids -> 0 .. MaxHits]]
    /\ feed \in Request /\ IsInjective(feed.ids)

LEMMA FeedFields ==
    ASSUME FeedInv
    PROVE  /\ feed.kind \in {"public", "trending", "reels"} /\ feed.login \in BOOLEAN
           /\ feed.page \in 0 .. MaxPage /\ feed.ids \in VideoList /\ DOMAIN feed.ids \in SUBSET Vids
           /\ feed.answer \in SUBSET Vids /\ feed.total \in 0 .. Cardinality(Vids)
           /\ feed.pc \in {"idle", "reels", "rows", "count", "page", "done", "error"}
           /\ feed \in Request
<1>1. feed \in Request /\ feed.ids \in VideoList
  BY DEF FeedInv, Request
<1>2. DOMAIN feed.ids \in SUBSET Vids
  BY <1>1 DEF VideoList
<1>3. QED
  BY <1>1, <1>2 DEF Request

LEMMA VideosFinite ==
    ASSUME NEW S \in SUBSET Vids
    PROVE  IsFiniteSet(S) /\ Cardinality(S) \in Nat /\ Cardinality(S) \in 0 .. Cardinality(Vids)
<1>1. IsFiniteSet(S) /\ Cardinality(S) <= Cardinality(Vids)
  BY FeedAssumption, FS_Subset
<1>2. Cardinality(S) \in Nat /\ Cardinality(Vids) \in Nat
  BY <1>1, FeedAssumption, FS_CardinalityType
<1>3. QED
  BY <1>1, <1>2

LEMMA Restricted ==
    ASSUME NEW f \in VideoList, IsInjective(f), NEW S \in SUBSET DOMAIN f
    PROVE  Restrict(f, S) \in VideoList /\ IsInjective(Restrict(f, S)) /\ DOMAIN Restrict(f, S) = S
<1>1. PICK D \in SUBSET Vids : f \in [D -> Nat]
  BY DEF VideoList
<1>2. Restrict(f, S) \in [S -> Nat] /\ S \in SUBSET Vids
  BY <1>1 DEF Restrict
<1>3. Restrict(f, S) \in VideoList /\ DOMAIN Restrict(f, S) = S
  BY <1>2 DEF VideoList
<1>4. \A v \in S : Restrict(f, S)[v] = f[v] /\ v \in DOMAIN f
  BY DEF Restrict
<1>5. IsInjective(Restrict(f, S))
  BY <1>3, <1>4 DEF IsInjective
<1>6. QED
  BY <1>3, <1>5

LEMMA Nothing == NoVideos \in VideoList /\ IsInjective(NoVideos) /\ DOMAIN NoVideos = {}
<1>1. NoVideos \in [{} -> Nat] /\ {} \in SUBSET Vids /\ DOMAIN NoVideos = {}
  BY DEF NoVideos
<1>2. QED
  BY <1>1 DEF VideoList, IsInjective

(* The ranking is total: no two videos share a position.                   *)
LEMMA RankingFacts ==
    ASSUME FeedInv, NEW window
    PROVE  /\ GetTrendingVideoIDs(window) \in VideoList
           /\ IsInjective(GetTrendingVideoIDs(window))
<1> DEFINE V == {v \in Vids : Score(window, v) > 0}
           A(v) == {u \in V : Before(window, u, v)}
           f == [v \in V |-> Cardinality(A(v))]
<1>0. f = GetTrendingVideoIDs(window)
  BY DEF GetTrendingVideoIDs
<1>1. \A v \in V : Score(window, v) \in Nat /\ v \in Nat
  <2> SUFFICES ASSUME NEW v \in Vids PROVE Score(window, v) \in Nat /\ v \in Nat
    OBVIOUS
  <2>1. hits["today"][v] \in 0 .. MaxHits /\ hits["earlier"][v] \in 0 .. MaxHits /\ v \in Nat
    BY FeedAssumption DEF FeedInv, Buckets
  <2>2. QED
    BY <2>1, FeedAssumption DEF Score
<1>2. V \in SUBSET Vids
  OBVIOUS
<1>3. \A v : A(v) \in SUBSET Vids
  BY <1>2
<1> HIDE DEF V
<1>4. ASSUME NEW u \in V, NEW v \in V, Before(window, u, v)
      PROVE  Cardinality(A(u)) < Cardinality(A(v))
  <2>1. \A w \in A(u) : w \in A(v)
    BY <1>1, <1>4 DEF Before
  <2>2. u \notin A(u)
    BY <1>1, <1>4 DEF Before
  <2>3. u \in A(v)
    BY <1>4
  <2>4. IsFiniteSet(A(v)) /\ Cardinality(A(v)) \in Nat /\ Cardinality(A(u)) \in Nat
    BY <1>3, VideosFinite
  <2>5. /\ IsFiniteSet(A(v) \ {u}) /\ Cardinality(A(v) \ {u}) = Cardinality(A(v)) - 1
    BY <2>3, <2>4, FS_RemoveElement
  <2>6. A(u) \in SUBSET (A(v) \ {u})
    BY <2>1, <2>2
  <2>7. Cardinality(A(u)) <= Cardinality(A(v) \ {u})
    BY <2>5, <2>6, FS_Subset
  <2>8. QED
    BY <2>4, <2>5, <2>7
<1>5. \A v \in V : Cardinality(A(v)) \in Nat
  BY <1>3, VideosFinite
<1> HIDE DEF A
<1>6. f \in [V -> Nat]
  BY <1>5
<1>7. f \in VideoList
  BY <1>2, <1>6 DEF VideoList
<1>8. ASSUME NEW u \in V, NEW v \in V, f[u] = f[v] PROVE u = v
  <2>1. Cardinality(A(u)) = Cardinality(A(v))
    BY <1>8
  <2>2. ~Before(window, u, v) /\ ~Before(window, v, u)
    BY <1>4, <1>5, <2>1
  <2>3. QED
    BY <1>1, <2>2 DEF Before
<1>9. IsInjective(f)
  BY <1>8 DEF IsInjective
<1>10. QED
  BY <1>0, <1>7, <1>9

LEMMA FeedStepKeeps == FeedInv /\ [FeedNext]_feedVars => FeedInv'
<1> SUFFICES ASSUME FeedInv, [FeedNext]_feedVars PROVE FeedInv'
  OBVIOUS
<1>z. 0 \in 0 .. Cardinality(Vids)
  <2>1. Cardinality(Vids) \in Nat
    BY FeedAssumption, FS_CardinalityType
  <2>2. QED
    BY <2>1
<1>h. public \in [Vids -> BOOLEAN] /\ hits \in [Buckets -> [Vids -> 0 .. MaxHits]]
  BY DEF FeedInv
<1>0. CASE UNCHANGED feedVars
  BY <1>0 DEF feedVars, FeedInv
<1>1. ASSUME NEW k \in {"trending", "reels"}, NEW window, NEW login \in BOOLEAN,
             NEW page \in 0 .. MaxPage, Ask(k, window, login, page)
      PROVE  FeedInv'
  <2>1. PICK ids \in {GetTrendingVideoIDs(window), NoVideos} :
          feed' = [kind |-> k, login |-> login, page |-> page, ids |-> ids,
                   answer |-> {}, total |-> 0,
                   pc |-> IF DOMAIN ids = {} THEN "count"
                          ELSE IF k = "reels" THEN "reels" ELSE "rows"]
    BY <1>1 DEF Ask
  <2>2. ids \in VideoList /\ IsInjective(ids)
    BY RankingFacts, Nothing
  <2>3. PICK at \in {"count", "reels", "rows"} :
          at = IF DOMAIN ids = {} THEN "count" ELSE IF k = "reels" THEN "reels" ELSE "rows"
    OBVIOUS
  <2>4. feed' = [kind |-> k, login |-> login, page |-> page, ids |-> ids,
                 answer |-> {}, total |-> 0, pc |-> at]
    BY <2>1, <2>3
  <2>5. feed' \in Request /\ feed'.ids = ids
    BY <1>z, <2>2, <2>4 DEF Request
  <2>6. UNCHANGED <<public, hits>>
    BY <1>1 DEF Ask
  <2>7. QED
    BY <1>h, <2>2, <2>5, <2>6 DEF FeedInv
<1>2. ASSUME NEW login \in BOOLEAN, NEW page \in 0 .. MaxPage, ListPublicVideos(login, page)
      PROVE  FeedInv'
  <2>1. feed' \in Request /\ feed'.ids = NoVideos
    BY <1>z, <1>2, Nothing DEF ListPublicVideos, Request
  <2>2. UNCHANGED <<public, hits>>
    BY <1>2 DEF ListPublicVideos
  <2>3. QED
    BY <1>h, <2>1, <2>2, Nothing DEF FeedInv
<1>3. CASE KeepReels
  <2>1. PICK ids \in {Restrict(feed.ids, DOMAIN GetByIDs(feed.ids) \cap Reels), NoVideos} :
          feed' = [feed EXCEPT !.ids = ids, !.pc = IF DOMAIN ids = {} THEN "count" ELSE "rows"]
    BY <1>3 DEF KeepReels
  <2>2. DOMAIN GetByIDs(feed.ids) \cap Reels \in SUBSET DOMAIN feed.ids
    BY DEF GetByIDs, Restrict
  <2>3. ids \in VideoList /\ IsInjective(ids)
    BY <2>2, FeedFields, Restricted, Nothing DEF FeedInv
  <2>4. PICK at \in {"count", "rows"} : at = IF DOMAIN ids = {} THEN "count" ELSE "rows"
    OBVIOUS
  <2>5. feed' = [feed EXCEPT !.ids = ids, !.pc = at]
    BY <2>1, <2>4
  <2>6. feed' \in Request /\ feed'.ids = ids
    BY <2>3, <2>5, FeedFields DEF Request
  <2>7. UNCHANGED <<public, hits>>
    BY <1>3 DEF KeepReels
  <2>8. QED
    BY <1>h, <2>3, <2>6, <2>7 DEF FeedInv
<1>e. ASSUME feed' = [feed EXCEPT !.pc = "error"], UNCHANGED <<public, hits>> PROVE FeedInv'
  <2>1. feed' \in Request /\ feed'.ids = feed.ids
    BY <1>e, FeedFields DEF Request
  <2>2. QED
    BY <1>h, <1>e, <2>1 DEF FeedInv
<1>a. ASSUME NEW vids \in SUBSET Vids, NEW total \in 0 .. Cardinality(Vids),
             feed' = Answer(vids, total), UNCHANGED <<public, hits>>
      PROVE  FeedInv'
  <2>1. feed' \in Request /\ feed'.ids = feed.ids
    BY <1>a, FeedFields DEF Request, Answer
  <2>2. QED
    BY <1>h, <1>a, <2>1 DEF FeedInv
<1>4. CASE RankedRows
  <2> DEFINE ranked == GetByIDs(feed.ids)
  <2>1. DOMAIN ranked \in SUBSET Vids
    BY FeedFields DEF GetByIDs, Restrict
  <2>2. Slice(ranked, feed.page) \in SUBSET Vids
    BY <2>1 DEF Slice
  <2>3. Cardinality(DOMAIN ranked) \in 0 .. Cardinality(Vids)
    BY <2>1, VideosFinite
  <2>4. /\ UNCHANGED <<public, hits>>
        /\ \/ feed' = [feed EXCEPT !.pc = "error"]
           \/ feed' = Answer(Slice(ranked, feed.page), Cardinality(DOMAIN ranked))
    BY <1>4 DEF RankedRows
  <2> HIDE DEF ranked
  <2>5. QED
    BY <1>a, <1>e, <2>2, <2>3, <2>4
<1>5. CASE ListCount
  <2>1. PICK n \in 0 .. Cardinality(Vids) : n = Cardinality(Listed(ByCreator, feed.kind = "reels"))
    <3>1. Listed(ByCreator, feed.kind = "reels") \in SUBSET Vids
      BY DEF Listed
    <3>2. QED
      BY <3>1, VideosFinite
  <2>2. feed' = [feed EXCEPT !.pc = "page", !.total = n] /\ UNCHANGED <<public, hits>>
    BY <1>5, <2>1 DEF ListCount
  <2>3. feed' \in Request /\ feed'.ids = feed.ids
    BY <2>2, FeedFields DEF Request
  <2>4. QED
    BY <1>h, <2>2, <2>3 DEF FeedInv
<1>6. CASE ListPage
  <2> DEFINE page == Slice(Newest(Listed(ByCreator, feed.kind = "reels")), feed.page)
  <2>1. page \in SUBSET Vids
    BY DEF Slice, Newest, Listed
  <2>2. /\ UNCHANGED <<public, hits>>
        /\ \/ feed' = [feed EXCEPT !.pc = "error"]
           \/ feed' = Answer(page, feed.total)
    BY <1>6 DEF ListPage
  <2> HIDE DEF page
  <2>3. QED
    BY <1>a, <1>e, <2>1, <2>2, FeedFields
<1>7. CASE QueryFails
  BY <1>7, <1>e DEF QueryFails
<1>8. ASSUME NEW v \in Vids, PublishOrHide(v) PROVE FeedInv'
  <2>1. public' \in [Vids -> BOOLEAN]
    BY <1>h, <1>8, Zenon DEF PublishOrHide
  <2>2. hits' = hits /\ feed' = feed
    BY <1>8 DEF PublishOrHide
  <2>3. QED
    BY <2>1, <2>2 DEF FeedInv
<1>9. ASSUME NEW v \in Vids, View(v) PROVE FeedInv'
  <2>1. PICK n \in 0 .. MaxHits : n = hits["today"][v] + 1
    <3>1. hits["today"][v] \in 0 .. MaxHits /\ hits["today"][v] < MaxHits
      BY <1>h, <1>9 DEF View, Buckets
    <3>2. QED
      BY <3>1, FeedAssumption
  <2>2. hits' = [hits EXCEPT !["today"] = [hits["today"] EXCEPT ![v] = n]]
    BY <1>h, <1>9, <2>1 DEF View, Buckets
  <2>3. [hits["today"] EXCEPT ![v] = n] \in [Vids -> 0 .. MaxHits]
    BY <1>h DEF Buckets
  <2>4. hits' \in [Buckets -> [Vids -> 0 .. MaxHits]]
    BY <1>h, <2>2, <2>3 DEF Buckets
  <2>5. public' = public /\ feed' = feed
    BY <1>9 DEF View
  <2>6. QED
    BY <2>4, <2>5 DEF FeedInv
<1>10. CASE NewDay
  <2>1. [v \in Vids |-> 0] \in [Vids -> 0 .. MaxHits] /\ hits["today"] \in [Vids -> 0 .. MaxHits]
    BY <1>h, FeedAssumption DEF Buckets
  <2>2. hits' = [today |-> [v \in Vids |-> 0], earlier |-> hits["today"]]
    BY <1>10 DEF NewDay
  <2>3. hits' \in [Buckets -> [Vids -> 0 .. MaxHits]]
    BY <2>1, <2>2 DEF Buckets
  <2>4. public' = public /\ feed' = feed
    BY <1>10 DEF NewDay
  <2>5. QED
    BY <2>3, <2>4 DEF FeedInv
<1>11. QED
  BY <1>0, <1>1, <1>2, <1>3, <1>4, <1>5, <1>6, <1>7, <1>8, <1>9, <1>10
     DEF FeedNext, GetTrending, GetReelsFeed

LEMMA InitFeedInv == FeedInit => FeedInv
<1> SUFFICES ASSUME FeedInit PROVE FeedInv
  OBVIOUS
<1>1. 0 \in 0 .. Cardinality(Vids) /\ 0 \in 0 .. MaxHits
  <2>1. Cardinality(Vids) \in Nat
    BY FeedAssumption, FS_CardinalityType
  <2>2. QED
    BY <2>1, FeedAssumption
<1>2. public \in [Vids -> BOOLEAN]
  BY DEF FeedInit
<1>3. hits \in [Buckets -> [Vids -> 0 .. MaxHits]]
  BY <1>1 DEF FeedInit
<1>4. 1 \in 0 .. MaxPage
  BY FeedAssumption
<1>5. feed \in Request /\ feed.ids = NoVideos
  BY <1>1, <1>4, Nothing DEF FeedInit, Request
<1>6. QED
  BY <1>2, <1>3, <1>5, Nothing DEF FeedInv

(* Whatever is hidden or banned between the ranking and the last query, an *)
(* answered feed holds only videos that were public when that query ran,   *)
(* for any number of videos and any page size (video.go GetTrending,       *)
(* GetReelsFeed, ListPublicVideos).                                        *)
THEOREM OnlyPublicSafe == FeedSpec => ServesOnlyPublic
<1> DEFINE Step == feed'.pc = "done" /\ feed.pc # "done" => \A v \in feed'.answer : public[v]
<1>1. ASSUME FeedInv, FeedNext PROVE Step
  <2> SUFFICES ASSUME feed'.pc = "done", feed.pc # "done", NEW v \in feed'.answer PROVE public[v]
    OBVIOUS
  <2>1. CASE RankedRows
    <3>1. CASE feed.page = 0
      <4>1. feed'.pc = "error"
        BY <1>1, <2>1, <3>1, FeedFields DEF RankedRows, Request
      <4>2. QED
        BY <4>1
    <3>2. CASE feed.page # 0
      <4>1. feed'.answer = Slice(GetByIDs(feed.ids), feed.page)
        BY <1>1, <2>1, <3>2, FeedFields DEF RankedRows, Answer, Request
      <4>2. v \in DOMAIN GetByIDs(feed.ids)
        BY <4>1 DEF Slice
      <4>3. QED
        BY <4>2 DEF GetByIDs, Restrict
    <3>3. QED
      BY <3>1, <3>2
  <2>2. CASE ListPage
    <3>1. CASE feed.page = 0
      <4>1. feed'.pc = "error"
        BY <1>1, <2>2, <3>1, FeedFields DEF ListPage, Request
      <4>2. QED
        BY <4>1
    <3>2. CASE feed.page # 0
      <4>1. feed'.answer = Slice(Newest(Listed(ByCreator, feed.kind = "reels")), feed.page)
        BY <1>1, <2>2, <3>2, FeedFields DEF ListPage, Answer, Request
      <4>2. v \in Listed(ByCreator, feed.kind = "reels")
        BY <4>1 DEF Slice, Newest
      <4>3. QED
        BY <4>2 DEF Listed
    <3>3. QED
      BY <3>1, <3>2
  <2>3. ASSUME NEW k, NEW window, NEW login, NEW page, Ask(k, window, login, page) PROVE FALSE
    <3>1. feed'.pc \in {"count", "reels", "rows"}
      BY <2>3 DEF Ask
    <3>2. QED
      BY <3>1
  <2>4. ASSUME NEW login, NEW page, ListPublicVideos(login, page) PROVE FALSE
    BY <2>4 DEF ListPublicVideos
  <2>5. CASE KeepReels
    <3>1. feed'.pc \in {"count", "rows"}
      BY <1>1, <2>5, FeedFields DEF KeepReels, Request
    <3>2. QED
      BY <3>1
  <2>6. CASE ListCount
    <3>1. feed'.pc = "page"
      BY <1>1, <2>6, FeedFields DEF ListCount, Request
    <3>2. QED
      BY <3>1
  <2>7. CASE QueryFails
    <3>1. feed'.pc = "error"
      BY <1>1, <2>7, FeedFields DEF QueryFails, Request
    <3>2. QED
      BY <3>1
  <2>8. CASE NewDay \/ \E x \in Vids : PublishOrHide(x) \/ View(x)
    BY <2>8 DEF NewDay, PublishOrHide, View
  <2>9. QED
    BY <1>1, <2>1, <2>2, <2>3, <2>4, <2>5, <2>6, <2>7, <2>8
       DEF FeedNext, GetTrending, GetReelsFeed
<1>2. FeedInv /\ [FeedNext]_feedVars => [Step]_feedVars
  BY <1>1
<1>3. QED
  BY <1>2, InitFeedInv, FeedStepKeeps, PTL DEF FeedSpec, ServesOnlyPublic

-----------------------------------------------------------------------------
(* The lists.                                                              *)

ListSpec == ListInit /\ [][ListNext]_listVars

Walk == [pc : {"idle", "count", "rows", "unread", "done"}, no : Nat, total : Nat,
         seen : SUBSET Items, start : SUBSET Items, shaken : BOOLEAN]

(* One row per item; only notifications are ever unread.                   *)
ListShape ==
    /\ kind \in Lists
    /\ rows \in Seq(Items) /\ IsInjective(rows)
    /\ erased \in SUBSET Items
    /\ unread \in SUBSET ToSet(rows) /\ (kind # "notifs" => unread = {})
    /\ walk \in Walk
    /\ writes \in 0 .. MaxWrites

(* A client never asks for a page the items could not fill.                *)
Bounded(w) ==
    /\ 1 <= w.no /\ w.no <= Cardinality(Items) + 1 /\ w.total <= Cardinality(Items)
    /\ kind = "words" => w.pc \notin {"count", "unread"}
    /\ w.pc = "unread" => kind = "notifs"

WalkBounded == Bounded(walk)

Unseen == walk.start \ walk.seen

(* Item i is still to come: not before the page asked for next, and within *)
(* the total the client goes by.                                           *)
Coming(w, i) ==
    /\ w.pc # "done"
    /\ w.pc \in {"count", "rows"} => i \in Found
    /\ w.pc \in {"count", "rows"} => (w.no - 1) * PageLimit <= Cardinality(Ahead(i))
    /\ w.pc = "rows" /\ kind # "words" => Cardinality(Ahead(i)) < w.total
    /\ w.pc = "unread" => /\ i \in Found
                          /\ w.no * PageLimit <= Cardinality(Ahead(i))
                          /\ w.no * PageLimit < w.total

ToCome == \A i \in Unseen : Coming(walk, i)

ListInv == ListShape /\ WalkBounded /\ (walk.pc # "idle" /\ ~walk.shaken => ToCome)

(* The client stops exactly when its pages cover the total.                *)
LEMMA LastPageIs ==
    ASSUME NEW no \in Nat, NEW total \in Nat
    PROVE  LastPage(no, total) <=> total <= no * PageLimit
<1> DEFINE L == PageLimit
           d == (total + L - 1) \div L
<1>1. L \in Nat /\ L >= 1
  BY ListAssumption
<1>2. d \in Nat /\ d * L <= total + L - 1 /\ total + L - 1 < d * L + L
  BY <1>1
<1> HIDE DEF d, L
<1>3. ASSUME no >= d PROVE total <= no * L
  <2>1. d * L <= no * L
    BY <1>1, <1>2, <1>3
  <2>2. QED
    BY <1>1, <1>2, <2>1
<1>4. ASSUME ~(no >= d) PROVE ~(total <= no * L)
  <2>1. no + 1 <= d
    BY <1>2, <1>4
  <2>2. (no + 1) * L <= d * L
    BY <1>1, <1>2, <2>1
  <2>3. no * L + L = (no + 1) * L /\ no * L \in Nat
    BY <1>1
  <2>4. QED
    BY <1>1, <1>2, <2>2, <2>3
<1>5. QED
  BY <1>3, <1>4 DEF LastPage, d, L

LEMMA FoundIs ==
    ASSUME kind \in Lists
    PROVE  Found = IF kind \in {"history", "saved"} THEN ToSet(rows) \ erased ELSE ToSet(rows)
BY DEF Lists, Found, HistoryRows, SavedRows, ChannelRows, PostRows, NotificationRows, WordRows,
   UserRows, ReplyRows, Joined

(* The rows are as many as the items in them, and finite.                  *)
LEMMA RowFacts ==
    ASSUME NEW s \in Seq(Items), IsInjective(s)
    PROVE  /\ Len(s) \in Nat /\ DOMAIN s = 1 .. Len(s)
           /\ ToSet(s) \in SUBSET Items
           /\ IsFiniteSet(ToSet(s)) /\ Cardinality(ToSet(s)) \in Nat
           /\ Cardinality(ToSet(s)) <= Len(s)
           /\ Len(s) <= Cardinality(Items) /\ Cardinality(Items) \in Nat
<1>1. Len(s) \in Nat /\ DOMAIN s = 1 .. Len(s) /\ s \in [1 .. Len(s) -> Items]
  BY LenProperties
<1>2. ToSet(s) \in SUBSET Items
  BY <1>1 DEF ToSet
<1>3. IsFiniteSet(ToSet(s)) /\ IsFiniteSet(Items)
  BY <1>2, ListAssumption, FS_Subset
<1>4. IsFiniteSet(1 .. Len(s)) /\ Cardinality(1 .. Len(s)) = Len(s)
  <2>1. /\ IsFiniteSet(1 .. Len(s))
        /\ Cardinality(1 .. Len(s)) = IF 1 > Len(s) THEN 0 ELSE Len(s) - 1 + 1
    BY <1>1, FS_Interval
  <2>2. QED
    BY <1>1, <2>1
<1>5. s \in Surjection(1 .. Len(s), ToSet(s)) /\ s \in Injection(1 .. Len(s), Items)
  BY <1>1 DEF Surjection, Injection, ToSet
<1>6. Cardinality(ToSet(s)) <= Cardinality(1 .. Len(s))
  BY <1>4, <1>5, FS_Surjection
<1>7. Cardinality(1 .. Len(s)) <= Cardinality(Items)
  BY <1>3, <1>5, FS_Injection
<1>8. Cardinality(ToSet(s)) \in Nat /\ Cardinality(Items) \in Nat
  BY <1>3, FS_CardinalityType
<1>9. QED
  BY <1>1, <1>2, <1>3, <1>4, <1>6, <1>7, <1>8

(* At least i itself is not ahead of i, so every offset is within the rows.*)
LEMMA AheadFacts ==
    ASSUME ListShape, NEW i
    PROVE  /\ IsFiniteSet(Ahead(i)) /\ Cardinality(Ahead(i)) \in Nat
           /\ i \in Found => Cardinality(Ahead(i)) < Len(rows)
           /\ Found \in SUBSET ToSet(rows) /\ Found \in SUBSET Items
<1>0. /\ kind \in Lists /\ rows \in Seq(Items) /\ IsInjective(rows)
      /\ Len(rows) \in Nat /\ DOMAIN rows = 1 .. Len(rows)
      /\ ToSet(rows) \in SUBSET Items /\ IsFiniteSet(ToSet(rows))
      /\ Cardinality(ToSet(rows)) \in Nat /\ Cardinality(ToSet(rows)) <= Len(rows)
  BY RowFacts DEF ListShape
<1>1. Found \in SUBSET ToSet(rows)
  BY <1>0, FoundIs
<1>2. Ahead(i) \in SUBSET ToSet(rows)
  BY <1>1 DEF Ahead
<1>3. IsFiniteSet(Ahead(i)) /\ Cardinality(Ahead(i)) \in Nat
  BY <1>0, <1>2, FS_Subset, FS_CardinalityType
<1>4. ASSUME i \in Found PROVE Cardinality(Ahead(i)) < Len(rows)
  <2>1. i \notin Ahead(i)
    BY <1>0 DEF Ahead, IsInjective
  <2>2. i \in ToSet(rows)
    BY <1>1, <1>4
  <2>3. Ahead(i) \in SUBSET (ToSet(rows) \ {i})
    BY <1>2, <2>1
  <2>4. /\ IsFiniteSet(ToSet(rows) \ {i})
        /\ Cardinality(ToSet(rows) \ {i}) = Cardinality(ToSet(rows)) - 1
    BY <1>0, <2>2, FS_RemoveElement
  <2>5. Cardinality(Ahead(i)) <= Cardinality(ToSet(rows) \ {i})
    BY <2>3, <2>4, FS_Subset
  <2>6. QED
    BY <1>0, <1>3, <2>4, <2>5
<1>5. QED
  BY <1>0, <1>1, <1>3, <1>4

LEMMA Offsets ==
    ListShape => \A j : IsFiniteSet(Ahead(j)) /\ Cardinality(Ahead(j)) \in Nat
BY AheadFacts

(* The same of the next state.                                             *)
LEMMA OffsetsNext ==
    ListShape' => \A j : IsFiniteSet(Ahead(j)') /\ Cardinality(Ahead(j)') \in Nat
<1>1. (ListShape => \A j : IsFiniteSet(Ahead(j)) /\ Cardinality(Ahead(j)) \in Nat)'
  BY Offsets, PTL
<1>2. QED
  BY <1>1

LEMMA WalkFields ==
    ASSUME ListShape
    PROVE  /\ walk.pc \in {"idle", "count", "rows", "unread", "done"}
           /\ walk.no \in Nat /\ walk.total \in Nat
           /\ walk.seen \in SUBSET Items /\ walk.start \in SUBSET Items
           /\ walk.shaken \in BOOLEAN
BY DEF ListShape, Walk

-----------------------------------------------------------------------------
(* Changes of the rows.                                                    *)

(* The items that were found are still found at the same offset, or a      *)
(* later one where the page has yet to be counted.                         *)
Calm ==
    walk.pc \in {"count", "rows", "unread"} =>
      \A j \in Found :
        /\ j \in Found'
        /\ Cardinality(Ahead(j)) <= Cardinality(Ahead(j)')
        /\ walk.pc = "rows" => Cardinality(Ahead(j)') = Cardinality(Ahead(j))

LEMMA RowsStep ==
    ASSUME ListInv, kind' = kind, ListShape', NEW sh \in BOOLEAN,
           walk' = [walk EXCEPT !.shaken = sh], ~sh => ~walk.shaken /\ Calm
    PROVE  ListInv'
<1>0. /\ walk'.pc = walk.pc /\ walk'.no = walk.no /\ walk'.total = walk.total
      /\ walk'.seen = walk.seen /\ walk'.start = walk.start /\ walk'.shaken = sh
  BY DEF ListInv, ListShape, Walk
<1>1. WalkBounded'
  BY <1>0 DEF ListInv, WalkBounded, Bounded
<1>2. ASSUME walk'.pc # "idle", ~walk'.shaken PROVE ToCome'
  <2>1. ToCome /\ Calm
    BY <1>0, <1>2 DEF ListInv
  <2>2. Unseen' = Unseen
    BY <1>0 DEF Unseen
  <2>3. ASSUME NEW i \in Unseen
        PROVE  /\ walk'.pc # "done"
               /\ walk'.pc \in {"count", "rows"} => i \in Found'
               /\ walk'.pc \in {"count", "rows"} =>
                    (walk'.no - 1) * PageLimit <= Cardinality(Ahead(i)')
               /\ walk'.pc = "rows" /\ kind' # "words" => Cardinality(Ahead(i)') < walk'.total
               /\ walk'.pc = "unread" => /\ i \in Found'
                                         /\ walk'.no * PageLimit <= Cardinality(Ahead(i)')
                                         /\ walk'.no * PageLimit < walk'.total
    <3>0. /\ Cardinality(Ahead(i)) \in Nat /\ Cardinality(Ahead(i)') \in Nat
          /\ walk.no \in Nat /\ walk.total \in Nat /\ PageLimit \in Nat
          /\ (walk.no - 1) * PageLimit \in Int /\ walk.no * PageLimit \in Int
      <4>1. Cardinality(Ahead(i)) \in Nat
        BY AheadFacts DEF ListInv
      <4>2. Cardinality(Ahead(i)') \in Nat
        BY OffsetsNext
      <4>3. walk.no \in Nat /\ walk.total \in Nat /\ PageLimit \in Nat
        BY WalkFields, ListAssumption DEF ListInv
      <4>4. QED
        BY <4>1, <4>2, <4>3
    <3>1. CASE walk.pc = "count"
      <4>1. i \in Found /\ (walk.no - 1) * PageLimit <= Cardinality(Ahead(i))
        BY <2>1, <2>3, <3>1 DEF ToCome, Coming
      <4>2. i \in Found' /\ Cardinality(Ahead(i)) <= Cardinality(Ahead(i)')
        BY <2>1, <3>1, <4>1 DEF Calm
      <4>3. QED
        BY <1>0, <3>0, <3>1, <4>1, <4>2
    <3>2. CASE walk.pc = "rows"
      <4>1. /\ i \in Found /\ (walk.no - 1) * PageLimit <= Cardinality(Ahead(i))
            /\ kind # "words" => Cardinality(Ahead(i)) < walk.total
        BY <2>1, <2>3, <3>2 DEF ToCome, Coming
      <4>2. i \in Found' /\ Cardinality(Ahead(i)') = Cardinality(Ahead(i))
        BY <2>1, <3>2, <4>1 DEF Calm
      <4>3. QED
        BY <1>0, <3>2, <4>1, <4>2
    <3>3. CASE walk.pc = "unread"
      <4>1. /\ i \in Found /\ walk.no * PageLimit <= Cardinality(Ahead(i))
            /\ walk.no * PageLimit < walk.total
        BY <2>1, <2>3, <3>3 DEF ToCome, Coming
      <4>2. i \in Found' /\ Cardinality(Ahead(i)) <= Cardinality(Ahead(i)')
        BY <2>1, <3>3, <4>1 DEF Calm
      <4>3. QED
        BY <1>0, <3>0, <3>3, <4>1, <4>2
    <3>4. CASE walk.pc = "done"
      BY <2>1, <2>3, <3>4 DEF ToCome, Coming
    <3>5. QED
      BY <1>0, <1>2, <3>1, <3>2, <3>3, <3>4, WalkFields DEF ListInv
  <2>4. QED
    BY <2>2, <2>3 DEF ToCome, Coming
<1>3. QED
  BY <1>1, <1>2 DEF ListInv

(* The row of i in front, at the end, and out.                             *)
LEMMA FrontFacts ==
    ASSUME NEW s \in Seq(Items), IsInjective(s), NEW i \in Items, i \notin ToSet(s)
    PROVE  /\ <<i>> \o s \in Seq(Items) /\ IsInjective(<<i>> \o s)
           /\ ToSet(<<i>> \o s) = ToSet(s) \cup {i}
           /\ Len(<<i>> \o s) = Len(s) + 1
           /\ \A n \in 1 .. Len(s) : (<<i>> \o s)[n + 1] = s[n]
<1> DEFINE t == <<i>> \o s
<1>1. <<i>> \in Seq(Items) /\ Len(<<i>>) = 1 /\ <<i>>[1] = i
  OBVIOUS
<1>2. Len(s) \in Nat /\ DOMAIN s = 1 .. Len(s) /\ \A n \in 1 .. Len(s) : s[n] \in Items
  BY LenProperties
<1>3. /\ t \in Seq(Items) /\ Len(t) = Len(s) + 1
      /\ \A n \in 1 .. Len(s) + 1 : t[n] = IF n <= 1 THEN <<i>>[n] ELSE s[n - 1]
  <2>1. /\ t \in Seq(Items) /\ Len(t) = Len(<<i>>) + Len(s)
        /\ \A n \in 1 .. Len(<<i>>) + Len(s) :
             t[n] = IF n <= Len(<<i>>) THEN <<i>>[n] ELSE s[n - Len(<<i>>)]
    BY <1>1, ConcatProperties
  <2>2. QED
    BY <1>1, <1>2, <2>1
<1> HIDE DEF t
<1>4. t[1] = i /\ \A n \in 1 .. Len(s) : t[n + 1] = s[n]
  BY <1>1, <1>2, <1>3
<1>5. DOMAIN t = 1 .. Len(s) + 1
  BY <1>3, LenProperties
<1>6. IsInjective(t)
  <2>1. \A n \in 2 .. Len(s) + 1 : n - 1 \in 1 .. Len(s) /\ t[n] = s[n - 1]
    BY <1>2, <1>3
  <2>2. \A n \in 1 .. Len(s) : s[n] # i
    BY <1>2 DEF ToSet
  <2>3. \A a, b \in 1 .. Len(s) : s[a] = s[b] => a = b
    BY <1>2 DEF IsInjective
  <2>4. SUFFICES ASSUME NEW a \in 1 .. Len(s) + 1, NEW b \in 1 .. Len(s) + 1, t[a] = t[b]
                 PROVE  a = b
    BY <1>5 DEF IsInjective
  <2>5. CASE a = 1 \/ b = 1
    BY <1>2, <1>4, <2>1, <2>2, <2>4, <2>5
  <2>6. CASE a # 1 /\ b # 1
    BY <1>2, <2>1, <2>3, <2>4, <2>6
  <2>7. QED
    BY <2>5, <2>6
<1>7. ToSet(t) = ToSet(s) \cup {i}
  <2>1. ASSUME NEW x \in ToSet(t) PROVE x \in ToSet(s) \cup {i}
    <3>1. PICK n \in 1 .. Len(s) + 1 : x = t[n]
      BY <1>5 DEF ToSet
    <3>2. CASE n = 1
      BY <1>4, <3>1, <3>2
    <3>3. CASE n # 1
      <4>1. n - 1 \in 1 .. Len(s) /\ x = s[n - 1]
        BY <1>2, <1>3, <3>1, <3>3
      <4>2. QED
        BY <1>2, <4>1 DEF ToSet
    <3>4. QED
      BY <3>2, <3>3
  <2>2. ASSUME NEW x \in ToSet(s) PROVE x \in ToSet(t)
    <3>1. PICK n \in 1 .. Len(s) : x = s[n]
      BY <1>2 DEF ToSet
    <3>2. n + 1 \in 1 .. Len(s) + 1 /\ t[n + 1] = x
      BY <1>2, <1>4, <3>1
    <3>3. QED
      BY <1>5, <3>2 DEF ToSet
  <2>3. i \in ToSet(t)
    <3>1. 1 \in 1 .. Len(s) + 1
      BY <1>2
    <3>2. QED
      BY <1>4, <1>5, <3>1 DEF ToSet
  <2>4. QED
    BY <2>1, <2>2, <2>3
<1>8. QED
  BY <1>3, <1>4, <1>6, <1>7 DEF t

LEMMA BackFacts ==
    ASSUME NEW s \in Seq(Items), IsInjective(s), NEW i \in Items, i \notin ToSet(s)
    PROVE  /\ Append(s, i) \in Seq(Items) /\ IsInjective(Append(s, i))
           /\ ToSet(Append(s, i)) = ToSet(s) \cup {i}
           /\ Len(Append(s, i)) = Len(s) + 1
           /\ \A n \in 1 .. Len(s) : Append(s, i)[n] = s[n]
           /\ Append(s, i)[Len(s) + 1] = i
<1> DEFINE t == Append(s, i)
<1>1. Len(s) \in Nat /\ DOMAIN s = 1 .. Len(s)
  BY LenProperties
<1>2. /\ t \in Seq(Items) /\ Len(t) = Len(s) + 1
      /\ \A n \in 1 .. Len(s) : t[n] = s[n]
      /\ t[Len(s) + 1] = i
  BY AppendProperties
<1> HIDE DEF t
<1>3. DOMAIN t = 1 .. Len(s) + 1
  BY <1>2, LenProperties
<1>4. \A n \in 1 .. Len(s) + 1 : n \in 1 .. Len(s) \/ n = Len(s) + 1
  BY <1>1
<1>5. IsInjective(t)
  <2>1. \A n \in 1 .. Len(s) : s[n] # i
    BY <1>1 DEF ToSet
  <2>2. \A a, b \in 1 .. Len(s) : s[a] = s[b] => a = b
    BY <1>1 DEF IsInjective
  <2>3. QED
    BY <1>2, <1>3, <1>4, <2>1, <2>2 DEF IsInjective
<1>6. ToSet(t) = ToSet(s) \cup {i}
  <2>1. ToSet(t) = {t[n] : n \in 1 .. Len(s) + 1} /\ ToSet(s) = {s[n] : n \in 1 .. Len(s)}
    BY <1>1, <1>3 DEF ToSet
  <2>2. \A n \in 1 .. Len(s) : n \in 1 .. Len(s) + 1
    BY <1>1
  <2>3. Len(s) + 1 \in 1 .. Len(s) + 1
    BY <1>1
  <2>4. QED
    BY <1>2, <1>4, <2>1, <2>2, <2>3
<1>7. QED
  BY <1>2, <1>5, <1>6 DEF t

LEMMA OutFacts ==
    ASSUME NEW s \in Seq(Items), IsInjective(s), NEW p \in DOMAIN s
    PROVE  /\ RemoveAt(s, p) \in Seq(Items) /\ IsInjective(RemoveAt(s, p))
           /\ s[p] \notin ToSet(RemoveAt(s, p))
           /\ ToSet(RemoveAt(s, p)) \in SUBSET ToSet(s)
           /\ ToSet(s) = ToSet(RemoveAt(s, p)) \cup {s[p]}
<1> DEFINE l == SubSeq(s, 1, p - 1)
           r == SubSeq(s, p + 1, Len(s))
           t == l \o r
<1>1. /\ Len(s) \in Nat /\ DOMAIN s = 1 .. Len(s) /\ p \in 1 .. Len(s)
      /\ \A n \in 1 .. Len(s) : s[n] \in Items
  BY LenProperties
<1>2. /\ l \in Seq(Items) /\ Len(l) = p - 1 /\ \A n \in 1 .. p - 1 : l[n] = s[n]
  <2>1. /\ 1 \in Int /\ p - 1 \in Int /\ \A n \in 1 .. p - 1 : s[n] \in Items
    BY <1>1
  <2>2. /\ l \in Seq(Items) /\ Len(l) = IF 1 <= p - 1 THEN (p - 1) - 1 + 1 ELSE 0
        /\ \A n \in 1 .. (p - 1) - 1 + 1 : l[n] = s[1 + n - 1]
    BY <2>1, SubSeqProperties
  <2>3. QED
    BY <1>1, <2>2
<1>3. /\ r \in Seq(Items) /\ Len(r) = Len(s) - p /\ \A n \in 1 .. Len(s) - p : r[n] = s[n + p]
  <2>1. /\ p + 1 \in Int /\ Len(s) \in Int /\ \A n \in p + 1 .. Len(s) : s[n] \in Items
    BY <1>1
  <2>2. /\ r \in Seq(Items) /\ Len(r) = IF p + 1 <= Len(s) THEN Len(s) - (p + 1) + 1 ELSE 0
        /\ \A n \in 1 .. Len(s) - (p + 1) + 1 : r[n] = s[(p + 1) + n - 1]
    BY <2>1, SubSeqProperties
  <2>3. \A n \in 1 .. Len(s) - p : n \in 1 .. Len(s) - (p + 1) + 1 /\ (p + 1) + n - 1 = n + p
    BY <1>1
  <2>4. \A n \in 1 .. Len(s) - p : r[n] = s[n + p]
    BY <2>2, <2>3
  <2>5. Len(r) = Len(s) - p
    BY <1>1, <2>2
  <2>6. QED
    BY <2>2, <2>4, <2>5
<1> HIDE DEF l, r
<1>4. /\ t \in Seq(Items) /\ Len(t) = Len(l) + Len(r)
      /\ \A n \in 1 .. Len(l) + Len(r) : t[n] = IF n <= Len(l) THEN l[n] ELSE r[n - Len(l)]
  BY <1>2, <1>3, ConcatProperties
<1> HIDE DEF t
<1>5. Len(t) = Len(s) - 1 /\ DOMAIN t = 1 .. Len(s) - 1
  BY <1>1, <1>2, <1>3, <1>4, LenProperties
<1>6. \A n \in 1 .. Len(s) - 1 : t[n] = IF n < p THEN s[n] ELSE s[n + 1]
  <2> SUFFICES ASSUME NEW n \in 1 .. Len(s) - 1 PROVE t[n] = IF n < p THEN s[n] ELSE s[n + 1]
    OBVIOUS
  <2>1. t[n] = IF n <= p - 1 THEN l[n] ELSE r[n - (p - 1)]
    BY <1>1, <1>2, <1>3, <1>4
  <2>2. CASE n < p
    BY <1>1, <1>2, <2>1, <2>2
  <2>3. CASE ~(n < p)
    <3>1. n - (p - 1) \in 1 .. Len(s) - p /\ (n - (p - 1)) + p = n + 1
      BY <1>1, <2>3
    <3>2. QED
      BY <1>1, <1>3, <2>1, <2>3, <3>1
  <2>4. QED
    BY <2>2, <2>3
<1>7. \A a, b \in 1 .. Len(s) : s[a] = s[b] => a = b
  BY <1>1 DEF IsInjective
<1>8. IsInjective(t)
  <2> SUFFICES ASSUME NEW a \in 1 .. Len(s) - 1, NEW b \in 1 .. Len(s) - 1, t[a] = t[b]
               PROVE  a = b
    BY <1>5 DEF IsInjective
  <2>1. /\ a \in 1 .. Len(s) /\ a + 1 \in 1 .. Len(s) /\ b \in 1 .. Len(s) /\ b + 1 \in 1 .. Len(s)
    BY <1>1
  <2>2. QED
    BY <1>1, <1>6, <1>7, <2>1
<1>9. ASSUME NEW x \in ToSet(t) PROVE x \in ToSet(s) /\ x # s[p]
  <2>1. PICK n \in 1 .. Len(s) - 1 : x = t[n]
    BY <1>5 DEF ToSet
  <2>2. n \in 1 .. Len(s) /\ n + 1 \in 1 .. Len(s)
    BY <1>1
  <2>3. QED
    BY <1>1, <1>6, <1>7, <2>1, <2>2 DEF ToSet
<1>10. ASSUME NEW x \in ToSet(s), x # s[p] PROVE x \in ToSet(t)
  <2>1. PICK n \in 1 .. Len(s) : x = s[n]
    BY <1>1 DEF ToSet
  <2>2. CASE n < p
    <3>1. n \in 1 .. Len(s) - 1 /\ t[n] = x
      BY <1>1, <1>6, <2>1, <2>2
    <3>2. QED
      BY <1>5, <3>1 DEF ToSet
  <2>3. CASE n > p
    <3>1. n - 1 \in 1 .. Len(s) - 1 /\ t[n - 1] = x
      <4>1. n - 1 \in 1 .. Len(s) - 1 /\ ~(n - 1 < p) /\ (n - 1) + 1 = n
        BY <1>1, <2>3
      <4>2. QED
        BY <1>6, <2>1, <4>1
    <3>2. QED
      BY <1>5, <3>1 DEF ToSet
  <2>4. n # p
    BY <1>10, <2>1
  <2>5. QED
    BY <1>1, <2>2, <2>3, <2>4
<1>11. s[p] \in ToSet(s) /\ RemoveAt(s, p) = t
  BY <1>1 DEF ToSet, RemoveAt, t, l, r
<1>12. QED
  BY <1>4, <1>8, <1>9, <1>10, <1>11

LEMMA FoundNext ==
    kind' \in Lists =>
      Found' = IF kind' \in {"history", "saved"} THEN ToSet(rows') \ erased' ELSE ToSet(rows')
<1>1. kind \in Lists =>
        Found = IF kind \in {"history", "saved"} THEN ToSet(rows) \ erased ELSE ToSet(rows)
  BY FoundIs
<1>2. (kind \in Lists =>
         Found = IF kind \in {"history", "saved"} THEN ToSet(rows) \ erased ELSE ToSet(rows))'
  BY <1>1, PTL
<1>3. QED
  BY <1>2

LEMMA ShapeStep ==
    ASSUME ListInv, kind' = kind, rows' \in Seq(Items), IsInjective(rows'),
           erased' \in SUBSET Items, unread' \in SUBSET ToSet(rows'),
           kind # "notifs" => unread' = {}, writes' \in 0 .. MaxWrites,
           NEW sh \in BOOLEAN, walk' = [walk EXCEPT !.shaken = sh]
    PROVE  ListShape'
<1>1. walk' \in Walk
  BY DEF ListInv, ListShape, Walk
<1>2. QED
  BY <1>1 DEF ListInv, ListShape

LEMMA WriteStep ==
    ASSUME ListInv, NEW k, NEW s, NEW u, Write(k, s, u)
    PROVE  /\ kind = k /\ kind' = kind /\ rows' = s /\ unread' = u
           /\ erased' = erased /\ erased' \in SUBSET Items
           /\ writes' \in 0 .. MaxWrites
<1>1. writes \in 0 .. MaxWrites /\ writes < MaxWrites /\ MaxWrites \in Nat /\ writes' = writes + 1
  BY ListAssumption DEF ListInv, ListShape, Write
<1>2. writes' \in 0 .. MaxWrites
  BY <1>1
<1>3. QED
  BY <1>2 DEF Write, ListInv, ListShape

(* Nothing that a page depends on changes.                                 *)
LEMMA SameCalm ==
    ASSUME ListInv, kind' = kind, rows' = rows, erased' = erased
    PROVE  Calm
<1>0. kind \in Lists /\ kind' \in Lists
  BY DEF ListInv, ListShape
<1>1. Found' = Found
  BY <1>0, FoundIs, FoundNext
<1>2. \A j : Ahead(j)' = Ahead(j)
  BY <1>1 DEF Ahead
<1>3. \A j : Cardinality(Ahead(j)) \in Nat
  BY Offsets DEF ListInv
<1>4. QED
  BY <1>1, <1>2, <1>3 DEF Calm

(* A row in front pushes the others back.                                  *)
LEMMA FrontCalm ==
    ASSUME ListInv, ListShape', kind' = kind, erased' = erased, NEW i \in Items,
           i \notin ToSet(rows), rows' = <<i>> \o rows, walk.pc # "rows"
    PROVE  Calm
<1>0. /\ kind \in Lists /\ kind' \in Lists /\ rows \in Seq(Items) /\ IsInjective(rows)
  BY DEF ListInv, ListShape
<1>1. /\ Len(rows) \in Nat /\ DOMAIN rows = 1 .. Len(rows)
  BY <1>0, LenProperties
<1>2. /\ ToSet(rows') = ToSet(rows) \cup {i} /\ rows' \in Seq(Items)
      /\ Len(rows') = Len(rows) + 1 /\ \A n \in 1 .. Len(rows) : rows'[n + 1] = rows[n]
  BY <1>0, FrontFacts
<1>3. DOMAIN rows' = 1 .. Len(rows) + 1
  BY <1>2, LenProperties
<1>4. Found \in SUBSET Found'
  BY <1>0, <1>2, FoundIs, FoundNext
<1>5. ASSUME NEW j, NEW x \in Ahead(j) PROVE x \in Ahead(j)'
  <2>1. PICK m \in DOMAIN rows, n \in DOMAIN rows : m < n /\ rows[m] = x /\ rows[n] = j
    BY <1>5 DEF Ahead
  <2>2. m + 1 \in DOMAIN rows' /\ n + 1 \in DOMAIN rows' /\ m + 1 < n + 1
    BY <1>1, <1>3, <2>1
  <2>3. rows'[m + 1] = x /\ rows'[n + 1] = j
    BY <1>1, <1>2, <2>1
  <2>4. x \in Found'
    BY <1>4, <1>5 DEF Ahead
  <2>5. QED
    BY <2>2, <2>3, <2>4 DEF Ahead
<1>6. ASSUME NEW j PROVE Cardinality(Ahead(j)) <= Cardinality(Ahead(j)')
  <2>1. Ahead(j) \in SUBSET Ahead(j)'
    BY <1>5
  <2>2. IsFiniteSet(Ahead(j)')
    BY OffsetsNext
  <2>3. QED
    BY <2>1, <2>2, FS_Subset
<1>7. QED
  BY <1>4, <1>6 DEF Calm

(* A row at the end pushes nothing.                                        *)
LEMMA BackCalm ==
    ASSUME ListInv, ListShape', kind' = kind, kind = "replies", NEW i \in Items,
           i \notin ToSet(rows), rows' = Append(rows, i)
    PROVE  Calm
<1>0. /\ kind \in Lists /\ kind' \in Lists /\ rows \in Seq(Items) /\ IsInjective(rows)
  BY DEF ListInv, ListShape
<1>1. /\ Len(rows) \in Nat /\ DOMAIN rows = 1 .. Len(rows)
  BY <1>0, LenProperties
<1>2. /\ ToSet(rows') = ToSet(rows) \cup {i} /\ rows' \in Seq(Items)
      /\ Len(rows') = Len(rows) + 1 /\ \A n \in 1 .. Len(rows) : rows'[n] = rows[n]
      /\ rows'[Len(rows) + 1] = i
  BY <1>0, BackFacts
<1>3. DOMAIN rows' = 1 .. Len(rows) + 1
  BY <1>2, LenProperties
<1>4. Found = ToSet(rows) /\ Found' = ToSet(rows')
  BY <1>0, FoundIs, FoundNext
<1>5. ASSUME NEW j \in Found PROVE Ahead(j)' = Ahead(j)
  <2>1. ASSUME NEW x \in Ahead(j) PROVE x \in Ahead(j)'
    <3>1. PICK m \in DOMAIN rows, n \in DOMAIN rows : m < n /\ rows[m] = x /\ rows[n] = j
      BY <2>1 DEF Ahead
    <3>2. m \in DOMAIN rows' /\ n \in DOMAIN rows'
      BY <1>1, <1>3, <3>1
    <3>3. rows'[m] = x /\ rows'[n] = j
      BY <1>1, <1>2, <3>1
    <3>4. x \in Found'
      BY <1>2, <1>4, <2>1 DEF Ahead
    <3>5. QED
      BY <3>1, <3>2, <3>3, <3>4 DEF Ahead
  <2>2. ASSUME NEW x \in Ahead(j)' PROVE x \in Ahead(j)
    <3>1. PICK m \in DOMAIN rows', n \in DOMAIN rows' : m < n /\ rows'[m] = x /\ rows'[n] = j
      BY <2>2 DEF Ahead
    <3>2. n # Len(rows) + 1
      BY <1>2, <1>4, <1>5, <3>1
    <3>3. m \in DOMAIN rows /\ n \in DOMAIN rows
      BY <1>1, <1>3, <3>1, <3>2
    <3>4. rows[m] = x /\ rows[n] = j
      BY <1>1, <1>2, <3>1, <3>3
    <3>5. x \in Found
      BY <1>4, <3>3, <3>4 DEF ToSet
    <3>6. QED
      BY <3>1, <3>3, <3>4, <3>5 DEF Ahead
  <2>3. QED
    BY <2>1, <2>2
<1>6. \A j : Cardinality(Ahead(j)) \in Nat
  BY Offsets DEF ListInv
<1>7. Found \in SUBSET Found'
  BY <1>2, <1>4
<1>8. QED
  BY <1>5, <1>6, <1>7 DEF Calm

-----------------------------------------------------------------------------
(* One lemma per kind of change.                                           *)

LEMMA AddKeeps ==
    ASSUME ListInv, NEW k, NEW i \in Items, NEW u, AddRow(k, i, u),
           u \in SUBSET (ToSet(rows) \cup {i}), k # "notifs" => u = {}
    PROVE  ListInv'
<1> DEFINE sh == walk.shaken \/ walk.pc = "rows"
<1>0. /\ kind = k /\ kind' = kind /\ rows' = <<i>> \o rows /\ unread' = u
      /\ erased' = erased /\ erased' \in SUBSET Items /\ writes' \in 0 .. MaxWrites
  BY WriteStep DEF AddRow
<1>1. i \notin ToSet(rows) /\ rows \in Seq(Items) /\ IsInjective(rows)
  BY <1>0 DEF AddRow, Has, ListInv, ListShape
<1>2. /\ rows' \in Seq(Items) /\ IsInjective(rows') /\ ToSet(rows') = ToSet(rows) \cup {i}
  BY <1>0, <1>1, FrontFacts
<1>3. walk' = [walk EXCEPT !.shaken = sh]
  BY DEF AddRow
<1>4. sh \in BOOLEAN
  OBVIOUS
<1>5. ~sh => ~walk.shaken /\ walk.pc # "rows"
  OBVIOUS
<1> HIDE DEF sh
<1>6. ListShape'
  BY <1>0, <1>2, <1>3, <1>4, ShapeStep
<1>7. ~sh => ~walk.shaken /\ Calm
  BY <1>0, <1>1, <1>5, <1>6, FrontCalm
<1>8. QED
  BY <1>0, <1>3, <1>4, <1>6, <1>7, RowsStep

(* A change in the middle of a walk shakes it; with no walk under way it   *)
(* disturbs none.                                                          *)
LEMMA ShakeKeeps ==
    ASSUME ListInv, kind' = kind, ListShape',
           walk' = [walk EXCEPT !.shaken = walk.shaken \/ Walking]
    PROVE  ListInv'
<1> DEFINE sh == walk.shaken \/ Walking
<1>1. sh \in BOOLEAN
  OBVIOUS
<1>2. ~sh => ~walk.shaken /\ Calm
  BY DEF Walking, Calm
<1> HIDE DEF sh
<1>3. walk' = [walk EXCEPT !.shaken = sh]
  BY DEF sh
<1>4. QED
  BY <1>1, <1>2, <1>3, RowsStep

LEMMA ShakeShape ==
    ASSUME ListInv, kind' = kind, rows' \in Seq(Items), IsInjective(rows'),
           erased' \in SUBSET Items, unread' \in SUBSET ToSet(rows'),
           kind # "notifs" => unread' = {}, writes' \in 0 .. MaxWrites,
           walk' = [walk EXCEPT !.shaken = walk.shaken \/ Walking]
    PROVE  ListInv'
<1> DEFINE sh == walk.shaken \/ Walking
<1>1. sh \in BOOLEAN /\ walk' = [walk EXCEPT !.shaken = sh]
  OBVIOUS
<1> HIDE DEF sh
<1>2. ListShape'
  BY <1>1, ShapeStep
<1>3. QED
  BY <1>2, ShakeKeeps

LEMMA WithoutFacts ==
    ASSUME ListInv, NEW i \in ToSet(rows)
    PROVE  /\ Without(i) \in Seq(Items) /\ IsInjective(Without(i))
           /\ i \notin ToSet(Without(i)) /\ i \in Items
<1> DEFINE p == CHOOSE n \in DOMAIN rows : rows[n] = i
<1>1. rows \in Seq(Items) /\ IsInjective(rows) /\ ToSet(rows) \in SUBSET Items
  BY RowFacts DEF ListInv, ListShape
<1>2. p \in DOMAIN rows /\ rows[p] = i
  <2>1. \E n \in DOMAIN rows : rows[n] = i
    BY DEF ToSet
  <2>2. QED
    BY <2>1
<1>3. Without(i) = RemoveAt(rows, p)
  BY DEF Without
<1> HIDE DEF p
<1>4. QED
  BY <1>1, <1>2, <1>3, OutFacts

LEMMA DropKeeps ==
    ASSUME ListInv, NEW k, k # "notifs", NEW i, DropRow(k, i)
    PROVE  ListInv'
<1>0. /\ kind = k /\ kind' = kind /\ rows' = Without(i) /\ unread' = unread
      /\ erased' = erased /\ erased' \in SUBSET Items /\ writes' \in 0 .. MaxWrites
  BY WriteStep DEF DropRow
<1>1. i \in ToSet(rows) /\ walk' = [walk EXCEPT !.shaken = walk.shaken \/ Walking]
  BY DEF DropRow, Has
<1>2. rows' \in Seq(Items) /\ IsInjective(rows')
  BY <1>0, <1>1, WithoutFacts
<1>3. unread' = {}
  BY <1>0 DEF ListInv, ListShape
<1>4. unread' \in SUBSET ToSet(rows')
  BY <1>3
<1>5. QED
  BY <1>0, <1>1, <1>2, <1>3, <1>4, ShakeShape

LEMMA NoneUnread ==
    ASSUME ListInv, kind # "notifs"
    PROVE  unread = {}
BY DEF ListInv, ListShape

LEMMA WatchKeeps ==
    ASSUME ListInv, NEW i \in Items, RecordWatch(i)
    PROVE  ListInv'
<1>1. CASE AddRow("history", i, unread)
  <2>1. kind = "history"
    BY <1>1 DEF AddRow, Write
  <2>2. unread = {}
    BY <2>1, NoneUnread
  <2>3. unread \in SUBSET (ToSet(rows) \cup {i})
    BY <2>2
  <2>4. QED
    BY <1>1, <2>2, <2>3, AddKeeps
<1>2. CASE /\ Has("history", i)
           /\ Write("history", <<i>> \o Without(i), unread)
           /\ walk' = [walk EXCEPT !.shaken = walk.shaken \/ Walking]
  <2>0. /\ kind = "history" /\ kind' = kind /\ rows' = <<i>> \o Without(i) /\ unread' = unread
        /\ erased' = erased /\ erased' \in SUBSET Items /\ writes' \in 0 .. MaxWrites
    BY <1>2, WriteStep
  <2>1. /\ Without(i) \in Seq(Items) /\ IsInjective(Without(i)) /\ i \notin ToSet(Without(i))
    BY <1>2, WithoutFacts DEF Has
  <2>2. rows' \in Seq(Items) /\ IsInjective(rows')
    BY <2>0, <2>1, FrontFacts
  <2>3. unread' = {}
    BY <2>0, NoneUnread
  <2>4. unread' \in SUBSET ToSet(rows')
    BY <2>3
  <2>5. QED
    BY <1>2, <2>0, <2>2, <2>3, <2>4, ShakeShape
<1>3. QED
  BY <1>1, <1>2 DEF RecordWatch

(* A new row of a list that has nothing unread.                            *)
LEMMA AddPlain ==
    ASSUME ListInv, NEW k, k # "notifs", NEW i \in Items, AddRow(k, i, unread)
    PROVE  ListInv'
<1>1. kind = k
  BY DEF AddRow, Write
<1>2. unread = {}
  BY <1>1, NoneUnread
<1>3. unread \in SUBSET (ToSet(rows) \cup {i})
  BY <1>2
<1>4. QED
  BY <1>2, <1>3, AddKeeps

LEMMA NotifyKeeps ==
    ASSUME ListInv, NEW i \in Items, StoreNotification(i)
    PROVE  ListInv'
<1>1. unread \cup {i} \in SUBSET (ToSet(rows) \cup {i})
  BY DEF ListInv, ListShape
<1>2. AddRow("notifs", i, unread \cup {i})
  BY DEF StoreNotification
<1>3. QED
  BY <1>1, <1>2, AddKeeps

(* The rows change or not, the walk does not.                              *)
LEMMA QuietKeeps ==
    ASSUME ListInv, ListShape', kind' = kind, walk' = walk, Calm
    PROVE  ListInv'
<1>1. walk.shaken \in BOOLEAN
  BY WalkFields DEF ListInv
<1>2. walk' = [walk EXCEPT !.shaken = walk.shaken]
  BY DEF ListInv, ListShape, Walk
<1>3. PICK sh \in BOOLEAN : sh = walk.shaken
  BY <1>1
<1>4. walk' = [walk EXCEPT !.shaken = sh]
  BY <1>2, <1>3
<1>5. ~sh => ~walk.shaken /\ Calm
  BY <1>3
<1>6. QED
  BY <1>4, <1>5, RowsStep

LEMMA MarkKeeps ==
    ASSUME ListInv, NEW u, u \in SUBSET unread, Write("notifs", rows, u), UNCHANGED walk
    PROVE  ListInv'
<1>0. /\ kind = "notifs" /\ kind' = kind /\ rows' = rows /\ unread' = u
      /\ erased' = erased /\ erased' \in SUBSET Items /\ writes' \in 0 .. MaxWrites
  BY WriteStep
<1>1. ListShape'
  BY <1>0 DEF ListInv, ListShape
<1>2. Calm
  BY <1>0, SameCalm
<1>3. QED
  BY <1>0, <1>1, <1>2, QuietKeeps

LEMMA ReplyKeeps ==
    ASSUME ListInv, NEW i \in Items, CreateReply(i)
    PROVE  ListInv'
<1>0. /\ kind = "replies" /\ kind' = kind /\ rows' = Append(rows, i) /\ unread' = unread
      /\ erased' = erased /\ erased' \in SUBSET Items /\ writes' \in 0 .. MaxWrites
      /\ walk' = walk
  BY WriteStep DEF CreateReply
<1>1. i \notin ToSet(rows) /\ rows \in Seq(Items) /\ IsInjective(rows)
  BY <1>0 DEF CreateReply, Has, ListInv, ListShape
<1>2. rows' \in Seq(Items) /\ IsInjective(rows')
  BY <1>0, <1>1, BackFacts
<1>3. unread' = {}
  BY <1>0, NoneUnread
<1>4. ListShape'
  BY <1>0, <1>2, <1>3 DEF ListInv, ListShape
<1>5. Calm
  BY <1>0, <1>1, <1>4, BackCalm
<1>6. QED
  BY <1>0, <1>4, <1>5, QuietKeeps

LEMMA EraseKeeps ==
    ASSUME ListInv, NEW i \in Items, DeleteVideoRow(i)
    PROVE  ListInv'
<1>0. /\ kind' = kind /\ rows' = rows /\ unread' = unread /\ writes' = writes
      /\ erased' = erased \cup {i} /\ kind # "notifs"
      /\ walk' = [walk EXCEPT !.shaken = walk.shaken \/ Walking]
  BY DEF DeleteVideoRow
<1>1. rows' \in Seq(Items) /\ IsInjective(rows') /\ erased' \in SUBSET Items
  BY <1>0 DEF ListInv, ListShape
<1>2. unread' = {} /\ writes' \in 0 .. MaxWrites
  BY <1>0 DEF ListInv, ListShape
<1>3. unread' \in SUBSET ToSet(rows')
  BY <1>2
<1>4. QED
  BY <1>0, <1>1, <1>2, <1>3, ShakeShape

LEMMA ChangeKeeps ==
    ASSUME ListInv, NEW i \in Items, Change(i)
    PROVE  ListInv'
<1>1. CASE RecordWatch(i)
  BY <1>1, WatchKeeps
<1>2. CASE ToggleSaveVideo(i) \/ ToggleFollowChannel(i)
  BY <1>2, AddPlain, DropKeeps DEF ToggleSaveVideo, ToggleFollowChannel
<1>3. CASE CreatePost(i) \/ SaveWord(i) \/ RegisterUser(i)
  BY <1>3, AddPlain DEF CreatePost, SaveWord, RegisterUser
<1>4. CASE DeletePost(i) \/ DeleteWord(i)
  BY <1>4, DropKeeps DEF DeletePost, DeleteWord
<1>5. CASE StoreNotification(i)
  BY <1>5, NotifyKeeps
<1>6. CASE MarkAsRead(i)
  <2>1. unread \ {i} \in SUBSET unread
    OBVIOUS
  <2>2. Write("notifs", rows, unread \ {i}) /\ UNCHANGED walk
    BY <1>6 DEF MarkAsRead
  <2>3. QED
    BY <2>1, <2>2, MarkKeeps
<1>7. CASE CreateReply(i)
  BY <1>7, ReplyKeeps
<1>8. CASE DeleteVideoRow(i)
  BY <1>8, EraseKeeps
<1>9. QED
  BY <1>1, <1>2, <1>3, <1>4, <1>5, <1>6, <1>7, <1>8 DEF Change

-----------------------------------------------------------------------------
(* The client's steps leave the rows alone.                                *)

LEMMA WalkStep ==
    ASSUME ListInv, UNCHANGED <<kind, rows, erased, unread, writes>>,
           NEW w \in Walk, walk' = w, Bounded(w),
           w.pc # "idle" /\ ~w.shaken => \A i \in w.start \ w.seen : Coming(w, i)
    PROVE  ListInv'
<1>0. kind' = kind /\ rows' = rows /\ erased' = erased
  OBVIOUS
<1>1. ListShape' /\ kind \in Lists
  BY DEF ListInv, ListShape
<1>2. WalkBounded'
  BY DEF WalkBounded, Bounded
<1>3. Found' = Found
  BY <1>0, <1>1, FoundIs, FoundNext
<1>4. \A j : Ahead(j)' = Ahead(j)
  BY <1>0, <1>3 DEF Ahead
<1>5. ASSUME walk'.pc # "idle", ~walk'.shaken PROVE ToCome'
  <2>1. \A i \in w.start \ w.seen : Coming(w, i)
    BY <1>5
  <2>2. Unseen' = w.start \ w.seen
    BY DEF Unseen
  <2>3. ASSUME NEW i \in w.start \ w.seen PROVE Coming(walk, i)'
    <3>1. Coming(w, i)
      BY <2>1
    <3>2. Ahead(i)' = Ahead(i)
      BY <1>4
    <3>3. QED
      BY <1>0, <1>3, <3>1, <3>2 DEF Coming
  <2>4. QED
    BY <2>2, <2>3 DEF ToCome
<1>6. QED
  BY <1>1, <1>2, <1>5 DEF ListInv

(* What a page left out is on a later page, so the client asks for one.    *)
LEMMA NextPageKeeps ==
    ASSUME ListInv, UNCHANGED <<kind, rows, erased, unread, writes>>,
           NEW w \in Walk, walk' = NextPage(w), Bounded(w),
           ~w.shaken => \A i \in w.start \ w.seen :
             /\ kind # "words" /\ i \in Found
             /\ w.no * PageLimit <= Cardinality(Ahead(i))
             /\ w.no * PageLimit < w.total
    PROVE  ListInv'
<1>0. /\ w.no \in Nat /\ w.total \in Nat /\ w.shaken \in BOOLEAN
      /\ PageLimit \in Nat /\ PageLimit >= 1 /\ w.no * PageLimit \in Nat
      /\ 1 <= w.no /\ w.no <= Cardinality(Items) + 1 /\ w.total <= Cardinality(Items)
      /\ Cardinality(Items) \in Nat
  <2>1. w.no \in Nat /\ w.total \in Nat /\ w.shaken \in BOOLEAN
    BY DEF Walk
  <2>2. PageLimit \in Nat /\ PageLimit >= 1 /\ Cardinality(Items) \in Nat
    BY ListAssumption, FS_CardinalityType
  <2>3. 1 <= w.no /\ w.no <= Cardinality(Items) + 1 /\ w.total <= Cardinality(Items)
    BY DEF Bounded
  <2>4. w.no * PageLimit \in Nat
    BY <2>1, <2>2
  <2>5. QED
    BY <2>1, <2>2, <2>3, <2>4
<1>1. LastPage(w.no, w.total) <=> w.total <= w.no * PageLimit
  BY <1>0, LastPageIs
<1>2. CASE kind = "words" \/ LastPage(w.no, w.total)
  <2> DEFINE v == [w EXCEPT !.pc = "done"]
  <2>1. walk' = v
    BY <1>2 DEF NextPage
  <2>2. /\ v \in Walk /\ v.pc = "done" /\ v.no = w.no /\ v.total = w.total
        /\ v.start = w.start /\ v.seen = w.seen /\ v.shaken = w.shaken
    BY DEF Walk
  <2> HIDE DEF v
  <2>3. Bounded(v)
    BY <1>0, <2>2 DEF Bounded
  <2>4. ASSUME ~v.shaken, NEW i \in v.start \ v.seen PROVE FALSE
    <3>1. kind # "words" /\ w.no * PageLimit < w.total
      BY <2>2, <2>4
    <3>2. QED
      BY <1>0, <1>1, <1>2, <3>1
  <2>5. QED
    BY <2>1, <2>2, <2>3, <2>4, WalkStep
<1>3. CASE ~(kind = "words" \/ LastPage(w.no, w.total))
  <2>0. PICK next \in Nat : next = w.no + 1
    BY <1>0
  <2> DEFINE v == [w EXCEPT !.pc = "count", !.no = next]
  <2>1. walk' = v
    BY <1>3, <2>0 DEF NextPage
  <2>2. /\ v \in Walk /\ v.pc = "count" /\ v.no = next /\ v.total = w.total
        /\ v.start = w.start /\ v.seen = w.seen /\ v.shaken = w.shaken
    BY DEF Walk
  <2> HIDE DEF v
  <2>3. w.no <= w.no * PageLimit
    BY <1>0
  <2>4. 1 <= next /\ next <= Cardinality(Items) + 1
    BY <1>0, <1>1, <1>3, <2>0, <2>3
  <2>5. Bounded(v)
    BY <1>0, <1>3, <2>2, <2>4 DEF Bounded
  <2>6. ASSUME ~v.shaken, NEW i \in v.start \ v.seen PROVE Coming(v, i)
    <3>1. i \in Found /\ w.no * PageLimit <= Cardinality(Ahead(i))
      BY <2>2, <2>6
    <3>2. v.no - 1 = w.no
      BY <1>0, <2>0, <2>2
    <3>3. QED
      BY <2>2, <3>1, <3>2 DEF Coming
  <2>7. QED
    BY <2>1, <2>2, <2>5, <2>6, WalkStep
<1>4. QED
  BY <1>2, <1>3

LEMMA NoWalkFields ==
    /\ NoWalk \in Walk /\ NoWalk.pc = "idle" /\ NoWalk.no = 1 /\ NoWalk.total = 0
    /\ NoWalk.seen = {} /\ NoWalk.start = {} /\ Cardinality(Items) \in Nat /\ Bounded(NoWalk)
<1>1. Cardinality(Items) \in Nat
  BY ListAssumption, FS_CardinalityType
<1>2. /\ NoWalk \in Walk /\ NoWalk.pc = "idle" /\ NoWalk.no = 1 /\ NoWalk.total = 0
      /\ NoWalk.seen = {} /\ NoWalk.start = {}
  BY DEF NoWalk, Walk
<1>3. Bounded(NoWalk)
  BY <1>1, <1>2 DEF Bounded
<1>4. QED
  BY <1>1, <1>2, <1>3

LEMMA BeginKeeps ==
    ASSUME ListInv, NEW k, Begin(k)
    PROVE  ListInv'
<1> DEFINE w == [NoWalk EXCEPT !.pc = IF k = "words" THEN "rows" ELSE "count", !.start = Found]
<1>0. UNCHANGED <<kind, rows, erased, unread, writes>> /\ walk' = w /\ kind = k
  BY DEF Begin
<1>1. Found \in SUBSET Items
  BY AheadFacts DEF ListInv
<1>2. /\ w \in Walk /\ w.pc = (IF k = "words" THEN "rows" ELSE "count") /\ w.no = 1
      /\ w.total = 0
  BY <1>1, NoWalkFields DEF Walk
<1> HIDE DEF w
<1>3. Bounded(w)
  BY <1>0, <1>2, NoWalkFields DEF Bounded
<1>4. w.start = Found
  BY <1>1, NoWalkFields DEF w, Walk
<1>5. ASSUME NEW i \in w.start \ w.seen PROVE Coming(w, i)
  <2>1. i \in Found
    BY <1>4
  <2>2. Cardinality(Ahead(i)) \in Nat /\ PageLimit \in Nat
    BY Offsets, ListAssumption DEF ListInv
  <2>3. (w.no - 1) * PageLimit <= Cardinality(Ahead(i))
    BY <1>2, <2>2
  <2>4. w.pc # "done" /\ w.pc # "unread" /\ (w.pc = "rows" => kind = "words")
    BY <1>0, <1>2
  <2>5. QED
    BY <2>1, <2>3, <2>4 DEF Coming
<1>6. QED
  BY <1>0, <1>2, <1>3, <1>5, WalkStep

LEMMA CountKeeps ==
    ASSUME ListInv, CountRows
    PROVE  ListInv'
<1> DEFINE p == IF kind = "notifs" /\ rows = << >> THEN "unread" ELSE "rows"
           w == [walk EXCEPT !.total = Len(rows), !.pc = p]
<1>0. UNCHANGED <<kind, rows, erased, unread, writes>> /\ walk' = w /\ walk.pc = "count"
  BY DEF CountRows
<1>1. /\ Len(rows) \in Nat /\ Len(rows) <= Cardinality(Items) /\ Cardinality(Items) \in Nat
  BY RowFacts DEF ListInv, ListShape
<1>2. p \in {"unread", "rows"} /\ (p = "unread" => kind = "notifs" /\ Len(rows) = 0)
  OBVIOUS
<1> HIDE DEF p
<1>3. /\ w \in Walk /\ w.pc = p /\ w.no = walk.no /\ w.total = Len(rows)
      /\ w.start = walk.start /\ w.seen = walk.seen /\ w.shaken = walk.shaken
  BY <1>1, <1>2 DEF ListInv, ListShape, Walk
<1> HIDE DEF w
<1>4. Bounded(w)
  <2>1. 1 <= walk.no /\ walk.no <= Cardinality(Items) + 1 /\ kind # "words"
    BY <1>0 DEF ListInv, WalkBounded, Bounded
  <2>2. QED
    BY <1>1, <1>2, <1>3, <2>1 DEF Bounded
<1>5. ASSUME ~w.shaken, NEW i \in w.start \ w.seen PROVE Coming(w, i)
  <2>1. ToCome /\ i \in Unseen
    BY <1>0, <1>3, <1>5 DEF ListInv, Unseen
  <2>2. i \in Found /\ (walk.no - 1) * PageLimit <= Cardinality(Ahead(i))
    BY <1>0, <2>1 DEF ToCome, Coming
  <2>3. Cardinality(Ahead(i)) \in Nat /\ Cardinality(Ahead(i)) < Len(rows)
    BY <2>2, AheadFacts DEF ListInv
  <2>4. p = "rows"
    BY <1>1, <1>2, <2>3
  <2>5. QED
    BY <1>3, <2>2, <2>3, <2>4 DEF Coming
<1>6. QED
  BY <1>0, <1>3, <1>4, <1>5, WalkStep

LEMMA PageKeeps ==
    ASSUME ListInv, ListPageRows
    PROVE  ListInv'
<1> DEFINE w == [walk EXCEPT !.seen = walk.seen \cup Page(walk.no)]
<1>0. /\ UNCHANGED <<kind, rows, erased, unread, writes>> /\ walk.pc = "rows"
      /\ walk' = IF kind = "notifs" THEN [w EXCEPT !.pc = "unread"] ELSE NextPage(w)
  BY DEF ListPageRows
<1>1. Page(walk.no) \in SUBSET Items
  <2>1. Found \in SUBSET Items
    BY AheadFacts DEF ListInv
  <2>2. QED
    BY <2>1 DEF Page, Between
<1>2. /\ w \in Walk /\ w.pc = "rows" /\ w.no = walk.no /\ w.total = walk.total
      /\ w.start = walk.start /\ w.seen = walk.seen \cup Page(walk.no)
      /\ w.shaken = walk.shaken
  BY <1>0, <1>1 DEF ListInv, ListShape, Walk
<1> HIDE DEF w
<1>3. /\ 1 <= w.no /\ w.no <= Cardinality(Items) + 1 /\ w.total <= Cardinality(Items)
  BY <1>2 DEF ListInv, WalkBounded, Bounded
<1>4. Bounded(w)
  BY <1>2, <1>3 DEF Bounded
<1>5. ASSUME ~w.shaken, NEW i \in w.start \ w.seen
      PROVE  /\ kind # "words" /\ i \in Found
             /\ w.no * PageLimit <= Cardinality(Ahead(i))
             /\ w.no * PageLimit < w.total
  <2>1. ToCome /\ i \in Unseen /\ i \notin Page(walk.no)
    BY <1>0, <1>2, <1>5 DEF ListInv, Unseen
  <2>2. /\ i \in Found /\ (walk.no - 1) * PageLimit <= Cardinality(Ahead(i))
        /\ kind # "words" => Cardinality(Ahead(i)) < walk.total
    BY <1>0, <2>1 DEF ToCome, Coming
  <2>3. kind # "words"
    BY <2>1, <2>2 DEF Page
  <2>4. ~(Cardinality(Ahead(i)) < walk.no * PageLimit)
    BY <2>1, <2>2, <2>3 DEF Page, Between
  <2>5. /\ Cardinality(Ahead(i)) \in Nat /\ walk.no \in Nat /\ walk.total \in Nat
        /\ PageLimit \in Nat
    BY Offsets, WalkFields, ListAssumption DEF ListInv
  <2>6. walk.no * PageLimit \in Nat
    BY <2>5
  <2>7. walk.no * PageLimit <= Cardinality(Ahead(i)) /\ walk.no * PageLimit < walk.total
    BY <2>2, <2>3, <2>4, <2>5, <2>6
  <2>8. QED
    BY <1>2, <2>2, <2>3, <2>7
<1>6. CASE kind = "notifs"
  <2> DEFINE v == [w EXCEPT !.pc = "unread"]
  <2>1. walk' = v
    BY <1>0, <1>6
  <2>2. /\ v \in Walk /\ v.pc = "unread" /\ v.no = w.no /\ v.total = w.total
        /\ v.start = w.start /\ v.seen = w.seen /\ v.shaken = w.shaken
    BY <1>2 DEF Walk
  <2> HIDE DEF v
  <2>3. Bounded(v)
    BY <1>3, <1>6, <2>2 DEF Bounded
  <2>4. ASSUME ~v.shaken, NEW i \in v.start \ v.seen PROVE Coming(v, i)
    <3>1. /\ i \in Found /\ w.no * PageLimit <= Cardinality(Ahead(i))
          /\ w.no * PageLimit < w.total
      BY <1>5, <2>2, <2>4
    <3>2. QED
      BY <2>2, <3>1 DEF Coming
  <2>5. QED
    BY <1>0, <2>1, <2>2, <2>3, <2>4, WalkStep
<1>7. CASE kind # "notifs"
  BY <1>0, <1>2, <1>4, <1>5, <1>7, NextPageKeeps
<1>8. QED
  BY <1>6, <1>7

LEMMA BadgeKeeps ==
    ASSUME ListInv, CountUnread
    PROVE  ListInv'
<1>0. /\ UNCHANGED <<kind, rows, erased, unread, writes>>
      /\ walk' = NextPage(walk) /\ walk.pc = "unread"
  BY DEF CountUnread
<1>1. walk \in Walk /\ Bounded(walk) /\ kind # "words"
  BY <1>0 DEF ListInv, ListShape, WalkBounded, Bounded
<1>2. ASSUME ~walk.shaken, NEW i \in walk.start \ walk.seen
      PROVE  /\ i \in Found /\ walk.no * PageLimit <= Cardinality(Ahead(i))
             /\ walk.no * PageLimit < walk.total
  <2>1. ToCome /\ i \in Unseen
    BY <1>0, <1>2 DEF ListInv, Unseen
  <2>2. QED
    BY <1>0, <2>1 DEF ToCome, Coming
<1>3. QED
  BY <1>0, <1>1, <1>2, NextPageKeeps

LEMMA GiveUpKeeps ==
    ASSUME ListInv, ListFails \/ Leave
    PROVE  ListInv'
<1>1. UNCHANGED <<kind, rows, erased, unread, writes>> /\ walk' = NoWalk
  BY DEF ListFails, Leave
<1>2. QED
  BY <1>1, NoWalkFields, WalkStep

LEMMA ListStepKeeps == ListInv /\ [ListNext]_listVars => ListInv'
<1> SUFFICES ASSUME ListInv, [ListNext]_listVars PROVE ListInv'
  OBVIOUS
<1>0. CASE UNCHANGED listVars
  <2>1. /\ UNCHANGED <<kind, rows, erased, unread, writes>> /\ walk' = walk
    BY <1>0 DEF listVars
  <2>2. walk \in Walk /\ Bounded(walk)
    BY DEF ListInv, ListShape, WalkBounded
  <2>3. walk.pc # "idle" /\ ~walk.shaken => \A i \in walk.start \ walk.seen : Coming(walk, i)
    BY DEF ListInv, ToCome, Unseen
  <2>4. QED
    BY <2>1, <2>2, <2>3, WalkStep
<1>1. ASSUME NEW i \in Items, Change(i) PROVE ListInv'
  BY <1>1, ChangeKeeps
<1>2. CASE MarkAllAsRead
  <2>1. {} \in SUBSET unread
    OBVIOUS
  <2>2. Write("notifs", rows, {}) /\ UNCHANGED walk
    BY <1>2 DEF MarkAllAsRead
  <2>3. QED
    BY <2>1, <2>2, MarkKeeps
<1>3. CASE \/ ListHistory \/ ListSavedVideos \/ ListFollowedChannels \/ ListPostsByUser
           \/ ListNotifications \/ ListWords \/ ListUsers \/ ListReplies
  BY <1>3, BeginKeeps DEF ListHistory, ListSavedVideos, ListFollowedChannels, ListPostsByUser,
     ListNotifications, ListWords, ListUsers, ListReplies
<1>4. CASE CountRows
  BY <1>4, CountKeeps
<1>5. CASE ListPageRows
  BY <1>5, PageKeeps
<1>6. CASE CountUnread
  BY <1>6, BadgeKeeps
<1>7. CASE ListFails \/ Leave
  BY <1>7, GiveUpKeeps
<1>8. QED
  BY <1>0, <1>1, <1>2, <1>3, <1>4, <1>5, <1>6, <1>7 DEF ListNext

LEMMA InitListInv == ListInit => ListInv
<1> SUFFICES ASSUME ListInit PROVE ListInv
  OBVIOUS
<1>1. /\ kind \in Lists /\ rows = << >> /\ erased = {} /\ unread = {} /\ walk = NoWalk
      /\ writes = 0
  BY DEF ListInit
<1>2. rows \in Seq(Items) /\ IsInjective(rows)
  BY <1>1 DEF IsInjective
<1>3. 0 \in 0 .. MaxWrites
  BY ListAssumption
<1>4. ListShape
  BY <1>1, <1>2, <1>3, NoWalkFields DEF ListShape
<1>5. QED
  BY <1>1, <1>4, NoWalkFields DEF ListInv, WalkBounded

(* The type invariant of the lists: the table holds one row per item, only *)
(* existing notifications are unread, and no client asks for a page beyond *)
(* what the items could fill (the repositories' List and Count methods).   *)
THEOREM ListTypeCorrect == ListSpec => []ListTypeOK
<1>1. ListInv => ListTypeOK
  <2> SUFFICES ASSUME ListInv PROVE ListTypeOK
    OBVIOUS
  <2>1. /\ kind \in Lists /\ IsInjective(rows) /\ erased \subseteq Items
        /\ unread \subseteq ToSet(rows) /\ writes \in 0 .. MaxWrites
    BY DEF ListInv, ListShape
  <2>2. ToSet(rows) \subseteq Items /\ Cardinality(Items) \in Nat
    BY RowFacts DEF ListInv, ListShape
  <2>3. /\ walk.pc \in {"idle", "count", "rows", "unread", "done"} /\ walk.no \in Nat
        /\ walk.seen \subseteq Items /\ walk.start \subseteq Items
    BY WalkFields DEF ListInv
  <2>4. 1 <= walk.no /\ walk.no <= Cardinality(Items) + 1
    BY DEF ListInv, WalkBounded, Bounded
  <2>5. walk.no \in 1 .. Cardinality(Items) + 1
    BY <2>2, <2>3, <2>4
  <2>6. QED
    BY <2>1, <2>2, <2>3, <2>5 DEF ListTypeOK
<1>2. QED
  BY <1>1, InitListInv, ListStepKeeps, PTL DEF ListSpec

(* A client that pages to the end has been shown every row that was there  *)
(* when it began, unless a row was removed or moved meanwhile or one was   *)
(* added between the COUNT and the rows of a page, for any page size and   *)
(* any number of rows (LIMIT, OFFSET and COUNT of the repositories).       *)
THEOREM NothingSkippedSafe == ListSpec => []NothingSkipped
<1>1. ListInv => NothingSkipped
  BY DEF ListInv, ToCome, Unseen, Coming, NothingSkipped
<1>2. QED
  BY <1>1, InitListInv, ListStepKeeps, PTL DEF ListSpec

-----------------------------------------------------------------------------
(* Accounts.                                                               *)

AccountSpec == AccountInit /\ [][AccountNext \/ WorkerNext]_accountVars

Session == [pc : {"idle", "checked"}, id : Ids]
AccountChange == [op : {"none", "edit", "ban", "unban"}, id : Ids, copy : UserRow \cup {NoUser}]

(* A request that is about to write has a row to write back.               *)
AccountInv ==
    /\ AccountTypeOK
    /\ \A w \in Writers : write[w].op # "none" => write[w].copy \in UserRow

LEMMA AccountFields ==
    ASSUME AccountInv
    PROVE  /\ users \in [Ids -> UserRow \cup {NoUser}] /\ token \in [Ids -> 0 .. TokenLife]
           /\ sess \in [Sessions -> Session] /\ write \in [Writers -> AccountChange]
           /\ silent \in [Workers -> 0 .. StaleAfter + 1] /\ alive \in [Workers -> BOOLEAN]
           /\ Admin \in Ids
BY AccountAssumption DEF AccountInv, AccountTypeOK, Session, AccountChange

LEMMA ReadRowKeeps ==
    ASSUME AccountInv, NEW w \in Writers, NEW op \in {"edit", "ban", "unban"}, NEW i \in Ids,
           ReadRow(w, op, i)
    PROVE  AccountInv'
<1> DEFINE r == [op |-> op, id |-> i, copy |-> users[i]]
<1>1. users[i] \in UserRow
  BY AccountFields DEF ReadRow, Registered
<1>2. r \in AccountChange /\ r.copy \in UserRow
  BY <1>1 DEF AccountChange
<1> HIDE DEF r
<1>3. write' = [write EXCEPT ![w] = r] /\ UNCHANGED <<users, token, sess, silent, alive>>
  BY DEF ReadRow, r
<1>4. write' \in [Writers -> AccountChange]
  BY <1>2, <1>3, AccountFields
<1>5. \A x \in Writers : write'[x].op # "none" => write'[x].copy \in UserRow
  BY <1>2, <1>3, AccountFields DEF AccountInv
<1>6. QED
  BY <1>3, <1>4, <1>5, AccountFields DEF AccountInv, AccountTypeOK, Session, AccountChange

LEMMA UpdateKeeps ==
    ASSUME AccountInv, NEW w \in Writers, NEW row \in UserRow, Update(w, row)
    PROVE  AccountInv'
<1> DEFINE r == [op |-> "none", id |-> Admin, copy |-> NoUser]
<1>1. r \in AccountChange /\ r.op = "none"
  BY AccountFields DEF AccountChange
<1> HIDE DEF r
<1>2. write' = [write EXCEPT ![w] = r] /\ UNCHANGED <<token, sess, silent, alive>>
  BY DEF Update, r
<1>3. write' \in [Writers -> AccountChange]
  BY <1>1, <1>2, AccountFields
<1>4. \A x \in Writers : write'[x].op # "none" => write'[x].copy \in UserRow
  BY <1>1, <1>2, AccountFields DEF AccountInv
<1>5. write[w].id \in Ids
  BY AccountFields DEF AccountChange
<1>6. users' \in [Ids -> UserRow \cup {NoUser}]
  <2>1. users' = users \/ users' = [users EXCEPT ![write[w].id] = row]
    BY DEF Update
  <2>2. QED
    BY <1>5, <2>1, AccountFields
<1>7. QED
  BY <1>2, <1>3, <1>4, <1>6, AccountFields DEF AccountInv, AccountTypeOK, Session, AccountChange

LEMMA AccountStepKeeps == AccountInv /\ [AccountNext \/ WorkerNext]_accountVars => AccountInv'
<1> SUFFICES ASSUME AccountInv, [AccountNext \/ WorkerNext]_accountVars PROVE AccountInv'
  OBVIOUS
<1>0. CASE UNCHANGED accountVars
  BY <1>0 DEF accountVars, AccountInv, AccountTypeOK
<1>1. ASSUME NEW i \in Ids, NEW n \in Names, Register(i, n) PROVE AccountInv'
  <2>1. [name |-> n, banned |-> FALSE] \in UserRow
    BY DEF UserRow
  <2>2. users' \in [Ids -> UserRow \cup {NoUser}]
    BY <1>1, <2>1, AccountFields DEF Register
  <2>3. UNCHANGED <<token, sess, write, silent, alive>>
    BY <1>1 DEF Register
  <2>4. QED
    BY <2>2, <2>3 DEF AccountInv, AccountTypeOK
<1>2. ASSUME NEW s \in Sessions, NEW i \in Ids, Read(s, i) PROVE AccountInv'
  <2>1. [pc |-> "checked", id |-> i] \in Session
    BY DEF Session
  <2>2. sess' \in [Sessions -> Session]
    BY <1>2, <2>1, AccountFields DEF Read
  <2>3. UNCHANGED <<users, token, write, silent, alive>>
    BY <1>2 DEF Read
  <2>4. QED
    BY <2>2, <2>3 DEF AccountInv, AccountTypeOK, Session
<1>3. ASSUME NEW s \in Sessions, GenerateToken(s) PROVE AccountInv'
  <2>1. [pc |-> "idle", id |-> Admin] \in Session
    BY AccountFields DEF Session
  <2>2. sess' \in [Sessions -> Session]
    BY <1>3, <2>1, AccountFields DEF GenerateToken
  <2>3. sess[s].id \in Ids
    BY AccountFields DEF Session
  <2>4. TokenLife \in 0 .. TokenLife
    BY AccountAssumption
  <2>5. token' \in [Ids -> 0 .. TokenLife]
    BY <1>3, <2>3, <2>4, AccountFields DEF GenerateToken
  <2>6. UNCHANGED <<users, write, silent, alive>>
    BY <1>3 DEF GenerateToken
  <2>7. QED
    BY <2>2, <2>5, <2>6 DEF AccountInv, AccountTypeOK, Session
<1>4. ASSUME NEW w \in Writers, NEW i \in Ids,
             UpdateUserRead(w, i) \/ \E op \in {"ban", "unban"} : SetUserBannedRead(w, op, i)
      PROVE  AccountInv'
  BY <1>4, ReadRowKeeps DEF UpdateUserRead, SetUserBannedRead
<1>5. ASSUME NEW w \in Writers, UpdateUser(w) PROVE AccountInv'
  <2>1. write[w].copy \in UserRow
    BY <1>5 DEF UpdateUser, AccountInv
  <2>2. PICK n \in Names : Update(w, [write[w].copy EXCEPT !.name = n])
    BY <1>5 DEF UpdateUser
  <2>3. [write[w].copy EXCEPT !.name = n] \in UserRow
    BY <2>1 DEF UserRow
  <2>4. QED
    BY <2>2, <2>3, UpdateKeeps
<1>6. ASSUME NEW w \in Writers, SetUserBanned(w) PROVE AccountInv'
  <2>1. write[w].copy \in UserRow
    BY <1>6 DEF SetUserBanned, AccountInv
  <2>2. PICK yes \in BOOLEAN : yes = (write[w].op = "ban")
    OBVIOUS
  <2>3. [write[w].copy EXCEPT !.banned = yes] \in UserRow
    BY <2>1 DEF UserRow
  <2>4. Update(w, [write[w].copy EXCEPT !.banned = yes])
    BY <1>6, <2>2 DEF SetUserBanned
  <2>5. QED
    BY <2>3, <2>4, UpdateKeeps
<1>7. CASE TokensAge
  <2>1. \A i \in Ids : (IF token[i] > 0 THEN token[i] - 1 ELSE 0) \in 0 .. TokenLife
    <3> SUFFICES ASSUME NEW i \in Ids
                 PROVE  (IF token[i] > 0 THEN token[i] - 1 ELSE 0) \in 0 .. TokenLife
      OBVIOUS
    <3>1. token[i] \in 0 .. TokenLife
      BY AccountFields
    <3>2. QED
      BY <3>1, AccountAssumption
  <2>2. token' \in [Ids -> 0 .. TokenLife]
    BY <1>7, <2>1 DEF TokensAge
  <2>3. UNCHANGED <<users, sess, write, silent, alive>>
    BY <1>7 DEF TokensAge
  <2>4. QED
    BY <2>2, <2>3 DEF AccountInv, AccountTypeOK
<1>8. ASSUME NEW k \in Workers, RecordHeartbeat(k) PROVE AccountInv'
  <2>1. 0 \in 0 .. StaleAfter + 1
    BY AccountAssumption
  <2>2. silent' \in [Workers -> 0 .. StaleAfter + 1]
    BY <1>8, <2>1, AccountFields DEF RecordHeartbeat, UpsertHeartbeat
  <2>3. UNCHANGED <<users, token, sess, write, alive>>
    BY <1>8 DEF RecordHeartbeat
  <2>4. QED
    BY <2>2, <2>3 DEF AccountInv, AccountTypeOK
<1>9. ASSUME NEW k \in Workers, WorkerStopsOrStarts(k) PROVE AccountInv'
  <2>1. alive' \in [Workers -> BOOLEAN]
    BY <1>9, AccountFields, Zenon DEF WorkerStopsOrStarts
  <2>2. UNCHANGED <<users, token, sess, write, silent>>
    BY <1>9 DEF WorkerStopsOrStarts
  <2>3. QED
    BY <2>1, <2>2 DEF AccountInv, AccountTypeOK
<1>10. CASE Silence
  <2>1. \A k \in Workers :
          (IF silent[k] <= StaleAfter THEN silent[k] + 1 ELSE silent[k]) \in 0 .. StaleAfter + 1
    <3> SUFFICES ASSUME NEW k \in Workers
                 PROVE  (IF silent[k] <= StaleAfter THEN silent[k] + 1 ELSE silent[k])
                        \in 0 .. StaleAfter + 1
      OBVIOUS
    <3>1. silent[k] \in 0 .. StaleAfter + 1
      BY AccountFields
    <3>2. QED
      BY <3>1, AccountAssumption
  <2>2. silent' \in [Workers -> 0 .. StaleAfter + 1]
    BY <1>10, <2>1 DEF Silence
  <2>3. UNCHANGED <<users, token, sess, write, alive>>
    BY <1>10 DEF Silence
  <2>4. QED
    BY <2>2, <2>3 DEF AccountInv, AccountTypeOK
<1>11. QED
  BY <1>0, <1>1, <1>2, <1>3, <1>4, <1>5, <1>6, <1>7, <1>8, <1>9, <1>10
     DEF AccountNext, WorkerNext, Login, RefreshToken

LEMMA InitAccountInv == AccountInit => AccountInv
<1> SUFFICES ASSUME AccountInit PROVE AccountInv
  OBVIOUS
<1>1. PICK n \in Names : n = CHOOSE m \in Names : TRUE
  BY AccountAssumption
<1>2. [name |-> n, banned |-> FALSE] \in UserRow /\ Admin \in Ids
  BY AccountAssumption DEF UserRow
<1>3. users = [i \in Ids |-> IF i = Admin THEN [name |-> n, banned |-> FALSE] ELSE NoUser]
  BY <1>1 DEF AccountInit
<1>4. users \in [Ids -> UserRow \cup {NoUser}]
  BY <1>2, <1>3
<1>5. 0 \in 0 .. TokenLife /\ StaleAfter + 1 \in 0 .. StaleAfter + 1
  BY AccountAssumption
<1>6. /\ token \in [Ids -> 0 .. TokenLife] /\ silent \in [Workers -> 0 .. StaleAfter + 1]
      /\ alive \in [Workers -> BOOLEAN]
  BY <1>5 DEF AccountInit
<1>7. sess \in [Sessions -> Session]
  BY <1>2 DEF AccountInit, Session
<1>8. write \in [Writers -> AccountChange] /\ \A w \in Writers : write[w].op = "none"
  BY <1>2 DEF AccountInit, AccountChange
<1>9. QED
  BY <1>4, <1>6, <1>7, <1>8 DEF AccountInv, AccountTypeOK, Session, AccountChange

-----------------------------------------------------------------------------
(* The parts together: a behaviour of the whole is a behaviour of each.    *)

(* MCCommunity takes the steps of one part and leaves the others alone, as *)
(* their use cases touch different tables, so what is proved of a part     *)
(* holds in every behaviour that the Community run explores.               *)
THEOREM PartsHold ==
    Spec => AccountSpec /\ ContentSpec /\ DeliverySpec /\ FeedSpec /\ RecSpec /\ ListSpec
<1>1. Init => AccountInit /\ ContentInit /\ DeliveryInit /\ FeedInit /\ ListInit
  BY DEF Init
<1>2. [Next]_vars => [AccountNext \/ WorkerNext]_accountVars
  BY DEF Next, Only, vars
<1>3. [Next]_vars => [ContentNext]_contentVars
  BY DEF Next, Only, vars, ContentNext, contentVars
<1>4. [Next]_vars => [DeliveryNext]_deliveryVars
  BY DEF Next, Only, vars
<1>5. [Next]_vars => [FeedNext]_feedVars
  BY DEF Next, Only, vars
<1>6. [Next]_vars => [RecNext]_recVars
  BY DEF Next, Only, vars
<1>7. [Next]_vars => [ListNext]_listVars
  BY DEF Next, Only, vars
<1>8. QED
  BY <1>1, <1>2, <1>3, <1>4, <1>5, <1>6, <1>7, PTL
     DEF Spec, AccountSpec, ContentSpec, DeliverySpec, FeedSpec, RecSpec, ListSpec

(* The type invariant of all the community parts: accounts, comments,      *)
(* replaced tracks, look-ups, hubs, feeds, training and lists.             *)
THEOREM CommunityTypeCorrect == Spec => []TypeOK
<1>1. AccountSpec => []AccountTypeOK
  <2>1. AccountInv => AccountTypeOK
    BY DEF AccountInv
  <2>2. QED
    BY <2>1, InitAccountInv, AccountStepKeeps, PTL DEF AccountSpec
<1>2. FeedSpec /\ RecSpec => []FeedTypeOK
  <2>1. FeedInv /\ RecInv => FeedTypeOK
    <3> SUFFICES ASSUME FeedInv, RecInv PROVE FeedTypeOK
      OBVIOUS
    <3>1. /\ public \in [Vids -> BOOLEAN] /\ hits \in [Buckets -> [Vids -> 0 .. MaxHits]]
          /\ IsInjective(feed.ids)
      BY DEF FeedInv
    <3>2. /\ feed.pc \in {"idle", "reels", "rows", "count", "page", "done", "error"}
          /\ feed.page \in 0 .. MaxPage /\ DOMAIN feed.ids \subseteq Vids
          /\ feed.answer \subseteq Vids /\ feed.total \in 0 .. Cardinality(Vids)
      BY FeedFields
    <3>3. model \in Model /\ trainer \in Trainer /\ rec \in Rec
      BY DEF RecInv
    <3>4. QED
      BY <3>1, <3>2, <3>3 DEF FeedTypeOK, Model, Trainer, Rec
  <2>2. QED
    BY <2>1, InitFeedInv, FeedStepKeeps, InitRecInv, RecStepKeeps, PTL DEF FeedSpec, RecSpec
<1>3. AccountTypeOK /\ ContentTypeOK /\ DeliveryTypeOK /\ FeedTypeOK /\ ListTypeOK => TypeOK
  BY DEF TypeOK
<1>4. QED
  BY <1>1, <1>2, <1>3, PartsHold, ContentTypeCorrect, DeliveryTypeCorrect, ListTypeCorrect, PTL

(* Together, what the runs check of the community parts holds in every     *)
(* behaviour of the whole, for every value of the constants.               *)
THEOREM CommunitySafe ==
    Spec => /\ [](HeaderCoversPage /\ LastReplaceStands /\ LookupComplete)
            /\ [](NoSendOnClosed /\ NotifyCoversFollowers)
            /\ [](OneModel /\ NothingSkipped)
            /\ ServesOnlyPublic
BY PartsHold, HeaderSafe, ReplaceSafe, LookupSafe, NoSendOnClosedSafe, NotifySafe, OneModelSafe,
   NothingSkippedSafe, OnlyPublicSafe, PTL
=============================================================================
