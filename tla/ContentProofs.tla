---------------------------- MODULE ContentProofs ---------------------------
(***************************************************************************)
(* Proofs about Content: the header over a page of comments, replaced      *)
(* tracks and category lists, and the dictionary lookup, for every number  *)
(* of videos, requests, transactions and languages.                        *)
(***************************************************************************)
EXTENDS Content, FiniteSetTheorems, SequenceTheorems, TLAPS

(* The three parts side by side: they share no variable.                   *)
ContentNext ==
    \/ CommentNext /\ UNCHANGED <<replaceVars, lookup>>
    \/ (SubtitleNext \/ PreferenceNext) /\ UNCHANGED <<commentVars, lookup>>
    \/ LookupNext /\ UNCHANGED <<commentVars, replaceVars>>

ContentSpec == ContentInit /\ [][ContentNext]_contentVars

-----------------------------------------------------------------------------
(* Comments.                                                               *)

Comment == [video : CVideos, parent : 0 .. MaxComments]
Pending == [video : CVideos \cup {NoVideoId}, parent : 0 .. MaxComments]
Listing == [pc : {"idle", "rows", "all", "done"}, video : CVideos \cup {NoVideoId}, page : Nat,
            total : Nat, shown : Nat, totalAll : Nat]

CommentShape ==
    /\ comments \in Seq(Comment) /\ Len(comments) <= MaxComments
    /\ commenter \in [Commenters -> Pending]
    /\ listing \in Listing

(* A reply, stored or about to be, is on the video of its parent.          *)
SameVideo(c) ==
    c.parent # 0 => c.parent \in 1 .. Len(comments) /\ comments[c.parent].video = c.video

RepliesStay ==
    /\ \A i \in 1 .. Len(comments) : SameVideo(comments[i])
    /\ \A q \in Commenters : commenter[q].video # NoVideoId => SameVideo(commenter[q])

(* What the first two statements returned is covered by the video's        *)
(* comments of now; comments are only added.                               *)
Counted ==
    /\ listing.total <= MaxComments /\ listing.totalAll <= MaxComments
    /\ listing.pc \in {"rows", "all"} => listing.total <= Cardinality(OfVideo(listing.video))
    /\ listing.pc = "all" => listing.shown <= Cardinality(OfVideo(listing.video))

CommentInv == CommentShape /\ RepliesStay /\ Counted /\ HeaderCoversPage

LEMMA CommentFields ==
    ASSUME CommentShape
    PROVE  /\ Len(comments) \in Nat /\ DOMAIN comments = 1 .. Len(comments)
           /\ \A i \in 1 .. Len(comments) :
                 /\ comments[i] \in Comment /\ comments[i].video \in CVideos
                 /\ comments[i].parent \in 0 .. MaxComments
           /\ \A q \in Commenters : commenter[q] \in Pending
           /\ listing.total \in Nat /\ listing.shown \in Nat /\ listing.totalAll \in Nat
           /\ listing.video \in CVideos \cup {NoVideoId} /\ listing.page \in Nat
<1>1. Len(comments) \in Nat /\ DOMAIN comments = 1 .. Len(comments)
  BY LenProperties DEF CommentShape
<1>2. \A i \in 1 .. Len(comments) : comments[i] \in Comment
  BY ElementOfSeq DEF CommentShape
<1>3. \A i \in 1 .. Len(comments) :
        comments[i].video \in CVideos /\ comments[i].parent \in 0 .. MaxComments
  BY <1>2 DEF Comment
<1>4. \A q \in Commenters : commenter[q] \in Pending
  BY DEF CommentShape
<1>5. /\ listing.total \in Nat /\ listing.shown \in Nat /\ listing.totalAll \in Nat
      /\ listing.video \in CVideos \cup {NoVideoId} /\ listing.page \in Nat
  BY DEF CommentShape, Listing
<1>6. QED
  BY <1>1, <1>2, <1>3, <1>4, <1>5

(* The comments of a video are finitely many, at most MaxComments.         *)
LEMMA OfVideoFinite ==
    ASSUME CommentShape, NEW v
    PROVE  /\ IsFiniteSet(OfVideo(v)) /\ Cardinality(OfVideo(v)) \in Nat
           /\ Cardinality(OfVideo(v)) <= MaxComments
           /\ \A S \in SUBSET OfVideo(v) :
                 /\ IsFiniteSet(S) /\ Cardinality(S) \in Nat
                 /\ Cardinality(S) <= Cardinality(OfVideo(v))
<1>1. OfVideo(v) \in SUBSET (1 .. Len(comments)) /\ Len(comments) \in Nat
  BY CommentFields DEF OfVideo
<1>2. /\ IsFiniteSet(1 .. Len(comments))
      /\ Cardinality(1 .. Len(comments)) = IF 1 > Len(comments) THEN 0 ELSE Len(comments) - 1 + 1
  BY <1>1, FS_Interval
<1>3. IsFiniteSet(OfVideo(v)) /\ Cardinality(OfVideo(v)) <= Cardinality(1 .. Len(comments))
  BY <1>1, <1>2, FS_Subset
<1>4. Cardinality(OfVideo(v)) \in Nat
  BY <1>3, FS_CardinalityType
<1>5. Cardinality(OfVideo(v)) <= MaxComments
  BY <1>1, <1>2, <1>3, <1>4, ContentAssumption DEF CommentShape
<1>6. ASSUME NEW S \in SUBSET OfVideo(v)
      PROVE  IsFiniteSet(S) /\ Cardinality(S) \in Nat /\ Cardinality(S) <= Cardinality(OfVideo(v))
  BY <1>3, FS_Subset, FS_CardinalityType
<1>7. QED
  BY <1>3, <1>4, <1>5, <1>6

(* A page and the replies it announces are different comments of the same  *)
(* video.                                                                  *)
LEMMA PageCovered ==
    ASSUME CommentShape, RepliesStay, NEW v \in CVideos \cup {NoVideoId}, NEW page \in Nat
    PROVE  /\ Cardinality(PageRows(v, page)) + Cardinality(RepliesTo(PageRows(v, page))) \in Nat
           /\ Cardinality(PageRows(v, page)) + Cardinality(RepliesTo(PageRows(v, page)))
                <= Cardinality(OfVideo(v))
<1> DEFINE P == PageRows(v, page)
           R == RepliesTo(P)
<1>1. P \in SUBSET TopLevel(v)
  BY DEF PageRows
<1>2. TopLevel(v) \in SUBSET OfVideo(v) /\ \A i \in TopLevel(v) : comments[i].parent = 0
  BY DEF TopLevel
<1> HIDE DEF P
<1>3. \A i \in P : i \in 1 .. Len(comments) /\ comments[i].video = v /\ comments[i].parent = 0
  BY <1>1, <1>2, CommentFields DEF OfVideo
<1>4. R \in SUBSET OfVideo(v) /\ P \cap R = {}
  <2>1. ASSUME NEW j \in R PROVE j \in OfVideo(v) /\ j \notin P
    <3>1. j \in 1 .. Len(comments) /\ comments[j].parent \in P
      BY CommentFields DEF RepliesTo
    <3>2. comments[j].parent # 0
      BY <1>3, <3>1, CommentFields
    <3>3. comments[j].video = v
      BY <1>3, <3>1, <3>2 DEF RepliesStay, SameVideo
    <3>4. QED
      BY <1>3, <3>1, <3>2, <3>3, CommentFields DEF OfVideo
  <2>2. QED
    BY <2>1
<1>5. /\ IsFiniteSet(P) /\ Cardinality(P) \in Nat /\ IsFiniteSet(R) /\ Cardinality(R) \in Nat
      /\ Cardinality(P \cup R) <= Cardinality(OfVideo(v))
  BY <1>1, <1>2, <1>4, OfVideoFinite
<1> HIDE DEF R
<1>6. Cardinality(P \cup R) = Cardinality(P) + Cardinality(R) - Cardinality(P \cap R)
  BY <1>5, FS_Union
<1>7. Cardinality(P) + Cardinality(R) <= Cardinality(OfVideo(v))
  <2>1. Cardinality(P \cap R) = 0
    BY <1>4, FS_EmptySet
  <2>2. QED
    BY <1>5, <1>6, <2>1
<1>8. QED
  BY <1>5, <1>7 DEF P, R

LEMMA InitCommentInv == ContentInit => CommentInv
<1> SUFFICES ASSUME ContentInit PROVE CommentInv
  OBVIOUS
<1>1. comments \in Seq(Comment) /\ Len(comments) = 0 /\ 0 <= MaxComments
  BY ContentAssumption, EmptySeq DEF ContentInit
<1>2. commenter \in [Commenters -> Pending]
  BY ContentAssumption DEF ContentInit, Pending
<1>3. /\ listing \in Listing /\ listing.pc = "idle" /\ listing.total = 0 /\ listing.totalAll = 0
  BY DEF ContentInit, Listing
<1>4. CommentShape
  BY <1>1, <1>2, <1>3 DEF CommentShape
<1>5. RepliesStay
  BY <1>1 DEF RepliesStay, ContentInit
<1>6. Counted /\ HeaderCoversPage
  BY <1>1, <1>3 DEF Counted, HeaderCoversPage
<1>7. QED
  BY <1>4, <1>5, <1>6 DEF CommentInv

LEMMA CreateCommentKeeps ==
    ASSUME CommentInv, NEW q \in Commenters, NEW v \in CVideos, NEW p \in 0 .. MaxComments,
           CreateComment(q, v, p)
    PROVE  CommentInv'
<1>1. UNCHANGED <<comments, listing>> /\ CommentShape
  BY DEF CreateComment, CommentInv
<1>2. commenter' = [commenter EXCEPT ![q] = [video |-> v, parent |-> p]]
  BY DEF CreateComment
<1>3. [video |-> v, parent |-> p] \in Pending
  BY DEF Pending
<1>4. CommentShape'
  BY <1>1, <1>2, <1>3 DEF CommentShape
<1>5. RepliesStay'
  <2>1. p # 0 => p \in 1 .. Len(comments) /\ comments[p].video = v
    BY <1>1, CommentFields DEF CreateComment, ValidParent
  <2>2. ASSUME NEW r \in Commenters, commenter'[r].video # NoVideoId
        PROVE  SameVideo(commenter'[r])
    <3>1. CASE r = q
      BY <1>1, <1>2, <2>1, <3>1 DEF SameVideo, CommentShape
    <3>2. CASE r # q
      BY <1>1, <1>2, <2>2, <3>2 DEF CommentInv, RepliesStay, CommentShape
    <3>3. QED
      BY <3>1, <3>2
  <2>3. QED
    BY <1>1, <2>2 DEF CommentInv, RepliesStay, SameVideo
<1>6. Counted' /\ HeaderCoversPage'
  BY <1>1 DEF CommentInv, Counted, HeaderCoversPage, OfVideo
<1>7. QED
  BY <1>4, <1>5, <1>6 DEF CommentInv

LEMMA StoreCommentKeeps ==
    ASSUME CommentInv, NEW q \in Commenters, StoreComment(q)
    PROVE  CommentInv'
<1>s. /\ CommentShape /\ commenter[q] \in Pending /\ commenter[q].video # NoVideoId
      /\ listing' = listing /\ SameVideo(commenter[q])
      /\ Len(comments) \in Nat /\ Len(comments) < MaxComments
  BY CommentFields DEF CommentInv, StoreComment, RepliesStay
<1>1. commenter[q] \in Comment
  BY <1>s DEF Pending, Comment
<1>2. /\ comments' \in Seq(Comment) /\ Len(comments') = Len(comments) + 1
      /\ \A i \in 1 .. Len(comments) : comments'[i] = comments[i]
      /\ comments'[Len(comments) + 1] = commenter[q]
  BY <1>1, <1>s, AppendProperties DEF StoreComment, CommentShape
<1>3. commenter' = [commenter EXCEPT ![q] = [video |-> NoVideoId, parent |-> 0]]
  BY DEF StoreComment
<1>4. CommentShape'
  <2>1. [video |-> NoVideoId, parent |-> 0] \in Pending
    BY ContentAssumption DEF Pending
  <2>2. Len(comments') <= MaxComments
    BY <1>2, <1>s, ContentAssumption
  <2>3. QED
    BY <1>2, <1>3, <1>s, <2>1, <2>2 DEF CommentShape
<1>5. RepliesStay'
  <2>0. ASSUME NEW c, SameVideo(c)
        PROVE  c.parent # 0 => c.parent \in 1 .. Len(comments') /\ comments'[c.parent].video = c.video
    BY <1>2, <1>s, <2>0 DEF SameVideo
  <2>1. ASSUME NEW i \in 1 .. Len(comments')
        PROVE  comments'[i].parent # 0 =>
                 /\ comments'[i].parent \in 1 .. Len(comments')
                 /\ comments'[comments'[i].parent].video = comments'[i].video
    <3>1. SameVideo(comments'[i])
      <4>1. CASE i = Len(comments) + 1
        BY <1>2, <1>s, <4>1
      <4>2. CASE i # Len(comments) + 1
        <5>1. i \in 1 .. Len(comments)
          BY <1>2, <1>s, <4>2
        <5>2. QED
          BY <1>2, <5>1 DEF CommentInv, RepliesStay
      <4>3. QED
        BY <4>1, <4>2
    <3>2. QED
      BY <2>0, <3>1
  <2>2. ASSUME NEW r \in Commenters, commenter'[r].video # NoVideoId
        PROVE  commenter'[r].parent # 0 =>
                 /\ commenter'[r].parent \in 1 .. Len(comments')
                 /\ comments'[commenter'[r].parent].video = commenter'[r].video
    <3>1. r # q /\ commenter'[r] = commenter[r]
      BY <1>3, <1>s, <2>2 DEF CommentShape
    <3>2. SameVideo(commenter[r])
      BY <2>2, <3>1 DEF CommentInv, RepliesStay
    <3>3. QED
      BY <2>0, <3>1, <3>2
  <2>3. QED
    BY <2>1, <2>2 DEF RepliesStay, SameVideo
<1>6. Counted'
  <2>1. OfVideo(listing.video) \in SUBSET OfVideo(listing.video)'
    BY <1>2, <1>4, <1>s, LenProperties DEF OfVideo, CommentShape
  <2>2. /\ Cardinality(OfVideo(listing.video)') \in Nat
        /\ Cardinality(OfVideo(listing.video)) \in Nat
        /\ Cardinality(OfVideo(listing.video)) <= Cardinality(OfVideo(listing.video)')
    <3>1. IsFiniteSet(OfVideo(listing.video)')
      <4>1. OfVideo(listing.video)' \in SUBSET (1 .. Len(comments'))
        BY <1>2, <1>s, LenProperties DEF OfVideo
      <4>2. IsFiniteSet(1 .. Len(comments'))
        <5>1. Len(comments') \in Int
          BY <1>2, <1>s
        <5>2. QED
          BY <5>1, FS_Interval
      <4>3. QED
        BY <4>1, <4>2, FS_Subset
    <3>2. QED
      BY <2>1, <3>1, FS_Subset, FS_CardinalityType
  <2>3. /\ Counted /\ listing.total \in Nat /\ listing.shown \in Nat
    BY <1>s, CommentFields DEF CommentInv
  <2>4. QED
    BY <1>s, <2>2, <2>3 DEF Counted
<1>7. HeaderCoversPage'
  BY <1>s DEF CommentInv, HeaderCoversPage
<1>8. QED
  BY <1>4, <1>5, <1>6, <1>7 DEF CommentInv

(* The three statements of ListVideoComments.                              *)
LEMMA ListCommentsKeeps ==
    ASSUME CommentInv, UNCHANGED <<comments, commenter>>, listing' \in Listing,
           listing'.total <= MaxComments, listing'.totalAll <= MaxComments,
           listing'.pc \in {"rows", "all"} =>
             listing'.total <= Cardinality(OfVideo(listing'.video)),
           listing'.pc = "all" => listing'.shown <= Cardinality(OfVideo(listing'.video)),
           listing'.pc = "done" => /\ listing'.total <= listing'.totalAll
                                   /\ listing'.shown <= listing'.totalAll
    PROVE  CommentInv'
<1>1. CommentShape' /\ RepliesStay'
  BY DEF CommentInv, CommentShape, RepliesStay, SameVideo
<1>2. Counted'
  BY DEF Counted, OfVideo
<1>3. HeaderCoversPage'
  BY DEF HeaderCoversPage, Listing
<1>4. QED
  BY <1>1, <1>2, <1>3 DEF CommentInv

LEMMA CommentStepKeeps == CommentInv /\ [CommentNext]_commentVars => CommentInv'
<1> SUFFICES ASSUME CommentInv, [CommentNext]_commentVars PROVE CommentInv'
  OBVIOUS
<1>s. CommentShape /\ RepliesStay /\ Counted /\ listing \in Listing
  BY DEF CommentInv, CommentShape
<1>1. CASE UNCHANGED commentVars
  BY <1>1 DEF commentVars, CommentInv, CommentShape, RepliesStay, SameVideo, Counted,
     HeaderCoversPage, OfVideo
<1>2. ASSUME NEW v \in CVideos, NEW page \in 1 .. 2, ListVideoComments(v, page) PROVE CommentInv'
  <2>1. /\ Cardinality(TopLevel(v)) \in Nat
        /\ Cardinality(TopLevel(v)) <= Cardinality(OfVideo(v))
        /\ Cardinality(OfVideo(v)) \in Nat /\ Cardinality(OfVideo(v)) <= MaxComments
    <3>1. TopLevel(v) \in SUBSET OfVideo(v)
      BY DEF TopLevel
    <3>2. QED
      BY <1>s, <3>1, OfVideoFinite
  <2>2. listing' = [pc |-> "rows", video |-> v, page |-> page,
                    total |-> Cardinality(TopLevel(v)), shown |-> 0, totalAll |-> 0]
    BY <1>2 DEF ListVideoComments
  <2>3. /\ listing' \in Listing /\ listing'.pc = "rows" /\ listing'.video = v
        /\ listing'.total = Cardinality(TopLevel(v)) /\ listing'.totalAll = 0
    BY <2>1, <2>2 DEF Listing
  <2>4. listing'.total <= MaxComments /\ listing'.totalAll <= MaxComments
    BY <2>1, <2>3, ContentAssumption
  <2>5. UNCHANGED <<comments, commenter>>
    BY <1>2 DEF ListVideoComments
  <2>6. QED
    BY <2>1, <2>3, <2>4, <2>5, ListCommentsKeeps
<1>3. CASE ListRows
  <2> DEFINE n == Cardinality(PageRows(listing.video, listing.page)) +
                  Cardinality(RepliesTo(PageRows(listing.video, listing.page)))
  <2>1. n \in Nat /\ n <= Cardinality(OfVideo(listing.video))
    BY <1>s, PageCovered, CommentFields
  <2>2. listing' = [listing EXCEPT !.pc = "all", !.shown = n] /\ listing.pc = "rows"
    BY <1>3 DEF ListRows
  <2> HIDE DEF n
  <2>3. /\ listing' \in Listing /\ listing'.pc = "all" /\ listing'.video = listing.video
        /\ listing'.total = listing.total /\ listing'.totalAll = listing.totalAll
        /\ listing'.shown = n
    BY <1>s, <2>1, <2>2 DEF Listing
  <2>4. UNCHANGED <<comments, commenter>>
    BY <1>3 DEF ListRows
  <2>5. QED
    BY <1>s, <2>1, <2>2, <2>3, <2>4, ListCommentsKeeps DEF Counted
<1>4. CASE ListTotalAll
  <2> DEFINE n == Cardinality(OfVideo(listing.video))
  <2>1. n \in Nat /\ n <= MaxComments
    BY <1>s, OfVideoFinite
  <2>2. listing' = [listing EXCEPT !.pc = "done", !.totalAll = n] /\ listing.pc = "all"
    BY <1>4 DEF ListTotalAll, CountAllByVideoID
  <2> HIDE DEF n
  <2>3. /\ listing' \in Listing /\ listing'.pc = "done" /\ listing'.video = listing.video
        /\ listing'.total = listing.total /\ listing'.totalAll = n
        /\ listing'.shown = listing.shown
    BY <1>s, <2>1, <2>2 DEF Listing
  <2>4. listing.total <= n /\ listing.shown <= n /\ listing.total <= MaxComments
    BY <1>s, <2>2 DEF Counted, n
  <2>5. UNCHANGED <<comments, commenter>>
    BY <1>4 DEF ListTotalAll
  <2>6. QED
    BY <2>1, <2>3, <2>4, <2>5, ListCommentsKeeps
<1>5. QED
  BY <1>1, <1>2, <1>3, <1>4, CreateCommentKeeps, StoreCommentKeeps DEF CommentNext

-----------------------------------------------------------------------------
(* Replacing.                                                              *)

StoredRow == [by : Replacers \cup {NoVideoId}, key : (Int \X BOOLEAN) \cup Categories]
Transaction == [pc : {"idle", "delete", "insert", "done"}, table : Tables,
                snap : SUBSET StoredRow, rows : SUBSET StoredRow, gone : SUBSET StoredRow,
                put : SUBSET StoredRow, raced : BOOLEAN]

ReplaceShape ==
    /\ store \in [Tables -> SUBSET StoredRow] /\ last \in [Tables -> SUBSET StoredRow]
    /\ mixed \in [Tables -> BOOLEAN]
    /\ rep \in [Replacers -> Transaction]

(* A transaction inserts its own rows and deletes what its snapshot saw;   *)
(* as long as no other one has committed beside it, that is all there is.  *)
Undisturbed(t) ==
    /\ rep[t].put \subseteq rep[t].rows /\ rep[t].gone \subseteq rep[t].snap
    /\ rep[t].pc = "idle" => rep[t].put = {} /\ rep[t].gone = {}
    /\ rep[t].pc = "delete" /\ ~rep[t].raced => rep[t].snap = store[rep[t].table]
    /\ rep[t].pc = "insert" /\ ~rep[t].raced => rep[t].gone = store[rep[t].table]

ReplaceInv ==
    /\ ReplaceShape /\ LastReplaceStands
    /\ \A t \in Replacers : Undisturbed(t)

LEMMA RepFields ==
    ASSUME ReplaceShape, NEW t \in Replacers
    PROVE  /\ rep[t] \in Transaction /\ rep[t].pc \in {"idle", "delete", "insert", "done"}
           /\ rep[t].table \in Tables /\ rep[t].snap \in SUBSET StoredRow
           /\ rep[t].rows \in SUBSET StoredRow /\ rep[t].gone \in SUBSET StoredRow
           /\ rep[t].put \in SUBSET StoredRow /\ rep[t].raced \in BOOLEAN
           /\ store[rep[t].table] \in SUBSET StoredRow
<1>1. rep[t] \in Transaction
  BY DEF ReplaceShape
<1>2. /\ rep[t].pc \in {"idle", "delete", "insert", "done"}
      /\ rep[t].table \in Tables /\ rep[t].snap \in SUBSET StoredRow
      /\ rep[t].rows \in SUBSET StoredRow /\ rep[t].gone \in SUBSET StoredRow
      /\ rep[t].put \in SUBSET StoredRow /\ rep[t].raced \in BOOLEAN
  BY <1>1 DEF Transaction
<1>3. QED
  BY <1>1, <1>2 DEF ReplaceShape

(* A step of one transaction that commits nothing.                         *)
LEMMA OpenStep ==
    ASSUME ReplaceInv, NEW t \in Replacers, NEW new \in Transaction,
           rep' = [rep EXCEPT ![t] = new], UNCHANGED <<store, last, mixed>>,
           new.put \subseteq new.rows, new.gone \subseteq new.snap, new.pc # "idle",
           new.pc = "delete" /\ ~new.raced => new.snap = store[new.table],
           new.pc = "insert" /\ ~new.raced => new.gone = store[new.table]
    PROVE  ReplaceInv'
<1>1. ReplaceShape' /\ LastReplaceStands'
  BY DEF ReplaceInv, ReplaceShape, LastReplaceStands
<1>2. ASSUME NEW s \in Replacers PROVE Undisturbed(s)'
  <2>1. rep'[s] = IF s = t THEN new ELSE rep[s]
    BY DEF ReplaceInv, ReplaceShape
  <2>2. Undisturbed(s)
    BY DEF ReplaceInv
  <2>3. CASE s = t
    BY <2>1, <2>3 DEF Undisturbed
  <2>4. CASE s # t
    BY <2>1, <2>2, <2>4 DEF Undisturbed
  <2>5. QED
    BY <2>3, <2>4
<1>3. QED
  BY <1>1, <1>2 DEF ReplaceInv

LEMMA BeginReplaceKeeps ==
    ASSUME ReplaceInv, NEW t \in Replacers, NEW k \in Tables, NEW rs \in SUBSET StoredRow,
           BeginReplace(t, k, rs)
    PROVE  ReplaceInv'
<1> DEFINE new == [rep[t] EXCEPT !.pc = "delete", !.table = k, !.snap = store[k], !.rows = rs]
<1>1. /\ rep[t] \in Transaction /\ rep[t].pc = "idle" /\ store[k] \in SUBSET StoredRow
      /\ rep[t].put = {} /\ rep[t].gone = {}
  BY RepFields DEF ReplaceInv, ReplaceShape, BeginReplace, Undisturbed
<1>2. /\ new \in Transaction /\ new.pc = "delete" /\ new.snap = store[k] /\ new.table = k
      /\ new.put = {} /\ new.gone = {}
  BY <1>1 DEF Transaction
<1>3. rep' = [rep EXCEPT ![t] = new] /\ UNCHANGED <<store, last, mixed>>
  BY DEF BeginReplace
<1> HIDE DEF new
<1>4. QED
  BY <1>2, <1>3, OpenStep

LEMMA CueRowsType ==
    ASSUME NEW t \in Replacers, NEW en, NEW vi
    PROVE  CueRows(t, en, vi) \in SUBSET StoredRow
<1>1. ASSUME NEW i \in 1 .. parseVTT(en)
      PROVE  [by |-> t, key |-> <<i, i <= parseVTT(vi)>>] \in StoredRow
  <2>1. i \in Int
    OBVIOUS
  <2>2. (i <= parseVTT(vi)) \in BOOLEAN
    OBVIOUS
  <2>3. <<i, i <= parseVTT(vi)>> \in Int \X BOOLEAN
    BY <2>1, <2>2
  <2>4. QED
    BY <2>3, Zenon DEF StoredRow
<1>2. QED
  BY <1>1 DEF CueRows

LEMMA CategoryRowsType ==
    ASSUME NEW t \in Replacers, NEW cats \in SUBSET Categories
    PROVE  {[by |-> t, key |-> g] : g \in cats} \in SUBSET StoredRow
BY DEF StoredRow

LEMMA DeleteRowsKeeps ==
    ASSUME ReplaceInv, NEW t \in Replacers, DeleteRows(t)
    PROVE  ReplaceInv'
<1> DEFINE left == rep[t].snap \cap store[rep[t].table]
           new == [rep[t] EXCEPT !.pc = "insert", !.gone = left]
<1>1. /\ rep[t] \in Transaction /\ rep[t].pc = "delete" /\ Undisturbed(t)
      /\ left \in SUBSET StoredRow
  BY RepFields DEF ReplaceInv, DeleteRows
<1>2. /\ new \in Transaction /\ new.pc = "insert" /\ new.snap = rep[t].snap
      /\ new.table = rep[t].table /\ new.put = rep[t].put /\ new.rows = rep[t].rows
      /\ new.gone = left /\ new.raced = rep[t].raced
  BY <1>1 DEF Transaction
<1>3. rep' = [rep EXCEPT ![t] = new] /\ UNCHANGED <<store, last, mixed>>
  BY DEF DeleteRows
<1> HIDE DEF new
<1>4. ~rep[t].raced => left = store[rep[t].table]
  BY <1>1 DEF Undisturbed
<1>5. /\ new.put \subseteq new.rows /\ new.gone \subseteq new.snap /\ new.pc # "idle"
      /\ new.pc # "delete" /\ (~new.raced => new.gone = store[new.table])
  BY <1>1, <1>2, <1>4 DEF Undisturbed
<1>6. QED
  BY <1>2, <1>3, <1>5, OpenStep

LEMMA InsertRowKeeps ==
    ASSUME ReplaceInv, NEW t \in Replacers, NEW r \in rep[t].rows, InsertRow(t, r)
    PROVE  ReplaceInv'
<1> DEFINE new == [rep[t] EXCEPT !.put = rep[t].put \cup {r}]
<1>1. /\ rep[t] \in Transaction /\ rep[t].pc = "insert" /\ Undisturbed(t)
      /\ rep[t].put \cup {r} \in SUBSET StoredRow
  BY RepFields DEF ReplaceInv, InsertRow
<1>2. /\ new \in Transaction /\ new.pc = "insert" /\ new.snap = rep[t].snap
      /\ new.table = rep[t].table /\ new.put = rep[t].put \cup {r} /\ new.rows = rep[t].rows
      /\ new.gone = rep[t].gone /\ new.raced = rep[t].raced
  BY <1>1 DEF Transaction
<1>3. rep' = [rep EXCEPT ![t] = new] /\ UNCHANGED <<store, last, mixed>>
  BY DEF InsertRow
<1> HIDE DEF new
<1>4. QED
  BY <1>1, <1>2, <1>3, OpenStep DEF Undisturbed

LEMMA RollbackKeeps ==
    ASSUME ReplaceInv, NEW t \in Replacers, Rollback(t)
    PROVE  ReplaceInv'
<1> DEFINE new == [rep[t] EXCEPT !.pc = "done"]
<1>1. rep[t] \in Transaction /\ Undisturbed(t)
  BY RepFields DEF ReplaceInv
<1>2. /\ new \in Transaction /\ new.pc = "done" /\ new.snap = rep[t].snap
      /\ new.put = rep[t].put /\ new.rows = rep[t].rows /\ new.gone = rep[t].gone
  BY <1>1 DEF Transaction
<1>3. rep' = [rep EXCEPT ![t] = new] /\ UNCHANGED <<store, last, mixed>>
  BY DEF Rollback
<1> HIDE DEF new
<1>4. QED
  BY <1>1, <1>2, <1>3, OpenStep DEF Undisturbed

(* The commit: its own rows stand, and every other open transaction on the *)
(* table counts as raced.                                                  *)
LEMMA CommitKeeps ==
    ASSUME ReplaceInv, NEW t \in Replacers, Commit(t)
    PROVE  ReplaceInv'
<1>0. PICK k \in Tables : k = rep[t].table
  BY RepFields DEF ReplaceInv
<1>s. /\ ReplaceShape /\ Undisturbed(t) /\ rep[t] \in Transaction /\ rep[t].pc = "insert"
      /\ rep[t].put = rep[t].rows /\ rep[t].raced \in BOOLEAN
      /\ rep[t].put \in SUBSET StoredRow /\ store[k] \in SUBSET StoredRow
      /\ store \in [Tables -> SUBSET StoredRow] /\ last \in [Tables -> SUBSET StoredRow]
      /\ mixed \in [Tables -> BOOLEAN]
  BY <1>0, RepFields DEF ReplaceInv, ReplaceShape, Commit
<1>1. /\ store' = [store EXCEPT ![k] = (store[k] \ rep[t].gone) \cup rep[t].put]
      /\ last' = [last EXCEPT ![k] = rep[t].put]
      /\ mixed' = [mixed EXCEPT ![k] = rep[t].raced]
  BY <1>0, <1>s DEF Commit
<1>2. rep' = [s \in Replacers |->
          IF s = t THEN [rep[t] EXCEPT !.pc = "done"]
          ELSE IF s \in InFlight(k) THEN [rep[s] EXCEPT !.raced = TRUE] ELSE rep[s]]
  BY <1>0 DEF Commit
<1>3. ASSUME NEW s \in Replacers
      PROVE  /\ rep'[s] \in Transaction /\ rep'[s].table = rep[s].table
             /\ rep'[s].snap = rep[s].snap /\ rep'[s].rows = rep[s].rows
             /\ rep'[s].gone = rep[s].gone /\ rep'[s].put = rep[s].put
             /\ rep'[s].pc \in {rep[s].pc, "done"}
             /\ rep[s].table = k /\ rep'[s].pc \in {"delete", "insert"} => rep'[s].raced
             /\ rep[s].raced => rep'[s].raced
  <2>0. rep[s] \in Transaction
    BY <1>s, RepFields
  <2>1. CASE s = t
    <3>1. rep'[s] = [rep[t] EXCEPT !.pc = "done"]
      BY <1>2, <2>1
    <3>2. QED
      BY <2>0, <2>1, <3>1 DEF Transaction
  <2>2. CASE s # t /\ s \in InFlight(k)
    <3>1. rep'[s] = [rep[s] EXCEPT !.raced = TRUE]
      BY <1>2, <2>2
    <3>2. QED
      BY <2>0, <3>1 DEF Transaction
  <2>3. CASE s # t /\ s \notin InFlight(k)
    <3>1. rep'[s] = rep[s]
      BY <1>2, <2>3
    <3>2. ~(rep[s].table = k /\ rep[s].pc \in {"delete", "insert"})
      BY <2>3 DEF InFlight
    <3>3. QED
      BY <2>0, <3>1, <3>2
  <2>4. QED
    BY <2>1, <2>2, <2>3
<1>4. ReplaceShape'
  <2>1. rep' \in [Replacers -> Transaction]
    BY <1>2, <1>3
  <2>2. QED
    BY <1>1, <1>s, <2>1 DEF ReplaceShape
<1>5. LastReplaceStands'
  <2>1. ~rep[t].raced => store[k] \ rep[t].gone = {}
    BY <1>0, <1>s DEF Undisturbed
  <2>2. store'[k] = (store[k] \ rep[t].gone) \cup rep[t].put /\ last'[k] = rep[t].put
    BY <1>1, <1>s
  <2>3. ~mixed'[k] => ~rep[t].raced
    BY <1>1, <1>s
  <2>4. ASSUME NEW j \in Tables, j # k
        PROVE  store'[j] = store[j] /\ last'[j] = last[j] /\ mixed'[j] = mixed[j]
    BY <1>1, <1>s, <2>4
  <2>5. last'[k] \subseteq store'[k] /\ (~mixed'[k] => store'[k] = last'[k])
    BY <2>1, <2>2, <2>3
  <2>6. ASSUME NEW j \in Tables
        PROVE  last'[j] \subseteq store'[j] /\ (~mixed'[j] => store'[j] = last'[j])
    <3>1. CASE j = k
      BY <2>5, <3>1
    <3>2. CASE j # k
      BY <2>4, <3>2 DEF ReplaceInv, LastReplaceStands
    <3>3. QED
      BY <3>1, <3>2
  <2>7. QED
    BY <2>6 DEF LastReplaceStands
<1>6. ASSUME NEW s \in Replacers PROVE Undisturbed(s)'
  <2>1. Undisturbed(s) /\ rep[s].table \in Tables
    BY RepFields DEF ReplaceInv
  <2>2. CASE rep[s].table = k
    BY <1>3, <2>1, <2>2 DEF Undisturbed
  <2>3. CASE rep[s].table # k
    <3>1. store'[rep[s].table] = store[rep[s].table]
      BY <1>1, <1>s, <2>1, <2>3
    <3>2. QED
      BY <1>3, <2>1, <3>1 DEF Undisturbed
  <2>4. QED
    BY <2>2, <2>3
<1>7. QED
  BY <1>4, <1>5, <1>6 DEF ReplaceInv

LEMMA ReplaceStepKeeps ==
    ReplaceInv /\ [SubtitleNext \/ PreferenceNext]_replaceVars => ReplaceInv'
<1> SUFFICES ASSUME ReplaceInv, [SubtitleNext \/ PreferenceNext]_replaceVars PROVE ReplaceInv'
  OBVIOUS
<1>1. CASE UNCHANGED replaceVars
  BY <1>1 DEF replaceVars, ReplaceInv, ReplaceShape, LastReplaceStands, Undisturbed
<1>2. ASSUME NEW t \in Replacers, Transact(t) PROVE ReplaceInv'
  BY <1>2, DeleteRowsKeeps, CommitKeeps, RollbackKeeps, InsertRowKeeps DEF Transact
<1>3. ASSUME NEW t \in Replacers, NEW en, NEW vi, UploadSubtitles(t, en, vi) PROVE ReplaceInv'
  BY <1>3, CueRowsType, BeginReplaceKeeps DEF UploadSubtitles, Tables
<1>4. ASSUME NEW t \in Replacers, NEW cats \in SUBSET Categories, SetCategories(t, cats)
      PROVE  ReplaceInv'
  BY <1>4, CategoryRowsType, BeginReplaceKeeps DEF SetCategories, Tables
<1>5. QED
  BY <1>1, <1>2, <1>3, <1>4 DEF SubtitleNext, PreferenceNext

LEMMA InitReplaceInv == ContentInit => ReplaceInv
<1> SUFFICES ASSUME ContentInit PROVE ReplaceInv
  OBVIOUS
<1>1. store \in [Tables -> SUBSET StoredRow]
  <2>1. [by |-> NoVideoId, key |-> <<1, TRUE>>] \in StoredRow
    <3>1. <<1, TRUE>> \in Int \X BOOLEAN
      <4>1. 1 \in Int
        OBVIOUS
      <4>2. PICK yes \in BOOLEAN : yes = TRUE
        OBVIOUS
      <4>3. <<1, yes>> \in Int \X BOOLEAN
        BY <4>1
      <4>4. QED
        BY <4>2, <4>3, Zenon
    <3>2. QED
      BY <3>1, Zenon DEF StoredRow
  <2>2. {[by |-> NoVideoId, key |-> g] : g \in Categories} \in SUBSET StoredRow
    BY DEF StoredRow
  <2>3. PICK A \in SUBSET StoredRow, B \in SUBSET StoredRow : store = [cues |-> A, prefs |-> B]
    BY <2>1, <2>2 DEF ContentInit
  <2>4. QED
    BY <2>3 DEF Tables
<1>2. mixed \in [Tables -> BOOLEAN] /\ last = store
  BY DEF ContentInit
<1>3. /\ [pc |-> "idle", table |-> "cues", snap |-> {}, rows |-> {}, gone |-> {}, put |-> {},
          raced |-> FALSE] \in Transaction
  BY DEF Transaction, Tables
<1>4. rep \in [Replacers -> Transaction]
  BY <1>3 DEF ContentInit
<1>5. ReplaceShape /\ LastReplaceStands
  BY <1>1, <1>2, <1>4 DEF ReplaceShape, LastReplaceStands
<1>6. \A t \in Replacers : Undisturbed(t)
  BY DEF ContentInit, Undisturbed
<1>7. QED
  BY <1>5, <1>6 DEF ReplaceInv

-----------------------------------------------------------------------------
(* The lookup.                                                             *)

Text == {"text", "empty", "notice", "word"}
Lookup == [pc : {"idle", "wait", "dictionary", "done"}, wg : Nat, running : SUBSET Langs,
           trans : [Langs -> Text]]

(* The WaitGroup counts exactly the goroutines that still run, so that     *)
(* none can write once Wait has returned.                                  *)
LookupInv ==
    /\ lookup \in Lookup
    /\ lookup.wg = Cardinality(lookup.running)
    /\ lookup.pc \in {"dictionary", "done"} =>
         /\ lookup.running = {}
         /\ \A l \in Langs : lookup.trans[l] \in {"text", "word"}

LEMMA LookupFields ==
    ASSUME LookupInv
    PROVE  /\ lookup.pc \in {"idle", "wait", "dictionary", "done"} /\ lookup.wg \in Nat
           /\ lookup.running \in SUBSET Langs /\ lookup.trans \in [Langs -> Text]
           /\ IsFiniteSet(lookup.running) /\ lookup.wg <= Cardinality(Langs)
           /\ Cardinality(Langs) \in Nat
<1>1. /\ lookup.pc \in {"idle", "wait", "dictionary", "done"} /\ lookup.wg \in Nat
      /\ lookup.running \in SUBSET Langs /\ lookup.trans \in [Langs -> Text]
  BY DEF LookupInv, Lookup
<1>2. QED
  BY <1>1, ContentAssumption, FS_Subset, FS_CardinalityType DEF LookupInv

LEMMA LookupWordKeeps ==
    ASSUME LookupInv, LookupWord
    PROVE  LookupInv'
<1> DEFINE none == [l \in Langs |-> "empty"]
<1>1. none \in [Langs -> Text] /\ Cardinality(Langs) \in Nat
  BY ContentAssumption, FS_CardinalityType DEF Text
<1>2. lookup' = [pc |-> "wait", wg |-> Cardinality(Langs), running |-> Langs, trans |-> none]
  BY DEF LookupWord, WaitFor
<1> HIDE DEF none
<1>3. QED
  BY <1>1, <1>2 DEF LookupInv, Lookup

LEMMA TranslateKeeps ==
    ASSUME LookupInv, NEW l \in Langs, Translate(l)
    PROVE  LookupInv'
<1>1. PICK out \in Text :
        lookup' = [lookup EXCEPT !.wg = lookup.wg - 1, !.running = lookup.running \ {l},
                                 !.trans = [lookup.trans EXCEPT ![l] = out]]
  BY DEF Translate, Text
<1> DEFINE tr == [lookup.trans EXCEPT ![l] = out]
<1>2. /\ l \in lookup.running /\ tr \in [Langs -> Text]
      /\ lookup.running \ {l} \in SUBSET Langs
  BY LookupFields DEF Translate
<1>3. Cardinality(lookup.running \ {l}) = lookup.wg - 1 /\ lookup.wg - 1 \in Nat
  <2>1. IsFiniteSet(lookup.running \ {l}) /\ Cardinality(lookup.running \ {l}) = lookup.wg - 1
    BY <1>2, LookupFields, FS_RemoveElement DEF LookupInv
  <2>2. Cardinality(lookup.running \ {l}) \in Nat
    BY <2>1, FS_CardinalityType
  <2>3. QED
    BY <2>1, <2>2
<1>4. lookup.pc \in {"idle", "wait"} /\ lookup \in Lookup
  BY <1>2, LookupFields DEF LookupInv
<1> HIDE DEF tr
<1>5. lookup' = [lookup EXCEPT !.wg = lookup.wg - 1, !.running = lookup.running \ {l}, !.trans = tr]
  BY <1>1 DEF tr
<1>6. /\ lookup' \in Lookup /\ lookup'.pc = lookup.pc /\ lookup'.wg = lookup.wg - 1
      /\ lookup'.running = lookup.running \ {l}
  BY <1>2, <1>3, <1>4, <1>5 DEF Lookup
<1>7. QED
  BY <1>3, <1>4, <1>6 DEF LookupInv

LEMMA CleanTransKeeps ==
    ASSUME LookupInv, CleanTrans
    PROVE  LookupInv'
<1> DEFINE tr == [l \in Langs |-> IF lookup.trans[l] = "text" THEN "text" ELSE "word"]
<1>1. tr \in [Langs -> Text] /\ \A l \in Langs : tr[l] \in {"text", "word"}
  BY DEF Text
<1>2. lookup.running = {} /\ lookup \in Lookup
  BY LookupFields, FS_EmptySet DEF LookupInv, CleanTrans
<1>3. lookup' = [lookup EXCEPT !.pc = "dictionary", !.trans = tr]
  BY DEF CleanTrans
<1> HIDE DEF tr
<1>4. /\ lookup' \in Lookup /\ lookup'.wg = lookup.wg /\ lookup'.running = lookup.running
      /\ lookup'.trans = tr
  BY <1>1, <1>2, <1>3 DEF Lookup
<1>5. QED
  BY <1>1, <1>2, <1>4 DEF LookupInv

LEMMA DictionaryKeeps ==
    ASSUME LookupInv, Dictionary
    PROVE  LookupInv'
<1>1. lookup \in Lookup /\ lookup.pc = "dictionary" /\ lookup' = [lookup EXCEPT !.pc = "done"]
  BY DEF LookupInv, Dictionary
<1>2. /\ lookup' \in Lookup /\ lookup'.wg = lookup.wg /\ lookup'.running = lookup.running
      /\ lookup'.trans = lookup.trans
  BY <1>1 DEF Lookup
<1>3. QED
  BY <1>1, <1>2 DEF LookupInv

LEMMA LookupStepKeeps == LookupInv /\ [LookupNext]_lookup => LookupInv'
BY LookupWordKeeps, TranslateKeeps, CleanTransKeeps, DictionaryKeeps DEF LookupNext, LookupInv

LEMMA InitLookupInv == ContentInit => LookupInv
<1> SUFFICES ASSUME ContentInit PROVE LookupInv
  OBVIOUS
<1> DEFINE none == [l \in Langs |-> "empty"]
<1>1. none \in [Langs -> Text]
  BY DEF Text
<1>2. lookup = [pc |-> "idle", wg |-> 0, running |-> {}, trans |-> none]
  BY DEF ContentInit
<1> HIDE DEF none
<1>3. lookup \in Lookup /\ lookup.pc = "idle" /\ lookup.wg = 0 /\ lookup.running = {}
  BY <1>1, <1>2 DEF Lookup
<1>4. QED
  BY <1>3, FS_EmptySet DEF LookupInv

-----------------------------------------------------------------------------

ContentInv == CommentInv /\ ReplaceInv /\ LookupInv

LEMMA NextContentInv == ContentInv /\ [ContentNext]_contentVars => ContentInv'
<1> SUFFICES ASSUME ContentInv, [ContentNext]_contentVars PROVE ContentInv'
  OBVIOUS
<1>1. /\ [CommentNext]_commentVars /\ [SubtitleNext \/ PreferenceNext]_replaceVars
      /\ [LookupNext]_lookup
  BY DEF ContentNext, contentVars
<1>2. QED
  BY <1>1, CommentStepKeeps, ReplaceStepKeeps, LookupStepKeeps DEF ContentInv

(* Comments, transactions and lookups keep their types; the WaitGroup      *)
(* never goes below zero, where LookupWord would panic.                    *)
THEOREM ContentTypeCorrect == ContentSpec => []ContentTypeOK
<1>1. ContentInv => ContentTypeOK
  <2> SUFFICES ASSUME ContentInv PROVE ContentTypeOK
    OBVIOUS
  <2>1. /\ comments \in Seq(Comment) /\ Len(comments) <= MaxComments
        /\ commenter \in [Commenters -> Pending]
        /\ listing.pc \in {"idle", "rows", "all", "done"}
        /\ listing.total <= MaxComments /\ listing.totalAll <= MaxComments
    BY DEF ContentInv, CommentInv, CommentShape, Counted, Listing
  <2>2. \A t \in Replacers :
          /\ rep[t].pc \in {"idle", "delete", "insert", "done"} /\ rep[t].table \in Tables
          /\ rep[t].put \subseteq rep[t].rows /\ rep[t].gone \subseteq rep[t].snap
    BY RepFields DEF ContentInv, ReplaceInv, Undisturbed
  <2>3. mixed \in [Tables -> BOOLEAN]
    BY DEF ContentInv, ReplaceInv, ReplaceShape
  <2>4. /\ lookup.pc \in {"idle", "wait", "dictionary", "done"}
        /\ lookup.wg \in 0 .. Cardinality(Langs)
        /\ lookup.running \subseteq Langs /\ lookup.trans \in [Langs -> Text]
    BY LookupFields DEF ContentInv
  <2>5. QED
    BY <2>1, <2>2, <2>3, <2>4 DEF ContentTypeOK, Comment, Pending, Text
<1>2. QED
  BY <1>1, InitCommentInv, InitReplaceInv, InitLookupInv, NextContentInv, PTL
     DEF ContentSpec, ContentInv

(* "Comments (N)" over a page is never smaller than the page and the       *)
(* replies it announces, whatever is posted between the three statements   *)
(* of ListVideoComments.                                                   *)
THEOREM HeaderSafe == ContentSpec => []HeaderCoversPage
<1>1. ContentInv => HeaderCoversPage
  BY DEF ContentInv, CommentInv
<1>2. QED
  BY <1>1, InitCommentInv, InitReplaceInv, InitLookupInv, NextContentInv, PTL
     DEF ContentSpec, ContentInv

(* The last committed ReplaceCues or SetCategories has all its rows in the *)
(* table, and nothing else is there unless it overlapped another one.      *)
THEOREM ReplaceSafe == ContentSpec => []LastReplaceStands
<1>1. ContentInv => LastReplaceStands
  BY DEF ContentInv, ReplaceInv
<1>2. QED
  BY <1>1, InitCommentInv, InitReplaceInv, InitLookupInv, NextContentInv, PTL
     DEF ContentSpec, ContentInv

(* LookupWord answers with a text for every language, after the last of    *)
(* its goroutines has written: for every number of languages.              *)
THEOREM LookupSafe == ContentSpec => []LookupComplete
<1>1. ContentInv => LookupComplete
  BY DEF ContentInv, LookupInv, LookupComplete
<1>2. QED
  BY <1>1, InitCommentInv, InitReplaceInv, InitLookupInv, NextContentInv, PTL
     DEF ContentSpec, ContentInv
=============================================================================
