------------------------------- MODULE Lists --------------------------------
(***************************************************************************)
(* A user's own lists and how a client pages through them: watch history,  *)
(* saved videos, followed channels, wall posts, notifications, saved       *)
(* words, the administrator's list of users, and the replies to a comment. *)
(*                                                                         *)
(* A page is two statements, a COUNT and a LIMIT/OFFSET, and rows come and  *)
(* go between them and between pages.  The client asks for the next page   *)
(* as long as the total says there is one.                                 *)
(***************************************************************************)
EXTENDS Naturals, Sequences, FiniteSets, SequencesExt

CONSTANTS Items,      \* videos, channels, posts, ...: what a list can hold
          PageLimit,  \* page size
          MaxWrites   \* bound: changes of the lists

ASSUME ListAssumption == PageLimit \in Nat \ {0} /\ MaxWrites \in Nat /\ IsFiniteSet(Items)

Lists == {"history", "saved", "channels", "posts", "notifs", "words", "users", "replies"}

VARIABLES
    kind,    \* which of the lists; they are independent of each other
    rows,    \* the table behind it, in the order its query sorts by
    erased,  \* videos that have been deleted; watch_history and saved_videos keep their ids
    unread,  \* notifications that are not marked read
    walk,    \* a client paging through one list
    writes   \* changes so far

listVars == <<kind, rows, erased, unread, walk, writes>>

Has(k, i) == kind = k /\ i \in ToSet(rows)

-----------------------------------------------------------------------------
(* What the query of each repository finds before LIMIT and OFFSET.        *)

(* JOIN videos: a deleted video drops out, its row is counted all the same. *)
Joined(s) == ToSet(s) \ erased

HistoryRows == Joined(rows)
SavedRows == Joined(rows)

(* JOIN users drops a channel that is no user, which COUNT keeps; users are never deleted and the *)
(* followed channels are taken to be users.                                                       *)
ChannelRows == ToSet(rows)

PostRows == ToSet(rows)
NotificationRows == ToSet(rows)
WordRows == ToSet(rows)
UserRows == ToSet(rows)
ReplyRows == ToSet(rows)

Found == [history |-> HistoryRows, saved |-> SavedRows, channels |-> ChannelRows, posts |-> PostRows,
          notifs |-> NotificationRows, words |-> WordRows, users |-> UserRows, replies |-> ReplyRows][kind]

(* What is found and sorted before i. *)
Ahead(i) == {j \in Found : \E m, n \in DOMAIN rows : m < n /\ rows[m] = j /\ rows[n] = i}

(* LIMIT and OFFSET. *)
Between(from, to) == {i \in Found : from <= Cardinality(Ahead(i)) /\ Cardinality(Ahead(i)) < to}

(* Mutant of Page: pages numbered from zero. *)
PageFromZero(no) == IF kind = "words" THEN Found ELSE Between(no * PageLimit, (no + 1) * PageLimit)

(* The rows of one page; the words come without pages. *)
Page(no) == IF kind = "words" THEN Found ELSE Between((no - 1) * PageLimit, no * PageLimit)

-----------------------------------------------------------------------------
(* The lists change.                                                       *)

Walking == walk.pc \in {"count", "rows", "unread"}

Write(k, s, u) ==
    /\ kind = k
    /\ writes < MaxWrites
    /\ writes' = writes + 1
    /\ rows' = s
    /\ unread' = u
    /\ UNCHANGED <<kind, erased>>

(* A new row comes first.  It matters to a page only between its two statements. *)
AddRow(k, i, u) ==
    /\ ~Has(k, i)
    /\ Write(k, <<i>> \o rows, u)
    /\ walk' = [walk EXCEPT !.shaken = @ \/ walk.pc = "rows"]

(* An item has one row. *)
Without(i) == RemoveAt(rows, CHOOSE n \in DOMAIN rows : rows[n] = i)

DropRow(k, i) ==
    /\ Has(k, i)
    /\ Write(k, Without(i), unread)
    /\ walk' = [walk EXCEPT !.shaken = @ \/ Walking]

(* Upsert: one row per video; watching it again moves it to the front.  Nothing checks that   *)
(* the video still exists, here or in ToggleSaveVideo.                                        *)
RecordWatch(i) ==
    \/ AddRow("history", i, unread)
    \/ /\ Has("history", i)
       /\ Write("history", <<i>> \o Without(i), unread)
       /\ walk' = [walk EXCEPT !.shaken = @ \/ Walking]

ToggleSaveVideo(i) == AddRow("saved", i, unread) \/ DropRow("saved", i)

ToggleFollowChannel(i) == AddRow("channels", i, unread) \/ DropRow("channels", i)

CreatePost(i) == AddRow("posts", i, unread)
(* Only the owner: anyone else's attempt leaves the rows alone. *)
DeletePost(i) == DropRow("posts", i)

StoreNotification(i) == AddRow("notifs", i, unread \cup {i})

MarkAsRead(i) ==
    /\ i \in unread
    /\ Write("notifs", rows, unread \ {i})
    /\ UNCHANGED walk

MarkAllAsRead ==
    /\ unread # {}
    /\ Write("notifs", rows, {})
    /\ UNCHANGED walk

SaveWord(i) == AddRow("words", i, unread)
(* Only the owner, as with posts. *)
DeleteWord(i) == DropRow("words", i)

(* Accounts are never deleted. *)
RegisterUser(i) == AddRow("users", i, unread)

(* Replies are sorted oldest first and never deleted. *)
CreateReply(i) ==
    /\ ~Has("replies", i)
    /\ Write("replies", Append(rows, i), unread)
    /\ UNCHANGED walk

(* The other lists hold no videos. *)
DeleteVideoRow(i) ==
    /\ kind \in {"history", "saved"}
    /\ i \notin erased
    /\ erased' = erased \cup {i}
    /\ walk' = [walk EXCEPT !.shaken = @ \/ Walking]
    /\ UNCHANGED <<kind, rows, unread, writes>>

-----------------------------------------------------------------------------
(* A request for a page.                                                   *)

NoWalk == [pc |-> "idle", no |-> 1, total |-> 0, seen |-> {}, start |-> {},
           shaken |-> FALSE]

Begin(k) ==
    /\ kind = k
    /\ walk.pc = "idle"
    /\ walk' = [NoWalk EXCEPT !.pc = IF k = "words" THEN "rows" ELSE "count", !.start = Found]
    /\ UNCHANGED <<kind, rows, erased, unread, writes>>

ListHistory == Begin("history")
ListSavedVideos == Begin("saved")
ListFollowedChannels == Begin("channels")
ListPostsByUser == Begin("posts")
ListNotifications == Begin("notifs")
ListWords == Begin("words")
ListUsers == Begin("users")
ListReplies == Begin("replies")

(* COUNT over the table; no notification at all answers at once. *)
CountRows ==
    /\ walk.pc = "count"
    /\ walk' = [walk EXCEPT !.total = Len(rows),
                            !.pc = IF kind = "notifs" /\ rows = << >> THEN "unread" ELSE "rows"]
    /\ UNCHANGED <<kind, rows, erased, unread, writes>>

(* TotalPages of the answer: total divided by the limit, rounded up. *)
LastPage(no, total) == no >= (total + PageLimit - 1) \div PageLimit

NextPage(w) ==
    IF kind = "words" \/ LastPage(w.no, w.total) THEN [w EXCEPT !.pc = "done"]
    ELSE [w EXCEPT !.pc = "count", !.no = @ + 1]

ListPageRows ==
    /\ walk.pc = "rows"
    /\ LET w == [walk EXCEPT !.seen = @ \cup Page(walk.no)]
       IN  walk' = IF kind = "notifs" THEN [w EXCEPT !.pc = "unread"] ELSE NextPage(w)
    /\ UNCHANGED <<kind, rows, erased, unread, writes>>

(* The badge of the notification list is counted last. *)
CountUnread ==
    /\ walk.pc = "unread"
    /\ walk' = NextPage(walk)
    /\ UNCHANGED <<kind, rows, erased, unread, writes>>

(* A statement fails: the request is answered with an error and the client gives up. *)
ListFails ==
    /\ walk.pc \in {"count", "rows"}
    /\ walk' = NoWalk
    /\ UNCHANGED <<kind, rows, erased, unread, writes>>

Leave ==
    /\ walk.pc = "done"
    /\ walk' = NoWalk
    /\ UNCHANGED <<kind, rows, erased, unread, writes>>

-----------------------------------------------------------------------------

ListTypeOK ==
    /\ kind \in Lists
    /\ ToSet(rows) \subseteq Items /\ IsInjective(rows)
    /\ erased \subseteq Items
    /\ unread \subseteq ToSet(rows)
    /\ walk.pc \in {"idle", "count", "rows", "unread", "done"}
    /\ walk.seen \subseteq Items /\ walk.start \subseteq Items
    /\ walk.no \in 1 .. Cardinality(Items) + 1
    /\ writes \in 0 .. MaxWrites

ListInit ==
    /\ kind \in Lists
    /\ rows = << >>
    /\ erased = {} /\ unread = {}
    /\ walk = NoWalk
    /\ writes = 0

Change(i) ==
    \/ RecordWatch(i) \/ ToggleSaveVideo(i) \/ ToggleFollowChannel(i)
    \/ CreatePost(i) \/ DeletePost(i)
    \/ StoreNotification(i) \/ MarkAsRead(i)
    \/ SaveWord(i) \/ DeleteWord(i)
    \/ RegisterUser(i) \/ CreateReply(i) \/ DeleteVideoRow(i)

ListNext ==
    \/ \E i \in Items : Change(i)
    \/ MarkAllAsRead
    \/ ListHistory \/ ListSavedVideos \/ ListFollowedChannels \/ ListPostsByUser
    \/ ListNotifications \/ ListWords \/ ListUsers \/ ListReplies
    \/ CountRows \/ ListPageRows \/ CountUnread \/ ListFails \/ Leave

-----------------------------------------------------------------------------

(* A client that pages to the end has been shown every row that was there when it began,      *)
(* although rows are added meanwhile: they only push others to later pages.  The exceptions   *)
(* are what shakes a walk: a row removed or moved to the front, and a row added between the   *)
(* COUNT and the rows of one page, which can push the last row off the last page.             *)
NothingSkipped == walk.pc = "done" /\ ~walk.shaken => walk.start \subseteq walk.seen
=============================================================================
