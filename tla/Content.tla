------------------------------- MODULE Content ------------------------------
(***************************************************************************)
(* What users add to a video: comments and replies, subtitle tracks, and   *)
(* next to them the preferred categories (replaced the same way as a       *)
(* track) and the dictionary lookup with its eight parallel translations.  *)
(***************************************************************************)
EXTENDS Naturals, Sequences, FiniteSets

CONSTANTS CVideos,      \* videos
          Commenters,   \* concurrent CreateComment requests
          MaxComments,  \* bound: comments in the table
          PageSize,     \* limit of a page of comments
          Replacers,    \* ReplaceCues and SetCategories transactions, one each; an
                        \* earlier one has been committed
          MaxBlocks,    \* bound: blocks of a WebVTT document
          Categories,   \* video categories
          Langs, VI,    \* languages of a lookup; VI: the Vietnamese one
          NoVideoId     \* "no video"

ASSUME ContentAssumption ==
    /\ MaxComments \in Nat /\ PageSize \in Nat \ {0} /\ MaxBlocks \in Nat
    /\ VI \in Langs /\ IsFiniteSet(Langs)
    /\ NoVideoId \notin CVideos

VARIABLES
    comments,   \* the table, in order of creation: video and parent (0: top level)
    commenter,  \* commenter[q]: a CreateComment between its check and its insert
    listing,    \* one ListVideoComments: what its three queries have returned
    store,      \* store[k]: committed rows of video_subtitles (one video) and of
                \* user_category_preferences (one user)
    rep,        \* rep[t]: a replacing transaction
    last,       \* last[k]: rows of the last committed replacement (history)
    mixed,      \* mixed[k]: it overlapped another committed one (history)
    lookup      \* one LookupWord: step, WaitGroup counter, goroutines, fields of trans

commentVars == <<comments, commenter, listing>>
replaceVars == <<store, rep, last, mixed>>
contentVars == <<commentVars, replaceVars, lookup>>

Tables == {"cues", "prefs"}

-----------------------------------------------------------------------------
(* Comments                                                                *)

OfVideo(v) == {i \in DOMAIN comments : comments[i].video = v}

(* ListByVideoID: the top-level comments; replies are listed under their parent. *)
TopLevel(v) == {i \in OfVideo(v) : comments[i].parent = 0}
RepliesTo(ps) == {i \in DOMAIN comments : comments[i].parent \in ps}
CountAllByVideoID(v) == Cardinality(OfVideo(v))

(* The rows of a page, newest first: rows with fewer than limit + offset newer ones. *)
PageRows(v, page) ==
    LET newer(i) == Cardinality({j \in TopLevel(v) : j > i})
    IN  {i \in TopLevel(v) : newer(i) >= (page - 1) * PageSize /\ newer(i) < page * PageSize}

(* Mutant of ValidParent: any existing comment is accepted. *)
ValidParentAny(v, p) == p = 0 \/ p \in DOMAIN comments

(* A reply needs a parent that exists, on the same video. *)
ValidParent(v, p) == p = 0 \/ (p \in DOMAIN comments /\ comments[p].video = v)

CreateComment(q, v, p) ==
    /\ commenter[q].video = NoVideoId
    /\ ValidParent(v, p)
    /\ commenter' = [commenter EXCEPT ![q] = [video |-> v, parent |-> p]]
    /\ UNCHANGED <<comments, listing>>

StoreComment(q) ==
    /\ commenter[q].video # NoVideoId
    /\ Len(comments) < MaxComments
    /\ comments' = Append(comments, commenter[q])
    /\ commenter' = [commenter EXCEPT ![q] = [video |-> NoVideoId, parent |-> 0]]
    /\ UNCHANGED listing

(* ListVideoComments runs three statements: the count of top-level comments, ... *)
ListVideoComments(v, page) ==
    /\ listing.pc \in {"idle", "done"}
    /\ listing' = [pc |-> "rows", video |-> v, page |-> page,
                   total |-> Cardinality(TopLevel(v)), shown |-> 0, totalAll |-> 0]
    /\ UNCHANGED <<comments, commenter>>

(* ... the page with the number of replies of each row (a reply has one parent), ... *)
ListRows ==
    /\ listing.pc = "rows"
    /\ LET rows == PageRows(listing.video, listing.page)
       IN  listing' = [listing EXCEPT !.pc = "all",
                                          !.shown = Cardinality(rows) + Cardinality(RepliesTo(rows))]
    /\ UNCHANGED <<comments, commenter>>

(* ... and last the count of all comments, for the header. *)
ListTotalAll ==
    /\ listing.pc = "all"
    /\ listing' = [listing EXCEPT !.pc = "done", !.totalAll = CountAllByVideoID(listing.video)]
    /\ UNCHANGED <<comments, commenter>>

-----------------------------------------------------------------------------
(* Subtitle documents                                                      *)

(* A block of a WebVTT document: the WEBVTT header, one without "-->", one whose timing line *)
(* parses (HH:MM:SS.mmm or MM:SS.mmm on both sides), one whose does not.                     *)
Blocks == {"header", "note", "cue", "badTiming"}

Documents == UNION {[1 .. n -> Blocks] : n \in 0 .. MaxBlocks}

ParseFails(doc) == \E i \in DOMAIN doc : doc[i] = "badTiming"

(* The number of cues; header and notes are skipped. *)
parseVTT(doc) == Cardinality({i \in DOMAIN doc : doc[i] = "cue"})

(* English is required; cue i takes the i-th Vietnamese text if there is one. *)
CueRows(t, en, vi) == {[by |-> t, key |-> <<i, i <= parseVTT(vi)>>] : i \in 1 .. parseVTT(en)}

-----------------------------------------------------------------------------
(* Replacing all rows of a key: DELETE, INSERTs, COMMIT at READ COMMITTED. *)

InFlight(k) == {t \in Replacers : rep[t].table = k /\ rep[t].pc \in {"delete", "insert"}}

(* The DELETE takes its snapshot: rows committed later are not seen by it. *)
BeginReplace(t, k, rows) ==
    /\ rep[t].pc = "idle"
    /\ rep' = [rep EXCEPT ![t] = [@ EXCEPT !.pc = "delete", !.table = k, !.snap = store[k], !.rows = rows]]
    /\ UNCHANGED <<store, last, mixed>>

UploadSubtitles(t, en, vi) ==
    /\ BeginReplace(t, "cues", CueRows(t, en, vi))
    /\ ~ParseFails(en) /\ ~ParseFails(vi)
    /\ parseVTT(en) > 0

SetCategories(t, cats) == BeginReplace(t, "prefs", {[by |-> t, key |-> g] : g \in cats})

(* It waits for a transaction that is deleting one of its rows, and deletes what is left. *)
DeleteRows(t) ==
    /\ rep[t].pc = "delete"
    /\ \A s \in InFlight(rep[t].table) \ {t} : rep[s].gone \cap rep[t].snap = {}
    /\ rep' = [rep EXCEPT ![t] = [@ EXCEPT !.pc = "insert", !.gone = rep[t].snap \cap store[rep[t].table]]]
    /\ UNCHANGED <<store, last, mixed>>

(* A cue has a fresh id; the primary key (user, category) of a preference may be taken. *)
SameKey(k, r, rows) == k = "prefs" /\ \E q \in rows : q.key = r.key

(* The insert fails on a key that is taken and waits for one an open transaction touches. *)
InsertRow(t, r) ==
    /\ rep[t].pc = "insert"
    /\ r \in rep[t].rows \ rep[t].put
    /\ LET k == rep[t].table
       IN  /\ ~SameKey(k, r, store[k] \ rep[t].gone)
           /\ \A s \in InFlight(k) \ {t} : ~SameKey(k, r, rep[s].put \cup rep[s].gone)
    /\ rep' = [rep EXCEPT ![t].put = @ \cup {r}]
    /\ UNCHANGED <<store, last, mixed>>

(* Mutant of Commit: the old rows stay. *)
CommitInsertsOnly(t) ==
    /\ rep[t].pc = "insert"
    /\ rep[t].put = rep[t].rows
    /\ store' = [store EXCEPT ![rep[t].table] = @ \cup rep[t].put]
    /\ last' = [last EXCEPT ![rep[t].table] = rep[t].rows]
    /\ rep' = [rep EXCEPT ![t].pc = "done"]
    /\ UNCHANGED mixed

Commit(t) ==
    LET k == rep[t].table
    IN  /\ rep[t].pc = "insert"
        /\ rep[t].put = rep[t].rows
        /\ store' = [store EXCEPT ![k] = (@ \ rep[t].gone) \cup rep[t].put]
        /\ last' = [last EXCEPT ![k] = rep[t].rows]
        /\ mixed' = [mixed EXCEPT ![k] = rep[t].raced]
        /\ rep' = [s \in Replacers |->
             IF s = t THEN [rep[t] EXCEPT !.pc = "done"]
             ELSE IF s \in InFlight(k) THEN [rep[s] EXCEPT !.raced = TRUE] ELSE rep[s]]

(* A failed statement, a taken key, a detected deadlock: nothing of it remains. *)
Rollback(t) ==
    /\ rep[t].pc \in {"delete", "insert"}
    /\ rep' = [rep EXCEPT ![t].pc = "done"]
    /\ UNCHANGED <<store, last, mixed>>

-----------------------------------------------------------------------------
(* LookupWord                                                              *)

(* Mutant of WaitFor: one translation was added after the WaitGroup was sized. *)
WaitForAllButOne == Cardinality(Langs) - 1

(* wg.Add *)
WaitFor == Cardinality(Langs)

LookupWord ==
    /\ lookup.pc = "idle"
    /\ lookup' = [pc |-> "wait", wg |-> WaitFor, running |-> Langs, trans |-> [l \in Langs |-> "empty"]]

(* translateText: a text, nothing, or the service's own notice; VI has a text of its own when *)
(* it gets nothing.                                                                           *)
Translate(l) ==
    /\ l \in lookup.running
    /\ \E out \in {"text", "empty", "notice"} :
         lookup' = [lookup EXCEPT !.wg = @ - 1, !.running = @ \ {l},
                                  !.trans[l] = IF l = VI /\ out = "empty" THEN "text" ELSE out]

(* After wg.Wait, cleanTrans puts the word itself where there is no translation. *)
CleanTrans ==
    /\ lookup.pc = "wait"
    /\ lookup.wg = 0
    /\ lookup' = [lookup EXCEPT !.pc = "dictionary",
                    !.trans = [l \in Langs |-> IF @[l] = "text" THEN "text" ELSE "word"]]

(* The dictionary answers or its defaults stand; the response is complete. *)
Dictionary ==
    /\ lookup.pc = "dictionary"
    /\ lookup' = [lookup EXCEPT !.pc = "done"]

-----------------------------------------------------------------------------

ContentTypeOK ==
    /\ comments \in Seq([video : CVideos, parent : 0 .. MaxComments]) /\ Len(comments) <= MaxComments
    /\ commenter \in [Commenters -> [video : CVideos \cup {NoVideoId}, parent : 0 .. MaxComments]]
    /\ listing.pc \in {"idle", "rows", "all", "done"}
    /\ listing.total <= MaxComments /\ listing.totalAll <= MaxComments
    /\ \A t \in Replacers :
         /\ rep[t].pc \in {"idle", "delete", "insert", "done"} /\ rep[t].table \in Tables
         /\ rep[t].put \subseteq rep[t].rows /\ rep[t].gone \subseteq rep[t].snap
    /\ mixed \in [Tables -> BOOLEAN]
    /\ lookup.pc \in {"idle", "wait", "dictionary", "done"}
    /\ lookup.wg \in 0 .. Cardinality(Langs)
    /\ lookup.running \subseteq Langs
    /\ lookup.trans \in [Langs -> {"text", "empty", "notice", "word"}]

ContentInit ==
    /\ comments = << >>
    /\ commenter = [q \in Commenters |-> [video |-> NoVideoId, parent |-> 0]]
    /\ listing = [pc |-> "idle", video |-> NoVideoId, page |-> 1, total |-> 0, shown |-> 0, totalAll |-> 0]
    /\ store = [cues |-> {[by |-> NoVideoId, key |-> <<1, TRUE>>]},
                prefs |-> {[by |-> NoVideoId, key |-> g] : g \in Categories}]
    /\ last = store
    /\ mixed = [k \in Tables |-> FALSE]
    /\ rep = [t \in Replacers |-> [pc |-> "idle", table |-> "cues", snap |-> {}, rows |-> {},
                                   gone |-> {}, put |-> {}, raced |-> FALSE]]
    /\ lookup = [pc |-> "idle", wg |-> 0, running |-> {}, trans |-> [l \in Langs |-> "empty"]]

CommentNext ==
    \/ \E q \in Commenters : StoreComment(q) \/ \E v \in CVideos, p \in 0 .. MaxComments : CreateComment(q, v, p)
    \/ \E v \in CVideos, page \in 1 .. 2 : ListVideoComments(v, page)
    \/ ListRows \/ ListTotalAll

Transact(t) ==
    \/ DeleteRows(t) \/ Commit(t) \/ Rollback(t)
    \/ \E r \in rep[t].rows : InsertRow(t, r)

SubtitleNext == \E t \in Replacers : Transact(t) \/ \E en, vi \in Documents : UploadSubtitles(t, en, vi)

PreferenceNext == \E t \in Replacers : Transact(t) \/ \E cats \in SUBSET Categories : SetCategories(t, cats)

LookupNext == LookupWord \/ (\E l \in Langs : Translate(l)) \/ CleanTrans \/ Dictionary

-----------------------------------------------------------------------------

(* The header "Comments (N)" is never smaller than what the page under it accounts for, the   *)
(* rows and the replies they announce, however many comments arrive while the three           *)
(* statements run: the total is read last, comments are never deleted, and a reply is on its  *)
(* parent's video (comment.go CreateComment, ListVideoComments).                              *)
HeaderCoversPage ==
    listing.pc = "done" => listing.totalAll >= listing.total /\ listing.totalAll >= listing.shown

(* A replaced track or category list is never torn: all rows of the last committed            *)
(* replacement are there, and no other row unless it overlapped another replacement           *)
(* (subtitle.go ReplaceCues, userpreference.go SetCategories).                                *)
LastReplaceStands ==
    \A k \in Tables : last[k] \subseteq store[k] /\ (~mixed[k] => store[k] = last[k])

(* The answer of a lookup has a text for every language and no translation is still writing   *)
(* to it (vocabulary.go LookupWord).                                                          *)
LookupComplete == lookup.pc = "done" => \A l \in Langs : lookup.trans[l] \in {"text", "word"}

(* "re-uploading a subtitle track fully replaces the previous one rather than appending to    *)
(* it": the cues are always those of one upload.  Two overlapping uploads leave both.         *)
ReuploadReplaces == store["cues"] = last["cues"]
=============================================================================
