----------------------------- MODULE MCCommunity ----------------------------
(***************************************************************************)
(* Accounts, Content, Delivery, Feed and Lists for TLC.  They share no     *)
(* state, so a behaviour is one part of them: `part' says which, and the   *)
(* others stand still.                                                     *)
(***************************************************************************)
EXTENDS Accounts, Content, Delivery, Feed, Lists, TLC

CONSTANT Parts   \* the parts a run checks

VARIABLE part

vars == <<accountVars, contentVars, deliveryVars, feedVars, recVars, listVars, part>>

Init == AccountInit /\ ContentInit /\ DeliveryInit /\ FeedInit /\ ListInit
        /\ part \in Parts /\ (part # "lists" => kind = "posts")

Only(p) ==
    /\ part = p
    /\ UNCHANGED part
    /\ p \notin {"accounts", "workers"} => UNCHANGED accountVars
    /\ p # "comments" => UNCHANGED commentVars
    /\ p \notin {"subtitles", "preferences"} => UNCHANGED replaceVars
    /\ p # "lookup" => UNCHANGED lookup
    /\ p # "delivery" => UNCHANGED deliveryVars
    /\ p # "feed" => UNCHANGED feedVars
    /\ p # "rec" => UNCHANGED recVars
    /\ p # "lists" => UNCHANGED listVars

Next ==
    \/ Only("accounts") /\ AccountNext
    \/ Only("workers") /\ WorkerNext
    \/ Only("comments") /\ CommentNext
    \/ Only("subtitles") /\ SubtitleNext
    \/ Only("preferences") /\ PreferenceNext
    \/ Only("lookup") /\ LookupNext
    \/ Only("delivery") /\ DeliveryNext
    \/ Only("feed") /\ FeedNext
    \/ Only("rec") /\ RecNext
    \/ Only("lists") /\ ListNext

Spec == Init /\ [][Next]_vars /\ AccountFairness /\ DeliveryFairness

(* Every part keeps its types. *)
TypeOK == AccountTypeOK /\ ContentTypeOK /\ DeliveryTypeOK /\ FeedTypeOK /\ ListTypeOK
=============================================================================
