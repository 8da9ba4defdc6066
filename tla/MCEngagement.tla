---------------------------- MODULE MCEngagement ----------------------------
(***************************************************************************)
(* Toggles and Views for TLC.  They share no state, so a behaviour is one  *)
(* of the two: `part' says which, and the other stands still.              *)
(***************************************************************************)
EXTENDS Toggles, Views, TLC

VARIABLE part

vars == <<toggleVars, viewVars, part>>

Init ==
    /\ ToggleInit /\ ViewInit
    /\ \/ part = "toggles" /\ cache
       \/ part = "views" /\ hasRedis /\ GetLikeCount("like") = 0

Next ==
    \/ part = "toggles" /\ ToggleNext /\ UNCHANGED <<viewVars, part>>
    \/ part = "views" /\ ViewNext /\ UNCHANGED <<toggleVars, part>>

Spec == Init /\ [][Next]_vars

(* The values of the toggles and of the view counter keep their types: no answer below zero,  *)
(* no negative pending count (like.go ToggleLike, view.go SyncBatchViewsToPostgres).          *)
TypeOK == ToggleTypeOK /\ ViewTypeOK

Symmetry == Permutations(Requests) \cup Permutations(Recorders) \cup Permutations(Videos)
=============================================================================
