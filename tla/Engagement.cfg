SPECIFICATION Spec
CONSTANTS
    Users = {owner, u1}
    Owner = owner
    Requests = {r1, r2, r3}
    NoRow = NoRow
    Old = Old
    Faults = TRUE
    Videos = {v1, v2}
    Viewers = {x1}
    Recorders = {q1, q2}
    MaxViews = 2
    MaxSyncs = 1
    CounterFaults = TRUE
    NoVid = NoVid
SYMMETRY Symmetry
INVARIANTS TypeOK CounterFollowsTable NoLikeOfDeletedPost ViewsConserved NeverShowsTooMany
PROPERTIES AnswerTrueUnlessOvertaken
CHECK_DEADLOCK FALSE
