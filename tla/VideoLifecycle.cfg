SPECIFICATION Spec
CONSTANTS
    Videos = {v1}
    Procs = {p1, p2}
    NoVideo = NoVideo
    Faults = TRUE
SYMMETRY Symmetry
INVARIANTS TypeOK StatusHasCause AnnouncedWasPublic
PROPERTIES DeletedStaysDeleted
