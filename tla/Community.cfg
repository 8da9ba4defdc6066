SPECIFICATION Spec
CONSTANTS
    Ids = {adm, u1}
    Names = {n1, n2}
    Admin = adm
    Sessions = {s1}
    Writers = {w1, w2}
    TokenLife = 1
    Workers = {k1, k2}
    StaleAfter = 2
    NoUser = NoUser
    CVideos = {v1, v2}
    Commenters = {q1, q2}
    MaxComments = 3
    PageSize = 1
    Replacers = {t1, t2}
    MaxBlocks = 2
    Categories = {g1, g2}
    Langs = {en, vi, ja}
    VI = vi
    NoVideoId = NoVideoId
    Clients = {c1}
    Followers = {f1, f2}
    Senders = {b1, b2}
    BufCap = 1
    FollowLimit = 2
    MaxEvents = 2
    NoFollower = NoFollower
    Vids = {1, 2}
    Mine = {1}
    Reels = {2}
    MaxHits = 1
    MaxPage = 2
    Limit = 1
    MaxTrains = 3
    Items = {i1, i2, i3}
    PageLimit = 1
    MaxWrites = 4
    Parts = {"accounts", "workers", "comments", "subtitles", "preferences", "lookup", "delivery", "feed", "rec", "lists"}
INVARIANTS TypeOK HeaderCoversPage LastReplaceStands LookupComplete NoSendOnClosed NotifyCoversFollowers OneModel NothingSkipped
PROPERTIES BanEndsSessions CrashedWorkerAgesOut LeaversAreReleased ServesOnlyPublic
CHECK_DEADLOCK FALSE
