SPECIFICATION FairSpec
CONSTANTS
  Users = {u1}
  Keys = {k1}
  Procs = {p1}
  Timers = {t1}
  Videos = {v1}
  Faults = FALSE
  Bans = TRUE
  DVRConfigured = FALSE
  GraceOutlastsInstall = TRUE
  ScanLimit = 1
  MaxCrashes = 1
  NoUser = NoUser
  NoKey = NoKey
  NoTimer = NoTimer
  NoVideo = NoVideo
PROPERTIES GraceEnds SelfHealing
