SPECIFICATION Spec
CONSTANTS
  Users = {u1}
  Keys = {k1}
  Procs = {p1}
  Timers = {t1}
  Videos = {v1}
  Faults = FALSE
  Bans = FALSE
  DVRConfigured = FALSE
  GraceOutlastsInstall = TRUE
  ScanLimit = 1
  MaxCrashes = 0
  NoUser = NoUser
  NoKey = NoKey
  NoTimer = NoTimer
  NoVideo = NoVideo
SYMMETRY Symmetry
INVARIANTS GraceKeepsLive
