CONSTANTS
  Server = {s1, s2}
  Call = {c1, c2}
  None = None
  Sizes <- OneSize
  MaxOrderUsd = 4
  DailyLimitUsd = 5
  LastDay = 2
  MaxCrashes = 1
  BootDisk <- MissingBootDisk
  Orphans = TRUE
  HolderMayStall = TRUE
  FsMayFail = TRUE
  ReadMayFail = TRUE
  UnlinkMayFail = TRUE
SPECIFICATION KindSpec
CHECK_DEADLOCK FALSE
INVARIANT LoneProcessKeepsCap
PROPERTY LockWaitEnds
