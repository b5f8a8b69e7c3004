CONSTANTS
  Server = {s1, s2}
  Call = {c1, c2, c3}
  None = None
  Sizes <- AllSizes
  MaxOrderUsd = 4
  DailyLimitUsd = 5
  LastDay = 2
  MaxCrashes = 1
  BootDisk <- AnyBootDisk
  Orphans = FALSE
  HolderMayStall = FALSE
  FsMayFail = TRUE
  ReadMayFail = FALSE
  UnlinkMayFail = FALSE
SPECIFICATION Spec
CHECK_DEADLOCK FALSE
SYMMETRY Servers
INVARIANTS ExposureWithinDailyLimit DiskCoversLedger
PROPERTIES CorruptFileGrantsNothing ImplementsBudget
