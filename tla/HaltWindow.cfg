SPECIFICATION Spec
CONSTANTS
  Accounts = {a1, a2}
  NoId = NoId
  NoAcc = NoAcc
  NoCopy = NoCopy
  Reports <- FewReports
  Limits <- MCLimits
  Defaults <- Tight
  LimitUpdates <- MCUpdates
  EnvPins <- MCEnvPins
  DayLength = 1
  FreshFor = 1
  RedisTTL = 1
  MaxCommands = 2
  MaxTime = 2
  RedisMayFail = FALSE
  DiskMayFail = FALSE
INVARIANT EntryGated
PROPERTIES DrawdownHaltSticky RestartsInvisible
