SPECIFICATION FairSpec
CONSTANTS
  Accounts = {a1}
  NoId = NoId
  NoAcc = NoAcc
  NoCopy = NoCopy
  Reports <- FewReports
  Limits <- TightOnly
  Defaults <- Tight
  LimitUpdates <- NoUpdates
  EnvPins <- MCEnvPins
  DayLength = 1
  FreshFor = 1
  RedisTTL = 1
  MaxCommands = 2
  MaxTime = 0
  RedisMayFail = TRUE
  DiskMayFail = TRUE
INVARIANT HaltRecorded
PROPERTY GuardianComesUp
