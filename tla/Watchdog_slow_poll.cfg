SPECIFICATION FairSpec
CONSTANTS
  StaleAfter = 1
  ReconnectAfter = 1
  RebuildAfter = 2
  ResetAfter = 2
  RestartAfter = 3
  RecoveryHysteresis = 2
  MaxRestarts = 1
  RestartWindow = 4
  PollInterval = 1
  DirectEnabled = TRUE
  MayHang = {}
  DiskMayFail = FALSE
INVARIANT
  OutageNeverRestarts
