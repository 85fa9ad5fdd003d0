SPECIFICATION FairSpec
CONSTANTS
  StaleAfter = 1
  ReconnectAfter = 1
  RebuildAfter = 1
  ResetAfter = 2
  RestartAfter = 2
  RecoveryHysteresis = 2
  MaxRestarts = 1
  RestartWindow = 4
  PollInterval = 1
  DirectEnabled = TRUE
  MayHang = {"loop", "dispatcher", "rebuild"}
  DiskMayFail = FALSE
INVARIANTS
  TypeOK
  RestartsLimited
  RepairExcludesPolling
PROPERTY
  DispatcherAloneRestarts
  FlickerRestarts
