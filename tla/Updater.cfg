SPECIFICATION FairSpec
CONSTANTS
  c1 = c1
  c2 = c2
  c3 = c3
  c4 = c4
  r1 = r1
  r2 = r2
  Container <- MCContainer
  Request <- MCRequest
  Original = c1
  NoContainer = NoContainer
  Remembered = 1
  MaxOperations = 3
  MaxCrashes = 3
  MaxFaults = 2
CHECK_DEADLOCK FALSE
INVARIANTS
  TypeOK
  OneBridgeRunning
  OutageIsReported
  SuccessIsServing
  EndLeavesNoOrphan
  JournalCoversOutage
  NoReplay
PROPERTIES
  OperationEnds
  AbstractUpdate
