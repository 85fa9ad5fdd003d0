SPECIFICATION Spec
CONSTANTS
  c1 = c1
  c2 = c2
  c3 = c3
  c4 = c4
  r1 = r1
  r2 = r2
  Container <- MCContainer
  Request <- MCRequest
  Original = c1
  NoContainer = NoContainer
  Remembered = 2
  MaxOperations = 2
  MaxCrashes = 2
  MaxFaults = 0
CHECK_DEADLOCK FALSE
PROPERTY NoRollbackBeforeReplacement
