SPECIFICATION CloudSpec
CONSTANTS
  Requests = {r1, r2}
  MaxTimeouts = 2
  MaxLosses = 1
  MaxHandlers = 1
  Forced = {f1}
INVARIANT ClosedStaysClosed
CHECK_DEADLOCK FALSE
