SPECIFICATION Spec
CONSTANTS
  Bases = {b1, b2}
  Robots = {r1}
  MaxEvents = 2
INVARIANTS SavedIsApplied
CHECK_DEADLOCK FALSE
