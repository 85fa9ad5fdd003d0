SPECIFICATION Spec
CONSTANTS
  Bases = {b1}
  Robots = {r1}
  MaxEvents = 3
INVARIANTS NoSetReplayByStart
CHECK_DEADLOCK FALSE
