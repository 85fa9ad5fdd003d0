SPECIFICATION Spec
CONSTANTS
  Bases = {b1, b2}
  Robots = {r1}
  MaxEvents = 4
INVARIANTS TypeOK NoReplayByStart
PROPERTIES AliveIsSeen
CHECK_DEADLOCK FALSE
