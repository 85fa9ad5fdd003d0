SPECIFICATION Spec
CONSTANTS
  Bases = {b1}
  Robots = {r1}
  MaxEvents = 2
PROPERTIES DeadIsSeen
CHECK_DEADLOCK FALSE
