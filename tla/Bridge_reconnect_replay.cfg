SPECIFICATION Spec
CONSTANTS
  Bases = {b1}
  Robots = {r1}
  MaxEvents = 3
PROPERTIES NoReplayByReconnect
CHECK_DEADLOCK FALSE
