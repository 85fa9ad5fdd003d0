SPECIFICATION Spec
CONSTANTS
  Bases = {b1}
  Robots = {r1, r2}
  MaxEvents = 4
PROPERTIES StaleTopicsDeleted
CHECK_DEADLOCK FALSE
