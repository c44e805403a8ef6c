\* One process's life, from its environment to its exit.
SPECIFICATION Spec
CONSTANTS
  Connection = {c1, c2}
  Recovery = {r1, r2}
  MaxQueue = 2
PROPERTY
  StopEnds
CHECK_DEADLOCK FALSE
