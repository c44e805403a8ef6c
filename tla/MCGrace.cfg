SPECIFICATION Spec
CONSTANTS
  None = None
  Unknown = Unknown
  Invalid = Invalid
  PerSecond = 1
  MinGrace = 1
  Person = {a, b}
  RemindAfter = 1
  Hours = {1, 2}
  MaxNow = 4
  LastChange = 3
  MaxHuman = 1
  MaxFaults = 1
PROPERTY  ActivityIsHeeded 
CHECK_DEADLOCK FALSE
