SPECIFICATION Spec
CONSTANTS
  None = None
  Unknown = Unknown
  Invalid = Invalid
  PerSecond = 2
  MinGrace = 1
  Lane = {d, s}
  Delivery = {d}
  Movable = {"needsReview", "needsRevision"}
  MaxNow = 2
  MaxHuman = 1
  MaxLosses = 1
PROPERTY GateYieldsToHuman MoveLandsWhole PositionIsKept
