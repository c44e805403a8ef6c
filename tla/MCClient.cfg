SPECIFICATION Spec
CONSTANTS
  None = None
  Lives = {0, 2}
  MintFloor = 1
  RefreshSkew = 1
  MintCooldown = 1
  Caller = {c1, c2}
  Asked = {"get", "createComment"}
  HoldTicks = 1
  LongHold = 1
  SpacingTicks = 1
  HourTicks = 1
  Hourly = 1
  MaxWait = 0
  Backoff = 0
  Resets = {1}
INVARIANT CreationsAreSingle ValidatorsAreDropped
PROPERTY HoldIsHeeded MintsAreSpaced EveryCallEnds
