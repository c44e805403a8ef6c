\* The schedule: two repositories, two items, one window, one fault.
CONSTANTS
  Repo = {r1, r2}
  Item = {1, 2}
  None = None
  Cadence = 1
  Settle = 0
  MaxAge = 0
  Lag = 1
  Budget = 4
  ListCost = 1
  ItemCost = 2
  GateCost = 1
  WriteCap = 1
  Happens = {"close"}
  MaxFaults = 1
SPECIFICATION SpecAnew
INVARIANTS
  CursorSkipsNothing
PROPERTIES
  NoOvertaking
  ComesRound
