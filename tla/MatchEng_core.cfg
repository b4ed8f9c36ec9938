SPECIFICATION Spec
CONSTANTS
  Ids = {o1, o2, o3}
  Symbols = {MSFT}
  Prices = {1, 2}
  NoPrice = NoPrice
  None = None
  JunkQuantities = {1}
  Timestamps = {1, 2}
  Quantities = {0, 1, 2, 3}
  RequestTypes = {"NEW"}
  UniqueIds = TRUE
  StopsOnlyWhenIdle = TRUE
  MaxRequests = 3
  MaxRestarts = 0
SYMMETRY IdSymmetry
CHECK_DEADLOCK FALSE
INVARIANTS
  TypeOK
  PriceTimePriority
  TradesWithinLimits
  Conservation
