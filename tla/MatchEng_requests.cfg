SPECIFICATION Spec
CONSTANTS
  Ids = {o1, o2, o3}
  Symbols = {MSFT}
  Prices = {1, 2}
  NoPrice = NoPrice
  None = None
  JunkQuantities = {3}
  Timestamps = {1}
  Quantities = {1, 2}
  RequestTypes = {"NEW", "MALFORMED", "MODIFY", "CANCEL"}
  UniqueIds = TRUE
  StopsOnlyWhenIdle = TRUE
  MaxRequests = 3
  MaxRestarts = 2
SYMMETRY IdSymmetry
CHECK_DEADLOCK FALSE
INVARIANTS
  PriceTimePriority
  Uncrossed
  Cancelable
  Conservation
  LimitRowsRest
  LoadNeverTrades
PROPERTIES
  CancelIsFinal
