SPECIFICATION Spec
CONSTANTS
  Ids = {o1, o2}
  Symbols = {MSFT}
  Prices = {1}
  NoPrice = NoPrice
  None = None
  JunkQuantities = {3}
  Timestamps = {1}
  Quantities = {1}
  RequestTypes = {"NEW"}
  UniqueIds = TRUE
  StopsOnlyWhenIdle = FALSE
  MaxRequests = 2
  MaxRestarts = 1
SYMMETRY IdSymmetry
CHECK_DEADLOCK FALSE
INVARIANTS
  FilledOrdersDeleted
