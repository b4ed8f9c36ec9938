SPECIFICATION Spec
CONSTANTS
  Ids = {o1, o2, o3}
  Symbols = {MSFT, GOOG}
  Prices = {1}
  NoPrice = NoPrice
  None = None
  JunkQuantities = {1}
  Timestamps = {1}
  Quantities = {1, 2}
  RequestTypes = {"NEW", "MODIFY", "CANCEL"}
  UniqueIds = TRUE
  StopsOnlyWhenIdle = FALSE
  MaxRequests = 3
  MaxRestarts = 1
SYMMETRY IdSymmetry
CHECK_DEADLOCK FALSE
INVARIANTS
  AckedIsDurable
PROPERTIES
  CancelIsFinal
