SPECIFICATION Spec
CONSTANTS
  Ids = {o1, o2}
  Symbols = {MSFT}
  Prices = {1}
  NoPrice = NoPrice
  None = None
  JunkQuantities = {3}
  Timestamps = {1}
  Quantities = {1, 2}
  RequestTypes = {"NEW"}
  UniqueIds = TRUE
  StopsOnlyWhenIdle = TRUE
  MaxRequests = 2
  MaxRestarts = 0
SYMMETRY IdSymmetry
CHECK_DEADLOCK FALSE
INVARIANTS
  T1ReflectsBook
