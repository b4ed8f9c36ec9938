SPECIFICATION ExFairSpec
CONSTANTS
  Ids = {o1, o2}
  Symbols = {MSFT}
  Prices = {1, 2}
  NoPrice = NoPrice
  None = None
  JunkQuantities = {1}
  Timestamps = {1}
  Quantities = {1, 2}
  RequestTypes = {"NEW", "MODIFY", "CANCEL"}
  UniqueIds = TRUE
  StopsOnlyWhenIdle = TRUE
  MaxRequests = 2
  MaxRestarts = 1
  Depth = 2
CHECK_DEADLOCK FALSE
INVARIANTS
  ExTypeOK
  ClientsSeeTheBook
  PublishedUncrossed
  LevelsOrdered
PROPERTIES
  SameBooks
  AllIsHandled
