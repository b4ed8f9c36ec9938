SPECIFICATION FeedFairSpec
CONSTANTS
  Messages = {1, 2}
  NoMessage = NoMessage
  MaxSends = 2
  Converts = TRUE
  ReaderLeaves = TRUE
  WriterLeaves = TRUE
  HandlerExits = TRUE
  WriterEnds = FALSE
  WriterAttached = FALSE
  Price <- MCPrice
CHECK_DEADLOCK FALSE
INVARIANTS
  FeedTypeOK
  Exclusion
  OneWriter
  RowsAreReports
  ReportsAgree
PROPERTIES
  IsChannel
  AllIsTold
