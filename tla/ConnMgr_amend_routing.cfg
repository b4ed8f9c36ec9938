SPECIFICATION Spec
CONSTANTS
  Clients = {b1}
  MaxMessages = 2
  Modes <- OnlyAmends
  QueueLimit = 1
  BufferLimit = 1
  MaxForwards = 2
  Listener = Listener
  NoMessage = NoMessage
  Garbage = Garbage
  None = None
CHECK_DEADLOCK FALSE
INVARIANTS
  EachAnswerRouted
