SPECIFICATION TbFairSpec
CONSTANTS
  b1 = b1
  b2 = b2
  Clients = {b1, b2}
  MaxMessages = 7
  Modes <- MCModes
  QueueLimit = 1
  BufferLimit = 1
  MaxForwards = 7
  Listener = Listener
  NoMessage = NoMessage
  Garbage = Garbage
  None = None
  CommandLines <- MCCommandLines
  SocketLimit = 1
CHECK_DEADLOCK FALSE
INVARIANTS
  TbTypeOK
  RepetitionsHaveCause
  StrayIsRepeated
PROPERTIES
  AnsweredOrJammed
