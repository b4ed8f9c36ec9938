SPECIFICATION Spec
CONSTANTS
  Clients = {b1, b2}
  MaxMessages = 2
  Modes <- MCModes
  QueueLimit = 1
  BufferLimit = 1
  MaxForwards = 4
  Listener = Listener
  NoMessage = NoMessage
  Garbage = Garbage
  None = None
SYMMETRY BotSymmetry
CHECK_DEADLOCK FALSE
INVARIANTS
  TypeOK
  InOrderOnce
  SameStream
  RoutedToSender
  FirstAnswerRouted
