SPECIFICATION Spec
CONSTANTS
  Clients = {b1, b2}
  MaxMessages = 1
  Modes <- OnlyLeaves
  QueueLimit = 1
  BufferLimit = 1
  MaxForwards = 3
  Listener = Listener
  NoMessage = NoMessage
  Garbage = Garbage
  None = None
CHECK_DEADLOCK FALSE
SYMMETRY BotSymmetry
INVARIANTS
  OrdersAreUnique
