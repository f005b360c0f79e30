SPECIFICATION Spec
CONSTANTS
  ToServerRoom = 5
  ToClientRoom = 18
  PollOutMin = 1
  BufferSize = 5
  ItemCount = 3
  MaxSessions = 1
  MayBeKilled = FALSE
  InForkOrder = TRUE
INVARIANTS
  EntireMessageSent
